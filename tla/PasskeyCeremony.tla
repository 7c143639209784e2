--------------------------- MODULE PasskeyCeremony ---------------------------
(***************************************************************************)
(* Passkey ceremonies of one admin: the broker that shows them to the      *)
(* browser and calls back (mssh_passkey: storage.py, views, callback.py,   *)
(* sweeper.py) and the CA that starts them and verifies what comes back    *)
(* (admin.py, passkey.py).                                                 *)
(*                                                                         *)
(* Both are threaded servers.  A broker view reads a row and updates it in *)
(* two steps; each UPDATE is one, under the store's lock.  The CA's maps   *)
(* of pending ceremonies and its 2FA cache are in memory only.             *)
(***************************************************************************)
EXTENDS Naturals, FiniteSets

CONSTANTS
  Ceremony,     \* ceremony ids
  First,        \* the credential enrolled at the start
  Attempts,     \* len(_BACKOFF_SECONDS)
  MaxRestarts   \* bound: restarts of the broker and the CA together

ASSUME CeremonyAssumption ==
  /\ First \notin Ceremony
  /\ Attempts \in Nat \ {0}
  /\ MaxRestarts \in Nat

\* A registration makes a new credential: it is named by its ceremony.
Cred == Ceremony \cup {First}

VARIABLES
  row,       \* broker: the table ceremonies
  views,     \* broker: the views that have read a row and not yet updated it
  todo,      \* broker: what is left of the worker's last poll
  thread,    \* broker: the delivery thread of a ceremony, in _in_flight while not "none"
  late,      \* callbacks in flight that the broker no longer waits for
  pend,      \* CA: where a ceremony is between its creation and its callback
  active,    \* CA: the credentials enrolled and not revoked
  count,     \* CA: the sign count stored with a credential
  signed,    \* authenticators: the sign count each has reached
  check,     \* CA: a callback handler past verify_authentication
  window,    \* CA: passkey_2fa_cache holds a fresh entry
  revoking,  \* CA: revocations that have not yet popped the 2FA cache
  accepted,  \* history: how often a ceremony's answer was accepted
  restarts

brokerVars == <<row, views, todo, thread>>
caVars == <<pend, active, count, check, window, revoking, accepted>>
vars == <<row, views, todo, thread, late, pend, active, count, signed, check,
          window, revoking, accepted, restarts>>

Outcomes == {"approved", "denied", "expired", "cancelled"}
NoRow == [type |-> "none", outcome |-> "none", cred |-> First, count |-> 0,
          callback |-> "none", due |-> FALSE]
NoThread == [pc |-> "none", left |-> 0]

View == [of : Ceremony, does : {"approved", "denied", "cancelled"}, cred : Cred, count : Nat]

\* Every variable has its type.
TypeOK ==
  /\ row \in [Ceremony -> [type : {"none", "register", "approve"},
                           outcome : Outcomes \cup {"none"}, cred : Cred, count : Nat,
                           callback : {"none", "pending", "delivered", "failed"},
                           due : BOOLEAN]]
  /\ views \subseteq View
  /\ todo \subseteq Ceremony
  /\ thread \in [Ceremony -> [pc : {"none", "next", "sent", "handling", "ok"},
                              left : 0..Attempts]]
  /\ late \subseteq Ceremony
  /\ pend \in [Ceremony -> {"none", "creating", "stashed"}]
  /\ active \subseteq Cred
  /\ count \in [Cred -> Nat]
  /\ signed \in [Cred -> Nat]
  /\ check \in [Ceremony -> {"none", "verified", "counted"}]
  /\ window \in BOOLEAN
  /\ revoking \subseteq Cred
  /\ accepted \in [Ceremony -> Nat]
  /\ restarts \in 0..MaxRestarts

Init ==
  /\ row = [c \in Ceremony |-> NoRow]
  /\ views = {}
  /\ todo = {}
  /\ thread = [c \in Ceremony |-> NoThread]
  /\ late = {}
  /\ pend = [c \in Ceremony |-> "none"]
  /\ active = {First}
  /\ count = [k \in Cred |-> 0]
  /\ signed = [k \in Cred |-> 0]
  /\ check = [c \in Ceremony |-> "none"]
  /\ window = FALSE
  /\ revoking = {}
  /\ accepted = [c \in Ceremony |-> 0]
  /\ restarts = 0

-----------------------------------------------------------------------------
(* The CA starts a ceremony *)

\* passkey_admin_enroll and passkey_admin_challenge: the broker stores the
\* ceremony.  A challenge needs a credential; it may be asked for while a 2FA
\* entry is fresh, since each policy has its own twofa_within_seconds ...
Create(c, type) ==
  /\ row[c] = NoRow
  /\ type = "approve" => active # {}
  /\ row' = [row EXCEPT ![c].type = type]
  /\ pend' = [pend EXCEPT ![c] = "creating"]
  /\ UNCHANGED <<views, todo, thread, late, active, count, signed, check, window,
                 revoking, accepted, restarts>>

\* ... and when the answer has come the CA keeps the challenge, under the id,
\* or the answer is lost and the caller gets an error.
Stash(c) ==
  /\ pend[c] = "creating"
  /\ pend' \in {[pend EXCEPT ![c] = p] : p \in {"stashed", "none"}}
  /\ UNCHANGED <<brokerVars, late, active, count, signed, check, window, revoking,
                 accepted, restarts>>

-----------------------------------------------------------------------------
(* The broker's views *)

Open(c) == row[c].type # "none" /\ row[c].outcome = "none"

\* Bound: one view of a kind at a time.
Shows(c, v) ==
  /\ views' = views \cup {v}
  /\ \A w \in views : w.of # c \/ w.does # v.does
  /\ UNCHANGED <<row, todo, thread, late, caVars, restarts>>

\* register_respond: the row is neither terminal nor expired.
ReadRegister(c) ==
  /\ Open(c) /\ row[c].type = "register" /\ ~row[c].due
  /\ Shows(c, [of |-> c, does |-> "approved", cred |-> c, count |-> 0])
  /\ UNCHANGED signed

\* approve_respond: the same; the authenticator counts what it signs.
ReadApprove(c, k) ==
  /\ Open(c) /\ row[c].type = "approve" /\ ~row[c].due
  /\ signed' = [signed EXCEPT ![k] = @ + 1]
  /\ Shows(c, [of |-> c, does |-> "approved", cred |-> k, count |-> signed'[k]])

\* approve_deny and cancel_ceremony do not look at the expiry.
ReadOther(c, does) ==
  /\ Open(c)
  /\ does = "denied" => row[c].type = "approve"
  /\ Shows(c, [of |-> c, does |-> does, cred |-> First, count |-> 0])
  /\ UNCHANGED signed

\* Mutant of Record: the last writer wins.
RecordAlways(v) ==
  /\ v \in views
  /\ views' = views \ {v}
  /\ row' = [row EXCEPT ![v.of].outcome = v.does, ![v.of].cred = v.cred,
                        ![v.of].count = v.count,
                        ![v.of].callback = IF v.does = "cancelled" THEN "none" ELSE "pending"]
  /\ UNCHANGED <<todo, thread, late, caVars, signed, restarts>>

\* record_response: UPDATE ... WHERE outcome IS NULL.
Record(v) ==
  /\ v \in views
  /\ views' = views \ {v}
  /\ row' = IF row[v.of].outcome = "none"
            THEN [row EXCEPT ![v.of].outcome = v.does, ![v.of].cred = v.cred,
                             ![v.of].count = v.count,
                             ![v.of].callback = IF v.does = "cancelled" THEN "none" ELSE "pending"]
            ELSE row
  /\ UNCHANGED <<todo, thread, late, caVars, signed, restarts>>

\* expires_at passes.
Due(c) ==
  /\ row[c].type # "none" /\ ~row[c].due
  /\ row' = [row EXCEPT ![c].due = TRUE]
  /\ UNCHANGED <<views, todo, thread, late, caVars, signed, restarts>>

\* Mutant of Overdue: a row that a view has read is left to the view.
OverdueUnread == {c \in Ceremony : Open(c) /\ row[c].due /\ \A v \in views : v.of # c}

\* The rows sweep_expired selects.
Overdue == {c \in Ceremony : Open(c) /\ row[c].due}

\* sweep_expired, in one transaction.
Sweep ==
  /\ Overdue # {}
  /\ row' = [c \in Ceremony |-> IF c \in Overdue
                                THEN [row[c] EXCEPT !.outcome = "expired", !.callback = "pending"]
                                ELSE row[c]]
  /\ UNCHANGED <<views, todo, thread, late, caVars, signed, restarts>>

-----------------------------------------------------------------------------
(* The broker's callbacks *)

Pending == {c \in Ceremony : row[c].callback = "pending"}

\* CallbackWorker.run polls the store ...
Poll ==
  /\ todo = {} /\ Pending # {}
  /\ todo' = Pending
  /\ UNCHANGED <<row, views, thread, late, caVars, signed, restarts>>

\* ... and starts a thread for what it read, unless one is in flight.
Dispatch(c) ==
  /\ c \in todo
  /\ todo' = todo \ {c}
  /\ thread' = IF thread[c].pc = "none"
               THEN [thread EXCEPT ![c] = [pc |-> "next", left |-> Attempts]]
               ELSE thread
  /\ UNCHANGED <<row, views, late, caVars, signed, restarts>>

\* Mutant of Send: one attempt too many.
SendOnceMore(c) ==
  /\ thread[c].pc = "next"
  /\ thread' = [thread EXCEPT ![c].pc = "sent", ![c].left = @ - 1]
  /\ UNCHANGED <<row, views, todo, late, caVars, signed, restarts>>

\* The next attempt of deliver_with_retry.
Send(c) ==
  /\ thread[c].pc = "next" /\ thread[c].left > 0
  /\ thread' = [thread EXCEPT ![c].pc = "sent", ![c].left = @ - 1]
  /\ UNCHANGED <<row, views, todo, late, caVars, signed, restarts>>

\* No answer: the connection fails, or the time is up and the request, if it is
\* not yet at the CA, is still on its way.
GiveUp(c) ==
  /\ thread[c].pc \in {"sent", "handling"}
  /\ thread' = [thread EXCEPT ![c].pc = "next"]
  /\ late' \in {late, late \cup {d \in {c} : thread[d].pc = "sent"}}
  /\ UNCHANGED <<row, views, todo, caVars, signed, restarts>>

\* mark_callback_delivered, and the thread leaves _in_flight.
Delivered(c) ==
  /\ thread[c].pc = "ok"
  /\ row' = [row EXCEPT ![c].callback = "delivered"]
  /\ thread' = [thread EXCEPT ![c] = NoThread]
  /\ UNCHANGED <<views, todo, late, caVars, signed, restarts>>

\* Mutant of Exhausted: the thread tries for ever.
ExhaustedRetries(c) ==
  /\ thread[c].pc = "next" /\ thread[c].left = 0
  /\ thread' = [thread EXCEPT ![c].left = Attempts]
  /\ UNCHANGED <<row, views, todo, late, caVars, signed, restarts>>

\* mark_callback_failed after the last attempt.
Exhausted(c) ==
  /\ thread[c].pc = "next" /\ thread[c].left = 0
  /\ row' = [row EXCEPT ![c].callback = "failed"]
  /\ thread' = [thread EXCEPT ![c] = NoThread]
  /\ UNCHANGED <<views, todo, late, caVars, signed, restarts>>

-----------------------------------------------------------------------------
(* The CA's callback handler *)

\* The callback of c that arrives is that of its thread, or a late one.
Arrives(c) == thread[c].pc = "sent" \/ c \in late

\* How it is answered: "ok", an error (the thread goes on with "next") or not
\* yet ("handling").  Nobody waits for the answer to a late one.
Answer(c, how) ==
  \/ /\ thread[c].pc = "sent"
     /\ thread' = [thread EXCEPT ![c].pc = how]
     /\ UNCHANGED late
  \/ /\ c \in late
     /\ late' = late \ {c}
     /\ UNCHANGED thread

\* The sign count has advanced.
Advanced(c) == row[c].count > count[row[c].cred]

\* Mutant of Pop: the ceremony is read and not taken.
PopNot(c) == pend[c] = "stashed" /\ pend' = pend

\* The first callback takes the ceremony out of its map.
Pop(c) == pend[c] = "stashed" /\ pend' = [pend EXCEPT ![c] = "none"]

\* Mutant of Unknown: a repeated callback is answered as if it were the first.
UnknownIsDone(c) ==
  /\ Arrives(c)
  /\ pend[c] # "stashed"
  /\ Answer(c, "ok")
  /\ UNCHANGED <<row, views, todo, caVars, signed, restarts>>

\* Not pending, or not pending any more: 404.
Unknown(c) ==
  /\ Arrives(c)
  /\ pend[c] # "stashed"
  /\ Answer(c, "next")
  /\ UNCHANGED <<row, views, todo, caVars, signed, restarts>>

\* The outcome is not an approval.
Failed(c) ==
  /\ Arrives(c)
  /\ row[c].outcome # "approved"
  /\ Pop(c)
  /\ Answer(c, "ok")
  /\ UNCHANGED <<row, views, todo, active, count, check, window, revoking, accepted,
                 signed, restarts>>

\* A registration is verified and the credential added.
Registered(c) ==
  /\ Arrives(c)
  /\ row[c].type = "register" /\ row[c].outcome = "approved"
  /\ Pop(c)
  /\ active' = active \cup {row[c].cred}
  /\ accepted' = [accepted EXCEPT ![c] = @ + 1]
  /\ Answer(c, "ok")
  /\ UNCHANGED <<row, views, todo, count, check, window, revoking, signed, restarts>>

\* verify_authentication: the credential is not revoked and its count advanced;
\* the handler has more to do.
Verified(c) ==
  /\ Arrives(c)
  /\ row[c].type = "approve" /\ row[c].outcome = "approved"
  /\ row[c].cred \in active /\ Advanced(c)
  /\ Pop(c)
  /\ check' = [check EXCEPT ![c] = "verified"]
  /\ Answer(c, "handling")
  /\ UNCHANGED <<row, views, todo, active, count, window, revoking, accepted,
                 signed, restarts>>

\* Verification refuses the answer after the ceremony was taken: it is none to
\* this challenge, or the device is not on the list, or the credential is
\* revoked, or its count has not advanced.
Refused(c) ==
  /\ Arrives(c)
  /\ row[c].outcome = "approved"
  /\ Pop(c)
  /\ Answer(c, "next")
  /\ UNCHANGED <<row, views, todo, active, count, check, window, revoking, accepted,
                 signed, restarts>>

\* update_admin_passkey_sign_count
Count(c) ==
  /\ check[c] = "verified"
  /\ count' = [count EXCEPT ![row[c].cred] = row[c].count]
  /\ check' = [check EXCEPT ![c] = "counted"]
  /\ UNCHANGED <<brokerVars, late, pend, active, window, revoking, accepted, signed, restarts>>

\* The 2FA cache is set and the callback answered.
Approved(c) ==
  /\ check[c] = "counted"
  /\ window' = TRUE
  /\ check' = [check EXCEPT ![c] = "none"]
  /\ accepted' = [accepted EXCEPT ![c] = @ + 1]
  /\ thread' = IF thread[c].pc = "handling" THEN [thread EXCEPT ![c].pc = "ok"] ELSE thread
  /\ UNCHANGED <<row, views, todo, late, pend, active, count, revoking, signed, restarts>>

\* passkey_admin_revoke: the credential is revoked ...
Revoke(k) ==
  /\ k \in active
  /\ active' = active \ {k}
  /\ revoking' = revoking \cup {k}
  /\ UNCHANGED <<brokerVars, late, pend, count, check, window, accepted, signed, restarts>>

\* ... and then the 2FA cache is popped.
RevokePop(k) ==
  /\ k \in revoking
  /\ revoking' = revoking \ {k}
  /\ window' = FALSE
  /\ UNCHANGED <<brokerVars, late, pend, active, count, check, accepted, signed, restarts>>

\* The 2FA entry ages beyond twofa_within_seconds.
WindowPasses ==
  /\ window
  /\ window' = FALSE
  /\ UNCHANGED <<brokerVars, late, pend, active, count, check, revoking, accepted,
                 signed, restarts>>

-----------------------------------------------------------------------------
(* Restarts *)

\* The store survives; views, the worker's poll and the threads do not.  A
\* request that was sent may still arrive.
BrokerRestart ==
  /\ restarts < MaxRestarts
  /\ restarts' = restarts + 1
  /\ views' = {}
  /\ todo' = {}
  /\ thread' = [c \in Ceremony |-> NoThread]
  /\ late' \in {late, late \cup {c \in Ceremony : thread[c].pc = "sent"}}
  /\ UNCHANGED <<row, caVars, signed>>

\* The enrollment survives; the pending ceremonies and the 2FA cache do not.
CARestart ==
  /\ restarts < MaxRestarts
  /\ restarts' = restarts + 1
  /\ pend' = [c \in Ceremony |-> "none"]
  /\ check' = [c \in Ceremony |-> "none"]
  /\ window' = FALSE
  /\ revoking' = {}
  /\ UNCHANGED <<brokerVars, late, active, count, accepted, signed>>

-----------------------------------------------------------------------------

BrokerNext ==
  \/ \E c \in Ceremony :
       \/ ReadRegister(c)
       \/ \E k \in Cred : ReadApprove(c, k)
       \/ \E does \in {"denied", "cancelled"} : ReadOther(c, does)
       \/ Due(c) \/ Dispatch(c) \/ Send(c) \/ GiveUp(c) \/ Delivered(c) \/ Exhausted(c)
  \/ \E v \in views : Record(v)
  \/ Sweep \/ Poll \/ BrokerRestart

CANext ==
  \/ \E c \in Ceremony :
       \/ \E type \in {"register", "approve"} : Create(c, type)
       \/ Stash(c) \/ Unknown(c) \/ Failed(c) \/ Registered(c) \/ Verified(c) \/ Refused(c)
       \/ Count(c) \/ Approved(c)
  \/ \E k \in Cred : Revoke(k) \/ RevokePop(k)
  \/ WindowPasses \/ CARestart

Next == BrokerNext \/ CANext

Spec == Init /\ [][Next]_vars

\* Time passes, the sweeper and the worker go round, and a delivery thread ends
\* each attempt within its timeout.  Nothing is promised of users or of the CA.
FairSpec ==
  /\ Spec
  /\ WF_vars(Sweep) /\ WF_vars(Poll)
  /\ \A c \in Ceremony :
       /\ WF_vars(Due(c)) /\ WF_vars(Dispatch(c))
       /\ WF_vars(Send(c) \/ GiveUp(c) \/ Delivered(c) \/ Exhausted(c))

-----------------------------------------------------------------------------
(* Properties *)

\* A ceremony gets one outcome, with the answer that came with it, however the
\* views, the back end's cancellation and the sweeper race
\* (storage.py:165-219, views_public.py:62-152).
OutcomeOnce ==
  [][\A c \in Ceremony :
       row[c].outcome # "none" =>
         /\ row'[c].outcome = row[c].outcome
         /\ row'[c].cred = row[c].cred
         /\ row'[c].count = row[c].count]_vars

\* Whatever is delivered again, late, or across restarts, an answer is accepted
\* at most once, and only one the user approved; a fresh 2FA entry has such an
\* answer to an authentication behind it (admin.py:2267-2427).
AcceptedOnce ==
  /\ \A c \in Ceremony :
       /\ accepted[c] <= 1
       /\ accepted[c] = 1 => row[c].outcome = "approved"
  /\ window => \E c \in Ceremony : row[c].type = "approve" /\ accepted[c] = 1

\* A callback the broker records as delivered has had its effect: the CA waits
\* for the ceremony no longer and has accepted an approval
\* (callback.py:74-92, admin.py:2267-2427).
DeliveredMeansDone ==
  \A c \in Ceremony :
    row[c].callback = "delivered" =>
      /\ pend[c] # "stashed"
      /\ row[c].outcome = "approved" => accepted[c] = 1

\* Every ceremony gets an outcome (sweeper.py:30-41).
OutcomeComes ==
  \A c \in Ceremony : (row[c].type # "none") ~> (row[c].outcome # "none")

\* Every callback ends delivered or given up, however often the broker restarts
\* in between, and with a CA that never answers (callback.py:74-131).
CallbackEnds ==
  \A c \in Ceremony : (row[c].callback = "pending") ~> (row[c].callback # "pending")

-----------------------------------------------------------------------------
(* What a comment says and the code does not do *)

\* callback.py:106-107: "Track which ceremonies have a delivery thread in-flight
\* so we don't dispatch the same one twice."  A thread is started only for a
\* callback that has not been dispatched and delivered.
DispatchedOnce ==
  [][\A c \in Ceremony :
       thread[c].pc = "none" /\ thread'[c].pc # "none" => row[c].callback = "pending"]_vars
=============================================================================
