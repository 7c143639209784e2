------------------------ MODULE PasskeyCeremonyProofs ------------------------
(***************************************************************************)
(* One outcome, one acceptance and an honest delivery status, for any      *)
(* number of ceremonies, attempts and restarts.                            *)
(***************************************************************************)
EXTENDS PasskeyCeremony, TLAPS

Row == [type : {"none", "register", "approve"}, outcome : Outcomes \cup {"none"},
        cred : Cred, count : Nat, callback : {"none", "pending", "delivered", "failed"},
        due : BOOLEAN]
Thread == [pc : {"none", "next", "sent", "handling", "ok"}, left : 0..Attempts]

\* The CA has done with c what its outcome asks for.
Done(c) ==
  /\ pend[c] = "none"
  /\ row[c].outcome = "approved" => accepted[c] = 1

\* What makes the properties inductive: a ceremony is at the CA in one place at a
\* time, in its map of pending ones, in a handler, or accepted; the broker calls
\* back only with an outcome, and hears "ok" only of what is done.
Good(c) ==
  /\ row[c].type = "none" => pend[c] = "none"
  /\ pend[c] # "none" => check[c] = "none" /\ accepted[c] = 0
  /\ check[c] # "none" =>
       row[c].type = "approve" /\ row[c].outcome = "approved" /\ accepted[c] = 0
  /\ accepted[c] <= 1
  /\ accepted[c] = 1 => row[c].outcome = "approved"
  /\ c \in todo \cup late => row[c].outcome # "none"
  /\ thread[c].pc # "none" => row[c].outcome # "none"
  /\ row[c].callback # "none" => row[c].outcome # "none"
  /\ thread[c].pc = "ok" => Done(c)
  /\ row[c].callback = "delivered" => Done(c)

WindowFounded == window => \E c \in Ceremony : row[c].type = "approve" /\ accepted[c] = 1

CInv == TypeOK /\ (\A c \in Ceremony : Good(c)) /\ WindowFounded

\* What the actions have in common: the types of the parts they change.
LEMMA RowTyped ==
  ASSUME TypeOK
  PROVE  /\ row \in [Ceremony -> Row]
         /\ thread \in [Ceremony -> Thread]
         /\ pend \in [Ceremony -> {"none", "creating", "stashed"}]
         /\ check \in [Ceremony -> {"none", "verified", "counted"}]
         /\ accepted \in [Ceremony -> Nat]
BY DEF TypeOK, Row, Thread

-----------------------------------------------------------------------------
(* Types *)

LEMMA TypeInit == Init => TypeOK
<1>. SUFFICES ASSUME Init PROVE TypeOK
  OBVIOUS
<1>. USE CeremonyAssumption
<1>1. First \in Cred
  BY DEF Cred
<1>2. row \in [Ceremony -> Row]
  BY <1>1 DEF Init, NoRow, Row
<1>3. thread \in [Ceremony -> Thread]
  BY DEF Init, NoThread, Thread
<1>4. restarts \in 0..MaxRestarts
  BY DEF Init
<1>. QED  BY <1>1, <1>2, <1>3, <1>4 DEF Init, TypeOK, Row, Thread

LEMMA TypeStep == TypeOK /\ [Next]_vars => TypeOK'
<1>. SUFFICES ASSUME TypeOK, [Next]_vars PROVE TypeOK'
  OBVIOUS
<1>. USE CeremonyAssumption
<1>1. ASSUME NEW c \in Ceremony, NEW type \in {"register", "approve"}, Create(c, type)
      PROVE  TypeOK'
  <2>1. row[c] \in Row
    BY RowTyped
  <2>2. [row[c] EXCEPT !.type = type] \in Row
    BY <2>1 DEF Row
  <2>3. row' \in [Ceremony -> Row]
    BY <1>1, <2>2, RowTyped DEF Create
  <2>. QED  BY <1>1, <2>3 DEF Create, TypeOK, Row
<1>2. ASSUME NEW c \in Ceremony, Stash(c) PROVE TypeOK'
  <2>1. pend' \in [Ceremony -> {"none", "creating", "stashed"}]
    BY <1>2 DEF Stash, TypeOK
  <2>. QED  BY <1>2, <2>1 DEF Stash, TypeOK, brokerVars
<1>3. ASSUME NEW c \in Ceremony, ReadRegister(c) PROVE TypeOK'
  BY <1>3 DEF ReadRegister, Shows, TypeOK, caVars, View, Cred
<1>4. ASSUME NEW c \in Ceremony, NEW k \in Cred, ReadApprove(c, k) PROVE TypeOK'
  BY <1>4 DEF ReadApprove, Shows, TypeOK, caVars, View
<1>5. ASSUME NEW c \in Ceremony, NEW does \in {"denied", "cancelled"}, ReadOther(c, does)
      PROVE  TypeOK'
  BY <1>5 DEF ReadOther, Shows, TypeOK, caVars, View, Cred
<1>6. ASSUME NEW v \in views, Record(v) PROVE TypeOK'
  <2>1. v \in View /\ v.of \in Ceremony
    BY DEF TypeOK, View
  <2>2. row[v.of] \in Row
    BY <2>1, RowTyped
  <2>3. v.does \in Outcomes /\ v.cred \in Cred /\ v.count \in Nat
    BY <2>1 DEF View, Outcomes
  <2>4. [row[v.of] EXCEPT !.outcome = v.does, !.cred = v.cred, !.count = v.count,
                         !.callback = IF v.does = "cancelled" THEN "none" ELSE "pending"] \in Row
    BY <2>2, <2>3 DEF Row
  <2>5. row' \in [Ceremony -> Row]
    BY <1>6, <2>1, <2>4, RowTyped DEF Record
  <2>. QED  BY <1>6, <2>5 DEF Record, TypeOK, Row, caVars
<1>7. ASSUME NEW c \in Ceremony, Due(c) PROVE TypeOK'
  <2>1. row[c] \in Row
    BY RowTyped
  <2>2. [row[c] EXCEPT !.due = TRUE] \in Row
    BY <2>1 DEF Row
  <2>3. row' \in [Ceremony -> Row]
    BY <1>7, <2>2, RowTyped DEF Due
  <2>. QED  BY <1>7, <2>3 DEF Due, TypeOK, Row, caVars
<1>8. ASSUME Sweep PROVE TypeOK'
  <2>1. row' \in [Ceremony -> Row]
    <3>1. \A c \in Ceremony : [row[c] EXCEPT !.outcome = "expired", !.callback = "pending"] \in Row
      <4>. TAKE c \in Ceremony
      <4>1. row[c] \in Row /\ "expired" \in Outcomes
        BY RowTyped DEF Outcomes
      <4>. QED  BY <4>1 DEF Row
    <3>. QED  BY <1>8, <3>1, RowTyped DEF Sweep
  <2>. QED  BY <1>8, <2>1 DEF Sweep, TypeOK, caVars, Row
<1>9. ASSUME Poll PROVE TypeOK'
  BY <1>9 DEF Poll, Pending, TypeOK, caVars
<1>10. ASSUME NEW c \in Ceremony, Dispatch(c) PROVE TypeOK'
  BY <1>10 DEF Dispatch, TypeOK, caVars
<1>11. ASSUME NEW c \in Ceremony, Send(c) PROVE TypeOK'
  BY <1>11 DEF Send, TypeOK, caVars
<1>12. ASSUME NEW c \in Ceremony, GiveUp(c) PROVE TypeOK'
  BY <1>12 DEF GiveUp, TypeOK, caVars
<1>13. ASSUME NEW c \in Ceremony, Delivered(c) PROVE TypeOK'
  <2>1. row[c] \in Row
    BY RowTyped
  <2>2. [row[c] EXCEPT !.callback = "delivered"] \in Row
    BY <2>1 DEF Row
  <2>3. row' \in [Ceremony -> Row]
    BY <1>13, <2>2, RowTyped DEF Delivered
  <2>. QED  BY <1>13, <2>3 DEF Delivered, TypeOK, Row, caVars, NoThread
<1>14. ASSUME NEW c \in Ceremony, Exhausted(c) PROVE TypeOK'
  <2>1. row[c] \in Row
    BY RowTyped
  <2>2. [row[c] EXCEPT !.callback = "failed"] \in Row
    BY <2>1 DEF Row
  <2>3. row' \in [Ceremony -> Row]
    BY <1>14, <2>2, RowTyped DEF Exhausted
  <2>. QED  BY <1>14, <2>3 DEF Exhausted, TypeOK, Row, caVars, NoThread
<1>15. ASSUME NEW c \in Ceremony, Unknown(c) PROVE TypeOK'
  BY <1>15 DEF Unknown, Answer, TypeOK, caVars
<1>16. ASSUME NEW c \in Ceremony, Failed(c) PROVE TypeOK'
  <2>1. pend' \in [Ceremony -> {"none", "creating", "stashed"}]
    BY <1>16 DEF Failed, Pop, TypeOK
  <2>2. thread' \in [Ceremony -> Thread] /\ late' \subseteq Ceremony
    BY <1>16, RowTyped DEF Failed, Answer, Thread, TypeOK
  <2>. QED  BY <1>16, <2>1, <2>2 DEF Failed, TypeOK, Thread
<1>17. ASSUME NEW c \in Ceremony, Registered(c) PROVE TypeOK'
  <2>1. row[c].cred \in Cred
    BY RowTyped DEF Row
  <2>. QED  BY <1>17, <2>1 DEF Registered, Answer, Pop, TypeOK
<1>18. ASSUME NEW c \in Ceremony, Verified(c) PROVE TypeOK'
  BY <1>18 DEF Verified, Answer, Pop, TypeOK
<1>19. ASSUME NEW c \in Ceremony, Refused(c) PROVE TypeOK'
  <2>1. pend' \in [Ceremony -> {"none", "creating", "stashed"}]
    BY <1>19 DEF Refused, Pop, TypeOK
  <2>2. thread' \in [Ceremony -> Thread] /\ late' \subseteq Ceremony
    BY <1>19, RowTyped DEF Refused, Answer, Thread, TypeOK
  <2>. QED  BY <1>19, <2>1, <2>2 DEF Refused, TypeOK, Thread
<1>20. ASSUME NEW c \in Ceremony, Count(c) PROVE TypeOK'
  BY <1>20 DEF Count, TypeOK, brokerVars
<1>21. ASSUME NEW c \in Ceremony, Approved(c) PROVE TypeOK'
  BY <1>21 DEF Approved, TypeOK
<1>22. ASSUME NEW k \in Cred, Revoke(k) PROVE TypeOK'
  BY <1>22 DEF Revoke, TypeOK, brokerVars
<1>23. ASSUME NEW k \in Cred, RevokePop(k) PROVE TypeOK'
  BY <1>23 DEF RevokePop, TypeOK, brokerVars
<1>24. ASSUME WindowPasses PROVE TypeOK'
  BY <1>24 DEF WindowPasses, TypeOK, brokerVars
<1>25. ASSUME BrokerRestart PROVE TypeOK'
  BY <1>25 DEF BrokerRestart, NoThread, TypeOK, caVars
<1>26. ASSUME CARestart PROVE TypeOK'
  <2>1. restarts' \in 0..MaxRestarts
    BY <1>26 DEF CARestart, TypeOK
  <2>2. /\ pend' \in [Ceremony -> {"none", "creating", "stashed"}]
        /\ check' \in [Ceremony -> {"none", "verified", "counted"}]
        /\ window' \in BOOLEAN /\ revoking' \subseteq Cred
    BY <1>26 DEF CARestart
  <2>. QED  BY <1>26, <2>1, <2>2 DEF CARestart, TypeOK, brokerVars
<1>27. CASE UNCHANGED vars
  BY <1>27 DEF vars, TypeOK
<1>. QED
  BY <1>1, <1>2, <1>3, <1>4, <1>5, <1>6, <1>7, <1>8, <1>9, <1>10, <1>11, <1>12, <1>13, <1>14,
     <1>15, <1>16, <1>17, <1>18, <1>19, <1>20, <1>21, <1>22, <1>23, <1>24, <1>25, <1>26, <1>27
     DEF Next, BrokerNext, CANext

-----------------------------------------------------------------------------
(* One place at a time *)

\* A ceremony whose part of the state a step leaves alone stays good.
LEMMA GoodFrame ==
  ASSUME NEW d \in Ceremony, Good(d),
         row'[d] = row[d], pend'[d] = pend[d], check'[d] = check[d],
         accepted'[d] = accepted[d], thread'[d] = thread[d],
         d \in todo' \cup late' => d \in todo \cup late
  PROVE  Good(d)'
BY DEF Good, Done

\* Recording an outcome: of one ceremony that had none.
LEMMA GoodOutcome ==
  ASSUME CInv, NEW c \in Ceremony, row[c].outcome = "none",
         row'[c].type = row[c].type, row'[c].outcome # "none",
         row'[c].callback \in {"none", "pending"},
         pend'[c] = pend[c], check'[c] = check[c], accepted'[c] = accepted[c],
         thread'[c] = thread[c]
  PROVE  Good(c)'
<1>1. Good(c)
  BY DEF CInv
<1>2. thread[c].pc = "none" /\ check[c] = "none" /\ accepted[c] \in Nat /\ accepted[c] = 0
  BY <1>1, RowTyped DEF Good, CInv
<1>. QED  BY <1>1, <1>2 DEF Good, Done

\* A step of the delivery of one ceremony that hears no answer.
LEMMA GoodThread ==
  ASSUME CInv, NEW c \in Ceremony, UNCHANGED <<row, pend, check, accepted>>,
         thread'[c].pc \notin {"none", "ok"} => row[c].outcome # "none",
         thread'[c].pc # "ok",
         c \in todo' \cup late' => row[c].outcome # "none"
  PROVE  Good(c)'
BY DEF CInv, Good, Done

\* What the answer to a callback leaves of its thread and of the late ones.
LEMMA Answered ==
  ASSUME CInv, NEW c \in Ceremony, NEW how \in {"ok", "next", "handling"},
         Arrives(c), Answer(c, how)
  PROVE  /\ row[c].outcome # "none"
         /\ \A d \in Ceremony \ {c} : thread'[d] = thread[d]
         /\ thread'[c] = thread[c] \/ thread'[c].pc = how
         /\ late' \subseteq late
<1>1. thread[c].pc = "sent" \/ c \in late
  BY DEF Arrives
<1>2. row[c].outcome # "none"
  BY <1>1 DEF CInv, Good
<1>. QED  BY <1>2, RowTyped DEF Answer, CInv, Thread

LEMMA GoodStep ==
  ASSUME CInv, [Next]_vars, NEW d \in Ceremony
  PROVE  Good(d)'
<1>. Good(d)
  BY DEF CInv
<1>. USE RowTyped DEF CInv
<1>1. ASSUME NEW c \in Ceremony, NEW type \in {"register", "approve"}, Create(c, type)
      PROVE  Good(d)'
  <2>1. CASE d = c
    <3>1. check[c] = "none" /\ accepted[c] = 0
      <4>1. row[c].type = "none" /\ row[c].outcome = "none"
        BY <1>1 DEF Create, NoRow
      <4>2. accepted[c] \in Nat /\ accepted[c] <= 1 /\ accepted[c] # 1
        BY <2>1, <4>1 DEF Good
      <4>3. check[c] = "none"
        BY <2>1, <4>1 DEF Good
      <4>4. accepted[c] = 0
        BY <4>2
      <4>. QED  BY <4>3, <4>4
    <3>2. /\ row'[c].type = type /\ row'[c].outcome = row[c].outcome
          /\ row'[c].callback = row[c].callback /\ pend'[c] = "creating"
      BY <1>1 DEF Create
    <3>. QED  BY <1>1, <2>1, <3>1, <3>2 DEF Create, Good, NoRow, Done
  <2>2. CASE d # c
    BY <1>1, <2>2, GoodFrame DEF Create
  <2>. QED  BY <2>1, <2>2
<1>2. ASSUME NEW c \in Ceremony, Stash(c) PROVE Good(d)'
  <2>1. CASE d = c
    <3>1. pend'[c] \in {"stashed", "none"} /\ pend[c] = "creating"
      BY <1>2 DEF Stash
    <3>. QED  BY <1>2, <2>1, <3>1 DEF Stash, Good, Done, brokerVars
  <2>2. CASE d # c
    BY <1>2, <2>2, GoodFrame DEF Stash, brokerVars
  <2>. QED  BY <2>1, <2>2
<1>3. ASSUME NEW c \in Ceremony, ReadRegister(c) PROVE Good(d)'
  BY <1>3, GoodFrame DEF ReadRegister, Shows, caVars
<1>4. ASSUME NEW c \in Ceremony, NEW k \in Cred, ReadApprove(c, k) PROVE Good(d)'
  BY <1>4, GoodFrame DEF ReadApprove, Shows, caVars
<1>5. ASSUME NEW c \in Ceremony, NEW does \in {"denied", "cancelled"}, ReadOther(c, does)
      PROVE  Good(d)'
  BY <1>5, GoodFrame DEF ReadOther, Shows, caVars
<1>6. ASSUME NEW v \in views, Record(v) PROVE Good(d)'
  <2>1. v.of \in Ceremony /\ v.does \in {"approved", "denied", "cancelled"}
    BY DEF TypeOK, View
  <2>2. CASE row[v.of].outcome = "none" /\ d = v.of
    <3>1. /\ row'[d].type = row[d].type /\ row'[d].outcome = v.does
          /\ row'[d].callback \in {"none", "pending"}
      BY <1>6, <2>1, <2>2 DEF Record, Row
    <3>. QED  BY <1>6, <2>1, <2>2, <3>1, GoodOutcome DEF Record, caVars
  <2>3. CASE ~(row[v.of].outcome = "none" /\ d = v.of)
    BY <1>6, <2>1, <2>3, GoodFrame DEF Record, caVars
  <2>. QED  BY <2>2, <2>3
<1>7. ASSUME NEW c \in Ceremony, Due(c) PROVE Good(d)'
  <2>1. /\ row'[d].type = row[d].type /\ row'[d].outcome = row[d].outcome
        /\ row'[d].callback = row[d].callback
    BY <1>7 DEF Due, Row
  <2>. QED  BY <1>7, <2>1 DEF Due, Good, Done, caVars
<1>8. ASSUME Sweep PROVE Good(d)'
  <2>1. CASE d \in Overdue
    <3>1. row[d].outcome = "none"
      BY <2>1 DEF Overdue, Open
    <3>2. /\ row'[d].type = row[d].type /\ row'[d].outcome = "expired"
          /\ row'[d].callback = "pending"
      <4>1. row'[d] = [row[d] EXCEPT !.outcome = "expired", !.callback = "pending"]
        BY <1>8, <2>1 DEF Sweep
      <4>2. row[d] \in Row
        BY RowTyped
      <4>. QED  BY <4>1, <4>2 DEF Row
    <3>. QED  BY <1>8, <3>1, <3>2, GoodOutcome DEF Sweep, caVars
  <2>2. CASE d \notin Overdue
    BY <1>8, <2>2, GoodFrame DEF Sweep, caVars
  <2>. QED  BY <2>1, <2>2
<1>9. ASSUME Poll PROVE Good(d)'
  <2>1. d \in todo' => row[d].outcome # "none"
    BY <1>9 DEF Poll, Pending, Good
  <2>. QED  BY <1>9, <2>1 DEF Poll, Good, Done, caVars
<1>10. ASSUME NEW c \in Ceremony, Dispatch(c) PROVE Good(d)'
  <2>1. CASE d = c /\ thread[c].pc = "none"
    <3>1. thread'[d].pc = "next" /\ row[d].outcome # "none"
      BY <1>10, <2>1 DEF Dispatch, Good
    <3>. QED  BY <1>10, <3>1, GoodThread DEF Dispatch, caVars
  <2>2. CASE ~(d = c /\ thread[c].pc = "none")
    BY <1>10, <2>2, GoodFrame DEF Dispatch, caVars
  <2>. QED  BY <2>1, <2>2
<1>11. ASSUME NEW c \in Ceremony, Send(c) PROVE Good(d)'
  <2>1. CASE d = c
    <3>1. thread'[d].pc = "sent" /\ row[d].outcome # "none"
      BY <1>11, <2>1 DEF Send, Good, Thread
    <3>. QED  BY <1>11, <3>1, GoodThread DEF Send, caVars
  <2>2. CASE d # c
    BY <1>11, <2>2, GoodFrame DEF Send, caVars
  <2>. QED  BY <2>1, <2>2
<1>12. ASSUME NEW c \in Ceremony, GiveUp(c) PROVE Good(d)'
  <2>1. CASE d = c
    <3>1. thread'[d].pc = "next" /\ row[d].outcome # "none"
      BY <1>12, <2>1 DEF GiveUp, Good, Thread
    <3>. QED  BY <1>12, <3>1, GoodThread DEF GiveUp, caVars
  <2>2. CASE d # c
    BY <1>12, <2>2, GoodFrame DEF GiveUp, caVars
  <2>. QED  BY <2>1, <2>2
<1>13. ASSUME NEW c \in Ceremony, Delivered(c) PROVE Good(d)'
  <2>1. CASE d = c
    <3>1. /\ row'[d].type = row[d].type /\ row'[d].outcome = row[d].outcome
          /\ thread'[d].pc = "none" /\ thread[d].pc = "ok"
      BY <1>13, <2>1 DEF Delivered, Row, NoThread
    <3>2. Done(d) /\ row[d].outcome # "none"
      BY <3>1 DEF Good
    <3>. QED  BY <1>13, <3>1, <3>2 DEF Delivered, Good, Done, caVars
  <2>2. CASE d # c
    BY <1>13, <2>2, GoodFrame DEF Delivered, caVars
  <2>. QED  BY <2>1, <2>2
<1>14. ASSUME NEW c \in Ceremony, Exhausted(c) PROVE Good(d)'
  <2>1. CASE d = c
    <3>1. /\ row'[d].type = row[d].type /\ row'[d].outcome = row[d].outcome
          /\ row'[d].callback = "failed"
          /\ thread'[d].pc = "none" /\ thread[d].pc = "next"
      BY <1>14, <2>1 DEF Exhausted, Row, NoThread
    <3>. QED  BY <1>14, <3>1 DEF Exhausted, Good, Done, caVars
  <2>2. CASE d # c
    BY <1>14, <2>2, GoodFrame DEF Exhausted, caVars
  <2>. QED  BY <2>1, <2>2
<1>15. ASSUME NEW c \in Ceremony, Unknown(c) PROVE Good(d)'
  <2>1. /\ row[c].outcome # "none" /\ late' \subseteq late
        /\ \A e \in Ceremony \ {c} : thread'[e] = thread[e]
        /\ thread'[c] = thread[c] \/ thread'[c].pc = "next"
    BY <1>15, Answered DEF Unknown
  <2>2. CASE thread'[d] = thread[d]
    BY <1>15, <2>1, <2>2, GoodFrame DEF Unknown, caVars
  <2>3. CASE d = c /\ thread'[c].pc = "next"
    BY <1>15, <2>1, <2>3, GoodThread DEF Unknown, caVars
  <2>. QED  BY <2>1, <2>2, <2>3
<1>16. ASSUME NEW c \in Ceremony, Failed(c) PROVE Good(d)'
  <2>1. /\ row[c].outcome # "none" /\ late' \subseteq late
        /\ \A e \in Ceremony \ {c} : thread'[e] = thread[e]
        /\ thread'[c] = thread[c] \/ thread'[c].pc = "ok"
    BY <1>16, Answered DEF Failed
  <2>2. CASE d = c
    <3>1. pend[c] = "stashed" /\ pend'[c] = "none"
      BY <1>16 DEF Failed, Pop
    <3>. QED  BY <1>16, <2>1, <2>2, <3>1 DEF Failed, Good, Done
  <2>3. CASE d # c
    BY <1>16, <2>1, <2>3, GoodFrame DEF Failed, Pop
  <2>. QED  BY <2>2, <2>3
<1>17. ASSUME NEW c \in Ceremony, Registered(c) PROVE Good(d)'
  <2>1. /\ row[c].outcome # "none" /\ late' \subseteq late
        /\ \A e \in Ceremony \ {c} : thread'[e] = thread[e]
        /\ thread'[c] = thread[c] \/ thread'[c].pc = "ok"
    BY <1>17, Answered DEF Registered
  <2>2. CASE d = c
    <3>1. pend[c] = "stashed" /\ pend'[c] = "none"
      BY <1>17 DEF Registered, Pop
    <3>2. accepted[c] = 0 /\ check[c] = "none" /\ accepted'[c] = 1
      BY <1>17, <2>2, <3>1 DEF Registered, Good
    <3>. QED  BY <1>17, <2>1, <2>2, <3>1, <3>2 DEF Registered, Good, Done
  <2>3. CASE d # c
    BY <1>17, <2>1, <2>3, GoodFrame DEF Registered, Pop
  <2>. QED  BY <2>2, <2>3
<1>18. ASSUME NEW c \in Ceremony, Verified(c) PROVE Good(d)'
  <2>1. /\ row[c].outcome # "none" /\ late' \subseteq late
        /\ \A e \in Ceremony \ {c} : thread'[e] = thread[e]
        /\ thread'[c] = thread[c] \/ thread'[c].pc = "handling"
    BY <1>18, Answered DEF Verified
  <2>2. CASE d = c
    <3>1. /\ pend[c] = "stashed" /\ pend'[c] = "none" /\ check'[c] = "verified"
      BY <1>18 DEF Verified, Pop
    <3>2. accepted[c] = 0 /\ ~Done(c) /\ accepted' = accepted /\ row' = row /\ todo' = todo
      BY <1>18, <2>2, <3>1 DEF Verified, Good, Done
    <3>3. thread[c].pc # "ok" /\ row[c].callback # "delivered"
      BY <2>2, <3>2 DEF Good
    <3>. QED  BY <1>18, <2>1, <2>2, <3>1, <3>2, <3>3 DEF Verified, Good
  <2>3. CASE d # c
    BY <1>18, <2>1, <2>3, GoodFrame DEF Verified, Pop
  <2>. QED  BY <2>2, <2>3
<1>19. ASSUME NEW c \in Ceremony, Refused(c) PROVE Good(d)'
  <2>1. /\ row[c].outcome # "none" /\ late' \subseteq late
        /\ \A e \in Ceremony \ {c} : thread'[e] = thread[e]
        /\ thread'[c] = thread[c] \/ thread'[c].pc = "next"
    BY <1>19, Answered DEF Refused
  <2>2. CASE d = c
    <3>1. /\ pend[c] = "stashed" /\ pend'[c] = "none"
      BY <1>19 DEF Refused, Pop
    <3>2. thread[c].pc # "ok" /\ row[c].callback # "delivered"
      BY <2>2, <3>1 DEF Good, Done
    <3>. QED  BY <1>19, <2>1, <2>2, <3>1, <3>2 DEF Refused, Good
  <2>3. CASE d # c
    BY <1>19, <2>1, <2>3, GoodFrame DEF Refused, Pop
  <2>. QED  BY <2>2, <2>3
<1>20. ASSUME NEW c \in Ceremony, Count(c) PROVE Good(d)'
  <2>1. check[d] # "none" <=> check'[d] # "none"
    BY <1>20 DEF Count
  <2>. QED  BY <1>20, <2>1 DEF Count, Good, Done, brokerVars
<1>21. ASSUME NEW c \in Ceremony, Approved(c) PROVE Good(d)'
  <2>1. CASE d = c
    <3>1. /\ accepted[c] = 0 /\ pend[c] = "none" /\ row[c].outcome = "approved"
      BY <1>21, <2>1 DEF Approved, Good
    <3>2. /\ accepted'[c] = 1 /\ check'[c] = "none" /\ pend' = pend /\ row' = row
          /\ todo' = todo /\ late' = late
      BY <1>21, <3>1 DEF Approved
    <3>. QED  BY <2>1, <3>1, <3>2 DEF Good, Done
  <2>2. CASE d # c
    BY <1>21, <2>2, GoodFrame DEF Approved
  <2>. QED  BY <2>1, <2>2
<1>22. ASSUME NEW k \in Cred, Revoke(k) PROVE Good(d)'
  BY <1>22, GoodFrame DEF Revoke, brokerVars
<1>23. ASSUME NEW k \in Cred, RevokePop(k) PROVE Good(d)'
  BY <1>23, GoodFrame DEF RevokePop, brokerVars
<1>24. ASSUME WindowPasses PROVE Good(d)'
  BY <1>24, GoodFrame DEF WindowPasses, brokerVars
<1>25. ASSUME BrokerRestart PROVE Good(d)'
  <2>1. d \in todo' \cup late' => row[d].outcome # "none"
    BY <1>25 DEF BrokerRestart, Good
  <2>2. thread'[d].pc = "none"
    BY <1>25 DEF BrokerRestart, NoThread
  <2>. QED  BY <1>25, <2>1, <2>2, GoodThread DEF BrokerRestart, caVars
<1>26. ASSUME CARestart PROVE Good(d)'
  <2>1. pend'[d] = "none" /\ check'[d] = "none"
    BY <1>26 DEF CARestart
  <2>. QED  BY <1>26, <2>1 DEF CARestart, Good, Done, brokerVars
<1>27. CASE UNCHANGED vars
  BY <1>27, GoodFrame DEF vars
<1>. QED
  BY <1>1, <1>2, <1>3, <1>4, <1>5, <1>6, <1>7, <1>8, <1>9, <1>10, <1>11, <1>12, <1>13, <1>14,
     <1>15, <1>16, <1>17, <1>18, <1>19, <1>20, <1>21, <1>22, <1>23, <1>24, <1>25, <1>26, <1>27
     DEF Next, BrokerNext, CANext

\* An approval that opened the 2FA window stays behind it.
LEMMA WindowStep ==
  ASSUME CInv, [Next]_vars
  PROVE  WindowFounded'
<1>. USE RowTyped DEF CInv
<1>1. ASSUME NEW e \in Ceremony, row[e].type = "approve", accepted[e] = 1
      PROVE  row'[e].type = "approve" /\ accepted'[e] = 1
  <2>1. row[e].outcome = "approved" /\ pend[e] = "none" /\ check[e] = "none"
    BY <1>1 DEF Good
  <2>2. row'[e].type = row[e].type
    <3>1. ASSUME NEW c \in Ceremony, NEW type \in {"register", "approve"}, Create(c, type)
          PROVE  row'[e] = row[e]
      BY <2>1, <3>1 DEF Create, NoRow
    <3>2. ASSUME NEW v \in views, Record(v) PROVE row'[e] = row[e]
      BY <2>1, <3>2 DEF Record, TypeOK, View
    <3>3. ASSUME Sweep PROVE row'[e] = row[e]
      BY <2>1, <3>3 DEF Sweep, Overdue, Open
    <3>4. ASSUME NEW c \in Ceremony, Due(c) \/ Delivered(c) \/ Exhausted(c)
          PROVE  row'[e].type = row[e].type
      BY <3>4 DEF Due, Delivered, Exhausted, Row
    <3>. QED
      BY <3>1, <3>2, <3>3, <3>4
         DEF Next, BrokerNext, CANext, vars, Stash, ReadRegister, ReadApprove, ReadOther, Shows,
             Poll, Dispatch, Send, GiveUp, Unknown, Failed, Registered, Verified, Refused, Count,
             Approved, Revoke, RevokePop, WindowPasses, BrokerRestart, CARestart, brokerVars
  <2>3. accepted'[e] = accepted[e]
    <3>1. ASSUME NEW c \in Ceremony, Registered(c) PROVE c # e
      BY <2>1, <3>1 DEF Registered, Pop
    <3>2. ASSUME NEW c \in Ceremony, Approved(c) PROVE c # e
      BY <2>1, <3>2 DEF Approved
    <3>3. ASSUME NEW c \in Ceremony, Registered(c) \/ Approved(c)
          PROVE  accepted'[e] = accepted[e]
      BY <3>1, <3>2, <3>3 DEF Registered, Approved
    <3>. QED
      BY <3>3
         DEF Next, BrokerNext, CANext, vars, Create, Stash, ReadRegister, ReadApprove, ReadOther,
             Shows, Record, Due, Sweep, Poll, Dispatch, Send, GiveUp, Delivered, Exhausted,
             Unknown, Failed, Verified, Refused, Count, Revoke, RevokePop, WindowPasses,
             BrokerRestart, CARestart, brokerVars, caVars
  <2>. QED  BY <1>1, <2>2, <2>3
<1>2. ASSUME NEW c \in Ceremony, Approved(c) PROVE row'[c].type = "approve" /\ accepted'[c] = 1
  <2>1. row[c].type = "approve" /\ accepted[c] = 0
    BY <1>2 DEF Approved, Good
  <2>. QED  BY <1>2, <2>1 DEF Approved
<1>3. ASSUME window', ~window PROVE \E c \in Ceremony : Approved(c)
  BY <1>3
     DEF Next, BrokerNext, CANext, vars, Create, Stash, ReadRegister, ReadApprove, ReadOther,
         Shows, Record, Due, Sweep, Poll, Dispatch, Send, GiveUp, Delivered, Exhausted,
         Unknown, Failed, Registered, Verified, Refused, Count, Revoke, RevokePop, WindowPasses,
         BrokerRestart, CARestart, brokerVars, caVars
<1>4. CASE window
  BY <1>1, <1>4 DEF WindowFounded
<1>5. CASE ~window
  BY <1>2, <1>3, <1>5 DEF WindowFounded
<1>. QED  BY <1>4, <1>5

LEMMA CInductive == CInv /\ [Next]_vars => CInv'
<1>. SUFFICES ASSUME CInv, [Next]_vars PROVE CInv'
  OBVIOUS
<1>1. TypeOK'
  BY TypeStep DEF CInv
<1>2. \A d \in Ceremony : Good(d)'
  BY GoodStep
<1>3. WindowFounded'
  BY WindowStep
<1>. QED  BY <1>1, <1>2, <1>3 DEF CInv

LEMMA CInit == Init => CInv
<1>. SUFFICES ASSUME Init PROVE CInv
  OBVIOUS
<1>1. TypeOK
  BY TypeInit
<1>2. ASSUME NEW c \in Ceremony PROVE Good(c)
  <2>1. /\ row[c].type = "none" /\ row[c].outcome = "none" /\ row[c].callback = "none"
        /\ pend[c] = "none" /\ check[c] = "none" /\ accepted[c] = 0
        /\ thread[c].pc = "none" /\ c \notin todo \cup late
    BY DEF Init, NoRow, NoThread
  <2>. QED  BY <2>1 DEF Good, Done
<1>3. WindowFounded
  BY DEF Init, WindowFounded
<1>. QED  BY <1>1, <1>2, <1>3 DEF CInv

-----------------------------------------------------------------------------
(* Theorems *)

\* Rows, threads, messages and the CA's stores keep their types, whatever is
\* lost, repeated or restarted (storage.py, callback.py, enrollment.py).
THEOREM CeremonyTyped == Spec => []TypeOK
<1>1. CInv => TypeOK
  BY DEF CInv
<1>. QED  BY <1>1, CInit, CInductive, PTL DEF Spec

\* However often, late or after whatever restarts a callback arrives, an answer is
\* accepted once, and only an approval (passkey_admin_callback).
THEOREM OnceAccepted == Spec => []AcceptedOnce
<1>1. CInv => AcceptedOnce
  BY DEF CInv, Good, WindowFounded, AcceptedOnce
<1>. QED  BY <1>1, CInit, CInductive, PTL DEF Spec

\* What the broker records as delivered has had its effect at the CA
\* (deliver_with_retry, passkey_admin_callback).
THEOREM DeliveredIsDone == Spec => []DeliveredMeansDone
<1>1. CInv => DeliveredMeansDone
  BY DEF CInv, Good, Done, DeliveredMeansDone
<1>. QED  BY <1>1, CInit, CInductive, PTL DEF Spec

\* Responses, denials, cancellations and the sweeper race, and the first one
\* decides (record_response, sweep_expired).
THEOREM OneOutcome == Spec => OutcomeOnce
<1>1. TypeOK /\ [Next]_vars =>
        [\A c \in Ceremony :
           row[c].outcome # "none" =>
             /\ row'[c].outcome = row[c].outcome
             /\ row'[c].cred = row[c].cred
             /\ row'[c].count = row[c].count]_vars
  <2>. SUFFICES ASSUME TypeOK, Next, NEW e \in Ceremony, row[e].outcome # "none"
                PROVE  /\ row'[e].outcome = row[e].outcome
                       /\ row'[e].cred = row[e].cred
                       /\ row'[e].count = row[e].count
    OBVIOUS
  <2>. USE RowTyped
  <2>1. ASSUME NEW c \in Ceremony, NEW type \in {"register", "approve"}, Create(c, type)
        PROVE  row'[e] = row[e]
    BY <2>1 DEF Create, NoRow
  <2>2. ASSUME NEW v \in views, Record(v) PROVE row'[e] = row[e]
    BY <2>2 DEF Record, TypeOK, View
  <2>3. ASSUME Sweep PROVE row'[e] = row[e]
    BY <2>3 DEF Sweep, Overdue, Open
  <2>4. ASSUME NEW c \in Ceremony, Due(c) \/ Delivered(c) \/ Exhausted(c)
        PROVE  /\ row'[e].outcome = row[e].outcome
               /\ row'[e].cred = row[e].cred
               /\ row'[e].count = row[e].count
    BY <2>4 DEF Due, Delivered, Exhausted, Row
  <2>. QED
    BY <2>1, <2>2, <2>3, <2>4
       DEF Next, BrokerNext, CANext, Stash, ReadRegister, ReadApprove, ReadOther, Shows,
           Poll, Dispatch, Send, GiveUp, Unknown, Failed, Registered, Verified, Refused, Count,
           Approved, Revoke, RevokePop, WindowPasses, BrokerRestart, CARestart, brokerVars
<1>. QED  BY <1>1, TypeInit, TypeStep, PTL DEF Spec, OutcomeOnce
=============================================================================
