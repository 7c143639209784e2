---------------------------- MODULE ShimAuthorize ----------------------------
(***************************************************************************)
(* The shim that a stock sshd asks whether a key may log in: Shim.authorize*)
(* with its cache, the failover over the CA's endpoints (ca_client.py) and *)
(* the emergency certificate.                                              *)
(*                                                                         *)
(* With the "sqlite" back end each call is a process of its own            *)
(* (openssh_shim.py) around one shared file; with "memory" the calls are   *)
(* those of one long-lived server.  The rows are in the order of their last*)
(* put or, in memory, touch.  An identity with its source address is a     *)
(* Login; the endpoints serve one CA.                                      *)
(***************************************************************************)
EXTENDS Naturals, Sequences, SequencesExt

CONSTANTS
  Login,        \* a key's fingerprint and a source address: the cache key
  Call,         \* calls of authorize that may run at once
  Endpoints,    \* the number of ca_endpoints
  CertLifetime, \* seconds that an authorization cert lasts
  MaxRows,      \* cache_max_entries
  MaxNow,       \* bound: seconds that pass
  MaxMints      \* bound: certs minted

ASSUME ShimAssumption ==
  /\ Endpoints \in Nat \ {0} /\ MaxRows \in Nat \ {0}
  /\ CertLifetime \in Nat \ {0} /\ MaxNow \in Nat /\ MaxMints \in Nat

VARIABLES
  backend,   \* "sqlite" or "memory"
  now,
  allowed,   \* the logins that the CA's policies allow
  since,     \* history: when each disallowed login became so
  minted,    \* the CA's certs, by serial: [login, ends]
  rows,      \* the cache: a sequence of [login, serial, made]
  emergency, \* when the emergency certificate ends; 0 without one
  calls      \* [at, login, endpoint, serial, by, when, failed: endpoints without an answer]

shimVars == <<backend, now, allowed, since, minted, rows, emergency, calls>>

Waiting == [at |-> "idle"]

\* Every variable has its type; a login has one row, and the rows are no more
\* than the cap.
ShimTypeOK ==
  /\ backend \in {"sqlite", "memory"}
  /\ now \in 0..MaxNow
  /\ allowed \subseteq Login
  /\ since \in [Login -> 0..MaxNow]
  /\ minted \in Seq([login : Login, ends : Nat])
  /\ rows \in Seq([login : Login, serial : 1..Len(minted), made : 0..MaxNow])
  /\ Len(rows) <= MaxRows
  /\ \A i, j \in DOMAIN rows : rows[i].login = rows[j].login => i = j
  /\ emergency \in Nat
  /\ \A c \in Call :
       \/ calls[c] = Waiting
       \/ calls[c] \in [at : {"asking", "granted", "denied", "done"}, login : Login,
                        endpoint : 1..(Endpoints + 1), serial : 0..Len(minted),
                        by : {"nobody", "cache", "ca", "denial", "emergency", "error"},
                        when : 0..MaxNow, failed : 0..Endpoints]

ShimInit ==
  /\ backend \in {"sqlite", "memory"}
  /\ now = 0
  /\ allowed = Login
  /\ since = [l \in Login |-> 0]
  /\ minted = <<>>
  /\ rows = <<>>
  /\ emergency \in {0, 1}
  /\ calls = [c \in Call |-> Waiting]

-----------------------------------------------------------------------------
(* The cache *)

EndOf(row) == minted[row.serial].ends

\* A slip: the first row is taken for the login's.
FoundAny(l) == DOMAIN rows

Found(l) == {i \in DOMAIN rows : rows[i].login = l}

\* The row that is deleted by its key, of which there is one.
Without(s, l) ==
  LET own == {i \in DOMAIN s : s[i].login = l} IN
    IF own = {} THEN s ELSE RemoveAt(s, CHOOSE i \in own : TRUE)

\* A slip: one second too long.
FreshUntilPassed(row) == EndOf(row) >= now

\* not_after <= now is expired.
Fresh(row) == EndOf(row) > now

\* get: an expired row is deleted; a touched row goes to the end, in memory.
AfterGet(l) ==
  IF Found(l) = {} THEN rows
  ELSE LET row == rows[CHOOSE i \in Found(l) : TRUE] IN
       IF ~Fresh(row) THEN Without(rows, l)
       ELSE IF backend = "memory" THEN Append(Without(rows, l), row) ELSE rows

\* The rows that go first: the least recently used; in the file, those of the
\* earliest second, in no order that SQLite promises.
First(s) ==
  IF backend = "memory" THEN {1}
  ELSE {i \in DOMAIN s : \A j \in DOMAIN s : s[i].made <= s[j].made}

\* A slip: nothing is evicted when a row is put.
PutsUnbounded(l, serial) ==
  {Append(Without(rows, l), [login |-> l, serial |-> serial, made |-> now])}

\* put: replace the login's row and evict down to the cap.
Puts(l, serial) ==
  LET s == Append(Without(rows, l), [login |-> l, serial |-> serial, made |-> now]) IN
    IF Len(s) <= MaxRows THEN {s} ELSE {RemoveAt(s, i) : i \in First(s)}

-----------------------------------------------------------------------------
(* One call *)

Settle(c, by, serial) ==
  calls' = [calls EXCEPT ![c].at = "done", ![c].by = by, ![c].serial = serial, ![c].when = now]

\* A hit answers at once, a miss goes to the first endpoint.
Lookup(c, l) ==
  /\ calls[c] = Waiting
  /\ rows' = AfterGet(l)
  /\ LET hit == {i \in Found(l) : Fresh(rows[i])} IN
     calls' = [calls EXCEPT ![c] =
       [at |-> IF hit = {} THEN "asking" ELSE "done", login |-> l, endpoint |-> 1,
        serial |-> IF hit = {} THEN 0 ELSE rows[CHOOSE i \in hit : TRUE].serial,
        by |-> IF hit = {} THEN "nobody" ELSE "cache",
        when |-> IF hit = {} THEN 0 ELSE now, failed |-> 0]]
  /\ UNCHANGED <<backend, now, allowed, since, minted, emergency>>

\* The endpoint has the request: it mints, or denies.
Serve(c) ==
  /\ calls[c].at = "asking" /\ calls[c].endpoint <= Endpoints
  /\ IF calls[c].login \in allowed
     THEN /\ Len(minted) < MaxMints
          /\ minted' = Append(minted, [login |-> calls[c].login, ends |-> now + CertLifetime])
          /\ calls' = [calls EXCEPT ![c].at = "granted", ![c].serial = Len(minted')]
     ELSE /\ calls' = [calls EXCEPT ![c].at = "denied"]
          /\ UNCHANGED minted
  /\ UNCHANGED <<backend, now, allowed, since, rows, emergency>>

\* Unreachable, 5xx, or an answer that comes too late: the next endpoint.
NextEndpoint(c) ==
  /\ calls[c].at \in {"asking", "granted", "denied"} /\ calls[c].endpoint <= Endpoints
  /\ calls' = [calls EXCEPT ![c].at = "asking", ![c].endpoint = @ + 1,
                            ![c].serial = 0, ![c].failed = @ + 1]
  /\ UNCHANGED <<backend, now, allowed, since, minted, rows, emergency>>

\* The cert is validated and cached ...
TakeGrant(c) ==
  /\ calls[c].at = "granted"
  /\ IF minted[calls[c].serial].ends >= now
     THEN /\ Settle(c, "ca", calls[c].serial)
          /\ rows' \in Puts(calls[c].login, calls[c].serial)
     ELSE Settle(c, "error", 0) /\ UNCHANGED rows
  /\ UNCHANGED <<backend, now, allowed, since, minted, emergency>>

\* ... and a denial is final.
TakeDenial(c) ==
  /\ calls[c].at = "denied"
  /\ Settle(c, "denial", 0)
  /\ UNCHANGED <<backend, now, allowed, since, minted, rows, emergency>>

\* CAClientFailedOver: the emergency certificate, for as long as it lasts.
AllFailed(c) ==
  /\ calls[c].at = "asking" /\ calls[c].endpoint > Endpoints
  /\ Settle(c, IF emergency > 0 /\ emergency >= now THEN "emergency" ELSE "error", 0)
  /\ UNCHANGED <<backend, now, allowed, since, minted, rows, emergency>>

\* sshd has its answer; or the process ends before.
Leave(c) ==
  /\ calls[c] # Waiting
  /\ calls' = [calls EXCEPT ![c] = Waiting]
  /\ UNCHANGED <<backend, now, allowed, since, minted, rows, emergency>>

-----------------------------------------------------------------------------
(* The CA's policies and time *)

Disallow(l) ==
  /\ l \in allowed
  /\ allowed' = allowed \ {l}
  /\ since' = [since EXCEPT ![l] = now]
  /\ UNCHANGED <<backend, now, minted, rows, emergency, calls>>

Allow(l) ==
  /\ l \notin allowed
  /\ allowed' = allowed \cup {l}
  /\ since' = [since EXCEPT ![l] = 0]
  /\ UNCHANGED <<backend, now, minted, rows, emergency, calls>>

Tick ==
  /\ now < MaxNow
  /\ now' = now + 1
  /\ UNCHANGED <<backend, allowed, since, minted, rows, emergency, calls>>

ShimNext ==
  \/ Tick
  \/ \E l \in Login : Disallow(l) \/ Allow(l)
  \/ \E c \in Call :
       \/ \E l \in Login : Lookup(c, l)
       \/ Serve(c) \/ NextEndpoint(c) \/ TakeGrant(c) \/ TakeDenial(c) \/ AllFailed(c)
       \/ Leave(c)

ShimSpec == ShimInit /\ [][ShimNext]_shimVars

-----------------------------------------------------------------------------
(* Properties *)

\* Whatever is shared, evicted, retried or late, a login that is authorized has
\* a cert that was minted for it and that lasts (shim.py:163-244, sqlite_cache.py).
AuthorizedByItsCert ==
  \A c \in Call : calls[c] # Waiting /\ calls[c].by \in {"ca", "cache"} =>
    /\ minted[calls[c].serial].login = calls[c].login
    /\ minted[calls[c].serial].ends >= calls[c].when

\* A login that the CA's policies no longer allow is authorized for less than a
\* cert's lifetime more by the cache, and no longer than that by a late answer,
\* though neither asks the CA again.
DisallowedDiesOut ==
  \A c \in Call : calls[c] # Waiting /\ calls[c].login \notin allowed =>
    /\ calls[c].by = "cache" => calls[c].when < since[calls[c].login] + CertLifetime
    /\ calls[c].by = "ca" => calls[c].when <= since[calls[c].login] + CertLifetime

\* The emergency certificate is used when every endpoint failed to answer this
\* very call: never after a denial, never beside an endpoint that would have been
\* asked next (ca_client.py:51-83, shim.py:195-206).
EmergencyOnlyWhenDown ==
  \A c \in Call : calls[c] # Waiting /\ calls[c].by = "emergency" =>
    calls[c].failed = Endpoints

\* sshd is told yes for a cert of that login or because no endpoint answers.
AuthorizedForAReason == AuthorizedByItsCert /\ EmergencyOnlyWhenDown
=============================================================================
