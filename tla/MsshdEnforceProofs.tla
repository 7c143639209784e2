------------------------- MODULE MsshdEnforceProofs -------------------------
(***************************************************************************)
(* Theorems about MsshdEnforce, for every value of its constants.          *)
(*                                                                         *)
(*   TypeCorrect, DurableSeqs     under every fault                        *)
(*   NeverAhead                   while the CA's counter never falls       *)
(*   AppliedDropped,              while every number the CA assigns is     *)
(*   DurableAppliedDropped        that of a readable entry                 *)
(*                                                                         *)
(* Each has an inductive invariant that adds to the previous one:          *)
(* TInv (types, and numbers bounded by the CA's counter), DiskBehind, OInv *)
(* (what is in flight is bounded too), CInv (the log is dense, and a page  *)
(* holds everything between the applied number and its own greatest).      *)
(***************************************************************************)
EXTENDS MsshdEnforce, FiniteSetTheorems, TLAPS

\* A non-empty set of naturals below a bound has a greatest element, and Max
\* returns it.
LEMMA MaxOfBounded ==
  ASSUME NEW S \in SUBSET Nat, S # {}, NEW n \in Nat, \A x \in S : x <= n
  PROVE  Max(S) \in S /\ \A x \in S : x <= Max(S)
<1> DEFINE R == {z \in Nat \X Nat : z[1] < z[2]}
<1> DEFINE T == {m \in Nat : n - m \in S}
<1>1. T # {}
  <2>1. PICK x \in S : TRUE
    OBVIOUS
  <2>2. n - x \in T
    BY <2>1
  <2>. QED  BY <2>2
<1>0. IsWellFoundedOn(R, Nat)
  <2>1. R = OpToRel(<, Nat)
    BY Zenon DEF OpToRel
  <2>. QED  BY <2>1, NatLessThanWellFounded, Zenon
<1>2. PICK m \in T : \A y \in T : ~ (<<y, m>> \in R)
  <2>. HIDE DEF R, T
  <2>1. T \subseteq Nat
    BY DEF T
  <2>. QED BY <1>0, <1>1, <2>1, WFMin
<1>3. \A y \in T : ~ (y < m)
  BY <1>2 DEF R
<1>4. n - m \in S /\ \A x \in S : x <= n - m
  <2>1. ASSUME NEW x \in S PROVE x <= n - m
    <3>1. n - x \in T
      OBVIOUS
    <3>. QED  BY <3>1, <1>3
  <2>. QED  BY <2>1
<1>. QED  BY <1>4 DEF Max

-----------------------------------------------------------------------------
(* The helpers keep the types *)

LEMMA InitialValues ==
  /\ ZeroSeqs \in Seqs
  /\ EmptyCache \in Cache
  /\ Idle \in Connection
  /\ NoSync \in SyncTask
BY EnforceAssumption DEF ZeroSeqs, Seqs, EmptyCache, Cache, Idle, Connection, NoSync, SyncTask

LEMMA AdvanceType ==
  ASSUME NEW s \in Seqs, NEW i \in Issuer, NEW n \in Nat
  PROVE  Advance(s, i, n) \in Seqs
BY DEF Seqs, Advance

LEMMA MergeType ==
  ASSUME NEW s \in Seqs, NEW t \in Seqs
  PROVE  Merge(s, t) \in Seqs
BY DEF Seqs, Merge

LEMMA DropType ==
  ASSUME NEW c \in Cache, NEW ss
  PROVE  Drop(c, ss) \in Cache
BY DEF Cache, Drop

\* The state of a handler, as TypeOK has it for each of them.
HandlerOK(r) ==
  /\ r \in Connection
  /\ r.pc # "idle" => r.who \in Principal
  /\ r.pc \in {"minted", "replied"} => r.cert \in Cert

LEMMA HandlersOK ==
  TypeOK <=> /\ log \in [Issuer -> SUBSET Entry]
             /\ cur \in Seqs
             /\ minted \subseteq Cert
             /\ banned \subseteq Principal
             /\ expired \subseteq Cert
             /\ cache \in Cache
             /\ lastSeq \in Seqs
             /\ known \in Seqs
             /\ disk \in [cache : Cache, seqs : Seqs]
             /\ conn \in [Conn -> Connection]
             /\ \A c \in Conn : HandlerOK(conn[c])
             /\ sync \in SyncTask
BY DEF TypeOK, HandlerOK

\* One handler changes, the others keep their state.
LEMMA HandlerUpdate ==
  ASSUME TypeOK, NEW c \in Conn, NEW r, HandlerOK(r), conn' = [conn EXCEPT ![c] = r]
  PROVE  conn' \in [Conn -> Connection] /\ \A d \in Conn : HandlerOK(conn'[d])
BY DEF TypeOK, HandlerOK

\* What a write leaves in the file, whether it succeeds or raises.
LEMMA PersistType ==
  ASSUME TypeOK, NEW ok, NEW c \in Cache, NEW s \in Seqs, Persist(ok, c, s)
  PROVE  disk' \in [cache : Cache, seqs : Seqs]
BY DEF TypeOK, Persist

-----------------------------------------------------------------------------
(* Type correctness.  TypeOK is not inductive: the greatest number of a page *)
(* is a number only because the pages and the log are bounded, by cur.       *)

Numbered ==
  /\ \A i \in Issuer : \A e \in log[i] : e.seq <= cur[i]
  /\ sync.page \subseteq log[sync.iss]
  /\ sync.pc \notin {"page", "reply"} => sync.page = {}

TInv == TypeOK /\ Numbered

LEMMA TInvInit == Init => TInv
BY InitialValues DEF Init, TInv, TypeOK, Numbered, Idle, NoSync

LEMMA MaybeSyncType ==
  ASSUME TInv, NEW s \in Seqs
  PROVE  /\ MaybeSync(s) \in SyncTask
         /\ MaybeSync(s).page \subseteq log[MaybeSync(s).iss]
         /\ MaybeSync(s).pc \notin {"page", "reply"} => MaybeSync(s).page = {}
<1>1. CASE sync.pc = "idle" /\ \E i \in Issuer : s[i] > lastSeq[i]
  BY <1>1, EnforceAssumption DEF MaybeSync, NoSync, SyncTask, Seqs
<1>2. CASE ~(sync.pc = "idle" /\ \E i \in Issuer : s[i] > lastSeq[i])
  BY <1>2 DEF MaybeSync, TInv, TypeOK, Numbered
<1>. QED  BY <1>1, <1>2

\* The greatest number of a page is one of its entries'.
LEMMA TopOfPage ==
  ASSUME TInv, sync.page # {}
  PROVE  LET top == Max({e.seq : e \in sync.page})
         IN  /\ top \in Nat
             /\ \E e \in sync.page : e.seq = top
             /\ \A e \in sync.page : e.seq <= top
<1> DEFINE S == {e.seq : e \in sync.page}
<1>1. S \subseteq Nat /\ S # {} /\ cur[sync.iss] \in Nat /\ \A x \in S : x <= cur[sync.iss]
  BY DEF TInv, TypeOK, Numbered, SyncTask, Entry, Seqs
<1>2. Max(S) \in S /\ \A x \in S : x <= Max(S)
  <2>. HIDE DEF S
  <2>. QED  BY <1>1, MaxOfBounded
<1>. QED  BY <1>1, <1>2

\* A restart of the CA makes its counter the greatest number of its log.
LEMMA TopOfLog ==
  ASSUME TInv, NEW i \in Issuer
  PROVE  LET top == Max({e.seq : e \in log[i]} \cup {0})
         IN  top \in Nat /\ top <= cur[i] /\ \A e \in log[i] : e.seq <= top
<1> DEFINE S == {e.seq : e \in log[i]} \cup {0}
<1>1. S \subseteq Nat /\ S # {} /\ cur[i] \in Nat /\ \A x \in S : x <= cur[i]
  BY DEF TInv, TypeOK, Numbered, Entry, Seqs
<1>2. Max(S) \in S /\ \A x \in S : x <= Max(S)
  <2>. HIDE DEF S
  <2>. QED  BY <1>1, MaxOfBounded
<1>. QED  BY <1>1, <1>2

LEMMA BootType ==
  ASSUME TInv, NEW d \in [cache : Cache, seqs : Seqs], Boot(d)
  PROVE  TInv'
<1>1. cache' \in Cache /\ lastSeq' \in Seqs /\ known' \in Seqs
  BY DEF Boot, Cache
<1>2. conn' \in [Conn -> Connection] /\ \A c \in Conn : HandlerOK(conn'[c])
  BY InitialValues DEF Boot, HandlerOK, Idle
<1>3. sync' \in SyncTask /\ Numbered'
  BY InitialValues DEF Boot, NoSync, TInv, Numbered, caVars
<1>. QED  BY <1>1, <1>2, <1>3, HandlersOK DEF TInv, Boot, caVars, TypeOK, HandlerOK

LEMMA TInvStep == TInv /\ [Next]_vars => TInv'
<1>. SUFFICES ASSUME TInv, [Next]_vars PROVE TInv'
  OBVIOUS
<1>. USE DEF TInv
<1>1. ASSUME NEW i \in Issuer, Revoke(i) PROVE TInv'
  <2>1. PICK ss \in SUBSET {k.serial : k \in {m \in minted : m.iss = i}} :
          log' = [log EXCEPT ![i] = @ \cup {[seq |-> cur[i] + 1, serials |-> ss]}]
    BY <1>1 DEF Revoke
  <2>2. [seq |-> cur[i] + 1, serials |-> ss] \in Entry
    BY <2>1 DEF TypeOK, Seqs, Entry, Cert
  <2>3. log' \in [Issuer -> SUBSET Entry] /\ cur' \in Seqs
    BY <1>1, <2>1, <2>2 DEF Revoke, TypeOK, Seqs
  <2>4. TypeOK'
    BY <1>1, <2>3 DEF Revoke, TypeOK
  <2>5. Numbered'
    BY <1>1, <2>1 DEF Revoke, Numbered, TypeOK, Seqs, Entry, SyncTask
  <2>. QED  BY <2>4, <2>5
<1>2. ASSUME NEW i \in Issuer, RevokeLost(i) PROVE TInv'
  <2>1. cur' \in Seqs /\ \A j \in Issuer : cur'[j] >= cur[j]
    BY <1>2 DEF RevokeLost, TypeOK, Seqs
  <2>2. Numbered'
    BY <1>2, <2>1 DEF RevokeLost, Numbered, TypeOK, Seqs, Entry
  <2>. QED  BY <1>2, <2>1, <2>2 DEF RevokeLost, TypeOK
<1>3. ASSUME NEW i \in Issuer, CARestart(i) PROVE TInv'
  <2> DEFINE top == Max({e.seq : e \in log[i]} \cup {0})
  <2>1. top \in Nat /\ \A e \in log[i] : e.seq <= top
    BY TopOfLog
  <2>2. cur' = [cur EXCEPT ![i] = top]
    BY <1>3 DEF CARestart
  <2>. HIDE DEF top
  <2>3. cur' \in Seqs
    BY <2>1, <2>2 DEF TypeOK, Seqs
  <2>4. Numbered'
    <3>1. log' = log /\ sync' = sync /\ lastSeq' = lastSeq
      BY <1>3 DEF CARestart
    <3>. QED  BY <1>3, <2>1, <2>2, <3>1 DEF CARestart, Numbered, TypeOK, Seqs
  <2>. QED  BY <1>3, <2>3, <2>4 DEF CARestart, TypeOK
<1>4. ASSUME NEW p \in Principal, SetBanned(p) PROVE TInv'
  BY <1>4 DEF SetBanned, TypeOK, Numbered
<1>5. ASSUME NEW p \in Principal, MintBypass(p) PROVE TInv'
  <2>1. PICK s \in FreshSerial(BypassMint, BypassSerial) :
          minted' = minted \cup {[iss |-> BypassMint, serial |-> s, owner |-> p]}
    BY <1>5 DEF MintBypass
  <2>2. [iss |-> BypassMint, serial |-> s, owner |-> p] \in Cert
    BY <2>1, EnforceAssumption DEF FreshSerial, Cert, Serial
  <2>. QED  BY <1>5, <2>1, <2>2 DEF MintBypass, TypeOK, Numbered
<1>6. ASSUME NEW k \in minted, Expire(k) PROVE TInv'
  BY <1>6 DEF Expire, TypeOK, Numbered
<1>7. ASSUME NEW c \in Conn, CADeny(c) PROVE TInv'
  <2> DEFINE r == [conn[c] EXCEPT !.pc = "refused", !.seqs = cur]
  <2>1. conn' = [conn EXCEPT ![c] = r]
    BY <1>7 DEF CADeny, TypeOK
  <2>2. HandlerOK(r)
    BY <1>7 DEF CADeny, TypeOK, HandlerOK, Connection
  <2>3. conn' \in [Conn -> Connection] /\ \A d \in Conn : HandlerOK(conn'[d])
    BY <2>1, <2>2, HandlerUpdate
  <2>. QED  BY <1>7, <2>3 DEF CADeny, TypeOK, Numbered, HandlerOK, caVars
<1>8. ASSUME NEW c \in Conn, CAMint(c) PROVE TInv'
  <2>1. PICK s \in FreshSerial(UserMint, UserSerial) :
          LET k == [iss |-> UserMint, serial |-> s, owner |-> conn[c].who] IN
          /\ minted' = minted \cup {k}
          /\ conn' = [conn EXCEPT ![c].pc = "minted", ![c].cert = k]
    BY <1>8 DEF CAMint
  <2> DEFINE k == [iss |-> UserMint, serial |-> s, owner |-> conn[c].who]
             r == [conn[c] EXCEPT !.pc = "minted", !.cert = k]
  <2>2. k \in Cert
    BY <1>8, EnforceAssumption DEF CAMint, TypeOK, FreshSerial, Cert, Serial
  <2>3. conn' = [conn EXCEPT ![c] = r]
    BY <2>1 DEF TypeOK
  <2>4. HandlerOK(r)
    <3>. HIDE DEF k
    <3>1. conn[c] \in Connection /\ conn[c].who \in Principal
      BY <1>8 DEF CAMint, TypeOK
    <3>2. r \in Connection /\ r.pc = "minted" /\ r.who = conn[c].who /\ r.cert = k
      BY <2>2, <3>1 DEF Connection
    <3>. QED  BY <2>2, <3>1, <3>2 DEF HandlerOK
  <2>5. conn' \in [Conn -> Connection] /\ \A d \in Conn : HandlerOK(conn'[d])
    BY <2>3, <2>4, HandlerUpdate
  <2>6. minted' \subseteq Cert
    BY <2>1, <2>2 DEF TypeOK
  <2>. QED  BY <1>8, <2>5, <2>6 DEF CAMint, TypeOK, Numbered, HandlerOK
<1>9. ASSUME NEW c \in Conn, CAReply(c) PROVE TInv'
  <2> DEFINE r == [conn[c] EXCEPT !.pc = "replied", !.seqs = cur]
  <2>1. conn' = [conn EXCEPT ![c] = r]
    BY <1>9 DEF CAReply, TypeOK
  <2>2. HandlerOK(r)
    BY <1>9 DEF CAReply, TypeOK, HandlerOK, Connection
  <2>3. conn' \in [Conn -> Connection] /\ \A d \in Conn : HandlerOK(conn'[d])
    BY <2>1, <2>2, HandlerUpdate
  <2>. QED  BY <1>9, <2>3 DEF CAReply, TypeOK, Numbered, HandlerOK, caVars
<1>10. ASSUME NEW c \in Conn, NEW p \in Principal, AcceptHit(c, p) PROVE TInv'
  <2> DEFINE r == [Idle EXCEPT !.pc = IF Refused(cache[p]) THEN "rejected" ELSE "open",
                               !.who = p, !.cert = cache[p]]
  <2>1. HandlerOK(r)
    BY InitialValues DEF HandlerOK, Connection, Idle, TypeOK, Cache
  <2>2. conn' = [conn EXCEPT ![c] = r]
    BY <1>10 DEF AcceptHit
  <2>3. conn' \in [Conn -> Connection] /\ \A d \in Conn : HandlerOK(conn'[d])
    BY <2>1, <2>2, HandlerUpdate
  <2>. QED  BY <1>10, <2>3 DEF AcceptHit, TypeOK, Numbered, HandlerOK, caVars
<1>11. ASSUME NEW c \in Conn, NEW p \in Principal, AcceptMiss(c, p) PROVE TInv'
  <2>1. HandlerOK([Idle EXCEPT !.pc = "calling", !.who = p])
    BY InitialValues DEF HandlerOK, Connection, Idle
  <2>2. conn' \in [Conn -> Connection] /\ \A d \in Conn : HandlerOK(conn'[d])
    BY <1>11, <2>1, HandlerUpdate DEF AcceptMiss
  <2>. QED  BY <1>11, <2>2 DEF AcceptMiss, TypeOK, Numbered, HandlerOK, caVars
<1>12. ASSUME NEW c \in Conn, NEW p \in Principal, AcceptExpired(c, p) PROVE TInv'
  <2>1. HandlerOK([Idle EXCEPT !.pc = "calling", !.who = p])
    BY InitialValues DEF HandlerOK, Connection, Idle
  <2>2. conn' \in [Conn -> Connection] /\ \A d \in Conn : HandlerOK(conn'[d])
    BY <1>12, <2>1, HandlerUpdate DEF AcceptExpired, TypeOK, HandlerOK
  <2>3. cache' \in Cache
    BY <1>12 DEF AcceptExpired, TypeOK, Cache
  <2>4. disk' \in [cache : Cache, seqs : Seqs]
    BY <1>12, <2>3, PersistType DEF AcceptExpired, TypeOK
  <2>. QED  BY <1>12, <2>2, <2>3, <2>4 DEF AcceptExpired, TypeOK, Numbered, HandlerOK, caVars
<1>13. ASSUME NEW c \in Conn, CallFails(c) PROVE TInv'
  <2>1. conn' \in [Conn -> Connection] /\ \A d \in Conn : HandlerOK(conn'[d])
    BY <1>13, InitialValues, HandlerUpdate DEF CallFails, HandlerOK, Idle
  <2>. QED  BY <1>13, <2>1 DEF CallFails, TypeOK, Numbered, HandlerOK, caVars
<1>14. ASSUME NEW c \in Conn, HandleGrant(c) PROVE TInv'
  <2>1. HandlerOK(conn[c]) /\ conn[c].who \in Principal /\ conn[c].cert \in Cert
    BY <1>14 DEF HandleGrant, TypeOK, HandlerOK
  <2>2. cache' \in Cache
    BY <1>14, <2>1 DEF HandleGrant, TypeOK, Cache
  <2>3. PICK ok \in Outcome :
          /\ Persist(ok, cache', lastSeq)
          /\ known' = IF ok THEN Merge(known, conn[c].seqs) ELSE known
          /\ sync' = IF ok THEN MaybeSync(conn[c].seqs) ELSE sync
          /\ conn' = [conn EXCEPT ![c] =
                        IF ok THEN [conn[c] EXCEPT !.pc = "open", !.seqs = ZeroSeqs] ELSE Idle]
    BY <1>14 DEF HandleGrant
  <2>4. disk' \in [cache : Cache, seqs : Seqs]
    BY <2>2, <2>3, PersistType DEF TypeOK
  <2>5. conn[c].seqs \in Seqs
    BY <2>1 DEF HandlerOK, Connection
  <2>6. known' \in Seqs
    BY <2>3, <2>5, MergeType DEF TypeOK
  <2>7. sync' \in SyncTask /\ Numbered'
    BY <1>14, <2>3, <2>5, MaybeSyncType DEF HandleGrant, TypeOK, Numbered, caVars
  <2>8. HandlerOK([conn[c] EXCEPT !.pc = "open", !.seqs = ZeroSeqs]) /\ HandlerOK(Idle)
    BY <2>1, InitialValues DEF HandlerOK, Connection, Idle
  <2>9. conn' \in [Conn -> Connection] /\ \A d \in Conn : HandlerOK(conn'[d])
    BY <2>3, <2>8, HandlerUpdate
  <2>. QED
    BY <1>14, <2>2, <2>4, <2>6, <2>7, <2>9 DEF HandleGrant, TypeOK, HandlerOK, caVars
<1>15. ASSUME NEW c \in Conn, HandleDeny(c) PROVE TInv'
  <2>1. HandlerOK(conn[c]) /\ conn[c].who \in Principal /\ conn[c].seqs \in Seqs
    BY <1>15 DEF HandleDeny, TypeOK, HandlerOK, Connection
  <2>2. cache' \in Cache
    BY <1>15, <2>1 DEF HandleDeny, TypeOK, Cache
  <2>3. PICK ok \in BOOLEAN :
          /\ IF cache' = cache THEN UNCHANGED disk ELSE Persist(ok, cache', lastSeq)
          /\ known' = IF ok THEN Merge(known, conn[c].seqs) ELSE known
          /\ sync' = IF ok THEN MaybeSync(conn[c].seqs) ELSE sync
    BY <1>15 DEF HandleDeny, Outcome
  <2>4. disk' \in [cache : Cache, seqs : Seqs]
    BY <2>2, <2>3, PersistType DEF TypeOK
  <2>5. known' \in Seqs
    BY <2>1, <2>3, MergeType DEF TypeOK
  <2>6. sync' \in SyncTask /\ Numbered'
    BY <1>15, <2>1, <2>3, MaybeSyncType DEF HandleDeny, TypeOK, Numbered, caVars
  <2>7. conn' \in [Conn -> Connection] /\ \A d \in Conn : HandlerOK(conn'[d])
    BY <1>15, InitialValues, HandlerUpdate DEF HandleDeny, HandlerOK, Idle
  <2>. QED
    BY <1>15, <2>2, <2>4, <2>5, <2>6, <2>7 DEF HandleDeny, TypeOK, HandlerOK, caVars
<1>16. ASSUME NEW c \in Conn, CloseSession(c) PROVE TInv'
  <2>1. conn' \in [Conn -> Connection] /\ \A d \in Conn : HandlerOK(conn'[d])
    BY <1>16, InitialValues, HandlerUpdate DEF CloseSession, HandlerOK, Idle
  <2>. QED  BY <1>16, <2>1 DEF CloseSession, TypeOK, Numbered, HandlerOK, caVars
<1>17. ASSUME NEW k \in minted, Inject(k) PROVE TInv'
  <2>1. cache' \in Cache
    BY <1>17 DEF Inject, TypeOK, Cache, Cert
  <2>2. disk' \in [cache : Cache, seqs : Seqs]
    BY <1>17, <2>1, PersistType DEF Inject, TypeOK
  <2>. QED  BY <1>17, <2>1, <2>2 DEF Inject, TypeOK, Numbered, caVars
<1>18. ASSUME NEW i \in Issuer, SyncIssuer(i) PROVE TInv'
  BY <1>18 DEF SyncIssuer, TypeOK, Numbered, SyncTask, Seqs, caVars
<1>19. CASE SyncDone
  BY <1>19, InitialValues DEF SyncDone, TypeOK, Numbered, NoSync, caVars
<1>20. CASE ServePage
  BY <1>20 DEF ServePage, FetchAfter, TypeOK, Numbered, SyncTask, caVars
<1>21. CASE ServeSeq
  BY <1>21 DEF ServeSeq, TypeOK, Numbered, SyncTask, Seqs, caVars
<1>22. CASE FetchFails
  BY <1>22 DEF FetchFails, TypeOK, Numbered, SyncTask, caVars
<1>23. CASE ApplyPage
  <2> DEFINE top == Max({e.seq : e \in sync.page})
  <2>1. top \in Nat
    BY <1>23, TopOfPage DEF ApplyPage
  <2>2. /\ cache' = Drop(cache, SerialsOf(sync.page))
        /\ lastSeq' = Advance(lastSeq, sync.iss, top)
        /\ disk' \in {disk, [cache |-> cache', seqs |-> lastSeq'],
                      [cache |-> cache', seqs |-> lastSeq]}
        /\ sync' \in {SyncAfter(top), NoSync}
        /\ UNCHANGED <<caVars, known, conn>>
    BY <1>23 DEF ApplyPage
  <2>. HIDE DEF top
  <2>3. cache' \in Cache /\ lastSeq' \in Seqs
    BY <2>1, <2>2, AdvanceType, DropType DEF TypeOK, SyncTask
  <2>4. disk' \in [cache : Cache, seqs : Seqs]
    BY <2>2, <2>3 DEF TypeOK
  <2>5. SyncAfter(top) \in SyncTask /\ SyncAfter(top).page = {}
    BY <2>1 DEF SyncAfter, TypeOK, SyncTask
  <2>6. sync' \in SyncTask /\ sync'.page = {}
    BY <2>2, <2>5, InitialValues DEF NoSync
  <2>. QED  BY <2>2, <2>3, <2>4, <2>6 DEF TypeOK, Numbered, caVars
<1>24. CASE ApplyBroken
  <2>1. PICK e \in sync.page : \E ss \in SUBSET e.serials, s \in e.serials :
          LET done == Drop(cache, Handled(e, ss)) IN
          /\ cache' = Drop(done, {s})
          /\ disk' = IF done = cache THEN disk ELSE [cache |-> done, seqs |-> lastSeq]
    BY <1>24 DEF ApplyBroken
  <2>2. \A xs : Drop(cache, xs) \in Cache
    BY DropType DEF TypeOK
  <2>3. cache' \in Cache /\ disk' \in [cache : Cache, seqs : Seqs]
    BY <2>1, <2>2, DropType DEF TypeOK
  <2>. QED
    BY <1>24, <2>3, InitialValues DEF ApplyBroken, TypeOK, Numbered, NoSync, caVars
<1>25. CASE ApplyEmpty
  <2> DEFINE seq == IF sync.reported > sync.applied THEN sync.reported ELSE 0
  <2>1. seq \in Nat
    BY DEF TypeOK, SyncTask
  <2>2. lastSeq' = Advance(lastSeq, sync.iss, seq)
    BY <1>25 DEF ApplyEmpty
  <2>. HIDE DEF seq
  <2>3. lastSeq' \in Seqs
    BY <2>1, <2>2, AdvanceType, DropType DEF TypeOK, SyncTask
  <2>4. PICK ok \in BOOLEAN :
          /\ IF lastSeq' = lastSeq THEN UNCHANGED disk ELSE Persist(ok, cache, lastSeq')
          /\ sync' = IF ok THEN [sync EXCEPT !.pc = "run", !.reported = 0] ELSE NoSync
    BY <1>25 DEF ApplyEmpty, Outcome
  <2>5. disk' \in [cache : Cache, seqs : Seqs]
    BY <2>3, <2>4, PersistType DEF TypeOK
  <2>6. sync' \in SyncTask /\ sync'.page = {}
    BY <1>25, <2>4, InitialValues DEF ApplyEmpty, TypeOK, SyncTask, NoSync
  <2>. QED  BY <1>25, <2>3, <2>5, <2>6 DEF ApplyEmpty, TypeOK, Numbered, caVars
<1>26. CASE Restart
  BY <1>26, BootType DEF Restart, TypeOK
<1>27. CASE CrashInPage
  <2>1. PICK e \in sync.page : \E ss \in SUBSET e.serials :
          Boot([cache |-> Drop(cache, Handled(e, ss)), seqs |-> lastSeq])
    BY <1>27 DEF CrashInPage
  <2>2. \A xs : Drop(cache, xs) \in Cache
    BY DropType DEF TypeOK
  <2>. QED  BY <2>1, <2>2, BootType DEF TypeOK
<1>28. CASE FileLost
  BY <1>28, BootType, InitialValues DEF FileLost
<1>29. CASE UNCHANGED vars
  BY <1>29 DEF TypeOK, Numbered, vars
<1>. QED
  BY <1>1, <1>2, <1>3, <1>4, <1>5, <1>6, <1>7, <1>8, <1>9, <1>10, <1>11, <1>12, <1>13, <1>14,
     <1>15, <1>16, <1>17, <1>18, <1>19, <1>20, <1>21, <1>22, <1>23, <1>24, <1>25, <1>26, <1>27,
     <1>28, <1>29 DEF Next, CANext, ConnNext, SyncNext, RestartNext

THEOREM TypeCorrect == Spec => []TypeOK
<1>1. TInv => TypeOK
  BY DEF TInv
<1>. QED  BY TInvInit, TInvStep, <1>1, PTL DEF Spec

-----------------------------------------------------------------------------
(* The applied numbers of the file.  Writes carry lastSeq, which only grows  *)
(* while msshd runs, so the file is never ahead of memory.                   *)

DiskBehind == \A i \in Issuer : disk.seqs[i] <= lastSeq[i]

LEMMA AdvanceGrows ==
  ASSUME NEW s \in Seqs, NEW j \in Issuer, NEW n \in Nat
  PROVE  /\ \A i \in Issuer : s[i] <= Advance(s, j, n)[i]
         /\ \A i \in Issuer \ {j} : Advance(s, j, n)[i] = s[i]
         /\ Advance(s, j, n)[j] = IF n > s[j] THEN n ELSE s[j]
BY DEF Seqs, Advance

\* What a step of the program can do to the log, to the applied numbers and to
\* the file: all that the properties of revocation depend on.
StoreSteps ==
  \/ \E i \in Issuer : Revoke(i)
  \/ /\ lastSeq' = lastSeq
     /\ log' = log
     /\ disk' \in {disk, [cache |-> cache', seqs |-> lastSeq]}
  \/ ApplyPage
  \/ ApplyBroken
  \/ ApplyEmpty
  \/ Restart \/ CrashInPage \/ FileLost

LEMMA StepsOfStores == [Next]_vars => StoreSteps
<1>. SUFFICES ASSUME [Next]_vars PROVE StoreSteps
  OBVIOUS
<1> DEFINE Quiet == /\ lastSeq' = lastSeq
                    /\ log' = log
                    /\ disk' \in {disk, [cache |-> cache', seqs |-> lastSeq]}
<1>1. CASE CANext
  <2>1. ASSUME NEW i \in Issuer, Revoke(i) PROVE StoreSteps
    BY <2>1 DEF StoreSteps
  <2>2. CASE ~ \E i \in Issuer : Revoke(i)
    <3>1. Quiet
      BY <1>1, <2>2 DEF CANext, RevokeLost, CARestart, SetBanned, MintBypass, Expire,
           CADeny, CAMint, CAReply, caVars
    <3>. QED  BY <3>1 DEF StoreSteps
  <2>. QED  BY <2>1, <2>2
<1>2. CASE ConnNext
  <2>1. Quiet
    BY <1>2 DEF ConnNext, AcceptHit, AcceptMiss, AcceptExpired, CallFails, HandleGrant,
         HandleDeny, CloseSession, Inject, Persist, caVars
  <2>. QED  BY <2>1 DEF StoreSteps
<1>3. CASE SyncNext
  <2>1. CASE ApplyPage \/ ApplyBroken \/ ApplyEmpty
    BY <2>1 DEF StoreSteps
  <2>2. CASE ~(ApplyPage \/ ApplyBroken \/ ApplyEmpty)
    <3>1. Quiet
      BY <1>3, <2>2 DEF SyncNext, SyncIssuer, SyncDone, ServePage, ServeSeq, FetchFails, caVars
    <3>. QED  BY <3>1 DEF StoreSteps
  <2>. QED  BY <2>1, <2>2
<1>4. CASE RestartNext
  BY <1>4 DEF RestartNext, StoreSteps
<1>5. CASE UNCHANGED vars
  BY <1>5 DEF vars, StoreSteps
<1>. QED  BY <1>1, <1>2, <1>3, <1>4, <1>5 DEF Next

\* The applied numbers in memory while msshd runs.
LEMMA LastSeqSteps ==
  ASSUME TInv, StoreSteps
  PROVE  \/ /\ \A i \in Issuer : lastSeq[i] <= lastSeq'[i]
            /\ disk'.seqs \in {disk.seqs, lastSeq, lastSeq'}
         \/ Restart \/ CrashInPage \/ FileLost
<1>0. \A i \in Issuer : lastSeq[i] <= lastSeq[i]
  BY DEF TInv, TypeOK, Seqs
<1>1. CASE \E i \in Issuer : Revoke(i)
  BY <1>0, <1>1 DEF Revoke
<1>2. CASE lastSeq' = lastSeq /\ disk' \in {disk, [cache |-> cache', seqs |-> lastSeq]}
  BY <1>0, <1>2
<1>3. CASE ApplyPage
  <2>1. \A i \in Issuer : lastSeq[i] <= lastSeq'[i]
    BY <1>3, TopOfPage, AdvanceGrows DEF ApplyPage, TInv, TypeOK, SyncTask
  <2>. QED  BY <1>3, <2>1 DEF ApplyPage
<1>4. CASE ApplyBroken
  BY <1>0, <1>4 DEF ApplyBroken
<1>5. CASE ApplyEmpty
  <2> DEFINE seq == IF sync.reported > sync.applied THEN sync.reported ELSE 0
  <2>1. seq \in Nat /\ lastSeq' = Advance(lastSeq, sync.iss, seq)
    BY <1>5 DEF ApplyEmpty, TInv, TypeOK, SyncTask
  <2>. HIDE DEF seq
  <2>2. \A i \in Issuer : lastSeq[i] <= lastSeq'[i]
    BY <2>1, AdvanceGrows DEF TInv, TypeOK, SyncTask
  <2>. QED  BY <1>5, <2>2 DEF ApplyEmpty, Persist
<1>. QED  BY <1>1, <1>2, <1>3, <1>4, <1>5 DEF StoreSteps

LEMMA DiskBehindInit == Init => DiskBehind
BY DEF Init, DiskBehind, ZeroSeqs

LEMMA DiskBehindStep == TInv /\ DiskBehind /\ [Next]_vars => DiskBehind'
<1>. SUFFICES ASSUME TInv, TInv', DiskBehind, StoreSteps PROVE DiskBehind'
  BY TInvStep, StepsOfStores
<1>1. CASE /\ \A i \in Issuer : lastSeq[i] <= lastSeq'[i]
           /\ disk'.seqs \in {disk.seqs, lastSeq, lastSeq'}
  BY <1>1 DEF DiskBehind, TInv, TypeOK, Seqs
<1>2. CASE Restart \/ CrashInPage \/ FileLost
  <2>1. disk'.seqs = lastSeq'
    BY <1>2 DEF Restart, CrashInPage, FileLost, Boot
  <2>. QED  BY <2>1 DEF DiskBehind, TInv, TypeOK, Seqs
<1>. QED  BY <1>1, <1>2, LastSeqSteps

\* Under every fault, the CA's included, the applied numbers on disk fall only
\* when the whole file is lost (authz_cache.py:283-291, 350-376).
THEOREM DurableSeqs == Spec => DurableSeqsOnlyFallWithCache
<1>1. TInv /\ DiskBehind /\ [Next]_vars
        => [\/ \A i \in Issuer : disk'.seqs[i] >= disk.seqs[i]
            \/ disk'.cache = EmptyCache]_vars
  <2>. SUFFICES ASSUME TInv, TInv', DiskBehind, StoreSteps
                PROVE  \/ \A i \in Issuer : disk'.seqs[i] >= disk.seqs[i]
                       \/ disk'.cache = EmptyCache
    BY TInvStep, StepsOfStores
  <2>1. CASE /\ \A i \in Issuer : lastSeq[i] <= lastSeq'[i]
             /\ disk'.seqs \in {disk.seqs, lastSeq, lastSeq'}
    BY <2>1 DEF DiskBehind, TInv, TypeOK, Seqs
  <2>2. CASE Restart
    BY <2>2 DEF Restart, Boot, TInv, TypeOK, Seqs
  <2>3. CASE CrashInPage
    BY <2>3 DEF CrashInPage, Boot, DiskBehind, TInv, TypeOK, Seqs
  <2>4. CASE FileLost
    BY <2>4 DEF FileLost, Boot
  <2>. QED  BY <2>1, <2>2, <2>3, <2>4, LastSeqSteps
<1>. QED
  BY TInvInit, TInvStep, DiskBehindInit, DiskBehindStep, <1>1, PTL
     DEF Spec, DurableSeqsOnlyFallWithCache

-----------------------------------------------------------------------------
(* Nothing runs ahead of the CA, as long as the CA's counter never falls.    *)
(* NotAheadOfCA is not inductive: the numbers reach msshd through responses, *)
(* so those in flight are below the counter too.                             *)

InFlight ==
  /\ \A c \in Conn : \A i \in Issuer : conn[c].seqs[i] <= cur[i]
  /\ sync.reported <= cur[sync.iss]
  /\ sync.pc # "reply" => sync.reported = 0

OInv == TInv /\ NotAheadOfCA /\ InFlight

LEMMA OInvInit == Init => OInv
BY TInvInit, InitialValues
   DEF Init, OInv, NotAheadOfCA, InFlight, ZeroSeqs, Idle, NoSync, Seqs, SyncTask

LEMMA AdvanceBelow ==
  ASSUME NEW s \in Seqs, NEW b \in Seqs, NEW j \in Issuer, NEW n \in Nat,
         n <= b[j], \A i \in Issuer : s[i] <= b[i]
  PROVE  \A i \in Issuer : s[i] <= Advance(s, j, n)[i] /\ Advance(s, j, n)[i] <= b[i]
BY DEF Seqs, Advance

LEMMA MergeBelow ==
  ASSUME NEW s \in Seqs, NEW t \in Seqs, NEW b \in Seqs,
         \A i \in Issuer : s[i] <= b[i] /\ t[i] <= b[i]
  PROVE  \A i \in Issuer : Merge(s, t)[i] <= b[i]
BY DEF Merge, Seqs

LEMMA NoSyncBelow ==
  ASSUME TInv
  PROVE  /\ NoSync.iss \in Issuer /\ NoSync.reported = 0
         /\ \A i \in Issuer : NoSync.target[i] <= cur[i]
BY EnforceAssumption DEF NoSync, ZeroSeqs, TInv, TypeOK, Seqs

\* A response that is below the counter leaves msshd's view below it.
LEMMA ResponseBelow ==
  ASSUME OInv, NEW c \in Conn, NEW ok \in BOOLEAN, cur' = cur,
         known' = IF ok THEN Merge(known, conn[c].seqs) ELSE known,
         sync' = IF ok THEN MaybeSync(conn[c].seqs) ELSE sync
  PROVE  /\ \A i \in Issuer : known'[i] <= cur'[i] /\ sync'.target[i] <= cur'[i]
         /\ sync'.reported <= cur'[sync'.iss]
         /\ sync'.pc # "reply" => sync'.reported = 0
<1>1. conn[c].seqs \in Seqs /\ known \in Seqs /\ cur \in Seqs
  BY DEF OInv, TInv, TypeOK, Connection
<1>2. \A i \in Issuer : known'[i] <= cur'[i]
  BY <1>1, MergeBelow DEF OInv, NotAheadOfCA, InFlight
<1>3. /\ \A i \in Issuer : sync'.target[i] <= cur'[i]
      /\ sync'.reported <= cur'[sync'.iss]
      /\ sync'.pc # "reply" => sync'.reported = 0
  BY <1>1, EnforceAssumption DEF MaybeSync, NoSync, OInv, NotAheadOfCA, InFlight, Seqs
<1>. QED  BY <1>2, <1>3

LEMMA BootBelow ==
  ASSUME OInv, NEW d \in [cache : Cache, seqs : Seqs],
         \A i \in Issuer : d.seqs[i] <= lastSeq[i], Boot(d)
  PROVE  (NotAheadOfCA /\ InFlight)'
<1>1. \A i \in Issuer : 0 <= cur[i] /\ lastSeq[i] <= cur[i]
                        /\ d.seqs[i] <= cur[i] /\ d.seqs[i] <= d.seqs[i]
  BY DEF OInv, TInv, TypeOK, NotAheadOfCA, Seqs
<1>. QED  BY <1>1, EnforceAssumption
             DEF Boot, NotAheadOfCA, InFlight, Idle, NoSync, ZeroSeqs, caVars

LEMMA OInvStep ==
  ASSUME "reset" \notin Faults
  PROVE  OInv /\ [Next]_vars => OInv'
<1>. SUFFICES ASSUME OInv, TInv', [Next]_vars PROVE (NotAheadOfCA /\ InFlight)'
  BY TInvStep DEF OInv
<1>. USE DEF OInv
<1>1. ASSUME NEW i \in Issuer, Revoke(i) \/ RevokeLost(i) PROVE (NotAheadOfCA /\ InFlight)'
  <2>1. \A j \in Issuer : cur[j] <= cur'[j]
    BY <1>1 DEF Revoke, RevokeLost, TInv, TypeOK, Seqs
  <2>2. UNCHANGED <<lastSeq, known, disk, conn, sync>>
    BY <1>1 DEF Revoke, RevokeLost
  <2>. QED
    BY <2>1, <2>2 DEF NotAheadOfCA, InFlight, TInv, TypeOK, Seqs, SyncTask, Connection
<1>2. ASSUME NEW i \in Issuer, CARestart(i) PROVE (NotAheadOfCA /\ InFlight)'
  BY <1>2 DEF CARestart
<1>3. ASSUME NEW p \in Principal, SetBanned(p) \/ MintBypass(p)
      PROVE  (NotAheadOfCA /\ InFlight)'
  BY <1>3 DEF SetBanned, MintBypass, NotAheadOfCA, InFlight
<1>4. ASSUME NEW k \in minted, Expire(k) \/ Inject(k) PROVE (NotAheadOfCA /\ InFlight)'
  BY <1>4, LastSeqSteps, StepsOfStores
     DEF Expire, Inject, Persist, NotAheadOfCA, InFlight, TInv, TypeOK, Seqs, caVars
<1>5. ASSUME NEW c \in Conn, CADeny(c) \/ CAReply(c) PROVE (NotAheadOfCA /\ InFlight)'
  <2>1. \A d \in Conn : conn'[d].seqs = cur \/ conn'[d].seqs = conn[d].seqs
    BY <1>5 DEF CADeny, CAReply, TInv, TypeOK, Connection
  <2>. QED
    BY <1>5, <2>1 DEF CADeny, CAReply, caVars, NotAheadOfCA, InFlight, TInv, TypeOK, Seqs
<1>6. ASSUME NEW c \in Conn, CAMint(c) \/ CallFails(c) \/ CloseSession(c)
      PROVE  (NotAheadOfCA /\ InFlight)'
  <2>1. \A d \in Conn : conn'[d].seqs = ZeroSeqs \/ conn'[d].seqs = conn[d].seqs
    BY <1>6 DEF CAMint, CallFails, CloseSession, Idle, TInv, TypeOK, Connection
  <2>. QED
    BY <1>6, <2>1 DEF CAMint, CallFails, CloseSession, caVars, NotAheadOfCA, InFlight,
       ZeroSeqs, TInv, TypeOK, Seqs
<1>7. ASSUME NEW c \in Conn, NEW p \in Principal,
             AcceptHit(c, p) \/ AcceptMiss(c, p) \/ AcceptExpired(c, p)
      PROVE  (NotAheadOfCA /\ InFlight)'
  <2>1. \A d \in Conn : conn'[d].seqs = ZeroSeqs \/ conn'[d].seqs = conn[d].seqs
    <3>1. CASE AcceptHit(c, p)
      <4>1. PICK pc : conn' = [conn EXCEPT ![c] =
                                 [Idle EXCEPT !.pc = pc, !.who = p, !.cert = cache[p]]]
        BY <3>1 DEF AcceptHit
      <4>. QED  BY <4>1 DEF Idle, TInv, TypeOK
    <3>2. CASE AcceptMiss(c, p)
      BY <3>2 DEF AcceptMiss, Idle, TInv, TypeOK
    <3>3. CASE AcceptExpired(c, p)
      BY <3>3 DEF AcceptExpired, Idle, TInv, TypeOK
    <3>. QED  BY <1>7, <3>1, <3>2, <3>3
  <2>2. disk'.seqs \in {disk.seqs, lastSeq}
    BY <1>7 DEF AcceptHit, AcceptMiss, AcceptExpired, Persist
  <2>. QED
    BY <1>7, <2>1, <2>2 DEF AcceptHit, AcceptMiss, AcceptExpired, caVars, NotAheadOfCA,
       InFlight, ZeroSeqs, TInv, TypeOK, Seqs
<1>8. ASSUME NEW c \in Conn, HandleGrant(c) PROVE (NotAheadOfCA /\ InFlight)'
  <2>1. PICK ok \in BOOLEAN :
          /\ Persist(ok, cache', lastSeq)
          /\ known' = IF ok THEN Merge(known, conn[c].seqs) ELSE known
          /\ sync' = IF ok THEN MaybeSync(conn[c].seqs) ELSE sync
    BY <1>8 DEF HandleGrant, Outcome
  <2>2. \A d \in Conn : conn'[d].seqs = ZeroSeqs \/ conn'[d].seqs = conn[d].seqs
    BY <1>8 DEF HandleGrant, Idle, TInv, TypeOK, Connection
  <2>3. disk'.seqs \in {disk.seqs, lastSeq}
    BY <2>1 DEF Persist
  <2>4. cur' = cur /\ lastSeq' = lastSeq
    BY <1>8 DEF HandleGrant, caVars
  <2>. QED
    BY <2>1, <2>2, <2>3, <2>4, ResponseBelow
       DEF NotAheadOfCA, InFlight, ZeroSeqs, TInv, TypeOK, Seqs
<1>9. ASSUME NEW c \in Conn, HandleDeny(c) PROVE (NotAheadOfCA /\ InFlight)'
  <2>1. PICK ok \in BOOLEAN :
          /\ IF cache' = cache THEN UNCHANGED disk ELSE Persist(ok, cache', lastSeq)
          /\ known' = IF ok THEN Merge(known, conn[c].seqs) ELSE known
          /\ sync' = IF ok THEN MaybeSync(conn[c].seqs) ELSE sync
    BY <1>9 DEF HandleDeny, Outcome
  <2>2. \A d \in Conn : conn'[d].seqs = ZeroSeqs \/ conn'[d].seqs = conn[d].seqs
    BY <1>9 DEF HandleDeny, Idle, TInv, TypeOK, Connection
  <2>3. disk'.seqs \in {disk.seqs, lastSeq}
    BY <2>1 DEF Persist
  <2>4. cur' = cur /\ lastSeq' = lastSeq
    BY <1>9 DEF HandleDeny, caVars
  <2>. QED
    BY <2>1, <2>2, <2>3, <2>4, ResponseBelow
       DEF NotAheadOfCA, InFlight, ZeroSeqs, TInv, TypeOK, Seqs
<1>10. ASSUME NEW i \in Issuer, SyncIssuer(i) PROVE (NotAheadOfCA /\ InFlight)'
  BY <1>10 DEF SyncIssuer, caVars, NotAheadOfCA, InFlight, TInv, TypeOK, SyncTask, Seqs
<1>11. CASE SyncDone
  BY <1>11, EnforceAssumption
     DEF SyncDone, caVars, NotAheadOfCA, InFlight, NoSync, ZeroSeqs, TInv, TypeOK, Seqs
<1>12. CASE ServePage \/ ServeSeq \/ FetchFails
  <2>1. CASE ServePage
    BY <2>1 DEF ServePage, caVars, NotAheadOfCA, InFlight, TInv, TypeOK, SyncTask
  <2>2. CASE ServeSeq
    BY <2>2 DEF ServeSeq, caVars, NotAheadOfCA, InFlight, TInv, TypeOK, SyncTask, Seqs
  <2>3. CASE FetchFails
    BY <2>3 DEF FetchFails, caVars, NotAheadOfCA, InFlight, TInv, TypeOK, SyncTask, Seqs
  <2>. QED  BY <1>12, <2>1, <2>2, <2>3
<1>13. CASE ApplyPage
  <2> DEFINE top == Max({e.seq : e \in sync.page})
  <2>1. top \in Nat /\ top <= cur[sync.iss]
    BY <1>13, TopOfPage DEF ApplyPage, TInv, TypeOK, Numbered, SyncTask
  <2>2. /\ lastSeq' = Advance(lastSeq, sync.iss, top)
        /\ disk'.seqs \in {disk.seqs, lastSeq, lastSeq'}
        /\ sync' \in {SyncAfter(top), NoSync}
        /\ UNCHANGED <<caVars, known, conn>>
    BY <1>13 DEF ApplyPage
  <2>. HIDE DEF top
  <2>3. \A i \in Issuer : lastSeq[i] <= lastSeq'[i] /\ lastSeq'[i] <= cur[i]
    BY <2>1, <2>2, AdvanceBelow DEF NotAheadOfCA, TInv, TypeOK, SyncTask
  <2>4. \A i \in Issuer : disk'.seqs[i] <= lastSeq'[i]
    BY <2>2, <2>3 DEF NotAheadOfCA, TInv, TypeOK, Seqs
  <2>5. /\ \A i \in Issuer : sync'.target[i] <= cur[i]
        /\ sync'.reported = 0
        /\ sync'.iss \in Issuer
    <3>1. CASE sync' = SyncAfter(top)
      BY <3>1 DEF SyncAfter, NotAheadOfCA, TInv, TypeOK, SyncTask
    <3>2. CASE sync' = NoSync
      BY <3>2, NoSyncBelow
    <3>. QED  BY <2>2, <3>1, <3>2
  <2>. QED
    BY <2>2, <2>3, <2>4, <2>5 DEF NotAheadOfCA, InFlight, caVars, TInv, TypeOK, Seqs
<1>14. CASE ApplyBroken
  <2>1. disk'.seqs \in {disk.seqs, lastSeq}
    BY <1>14 DEF ApplyBroken
  <2>. QED
    BY <1>14, <2>1, EnforceAssumption DEF ApplyBroken, caVars, NotAheadOfCA, InFlight, NoSync,
       ZeroSeqs, TInv, TypeOK, Seqs
<1>15. CASE ApplyEmpty
  <2> DEFINE seq == IF sync.reported > sync.applied THEN sync.reported ELSE 0
  <2>1. seq \in Nat /\ seq <= cur[sync.iss]
    BY DEF InFlight, TInv, TypeOK, SyncTask, Seqs
  <2>2. lastSeq' = Advance(lastSeq, sync.iss, seq)
    BY <1>15 DEF ApplyEmpty
  <2>3. /\ disk'.seqs \in {disk.seqs, lastSeq'}
        /\ sync' \in {[sync EXCEPT !.pc = "run", !.reported = 0], NoSync}
        /\ UNCHANGED <<caVars, known, conn>>
    BY <1>15 DEF ApplyEmpty, Persist
  <2>. HIDE DEF seq
  <2>4. \A i \in Issuer : lastSeq[i] <= lastSeq'[i] /\ lastSeq'[i] <= cur[i]
    BY <2>1, <2>2, AdvanceBelow DEF NotAheadOfCA, TInv, TypeOK, SyncTask
  <2>5. \A i \in Issuer : disk'.seqs[i] <= lastSeq'[i]
    BY <2>3, <2>4 DEF NotAheadOfCA, TInv, TypeOK, Seqs
  <2>6. /\ \A i \in Issuer : sync'.target[i] <= cur[i]
        /\ sync'.reported = 0
        /\ sync'.iss \in Issuer
    <3>1. CASE sync' = [sync EXCEPT !.pc = "run", !.reported = 0]
      BY <3>1 DEF NotAheadOfCA, TInv, TypeOK, SyncTask
    <3>2. CASE sync' = NoSync
      BY <3>2, NoSyncBelow
    <3>. QED  BY <2>3, <3>1, <3>2
  <2>. QED
    BY <2>3, <2>4, <2>5, <2>6 DEF NotAheadOfCA, InFlight, caVars, TInv, TypeOK, Seqs
<1>16. CASE Restart
  BY <1>16, BootBelow DEF Restart, NotAheadOfCA, TInv, TypeOK
<1>17. CASE CrashInPage
  <2>1. PICK e \in sync.page : \E ss \in SUBSET e.serials :
          Boot([cache |-> Drop(cache, Handled(e, ss)), seqs |-> lastSeq])
    BY <1>17 DEF CrashInPage
  <2>2. \A xs : [cache |-> Drop(cache, xs), seqs |-> lastSeq] \in [cache : Cache, seqs : Seqs]
    BY DropType DEF TInv, TypeOK
  <2>3. \A i \in Issuer : lastSeq[i] <= lastSeq[i]
    BY DEF TInv, TypeOK, Seqs
  <2>. QED  BY <2>1, <2>2, <2>3, BootBelow
<1>18. CASE FileLost
  <2>1. \A i \in Issuer : ZeroSeqs[i] <= lastSeq[i]
    BY DEF TInv, TypeOK, Seqs, ZeroSeqs
  <2>. QED  BY <1>18, <2>1, BootBelow, InitialValues DEF FileLost
<1>19. CASE UNCHANGED vars
  BY <1>19 DEF vars, NotAheadOfCA, InFlight
<1>. QED
  BY <1>1, <1>2, <1>3, <1>4, <1>5, <1>6, <1>7, <1>8, <1>9, <1>10, <1>11, <1>12, <1>13, <1>14,
     <1>15, <1>16, <1>17, <1>18, <1>19 DEF Next, CANext, ConnNext, SyncNext, RestartNext

\* As long as the CA's counter never falls, what msshd has applied, what its
\* file, its gate and its running task have seen stays at or below it
\* (authz_cache.py:283-291, crl_sync.py:124-174, enforce_listener.py:430-439).
THEOREM NeverAhead ==
  ASSUME "reset" \notin Faults
  PROVE  Spec => []NotAheadOfCA
<1>1. OInv => NotAheadOfCA
  BY DEF OInv
<1>2. OInv /\ [Next]_vars => OInv'
  BY OInvStep
<1>. QED  BY OInvInit, <1>1, <1>2, PTL DEF Spec

-----------------------------------------------------------------------------
(* No revocation is skipped, as long as every number the CA assigns is that  *)
(* of a readable entry.  The invariant says that the log is dense and that a *)
(* page holds everything between the applied number and its own greatest.    *)

Dense ==
  /\ \A i \in Issuer : IsFiniteSet(log[i])
  /\ \A i \in Issuer : \A n \in 1..cur[i] : \E e \in log[i] : e.seq = n
  /\ \A i \in Issuer : \A e, f \in log[i] : e.seq = f.seq => e = f

\* What the task knows of its issuer between a request and its answer.
TaskExact ==
  sync.pc \in {"fetch", "page", "reply"} =>
    /\ sync.applied = lastSeq[sync.iss]
    /\ sync.applied < sync.target[sync.iss]

PageExact ==
  sync.pc \in {"page", "reply"} =>
    /\ sync.page # {}
    /\ \A f \in sync.page : f.seq > sync.applied
    /\ \A f \in sync.page, e \in log[sync.iss] :
         sync.applied < e.seq /\ e.seq <= f.seq => e \in sync.page

CInv == OInv /\ Dense /\ TaskExact /\ PageExact

LEMMA CInvInit == Init => CInv
BY OInvInit, FS_EmptySet, InitialValues
   DEF Init, CInv, Dense, TaskExact, PageExact, ZeroSeqs, NoSync

\* A page of a dense log is not empty and skips nothing.
LEMMA PageOfDense ==
  ASSUME TInv, Dense, NEW i \in Issuer, NEW n \in Nat, n < cur[i]
  PROVE  /\ FetchAfter(log[i], n) # {}
         /\ \A f \in FetchAfter(log[i], n) : f.seq > n
         /\ \A f \in FetchAfter(log[i], n), e \in log[i] :
              n < e.seq /\ e.seq <= f.seq => e \in FetchAfter(log[i], n)
<1> DEFINE UpTo(e) == {g \in log[i] : n < g.seq /\ g.seq <= e.seq}
<1>0. /\ \A e \in log[i] : e.seq \in Nat
      /\ cur[i] \in Nat
      /\ IsFiniteSet(log[i])
  BY DEF TInv, TypeOK, Entry, Dense, Seqs
<1>1. FetchAfter(log[i], n) # {}
  <2>1. PICK e \in log[i] : e.seq = n + 1
    BY <1>0 DEF Dense
  <2>2. UpTo(e) = {e}
    <3>1. ASSUME NEW g \in UpTo(e) PROVE g = e
      <4>1. g.seq = e.seq
        BY <1>0, <2>1, <3>1
      <4>. QED  BY <3>1, <4>1 DEF Dense
    <3>2. e \in UpTo(e)
      BY <1>0, <2>1
    <3>. QED  BY <3>1, <3>2
  <2>3. Cardinality(UpTo(e)) <= FetchLimit
    <3>. HIDE DEF UpTo
    <3>1. Cardinality({e}) = 1
      BY FS_Singleton, Zenon
    <3>2. FetchLimit >= 1
      BY EnforceAssumption
    <3>. QED  BY <2>2, <3>1, <3>2
  <2>4. n < e.seq
    BY <2>1
  <2>5. e \in FetchAfter(log[i], n)
    BY <2>3, <2>4 DEF FetchAfter
  <2>. QED  BY <2>5
<1>2. ASSUME NEW f \in FetchAfter(log[i], n), NEW e \in log[i], n < e.seq, e.seq <= f.seq
      PROVE  e \in FetchAfter(log[i], n)
  <2>1. f \in log[i] /\ Cardinality(UpTo(f)) <= FetchLimit
    BY DEF FetchAfter
  <2>2. UpTo(e) \subseteq UpTo(f) /\ UpTo(f) \subseteq log[i] /\ UpTo(e) \subseteq log[i]
    BY <1>0, <1>2, <2>1
  <2>3. /\ IsFiniteSet(UpTo(f)) /\ IsFiniteSet(UpTo(e))
        /\ Cardinality(UpTo(e)) <= Cardinality(UpTo(f))
    <3>. HIDE DEF UpTo
    <3>. QED  BY <1>0, <2>2, FS_Subset
  <2>4. Cardinality(UpTo(e)) \in Nat /\ Cardinality(UpTo(f)) \in Nat
    <3>. HIDE DEF UpTo
    <3>. QED  BY <2>3, FS_CardinalityType
  <2>5. Cardinality(UpTo(e)) <= FetchLimit
    <3>. HIDE DEF UpTo
    <3>. QED  BY <2>1, <2>3, <2>4, EnforceAssumption
  <2>. QED  BY <1>2, <2>5 DEF FetchAfter
<1>3. \A f \in FetchAfter(log[i], n) : f.seq > n
  BY DEF FetchAfter
<1>. QED  BY <1>1, <1>2, <1>3

LEMMA DenseStep ==
  ASSUME Faults \cap {"lossy", "reset"} = {}, TInv, Dense, [Next]_vars
  PROVE  Dense'
<1>1. ASSUME NEW i \in Issuer, Revoke(i) PROVE Dense'
  <2>1. PICK ss : log' = [log EXCEPT ![i] = @ \cup {[seq |-> cur[i] + 1, serials |-> ss]}]
    BY <1>1 DEF Revoke
  <2> DEFINE new == [seq |-> cur[i] + 1, serials |-> ss]
  <2>2. /\ cur' = [cur EXCEPT ![i] = @ + 1]
        /\ new.seq = cur[i] + 1
        /\ log'[i] = log[i] \cup {new}
        /\ \A j \in Issuer \ {i} : log'[j] = log[j]
    BY <1>1, <2>1 DEF Revoke, TInv, TypeOK
  <2>. HIDE DEF new
  <2>3. \A j \in Issuer : IsFiniteSet(log'[j])
    BY <2>2, FS_AddElement DEF Dense
  <2>4. \A j \in Issuer : \A n \in 1..cur'[j] : \E e \in log'[j] : e.seq = n
    <3>1. ASSUME NEW n \in 1..cur'[i] PROVE \E e \in log'[i] : e.seq = n
      <4>1. n \in 1..cur[i] \/ n = cur[i] + 1
        BY <2>2 DEF TInv, TypeOK, Seqs
      <4>. QED  BY <2>2, <4>1 DEF Dense
    <3>2. ASSUME NEW j \in Issuer \ {i} PROVE cur'[j] = cur[j] /\ log'[j] = log[j]
      BY <2>2 DEF TInv, TypeOK, Seqs
    <3>. QED  BY <3>1, <3>2 DEF Dense
  <2>5. \A e \in log[i] : e.seq # new.seq
    BY <2>2 DEF TInv, TypeOK, Numbered, Seqs, Entry
  <2>6. \A j \in Issuer : \A e, f \in log'[j] : e.seq = f.seq => e = f
    BY <2>2, <2>5 DEF Dense
  <2>. QED  BY <2>3, <2>4, <2>6 DEF Dense
<1>2. CASE ~ \E i \in Issuer : Revoke(i)
  <2>1. UNCHANGED <<log, cur>>
    BY <1>2 DEF Next, CANext, ConnNext, SyncNext, RestartNext, vars, caVars, RevokeLost, CARestart,
       SetBanned, MintBypass, Expire, CADeny, CAMint, CAReply, AcceptHit, AcceptMiss,
       AcceptExpired, CallFails, HandleGrant, HandleDeny, CloseSession, Inject, SyncIssuer,
       SyncDone, ServePage, ServeSeq, FetchFails, ApplyPage, ApplyBroken, ApplyEmpty, Restart,
       CrashInPage, FileLost, Boot
  <2>. QED  BY <2>1 DEF Dense
<1>. QED  BY <1>1, <1>2

LEMMA TaskStep ==
  ASSUME Faults \cap {"lossy", "reset"} = {}, CInv, [Next]_vars
  PROVE  TaskExact' /\ PageExact'
<1>. USE DEF CInv, OInv
<1>1. ASSUME NEW i \in Issuer, Revoke(i) PROVE TaskExact' /\ PageExact'
  <2>1. PICK ss : log' = [log EXCEPT ![i] = @ \cup {[seq |-> cur[i] + 1, serials |-> ss]}]
    BY <1>1 DEF Revoke
  <2>2. \A j \in Issuer : \A e \in log'[j] : e \in log[j] \/ e.seq = cur[j] + 1
    BY <2>1 DEF TInv, TypeOK
  <2>3. \A f \in sync.page : f.seq <= cur[sync.iss] /\ f.seq \in Nat
    BY DEF TInv, TypeOK, Numbered, SyncTask, Entry
  <2>4. sync' = sync /\ lastSeq' = lastSeq
    BY <1>1 DEF Revoke
  <2>5. cur[sync.iss] \in Nat /\ sync.iss \in Issuer
    BY DEF TInv, TypeOK, Seqs, SyncTask
  <2>6. ASSUME NEW f \in sync.page, NEW e \in log'[sync.iss],
               e.seq <= f.seq
        PROVE  e \in log[sync.iss]
    <3>1. e.seq # cur[sync.iss] + 1
      BY <2>3, <2>5, <2>6
    <3>. QED  BY <2>2, <2>5, <3>1
  <2>. QED  BY <2>4, <2>6 DEF TaskExact, PageExact
<1>2. ASSUME NEW i \in Issuer, SyncIssuer(i) PROVE TaskExact' /\ PageExact'
  BY <1>2 DEF SyncIssuer, TaskExact, PageExact, TInv, TypeOK, SyncTask, caVars
<1>3. CASE ServePage
  <2>1. /\ sync.iss \in Issuer /\ sync.applied \in Nat
        /\ sync.target[sync.iss] \in Nat /\ cur[sync.iss] \in Nat
    BY DEF TInv, TypeOK, SyncTask, Seqs
  <2>2. sync.applied < cur[sync.iss]
    BY <1>3, <2>1 DEF ServePage, TaskExact, NotAheadOfCA
  <2>3. sync' = [sync EXCEPT !.pc = "page", !.page = FetchAfter(log[sync.iss], sync.applied)]
        /\ UNCHANGED <<log, lastSeq>>
    BY <1>3 DEF ServePage, caVars
  <2>4. /\ sync'.pc = "page" /\ sync'.iss = sync.iss /\ sync'.applied = sync.applied
        /\ sync'.target = sync.target /\ sync'.page = FetchAfter(log[sync.iss], sync.applied)
    BY <2>3 DEF TInv, TypeOK, SyncTask
  <2>5. PageExact'
    BY <2>1, <2>2, <2>3, <2>4, PageOfDense DEF PageExact
  <2>6. TaskExact'
    BY <1>3, <2>3, <2>4 DEF ServePage, TaskExact
  <2>. QED  BY <2>5, <2>6
<1>4. CASE ServeSeq
  BY <1>4 DEF ServeSeq, TaskExact, PageExact, TInv, TypeOK, SyncTask, caVars
<1>5. CASE FetchFails \/ SyncDone
  <2>1. sync'.pc = "run" \/ sync'.pc = "idle"
    <3>1. CASE FetchFails
      BY <3>1 DEF FetchFails, TInv, TypeOK, SyncTask
    <3>2. CASE SyncDone
      BY <3>2 DEF SyncDone, NoSync
    <3>. QED  BY <1>5, <3>1, <3>2
  <2>. QED  BY <2>1 DEF TaskExact, PageExact
<1>6. CASE ApplyPage
  <2> DEFINE top == Max({e.seq : e \in sync.page})
  <2>1. top \in Nat /\ \E e \in sync.page : e.seq = top
    BY <1>6, TopOfPage DEF ApplyPage
  <2>2. /\ lastSeq' = Advance(lastSeq, sync.iss, top)
        /\ sync' \in {SyncAfter(top), NoSync}
        /\ sync.pc = "reply"
    BY <1>6 DEF ApplyPage
  <2>. HIDE DEF top
  <2>3. top > lastSeq[sync.iss]
    BY <2>1, <2>2 DEF TaskExact, PageExact
  <2>4. lastSeq'[sync.iss] = top
    BY <2>1, <2>2, <2>3, AdvanceGrows DEF TInv, TypeOK, SyncTask
  <2>5. CASE sync' = SyncAfter(top)
    <3>1. /\ sync'.pc = IF top < sync.target[sync.iss] THEN "fetch" ELSE "run"
          /\ sync'.iss = sync.iss /\ sync'.applied = top /\ sync'.target = sync.target
      BY <2>5 DEF SyncAfter, TInv, TypeOK, SyncTask
    <3>. QED  BY <3>1, <2>4 DEF TaskExact, PageExact
  <2>6. CASE sync' = NoSync
    BY <2>6 DEF NoSync, TaskExact, PageExact
  <2>. QED  BY <2>2, <2>5, <2>6
<1>7. CASE ApplyBroken
  BY <1>7 DEF ApplyBroken, NoSync, TaskExact, PageExact
<1>8. CASE ApplyEmpty
  BY <1>8 DEF ApplyEmpty, PageExact
<1>9. CASE Restart \/ CrashInPage \/ FileLost
  BY <1>9 DEF Restart, CrashInPage, FileLost, Boot, NoSync, TaskExact, PageExact
<1>10. ASSUME NEW c \in Conn, HandleGrant(c) \/ HandleDeny(c) PROVE TaskExact' /\ PageExact'
  <2>1. UNCHANGED <<log, lastSeq>> /\ (sync' = sync \/ sync'.pc = "run")
    BY <1>10 DEF HandleGrant, HandleDeny, MaybeSync, NoSync, caVars
  <2>. QED  BY <2>1 DEF TaskExact, PageExact
<1>11. CASE UNCHANGED <<log, lastSeq, sync>>
  BY <1>11 DEF TaskExact, PageExact
<1>12. CASE CANext
  <2>1. CASE ~ \E i \in Issuer : Revoke(i)
    <3>1. UNCHANGED <<log, lastSeq, sync>>
      BY <1>12, <2>1 DEF CANext, RevokeLost, CARestart, SetBanned, MintBypass, Expire,
         CADeny, CAMint, CAReply, caVars
    <3>. QED  BY <1>11, <3>1
  <2>. QED  BY <1>1, <2>1
<1>13. CASE ConnNext
  <2>1. CASE ~ \E c \in Conn : HandleGrant(c) \/ HandleDeny(c)
    <3>1. UNCHANGED <<log, lastSeq, sync>>
      BY <1>13, <2>1 DEF ConnNext, AcceptHit, AcceptMiss, AcceptExpired, CallFails,
         CloseSession, Inject, caVars
    <3>. QED  BY <1>11, <3>1
  <2>. QED  BY <1>10, <2>1
<1>. QED
  BY <1>2, <1>3, <1>4, <1>5, <1>6, <1>7, <1>8, <1>9, <1>11, <1>12, <1>13
     DEF Next, SyncNext, RestartNext, vars

LEMMA CInvStep ==
  ASSUME Faults \cap {"lossy", "reset"} = {}
  PROVE  CInv /\ [Next]_vars => CInv'
<1>. SUFFICES ASSUME CInv, [Next]_vars PROVE CInv'
  OBVIOUS
<1>1. OInv'
  <2>1. "reset" \notin Faults
    OBVIOUS
  <2>. QED  BY <2>1, OInvStep DEF CInv
<1>2. Dense'
  BY DenseStep DEF CInv, OInv
<1>3. TaskExact' /\ PageExact'
  BY TaskStep
<1>. QED  BY <1>1, <1>2, <1>3 DEF CInv

-----------------------------------------------------------------------------
(* Revocation reaches the cache and the file *)

\* A step that appends a revocation, numbers it beyond what was applied.
LEMMA RevokedLater ==
  ASSUME OInv, NEW i \in Issuer, Revoke(i), NEW k \in Cert, NEW s \in Seqs,
         \A j \in Issuer : s[j] <= lastSeq[j], RevokedUpTo(k, s)'
  PROVE  RevokedUpTo(k, s)
<1>1. PICK ss : log' = [log EXCEPT ![i] = @ \cup {[seq |-> cur[i] + 1, serials |-> ss]}]
  BY DEF Revoke
<1>2. PICK e \in log'[k.iss] : k.serial \in e.serials /\ e.seq <= s[k.iss]
  BY DEF RevokedUpTo, Revocations
<1>3. e \in log[k.iss] \/ e.seq = cur[k.iss] + 1
  BY <1>1, <1>2 DEF OInv, TInv, TypeOK, Cert
<1>4. s[k.iss] <= cur[k.iss] /\ s[k.iss] \in Nat /\ cur[k.iss] \in Nat
  BY DEF OInv, NotAheadOfCA, TInv, TypeOK, Seqs, Cert
<1>. QED  BY <1>2, <1>3, <1>4 DEF RevokedUpTo, Revocations

\* A page drops every cert it revokes, so that what stays in the cache is not
\* stale by the numbers the page records.
LEMMA PageDrops ==
  ASSUME CInv, TInv', ApplyPage, NEW p \in Principal, cache'[p] = cache[p],
         cache[p] # None, RevokedUpTo(cache[p], lastSeq)'
  PROVE  RevokedUpTo(cache[p], lastSeq)
<1>. USE DEF CInv, OInv
<1> DEFINE top == Max({e.seq : e \in sync.page})
           k == cache[p]
<1>1. /\ top \in Nat
      /\ \E f \in sync.page : f.seq = top
  BY TopOfPage DEF ApplyPage
<1>2. /\ cache' = Drop(cache, SerialsOf(sync.page))
      /\ lastSeq' = Advance(lastSeq, sync.iss, top)
      /\ log' = log
      /\ sync.pc = "reply"
  BY DEF ApplyPage, caVars
<1>. HIDE DEF top
<1>3. k \in Cert /\ k.iss \in Issuer
  BY DEF TInv, TypeOK, Cache, Cert
<1>4. PICK e \in log[k.iss] : k.serial \in e.serials /\ e.seq <= lastSeq'[k.iss]
  BY <1>2 DEF RevokedUpTo, Revocations
<1>5. k.serial \notin SerialsOf(sync.page)
  BY <1>2, NoneIsNoCert DEF Drop
<1>6. e \notin sync.page
  BY <1>4, <1>5 DEF SerialsOf
<1>7. e.seq <= lastSeq[k.iss]
  <2>1. CASE k.iss # sync.iss
    BY <1>1, <1>2, <1>3, <1>4, <2>1, AdvanceGrows DEF TInv, TypeOK, SyncTask
  <2>2. CASE k.iss = sync.iss
    <3>1. PICK f \in sync.page : f.seq = top
      BY <1>1
    <3>2. ~(sync.applied < e.seq /\ e.seq <= f.seq)
      BY <1>2, <1>4, <1>6, <2>2, <3>1 DEF PageExact
    <3>3. sync.applied = lastSeq[k.iss] /\ lastSeq[k.iss] \in Nat /\ e.seq \in Nat
      BY <1>2, <1>3, <1>4, <2>2 DEF TaskExact, TInv, TypeOK, Seqs, Entry
    <3>4. lastSeq'[k.iss] = IF top > lastSeq[k.iss] THEN top ELSE lastSeq[k.iss]
      BY <1>1, <1>2, <2>2, AdvanceGrows DEF TInv, TypeOK, SyncTask
    <3>. QED  BY <1>1, <1>4, <3>1, <3>2, <3>3, <3>4
  <2>. QED  BY <2>1, <2>2
<1>. QED  BY <1>4, <1>7 DEF RevokedUpTo, Revocations

LEMMA AppliedStep ==
  ASSUME CInv, TInv', StoreSteps, NEW p \in Principal, cache'[p] = cache[p], Stale(p)'
  PROVE  Stale(p)
<1>. USE DEF CInv, OInv
<1>1. cache[p] # None /\ cache[p] \in Cert /\ RevokedUpTo(cache[p], lastSeq)'
  BY DEF Stale, TInv, TypeOK, Cache
<1>0. \A i \in Issuer : lastSeq[i] <= lastSeq[i]
  BY DEF TInv, TypeOK, Seqs
<1>2. ASSUME NEW i \in Issuer, Revoke(i) PROVE Stale(p)
  <2>1. RevokedUpTo(cache[p], lastSeq)
    <3>1. lastSeq' = lastSeq
      BY <1>2 DEF Revoke
    <3>2. PICK e \in log'[cache[p].iss] : /\ cache[p].serial \in e.serials
                                          /\ e.seq <= lastSeq[cache[p].iss]
      BY <1>1, <3>1 DEF RevokedUpTo, Revocations
    <3>. QED  BY <1>0, <1>1, <1>2, <3>2, RevokedLater DEF TInv, TypeOK, RevokedUpTo, Revocations
  <2>. QED  BY <1>1, <2>1 DEF Stale
<1>3. CASE log' = log /\ lastSeq' = lastSeq
  BY <1>1, <1>3 DEF Stale, RevokedUpTo, Revocations
<1>4. CASE ApplyPage
  BY <1>1, <1>4, PageDrops DEF Stale
<1>5. CASE ApplyEmpty
  BY <1>5 DEF ApplyEmpty, PageExact
<1>6. CASE Restart \/ CrashInPage \/ FileLost
  <2>1. log' = log /\ \A i \in Issuer : lastSeq'[i] <= lastSeq[i]
    BY <1>0, <1>6 DEF Restart, CrashInPage, FileLost, Boot, NotAheadOfCA, caVars, TInv, TypeOK,
       Seqs, ZeroSeqs
  <2>2. PICK e \in log[cache[p].iss] : /\ cache[p].serial \in e.serials
                                       /\ e.seq <= lastSeq'[cache[p].iss]
    BY <1>1, <2>1 DEF RevokedUpTo, Revocations
  <2>3. e.seq <= lastSeq[cache[p].iss]
    BY <1>1, <2>1, <2>2 DEF TInv, TypeOK, Seqs, Cert, Entry
  <2>. QED  BY <1>1, <2>2, <2>3 DEF Stale, RevokedUpTo, Revocations
<1>. QED
  BY <1>2, <1>3, <1>4, <1>5, <1>6 DEF StoreSteps, ApplyBroken, caVars

\* For a CA whose numbers are dense, msshd never records a CRL number as applied
\* over a cached entry it revokes (crl_sync.py:124-174, authz_cache.py:250-291).
THEOREM AppliedDropped ==
  ASSUME Faults \cap {"lossy", "reset"} = {}
  PROVE  Spec => AppliedMeansDropped
<1>1. CInv /\ [Next]_vars
        => [\A p \in Principal : cache'[p] = cache[p] /\ Stale(p)' => Stale(p)]_vars
  <2>. SUFFICES ASSUME CInv, TInv', StoreSteps
                PROVE  \A p \in Principal : cache'[p] = cache[p] /\ Stale(p)' => Stale(p)
    BY TInvStep, StepsOfStores DEF CInv, OInv
  <2>. QED  BY AppliedStep
<1>2. CInv /\ [Next]_vars => CInv'
  BY CInvStep
<1>. QED  BY CInvInit, <1>1, <1>2, PTL DEF Spec, AppliedMeansDropped

\* What a write puts into the file while a page is applied: entries of the
\* cache, with the numbers of the step before.
LEMMA DropKeeps ==
  ASSUME TInv, NEW ss, NEW p \in Principal
  PROVE  Drop(cache, ss)[p] \in {None, cache[p]}
BY DEF Drop

LEMMA DurableStep ==
  ASSUME CInv, TInv', StoreSteps, NEW p \in Principal, StaleOnDisk(p)'
  PROVE  StaleOnDisk(p) \/ Stale(p) \/ JustPut(p)
<1>. USE DEF CInv, OInv
<1>0. /\ disk'.cache[p] # None
      /\ disk'.cache[p] \in Cert
      /\ disk'.seqs \in Seqs
      /\ \E e \in log'[disk'.cache[p].iss] : /\ disk'.cache[p].serial \in e.serials
                                             /\ e.seq <= disk'.seqs[disk'.cache[p].iss]
  BY DEF StaleOnDisk, RevokedUpTo, Revocations, TInv, TypeOK, Cache
<1>1. ASSUME NEW i \in Issuer, Revoke(i) PROVE StaleOnDisk(p)
  <2>1. disk' = disk
    BY <1>1 DEF Revoke
  <2>2. RevokedUpTo(disk.cache[p], disk.seqs)
    BY <1>0, <1>1, <2>1, RevokedLater
       DEF NotAheadOfCA, TInv, TypeOK, RevokedUpTo, Revocations
  <2>. QED  BY <1>0, <2>1, <2>2 DEF StaleOnDisk
<1>2. CASE log' = log /\ disk' = disk
  BY <1>0, <1>2 DEF StaleOnDisk, RevokedUpTo, Revocations
<1>3. CASE log' = log /\ disk'.seqs = lastSeq /\ disk'.cache[p] \in {None, cache[p]}
  BY <1>0, <1>3 DEF Stale, RevokedUpTo, Revocations
<1>4. CASE log' = log /\ disk' = [cache |-> cache', seqs |-> lastSeq]
  <2>1. CASE cache'[p] = cache[p]
    BY <1>3, <1>4, <2>1
  <2>2. CASE cache'[p] # cache[p]
    BY <1>4, <2>2 DEF JustPut
  <2>. QED  BY <2>1, <2>2
<1>5. CASE ApplyPage
  <2>1. CASE disk' = [cache |-> cache', seqs |-> lastSeq']
    <3>1. ASSUME cache'[p] = cache[p] PROVE Stale(p)
      <4>1. Stale(p)'
        BY <1>0, <2>1 DEF Stale, RevokedUpTo, Revocations
      <4>. QED  BY <3>1, <4>1, AppliedStep
    <3>. QED  BY <2>1, <3>1 DEF JustPut
  <2>. QED  BY <1>2, <1>4, <1>5, <2>1 DEF ApplyPage, caVars
<1>6. CASE ApplyBroken
  <2>1. PICK e \in sync.page : \E ss \in SUBSET e.serials, s \in e.serials :
          disk' = IF Drop(cache, Handled(e, ss)) = cache
                    THEN disk ELSE [cache |-> Drop(cache, Handled(e, ss)), seqs |-> lastSeq]
    BY <1>6 DEF ApplyBroken
  <2>2. PICK ss : disk' = disk \/ disk' = [cache |-> Drop(cache, ss), seqs |-> lastSeq]
    BY <2>1
  <2>3. log' = log
    BY <1>6 DEF ApplyBroken, caVars
  <2>. QED  BY <1>2, <1>3, <2>2, <2>3, DropKeeps
<1>7. CASE ApplyEmpty
  BY <1>7 DEF ApplyEmpty, PageExact
<1>8. CASE Restart
  BY <1>2, <1>8 DEF Restart, Boot, caVars
<1>9. CASE CrashInPage
  <2>1. PICK e \in sync.page : \E ss \in SUBSET e.serials :
          Boot([cache |-> Drop(cache, Handled(e, ss)), seqs |-> lastSeq])
    BY <1>9 DEF CrashInPage
  <2>. QED  BY <1>3, <2>1, DropKeeps DEF Boot, caVars
<1>10. CASE FileLost
  BY <1>0, <1>10 DEF FileLost, Boot, EmptyCache
<1>. QED
  BY <1>1, <1>2, <1>4, <1>5, <1>6, <1>7, <1>8, <1>9, <1>10 DEF StoreSteps

\* The same of authz_cache.json, whatever is lost in a crash or in a failed
\* write: an entry of the file is stale only when the one in memory was, or has
\* just been put there and written (authz_cache.py:310-413, crl_sync.py:167-169).
THEOREM DurableAppliedDropped ==
  ASSUME Faults \cap {"lossy", "reset"} = {}
  PROVE  Spec => DurableAppliedMeansDropped
<1>1. CInv /\ [Next]_vars
        => [\A p \in Principal :
              StaleOnDisk(p)' => StaleOnDisk(p) \/ Stale(p) \/ JustPut(p)]_vars
  <2>. SUFFICES ASSUME CInv, TInv', StoreSteps
                PROVE  \A p \in Principal :
                         StaleOnDisk(p)' => StaleOnDisk(p) \/ Stale(p) \/ JustPut(p)
    BY TInvStep, StepsOfStores DEF CInv, OInv
  <2>. QED  BY DurableStep
<1>2. CInv /\ [Next]_vars => CInv'
  BY CInvStep
<1>. QED  BY CInvInit, <1>1, <1>2, PTL DEF Spec, DurableAppliedMeansDropped
=============================================================================
