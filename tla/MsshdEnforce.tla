---------------------------- MODULE MsshdEnforce ----------------------------
(***************************************************************************)
(* One msshd in enforce mode and the CA it asks: the authorization cache   *)
(* (authz_cache.py), the background CRL sync (crl_sync.py), the connection *)
(* handler (enforce_listener.py) and, on the CA's side, the authorize      *)
(* handler and the per-issuer CRL feed (authorize.py, crl.py, server.py).  *)
(*                                                                         *)
(* msshd is asyncio on one thread: what a handler does between two awaits  *)
(* is one step.  The CA is a threaded server: what it does between two     *)
(* reads of shared state is one step.  A request or a response in flight   *)
(* is a value of conn[c].pc or sync.pc, so every delay is an interleaving. *)
(***************************************************************************)
EXTENDS Integers, FiniteSets, FiniteSetsExt

CONSTANTS
  Principal,        \* the users msshd serves; the cache is keyed by them
  Conn,             \* connection slots: handlers that may run at once
  Issuer,           \* short names of the intermediates that have a CRL log
  UserMint,         \* the issuer of authz certs
  BypassMint,       \* the issuer of bypass certs
  UserSerial,       \* serials authz certs are drawn from
  BypassSerial,     \* serials bypass certs are drawn from
  FetchLimit,       \* ca.crl_fetch_limit
  StrictThreshold,  \* ca.crl_strict_threshold, 0 disables the gate
  PerConnection,    \* inner.mode is per-connection
  Faults,           \* which faults happen, a subset of FaultKinds
  MaxSeq,           \* bound: how many CRL numbers the CA assigns, per issuer
  None              \* no cert, no principal, no response

FaultKinds == {"net", "crash", "disk", "lossy", "reset"}
Serial == UserSerial \cup BypassSerial

ASSUME EnforceAssumption ==
  /\ UserMint \in Issuer
  /\ BypassMint \in Issuer \ {UserMint}
  /\ FetchLimit \in Nat \ {0}
  /\ StrictThreshold \in Nat
  /\ PerConnection \in BOOLEAN
  /\ Faults \subseteq FaultKinds
  /\ MaxSeq \in [Issuer -> Nat]
  /\ None \notin Principal

Cert == [iss : Issuer, serial : Serial, owner : Principal]
Entry == [seq : Nat, serials : SUBSET Serial]
Seqs == [Issuer -> Nat]
Cache == [Principal -> Cert \cup {None}]

ASSUME NoneIsNoCert == None \notin Cert

VARIABLES
  log,      \* CA: [Issuer -> set of readable CRL entries]
  cur,      \* CA: [Issuer -> _current_seq]
  minted,   \* CA: the certs signed so far
  banned,   \* CA: principals the enrollment and policies refuse
  expired,  \* certs whose not_after has passed
  cache,    \* msshd: AuthzCache._entries
  lastSeq,  \* msshd: AuthzCache.last_crl_seqs
  known,    \* msshd: EnforceListener._last_known_ca_crl_seqs
  disk,     \* msshd: authz_cache.json
  conn,     \* msshd: the connection handlers
  sync      \* msshd: CRLSync's task

caVars == <<log, cur, minted, banned, expired>>
vars == <<log, cur, minted, banned, expired,
          cache, lastSeq, known, disk, conn, sync>>

-----------------------------------------------------------------------------
(* Types and initial state *)

ZeroSeqs == [i \in Issuer |-> 0]
EmptyCache == [p \in Principal |-> None]
Idle == [pc |-> "idle", who |-> None, cert |-> None, seqs |-> ZeroSeqs]
NoSync == [pc |-> "idle", target |-> ZeroSeqs, todo |-> {}, iss |-> UserMint,
           applied |-> 0, page |-> {}, reported |-> 0]

Connection ==
  [pc : {"idle", "calling", "minted", "replied", "refused", "open", "rejected"},
   who : Principal \cup {None}, cert : Cert \cup {None}, seqs : Seqs]

SyncTask ==
  [pc : {"idle", "run", "fetch", "page", "reply"},
   target : Seqs, todo : SUBSET Issuer, iss : Issuer,
   applied : Nat, page : SUBSET Entry, reported : Nat]

\* Every variable has its type, and a handler that is not idle has a
\* principal; one that holds a grant holds a cert.
TypeOK ==
  /\ log \in [Issuer -> SUBSET Entry]
  /\ cur \in Seqs
  /\ minted \subseteq Cert
  /\ banned \subseteq Principal
  /\ expired \subseteq Cert
  /\ cache \in Cache
  /\ lastSeq \in Seqs
  /\ known \in Seqs
  /\ disk \in [cache : Cache, seqs : Seqs]
  /\ conn \in [Conn -> Connection]
  /\ \A c \in Conn : conn[c].pc # "idle" => conn[c].who \in Principal
  /\ \A c \in Conn : conn[c].pc \in {"minted", "replied"} => conn[c].cert \in Cert
  /\ sync \in SyncTask

Init ==
  /\ log = [i \in Issuer |-> {}]
  /\ cur = ZeroSeqs
  /\ minted = {}
  /\ banned = {}
  /\ expired = {}
  /\ cache = EmptyCache
  /\ lastSeq = ZeroSeqs
  /\ known = ZeroSeqs
  /\ disk = [cache |-> EmptyCache, seqs |-> ZeroSeqs]
  /\ conn = [c \in Conn |-> Idle]
  /\ sync = NoSync

-----------------------------------------------------------------------------
(* Helpers *)

SerialsOf(entries) == UNION {e.serials : e \in entries}

\* AuthzCache.invalidate_by_serial for each serial of a set: the serial alone
\* is compared, never the issuer.
Drop(c, serials) ==
  [p \in Principal |-> IF c[p] # None /\ c[p].serial \in serials THEN None ELSE c[p]]

\* CRLStore.fetch_after: the first FetchLimit entries beyond a sequence number.
FetchAfter(entries, after) ==
  {e \in entries :
     /\ e.seq > after
     /\ Cardinality({f \in entries : after < f.seq /\ f.seq <= e.seq}) <= FetchLimit}

\* AuthzCache._persist: memory replaces the file, or the write raises.
Outcome == IF "disk" \in Faults THEN BOOLEAN ELSE {TRUE}
Persist(ok, c, s) == disk' = IF ok THEN [cache |-> c, seqs |-> s] ELSE disk

\* Mutant of Advance: any number is recorded.
AdvanceAlways(s, i, seq) == [s EXCEPT ![i] = seq]

\* AuthzCache.set_last_crl_seq: only a strictly greater number is recorded.
Advance(s, i, seq) == IF seq > s[i] THEN [s EXCEPT ![i] = seq] ELSE s

\* EnforceListener._update_known_ca_seqs
Merge(s, t) == [i \in Issuer |-> IF t[i] > s[i] THEN t[i] ELSE s[i]]

\* CRLSync.maybe_sync: a new task unless msshd is up to date or a task runs;
\* the numbers brought by a trigger that finds a task running are not kept.
MaybeSync(seqs) ==
  IF sync.pc = "idle" /\ \E i \in Issuer : seqs[i] > lastSeq[i]
  THEN [NoSync EXCEPT !.pc = "run", !.target = seqs, !.todo = Issuer]
  ELSE sync

\* The strict-mode gate of _on_client: the gap summed over the issuers.
Gap(i) == IF known[i] > lastSeq[i] THEN known[i] - lastSeq[i] ELSE 0
TotalGap == SumFunction([i \in Issuer |-> Gap(i)])
CacheIsStale == StrictThreshold > 0 /\ TotalGap > StrictThreshold

-----------------------------------------------------------------------------
(* The CA *)

FreshSerial(i, pool) == {s \in pool : \A k \in minted : k.iss = i => k.serial # s}

\* cert_revoke: an entry with the next number is appended to the issuer's log.
Revoke(i) ==
  /\ cur[i] < MaxSeq[i]
  /\ \E ss \in SUBSET {k.serial : k \in {m \in minted : m.iss = i}} :
       /\ ss # {}
       /\ log' = [log EXCEPT ![i] = @ \cup {[seq |-> cur[i] + 1, serials |-> ss]}]
  /\ cur' = [cur EXCEPT ![i] = @ + 1]
  /\ UNCHANGED <<minted, banned, expired, cache, lastSeq, known, disk, conn, sync>>

\* CRLStore.append when the line does not become readable (module CrlStore):
\* the number is assigned and the entry is lost.
RevokeLost(i) ==
  /\ "lossy" \in Faults
  /\ cur[i] < MaxSeq[i]
  /\ cur' = [cur EXCEPT ![i] = @ + 1]
  /\ UNCHANGED <<log, minted, banned, expired, cache, lastSeq, known, disk, conn, sync>>

\* The CA restarts: _scan_current_seq takes the highest readable number.
CARestart(i) ==
  /\ "reset" \in Faults
  /\ cur' = [cur EXCEPT ![i] = Max({e.seq : e \in log[i]} \cup {0})]
  /\ UNCHANGED <<log, minted, banned, expired, cache, lastSeq, known, disk, conn, sync>>

\* Enrollment or policy changes decide whether the CA grants a principal.
SetBanned(p) ==
  /\ banned' = IF p \in banned THEN banned \ {p} ELSE banned \cup {p}
  /\ UNCHANGED <<log, cur, minted, expired, cache, lastSeq, known, disk, conn, sync>>

\* bypass_cert_mint: a bypass cert for p, kept offline by its owner.
MintBypass(p) ==
  /\ \E s \in FreshSerial(BypassMint, BypassSerial) :
       minted' = minted \cup {[iss |-> BypassMint, serial |-> s, owner |-> p]}
  /\ UNCHANGED <<log, cur, banned, expired, cache, lastSeq, known, disk, conn, sync>>

\* not_after passes.
Expire(k) ==
  /\ k \in minted \ expired
  /\ expired' = expired \cup {k}
  /\ UNCHANGED <<log, cur, minted, banned, cache, lastSeq, known, disk, conn, sync>>

\* handle_authorize denies; the sequence numbers were read on entry.
CADeny(c) ==
  /\ conn[c].pc = "calling"
  /\ conn[c].who \in banned
  /\ conn' = [conn EXCEPT ![c].pc = "refused", ![c].seqs = cur]
  /\ UNCHANGED <<caVars, cache, lastSeq, known, disk, sync>>

\* handle_authorize grants: the cert is minted and audited ...
CAMint(c) ==
  /\ conn[c].pc = "calling"
  /\ conn[c].who \notin banned
  /\ \E s \in FreshSerial(UserMint, UserSerial) :
       LET k == [iss |-> UserMint, serial |-> s, owner |-> conn[c].who] IN
       /\ minted' = minted \cup {k}
       /\ conn' = [conn EXCEPT ![c].pc = "minted", ![c].cert = k]
  /\ UNCHANGED <<log, cur, banned, expired, cache, lastSeq, known, disk, sync>>

\* Mutant of CAReply: the number of the next entry is reported.
CAReplyNext(c) ==
  /\ conn[c].pc = "minted"
  /\ conn' = [conn EXCEPT ![c].pc = "replied", ![c].seqs = [i \in Issuer |-> cur[i] + 1]]
  /\ UNCHANGED <<caVars, cache, lastSeq, known, disk, sync>>

\* ... and the response then reads the current sequence numbers.
CAReply(c) ==
  /\ conn[c].pc = "minted"
  /\ conn' = [conn EXCEPT ![c].pc = "replied", ![c].seqs = cur]
  /\ UNCHANGED <<caVars, cache, lastSeq, known, disk, sync>>

-----------------------------------------------------------------------------
(* The connection handler: EnforceListener._on_client *)

\* No answer from any CA endpoint: AuthorizationError, the connection closes
\* and the cache is not touched.
CallFails(c) ==
  /\ "net" \in Faults
  /\ conn[c].pc \in {"calling", "minted", "replied", "refused"}
  /\ conn' = [conn EXCEPT ![c] = Idle]
  /\ UNCHANGED <<caVars, cache, lastSeq, known, disk, sync>>

\* A session is refused at the inner leg: per-connection mode needs the config
\* the CA renders, which an injected bypass grant does not carry.
Refused(k) == PerConnection /\ k.iss = BypassMint

\* Cache hit: the session opens without a CA call.
AcceptHit(c, p) ==
  /\ conn[c] = Idle
  /\ ~CacheIsStale
  /\ cache[p] # None
  /\ cache[p] \notin expired
  /\ conn' = [conn EXCEPT ![c] = [Idle EXCEPT
       !.pc = IF Refused(cache[p]) THEN "rejected" ELSE "open", !.who = p, !.cert = cache[p]]]
  /\ UNCHANGED <<caVars, cache, lastSeq, known, disk, sync>>

\* Mutant of AcceptMiss: the handler loses whom it serves.
AcceptMissNameless(c, p) ==
  /\ conn[c] = Idle
  /\ CacheIsStale \/ cache[p] = None
  /\ conn' = [conn EXCEPT ![c] = [Idle EXCEPT !.pc = "calling"]]
  /\ UNCHANGED <<caVars, cache, lastSeq, known, disk, sync>>

\* No entry, or the gate is shut: the CA is asked.
AcceptMiss(c, p) ==
  /\ conn[c] = Idle
  /\ CacheIsStale \/ cache[p] = None
  /\ conn' = [conn EXCEPT ![c] = [Idle EXCEPT !.pc = "calling", !.who = p]]
  /\ UNCHANGED <<caVars, cache, lastSeq, known, disk, sync>>

\* AuthzCache.get drops an expired entry and persists; then the CA is asked,
\* unless the write raised and ended the handler.
AcceptExpired(c, p) ==
  /\ conn[c] = Idle
  /\ ~CacheIsStale
  /\ cache[p] # None
  /\ cache[p] \in expired
  /\ cache' = [cache EXCEPT ![p] = None]
  /\ \E ok \in Outcome :
       /\ Persist(ok, cache', lastSeq)
       /\ conn' = IF ok THEN [conn EXCEPT ![c] = [Idle EXCEPT !.pc = "calling", !.who = p]]
                        ELSE conn
  /\ UNCHANGED <<caVars, lastSeq, known, sync>>

\* A grant arrives: cache it, learn the sequence numbers, maybe sync, open.
HandleGrant(c) ==
  /\ conn[c].pc = "replied"
  /\ cache' = [cache EXCEPT ![conn[c].who] = conn[c].cert]
  /\ \E ok \in Outcome :
       /\ Persist(ok, cache', lastSeq)
       /\ known' = IF ok THEN Merge(known, conn[c].seqs) ELSE known
       /\ sync' = IF ok THEN MaybeSync(conn[c].seqs) ELSE sync
       /\ conn' = [conn EXCEPT ![c] = IF ok THEN [@ EXCEPT !.pc = "open", !.seqs = ZeroSeqs]
                                            ELSE Idle]
  /\ UNCHANGED <<caVars, lastSeq>>

\* A denial arrives: the entry goes whatever its source, then as for a grant.
\* Nothing is written when there was no entry.
HandleDeny(c) ==
  /\ conn[c].pc = "refused"
  /\ cache' = [cache EXCEPT ![conn[c].who] = None]
  /\ \E ok \in IF cache' = cache THEN {TRUE} ELSE Outcome :
       /\ IF cache' = cache THEN UNCHANGED disk ELSE Persist(ok, cache', lastSeq)
       /\ known' = IF ok THEN Merge(known, conn[c].seqs) ELSE known
       /\ sync' = IF ok THEN MaybeSync(conn[c].seqs) ELSE sync
  /\ conn' = [conn EXCEPT ![c] = Idle]
  /\ UNCHANGED <<caVars, lastSeq>>

CloseSession(c) ==
  /\ conn[c].pc \in {"open", "rejected"}
  /\ conn' = [conn EXCEPT ![c] = Idle]
  /\ UNCHANGED <<caVars, cache, lastSeq, known, disk, sync>>

\* _handle_bypass_injection: window, marker, signature and principal are
\* checked, the CRL is not; the grant goes into the cache.
Inject(k) ==
  /\ k \in minted \ expired
  /\ k.iss = BypassMint
  /\ cache' = [cache EXCEPT ![k.owner] = k]
  /\ \E ok \in Outcome : Persist(ok, cache', lastSeq)
  /\ UNCHANGED <<caVars, lastSeq, known, conn, sync>>

-----------------------------------------------------------------------------
(* The background sync: CRLSync._do_sync and _do_sync_issuer *)

\* The next stale issuer of the task's map; each is visited once.
SyncIssuer(i) ==
  /\ sync.pc = "run"
  /\ i \in sync.todo
  /\ sync.target[i] > lastSeq[i]
  /\ sync' = [sync EXCEPT !.pc = "fetch", !.iss = i, !.todo = @ \ {i},
                          !.applied = lastSeq[i]]
  /\ UNCHANGED <<caVars, cache, lastSeq, known, disk, conn>>

SyncDone ==
  /\ sync.pc = "run"
  /\ \A i \in sync.todo : sync.target[i] <= lastSeq[i]
  /\ sync' = NoSync
  /\ UNCHANGED <<caVars, cache, lastSeq, known, disk, conn>>

\* GET /v1/crl reads the entries under the store's lock ...
ServePage ==
  /\ sync.pc = "fetch"
  /\ sync' = [sync EXCEPT !.pc = "page",
                          !.page = FetchAfter(log[sync.iss], sync.applied)]
  /\ UNCHANGED <<caVars, cache, lastSeq, known, disk, conn>>

\* ... and current_seq afterwards, without it.
ServeSeq ==
  /\ sync.pc = "page"
  /\ sync' = [sync EXCEPT !.pc = "reply", !.reported = cur[sync.iss]]
  /\ UNCHANGED <<caVars, cache, lastSeq, known, disk, conn>>

\* A fetch raises: the issuer is left where it is, the next one is tried.
FetchFails ==
  /\ "net" \in Faults
  /\ sync.pc \in {"fetch", "page", "reply"}
  /\ sync' = [sync EXCEPT !.pc = "run", !.page = {}, !.reported = 0]
  /\ UNCHANGED <<caVars, cache, lastSeq, known, disk, conn>>

\* Mutant of SyncAfter: the loop stops one number early.
SyncAfterShort(applied) ==
  [sync EXCEPT !.pc = IF applied + 1 < sync.target[sync.iss] THEN "fetch" ELSE "run",
               !.applied = applied, !.page = {}, !.reported = 0]

\* The loop goes on while the task's target is not reached.
SyncAfter(applied) ==
  [sync EXCEPT !.pc = IF applied < sync.target[sync.iss] THEN "fetch" ELSE "run",
               !.applied = applied, !.page = {}, !.reported = 0]

\* Mutant of ApplyPage: the number the CA reports is recorded, not the page's.
ApplyPageReported ==
  /\ sync.pc = "reply"
  /\ sync.page # {}
  /\ cache' = Drop(cache, SerialsOf(sync.page))
  /\ lastSeq' = Advance(lastSeq, sync.iss, sync.reported)
  /\ disk' = [cache |-> cache', seqs |-> lastSeq']
  /\ sync' = SyncAfter(sync.reported)
  /\ UNCHANGED <<caVars, known, conn>>

\* A page arrives: its serials are invalidated one by one, each write that
\* drops something is persisted, and the last number is recorded and persisted
\* at the end.  A raise in that last write ends the task.
ApplyPage ==
  /\ sync.pc = "reply"
  /\ sync.page # {}
  /\ LET top == Max({e.seq : e \in sync.page}) IN
     /\ cache' = Drop(cache, SerialsOf(sync.page))
     /\ lastSeq' = Advance(lastSeq, sync.iss, top)
     /\ \/ /\ disk' = [cache |-> cache', seqs |-> lastSeq']
           /\ sync' = SyncAfter(top)
        \/ /\ "disk" \in Faults
           /\ disk' = IF cache' = cache THEN disk ELSE [cache |-> cache', seqs |-> lastSeq]
           /\ sync' = NoSync
  /\ UNCHANGED <<caVars, known, conn>>

\* The serials of a page that have been handled when the loop stops inside
\* entry e, with the part ss of e's own serials done.
Handled(e, ss) == SerialsOf({f \in sync.page : f.seq < e.seq}) \cup ss

\* A write raises while a page is applied: what was dropped before stays on
\* disk, the entry of the failed write is dropped in memory only, the number
\* is not recorded and the task ends.
ApplyBroken ==
  /\ "disk" \in Faults
  /\ sync.pc = "reply"
  /\ \E e \in sync.page : \E ss \in SUBSET e.serials : \E s \in e.serials \ ss :
       LET done == Drop(cache, Handled(e, ss)) IN
       /\ cache' = Drop(done, {s})
       /\ cache' # done
       /\ disk' = IF done = cache THEN disk ELSE [cache |-> done, seqs |-> lastSeq]
  /\ sync' = NoSync
  /\ UNCHANGED <<caVars, lastSeq, known, conn>>

\* Mutant of ApplyEmpty: the page is asked for again.
ApplyEmptyRetry ==
  /\ sync.pc = "reply"
  /\ sync.page = {}
  /\ sync' = [sync EXCEPT !.pc = "fetch", !.reported = 0]
  /\ UNCHANGED <<caVars, cache, lastSeq, known, disk, conn>>

\* An empty page although the target is ahead: the number the CA reports is
\* taken over and the issuer is done.
ApplyEmpty ==
  /\ sync.pc = "reply"
  /\ sync.page = {}
  /\ LET seq == IF sync.reported > sync.applied THEN sync.reported ELSE 0 IN
     /\ lastSeq' = Advance(lastSeq, sync.iss, seq)
     /\ \E ok \in IF lastSeq' = lastSeq THEN {TRUE} ELSE Outcome :
          /\ IF lastSeq' = lastSeq THEN UNCHANGED disk ELSE Persist(ok, cache, lastSeq')
          /\ sync' = IF ok THEN [sync EXCEPT !.pc = "run", !.reported = 0] ELSE NoSync
  /\ UNCHANGED <<caVars, cache, known, conn>>

-----------------------------------------------------------------------------
(* Restart of msshd *)

\* AuthzCache._load drops what has expired; the listener's view of the CA
\* restarts from the numbers that were applied.
Boot(d) ==
  /\ cache' = [p \in Principal |-> IF d.cache[p] \in expired THEN None ELSE d.cache[p]]
  /\ lastSeq' = d.seqs
  /\ known' = d.seqs
  /\ disk' = d
  /\ conn' = [c \in Conn |-> Idle]
  /\ sync' = NoSync
  /\ UNCHANGED caVars

\* msshd stops between two handlers and comes back.
Restart == "crash" \in Faults /\ Boot(disk)

\* Mutant of CrashInPage: the number is written before the drops.
CrashAfterNumber ==
  /\ "crash" \in Faults
  /\ sync.pc = "reply"
  /\ sync.page # {}
  /\ Boot([cache |-> cache,
           seqs |-> Advance(lastSeq, sync.iss, Max({e.seq : e \in sync.page}))])

\* msshd stops while a page is applied: the drops made so far are on disk,
\* the sequence number is not.
CrashInPage ==
  /\ "crash" \in Faults
  /\ sync.pc = "reply"
  /\ \E e \in sync.page : \E ss \in SUBSET e.serials :
       LET done == Drop(cache, Handled(e, ss)) IN
       /\ done # cache
       /\ Boot([cache |-> done, seqs |-> lastSeq])

\* The file is unreadable at the next start (its content was never fsynced):
\* msshd starts with no entry and no sequence number.
FileLost ==
  /\ "crash" \in Faults
  /\ Boot([cache |-> EmptyCache, seqs |-> ZeroSeqs])

-----------------------------------------------------------------------------
(* Specification *)

CANext ==
  \/ \E i \in Issuer : Revoke(i) \/ RevokeLost(i) \/ CARestart(i)
  \/ \E p \in Principal : SetBanned(p) \/ MintBypass(p)
  \/ \E k \in minted : Expire(k)
  \/ \E c \in Conn : CADeny(c) \/ CAMint(c) \/ CAReply(c)

ConnNext ==
  \/ \E c \in Conn, p \in Principal :
       AcceptHit(c, p) \/ AcceptMiss(c, p) \/ AcceptExpired(c, p)
  \/ \E c \in Conn :
       CallFails(c) \/ HandleGrant(c) \/ HandleDeny(c) \/ CloseSession(c)
  \/ \E k \in minted : Inject(k)

SyncNext ==
  \/ \E i \in Issuer : SyncIssuer(i)
  \/ SyncDone \/ ServePage \/ ServeSeq \/ FetchFails
  \/ ApplyPage \/ ApplyBroken \/ ApplyEmpty

RestartNext == Restart \/ CrashInPage \/ FileLost

Next == CANext \/ ConnNext \/ SyncNext \/ RestartNext

Spec == Init /\ [][Next]_vars

\* The event loop runs the sync task and the CA answers its requests; nothing
\* is promised of users, operators or faults.
SyncProgress ==
  \/ \E i \in Issuer : SyncIssuer(i)
  \/ SyncDone \/ ServePage \/ ServeSeq \/ ApplyPage \/ ApplyEmpty

FairSpec == Spec /\ WF_vars(SyncProgress)

-----------------------------------------------------------------------------
(* Properties *)

\* The CRL entries that revoke a cert, and those of them that a map of applied
\* numbers claims to have applied.
Revocations(k) == {e \in log[k.iss] : k.serial \in e.serials}
RevokedUpTo(k, s) == \E e \in Revocations(k) : e.seq <= s[k.iss]

\* A cached entry is stale when msshd claims to have applied its revocation.
Stale(p) == cache[p] # None /\ RevokedUpTo(cache[p], lastSeq)
StaleOnDisk(p) == disk.cache[p] # None /\ RevokedUpTo(disk.cache[p], disk.seqs)
JustPut(p) == cache'[p] # cache[p] /\ disk'.cache[p] = cache'[p]

\* An entry that stays in the cache never becomes stale: no step records a CRL
\* number as applied over an entry it revokes, and no revocation is numbered
\* where msshd will not look again (crl_sync.py:124-174, crl.py:89-124).
AppliedMeansDropped ==
  [][\A p \in Principal :
       cache'[p] = cache[p] /\ Stale(p)' => Stale(p)]_vars

\* The same of the file, so that the restart after a crash at any point, inside
\* a page too, re-reads every revocation the surviving entries still need
\* (authz_cache.py:310-413, crl_sync.py:167-169): an entry on disk is stale only
\* when the one in memory was, or has just been put there and written.
DurableAppliedMeansDropped ==
  [][\A p \in Principal :
       StaleOnDisk(p)' => StaleOnDisk(p) \/ Stale(p) \/ JustPut(p)]_vars

\* The applied numbers never run ahead of the CA's: what the CA appends next is
\* beyond what msshd, its file, its gate and its running task have seen.
NotAheadOfCA ==
  \A i \in Issuer :
    /\ lastSeq[i] <= cur[i]
    /\ disk.seqs[i] <= lastSeq[i]
    /\ known[i] <= cur[i]
    /\ sync.target[i] <= cur[i]

\* Whatever the CA loses or forgets, the applied number on disk only falls
\* together with every cached entry (authz_cache.py:283-291, 350-376).
DurableSeqsOnlyFallWithCache ==
  [][\/ \A i \in Issuer : disk'.seqs[i] >= disk.seqs[i]
     \/ disk'.cache = EmptyCache]_vars

\* A task that runs reaches every number it was started with (crl_sync.py:114-122).
TargetReached ==
  \A i \in Issuer : \A n \in 1..MaxSeq[i] :
    (sync.pc # "idle" /\ sync.target[i] = n) ~> (lastSeq[i] >= n)

\* A task never goes round for ever, though the CA may have lost entries it
\* numbered, or restarted with smaller numbers (crl_sync.py:132-151).
SyncTerminates == (sync.pc # "idle") ~> (sync.pc = "idle")
=============================================================================
