---------------------------- MODULE EnforceClaims ----------------------------
(***************************************************************************)
(* What the design and the comments say of msshd and the code of           *)
(* MsshdEnforce does not do.  TLC finds a behaviour that contradicts each; *)
(* NothingAppliedIsCached and BypassHitOpens have a run.                   *)
(***************************************************************************)
EXTENDS MCEnforce

\* design/mssh_design_v1.md:2828-2829: "All cached entries with the revoked
\* serial are gone fleet-wide by the time the slowest msshd hits its next
\* authorize call."  Once msshd has recorded a revocation as applied, no cached
\* entry has its serial.
NothingAppliedIsCached == \A p \in Principal : ~Stale(p)

\* design/mssh_design_v1.md:1653-1654: "Not already revoked. Check
\* <state_dir>/crl/<issuer_id>.jsonl for the serial; refuse if present."
\* No injected cert has a revocation msshd has applied.
InjectedNotRevoked ==
  [][\A p \in Principal :
       /\ cache'[p] # cache[p]
       /\ cache'[p] # None
       => ~(cache'[p].iss = BypassMint /\ RevokedUpTo(cache'[p], lastSeq))]_vars

\* crl.py:201-204: "serial numbers are issuer-scoped, not globally unique.
\* Cross-issuer serial collisions would otherwise let a revocation entry for
\* one intermediate falsely match a cert signed by another."  Applying a page
\* of one issuer drops no cert of another.
AppliesToOwnIssuer ==
  [][(sync.pc = "reply" /\ sync'.pc # "reply" /\ conn' = conn) =>
       \A p \in Principal :
         cache[p] # None /\ cache'[p] = None => cache[p].iss = sync.iss]_vars

\* crl_sync.py:56-58: "Concurrent triggers wait on this lock briefly then
\* return - the running task is already going to fetch up to current."  What a
\* response has announced is eventually applied.
AnnouncedIsApplied ==
  \A i \in Issuer : \A n \in 1..MaxSeq[i] : (known[i] = n) ~> (lastSeq[i] >= n)

\* design/mssh_design_v1.md:2784-2785: "normal connection. msshd: cache hit. No
\* CA call. Session proceeds."  A connection that hits an injected bypass entry
\* gets a session.
BypassHitOpens ==
  [][\A c \in Conn, p \in Principal :
       /\ AcceptHit(c, p)
       /\ cache[p].iss = BypassMint
       => conn'[c].pc = "open"]_vars
=============================================================================
