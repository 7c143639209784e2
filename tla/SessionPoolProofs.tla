-------------------------- MODULE SessionPoolProofs --------------------------
(***************************************************************************)
(* Ports, directories and processes of the per-connection sshds, for any   *)
(* number of sessions and ports, under every fault of the model.           *)
(***************************************************************************)
EXTENDS SessionPool, TLAPS

\* What makes the properties inductive: the ports in use are those of the
\* sessions that are not idle, no such port is an orphan's, a process belongs to
\* a handler that has started one, and only an open session is registered.
Has == {s \in Session : pc[s] # "idle"}
Running == {"binding", "failing", "open", "closing"}

Kept ==
  /\ inUse = {port[s] : s \in Has}
  /\ \A s \in Session : port[s] \notin orphans
  /\ Live \subseteq dirs
  /\ dirs \subseteq Has
  /\ \A s \in Session : sshd[s] # "none" => pc[s] \in Running
  /\ \A s \in sessions : pc[s] = "open"

PInv == TypeOK /\ OnePortEach /\ Kept

\* An allocated port is neither in use nor an orphan's.
LEMMA AllocatedFresh ==
  ASSUME NEW p \in Port, Allocatable(p)
  PROVE  p \notin inUse /\ p \notin orphans
BY DEF Allocatable, Listening

\* A session that takes a fresh port, whether its handler goes on or has ended.
LEMMA TakePort ==
  ASSUME PInv, PoolAssumption, NEW s \in Session, NEW p \in Port, Allocatable(p),
         NEW q \in {"testing", "leaked"},
         pc[s] = "idle",
         port' = [port EXCEPT ![s] = p],
         inUse' = inUse \cup {p},
         dirs' \in {dirs, dirs \cup {s}},
         q = "testing" => dirs' = dirs \cup {s},
         pc' = [pc EXCEPT ![s] = q],
         UNCHANGED <<sessions, sshd, outside>>
  PROVE  PInv'
<1>. USE DEF PInv, PoolAssumption
<1>1. p \notin inUse /\ p \notin orphans /\ p # None
  BY AllocatedFresh
<1>2. /\ port \in [Session -> Port \cup {None}] /\ pc \in [Session -> Places]
      /\ port'[s] = p /\ pc'[s] = q
      /\ \A t \in Session \ {s} : port'[t] = port[t] /\ pc'[t] = pc[t]
  BY DEF TypeOK
<1>3. TypeOK'
  BY <1>1, <1>2 DEF TypeOK, Places, Acquiring, outside
<1>4. \A t \in Session \ {s} : port[t] # p
  BY <1>1 DEF TypeOK, Kept, Has
<1>5. OnePortEach'
  BY <1>1, <1>2, <1>4 DEF OnePortEach
<1>6. Has' = Has \cup {s}
  BY <1>2 DEF Has
<1>7. inUse' = {port'[t] : t \in Has'}
  <2>1. {port'[t] : t \in Has'} = {port'[t] : t \in Has} \cup {p}
    BY <1>2, <1>6
  <2>2. \A t \in Has : port'[t] = port[t]
    BY <1>2 DEF Has
  <2>3. {port'[t] : t \in Has} = {port[t] : t \in Has}
    BY <2>2
  <2>. QED  BY <2>1, <2>3 DEF Kept
<1>8. Live' \subseteq dirs' /\ dirs' \subseteq Has'
  BY <1>2, <1>6 DEF Kept, Live, Has
<1>9. \A t \in Session : sshd[t] # "none" => t # s
  BY DEF Kept, Running
<1>10. Kept'
  BY <1>1, <1>2, <1>7, <1>8, <1>9 DEF Kept, outside
<1>. QED  BY <1>3, <1>5, <1>10

\* A session that is not registered is cleaned up.
LEMMA CleanupKeeps ==
  ASSUME PInv, PoolAssumption, NEW s \in Session, pc[s] \notin {"idle", "open"}, Cleanup(s),
         UNCHANGED <<sessions, outside>>
  PROVE  PInv'
<1>. USE DEF PInv, PoolAssumption
<1>1. /\ port \in [Session -> Port \cup {None}] /\ pc \in [Session -> Places]
      /\ sshd \in [Session -> {"none", "starting", "listening", "dead"}]
      /\ port'[s] = None /\ pc'[s] = "idle" /\ sshd'[s] = "none"
      /\ \A t \in Session \ {s} :
           port'[t] = port[t] /\ pc'[t] = pc[t] /\ sshd'[t] = sshd[t]
  BY DEF TypeOK, Cleanup
<1>2. TypeOK'
  BY <1>1 DEF TypeOK, Places, Cleanup, outside
<1>3. OnePortEach'
  BY <1>1 DEF OnePortEach
<1>4. Has' = Has \ {s}
  BY <1>1 DEF Has
<1>5. \A t \in Has \ {s} : port[t] # port[s]
  BY DEF OnePortEach, Has, TypeOK
<1>6. inUse' = {port'[t] : t \in Has'}
  <2>1. s \in Has
    BY DEF Has
  <2>2. {port[t] : t \in Has} \ {port[s]} = {port[t] : t \in Has \ {s}}
    BY <1>5, <2>1
  <2>3. \A t \in Has \ {s} : port'[t] = port[t]
    BY <1>1 DEF Has
  <2>4. {port'[t] : t \in Has \ {s}} = {port[t] : t \in Has \ {s}}
    BY <2>3
  <2>. QED  BY <1>4, <2>2, <2>4 DEF Kept, Cleanup
<1>7. Live' \subseteq dirs' /\ dirs' \subseteq Has'
  BY <1>1, <1>4 DEF Kept, Live, Has, Cleanup
<1>8. None \notin orphans
  BY DEF TypeOK
<1>9. \A t \in sessions : t \in Session \ {s}
  BY DEF Kept, TypeOK
<1>10. \A t \in Session : port'[t] \notin orphans
  BY <1>1, <1>8 DEF Kept
<1>11. \A t \in Session : sshd'[t] # "none" => pc'[t] \in Running
  BY <1>1 DEF Kept
<1>12. \A t \in sessions : pc'[t] = "open"
  BY <1>1, <1>9 DEF Kept
<1>13. Kept'
  BY <1>6, <1>7, <1>10, <1>11, <1>12 DEF Kept, outside
<1>. QED  BY <1>2, <1>3, <1>13

\* A session moves on and keeps its port and its directory, with or without a
\* process; it may be registered as it opens, and no longer when it leaves.
LEMMA MoveOn ==
  ASSUME PInv, NEW s \in Session, NEW q \in Places \ {"idle"}, pc[s] \notin {"idle", "leaked"},
         pc' = [pc EXCEPT ![s] = q],
         sshd' = sshd \/ (q \in Running /\ sshd' = [sshd EXCEPT ![s] = "starting"]),
         sshd[s] # "none" => q \in Running,
         sessions' \subseteq sessions \cup {s},
         s \in sessions' => q = "open",
         UNCHANGED <<port, inUse, dirs, outside>>
  PROVE  PInv'
<1>. USE DEF PInv
<1>1. /\ pc \in [Session -> Places]
      /\ sshd \in [Session -> {"none", "starting", "listening", "dead"}]
      /\ pc'[s] = q
      /\ \A t \in Session \ {s} : pc'[t] = pc[t] /\ sshd'[t] = sshd[t]
      /\ sshd'[s] # "none" => q \in Running
  BY DEF TypeOK
<1>2. TypeOK'
  BY <1>1 DEF TypeOK, outside
<1>3. OnePortEach'
  BY DEF OnePortEach
<1>4. Has' = Has
  BY <1>1 DEF Has
<1>5. Live' \subseteq Live
  BY <1>1 DEF Live
<1>6. Kept'
  BY <1>1, <1>4, <1>5 DEF Kept, outside, Has, TypeOK
<1>. QED  BY <1>2, <1>3, <1>6

\* sshds bind and die, other processes come and go: what msshd keeps is as it was,
\* and there is no new orphan.
LEMMA Elsewhere ==
  ASSUME PInv, UNCHANGED <<pc, port, inUse, sessions, dirs>>,
         sshd' \in [Session -> {"none", "starting", "listening", "dead"}],
         \A s \in Session : sshd'[s] # "none" => sshd[s] # "none",
         orphans' \subseteq orphans, foreign' \subseteq Port
  PROVE  PInv'
BY DEF PInv, TypeOK, OnePortEach, Kept, Has, Live, Running

\* After a restart no session has anything.
LEMMA CrashKeeps ==
  ASSUME PInv, PoolAssumption, Crash
  PROVE  PInv'
<1>. USE DEF PInv, PoolAssumption
<1>1. PICK alive \in SUBSET {s \in Session : sshd[s] \in {"starting", "listening"}} :
        orphans' = orphans \cup ({port[s] : s \in alive} \ foreign)
  BY DEF Crash
<1>2. \A s \in alive : port[s] \in Port
  BY <1>1 DEF Kept, Running, TypeOK
<1>3. orphans' \subseteq Port
  BY <1>1, <1>2 DEF TypeOK
<1>4. TypeOK'
  BY <1>3 DEF TypeOK, Crash, Places
<1>5. OnePortEach'
  BY DEF OnePortEach, Crash
<1>6. Has' = {} /\ Live' = {}
  BY DEF Has, Live, Crash
<1>7. Kept'
  BY <1>3, <1>6 DEF Kept, Crash
<1>. QED  BY <1>4, <1>5, <1>7

LEMMA PoolInductive == PInv /\ [Next]_vars => PInv'
<1>. SUFFICES ASSUME PInv, [Next]_vars PROVE PInv'
  OBVIOUS
<1>. USE PoolAssumption
<1>1. ASSUME NEW s \in Session, Bind(s) PROVE PInv'
  BY <1>1, Elsewhere DEF Bind, PInv, TypeOK, outside
<1>2. ASSUME NEW s \in Session, SshdDies(s) PROVE PInv'
  BY <1>2, Elsewhere DEF SshdDies, PInv, TypeOK, outside
<1>3. ASSUME NEW s \in Session, Admit(s) PROVE PInv'
  BY <1>3, TakePort DEF Admit
<1>4. ASSUME NEW s \in Session, AdmitRaises(s) PROVE PInv'
  BY <1>4, TakePort DEF AdmitRaises
<1>5. ASSUME NEW s \in Session, TestPasses(s) PROVE PInv'
  BY <1>5, MoveOn DEF TestPasses, PInv, Kept, Running, Places, Acquiring
<1>6. ASSUME NEW s \in Session, TestRefuses(s) PROVE PInv'
  BY <1>6, CleanupKeeps DEF TestRefuses
<1>7. ASSUME NEW s \in Session, Spawned(s) PROVE PInv'
  BY <1>7, MoveOn DEF Spawned, PInv, Kept, Running, Places, Acquiring
<1>8. ASSUME NEW s \in Session, SpawnRaises(s) PROVE PInv'
  BY <1>8, MoveOn DEF SpawnRaises, PInv, Kept, Running, Places, Acquiring
<1>9. ASSUME NEW s \in Session, Opened(s) PROVE PInv'
  BY <1>9, MoveOn DEF Opened, Running, Places, Acquiring
<1>10. ASSUME NEW s \in Session, BindTimeout(s) PROVE PInv'
  BY <1>10, MoveOn DEF BindTimeout, PInv, Kept, Running, Places, Acquiring
<1>11. ASSUME NEW s \in Session, Failed(s) PROVE PInv'
  BY <1>11, CleanupKeeps DEF Failed
<1>12. ASSUME NEW s \in Session, Close(s) PROVE PInv'
  BY <1>12, MoveOn DEF Close, Running, Places, Acquiring
<1>13. ASSUME NEW s \in Session, Closed(s) PROVE PInv'
  BY <1>13, CleanupKeeps DEF Closed
<1>14. ASSUME NEW p \in Port, ForeignTakes(p) PROVE PInv'
  BY <1>14, Elsewhere DEF ForeignTakes, PInv, TypeOK
<1>15. ASSUME NEW p \in Port, OtherLeaves(p) PROVE PInv'
  BY <1>15, Elsewhere DEF OtherLeaves, PInv, TypeOK
<1>16. ASSUME Crash PROVE PInv'
  BY <1>16, CrashKeeps
<1>17. CASE UNCHANGED vars
  BY <1>17, Elsewhere DEF vars, outside, PInv, TypeOK
<1>. QED
  BY <1>1, <1>2, <1>3, <1>4, <1>5, <1>6, <1>7, <1>8, <1>9, <1>10, <1>11, <1>12, <1>13,
     <1>14, <1>15, <1>16, <1>17 DEF Next

LEMMA PoolInit == Init => PInv
BY PoolAssumption DEF Init, PInv, TypeOK, OnePortEach, Kept, Has, Live, Places

\* A session has a port exactly from its allocation to the end of its handler
\* (acquire_session, _cleanup_session_dir).
THEOREM PoolTyped == Spec => []TypeOK
<1>1. PInv => TypeOK
  BY DEF PInv
<1>. QED  BY <1>1, PoolInit, PoolInductive, PTL DEF Spec

\* Two sessions never have one port, whatever raises, dies or is restarted
\* (acquire_session's allocation, _cleanup_session_dir).
THEOREM OnePort == Spec => []OnePortEach
<1>1. PInv => OnePortEach
  BY DEF PInv
<1>. QED  BY <1>1, PoolInit, PoolInductive, PTL DEF Spec

\* What msshd holds is held by a session that has a handler, or by one whose
\* handler was ended by an exception (acquire_session, release_session).
THEOREM NothingLeft == Spec => []NothingLeftBehind
<1>1. PInv => NothingLeftBehind
  <2>. SUFFICES ASSUME PInv PROVE NothingLeftBehind
    OBVIOUS
  <2>1. Has = Live \cup Leaked /\ Live \cap Leaked = {}
    BY DEF Has, Live, Leaked
  <2>2. \A s \in Live, t \in Leaked : port[s] # port[t]
    BY DEF PInv, OnePortEach, TypeOK, Live, Leaked
  <2>3. {port[s] : s \in Has} = {port[s] : s \in Live} \cup {port[s] : s \in Leaked}
    BY <2>1
  <2>4. inUse \ {port[s] : s \in Leaked} = {port[s] : s \in Live}
    BY <2>2, <2>3 DEF PInv, Kept
  <2>5. dirs \ Leaked = Live
    BY <2>1 DEF PInv, Kept
  <2>6. \A s \in Session : sshd[s] # "none" => s \in Live
    BY DEF PInv, Kept, Running, Live
  <2>. QED  BY <2>4, <2>5, <2>6 DEF NothingLeftBehind
<1>. QED  BY <1>1, PoolInit, PoolInductive, PTL DEF Spec

\* No other sshd of msshd's, of this run or an earlier one, listens on the port of
\* an open session (_allocate_port_excluding, _wait_port_open).
THEOREM OwnProcess == Spec => []OwnSshd
<1>1. PInv => OwnSshd
  <2>. SUFFICES ASSUME PInv, NEW s \in sessions,
                       NEW t \in Session \ {s}, sshd[t] = "listening"
                PROVE  port[t] # port[s]
    BY DEF OwnSshd, PInv, Kept, TypeOK
  <2>1. port[t] # None
    BY DEF PInv, Kept, Running, TypeOK
  <2>. QED  BY <2>1 DEF PInv, OnePortEach, TypeOK
<1>. QED  BY <1>1, PoolInit, PoolInductive, PTL DEF Spec
=============================================================================
