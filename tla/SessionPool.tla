----------------------------- MODULE SessionPool -----------------------------
(***************************************************************************)
(* The per-connection inner sshds of one msshd: PerConnectionInnerSshd     *)
(* (inner.py) and the part of EnforceListener that acquires and releases a *)
(* session (enforce_listener.py).                                          *)
(*                                                                         *)
(* msshd is asyncio on one thread: what acquire_session does between two   *)
(* awaits is one step.  The sshds are processes of their own; they outlive *)
(* msshd when it is killed.  A session id is drawn anew for each           *)
(* connection: an id that has left no trace stands for a fresh one.        *)
(***************************************************************************)
EXTENDS FiniteSets, Naturals

CONSTANTS
  Session,   \* session ids
  Port,      \* inner.port_range
  Sample,    \* how many ports of the range an allocation looks at
  Cap,       \* performance.max_concurrent_sessions, 0 for no limit
  Faults,    \* which faults happen, a subset of FaultKinds
  None       \* no port

\* raise: a file or process operation of msshd raises; die: an sshd dies;
\* crash: msshd is killed and restarted; foreign: a process that is not
\* msshd's takes a port of the range.
FaultKinds == {"raise", "die", "crash", "foreign"}

ASSUME PoolAssumption ==
  /\ IsFiniteSet(Port)
  /\ Sample \in 0 .. Cardinality(Port)
  /\ Cap \in Nat
  /\ Faults \subseteq FaultKinds
  /\ None \notin Port

VARIABLES
  pc,        \* where the handler of a session is
  port,      \* the port allocated to a session
  inUse,     \* _ports_in_use
  sessions,  \* the ids of _sessions
  dirs,      \* the directories in state_dir/sessions
  sshd,      \* the sshd process of a session
  orphans,   \* ports on which an sshd of an earlier run listens
  foreign    \* ports on which a process that is not msshd's listens

outside == <<orphans, foreign>>
vars == <<pc, port, inUse, sessions, dirs, sshd, orphans, foreign>>

\* acquire_session waits in "testing" for sshd -t, in "spawning" for the
\* process, in "binding" for the port, in "failing" for the end of the process;
\* release_session waits in "closing" for that.  "leaked": the handler is gone
\* and its port and directory are not.
Acquiring == {"testing", "spawning", "binding", "failing"}
Places == {"idle", "open", "closing", "leaked"} \cup Acquiring

\* Every variable has its type, and only an idle session has no port.
TypeOK ==
  /\ pc \in [Session -> Places]
  /\ port \in [Session -> Port \cup {None}]
  /\ inUse \subseteq Port
  /\ sessions \subseteq Session
  /\ dirs \subseteq Session
  /\ sshd \in [Session -> {"none", "starting", "listening", "dead"}]
  /\ orphans \subseteq Port
  /\ foreign \subseteq Port
  /\ \A s \in Session : port[s] = None <=> pc[s] = "idle"

Init ==
  /\ pc = [s \in Session |-> "idle"]
  /\ port = [s \in Session |-> None]
  /\ inUse = {}
  /\ sessions = {}
  /\ dirs = {}
  /\ sshd = [s \in Session |-> "none"]
  /\ orphans = {}
  /\ foreign = {}

-----------------------------------------------------------------------------
(* The operating system *)

\* The ports on which something listens.
Listening == orphans \cup foreign \cup {port[s] : s \in {t \in Session : sshd[t] = "listening"}}

\* sshd binds its port, or finds it taken and exits.
Bind(s) ==
  /\ sshd[s] = "starting"
  /\ sshd' = [sshd EXCEPT ![s] = IF port[s] \in Listening THEN "dead" ELSE "listening"]
  /\ UNCHANGED <<pc, port, inUse, sessions, dirs, outside>>

SshdDies(s) ==
  /\ "die" \in Faults
  /\ sshd[s] \in {"starting", "listening"}
  /\ sshd' = [sshd EXCEPT ![s] = "dead"]
  /\ UNCHANGED <<pc, port, inUse, sessions, dirs, outside>>

ForeignTakes(p) ==
  /\ "foreign" \in Faults
  /\ p \notin Listening
  /\ foreign' = foreign \cup {p}
  /\ UNCHANGED <<pc, port, inUse, sessions, dirs, sshd, orphans>>

\* What listens on p and is not of this run goes.
OtherLeaves(p) ==
  /\ p \in orphans \cup foreign
  /\ orphans' = orphans \ {p}
  /\ foreign' = foreign \ {p}
  /\ UNCHANGED <<pc, port, inUse, sessions, dirs, sshd>>

-----------------------------------------------------------------------------
(* acquire_session *)

\* Mutant of Allocatable: the exclusion is left to the bind test.
BindableOnly(p) ==
  \E sample \in SUBSET Port :
    /\ Cardinality(sample) = Sample
    /\ p \in sample \ Listening

\* Mutant of Allocatable: a port that is not in use is not tried first.
Untested(p) ==
  \E sample \in SUBSET Port :
    /\ Cardinality(sample) = Sample
    /\ p \in sample \ inUse

\* _allocate_port_excluding: a port of a random sample that is not in use and
\* can be bound.
Allocatable(p) ==
  \E sample \in SUBSET Port :
    /\ Cardinality(sample) = Sample
    /\ p \in sample \ (inUse \cup Listening)

\* The cap is compared with the sessions that are registered.  A session that
\* is refused here, or finds no port, leaves no trace.
Admitted == Cap = 0 \/ Cardinality(sessions) < Cap

\* Under the lock the cap is checked and a port allocated; then the session's
\* directory and config are written and sshd -t is started.
Admit(s) ==
  /\ pc[s] = "idle"
  /\ Admitted
  /\ \E p \in Port :
       /\ Allocatable(p)
       /\ port' = [port EXCEPT ![s] = p]
       /\ inUse' = inUse \cup {p}
  /\ dirs' = dirs \cup {s}
  /\ pc' = [pc EXCEPT ![s] = "testing"]
  /\ UNCHANGED <<sessions, sshd, outside>>

\* The directory or one of its files cannot be written.
AdmitRaises(s) ==
  /\ "raise" \in Faults
  /\ pc[s] = "idle"
  /\ Admitted
  /\ \E p \in Port :
       /\ Allocatable(p)
       /\ port' = [port EXCEPT ![s] = p]
       /\ inUse' = inUse \cup {p}
  /\ dirs' \in {dirs, dirs \cup {s}}
  /\ pc' = [pc EXCEPT ![s] = "leaked"]
  /\ UNCHANGED <<sessions, sshd, outside>>

\* Mutant of Cleanup: the port is not given back.
CleanupDirOnly(s) ==
  /\ dirs' = dirs \ {s}
  /\ inUse' = inUse
  /\ port' = [port EXCEPT ![s] = None]
  /\ sshd' = [sshd EXCEPT ![s] = "none"]
  /\ pc' = [pc EXCEPT ![s] = "idle"]

\* Mutant of Cleanup: the handler's end leaves the port with the session.
CleanupKeepsPort(s) ==
  /\ dirs' = dirs \ {s}
  /\ inUse' = inUse \ {port[s]}
  /\ port' = port
  /\ sshd' = [sshd EXCEPT ![s] = "none"]
  /\ pc' = [pc EXCEPT ![s] = "idle"]

\* _cleanup_session_dir, after the process has ended; the handler is done.
Cleanup(s) ==
  /\ dirs' = dirs \ {s}
  /\ inUse' = inUse \ {port[s]}
  /\ port' = [port EXCEPT ![s] = None]
  /\ sshd' = [sshd EXCEPT ![s] = "none"]
  /\ pc' = [pc EXCEPT ![s] = "idle"]

TestPasses(s) ==
  /\ pc[s] = "testing"
  /\ pc' = [pc EXCEPT ![s] = "spawning"]
  /\ UNCHANGED <<port, inUse, sessions, dirs, sshd, outside>>

\* sshd -t refuses the rendered config.
TestRefuses(s) ==
  /\ pc[s] = "testing"
  /\ Cleanup(s)
  /\ UNCHANGED <<sessions, outside>>

Spawned(s) ==
  /\ pc[s] = "spawning"
  /\ pc' = [pc EXCEPT ![s] = "binding"]
  /\ sshd' = [sshd EXCEPT ![s] = "starting"]
  /\ UNCHANGED <<port, inUse, sessions, dirs, outside>>

\* A process cannot be started: the exception is not InnerSshdError and nothing
\* is cleaned up.
SpawnRaises(s) ==
  /\ "raise" \in Faults
  /\ pc[s] \in {"testing", "spawning"}
  /\ pc' = [pc EXCEPT ![s] = "leaked"]
  /\ UNCHANGED <<port, inUse, sessions, dirs, sshd, outside>>

\* _wait_port_open: something accepts on the port, and the session is registered.
Opened(s) ==
  /\ pc[s] = "binding"
  /\ port[s] \in Listening
  /\ sessions' = sessions \cup {s}
  /\ pc' = [pc EXCEPT ![s] = "open"]
  /\ UNCHANGED <<port, inUse, dirs, sshd, outside>>

\* Mutant of BindTimeout: only an exit of sshd ends the wait.
BindTimeoutIfDead(s) ==
  /\ pc[s] = "binding"
  /\ sshd[s] = "dead"
  /\ port[s] \notin Listening
  /\ pc' = [pc EXCEPT ![s] = "failing"]
  /\ UNCHANGED <<port, inUse, sessions, dirs, sshd, outside>>

\* No poll of the port was answered in 10 seconds; sshd may have bound it since
\* the last one.
BindTimeout(s) ==
  /\ pc[s] = "binding"
  /\ pc' = [pc EXCEPT ![s] = "failing"]
  /\ UNCHANGED <<port, inUse, sessions, dirs, sshd, outside>>

\* The process that did not bind is terminated.
Failed(s) ==
  /\ pc[s] = "failing"
  /\ Cleanup(s)
  /\ UNCHANGED <<sessions, outside>>

-----------------------------------------------------------------------------
(* release_session *)

\* The session is unregistered first ...
Close(s) ==
  /\ pc[s] = "open"
  /\ sessions' = sessions \ {s}
  /\ pc' = [pc EXCEPT ![s] = "closing"]
  /\ UNCHANGED <<port, inUse, dirs, sshd, outside>>

\* ... and cleaned up when its process has ended.
Closed(s) ==
  /\ pc[s] = "closing"
  /\ Cleanup(s)
  /\ UNCHANGED <<sessions, outside>>

-----------------------------------------------------------------------------
(* Restart *)

\* msshd is killed, some of its sshds live on and listen, and start() removes
\* the directories of the earlier run.
Crash ==
  /\ "crash" \in Faults
  /\ \E alive \in SUBSET {s \in Session : sshd[s] \in {"starting", "listening"}} :
       orphans' = orphans \cup ({port[s] : s \in alive} \ foreign)
  /\ pc' = [s \in Session |-> "idle"]
  /\ port' = [s \in Session |-> None]
  /\ inUse' = {}
  /\ sessions' = {}
  /\ dirs' = {}
  /\ sshd' = [s \in Session |-> "none"]
  /\ UNCHANGED foreign

-----------------------------------------------------------------------------

Next ==
  \/ \E s \in Session :
       \/ Bind(s) \/ SshdDies(s)
       \/ Admit(s) \/ AdmitRaises(s)
       \/ TestPasses(s) \/ TestRefuses(s)
       \/ Spawned(s) \/ SpawnRaises(s)
       \/ Opened(s) \/ BindTimeout(s) \/ Failed(s)
       \/ Close(s) \/ Closed(s)
  \/ \E p \in Port : ForeignTakes(p) \/ OtherLeaves(p)
  \/ Crash

Spec == Init /\ [][Next]_vars

\* The event loop runs every handler that acquires a session, sshd -t and the
\* start of a process end, and the wait for the port has a deadline; nothing is
\* promised of users or of sshd.
Progress(s) ==
  TestPasses(s) \/ TestRefuses(s) \/ Spawned(s) \/ Opened(s) \/ BindTimeout(s) \/ Failed(s)

FairSpec == Spec /\ \A s \in Session : WF_vars(Progress(s))

-----------------------------------------------------------------------------
(* Properties *)

Leaked == {s \in Session : pc[s] = "leaked"}
Live == {s \in Session : pc[s] \notin {"idle", "leaked"}}

\* No two sessions have one port, whether they are being acquired, open or being
\* released, or have leaked theirs (inner.py:404-412, 489-492).
OnePortEach ==
  \A s, t \in Session : s # t /\ port[s] # None => port[s] # port[t]

\* The ports in use, the directories and the processes are those of the sessions
\* that have a handler, and of no other but the ones whose handler was ended by an
\* exception: every way out of acquire_session and release_session gives all three
\* back (inner.py:436-460, 468-478).
NothingLeftBehind ==
  /\ inUse \ {port[s] : s \in Leaked} = {port[s] : s \in Live}
  /\ dirs \ Leaked = Live
  /\ \A s \in Session : sshd[s] # "none" => s \in Live

\* No other sshd of msshd's listens on the port of an open session, also when
\* sshds die, or outlive an msshd that was killed and hold their ports: the wait
\* for the port is not satisfied by another session's sshd, or by one of an
\* earlier run (inner.py:526-540, 608-624).
OwnSshd ==
  \A s \in sessions :
    /\ port[s] \notin orphans
    /\ \A t \in Session \ {s} : sshd[t] = "listening" => port[t] # port[s]

\* Acquiring a session ends, with the session open or given up (inner.py:393-466).
AcquireEnds == \A s \in Session : (pc[s] \in Acquiring) ~> (pc[s] \notin Acquiring)

-----------------------------------------------------------------------------
(* What comments and design say and the code does not do *)

\* inner.py:323-326: "acquire_session honors cfg.performance.max_concurrent_sessions.
\* When the cap is hit, raises InnerSshdError".
CapHonored == Cap > 0 => Cardinality(sessions) <= Cap

\* design/mssh_design_v1.md:1782-1783: "On session close, terminates the sshd
\* subprocess and deletes the temp file."
ClosedLeavesNoFile == \A s \in dirs : s \in Live
=============================================================================
