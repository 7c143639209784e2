------------------------------ MODULE AuditLog ------------------------------
(***************************************************************************)
(* The CA's audit log (audit.py).                                          *)
(*                                                                         *)
(* write() appends one line under the log's lock.  Each entry carries the  *)
(* hash of the line before it, taken from a cached tail that is read from  *)
(* the file at the first write of a process.  An append that dies or fails *)
(* leaves any part of its line, and no newline: what is written next       *)
(* continues that line.  A hash is its text.                               *)
(***************************************************************************)
EXTENDS Naturals, SequencesExt

CONSTANTS
  AppendFaults,  \* which of "error" and "crash" may cut an append short
  MaxEntries     \* bound: entries written

ASSUME AuditAssumption ==
  /\ AppendFaults \subseteq {"error", "crash"}
  /\ MaxEntries \in Nat

\* What an append leaves of an entry, and a line: such pieces run together.
Piece == [entry : 1..MaxEntries, whole : BOOLEAN]
Line == Seq(Piece)
ZeroHash == << >>

VARIABLES
  log,           \* the file: its lines
  unfinished,    \* the last line has no newline
  tail,          \* AuditLog._last_hash: {} before the first write, else {text}
  prevHash,      \* the prev_hash that entry n carries
  acknowledged   \* history: entries whose write() returned

auditVars == <<log, unfinished, tail, prevHash, acknowledged>>

\* Every variable has its type.
AuditTypeOK ==
  /\ log \in Seq(Line)
  /\ unfinished \in BOOLEAN
  /\ \A text \in tail : tail = {text} /\ text \in Line
  /\ prevHash \in Seq(Line) /\ Len(prevHash) <= MaxEntries
  /\ acknowledged \subseteq 1..Len(prevHash)

AuditInit ==
  /\ log = << >>
  /\ unfinished = FALSE
  /\ tail = {}
  /\ prevHash = << >>
  /\ acknowledged = {}

Text(n) == <<[entry |-> n, whole |-> TRUE]>>
Torn(n) == <<[entry |-> n, whole |-> FALSE]>>

\* A slip: every process starts a chain of its own.
ZeroPrimed == IF tail = {} THEN {ZeroHash} ELSE tail

\* _prime_last_hash: the last line of the file, finished or not.
Primed ==
  IF tail # {} THEN tail ELSE {IF log = << >> THEN ZeroHash ELSE Last(log)}

\* open('a'): the text goes where the file ends.
Appended(text) ==
  IF unfinished THEN Append(Front(log), Last(log) \o text) ELSE Append(log, text)

\* write(): the entry claims the tail and becomes the tail.
Write ==
  /\ Len(prevHash) < MaxEntries
  /\ \E claimed \in Primed : prevHash' = Append(prevHash, claimed)
  /\ LET n == Len(prevHash')
     IN /\ log' = Appended(Text(n))
        /\ tail' = {Text(n)}
        /\ acknowledged' = acknowledged \cup {n}
  /\ unfinished' = FALSE

\* No byte of the entry, some of them, or all but the newline were written.
CutShort ==
  /\ Len(prevHash) < MaxEntries
  /\ \E claimed \in Primed : prevHash' = Append(prevHash, claimed)
  /\ LET n == Len(prevHash')
     IN \/ UNCHANGED <<log, unfinished>>
        \/ /\ \E text \in {Text(n), Torn(n)} : log' = Appended(text)
           /\ unfinished' = TRUE
  /\ UNCHANGED acknowledged

\* The file system refuses (it is full): write() raises, the tail stays.
WriteRaises ==
  /\ "error" \in AppendFaults
  /\ CutShort
  /\ tail' = Primed

\* The process dies in write(), or anywhere else.
CrashWriting ==
  /\ "crash" \in AppendFaults
  /\ CutShort
  /\ tail' = {}

Reopen ==
  /\ "crash" \in AppendFaults
  /\ tail # {}
  /\ tail' = {}
  /\ UNCHANGED <<log, unfinished, prevHash, acknowledged>>

AuditNext == Write \/ WriteRaises \/ CrashWriting \/ Reopen

AuditSpec == AuditInit /\ [][AuditNext]_auditVars

-----------------------------------------------------------------------------
(* What the readers see *)

\* json.loads: one whole object.  read_all raises if a line does not parse.
Parses(text) == Len(text) = 1 /\ text[1].whole

\* verify_chain: the lines that do not parse or do not claim the line before.
Broken ==
  {i \in 1..Len(log) :
     \/ ~Parses(log[i])
     \/ prevHash[log[i][1].entry] # (IF i = 1 THEN ZeroHash ELSE log[i - 1])}

-----------------------------------------------------------------------------
(* Properties *)

\* verify_chain blames nothing but the traces of appends cut short: a line with
\* such a piece or the one right after it.  Over restarts and failed writes in
\* any order the rest of the chain still verifies, so a break anywhere else
\* means an edit.
BreaksAreAtTears ==
  \A i \in Broken : ~Parses(log[i]) \/ (i > 1 /\ ~Parses(log[i - 1]))

\* A log that verifies holds every entry whose write returned, as a line of its
\* own that read_all finds: an entry swallowed by an unfinished line is reported.
CleanLogIsComplete ==
  Broken = {} => \A n \in acknowledged : \E i \in 1..Len(log) : log[i] = Text(n)

\* verify_chain reports what went wrong, and nothing else.
VerifierTellsTheTruth == BreaksAreAtTears /\ CleanLogIsComplete

\* The comment of verify_chain at audit.py:185-187 claims that after a line it
\* cannot parse "subsequent lines will all be marked broken too".  The chain is
\* over the text of the lines, whether they parse or not, so the second line
\* after a torn one verifies again.
RestIsMarkedToo ==
  \A i \in 1..Len(log) : ~Parses(log[i]) => i..Len(log) \subseteq Broken
=============================================================================
