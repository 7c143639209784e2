------------------------------- MODULE CrlStore -------------------------------
(***************************************************************************)
(* One issuer's CRL on the CA: the JSONL file and the counter of CRLStore  *)
(* (crl.py), and a follower that pages through it as CRLSync does          *)
(* (crl_sync.py).                                                          *)
(*                                                                         *)
(* The file is the sequence of its lines that parse.  A line is one JSON   *)
(* object: no proper prefix of it parses, it does without its newline, and *)
(* what is written after an unfinished line makes both unreadable.         *)
(***************************************************************************)
EXTENDS Integers, Sequences, FiniteSets, FiniteSetsExt

CONSTANTS
  Revocable,      \* serials of the issuer's certs
  FetchLimit,  \* the limit of a fetch
  CrlFaults,      \* which faults happen, a subset of CrlFaultKinds
  MaxLines     \* bound: lines in the file and numbers assigned

\* crash: the CA stops in an append, with the line written or not; torn: with a
\* part of it written; short: os.write writes a part and reports it; error: the
\* write or the fsync raises.
CrlFaultKinds == {"crash", "torn", "short", "error"}

ASSUME StoreAssumption ==
  /\ FetchLimit \in Nat \ {0}
  /\ CrlFaults \subseteq CrlFaultKinds
  /\ MaxLines \in Nat

Entry == [seq : Nat, serials : SUBSET Revocable]

VARIABLES
  lines,    \* the readable entries of the file, in order
  ending,     \* how the file ends: "clean" with a newline, "torn" in the middle
            \* of a line, "whole" with the last entry but without its newline
  cur,      \* CRLStore._current_seq
  up,       \* the CA runs
  acked,    \* history: the entries append has returned
  applied,  \* follower: applied_through
  got       \* follower: the serials it has invalidated

crlVars == <<lines, ending, cur, up, acked, applied, got>>

CrlTypeOK ==
  /\ lines \in Seq(Entry)
  /\ ending \in {"clean", "torn", "whole"}
  /\ ending = "whole" => lines # <<>>
  /\ cur \in Nat
  /\ up \in BOOLEAN
  /\ acked \subseteq Entry
  /\ applied \in Nat
  /\ got \subseteq Revocable

CrlInit ==
  /\ lines = <<>>
  /\ ending = "clean"
  /\ cur = 0
  /\ up = TRUE
  /\ acked = {}
  /\ applied = 0
  /\ got = {}

-----------------------------------------------------------------------------
(* The file *)

\* Bytes that follow an unfinished line ruin it.
Unruined == IF ending = "whole" THEN SubSeq(lines, 1, Len(lines) - 1) ELSE lines

\* How much of entry e's line reaches the file.
WriteLine(e, how) ==
  \/ how = "none" /\ UNCHANGED <<lines, ending>>
  \/ how = "part" /\ lines' = Unruined /\ ending' = "torn"
  \/ /\ how = "all but newline"
     /\ lines' = IF ending = "clean" THEN Append(lines, e) ELSE Unruined
     /\ ending' = IF ending = "clean" THEN "whole" ELSE "torn"
  \/ /\ how = "line"
     /\ lines' = IF ending = "clean" THEN Append(lines, e) ELSE Unruined
     /\ ending' = "clean"

PartOfLine == {"part", "all but newline"}

\* Mutant of Scan: an empty file gives no number.
ScanFromBelow == Max({lines[n].seq : n \in DOMAIN lines} \cup {-1})

\* Mutant of Scan: the lines are counted.
ScanCount == Len(lines)

\* CRLStore._scan_current_seq
Scan == Max({lines[n].seq : n \in DOMAIN lines} \cup {0})

\* The entry an append is about to write.
New(ss) == [seq |-> cur + 1, serials |-> ss]

\* Bound.
Room == cur < MaxLines /\ Len(lines) < MaxLines

-----------------------------------------------------------------------------
(* The CA *)

\* CRLStore.append: write, fsync, and the number is taken.  A short write is
\* not noticed.
DoAppend(ss) ==
  /\ up /\ Room
  /\ \E how \in {"line"} \cup (IF "short" \in CrlFaults THEN PartOfLine ELSE {}) : WriteLine(New(ss), how)
  /\ cur' = cur + 1
  /\ acked' = acked \cup {New(ss)}
  /\ UNCHANGED <<up, applied, got>>

\* The write or the fsync raises: the caller is told, the number is not taken,
\* and what reached the file stays there.
AppendRaises(ss) ==
  /\ "error" \in CrlFaults
  /\ up /\ Room
  /\ \E how \in {"none", "line"} \cup PartOfLine : WriteLine(New(ss), how)
  /\ UNCHANGED <<cur, up, acked, applied, got>>

\* The CA stops while it appends.
CrashInAppend(ss) ==
  /\ CrlFaults \cap {"crash", "torn"} # {}
  /\ up /\ Room
  /\ \E how \in {"none", "line"} \cup (IF "torn" \in CrlFaults THEN PartOfLine ELSE {}) :
       WriteLine(New(ss), how)
  /\ up' = FALSE
  /\ UNCHANGED <<cur, acked, applied, got>>

\* The CA stops between two requests.
Stop ==
  /\ up
  /\ up' = FALSE
  /\ UNCHANGED <<lines, ending, cur, acked, applied, got>>

\* CRLStore.__init__: the counter restarts from the highest readable number.
CrlRestart ==
  /\ ~up
  /\ up' = TRUE
  /\ cur' = Scan
  /\ UNCHANGED <<lines, ending, acked, applied, got>>

-----------------------------------------------------------------------------
(* The follower *)

\* CRLStore.fetch_after: the first FetchLimit lines, in the order of the file,
\* whose number is beyond a given one.
Page ==
  {n \in DOMAIN lines :
     /\ lines[n].seq > applied
     /\ Cardinality({m \in 1..n : lines[m].seq > applied}) <= FetchLimit}

\* The entries of a page that are applied: one whose number is not beyond the
\* one before it is skipped.
Applicable == {n \in Page : \A m \in Page : m < n => lines[m].seq < lines[n].seq}

\* Mutant of Follow: the CA's number is taken, not the page's.
FollowToCurrent ==
  /\ up
  /\ Page # {}
  /\ applied' = cur
  /\ got' = got \cup UNION {lines[n].serials : n \in Applicable}
  /\ UNCHANGED <<lines, ending, cur, up, acked>>

\* _do_sync_issuer, one page.
Follow ==
  /\ up
  /\ Page # {}
  /\ applied' = Max({lines[n].seq : n \in Applicable})
  /\ got' = got \cup UNION {lines[n].serials : n \in Applicable}
  /\ UNCHANGED <<lines, ending, cur, up, acked>>

\* _do_sync_issuer, an empty page although the CA's number is beyond.
FollowEmpty ==
  /\ up
  /\ Page = {}
  /\ cur > applied
  /\ applied' = cur
  /\ UNCHANGED <<lines, ending, cur, up, acked, got>>

-----------------------------------------------------------------------------

Revocation == SUBSET Revocable \ {{}}   \* cert_revoke refuses an empty list

CrlNext ==
  \/ \E ss \in Revocation : DoAppend(ss) \/ AppendRaises(ss) \/ CrashInAppend(ss)
  \/ Stop \/ CrlRestart
  \/ Follow \/ FollowEmpty

CrlSpec == CrlInit /\ [][CrlNext]_crlVars

-----------------------------------------------------------------------------
(* Properties *)

\* The numbers of the file never fall, whatever is torn, short or retried, so
\* that the last entry of a page is the highest and a follower may take its
\* number (crl.py:131-147, crl_sync.py:152-169).
InOrder ==
  \A m, n \in DOMAIN lines : m < n => lines[m].seq <= lines[n].seq

\* Without torn or failed writes the store is the feed it promises to be, and a
\* crash in an append publishes the whole entry or nothing.
Feed == INSTANCE CrlFeed WITH Serial <- Revocable,
                              feed <- [n \in DOMAIN lines |-> lines[n].serials],
                              pos <- applied

FeedSpec == Feed!Spec

-----------------------------------------------------------------------------
(* What comments and design say and the code does not do *)

\* crl.py:75-76: "Append is durable: each write fsyncs the file."  What append
\* has returned can be read back.
AckedReadable ==
  \A e \in acked : \E n \in DOMAIN lines : lines[n] = e

\* design/mssh_design_v1.md:601: "Sequence numbers are forever-incrementing
\* within an issuer."  A number append has returned is not returned again.
ForeverIncrementing ==
  [][\A ss \in Revocation : DoAppend(ss) => \A e \in acked : e.seq < cur']_crlVars

\* design/mssh_design_v1.md:606-609: "when current > last for any issuer, msshd
\* fetches the missing entries ... and applies them".  A follower has applied
\* every readable entry up to its number.
MissingAreFetched ==
  \A n \in DOMAIN lines : lines[n].seq <= applied => lines[n].serials \subseteq got
=============================================================================
