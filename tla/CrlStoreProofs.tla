--------------------------- MODULE CrlStoreProofs ---------------------------
(***************************************************************************)
(* Theorems about CrlStore, for every value of its constants: the order of *)
(* the file under every fault, and the refinement of CrlFeed while every   *)
(* line reaches the file whole or not at all.                              *)
(***************************************************************************)
EXTENDS CrlStore, FiniteSetTheorems, TLAPS

\* A non-empty set of naturals has a least element.
LEMMA LeastOf ==
  ASSUME NEW S \in SUBSET Nat, S # {}
  PROVE  \E m \in S : \A x \in S : m <= x
<1> DEFINE R == {z \in Nat \X Nat : z[1] < z[2]}
<1>1. IsWellFoundedOn(R, Nat)
  <2>1. R = OpToRel(<, Nat)
    BY Zenon DEF OpToRel
  <2>. QED  BY <2>1, NatLessThanWellFounded, Zenon
<1>2. PICK m \in S : \A y \in S : ~ (<<y, m>> \in R)
  <2>. HIDE DEF R
  <2>. QED  BY <1>1, WFMin
<1>3. \A y \in S : ~ (y < m)
  BY <1>2 DEF R
<1>. QED  BY <1>3

\* A non-empty set of naturals below a bound has a greatest element, and Max
\* returns it.
LEMMA MaxOfBounded ==
  ASSUME NEW S \in SUBSET Nat, S # {}, NEW n \in Nat, \A x \in S : x <= n
  PROVE  Max(S) \in S /\ \A x \in S : x <= Max(S)
<1> DEFINE T == {m \in Nat : n - m \in S}
<1>1. T # {}
  <2>1. PICK x \in S : TRUE
    OBVIOUS
  <2>2. n - x \in T
    BY <2>1
  <2>. QED  BY <2>2
<1>2. PICK m \in T : \A y \in T : m <= y
  <2>. HIDE DEF T
  <2>1. T \subseteq Nat
    BY DEF T
  <2>. QED  BY <1>1, <2>1, LeastOf
<1>3. n - m \in S /\ \A x \in S : x <= n - m
  <2>1. ASSUME NEW x \in S PROVE x <= n - m
    <3>1. n - x \in T
      OBVIOUS
    <3>. QED  BY <3>1, <1>2
  <2>. QED  BY <2>1
<1>. QED  BY <1>3 DEF Max

-----------------------------------------------------------------------------
(* Every fault *)

\* The number of the next append is not below one of the file.
NextIsLast == \A n \in DOMAIN lines : lines[n].seq <= cur + 1

SInv == CrlTypeOK /\ InOrder /\ NextIsLast

LEMMA SInvInit == CrlInit => SInv
BY DEF CrlInit, SInv, CrlTypeOK, InOrder, NextIsLast

LEMMA EntriesOf ==
  ASSUME NEW q \in Seq(Entry)
  PROVE  /\ Len(q) \in Nat
         /\ DOMAIN q = 1..Len(q)
         /\ \A n \in 1..Len(q) : q[n].seq \in Nat /\ q[n].serials \subseteq Revocable
<1>1. Len(q) \in Nat /\ DOMAIN q = 1..Len(q)
  OBVIOUS
<1>2. ASSUME NEW n \in 1..Len(q) PROVE q[n] \in Entry
  OBVIOUS
<1>. QED  BY <1>1, <1>2 DEF Entry

LEMMA NewEntry ==
  ASSUME CrlTypeOK, NEW ss \in Revocation
  PROVE  New(ss) \in Entry /\ New(ss).seq = cur + 1
BY DEF CrlTypeOK, Revocation, New, Entry

\* Whatever part of a new line reaches the file, the file stays in order.
LEMMA WriteInOrder ==
  ASSUME SInv, NEW ss \in Revocation, NEW how, WriteLine(New(ss), how)
  PROVE  /\ lines' \in Seq(Entry)
         /\ ending' \in {"clean", "torn", "whole"}
         /\ ending' = "whole" => lines' # <<>>
         /\ InOrder'
         /\ \A n \in DOMAIN lines' : lines'[n].seq <= cur + 1
<1>1. lines \in Seq(Entry) /\ cur \in Nat /\ New(ss) \in Entry /\ New(ss).seq = cur + 1
  BY NewEntry DEF SInv, CrlTypeOK
<1>2. /\ Unruined \in Seq(Entry)
      /\ Len(Unruined) <= Len(lines)
      /\ \A n \in 1..Len(Unruined) : Unruined[n] = lines[n]
  <2>1. CASE ending = "whole"
    BY <1>1, <2>1 DEF Unruined, SInv, CrlTypeOK
  <2>2. CASE ending # "whole"
    BY <1>1, <2>2 DEF Unruined
  <2>. QED  BY <2>1, <2>2
<1>3. /\ \A m, n \in 1..Len(lines) : m < n => lines[m].seq <= lines[n].seq
      /\ \A n \in 1..Len(lines) : lines[n].seq <= cur + 1
  BY <1>1, EntriesOf DEF SInv, InOrder, NextIsLast
<1> DEFINE Ordered == /\ lines' \in Seq(Entry)
                      /\ InOrder'
                      /\ \A n \in DOMAIN lines' : lines'[n].seq <= cur + 1
<1>4. ASSUME lines' = lines PROVE Ordered
  <2>1. DOMAIN lines = 1..Len(lines)
    BY <1>1, EntriesOf
  <2>. QED  BY <1>1, <1>3, <1>4, <2>1 DEF InOrder
<1>5. ASSUME lines' = Unruined PROVE Ordered
  <2>1. DOMAIN lines' = 1..Len(Unruined) /\ Len(Unruined) \in Nat /\ Len(lines) \in Nat
    BY <1>1, <1>2, <1>5, EntriesOf
  <2>2. \A n \in 1..Len(Unruined) : n \in 1..Len(lines) /\ lines'[n] = lines[n]
    BY <1>2, <1>5, <2>1
  <2>3. InOrder'
    BY <1>3, <2>1, <2>2 DEF InOrder
  <2>4. \A n \in DOMAIN lines' : lines'[n].seq <= cur + 1
    BY <1>3, <2>1, <2>2
  <2>. QED  BY <1>2, <1>5, <2>3, <2>4
<1>6. ASSUME lines' = Append(lines, New(ss)) PROVE Ordered
  <2>1. /\ lines' \in Seq(Entry) /\ Len(lines') = Len(lines) + 1 /\ Len(lines) \in Nat
        /\ DOMAIN lines' = 1..Len(lines) + 1
        /\ lines'[Len(lines) + 1].seq = cur + 1
        /\ \A n \in 1..Len(lines) : lines'[n] = lines[n]
    BY <1>1, <1>6, EntriesOf
  <2>2. \A n \in DOMAIN lines' : n \in 1..Len(lines) \/ n = Len(lines) + 1
    BY <2>1
  <2>3. \A n \in DOMAIN lines' : lines'[n].seq <= cur + 1
    BY <1>1, <1>3, <2>1, <2>2
  <2>4. \A m, n \in DOMAIN lines' : m < n => m \in 1..Len(lines)
    BY <2>1
  <2>5. InOrder'
    BY <1>3, <2>1, <2>2, <2>3, <2>4 DEF InOrder
  <2>6. lines' \in Seq(Entry)
    BY <2>1
  <2>. QED  BY <2>3, <2>5, <2>6
<1>7. lines' = Unruined \/ lines' = Append(lines, New(ss)) \/ lines' = lines
  BY DEF WriteLine
<1>8. ending' \in {"clean", "torn", "whole"}
  BY DEF WriteLine, SInv, CrlTypeOK
<1>9. ASSUME ending' = "whole" PROVE lines' # <<>>
  <2>1. CASE lines' = Append(lines, New(ss))
    BY <1>1, <2>1
  <2>2. CASE lines' # Append(lines, New(ss))
    BY <1>9, <2>2 DEF WriteLine, SInv, CrlTypeOK
  <2>. QED  BY <2>1, <2>2
<1>. QED  BY <1>4, <1>5, <1>6, <1>7, <1>8, <1>9

\* The counter of a restarted CA is not below any number of the file.
LEMMA ScanIsTop ==
  ASSUME CrlTypeOK, NextIsLast
  PROVE  Scan \in Nat /\ \A n \in DOMAIN lines : lines[n].seq <= Scan
<1> DEFINE S == {lines[n].seq : n \in DOMAIN lines} \cup {0}
<1>1. S \subseteq Nat /\ S # {} /\ cur + 1 \in Nat /\ \A x \in S : x <= cur + 1
  <2>1. lines \in Seq(Entry) /\ cur \in Nat
    BY DEF CrlTypeOK
  <2>. QED  BY <2>1, EntriesOf DEF NextIsLast
<1>2. Max(S) \in S /\ \A x \in S : x <= Max(S)
  <2>. HIDE DEF S
  <2>. QED  BY <1>1, MaxOfBounded
<1>. QED  BY <1>1, <1>2 DEF Scan

\* What the follower takes from a page is the number of one of its lines.
LEMMA TakenNumber ==
  ASSUME CrlTypeOK, NextIsLast, Page # {}
  PROVE  LET top == Max({lines[n].seq : n \in Applicable})
         IN  top \in Nat /\ \E n \in Applicable : lines[n].seq = top
<1> DEFINE S == {lines[n].seq : n \in Applicable}
<1>0. /\ lines \in Seq(Entry) /\ cur \in Nat /\ Len(lines) \in Nat
      /\ Page \subseteq 1..Len(lines) /\ Applicable \subseteq Page
  BY EntriesOf DEF CrlTypeOK, Page, Applicable
<1>1. Applicable # {}
  <2>1. PICK n \in Page : \A m \in Page : n <= m
    <3>1. Page \in SUBSET Nat
      BY <1>0
    <3>. QED  BY <3>1, LeastOf
  <2>2. n \in Applicable
    BY <1>0, <2>1 DEF Applicable
  <2>. QED  BY <2>2
<1>2. S \subseteq Nat /\ S # {} /\ cur + 1 \in Nat /\ \A x \in S : x <= cur + 1
  <2>1. \A n \in Applicable : lines[n].seq \in Nat /\ lines[n].seq <= cur + 1
    BY <1>0, EntriesOf DEF NextIsLast
  <2>2. \A x \in S : x \in Nat /\ x <= cur + 1
    BY <2>1
  <2>3. S # {}
    BY <1>1
  <2>. QED  BY <1>0, <2>2, <2>3
<1>3. Max(S) \in S
  <2>. HIDE DEF S
  <2>. QED  BY <1>2, MaxOfBounded
<1>. QED  BY <1>2, <1>3

LEMMA SInvStep == SInv /\ [CrlNext]_crlVars => SInv'
<1>. SUFFICES ASSUME SInv, [CrlNext]_crlVars PROVE SInv'
  OBVIOUS
<1>1. ASSUME NEW ss \in Revocation, DoAppend(ss) PROVE SInv'
  <2>1. PICK how : WriteLine(New(ss), how)
    BY <1>1 DEF DoAppend
  <2>2. cur' = cur + 1 /\ acked' = acked \cup {New(ss)} /\ UNCHANGED <<up, applied, got>>
    BY <1>1 DEF DoAppend
  <2>. QED
    <3>1. cur \in Nat /\ New(ss) \in Entry /\ lines' \in Seq(Entry)
      BY <2>1, WriteInOrder, NewEntry DEF SInv, CrlTypeOK
    <3>2. \A n \in DOMAIN lines' : lines'[n].seq <= cur + 1 /\ lines'[n].seq \in Nat
      BY <2>1, <3>1, WriteInOrder, EntriesOf
    <3>3. NextIsLast'
      BY <2>2, <3>1, <3>2 DEF NextIsLast
    <3>. QED  BY <2>1, <2>2, <3>1, <3>3, WriteInOrder DEF SInv, CrlTypeOK
<1>2. ASSUME NEW ss \in Revocation, AppendRaises(ss) PROVE SInv'
  <2>1. PICK how : WriteLine(New(ss), how)
    BY <1>2 DEF AppendRaises
  <2>. QED  BY <1>2, <2>1, WriteInOrder DEF AppendRaises, SInv, CrlTypeOK, NextIsLast
<1>3. ASSUME NEW ss \in Revocation, CrashInAppend(ss) PROVE SInv'
  <2>1. PICK how : WriteLine(New(ss), how)
    BY <1>3 DEF CrashInAppend
  <2>. QED  BY <1>3, <2>1, WriteInOrder DEF CrashInAppend, SInv, CrlTypeOK, NextIsLast
<1>4. CASE Stop
  BY <1>4 DEF Stop, SInv, CrlTypeOK, InOrder, NextIsLast
<1>5. CASE CrlRestart
  <2>1. Scan \in Nat /\ \A n \in DOMAIN lines : lines[n].seq <= Scan
    BY ScanIsTop DEF SInv
  <2>2. \A n \in DOMAIN lines : lines[n].seq <= Scan + 1
    <3>1. \A n \in DOMAIN lines : lines[n].seq \in Nat
      BY EntriesOf DEF SInv, CrlTypeOK
    <3>. QED  BY <2>1, <3>1
  <2>. QED  BY <1>5, <2>1, <2>2 DEF CrlRestart, SInv, CrlTypeOK, InOrder, NextIsLast
<1>6. CASE Follow
  <2>1. applied' \in Nat
    BY <1>6, TakenNumber DEF Follow, SInv
  <2>2. got' \subseteq Revocable
    BY <1>6, EntriesOf DEF Follow, SInv, CrlTypeOK, Applicable, Page
  <2>. QED  BY <1>6, <2>1, <2>2 DEF Follow, SInv, CrlTypeOK, InOrder, NextIsLast
<1>7. CASE FollowEmpty
  BY <1>7 DEF FollowEmpty, SInv, CrlTypeOK, InOrder, NextIsLast
<1>8. CASE UNCHANGED crlVars
  BY <1>8 DEF crlVars, SInv, CrlTypeOK, InOrder, NextIsLast
<1>. QED  BY <1>1, <1>2, <1>3, <1>4, <1>5, <1>6, <1>7, <1>8 DEF CrlNext

\* Lines are entries, a half-written file ends in one, and the counter is a
\* number, under every fault (crl.py:89-175).
THEOREM StoreTyped == CrlSpec => []CrlTypeOK
<1>1. SInv => CrlTypeOK
  BY DEF SInv
<1>. QED  BY SInvInit, SInvStep, <1>1, PTL DEF CrlSpec

\* Under every fault the numbers of the file never fall, so that the last entry
\* of a page is its highest (crl.py:89-175, crl_sync.py:152-169).
THEOREM FileInOrder == CrlSpec => []InOrder
<1>1. SInv => InOrder
  BY DEF SInv
<1>. QED  BY SInvInit, SInvStep, <1>1, PTL DEF CrlSpec

-----------------------------------------------------------------------------
(* Whole lines only: the feed.  The invariant says that the numbers of the   *)
(* file are 1, 2, 3, ..., that the counter is the last one while the CA      *)
(* runs, and that the follower is not beyond it.                             *)

WInv ==
  /\ SInv
  /\ ending = "clean"
  /\ \A n \in DOMAIN lines : lines[n].seq = n
  /\ up => cur = Len(lines)
  /\ applied <= Len(lines)

LEMMA WInvInit == CrlInit => WInv
BY SInvInit DEF CrlInit, WInv

\* A page of a dense file is the next stretch of it, and is applied entirely.
LEMMA PageOfFeed ==
  ASSUME WInv
  PROVE  /\ Page = {n \in 1..Len(lines) : applied < n /\ n <= applied + FetchLimit}
         /\ Applicable = Page
<1>1. /\ DOMAIN lines = 1..Len(lines) /\ Len(lines) \in Nat /\ applied \in Nat
      /\ \A n \in 1..Len(lines) : lines[n].seq = n
  BY EntriesOf DEF WInv, SInv, CrlTypeOK
<1>2. ASSUME NEW n \in 1..Len(lines), applied < n
      PROVE  Cardinality({m \in 1..n : lines[m].seq > applied}) = n - applied
  <2>1. {m \in 1..n : lines[m].seq > applied} = (applied + 1)..n
    <3>1. \A m \in 1..n : m \in 1..Len(lines)
      BY <1>1
    <3>. QED  BY <1>1, <3>1
  <2>2. Cardinality((applied + 1)..n) = n - applied
    BY <1>1, <1>2, FS_Interval
  <2>. QED  BY <2>1, <2>2
<1>3. Page = {n \in 1..Len(lines) : applied < n /\ n <= applied + FetchLimit}
  <2>1. ASSUME NEW n \in 1..Len(lines)
        PROVE  n \in Page <=> applied < n /\ n <= applied + FetchLimit
    <3>1. CASE applied < n
      <4>1. n - applied <= FetchLimit <=> n <= applied + FetchLimit
        BY <1>1, StoreAssumption
      <4>. QED  BY <1>1, <1>2, <3>1, <4>1 DEF Page
    <3>2. CASE ~(applied < n)
      BY <1>1, <3>2 DEF Page
    <3>. QED  BY <3>1, <3>2
  <2>2. Page \subseteq 1..Len(lines)
    BY <1>1 DEF Page
  <2>. QED  BY <2>1, <2>2
<1>4. Applicable = Page
  <2>1. \A m, n \in Page : m < n => lines[m].seq < lines[n].seq
    BY <1>1, <1>3
  <2>. QED  BY <2>1 DEF Applicable
<1>. QED  BY <1>3, <1>4

\* One page moves the follower to the end of that stretch.
LEMMA FollowOfFeed ==
  ASSUME WInv, Follow
  PROVE  /\ applied' \in applied + 1 .. Len(lines)
         /\ applied' <= applied + FetchLimit
         /\ got' = got \cup UNION {lines[n].serials : n \in applied + 1 .. applied'}
<1> DEFINE S == {lines[n].seq : n \in Applicable}
<1>1. /\ DOMAIN lines = 1..Len(lines) /\ Len(lines) \in Nat /\ applied \in Nat
      /\ \A n \in 1..Len(lines) : lines[n].seq = n
  BY EntriesOf DEF WInv, SInv, CrlTypeOK
<1>2. Applicable = {n \in 1..Len(lines) : applied < n /\ n <= applied + FetchLimit}
  BY PageOfFeed
<1>3. S = Applicable
  BY <1>1, <1>2
<1>4. applied' = Max(Applicable)
  BY <1>3 DEF Follow
<1>5. applied' \in Applicable /\ \A n \in Applicable : n <= applied'
  <2>1. Applicable \in SUBSET Nat /\ Applicable # {} /\ \A n \in Applicable : n <= Len(lines)
    BY <1>1, <1>2, PageOfFeed DEF Follow
  <2>. QED  BY <1>1, <1>4, <2>1, MaxOfBounded
<1>6. Applicable = applied + 1 .. applied'
  <2>1. ASSUME NEW n \in applied + 1 .. applied' PROVE n \in Applicable
    BY <1>1, <1>2, <1>5, StoreAssumption
  <2>2. ASSUME NEW n \in Applicable PROVE n \in applied + 1 .. applied'
    BY <1>1, <1>2, <1>5
  <2>. QED  BY <2>1, <2>2
<1>7. got' = got \cup UNION {lines[n].serials : n \in Applicable}
  BY DEF Follow
<1>. QED  BY <1>1, <1>2, <1>5, <1>6, <1>7, StoreAssumption

LEMMA WholeWrite ==
  ASSUME WInv, up, NEW ss \in Revocation, WriteLine(New(ss), "line")
  PROVE  /\ lines' = Append(lines, New(ss))
         /\ ending' = "clean"
         /\ Len(lines') = Len(lines) + 1
         /\ \A n \in DOMAIN lines' : lines'[n].seq = n
<1>1. lines \in Seq(Entry) /\ New(ss) \in Entry /\ New(ss).seq = Len(lines) + 1
  BY NewEntry DEF WInv, SInv, CrlTypeOK
<1>2. lines' = Append(lines, New(ss)) /\ ending' = "clean"
  BY DEF WriteLine, WInv
<1>3. /\ Len(lines') = Len(lines) + 1 /\ Len(lines) \in Nat
      /\ DOMAIN lines = 1..Len(lines)
      /\ DOMAIN lines' = 1..Len(lines) + 1
      /\ lines'[Len(lines) + 1] = New(ss)
      /\ \A n \in 1..Len(lines) : lines'[n] = lines[n]
  BY <1>1, <1>2
<1>4. ASSUME NEW n \in DOMAIN lines' PROVE lines'[n].seq = n
  <2>1. n \in 1..Len(lines) \/ n = Len(lines) + 1
    BY <1>3
  <2>. QED  BY <1>1, <1>3, <2>1 DEF WInv
<1>. QED  BY <1>2, <1>3, <1>4

LEMMA WInvStep ==
  ASSUME CrlFaults \subseteq {"crash"}
  PROVE  WInv /\ [CrlNext]_crlVars => WInv'
<1>. SUFFICES ASSUME WInv, [CrlNext]_crlVars, SInv' PROVE WInv'
  BY SInvStep DEF WInv
<1>. USE DEF WInv
<1>0. lines \in Seq(Entry) /\ Len(lines) \in Nat /\ DOMAIN lines = 1..Len(lines) /\ applied \in Nat
  BY EntriesOf DEF SInv, CrlTypeOK
<1>1. ASSUME NEW ss \in Revocation, DoAppend(ss) PROVE WInv'
  <2>1. WriteLine(New(ss), "line")
    BY <1>1 DEF DoAppend
  <2>. QED  BY <1>0, <1>1, <2>1, WholeWrite DEF DoAppend
<1>2. ASSUME NEW ss \in Revocation, AppendRaises(ss) PROVE WInv'
  BY <1>2 DEF AppendRaises
<1>3. ASSUME NEW ss \in Revocation, CrashInAppend(ss) PROVE WInv'
  <2>1. CASE WriteLine(New(ss), "line")
    BY <1>0, <1>3, <2>1, WholeWrite DEF CrashInAppend
  <2>2. CASE WriteLine(New(ss), "none")
    BY <1>3, <2>2 DEF CrashInAppend, WriteLine
  <2>. QED  BY <1>3, <2>1, <2>2 DEF CrashInAppend
<1>4. CASE Stop
  BY <1>4 DEF Stop
<1>5. CASE CrlRestart
  <2>1. Scan = Len(lines)
    <3> DEFINE S == {lines[n].seq : n \in DOMAIN lines} \cup {0}
    <3>1. S = 0..Len(lines)
      BY <1>0
    <3>2. Max(0..Len(lines)) = Len(lines)
      <4>1. 0..Len(lines) \in SUBSET Nat /\ Len(lines) \in 0..Len(lines)
            /\ \A x \in 0..Len(lines) : x <= Len(lines)
        BY <1>0
      <4>2. /\ Max(0..Len(lines)) \in 0..Len(lines)
            /\ Len(lines) <= Max(0..Len(lines))
        BY <1>0, <4>1, MaxOfBounded
      <4>. QED  BY <1>0, <4>2
    <3>. QED  BY <3>1, <3>2 DEF Scan
  <2>. QED  BY <1>5, <2>1 DEF CrlRestart
<1>6. CASE Follow
  BY <1>0, <1>6, FollowOfFeed DEF Follow
<1>7. CASE FollowEmpty
  <2>1. Page # {}
    <3>1. applied + 1 \in 1..Len(lines) /\ applied + 1 <= applied + FetchLimit
      BY <1>0, <1>7, StoreAssumption DEF FollowEmpty
    <3>. QED  BY <1>0, <3>1, PageOfFeed
  <2>. QED  BY <1>7, <2>1 DEF FollowEmpty
<1>8. CASE UNCHANGED crlVars
  BY <1>8 DEF crlVars
<1>. QED  BY <1>1, <1>2, <1>3, <1>4, <1>5, <1>6, <1>7, <1>8 DEF CrlNext

\* What Append returns, as a function.
LEMMA AppendOf ==
  ASSUME NEW S, NEW B \in Seq(S), NEW x \in S
  PROVE  Append(B, x) = [n \in 1..Len(B) + 1 |-> IF n = Len(B) + 1 THEN x ELSE B[n]]
<1>. DEFINE A == Append(B, x)
<1>1. A \in Seq(S) /\ Len(A) = Len(B) + 1 /\ Len(B) \in Nat
  OBVIOUS
<1>2. \A n \in 1..Len(B) + 1 : A[n] = IF n = Len(B) + 1 THEN x ELSE B[n]
  OBVIOUS
<1>. HIDE DEF A
<1>3. A = [n \in 1..Len(B) + 1 |-> A[n]]
  <2>1. A \in [1..Len(A) -> S]
    BY <1>1
  <2>. QED  BY <1>1, <2>1
<1>4. A = [n \in 1..Len(B) + 1 |-> IF n = Len(B) + 1 THEN x ELSE B[n]]
  BY <1>2, <1>3
<1>. QED  BY <1>4 DEF A

\* The feed the file stands for.
Barred == [n \in DOMAIN lines |-> lines[n].serials]

LEMMA BarredOf ==
  ASSUME WInv
  PROVE  /\ Barred \in Seq(SUBSET Revocable)
         /\ Len(Barred) = Len(lines)
         /\ DOMAIN Barred = 1..Len(lines)
         /\ \A n \in 1..Len(lines) : Barred[n] = lines[n].serials
BY EntriesOf DEF WInv, SInv, CrlTypeOK, Barred

\* A whole line is a publication, a page is a taking, the rest is not seen.
LEMMA Simulation ==
  ASSUME CrlFaults \subseteq {"crash"}, WInv, WInv', [CrlNext]_crlVars
  PROVE  [Feed!Next]_(Feed!vars)
<1>. USE DEF WInv
<1>0. /\ lines \in Seq(Entry) /\ Len(lines) \in Nat /\ DOMAIN lines = 1..Len(lines)
      /\ applied \in Nat
  BY EntriesOf DEF SInv, CrlTypeOK
<1>1. ASSUME NEW ss \in Revocation, WriteLine(New(ss), "line"), up, UNCHANGED <<applied, got>>
      PROVE  Feed!Publish(ss)
  <2>1. /\ lines' = Append(lines, New(ss)) /\ New(ss).serials = ss
        /\ lines' \in Seq(Entry) /\ New(ss) \in Entry
    BY <1>1, WholeWrite, NewEntry DEF New, SInv, CrlTypeOK
  <2>2. /\ DOMAIN lines' = 1..Len(lines) + 1
        /\ lines'[Len(lines) + 1] = New(ss)
        /\ \A n \in 1..Len(lines) : lines'[n] = lines[n]
    BY <1>0, <2>1
  <2>3. Barred' = Append(Barred, ss)
    <3>1. Barred' = [n \in 1..Len(lines) + 1 |-> lines'[n].serials]
      BY <2>2 DEF Barred
    <3>2. Append(Barred, ss) = [n \in 1..Len(Barred) + 1 |->
                                  IF n = Len(Barred) + 1 THEN ss ELSE Barred[n]]
      BY BarredOf, AppendOf DEF Revocation
    <3>3. \A n \in 1..Len(lines) + 1 :
            lines'[n].serials = IF n = Len(Barred) + 1 THEN ss ELSE Barred[n]
      BY <1>0, <2>1, <2>2, BarredOf
    <3>4. Len(Barred) = Len(lines)
      BY BarredOf
    <3>. QED  BY <3>1, <3>2, <3>3, <3>4
  <2>. QED  BY <1>1, <2>3 DEF Feed!Publish, Barred
<1>2. ASSUME UNCHANGED <<lines, applied, got>> PROVE UNCHANGED Feed!vars
  BY <1>2 DEF Feed!vars
<1>3. ASSUME NEW ss \in Revocation, DoAppend(ss) PROVE Feed!Next
  <2>1. WriteLine(New(ss), "line") /\ up /\ UNCHANGED <<applied, got>>
    BY <1>3 DEF DoAppend
  <2>. QED  BY <1>1, <2>1 DEF Feed!Next, Revocation
<1>4. ASSUME NEW ss \in Revocation, AppendRaises(ss) PROVE FALSE
  BY <1>4 DEF AppendRaises
<1>5. ASSUME NEW ss \in Revocation, CrashInAppend(ss) PROVE [Feed!Next]_(Feed!vars)
  <2>1. up /\ UNCHANGED <<applied, got>>
    BY <1>5 DEF CrashInAppend
  <2>2. CASE WriteLine(New(ss), "line")
    BY <1>1, <2>1, <2>2 DEF Feed!Next, Revocation
  <2>3. CASE WriteLine(New(ss), "none")
    BY <1>2, <2>1, <2>3 DEF WriteLine
  <2>. QED  BY <1>5, <2>2, <2>3 DEF CrashInAppend
<1>6. CASE Stop \/ CrlRestart
  BY <1>2, <1>6 DEF Stop, CrlRestart
<1>7. CASE Follow
  <2>1. /\ applied' \in applied + 1 .. Len(lines)
        /\ applied' <= applied + FetchLimit
        /\ got' = got \cup UNION {lines[n].serials : n \in applied + 1 .. applied'}
        /\ lines' = lines
    BY <1>7, FollowOfFeed DEF Follow
  <2>2. {lines[n].serials : n \in applied + 1 .. applied'}
          = {Barred[n] : n \in applied + 1 .. applied'}
    BY <1>0, <2>1, BarredOf
  <2>3. Feed!Take(applied')
    BY <2>1, <2>2 DEF Feed!Take, Feed!Published, Barred
  <2>. QED  BY <2>1, <2>3, BarredOf DEF Feed!Next, Barred
<1>8. CASE FollowEmpty
  <2>1. Page # {}
    <3>1. applied + 1 \in 1..Len(lines) /\ applied + 1 <= applied + FetchLimit
      BY <1>0, <1>8, StoreAssumption DEF FollowEmpty
    <3>. QED  BY <1>0, <3>1, PageOfFeed
  <2>. QED  BY <1>8, <2>1 DEF FollowEmpty
<1>9. CASE UNCHANGED crlVars
  BY <1>2, <1>9 DEF crlVars
<1>. QED  BY <1>3, <1>4, <1>5, <1>6, <1>7, <1>8, <1>9 DEF CrlNext

\* While every line reaches the file whole or not at all, the store and its
\* follower are the feed and its follower, crashes in an append included
\* (crl.py:89-175, crl_sync.py:124-174).
THEOREM ImplementsFeed ==
  ASSUME CrlFaults \subseteq {"crash"}
  PROVE  CrlSpec => FeedSpec
<1>1. CrlInit => Feed!Init
  BY DEF CrlInit, Feed!Init
<1>2. WInv /\ [CrlNext]_crlVars => WInv'
  BY WInvStep
<1>3. WInv /\ WInv' /\ [CrlNext]_crlVars => [Feed!Next]_(Feed!vars)
  BY Simulation
<1>. QED  BY WInvInit, <1>1, <1>2, <1>3, PTL DEF CrlSpec, FeedSpec, Feed!Spec

\* Publishing extends the feed and leaves every position as it was.
LEMMA PublishExact ==
  ASSUME Feed!FollowerExact, NEW ss \in SUBSET Revocable, Feed!Publish(ss)
  PROVE  Feed!FollowerExact'
<1>1. /\ Barred \in Seq(SUBSET Revocable) /\ Len(Barred) \in Nat
      /\ applied \in 0..Len(Barred)
      /\ got = Feed!Published(1, applied)
  BY DEF Feed!FollowerExact, Barred
<1>2. Barred' = Append(Barred, ss) /\ applied' = applied /\ got' = got
  BY DEF Feed!Publish, Barred
<1>3. /\ Barred' \in Seq(SUBSET Revocable) /\ Len(Barred') = Len(Barred) + 1
      /\ \A n \in 1..Len(Barred) : Barred'[n] = Barred[n]
  BY <1>1, <1>2, AppendOf
<1>4. {Barred'[n] : n \in 1..applied} = {Barred[n] : n \in 1..applied}
  BY <1>1, <1>3
<1>5. /\ Feed!Published(1, applied) = UNION {Barred[n] : n \in 1..applied}
      /\ Feed!Published(1, applied)' = UNION {Barred'[n] : n \in 1..applied'}
  BY DEF Feed!Published, Barred
<1>6. Barred' \in Seq(SUBSET Revocable) /\ applied' \in 0..Len(Barred')
  BY <1>1, <1>2, <1>3
<1>7. got' = Feed!Published(1, applied)'
  BY <1>1, <1>2, <1>4, <1>5
<1>. QED  BY <1>6, <1>7 DEF Feed!FollowerExact, Barred

\* A page adds exactly what lies between the two positions.
LEMMA TakeExact ==
  ASSUME Feed!FollowerExact, NEW n \in applied + 1 .. Len(Barred), Feed!Take(n)
  PROVE  Feed!FollowerExact'
<1>1. /\ Barred \in Seq(SUBSET Revocable) /\ Len(Barred) \in Nat
      /\ applied \in 0..Len(Barred) /\ n \in Nat
      /\ got = UNION {Barred[k] : k \in 1..applied}
  BY DEF Feed!FollowerExact, Feed!Published, Barred
<1>2. /\ Barred' = Barred /\ applied' = n
      /\ got' = got \cup UNION {Barred[k] : k \in applied + 1 .. n}
  BY DEF Feed!Take, Feed!Published, Barred
<1>3. 1..n = (1..applied) \cup (applied + 1 .. n)
  BY <1>1
<1>4. got' = UNION {Barred'[k] : k \in 1..applied'}
  BY <1>1, <1>2, <1>3
<1>5. Barred' \in Seq(SUBSET Revocable) /\ applied' \in 0..Len(Barred')
  BY <1>1, <1>2
<1>6. Feed!Published(1, applied)' = UNION {Barred'[k] : k \in 1..applied'}
  BY DEF Feed!Published, Barred
<1>. QED  BY <1>4, <1>5, <1>6 DEF Feed!FollowerExact, Barred

\* A follower of the feed that takes it a page at a time has the serials of every
\* revocation up to its position and no other (_do_sync_issuer's paging).
LEMMA FeedIsFollowed == FeedSpec => []Feed!FollowerExact
<1>1. Feed!Init => Feed!FollowerExact
  <2>. SUFFICES ASSUME Feed!Init PROVE Feed!FollowerExact
    OBVIOUS
  <2>1. Barred = <<>> /\ applied = 0 /\ got = {}
    BY DEF Feed!Init, Barred
  <2>2. Feed!Published(1, applied) = {}
    BY <2>1 DEF Feed!Published
  <2>3. Barred \in Seq(SUBSET Revocable) /\ applied \in 0..Len(Barred)
    BY <2>1
  <2>. QED  BY <2>1, <2>2, <2>3 DEF Feed!FollowerExact, Barred
<1>2. Feed!FollowerExact /\ [Feed!Next]_(Feed!vars) => Feed!FollowerExact'
  <2>. SUFFICES ASSUME Feed!FollowerExact, [Feed!Next]_(Feed!vars)
       PROVE Feed!FollowerExact'
    OBVIOUS
  <2>1. ASSUME NEW ss \in SUBSET Revocable, Feed!Publish(ss) PROVE Feed!FollowerExact'
    BY <2>1, PublishExact
  <2>2. ASSUME NEW n \in applied + 1 .. Len(Barred), Feed!Take(n) PROVE Feed!FollowerExact'
    BY <2>2, TakeExact
  <2>3. ASSUME UNCHANGED Feed!vars PROVE Feed!FollowerExact'
    <3>1. Barred' = Barred /\ applied' = applied /\ got' = got
      BY <2>3 DEF Feed!vars, Barred
    <3>2. Feed!Published(1, applied)' = Feed!Published(1, applied)
      BY <3>1 DEF Feed!Published, Barred
    <3>. QED  BY <3>1, <3>2 DEF Feed!FollowerExact, Barred
  <2>. QED  BY <2>1, <2>2, <2>3 DEF Feed!Next, Barred
<1>. QED  BY <1>1, <1>2, PTL DEF FeedSpec, Feed!Spec

\* So a follower of the store has, in every state, exactly the serials of the
\* revocations up to its position, for any page size and any crashes.
THEOREM FollowerHasPrefix ==
  ASSUME CrlFaults \subseteq {"crash"}
  PROVE  CrlSpec => []Feed!FollowerExact
BY ImplementsFeed, FeedIsFollowed, PTL
=============================================================================
