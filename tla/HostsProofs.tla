----------------------------- MODULE HostsProofs -----------------------------
(***************************************************************************)
(* The way of one login: what the CA decides, for any policies and any     *)
(* request; what a certificate carries from the CA to msshd, for any       *)
(* grant; what the shim answers sshd, for any calls, endpoints and         *)
(* lifetimes; and what a session carries, for any input and output.        *)
(***************************************************************************)
EXTENDS MCHosts, SequenceTheorems, FiniteSetTheorems, WellFoundedInduction, TLAPS

-----------------------------------------------------------------------------
(* The decision                                                           *)

\* A minute of a day is itself, counted round the clock.
LEMMA BelowTheDay ==
  ASSUME NEW D \in Nat \ {0}, NEW a \in 0 .. D - 1
  PROVE  a % D = a
BY SMT

\* A minute past midnight is that of the next day.
LEMMA PastTheDay ==
  ASSUME NEW D \in Nat \ {0}, NEW a \in D .. 2 * D - 1
  PROVE  a % D = a - D
BY SMT

\* A time of day, in minutes.
TimesOfDay(hours) ==
  hours = AllDay \/ hours \in (0 .. DayLength - 1) \X (0 .. DayLength - 1)

\* A user's policies are some the administrator may add; the clock shows a minute of a day.
PolicyInv ==
  /\ userPolicies \in Seq(PolicyPool)
  /\ minute \in 0 .. DayLength - 1

\* Adding and removing policies keeps that.
THEOREM PolicyInvariant == PolicySpec => []PolicyInv
<1>1. PolicyInit => PolicyInv
  BY DEF PolicyInit, PolicyInv
<1>2. PolicyInv /\ [PolicyNext]_policyVars => PolicyInv'
  <2> SUFFICES ASSUME PolicyInv, [PolicyNext]_policyVars PROVE PolicyInv' OBVIOUS
  <2>1. CASE AddPolicy
    <3> PICK p \in PolicyPool : userPolicies' = Append(userPolicies, p)
      BY <2>1 DEF AddPolicy
    <3> QED BY <2>1, AppendProperties DEF AddPolicy, PolicyInv
  <2>2. CASE RemovePolicy
    <3> PICK i \in DOMAIN userPolicies : userPolicies' = RemoveAt(userPolicies, i)
      BY <2>2 DEF RemovePolicy
    <3> DEFINE s == userPolicies
    <3>1. s \in Seq(PolicyPool) /\ i \in 1..Len(s) /\ Len(s) \in Nat
      BY DEF PolicyInv
    <3> HIDE DEF s
    <3>2. RemoveAt(s, i) \in Seq(PolicyPool)
      <4>1. SubSeq(s, 1, i-1) \in Seq(PolicyPool) /\ SubSeq(s, i+1, Len(s)) \in Seq(PolicyPool)
        <5>1. \A j \in 1 .. i-1 : j \in 1..Len(s) BY <3>1
        <5>2. \A j \in i+1 .. Len(s) : j \in 1..Len(s) BY <3>1
        <5> QED BY <3>1, <5>1, <5>2, SubSeqProperties, ElementOfSeq, SMT
      <4> QED BY <4>1, ConcatProperties DEF RemoveAt
    <3> QED BY <2>2, <3>2 DEF RemovePolicy, PolicyInv, s
  <2>3. CASE UNCHANGED policyVars
    BY <2>3 DEF PolicyInv, policyVars
  <2> QED BY <2>1, <2>2, <2>3 DEF PolicyNext
<1> QED BY <1>1, <1>2, PTL DEF PolicySpec

\* The minutes from a to b, counted forward, when a is before b.
LEMMA SpanForward ==
  ASSUME NEW D \in Nat \ {0}, NEW a \in 0 .. D - 1, NEW b \in 0 .. D - 1, NEW m \in 0 .. D - 1,
         a <= b
  PROVE  m \in a .. b <=> \E i \in 0 .. (b + D - a) % D : m = (a + i) % D
<1>1. (b + D - a) % D = b - a
  <2>1. b + D - a \in D .. 2 * D - 1 BY SMT
  <2> QED BY <2>1, PastTheDay, SMT
<1>2. \A i \in 0 .. b - a : (a + i) % D = a + i
  <2> TAKE i \in 0 .. b - a
  <2>1. a + i \in 0 .. D - 1 BY SMT
  <2> QED BY <2>1, BelowTheDay
<1>3. m \in a .. b => \E i \in 0 .. b - a : m = a + i
  <2> HAVE m \in a .. b
  <2> WITNESS m - a \in 0 .. b - a
  <2> QED OBVIOUS
<1>4. ASSUME NEW i \in 0 .. b - a, m = a + i PROVE m \in a .. b
  BY <1>4
<1> QED BY <1>1, <1>2, <1>3, <1>4

\* And over midnight, when it is not.
LEMMA SpanOverMidnight ==
  ASSUME NEW D \in Nat \ {0}, NEW a \in 0 .. D - 1, NEW b \in 0 .. D - 1, NEW m \in 0 .. D - 1,
         a > b
  PROVE  m >= a \/ m <= b <=> \E i \in 0 .. (b + D - a) % D : m = (a + i) % D
<1>1. (b + D - a) % D = b + D - a
  <2>1. b + D - a \in 0 .. D - 1 BY SMT
  <2> QED BY <2>1, BelowTheDay
<1>2. \A i \in 0 .. b + D - a : a + i < D => (a + i) % D = a + i
  <2> TAKE i \in 0 .. b + D - a
  <2> HAVE a + i < D
  <2>1. a + i \in 0 .. D - 1 BY SMT
  <2> QED BY <2>1, BelowTheDay
<1>3. \A i \in 0 .. b + D - a : a + i >= D => (a + i) % D = a + i - D
  <2> TAKE i \in 0 .. b + D - a
  <2> HAVE a + i >= D
  <2>1. a + i \in D .. 2 * D - 1 BY SMT
  <2> QED BY <2>1, PastTheDay
<1>4. ASSUME m >= a PROVE \E i \in 0 .. b + D - a : m = (a + i) % D
  <2>1. m - a \in 0 .. b + D - a /\ a + (m - a) = m /\ m < D BY <1>4
  <2>2. m = (a + (m - a)) % D BY <2>1, <1>2
  <2> QED BY <2>1, <2>2
<1>5. ASSUME m <= b PROVE \E i \in 0 .. b + D - a : m = (a + i) % D
  <2>1. m + D - a \in 0 .. b + D - a /\ a + (m + D - a) = m + D /\ m + D >= D /\ m + D - D = m BY <1>5
  <2>2. m = (a + (m + D - a)) % D BY <2>1, <1>3
  <2> QED BY <2>1, <2>2
<1>6. ASSUME NEW i \in 0 .. b + D - a, m = (a + i) % D PROVE m >= a \/ m <= b
  <2>1. a + i < D \/ a + i >= D BY SMT
  <2> QED BY <2>1, <1>2, <1>3, <1>6
<1> QED BY <1>1, <1>4, <1>5, <1>6

\* The comparisons of _time_in_window hold at exactly those minutes.
LEMMA WindowsAreSpans ==
  ASSUME minute \in 0 .. DayLength - 1, NEW hours, TimesOfDay(hours), hours # AllDay
  PROVE  InHours(hours) <=> minute \in Span(hours)
<1> PICK a \in 0 .. DayLength - 1, b \in 0 .. DayLength - 1 : hours = <<a, b>>
  BY DEF TimesOfDay
<1>0. DayLength \in Nat \ {0} BY DayLengthAssumption
<1>1. hours[1] = a /\ hours[2] = b OBVIOUS
<1>2. minute \in Span(hours) <=> \E i \in 0 .. (b + DayLength - a) % DayLength : minute = (a + i) % DayLength
  BY <1>1 DEF Span
<1>3. InHours(hours) <=> (a <= b /\ minute \in a .. b) \/ (a > b /\ (minute >= a \/ minute <= b))
  BY <1>1 DEF InHours
<1>4. CASE a <= b
  <2>1. ~(a > b) BY <1>0, <1>4
  <2>2. minute \in a .. b
          <=> \E i \in 0 .. (b + DayLength - a) % DayLength : minute = (a + i) % DayLength
    BY <1>0, <1>4, SpanForward
  <2> QED BY <1>2, <1>3, <1>4, <2>1, <2>2
<1>5. CASE a > b
  <2>1. ~(a <= b) BY <1>0, <1>5
  <2>2. minute >= a \/ minute <= b
          <=> \E i \in 0 .. (b + DayLength - a) % DayLength : minute = (a + i) % DayLength
    BY <1>0, <1>5, SpanOverMidnight
  <2> QED BY <1>2, <1>3, <1>5, <2>1, <2>2
<1> QED BY <1>0, <1>4, <1>5

\* If the hours of the policies that parse are times of a day, which nothing in the code checks,
\* a window grants from its first minute to its last, both included and midnight in between or not,
\* and at no other.
THEOREM HoursAreRight ==
  ASSUME \A p \in PolicyPool : p.window.hours = BadHours \/ TimesOfDay(p.window.hours)
  PROVE  PolicySpec => []HoursAreTheirSpan
<1>1. PolicyInv => HoursAreTheirSpan
  <2> SUFFICES ASSUME PolicyInv, NEW p \in ToSet(userPolicies),
                      p.window.hours # AllDay, p.window.hours # BadHours
      PROVE InWindow(p.window)
            <=> /\ p.window.days = {} \/ day \in p.window.days
                /\ minute \in Span(p.window.hours)
    BY DEF HoursAreTheirSpan
  <2>1. p \in PolicyPool
    BY DEF PolicyInv, ToSet
  <2>2. InHours(p.window.hours) <=> minute \in Span(p.window.hours)
    BY <2>1, WindowsAreSpans DEF PolicyInv
  <2> QED BY <2>2 DEF InWindow, OnDays
<1> QED BY <1>1, PolicyInvariant, PTL

\* Some numbers have a least.
LEMMA LeastNumber ==
  ASSUME NEW B, B \subseteq Nat, B # {}
  PROVE  \E m \in B : \A n \in B : m <= n
<1> DEFINE R == {z \in Nat \X Nat : z[1] < z[2]}
<1>1. IsWellFoundedOn(R, Nat)
  <2>1. R = OpToRel(<, Nat)
    BY Zenon DEF OpToRel
  <2> QED BY <2>1, NatLessThanWellFounded, Zenon
<1>2. PICK m \in B : \A n \in B : ~(<<n, m>> \in R)
  <2> HIDE DEF R
  <2> QED BY <1>1, WFMin
<1>3. \A n \in B : ~(n < m)
  BY <1>2
<1>4. \A n \in B : m <= n
  <2> TAKE n \in B
  <2>1. n \in Nat /\ m \in Nat /\ ~(n < m) BY <1>3
  <2> QED BY <2>1
<1> QED BY <1>4

\* The last of some places in a list.
LEMMA LastPlace ==
  ASSUME NEW n \in Nat, NEW I, I \subseteq 1 .. n, I # {}
  PROVE  Max(I) \in I /\ \A i \in I : i <= Max(I)
<1> DEFINE B == {k \in Nat : \A i \in I : i <= k}
<1>1. PICK m \in B : \A k \in B : m <= k
  <2>1. B \subseteq Nat /\ n \in B OBVIOUS
  <2> HIDE DEF B
  <2> QED BY <2>1, LeastNumber
<1>2. m \in I
  <2> SUFFICES ASSUME m \notin I PROVE FALSE OBVIOUS
  <2>0. m \in Nat /\ (\A i \in I : i \in Nat /\ i # 0 /\ i <= m /\ i # m) OBVIOUS
  <2>1. m \in Nat /\ m # 0 /\ \A i \in I : i <= m - 1
    <3> HIDE DEF B
    <3>1. PICK i \in I : TRUE OBVIOUS
    <3>2. m # 0 BY <2>0, <3>1
    <3> QED BY <2>0, <3>2
  <2>2. m - 1 \in B BY <2>1
  <2> QED BY <1>1, <2>1, <2>2
<1>3. m \in I /\ \A i \in I : m >= i
  BY <1>1, <1>2
<1>4. Max(I) \in I /\ \A i \in I : Max(I) >= i
  BY <1>3, Zenon DEF Max
<1>5. \A i \in I : i \in Nat OBVIOUS
<1> QED BY <1>4, <1>5

\* The numbers at some places of a list, and one more: they have a least.
Among(d, I, f) == {d} \cup {f[i] : i \in I}

\* They are finitely many.
LEMMA LeastOfAList ==
  ASSUME NEW n \in Nat, NEW I, I \subseteq 1 .. n, NEW f, \A i \in I : f[i] \in Int, NEW d \in Int
  PROVE  \E v \in Among(d, I, f) : \A w \in Among(d, I, f) : v <= w
<1> DEFINE Upto(k) == {d} \cup {f[i] : i \in {j \in I : j <= k}}
           HasLeast(k) == \E v \in Upto(k) : \A w \in Upto(k) : v <= w
           Bad == {k \in Nat : ~ HasLeast(k)}
<1>1. Bad = {}
  <2> SUFFICES ASSUME Bad # {} PROVE FALSE OBVIOUS
  <2>1. PICK k \in Bad : \A j \in Bad : k <= j
    <3>1. Bad \subseteq Nat OBVIOUS
    <3> HIDE DEF Bad
    <3> QED BY <3>1, LeastNumber
  <2>2. k # 0
    <3> SUFFICES ASSUME k = 0 PROVE FALSE OBVIOUS
    <3>1. {j \in I : j <= 0} = {} OBVIOUS
    <3>2. Upto(0) = {d} BY <3>1
    <3>3. HasLeast(0) BY <3>2
    <3> QED BY <3>3
  <2>3. k - 1 \in Nat /\ ~(k <= k - 1) BY <2>2
  <2>4. HasLeast(k - 1)
    BY <2>1, <2>3
  <2>5. PICK v \in Upto(k - 1) : \A w \in Upto(k - 1) : v <= w
    BY <2>4
  <2>6. Upto(k) = Upto(k - 1) \cup (IF k \in I THEN {f[k]} ELSE {})
    <3>1. k \in Nat OBVIOUS
    <3>2. \A j \in I : j <= k <=> (j <= k - 1 \/ j = k) BY <3>1
    <3>3. {j \in I : j <= k} = {j \in I : j <= k - 1} \cup (IF k \in I THEN {k} ELSE {})
      BY <3>1, <3>2
    <3> QED BY <3>3
  <2>7. v \in Int BY <2>5
  <2>8. HasLeast(k)
    <3>1. CASE k \notin I
      BY <2>5, <2>6, <3>1
    <3>2. CASE k \in I /\ v <= f[k]
      <4>1. v \in Upto(k) /\ \A w \in Upto(k) : v <= w
        BY <2>5, <2>6, <3>2
      <4> HIDE DEF Upto
      <4> QED BY <4>1
    <3>3. CASE k \in I /\ ~(v <= f[k])
      <4>1. f[k] \in Int /\ f[k] <= v BY <2>7, <3>3
      <4>2. \A w \in Upto(k - 1) : w \in Int OBVIOUS
      <4>3. f[k] \in Upto(k) /\ \A w \in Upto(k) : f[k] <= w
        BY <2>5, <2>6, <2>7, <3>3, <4>1, <4>2
      <4> HIDE DEF Upto
      <4> QED BY <4>3
    <3> QED BY <3>1, <3>2, <3>3
  <2> QED BY <2>8
<1>2. HasLeast(n) BY <1>1
<1>3. {j \in I : j <= n} = I
  <2>1. \A j \in I : j <= n OBVIOUS
  <2> QED BY <2>1, Zenon
<1>4. Upto(n) = {d} \cup {f[i] : i \in I} BY <1>3
<1> QED BY <1>2, <1>4 DEF Among

\* The strictest of the default and one policy's own validity.
Strictest(v) == IF v = 0 \/ DefaultValidity <= v THEN DefaultValidity ELSE v

\* The least is what Min finds.
LEMMA LeastIsMin ==
  ASSUME NEW S, S \subseteq Int, NEW v \in S, \A w \in S : v <= w
  PROVE  Min(S) \in S /\ \A w \in S : Min(S) <= w
BY Zenon DEF Min

\* One policy alone grants if it is for the server and applies, for as long as the stricter
\* of it and the default allows.
LEMMA AloneDecides ==
  ASSUME NEW p \in PolicyPool, NEW r \in Request, p.covers => ~ Raises(p, r.source)
  PROVE  /\ Alone(p, r).ok \in BOOLEAN
         /\ Alone(p, r).ok <=> p.covers /\ Applies(p, r.source)
         /\ Alone(p, r).ok => Alone(p, r).validity = Strictest(p.validity)
<1> DEFINE q == [r EXCEPT !.channels = Unasked]
           one == <<p>>
           cover == Covering(one)
           match == Matching(one, r.source)
<1>1. q.source = r.source /\ q.channels = Unasked
  BY DEF Request
<1>2. DOMAIN one = {1} /\ one[1] = p
  OBVIOUS
<1>3. p.covers \in BOOLEAN /\ p.validity \in Int /\ DefaultValidity \in Int
  BY PoolAssumption, DefaultAssumption
<1>4. cover = (IF p.covers THEN {1} ELSE {})
  BY <1>2 DEF Covering
<1>5. match = (IF p.covers /\ Applies(p, r.source) THEN {1} ELSE {})
  BY <1>2, <1>4 DEF Matching
<1>6. {i \in cover : Raises(one[i], r.source)} = {}
  BY <1>2, <1>4
<1> DEFINE granted == MergedChannels(one, match)
<1>7. Alone(p, r) =
        IF cover = {} THEN Denied("no_matching_policy")
        ELSE IF match = {}
          THEN Denied(IF FromSource(one[Max(cover)], r.source)
                      THEN "time_denied" ELSE "source_denied")
        ELSE [ok |-> TRUE, channels |-> granted,
              command |-> MergedCommand(one, match),
              validity |-> MergedValidity(one, match)]
  <2> HIDE DEF one
  <2>1. Alone(p, r) = Evaluate(one, q) BY DEF Alone, one
  <2> QED BY <1>1, <1>6, <2>1 DEF Evaluate
<1>8. ASSUME match # {} PROVE MergedValidity(one, match) = Strictest(p.validity)
  <2>1. match = {1} BY <1>5, <1>8
  <2>2. {one[i].validity : i \in match} = {p.validity} BY <1>2, <2>1
  <2> DEFINE S == {DefaultValidity} \cup ({p.validity} \ {0})
  <2>3. S \subseteq Int /\ Strictest(p.validity) \in S /\ \A w \in S : Strictest(p.validity) <= w
    BY <1>3 DEF Strictest
  <2>4. Min(S) \in S /\ \A w \in S : Min(S) <= w
    <3> HIDE DEF S
    <3> QED BY <2>3, LeastIsMin
  <2>5. Min(S) = Strictest(p.validity)
    <3> HIDE DEF S
    <3>1. Min(S) \in Int /\ Strictest(p.validity) \in Int BY <2>3, <2>4
    <3>2. Min(S) <= Strictest(p.validity) /\ Strictest(p.validity) <= Min(S) BY <2>3, <2>4
    <3> QED BY <3>1, <3>2
  <2> QED BY <2>2, <2>5 DEF MergedValidity
<1> HIDE DEF granted, one, q, cover, match
<1>9. CASE cover = {}
  BY <1>3, <1>4, <1>7, <1>9 DEF Denied
<1>10. CASE cover # {} /\ match = {}
  BY <1>3, <1>4, <1>5, <1>7, <1>10 DEF Denied
<1>11. CASE cover # {} /\ match # {}
  <2>1. p.covers /\ Applies(p, r.source) BY <1>4, <1>5, <1>11
  <2>2. Alone(p, r).ok = TRUE /\ Alone(p, r).validity = MergedValidity(one, match)
    BY <1>7, <1>11
  <2>3. Alone(p, r).validity = Strictest(p.validity) BY <1>8, <1>11, <2>2
  <2> QED BY <2>1, <2>2, <2>3
<1> QED BY <1>9, <1>10, <1>11

\* What the properties compare the decision with: the policies that would grant
\* on their own, and the channels they offer.
Granting(policies, r) == {p \in ToSet(policies) : Alone(p, r).ok}
\* What they offer.
Offered(policies, r) == UNION {p.channels : p \in Granting(policies, r)}
\* What of it is asked for.
Asked(policies, r) ==
  IF r.channels = Unasked THEN Offered(policies, r) ELSE Offered(policies, r) \cap r.channels
\* No policy for the server raises: its networks up to the first that holds source parse, and
\* if one does, so does its window.
NoneRaises(policies, r) == \A p \in ToSet(policies) : p.covers => ~ Raises(p, r.source)

\* The policies that grant on their own are those at the matching places.
LEMMA GrantingMatch ==
  ASSUME NEW P \in Seq(PolicyPool), NEW r \in Request, NoneRaises(P, r)
  PROVE  /\ Granting(P, r) = {P[i] : i \in Matching(P, r.source)}
         /\ MergedChannels(P, Matching(P, r.source)) = Offered(P, r)
         /\ Matching(P, r.source) = {} <=> Granting(P, r) = {}
         /\ {i \in Covering(P) : Raises(P[i], r.source)} = {}
<1>1. ToSet(P) = {P[i] : i \in DOMAIN P}
  BY DEF ToSet
<1>2. \A i \in DOMAIN P : P[i] \in PolicyPool
  OBVIOUS
<1>3. \A i \in DOMAIN P : Alone(P[i], r).ok <=> P[i].covers /\ Applies(P[i], r.source)
  BY <1>1, <1>2, AloneDecides DEF NoneRaises
<1>4. Granting(P, r) = {P[i] : i \in Matching(P, r.source)}
  BY <1>1, <1>3 DEF Granting, Matching, Covering
<1>5. {p.channels : p \in Granting(P, r)} = {P[i].channels : i \in Matching(P, r.source)}
  BY <1>4
<1>6. {i \in Covering(P) : Raises(P[i], r.source)} = {}
  BY <1>1 DEF NoneRaises, Covering
<1> QED BY <1>4, <1>5, <1>6 DEF MergedChannels, Offered

\* A policy that grants offers a channel, because none is added without.
LEMMA OfferedIsSomething ==
  ASSUME NEW P \in Seq(PolicyPool), NEW r, Granting(P, r) # {}
  PROVE  Offered(P, r) # {}
<1>1. PICK p \in Granting(P, r) : TRUE OBVIOUS
<1>2. p \in PolicyPool BY <1>1 DEF Granting, ToSet
<1>3. p.channels # {} /\ p.channels \subseteq Offered(P, r)
  BY <1>1, <1>2, PoolAssumption DEF Offered
<1> QED BY <1>3

\* The merged validity is the shortest of those they grant alone.
LEMMA ValidityIsTheStrictest ==
  ASSUME NEW P \in Seq(PolicyPool), NEW r \in Request, NoneRaises(P, r), Granting(P, r) # {}
  PROVE  LET v == MergedValidity(P, Matching(P, r.source))
         IN /\ \A p \in Granting(P, r) : v <= Alone(p, r).validity
            /\ \E p \in Granting(P, r) : v = Alone(p, r).validity
<1> DEFINE M == Matching(P, r.source)
           I == {i \in M : P[i].validity # 0}
           f == [i \in I |-> P[i].validity]
           B == {DefaultValidity} \cup ({P[i].validity : i \in M} \ {0})
           v == MergedValidity(P, M)
<1>1. Granting(P, r) = {P[i] : i \in M} /\ Len(P) \in Nat /\ M \subseteq 1 .. Len(P)
  <2>1. Granting(P, r) = {P[i] : i \in M} BY GrantingMatch
  <2>2. M \subseteq DOMAIN P BY DEF Matching, Covering
  <2> QED BY <2>1, <2>2
<1>2. \A i \in M : P[i] \in PolicyPool /\ P[i].validity \in Int
  <2>1. \A i \in M : i \in 1 .. Len(P) BY <1>1
  <2> HIDE DEF M
  <2> QED BY <2>1, PoolAssumption
<1>3. DefaultValidity \in Int
  BY DefaultAssumption
<1> HIDE DEF M
<1>4. B = {DefaultValidity} \cup {f[i] : i \in I}
  OBVIOUS
<1>5. B \subseteq Int
  BY <1>2, <1>3
<1>6. PICK w \in B : \A b \in B : w <= b
  <2>1. I \subseteq 1 .. Len(P) /\ \A i \in I : f[i] \in Int
    BY <1>1, <1>2
  <2> HIDE DEF I, f, B
  <2>2. Len(P) \in Nat BY <1>1
  <2>3. B = Among(DefaultValidity, I, f) BY <1>4 DEF Among
  <2> QED BY <1>3, <2>1, <2>2, <2>3, LeastOfAList
<1>7. v = Min(B)
  BY DEF MergedValidity
<1>8. v \in B /\ \A b \in B : v <= b
  <2> HIDE DEF B, v
  <2> QED BY <1>5, <1>6, <1>7, LeastIsMin
<1>9. v \in Int
  BY <1>5, <1>8
<1>10. \A i \in M : P[i].validity = 0 \/ P[i].validity \in B
  OBVIOUS
<1>11. DefaultValidity \in B
  OBVIOUS
<1>12. \A p \in Granting(P, r) : p \in PolicyPool /\ p.validity \in Int
         /\ Alone(p, r).validity = Strictest(p.validity)
  <2> TAKE p \in Granting(P, r)
  <2>1. p \in ToSet(P) /\ Alone(p, r).ok BY DEF Granting
  <2>2. p \in PolicyPool BY <2>1 DEF ToSet
  <2> QED BY <2>1, <2>2, PoolAssumption, AloneDecides DEF NoneRaises
<1>13. \A p \in Granting(P, r) : p.validity = 0 \/ p.validity \in B
  BY <1>1, <1>10
<1>14. \A p \in Granting(P, r) : v <= Strictest(p.validity)
  <2> HIDE DEF B, v
  <2> QED BY <1>8, <1>11, <1>13 DEF Strictest
<1>15. \E p \in Granting(P, r) : v = Strictest(p.validity)
  <2>1. CASE v = DefaultValidity
    <3>1. PICK p \in Granting(P, r) : TRUE OBVIOUS
    <3>2. v <= p.validity \/ p.validity = 0
      <4> HIDE DEF B, v
      <4> QED BY <1>8, <1>13
    <3>3. Strictest(p.validity) = DefaultValidity
      <4> HIDE DEF v
      <4> QED BY <2>1, <3>2 DEF Strictest
    <3> HIDE DEF v
    <3> QED BY <2>1, <3>1, <3>3
  <2>2. CASE v # DefaultValidity
    <3>1. PICK i \in M : v = P[i].validity /\ v # 0
      <4> HIDE DEF v
      <4> QED BY <1>8, <2>2
    <3> HIDE DEF v
    <3>2. ~ (DefaultValidity <= v)
      <4> HIDE DEF B
      <4>1. v <= DefaultValidity BY <1>8, <1>11
      <4> QED BY <1>3, <1>9, <2>2, <4>1
    <3>3. Strictest(P[i].validity) = v BY <3>1, <3>2 DEF Strictest
    <3>4. P[i] \in Granting(P, r) BY <1>1, <3>1
    <3> QED BY <3>3, <3>4
  <2> QED BY <2>1, <2>2
<1> HIDE DEF v
<1>16. /\ \A p \in Granting(P, r) : v <= Alone(p, r).validity
       /\ \E p \in Granting(P, r) : v = Alone(p, r).validity
  BY <1>12, <1>14, <1>15
<1> QED BY <1>16 DEF v, M

\* The merged command is none only where none of them has one.
LEMMA CommandIsKept ==
  ASSUME NEW P \in Seq(PolicyPool), NEW r \in Request, NoneRaises(P, r)
  PROVE  MergedCommand(P, Matching(P, r.source)) = NoCommand
           <=> \A p \in Granting(P, r) : p.command = NoCommand
<1> DEFINE M == Matching(P, r.source)
           F == {i \in M : P[i].command # NoCommand}
<1>1. Granting(P, r) = {P[i] : i \in M} /\ Len(P) \in Nat /\ F \subseteq 1 .. Len(P)
  <2>1. Granting(P, r) = {P[i] : i \in M} BY GrantingMatch
  <2>2. M \subseteq DOMAIN P BY DEF Matching, Covering
  <2> QED BY <2>1, <2>2
<1> HIDE DEF M
<1>2. MergedCommand(P, M) = IF F = {} THEN NoCommand ELSE P[Max(F)].command
  BY DEF MergedCommand
<1>3. F # {} => Max(F) \in F
  <2> HIDE DEF F
  <2> QED BY <1>1, LastPlace
<1>4. F # {} => MergedCommand(P, M) # NoCommand
  BY <1>2, <1>3
<1>5. F = {} <=> \A p \in Granting(P, r) : p.command = NoCommand
  BY <1>1
<1> QED BY <1>2, <1>4, <1>5 DEF M

\* So the decision is their sum.
LEMMA DecisionIsTheSum ==
  ASSUME NEW P \in Seq(PolicyPool), NEW r \in Request, NoneRaises(P, r)
  PROVE  LET d == Evaluate(P, r)
         IN /\ d.ok <=> Asked(P, r) # {}
            /\ d.ok => /\ d.channels = Asked(P, r)
                       /\ \A p \in Granting(P, r) : d.validity <= Alone(p, r).validity
                       /\ \E p \in Granting(P, r) : d.validity = Alone(p, r).validity
                       /\ d.command = NoCommand
                            <=> \A p \in Granting(P, r) : p.command = NoCommand
<1> DEFINE M == Matching(P, r.source)
           C == Covering(P)
           d == Evaluate(P, r)
           merged == MergedChannels(P, M)
           granted == IF r.channels = Unasked THEN merged ELSE merged \cap r.channels
<1>1. /\ merged = Offered(P, r) /\ (M = {} <=> Granting(P, r) = {})
      /\ {i \in C : Raises(P[i], r.source)} = {}
  BY GrantingMatch, Zenon
<1>2. C = {} => M = {}
  BY DEF Matching
<1>3. granted = Asked(P, r)
  BY <1>1 DEF Asked
<1>4. M = {} => granted = {}
  BY DEF MergedChannels
<1>5. M # {} /\ r.channels = Unasked => granted # {}
  BY <1>1, OfferedIsSomething
<1>6. d = IF C = {} THEN Denied("no_matching_policy")
          ELSE IF M = {} THEN Denied(IF FromSource(P[Max(C)], r.source)
                                     THEN "time_denied" ELSE "source_denied")
          ELSE IF granted = {} /\ r.channels # Unasked THEN Denied("channels_denied")
          ELSE [ok |-> TRUE, channels |-> granted, command |-> MergedCommand(P, M),
                validity |-> MergedValidity(P, M)]
  BY <1>1 DEF Evaluate
<1> HIDE DEF M, C, d, merged, granted
<1>7. CASE granted = {}
  <2>1. M # {} => r.channels # Unasked BY <1>5, <1>7
  <2>2. d.ok = FALSE
    BY <1>6, <1>7, <2>1 DEF Denied
  <2> QED BY <1>3, <1>7, <2>2 DEF d
<1>8. CASE granted # {}
  <2>1. C # {} /\ M # {} BY <1>2, <1>4, <1>8
  <2>2. d.ok = TRUE /\ d.channels = granted /\ d.command = MergedCommand(P, M)
        /\ d.validity = MergedValidity(P, M)
    BY <1>6, <1>8, <2>1
  <2>3. Granting(P, r) # {} BY <1>1, <2>1
  <2>4. /\ \A p \in Granting(P, r) : d.validity <= Alone(p, r).validity
        /\ \E p \in Granting(P, r) : d.validity = Alone(p, r).validity
    BY <2>2, <2>3, ValidityIsTheStrictest DEF M
  <2>5. d.command = NoCommand <=> \A p \in Granting(P, r) : p.command = NoCommand
    BY <2>2, CommandIsKept DEF M
  <2> QED BY <1>3, <1>8, <2>2, <2>4, <2>5 DEF d
<1> QED BY <1>7, <1>8

\* A policy for the server that raises leaves nothing granted.
LEMMA RaisingDenies ==
  ASSUME NEW P \in Seq(PolicyPool), NEW r, ~ NoneRaises(P, r)
  PROVE  Evaluate(P, r).ok = FALSE
<1> DEFINE C == Covering(P)
           raising == {i \in C : Raises(P[i], r.source)}
<1>1. raising # {} /\ C # {}
  BY DEF NoneRaises, ToSet, Covering
<1> DEFINE why == IF SourceRaises(P[Min(raising)], r.source)
                  THEN "source_denied" ELSE "internal error"
<1>2. Evaluate(P, r) = Denied(why)
  BY <1>1, Zenon DEF Evaluate
<1> HIDE DEF why
<1> QED BY <1>2 DEF Denied

\* Whatever policies a user has, in whatever order, whatever of them can be read and whatever the
\* request: what evaluate grants is what the policies grant one by one, and it grants it
\* exactly when something asked is left and it can read every policy for the server.
THEOREM DecisionsAreSums == PolicySpec => []TheSumOfThePolicies
<1>1. PolicyInv => TheSumOfThePolicies
  <2> SUFFICES ASSUME PolicyInv, NEW r \in Request
      PROVE LET d == Evaluate(userPolicies, r)
            IN /\ d.ok <=> Asked(userPolicies, r) # {} /\ NoneRaises(userPolicies, r)
               /\ d.ok => /\ d.channels = Asked(userPolicies, r)
                          /\ \A p \in Granting(userPolicies, r) :
                               d.validity <= Alone(p, r).validity
                          /\ \E p \in Granting(userPolicies, r) :
                               d.validity = Alone(p, r).validity
                          /\ d.command = NoCommand
                               <=> \A p \in Granting(userPolicies, r) : p.command = NoCommand
    BY DEF TheSumOfThePolicies, NoneRaises, Asked, Offered, Granting
  <2>1. userPolicies \in Seq(PolicyPool) BY DEF PolicyInv
  <2>2. CASE NoneRaises(userPolicies, r)
    BY <2>1, <2>2, DecisionIsTheSum
  <2>3. CASE ~ NoneRaises(userPolicies, r)
    <3>1. Evaluate(userPolicies, r).ok = FALSE BY <2>1, <2>3, RaisingDenies
    <3> QED BY <2>3, <3>1
  <2> QED BY <2>2, <2>3
<1> QED BY <1>1, PolicyInvariant, PTL

-----------------------------------------------------------------------------
(* Certificates: what recursion on numbers defines                        *)

\* What holds of no least number holds of none.
LEMMA NoLeast ==
  ASSUME NEW N \in Nat, NEW T \in SUBSET (0 .. N),
         \A n \in 0 .. N : (\A m \in 0 .. n - 1 : m \in T) => n \in T
  PROVE  T = 0 .. N
  <1> SUFFICES ASSUME (0 .. N) \ T # {} PROVE FALSE
    OBVIOUS
  <1>1. PICK l \in (0 .. N) \ T : \A n \in (0 .. N) \ T : l <= n
    <2> DEFINE B == (0 .. N) \ T
    <2>1. B \subseteq Nat
      OBVIOUS
    <2> HIDE DEF B
    <2>2. B # {} => \E m \in B : \A n \in B : m <= n
      BY <2>1, LeastNumber
    <2> QED BY <2>2 DEF B
  <1>2. l \in 0 .. N /\ l \notin T
    OBVIOUS
  <1>3. \A m \in 0 .. l - 1 : m \in T
    <2> TAKE m \in 0 .. l - 1
    <2>1. m \in 0 .. N /\ ~(l <= m)
      BY <1>2
    <2> QED BY <1>1, <2>1
  <1> QED BY <1>2, <1>3

\* The step of a definition by recursion on smaller numbers, as a function.
Recursion(f, N, e, d, h) ==
  f[0] = e /\ \A n \in 1 .. N : f[n] = h[<<n, f[d[n]]>>]

\* There is a function defined by recursion on smaller numbers.
LEMMA RecursionExists ==
  ASSUME NEW N \in Nat, NEW V, NEW e \in V,
         NEW d \in [1 .. N -> Nat], \A n \in 1 .. N : d[n] <= n - 1,
         NEW h \in [(1 .. N) \X V -> V]
  PROVE  \E f \in [0 .. N -> V] : Recursion(f, N, e, d, h)
  <1> DEFINE T == {M \in 0 .. N : \E f \in [0 .. M -> V] : Recursion(f, M, e, d, h)}
  <1>1. ASSUME NEW n \in 0 .. N, \A m \in 0 .. n - 1 : m \in T
        PROVE  n \in T
    <2>1. CASE n = 0
      <3>1. [x \in 0 .. 0 |-> e] \in [0 .. 0 -> V] /\ Recursion([x \in 0 .. 0 |-> e], 0, e, d, h)
        BY DEF Recursion
      <3> QED BY <2>1, <3>1
    <2>2. CASE n # 0
      <3>1. n \in 1 .. N /\ n - 1 \in 0 .. n - 1 /\ n - 1 \in 0 .. N
        BY <2>2
      <3>2. PICK f \in [0 .. n - 1 -> V] : Recursion(f, n - 1, e, d, h)
        BY <1>1, <3>1
      <3>3. d[n] \in 0 .. n - 1
        BY <3>1
      <3> DEFINE g == [x \in 0 .. n |-> IF x = n THEN h[<<n, f[d[n]]>>] ELSE f[x]]
      <3>4. g \in [0 .. n -> V]
        <4>1. h[<<n, f[d[n]]>>] \in V
          BY <3>1, <3>2, <3>3
        <4>2. \A x \in 0 .. n : x # n => x \in 0 .. n - 1
          BY <3>1
        <4> QED BY <4>1, <4>2, <3>2
      <3>5. \A x \in 0 .. n - 1 : g[x] = f[x]
        BY <3>1
      <3>6. g[n] = h[<<n, f[d[n]]>>]
        BY <3>1
      <3> HIDE DEF g
      <3>7. g[0] = e
        BY <3>1, <3>2, <3>5 DEF Recursion
      <3>8. ASSUME NEW m \in 1 .. n PROVE g[m] = h[<<m, g[d[m]]>>]
        <4>1. CASE m = n
          BY <3>3, <3>5, <3>6, <4>1
        <4>2. CASE m # n
          <5>1. m \in 1 .. n - 1 /\ m \in 0 .. n - 1 /\ m \in 1 .. N
            BY <4>2
          <5>2. d[m] \in 0 .. n - 1
            BY <5>1
          <5> QED BY <5>1, <5>2, <3>2, <3>5 DEF Recursion
        <4> QED BY <4>1, <4>2
      <3> QED BY <3>4, <3>7, <3>8 DEF Recursion
    <2> QED BY <2>1, <2>2
  <1>2. T = 0 .. N
    <2> HIDE DEF T
    <2>1. T \in SUBSET (0 .. N) BY DEF T
    <2> QED BY <1>1, <2>1, NoLeast
  <1>3. N \in T
    BY <1>2
  <1> QED BY <1>3

-----------------------------------------------------------------------------
(* Certificates: numbers and their bytes                                  *)

\* The sums int.from_bytes goes through.
Sums(v, s) ==
  /\ v \in [0 .. Len(s) -> Nat]
  /\ v[0] = 0
  /\ \A k \in 1 .. Len(s) : v[k] = v[k - 1] * Base + s[k]

\* Multiplying by the base stays among the naturals.
LEMMA TimesBase ==
  ASSUME NEW a \in Nat, NEW b \in Nat
  PROVE  a * Base + b \in Nat
  <1>1. Base \in Nat
    BY BaseAssumption
  <1> QED BY <1>1, SMT

\* Every text has them.
LEMMA SumsExist ==
  ASSUME NEW s \in Seq(Nat)
  PROVE  \E v : Sums(v, s)
  <1> DEFINE N == Len(s)
             d == [n \in 1 .. N |-> n - 1]
             h == [p \in (1 .. N) \X Nat |-> p[2] * Base + s[p[1]]]
  <1>1. N \in Nat /\ \A n \in 1 .. N : s[n] \in Nat
    OBVIOUS
  <1>2. d \in [1 .. N -> Nat] /\ \A n \in 1 .. N : d[n] <= n - 1 /\ d[n] = n - 1
    BY <1>1
  <1>3. h \in [(1 .. N) \X Nat -> Nat]
    BY <1>1, TimesBase
  <1>4. \A n \in 1 .. N, x \in Nat : h[<<n, x>>] = x * Base + s[n]
    OBVIOUS
  <1>5. 0 \in Nat
    OBVIOUS
  <1> HIDE DEF N, d, h
  <1>6. PICK v \in [0 .. N -> Nat] : Recursion(v, N, 0, d, h)
    BY <1>1, <1>2, <1>3, <1>5, RecursionExists
  <1>7. \A k \in 1 .. N : v[k] = v[k - 1] * Base + s[k]
    <2> TAKE k \in 1 .. N
    <2>1. k - 1 \in 0 .. N /\ d[k] = k - 1
      BY <1>1, <1>2
    <2>2. v[k - 1] \in Nat
      BY <2>1
    <2>3. v[k] = h[<<k, v[k - 1]>>]
      BY <1>6, <2>1 DEF Recursion
    <2> QED BY <1>4, <2>2, <2>3
  <1>8. v[0] = 0
    BY <1>6 DEF Recursion
  <1> QED BY <1>7, <1>8 DEF Sums, N

\* The number a text stands for is the last of them.
LEMMA UnsignedIsSum ==
  ASSUME NEW s \in Seq(Nat), NEW v, Sums(v, s)
  PROVE  Unsigned(s) = v[Len(s)]
  <1> DEFINE N == Len(s)
             Filled(f) == [k \in 0 .. N |-> IF k = 0 THEN 0 ELSE f[k - 1] * Base + s[k]]
             W == CHOOSE f : f = Filled(f)
  <1>1. N \in Nat
    OBVIOUS
  <1>2. v = Filled(v)
    BY <1>1 DEF Sums
  <1>3. W = Filled(W)
    BY <1>2
  <1>4. Unsigned(s) = W[N]
    BY DEF Unsigned
  <1>5. W[0] = 0 /\ \A k \in 1 .. N : W[k] = W[k - 1] * Base + s[k]
    <2> HIDE DEF W
    <2> QED BY <1>1, <1>3
  <1> HIDE DEF W, Filled
  <1> DEFINE T == {k \in 0 .. N : W[k] = v[k]}
  <1>6. ASSUME NEW n \in 0 .. N, \A m \in 0 .. n - 1 : m \in T
        PROVE  n \in T
    <2>1. CASE n = 0
      BY <2>1, <1>5 DEF Sums
    <2>2. CASE n # 0
      <3>1. n \in 1 .. N /\ n - 1 \in 0 .. n - 1
        BY <2>2
      <3>2. W[n - 1] = v[n - 1]
        BY <1>6, <3>1
      <3> QED BY <3>1, <3>2, <1>5 DEF Sums
    <2> QED BY <2>1, <2>2
  <1>7. T = 0 .. N
    <2>1. T \in SUBSET (0 .. N) OBVIOUS
    <2> HIDE DEF T, N
    <2> QED BY <1>1, <1>6, <2>1, NoLeast
  <1>8. N \in T
    BY <1>1, <1>7
  <1> QED BY <1>4, <1>8

\* The number of a text is a natural number; that of none is zero.
LEMMA UnsignedIsNat ==
  ASSUME NEW s \in Seq(Nat)
  PROVE  Unsigned(s) \in Nat
  <1>1. PICK v : Sums(v, s)
    BY SumsExist
  <1> QED BY <1>1, UnsignedIsSum DEF Sums

\* The number of no bytes.
LEMMA UnsignedOfNone == Unsigned(<< >>) = 0
  <1>0. << >> \in Seq(Nat)
    OBVIOUS
  <1>1. PICK v : Sums(v, << >>)
    BY <1>0, SumsExist
  <1> QED BY <1>0, <1>1, UnsignedIsSum DEF Sums

\* One more byte.
LEMMA UnsignedAppend ==
  ASSUME NEW s \in Seq(Nat), NEW b \in Nat
  PROVE  Unsigned(Append(s, b)) = Unsigned(s) * Base + b
  <1>1. PICK v : Sums(v, s)
    BY SumsExist
  <1>2. Unsigned(s) = v[Len(s)] /\ v[Len(s)] \in Nat
    BY <1>1, UnsignedIsSum DEF Sums
  <1> DEFINE t == Append(s, b)
             w == [k \in 0 .. Len(t) |-> IF k = Len(t) THEN v[Len(s)] * Base + b ELSE v[k]]
  <1>3. t \in Seq(Nat) /\ Len(t) = Len(s) + 1 /\ t[Len(s) + 1] = b /\ \A k \in 1 .. Len(s) : t[k] = s[k]
    OBVIOUS
  <1>4. v[Len(s)] * Base + b \in Nat
    BY <1>2, TimesBase
  <1>5. Sums(w, t)
    <2> HIDE DEF t
    <2>1. w \in [0 .. Len(t) -> Nat]
      BY <1>1, <1>3, <1>4 DEF Sums
    <2>2. w[0] = 0
      BY <1>1, <1>3 DEF Sums
    <2>3. ASSUME NEW k \in 1 .. Len(t) PROVE w[k] = w[k - 1] * Base + t[k]
      <3>1. CASE k = Len(t)
        BY <3>1, <1>3
      <3>2. CASE k # Len(t)
        <4>1. k \in 1 .. Len(s) /\ k - 1 \in 0 .. Len(t) /\ k - 1 # Len(t) /\ k \in 0 .. Len(t)
          BY <3>2, <1>3
        <4>2. w[k] = v[k] /\ w[k - 1] = v[k - 1]
          BY <3>2, <4>1
        <4> QED BY <1>1, <1>3, <4>1, <4>2 DEF Sums
      <3> QED BY <3>1, <3>2
    <2> QED BY <2>1, <2>2, <2>3 DEF Sums
  <1>6. w[Len(t)] = v[Len(s)] * Base + b
    BY <1>3
  <1> HIDE DEF w, t
  <1>7. Unsigned(t) = w[Len(t)]
    BY <1>3, <1>5, UnsignedIsSum
  <1> QED BY <1>2, <1>6, <1>7 DEF t

\* A zero in front changes nothing.
LEMMA UnsignedZeroFirst ==
  ASSUME NEW s \in Seq(Nat)
  PROVE  <<0>> \o s \in Seq(Nat) /\ Unsigned(<<0>> \o s) = Unsigned(s)
  <1>1. PICK v : Sums(v, s)
    BY SumsExist
  <1> DEFINE t == <<0>> \o s
             w == [k \in 0 .. Len(t) |-> IF k = 0 THEN 0 ELSE v[k - 1]]
  <1>2. t \in Seq(Nat) /\ Len(t) = Len(s) + 1 /\ t[1] = 0 /\ \A k \in 2 .. Len(t) : t[k] = s[k - 1]
    OBVIOUS
  <1>3. Sums(w, t)
    <2> HIDE DEF t
    <2>1. w \in [0 .. Len(t) -> Nat]
      BY <1>1, <1>2 DEF Sums
    <2>2. w[0] = 0
      BY <1>2
    <2>3. ASSUME NEW k \in 1 .. Len(t) PROVE w[k] = w[k - 1] * Base + t[k]
      <3>1. CASE k = 1
        <4>1. w[1] = 0 /\ w[0] = 0 /\ t[1] = 0
          BY <1>1, <1>2 DEF Sums
        <4>2. 0 * Base + 0 = 0
          BY BaseAssumption
        <4> QED BY <3>1, <4>1, <4>2
      <3>2. CASE k # 1
        <4>1. k - 1 \in 1 .. Len(s) /\ k - 1 \in 0 .. Len(t) /\ k - 1 # 0 /\ k # 0 /\ k \in 0 .. Len(t)
              /\ k \in 2 .. Len(t)
          BY <3>2, <1>2
        <4>2. w[k] = v[k - 1] /\ w[k - 1] = v[(k - 1) - 1]
          BY <4>1
        <4>3. v[k - 1] = v[(k - 1) - 1] * Base + s[k - 1]
          BY <1>1, <4>1 DEF Sums
        <4> QED BY <1>2, <4>1, <4>2, <4>3
      <3> QED BY <3>1, <3>2
    <2> QED BY <2>1, <2>2, <2>3 DEF Sums
  <1>4. w[Len(t)] = v[Len(s)]
    BY <1>2
  <1> HIDE DEF w, t
  <1>5. Unsigned(t) = w[Len(t)]
    BY <1>2, <1>3, UnsignedIsSum
  <1>6. Unsigned(s) = v[Len(s)]
    BY <1>1, UnsignedIsSum
  <1>7. t \in Seq(Nat) /\ Unsigned(t) = Unsigned(s)
    BY <1>2, <1>4, <1>5, <1>6
  <1> QED BY <1>7 DEF t

\* A byte's values.
Bytes == 0 .. Base - 1

\* A number and its quotient by the base.
LEMMA Quotient ==
  ASSUME NEW n \in Nat, n # 0
  PROVE  /\ n \div Base \in Nat /\ n \div Base < n
         /\ n % Base \in Bytes
         /\ (n \div Base) * Base + (n % Base) = n
  <1>1. Base \in Nat /\ Base > 3
    BY BaseAssumption
  <1> DEFINE q == n \div Base
             r == n % Base
  <1>2. q \in Int /\ r \in 0 .. Base - 1 /\ n = Base * q + r
    BY <1>1, SMT
  <1> HIDE DEF q, r
  <1>3. q >= 0
    <2>1. q < 0 => Base * q <= 0 - Base
      BY <1>1, <1>2, SMT
    <2> QED BY <1>1, <1>2, <2>1
  <1>4. q < n
    <2>1. Base * q >= 4 * q
      BY <1>1, <1>2, <1>3, SMT
    <2>2. q = 0 => Base * q = 0
      BY <1>1, SMT
    <2> QED BY <1>1, <1>2, <1>3, <2>1, <2>2
  <1>5. q * Base + r = n
    BY <1>1, <1>2, SMT
  <1> QED BY <1>2, <1>3, <1>4, <1>5 DEF q, r, Bytes

\* Bytes are numbers, and so are texts of them.
LEMMA BytesAreNumbers ==
  ASSUME NEW s \in Seq(Bytes)
  PROVE  s \in Seq(Nat)
  <1>1. \A b \in Bytes : b \in Nat
    BY BaseAssumption DEF Bytes
  <1> QED BY <1>1

\* The digits of all numbers up to n.
DigitsTo(D, n) ==
  /\ D \in [0 .. n -> Seq(Bytes)]
  /\ D[0] = << >>
  /\ \A m \in 1 .. n : D[m] = Append(D[m \div Base], m % Base)

\* There is a function of the digits of the numbers up to n.
LEMMA DigitsExist ==
  ASSUME NEW n \in Nat
  PROVE  \E D : DigitsTo(D, n)
  <1> DEFINE d == [m \in 1 .. n |-> m \div Base]
             h == [p \in (1 .. n) \X Seq(Bytes) |-> Append(p[2], p[1] % Base)]
  <1>1. \A m \in 1 .. n : /\ d[m] = m \div Base /\ d[m] \in Nat /\ d[m] <= m - 1
                          /\ m % Base \in Bytes
    <2> TAKE m \in 1 .. n
    <2>1. m \in Nat /\ m # 0
      OBVIOUS
    <2>2. d[m] = m \div Base
      OBVIOUS
    <2> HIDE DEF d
    <2>3. m \div Base \in Nat /\ m \div Base < m /\ m % Base \in Bytes
      BY <2>1, Quotient
    <2> QED BY <2>1, <2>2, <2>3
  <1>2. d \in [1 .. n -> Nat]
    BY <1>1
  <1>3. \A m \in 1 .. n, x \in Seq(Bytes) : h[<<m, x>>] = Append(x, m % Base)
    OBVIOUS
  <1>4. h \in [(1 .. n) \X Seq(Bytes) -> Seq(Bytes)]
    BY <1>1
  <1>5. << >> \in Seq(Bytes)
    OBVIOUS
  <1> HIDE DEF d, h
  <1>6. PICK D \in [0 .. n -> Seq(Bytes)] : Recursion(D, n, << >>, d, h)
    BY <1>1, <1>2, <1>4, <1>5, RecursionExists
  <1>7. ASSUME NEW m \in 1 .. n PROVE D[m] = Append(D[m \div Base], m % Base)
    <2>1. d[m] = m \div Base /\ d[m] \in 0 .. n
      BY <1>1
    <2>2. D[m \div Base] \in Seq(Bytes)
      BY <2>1
    <2>3. D[m] = h[<<m, D[m \div Base]>>]
      BY <1>6, <2>1 DEF Recursion
    <2> QED BY <1>3, <2>2, <2>3
  <1>8. D[0] = << >>
    BY <1>6 DEF Recursion
  <1> QED BY <1>7, <1>8 DEF DigitsTo

\* What _der_tag and _der_int collect are those.
LEMMA DigitsAreThose ==
  ASSUME NEW n \in Nat
  PROVE  \E D : DigitsTo(D, n) /\ Digits(n) = D[n]
  <1>1. PICK E : DigitsTo(E, n)
    BY DigitsExist
  <1> DEFINE Filled(f) == [m \in 0 .. n |-> IF m = 0 THEN Empty ELSE Append(f[m \div Base], m % Base)]
             W == CHOOSE f : f = Filled(f)
  <1>2. E = Filled(E)
    BY <1>1 DEF DigitsTo, Empty
  <1>3. W = Filled(W)
    BY <1>2
  <1>4. Digits(n) = W[n]
    BY DEF Digits
  <1>5. W[0] = << >> /\ \A m \in 1 .. n : W[m] = Append(W[m \div Base], m % Base)
    <2>1. /\ Filled(W)[0] = << >>
          /\ \A m \in 1 .. n : Filled(W)[m] = Append(W[m \div Base], m % Base)
      <3> HIDE DEF W
      <3> QED BY DEF Empty
    <2> HIDE DEF W, Filled
    <2> QED BY <1>3, <2>1
  <1>6. DOMAIN W = 0 .. n
    <2> HIDE DEF W
    <2> QED BY <1>3
  <1>7. W = [x \in DOMAIN W |-> W[x]]
    <2> HIDE DEF W
    <2>1. Filled(W) = [x \in DOMAIN Filled(W) |-> Filled(W)[x]]
      OBVIOUS
    <2> HIDE DEF Filled
    <2> QED BY <1>3, <2>1
  <1> HIDE DEF W, Filled
  <1> DEFINE T == {k \in 0 .. n : W[k] = E[k]}
  <1>8. ASSUME NEW k \in 0 .. n, \A m \in 0 .. k - 1 : m \in T
        PROVE  k \in T
    <2>1. CASE k = 0
      BY <2>1, <1>1, <1>5 DEF DigitsTo
    <2>2. CASE k # 0
      <3>1. k \in 1 .. n /\ k \in Nat
        BY <2>2
      <3>2. k \div Base \in 0 .. k - 1
        BY <3>1, <2>2, Quotient
      <3>3. W[k \div Base] = E[k \div Base]
        BY <1>8, <3>2
      <3> QED BY <3>1, <3>3, <1>1, <1>5 DEF DigitsTo
    <2> QED BY <2>1, <2>2
  <1>9. T = 0 .. n
    <2>1. T \in SUBSET (0 .. n) OBVIOUS
    <2> HIDE DEF T
    <2> QED BY <1>8, <2>1, NoLeast
  <1>10. n \in T
    BY <1>9
  <1> QED BY <1>1, <1>4, <1>10

\* The number that the bytes of a number stand for is that number; the bytes of
\* zero are none, and those of another some.
LEMMA DigitsRoundTrip ==
  ASSUME NEW n \in Nat
  PROVE  /\ Digits(n) \in Seq(Bytes) /\ Digits(n) \in Seq(Nat)
         /\ Unsigned(Digits(n)) = n
         /\ n # 0 => Digits(n) # << >>
  <1>1. PICK D : DigitsTo(D, n) /\ Digits(n) = D[n]
    BY DigitsAreThose
  <1>2. \A b \in Bytes : b \in Nat
    BY BaseAssumption DEF Bytes
  <1>3. \A m \in 0 .. n : D[m] \in Seq(Bytes) /\ D[m] \in Seq(Nat)
    BY <1>1, BytesAreNumbers DEF DigitsTo
  <1> DEFINE T == {m \in 0 .. n : Unsigned(D[m]) = m}
  <1>4. ASSUME NEW k \in 0 .. n, \A m \in 0 .. k - 1 : m \in T
        PROVE  k \in T
    <2>1. CASE k = 0
      BY <2>1, <1>1, UnsignedOfNone DEF DigitsTo
    <2>2. CASE k # 0
      <3>1. k \in 1 .. n /\ k \in Nat
        BY <2>2
      <3>2. /\ k \div Base \in 0 .. k - 1 /\ k % Base \in Nat
            /\ (k \div Base) * Base + (k % Base) = k
        BY <1>2, <3>1, <2>2, Quotient
      <3>3. Unsigned(D[k \div Base]) = k \div Base /\ D[k \div Base] \in Seq(Nat)
        BY <1>3, <1>4, <3>2
      <3>4. D[k] = Append(D[k \div Base], k % Base)
        BY <1>1, <3>1 DEF DigitsTo
      <3>5. Unsigned(D[k]) = (k \div Base) * Base + (k % Base)
        BY <3>2, <3>3, <3>4, UnsignedAppend
      <3> QED BY <3>2, <3>5
    <2> QED BY <2>1, <2>2
  <1>5. T = 0 .. n
    <2>1. T \in SUBSET (0 .. n) OBVIOUS
    <2> HIDE DEF T
    <2> QED BY <1>4, <2>1, NoLeast
  <1>6. Unsigned(Digits(n)) = n
    <2>1. n \in T
      BY <1>5
    <2> QED BY <1>1, <2>1
  <1>7. ASSUME n # 0 PROVE Digits(n) # << >>
    <2>1. n \in 1 .. n /\ n \div Base \in 0 .. n /\ n % Base \in Bytes
      BY <1>7, Quotient
    <2>2. D[n] = Append(D[n \div Base], n % Base) /\ D[n \div Base] \in Seq(Bytes)
      BY <1>1, <1>3, <2>1 DEF DigitsTo
    <2> QED BY <1>1, <2>1, <2>2, AppendProperties
  <1> QED BY <1>1, <1>3, <1>6, <1>7

-----------------------------------------------------------------------------
(* Certificates: tag, length and body                                     *)

\* The text s stands in buf from position pos on.
HeldAt(buf, pos, s) ==
  /\ pos \in Nat \ {0} /\ pos + Len(s) <= Len(buf) + 1
  /\ \A i \in 1 .. Len(s) : buf[pos + i - 1] = s[i]

\* Half of the base.
LEMMA HalfIsNat == Half \in Nat /\ 2 <= Half
  <1>1. Base \in Nat /\ Base > 3
    BY BaseAssumption
  <1> QED BY <1>1, SMT DEF Half

\* Three texts one after the other.
LEMMA ThreeTexts ==
  ASSUME NEW a \in Seq(Nat), NEW b \in Seq(Nat), NEW c \in Seq(Nat), NEW w, w = a \o b \o c
  PROVE  /\ w \in Seq(Nat)
         /\ Len(w) = Len(a) + Len(b) + Len(c)
         /\ \A i \in 1 .. Len(a) : w[i] = a[i]
         /\ \A i \in 1 .. Len(b) : w[Len(a) + i] = b[i]
         /\ \A i \in 1 .. Len(c) : w[Len(a) + Len(b) + i] = c[i]
  <1>1. /\ a \o b \in Seq(Nat) /\ Len(a \o b) = Len(a) + Len(b)
        /\ \A i \in 1 .. Len(a) + Len(b) :
             (a \o b)[i] = IF i <= Len(a) THEN a[i] ELSE b[i - Len(a)]
    BY ConcatProperties
  <1>2. Len(a) \in Nat /\ Len(b) \in Nat /\ Len(c) \in Nat
    OBVIOUS
  <1> DEFINE ab == a \o b
  <1>3. /\ ab \o c \in Seq(Nat) /\ Len(ab \o c) = Len(ab) + Len(c)
        /\ \A i \in 1 .. Len(ab) + Len(c) :
             (ab \o c)[i] = IF i <= Len(ab) THEN ab[i] ELSE c[i - Len(ab)]
    BY <1>1, ConcatProperties
  <1> QED BY <1>1, <1>2, <1>3

\* The bytes before a body: its tag and its length.
Preface(body) ==
  IF Len(body) < Half THEN <<Len(body)>>
  ELSE <<Half + Len(Digits(Len(body)))>> \o Digits(Len(body))

\* They are bytes, and the position after them.
LEMMA LengthBytes ==
  ASSUME NEW body \in Seq(Nat)
  PROVE  /\ Preface(body) \in Seq(Nat) /\ Len(Preface(body)) >= 1
         /\ Len(body) < Half => Len(Preface(body)) = 1 /\ Preface(body)[1] = Len(body)
         /\ ~(Len(body) < Half) =>
              /\ Len(Preface(body)) = 1 + Len(Digits(Len(body)))
              /\ Preface(body)[1] = Half + Len(Digits(Len(body)))
              /\ \A i \in 1 .. Len(Digits(Len(body))) : Preface(body)[i + 1] = Digits(Len(body))[i]
  <1> DEFINE n == Len(body)
             D == Digits(n)
  <1>1. n \in Nat
    OBVIOUS
  <1> HIDE DEF n
  <1>2. D \in Seq(Nat)
    BY <1>1, DigitsRoundTrip
  <1> HIDE DEF D
  <1>3. <<Half + Len(D)>> \in Seq(Nat) /\ <<n>> \in Seq(Nat) /\ Len(D) \in Nat
    BY <1>1, <1>2, HalfIsNat
  <1>4. /\ <<Half + Len(D)>> \o D \in Seq(Nat)
        /\ Len(<<Half + Len(D)>> \o D) = 1 + Len(D)
        /\ (<<Half + Len(D)>> \o D)[1] = Half + Len(D)
        /\ \A i \in 1 .. Len(D) : (<<Half + Len(D)>> \o D)[i + 1] = D[i]
    BY <1>2, <1>3
  <1>5. Preface(body) = IF n < Half THEN <<n>> ELSE <<Half + Len(D)>> \o D
    BY DEF Preface, n, D
  <1>6. CASE n < Half
    BY <1>3, <1>5, <1>6 DEF n, D
  <1>7. CASE ~(n < Half)
    BY <1>3, <1>4, <1>5, <1>7 DEF n, D
  <1> QED BY <1>6, <1>7

\* The encoding is tag, length and body.
LEMMA TagShape ==
  ASSUME NEW tag \in Nat, NEW body \in Seq(Nat)
  PROVE  /\ DerTag(tag, body) \in Seq(Nat)
         /\ Len(DerTag(tag, body)) = 1 + Len(Preface(body)) + Len(body)
         /\ DerTag(tag, body)[1] = tag
         /\ \A i \in 1 .. Len(Preface(body)) : DerTag(tag, body)[1 + i] = Preface(body)[i]
         /\ \A i \in 1 .. Len(body) : DerTag(tag, body)[1 + Len(Preface(body)) + i] = body[i]
  <1>1. DerTag(tag, body) = <<tag>> \o Preface(body) \o body
    BY DEF DerTag, Preface
  <1>2. Preface(body) \in Seq(Nat) /\ <<tag>> \in Seq(Nat) /\ Len(<<tag>>) = 1 /\ <<tag>>[1] = tag
    BY LengthBytes
  <1> QED BY <1>1, <1>2, ThreeTexts

\* A slice of the length of what is held there is that.
LEMMA SliceOfHeld ==
  ASSUME NEW buf \in Seq(Nat), NEW s \in Seq(Nat), NEW pos, HeldAt(buf, pos, s)
  PROVE  Slice(buf, pos, Len(s)) = s
  <1> DEFINE last == pos + Len(s) - 1
  <1>1. /\ pos \in Nat /\ pos >= 1 /\ Len(s) \in Nat /\ Len(buf) \in Nat
        /\ last \in Int /\ last <= Len(buf)
    BY DEF HeldAt
  <1>2. Slice(buf, pos, Len(s)) = SubSeq(buf, pos, last)
    BY <1>1 DEF Slice
  <1>3. /\ SubSeq(buf, pos, last) \in Seq(Nat) /\ Len(SubSeq(buf, pos, last)) = Len(s)
        /\ \A i \in 1 .. Len(s) : SubSeq(buf, pos, last)[i] = buf[pos + i - 1]
    BY <1>1
  <1>4. \A i \in 1 .. Len(s) : SubSeq(buf, pos, last)[i] = s[i]
    BY <1>3 DEF HeldAt
  <1> HIDE DEF last
  <1>5. SubSeq(buf, pos, last) = s
    BY <1>3, <1>4, SeqEqual
  <1> QED BY <1>2, <1>5

\* _read_len finds length and position of a body that is held with its tag.
LEMMA LengthIsRead ==
  ASSUME NEW buf \in Seq(Nat), NEW tag \in Nat, NEW body \in Seq(Nat), NEW pos,
         HeldAt(buf, pos, DerTag(tag, body))
  PROVE  /\ buf[pos] = tag
         /\ ReadLen(buf, pos + 1) = [length |-> Len(body), next |-> pos + 1 + Len(Preface(body))]
         /\ HeldAt(buf, pos + 1 + Len(Preface(body)), body)
  <1> DEFINE t == DerTag(tag, body)
             g == Preface(body)
             n == Len(body)
  <1>1. /\ Len(t) = 1 + Len(g) + n /\ t[1] = tag
        /\ \A i \in 1 .. Len(g) : t[1 + i] = g[i]
        /\ \A i \in 1 .. n : t[1 + Len(g) + i] = body[i]
    BY TagShape
  <1>2. /\ Len(g) \in Nat /\ Len(g) >= 1
        /\ n < Half => Len(g) = 1 /\ g[1] = n
        /\ ~(n < Half) => /\ Len(g) = 1 + Len(Digits(n)) /\ g[1] = Half + Len(Digits(n))
                          /\ \A i \in 1 .. Len(Digits(n)) : g[i + 1] = Digits(n)[i]
    <2>1. g \in Seq(Nat) /\ Len(g) >= 1
      BY LengthBytes
    <2>2. n < Half => Len(g) = 1 /\ g[1] = n
      BY LengthBytes, Zenon
    <2>3. ~(n < Half) => /\ Len(g) = 1 + Len(Digits(n)) /\ g[1] = Half + Len(Digits(n))
                         /\ \A i \in 1 .. Len(Digits(n)) : g[i + 1] = Digits(n)[i]
      BY LengthBytes, Zenon
    <2>4. Len(g) \in Nat
      <3> HIDE DEF g
      <3> QED BY <2>1
    <2> QED BY <2>1, <2>2, <2>3, <2>4
  <1>3. n \in Nat /\ Len(buf) \in Nat /\ Len(g) \in Nat /\ Len(g) >= 1
    BY <1>2
  <1>4. /\ pos \in Nat /\ pos >= 1 /\ pos + Len(t) <= Len(buf) + 1
        /\ \A i \in 1 .. Len(t) : buf[pos + i - 1] = t[i]
    BY DEF HeldAt
  <1> HIDE DEF t, g, n
  <1>5. buf[pos] = tag
    <2>1. 1 \in 1 .. Len(t) /\ pos + 1 - 1 = pos
      BY <1>1, <1>2, <1>3, <1>4
    <2> QED BY <1>1, <1>4, <2>1
  <1>6. \A i \in 1 .. Len(g) : buf[pos + i] = g[i]
    <2> TAKE i \in 1 .. Len(g)
    <2>1. 1 + i \in 1 .. Len(t) /\ pos + (1 + i) - 1 = pos + i
      BY <1>1, <1>2, <1>3, <1>4
    <2>2. buf[pos + (1 + i) - 1] = t[1 + i]
      BY <1>4, <2>1
    <2> QED BY <1>1, <2>1, <2>2
  <1>7. HeldAt(buf, pos + 1 + Len(g), body)
    <2>1. pos + 1 + Len(g) \in Nat \ {0} /\ pos + 1 + Len(g) + Len(body) <= Len(buf) + 1
      <3>1. Len(t) = 1 + Len(g) + Len(body) /\ Len(body) \in Nat
        BY <1>1, <1>3 DEF n
      <3>2. pos \in Nat /\ pos >= 1 /\ pos + Len(t) <= Len(buf) + 1
        BY <1>4
      <3> QED BY <1>3, <3>1, <3>2
    <2>2. ASSUME NEW i \in 1 .. Len(body)
          PROVE  buf[pos + 1 + Len(g) + i - 1] = body[i]
      <3>1. 1 + Len(g) + i \in 1 .. Len(t) /\ pos + (1 + Len(g) + i) - 1 = pos + 1 + Len(g) + i - 1
        BY <1>1, <1>2, <1>3, <1>4 DEF n
      <3>2. buf[pos + (1 + Len(g) + i) - 1] = t[1 + Len(g) + i]
        BY <1>4, <3>1
      <3>3. t[1 + Len(g) + i] = body[i]
        BY <1>1 DEF n
      <3> QED BY <3>1, <3>2, <3>3
    <2> QED BY <2>1, <2>2 DEF HeldAt
  <1>8. buf[pos + 1] = g[1]
    BY <1>2, <1>6
  <1>9. ReadLen(buf, pos + 1) = [length |-> n, next |-> pos + 1 + Len(g)]
    <2>1. CASE n < Half
      <3>1. g[1] = n /\ pos + 1 + 1 = pos + 1 + Len(g)
        BY <1>2, <2>1
      <3> QED BY <1>8, <2>1, <3>1 DEF ReadLen
    <2>2. CASE ~(n < Half)
      <3> DEFINE D == Digits(n)
      <3>1. D \in Seq(Nat) /\ Unsigned(D) = n /\ Len(D) \in Nat
        <4>1. D \in Seq(Nat) /\ Unsigned(D) = n
          BY <1>3, DigitsRoundTrip
        <4> HIDE DEF D
        <4> QED BY <4>1
      <3> HIDE DEF D
      <3>2. /\ g[1] = Half + Len(D) /\ Len(g) = 1 + Len(D)
            /\ \A i \in 1 .. Len(D) : g[i + 1] = D[i]
        BY <1>2, <2>2 DEF D
      <3>3. ~(g[1] < Half) /\ g[1] - Half = Len(D)
        BY <3>1, <3>2, HalfIsNat
      <3>4. HeldAt(buf, pos + 1 + 1, D)
        <4>1. pos + 1 + 1 \in Nat \ {0} /\ pos + 1 + 1 + Len(D) <= Len(buf) + 1
          <5>1. Len(t) = 1 + Len(g) + n /\ Len(g) = 1 + Len(D) /\ Len(D) \in Nat
            BY <1>1, <3>1, <3>2
          <5>2. pos \in Nat /\ pos + Len(t) <= Len(buf) + 1
            BY <1>4
          <5> QED BY <1>3, <5>1, <5>2
        <4>2. ASSUME NEW i \in 1 .. Len(D) PROVE buf[pos + 1 + 1 + i - 1] = D[i]
          <5>1. i + 1 \in 1 .. Len(g) /\ pos + 1 + 1 + i - 1 = pos + (i + 1)
            BY <1>4, <3>1, <3>2
          <5> QED BY <1>6, <3>2, <5>1
        <4> QED BY <4>1, <4>2 DEF HeldAt
      <3>5. Slice(buf, pos + 1 + 1, Len(D)) = D
        BY <3>1, <3>4, SliceOfHeld
      <3>6. ReadLen(buf, pos + 1) = [length |-> Unsigned(Slice(buf, pos + 1 + 1, Len(D))),
                                     next |-> pos + 1 + 1 + Len(D)]
        BY <1>8, <3>3 DEF ReadLen
      <3>7. pos + 1 + 1 + Len(D) = pos + 1 + Len(g)
        BY <1>4, <3>1, <3>2
      <3> QED BY <3>1, <3>5, <3>6, <3>7
    <2> QED BY <2>1, <2>2
  <1> QED BY <1>5, <1>7, <1>9 DEF g, n

\* What is not empty and stands at its own beginning.
LEMMA HeldInItself ==
  ASSUME NEW tag \in Nat, NEW body \in Seq(Nat)
  PROVE  /\ DerTag(tag, body) \in Seq(Nat) /\ DerTag(tag, body) # Empty
         /\ DerTag(tag, body)[1] = tag
         /\ HeldAt(DerTag(tag, body), 1, DerTag(tag, body))
  <1> DEFINE t == DerTag(tag, body)
  <1>1. t \in Seq(Nat) /\ t[1] = tag /\ Len(t) = 1 + Len(Preface(body)) + Len(body)
    BY TagShape
  <1> DEFINE g == Preface(body)
  <1>4. g \in Seq(Nat)
    BY LengthBytes
  <1>2. Len(Preface(body)) \in Nat /\ Len(body) \in Nat
    <2>1. Len(g) \in Nat
      <3> HIDE DEF g
      <3> QED BY <1>4
    <2> QED BY <2>1
  <1> HIDE DEF t
  <1>3. t # Empty /\ HeldAt(t, 1, t)
    BY <1>1, <1>2 DEF Empty, HeldAt
  <1> QED BY <1>1, <1>3 DEF t

\* Length and position of a body that is read from its beginning.
LEMMA LengthIsReadFirst ==
  ASSUME NEW tag \in Nat, NEW body \in Seq(Nat)
  PROVE  /\ ReadLen(DerTag(tag, body), 2) = [length |-> Len(body), next |-> 2 + Len(Preface(body))]
         /\ HeldAt(DerTag(tag, body), 2 + Len(Preface(body)), body)
         /\ Slice(DerTag(tag, body), ReadLen(DerTag(tag, body), 2).next,
                  ReadLen(DerTag(tag, body), 2).length) = body
  <1>1. PICK t : t = DerTag(tag, body)
    OBVIOUS
  <1>2. PICK pos : pos = 1
    OBVIOUS
  <1>3. t \in Seq(Nat) /\ HeldAt(t, pos, DerTag(tag, body))
    BY <1>1, <1>2, HeldInItself
  <1>4. /\ ReadLen(t, pos + 1) = [length |-> Len(body), next |-> pos + 1 + Len(Preface(body))]
        /\ HeldAt(t, pos + 1 + Len(Preface(body)), body)
    BY <1>3, LengthIsRead
  <1>5. Slice(t, pos + 1 + Len(Preface(body)), Len(body)) = body
    BY <1>3, <1>4, SliceOfHeld
  <1>6. pos + 1 = 2
    BY <1>2
  <1>7. /\ ReadLen(t, 2) = [length |-> Len(body), next |-> 2 + Len(Preface(body))]
        /\ HeldAt(t, 2 + Len(Preface(body)), body)
    BY <1>4, <1>6
  <1>8. Slice(t, ReadLen(t, 2).next, ReadLen(t, 2).length) = body
    BY <1>4, <1>5, <1>6
  <1> QED BY <1>1, <1>7, <1>8

\* msshd reads the text the CA wrote, however long it is (_der_utf8, _decode_der_utf8).
LEMMA TextIsRead ==
  ASSUME NEW text \in Seq(Nat)
  PROVE  DecodeUtf8(DerUtf8(text)) = text
  <1> DEFINE t == DerTag(Utf8Tag, text)
  <1>0. Utf8Tag \in Nat
    BY DEF Utf8Tag
  <1>1. /\ t \in Seq(Nat) /\ t # Empty /\ t[1] = Utf8Tag /\ HeldAt(t, 1, t)
    BY <1>0, HeldInItself
  <1>2. Slice(t, ReadLen(t, 2).next, ReadLen(t, 2).length) = text
    BY <1>0, LengthIsReadFirst
  <1>5. DecodeUtf8(t) = Slice(t, ReadLen(t, 2).next, ReadLen(t, 2).length)
    <2> HIDE DEF t
    <2> QED BY <1>1 DEF DecodeUtf8
  <1> HIDE DEF t
  <1>6. DecodeUtf8(t) = text
    BY <1>2, <1>5
  <1> QED BY <1>6 DEF DerUtf8, t

\* msshd reads the number the CA wrote (_der_int, _decode_der_integer).
LEMMA NumberIsRead ==
  ASSUME NEW n \in Nat
  PROVE  DecodeInteger(DerInt(n)) = n /\ DerInt(n) # Unencodable
  <1> DEFINE D == Digits(n)
             body == IF n = 0 THEN <<0>> ELSE IF D[1] >= Half THEN <<0>> \o D ELSE D
  <1>0. IntegerTag \in Nat
    BY DEF IntegerTag
  <1>1. D \in Seq(Nat) /\ Unsigned(D) = n /\ (n # 0 => D # << >>)
    BY DigitsRoundTrip
  <1>2. DerInt(n) = DerTag(IntegerTag, body)
    BY DEF DerInt
  <1> HIDE DEF D
  <1>3. body \in Seq(Nat) /\ body # Empty /\ Unsigned(body) = n /\ body[1] < Half
    <2>1. CASE n = 0
      <3>1. /\ <<0>> = <<0>> \o << >> /\ << >> \in Seq(Nat) /\ <<0>> \in Seq(Nat) /\ <<0>> # << >>
            /\ <<0>>[1] = 0
        OBVIOUS
      <3>2. Unsigned(<<0>>) = 0
        BY <3>1, UnsignedZeroFirst, UnsignedOfNone
      <3> QED BY <2>1, <3>1, <3>2, HalfIsNat DEF Empty
    <2>2. CASE n # 0 /\ D[1] >= Half
      <3>1. <<0>> \o D \in Seq(Nat) /\ Unsigned(<<0>> \o D) = n
        BY <1>1, UnsignedZeroFirst
      <3>2. <<0>> \o D # << >> /\ (<<0>> \o D)[1] = 0
        BY <1>1
      <3> QED BY <2>2, <3>1, <3>2, HalfIsNat DEF Empty
    <2>3. CASE n # 0 /\ ~(D[1] >= Half)
      <3>1. D # << >> /\ Len(D) \in Nat /\ Len(D) # 0
        BY <1>1, <2>3, EmptySeq
      <3>2. D[1] \in Nat
        BY <1>1, <3>1
      <3>3. D[1] < Half
        BY <2>3, <3>2, HalfIsNat
      <3> QED BY <1>1, <2>3, <3>1, <3>3 DEF Empty
    <2> QED BY <2>1, <2>2, <2>3
  <1> HIDE DEF body
  <1> DEFINE t == DerTag(IntegerTag, body)
  <1>4. /\ t \in Seq(Nat) /\ t # Empty /\ t[1] = IntegerTag /\ HeldAt(t, 1, t)
    BY <1>0, <1>3, HeldInItself
  <1>8. Slice(t, ReadLen(t, 2).next, ReadLen(t, 2).length) = body
    BY <1>0, <1>3, LengthIsReadFirst
  <1> HIDE DEF t
  <1>9. DecodeInteger(t) = Unsigned(body)
    BY <1>3, <1>4, <1>8 DEF DecodeInteger
  <1>10. t # Unencodable
    BY <1>4 DEF Unencodable
  <1> QED BY <1>2, <1>3, <1>9, <1>10 DEF t

\* The texts laid end to end, up to each of them.
LaidOut(F, seqs) ==
  /\ F \in [0 .. Len(seqs) -> Seq(Nat)]
  /\ F[0] = << >>
  /\ \A i \in 1 .. Len(seqs) : F[i] = F[i - 1] \o seqs[i]

\* FlattenSeq is the last of these.
LEMMA FlattenIsLast ==
  ASSUME NEW seqs \in Seq(Seq(Nat))
  PROVE  \E F : LaidOut(F, seqs) /\ FlattenSeq(seqs) = F[Len(seqs)]
  <1> DEFINE n == Len(seqs)
             V == Seq(Nat)
             d == [i \in 1 .. n |-> i - 1]
             h == [p \in (1 .. n) \X V |-> p[2] \o seqs[p[1]]]
  <1>1. n \in Nat /\ \A i \in 1 .. n : seqs[i] \in V
    OBVIOUS
  <1>2. d \in [1 .. n -> Nat] /\ \A i \in 1 .. n : d[i] <= i - 1 /\ d[i] = i - 1
    BY <1>1
  <1>3. \A x, y \in V : x \o y \in V
    BY ConcatProperties
  <1>4. << >> \in V /\ \A x \in V : << >> \o x = x
    OBVIOUS
  <1> HIDE DEF V, n
  <1>5. h \in [(1 .. n) \X V -> V]
    BY <1>1, <1>3
  <1>6. \A i \in 1 .. n, x \in V : h[<<i, x>>] = x \o seqs[i]
    OBVIOUS
  <1> HIDE DEF d, h
  <1>7. PICK F \in [0 .. n -> V] : Recursion(F, n, << >>, d, h)
    BY <1>1, <1>2, <1>4, <1>5, RecursionExists
  <1>8. F[0] = << >> /\ \A i \in 1 .. n : F[i] = F[i - 1] \o seqs[i]
    <2>1. F[0] = << >>
      BY <1>7 DEF Recursion
    <2>2. ASSUME NEW i \in 1 .. n PROVE F[i] = F[i - 1] \o seqs[i]
      <3>1. i - 1 \in 0 .. n /\ d[i] = i - 1
        BY <1>1, <1>2
      <3>2. F[i - 1] \in V
        BY <3>1
      <3>3. F[i] = h[<<i, F[i - 1]>>]
        BY <1>7, <3>1 DEF Recursion
      <3> QED BY <1>6, <3>2, <3>3
    <2> QED BY <2>1, <2>2
  <1>9. CASE n = 0
    <2>1. FlattenSeq(seqs) = seqs /\ seqs = << >>
      BY <1>9 DEF FlattenSeq, n
    <2> QED BY <1>8, <1>9, <2>1 DEF LaidOut, n, V
  <1>10. CASE n # 0
    <2> DEFINE Filled(f) == [i \in 1 .. n |-> IF i = 1 THEN seqs[i] ELSE f[i - 1] \o seqs[i]]
               W == CHOOSE f : f = Filled(f)
               G == [i \in 1 .. n |-> F[i]]
    <2>1. G = Filled(G)
      <3>1. ASSUME NEW i \in 1 .. n PROVE G[i] = Filled(G)[i]
        <4>1. CASE i = 1
          <5>1. 1 \in 1 .. n /\ 1 - 1 = 0
            BY <4>1
          <5>3. F[1] = F[0] \o seqs[1] /\ seqs[1] \in V
            BY <1>1, <1>8, <5>1
          <5>2. F[1] = seqs[1]
            BY <1>4, <1>8, <5>3
          <5> QED BY <4>1, <5>2
        <4>2. CASE i # 1
          <5>1. i - 1 \in 1 .. n
            BY <1>1, <4>2
          <5> QED BY <1>8, <4>2, <5>1
        <4> QED BY <4>1, <4>2
      <3>2. DOMAIN G = 1 .. n /\ DOMAIN Filled(G) = 1 .. n
        OBVIOUS
      <3>3. G = [i \in 1 .. n |-> G[i]] /\ Filled(G) = [i \in 1 .. n |-> Filled(G)[i]]
        OBVIOUS
      <3> HIDE DEF G, Filled
      <3> QED BY <3>1, <3>3
    <2> HIDE DEF G
    <2>2. W = Filled(W)
      BY <2>1
    <2>3. FlattenSeq(seqs) = W[n]
      BY <1>10 DEF FlattenSeq, n
    <2>4. \A i \in 1 .. n : W[i] = IF i = 1 THEN seqs[i] ELSE W[i - 1] \o seqs[i]
      <3>1. \A i \in 1 .. n : Filled(W)[i] = IF i = 1 THEN seqs[i] ELSE W[i - 1] \o seqs[i]
        <4> HIDE DEF W
        <4> QED OBVIOUS
      <3> HIDE DEF W, Filled
      <3> QED BY <2>2, <3>1
    <2> HIDE DEF W
    <2> DEFINE T == {i \in 0 .. n : i # 0 => W[i] = F[i]}
    <2>5. ASSUME NEW k \in 0 .. n, \A m \in 0 .. k - 1 : m \in T
          PROVE  k \in T
      <3>1. CASE k = 0
        BY <3>1
      <3>2. CASE k = 1
        <4>1. 1 \in 1 .. n /\ 1 - 1 = 0
          BY <3>2
        <4>2. F[1] = F[0] \o seqs[1] /\ seqs[1] \in V
          BY <1>1, <1>8, <4>1
        <4>3. F[1] = seqs[1]
          BY <1>4, <1>8, <4>2
        <4> QED BY <2>4, <3>2, <4>1, <4>3
      <3>3. CASE k # 0 /\ k # 1
        <4>1. k \in 1 .. n /\ k - 1 \in 0 .. k - 1 /\ k - 1 # 0
          BY <3>3
        <4>2. W[k - 1] = F[k - 1]
          BY <2>5, <4>1
        <4>3. W[k] = W[k - 1] \o seqs[k] /\ F[k] = F[k - 1] \o seqs[k]
          BY <1>8, <2>4, <3>3, <4>1
        <4> QED BY <4>2, <4>3
      <3> QED BY <3>1, <3>2, <3>3
    <2>6. T = 0 .. n
      <3>1. T \in SUBSET (0 .. n) OBVIOUS
      <3> HIDE DEF T
      <3> QED BY <1>1, <2>5, <3>1, NoLeast
    <2>7. n \in T
      BY <1>1, <2>6
    <2>8. FlattenSeq(seqs) = F[n]
      BY <1>10, <2>3, <2>7
    <2> QED BY <1>8, <2>8 DEF LaidOut, n, V
  <1> QED BY <1>9, <1>10

-----------------------------------------------------------------------------
(* Certificates: lists of texts                                           *)

\* What a text holds, a longer one holds at the same place.
LEMMA HeldLonger ==
  ASSUME NEW a \in Seq(Nat), NEW b \in Seq(Nat), NEW pos, NEW s \in Seq(Nat), HeldAt(a, pos, s)
  PROVE  HeldAt(a \o b, pos, s)
  <1>1. /\ a \o b \in Seq(Nat) /\ Len(a \o b) = Len(a) + Len(b)
        /\ \A i \in 1 .. Len(a) + Len(b) :
             (a \o b)[i] = IF i <= Len(a) THEN a[i] ELSE b[i - Len(a)]
    BY ConcatProperties
  <1>2. Len(a) \in Nat /\ Len(b) \in Nat /\ Len(s) \in Nat
    OBVIOUS
  <1>3. /\ pos \in Nat /\ pos >= 1 /\ pos + Len(s) <= Len(a) + 1
        /\ \A i \in 1 .. Len(s) : a[pos + i - 1] = s[i]
    BY DEF HeldAt
  <1> DEFINE ab == a \o b
  <1> HIDE DEF ab
  <1>4. ASSUME NEW i \in 1 .. Len(s) PROVE ab[pos + i - 1] = s[i]
    <2>3. pos \in Nat /\ pos >= 1 /\ pos + Len(s) <= Len(a) + 1
      BY <1>3
    <2>1. pos + i - 1 \in 1 .. Len(a) + Len(b) /\ pos + i - 1 <= Len(a)
      BY <1>2, <2>3
    <2>2. ab[pos + i - 1] = a[pos + i - 1]
      BY <1>1, <2>1 DEF ab
    <2> QED BY <1>3, <2>2
  <1>5. pos + Len(s) <= Len(ab) + 1
    BY <1>1, <1>2, <1>3 DEF ab
  <1> QED BY <1>3, <1>4, <1>5 DEF HeldAt, ab

\* What is put behind a text is held behind it.
LEMMA HeldBehind ==
  ASSUME NEW a \in Seq(Nat), NEW b \in Seq(Nat)
  PROVE  HeldAt(a \o b, Len(a) + 1, b) /\ Len(a \o b) = Len(a) + Len(b)
  <1>1. /\ a \o b \in Seq(Nat) /\ Len(a \o b) = Len(a) + Len(b)
        /\ \A i \in 1 .. Len(a) + Len(b) :
             (a \o b)[i] = IF i <= Len(a) THEN a[i] ELSE b[i - Len(a)]
    BY ConcatProperties
  <1>2. Len(a) \in Nat /\ Len(b) \in Nat
    OBVIOUS
  <1> DEFINE ab == a \o b
  <1> HIDE DEF ab
  <1>4. ASSUME NEW i \in 1 .. Len(b) PROVE ab[Len(a) + 1 + i - 1] = b[i]
    <2>1. /\ Len(a) + 1 + i - 1 = Len(a) + i /\ Len(a) + i \in 1 .. Len(a) + Len(b)
          /\ ~(Len(a) + i <= Len(a)) /\ Len(a) + i - Len(a) = i
      BY <1>2
    <2>2. ab[Len(a) + i] = b[Len(a) + i - Len(a)]
      BY <1>1, <2>1 DEF ab
    <2> QED BY <2>1, <2>2
  <1>5. Len(ab) = Len(a) + Len(b) /\ Len(a) + 1 \in Nat \ {0} /\ Len(a) + 1 + Len(b) <= Len(ab) + 1
    BY <1>1, <1>2 DEF ab
  <1> QED BY <1>4, <1>5 DEF HeldAt, ab

\* What is held in something held is held.
LEMMA HeldWithin ==
  ASSUME NEW buf, Len(buf) \in Nat, NEW s \in Seq(Nat), NEW u \in Seq(Nat), NEW pos, NEW p,
         HeldAt(buf, pos, s), HeldAt(s, p, u)
  PROVE  HeldAt(buf, pos + p - 1, u)
  <1>1. Len(s) \in Nat /\ Len(u) \in Nat
    OBVIOUS
  <1>2. /\ pos \in Nat /\ pos >= 1 /\ pos + Len(s) <= Len(buf) + 1
        /\ \A i \in 1 .. Len(s) : buf[pos + i - 1] = s[i]
    BY DEF HeldAt
  <1>3. /\ p \in Nat /\ p >= 1 /\ p + Len(u) <= Len(s) + 1
        /\ \A i \in 1 .. Len(u) : s[p + i - 1] = u[i]
    BY DEF HeldAt
  <1>4. ASSUME NEW i \in 1 .. Len(u) PROVE buf[pos + p - 1 + i - 1] = u[i]
    <2>1. p + i - 1 \in 1 .. Len(s) /\ pos + (p + i - 1) - 1 = pos + p - 1 + i - 1
      BY <1>1, <1>2, <1>3
    <2>2. buf[pos + (p + i - 1) - 1] = s[p + i - 1]
      BY <1>2, <2>1
    <2> QED BY <1>3, <2>1, <2>2
  <1>5. pos + p - 1 \in Nat \ {0} /\ pos + p - 1 + Len(u) <= Len(buf) + 1
    BY <1>1, <1>2, <1>3
  <1> QED BY <1>4, <1>5 DEF HeldAt

\* Texts laid end to end are each held, where those before it end.
LEMMA LaidOutHolds ==
  ASSUME NEW seqs \in Seq(Seq(Nat)), NEW F, LaidOut(F, seqs)
  PROVE  \A j \in 0 .. Len(seqs) : \A i \in 1 .. j :
           /\ HeldAt(F[j], Len(F[i - 1]) + 1, seqs[i])
           /\ Len(F[i]) = Len(F[i - 1]) + Len(seqs[i])
  <1> DEFINE N == Len(seqs)
             Good(j) == \A i \in 1 .. j :
                          /\ HeldAt(F[j], Len(F[i - 1]) + 1, seqs[i])
                          /\ Len(F[i]) = Len(F[i - 1]) + Len(seqs[i])
             J == {j \in 0 .. N : Good(j)}
  <1>1. N \in Nat /\ \A i \in 1 .. N : seqs[i] \in Seq(Nat)
    OBVIOUS
  <1>2. /\ \A i \in 0 .. N : F[i] \in Seq(Nat)
        /\ \A i \in 1 .. N : F[i] = F[i - 1] \o seqs[i]
    BY DEF LaidOut
  <1> HIDE DEF N
  <1>3. ASSUME NEW k \in 0 .. N, \A m \in 0 .. k - 1 : m \in J PROVE k \in J
    <2>1. ASSUME NEW i \in 1 .. k
          PROVE  HeldAt(F[k], Len(F[i - 1]) + 1, seqs[i]) /\ Len(F[i]) = Len(F[i - 1]) + Len(seqs[i])
      <3>1. k \in 1 .. N /\ k - 1 \in 0 .. k - 1 /\ k - 1 \in 0 .. N /\ i \in 1 .. N
        BY <1>1
      <3>2. F[k] = F[k - 1] \o seqs[k] /\ F[k - 1] \in Seq(Nat) /\ seqs[k] \in Seq(Nat)
            /\ seqs[i] \in Seq(Nat)
        BY <1>1, <1>2, <3>1
      <3>3. CASE i = k
        <4>1. HeldAt(F[k - 1] \o seqs[k], Len(F[k - 1]) + 1, seqs[k])
              /\ Len(F[k - 1] \o seqs[k]) = Len(F[k - 1]) + Len(seqs[k])
          BY <3>2, HeldBehind
        <4> QED BY <3>2, <3>3, <4>1
      <3>4. CASE i # k
        <4>1. i \in 1 .. k - 1
          BY <3>1, <3>4
        <4>4. Good(k - 1)
          BY <1>3, <3>1
        <4>2. HeldAt(F[k - 1], Len(F[i - 1]) + 1, seqs[i]) /\ Len(F[i]) = Len(F[i - 1]) + Len(seqs[i])
          BY <4>1, <4>4
        <4>3. HeldAt(F[k - 1] \o seqs[k], Len(F[i - 1]) + 1, seqs[i])
          BY <3>2, <4>2, HeldLonger
        <4> QED BY <3>2, <4>2, <4>3
      <3> QED BY <3>3, <3>4
    <2> QED BY <2>1
  <1>4. J = 0 .. N
    <2>1. J \in SUBSET (0 .. N)
      OBVIOUS
    <2> HIDE DEF J
    <2> QED BY <1>1, <1>3, <2>1, NoLeast
  <1> QED BY <1>4 DEF N

\* Texts of a byte at least take a byte each.
LEMMA LaidOutGrows ==
  ASSUME NEW seqs \in Seq(Seq(Nat)), NEW F, LaidOut(F, seqs),
         \A i \in 1 .. Len(seqs) : Len(seqs[i]) >= 1
  PROVE  \A j \in 0 .. Len(seqs) : Len(F[j]) >= j /\ Len(F[j]) \in Nat
  <1> DEFINE N == Len(seqs)
             J == {j \in 0 .. N : Len(F[j]) >= j}
  <1>1. N \in Nat /\ \A i \in 1 .. N : seqs[i] \in Seq(Nat)
    OBVIOUS
  <1>2. \A i \in 0 .. N : F[i] \in Seq(Nat)
    BY DEF LaidOut
  <1>3. \A i \in 0 .. N : Len(F[i]) \in Nat
    BY <1>2
  <1>4. F[0] = << >>
    BY DEF LaidOut
  <1>5. \A i \in 1 .. N : Len(F[i]) = Len(F[i - 1]) + Len(seqs[i])
    <2> TAKE i \in 1 .. N
    <2>1. i \in 0 .. N /\ i \in 1 .. i
      OBVIOUS
    <2> QED BY <2>1, LaidOutHolds
  <1>6. \A i \in 1 .. N : Len(seqs[i]) \in Nat /\ Len(seqs[i]) >= 1
    BY <1>1
  <1> HIDE DEF N
  <1>7. ASSUME NEW k \in 0 .. N, \A m \in 0 .. k - 1 : m \in J PROVE k \in J
    <2>1. CASE k = 0
      BY <1>4, <2>1
    <2>2. CASE k # 0
      <3>1. k \in 1 .. N /\ k - 1 \in 0 .. k - 1 /\ k - 1 \in 0 .. N
        BY <1>1, <2>2
      <3>2. Len(F[k - 1]) >= k - 1
        BY <1>7, <3>1
      <3>3. Len(F[k]) = Len(F[k - 1]) + Len(seqs[k]) /\ Len(F[k - 1]) \in Nat
            /\ Len(seqs[k]) \in Nat /\ Len(seqs[k]) >= 1
        BY <1>3, <1>5, <1>6, <3>1
      <3>5. k \in Nat
        BY <1>1
      <3>4. Len(F[k]) >= k
        <4> DEFINE a == Len(F[k - 1])
                   b == Len(seqs[k])
                   c == Len(F[k])
        <4>1. c = a + b /\ a \in Nat /\ b \in Nat /\ b >= 1 /\ a >= k - 1
          BY <3>2, <3>3
        <4> HIDE DEF a, b, c
        <4>2. c >= k
          BY <3>5, <4>1
        <4> QED BY <4>2 DEF c
      <3> QED BY <3>4
    <2> QED BY <2>1, <2>2
  <1>8. J = 0 .. N
    <2>1. J \in SUBSET (0 .. N)
      OBVIOUS
    <2> HIDE DEF J
    <2> QED BY <1>1, <1>7, <2>1, NoLeast
  <1> QED BY <1>3, <1>8 DEF N

\* The loop of _decode_der_seq_utf8, wherever its turns are known.
Turns(L, first, buf, end) ==
  LET Loop[k \in 0 .. L] == IF k = 0 THEN first ELSE MemberRead(buf, end, Loop[k - 1])
  IN Loop[L]

\* As many turns as there are lead where any function that takes the same turns leads.
LEMMA LoopIs ==
  ASSUME NEW L \in Nat, NEW first, NEW buf, NEW end, NEW G,
         G = [k \in 0 .. L |-> IF k = 0 THEN first ELSE MemberRead(buf, end, G[k - 1])]
  PROVE  Turns(L, first, buf, end) = G[L]
  <1> DEFINE Filled(f) == [k \in 0 .. L |-> IF k = 0 THEN first ELSE MemberRead(buf, end, f[k - 1])]
             W == CHOOSE f : f = Filled(f)
             J == {k \in 0 .. L : W[k] = G[k]}
  <1>1. G = Filled(G)
    OBVIOUS
  <1>2. W = Filled(W)
    <2> HIDE DEF Filled
    <2> QED BY <1>1
  <1>3. \A k \in 0 .. L : W[k] = IF k = 0 THEN first ELSE MemberRead(buf, end, W[k - 1])
    <2>1. \A k \in 0 .. L : Filled(W)[k] = IF k = 0 THEN first ELSE MemberRead(buf, end, W[k - 1])
      <3> HIDE DEF W
      <3> QED OBVIOUS
    <2> HIDE DEF W, Filled
    <2> QED BY <1>2, <2>1
  <1>4. \A k \in 0 .. L : G[k] = IF k = 0 THEN first ELSE MemberRead(buf, end, G[k - 1])
    <2>1. \A k \in 0 .. L : Filled(G)[k] = IF k = 0 THEN first ELSE MemberRead(buf, end, G[k - 1])
      OBVIOUS
    <2> HIDE DEF Filled
    <2> QED BY <1>1, <2>1
  <1>5. ASSUME NEW k \in 0 .. L, \A m \in 0 .. k - 1 : m \in J PROVE k \in J
    <2> HIDE DEF W
    <2>1. CASE k = 0
      BY <1>3, <1>4, <2>1
    <2>2. CASE k # 0
      <3>2. k - 1 \in 0 .. k - 1
        BY <2>2
      <3>1. W[k - 1] = G[k - 1]
        BY <1>5, <3>2
      <3> QED BY <1>3, <1>4, <2>2, <3>1
    <2> QED BY <2>1, <2>2
  <1>6. J = 0 .. L
    <2>1. J \in SUBSET (0 .. L)
      OBVIOUS
    <2> HIDE DEF J
    <2> QED BY <1>5, <2>1, NoLeast
  <1>7. W[L] = G[L]
    BY <1>6
  <1> QED BY <1>7 DEF Turns

\* The members of a list of texts, each written with its tag.
Members(texts) == [i \in DOMAIN texts |-> DerUtf8(texts[i])]

\* They are texts, of a byte at least.
LEMMA MembersAreTexts ==
  ASSUME NEW texts \in Seq(Seq(Nat))
  PROVE  /\ Members(texts) \in Seq(Seq(Nat)) /\ Len(Members(texts)) = Len(texts)
         /\ \A i \in 1 .. Len(texts) :
              /\ texts[i] \in Seq(Nat) /\ Members(texts)[i] = DerTag(Utf8Tag, texts[i])
              /\ Len(Members(texts)[i]) = 1 + Len(Preface(texts[i])) + Len(texts[i])
              /\ Len(Members(texts)[i]) >= 1
  <1> DEFINE n == Len(texts)
  <1>1. n \in Nat /\ DOMAIN texts = 1 .. n /\ \A i \in 1 .. n : texts[i] \in Seq(Nat)
    OBVIOUS
  <1>2. Members(texts) = [i \in 1 .. n |-> DerUtf8(texts[i])]
    BY <1>1 DEF Members
  <1> HIDE DEF n
  <1>3. \A i \in 1 .. n : /\ DerUtf8(texts[i]) = DerTag(Utf8Tag, texts[i])
                          /\ DerUtf8(texts[i]) \in Seq(Nat)
                          /\ Len(DerUtf8(texts[i])) = 1 + Len(Preface(texts[i])) + Len(texts[i])
                          /\ Len(DerUtf8(texts[i])) >= 1
    <2> TAKE i \in 1 .. n
    <2>1. texts[i] \in Seq(Nat) /\ Utf8Tag \in Nat
      BY <1>1 DEF Utf8Tag
    <2>2. DerUtf8(texts[i]) = DerTag(Utf8Tag, texts[i])
      BY DEF DerUtf8
    <2>3. /\ DerTag(Utf8Tag, texts[i]) \in Seq(Nat) /\ DerTag(Utf8Tag, texts[i]) # Empty
          /\ Len(DerTag(Utf8Tag, texts[i])) = 1 + Len(Preface(texts[i])) + Len(texts[i])
      BY <2>1, TagShape, HeldInItself
    <2> DEFINE t == DerTag(Utf8Tag, texts[i])
    <2> HIDE DEF t
    <2>4. t \in Seq(Nat) /\ t # Empty
      BY <2>3 DEF t
    <2>5. Len(t) >= 1
      <3>1. Len(t) \in Nat /\ Len(t) # 0
        BY <2>4, EmptySeq DEF Empty
      <3> QED BY <3>1
    <2> QED BY <2>2, <2>3, <2>5 DEF t
  <1> DEFINE ms == [i \in 1 .. n |-> DerUtf8(texts[i])]
  <1>4. ms \in Seq(Seq(Nat)) /\ Len(ms) = n
    <2>1. ms \in [1 .. n -> Seq(Nat)]
      BY <1>3
    <2> HIDE DEF ms
    <2>2. ms \in Seq(Seq(Nat))
      BY <1>1, <2>1
    <2> QED BY <1>1, <2>1, <2>2
  <1>5. \A i \in 1 .. n : ms[i] = DerUtf8(texts[i])
    OBVIOUS
  <1> HIDE DEF ms
  <1>6. Members(texts) = ms
    BY <1>2 DEF ms
  <1> QED BY <1>1, <1>3, <1>4, <1>5, <1>6 DEF n

\* One turn of the loop at a member takes it and stands behind it.
LEMMA OneMember ==
  ASSUME NEW buf \in Seq(Nat), NEW text \in Seq(Nat), NEW pos, NEW end, NEW out,
         HeldAt(buf, pos, DerTag(Utf8Tag, text)), ~(pos >= end),
         NEW next, next = pos + (1 + Len(Preface(text)) + Len(text)),
         NEW before, before = [pos |-> pos, out |-> out],
         NEW after, after = [pos |-> next, out |-> Append(out, text)]
  PROVE  MemberRead(buf, end, before) = after
  <1> DEFINE g == Len(Preface(text))
             loop == [pos |-> pos, out |-> out]
  <1>1. Utf8Tag \in Nat
    BY DEF Utf8Tag
  <1>2. /\ buf[pos] = Utf8Tag
        /\ ReadLen(buf, pos + 1) = [length |-> Len(text), next |-> pos + 1 + Len(Preface(text))]
        /\ HeldAt(buf, pos + 1 + Len(Preface(text)), text)
    BY <1>1, LengthIsRead
  <1>3. Slice(buf, pos + 1 + Len(Preface(text)), Len(text)) = text
    BY <1>2, SliceOfHeld
  <1>4. g \in Nat /\ pos \in Nat /\ Len(text) \in Nat
    <2>1. Preface(text) \in Seq(Nat)
      BY LengthBytes
    <2> DEFINE hd == Preface(text)
    <2>2. Len(hd) \in Nat
      <3>1. hd \in Seq(Nat) BY <2>1
      <3> HIDE DEF hd
      <3> QED BY <3>1
    <2> QED BY <2>2 DEF HeldAt
  <1> HIDE DEF g
  <1>5. ReadLen(buf, pos + 1) = [length |-> Len(text), next |-> pos + 1 + g]
        /\ Slice(buf, pos + 1 + g, Len(text)) = text
    BY <1>2, <1>3 DEF g
  <1>6. loop.pos = pos /\ loop.out = out
    OBVIOUS
  <1> HIDE DEF loop
  <1>9. ~(loop.pos >= end \/ buf[loop.pos] # Utf8Tag)
    BY <1>2, <1>6
  <1>7. MemberRead(buf, end, loop) = [pos |-> (pos + 1 + g) + Len(text), out |-> Append(out, text)]
    <2> DEFINE one == ReadLen(buf, loop.pos + 1)
    <2>1. one.length = Len(text) /\ one.next = pos + 1 + g
      BY <1>5, <1>6
    <2>2. MemberRead(buf, end, loop) =
            [pos |-> one.next + one.length,
             out |-> Append(loop.out, Slice(buf, one.next, one.length))]
      BY <1>9, Zenon DEF MemberRead
    <2> HIDE DEF one
    <2> QED BY <1>5, <1>6, <2>1, <2>2
  <1>8. (pos + 1 + g) + Len(text) = pos + (1 + g + Len(text))
    BY <1>4
  <1> QED BY <1>7, <1>8 DEF loop, g

\* At the end of the body a turn of the loop changes nothing.
LEMMA NoMember ==
  ASSUME NEW buf, NEW pos, NEW end, NEW out, pos >= end
  PROVE  MemberRead(buf, end, [pos |-> pos, out |-> out]) = [pos |-> pos, out |-> out]
  BY DEF MemberRead

\* msshd reads the texts the CA wrote, in their order (_der_seq_utf8,
\* _decode_der_seq_utf8).
LEMMA SequenceIsRead ==
  ASSUME NEW texts \in Seq(Seq(Nat))
  PROVE  DecodeSequence(DerSequence(texts)) = texts
  <1> DEFINE n == Len(texts)
             ms == Members(texts)
  <1>1. n \in Nat /\ \A i \in 1 .. n : texts[i] \in Seq(Nat)
    OBVIOUS
  <1>2. /\ ms \in Seq(Seq(Nat)) /\ Len(ms) = n
        /\ \A i \in 1 .. n : /\ ms[i] = DerTag(Utf8Tag, texts[i])
                             /\ Len(ms[i]) = 1 + Len(Preface(texts[i])) + Len(texts[i])
                             /\ Len(ms[i]) >= 1
    BY MembersAreTexts
  <1>3. DerSequence(texts) = DerTag(SequenceTag, FlattenSeq(ms))
    BY DEF DerSequence, Members
  <1> HIDE DEF ms, n
  <1>4. PICK F : LaidOut(F, ms) /\ FlattenSeq(ms) = F[n]
    BY <1>2, FlattenIsLast
  <1>5. F \in [0 .. n -> Seq(Nat)] /\ F[0] = << >>
    BY <1>2, <1>4 DEF LaidOut
  <1>6. /\ \A i \in 1 .. n : HeldAt(F[n], Len(F[i - 1]) + 1, ms[i])
        /\ \A i \in 1 .. n : Len(F[i]) = Len(F[i - 1]) + Len(ms[i])
    <2>1. \A j \in 0 .. n : \A i \in 1 .. j :
            HeldAt(F[j], Len(F[i - 1]) + 1, ms[i]) /\ Len(F[i]) = Len(F[i - 1]) + Len(ms[i])
      BY <1>2, <1>4, LaidOutHolds
    <2>2. n \in 0 .. n
      BY <1>1
    <2> QED BY <2>1, <2>2
  <1>7. \A i \in 0 .. n : Len(F[i]) >= i /\ Len(F[i]) \in Nat
    BY <1>2, <1>4, LaidOutGrows
  <1> DEFINE body == F[n]
             t == DerTag(SequenceTag, body)
             base == 2 + Len(Preface(body))
  <1>8. body \in Seq(Nat) /\ Len(body) >= n /\ Len(body) \in Nat
    BY <1>1, <1>5, <1>7
  <1> HIDE DEF body
  <1>9. SequenceTag \in Nat
    BY DEF SequenceTag
  <1>10. /\ t \in Seq(Nat) /\ t # Empty /\ t[1] = SequenceTag /\ HeldAt(t, 1, t)
         /\ Len(t) = 1 + Len(Preface(body)) + Len(body)
    BY <1>8, <1>9, HeldInItself, TagShape
  <1>11. /\ ReadLen(t, 2).length = Len(body) /\ ReadLen(t, 2).next = base
         /\ HeldAt(t, base, body)
    BY <1>8, <1>9, LengthIsReadFirst
  <1>12. base \in Nat /\ Len(t) \in Nat /\ Len(t) >= n
    <2> DEFINE hd == Preface(body)
    <2>1. hd \in Seq(Nat)
      BY <1>8, LengthBytes
    <2>2. Len(hd) \in Nat
      <3> HIDE DEF hd
      <3> QED BY <2>1
    <2> HIDE DEF t
    <2> QED BY <1>1, <1>8, <1>10, <2>2
  <1> HIDE DEF t, base
  <1> DEFINE end == base + Len(body)
             L == Len(t)
             At(k) == [pos |-> base + Len(F[k]), out |-> SubSeq(texts, 1, k)]
             G == [k \in 0 .. L |-> IF k <= n THEN At(k) ELSE At(n)]
             first == [pos |-> base, out |-> Empty]
  <1>13. At(0) = first
    BY <1>5, <1>12 DEF Empty
  <1>14. ASSUME NEW k \in 1 .. n PROVE At(k) = MemberRead(t, end, At(k - 1))
    <2>1. k - 1 \in 0 .. n /\ k \in 0 .. n /\ k \in Nat
      BY <1>1
    <2>2. HeldAt(body, Len(F[k - 1]) + 1, ms[k]) /\ Len(F[k]) = Len(F[k - 1]) + Len(ms[k])
      BY <1>6 DEF body
    <2> DEFINE p == base + Len(F[k - 1])
    <2>10. ms[k] \in Seq(Nat) /\ Len(ms[k]) >= 1
      <3>1. ms \in Seq(Seq(Nat)) /\ k \in 1 .. Len(ms)
        BY <1>2
      <3>2. Len(ms[k]) >= 1
        BY <1>2
      <3> QED BY <3>1, <3>2
    <2>11. Len(F[k - 1]) \in Nat /\ Len(F[k]) \in Nat
      BY <1>7, <2>1
    <2>3. /\ Len(F[k - 1]) \in Nat /\ Len(F[k]) \in Nat /\ ms[k] \in Seq(Nat)
          /\ Len(ms[k]) \in Nat /\ Len(ms[k]) >= 1
      BY <2>10, <2>11
    <2>4. HeldAt(t, p, ms[k])
      <3>1. HeldAt(t, base + (Len(F[k - 1]) + 1) - 1, ms[k])
        BY <1>8, <1>11, <1>12, <2>2, <2>3, HeldWithin
      <3>2. base + (Len(F[k - 1]) + 1) - 1 = p
        BY <1>12, <2>3
      <3> QED BY <3>1, <3>2
    <2>5. ~(p >= end)
      <3> DEFINE a == Len(F[k - 1])
                 m == Len(ms[k])
                 l == Len(body)
      <3>1. a + 1 + m <= l + 1 /\ a \in Nat /\ m \in Nat /\ m >= 1 /\ l \in Nat
        BY <1>8, <2>2, <2>3 DEF HeldAt
      <3> HIDE DEF a, m, l
      <3>2. ~(base + a >= base + l)
        BY <1>12, <3>1
      <3> QED BY <3>2 DEF a, l
    <2>6. /\ ms[k] = DerTag(Utf8Tag, texts[k]) /\ texts[k] \in Seq(Nat)
          /\ Len(ms[k]) = 1 + Len(Preface(texts[k])) + Len(texts[k])
      BY <1>1, <1>2
    <2> HIDE DEF p, end
    <2>7. MemberRead(t, end, [pos |-> p, out |-> SubSeq(texts, 1, k - 1)])
            = [pos |-> p + Len(ms[k]), out |-> Append(SubSeq(texts, 1, k - 1), texts[k])]
      <3>1. t \in Seq(Nat) /\ texts[k] \in Seq(Nat) /\ ~(p >= end)
            /\ HeldAt(t, p, DerTag(Utf8Tag, texts[k]))
        BY <1>10, <2>4, <2>5, <2>6
      <3> DEFINE x == texts[k]
                 o == SubSeq(texts, 1, k - 1)
                 q == p + Len(ms[k])
                 before == [pos |-> p, out |-> o]
                 after == [pos |-> q, out |-> Append(o, x)]
      <3>2. q = p + (1 + Len(Preface(x)) + Len(x))
        BY <2>6
      <3> HIDE DEF x, o, q
      <3>3. before = [pos |-> p, out |-> o] /\ after = [pos |-> q, out |-> Append(o, x)]
        OBVIOUS
      <3> HIDE DEF before, after
      <3>4. t \in Seq(Nat) /\ x \in Seq(Nat) /\ ~(p >= end) /\ HeldAt(t, p, DerTag(Utf8Tag, x))
        BY <3>1 DEF x
      <3>5. MemberRead(t, end, before) = after
        BY <3>2, <3>3, <3>4, OneMember
      <3> QED BY <3>5 DEF x, o, q, before, after
    <2>8. Append(SubSeq(texts, 1, k - 1), texts[k]) = SubSeq(texts, 1, k)
      BY <1>1, <2>1 DEF n
    <2>9. p + Len(ms[k]) = base + Len(F[k])
      <3> DEFINE a == Len(F[k - 1])
                 m == Len(ms[k])
                 c == Len(F[k])
      <3>1. c = a + m /\ a \in Nat /\ m \in Nat
        BY <2>2, <2>3
      <3> HIDE DEF a, m, c
      <3>2. base + a + m = base + c
        BY <1>12, <3>1
      <3> QED BY <3>2 DEF a, m, c, p
    <2> QED BY <2>7, <2>8, <2>9 DEF p
  <1>15. At(n) = MemberRead(t, end, At(n))
    <2>1. base + Len(F[n]) >= end
      BY <1>8, <1>12 DEF body
    <2> HIDE DEF end
    <2> QED BY <2>1, NoMember
  <1> HIDE DEF At, end, first
  <1>16. G = [k \in 0 .. L |-> IF k = 0 THEN first ELSE MemberRead(t, end, G[k - 1])]
    <2>1. ASSUME NEW k \in 0 .. L
          PROVE  G[k] = IF k = 0 THEN first ELSE MemberRead(t, end, G[k - 1])
      <3>1. CASE k = 0
        BY <1>1, <1>12, <1>13, <3>1
      <3>2. CASE k # 0 /\ k <= n
        <4>1. k \in 1 .. n /\ k - 1 \in 0 .. L /\ k - 1 <= n
          BY <1>1, <1>12, <3>2
        <4>2. G[k] = At(k) /\ G[k - 1] = At(k - 1)
          BY <3>2, <4>1
        <4> HIDE DEF G
        <4> QED BY <1>14, <3>2, <4>1, <4>2
      <3>3. CASE k # 0 /\ ~(k <= n)
        <4>1. k - 1 \in 0 .. L /\ (k - 1 <= n => k - 1 = n)
          BY <1>1, <1>12, <3>3
        <4>2. G[k] = At(n) /\ G[k - 1] = At(n)
          BY <3>3, <4>1
        <4> HIDE DEF G
        <4> QED BY <1>15, <3>3, <4>2
      <3> QED BY <3>1, <3>2, <3>3
    <2>2. G = [k \in 0 .. L |-> G[k]]
      OBVIOUS
    <2> HIDE DEF G
    <2> QED BY <2>1, <2>2
  <1>17. G[L] = At(n)
    <2>1. L \in 0 .. L /\ (L <= n => L = n)
      BY <1>1, <1>12
    <2> QED BY <2>1
  <1> HIDE DEF G
  <1>18. DecodeSequence(t) = G[L].out
    <2>1. Turns(L, first, t, end) = G[L]
      <3>1. L \in Nat
        BY <1>12
      <3> HIDE DEF L
      <3> QED BY <1>16, <3>1, LoopIs
    <2>2. DecodeSequence(t) =
            Turns(Len(t), [pos |-> ReadLen(t, 2).next, out |-> Empty], t,
                  ReadLen(t, 2).next + ReadLen(t, 2).length).out
      BY <1>10 DEF DecodeSequence, Turns
    <2> QED BY <1>11, <2>1, <2>2 DEF end, first
  <1>19. SubSeq(texts, 1, n) = texts
    BY DEF n
  <1>20. DecodeSequence(t) = texts
    BY <1>17, <1>18, <1>19 DEF At
  <1> QED BY <1>3, <1>4, <1>20 DEF t, body

-----------------------------------------------------------------------------
(* Certificates: channels and environment                                 *)

\* The list of a finite set has its members, each of them once.
LEMMA SetIsListed ==
  ASSUME NEW S, IsFiniteSet(S)
  PROVE  /\ SetToSeq(S) \in Seq(S)
         /\ \A x \in S : \E i \in 1 .. Len(SetToSeq(S)) : SetToSeq(S)[i] = x
         /\ ToSet(SetToSeq(S)) = S
  <1> DEFINE n == Cardinality(S)
             s == SetToSeq(S)
  <1>1. n \in Nat /\ ExistsBijection(1 .. n, S)
    BY FS_CardinalityType
  <1> HIDE DEF n
  <1>2. s = CHOOSE f \in [1 .. n -> S] : IsInjective(f)
    BY DEF SetToSeq, n
  <1>3. \E f \in [1 .. n -> S] : IsInjective(f)
    BY <1>1 DEF ExistsBijection, Bijection, Injection
  <1>4. s \in [1 .. n -> S] /\ IsInjective(s)
    <2> HIDE DEF s
    <2> QED BY <1>2, <1>3
  <1>5. s \in Injection(1 .. n, S)
    BY <1>4 DEF Injection
  <1>6. IsFiniteSet(1 .. n) /\ Cardinality(1 .. n) = n
    BY <1>1, FS_Interval
  <1> HIDE DEF s
  <1>7. s \in Surjection(1 .. n, S)
    BY <1>5, <1>6, FS_Injection DEF n
  <1>8. \A x \in S : \E i \in 1 .. n : s[i] = x
    BY <1>7 DEF Surjection
  <1>9. s \in Seq(S) /\ Len(s) = n
    BY <1>1, <1>4
  <1>10. ToSet(s) = S
    BY <1>4, <1>8 DEF ToSet
  <1> QED BY <1>8, <1>9, <1>10 DEF s

\* A part of a text from one place to another.
LEMMA PartOf ==
  ASSUME NEW s \in Seq(Nat), NEW m \in Nat \ {0}, NEW n \in Nat, m <= n + 1, n <= Len(s),
         NEW l \in Nat, l = n - m + 1
  PROVE  /\ SubSeq(s, m, n) \in Seq(Nat) /\ Len(SubSeq(s, m, n)) = l
         /\ \A i \in 1 .. l : SubSeq(s, m, n)[i] = s[m + i - 1]
  <1>1. \A i \in m .. n : s[i] \in Nat
    OBVIOUS
  <1>2. /\ SubSeq(s, m, n) \in Seq(Nat)
        /\ Len(SubSeq(s, m, n)) = IF m <= n THEN n - m + 1 ELSE 0
        /\ \A i \in 1 .. n - m + 1 : SubSeq(s, m, n)[i] = s[m + i - 1]
    BY <1>1, SubSeqProperties
  <1>3. (IF m <= n THEN n - m + 1 ELSE 0) = l
    OBVIOUS
  <1> QED BY <1>2, <1>3

\* The equals sign that the writer put in is the first, when the name has none.
LEMMA EntryIsSplit ==
  ASSUME NEW key \in Seq(Nat), NEW value \in Seq(Nat), ~ Contains(key, Equals)
  PROVE  /\ key \o <<Equals>> \o value \in Seq(Nat)
         /\ Contains(key \o <<Equals>> \o value, Equals)
         /\ SplitEntry(key \o <<Equals>> \o value) = [key |-> key, value |-> value]
  <1> DEFINE e == key \o <<Equals>> \o value
             k == Len(key)
             v == Len(value)
  <1>1. <<Equals>> \in Seq(Nat) /\ Len(<<Equals>>) = 1 /\ <<Equals>>[1] = Equals
    BY DEF Equals
  <1>2. k \in Nat /\ v \in Nat
    OBVIOUS
  <1>3. /\ e \in Seq(Nat) /\ Len(e) = k + 1 + v
        /\ \A i \in 1 .. k : e[i] = key[i]
        /\ \A i \in 1 .. 1 : e[k + i] = <<Equals>>[i]
        /\ \A i \in 1 .. v : e[k + 1 + i] = value[i]
    <2>1. PICK b : b = <<Equals>>
      OBVIOUS
    <2>2. b \in Seq(Nat)
      BY <1>1, <2>1
    <2>5. Len(b) = 1
      BY <1>1, <2>1
    <2>3. e = key \o b \o value
      BY <2>1
    <2> HIDE DEF e
    <2>4. /\ e \in Seq(Nat)
          /\ Len(e) = Len(key) + Len(b) + Len(value)
          /\ \A i \in 1 .. Len(key) : e[i] = key[i]
          /\ \A i \in 1 .. Len(b) : e[Len(key) + i] = b[i]
          /\ \A i \in 1 .. Len(value) : e[Len(key) + Len(b) + i] = value[i]
      BY <2>2, <2>3, ThreeTexts
    <2> QED BY <2>1, <2>4, <2>5
  <1>4. e[k + 1] = Equals
    <2>1. 1 \in 1 .. 1
      OBVIOUS
    <2> HIDE DEF e, k
    <2> QED BY <1>1, <1>3, <2>1
  <1>5. \A i \in 1 .. k : key[i] # Equals
    BY DEF Contains
  <1> HIDE DEF e
  <1>6. DOMAIN e = 1 .. k + 1 + v
    BY <1>2, <1>3
  <1> HIDE DEF k, v
  <1> DEFINE IsFirst(i) == e[i] = Equals /\ \A j \in 1 .. i - 1 : e[j] # Equals
             at == CHOOSE i \in DOMAIN e : IsFirst(i)
  <1>7. k + 1 \in DOMAIN e /\ IsFirst(k + 1)
    <2>1. k + 1 \in DOMAIN e
      BY <1>2, <1>6
    <2>2. \A j \in 1 .. (k + 1) - 1 : e[j] # Equals
      BY <1>2, <1>3, <1>5
    <2> QED BY <1>4, <2>1, <2>2
  <1>8. \A i \in DOMAIN e : IsFirst(i) => i = k + 1
    <2> TAKE i \in DOMAIN e
    <2>1. i \in 1 .. k + 1 + v
      BY <1>6
    <2>2. CASE i < k + 1
      <3>1. i \in 1 .. k
        BY <1>2, <2>1, <2>2
      <3> QED BY <1>3, <1>5, <3>1
    <2>3. CASE i > k + 1
      <3>1. k + 1 \in 1 .. i - 1
        BY <1>2, <2>1, <2>3
      <3> QED BY <1>4, <3>1
    <2> QED BY <1>2, <2>1, <2>2, <2>3
  <1> HIDE DEF IsFirst
  <1>9. at = k + 1
    BY <1>7, <1>8
  <1>10. SplitEntry(e) = [key |-> SubSeq(e, 1, at - 1), value |-> SubSeq(e, at + 1, Len(e))]
    BY DEF SplitEntry, IsFirst
  <1> HIDE DEF at
  <1>11. SubSeq(e, 1, at - 1) = key
    <2>1. /\ SubSeq(e, 1, k) \in Seq(Nat) /\ Len(SubSeq(e, 1, k)) = k
          /\ \A i \in 1 .. k : SubSeq(e, 1, k)[i] = e[i]
      <3>1. e \in Seq(Nat) /\ k <= Len(e) /\ k = k - 1 + 1 /\ 1 <= k + 1 /\ 1 \in Nat \ {0}
        BY <1>2, <1>3
      <3>2. /\ SubSeq(e, 1, k) \in Seq(Nat) /\ Len(SubSeq(e, 1, k)) = k
            /\ \A i \in 1 .. k : SubSeq(e, 1, k)[i] = e[1 + i - 1]
        BY <1>2, <3>1, PartOf
      <3>3. \A i \in 1 .. k : 1 + i - 1 = i
        BY <1>2
      <3> QED BY <3>2, <3>3
    <2> DEFINE u == SubSeq(e, 1, k)
    <2> HIDE DEF u
    <2>2. u \in Seq(Nat) /\ Len(u) = Len(key) /\ \A i \in 1 .. Len(u) : u[i] = key[i]
      BY <1>3, <2>1 DEF u, k
    <2>3. u = key
      BY <2>2, SeqEqual
    <2>4. at - 1 = k
      BY <1>2, <1>9
    <2> QED BY <2>3, <2>4 DEF u
  <1>12. SubSeq(e, at + 1, Len(e)) = value
    <2> DEFINE u == SubSeq(e, k + 2, k + 1 + v)
    <2>1. u \in Seq(Nat) /\ Len(u) = v /\ \A i \in 1 .. v : u[i] = e[k + 1 + i]
      <3>1. /\ k + 2 \in Nat \ {0} /\ k + 1 + v \in Nat /\ k + 2 <= k + 1 + v + 1
            /\ k + 1 + v <= Len(e) /\ v = (k + 1 + v) - (k + 2) + 1
        BY <1>2, <1>3
      <3>2. e \in Seq(Nat)
        BY <1>3
      <3>3. u \in Seq(Nat) /\ Len(u) = v /\ \A i \in 1 .. v : u[i] = e[(k + 2) + i - 1]
        BY <1>2, <3>1, <3>2, PartOf
      <3> HIDE DEF u
      <3>4. \A i \in 1 .. v : (k + 2) + i - 1 = k + 1 + i
        BY <1>2
      <3> QED BY <3>3, <3>4
    <2> HIDE DEF u
    <2>2. Len(u) = Len(value) /\ \A i \in 1 .. Len(u) : u[i] = value[i]
      BY <1>3, <2>1 DEF v
    <2>3. u = value
      BY <2>1, <2>2, SeqEqual
    <2>4. at + 1 = k + 2 /\ Len(e) = k + 1 + v
      BY <1>2, <1>3, <1>9
    <2> QED BY <2>3, <2>4 DEF u
  <1>13. Contains(e, Equals)
    <2>1. k + 1 \in 1 .. Len(e)
      BY <1>2, <1>3
    <2> QED BY <1>4, <2>1 DEF Contains
  <1> QED BY <1>3, <1>10, <1>11, <1>12, <1>13 DEF e

\* The pairs of an environment.
Pair(env, k) == [key |-> k, value |-> env[k]]

\* What the CA wrote of an environment is read back, when no name has an equals
\* sign (_env_to_strings, _parse_env).
LEMMA EnvironmentIsRead ==
  ASSUME NEW env, IsFiniteSet(DOMAIN env), DOMAIN env \subseteq Seq(Nat),
         env \in [DOMAIN env -> Seq(Nat)], \A k \in DOMAIN env : ~ Contains(k, Equals)
  PROVE  Entries(env) \in Seq(Seq(Nat)) /\ ReadEnvironment(Entries(env)) = env
  <1> DEFINE keys == SetToSeq(DOMAIN env)
             n == Len(keys)
             es == Entries(env)
  <1>1. /\ keys \in Seq(DOMAIN env)
        /\ \A x \in DOMAIN env : \E i \in 1 .. n : keys[i] = x
    BY SetIsListed
  <1> HIDE DEF keys
  <1>2. n \in Nat /\ DOMAIN keys = 1 .. n /\ \A i \in 1 .. n : keys[i] \in DOMAIN env
    <2>1. PICK K : K = DOMAIN env
      OBVIOUS
    <2>2. keys \in Seq(K)
      BY <1>1, <2>1
    <2>3. n \in Nat /\ DOMAIN keys = 1 .. n /\ \A i \in 1 .. n : keys[i] \in K
      BY <2>2
    <2> QED BY <2>1, <2>3
  <1>3. \A i \in 1 .. n :
          /\ keys[i] \o <<Equals>> \o env[keys[i]] \in Seq(Nat)
          /\ Contains(keys[i] \o <<Equals>> \o env[keys[i]], Equals)
          /\ SplitEntry(keys[i] \o <<Equals>> \o env[keys[i]]) = Pair(env, keys[i])
    <2> TAKE i \in 1 .. n
    <2> DEFINE k == keys[i]
    <2>1. k \in DOMAIN env
      BY <1>2
    <2> HIDE DEF k
    <2>2. k \in Seq(Nat) /\ env[k] \in Seq(Nat) /\ ~ Contains(k, Equals)
      BY <2>1
    <2>3. /\ k \o <<Equals>> \o env[k] \in Seq(Nat)
          /\ Contains(k \o <<Equals>> \o env[k], Equals)
          /\ SplitEntry(k \o <<Equals>> \o env[k]) = Pair(env, k)
      BY <2>2, EntryIsSplit DEF Pair
    <2> QED BY <2>3 DEF k
  <1>4. es = [i \in 1 .. n |-> keys[i] \o <<Equals>> \o env[keys[i]]]
    BY <1>2 DEF Entries, keys
  <1> HIDE DEF n, es
  <1>5. es \in Seq(Seq(Nat)) /\ DOMAIN es = 1 .. n
    <2>1. es \in [1 .. n -> Seq(Nat)]
      BY <1>3, <1>4
    <2> QED BY <1>2, <2>1
  <1>6. \A i \in 1 .. n : Contains(es[i], Equals) /\ SplitEntry(es[i]) = Pair(env, keys[i])
    BY <1>3, <1>4
  <1> DEFINE split == {SplitEntry(es[i]) : i \in {j \in DOMAIN es : Contains(es[j], Equals)}}
             pairs == {Pair(env, k) : k \in DOMAIN env}
  <1>7. split = pairs
    <2>1. {j \in DOMAIN es : Contains(es[j], Equals)} = 1 .. n
      BY <1>5, <1>6
    <2>2. split = {SplitEntry(es[i]) : i \in 1 .. n}
      BY <2>1
    <2>3. ASSUME NEW i \in 1 .. n PROVE SplitEntry(es[i]) \in pairs
      BY <1>2, <1>6
    <2>4. ASSUME NEW k \in DOMAIN env PROVE Pair(env, k) \in {SplitEntry(es[i]) : i \in 1 .. n}
      <3>1. PICK i \in 1 .. n : keys[i] = k
        BY <1>1 DEF n
      <3>2. SplitEntry(es[i]) = Pair(env, k)
        BY <1>6, <3>1
      <3> QED BY <3>2
    <2> HIDE DEF split
    <2> QED BY <2>2, <2>3, <2>4
  <1>8. ReadEnvironment(es) =
          [k \in {s.key : s \in split} |-> (CHOOSE s \in split : s.key = k).value]
    BY DEF ReadEnvironment
  <1> HIDE DEF split
  <1>9. \A k \in DOMAIN env : Pair(env, k).key = k /\ Pair(env, k).value = env[k]
    BY DEF Pair
  <1>10. {s.key : s \in pairs} = DOMAIN env
    <2>1. \A s \in pairs : s.key \in DOMAIN env
      BY <1>9
    <2>2. \A k \in DOMAIN env : Pair(env, k) \in pairs /\ Pair(env, k).key = k
      BY <1>9
    <2> HIDE DEF pairs
    <2> QED BY <2>1, <2>2
  <1>11. \A k \in DOMAIN env : (CHOOSE s \in pairs : s.key = k).value = env[k]
    <2> TAKE k \in DOMAIN env
    <2>1. Pair(env, k) \in pairs /\ Pair(env, k).key = k
      BY <1>9
    <2>2. \A s \in pairs : s.key = k => s = Pair(env, k)
      BY <1>9
    <2> HIDE DEF pairs
    <2>3. (CHOOSE s \in pairs : s.key = k) = Pair(env, k)
      BY <2>1, <2>2
    <2> QED BY <1>9, <2>3
  <1> HIDE DEF pairs
  <1>12. ReadEnvironment(es) = [k \in DOMAIN env |-> env[k]]
    BY <1>7, <1>8, <1>10, <1>11
  <1> QED BY <1>5, <1>12 DEF es

\* The members of two lists one behind the other.
LEMMA MembersOfBoth ==
  ASSUME NEW S, NEW a \in Seq(S), NEW b \in Seq(S)
  PROVE  a \o b \in Seq(S) /\ ToSet(a \o b) = ToSet(a) \cup ToSet(b)
  <1>1. /\ a \o b \in Seq(S) /\ Len(a \o b) = Len(a) + Len(b)
        /\ \A i \in 1 .. Len(a) + Len(b) :
             (a \o b)[i] = IF i <= Len(a) THEN a[i] ELSE b[i - Len(a)]
    BY ConcatProperties
  <1> DEFINE c == a \o b
             m == Len(a)
             n == Len(b)
  <1>2. m \in Nat /\ n \in Nat /\ DOMAIN a = 1 .. m /\ DOMAIN b = 1 .. n /\ DOMAIN c = 1 .. m + n
    BY <1>1
  <1>3. \A i \in 1 .. m + n : c[i] = IF i <= m THEN a[i] ELSE b[i - m]
    BY <1>1
  <1> HIDE DEF c, m, n
  <1>4. ASSUME NEW i \in 1 .. m PROVE i \in 1 .. m + n /\ c[i] = a[i]
    <2>1. i \in 1 .. m + n /\ i <= m
      BY <1>2
    <2> QED BY <1>3, <2>1
  <1>5. ASSUME NEW i \in 1 .. n PROVE m + i \in 1 .. m + n /\ c[m + i] = b[i]
    <2>1. m + i \in 1 .. m + n /\ ~(m + i <= m) /\ m + i - m = i
      BY <1>2
    <2>3. \A k \in 1 .. m + n : ~(k <= m) => c[k] = b[k - m]
      BY <1>3
    <2>2. c[m + i] = b[m + i - m]
      BY <1>2, <2>1, <2>3
    <2> QED BY <2>1, <2>2
  <1>6. ASSUME NEW i \in 1 .. m + n
        PROVE  (\E j \in 1 .. m : c[i] = a[j]) \/ (\E j \in 1 .. n : c[i] = b[j])
    <2>1. CASE i <= m
      <3>1. i \in 1 .. m
        BY <1>2, <2>1
      <3>2. c[i] = a[i]
        BY <1>4, <3>1
      <3> QED BY <3>1, <3>2
    <2>2. CASE ~(i <= m)
      <3>1. i - m \in 1 .. n /\ c[i] = b[i - m]
        BY <1>2, <1>3, <2>2
      <3> QED BY <3>1
    <2> QED BY <2>1, <2>2
  <1>7. ToSet(c) = ToSet(a) \cup ToSet(b)
    <2>1. /\ ToSet(c) = {c[i] : i \in 1 .. m + n} /\ ToSet(a) = {a[i] : i \in 1 .. m}
          /\ ToSet(b) = {b[i] : i \in 1 .. n}
      BY <1>2 DEF ToSet
    <2>2. ASSUME NEW i \in 1 .. m + n PROVE c[i] \in ToSet(a) \cup ToSet(b)
      BY <1>6, <2>1
    <2>3. ASSUME NEW i \in 1 .. m PROVE a[i] \in ToSet(c)
      BY <1>4, <2>1
    <2>4. ASSUME NEW i \in 1 .. n PROVE b[i] \in ToSet(c)
      BY <1>5, <2>1
    <2> QED BY <2>1, <2>2, <2>3, <2>4
  <1> QED BY <1>1, <1>7 DEF c

\* No extension comes twice when one of another name is put behind.
LEMMA StillOnce ==
  ASSUME NEW S, NEW a \in Seq(S), NEW x \in S, ~ Repeats(a), \A y \in ToSet(a) : y.oid # x.oid
  PROVE  ~ Repeats(a \o <<x>>)
  <1> DEFINE c == a \o <<x>>
             m == Len(a)
  <1>1. m \in Nat /\ DOMAIN a = 1 .. m /\ DOMAIN c = 1 .. m + 1
    OBVIOUS
  <1>2. c[m + 1] = x /\ \A i \in 1 .. m : c[i] = a[i] /\ a[i].oid # x.oid
    BY DEF ToSet
  <1>3. \A i, j \in 1 .. m : i # j => a[i].oid # a[j].oid
    BY <1>1 DEF Repeats
  <1> HIDE DEF c, m
  <1>4. ASSUME NEW i \in 1 .. m + 1, NEW j \in 1 .. m + 1, i # j PROVE c[i].oid # c[j].oid
    <2>1. CASE i = m + 1
      <3>1. j \in 1 .. m
        BY <1>1, <1>4, <2>1
      <3> QED BY <1>2, <2>1, <3>1
    <2>2. CASE j = m + 1
      <3>1. i \in 1 .. m
        BY <1>1, <1>4, <2>2
      <3> QED BY <1>2, <2>2, <3>1
    <2>3. CASE i # m + 1 /\ j # m + 1
      <3>1. i \in 1 .. m /\ j \in 1 .. m
        BY <1>1, <2>3
      <3> QED BY <1>2, <1>3, <1>4, <3>1
    <2> QED BY <2>1, <2>2, <2>3
  <1>5. ~ Repeats(c)
    BY <1>1, <1>4 DEF Repeats
  <1> QED BY <1>5 DEF c

\* An extension that is written under a condition.
LEMMA WhenIsWritten ==
  ASSUME NEW S, NEW a \in Seq(S), NEW x \in S, NEW condition \in BOOLEAN, ~ Repeats(a),
         \A y \in ToSet(a) : y.oid # x.oid
  PROVE  /\ a \o When(condition, x) \in Seq(S) /\ ~ Repeats(a \o When(condition, x))
         /\ \A y : y \in ToSet(a \o When(condition, x))
                     <=> y \in ToSet(a) \/ (condition /\ y = x)
  <1>1. CASE condition
    <2>1. When(condition, x) = <<x>>
      BY <1>1 DEF When
    <2>2. <<x>> \in Seq(S) /\ ToSet(<<x>>) = {x}
      BY DEF ToSet
    <2>3. a \o <<x>> \in Seq(S) /\ ToSet(a \o <<x>>) = ToSet(a) \cup ToSet(<<x>>)
      <3>1. PICK o : o = <<x>>
        OBVIOUS
      <3>2. o \in Seq(S)
        BY <2>2, <3>1
      <3>3. a \o o \in Seq(S) /\ ToSet(a \o o) = ToSet(a) \cup ToSet(o)
        BY <3>2, MembersOfBoth
      <3> QED BY <3>1, <3>3
    <2>4. ~ Repeats(a \o <<x>>)
      BY StillOnce
    <2> QED BY <1>1, <2>1, <2>2, <2>3, <2>4
  <1>2. CASE ~ condition
    <2>1. When(condition, x) = << >>
      BY <1>2 DEF When, Empty
    <2>2. a \o << >> = a
      OBVIOUS
    <2> QED BY <1>2, <2>1, <2>2
  <1> QED BY <1>1, <1>2

\* The value that is found is that of the member of this name.
LEMMA ValueOfMember ==
  ASSUME NEW S, NEW exts \in Seq(S), NEW x, x \in ToSet(exts),
         NEW oid, x.oid = oid, \A y \in ToSet(exts) : y.oid = oid => y = x
  PROVE  ValueOf(exts, oid) = x.value
  <1> DEFINE there == {i \in DOMAIN exts : exts[i].oid = oid}
  <1>1. there # {}
    BY DEF ToSet
  <1>2. \A i \in there : exts[i] = x
    BY DEF ToSet
  <1>3. ValueOf(exts, oid) = exts[CHOOSE i \in there : TRUE].value
    BY <1>1 DEF ValueOf
  <1> HIDE DEF there
  <1>4. (CHOOSE i \in there : TRUE) \in there
    BY <1>1
  <1> QED BY <1>2, <1>3, <1>4

\* And nothing is found where no member has the name.
LEMMA ValueOfNone ==
  ASSUME NEW exts, NEW oid, \A y \in ToSet(exts) : y.oid # oid
  PROVE  ValueOf(exts, oid) = Empty
  <1>1. {i \in DOMAIN exts : exts[i].oid = oid} = {}
    BY DEF ToSet
  <1> QED BY <1>1 DEF ValueOf

-----------------------------------------------------------------------------
(* Certificates: the extensions of a grant                                *)

\* The extensions that mint_authorization_cert may write, one by one.
XBasic == Ext("basicConstraints", TRUE, Empty)
XUsage == Ext("keyUsage", TRUE, Empty)
XExtended == Ext("extendedKeyUsage", TRUE, Empty)
XSource(g) == Ext("source-bind", TRUE, DerUtf8(g.source))
XServer(g) == Ext("server-bind", TRUE, DerUtf8(g.server))
XChannels(g) == Ext("channel-policy", TRUE, DerSequence(SetToSeq(g.channels)))
XNames == Ext("subjectAltName", FALSE, Empty)
XCommand(g) == Ext("force-command", TRUE, DerUtf8(g.command))
XEnvironment(g) == Ext("environment", TRUE, DerSequence(Entries(g.environment)))
XLimit(g) == Ext("max-session", FALSE, DerInt(g.limit))
XBypass == Ext("ca-bypass", TRUE, DerNull)
XKind == Ext("kind", FALSE, DerNull)

\* What every authorization cert carries in front.
AlwaysWritten(g) == <<XBasic, XUsage, XExtended, XSource(g), XServer(g), XChannels(g), XNames>>

\* All of them.
MayBeWritten(g) ==
  {XBasic, XUsage, XExtended, XSource(g), XServer(g), XChannels(g), XNames,
   XCommand(g), XEnvironment(g), XLimit(g), XBypass, XKind}

\* Their names, which differ from one another.
LEMMA NamesOfThem ==
  ASSUME NEW g
  PROVE  /\ XBasic.oid = "basicConstraints" /\ XUsage.oid = "keyUsage"
         /\ XExtended.oid = "extendedKeyUsage" /\ XSource(g).oid = "source-bind"
         /\ XServer(g).oid = "server-bind" /\ XChannels(g).oid = "channel-policy"
         /\ XNames.oid = "subjectAltName" /\ XCommand(g).oid = "force-command"
         /\ XEnvironment(g).oid = "environment" /\ XLimit(g).oid = "max-session"
         /\ XBypass.oid = "ca-bypass" /\ XKind.oid = "kind"
  BY DEF XBasic, XUsage, XExtended, XSource, XServer, XChannels, XNames, XCommand,
         XEnvironment, XLimit, XBypass, XKind, Ext

\* What is always written comes once.
LEMMA AlwaysOnce ==
  ASSUME NEW g
  PROVE  /\ AlwaysWritten(g) \in Seq(MayBeWritten(g)) /\ ~ Repeats(AlwaysWritten(g))
         /\ \A y : y \in ToSet(AlwaysWritten(g)) <=>
              y \in {XBasic, XUsage, XExtended, XSource(g), XServer(g), XChannels(g), XNames}
  <1> DEFINE a == AlwaysWritten(g)
  <1>1. /\ a[1] = XBasic /\ a[2] = XUsage /\ a[3] = XExtended /\ a[4] = XSource(g)
        /\ a[5] = XServer(g) /\ a[6] = XChannels(g) /\ a[7] = XNames
        /\ DOMAIN a = 1 .. 7
    BY DEF AlwaysWritten
  <1>2. a \in Seq(MayBeWritten(g))
    BY DEF AlwaysWritten, MayBeWritten
  <1> HIDE DEF a
  <1>3. \A i \in 1 .. 7 : i = 1 \/ i = 2 \/ i = 3 \/ i = 4 \/ i = 5 \/ i = 6 \/ i = 7
    OBVIOUS
  <1>4. /\ a[1].oid = "basicConstraints" /\ a[2].oid = "keyUsage" /\ a[3].oid = "extendedKeyUsage"
        /\ a[4].oid = "source-bind" /\ a[5].oid = "server-bind" /\ a[6].oid = "channel-policy"
        /\ a[7].oid = "subjectAltName"
    BY <1>1, NamesOfThem
  <1>5. ~ Repeats(a)
    <2> SUFFICES ASSUME NEW i \in 1 .. 7, NEW j \in 1 .. 7, a[i].oid = a[j].oid PROVE i = j
      BY <1>1 DEF Repeats
    <2>1. CASE i = 1
      BY <1>3, <1>4, <2>1
    <2>2. CASE i = 2
      BY <1>3, <1>4, <2>2
    <2>3. CASE i = 3
      BY <1>3, <1>4, <2>3
    <2>4. CASE i = 4
      BY <1>3, <1>4, <2>4
    <2>5. CASE i = 5
      BY <1>3, <1>4, <2>5
    <2>6. CASE i = 6
      BY <1>3, <1>4, <2>6
    <2>7. CASE i = 7
      BY <1>3, <1>4, <2>7
    <2> QED BY <1>3, <2>1, <2>2, <2>3, <2>4, <2>5, <2>6, <2>7
  <1>6. ToSet(a) = {a[1], a[2], a[3], a[4], a[5], a[6], a[7]}
    <2>1. ToSet(a) = {a[i] : i \in 1 .. 7}
      BY <1>1 DEF ToSet
    <2> QED BY <1>3, <2>1
  <1> QED BY <1>1, <1>2, <1>5, <1>6 DEF a

\* What an authorization cert carries: each extension under its condition, and
\* none twice (mint_authorization_cert).
LEMMA WhatIsWritten ==
  ASSUME NEW g, g.bypass \in BOOLEAN
  PROVE  /\ AuthorizationExtensions(g) \in Seq(MayBeWritten(g))
         /\ ~ Repeats(AuthorizationExtensions(g))
         /\ \A y : y \in ToSet(AuthorizationExtensions(g)) <=>
              \/ y \in {XBasic, XUsage, XExtended, XSource(g), XServer(g), XChannels(g), XNames}
              \/ g.command # Empty /\ y = XCommand(g)
              \/ DOMAIN g.environment # {} /\ y = XEnvironment(g)
              \/ g.limit # NoLimit /\ y = XLimit(g)
              \/ g.bypass /\ y = XBypass
              \/ y = XKind
  <1> DEFINE S == MayBeWritten(g)
             B == {XBasic, XUsage, XExtended, XSource(g), XServer(g), XChannels(g), XNames}
             a0 == AlwaysWritten(g)
             a1 == a0 \o When(g.command # Empty, XCommand(g))
             a2 == a1 \o When(DOMAIN g.environment # {}, XEnvironment(g))
             a3 == a2 \o When(g.limit # NoLimit, XLimit(g))
             a4 == a3 \o When(g.bypass, XBypass)
             a5 == a4 \o <<XKind>>
  <1>1. AuthorizationExtensions(g) = a5
    BY DEF AuthorizationExtensions, AlwaysWritten, XBasic, XUsage, XExtended, XSource, XServer,
           XChannels, XNames, XCommand, XEnvironment, XLimit, XBypass, XKind
  <1>2. /\ XCommand(g) \in S /\ XEnvironment(g) \in S /\ XLimit(g) \in S /\ XBypass \in S /\ XKind \in S
    BY DEF MayBeWritten
  <1>3. a0 \in Seq(S) /\ ~ Repeats(a0) /\ \A y : y \in ToSet(a0) <=> y \in B
    BY AlwaysOnce
  <1>4. \A y \in B : /\ y.oid # XCommand(g).oid /\ y.oid # XEnvironment(g).oid
                     /\ y.oid # XLimit(g).oid /\ y.oid # XBypass.oid /\ y.oid # XKind.oid
    BY NamesOfThem
  <1>5. /\ XCommand(g).oid # XEnvironment(g).oid /\ XCommand(g).oid # XLimit(g).oid
        /\ XCommand(g).oid # XBypass.oid /\ XCommand(g).oid # XKind.oid
        /\ XEnvironment(g).oid # XLimit(g).oid /\ XEnvironment(g).oid # XBypass.oid
        /\ XEnvironment(g).oid # XKind.oid /\ XLimit(g).oid # XBypass.oid
        /\ XLimit(g).oid # XKind.oid /\ XBypass.oid # XKind.oid
    BY NamesOfThem
  <1> HIDE DEF S, B, a0
  <1>6. /\ a1 \in Seq(S) /\ ~ Repeats(a1)
        /\ \A y : y \in ToSet(a1) <=> y \in ToSet(a0) \/ (g.command # Empty /\ y = XCommand(g))
    <2>1. \A y \in ToSet(a0) : y.oid # XCommand(g).oid
      BY <1>3, <1>4
    <2> DEFINE forced == g.command # Empty
               b1 == a0 \o When(forced, XCommand(g))
    <2>2. forced \in BOOLEAN /\ a1 = b1
      OBVIOUS
    <2> HIDE DEF forced, a1
    <2>3. /\ b1 \in Seq(S) /\ ~ Repeats(b1)
          /\ \A y : y \in ToSet(b1) <=> y \in ToSet(a0) \/ (forced /\ y = XCommand(g))
      BY <1>2, <1>3, <2>1, <2>2, WhenIsWritten
    <2> QED BY <2>2, <2>3 DEF forced
  <1> HIDE DEF a1
  <1>7. /\ a2 \in Seq(S) /\ ~ Repeats(a2)
        /\ \A y : y \in ToSet(a2) <=>
             y \in ToSet(a1) \/ (DOMAIN g.environment # {} /\ y = XEnvironment(g))
    <2>1. \A y \in ToSet(a1) : y.oid # XEnvironment(g).oid
      BY <1>3, <1>4, <1>5, <1>6
    <2> DEFINE assigned == DOMAIN g.environment # {}
               b2 == a1 \o When(assigned, XEnvironment(g))
    <2>2. assigned \in BOOLEAN /\ a2 = b2
      OBVIOUS
    <2> HIDE DEF assigned, a2
    <2>3. /\ b2 \in Seq(S) /\ ~ Repeats(b2)
          /\ \A y : y \in ToSet(b2) <=> y \in ToSet(a1) \/ (assigned /\ y = XEnvironment(g))
      BY <1>2, <1>6, <2>1, <2>2, WhenIsWritten
    <2> QED BY <2>2, <2>3 DEF assigned
  <1> HIDE DEF a2
  <1>8. /\ a3 \in Seq(S) /\ ~ Repeats(a3)
        /\ \A y : y \in ToSet(a3) <=> y \in ToSet(a2) \/ (g.limit # NoLimit /\ y = XLimit(g))
    <2>1. \A y \in ToSet(a2) : y.oid # XLimit(g).oid
      BY <1>3, <1>4, <1>5, <1>6, <1>7
    <2> DEFINE limited == g.limit # NoLimit
               b3 == a2 \o When(limited, XLimit(g))
    <2>2. limited \in BOOLEAN /\ a3 = b3
      OBVIOUS
    <2> HIDE DEF limited, a3
    <2>3. /\ b3 \in Seq(S) /\ ~ Repeats(b3)
          /\ \A y : y \in ToSet(b3) <=> y \in ToSet(a2) \/ (limited /\ y = XLimit(g))
      BY <1>2, <1>7, <2>1, <2>2, WhenIsWritten
    <2> QED BY <2>2, <2>3 DEF limited
  <1> HIDE DEF a3
  <1>9. /\ a4 \in Seq(S) /\ ~ Repeats(a4)
        /\ \A y : y \in ToSet(a4) <=> y \in ToSet(a3) \/ (g.bypass /\ y = XBypass)
    <2>1. \A y \in ToSet(a3) : y.oid # XBypass.oid
      BY <1>3, <1>4, <1>5, <1>6, <1>7, <1>8
    <2> QED BY <1>2, <1>8, <2>1, WhenIsWritten
  <1> HIDE DEF a4
  <1>10. /\ a5 \in Seq(S) /\ ~ Repeats(a5) /\ \A y : y \in ToSet(a5) <=> y \in ToSet(a4) \/ y = XKind
    <2>1. \A y \in ToSet(a4) : y.oid # XKind.oid
      BY <1>3, <1>4, <1>5, <1>6, <1>7, <1>8, <1>9
    <2>2. a4 \o When(TRUE, XKind) = a5
      BY DEF When
    <2> HIDE DEF a5
    <2> QED BY <1>2, <1>9, <2>1, <2>2, WhenIsWritten
  <1> HIDE DEF a5
  <1> QED BY <1>1, <1>3, <1>6, <1>7, <1>8, <1>9, <1>10 DEF S, B

-----------------------------------------------------------------------------
(* Certificates: what is read                                             *)

\* Among them the name tells which it is.
LEMMA NameTells ==
  ASSUME NEW g, NEW y \in MayBeWritten(g)
  PROVE  /\ y.oid = "source-bind" => y = XSource(g)
         /\ y.oid = "server-bind" => y = XServer(g)
         /\ y.oid = "channel-policy" => y = XChannels(g)
         /\ y.oid = "force-command" => y = XCommand(g)
         /\ y.oid = "environment" => y = XEnvironment(g)
         /\ y.oid = "max-session" => y = XLimit(g)
         /\ y.critical => y.oid \in KnownCritical
  <1>1. /\ XBasic.oid = "basicConstraints" /\ XUsage.oid = "keyUsage"
        /\ XExtended.oid = "extendedKeyUsage" /\ XSource(g).oid = "source-bind"
        /\ XServer(g).oid = "server-bind" /\ XChannels(g).oid = "channel-policy"
        /\ XNames.oid = "subjectAltName" /\ XCommand(g).oid = "force-command"
        /\ XEnvironment(g).oid = "environment" /\ XLimit(g).oid = "max-session"
        /\ XBypass.oid = "ca-bypass" /\ XKind.oid = "kind"
    BY NamesOfThem
  <1>2. ~ XNames.critical /\ ~ XLimit(g).critical /\ ~ XKind.critical
    BY DEF XNames, XLimit, XKind, Ext
  <1>3. \/ y = XBasic \/ y = XUsage \/ y = XExtended \/ y = XSource(g) \/ y = XServer(g)
        \/ y = XChannels(g) \/ y = XNames \/ y = XCommand(g) \/ y = XEnvironment(g)
        \/ y = XLimit(g) \/ y = XBypass \/ y = XKind
    BY DEF MayBeWritten
  <1>4. y.critical => y.oid \in KnownCritical
    BY <1>1, <1>2, <1>3 DEF KnownCritical, OwnCritical
  <1> QED BY <1>1, <1>3, <1>4

\* What is not always written comes only under its condition.
LEMMA OnlyWhen ==
  ASSUME NEW g, g.bypass \in BOOLEAN
  PROVE  /\ XSource(g) \in ToSet(AuthorizationExtensions(g))
         /\ XServer(g) \in ToSet(AuthorizationExtensions(g))
         /\ XChannels(g) \in ToSet(AuthorizationExtensions(g))
         /\ XCommand(g) \in ToSet(AuthorizationExtensions(g)) <=> g.command # Empty
         /\ XEnvironment(g) \in ToSet(AuthorizationExtensions(g)) <=> DOMAIN g.environment # {}
         /\ XLimit(g) \in ToSet(AuthorizationExtensions(g)) <=> g.limit # NoLimit
         /\ \A y \in ToSet(AuthorizationExtensions(g)) : y \in MayBeWritten(g)
  <1> DEFINE T == ToSet(AuthorizationExtensions(g))
             B == {XBasic, XUsage, XExtended, XSource(g), XServer(g), XChannels(g), XNames}
  <1>1. \A y : y \in T <=>
          \/ y \in B
          \/ g.command # Empty /\ y = XCommand(g)
          \/ DOMAIN g.environment # {} /\ y = XEnvironment(g)
          \/ g.limit # NoLimit /\ y = XLimit(g)
          \/ g.bypass /\ y = XBypass
          \/ y = XKind
    BY WhatIsWritten
  <1>2. /\ XSource(g) \in B /\ XServer(g) \in B /\ XChannels(g) \in B
        /\ \A y \in B : y \in MayBeWritten(g)
    BY DEF MayBeWritten
  <1>3. /\ XCommand(g) \in MayBeWritten(g) /\ XEnvironment(g) \in MayBeWritten(g)
        /\ XLimit(g) \in MayBeWritten(g) /\ XBypass \in MayBeWritten(g)
        /\ XKind \in MayBeWritten(g)
    BY DEF MayBeWritten
  <1>4. /\ XCommand(g) \notin B /\ XEnvironment(g) \notin B /\ XLimit(g) \notin B
        /\ XCommand(g) # XEnvironment(g) /\ XCommand(g) # XLimit(g) /\ XCommand(g) # XBypass
        /\ XCommand(g) # XKind /\ XEnvironment(g) # XLimit(g) /\ XEnvironment(g) # XBypass
        /\ XEnvironment(g) # XKind /\ XLimit(g) # XBypass /\ XLimit(g) # XKind
    BY NamesOfThem
  <1> HIDE DEF T, B
  <1> QED BY <1>1, <1>2, <1>3, <1>4, Zenon DEF T

\* One extension that is written is the one that is found; one that is not leaves nothing.
LEMMA FoundAsWritten ==
  ASSUME NEW g, g.bypass \in BOOLEAN
  PROVE  /\ ValueOf(AuthorizationExtensions(g), "source-bind") = DerUtf8(g.source)
         /\ ValueOf(AuthorizationExtensions(g), "server-bind") = DerUtf8(g.server)
         /\ ValueOf(AuthorizationExtensions(g), "channel-policy") = DerSequence(SetToSeq(g.channels))
         /\ ValueOf(AuthorizationExtensions(g), "force-command")
              = IF g.command # Empty THEN DerUtf8(g.command) ELSE Empty
         /\ ValueOf(AuthorizationExtensions(g), "environment")
              = IF DOMAIN g.environment # {} THEN DerSequence(Entries(g.environment)) ELSE Empty
         /\ ValueOf(AuthorizationExtensions(g), "max-session")
              = IF g.limit # NoLimit THEN DerInt(g.limit) ELSE Empty
  <1> DEFINE exts == AuthorizationExtensions(g)
  <1>1. exts \in Seq(MayBeWritten(g))
    BY WhatIsWritten
  <1>2. /\ XSource(g) \in ToSet(exts) /\ XServer(g) \in ToSet(exts) /\ XChannels(g) \in ToSet(exts)
        /\ XCommand(g) \in ToSet(exts) <=> g.command # Empty
        /\ XEnvironment(g) \in ToSet(exts) <=> DOMAIN g.environment # {}
        /\ XLimit(g) \in ToSet(exts) <=> g.limit # NoLimit
        /\ \A y \in ToSet(exts) : y \in MayBeWritten(g)
    BY OnlyWhen
  <1>3. /\ XSource(g).value = DerUtf8(g.source) /\ XServer(g).value = DerUtf8(g.server)
        /\ XChannels(g).value = DerSequence(SetToSeq(g.channels))
        /\ XCommand(g).value = DerUtf8(g.command)
        /\ XEnvironment(g).value = DerSequence(Entries(g.environment))
        /\ XLimit(g).value = DerInt(g.limit)
    BY DEF XSource, XServer, XChannels, XCommand, XEnvironment, XLimit, Ext
  <1> HIDE DEF exts
  <1>4. ValueOf(exts, "source-bind") = XSource(g).value
    <2>1. XSource(g).oid = "source-bind" /\ \A y \in ToSet(exts) : y.oid = "source-bind" => y = XSource(g)
      BY <1>2, NamesOfThem, NameTells
    <2> QED BY <1>1, <1>2, <2>1, ValueOfMember
  <1>5. ValueOf(exts, "server-bind") = XServer(g).value
    <2>1. XServer(g).oid = "server-bind" /\ \A y \in ToSet(exts) : y.oid = "server-bind" => y = XServer(g)
      BY <1>2, NamesOfThem, NameTells
    <2> QED BY <1>1, <1>2, <2>1, ValueOfMember
  <1>6. ValueOf(exts, "channel-policy") = XChannels(g).value
    <2>1. XChannels(g).oid = "channel-policy" /\ \A y \in ToSet(exts) : y.oid = "channel-policy" => y = XChannels(g)
      BY <1>2, NamesOfThem, NameTells
    <2> QED BY <1>1, <1>2, <2>1, ValueOfMember
  <1>7. ValueOf(exts, "force-command") = IF g.command # Empty THEN XCommand(g).value ELSE Empty
    <2>1. XCommand(g).oid = "force-command" /\ \A y \in ToSet(exts) : y.oid = "force-command" => y = XCommand(g)
      BY <1>2, NamesOfThem, NameTells
    <2>2. CASE g.command # Empty
      <3>1. XCommand(g) \in ToSet(exts)
        BY <1>2, <2>2
      <3> QED BY <1>1, <2>1, <2>2, <3>1, ValueOfMember
    <2>3. CASE ~(g.command # Empty)
      <3>1. \A y \in ToSet(exts) : y.oid # "force-command"
        BY <1>2, <2>1, <2>3
      <3> QED BY <2>3, <3>1, ValueOfNone
    <2> QED BY <2>2, <2>3
  <1>8. ValueOf(exts, "environment") = IF DOMAIN g.environment # {} THEN XEnvironment(g).value ELSE Empty
    <2>1. XEnvironment(g).oid = "environment" /\ \A y \in ToSet(exts) : y.oid = "environment" => y = XEnvironment(g)
      BY <1>2, NamesOfThem, NameTells
    <2>2. CASE DOMAIN g.environment # {}
      <3>1. XEnvironment(g) \in ToSet(exts)
        BY <1>2, <2>2
      <3> QED BY <1>1, <2>1, <2>2, <3>1, ValueOfMember
    <2>3. CASE ~(DOMAIN g.environment # {})
      <3>1. \A y \in ToSet(exts) : y.oid # "environment"
        BY <1>2, <2>1, <2>3
      <3> QED BY <2>3, <3>1, ValueOfNone
    <2> QED BY <2>2, <2>3
  <1>9. ValueOf(exts, "max-session") = IF g.limit # NoLimit THEN XLimit(g).value ELSE Empty
    <2>1. XLimit(g).oid = "max-session" /\ \A y \in ToSet(exts) : y.oid = "max-session" => y = XLimit(g)
      BY <1>2, NamesOfThem, NameTells
    <2>2. CASE g.limit # NoLimit
      <3>1. XLimit(g) \in ToSet(exts)
        BY <1>2, <2>2
      <3> QED BY <1>1, <2>1, <2>2, <3>1, ValueOfMember
    <2>3. CASE ~(g.limit # NoLimit)
      <3>1. \A y \in ToSet(exts) : y.oid # "max-session"
        BY <1>2, <2>1, <2>3
      <3> QED BY <2>3, <3>1, ValueOfNone
    <2> QED BY <2>2, <2>3
  <1> QED BY <1>3, <1>4, <1>5, <1>6, <1>7, <1>8, <1>9 DEF exts

\* What msshd reads of a grant is the grant (parse_cert_policy).
LEMMA PolicyIsRead ==
  ASSUME NEW g \in Grants, g.limit >= NoLimit
  PROVE  LET read == ParsedPolicy(AuthorizationExtensions(g))
         IN /\ read.source = g.source /\ read.server = g.server /\ read.channels = g.channels
            /\ read.command = g.command /\ read.limit = g.limit
            /\ (\A k \in DOMAIN g.environment : ~ Contains(k, Equals))
                 => read.environment = g.environment
  <1> DEFINE exts == AuthorizationExtensions(g)
             env == g.environment
  <1>1. /\ g.source \in Seq(Nat) /\ g.server \in Seq(Nat) /\ g.command \in Seq(Nat)
        /\ g.channels \subseteq Seq(Nat) /\ IsFiniteSet(g.channels) /\ IsFiniteSet(DOMAIN env)
        /\ DOMAIN env \subseteq Seq(Nat) /\ env \in [DOMAIN env -> Seq(Nat)]
        /\ g.limit \in Int /\ g.bypass \in BOOLEAN
    BY GrantsAssumption
  <1>2. /\ ValueOf(exts, "source-bind") = DerUtf8(g.source)
        /\ ValueOf(exts, "server-bind") = DerUtf8(g.server)
        /\ ValueOf(exts, "channel-policy") = DerSequence(SetToSeq(g.channels))
        /\ ValueOf(exts, "force-command") = IF g.command # Empty THEN DerUtf8(g.command) ELSE Empty
        /\ ValueOf(exts, "environment")
             = IF DOMAIN env # {} THEN DerSequence(Entries(env)) ELSE Empty
        /\ ValueOf(exts, "max-session") = IF g.limit # NoLimit THEN DerInt(g.limit) ELSE Empty
    BY <1>1, FoundAsWritten
  <1> HIDE DEF exts, env
  <1>3. /\ ParsedPolicy(exts).source = DecodeUtf8(ValueOf(exts, "source-bind"))
        /\ ParsedPolicy(exts).server = DecodeUtf8(ValueOf(exts, "server-bind"))
        /\ ParsedPolicy(exts).channels = ToSet(DecodeSequence(ValueOf(exts, "channel-policy")))
        /\ ParsedPolicy(exts).command = DecodeUtf8(ValueOf(exts, "force-command"))
        /\ ParsedPolicy(exts).environment
             = ReadEnvironment(DecodeSequence(ValueOf(exts, "environment")))
        /\ ParsedPolicy(exts).limit = DecodeInteger(ValueOf(exts, "max-session"))
    BY DEF ParsedPolicy
  <1>4. /\ DecodeUtf8(DerUtf8(g.source)) = g.source /\ DecodeUtf8(DerUtf8(g.server)) = g.server
        /\ DecodeUtf8(DerUtf8(g.command)) = g.command
    BY <1>1, TextIsRead
  <1>5. ToSet(DecodeSequence(DerSequence(SetToSeq(g.channels)))) = g.channels
    <2> DEFINE list == SetToSeq(g.channels)
    <2>1. list \in Seq(g.channels) /\ ToSet(list) = g.channels
      BY <1>1, SetIsListed
    <2> HIDE DEF list
    <2>2. list \in Seq(Seq(Nat))
      BY <1>1, <2>1
    <2>3. DecodeSequence(DerSequence(list)) = list
      BY <2>2, SequenceIsRead
    <2> QED BY <2>1, <2>3 DEF list
  <1>6. DecodeUtf8(Empty) = Empty /\ DecodeSequence(Empty) = Empty /\ DecodeInteger(Empty) = NoLimit
    BY DEF DecodeUtf8, DecodeSequence, DecodeInteger
  <1>7. ParsedPolicy(exts).command = g.command
    BY <1>2, <1>3, <1>4, <1>6
  <1>8. ParsedPolicy(exts).limit = g.limit
    <2>1. CASE g.limit = NoLimit
      BY <1>2, <1>3, <1>6, <2>1
    <2>2. CASE g.limit # NoLimit
      <3>1. g.limit \in Nat
        BY <1>1, <2>2 DEF NoLimit
      <3>2. DecodeInteger(DerInt(g.limit)) = g.limit
        BY <3>1, NumberIsRead
      <3> QED BY <1>2, <1>3, <2>2, <3>2
    <2> QED BY <2>1, <2>2
  <1>9. ASSUME \A k \in DOMAIN env : ~ Contains(k, Equals)
        PROVE  ParsedPolicy(exts).environment = env
    <2>1. CASE DOMAIN env = {}
      <3>1. ParsedPolicy(exts).environment = ReadEnvironment(Empty)
        BY <1>2, <1>3, <1>6, <2>1
      <3>2. ReadEnvironment(Empty) = [k \in {} |-> 0]
        <4> DEFINE split == {SplitEntry(Empty[i]) :
                               i \in {j \in DOMAIN Empty : Contains(Empty[j], Equals)}}
        <4>1. DOMAIN Empty = {}
          BY DEF Empty
        <4>2. split = {}
          BY <4>1
        <4>3. ReadEnvironment(Empty) =
                [k \in {s.key : s \in split} |-> (CHOOSE s \in split : s.key = k).value]
          BY DEF ReadEnvironment
        <4> HIDE DEF split
        <4>4. {s.key : s \in split} = {}
          BY <4>2
        <4> QED BY <4>3, <4>4
      <3>3. env = [k \in {} |-> 0]
        <4>1. env = [k \in DOMAIN env |-> env[k]]
          BY <1>1
        <4> QED BY <2>1, <4>1
      <3> QED BY <3>1, <3>2, <3>3
    <2>2. CASE DOMAIN env # {}
      <3>1. Entries(env) \in Seq(Seq(Nat)) /\ ReadEnvironment(Entries(env)) = env
        BY <1>1, <1>9, EnvironmentIsRead
      <3>2. DecodeSequence(DerSequence(Entries(env))) = Entries(env)
        BY <3>1, SequenceIsRead
      <3> QED BY <1>2, <1>3, <2>2, <3>1, <3>2
    <2> QED BY <2>1, <2>2
  <1>10. /\ ParsedPolicy(exts).source = g.source /\ ParsedPolicy(exts).server = g.server
         /\ ParsedPolicy(exts).channels = g.channels
    BY <1>2, <1>3, <1>4, <1>5
  <1> QED BY <1>7, <1>8, <1>9, <1>10 DEF exts, env

\* Its critical extensions are known and none comes twice.
LEMMA CriticalsOfThem ==
  ASSUME NEW g, g.bypass \in BOOLEAN
  PROVE  LET exts == AuthorizationExtensions(g)
         IN /\ \A i \in DOMAIN exts : exts[i].critical => exts[i].oid \in KnownCritical
            /\ ~ Repeats(exts)
  <1> DEFINE exts == AuthorizationExtensions(g)
  <1>1. ~ Repeats(exts)
    BY WhatIsWritten
  <1>2. \A y \in ToSet(exts) : y \in MayBeWritten(g)
    BY OnlyWhen
  <1>3. \A y \in MayBeWritten(g) : y.critical => y.oid \in KnownCritical
    BY NameTells
  <1> HIDE DEF exts
  <1>4. \A i \in DOMAIN exts : exts[i] \in ToSet(exts)
    BY DEF ToSet
  <1> QED BY <1>1, <1>2, <1>3, <1>4 DEF exts

-----------------------------------------------------------------------------
\* What is let pass: each of them is declared, free, short enough and can be encoded.
LetPass(list) ==
  /\ list \in Seq(AskedOnes)
  /\ \A i \in DOMAIN list : ~ Refused(list[i]) /\ CustomExtension(list[i]).value # Unencodable

\* The extensions that were asked for stand behind the four of every such cert.
LEMMA CustomStandBehind ==
  ASSUME NEW list \in Seq(AskedOnes), NEW i \in 1 .. Len(list)
  PROVE  ExternalUseExtensions(list)[Len(ExternalUseExtensions(list)) - Len(list) + i]
           = CustomExtension(list[i])
  <1> DEFINE n == Len(list)
             a == <<Ext("basicConstraints", TRUE, Empty), Ext("keyUsage", TRUE, Empty),
                    Ext("extendedKeyUsage", FALSE, Empty), Ext("kind", FALSE, DerNull)>>
             b == [j \in 1 .. n |-> CustomExtension(list[j])]
             S == {a[1], a[2], a[3], a[4]} \cup {CustomExtension(list[j]) : j \in 1 .. n}
             c == a \o b
  <1>1. n \in Nat /\ DOMAIN list = 1 .. n
    OBVIOUS
  <1>2. ExternalUseExtensions(list) = c
    BY <1>1 DEF ExternalUseExtensions
  <1> HIDE DEF n
  <1>3. b \in Seq(S) /\ Len(b) = n /\ b[i] = CustomExtension(list[i])
    <2>1. b \in [1 .. n -> S]
      OBVIOUS
    <2>2. b[i] = CustomExtension(list[i])
      BY DEF n
    <2> HIDE DEF b, S
    <2> QED BY <1>1, <2>1, <2>2
  <1>4. a \in Seq(S) /\ Len(a) = 4
    OBVIOUS
  <1> HIDE DEF a, b, S
  <1>5. /\ Len(c) = 4 + n
        /\ \A j \in 1 .. 4 + n : c[j] = IF j <= 4 THEN a[j] ELSE b[j - 4]
    <2>1. /\ Len(a \o b) = Len(a) + Len(b)
          /\ \A j \in 1 .. Len(a) + Len(b) :
               (a \o b)[j] = IF j <= Len(a) THEN a[j] ELSE b[j - Len(a)]
      BY <1>3, <1>4, ConcatProperties
    <2> QED BY <1>3, <1>4, <2>1
  <1> HIDE DEF c
  <1>6. /\ 4 + n - n + i = 4 + i /\ 4 + i \in 1 .. 4 + n /\ ~(4 + i <= 4) /\ 4 + i - 4 = i
    BY <1>1 DEF n
  <1>7. \A j \in 1 .. 4 + n : ~(j <= 4) => c[j] = b[j - 4]
    BY <1>5
  <1>8. c[4 + i] = b[4 + i - 4]
    BY <1>1, <1>6, <1>7
  <1> QED BY <1>2, <1>3, <1>5, <1>6, <1>8 DEF n

\* An extension that passes is declared, and is read as it was asked for.
LEMMA CustomIsRead ==
  ASSUME NEW asked \in AskedOnes, ~ Refused(asked), CustomExtension(asked).value # Unencodable
  PROVE  LET ext == CustomExtension(asked)
         IN /\ ext.oid \in DOMAIN Allowlist /\ ~ Reserved(ext.oid)
            /\ Allowlist[ext.oid].encoding = "utf8" => DecodeUtf8(ext.value) = asked.text
            /\ Allowlist[ext.oid].encoding = "integer" => DecodeInteger(ext.value) = asked.number
  <1> DEFINE oid == CHOOSE o \in Entry(asked) : TRUE
             entry == Allowlist[oid]
             ext == CustomExtension(asked)
  <1>1. Entry(asked) # {} /\ \A o \in Entry(asked) : ~ Reserved(o)
    BY DEF Refused
  <1>2. oid \in Entry(asked)
    BY <1>1
  <1>3. oid \in DOMAIN Allowlist /\ ~ Reserved(oid)
    BY <1>1, <1>2 DEF Entry
  <1> DEFINE critical == IF asked.critical = {} THEN entry.critical ELSE TRUE \in asked.critical
  <1>4. ext = Ext(oid, critical, Encoded(asked, entry))
    BY DEF CustomExtension
  <1> HIDE DEF oid, ext, critical
  <1>5. ext.oid = oid /\ ext.value = Encoded(asked, entry)
    BY <1>4 DEF Ext
  <1>6. asked.text \in Seq(Nat) /\ asked.number \in Int
    BY AskedAssumption DEF AskedOnes
  <1>7. ASSUME entry.encoding = "utf8" PROVE DecodeUtf8(ext.value) = asked.text
    <2>1. Encoded(asked, entry) = DerUtf8(asked.text)
      BY <1>7 DEF Encoded
    <2> QED BY <1>5, <1>6, <2>1, TextIsRead
  <1>8. ASSUME entry.encoding = "integer" PROVE DecodeInteger(ext.value) = asked.number
    <2>1. Encoded(asked, entry) = DerInt(asked.number)
      BY <1>8 DEF Encoded
    <2>2. ~(asked.number < 0)
      <3> SUFFICES ASSUME asked.number < 0 PROVE FALSE
        OBVIOUS
      <3>1. DerInt(asked.number) = Unencodable
        BY DEF DerInt
      <3> QED BY <1>5, <2>1, <3>1 DEF ext
    <2>3. asked.number \in Nat
      BY <1>6, <2>2
    <2> QED BY <1>5, <2>1, <2>3, NumberIsRead
  <1> QED BY <1>3, <1>5, <1>7, <1>8 DEF ext

-----------------------------------------------------------------------------
\* Before the mint nothing has been written; behind it there is nothing, or a
\* grant that was written, or a list that passed.
NothingWritten == cert = Empty
\* A grant was written: its limit is none or a number that is not negative.
GrantWritten ==
  /\ grant \in Grants /\ grant.limit >= NoLimit /\ custom = Empty
  /\ cert = AuthorizationExtensions(grant)
\* A list that passed was written.
CustomWritten ==
  grant = NoGrant /\ LetPass(custom) /\ cert = ExternalUseExtensions(custom)

\* Each cert carries what the last mint was asked for.
WrittenInv ==
  /\ answer = 0 => grant = NoGrant /\ cert = Empty /\ custom = Empty
  /\ NothingWritten \/ GrantWritten \/ CustomWritten

\* The invariant gives what both sides must agree on.
LEMMA WrittenIsRead ==
  ASSUME WrittenInv
  PROVE  CertsAreReadAsWritten
  <1>1. CASE NothingWritten
    BY <1>1 DEF NothingWritten, CertsAreReadAsWritten, PolicySurvivesTheCert, CriticalsAreKnown,
                CustomAreDeclared
  <1>2. CASE GrantWritten
    <2>1. PolicySurvivesTheCert
      BY <1>2, PolicyIsRead DEF GrantWritten, PolicySurvivesTheCert
    <2>2. CriticalsAreKnown
      <3>1. grant.bypass \in BOOLEAN
        BY <1>2, GrantsAssumption DEF GrantWritten
      <3> QED BY <1>2, <3>1, CriticalsOfThem DEF GrantWritten, CriticalsAreKnown
    <2>3. CustomAreDeclared
      BY <1>2 DEF GrantWritten, CustomAreDeclared
    <2> QED BY <2>1, <2>2, <2>3 DEF CertsAreReadAsWritten
  <1>3. CASE CustomWritten
    <2>1. PolicySurvivesTheCert /\ CriticalsAreKnown
      BY <1>3 DEF CustomWritten, PolicySurvivesTheCert, CriticalsAreKnown
    <2>2. CustomAreDeclared
      <3>1. ASSUME NEW i \in 1 .. Len(custom)
            PROVE  LET ext == cert[Len(cert) - Len(custom) + i]
                   IN /\ ext.oid \in DOMAIN Allowlist /\ ~ Reserved(ext.oid)
                      /\ Allowlist[ext.oid].encoding = "utf8"
                           => DecodeUtf8(ext.value) = custom[i].text
                      /\ Allowlist[ext.oid].encoding = "integer"
                           => DecodeInteger(ext.value) = custom[i].number
        <4>1. custom \in Seq(AskedOnes) /\ cert = ExternalUseExtensions(custom)
          BY <1>3 DEF CustomWritten, LetPass
        <4>2. cert[Len(cert) - Len(custom) + i] = CustomExtension(custom[i])
          BY <4>1, CustomStandBehind
        <4>3. custom[i] \in AskedOnes /\ i \in DOMAIN custom
          BY <4>1
        <4>4. ~ Refused(custom[i]) /\ CustomExtension(custom[i]).value # Unencodable
          BY <1>3, <4>3 DEF CustomWritten, LetPass
        <4> QED BY <4>2, <4>3, <4>4, CustomIsRead
      <3> QED BY <3>1 DEF CustomAreDeclared
    <2> QED BY <2>1, <2>2 DEF CertsAreReadAsWritten
  <1> QED BY <1>1, <1>2, <1>3 DEF WrittenInv

\* What the CA writes into a certificate is what msshd and the shim read out of
\* it: at every length of a text and for every base of a byte, names, channels,
\* command, environment and limit of a grant, and the text or number of an
\* extension that an operator declared.
THEOREM CertsAreRead == ExtensionsSpec => []CertsAreReadAsWritten
  <1>1. ExtensionsInit => WrittenInv
    BY DEF ExtensionsInit, WrittenInv, NothingWritten
  <1>2. WrittenInv /\ [ExtensionsNext]_extensionVars => WrittenInv'
    <2> SUFFICES ASSUME WrittenInv, [ExtensionsNext]_extensionVars PROVE WrittenInv'
      OBVIOUS
    <2>1. CASE MintAuthorization
      <3>1. grant = NoGrant /\ cert = Empty /\ custom = Empty /\ answer' # 0
        BY <2>1 DEF MintAuthorization, WrittenInv
      <3>2. CASE cert' = AuthorizationExtensions(grant') /\ grant'.limit >= NoLimit
        BY <2>1, <3>1, <3>2 DEF MintAuthorization, WrittenInv, GrantWritten
      <3>3. CASE UNCHANGED cert
        BY <3>1, <3>3 DEF WrittenInv, NothingWritten
      <3> QED BY <2>1, <3>2, <3>3 DEF MintAuthorization
    <2>2. CASE MintExternalUse
      <3>1. grant = NoGrant /\ cert = Empty /\ answer' # 0 /\ grant' = grant
        BY <2>2 DEF MintExternalUse, WrittenInv
      <3>2. custom' \in Seq(AskedOnes)
        <4>1. PICK asked \in AskedOnes, twice \in BOOLEAN :
                custom' = IF twice THEN <<asked, asked>> ELSE <<asked>>
          BY <2>2 DEF MintExternalUse
        <4>2. <<asked, asked>> \in Seq(AskedOnes) /\ <<asked>> \in Seq(AskedOnes)
          OBVIOUS
        <4> QED BY <4>1, <4>2
      <3>3. CASE UNCHANGED cert
        BY <3>1, <3>3 DEF WrittenInv, NothingWritten
      <3>4. ASSUME /\ cert' = ExternalUseExtensions(custom')
                   /\ \A i \in DOMAIN custom' :
                        ~ Refused(custom'[i]) /\ CustomExtension(custom'[i]).value # Unencodable
            PROVE  WrittenInv'
        BY <3>1, <3>2, <3>4 DEF WrittenInv, CustomWritten, LetPass
      <3>5. \/ UNCHANGED cert
            \/ /\ cert' = ExternalUseExtensions(custom')
               /\ \A i \in DOMAIN custom' :
                    ~ Refused(custom'[i]) /\ CustomExtension(custom'[i]).value # Unencodable
        BY <2>2 DEF MintExternalUse
      <3> QED BY <3>3, <3>4, <3>5
    <2>3. CASE UNCHANGED extensionVars
      BY <2>3 DEF extensionVars, WrittenInv, NothingWritten, GrantWritten, CustomWritten
    <2> QED BY <2>1, <2>2, <2>3 DEF ExtensionsNext
  <1>3. WrittenInv => CertsAreReadAsWritten
    BY WrittenIsRead
  <1> QED BY <1>1, <1>2, <1>3, PTL DEF ExtensionsSpec

-----------------------------------------------------------------------------
(* The shim                                                               *)

\* The rows that may be cached: each is of the login that its cert was minted for.
CacheRows(certs) ==
  {row \in [login : Login, serial : 1..Len(certs), made : 0..MaxNow] :
     certs[row.serial].login = row.login}

\* No login has two rows.
OneRowEach(s) == \A i, j \in DOMAIN s : s[i].login = s[j].login => i = j

\* The cache is a list of such rows, one a login, within its cap.
CacheInv == rows \in Seq(CacheRows(minted)) /\ OneRowEach(rows) /\ Len(rows) <= MaxRows

\* Where a call is.
Ats == {"asking", "granted", "denied", "done"}
\* Why it ended.
Reasons == {"nobody", "cache", "ca", "denial", "emergency", "error"}

\* What a call under way may know, given the minted certificates.
CallStates(certs) ==
  [at : Ats, login : Login, endpoint : 1..(Endpoints + 1), serial : 0..Len(certs),
   by : Reasons, when : 0..MaxNow, failed : 0..Endpoints]

\* What a call knows: how many endpoints failed it, whose cert it holds, and why
\* it ended.
CallSound(call, certs) ==
  /\ call \in CallStates(certs)
  /\ call.endpoint = call.failed + 1
  /\ call.at # "done" => call.by = "nobody"
  /\ call.at = "granted" \/ call.by \in {"ca", "cache"} =>
       call.serial # 0 /\ certs[call.serial].login = call.login
  /\ call.by = "ca" => call.when <= certs[call.serial].ends
  /\ call.by = "cache" => call.when < certs[call.serial].ends
  /\ call.by = "emergency" => call.failed = Endpoints

\* Every call is waiting or knows what it should.
CallsInv ==
  /\ DOMAIN calls = Call
  /\ \A c \in Call : calls[c] # Waiting => CallSound(calls[c], minted)

\* A cert lasts its lifetime from when it was minted, for a login that was
\* allowed then.
CertsInv ==
  \A n \in DOMAIN minted :
    /\ minted[n].ends <= now + CertLifetime
    /\ minted[n].login \notin allowed =>
         minted[n].ends <= since[minted[n].login] + CertLifetime

\* The certificates the CA mints for logins.
Certs == [login : Login, ends : Nat]

\* The types of the other variables.
ShimBasics ==
  /\ backend \in {"sqlite", "memory"}
  /\ now \in 0..MaxNow
  /\ allowed \subseteq Login
  /\ since \in [Login -> 0..MaxNow]
  /\ minted \in Seq(Certs)
  /\ emergency \in Nat

\* What every step of the shim, the CA and the clock keeps.
ShimInv == ShimBasics /\ CacheInv /\ CallsInv /\ CertsInv

\* A list without its i-th row: the rows behind it move up.
LEMMA RemovedAt ==
  ASSUME NEW S, NEW s \in Seq(S), NEW i \in DOMAIN s
  PROVE  /\ RemoveAt(s, i) \in Seq(S)
         /\ Len(RemoveAt(s, i)) = Len(s) - 1
         /\ \A n \in DOMAIN RemoveAt(s, i) :
              RemoveAt(s, i)[n] = IF n < i THEN s[n] ELSE s[n + 1]
  <1> DEFINE a == SubSeq(s, 1, i - 1)
             b == SubSeq(s, i + 1, Len(s))
  <1>1. i \in 1..Len(s) /\ Len(s) \in Nat
    OBVIOUS
  <1>2. /\ a \in Seq(S) /\ Len(a) = i - 1 /\ \A n \in 1..(i - 1) : a[n] = s[n]
    <2>1. \A n \in 1..(i - 1) : s[n] \in S
      BY <1>1
    <2>2. /\ a \in Seq(S) /\ Len(a) = (IF 1 <= i - 1 THEN (i - 1) - 1 + 1 ELSE 0)
          /\ \A n \in 1..((i - 1) - 1 + 1) : a[n] = s[1 + n - 1]
      BY <1>1, <2>1, SubSeqProperties
    <2>3. (i - 1) - 1 + 1 = i - 1 /\ \A n \in 1..(i - 1) : 1 + n - 1 = n
      BY <1>1
    <2>4. Len(a) = i - 1
      BY <1>1, <2>2, <2>3
    <2> QED BY <2>2, <2>3, <2>4
  <1>3. /\ b \in Seq(S) /\ Len(b) = Len(s) - i
        /\ \A n \in 1..(Len(s) - i) : b[n] = s[i + n]
    <2>1. \A n \in (i + 1)..Len(s) : s[n] \in S
      BY <1>1
    <2>2. /\ b \in Seq(S) /\ Len(b) = (IF i + 1 <= Len(s) THEN Len(s) - (i + 1) + 1 ELSE 0)
          /\ \A n \in 1..(Len(s) - (i + 1) + 1) : b[n] = s[(i + 1) + n - 1]
      BY <1>1, <2>1, SubSeqProperties
    <2>3. /\ Len(s) - (i + 1) + 1 = Len(s) - i
          /\ \A n \in 1..(Len(s) - i) : (i + 1) + n - 1 = i + n
      BY <1>1
    <2>4. Len(b) = Len(s) - i
      BY <1>1, <2>2, <2>3
    <2> QED BY <2>2, <2>3, <2>4
  <1> HIDE DEF a, b
  <1>4. /\ a \o b \in Seq(S) /\ Len(a \o b) = Len(s) - 1
    BY <1>1, <1>2, <1>3
  <1>5. ASSUME NEW n \in DOMAIN (a \o b)
        PROVE  (a \o b)[n] = IF n < i THEN s[n] ELSE s[n + 1]
    <2>1. n \in 1..(Len(s) - 1)
      BY <1>4
    <2>2. CASE n < i
      <3>1. n \in 1..(i - 1)
        BY <1>1, <2>1, <2>2
      <3>2. (a \o b)[n] = a[n]
        BY <1>2, <1>3, <3>1
      <3> QED BY <1>2, <2>2, <3>1, <3>2
    <2>3. CASE ~(n < i)
      <3>1. n - (i - 1) \in 1..(Len(s) - i) /\ i + (n - (i - 1)) = n + 1
        BY <1>1, <2>1, <2>3
      <3>2. (a \o b)[n] = b[n - (i - 1)]
        BY <1>1, <1>2, <1>3, <2>1, <2>3
      <3> QED BY <1>3, <2>3, <3>1, <3>2
    <2> QED BY <2>2, <2>3
  <1>6. RemoveAt(s, i) = a \o b
    BY DEF RemoveAt, a, b
  <1> QED BY <1>4, <1>5, <1>6

\* Without the row of a login, a list with one row a login holds none of that login.
LEMMA RemovedRow ==
  ASSUME NEW S, NEW s \in Seq(S), OneRowEach(s), NEW i \in DOMAIN s
  PROVE  /\ RemoveAt(s, i) \in Seq(S) /\ OneRowEach(RemoveAt(s, i))
         /\ Len(RemoveAt(s, i)) = Len(s) - 1
         /\ \A n \in DOMAIN RemoveAt(s, i) : RemoveAt(s, i)[n].login # s[i].login
  <1> DEFINE t == RemoveAt(s, i)
             at(n) == IF n < i THEN n ELSE n + 1
  <1>1. /\ t \in Seq(S) /\ Len(t) = Len(s) - 1
        /\ \A n \in DOMAIN t : t[n] = IF n < i THEN s[n] ELSE s[n + 1]
    BY RemovedAt
  <1> HIDE DEF t
  <1>2. \A n \in DOMAIN t : n \in Nat /\ at(n) \in DOMAIN s /\ at(n) # i /\ t[n] = s[at(n)]
    BY <1>1
  <1>3. \A m, n \in DOMAIN t : at(m) = at(n) => m = n
    BY <1>2
  <1> HIDE DEF at
  <1>4. OneRowEach(t)
    BY <1>2, <1>3 DEF OneRowEach
  <1>5. \A n \in DOMAIN t : t[n].login # s[i].login
    BY <1>2 DEF OneRowEach
  <1> QED BY <1>1, <1>4, <1>5 DEF t

\* The same for a login that may have no row.
LEMMA WithoutRow ==
  ASSUME NEW S, NEW s \in Seq(S), OneRowEach(s), NEW l
  PROVE  /\ Without(s, l) \in Seq(S) /\ OneRowEach(Without(s, l))
         /\ Len(Without(s, l)) <= Len(s)
         /\ \A n \in DOMAIN Without(s, l) : Without(s, l)[n].login # l
         /\ (\E i \in DOMAIN s : s[i].login = l) => Len(Without(s, l)) = Len(s) - 1
  <1> DEFINE own == {i \in DOMAIN s : s[i].login = l}
  <1>0. Len(s) \in Nat
    OBVIOUS
  <1>1. CASE own = {}
    BY <1>0, <1>1 DEF Without
  <1>2. CASE own # {}
    <2>1. PICK i \in own : i = CHOOSE n \in own : TRUE
      BY <1>2
    <2>2. Without(s, l) = RemoveAt(s, i)
      BY <1>2, <2>1 DEF Without
    <2>3. i \in DOMAIN s /\ s[i].login = l
      BY <2>1
    <2> QED BY <1>0, <2>2, <2>3, RemovedRow
  <1> QED BY <1>1, <1>2

\* A row of a login without one may be added.
LEMMA RowAppended ==
  ASSUME NEW S, NEW s \in Seq(S), OneRowEach(s), NEW row \in S,
         \A n \in DOMAIN s : s[n].login # row.login
  PROVE  /\ Append(s, row) \in Seq(S) /\ OneRowEach(Append(s, row))
         /\ Len(Append(s, row)) = Len(s) + 1
  <1> DEFINE t == Append(s, row)
  <1>1. /\ t \in Seq(S) /\ Len(t) = Len(s) + 1
        /\ \A n \in DOMAIN t : (n \in DOMAIN s /\ t[n] = s[n]) \/ (n = Len(s) + 1 /\ t[n] = row)
    OBVIOUS
  <1> HIDE DEF t
  <1>2. OneRowEach(t)
    BY <1>1 DEF OneRowEach
  <1> QED BY <1>1, <1>2 DEF t

\* get leaves a sound cache.
LEMMA GetIsSound ==
  ASSUME CacheInv, NEW l
  PROVE  /\ AfterGet(l) \in Seq(CacheRows(minted)) /\ OneRowEach(AfterGet(l))
         /\ Len(AfterGet(l)) <= MaxRows
  <1>0. /\ rows \in Seq(CacheRows(minted)) /\ OneRowEach(rows) /\ Len(rows) <= MaxRows
        /\ Len(rows) \in Nat /\ MaxRows \in Nat
    BY ShimAssumption DEF CacheInv
  <1>1. CASE AfterGet(l) = rows
    BY <1>0, <1>1
  <1>2. CASE AfterGet(l) = Without(rows, l)
    <2>1. Without(rows, l) \in Seq(CacheRows(minted)) /\ Len(Without(rows, l)) <= Len(rows)
          /\ OneRowEach(Without(rows, l))
      BY <1>0, WithoutRow
    <2>2. Len(Without(rows, l)) \in Nat
      BY <2>1
    <2>3. Len(Without(rows, l)) <= MaxRows
      BY <1>0, <2>1, <2>2
    <2> QED BY <1>2, <2>1, <2>3
  <1>3. ASSUME NEW i \in Found(l), AfterGet(l) = Append(Without(rows, l), rows[i])
        PROVE  /\ AfterGet(l) \in Seq(CacheRows(minted)) /\ OneRowEach(AfterGet(l))
               /\ Len(AfterGet(l)) <= MaxRows
    <2>1. i \in DOMAIN rows /\ rows[i].login = l /\ rows[i] \in CacheRows(minted)
      BY <1>0 DEF Found
    <2>2. /\ Without(rows, l) \in Seq(CacheRows(minted)) /\ OneRowEach(Without(rows, l))
          /\ Len(Without(rows, l)) = Len(rows) - 1
          /\ \A n \in DOMAIN Without(rows, l) : Without(rows, l)[n].login # l
      BY <1>0, <2>1, WithoutRow
    <2>3. /\ AfterGet(l) \in Seq(CacheRows(minted)) /\ OneRowEach(AfterGet(l))
          /\ Len(AfterGet(l)) = Len(Without(rows, l)) + 1
      BY <1>3, <2>1, <2>2, RowAppended
    <2>4. Len(AfterGet(l)) = Len(rows)
      BY <1>0, <2>2, <2>3
    <2> QED BY <1>0, <2>3, <2>4
  <1>4. CASE Found(l) = {}
    BY <1>1, <1>4 DEF AfterGet
  <1>5. CASE Found(l) # {}
    <2>1. PICK i \in Found(l) : i = CHOOSE n \in Found(l) : TRUE
      BY <1>5
    <2> QED BY <1>1, <1>2, <1>3, <1>5, <2>1 DEF AfterGet
  <1> QED BY <1>4, <1>5

\* put leaves a sound cache within its cap, whichever row it evicts.
LEMMA PutIsSound ==
  ASSUME CacheInv, now \in 0..MaxNow, NEW l \in Login, NEW serial \in 1..Len(minted),
         minted[serial].login = l, NEW s \in Puts(l, serial)
  PROVE  s \in Seq(CacheRows(minted)) /\ OneRowEach(s) /\ Len(s) <= MaxRows
  <1> DEFINE row == [login |-> l, serial |-> serial, made |-> now]
             t == Append(Without(rows, l), row)
  <1>0. /\ rows \in Seq(CacheRows(minted)) /\ OneRowEach(rows) /\ Len(rows) <= MaxRows
        /\ Len(rows) \in Nat /\ MaxRows \in Nat /\ MaxRows >= 1
    BY ShimAssumption DEF CacheInv
  <1>1. row \in CacheRows(minted) /\ row.login = l
    BY DEF CacheRows
  <1> HIDE DEF row
  <1>2. /\ Without(rows, l) \in Seq(CacheRows(minted)) /\ OneRowEach(Without(rows, l))
        /\ Len(Without(rows, l)) <= Len(rows)
        /\ \A n \in DOMAIN Without(rows, l) : Without(rows, l)[n].login # l
    BY <1>0, WithoutRow
  <1>3. t \in Seq(CacheRows(minted)) /\ OneRowEach(t) /\ Len(t) = Len(Without(rows, l)) + 1
    BY <1>1, <1>2, RowAppended
  <1> HIDE DEF t
  <1>4. Len(Without(rows, l)) \in Nat
    BY <1>2
  <1>5. Len(t) \in Nat /\ 1 <= Len(t) /\ Len(t) <= MaxRows + 1
    BY <1>0, <1>2, <1>3, <1>4
  <1>6. s \in IF Len(t) <= MaxRows THEN {t} ELSE {RemoveAt(t, i) : i \in First(t)}
    BY DEF Puts, t, row
  <1>7. CASE s = t /\ Len(t) <= MaxRows
    BY <1>3, <1>7
  <1>8. ASSUME NEW i \in First(t), s = RemoveAt(t, i)
        PROVE  s \in Seq(CacheRows(minted)) /\ OneRowEach(s) /\ Len(s) <= MaxRows
    <2>1. i \in DOMAIN t
      BY <1>3, <1>5 DEF First
    <2>2. s \in Seq(CacheRows(minted)) /\ OneRowEach(s) /\ Len(s) = Len(t) - 1
      BY <1>3, <1>8, <2>1, RemovedRow
    <2>3. Len(t) - 1 <= MaxRows
      BY <1>0, <1>5
    <2> QED BY <2>2, <2>3
  <1> QED BY <1>6, <1>7, <1>8

\* The members of the two sets of words.
LEMMA Words ==
  /\ "asking" \in Ats /\ "granted" \in Ats /\ "denied" \in Ats /\ "done" \in Ats
  /\ "nobody" \in Reasons /\ "cache" \in Reasons /\ "ca" \in Reasons
  /\ "denial" \in Reasons /\ "emergency" \in Reasons /\ "error" \in Reasons
  BY DEF Ats, Reasons

\* A call that is there is not the idle one: it has other fields.
LEMMA CallIsThere ==
  ASSUME NEW certs, NEW call \in CallStates(certs)
  PROVE  call # Waiting
  <1>1. DOMAIN call = {"at", "login", "endpoint", "serial", "by", "when", "failed"}
    BY DEF CallStates
  <1>2. DOMAIN Waiting = {"at"}
    BY DEF Waiting
  <1> QED BY <1>1, <1>2

\* What the fields of a call are.
LEMMA CallFields ==
  ASSUME NEW certs \in Seq(Certs), NEW call \in CallStates(certs)
  PROVE  /\ call.at \in Ats /\ call.login \in Login /\ call.endpoint \in Nat
         /\ call.endpoint >= 1 /\ call.endpoint <= Endpoints + 1
         /\ call.serial \in 0..Len(certs) /\ call.by \in Reasons
         /\ call.when \in 0..MaxNow /\ call.when \in Nat
         /\ call.failed \in 0..Endpoints /\ call.failed \in Nat
         /\ call.serial # 0 => /\ call.serial \in DOMAIN certs
                               /\ certs[call.serial] \in Certs
                               /\ certs[call.serial].ends \in Nat
                               /\ certs[call.serial].login \in Login
  <1>1. /\ call.at \in Ats /\ call.login \in Login /\ call.endpoint \in 1..(Endpoints + 1)
        /\ call.serial \in 0..Len(certs) /\ call.by \in Reasons
        /\ call.when \in 0..MaxNow /\ call.failed \in 0..Endpoints
    BY DEF CallStates
  <1>2. call.serial # 0 => call.serial \in DOMAIN certs
    BY <1>1
  <1>3. call.serial # 0 => certs[call.serial] \in Certs
    BY <1>2
  <1>4. call.serial # 0 => certs[call.serial].ends \in Nat /\ certs[call.serial].login \in Login
    BY <1>3 DEF Certs
  <1> QED BY <1>1, <1>2, <1>3, <1>4, ShimAssumption

\* A call and a row stay sound when a cert is minted.
LEMMA CallStaysSound ==
  ASSUME NEW certs \in Seq(Certs), NEW fresh \in Certs, NEW call, CallSound(call, certs)
  PROVE  CallSound(call, Append(certs, fresh))
  <1> DEFINE more == Append(certs, fresh)
  <1>1. /\ Len(more) = Len(certs) + 1 /\ Len(certs) \in Nat
        /\ \A n \in 1..Len(certs) : more[n] = certs[n]
    OBVIOUS
  <1> HIDE DEF more
  <1>2. call \in CallStates(more)
    BY <1>1 DEF CallStates, CallSound
  <1>3. call.serial \in 0..Len(certs) /\ (call.serial # 0 => call.serial \in 1..Len(certs))
    BY <1>1 DEF CallStates, CallSound
  <1>4. call.serial # 0 => more[call.serial] = certs[call.serial]
    BY <1>1, <1>3
  <1>5. CallSound(call, more)
    BY <1>2, <1>4, Zenon DEF CallSound
  <1> QED BY <1>5 DEF more

\* Rows that may be cached still may be when one more certificate is minted.
LEMMA RowsStaySound ==
  ASSUME NEW certs \in Seq(Certs), NEW fresh \in Certs
  PROVE  CacheRows(certs) \subseteq CacheRows(Append(certs, fresh))
  <1> DEFINE more == Append(certs, fresh)
  <1>1. /\ Len(more) = Len(certs) + 1 /\ Len(certs) \in Nat
        /\ \A n \in 1..Len(certs) : more[n] = certs[n]
    OBVIOUS
  <1> HIDE DEF more
  <1>2. CacheRows(certs) \subseteq CacheRows(more)
    BY <1>1 DEF CacheRows
  <1> QED BY <1>2 DEF more

\* The invariant holds when the shim starts.
THEOREM ShimInitially == ShimInit => ShimInv
  <1> SUFFICES ASSUME ShimInit PROVE ShimInv
    OBVIOUS
  <1>1. ShimBasics
    BY ShimAssumption DEF ShimInit, ShimBasics
  <1>2. CacheInv
    BY ShimAssumption DEF ShimInit, CacheInv, OneRowEach
  <1>3. CallsInv
    BY DEF ShimInit, CallsInv
  <1>4. CertsInv
    BY DEF ShimInit, CertsInv
  <1> QED BY <1>1, <1>2, <1>3, <1>4 DEF ShimInv

\* The calls that an action leaves alone stay sound; so it is enough to look at
\* the one that moves.
LEMMA CallMoves ==
  ASSUME CallsInv, NEW c \in Call, NEW call, minted' = minted,
         calls' = [calls EXCEPT ![c] = call],
         call # Waiting => CallSound(call, minted)
  PROVE  CallsInv'
  <1>1. DOMAIN calls' = Call
    BY DEF CallsInv
  <1>2. \A d \in Call : calls'[d] = IF d = c THEN call ELSE calls[d]
    BY DEF CallsInv
  <1>3. \A d \in Call : calls'[d] # Waiting => CallSound(calls'[d], minted)
    BY <1>2 DEF CallsInv
  <1> QED BY <1>1, <1>3, Zenon DEF CallsInv

\* What the fields of a certificate are.
LEMMA CertFields ==
  ASSUME NEW certs \in Seq(Certs), NEW n \in DOMAIN certs
  PROVE  certs[n] \in Certs /\ certs[n].ends \in Nat /\ certs[n].login \in Login
  <1>1. certs[n] \in Certs
    OBVIOUS
  <1> QED BY <1>1 DEF Certs

\* Only a cert that is minted, and a policy that changes, touch what the certs say.
LEMMA CertsStay ==
  ASSUME ShimBasics, CertsInv, UNCHANGED <<allowed, since, minted>>, now' \in {now, now + 1}
  PROVE  CertsInv'
  <1>1. ASSUME NEW n \in DOMAIN minted
        PROVE  minted[n].ends <= now' + CertLifetime
    <2>1. minted[n].ends \in Nat
      BY CertFields DEF ShimBasics
    <2>2. minted[n].ends <= now + CertLifetime
      BY DEF CertsInv
    <2>3. now \in Nat /\ CertLifetime \in Nat
      BY ShimAssumption DEF ShimBasics
    <2> QED BY <2>1, <2>2, <2>3
  <1> QED BY <1>1 DEF CertsInv

\* A step that leaves the cache alone keeps it sound.
LEMMA CacheStays ==
  ASSUME CacheInv, UNCHANGED <<rows, minted>>
  PROVE  CacheInv'
  BY DEF CacheInv, CacheRows, OneRowEach

\* A step that leaves the calls alone keeps them sound.
LEMMA CallsStay ==
  ASSUME CallsInv, UNCHANGED <<calls, minted>>
  PROVE  CallsInv'
  BY DEF CallsInv

\* What a call under way knows.
LEMMA CallAt ==
  ASSUME ShimBasics, CallsInv, NEW c \in Call, calls[c] # Waiting
  PROVE  /\ CallSound(calls[c], minted)
         /\ calls[c] \in CallStates(minted)
         /\ calls[c].at \in Ats /\ calls[c].login \in Login
         /\ calls[c].endpoint \in Nat /\ calls[c].endpoint >= 1
         /\ calls[c].endpoint <= Endpoints + 1
         /\ calls[c].serial \in 0..Len(minted) /\ calls[c].by \in Reasons
         /\ calls[c].when \in 0..MaxNow /\ calls[c].failed \in 0..Endpoints
         /\ calls[c].failed \in Nat
         /\ calls[c].endpoint = calls[c].failed + 1
  BY CallFields DEF CallsInv, CallSound, ShimBasics

\* A stutter keeps the invariant.
LEMMA ShimStutter ==
  ASSUME ShimInv, UNCHANGED shimVars
  PROVE  ShimInv'
  <1>1. ShimBasics' /\ now' = now
    BY DEF ShimInv, ShimBasics, shimVars
  <1>2. CacheInv' /\ CallsInv' /\ CertsInv'
    BY CacheStays, CallsStay, CertsStay, <1>1 DEF ShimInv, shimVars
  <1> QED BY <1>1, <1>2 DEF ShimInv

\* Time passes.
LEMMA TickStep ==
  ASSUME ShimInv, Tick
  PROVE  ShimInv'
  <1>1. ShimBasics' /\ now' \in {now, now + 1}
    BY ShimAssumption DEF ShimInv, ShimBasics, Tick
  <1>2. CacheInv' /\ CallsInv' /\ CertsInv'
    BY CacheStays, CallsStay, CertsStay, <1>1 DEF ShimInv, Tick
  <1> QED BY <1>1, <1>2 DEF ShimInv

\* A call that ended makes room for another.
LEMMA LeaveStep ==
  ASSUME ShimInv, NEW c \in Call, Leave(c)
  PROVE  ShimInv'
  <1>1. ShimBasics' /\ now' \in {now, now + 1}
    BY DEF ShimInv, ShimBasics, Leave
  <1>2. CallsInv'
    BY CallMoves DEF ShimInv, Leave
  <1>3. CacheInv' /\ CertsInv'
    BY CacheStays, CertsStay, <1>1 DEF ShimInv, Leave
  <1> QED BY <1>1, <1>2, <1>3 DEF ShimInv

\* A login may come in again.
LEMMA AllowStep ==
  ASSUME ShimInv, NEW l \in Login, Allow(l)
  PROVE  ShimInv'
  <1>1. ShimBasics'
    BY ShimAssumption DEF ShimInv, ShimBasics, Allow
  <1>2. CacheInv' /\ CallsInv'
    BY CacheStays, CallsStay DEF ShimInv, Allow
  <1>3. ASSUME NEW n \in DOMAIN minted
        PROVE  /\ minted[n].ends <= now + CertLifetime
               /\ minted[n].login \notin allowed \cup {l} =>
                    minted[n].ends <= [since EXCEPT ![l] = 0][minted[n].login] + CertLifetime
    <2>1. minted[n].login \in Login
      BY CertFields DEF ShimInv, ShimBasics
    <2> QED BY <2>1 DEF ShimInv, CertsInv, ShimBasics
  <1>4. CertsInv'
    BY <1>3 DEF CertsInv, Allow
  <1> QED BY <1>1, <1>2, <1>4 DEF ShimInv

\* A login may no longer come in: no cert of its is minted from now on.
LEMMA DisallowStep ==
  ASSUME ShimInv, NEW l \in Login, Disallow(l)
  PROVE  ShimInv'
  <1>1. ShimBasics'
    BY ShimAssumption DEF ShimInv, ShimBasics, Disallow
  <1>2. CacheInv' /\ CallsInv'
    BY CacheStays, CallsStay DEF ShimInv, Disallow
  <1>3. ASSUME NEW n \in DOMAIN minted
        PROVE  /\ minted[n].ends <= now + CertLifetime
               /\ minted[n].login \notin allowed \ {l} =>
                    minted[n].ends <= [since EXCEPT ![l] = now][minted[n].login] + CertLifetime
    <2>1. minted[n].login \in Login
      BY CertFields DEF ShimInv, ShimBasics
    <2> QED BY <2>1 DEF ShimInv, CertsInv, ShimBasics
  <1>4. CertsInv'
    BY <1>3 DEF CertsInv, Disallow
  <1> QED BY <1>1, <1>2, <1>4 DEF ShimInv

\* The steps of a call that touch neither the certs nor the cache.
LEMMA CallSteps ==
  ASSUME ShimInv, NEW c \in Call, NEW call, calls' = [calls EXCEPT ![c] = call],
         call # Waiting => CallSound(call, minted),
         UNCHANGED <<backend, now, allowed, since, minted, rows, emergency>>
  PROVE  ShimInv'
  <1>1. ShimBasics' /\ now' \in {now, now + 1}
    BY DEF ShimInv, ShimBasics
  <1>2. CallsInv'
    BY CallMoves DEF ShimInv
  <1>3. CacheInv' /\ CertsInv'
    BY CacheStays, CertsStay, <1>1 DEF ShimInv
  <1> QED BY <1>1, <1>2, <1>3 DEF ShimInv

\* An endpoint fails and the next one is asked.
LEMMA NextEndpointStep ==
  ASSUME ShimInv, NEW c \in Call, NextEndpoint(c)
  PROVE  ShimInv'
  <1> DEFINE old == calls[c]
             call == [old EXCEPT !.at = "asking", !.endpoint = @ + 1,
                                 !.serial = 0, !.failed = @ + 1]
  <1>0. c \in DOMAIN calls
    BY DEF ShimInv, CallsInv
  <1>1. calls' = [calls EXCEPT ![c] = call]
    BY <1>0 DEF NextEndpoint
  <1>2. old # Waiting
    BY DEF NextEndpoint, Waiting
  <1>3. /\ CallSound(old, minted) /\ old \in CallStates(minted)
        /\ old.endpoint \in Nat /\ old.endpoint >= 1 /\ old.endpoint <= Endpoints
        /\ old.failed \in Nat /\ old.endpoint = old.failed + 1
        /\ old.at # "done"
    BY <1>2, CallAt DEF NextEndpoint, ShimInv
  <1> HIDE DEF old
  <1>4. /\ old.endpoint + 1 \in 1..(Endpoints + 1) /\ old.failed + 1 \in 0..Endpoints
        /\ 0 \in 0..Len(minted)
    BY <1>3, ShimAssumption DEF ShimInv, ShimBasics
  <1>5. call \in CallStates(minted)
    BY <1>3, <1>4, Words DEF CallStates
  <1>6. /\ call.at = "asking" /\ call.by = old.by /\ call.serial = 0
        /\ call.endpoint = old.endpoint + 1 /\ call.failed = old.failed + 1
    BY <1>3 DEF CallStates
  <1>7. old.by = "nobody"
    BY <1>3 DEF CallSound
  <1> HIDE DEF call
  <1>8. CallSound(call, minted)
    BY <1>3, <1>5, <1>6, <1>7 DEF CallSound
  <1> QED BY <1>1, <1>8, CallSteps DEF NextEndpoint

\* How a call that is there ends, and how that changes it.
LEMMA Settled ==
  ASSUME ShimInv, NEW c \in Call, calls[c] # Waiting, NEW by \in Reasons,
         NEW serial \in 0..Len(minted), Settle(c, by, serial),
         \/ by = "denial" \/ by = "error"
         \/ by = "emergency" /\ calls[c].failed = Endpoints
         \/ /\ by = "ca" /\ serial # 0
            /\ minted[serial].login = calls[c].login
            /\ now <= minted[serial].ends
  PROVE  \E call : calls' = [calls EXCEPT ![c] = call] /\ CallSound(call, minted)
  <1> DEFINE old == calls[c]
             call == [old EXCEPT !.at = "done", !.by = by, !.serial = serial, !.when = now]
  <1>0. c \in DOMAIN calls
    BY DEF ShimInv, CallsInv
  <1>1. calls' = [calls EXCEPT ![c] = call]
    BY <1>0 DEF Settle
  <1>2. /\ CallSound(old, minted) /\ old \in CallStates(minted)
        /\ old.endpoint = old.failed + 1
    BY CallAt DEF ShimInv
  <1>3. now \in 0..MaxNow
    BY DEF ShimInv, ShimBasics
  <1>a. \/ by = "denial" \/ by = "error"
        \/ by = "emergency" /\ old.failed = Endpoints
        \/ /\ by = "ca" /\ serial # 0
           /\ minted[serial].login = old.login
           /\ now <= minted[serial].ends
    OBVIOUS
  <1> HIDE DEF old
  <1>5. call \in CallStates(minted)
    BY <1>2, <1>3, Words DEF CallStates
  <1>6. /\ call.at = "done" /\ call.by = by /\ call.serial = serial /\ call.when = now
        /\ call.endpoint = old.endpoint /\ call.failed = old.failed /\ call.login = old.login
    BY <1>2 DEF CallStates
  <1> HIDE DEF call
  <1>8. CallSound(call, minted)
    BY <1>2, <1>a, <1>5, <1>6 DEF CallSound
  <1> QED BY <1>1, <1>8

\* The CA's denial ends a call.
LEMMA TakeDenialStep ==
  ASSUME ShimInv, NEW c \in Call, TakeDenial(c)
  PROVE  ShimInv'
  <1>1. calls[c] # Waiting
    BY DEF TakeDenial, Waiting
  <1>2. 0 \in 0..Len(minted)
    BY DEF ShimInv, ShimBasics
  <1>3. PICK call : calls' = [calls EXCEPT ![c] = call] /\ CallSound(call, minted)
    BY <1>1, <1>2, Settled, Words DEF TakeDenial
  <1> QED BY <1>3, CallSteps DEF TakeDenial

\* All endpoints failed: the emergency keys end the call, or nothing does.
LEMMA AllFailedStep ==
  ASSUME ShimInv, NEW c \in Call, AllFailed(c)
  PROVE  ShimInv'
  <1>1. calls[c] # Waiting
    BY DEF AllFailed, Waiting
  <1>2. 0 \in 0..Len(minted)
    BY DEF ShimInv, ShimBasics
  <1>3. /\ calls[c].endpoint \in Nat /\ calls[c].endpoint > Endpoints
        /\ calls[c].endpoint <= Endpoints + 1
        /\ calls[c].failed \in Nat /\ calls[c].endpoint = calls[c].failed + 1
    BY <1>1, CallAt DEF AllFailed, ShimInv
  <1>4. calls[c].failed = Endpoints
    BY <1>3, ShimAssumption
  <1>5. Settle(c, "emergency", 0) \/ Settle(c, "error", 0)
    BY DEF AllFailed
  <1>6. PICK call : calls' = [calls EXCEPT ![c] = call] /\ CallSound(call, minted)
    BY <1>1, <1>2, <1>4, <1>5, Settled, Words
  <1> QED BY <1>6, CallSteps DEF AllFailed

\* The CA's grant is cached and ends a call.
LEMMA TakeGrantStep ==
  ASSUME ShimInv, NEW c \in Call, TakeGrant(c)
  PROVE  ShimInv'
  <1> DEFINE serial == calls[c].serial
  <1>1. calls[c] # Waiting
    BY DEF TakeGrant, Waiting
  <1>2. 0 \in 0..Len(minted)
    BY DEF ShimInv, ShimBasics
  <1>3. CallSound(calls[c], minted) /\ calls[c].login \in Login /\ serial \in 0..Len(minted)
    BY <1>1, CallAt DEF ShimInv
  <1>4. serial # 0 /\ minted[serial].login = calls[c].login
    BY <1>3 DEF CallSound, TakeGrant
  <1>5. serial \in 1..Len(minted) /\ serial \in DOMAIN minted /\ now \in Nat
    BY <1>3, <1>4 DEF ShimInv, ShimBasics
  <1>6. minted[serial].ends \in Nat
    BY <1>5, CertFields DEF ShimInv, ShimBasics
  <1> HIDE DEF serial
  <1>7. CASE Settle(c, "error", 0) /\ UNCHANGED rows
    <2>1. PICK call : calls' = [calls EXCEPT ![c] = call] /\ CallSound(call, minted)
      BY <1>1, <1>2, <1>7, Settled, Words
    <2> QED BY <1>7, <2>1, CallSteps DEF TakeGrant
  <1>8. CASE /\ minted[serial].ends >= now
             /\ Settle(c, "ca", serial) /\ rows' \in Puts(calls[c].login, serial)
    <2>1. PICK call : calls' = [calls EXCEPT ![c] = call] /\ CallSound(call, minted)
      <3>1. now <= minted[serial].ends
        BY <1>5, <1>6, <1>8
      <3>2. Settle(c, "ca", serial) /\ serial \in 0..Len(minted) /\ "ca" \in Reasons
        BY <1>3, <1>8, Words DEF serial
      <3> QED BY <1>1, <1>4, <3>1, <3>2, Settled
    <2>2. UNCHANGED <<backend, now, allowed, since, minted, emergency>>
      BY DEF TakeGrant
    <2>3. ShimBasics' /\ now' \in {now, now + 1}
      BY <2>2 DEF ShimInv, ShimBasics
    <2>4. CallsInv'
      BY <2>1, <2>2, CallMoves DEF ShimInv
    <2>5. CertsInv'
      BY <2>2, <2>3, CertsStay DEF ShimInv
    <2>6. rows' \in Seq(CacheRows(minted)) /\ OneRowEach(rows') /\ Len(rows') <= MaxRows
      BY <1>3, <1>4, <1>5, <1>8, PutIsSound DEF ShimInv, ShimBasics
    <2>7. CacheInv'
      BY <2>2, <2>6, Zenon DEF CacheInv, CacheRows, OneRowEach
    <2> QED BY <2>3, <2>4, <2>5, <2>7 DEF ShimInv
  <1> QED BY <1>7, <1>8 DEF TakeGrant, serial

\* A new call is answered from the cache or goes to the CA.
LEMMA LookupStep ==
  ASSUME ShimInv, NEW c \in Call, NEW l \in Login, Lookup(c, l)
  PROVE  ShimInv'
  <1> DEFINE hit == {i \in Found(l) : Fresh(rows[i])}
             call == [at |-> IF hit = {} THEN "asking" ELSE "done", login |-> l, endpoint |-> 1,
                      serial |-> IF hit = {} THEN 0 ELSE rows[CHOOSE i \in hit : TRUE].serial,
                      by |-> IF hit = {} THEN "nobody" ELSE "cache",
                      when |-> IF hit = {} THEN 0 ELSE now, failed |-> 0]
  <1>1. /\ calls' = [calls EXCEPT ![c] = call] /\ rows' = AfterGet(l)
        /\ UNCHANGED <<backend, now, allowed, since, minted, emergency>>
    BY DEF Lookup
  <1>2. /\ 1 \in 1..(Endpoints + 1) /\ 0 \in 0..Endpoints /\ 0 \in 0..MaxNow
        /\ now \in 0..MaxNow /\ now \in Nat /\ 0 \in 0..Len(minted)
    BY ShimAssumption DEF ShimInv, ShimBasics
  <1>3. ASSUME hit = {} PROVE CallSound(call, minted)
    <2> DEFINE miss == [at |-> "asking", login |-> l, endpoint |-> 1, serial |-> 0,
                        by |-> "nobody", when |-> 0, failed |-> 0]
    <2>1. call = miss
      BY <1>3
    <2>2. miss \in CallStates(minted)
      BY <1>2, Words DEF CallStates
    <2>3. CallSound(miss, minted)
      BY <2>2 DEF CallSound
    <2> QED BY <2>1, <2>3
  <1>4. ASSUME hit # {} PROVE CallSound(call, minted)
    <2> DEFINE row == rows[CHOOSE i \in hit : TRUE]
               taken == [at |-> "done", login |-> l, endpoint |-> 1, serial |-> row.serial,
                         by |-> "cache", when |-> now, failed |-> 0]
    <2>1. PICK i \in hit : row = rows[i]
      BY <1>4
    <2>2. call = taken
      BY <1>4
    <2>3. i \in DOMAIN rows /\ row.login = l /\ Fresh(row)
      BY <2>1 DEF Found
    <2>4. row \in CacheRows(minted)
      BY <2>1, <2>3 DEF ShimInv, CacheInv
    <2> HIDE DEF row, hit
    <2>5. /\ row.serial \in 1..Len(minted) /\ minted[row.serial].login = l
      BY <2>3, <2>4 DEF CacheRows
    <2>6. /\ row.serial \in DOMAIN minted /\ row.serial \in 0..Len(minted) /\ row.serial # 0
      BY <2>5 DEF ShimInv, ShimBasics
    <2>7. minted[row.serial].ends \in Nat
      BY <2>6, CertFields DEF ShimInv, ShimBasics
    <2>8. now < minted[row.serial].ends
      BY <1>2, <2>3, <2>7 DEF Fresh, EndOf
    <2>9. taken \in CallStates(minted)
      BY <1>2, <2>6, Words DEF CallStates
    <2>10. CallSound(taken, minted)
      BY <2>5, <2>6, <2>8, <2>9 DEF CallSound
    <2> QED BY <2>2, <2>10
  <1> HIDE DEF call, hit
  <1>5. CallSound(call, minted)
    BY <1>3, <1>4
  <1>6. ShimBasics' /\ now' \in {now, now + 1}
    BY <1>1 DEF ShimInv, ShimBasics
  <1>7. CallsInv'
    BY <1>1, <1>5, CallMoves DEF ShimInv
  <1>8. CertsInv'
    BY <1>1, <1>6, CertsStay DEF ShimInv
  <1>9. rows' \in Seq(CacheRows(minted)) /\ OneRowEach(rows') /\ Len(rows') <= MaxRows
    BY <1>1, GetIsSound DEF ShimInv
  <1>10. CacheInv'
    BY <1>1, <1>9, Zenon DEF CacheInv, CacheRows, OneRowEach
  <1> QED BY <1>6, <1>7, <1>8, <1>10 DEF ShimInv

\* The CA grants a call a certificate or denies it.
LEMMA ServeStep ==
  ASSUME ShimInv, NEW c \in Call, Serve(c)
  PROVE  ShimInv'
  <1> DEFINE old == calls[c]
  <1>0. c \in DOMAIN calls /\ minted \in Seq(Certs) /\ now \in Nat /\ CertLifetime \in Nat
    BY ShimAssumption DEF ShimInv, CallsInv, ShimBasics
  <1>1. old # Waiting
    BY DEF Serve, Waiting
  <1>2. /\ CallSound(old, minted) /\ old \in CallStates(minted) /\ old.login \in Login
        /\ old.endpoint = old.failed + 1 /\ old.at = "asking"
    BY <1>1, CallAt DEF ShimInv, Serve
  <1>3. old.by = "nobody"
    BY <1>2 DEF CallSound
  <1>4. CASE old.login \notin allowed
    <2> DEFINE call == [old EXCEPT !.at = "denied"]
    <2>1. calls' = [calls EXCEPT ![c] = call] /\ UNCHANGED minted
      BY <1>0, <1>4 DEF Serve
    <2> HIDE DEF old
    <2>2. call \in CallStates(minted)
      BY <1>2, Words DEF CallStates
    <2>3. /\ call.at = "denied" /\ call.by = old.by /\ call.serial = old.serial
          /\ call.endpoint = old.endpoint /\ call.failed = old.failed
      BY <1>2 DEF CallStates
    <2> HIDE DEF call
    <2>4. CallSound(call, minted)
      BY <1>2, <1>3, <2>2, <2>3 DEF CallSound
    <2> QED BY <2>1, <2>4, CallSteps DEF Serve
  <1>5. CASE old.login \in allowed
    <2> DEFINE fresh == [login |-> old.login, ends |-> now + CertLifetime]
               more == Append(minted, fresh)
               call == [old EXCEPT !.at = "granted", !.serial = Len(more)]
    <2>1. /\ calls' = [calls EXCEPT ![c] = call] /\ minted' = more
          /\ UNCHANGED <<backend, now, allowed, since, rows, emergency>>
      BY <1>0, <1>5 DEF Serve
    <2>2. fresh \in Certs /\ fresh.login = old.login /\ fresh.ends = now + CertLifetime
      BY <1>0, <1>2 DEF Certs
    <2> HIDE DEF fresh
    <2>3. /\ more \in Seq(Certs) /\ Len(more) = Len(minted) + 1 /\ Len(minted) \in Nat
          /\ more[Len(more)] = fresh
          /\ \A n \in 1..Len(minted) : more[n] = minted[n]
          /\ \A n \in DOMAIN more : n \in DOMAIN minted \/ n = Len(more)
      BY <1>0, <2>2
    <2>4. ShimBasics'
      BY <2>1, <2>3 DEF ShimInv, ShimBasics
    <2>5. CacheRows(minted) \subseteq CacheRows(more)
      BY <1>0, <2>2, RowsStaySound
    <2>6. \A k : CallSound(k, minted) => CallSound(k, more)
      BY <1>0, <2>2, CallStaysSound
    <2> HIDE DEF more, old
    <2>7. rows \in Seq(CacheRows(more))
      BY <2>5, SeqMonotonic DEF ShimInv, CacheInv
    <2>8. CacheInv'
      BY <2>1, <2>7 DEF ShimInv, CacheInv, OneRowEach, CacheRows
    <2>9. Len(more) \in 0..Len(more) /\ Len(more) # 0
      BY <2>3
    <2>10. call \in CallStates(more)
      <3>1. old \in CallStates(more)
        BY <1>2, <2>6 DEF CallSound
      <3> QED BY <3>1, <2>9, Words DEF CallStates
    <2>11. /\ call.at = "granted" /\ call.by = old.by /\ call.serial = Len(more)
           /\ call.endpoint = old.endpoint /\ call.failed = old.failed /\ call.login = old.login
      BY <1>2 DEF CallStates
    <2> HIDE DEF call
    <2>12. CallSound(call, more)
      BY <1>2, <1>3, <2>2, <2>3, <2>9, <2>10, <2>11 DEF CallSound
    <2>13. CallsInv'
      <3>1. DOMAIN calls' = Call
        BY <2>1 DEF ShimInv, CallsInv
      <3>2. \A d \in Call : calls'[d] = IF d = c THEN call ELSE calls[d]
        BY <2>1 DEF ShimInv, CallsInv
      <3>3. \A d \in Call : calls'[d] # Waiting => CallSound(calls'[d], more)
        BY <2>6, <2>12, <3>2 DEF ShimInv, CallsInv
      <3> QED BY <2>1, <3>1, <3>3, Zenon DEF CallsInv
    <2>14. \A n \in DOMAIN more :
             /\ more[n].ends <= now + CertLifetime
             /\ more[n].login \notin allowed => more[n].ends <= since[more[n].login] + CertLifetime
      <3>1. ASSUME NEW n \in DOMAIN minted
            PROVE  /\ more[n].ends <= now + CertLifetime
                   /\ more[n].login \notin allowed =>
                        more[n].ends <= since[more[n].login] + CertLifetime
        <4>1. more[n] = minted[n]
          BY <1>0, <2>3
        <4> QED BY <4>1 DEF ShimInv, CertsInv
      <3>2. /\ more[Len(more)].ends <= now + CertLifetime
            /\ more[Len(more)].login \in allowed
        BY <1>0, <1>5, <2>2, <2>3
      <3> QED BY <2>3, <3>1, <3>2
    <2>15. CertsInv'
      BY <2>1, <2>14 DEF CertsInv
    <2> QED BY <2>4, <2>8, <2>13, <2>15 DEF ShimInv
  <1> QED BY <1>4, <1>5

\* Every step keeps the invariant.
LEMMA ShimStep ==
  ASSUME ShimInv, [ShimNext]_shimVars
  PROVE  ShimInv'
  BY ShimStutter, TickStep, DisallowStep, AllowStep, LookupStep, ServeStep, NextEndpointStep,
     TakeGrantStep, TakeDenialStep, AllFailedStep, LeaveStep DEF ShimNext

\* The invariant has the types in it.
LEMMA ShimTyped ==
  ASSUME ShimInv
  PROVE  ShimTypeOK
  <1>1. rows \in Seq([login : Login, serial : 1..Len(minted), made : 0..MaxNow])
    <2>1. CacheRows(minted) \subseteq [login : Login, serial : 1..Len(minted), made : 0..MaxNow]
      BY DEF CacheRows
    <2> QED BY <2>1, SeqMonotonic DEF ShimInv, CacheInv
  <1>2. ASSUME NEW c \in Call, calls[c] # Waiting
        PROVE  calls[c] \in CallStates(minted)
    BY <1>2 DEF ShimInv, CallsInv, CallSound
  <1>3. /\ Len(rows) <= MaxRows
        /\ \A i, j \in DOMAIN rows : rows[i].login = rows[j].login => i = j
    BY DEF ShimInv, CacheInv, OneRowEach
  <1> QED BY <1>1, <1>2, <1>3, Zenon DEF ShimInv, ShimBasics, ShimTypeOK, CallStates, Ats, Reasons, Certs

\* It has a reason for every authorization in it.
LEMMA Reasoned ==
  ASSUME ShimInv
  PROVE  AuthorizedForAReason
  <1>1. ASSUME NEW c \in Call, calls[c] # Waiting, calls[c].by \in {"ca", "cache"}
        PROVE  /\ minted[calls[c].serial].login = calls[c].login
               /\ minted[calls[c].serial].ends >= calls[c].when
    <2>1. CallSound(calls[c], minted)
      BY <1>1 DEF ShimInv, CallsInv
    <2>2. calls[c].serial # 0 /\ minted[calls[c].serial].login = calls[c].login
      BY <1>1, <2>1 DEF CallSound
    <2>3. calls[c].when \in Nat /\ minted[calls[c].serial].ends \in Nat
      BY <2>1, <2>2, CallFields DEF CallSound, ShimInv, ShimBasics
    <2>4. calls[c].when <= minted[calls[c].serial].ends
      BY <1>1, <2>1, <2>3 DEF CallSound
    <2> QED BY <2>2, <2>3, <2>4
  <1>2. EmergencyOnlyWhenDown
    BY DEF ShimInv, CallsInv, CallSound, EmergencyOnlyWhenDown
  <1> QED BY <1>1, <1>2 DEF AuthorizedForAReason, AuthorizedByItsCert

\* And a limit to every authorization of a login that was disallowed.
LEMMA DiesOut ==
  ASSUME ShimInv
  PROVE  DisallowedDiesOut
  <1>1. ASSUME NEW c \in Call, calls[c] # Waiting, calls[c].login \notin allowed
        PROVE  /\ calls[c].by = "cache" => calls[c].when < since[calls[c].login] + CertLifetime
               /\ calls[c].by = "ca" => calls[c].when <= since[calls[c].login] + CertLifetime
    <2>1. CallSound(calls[c], minted)
      BY <1>1 DEF ShimInv, CallsInv
    <2>2. CASE calls[c].by \in {"ca", "cache"}
      <3>1. calls[c].serial # 0 /\ minted[calls[c].serial].login = calls[c].login
        BY <2>1, <2>2 DEF CallSound
      <3>2. /\ calls[c].when \in Nat /\ minted[calls[c].serial].ends \in Nat
            /\ calls[c].serial \in DOMAIN minted /\ calls[c].login \in Login
        BY <2>1, <3>1, CallFields DEF CallSound, ShimInv, ShimBasics
      <3>3. minted[calls[c].serial].ends <= since[calls[c].login] + CertLifetime
        BY <1>1, <3>1, <3>2 DEF ShimInv, CertsInv
      <3>4. since[calls[c].login] + CertLifetime \in Nat
        BY <3>2, ShimAssumption DEF ShimInv, ShimBasics
      <3>5. /\ calls[c].by = "ca" => calls[c].when <= minted[calls[c].serial].ends
            /\ calls[c].by = "cache" => calls[c].when < minted[calls[c].serial].ends
        BY <2>1 DEF CallSound
      <3> QED BY <3>2, <3>3, <3>4, <3>5
    <2>3. CASE calls[c].by \notin {"ca", "cache"}
      BY <2>3
    <2> QED BY <2>2, <2>3
  <1> QED BY <1>1 DEF DisallowedDiesOut

\* The cache is sound, every call knows what it should, and no certificate outlives the
\* permission it was minted under.
THEOREM ShimInvariant == ShimSpec => []ShimInv
  BY ShimInitially, ShimStep, PTL DEF ShimSpec

\* Every variable of the shim has its type, and the cache keeps to its cap, whatever the
\* order in which concurrent calls read and write its rows.
THEOREM ShimHasTypes == ShimSpec => []ShimTypeOK
  BY ShimInvariant, ShimTyped, PTL

\* A login is authorized by a certificate minted for it that was valid when it came, from the
\* CA or from the cache, or by the emergency certificate once every endpoint had failed that
\* very call: for any number of calls, logins, endpoints and rows.
THEOREM AuthorizationsAreReasoned == ShimSpec => []AuthorizedForAReason
  BY ShimInvariant, Reasoned, PTL

\* A login the CA's policies no longer allow is authorized less than a lifetime longer by the
\* cache, and no longer than a lifetime by a late answer.
THEOREM DisallowedLoginsDieOut == ShimSpec => []DisallowedDiesOut
  BY ShimInvariant, DiesOut, PTL

-----------------------------------------------------------------------------
(* The session                                                            *)

\* How far client, msshd and command have come with respect to each other.
Phases ==
  /\ client.at = "start" => server.at = "header" /\ toServer = <<>>
  /\ client.at \in {"start", "ack"} => client.exit = Unset
  /\ client.at = "pump" => server.at \in {"acked", "session", "closed"}
  /\ client.at = "ack" /\ server.at \in {"acked", "session", "closed"} =>
       \/ server.at = "closed" /\ command.at = "none"
       \/ toClient # <<>> /\ Head(toClient)[1] = "ok"
  /\ server.at = "header" => toServer \in {<<>>, <<<<"header", 0>>>>}
  /\ server.at \in {"header", "connect"} => toClient = <<>> /\ client.sent = 0 /\ ~client.eof
  /\ server.at \in {"header", "connect", "acked"} => command.at = "none"
  /\ server.at = "session" => command.at # "none"

\* Behind a refusal msshd runs nothing.
RefusalHolds ==
  client.rc \in {2, 4, 5, 6, 7} =>
    /\ command.at = "none"
    /\ server.at \in {"header", "closed"}
    /\ server.at = "header" => toServer = <<>>

\* What the command has done, as msshd and the inner sshd know it.
CommandKnown ==
  /\ command.at = "none" =>
       /\ stdin = <<>> /\ command.got = <<>> /\ inner = <<>>
       /\ command.emitted = 0 /\ command.forwarded = 0 /\ ~command.told
  /\ command.status # Unset => command.at \in {"ended", "lost"}
  /\ command.at = "ended" \/ command.told => command.status # Unset
  /\ command.forwarded <= command.emitted
  /\ \A n \in DOMAIN inner :
       /\ inner[n][1] \in {"stdout", "status", "close"}
       /\ inner[n][1] = "status" => inner[n][2] = command.status /\ command.status # Unset
  /\ server.status # Unset => server.status = command.status

\* The n-th frame of the client's input, and how many there are.
InputFrame(n, sent) == IF n <= sent THEN <<"stdin", n>> ELSE <<"stdin_eof", 0>>
\* The number of frames of the client's input.
InputLength == IF client.eof THEN client.sent + 1 ELSE client.sent

\* The frames of q are those after the k-th.
FramesAfter(q, k, sent) == \A n \in DOMAIN q : q[n] = InputFrame(k + n, sent)

\* The input is in the three places it can be, whole and in order.
InputFlow ==
  /\ Len(command.got) + Len(stdin) <= InputLength
  /\ FramesAfter(command.got, 0, client.sent)
  /\ FramesAfter(stdin, Len(command.got), client.sent)
  /\ server.at \in {"connect", "acked", "session"} =>
       /\ Len(command.got) + Len(stdin) + Len(toServer) = InputLength
       /\ FramesAfter(toServer, Len(command.got) + Len(stdin), client.sent)

\* The standard output in q is exactly the chunks after a up to b, in order.
Chunks(q, a, b) ==
  /\ a <= b
  /\ \A n \in DOMAIN q : q[n][1] = "stdout" => q[n][2] \in (a + 1)..b
  /\ \A k \in (a + 1)..b : \E n \in DOMAIN q : q[n] = <<"stdout", k>>
  /\ \A m, n \in DOMAIN q :
       m < n /\ q[m][1] = "stdout" /\ q[n][1] = "stdout" => q[m][2] < q[n][2]

\* The frames that say how the command ended.
Ends == {"exit", "signal"}

\* EXIT and SIGNAL come after the last chunk, r, of a command that has ended, or
\* after the last that the loss of the inner connection has left.
EndsAfter(r) ==
  \A n \in DOMAIN toClient : toClient[n][1] \in Ends =>
    /\ server.at = "closed" /\ command.status # Unset
    /\ r = command.emitted \/ command.at = "lost"
    /\ toClient[n][1] = "exit" =>
         toClient[n][2] = command.status /\ command.status \notin SignalDeaths
    /\ toClient[n][1] = "signal" => command.status \in SignalDeaths
    /\ \A m \in DOMAIN toClient : m > n => toClient[m][1] = "close"

\* The inner sshd closes the channel last, and when all has been told.
CloseIsLast ==
  \A n \in DOMAIN inner : inner[n][1] = "close" =>
    /\ n = Len(inner)
    /\ \/ command.at = "lost"
       \/ command.told /\ command.forwarded = command.emitted

\* The output on its way to msshd is all that the inner sshd has forwarded, unless
\* the loss of the connection has cut it.
InnerFrom(r) ==
  \E s \in 0..command.forwarded :
    Chunks(inner, r, s) /\ (s = command.forwarded \/ command.at = "lost")

\* For a client that reads on, the output is what it has shown, what is on its
\* way to it, up to r, and what is on its way to msshd.
OutputUpTo(r) == Chunks(toClient, Len(shown), r) /\ InnerFrom(r) /\ EndsAfter(r)

\* The output is in the three places it can be, whole and in order.
OutputFlow ==
  client.at # "done" =>
    /\ \A n \in DOMAIN shown : shown[n] = n
    /\ CloseIsLast
    /\ \E r \in 0..command.forwarded : OutputUpTo(r)

\* What came with EXIT or SIGNAL came last.
ExitCameLast ==
  client.exit # Unset =>
    /\ command.status # Unset
    /\ StatusAfterOutput
    /\ client.at # "done" =>
         /\ server.at = "closed"
         /\ \A n \in DOMAIN toClient : toClient[n][1] = "close"

\* What every step of a session keeps.
SInv ==
  SessionTypeOK /\ Phases /\ RefusalHolds /\ CommandKnown /\ InputFlow /\ OutputFlow /\ ExitCameLast

\* A stream of frames.
Stream == Seq(Frame \X Nat)

\* One or two frames written behind a stream.
LEMMA AppendTwice ==
  ASSUME NEW S, NEW q \in Seq(S), NEW a \in S, NEW b \in S
  PROVE  /\ q \o <<a>> = Append(q, a)
         /\ q \o <<a, b>> = Append(Append(q, a), b)
  BY SMT

\* The next chunk of output goes to the end of a stream that holds those before it.
LEMMA ChunksAppend ==
  ASSUME NEW S, NEW q \in Seq(S), NEW a \in Nat, NEW b \in Nat, Chunks(q, a, b),
         <<"stdout", b + 1>> \in S
  PROVE  Chunks(Append(q, <<"stdout", b + 1>>), a, b + 1)
  <1> DEFINE p == Append(q, <<"stdout", b + 1>>)
  <1>1. /\ p \in Seq(S) /\ Len(p) = Len(q) + 1 /\ DOMAIN p = 1..(Len(q) + 1)
        /\ p[Len(q) + 1] = <<"stdout", b + 1>>
        /\ \A n \in DOMAIN q : n \in 1..Len(q) /\ n \in DOMAIN p /\ p[n] = q[n]
    OBVIOUS
  <1>2. DOMAIN q = 1..Len(q)
    OBVIOUS
  <1> HIDE DEF p
  <1>3. \A n \in DOMAIN p : n \in DOMAIN q \/ n = Len(q) + 1
    BY <1>1, <1>2
  <1>4. a <= b + 1
    BY DEF Chunks
  <1>5. \A n \in DOMAIN p : p[n][1] = "stdout" => p[n][2] \in (a + 1)..(b + 1)
    BY <1>1, <1>3 DEF Chunks
  <1>6. \A k \in (a + 1)..(b + 1) : \E n \in DOMAIN p : p[n] = <<"stdout", k>>
    <2> TAKE k \in (a + 1)..(b + 1)
    <2>1. CASE k = b + 1
      BY <2>1, <1>1, Len(q) + 1 \in DOMAIN p
    <2>2. CASE k # b + 1
      <3>1. PICK n \in DOMAIN q : q[n] = <<"stdout", k>>
        BY <2>2 DEF Chunks
      <3> QED BY <3>1, <1>1
    <2> QED BY <2>1, <2>2
  <1>7. \A m, n \in DOMAIN p :
          m < n /\ p[m][1] = "stdout" /\ p[n][1] = "stdout" => p[m][2] < p[n][2]
    <2> SUFFICES ASSUME NEW m \in DOMAIN p, NEW n \in DOMAIN p,
                        m < n, p[m][1] = "stdout", p[n][1] = "stdout"
                 PROVE  p[m][2] < p[n][2]
      OBVIOUS
    <2>1. m \in DOMAIN q
      BY <1>3, <1>1, <1>2
    <2>2. CASE n \in DOMAIN q
      BY <2>1, <2>2, <1>1 DEF Chunks
    <2>3. CASE n = Len(q) + 1
      BY <2>1, <2>3, <1>1 DEF Chunks
    <2> QED BY <2>2, <2>3, <1>3
  <1> QED BY <1>4, <1>5, <1>6, <1>7 DEF p, Chunks

\* A frame that is no output changes nothing about the output in a stream.
LEMMA ChunksAppendOther ==
  ASSUME NEW S, NEW q \in Seq(S), NEW a \in Nat, NEW b \in Nat, Chunks(q, a, b),
         NEW f \in S, f[1] # "stdout"
  PROVE  Chunks(Append(q, f), a, b)
  <1> DEFINE p == Append(q, f)
  <1>1. /\ p \in Seq(S) /\ Len(p) = Len(q) + 1 /\ DOMAIN p = 1..(Len(q) + 1)
        /\ p[Len(q) + 1] = f
        /\ \A n \in DOMAIN q : n \in 1..Len(q) /\ n \in DOMAIN p /\ p[n] = q[n]
    OBVIOUS
  <1>2. DOMAIN q = 1..Len(q)
    OBVIOUS
  <1> HIDE DEF p
  <1>3. \A n \in DOMAIN p : n \in DOMAIN q \/ n = Len(q) + 1
    BY <1>1, <1>2
  <1>4. \A k \in (a + 1)..b : \E n \in DOMAIN p : p[n] = <<"stdout", k>>
    <2> TAKE k \in (a + 1)..b
    <2>1. PICK n \in DOMAIN q : q[n] = <<"stdout", k>>
      BY DEF Chunks
    <2> QED BY <2>1, <1>1
  <1>5. \A n \in DOMAIN p : p[n][1] = "stdout" => n \in DOMAIN q /\ p[n] = q[n]
    BY <1>1, <1>3
  <1> QED BY <1>4, <1>5 DEF p, Chunks

\* The first frame read off a stream is the next chunk, or no output.
LEMMA ChunksTail ==
  ASSUME NEW S, NEW q \in Seq(S), q # <<>>, NEW a \in Nat, NEW b \in Nat, Chunks(q, a, b)
  PROVE  /\ Head(q)[1] = "stdout" =>
              Head(q)[2] = a + 1 /\ a + 1 <= b /\ Chunks(Tail(q), a + 1, b)
         /\ Head(q)[1] # "stdout" => Chunks(Tail(q), a, b)
  <1> DEFINE p == Tail(q)
  <1>1. /\ p \in Seq(S) /\ DOMAIN p = 1..(Len(q) - 1) /\ Len(q) >= 1 /\ Len(q) \in Nat
        /\ DOMAIN q = 1..Len(q) /\ Head(q) = q[1]
        /\ \A n \in DOMAIN p : p[n] = q[n + 1]
    OBVIOUS
  <1> HIDE DEF p
  <1>2. \A n \in DOMAIN p : n \in Nat /\ n + 1 \in DOMAIN q /\ 1 < n + 1
    BY <1>1
  <1>3. \A n \in DOMAIN q : n = 1 \/ (n - 1 \in DOMAIN p /\ p[n - 1] = q[n] /\ n > 1)
    BY <1>1
  <1>4. 1 \in DOMAIN q
    BY <1>1
  <1>5. \A m, n \in DOMAIN p :
          m < n /\ p[m][1] = "stdout" /\ p[n][1] = "stdout" => p[m][2] < p[n][2]
    <2> SUFFICES ASSUME NEW m \in DOMAIN p, NEW n \in DOMAIN p,
                        m < n, p[m][1] = "stdout", p[n][1] = "stdout"
                 PROVE  p[m][2] < p[n][2]
      OBVIOUS
    <2>1. p[m] = q[m + 1] /\ p[n] = q[n + 1] /\ m + 1 \in DOMAIN q /\ n + 1 \in DOMAIN q
          /\ m + 1 < n + 1
      BY <1>1, <1>2
    <2> QED BY <2>1 DEF Chunks
  <1>6. ASSUME q[1][1] = "stdout"
        PROVE  q[1][2] = a + 1 /\ a + 1 <= b /\ Chunks(p, a + 1, b)
    <2>1. q[1][2] \in (a + 1)..b
      BY <1>4, <1>6 DEF Chunks
    <2>2. PICK n \in DOMAIN q : q[n] = <<"stdout", a + 1>>
      BY <2>1 DEF Chunks
    <2>3. n = 1
      <3>1. CASE n > 1
        <4>1. q[1][2] < q[n][2]
          BY <1>4, <1>6, <2>2, <3>1 DEF Chunks
        <4> QED BY <4>1, <2>1, <2>2
      <3> QED BY <3>1, <1>1
    <2>4. q[1][2] = a + 1 /\ a + 1 <= b
      BY <2>1, <2>2, <2>3
    <2>5. \A j \in DOMAIN p : p[j][1] = "stdout" => p[j][2] \in (a + 2)..b
      <3> SUFFICES ASSUME NEW j \in DOMAIN p, p[j][1] = "stdout"
                   PROVE  p[j][2] \in (a + 2)..b
        OBVIOUS
      <3>1. p[j] = q[j + 1] /\ j + 1 \in DOMAIN q /\ 1 < j + 1
        BY <1>1, <1>2
      <3>2. q[j + 1][2] \in (a + 1)..b /\ q[1][2] < q[j + 1][2]
        BY <3>1, <1>4, <1>6 DEF Chunks
      <3> QED BY <3>1, <3>2, <2>4
    <2>6. \A k \in (a + 2)..b : \E j \in DOMAIN p : p[j] = <<"stdout", k>>
      <3> TAKE k \in (a + 2)..b
      <3>1. PICK j \in DOMAIN q : q[j] = <<"stdout", k>>
        BY DEF Chunks
      <3>2. j # 1
        BY <3>1, <2>4
      <3> QED BY <3>1, <3>2, <1>3
    <2> QED BY <2>4, <2>5, <2>6, <1>5, a + 1 + 1 = a + 2 DEF Chunks
  <1>7. ASSUME q[1][1] # "stdout"
        PROVE  Chunks(p, a, b)
    <2>1. \A j \in DOMAIN p : p[j][1] = "stdout" => p[j][2] \in (a + 1)..b
      BY <1>1, <1>2 DEF Chunks
    <2>2. \A k \in (a + 1)..b : \E j \in DOMAIN p : p[j] = <<"stdout", k>>
      <3> TAKE k \in (a + 1)..b
      <3>1. PICK j \in DOMAIN q : q[j] = <<"stdout", k>>
        BY DEF Chunks
      <3>2. j # 1
        BY <3>1, <1>7
      <3> QED BY <3>1, <3>2, <1>3
    <2> QED BY <2>1, <2>2, <1>5 DEF Chunks
  <1> QED BY <1>1, <1>6, <1>7 DEF p

\* The beginning of a stream holds the first of its chunks.
LEMMA ChunksPrefix ==
  ASSUME NEW S, NEW q \in Seq(S), NEW a \in Nat, NEW b \in Nat, Chunks(q, a, b),
         NEW p \in Seq(S), NEW n \in 0..Len(q), Len(p) = n,
         \A m \in 1..n : p[m] = q[m] /\ m \in DOMAIN q
  PROVE  \E s \in a..b : Chunks(p, a, s)
  <1> DEFINE I == {i \in 1..n : q[i][1] = "stdout"}
  <1>0. n \in Nat /\ DOMAIN p = 1..n /\ DOMAIN q = 1..Len(q) /\ Len(q) \in Nat
    OBVIOUS
  <1>1. \A j, k \in DOMAIN p :
          j < k /\ p[j][1] = "stdout" /\ p[k][1] = "stdout" => p[j][2] < p[k][2]
    BY <1>0 DEF Chunks
  <1>2. CASE I = {}
    <2>1. \A i \in DOMAIN p : p[i][1] # "stdout"
      BY <1>0, <1>2
    <2>2. Chunks(p, a, a)
      BY <2>1 DEF Chunks
    <2>3. a \in a..b
      BY DEF Chunks
    <2> QED BY <2>2, <2>3
  <1>3. CASE I # {}
    <2>1. Max(I) \in I /\ \A i \in I : i <= Max(I)
      <3>1. I \subseteq 1..n OBVIOUS
      <3> HIDE DEF I
      <3> QED BY <1>0, <1>3, <3>1, LastPlace
    <2>2. PICK j \in 1..n : q[j][1] = "stdout" /\ \A i \in 1..n : q[i][1] = "stdout" => i <= j
      <3>1. \E j \in I : \A i \in I : i <= j
        BY <2>1
      <3> QED BY <3>1
    <2>3. q[j][2] \in (a + 1)..b /\ j \in DOMAIN q
      BY <2>2 DEF Chunks
    <2>4. PICK s \in (a + 1)..b : s = q[j][2]
      BY <2>3
    <2>5. \A i \in DOMAIN p : p[i][1] = "stdout" => p[i][2] \in (a + 1)..s
      <3> SUFFICES ASSUME NEW i \in 1..n, q[i][1] = "stdout" PROVE q[i][2] \in (a + 1)..s
        BY <1>0
      <3>1. i <= j /\ i \in DOMAIN q
        BY <2>2
      <3>2. q[i][2] \in (a + 1)..b
        BY <3>1 DEF Chunks
      <3>3. i = j \/ q[i][2] < s
        BY <2>2, <2>3, <2>4, <3>1 DEF Chunks
      <3> QED BY <2>4, <3>2, <3>3
    <2>6. \A k \in (a + 1)..s : \E i \in DOMAIN p : p[i] = <<"stdout", k>>
      <3> TAKE k \in (a + 1)..s
      <3>1. k \in (a + 1)..b /\ k <= s
        BY <2>4
      <3>2. PICK i \in DOMAIN q : q[i] = <<"stdout", k>>
        BY <3>1 DEF Chunks
      <3>3. i <= j
        <4>1. ASSUME j < i PROVE FALSE
          <5>1. q[i][1] = "stdout" /\ q[i][2] = k
            BY <3>2
          <5>2. s < k
            BY <2>2, <2>3, <2>4, <4>1, <5>1 DEF Chunks
          <5> QED BY <3>1, <5>2
        <4>2. i \in Nat /\ j \in Nat
          BY <1>0
        <4> QED BY <4>1, <4>2
      <3>4. i \in 1..n
        BY <1>0, <3>3
      <3> QED BY <1>0, <3>2, <3>4
    <2>7. s \in Nat /\ a <= s
      BY <2>4
    <2>8. Chunks(p, a, s)
      BY <1>1, <2>5, <2>6, <2>7 DEF Chunks
    <2> QED BY <2>4, <2>8, s \in a..b
  <1> QED BY <1>2, <1>3

\* A stream without output holds the chunks from a number to that number.
LEMMA NoChunks ==
  ASSUME NEW S, NEW q \in Seq(S), NEW a \in Nat, NEW b \in Nat, Chunks(q, a, b),
         \A n \in DOMAIN q : q[n][1] # "stdout"
  PROVE  a = b
  <1>1. CASE a < b
    <2>1. \E n \in DOMAIN q : q[n] = <<"stdout", a + 1>>
      BY <1>1, a + 1 \in (a + 1)..b DEF Chunks
    <2> QED BY <2>1
  <1> QED BY <1>1 DEF Chunks

\* So does the empty stream.
LEMMA ChunksOfNothing ==
  ASSUME NEW a \in Nat
  PROVE  Chunks(<<>>, a, a)
  BY DEF Chunks

\* The return values and the status, by their numbers.
LEMMA Values ==
  /\ \A v \in {1, 2, 4, 5, 6, 7, 8, Killed, UnknownSignal} : v \in ReturnValue /\ v # Unset
  /\ Unset \in ReturnValue /\ 0 \in ReturnValue /\ 0 # Unset
  /\ \A s \in Status \cup SignalDeaths : s \in Nat /\ s # Unset
  /\ \A s \in Status : s \in ReturnValue /\ s \notin SignalDeaths
  /\ Unset \notin {0, 2, 4, 5, 6, 7} /\ Unset \notin SignalDeaths /\ Unset \in Nat
  BY DEF ReturnValue, Status, SignalDeaths, UnknownSignal, Killed, Unset

\* The frames between client and msshd, and those to and from the inner sshd.
Frames == Frame \X Nat
\* What the inner sshd reads and writes.
Items == Item \X Nat

\* What the streams carry.
LEMMA FramesTyped ==
  ASSUME NEW n \in Nat
  PROVE  /\ <<"header", n>> \in Frames /\ <<"ok", n>> \in Frames
         /\ <<"refused", n>> \in Frames /\ <<"banner", n>> \in Frames
         /\ <<"stdin", n>> \in Frames /\ <<"stdin_eof", n>> \in Frames
         /\ <<"stdout", n>> \in Frames /\ <<"exit", n>> \in Frames
         /\ <<"signal", n>> \in Frames /\ <<"close", n>> \in Frames
  BY DEF Frame, Frames

\* The same for the inner sshd.
LEMMA ItemsTyped ==
  ASSUME NEW n \in Nat
  PROVE  /\ <<"stdin", n>> \in Items /\ <<"stdin_eof", n>> \in Items
         /\ <<"stdout", n>> \in Items /\ <<"status", n>> \in Items
         /\ <<"close", n>> \in Items
  BY DEF Item, Items

\* One frame is a stream.
LEMMA SingleFrame ==
  ASSUME NEW S, NEW e \in S
  PROVE  <<e>> \in Seq(S)
  OBVIOUS

\* The states of the client, of msshd and of the command, as SessionTypeOK has them.
ClientStates ==
  [at : {"start", "ack", "pump", "done"}, rc : ReturnValue, exit : ReturnValue,
   sent : 0..MaxIn, eof : BOOLEAN]
\* The states of msshd.
ServerStates ==
  [at : {"header", "connect", "acked", "session", "closed"},
   status : Status \cup SignalDeaths \cup {Unset}, pumping : BOOLEAN]
\* The states of the command.
CommandStates ==
  [at : {"none", "running", "ended", "lost"}, status : Status \cup SignalDeaths \cup {Unset},
   emitted : 0..MaxOut, forwarded : 0..MaxOut, told : BOOLEAN, got : Seq(Items)]

\* The type invariant by the names of its sets.
LEMMA SessionTypes ==
  SessionTypeOK <=>
    /\ framed \in BOOLEAN /\ reset \in BOOLEAN
    /\ client \in ClientStates /\ (client.at = "done" <=> client.rc # Unset)
    /\ server \in ServerStates
    /\ toServer \in Seq(Frames) /\ toClient \in Seq(Frames)
    /\ inner \in Seq(Items) /\ stdin \in Seq(Items)
    /\ command \in CommandStates
    /\ shown \in Seq(1..MaxOut)
  BY DEF SessionTypeOK, ClientStates, ServerStates, CommandStates, Frames, Items

\* The invariant holds when the client starts.
LEMMA SessionInitially ==
  SessionInit => SInv
  <1> SUFFICES ASSUME SessionInit PROVE SInv
    OBVIOUS
  <1> USE SessionAssumption, Values DEF SessionInit
  <1>1. SessionTypeOK
    <2>1. client \in ClientStates
      BY DEF ClientStates
    <2>2. server \in ServerStates
      BY DEF ServerStates
    <2>3. command \in CommandStates
      BY DEF CommandStates
    <2>4. client.at = "start" /\ client.rc = Unset /\ framed \in BOOLEAN /\ reset \in BOOLEAN
      OBVIOUS
    <2>5. /\ toServer = <<>> /\ toClient = <<>> /\ inner = <<>> /\ stdin = <<>> /\ shown = <<>>
      OBVIOUS
    <2> HIDE DEF SessionInit
    <2>6. /\ toServer \in Seq(Frames) /\ toClient \in Seq(Frames)
          /\ inner \in Seq(Items) /\ stdin \in Seq(Items) /\ shown \in Seq(1..MaxOut)
      BY <2>5
    <2> QED BY <2>1, <2>2, <2>3, <2>4, <2>6, SessionTypes
  <1>2. Phases /\ RefusalHolds
    BY DEF Phases, RefusalHolds
  <1>3. CommandKnown
    BY DEF CommandKnown
  <1>4. InputFlow
    BY DEF InputFlow, InputLength, FramesAfter
  <1>5. OutputFlow
    <2>1. /\ Chunks(toClient, Len(shown), 0) /\ Chunks(inner, 0, command.forwarded)
          /\ command.forwarded = 0
      BY ChunksOfNothing
    <2>2. 0 \in 0..command.forwarded /\ OutputUpTo(0)
      BY <2>1 DEF OutputUpTo, InnerFrom, EndsAfter
    <2> QED BY <2>2 DEF OutputFlow, CloseIsLast
  <1>6. ExitCameLast
    BY DEF ExitCameLast
  <1> QED BY <1>1, <1>2, <1>3, <1>4, <1>5, <1>6 DEF SInv

\* What a reader takes off a stream, and what it leaves.
LEMMA HeadTail ==
  ASSUME NEW S, NEW q \in Seq(S), q # <<>>
  PROVE  /\ Head(q) \in S /\ Head(q) = q[1] /\ 1 \in DOMAIN q
         /\ Tail(q) \in Seq(S) /\ Len(q) = Len(Tail(q)) + 1
         /\ \A n \in DOMAIN Tail(q) : Tail(q)[n] = q[n + 1] /\ n + 1 \in DOMAIN q
  OBVIOUS

\* What a writer adds to a stream.
LEMMA Appended ==
  ASSUME NEW S, NEW q \in Seq(S), NEW e \in S
  PROVE  /\ Append(q, e) \in Seq(S) /\ Append(q, e) # <<>>
         /\ Len(Append(q, e)) = Len(q) + 1
         /\ Append(q, e)[Len(q) + 1] = e
         /\ \A n \in DOMAIN q : Append(q, e)[n] = q[n]
         /\ \A n \in DOMAIN Append(q, e) : n \in DOMAIN q \/ n = Len(q) + 1
         /\ q # <<>> => Head(Append(q, e)) = Head(q)
  OBVIOUS

\* What msshd writes at the end of a session.
LEMMA LastFramesAre ==
  ASSUME SessionTypeOK
  PROVE  \/ /\ LastFrames(server.status) = <<<<"close", 0>>>>
            /\ server.status = Unset
         \/ \E f \in {<<"signal", server.status>>, <<"exit", server.status>>} :
              /\ LastFrames(server.status) = <<f, <<"close", 0>>>>
              /\ f \in Frames
              /\ server.status # Unset
              /\ f[1] = "signal" <=> server.status \in SignalDeaths
  <1>1. server.status \in Nat
    BY Values DEF SessionTypeOK
  <1>2. <<"signal", server.status>> \in Frames /\ <<"exit", server.status>> \in Frames
    BY <1>1, FramesTyped
  <1>3. CASE server.status = Unset
    <2>1. server.status \notin SignalDeaths
      BY <1>3 DEF Unset, SignalDeaths
    <2>2. LastFrames(server.status) = <<<<"close", 0>>>>
      BY <1>3, <2>1, Zenon DEF LastFrames
    <2> QED BY <1>3, <2>2
  <1>4. CASE server.status # Unset /\ server.status \in SignalDeaths
    BY <1>2, <1>4 DEF LastFrames
  <1>5. CASE server.status # Unset /\ server.status \notin SignalDeaths
    <2>1. LastFrames(server.status)
            = <<<<"exit", server.status>>, <<"close", 0>>>>
      BY <1>5, Zenon DEF LastFrames
    <2>2. <<"exit", server.status>>[1] # "signal"
      OBVIOUS
    <2> QED BY <1>2, <1>5, <2>1, <2>2
  <1> QED BY <1>3, <1>4, <1>5

\* Which variables the steps that are not told one by one leave alone.
LEMMA ClientSteps ==
  ASSUME SessionNext
  PROVE  \/ client' = client
         \/ RefuseToStart \/ SendHeader \/ ReadAck \/ AckTimeout \/ SendStdin \/ SendEof
         \/ ReadFrame \/ StreamEnds \/ ClientDies
  BY DEF SessionNext, SessionProgress, ReadHeader, Refuse, Ack, OpenSession, PumpIn, PumpEnds,
         Relay, EndSession, MaxSession, ReadStdin, Emit, End, InnerLost, ForwardOutput,
         TellStatus, CloseChannel

\* The client keeps its type.
LEMMA ClientTyped ==
  ASSUME SessionTypeOK, OutputFlow, SessionNext
  PROVE  client' \in ClientStates /\ (client'.at = "done" <=> client'.rc # Unset)
  <1> USE SessionAssumption DEF ClientStates
  <1>0. client \in ClientStates /\ (client.at = "done" <=> client.rc # Unset)
    BY DEF SessionTypeOK
  <1>1. ASSUME NEW v \in ReturnValue, v # Unset, Return(v)
        PROVE  client' \in ClientStates /\ (client'.at = "done" <=> client'.rc # Unset)
    BY <1>0, <1>1 DEF Return
  <1>2. ASSUME NEW v \in ReturnValue, v # Unset
        PROVE  Recorded(v) \in ReturnValue /\ Recorded(v) # Unset
    BY <1>0, <1>2 DEF Recorded
  <1>a. CASE RefuseToStart
    BY <1>1, <1>a, Values DEF RefuseToStart
  <1>b. CASE SendHeader
    BY <1>0, <1>b DEF SendHeader
  <1>c. CASE ReadAck
    BY <1>0, <1>1, <1>c, Values DEF ReadAck
  <1>d. CASE AckTimeout
    BY <1>1, <1>d, Values DEF AckTimeout
  <1>e. CASE SendStdin
    <2>1. CASE client' = [client EXCEPT !.sent = @ + 1]
      BY <1>0, <1>e, <2>1 DEF SendStdin
    <2>2. CASE Return(Recorded(8))
      BY <1>1, <1>2, <2>2, Values
    <2> QED BY <1>e, <2>1, <2>2 DEF SendStdin, Send
  <1>f. CASE SendEof
    <2>1. CASE client' = [client EXCEPT !.eof = TRUE]
      BY <1>0, <1>f, <2>1 DEF SendEof
    <2>2. CASE Return(Recorded(8))
      BY <1>1, <1>2, <2>2, Values
    <2> QED BY <1>f, <2>1, <2>2 DEF SendEof, Send
  <1>g. CASE ReadFrame
    <2>1. CASE Head(toClient)[1] = "exit" /\ client' = [client EXCEPT !.exit = Head(toClient)[2]]
      <3>1. Head(toClient) = toClient[1] /\ 1 \in DOMAIN toClient
        BY <1>g DEF ReadFrame, SessionTypeOK
      <3>2. client.at # "done"
        BY <1>g DEF ReadFrame
      <3>3. /\ Head(toClient)[2] = command.status
            /\ command.status \notin SignalDeaths /\ command.status # Unset
        BY <2>1, <3>1, <3>2 DEF OutputFlow, OutputUpTo, EndsAfter, Ends
      <3>4. command.status \in ReturnValue
        BY <3>3, Values DEF SessionTypeOK
      <3> QED BY <1>0, <2>1, <3>3, <3>4
    <2>2. CASE client' = [client EXCEPT !.exit = UnknownSignal]
      BY <1>0, <2>2, Values
    <2>3. CASE Return(Recorded(0))
      BY <1>1, <1>2, <2>3, Values
    <2> QED BY <1>0, <1>g, <2>1, <2>2, <2>3 DEF ReadFrame
  <1>h. CASE StreamEnds
    BY <1>1, <1>2, <1>h, Values DEF StreamEnds
  <1>i. CASE ClientDies
    BY <1>1, <1>i, Values DEF ClientDies
  <1> QED BY <1>0, <1>a, <1>b, <1>c, <1>d, <1>e, <1>f, <1>g, <1>h, <1>i, ClientSteps

\* The steps that change what msshd knows.
LEMMA ServerSteps ==
  ASSUME SessionNext
  PROVE  \/ server' = server
         \/ ReadHeader \/ Refuse \/ Ack \/ OpenSession \/ PumpEnds \/ Relay \/ EndSession
         \/ MaxSession
  BY DEF SessionNext, SessionProgress, RefuseToStart, SendHeader, ReadAck, AckTimeout, SendStdin,
         SendEof, ReadFrame, StreamEnds, ClientDies, PumpIn, ReadStdin, Emit, End, InnerLost,
         ForwardOutput, TellStatus, CloseChannel

\* msshd keeps its type.
LEMMA ServerTyped ==
  ASSUME SessionTypeOK, CommandKnown, SessionNext
  PROVE  server' \in ServerStates
  <1> USE DEF ServerStates
  <1>0. server \in ServerStates
    BY DEF SessionTypeOK
  <1>1. CASE Relay /\ server' # server
    <2>1. server' = [server EXCEPT !.status = Head(inner)[2]] /\ inner # <<>>
          /\ Head(inner)[1] = "status"
      BY <1>1 DEF Relay
    <2>2. Head(inner) = inner[1] /\ 1 \in DOMAIN inner
      BY <2>1 DEF SessionTypeOK
    <2>3. Head(inner)[2] = command.status
      BY <2>1, <2>2 DEF CommandKnown
    <2>4. command.status \in Status \cup SignalDeaths \cup {Unset}
      BY DEF SessionTypeOK
    <2> QED BY <1>0, <2>1, <2>3, <2>4
  <1>2. CASE \E at \in {"connect", "acked", "session", "closed"}, pumping \in BOOLEAN :
               server' = [server EXCEPT !.at = at, !.pumping = pumping]
    BY <1>0, <1>2
  <1>3. CASE \E at \in {"connect", "acked", "session", "closed"} :
               server' = [server EXCEPT !.at = at]
    BY <1>0, <1>3
  <1>4. CASE PumpEnds
    BY <1>0, <1>4 DEF PumpEnds
  <1>5. CASE ReadHeader \/ Refuse \/ Ack
    BY <1>3, <1>5 DEF ReadHeader, Refuse, Ack
  <1>6. CASE OpenSession
    BY <1>2, <1>3, <1>6 DEF OpenSession
  <1>7. CASE EndSession \/ MaxSession
    BY <1>2, <1>7 DEF EndSession, MaxSession
  <1> QED BY <1>0, <1>1, <1>4, <1>5, <1>6, <1>7, ServerSteps

\* The steps that write or read the streams between client and msshd.
LEMMA StreamSteps ==
  ASSUME SessionNext
  PROVE  /\ \/ toServer' = toServer
            \/ SendHeader \/ SendStdin \/ SendEof \/ ReadHeader \/ PumpIn
         /\ \/ toClient' = toClient
            \/ ReadAck \/ ReadFrame \/ Refuse \/ Ack \/ Relay \/ EndSession
         /\ \/ inner' = inner
            \/ PumpEnds \/ Relay \/ EndSession \/ InnerLost \/ ForwardOutput \/ TellStatus
            \/ CloseChannel
         /\ stdin' = stdin \/ PumpIn \/ ReadStdin
         /\ shown' = shown \/ ReadFrame
         /\ \/ command' = command
            \/ OpenSession \/ PumpEnds \/ MaxSession \/ ReadStdin \/ Emit \/ End \/ InnerLost
            \/ ForwardOutput \/ TellStatus
         /\ framed' = framed
         /\ reset' = reset \/ SendStdin \/ SendEof
  BY DEF SessionNext, SessionProgress, RefuseToStart, SendHeader, ReadAck, AckTimeout, SendStdin,
         SendEof, ReadFrame, StreamEnds, ClientDies, ReadHeader, Refuse, Ack, OpenSession, PumpIn,
         PumpEnds, Relay, EndSession, MaxSession, ReadStdin, Emit, End, InnerLost, ForwardOutput,
         TellStatus, CloseChannel

\* A stream with one more frame is a stream.
LEMMA AppendTyped ==
  ASSUME NEW S, NEW q \in Seq(S), NEW e \in S
  PROVE  Append(q, e) \in Seq(S)
  OBVIOUS

\* The stream to msshd keeps its type.
LEMMA ToServerTyped ==
  ASSUME SessionTypeOK, SessionNext
  PROVE  toServer' \in Seq(Frames)
  <1>0. toServer \in Seq(Frames) /\ client \in ClientStates
    BY SessionTypes
  <1>1. CASE SendHeader
    BY <1>1, FramesTyped, SingleFrame DEF SendHeader
  <1>2. CASE SendStdin
    <2>1. client.sent + 1 \in Nat
      BY <1>0, SessionAssumption DEF ClientStates
    <2>2. <<"stdin", client.sent + 1>> \in Frames
      BY <2>1, FramesTyped
    <2>3. toServer' = toServer \/ toServer' = Append(toServer, <<"stdin", client.sent + 1>>)
      BY <1>2 DEF SendStdin, Send
    <2> QED BY <1>0, <2>2, <2>3, AppendTyped
  <1>3. CASE SendEof
    <2>1. toServer' = toServer \/ toServer' = Append(toServer, <<"stdin_eof", 0>>)
      BY <1>3 DEF SendEof, Send
    <2>2. <<"stdin_eof", 0>> \in Frames
      BY FramesTyped
    <2> QED BY <1>0, <2>1, <2>2, AppendTyped
  <1>4. CASE ReadHeader \/ PumpIn
    <2>1. toServer # <<>> /\ toServer' = Tail(toServer)
      BY <1>4 DEF ReadHeader, PumpIn
    <2> QED BY <1>0, <2>1, HeadTail
  <1> QED BY <1>0, <1>1, <1>2, <1>3, <1>4, StreamSteps

\* msshd answers with one frame or, with a banner, two.
LEMMA AckAppends ==
  ASSUME NEW S, NEW q \in Seq(S), NEW a \in S, NEW b \in S, NEW banner \in {<<>>, <<b>>}
  PROVE  q \o <<a>> \o banner \in {Append(q, a), Append(Append(q, a), b)}
  <1>1. Append(q, a) \in Seq(S) /\ q \o <<a>> = Append(q, a)
    OBVIOUS
  <1>2. CASE banner = <<>>
    BY <1>1, <1>2
  <1>3. CASE banner = <<b>>
    <2>1. Append(q, a) \o <<b>> = Append(Append(q, a), b)
      BY <1>1, AppendTwice
    <2> QED BY <1>1, <1>3, <2>1
  <1> QED BY <1>2, <1>3

\* The stream to the client keeps its type.
LEMMA ToClientTyped ==
  ASSUME SessionTypeOK, CommandKnown, SessionNext
  PROVE  toClient' \in Seq(Frames)
  <1>0. toClient \in Seq(Frames) /\ inner \in Seq(Items)
    BY SessionTypes
  <1>1. CASE ReadAck \/ ReadFrame
    <2>1. toClient' = toClient \/ (toClient # <<>> /\ toClient' = Tail(toClient))
      BY <1>1 DEF ReadAck, ReadFrame
    <2> QED BY <1>0, <2>1, HeadTail
  <1>2. CASE Refuse
    <2>1. toClient' = toClient \/ toClient' = Append(toClient, <<"refused", 0>>)
      BY <1>2 DEF Refuse
    <2>2. <<"refused", 0>> \in Frames
      BY FramesTyped
    <2>3. Append(toClient, <<"refused", 0>>) \in Seq(Frames)
      BY <1>0, <2>2, AppendTyped
    <2> QED BY <1>0, <2>1, <2>3
  <1>3. CASE Ack
    <2>1. PICK banner \in {<<>>, <<<<"banner", 0>>>>} :
            toClient' = toClient \o <<<<"ok", 0>>>> \o banner
      BY <1>3 DEF Ack
    <2>2. <<"ok", 0>> \in Frames /\ <<"banner", 0>> \in Frames
      BY FramesTyped
    <2>3. toClient' \in {Append(toClient, <<"ok", 0>>),
                        Append(Append(toClient, <<"ok", 0>>), <<"banner", 0>>)}
      BY <1>0, <2>1, <2>2, AckAppends
    <2>4. Append(toClient, <<"ok", 0>>) \in Seq(Frames)
      BY <1>0, <2>2, AppendTyped
    <2>5. Append(Append(toClient, <<"ok", 0>>), <<"banner", 0>>) \in Seq(Frames)
      BY <2>2, <2>4, AppendTyped
    <2> QED BY <2>3, <2>4, <2>5
  <1>4. CASE Relay
    <2>1. inner # <<>> => Head(inner) \in Items
      BY <1>0, HeadTail
    <2>2. ASSUME NEW f \in Items, f[1] = "stdout" PROVE f \in Frames
      <3>1. f = <<f[1], f[2]>> /\ f[2] \in Nat
        BY DEF Items
      <3>2. f = <<"stdout", f[2]>>
        BY <2>2, <3>1
      <3> QED BY <3>1, <3>2, FramesTyped
    <2>3. \/ toClient' = toClient
          \/ toClient' = Append(toClient, Head(inner)) /\ Head(inner)[1] = "stdout"
      BY <1>4 DEF Relay
    <2>4. inner # <<>>
      BY <1>4 DEF Relay
    <2> QED BY <1>0, <2>1, <2>2, <2>3, <2>4, AppendTyped
  <1>5. CASE EndSession
    <2>1. <<"close", 0>> \in Frames
      BY FramesTyped
    <2>2. toClient' = toClient \/ toClient' = toClient \o LastFrames(server.status)
      BY <1>5 DEF EndSession
    <2>3. CASE LastFrames(server.status) = <<<<"close", 0>>>>
      <3>1. toClient \o LastFrames(server.status) = Append(toClient, <<"close", 0>>)
        BY <1>0, <2>1, <2>3, AppendTwice
      <3>2. Append(toClient, <<"close", 0>>) \in Seq(Frames)
        BY <1>0, <2>1, AppendTyped
      <3> QED BY <1>0, <2>2, <3>1, <3>2
    <2>4. CASE \E f \in Frames : LastFrames(server.status) = <<f, <<"close", 0>>>>
      <3>1. PICK f \in Frames : LastFrames(server.status) = <<f, <<"close", 0>>>>
        BY <2>4
      <3>2. toClient \o LastFrames(server.status) = Append(Append(toClient, f), <<"close", 0>>)
        BY <1>0, <2>1, <3>1, AppendTwice
      <3>3. Append(toClient, f) \in Seq(Frames)
        BY <1>0, AppendTyped
      <3>4. Append(Append(toClient, f), <<"close", 0>>) \in Seq(Frames)
        BY <2>1, <3>3, AppendTyped
      <3> QED BY <1>0, <2>2, <3>2, <3>4
    <2> QED BY <2>3, <2>4, LastFramesAre
  <1> QED BY <1>0, <1>1, <1>2, <1>3, <1>4, <1>5, StreamSteps

\* The beginning of a stream.
LEMMA Beginning ==
  ASSUME NEW S, NEW q \in Seq(S), NEW n \in 0..Len(q)
  PROVE  /\ SubSeq(q, 1, n) \in Seq(S) /\ Len(SubSeq(q, 1, n)) = n
         /\ \A m \in 1..n : SubSeq(q, 1, n)[m] = q[m] /\ m \in DOMAIN q
  <1>1. \A m \in 1..n : m \in 1..Len(q) /\ q[m] \in S
    OBVIOUS
  <1> QED BY <1>1, SubSeqProperties

\* The loss of the inner connection leaves a beginning of what was on its way.
LEMMA LostCut ==
  ASSUME SessionTypeOK, InnerLost
  PROVE  /\ inner' \in Seq(Items)
         /\ \E n \in 0..Len(inner) :
              /\ inner' = Append(SubSeq(inner, 1, n), <<"close", 0>>)
              /\ \A m \in 1..n : inner[m][1] # "close"
         /\ \A k \in DOMAIN inner' : \/ k \in DOMAIN inner /\ inner'[k] = inner[k]
                                     \/ inner'[k] = <<"close", 0>>
  <1>1. PICK n \in 0..Len(inner) :
          /\ \A m \in 1..n : inner[m][1] # "close"
          /\ inner' = Append(SubSeq(inner, 1, n), <<"close", 0>>)
    BY DEF InnerLost
  <1>2. inner \in Seq(Items) /\ <<"close", 0>> \in Items
    BY SessionTypes, ItemsTyped
  <1>3. /\ SubSeq(inner, 1, n) \in Seq(Items) /\ Len(SubSeq(inner, 1, n)) = n
        /\ \A m \in 1..n : SubSeq(inner, 1, n)[m] = inner[m] /\ m \in DOMAIN inner
    BY <1>2, Beginning
  <1>4. /\ inner' \in Seq(Items)
        /\ inner'[n + 1] = <<"close", 0>>
        /\ \A k \in DOMAIN SubSeq(inner, 1, n) : inner'[k] = SubSeq(inner, 1, n)[k]
        /\ \A k \in DOMAIN inner' : k \in DOMAIN SubSeq(inner, 1, n) \/ k = n + 1
    BY <1>1, <1>2, <1>3, Appended
  <1>5. DOMAIN SubSeq(inner, 1, n) = 1..n
    BY <1>3
  <1>6. \A k \in DOMAIN inner' : \/ k \in DOMAIN inner /\ inner'[k] = inner[k]
                                \/ inner'[k] = <<"close", 0>>
    BY <1>3, <1>4, <1>5
  <1> QED BY <1>1, <1>4, <1>6

\* The stream from the inner sshd keeps its type.
LEMMA InnerTyped ==
  ASSUME SessionTypeOK, SessionNext
  PROVE  inner' \in Seq(Items)
  <1>0. inner \in Seq(Items) /\ command \in CommandStates
    BY SessionTypes
  <1>1. CASE PumpEnds
    BY <1>1, ItemsTyped, SingleFrame DEF PumpEnds
  <1>2. CASE Relay \/ EndSession
    <2>1. inner # <<>> /\ inner' = Tail(inner)
      BY <1>2 DEF Relay, EndSession
    <2> QED BY <1>0, <2>1, HeadTail
  <1>3. CASE CloseChannel
    <2>1. inner' = Append(inner, <<"close", 0>>)
      BY <1>3 DEF CloseChannel
    <2>2. <<"close", 0>> \in Items
      BY ItemsTyped
    <2> QED BY <1>0, <2>1, <2>2, AppendTyped
  <1>6. CASE InnerLost
    BY <1>6, LostCut
  <1>4. CASE ForwardOutput
    <2>1. <<"stdout", command.forwarded + 1>> \in Items
      <3>1. command.forwarded + 1 \in Nat
        BY <1>0, SessionAssumption DEF CommandStates
      <3> QED BY <3>1, ItemsTyped
    <2> QED BY <1>0, <1>4, <2>1, AppendTyped DEF ForwardOutput
  <1>5. CASE TellStatus
    <2>1. <<"status", command.status>> \in Items
      <3>1. command.status \in Nat
        BY <1>0, Values DEF CommandStates
      <3> QED BY <3>1, ItemsTyped
    <2> QED BY <1>0, <1>5, <2>1, AppendTyped DEF TellStatus
  <1> QED BY <1>0, <1>1, <1>2, <1>3, <1>4, <1>5, <1>6, StreamSteps

\* The stream to the inner sshd keeps its type.
LEMMA StdinTyped ==
  ASSUME SessionTypeOK, InputFlow, SessionNext
  PROVE  stdin' \in Seq(Items)
  <1>0. /\ toServer \in Seq(Frames) /\ stdin \in Seq(Items)
        /\ command \in CommandStates
    BY SessionTypes
  <1>1. CASE PumpIn
    <2>1. 1 \in DOMAIN toServer /\ Head(toServer) = toServer[1] /\ Head(toServer) \in Frames
      BY <1>0, <1>1 DEF PumpIn
    <2>2. toServer[1] = InputFrame(Len(command.got) + Len(stdin) + 1, client.sent)
      BY <1>1, <2>1 DEF PumpIn, InputFlow, FramesAfter
    <2>3. Head(toServer)[1] \in Item
      BY <2>1, <2>2 DEF InputFrame, Item
    <2>4. Head(toServer) \in Items
      BY <2>1, <2>3 DEF Frames, Items
    <2> QED BY <1>0, <1>1, <2>4 DEF PumpIn
  <1>2. CASE ReadStdin
    BY <1>0, <1>2 DEF ReadStdin
  <1> QED BY <1>0, <1>1, <1>2, StreamSteps

\* What the client has shown keeps its type: chunks the command has written.
LEMMA ShownTyped ==
  ASSUME SessionTypeOK, CommandKnown, OutputFlow, SessionNext
  PROVE  shown' \in Seq(1..MaxOut)
  <1>0. shown \in Seq(1..MaxOut) /\ toClient \in Seq(Frames) /\ command \in CommandStates
    BY SessionTypes
  <1>1. CASE ReadFrame /\ shown' # shown
    <2>1. /\ client.at # "done" /\ toClient # <<>> /\ Head(toClient)[1] = "stdout"
          /\ shown' = Append(shown, Head(toClient)[2])
      BY <1>1 DEF ReadFrame
    <2>2. PICK r \in 0..command.forwarded : Chunks(toClient, Len(shown), r)
      BY <2>1 DEF OutputFlow, OutputUpTo
    <2>3. r \in Nat /\ r <= MaxOut
      BY <1>0, SessionAssumption DEF CommandStates
    <2>4. Head(toClient)[2] = Len(shown) + 1 /\ Len(shown) + 1 <= r
      BY <1>0, <2>1, <2>2, <2>3, ChunksTail
    <2>5. Head(toClient)[2] \in 1..MaxOut
      BY <1>0, <2>3, <2>4, SessionAssumption
    <2> QED BY <1>0, <2>1, <2>5
  <1> QED BY <1>0, <1>1, StreamSteps

\* The command keeps its type.
LEMMA CommandTyped ==
  ASSUME SessionTypeOK, CommandKnown, SessionNext
  PROVE  command' \in CommandStates
  <1> USE SessionAssumption DEF CommandStates
  <1>0. command \in CommandStates /\ stdin \in Seq(Items)
    BY SessionTypes
  <1>1. CASE \E at \in {"running", "lost"} : command' = [command EXCEPT !.at = at]
    BY <1>0, <1>1
  <1>2. CASE OpenSession \/ PumpEnds \/ InnerLost
    BY <1>0, <1>1, <1>2 DEF OpenSession, PumpEnds, InnerLost
  <1>3. CASE MaxSession
    BY <1>0, <1>3 DEF MaxSession
  <1>4. CASE ReadStdin
    <2>1. Append(command.got, Head(stdin)) \in Seq(Items)
      BY <1>0, <1>4 DEF ReadStdin
    <2> QED BY <1>0, <1>4, <2>1 DEF ReadStdin
  <1>5. CASE Emit
    <2>1. command.emitted + 1 \in 0..MaxOut
      BY <1>0, <1>5 DEF Emit
    <2> QED BY <1>0, <1>5, <2>1 DEF Emit
  <1>6. CASE End
    BY <1>0, <1>6 DEF End
  <1>7. CASE ForwardOutput
    <2>1. command.forwarded + 1 \in 0..MaxOut
      BY <1>0, <1>7 DEF ForwardOutput, CommandKnown
    <2>2. command' = [command EXCEPT !.forwarded = command.forwarded + 1]
      BY <1>7 DEF ForwardOutput
    <2> QED BY <1>0, <2>1, <2>2
  <1>8. CASE TellStatus
    BY <1>0, <1>8 DEF TellStatus
  <1> QED BY <1>0, <1>2, <1>3, <1>4, <1>5, <1>6, <1>7, <1>8, StreamSteps

\* Every step keeps the type invariant.
LEMMA SessionTypeStep ==
  ASSUME SInv, SessionNext
  PROVE  SessionTypeOK'
  <1>0. SessionTypeOK /\ CommandKnown /\ InputFlow /\ OutputFlow
    BY DEF SInv
  <1>1. framed' \in BOOLEAN /\ reset' \in BOOLEAN
    <2>1. framed \in BOOLEAN /\ reset \in BOOLEAN
      BY <1>0, SessionTypes
    <2> QED BY <2>1, StreamSteps DEF SendStdin, SendEof, Send
  <1>2. /\ client' \in ClientStates /\ (client'.at = "done" <=> client'.rc # Unset)
        /\ server' \in ServerStates /\ command' \in CommandStates
    BY <1>0, ClientTyped, ServerTyped, CommandTyped
  <1>3. /\ toServer' \in Seq(Frames) /\ toClient' \in Seq(Frames)
        /\ inner' \in Seq(Items) /\ stdin' \in Seq(Items) /\ shown' \in Seq(1..MaxOut)
    BY <1>0, ToServerTyped, ToClientTyped, InnerTyped, StdinTyped, ShownTyped
  <1> QED BY <1>1, <1>2, <1>3
       DEF SessionTypeOK, ClientStates, ServerStates, CommandStates, Frames, Items

\* A relayed item is appended to the client's stream when it is output, or dropped.
LEMMA RelayAppends ==
  ASSUME SessionTypeOK, Relay
  PROVE  /\ inner # <<>> /\ Head(inner) \in Items
         /\ \/ Head(inner)[1] # "stdout" /\ toClient' = toClient
            \/ /\ Head(inner)[1] = "stdout" /\ Head(inner) = <<"stdout", Head(inner)[2]>>
               /\ Head(inner) \in Frames /\ toClient' = Append(toClient, Head(inner))
  <1>1. inner \in Seq(Items)
    BY SessionTypes
  <1>2. inner # <<>>
    BY DEF Relay
  <1>3. Head(inner) \in Items
    BY <1>1, <1>2, HeadTail
  <1>4. ASSUME NEW f \in Items, f[1] = "stdout" PROVE f = <<"stdout", f[2]>> /\ f \in Frames
    <2>1. f = <<f[1], f[2]>> /\ f[2] \in Nat
      BY DEF Items
    <2>2. f = <<"stdout", f[2]>>
      BY <1>4, <2>1
    <2> QED BY <2>1, <2>2, FramesTyped
  <1>5. \/ Head(inner)[1] = "stdout" /\ toClient' = Append(toClient, Head(inner))
        \/ Head(inner)[1] # "stdout" /\ toClient' = toClient
    BY DEF Relay
  <1> QED BY <1>2, <1>3, <1>4, <1>5

\* The end of a session appends EXIT or SIGNAL, when there is a status, and CLOSE.
LEMMA EndAppends ==
  ASSUME SessionTypeOK, EndSession
  PROVE  \/ toClient' = toClient
         \/ /\ toClient' = Append(toClient, <<"close", 0>>)
            /\ server.status = Unset
         \/ \E f \in {<<"signal", server.status>>, <<"exit", server.status>>} :
              /\ toClient' = Append(Append(toClient, f), <<"close", 0>>)
              /\ f \in Frames
              /\ server.status # Unset
              /\ f[1] = "signal" <=> server.status \in SignalDeaths
  <1>1. toClient' = toClient \/ toClient' = toClient \o LastFrames(server.status)
    BY DEF EndSession
  <1>2. toClient \in Seq(Frames) /\ <<"close", 0>> \in Frames
    BY SessionTypes, FramesTyped
  <1>3. CASE LastFrames(server.status) = <<<<"close", 0>>>> /\ server.status = Unset
    BY <1>1, <1>2, <1>3, AppendTwice
  <1>4. CASE \E f \in {<<"signal", server.status>>, <<"exit", server.status>>} :
              /\ LastFrames(server.status) = <<f, <<"close", 0>>>>
              /\ f \in Frames
              /\ server.status # Unset
              /\ f[1] = "signal" <=> server.status \in SignalDeaths
    <2>1. PICK f \in {<<"signal", server.status>>, <<"exit", server.status>>} :
              /\ LastFrames(server.status) = <<f, <<"close", 0>>>>
              /\ f \in Frames
              /\ server.status # Unset
              /\ f[1] = "signal" <=> server.status \in SignalDeaths
      BY <1>4
    <2>2. toClient \o LastFrames(server.status) = Append(Append(toClient, f), <<"close", 0>>)
      BY <1>2, <2>1, AppendTwice
    <2> QED BY <1>1, <2>1, <2>2
  <1> QED BY <1>3, <1>4, LastFramesAre

\* The first frame stays the first when another is appended.
LEMMA HeadOfAppend ==
  ASSUME NEW S, NEW q \in Seq(S), NEW e \in S, q # <<>>
  PROVE  Append(q, e) \in Seq(S) /\ Append(q, e) # <<>> /\ Head(Append(q, e)) = Head(q)
  OBVIOUS

\* The frame the client waits for stays first until it is read.
LEMMA HeadStays ==
  ASSUME SessionTypeOK, Relay \/ EndSession, toClient # <<>>
  PROVE  toClient' # <<>> /\ Head(toClient') = Head(toClient)
  <1>0. toClient \in Seq(Frames) /\ <<"close", 0>> \in Frames
    BY SessionTypes, FramesTyped
  <1>1. CASE Relay
    BY <1>0, <1>1, RelayAppends, HeadOfAppend
  <1>2. CASE EndSession
    <2>1. ASSUME NEW f \in Frames, toClient' = Append(Append(toClient, f), <<"close", 0>>)
          PROVE  toClient' # <<>> /\ Head(toClient') = Head(toClient)
      <3>1. /\ Append(toClient, f) \in Seq(Frames) /\ Append(toClient, f) # <<>>
            /\ Head(Append(toClient, f)) = Head(toClient)
        BY <1>0, HeadOfAppend
      <3> QED BY <1>0, <2>1, <3>1, HeadOfAppend
    <2>2. ASSUME toClient' = Append(toClient, <<"close", 0>>)
          PROVE  toClient' # <<>> /\ Head(toClient') = Head(toClient)
      BY <1>0, <2>2, HeadOfAppend
    <2>3. \/ toClient' = toClient \/ toClient' = Append(toClient, <<"close", 0>>)
          \/ \E f \in Frames : toClient' = Append(Append(toClient, f), <<"close", 0>>)
      BY <1>2, EndAppends
    <2> QED BY <2>1, <2>2, <2>3
  <1> QED BY <1>1, <1>2

\* Every step keeps client, msshd and command in phase.
LEMMA PhasesStep ==
  ASSUME SInv, SessionNext
  PROVE  Phases'
  <1>0. Phases /\ client \in ClientStates /\ server \in ServerStates /\ command \in CommandStates
        /\ toServer \in Seq(Frames) /\ toClient \in Seq(Frames)
    BY SessionTypes DEF SInv
  <1> USE <1>0 DEF Phases, ClientStates, ServerStates, CommandStates
  <1>1. ASSUME NEW v, Return(v), UNCHANGED <<server, toServer, command>>,
               server.at \in {"header", "connect"} => toClient' = toClient
        PROVE  Phases'
    BY <1>1 DEF Return
  <1>2. CASE RefuseToStart \/ AckTimeout \/ StreamEnds \/ ClientDies
    BY <1>1, <1>2 DEF RefuseToStart, AckTimeout, StreamEnds, ClientDies
  <1>3. CASE SendHeader
    BY <1>3 DEF SendHeader
  <1>4. CASE ReadAck
    <2>1. CASE toClient # <<>> /\ client' = [client EXCEPT !.at = "pump"]
      <3>1. /\ client'.at = "pump" /\ client'.sent = client.sent /\ client'.eof = client.eof
            /\ UNCHANGED <<server, toServer, command>> /\ client.at = "ack"
        BY <1>4, <2>1 DEF ReadAck
      <3>2. server.at \in {"acked", "session", "closed"}
        BY <2>1
      <3> QED BY <3>1, <3>2
    <2>2. CASE \E v \in {6, 7} : Return(v)
      <3>1. PICK v \in {6, 7} : Return(v)
        BY <2>2
      <3>2. UNCHANGED <<server, toServer, command>>
        BY <1>4 DEF ReadAck
      <3>3. server.at \in {"header", "connect"} => toClient' = toClient
        BY <1>4 DEF ReadAck
      <3> HIDE <1>0 DEF Phases
      <3> QED BY <1>1, <3>1, <3>2, <3>3
    <2>3. \/ toClient # <<>> /\ client' = [client EXCEPT !.at = "pump"]
          \/ Return(6) \/ Return(7)
      BY <1>4 DEF ReadAck
    <2> QED BY <2>1, <2>2, <2>3
  <1>5. CASE SendStdin \/ SendEof
    <2>1. CASE Return(Recorded(8)) /\ toServer' = toServer
      BY <1>1, <1>5, <2>1 DEF SendStdin, SendEof
    <2>2. CASE \/ client' = [client EXCEPT !.sent = @ + 1]
               \/ client' = [client EXCEPT !.eof = TRUE]
      BY <1>5, <2>2 DEF SendStdin, SendEof
    <2> QED BY <1>5, <2>1, <2>2 DEF SendStdin, SendEof, Send
  <1>6. CASE ReadFrame
    <2>1. CASE client' = client \/ client'.at = client.at
      BY <1>6, <2>1 DEF ReadFrame
    <2>2. CASE Return(Recorded(0))
      BY <1>1, <1>6, <2>2 DEF ReadFrame
    <2>3. \/ client' = client \/ Return(Recorded(0))
          \/ client' = [client EXCEPT !.exit = Head(toClient)[2]]
          \/ client' = [client EXCEPT !.exit = UnknownSignal]
      BY <1>6 DEF ReadFrame
    <2> QED BY <2>1, <2>2, <2>3
  <1>7. CASE ReadHeader
    BY <1>7 DEF ReadHeader
  <1>8. CASE Refuse
    BY <1>8 DEF Refuse
  <1>9. CASE Ack
    <2>1. /\ toClient = <<>> /\ toClient' # <<>> /\ Head(toClient')[1] = "ok"
      BY <1>9 DEF Ack
    <2> QED BY <1>9, <2>1 DEF Ack
  <1>10. CASE OpenSession
    BY <1>10 DEF OpenSession
  <1>11. CASE PumpIn
    BY <1>11 DEF PumpIn
  <1>12. CASE PumpEnds
    BY <1>12 DEF PumpEnds
  <1>13. CASE Relay \/ EndSession
    <2>1. toClient # <<>> => toClient' # <<>> /\ Head(toClient') = Head(toClient)
      BY <1>13, HeadStays DEF SInv
    <2> QED BY <1>13, <2>1 DEF Relay, EndSession
  <1>15. CASE MaxSession
    BY <1>15 DEF MaxSession
  <1>16. CASE ReadStdin \/ Emit \/ End \/ InnerLost \/ ForwardOutput \/ TellStatus \/ CloseChannel
    BY <1>16 DEF ReadStdin, Emit, End, InnerLost, ForwardOutput, TellStatus, CloseChannel,
                 Forwarding
  <1> QED BY <1>2, <1>3, <1>4, <1>5, <1>6, <1>7, <1>8, <1>9, <1>10, <1>11, <1>12, <1>13,
             <1>15, <1>16 DEF SessionNext, SessionProgress

\* Every step keeps what msshd knows of the command true.
LEMMA CommandKnownStep ==
  ASSUME SInv, SessionNext
  PROVE  CommandKnown'
  <1>0. /\ CommandKnown /\ Phases
        /\ client \in ClientStates /\ server \in ServerStates /\ command \in CommandStates
        /\ inner \in Seq(Items) /\ stdin \in Seq(Items)
    BY SessionTypes DEF SInv
  <1> USE <1>0 DEF CommandKnown
  <1>1. CASE UNCHANGED <<server, stdin, command, inner>>
    BY <1>1
  <1>2. CASE ReadHeader \/ Refuse \/ Ack
    BY <1>2 DEF ReadHeader, Refuse, Ack, ServerStates
  <1>3. CASE OpenSession
    <2>1. command.at = "none" /\ command.status = Unset
      BY <1>3 DEF OpenSession, Phases, CommandStates
    <2> QED BY <1>3, <2>1 DEF OpenSession, ServerStates, CommandStates
  <1>4. CASE PumpIn
    <2>1. command.at # "none"
      BY <1>4 DEF PumpIn, Phases
    <2> QED BY <1>4, <2>1 DEF PumpIn
  <1>5. CASE PumpEnds
    <2>1. command.at # "none"
      BY <1>5 DEF PumpEnds, Phases
    <2>2. inner' = <<<<"close", 0>>>> /\ server'.status = server.status /\ server' \in ServerStates
      BY <1>5 DEF PumpEnds, ServerStates
    <2>3. \A n \in DOMAIN inner' : inner'[n] = <<"close", 0>>
      BY <2>2
    <2>4. \A n \in DOMAIN inner' :
            /\ inner'[n][1] \in {"stdout", "status", "close"}
            /\ inner'[n][1] # "status"
      BY <2>3
    <2>5. CASE command.at = "running" /\ command' = [command EXCEPT !.at = "lost"]
      BY <1>5, <2>1, <2>2, <2>4, <2>5 DEF PumpEnds, CommandStates
    <2>6. CASE command' = command
      BY <1>5, <2>1, <2>2, <2>4, <2>6 DEF PumpEnds, CommandStates
    <2> QED BY <1>5, <2>5, <2>6 DEF PumpEnds
  <1>6. CASE Relay
    <2>1. /\ command.at # "none" /\ command' = command /\ inner # <<>> /\ inner' = Tail(inner)
      BY <1>6 DEF Relay, Phases
    <2>2. \A n \in DOMAIN inner' : n + 1 \in DOMAIN inner /\ inner'[n] = inner[n + 1]
      BY <2>1, HeadTail
    <2>3. Head(inner) = inner[1] /\ 1 \in DOMAIN inner
      BY <2>1, HeadTail
    <2>4. \/ server' = server
          \/ Head(inner)[1] = "status" /\ server' = [server EXCEPT !.status = Head(inner)[2]]
      BY <1>6 DEF Relay
    <2>5. server'.status # Unset => server'.status = command.status
      BY <2>3, <2>4 DEF ServerStates
    <2> QED BY <2>1, <2>2, <2>5
  <1>7. CASE EndSession
    <2>1. /\ command.at # "none" /\ command' = command /\ inner # <<>> /\ inner' = Tail(inner)
      BY <1>7 DEF EndSession, Phases
    <2>2. \A n \in DOMAIN inner' : n + 1 \in DOMAIN inner /\ inner'[n] = inner[n + 1]
      BY <2>1, HeadTail
    <2>3. server'.status = server.status
      BY <1>7 DEF EndSession, ServerStates
    <2> QED BY <2>1, <2>2, <2>3
  <1>8. CASE MaxSession
    <2>1. command.at # "none"
      BY <1>8 DEF MaxSession, Phases
    <2> QED BY <1>8, <2>1 DEF MaxSession, ServerStates, CommandStates
  <1>9. CASE ReadStdin
    <2>1. /\ command'.at = command.at /\ command'.status = command.status
          /\ command'.told = command.told /\ command'.emitted = command.emitted
          /\ command'.forwarded = command.forwarded /\ command.at # "none"
      BY <1>9 DEF ReadStdin, CommandStates
    <2> QED BY <1>9, <2>1 DEF ReadStdin
  <1>10. CASE Emit
    <2>1. /\ command'.at = command.at /\ command'.status = command.status
          /\ command'.told = command.told /\ command'.emitted = command.emitted + 1
          /\ command'.forwarded = command.forwarded /\ command.at # "none"
          /\ command.emitted \in Nat /\ command.forwarded \in Nat
      BY <1>10, SessionAssumption DEF Emit, CommandStates
    <2> QED BY <1>10, <2>1 DEF Emit
  <1>11. CASE End
    <2>1. PICK s \in Status \cup SignalDeaths :
            command' = [command EXCEPT !.at = "ended", !.status = s]
      BY <1>11 DEF End
    <2>2. /\ command'.at = "ended" /\ command'.status = s /\ s # Unset
          /\ command'.told = command.told /\ command'.emitted = command.emitted
          /\ command'.forwarded = command.forwarded /\ command.at = "running"
          /\ command.status = Unset /\ ~command.told
      BY <1>11, <2>1, Values DEF End, CommandStates
    <2> QED BY <1>11, <2>2 DEF End
  <1>12. CASE InnerLost \/ CloseChannel
    <2>1. /\ command'.status = command.status /\ command'.told = command.told
          /\ command'.emitted = command.emitted /\ command'.forwarded = command.forwarded
          /\ command.at # "none"
          /\ command'.at = command.at \/ command'.at = "lost"
      BY <1>12 DEF InnerLost, CloseChannel, CommandStates, Phases, Forwarding
    <2>3. \A n \in DOMAIN inner' :
            (n \in DOMAIN inner /\ inner'[n] = inner[n]) \/ inner'[n] = <<"close", 0>>
      <3>1. CASE InnerLost
        BY <3>1, LostCut DEF SInv
      <3>2. CASE CloseChannel
        BY <3>2, ItemsTyped, Appended DEF CloseChannel
      <3> QED BY <1>12, <3>1, <3>2
    <2>4. \A n \in DOMAIN inner' :
            (n \in DOMAIN inner /\ inner'[n] = inner[n]) \/ inner'[n][1] = "close"
      BY <2>3
    <2>5. server' = server
      BY <1>12 DEF InnerLost, CloseChannel
    <2> QED BY <2>1, <2>4, <2>5
  <1>13. CASE ForwardOutput
    <2>1. /\ command'.status = command.status /\ command'.told = command.told
          /\ command'.emitted = command.emitted /\ command'.forwarded = command.forwarded + 1
          /\ command.at # "none" /\ command'.at = command.at
          /\ command.emitted \in Nat /\ command.forwarded \in Nat
          /\ command.forwarded < command.emitted
      BY <1>13, SessionAssumption DEF ForwardOutput, CommandStates, Phases, Forwarding
    <2>2. inner' = Append(inner, <<"stdout", command.forwarded + 1>>)
      BY <1>13 DEF ForwardOutput
    <2>3. \A n \in DOMAIN inner' :
            \/ n \in DOMAIN inner /\ inner'[n] = inner[n]
            \/ inner'[n] = <<"stdout", command.forwarded + 1>>
      BY <2>1, <2>2, ItemsTyped, Appended
    <2>4. \A n \in DOMAIN inner' :
            (n \in DOMAIN inner /\ inner'[n] = inner[n]) \/ inner'[n][1] = "stdout"
      BY <2>3
    <2>5. server' = server
      BY <1>13 DEF ForwardOutput
    <2> QED BY <2>1, <2>4, <2>5
  <1>14. CASE TellStatus
    <2>1. /\ command'.status = command.status /\ command'.told = TRUE
          /\ command'.emitted = command.emitted /\ command'.forwarded = command.forwarded
          /\ command.at = "ended" /\ command'.at = "ended" /\ command.status \in Nat
      BY <1>14, Values DEF TellStatus, CommandStates, Forwarding
    <2>2. inner' = Append(inner, <<"status", command.status>>)
      BY <1>14 DEF TellStatus
    <2>3. \A n \in DOMAIN inner' :
            \/ n \in DOMAIN inner /\ inner'[n] = inner[n]
            \/ inner'[n] = <<"status", command.status>>
      BY <2>1, <2>2, ItemsTyped, Appended
    <2>4. \A n \in DOMAIN inner' :
            \/ n \in DOMAIN inner /\ inner'[n] = inner[n]
            \/ inner'[n][1] = "status" /\ inner'[n][2] = command.status
      BY <2>3
    <2>5. server' = server
      BY <1>14 DEF TellStatus
    <2> QED BY <2>1, <2>4, <2>5
  <1> QED BY <1>1, <1>2, <1>3, <1>4, <1>5, <1>6, <1>7, <1>8, <1>9, <1>10, <1>11, <1>12, <1>13,
             <1>14, StreamSteps, ServerSteps

\* Every step keeps a refused client's command from running.
LEMMA RefusedStep ==
  ASSUME SInv, SessionNext
  PROVE  RefusalHolds'
  <1>0. /\ RefusalHolds /\ Phases /\ CommandKnown /\ ExitCameLast
        /\ client \in ClientStates /\ (client.at = "done" <=> client.rc # Unset)
        /\ server \in ServerStates /\ command \in CommandStates
    BY SessionTypes DEF SInv
  <1> DEFINE Told(rc) == rc \in {2, 4, 5, 6, 7}
  <1>1. ~Told(1) /\ ~Told(8) /\ ~Told(0) /\ ~Told(Killed) /\ ~Told(Unset)
    BY DEF Killed, Unset
  <1>2. ~Told(UnknownSignal) /\ \A s \in Status : ~Told(s)
    BY DEF Status, UnknownSignal
  <1>3. ASSUME NEW v, ~Told(v) PROVE ~Told(Recorded(v))
    <2>1. client.exit # Unset =>
            client.exit = Reported(command.status) /\ command.status # Unset
      BY <1>0 DEF ExitCameLast, StatusAfterOutput
    <2>2. client.exit # Unset => client.exit \in Status \cup {UnknownSignal}
      BY <1>0, <2>1 DEF CommandStates, Reported
    <2> QED BY <1>2, <1>3, <2>2 DEF Recorded
  <1>4. client.at # "done" => ~Told(client.rc)
    BY <1>0, <1>1
  <1>5. RefusalHolds <=> (Told(client.rc) =>
          /\ command.at = "none" /\ server.at \in {"header", "closed"}
          /\ server.at = "header" => toServer = <<>>)
    BY DEF RefusalHolds
  <1>6. RefusalHolds' <=> (Told(client'.rc) =>
          /\ command'.at = "none" /\ server'.at \in {"header", "closed"}
          /\ server'.at = "header" => toServer' = <<>>)
    BY DEF RefusalHolds
  <1> HIDE DEF Told
  <1>a. ASSUME NEW v, ~Told(v), Return(v) PROVE RefusalHolds'
    BY <1>0, <1>6, <1>a DEF Return, ClientStates
  <1>b. CASE RefuseToStart
    <2>1. server.at = "header" /\ toServer = <<>> /\ command.at = "none"
      BY <1>0, <1>b DEF RefuseToStart, Phases
    <2> QED BY <1>b, <1>6, <2>1 DEF RefuseToStart
  <1>c. CASE ReadAck
    <2>1. client.at = "ack" /\ UNCHANGED <<server, toServer, command>>
      BY <1>c DEF ReadAck
    <2>2. CASE client' = [client EXCEPT !.at = "pump"]
      <3>1. client'.rc = client.rc
        BY <1>0, <2>2 DEF ClientStates
      <3> QED BY <1>4, <1>6, <2>1, <3>1
    <2>3. CASE Return(7) \/ Return(6)
      <3>1. server.at = "closed" /\ command.at = "none"
        <4>1. CASE toClient # <<>> /\ Head(toClient)[1] # "ok"
          BY <1>0, <2>1, <4>1 DEF Phases, ServerStates
        <4>2. CASE toClient = <<>> /\ server.at = "closed"
          BY <1>0, <2>1, <4>2 DEF Phases
        <4>3. CASE toClient # <<>> /\ client' = [client EXCEPT !.at = "pump"]
          BY <1>0, <2>3, <4>3 DEF Return, ClientStates
        <4> QED BY <1>c, <4>1, <4>2, <4>3 DEF ReadAck, Closed
      <3> QED BY <1>6, <2>1, <3>1
    <2>4. \/ client' = [client EXCEPT !.at = "pump"]
          \/ Return(6) \/ Return(7)
      BY <1>c DEF ReadAck
    <2> QED BY <2>2, <2>3, <2>4
  <1>d. CASE AckTimeout
    BY <1>1, <1>a, <1>d DEF AckTimeout
  <1>e. CASE StreamEnds
    BY <1>1, <1>3, <1>a, <1>e DEF StreamEnds
  <1>f. CASE ClientDies
    BY <1>1, <1>a, <1>f DEF ClientDies
  <1>g. CASE SendHeader \/ SendStdin \/ SendEof \/ ReadFrame
    <2>1. client.at # "done"
      BY <1>g DEF SendHeader, SendStdin, SendEof, ReadFrame
    <2>2. \/ client'.rc = client.rc
          \/ Return(Recorded(8)) \/ Return(Recorded(0))
      BY <1>0, <1>g DEF SendHeader, SendStdin, SendEof, Send, ReadFrame, ClientStates
    <2> QED BY <1>1, <1>3, <1>4, <1>6, <1>a, <2>1, <2>2
  <1>h. CASE client' = client
    <2>1. CASE ~Told(client.rc)
      BY <1>6, <1>h, <2>1
    <2>2. CASE Told(client.rc)
      <3>1. /\ command.at = "none" /\ server.at \in {"header", "closed"}
            /\ server.at = "header" => toServer = <<>>
        BY <1>0, <1>5, <2>2
      <3>2. client.at = "done"
        BY <1>4, <2>2
      <3>3. command' = command
        BY <3>1, <3>2, StreamSteps DEF OpenSession, PumpEnds, MaxSession, ReadStdin, Emit, End,
          InnerLost, ForwardOutput, TellStatus, Forwarding
      <3>4. server' = server \/ server'.at = "closed"
        BY <1>0, <3>1, ServerSteps DEF ReadHeader, Refuse, Ack, OpenSession, PumpEnds, Relay,
          EndSession, MaxSession, ServerStates
      <3>5. server.at = "header" => toServer' = toServer
        BY <3>1, <3>2, StreamSteps DEF SendHeader, SendStdin, SendEof, ReadHeader, PumpIn
      <3> QED BY <1>6, <3>1, <3>3, <3>4, <3>5
    <2> QED BY <2>1, <2>2
  <1> QED BY <1>b, <1>c, <1>d, <1>e, <1>f, <1>g, <1>h, ClientSteps

\* The next input frame goes to the end of a stream of input frames.
LEMMA FramesAppend ==
  ASSUME NEW S, NEW q \in Seq(S), NEW e \in S, NEW k \in Nat, NEW sent \in Nat,
         FramesAfter(q, k, sent), NEW l \in Nat, l = Len(q), e = InputFrame(k + l + 1, sent)
  PROVE  FramesAfter(Append(q, e), k, sent) /\ Len(Append(q, e)) = l + 1
  <1>1. Len(Append(q, e)) = l + 1
    OBVIOUS
  <1>2. ASSUME NEW n \in DOMAIN Append(q, e)
        PROVE  Append(q, e)[n] = InputFrame(k + n, sent)
    <2>1. CASE n \in DOMAIN q
      BY <2>1 DEF FramesAfter
    <2>2. CASE n = l + 1
      BY <2>2, k + (l + 1) = k + l + 1
    <2> QED BY <2>1, <2>2
  <1> QED BY <1>1, <1>2 DEF FramesAfter

\* The first of a stream of input frames is the next one.
LEMMA FramesTail ==
  ASSUME NEW S, NEW q \in Seq(S), q # <<>>, NEW k \in Nat, NEW sent \in Nat,
         FramesAfter(q, k, sent)
  PROVE  Head(q) = InputFrame(k + 1, sent) /\ FramesAfter(Tail(q), k + 1, sent)
  <1>1. Head(q) = q[1] /\ 1 \in DOMAIN q
    OBVIOUS
  <1>2. ASSUME NEW n \in DOMAIN Tail(q)
        PROVE  Tail(q)[n] = InputFrame(k + 1 + n, sent)
    <2>1. n \in Nat /\ n + 1 \in DOMAIN q /\ Tail(q)[n] = q[n + 1]
      OBVIOUS
    <2> QED BY <2>1, k + (n + 1) = k + 1 + n DEF FramesAfter
  <1> QED BY <1>1, <1>2 DEF FramesAfter

\* Input frames stay what they are when the client sends one more.
LEMMA FramesMore ==
  ASSUME NEW S, NEW q \in Seq(S), NEW k \in Nat, NEW sent \in Nat, NEW l \in Nat, l = Len(q),
         FramesAfter(q, k, sent), k + l <= sent
  PROVE  FramesAfter(q, k, sent + 1)
  <1> SUFFICES ASSUME NEW n \in DOMAIN q
               PROVE  q[n] = InputFrame(k + n, sent + 1)
    BY DEF FramesAfter
  <1>1. n \in 1..l
    OBVIOUS
  <1> QED BY <1>1 DEF FramesAfter, InputFrame

\* Every step keeps the input whole and in order.
LEMMA InputFlowStep ==
  ASSUME SInv, SessionNext
  PROVE  InputFlow'
  <1>0. /\ Phases /\ CommandKnown /\ InputFlow
        /\ client \in ClientStates /\ server \in ServerStates /\ command \in CommandStates
        /\ toServer \in Seq(Frames) /\ stdin \in Seq(Items) /\ command.got \in Seq(Items)
    BY SessionTypes DEF SInv, CommandStates
  <1>1. PICK g \in Nat, h \in Nat, t \in Nat, sent \in Nat, total \in Nat :
          /\ g = Len(command.got) /\ h = Len(stdin) /\ t = Len(toServer)
          /\ sent = client.sent /\ total = InputLength
    BY <1>0, SessionAssumption DEF ClientStates, InputLength
  <1>2. /\ g + h <= total
        /\ FramesAfter(command.got, 0, sent) /\ FramesAfter(stdin, g, sent)
        /\ server.at \in {"connect", "acked", "session"} =>
             g + h + t = total /\ FramesAfter(toServer, g + h, sent)
    BY <1>0, <1>1 DEF InputFlow
  <1>3. ASSUME client'.sent = client.sent, client'.eof = client.eof, command'.got = command.got,
               stdin' = stdin,
               \/ toServer' = toServer /\ server'.at = server.at
               \/ server'.at \in {"header", "closed"}
               \/ /\ toServer' = toServer /\ server.at \in {"connect", "acked", "session"}
                  /\ server'.at \in {"connect", "acked", "session"}
        PROVE  InputFlow'
    BY <1>0, <1>3 DEF InputFlow, InputLength
  <1>4. ASSUME NEW gg \in Nat, NEW hh \in Nat, NEW tt \in Nat, NEW s, NEW ll,
               gg = Len(command'.got), hh = Len(stdin'), tt = Len(toServer'),
               s = client'.sent, ll = InputLength', gg + hh <= ll,
               FramesAfter(command'.got, 0, s), FramesAfter(stdin', gg, s),
               gg + hh + tt = ll, FramesAfter(toServer', gg + hh, s)
        PROVE  InputFlow'
    BY <1>4 DEF InputFlow
  <1>a. CASE SendStdin \/ SendEof
    <2>0. /\ client.at = "pump" /\ ~client.eof
          /\ UNCHANGED <<stdin, server, command>>
      BY <1>a DEF SendStdin, SendEof
    <2>1. CASE Return(Recorded(8)) /\ toServer' = toServer
      BY <1>0, <1>3, <2>0, <2>1 DEF Return, ClientStates
    <2>2. ASSUME NEW f \in Frames, NEW more \in Nat,
                 client'.sent = more, InputLength' = sent + 1,
                 f = InputFrame(sent + 1, more), more \in {sent, sent + 1},
                 server.at # "closed" => toServer' = Append(toServer, f)
          PROVE  InputFlow'
      <3>1. total = sent
        BY <1>1, <2>0 DEF InputLength
      <3>2. FramesAfter(command.got, 0, more) /\ FramesAfter(stdin, g, more)
        <4>1. 0 + g <= sent /\ g + h <= sent
          BY <1>2, <3>1
        <4>2. FramesAfter(command.got, 0, sent + 1)
          <5>1. command.got \in Seq(Items) /\ g = Len(command.got) /\ FramesAfter(command.got, 0, sent)
            BY <1>0, <1>1, <1>2
          <5> QED BY <4>1, <5>1, 0 \in Nat, FramesMore
        <4>3. FramesAfter(stdin, g, sent + 1)
          <5>1. stdin \in Seq(Items) /\ h = Len(stdin) /\ FramesAfter(stdin, g, sent)
            BY <1>0, <1>1, <1>2
          <5> QED BY <4>1, <5>1, FramesMore
        <4> QED BY <1>2, <2>2, <4>2, <4>3
      <3>3. g + h <= InputLength'
        BY <1>2, <2>2, <3>1
      <3>4. CASE server.at = "closed"
        BY <1>1, <2>0, <2>2, <3>2, <3>3, <3>4 DEF InputFlow
      <3>5. CASE server.at # "closed"
        <4>1. server.at \in {"acked", "session"}
          BY <1>0, <2>0, <3>5 DEF Phases
        <4>2. g + h + t = sent /\ FramesAfter(toServer, g + h, sent)
          BY <1>2, <3>1, <4>1
        <4>3. FramesAfter(toServer, g + h, more)
          <5>1. toServer \in Seq(Frames) /\ t = Len(toServer) /\ (g + h) + t <= sent
            BY <1>0, <1>1, <4>2
          <5>2. FramesAfter(toServer, g + h, sent + 1)
            BY <4>2, <5>1, g + h \in Nat, FramesMore
          <5> QED BY <2>2, <4>2, <5>2
        <4>4. FramesAfter(toServer', g + h, more) /\ Len(toServer') = t + 1
          <5>1. toServer \in Seq(Frames) /\ t = Len(toServer) /\ g + h \in Nat
            BY <1>0, <1>1
          <5>2. f = InputFrame(g + h + t + 1, more)
            BY <2>2, <4>2
          <5>3. toServer' = Append(toServer, f)
            BY <2>2, <3>5
          <5> QED BY <4>3, <5>1, <5>2, <5>3, FramesAppend
        <4>5. g + h + (t + 1) = InputLength'
          BY <2>2, <4>2
        <4>6. /\ g = Len(command'.got) /\ h = Len(stdin') /\ t + 1 = Len(toServer')
              /\ g + h <= sent + 1 /\ g + h + (t + 1) = sent + 1
              /\ FramesAfter(command'.got, 0, more) /\ FramesAfter(stdin', g, more)
          BY <1>1, <2>0, <2>2, <3>2, <3>3, <4>4, <4>5
        <4> QED BY <1>4, <2>2, <4>4, <4>6, t + 1 \in Nat
      <3> QED BY <3>4, <3>5
    <2>3. CASE SendStdin /\ client' = [client EXCEPT !.sent = @ + 1]
      <3>1. client'.sent = sent + 1 /\ InputLength' = sent + 1
        BY <1>0, <1>1, <2>0, <2>3 DEF InputLength, ClientStates
      <3>2. <<"stdin", sent + 1>> \in Frames
        BY FramesTyped, sent + 1 \in Nat, 0 \in Nat
      <3>3. server.at # "closed" => toServer' = Append(toServer, <<"stdin", sent + 1>>)
        <4>1. client' # [client EXCEPT !.at = "done", !.rc = Recorded(8)]
          BY <1>0, <2>0, <2>3 DEF ClientStates
        <4> QED BY <1>1, <2>3, <4>1 DEF SendStdin, Send, Closed, Return
      <3>4. <<"stdin", sent + 1>> = InputFrame(sent + 1, sent + 1)
        BY DEF InputFrame
      <3> QED BY <2>2, <3>1, <3>2, <3>3, <3>4
    <2>4. CASE SendEof /\ client' = [client EXCEPT !.eof = TRUE]
      <3>1. client'.sent = sent /\ InputLength' = sent + 1
        BY <1>0, <1>1, <2>0, <2>4 DEF InputLength, ClientStates
      <3>2. <<"stdin_eof", 0>> \in Frames
        BY FramesTyped, sent + 1 \in Nat, 0 \in Nat
      <3>3. server.at # "closed" => toServer' = Append(toServer, <<"stdin_eof", 0>>)
        <4>1. client' # [client EXCEPT !.at = "done", !.rc = Recorded(8)]
          BY <1>0, <2>0, <2>4 DEF ClientStates
        <4> QED BY <1>1, <2>4, <4>1 DEF SendEof, Send, Closed, Return
      <3>4. <<"stdin_eof", 0>> = InputFrame(sent + 1, sent)
        BY DEF InputFrame
      <3> QED BY <2>2, <3>1, <3>2, <3>3, <3>4
    <2> QED BY <1>a, <2>1, <2>3, <2>4 DEF SendStdin, SendEof, Send
  <1>b. CASE SendHeader
    <2>1. server.at = "header"
      BY <1>0, <1>b DEF SendHeader, Phases
    <2> QED BY <1>0, <1>3, <1>b, <2>1 DEF SendHeader, ClientStates
  <1>c. CASE ReadHeader
    <2>1. /\ server.at = "header" /\ toServer # <<>> /\ toServer' = Tail(toServer)
          /\ UNCHANGED <<client, stdin, command>>
      BY <1>c DEF ReadHeader
    <2>2. toServer = <<<<"header", 0>>>> /\ client.sent = 0 /\ ~client.eof
          /\ stdin = <<>> /\ command.got = <<>>
      BY <1>0, <2>1 DEF Phases, CommandKnown
    <2>3. toServer' = <<>>
      BY <2>1, <2>2
    <2> QED BY <2>1, <2>2, <2>3 DEF InputFlow, InputLength, FramesAfter
  <1>d. CASE PumpIn
    <2>1. /\ server.at = "session" /\ toServer # <<>> /\ toServer' = Tail(toServer)
          /\ stdin' = Append(stdin, Head(toServer))
          /\ UNCHANGED <<client, command, server>>
      BY <1>d DEF PumpIn
    <2>2. g + h + t = total /\ FramesAfter(toServer, g + h, sent)
      BY <1>2, <2>1
    <2>3. /\ Head(toServer) = InputFrame(g + h + 1, sent)
          /\ FramesAfter(toServer', g + h + 1, sent)
      <3>1. toServer \in Seq(Frames) /\ toServer # <<>> /\ g + h \in Nat
        BY <1>0, <2>1
      <3> QED BY <2>1, <2>2, <3>1, FramesTail
    <2>4. t >= 1 /\ t - 1 \in Nat /\ Len(toServer') = t - 1
      BY <1>0, <1>1, <2>1
    <2>5. Head(toServer) \in Items
      <3>1. g + h + 1 \in Nat
        OBVIOUS
      <3>2. \A n \in Nat : InputFrame(n, sent) \in Items
        BY ItemsTyped DEF InputFrame
      <3> QED BY <2>3, <3>1, <3>2
    <2>6. FramesAfter(stdin', g, sent) /\ Len(stdin') = h + 1
      <3> DEFINE head == Head(toServer)
      <3>1. stdin \in Seq(Items) /\ h = Len(stdin) /\ FramesAfter(stdin, g, sent)
        BY <1>0, <1>1, <1>2
      <3>2. head \in Items /\ head = InputFrame(g + h + 1, sent) /\ stdin' = Append(stdin, head)
        BY <2>1, <2>3, <2>5
      <3> HIDE DEF head
      <3>3. FramesAfter(Append(stdin, head), g, sent) /\ Len(Append(stdin, head)) = h + 1
        BY <3>1, <3>2, FramesAppend
      <3> QED BY <3>2, <3>3
    <2>7. /\ InputLength' = total /\ g + (h + 1) <= total /\ g + (h + 1) + (t - 1) = total
          /\ g + (h + 1) = g + h + 1
      <3>1. InputLength' = total
        BY <1>1, <2>1 DEF InputLength
      <3>2. g + h + t = total /\ t >= 1
        BY <2>2, <2>4
      <3> QED BY <3>1, <3>2
    <2>8. /\ g = Len(command'.got) /\ h + 1 = Len(stdin') /\ t - 1 = Len(toServer')
          /\ sent = client'.sent /\ total = InputLength'
          /\ FramesAfter(command'.got, 0, sent) /\ FramesAfter(toServer', g + (h + 1), sent)
      BY <1>1, <1>2, <2>1, <2>3, <2>4, <2>6, <2>7
    <2> QED BY <1>4, <2>4, <2>6, <2>7, <2>8, h + 1 \in Nat
  <1>e. CASE ReadStdin
    <2>1. /\ stdin # <<>> /\ stdin' = Tail(stdin)
          /\ command'.got = Append(command.got, Head(stdin))
          /\ UNCHANGED <<client, server, toServer>>
      BY <1>0, <1>e DEF ReadStdin, CommandStates
    <2>2. Head(stdin) = InputFrame(g + 1, sent) /\ FramesAfter(stdin', g + 1, sent)
      <3>1. stdin \in Seq(Items) /\ stdin # <<>> /\ FramesAfter(stdin, g, sent)
        BY <1>0, <1>2, <2>1
      <3> QED BY <2>1, <3>1, FramesTail
    <2>3. h >= 1 /\ h - 1 \in Nat /\ Len(stdin') = h - 1 /\ Head(stdin) \in Items
      BY <1>0, <1>1, <2>1
    <2>4. FramesAfter(command'.got, 0, sent) /\ Len(command'.got) = g + 1
      <3>1. command.got \in Seq(Items) /\ g = Len(command.got) /\ FramesAfter(command.got, 0, sent)
        BY <1>0, <1>1, <1>2
      <3>2. Head(stdin) = InputFrame(0 + g + 1, sent)
        BY <2>2
      <3> QED BY <2>1, <2>3, <3>1, <3>2, 0 \in Nat, FramesAppend
    <2>5. InputLength' = total /\ (g + 1) + (h - 1) = g + h
      BY <1>1, <2>1, <2>3 DEF InputLength
    <2>6. /\ sent = client'.sent /\ g + 1 = Len(command'.got) /\ h - 1 = Len(stdin')
          /\ FramesAfter(stdin', g + 1, sent) /\ g + h <= total
          /\ server'.at \in {"connect", "acked", "session"} =>
               g + h + t = total /\ FramesAfter(toServer', g + h, sent) /\ t = Len(toServer')
      BY <1>1, <1>2, <2>1, <2>2, <2>3, <2>4
    <2>7. CASE server'.at \in {"connect", "acked", "session"}
      <3>1. (g + 1) + (h - 1) <= total /\ (g + 1) + (h - 1) + t = total
        BY <2>5, <2>6, <2>7
      <3>2. FramesAfter(toServer', (g + 1) + (h - 1), sent)
        BY <2>5, <2>6, <2>7
      <3> QED BY <1>4, <2>3, <2>4, <2>5, <2>6, <2>7, <3>1, <3>2, g + 1 \in Nat
    <2>8. CASE server'.at \notin {"connect", "acked", "session"}
      <3>1. (g + 1) + (h - 1) <= total
        BY <2>5, <2>6
      <3> QED BY <2>4, <2>5, <2>6, <2>8, <3>1 DEF InputFlow
    <2> QED BY <2>7, <2>8
  <1>f. CASE \/ RefuseToStart \/ ReadAck \/ AckTimeout \/ ReadFrame \/ StreamEnds \/ ClientDies
    <2>1. client'.sent = client.sent /\ client'.eof = client.eof
      BY <1>0, <1>f DEF RefuseToStart, ReadAck, AckTimeout, ReadFrame, StreamEnds, ClientDies,
                        Return, ClientStates
    <2> QED BY <1>3, <1>f, <2>1 DEF RefuseToStart, ReadAck, AckTimeout, ReadFrame, StreamEnds,
                                   ClientDies
  <1>g. CASE Refuse \/ Ack \/ OpenSession \/ PumpEnds \/ Relay \/ EndSession \/ MaxSession
    <2>1. command'.got = command.got /\ UNCHANGED <<client, toServer, stdin>>
      BY <1>0, <1>g DEF Refuse, Ack, OpenSession, PumpEnds, Relay, EndSession, MaxSession,
                        CommandStates
    <2>2. \/ server'.at = server.at \/ server'.at = "closed"
          \/ server.at \in {"connect", "acked"} /\ server'.at \in {"acked", "session"}
      BY <1>0, <1>g DEF Refuse, Ack, OpenSession, PumpEnds, Relay, EndSession, MaxSession,
                        ServerStates
    <2> QED BY <1>3, <2>1, <2>2
  <1>h. CASE Emit \/ End \/ InnerLost \/ ForwardOutput \/ TellStatus \/ CloseChannel
    <2>1. command'.got = command.got /\ UNCHANGED <<client, toServer, stdin, server>>
      BY <1>0, <1>h DEF Emit, End, InnerLost, ForwardOutput, TellStatus, CloseChannel,
                        CommandStates
    <2> QED BY <1>3, <2>1
  <1> QED BY <1>a, <1>b, <1>c, <1>d, <1>e, <1>f, <1>g, <1>h DEF SessionNext, SessionProgress

\* No EXIT and no SIGNAL is on its way before msshd has closed behind a command whose
\* status is known.
LEMMA NoEndsWhileOpen ==
  ASSUME NEW r, EndsAfter(r), ~(server.at = "closed" /\ command.status # Unset)
  PROVE  \A n \in DOMAIN toClient : toClient[n][1] \notin Ends
  BY DEF EndsAfter

\* A frame that is no end may be appended while the session is open.
LEMMA EndsAppend ==
  ASSUME NEW r, toClient \in Seq(Frames), NEW f \in Frames, f[1] \notin Ends,
         EndsAfter(r), server.at # "closed", toClient' = Append(toClient, f), NEW s
  PROVE  EndsAfter(s)'
  <1>1. \A n \in DOMAIN toClient : toClient[n][1] \notin Ends
    BY NoEndsWhileOpen
  <1>2. \A n \in DOMAIN toClient' : toClient'[n][1] \notin Ends
    <2> TAKE n \in DOMAIN toClient'
    <2>1. (n \in DOMAIN toClient /\ toClient'[n] = toClient[n]) \/ toClient'[n] = f
      BY Appended
    <2> QED BY <1>1, <2>1
  <1> QED BY <1>2 DEF EndsAfter

\* The order of the last frames survives the reading of the first one.
LEMMA EndsTail ==
  ASSUME NEW r, toClient \in Seq(Frames), toClient # <<>>, EndsAfter(r),
         toClient' = Tail(toClient), UNCHANGED <<server, command>>
  PROVE  EndsAfter(r)'
  <1>1. \A n \in DOMAIN toClient' :
          toClient'[n] = toClient[n + 1] /\ n + 1 \in DOMAIN toClient /\ n \in Nat
    BY HeadTail
  <1> SUFFICES ASSUME NEW n \in DOMAIN toClient', toClient'[n][1] \in Ends
               PROVE  /\ server.at = "closed" /\ command.status # Unset
                      /\ r = command.emitted \/ command.at = "lost"
                      /\ toClient'[n][1] = "exit" =>
                           toClient'[n][2] = command.status /\ command.status \notin SignalDeaths
                      /\ toClient'[n][1] = "signal" => command.status \in SignalDeaths
                      /\ \A m \in DOMAIN toClient' : m > n => toClient'[m][1] = "close"
    BY DEF EndsAfter
  <1>2. /\ server.at = "closed" /\ command.status # Unset
        /\ r = command.emitted \/ command.at = "lost"
        /\ toClient'[n][1] = "exit" =>
             toClient'[n][2] = command.status /\ command.status \notin SignalDeaths
        /\ toClient'[n][1] = "signal" => command.status \in SignalDeaths
        /\ \A m \in DOMAIN toClient : m > n + 1 => toClient[m][1] = "close"
    BY <1>1 DEF EndsAfter
  <1>3. \A m \in DOMAIN toClient' : m > n => m + 1 > n + 1
    BY <1>1
  <1> QED BY <1>1, <1>2, <1>3

\* The close stays the last item when the first one is read.
LEMMA CloseTail ==
  ASSUME inner \in Seq(Items), inner # <<>>, CloseIsLast, inner' = Tail(inner),
         command' = command
  PROVE  CloseIsLast'
  <1>1. /\ \A n \in DOMAIN inner' :
             inner'[n] = inner[n + 1] /\ n + 1 \in DOMAIN inner /\ n \in Nat
        /\ Len(inner') \in Nat /\ Len(inner) = Len(inner') + 1
    BY HeadTail
  <1> SUFFICES ASSUME NEW n \in DOMAIN inner', inner'[n][1] = "close"
               PROVE  /\ n = Len(inner')
                      /\ \/ command.at = "lost"
                         \/ command.told /\ command.forwarded = command.emitted
    BY DEF CloseIsLast
  <1>2. /\ n + 1 = Len(inner)
        /\ \/ command.at = "lost"
           \/ command.told /\ command.forwarded = command.emitted
    BY <1>1 DEF CloseIsLast
  <1>3. n = Len(inner')
    BY <1>1, <1>2
  <1> QED BY <1>2, <1>3

\* An item may be added behind anything but a close.
LEMMA CloseAppend ==
  ASSUME inner \in Seq(Items), NEW f \in Items, inner' = Append(inner, f),
         \A n \in DOMAIN inner : inner[n][1] # "close",
         f[1] = "close" => \/ command'.at = "lost"
                           \/ command'.told /\ command'.forwarded = command'.emitted
  PROVE  CloseIsLast'
  <1>1. /\ \A n \in DOMAIN inner' :
             (n \in DOMAIN inner /\ inner'[n] = inner[n]) \/ (n = Len(inner') /\ inner'[n] = f)
    BY Appended
  <1> QED BY <1>1 DEF CloseIsLast

\* What a step keeps of the output that leaves the streams and counts alone.
LEMMA OutputKept ==
  ASSUME OutputFlow, client'.at # "done" => client.at # "done",
         UNCHANGED <<toClient, inner, shown>>,
         command'.forwarded = command.forwarded,
         \/ /\ command'.at = command.at /\ command'.status = command.status
            /\ command'.emitted = command.emitted /\ command'.told = command.told
            /\ server.at = "closed" => server'.at = "closed"
         \/ /\ ~(server.at = "closed" /\ command.status # Unset)
            /\ \A n \in DOMAIN inner : inner[n][1] = "close" => command'.at = "lost"
            /\ command.at = "lost" => command'.at = "lost"
  PROVE  OutputFlow'
  <1> SUFFICES ASSUME client'.at # "done"
               PROVE  /\ \A n \in DOMAIN shown' : shown'[n] = n
                      /\ CloseIsLast'
                      /\ \E r \in 0..command'.forwarded : OutputUpTo(r)'
    BY DEF OutputFlow
  <1>1. PICK r \in 0..command.forwarded : OutputUpTo(r)
    BY DEF OutputFlow
  <1>2. (\A n \in DOMAIN shown : shown[n] = n) /\ CloseIsLast
    BY DEF OutputFlow
  <1>3. CloseIsLast'
    BY <1>2 DEF CloseIsLast
  <1>4. EndsAfter(r)'
    <2>1. EndsAfter(r)
      BY <1>1 DEF OutputUpTo
    <2>2. CASE ~(server.at = "closed" /\ command.status # Unset)
      <3>1. \A n \in DOMAIN toClient : toClient[n][1] \notin Ends
        BY <2>1, <2>2, NoEndsWhileOpen
      <3> QED BY <3>1 DEF EndsAfter
    <2>3. CASE server.at = "closed" /\ command.status # Unset
      BY <2>1, <2>3 DEF EndsAfter
    <2> QED BY <2>2, <2>3
  <1>5. OutputUpTo(r)'
    BY <1>1, <1>4 DEF OutputUpTo, InnerFrom
  <1> QED BY <1>1, <1>2, <1>3, <1>5

\* Every step keeps the output whole and in order.
LEMMA OutputFlowStep ==
  ASSUME SInv, SessionNext
  PROVE  OutputFlow'
  <1>0. /\ SessionTypeOK /\ Phases /\ CommandKnown /\ OutputFlow
        /\ client \in ClientStates /\ server \in ServerStates /\ command \in CommandStates
        /\ toClient \in Seq(Frames) /\ inner \in Seq(Items) /\ shown \in Seq(1..MaxOut)
    BY SessionTypes DEF SInv
  <1>1. CASE client.at = "done"
    <2>1. client' = client
      BY <1>1, ClientSteps DEF RefuseToStart, SendHeader, ReadAck, AckTimeout, SendStdin, SendEof,
                               ReadFrame, StreamEnds, ClientDies
    <2> QED BY <1>1, <2>1 DEF OutputFlow
  <1>2. CASE client.at # "done"
    <2>0. /\ \A n \in DOMAIN shown : shown[n] = n
          /\ CloseIsLast
      BY <1>0, <1>2 DEF OutputFlow
    <2>1. PICK r \in 0..command.forwarded : OutputUpTo(r)
      BY <1>0, <1>2 DEF OutputFlow
    <2>2. /\ command.forwarded \in Nat /\ r \in Nat /\ r <= command.forwarded
          /\ command.emitted \in Nat
      BY <1>0, <2>1, SessionAssumption DEF CommandStates
    <2>3. Chunks(toClient, Len(shown), r) /\ InnerFrom(r) /\ EndsAfter(r)
      BY <2>1 DEF OutputUpTo
    <2>7. PICK s \in 0..command.forwarded :
            Chunks(inner, r, s) /\ (s = command.forwarded \/ command.at = "lost")
      BY <2>3 DEF InnerFrom
    <2>8. s \in Nat
      BY <2>2
    <2>9. ASSUME UNCHANGED <<inner, command>> PROVE InnerFrom(r)'
      BY <2>3, <2>9 DEF InnerFrom
    <2>4. Len(shown) \in Nat
      BY <1>0
    <2>5. command.at = "running" => \A n \in DOMAIN inner : inner[n][1] # "close"
      BY <1>0, <2>0 DEF CloseIsLast, CommandKnown
    <2>6. ASSUME NEW x \in 0..command'.forwarded, OutputUpTo(x)', CloseIsLast',
                 \A n \in DOMAIN shown' : shown'[n] = n
          PROVE  OutputFlow'
      BY <2>6 DEF OutputFlow
    <2>a. CASE \/ RefuseToStart \/ SendHeader \/ AckTimeout \/ SendStdin \/ SendEof \/ StreamEnds
               \/ ClientDies \/ ReadHeader \/ PumpIn
      <3>1. /\ UNCHANGED <<toClient, inner, shown, command>>
            /\ server.at = "closed" => server'.at = "closed"
        BY <2>a DEF RefuseToStart, SendHeader, AckTimeout, SendStdin, SendEof, StreamEnds,
                    ClientDies, ReadHeader, PumpIn
      <3> QED BY <1>0, <1>2, <3>1, OutputKept
    <2>b. CASE OpenSession
      <3>1. /\ UNCHANGED <<toClient, inner, shown>> /\ server.at = "acked"
            /\ command'.forwarded = command.forwarded
        BY <1>0, <2>b DEF OpenSession, CommandStates
      <3>2. inner = <<>> /\ command.at = "none"
        BY <1>0, <3>1 DEF Phases, CommandKnown
      <3>3. \A n \in DOMAIN inner : inner[n][1] = "close" => command'.at = "lost"
        BY <3>2
      <3> QED BY <1>0, <1>2, <3>1, <3>2, <3>3, OutputKept
    <2>c. CASE PumpEnds
      BY <1>2, <2>c DEF PumpEnds, Gone
    <2>d. CASE MaxSession
      <3>1. /\ UNCHANGED <<toClient, inner, shown>> /\ server.at = "session"
            /\ command'.forwarded = command.forwarded
            /\ command'.at = IF command.at = "running" THEN "lost" ELSE command.at
            /\ command'.status = command.status /\ command'.emitted = command.emitted
            /\ command'.told = command.told
        BY <1>0, <2>d DEF MaxSession, CommandStates
      <3>2. CASE command.at = "running"
        <4>1. \A n \in DOMAIN inner : inner[n][1] = "close" => command'.at = "lost"
          BY <3>1, <3>2
        <4> QED BY <1>0, <1>2, <3>1, <3>2, <4>1, OutputKept
      <3>3. CASE command.at # "running"
        <4>1. command'.at = command.at /\ server.at # "closed"
          BY <3>1, <3>3
        <4> QED BY <1>0, <1>2, <3>1, <4>1, OutputKept
      <3> QED BY <3>2, <3>3
    <2>e. CASE ReadStdin \/ Emit \/ End
      <3>1. /\ UNCHANGED <<toClient, inner, shown>> /\ command.at = "running"
            /\ command'.forwarded = command.forwarded /\ command.status = Unset
        BY <1>0, <2>e DEF ReadStdin, Emit, End, CommandStates, CommandKnown
      <3> QED BY <1>0, <1>2, <2>5, <3>1, OutputKept
    <2>f. CASE ReadAck
      <3>1. UNCHANGED <<server, inner, shown, command>>
        BY <2>f DEF ReadAck
      <3>2. CASE toClient' = toClient
        BY <1>0, <1>2, <3>1, <3>2, OutputKept
      <3>3. CASE toClient # <<>> /\ toClient' = Tail(toClient) /\ Head(toClient)[1] # "stdout"
        <4>1. Chunks(toClient', Len(shown), r)
          BY <1>0, <2>2, <2>3, <2>4, <3>3, ChunksTail
        <4>2. EndsAfter(r)'
          BY <1>0, <2>3, <3>1, <3>3, EndsTail
        <4>3. OutputUpTo(r)' /\ CloseIsLast'
          BY <2>0, <2>9, <3>1, <4>1, <4>2 DEF OutputUpTo, CloseIsLast
        <4> QED BY <2>0, <2>1, <2>6, <3>1, <4>3
      <3>4. CASE toClient # <<>> /\ Head(toClient)[1] = "stdout"
        <4>1. Head(toClient)[1] # "ok" /\ client.at = "ack"
          BY <2>f, <3>4 DEF ReadAck
        <4>2. client' = [client EXCEPT !.at = "done", !.rc = 7]
          BY <2>f, <3>4, <4>1 DEF ReadAck, Return
        <4>3. client'.at = "done"
          BY <1>0, <4>2 DEF ClientStates
        <4> QED BY <4>3 DEF OutputFlow
      <3>5. toClient' = toClient \/ (toClient # <<>> /\ toClient' = Tail(toClient))
        BY <2>f DEF ReadAck
      <3> QED BY <3>2, <3>3, <3>4, <3>5
    <2>g. CASE ReadFrame
      <3>1. /\ UNCHANGED <<server, inner, command>> /\ toClient # <<>> /\ toClient' = Tail(toClient)
        BY <2>g DEF ReadFrame
      <3>2. EndsAfter(r)' /\ CloseIsLast'
        BY <1>0, <2>0, <2>3, <3>1, EndsTail DEF CloseIsLast
      <3>3. CASE Head(toClient)[1] # "stdout"
        <4>1. shown' = shown
          BY <2>g, <3>3 DEF ReadFrame
        <4>2. Chunks(toClient', Len(shown), r)
          BY <1>0, <2>2, <2>3, <2>4, <3>1, <3>3, ChunksTail
        <4>3. OutputUpTo(r)'
          BY <2>9, <3>1, <3>2, <4>1, <4>2 DEF OutputUpTo
        <4> QED BY <2>0, <2>1, <2>6, <3>1, <3>2, <4>1, <4>3
      <3>4. CASE Head(toClient)[1] = "stdout"
        <4>1. shown' = Append(shown, Head(toClient)[2])
          BY <2>g, <3>4 DEF ReadFrame
        <4>2. /\ Head(toClient)[2] = Len(shown) + 1 /\ Len(shown) + 1 <= r
              /\ Chunks(toClient', Len(shown) + 1, r)
          BY <1>0, <2>2, <2>3, <2>4, <3>1, <3>4, ChunksTail
        <4>3. Head(toClient)[2] \in 1..MaxOut
          <5>1. r <= MaxOut /\ MaxOut \in Nat
            BY <1>0, <2>2, SessionAssumption DEF CommandStates
          <5> QED BY <2>2, <2>4, <4>2, <5>1
        <4>4. /\ Len(shown') = Len(shown) + 1 /\ shown'[Len(shown) + 1] = Head(toClient)[2]
              /\ \A n \in DOMAIN shown : shown'[n] = shown[n]
              /\ \A n \in DOMAIN shown' : n \in DOMAIN shown \/ n = Len(shown) + 1
          BY <1>0, <4>1, <4>3, Appended
        <4>5. \A n \in DOMAIN shown' : shown'[n] = n
          BY <2>0, <4>2, <4>4
        <4>6. OutputUpTo(r)'
          BY <2>9, <3>1, <3>2, <4>2, <4>4 DEF OutputUpTo
        <4> QED BY <2>1, <2>6, <3>1, <3>2, <4>5, <4>6
      <3> QED BY <3>3, <3>4
    <2>h. CASE Refuse
      <3>1. /\ UNCHANGED <<inner, shown, command>> /\ toClient = <<>> /\ server.at # "closed"
            /\ toClient' = toClient \/ toClient' = Append(toClient, <<"refused", 0>>)
            /\ server'.at = "closed"
        BY <1>0, <2>h DEF Refuse, Phases, ServerStates
      <3>2. CASE toClient' = toClient
        BY <1>0, <1>2, <3>1, <3>2, OutputKept
      <3>3. CASE toClient' = Append(toClient, <<"refused", 0>>)
        <4>1. <<"refused", 0>> \in Frames /\ <<"refused", 0>>[1] \notin Ends
              /\ <<"refused", 0>>[1] # "stdout"
          BY FramesTyped DEF Ends
        <4>2. Chunks(toClient', Len(shown), r)
          BY <1>0, <2>2, <2>3, <2>4, <3>3, <4>1, ChunksAppendOther
        <4>3. EndsAfter(r)'
          BY <1>0, <2>3, <3>1, <3>3, <4>1, EndsAppend
        <4>4. OutputUpTo(r)' /\ CloseIsLast'
          BY <2>0, <2>9, <3>1, <4>2, <4>3 DEF OutputUpTo, CloseIsLast
        <4> QED BY <2>0, <2>1, <2>6, <3>1, <4>4
      <3> QED BY <3>1, <3>2, <3>3
    <2>i. CASE Ack
      <3>1. PICK banner \in {<<>>, <<<<"banner", 0>>>>} :
              toClient' = toClient \o <<<<"ok", 0>>>> \o banner
        BY <2>i DEF Ack
      <3>2. /\ <<"ok", 0>> \in Frames /\ <<"banner", 0>> \in Frames
            /\ UNCHANGED <<inner, shown, command>> /\ toClient = <<>>
        BY <1>0, <2>i, FramesTyped DEF Ack, Phases
      <3>3. toClient' \in {Append(toClient, <<"ok", 0>>),
                          Append(Append(toClient, <<"ok", 0>>), <<"banner", 0>>)}
        BY <1>0, <3>1, <3>2, AckAppends
      <3>4. /\ Append(toClient, <<"ok", 0>>) \in Seq(Frames)
            /\ Chunks(Append(toClient, <<"ok", 0>>), Len(shown), r)
        BY <1>0, <2>2, <2>3, <2>4, <3>2, ChunksAppendOther, AppendTyped
      <3>5. Chunks(toClient', Len(shown), r)
        BY <2>2, <2>4, <3>2, <3>3, <3>4, ChunksAppendOther
      <3>6. \A n \in DOMAIN toClient' : toClient'[n] \in {<<"ok", 0>>, <<"banner", 0>>}
        BY <3>1, <3>2
      <3>7. EndsAfter(r)'
        BY <3>6 DEF EndsAfter, Ends
      <3>8. OutputUpTo(r)' /\ CloseIsLast'
        BY <2>0, <2>9, <3>2, <3>5, <3>7 DEF OutputUpTo, CloseIsLast
      <3> QED BY <2>0, <2>1, <2>6, <3>2, <3>8
    <2>j. CASE Relay
      <3>1. /\ UNCHANGED <<shown, command>> /\ server.at = "session" /\ inner' = Tail(inner)
            /\ inner # <<>>
        BY <2>j DEF Relay
      <3>2. CloseIsLast'
        BY <1>0, <2>0, <3>1, CloseTail
      <3>3. CASE Head(inner)[1] # "stdout" /\ toClient' = toClient
        <4>1. Chunks(inner', r, s)
          BY <1>0, <2>2, <2>7, <2>8, <3>1, <3>3, ChunksTail
        <4>2. EndsAfter(r)'
          <5>1. \A n \in DOMAIN toClient : toClient[n][1] \notin Ends
            BY <2>3, <3>1, NoEndsWhileOpen
          <5> QED BY <3>3, <5>1 DEF EndsAfter
        <4>3. OutputUpTo(r)'
          BY <2>3, <2>7, <3>1, <3>3, <4>1, <4>2 DEF OutputUpTo, InnerFrom
        <4> QED BY <2>0, <2>1, <2>6, <3>1, <3>2, <4>3
      <3>4. CASE /\ Head(inner)[1] = "stdout" /\ Head(inner) = <<"stdout", Head(inner)[2]>>
                 /\ Head(inner) \in Frames /\ toClient' = Append(toClient, Head(inner))
        <4>1. Head(inner)[2] = r + 1 /\ r + 1 <= s /\ Chunks(inner', r + 1, s)
          BY <1>0, <2>2, <2>7, <2>8, <3>1, <3>4, ChunksTail
        <4>2. Head(inner) = <<"stdout", r + 1>>
          BY <3>4, <4>1
        <4>3. Chunks(toClient', Len(shown), r + 1)
          BY <1>0, <2>2, <2>3, <2>4, <3>4, <4>2, ChunksAppend
        <4>4. EndsAfter(r + 1)'
          BY <1>0, <2>3, <3>1, <3>4, EndsAppend DEF Ends
        <4>5. OutputUpTo(r + 1)'
          BY <2>7, <3>1, <4>1, <4>3, <4>4 DEF OutputUpTo, InnerFrom
        <4>6. r + 1 \in 0..command.forwarded
          BY <2>2, <2>7, <2>8, <4>1
        <4> QED BY <2>0, <2>6, <3>1, <3>2, <4>5, <4>6
      <3> QED BY <1>0, <2>j, <3>3, <3>4, RelayAppends
    <2>k. CASE EndSession
      <3>1. /\ UNCHANGED <<shown, command>> /\ server.at = "session" /\ inner' = Tail(inner)
            /\ inner # <<>> /\ Head(inner)[1] = "close" /\ server'.at = "closed"
        BY <1>0, <2>k DEF EndSession, ServerStates
      <3>2. CloseIsLast'
        BY <1>0, <2>0, <3>1, CloseTail
      <3>3. Chunks(inner', r, s)
        BY <1>0, <2>2, <2>7, <2>8, <3>1, ChunksTail
      <3>8. InnerFrom(r)'
        BY <2>7, <3>1, <3>3 DEF InnerFrom
      <3>4. \A n \in DOMAIN toClient : toClient[n][1] \notin Ends
        BY <2>3, <3>1, NoEndsWhileOpen
      <3>c. <<"close", 0>> \in Frames /\ <<"close", 0>>[1] \notin Ends
            /\ <<"close", 0>>[1] # "stdout"
        BY FramesTyped DEF Ends
      <3>5. CASE toClient' = toClient
        <4>1. EndsAfter(r)'
          BY <3>4, <3>5 DEF EndsAfter
        <4>2. OutputUpTo(r)'
          BY <2>3, <3>1, <3>8, <3>5, <4>1 DEF OutputUpTo
        <4> QED BY <2>0, <2>1, <2>6, <3>1, <3>2, <4>2
      <3>6. CASE toClient' = Append(toClient, <<"close", 0>>)
        <4>1. EndsAfter(r)'
          BY <1>0, <2>3, <3>1, <3>6, <3>c, EndsAppend
        <4>2. Chunks(toClient', Len(shown), r)
          BY <1>0, <2>2, <2>3, <2>4, <3>6, <3>c, ChunksAppendOther
        <4>3. OutputUpTo(r)'
          BY <3>1, <3>8, <4>1, <4>2 DEF OutputUpTo
        <4> QED BY <2>0, <2>1, <2>6, <3>1, <3>2, <4>3
      <3>7. ASSUME NEW f \in {<<"signal", server.status>>, <<"exit", server.status>>},
                   toClient' = Append(Append(toClient, f), <<"close", 0>>),
                   f \in Frames, server.status # Unset,
                   f[1] = "signal" <=> server.status \in SignalDeaths
            PROVE  OutputFlow'
        <4>1. server.status = command.status /\ command.status # Unset
          BY <1>0, <3>7 DEF CommandKnown
        <4>2. Head(inner) = inner[1] /\ 1 \in DOMAIN inner
          BY <1>0, <3>1
        <4>3. 1 = Len(inner) /\ (command.at = "lost" \/ command.forwarded = command.emitted)
          BY <2>0, <3>1, <4>2 DEF CloseIsLast
        <4>4. inner' = <<>>
          BY <1>0, <3>1, <4>3
        <4>5. r = command.emitted \/ command.at = "lost"
          <5>1. inner' \in Seq(Items) /\ \A n \in DOMAIN inner' : inner'[n][1] # "stdout"
            BY <4>4
          <5>2. r = s
            BY <2>2, <2>8, <3>3, <5>1, NoChunks
          <5> QED BY <2>7, <4>3, <5>2
        <4>6. f[1] \in Ends /\ f[1] # "stdout" /\ f[1] # "close"
          BY <3>7 DEF Ends
        <4>7. /\ Append(toClient, f) \in Seq(Frames)
              /\ Chunks(Append(toClient, f), Len(shown), r)
          BY <1>0, <2>2, <2>3, <2>4, <3>7, <4>6, ChunksAppendOther, AppendTyped
        <4>8. Chunks(toClient', Len(shown), r)
          BY <2>2, <2>4, <3>7, <3>c, <4>7, ChunksAppendOther
        <4>9. \A n \in DOMAIN toClient' :
                \/ toClient'[n][1] \notin Ends
                \/ n = Len(toClient) + 1 /\ toClient'[n] = f
          <5>1. /\ \A n \in DOMAIN Append(toClient, f) :
                     \/ n \in DOMAIN toClient /\ Append(toClient, f)[n] = toClient[n]
                     \/ n = Len(toClient) + 1 /\ Append(toClient, f)[n] = f
            BY <1>0, <3>7, Appended
          <5>2. /\ \A n \in DOMAIN toClient' :
                     \/ n \in DOMAIN Append(toClient, f) /\ toClient'[n] = Append(toClient, f)[n]
                     \/ toClient'[n] = <<"close", 0>>
            BY <3>7, <3>c, <4>7, Appended
          <5> QED BY <3>4, <3>c, <5>1, <5>2
        <4>10. \A m \in DOMAIN toClient' : m > Len(toClient) + 1 => toClient'[m] = <<"close", 0>>
          <5>1. Len(Append(toClient, f)) = Len(toClient) + 1
            BY <1>0, <3>7, Appended
          <5>2. \A m \in DOMAIN toClient' :
                  \/ m \in DOMAIN Append(toClient, f)
                  \/ m = Len(Append(toClient, f)) + 1 /\ toClient'[m] = <<"close", 0>>
            BY <3>7, <3>c, <4>7, Appended
          <5> QED BY <4>7, <5>1, <5>2
        <4>11. EndsAfter(r)'
          <5>1. f[1] = "exit" => f[2] = command.status /\ command.status \notin SignalDeaths
            BY <3>7, <4>1
          <5>2. f[1] = "signal" => command.status \in SignalDeaths
            BY <3>7, <4>1
          <5>3. \A m \in DOMAIN toClient' : m > Len(toClient) + 1 => toClient'[m][1] = "close"
            BY <4>10
          <5> QED BY <3>1, <4>1, <4>5, <4>9, <5>1, <5>2, <5>3 DEF EndsAfter
        <4>12. OutputUpTo(r)'
          BY <3>1, <3>8, <4>8, <4>11 DEF OutputUpTo
        <4> QED BY <2>0, <2>1, <2>6, <3>1, <3>2, <4>12
      <3> QED BY <1>0, <2>k, <3>5, <3>6, <3>7, EndAppends
    <2>l. CASE InnerLost
      <3>1. /\ UNCHANGED <<toClient, shown, server>> /\ server.at = "session"
            /\ command'.at = "lost" /\ command'.forwarded = command.forwarded
        BY <1>0, <2>l DEF InnerLost, CommandStates
      <3>2. <<"close", 0>> \in Items /\ <<"close", 0>>[1] # "stdout"
        BY ItemsTyped
      <3>3. PICK n \in 0..Len(inner) :
              /\ inner' = Append(SubSeq(inner, 1, n), <<"close", 0>>)
              /\ \A m \in 1..n : inner[m][1] # "close"
        BY <1>0, <2>l, LostCut
      <3>4. PICK p \in Seq(Items) :
              /\ p = SubSeq(inner, 1, n) /\ Len(p) = n
              /\ \A m \in 1..n : p[m] = inner[m] /\ m \in DOMAIN inner
        BY <1>0, Beginning
      <3>5. DOMAIN p = 1..n /\ inner' = Append(p, <<"close", 0>>)
        BY <3>3, <3>4
      <3>6. PICK x \in r..s : Chunks(p, r, x)
        BY <1>0, <2>2, <2>7, <2>8, <3>4, ChunksPrefix
      <3>7. x \in Nat /\ x \in 0..command.forwarded
        BY <2>2, <2>7, <2>8
      <3>8. Chunks(inner', r, x)
        BY <2>2, <3>2, <3>5, <3>6, <3>7, ChunksAppendOther
      <3>9. CloseIsLast'
        <4>1. \A k \in DOMAIN inner' :
                (k \in DOMAIN p /\ inner'[k] = p[k]) \/ k = Len(inner')
          BY <3>2, <3>5, Appended
        <4>2. \A k \in DOMAIN p : p[k][1] # "close"
          BY <3>3, <3>4, <3>5
        <4> QED BY <3>1, <4>1, <4>2 DEF CloseIsLast
      <3>10. EndsAfter(r)'
        <4>1. \A m \in DOMAIN toClient : toClient[m][1] \notin Ends
          BY <2>3, <3>1, NoEndsWhileOpen
        <4> QED BY <3>1, <4>1 DEF EndsAfter
      <3>11. OutputUpTo(r)'
        BY <2>3, <3>1, <3>7, <3>8, <3>10 DEF OutputUpTo, InnerFrom
      <3> QED BY <2>0, <2>1, <2>6, <3>1, <3>9, <3>11
    <2>m. CASE ForwardOutput \/ TellStatus \/ CloseChannel
      <3>1. /\ UNCHANGED <<toClient, shown, server>> /\ server.at = "session"
            /\ command.at \in {"running", "ended"} /\ command'.at = command.at
        BY <1>0, <2>m DEF ForwardOutput, TellStatus, CloseChannel, Forwarding, CommandStates
      <3>2. EndsAfter(r)'
        <4>1. \A n \in DOMAIN toClient : toClient[n][1] \notin Ends
          BY <2>3, <3>1, NoEndsWhileOpen
        <4> QED BY <3>1, <4>1 DEF EndsAfter
      <3>6. Chunks(inner, r, command.forwarded)
        BY <2>7, <3>1
      <3>7. ASSUME command'.forwarded \in Nat, Chunks(inner', r, command'.forwarded)
            PROVE  InnerFrom(r)'
        BY <3>7, command'.forwarded \in 0..command'.forwarded DEF InnerFrom
      <3>3. CASE ForwardOutput
        <4>1. /\ inner' = Append(inner, <<"stdout", command.forwarded + 1>>)
              /\ command'.forwarded = command.forwarded + 1
              /\ command.forwarded < command.emitted
          BY <1>0, <3>3 DEF ForwardOutput, CommandStates
        <4>2. <<"stdout", command.forwarded + 1>> \in Items
          <5>1. command.forwarded + 1 \in Nat
            BY <2>2
          <5> QED BY <5>1, ItemsTyped
        <4>3. Chunks(inner', r, command'.forwarded)
          BY <1>0, <2>2, <3>6, <4>1, <4>2, ChunksAppend
        <4>4. \A n \in DOMAIN inner : inner[n][1] # "close"
          BY <2>0, <2>2, <3>1, <4>1 DEF CloseIsLast
        <4>5. CloseIsLast'
          BY <1>0, <4>1, <4>2, <4>4, CloseAppend
        <4>6. OutputUpTo(r)'
          BY <2>2, <2>3, <3>1, <3>2, <3>7, <4>1, <4>3 DEF OutputUpTo
        <4> QED BY <2>0, <2>2, <2>6, <3>1, <4>1, <4>5, <4>6, r \in 0..(command.forwarded + 1)
      <3>4. CASE TellStatus
        <4>1. /\ inner' = Append(inner, <<"status", command.status>>) /\ ~command.told
              /\ command'.forwarded = command.forwarded
          BY <1>0, <3>4 DEF TellStatus, CommandStates
        <4>2. <<"status", command.status>> \in Items
          BY <1>0, Values, ItemsTyped DEF CommandStates
        <4>3. Chunks(inner', r, command'.forwarded)
          BY <1>0, <2>2, <3>6, <4>1, <4>2, ChunksAppendOther
        <4>4. \A n \in DOMAIN inner : inner[n][1] # "close"
          BY <2>0, <3>1, <4>1 DEF CloseIsLast
        <4>5. CloseIsLast'
          BY <1>0, <4>1, <4>2, <4>4, CloseAppend
        <4>6. OutputUpTo(r)'
          BY <2>2, <2>3, <3>1, <3>2, <3>7, <4>1, <4>3 DEF OutputUpTo
        <4> QED BY <2>0, <2>1, <2>6, <3>1, <4>1, <4>5, <4>6
      <3>5. CASE CloseChannel
        <4>1. /\ inner' = Append(inner, <<"close", 0>>) /\ command' = command /\ command.told
              /\ command.forwarded = command.emitted
              /\ \A n \in DOMAIN inner : inner[n][1] # "close"
          BY <3>5 DEF CloseChannel
        <4>2. <<"close", 0>> \in Items /\ <<"close", 0>>[1] # "stdout"
          BY ItemsTyped
        <4>3. Chunks(inner', r, command'.forwarded)
          BY <1>0, <2>2, <3>6, <4>1, <4>2, ChunksAppendOther
        <4>4. CloseIsLast'
          BY <1>0, <4>1, <4>2, CloseAppend
        <4>5. OutputUpTo(r)'
          BY <2>2, <2>3, <3>1, <3>2, <3>7, <4>1, <4>3 DEF OutputUpTo
        <4> QED BY <2>0, <2>1, <2>6, <3>1, <4>1, <4>4, <4>5
      <3> QED BY <2>m, <3>3, <3>4, <3>5
    <2> QED BY <2>a, <2>b, <2>c, <2>d, <2>e, <2>f, <2>g, <2>h, <2>i, <2>j, <2>k, <2>l, <2>m
         DEF SessionNext, SessionProgress
  <1> QED BY <1>1, <1>2

\* Every step keeps EXIT behind all the output.
LEMMA ExitCameLastStep ==
  ASSUME SInv, SessionNext
  PROVE  ExitCameLast'
  <1>0. /\ Phases /\ CommandKnown /\ OutputFlow /\ ExitCameLast
        /\ client \in ClientStates /\ server \in ServerStates /\ command \in CommandStates
        /\ toClient \in Seq(Frames) /\ shown \in Seq(1..MaxOut)
        /\ client' \in ClientStates /\ SessionTypeOK
    BY SessionTypes, ClientTyped DEF SInv
  \* The exit was known before the step.
  <1>1. ASSUME client.exit # Unset, client'.exit = client.exit
        PROVE  ExitCameLast'
    <2>1. /\ command.status # Unset /\ client.exit = Reported(command.status)
          /\ Len(shown) <= command.emitted /\ shown = [n \in 1..Len(shown) |-> n]
          /\ command.at # "lost" => Len(shown) = command.emitted
          /\ client.at # "done" =>
               /\ server.at = "closed" /\ \A n \in DOMAIN toClient : toClient[n][1] = "close"
      BY <1>0, <1>1 DEF ExitCameLast, StatusAfterOutput
    <2>2. /\ command'.status = command.status /\ command'.emitted = command.emitted
          /\ command.at = "lost" => command'.at = "lost"
      <3>1. command.at \in {"ended", "lost"}
        BY <1>0, <2>1 DEF CommandKnown
      <3> QED BY <1>0, <3>1, StreamSteps DEF OpenSession, PumpEnds, MaxSession, ReadStdin, Emit,
            End, InnerLost, ForwardOutput, TellStatus, CommandStates, Phases
    <2>3. shown' = shown
      <3>1. CASE ReadFrame
        <4>1. client.at = "pump" /\ toClient # <<>>
          BY <3>1 DEF ReadFrame
        <4>2. Head(toClient)[1] = "close"
          BY <1>0, <2>1, <4>1, HeadTail
        <4> QED BY <3>1, <4>2 DEF ReadFrame
      <3> QED BY <3>1, StreamSteps
    <2>4. CASE client'.at = "done"
      BY <1>1, <2>1, <2>2, <2>3, <2>4 DEF ExitCameLast, StatusAfterOutput
    <2>5. CASE client'.at # "done"
      <3>1. client.at # "done"
        BY <1>0, <2>5, ClientSteps DEF RefuseToStart, SendHeader, ReadAck, AckTimeout, SendStdin,
          SendEof, ReadFrame, StreamEnds, ClientDies
      <3>2. server'.at = "closed"
        BY <1>0, <2>1, <3>1, ServerSteps DEF ReadHeader, Refuse, Ack, OpenSession, PumpEnds, Relay,
          EndSession, MaxSession
      <3>3. toClient' = toClient \/ (toClient # <<>> /\ toClient' = Tail(toClient))
        BY <2>1, <3>1, StreamSteps DEF ReadAck, ReadFrame, Refuse, Ack, Relay, EndSession
      <3>4. \A n \in DOMAIN toClient' : toClient'[n][1] = "close"
        BY <1>0, <2>1, <3>1, <3>3, HeadTail
      <3> QED BY <1>1, <2>1, <2>2, <2>3, <3>2, <3>4 DEF ExitCameLast, StatusAfterOutput
    <2> QED BY <2>4, <2>5
  \* EXIT or SIGNAL is read.
  <1>2. ASSUME ReadFrame, client'.exit # client.exit
        PROVE  ExitCameLast'
    <2>1. /\ client.at = "pump" /\ toClient # <<>> /\ toClient' = Tail(toClient)
          /\ UNCHANGED <<server, command>>
      BY <1>2 DEF ReadFrame
    <2>2. /\ shown' = shown
          /\ \/ Head(toClient)[1] = "exit" /\ client' = [client EXCEPT !.exit = Head(toClient)[2]]
             \/ Head(toClient)[1] = "signal" /\ client' = [client EXCEPT !.exit = UnknownSignal]
      BY <1>0, <1>2 DEF ReadFrame, Return, ClientStates
    <2>3. PICK r \in 0..command.forwarded : OutputUpTo(r)
      BY <1>0, <2>1 DEF OutputFlow
    <2>4. \A n \in DOMAIN shown : shown[n] = n
      BY <1>0, <2>1 DEF OutputFlow
    <2>5. Head(toClient) = toClient[1] /\ 1 \in DOMAIN toClient /\ Head(toClient)[1] \in Ends
      BY <1>0, <2>1, <2>2, HeadTail DEF Ends
    <2>6. /\ server.at = "closed" /\ command.status # Unset
          /\ r = command.emitted \/ command.at = "lost"
          /\ Head(toClient)[1] = "exit" =>
               Head(toClient)[2] = command.status /\ command.status \notin SignalDeaths
          /\ Head(toClient)[1] = "signal" => command.status \in SignalDeaths
          /\ \A m \in DOMAIN toClient : m > 1 => toClient[m][1] = "close"
      BY <2>3, <2>5 DEF OutputUpTo, EndsAfter
    <2>7. client'.exit = Reported(command.status)
      BY <1>0, <2>2, <2>6 DEF ClientStates, Reported
    <2>8. \A n \in DOMAIN toClient' : toClient'[n][1] = "close"
      <3>1. \A n \in DOMAIN toClient' :
              toClient'[n] = toClient[n + 1] /\ n + 1 \in DOMAIN toClient /\ n + 1 > 1
        BY <1>0, <2>1
      <3> QED BY <2>6, <3>1
    <2>9. Len(shown) <= command.emitted /\ (command.at # "lost" => Len(shown) = command.emitted)
      <3>1. /\ r \in Nat /\ Len(shown) \in Nat /\ r <= command.forwarded
            /\ command.forwarded <= command.emitted
            /\ command.forwarded \in Nat /\ command.emitted \in Nat
        BY <1>0, <2>3, SessionAssumption DEF CommandStates, CommandKnown
      <3>2. Head(toClient)[1] # "stdout"
        BY <2>5 DEF Ends
      <3>3. Chunks(toClient', Len(shown), r)
        BY <1>0, <2>1, <2>3, <3>1, <3>2, ChunksTail DEF OutputUpTo
      <3>4. toClient' \in Seq(Frames)
        BY <1>0, <2>1
      <3>5. Len(shown) = r
        BY <2>8, <3>1, <3>3, <3>4, NoChunks
      <3> QED BY <2>6, <3>1, <3>5
    <2>10. shown = [n \in 1..Len(shown) |-> n]
      <3>1. shown = [n \in 1..Len(shown) |-> shown[n]]
        BY <1>0
      <3>2. 1..Len(shown) = DOMAIN shown
        BY <1>0
      <3> QED BY <2>4, <3>1, <3>2
    <2> QED BY <2>1, <2>2, <2>6, <2>7, <2>8, <2>9, <2>10 DEF ExitCameLast, StatusAfterOutput
  <1>3. client'.exit = client.exit \/ ReadFrame
    BY <1>0, ClientSteps DEF RefuseToStart, SendHeader, ReadAck, AckTimeout, SendStdin, SendEof,
      Send, StreamEnds, ClientDies, Return, ClientStates
  <1>4. CASE client'.exit = client.exit /\ client.exit = Unset
    BY <1>4 DEF ExitCameLast
  <1> QED BY <1>1, <1>2, <1>3, <1>4

\* Every step, a stutter included, keeps the invariant.
LEMMA SessionStep ==
  ASSUME SInv, [SessionNext]_sessionVars
  PROVE  SInv'
  <1>1. CASE SessionNext
    BY <1>1, SessionTypeStep, PhasesStep, RefusedStep, CommandKnownStep, InputFlowStep,
       OutputFlowStep, ExitCameLastStep DEF SInv
  <1>2. CASE UNCHANGED sessionVars
    BY <1>2 DEF sessionVars, SInv, SessionTypeOK, Phases, RefusalHolds, CommandKnown, InputFlow,
                InputLength, OutputFlow, OutputUpTo, InnerFrom, EndsAfter, CloseIsLast,
                ExitCameLast, StatusAfterOutput
  <1> QED BY <1>1, <1>2

\* A session is never out of the phases, and its streams carry exactly the input and the
\* output that is between its two ends.
THEOREM SessionInvariant == SessionSpec => []SInv
  <1>1. SessionInit => SInv
    BY SessionInitially
  <1>2. SInv /\ [SessionNext]_sessionVars => SInv'
    BY SessionStep
  <1> QED BY <1>1, <1>2, PTL DEF SessionSpec

\* Client, msshd, command and the four streams keep their types.
THEOREM SessionTyped == SessionSpec => []SessionTypeOK
  <1>1. SInv => SessionTypeOK
    BY DEF SInv
  <1> QED BY <1>1, SessionInvariant, PTL

\* A return code that came with EXIT or SIGNAL is what the command ended with, after its output
\* in order, and after all of it unless the inner connection was lost; behind a refusal nothing
\* ran.  So relay client.py, ssh_proxy.py and frame.py, for any input, any output and any
\* length of both.
THEOREM ReturnIsTrue == SessionSpec => []ReturnTellsTheTruth
  <1>1. SInv => ReturnTellsTheTruth
    <2>1. ExitCameLast /\ SessionTypeOK => StatusAfterOutput
      BY DEF ExitCameLast, StatusAfterOutput
    <2>2. RefusalHolds => RefusedNeverRan
      BY DEF RefusalHolds, RefusedNeverRan
    <2> QED BY <2>1, <2>2 DEF SInv, ReturnTellsTheTruth
  <1> QED BY <1>1, SessionInvariant, PTL

\* The beginning of a sequence, as a function.
LEMMA PrefixOf ==
  ASSUME NEW S, NEW q \in Seq(S), NEW g \in Nat, g <= Len(q)
  PROVE  SubSeq(q, 1, g) = [n \in 1..g |-> q[n]]
  <1>1. \A i \in 1..g : q[i] \in S
    OBVIOUS
  <1>2. /\ SubSeq(q, 1, g) \in Seq(S) /\ Len(SubSeq(q, 1, g)) = g
        /\ \A i \in 1..g : SubSeq(q, 1, g)[i] = q[i]
    BY <1>1, SubSeqProperties
  <1> QED BY <1>2

\* What the command has read is a prefix of what the client has sent: the relay of msshd
\* loses no input frame and changes no order.
THEOREM InputArrivesInOrder == SessionSpec => []StdinInOrder
  <1>1. SInv => StdinInOrder
    <2> SUFFICES ASSUME SInv PROVE StdinInOrder
      OBVIOUS
    <2> DEFINE tail == IF client.eof THEN <<<<"stdin_eof", 0>>>> ELSE <<>>
               all == [n \in 1..client.sent |-> <<"stdin", n>>] \o tail
    <2>1. /\ client.sent \in Nat /\ client.eof \in BOOLEAN /\ command.got \in Seq(Items)
          /\ stdin \in Seq(Items) /\ InputFlow
      BY SessionTypes, SessionAssumption DEF SInv, ClientStates, CommandStates
    <2>2. PICK g \in Nat, h \in Nat, s \in Nat :
            g = Len(command.got) /\ h = Len(stdin) /\ s = client.sent
      BY <2>1
    <2>3. [n \in 1..s |-> <<"stdin", n>>] \in Seq({"stdin"} \X Nat)
      OBVIOUS
    <2>4. Len(all) = InputLength /\ \A n \in 1..InputLength : all[n] = InputFrame(n, s)
      BY <2>1, <2>2, <2>3 DEF InputLength, InputFrame
    <2>5. g <= InputLength
      BY <2>1, <2>2 DEF InputFlow, InputLength
    <2>6. \A n \in 1..g : command.got[n] = InputFrame(n, s)
      BY <2>1, <2>2 DEF InputFlow, FramesAfter
    <2>7. command.got = [n \in 1..g |-> InputFrame(n, s)]
      BY <2>1, <2>2, <2>6
    <2>8. SubSeq(all, 1, g) = [n \in 1..g |-> all[n]]
      <3>1. all \in Seq(Frames)
        <4>1. [n \in 1..client.sent |-> <<"stdin", n>>] \in Seq(Frames)
          <5>1. \A n \in 1..client.sent : <<"stdin", n>> \in Frames
            <6> TAKE n \in 1..client.sent
            <6>1. n \in Nat
              BY <2>1
            <6> QED BY <6>1, FramesTyped
          <5> QED BY <2>1, <5>1
        <4>2. tail \in Seq(Frames)
          <5>1. <<"stdin_eof", 0>> \in Frames
            BY FramesTyped, 0 \in Nat
          <5>2. <<<<"stdin_eof", 0>>>> \in Seq(Frames) /\ <<>> \in Seq(Frames)
            BY <5>1, SingleFrame
          <5> QED BY <5>2
        <4> HIDE DEF tail
        <4> QED BY <4>1, <4>2
      <3>2. g <= Len(all)
        BY <2>4, <2>5
      <3> HIDE DEF all
      <3> QED BY <3>1, <3>2, PrefixOf
    <2>9. \A n \in 1..g : all[n] = InputFrame(n, s)
      <3>1. \A n \in 1..g : n \in 1..InputLength
        BY <2>1, <2>2, <2>5 DEF InputLength
      <3> HIDE DEF all
      <3> QED BY <2>4, <3>1
    <2>10. SubSeq(all, 1, g) = command.got
      BY <2>7, <2>8, <2>9
    <2> QED BY <2>2, <2>4, <2>5, <2>10 DEF StdinInOrder
  <1> QED BY <1>1, SessionInvariant, PTL

-----------------------------------------------------------------------------
(* Shim and session together                                              *)

\* Every variable of the shim and of the session has its type in every state,
\* whichever of the components moves.
THEOREM HostsTyped == HostsSpec => []HostsTypeOK
<1> DEFINE hostsVars == <<focus, policyVars, extensionVars, shimVars, sessionVars>>
<1>1. HostsInit => ShimInv /\ SInv
  BY ShimInitially, SessionInitially DEF HostsInit
<1>2. ShimInv /\ SInv /\ [HostsNext]_hostsVars => ShimInv' /\ SInv'
  <2> SUFFICES ASSUME ShimInv, SInv, [HostsNext]_hostsVars PROVE ShimInv' /\ SInv'
    OBVIOUS
  <2>1. [ShimNext]_shimVars
    BY Zenon DEF HostsNext, SessionAlone
  <2>2. [SessionNext]_sessionVars
    BY Zenon DEF HostsNext
  <2> QED
    BY <2>1, <2>2, ShimStep, SessionStep
<1>3. ShimInv /\ SInv => HostsTypeOK
  BY ShimTyped DEF SInv, HostsTypeOK
<1> QED
  BY <1>1, <1>2, <1>3, PTL DEF HostsSpec, hostsVars
=============================================================================
