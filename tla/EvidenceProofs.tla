--------------------------- MODULE EvidenceProofs ---------------------------
(***************************************************************************)
(* The computations that judge score lists, clips and cameras, and the     *)
(* camera of a page.  The first three compute on data as it came: their    *)
(* invariants say that the result is the one of the operator, and the      *)
(* lemmas what the operator returns for any list, clip or report.  The     *)
(* camera of a page is a protocol: its invariant says what a start that no *)
(* stop has overtaken relies on while it waits.                            *)
(***************************************************************************)
EXTENDS Roc, Blink, CapturePath, Webcam, FiniteSetTheorems, SequenceTheorems, TLAPS

----------------------------------------------------------------------------
(* Numbers.                                                                *)

LEMMA NatHasLeast ==
    ASSUME NEW T, T \subseteq Nat, T # {}
    PROVE  \E n \in T : \A k \in T : n <= k
<1> DEFINE below == {0 .. k : k \in T}
<1>1. below \subseteq FiniteSubsetsOf(Nat)
  <2>1. ASSUME NEW k \in T PROVE 0 .. k \in SUBSET Nat /\ IsFiniteSet(0 .. k)
      BY FS_Interval
  <2> QED
      BY <2>1 DEF FiniteSubsetsOf
<1>2. below # {}
    OBVIOUS
<1>3. \E b \in below : \A c \in below : ~ (<<c, b>> \in StrictSubsetOrdering(Nat))
  <2> HIDE DEF below
  <2> QED
      BY ONLY <1>1, <1>2, FS_StrictSubsetOrderingWellFounded, WFMin
<1>4. PICK n \in T : \A k \in T : ~ (<<0 .. k, 0 .. n>> \in StrictSubsetOrdering(Nat))
    BY <1>3
<1>5. ASSUME NEW k \in T, k < n PROVE FALSE
  <2>1. 0 .. k \subseteq 0 .. n /\ n \in 0 .. n /\ n \notin 0 .. k
      BY <1>5
  <2>2. 0 .. k \in SUBSET Nat /\ 0 .. n \in SUBSET Nat
      OBVIOUS
  <2>3. <<0 .. k, 0 .. n>> \in StrictSubsetOrdering(Nat)
      BY <2>1, <2>2, Zenon DEF StrictSubsetOrdering
  <2> QED
      BY <2>3, <1>4
<1> QED
    BY <1>5

LEMMA LeastIsMin ==
    ASSUME NEW T, T \subseteq Nat, T # {}
    PROVE  Min(T) \in T /\ \A k \in T : Min(T) <= k
<1>1. \E m \in T : \A k \in T : m <= k
    BY ONLY NatHasLeast, T \subseteq Nat, T # {}
<1> QED
    BY <1>1 DEF Min

----------------------------------------------------------------------------
(* The operating points.                                                   *)

Falling(s) == \A i, j \in DOMAIN s : i < j => s[i].score >= s[j].score

\* Pairs by score, at least one of each kind
RankedPairs(s, n) ==
    /\ n \in Nat /\ DOMAIN s = 1 .. n
    /\ \A i \in 1 .. n : s[i].score \in Nat
    /\ Falling(s)
    /\ Genuine(s) # {}

Found == \A target \in DOMAIN point : point[target] = TarAtFar(pairs, target)

RocInv == pairs \in Sorted /\ Found

LEMMA SortedIsRanked ==
    ASSUME NEW s \in Sorted
    PROVE  \E n \in Nat : RankedPairs(s, n)
<1>1. PICK n \in 2 .. MaxPairs : s \in [1 .. n -> Pair]
    BY DEF Sorted
<1>2. n \in Nat
    BY <1>1, RocAssumption
<1>3. \A i \in 1 .. n : s[i].score \in Nat
  <2>1. \A i \in 1 .. n : s[i] \in Pair
      BY <1>1
  <2> QED
      BY <2>1, RocAssumption DEF Pair
<1>4. Falling(s) /\ Genuine(s) # {}
    BY DEF Sorted, Falling
<1> QED
    BY <1>1, <1>2, <1>3, <1>4 DEF RankedPairs

LEMMA Counts ==
    ASSUME NEW s, NEW n, RankedPairs(s, n), NEW T, T \subseteq 1 .. n, NEW U, U \subseteq T
    PROVE  /\ Cardinality(U) \in Nat /\ Cardinality(T) \in Nat
           /\ Cardinality(U) <= Cardinality(T)
<1>1. IsFiniteSet(1 .. n)
    BY FS_Interval DEF RankedPairs
<1>2. IsFiniteSet(T) /\ IsFiniteSet(U)
    BY <1>1, FS_Subset
<1> QED
    BY <1>2, FS_Subset, FS_CardinalityType

\* A threshold lets the pairs above an index through, and those tied with it.
LEMMA CurveIsBelow ==
    ASSUME NEW s, NEW n, RankedPairs(s, n), NEW i \in 1 .. n
    PROVE  /\ {j \in 1 .. n : j <= i} \subseteq Accepted(s, s[i].score)
           /\ Untied(s) => Accepted(s, s[i].score) = {j \in 1 .. n : j <= i}
<1>1. ASSUME NEW j \in 1 .. n, j <= i PROVE s[j].score >= s[i].score
    BY <1>1 DEF RankedPairs, Falling
<1>2. ASSUME Untied(s), NEW j \in 1 .. n, s[j].score >= s[i].score PROVE j <= i
  <2> SUFFICES ASSUME i < j PROVE FALSE
      OBVIOUS
  <2>1. s[i].score >= s[j].score /\ s[i].score # s[j].score
      BY <1>2 DEF RankedPairs, Falling, Untied
  <2> QED
      BY <1>2, <2>1 DEF RankedPairs
<1> QED
    BY <1>1, <1>2 DEF Accepted, RankedPairs

LEMMA CurveCounts ==
    ASSUME NEW s, NEW n, RankedPairs(s, n), NEW i \in 1 .. n
    PROVE  /\ TruePositives(s, i) \in Nat /\ TrueRate(s, i) \in Nat
           /\ FalsePositives(s, i) \in Nat /\ FalseRate(s, i) \in Nat
           /\ TruePositives(s, i) <= TrueRate(s, i)
           /\ FalsePositives(s, i) <= FalseRate(s, i)
           /\ Untied(s) => TruePositives(s, i) = TrueRate(s, i) /\ FalsePositives(s, i) = FalseRate(s, i)
<1> DEFINE above == {j \in 1 .. n : j <= i}
<1>1. /\ {j \in Genuine(s) : j <= i} = above \cap Genuine(s)
      /\ {j \in Impostor(s) : j <= i} = above \cap Impostor(s)
    BY DEF RankedPairs, Genuine, Impostor
<1>2. /\ above \cap Genuine(s) \subseteq Accepted(s, s[i].score) \cap Genuine(s)
      /\ above \cap Impostor(s) \subseteq Accepted(s, s[i].score) \cap Impostor(s)
    BY CurveIsBelow
<1>3. /\ Accepted(s, s[i].score) \cap Genuine(s) \subseteq 1 .. n
      /\ Accepted(s, s[i].score) \cap Impostor(s) \subseteq 1 .. n
    BY DEF RankedPairs, Genuine, Impostor
<1>4. Untied(s) => above = Accepted(s, s[i].score)
    BY CurveIsBelow
<1> HIDE DEF above
<1> QED
    BY <1>1, <1>2, <1>3, <1>4, Counts DEF TruePositives, FalsePositives, TrueRate, FalseRate

\* The first pair begins a run of equal scores.
LEMMA KeepHasFirst ==
    ASSUME NEW s, NEW n, RankedPairs(s, n)
    PROVE  1 \in Keep(s) /\ Keep(s) \subseteq 1 .. n /\ (Untied(s) => Keep(s) = 1 .. n)
<1>1. 1 \in 1 .. n
    BY DEF RankedPairs, Genuine
<1>2. Keep(s) \subseteq 1 .. n /\ 1 \in Keep(s)
    BY <1>1 DEF RankedPairs, Keep
<1>3. ASSUME Untied(s), NEW i \in 1 .. n, NEW j \in 1 .. i - 1 PROVE s[j].score # s[i].score
    BY <1>3 DEF RankedPairs, Untied
<1> QED
    BY <1>2, <1>3 DEF Keep, RankedPairs

LEMMA BestIsBest ==
    ASSUME NEW s, NEW n, RankedPairs(s, n), NEW points, points \subseteq 1 .. n, points # {}
    PROVE  Best(s, points) \in points
           /\ \A j \in points : TruePositives(s, j) <= TruePositives(s, Best(s, points))
<1> DEFINE most == {i \in points : \A j \in points : TruePositives(s, j) <= TruePositives(s, i)}
           missed == {Cardinality(Genuine(s)) - TruePositives(s, i) : i \in points}
<1>1. /\ Cardinality(Genuine(s)) \in Nat
      /\ \A i \in 1 .. n : TruePositives(s, i) \in Nat
                           /\ TruePositives(s, i) <= Cardinality(Genuine(s))
  <2>1. Genuine(s) \subseteq 1 .. n
      BY DEF RankedPairs, Genuine
  <2>2. \A i \in 1 .. n : {j \in Genuine(s) : j <= i} \subseteq Genuine(s)
      OBVIOUS
  <2> QED
      BY <2>1, <2>2, Counts DEF TruePositives
<1>2. missed \subseteq Nat /\ missed # {}
  <2>1. ASSUME NEW i \in points PROVE Cardinality(Genuine(s)) - TruePositives(s, i) \in Nat
    <3>1. i \in 1 .. n
        OBVIOUS
    <3> QED
        BY ONLY <1>1, <3>1
  <2> QED
      BY <2>1
<1>3. PICK m \in missed : \A k \in missed : m <= k
    BY ONLY <1>2, NatHasLeast
<1>4. PICK i \in points : m = Cardinality(Genuine(s)) - TruePositives(s, i)
    BY <1>3
<1>5. i \in most
  <2>1. ASSUME NEW j \in points PROVE TruePositives(s, j) <= TruePositives(s, i)
    <3>1. Cardinality(Genuine(s)) - TruePositives(s, i) <= Cardinality(Genuine(s)) - TruePositives(s, j)
        BY <1>3, <1>4
    <3>2. i \in 1 .. n /\ j \in 1 .. n
        OBVIOUS
    <3> QED
        BY ONLY <1>1, <3>1, <3>2
  <2> QED
      BY <2>1
<1>6. most \subseteq Nat /\ most # {}
  <2>1. most \subseteq 1 .. n
      OBVIOUS
  <2>2. 1 .. n \subseteq Nat
      BY DEF RankedPairs
  <2> QED
      BY <1>5, <2>1, <2>2
<1>7. Min(most) \in most
    BY ONLY <1>6, LeastIsMin
<1> QED
    BY <1>7 DEF Best

LEMMA PointIsOnCurve ==
    ASSUME NEW s, NEW n, RankedPairs(s, n), NEW target
    PROVE  LET i == TarAtFar(s, target)
               eligible == {j \in Keep(s) : FarWithin(s, j, target)}
           IN /\ i \in 1 .. n
              /\ eligible # {} =>
                   /\ i \in eligible
                   /\ \A j \in eligible : TruePositives(s, j) <= TruePositives(s, i)
<1> DEFINE eligible == {j \in Keep(s) : FarWithin(s, j, target)}
           fewest == {i \in Keep(s) : \A j \in Keep(s) : FalsePositives(s, i) <= FalsePositives(s, j)}
           counts == {FalsePositives(s, i) : i \in Keep(s)}
<1>1. 1 \in Keep(s) /\ Keep(s) \subseteq 1 .. n
    BY KeepHasFirst
<1>2. CASE eligible # {}
  <2>1. eligible \subseteq 1 .. n
      BY <1>1
  <2>2. TarAtFar(s, target) = Best(s, eligible)
      BY <1>2 DEF TarAtFar
  <2> HIDE DEF eligible
  <2>3. Best(s, eligible) \in eligible
        /\ \A j \in eligible : TruePositives(s, j) <= TruePositives(s, Best(s, eligible))
      BY <1>2, <2>1, BestIsBest
  <2> QED
      BY <2>1, <2>2, <2>3 DEF eligible
<1>3. CASE eligible = {}
  <2>1. counts \subseteq Nat /\ counts # {}
      BY <1>1, CurveCounts
  <2>2. PICK m \in counts : \A k \in counts : m <= k
      BY ONLY <2>1, NatHasLeast
  <2>3. fewest # {} /\ fewest \subseteq Nat
      BY <1>1, <2>2 DEF RankedPairs
  <2>4. Min(fewest) \in fewest
      BY ONLY <2>3, LeastIsMin
  <2>5. TarAtFar(s, target) = Min(fewest)
      BY <1>3 DEF TarAtFar
  <2> QED
      BY <1>1, <1>3, <2>4, <2>5
<1> QED
    BY <1>2, <1>3

LEMMA RocInvariant == RocSpec => []RocInv
<1>1. RocInit => RocInv
    BY DEF RocInit, RocInv, Found
<1>2. RocInv /\ [RocNext]_evaluation => RocInv'
  <2> SUFFICES ASSUME RocInv, [RocNext]_evaluation PROVE RocInv'
      OBVIOUS
  <2>1. ASSUME NEW target \in FarTargets, Evaluate(target) PROVE RocInv'
      BY <2>1 DEF Evaluate, RocInv, Found
  <2>2. CASE UNCHANGED evaluation
      BY <2>2 DEF evaluation, RocInv, Found
  <2> QED
      BY <2>1, <2>2 DEF RocNext
<1> QED
    BY <1>1, <1>2, PTL DEF RocSpec

LEMMA PointsAreExact == RocInv => OperatingPointIsExactButForTies
<1> SUFFICES ASSUME RocInv, NEW target \in DOMAIN point
             PROVE  LET i == point[target]
                        Keeps(j) == FalseRate(pairs, j) * target[2]
                                      <= target[1] * Cardinality(Impostor(pairs))
                    IN /\ TruePositives(pairs, i) <= TrueRate(pairs, i)
                       /\ FalsePositives(pairs, i) <= FalseRate(pairs, i)
                       /\ Untied(pairs) =>
                            /\ TruePositives(pairs, i) = TrueRate(pairs, i)
                            /\ FalsePositives(pairs, i) = FalseRate(pairs, i)
                            /\ \A j \in DOMAIN pairs :
                                  Keeps(j) => Keeps(i) /\ TrueRate(pairs, j) <= TrueRate(pairs, i)
    BY DEF OperatingPointIsExactButForTies
<1> DEFINE i == point[target]
<1>1. PICK n \in Nat : RankedPairs(pairs, n)
    BY SortedIsRanked DEF RocInv
<1>2. i = TarAtFar(pairs, target)
    BY DEF RocInv, Found
<1>3. i \in 1 .. n
    BY <1>1, <1>2, PointIsOnCurve
<1> HIDE DEF i
<1>4. ASSUME Untied(pairs), NEW j \in 1 .. n,
             FalseRate(pairs, j) * target[2] <= target[1] * Cardinality(Impostor(pairs))
      PROVE  /\ FalseRate(pairs, i) * target[2] <= target[1] * Cardinality(Impostor(pairs))
             /\ TrueRate(pairs, j) <= TrueRate(pairs, i)
  <2>1. \A k \in 1 .. n : /\ TruePositives(pairs, k) = TrueRate(pairs, k)
                          /\ FalsePositives(pairs, k) = FalseRate(pairs, k)
      BY <1>1, <1>4, CurveCounts
  <2>2. j \in Keep(pairs)
      BY <1>1, <1>4, KeepHasFirst
  <2>3. FarWithin(pairs, j, target)
      BY <1>4, <2>1 DEF FarWithin
  <2>4. FarWithin(pairs, i, target) /\ TruePositives(pairs, j) <= TruePositives(pairs, i)
      BY <1>1, <1>2, <2>2, <2>3, PointIsOnCurve
  <2> QED
      BY <1>3, <2>1, <2>4 DEF FarWithin
<1> QED
    BY <1>1, <1>3, <1>4, CurveCounts DEF i, RankedPairs

\* For any scores, pairs and targets, an operating point is what the server
\* will see if no two pairs are tied, and no threshold that keeps the target
\* does better; with ties it promises too little (metrics.py:107).
THEOREM OperatingPoints == RocSpec => []OperatingPointIsExactButForTies
<1> QED
    BY RocInvariant, PointsAreExact, PTL

----------------------------------------------------------------------------
(* Blinks.                                                                 *)

LEMMA FramesAreFinite ==
    ASSUME NEW ears \in Seq(Nat)
    PROVE  /\ Frames(ears) \subseteq Nat /\ IsFiniteSet(Frames(ears))
           /\ \A i \in Frames(ears) : ears[i] \in Nat /\ ears[i] > 0 /\ ears[i] \in Values(ears)
           /\ Values(ears) \subseteq Nat
<1>1. PICK n \in Nat : DOMAIN ears = 1 .. n
    OBVIOUS
<1>2. Frames(ears) \subseteq 1 .. n /\ IsFiniteSet(1 .. n)
    BY <1>1, FS_Interval DEF Frames
<1>3. \A i \in Frames(ears) : ears[i] \in Nat /\ ears[i] > 0
    BY DEF Frames, NoFace
<1>4. Frames(ears) \subseteq Nat /\ IsFiniteSet(Frames(ears))
    BY <1>2, FS_Subset
<1> QED
    BY <1>3, <1>4 DEF Values

\* The value with the fewest frames above it is the greatest.
LEMMA MostIsMost ==
    ASSUME NEW ears \in Seq(Nat), Frames(ears) # {}
    PROVE  Most(ears) \in Values(ears) /\ \A i \in Frames(ears) : ears[i] <= Most(ears)
<1> DEFINE Above(i) == {j \in Frames(ears) : ears[j] > ears[i]}
           numbers == {Cardinality(Above(i)) : i \in Frames(ears)}
<1>1. \A i \in Frames(ears) : IsFiniteSet(Above(i)) /\ Cardinality(Above(i)) \in Nat
    BY FramesAreFinite, FS_Subset, FS_CardinalityType
<1>2. numbers \subseteq Nat /\ numbers # {}
    BY <1>1
<1>3. PICK m \in numbers : \A k \in numbers : m <= k
    BY ONLY <1>2, NatHasLeast
<1>4. PICK i \in Frames(ears) : m = Cardinality(Above(i))
    BY <1>3
<1>5. ASSUME NEW j \in Frames(ears), ears[j] > ears[i] PROVE FALSE
  <2>1. Above(j) \subseteq Above(i) /\ j \in Above(i) /\ j \notin Above(j)
      BY <1>5, FramesAreFinite
  <2>2. Cardinality(Above(j)) < Cardinality(Above(i))
    <3> HIDE DEF Above
    <3>1. /\ IsFiniteSet(Above(i) \ {j})
          /\ Cardinality(Above(i) \ {j}) = Cardinality(Above(i)) - 1
        BY <1>1, <2>1, FS_RemoveElement
    <3>2. Above(j) \subseteq Above(i) \ {j}
        BY <2>1
    <3>3. Cardinality(Above(j)) <= Cardinality(Above(i) \ {j})
        BY <3>1, <3>2, FS_Subset
    <3> QED
        BY <1>1, <3>1, <3>3
  <2>3. Cardinality(Above(i)) <= Cardinality(Above(j))
      BY <1>3, <1>4
  <2> HIDE DEF Above
  <2> QED
      BY <1>1, <2>2, <2>3
<1>6. \A j \in Frames(ears) : ears[i] >= ears[j]
    BY <1>5, FramesAreFinite
<1>7. ears[i] \in Values(ears) /\ \A x \in Values(ears) : ears[i] >= x
    BY <1>6 DEF Values
<1>8. Most(ears) \in Values(ears) /\ \A x \in Values(ears) : Most(ears) >= x
    BY <1>7 DEF Most, Max
<1> QED
    BY <1>8, FramesAreFinite

LEMMA LeastIsLeast ==
    ASSUME NEW ears \in Seq(Nat), Frames(ears) # {}
    PROVE  /\ Least(ears) \in Values(ears)
           /\ \A i \in Frames(ears) : Least(ears) <= ears[i]
<1>1. Values(ears) \subseteq Nat /\ Values(ears) # {}
    BY FramesAreFinite DEF Values
<1>2. Min(Values(ears)) \in Values(ears) /\ \A x \in Values(ears) : Min(Values(ears)) <= x
    BY ONLY <1>1, LeastIsMin
<1> QED
    BY <1>2, FramesAreFinite DEF Least

LEMMA RankedIsAValue ==
    ASSUME NEW ears \in Seq(Nat), NEW n \in Nat, 1 <= n, n <= Cardinality(Frames(ears))
    PROVE  Ranked(ears, n) \in Nat /\ Most(ears) \in Nat /\ Ranked(ears, n) <= Most(ears)
<1> DEFINE reaching == {x \in Values(ears) : Cardinality({i \in Frames(ears) : ears[i] <= x}) >= n}
<1>1. IsFiniteSet(Frames(ears)) /\ Frames(ears) # {}
    BY FramesAreFinite, FS_EmptySet
<1>2. Most(ears) \in Values(ears) /\ \A i \in Frames(ears) : ears[i] <= Most(ears)
    BY <1>1, MostIsMost
<1>3. {i \in Frames(ears) : ears[i] <= Most(ears)} = Frames(ears)
    BY <1>2
<1>4. Cardinality(Frames(ears)) \in Nat
    BY <1>1, FS_CardinalityType
<1>5. Most(ears) \in reaching
    BY <1>2, <1>3, <1>4
<1>6. reaching \subseteq Nat /\ reaching # {}
    BY <1>5, FramesAreFinite
<1>7. Min(reaching) \in reaching /\ \A x \in reaching : Min(reaching) <= x
    BY ONLY <1>6, LeastIsMin
<1>8. Ranked(ears, n) = Min(reaching)
    BY DEF Ranked
<1> HIDE DEF reaching
<1> QED
    BY <1>5, <1>6, <1>7, <1>8

\* The quartile lies below the most open frame.
LEMMA QuartileIsBounded ==
    ASSUME NEW ears \in Seq(Nat), Cardinality(Frames(ears)) >= 3
    PROVE  /\ Percentile75(ears) \in Int /\ Most(ears) \in Nat
           /\ Percentile75(ears) <= 4 * Most(ears)
<1> DEFINE N == Cardinality(Frames(ears))
           at == 3 * (N - 1)
           r == at % 4
           q == at \div 4 + 1
           below == Ranked(ears, q)
           next == Ranked(ears, q + 1)
<1>1. N \in Nat /\ N >= 3
    BY FramesAreFinite, FS_CardinalityType
<1>2. Percentile75(ears) = IF r = 0 THEN 4 * below ELSE 4 * below + r * (next - below)
  <2>1. at \div 4 + 2 = q + 1
      BY <1>1
  <2> QED
      BY <2>1 DEF Percentile75
<1> HIDE DEF N
<1>3. /\ q \in Nat /\ 1 <= q /\ q <= N /\ r \in {0, 1, 2, 3}
      /\ r # 0 => q + 1 <= N
    BY <1>1
<1>4. below \in Nat /\ Most(ears) \in Nat /\ below <= Most(ears)
    BY <1>3, RankedIsAValue DEF N
<1>5. r # 0 => next \in Nat /\ next <= Most(ears)
    BY <1>3, RankedIsAValue DEF N
<1> HIDE DEF r, below, next
<1>6. CASE r = 0
    BY <1>2, <1>4, <1>6
<1>7. CASE r = 1
    BY <1>2, <1>4, <1>5, <1>7
<1>8. CASE r = 2
    BY <1>2, <1>4, <1>5, <1>8
<1>9. CASE r = 3
    BY <1>2, <1>4, <1>5, <1>9
<1> QED
    BY <1>3, <1>6, <1>7, <1>8, <1>9

HasDip(ears) ==
    \E i, j, k \in Frames(ears) : i < j /\ j < k /\ Dips(ears, j, i) /\ Dips(ears, j, k)

\* Thresholds at 35 and 65 percent of a range that is a tenth of its top
LEMMA RelativeDip ==
    ASSUME NEW up \in Nat, NEW down \in Nat, NEW most \in Nat, NEW least \in Nat, NEW quartile \in Int,
           0 < most, quartile <= 4 * most, 10 * (most - least) >= most,
           100 * up >= 100 * least + 65 * (most - least),
           100 * down <= 100 * least + 35 * (most - least)
    PROVE  down < up /\ 400 * (up - down) >= 3 * quartile
<1>1. 100 * (up - down) >= 30 * (most - least)
    OBVIOUS
<1>2. 10 * (100 * (up - down)) >= 30 * most
    BY <1>1
<1>3. down < up
    BY <1>2
<1>4. 400 * (up - down) >= 12 * most
    BY <1>2
<1> QED
    BY <1>3, <1>4

\* A recovery by 45 percent of a drop that is 8 percent of the quartile
LEMMA ValleyDip ==
    ASSUME NEW up \in Nat, NEW least \in Nat, NEW quartile \in Int,
           quartile > 0, 100 * (quartile - 4 * least) >= 8 * quartile,
           400 * up >= 400 * least + 45 * (quartile - 4 * least)
    PROVE  least < up /\ 400 * (up - least) >= 3 * quartile
<1>1. 100 * (400 * (up - least)) >= 45 * (8 * quartile)
    OBVIOUS
<1> QED
    BY <1>1

\* Each of the three tests finds a dip.
LEMMA BlinksDip ==
    ASSUME NEW ears \in Seq(Nat), BlinkFromEars(ears)
    PROVE  HasDip(ears)
<1> DEFINE most == Most(ears)
           least == Least(ears)
           quartile == Percentile75(ears)
<1>1. Cardinality(Frames(ears)) >= 3
    BY DEF BlinkFromEars
<1>2. /\ quartile \in Int /\ most \in Nat /\ quartile <= 4 * most
      /\ IsFiniteSet(Frames(ears)) /\ Frames(ears) # {}
    BY <1>1, QuartileIsBounded, FramesAreFinite, FS_EmptySet
<1>3. least \in Nat /\ \A i \in Frames(ears) : ears[i] \in Nat /\ ears[i] > 0 /\ ears[i] <= most
    BY <1>2, LeastIsLeast, MostIsMost, FramesAreFinite
<1> HIDE DEF most, least, quartile
<1>4. CASE Transition(ears, 1, ClosedThresh, OpenThresh)
  <2>1. PICK i \in Frames(ears), j \in Frames(ears), k \in Frames(ears) :
          /\ i < j /\ j < k
          /\ 1 * ears[i] >= 28 /\ 1 * ears[k] >= 28 /\ 1 * ears[j] <= 21
      BY <1>4 DEF Transition, OpenThresh, ClosedThresh
  <2>2. ASSUME NEW m \in {i, k} PROVE Dips(ears, j, m)
    <3>1. ears[m] \in Nat /\ ears[j] \in Nat /\ 1 * ears[m] >= 28 /\ 1 * ears[j] <= 21
        BY <1>3, <2>1
    <3>2. ears[j] < ears[m] /\ ears[m] - ears[j] >= 28 - 21
        BY ONLY <3>1
    <3> QED
        BY <3>2 DEF Dips, OpenThresh, ClosedThresh
  <2> QED
      BY <2>1, <2>2 DEF HasDip
<1>5. CASE /\ 10 * (most - least) >= most
           /\ Transition(ears, 100, 100 * least + 35 * (most - least), 100 * least + 65 * (most - least))
  <2>1. PICK i \in Frames(ears), j \in Frames(ears), k \in Frames(ears) :
          /\ i < j /\ j < k
          /\ 100 * ears[i] >= 100 * least + 65 * (most - least)
          /\ 100 * ears[k] >= 100 * least + 65 * (most - least)
          /\ 100 * ears[j] <= 100 * least + 35 * (most - least)
      BY <1>5 DEF Transition
  <2>2. ASSUME NEW m \in {i, k} PROVE Dips(ears, j, m)
    <3>1. /\ ears[m] \in Nat /\ ears[j] \in Nat
          /\ 100 * ears[m] >= 100 * least + 65 * (most - least)
        BY <1>3, <2>1
    <3>2. most > 0
        BY <1>2, <1>3, <2>1
    <3>3. ears[j] < ears[m] /\ 400 * (ears[m] - ears[j]) >= 3 * quartile
        BY ONLY <1>2, <1>3, <1>5, <2>1, <3>1, <3>2, RelativeDip
    <3> QED
        BY <3>3 DEF Dips, quartile
  <2> QED
      BY <2>1, <2>2 DEF HasDip
<1>6. CASE HasValley(ears)
  <2> DEFINE lowest == {j \in Frames(ears) : ears[j] = least}
             j == Min(lowest)
  <2>1. lowest \subseteq Nat /\ lowest # {}
    <3>1. least \in Values(ears)
        BY <1>2, LeastIsLeast DEF least
    <3> QED
        BY <3>1, FramesAreFinite DEF Values
  <2>2. j \in lowest
      BY ONLY <2>1, LeastIsMin
  <2>3. /\ quartile > 0 /\ 100 * (quartile - 4 * least) >= 8 * quartile
        /\ \E i \in Frames(ears) : i < j /\ 400 * ears[i] >= 400 * least + 45 * (quartile - 4 * least)
        /\ \E k \in Frames(ears) : k > j /\ 400 * ears[k] >= 400 * least + 45 * (quartile - 4 * least)
      BY <1>6 DEF HasValley, least, quartile
  <2> HIDE DEF j
  <2>4. j \in Frames(ears) /\ ears[j] = least
      BY <2>2
  <2>5. PICK i \in Frames(ears), k \in Frames(ears) :
          /\ i < j /\ 400 * ears[i] >= 400 * least + 45 * (quartile - 4 * least)
          /\ k > j /\ 400 * ears[k] >= 400 * least + 45 * (quartile - 4 * least)
      BY <2>3
  <2>6. ASSUME NEW m \in {i, k} PROVE Dips(ears, j, m)
    <3>1. ears[m] \in Nat /\ 400 * ears[m] >= 400 * least + 45 * (quartile - 4 * least)
        BY <1>3, <2>5
    <3>2. least < ears[m] /\ 400 * (ears[m] - least) >= 3 * quartile
        BY ONLY <1>2, <1>3, <2>3, <3>1, ValleyDip
    <3> QED
        BY <2>4, <3>2 DEF Dips, quartile
  <2>7. j < k
      BY <2>4, <2>5, FramesAreFinite
  <2> QED
      BY <2>4, <2>5, <2>6, <2>7 DEF HasDip
<1> QED
    BY <1>4, <1>5, <1>6 DEF BlinkFromEars, most, least

BlinkInv ==
    /\ hold \in Seq(Nat) /\ action \in Seq(Nat)
    /\ verdict \in {"filming", "no blink", "blink", "early"}
    /\ verdict = "blink" => BlinkFromEars(action)
    /\ verdict = "early" => BlinkFromEars(hold) \/ BlinkFromEars(hold \o action)

LEMMA BlinkInvariant == BlinkSpec => []BlinkInv
<1>1. BlinkInit => BlinkInv
    BY DEF BlinkInit, BlinkInv
<1>2. BlinkInv /\ [BlinkNext]_clip => BlinkInv'
  <2> SUFFICES ASSUME BlinkInv, [BlinkNext]_clip PROVE BlinkInv'
      OBVIOUS
  <2>1. CASE Film
    <3>1. PICK e \in Openness \cup {NoFace} :
            \/ hold' = Append(hold, e) /\ UNCHANGED action
            \/ action' = Append(action, e) /\ UNCHANGED hold
        BY <2>1 DEF Film
    <3>2. e \in Nat
        BY <3>1, BlinkAssumption DEF NoFace
    <3>3. verdict' = "filming"
        BY <2>1 DEF Film
    <3>4. hold' \in Seq(Nat) /\ action' \in Seq(Nat)
      <4>1. hold \in Seq(Nat) /\ action \in Seq(Nat)
          BY DEF BlinkInv
      <4>2. Append(hold, e) \in Seq(Nat) /\ Append(action, e) \in Seq(Nat)
          BY <3>2, <4>1
      <4> QED
          BY <3>1, <4>1, <4>2
    <3> QED
        BY <3>3, <3>4 DEF BlinkInv
  <2>2. CASE Judge
    <3>1. verdict' = TimedBlink /\ hold' = hold /\ action' = action
        BY <2>2 DEF Judge
    <3>2. /\ TimedBlink \in {"no blink", "blink", "early"}
          /\ TimedBlink = "blink" => BlinkFromEars(action)
          /\ TimedBlink = "early" => BlinkFromEars(hold) \/ BlinkFromEars(hold \o action)
        BY Zenon DEF TimedBlink
    <3>3. /\ BlinkFromEars(action) => BlinkFromEars(action)'
          /\ BlinkFromEars(hold) => BlinkFromEars(hold)'
          /\ BlinkFromEars(hold \o action) => BlinkFromEars(hold \o action)'
        BY <3>1
    <3> QED
        BY <3>1, <3>2, <3>3 DEF BlinkInv
  <2>3. CASE UNCHANGED clip
      BY <2>3 DEF clip, BlinkInv
  <2> QED
      BY <2>1, <2>2, <2>3 DEF BlinkNext
<1> QED
    BY <1>1, <1>2, PTL DEF BlinkSpec

LEMMA FoundInADip == BlinkInv => BlinkIsADip
<1> SUFFICES ASSUME BlinkInv, verdict \in {"blink", "early"}
             PROVE  \E ears \in IF verdict = "blink" THEN {action} ELSE {hold, hold \o action} : HasDip(ears)
    BY Zenon DEF BlinkIsADip, HasDip
<1>1. hold \in Seq(Nat) /\ action \in Seq(Nat) /\ hold \o action \in Seq(Nat)
  <2>1. hold \in Seq(Nat) /\ action \in Seq(Nat)
      BY Zenon DEF BlinkInv
  <2> QED
      BY ONLY <2>1
<1>2. CASE verdict = "blink"
    BY <1>1, <1>2, BlinksDip DEF BlinkInv
<1>3. CASE verdict = "early"
  <2>1. HasDip(hold) \/ HasDip(hold \o action)
      BY <1>1, <1>3, BlinksDip DEF BlinkInv
  <2> QED
      BY <1>3, <2>1
<1> QED
    BY <1>2, <1>3

\* For any clip of any length, whatever the openness of the eyes, a blink is
\* found in a dip only, and never in a still photo (blink.py:92).
THEOREM BlinksAreDips == BlinkSpec => []BlinkIsADip
<1> QED
    BY BlinkInvariant, FoundInADip, PTL

----------------------------------------------------------------------------
(* The capture path.                                                       *)

CameraRow == [kind : {"clamping", "locked", "accepting"}, height : Nat, fps : Nat]
RequestRow == [kind : {"height", "fps"}, value : Nat]
StepRow == [kind : {"height", "fps"}, value : Nat, reported : Int, actual : Int,
            response : Responses]

\* A row of the report says what its camera says, or nothing.
Witnessed(row) == row.reported \in {Reported(camera, row), Null}

CaptureInv ==
    /\ camera \in Camera
    /\ steps \in Seq(StepRow)
    /\ \A i \in DOMAIN steps : Witnessed(steps[i])
    /\ path # "probing" => path = AnalyseCapturePath(steps)

LEMMA CameraRows ==
    ASSUME NEW c \in Camera
    PROVE  /\ c.kind \in {"clamping", "locked", "accepting"}
           /\ c.height \in Nat /\ c.fps \in Nat
           /\ c.kind # "accepting" => c.height <= 3000 /\ c.fps < 100
BY CaptureAssumption

LEMMA AnswersAreNumbers ==
    ASSUME NEW c \in Camera, NEW request, request.kind \in {"height", "fps"},
           request.value \in Nat
    PROVE  Reported(c, request) \in Int /\ Actual(c, request) \in Int
<1>1. c.kind \in {"clamping", "locked", "accepting"} /\ c[request.kind] \in Nat
    BY CameraRows
<1> QED
    BY <1>1 DEF Reported, Actual

\* What a camera that is not "accepting" says of a height or a rate it has.
LEMMA HonestAnswers ==
    ASSUME NEW c \in Camera, c.kind # "accepting",
           NEW request, request.kind \in {"height", "fps"}, request.value \in Nat
    PROVE  /\ Reported(c, request) \in Nat
           /\ request.kind = "height" => Reported(c, request) <= 3000
           /\ request.kind = "fps" => Reported(c, request) < 100
<1>1. c.kind \in {"clamping", "locked"} /\ c.height \in Nat /\ c.fps \in Nat
    BY CameraRows
<1>2. c.height <= 3000 /\ c.fps < 100
    BY CameraRows
<1>3. CASE request.kind = "height"
    BY <1>1, <1>2, <1>3 DEF Reported
<1>4. CASE request.kind = "fps"
    BY <1>1, <1>2, <1>4 DEF Reported
<1> QED
    BY <1>3, <1>4

\* Only three of the cues can speak against such a camera while no reading
\* contradicts another: 48 points.
LEMMA HonestScore ==
    ASSUME CaptureInv, camera.kind # "accepting", ~Contradicted
    PROVE  RuleScore(steps) < ScoreThresh
<1>1. ASSUME NEW i \in DOMAIN steps
      PROVE  /\ steps[i].reported \in Int
             /\ steps[i].kind = "height" => steps[i].reported <= 3000
             /\ steps[i].kind = "fps" => steps[i].reported < 100
             /\ steps[i].reported # Null /\ steps[i].actual # Null
                => steps[i].reported = steps[i].actual
  <2>1. steps[i] \in StepRow /\ Witnessed(steps[i]) /\ camera \in Camera
      BY DEF CaptureInv
  <2> DEFINE row == steps[i]
  <2>2. row.kind \in {"height", "fps"} /\ row.value \in Nat /\ row.reported \in Int
      BY <2>1 DEF StepRow
  <2>3. row.reported \in {Reported(camera, row), Null}
      BY <2>1 DEF Witnessed
  <2> HIDE DEF row
  <2>4. /\ Reported(camera, row) \in Nat
        /\ row.kind = "height" => Reported(camera, row) <= 3000
        /\ row.kind = "fps" => Reported(camera, row) < 100
      BY <2>1, <2>2, HonestAnswers
  <2>5. /\ row.reported \in Int
        /\ row.kind = "height" => row.reported <= 3000
        /\ row.kind = "fps" => row.reported < 100
        /\ row.reported # Null /\ row.actual # Null => row.reported = row.actual
      BY <2>2, <2>3, <2>4, ~Contradicted DEF Null, Contradicted, row
  <2> QED
      BY <2>5 DEF row
<1>2. ~ClaimsHeight(steps)
    BY <1>1 DEF ClaimsHeight, Claims, StepsOf, OvershootHeight
<1>3. ~ClaimsFps(steps)
    BY <1>1 DEF ClaimsFps, Claims, StepsOf, HighFps
<1>4. IsFiniteSet(DOMAIN steps)
    BY Len(steps) \in Nat, DOMAIN steps = 1 .. Len(steps), FS_Interval DEF CaptureInv
<1>5. ASSUME NEW kind
      PROVE  LET both == Comparable(kind, steps)
             IN Cardinality(both) \in Nat /\ (both # {} => Cardinality(both) > 0)
    BY <1>4, FS_Subset, FS_CardinalityType, FS_EmptySet DEF Comparable, StepsOf
<1>6. Mismatched("height", steps) = {}
    BY <1>1 DEF Mismatched, Comparable, StepsOf
<1>7. ~HeightsDiffer(steps)
    BY <1>5, <1>6, FS_EmptySet DEF HeightsDiffer
<1>8. Gaps(steps) = {}
  <2>1. ASSUME NEW i \in Comparable("fps", steps) PROVE {i} \X (1 .. Gap(steps[i])) = {}
    <3>1. steps[i].reported \in Int /\ steps[i].reported = steps[i].actual
        BY <1>1, <2>1 DEF Comparable, StepsOf
    <3>2. Gap(steps[i]) = 0
        BY <3>1 DEF Gap
    <3>3. 1 .. Gap(steps[i]) = {}
        BY <3>2
    <3> QED
        BY <3>3
  <2> QED
      BY <2>1, Zenon DEF Gaps
<1>9. ~RatesDiffer(steps)
  <2>1. Cardinality(Gaps(steps)) = 0
      BY <1>8, FS_EmptySet
  <2> QED
      BY <2>1, <1>5 DEF RatesDiffer
<1> QED
    BY <1>2, <1>3, <1>7, <1>9 DEF RuleScore, ScoreThresh

\* Both claims have 60 points.
LEMMA ClaimsScore ==
    ASSUME NEW s, ClaimsHeight(s), ClaimsFps(s)
    PROVE  RuleScore(s) >= ScoreThresh /\ s # <<>>
<1>1. s # <<>>
    BY DEF ClaimsHeight, Claims, StepsOf
<1>2. RuleScore(s) >= ScoreThresh
    BY DEF RuleScore, ScoreThresh
<1> QED
    BY <1>1, <1>2

LEMMA CaptureInitHolds == CaptureInit => CaptureInv
BY DEF CaptureInit, CaptureInv

LEMMA ProbeHolds ==
    ASSUME CaptureInv, ProbeStep
    PROVE  CaptureInv'
<1> DEFINE request == Ladder[Len(steps) + 1]
<1>1. PICK reported \in {Reported(camera, request), Null},
           actual \in Seen(camera, Len(steps) + 1), response \in Responses :
         steps' = Append(steps, [kind |-> request.kind, value |-> request.value,
                                 reported |-> reported, actual |-> actual,
                                 response |-> response])
    BY DEF ProbeStep
<1>2. path' = path /\ camera' = camera /\ path = "probing" /\ Len(steps) < Len(Ladder)
    BY DEF ProbeStep
<1>3. request.kind \in {"height", "fps"} /\ request.value \in Nat
  <2>1. Ladder \in Seq(RequestRow)
      BY CaptureAssumption DEF RequestRow
  <2>2. Len(steps) + 1 \in 1 .. Len(Ladder)
      BY <1>2, <2>1 DEF CaptureInv
  <2>3. request \in RequestRow
      BY <2>1, <2>2, ElementOfSeq
  <2> QED
      BY <2>3 DEF RequestRow
<1> DEFINE row == [kind |-> request.kind, value |-> request.value,
                   reported |-> reported, actual |-> actual, response |-> response]
<1>4. Reported(camera, request) \in Int /\ Actual(camera, request) \in Int
    BY <1>3, AnswersAreNumbers DEF CaptureInv
<1>5. HeightBefore(camera, Len(steps) + 1) \in Int
  <2>1. camera \in Camera /\ camera.height \in Nat
      BY CameraRows DEF CaptureInv
  <2>2. CASE Len(steps) > 0
    <3>1. Ladder \in Seq(RequestRow) /\ Len(steps) \in 1 .. Len(Ladder)
        BY <1>2, <2>2, CaptureAssumption DEF CaptureInv, RequestRow
    <3>2. Ladder[Len(steps)] \in RequestRow
        BY <3>1, ElementOfSeq
    <3>3. Actual(camera, Ladder[Len(steps)]) \in Int
        BY <2>1, <3>2, AnswersAreNumbers DEF RequestRow
    <3>4. Len(steps) \in Nat /\ (Len(steps) + 1) - 1 = Len(steps)
        BY DEF CaptureInv
    <3> QED
        BY <2>1, <3>3, <3>4 DEF HeightBefore
  <2> QED
      BY <2>1, <2>2 DEF HeightBefore, CaptureInv
<1>6. actual \in Int
    BY <1>1, <1>4, <1>5 DEF Seen, Null
<1>7. row \in StepRow
    BY <1>3, <1>4, <1>6 DEF StepRow, Null
<1>8. Reported(camera, row) = Reported(camera, request)
  <2>1. row.kind = request.kind /\ row.value = request.value
      OBVIOUS
  <2> HIDE DEF row, request
  <2> QED
      BY <2>1 DEF Reported
<1>9. Witnessed(row)
  <2>1. row.reported = reported
      OBVIOUS
  <2> HIDE DEF row
  <2> QED
      BY <1>8, <2>1 DEF Witnessed
<1>10. steps' = Append(steps, row)
    BY <1>1
<1> HIDE DEF row
<1>11. steps' \in Seq(StepRow)
    BY <1>7, <1>10 DEF CaptureInv
<1>12. ASSUME NEW i \in DOMAIN steps' PROVE Witnessed(steps'[i])
    BY <1>9, <1>10 DEF CaptureInv
<1>13. \A i \in DOMAIN steps' : Witnessed(steps[i])'
  <2> SUFFICES ASSUME NEW i \in DOMAIN steps' PROVE Witnessed(steps[i])'
      OBVIOUS
  <2>1. Witnessed(steps'[i])
      BY <1>12
  <2> QED
      BY <1>2, <2>1 DEF Witnessed
<1> QED
    BY <1>2, <1>11, <1>13 DEF CaptureInv

LEMMA CaptureStepHolds == CaptureInv /\ [CaptureNext]_capture => CaptureInv'
<1> SUFFICES ASSUME CaptureInv, [CaptureNext]_capture PROVE CaptureInv'
    OBVIOUS
<1>1. CASE ProbeStep
    BY <1>1, ProbeHolds
<1>2. CASE Analyse
    BY <1>2 DEF Analyse, CaptureInv, Witnessed, Reported
<1>3. CASE UNCHANGED capture
    BY <1>3 DEF capture, CaptureInv, Witnessed, Reported
<1> QED
    BY <1>1, <1>2, <1>3 DEF CaptureNext

LEMMA SuspicionIsFounded == CaptureInv => OnlyClaimsAreSuspected
<1> SUFFICES ASSUME CaptureInv PROVE OnlyClaimsAreSuspected
    OBVIOUS
<1>1. ASSUME path = "suspected" PROVE camera.kind = "accepting" \/ Contradicted
  <2>1. ~(RuleScore(steps) < ScoreThresh)
      BY <1>1 DEF CaptureInv, AnalyseCapturePath
  <2> QED
      BY <2>1, HonestScore
<1>2. ASSUME path = "live", ClaimsHeight(steps), ClaimsFps(steps) PROVE FALSE
  <2>1. steps # <<>> /\ RuleScore(steps) < ScoreThresh
      BY <1>2 DEF CaptureInv, AnalyseCapturePath
  <2>2. RuleScore(steps) \in Int
      BY DEF RuleScore
  <2> QED
      BY <1>2, <2>1, <2>2, ClaimsScore DEF ScoreThresh
<1> QED
    BY <1>1, <1>2 DEF OnlyClaimsAreSuspected

\* Whatever the ladder, the cameras and the answers the browser loses: nobody
\* is suspected but a camera that claims more than it delivers and one whose
\* picture did not keep up, and one that makes both impossible claims is
\* (capture_path.py:154-192, 225-261).
THEOREM SuspicionsAreFounded == CaptureSpec => []OnlyClaimsAreSuspected
BY CaptureInitHolds, CaptureStepHolds, SuspicionIsFounded, PTL DEF CaptureSpec

----------------------------------------------------------------------------
(* The camera of a page.                                                   *)

WebcamTypes ==
    /\ genRef \in Nat /\ streamRef \in StartCall \cup {NoStream}
    /\ startingRef \in StartCall \cup {NoStream}
    /\ ready \in BOOLEAN /\ element \in BOOLEAN /\ wanted \in BOOLEAN /\ crossed \in BOOLEAN
    /\ running \subseteq StartCall /\ lost \subseteq StartCall
    /\ pending \in [StartCall -> [at : {"ended", "replay", "permission", "play"}, gen : Nat]]

\* What a start that no stop has overtaken relies on while it waits.
Relies(c) ==
    /\ wanted
    /\ At(c, "permission") => startingRef = c /\ streamRef \in {NoStream} \cup lost
    /\ At(c, "play") => startingRef = c /\ streamRef = c
    /\ At(c, "replay") => streamRef # NoStream \/ lost # {}

NoneAhead == \A c \in StartCall : pending[c].gen <= genRef
AllRely == \A c \in StartCall : ~At(c, "ended") /\ Current(c) => Relies(c)

WebcamInv == WebcamTypes /\ CameraIsReleased /\ NoneAhead /\ AllRely

USE DEF Relies, At, Current, Goes, Ends, Ended, Settles

LEMMA WebcamInitHolds == WebcamInit => WebcamInv
<1> SUFFICES ASSUME WebcamInit PROVE WebcamInv
    OBVIOUS
<1>1. WebcamTypes
  <2>1. pending \in [StartCall -> [at : {"ended", "replay", "permission", "play"}, gen : Nat]]
      BY DEF WebcamInit
  <2> QED
      BY <2>1 DEF WebcamInit, WebcamTypes
<1>2. CameraIsReleased
    BY DEF WebcamInit, CameraIsReleased
<1>3. NoneAhead /\ AllRely
    BY DEF WebcamInit, NoneAhead, AllRely
<1> QED
    BY <1>1, <1>2, <1>3 DEF WebcamInv

LEMMA WebcamStepHolds == WebcamInv /\ [WebcamNext]_webcam => WebcamInv'
<1> SUFFICES ASSUME WebcamInv, [WebcamNext]_webcam PROVE WebcamInv'
    OBVIOUS
<1> USE WebcamAssumption DEF WebcamInv, WebcamTypes, CameraIsReleased, NoneAhead, AllRely
<1>1. CASE CameraStop
  <2>1. WebcamTypes'
    <3>1. genRef' \in Nat /\ running' \subseteq StartCall /\ lost' \subseteq StartCall
        BY <1>1 DEF CameraStop
    <3>2. pending' \in [StartCall -> [at : {"ended", "replay", "permission", "play"}, gen : Nat]]
        BY <1>1 DEF CameraStop
    <3> QED
        BY <1>1, <3>1, <3>2 DEF CameraStop
  <2>2. CameraIsReleased'
      BY <1>1 DEF CameraStop
  <2>3. NoneAhead'
      BY <1>1 DEF CameraStop
  <2>4. AllRely'
      BY <1>1 DEF CameraStop
  <2> QED
      BY <2>1, <2>2, <2>3, <2>4
<1>2. CASE ElementToggles
  <2>1. WebcamTypes'
      BY <1>2 DEF ElementToggles
  <2>2. CameraIsReleased'
      BY <1>2 DEF ElementToggles
  <2>3. NoneAhead'
      BY <1>2 DEF ElementToggles
  <2>4. AllRely'
      BY <1>2 DEF ElementToggles
  <2> QED
      BY <2>1, <2>2, <2>3, <2>4
<1>3. ASSUME NEW c \in StartCall, CameraStart(c) PROVE WebcamInv'
  <2>1. WebcamTypes'
      BY <1>3 DEF CameraStart
  <2>2. CameraIsReleased'
      BY <1>3 DEF CameraStart
  <2>3. NoneAhead'
      BY <1>3 DEF CameraStart
  <2>4. AllRely'
      BY <1>3 DEF CameraStart
  <2> QED
      BY <2>1, <2>2, <2>3, <2>4
<1>4. ASSUME NEW c \in StartCall, Granted(c) PROVE WebcamInv'
  <2>1. WebcamTypes'
      BY <1>4 DEF Granted
  <2>2. CameraIsReleased'
      BY <1>4 DEF Granted
  <2>3. NoneAhead'
      BY <1>4 DEF Granted
  <2>4. AllRely'
      BY <1>4 DEF Granted
  <2> QED
      BY <2>1, <2>2, <2>3, <2>4
<1>5. ASSUME NEW c \in StartCall, Failed(c) PROVE WebcamInv'
  <2>1. WebcamTypes'
      BY <1>5 DEF Failed
  <2>2. CameraIsReleased'
      BY <1>5 DEF Failed
  <2>3. NoneAhead'
      BY <1>5 DEF Failed
  <2>4. AllRely'
      BY <1>5 DEF Failed
  <2> QED
      BY <2>1, <2>2, <2>3, <2>4
<1>6. ASSUME NEW c \in StartCall, Played(c) PROVE WebcamInv'
  <2>1. WebcamTypes'
      BY <1>6 DEF Played
  <2>2. CameraIsReleased'
      BY <1>6 DEF Played
  <2>3. NoneAhead'
      BY <1>6 DEF Played
  <2>4. AllRely'
      BY <1>6 DEF Played
  <2> QED
      BY <2>1, <2>2, <2>3, <2>4
<1>7. ASSUME NEW c \in StartCall, Replayed(c) PROVE WebcamInv'
  <2>1. WebcamTypes'
      BY <1>7 DEF Replayed
  <2>2. CameraIsReleased'
      BY <1>7 DEF Replayed
  <2>3. NoneAhead'
      BY <1>7 DEF Replayed
  <2>4. AllRely'
      BY <1>7 DEF Replayed
  <2> QED
      BY <2>1, <2>2, <2>3, <2>4
<1>8. CASE UNCHANGED webcam
    BY <1>8 DEF webcam
<1> QED
    BY <1>1, <1>2, <1>3, <1>4, <1>5, <1>6, <1>7, <1>8 DEF WebcamNext

\* After a stop no camera runs and no page is ready that does not ask again,
\* and at most one stream runs, but for the two exceptions CameraIsReleased
\* names: whatever the browser answers, in any order, to however many starts
\* (useWebcam.ts:17-87).
THEOREM CameraIsReleasedCorrect == WebcamSpec => []CameraIsReleased
<1>1. WebcamInv => CameraIsReleased
    BY DEF WebcamInv
<1> QED
    BY <1>1, WebcamInitHolds, WebcamStepHolds, PTL DEF WebcamSpec
==============================================================================
