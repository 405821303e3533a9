--------------------------------- MODULE Roc ---------------------------------
(***************************************************************************)
(* backend/app/eval/metrics.py: the curve and the operating points that    *)
(* thresholds are taken from.  Scores are ranks on the cosine scale; rates *)
(* are counts over the number of genuine or impostor pairs, compared by    *)
(* cross products.  One behaviour evaluates one set of pairs.              *)
(***************************************************************************)
EXTENDS Integers, Sequences, FiniteSets, FiniteSetsExt

CONSTANTS
    Scores,     \* ranks of the scores
    MaxPairs,   \* bound on the pairs
    FarTargets  \* FAR targets, as <<numerator, denominator>>

ASSUME RocAssumption ==
    /\ Scores \subseteq Nat /\ MaxPairs \in Nat
    /\ FarTargets \subseteq Nat \X (Nat \ {0})

VARIABLES
    pairs,      \* the pairs as argsort leaves them, highest score first; ties
                \* are in any order
    point       \* operating points found so far, by target

evaluation == <<pairs, point>>

Pair == [score : Scores, genuine : BOOLEAN]
Genuine(s) == {i \in DOMAIN s : s[i].genuine}
Impostor(s) == {i \in DOMAIN s : ~s[i].genuine}

\* What roc_curve takes: both kinds of pairs
Sorted ==
    {s \in UNION {[1 .. n -> Pair] : n \in 2 .. MaxPairs} :
        /\ \A i, j \in DOMAIN s : i < j => s[i].score >= s[j].score
        /\ Genuine(s) # {} /\ Impostor(s) # {}}

\* The indices np.unique keeps: the first of each run of equal scores
Keep(s) == {i \in DOMAIN s : \A j \in 1 .. i - 1 : s[j].score # s[i].score}

\* Cumulative counts at an index: the rates of the curve's point
TruePositives(s, i) == Cardinality({j \in Genuine(s) : j <= i})
FalsePositives(s, i) == Cardinality({j \in Impostor(s) : j <= i})

\* Faulty: the rate is taken of all pairs.
FarWithinOfAll(s, i, target) == FalsePositives(s, i) * target[2] <= target[1] * Len(s)

FarWithin(s, i, target) ==
    FalsePositives(s, i) * target[2] <= target[1] * Cardinality(Impostor(s))

\* The first point with the most true positives of a set of points
Best(s, points) ==
    Min({i \in points : \A j \in points : TruePositives(s, j) <= TruePositives(s, i)})

\* tar_at_far: no point keeps the target, and it is the strictest one
TarAtFar(s, target) ==
    LET eligible == {i \in Keep(s) : FarWithin(s, i, target)}
    IN IF eligible = {}
       THEN Min({i \in Keep(s) : \A j \in Keep(s) : FalsePositives(s, i) <= FalsePositives(s, j)})
       ELSE Best(s, eligible)

RocInit == pairs \in Sorted /\ point = [t \in {} |-> 0]

Evaluate(target) ==
    /\ target \notin DOMAIN point
    /\ point' = [t \in DOMAIN point \cup {target} |->
                   IF t = target THEN TarAtFar(pairs, target) ELSE point[t]]
    /\ UNCHANGED pairs

RocNext == \E target \in FarTargets : Evaluate(target)

RocSpec == RocInit /\ [][RocNext]_evaluation

----------------------------------------------------------------------------
(* Properties.                                                             *)

\* What accuracy_at_threshold and the server do with a threshold: a pair is
\* accepted if its score reaches it.
Accepted(s, threshold) == {i \in DOMAIN s : s[i].score >= threshold}
TrueRate(s, i) == Cardinality(Accepted(s, s[i].score) \cap Genuine(s))
FalseRate(s, i) == Cardinality(Accepted(s, s[i].score) \cap Impostor(s))

Untied(s) == \A i, j \in DOMAIN s : i # j => s[i].score # s[j].score

\* The operating point reported for a target: a threshold in use lets at
\* least as many pairs of both kinds through as the curve says; if no two
\* pairs share a score it is exact, keeps the target if any threshold does,
\* and no threshold that keeps it accepts more genuine pairs.  With ties the
\* curve counts only the first of each run, so the impostors tied with it
\* are missing from the reported FAR (metrics.py:107).
OperatingPointIsExactButForTies ==
    \A target \in DOMAIN point :
        LET i == point[target]
            Keeps(j) == FalseRate(pairs, j) * target[2] <= target[1] * Cardinality(Impostor(pairs))
        IN /\ TruePositives(pairs, i) <= TrueRate(pairs, i)
           /\ FalsePositives(pairs, i) <= FalseRate(pairs, i)
           /\ Untied(pairs) =>
                /\ TruePositives(pairs, i) = TrueRate(pairs, i)
                /\ FalsePositives(pairs, i) = FalseRate(pairs, i)
                /\ \A j \in DOMAIN pairs :
                      Keeps(j) => Keeps(i) /\ TrueRate(pairs, j) <= TrueRate(pairs, i)
==============================================================================
