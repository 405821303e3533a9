-------------------------------- MODULE Blink --------------------------------
(***************************************************************************)
(* backend/app/liveness/blink.py: does a sequence of eye openness values   *)
(* hold a blink?  Values are in hundredths, 0 stands for a frame without a *)
(* face.  One behaviour films a clip of hold and action frames and then    *)
(* judges it.                                                              *)
(***************************************************************************)
EXTENDS Integers, Sequences, FiniteSets, FiniteSetsExt

CONSTANTS
    Openness,   \* values a frame may have
    MaxFrames   \* bound on each part of the clip

ASSUME BlinkAssumption == Openness \subseteq Nat /\ MaxFrames \in Nat

VARIABLES
    hold, action,   \* frames before and after the prompt
    verdict         \* "filming", "blink" or "no blink", and "early" for a
                    \* blink outside the action frames

clip == <<hold, action, verdict>>

ClosedThresh == 21      \* ear_closed_thresh
OpenThresh == 28        \* ear_open_thresh

NoFace == 0

\* Frames with a face, and what the eyes do in them
Frames(ears) == {i \in DOMAIN ears : ears[i] # NoFace}
Values(ears) == {ears[i] : i \in Frames(ears)}

Least(ears) == Min(Values(ears))
Most(ears) == Max(Values(ears))

\* Faulty: closed eyes count before open ones were seen.
TransitionUnopened(ears, scale, closed, open) ==
    \E j, k \in Frames(ears) : j < k /\ scale * ears[j] <= closed /\ scale * ears[k] >= open

\* _transition: open, then closed, then open; thresholds are scaled
Transition(ears, scale, closed, open) ==
    \E i, j, k \in Frames(ears) :
        /\ i < j /\ j < k
        /\ scale * ears[i] >= open /\ scale * ears[k] >= open
        /\ scale * ears[j] <= closed /\ scale * ears[j] < open

\* The n-th smallest value
Ranked(ears, n) == Min({x \in Values(ears) : Cardinality({i \in Frames(ears) : ears[i] <= x}) >= n})

\* np.percentile(values, 75), times four
Percentile75(ears) ==
    LET at == 3 * (Cardinality(Frames(ears)) - 1)
        below == Ranked(ears, at \div 4 + 1)
    IN IF at % 4 = 0 THEN 4 * below
       ELSE 4 * below + (at % 4) * (Ranked(ears, at \div 4 + 2) - below)

\* _has_valley: a drop of 8 percent below the baseline, from which both
\* sides recover by 45 percent of it
HasValley(ears) ==
    LET baseline == Percentile75(ears)
        trough == Least(ears)
        i == Min({j \in Frames(ears) : ears[j] = trough})
        Recovers(j) == 400 * ears[j] >= 400 * trough + 45 * (baseline - 4 * trough)
    IN /\ Cardinality(Frames(ears)) >= 4
       /\ baseline > 0 /\ 100 * (baseline - 4 * trough) >= 8 * baseline
       /\ \E j \in Frames(ears) : j < i /\ Recovers(j)
       /\ \E j \in Frames(ears) : j > i /\ Recovers(j)

\* blink_from_ears: the settings' thresholds, then thresholds relative to
\* the range if it is at least a tenth of its top, then a valley
BlinkFromEars(ears) ==
    LET most == Most(ears)
        least == Least(ears)
    IN /\ Cardinality(Frames(ears)) >= 3
       /\ \/ Transition(ears, 1, ClosedThresh, OpenThresh)
          \/ /\ 10 * (most - least) >= most
             /\ Transition(ears, 100, 100 * least + 35 * (most - least), 100 * least + 65 * (most - least))
          \/ HasValley(ears)

\* timed_blink
TimedBlink ==
    IF BlinkFromEars(action) THEN "blink"
    ELSE IF BlinkFromEars(hold) \/ BlinkFromEars(hold \o action) THEN "early" ELSE "no blink"

Film ==
    /\ verdict = "filming"
    /\ \E e \in Openness \cup {NoFace} :
         \/ action = <<>> /\ Len(hold) < MaxFrames /\ hold' = Append(hold, e) /\ UNCHANGED action
         \/ Len(action) < MaxFrames /\ action' = Append(action, e) /\ UNCHANGED hold
    /\ UNCHANGED verdict

Judge ==
    /\ verdict = "filming"
    /\ verdict' = TimedBlink
    /\ UNCHANGED <<hold, action>>

BlinkInit == hold = <<>> /\ action = <<>> /\ verdict = "filming"
BlinkNext == Film \/ Judge
BlinkSpec == BlinkInit /\ [][BlinkNext]_clip

----------------------------------------------------------------------------
(* Properties.                                                             *)

\* The eyes are more closed in j than in m, by seven hundredths or by three
\* percent of the upper quartile of all frames.
Dips(ears, j, m) ==
    /\ ears[j] < ears[m]
    /\ \/ ears[m] - ears[j] >= OpenThresh - ClosedThresh
       \/ 400 * (ears[m] - ears[j]) >= 3 * Percentile75(ears)

\* A blink is a dip in the frames it was found in: whichever of the three
\* tests finds it, the eyes are more closed in some frame than in an earlier
\* and in a later one.  A still photo, or eyes that only open or only close,
\* never blink (blink.py:1, 92).
BlinkIsADip ==
    verdict \in {"blink", "early"} =>
        \E ears \in IF verdict = "blink" THEN {action} ELSE {hold, hold \o action} :
        \E i, j, k \in Frames(ears) : i < j /\ j < k /\ Dips(ears, j, i) /\ Dips(ears, j, k)
==============================================================================
