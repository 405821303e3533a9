--------------------------- MODULE PresenceTrust ---------------------------
(***************************************************************************)
(* backend/app/risk/fusion.py: what a saved punch scores.  Confidences are *)
(* counted in twentieths, weights in twentieths of their sum; the          *)
(* logarithm is a table, in thousandths.  Defaults of core/config.py; no   *)
(* calibrator is fitted, so the raw score is the trust.                    *)
(***************************************************************************)
EXTENDS Integers, Sequences, FiniteSets, FiniteSetsExt

Signals == {"face", "pad", "vcd", "behaviour"}

Weight == [face |-> 6, pad |-> 5, vcd |-> 5, behaviour |-> 4]

TrustThresh == 10       \* trust_thresh 0.5
SignalFloor == 5        \* trust_signal_floor 0.25

Confidence == 0 .. 20

\* math.log of a confidence, zero taken for 0.0001
Log == [c \in Confidence |->
          <<-9210, -2996, -2303, -1897, -1609, -1386, -1204, -1050, -916, -799, -693,
            -598, -511, -431, -357, -288, -223, -163, -105, -51, 0>>[c + 1]]

\* The logistic around identify_threshold 0.5, for similarities in hundredths;
\* a step function with its values at 0.65 and 0.52, and at 0.30 for those
\* that do not match.
FaceConfidence(similarity) ==
    CASE similarity >= 65 -> 17 [] similarity \in 50 .. 64 -> 11 [] OTHER -> 1

\* The signals of a punch, the missing ones left out of the domain.
Heard(signals) == [s \in {s \in DOMAIN signals : signals[s] \in Confidence} |-> signals[s]]

Term(present, s, value) == IF s \in DOMAIN present THEN value ELSE 0

TotalWeight(present) ==
    Term(present, "face", Weight.face) + Term(present, "pad", Weight.pad)
    + Term(present, "vcd", Weight.vcd) + Term(present, "behaviour", Weight.behaviour)

WeightedLog(present) ==
    Term(present, "face", Weight.face * Log[present.face])
    + Term(present, "pad", Weight.pad * Log[present.pad])
    + Term(present, "vcd", Weight.vcd * Log[present.vcd])
    + Term(present, "behaviour", Weight.behaviour * Log[present.behaviour])

\* The geometric mean of what is present, renormalised, against the threshold
Trusted(present) == WeightedLog(present) >= TotalWeight(present) * Log[TrustThresh]

Vetoes(present) == {s \in DOMAIN present : present[s] < SignalFloor}

\* presence_trust
PresenceTrust(signals) ==
    LET present == Heard(signals)
    IN IF DOMAIN present = {} THEN "unknown"
       ELSE IF Trusted(present) /\ Vetoes(present) = {} THEN "accept" ELSE "review"
============================================================================
