----------------------------- MODULE CapturePath -----------------------------
(***************************************************************************)
(* backend/app/liveness/capture_path.py: the browser asks the camera for   *)
(* heights and frame rates (frontend/src/lib/captureProbe.ts), and the     *)
(* server scores how it reacted.  Scores are in hundredths, times in       *)
(* milliseconds.  One behaviour walks the ladder, as far as the browser    *)
(* gets, with some readings missing or taken of a picture that lags behind *)
(* or stands still, and has the report scored.                             *)
(*                                                                         *)
(* Left out: the features no rule reads, which a trained model would (that *)
(* a constraint was refused is one), and that model (there is none until   *)
(* scripts/collect_capture_sessions.py has fitted one).                    *)
(***************************************************************************)
EXTENDS Integers, Sequences, FiniteSets, SequencesExt

CONSTANTS
    Camera,     \* [kind, height, fps], see Reported and Actual
    Ladder,     \* the requests, [kind |-> "height" or "fps", value]
    Responses   \* times a step may take

\* The rules take for granted that no real camera has 3001 rows or reaches
\* 100 frames a second.
ASSUME CaptureAssumption ==
    /\ Camera \subseteq [kind : {"clamping", "locked", "accepting"}, height : Nat, fps : Nat]
    /\ \A c \in Camera : c.kind # "accepting" => c.height <= 3000 /\ c.fps < 100
    /\ Ladder \in Seq([kind : {"height", "fps"}, value : Nat])

VARIABLES
    camera,
    steps,      \* the report: request, reported, actual and response_ms
    path        \* "probing", then "none", "live" or "suspected"

capture == <<camera, steps, path>>

Null == -1
OvershootHeight == 3001
OvershootFps == 200
HighFps == 100          \* no camera is expected to report as much
ScoreThresh == 50       \* vcd_score_thresh

\* What track.getSettings() says of a request: a "clamping" camera goes as
\* far as it can, a "locked" one stays as it is, an "accepting" one claims
\* to do everything.
Reported(c, request) ==
    LET limit == c[request.kind]
    IN CASE c.kind = "clamping" -> IF request.value < limit THEN request.value ELSE limit
         [] c.kind = "locked" -> limit
         [] c.kind = "accepting" -> request.value

\* What the camera delivers.
Actual(c, request) ==
    IF c.kind = "accepting" THEN c[request.kind] ELSE Reported(c, request)

\* The picture before step n: that of the last height asked for
HeightBefore(c, n) ==
    IF n > 1 /\ Ladder[n - 1].kind = "height" THEN Actual(c, Ladder[n - 1]) ELSE c.height

\* What is read off the video element 60 ms after step n is applied:
\* videoHeight, which may be that of the old picture, or the frames that
\* measureFps counts, none if the video stands still.  Either may be missing.
Seen(c, n) ==
    {Actual(c, Ladder[n]), Null,
     IF Ladder[n].kind = "height" THEN HeightBefore(c, n) ELSE 0}

----------------------------------------------------------------------------
(* extract_features and _rule_score.                                       *)

\* The steps of a kind, as positions in the report
StepsOf(kind, s) == {i \in DOMAIN s : s[i].kind = kind}

ReportedIn(kind, s) == {s[i].reported : i \in StepsOf(kind, s)} \ {Null}

\* Faulty: a missing reading counts as one that differs.
ComparableWithMissing(kind, s) == StepsOf(kind, s)

\* Steps with both readings
Comparable(kind, s) == {i \in StepsOf(kind, s) : s[i].reported # Null /\ s[i].actual # Null}

Mismatched(kind, s) == {i \in Comparable(kind, s) : s[i].reported # s[i].actual}

Gap(step) == IF step.reported > step.actual THEN step.reported - step.actual
             ELSE step.actual - step.reported

\* Frames per second that separate the readings, one element for each: their
\* number is the sum of the gaps.
Gaps(s) == UNION {{i} \X (1 .. Gap(s[i])) : i \in Comparable("fps", s)}

\* Coefficient of variation below 0.12: sample variance over squared mean
Uniform(s) ==
    LET n == Len(s)
        sum == FoldLeft(LAMBDA a, step : a + step.response, 0, s)
        squares == FoldLeft(LAMBDA a, step : a + step.response * step.response, 0, s)
    IN /\ n >= 2 /\ sum > 0
       /\ 10000 * n * (n * squares - sum * sum) < 144 * (n - 1) * sum * sum

\* The first step that asked for "asked" reports at least "least".
Claims(kind, asked, least, s) ==
    \E i \in StepsOf(kind, s) :
        /\ s[i].value = asked /\ s[i].reported >= least
        /\ \A j \in StepsOf(kind, s) : j < i => s[j].value # asked

ClaimsHeight(s) == Claims("height", OvershootHeight, OvershootHeight, s)
ClaimsFps(s) == Claims("fps", OvershootFps, HighFps, s)
NeverChanges(kind, s) == Cardinality(ReportedIn(kind, s)) = 1
HeightsDiffer(s) ==
    LET both == Comparable("height", s)
    IN both # {} /\ 2 * Cardinality(Mismatched("height", s)) >= Cardinality(both)
RatesDiffer(s) ==
    LET both == Comparable("fps", s)
    IN both # {} /\ Cardinality(Gaps(s)) >= 25 * Cardinality(both)

RuleScore(s) ==
    LET Weigh(cue, weight) == IF cue THEN weight ELSE 0
        score == Weigh(ClaimsHeight(s), 34) + Weigh(ClaimsFps(s), 26)
                 + Weigh(NeverChanges("height", s) /\ Len(s) >= 4, 20)
                 + Weigh(NeverChanges("fps", s) /\ Len(s) >= 4, 12)
                 + Weigh(Uniform(s), 16) + Weigh(HeightsDiffer(s), 14)
                 + Weigh(RatesDiffer(s), 10)
    IN IF score > 100 THEN 100 ELSE score

\* analyse_capture_path
AnalyseCapturePath(s) ==
    IF s = <<>> THEN "none" ELSE IF RuleScore(s) < ScoreThresh THEN "live" ELSE "suspected"

----------------------------------------------------------------------------

\* probeStep; either reading may be missing
ProbeStep ==
    /\ path = "probing" /\ Len(steps) < Len(Ladder)
    /\ LET request == Ladder[Len(steps) + 1] IN
       \E reported \in {Reported(camera, request), Null},
          actual \in Seen(camera, Len(steps) + 1),
          response \in Responses :
         steps' = Append(steps, [kind |-> request.kind, value |-> request.value,
                                 reported |-> reported, actual |-> actual,
                                 response |-> response])
    /\ UNCHANGED <<camera, path>>

\* The ladder may break off: the report then holds the steps there were.
Analyse ==
    /\ path = "probing"
    /\ path' = AnalyseCapturePath(steps)
    /\ UNCHANGED <<camera, steps>>

CaptureInit == camera \in Camera /\ steps = <<>> /\ path = "probing"
CaptureNext == ProbeStep \/ Analyse
CaptureSpec == CaptureInit /\ [][CaptureNext]_capture

----------------------------------------------------------------------------
(* Properties.                                                             *)

\* The report holds a step whose two readings differ.
Contradicted ==
    \E i \in DOMAIN steps : steps[i].reported # Null
                          /\ steps[i].actual \notin {steps[i].reported, Null}

\* A camera that does what it says is not suspected as long as the picture
\* keeps up, even one that knows a single mode and takes the same time for
\* every request, whatever readings the browser lacks and wherever its
\* ladder breaks off; one that claims the impossible height and the
\* impossible rate always is (capture_path.py:9, 182; captureProbe.ts:177).
\* It hangs on CaptureAssumption: a real camera locked at 100 frames a second
\* or more has 74 points, and is suspected.
OnlyClaimsAreSuspected ==
    /\ path = "suspected" => camera.kind = "accepting" \/ Contradicted
    /\ path = "live" => ~(ClaimsHeight(steps) /\ ClaimsFps(steps))
==============================================================================
