------------------------------- MODULE Webcam -------------------------------
(***************************************************************************)
(* frontend/src/hooks/useWebcam.ts: the camera of a page.  start and stop  *)
(* are called by buttons, effects and the end of the page; start waits for *)
(* the browser's permission and for the video element to play, and a       *)
(* generation tells it whether stop was called meanwhile.                  *)
(*                                                                         *)
(* A stream has the name of the call of start that opened it.  The pages   *)
(* call start while they are not ready only; Attendance.tsx renders no     *)
(* video element for somebody who is present.  Left out: the error's text, *)
(* capture and the probe, which keep no state.                             *)
(***************************************************************************)
EXTENDS Integers

CONSTANTS
    StartCall,    \* calls of start under way at a time
    NoStream,     \* null
    MaxGen        \* bound on the calls of stop

ASSUME WebcamAssumption == NoStream \notin StartCall /\ MaxGen \in Nat

VARIABLES
    genRef, streamRef, startingRef, ready,
    element,    \* videoRef.current is set
    running,    \* streams whose tracks have not been stopped
    pending,    \* where each call of start waits, and its generation
    wanted,     \* history: start was called after the last stop
    crossed,    \* history: stop came while a start waited for the stream there was
    lost        \* history: streams that a start found, but no element to show them

webcam == <<genRef, streamRef, startingRef, ready, element, running, pending, wanted, crossed, lost>>

Ended == [at |-> "ended", gen |-> 0]
At(c, place) == pending[c].at = place
Goes(c, place) == pending' = [pending EXCEPT ![c] = [at |-> place, gen |-> genRef]]
Ends(c) == pending' = [pending EXCEPT ![c] = Ended]

\* Faulty: nobody looks at the generation.
AlwaysCurrent(c) == TRUE

\* gen === genRef.current
Current(c) == pending[c].gen = genRef

\* What finally does
Settles(c) == startingRef' = IF Current(c) THEN NoStream ELSE startingRef

\* start, up to its first await; a call that joins another one only waits.
CameraStart(c) ==
    /\ At(c, "ended") /\ c \notin running
    /\ ~ready
    /\ wanted' = TRUE
    /\ lost' = IF element THEN lost ELSE lost \cup ({streamRef} \ {NoStream})
    /\ IF streamRef # NoStream /\ element
       THEN Goes(c, "replay") /\ UNCHANGED startingRef
       ELSE startingRef = NoStream /\ Goes(c, "permission") /\ startingRef' = c
    /\ UNCHANGED <<genRef, streamRef, ready, element, running, crossed>>

\* getUserMedia has a stream.
Granted(c) ==
    /\ At(c, "permission")
    /\ IF Current(c) /\ element
       THEN /\ streamRef' = c /\ running' = running \cup {c}
            /\ pending' = [pending EXCEPT ![c].at = "play"]
            /\ UNCHANGED startingRef
       ELSE /\ streamRef' = IF Current(c) THEN NoStream ELSE streamRef
            /\ Settles(c) /\ Ends(c)
            /\ UNCHANGED running
    /\ UNCHANGED <<genRef, ready, element, wanted, crossed, lost>>

\* getUserMedia or play throws; an abort of getUserMedia leaves ready alone.
Failed(c) ==
    /\ \/ At(c, "permission") /\ ready' \in {ready, ready /\ ~Current(c)}
       \/ At(c, "play") /\ ready' = (ready /\ ~Current(c))
    /\ Settles(c) /\ Ends(c)
    /\ UNCHANGED <<genRef, streamRef, element, running, wanted, crossed, lost>>

\* play has begun, or was interrupted by another load.
Played(c) ==
    /\ At(c, "play")
    /\ ready' = (ready \/ Current(c))
    /\ Settles(c) /\ Ends(c)
    /\ UNCHANGED <<genRef, streamRef, element, running, wanted, crossed, lost>>

\* The same on the stream there was, whatever has become of it, and also if
\* play throws.
Replayed(c) ==
    /\ At(c, "replay")
    /\ ready' = TRUE
    /\ crossed' = (crossed \/ ~Current(c))
    /\ Ends(c)
    /\ UNCHANGED <<genRef, streamRef, startingRef, element, running, wanted, lost>>

CameraStop ==
    /\ genRef < MaxGen
    /\ genRef' = genRef + 1
    /\ running' = running \ {streamRef}
    /\ streamRef' = NoStream /\ startingRef' = NoStream
    /\ ready' = FALSE /\ wanted' = FALSE /\ crossed' = FALSE
    /\ UNCHANGED <<element, pending, lost>>

\* The page shows or hides the video element.
ElementToggles ==
    /\ element' = ~element
    /\ UNCHANGED <<genRef, streamRef, startingRef, ready, running, pending, wanted, crossed, lost>>

WebcamInit ==
    /\ genRef = 0 /\ streamRef = NoStream /\ startingRef = NoStream
    /\ ready = FALSE /\ element = FALSE /\ running = {}
    /\ wanted = FALSE /\ crossed = FALSE /\ lost = {}
    /\ pending = [c \in StartCall |-> Ended]

WebcamNext ==
    \/ CameraStop \/ ElementToggles
    \/ \E c \in StartCall : CameraStart(c) \/ Granted(c) \/ Failed(c) \/ Played(c) \/ Replayed(c)

WebcamSpec == WebcamInit /\ [][WebcamNext]_webcam

----------------------------------------------------------------------------
(* Properties.                                                             *)

\* However starts and stops cross: after a stop no camera runs and the page
\* is not ready, until it asks again; never more than one runs; a start that
\* others wait for can still end their wait; and a page that is ready has a
\* stream.  Two exceptions: a stream that start found when the page did not
\* show the video element, which it overwrites (Attendance.tsx:188) and on
\* which another start may still be waiting, and a stop while a start waits
\* for the stream there was (useWebcam.ts:34).
CameraIsReleased ==
    /\ ~wanted => running \subseteq lost /\ (ready => crossed)
    /\ running \subseteq {streamRef} \cup lost
    /\ startingRef # NoStream =>
         Current(startingRef) /\ (At(startingRef, "permission") \/ At(startingRef, "play"))
    /\ ready => streamRef # NoStream \/ crossed \/ lost # {}
=============================================================================
