---------------------------- MODULE RateLimiter ----------------------------
(***************************************************************************)
(* SlidingWindowLimiter of backend/app/core/rate_limit.py for one key.     *)
(* Login calls check from worker threads, so a call is cut where another   *)
(* can run: after it has read the clock, and between reading the stamps    *)
(* and putting its own list in their place.  check_in calls it on the      *)
(* event loop, where the three steps are one: a behaviour of one caller.   *)
(***************************************************************************)
EXTENDS Integers, Sequences, FiniteSets

CONSTANTS
    Caller,         \* threads
    MaxHits,        \* max_calls
    Window,         \* window_s
    MaxTime,        \* bound on the clock
    MaxLet          \* bound on the calls let through before another comes

ASSUME LimiterAssumption ==
    /\ MaxHits \in Nat \ {0} /\ Window \in Nat \ {0} /\ {MaxTime, MaxLet} \subseteq Nat

VARIABLES
    clock,      \* time.monotonic()
    admitted,   \* stamps of the calls let through, as a history
    hits,       \* _hits[key] as it was last put there: which of them it lists
    call,       \* what each thread has read
    overlapped  \* a call was let through on a clock or a list gone stale

limiter == <<clock, admitted, hits, call, overlapped>>

NoCall == [at |-> "out"]

LimiterInit ==
    /\ clock = 0 /\ hits = {} /\ admitted = <<>>
    /\ call = [c \in Caller |-> NoCall]
    /\ overlapped = FALSE

ClockTicks ==
    /\ clock < MaxTime
    /\ clock' = clock + 1
    /\ UNCHANGED <<hits, call, admitted, overlapped>>

\* now = time.monotonic()
CallArrives(c) ==
    /\ call[c] = NoCall /\ Len(admitted) < MaxLet
    /\ call' = [call EXCEPT ![c] = [at |-> "in", now |-> clock, stale |-> FALSE]]
    /\ UNCHANGED <<clock, hits, admitted, overlapped>>

\* Faulty: only stamps of the very last moments count.
RecentTooShort(now) == {i \in hits : now - admitted[i] < Window - 1}

\* A stamp exactly window_s old counts no more; one read after now counts.
Recent(now) == {i \in hits : now - admitted[i] < Window}

\* A refused call leaves no stamp.
CallLooks(c) ==
    /\ call[c].at = "in"
    /\ LET recent == Recent(call[c].now)
       IN call' = [call EXCEPT ![c] =
                     IF Cardinality(recent) >= MaxHits THEN NoCall
                     ELSE [at |-> "store", now |-> @.now, stale |-> @.stale, recent |-> recent]]
    /\ UNCHANGED <<clock, hits, admitted, overlapped>>

CallStores(c) ==
    /\ call[c].at = "store"
    /\ hits' = call[c].recent \cup {Len(admitted) + 1}
    /\ admitted' = Append(admitted, call[c].now)
    /\ overlapped' = (overlapped \/ call[c].stale)
    /\ call' = [d \in Caller |->
                  IF d = c \/ call[d] = NoCall THEN NoCall ELSE [call[d] EXCEPT !.stale = TRUE]]
    /\ UNCHANGED clock

LimiterNext == ClockTicks \/ \E c \in Caller : CallArrives(c) \/ CallLooks(c) \/ CallStores(c)

LimiterSpec == LimiterInit /\ [][LimiterNext]_limiter

----------------------------------------------------------------------------
(* Properties.                                                             *)

\* The calls let through whose stamps lie in the window that ends with s,
\* its beginning excluded
InWindow(s) == {i \in DOMAIN admitted : s - Window < admitted[i] /\ admitted[i] <= s}

\* Unless a call was overtaken by another, no window of window_s holds more
\* than max_calls calls let through.  Two threads can break it in two ways:
\* the list stored last wipes out the other's stamps, and a call that read
\* the clock early no longer sees stamps that a later one has dropped.
WindowBound ==
    ~overlapped => \A i \in DOMAIN admitted : Cardinality(InWindow(admitted[i])) <= MaxHits
============================================================================
