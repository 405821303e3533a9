-------------------------- MODULE AttendancePolicy --------------------------
(***************************************************************************)
(* The questions the punch handlers ask before they write:                 *)
(* backend/app/core/attendance_policy.py and clock.py.  Pure operators     *)
(* over the attendance table and the office clock; one organization.       *)
(*                                                                         *)
(* Time is a day number and a tick of that day in the office time zone     *)
(* (clock.today_local / now_local).  A row keeps the day and tick of its   *)
(* created_at; of checked_out_at only whether it is set.  Windows of       *)
(* occurrences are given as sets of moments.                               *)
(***************************************************************************)
EXTENDS Integers, Sequences

CONSTANTS
    Person,
    Occ,            \* occurrences (classes, shifts, appointments)
    NoOcc,          \* occurrence_id is None
    Kernel,         \* the organization's kernel
    DayTicks,       \* ticks of a day
    LateTick,       \* work_start + grace: later than this is late
    CloseTick,      \* work_end: before this is an early leave
    TrackLate, TrackEarly, AllowCheckout,  \* organization flags
    OpenAt,         \* OpenAt[o]: the moments at which o is open
    LateAt,         \* LateAt[o]: the moments past start + grace of o
    Rank,           \* sort key of open_occurrences: day, start, id
    Roster          \* Roster[o]: the people who may check in to o themselves

Daily == {"daily_presence", "daily_inout"}
Rostered == {"session", "shift"}
Kernels == Daily \cup Rostered \cup {"visit"}

Moment == [day : Nat, tick : 0 .. DayTicks - 1]

ASSUME PolicyAssumption ==
    /\ Kernel \in Kernels
    /\ NoOcc \notin Occ
    /\ DayTicks \in Nat \ {0}
    /\ LateTick \in Nat /\ CloseTick \in Nat
    /\ {TrackLate, TrackEarly, AllowCheckout} \subseteq BOOLEAN
    /\ OpenAt \in [Occ -> SUBSET Moment]
    /\ LateAt \in [Occ -> SUBSET Moment]
    /\ Rank \in [Occ -> Nat]
    /\ Roster \in [Occ -> SUBSET Person]

MaybeOcc == Occ \cup {NoOcc}

Decisions == {"present", "failed", "absent", "excused"}

----------------------------------------------------------------------------
(* Queries over the table: sets of row numbers.  Rows are numbered in the  *)
(* order of created_at, so "order_by created_at desc, first" is the        *)
(* largest number.                                                         *)

PresentRows(rows, p) ==
    {i \in DOMAIN rows : rows[i].person = p /\ rows[i].decision = "present"}

\* todays_present
TodaysPresent(rows, p, day) ==
    {i \in PresentRows(rows, p) : rows[i].day = day}

\* present_for_occurrence
PresentFor(rows, p, o) == {i \in PresentRows(rows, p) : rows[i].occ = o}

\* Faulty: whoever has checked out may mark again; every kernel counts days.
ExistingPresentNotOut(rows, p, o, day) ==
    {i \in TodaysPresent(rows, p, day) : ~rows[i].out /\ o \in MaybeOcc}
ExistingPresentDaily(rows, p, o, day) ==
    {i \in TodaysPresent(rows, p, day) : o \in MaybeOcc}

\* find_existing_present: the scope in which one mark is enough depends on
\* the kernel; a visit without an occurrence is never a repeat.
ExistingPresent(rows, p, o, day) ==
    IF Kernel \in Daily THEN TodaysPresent(rows, p, day)
    ELSE IF Kernel = "visit" /\ o = NoOcc THEN {}
    ELSE PresentFor(rows, p, o)

\* The newest of a set of rows, as a set: empty or one row number.
Latest(S) == {i \in S : \A j \in S : j <= i}

----------------------------------------------------------------------------
(* Occurrences.                                                            *)

\* occurrence_is_open and the enrollment filter of open_occurrences
OpenFor(p, m) == {o \in Occ : m \in OpenAt[o] /\ p \in Roster[o]}

\* resolve_occurrence as check_in calls it: the occurrences it may settle on.
\* An explicit one is tested for enrollment, not for being open; without one
\* a class or shift must be the only one open, and a visit has none.
Resolved(p, o, m) ==
    IF Kernel \in Daily THEN {o}
    ELSE IF o # NoOcc THEN {x \in {o} : p \in Roster[x]}
    ELSE IF Kernel = "visit" THEN {NoOcc}
    ELSE {x \in OpenFor(p, m) : OpenFor(p, m) = {x}}

----------------------------------------------------------------------------
(* Clock rules.                                                            *)

\* is_late_for; the daily kernels never look at an occurrence.
IsLateFor(o, m) ==
    /\ TrackLate
    /\ IF Kernel \in Daily \/ o = NoOcc THEN m.tick > LateTick ELSE m \in LateAt[o]

\* track_early_leave and clock.is_early_leave
IsEarlyLeave(m) == TrackEarly /\ m.tick < CloseTick

----------------------------------------------------------------------------
\* The open occurrence of highest rank whose newest present row is still
\* without a check-out.
LatestOpen(rows, p, m) ==
    LET pending == {o \in OpenFor(p, m) :
                      \E i \in Latest(PresentFor(rows, p, o)) : ~rows[i].out}
    IN {o \in pending : \A x \in pending : Rank[x] <= Rank[o]}

\* checkout_row: empty, or the one row a check-out of p at moment m takes.
CheckoutRow(rows, p, m) ==
    LET today == TodaysPresent(rows, p, m.day)
        open == LatestOpen(rows, p, m)
    IN IF Kernel = "visit" THEN Latest({i \in today : ~rows[i].out})
       ELSE IF Kernel \in Rostered /\ open # {}
            THEN Latest(UNION {Latest(PresentFor(rows, p, o)) : o \in open})
       ELSE Latest(today)
============================================================================
