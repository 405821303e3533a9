---------------------------- MODULE MCAttendance ----------------------------
(* Small instances of Attendance.  A day has two ticks: at tick 0 people   *)
(* are on time and leave early, tick 1 is past the grace period and past    *)
(* closing time.  Occurrence s1 is a class of day 0, held for p1 only; s2   *)
(* is a shift that starts late on day 0 and ends on day 1, open to all.     *)
EXTENDS Attendance, TLC

CONSTANTS p1, p2, r1, r2, s1, s2, c1, c2

At(d, t) == [day |-> d, tick |-> t]

MCOpenAt == [o \in Occ |-> IF o = s1 THEN {At(0, 0), At(0, 1)} ELSE {At(0, 1), At(1, 0)}]
MCLateAt == [o \in Occ |-> IF o = s1 THEN {At(0, 1), At(1, 0), At(1, 1)}
                           ELSE {At(1, 0), At(1, 1)}]
MCRank == [o \in Occ |-> IF o = s1 THEN 1 ELSE 2]
MCRoster == [o \in Occ |-> IF o = s1 THEN Person \cap {p1} ELSE Person]

\* Request slots are interchangeable.
Symmetric == Permutations(Req)
============================================================================
