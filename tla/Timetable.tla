----------------------------- MODULE Timetable -----------------------------
(***************************************************************************)
(* Courses and their meetings: offerings, enrollments and occurrences of   *)
(* backend/app/api/routes/schedule.py, the questions attendance_policy.py  *)
(* asks of them (is it open, which one is meant), the marks that name a    *)
(* meeting, and what the database does with those when the meeting goes.   *)
(*                                                                         *)
(* Time is counted in slots of lead_minutes, Slots of them in a day. One   *)
(* organization, and each request is one step; what overlapping ones do to *)
(* a mark is Attendance's subject. Of the attendance table only the        *)
(* columns are kept that decide what counts for a meeting, and of a        *)
(* decision whether it is "present"; check-out and the flags leave these   *)
(* alone, and an automatic absence is a row like that of an entry of HR    *)
(* that is not present and names no meeting. Descriptive columns and       *)
(* min_percent are left out, and so is is_active of a course: archiving    *)
(* takes it out of one list, its meetings go on.                           *)
(***************************************************************************)
EXTENDS Integers, Sequences, FiniteSets, FiniteSetsExt

CONSTANTS
    Student, Course,
    NoCourse,       \* offering_id is None
    Kernels,        \* kernels the settings go through
    Slots, LastDay, \* bounds of the calendar
    Span,           \* [start, end, overnight] a meeting may be given
    MaxMade,        \* bound on the meetings ever made, and on numbers named
    MaxMarks        \* bound on the rows

Daily == {"daily_presence", "daily_inout"}
Rostered == {"session", "shift"}

ASSUME TimetableAssumption ==
    /\ NoCourse \notin Course
    /\ Kernels \subseteq Daily \cup Rostered \cup {"visit"}
    /\ Slots \in Nat \ {0, 1} /\ {LastDay, MaxMade, MaxMarks} \subseteq Nat
    /\ Span \subseteq [start : 0 .. Slots - 1, end : 0 .. Slots - 1, overnight : BOOLEAN]

VARIABLES
    instant,    \* office time
    engine,     \* "sqlite" or "postgres"
    kernel,     \* of the organization
    meeting,    \* occurrences by id
    made,       \* meetings made so far; Postgres's sequence
    enrolled,   \* pairs of student and course
    marks       \* the attendance table, oldest first

timetable == <<instant, engine, kernel, meeting, made, enrolled, marks>>
schedule == <<instant, engine, kernel, meeting, made, enrolled>>

----------------------------------------------------------------------------
(* The window of a meeting.                                                *)

Today == instant \div Slots

\* occurrence_window
Opens(m) == m.day * Slots + m.span.start
Closes(m) ==
    m.day * Slots + m.span.end
        + (IF m.span.overnight \/ m.span.end <= m.span.start THEN Slots ELSE 0)

\* occurrence_is_open: from a lead before the start, both ends included
IsOpen(m) == Opens(m) - 1 <= instant /\ instant <= Closes(m)

\* Courses a student is enrolled in, and what is for everybody
Concerns(m, p) == m.course = NoCourse \/ <<p, m.course>> \in enrolled

\* Faulty: only today's meetings are looked at.
OpenTodayOnly(p) ==
    {i \in DOMAIN meeting :
        meeting[i].day = Today /\ IsOpen(meeting[i]) /\ Concerns(meeting[i], p)}

\* open_occurrences
OpenOccurrences(p) ==
    {i \in DOMAIN meeting : /\ meeting[i].day \in {Today - 1, Today}
                            /\ IsOpen(meeting[i]) /\ Concerns(meeting[i], p)}

\* my_schedule; each entry says whether it is open
Mine(p) == {i \in DOMAIN meeting : meeting[i].day = Today /\ Concerns(meeting[i], p)}

NoMeeting == 0

\* resolve_occurrence: the meetings a punch may be for, none if it is
\* refused.  One that is asked for need not be open.
Resolved(p, asked) ==
    IF asked # NoMeeting
    THEN {i \in DOMAIN meeting : i = asked /\ Concerns(meeting[i], p)}
    ELSE IF Cardinality(OpenOccurrences(p)) = 1 THEN OpenOccurrences(p) ELSE {}

----------------------------------------------------------------------------
(* Marks.  born, moved and checked of a row are history: which meeting it  *)
(* named when it was made, whether HR has given it another while days were *)
(* counted, and whether it was let in as present by a look for a mark of   *)
(* the meeting it names.                                                   *)

\* Numbers a request may name: of meetings there are, were, or never were
Number == NoMeeting .. MaxMade

PresentOf(p) == {k \in DOMAIN marks : marks[k].student = p /\ marks[k].present}

\* Faulty: nobody has a mark.
NoMark(p, i) == {k \in PresentOf(p) : marks[k].id # i /\ FALSE}

\* todays_present and present_for_occurrence
TodaysPresent(p) == {k \in PresentOf(p) : marks[k].day = Today}
PresentFor(p, i) == {k \in PresentOf(p) : marks[k].id = i}

\* Faulty: every kernel counts days.
ExistingToday(p, i) == {k \in TodaysPresent(p) : i \in Number}

\* find_existing_present
Existing(p, i) ==
    IF kernel \in Daily THEN TodaysPresent(p)
    ELSE IF i = NoMeeting THEN {} ELSE PresentFor(p, i)

\* It raises occurrence_required otherwise.
MayLook(i) == kernel \in Rostered => i # NoMeeting

Unborn == 0
BirthOf(i) == IF i \in DOMAIN meeting THEN meeting[i].born ELSE Unborn

Insert(p, i, present) ==
    /\ Len(marks) < MaxMarks
    /\ marks' = Append(marks, [student |-> p, day |-> Today, id |-> i, present |-> present,
                               born |-> BirthOf(i), moved |-> FALSE,
                               checked |-> present /\ kernel \notin Daily])
    /\ UNCHANGED schedule

\* What check_in takes occurrence_id for.  A daily kernel stores whatever
\* it is given.
Chosen(p, asked) ==
    IF kernel \in Daily \/ (kernel = "visit" /\ asked = NoMeeting) THEN {asked}
    ELSE Resolved(p, asked)

\* check_in; without a match the row is one of a failed punch.
CheckIn(p, asked, match) ==
    \E i \in Chosen(p, asked) : Existing(p, i) = {} /\ Insert(p, i, match)

\* kiosk_punch; enrollment is not asked for.
KioskPunch(p, asked) ==
    /\ kernel \in Rostered => asked \in DOMAIN meeting
    /\ kernel = "visit" => asked \in DOMAIN meeting \cup {NoMeeting}
    /\ Existing(p, asked) = {} /\ Insert(p, asked, TRUE)

\* manual_attendance: a new row.  Only "present" looks for a mark; nobody
\* looks for the meeting.
Enter(p, asked, present) ==
    /\ present => MayLook(asked) /\ Existing(p, asked) = {}
    /\ Insert(p, asked, present)

\* manual_attendance: the newest mark there is, which is given the number.
EnterAgain(p, asked) ==
    /\ MayLook(asked) /\ asked # NoMeeting
    /\ \E k \in Existing(p, asked) :
         /\ \A j \in Existing(p, asked) : j <= k
         /\ marks' = [marks EXCEPT ![k].id = asked,
                                   ![k].moved = @ \/ (kernel \in Daily /\ asked # marks[k].id),
                                   ![k].checked = @ /\ asked = marks[k].id]
    /\ UNCHANGED schedule

\* update_attendance: no look at all.
Update(k, present) ==
    /\ marks' = [marks EXCEPT ![k].checked = @ /\ marks[k].present /\ present,
                              ![k].present = present]
    /\ UNCHANGED schedule

\* offering_stats
Meetings(c) == {i \in DOMAIN meeting : meeting[i].course = c}
Enrolled(c) == {p \in Student : <<p, c>> \in enrolled}
ExpectedMarks(c) == Cardinality(Meetings(c)) * Cardinality(Enrolled(c))
MarksAt(c, who) ==
    {k \in DOMAIN marks :
        marks[k].present /\ marks[k].id \in Meetings(c) /\ marks[k].student \in who}
PresentMarks(c) == Cardinality(MarksAt(c, Student))
PerPerson(c, p) == Cardinality(MarksAt(c, {p}))

----------------------------------------------------------------------------
(* schedule.py, and the kernel of settings.py                              *)

\* SQLite gives the next id after the highest there is, Postgres's sequence
\* one it never gave.
NextId ==
    IF engine = "postgres" THEN made + 1
    ELSE 1 + (IF DOMAIN meeting = {} THEN 0 ELSE Max(DOMAIN meeting))

\* create_occurrence
CreateOccurrence(c, day, span) ==
    /\ made < MaxMade
    /\ made' = made + 1
    /\ meeting' = [i \in DOMAIN meeting \cup {NextId} |->
                     IF i \in DOMAIN meeting THEN meeting[i]
                     ELSE [course |-> c, day |-> day, span |-> span, born |-> made + 1]]
    /\ UNCHANGED <<instant, engine, kernel, enrolled, marks>>

\* delete_occurrence.  The rows that name the meeting keep its number:
\* models.py has ON DELETE SET NULL, but SQLite enforces no foreign key
\* unless told to, which session.py does not, and the tables of an
\* organization on Postgres are made with LIKE public.t INCLUDING ALL
\* (tenancy.py:102), which copies no foreign key.
DeleteOccurrence(i) ==
    /\ meeting' = [j \in DOMAIN meeting \ {i} |-> meeting[j]]
    /\ UNCHANGED <<instant, engine, kernel, made, enrolled, marks>>

\* enroll_person returns the row there is; the unique constraint keeps
\* overlapping requests from making two.
EnrollPerson(p, c) ==
    /\ enrolled' = enrolled \cup {<<p, c>>}
    /\ UNCHANGED <<instant, engine, kernel, meeting, made, marks>>
DropEnrollment(p, c) ==
    /\ <<p, c>> \in enrolled
    /\ enrolled' = enrolled \ {<<p, c>>}
    /\ UNCHANGED <<instant, engine, kernel, meeting, made, marks>>

\* update_office_settings
ChangeKernel(k) ==
    /\ kernel' = k
    /\ UNCHANGED <<instant, engine, meeting, made, enrolled, marks>>

Pass ==
    /\ instant < (LastDay + 1) * Slots - 1
    /\ instant' = instant + 1
    /\ UNCHANGED <<engine, kernel, meeting, made, enrolled, marks>>

TimetableInit ==
    /\ engine \in {"sqlite", "postgres"} /\ kernel \in Kernels
    /\ instant = 0 /\ meeting = <<>> /\ made = 0
    /\ enrolled = {} /\ marks = <<>>

TimetableNext ==
    \/ Pass
    \/ \E k \in Kernels : ChangeKernel(k)
    \/ \E c \in Course \cup {NoCourse}, day \in 0 .. LastDay, span \in Span :
         CreateOccurrence(c, day, span)
    \/ \E i \in DOMAIN meeting : DeleteOccurrence(i)
    \/ \E p \in Student, c \in Course : EnrollPerson(p, c) \/ DropEnrollment(p, c)
    \/ \E p \in Student, asked \in Number :
         \/ KioskPunch(p, asked) \/ EnterAgain(p, asked)
         \/ \E present \in BOOLEAN : CheckIn(p, asked, present) \/ Enter(p, asked, present)
    \/ \E k \in DOMAIN marks, present \in BOOLEAN : Update(k, present)

TimetableSpec == TimetableInit /\ [][TimetableNext]_timetable

----------------------------------------------------------------------------
(* Properties.                                                             *)

\* A meeting shown as open in somebody's schedule is one his punch can be
\* for, and if it is the only open one it is found without being named.  So
\* is every open meeting that concerns him, whatever midnight lies in
\* between, except those of tomorrow that the lead opens before midnight:
\* the lists say open and the punch finds none (attendance_policy.py:331).
OpenMeetingsAreFound ==
    \A p \in Student, i \in DOMAIN meeting :
        IsOpen(meeting[i]) /\ Concerns(meeting[i], p) =>
            /\ Resolved(p, i) = {i}
            /\ i \in Mine(p) => i \in OpenOccurrences(p)
            /\ i \in OpenOccurrences(p) \/ meeting[i].day = Today + 1
            /\ OpenOccurrences(p) = {i} => Resolved(p, NoMeeting) = {i}

\* A row counts for the meeting it was made for.  When that is deleted it
\* counts for none, as long as the database does not give the number again,
\* which SQLite does; a number that was none when it was written down may
\* become one; and HR may move the mark of a day to another meeting, but
\* only while days are counted (attendance.py:595).
MarksKeepTheirMeeting ==
    \A k \in DOMAIN marks :
        LET i == marks[k].id IN
        i \in DOMAIN meeting =>
            \/ marks[k].born \in {meeting[i].born, Unborn} \/ marks[k].moved
            \/ engine = "sqlite" /\ marks[k].born < meeting[i].born

\* Marks that came to their meeting without a look for another one: PATCH
\* has made them present, or they were made or moved while days were counted
Unchecked(c, who) == {k \in MarksAt(c, who) : ~marks[k].checked}

\* The shares of offering_stats: nobody attended more meetings than there
\* were but for marks that nobody checked, and the course as a whole exceeds
\* 100 percent only through those and through people who are not enrolled
\* (any more).  Of requests that overlap, see Attendance.
SharesAddUp ==
    \A c \in Course :
        /\ \A p \in Student :
             PerPerson(c, p) <= Cardinality(Meetings(c)) + Cardinality(Unchecked(c, {p}))
        /\ PresentMarks(c) > ExpectedMarks(c) =>
             \/ Unchecked(c, Student) # {}
             \/ \E p \in Student \ Enrolled(c) : PerPerson(c, p) > 0
============================================================================
