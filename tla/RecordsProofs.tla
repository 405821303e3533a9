---------------------------- MODULE RecordsProofs ----------------------------
(***************************************************************************)
(* What is read back from the records: the properties of Timetable,        *)
(* AuditTrail and PunchLedger, for any calendar, any spans of meetings and *)
(* any number of people, courses, marks, events, alerts and rows; and of   *)
(* Migrations, the tables they are in, for any number of organizations.    *)
(***************************************************************************)
EXTENDS Timetable, AuditTrail, PunchLedger, Migrations,
        FiniteSetTheorems, SequenceTheorems, TLAPS

----------------------------------------------------------------------------
(* The timetable.                                                          *)

\* Numbers are positive and never beyond the meetings made.  Each set of
\* them has a greatest, which is what SQLite goes by; Postgres numbers the
\* meetings in the order they are made.
Numbered ==
    /\ made \in Nat /\ engine \in {"sqlite", "postgres"}
    /\ \A i \in DOMAIN meeting : i \in Nat /\ 1 <= i /\ i <= made
    /\ \A T \in (SUBSET DOMAIN meeting) \ {{}} : \E i \in T : \A j \in T : j <= i
    /\ \A i \in DOMAIN meeting :
         /\ meeting[i].born \in Nat /\ meeting[i].born <= made
         /\ engine = "postgres" => meeting[i].born = i

Dated ==
    /\ instant \in Nat
    /\ \A i \in DOMAIN meeting : meeting[i].day \in Nat /\ meeting[i].span \in Span

MarkRow == [student : Student, day : Nat, id : Nat, present : BOOLEAN,
            born : Nat, moved : BOOLEAN, checked : BOOLEAN]

\* A mark is not of a meeting to come.  On Postgres it says so in its number,
\* unless that was of no meeting or has been changed.
Aged(row) ==
    /\ row.born <= made
    /\ engine = "postgres" => row.born \in {row.id, Unborn} \/ row.moved

\* Two marks of one student for one meeting
Rivals(a, b) == a.student = b.student /\ a.id = b.id /\ a.id # NoMeeting

\* Of two rivals that are present, one was not checked.
Marking ==
    /\ marks \in Seq(MarkRow)
    /\ \A k \in DOMAIN marks : Aged(marks[k]) /\ (marks[k].checked => marks[k].present)
    /\ \A j, k \in DOMAIN marks :
         Rivals(marks[j], marks[k]) /\ marks[j].checked /\ marks[k].checked => j = k
    /\ IsFiniteSet(enrolled)

TimetableInv == Numbered /\ Dated /\ Marking /\ MarksKeepTheirMeeting

\* What MarksKeepTheirMeeting says of one row
Keeps(row) ==
    row.id \in DOMAIN meeting =>
        \/ row.born \in {meeting[row.id].born, Unborn} \/ row.moved
        \/ engine = "sqlite" /\ row.born < meeting[row.id].born

LEMMA AllKeep == MarksKeepTheirMeeting <=> \A k \in DOMAIN marks : Keeps(marks[k])
BY DEF MarksKeepTheirMeeting, Keeps

LEMMA MarkRows ==
    ASSUME TimetableInv, NEW k \in DOMAIN marks
    PROVE  /\ marks[k] \in MarkRow
           /\ marks[k].student \in Student /\ marks[k].day \in Nat /\ marks[k].id \in Nat
           /\ marks[k].present \in BOOLEAN /\ marks[k].born \in Nat
           /\ marks[k].moved \in BOOLEAN /\ marks[k].checked \in BOOLEAN
<1>1. marks \in Seq(MarkRow)
    BY DEF TimetableInv, Marking
<1>2. marks[k] \in MarkRow
    BY <1>1
<1> QED
    BY <1>2 DEF MarkRow

LEMMA NextIsNew ==
    ASSUME Numbered
    PROVE  /\ NextId \in Nat /\ 1 <= NextId /\ NextId <= made + 1
           /\ \A i \in DOMAIN meeting : i < NextId
           /\ engine = "postgres" => NextId = made + 1
<1>1. CASE engine = "postgres"
    BY <1>1 DEF Numbered, NextId
<1>2. CASE engine = "sqlite" /\ DOMAIN meeting = {}
    BY <1>2 DEF Numbered, NextId
<1>3. CASE engine = "sqlite" /\ DOMAIN meeting # {}
  <2>1. \E i \in DOMAIN meeting : \A j \in DOMAIN meeting : i >= j
      BY <1>3 DEF Numbered
  <2>2. /\ Max(DOMAIN meeting) \in DOMAIN meeting
        /\ \A j \in DOMAIN meeting : Max(DOMAIN meeting) >= j
      BY <2>1 DEF Max
  <2> QED
      BY <1>3, <2>2 DEF Numbered, NextId
<1> QED
    BY <1>1, <1>2, <1>3 DEF Numbered

LEMMA TimetableInitHolds == TimetableInit => TimetableInv
BY FS_EmptySet DEF TimetableInit, TimetableInv, Numbered, Dated, Marking, MarksKeepTheirMeeting

LEMMA CreateHolds ==
    ASSUME TimetableInv, NEW c \in Course \cup {NoCourse}, NEW day \in 0 .. LastDay, NEW span \in Span,
           CreateOccurrence(c, day, span)
    PROVE  TimetableInv'
<1>1. PICK n \in Nat : n = NextId
    BY NextIsNew DEF TimetableInv
<1>2. /\ 1 <= n /\ n <= made + 1 /\ n \notin DOMAIN meeting
      /\ engine = "postgres" => n = made + 1
    BY <1>1, NextIsNew DEF TimetableInv, Numbered
<1>3. /\ made' = made + 1 /\ UNCHANGED <<instant, engine, enrolled, marks>>
      /\ DOMAIN meeting' = DOMAIN meeting \cup {n}
      /\ \A i \in DOMAIN meeting : meeting'[i] = meeting[i]
      /\ meeting'[n].day = day /\ meeting'[n].span = span /\ meeting'[n].born = made + 1
    BY <1>1, <1>2 DEF CreateOccurrence
<1>4. Numbered'
  <2>1. \A i \in DOMAIN meeting' : i \in Nat /\ 1 <= i /\ i <= made'
      BY <1>2, <1>3 DEF TimetableInv, Numbered
  <2>2. ASSUME NEW T \in (SUBSET DOMAIN meeting') \ {{}}
        PROVE  \E i \in T : \A j \in T : j <= i
    <3>1. T \ {n} \in SUBSET DOMAIN meeting
        BY <1>3
    <3>2. CASE T \ {n} = {}
      <4>1. T = {n}
          BY <3>2
      <4> QED
          BY <4>1
    <3>3. CASE T \ {n} # {}
      <4>1. PICK i \in T \ {n} : \A j \in T \ {n} : j <= i
          BY <3>1, <3>3 DEF TimetableInv, Numbered
      <4>2. i \in Nat /\ \A j \in T : j \in Nat
          BY <2>1, <4>1
      <4>3. CASE i <= n /\ n \in T
          BY <4>1, <4>2, <4>3
      <4>4. CASE ~(i <= n /\ n \in T)
          BY <4>1, <4>2, <4>4
      <4> QED
          BY <4>3, <4>4
    <3> QED
        BY <3>2, <3>3
  <2>3. ASSUME NEW i \in DOMAIN meeting'
        PROVE  /\ meeting'[i].born \in Nat /\ meeting'[i].born <= made'
               /\ engine' = "postgres" => meeting'[i].born = i
    <3>1. CASE i = n
        BY <1>2, <1>3, <3>1 DEF TimetableInv, Numbered
    <3>2. CASE i \in DOMAIN meeting
        BY <1>3, <3>2 DEF TimetableInv, Numbered
    <3> QED
        BY <1>3, <3>1, <3>2
  <2>4. made' \in Nat /\ engine' \in {"sqlite", "postgres"}
      BY <1>3 DEF TimetableInv, Numbered
  <2> QED
      BY <2>1, <2>2, <2>3, <2>4 DEF Numbered
<1>5. Dated'
    BY <1>3, TimetableAssumption DEF TimetableInv, Dated
<1>6. Marking'
  <2>1. ASSUME NEW k \in DOMAIN marks PROVE marks[k].born <= made'
    <3>1. marks[k].born \in Nat /\ made \in Nat /\ marks[k].born <= made
        BY MarkRows DEF TimetableInv, Numbered, Marking, Aged
    <3> QED
        BY <1>3, <3>1
  <2>2. \A k \in DOMAIN marks' : Aged(marks[k])' /\ (marks'[k].checked => marks'[k].present)
      BY <1>3, <2>1 DEF TimetableInv, Marking, Aged
  <2> QED
      BY <1>3, <2>2 DEF TimetableInv, Marking, Rivals
<1>7. MarksKeepTheirMeeting'
  <2>1. ASSUME NEW k \in DOMAIN marks PROVE Keeps(marks[k])'
    <3>1. marks[k].born \in Nat /\ made \in Nat /\ Aged(marks[k]) /\ Keeps(marks[k])
        BY MarkRows, AllKeep DEF TimetableInv, Numbered, Marking
    <3>2. marks[k].born < made + 1
        BY <3>1 DEF Aged
    <3>3. CASE marks[k].id = n
        BY <1>2, <1>3, <3>1, <3>2, <3>3 DEF Aged, Keeps, TimetableInv, Numbered
    <3>4. CASE marks[k].id # n
        BY <1>3, <3>1, <3>4 DEF Keeps
    <3> QED
        BY <3>3, <3>4
  <2>2. \A k \in DOMAIN marks' : Keeps(marks[k])'
      BY <1>3, <2>1
  <2> QED
      BY <2>2 DEF MarksKeepTheirMeeting, Keeps
<1> QED
    BY <1>4, <1>5, <1>6, <1>7 DEF TimetableInv

\* The marks of a meeting that is deleted stay as they are.
LEMMA DeleteHolds ==
    ASSUME TimetableInv, NEW i \in DOMAIN meeting, DeleteOccurrence(i)
    PROVE  TimetableInv'
<1>1. /\ UNCHANGED <<instant, engine, made, enrolled, marks>>
      /\ DOMAIN meeting' = DOMAIN meeting \ {i}
      /\ \A j \in DOMAIN meeting' : meeting'[j] = meeting[j]
    BY DEF DeleteOccurrence
<1>2. Numbered'
    BY <1>1 DEF TimetableInv, Numbered
<1>3. Dated'
    BY <1>1 DEF TimetableInv, Dated
<1>4. Marking'
    BY <1>1 DEF TimetableInv, Marking, Aged, Rivals
<1>5. MarksKeepTheirMeeting'
    BY <1>1 DEF TimetableInv, MarksKeepTheirMeeting
<1> QED
    BY <1>2, <1>3, <1>4, <1>5 DEF TimetableInv

\* Today is the day the instant lies in.
LEMMA Days ==
    ASSUME NEW n \in Nat
    PROVE  LET d == n \div Slots IN d \in Nat /\ d * Slots <= n /\ n < (d + 1) * Slots
BY TimetableAssumption

\* A row that is present is added only where find_existing_present has found
\* none; under a daily kernel that says nothing of the meeting it names.
LEMMA InsertHolds ==
    ASSUME TimetableInv, NEW p \in Student, NEW i \in Nat, NEW present \in BOOLEAN,
           present => Existing(p, i) = {}, Insert(p, i, present)
    PROVE  TimetableInv'
<1>1. UNCHANGED <<instant, engine, kernel, meeting, made, enrolled>>
    BY DEF Insert, schedule
<1>2. PICK n \in Nat : n = Len(marks) /\ DOMAIN marks = 1 .. n
    BY DEF TimetableInv, Marking
<1>3. PICK row : /\ row = [student |-> p, day |-> Today, id |-> i, present |-> present,
                           born |-> BirthOf(i), moved |-> FALSE,
                           checked |-> present /\ kernel \notin Daily]
                 /\ marks' = Append(marks, row)
    BY DEF Insert
<1>4. Today \in Nat
    BY Days DEF TimetableInv, Dated, Today
<1>5. BirthOf(i) \in Nat /\ BirthOf(i) <= made
    BY DEF BirthOf, Unborn, TimetableInv, Numbered
<1>6. row \in MarkRow
    BY <1>3, <1>4, <1>5, Zenon DEF MarkRow
<1>7. /\ row.student = p /\ row.id = i /\ row.present = present /\ row.born = BirthOf(i)
      /\ row.checked = (present /\ kernel \notin Daily)
    BY <1>3
<1>8. /\ marks' \in Seq(MarkRow) /\ DOMAIN marks' = DOMAIN marks \cup {n + 1}
      /\ n + 1 \notin DOMAIN marks
      /\ \A k \in DOMAIN marks : marks'[k] = marks[k]
      /\ marks'[n + 1] = row
    BY <1>2, <1>3, <1>6 DEF TimetableInv, Marking
<1>9. Numbered' /\ Dated'
    BY <1>1 DEF TimetableInv, Numbered, Dated
<1>10. Aged(row) /\ Keeps(row) /\ (row.checked => row.present)
  <2>1. engine = "postgres" => BirthOf(i) \in {i, Unborn}
      BY DEF BirthOf, TimetableInv, Numbered
  <2>2. i \in DOMAIN meeting => BirthOf(i) = meeting[i].born
      BY DEF BirthOf
  <2> QED
      BY <1>5, <1>7, <2>1, <2>2 DEF Aged, Keeps
<1>11. ASSUME NEW k \in DOMAIN marks, row.checked, marks[k].checked
       PROVE  ~Rivals(marks[k], row)
  <2>1. present /\ kernel \notin Daily /\ marks[k].present
      BY <1>7, <1>11 DEF TimetableInv, Marking
  <2>2. i = NoMeeting \/ PresentFor(p, i) = {}
      BY <2>1 DEF Existing
  <2>3. CASE i # NoMeeting
      BY <1>7, <2>1, <2>2, <2>3 DEF PresentFor, PresentOf, Rivals
  <2>4. CASE i = NoMeeting
      BY <1>7, <2>4 DEF Rivals
  <2> QED
      BY <2>3, <2>4
<1>12. Marking'
  <2>1. ASSUME NEW k \in DOMAIN marks'
        PROVE  Aged(marks[k])' /\ (marks'[k].checked => marks'[k].present)
    <3>1. Aged(marks'[k]) /\ (marks'[k].checked => marks'[k].present)
        BY <1>8, <1>10 DEF TimetableInv, Marking
    <3> QED
        BY <1>1, <3>1 DEF Aged
  <2>2. ASSUME NEW j \in DOMAIN marks', NEW k \in DOMAIN marks',
               Rivals(marks'[j], marks'[k]), marks'[j].checked, marks'[k].checked
        PROVE  j = k
    <3>1. CASE j \in DOMAIN marks /\ k \in DOMAIN marks
        BY <1>8, <2>2, <3>1 DEF TimetableInv, Marking
    <3>2. CASE j \in DOMAIN marks /\ k = n + 1
        BY <1>8, <1>11, <2>2, <3>2
    <3>3. CASE j = n + 1 /\ k \in DOMAIN marks
        BY <1>8, <1>11, <2>2, <3>3 DEF Rivals
    <3> QED
        BY <1>8, <3>1, <3>2, <3>3
  <2>3. IsFiniteSet(enrolled')
      BY <1>1 DEF TimetableInv, Marking
  <2> QED
      BY <1>8, <2>1, <2>2, <2>3 DEF Marking, Rivals
<1>13. MarksKeepTheirMeeting'
  <2>1. \A k \in DOMAIN marks' : Keeps(marks'[k])
      BY <1>8, <1>10, AllKeep DEF TimetableInv
  <2> QED
      BY <1>1, <2>1 DEF MarksKeepTheirMeeting, Keeps
<1> QED
    BY <1>9, <1>12, <1>13 DEF TimetableInv

\* One row k is changed, and never into one that is checked.
LEMMA ChangeHolds ==
    ASSUME TimetableInv, NEW k \in DOMAIN marks, NEW row \in MarkRow,
           marks' = [marks EXCEPT ![k] = row], UNCHANGED schedule,
           row.student = marks[k].student, row.born = marks[k].born,
           row.checked => marks[k].checked /\ row.present /\ row.id = marks[k].id,
           row.moved \/ (row.id = marks[k].id /\ row.moved = marks[k].moved)
    PROVE  TimetableInv'
<1>1. UNCHANGED <<instant, engine, kernel, meeting, made, enrolled>>
    BY DEF schedule
<1>2. /\ marks' \in Seq(MarkRow) /\ DOMAIN marks' = DOMAIN marks
      /\ \A j \in DOMAIN marks : marks'[j] = IF j = k THEN row ELSE marks[j]
    BY DEF TimetableInv, Marking
<1>3. Numbered' /\ Dated'
    BY <1>1 DEF TimetableInv, Numbered, Dated
<1>4. Aged(row) /\ Keeps(row)
  <2>1. Aged(marks[k]) /\ Keeps(marks[k])
      BY AllKeep DEF TimetableInv, Marking
  <2> QED
      BY <2>1 DEF Aged, Keeps
<1>5. Marking'
  <2>1. ASSUME NEW j \in DOMAIN marks'
        PROVE  Aged(marks[j])' /\ (marks'[j].checked => marks'[j].present)
    <3>1. Aged(marks'[j]) /\ (marks'[j].checked => marks'[j].present)
        BY <1>2, <1>4 DEF TimetableInv, Marking
    <3> QED
        BY <1>1, <3>1 DEF Aged
  <2>2. ASSUME NEW i \in DOMAIN marks', NEW j \in DOMAIN marks',
               Rivals(marks'[i], marks'[j]), marks'[i].checked, marks'[j].checked
        PROVE  i = j
    <3>1. \A l \in {i, j} : /\ marks[l].checked
                            /\ marks'[l].id = marks[l].id
                            /\ marks'[l].student = marks[l].student
        BY <1>2, <2>2
    <3>2. Rivals(marks[i], marks[j])
        BY <2>2, <3>1 DEF Rivals
    <3> QED
        BY <1>2, <3>1, <3>2 DEF TimetableInv, Marking
  <2>3. IsFiniteSet(enrolled')
      BY <1>1 DEF TimetableInv, Marking
  <2> QED
      BY <1>2, <2>1, <2>2, <2>3 DEF Marking, Rivals
<1>6. MarksKeepTheirMeeting'
  <2>1. \A j \in DOMAIN marks' : Keeps(marks'[j])
      BY <1>2, <1>4, AllKeep DEF TimetableInv
  <2> QED
      BY <1>1, <2>1 DEF MarksKeepTheirMeeting, Keeps
<1> QED
    BY <1>3, <1>5, <1>6 DEF TimetableInv

LEMMA AgainHolds ==
    ASSUME TimetableInv, NEW p \in Student, NEW asked \in Number, EnterAgain(p, asked)
    PROVE  TimetableInv'
<1>1. PICK k \in Existing(p, asked) :
         marks' = [marks EXCEPT ![k].id = asked,
                                ![k].moved = @ \/ (kernel \in Daily /\ asked # marks[k].id),
                                ![k].checked = @ /\ asked = marks[k].id]
    BY DEF EnterAgain
<1>2. k \in DOMAIN marks /\ (kernel \in Daily \/ marks[k].id = asked)
    BY DEF Existing, TodaysPresent, PresentFor, PresentOf
<1>3. asked \in Nat
    BY TimetableAssumption DEF Number, NoMeeting
<1> DEFINE row == [marks[k] EXCEPT !.id = asked,
                                   !.moved = @ \/ (kernel \in Daily /\ asked # marks[k].id),
                                   !.checked = @ /\ asked = marks[k].id]
<1>4. marks' = [marks EXCEPT ![k] = row]
    BY <1>1, <1>2
<1>5. /\ marks[k] \in MarkRow /\ marks[k].moved \in BOOLEAN /\ marks[k].checked \in BOOLEAN
      /\ marks[k].checked => marks[k].present
    BY <1>2, MarkRows DEF TimetableInv, Marking
<1>6. row \in MarkRow
    BY <1>3, <1>5 DEF MarkRow
<1>7. /\ row.student = marks[k].student /\ row.born = marks[k].born
      /\ row.id = asked /\ row.present = marks[k].present
      /\ row.moved = (marks[k].moved \/ (kernel \in Daily /\ asked # marks[k].id))
      /\ row.checked = (marks[k].checked /\ asked = marks[k].id)
    BY <1>5 DEF MarkRow
<1>8. UNCHANGED schedule
    BY DEF EnterAgain
<1> HIDE DEF row
<1> QED
    BY <1>2, <1>4, <1>5, <1>6, <1>7, <1>8, ChangeHolds

LEMMA UpdateHolds ==
    ASSUME TimetableInv, NEW k \in DOMAIN marks, NEW present \in BOOLEAN, Update(k, present)
    PROVE  TimetableInv'
<1> DEFINE row == [marks[k] EXCEPT !.checked = @ /\ marks[k].present /\ present,
                                   !.present = present]
<1>1. marks' = [marks EXCEPT ![k] = row] /\ UNCHANGED schedule
    BY DEF Update
<1>2. marks[k] \in MarkRow
    BY MarkRows
<1>3. row \in MarkRow
    BY <1>2 DEF MarkRow
<1>4. /\ row.student = marks[k].student /\ row.born = marks[k].born /\ row.id = marks[k].id
      /\ row.moved = marks[k].moved /\ row.present = present
      /\ row.checked = (marks[k].checked /\ marks[k].present /\ present)
    BY <1>2 DEF MarkRow
<1> HIDE DEF row
<1> QED
    BY <1>1, <1>3, <1>4, ChangeHolds

LEMMA TimetableNextHolds == TimetableInv /\ [TimetableNext]_timetable => TimetableInv'
<1> SUFFICES ASSUME TimetableInv, [TimetableNext]_timetable PROVE TimetableInv'
    OBVIOUS
<1>1. ASSUME UNCHANGED <<engine, meeting, made, enrolled, marks>>, instant' \in Nat
      PROVE  TimetableInv'
    BY <1>1 DEF TimetableInv, Numbered, Dated, Marking, Aged, Rivals, MarksKeepTheirMeeting
<1>2. CASE Pass \/ (\E k \in Kernels : ChangeKernel(k)) \/ UNCHANGED timetable
  <2>1. instant \in Nat
      BY DEF TimetableInv, Dated
  <2> QED
      BY <1>1, <1>2, <2>1 DEF Pass, ChangeKernel, timetable
<1>3. ASSUME NEW p \in Student, NEW c \in Course, EnrollPerson(p, c) \/ DropEnrollment(p, c)
      PROVE  TimetableInv'
  <2>1. IsFiniteSet(enrolled)
      BY DEF TimetableInv, Marking
  <2>2. IsFiniteSet(enrolled')
      BY <1>3, <2>1, FS_AddElement, FS_RemoveElement DEF EnrollPerson, DropEnrollment
  <2>3. UNCHANGED <<instant, engine, meeting, made, marks>>
      BY <1>3 DEF EnrollPerson, DropEnrollment
  <2> QED
      BY <2>2, <2>3 DEF TimetableInv, Numbered, Dated, Marking, Aged, Rivals, MarksKeepTheirMeeting
<1>4. ASSUME NEW p \in Student, NEW asked \in Number, NEW present \in BOOLEAN,
             CheckIn(p, asked, present)
      PROVE  TimetableInv'
  <2>1. PICK i \in Chosen(p, asked) : Existing(p, i) = {} /\ Insert(p, i, present)
      BY <1>4 DEF CheckIn
  <2>2. i = asked \/ i \in DOMAIN meeting
      BY DEF Chosen, Resolved, OpenOccurrences
  <2>3. i \in Nat
      BY <2>2, TimetableAssumption DEF Number, NoMeeting, TimetableInv, Numbered
  <2> QED
      BY <2>1, <2>3, InsertHolds
<1>5. ASSUME NEW p \in Student, NEW asked \in Number, NEW present \in BOOLEAN,
             KioskPunch(p, asked) \/ Enter(p, asked, present)
      PROVE  TimetableInv'
  <2>1. asked \in Nat
      BY TimetableAssumption DEF Number, NoMeeting
  <2> QED
      BY <1>5, <2>1, InsertHolds DEF KioskPunch, Enter
<1> QED
    BY <1>2, <1>3, <1>4, <1>5, CreateHolds, DeleteHolds, AgainHolds, UpdateHolds DEF TimetableNext

----------------------------------------------------------------------------
(* The days of an open meeting.                                            *)

LEMMA Times ==
    ASSUME NEW a \in Int, NEW b \in Int, a <= b
    PROVE  a * Slots <= b * Slots
BY TimetableAssumption

LEMMA OpenDays ==
    ASSUME Dated, NEW i \in DOMAIN meeting, IsOpen(meeting[i])
    PROVE  meeting[i].day \in {Today - 1, Today, Today + 1}
<1> DEFINE day == meeting[i].day
<1>1. PICK t \in Nat : t = instant
    BY DEF Dated
<1>2. PICK d \in Nat : d = day
    BY DEF Dated
<1>3. PICK n \in Nat : n = Today /\ n * Slots <= t /\ t < (n + 1) * Slots
    BY <1>1, Days DEF Today
<1>4. Slots \in Nat /\ Slots >= 2
    BY TimetableAssumption
<1>5. PICK s \in 0 .. Slots - 1, e \in 0 .. Slots - 1 :
        /\ d * Slots + s - 1 <= t
        /\ t <= d * Slots + e + Slots
  <2>1. meeting[i].span \in [start : 0 .. Slots - 1, end : 0 .. Slots - 1, overnight : BOOLEAN]
      BY TimetableAssumption DEF Dated
  <2>2. PICK s \in 0 .. Slots - 1, e \in 0 .. Slots - 1 :
          s = meeting[i].span.start /\ e = meeting[i].span.end
      BY <2>1
  <2>3. d * Slots \in Nat
      BY <1>4
  <2>4. d * Slots + s - 1 <= t
    <3>1. Opens(meeting[i]) = d * Slots + s
        BY <1>2, <2>2 DEF Opens
    <3>2. Opens(meeting[i]) - 1 <= t
        BY <1>1 DEF IsOpen
    <3> QED
        BY <3>1, <3>2, <2>3
  <2>5. t <= d * Slots + e + Slots
    <3>1. \/ t <= d * Slots + e + Slots
          \/ t <= d * Slots + e + 0
        BY <1>1, <1>2, <2>2 DEF IsOpen, Closes
    <3> QED
        BY <3>1, <2>3, <1>4, <2>2
  <2> QED
      BY <2>2, <2>4, <2>5
<1>6. d <= n + 1
  <2> SUFFICES ASSUME n + 2 <= d PROVE FALSE
      BY <1>2, <1>3
  <2>1. (n + 2) * Slots <= d * Slots
      BY Times
  <2>2. (n + 2) * Slots = (n + 1) * Slots + Slots
      BY <1>4
  <2>3. (n + 1) * Slots \in Nat /\ d * Slots \in Nat
      BY <1>4
  <2> QED
      BY <2>1, <2>2, <2>3, <1>3, <1>4, <1>5
<1>7. n <= d + 1
  <2> SUFFICES ASSUME d + 2 <= n PROVE FALSE
      BY <1>2, <1>3
  <2>1. (d + 2) * Slots <= n * Slots
      BY Times
  <2>2. (d + 2) * Slots = d * Slots + Slots + Slots
      BY <1>4
  <2>3. n * Slots \in Nat /\ d * Slots \in Nat
      BY <1>4
  <2> QED
      BY <2>1, <2>2, <2>3, <1>3, <1>4, <1>5
<1> QED
    BY <1>2, <1>3, <1>6, <1>7

LEMMA MeetingsFound == Numbered /\ Dated => OpenMeetingsAreFound
<1> SUFFICES ASSUME Numbered, Dated, NEW p \in Student, NEW i \in DOMAIN meeting,
                    IsOpen(meeting[i]), Concerns(meeting[i], p)
             PROVE  /\ Resolved(p, i) = {i}
                    /\ i \in Mine(p) => i \in OpenOccurrences(p)
                    /\ i \in OpenOccurrences(p) \/ meeting[i].day = Today + 1
                    /\ OpenOccurrences(p) = {i} => Resolved(p, NoMeeting) = {i}
    BY DEF OpenMeetingsAreFound
<1>1. Resolved(p, i) = {i}
    BY DEF Resolved, Numbered, NoMeeting
<1>2. i \in Mine(p) => i \in OpenOccurrences(p)
    BY DEF Mine, OpenOccurrences
<1>3. i \in OpenOccurrences(p) \/ meeting[i].day = Today + 1
    BY OpenDays DEF OpenOccurrences
<1>4. OpenOccurrences(p) = {i} => Resolved(p, NoMeeting) = {i}
    BY FS_Singleton DEF Resolved
<1> QED
    BY <1>1, <1>2, <1>3, <1>4

----------------------------------------------------------------------------
(* The shares.                                                             *)

LEMMA FiniteParts ==
    ASSUME TimetableInv, NEW c \in Course
    PROVE  IsFiniteSet(Meetings(c)) /\ IsFiniteSet(Enrolled(c)) /\ IsFiniteSet(DOMAIN marks)
<1>1. IsFiniteSet(Meetings(c))
  <2>1. IsFiniteSet(1 .. made)
      BY FS_Interval DEF TimetableInv, Numbered
  <2>2. Meetings(c) \subseteq 1 .. made
      BY DEF Meetings, TimetableInv, Numbered
  <2> QED
      BY <2>1, <2>2, FS_Subset
<1>2. IsFiniteSet(Enrolled(c))
  <2> DEFINE f == [p \in Enrolled(c) |-> <<p, c>>]
  <2>1. f \in Injection(Enrolled(c), enrolled)
      BY DEF Injection, IsInjective, Enrolled
  <2> QED
      BY <2>1, FS_Injection DEF TimetableInv, Marking
<1>3. IsFiniteSet(DOMAIN marks)
  <2>1. PICK n \in Nat : DOMAIN marks = 1 .. n
      BY DEF TimetableInv, Marking
  <2> QED
      BY <2>1, FS_Interval
<1> QED
    BY <1>1, <1>2, <1>3

LEMMA Shares == TimetableInv => SharesAddUp
<1> SUFFICES ASSUME TimetableInv, NEW c \in Course
             PROVE  /\ \A p \in Student :
                         PerPerson(c, p) <= Cardinality(Meetings(c)) + Cardinality(Unchecked(c, {p}))
                    /\ PresentMarks(c) > ExpectedMarks(c) =>
                         \/ Unchecked(c, Student) # {}
                         \/ \E p \in Student \ Enrolled(c) : PerPerson(c, p) > 0
    BY DEF SharesAddUp
<1> DEFINE Looked(who) == MarksAt(c, who) \ Unchecked(c, who)
<1>1. IsFiniteSet(Meetings(c)) /\ IsFiniteSet(Enrolled(c)) /\ IsFiniteSet(DOMAIN marks)
    BY FiniteParts
<1>2. ASSUME NEW who
      PROVE  /\ IsFiniteSet(MarksAt(c, who)) /\ Cardinality(MarksAt(c, who)) \in Nat
             /\ IsFiniteSet(Unchecked(c, who)) /\ Cardinality(Unchecked(c, who)) \in Nat
             /\ IsFiniteSet(Looked(who)) /\ Cardinality(Looked(who)) \in Nat
  <2>1. /\ MarksAt(c, who) \subseteq DOMAIN marks /\ Unchecked(c, who) \subseteq DOMAIN marks
        /\ Looked(who) \subseteq DOMAIN marks
      BY DEF MarksAt, Unchecked
  <2> HIDE DEF Looked
  <2> QED
      BY <1>1, <2>1, FS_Subset, FS_CardinalityType
<1>3. ASSUME NEW who, NEW j \in Looked(who), NEW k \in Looked(who),
             marks[j].student = marks[k].student, marks[j].id = marks[k].id
      PROVE  j = k
  <2>1. /\ j \in DOMAIN marks /\ marks[j].checked /\ marks[j].id \in DOMAIN meeting
        /\ k \in DOMAIN marks /\ marks[k].checked
      BY DEF MarksAt, Unchecked, Meetings
  <2>2. Rivals(marks[j], marks[k])
      BY <1>3, <2>1 DEF Rivals, TimetableInv, Numbered, NoMeeting
  <2> QED
      BY <2>1, <2>2 DEF TimetableInv, Marking
<1>4. ASSUME NEW p \in Student
      PROVE  PerPerson(c, p) <= Cardinality(Meetings(c)) + Cardinality(Unchecked(c, {p}))
  <2> DEFINE f == [k \in Looked({p}) |-> marks[k].id]
  <2>1. f \in Injection(Looked({p}), Meetings(c))
    <3>1. \A k \in Looked({p}) : f[k] \in Meetings(c) /\ marks[k].student = p
        BY DEF MarksAt
    <3>2. \A j, k \in Looked({p}) : f[j] = f[k] => j = k
        BY <1>3, <3>1
    <3> QED
        BY <3>1, <3>2 DEF Injection, IsInjective
  <2>2. Cardinality(Looked({p})) <= Cardinality(Meetings(c))
      BY <1>1, <2>1, FS_Injection
  <2>3. /\ Looked({p}) \cup Unchecked(c, {p}) = MarksAt(c, {p})
        /\ Looked({p}) \cap Unchecked(c, {p}) = {}
      BY DEF Unchecked
  <2>4. Cardinality(MarksAt(c, {p})) = Cardinality(Looked({p})) + Cardinality(Unchecked(c, {p}))
    <3> DEFINE L == Looked({p})
               U == Unchecked(c, {p})
    <3>1. /\ IsFiniteSet(L) /\ Cardinality(L) \in Nat
          /\ IsFiniteSet(U) /\ Cardinality(U) \in Nat
        BY <1>2
    <3>2. MarksAt(c, {p}) = L \cup U /\ L \cap U = {}
        BY <2>3
    <3> HIDE DEF L, U
    <3>3. Cardinality(L \cup U) = Cardinality(L) + Cardinality(U) - Cardinality(L \cap U)
        BY <3>1, FS_Union
    <3>4. Cardinality(L \cap U) = 0
        BY <3>2, FS_EmptySet
    <3>5. Cardinality(L \cup U) = Cardinality(L) + Cardinality(U)
        BY <3>1, <3>3, <3>4
    <3> QED
        BY <3>2, <3>5 DEF L, U
  <2> HIDE DEF Looked
  <2>5. Cardinality(Meetings(c)) \in Nat
      BY <1>1, FS_CardinalityType
  <2> QED
      BY <1>2, <2>2, <2>4, <2>5 DEF PerPerson
<1>5. ASSUME Unchecked(c, Student) = {},
             \A p \in Student \ Enrolled(c) : ~(PerPerson(c, p) > 0)
      PROVE  PresentMarks(c) <= ExpectedMarks(c)
  <2>1. Looked(Student) = MarksAt(c, Student)
      BY <1>5
  <2>2. ASSUME NEW k \in MarksAt(c, Student)
        PROVE  marks[k].student \in Enrolled(c) /\ marks[k].id \in Meetings(c)
    <3>1. PICK p \in Student : p = marks[k].student /\ k \in MarksAt(c, {p})
        BY DEF MarksAt
    <3>2. Cardinality(MarksAt(c, {p})) # 0
      <4> DEFINE M == MarksAt(c, {p})
      <4>1. IsFiniteSet(M) /\ M # {}
          BY <1>2, <3>1
      <4> HIDE DEF M
      <4>2. Cardinality(M) # 0
          BY <4>1, FS_EmptySet
      <4> QED
          BY <4>2 DEF M
    <3>3. PerPerson(c, p) > 0
      <4>1. Cardinality(MarksAt(c, {p})) \in Nat
          BY <1>2
      <4>2. Cardinality(MarksAt(c, {p})) > 0
          BY <3>2, <4>1
      <4> QED
          BY <4>2 DEF PerPerson
    <3>4. marks[k].id \in Meetings(c)
        BY DEF MarksAt
    <3> QED
        BY <1>5, <3>1, <3>3, <3>4
  <2> DEFINE f == [k \in MarksAt(c, Student) |-> <<marks[k].id, marks[k].student>>]
  <2>3. f \in Injection(MarksAt(c, Student), Meetings(c) \X Enrolled(c))
    <3>1. \A k \in MarksAt(c, Student) : f[k] \in Meetings(c) \X Enrolled(c)
        BY <2>2
    <3>2. ASSUME NEW j \in MarksAt(c, Student), NEW k \in MarksAt(c, Student), f[j] = f[k]
          PROVE  j = k
      <4>1. marks[j].id = marks[k].id /\ marks[j].student = marks[k].student
          BY <3>2
      <4> QED
          BY <1>3, <2>1, <4>1
    <3> QED
        BY <3>1, <3>2 DEF Injection, IsInjective
  <2>4. /\ IsFiniteSet(Meetings(c) \X Enrolled(c))
        /\ Cardinality(Meetings(c) \X Enrolled(c)) = ExpectedMarks(c)
      BY <1>1, FS_Product DEF ExpectedMarks
  <2> QED
      BY <2>3, <2>4, FS_Injection DEF PresentMarks
<1>6. PresentMarks(c) \in Nat /\ ExpectedMarks(c) \in Nat
  <2>1. /\ Cardinality(Meetings(c)) \in Nat /\ Cardinality(Enrolled(c)) \in Nat
        /\ PresentMarks(c) \in Nat
      BY <1>1, <1>2, FS_CardinalityType DEF PresentMarks
  <2> QED
      BY <2>1 DEF ExpectedMarks
<1> QED
    BY <1>4, <1>5, <1>6

----------------------------------------------------------------------------
\* For any students, courses, meetings and marks, nobody attended more
\* meetings than there were but for marks that came to their meeting without
\* a look for another, and only those and marks of people who are not
\* enrolled take a course beyond 100 percent (schedule.py:344).
THEOREM SharesAddUpCorrect == TimetableSpec => []SharesAddUp
<1> QED
    BY Shares, TimetableInitHolds, TimetableNextHolds, PTL DEF TimetableSpec

\* Whatever is created, deleted, marked, corrected and set in whatever order,
\* a mark that named a meeting counts for another one only where SQLite has
\* given its number again or HR has moved it while days were counted
\* (schedule.py:460, attendance.py:595).
THEOREM MarksKeepTheirMeetingCorrect == TimetableSpec => []MarksKeepTheirMeeting
<1>1. TimetableInv => MarksKeepTheirMeeting
    BY DEF TimetableInv
<1> QED
    BY <1>1, TimetableInitHolds, TimetableNextHolds, PTL DEF TimetableSpec

\* For any lengths of day and spans, the two days that open_occurrences
\* reads miss no open meeting but those of tomorrow (attendance_policy.py:331).
THEOREM OpenMeetingsAreFoundCorrect == TimetableSpec => []OpenMeetingsAreFound
<1>1. TimetableInv => OpenMeetingsAreFound
    BY MeetingsFound DEF TimetableInv
<1> QED
    BY <1>1, TimetableInitHolds, TimetableNextHolds, PTL DEF TimetableSpec

----------------------------------------------------------------------------
(* The trail of events and alerts.                                         *)

About == Suspect \cup {Nobody}
EventRow == [kind : {"attendance", "liveness", "spoof"}, person : About, day : Nat]
AlertRow == [person : About, day : Nat, seen : BOOLEAN]

\* Rows are written in the order of their days, none of a day to come.
InOrder(table) ==
    /\ \A i \in DOMAIN table : table[i].day <= localDay
    /\ \A i, j \in DOMAIN table : i <= j => table[i].day <= table[j].day

TrailTypes ==
    /\ localDay \in Nat
    /\ events \in Seq(EventRow) /\ alerts \in Seq(AlertRow)
    /\ check \in {NoCheck} \cup [at : {"alert", "log"}, who : About]

TrailInv == TrailTypes /\ InOrder(events) /\ InOrder(alerts)

\* The newest n rows hold everything since a day if there is no more of it.
LEMMA NewestHoldAll ==
    ASSUME NEW positions, IsFiniteSet(positions), positions \subseteq Nat,
           NEW day, \A i, j \in positions : i <= j => day[i] <= day[j],
           \A i \in positions : day[i] \in Nat,
           NEW n \in Nat, NEW from \in Nat,
           Cardinality({i \in positions : day[i] >= from}) <= n,
           NEW i \in positions, day[i] >= from
    PROVE  i \in LastOf(n, positions)
<1> DEFINE since == {k \in positions : day[k] >= from}
           newer == {j \in positions : j > i}
<1>1. IsFiniteSet(since) /\ Cardinality(since) \in Nat
    BY FS_Subset, FS_CardinalityType
<1>2. newer \subseteq since \ {i}
  <2>1. ASSUME NEW j \in positions, j > i PROVE day[j] >= from /\ j # i
    <3>1. i \in Nat /\ j \in Nat /\ i <= j
        BY <2>1
    <3>2. day[i] <= day[j] /\ day[i] \in Nat /\ day[j] \in Nat
        BY <3>1
    <3> QED
        BY <3>1, <3>2, <2>1
  <2> QED
      BY <2>1
<1>3. IsFiniteSet(since \ {i}) /\ Cardinality(since \ {i}) = Cardinality(since) - 1
    BY <1>1, FS_RemoveElement
<1>4. Cardinality(newer) \in Nat /\ Cardinality(newer) <= Cardinality(since \ {i})
    BY <1>2, <1>3, FS_Subset, FS_CardinalityType
<1>5. Cardinality(since) <= n
    OBVIOUS
<1> HIDE DEF since, newer
<1>6. Cardinality(newer) < n
    BY <1>1, <1>3, <1>4, <1>5
<1> QED
    BY <1>6 DEF LastOf, newer

LEMMA TrailInitHolds == TrailInit => TrailInv
BY DEF TrailInit, TrailInv, TrailTypes, InOrder

LEMMA AppendKeepsOrder ==
    ASSUME NEW S, NEW table \in Seq(S), InOrder(table), NEW row \in S, row.day = localDay,
           localDay \in Nat, \A i \in DOMAIN table : table[i].day \in Nat
    PROVE  Append(table, row) \in Seq(S) /\ InOrder(Append(table, row))
<1>1. PICK n \in Nat : n = Len(table) /\ DOMAIN table = 1 .. n
    OBVIOUS
<1>2. /\ Append(table, row) \in Seq(S) /\ DOMAIN Append(table, row) = 1 .. n + 1
      /\ Append(table, row)[n + 1] = row
      /\ \A i \in 1 .. n : Append(table, row)[i] = table[i]
    BY <1>1
<1> QED
    BY <1>1, <1>2 DEF InOrder

LEMMA TrailNextHolds == TrailInv /\ [TrailNext]_trail => TrailInv'
<1> SUFFICES ASSUME TrailInv, [TrailNext]_trail PROVE TrailInv'
    OBVIOUS
<1>1. /\ \A i \in DOMAIN events : events[i].day \in Nat
      /\ \A i \in DOMAIN alerts : alerts[i].day \in Nat
  <2>1. \A i \in DOMAIN events : events[i] \in EventRow
      BY DEF TrailInv, TrailTypes
  <2>2. \A i \in DOMAIN alerts : alerts[i] \in AlertRow
      BY DEF TrailInv, TrailTypes
  <2> QED
      BY <2>1, <2>2 DEF EventRow, AlertRow
<1>2. ASSUME NEW kind \in {"attendance", "liveness", "spoof"}, NEW person \in About,
             events' = Append(events, Event(kind, person)), localDay' = localDay
      PROVE  events' \in Seq(EventRow) /\ InOrder(events)'
  <2>1. Event(kind, person) \in EventRow /\ Event(kind, person).day = localDay
      BY DEF Event, EventRow, TrailInv, TrailTypes
  <2>2. Append(events, Event(kind, person)) \in Seq(EventRow)
        /\ InOrder(Append(events, Event(kind, person)))
      BY <2>1, <1>1, AppendKeepsOrder DEF TrailInv, TrailTypes
  <2> QED
      BY <2>2, <1>2 DEF InOrder
<1>3. CASE UNCHANGED trail
    BY <1>3 DEF trail, TrailInv, TrailTypes, InOrder
<1>4. ASSUME NEW person \in About, LogEvent(person) PROVE TrailInv'
  <2>1. events' \in Seq(EventRow) /\ InOrder(events)'
      BY <1>2, <1>4 DEF LogEvent
  <2> QED
      BY <1>4, <2>1 DEF LogEvent, TrailInv, TrailTypes, InOrder
<1>5. ASSUME NEW person \in About, CheckClip(person) PROVE TrailInv'
  <2>1. events' \in Seq(EventRow) /\ InOrder(events)'
      BY <1>2, <1>5 DEF CheckClip
  <2>2. check' \in {NoCheck} \cup [at : {"alert", "log"}, who : About]
      BY <1>5 DEF CheckClip, TrailInv, TrailTypes, About
  <2> QED
      BY <1>5, <2>1, <2>2 DEF CheckClip, TrailInv, TrailTypes, InOrder
<1>6. CASE RecordSpoof
  <2>1. check \in [at : {"alert", "log"}, who : About]
      BY <1>6 DEF RecordSpoof, TrailInv, TrailTypes, NoCheck
  <2> DEFINE row == [person |-> check.who, day |-> localDay, seen |-> FALSE]
  <2>2. row \in AlertRow /\ row.day = localDay
      BY <2>1 DEF AlertRow, TrailInv, TrailTypes
  <2> HIDE DEF row
  <2>3. Append(alerts, row) \in Seq(AlertRow) /\ InOrder(Append(alerts, row))
      BY <2>2, <1>1, AppendKeepsOrder DEF TrailInv, TrailTypes
  <2>4. alerts' = Append(alerts, row) /\ localDay' = localDay
      BY <1>6 DEF RecordSpoof, row
  <2>5. alerts' \in Seq(AlertRow) /\ InOrder(alerts)'
      BY <2>3, <2>4 DEF InOrder
  <2>6. check' \in [at : {"alert", "log"}, who : About]
      BY <1>6, <2>1 DEF RecordSpoof
  <2> QED
      BY <1>6, <2>5, <2>6 DEF RecordSpoof, TrailInv, TrailTypes, InOrder
<1>7. CASE LogSpoof
  <2>1. check \in [at : {"alert", "log"}, who : About]
      BY <1>7 DEF LogSpoof, TrailInv, TrailTypes, NoCheck
  <2>2. events' \in Seq(EventRow) /\ InOrder(events)'
      BY <1>2, <1>7, <2>1 DEF LogSpoof
  <2> QED
      BY <1>7, <2>2 DEF LogSpoof, TrailInv, TrailTypes, InOrder
<1>8. CASE MarkSpoofSeen
  <2>1. PICK i \in DOMAIN alerts : alerts' = [alerts EXCEPT ![i].seen = TRUE]
      BY <1>8 DEF MarkSpoofSeen
  <2>2. \A j \in DOMAIN alerts : alerts[j] \in AlertRow
      BY DEF TrailInv, TrailTypes
  <2>3. [alerts[i] EXCEPT !.seen = TRUE] \in AlertRow
        /\ [alerts[i] EXCEPT !.seen = TRUE].day = alerts[i].day
      BY <2>2 DEF AlertRow
  <2>4. alerts' = [alerts EXCEPT ![i] = [alerts[i] EXCEPT !.seen = TRUE]]
      BY <2>1
  <2> DEFINE row == [alerts[i] EXCEPT !.seen = TRUE]
  <2> HIDE DEF row
  <2>5. alerts' \in Seq(AlertRow) /\ DOMAIN alerts' = DOMAIN alerts
    <3>1. alerts \in Seq(AlertRow) /\ row \in AlertRow
        BY <2>3 DEF TrailInv, TrailTypes, row
    <3>2. alerts' = [alerts EXCEPT ![i] = row]
        BY <2>4 DEF row
    <3> QED
        BY <3>1, <3>2, ExceptSeq
  <2>6. \A j \in DOMAIN alerts : alerts'[j].day = alerts[j].day
      BY <2>3, <2>4
  <2> QED
      BY <1>8, <2>5, <2>6 DEF MarkSpoofSeen, TrailInv, TrailTypes, InOrder
<1>9. CASE CheckDies
    BY <1>9 DEF CheckDies, TrailInv, TrailTypes, InOrder
<1>10. CASE Midnight
    BY <1>1, <1>10 DEF Midnight, TrailInv, TrailTypes, InOrder
<1> QED
    BY <1>3, <1>4, <1>5, <1>6, <1>7, <1>8, <1>9, <1>10 DEF TrailNext, About

LEMMA TrailInvariant == TrailSpec => []TrailInv
<1> QED
    BY TrailInitHolds, TrailNextHolds, PTL DEF TrailSpec

Matching(kind, person) == {j \in DOMAIN events : Asked(events[j], kind, person)}
Since(from, kind, person) == {i \in Matching(kind, person) : events[i].day >= from}
Between(from, to, kind, person) == {i \in Matching(kind, person) : events[i].day \in from .. to}

\* The matching rows of a range of days are all listed if the rows written
\* since the range began fit under the limit.
LEMMA FilteredHoldsTheRange ==
    ASSUME TrailInv, NEW n \in Nat, NEW kind, NEW person, NEW from \in Nat, NEW to \in Nat,
           Cardinality(Since(from, kind, person)) <= n
    PROVE  Filtered(events, n, kind, person, from, to) = Between(from, to, kind, person)
<1> DEFINE matching == {j \in DOMAIN events : Asked(events[j], kind, person)}
           day == [i \in DOMAIN events |-> events[i].day]
<1>1. DOMAIN events \subseteq Nat /\ IsFiniteSet(DOMAIN events)
  <2>1. PICK m \in Nat : DOMAIN events = 1 .. m
      BY DEF TrailInv, TrailTypes
  <2> QED
      BY <2>1, FS_Interval
<1>2. IsFiniteSet(matching) /\ matching \subseteq Nat
    BY <1>1, FS_Subset
<1>3. /\ \A i, j \in matching : i <= j => day[i] <= day[j]
      /\ \A i \in matching : day[i] \in Nat /\ day[i] = events[i].day
  <2>1. \A i \in DOMAIN events : events[i] \in EventRow /\ day[i] = events[i].day
      BY DEF TrailInv, TrailTypes
  <2>2. \A i, j \in DOMAIN events : i <= j => events[i].day <= events[j].day
      BY DEF TrailInv, InOrder
  <2>3. matching \subseteq DOMAIN events
      OBVIOUS
  <2> HIDE DEF matching, day
  <2> QED
      BY <2>1, <2>2, <2>3 DEF EventRow
<1>4. Cardinality({i \in matching : day[i] >= from}) <= n
  <2>1. {i \in matching : day[i] >= from} = Since(from, kind, person)
    <3>1. matching = Matching(kind, person)
        BY DEF Matching
    <3> HIDE DEF matching, day
    <3> QED
        BY <1>3, <3>1 DEF Since
  <2> QED
      BY <2>1
<1>5. Selected(events, n, kind, person) = LastOf(n, matching)
    BY DEF Selected
<1>6. LastOf(n, matching) \subseteq matching
    BY DEF LastOf
<1> HIDE DEF matching, day
<1>7. \A i \in matching : day[i] >= from => i \in LastOf(n, matching)
    BY <1>2, <1>3, <1>4, NewestHoldAll
<1>8. Filtered(events, n, kind, person, from, to) = {i \in matching : events[i].day \in from .. to}
    BY <1>3, <1>5, <1>6, <1>7 DEF Filtered
<1> QED
    BY <1>8 DEF matching, Between, Matching

\* Lists and exports show all of a range of days unless the limit cuts it,
\* and the dashboard counts all of today's alerts up to its limit.
THEOREM ListsHoldTheirRange == TrailSpec => []ListsAreComplete
<1> DEFINE today == {i \in DOMAIN alerts : alerts[i].day = localDay}
<1>1. ASSUME TrailInv, Cardinality(today) <= AlertLimit
      PROVE  SpoofToday = Cardinality(today)
  <2> DEFINE day == [i \in DOMAIN alerts |-> alerts[i].day]
             positions == DOMAIN alerts
  <2>1. positions \subseteq Nat /\ IsFiniteSet(positions) /\ localDay \in Nat
    <3>1. PICK m \in Nat : DOMAIN alerts = 1 .. m
        BY <1>1 DEF TrailInv, TrailTypes
    <3>2. localDay \in Nat
        BY <1>1 DEF TrailInv, TrailTypes
    <3> HIDE <1>1
    <3> QED
        BY <3>1, <3>2, FS_Interval
  <2>2. /\ \A i, j \in positions : i <= j => day[i] <= day[j]
        /\ \A i \in positions : day[i] \in Nat /\ day[i] = alerts[i].day /\ day[i] <= localDay
    <3>1. \A i \in DOMAIN alerts : alerts[i] \in AlertRow /\ day[i] = alerts[i].day
        BY <1>1 DEF TrailInv, TrailTypes
    <3>2. /\ \A i, j \in DOMAIN alerts : i <= j => alerts[i].day <= alerts[j].day
          /\ \A i \in DOMAIN alerts : alerts[i].day <= localDay
        BY <1>1 DEF TrailInv, InOrder
    <3> HIDE DEF day
    <3> QED
        BY <3>1, <3>2 DEF AlertRow
  <2>3. {i \in positions : day[i] >= localDay} = today
      BY <2>1, <2>2
  <2>4. Cardinality({i \in positions : day[i] >= localDay}) <= AlertLimit
      BY <1>1, <2>3
  <2>5. AlertLimit \in Nat
      BY TrailAssumption
  <2> HIDE DEF positions, day
  <2>6. \A i \in positions : day[i] >= localDay => i \in LastOf(AlertLimit, positions)
      BY <2>1, <2>2, <2>4, <2>5, NewestHoldAll
  <2>7. {i \in LastOf(AlertLimit, DOMAIN alerts) : alerts[i].day = localDay} = today
      BY <2>1, <2>2, <2>6 DEF positions, LastOf
  <2> QED
      BY <2>7 DEF SpoofToday
<1>2. TrailInv => ListsAreComplete
  <2> SUFFICES ASSUME TrailInv,
                      NEW n \in 1 .. Len(events), NEW kind, NEW person,
                      NEW from \in 1 .. MaxDays, NEW to \in 1 .. MaxDays,
                      Cardinality(Since(from, kind, person)) <= n
               PROVE  Filtered(events, n, kind, person, from, to) = Between(from, to, kind, person)
      BY <1>1 DEF ListsAreComplete, Between, Since, Matching
  <2>1. n \in Nat /\ from \in Nat /\ to \in Nat
    <3>1. MaxDays \in Nat /\ Len(events) \in Nat
        BY TrailAssumption DEF TrailInv, TrailTypes
    <3> QED
        BY <3>1
  <2> QED
      BY <2>1, FilteredHoldsTheRange
<1> QED
    BY <1>2, TrailInvariant, PTL

----------------------------------------------------------------------------
(* The ledger of punches.                                                  *)

AnyMeeting == CHOOSE m \in Meeting : TRUE

Row == [person : Person, meeting : Meeting \cup {AnyMeeting},
        decision : {"present", "failed", "absent"}, similarity : Int,
        site : Site \cup {OffSite}, at : Nat, out : BOOLEAN]

\* Rows are written in the order of their times, none at a time to come.
RowsInOrder ==
    /\ \A i \in DOMAIN rows : rows[i].at <= hour
    /\ \A i, j \in DOMAIN rows : i <= j => rows[i].at <= rows[j].at

LedgerTypes == hour \in Nat /\ rows \in Seq(Row) /\ roster \in SUBSET Person

LedgerInv == LedgerTypes /\ RowsInOrder

LEMMA NewRowIsTyped ==
    ASSUME LedgerTypes, NEW p \in Person, NEW m \in Meeting \cup {AnyMeeting},
           NEW decision \in {"present", "failed", "absent"}, NEW similarity \in Int,
           NEW where \in Site \cup {OffSite}
    PROVE  /\ NewRow(p, m, decision, similarity, where) \in Row
           /\ NewRow(p, m, decision, similarity, where).at = hour
BY DEF NewRow, Row, LedgerTypes

LEMMA AddRowsHolds ==
    ASSUME LedgerInv, NEW new \in Seq(Row), \A i \in DOMAIN new : new[i].at = hour,
           rows' = rows \o new, hour' = hour, roster' = roster
    PROVE  LedgerInv'
<1>1. PICK n \in Nat : n = Len(rows) /\ DOMAIN rows = 1 .. n
    BY DEF LedgerInv, LedgerTypes
<1>2. PICK m \in Nat : m = Len(new) /\ DOMAIN new = 1 .. m
    OBVIOUS
<1>3. rows' \in Seq(Row) /\ Len(rows') = n + m /\ DOMAIN rows' = 1 .. n + m
    BY <1>1, <1>2 DEF LedgerInv, LedgerTypes
<1>4. /\ \A i \in 1 .. n : rows'[i] = rows[i]
      /\ \A i \in n + 1 .. n + m : rows'[i] = new[i - n]
    BY <1>1, <1>2 DEF LedgerInv, LedgerTypes
<1>5. \A i \in n + 1 .. n + m : i - n \in DOMAIN new
    BY <1>1, <1>2
<1>6. \A i \in 1 .. n + m : (i \in 1 .. n /\ rows'[i].at = rows[i].at) \/ rows'[i].at = hour
    BY <1>1, <1>2, <1>4, <1>5
<1>7. /\ \A i \in 1 .. n : rows[i].at \in Nat /\ rows[i].at <= hour
      /\ \A i, j \in 1 .. n : i <= j => rows[i].at <= rows[j].at
  <2>1. \A i \in 1 .. n : rows[i] \in Row
      BY <1>1 DEF LedgerInv, LedgerTypes
  <2> QED
      BY <1>1, <2>1 DEF LedgerInv, RowsInOrder, Row
<1>8. hour \in Nat
    BY DEF LedgerInv, LedgerTypes
<1>9. \A i \in 1 .. n + m : rows'[i].at <= hour
  <2>1. ASSUME NEW i \in 1 .. n + m PROVE rows'[i].at <= hour
    <3>1. CASE i \in 1 .. n /\ rows'[i].at = rows[i].at
        BY <1>7, <3>1
    <3>2. CASE rows'[i].at = hour
        BY <1>8, <3>2
    <3> QED
        BY <1>6, <3>1, <3>2
  <2> QED
      BY <2>1
<1>10. \A i, j \in 1 .. n + m : i <= j => rows'[i].at <= rows'[j].at
    BY <1>1, <1>2, <1>6, <1>7, <1>8
<1> QED
    BY <1>3, <1>9, <1>10 DEF LedgerInv, LedgerTypes, RowsInOrder

LEMMA LedgerInitHolds == LedgerInit => LedgerInv
BY DEF LedgerInit, LedgerInv, LedgerTypes, RowsInOrder

LEMMA LedgerNextHolds == LedgerInv /\ [LedgerNext]_ledger => LedgerInv'
<1> SUFFICES ASSUME LedgerInv, [LedgerNext]_ledger PROVE LedgerInv'
    OBVIOUS
<1>1. ASSUME NEW p \in Person, NEW m \in Meeting, NEW shot \in Shot, Punch(p, m, shot)
      PROVE  LedgerInv'
  <2>1. shot.similarity \in Int /\ shot.site \in Site \cup {OffSite}
      BY LedgerAssumption
  <2> DEFINE row == NewRow(p, m, IF shot.similarity >= VerifyThreshold THEN "present" ELSE "failed",
                           shot.similarity, shot.site)
  <2>2. row \in Row /\ row.at = hour
      BY <2>1, NewRowIsTyped DEF LedgerInv
  <2>3. rows' = rows \o <<row>> /\ hour' = hour /\ roster' = roster
      BY <1>1 DEF Punch, AddRows
  <2> HIDE DEF row
  <2>4. <<row>> \in Seq(Row) /\ \A i \in DOMAIN <<row>> : <<row>>[i].at = hour
      BY <2>2
  <2> QED
      BY <2>3, <2>4, AddRowsHolds
<1>2. ASSUME NEW p \in Person, NEW m \in Meeting, Manual(p, m) PROVE LedgerInv'
  <2> DEFINE row == NewRow(p, m, "present", NoSimilarity, OffSite)
  <2>1. row \in Row /\ row.at = hour
      BY NewRowIsTyped DEF LedgerInv, NoSimilarity
  <2>2. rows' = rows \o <<row>> /\ hour' = hour /\ roster' = roster
      BY <1>2 DEF Manual, AddRows
  <2> HIDE DEF row
  <2>3. <<row>> \in Seq(Row) /\ \A i \in DOMAIN <<row>> : <<row>>[i].at = hour
      BY <2>1
  <2> QED
      BY <2>2, <2>3, AddRowsHolds
<1>3. ASSUME NEW p \in Person, NEW m \in Meeting, CheckOut(p, m) PROVE LedgerInv'
  <2>1. PICK i \in DOMAIN rows : rows' = [rows EXCEPT ![i].out = TRUE]
      BY <1>3 DEF CheckOut, Marks, PresentOn
  <2> DEFINE row == [rows[i] EXCEPT !.out = TRUE]
  <2>2. rows[i] \in Row
      BY DEF LedgerInv, LedgerTypes
  <2>3. row \in Row /\ row.at = rows[i].at
      BY <2>2 DEF Row
  <2>4. rows' = [rows EXCEPT ![i] = row]
      BY <2>1
  <2> HIDE DEF row
  <2>5. rows' \in Seq(Row) /\ DOMAIN rows' = DOMAIN rows
      BY <2>3, <2>4, ExceptSeq DEF LedgerInv, LedgerTypes
  <2>6. \A j \in DOMAIN rows : rows'[j].at = rows[j].at
      BY <2>3, <2>4
  <2>7. hour' = hour /\ roster' = roster
      BY <1>3 DEF CheckOut
  <2> QED
      BY <2>5, <2>6, <2>7 DEF LedgerInv, LedgerTypes, RowsInOrder
<1>4. CASE AutoAbsent
  <2> DEFINE late == {p \in Waiting : PresentOn(p, LedgerDay) = {}}
             n == Cardinality(late)
  <2>a. late \subseteq Person
      BY DEF Waiting, LedgerInv, LedgerTypes
  <2>b. n \in Nat
      BY <2>a, LedgerAssumption, FS_Subset, FS_CardinalityType
  <2>1. PICK order \in [1 .. n -> Person] :
          /\ rows' = rows \o [i \in DOMAIN order |->
                               NewRow(order[i], AnyMeeting, "absent", NoSimilarity, OffSite)]
          /\ hour' = hour /\ roster' = roster
    <3>1. PICK order \in [1 .. n -> late] :
            rows' = rows \o [i \in DOMAIN order |->
                      NewRow(order[i], AnyMeeting, "absent", NoSimilarity, OffSite)]
        BY <1>4 DEF AutoAbsent, AnyMeeting
    <3>2. order \in [1 .. n -> Person]
        BY <2>a
    <3>3. hour' = hour /\ roster' = roster
        BY <1>4 DEF AutoAbsent
    <3> QED
        BY <3>1, <3>2, <3>3
  <2> HIDE DEF n, late
  <2> DEFINE new == [i \in DOMAIN order |->
                       NewRow(order[i], AnyMeeting, "absent", NoSimilarity, OffSite)]
  <2>2. \A i \in 1 .. n : /\ NewRow(order[i], AnyMeeting, "absent", NoSimilarity, OffSite) \in Row
                          /\ NewRow(order[i], AnyMeeting, "absent", NoSimilarity, OffSite).at = hour
    <3>1. LedgerTypes /\ NoSimilarity \in Int
        BY DEF LedgerInv, NoSimilarity
    <3>2. \A i \in 1 .. n : order[i] \in Person
        BY <2>b
    <3> QED
        BY <3>1, <3>2, NewRowIsTyped
  <2>3. new \in Seq(Row) /\ \A i \in DOMAIN new : new[i].at = hour
      BY <2>b, <2>2
  <2> HIDE DEF new
  <2> QED
      BY <2>1, <2>3, AddRowsHolds DEF new
<1>5. CASE HourPasses
  <2>1. \A i \in DOMAIN rows : rows[i] \in Row
      BY DEF LedgerInv, LedgerTypes
  <2>2. hour' = hour + 1 /\ rows' = rows /\ roster' = roster
      BY <1>5 DEF HourPasses
  <2> QED
      BY <2>1, <2>2 DEF LedgerInv, LedgerTypes, RowsInOrder, Row
<1>6. CASE UNCHANGED ledger
    BY <1>6 DEF ledger, LedgerInv, LedgerTypes, RowsInOrder
<1> QED
    BY <1>1, <1>2, <1>3, <1>4, <1>5, <1>6 DEF LedgerNext

LEMMA LedgerInvariant == LedgerSpec => []LedgerInv
<1> QED
    BY LedgerInitHolds, LedgerNextHolds, PTL DEF LedgerSpec

----------------------------------------------------------------------------
(* The dashboard.                                                          *)

LEMMA NatHasLeast ==
    ASSUME NEW T, T \subseteq Nat, T # {}
    PROVE  \E n \in T : \A k \in T : n <= k
<1> DEFINE below == {0 .. k : k \in T}
<1>1. below \subseteq FiniteSubsetsOf(Nat)
  <2>1. ASSUME NEW k \in T PROVE 0 .. k \in SUBSET Nat /\ IsFiniteSet(0 .. k)
      BY FS_Interval
  <2> QED
      BY <2>1 DEF FiniteSubsetsOf
<1>2. below # {}
    OBVIOUS
<1>3. \E b \in below : \A c \in below : ~ (<<c, b>> \in StrictSubsetOrdering(Nat))
  <2> HIDE DEF below
  <2> QED
      BY ONLY <1>1, <1>2, FS_StrictSubsetOrderingWellFounded, WFMin
<1>4. PICK n \in T : \A k \in T : ~ (<<0 .. k, 0 .. n>> \in StrictSubsetOrdering(Nat))
    BY <1>3
<1>5. ASSUME NEW k \in T, k < n PROVE FALSE
  <2>1. 0 .. k \subseteq 0 .. n /\ n \in 0 .. n /\ n \notin 0 .. k
      BY <1>5
  <2>2. 0 .. k \in SUBSET Nat /\ 0 .. n \in SUBSET Nat
      OBVIOUS
  <2>3. <<0 .. k, 0 .. n>> \in StrictSubsetOrdering(Nat)
      BY <2>1, <2>2, Zenon DEF StrictSubsetOrdering
  <2> QED
      BY <2>3, <1>4
<1> QED
    BY <1>5

LEMMA LastPosition ==
    ASSUME NEW n \in Nat, NEW T, T \subseteq 1 .. n, T # {}
    PROVE  Max(T) \in T /\ \A k \in T : k <= Max(T)
<1> DEFINE gaps == {n - k : k \in T}
<1>1. gaps \subseteq Nat /\ gaps # {}
  <2>1. \A k \in T : k \in 1 .. n /\ n - k \in Nat
      OBVIOUS
  <2> QED
      BY <2>1
<1>2. PICK g \in gaps : \A h \in gaps : g <= h
    BY ONLY <1>1, NatHasLeast
<1>3. PICK m \in T : g = n - m
    BY <1>2
<1>4. ASSUME NEW k \in T PROVE k <= m
  <2>1. n - m <= n - k
      BY <1>2, <1>3
  <2>2. k \in 1 .. n /\ m \in 1 .. n
      BY <1>3
  <2> QED
      BY <2>1, <2>2
<1>5. \A k \in T : m >= k
    BY <1>4
<1>6. Max(T) \in T /\ \A k \in T : Max(T) >= k
    BY <1>5 DEF Max
<1>7. \A k \in T : k \in Nat
    OBVIOUS
<1> QED
    BY <1>6, <1>7

LEMMA DaysInOrder ==
    ASSUME NEW x \in Nat, NEW y \in Nat, x <= y
    PROVE  DayOf(x) \in Nat /\ DayOf(y) \in Nat /\ DayOf(x) <= DayOf(y)
<1> DEFINE d == x \div Ticks
           e == y \div Ticks
<1>1. Ticks \in Nat \ {0}
    BY LedgerAssumption
<1>2. /\ d \in Nat /\ d * Ticks <= x /\ x < (d + 1) * Ticks
      /\ e \in Nat /\ e * Ticks <= y /\ y < (e + 1) * Ticks
    BY <1>1
<1> HIDE DEF d, e
<1>3. ASSUME e + 1 <= d PROVE FALSE
  <2>1. (e + 1) * Ticks <= d * Ticks
      BY <1>1, <1>2, <1>3
  <2>2. (e + 1) * Ticks \in Nat /\ d * Ticks \in Nat
      BY <1>1, <1>2
  <2> QED
      BY <1>2, <2>1, <2>2
<1>4. d <= e
    BY <1>2, <1>3
<1> QED
    BY <1>2, <1>4 DEF DayOf, d, e

\* The newest rows hold the whole day if it has no more of them.
LEMMA BoardIsTheDay ==
    ASSUME LedgerInv, Cardinality(DaysRows) <= Limit
    PROVE  Board = DaysRows
<1>1. PICK n \in Nat : n = Len(rows) /\ DOMAIN rows = 1 .. n
    BY DEF LedgerInv, LedgerTypes
<1>2. \A i \in 1 .. n : rows[i].at \in Nat
  <2>1. \A i \in 1 .. n : rows[i] \in Row
      BY <1>1 DEF LedgerInv, LedgerTypes
  <2> QED
      BY <2>1 DEF Row
<1>3. Limit \in Nat /\ hour \in Nat
    BY LedgerAssumption DEF LedgerInv, LedgerTypes
<1>4. ASSUME NEW i \in DaysRows PROVE i > n - Limit
  <2>1. i \in 1 .. n /\ DayOf(rows[i].at) = LedgerDay
      BY <1>1 DEF DaysRows
  <2>2. i .. n \subseteq DaysRows
    <3>1. ASSUME NEW j \in i .. n PROVE j \in DaysRows
      <4>1. j \in 1 .. n /\ i <= j
          BY <2>1
      <4>2. rows[i].at <= rows[j].at /\ rows[j].at <= hour
          BY <1>1, <2>1, <4>1 DEF LedgerInv, RowsInOrder
      <4>3. DayOf(rows[i].at) <= DayOf(rows[j].at) /\ DayOf(rows[j].at) <= DayOf(hour)
            /\ DayOf(rows[j].at) \in Nat /\ DayOf(hour) \in Nat
          BY <1>2, <1>3, <2>1, <4>1, <4>2, DaysInOrder
      <4>4. DayOf(rows[j].at) = LedgerDay
          BY <2>1, <4>3 DEF LedgerDay
      <4> QED
          BY <1>1, <4>1, <4>4 DEF DaysRows
    <3> QED
        BY <3>1
  <2>3. IsFiniteSet(DaysRows) /\ Cardinality(DaysRows) \in Nat
    <3>1. DaysRows \subseteq 1 .. n /\ IsFiniteSet(1 .. n)
        BY <1>1, FS_Interval DEF DaysRows
    <3> QED
        BY <3>1, FS_Subset, FS_CardinalityType
  <2>4. Cardinality(i .. n) = n - i + 1
    <3>1. i \in Int /\ n \in Int /\ ~(i > n)
        BY <2>1
    <3> QED
        BY <3>1, FS_Interval
  <2>5. Cardinality(i .. n) <= Cardinality(DaysRows)
      BY <2>2, <2>3, FS_Subset
  <2>6. n - i + 1 <= Limit
    <3>1. Cardinality(DaysRows) <= Limit
        OBVIOUS
    <3> HIDE DEF DaysRows
    <3> QED
        BY ONLY <3>1, <2>1, <2>3, <2>4, <2>5, <1>3
  <2> QED
      BY <1>3, <2>1, <2>6
<1>5. DaysRows \subseteq Newest(Limit)
    BY <1>1, <1>4 DEF Newest, DaysRows
<1> QED
    BY <1>5 DEF Board, DaysRows, Newest

LEMMA BoardHolds == LedgerInv => BoardIsRight
<1> SUFFICES ASSUME LedgerInv, Cardinality(DaysRows) <= Limit
             PROVE  /\ PresentIds = {p \in Person : PresentOn(p, LedgerDay) # {}}
                    /\ StillOut = {p \in Person :
                                     \E i \in PresentOn(p, LedgerDay) :
                                        ~rows[i].out /\ \A j \in PresentOn(p, LedgerDay) : j <= i}
                    /\ AbsentToday = Cardinality(Waiting) \/ ~(PresentIds \subseteq roster)
    BY DEF BoardIsRight
<1>1. PICK n \in Nat : DOMAIN rows = 1 .. n
    BY DEF LedgerInv, LedgerTypes
<1>2. \A i \in DOMAIN rows : rows[i].person \in Person
  <2>1. \A i \in DOMAIN rows : rows[i] \in Row
      BY DEF LedgerInv, LedgerTypes
  <2> QED
      BY <2>1 DEF Row
<1>3. BoardPresent = {i \in DOMAIN rows : Present(i) /\ DayOf(rows[i].at) = LedgerDay}
    BY BoardIsTheDay DEF BoardPresent, DaysRows
<1>4. \A p \in Person : {i \in BoardPresent : rows[i].person = p} = PresentOn(p, LedgerDay)
    BY <1>3 DEF PresentOn
<1>5. PresentIds = {p \in Person : PresentOn(p, LedgerDay) # {}}
  <2>1. \A p : p \in PresentIds <=> \E i \in BoardPresent : rows[i].person = p
      BY DEF PresentIds
  <2>2. \A i \in BoardPresent : rows[i].person \in Person
      BY <1>2, <1>3
  <2> QED
      BY <1>4, <2>1, <2>2
<1>6. StillOut = {p \in Person :
                    \E i \in PresentOn(p, LedgerDay) :
                       ~rows[i].out /\ \A j \in PresentOn(p, LedgerDay) : j <= i}
  <2>1. ASSUME NEW p \in Person, PresentOn(p, LedgerDay) # {}
        PROVE  /\ LatestPresent(p) \in PresentOn(p, LedgerDay)
               /\ \A j \in PresentOn(p, LedgerDay) : j <= LatestPresent(p)
    <3>1. PresentOn(p, LedgerDay) \subseteq 1 .. n
        BY <1>1 DEF PresentOn
    <3>2. LatestPresent(p) = Max(PresentOn(p, LedgerDay))
        BY <1>4 DEF LatestPresent
    <3> QED
        BY <2>1, <3>1, <3>2, LastPosition
  <2>2. ASSUME NEW p \in Person, NEW i \in PresentOn(p, LedgerDay),
               \A j \in PresentOn(p, LedgerDay) : j <= i
        PROVE  i = LatestPresent(p)
    <3>1. LatestPresent(p) \in PresentOn(p, LedgerDay) /\ i <= LatestPresent(p)
        BY <2>1
    <3>2. LatestPresent(p) <= i
        BY <2>2, <3>1
    <3>3. i \in Nat /\ LatestPresent(p) \in Nat
        BY <1>1, <3>1 DEF PresentOn
    <3> QED
        BY <3>1, <3>2, <3>3
  <2>3. \A p \in Person : p \in StillOut <=> PresentOn(p, LedgerDay) # {} /\ ~rows[LatestPresent(p)].out
      BY <1>5 DEF StillOut
  <2>4. StillOut \subseteq Person
      BY <1>5 DEF StillOut
  <2>5. ASSUME NEW p \in Person
        PROVE  p \in StillOut <=> \E i \in PresentOn(p, LedgerDay) :
                                     ~rows[i].out /\ \A j \in PresentOn(p, LedgerDay) : j <= i
      BY <2>1, <2>2, <2>3
  <2> QED
      BY <2>4, <2>5
<1>7. ASSUME PresentIds \subseteq roster PROVE AbsentToday = Cardinality(Waiting)
  <2>1. IsFiniteSet(roster)
      BY LedgerAssumption, FS_Subset DEF LedgerInv, LedgerTypes
  <2>2. IsFiniteSet(PresentIds)
      BY <1>7, <2>1, FS_Subset
  <2>3. roster \cap PresentIds = PresentIds
      BY <1>7
  <2>4. /\ Cardinality(Waiting) = Cardinality(roster) - Cardinality(PresentIds)
        /\ Cardinality(Waiting) \in Nat
    <3>1. Cardinality(roster \ PresentIds) = Cardinality(roster) - Cardinality(roster \cap PresentIds)
          /\ IsFiniteSet(roster \ PresentIds)
        BY <2>1, <2>2, FS_Difference
    <3> QED
        BY <2>3, <3>1, FS_CardinalityType DEF Waiting
  <2>5. \A x \in Nat : Max({x, 0}) = x
    <3> SUFFICES ASSUME NEW x \in Nat PROVE Max({x, 0}) = x
        OBVIOUS
    <3>1. \E y \in {x, 0} : \A z \in {x, 0} : y >= z
        BY x \in {x, 0}
    <3>2. Max({x, 0}) \in {x, 0} /\ \A z \in {x, 0} : Max({x, 0}) >= z
        BY <3>1 DEF Max
    <3> QED
        BY <3>2
  <2> QED
      BY <2>4, <2>5 DEF AbsentToday
<1> QED
    BY <1>5, <1>6, <1>7

\* For any people and any number of rows, the dashboard tells who is in, who
\* is waited for and who has not left as long as the day fits under the
\* limit of summary (ops.py:169).
THEOREM BoardIsRightCorrect == LedgerSpec => []BoardIsRight
<1> QED
    BY BoardHolds, LedgerInvariant, PTL

----------------------------------------------------------------------------
(* The trust of a newcomer's punch.                                        *)

LEMMA BehaviourIsDamped ==
    ASSUME NEW p, NEW k, Cardinality(History(p, k)) < 5
    PROVE  Behaviour(p, k) \in 12 .. 20
<1> DEFINE risk == Min({Risk(p, k), 100})
<1>1. Risk(p, k) \in Nat
    BY DEF Risk, Rule
<1>2. risk \in 0 .. 100
  <2> HIDE DEF Risk
  <2>1. \E y \in {Risk(p, k), 100} : \A z \in {Risk(p, k), 100} : y <= z
      BY <1>1, Risk(p, k) \in {Risk(p, k), 100}, 100 \in {Risk(p, k), 100}
  <2>2. risk \in {Risk(p, k), 100} /\ \A z \in {Risk(p, k), 100} : risk <= z
      BY <2>1 DEF Min
  <2> QED
      BY <1>1, <2>2
<1>3. Behaviour(p, k) = ((1000 - 4 * risk) * 20) \div 1000
    BY DEF Behaviour
<1> HIDE DEF risk
<1> QED
    BY <1>2, <1>3

LEMMA LogsAreNumbers ==
    /\ \A c \in Confidence : Log[c] \in Int
    /\ Log[10] = -693
    /\ \A c \in 12 .. 20 : Log[c] >= -693
<1> DEFINE table == <<-9210, -2996, -2303, -1897, -1609, -1386, -1204, -1050, -916, -799, -693,
                      -598, -511, -431, -357, -288, -223, -163, -105, -51, 0>>
<1>1. \A c \in Confidence : Log[c] = table[c + 1]
    BY DEF Log
<1>2. \A c \in 1 .. 21 : table[c] \in Int
    OBVIOUS
<1>3. table[11] = -693 /\ \A c \in 13 .. 21 : table[c] >= -693
    OBVIOUS
<1> HIDE DEF table
<1> QED
    BY <1>1, <1>2, <1>3 DEF Confidence

\* A fourth signal that speaks for a punch cannot turn it down.
LEMMA TrustGrows ==
    ASSUME NEW others, NEW all, NEW behaviour \in 12 .. 20,
           DOMAIN others = {"face", "pad", "vcd"},
           DOMAIN all = {"face", "pad", "vcd", "behaviour"},
           \A s \in DOMAIN others : all[s] = others[s],
           all["behaviour"] = behaviour,
           PresenceTrust(others) = "accept"
    PROVE  PresenceTrust(all) = "accept"
<1> DEFINE before == Heard(others)
           after == Heard(all)
<1>1. /\ DOMAIN after = DOMAIN before \cup {"behaviour"}
      /\ after["behaviour"] = behaviour
      /\ \A s \in DOMAIN before : after[s] = before[s] /\ before[s] \in Confidence
      /\ DOMAIN before \subseteq {"face", "pad", "vcd"}
  <2>1. before = [s \in {s \in DOMAIN others : others[s] \in Confidence} |-> others[s]]
      BY DEF Heard
  <2>2. after = [s \in {s \in DOMAIN all : all[s] \in Confidence} |-> all[s]]
      BY DEF Heard
  <2>3. behaviour \in Confidence
      BY DEF Confidence
  <2> HIDE DEF before, after
  <2> QED
      BY <2>1, <2>2, <2>3
<1>2. DOMAIN before # {} /\ Trusted(before) /\ Vetoes(before) = {}
    BY Zenon DEF PresenceTrust
<1> HIDE DEF before, after
<1>3. Vetoes(after) = {}
  <2>1. ~(behaviour < SignalFloor)
      BY DEF SignalFloor
  <2>2. \A s \in DOMAIN before : ~(before[s] < SignalFloor)
      BY <1>2 DEF Vetoes
  <2> QED
      BY <1>1, <2>1, <2>2 DEF Vetoes
<1>4. /\ TotalWeight(before) \in Nat /\ TotalWeight(after) = TotalWeight(before) + 4
      /\ WeightedLog(before) \in Int /\ WeightedLog(after) = WeightedLog(before) + 4 * Log[behaviour]
  <2>1. /\ \A value : Term(before, "behaviour", value) = 0
        /\ \A value : Term(after, "behaviour", value) = value
        /\ \A s \in {"face", "pad", "vcd"} : \A value : Term(after, s, value) = Term(before, s, value)
      BY <1>1 DEF Term
  <2>2. \A s \in {"face", "pad", "vcd"} : \A value \in Int : Term(before, s, value) \in Int
      BY DEF Term
  <2>3. \A s \in {"face", "pad", "vcd"} :
          Term(after, s, Weight[s] * Log[after[s]]) = Term(before, s, Weight[s] * Log[before[s]])
      BY <1>1 DEF Term
  <2>4. /\ Weight.face = 6 /\ Weight.pad = 5 /\ Weight.vcd = 5 /\ Weight.behaviour = 4
      BY DEF Weight
  <2>5. TotalWeight(before) = Term(before, "face", 6) + Term(before, "pad", 5) + Term(before, "vcd", 5) + 0
        /\ TotalWeight(after) = Term(before, "face", 6) + Term(before, "pad", 5) + Term(before, "vcd", 5) + 4
      BY <2>1, <2>4 DEF TotalWeight
  <2>6. TotalWeight(before) \in Nat /\ TotalWeight(after) = TotalWeight(before) + 4
    <3>1. Term(before, "face", 6) \in Nat /\ Term(before, "pad", 5) \in Nat /\ Term(before, "vcd", 5) \in Nat
        BY DEF Term
    <3> QED
        BY <2>5, <3>1
  <2>7. \A s \in {"face", "pad", "vcd"} : Term(before, s, Weight[s] * Log[before[s]]) \in Int
    <3>1. ASSUME NEW s \in {"face", "pad", "vcd"}, s \in DOMAIN before
          PROVE  Weight[s] * Log[before[s]] \in Int
      <4>1. Log[before[s]] \in Int
          BY <1>1, <3>1, LogsAreNumbers
      <4>2. Weight[s] \in Int
          BY DEF Weight
      <4> QED
          BY <4>1, <4>2
    <3> QED
        BY <3>1 DEF Term
  <2>8. WeightedLog(before) = Term(before, "face", Weight.face * Log[before.face])
                              + Term(before, "pad", Weight.pad * Log[before.pad])
                              + Term(before, "vcd", Weight.vcd * Log[before.vcd]) + 0
      BY <2>1 DEF WeightedLog
  <2>9. WeightedLog(after) = Term(before, "face", Weight.face * Log[before.face])
                             + Term(before, "pad", Weight.pad * Log[before.pad])
                             + Term(before, "vcd", Weight.vcd * Log[before.vcd])
                             + 4 * Log[behaviour]
      BY <1>1, <2>1, <2>3, <2>4 DEF WeightedLog
  <2>10. Log[behaviour] \in Int
    <3>1. behaviour \in Confidence
        BY DEF Confidence
    <3> QED
        BY <3>1, LogsAreNumbers
  <2> QED
      BY <2>6, <2>7, <2>8, <2>9, <2>10
<1>5. Log[behaviour] \in Int /\ Log[TrustThresh] = -693 /\ Log[behaviour] >= -693
  <2>1. behaviour \in Confidence
      BY DEF Confidence
  <2> QED
      BY <2>1, LogsAreNumbers DEF TrustThresh
<1>6. Trusted(after)
  <2>1. WeightedLog(before) >= TotalWeight(before) * (-693)
      BY <1>2, <1>5 DEF Trusted
  <2>2. WeightedLog(before) + 4 * Log[behaviour] >= (TotalWeight(before) + 4) * (-693)
      BY <1>4, <1>5, <2>1
  <2> QED
      BY <1>4, <1>5, <2>2 DEF Trusted
<1>7. DOMAIN after # {}
    BY <1>1
<1> QED
    BY <1>3, <1>6, <1>7, Zenon DEF PresenceTrust, after

LEMMA Newcomers == NewcomersAreNotAccused
<1> SUFFICES ASSUME NEW k, NEW p, NEW face, NEW behaviour,
                    behaviour = Behaviour(p, k), Cardinality(History(p, k)) < 5,
                    NEW pad \in {-1, 5, 20}, NEW vcd \in {-1, 5, 20},
                    PresenceTrust([face |-> face, pad |-> pad, vcd |-> vcd]) = "accept"
             PROVE  PresenceTrust([face |-> face, pad |-> pad, vcd |-> vcd, behaviour |-> behaviour])
                      = "accept"
    BY Zenon DEF NewcomersAreNotAccused
<1>1. behaviour \in 12 .. 20
    BY BehaviourIsDamped
<1> DEFINE others == [face |-> face, pad |-> pad, vcd |-> vcd]
           all == [face |-> face, pad |-> pad, vcd |-> vcd, behaviour |-> behaviour]
<1>2. /\ DOMAIN others = {"face", "pad", "vcd"}
      /\ DOMAIN all = {"face", "pad", "vcd", "behaviour"}
      /\ \A s \in DOMAIN others : all[s] = others[s]
      /\ all["behaviour"] = behaviour
    OBVIOUS
<1>3. PresenceTrust(others) = "accept"
    OBVIOUS
<1> HIDE DEF others, all
<1>4. PresenceTrust(all) = "accept"
    BY <1>1, <1>2, <1>3, TrustGrows
<1> QED
    BY <1>4 DEF all

\* For anybody with fewer than five rows, whatever they are, the behaviour
\* costs no punch that the other signals accept (behaviour.py:263).
THEOREM NewcomersAreNotAccusedCorrect == LedgerSpec => []NewcomersAreNotAccused
<1> QED
    BY Newcomers, PTL

----------------------------------------------------------------------------
(* The tables across releases.                                            *)

\* What a revision after n creates, and what one adds to a table
LaterTable(n, t) == \E m \in n + 1 .. LastRevision : t \in DOMAIN Revision[m].creates
LaterColumn(n, t, x) == \E m \in n + 1 .. LastRevision : x \in Of(Revision[m].adds, t)

\* The tables of public at revision n: none of a later one, and of what
\* models.py declares all that no later one brings.
TablesAt(n, tables) ==
    /\ \A t \in DOMAIN tables : ~LaterTable(n, t)
    /\ \A t \in DOMAIN Models : ~LaterTable(n, t) =>
         /\ t \in DOMAIN tables
         /\ \A x \in Models[t] : ~LaterColumn(n, t, x) => x \in tables[t]
    /\ n >= 7 => "uq_username" \notin tables["user"]

\* A schema of an organization has copies of tables of public.
CopiesAt(n, c) ==
    /\ Public \in DOMAIN c
    /\ n < 7 => Schemas(c) = {}
    /\ \A s \in Schemas(c) :
         /\ DOMAIN c[s] \subseteq TenantTables \cap DOMAIN c[Public]
         /\ \A t \in DOMAIN c[s] : c[s][t] = c[Public][t]

\* All schemas are those of revision n.
CatalogAt(n, c) == n \in 0 .. LastRevision /\ TablesAt(n, c[Public]) /\ CopiesAt(n, c)

Stages == {"down", "tables", "columns", "upgrade", "tenants", "up"}

ServerType ==
    server \in [at : Stages, next : Nat, todo : SUBSET Tenant, open : SUBSET Tenant,
                boots : BOOLEAN,
                draft : [catalog : {server.draft.catalog}, tenants : SUBSET Tenant]]

Ready(tables) ==
    /\ \A t \in DOMAIN Models : Complete(tables, t)
    /\ "uq_username" \notin tables["user"]

\* The repair of a file has got to column server.next of its list, and a
\* server that is up has got through.
SqliteOK ==
    /\ server.at = "up" => Ready(catalog[Public])
    /\ server.at \in {"down", "tables", "columns", "up"}
    /\ Public \in DOMAIN catalog
    /\ server.at = "columns" => DOMAIN Models \subseteq DOMAIN catalog[Public]
    /\ server.at = "columns" =>
         /\ server.next >= 1
         /\ \A i \in 1 .. server.next - 1 :
              SqliteColumns[i][2] \in catalog[Public][SqliteColumns[i][1]]

\* What is committed is at the revision the database names, and the draft at
\* the one the upgrade has got to; the organizations that the boot or a
\* request has done with have all their tables.
PostgresOK ==
    /\ server.at \in {"down", "upgrade", "tenants", "up"}
    /\ CatalogAt(revision, catalog)
    /\ server.at = "upgrade" => CatalogAt(server.next, server.draft.catalog)
    /\ server.at \in {"tenants", "up"} =>
         /\ revision = LastRevision
         /\ \A o \in tenants \ (server.todo \cup server.open) :
              o \in DOMAIN catalog /\ TenantTables \subseteq DOMAIN catalog[o]
    /\ server.at = "up" => server.todo = {}

MigrationsInv ==
    /\ dialect \in {"sqlite", "postgres"}
    /\ tenants \subseteq Tenant
    /\ ServerType
    /\ dialect = "sqlite" => SqliteOK
    /\ dialect = "postgres" => PostgresOK

\* What the revisions create, table by table
CreatedBy(n) ==
    CASE n = 1 -> {"person", "user", "faceembedding", "accessevent", "attendance", "appsetting"}
      [] n = 2 -> {"holiday"}
      [] n = 4 -> {"spoofalert"}
      [] n = 5 -> {"site", "offering", "enrollment", "occurrence"}
      [] n = 6 -> {"organization"}
      [] n = 7 -> {"platform_user"}
      [] n = 9 -> {"assistchunk", "assistmessage"}
      [] n = 10 -> {"captureprobe"}
      [] OTHER -> {}

LEMMA RevisionNumbers ==
    /\ LastRevision = 10
    /\ Revision[1] = InitialSchema /\ Revision[2] = Ops /\ Revision[3] = KioskPin
    /\ Revision[4] = SpoofAlerts /\ Revision[5] = AttendanceModes /\ Revision[6] = Organizations
    /\ Revision[7] = SchemaPerOrg /\ Revision[8] = PostgisGeo /\ Revision[9] = AssistTables
    /\ Revision[10] = CaptureProbeTrust
BY DEF LastRevision, Revision

\* Each revision creates the tables of CreatedBy.
LEMMA Creations == \A n \in 1 .. LastRevision : DOMAIN Revision[n].creates = CreatedBy(n)
<1>1. DOMAIN InitialSchema.creates = CreatedBy(1) BY DEF InitialSchema, Nothing, CreatedBy
<1>2. DOMAIN Ops.creates = CreatedBy(2) BY DEF Ops, Nothing, CreatedBy
<1>3. DOMAIN KioskPin.creates = CreatedBy(3) BY DEF KioskPin, Nothing, CreatedBy
<1>4. DOMAIN SpoofAlerts.creates = CreatedBy(4) BY DEF SpoofAlerts, Nothing, CreatedBy
<1>5. DOMAIN AttendanceModes.creates = CreatedBy(5) BY DEF AttendanceModes, Nothing, CreatedBy
<1>6. DOMAIN Organizations.creates = CreatedBy(6) BY DEF Organizations, CreatedBy
<1>7. DOMAIN SchemaPerOrg.creates = CreatedBy(7) BY DEF SchemaPerOrg, CreatedBy
<1>8. DOMAIN PostgisGeo.creates = CreatedBy(8) BY DEF PostgisGeo, Nothing, CreatedBy
<1>9. DOMAIN AssistTables.creates = CreatedBy(9) BY DEF AssistTables, Nothing, CreatedBy
<1>10. DOMAIN CaptureProbeTrust.creates = CreatedBy(10) BY DEF CaptureProbeTrust, Nothing, CreatedBy
<1> QED BY <1>1, <1>2, <1>3, <1>4, <1>5, <1>6, <1>7, <1>8, <1>9, <1>10, RevisionNumbers

LEMMA ModelTables ==
    DOMAIN Models = {"organization", "platform_user", "user", "person", "faceembedding",
                     "accessevent", "site", "offering", "enrollment", "occurrence", "attendance",
                     "appsetting", "holiday", "spoofalert", "captureprobe", "assistchunk",
                     "assistmessage"}
BY DEF Models, Joined, IdentityModels, TimetableModels, AttendanceModels, SettingModels,
       EvidenceModels

\* What models.py declares, table by table
LEMMA ModelColumns ==
    /\ Models["organization"] = {"slug"}
    /\ Models["user"] = {"role", "org_id", "person_id", "uq_user_org_username"}
    /\ Models["person"] = {"org_id", "email", "department", "office", "shift_start", "shift_end",
                           "is_active", "deactivated_at"}
    /\ Models["attendance"] =
         {"org_id", "occurrence_id", "site_id", "source", "late", "early_leave", "latitude",
          "longitude", "trust_score", "trust_breakdown_json", "checked_out_at"}
    /\ Models["appsetting"] =
         {"office_name", "geo_lat", "geo_lng", "geo_radius_m", "weekend", "notify_late",
          "allow_kiosk_pin", "org_type", "kernel", "subject_label", "subject_label_plural",
          "staff_label", "group_label", "id_label", "require_checkout", "allow_checkout",
          "track_late", "track_early_leave", "geofence_on_self_punch", "auto_absent_at_close",
          "allow_multiple_present_per_day"}
    /\ \A t \in {"accessevent", "site", "offering", "enrollment", "occurrence", "holiday",
                  "spoofalert"} : Models[t] = {"org_id"}
    /\ \A t \in {"platform_user", "faceembedding", "captureprobe", "assistchunk",
                  "assistmessage"} : Models[t] = {}
BY DEF Models, Joined, IdentityModels, TimetableModels, AttendanceModels, SettingModels,
       EvidenceModels

\* One revision creates each table of models.py, and none creates one twice.
LEMMA TablesAreCreatedOnce ==
    /\ \A t \in DOMAIN Models : \E n \in 1 .. LastRevision : t \in DOMAIN Revision[n].creates
    /\ \A m, n \in 1 .. LastRevision : \A t :
         t \in DOMAIN Revision[m].creates /\ t \in DOMAIN Revision[n].creates => m = n
<1>1. \A t \in DOMAIN Models : \E n \in 1 .. LastRevision : t \in CreatedBy(n)
  <2> SUFFICES ASSUME NEW t \in DOMAIN Models PROVE \E n \in 1 .. 10 : t \in CreatedBy(n)
    BY RevisionNumbers
  <2>1. CASE t \in {"person", "user", "faceembedding", "accessevent", "attendance", "appsetting"}
    <3>1. t \in CreatedBy(1) BY <2>1 DEF CreatedBy
    <3> QED BY <3>1
  <2>2. CASE t \in {"site", "offering", "enrollment", "occurrence"}
    <3>1. t \in CreatedBy(5) BY <2>2 DEF CreatedBy
    <3> QED BY <3>1
  <2>3. CASE t \in {"assistchunk", "assistmessage"}
    <3>1. t \in CreatedBy(9) BY <2>3 DEF CreatedBy
    <3> QED BY <3>1
  <2>4. /\ "holiday" \in CreatedBy(2) /\ "spoofalert" \in CreatedBy(4)
        /\ "organization" \in CreatedBy(6)
        /\ "platform_user" \in CreatedBy(7) /\ "captureprobe" \in CreatedBy(10)
    BY DEF CreatedBy
  <2> QED BY <2>1, <2>2, <2>3, <2>4, ModelTables
<1>2. ASSUME NEW m \in 1 .. 10, NEW n \in 1 .. 10, NEW t, t \in CreatedBy(m), t \in CreatedBy(n)
      PROVE  m = n
  BY <1>2 DEF CreatedBy
<1> QED BY <1>1, <1>2, Creations, RevisionNumbers

\* What each revision adds to which tables that are there
AddedBy(n, t) ==
    CASE n = 2 /\ t = "person" -> {"department", "office", "shift_start", "shift_end"}
      [] n = 2 /\ t = "attendance" -> {"early_leave", "latitude", "longitude"}
      [] n = 2 /\ t = "appsetting" -> {"office_name", "geo_lat", "geo_lng", "geo_radius_m",
                                       "weekend", "notify_late"}
      [] n = 3 /\ t = "appsetting" -> {"allow_kiosk_pin"}
      [] n = 5 /\ t = "attendance" -> {"occurrence_id", "site_id"}
      [] n = 5 /\ t = "appsetting" ->
           {"org_type", "kernel", "subject_label", "subject_label_plural", "staff_label",
            "group_label", "id_label", "require_checkout", "allow_checkout", "track_late",
            "track_early_leave", "geofence_on_self_punch", "auto_absent_at_close",
            "allow_multiple_present_per_day"}
      [] n = 6 /\ t \in OrgTables ->
           {"org_id"} \cup (IF t = "person" THEN {"uq_person_org_employee_id"} ELSE {})
      [] n = 7 /\ t = "organization" -> {"slug"}
      [] n = 7 /\ t = "user" -> {"uq_user_org_username"}
      [] n = 8 /\ t = "site" -> {"geom"}
      [] n = 8 /\ t = "attendance" -> {"punch_geom"}
      [] n = 10 /\ t = "attendance" -> {"trust_score", "trust_breakdown_json"}
      [] OTHER -> {}

\* and which these tables are
AlteredTables(n) ==
    CASE n = 2 -> {"person", "attendance", "appsetting"}
      [] n = 3 -> {"appsetting"}
      [] n = 5 -> {"attendance", "appsetting"}
      [] n = 6 -> OrgTables
      [] n = 7 -> {"organization", "user"}
      [] n = 8 -> {"site", "attendance"}
      [] n = 10 -> {"attendance"}
      [] OTHER -> {}

LEMMA AddedColumns ==
    \A n \in 1 .. LastRevision :
        /\ DOMAIN Revision[n].adds = AlteredTables(n)
        /\ \A t : Of(Revision[n].adds, t) = AddedBy(n, t)
<1> DEFINE Right(r, n) == DOMAIN r.adds = AlteredTables(n) /\ \A t : Of(r.adds, t) = AddedBy(n, t)
<1>0. /\ InitialSchema.adds = <<>> /\ SpoofAlerts.adds = <<>> /\ AssistTables.adds = <<>>
      /\ \A t : Of(<<>>, t) = {} /\ DOMAIN <<>> = {}
  BY DEF Nothing, InitialSchema, SpoofAlerts, AssistTables, Of
<1>1. Right(InitialSchema, 1) BY <1>0 DEF AlteredTables, AddedBy
<1>2. Right(Ops, 2) BY DEF Ops, Nothing, Of, AlteredTables, AddedBy
<1>3. Right(KioskPin, 3) BY DEF KioskPin, Nothing, Of, AlteredTables, AddedBy
<1>4. Right(SpoofAlerts, 4) BY <1>0 DEF AlteredTables, AddedBy
<1>5. Right(AttendanceModes, 5) BY DEF AttendanceModes, Nothing, Of, AlteredTables, AddedBy
<1>6. Right(Organizations, 6) BY DEF Organizations, Of, AlteredTables, AddedBy
<1>7. Right(SchemaPerOrg, 7) BY DEF SchemaPerOrg, Of, AlteredTables, AddedBy
<1>8. Right(PostgisGeo, 8) BY DEF PostgisGeo, Nothing, Of, AlteredTables, AddedBy
<1>9. Right(AssistTables, 9) BY <1>0 DEF AlteredTables, AddedBy
<1>10. Right(CaptureProbeTrust, 10) BY DEF CaptureProbeTrust, Nothing, Of, AlteredTables, AddedBy
<1> HIDE DEF Right
<1>11. \A n \in 1 .. 10 : Right(Revision[n], n)
  BY <1>1, <1>2, <1>3, <1>4, <1>5, <1>6, <1>7, <1>8, <1>9, <1>10, RevisionNumbers
<1> QED BY <1>11, RevisionNumbers DEF Right

\* 0006 gives every table of its list an organization.
LEMMA OrgColumn == \A t \in OrgTables : "org_id" \in Of(Revision[6].adds, t)
<1>1. \A t \in OrgTables : "org_id" \in AddedBy(6, t) BY DEF AddedBy
<1> QED BY <1>1, AddedColumns, RevisionNumbers

\* Each column of models.py is there when its table is created, or comes later.
LEMMA ColumnsCome ==
    ASSUME NEW n \in 1 .. LastRevision, NEW t \in DOMAIN Models, t \in DOMAIN Revision[n].creates,
           NEW x \in Models[t]
    PROVE  \/ x \in Revision[n].creates[t]
           \/ \E m \in n .. LastRevision : x \in Of(Revision[m].adds, t)
<1> USE RevisionNumbers
<1> DEFINE Comes == \E m \in n .. 10 : x \in Of(Revision[m].adds, t)
<1>1. t \in CreatedBy(n) BY Creations
<1>2. CASE t = "organization"
  <2>1. n = 6 /\ x = "slug"
    BY <1>1, <1>2, ModelColumns DEF CreatedBy
  <2> QED BY <2>1, <1>2, AddedColumns DEF AddedBy
<1>3. CASE t = "user"
  <2>1. n = 1 /\ x \in {"role", "org_id", "person_id", "uq_user_org_username"}
    BY <1>1, <1>3, ModelColumns DEF CreatedBy
  <2>2. "user" \in OrgTables BY DEF OrgTables
  <2>3. CASE x \in {"role", "person_id"}
    BY <2>1, <2>3, <1>3 DEF InitialSchema, Nothing
  <2>4. CASE x = "org_id"
    <3>1. x \in Of(Revision[6].adds, t) BY <2>4, <2>2, <1>3, OrgColumn
    <3> QED BY <3>1, <2>1
  <2>5. CASE x = "uq_user_org_username"
    <3>1. x \in Of(Revision[7].adds, t) BY <2>5, <1>3, AddedColumns DEF AddedBy
    <3> QED BY <3>1, <2>1
  <2> QED BY <2>1, <2>3, <2>4, <2>5
<1>4. CASE t = "person"
  <2>1. n = 1 /\ x \in {"org_id", "email", "department", "office", "shift_start", "shift_end",
                        "is_active", "deactivated_at"}
    BY <1>1, <1>4, ModelColumns DEF CreatedBy
  <2>2. "person" \in OrgTables BY DEF OrgTables
  <2>3. CASE x \in {"email", "is_active", "deactivated_at"}
    BY <2>1, <2>3, <1>4 DEF InitialSchema, Nothing
  <2>4. CASE x = "org_id"
    <3>1. x \in Of(Revision[6].adds, t) BY <2>4, <2>2, <1>4, OrgColumn
    <3> QED BY <3>1, <2>1
  <2>5. CASE x \in {"department", "office", "shift_start", "shift_end"}
    <3>1. x \in Of(Revision[2].adds, t) BY <2>5, <1>4, AddedColumns DEF AddedBy
    <3> QED BY <3>1, <2>1
  <2> QED BY <2>1, <2>3, <2>4, <2>5
<1>5. CASE t = "attendance"
  <2>1. n = 1 /\ x \in {"org_id", "occurrence_id", "site_id", "source", "late", "early_leave",
                        "latitude", "longitude", "trust_score", "trust_breakdown_json",
                        "checked_out_at"}
    BY <1>1, <1>5, ModelColumns DEF CreatedBy
  <2>2. "attendance" \in OrgTables BY DEF OrgTables
  <2>3. CASE x \in {"source", "late", "checked_out_at"}
    BY <2>1, <2>3, <1>5 DEF InitialSchema, Nothing
  <2>4. CASE x = "org_id"
    <3>1. x \in Of(Revision[6].adds, t) BY <2>4, <2>2, <1>5, OrgColumn
    <3> QED BY <3>1, <2>1
  <2>5. CASE x \in {"early_leave", "latitude", "longitude"}
    <3>1. x \in Of(Revision[2].adds, t) BY <2>5, <1>5, AddedColumns DEF AddedBy
    <3> QED BY <3>1, <2>1
  <2>6. CASE x \in {"occurrence_id", "site_id"}
    <3>1. x \in Of(Revision[5].adds, t) BY <2>6, <1>5, AddedColumns DEF AddedBy
    <3> QED BY <3>1, <2>1
  <2>7. CASE x \in {"trust_score", "trust_breakdown_json"}
    <3>1. x \in Of(Revision[10].adds, t) BY <2>7, <1>5, AddedColumns DEF AddedBy
    <3> QED BY <3>1, <2>1
  <2> QED BY <2>1, <2>3, <2>4, <2>5, <2>6, <2>7
<1>6. CASE t = "appsetting"
  <2>1. n = 1 /\ \/ x \in Of(Revision[2].adds, "appsetting")
                 \/ x \in Of(Revision[3].adds, "appsetting")
                 \/ x \in Of(Revision[5].adds, "appsetting")
    BY <1>1, <1>6, AddedColumns, ModelColumns DEF CreatedBy, AddedBy
  <2> QED BY <2>1, <1>6
<1>7. CASE t \in {"accessevent", "site", "offering", "enrollment", "occurrence", "holiday",
                   "spoofalert"}
  <2>1. n \in {1, 2, 4, 5} /\ x = "org_id"
    BY <1>1, <1>7, ModelColumns DEF CreatedBy
  <2>2. t \in OrgTables BY <1>7 DEF OrgTables
  <2>3. x \in Of(Revision[6].adds, t) BY <2>1, <2>2, OrgColumn
  <2> QED BY <2>1, <2>3
<1>8. CASE t \in {"platform_user", "faceembedding", "captureprobe", "assistchunk", "assistmessage"}
  <2>1. Models[t] = {}
    BY <1>8, ModelColumns
  <2> QED BY <2>1
<1> QED BY <1>2, <1>3, <1>4, <1>5, <1>6, <1>7, <1>8, ModelTables

\* No revision drops what models.py declares, and 0007 drops the old username key.
LEMMA Drops ==
    /\ \A n \in 1 .. LastRevision, t \in DOMAIN Models :
         Of(Revision[n].drops, t) \cap Models[t] = {}
    /\ "uq_username" \in Of(Revision[7].drops, "user")
    /\ \A n \in (1 .. LastRevision) \ {6, 7} : \A t : Of(Revision[n].drops, t) = {}
<1> USE RevisionNumbers
<1>1. \A t : \A n \in {1, 2, 3, 4, 5, 8, 9, 10} : Of(Revision[n].drops, t) = {}
  <2>1. /\ InitialSchema.drops = <<>> /\ Ops.drops = <<>> /\ KioskPin.drops = <<>>
        /\ SpoofAlerts.drops = <<>> /\ AttendanceModes.drops = <<>>
    BY DEF Nothing, InitialSchema, Ops, KioskPin, SpoofAlerts, AttendanceModes
  <2>2. PostgisGeo.drops = <<>> /\ AssistTables.drops = <<>> /\ CaptureProbeTrust.drops = <<>>
    BY DEF Nothing, PostgisGeo, AssistTables, CaptureProbeTrust
  <2>3. \A t : Of(<<>>, t) = {} BY DEF Of
  <2> QED BY <2>1, <2>2, <2>3
<1>2. /\ \A t : t # "person" => Of(Revision[6].drops, t) = {}
      /\ Of(Revision[6].drops, "person") = {"person_employee_id_key"}
  BY DEF Of, Organizations
<1>3. /\ \A t : t # "user" => Of(Revision[7].drops, t) = {}
      /\ Of(Revision[7].drops, "user") = {"uq_username"}
  BY DEF Of, SchemaPerOrg
<1>4. "person_employee_id_key" \notin Models["person"] /\ "uq_username" \notin Models["user"]
  BY DEF Models, Joined, IdentityModels
<1>5. \A n \in 1 .. 10, t \in DOMAIN Models : Of(Revision[n].drops, t) \cap Models[t] = {}
  <2> SUFFICES ASSUME NEW n \in 1 .. 10, NEW t \in DOMAIN Models
               PROVE  Of(Revision[n].drops, t) \cap Models[t] = {}
    OBVIOUS
  <2>1. CASE n = 6 BY <2>1, <1>2, <1>4
  <2>2. CASE n = 7 BY <2>2, <1>3, <1>4
  <2> QED BY <2>1, <2>2, <1>1
<1> QED BY <1>1, <1>3, <1>5

\* What the revisions after 0007 leave alone
LEMMA NewestRevisions ==
    /\ \A n \in 8 .. LastRevision : "uq_username" \notin Of(Revision[n].adds, "user")
    /\ \A t : Of(Revision[9].adds, t) = {}
    /\ DOMAIN Revision[8].creates = {}
<1> USE RevisionNumbers
<1>1. "uq_username" \notin Of(Revision[8].adds, "user")
  BY DEF Of, PostgisGeo, Nothing
<1>2. \A t : Of(Revision[9].adds, t) = {}
  BY DEF Of, AssistTables, Nothing
<1>3. "uq_username" \notin Of(Revision[10].adds, "user")
  BY DEF Of, CaptureProbeTrust, Nothing
<1> QED BY <1>1, <1>2, <1>3, Creations DEF CreatedBy

\* What is later than one revision is in the next or later than that.
LEMMA LaterStep ==
    ASSUME NEW n \in 1 .. LastRevision
    PROVE  /\ \A t : LaterTable(n - 1, t) <=> t \in DOMAIN Revision[n].creates \/ LaterTable(n, t)
           /\ \A t, x :
                LaterColumn(n - 1, t, x) <=> x \in Of(Revision[n].adds, t) \/ LaterColumn(n, t, x)
<1> USE RevisionNumbers
<1>1. (n - 1) + 1 .. 10 = {n} \cup (n + 1 .. 10) OBVIOUS
<1> QED BY <1>1 DEF LaterTable, LaterColumn

\* 0001 creates the table of users.
LEMMA UserIsOld ==
    ASSUME NEW n \in 1 .. LastRevision PROVE "user" \in DOMAIN Models /\ ~LaterTable(n, "user")
BY Creations, ModelTables, RevisionNumbers DEF LaterTable, CreatedBy

\* A revision makes of the tables of the one before it those of its own.
LEMMA EvolvedTables ==
    ASSUME NEW n \in 1 .. LastRevision, NEW tables, TablesAt(n - 1, tables)
    PROVE  TablesAt(n, Evolved(tables, Revision[n]))
<1> USE RevisionNumbers
<1> DEFINE r == Revision[n]
           new == Evolved(tables, r)
<1> HIDE DEF r
<1>1. DOMAIN new = DOMAIN tables \cup DOMAIN r.creates BY DEF Evolved
<1>2. \A t \in DOMAIN new : new[t] =
         ((IF t \in DOMAIN tables THEN tables[t] ELSE r.creates[t]) \cup Of(r.adds, t))
           \ Of(r.drops, t)
  BY DEF Evolved
<1> HIDE DEF new
<1>3. DOMAIN tables \cap DOMAIN r.creates = {}
  BY LaterStep DEF TablesAt, r
<1>4. \A t \in DOMAIN new : ~LaterTable(n, t)
  <2>1. \A t \in DOMAIN tables : ~LaterTable(n, t) BY LaterStep DEF TablesAt
  <2>2. \A t \in DOMAIN r.creates : ~LaterTable(n, t)
    BY TablesAreCreatedOnce DEF LaterTable, r
  <2> QED BY <2>1, <2>2, <1>1
<1>5. ASSUME NEW t \in DOMAIN Models, ~LaterTable(n, t)
      PROVE  t \in DOMAIN new /\ \A x \in Models[t] : ~LaterColumn(n, t, x) => x \in new[t]
  <2>1. CASE t \in DOMAIN r.creates
    <3> SUFFICES ASSUME NEW x \in Models[t], ~LaterColumn(n, t, x) PROVE x \in new[t]
      BY <2>1, <1>1
    <3>1. \/ x \in r.creates[t]
          \/ \E m \in n .. LastRevision : x \in Of(Revision[m].adds, t)
      BY <2>1, ColumnsCome DEF r
    <3>2. x \in r.creates[t] \/ x \in Of(r.adds, t)
      BY <3>1 DEF LaterColumn, r
    <3>3. x \notin Of(r.drops, t) BY Drops DEF r
    <3> QED BY <3>2, <3>3, <2>1, <1>1, <1>2, <1>3
  <2>2. CASE t \notin DOMAIN r.creates
    <3>1. ~LaterTable(n - 1, t) BY <2>2, <1>5, LaterStep DEF r
    <3>2. t \in DOMAIN tables BY <3>1 DEF TablesAt
    <3> SUFFICES ASSUME NEW x \in Models[t], ~LaterColumn(n, t, x) PROVE x \in new[t]
      BY <3>2, <1>1
    <3>3. x \notin Of(r.drops, t) BY Drops DEF r
    <3>4. CASE x \in Of(r.adds, t) BY <3>4, <3>3, <3>2, <1>1, <1>2
    <3>5. CASE x \notin Of(r.adds, t)
      <4>1. ~LaterColumn(n - 1, t, x) BY <3>5, LaterStep DEF r
      <4>2. x \in tables[t] BY <4>1, <3>1 DEF TablesAt
      <4> QED BY <4>2, <3>3, <3>2, <1>1, <1>2
    <3> QED BY <3>4, <3>5
  <2> QED BY <2>1, <2>2
<1>6. n >= 7 => "uq_username" \notin new["user"]
  <2> SUFFICES ASSUME n >= 7 PROVE "uq_username" \notin new["user"] OBVIOUS
  <2>1. "user" \in DOMAIN tables BY UserIsOld DEF TablesAt
  <2>2. new["user"] = (tables["user"] \cup Of(r.adds, "user")) \ Of(r.drops, "user")
    BY <2>1, <1>1, <1>2
  <2>3. CASE n = 7 BY <2>3, <2>2, Drops DEF r
  <2>4. CASE n > 7
    <3>1. "uq_username" \notin tables["user"] BY <2>4 DEF TablesAt
    <3>2. "uq_username" \notin Of(r.adds, "user") BY <2>4, NewestRevisions DEF r
    <3> QED BY <3>1, <3>2, <2>2
  <2> QED BY <2>3, <2>4
<1> QED BY <1>4, <1>5, <1>6 DEF TablesAt, new, r

\* So do the downgrades.
LEMMA PublicLowered ==
    ASSUME NEW n \in 1 .. LastRevision, NEW c, Public \in DOMAIN c, TablesAt(n, c[Public])
    PROVE  TablesAt(n - 1, Lowered(n, c)[Public]) /\ Public \in DOMAIN Lowered(n, c)
<1> USE RevisionNumbers
<1> DEFINE r == Revision[n]
           low == Lowered(n, c)[Public]
           kept == DOMAIN c[Public] \ DOMAIN r.creates
<1>1. /\ Public \in DOMAIN Lowered(n, c)
      /\ low = [t \in kept |->
                  (c[Public][t] \ Of(r.adds, t)) \cup (IF n = 7 THEN Of(r.drops, t) ELSE {})]
  BY DEF Lowered
<1>2. DOMAIN low = kept BY <1>1
<1>3. \A t \in kept :
        low[t] = (c[Public][t] \ Of(r.adds, t)) \cup (IF n = 7 THEN Of(r.drops, t) ELSE {})
  BY <1>1
<1> HIDE DEF low
<1>4. \A t \in DOMAIN low : ~LaterTable(n - 1, t)
  BY <1>2, LaterStep DEF TablesAt
<1>5. ASSUME NEW t \in DOMAIN Models, ~LaterTable(n - 1, t)
      PROVE  t \in DOMAIN low /\ \A x \in Models[t] : ~LaterColumn(n - 1, t, x) => x \in low[t]
  <2>1. ~LaterTable(n, t) /\ t \notin DOMAIN r.creates BY <1>5, LaterStep
  <2>2. t \in kept BY <2>1 DEF TablesAt
  <2> HIDE DEF r, kept
  <2> SUFFICES ASSUME NEW x \in Models[t], ~LaterColumn(n - 1, t, x) PROVE x \in low[t]
    BY <2>2, <1>2
  <2>3. ~LaterColumn(n, t, x) /\ x \notin Of(r.adds, t) BY LaterStep DEF r
  <2>4. x \in c[Public][t] BY <2>1, <2>3 DEF TablesAt
  <2> QED BY <2>2, <2>3, <2>4, <1>3
<1>6. n - 1 >= 7 => "uq_username" \notin low["user"]
  <2> SUFFICES ASSUME n - 1 >= 7 PROVE "uq_username" \notin low["user"] OBVIOUS
  <2>1. "user" \in kept
    <3>1. "user" \in DOMAIN low BY <1>5, UserIsOld
    <3> QED BY <3>1, <1>2
  <2>2. "uq_username" \notin c[Public]["user"] BY DEF TablesAt
  <2> QED BY <2>1, <2>2, <1>3
<1> QED BY <1>1, <1>4, <1>5, <1>6 DEF TablesAt, low

ColumnNames ==
    {"person_id", "role", "email", "is_active", "deactivated_at", "source", "late",
     "checked_out_at", "department", "office", "shift_start", "shift_end", "early_leave",
     "latitude", "longitude", "office_name", "geo_lat", "geo_lng", "geo_radius_m", "weekend",
     "notify_late", "allow_kiosk_pin", "org_type", "kernel", "subject_label",
     "subject_label_plural", "staff_label", "group_label", "id_label", "require_checkout",
     "allow_checkout", "track_late", "track_early_leave", "geofence_on_self_punch",
     "auto_absent_at_close", "allow_multiple_present_per_day", "occurrence_id", "site_id",
     "org_id", "slug", "trust_score", "trust_breakdown_json"}

\* A tuple of columns has a place in the list of SqliteColumns.
Listed(s, t, x) == \E i \in 1 .. Len(s) : s[i] = <<t, x>>
TableNames == DOMAIN Models
Columns == Seq(TableNames \X ColumnNames)

\* What is in one of two lists is in both together.
LEMMA ListedConcat ==
    ASSUME NEW p \in Columns, NEW q \in Columns
    PROVE  /\ p \o q \in Columns
           /\ \A t, x : Listed(p, t, x) \/ Listed(q, t, x) => Listed(p \o q, t, x)
<1>1. p \o q \in Columns /\ Len(p \o q) = Len(p) + Len(q) BY DEF Columns
<1>2. ASSUME NEW t, NEW x, Listed(p, t, x) PROVE Listed(p \o q, t, x)
  <2>1. PICK i \in 1 .. Len(p) : p[i] = <<t, x>> BY <1>2 DEF Listed
  <2>2. (p \o q)[i] = <<t, x>> /\ i \in 1 .. Len(p \o q) BY <2>1, <1>1 DEF Columns
  <2> QED BY <2>2 DEF Listed
<1>3. ASSUME NEW t, NEW x, Listed(q, t, x) PROVE Listed(p \o q, t, x)
  <2>1. PICK i \in 1 .. Len(q) : q[i] = <<t, x>> BY <1>3 DEF Listed
  <2>2. Len(p) + i \in 1 .. Len(p \o q) /\ (p \o q)[Len(p) + i] = <<t, x>> BY <2>1, <1>1 DEF Columns
  <2> QED BY <2>2 DEF Listed
<1> QED BY <1>1, <1>2, <1>3

LEMMA FunctionIsSequence ==
    ASSUME NEW S, NEW n \in Nat, NEW f \in [1 .. n -> S] PROVE f \in Seq(S) /\ Len(f) = n
OBVIOUS

LEMMA PairedSequence ==
    ASSUME NEW S, NEW T, NEW a \in S, NEW f \in Seq(T)
    PROVE  LET pairs == [i \in 1 .. Len(f) |-> <<a, f[i]>>]
           IN pairs \in Seq(S \X T) /\ Len(pairs) = Len(f)
<1> DEFINE pairs == [i \in 1 .. Len(f) |-> <<a, f[i]>>]
<1>1. pairs \in [1 .. Len(f) -> S \X T] OBVIOUS
<1>2. Len(f) \in Nat OBVIOUS
<1> HIDE DEF pairs
<1>3. pairs \in Seq(S \X T) /\ Len(pairs) = Len(f) BY <1>1, <1>2, FunctionIsSequence
<1> QED BY <1>3 DEF pairs

\* What OnTable pairs with a table is a list of columns of that table.
LEMMA ListedOnTable ==
    ASSUME NEW t \in DOMAIN Models, NEW columns \in Seq(ColumnNames)
    PROVE  /\ OnTable(t, columns) \in Columns
           /\ \A i \in 1 .. Len(columns) : Listed(OnTable(t, columns), t, columns[i])
<1> DEFINE on == OnTable(t, columns)
<1>1. on = [i \in 1 .. Len(columns) |-> <<t, columns[i]>>] BY DEF OnTable
<1> HIDE DEF on
<1>2. t \in TableNames BY DEF TableNames
<1>3. on \in Columns /\ Len(on) = Len(columns) BY <1>1, <1>2, PairedSequence DEF Columns
<1>4. \A i \in 1 .. Len(columns) : Listed(on, t, columns[i]) BY <1>1, <1>3 DEF Listed
<1> QED BY <1>3, <1>4 DEF on

\* Every column of models.py but the username key is in the list of columns
\* that _sqlite_add_column is called with.
LEMMA SqliteColumnsList ==
    /\ SqliteColumns \in Columns
    /\ \A t \in DOMAIN Models : \A x \in Models[t] :
         x = "uq_user_org_username" \/ Listed(SqliteColumns, t, x)
<1> DEFINE c1 == <<"person_id", "role">>
           c2 == <<"email", "is_active", "deactivated_at">>
           c3 == <<"source", "late", "checked_out_at">>
           c4 == <<"department", "office", "shift_start", "shift_end">>
           c5 == <<"early_leave", "latitude", "longitude">>
           c6 ==
             <<"office_name", "geo_lat", "geo_lng", "geo_radius_m", "weekend", "notify_late",
               "allow_kiosk_pin", "org_type", "kernel", "subject_label", "subject_label_plural",
               "staff_label", "group_label", "id_label", "require_checkout", "allow_checkout",
               "track_late", "track_early_leave", "geofence_on_self_punch",
               "auto_absent_at_close", "allow_multiple_present_per_day">>
           c7 == <<"occurrence_id", "site_id">>
           owned == <<"user", "person", "attendance", "accessevent", "site", "offering",
                      "enrollment", "occurrence", "holiday", "spoofalert">>
           c9 == <<"slug">>
           c10 == <<"trust_score", "trust_breakdown_json">>
           a1 == OnTable("user", c1)
           a2 == OnTable("person", c2)
           a3 == OnTable("attendance", c3)
           a4 == OnTable("person", c4)
           a5 == OnTable("attendance", c5)
           a6 == OnTable("appsetting", c6)
           a7 == OnTable("attendance", c7)
           a8 == [i \in 1 .. 10 |-> <<owned[i], "org_id">>]
           a9 == <<<<"organization", "slug">>>>
           a10 == OnTable("attendance", c10)
           s2 == a1 \o a2
           s3 == s2 \o a3
           s4 == s3 \o a4
           s5 == s4 \o a5
           s6 == s5 \o a6
           s7 == s6 \o a7
           s8 == s7 \o a8
           s9 == s8 \o a9
           s10 == s9 \o a10
<1>0. SqliteColumns = s10 BY DEF SqliteColumns
<1>1. /\ c1 \in Seq(ColumnNames)
      /\ \A x \in {"person_id", "role"} :
           \E i \in 1 .. Len(c1) : x = c1[i]
  BY DEF ColumnNames
<1>2. /\ c2 \in Seq(ColumnNames)
      /\ \A x \in {"email", "is_active", "deactivated_at"} :
           \E i \in 1 .. Len(c2) : x = c2[i]
  BY DEF ColumnNames
<1>3. /\ c3 \in Seq(ColumnNames)
      /\ \A x \in {"source", "late", "checked_out_at"} :
           \E i \in 1 .. Len(c3) : x = c3[i]
  BY DEF ColumnNames
<1>4. /\ c4 \in Seq(ColumnNames)
      /\ \A x \in {"department", "office", "shift_start", "shift_end"} :
           \E i \in 1 .. Len(c4) : x = c4[i]
  BY DEF ColumnNames
<1>5. /\ c5 \in Seq(ColumnNames)
      /\ \A x \in {"early_leave", "latitude", "longitude"} :
           \E i \in 1 .. Len(c5) : x = c5[i]
  BY DEF ColumnNames
<1>6. c6 \in Seq(ColumnNames)
  BY DEF ColumnNames
<1>61. \A x \in Models["appsetting"] : \E i \in 1 .. Len(c6) : x = c6[i]
  BY ModelTables, ModelColumns
<1>7. /\ c7 \in Seq(ColumnNames)
      /\ \A x \in {"occurrence_id", "site_id"} :
           \E i \in 1 .. Len(c7) : x = c7[i]
  BY DEF ColumnNames
<1>10. /\ c10 \in Seq(ColumnNames)
      /\ \A x \in {"trust_score", "trust_breakdown_json"} :
           \E i \in 1 .. Len(c10) : x = c10[i]
  BY DEF ColumnNames
<1>8. a8 \in Columns /\ \A t \in OrgTables : Listed(a8, t, "org_id")
  <2>1. {"user", "person", "attendance", "accessevent", "site", "offering", "enrollment",
         "occurrence", "holiday", "spoofalert"} \subseteq TableNames
    BY ModelTables DEF TableNames
  <2>2. \A i \in 1 .. 10 : owned[i] \in TableNames BY <2>1
  <2>3. "org_id" \in ColumnNames BY DEF ColumnNames
  <2>4. \A t \in OrgTables : \E i \in 1 .. 10 : t = owned[i] BY DEF OrgTables
  <2> HIDE DEF owned
  <2>5. a8 \in [1 .. 10 -> TableNames \X ColumnNames] BY <2>2, <2>3
  <2>6. \A i \in 1 .. 10 : a8[i] = <<owned[i], "org_id">> OBVIOUS
  <2> HIDE DEF a8
  <2>7. a8 \in Columns /\ Len(a8) = 10 BY <2>5, FunctionIsSequence DEF Columns
  <2>8. \A t \in OrgTables : Listed(a8, t, "org_id") BY <2>4, <2>6, <2>7 DEF Listed
  <2> QED BY <2>7, <2>8
<1>9. a9 \in Columns /\ Listed(a9, "organization", "slug")
  <2>1. "organization" \in TableNames BY ModelTables DEF TableNames
  <2>2. "slug" \in ColumnNames BY DEF ColumnNames
  <2>3. <<"organization", "slug">> \in TableNames \X ColumnNames BY <2>1, <2>2
  <2>4. Len(a9) = 1 /\ a9[1] = <<"organization", "slug">> OBVIOUS
  <2>5. a9 \in Columns BY <2>3 DEF Columns
  <2> HIDE DEF a9
  <2> QED BY <2>4, <2>5 DEF Listed
<1> HIDE DEF c1, c2, c3, c4, c5, c6, c7, owned, c10, a8, a9
<1>17. {"user", "person", "attendance", "appsetting"} \subseteq DOMAIN Models BY ModelTables
<1>11. /\ a1 \in Columns /\ a2 \in Columns /\ a3 \in Columns /\ a4 \in Columns /\ a5 \in Columns
       /\ a6 \in Columns /\ a7 \in Columns /\ a10 \in Columns
  BY <1>1, <1>2, <1>3, <1>4, <1>5, <1>6, <1>7, <1>10, <1>17, ListedOnTable
<1>12. /\ \A x \in {"person_id", "role"} : Listed(a1, "user", x)
       /\ \A x \in {"source", "late", "checked_out_at"} : Listed(a3, "attendance", x)
  BY <1>1, <1>3, <1>17, ListedOnTable
<1>121. /\ \A x \in {"email", "is_active", "deactivated_at"} : Listed(a2, "person", x)
        /\ \A x \in {"department", "office", "shift_start", "shift_end"} : Listed(a4, "person", x)
  BY <1>2, <1>4, <1>17, ListedOnTable
<1>131. \A x \in Models["appsetting"] : Listed(a6, "appsetting", x)
  BY <1>6, <1>61, <1>17, ListedOnTable
<1>13. /\ \A x \in {"early_leave", "latitude", "longitude"} : Listed(a5, "attendance", x)
       /\ \A x \in {"occurrence_id", "site_id"} : Listed(a7, "attendance", x)
       /\ \A x \in {"trust_score", "trust_breakdown_json"} : Listed(a10, "attendance", x)
  BY <1>5, <1>7, <1>10, <1>17, ListedOnTable
<1> HIDE DEF a1, a2, a3, a4, a5, a6, a7, a10
<1>14. s2 \in Columns /\ s3 \in Columns /\ s4 \in Columns /\ s5 \in Columns /\ s6 \in Columns
       /\ s7 \in Columns /\ s8 \in Columns /\ s9 \in Columns /\ s10 \in Columns
  <2>2. s2 \in Columns BY <1>11, ListedConcat
  <2> HIDE DEF s2
  <2>3. s3 \in Columns BY <1>11, <2>2, ListedConcat
  <2> HIDE DEF s3
  <2>4. s4 \in Columns BY <1>11, <2>3, ListedConcat
  <2> HIDE DEF s4
  <2>5. s5 \in Columns BY <1>11, <2>4, ListedConcat
  <2> HIDE DEF s5
  <2>6. s6 \in Columns BY <1>11, <2>5, ListedConcat
  <2> HIDE DEF s6
  <2>7. s7 \in Columns BY <1>11, <2>6, ListedConcat
  <2> HIDE DEF s7
  <2>8. s8 \in Columns BY <1>8, <2>7, ListedConcat
  <2> HIDE DEF s8
  <2>9. s9 \in Columns BY <1>9, <2>8, ListedConcat
  <2> HIDE DEF s9
  <2>10. s10 \in Columns BY <1>11, <2>9, ListedConcat
  <2> QED BY <2>2, <2>3, <2>4, <2>5, <2>6, <2>7, <2>8, <2>9, <2>10
<1>15. \A t, x : (\/ Listed(a1, t, x) \/ Listed(a2, t, x) \/ Listed(a3, t, x) \/ Listed(a4, t, x)
                  \/ Listed(a5, t, x) \/ Listed(a6, t, x) \/ Listed(a7, t, x) \/ Listed(a8, t, x)
                  \/ Listed(a9, t, x) \/ Listed(a10, t, x)) => Listed(s10, t, x)
  <2> SUFFICES ASSUME NEW t, NEW x PROVE
        (\/ Listed(a1, t, x) \/ Listed(a2, t, x) \/ Listed(a3, t, x) \/ Listed(a4, t, x)
         \/ Listed(a5, t, x) \/ Listed(a6, t, x) \/ Listed(a7, t, x) \/ Listed(a8, t, x)
         \/ Listed(a9, t, x) \/ Listed(a10, t, x)) => Listed(s10, t, x)
    OBVIOUS
  <2>2. Listed(a1, t, x) \/ Listed(a2, t, x) => Listed(s2, t, x) BY <1>11, ListedConcat
  <2>3. Listed(s2, t, x) \/ Listed(a3, t, x) => Listed(s3, t, x)
    <3> HIDE DEF s2
    <3> QED BY <1>11, <1>14, ListedConcat
  <2>4. Listed(s3, t, x) \/ Listed(a4, t, x) => Listed(s4, t, x)
    <3> HIDE DEF s3
    <3> QED BY <1>11, <1>14, ListedConcat
  <2>5. Listed(s4, t, x) \/ Listed(a5, t, x) => Listed(s5, t, x)
    <3> HIDE DEF s4
    <3> QED BY <1>11, <1>14, ListedConcat
  <2>6. Listed(s5, t, x) \/ Listed(a6, t, x) => Listed(s6, t, x)
    <3> HIDE DEF s5
    <3> QED BY <1>11, <1>14, ListedConcat
  <2>7. Listed(s6, t, x) \/ Listed(a7, t, x) => Listed(s7, t, x)
    <3> HIDE DEF s6
    <3> QED BY <1>11, <1>14, ListedConcat
  <2>8. Listed(s7, t, x) \/ Listed(a8, t, x) => Listed(s8, t, x)
    <3> HIDE DEF s7
    <3> QED BY <1>8, <1>14, ListedConcat
  <2>9. Listed(s8, t, x) \/ Listed(a9, t, x) => Listed(s9, t, x)
    <3> HIDE DEF s8
    <3> QED BY <1>9, <1>14, ListedConcat
  <2>10. Listed(s9, t, x) \/ Listed(a10, t, x) => Listed(s10, t, x)
    <3> HIDE DEF s9
    <3> QED BY <1>11, <1>14, ListedConcat
  <2> HIDE DEF s2, s3, s4, s5, s6, s7, s8, s9, s10
  <2> QED BY <2>2, <2>3, <2>4, <2>5, <2>6, <2>7, <2>8, <2>9, <2>10
<1> HIDE DEF s2, s3, s4, s5, s6, s7, s8, s9, s10
<1>16. ASSUME NEW t \in DOMAIN Models, NEW x \in Models[t], x # "uq_user_org_username"
       PROVE  Listed(s10, t, x)
  <2> USE ModelTables, ModelColumns
  <2>1. CASE x = "org_id"
    <3>1. t \in OrgTables BY <2>1 DEF OrgTables
    <3> QED BY <3>1, <2>1, <1>8, <1>15
  <2>2. CASE x # "org_id"
    <3>1. CASE t = "user"
      <4>1. x \in {"person_id", "role"} BY <1>16, <2>2, <3>1
      <4> QED BY <4>1, <3>1, <1>12, <1>15
    <3>2. CASE t = "person"
      <4>1. \/ x \in {"email", "is_active", "deactivated_at"}
            \/ x \in {"department", "office", "shift_start", "shift_end"}
        BY <2>2, <3>2
      <4> QED BY <4>1, <3>2, <1>121, <1>15
    <3>3. CASE t = "attendance"
      <4>1. \/ x \in {"source", "late", "checked_out_at"}
            \/ x \in {"early_leave", "latitude", "longitude"}
            \/ x \in {"occurrence_id", "site_id"} \/ x \in {"trust_score", "trust_breakdown_json"}
        BY <2>2, <3>3
      <4> QED BY <4>1, <3>3, <1>12, <1>13, <1>15
    <3>4. CASE t = "appsetting"
      <4> QED BY <3>4, <1>131, <1>15
    <3>5. CASE t = "organization"
      <4>1. x = "slug" BY <3>5
      <4> QED BY <4>1, <3>5, <1>9, <1>15
    <3>6. CASE t \notin {"user", "person", "attendance", "appsetting", "organization"}
      <4> QED BY <3>6, <2>2
    <3> QED BY <3>1, <3>2, <3>3, <3>4, <3>5, <3>6
  <2> QED BY <2>1, <2>2
<1> QED BY <1>0, <1>14, <1>16

\* The schemas of os are there with all their tables, and the rest stays.
Widened(c, os, d) ==
    /\ DOMAIN d = DOMAIN c \cup os
    /\ d[Public] = c[Public]
    /\ \A o \in os : TenantTables \subseteq DOMAIN d[o]
    /\ \A s \in DOMAIN c \ os : d[s] = c[s]

\* A schema gets copies of the tables it lacks.
LEMMA ProvisionedCatalog ==
    ASSUME NEW n \in 7 .. LastRevision, NEW c, CatalogAt(n, c), NEW os \in SUBSET Tenant,
           os = {} \/ TenantTables \subseteq DOMAIN c[Public]
    PROVE  CatalogAt(n, ProvisionedAll(c, os)) /\ Widened(c, os, ProvisionedAll(c, os))
<1> USE RevisionNumbers
<1> DEFINE d == ProvisionedAll(c, os)
<1>1. DOMAIN d = DOMAIN c \cup os BY DEF ProvisionedAll
<1>2. \A s \in DOMAIN c \ os : d[s] = c[s] BY DEF ProvisionedAll
<1>3. \A o \in os : d[o] = Provisioned(c, o) BY DEF ProvisionedAll
<1> HIDE DEF d
<1>4. Public \in DOMAIN c \ os BY MigrationsAssumption DEF CatalogAt, CopiesAt
<1>5. d[Public] = c[Public] BY <1>2, <1>4
<1>6. ASSUME NEW s \in os
      PROVE  /\ TenantTables \subseteq DOMAIN d[s]
             /\ DOMAIN d[s] \subseteq TenantTables \cap DOMAIN c[Public]
             /\ \A t \in DOMAIN d[s] : d[s][t] = c[Public][t]
  <2> DEFINE there == IF s \in DOMAIN c THEN c[s] ELSE <<>>
  <2>1. d[s] = Joined(there, [t \in TenantTables |-> c[Public][t]])
    BY <1>3 DEF Provisioned
  <2>2. /\ DOMAIN there \subseteq TenantTables \cap DOMAIN c[Public]
        /\ \A t \in DOMAIN there : there[t] = c[Public][t]
    <3>1. CASE s \in DOMAIN c
      <4>1. s \in Schemas(c) BY <3>1, <1>4 DEF Schemas
      <4> QED BY <3>1, <4>1 DEF CatalogAt, CopiesAt
    <3>2. CASE s \notin DOMAIN c BY <3>2
    <3> QED BY <3>1, <3>2
  <2> HIDE DEF there
  <2>3. DOMAIN d[s] = DOMAIN there \cup TenantTables BY <2>1 DEF Joined
  <2>4. \A t \in DOMAIN d[s] : d[s][t] = IF t \in DOMAIN there THEN there[t] ELSE c[Public][t]
    BY <2>1, <2>3 DEF Joined
  <2> QED BY <2>2, <2>3, <2>4
<1>7. TablesAt(n, d[Public]) BY <1>5 DEF CatalogAt
<1>8. CopiesAt(n, d)
  <2>1. Public \in DOMAIN d BY <1>1, <1>4
  <2>2. ASSUME NEW s \in Schemas(d)
        PROVE  /\ DOMAIN d[s] \subseteq TenantTables \cap DOMAIN d[Public]
               /\ \A t \in DOMAIN d[s] : d[s][t] = d[Public][t]
    <3>1. CASE s \in os BY <3>1, <1>5, <1>6
    <3>2. CASE s \notin os
      <4>1. s \in Schemas(c) /\ d[s] = c[s] BY <3>2, <1>1, <1>2 DEF Schemas
      <4> QED BY <4>1, <1>5 DEF CatalogAt, CopiesAt
    <3> QED BY <3>1, <3>2
  <2> QED BY <2>1, <2>2 DEF CopiesAt
<1> QED BY <1>1, <1>2, <1>5, <1>6, <1>7, <1>8 DEF CatalogAt, Widened, d

\* For the schemas of the organizations a revision creates nothing.
LEMMA MirroredRevision ==
    ASSUME NEW n \in {8, 10}
    PROVE  LET r == [Revision[n] EXCEPT !.creates = <<>>]
           IN r.creates = <<>> /\ r.adds = Revision[n].adds /\ r.drops = Revision[n].drops
<1>1. CASE n = 8 BY <1>1, RevisionNumbers DEF PostgisGeo, Nothing
<1>2. CASE n = 10 BY <1>2, RevisionNumbers DEF CaptureProbeTrust, Nothing
<1> QED BY <1>1, <1>2

\* What a revision does to public it does to the copies, or does to no table
\* that has a copy.
LEMMA AlteredCatalog ==
    ASSUME NEW n \in 1 .. LastRevision, NEW c, CatalogAt(n - 1, c)
    PROVE  CatalogAt(n, Altered(n, c)) /\ DOMAIN c[Public] \subseteq DOMAIN Altered(n, c)[Public]
<1> USE RevisionNumbers
<1> DEFINE a == Altered(n, c)
           r == Revision[n]
<1>1. DOMAIN a = DOMAIN c /\ Public \in DOMAIN c BY DEF Altered, CatalogAt, CopiesAt
<1>2. a[Public] = Evolved(c[Public], r) BY <1>1 DEF Altered
<1>3. \A s \in DOMAIN c \ {Public} :
        a[s] = IF Mirrored(n) THEN Evolved(c[s], [r EXCEPT !.creates = <<>>]) ELSE c[s]
  BY DEF Altered
<1> HIDE DEF a
<1>4. TablesAt(n, a[Public]) BY <1>2, EvolvedTables DEF CatalogAt
<1>5. DOMAIN a[Public] = DOMAIN c[Public] \cup DOMAIN r.creates BY <1>2 DEF Evolved
<1>6. \A t \in DOMAIN c[Public] : a[Public][t] = (c[Public][t] \cup Of(r.adds, t)) \ Of(r.drops, t)
  BY <1>2 DEF Evolved
<1>7. ASSUME NEW s \in Schemas(a)
      PROVE  /\ DOMAIN a[s] \subseteq TenantTables \cap DOMAIN a[Public]
             /\ \A t \in DOMAIN a[s] : a[s][t] = a[Public][t]
  <2>1. s \in Schemas(c) BY <1>1 DEF Schemas
  <2>2. /\ DOMAIN c[s] \subseteq TenantTables \cap DOMAIN c[Public]
        /\ \A t \in DOMAIN c[s] : c[s][t] = c[Public][t]
    BY <2>1 DEF CatalogAt, CopiesAt
  <2>3. n \in 8 .. 10 BY <2>1 DEF CatalogAt, CopiesAt
  <2>4. CASE Mirrored(n)
    <3> DEFINE r0 == [r EXCEPT !.creates = <<>>]
    <3>1. r0.creates = <<>> /\ r0.adds = r.adds /\ r0.drops = r.drops
      BY <2>4, MirroredRevision DEF Mirrored
    <3> HIDE DEF r0, r
    <3>2. a[s] = Evolved(c[s], r0) BY <2>4, <2>1, <1>3 DEF Schemas, r0
    <3>3. DOMAIN a[s] = DOMAIN c[s] BY <3>1, <3>2 DEF Evolved
    <3>4. \A t \in DOMAIN a[s] : a[s][t] = (c[s][t] \cup Of(r.adds, t)) \ Of(r.drops, t)
      BY <3>1, <3>2, <3>3 DEF Evolved
    <3> QED BY <3>3, <3>4, <2>2, <1>5, <1>6
  <2>5. CASE ~Mirrored(n)
    <3>1. n = 9 BY <2>3, <2>5 DEF Mirrored
    <3>2. a[s] = c[s] BY <2>5, <2>1, <1>3 DEF Schemas
    <3>3. \A t : Of(r.adds, t) = {} /\ Of(r.drops, t) = {} BY <3>1, NewestRevisions, Drops
    <3> HIDE DEF r
    <3>4. \A t \in DOMAIN c[Public] : a[Public][t] = (c[Public][t] \cup {}) \ {} BY <3>3, <1>6
    <3>5. ASSUME NEW t \in DOMAIN a[s] PROVE a[s][t] = a[Public][t]
      <4>1. t \in DOMAIN c[Public] /\ c[s][t] = c[Public][t] BY <3>2, <2>2
      <4>2. a[Public][t] = c[Public][t] BY <3>4, <4>1
      <4> QED BY <4>1, <4>2, <3>2
    <3> QED BY <3>2, <3>5, <2>2, <1>5
  <2> QED BY <2>4, <2>5
<1>8. n < 7 => Schemas(a) = {} BY <1>1 DEF Schemas, CatalogAt, CopiesAt
<1> QED BY <1>1, <1>4, <1>5, <1>7, <1>8 DEF CatalogAt, CopiesAt, a

\* So does upgrade() as a whole, the schemas of 0007 included.
LEMMA UpgradedCatalog ==
    ASSUME NEW n \in 1 .. LastRevision, NEW c, CatalogAt(n - 1, c), NEW os \in SUBSET Tenant,
           ~Refuses(n, c, os)
    PROVE  CatalogAt(n, Upgraded(n, c, os))
<1>1. CASE n = 7
  <2>1. os = {} \/ TenantTables \subseteq DOMAIN c[Public] BY <1>1 DEF Refuses
  <2>2. os = {} \/ TenantTables \subseteq DOMAIN Altered(n, c)[Public] BY <2>1, AlteredCatalog
  <2>3. CatalogAt(n, Altered(n, c)) /\ n \in 7 .. LastRevision
    BY <1>1, AlteredCatalog, RevisionNumbers
  <2>4. CatalogAt(n, ProvisionedAll(Altered(n, c), os)) BY <2>2, <2>3, ProvisionedCatalog
  <2> QED BY <1>1, <2>4 DEF Upgraded
<1>2. CASE n # 7 BY <1>2, AlteredCatalog DEF Upgraded
<1> QED BY <1>1, <1>2

\* downgrade() takes all schemas to the revision before.
LEMMA LoweredCatalog ==
    ASSUME NEW n \in 1 .. LastRevision, NEW c, CatalogAt(n, c), ~Cloned(n, c)
    PROVE  CatalogAt(n - 1, Lowered(n, c))
<1> USE RevisionNumbers
<1> DEFINE r == Revision[n]
           Stripped(tables) ==
             [t \in DOMAIN tables |->
                (tables[t] \ Of(r.adds, t)) \cup (IF n = 7 THEN Of(r.drops, t) ELSE {})]
           kept == DOMAIN c[Public] \ DOMAIN r.creates
           low == Lowered(n, c)
<1>1. Public \in DOMAIN c BY DEF CatalogAt, CopiesAt
<1>2. TablesAt(n - 1, low[Public]) /\ Public \in DOMAIN low
  BY <1>1, PublicLowered DEF CatalogAt
<1>3. Schemas(low) = IF n = 7 THEN {} ELSE Schemas(c) BY DEF Schemas, Lowered
<1>4. low[Public] =
        [t \in kept |-> (c[Public][t] \ Of(r.adds, t)) \cup (IF n = 7 THEN Of(r.drops, t) ELSE {})]
  BY <1>2 DEF Lowered
<1>5. \A s \in Schemas(low) : low[s] = IF Mirrored(n) THEN Stripped(c[s]) ELSE c[s]
  BY <1>3 DEF Schemas, Lowered
<1> HIDE DEF low, r
<1>6. ASSUME NEW s \in Schemas(low)
      PROVE  /\ DOMAIN low[s] \subseteq TenantTables \cap DOMAIN low[Public]
             /\ \A t \in DOMAIN low[s] : low[s][t] = low[Public][t]
  <2>1. s \in Schemas(c) /\ n # 7 BY <1>3
  <2>2. /\ DOMAIN c[s] \subseteq TenantTables \cap DOMAIN c[Public]
        /\ \A t \in DOMAIN c[s] : c[s][t] = c[Public][t]
    BY <2>1 DEF CatalogAt, CopiesAt
  <2>3. n \in 8 .. 10 BY <2>1 DEF CatalogAt, CopiesAt
  <2>4. DOMAIN c[s] \subseteq kept BY <2>1, <2>2 DEF Cloned, r
  <2>5. \A t \in DOMAIN c[s] : low[Public][t] = (c[s][t] \ Of(r.adds, t)) \cup {}
    BY <2>1, <2>2, <2>4, <1>4
  <2>6. CASE Mirrored(n)
    <3>1. low[s] = [t \in DOMAIN c[s] |-> (c[s][t] \ Of(r.adds, t)) \cup {}] BY <2>6, <2>1, <1>5
    <3> QED BY <3>1, <2>2, <2>4, <2>5, <1>4
  <2>7. CASE ~Mirrored(n)
    <3>1. n = 9 BY <2>3, <2>7 DEF Mirrored
    <3>2. \A t : Of(r.adds, t) = {} BY <3>1, NewestRevisions DEF r
    <3>3. low[s] = c[s] BY <2>7, <1>5
    <3>4. \A t \in DOMAIN c[s] : low[Public][t] = c[s][t] BY <3>2, <2>5
    <3> QED BY <3>3, <3>4, <2>2, <2>4, <1>4
  <2> QED BY <2>6, <2>7
<1>7. n - 1 < 7 => Schemas(low) = {} BY <1>3 DEF CatalogAt, CopiesAt
<1> QED BY <1>2, <1>6, <1>7 DEF CatalogAt, CopiesAt, low

\* The recursion over the revisions has a solution: its values, one by one.
LEMMA PostgresTablesUnfold ==
    PostgresTables = [n \in 0 .. LastRevision |->
        IF n = 0 THEN <<>> ELSE Evolved(PostgresTables[n - 1], Revision[n])]
<1> DEFINE Good(f) ==
             f = [n \in 0 .. LastRevision |->
                    IF n = 0 THEN <<>> ELSE Evolved(f[n - 1], Revision[n])]
<1>1. \E f : Good(f)
  <2> DEFINE e1 == Evolved(<<>>, Revision[1])
             e2 == Evolved(e1, Revision[2])
             e3 == Evolved(e2, Revision[3])
             e4 == Evolved(e3, Revision[4])
             e5 == Evolved(e4, Revision[5])
             e6 == Evolved(e5, Revision[6])
             e7 == Evolved(e6, Revision[7])
             e8 == Evolved(e7, Revision[8])
             e9 == Evolved(e8, Revision[9])
             e10 == Evolved(e9, Revision[10])
             f == [n \in 0 .. 10 |->
                    CASE n = 0 -> <<>> [] n = 1 -> e1 [] n = 2 -> e2 [] n = 3 -> e3 [] n = 4 -> e4
                      [] n = 5 -> e5 [] n = 6 -> e6 [] n = 7 -> e7 [] n = 8 -> e8 [] n = 9 -> e9
                      [] n = 10 -> e10]
  <2> HIDE DEF e1, e2, e3, e4, e5, e6, e7, e8, e9, e10
  <2>1. \A n \in 1 .. 10 : f[n] = Evolved(f[n - 1], Revision[n])
    BY DEF e1, e2, e3, e4, e5, e6, e7, e8, e9, e10
  <2>2. f[0] = <<>> OBVIOUS
  <2> HIDE DEF f
  <2>3. f = [n \in 0 .. 10 |-> f[n]] BY DEF f
  <2>4. f = [n \in 0 .. 10 |-> IF n = 0 THEN <<>> ELSE Evolved(f[n - 1], Revision[n])]
     BY <2>1, <2>2, <2>3
  <2> QED BY <2>4, RevisionNumbers
<1> HIDE DEF Good
<1>2. PostgresTables = CHOOSE f : Good(f)
  BY DEF PostgresTables, Good
<1>3. Good(PostgresTables) BY <1>1, <1>2
<1> QED BY <1>3 DEF Good

\* Going through the revisions one after the other gives the tables of each.
LEMMA FoundTables == \A n \in 0 .. LastRevision : TablesAt(n, PostgresTables[n])
<1> USE RevisionNumbers
<1>1. TablesAt(0, PostgresTables[0])
  <2>1. PostgresTables[0] = <<>> BY PostgresTablesUnfold
  <2>2. \A t \in DOMAIN Models : LaterTable(0, t) BY TablesAreCreatedOnce DEF LaterTable
  <2> QED BY <2>1, <2>2 DEF TablesAt
<1>2. ASSUME NEW n \in 1 .. 10, TablesAt(n - 1, PostgresTables[n - 1])
      PROVE  TablesAt(n, PostgresTables[n])
  <2>1. PostgresTables[n] = Evolved(PostgresTables[n - 1], Revision[n]) BY PostgresTablesUnfold
  <2> QED BY <1>2, <2>1, EvolvedTables
<1> DEFINE Fine(n) == TablesAt(n, PostgresTables[n])
<1>3. Fine(0) /\ \A n \in 1 .. 10 : Fine(n - 1) => Fine(n) BY <1>1, <1>2
<1> HIDE DEF Fine
<1>4. Fine(0) /\ Fine(1) /\ Fine(2) /\ Fine(3) /\ Fine(4) /\ Fine(5) BY <1>3
<1>5. Fine(6) /\ Fine(7) /\ Fine(8) /\ Fine(9) /\ Fine(10) BY <1>3, <1>4
<1>6. \A n \in 0 .. 10 : Fine(n) BY <1>4, <1>5
<1> QED BY <1>6 DEF Fine

\* A database that an earlier release left is one of its revision.
LEMMA FoundCatalog ==
    ASSUME NEW n \in 0 .. LastRevision, NEW os \in SUBSET Tenant
    PROVE  CatalogAt(n, PostgresFound(n, os))
<1> DEFINE c == PostgresFound(n, os)
           public == PostgresTables[n]
<1>1. c = [s \in {Public} \cup (IF n < 7 THEN {} ELSE os) |->
             IF s = Public THEN public ELSE [t \in TenantTables \cap DOMAIN public |-> public[t]]]
  BY DEF PostgresFound
<1> HIDE DEF c
<1>2. c[Public] = public /\ Public \in DOMAIN c /\ (n < 7 => DOMAIN c = {Public}) BY <1>1
<1>3. TablesAt(n, public) BY FoundTables
<1> HIDE DEF public
<1>4. \A s \in Schemas(c) : c[s] = [t \in TenantTables \cap DOMAIN public |-> public[t]]
  BY <1>1 DEF Schemas
<1>5. CopiesAt(n, c) BY <1>2, <1>4 DEF CopiesAt, Schemas
<1> QED BY <1>2, <1>3, <1>5 DEF CatalogAt, c

LEMMA DownIsServer ==
    Down \in [at : Stages, next : Nat, todo : SUBSET Tenant, open : SUBSET Tenant,
              boots : BOOLEAN,
              draft : [catalog : {Down.draft.catalog}, tenants : SUBSET Tenant]]
BY DEF Down, NoDraft, Stages

LEMMA MigrationsInitHolds == MigrationsInit => MigrationsInv
<1> SUFFICES ASSUME MigrationsInit PROVE MigrationsInv OBVIOUS
<1>1. server = Down /\ server.at = "down" BY DEF MigrationsInit, Down
<1>2. ServerType BY <1>1, DownIsServer DEF ServerType
<1>3. CASE dialect = "sqlite"
  <2>1. tenants = {} /\ Public \in DOMAIN catalog BY <1>3 DEF MigrationsInit
  <2> QED BY <1>1, <1>2, <1>3, <2>1 DEF MigrationsInv, SqliteOK
<1>4. CASE dialect = "postgres"
  <2>1. /\ revision \in 0 .. LastRevision /\ tenants \in SUBSET Tenant
        /\ catalog = PostgresFound(revision, tenants)
    BY <1>4, MigrationsAssumption, RevisionNumbers DEF MigrationsInit
  <2>2. CatalogAt(revision, catalog) BY <2>1, FoundCatalog
  <2> QED BY <1>1, <1>2, <1>4, <2>1, <2>2 DEF MigrationsInv, PostgresOK
<1> QED BY <1>3, <1>4 DEF MigrationsInit

LEMMA MissingTables == Missing = {} => DOMAIN Models \subseteq DOMAIN catalog[Public]
BY DEF Missing

\* The boot on SQLite adds tables and columns until all are there.
LEMMA SqliteSteps ==
    ASSUME MigrationsInv, dialect = "sqlite",
           BootSqlite \/ CreateTable \/ TablesCreated \/ AddColumn \/ UsernamePerOrg
    PROVE  MigrationsInv'
<1> USE DEF MigrationsInv, Server
<1>1. dialect' = "sqlite" /\ tenants' \subseteq Tenant
  BY DEF BootSqlite, CreateTable, TablesCreated, AddColumn, UsernamePerOrg
<1>2. CASE BootSqlite
  <2>1. ServerType' BY <1>2 DEF BootSqlite, ServerType, Stages
  <2>2. server'.at = "tables" /\ catalog' = catalog BY <1>2 DEF BootSqlite, ServerType
  <2> QED BY <1>1, <2>1, <2>2 DEF SqliteOK
<1>3. CASE CreateTable
  <2>1. ServerType' BY <1>3 DEF CreateTable, ServerType
  <2>2. server'.at = "tables" /\ DOMAIN catalog' = DOMAIN catalog BY <1>3 DEF CreateTable
  <2> QED BY <1>1, <2>1, <2>2 DEF SqliteOK
<1>4. CASE TablesCreated
  <2>1. ServerType' BY <1>4 DEF TablesCreated, ServerType, Stages
  <2>2. server'.at = "columns" /\ server'.next = 1 /\ catalog' = catalog
    BY <1>4 DEF TablesCreated, ServerType
  <2>3. DOMAIN Models \subseteq DOMAIN catalog[Public] BY <1>4, MissingTables DEF TablesCreated
  <2> QED BY <1>1, <2>1, <2>2, <2>3 DEF SqliteOK
<1>5. CASE AddColumn
  <2> DEFINE n == server.next
             u == SqliteColumns[n][1]
             column == SqliteColumns[n][2]
  <2>1. /\ n \in 1 .. Len(SqliteColumns) /\ server.at = "columns"
        /\ catalog' = [catalog EXCEPT ![Public][u] = @ \cup {column}]
        /\ server' = [server EXCEPT !.next = n + 1]
    BY <1>5 DEF AddColumn, SqliteOK, ServerType
  <2>2. ServerType' /\ server'.at = "columns" /\ server'.next = n + 1 BY <2>1 DEF ServerType
  <2>3. SqliteColumns \in Seq(TableNames \X ColumnNames) BY SqliteColumnsList DEF Columns
  <2>4. \A i \in 1 .. Len(SqliteColumns) : SqliteColumns[i][1] \in DOMAIN Models
    BY <2>3 DEF TableNames
  <2>5. DOMAIN Models \subseteq DOMAIN catalog[Public] /\ Public \in DOMAIN catalog
    BY <2>1 DEF SqliteOK
  <2> HIDE DEF n, u, column
  <2>6. /\ Public \in DOMAIN catalog'
        /\ catalog'[Public] = [catalog[Public] EXCEPT ![u] = @ \cup {column}]
    BY <2>1, <2>5
  <2>7. /\ DOMAIN catalog'[Public] = DOMAIN catalog[Public]
        /\ \A t \in DOMAIN catalog[Public] :
             catalog'[Public][t] =
               IF t = u THEN catalog[Public][t] \cup {column} ELSE catalog[Public][t]
    BY <2>6
  <2>8. ASSUME NEW i \in 1 .. n
        PROVE  SqliteColumns[i][2] \in catalog'[Public][SqliteColumns[i][1]]
    <3>1. SqliteColumns[i][1] \in DOMAIN catalog[Public] BY <2>1, <2>4, <2>5
    <3>2. CASE i = n BY <3>1, <3>2, <2>7 DEF n, u, column
    <3>3. CASE i # n
      <4>1. i \in 1 .. server.next - 1 BY <3>3, <2>1 DEF n
      <4>2. SqliteColumns[i][2] \in catalog[Public][SqliteColumns[i][1]] BY <4>1, <2>1 DEF SqliteOK
      <4> QED BY <4>2, <3>1, <2>7
    <3> QED BY <3>2, <3>3
  <2>9. SqliteOK' BY <2>1, <2>2, <2>5, <2>6, <2>7, <2>8 DEF SqliteOK
  <2> QED BY <1>1, <2>2, <2>9
<1>6. CASE UsernamePerOrg
  <2>1. /\ server.at = "columns" /\ server.next > Len(SqliteColumns)
        /\ catalog' = [catalog EXCEPT
                         ![Public]["user"] = (@ \ {"uq_username"}) \cup {"uq_user_org_username"}]
        /\ server' = [server EXCEPT !.at = "up"]
    BY <1>6 DEF UsernamePerOrg
  <2>2. ServerType' /\ server'.at = "up" BY <2>1 DEF ServerType, Stages
  <2>3. DOMAIN Models \subseteq DOMAIN catalog[Public] /\ Public \in DOMAIN catalog
    BY <2>1 DEF SqliteOK
  <2>4. /\ Public \in DOMAIN catalog'
        /\ catalog'[Public] = [catalog[Public] EXCEPT
                                 !["user"] = (@ \ {"uq_username"}) \cup {"uq_user_org_username"}]
    BY <2>1, <2>3
  <2>5. "user" \in DOMAIN catalog[Public] BY <2>3, ModelTables
  <2>6. /\ DOMAIN catalog'[Public] = DOMAIN catalog[Public]
        /\ catalog'[Public]["user"] =
             (catalog[Public]["user"] \ {"uq_username"}) \cup {"uq_user_org_username"}
        /\ \A t \in DOMAIN catalog[Public] : t # "user" => catalog'[Public][t] = catalog[Public][t]
    BY <2>4, <2>5
  <2>7. ASSUME NEW t \in DOMAIN Models, NEW x \in Models[t], x # "uq_user_org_username"
        PROVE  x \in catalog[Public][t]
    <3>1. PICK i \in 1 .. Len(SqliteColumns) : SqliteColumns[i] = <<t, x>>
      BY <2>7, SqliteColumnsList DEF Listed
    <3>2. Len(SqliteColumns) \in Nat BY SqliteColumnsList DEF Columns
    <3>3. i \in 1 .. server.next - 1 BY <3>1, <3>2, <2>1 DEF ServerType
    <3>4. SqliteColumns[i][2] \in catalog[Public][SqliteColumns[i][1]] BY <3>3, <2>1 DEF SqliteOK
    <3> QED BY <3>1, <3>4
  <2>8. \A t \in DOMAIN Models : "uq_user_org_username" \in Models[t] => t = "user"
    BY ModelTables, ModelColumns
  <2>9. "uq_username" \notin Models["user"] /\ "user" \in DOMAIN Models
    BY ModelTables, ModelColumns
  <2>10. ASSUME NEW t \in DOMAIN Models PROVE Complete(catalog'[Public], t)
    <3>1. t \in DOMAIN catalog'[Public] BY <2>3, <2>6
    <3>2. ASSUME NEW x \in Models[t] PROVE x \in catalog'[Public][t]
      <4>1. CASE x = "uq_user_org_username" BY <4>1, <2>6, <2>8
      <4>2. CASE x # "uq_user_org_username"
        <5>1. x \in catalog[Public][t] BY <4>2, <2>7
        <5> QED BY <5>1, <2>3, <2>6, <2>9
      <4> QED BY <4>1, <4>2
    <3> QED BY <3>1, <3>2 DEF Complete
  <2>11. "uq_username" \notin catalog'[Public]["user"] BY <2>6
  <2>12. SqliteOK' BY <2>2, <2>4, <2>10, <2>11 DEF SqliteOK, Ready
  <2> QED BY <1>1, <2>2, <2>12
<1> QED BY <1>2, <1>3, <1>4, <1>5, <1>6

\* At the newest revision nothing is to come any more.
LEMMA HeadIsComplete ==
    ASSUME NEW c, CatalogAt(LastRevision, c)
    PROVE  /\ \A t \in DOMAIN Models : Complete(c[Public], t)
           /\ "uq_username" \notin c[Public]["user"]
           /\ TenantTables \subseteq DOMAIN c[Public]
<1>1. /\ \A t : ~LaterTable(LastRevision, t)
      /\ \A t, x : ~LaterColumn(LastRevision, t, x)
  BY RevisionNumbers DEF LaterTable, LaterColumn
<1>2. \A t \in DOMAIN Models : Complete(c[Public], t)
  BY <1>1 DEF CatalogAt, TablesAt, Complete
<1>3. "uq_username" \notin c[Public]["user"] BY RevisionNumbers DEF CatalogAt, TablesAt
<1>4. TenantTables \subseteq DOMAIN Models BY ModelTables DEF TenantTables
<1> QED BY <1>2, <1>3, <1>4 DEF Complete

\* A server on Postgres that is up has the newest revision in every schema.
LEMMA PostgresServes ==
    ASSUME dialect = "postgres", tenants \subseteq Tenant, PostgresOK
    PROVE  ServedTablesAreComplete
<1> SUFFICES ASSUME server.at = "up"
             PROVE  /\ \A t \in DOMAIN Models : Complete(catalog[Public], t)
                    /\ "uq_username" \notin catalog[Public]["user"]
                    /\ \A o \in tenants \ server.open, t \in TenantTables :
                         o \in Schemas(catalog) /\ catalog[o][t] = catalog[Public][t]
  BY DEF ServedTablesAreComplete, Server
<1>1. CatalogAt(LastRevision, catalog) BY DEF PostgresOK
<1>2. ASSUME NEW o \in tenants \ server.open, NEW t \in TenantTables
      PROVE  o \in Schemas(catalog) /\ catalog[o][t] = catalog[Public][t]
  <2>1. o \in DOMAIN catalog /\ t \in DOMAIN catalog[o] BY DEF PostgresOK
  <2>2. o \in Schemas(catalog) BY <2>1, MigrationsAssumption DEF Schemas
  <2> QED BY <2>1, <2>2, <1>1 DEF CatalogAt, CopiesAt
<1> QED BY <1>1, <1>2, HeadIsComplete

\* What is committed and what is in the draft are each at their revision.
LEMMA PostgresTransactions ==
    ASSUME MigrationsInv, dialect = "postgres",
           \/ \E booting \in BOOLEAN : UpgradeHead(booting)
           \/ UpgradeNext \/ UpgradeCommits \/ DowngradeOne
    PROVE  dialect' = "postgres" /\ tenants' \subseteq Tenant /\ ServerType' /\ PostgresOK'
<1> USE RevisionNumbers DEF Server
<1>0. /\ tenants \subseteq Tenant /\ ServerType /\ PostgresOK /\ FirstTenant \in Tenant
  BY MigrationsAssumption DEF MigrationsInv, FirstTenant
<1>1. ASSUME NEW booting \in BOOLEAN, UpgradeHead(booting)
      PROVE  tenants' \subseteq Tenant /\ dialect' = "postgres" /\ ServerType' /\ PostgresOK'
  <2>1. /\ server' = [Down EXCEPT !.at = "upgrade", !.next = revision, !.boots = booting,
                                  !.draft = [catalog |-> catalog, tenants |-> tenants]]
        /\ revision' = revision /\ catalog' = catalog /\ tenants' = tenants /\ dialect' = dialect
    BY <1>1 DEF UpgradeHead
  <2>2. server' = [at |-> "upgrade", next |-> revision, todo |-> {}, open |-> {},
                   boots |-> booting, draft |-> [catalog |-> catalog, tenants |-> tenants]]
    BY <2>1 DEF Down
  <2>3. CatalogAt(revision, catalog) /\ revision \in Nat BY <1>0 DEF PostgresOK, CatalogAt
  <2>4. ServerType' BY <2>2, <2>3, <1>0, <1>1 DEF ServerType, Stages
  <2>5. server'.at = "upgrade" /\ server'.next = revision /\ server'.draft.catalog = catalog BY <2>2
  <2> QED BY <2>1, <2>3, <2>4, <2>5, <1>0 DEF PostgresOK
<1>2. CASE UpgradeNext
  <2> DEFINE n == server.next + 1
             c == server.draft.catalog
             os == server.draft.tenants
  <2>1. /\ server.at = "upgrade" /\ server.next < LastRevision
        /\ dialect' = dialect /\ revision' = revision /\ catalog' = catalog /\ tenants' = tenants
    BY <1>2 DEF UpgradeNext
  <2>2. CatalogAt(revision, catalog) BY <1>0 DEF PostgresOK
  <2>3. CASE Refuses(n, c, os)
    <3>1. server' = Down BY <2>3, <1>2 DEF UpgradeNext
    <3>2. ServerType' /\ server'.at = "down" BY <3>1, DownIsServer DEF ServerType, Down
    <3> QED BY <3>2, <2>1, <2>2, <1>0 DEF PostgresOK
  <2>4. CASE ~Refuses(n, c, os)
    <3> DEFINE d == [catalog |-> Upgraded(n, c, os),
                  tenants |-> IF n = 6 THEN {FirstTenant} ELSE os]
    <3>1. server' = [server EXCEPT !.next = n, !.draft = d] BY <2>4, <1>2 DEF UpgradeNext
    <3>2. server.next \in Nat /\ os \in SUBSET Tenant BY <1>0 DEF ServerType
    <3>3. n \in 1 .. LastRevision /\ n - 1 = server.next BY <2>1, <3>2
    <3>4. CatalogAt(n - 1, c) BY <3>3, <2>1, <1>0 DEF PostgresOK
    <3>5. CatalogAt(n, Upgraded(n, c, os))
      <4> HIDE DEF n, c, os
      <4> QED BY <3>2, <3>3, <3>4, <2>4, UpgradedCatalog
    <3>6. d.tenants \subseteq Tenant BY <3>2, <1>0
    <3> HIDE DEF d
    <3>7. server'.at = "upgrade" /\ server'.next = n /\ server'.draft = d
      BY <3>1, <2>1, <1>0 DEF ServerType
    <3>9. server'.draft.catalog = Upgraded(n, c, os) BY <3>7 DEF d
    <3>8. ServerType'
      <4>1. d \in [catalog : {server'.draft.catalog}, tenants : SUBSET Tenant] BY <3>6, <3>9 DEF d
      <4>2. /\ server.todo \in SUBSET Tenant /\ server.open \in SUBSET Tenant
            /\ server.boots \in BOOLEAN
        BY <1>0 DEF ServerType
      <4>3. server' = [at |-> "upgrade", next |-> n, todo |-> server.todo, open |-> server.open,
                       boots |-> server.boots, draft |-> d]
        BY <3>1, <2>1, <1>0 DEF ServerType
      <4>4. n \in Nat BY <3>3, RevisionNumbers
      <4> HIDE DEF n
      <4> QED BY <4>1, <4>2, <4>3, <4>4 DEF ServerType, Stages
    <3> QED BY <2>1, <2>2, <3>5, <3>7, <3>8, <3>9, <1>0 DEF PostgresOK
  <2> QED BY <2>3, <2>4
<1>3. CASE UpgradeCommits
  <2>1. /\ server.at = "upgrade" /\ server.next = LastRevision
        /\ revision' = LastRevision /\ catalog' = server.draft.catalog /\ dialect' = dialect
        /\ tenants' = IF server.boots /\ server.draft.tenants = {} THEN {FirstTenant}
                      ELSE server.draft.tenants
        /\ server' = IF server.boots THEN [Down EXCEPT !.at = "tenants", !.todo = tenants']
                     ELSE Down
    BY <1>3 DEF UpgradeCommits
  <2>2. tenants' \subseteq Tenant BY <2>1, <1>0 DEF ServerType
  <2>3. CatalogAt(revision', catalog') BY <2>1, <1>0 DEF PostgresOK
  <2>4. CASE server.boots
    <3>1. server' = [at |-> "tenants", next |-> 0, todo |-> tenants', open |-> {}, boots |-> FALSE,
                     draft |-> NoDraft]
      BY <2>1, <2>4 DEF Down
    <3>2. ServerType' BY <3>1, <2>2 DEF ServerType, Stages, NoDraft
    <3>3. server'.at = "tenants" /\ server'.todo = tenants' BY <3>1
    <3> QED BY <2>1, <2>2, <2>3, <3>2, <3>3 DEF PostgresOK
  <2>5. CASE ~server.boots
    <3>1. ServerType' /\ server'.at = "down" BY <2>1, <2>5, DownIsServer DEF ServerType, Down
    <3> QED BY <2>1, <2>2, <2>3, <3>1 DEF PostgresOK
  <2> QED BY <2>4, <2>5
<1>4. CASE DowngradeOne
  <2>1. /\ server.at = "down" /\ revision - 1 \in FoundAt /\ ~Cloned(revision, catalog)
        /\ catalog' = Lowered(revision, catalog)
        /\ tenants' = (IF revision = 6 THEN {} ELSE tenants)
        /\ revision' = revision - 1 /\ dialect' = dialect /\ server' = server
    BY <1>4 DEF DowngradeOne
  <2>2. CatalogAt(revision, catalog) /\ revision \in 1 .. LastRevision
    BY <2>1, <1>0, MigrationsAssumption DEF PostgresOK, CatalogAt
  <2>3. CatalogAt(revision', catalog') BY <2>1, <2>2, LoweredCatalog
  <2>4. ServerType' BY <2>1, <1>0 DEF ServerType
  <2> QED BY <2>1, <2>3, <2>4, <1>0 DEF PostgresOK
<1> QED BY <1>1, <1>2, <1>3, <1>4

\* Schemas are provisioned at the newest revision only.
LEMMA ProvisionSteps ==
    ASSUME MigrationsInv, dialect = "postgres",
           Provision \/ AllProvisioned \/ (\E o \in Tenant : TenantRow(o)) \/ TenantSchema
    PROVE  dialect' = "postgres" /\ tenants' \subseteq Tenant /\ ServerType' /\ PostgresOK'
<1> USE DEF Server
<1>0. /\ tenants \subseteq Tenant /\ ServerType /\ PostgresOK BY DEF MigrationsInv
<1>1. /\ server.at \in {"tenants", "up"} /\ dialect' = dialect /\ revision' = revision
  <2>1. CASE Provision BY <2>1 DEF Provision
  <2>2. CASE AllProvisioned BY <2>2 DEF AllProvisioned
  <2>3. CASE \E o \in Tenant : TenantRow(o) BY <2>3 DEF TenantRow
  <2>4. CASE TenantSchema BY <2>4 DEF TenantSchema
  <2> QED BY <2>1, <2>2, <2>3, <2>4
<1>2. CatalogAt(LastRevision, catalog) /\ revision = LastRevision BY <1>0, <1>1 DEF PostgresOK
<1>3. \A o \in tenants \ (server.todo \cup server.open) :
         o \in DOMAIN catalog /\ TenantTables \subseteq DOMAIN catalog[o]
  BY <1>0, <1>1 DEF PostgresOK
<1>4. server.todo \subseteq Tenant /\ server.open \subseteq Tenant BY <1>0 DEF ServerType
<1> DEFINE Covered(c, os) == \A o \in os : o \in DOMAIN c /\ TenantTables \subseteq DOMAIN c[o]
<1>5. ASSUME NEW os \in SUBSET Tenant, NEW old, Covered(catalog, old)
      PROVE  /\ CatalogAt(LastRevision, ProvisionedAll(catalog, os))
             /\ Covered(ProvisionedAll(catalog, os), old \cup os)
  <2> DEFINE d == ProvisionedAll(catalog, os)
  <2>1. LastRevision \in 7 .. LastRevision /\ TenantTables \subseteq DOMAIN catalog[Public]
    BY <1>2, HeadIsComplete, RevisionNumbers
  <2>2. CatalogAt(LastRevision, d) /\ Widened(catalog, os, d)
    BY <2>1, <1>2, ProvisionedCatalog
  <2> HIDE DEF d
  <2>3. Covered(d, old \cup os) BY <2>2, <1>5 DEF Widened
  <2> QED BY <2>2, <2>3 DEF d
<1>6. ASSUME Provision
      PROVE  tenants' \subseteq Tenant /\ ServerType' /\ PostgresOK'
  <2>1. PICK o \in server.todo, commits \in BOOLEAN :
          /\ catalog' = IF commits THEN ProvisionedAll(catalog, server.open \cup {o}) ELSE catalog
          /\ server' = [server EXCEPT !.todo = @ \ {o},
                                      !.open = IF commits THEN {} ELSE server.open \cup {o}]
    BY <1>6 DEF Provision
  <2>2. server.at = "tenants" /\ tenants' = tenants BY <1>6 DEF Provision
  <2>3. server.open \cup {o} \in SUBSET Tenant BY <1>4
  <2>4. ServerType' BY <2>1, <2>3, <1>0 DEF ServerType
  <2>5. /\ server'.at = "tenants" /\ server'.todo = server.todo \ {o}
        /\ server'.open = IF commits THEN {} ELSE server.open \cup {o}
    BY <2>1, <2>2, <1>0 DEF ServerType
  <2>6. /\ CatalogAt(LastRevision, catalog')
        /\ Covered(catalog', tenants \ (server'.todo \cup server'.open))
    <3>1. CASE commits
      <4> DEFINE old == tenants \ (server.todo \cup server.open)
                 os == server.open \cup {o}
      <4>1. tenants \ (server'.todo \cup server'.open) \subseteq old \cup os BY <2>5, <3>1
      <4>2. catalog' = ProvisionedAll(catalog, os) BY <2>1, <3>1
      <4>3. CatalogAt(LastRevision, catalog') /\ Covered(catalog', old \cup os)
        <5>1. Covered(catalog, old) BY <1>3
        <5> HIDE DEF old, os
        <5> QED BY <5>1, <4>2, <2>3, <1>5 DEF os
      <4> QED BY <4>1, <4>3
    <3>2. CASE ~commits
      <4>1. catalog' = catalog /\ server'.todo \cup server'.open = server.todo \cup server.open
        BY <2>1, <2>5, <3>2
      <4> QED BY <4>1, <1>2, <1>3
    <3> QED BY <3>1, <3>2
  <2> QED BY <2>2, <2>4, <2>5, <2>6, <1>0, <1>1, <1>2 DEF PostgresOK
<1>7. ASSUME AllProvisioned \/ TenantSchema
      PROVE  tenants' \subseteq Tenant /\ ServerType' /\ PostgresOK'
  <2>1. /\ catalog' = ProvisionedAll(catalog, server.open) /\ tenants' = tenants /\ server.todo = {}
        /\ \/ server' = [server EXCEPT !.at = "up", !.open = {}]
           \/ server.at = "up" /\ server' = [server EXCEPT !.open = {}]
    BY <1>7, <1>0 DEF AllProvisioned, TenantSchema, PostgresOK
  <2>2. ServerType' BY <2>1, <1>0 DEF ServerType, Stages
  <2>3. server'.at = "up" /\ server'.todo = {} /\ server'.open = {} BY <2>1, <1>0 DEF ServerType
  <2> DEFINE old == tenants \ (server.todo \cup server.open)
  <2>4. CatalogAt(LastRevision, catalog') /\ Covered(catalog', old \cup server.open)
    <3>1. Covered(catalog, old) BY <1>3
    <3>2. server.open \in SUBSET Tenant BY <1>4
    <3> HIDE DEF old
    <3> QED BY <3>1, <3>2, <2>1, <1>5
  <2>5. tenants \ (server'.todo \cup server'.open) \subseteq old \cup server.open BY <2>1, <2>3
  <2> QED BY <2>1, <2>2, <2>3, <2>4, <2>5, <1>0, <1>1, <1>2 DEF PostgresOK
<1>8. ASSUME NEW o \in Tenant, TenantRow(o)
      PROVE  tenants' \subseteq Tenant /\ ServerType' /\ PostgresOK'
  <2>1. /\ server.at = "up" /\ server.open = {} /\ tenants' = tenants \cup {o} /\ catalog' = catalog
        /\ server' = [server EXCEPT !.open = {o}]
    BY <1>8 DEF TenantRow
  <2>2. ServerType' BY <2>1, <1>0 DEF ServerType
  <2>3. server'.at = "up" /\ server'.todo = server.todo /\ server'.open = {o}
    BY <2>1, <1>0 DEF ServerType
  <2>4. tenants' \ (server'.todo \cup server'.open)
          \subseteq tenants \ (server.todo \cup server.open)
    BY <2>1, <2>3
  <2> QED BY <2>1, <2>2, <2>3, <2>4, <1>0, <1>1, <1>2, <1>3 DEF PostgresOK
<1> QED BY <1>1, <1>6, <1>7, <1>8

LEMMA MigrationsStep == MigrationsInv /\ [MigrationsNext]_migrations => MigrationsInv'
<1> SUFFICES ASSUME MigrationsInv, [MigrationsNext]_migrations PROVE MigrationsInv' OBVIOUS
<1>1. CASE /\ dialect = "sqlite"
           /\ BootSqlite \/ CreateTable \/ TablesCreated \/ AddColumn \/ UsernamePerOrg
  BY <1>1, SqliteSteps
<1>2. CASE /\ dialect = "postgres"
           /\ BootSqlite \/ CreateTable \/ TablesCreated \/ AddColumn \/ UsernamePerOrg
  <2>1. server.at \notin {"tables", "columns"} BY <1>2 DEF MigrationsInv, PostgresOK
  <2> QED
    BY <1>2, <2>1 DEF BootSqlite, CreateTable, TablesCreated, AddColumn, UsernamePerOrg,
                      Server
<1>3. CASE /\ dialect = "postgres"
           /\ \/ \E booting \in BOOLEAN : UpgradeHead(booting)
              \/ UpgradeNext \/ UpgradeCommits \/ DowngradeOne
  <2>1. dialect' = "postgres" /\ tenants' \subseteq Tenant /\ ServerType' /\ PostgresOK'
    BY <1>3, PostgresTransactions
  <2> QED BY <2>1 DEF MigrationsInv
<1>4. CASE /\ dialect = "postgres"
           /\ \/ Provision \/ AllProvisioned \/ TenantSchema
              \/ \E o \in Tenant : TenantRow(o)
  <2>1. dialect' = "postgres" /\ tenants' \subseteq Tenant /\ ServerType' /\ PostgresOK'
    BY <1>4, ProvisionSteps
  <2> QED BY <2>1 DEF MigrationsInv
<1>5. ASSUME dialect = "sqlite"
      PROVE  /\ ~\E booting \in BOOLEAN : UpgradeHead(booting)
             /\ ~UpgradeNext /\ ~UpgradeCommits /\ ~DowngradeOne /\ ~Provision
             /\ ~AllProvisioned /\ ~(\E o \in Tenant : TenantRow(o)) /\ ~TenantSchema
  <2>1. server.at \notin {"upgrade", "tenants"} BY <1>5 DEF MigrationsInv, SqliteOK
  <2>2. ~(\E booting \in BOOLEAN : UpgradeHead(booting)) BY <1>5 DEF UpgradeHead
  <2>3. ~UpgradeNext BY <2>1 DEF UpgradeNext, Server
  <2>4. ~UpgradeCommits BY <2>1 DEF UpgradeCommits, Server
  <2>5. ~DowngradeOne BY <1>5 DEF DowngradeOne
  <2>6. ~Provision BY <2>1 DEF Provision, Server
  <2>7. ~AllProvisioned BY <2>1 DEF AllProvisioned, Server
  <2>8. ~(\E o \in Tenant : TenantRow(o)) BY <1>5 DEF TenantRow
  <2>9. ~TenantSchema BY <1>5 DEF TenantSchema
  <2> QED BY <2>2, <2>3, <2>4, <2>5, <2>6, <2>7, <2>8, <2>9
<1>6. CASE ServerDies
  <2>1. /\ server' = Down /\ dialect' = dialect /\ revision' = revision /\ catalog' = catalog
        /\ tenants' = tenants
    BY <1>6 DEF ServerDies
  <2>2. ServerType' /\ server'.at = "down" BY <2>1, DownIsServer DEF ServerType, Down
  <2>3. CASE dialect = "sqlite" BY <2>1, <2>2, <2>3 DEF MigrationsInv, SqliteOK
  <2>4. CASE dialect = "postgres" BY <2>1, <2>2, <2>4 DEF MigrationsInv, PostgresOK
  <2> QED BY <2>3, <2>4 DEF MigrationsInv
<1>7. CASE UNCHANGED migrations
  BY <1>7 DEF migrations, MigrationsInv, ServerType, SqliteOK, PostgresOK
<1>8. dialect = "sqlite" \/ dialect = "postgres" BY DEF MigrationsInv
<1>9. CASE MigrationsNext
  <2>1. \/ BootSqlite \/ CreateTable \/ TablesCreated \/ AddColumn \/ UsernamePerOrg
        \/ \E booting \in BOOLEAN : UpgradeHead(booting)
        \/ UpgradeNext \/ UpgradeCommits \/ Provision \/ AllProvisioned
        \/ \E o \in Tenant : TenantRow(o)
        \/ TenantSchema \/ DowngradeOne \/ ServerDies
    BY <1>9 DEF MigrationsNext
  <2> QED BY <2>1, <1>1, <1>2, <1>3, <1>4, <1>5, <1>6, <1>8
<1> QED BY <1>7, <1>9

\* Whatever release left the database, and however many boots, upgrades and
\* downgrades died over it, a server that is up serves public and the schemas
\* of all organizations, however many, with every table and column that
\* models.py declares (0010_capture_probe_trust.py:65, session.py:63).
THEOREM ServedTablesAreCompleteCorrect == MigrationsSpec => []ServedTablesAreComplete
<1>1. MigrationsInv => ServedTablesAreComplete
  <2>1. SqliteOK /\ dialect = "sqlite" => ServedTablesAreComplete
    BY DEF SqliteOK, Ready, ServedTablesAreComplete, Server
  <2> QED BY <2>1, PostgresServes DEF MigrationsInv
<1> QED BY <1>1, MigrationsInitHolds, MigrationsStep, PTL DEF MigrationsSpec

\* No column comes twice.
LEMMA ColumnsComeOnce ==
    \A m, n \in 1 .. LastRevision : \A t, x :
        x \in Of(Revision[m].adds, t) /\ x \in Of(Revision[n].adds, t) => m = n
<1> USE RevisionNumbers
<1> SUFFICES ASSUME NEW m \in 1 .. 10, NEW n \in 1 .. 10, NEW t, NEW x,
                    x \in AddedBy(m, t), x \in AddedBy(n, t)
             PROVE  m = n
  BY AddedColumns
<1>1. CASE t = "person" BY <1>1 DEF AddedBy, OrgTables
<1>2. CASE t = "attendance" BY <1>2 DEF AddedBy, OrgTables
<1>3. CASE t = "appsetting" BY <1>3 DEF AddedBy, OrgTables
<1>4. CASE t = "user" BY <1>4 DEF AddedBy, OrgTables
<1>5. CASE t = "organization" BY <1>5 DEF AddedBy, OrgTables
<1>6. CASE t = "site" BY <1>6 DEF AddedBy, OrgTables
<1>7. CASE t \notin {"person", "attendance", "appsetting", "user", "organization", "site"}
  BY <1>7 DEF AddedBy
<1> QED BY <1>1, <1>2, <1>3, <1>4, <1>5, <1>6, <1>7

\* Nor does one that its table was created with.
LEMMA CreatedColumnsStay ==
    \A m, n \in 1 .. LastRevision : \A t \in DOMAIN Revision[m].creates :
        Revision[m].creates[t] \cap Of(Revision[n].adds, t) = {}
<1> USE RevisionNumbers
<1>1. \A t \in DOMAIN InitialSchema.creates, n \in 1 .. 10 :
        InitialSchema.creates[t] \cap AddedBy(n, t) = {}
  <2>1. InitialSchema.creates =
          [person |-> {"email", "is_active", "deactivated_at", "uq_person_employee_id"},
           user |-> {"role", "person_id", "uq_username"},
           faceembedding |-> {}, accessevent |-> {},
           attendance |-> {"source", "late", "checked_out_at"},
           appsetting |-> {}]
    BY DEF InitialSchema, Nothing
  <2> SUFFICES ASSUME NEW t \in DOMAIN InitialSchema.creates, NEW n \in 1 .. 10
               PROVE  InitialSchema.creates[t] \cap AddedBy(n, t) = {}
    OBVIOUS
  <2>2. CASE t = "person" BY <2>1, <2>2 DEF AddedBy, OrgTables
  <2>3. CASE t = "user" BY <2>1, <2>3 DEF AddedBy, OrgTables
  <2>4. CASE t = "attendance" BY <2>1, <2>4 DEF AddedBy, OrgTables
  <2>5. CASE t \in {"faceembedding", "accessevent", "appsetting"} BY <2>1, <2>5
  <2> QED BY <2>1, <2>2, <2>3, <2>4, <2>5
<1>2. ASSUME NEW m \in 2 .. 10, NEW t \in DOMAIN Revision[m].creates
      PROVE  Revision[m].creates[t] = {}
  <2>1. m # 3 /\ m # 8 BY Creations DEF CreatedBy
  <2>2. /\ Ops.creates = [holiday |-> {}] /\ SpoofAlerts.creates = [spoofalert |-> {}]
        /\ AttendanceModes.creates = [site |-> {}, offering |-> {}, enrollment |-> {},
                                      occurrence |-> {}]
    BY DEF Ops, SpoofAlerts, AttendanceModes, Nothing
  <2>3. /\ Organizations.creates = [organization |-> {}]
        /\ SchemaPerOrg.creates = [platform_user |-> {}]
    BY DEF Organizations, SchemaPerOrg
  <2>4. /\ AssistTables.creates = [assistchunk |-> {}, assistmessage |-> {}]
        /\ CaptureProbeTrust.creates = [captureprobe |-> {}]
    BY DEF AssistTables, CaptureProbeTrust, Nothing
  <2>5. CASE m \in {2, 4, 5} BY <2>5, <2>2
  <2>6. CASE m \in {6, 7} BY <2>6, <2>3
  <2>7. CASE m \in {9, 10} BY <2>7, <2>4
  <2> QED BY <2>1, <2>5, <2>6, <2>7
<1> QED BY <1>1, <1>2, AddedColumns

\* A revision alters tables that were created before it.
LEMMA AlteredTablesAreThere ==
    ASSUME NEW n \in 1 .. LastRevision, n # 6, NEW t \in DOMAIN Revision[n].adds
    PROVE  t \in DOMAIN Models /\ ~LaterTable(n - 1, t)
<1> USE RevisionNumbers
<1>1. t \in AlteredTables(n) BY AddedColumns
<1>2. t \in DOMAIN Models BY <1>1, ModelTables DEF AlteredTables
<1>3. \A m \in n .. 10 : t \notin CreatedBy(m) BY <1>1 DEF AlteredTables, CreatedBy
<1> QED BY <1>2, <1>3, Creations DEF LaterTable

----------------------------------------------------------------------------

\* No table has a column of a later revision, and the organizations have the
\* tables that 0008 and 0010 alter.
OldAt(n, c) ==
    /\ \A t \in DOMAIN c[Public] : \A x \in c[Public][t] : ~LaterColumn(n, t, x)
    /\ \A s \in Schemas(c) : {"site", "attendance"} \subseteq DOMAIN c[s]

\* upgrade() brings the columns of its revision and none of a later one.
LEMMA EvolvedIsOld ==
    ASSUME NEW n \in 1 .. LastRevision, NEW tables,
           \A t \in DOMAIN tables : \A x \in tables[t] : ~LaterColumn(n - 1, t, x)
    PROVE  \A t \in DOMAIN Evolved(tables, Revision[n]) :
             \A x \in Evolved(tables, Revision[n])[t] : ~LaterColumn(n, t, x)
<1> USE RevisionNumbers
<1> DEFINE r == Revision[n]
           new == Evolved(tables, r)
<1> SUFFICES ASSUME NEW t \in DOMAIN new, NEW x \in new[t] PROVE ~LaterColumn(n, t, x)
  OBVIOUS
<1>1. /\ t \in DOMAIN tables \cup DOMAIN r.creates
      /\ x \in (IF t \in DOMAIN tables THEN tables[t] ELSE r.creates[t]) \cup Of(r.adds, t)
  BY DEF Evolved
<1> HIDE DEF new
<1>2. CASE t \in DOMAIN tables /\ x \in tables[t] BY <1>2, LaterStep
<1>3. CASE t \in DOMAIN r.creates /\ x \in r.creates[t]
  BY <1>3, CreatedColumnsStay DEF LaterColumn
<1>4. CASE x \in Of(r.adds, t)
  <2>1. \A m \in n + 1 .. 10 : x \notin Of(Revision[m].adds, t) BY <1>4, ColumnsComeOnce
  <2> QED BY <2>1 DEF LaterColumn
<1> QED BY <1>1, <1>2, <1>3, <1>4

\* So with the schemas it alters and makes,
LEMMA UpgradedIsOld ==
    ASSUME NEW n \in 1 .. LastRevision, NEW c, CatalogAt(n - 1, c), OldAt(n - 1, c),
           NEW os \in SUBSET Tenant, ~Refuses(n, c, os)
    PROVE  OldAt(n, Upgraded(n, c, os))
<1> USE RevisionNumbers
<1> DEFINE a == Altered(n, c)
<1>1. DOMAIN a = DOMAIN c /\ Public \in DOMAIN c BY DEF Altered, CatalogAt, CopiesAt
<1>2. a[Public] = Evolved(c[Public], Revision[n]) BY <1>1 DEF Altered
<1>3. \A s \in DOMAIN c \ {Public} :
        a[s] = IF Mirrored(n) THEN Evolved(c[s], [Revision[n] EXCEPT !.creates = <<>>]) ELSE c[s]
  BY DEF Altered
<1> HIDE DEF a
<1>4. \A s \in Schemas(a) : {"site", "attendance"} \subseteq DOMAIN a[s]
  <2> SUFFICES ASSUME NEW s \in Schemas(a) PROVE DOMAIN c[s] \subseteq DOMAIN a[s]
    BY <1>1 DEF OldAt, Schemas
  <2>1. s \in DOMAIN c \ {Public} BY <1>1 DEF Schemas
  <2> QED BY <2>1, <1>3 DEF Evolved
<1>5. OldAt(n, a) BY <1>2, <1>4, EvolvedIsOld DEF OldAt
<1>6. CASE n = 7
  <2>1. os = {} \/ TenantTables \subseteq DOMAIN a[Public]
    BY <1>6, AlteredCatalog DEF Refuses, a
  <2>2. CatalogAt(n, a) /\ n \in 7 .. LastRevision BY <1>6, AlteredCatalog DEF a
  <2> DEFINE d == ProvisionedAll(a, os)
  <2>3. Widened(a, os, d)
    BY <2>1, <2>2, ProvisionedCatalog
  <2> HIDE DEF d
  <2>4. {"site", "attendance"} \subseteq TenantTables BY DEF TenantTables
  <2>5. OldAt(n, d) BY <2>3, <2>4, <1>5 DEF OldAt, Schemas, Widened
  <2> QED BY <1>6, <2>5 DEF Upgraded, d, a
<1>7. CASE n # 7 BY <1>5, <1>7 DEF Upgraded, a
<1> QED BY <1>6, <1>7

\* with those that are provisioned,
LEMMA ProvisionedIsOld ==
    ASSUME NEW c, CatalogAt(LastRevision, c), OldAt(LastRevision, c), NEW os \in SUBSET Tenant
    PROVE  OldAt(LastRevision, ProvisionedAll(c, os))
<1> USE RevisionNumbers
<1> DEFINE d == ProvisionedAll(c, os)
<1>1. TenantTables \subseteq DOMAIN c[Public] BY HeadIsComplete
<1>2. LastRevision \in 7 .. LastRevision OBVIOUS
<1>3. Widened(c, os, d)
  BY <1>1, <1>2, ProvisionedCatalog
<1> HIDE DEF d
<1>4. {"site", "attendance"} \subseteq TenantTables BY DEF TenantTables
<1>5. OldAt(LastRevision, d) BY <1>3, <1>4 DEF OldAt, Schemas, Widened
<1> QED BY <1>5 DEF d

\* with what downgrade() leaves,
LEMMA LoweredIsOld ==
    ASSUME NEW n \in 1 .. LastRevision, NEW c, CatalogAt(n, c), OldAt(n, c)
    PROVE  OldAt(n - 1, Lowered(n, c))
<1> USE RevisionNumbers
<1> DEFINE r == Revision[n]
           low == Lowered(n, c)
           kept == DOMAIN c[Public] \ DOMAIN r.creates
<1>1. low[Public] =
        [t \in kept |-> (c[Public][t] \ Of(r.adds, t)) \cup (IF n = 7 THEN Of(r.drops, t) ELSE {})]
  BY DEF Lowered, CatalogAt, CopiesAt
<1>2. Schemas(low) = IF n = 7 THEN {} ELSE Schemas(c) BY DEF Schemas, Lowered
<1>3. \A s \in Schemas(low) : DOMAIN low[s] = DOMAIN c[s]
  BY <1>2 DEF Schemas, Lowered
<1> HIDE DEF low
<1>4. ASSUME NEW t \in DOMAIN low[Public], NEW x \in low[Public][t]
      PROVE  ~LaterColumn(n - 1, t, x)
  <2>1. /\ t \in DOMAIN c[Public]
        /\ x \in (c[Public][t] \ Of(r.adds, t)) \cup (IF n = 7 THEN Of(r.drops, t) ELSE {})
    BY <1>1
  <2>2. CASE x \in c[Public][t] \ Of(r.adds, t) BY <2>1, <2>2, LaterStep DEF OldAt
  <2>3. CASE n = 7 /\ x \in Of(r.drops, t)
    <3>1. t = "user" /\ x = "uq_username" BY <2>3 DEF Of, SchemaPerOrg
    <3>2. \A m \in 7 .. 10 : x \notin AddedBy(m, t) BY <3>1 DEF AddedBy
    <3> QED BY <3>2, <2>3, AddedColumns DEF LaterColumn
  <2> QED BY <2>1, <2>2, <2>3
<1> QED BY <1>2, <1>3, <1>4 DEF OldAt, low

\* and with what an earlier release left.
LEMMA FoundIsOld ==
    ASSUME NEW n \in 0 .. LastRevision, NEW os \in SUBSET Tenant
    PROVE  OldAt(n, PostgresFound(n, os))
<1> USE RevisionNumbers
<1> DEFINE Fine(k) == \A t \in DOMAIN PostgresTables[k] :
                        \A x \in PostgresTables[k][t] : ~LaterColumn(k, t, x)
<1>1. Fine(0)
  <2>1. PostgresTables[0] = <<>> BY PostgresTablesUnfold
  <2> QED BY <2>1
<1>2. ASSUME NEW k \in 1 .. 10, Fine(k - 1) PROVE Fine(k)
  <2>1. PostgresTables[k] = Evolved(PostgresTables[k - 1], Revision[k]) BY PostgresTablesUnfold
  <2> QED BY <1>2, <2>1, EvolvedIsOld
<1> HIDE DEF Fine
<1>3. Fine(0) /\ Fine(1) /\ Fine(2) /\ Fine(3) /\ Fine(4) /\ Fine(5) BY <1>1, <1>2
<1>4. Fine(6) /\ Fine(7) /\ Fine(8) /\ Fine(9) /\ Fine(10) BY <1>2, <1>3
<1>5. Fine(n) BY <1>3, <1>4
<1> DEFINE c == PostgresFound(n, os)
           public == PostgresTables[n]
<1>6. c = [s \in {Public} \cup (IF n < 7 THEN {} ELSE os) |->
             IF s = Public THEN public ELSE [t \in TenantTables \cap DOMAIN public |-> public[t]]]
  BY DEF PostgresFound
<1> HIDE DEF c
<1>7. c[Public] = public BY <1>6
<1>8. ASSUME NEW s \in Schemas(c) PROVE {"site", "attendance"} \subseteq DOMAIN c[s]
  <2>1. n >= 7 /\ DOMAIN c[s] = TenantTables \cap DOMAIN public BY <1>6 DEF Schemas
  <2>2. \A m \in n + 1 .. 10 : "site" \notin CreatedBy(m) /\ "attendance" \notin CreatedBy(m)
    BY <2>1 DEF CreatedBy
  <2>3. ~LaterTable(n, "site") /\ ~LaterTable(n, "attendance")
    BY <2>2, Creations DEF LaterTable
  <2>4. "site" \in DOMAIN public /\ "attendance" \in DOMAIN public
    BY <2>3, FoundTables, ModelTables DEF TablesAt
  <2> QED BY <2>1, <2>4 DEF TenantTables
<1> QED BY <1>5, <1>7, <1>8 DEF OldAt, Fine, c

\* On tables of the revision before, no statement of a revision fails but
\* those of 0006 and 0007.
LEMMA OthersGoThrough ==
    ASSUME NEW n \in 1 .. LastRevision, NEW c, CatalogAt(n - 1, c), OldAt(n - 1, c),
           NEW os, Refuses(n, c, os)
    PROVE  n \in {6, 7}
<1> USE RevisionNumbers
<1> SUFFICES ASSUME n # 6, n # 7 PROVE FALSE OBVIOUS
<1> DEFINE r == Revision[n]
<1>1. DOMAIN r.creates \cap DOMAIN c[Public] = {} BY LaterStep DEF CatalogAt, TablesAt
<1>2. ASSUME NEW s \in AlteredBy(n, c), NEW t \in DOMAIN r.adds
      PROVE  t \in DOMAIN c[s] /\ r.adds[t] \cap c[s][t] = {}
  <2>1. t \in DOMAIN c[Public] BY AlteredTablesAreThere DEF CatalogAt, TablesAt
  <2>2. r.adds[t] = Of(r.adds, t) BY DEF Of
  <2>3. r.adds[t] \cap c[Public][t] = {} BY <2>1, <2>2, LaterStep DEF OldAt
  <2>4. CASE s = Public BY <2>1, <2>3, <2>4
  <2>5. CASE s # Public
    <3>1. n \in {8, 10} /\ s \in Schemas(c) BY <2>5 DEF AlteredBy, Mirrored, Schemas
    <3>2. t \in {"site", "attendance"} BY <3>1, AddedColumns DEF AlteredTables
    <3>3. t \in DOMAIN c[s] BY <3>1, <3>2 DEF OldAt
    <3>4. c[s][t] = c[Public][t] BY <3>1, <3>3 DEF CatalogAt, CopiesAt
    <3> QED BY <3>3, <3>4, <2>3
  <2> QED BY <2>4, <2>5
<1>3. \A t \in DOMAIN r.drops : r.drops[t] = {}
  <2>1. \A t : Of(r.drops, t) = {} BY Drops
  <2> QED BY <2>1 DEF Of
<1> QED BY <1>1, <1>2, <1>3 DEF Refuses

\* 0007 does not go through where there is an organization.
LEMMA SeventhRefuses ==
    ASSUME NEW c, CatalogAt(6, c), NEW os, os # {} PROVE Refuses(7, c, os)
<1>1. "captureprobe" \in CreatedBy(10) BY DEF CreatedBy
<1>2. LaterTable(6, "captureprobe") BY <1>1, Creations, RevisionNumbers DEF LaterTable
<1>3. "captureprobe" \notin DOMAIN c[Public] BY <1>2 DEF CatalogAt, TablesAt
<1> QED BY <1>3 DEF Refuses, TenantTables

\* From 0006 on there is an organization, and no upgrade gets from there to 0007.
Peopled ==
    /\ revision >= 6 => tenants # {}
    /\ server.at = "upgrade" =>
         /\ server.next >= 6 => server.draft.tenants # {}
         /\ revision < 7 => server.next < 7
         /\ revision <= server.next

\* The schemas are such that no other revision fails.
UpgradesInv ==
    /\ MigrationsInv
    /\ dialect = "postgres" =>
         /\ OldAt(revision, catalog) /\ Peopled
         /\ server.at = "upgrade" => OldAt(server.next, server.draft.catalog)

\* An upgrade of a database that any release left, or that was downgraded from
\* there, goes through from 0007 on, and from no revision before: it fails
\* at 0006_organizations.py:142 or 0007_schema_per_org.py:91.
UpgradesFromSevenOn ==
    [][/\ UpgradeNext /\ server'.at = "down" => revision < 7 /\ stuck' \in {6, 7}
       /\ UpgradeCommits => revision >= 7]_migrations

LEMMA UpgradesInitHolds == MigrationsInit => UpgradesInv
<1> SUFFICES ASSUME MigrationsInit PROVE UpgradesInv OBVIOUS
<1>1. MigrationsInv /\ server.at = "down"
  BY MigrationsInitHolds DEF MigrationsInit, Down
<1>2. CASE dialect = "postgres"
  <2>1. /\ revision \in 0 .. LastRevision /\ tenants \in SUBSET Tenant
        /\ catalog = PostgresFound(revision, tenants)
    BY <1>2, MigrationsAssumption, RevisionNumbers DEF MigrationsInit
  <2>2. OldAt(revision, catalog) BY <2>1, FoundIsOld
  <2>3. revision >= 6 => tenants # {} BY <1>2, <2>1, RevisionNumbers DEF MigrationsInit
  <2> QED BY <1>1, <2>2, <2>3 DEF UpgradesInv, Peopled
<1>3. CASE dialect # "postgres" BY <1>1, <1>3 DEF UpgradesInv
<1> QED BY <1>2, <1>3

LEMMA UpgradesStep == UpgradesInv /\ [MigrationsNext]_migrations => UpgradesInv'
<1> SUFFICES ASSUME UpgradesInv, [MigrationsNext]_migrations PROVE UpgradesInv' OBVIOUS
<1> USE RevisionNumbers DEF Server
<1>0. MigrationsInv' BY MigrationsStep DEF UpgradesInv
<1>1. /\ MigrationsInv /\ ServerType
      /\ dialect = "postgres" => PostgresOK /\ OldAt(revision, catalog) /\ Peopled
      /\ dialect = "postgres" /\ server.at = "upgrade" => OldAt(server.next, server.draft.catalog)
      /\ dialect # "postgres" => SqliteOK
  BY DEF UpgradesInv, MigrationsInv
<1> DEFINE Goal ==
             dialect' = "postgres" =>
               /\ OldAt(revision', catalog') /\ Peopled'
               /\ server'.at = "upgrade" => OldAt(server'.next, server'.draft.catalog)
<1>2. ASSUME BootSqlite \/ CreateTable \/ TablesCreated \/ AddColumn \/ UsernamePerOrg
      PROVE  Goal
  <2>1. dialect = "sqlite"
    BY <1>2, <1>1 DEF PostgresOK, MigrationsInv, BootSqlite, CreateTable, TablesCreated, AddColumn,
                      UsernamePerOrg
  <2>2. dialect' = dialect
    BY <1>2 DEF BootSqlite, CreateTable, TablesCreated, AddColumn, UsernamePerOrg
  <2> QED BY <2>1, <2>2, <1>1
<1>3. ASSUME NEW booting \in BOOLEAN, UpgradeHead(booting) PROVE Goal
  <2>1. /\ server' = [at |-> "upgrade", next |-> revision, todo |-> {}, open |-> {},
                      boots |-> booting, draft |-> [catalog |-> catalog, tenants |-> tenants]]
        /\ revision' = revision /\ catalog' = catalog /\ tenants' = tenants /\ dialect = "postgres"
    BY <1>3 DEF UpgradeHead, Down
  <2>2. /\ server'.next = revision /\ server'.draft.catalog = catalog
        /\ server'.draft.tenants = tenants
    BY <2>1
  <2>3. revision \in 0 .. 10 BY <2>1, <1>1 DEF PostgresOK, CatalogAt
  <2>4. Peopled'
    <3>1. revision' >= 6 => tenants' # {} BY <2>1, <1>1 DEF Peopled
    <3>2. server'.at = "upgrade" =>
            /\ revision' <= server'.next
            /\ revision' < 7 => server'.next < 7
            /\ server'.next >= 6 => server'.draft.tenants # {}
      BY <2>1, <2>2, <2>3, <3>1
    <3> QED BY <3>1, <3>2, <2>1 DEF Peopled
  <2> QED BY <2>1, <2>2, <2>4, <1>1
<1>4. ASSUME UpgradeNext PROVE Goal
  <2> DEFINE n == server.next + 1
             c == server.draft.catalog
             os == server.draft.tenants
  <2>1. /\ server.at = "upgrade" /\ server.next < LastRevision
        /\ dialect' = dialect /\ revision' = revision /\ catalog' = catalog /\ tenants' = tenants
    BY <1>4 DEF UpgradeNext
  <2>2. dialect = "postgres" BY <2>1, <1>1 DEF SqliteOK
  <2>3. n \in 1 .. LastRevision /\ n - 1 = server.next /\ os \in SUBSET Tenant
    BY <2>1, <1>1 DEF ServerType
  <2>4. CatalogAt(n - 1, c) /\ OldAt(n - 1, c) BY <2>1, <2>2, <2>3, <1>1 DEF PostgresOK
  <2>5. CASE Refuses(n, c, os)
    <3>1. server' = Down BY <2>5, <1>4 DEF UpgradeNext
    <3>2. server'.at = "down" BY <3>1 DEF Down
    <3> QED BY <3>2, <2>1, <2>2, <1>1 DEF Peopled
  <2>6. CASE ~Refuses(n, c, os)
    <3> DEFINE d == [catalog |-> Upgraded(n, c, os),
                     tenants |-> IF n = 6 THEN {FirstTenant} ELSE os]
    <3>1. server' = [server EXCEPT !.next = n, !.draft = d] BY <2>6, <1>4 DEF UpgradeNext
    <3>2. d.catalog = Upgraded(n, c, os) /\ d.tenants = IF n = 6 THEN {FirstTenant} ELSE os
      OBVIOUS
    <3> HIDE DEF d
    <3>3. server'.next = n /\ server'.draft = d BY <3>1, <1>1 DEF ServerType
    <3>4. OldAt(n, Upgraded(n, c, os))
      <4> HIDE DEF n, c, os
      <4> QED BY <2>3, <2>4, <2>6, UpgradedIsOld
    <3>5. server.next >= 6 => os # {} BY <2>1, <2>2, <1>1 DEF Peopled
    <3>6. revision < 7 => n < 7
      <4> SUFFICES ASSUME revision < 7, n >= 7 PROVE FALSE BY <2>3, <1>1, <2>2 DEF PostgresOK, CatalogAt
      <4>1. n = 7 BY <2>1, <2>2, <2>3, <1>1 DEF Peopled
      <4>2. n - 1 = 6 /\ server.next >= 6 BY <4>1, <2>3
      <4> HIDE DEF n, c, os
      <4>3. CatalogAt(6, c) /\ os # {} BY <4>2, <2>4, <3>5
      <4>4. Refuses(7, c, os) BY <4>3, SeventhRefuses
      <4> QED BY <4>1, <4>4, <2>6
    <3>7. Peopled'
      <4> HIDE DEF n, os
      <4>1. revision' >= 6 => tenants' # {} BY <2>1, <2>2, <1>1 DEF Peopled
      <4>2. n >= 6 => d.tenants # {} BY <3>2, <3>5, <2>3
      <4>3. revision <= n
        <5>1. revision <= server.next BY <2>1, <2>2, <1>1 DEF Peopled
        <5>2. revision \in 0 .. 10 BY <2>2, <1>1 DEF PostgresOK, CatalogAt
        <5> QED BY <5>1, <5>2, <2>3
      <4> QED BY <4>1, <4>2, <4>3, <3>3, <3>6, <2>1 DEF Peopled
    <3> QED BY <3>2, <3>3, <3>4, <3>7, <2>1, <2>2, <1>1
  <2> QED BY <2>5, <2>6
<1>5. ASSUME UpgradeCommits PROVE Goal
  <2>1. /\ server.at = "upgrade" /\ server.next = LastRevision
        /\ revision' = server.next /\ catalog' = server.draft.catalog /\ dialect' = dialect
        /\ tenants' = IF server.boots /\ server.draft.tenants = {} THEN {FirstTenant}
                      ELSE server.draft.tenants
        /\ server' = IF server.boots THEN [Down EXCEPT !.at = "tenants", !.todo = tenants']
                     ELSE Down
    BY <1>5 DEF UpgradeCommits
  <2>2. server'.at \in {"tenants", "down"} BY <2>1 DEF Down
  <2>3. dialect = "postgres" => tenants' # {} BY <2>1, <1>1 DEF Peopled
  <2> QED BY <2>1, <2>2, <2>3, <1>1 DEF Peopled
<1>6. ASSUME \/ Provision \/ AllProvisioned \/ TenantSchema
             \/ \E o \in Tenant : TenantRow(o)
      PROVE  Goal
  <2>1. /\ server.at \in {"tenants", "up"} /\ revision' = revision
        /\ server'.at \in {"tenants", "up"} /\ dialect' = dialect /\ tenants \subseteq tenants'
    BY <1>6, <1>1 DEF Provision, AllProvisioned, TenantSchema, TenantRow, ServerType
  <2>2. \/ catalog' = catalog
        \/ \E os \in SUBSET Tenant : catalog' = ProvisionedAll(catalog, os)
    BY <1>6, <1>1 DEF Provision, AllProvisioned, TenantSchema, TenantRow, ServerType
  <2>3. dialect = "postgres" => CatalogAt(LastRevision, catalog) /\ revision = LastRevision
    BY <2>1, <1>1 DEF PostgresOK
  <2>4. dialect = "postgres" => OldAt(revision, catalog') BY <2>2, <2>3, <1>1, ProvisionedIsOld
  <2> QED BY <2>1, <2>4, <1>1 DEF Peopled
<1>7. ASSUME DowngradeOne PROVE Goal
  <2>1. /\ dialect = "postgres" /\ server.at = "down" /\ revision - 1 \in FoundAt
        /\ catalog' = Lowered(revision, catalog)
        /\ tenants' = (IF revision = 6 THEN {} ELSE tenants)
        /\ revision' = revision - 1 /\ server' = server
    BY <1>7 DEF DowngradeOne
  <2>2. CatalogAt(revision, catalog) /\ revision \in 1 .. LastRevision
    BY <2>1, <1>1, MigrationsAssumption DEF PostgresOK, CatalogAt
  <2>3. OldAt(revision', catalog') BY <2>1, <2>2, <1>1, LoweredIsOld
  <2>4. revision' >= 6 => tenants' # {} BY <2>1, <2>2, <1>1 DEF Peopled
  <2> QED BY <2>1, <2>3, <2>4, <1>1 DEF Peopled
<1>8. ASSUME ServerDies PROVE Goal
  <2>1. /\ server' = Down /\ dialect' = dialect /\ revision' = revision /\ catalog' = catalog
        /\ tenants' = tenants
    BY <1>8 DEF ServerDies
  <2>2. server'.at = "down" BY <2>1 DEF Down
  <2> QED BY <2>1, <2>2, <1>1 DEF Peopled
<1>9. ASSUME UNCHANGED migrations PROVE Goal
  BY <1>9, <1>1 DEF migrations, Peopled
<1>10. Goal
  <2> HIDE DEF Goal
  <2> QED BY <1>3, <1>4, <1>5, <1>6, <1>7, <1>8, <1>9, <1>2 DEF MigrationsNext
<1> QED BY <1>0, <1>10 DEF UpgradesInv

LEMMA UpgradesOrNot ==
    UpgradesInv =>
        /\ UpgradeNext /\ server'.at = "down" => revision < 7 /\ stuck' \in {6, 7}
        /\ UpgradeCommits => revision >= 7
<1> SUFFICES ASSUME UpgradesInv, server.at = "upgrade"
             PROVE  /\ UpgradeNext /\ server'.at = "down" => revision < 7 /\ stuck' \in {6, 7}
                    /\ UpgradeCommits => revision >= 7
  BY DEF UpgradeNext, UpgradeCommits, Server
<1> USE RevisionNumbers
<1>1. dialect = "postgres" BY DEF UpgradesInv, MigrationsInv, SqliteOK
<1>2. /\ ServerType /\ Peopled /\ CatalogAt(revision, catalog)
      /\ CatalogAt(server.next, server.draft.catalog) /\ OldAt(server.next, server.draft.catalog)
  BY <1>1 DEF UpgradesInv, MigrationsInv, PostgresOK
<1>3. ASSUME UpgradeNext, server'.at = "down" PROVE revision < 7 /\ stuck' \in {6, 7}
  <2> DEFINE n == server.next + 1
             c == server.draft.catalog
             os == server.draft.tenants
  <2>1. n \in 1 .. LastRevision /\ n - 1 = server.next
    BY <1>2, <1>3 DEF UpgradeNext, ServerType
  <2>2. Refuses(n, c, os) /\ stuck' = n
    <3>1. CASE ~Refuses(n, c, os)
      <4>1. server'.at = server.at BY <1>2, <1>3, <3>1 DEF UpgradeNext, ServerType
      <4> QED BY <4>1, <1>3
    <3>2. CASE Refuses(n, c, os) BY <1>3, <3>2 DEF UpgradeNext
    <3> QED BY <3>1, <3>2
  <2>3. n \in {6, 7}
    <3> HIDE DEF n, c, os
    <3>1. CatalogAt(n - 1, c) /\ OldAt(n - 1, c) BY <2>1, <1>2 DEF c
    <3> QED BY <2>1, <2>2, <3>1, OthersGoThrough
  <2>4. revision <= server.next /\ (revision < 7 => server.next < 7) BY <1>2 DEF Peopled
  <2>5. revision \in 0 .. 10 BY <1>2 DEF CatalogAt
  <2>6. revision < 7
    <3> HIDE DEF n
    <3> QED BY <2>1, <2>3, <2>4, <2>5
  <2> QED BY <2>2, <2>3, <2>6
<1>4. ASSUME UpgradeCommits PROVE revision >= 7
  BY <1>2, <1>4 DEF UpgradeCommits, Peopled, CatalogAt
<1> QED BY <1>3, <1>4

\* Which upgrades go through, for any organizations and any order of upgrades,
\* downgrades, boots and deaths: those of databases that 0007 had reached
\* already, and no others.
THEOREM UpgradesFromSevenOnCorrect == MigrationsSpec => UpgradesFromSevenOn
<1>1. UpgradesInv /\ [MigrationsNext]_migrations =>
        [/\ UpgradeNext /\ server'.at = "down" => revision < 7 /\ stuck' \in {6, 7}
         /\ UpgradeCommits => revision >= 7]_migrations
  BY UpgradesOrNot
<1> QED
  BY <1>1, UpgradesInitHolds, UpgradesStep, PTL DEF MigrationsSpec, UpgradesFromSevenOn
==============================================================================
