-------------------------- MODULE AttendanceProofs --------------------------
(***************************************************************************)
(* The safety properties of Attendance for any set of people, occurrences, *)
(* requests and challenges, every kernel and every setting.                *)
(***************************************************************************)
EXTENDS Attendance, SequenceTheorems, FiniteSetTheorems, TLAPS

----------------------------------------------------------------------------
(* Types.                                                                  *)

\* The type of a request follows from its pc.
LEMMA RequestTypes ==
    ASSUME NEW q \in Requests
    PROVE  /\ q.pc = "checkin" => q \in CheckIns
           /\ q.pc = "kiosk_image" => q \in KioskImages
           /\ q.pc = "kiosk" => q \in Kiosks
           /\ q.pc = "checkout" => q \in CheckOuts
           /\ q.pc = "manual_new" => q \in Inserts
           /\ q.pc = "manual_old" => q \in Updates
           /\ q.pc = "patch" => q \in Patches
           /\ q.pc = "digest" => q \in Digests
           /\ q.pc = "absent" => q \in Absences
  BY DEF Requests, Idle, CheckIns, KioskImages, Kiosks, CheckOuts, Inserts, Updates,
     Patches, Digests, Absences

\* What inserting rows does to the table.
LEMMA InsertFacts ==
    ASSUME rows \in Seq(Row), NEW new \in Seq(Row), Insert(new)
    PROVE  /\ rows' \in Seq(Row)
           /\ Len(rows') = Len(rows) + Len(new)
           /\ \A i \in DOMAIN rows : i \in DOMAIN rows' /\ rows'[i] = rows[i]
           /\ \A i \in DOMAIN rows' \ DOMAIN rows :
                i - Len(rows) \in DOMAIN new /\ rows'[i] = new[i - Len(rows)]
  <1>1. rows' = rows \o new
    BY DEF Insert
  <1>2. /\ rows \o new \in Seq(Row)
        /\ Len(rows \o new) = Len(rows) + Len(new)
        /\ \A i \in 1 .. Len(rows) + Len(new) :
             (rows \o new)[i] = IF i <= Len(rows) THEN rows[i] ELSE new[i - Len(rows)]
    BY ConcatProperties
  <1>3. /\ Len(rows) \in Nat /\ Len(new) \in Nat
        /\ DOMAIN rows = 1 .. Len(rows) /\ DOMAIN new = 1 .. Len(new)
        /\ DOMAIN (rows \o new) = 1 .. Len(rows \o new)
    BY <1>2
  <1>4. \A i \in DOMAIN rows : i \in DOMAIN rows' /\ rows'[i] = rows[i]
    BY <1>1, <1>2, <1>3
  <1>5. \A i \in DOMAIN rows' \ DOMAIN rows :
          i - Len(rows) \in DOMAIN new /\ rows'[i] = new[i - Len(rows)]
    BY <1>1, <1>2, <1>3
  <1> QED
    BY <1>1, <1>2, <1>4, <1>5

\* The row of a punch.
LEMMA NewRowType ==
    ASSUME now \in Moment,
           NEW p \in Person, NEW o \in MaybeOcc, NEW d \in Decisions, NEW late \in BOOLEAN,
           NEW by \in Handlers, NEW seen \in Nat, NEW permit \in MaybePermit
    PROVE  NewRow(p, o, d, late, by, seen, permit) \in Row
  BY DEF NewRow, Row, Moment, MaybePermit

LEMMA SavedType ==
    ASSUME NEW cur \in Row, NEW was \in Row, NEW new \in Row
    PROVE  Saved(cur, was, new) \in Row
  <1>1. /\ Flushed(cur.decision, was.decision, new.decision) \in Decisions
        /\ Flushed(cur.late, was.late, new.late) \in BOOLEAN
        /\ Flushed(cur.early, was.early, new.early) \in BOOLEAN
        /\ Flushed(cur.out, was.out, new.out) \in BOOLEAN
        /\ Flushed(cur.occ, was.occ, new.occ) \in MaybeOcc
    BY DEF Flushed, Row
  <1> QED
    BY <1>1 DEF Saved, Row

LEMMA IsLateForType == ASSUME NEW o, NEW m PROVE IsLateFor(o, m) \in BOOLEAN
  BY DEF IsLateFor

LEMMA IsEarlyLeaveType == ASSUME NEW m PROVE IsEarlyLeave(m) \in BOOLEAN
  BY DEF IsEarlyLeave

\* A step that gives request r the state q and drops no row keeps the types
\* of the requests.
LEMMA RequestStepType ==
    ASSUME TypeOK, NEW r \in Req, NEW q \in Requests,
           req' = [req EXCEPT ![r] = q],
           DOMAIN rows \subseteq DOMAIN rows',
           q.pc \in {"checkout", "manual_old", "patch"} => q.row \in DOMAIN rows'
    PROVE  /\ req' \in [Req -> Requests]
           /\ \A s \in Req : req'[s].pc \in {"checkout", "manual_old", "patch"} =>
                               req'[s].row \in DOMAIN rows'
  BY DEF TypeOK

LEMMA IdleIsARequest == Idle \in Requests /\ Idle.pc = "idle"
  BY DEF Requests, Idle

LEMMA EndType ==
    ASSUME TypeOK, NEW r \in Req, End(r), DOMAIN rows \subseteq DOMAIN rows'
    PROVE  /\ req' \in [Req -> Requests]
           /\ \A s \in Req : req'[s].pc \in {"checkout", "manual_old", "patch"} =>
                               req'[s].row \in DOMAIN rows'
  BY IdleIsARequest, RequestStepType DEF End

\* The rows a handler may load are rows of the table.
LEMMA ExistingAreRows ==
    ASSUME NEW t, NEW p, NEW o, NEW d
    PROVE  /\ TodaysPresent(t, p, d) \subseteq DOMAIN t
           /\ PresentFor(t, p, o) \subseteq DOMAIN t
           /\ ExistingPresent(t, p, o, d) \subseteq DOMAIN t
  <1>1. PresentRows(t, p) \subseteq DOMAIN t
    BY DEF PresentRows
  <1>2. TodaysPresent(t, p, d) \subseteq DOMAIN t /\ PresentFor(t, p, o) \subseteq DOMAIN t
    BY <1>1 DEF TodaysPresent, PresentFor
  <1>3. ExistingPresent(t, p, o, d) \subseteq DOMAIN t
    BY <1>2 DEF ExistingPresent
  <1> QED
    BY <1>2, <1>3

LEMMA CheckoutIsARow ==
    ASSUME NEW t, NEW p, NEW m PROVE CheckoutRow(t, p, m) \subseteq DOMAIN t
  <1>1. TodaysPresent(t, p, m.day) \subseteq DOMAIN t
    BY ExistingAreRows
  <1>2. \A o : PresentFor(t, p, o) \subseteq DOMAIN t
    BY ExistingAreRows
  <1> QED
    BY <1>1, <1>2 DEF CheckoutRow, Latest

LEMMA SpendType ==
    ASSUME TypeOK, NEW permit \in MaybePermit, Spend(permit)
    PROVE  spent' \subseteq Permit
  BY DEF TypeOK, Spend

\* One row inserted, one request ended.
LEMMA InsertOneType ==
    ASSUME TypeOK, NEW r \in Req, NEW row \in Row, Insert(<<row>>), End(r),
           UNCHANGED <<now, people, spent, digests, autoRuns>>, loop' \in Req \cup {Free}
    PROVE  TypeOK'
  <1>0. <<row>> \in Seq(Row)
    OBVIOUS
  <1>1. rows' \in Seq(Row) /\ DOMAIN rows \subseteq DOMAIN rows'
    BY <1>0, InsertFacts DEF TypeOK
  <1>2. /\ req' \in [Req -> Requests]
        /\ \A s \in Req : req'[s].pc \in {"checkout", "manual_old", "patch"} =>
                            req'[s].row \in DOMAIN rows'
    BY <1>1, EndType
  <1> QED
    BY <1>1, <1>2 DEF TypeOK, people

\* One row rewritten, one request ended.
LEMMA RewriteType ==
    ASSUME TypeOK, NEW r \in Req, NEW i \in DOMAIN rows, NEW row \in Row,
           rows' = [rows EXCEPT ![i] = row], End(r),
           UNCHANGED <<now, people, loop, digests, autoRuns>>, spent' \subseteq Permit
    PROVE  TypeOK'
  <1>1. rows \in Seq(Row) /\ DOMAIN rows = 1 .. Len(rows)
    BY DEF TypeOK
  <1>2. rows' \in Seq(Row) /\ DOMAIN rows' = DOMAIN rows
    BY <1>1, ExceptSeq
  <1>3. /\ req' \in [Req -> Requests]
        /\ \A s \in Req : req'[s].pc \in {"checkout", "manual_old", "patch"} =>
                            req'[s].row \in DOMAIN rows'
    BY <1>2, EndType
  <1> QED
    BY <1>2, <1>3 DEF TypeOK, people

\* One request moved on, the table untouched.
LEMMA MoveType ==
    ASSUME TypeOK, NEW r \in Req, NEW q \in Requests, req' = [req EXCEPT ![r] = q],
           q.pc \in {"checkout", "manual_old", "patch"} => q.row \in DOMAIN rows,
           UNCHANGED <<now, people, rows, autoRuns>>, loop' \in Req \cup {Free},
           spent' \subseteq Permit, digests' \in [0 .. MaxDay -> Nat]
    PROVE  TypeOK'
  <1>1. /\ req' \in [Req -> Requests]
        /\ \A s \in Req : req'[s].pc \in {"checkout", "manual_old", "patch"} =>
                            req'[s].row \in DOMAIN rows'
    BY RequestStepType
  <1> QED
    BY <1>1 DEF TypeOK, people

\* What the handlers compute from a loaded row is a row.
LEMMA DecidedType ==
    ASSUME NEW row \in Row, NEW d \in Decisions PROVE Decided(row, d) \in Row
  BY DEF Decided, Row

LEMMA GivenType ==
    ASSUME NEW flag, NEW value \in BOOLEAN, NEW row PROVE Given(flag, value, row) \in BOOLEAN
  BY DEF Given

LEMMA PatchedType ==
    ASSUME NEW was \in Row, NEW d \in Decisions \cup {"unset"}, NEW late, NEW early, NEW out
    PROVE  Patched(was, d, late, early, out) \in Row
  <1> DEFINE decided == IF d = "unset" THEN was ELSE Decided(was, d)
  <1> DEFINE flagged == [decided EXCEPT !.late = Given(late, @, decided),
                                        !.early = Given(early, @, decided)]
  <1>1. decided \in Row
    BY DecidedType
  <1>2. decided.late \in BOOLEAN /\ decided.early \in BOOLEAN
    BY <1>1 DEF Row
  <1>3. /\ Given(late, decided.late, decided) \in BOOLEAN
        /\ Given(early, decided.early, decided) \in BOOLEAN
    BY <1>2, GivenType
  <1> HIDE DEF decided
  <1>4. flagged \in Row
    BY <1>1, <1>3 DEF Row
  <1> HIDE DEF flagged
  <1>5. IsEarlyLeave(now) \in BOOLEAN
    BY IsEarlyLeaveType
  <1>6. [flagged EXCEPT !.out = FALSE, !.early = FALSE] \in Row
    BY <1>4 DEF Row
  <1>7. [flagged EXCEPT !.out = TRUE,
           !.early = IF flagged.decision = "present" THEN IsEarlyLeave(now) ELSE @] \in Row
    BY <1>4, <1>5 DEF Row
  <1>8. Patched(was, d, late, early, out) =
          CASE out = "unset" -> flagged
            [] out = "no" -> [flagged EXCEPT !.out = FALSE, !.early = FALSE]
            [] OTHER -> [flagged EXCEPT !.out = TRUE,
                           !.early = IF flagged.decision = "present"
                                     THEN IsEarlyLeave(now) ELSE @]
    BY DEF Patched, flagged, decided
  <1> QED
    BY <1>4, <1>6, <1>7, <1>8

LEMMA FlagsType ==
    ASSUME NEW x \in Row, NEW late \in BOOLEAN, NEW early \in BOOLEAN, NEW o \in MaybeOcc
    PROVE  [x EXCEPT !.late = late, !.early = early, !.occ = o] \in Row
  BY DEF Row

LEMMA CountType ==
    ASSUME NEW f \in [0 .. MaxDay -> Nat], NEW d \in 0 .. MaxDay
    PROVE  [f EXCEPT ![d] = @ + 1] \in [0 .. MaxDay -> Nat]
  OBVIOUS

LEMMA StutterType == ASSUME TypeOK, UNCHANGED vars PROVE TypeOK'
  <1>1. /\ now' = now /\ active' = active /\ faces' = faces /\ rows' = rows /\ req' = req
        /\ loop' = loop /\ spent' = spent /\ digests' = digests /\ autoRuns' = autoRuns
    BY DEF vars, people
  <1> QED
    BY <1>1 DEF TypeOK

LEMMA TypeStep == TypeOK /\ [Next]_vars => TypeOK'
  <1> SUFFICES ASSUME TypeOK, [Next]_vars PROVE TypeOK'
    OBVIOUS
  <1> USE AttendanceAssumption, PolicyAssumption
  <1>0. /\ now \in Moment /\ rows \in Seq(Row) /\ DOMAIN rows = 1 .. Len(rows)
        /\ Len(rows) \in Nat /\ now.day \in 0 .. MaxDay
        /\ \A r \in Req : req[r] \in Requests
        /\ loop \in Req \cup {Free} /\ spent \subseteq Permit
        /\ digests \in [0 .. MaxDay -> Nat] /\ autoRuns \in [0 .. MaxDay -> Nat]
    <2>1. now \in Moment /\ now.day \in 0 .. MaxDay
      BY DEF TypeOK, Moment
    <2>2. rows \in Seq(Row) /\ DOMAIN rows = 1 .. Len(rows) /\ Len(rows) \in Nat
      BY DEF TypeOK
    <2> QED
      BY <2>1, <2>2 DEF TypeOK
  <1>1. ASSUME NEW r \in Req, NEW p \in Person, NEW asked \in MaybeOcc,
               NEW permit \in MaybePermit, CheckInArrive(r, p, asked, permit)
        PROVE  TypeOK'
    <2>1. PICK o \in Resolved(p, asked, now) :
            Begin(r, [pc |-> "checkin", person |-> p, occ |-> o,
                      seen |-> Len(rows), permit |-> permit])
      BY <1>1 DEF CheckInArrive
    <2>2. o \in MaybeOcc
      BY DEF Resolved, OpenFor, MaybeOcc
    <2>3. [pc |-> "checkin", person |-> p, occ |-> o,
           seen |-> Len(rows), permit |-> permit] \in CheckIns
      BY <1>0, <2>2 DEF CheckIns
    <2>4. spent' \subseteq Permit
      BY <1>1, SpendType DEF CheckInArrive
    <2> QED
      BY <1>0, <1>1, <2>1, <2>3, <2>4, MoveType DEF CheckInArrive, Begin, Requests
  <1>2. ASSUME NEW r \in Req, NEW match \in BOOLEAN, CheckInPunch(r, match) PROVE TypeOK'
    <2>1. req[r] \in CheckIns
      BY <1>0, <1>2, RequestTypes DEF CheckInPunch
    <2>a. /\ (match /\ IsLateFor(req[r].occ, now)) \in BOOLEAN
          /\ (IF match THEN "present" ELSE "failed") \in Decisions /\ "checkin" \in Handlers
      BY DEF Decisions, Handlers
    <2>b. /\ req[r].person \in Person /\ req[r].occ \in MaybeOcc /\ req[r].seen \in Nat
          /\ req[r].permit \in MaybePermit
      BY <2>1 DEF CheckIns
    <2>2. NewRow(req[r].person, req[r].occ, IF match THEN "present" ELSE "failed",
                 match /\ IsLateFor(req[r].occ, now), "checkin", req[r].seen,
                 req[r].permit) \in Row
      BY <1>0, <2>a, <2>b, NewRowType
    <2> QED
      BY <1>0, <1>2, <2>2, InsertOneType DEF CheckInPunch, people
  <1>3. ASSUME NEW r \in Req, PunchAbort(r) PROVE TypeOK'
    BY <1>0, <1>3, IdleIsARequest, MoveType DEF PunchAbort, End, people
  <1>4. ASSUME NEW r \in Req, NEW permit \in MaybePermit, KioskArrive(r, permit) PROVE TypeOK'
    <2>1. [pc |-> "kiosk_image", permit |-> permit] \in KioskImages
      BY DEF KioskImages
    <2>2. spent' \subseteq Permit
      BY <1>4, SpendType DEF KioskArrive
    <2> QED
      BY <1>0, <1>4, <2>1, <2>2, MoveType DEF KioskArrive, Begin, Requests, people
  <1>5. ASSUME NEW r \in Req, NEW p \in Person, NEW o \in MaybeOcc, NEW permit \in MaybePermit,
               KioskAdmit(r, p, o, permit)
        PROVE  TypeOK'
    <2>1. [pc |-> "kiosk", person |-> p, occ |-> o, seen |-> Len(rows),
           permit |-> permit] \in Kiosks
      BY <1>0 DEF Kiosks
    <2> QED
      BY <1>0, <1>5, <2>1, MoveType DEF KioskAdmit, Continue, Requests, people
  <1>6. ASSUME NEW r \in Req, NEW p \in Person, NEW o \in MaybeOcc,
               KioskFace(r, p, o) \/ KioskPin(r, p, o)
        PROVE  TypeOK'
    <2>1. CASE KioskFace(r, p, o)
      <3>1. req[r].permit \in MaybePermit
        BY <1>0, <2>1, RequestTypes DEF KioskFace, KioskImages
      <3> QED
        BY <1>5, <2>1, <3>1 DEF KioskFace
    <2>2. CASE KioskPin(r, p, o)
      BY <1>5, <2>2 DEF KioskPin, MaybePermit
    <2> QED
      BY <1>6, <2>1, <2>2
  <1>7. ASSUME NEW r \in Req, KioskPunch(r) PROVE TypeOK'
    <2>1. req[r] \in Kiosks
      BY <1>0, <1>7, RequestTypes DEF KioskPunch
    <2>2. NewRow(req[r].person, req[r].occ, "present", IsLateFor(req[r].occ, now),
                 "kiosk", req[r].seen, req[r].permit) \in Row
      BY <1>0, <2>1, NewRowType, IsLateForType DEF Kiosks, Decisions, Handlers
    <2> QED
      BY <1>0, <1>7, <2>2, InsertOneType DEF KioskPunch, people
  <1>8. ASSUME NEW r \in Req, NEW p \in Person, CheckOutArrive(r, p) PROVE TypeOK'
    <2>1. PICK i \in CheckoutRow(rows, p, now) :
            Begin(r, [pc |-> "checkout", person |-> p, row |-> i, was |-> rows[i]])
      BY <1>8 DEF CheckOutArrive
    <2>2. i \in DOMAIN rows /\ i \in Nat \ {0} /\ rows[i] \in Row
      BY <1>0, CheckoutIsARow, ElementOfSeq
    <2>3. [pc |-> "checkout", person |-> p, row |-> i, was |-> rows[i]] \in CheckOuts
      BY <2>2 DEF CheckOuts
    <2> QED
      BY <1>0, <1>8, <2>1, <2>2, <2>3, MoveType DEF CheckOutArrive, Begin, Requests, people
  <1>9. ASSUME NEW r \in Req, NEW permit \in MaybePermit, NEW withFace \in BOOLEAN,
               CheckOutCommit(r, permit, withFace)
        PROVE  TypeOK'
    <2>1. req[r] \in CheckOuts /\ req[r].row \in DOMAIN rows
      BY <1>0, <1>9, RequestTypes DEF CheckOutCommit, TypeOK
    <2>2. rows[req[r].row] \in Row /\ req[r].was \in Row
      BY <1>0, <2>1, ElementOfSeq DEF CheckOuts
    <2>3. [req[r].was EXCEPT !.out = TRUE, !.early = IsEarlyLeave(now)] \in Row
      BY <2>2, IsEarlyLeaveType DEF Row
    <2>4. Saved(rows[req[r].row], req[r].was,
                [req[r].was EXCEPT !.out = TRUE, !.early = IsEarlyLeave(now)]) \in Row
      BY <2>2, <2>3, SavedType
    <2>5. spent' \subseteq Permit
      BY <1>0, <1>9, SpendType DEF CheckOutCommit
    <2> QED
      BY <1>0, <1>9, <2>1, <2>4, <2>5, RewriteType DEF CheckOutCommit, people
  <1>a. ASSUME NEW r \in Req, NEW permit \in MaybePermit, CheckOutMismatch(r, permit)
        PROVE  TypeOK'
    <2>1. spent' \subseteq Permit
      BY <1>a, SpendType DEF CheckOutMismatch
    <2> QED
      BY <1>0, <1>a, <2>1, IdleIsARequest, MoveType DEF CheckOutMismatch, End, people
  <1>10. ASSUME NEW r \in Req, NEW p \in Person, NEW o \in MaybeOcc, NEW d \in HrDecisions,
                ManualNew(r, p, o, d)
         PROVE  TypeOK'
    <2>1. [pc |-> "manual_new", person |-> p, occ |-> o,
           seen |-> Len(rows), decision |-> d] \in Inserts
      BY <1>0 DEF Inserts
    <2> QED
      BY <1>0, <1>10, <2>1, MoveType DEF ManualNew, Begin, Requests, people
  <1>11. ASSUME NEW r \in Req, NEW p \in Person, NEW o \in MaybeOcc, ManualOld(r, p, o)
         PROVE  TypeOK'
    <2>1. PICK i \in Latest(ExistingPresent(rows, p, o, now.day)) :
            Begin(r, [pc |-> "manual_old", row |-> i, was |-> rows[i], occ |-> o])
      BY <1>11 DEF ManualOld
    <2>2. i \in DOMAIN rows
      BY ExistingAreRows DEF Latest
    <2>3. i \in Nat \ {0} /\ rows[i] \in Row
      BY <1>0, <2>2, ElementOfSeq
    <2>4. [pc |-> "manual_old", row |-> i, was |-> rows[i], occ |-> o] \in Updates
      BY <2>3 DEF Updates
    <2> QED
      BY <1>0, <1>11, <2>1, <2>2, <2>4, MoveType DEF ManualOld, Begin, Requests, people
  <1>12. ASSUME NEW r \in Req, NEW late \in BOOLEAN, NEW early \in BOOLEAN,
                ManualInsert(r, late, early)
         PROVE  TypeOK'
    <2> DEFINE q == req[r]
    <2> DEFINE row == NewRow(q.person, q.occ, q.decision, late /\ q.decision = "present",
                             "manual", q.seen, NoPermit)
    <2>1. q \in Inserts
      BY <1>0, <1>12, RequestTypes DEF ManualInsert
    <2>a. /\ q.person \in Person /\ q.occ \in MaybeOcc /\ q.seen \in Nat /\ q.decision \in Decisions
          /\ (late /\ q.decision = "present") \in BOOLEAN
      BY <2>1 DEF Inserts
    <2>b. "manual" \in Handlers /\ NoPermit \in MaybePermit
      BY DEF Handlers, MaybePermit
    <2>c. \A flag \in BOOLEAN :
            NewRow(q.person, q.occ, q.decision, flag, "manual", q.seen, NoPermit) \in Row
      BY <1>0, <2>a, <2>b, NewRowType
    <2>2. row \in Row
      BY <2>a, <2>c
    <2>3. [row EXCEPT !.early = early /\ q.decision = "present"] \in Row
      <3>1. \A x \in Row, flag \in BOOLEAN : [x EXCEPT !.early = flag] \in Row
        BY DEF Row
      <3>2. (early /\ q.decision = "present") \in BOOLEAN
        OBVIOUS
      <3> HIDE DEF row
      <3> QED
        BY <2>2, <3>1, <3>2
    <2> QED
      BY <1>0, <1>12, <2>3, InsertOneType DEF ManualInsert, people
  <1>13. ASSUME NEW r \in Req, NEW late \in BOOLEAN, NEW early \in BOOLEAN,
                ManualUpdate(r, late, early)
         PROVE  TypeOK'
    <2> DEFINE q == req[r]
    <2> DEFINE new == [Decided(q.was, "present") EXCEPT
                         !.late = late /\ TrackLate, !.early = early /\ TrackEarly,
                         !.occ = IF q.occ = NoOcc THEN @ ELSE q.occ]
    <2>1. q \in Updates /\ q.row \in DOMAIN rows
      BY <1>0, <1>13, RequestTypes DEF ManualUpdate, TypeOK
    <2>2. rows[q.row] \in Row /\ q.was \in Row /\ q.occ \in MaybeOcc
      BY <1>0, <2>1, ElementOfSeq DEF Updates
    <2>3. Decided(q.was, "present") \in Row
      BY <2>2, DecidedType DEF Decisions
    <2>4. new \in Row
      <3>1. PICK x \in Row : x = Decided(q.was, "present")
        BY <2>3
      <3>2. /\ (late /\ TrackLate) \in BOOLEAN /\ (early /\ TrackEarly) \in BOOLEAN
            /\ (IF q.occ = NoOcc THEN x.occ ELSE q.occ) \in MaybeOcc
        BY <2>2 DEF Row
      <3> QED
        BY <3>1, <3>2, FlagsType
    <2>5. Saved(rows[q.row], q.was, new) \in Row
      BY <2>2, <2>4, SavedType
    <2> QED
      BY <1>0, <1>13, <2>1, <2>5, RewriteType DEF ManualUpdate, people
  <1>14. ASSUME NEW r \in Req, NEW i \in DOMAIN rows, PatchLoad(r, i) PROVE TypeOK'
    <2>1. i \in Nat \ {0} /\ rows[i] \in Row
      BY <1>0, ElementOfSeq
    <2>2. [pc |-> "patch", row |-> i, was |-> rows[i]] \in Patches
      BY <2>1 DEF Patches
    <2> QED
      BY <1>0, <1>14, <2>2, MoveType DEF PatchLoad, Begin, Requests, people
  <1>15. ASSUME NEW r \in Req, NEW d \in HrDecisions \cup {"unset"}, NEW late \in HrFlags,
                NEW early \in HrFlags, NEW out \in HrFlags, PatchCommit(r, d, late, early, out)
         PROVE  TypeOK'
    <2> DEFINE q == req[r]
    <2> DEFINE saved == Saved(rows[q.row], q.was, Patched(q.was, d, late, early, out))
    <2>1. q \in Patches /\ q.row \in DOMAIN rows
      BY <1>0, <1>15, RequestTypes DEF PatchCommit, TypeOK
    <2>2. rows[q.row] \in Row /\ q.was \in Row
      BY <1>0, <2>1, ElementOfSeq DEF Patches
    <2>3. Patched(q.was, d, late, early, out) \in Row
      BY <2>2, PatchedType
    <2>4. saved \in Row
      BY <2>2, <2>3, SavedType
    <2>5. [saved EXCEPT !.edited = TRUE, !.out = @ \/ out = "yes"] \in Row
      BY <2>4 DEF Row
    <2>6. rows' = [rows EXCEPT ![q.row] =
                     [saved EXCEPT !.edited = TRUE, !.out = @ \/ out = "yes"]]
      BY <1>15 DEF PatchCommit
    <2>7. End(r) /\ UNCHANGED <<now, people, loop, digests, autoRuns>> /\ spent' \subseteq Permit
      BY <1>0, <1>15 DEF PatchCommit
    <2> QED
      BY <2>1, <2>5, <2>6, <2>7, RewriteType
  <1>16. ASSUME NEW r \in Req, SummaryRead(r) PROVE TypeOK'
    <2>1. Missing(active \cap faces) \subseteq Person
      BY DEF Missing, TypeOK
    <2> DEFINE state == [pc |-> "digest", day |-> now.day,
                         expected |-> Missing(active \cap faces),
                         due |-> NotifyLate /\ now.tick >= LateTick /\ digests[now.day] = 0]
    <2>2. state \in Digests
      BY <1>0, <2>1 DEF Digests
    <2>3. req' = [req EXCEPT ![r] = state]
      BY <1>16 DEF SummaryRead, Begin
    <2>4. state.pc = "digest" /\ state \in Requests
      BY <2>2 DEF Requests
    <2>5. /\ UNCHANGED <<now, people, rows, autoRuns>> /\ loop' \in Req \cup {Free}
          /\ spent' \subseteq Permit /\ digests' \in [0 .. MaxDay -> Nat]
      BY <1>0, <1>16 DEF SummaryRead
    <2> HIDE DEF state
    <2> QED
      BY <2>3, <2>4, <2>5, MoveType
  <1>17. ASSUME NEW r \in Req, SummaryDigest(r) PROVE TypeOK'
    <2>1. req[r] \in Digests
      BY <1>0, <1>17, RequestTypes DEF SummaryDigest
    <2>2. Missing(req[r].expected) \subseteq Person
      BY <2>1 DEF Missing, Digests
    <2>3. [pc |-> "absent", day |-> now.day, missing |-> Missing(req[r].expected),
           seen |-> Len(rows)] \in Absences
      BY <1>0, <2>2 DEF Absences
    <2>4. digests' \in [0 .. MaxDay -> Nat]
      <3>1. req[r].day \in 0 .. MaxDay
        BY <2>1 DEF Digests
      <3>2. [digests EXCEPT ![req[r].day] = @ + 1] \in [0 .. MaxDay -> Nat]
        BY <1>0, <3>1, CountType
      <3> QED
        BY <1>0, <1>17, <3>2 DEF SummaryDigest
    <2>5. PICK q \in {Idle} \cup Absences : req' = [req EXCEPT ![r] = q]
      BY <1>17, <2>3 DEF SummaryDigest, Continue
    <2>6. q \in Requests /\ q.pc \in {"idle", "absent"}
      BY DEF Requests, Idle, Absences
    <2> QED
      BY <1>0, <1>17, <2>4, <2>5, <2>6, MoveType DEF SummaryDigest, people
  <1>18. ASSUME NEW r \in Req, SummaryAbsent(r) PROVE TypeOK'
    <2>1. req[r] \in Absences
      BY <1>0, <1>18, RequestTypes DEF SummaryAbsent
    <2>2. PICK order \in Orders(req[r].missing) :
            Insert([k \in DOMAIN order |->
                      NewRow(order[k], NoOcc, "absent", FALSE, "auto", req[r].seen, NoPermit)])
      BY <1>18 DEF SummaryAbsent
    <2>3. Cardinality(req[r].missing) \in Nat
      BY <2>1, FS_Subset, FS_CardinalityType DEF Absences
    <2> DEFINE new == [k \in DOMAIN order |->
                         NewRow(order[k], NoOcc, "absent", FALSE, "auto", req[r].seen, NoPermit)]
    <2>4. DOMAIN order = 1 .. Cardinality(req[r].missing)
          /\ \A k \in DOMAIN order : order[k] \in Person
      BY <2>1 DEF Orders, Absences
    <2>5. \A k \in DOMAIN order :
            NewRow(order[k], NoOcc, "absent", FALSE, "auto", req[r].seen, NoPermit) \in Row
      BY <1>0, <2>1, <2>4, NewRowType DEF Absences, MaybeOcc, Decisions, Handlers, MaybePermit
    <2>6. new \in [1 .. Cardinality(req[r].missing) -> Row]
      BY <2>4, <2>5
    <2>7. new \in Seq(Row)
      <3>1. Seq(Row) = UNION {[1 .. n -> Row] : n \in Nat}
        BY SeqDef
      <3> QED
        BY <2>3, <2>6, <3>1
    <2>8. rows' \in Seq(Row) /\ DOMAIN rows \subseteq DOMAIN rows'
      BY <1>0, <2>2, <2>7, InsertFacts
    <2>9. /\ req' \in [Req -> Requests]
          /\ \A s \in Req : req'[s].pc \in {"checkout", "manual_old", "patch"} =>
                              req'[s].row \in DOMAIN rows'
      BY <1>18, <2>8, EndType DEF SummaryAbsent
    <2>10. autoRuns' \in [0 .. MaxDay -> Nat]
      <3>1. req[r].day \in 0 .. MaxDay
        BY <2>1 DEF Absences
      <3>2. [autoRuns EXCEPT ![req[r].day] = @ + 1] \in [0 .. MaxDay -> Nat]
        BY <1>0, <3>1, CountType
      <3> QED
        BY <1>18, <3>2 DEF SummaryAbsent
    <2> QED
      BY <1>18, <2>8, <2>9, <2>10 DEF SummaryAbsent, TypeOK, people
  <1>19. ASSUME NEW p \in Person, Deactivate(p) \/ Reactivate(p) \/ Enroll(p) PROVE TypeOK'
    BY <1>19 DEF Deactivate, Reactivate, Enroll, TypeOK
  <1>20. CASE Restart
    BY <1>20, IdleIsARequest DEF Restart, TypeOK
  <1>21. CASE Tick
    <2>1. now' \in Moment /\ now'.day <= MaxDay
      <3>1. now.day \in Nat /\ now.tick \in 0 .. DayTicks - 1
        BY <1>0 DEF Moment
      <3>2. CASE now.tick + 1 < DayTicks
        <4>1. now' = [now EXCEPT !.tick = @ + 1]
          BY <1>21, <3>2 DEF Tick
        <4> QED
          BY <1>0, <1>21, <3>1, <3>2, <4>1 DEF Tick, Moment
      <3>3. CASE ~(now.tick + 1 < DayTicks)
        BY <1>21, <3>1, <3>3 DEF Tick, Moment
      <3> QED
        BY <3>2, <3>3
    <2> QED
      BY <1>21, <2>1 DEF Tick, TypeOK, people
  <1>22. CASE UNCHANGED vars
    BY <1>22, StutterType
  <1>23. ASSUME NEW r \in Req, SelfService(r) PROVE TypeOK'
    BY <1>1, <1>2, <1>3, <1>4, <1>6, <1>7, <1>8, <1>9, <1>a, <1>23 DEF SelfService
  <1>24. ASSUME NEW r \in Req, Hr(r) PROVE TypeOK'
    BY <1>10, <1>11, <1>12, <1>13, <1>14, <1>15, <1>24 DEF Hr
  <1>25. ASSUME NEW r \in Req, Summary(r) PROVE TypeOK'
    BY <1>16, <1>17, <1>18, <1>25 DEF Summary
  <1> QED
    BY <1>19, <1>20, <1>21, <1>22, <1>23, <1>24, <1>25 DEF Next

----------------------------------------------------------------------------
(* The inductive invariant.                                                *)

\* Requests that have counted the rows, and those about to insert a mark.
Lookers == {"checkin", "kiosk", "manual_new", "absent"}
MakesMark(q) == q.pc \in {"checkin", "kiosk"} \/ (q.pc = "manual_new" /\ q.decision = "present")
Holders == {"checkin", "kiosk_image", "kiosk"}

\* Row i is out of the scope of a mark that q will insert from now on.
Apart(q, i) == IF Kernel \in Daily THEN rows[i].day < now.day
               ELSE rows[i].occ = NoOcc \/ rows[i].occ # q.occ

\* No row is dated ahead of the clock.
RowsPast == \A i \in DOMAIN rows : rows[i].day <= now.day

SeenPast == \A r \in Req : req[r].pc \in Lookers => req[r].seen <= Len(rows)

\* What a request saw of the table before its wait stays out of its scope:
\* HR may withdraw marks meanwhile, but only a new row makes one.
Cleared ==
    \A r \in Req : MakesMark(req[r]) =>
      \A i \in DOMAIN rows : i <= req[r].seen /\ Mark(i) /\ rows[i].person = req[r].person
                               => Apart(req[r], i)

MissingCleared ==
    \A r \in Req : req[r].pc = "absent" =>
      \A i \in DOMAIN rows : i <= req[r].seen /\ Mark(i) /\ rows[i].person \in req[r].missing
                               => rows[i].day < now.day

\* HR loads a mark of the very occurrence it is going to write.
Loaded ==
    \A r \in Req : req[r].pc = "manual_old" =>
      /\ req[r].was.decision = "present"
      /\ Kernel \notin Daily => req[r].occ \in {NoOcc, req[r].was.occ}

\* A kiosk punch holds the loop: since its query no coroutine has inserted.
KioskHoldsLoop ==
    \A r \in Req : req[r].pc = "kiosk" =>
      /\ loop = r
      /\ \A i \in DOMAIN rows : i > req[r].seen => rows[i].by \notin {"checkin", "kiosk"}

\* A spent challenge is in one place: a request that holds it or a row.
PermitsApart ==
    /\ \A i \in DOMAIN rows : rows[i].permit \in spent \cup {NoPermit}
    /\ \A r \in Req : req[r].pc \in Holders =>
         /\ req[r].permit \in spent \cup {NoPermit}
         /\ \A i \in DOMAIN rows : rows[i].permit = req[r].permit => rows[i].permit = NoPermit
         /\ \A s \in Req : req[s].pc \in Holders /\ req[s].permit = req[r].permit /\ s # r
                             => req[r].permit = NoPermit

AutoIsNoMark == \A i \in DOMAIN rows : rows[i].by = "auto" => ~Mark(i)

IInv == /\ TypeOK
        /\ RowsPast /\ SeenPast /\ Cleared /\ MissingCleared /\ Loaded
        /\ KioskHoldsLoop /\ PermitsApart /\ AutoIsNoMark
        /\ DuplicatesOverlap /\ KioskNeverSecond /\ OneRowPerPermit /\ AbsentUnlessMarked

----------------------------------------------------------------------------
(* The four kinds of steps.                                                *)

\* Requests end without a trace, or the world moves.
Forgetting ==
    /\ rows' = rows /\ spent' = spent /\ now.day <= now'.day
    /\ \A r \in Req : req'[r] = req[r] \/ req'[r] = Idle
    /\ \A r \in Req : req'[r].pc = "kiosk" => loop' = loop

\* Request r reads the table.
Looking(r) ==
    LET q == req'[r] IN
    /\ rows' = rows /\ now' = now /\ spent \subseteq spent'
    /\ \A s \in Req : s # r => req'[s] = req[s]
    /\ loop = Free \/ loop' = loop
    /\ q.pc \in Lookers => q.seen = Len(rows)
    /\ MakesMark(q) => ExistingPresent(rows, q.person, q.occ, now.day) = {}
    /\ q.pc = "absent" => \A p \in q.missing : TodaysPresent(rows, p, now.day) = {}
    /\ q.pc = "manual_old" => /\ q.was.decision = "present"
                              /\ Kernel \notin Daily => q.occ \in {NoOcc, q.was.occ}
    /\ q.pc = "kiosk" => loop' = r
    /\ q.pc \in Holders => \/ q.permit = NoPermit
                           \/ q.permit \in spent' \ spent
                           \/ req[r].pc = "kiosk_image" /\ q.permit = req[r].permit

\* No stored row becomes a mark, changes its scope or its history.
Evolved ==
    \A i \in DOMAIN rows :
      /\ i \in DOMAIN rows'
      /\ rows'[i].person = rows[i].person /\ rows'[i].day = rows[i].day
      /\ rows'[i].by = rows[i].by /\ rows'[i].seen = rows[i].seen
      /\ rows'[i].permit = rows[i].permit
      /\ Kernel \notin Daily => rows'[i].occ = rows[i].occ
      /\ Mark(i)' => Mark(i)

\* Request r rewrites a row, or none, and ends.
Writing(r) ==
    /\ Evolved /\ DOMAIN rows' = DOMAIN rows /\ Len(rows') = Len(rows)
    /\ req'[r] = Idle /\ \A s \in Req : s # r => req'[s] = req[s]
    /\ UNCHANGED <<now, loop>> /\ spent \subseteq spent'

\* Row j is inserted by a request in state q.
BornOf(j, q) ==
    LET x == rows'[j] IN
    /\ x.day = now.day /\ x.seen = q.seen
    /\ \/ q.pc \in {"checkin", "kiosk"} /\ x.by = q.pc
          /\ x.person = q.person /\ x.occ = q.occ /\ x.permit = q.permit
       \/ q.pc = "manual_new" /\ x.by = "manual"
          /\ x.person = q.person /\ x.occ = q.occ /\ x.permit = NoPermit
          /\ x.decision = q.decision
       \/ q.pc = "absent" /\ x.by = "auto" /\ x.person \in q.missing
          /\ x.permit = NoPermit /\ x.decision = "absent"

\* Request r inserts and ends; only the automatic absences are several rows.
Adding(r) ==
    /\ \A i \in DOMAIN rows : i \in DOMAIN rows' /\ rows'[i] = rows[i]
    /\ \A i \in DOMAIN rows' \ DOMAIN rows : i > Len(rows) /\ BornOf(i, req[r])
    /\ Len(rows') >= Len(rows)
    /\ req[r].pc # "absent" => Len(rows') = Len(rows) + 1
    /\ req[r].pc = "checkin" => loop = Free
    /\ req[r].pc \in Lookers
    /\ req'[r] = Idle /\ \A s \in Req : s # r => req'[s] = req[s]
    /\ req[r].pc # "kiosk" => loop' = loop
    /\ UNCHANGED <<now, spent>>

LEMMA SavedFacts ==
    ASSUME NEW cur \in Row, NEW was \in Row, NEW new \in Row,
           NEW x, x = Saved(cur, was, new)
    PROVE  /\ x.person = cur.person /\ x.day = cur.day /\ x.by = cur.by /\ x.seen = cur.seen
           /\ x.permit = cur.permit /\ x.edited = cur.edited
           /\ new.decision = was.decision => x.decision = cur.decision
           /\ new.occ = was.occ => x.occ = cur.occ
  BY DEF Saved, Flushed, Row

\* Rewriting one row is Evolved if that row is.
LEMMA RewriteEvolves ==
    ASSUME TypeOK, NEW k \in DOMAIN rows, NEW x, rows' = [rows EXCEPT ![k] = x],
           x.person = rows[k].person, x.day = rows[k].day, x.by = rows[k].by,
           x.seen = rows[k].seen, x.permit = rows[k].permit,
           Kernel \notin Daily => x.occ = rows[k].occ,
           x.decision = "present" /\ ~x.edited => Mark(k)
    PROVE  Evolved /\ DOMAIN rows' = DOMAIN rows /\ Len(rows') = Len(rows)
  <1>1. rows \in Seq(Row) /\ DOMAIN rows = 1 .. Len(rows) /\ Len(rows) \in Nat
    BY DEF TypeOK
  <1>2. DOMAIN rows' = DOMAIN rows /\ Len(rows') = Len(rows)
    BY <1>1
  <1>3. rows'[k] = x /\ \A i \in DOMAIN rows : i # k => rows'[i] = rows[i]
    BY <1>1
  <1>4. Evolved
    BY <1>2, <1>3 DEF Evolved, Mark
  <1> QED
    BY <1>2, <1>4

\* The request table after one request moved.
LEMMA MovedRequest ==
    ASSUME TypeOK, NEW r \in Req, NEW q, req' = [req EXCEPT ![r] = q]
    PROVE  req'[r] = q /\ \A s \in Req : s # r => req'[s] = req[s]
  BY DEF TypeOK

\* One row appended by request r, which ends.
LEMMA AppendAdds ==
    ASSUME TypeOK, NEW r \in Req, NEW row \in Row, Insert(<<row>>), End(r),
           row.day = now.day, row.seen = req[r].seen,
           \/ /\ req[r].pc \in {"checkin", "kiosk"} /\ row.by = req[r].pc
              /\ row.person = req[r].person /\ row.occ = req[r].occ
              /\ row.permit = req[r].permit
           \/ /\ req[r].pc = "manual_new" /\ row.by = "manual"
              /\ row.person = req[r].person /\ row.occ = req[r].occ
              /\ row.permit = NoPermit /\ row.decision = req[r].decision,
           req[r].pc = "checkin" => loop = Free,
           req[r].pc # "kiosk" => loop' = loop,
           UNCHANGED <<now, spent>>
    PROVE  Adding(r)
  <1>1. <<row>> \in Seq(Row) /\ Len(<<row>>) = 1 /\ DOMAIN <<row>> = {1} /\ <<row>>[1] = row
    OBVIOUS
  <1>2. /\ Len(rows') = Len(rows) + 1
        /\ \A i \in DOMAIN rows : i \in DOMAIN rows' /\ rows'[i] = rows[i]
        /\ \A i \in DOMAIN rows' \ DOMAIN rows : i - Len(rows) = 1 /\ rows'[i] = row
    BY <1>1, InsertFacts DEF TypeOK
  <1>3. rows \in Seq(Row) /\ rows' \in Seq(Row)
    BY <1>1, InsertFacts DEF TypeOK
  <1>4. Len(rows) \in Nat /\ DOMAIN rows' = 1 .. Len(rows') /\ DOMAIN rows = 1 .. Len(rows)
    BY <1>3
  <1>5. \A i \in DOMAIN rows' \ DOMAIN rows : i > Len(rows) /\ BornOf(i, req[r])
    BY <1>2, <1>4 DEF BornOf
  <1>6. req'[r] = Idle /\ \A s \in Req : s # r => req'[s] = req[s]
    BY MovedRequest DEF End
  <1> QED
    BY <1>2, <1>4, <1>5, <1>6 DEF Adding, Lookers

\* The handlers that add rows.
LEMMA AddingSteps ==
    ASSUME TypeOK, NEW r \in Req,
           \/ \E match \in BOOLEAN : CheckInPunch(r, match)
           \/ KioskPunch(r)
           \/ \E late, early \in BOOLEAN : ManualInsert(r, late, early)
           \/ SummaryAbsent(r)
    PROVE  Adding(r)
  <1> USE PolicyAssumption, AttendanceAssumption
  <1>0. /\ now \in Moment /\ rows \in Seq(Row) /\ DOMAIN rows = 1 .. Len(rows)
        /\ Len(rows) \in Nat /\ req[r] \in Requests
    BY DEF TypeOK
  <1>1. ASSUME NEW match \in BOOLEAN, CheckInPunch(r, match) PROVE Adding(r)
    <2> DEFINE row == NewRow(req[r].person, req[r].occ, IF match THEN "present" ELSE "failed",
                             match /\ IsLateFor(req[r].occ, now), "checkin", req[r].seen,
                             req[r].permit)
    <2>1. req[r] \in CheckIns
      BY <1>0, <1>1, RequestTypes DEF CheckInPunch
    <2>a. /\ (match /\ IsLateFor(req[r].occ, now)) \in BOOLEAN
          /\ (IF match THEN "present" ELSE "failed") \in Decisions /\ "checkin" \in Handlers
      BY DEF Decisions, Handlers
    <2>b. /\ req[r].person \in Person /\ req[r].occ \in MaybeOcc /\ req[r].seen \in Nat
          /\ req[r].permit \in MaybePermit
      BY <2>1 DEF CheckIns
    <2>2. row \in Row
      BY <1>0, <2>a, <2>b, NewRowType
    <2>3. /\ row.day = now.day /\ row.seen = req[r].seen /\ row.by = "checkin"
          /\ row.person = req[r].person /\ row.occ = req[r].occ /\ row.permit = req[r].permit
      BY DEF NewRow
    <2> HIDE DEF row
    <2>4. Insert(<<row>>) /\ End(r) /\ req[r].pc = "checkin" /\ loop = Free
          /\ UNCHANGED <<now, spent, loop>>
      BY <1>1 DEF CheckInPunch, row
    <2> QED
      BY <2>2, <2>3, <2>4, AppendAdds
  <1>2. CASE KioskPunch(r)
    <2> DEFINE row == NewRow(req[r].person, req[r].occ, "present", IsLateFor(req[r].occ, now),
                             "kiosk", req[r].seen, req[r].permit)
    <2>1. req[r] \in Kiosks
      BY <1>0, <1>2, RequestTypes DEF KioskPunch
    <2>2. row \in Row
      BY <1>0, <2>1, NewRowType, IsLateForType DEF Kiosks, Decisions, Handlers
    <2>3. /\ row.day = now.day /\ row.seen = req[r].seen /\ row.by = "kiosk"
          /\ row.person = req[r].person /\ row.occ = req[r].occ /\ row.permit = req[r].permit
      BY DEF NewRow
    <2> HIDE DEF row
    <2>4. Insert(<<row>>) /\ End(r) /\ req[r].pc = "kiosk" /\ UNCHANGED <<now, spent>>
      BY <1>2 DEF KioskPunch, row
    <2> QED
      BY <2>2, <2>3, <2>4, AppendAdds
  <1>3. ASSUME NEW late \in BOOLEAN, NEW early \in BOOLEAN, ManualInsert(r, late, early)
        PROVE  Adding(r)
    <2> DEFINE new == NewRow(req[r].person, req[r].occ, req[r].decision,
                             late /\ req[r].decision = "present", "manual", req[r].seen, NoPermit)
    <2> DEFINE row == [new EXCEPT !.early = early /\ req[r].decision = "present"]
    <2>1. req[r] \in Inserts
      BY <1>0, <1>3, RequestTypes DEF ManualInsert
    <2>2. new \in Row
      BY <1>0, <2>1, NewRowType DEF Inserts, Handlers, MaybePermit
    <2>3. /\ new.day = now.day /\ new.seen = req[r].seen /\ new.by = "manual"
          /\ new.person = req[r].person /\ new.occ = req[r].occ /\ new.permit = NoPermit
          /\ new.decision = req[r].decision
      BY DEF NewRow
    <2>4. Insert(<<row>>) /\ End(r) /\ req[r].pc = "manual_new" /\ UNCHANGED <<now, spent, loop>>
      BY <1>3 DEF ManualInsert
    <2> HIDE DEF new
    <2>5. row \in Row
      BY <2>2 DEF Row
    <2>6. /\ row.day = now.day /\ row.seen = req[r].seen /\ row.by = "manual"
          /\ row.person = req[r].person /\ row.occ = req[r].occ /\ row.permit = NoPermit
          /\ row.decision = req[r].decision
      BY <2>2, <2>3 DEF Row
    <2> HIDE DEF row
    <2> QED
      BY <2>4, <2>5, <2>6, AppendAdds
  <1>4. CASE SummaryAbsent(r)
    <2>1. req[r] \in Absences /\ req[r].pc = "absent"
      BY <1>0, <1>4, RequestTypes DEF SummaryAbsent
    <2>2. PICK order \in Orders(req[r].missing) :
            Insert([k \in DOMAIN order |->
                      NewRow(order[k], NoOcc, "absent", FALSE, "auto", req[r].seen, NoPermit)])
      BY <1>4 DEF SummaryAbsent
    <2> DEFINE new == [k \in DOMAIN order |->
                         NewRow(order[k], NoOcc, "absent", FALSE, "auto", req[r].seen, NoPermit)]
    <2>3. Cardinality(req[r].missing) \in Nat
      BY <2>1, FS_Subset, FS_CardinalityType DEF Absences
    <2>4. /\ DOMAIN order = 1 .. Cardinality(req[r].missing)
          /\ \A k \in DOMAIN order : order[k] \in req[r].missing /\ order[k] \in Person
      BY <2>1 DEF Orders, Absences
    <2>5. \A k \in DOMAIN order :
            NewRow(order[k], NoOcc, "absent", FALSE, "auto", req[r].seen, NoPermit) \in Row
      BY <1>0, <2>1, <2>4, NewRowType DEF Absences, MaybeOcc, Decisions, Handlers, MaybePermit
    <2>6. new \in Seq(Row)
      <3>1. Seq(Row) = UNION {[1 .. n -> Row] : n \in Nat}
        BY SeqDef
      <3>2. new \in [1 .. Cardinality(req[r].missing) -> Row]
        BY <2>4, <2>5
      <3> QED
        BY <2>3, <3>1, <3>2
    <2>7. \A k \in DOMAIN new :
            /\ new[k].day = now.day /\ new[k].seen = req[r].seen /\ new[k].by = "auto"
            /\ new[k].person \in req[r].missing /\ new[k].permit = NoPermit
            /\ new[k].decision = "absent"
      BY <2>4 DEF NewRow
    <2>8. Insert(new)
      BY <2>2
    <2> HIDE DEF new
    <2>9. /\ rows' \in Seq(Row) /\ Len(rows') = Len(rows) + Len(new) /\ Len(new) \in Nat
          /\ \A i \in DOMAIN rows : i \in DOMAIN rows' /\ rows'[i] = rows[i]
          /\ \A i \in DOMAIN rows' \ DOMAIN rows :
               i - Len(rows) \in DOMAIN new /\ rows'[i] = new[i - Len(rows)]
      BY <1>0, <2>6, <2>8, InsertFacts
    <2>10. \A i \in DOMAIN rows' \ DOMAIN rows : i > Len(rows) /\ BornOf(i, req[r])
      <3>1. DOMAIN rows' = 1 .. Len(rows')
        BY <2>9
      <3> QED
        BY <1>0, <2>1, <2>7, <2>9, <3>1 DEF BornOf
    <2>11. req'[r] = Idle /\ \A s \in Req : s # r => req'[s] = req[s]
      BY <1>4, MovedRequest DEF SummaryAbsent, End
    <2> QED
      BY <1>0, <1>4, <2>1, <2>9, <2>10, <2>11 DEF SummaryAbsent, Adding, Lookers
  <1> QED
    BY <1>1, <1>2, <1>3, <1>4

\* PATCH does not touch the occurrence.
LEMMA PatchedOcc ==
    ASSUME NEW was \in Row, NEW d \in Decisions \cup {"unset"}, NEW late, NEW early, NEW out
    PROVE  Patched(was, d, late, early, out).occ = was.occ
  <1> DEFINE decided == IF d = "unset" THEN was ELSE Decided(was, d)
  <1> DEFINE flagged == [decided EXCEPT !.late = Given(late, @, decided),
                                        !.early = Given(early, @, decided)]
  <1>a. decided \in Row
    BY DecidedType
  <1>b. Decided(was, d).occ = was.occ
    BY DEF Decided, Row
  <1>1. decided \in Row /\ decided.occ = was.occ
    BY <1>a, <1>b
  <1>2. Patched(was, d, late, early, out) =
          CASE out = "unset" -> flagged
            [] out = "no" -> [flagged EXCEPT !.out = FALSE, !.early = FALSE]
            [] OTHER -> [flagged EXCEPT !.out = TRUE,
                           !.early = IF flagged.decision = "present"
                                     THEN IsEarlyLeave(now) ELSE @]
    BY DEF Patched
  <1> HIDE DEF decided
  <1>3. flagged.occ = was.occ /\ DOMAIN flagged = DOMAIN decided /\ "occ" \in DOMAIN decided
    BY <1>1 DEF Row
  <1> HIDE DEF flagged
  <1>4. /\ [flagged EXCEPT !.out = FALSE, !.early = FALSE].occ = was.occ
        /\ [flagged EXCEPT !.out = TRUE,
              !.early = IF flagged.decision = "present" THEN IsEarlyLeave(now) ELSE @].occ = was.occ
    BY <1>1, <1>3
  <1> QED
    BY <1>2, <1>3, <1>4

\* The handlers that rewrite a row, and a check-out that is refused.
LEMMA WritingSteps ==
    ASSUME TypeOK, Loaded, NEW r \in Req,
           \/ \E permit \in MaybePermit, withFace \in BOOLEAN :
                CheckOutCommit(r, permit, withFace)
           \/ \E permit \in MaybePermit : CheckOutMismatch(r, permit)
           \/ \E late, early \in BOOLEAN : ManualUpdate(r, late, early)
           \/ \E d \in HrDecisions \cup {"unset"}, late, early, out \in HrFlags :
                PatchCommit(r, d, late, early, out)
    PROVE  Writing(r)
  <1>0. rows \in Seq(Row) /\ DOMAIN rows = 1 .. Len(rows) /\ req[r] \in Requests
    BY DEF TypeOK
  <1> DEFINE q == req[r]
  <1>1. ASSUME NEW permit \in MaybePermit, NEW withFace \in BOOLEAN,
               CheckOutCommit(r, permit, withFace)
        PROVE  Writing(r)
    <2> DEFINE new == [q.was EXCEPT !.out = TRUE, !.early = IsEarlyLeave(now)]
    <2>1. q \in CheckOuts /\ q.row \in DOMAIN rows
      BY <1>0, <1>1, RequestTypes DEF CheckOutCommit, TypeOK
    <2>2. rows[q.row] \in Row /\ q.was \in Row
      BY <1>0, <2>1, ElementOfSeq DEF CheckOuts
    <2>3. new \in Row /\ new.decision = q.was.decision /\ new.occ = q.was.occ
      BY <2>2, IsEarlyLeaveType DEF Row
    <2> HIDE DEF new
    <2>4. PICK x : x = Saved(rows[q.row], q.was, new)
      OBVIOUS
    <2>5. /\ x.person = rows[q.row].person /\ x.day = rows[q.row].day /\ x.by = rows[q.row].by
          /\ x.seen = rows[q.row].seen /\ x.permit = rows[q.row].permit
          /\ x.edited = rows[q.row].edited
          /\ x.decision = rows[q.row].decision /\ x.occ = rows[q.row].occ
      BY <2>2, <2>3, <2>4, SavedFacts
    <2>6. rows' = [rows EXCEPT ![q.row] = x]
      BY <1>1, <2>4 DEF CheckOutCommit, new
    <2>7. Evolved /\ DOMAIN rows' = DOMAIN rows /\ Len(rows') = Len(rows)
      BY <2>1, <2>5, <2>6, RewriteEvolves DEF Mark
    <2>8. req'[r] = Idle /\ \A s \in Req : s # r => req'[s] = req[s]
      BY <1>1, MovedRequest DEF CheckOutCommit, End
    <2> QED
      BY <1>1, <2>7, <2>8 DEF Writing, CheckOutCommit, Spend
  <1>2. ASSUME NEW late \in BOOLEAN, NEW early \in BOOLEAN, ManualUpdate(r, late, early)
        PROVE  Writing(r)
    <2> DEFINE new == [Decided(q.was, "present") EXCEPT
                         !.late = late /\ TrackLate, !.early = early /\ TrackEarly,
                         !.occ = IF q.occ = NoOcc THEN @ ELSE q.occ]
    <2>1. q \in Updates /\ q.row \in DOMAIN rows /\ q.pc = "manual_old"
      BY <1>0, <1>2, RequestTypes DEF ManualUpdate, TypeOK
    <2>2. rows[q.row] \in Row /\ q.was \in Row /\ q.occ \in MaybeOcc
      BY <1>0, <2>1, ElementOfSeq DEF Updates
    <2>3. PICK y \in Row : /\ y = Decided(q.was, "present")
                           /\ y.decision = "present" /\ y.occ = q.was.occ
      <3>1. PICK w \in Row : w = q.was
        BY <2>2
      <3>2. Decided(w, "present") \in Row
        BY DecidedType DEF Decisions
      <3>3. Decided(w, "present").decision = "present" /\ Decided(w, "present").occ = w.occ
        BY DEF Decided, Row
      <3> QED
        BY <3>1, <3>2, <3>3
    <2>4. /\ (late /\ TrackLate) \in BOOLEAN /\ (early /\ TrackEarly) \in BOOLEAN
          /\ (IF q.occ = NoOcc THEN y.occ ELSE q.occ) \in MaybeOcc
      BY <2>2, <2>3, PolicyAssumption DEF Row
    <2>5. new \in Row
      BY <2>3, <2>4, FlagsType
    <2>6. new.decision = "present" /\ new.occ = IF q.occ = NoOcc THEN q.was.occ ELSE q.occ
      BY <2>3, <2>4 DEF Row
    <2>7. q.was.decision = "present" /\ (Kernel \notin Daily => q.occ \in {NoOcc, q.was.occ})
      BY <2>1 DEF Loaded
    <2>8. rows' = [rows EXCEPT ![q.row] = Saved(@, q.was, new)]
      BY <1>2 DEF ManualUpdate
    <2> HIDE DEF new
    <2>9. PICK x : x = Saved(rows[q.row], q.was, new)
      OBVIOUS
    <2>a. PICK cur \in Row, was \in Row : cur = rows[q.row] /\ was = q.was
      BY <2>2
    <2>b. new.decision = was.decision /\ (Kernel \notin Daily => new.occ = was.occ)
      BY <2>6, <2>7, <2>a
    <2>c. /\ x.person = cur.person /\ x.day = cur.day /\ x.by = cur.by
          /\ x.seen = cur.seen /\ x.permit = cur.permit
          /\ x.edited = cur.edited /\ x.decision = cur.decision
          /\ Kernel \notin Daily => x.occ = cur.occ
      BY <2>5, <2>9, <2>a, <2>b, SavedFacts
    <2>10. /\ x.person = rows[q.row].person /\ x.day = rows[q.row].day /\ x.by = rows[q.row].by
           /\ x.seen = rows[q.row].seen /\ x.permit = rows[q.row].permit
           /\ x.edited = rows[q.row].edited
           /\ x.decision = rows[q.row].decision
           /\ Kernel \notin Daily => x.occ = rows[q.row].occ
      BY <2>a, <2>c
    <2>11. Evolved /\ DOMAIN rows' = DOMAIN rows /\ Len(rows') = Len(rows)
      BY <2>1, <2>8, <2>9, <2>10, RewriteEvolves DEF Mark
    <2>12. req'[r] = Idle /\ \A s \in Req : s # r => req'[s] = req[s]
      BY <1>2, MovedRequest DEF ManualUpdate, End
    <2> QED
      BY <1>2, <2>11, <2>12 DEF Writing, ManualUpdate
  <1>3. ASSUME NEW d \in HrDecisions \cup {"unset"}, NEW late \in HrFlags,
               NEW early \in HrFlags, NEW out \in HrFlags, PatchCommit(r, d, late, early, out)
        PROVE  Writing(r)
    <2>1. req[r] \in Patches /\ req[r].row \in DOMAIN rows
      BY <1>0, <1>3, RequestTypes DEF PatchCommit, TypeOK
    <2>2. PICK k \in DOMAIN rows : k = req[r].row
      BY <2>1
    <2>3. PICK cur \in Row : cur = rows[k]
      BY <1>0, ElementOfSeq
    <2>4. PICK was \in Row : was = req[r].was
      BY <2>1 DEF Patches
    <2>5. d \in Decisions \cup {"unset"}
      BY AttendanceAssumption
    <2>6. PICK new \in Row : new = Patched(was, d, late, early, out)
      BY <2>5, PatchedType
    <2>7. new.occ = was.occ
      BY <2>5, <2>6, PatchedOcc
    <2>8. PICK saved \in Row : saved = Saved(cur, was, new)
      BY SavedType
    <2>9. PICK x : x = [saved EXCEPT !.edited = TRUE, !.out = @ \/ out = "yes"]
      OBVIOUS
    <2>10. rows' = [rows EXCEPT ![k] = x]
      BY <1>3, <2>2, <2>3, <2>4, <2>6, <2>8, <2>9 DEF PatchCommit
    <2>11. /\ saved.person = cur.person /\ saved.day = cur.day /\ saved.by = cur.by
           /\ saved.seen = cur.seen /\ saved.permit = cur.permit /\ saved.occ = cur.occ
      BY <2>7, <2>8, SavedFacts
    <2>12. /\ x.person = saved.person /\ x.day = saved.day /\ x.by = saved.by
           /\ x.seen = saved.seen /\ x.permit = saved.permit
           /\ x.occ = saved.occ /\ x.edited = TRUE
      BY <2>9 DEF Row
    <2>13. Evolved /\ DOMAIN rows' = DOMAIN rows /\ Len(rows') = Len(rows)
      BY <2>3, <2>10, <2>11, <2>12, RewriteEvolves DEF Mark
    <2>14. req'[r] = Idle /\ \A s \in Req : s # r => req'[s] = req[s]
      BY <1>3, MovedRequest DEF PatchCommit, End
    <2> QED
      BY <1>3, <2>13, <2>14 DEF Writing, PatchCommit
  <1>4. ASSUME NEW permit \in MaybePermit, CheckOutMismatch(r, permit) PROVE Writing(r)
    <2>1. req'[r] = Idle /\ \A s \in Req : s # r => req'[s] = req[s]
      BY <1>4, MovedRequest DEF CheckOutMismatch, End
    <2>2. rows' = rows /\ Evolved
      BY <1>4 DEF CheckOutMismatch, Evolved, Mark
    <2> QED
      BY <1>4, <2>1, <2>2 DEF Writing, CheckOutMismatch, Spend
  <1> QED
    BY <1>1, <1>2, <1>3, <1>4

\* No row of the scope was found: what the table holds is apart from the mark.
LEMMA NothingFound ==
    ASSUME TypeOK, NEW q, q.occ \in MaybeOcc,
           ExistingPresent(rows, q.person, q.occ, now.day) = {}, RowsPast
    PROVE  \A i \in DOMAIN rows : Mark(i) /\ rows[i].person = q.person => Apart(q, i)
  <1> SUFFICES ASSUME NEW i \in DOMAIN rows, Mark(i), rows[i].person = q.person
               PROVE  Apart(q, i)
    OBVIOUS
  <1>1. i \in PresentRows(rows, q.person)
    BY DEF PresentRows, Mark
  <1>2. rows[i] \in Row /\ rows[i].day \in Nat /\ now.day \in Nat /\ rows[i].day <= now.day
    <2>1. rows[i] \in Row
      BY ElementOfSeq DEF TypeOK
    <2> QED
      BY <2>1 DEF TypeOK, Row, Moment, RowsPast
  <1>3. CASE Kernel \in Daily
    <2>1. rows[i].day # now.day
      BY <1>1, <1>3 DEF ExistingPresent, TodaysPresent
    <2> QED
      BY <1>2, <1>3, <2>1 DEF Apart
  <1>4. CASE Kernel \notin Daily
    BY <1>1, <1>4 DEF ExistingPresent, PresentFor, Apart
  <1> QED
    BY <1>3, <1>4

\* The handlers that read the table and wait.
LEMMA LookingSteps ==
    ASSUME TypeOK, NEW r \in Req,
           \/ \E p \in Person, o \in MaybeOcc, permit \in MaybePermit :
                CheckInArrive(r, p, o, permit)
           \/ \E permit \in MaybePermit : KioskArrive(r, permit)
           \/ \E p \in Person, o \in MaybeOcc : KioskFace(r, p, o) \/ KioskPin(r, p, o)
           \/ \E p \in Person : CheckOutArrive(r, p)
           \/ \E p \in Person, o \in MaybeOcc, d \in HrDecisions : ManualNew(r, p, o, d)
           \/ \E p \in Person, o \in MaybeOcc : ManualOld(r, p, o)
           \/ \E i \in DOMAIN rows : PatchLoad(r, i)
           \/ SummaryRead(r)
           \/ SummaryDigest(r)
    PROVE  Looking(r)
  <1> USE PolicyAssumption, AttendanceAssumption
  <1>0. req[r] \in Requests
    BY DEF TypeOK
  <1>1. ASSUME NEW p \in Person, NEW asked \in MaybeOcc, NEW permit \in MaybePermit,
               CheckInArrive(r, p, asked, permit)
        PROVE  Looking(r)
    <2>1. PICK o \in Resolved(p, asked, now) :
            /\ ExistingPresent(rows, p, o, now.day) = {}
            /\ Begin(r, [pc |-> "checkin", person |-> p, occ |-> o,
                         seen |-> Len(rows), permit |-> permit])
      BY <1>1 DEF CheckInArrive
    <2>2. /\ req'[r] = [pc |-> "checkin", person |-> p, occ |-> o,
                        seen |-> Len(rows), permit |-> permit]
          /\ \A s \in Req : s # r => req'[s] = req[s]
      BY <2>1, MovedRequest DEF Begin
    <2>3. spent \subseteq spent' /\ (permit = NoPermit \/ permit \in spent' \ spent)
      BY <1>1 DEF CheckInArrive, Spend
    <2> QED
      BY <1>1, <2>1, <2>2, <2>3 DEF CheckInArrive, Looking, MakesMark
  <1>2. ASSUME NEW permit \in MaybePermit, KioskArrive(r, permit) PROVE Looking(r)
    <2>1. /\ req'[r] = [pc |-> "kiosk_image", permit |-> permit]
          /\ \A s \in Req : s # r => req'[s] = req[s]
      BY <1>2, MovedRequest DEF KioskArrive, Begin
    <2>2. spent \subseteq spent' /\ (permit = NoPermit \/ permit \in spent' \ spent)
      BY <1>2 DEF KioskArrive, Spend
    <2> QED
      BY <1>2, <2>1, <2>2 DEF KioskArrive, Looking, MakesMark, Lookers
  <1>3. ASSUME NEW p \in Person, NEW o \in MaybeOcc, NEW permit, loop = Free,
               KioskAdmit(r, p, o, permit),
               permit = NoPermit \/ (req[r].pc = "kiosk_image" /\ permit = req[r].permit)
        PROVE  Looking(r)
    <2>1. /\ req'[r] = [pc |-> "kiosk", person |-> p, occ |-> o, seen |-> Len(rows),
                        permit |-> permit]
          /\ \A s \in Req : s # r => req'[s] = req[s]
      BY <1>3, MovedRequest DEF KioskAdmit, Continue
    <2> QED
      BY <1>3, <2>1 DEF KioskAdmit, Looking, MakesMark
  <1>4. ASSUME NEW p \in Person, NEW o \in MaybeOcc, KioskFace(r, p, o) \/ KioskPin(r, p, o)
        PROVE  Looking(r)
    BY <1>3, <1>4 DEF KioskFace, KioskPin
  <1>5. ASSUME NEW p \in Person, CheckOutArrive(r, p) PROVE Looking(r)
    <2>1. PICK q : q.pc = "checkout" /\ req' = [req EXCEPT ![r] = q]
      BY <1>5 DEF CheckOutArrive, Begin
    <2>2. req'[r].pc = "checkout" /\ \A s \in Req : s # r => req'[s] = req[s]
      BY <2>1, MovedRequest
    <2> QED
      BY <1>5, <2>2 DEF CheckOutArrive, Looking, MakesMark, Lookers, Holders
  <1>6. ASSUME NEW p \in Person, NEW o \in MaybeOcc, NEW d \in HrDecisions, ManualNew(r, p, o, d)
        PROVE  Looking(r)
    <2>1. /\ req'[r] = [pc |-> "manual_new", person |-> p, occ |-> o,
                        seen |-> Len(rows), decision |-> d]
          /\ \A s \in Req : s # r => req'[s] = req[s]
      BY <1>6, MovedRequest DEF ManualNew, Begin
    <2> QED
      BY <1>6, <2>1 DEF ManualNew, Looking, MakesMark, Holders
  <1>7. ASSUME NEW p \in Person, NEW o \in MaybeOcc, ManualOld(r, p, o) PROVE Looking(r)
    <2>1. PICK i \in Latest(ExistingPresent(rows, p, o, now.day)) :
            Begin(r, [pc |-> "manual_old", row |-> i, was |-> rows[i], occ |-> o])
      BY <1>7 DEF ManualOld
    <2>2. /\ req'[r] = [pc |-> "manual_old", row |-> i, was |-> rows[i], occ |-> o]
          /\ \A s \in Req : s # r => req'[s] = req[s]
      BY <2>1, MovedRequest DEF Begin
    <2>3. rows[i].decision = "present" /\ (Kernel \notin Daily => rows[i].occ = o)
      BY DEF Latest, ExistingPresent, TodaysPresent, PresentFor, PresentRows
    <2> QED
      BY <1>7, <2>2, <2>3 DEF ManualOld, Looking, MakesMark, Lookers, Holders
  <1>8. ASSUME NEW i \in DOMAIN rows, PatchLoad(r, i) PROVE Looking(r)
    <2>0. PICK q : q.pc = "patch" /\ req' = [req EXCEPT ![r] = q]
      BY <1>8 DEF PatchLoad, Begin
    <2>1. req'[r].pc = "patch" /\ \A s \in Req : s # r => req'[s] = req[s]
      BY <2>0, MovedRequest
    <2> QED
      BY <1>8, <2>1 DEF PatchLoad, Looking, MakesMark, Lookers, Holders
  <1>9. CASE SummaryRead(r)
    <2> DEFINE state == [pc |-> "digest", day |-> now.day,
                         expected |-> Missing(active \cap faces),
                         due |-> NotifyLate /\ now.tick >= LateTick /\ digests[now.day] = 0]
    <2>a. req' = [req EXCEPT ![r] = state]
      BY <1>9 DEF SummaryRead, Begin
    <2>b. state.pc = "digest"
      OBVIOUS
    <2>0. PICK q : q.pc = "digest" /\ req' = [req EXCEPT ![r] = q]
      <3> HIDE DEF state
      <3> QED
        BY <2>a, <2>b
    <2>1. req'[r].pc = "digest" /\ \A s \in Req : s # r => req'[s] = req[s]
      BY <2>0, MovedRequest
    <2> QED
      BY <1>9, <2>1 DEF SummaryRead, Looking, MakesMark, Lookers, Holders
  <1>10. CASE SummaryDigest(r)
    <2>1. PICK q : /\ req' = [req EXCEPT ![r] = q]
                   /\ q = Idle \/ q = [pc |-> "absent", day |-> now.day,
                                       missing |-> Missing(req[r].expected),
                                       seen |-> Len(rows)]
      BY <1>10 DEF SummaryDigest, Continue
    <2>2. req'[r] = q /\ \A s \in Req : s # r => req'[s] = req[s]
      BY <2>1, MovedRequest
    <2>3. \A p \in Missing(req[r].expected) : TodaysPresent(rows, p, now.day) = {}
      BY DEF Missing
    <2>4. q.pc \in {"idle", "absent"}
          /\ (q.pc = "absent" => q.seen = Len(rows) /\ q.missing = Missing(req[r].expected))
      BY <2>1 DEF Idle
    <2> QED
      BY <1>10, <2>2, <2>3, <2>4 DEF SummaryDigest, Looking, MakesMark, Lookers, Holders
  <1> QED
    BY <1>1, <1>2, <1>4, <1>5, <1>6, <1>7, <1>8, <1>9, <1>10

\* The rest: time, people, restarts, requests that give up.
LEMMA ForgettingSteps ==
    ASSUME TypeOK, \/ \E r \in Req : PunchAbort(r)
                   \/ \E p \in Person : Deactivate(p) \/ Reactivate(p) \/ Enroll(p)
                   \/ Restart \/ Tick \/ UNCHANGED vars
    PROVE  Forgetting
  <1>0. now.day \in Nat /\ now.tick \in 0 .. DayTicks - 1
    BY DEF TypeOK, Moment
  <1>1. ASSUME NEW r \in Req, PunchAbort(r) PROVE Forgetting
    <2>1. req'[r] = Idle /\ \A s \in Req : s # r => req'[s] = req[s]
      BY <1>1, MovedRequest DEF PunchAbort, End
    <2> QED
      BY <1>0, <1>1, <2>1 DEF PunchAbort, Forgetting
  <1>2. ASSUME NEW p \in Person, Deactivate(p) \/ Reactivate(p) \/ Enroll(p) PROVE Forgetting
    BY <1>0, <1>2 DEF Deactivate, Reactivate, Enroll, Forgetting
  <1>3. CASE Restart
    BY <1>0, <1>3, IdleIsARequest DEF Restart, Forgetting
  <1>4. CASE Tick
    <2>1. now.day <= now'.day
      <3>1. CASE now.tick + 1 < DayTicks
        <4>1. now' = [now EXCEPT !.tick = @ + 1]
          BY <1>4, <3>1 DEF Tick
        <4> QED
          BY <1>0, <4>1 DEF TypeOK, Moment
      <3>2. CASE ~(now.tick + 1 < DayTicks)
        BY <1>0, <1>4, <3>2 DEF Tick
      <3> QED
        BY <3>1, <3>2
    <2> QED
      BY <1>4, <2>1 DEF Tick, Forgetting
  <1>5. CASE UNCHANGED vars
    BY <1>0, <1>5 DEF vars, Forgetting
  <1> QED
    BY <1>1, <1>2, <1>3, <1>4, <1>5

\* Every step is of one of the four kinds.
LEMMA StepKinds ==
    ASSUME TypeOK, Loaded, [Next]_vars
    PROVE  Forgetting \/ \E r \in Req : Looking(r) \/ Writing(r) \/ Adding(r)
  <1>1. ASSUME NEW r \in Req, SelfService(r) PROVE Forgetting \/ Looking(r) \/ Writing(r) \/ Adding(r)
    BY <1>1, AddingSteps, WritingSteps, LookingSteps, ForgettingSteps DEF SelfService
  <1>2. ASSUME NEW r \in Req, Hr(r) PROVE Looking(r) \/ Writing(r) \/ Adding(r)
    BY <1>2, AddingSteps, WritingSteps, LookingSteps DEF Hr
  <1>3. ASSUME NEW r \in Req, Summary(r) PROVE Looking(r) \/ Adding(r)
    BY <1>3, AddingSteps, LookingSteps DEF Summary
  <1> QED
    BY <1>1, <1>2, <1>3, ForgettingSteps DEF Next

----------------------------------------------------------------------------
(* Each kind of step keeps the invariant.                                  *)

LEMMA TableFacts ==
    ASSUME TypeOK
    PROVE  /\ Len(rows) \in Nat /\ DOMAIN rows = 1 .. Len(rows) /\ now.day \in Nat
           /\ \A i \in DOMAIN rows : rows[i] \in Row /\ rows[i].day \in Nat /\ rows[i].seen \in Nat
           /\ \A r \in Req : req[r] \in Requests
  <1>1. rows \in Seq(Row)
    BY DEF TypeOK
  <1>2. \A i \in DOMAIN rows : rows[i] \in Row
    BY <1>1, ElementOfSeq
  <1> QED
    BY <1>1, <1>2 DEF TypeOK, Moment, Row

LEMMA SeenType ==
    ASSUME TypeOK, NEW r \in Req, req[r].pc \in Lookers
    PROVE  req[r].seen \in Nat
  BY RequestTypes DEF TypeOK, Lookers, CheckIns, Kiosks, Inserts, Absences

LEMMA ForgettingKeeps == ASSUME IInv, TypeOK', Forgetting PROVE IInv'
  <1>0. TypeOK /\ TypeOK'
    BY DEF IInv
  <1>a. now'.day \in Nat
    BY <1>0 DEF TypeOK, Moment
  <1>1. /\ Len(rows) \in Nat /\ DOMAIN rows = 1 .. Len(rows) /\ now.day \in Nat /\ now'.day \in Nat
        /\ \A i \in DOMAIN rows : rows[i].day \in Nat
    BY <1>0, <1>a, TableFacts
  <1>2. rows' = rows /\ spent' = spent /\ now.day <= now'.day
    BY DEF Forgetting
  <1>3. \A r \in Req : req'[r] = req[r] \/ req'[r].pc = "idle"
    BY IdleIsARequest DEF Forgetting
  <1>4. RowsPast'
    BY <1>1, <1>2 DEF IInv, RowsPast
  <1>5. SeenPast'
    BY <1>2, <1>3 DEF IInv, SeenPast, Lookers
  <1>6. Cleared'
    <2> SUFFICES ASSUME NEW r \in Req, MakesMark(req'[r]), NEW i \in DOMAIN rows',
                        i <= req'[r].seen, Mark(i)', rows'[i].person = req'[r].person
                 PROVE  Apart(req[r], i)'
      BY DEF Cleared
    <2>1. req'[r] = req[r]
      BY <1>3 DEF MakesMark
    <2>2. Apart(req[r], i)
      BY <1>2, <2>1 DEF IInv, Cleared, Mark
    <2> QED
      BY <1>1, <1>2, <2>1, <2>2 DEF Apart
  <1>7. MissingCleared'
    <2> SUFFICES ASSUME NEW r \in Req, req'[r].pc = "absent", NEW i \in DOMAIN rows',
                        i <= req'[r].seen, Mark(i)', rows'[i].person \in req'[r].missing
                 PROVE  rows'[i].day < now'.day
      BY DEF MissingCleared
    <2>1. req'[r] = req[r]
      BY <1>3
    <2>2. rows[i].day < now.day
      BY <1>2, <2>1 DEF IInv, MissingCleared, Mark
    <2> QED
      BY <1>1, <1>2, <2>2
  <1>8. Loaded'
    BY <1>3 DEF IInv, Loaded
  <1>9. KioskHoldsLoop'
    BY <1>2, <1>3 DEF IInv, KioskHoldsLoop, Forgetting
  <1>10. PermitsApart'
    BY <1>2, <1>3 DEF IInv, PermitsApart, Holders
  <1>11. AutoIsNoMark' /\ DuplicatesOverlap' /\ KioskNeverSecond' /\ OneRowPerPermit'
         /\ AbsentUnlessMarked'
    BY <1>2 DEF IInv, AutoIsNoMark, DuplicatesOverlap, KioskNeverSecond, OneRowPerPermit,
       AbsentUnlessMarked, Repeats, Mark, SameScope
  <1> QED
    BY <1>0, <1>4, <1>5, <1>6, <1>7, <1>8, <1>9, <1>10, <1>11 DEF IInv

LEMMA LookingKeeps == ASSUME IInv, TypeOK', NEW r \in Req, Looking(r) PROVE IInv'
  <1>0. TypeOK /\ TypeOK'
    BY DEF IInv
  <1>1. /\ Len(rows) \in Nat /\ DOMAIN rows = 1 .. Len(rows) /\ now.day \in Nat
        /\ \A i \in DOMAIN rows : rows[i].day \in Nat
    BY <1>0, TableFacts
  <1>2. rows' = rows /\ now' = now /\ spent \subseteq spent'
    BY DEF Looking
  <1>3. \A s \in Req : s # r => req'[s] = req[s]
    BY DEF Looking
  <1>4. RowsPast'
    BY <1>2 DEF IInv, RowsPast
  <1>5. SeenPast'
    <2>1. req'[r].pc \in Lookers => req'[r].seen <= Len(rows)
      BY <1>1 DEF Looking
    <2> QED
      BY <1>2, <1>3, <2>1 DEF IInv, SeenPast
  <1>6. Cleared'
    <2> SUFFICES ASSUME NEW s \in Req, MakesMark(req'[s]), NEW i \in DOMAIN rows',
                        i <= req'[s].seen, Mark(i)', rows'[i].person = req'[s].person
                 PROVE  Apart(req[s], i)'
      BY DEF Cleared
    <2>1. CASE s = r
      <3>1. PICK q : q = req'[r]
        OBVIOUS
      <3>2. ExistingPresent(rows, q.person, q.occ, now.day) = {}
        BY <2>1, <3>1 DEF Looking
      <3>3. q.occ \in MaybeOcc
        BY <1>0, <2>1, <3>1, RequestTypes DEF TypeOK, MakesMark, CheckIns, Kiosks, Inserts
      <3>4. Apart(q, i)
        BY <1>0, <1>2, <2>1, <3>1, <3>2, <3>3, NothingFound DEF IInv, Mark
      <3> QED
        BY <1>2, <2>1, <3>1, <3>4 DEF Apart
    <2>2. CASE s # r
      BY <1>2, <1>3, <2>2 DEF IInv, Cleared, Mark, Apart
    <2> QED
      BY <2>1, <2>2
  <1>7. MissingCleared'
    <2> SUFFICES ASSUME NEW s \in Req, req'[s].pc = "absent", NEW i \in DOMAIN rows',
                        i <= req'[s].seen, Mark(i)', rows'[i].person \in req'[s].missing
                 PROVE  rows'[i].day < now'.day
      BY DEF MissingCleared
    <2>1. CASE s = r
      <3>1. TodaysPresent(rows, rows[i].person, now.day) = {}
        BY <1>2, <2>1 DEF Looking
      <3>2. rows[i].day # now.day
        BY <1>2, <3>1 DEF TodaysPresent, PresentRows, Mark
      <3>3. rows[i].day <= now.day
        BY <1>2 DEF IInv, RowsPast
      <3> QED
        BY <1>1, <1>2, <3>2, <3>3
    <2>2. CASE s # r
      BY <1>2, <1>3, <2>2 DEF IInv, MissingCleared, Mark
    <2> QED
      BY <2>1, <2>2
  <1>8. Loaded'
    <2> SUFFICES ASSUME NEW s \in Req, req'[s].pc = "manual_old"
                 PROVE  /\ req'[s].was.decision = "present"
                        /\ Kernel \notin Daily => req'[s].occ \in {NoOcc, req'[s].was.occ}
      BY DEF Loaded
    <2>1. CASE s = r
      BY <2>1 DEF Looking
    <2>2. CASE s # r
      BY <1>3, <2>2 DEF IInv, Loaded
    <2> QED
      BY <2>1, <2>2
  <1>9. KioskHoldsLoop'
    <2> SUFFICES ASSUME NEW s \in Req, req'[s].pc = "kiosk"
                 PROVE  /\ loop' = s
                        /\ \A i \in DOMAIN rows : i > req'[s].seen =>
                             rows[i].by \notin {"checkin", "kiosk"}
      BY <1>2 DEF KioskHoldsLoop
    <2>1. CASE s = r
      BY <1>1, <2>1 DEF Looking, Lookers
    <2>2. CASE s # r
      <3>1. loop = s /\ req'[s] = req[s]
        BY <1>3, <2>2 DEF IInv, KioskHoldsLoop
      <3>2. loop' = s
        BY <3>1, AttendanceAssumption DEF Looking
      <3> QED
        BY <3>1, <3>2 DEF IInv, KioskHoldsLoop
    <2> QED
      BY <2>1, <2>2
  <1>10. PermitsApart'
    <2>1. \A i \in DOMAIN rows' : rows'[i].permit \in spent' \cup {NoPermit}
      BY <1>2 DEF IInv, PermitsApart
    <2>2. \A s \in Req : s # r /\ req[s].pc \in Holders =>
            /\ req[s].permit \in spent \cup {NoPermit}
            /\ \A i \in DOMAIN rows : rows[i].permit = req[s].permit => rows[i].permit = NoPermit
            /\ \A t \in Req : req[t].pc \in Holders /\ req[t].permit = req[s].permit /\ t # s
                                => req[s].permit = NoPermit
      BY DEF IInv, PermitsApart
    <2>3. req'[r].pc \in Holders =>
            /\ req'[r].permit \in spent' \cup {NoPermit}
            /\ \A i \in DOMAIN rows : rows[i].permit = req'[r].permit => rows[i].permit = NoPermit
            /\ \A t \in Req : req[t].pc \in Holders /\ req[t].permit = req'[r].permit /\ t # r
                                => req'[r].permit = NoPermit
      <3> SUFFICES ASSUME req'[r].pc \in Holders
                   PROVE  /\ req'[r].permit \in spent' \cup {NoPermit}
                          /\ \A i \in DOMAIN rows :
                               rows[i].permit = req'[r].permit => rows[i].permit = NoPermit
                          /\ \A t \in Req : req[t].pc \in Holders
                                            /\ req[t].permit = req'[r].permit /\ t # r
                                              => req'[r].permit = NoPermit
        OBVIOUS
      <3>1. CASE req'[r].permit = NoPermit
        BY <3>1
      <3>2. CASE req'[r].permit \in spent' \ spent
        BY <3>2 DEF IInv, PermitsApart
      <3>3. CASE req[r].pc = "kiosk_image" /\ req'[r].permit = req[r].permit
        BY <1>2, <3>3 DEF IInv, PermitsApart, Holders
      <3> QED
        BY <3>1, <3>2, <3>3 DEF Looking
    <2> QED
      BY <1>2, <1>3, <2>1, <2>2, <2>3 DEF PermitsApart
  <1>11. AutoIsNoMark' /\ DuplicatesOverlap' /\ KioskNeverSecond' /\ OneRowPerPermit'
         /\ AbsentUnlessMarked'
    BY <1>2 DEF IInv, AutoIsNoMark, DuplicatesOverlap, KioskNeverSecond, OneRowPerPermit,
       AbsentUnlessMarked, Repeats, Mark, SameScope
  <1> QED
    BY <1>0, <1>4, <1>5, <1>6, <1>7, <1>8, <1>9, <1>10, <1>11 DEF IInv

LEMMA WritingKeeps == ASSUME IInv, TypeOK', NEW r \in Req, Writing(r) PROVE IInv'
  <1>0. TypeOK /\ TypeOK'
    BY DEF IInv
  <1>1. DOMAIN rows' = DOMAIN rows /\ Len(rows') = Len(rows) /\ now' = now /\ loop' = loop
        /\ spent \subseteq spent'
    BY DEF Writing
  <1>2. \A i \in DOMAIN rows :
          /\ rows'[i].person = rows[i].person /\ rows'[i].day = rows[i].day
          /\ rows'[i].by = rows[i].by /\ rows'[i].seen = rows[i].seen
          /\ rows'[i].permit = rows[i].permit
          /\ Kernel \notin Daily => rows'[i].occ = rows[i].occ
          /\ Mark(i)' => Mark(i)
    BY DEF Writing, Evolved
  <1>3. \A s \in Req : req'[s] = req[s] \/ req'[s].pc = "idle"
    BY IdleIsARequest DEF Writing
  <1>4. RowsPast'
    BY <1>1, <1>2 DEF IInv, RowsPast
  <1>5. SeenPast'
    BY <1>1, <1>3 DEF IInv, SeenPast, Lookers
  <1>6. Cleared'
    <2> SUFFICES ASSUME NEW s \in Req, MakesMark(req'[s]), NEW i \in DOMAIN rows,
                        i <= req'[s].seen, Mark(i)', rows'[i].person = req'[s].person
                 PROVE  Apart(req[s], i)'
      BY <1>1 DEF Cleared
    <2>1. req'[s] = req[s]
      BY <1>3 DEF MakesMark
    <2>2. Apart(req[s], i)
      BY <1>2, <2>1 DEF IInv, Cleared
    <2> QED
      BY <1>1, <1>2, <2>1, <2>2 DEF Apart
  <1>7. MissingCleared'
    BY <1>1, <1>2, <1>3 DEF IInv, MissingCleared
  <1>8. Loaded'
    BY <1>3 DEF IInv, Loaded
  <1>9. KioskHoldsLoop'
    BY <1>1, <1>2, <1>3 DEF IInv, KioskHoldsLoop
  <1>10. PermitsApart'
    BY <1>1, <1>2, <1>3 DEF IInv, PermitsApart, Holders
  <1>11. \A i, j \in DOMAIN rows : Repeats(i, j)' => Repeats(i, j)
    BY <1>2 DEF Repeats, SameScope
  <1>12. DuplicatesOverlap' /\ KioskNeverSecond'
    BY <1>1, <1>2, <1>11 DEF IInv, DuplicatesOverlap, KioskNeverSecond
  <1>13. AutoIsNoMark' /\ OneRowPerPermit' /\ AbsentUnlessMarked'
    BY <1>1, <1>2 DEF IInv, AutoIsNoMark, OneRowPerPermit, AbsentUnlessMarked
  <1> QED
    BY <1>0, <1>4, <1>5, <1>6, <1>7, <1>8, <1>9, <1>10, <1>12, <1>13 DEF IInv

LEMMA AddingKeeps == ASSUME IInv, TypeOK', NEW r \in Req, Adding(r) PROVE IInv'
  <1>0. TypeOK /\ TypeOK'
    BY DEF IInv
  <1>1. /\ Len(rows) \in Nat /\ DOMAIN rows = 1 .. Len(rows) /\ now.day \in Nat
        /\ \A i \in DOMAIN rows : rows[i] \in Row /\ rows[i].day \in Nat
    BY <1>0, TableFacts
  <1>2. /\ Len(rows') \in Nat /\ DOMAIN rows' = 1 .. Len(rows')
        /\ \A i \in DOMAIN rows' : rows'[i].seen \in Nat /\ rows'[i].day \in Nat
    <2>1. rows' \in Seq(Row)
      BY <1>0 DEF TypeOK
    <2>2. \A i \in DOMAIN rows' : rows'[i] \in Row
      BY <2>1, ElementOfSeq
    <2> QED
      BY <2>1, <2>2 DEF Row
  <1>3. /\ now' = now /\ spent' = spent /\ Len(rows') >= Len(rows)
        /\ \A i \in DOMAIN rows : i \in DOMAIN rows' /\ rows'[i] = rows[i]
        /\ \A j \in DOMAIN rows' \ DOMAIN rows : j > Len(rows) /\ BornOf(j, req[r])
    BY DEF Adding
  <1>4. \A s \in Req : (s # r /\ req'[s] = req[s]) \/ (s = r /\ req'[s].pc = "idle")
    BY IdleIsARequest DEF Adding
  <1>5. req[r].pc \in Lookers /\ req[r].seen \in Nat /\ req[r].seen <= Len(rows)
    BY <1>0, SeenType DEF Adding, IInv, SeenPast
  <1>6. \A i \in DOMAIN rows : Mark(i)' <=> Mark(i)
    BY <1>3 DEF Mark
  <1>7. ASSUME NEW j \in DOMAIN rows' \ DOMAIN rows, Mark(j)'
        PROVE  /\ MakesMark(req[r]) /\ Len(rows') = Len(rows) + 1
               /\ rows'[j].person = req[r].person /\ rows'[j].occ = req[r].occ
    <2>1. req[r].pc # "absent"
      BY <1>3, <1>7 DEF BornOf, Mark
    <2> QED
      BY <1>3, <1>7, <2>1 DEF BornOf, Mark, MakesMark, Adding
  <1>8. RowsPast'
    BY <1>1, <1>3 DEF IInv, RowsPast, BornOf
  <1>9. SeenPast'
    <2> SUFFICES ASSUME NEW s \in Req, req'[s].pc \in Lookers
                 PROVE  req'[s].seen <= Len(rows')
      BY DEF SeenPast
    <2>1. req'[s] = req[s]
      BY <1>4 DEF Lookers
    <2>2. req[s].seen \in Nat /\ req[s].seen <= Len(rows)
      BY <1>0, <2>1, SeenType DEF IInv, SeenPast
    <2> QED
      BY <1>1, <1>2, <1>3, <2>1, <2>2
  <1>10. Cleared'
    <2> SUFFICES ASSUME NEW s \in Req, MakesMark(req'[s]), NEW i \in DOMAIN rows',
                        i <= req'[s].seen, Mark(i)', rows'[i].person = req'[s].person
                 PROVE  Apart(req[s], i)'
      BY DEF Cleared
    <2>1. req'[s] = req[s]
      BY <1>4 DEF MakesMark
    <2>2. req[s].pc \in Lookers
      BY <2>1 DEF MakesMark, Lookers
    <2>3. req[s].seen \in Nat /\ req[s].seen <= Len(rows)
      BY <1>0, <2>2, SeenType DEF IInv, SeenPast
    <2>4. i \in DOMAIN rows
      BY <1>1, <1>2, <2>1, <2>3
    <2>5. Apart(req[s], i)
      BY <1>3, <1>6, <2>1, <2>4 DEF IInv, Cleared
    <2> QED
      BY <1>3, <2>1, <2>4, <2>5 DEF Apart
  <1>11. MissingCleared'
    <2> SUFFICES ASSUME NEW s \in Req, req'[s].pc = "absent", NEW i \in DOMAIN rows',
                        i <= req'[s].seen, Mark(i)', rows'[i].person \in req'[s].missing
                 PROVE  rows'[i].day < now'.day
      BY DEF MissingCleared
    <2>1. req'[s] = req[s]
      BY <1>4
    <2>2. req[s].pc \in Lookers
      BY <2>1 DEF Lookers
    <2>3. req[s].seen \in Nat /\ req[s].seen <= Len(rows)
      BY <1>0, <2>2, SeenType DEF IInv, SeenPast
    <2>4. i \in DOMAIN rows
      BY <1>1, <1>2, <2>1, <2>3
    <2> QED
      BY <1>3, <1>6, <2>1, <2>4 DEF IInv, MissingCleared
  <1>12. Loaded'
    BY <1>4 DEF IInv, Loaded
  <1>13. KioskHoldsLoop'
    <2> SUFFICES ASSUME NEW s \in Req, req'[s].pc = "kiosk"
                 PROVE  /\ loop' = s
                        /\ \A i \in DOMAIN rows' : i > req'[s].seen =>
                             rows'[i].by \notin {"checkin", "kiosk"}
      BY DEF KioskHoldsLoop
    <2>1. s # r /\ req'[s] = req[s]
      BY <1>4
    <2>2. loop = s /\ \A i \in DOMAIN rows : i > req[s].seen =>
                        rows[i].by \notin {"checkin", "kiosk"}
      BY <2>1 DEF IInv, KioskHoldsLoop
    <2>3. req[r].pc \notin {"checkin", "kiosk"}
      BY <2>1, <2>2, AttendanceAssumption DEF Adding, IInv, KioskHoldsLoop
    <2>4. loop' = s
      BY <2>2, <2>3 DEF Adding
    <2>5. \A j \in DOMAIN rows' \ DOMAIN rows : rows'[j].by \notin {"checkin", "kiosk"}
      BY <1>3, <2>3 DEF BornOf
    <2> QED
      BY <1>3, <2>1, <2>2, <2>4, <2>5
  <1>14. \A j \in DOMAIN rows' \ DOMAIN rows :
           rows'[j].permit = NoPermit \/ (req[r].pc \in Holders /\ rows'[j].permit = req[r].permit)
    BY <1>3 DEF BornOf, Holders
  <1>15. PermitsApart'
    <2>1. \A i \in DOMAIN rows' : rows'[i].permit \in spent' \cup {NoPermit}
      BY <1>3, <1>14 DEF IInv, PermitsApart
    <2>2. ASSUME NEW s \in Req, req'[s].pc \in Holders
          PROVE  /\ req'[s].permit \in spent' \cup {NoPermit}
                 /\ \A i \in DOMAIN rows' :
                      rows'[i].permit = req'[s].permit => rows'[i].permit = NoPermit
                 /\ \A t \in Req : req'[t].pc \in Holders /\ req'[t].permit = req'[s].permit /\ t # s
                                     => req'[s].permit = NoPermit
      <3>1. s # r /\ req'[s] = req[s]
        BY <1>4, <2>2 DEF Holders
      <3>2. req'[s].permit \in spent' \cup {NoPermit}
        BY <1>3, <2>2, <3>1 DEF IInv, PermitsApart
      <3>3. \A i \in DOMAIN rows' :
              rows'[i].permit = req'[s].permit => rows'[i].permit = NoPermit
        <4> TAKE i \in DOMAIN rows'
        <4>1. CASE i \in DOMAIN rows
          BY <1>3, <2>2, <3>1, <4>1 DEF IInv, PermitsApart
        <4>2. CASE i \notin DOMAIN rows
          BY <1>14, <2>2, <3>1, <4>2 DEF IInv, PermitsApart
        <4> QED
          BY <4>1, <4>2
      <3>4. \A t \in Req : req'[t].pc \in Holders => req'[t] = req[t]
        BY <1>4 DEF Holders
      <3>5. \A t \in Req : req'[t].pc \in Holders /\ req'[t].permit = req'[s].permit /\ t # s
                             => req'[s].permit = NoPermit
        BY <2>2, <3>1, <3>4 DEF IInv, PermitsApart
      <3> QED
        BY <3>2, <3>3, <3>5
    <2> QED
      BY <2>1, <2>2 DEF PermitsApart
  <1>16. AutoIsNoMark'
    BY <1>3, <1>6 DEF IInv, AutoIsNoMark, BornOf, Mark
  <1>17. ASSUME NEW i \in DOMAIN rows', NEW j \in DOMAIN rows', Repeats(i, j)', j \notin DOMAIN rows
         PROVE  /\ i \in DOMAIN rows /\ rows[i].person = req[r].person
                /\ i > req[r].seen /\ rows'[j].seen = req[r].seen
    <2>1. /\ MakesMark(req[r]) /\ Len(rows') = Len(rows) + 1
          /\ rows'[j].person = req[r].person /\ rows'[j].occ = req[r].occ
      BY <1>7, <1>17 DEF Repeats
    <2>2. i < j /\ Mark(i)' /\ SameScope(i, j)'
      BY <1>17 DEF Repeats
    <2>3. i \in DOMAIN rows
      BY <1>1, <1>2, <1>17, <2>1, <2>2
    <2>4. rows'[j].day = now.day /\ rows'[j].seen = req[r].seen
      BY <1>3, <1>17 DEF BornOf
    <2>5. rows[i].person = req[r].person
      BY <1>3, <2>1, <2>2, <2>3 DEF SameScope
    <2>6. ~Apart(req[r], i)
      <3>1. rows'[i] = rows[i] /\ rows[i].day \in Nat
        BY <1>1, <1>3, <2>3
      <3> QED
        BY <1>1, <2>1, <2>2, <2>4, <3>1 DEF SameScope, Apart
    <2>7. ~(i <= req[r].seen)
      BY <1>6, <2>1, <2>2, <2>3, <2>5, <2>6 DEF IInv, Cleared
    <2> QED
      BY <1>1, <1>5, <2>3, <2>4, <2>5, <2>7
  <1>18. ASSUME NEW i \in DOMAIN rows', NEW j \in DOMAIN rows, Repeats(i, j)'
         PROVE  i \in DOMAIN rows /\ Repeats(i, j)
    <2>1. i < j /\ Mark(i)' /\ Mark(j)' /\ SameScope(i, j)'
      BY <1>18 DEF Repeats
    <2>2. i \in DOMAIN rows
      BY <1>1, <1>2, <2>1
    <2> QED
      BY <1>3, <1>6, <2>1, <2>2 DEF Repeats, SameScope
  <1>19. DuplicatesOverlap'
    <2> SUFFICES ASSUME NEW i \in DOMAIN rows', NEW j \in DOMAIN rows', Repeats(i, j)'
                 PROVE  rows'[j].seen < i
      BY DEF DuplicatesOverlap
    <2>1. CASE j \in DOMAIN rows
      BY <1>3, <1>18, <2>1 DEF IInv, DuplicatesOverlap
    <2>2. CASE j \notin DOMAIN rows
      BY <1>1, <1>5, <1>17, <2>2
    <2> QED
      BY <2>1, <2>2
  <1>20. KioskNeverSecond'
    <2> SUFFICES ASSUME NEW i \in DOMAIN rows', NEW j \in DOMAIN rows', Repeats(i, j)',
                        rows'[i].by \in {"checkin", "kiosk"}
                 PROVE  rows'[j].by # "kiosk"
      BY DEF KioskNeverSecond
    <2>1. CASE j \in DOMAIN rows
      BY <1>3, <1>18, <2>1 DEF IInv, KioskNeverSecond
    <2>2. CASE j \notin DOMAIN rows
      <3>1. i \in DOMAIN rows /\ i > req[r].seen /\ rows[i].by \in {"checkin", "kiosk"}
        BY <1>3, <1>17, <2>2
      <3>2. req[r].pc # "kiosk"
        BY <3>1 DEF IInv, KioskHoldsLoop
      <3> QED
        BY <1>3, <2>2, <3>2 DEF BornOf
    <2> QED
      BY <2>1, <2>2
  <1>21. OneRowPerPermit'
    <2> SUFFICES ASSUME NEW i \in DOMAIN rows', NEW j \in DOMAIN rows',
                        rows'[i].permit = rows'[j].permit, i # j
                 PROVE  rows'[i].permit = NoPermit
      BY DEF OneRowPerPermit
    <2>1. CASE i \in DOMAIN rows /\ j \in DOMAIN rows
      BY <1>3, <2>1 DEF IInv, OneRowPerPermit
    <2>2. CASE (i \in DOMAIN rows /\ j \notin DOMAIN rows) \/ (i \notin DOMAIN rows /\ j \in DOMAIN rows)
      BY <1>3, <1>14, <2>2 DEF IInv, PermitsApart
    <2>3. CASE i \notin DOMAIN rows /\ j \notin DOMAIN rows
      <3>1. CASE req[r].pc = "absent"
        BY <1>14, <2>3, <3>1 DEF Holders
      <3>2. CASE req[r].pc # "absent"
        <4>1. Len(rows') = Len(rows) + 1
          BY <3>2 DEF Adding
        <4> QED
          BY <1>1, <1>2, <2>3, <4>1
      <3> QED
        BY <3>1, <3>2
    <2> QED
      BY <2>1, <2>2, <2>3
  <1>22. AbsentUnlessMarked'
    <2> SUFFICES ASSUME NEW i \in DOMAIN rows', NEW j \in DOMAIN rows', i < j,
                        rows'[j].by = "auto", Mark(i)',
                        rows'[i].person = rows'[j].person, rows'[i].day = rows'[j].day
                 PROVE  rows'[j].seen < i
      BY DEF AbsentUnlessMarked
    <2>1. CASE j \in DOMAIN rows
      <3>1. i \in DOMAIN rows
        BY <1>1, <1>2, <2>1
      <3> QED
        BY <1>3, <1>6, <2>1, <3>1 DEF IInv, AbsentUnlessMarked
    <2>2. CASE j \notin DOMAIN rows
      <3>1. req[r].pc = "absent" /\ rows'[j].person \in req[r].missing
            /\ rows'[j].day = now.day /\ rows'[j].seen = req[r].seen
        BY <1>3, <2>2 DEF BornOf
      <3>2. i \in DOMAIN rows
        BY <1>7, <3>1 DEF MakesMark
      <3>3. rows[i].day = now.day /\ rows[i].person \in req[r].missing /\ Mark(i)
        BY <1>3, <1>6, <3>1, <3>2
      <3>4. ~(i <= req[r].seen)
        BY <1>1, <3>1, <3>2, <3>3 DEF IInv, MissingCleared
      <3> QED
        BY <1>1, <1>5, <3>1, <3>2, <3>4
    <2> QED
      BY <2>1, <2>2
  <1> QED
    BY <1>0, <1>8, <1>9, <1>10, <1>11, <1>12, <1>13, <1>15, <1>16, <1>19, <1>20, <1>21, <1>22
       DEF IInv

LEMMA IInvInit == Init => IInv
  <1> SUFFICES ASSUME Init PROVE IInv
    OBVIOUS
  <1>1. rows = <<>> /\ DOMAIN rows = {} /\ \A r \in Req : req[r] = Idle
    BY DEF Init
  <1>2. \A r \in Req : req[r].pc = "idle"
    BY <1>1, IdleIsARequest
  <1>3. TypeOK
    <2>1. now = [day |-> 0, tick |-> 0]
      BY DEF Init
    <2>2. now \in Moment /\ now.day <= MaxDay
      BY <2>1, PolicyAssumption, AttendanceAssumption DEF Moment
    <2>3. rows \in Seq(Row)
      BY <1>1
    <2>4. req \in [Req -> Requests]
      BY IdleIsARequest DEF Init
    <2> QED
      BY <1>2, <2>2, <2>3, <2>4 DEF Init, TypeOK
  <1>4. RowsPast /\ SeenPast /\ Cleared /\ MissingCleared /\ Loaded /\ KioskHoldsLoop
        /\ PermitsApart /\ AutoIsNoMark
    BY <1>1, <1>2 DEF RowsPast, SeenPast, Cleared, MissingCleared, Loaded, KioskHoldsLoop,
       PermitsApart, AutoIsNoMark, Lookers, MakesMark, Holders
  <1>5. DuplicatesOverlap /\ KioskNeverSecond /\ OneRowPerPermit /\ AbsentUnlessMarked
    BY <1>1 DEF DuplicatesOverlap, KioskNeverSecond, OneRowPerPermit, AbsentUnlessMarked
  <1> QED
    BY <1>3, <1>4, <1>5 DEF IInv

LEMMA IInvStep == IInv /\ [Next]_vars => IInv'
  <1> SUFFICES ASSUME IInv, [Next]_vars PROVE IInv'
    OBVIOUS
  <1>1. TypeOK'
    BY TypeStep DEF IInv
  <1>2. Forgetting \/ \E r \in Req : Looking(r) \/ Writing(r) \/ Adding(r)
    BY StepKinds DEF IInv
  <1> QED
    BY <1>1, <1>2, ForgettingKeeps, LookingKeeps, WritingKeeps, AddingKeeps

LEMMA Invariance == Spec => []IInv
  BY IInvInit, IInvStep, PTL DEF Spec

----------------------------------------------------------------------------
(* The theorems.                                                           *)

\* Every variable keeps its type, whatever the handlers interleave.
THEOREM TypeCorrect == Spec => []TypeOK
  <1>1. IInv => TypeOK
    BY DEF IInv
  <1> QED
    BY <1>1, Invariance, PTL

\* A second mark in one scope comes only from a request that looked before
\* the first mark was committed (check_in's await, HR's worker thread).
THEOREM DuplicatesOverlapCorrect == Spec => []DuplicatesOverlap
  <1>1. IInv => DuplicatesOverlap
    BY DEF IInv
  <1> QED
    BY <1>1, Invariance, PTL

\* kiosk_punch never repeats the mark of another punch.
THEOREM KioskNeverSecondCorrect == Spec => []KioskNeverSecond
  <1>1. IInv => KioskNeverSecond
    BY DEF IInv
  <1> QED
    BY <1>1, Invariance, PTL

\* One passed challenge backs at most one row (_require_live in every punch).
THEOREM OneRowPerPermitCorrect == Spec => []OneRowPerPermit
  <1>1. IInv => OneRowPerPermit
    BY DEF IInv
  <1> QED
    BY <1>1, Invariance, PTL

\* _maybe_auto_absent overlooks a mark of the day only if it was committed
\* after its queries.
THEOREM AbsentUnlessMarkedCorrect == Spec => []AbsentUnlessMarked
  <1>1. IInv => AbsentUnlessMarked
    BY DEF IInv
  <1> QED
    BY <1>1, Invariance, PTL

----------------------------------------------------------------------------
(* One request at a time.                                                  *)

Alone == \A r, s \in Req : r = s

\* A request that waits has seen the whole table, and so had every handler
\* that inserted one row.
SawEverything ==
    /\ \A r \in Req : req[r].pc \in Lookers => req[r].seen = Len(rows)
    /\ \A j \in DOMAIN rows : rows[j].by # "auto" => rows[j].seen = j - 1

LEMMA SawEverythingStep ==
    ASSUME Alone, IInv, SawEverything, [Next]_vars PROVE SawEverything'
  <1>0. TypeOK /\ TypeOK'
    BY TypeStep DEF IInv
  <1>1. Len(rows) \in Nat /\ DOMAIN rows = 1 .. Len(rows)
    BY <1>0, TableFacts
  <1>2. CASE Forgetting
    BY <1>2, IdleIsARequest DEF Forgetting, SawEverything, Lookers
  <1>3. ASSUME NEW r \in Req, Looking(r) PROVE SawEverything'
    BY <1>3 DEF Looking, SawEverything, Alone
  <1>4. ASSUME NEW r \in Req, Writing(r) PROVE SawEverything'
    <2>1. \A s \in Req : req'[s].pc \notin Lookers
      BY <1>4, IdleIsARequest DEF Writing, Alone, Lookers
    <2> QED
      BY <1>4, <2>1 DEF Writing, Evolved, SawEverything
  <1>5. ASSUME NEW r \in Req, Adding(r) PROVE SawEverything'
    <2>1. \A s \in Req : req'[s].pc \notin Lookers
      BY <1>5, IdleIsARequest DEF Adding, Alone, Lookers
    <2>2. \A j \in DOMAIN rows' : rows'[j].by # "auto" => rows'[j].seen = j - 1
      <3> SUFFICES ASSUME NEW j \in DOMAIN rows', rows'[j].by # "auto"
                   PROVE  rows'[j].seen = j - 1
        OBVIOUS
      <3>1. CASE j \in DOMAIN rows
        BY <1>5, <3>1 DEF Adding, SawEverything
      <3>2. CASE j \notin DOMAIN rows
        <4>1. req[r].pc # "absent" /\ rows'[j].seen = req[r].seen /\ j > Len(rows)
          BY <1>5, <3>2 DEF Adding, BornOf
        <4>2. Len(rows') = Len(rows) + 1 /\ req[r].seen = Len(rows)
          BY <1>5, <4>1 DEF Adding, SawEverything
        <4>3. DOMAIN rows' = 1 .. Len(rows')
          BY <1>0 DEF TypeOK
        <4> QED
          BY <1>1, <4>1, <4>2, <4>3
      <3> QED
        BY <3>1, <3>2
    <2> QED
      BY <2>1, <2>2 DEF SawEverything
  <1> QED
    BY <1>2, <1>3, <1>4, <1>5, StepKinds DEF IInv

\* With one request in flight at a time nobody is marked twice in one scope,
\* across midnight, restarts, failed attempts and HR entries: the overlap of
\* two requests is what ATT-3 (docs/PRD.md) cannot survive.
THEOREM SerialOneMark == Alone => (Spec => []OneMark)
  <1> SUFFICES ASSUME Alone PROVE Spec => []OneMark
    OBVIOUS
  <1>1. Init => SawEverything
    BY IdleIsARequest DEF Init, SawEverything, Lookers
  <1>2. IInv /\ SawEverything /\ [Next]_vars => SawEverything'
    BY SawEverythingStep
  <1>3. IInv /\ SawEverything => OneMark
    <2> SUFFICES ASSUME IInv, SawEverything, NEW i \in DOMAIN rows, NEW j \in DOMAIN rows,
                        Repeats(i, j)
                 PROVE  FALSE
      BY DEF OneMark
    <2>1. i \in Nat /\ j \in Nat /\ i < j
      BY TableFacts DEF IInv, Repeats
    <2>2. rows[j].by # "auto"
      BY DEF IInv, AutoIsNoMark, Repeats
    <2>3. rows[j].seen = j - 1 /\ rows[j].seen < i
      BY <2>2 DEF SawEverything, IInv, DuplicatesOverlap
    <2> QED
      BY <2>1, <2>3
  <1> QED
    BY <1>1, <1>2, <1>3, Invariance, PTL DEF Spec
----------------------------------------------------------------------------
(* The markers of the summary, one request at a time.                      *)

\* A digest that is due has no marker yet, nor have absences about to be
\* written: nobody writes one between the look and the marker.
MarkersAwaited ==
    \A r \in Req :
        /\ req[r].pc = "digest" /\ req[r].due => digests[req[r].day] = 0
        /\ req[r].pc = "absent" => autoRuns[req[r].day] = 0

\* What every step but the summary's leaves alone.
NoMarker ==
    /\ UNCHANGED <<digests, autoRuns>>
    /\ \A s \in Req : req'[s] = req[s] \/ req'[s].pc \notin {"digest", "absent"}

LEMMA NoMarkerMove ==
    ASSUME TypeOK, NEW r \in Req, NEW q, req' = [req EXCEPT ![r] = q],
           q.pc \notin {"digest", "absent"}, UNCHANGED <<digests, autoRuns>>
    PROVE  NoMarker
  <1>1. req'[r] = q /\ \A s \in Req : s # r => req'[s] = req[s]
    BY MovedRequest
  <1> QED
    BY <1>1 DEF NoMarker

LEMMA OnlySummaryMarks ==
    ASSUME TypeOK, [Next]_vars
    PROVE  NoMarker \/ \E r \in Req : Summary(r)
  <1>1. ASSUME NEW r \in Req, SelfService(r) PROVE NoMarker
    <2>1. ASSUME PunchAbort(r) \/ KioskPunch(r) \/ \E match \in BOOLEAN : CheckInPunch(r, match)
          PROVE  NoMarker
      BY <2>1, NoMarkerMove, IdleIsARequest DEF PunchAbort, KioskPunch, CheckInPunch, End
    <2>2. ASSUME NEW permit \in MaybePermit, KioskArrive(r, permit) PROVE NoMarker
      BY <2>2, NoMarkerMove DEF KioskArrive, Begin
    <2>3. ASSUME NEW permit \in MaybePermit, NEW withFace \in BOOLEAN,
                 CheckOutMismatch(r, permit) \/ CheckOutCommit(r, permit, withFace)
          PROVE  NoMarker
      BY <2>3, NoMarkerMove, IdleIsARequest DEF CheckOutMismatch, CheckOutCommit, End
    <2>4. ASSUME NEW p \in Person, CheckOutArrive(r, p) PROVE NoMarker
      <3>1. PICK i \in CheckoutRow(rows, p, now) :
              req' = [req EXCEPT ![r] = [pc |-> "checkout", person |-> p, row |-> i,
                                         was |-> rows[i]]]
        BY <2>4 DEF CheckOutArrive, Begin
      <3> QED
        BY <2>4, <3>1, NoMarkerMove DEF CheckOutArrive
    <2>5. ASSUME NEW p \in Person, NEW o \in MaybeOcc, KioskFace(r, p, o) \/ KioskPin(r, p, o)
          PROVE  NoMarker
      <3>1. PICK permit : KioskAdmit(r, p, o, permit)
        BY <2>5 DEF KioskFace, KioskPin
      <3> QED
        BY <3>1, NoMarkerMove DEF KioskAdmit, Continue
    <2>6. ASSUME NEW p \in Person, NEW o \in MaybeOcc, NEW permit \in MaybePermit,
                 CheckInArrive(r, p, o, permit)
          PROVE  NoMarker
      <3>1. PICK x \in Resolved(p, o, now) :
              req' = [req EXCEPT ![r] = [pc |-> "checkin", person |-> p, occ |-> x,
                                         seen |-> Len(rows), permit |-> permit]]
        BY <2>6 DEF CheckInArrive, Begin
      <3> QED
        BY <2>6, <3>1, NoMarkerMove DEF CheckInArrive
    <2> QED
      BY <1>1, <2>1, <2>2, <2>3, <2>4, <2>5, <2>6 DEF SelfService
  <1>2. ASSUME NEW r \in Req, Hr(r) PROVE NoMarker
    <2>1. ASSUME NEW p \in Person, NEW o \in MaybeOcc, ManualOld(r, p, o) PROVE NoMarker
      <3>1. PICK i \in Latest(ExistingPresent(rows, p, o, now.day)) :
              req' = [req EXCEPT ![r] = [pc |-> "manual_old", row |-> i, was |-> rows[i],
                                         occ |-> o]]
        BY <2>1 DEF ManualOld, Begin
      <3> QED
        BY <2>1, <3>1, NoMarkerMove DEF ManualOld
    <2>2. ASSUME NEW p \in Person, NEW o \in MaybeOcc, NEW d \in HrDecisions,
                 ManualNew(r, p, o, d)
          PROVE  NoMarker
      BY <2>2, NoMarkerMove DEF ManualNew, Begin
    <2>3. ASSUME NEW late, NEW early, ManualInsert(r, late, early) \/ ManualUpdate(r, late, early)
          PROVE  NoMarker
      BY <2>3, NoMarkerMove, IdleIsARequest DEF ManualInsert, ManualUpdate, End
    <2>4. ASSUME NEW i \in DOMAIN rows, PatchLoad(r, i) PROVE NoMarker
      BY <2>4, NoMarkerMove DEF PatchLoad, Begin
    <2>5. ASSUME NEW d, NEW late, NEW early, NEW out, PatchCommit(r, d, late, early, out)
          PROVE  NoMarker
      BY <2>5, NoMarkerMove, IdleIsARequest DEF PatchCommit, End
    <2> QED
      BY <1>2, <2>1, <2>2, <2>3, <2>4, <2>5 DEF Hr
  <1>3. Tick \/ (\E p \in Person : Deactivate(p) \/ Reactivate(p) \/ Enroll(p)) => NoMarker
    BY DEF Tick, Deactivate, Reactivate, Enroll, NoMarker
  <1>4. Restart => NoMarker
    BY IdleIsARequest DEF Restart, NoMarker
  <1>5. UNCHANGED vars => NoMarker
    BY DEF vars, NoMarker
  <1> QED
    BY <1>1, <1>2, <1>3, <1>4, <1>5 DEF Next

LEMMA MarkersStep ==
    ASSUME Alone, TypeOK, MarkersOnce, MarkersAwaited, [Next]_vars
    PROVE  MarkersOnce' /\ MarkersAwaited'
  <1>0. /\ digests \in [0 .. MaxDay -> Nat] /\ autoRuns \in [0 .. MaxDay -> Nat]
        /\ now.day \in 0 .. MaxDay
    BY AttendanceAssumption DEF TypeOK, Moment
  <1>1. CASE NoMarker
    BY <1>1 DEF NoMarker, MarkersOnce, MarkersAwaited
  <1>2. ASSUME NEW r \in Req, SummaryRead(r) PROVE MarkersOnce' /\ MarkersAwaited'
    <2> DEFINE q == [pc |-> "digest", day |-> now.day,
                     expected |-> Missing(active \cap faces),
                     due |-> /\ NotifyLate
                             /\ now.tick >= LateTick
                             /\ digests[now.day] = 0]
    <2>1. req' = [req EXCEPT ![r] = q] /\ UNCHANGED <<digests, autoRuns>>
      BY <1>2 DEF SummaryRead, Begin
    <2>2. q.pc = "digest" /\ q.day = now.day /\ (q.due => digests[now.day] = 0)
      OBVIOUS
    <2> HIDE DEF q
    <2>3. \A s \in Req : req'[s] = q
      BY <2>1, MovedRequest DEF Alone
    <2> QED
      BY <2>1, <2>2, <2>3 DEF MarkersOnce, MarkersAwaited
  <1>3. ASSUME NEW r \in Req, SummaryDigest(r) PROVE MarkersOnce' /\ MarkersAwaited'
    <2> DEFINE close == AutoAbsent /\ now.tick >= CloseTick /\ autoRuns[now.day] = 0
               q == IF close THEN [pc |-> "absent", day |-> now.day,
                                   missing |-> Missing(req[r].expected),
                                   seen |-> Len(rows)]
                    ELSE Idle
    <2>1. /\ req[r].pc = "digest" /\ req' = [req EXCEPT ![r] = q] /\ autoRuns' = autoRuns
          /\ digests' = IF req[r].due THEN [digests EXCEPT ![req[r].day] = @ + 1] ELSE digests
      BY <1>3 DEF SummaryDigest, Continue
    <2>2. q.pc # "digest" /\ (q.pc = "absent" => q.day = now.day /\ autoRuns[now.day] = 0)
      BY IdleIsARequest
    <2> HIDE DEF q, close
    <2>3. \A s \in Req : req'[s] = q
      BY <2>1, MovedRequest DEF Alone
    <2>4. MarkersAwaited'
      BY <2>1, <2>2, <2>3 DEF MarkersAwaited
    <2>5. req[r].due => digests[req[r].day] = 0
      BY <2>1 DEF MarkersAwaited
    <2>6. \A d \in 0 .. MaxDay : digests'[d] <= 1
      BY <1>0, <2>1, <2>5 DEF MarkersOnce
    <2> QED
      BY <2>1, <2>4, <2>6 DEF MarkersOnce
  <1>4. ASSUME NEW r \in Req, SummaryAbsent(r) PROVE MarkersOnce' /\ MarkersAwaited'
    <2>1. /\ req[r].pc = "absent" /\ req' = [req EXCEPT ![r] = Idle] /\ digests' = digests
          /\ autoRuns' = [autoRuns EXCEPT ![req[r].day] = @ + 1]
      BY <1>4 DEF SummaryAbsent, End
    <2>2. \A s \in Req : req'[s].pc = "idle"
      BY <2>1, MovedRequest, IdleIsARequest DEF Alone
    <2>3. autoRuns[req[r].day] = 0
      BY <2>1 DEF MarkersAwaited
    <2>4. \A d \in 0 .. MaxDay : autoRuns'[d] <= 1
      BY <1>0, <2>1, <2>3 DEF MarkersOnce
    <2> QED
      BY <2>1, <2>2, <2>4 DEF MarkersOnce, MarkersAwaited
  <1> QED
    BY <1>1, <1>2, <1>3, <1>4, OnlySummaryMarks DEF Summary

\* Where polls of the summary do not overlap, each day's digest is mailed
\* once and each day's absences are written once, whatever else happens.
THEOREM SerialMarkersOnce == Alone => (Spec => []MarkersOnce)
  <1> SUFFICES ASSUME Alone PROVE Spec => []MarkersOnce
    OBVIOUS
  <1>1. Init => MarkersOnce /\ MarkersAwaited
    BY IdleIsARequest DEF Init, MarkersOnce, MarkersAwaited
  <1>2. TypeOK /\ MarkersOnce /\ MarkersAwaited /\ [Next]_vars => MarkersOnce' /\ MarkersAwaited'
    BY MarkersStep
  <1> QED
    BY <1>1, <1>2, TypeCorrect, PTL DEF Spec

----------------------------------------------------------------------------
(* The flags of a row, one request at a time.                              *)

Proper(x) == x.decision # "present" => ~x.late /\ ~x.early

Loaders == {"checkout", "manual_old", "patch"}

\* A row that was loaded is as it was, and a check-out loaded a mark: nobody
\* writes between the load and the commit.
LoadedIsStored ==
    \A r \in Req :
        /\ req[r].pc \in Loaders => req[r].was = rows[req[r].row]
        /\ req[r].pc = "checkout" => req[r].was.decision = "present"

FlagsInv == OnlyPresentIsLate /\ LoadedIsStored

\* Three kinds of step: rows are added, one row is rewritten, the table
\* stays and a request moves.
LEMMA EndIsIdle ==
    ASSUME Alone, TypeOK, NEW r \in Req, End(r)
    PROVE  \A s \in Req : req'[s] = Idle
  <1>1. req' = [req EXCEPT ![r] = Idle]
    BY DEF End
  <1> QED
    BY <1>1, MovedRequest DEF Alone

LEMMA AppendProper ==
    ASSUME Alone, TypeOK, FlagsInv, NEW r \in Req, End(r), NEW new \in Seq(Row), Insert(new),
           \A k \in DOMAIN new : Proper(new[k])
    PROVE  FlagsInv'
  <1>1. \A s \in Req : req'[s].pc = "idle"
    BY IdleIsARequest, EndIsIdle
  <1>2. \A i \in DOMAIN rows' : Proper(rows'[i])
    BY InsertFacts DEF FlagsInv, OnlyPresentIsLate, Proper, TypeOK
  <1> QED
    BY <1>1, <1>2 DEF FlagsInv, OnlyPresentIsLate, LoadedIsStored, Proper, Loaders

LEMMA AppendOneProper ==
    ASSUME Alone, TypeOK, FlagsInv, NEW r \in Req, End(r), NEW x \in Row, Insert(<<x>>),
           Proper(x)
    PROVE  FlagsInv'
  <1>1. <<x>> \in Seq(Row) /\ \A k \in DOMAIN <<x>> : Proper(<<x>>[k])
    OBVIOUS
  <1> QED
    BY <1>1, AppendProper

LEMMA RewriteProper ==
    ASSUME Alone, TypeOK, FlagsInv, NEW r \in Req, End(r), NEW i \in DOMAIN rows,
           NEW x, rows' = [rows EXCEPT ![i] = x], Proper(x)
    PROVE  FlagsInv'
  <1>1. \A s \in Req : req'[s].pc = "idle"
    BY IdleIsARequest, EndIsIdle
  <1>2. DOMAIN rows' = DOMAIN rows /\ \A k \in DOMAIN rows' : rows'[k] = x \/ rows'[k] = rows[k]
    BY DEF TypeOK
  <1>3. \A k \in DOMAIN rows' : Proper(rows'[k])
    BY <1>2 DEF FlagsInv, OnlyPresentIsLate, Proper
  <1> QED
    BY <1>1, <1>3 DEF FlagsInv, OnlyPresentIsLate, LoadedIsStored, Proper, Loaders

LEMMA MoveProper ==
    ASSUME Alone, TypeOK, FlagsInv, NEW r \in Req, NEW q, req' = [req EXCEPT ![r] = q],
           rows' = rows, q.pc \in Loaders => q.was = rows[q.row],
           q.pc = "checkout" => q.was.decision = "present"
    PROVE  FlagsInv'
  <1>1. \A s \in Req : req'[s] = q
    BY MovedRequest DEF Alone
  <1> QED
    BY <1>1 DEF FlagsInv, OnlyPresentIsLate, LoadedIsStored

\* What the handlers make of a proper row is proper.
LEMMA SavedProper ==
    ASSUME NEW cur \in Row, NEW new \in Row, Proper(new)
    PROVE  Proper(Saved(cur, cur, new))
  <1> DEFINE x == Saved(cur, cur, new)
  <1>1. x.decision = new.decision /\ x.late = new.late /\ x.early = new.early
    BY DEF Saved, Flushed, Row
  <1> QED
    BY <1>1 DEF Proper

LEMMA PatchedProper ==
    ASSUME NEW was \in Row, NEW d \in Decisions \cup {"unset"}, NEW late, NEW early, NEW out,
           Proper(was)
    PROVE  Proper(Patched(was, d, late, early, out))
  <1> DEFINE decided == IF d = "unset" THEN was ELSE Decided(was, d)
  <1> DEFINE flagged == [decided EXCEPT !.late = Given(late, @, decided),
                                        !.early = Given(early, @, decided)]
  <1>1. decided \in Row
    BY DecidedType
  <1>2. Proper(decided)
    BY DEF Proper, Decided, Row
  <1> HIDE DEF decided
  <1>3. /\ flagged.decision = decided.decision
        /\ flagged.late = Given(late, decided.late, decided)
        /\ flagged.early = Given(early, decided.early, decided)
    BY <1>1 DEF Row
  <1>4. Proper(flagged)
    BY <1>2, <1>3 DEF Proper, Given
  <1>7. Patched(was, d, late, early, out) =
          CASE out = "unset" -> flagged
            [] out = "no" -> [flagged EXCEPT !.out = FALSE, !.early = FALSE]
            [] OTHER -> [flagged EXCEPT !.out = TRUE,
                           !.early = IF flagged.decision = "present"
                                     THEN IsEarlyLeave(now) ELSE @]
    BY DEF Patched, flagged, decided
  <1>8. PICK row \in Row : row = flagged
    <2>1. /\ Given(late, decided.late, decided) \in BOOLEAN
          /\ Given(early, decided.early, decided) \in BOOLEAN
      BY <1>1, GivenType DEF Row
    <2> QED
      BY <1>1, <2>1 DEF Row
  <1>9. Proper(row)
    BY <1>4, <1>8
  <1> HIDE DEF flagged
  <1>10. Proper([row EXCEPT !.out = FALSE, !.early = FALSE])
    BY <1>9 DEF Proper, Row
  <1>11. Proper([row EXCEPT !.out = TRUE,
                   !.early = IF row.decision = "present" THEN IsEarlyLeave(now) ELSE @])
    BY <1>9 DEF Proper, Row
  <1> QED
    BY <1>7, <1>8, <1>9, <1>10, <1>11

\* A check-out takes a present row.
LEMMA CheckoutIsPresent ==
    ASSUME NEW t, NEW p, NEW m, NEW i \in CheckoutRow(t, p, m)
    PROVE  t[i].decision = "present"
  <1>1. \A k \in TodaysPresent(t, p, m.day) : t[k].decision = "present"
    BY DEF TodaysPresent, PresentRows
  <1>2. \A o : \A k \in PresentFor(t, p, o) : t[k].decision = "present"
    BY DEF PresentFor, PresentRows
  <1> QED
    BY <1>1, <1>2 DEF CheckoutRow, Latest

LEMMA SelfServiceProper ==
    ASSUME Alone, TypeOK, FlagsInv, NEW r \in Req, SelfService(r) PROVE FlagsInv'
  <1>0. /\ now \in Moment /\ rows \in Seq(Row) /\ req[r] \in Requests
        /\ req[r].pc \in Loaders => req[r].row \in DOMAIN rows
    BY DEF TypeOK, Loaders
  <1>1. CASE PunchAbort(r)
    BY <1>1, MoveProper, IdleIsARequest DEF PunchAbort, End, Loaders
  <1>2. CASE KioskPunch(r)
    <2> DEFINE x == NewRow(req[r].person, req[r].occ, "present", IsLateFor(req[r].occ, now),
                           "kiosk", req[r].seen, req[r].permit)
    <2>1. x \in Row
      <3>1. req[r] \in Kiosks
        BY <1>0, <1>2, RequestTypes DEF KioskPunch
      <3> QED
        BY <1>0, <3>1, NewRowType, IsLateForType DEF Kiosks, Decisions, Handlers
    <2>2. Proper(x)
      BY DEF Proper, NewRow
    <2> QED
      BY <1>2, <2>1, <2>2, AppendOneProper DEF KioskPunch
  <1>3. ASSUME NEW match \in BOOLEAN, CheckInPunch(r, match) PROVE FlagsInv'
    <2> DEFINE x == NewRow(req[r].person, req[r].occ, IF match THEN "present" ELSE "failed",
                           match /\ IsLateFor(req[r].occ, now), "checkin", req[r].seen,
                           req[r].permit)
    <2>1. x \in Row
      <3>1. req[r] \in CheckIns
        BY <1>0, <1>3, RequestTypes DEF CheckInPunch
      <3>2. /\ (match /\ IsLateFor(req[r].occ, now)) \in BOOLEAN
            /\ (IF match THEN "present" ELSE "failed") \in Decisions /\ "checkin" \in Handlers
        BY DEF Decisions, Handlers
      <3>3. /\ req[r].person \in Person /\ req[r].occ \in MaybeOcc /\ req[r].seen \in Nat
            /\ req[r].permit \in MaybePermit
        BY <3>1 DEF CheckIns
      <3> QED
        BY <1>0, <3>2, <3>3, NewRowType
    <2>2. Proper(x)
      BY DEF Proper, NewRow
    <2> QED
      BY <1>3, <2>1, <2>2, AppendOneProper DEF CheckInPunch
  <1>4. ASSUME NEW permit \in MaybePermit, KioskArrive(r, permit) PROVE FlagsInv'
    BY <1>4, MoveProper DEF KioskArrive, Begin, Loaders
  <1>5. ASSUME NEW permit \in MaybePermit, CheckOutMismatch(r, permit) PROVE FlagsInv'
    BY <1>5, MoveProper, IdleIsARequest DEF CheckOutMismatch, End, Loaders
  <1>6. ASSUME NEW permit \in MaybePermit, NEW withFace \in BOOLEAN,
               CheckOutCommit(r, permit, withFace)
        PROVE  FlagsInv'
    <2> DEFINE new == [req[r].was EXCEPT !.out = TRUE, !.early = IsEarlyLeave(now)]
               i == req[r].row
    <2>1. /\ req[r].pc = "checkout" /\ End(r)
          /\ rows' = [rows EXCEPT ![i] = Saved(rows[i], req[r].was, new)]
      BY <1>6 DEF CheckOutCommit
    <2>2. i \in DOMAIN rows /\ req[r].was = rows[i] /\ req[r].was.decision = "present"
      BY <1>0, <2>1 DEF FlagsInv, LoadedIsStored, Loaders
    <2>3. rows[i] \in Row
      BY <1>0, <2>2, ElementOfSeq
    <2>4. new \in Row /\ Proper(new)
      BY <2>2, <2>3, IsEarlyLeaveType DEF Row, Proper
    <2> HIDE DEF new, i
    <2>5. Proper(Saved(rows[i], req[r].was, new))
      BY <2>2, <2>3, <2>4, SavedProper
    <2> QED
      BY <2>1, <2>2, <2>5, RewriteProper
  <1>7. ASSUME NEW p \in Person, CheckOutArrive(r, p) PROVE FlagsInv'
    <2>1. PICK i \in CheckoutRow(rows, p, now) :
            req' = [req EXCEPT ![r] = [pc |-> "checkout", person |-> p, row |-> i,
                                       was |-> rows[i]]]
      BY <1>7 DEF CheckOutArrive, Begin
    <2>2. rows[i].decision = "present" /\ rows' = rows
      BY <1>7, CheckoutIsPresent DEF CheckOutArrive
    <2> QED
      BY <2>1, <2>2, MoveProper
  <1>8. ASSUME NEW p \in Person, NEW o \in MaybeOcc, KioskFace(r, p, o) \/ KioskPin(r, p, o)
        PROVE  FlagsInv'
    <2>1. PICK permit : KioskAdmit(r, p, o, permit)
      BY <1>8 DEF KioskFace, KioskPin
    <2> QED
      BY <2>1, MoveProper DEF KioskAdmit, Continue, Loaders
  <1>9. ASSUME NEW p \in Person, NEW o \in MaybeOcc, NEW permit \in MaybePermit,
               CheckInArrive(r, p, o, permit)
        PROVE  FlagsInv'
    <2>1. PICK x \in Resolved(p, o, now) :
            req' = [req EXCEPT ![r] = [pc |-> "checkin", person |-> p, occ |-> x,
                                       seen |-> Len(rows), permit |-> permit]]
      BY <1>9 DEF CheckInArrive, Begin
    <2> QED
      BY <1>9, <2>1, MoveProper DEF CheckInArrive, Loaders
  <1> QED
    BY <1>1, <1>2, <1>3, <1>4, <1>5, <1>6, <1>7, <1>8, <1>9 DEF SelfService

LEMMA HrProper ==
    ASSUME Alone, TypeOK, FlagsInv, NEW r \in Req, Hr(r) PROVE FlagsInv'
  <1>0. /\ now \in Moment /\ rows \in Seq(Row) /\ req[r] \in Requests
        /\ req[r].pc \in Loaders => req[r].row \in DOMAIN rows
    BY DEF TypeOK, Loaders
  <1>1. ASSUME NEW p \in Person, NEW o \in MaybeOcc, ManualOld(r, p, o) PROVE FlagsInv'
    <2>1. PICK i \in Latest(ExistingPresent(rows, p, o, now.day)) :
            req' = [req EXCEPT ![r] = [pc |-> "manual_old", row |-> i, was |-> rows[i],
                                       occ |-> o]]
      BY <1>1 DEF ManualOld, Begin
    <2> QED
      BY <1>1, <2>1, MoveProper DEF ManualOld
  <1>2. ASSUME NEW p \in Person, NEW o \in MaybeOcc, NEW d \in HrDecisions, ManualNew(r, p, o, d)
        PROVE  FlagsInv'
    BY <1>2, MoveProper DEF ManualNew, Begin, Loaders
  <1>3. ASSUME NEW late \in BOOLEAN, NEW early \in BOOLEAN, ManualInsert(r, late, early)
        PROVE  FlagsInv'
    <2> DEFINE q == req[r]
               present == q.decision = "present"
               row == NewRow(q.person, q.occ, q.decision, late /\ present, "manual", q.seen,
                             NoPermit)
    <2>1. /\ q.person \in Person /\ q.occ \in MaybeOcc /\ q.seen \in Nat
          /\ q.decision \in Decisions /\ (late /\ present) \in BOOLEAN
          /\ (early /\ present) \in BOOLEAN
      BY <1>0, <1>3, RequestTypes DEF ManualInsert, Inserts
    <2>2. row \in Row
      BY <1>0, <2>1, NewRowType DEF Handlers, MaybePermit
    <2>3. row.decision = q.decision /\ row.late = (late /\ present)
      BY DEF NewRow
    <2> HIDE DEF row
    <2>4. [row EXCEPT !.early = early /\ present] \in Row
      BY <2>1, <2>2 DEF Row
    <2>5. Proper([row EXCEPT !.early = early /\ present])
      BY <2>2, <2>3 DEF Proper, Row
    <2>6. Insert(<<[row EXCEPT !.early = early /\ present]>>) /\ End(r)
      BY <1>3 DEF ManualInsert, row
    <2> QED
      BY <2>4, <2>5, <2>6, AppendOneProper
  <1>4. ASSUME NEW late \in BOOLEAN, NEW early \in BOOLEAN, ManualUpdate(r, late, early)
        PROVE  FlagsInv'
    <2> DEFINE q == req[r]
               given == Decided(q.was, "present")
               new == [given EXCEPT
                         !.late = late /\ TrackLate, !.early = early /\ TrackEarly,
                         !.occ = IF q.occ = NoOcc THEN @ ELSE q.occ]
    <2>1. /\ q.pc = "manual_old" /\ End(r)
          /\ rows' = [rows EXCEPT ![q.row] = Saved(rows[q.row], q.was, new)]
      BY <1>4 DEF ManualUpdate
    <2>2. q.row \in DOMAIN rows /\ q.was = rows[q.row] /\ q.occ \in MaybeOcc
      BY <1>0, <2>1, RequestTypes DEF FlagsInv, LoadedIsStored, Loaders, Updates
    <2>3. rows[q.row] \in Row
      BY <1>0, <2>2, ElementOfSeq
    <2>4. given \in Row /\ given.decision = "present"
      <3>1. given \in Row
        BY <2>2, <2>3, DecidedType DEF Decisions
      <3>2. given = [q.was EXCEPT !.decision = "present"]
        BY DEF Decided
      <3> QED
        BY <2>2, <2>3, <3>1, <3>2 DEF Row
    <2>5. TrackLate \in BOOLEAN /\ TrackEarly \in BOOLEAN
      BY PolicyAssumption
    <2> HIDE DEF given
    <2>6. (IF q.occ = NoOcc THEN given.occ ELSE q.occ) \in MaybeOcc
      BY <2>2, <2>4 DEF Row
    <2>7. new \in Row
      BY <2>4, <2>5, <2>6 DEF Row
    <2>8. new.decision = "present"
      BY <2>4 DEF Row
    <2> HIDE DEF new
    <2>9. Proper(Saved(rows[q.row], q.was, new))
      BY <2>2, <2>3, <2>7, <2>8, SavedProper DEF Proper
    <2> QED
      BY <2>1, <2>2, <2>9, RewriteProper
  <1>5. ASSUME NEW i \in DOMAIN rows, PatchLoad(r, i) PROVE FlagsInv'
    BY <1>5, MoveProper DEF PatchLoad, Begin
  <1>6. ASSUME NEW d \in HrDecisions \cup {"unset"}, NEW late, NEW early, NEW out,
               PatchCommit(r, d, late, early, out)
        PROVE  FlagsInv'
    <2> DEFINE q == req[r]
               new == Patched(q.was, d, late, early, out)
               saved == Saved(rows[q.row], q.was, new)
    <2>1. /\ q.pc = "patch" /\ End(r)
          /\ rows' = [rows EXCEPT ![q.row] =
                        [saved EXCEPT !.edited = TRUE, !.out = @ \/ out = "yes"]]
      BY <1>6 DEF PatchCommit
    <2>2. q.row \in DOMAIN rows /\ q.was = rows[q.row]
      BY <1>0, <2>1 DEF FlagsInv, LoadedIsStored, Loaders
    <2>3. rows[q.row] \in Row /\ Proper(rows[q.row])
      BY <1>0, <2>2, ElementOfSeq DEF FlagsInv, OnlyPresentIsLate, Proper
    <2>4. new \in Row /\ Proper(new)
      BY <2>2, <2>3, PatchedType, PatchedProper, AttendanceAssumption
    <2> HIDE DEF new
    <2>5. saved \in Row /\ Proper(saved)
      BY <2>2, <2>3, <2>4, SavedType, SavedProper
    <2> HIDE DEF saved
    <2>6. Proper([saved EXCEPT !.edited = TRUE, !.out = @ \/ out = "yes"])
      BY <2>5 DEF Proper, Row
    <2> QED
      BY <2>1, <2>2, <2>6, RewriteProper
  <1>7. \A f \in HrFlags : (f = "yes") \in BOOLEAN
    OBVIOUS
  <1> QED
    BY <1>1, <1>2, <1>3, <1>4, <1>5, <1>6, <1>7 DEF Hr

LEMMA SummaryProper ==
    ASSUME Alone, TypeOK, FlagsInv, NEW r \in Req, Summary(r) PROVE FlagsInv'
  <1>1. CASE SummaryRead(r)
    <2> DEFINE q == [pc |-> "digest", day |-> now.day,
                     expected |-> Missing(active \cap faces),
                     due |-> /\ NotifyLate
                             /\ now.tick >= LateTick
                             /\ digests[now.day] = 0]
    <2>1. req' = [req EXCEPT ![r] = q] /\ rows' = rows
      BY <1>1 DEF SummaryRead, Begin
    <2>2. q.pc = "digest"
      OBVIOUS
    <2> HIDE DEF q
    <2> QED
      BY <2>1, <2>2, MoveProper DEF Loaders
  <1>2. CASE SummaryDigest(r)
    <2>1. PICK q : req' = [req EXCEPT ![r] = q] /\ q.pc \in {"absent", "idle"} /\ rows' = rows
      BY <1>2, IdleIsARequest DEF SummaryDigest, Continue
    <2> QED
      BY <2>1, MoveProper DEF Loaders
  <1>3. CASE SummaryAbsent(r)
    <2>1. PICK order \in Orders(req[r].missing) :
            Insert([k \in DOMAIN order |->
                      NewRow(order[k], NoOcc, "absent", FALSE, "auto", req[r].seen, NoPermit)])
      BY <1>3 DEF SummaryAbsent
    <2> DEFINE new == [k \in DOMAIN order |->
                         NewRow(order[k], NoOcc, "absent", FALSE, "auto", req[r].seen, NoPermit)]
    <2>2. \A k \in DOMAIN new : Proper(new[k])
      BY DEF Proper, NewRow
    <2>3. new \in Seq(Row)
      <3>1. req[r] \in Absences /\ now \in Moment
        BY <1>3, RequestTypes DEF SummaryAbsent, TypeOK
      <3>2. req[r].missing \subseteq Person /\ req[r].seen \in Nat
        BY <3>1 DEF Absences
      <3>3. IsFiniteSet(req[r].missing)
        BY <3>2, FS_Subset, AttendanceAssumption
      <3>4. Cardinality(req[r].missing) \in Nat
        BY <3>3, FS_CardinalityType
      <3>5. order \in [1 .. Cardinality(req[r].missing) -> Person]
        BY <3>2 DEF Orders
      <3>6. \A k \in DOMAIN order :
              NewRow(order[k], NoOcc, "absent", FALSE, "auto", req[r].seen, NoPermit) \in Row
        BY <3>1, <3>2, <3>5, NewRowType DEF MaybeOcc, Decisions, Handlers, MaybePermit
      <3>7. new \in [1 .. Cardinality(req[r].missing) -> Row]
        BY <3>5, <3>6
      <3>8. Seq(Row) = UNION {[1 .. n -> Row] : n \in Nat}
        BY SeqDef
      <3> QED
        BY <3>4, <3>7, <3>8
    <2> HIDE DEF new
    <2> QED
      BY <1>3, <2>1, <2>2, <2>3, AppendProper DEF SummaryAbsent, new
  <1> QED
    BY <1>1, <1>2, <1>3 DEF Summary

LEMMA FlagsStep ==
    ASSUME Alone, TypeOK, FlagsInv, [Next]_vars PROVE FlagsInv'
  <1>1. ASSUME UNCHANGED <<rows, req>> PROVE FlagsInv'
    BY <1>1 DEF FlagsInv, OnlyPresentIsLate, LoadedIsStored
  <1>2. CASE Restart
    BY <1>2, IdleIsARequest DEF Restart, FlagsInv, OnlyPresentIsLate, LoadedIsStored, Loaders
  <1>3. CASE UNCHANGED vars \/ Tick
             \/ \E p \in Person : Deactivate(p) \/ Reactivate(p) \/ Enroll(p)
    BY <1>1, <1>3 DEF vars, Tick, Deactivate, Reactivate, Enroll
  <1> QED
    BY <1>2, <1>3, SelfServiceProper, HrProper, SummaryProper DEF Next

\* With one request in flight at a time no row that is not present is late or
\* left early: _apply_decision, PATCH, manual entries and check-outs keep the
\* flags together in any order.  The column-wise flush of two overlapping
\* writers is what could part them.
THEOREM SerialOnlyPresentIsLate == Alone => (Spec => []OnlyPresentIsLate)
  <1> SUFFICES ASSUME Alone PROVE Spec => []OnlyPresentIsLate
    OBVIOUS
  <1>1. Init => FlagsInv
    BY IdleIsARequest DEF Init, FlagsInv, OnlyPresentIsLate, LoadedIsStored, Loaders
  <1>2. TypeOK /\ FlagsInv /\ [Next]_vars => FlagsInv'
    BY FlagsStep
  <1>3. FlagsInv => OnlyPresentIsLate
    BY DEF FlagsInv
  <1> QED
    BY <1>1, <1>2, <1>3, TypeCorrect, PTL DEF Spec
============================================================================
