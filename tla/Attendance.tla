----------------------------- MODULE Attendance -----------------------------
(***************************************************************************)
(* Marking attendance: the handlers of backend/app/api/routes/attendance.py*)
(* that write the attendance table, the automatic writes of GET            *)
(* /ops/summary, and the changes to people that meet them.                 *)
(*                                                                         *)
(* check_in, check_out and kiosk_punch are coroutines on the one event     *)
(* loop of the one worker process: another coroutine runs only at their    *)
(* awaits (loop names the coroutine that has not reached its await).  The  *)
(* HR handlers and the summary are plain functions in worker threads: they *)
(* run at any moment, also between the query and the commit of another     *)
(* handler.  Every handler is split into its first reads and its commit;   *)
(* reads with neither an await nor a commit of this handler between them   *)
(* are one step.  Commits are atomic and reads see the last commit.        *)
(*                                                                         *)
(* A session writes back only the columns that differ from what it loaded  *)
(* (Saved), so two writers of one row interleave column by column.         *)
(*                                                                         *)
(* Abstracted: similarity (the match is chosen), location (a refused punch *)
(* changes nothing), source, trust score, audit log, mail text.  The challenge     *)
(* behaves as OneShotPermit says: whoever holds a passed one spends it.    *)
(***************************************************************************)
EXTENDS AttendancePolicy, FiniteSets

CONSTANTS
    Req,            \* request slots: how many requests can be in flight
    Free,           \* the event loop runs nobody
    Permit,         \* challenges passed by their users
    NoPermit,       \* no challenge was sent
    RequireLiveness, AllowPin, NotifyLate, AutoAbsent,   \* settings
    Workdays,       \* days that are neither weekend nor holiday
    HrDecisions,    \* decisions HR enters
    HrFlags,        \* optional Booleans HR enters: unset, yes, no
    MaxDay,         \* bound: the last day
    MaxRows         \* bound: the size of the table

ASSUME AttendanceAssumption ==
    /\ IsFiniteSet(Person)
    /\ Free \notin Req
    /\ NoPermit \notin Permit
    /\ {RequireLiveness, AllowPin, NotifyLate, AutoAbsent} \subseteq BOOLEAN
    /\ HrDecisions \subseteq Decisions
    /\ HrFlags \subseteq {"unset", "yes", "no"}
    /\ MaxDay \in Nat /\ MaxRows \in Nat

VARIABLES
    now,            \* the office clock
    active,         \* people with is_active
    faces,          \* people in the face gallery
    rows,           \* the attendance table, oldest first
    req,            \* requests in flight
    loop,           \* the coroutine running on the event loop, or Free
    spent,          \* challenges consumed
    digests,        \* digests[d]: absent_digest markers of day d
    autoRuns        \* autoRuns[d]: auto_absent markers of day d

people == <<active, faces>>
vars == <<now, active, faces, rows, req, loop, spent, digests, autoRuns>>

----------------------------------------------------------------------------
(* The table.  by, seen, permit and edited are history: the handler that   *)
(* inserted the row, how many rows it had seen when it looked for an       *)
(* earlier mark, the challenge it spent, and whether PATCH ever wrote it.  *)

Handlers == {"checkin", "kiosk", "manual", "auto"}

Row == [person : Person, occ : MaybeOcc, day : Nat, tick : 0 .. DayTicks - 1,
        decision : Decisions, late : BOOLEAN, early : BOOLEAN, out : BOOLEAN,
        by : Handlers, seen : Nat, permit : Permit \cup {NoPermit},
        edited : BOOLEAN]

NewRow(p, o, d, late, by, seen, permit) ==
    [person |-> p, occ |-> o, day |-> now.day, tick |-> now.tick,
     decision |-> d, late |-> late, early |-> FALSE, out |-> FALSE,
     by |-> by, seen |-> seen, permit |-> permit,
     edited |-> FALSE]

Insert(new) == /\ Len(rows) + Len(new) <= MaxRows
               /\ rows' = rows \o new

\* Flushing an object loaded as was and changed to new onto the stored cur:
\* a column is written only if it changed in the session.
Flushed(cur, was, new) == IF new = was THEN cur ELSE new

Saved(cur, was, new) ==
    [cur EXCEPT !.decision = Flushed(@, was.decision, new.decision),
                !.late = Flushed(@, was.late, new.late),
                !.early = Flushed(@, was.early, new.early),
                !.out = Flushed(@, was.out, new.out),
                !.occ = Flushed(@, was.occ, new.occ)]

----------------------------------------------------------------------------
(* Requests.                                                               *)

Idle == [pc |-> "idle"]
MaybePermit == Permit \cup {NoPermit}
CheckIns == [pc : {"checkin"}, person : Person, occ : MaybeOcc, seen : Nat,
             permit : MaybePermit]
KioskImages == [pc : {"kiosk_image"}, permit : MaybePermit]
Kiosks == [pc : {"kiosk"}, person : Person, occ : MaybeOcc, seen : Nat,
           permit : MaybePermit]
CheckOuts == [pc : {"checkout"}, person : Person, row : Nat \ {0}, was : Row]
Inserts == [pc : {"manual_new"}, person : Person, occ : MaybeOcc, seen : Nat,
            decision : Decisions]
Updates == [pc : {"manual_old"}, row : Nat \ {0}, was : Row, occ : MaybeOcc]
Patches == [pc : {"patch"}, row : Nat \ {0}, was : Row]
Digests == [pc : {"digest"}, day : 0 .. MaxDay, expected : SUBSET Person, due : BOOLEAN]
Absences == [pc : {"absent"}, day : 0 .. MaxDay, missing : SUBSET Person, seen : Nat]

Requests == {Idle} \cup CheckIns \cup KioskImages \cup Kiosks \cup CheckOuts
              \cup Inserts \cup Updates \cup Patches \cup Digests \cup Absences

Begin(r, state) == req[r] = Idle /\ req' = [req EXCEPT ![r] = state]
Continue(r, state) == req' = [req EXCEPT ![r] = state]
End(r) == req' = [req EXCEPT ![r] = Idle]

\* Faulty: the challenge is not remembered as spent.
SpendAgain(permit) ==
    /\ IF RequireLiveness THEN permit \in Permit \ spent ELSE permit = NoPermit
    /\ UNCHANGED spent

\* _require_live: with liveness on, the punch spends a passed challenge.
Spend(permit) ==
    IF RequireLiveness
    THEN /\ permit \in Permit \ spent
         /\ spent' = spent \cup {permit}
    ELSE permit = NoPermit /\ UNCHANGED spent

----------------------------------------------------------------------------
(* POST /attendance/check-in.                                              *)

\* Faulty: no look for an earlier mark.
CheckInArriveBlind(r, p, asked, permit) ==
    /\ loop = Free
    /\ p \in active \cap faces
    /\ \E o \in Resolved(p, asked, now) :
         Begin(r, [pc |-> "checkin", person |-> p, occ |-> o,
                   seen |-> Len(rows), permit |-> permit])
    /\ Spend(permit)
    /\ UNCHANGED <<now, people, rows, loop, digests, autoRuns>>

\* Everything up to "await read_image": the person is active and enrolled,
\* the occurrence is settled, no earlier mark is found, the challenge is
\* spent.  Every refusal before that leaves no trace.
CheckInArrive(r, p, asked, permit) ==
    /\ loop = Free
    /\ p \in active \cap faces
    /\ \E o \in Resolved(p, asked, now) :
         /\ ExistingPresent(rows, p, o, now.day) = {}
         /\ Begin(r, [pc |-> "checkin", person |-> p, occ |-> o,
                      seen |-> Len(rows), permit |-> permit])
    /\ Spend(permit)
    /\ UNCHANGED <<now, people, rows, loop, digests, autoRuns>>

\* The image is in and embedded: the row is inserted, present on a match.
CheckInPunch(r, match) ==
    LET q == req[r] IN
    /\ q.pc = "checkin"
    /\ loop = Free
    /\ Insert(<<NewRow(q.person, q.occ, IF match THEN "present" ELSE "failed",
                       match /\ IsLateFor(q.occ, now), "checkin", q.seen, q.permit)>>)
    /\ End(r)
    /\ UNCHANGED <<now, people, loop, spent, digests, autoRuns>>

\* A refusal after the wait: the image cannot be read or shows no single
\* face, nobody is recognized, a mark exists by now.
PunchAbort(r) ==
    /\ req[r].pc \in {"checkin", "kiosk_image", "checkout"}
    /\ loop = Free
    /\ End(r)
    /\ UNCHANGED <<now, people, rows, loop, spent, digests, autoRuns>>

----------------------------------------------------------------------------
(* POST /attendance/kiosk.                                                 *)

\* With an image: the staff member's challenge is spent, then the upload is
\* awaited.
KioskArrive(r, permit) ==
    /\ loop = Free
    /\ Begin(r, [pc |-> "kiosk_image", permit |-> permit])
    /\ Spend(permit)
    /\ UNCHANGED <<now, people, rows, loop, digests, autoRuns>>

\* Faulty: an await between the query and the commit.
KioskAdmitAwaits(r, p, o, permit) ==
    /\ p \in active
    /\ Kernel \in Rostered => o # NoOcc
    /\ ExistingPresent(rows, p, o, now.day) = {}
    /\ Continue(r, [pc |-> "kiosk", person |-> p, occ |-> o, seen |-> Len(rows),
                    permit |-> permit])
    /\ UNCHANGED <<now, people, rows, loop, spent, digests, autoRuns>>

\* The person is known (by face or PIN) and has no mark yet: from this query
\* to the commit there is no await, the loop is kept.
KioskAdmit(r, p, o, permit) ==
    /\ p \in active
    /\ Kernel \in Rostered => o # NoOcc
    /\ ExistingPresent(rows, p, o, now.day) = {}
    /\ loop' = r
    /\ Continue(r, [pc |-> "kiosk", person |-> p, occ |-> o, seen |-> Len(rows),
                    permit |-> permit])
    /\ UNCHANGED <<now, people, rows, spent, digests, autoRuns>>

KioskFace(r, p, o) ==
    /\ req[r].pc = "kiosk_image"
    /\ loop = Free
    /\ p \in faces
    /\ KioskAdmit(r, p, o, req[r].permit)

KioskPin(r, p, o) ==
    /\ req[r] = Idle
    /\ loop = Free
    /\ AllowPin
    /\ KioskAdmit(r, p, o, NoPermit)

KioskPunch(r) ==
    LET q == req[r] IN
    /\ q.pc = "kiosk"
    /\ Insert(<<NewRow(q.person, q.occ, "present", IsLateFor(q.occ, now),
                       "kiosk", q.seen, q.permit)>>)
    /\ loop' = Free
    /\ End(r)
    /\ UNCHANGED <<now, people, spent, digests, autoRuns>>

----------------------------------------------------------------------------
(* POST /attendance/check-out.                                             *)

CheckOutArrive(r, p) ==
    /\ loop = Free
    /\ AllowCheckout
    /\ p \in active
    /\ \E i \in CheckoutRow(rows, p, now) :
         /\ ~rows[i].out
         /\ Begin(r, [pc |-> "checkout", person |-> p, row |-> i,
                      was |-> rows[i]])
    /\ UNCHANGED <<now, people, rows, loop, spent, digests, autoRuns>>

\* The form is in; with an image the face must be enrolled and a challenge
\* is spent.  checked_out_at is always written, early_leave if it changed.
CheckOutCommit(r, permit, withFace) ==
    LET q == req[r] IN
    /\ q.pc = "checkout"
    /\ loop = Free
    /\ IF withFace THEN q.person \in faces /\ Spend(permit)
                   ELSE permit = NoPermit /\ UNCHANGED spent
    /\ rows' = [rows EXCEPT ![q.row] =
                  Saved(@, q.was, [q.was EXCEPT !.out = TRUE,
                                                !.early = IsEarlyLeave(now)])]
    /\ End(r)
    /\ UNCHANGED <<now, people, loop, digests, autoRuns>>

\* The face does not match or is not found in the image: the challenge is gone.
CheckOutMismatch(r, permit) ==
    /\ req[r].pc = "checkout"
    /\ loop = Free
    /\ req[r].person \in faces
    /\ Spend(permit)
    /\ End(r)
    /\ UNCHANGED <<now, people, rows, loop, digests, autoRuns>>

----------------------------------------------------------------------------
(* POST /attendance/manual and PATCH /attendance/{id}, in worker threads.  *)

\* Faulty: the flags of a mark survive its withdrawal.
DecidedOnly(row, d) == [row EXCEPT !.decision = d]

\* _apply_decision
Decided(row, d) ==
    IF d = "present" THEN [row EXCEPT !.decision = d]
    ELSE [row EXCEPT !.decision = d, !.late = FALSE, !.early = FALSE, !.out = FALSE]

\* Only a "present" entry looks for an earlier mark; classes and shifts need
\* an occurrence for that.
ManualNew(r, p, o, d) ==
    /\ d = "present" => /\ Kernel \in Rostered => o # NoOcc
                        /\ ExistingPresent(rows, p, o, now.day) = {}
    /\ Begin(r, [pc |-> "manual_new", person |-> p, occ |-> o,
                 seen |-> Len(rows), decision |-> d])
    /\ UNCHANGED <<now, people, rows, loop, spent, digests, autoRuns>>

ManualOld(r, p, o) ==
    /\ Kernel \in Rostered => o # NoOcc
    /\ \E i \in Latest(ExistingPresent(rows, p, o, now.day)) :
         Begin(r, [pc |-> "manual_old", row |-> i, was |-> rows[i], occ |-> o])
    /\ UNCHANGED <<now, people, rows, loop, spent, digests, autoRuns>>

ManualInsert(r, late, early) ==
    LET q == req[r]
        present == q.decision = "present"
    IN /\ q.pc = "manual_new"
       /\ Insert(<<[NewRow(q.person, q.occ, q.decision, late /\ present,
                           "manual", q.seen, NoPermit)
                      EXCEPT !.early = early /\ present]>>)
       /\ End(r)
       /\ UNCHANGED <<now, people, loop, spent, digests, autoRuns>>

ManualUpdate(r, late, early) ==
    LET q == req[r]
        new == [Decided(q.was, "present") EXCEPT
                  !.late = late /\ TrackLate, !.early = early /\ TrackEarly,
                  !.occ = IF q.occ = NoOcc THEN @ ELSE q.occ]
    IN /\ q.pc = "manual_old"
       /\ rows' = [rows EXCEPT ![q.row] = Saved(@, q.was, new)]
       /\ End(r)
       /\ UNCHANGED <<now, people, loop, spent, digests, autoRuns>>

PatchLoad(r, i) ==
    /\ Begin(r, [pc |-> "patch", row |-> i, was |-> rows[i]])
    /\ UNCHANGED <<now, people, rows, loop, spent, digests, autoRuns>>

\* The optional fields of AttendanceUpdate, applied in the handler's order.
Given(flag, value, row) == IF flag = "unset" \/ row.decision # "present" THEN value
                           ELSE flag = "yes"

Patched(was, d, late, early, out) ==
    LET decided == IF d = "unset" THEN was ELSE Decided(was, d)
        flagged == [decided EXCEPT !.late = Given(late, @, decided),
                                   !.early = Given(early, @, decided)]
    IN CASE out = "unset" -> flagged
         [] out = "no" -> [flagged EXCEPT !.out = FALSE, !.early = FALSE]
         [] OTHER -> [flagged EXCEPT !.out = TRUE,
                        !.early = IF flagged.decision = "present"
                                  THEN IsEarlyLeave(now) ELSE @]

\* A fresh checked_out_at is a new timestamp, hence always written.
PatchCommit(r, d, late, early, out) ==
    LET q == req[r]
        saved == Saved(rows[q.row], q.was, Patched(q.was, d, late, early, out))
    IN /\ q.pc = "patch"
       /\ out = "yes" => AllowCheckout
       /\ rows' = [rows EXCEPT ![q.row] =
                     [saved EXCEPT !.edited = TRUE, !.out = @ \/ out = "yes"]]
       /\ End(r)
       /\ UNCHANGED <<now, people, loop, spent, digests, autoRuns>>

----------------------------------------------------------------------------
(* GET /ops/summary, in a worker thread; on a workday, for the kernels     *)
(* that expect people.                                                     *)

\* Faulty: everybody expected counts as missing.
MissingAll(expected) == expected

Missing(expected) ==
    {p \in expected : TodaysPresent(rows, p, now.day) = {}}

\* Faulty: the marker of the digest is not looked for.
SummaryReadUnmarked(r) ==
    /\ now.day \in Workdays
    /\ Kernel # "visit"
    /\ Begin(r, [pc |-> "digest", day |-> now.day,
                 expected |-> Missing(active \cap faces),
                 due |-> NotifyLate /\ now.tick >= LateTick])
    /\ UNCHANGED <<now, people, rows, loop, spent, digests, autoRuns>>

\* The lists of the dashboard, and the marker query of
\* _maybe_notify_absentees.
SummaryRead(r) ==
    /\ now.day \in Workdays
    /\ Kernel # "visit"
    /\ Begin(r, [pc |-> "digest", day |-> now.day,
                 expected |-> Missing(active \cap faces),
                 due |-> /\ NotifyLate
                         /\ now.tick >= LateTick
                         /\ digests[now.day] = 0])
    /\ UNCHANGED <<now, people, rows, loop, spent, digests, autoRuns>>

\* The digest goes out with its marker; then the queries of
\* _maybe_auto_absent: its marker and, per person, _present_on.
SummaryDigest(r) ==
    LET q == req[r]
        close == AutoAbsent /\ now.tick >= CloseTick /\ autoRuns[now.day] = 0
    IN /\ q.pc = "digest"
       /\ digests' = IF q.due THEN [digests EXCEPT ![q.day] = @ + 1] ELSE digests
       /\ Continue(r, IF close THEN [pc |-> "absent", day |-> now.day,
                                     missing |-> Missing(q.expected),
                                     seen |-> Len(rows)]
                      ELSE Idle)
       /\ UNCHANGED <<now, people, rows, loop, spent, autoRuns>>

Orders(S) == {f \in [1 .. Cardinality(S) -> S] :
                \A i, j \in DOMAIN f : f[i] = f[j] => i = j}

\* One commit: an absent row per missing person, and the marker.
SummaryAbsent(r) ==
    LET q == req[r] IN
    /\ q.pc = "absent"
    /\ \E order \in Orders(q.missing) :
         Insert([k \in DOMAIN order |->
                   NewRow(order[k], NoOcc, "absent", FALSE, "auto", q.seen, NoPermit)])
    /\ autoRuns' = [autoRuns EXCEPT ![q.day] = @ + 1]
    /\ End(r)
    /\ UNCHANGED <<now, people, loop, spent, digests>>

----------------------------------------------------------------------------
(* People and the rest of the world.                                       *)

\* DELETE /persons/{id}: inactive, and the face is forgotten.
Deactivate(p) ==
    /\ active' = active \ {p}
    /\ faces' = faces \ {p}
    /\ UNCHANGED <<now, rows, req, loop, spent, digests, autoRuns>>

\* POST /persons/{id}/reactivate: a face whose images are still stored is
\* put back.  What is stored is not tracked here.
Reactivate(p) ==
    /\ active' = active \cup {p}
    /\ faces' \in {faces, faces \cup {p}}
    /\ UNCHANGED <<now, rows, req, loop, spent, digests, autoRuns>>

\* The end of POST /persons/{id}/enroll.  It tested is_active before it
\* awaited the images, so the person may be inactive by now.
Enroll(p) ==
    /\ faces' = faces \cup {p}
    /\ UNCHANGED <<now, active, rows, req, loop, spent, digests, autoRuns>>

\* The worker dies and starts again: requests in flight are lost, the table
\* is not, and rebuild() loads the stored faces of active people.
Restart ==
    /\ req' = [r \in Req |-> Idle]
    /\ loop' = Free
    /\ faces' \in SUBSET active
    /\ UNCHANGED <<now, active, rows, spent, digests, autoRuns>>

Tick ==
    /\ now' = IF now.tick + 1 < DayTicks THEN [now EXCEPT !.tick = @ + 1]
              ELSE [day |-> now.day + 1, tick |-> 0]
    /\ now'.day <= MaxDay
    /\ UNCHANGED <<people, rows, req, loop, spent, digests, autoRuns>>

----------------------------------------------------------------------------
Init ==
    /\ now = [day |-> 0, tick |-> 0]
    /\ active = Person
    /\ faces \in SUBSET Person
    /\ rows = <<>>
    /\ req = [r \in Req |-> Idle]
    /\ loop = Free
    /\ spent = {}
    /\ digests = [d \in 0 .. MaxDay |-> 0]
    /\ autoRuns = [d \in 0 .. MaxDay |-> 0]

SelfService(r) ==
    \/ PunchAbort(r)
    \/ KioskPunch(r)
    \/ \E match \in BOOLEAN : CheckInPunch(r, match)
    \/ \E permit \in MaybePermit :
         \/ KioskArrive(r, permit)
         \/ CheckOutMismatch(r, permit)
         \/ \E withFace \in BOOLEAN : CheckOutCommit(r, permit, withFace)
    \/ \E p \in Person :
         \/ CheckOutArrive(r, p)
         \/ \E o \in MaybeOcc :
              \/ KioskFace(r, p, o)
              \/ KioskPin(r, p, o)
              \/ \E permit \in MaybePermit : CheckInArrive(r, p, o, permit)

Hr(r) ==
    \/ \E p \in Person, o \in MaybeOcc :
         \/ ManualOld(r, p, o)
         \/ \E d \in HrDecisions : ManualNew(r, p, o, d)
    \/ \E late, early \in {f = "yes" : f \in HrFlags} :
         ManualInsert(r, late, early) \/ ManualUpdate(r, late, early)
    \/ \E i \in DOMAIN rows : PatchLoad(r, i)
    \/ \E d \in HrDecisions \cup {"unset"}, late, early, out \in HrFlags :
         PatchCommit(r, d, late, early, out)

Summary(r) == SummaryRead(r) \/ SummaryDigest(r) \/ SummaryAbsent(r)

Next ==
    \/ Tick
    \/ Restart
    \/ \E p \in Person : Deactivate(p) \/ Reactivate(p) \/ Enroll(p)
    \/ \E r \in Req : SelfService(r) \/ Hr(r) \/ Summary(r)

Spec == Init /\ [][Next]_vars

----------------------------------------------------------------------------
(* Properties.                                                             *)

\* Every variable stays in its type; a request names rows that exist.
TypeOK ==
    /\ now \in Moment /\ now.day <= MaxDay
    /\ active \subseteq Person /\ faces \subseteq Person
    /\ rows \in Seq(Row)
    /\ req \in [Req -> Requests]
    /\ \A r \in Req : req[r].pc \in {"checkout", "manual_old", "patch"} =>
                        req[r].row \in DOMAIN rows
    /\ loop \in Req \cup {Free}
    /\ spent \subseteq Permit
    /\ digests \in [0 .. MaxDay -> Nat] /\ autoRuns \in [0 .. MaxDay -> Nat]

\* A mark: a present row that HR has not edited.
Mark(i) == rows[i].decision = "present" /\ ~rows[i].edited

\* Two rows for which the organization wants one mark: the same day in the
\* daily kernels, the same occurrence in the others.
SameScope(i, j) ==
    /\ rows[i].person = rows[j].person
    /\ IF Kernel \in Daily THEN rows[i].day = rows[j].day
       ELSE rows[i].occ = rows[j].occ /\ rows[i].occ # NoOcc

Repeats(i, j) == i < j /\ Mark(i) /\ Mark(j) /\ SameScope(i, j)

\* A second mark of a person in one scope exists only if the request that
\* made it had looked for an earlier mark before the first was committed:
\* overlap is the only way to get a duplicate, across check-in, kiosk and
\* HR entry, midnight, restarts and re-enrollment.
DuplicatesOverlap ==
    \A i, j \in DOMAIN rows : Repeats(i, j) => rows[j].seen < i

\* The kiosk has no await between its query and its commit, so a kiosk punch
\* never repeats a mark made by another coroutine.
KioskNeverSecond ==
    \A i, j \in DOMAIN rows :
        Repeats(i, j) /\ rows[i].by \in {"checkin", "kiosk"} => rows[j].by # "kiosk"

\* One passed challenge backs at most one row.
OneRowPerPermit ==
    \A i, j \in DOMAIN rows :
        rows[i].permit = rows[j].permit /\ i # j => rows[i].permit = NoPermit

\* A person is marked absent automatically only if no mark of that day was
\* in the table when the summary looked.
AbsentUnlessMarked ==
    \A i, j \in DOMAIN rows :
        /\ i < j /\ rows[j].by = "auto" /\ Mark(i)
        /\ rows[i].person = rows[j].person /\ rows[i].day = rows[j].day
        => rows[j].seen < i

\* "One present mark per local calendar day" (docs/PRD.md, ATT-3), counting
\* only rows HR has not edited.
OneMark == \A i, j \in DOMAIN rows : ~Repeats(i, j)

\* Each day's absence digest and each day's automatic absences happen once.
MarkersOnce == \A d \in 0 .. MaxDay : digests[d] <= 1 /\ autoRuns[d] <= 1

\* Whoever is not present is neither late nor leaving early.
OnlyPresentIsLate ==
    \A i \in DOMAIN rows : rows[i].decision # "present" => ~rows[i].late /\ ~rows[i].early
============================================================================
