------------------------------ MODULE MCOffice ------------------------------
(***************************************************************************)
(* The parts of the server that share no state: organizations and sites,   *)
(* accounts, the login limiter, the timetable, what is read back from the  *)
(* attendance table, the trail of events, the tables themselves across     *)
(* releases, the computations that judge clips, cameras and score lists,   *)
(* and the camera of a page.  A behaviour lets one of them run ("desk")    *)
(* and keeps the others at their beginning, so that their states add up    *)
(* and do not multiply.  The timetable has two desks: at one the hours     *)
(* pass over meetings of all shapes ("timetable"), at the other the marks  *)
(* of a few meetings are written and corrected ("marks").                  *)
(***************************************************************************)
EXTENDS Workspace, Accounts, RateLimiter, Timetable, PunchLedger, Migrations, Roc, Blink,
        CapturePath, AuditTrail, Webcam, TLC

CONSTANTS t1, t2, s1, s2

VARIABLE desk

Threads == {t1, t2}
Students == {s1, s2}
Symmetric == Permutations(Threads) \cup Permutations(Students)

Morning == [start |-> 0, end |-> 1, overnight |-> FALSE]

\* A morning meeting, one over midnight, and one marked overnight that lasts
\* longer than a day.
Spans == {Morning, [start |-> 2, end |-> 0, overnight |-> FALSE],
          [start |-> 0, end |-> 2, overnight |-> TRUE]}

\* What the desk of the marks goes through: the last hour of the first day and
\* the first of the second, with meetings of the second morning, which are open
\* in both.  Either two of them with the marks of one student, who is enrolled,
\* or one with marks and enrollments of several, where the engine is all the
\* same: it tells apart only the numbers of a second meeting.
AFewMarks ==
    /\ instant <= Slots
    /\ instant < Slots - 1 => made = 0 /\ enrolled = {} /\ marks = <<>>
    /\ \A i \in DOMAIN meeting : meeting[i].day = 1 /\ meeting[i].span = Morning
    /\ \/ made <= 1 /\ engine = "sqlite"
       \/ made = 0 /\ marks = <<>>
       \/ \E p \in Student : /\ enrolled = {p} \X Course
                             /\ \A k \in DOMAIN marks : marks[k].student = p

\* A good match at the office, a weak one abroad, no match.
Shots == {[similarity |-> 65, site |-> "hq"], [similarity |-> 52, site |-> "abroad"],
          [similarity |-> 30, site |-> "none"]}

Targets == {<<0, 1>>, <<1, 3>>, <<1, 2>>}

\* A sensor, one with a single mode, and software that claims everything
Cameras == {[kind |-> "clamping", height |-> 720, fps |-> 30],
            [kind |-> "locked", height |-> 480, fps |-> 30],
            [kind |-> "accepting", height |-> 480, fps |-> 30]}

Requests == <<[kind |-> "height", value |-> 480], [kind |-> "height", value |-> 3001],
              [kind |-> "fps", value |-> 30], [kind |-> "fps", value |-> 200]>>

Desks == {"workspace", "accounts", "limiter", "timetable", "marks", "ledger", "migrations",
          "roc", "blink", "capture", "trail", "webcam"}

\* A part that does not run stands at one of its initial states.
OfficeInit ==
    /\ desk \in Desks
    /\ IF desk = "workspace" THEN WorkspaceInit
       ELSE /\ org = <<>> /\ office = {} /\ site = <<>> /\ unowned = FALSE
            /\ WorkspaceInit
    /\ IF desk = "accounts" THEN AccountsInit
       ELSE users = <<NewUser(CHOOSE name \in Username : TRUE, "admin", NoPerson)>> /\ AccountsInit
    /\ LimiterInit
    /\ engine \in (IF desk \in {"timetable", "marks"} THEN {"sqlite", "postgres"} ELSE {"sqlite"})
    /\ kernel \in (IF desk = "marks" THEN Kernels ELSE {"session"})
    /\ TimetableInit
    /\ roster \in (IF desk = "ledger" THEN {{p} : p \in Person} ELSE {Person})
    /\ LedgerInit
    /\ BlinkInit
    /\ camera \in (IF desk = "capture" THEN Camera ELSE {CHOOSE c \in Camera : TRUE})
    /\ CaptureInit
    /\ TrailInit /\ WebcamInit
    /\ IF desk = "migrations" THEN MigrationsInit
       ELSE /\ dialect = "sqlite" /\ revision = 0 /\ catalog = [s \in {Public} |-> <<>>]
            /\ tenants = {} /\ server = Down /\ stuck = 0
    /\ IF desk = "roc" THEN RocInit
       ELSE pairs = <<[score |-> 2, genuine |-> TRUE], [score |-> 1, genuine |-> FALSE]>>
            /\ point = <<>>

Workspaces == <<workspace, accounts, limiter, timetable>>
Judgements == <<evaluation, clip, capture>>
Pages == <<trail, webcam>>
Measures == <<ledger, migrations, Judgements, Pages>>

OfficeNext ==
    /\ UNCHANGED desk
    /\ \/ desk = "workspace" /\ WorkspaceNext /\ UNCHANGED <<accounts, limiter, timetable, Measures>>
       \/ desk = "accounts" /\ AccountsNext /\ UNCHANGED <<workspace, limiter, timetable, Measures>>
       \/ desk = "limiter" /\ LimiterNext /\ UNCHANGED <<workspace, accounts, timetable, Measures>>
       \/ desk = "timetable" /\ TimetableNext /\ UNCHANGED <<kernel, marks>>
            /\ UNCHANGED <<workspace, accounts, limiter, Measures>>
       \/ desk = "marks" /\ TimetableNext /\ AFewMarks'
            /\ UNCHANGED <<workspace, accounts, limiter, Measures>>
       \/ desk = "ledger" /\ LedgerNext /\ UNCHANGED <<Workspaces, migrations, Judgements, Pages>>
       \/ desk = "roc" /\ RocNext /\ UNCHANGED <<Workspaces, ledger, migrations, clip, capture, Pages>>
       \/ desk = "blink" /\ BlinkNext /\ UNCHANGED <<Workspaces, ledger, migrations, evaluation, capture, Pages>>
       \/ desk = "migrations" /\ MigrationsNext /\ UNCHANGED <<Workspaces, ledger, Judgements, Pages>>
       \/ desk = "capture" /\ CaptureNext /\ UNCHANGED <<Workspaces, ledger, migrations, evaluation, clip, Pages>>
       \/ desk = "trail" /\ TrailNext /\ UNCHANGED <<Workspaces, ledger, migrations, Judgements, webcam>>
       \/ desk = "webcam" /\ WebcamNext /\ UNCHANGED <<Workspaces, ledger, migrations, Judgements, trail>>

OfficeSpec == OfficeInit /\ [][OfficeNext]_<<desk, Workspaces, Measures>>
=============================================================================
