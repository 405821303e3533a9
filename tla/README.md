# Sentinel face attendance: TLA+ specifications

Sentinel is a face-attendance service: people punch in with their face after a
blink challenge, a shared kiosk takes punches by face or PIN, HR corrects the
records, and a dashboard writes the absences of those who did not come. The
backend (`backend/app`) is FastAPI and SQLModel; the front end
(`frontend/src`) is React.

This directory holds TLA+ models of the parts where order and overlap decide
what ends up in the table, the TLC configurations that check them, and proofs
that the TLA+ proof system (TLAPS) checks. Paths below are relative to the root
of the repository.

* [1 The system](#1-the-system)
* [2 How the process runs](#2-how-the-process-runs-and-what-a-step-is)
* [3 The modules and the code](#3-the-modules-and-the-code)
* [4 What is checked](#4-what-is-checked)
* [5 What is proved](#5-what-is-proved)
* [6 Where code and documents disagree](#6-where-code-and-documents-disagree)
* [7 What is not modelled](#7-what-is-not-modelled)
* [8 Plan](#8-plan)
* [9 Running it](#9-running-it)

## 1 The system

| Component | State it keeps | Operations | What makes it hard | What makes it correct |
|---|---|---|---|---|
| Attendance handlers (`api/routes/attendance.py`) | `attendance` table; rows hold person, occurrence, decision, late and early flags, `checked_out_at` | check-in, check-out, kiosk punch, manual entry, PATCH; list, today, me, export | look-then-insert with an `await` between; stale ORM objects written back; refusals after a challenge was spent | one mark per day or occurrence; a passed challenge backs one row; who is not present is not late |
| Attendance policy and office clock (`core/attendance_policy.py`, `core/clock.py`) | none (pure queries) | existing mark, check-out row, open occurrences, lateness | the scope of "already marked" depends on the kernel; shifts cross midnight | a repeat is recognised in its own scope |
| Dashboard (`api/routes/ops.py`) | `absent_digest` and `auto_absent` audit events, absent rows | `GET /ops/summary` (writes!), board, spoof views | a GET that mails and inserts, in worker threads, once per poll | one digest and one run a day; nobody with a mark is marked absent |
| Liveness challenges (`liveness/service.py`, `api/routes/liveness.py`) | one dict of challenges in memory | issue, bind, check, consume, result, purge | threads and coroutines on one dict; expiry in the middle of a punch; restarts | a challenge is passed once, spent once, by its user, in time |
| Face gallery (`gallery/index.py`) | `_matrix`, `person_ids`, `org_ids`, `names`, `counts` in parallel | add, remove, rename, rebuild, search, probe | parallel containers without a lock | row *i* of every container is the same person |
| People (`api/routes/persons.py`) | `person`, `faceembedding`, logins, the gallery | create, import, update, login, deactivate, reactivate, enroll | tables and gallery change one after the other, from rows read at different times | the gallery holds the active people with images, under their current name |
| Accounts (`api/routes/auth.py`, `users.py`, `_common.py`, `core/roles.py`) | `user`, `person` | register, staff accounts, roles, person logins | uniqueness by look and insert; two commits in one registration; two administrators at once | an administrator remains; who registered has a login |
| Rate limiter (`core/rate_limit.py`) | stamps per key in memory | `check` | read-modify-write in threads; the edge of the window | at most *n* calls per window |
| Schedule (`api/routes/schedule.py`) | offerings, occurrences, enrollments | create, delete, enroll, drop, statistics | meetings over midnight; numbers that outlive their meeting; many writers of the marks that are counted | an open meeting is found; a mark counts for its meeting, once |
| Sites and fence (`schedule.py`, `core/geo.py`) | `site` | create, edit, delete; the fence of a punch | the single default is kept by clearing the others | one default site |
| Organizations and tenancy (`api/routes/orgs.py`, `db/tenancy.py`, `api/deps.py`) | `organization` rows, one Postgres schema each, `search_path` of every pooled connection | `SET search_path`, commit, rollback, close, create, provision | the path belongs to a connection, the request to a session that changes connections | rows of an organization are in its schema |
| Settings (`api/routes/settings.py`), organization types (`attendance_policy.py`) | columns of `organization` | read, update, apply a preset | a type switches the fence and the kernel | a boot changes nobody's fence |
| Database session and boot (`db/session.py`, `main.py`, `auth.seed_admin`) | schema and seed rows | `init_db`, seeding, repairs, default sites | a dozen commits, run again after a crash at any of them | a boot that gets through hands over a complete database |
| Migrations (`alembic/versions`, `env.py`) | tables and columns of `public` and of each organization | upgrade, downgrade, SQLite repairs, provisioning | copies of tables made at different releases | every served table has every column of the models |
| Blink (`liveness/blink.py`), capture path (`liveness/capture_path.py`) | none | judge a clip; judge how a camera reacted | three tests with thresholds; missing readings | a still face never blinks; an honest camera is not suspected |
| Trust and behaviour (`risk/fusion.py`, `risk/behaviour.py`) | none; reads the attendance table | fuse signals; judge a punch by its history | rules that add up, damping, veto | a newcomer is not taken for a fraud |
| Evaluation (`eval/metrics.py`) | none | ROC curve, operating point | tied scores | the reported point is what the threshold does |
| Events and spoof alerts (`api/routes/events.py`, `liveness/alerts.py`, lists of `attendance.py` and `ops.py`) | `accessevent`, `spoofalert` | append, list, export, mark as seen | the limit is applied before the range of days | a list is complete or at its limit |
| Front end camera (`hooks/useWebcam.ts`) | stream, promise, generation | start, stop | promises that resolve after a stop | no camera runs that nobody wants |
| Front end session, kiosk and pages | token, timers, forms | rendering over the API | timers | the server decides |
| Pipeline, encoders, texture, training, assistant, mail, scripts | models, files | numeric work, text | floating point, I/O | out of a model checker's reach |

How they meet: a punch asks the liveness service to spend a challenge, awaits
the upload, asks the gallery (kiosk) or the stored centroid (check-in) who it
is, asks the policy whether a mark exists, and commits a row. The people
handlers change `is_active` and the gallery under it. HR handlers and the
dashboard write the same rows from worker threads. The dashboard, the lists and
the behaviour score read them back. Which database all of this is in, and what
tables it has, is settled by a boot that migrates, repairs and seeds, and by the
`search_path` of the connection. Everything but the tables is in the memory of
one process and is lost with it.

## 2 How the process runs, and what a step is

The container starts `uvicorn ... --workers 1` (`docker/api.Dockerfile`). So
there is one event loop and one pool of worker threads:

* `async def` handlers (check-in, check-out, kiosk, `/liveness/check`, enroll,
  identify, verify) run on the event loop. Another coroutine runs only when
  the running one is suspended in an `await`. The awaits are `read_image` (it
  suspends when the upload was spooled to disk) and `request.form()`. In the
  models `loop` names the coroutine that has not reached its await.
* `def` handlers (manual entry, PATCH, `/ops/summary`, `/liveness/challenge`,
  the people handlers but enroll) run in worker threads. The operating system
  may stop a thread anywhere, so their steps interleave with everything.

A handler is one step for its reads up to an await or to its commit, and one
step for its writes. A commit is atomic. Sessions are created with
`expire_on_commit=False` (`db/session.py`), and at the flush SQLAlchemy writes
only the columns whose value changed in the session, so a stale object
overwrites some columns and leaves others alone. `Saved` in `Attendance` is
that rule: it is what makes two writers of one row mix.

A refused request that changed nothing is not a step. A refusal that comes
after a change (a spent challenge, a consumed await) is a step of its own:
`PunchAbort`, `CheckOutMismatch`, `CheckAbort`, `CheckRefuse`,
`ConsumeRefuse`.

A restart forgets all requests in flight and all memory, and keeps the tables.

## 3 The modules and the code

| Module | Models | State | Actions |
|---|---|---|---|
| `OneShotPermit` | what a challenge promises, without clocks, threads or purging | `permit` | Offer, Decide, Spend, Lapse |
| `LivenessChallenge` | `LivenessService` with its callers | `sessions` (the dict), `req` (requests in flight), `loop`, `now`; history `verdict`, `uses` | see below |
| `AttendancePolicy` | `attendance_policy.py`, `clock.py` | none | operators |
| `Attendance` | the writing handlers of `attendance.py`, the writes of `/ops/summary`, deactivate, reactivate and enroll | `rows`, `active`, `faces`, `req`, `loop`, `spent`, `digests`, `autoRuns`, `now` | see below |
| `People` | the writing handlers of `persons.py` | `person`, `stored` (the tables), `gallery`, `req`, `loop`; history `alone`, `torn`, `kept` | see below |
| `Tenancy` | `db/tenancy.py` on Postgres with its callers | `orgs`, `schemas`, `path`, `base` (per connection), `free` (the pool), `req`; history `astray`, `shared` | see below |
| `FaceGallery` | `gallery/index.py` | `matrix`, `pids`, `orgs`, `names`, `call`; history `raised`, `wanted` | one per container touched |
| `OrgPresets` | the organization types and their presets | none | operators |
| `Workspace` | boot and seeding, organizations, sites, settings, the fence | `office`, `org`, `schema`, `site`, `lastSite`, `unowned`, `admin`, `boot`, `work` (what each thread is doing), `calls`; history `raced` | see below |
| `Accounts` | people's and staff's logins | `people`, `users`, `form` (what each thread is doing), `forms`; history `overtaken`, `died`, `byPlatform` | look, commit, refuse per handler |
| `RateLimiter` | `SlidingWindowLimiter` for one key | `clock`, `hits`, `call`; history `admitted`, `overlapped` | arrive, look, store |
| `Timetable` | enrollments, meetings, and the rows of `attendance` as far as they name a meeting | `instant`, `engine`, `kernel`, `meeting`, `made`, `enrolled`, `marks`; history `born`, `moved`, `checked` in a row | one per request |
| `PresenceTrust` | `risk/fusion.py` | none | operators |
| `PunchLedger` | what the dashboard and the behaviour score read from the attendance table | `hour`, `rows`, `roster`, `closed` | one per writer of rows |
| `Migrations` | tables and columns across releases | `dialect`, `revision`, `catalog`, `tenants`, `server`; history `stuck` | boot steps, revisions, provisioning |
| `Roc`, `Blink`, `CapturePath` | `eval/metrics.py`, `liveness/blink.py`, `liveness/capture_path.py` | the input under way and the verdict | collect an input, judge it |
| `AuditTrail` | events, spoof alerts and every list with a limit | `events`, `alerts`, `check`, `localDay` | one per commit, and one per midnight |
| `Webcam` | `hooks/useWebcam.ts` | `genRef`, `streamRef`, `startingRef`, `ready` of the hook, `element`, `running`, `pending`; history `wanted`, `crossed`, `lost` | one per stretch between awaits |
| `MCOffice` | eleven of the modules above side by side | `desk` | those of the module at the desk |
| `MC...` | constants for TLC | | |
| `...Proofs` | theorems | | |

`PROJECT.json` maps every definition to the lines it stands for.

### LivenessChallenge

`_purge` runs at the head of `issue`, `check` and `consume_live`, in threads and
on the loop, over one dict with no lock. It is a scan that
collects expired keys (`Scan`) and then one deletion per key (`PurgeDelete`);
a key that another purge deleted meanwhile is a `KeyError`.

| Code | Actions |
|---|---|
| `POST /liveness/challenge` → `issue`, `bind_user` | `IssueStart`, `PurgeDelete`, `IssueRegister` |
| `POST /liveness/check` → `bind_user`, await frames, `check` | `CheckBind`, `CheckAbort`, `CheckStart`, `PurgeDelete`, `CheckRefuse`, `CheckResolve` |
| `_require_live` → `consume_live` | `ConsumeStart`, `PurgeDelete`, `ConsumeGrant`, `ConsumeRefuse` |
| `_score_trust` → `result_for` | `Score`, which reads `ResultFor` |
| process restart | `Restart` |

The frames are one Boolean, chosen freely: everything the properties say holds
whatever the detector decides. Ids are never reused (`secrets.token_urlsafe`).

### AttendancePolicy and Attendance

`AttendancePolicy` translates `find_existing_present`, `todays_present`,
`present_for_occurrence`, `checkout_row`, `open_occurrences`,
`resolve_occurrence`, `is_late_for` and the clock. Time is a day number and a
tick of the office day. The kernel (`daily_presence`, `daily_inout`,
`session`, `shift`, `visit`) is a constant: a run has one.

| Code | Actions of `Attendance` |
|---|---|
| `check_in` | `CheckInArrive` up to `await read_image`; `CheckInPunch` from the image to the commit; `PunchAbort` |
| `kiosk_punch` with an image | `KioskArrive` (challenge spent), `KioskFace`, `KioskPunch` |
| `kiosk_punch` with a PIN | `KioskPin`, `KioskPunch` |
| `check_out` | `CheckOutArrive`, `CheckOutCommit`, `CheckOutMismatch`, `PunchAbort` |
| `manual_entry` | `ManualNew`/`ManualInsert`, `ManualOld`/`ManualUpdate` |
| `update_attendance` | `PatchLoad`, `PatchCommit` |
| `summary` with `_maybe_notify_absentees` and `_maybe_auto_absent` | `SummaryRead`, `SummaryDigest`, `SummaryAbsent` |
| `deactivate`, `reactivate`, `enroll` | `Deactivate`, `Reactivate`, `Enroll`, one step each |

Abstractions, all of them towards more behaviour:

* the match against the face is chosen; geofence, similarity and trust only
  refuse or decorate;
* `LateTick` and `CloseTick` are one for everybody; the code lets a person
  have a shift start and end of their own;
* `summary` reads the 800 newest rows in the code and the whole table here;
* `check_out` without a multipart body has no await; the model always allows
  one;
* the challenge is a permit that is passed and then spent
  (`OneShotPermit`, which `LivenessChallenge` implements);
* `Enroll` may put the face of a person who is inactive by now into the
  gallery, and `Reactivate` may or may not put one back.

`allow_multiple_present_per_day` is stored with the settings and no handler
reads it, so it is not in the model.

History variables and columns: `by`, `seen`, `permit` and `edited` of a row say
who wrote it, how long the table was when its writer looked, the challenge it
spent and whether PATCH touched it. No guard reads them.

### People

`Attendance` takes deactivate, reactivate and enroll as one step each. `People`
cuts the same handlers, and rename and create, at every transaction, every
query that is used later and every gallery call:

| Code | Actions |
|---|---|
| `create_person`, a row of `import_persons`, the first commit of `register` | `Create` |
| `update_person` with a new name | `UpdateLoad`, `UpdateGallery`, then `UpdateCommit` or `UpdateConflict` |
| `deactivate_person` | `DeactivateLoad`, `DeactivateSelect`, `DeactivateCommit`, `DeactivateForget` |
| `reactivate_person` | `ReactivateLoad`, `ReactivateCommit`, `Reload`, `Collect`, `Put` |
| `enroll` | `EnrollLoad`, `EnrollAbort` or `EnrollCommit`, `Reload`, `Collect`, `Put`, the last four without leaving the event loop |
| boot (`rebuild`) | `Restart` |

The update is told to the gallery before the flush (`UpdateConflict` leaves the
new name there), `is_active` is written only if the loaded value differs
(`was`), and the embeddings that deactivation deletes are the ones its query
found. A centroid is the set of images it is the mean of, so a stale centroid
is a different set. The gallery is a function here; its containers are
`FaceGallery`'s.

History: `alone` are the requests in flight that met no other on their person;
`torn` and `kept` are the people for whom an overlap or a refused rename may
have left the gallery or the embeddings wrong, until a restart (`torn`) or an
undisturbed enrollment or deactivation mends them. No guard reads them.

### FaceGallery

Every assignment to one of the parallel containers is a step, because
`remove_person` and `set_name` are called from worker threads while `search`
and `embedding_of` run on the event loop. `add_person` first removes:
`AddPerson` is an edit that cuts and then grows. `search` multiplies with one
`_matrix` and looks ids up afterwards (`SearchStart`, `SearchRow`).
`wanted` is history: what the completed calls asked for.

### Tenancy

On Postgres every organization has a schema, and `SET search_path` on the
connection decides which schema the name of a table means. A session
borrows a connection at its first statement and returns it at every commit and
rollback. A `SET` outlives a committed transaction and is undone with one that
is rolled back, and closing a session rolls back. `path` is what the
connection's own session sees, `base` what a rollback returns it to. On SQLite
the functions of `tenancy.py` return at once and nothing here applies.

| Code | Actions |
|---|---|
| `get_current_user`, `require_org`, the handlers of `auth.py` that choose an organization | `Arrive` |
| any query or flush on an organization's tables | `Statement` |
| `session.commit()`, by itself or in `commit_or_conflict`, `log_event` | `Commit` |
| the rollbacks of `import_persons`, `commit_or_conflict`, `record_capture_probe` | `Rollback` |
| `get_session`'s `finally` and the close after it | `Finish` |
| `/ready`, which sets nothing | `Ready` |
| `_out`, `ensure_default_site`, `require_org` for an administrator | `Visit` |
| `create_org`, `provision_org_schema` | `CreateOrg`, `Provision`, `Commit` |
| `_boot` | `Restart`, `Init` |

A handler is any sequence of statements, commits and rollbacks: the code has
handlers of most shapes (`log_event` commits after the commit of the punch,
`import_persons` commits once a row). The pool is first in, first out, which is
SQLAlchemy's default. `Conn` is a constant, so the instance has a largest
number of connections. Boot uses one connection from beginning to end and
leaves it pointing to the organization it visited last (`BootPath`), because
the transaction in which `FaceGallery.rebuild` sets its paths is rolled back.

History: `astray` are the rows in another schema than their organization's.
`shared` says that two sessions have overlapped, or that one went on after a
rollback had undone its `SET`. No guard reads them.

### Workspace

A boot is a series of commits: `Start` (tables), `SeedOfficeSettings`,
`SeedDefaultOrg`, `BackfillOrgId`, `EnsureOrgSlugs`, one `SeedSite` for each
organization, `SeedAdmin`; `init_db` and `_boot` run the seeding twice. `Crash`
may come between any two and in the middle of `create_org`, whose three commits
are `OrgInsert`, `OrgProvision`, `OrgSite`. Once the server is up, two threads
run `create_site`, `update_site`, `delete_site`, `create_org`, `update_org` and
`update_settings`; a handler is cut where it reads and where it commits. A place
is inside every fence that is wide enough, `Nowhere` stands for no position, and
a fence with coordinates but no radius is there as the code treats it: no fence
of the office, a site that lets nobody in.

### Accounts

Plain handlers in threads again: look, then commit. `UsersFit` and `PeopleFit`
are the unique constraints of `models.py`; a commit they refuse is `Refused`. A
form is `fresh` as long as no other handler has committed since it looked;
`overtaken` remembers that one was used when it was not.

### Timetable

Time is counted in slots of `lead_minutes`. `Opens` and `Closes` are
`occurrence_window`; `IsOpen` is `occurrence_is_open`. `NextId` is how the two
databases number rows: SQLite after the highest there is, Postgres from a
sequence. `DeleteOccurrence` leaves the marks alone: `models.py` declares `ON
DELETE SET NULL`, but SQLite enforces no foreign key unless told to, and the
tables of an organization on Postgres are copies (`LIKE public.t INCLUDING ALL`,
`tenancy.py:102`), which have no foreign keys.

| Code | Actions |
|---|---|
| `check_in`, a good or a failed one, under any kernel | `CheckIn`; what it stores as the meeting is `Chosen` |
| `kiosk_punch` | `KioskPunch` |
| `manual_attendance`, a new row of any decision | `Enter` |
| `manual_attendance`, the mark that was found | `EnterAgain` |
| `update_attendance` (PATCH) | `Update` |
| `update_office_settings` | `ChangeKernel` |
| `schedule.py` | `CreateOccurrence`, `DeleteOccurrence`, `EnrollPerson`, `DropEnrollment` |

`Existing` is `find_existing_present`: a daily kernel looks by day and stores
whatever meeting it is given, the others look by meeting; HR's entry names any
number, and PATCH looks for nothing. Three histories of a row tell these apart:
which meeting its number named when it was written (`born`), whether HR gave it
another number while days were counted (`moved`), and whether a look for a mark
of the meeting it names let it in (`checked`).

### RateLimiter

`admitted` is the history of the stamps let through; `hits`, the list of the
code, is the set of their positions that were last put there. The code reads the
clock, then the list, and then stores a list of its own, with nothing held in
between: three steps in threads, one on the loop.

### PunchLedger and PresenceTrust

`PunchLedger` appends rows as check-in, manual entry, check-out and automatic
absence do, and derives from the newest `Limit` of them what `summary` shows and
what `behaviour_features` computes: speed between sites, deviation of the first
punch of the day, new site, drift of similarity, regularity, collusion.
`PresenceTrust` fuses the signals of a punch in twentieths with a logarithm
table, so that the comparison of two punches is exact where the code's is
floating point; a signal that is missing has no term in either sum.

### Migrations

A table is the set of those columns and keys that some revision added or
removed. An upgrade is a transaction (`env.py:48`): `UpgradeHead` begins it,
each `UpgradeNext` runs one revision on the draft (`Upgraded`) or gives up where
a statement of it fails (`Refuses`), and `UpgradeCommits` is the commit, after
which a boot goes on to the organizations. `SqliteTables` and `PostgresTables`
are what the releases left behind. `Mirrored` are the revisions that also alter
the schemas of the organizations; `Provision` copies the tables an organization lacks, with the
columns public has at that moment. A SQLite file of any earlier release
(`BeforeRevisions`) is repaired column by column at boot (`AddColumn`,
`UsernamePerOrg`), and the server may die between any two of these steps.

### Roc, Blink, CapturePath

Inputs are built element by element, so that every list up to the bound occurs,
and then judged by the translated algorithm; the property compares the verdict
with a definition of its own. What the code filters out of a list is a set of
positions: the frames with a face, the steps of the probe with both readings. A
sum of gaps is the number of elements of a set, one for each unit of each gap.
`Seen` is what the browser reads off the video element after a request: what the
camera delivers, nothing, the height of the picture before, or no frames at all
from a video that stands still (`measureFps`).

### AuditTrail

`accessevent`, `spoofalert` and `attendance` are listed the same way: newest
first, up to a limit, then cut to days. `check_challenge` commits its event, and
`record_spoof` its alert and then another event; the process may die in between.

### Webcam

A call of `start` is cut at its two awaits. `pending` says where each call waits
and with which generation; the browser may grant, fail, play or be told to stop
in any order, and the page may show or hide the video element at any time.

### MCOffice

These parts share no state. `desk` picks the one that runs in a behaviour, the
others stay at their beginning: one run checks them all and its states add up.
`Timetable` has two desks. At `timetable` the hours pass over meetings of all
shapes and nobody punches; at `marks` the rows of a few meetings are written and
corrected (`AFewMarks`).

## 4 What is checked

| Run | Question | Instance |
|---|---|---|
| `challenges` | is a challenge passed once, spent once, in time; does the record stay until it expires; does every call return; is it a `OneShotPermit`? | 2 ids, 2 users, 2 requests, TTL 1, clock 0..2 |
| `day_serial` | requests one after the other in a daily kernel, all switches on | 1 person, 1 slot, 1 day of 2 ticks, 2 rows, HR enters present or absent and sets flags |
| `shift_serial` | the same with shifts across midnight | 1 person, 2 occurrences, 2 days |
| `daily_overlap` | two requests overlap: who can repeat a mark, who can be absent and present, does a spent challenge back one row | 1 person, 2 slots, 2 days of 1 tick, the second a holiday |
| `gallery_serial` | calls that do not overlap keep the containers parallel | 2 organizations, 2 numbers, 2 versions, 2 names, 1 slot |
| `people` | do tables and gallery agree about a person nobody is working on; does deactivation leave no embeddings? | 2 people, 2 names, 2 images, 2 slots, restarts |
| `tenancy` | which schema does a statement meet, through commits, rollbacks, boots, new organizations? | 2 organizations, 2 connections, 2 requests; every reachable state |
| `office` | the eleven modules of `MCOffice`, each by itself | below |
| `repeat_checkin` | (violated) one mark a day when check-ins overlap | 1 person, 2 slots |
| `gallery_threads` | (violated) search is thread-safe | 2 organizations, 1 number in each, 2 slots |
| `tenancy_pool` | (violated) rows of an organization are in its schema | as `tenancy` |
| `migrations_fresh` | (violated) `alembic upgrade head` goes through on an empty Postgres database | 2 organizations, every release |

The desks of `office`:

| Desk | Instance | States |
|---|---|---|
| `workspace` | 2 organizations, 3 sites, 1 place, 2 threads, 2 requests, crashes at every commit | 144 000 |
| `accounts` | 2 user names, 1 employee id, 2 people, 3 users, 2 threads, 4 requests, the process may die | 131 000 |
| `limiter` | 2 callers, 2 calls in a window of 2, clock 0..4, 6 calls let through | 96 000 |
| `timetable` | 2 students, 1 course and meetings for all, 3 slots a day, 3 days, three spans, 2 meetings, both databases; no marks | 21 000 |
| `marks` | a daily and a rostered kernel, the last hour of a day and the first of the next, meetings of one shape: 2 of them and 2 rows of one enrolled student on both databases, or 1 and 2 rows of 2 students who enroll and drop | 191 000 |
| `ledger` | 2 people, 2 sites, 3 kinds of shot, 3 rows, 2 days, `Limit` 2, one of the people with a face enrolled | 280 000 |
| `migrations` | 2 organizations, databases of every release, both dialects, upgrades revision by revision | 4 200 |
| `roc` | every list of 2 to 4 pairs with 4 scores, 3 FAR targets | 5 000 |
| `blink` | every clip of up to 3 hold and 3 action frames, 4 degrees of openness, frames without a face | 49 000 |
| `capture` | a sensor, a camera of one mode, software; ladder of 4 requests, readings missing or of an old picture, 2 delays | 86 000 |
| `trail` | 2 people, 3 events, 2 alerts, 2 days, limits 1 and up | 24 000 |
| `webcam` | 3 calls of start, 3 of stop | 58 000 |

What the properties say:

* `OneMark` (`day_serial`, `shift_serial`): no two unedited present rows of
  one person in one scope. `DuplicatesOverlap` (`daily_overlap`): with
  overlap a repeat exists only if its writer looked before the first mark was
  committed. The two together say that the policy queries are right in every
  order of calls and that the missing lock is the only hole.
* `KioskNeverSecond`: the kiosk's query and commit have no await between
  them, so a kiosk punch never repeats a coroutine's mark; only an HR thread
  can slip in between.
* `AbsentUnlessMarked`: an automatic absence beside a mark of that day is
  explained by a look that came before the mark.
* `OneRowPerPermit` (`daily_overlap`): whatever is refused, retried or overlapping, one passed
  challenge is behind at most one row.
* `MarkersOnce`, `OnlyPresentIsLate` (`day_serial`, `shift_serial`): digest
  and automatic absences once a day; the flags of a withdrawn mark are gone,
  through every order of manual entry, PATCH and check-out. Both hold when
  requests do not overlap and are claimed only there: two overlapping polls do
  send two digests, and a check-out that commits onto a row PATCH has just
  withdrawn leaves `early_leave` on it. These are listed as hazards.
* `OneShot`, `ScoreSeesTheGrant`, `RecordStaysUntilExpiry`, `GrantedInTime`,
  `CallsReturn`, `ImplementsPermits` (`challenges`): a challenge is granted at
  most once, the score of a punch finds the verdict the punch was granted on, no
  purge takes a record before its time, nothing is granted after expiry, and
  no call hangs. `SpentWasLive` and `VerdictFinal` are proved and not run again.
* `QuietIsFaithful` (`people`): with nobody working on a person, the gallery
  holds them exactly if they are active with images, under their name and with
  the mean of all their images. The exceptions are named: requests on that
  person overlapped, or a rename was refused; and how long the damage lasts is
  part of the claim (a restart, an enrollment or a deactivation that has the
  person to itself ends it). `InactiveKeepNothing`: embeddings survive
  deactivation only if an enrollment or another request overlapped, and then
  until the next undisturbed deactivation; a restart does not help.
* `FirstTransactionAtHome` (`tenancy`): from the `SET` to the next commit or
  rollback a request meets its own schema or `public`, however sessions
  interleave and whatever path the connection had. `AloneAtHome`: as long as no
  two sessions have overlapped and none has gone on after a rollback, every
  statement and row is at home, also after many commits, after boots and crashes
  in the middle of `create_org`. The two say that the pool is the only hole.
* `QuietIsFaithful`, `ReadersGetTheirFace`, `SearchIsComplete`,
  `CallsNeverRaise` (`gallery_serial`).

And in `office`:

* `BootHeals`: whatever a crash or an interrupted `create_org` left behind, the
  step that ends a boot hands over a complete seed (`Healed`).
* `BootKeepsTheFence`: the site that boot gives an organization admits the same
  people as the fence of its office did. The code has one exception: an office
  with coordinates and no radius has no fence, and the site made of it lets
  nobody in.
* `OneDefaultUnlessRaced`: two default sites only if two writers overlapped.
* `AdminRemains`: an administrator is left unless two forms overlapped.
  `RegisteredHasLogin`: who registered has a login unless the process died
  between the two commits or another handler took the name in between.
* `WindowBound`: no window lets through more than `MaxHits` calls, unless a call
  was let through on a stale list or clock.
* `OpenMeetingsAreFound`: an open meeting in somebody's schedule is found
  without being named, over midnight and for meetings longer than a day; the
  exception is a meeting of tomorrow that the lead opens before midnight.
* `MarksKeepTheirMeeting`: a row counts for the meeting it was made for, and
  once that is deleted for none. The code has three exceptions: SQLite gives the
  number of the newest row again, a number that named nothing may come to name a
  meeting, and HR may move the mark of a day to another meeting; that under the
  other kernels nobody moves a mark is part of the claim.
* `SharesAddUp`: nobody attended more meetings than there were, and the course
  as a whole does not exceed 100 percent, but for marks that came to their
  meeting without a look for another one (PATCH, and whatever was made or moved
  while days were counted) and for people who are not enrolled.
* `BoardIsRight`: up to `Limit` rows a day the dashboard tells who is in, who
  has not left and who is waited for. `NewcomersAreNotAccused`: behaviour does
  not turn an accepted punch of somebody with little history into one to review.
* `OperatingPointIsExactButForTies`: the operating point keeps its FAR target
  and is the best that does, if no scores tie; with ties it reports too little.
* `BlinkIsADip`: whichever of the three tests fires, a frame lies below an
  earlier and a later one.
* `OnlyClaimsAreSuspected`: a camera that does what it says is not suspected
  as long as no reading contradicts another, whichever are missing. That
  software locked to one mode passes too is a limit
  `docs/research/paper/outline.md:97` states. Cameras have less than 3001 rows
  and less than 100 frames a second (`CaptureAssumption`).
* `ListsAreComplete`: a list of a range of days is complete as long as no more
  rows than its limit were written since the range began.
* `CameraIsReleased`: after a stop no camera runs until the page asks again, and
  never more than one. The exceptions are a stop that met a start on a live
  stream (`crossed`) and a stream found with no element to show it (`lost`).
* `ServedTablesAreComplete`: whatever release the database comes from and however
  many boots died over it, a server that is up has every column of the models.

**Bounds.** A repeat needs two rows, two writers of one row need two slots, and
a purge that trips over another needs two ids and two requests; more of either
adds interleavings of the same pairs. Two ticks separate on time from late and
early from closing; two days are what it takes to cross midnight. With TTL 1
and a clock up to 2 a challenge can be used before, at and after its expiry.
Every bound is a constant (`MaxDay`, `MaxRows`, `MaxNow`, `TopK`), and the
theorems of the next section do not depend on them.

In `office` each desk has its own smallest instance: two threads are a race,
three sites are two defaults and a rest, four hits in a window of two are a
window that slides, a third call of `start` is what overwrites
a stream somebody still waits for. `PunchLedger` has three rows: collusion wants
four and a clockwork pattern ten, so these two rules never fire there. The desks
come to 1.1 million states, two minutes and a half.

At `marks` two meetings are a number given twice and two rows a mark and its
repeat, or the marks of two people. Two meetings and two students do not meet
there: which number a mark names is one student's matter, and a second student
matters to the shares of a course, for which one meeting will do; with one
meeting the databases do not differ, so one stands for both. The meetings have
one shape, since rows name them by number. The kernels are one that counts days
and one that asks for a meeting; `visit`, which asks for none, and any number of
meetings and students are left to the theorems. At `timetable` three spans are a
meeting by day, one over midnight and one longer than a day.

**Symmetry** permutes slots, threads and people that are interchangeable. It is
used with invariants and with action properties, which say something about
single steps; `challenges`, with its liveness property, goes without.

**Deadlock** is checked in `tenancy` and `tenancy_pool`. The other models have
bounded clocks, rows or numbers of calls and stop at them.

**Fairness.** Only `CallsReturn` needs it. `FairSpec` asks for strong fairness
of `Proceed(r)`, the next step of a request under way: asyncio runs its ready
callbacks first in, first out, the operating system schedules the threads, and
the frames were received before the handler was called. Arrivals, the clock
and restarts are not fair. Strong and not weak fairness, because a coroutine
that waits for the loop is disabled whenever another holds it.

## 5 What is proved

Eight modules are checked by `tlapm` to the last leaf. Five hold the proofs of
one module each (`LivenessChallengeProofs`, `AttendanceProofs`, `PeopleProofs`,
`TenancyProofs`, `FaceGalleryProofs`); `WorkspaceProofs` holds those of
`Workspace`, `Accounts` and `RateLimiter`, `RecordsProofs` those of `Timetable`,
`AuditTrail`, `PunchLedger` and `Migrations`, `EvidenceProofs` those of `Roc`, `Blink`,
`CapturePath` and `Webcam`.

They use the named assumptions of the modules and nothing else. These say that
bounds are numbers, that values that stand for nothing are not among those that
stand for something, and that inputs have their types; four say more:
`AttendanceAssumption`, `KeyAssumption` and `LedgerAssumption` that people are
finitely many, and `CaptureAssumption` how far a real camera goes. So every theorem is about any
number of ids, users, people, requests, organizations, connections, rows,
frames and scores, and any length of day.

*Challenges.* Type correctness, `OneShot`, `SpentWasLive`,
`ScoreSeesTheGrant`, `VerdictFinal`, `RecordStaysUntilExpiry`,
`GrantedInTime`, and `ImplementsPermits`: every step of the service is a step
of `OneShotPermit` or a stutter under the mapping `Stage`. The invariant ties
the three records of one challenge together (the dict entry, the history
`verdict`, the count `uses`): an entry is live only if the verdict is, it is
consumed exactly when it was used, and the deletion list of a purge, however
stale, names only challenges that were already expired when it was made. The
last part is what makes `RecordStaysUntilExpiry` inductive: without it a
stale list could name anything.

*Attendance.* For every kernel, clock and number of concurrent requests:
`TypeOK`, `DuplicatesOverlap`, `KioskNeverSecond`, `AbsentUnlessMarked` and
`OneRowPerPermit`. `IInv` in `AttendanceProofs` strengthens them by

* `RowsPast`, `SeenPast`: rows and looks are not from the future;
* `Cleared`, `MissingCleared`: none of the rows a pending writer saw when it
  looked has become a mark in its scope since;
* `Loaded`: HR updates a row that was a mark of the occurrence it writes, so the
  update cannot move a mark into another scope;
* `KioskHoldsLoop`: a kiosk between query and commit is the one on the loop,
  so no other coroutine commits in between;
* `PermitsApart`: a spent challenge is in the hands of one request or row;
* `AutoIsNoMark`: automatic rows are no marks unless HR edits them.

Every step belongs to one of four kinds (lemma `StepKinds`): it only forgets
requests, lets one request look, lets one request write a row, or adds rows;
each kind keeps `IInv` by one lemma, which is why the proof has four cases
where `Next` has twenty actions. A single slot (`Alone`) buys three more:

* `SerialOneMark`: nobody writes between a look and its commit
  (`SawEverything`), so `DuplicatesOverlap` turns into `OneMark`;
* `SerialMarkersOnce`: a digest that is due and absences about to be written
  find no marker of their day (`MarkersAwaited`);
* `SerialOnlyPresentIsLate`: a loaded row is still as it was and a check-out
  holds a mark (`LoadedIsStored`), so the column-wise flush writes the flags
  that belong to the decision beside them.

*People.* `TypeOK`, `QuietIsFaithful` and `InactiveKeepNothing` for any number
of people, images and concurrent requests. The invariant gives every request
that met no other (`alone`) what it knows about its person at each of its
steps (`Knows`), and puts the person of every other request into `torn` and
`kept` (`Spoiled`). A step of one request concerns one person, so the proof
shows once (`StepOn`) that it leaves everybody else's part of the invariant
alone, once for each of the three things a step can be for its request (begin,
continue, end), and per action only what that action leaves behind.

*Tenancy.* `TypeOK`, `FirstTransactionAtHome` and `AloneAtHome`. The invariant
says that no connection is in two places (`PoolSound`), that a request whose
`SET` is not yet committed still holds the connection with that path
(`SetHolds`), and, as long as nothing was shared, that there is one connection
altogether and what the one session knows (`Knows`): between the commits of
`create_org` the one organization without a schema is the one it is about to
provision, and the connection it will get back has the path it left. Every
step of a session takes a connection or gives one back, so the pool is dealt
with in two lemmas (`TakeStep`, `GiveStep`).

*Face gallery.* `QuietIsFaithful`, `ReadersGetTheirFace`, `CallsNeverRaise` and
`SearchIsComplete` for calls one after the other, whatever the organizations,
people, versions and names. In the middle of an edit the four containers have
different lengths; the invariant measures each stage by the matrix, which is
the first to change: `Cut` says which lists still have the removed row and
where the others went (`Skips`), `Grow` which ones already have the new row. A
search owns the matrix it multiplied with and has found each of the rows it has
gone through once (`Search`); a probe has a row of its own key (`Probing`).
That the index a boot builds names no key twice needs that as many rows as keys
cover all keys: a theorem about finite sets, hence `KeyAssumption`.

*Webcam.* `CameraIsReleased` for any number of starts and stops and every order
of the browser's answers. A start that no stop has overtaken relies on being
the one others wait for, on the stream it was given and on the page still
wanting it (`Relies`); no start is of a generation to come (`NoneAhead`).

*Accounts.* `AdminRemains` and `RegisteredHasLogin` for any number of threads.
A form is about rows that exist whatever has been committed since (`Standing`);
one that nobody has overtaken still rests on what it read (`Fresh`); the unique
constraints hold and no user belongs to a person to come (`Tables`).

*Workspace.* `OneDefaultUnlessRaced`, `BootHeals` and `BootKeepsTheFence` rest
on one invariant, `WorkspaceInv`, whose parts answer what could go wrong between
two commits:

* `Calm`: no handler runs while the boot does, and a crash takes both;
* `Owned`: a site without an organization is the only site there is, from before
  there were organizations, and none is left once the backfill is past;
* `Known`: the organization a request is about does not go away;
* `SlugsApart`: two slugs are never the same, though `EnsureOrgSlugs` gives out
  any number of them in one commit and the first free number is looked for
  (`FirstFreeIsFree`: there is one, since the taken ones are finitely many);
* `Progress`: how far a boot has come, which is `Healed` built up piece by
  piece: behind every stage lies what it has repaired, and the organizations
  not among those still to do have a schema and a default site;
* `Views`: what a thread has read of the sites is what is there, unless another
  thread has committed in between (`UpToDate`);
* `AloneDefault`: the property itself. It is `Views` that makes it inductive: a
  request clears the defaults it has seen, and they are all of them.

`BootHeals` is then the last step of `Progress`; `BootKeepsTheFence` compares
the two questions a fence answers before and after `SeedSite`, by the cases an
organization without a site can be in.

*Rate limiter.* `WindowBound` for any limit, window and number of threads. Two
parts carry it: the list holds every stamp that still lies in a window with all
the later ones (`Complete`), so a call that nobody has overtaken counts all that
matters (`UpToNow`); and stamps were let through in their order (`Punctual`). A
window of the history that ends at an older stamp is not touched by a new one,
and one that ends at the new stamp holds what the call counted and one more
(`StoreKeepsWindow`). A stale clock breaks `Punctual`, a stale list `Complete`:
these are the two ways `overlapped` names.

*Timetable.* `OpenMeetingsAreFound` for any length of a day, any lead and any
spans; `MarksKeepTheirMeeting` and `SharesAddUp` for any students, courses,
meetings and rows, both databases, and any change of kernel. The second needs
the number SQLite gives next to lie beyond all that are there, for which every
non-empty set of numbers must have a greatest: the invariant says so of the
meetings there are (`Numbered`), and a step adds or removes one. On Postgres a
meeting's number is its place in the order of making, and a row's number is that
of the meeting it was made for, or nobody's, or was changed (`Aged`); so a new
meeting, whose number lies beyond all that were made, finds no row that was made
for another. The shares rest on `Marking`: of two present rows of one student
for one meeting, one was not checked. A step that checks a row has looked for
present rows of that meeting, and one that changes a row (`ChangeHolds`) never
makes it checked. So the checked rows of a student map one to one into the
meetings of a course, and those of all enrolled into pairs of a meeting and a
student; the others are what the property allows.

*Trail.* `ListsAreComplete`. Rows are in the order of their days (`InOrder`),
which midnight, the death of a check and its two commits keep; so those since
the beginning of a range come last, and the newest *n* hold all of them if they
are no more than *n* (`NewestHoldAll`).

*Ledger.* `BoardIsRight`: rows are in the order of their hours, so the rows of
the day are the last ones and within the `Limit` newest; each person's latest
mark is the one the board looks at (`LastPosition`), and the two numbers of
absentees are the sizes of the same difference of finite sets.
`NewcomersAreNotAccused`: a short history damps the behaviour signal to a floor
(`BehaviourIsDamped`) that is above the veto and above the threshold of the
mean, so adding its term keeps a sum that reached the threshold above it
(`TrustGrows`, with the weights and the table of logarithms written out).

*Operating point.* For any list of pairs. The list is ranked, so accepting from
a score down accepts at least the prefix of the curve, and exactly it if no
scores tie (`CurveCounts`); the point is the best of those on the curve that
keep the target (`BestIsBest`).

*Blink.* For clips of any length. A transition through the fixed thresholds has
its dip by their difference. Where they are relative, and in a valley, the dip must be bounded
from below: the quartile is not above the greatest value
(`QuartileIsBounded`, because every rank up to the number of frames is reached
by some value), and the rest is arithmetic (`RelativeDip`, `ValleyDip`).

*Capture path.* Every row of the report says what its camera says, or nothing
(`Witnessed`). An honest camera's rows cannot fire the two claims, nor the two
mismatches, whatever readings are missing; the three cues left add up to 48
points of 50 (`HonestScore`). The attempt to prove this without
`CaptureAssumption` failed for a reason: a real camera fixed at 100 frames a
second has the rate claim too, 74 points, and would be suspected.

*Migrations.* `ServedTablesAreComplete` for any set of organizations, any
revision a database is found at and any order of upgrades, downgrades, boots and
deaths. `CatalogAt(n, c)` says what a catalog at revision *n* is, without going
through the revisions: `TablesAt`, that public has none of the tables a later
revision creates, and of what `models.py` declares everything that no later one
brings; `CopiesAt`, that a schema of an organization holds copies of tables of
public, which are equal to them now and not only when they were made. `upgrade()`
takes `CatalogAt` from *n - 1* to *n* (`EvolvedTables`, `AlteredCatalog`,
`UpgradedCatalog`), `downgrade()` back (`LoweredCatalog`), provisioning leaves it
(`ProvisionedCatalog`), and what an earlier release left has it (`FoundCatalog`).
At the newest revision nothing is to come, and what is left of it is the
property (`HeadIsComplete`). Copies stay equal because a revision that is not
mirrored to the schemas, 0009, alters no table that was there; that step of
`AlteredCatalog` would fail if it did.
On SQLite the list of columns is complete (`SqliteColumnsList`), and a boot has
added those before its place in the list (`SqliteOK`).

What the revisions add is compared with what the models declare table by table
(`TablesAreCreatedOnce`, `ColumnsCome`). The catalogs of earlier releases are a
recursive function over ten numbers; that it exists is shown by writing its
values down (`PostgresTablesUnfold`), so no induction is needed.

`UpgradesFromSevenOnCorrect` tells which upgrades go through: those of a
database that 0007 had reached already, and no others. An upgrade from an
earlier revision ends at 0006 or 0007; it neither commits nor fails later.
`OldAt(n, c)` is why no other revision fails: no table has a column of a
revision after *n*, and the schema of an organization has the tables that 0008
and 0010 alter there, so no statement adds what exists or alters what does not
(`OthersGoThrough`). `Peopled` is why 0007 does: from 0006 on there is an
organization, and there are no tables of 0009 and 0010 to copy for it
(`SeventhRefuses`). No run states it: `migrations_fresh` stops at the first
upgrade that is refused.

*Only model-checked.* `CallsReturn`, since liveness under fairness is beyond the
prover.

## 6 Where code and documents disagree

* `repeat_checkin`: `docs/PRD.md` (ATT-3) promises "One present mark per local
  calendar day; repeat check-in returns already marked." `check_in` looks at
  line 245, awaits the upload at 254 and inserts at 272 without a second look;
  no constraint forbids the second row.
* `gallery_threads`: the docstring of `gallery/index.py` says "Search is a NumPy
  matmul (thread-safe under FastAPI)." `search` reads the ids after the scores
  and a removal in a worker thread replaces the containers one by one: a
  person's score can be reported under another person's id.
* `tenancy_pool`: `db/tenancy.py:1` promises "Schema-per-org isolation on
  Postgres" and lines 3-4 say "We SET search_path on the borrowed connection
  and restore public in get_session's finally block." The path is set once per
  request, the connection changes at every commit and rollback, and the restored
  path is undone by the rollback that closes the session. In the run another
  session takes the connection in between and the row is written under the
  path of the one that is left. The columns `org_id` and the filters on them
  are still there, so a stray row is lost to its organization rather than
  shown to another.
* `migrations_fresh`: `README.md:115` says of the Postgres setup to run "alembic
  upgrade head". On an empty database revision 0006 cannot go through: line 142
  updates a table named `user`, a reserved word, without quotes, and line 149
  drops a constraint under a name 0001 did not give it. All revisions share one
  transaction (`env.py:48`), so none is applied. With 0006 repaired, 0007 would
  be next: line 91 copies tables that only 0009 and 0010 create. A database
  whose tables were made by the server (`create_all`) is not concerned:
  `ServedTablesAreComplete` holds for it. `UpgradesFromSevenOnCorrect` proves the
  extent: every database before 0007 is refused, from 0007 on none is.

Seen while modelling, without a run of its own:

* a person deactivated while their check-in awaits the image is still marked
  (the test at `attendance.py:190` is before the await), although the PRD
  (PEO-5) keeps deactivated people out;
* a meeting of tomorrow that `lead_minutes` opens before midnight is not among
  those `open_occurrences` reads: it must be named to punch in for it;
* the `ON DELETE SET NULL` that `models.py` declares holds in no schema of an
  organization: not on SQLite, where foreign keys are off, and not on Postgres,
  where `LIKE ... INCLUDING ALL` copies none. Marks keep the number of a deleted
  meeting, and SQLite gives the newest number again, so that they count for
  the next meeting;
* a failed check-in, a good one and a PATCH of the first give a person two
  present rows for one meeting, and so do two days' punches that name the same
  meeting under a daily kernel; `offering_stats` counts both;
* under a daily kernel HR's entry moves the mark of the day to the meeting it
  names, or to a number that names none;
* a real camera that knows a single mode and answers evenly has 48 of the 50
  points that make it suspected: if its picture also stands still while the
  frames are counted, it has 58;
* an office with coordinates and no radius gets, at boot, a site that lets
  nobody in;
* the downgrade of 0010 is refused once an organization's schema was cloned: the
  copy's default goes by the sequence that `drop_table` would take away;
* the card that offers the check-out with a face (`pages/Attendance.tsx:203`)
  takes the place of the one with the video element, so the capture behind its
  button finds no picture, although the PRD (ATT-5) offers a check-out by face.

## 7 What is not modelled

* Numeric work: networks, alignment, texture statistics, the trained model of
  the capture path (its rules are modelled), training, the interpolated EER and
  the folds of the evaluation, the scores of identify and verify, the
  calibration of a blink. A similarity is a match or none.
* Library code: bcrypt, tokens and their expiry, the pool of SQLAlchemy (as far
  as it is used, it is `external` in the map). The operator, a
  role of staff that opens the lab and not the people, is left out.
* Output and files: mail, CSV, the assistant and its language model, the scripts
  under `scripts/`, the texts of `docs/`.
* The rows that a migration moves, indexes and column types: `Migrations` is
  about tables, columns and the keys that stop a statement.
* Attributes nothing depends on: names of offerings, `is_active` of an offering
  (archived ones leave the lists), `min_percent` (a line in a report).
* Holidays are rows by day without a second writer; workdays are a constant.
* Of the front end, the session, the kiosk screen and the pages: the server
  decides every question they ask again. The camera hook is modelled because
  nothing else guards the camera.

`PROJECT.json` lists each component with its status and reason, and each hazard
that no property covers yet with a note.

## 8 Plan

Done, in this order: `OneShotPermit`, `LivenessChallenge` and its proofs;
`AttendancePolicy`, `Attendance` and its proofs; `FaceGallery`; `People` and its
proofs; `Tenancy` and its proofs; `Workspace`; `Accounts` and its proofs;
`RateLimiter`; `Timetable` and its proofs; `PresenceTrust` and `PunchLedger`;
`Migrations`; `Roc`, `Blink`, `CapturePath`; `AuditTrail`; `Webcam` and its
proofs; the proofs of `FaceGallery`; what a single slot buys in `Attendance`;
the proofs of `Workspace`, `RateLimiter`, `AuditTrail`, `PunchLedger`, `Roc`,
`Blink`, `CapturePath` and `Migrations`.

Next, most important first:

1. The gallery under threads: which of its properties survive one writer and
   many readers, as a theorem.
2. `AuthSession`: the token, its expiry and the storage shared by two tabs.
3. Holidays joined to `Attendance`, so that a day may become one while a poll
   of the summary runs.

Runs stay few: one serial run per component with every switch on, one
overlapping run where overlap matters, and a violated run only for a
documented promise.

## 9 Running it

```
tlc -workers 2 -config challenges.cfg MCLivenessChallenge.tla
tlc -workers 2 -config day_serial.cfg MCAttendance.tla
tlc -workers 2 -config gallery_serial.cfg MCFaceGallery.tla
tlc -workers 2 -config people.cfg MCPeople.tla
tlc -workers 2 -config tenancy.cfg MCTenancy.tla
tlc -workers 2 -config office.cfg MCOffice.tla
tlapm AttendanceProofs.tla
tlapm WorkspaceProofs.tla
```

The proofs of `Attendance`, `FaceGallery` and `Workspace` take a few minutes
each, the others less. `PROJECT.json` names the module and configuration of every run.
