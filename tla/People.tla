------------------------------- MODULE People -------------------------------
(***************************************************************************)
(* Enrolled people: the writing handlers of backend/app/api/routes/        *)
(* persons.py, against the person and faceembedding tables and the face    *)
(* gallery in memory.                                                      *)
(*                                                                         *)
(* Every handler changes the tables first and the gallery after its commit *)
(* (update_person: before it), from rows it read at different times.  All  *)
(* but enroll run in worker threads and are cut into steps at every        *)
(* transaction and gallery call; enroll is a coroutine that awaits its     *)
(* images and then keeps the event loop.                                   *)
(*                                                                         *)
(* Abstracted: the fields of a person but name and is_active; whether a    *)
(* flush meets the unique employee id of somebody else (chosen); the       *)
(* gallery's own containers (FaceGallery).  A centroid is the set of       *)
(* images it is the mean of.                                               *)
(***************************************************************************)
CONSTANTS
    Person, Name,
    Image,          \* rows of faceembedding, of the encoder in use
    Req,            \* request slots
    Nobody          \* no row in the person table

ASSUME NobodyAssumption == Nobody \notin [name : Name, active : BOOLEAN]

VARIABLES
    person,         \* the person table
    stored,         \* stored[p]: the images of p in faceembedding
    gallery,        \* what the gallery holds, by person
    req,            \* requests in flight
    loop,           \* the request that keeps the event loop, as a set
    alone,          \* history: requests that met no other on their person
    torn,           \* history: people whose gallery entry may be off
    kept            \* history: people who may keep images while inactive

tables == <<person, stored>>
history == <<alone, torn, kept>>
vars == <<tables, gallery, req, loop, history>>

----------------------------------------------------------------------------
Row == [name : Name, active : BOOLEAN]
Entry == [name : Name, images : SUBSET Image]

Idle == [pc |-> "idle"]
Renames == [pc : {"rename", "rename_flush"}, person : Person, name : Name]
Departures == [pc : {"deactivate"}, person : Person, was : BOOLEAN]
Removals == [pc : {"remove"}, person : Person, was : BOOLEAN, images : SUBSET Image]
Forgets == [pc : {"forget"}, person : Person]
Returns == [pc : {"reactivate"}, person : Person, was : BOOLEAN]
Uploads == [pc : {"images"}, person : Person]
Reloads == [pc : {"reload"}, person : Person, enroll : BOOLEAN]
Collects == [pc : {"collect"}, person : Person, enroll : BOOLEAN, name : Name]
Puts == [pc : {"put"}, person : Person, enroll : BOOLEAN, name : Name,
         images : SUBSET Image]

Requests == {Idle} \cup Renames \cup Departures \cup Removals \cup Forgets
              \cup Returns \cup Uploads \cup Reloads \cup Collects \cup Puts

Exists(p) == person[p] # Nobody
Others(r, p) == {q \in Req \ {r} : req[q] # Idle /\ req[q].person = p}

Without(p) == [q \in DOMAIN gallery \ {p} |-> gallery[q]]
With(p, e) == [q \in DOMAIN gallery \cup {p} |-> IF q = p THEN e ELSE gallery[q]]

----------------------------------------------------------------------------
(* Bookkeeping of the history.                                             *)

\* A request on p begins; one that meets another spoils both.
Begin(r, p, state) ==
    /\ req[r] = Idle
    /\ Exists(p)
    /\ req' = [req EXCEPT ![r] = state]
    /\ IF Others(r, p) = {}
       THEN alone' = alone \cup {r} /\ UNCHANGED <<torn, kept>>
       ELSE /\ alone' = (alone \ Others(r, p)) \ {r}
            /\ torn' = torn \cup {p}
            /\ kept' = kept \cup {p}

Continue(r, state) == req' = [req EXCEPT ![r] = state] /\ UNCHANGED history

\* A request ends, having mended the gallery entry and the images of its
\* person if it was alone all the while.
End(r, spoils, mends, cleans) ==
    LET p == {req[r].person}
        out == IF r \in alone THEN p ELSE {}
    IN /\ req' = [req EXCEPT ![r] = Idle]
       /\ alone' = alone \ {r}
       /\ torn' = IF spoils THEN torn \cup p ELSE IF mends THEN torn \ out ELSE torn
       /\ kept' = IF cleans THEN kept \ out ELSE kept

----------------------------------------------------------------------------
(* POST /persons, a row of POST /persons/import, POST /auth/register.      *)
Create(p, n) ==
    /\ ~Exists(p)
    /\ person' = [person EXCEPT ![p] = [name |-> n, active |-> TRUE]]
    /\ UNCHANGED <<stored, gallery, req, loop, history>>

----------------------------------------------------------------------------
(* PATCH /persons/{id} with a new name.                                    *)

UpdateLoad(r, p, n) ==
    /\ Exists(p) /\ person[p].name # n
    /\ Begin(r, p, [pc |-> "rename", person |-> p, name |-> n])
    /\ UNCHANGED <<tables, gallery, loop>>

\* The gallery is told before anything is flushed.
UpdateGallery(r) ==
    LET q == req[r] IN
    /\ q.pc = "rename"
    /\ gallery' = IF q.person \in DOMAIN gallery
                  THEN [gallery EXCEPT ![q.person].name = q.name] ELSE gallery
    /\ Continue(r, [q EXCEPT !.pc = "rename_flush"])
    /\ UNCHANGED <<tables, loop>>

UpdateCommit(r) ==
    LET q == req[r] IN
    /\ q.pc = "rename_flush"
    /\ person' = [person EXCEPT ![q.person].name = q.name]
    /\ End(r, FALSE, FALSE, FALSE)
    /\ UNCHANGED <<stored, gallery, loop>>

\* The flush meets the employee id of somebody else: rolled back, but the
\* gallery keeps the name.
UpdateConflict(r) ==
    /\ req[r].pc = "rename_flush"
    /\ End(r, TRUE, FALSE, FALSE)
    /\ UNCHANGED <<tables, gallery, loop>>

----------------------------------------------------------------------------
(* DELETE /persons/{id}.                                                   *)

DeactivateLoad(r, p) ==
    /\ Exists(p)
    /\ Begin(r, p, [pc |-> "deactivate", person |-> p, was |-> person[p].active])
    /\ UNCHANGED <<tables, gallery, loop>>

\* The images, after the autoflush of the row.
DeactivateSelect(r) ==
    LET q == req[r] IN
    /\ q.pc = "deactivate"
    /\ Continue(r, [pc |-> "remove", person |-> q.person, was |-> q.was,
                    images |-> stored[q.person]])
    /\ UNCHANGED <<tables, gallery, loop>>

\* Faulty: the images stay in the table.
DeactivateOnly(r) ==
    LET q == req[r] IN
    /\ q.pc = "remove"
    /\ person' = [person EXCEPT ![q.person].active = @ /\ ~q.was]
    /\ Continue(r, [pc |-> "forget", person |-> q.person])
    /\ UNCHANGED <<stored, gallery, loop>>

\* One transaction; is_active is only written if it was loaded as set.
DeactivateCommit(r) ==
    LET q == req[r] IN
    /\ q.pc = "remove"
    /\ person' = [person EXCEPT ![q.person].active = @ /\ ~q.was]
    /\ stored' = [stored EXCEPT ![q.person] = @ \ q.images]
    /\ Continue(r, [pc |-> "forget", person |-> q.person])
    /\ UNCHANGED <<gallery, loop>>

DeactivateForget(r) ==
    /\ req[r].pc = "forget"
    /\ gallery' = Without(req[r].person)
    /\ End(r, FALSE, TRUE, TRUE)
    /\ UNCHANGED <<tables, loop>>

----------------------------------------------------------------------------
(* POST /persons/{id}/reactivate.                                          *)

ReactivateLoad(r, p) ==
    /\ Exists(p)
    /\ Begin(r, p, [pc |-> "reactivate", person |-> p, was |-> person[p].active])
    /\ UNCHANGED <<tables, gallery, loop>>

ReactivateCommit(r) ==
    LET q == req[r] IN
    /\ q.pc = "reactivate"
    /\ person' = [person EXCEPT ![q.person].active = @ \/ ~q.was]
    /\ Continue(r, [pc |-> "reload", person |-> q.person, enroll |-> FALSE])
    /\ UNCHANGED <<stored, gallery, loop>>

----------------------------------------------------------------------------
(* POST /persons/{id}/enroll.                                              *)

EnrollLoad(r, p) ==
    /\ loop = {}
    /\ Exists(p) /\ person[p].active
    /\ Begin(r, p, [pc |-> "images", person |-> p])
    /\ UNCHANGED <<tables, gallery, loop>>

\* An image is refused; nothing was flushed.
EnrollAbort(r) ==
    /\ req[r].pc = "images"
    /\ loop = {}
    /\ End(r, FALSE, FALSE, FALSE)
    /\ UNCHANGED <<tables, gallery, loop>>

\* Images no row and no gallery entry has: where the two hold the same
\* images they are the same faces.
Unused(S) ==
    \A p \in Person :
        /\ S \cap stored[p] = {}
        /\ p \in DOMAIN gallery => S \cap gallery[p].images = {}

EnrollCommit(r, new) ==
    LET q == req[r] IN
    /\ q.pc = "images"
    /\ loop = {}
    /\ loop' = {r}
    /\ Unused(new)
    /\ stored' = [stored EXCEPT ![q.person] = @ \cup new]
    /\ Continue(r, [pc |-> "reload", person |-> q.person, enroll |-> TRUE])
    /\ UNCHANGED <<person, gallery>>

----------------------------------------------------------------------------
(* The common end of reactivate and enroll.                                *)

\* session.refresh(person)
Reload(r) ==
    LET q == req[r] IN
    /\ q.pc = "reload"
    /\ Continue(r, [pc |-> "collect", person |-> q.person, enroll |-> q.enroll,
                    name |-> person[q.person].name])
    /\ UNCHANGED <<tables, gallery, loop>>

\* The stored images.  Without one reactivate is done; enroll stacks an
\* empty list, which raises.
Collect(r) ==
    LET q == req[r]
        found == stored[q.person]
    IN /\ q.pc = "collect"
       /\ IF found = {}
          THEN End(r, FALSE, FALSE, FALSE) /\ loop' = loop \ {r}
          ELSE /\ Continue(r, [pc |-> "put", person |-> q.person, enroll |-> q.enroll,
                               name |-> q.name, images |-> found])
               /\ UNCHANGED loop
       /\ UNCHANGED <<tables, gallery>>

\* gallery.add_person
Put(r) ==
    LET q == req[r] IN
    /\ q.pc = "put"
    /\ gallery' = With(q.person, [name |-> q.name, images |-> q.images])
    /\ End(r, FALSE, q.enroll, FALSE)
    /\ loop' = loop \ {r}
    /\ UNCHANGED tables

----------------------------------------------------------------------------
\* Faulty: rebuild() loads everybody with images.
RestartWithAll ==
    /\ gallery' = [p \in {p \in Person : Exists(p) /\ stored[p] # {}}
                     |-> [name |-> person[p].name, images |-> stored[p]]]
    /\ req' = [r \in Req |-> Idle]
    /\ loop' = {}
    /\ alone' = {}
    /\ torn' = {}
    /\ UNCHANGED <<tables, kept>>

\* The process starts again: rebuild() loads the active people with images.
Restart ==
    /\ gallery' = [p \in {p \in Person : Exists(p) /\ person[p].active /\ stored[p] # {}}
                     |-> [name |-> person[p].name, images |-> stored[p]]]
    /\ req' = [r \in Req |-> Idle]
    /\ loop' = {}
    /\ alone' = {}
    /\ torn' = {}
    /\ UNCHANGED <<tables, kept>>

Init ==
    /\ person = [p \in Person |-> Nobody]
    /\ stored = [p \in Person |-> {}]
    /\ gallery = [p \in {} |-> Nobody]
    /\ req = [r \in Req |-> Idle]
    /\ loop = {}
    /\ alone = {}
    /\ torn = {}
    /\ kept = {}

Arrive(r) ==
    \E p \in Person :
        \/ \E n \in Name : UpdateLoad(r, p, n)
        \/ DeactivateLoad(r, p)
        \/ ReactivateLoad(r, p)
        \/ EnrollLoad(r, p)

Proceed(r) ==
    \/ UpdateGallery(r) \/ UpdateCommit(r) \/ UpdateConflict(r)
    \/ DeactivateSelect(r) \/ DeactivateCommit(r) \/ DeactivateForget(r)
    \/ ReactivateCommit(r)
    \/ EnrollAbort(r) \/ \E new \in (SUBSET Image) \ {{}} : EnrollCommit(r, new)
    \/ Reload(r) \/ Collect(r) \/ Put(r)

Next ==
    \/ Restart
    \/ \E p \in Person, n \in Name : Create(p, n)
    \/ \E r \in Req : Arrive(r) \/ Proceed(r)

Spec == Init /\ [][Next]_vars

----------------------------------------------------------------------------
(* Properties.                                                             *)

\* Every variable stays in its type.
TypeOK ==
    /\ person \in [Person -> Row \cup {Nobody}]
    /\ stored \in [Person -> SUBSET Image]
    /\ DOMAIN gallery \subseteq Person
    /\ gallery \in [DOMAIN gallery -> Entry]
    /\ req \in [Req -> Requests]
    /\ loop \subseteq Req /\ alone \subseteq Req
    /\ torn \subseteq Person /\ kept \subseteq Person

Quiet(p) == \A r \in Req : req[r] # Idle => req[r].person # p

\* The gallery says of p what the tables say, apart from the name.
Shown(p, name) ==
    IF Exists(p) /\ person[p].active /\ stored[p] # {}
    THEN p \in DOMAIN gallery /\ gallery[p] = [name |-> name, images |-> stored[p]]
    ELSE p \notin DOMAIN gallery

Faithful(p) == Shown(p, person[p].name)

\* With no request on p under way, the gallery agrees with the tables about
\* p, unless two requests on p overlapped or a rename was refused, and since
\* then there was no restart and no enrollment or deactivation that had p to
\* itself.
QuietIsFaithful == \A p \in Person : Quiet(p) /\ p \notin torn => Faithful(p)

\* Deactivation leaves no biometric data: an inactive person has images only
\* if a request overlapped, and then until the next undisturbed deactivation.
InactiveKeepNothing ==
    \A p \in Person :
        p \notin kept /\ Exists(p) /\ ~person[p].active => stored[p] = {}
============================================================================
