------------------------------ MODULE Tenancy ------------------------------
(***************************************************************************)
(* Organizations on Postgres (backend/app/db/tenancy.py): one schema for   *)
(* each, chosen by SET search_path on the connection a request borrows     *)
(* from SQLAlchemy's pool.                                                 *)
(*                                                                         *)
(* A session keeps its connection from its first statement to its commit   *)
(* or rollback, and borrows again for the next one.  A setting made in a   *)
(* transaction stays with the connection if the transaction commits and    *)
(* is undone if it is rolled back, which is how every session ends.        *)
(*                                                                         *)
(* Abstracted: a statement on the tables of an organization is the schema  *)
(* it meets, and a row the schema it is in.  Statements do not fail except *)
(* for the flushes that Rollback stands for.                               *)
(***************************************************************************)
EXTENDS Sequences

CONSTANTS
    Org,
    Public,         \* the shared schema
    Conn,           \* database connections
    Req,            \* request slots
    Null            \* no connection

ASSUME PublicAssumption == Public \notin Org
ASSUME NullAssumption == Null \notin Conn

VARIABLES
    orgs,           \* rows of the organization table
    schemas,        \* organizations that have their schema
    path,           \* search_path of each connection, as its session sees it
    base,           \* what a rollback sets it back to
    free,           \* the pool: idle connections, first in, first out
    req,            \* requests in flight
    astray,         \* rows in a schema not their organization's: whose, where
    shared          \* history: sessions overlapped, or one lost its setting

vars == <<orgs, schemas, path, base, free, req, astray, shared>>

Schema == Org \cup {Public}

----------------------------------------------------------------------------
(* Sessions.  for is the organization (or Public) the statements are meant *)
(* for; stage says what became of the last SET: still in the transaction,  *)
(* committed, or undone.                                                   *)

Idle == [stage |-> "idle"]

Sessions ==
    [stage : {"set", "kept", "undone"}, admin : BOOLEAN, for : Schema,
     conn : Conn \cup {Null},
     met : SUBSET Schema,       \* schemas met in this transaction
     wrote : SUBSET Schema,     \* and those a row was flushed to
     new : SUBSET Org,          \* organization to provision
     made : SUBSET Org]         \* schema made in this transaction

Requests == {Idle} \cup Sessions

Holding == {r \in Req : req[r] # Idle /\ req[r].conn # Null}
Unopened == {c \in Conn : /\ \A i \in DOMAIN free : free[i] # c
                          /\ \A r \in Holding : req[r].conn # c}

\* QueuePool: the connection idle for longest, or a new one.
Pooled == IF free = <<>> THEN Unopened ELSE {Head(free)}
Left == IF free = <<>> THEN free ELSE Tail(free)

\* The connection the next statement of r runs on, and the pool then.
Borrowed(r) == IF r \in Holding THEN {req[r].conn} ELSE Pooled
LeftBy(r) == IF r \in Holding THEN free ELSE Left

\* A name without a schema: the first schema of the path that exists.
Meets(c) == IF path[c] \in schemas THEN path[c] ELSE Public

OthersInFlight(r) == \E s \in Req \ {r} : req[s] # Idle

----------------------------------------------------------------------------
\* Faulty: a path that is set is left alone.
ArriveLazy(r, o, admin) ==
    /\ req[r] = Idle
    /\ o \in orgs \cup {Public}
    /\ admin => o = Public
    /\ \E c \in Pooled :
         /\ path' = [path EXCEPT ![c] = IF @ = Public THEN o ELSE @]
         /\ req' = [req EXCEPT ![r] =
                      [stage |-> "set", admin |-> admin, for |-> o, conn |-> c,
                       met |-> {}, wrote |-> {}, new |-> {}, made |-> {}]]
    /\ free' = Left
    /\ shared' = (shared \/ OthersInFlight(r))
    /\ UNCHANGED <<orgs, schemas, base, astray>>

\* get_current_user and require_org, or the handlers without a user: set the
\* path before the first statement.
Arrive(r, o, admin) ==
    /\ req[r] = Idle
    /\ o \in orgs \cup {Public}
    /\ admin => o = Public
    /\ \E c \in Pooled :
         /\ path' = [path EXCEPT ![c] = o]
         /\ req' = [req EXCEPT ![r] =
                      [stage |-> "set", admin |-> admin, for |-> o, conn |-> c,
                       met |-> {}, wrote |-> {}, new |-> {}, made |-> {}]]
    /\ free' = Left
    /\ shared' = (shared \/ OthersInFlight(r))
    /\ UNCHANGED <<orgs, schemas, base, astray>>

\* A query or a flush on the organization's tables.
Statement(r, write) ==
    LET q == req[r] IN
    /\ q # Idle /\ q.for # Public
    /\ \E c \in Borrowed(r) :
         req' = [req EXCEPT ![r] =
                   [q EXCEPT !.conn = c, !.met = @ \cup {Meets(c)},
                             !.wrote = IF write THEN @ \cup {Meets(c)} ELSE @]]
    /\ free' = LeftBy(r)
    /\ shared' = (shared \/ q.stage = "undone")
    /\ UNCHANGED <<orgs, schemas, path, base, astray>>

\* Faulty: SET LOCAL, which ends with the transaction.
CommitLocal(r) ==
    LET q == req[r] IN
    /\ r \in Holding
    /\ path' = [path EXCEPT ![q.conn] = base[q.conn]]
    /\ astray' = astray \cup {<<q.for, s>> : s \in q.wrote \ {q.for}}
    /\ schemas' = schemas \cup q.made
    /\ req' = [req EXCEPT ![r] =
                 [q EXCEPT !.conn = Null, !.met = {}, !.wrote = {}, !.made = {},
                           !.stage = IF @ = "set" THEN "kept" ELSE @]]
    /\ free' = Append(free, q.conn)
    /\ UNCHANGED <<orgs, base, shared>>

\* session.commit(): the connection goes back with its setting.
Commit(r) ==
    LET q == req[r] IN
    /\ r \in Holding
    /\ base' = [base EXCEPT ![q.conn] = path[q.conn]]
    /\ astray' = astray \cup {<<q.for, s>> : s \in q.wrote \ {q.for}}
    /\ schemas' = schemas \cup q.made
    /\ req' = [req EXCEPT ![r] =
                 [q EXCEPT !.conn = Null, !.met = {}, !.wrote = {}, !.made = {},
                           !.stage = IF @ = "set" THEN "kept" ELSE @]]
    /\ free' = Append(free, q.conn)
    /\ UNCHANGED <<orgs, path, shared>>

\* A flush fails: import_persons and record_capture_probe roll back and go on,
\* commit_or_conflict refuses the request.
Rollback(r) ==
    LET q == req[r] IN
    /\ r \in Holding /\ q.new = {} /\ q.made = {}
    /\ path' = [path EXCEPT ![q.conn] = base[q.conn]]
    /\ req' = [req EXCEPT ![r] =
                 [q EXCEPT !.conn = Null, !.met = {}, !.wrote = {},
                           !.stage = IF @ = "set" THEN "undone" ELSE @]]
    /\ free' = Append(free, q.conn)
    /\ UNCHANGED <<orgs, schemas, base, astray, shared>>

\* get_session's finally: SET search_path TO public, on a connection borrowed
\* for it if need be, and the close of the session rolls that back.
Finish(r) ==
    /\ req[r] # Idle
    /\ req[r].new = {} /\ req[r].made = {}
    /\ \E c \in Borrowed(r) :
         /\ path' = [path EXCEPT ![c] = base[c]]
         /\ free' = Append(LeftBy(r), c)
    /\ req' = [req EXCEPT ![r] = Idle]
    /\ UNCHANGED <<orgs, schemas, base, astray, shared>>

----------------------------------------------------------------------------
(* GET /ready: a session that sets nothing.                                *)

Ready(r) ==
    /\ req[r] = Idle
    /\ \E c \in Pooled :
         req' = [req EXCEPT ![r] =
                   [stage |-> "kept", admin |-> FALSE, for |-> Public, conn |-> c,
                    met |-> {}, wrote |-> {}, new |-> {}, made |-> {}]]
    /\ free' = Left
    /\ shared' = (shared \/ OthersInFlight(r))
    /\ UNCHANGED <<orgs, schemas, path, base, astray>>

----------------------------------------------------------------------------
(* The platform administrator's handlers (api/routes/orgs.py).             *)

\* _out and ensure_default_site turn to organization o, _out back to Public.
Visit(r, o) ==
    LET q == req[r] IN
    /\ q # Idle /\ q.admin
    /\ q.new = {} /\ q.made = {} /\ q.wrote = {}
    /\ o \in orgs \cup {Public}
    /\ \E c \in Borrowed(r) :
         /\ path' = [path EXCEPT ![c] = o]
         /\ req' = [req EXCEPT ![r] =
                      [q EXCEPT !.conn = c, !.for = o, !.stage = "set", !.met = {}]]
    /\ free' = LeftBy(r)
    /\ UNCHANGED <<orgs, schemas, base, astray, shared>>

\* create_org inserts the organization and commits.
CreateOrg(r, o) ==
    LET q == req[r] IN
    /\ r \in Holding /\ q.admin /\ q.for = Public /\ q.stage = "set"
    /\ q.new = {} /\ q.made = {}
    /\ o \notin orgs
    /\ orgs' = orgs \cup {o}
    /\ base' = [base EXCEPT ![q.conn] = path[q.conn]]
    /\ req' = [req EXCEPT ![r] =
                 [q EXCEPT !.conn = Null, !.met = {}, !.wrote = {}, !.new = {o},
                           !.stage = "kept"]]
    /\ free' = Append(free, q.conn)
    /\ UNCHANGED <<schemas, path, astray, shared>>

\* provision_org_schema, in the next transaction.
Provision(r) ==
    LET q == req[r] IN
    /\ q # Idle /\ q.new # {}
    /\ \E c \in Borrowed(r) :
         req' = [req EXCEPT ![r] = [q EXCEPT !.conn = c, !.new = {}, !.made = q.new]]
    /\ free' = LeftBy(r)
    /\ UNCHANGED <<orgs, schemas, path, base, astray, shared>>

----------------------------------------------------------------------------
\* A boot provisions every organization and leaves the one connection it
\* used in the pool, pointing to the organization it came to last.
BootPath(o, c) == [d \in Conn |-> IF d = c THEN o ELSE Public]

Restart ==
    /\ \E o \in orgs, c \in Conn :
         /\ path' = BootPath(o, c)
         /\ base' = BootPath(o, c)
         /\ free' = <<c>>
    /\ req' = [r \in Req |-> Idle]
    /\ schemas' = schemas \cup orgs
    /\ UNCHANGED <<orgs, astray, shared>>

Init ==
    /\ \E o \in Org, c \in Conn :
         /\ orgs = {o}
         /\ path = BootPath(o, c)
         /\ free = <<c>>
    /\ schemas = orgs
    /\ base = path
    /\ req = [r \in Req |-> Idle]
    /\ astray = {}
    /\ shared = FALSE

Next ==
    \/ Restart
    \/ \E r \in Req :
         \/ \E o \in Schema, admin \in BOOLEAN : Arrive(r, o, admin)
         \/ Ready(r)
         \/ \E write \in BOOLEAN : Statement(r, write)
         \/ Commit(r) \/ Rollback(r) \/ Finish(r)
         \/ \E o \in Schema : Visit(r, o)
         \/ \E o \in Org : CreateOrg(r, o)
         \/ Provision(r)

Spec == Init /\ [][Next]_vars

----------------------------------------------------------------------------
(* Properties.                                                             *)

\* Every variable stays in its type.
TypeOK ==
    /\ schemas \subseteq orgs /\ orgs \subseteq Org
    /\ path \in [Conn -> Schema]
    /\ base \in [Conn -> Schema]
    /\ free \in Seq(Conn)
    /\ req \in [Req -> Requests]
    /\ astray \subseteq Schema \X Schema
    /\ shared \in BOOLEAN

\* Up to the first commit or rollback after a SET, a request meets the tables
\* of no organization but its own.
FirstTransactionAtHome ==
    \A r \in Req : req[r].stage = "set" => req[r].met \subseteq {req[r].for, Public}

\* While sessions never overlapped, across restarts too, and none went on
\* after a rollback had undone its setting, every statement and every row is
\* in the organization's own schema.
AloneAtHome ==
    ~shared =>
      /\ \A r \in Req : req[r] # Idle => req[r].met \subseteq {req[r].for}
      /\ astray = {}

\* "Schema-per-org isolation": rows of an organization are in its schema.
RowsAtHome == astray = {}
============================================================================
