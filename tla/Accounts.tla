------------------------------ MODULE Accounts ------------------------------
(***************************************************************************)
(* People and logins of one organization: register and login lookups of    *)
(* backend/app/api/routes/auth.py, staff accounts of users.py, the people  *)
(* records and logins of persons.py, with the uniqueness tests of          *)
(* _common.py and the unique constraints of db/models.py behind them.      *)
(*                                                                         *)
(* These are plain handlers in worker threads: each is cut where it reads  *)
(* and where it commits.  "overtaken" remembers that some handler decided  *)
(* by reads that a commit of another had overtaken, "died" that the        *)
(* process died with a handler under way, "byPlatform" that a platform     *)
(* administrator changed a role.  Passwords and tokens are left out: a     *)
(* request names its user by id and get_current_user reads the row anew.   *)
(***************************************************************************)
EXTENDS Integers, Sequences, FiniteSets

CONSTANTS
    Clerk,          \* worker threads
    Username, EmployeeId,
    NoId,           \* employee_id is None
    MaxPeople, MaxUsers, MaxForms   \* bounds: rows, requests of a behaviour

ASSUME AccountsAssumption ==
    /\ NoId \notin EmployeeId
    /\ {MaxPeople, MaxUsers, MaxForms} \subseteq Nat

VARIABLES
    people,     \* persons in the order of their ids
    users,      \* users in the order of their ids
    form,       \* what each thread is doing
    forms,      \* requests taken up so far
    overtaken, died, byPlatform

accounts == <<people, users, form, forms, overtaken, died, byPlatform>>

Roles == {"admin", "hr", "employee"}
NoPerson == 0
Platform == 0       \* a PlatformUser as the one who asks

NewPerson(id, how) == [id |-> id, how |-> how]
NewUser(name, role, person) == [name |-> name, role |-> role, person |-> person]

Admins(rows) == {u \in DOMAIN rows : rows[u].role = "admin"}

\* ensure_unique_username and ensure_unique_employee_id, but for one row
NameTaken(name, self) == \E u \in DOMAIN users \ {self} : users[u].name = name
IdTaken(id, self) == id # NoId /\ \E p \in DOMAIN people \ {self} : people[p].id = id

\* uq_user_org_username and the unique person_id of User
UsersFit(rows) ==
    \A u, v \in DOMAIN rows : u # v =>
        /\ rows[u].name # rows[v].name
        /\ rows[u].person = NoPerson \/ rows[u].person # rows[v].person

\* uq_person_org_employee_id; NULLs do not collide
PeopleFit(rows) ==
    \A p, q \in DOMAIN rows : p # q => rows[p].id = NoId \/ rows[p].id # rows[q].id

----------------------------------------------------------------------------
Blank == [op |-> "idle", fresh |-> TRUE]

Takes(c, step) ==
    /\ form[c] = Blank /\ forms < MaxForms /\ forms' = forms + 1
    /\ form' = [form EXCEPT ![c] = step]
    /\ UNCHANGED <<people, users, overtaken, died, byPlatform>>

\* A refusal, or an IntegrityError that rolls the transaction back.
Refused(c) ==
    /\ form' = [form EXCEPT ![c] = Blank]
    /\ overtaken' = (overtaken \/ ~form[c].fresh)
    /\ UNCHANGED <<people, users, forms, died, byPlatform>>

\* Clerk c commits a change of a table and goes on with next.
Commits(c, next) ==
    /\ form' = [d \in Clerk |->
                  IF d = c THEN next
                  ELSE IF form[d] = Blank THEN Blank
                  ELSE [form[d] EXCEPT !.fresh = FALSE]]
    /\ overtaken' = (overtaken \/ ~form[c].fresh)
    /\ UNCHANGED <<forms, died>>

SavesPeople(c, rows, next) ==
    IF PeopleFit(rows)
    THEN people' = rows /\ Commits(c, next) /\ UNCHANGED <<users, byPlatform>>
    ELSE Refused(c)
SavesUsers(c, rows) ==
    IF UsersFit(rows)
    THEN users' = rows /\ Commits(c, Blank) /\ UNCHANGED people
    ELSE Refused(c) /\ UNCHANGED byPlatform

----------------------------------------------------------------------------
(* register: two looks, the person's commit, the user's commit.            *)

\* Faulty: the user name is not looked up.
RegisterLookIdOnly(c, name, id) ==
    Takes(c, [op |-> "register", fresh |-> TRUE, name |-> name, id |-> id])

RegisterLook(c, name, id) ==
    /\ ~NameTaken(name, 0)
    /\ Takes(c, [op |-> "register", fresh |-> TRUE, name |-> name, id |-> id])

RegisterPerson(c) ==
    /\ form[c].op = "register" /\ Len(people) < MaxPeople
    /\ IF IdTaken(form[c].id, 0) THEN Refused(c)
       ELSE SavesPeople(c, Append(people, NewPerson(form[c].id, "register")),
                        [op |-> "register_user", fresh |-> form[c].fresh,
                         name |-> form[c].name, person |-> Len(people) + 1])
RegisterUser(c) ==
    /\ form[c].op = "register_user" /\ Len(users) < MaxUsers
    /\ SavesUsers(c, Append(users, NewUser(form[c].name, "employee", form[c].person)))
    /\ UNCHANGED byPlatform

(* create_person, a row of import_persons (which skips where the other     *)
(* refuses) and the employee_id of update_person, by require_people: HR,   *)
(* administrators, or the platform's administrator, who is always there.   *)
PersonLook(c, id, self) ==
    /\ ~IdTaken(id, self)
    /\ Takes(c, [op |-> "person", fresh |-> TRUE, id |-> id, self |-> self])
PersonCommit(c) ==
    /\ form[c].op = "person"
    /\ form[c].self = NoPerson => Len(people) < MaxPeople
    /\ SavesPeople(c, IF form[c].self = NoPerson THEN Append(people, NewPerson(form[c].id, "staff"))
                      ELSE [people EXCEPT ![form[c].self].id = form[c].id], Blank)

(* create_user *)
UserLook(c, name, role) ==
    /\ ~NameTaken(name, 0)
    /\ Takes(c, [op |-> "user", fresh |-> TRUE, name |-> name, role |-> role])
UserCommit(c) ==
    /\ form[c].op = "user" /\ Len(users) < MaxUsers
    /\ SavesUsers(c, Append(users, NewUser(form[c].name, form[c].role, NoPerson)))
    /\ UNCHANGED byPlatform

(* update_user: who asks was an administrator when the request came.       *)

\* Faulty: administrators may demote themselves.
MayDemoteAnyone(by, u, role) == TRUE

MaySetRole(by, u, role) == by = Platform \/ by # u \/ role = "admin"

\* The session writes the column only if it read another role.
RoleLook(c, by, u, role) ==
    /\ MaySetRole(by, u, role) /\ users[u].role # role
    /\ Takes(c, [op |-> "role", fresh |-> TRUE, by |-> by, user |-> u, role |-> role])
RoleCommit(c) ==
    /\ form[c].op = "role"
    /\ SavesUsers(c, [users EXCEPT ![form[c].user].role = form[c].role])
    /\ byPlatform' = (byPlatform \/ form[c].by = Platform)

(* set_person_login: renames the person's login or makes one.              *)
Logins(p) == {u \in DOMAIN users : users[u].person = p}

LoginLook(c, p, name) ==
    /\ \A u \in DOMAIN users \ Logins(p) : users[u].name # name
    /\ Takes(c, [op |-> "login", fresh |-> TRUE, person |-> p, name |-> name, login |-> Logins(p)])
LoginCommit(c) ==
    /\ form[c].op = "login"
    /\ form[c].login = {} => Len(users) < MaxUsers
    /\ SavesUsers(c, IF form[c].login = {}
                     THEN Append(users, NewUser(form[c].name, "employee", form[c].person))
                     ELSE [u \in DOMAIN users |->
                             IF u \in form[c].login THEN [users[u] EXCEPT !.name = form[c].name]
                             ELSE users[u]])
    /\ UNCHANGED byPlatform

\* The process dies; handlers under way are gone.
Dies ==
    /\ \E c \in Clerk : form[c] # Blank
    /\ form' = [c \in Clerk |-> Blank] /\ died' = TRUE
    /\ UNCHANGED <<people, users, forms, overtaken, byPlatform>>

Look(c) ==
    \/ \E name \in Username, id \in EmployeeId \cup {NoId} : RegisterLook(c, name, id)
    \/ \E id \in EmployeeId \cup {NoId}, self \in DOMAIN people \cup {NoPerson} :
         PersonLook(c, id, self)
    \/ \E p \in DOMAIN people, name \in Username : LoginLook(c, p, name)
    \/ \E u \in Admins(users) \cup {Platform} :
         \/ \E name \in Username, role \in Roles : UserLook(c, name, role)
         \/ \E v \in DOMAIN users, role \in Roles : RoleLook(c, u, v, role)

AccountsInit ==
    /\ people = <<>>
    /\ \E name \in Username : users = <<NewUser(name, "admin", NoPerson)>>
    /\ form = [c \in Clerk |-> Blank] /\ forms = 0
    /\ overtaken = FALSE /\ died = FALSE /\ byPlatform = FALSE

AccountsNext ==
    \/ Dies
    \/ \E c \in Clerk :
         \/ Look(c) \/ RegisterPerson(c) \/ RegisterUser(c) \/ PersonCommit(c)
         \/ UserCommit(c) \/ RoleCommit(c) \/ LoginCommit(c)

AccountsSpec == AccountsInit /\ [][AccountsNext]_accounts

----------------------------------------------------------------------------
(* Properties.                                                             *)

\* An organization that has an administrator keeps one: nobody can demote
\* himself, and whoever demotes another is one.  Two administrators whose
\* requests overlap can demote each other (users.py:87).
AdminRemains == ~overtaken /\ ~byPlatform => Admins(users) # {}

\* Who registered has a login, although the person and the user are
\* committed one after the other: the second commit fails only if another
\* handler took the name in between, or if the process died (auth.py:209).
RegisteredHasLogin ==
    ~overtaken /\ ~died =>
        \A p \in DOMAIN people :
            people[p].how = "register" =>
                \/ Logins(p) # {}
                \/ \E c \in Clerk : form[c].op = "register_user" /\ form[c].person = p
============================================================================
