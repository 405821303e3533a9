----------------------------- MODULE Migrations -----------------------------
(***************************************************************************)
(* The tables of the database across releases: the Alembic revisions of    *)
(* alembic/versions, which a Postgres database goes through when the       *)
(* server boots or an operator calls alembic, the repair of older SQLite   *)
(* files in backend/app/db/session.py, and the copies of the tables each   *)
(* organization has in its own schema on Postgres.                         *)
(*                                                                         *)
(* Abstracted: a table is the set of the columns and unique keys that came *)
(* or went after some release had made it; those it always had, types,     *)
(* indexes and rows are left out.  alembic runs all revisions of an upgrade *)
(* in one transaction (env.py): what it has done is in a draft until the   *)
(* last one is through.                                                    *)
(***************************************************************************)
EXTENDS Integers, Sequences

CONSTANTS
    Tenant,     \* ids of organizations
    FoundAt     \* revisions at which a Postgres database may be found

Public == "public"

ASSUME MigrationsAssumption ==
    /\ Tenant # {} /\ Public \notin Tenant
    /\ FoundAt \subseteq 0 .. 10

VARIABLES
    dialect,    \* "sqlite" or "postgres"
    revision,   \* alembic_version; SQLite has none
    catalog,    \* schema -> table -> what it has; SQLite has only public
    tenants,    \* rows of the organization table
    server,     \* where the boot is, what it has yet to do and to commit
    stuck       \* the revision an upgrade failed at, 0 if none did

migrations == <<dialect, revision, catalog, tenants, server, stuck>>

----------------------------------------------------------------------------
(* What models.py declares.                                                *)

IdentityModels ==
    [organization |-> {"slug"},
     platform_user |-> {},
     user |-> {"role", "org_id", "person_id", "uq_user_org_username"},
     person |-> {"org_id", "email", "department", "office", "shift_start", "shift_end",
                 "is_active", "deactivated_at"},
     faceembedding |-> {}, accessevent |-> {"org_id"}]

TimetableModels ==
    [site |-> {"org_id"}, offering |-> {"org_id"}, enrollment |-> {"org_id"},
     occurrence |-> {"org_id"}]

AttendanceModels ==
    [attendance |-> {"org_id", "occurrence_id", "site_id", "source", "late", "early_leave",
                     "latitude", "longitude", "trust_score", "trust_breakdown_json",
                     "checked_out_at"}]

SettingModels ==
    [appsetting |->
        {"office_name", "geo_lat", "geo_lng", "geo_radius_m", "weekend", "notify_late",
         "allow_kiosk_pin", "org_type", "kernel", "subject_label", "subject_label_plural",
         "staff_label", "group_label", "id_label", "require_checkout", "allow_checkout",
         "track_late", "track_early_leave", "geofence_on_self_punch", "auto_absent_at_close",
         "allow_multiple_present_per_day"},
     holiday |-> {"org_id"}]

EvidenceModels ==
    [spoofalert |-> {"org_id"}, captureprobe |-> {}, assistchunk |-> {}, assistmessage |-> {}]

\* Tables next to each other; those on the left come first.
Joined(f, g) == [t \in DOMAIN f \cup DOMAIN g |-> IF t \in DOMAIN f THEN f[t] ELSE g[t]]

Models ==
    Joined(Joined(IdentityModels, TimetableModels),
           Joined(AttendanceModels, Joined(SettingModels, EvidenceModels)))

\* TENANT_TABLE_NAMES
TenantTables ==
    {"person", "user", "faceembedding", "site", "offering", "enrollment", "occurrence",
     "attendance", "accessevent", "holiday", "spoofalert", "captureprobe", "assistchunk",
     "assistmessage"}

----------------------------------------------------------------------------
(* The revisions: tables they create, what they add to tables there are,   *)
(* and what they drop.                                                     *)

Nothing == [creates |-> <<>>, adds |-> <<>>, drops |-> <<>>]

InitialSchema ==
    [Nothing EXCEPT !.creates =
        [person |-> {"email", "is_active", "deactivated_at", "uq_person_employee_id"},
         user |-> {"role", "person_id", "uq_username"},
         faceembedding |-> {}, accessevent |-> {},
         attendance |-> {"source", "late", "checked_out_at"},
         appsetting |-> {}]]

Ops ==
    [Nothing EXCEPT
        !.creates = [holiday |-> {}],
        !.adds = [person |-> {"department", "office", "shift_start", "shift_end"},
                  attendance |-> {"early_leave", "latitude", "longitude"},
                  appsetting |-> {"office_name", "geo_lat", "geo_lng", "geo_radius_m",
                                  "weekend", "notify_late"}]]

KioskPin == [Nothing EXCEPT !.adds = [appsetting |-> {"allow_kiosk_pin"}]]

SpoofAlerts == [Nothing EXCEPT !.creates = [spoofalert |-> {}]]

AttendanceModes ==
    [Nothing EXCEPT
        !.creates = [site |-> {}, offering |-> {}, enrollment |-> {}, occurrence |-> {}],
        !.adds = [attendance |-> {"occurrence_id", "site_id"},
                  appsetting |->
                    {"org_type", "kernel", "subject_label", "subject_label_plural",
                     "staff_label", "group_label", "id_label", "require_checkout",
                     "allow_checkout", "track_late", "track_early_leave",
                     "geofence_on_self_punch", "auto_absent_at_close",
                     "allow_multiple_present_per_day"}]]

\* _ORG_TABLES
OrgTables == {"person", "user", "attendance", "accessevent", "site", "offering", "enrollment",
              "occurrence", "holiday", "spoofalert"}

Organizations ==
    [creates |-> [organization |-> {}],
     adds |-> [t \in OrgTables |-> {"org_id"} \cup (IF t = "person" THEN {"uq_person_org_employee_id"} ELSE {})],
     drops |-> [person |-> {"person_employee_id_key"}]]

SchemaPerOrg ==
    [creates |-> [platform_user |-> {}],
     adds |-> [organization |-> {"slug"}, user |-> {"uq_user_org_username"}],
     drops |-> [user |-> {"uq_username"}]]

PostgisGeo == [Nothing EXCEPT !.adds = [site |-> {"geom"}, attendance |-> {"punch_geom"}]]

AssistTables == [Nothing EXCEPT !.creates = [assistchunk |-> {}, assistmessage |-> {}]]

CaptureProbeTrust ==
    [Nothing EXCEPT
        !.creates = [captureprobe |-> {}],
        !.adds = [attendance |-> {"trust_score", "trust_breakdown_json"}]]

Revision == <<InitialSchema, Ops, KioskPin, SpoofAlerts, AttendanceModes, Organizations,
              SchemaPerOrg, PostgisGeo, AssistTables, CaptureProbeTrust>>
LastRevision == Len(Revision)

Of(change, t) == IF t \in DOMAIN change THEN change[t] ELSE {}

\* A schema after the revision r.
Evolved(tables, r) ==
    [t \in DOMAIN tables \cup DOMAIN r.creates |->
        ((IF t \in DOMAIN tables THEN tables[t] ELSE r.creates[t]) \cup Of(r.adds, t))
            \ Of(r.drops, t)]

\* Faulty: the trust columns go to public only.
MirroredGeo(n) == n = 8

\* Revisions that alter the tables of the organizations' schemas too
Mirrored(n) == n \in {8, 10}

Schemas(c) == DOMAIN c \ {Public}
AlteredBy(n, c) == IF Mirrored(n) THEN DOMAIN c ELSE {Public}

\* provision_org_schema: CREATE TABLE (LIKE public.t INCLUDING ALL) for the
\* tables the schema lacks.  Tables that are there stay as they are.
Provisioned(c, s) ==
    Joined(IF s \in DOMAIN c THEN c[s] ELSE <<>>, [t \in TenantTables |-> c[Public][t]])

ProvisionedAll(c, os) ==
    [s \in DOMAIN c \cup os |-> IF s \in os THEN Provisioned(c, s) ELSE c[s]]

\* Postgres keywords that cannot name a table without quotes
Reserved == {"user"}

\* A statement of revision n fails, and with it the transaction: a table or
\* column that is there, a table or key that is not, also if the program
\* catches the error, a reserved word, and a copy of a table that public
\* does not have (yet).
Refuses(n, c, os) ==
    LET r == Revision[n] IN
    \/ DOMAIN r.creates \cap DOMAIN c[Public] # {}
    \/ \E s \in AlteredBy(n, c) : \E t \in DOMAIN r.adds :
          \/ t \notin DOMAIN c[s]
          \/ n # 8 /\ r.adds[t] \cap c[s][t] # {}       \* 0008: IF NOT EXISTS
    \/ n # 7 /\ \E t \in DOMAIN r.drops : ~(r.drops[t] \subseteq c[Public][t])
    \/ n = 6 /\ OrgTables \cap Reserved # {}            \* UPDATE {table} SET org_id
    \/ n = 7 /\ os # {} /\ ~(TenantTables \subseteq DOMAIN c[Public])

FirstTenant == CHOOSE o \in Tenant : TRUE

\* upgrade() of revision n, which has statements for the schemas that are
\* there; 0007 makes those of the organizations os.
Altered(n, c) ==
    [s \in DOMAIN c |->
        IF s = Public THEN Evolved(c[s], Revision[n])
        ELSE IF Mirrored(n) THEN Evolved(c[s], [Revision[n] EXCEPT !.creates = <<>>])
        ELSE c[s]]
Upgraded(n, c, os) == IF n = 7 THEN ProvisionedAll(Altered(n, c), os) ELSE Altered(n, c)

\* downgrade() of revision n
Lowered(n, c) ==
    LET r == Revision[n]
        Stripped(tables) == [t \in DOMAIN tables |-> (tables[t] \ Of(r.adds, t)) \cup (IF n = 7 THEN Of(r.drops, t) ELSE {})]
        kept == DOMAIN c[Public] \ DOMAIN r.creates
        public == Stripped([t \in kept |-> c[Public][t]])
    IN [s \in (IF n = 7 THEN {Public} ELSE DOMAIN c) |->
          IF s = Public THEN public ELSE IF Mirrored(n) THEN Stripped(c[s]) ELSE c[s]]

\* A clone takes its ids from the sequence of the table in public, which
\* therefore cannot be dropped as long as there is one.
Cloned(n, c) ==
    n # 7 /\ \E s \in Schemas(c) : DOMAIN Revision[n].creates \cap DOMAIN c[s] # {}

----------------------------------------------------------------------------
(* session.py: what is added to the tables of an older SQLite file, in     *)
(* this order, each with its own commit.                                   *)

OnTable(t, columns) == [i \in DOMAIN columns |-> <<t, columns[i]>>]

SqliteColumns ==
    OnTable("user", <<"person_id", "role">>)
    \o OnTable("person", <<"email", "is_active", "deactivated_at">>)
    \o OnTable("attendance", <<"source", "late", "checked_out_at">>)
    \o OnTable("person", <<"department", "office", "shift_start", "shift_end">>)
    \o OnTable("attendance", <<"early_leave", "latitude", "longitude">>)
    \o OnTable("appsetting",
         <<"office_name", "geo_lat", "geo_lng", "geo_radius_m", "weekend", "notify_late",
           "allow_kiosk_pin", "org_type", "kernel", "subject_label", "subject_label_plural",
           "staff_label", "group_label", "id_label", "require_checkout", "allow_checkout",
           "track_late", "track_early_leave", "geofence_on_self_punch",
           "auto_absent_at_close", "allow_multiple_present_per_day">>)
    \o OnTable("attendance", <<"occurrence_id", "site_id">>)
    \o [i \in 1 .. 10 |->
          <<<<"user", "person", "attendance", "accessevent", "site", "offering", "enrollment",
              "occurrence", "holiday", "spoofalert">>[i], "org_id">>]
    \o <<<<"organization", "slug">>>>
    \o OnTable("attendance", <<"trust_score", "trust_breakdown_json">>)

\* A file made before there were revisions: what neither 0001 creates anew
\* nor SqliteColumns adds.
BeforeRevisions ==
    [person |-> {"uq_person_employee_id"}, user |-> {"uq_username"}, faceembedding |-> {},
     accessevent |-> {}, attendance |-> {}]

\* The file an earlier release left: no file, the oldest, or one with the
\* tables of a revision.  PostGIS is not for SQLite.
SqliteTables[n \in 0 .. LastRevision] ==
    IF n = 0 THEN <<>>
    ELSE Evolved(SqliteTables[n - 1], IF n = 8 THEN Nothing ELSE Revision[n])
SqliteFile(n) ==
    CASE n = -1 -> <<>>
      [] n = 0 -> BeforeRevisions
      [] OTHER -> SqliteTables[n]

\* The Postgres database an earlier release left at revision n, with the
\* schemas of its organizations.
PostgresTables[n \in 0 .. LastRevision] ==
    IF n = 0 THEN <<>> ELSE Evolved(PostgresTables[n - 1], Revision[n])
PostgresFound(n, os) ==
    LET public == PostgresTables[n]
    IN [s \in {Public} \cup (IF n < 7 THEN {} ELSE os) |->
          IF s = Public THEN public
          ELSE [t \in TenantTables \cap DOMAIN public |-> public[t]]]

----------------------------------------------------------------------------
(* Steps.                                                                  *)

Server(at) == server.at = at
NoDraft == [catalog |-> <<>>, tenants |-> {}]
Down == [at |-> "down", next |-> 0, todo |-> {}, open |-> {}, boots |-> FALSE, draft |-> NoDraft]

\* init_db on SQLite: create_all, one table after the other, in some order
BootSqlite ==
    /\ dialect = "sqlite" /\ Server("down")
    /\ server' = [server EXCEPT !.at = "tables"]
    /\ UNCHANGED <<dialect, revision, catalog, tenants, stuck>>

Missing == DOMAIN Models \ DOMAIN catalog[Public]

CreateTable ==
    /\ Server("tables")
    /\ Missing # {}
    /\ LET t == CHOOSE t \in Missing : TRUE
       IN catalog' = [catalog EXCEPT ![Public] = Joined(@, [new \in {t} |-> Models[new]])]
    /\ UNCHANGED <<dialect, revision, tenants, server, stuck>>

TablesCreated ==
    /\ Server("tables") /\ Missing = {}
    /\ server' = [server EXCEPT !.at = "columns", !.next = 1]
    /\ UNCHANGED <<dialect, revision, catalog, tenants, stuck>>

\* _sqlite_add_column
AddColumn ==
    /\ Server("columns") /\ server.next <= Len(SqliteColumns)
    /\ LET t == SqliteColumns[server.next][1]
           column == SqliteColumns[server.next][2]
       IN catalog' = [catalog EXCEPT ![Public][t] = @ \cup {column}]
    /\ server' = [server EXCEPT !.next = @ + 1]
    /\ UNCHANGED <<dialect, revision, tenants, stuck>>

\* _sqlite_username_per_org; the seeding that follows adds rows only.
UsernamePerOrg ==
    /\ Server("columns") /\ server.next > Len(SqliteColumns)
    /\ catalog' = [catalog EXCEPT
                     ![Public]["user"] = (@ \ {"uq_username"}) \cup {"uq_user_org_username"}]
    /\ server' = [server EXCEPT !.at = "up"]
    /\ UNCHANGED <<dialect, revision, tenants, stuck>>

\* alembic upgrade head, by an operator or (_run_alembic) by a boot: the
\* transaction begins.
UpgradeHead(booting) ==
    /\ dialect = "postgres" /\ Server("down")
    /\ server' = [Down EXCEPT !.at = "upgrade", !.next = revision, !.boots = booting,
                              !.draft = [catalog |-> catalog, tenants |-> tenants]]
    /\ UNCHANGED <<dialect, revision, catalog, tenants, stuck>>

\* The next revision, on what those before it in the transaction left, or
\* the end of both.  0006 makes the first organization.
UpgradeNext ==
    /\ Server("upgrade") /\ server.next < LastRevision
    /\ LET n == server.next + 1
           c == server.draft.catalog
           os == server.draft.tenants
       IN IF Refuses(n, c, os) THEN stuck' = n /\ server' = Down
          ELSE /\ server' = [server EXCEPT
                               !.next = n,
                               !.draft = [catalog |-> Upgraded(n, c, os),
                                          tenants |-> IF n = 6 THEN {FirstTenant} ELSE os]]
               /\ UNCHANGED stuck
    /\ UNCHANGED <<dialect, revision, catalog, tenants>>

\* The commit.  A boot goes on with the organizations, and makes a first one
\* if there is none.
UpgradeCommits ==
    /\ Server("upgrade") /\ server.next = LastRevision
    /\ revision' = server.next /\ catalog' = server.draft.catalog
    /\ tenants' = IF server.boots /\ server.draft.tenants = {} THEN {FirstTenant}
                  ELSE server.draft.tenants
    /\ server' = IF server.boots THEN [Down EXCEPT !.at = "tenants", !.todo = tenants'] ELSE Down
    /\ UNCHANGED <<dialect, stuck>>

\* seed_default_org provisions the next organization.  The new tables are
\* committed if a default site has to be written, else later.
Provision ==
    /\ Server("tenants")
    /\ \E o \in server.todo : \E commits \in BOOLEAN :
         LET open == server.open \cup {o}
         IN /\ catalog' = IF commits THEN ProvisionedAll(catalog, open) ELSE catalog
            /\ server' = [server EXCEPT !.todo = @ \ {o}, !.open = IF commits THEN {} ELSE open]
    /\ UNCHANGED <<dialect, revision, tenants, stuck>>

\* The commit at its end
AllProvisioned ==
    /\ Server("tenants") /\ server.todo = {}
    /\ catalog' = ProvisionedAll(catalog, server.open)
    /\ server' = [server EXCEPT !.at = "up", !.open = {}]
    /\ UNCHANGED <<dialect, revision, tenants, stuck>>

\* create_org: the row, and with the next commit the schema
TenantRow(o) ==
    /\ dialect = "postgres" /\ Server("up") /\ server.open = {}
    /\ o \notin tenants
    /\ tenants' = tenants \cup {o}
    /\ server' = [server EXCEPT !.open = {o}]
    /\ UNCHANGED <<dialect, revision, catalog, stuck>>
TenantSchema ==
    /\ dialect = "postgres" /\ Server("up") /\ server.open # {}
    /\ catalog' = ProvisionedAll(catalog, server.open)
    /\ server' = [server EXCEPT !.open = {}]
    /\ UNCHANGED <<dialect, revision, tenants, stuck>>

\* alembic downgrade -1, by an operator.  That of 0006 drops the table of the
\* organizations.
DowngradeOne ==
    /\ dialect = "postgres" /\ Server("down") /\ revision - 1 \in FoundAt
    /\ ~Cloned(revision, catalog)
    /\ catalog' = Lowered(revision, catalog)
    /\ tenants' = IF revision = 6 THEN {} ELSE tenants
    /\ revision' = revision - 1
    /\ UNCHANGED <<dialect, server, stuck>>

\* The process dies, and with it what it has not committed.
ServerDies ==
    /\ ~Server("down")
    /\ server' = Down
    /\ UNCHANGED <<dialect, revision, catalog, tenants, stuck>>

MigrationsInit ==
    /\ server = Down /\ stuck = 0
    /\ \/ /\ dialect = "sqlite" /\ revision = 0 /\ tenants = {}
          /\ \E n \in -1 .. LastRevision : catalog = [s \in {Public} |-> SqliteFile(n)]
       \/ /\ dialect = "postgres" /\ revision \in FoundAt
          /\ tenants \in IF revision < 6 THEN {{}} ELSE (SUBSET Tenant) \ {{}}
          /\ catalog = PostgresFound(revision, tenants)

MigrationsNext ==
    \/ BootSqlite \/ CreateTable \/ TablesCreated \/ AddColumn \/ UsernamePerOrg
    \/ \E booting \in BOOLEAN : UpgradeHead(booting)
    \/ UpgradeNext \/ UpgradeCommits
    \/ Provision \/ AllProvisioned
    \/ \E o \in Tenant : TenantRow(o)
    \/ TenantSchema
    \/ DowngradeOne
    \/ ServerDies

MigrationsSpec == MigrationsInit /\ [][MigrationsNext]_migrations

----------------------------------------------------------------------------
(* Properties.                                                             *)

Complete(tables, t) == t \in DOMAIN tables /\ Models[t] \subseteq tables[t]

\* Whatever release left the database, and however many boots died over it,
\* a server that is up finds every table and column that models.py declares,
\* and usernames unique per organization only: in public, and on Postgres in
\* the schema of each organization, whose tables are like those of public
\* (0010_capture_probe_trust.py:65, session.py:63).
ServedTablesAreComplete ==
    Server("up") =>
        /\ \A t \in DOMAIN Models : Complete(catalog[Public], t)
        /\ "uq_username" \notin catalog[Public]["user"]
        /\ dialect = "postgres" =>
             \A o \in tenants \ server.open, t \in TenantTables :
                 o \in Schemas(catalog) /\ catalog[o][t] = catalog[Public][t]

\* README.md:115 has the operator of a Postgres database run "alembic
\* upgrade head": it goes through.
UpgradesGoThrough == stuck = 0
============================================================================
