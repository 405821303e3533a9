----------------------------- MODULE Workspace ------------------------------
(***************************************************************************)
(* What a deployment keeps about its organizations and their sites, and    *)
(* who writes it: the boot (backend/app/db/session.py, main._boot), which  *)
(* seeds and repairs in a series of commits and may die between any two of *)
(* them, and the handlers of orgs.py, settings.py and schedule.py that run *)
(* in worker threads once the server is up.                                *)
(*                                                                         *)
(* Threads see committed rows only.  A handler is cut where it reads and   *)
(* where it commits; "raced" remembers that a commit to the sites was made *)
(* by a handler whose reads an earlier commit had overtaken.               *)
(***************************************************************************)
EXTENDS Integers, Sequences, FiniteSets, OrgPresets

CONSTANTS
    Thread,         \* worker threads
    Word,           \* what slugify makes of a name
    Place,          \* a position, and the area around it
    Types,          \* organization types the behaviours use
    MaxOrgs, MaxSites,  \* bounds on the rows
    MaxCalls            \* bound on the requests of a behaviour

ASSUME WorkspaceAssumption ==
    /\ Word # {} /\ Place # {}
    /\ Types \subseteq OrgTypes
    /\ {MaxOrgs, MaxSites, MaxCalls} \subseteq Nat

VARIABLES
    office,     \* the AppSetting row 1, a set of at most one record
    org,        \* organizations in the order of their ids
    schema,     \* organizations whose Postgres schema is committed
    site,       \* sites by id
    lastSite,   \* the highest site id given
    unowned,    \* rows of the other tenant tables have no org_id
    admin,      \* a platform administrator exists
    boot,       \* where the boot is
    work,       \* what each thread is doing
    calls,      \* requests taken up so far
    raced

workspace == <<office, org, schema, site, lastSite, unowned, admin, boot, work, calls, raced>>
tables == <<office, org, schema, site, lastSite, unowned, admin>>

NoSlug == <<>>
Nowhere == "nowhere"
NoOrg == 0
NoSite == 0

\* A fence is a position and whether a radius above 0 goes with it.
OpenGround == [at |-> Nowhere, wide |-> FALSE]
Fences == {OpenGround} \cup [at : Place, wide : BOOLEAN]

SiteFences == {OpenGround} \cup [at : Place, wide : {TRUE}]

Orgs == DOMAIN org
SitesOf(sites, o) == {s \in DOMAIN sites : sites[s].org = o}
Defaults(sites, o) == {s \in SitesOf(sites, o) : sites[s].default}

NewOrg(word, slug, fence, gated) ==
    [word |-> word, slug |-> slug, fence |-> fence, gated |-> gated]
NewSite(o, default, fence) == [org |-> o, default |-> default, fence |-> fence]

\* profile switch of the models' defaults: the workplace preset
Gated(type, old) ==
    ApplyOrgType([geofence_on_self_punch |-> old], type).geofence_on_self_punch

----------------------------------------------------------------------------
(* Slugs: word, word-2, word-3, ...                                        *)

\* unique_slug: the first candidate no other organization has
FirstFree(orgs, word, self) ==
    LET taken == {orgs[i].slug : i \in DOMAIN orgs \ {self}}
        n == CHOOSE k \in 1 .. Len(orgs) + 1 :
               /\ <<word, k>> \notin taken
               /\ \A j \in 1 .. k - 1 : <<word, j>> \in taken
    IN <<word, n>>

\* _ensure_org_slugs: in the order of the ids, each sees the slugs given
\* before its own.
SlugsEnsured(orgs, named) ==
    \A i \in DOMAIN orgs :
        LET seen == [j \in DOMAIN orgs |-> IF j < i THEN named[j] ELSE orgs[j]]
        IN named[i].slug = IF orgs[i].slug # NoSlug THEN orgs[i].slug
                           ELSE FirstFree(seen, orgs[i].word, i)

----------------------------------------------------------------------------
(* The location gate of a self punch.                                      *)

\* point_within_site and point_within_office at the grain of places
Within(here, fence) == fence.wide /\ here = fence.at

\* clock.geofence_active
GeofenceActive(o) == o.fence.at # Nowhere /\ o.fence.wide

\* Sites with coordinates; a radius is not asked for.
Fenced(sites, o) == {s \in SitesOf(sites, o) : sites[s].fence.at # Nowhere}

\* assert_punch_location: an explicit site decides alone; else any site with
\* coordinates replaces the office's own fence.
PunchAllowed(orgs, sites, o, here, s) ==
    \/ ~orgs[o].gated
    \/ s # NoSite /\ s \in SitesOf(sites, o) /\ Within(here, sites[s].fence)
    \/ /\ s = NoSite
       /\ Fenced(sites, o) # {}
       /\ \E f \in Fenced(sites, o) : Within(here, sites[f].fence)
    \/ /\ s = NoSite
       /\ Fenced(sites, o) = {}
       /\ GeofenceActive(orgs[o]) => Within(here, orgs[o].fence)

\* location_gate_active: what GET /auth/config tells the client
LocationGate(orgs, sites, o) ==
    orgs[o].gated /\ (Fenced(sites, o) # {} \/ GeofenceActive(orgs[o]))

----------------------------------------------------------------------------
(* Default sites.                                                          *)

\* Faulty: the radius is not copied.
SeededSiteNarrow(o) == NewSite(o, TRUE, [org[o].fence EXCEPT !.wide = FALSE])

\* The site ensure_default_site makes of an organization without any.
SeededSite(o) == NewSite(o, TRUE, org[o].fence)

Promoted(sites, s) == [sites EXCEPT ![s].default = TRUE]

\* ensure_default_site on what it has seen of organization o: nothing, or
\* one of the existing sites promoted, or a first site.
DefaultSiteEnsured(o, seen) ==
    IF \E s \in seen : site[s].default
    THEN UNCHANGED <<site, lastSite>>
    ELSE IF seen # {}
    THEN /\ \E s \in seen : site' = Promoted(site, s)
         /\ UNCHANGED lastSite
    ELSE /\ lastSite < MaxSites
         /\ lastSite' = lastSite + 1
         /\ site' = [s \in DOMAIN site \cup {lastSite + 1} |->
                        IF s \in DOMAIN site THEN site[s] ELSE SeededSite(o)]

----------------------------------------------------------------------------
(* Boot: init_db and then _boot, which seeds everything a second time.     *)

Idle == [op |-> "idle", fresh |-> TRUE]

BootAt(at) == boot.at = at
BootGoes(at) == boot' = [boot EXCEPT !.at = at]

Start ==
    /\ BootAt("down")
    /\ boot' = [at |-> "settings", second |-> FALSE, todo |-> {}, made |-> {}]
    /\ UNCHANGED <<tables, work, calls, raced>>

\* seed_office_settings
SeedOfficeSettings ==
    /\ BootAt("settings") /\ BootGoes("org")
    /\ \E w \in Word :
         office' = IF office = {} THEN {NewOrg(w, NoSlug, OpenGround, TRUE)} ELSE office
    /\ UNCHANGED <<org, schema, site, lastSite, unowned, admin, work, calls, raced>>

\* seed_default_org, the insert: the first organization takes the settings.
SeedDefaultOrg ==
    /\ BootAt("org") /\ BootGoes("backfill")
    /\ org' = IF org # <<>> THEN org
              ELSE LET row == CHOOSE r \in office : TRUE
                   IN <<[row EXCEPT !.slug = FirstFree(org, row.word, 1)]>>
    /\ UNCHANGED <<office, schema, site, lastSite, unowned, admin, work, calls, raced>>

\* _backfill_org_id: rows of the time before organizations go to the first
BackfillOrgId ==
    /\ BootAt("backfill") /\ BootGoes("slugs")
    /\ site' = [s \in DOMAIN site |->
                  IF site[s].org = NoOrg THEN [site[s] EXCEPT !.org = 1] ELSE site[s]]
    /\ unowned' = FALSE
    /\ UNCHANGED <<office, org, schema, lastSite, admin, work, calls, raced>>

EnsureOrgSlugs ==
    /\ BootAt("slugs")
    /\ boot' = [boot EXCEPT !.at = "sites", !.todo = Orgs]
    /\ \E slugs \in [Orgs -> {org[i].slug : i \in Orgs} \cup Word \X (1 .. Len(org) + 1)] :
         LET named == [i \in Orgs |-> [org[i] EXCEPT !.slug = slugs[i]]]
         IN SlugsEnsured(org, named) /\ org' = named
    /\ UNCHANGED <<office, schema, site, lastSite, unowned, admin, work, calls, raced>>

\* provision_org_schema and ensure_default_site for the next organization.
\* Creating the schema is part of the open transaction: it is committed with
\* the next commit, which comes at once only if a site is written.
SeedSite ==
    /\ BootAt("sites")
    /\ \E o \in boot.todo :
         /\ DefaultSiteEnsured(o, SitesOf(site, o))
         /\ LET made == boot.made \cup {o}
                wrote == site' # site
            IN /\ schema' = IF wrote THEN schema \cup made ELSE schema
               /\ boot' = [boot EXCEPT !.todo = @ \ {o}, !.made = IF wrote THEN {} ELSE made]
    /\ UNCHANGED <<office, org, unowned, admin, work, calls, raced>>

\* Faulty: the schemas created so far are not committed.
SeededLazily ==
    /\ BootAt("sites") /\ boot.todo = {}
    /\ BootGoes(IF boot.second THEN "up" ELSE "admin")
    /\ UNCHANGED <<tables, work, calls, raced>>

\* The last commit of seed_default_org.
Seeded ==
    /\ BootAt("sites") /\ boot.todo = {}
    /\ schema' = schema \cup boot.made
    /\ boot' = [boot EXCEPT !.at = IF boot.second THEN "up" ELSE "admin", !.made = {}]
    /\ UNCHANGED <<office, org, site, lastSite, unowned, admin, work, calls, raced>>

\* seed_admin, between the two rounds
SeedAdmin ==
    /\ BootAt("admin")
    /\ admin' = TRUE
    /\ boot' = [boot EXCEPT !.at = "settings", !.second = TRUE]
    /\ UNCHANGED <<office, org, schema, site, lastSite, unowned, work, calls, raced>>

\* The process dies; what was committed stays.
Crash ==
    /\ ~BootAt("down")
    /\ BootGoes("down")
    /\ work' = [t \in Thread |-> Idle]
    /\ UNCHANGED <<tables, calls, raced>>

Boot == \/ Start \/ SeedOfficeSettings \/ SeedDefaultOrg \/ BackfillOrgId
        \/ EnsureOrgSlugs \/ SeedSite \/ Seeded \/ SeedAdmin

----------------------------------------------------------------------------
(* Handlers.  work[t] is Idle or what thread t has read; "fresh" until a   *)
(* commit of another thread writes sites.                                  *)

Free(t) == BootAt("up") /\ work[t] = Idle /\ calls < MaxCalls /\ calls' = calls + 1
Doing(t, op) == BootAt("up") /\ work[t].op = op /\ UNCHANGED calls
Begins(t, step) == work' = [work EXCEPT ![t] = step]

\* Thread t commits to the sites and goes on with next.
SiteCommit(t, next) ==
    /\ work' = [u \in Thread |->
                  IF u = t THEN next
                  ELSE IF work[u] = Idle THEN Idle
                  ELSE [work[u] EXCEPT !.fresh = FALSE]]
    /\ raced' = (raced \/ ~work[t].fresh)

\* A refusal, or a database error that undoes the transaction.
Fails(t) == Begins(t, Idle) /\ UNCHANGED <<tables, boot, raced>>

\* create_org: a requested slug must be free, else the next free one is taken
OrgStart(t) ==
    /\ Free(t)
    /\ \E w \in Word, type \in Types, asked \in {NoSlug} \cup {<<v, 1>> : v \in Word} :
         LET slug == IF asked = NoSlug THEN FirstFree(org, w, 0) ELSE asked
             refused == \E i \in Orgs : org[i].slug = slug
         IN Begins(t, IF refused THEN Idle
                      ELSE [op |-> "org_insert", fresh |-> TRUE, slug |-> slug, word |-> w,
                            gated |-> Gated(type, TRUE)])
    /\ UNCHANGED <<tables, boot, raced>>

\* The insert; the unique index refuses a slug taken in the meantime.
OrgInsert(t) ==
    /\ Doing(t, "org_insert") /\ Len(org) < MaxOrgs
    /\ IF \E i \in Orgs : org[i].slug = work[t].slug THEN Fails(t)
       ELSE /\ org' = Append(org, NewOrg(work[t].word, work[t].slug, OpenGround, work[t].gated))
            /\ Begins(t, [op |-> "org_schema", fresh |-> TRUE, org |-> Len(org) + 1])
            /\ UNCHANGED <<office, schema, site, lastSite, unowned, admin, boot, raced>>

\* provision_org_schema, its commit, and what ensure_default_site reads
OrgProvision(t) ==
    /\ Doing(t, "org_schema")
    /\ schema' = schema \cup {work[t].org}
    /\ Begins(t, [op |-> "org_site", fresh |-> TRUE, org |-> work[t].org,
                  seen |-> SitesOf(site, work[t].org)])
    /\ UNCHANGED <<office, org, site, lastSite, unowned, admin, boot, raced>>

\* Rows read before and gone by now make the update fail.
OrgSite(t) ==
    /\ Doing(t, "org_site")
    /\ IF work[t].seen \subseteq DOMAIN site
       THEN /\ DefaultSiteEnsured(work[t].org, work[t].seen)
            /\ IF site' = site THEN Begins(t, Idle) /\ UNCHANGED raced ELSE SiteCommit(t, Idle)
            /\ UNCHANGED <<office, org, schema, unowned, admin, boot>>
       ELSE Fails(t)

\* update_org with a slug: look, then write under the unique index
SlugStart(t) ==
    /\ Free(t)
    /\ \E o \in Orgs, v \in Word :
         /\ ~\E i \in Orgs \ {o} : org[i].slug = <<v, 1>>
         /\ Begins(t, [op |-> "slug", fresh |-> TRUE, org |-> o, slug |-> <<v, 1>>])
    /\ UNCHANGED <<tables, boot, raced>>
SlugCommit(t) ==
    /\ Doing(t, "slug")
    /\ IF \E i \in Orgs \ {work[t].org} : org[i].slug = work[t].slug THEN Fails(t)
       ELSE /\ org' = [org EXCEPT ![work[t].org].slug = work[t].slug]
            /\ Begins(t, Idle)
            /\ UNCHANGED <<office, schema, site, lastSite, unowned, admin, boot, raced>>

\* update_office_settings, and update_org with the same fields: values of
\* the request are written over whatever is there.
UpdateSettings(t) ==
    /\ Free(t)
    /\ \E o \in Orgs, type \in Types, fence \in Fences :
         org' = [org EXCEPT ![o].fence = fence, ![o].gated = Gated(type, @)]
    /\ UNCHANGED <<office, schema, site, lastSite, unowned, admin, boot, work, raced>>

----------------------------------------------------------------------------
(* schedule.py: sites.  The session writes only columns that changed, so a *)
(* flag is cleared on the rows that were read with it set, and the row's   *)
(* own flag is written only if it was read otherwise.                      *)

\* Faulty: create_site leaves the other sites' flags alone.
OthersUncleared(o, self) == {}

\* The sites of o other than self whose flag the handler will clear
OthersDefault(o, self) == Defaults(site, o) \ {self}

Cleared(sites, seen) ==
    [s \in DOMAIN sites |->
        IF s \in seen THEN [sites[s] EXCEPT !.default = FALSE] ELSE sites[s]]

\* create_site: with is_default set it reads the others first
CreateSiteStart(t) ==
    /\ Free(t) /\ lastSite < MaxSites
    /\ \E o \in Orgs, default \in BOOLEAN, fence \in SiteFences :
         Begins(t, [op |-> "create_site", fresh |-> TRUE, org |-> o, default |-> default, fence |-> fence,
                    seen |-> IF default THEN OthersDefault(o, NoSite) ELSE {}])
    /\ UNCHANGED <<tables, boot, raced>>
CreateSiteCommit(t) ==
    /\ Doing(t, "create_site") /\ lastSite < MaxSites
    /\ IF work[t].seen \subseteq DOMAIN site
       THEN LET new == lastSite + 1
                others == Cleared(site, work[t].seen)
            IN /\ site' = [s \in DOMAIN site \cup {new} |->
                             IF s = new THEN NewSite(work[t].org, work[t].default, work[t].fence)
                             ELSE others[s]]
               /\ lastSite' = new
               /\ SiteCommit(t, Idle)
               /\ UNCHANGED <<office, org, schema, unowned, admin, boot>>
       ELSE Fails(t)

\* update_site: it loads its row, then reads the others, then commits
UpdateSiteStart(t) ==
    /\ Free(t)
    /\ \E s \in DOMAIN site, default \in BOOLEAN, fence \in SiteFences :
         Begins(t, [op |-> "update_site", fresh |-> TRUE, self |-> s, default |-> default,
                    fence |-> fence, was |-> site[s].default])
    /\ UNCHANGED <<tables, boot, raced>>
UpdateSiteLook(t) ==
    /\ Doing(t, "update_site")
    /\ IF work[t].self \in DOMAIN site
       THEN Begins(t, [op |-> "save_site", fresh |-> work[t].fresh, self |-> work[t].self,
                       fence |-> work[t].fence, default |-> work[t].default, was |-> work[t].was,
                       seen |-> IF work[t].default
                                THEN OthersDefault(site[work[t].self].org, work[t].self) ELSE {}])
       ELSE Begins(t, Idle)
    /\ UNCHANGED <<tables, boot, raced>>
UpdateSiteCommit(t) ==
    /\ Doing(t, "save_site")
    /\ IF work[t].seen \cup {work[t].self} \subseteq DOMAIN site
       THEN LET self == work[t].self
                kept == IF work[t].default = work[t].was THEN site[self].default ELSE work[t].default
            IN /\ site' = [Cleared(site, work[t].seen) EXCEPT
                             ![self].default = kept, ![self].fence = work[t].fence]
               /\ SiteCommit(t, Idle)
               /\ UNCHANGED <<office, org, schema, lastSite, unowned, admin, boot>>
       ELSE Fails(t)

\* delete_site, whether or not it was the default
DeleteSite(t) ==
    /\ Free(t)
    /\ \E s \in DOMAIN site : site' = [r \in DOMAIN site \ {s} |-> site[r]]
    /\ SiteCommit(t, Idle)
    /\ UNCHANGED <<office, org, schema, lastSite, unowned, admin, boot>>

Handler(t) ==
    \/ OrgStart(t) \/ OrgInsert(t) \/ OrgProvision(t) \/ OrgSite(t)
    \/ SlugStart(t) \/ SlugCommit(t) \/ UpdateSettings(t)
    \/ CreateSiteStart(t) \/ CreateSiteCommit(t)
    \/ UpdateSiteStart(t) \/ UpdateSiteLook(t) \/ UpdateSiteCommit(t)
    \/ DeleteSite(t)

----------------------------------------------------------------------------
(* The databases a boot may find: an empty one, or one of an earlier       *)
(* release with organizations that have no slug and rows without org_id.   *)

EarlierOrgs == {<<>>} \cup {<<NewOrg(w, NoSlug, f, TRUE)>> : w \in Word, f \in Fences}
                      \cup {<<NewOrg(w, NoSlug, OpenGround, TRUE),
                              NewOrg(w, NoSlug, OpenGround, TRUE)>> : w \in Word}
EarlierSites == {<<>>} \cup {<<NewSite(NoOrg, d, OpenGround)>> : d \in BOOLEAN}

WorkspaceInit ==
    /\ office \in {{}} \cup {{NewOrg(w, NoSlug, f, TRUE)} : w \in Word, f \in Fences}
    /\ org \in EarlierOrgs
    /\ Len(org) <= MaxOrgs
    /\ schema = {} /\ admin = FALSE
    /\ site \in EarlierSites
    /\ lastSite = Len(site)
    /\ unowned \in BOOLEAN
    /\ boot = [at |-> "down", second |-> FALSE, todo |-> {}, made |-> {}]
    /\ work = [t \in Thread |-> Idle]
    /\ calls = 0
    /\ raced = FALSE

WorkspaceNext == Boot \/ Crash \/ \E t \in Thread : Handler(t)

WorkspaceSpec == WorkspaceInit /\ [][WorkspaceNext]_workspace

----------------------------------------------------------------------------
(* Properties.                                                             *)

\* A boot that gets through, after however many that died, hands over a
\* database without legacy: every row belongs to an organization, every
\* organization has its own slug, a committed schema and a default site, and
\* somebody can administer the platform (session.py:251-290, main.py:62).
Healed ==
    /\ org # <<>> /\ admin /\ ~unowned
    /\ \A o \in Orgs : org[o].slug # NoSlug /\ o \in schema /\ Defaults(site, o) # {}
    /\ \A o, p \in Orgs : o # p => org[o].slug # org[p].slug
    /\ \A s \in DOMAIN site : site[s].org \in Orgs
BootHeals == [][boot.at # "up" /\ boot'.at = "up" => Healed']_workspace

\* An organization has two default sites, one of which auth/config picks
\* without an order, only if two writers of sites overlapped.
OneDefaultUnlessRaced ==
    ~raced => \A o \in Orgs : Cardinality(Defaults(site, o)) <= 1

\* Where people of an organization may punch, and whether auth/config has
\* their clients send a position, does not change because the server was
\* restarted and gave it its first site, unless the office had coordinates
\* and no radius: that fence held nobody back, and the site made of it lets
\* nobody in (session.py:237).
BootKeepsTheFence ==
    [][ SeedSite =>
        \A o \in Orgs, here \in Place \cup {Nowhere} :
            \/ org[o].fence.at # Nowhere /\ ~org[o].fence.wide
            \/ /\ PunchAllowed(org, site', o, here, NoSite)
                    <=> PunchAllowed(org, site, o, here, NoSite)
               /\ LocationGate(org, site', o) <=> LocationGate(org, site, o) ]_workspace
============================================================================
