--------------------------- MODULE WorkspaceProofs ---------------------------
(***************************************************************************)
(* Organizations and sites, accounts, and the limiter of the login page,   *)
(* for any number of threads, organizations, sites, people, logins and     *)
(* requests, and any set of words, places and types.                       *)
(***************************************************************************)
EXTENDS Workspace, Accounts, RateLimiter, FiniteSetTheorems, SequenceTheorems, TLAPS

----------------------------------------------------------------------------
(* The inductive invariant, in parts.                                      *)

OrgRow == [word : Word, slug : {NoSlug} \cup Word \X Nat, fence : Fences, gated : BOOLEAN]
SiteRow == [org : Nat, default : BOOLEAN, fence : Fences]

InsertJob == [op : {"org_insert"}, fresh : BOOLEAN, slug : Word \X Nat, word : Word,
              gated : BOOLEAN]
SchemaJob == [op : {"org_schema"}, fresh : BOOLEAN, org : Nat]
SiteJob == [op : {"org_site"}, fresh : BOOLEAN, org : Nat, seen : SUBSET Nat]
SlugJob == [op : {"slug"}, fresh : BOOLEAN, org : Nat, slug : Word \X Nat]
CreateJob == [op : {"create_site"}, fresh : BOOLEAN, org : Nat, default : BOOLEAN,
              fence : SiteFences, seen : SUBSET Nat]
UpdateJob == [op : {"update_site"}, fresh : BOOLEAN, self : Nat, default : BOOLEAN,
              fence : SiteFences, was : BOOLEAN]
SaveJob == [op : {"save_site"}, fresh : BOOLEAN, self : Nat, fence : SiteFences,
            default : BOOLEAN, was : BOOLEAN, seen : SUBSET Nat]
Job == {Idle} \cup InsertJob \cup SchemaJob \cup SiteJob \cup SlugJob \cup CreateJob
       \cup UpdateJob \cup SaveJob

BootStages == {"down", "settings", "org", "backfill", "slugs", "sites", "admin", "up"}

OfficeOK == office \subseteq OrgRow /\ (BootAt("org") => office # {})
OrgOK == org \in Seq(OrgRow)
SiteOK ==
    /\ lastSite \in Nat
    /\ DOMAIN site \subseteq 1 .. lastSite
    /\ \A s \in DOMAIN site : site[s] \in SiteRow
BootOK == boot \in [at : BootStages, second : BOOLEAN, todo : SUBSET Nat, made : SUBSET Nat]
WorkOK == work \in [Thread -> Job]
FlagsOK == unowned \in BOOLEAN /\ admin \in BOOLEAN /\ raced \in BOOLEAN /\ calls \in Nat

\* Threads serve only a server that is up.
Calm == BootAt("up") \/ \A t \in Thread : work[t] = Idle

\* A row without an organization is the only one, and gone once a boot has
\* got past the backfill.
Owned ==
    \A s \in DOMAIN site :
        \/ site[s].org \in Orgs
        \/ /\ site[s].org = NoOrg /\ DOMAIN site = {s}
           /\ boot.at \notin {"slugs", "sites", "up"}

\* What a request is about does not go away.
Known ==
    \A t \in Thread :
        work[t].op \in {"org_schema", "org_site", "slug", "create_site"} => work[t].org \in Orgs

SlugsApart ==
    \A i, j \in Orgs : i # j /\ org[i].slug # NoSlug => org[i].slug # org[j].slug

\* How far a boot has come.
Progress ==
    /\ boot.second => admin
    /\ boot.at \in {"backfill", "slugs", "sites"} => org # <<>>
    /\ boot.at \in {"slugs", "sites"} => ~unowned
    /\ BootAt("sites") =>
         /\ boot.todo \subseteq Orgs
         /\ \A o \in Orgs : org[o].slug # NoSlug
         /\ \A o \in Orgs \ boot.todo : o \in schema \cup boot.made /\ Defaults(site, o) # {}

\* What a thread has read is still there unless its record says otherwise.
UpToDate(sites, job) ==
    job.fresh =>
        /\ job.op = "org_site" => job.seen = SitesOf(sites, job.org)
        /\ job.op = "create_site" /\ job.default => Defaults(sites, job.org) \subseteq job.seen
        /\ job.op \in {"update_site", "save_site"} =>
             job.self \in DOMAIN sites /\ job.was = sites[job.self].default
        /\ job.op = "save_site" /\ job.default =>
             Defaults(sites, sites[job.self].org) \ {job.self} \subseteq job.seen
Views == \A t \in Thread : UpToDate(site, work[t])

Alone(sites) ==
    \A r, s \in DOMAIN sites :
        sites[r].default /\ sites[s].default /\ sites[r].org = sites[s].org => r = s
AloneDefault == ~raced => Alone(site)

WTypes == OfficeOK /\ OrgOK /\ SiteOK /\ BootOK /\ WorkOK /\ FlagsOK
WorkspaceInv == /\ WTypes /\ Calm /\ Owned /\ Known
                /\ SlugsApart /\ Progress
                /\ Views /\ AloneDefault
----------------------------------------------------------------------------
(* Lemmas about the operators.                                             *)

LEMMA NatHasLeast ==
    ASSUME NEW T, T \subseteq Nat, T # {}
    PROVE  \E n \in T : \A k \in T : n <= k
<1> DEFINE below == {0 .. k : k \in T}
<1>1. below \subseteq FiniteSubsetsOf(Nat)
  <2>1. ASSUME NEW k \in T PROVE 0 .. k \in SUBSET Nat /\ IsFiniteSet(0 .. k)
      BY FS_Interval
  <2> QED
      BY <2>1 DEF FiniteSubsetsOf
<1>2. below # {}
    OBVIOUS
<1>3. \E b \in below : \A c \in below : ~ (<<c, b>> \in StrictSubsetOrdering(Nat))
  <2> HIDE DEF below
  <2> QED
      BY ONLY <1>1, <1>2, FS_StrictSubsetOrderingWellFounded, WFMin
<1>4. PICK n \in T : \A k \in T : ~ (<<0 .. k, 0 .. n>> \in StrictSubsetOrdering(Nat))
    BY <1>3
<1>5. ASSUME NEW k \in T, k < n PROVE FALSE
  <2>1. 0 .. k \subseteq 0 .. n /\ n \in 0 .. n /\ n \notin 0 .. k
      BY <1>5
  <2>2. 0 .. k \in SUBSET Nat /\ 0 .. n \in SUBSET Nat
      OBVIOUS
  <2>3. <<0 .. k, 0 .. n>> \in StrictSubsetOrdering(Nat)
      BY <2>1, <2>2, Zenon DEF StrictSubsetOrdering
  <2> QED
      BY <2>3, <1>4
<1> QED
    BY <1>5

\* unique_slug finds a slug, and one that nobody else has: there is a
\* candidate more than there are organizations.
LEMMA FirstFreeIsFree ==
    ASSUME NEW S, NEW orgs \in Seq(S), NEW word, NEW self
    PROVE  /\ \E k \in 1 .. Len(orgs) + 1 : FirstFree(orgs, word, self) = <<word, k>>
           /\ \A i \in DOMAIN orgs \ {self} : orgs[i].slug # FirstFree(orgs, word, self)
<1> DEFINE taken == {orgs[i].slug : i \in DOMAIN orgs \ {self}}
           N == Len(orgs)
           untaken == {k \in 1 .. N + 1 : <<word, k>> \notin taken}
           First(k) == <<word, k>> \notin taken /\ \A j \in 1 .. k - 1 : <<word, j>> \in taken
           n == CHOOSE k \in 1 .. N + 1 : First(k)
<1>1. N \in Nat /\ DOMAIN orgs = 1 .. N
    OBVIOUS
<1> HIDE DEF N
<1>2. untaken # {}
  <2> SUFFICES ASSUME \A k \in 1 .. N + 1 : <<word, k>> \in taken PROVE FALSE
      OBVIOUS
  <2> DEFINE numbers == 1 .. N + 1
             places == 1 .. N
             holder == [k \in numbers |-> CHOOSE i \in places : orgs[i].slug = <<word, k>>]
  <2>1. \A k \in numbers : holder[k] \in places /\ orgs[holder[k]].slug = <<word, k>>
      BY <1>1
  <2>2. holder \in [numbers -> places]
      BY <2>1
  <2>3. IsFiniteSet(numbers) /\ Cardinality(numbers) = N + 1
      BY FS_Interval, <1>1
  <2>4. IsFiniteSet(places) /\ Cardinality(places) = N
      BY FS_Interval, <1>1
  <2>5. Cardinality(places) < Cardinality(numbers)
      BY <2>3, <2>4, <1>1
  <2> HIDE DEF holder, numbers, places
  <2>6. \E k, l \in numbers : k # l /\ holder[k] = holder[l]
      BY ONLY FS_PigeonHole, <2>2, <2>3, <2>4, <2>5
  <2>7. PICK k, l \in numbers : k # l /\ holder[k] = holder[l]
      BY <2>6
  <2> QED
      BY <2>1, <2>7
<1>a. untaken \subseteq Nat
    BY <1>1
<1>3. PICK m \in untaken : \A k \in untaken : m <= k
    BY ONLY NatHasLeast, <1>a, <1>2
<1>4. First(m)
  <2> HIDE DEF taken
  <2>1. \A k \in 1 .. N + 1 : <<word, k>> \notin taken => m <= k
      BY <1>3
  <2>2. m \in 1 .. N + 1 /\ <<word, m>> \notin taken
      OBVIOUS
  <2>3. ASSUME NEW j \in 1 .. m - 1 PROVE <<word, j>> \in taken
    <3>1. j \in 1 .. N + 1 /\ ~(m <= j)
        BY <1>1, <2>2
    <3> QED
        BY ONLY <2>1, <3>1
  <2> QED
      BY <2>2, <2>3
<1>5. n \in 1 .. N + 1 /\ First(n)
    BY <1>3, <1>4
<1>6. FirstFree(orgs, word, self) = <<word, n>>
    BY DEF FirstFree, N
<1>7. \A i \in DOMAIN orgs \ {self} : orgs[i].slug \in taken
    OBVIOUS
<1> QED
  <2>1. \E k \in 1 .. N + 1 : FirstFree(orgs, word, self) = <<word, k>>
      BY ONLY <1>5, <1>6
  <2>2. \A i \in DOMAIN orgs \ {self} : orgs[i].slug # FirstFree(orgs, word, self)
      BY ONLY <1>5, <1>6, <1>7
  <2> QED
      BY <2>1, <2>2 DEF N

----------------------------------------------------------------------------
(* The records of the threads.                                             *)

LEMMA IdleIsJob == Idle \in Job /\ Idle.op = "idle" /\ Idle.fresh
BY DEF Idle, Job

LEMMA JobKinds ==
    ASSUME NEW job \in Job
    PROVE  /\ job.fresh \in BOOLEAN
           /\ job.op = "org_insert" => job \in InsertJob
           /\ job.op = "org_schema" => job \in SchemaJob
           /\ job.op = "org_site" => job \in SiteJob
           /\ job.op = "slug" => job \in SlugJob
           /\ job.op = "create_site" => job \in CreateJob
           /\ job.op = "update_site" => job \in UpdateJob
           /\ job.op = "save_site" => job \in SaveJob
<1>1. CASE job = Idle
    BY <1>1 DEF Idle
<1>2. CASE job \in InsertJob
    BY <1>2 DEF InsertJob
<1>3. CASE job \in SchemaJob
    BY <1>3 DEF SchemaJob
<1>4. CASE job \in SiteJob
    BY <1>4 DEF SiteJob
<1>5. CASE job \in SlugJob
    BY <1>5 DEF SlugJob
<1>6. CASE job \in CreateJob
    BY <1>6 DEF CreateJob
<1>7. CASE job \in UpdateJob
    BY <1>7 DEF UpdateJob
<1>8. CASE job \in SaveJob
    BY <1>8 DEF SaveJob
<1> QED
    BY <1>1, <1>2, <1>3, <1>4, <1>5, <1>6, <1>7, <1>8 DEF Job

Staled(job) == [job EXCEPT !.fresh = FALSE]

LEMMA StaledJob ==
    ASSUME NEW job \in Job, job # Idle
    PROVE  /\ Staled(job) \in Job /\ ~Staled(job).fresh /\ Staled(job).op = job.op
           /\ job.op \in {"org_schema", "org_site", "slug", "create_site"} => Staled(job).org = job.org
<1> USE DEF Staled
<1>2. CASE job \in InsertJob
    BY <1>2 DEF InsertJob, Job
<1>3. CASE job \in SchemaJob
    BY <1>3 DEF SchemaJob, Job
<1>4. CASE job \in SiteJob
    BY <1>4 DEF SiteJob, Job
<1>5. CASE job \in SlugJob
    BY <1>5 DEF SlugJob, Job
<1>6. CASE job \in CreateJob
    BY <1>6 DEF CreateJob, Job
<1>7. CASE job \in UpdateJob
    BY <1>7 DEF UpdateJob, Job
<1>8. CASE job \in SaveJob
    BY <1>8 DEF SaveJob, Job
<1> QED
    BY <1>2, <1>3, <1>4, <1>5, <1>6, <1>7, <1>8 DEF Job

\* After a commit to the sites no other thread's reading counts as fresh.
LEMMA CommitKeepsThreads ==
    ASSUME WorkOK, Known, NEW t \in Thread, SiteCommit(t, Idle), org' = org
    PROVE  WorkOK' /\ Known' /\ Views'
<1>1. ASSUME NEW u \in Thread
      PROVE  /\ work'[u] \in Job
             /\ work'[u].op = "idle" \/ (work'[u].op = work[u].op /\ ~work'[u].fresh)
             /\ work[u].op \in {"org_schema", "org_site", "slug", "create_site"} =>
                  work'[u].op = "idle" \/ work'[u].org = work[u].org
  <2>1. CASE u = t \/ work[u] = Idle
    <3>1. work'[u] = Idle
        BY <2>1 DEF SiteCommit
    <3> QED
        BY <3>1, IdleIsJob
  <2>2. CASE ~(u = t \/ work[u] = Idle)
    <3>1. work'[u] = Staled(work[u])
        BY <2>2 DEF SiteCommit, Staled
    <3>2. work[u] \in Job
        BY DEF WorkOK
    <3> QED
        BY <2>2, <3>1, <3>2, StaledJob
  <2> QED
      BY <2>1, <2>2
<1>2. WorkOK'
  <2>1. work' = [u \in Thread |-> work'[u]]
      BY DEF SiteCommit
  <2> QED
      BY <2>1, <1>1 DEF WorkOK
<1>3. Known'
    BY <1>1 DEF Known, Orgs
<1>4. Views'
  <2> SUFFICES ASSUME NEW u \in Thread PROVE UpToDate(site', work'[u])
      BY DEF Views
  <2> QED
      BY <1>1 DEF UpToDate
<1> QED
    BY <1>2, <1>3, <1>4

\* A step of one thread that leaves the sites alone
LEMMA StepKeepsThreads ==
    ASSUME WorkOK, Known, Views, NEW t \in Thread, NEW next \in Job,
           work' = [work EXCEPT ![t] = next], site' = site, Orgs \subseteq Orgs',
           next.op \in {"org_schema", "org_site", "slug", "create_site"} => next.org \in Orgs',
           UpToDate(site, next)
    PROVE  WorkOK' /\ Known' /\ Views'
<1>1. WorkOK'
    BY DEF WorkOK
<1>2. Known'
    BY DEF Known, WorkOK
<1>3. Views'
    BY DEF Views, WorkOK
<1> QED
    BY <1>1, <1>2, <1>3

----------------------------------------------------------------------------
(* The tables.                                                             *)

LEMMA GatedType ==
    ASSUME NEW type, NEW old \in BOOLEAN
    PROVE  Gated(type, old) \in BOOLEAN
<1>1. CASE type \in DOMAIN OrgPresets
  <2>1. type \in {"workplace", "school", "college", "training", "shift_ops", "field", "event",
                 "membership"}
      BY <1>1 DEF OrgPresets
  <2> DEFINE gate(row) == row.geofence_on_self_punch
  <2>b. gate(OrgPresets["workplace"]) \in BOOLEAN
    <3>1. OrgPresets["workplace"] = PresetRow("daily_inout", TRUE, TRUE, TRUE, TRUE, FALSE, FALSE)
        BY DEF OrgPresets
    <3>2. gate(PresetRow("daily_inout", TRUE, TRUE, TRUE, TRUE, FALSE, FALSE)) \in BOOLEAN
        BY DEF PresetRow
    <3> QED
        BY ONLY <3>1, <3>2
  <2>c. gate(OrgPresets["school"]) \in BOOLEAN
    <3>1. OrgPresets["school"] = PresetRow("daily_presence", FALSE, TRUE, FALSE, FALSE, TRUE, FALSE)
        BY DEF OrgPresets
    <3>2. gate(PresetRow("daily_presence", FALSE, TRUE, FALSE, FALSE, TRUE, FALSE)) \in BOOLEAN
        BY DEF PresetRow
    <3> QED
        BY ONLY <3>1, <3>2
  <2>d. gate(OrgPresets["college"]) \in BOOLEAN
    <3>1. OrgPresets["college"] = PresetRow("session", FALSE, TRUE, FALSE, FALSE, FALSE, TRUE)
        BY DEF OrgPresets
    <3>2. gate(PresetRow("session", FALSE, TRUE, FALSE, FALSE, FALSE, TRUE)) \in BOOLEAN
        BY DEF PresetRow
    <3> QED
        BY ONLY <3>1, <3>2
  <2>e. gate(OrgPresets["training"]) \in BOOLEAN
    <3>1. OrgPresets["training"] = PresetRow("session", FALSE, TRUE, FALSE, FALSE, FALSE, TRUE)
        BY DEF OrgPresets
    <3>2. gate(PresetRow("session", FALSE, TRUE, FALSE, FALSE, FALSE, TRUE)) \in BOOLEAN
        BY DEF PresetRow
    <3> QED
        BY ONLY <3>1, <3>2
  <2>f. gate(OrgPresets["shift_ops"]) \in BOOLEAN
    <3>1. OrgPresets["shift_ops"] = PresetRow("shift", TRUE, TRUE, TRUE, TRUE, FALSE, TRUE)
        BY DEF OrgPresets
    <3>2. gate(PresetRow("shift", TRUE, TRUE, TRUE, TRUE, FALSE, TRUE)) \in BOOLEAN
        BY DEF PresetRow
    <3> QED
        BY ONLY <3>1, <3>2
  <2>g. gate(OrgPresets["field"]) \in BOOLEAN
    <3>1. OrgPresets["field"] = PresetRow("daily_inout", TRUE, TRUE, TRUE, TRUE, FALSE, FALSE)
        BY DEF OrgPresets
    <3>2. gate(PresetRow("daily_inout", TRUE, TRUE, TRUE, TRUE, FALSE, FALSE)) \in BOOLEAN
        BY DEF PresetRow
    <3> QED
        BY ONLY <3>1, <3>2
  <2>h. gate(OrgPresets["event"]) \in BOOLEAN
    <3>1. OrgPresets["event"] = PresetRow("visit", FALSE, FALSE, FALSE, FALSE, FALSE, TRUE)
        BY DEF OrgPresets
    <3>2. gate(PresetRow("visit", FALSE, FALSE, FALSE, FALSE, FALSE, TRUE)) \in BOOLEAN
        BY DEF PresetRow
    <3> QED
        BY ONLY <3>1, <3>2
  <2>i. gate(OrgPresets["membership"]) \in BOOLEAN
    <3>1. OrgPresets["membership"] = PresetRow("visit", TRUE, FALSE, FALSE, FALSE, FALSE, TRUE)
        BY DEF OrgPresets
    <3>2. gate(PresetRow("visit", TRUE, FALSE, FALSE, FALSE, FALSE, TRUE)) \in BOOLEAN
        BY DEF PresetRow
    <3> QED
        BY ONLY <3>1, <3>2
  <2>2. gate(OrgPresets[type]) \in BOOLEAN
      BY <2>1, <2>b, <2>c, <2>d, <2>e, <2>f, <2>g, <2>h, <2>i
  <2>3. Gated(type, old) = OrgPresets[type].geofence_on_self_punch
      BY <1>1 DEF Gated, ApplyOrgType
  <2> QED
      BY <2>2, <2>3
<1>2. CASE type \notin DOMAIN OrgPresets
    BY <1>2 DEF Gated, ApplyOrgType
<1> QED
    BY <1>1, <1>2

LEMMA SiteFencesAreFences == SiteFences \subseteq Fences
BY DEF SiteFences, Fences

\* A handler leaves the boot, the office and the administrator alone.
LEMMA UpKeeps ==
    ASSUME OfficeOK, BootOK, Progress, BootAt("up"), boot' = boot, office' = office, admin' = admin
    PROVE  OfficeOK' /\ BootOK' /\ Calm' /\ Progress'
BY DEF OfficeOK, BootOK, Calm, Progress, BootAt

LEMMA QuietSites ==
    ASSUME SiteOK, Owned, AloneDefault, site' = site, lastSite' = lastSite, raced' = raced,
           boot' = boot, Orgs \subseteq Orgs'
    PROVE  SiteOK' /\ Owned' /\ AloneDefault'
<1>1. SiteOK'
    BY DEF SiteOK
<1>2. Owned'
    BY DEF Owned
<1>3. AloneDefault'
    BY DEF AloneDefault, Alone
<1> QED
    BY <1>1, <1>2, <1>3

\* What ensure_default_site does to the sites
LEMMA EnsuredSites ==
    ASSUME SiteOK, OrgOK, NEW o \in Orgs, NEW seen \in SUBSET DOMAIN site,
           DefaultSiteEnsured(o, seen)
    PROVE  /\ SiteOK' /\ DOMAIN site \subseteq DOMAIN site'
           /\ \A s \in DOMAIN site : site'[s].org = site[s].org /\ (site[s].default => site'[s].default)
           /\ \A s \in DOMAIN site' \ DOMAIN site : site'[s].org = o
           /\ seen = SitesOf(site, o) => Defaults(site', o) # {} /\ (Alone(site) => Alone(site'))
<1>1. CASE \E s \in seen : site[s].default
  <2>1. site' = site /\ lastSite' = lastSite
      BY <1>1 DEF DefaultSiteEnsured
  <2>2. SiteOK'
      BY <2>1 DEF SiteOK
  <2>3. seen = SitesOf(site, o) => Defaults(site', o) # {}
      BY <1>1, <2>1 DEF Defaults
  <2> QED
      BY <2>1, <2>2, <2>3
<1>2. CASE ~(\E s \in seen : site[s].default) /\ seen # {}
  <2>1. PICK s \in seen : site' = [site EXCEPT ![s].default = TRUE]
      BY <1>2 DEF DefaultSiteEnsured, Promoted
  <2>2. lastSite' = lastSite
      BY <1>2 DEF DefaultSiteEnsured
  <2>3. /\ DOMAIN site' = DOMAIN site
        /\ \A r \in DOMAIN site : site'[r].org = site[r].org /\ site'[r].fence = site[r].fence
        /\ \A r \in DOMAIN site : r # s => site'[r] = site[r]
        /\ site'[s].default
      BY <2>1 DEF SiteOK, SiteRow
  <2>4. SiteOK'
      BY <2>1, <2>2, <2>3 DEF SiteOK, SiteRow
  <2>5. seen = SitesOf(site, o) => Defaults(site', o) # {}
      BY <2>3 DEF Defaults, SitesOf
  <2>6. seen = SitesOf(site, o) /\ Alone(site) => Alone(site')
      BY <1>2, <2>3 DEF Alone, SitesOf
  <2> QED
      BY <2>3, <2>4, <2>5, <2>6
<1>3. CASE seen = {}
  <2> DEFINE new == lastSite + 1
  <2>1. /\ lastSite' = new
        /\ site' = [s \in DOMAIN site \cup {new} |->
                       IF s \in DOMAIN site THEN site[s] ELSE SeededSite(o)]
      BY <1>3 DEF DefaultSiteEnsured
  <2>2. new \in Nat /\ new \notin DOMAIN site /\ DOMAIN site \cup {new} \subseteq 1 .. new
      BY DEF SiteOK
  <2>3. SeededSite(o) \in SiteRow /\ SeededSite(o).org = o /\ SeededSite(o).default
    <3>1. o \in Nat /\ org[o] \in OrgRow
        BY DEF OrgOK, Orgs
    <3>2. org[o].fence \in Fences
        BY <3>1 DEF OrgRow
    <3> QED
        BY <3>1, <3>2 DEF SeededSite, NewSite, SiteRow
  <2>4. /\ DOMAIN site' = DOMAIN site \cup {new}
        /\ \A r \in DOMAIN site : site'[r] = site[r]
        /\ site'[new] = SeededSite(o)
      BY <2>1, <2>2
  <2> HIDE DEF new
  <2>5. SiteOK'
    <3>1. lastSite' \in Nat /\ DOMAIN site' \subseteq 1 .. lastSite'
        BY ONLY <2>1, <2>2, <2>4
    <3>2. \A s \in DOMAIN site' : site'[s] \in SiteRow
        BY <2>3, <2>4 DEF SiteOK
    <3> QED
        BY <3>1, <3>2 DEF SiteOK
  <2>6. new \in Defaults(site', o)
      BY <2>3, <2>4 DEF Defaults, SitesOf
  <2>7. seen = SitesOf(site, o) /\ Alone(site) => Alone(site')
      BY <1>3, <2>3, <2>4 DEF Alone, SitesOf
  <2> QED
      BY <2>3, <2>4, <2>5, <2>6, <2>7
<1> QED
    BY <1>1, <1>2, <1>3

----------------------------------------------------------------------------
(* The first state.                                                        *)

LEMMA WorkspaceInitHolds == WorkspaceInit => WorkspaceInv
<1> SUFFICES ASSUME WorkspaceInit PROVE WorkspaceInv
    OBVIOUS
<1>1. ASSUME NEW w \in Word, NEW f \in Fences PROVE NewOrg(w, NoSlug, f, TRUE) \in OrgRow
    BY DEF NewOrg, OrgRow
<1>2. OpenGround \in Fences
    BY DEF Fences
<1>3. OfficeOK
  <2>1. boot.at # "org"
      BY DEF WorkspaceInit
  <2>2. CASE office = {}
      BY <2>1, <2>2 DEF OfficeOK, BootAt
  <2>3. ASSUME NEW w \in Word, NEW f \in Fences, office = {NewOrg(w, NoSlug, f, TRUE)}
        PROVE  OfficeOK
      BY <1>1, <2>1, <2>3 DEF OfficeOK, BootAt
  <2>4. office \in {{}} \cup {{NewOrg(w, NoSlug, f, TRUE)} : w \in Word, f \in Fences}
      BY DEF WorkspaceInit, NewOrg
  <2>5. office = {} \/ \E w \in Word, f \in Fences : office = {NewOrg(w, NoSlug, f, TRUE)}
      BY ONLY <2>4 DEF NewOrg
  <2> QED
      BY <2>2, <2>3, <2>5
<1>4. OrgOK /\ \A i \in Orgs : org[i].slug = NoSlug
  <2>1. CASE org = <<>>
      BY <2>1 DEF OrgOK, Orgs
  <2>2. ASSUME NEW w \in Word, NEW f \in Fences, org = <<NewOrg(w, NoSlug, f, TRUE)>>
        PROVE  OrgOK /\ \A i \in Orgs : org[i].slug = NoSlug
      BY <2>2, <1>1 DEF OrgOK, Orgs, NewOrg
  <2>3. ASSUME NEW w \in Word,
               org = <<NewOrg(w, NoSlug, OpenGround, TRUE), NewOrg(w, NoSlug, OpenGround, TRUE)>>
        PROVE  OrgOK /\ \A i \in Orgs : org[i].slug = NoSlug
      BY <2>3, <1>1, <1>2 DEF OrgOK, Orgs, NewOrg
  <2>4. org \in EarlierOrgs
      BY DEF WorkspaceInit
  <2>5. \/ org = <<>>
        \/ \E w \in Word, f \in Fences : org = <<NewOrg(w, NoSlug, f, TRUE)>>
        \/ \E w \in Word :
              org = <<NewOrg(w, NoSlug, OpenGround, TRUE), NewOrg(w, NoSlug, OpenGround, TRUE)>>
      BY ONLY <2>4 DEF EarlierOrgs, NewOrg
  <2> QED
      BY <2>1, <2>2, <2>3, <2>5
<1>5. SiteOK /\ Owned /\ AloneDefault
  <2>1. CASE site = <<>>
      BY <2>1 DEF WorkspaceInit, SiteOK, Owned, AloneDefault, Alone
  <2>2. ASSUME NEW d \in BOOLEAN, site = <<NewSite(NoOrg, d, OpenGround)>>
        PROVE  SiteOK /\ Owned /\ AloneDefault
    <3>1. DOMAIN site = {1} /\ lastSite = 1 /\ boot.at = "down"
        BY <2>2 DEF WorkspaceInit
    <3>2. site[1] \in SiteRow /\ site[1].org = NoOrg
        BY <2>2, <1>2 DEF NewSite, SiteRow, NoOrg
    <3> QED
        BY <3>1, <3>2 DEF SiteOK, Owned, AloneDefault, Alone
  <2> QED
      BY <2>1, <2>2 DEF WorkspaceInit, EarlierSites
<1>6. BootOK /\ WorkOK /\ FlagsOK
  <2>1. BootOK
      BY DEF WorkspaceInit, BootOK, BootStages
  <2>2. WorkOK
      BY IdleIsJob DEF WorkspaceInit, WorkOK
  <2>3. FlagsOK
    <3>1. unowned \in BOOLEAN
        BY DEF WorkspaceInit
    <3>2. admin = FALSE /\ raced = FALSE
        BY DEF WorkspaceInit
    <3>3. calls = 0
        BY DEF WorkspaceInit
    <3> QED
        BY <3>1, <3>2, <3>3 DEF FlagsOK
  <2> QED
      BY <2>1, <2>2, <2>3
<1>7. Calm /\ Known /\ Views
    BY IdleIsJob DEF WorkspaceInit, Calm, Known, Views, UpToDate
<1>8. SlugsApart /\ Progress
    BY <1>4 DEF SlugsApart, WorkspaceInit, Progress, BootAt
<1> QED
    BY <1>3, <1>4, <1>5, <1>6, <1>7, <1>8 DEF WorkspaceInv, WTypes

----------------------------------------------------------------------------
(* The boot.                                                               *)

LEMMA IdleThreads ==
    ASSUME WorkOK, \A t \in Thread : work'[t] = Idle, work' \in [Thread -> {Idle}]
    PROVE  WorkOK' /\ Calm' /\ Known' /\ Views'
BY IdleIsJob DEF WorkOK, Calm, Known, Views, UpToDate

\* A boot step leaves the threads idle.
LEMMA BootKeepsThreads ==
    ASSUME WorkOK, Calm, ~BootAt("up"), work' = work
    PROVE  WorkOK' /\ Calm' /\ Known' /\ Views'
<1>1. \A t \in Thread : work'[t] = Idle
    BY DEF Calm
<1>2. work' \in [Thread -> {Idle}]
    BY <1>1 DEF WorkOK
<1> QED
    BY <1>1, <1>2, IdleThreads

LEMMA SeedDefaultOrgStep == WorkspaceInv /\ SeedDefaultOrg => WorkspaceInv'
<1> SUFFICES ASSUME WorkspaceInv, SeedDefaultOrg PROVE WorkspaceInv'
    OBVIOUS
<1> USE DEF WorkspaceInv, WTypes
<1>1. WorkOK' /\ Calm' /\ Known' /\ Views'
    BY BootKeepsThreads DEF SeedDefaultOrg, BootAt
<1>2. BootOK' /\ FlagsOK' /\ OfficeOK'
    BY DEF SeedDefaultOrg, BootOK, FlagsOK, OfficeOK, BootAt, BootGoes, BootStages
<1>3. /\ OrgOK' /\ org' # <<>> /\ SlugsApart' /\ Orgs \subseteq Orgs'
  <2>1. CASE org # <<>>
    <3>1. org' = org
        BY <2>1 DEF SeedDefaultOrg
    <3> QED
        BY <2>1, <3>1 DEF OrgOK, SlugsApart, Orgs
  <2>2. CASE org = <<>>
    <3> DEFINE row == CHOOSE r \in office : TRUE
               new == [row EXCEPT !.slug = FirstFree(org, row.word, 1)]
    <3>1. org' = <<new>>
        BY <2>2 DEF SeedDefaultOrg
    <3>2. row \in OrgRow
        BY DEF SeedDefaultOrg, OfficeOK
    <3> HIDE DEF row
    <3>3. PICK k \in 1 .. Len(org) + 1 : FirstFree(org, row.word, 1) = <<row.word, k>>
        BY FirstFreeIsFree DEF OrgOK
    <3>4. k \in Nat
        BY <2>2, <3>3
    <3>5. new \in OrgRow
        BY <3>2, <3>3, <3>4 DEF OrgRow
    <3> HIDE DEF new
    <3> QED
        BY <2>2, <3>1, <3>5 DEF OrgOK, SlugsApart, Orgs
  <2> QED
      BY <2>1, <2>2
<1>4. SiteOK' /\ AloneDefault' /\ Owned'
    BY <1>3 DEF SeedDefaultOrg, SiteOK, AloneDefault, Alone, Owned, BootGoes, BootOK
<1>5. Progress'
    BY <1>3 DEF SeedDefaultOrg, Progress, BootAt, BootGoes, BootOK
<1> QED
    BY <1>1, <1>2, <1>3, <1>4, <1>5

LEMMA BackfillStep == WorkspaceInv /\ BackfillOrgId => WorkspaceInv'
<1> SUFFICES ASSUME WorkspaceInv, BackfillOrgId PROVE WorkspaceInv'
    OBVIOUS
<1> USE DEF WorkspaceInv, WTypes
<1>1. WorkOK' /\ Calm' /\ Known' /\ Views'
    BY BootKeepsThreads DEF BackfillOrgId, BootAt
<1>2. BootOK' /\ FlagsOK' /\ OfficeOK' /\ OrgOK' /\ SlugsApart'
    BY DEF BackfillOrgId, BootOK, FlagsOK, OfficeOK, BootAt, BootGoes, BootStages, OrgOK,
           SlugsApart, Orgs
<1>3. 1 \in Orgs
    BY DEF BackfillOrgId, Progress, BootAt, OrgOK, Orgs
<1>4. /\ DOMAIN site' = DOMAIN site
      /\ \A s \in DOMAIN site :
            site'[s] = IF site[s].org = NoOrg THEN [site[s] EXCEPT !.org = 1] ELSE site[s]
    BY DEF BackfillOrgId
<1>5. \A s \in DOMAIN site :
         /\ site'[s] \in SiteRow /\ site'[s].default = site[s].default
         /\ site'[s].org = IF site[s].org = NoOrg THEN 1 ELSE site[s].org
    BY <1>4 DEF SiteOK, SiteRow
<1>6. SiteOK'
    BY <1>4, <1>5 DEF SiteOK, BackfillOrgId
<1>7. Owned'
    BY <1>3, <1>4, <1>5 DEF Owned, Orgs, BackfillOrgId
<1>8. AloneDefault'
  <2> SUFFICES ASSUME ~raced, NEW r \in DOMAIN site, NEW s \in DOMAIN site,
                      site[r].default, site[s].default, site'[r].org = site'[s].org
               PROVE  r = s
      BY <1>4, <1>5 DEF AloneDefault, Alone, BackfillOrgId
  <2>1. CASE site[r].org = NoOrg \/ site[s].org = NoOrg
    <3>a. NoOrg \notin Orgs
        BY DEF OrgOK, Orgs, NoOrg
    <3>1. \A q \in DOMAIN site : site[q].org = NoOrg => DOMAIN site = {q}
        BY <3>a DEF Owned
    <3> QED
        BY <2>1, <3>1
  <2>2. CASE site[r].org # NoOrg /\ site[s].org # NoOrg
      BY <2>2, <1>5 DEF AloneDefault, Alone
  <2> QED
      BY <2>1, <2>2
<1>9. Progress'
    BY DEF BackfillOrgId, Progress, BootAt, BootGoes, BootOK
<1> QED
    BY <1>1, <1>2, <1>6, <1>7, <1>8, <1>9

LEMMA EnsureOrgSlugsStep == WorkspaceInv /\ EnsureOrgSlugs => WorkspaceInv'
<1> SUFFICES ASSUME WorkspaceInv, EnsureOrgSlugs PROVE WorkspaceInv'
    OBVIOUS
<1> USE DEF WorkspaceInv, WTypes
<1>1. WorkOK' /\ Calm' /\ Known' /\ Views'
    BY BootKeepsThreads DEF EnsureOrgSlugs, BootAt
<1>2. BootOK' /\ FlagsOK' /\ OfficeOK'
  <2>1. Orgs \subseteq Nat
      BY DEF OrgOK, Orgs
  <2> QED
      BY <2>1 DEF EnsureOrgSlugs, BootOK, FlagsOK, OfficeOK, BootAt, BootStages
<1>3. PICK slugs \in [Orgs -> {org[i].slug : i \in Orgs} \cup Word \X (1 .. Len(org) + 1)] :
         SlugsEnsured(org, [i \in Orgs |-> [org[i] EXCEPT !.slug = slugs[i]]])
         /\ org' = [i \in Orgs |-> [org[i] EXCEPT !.slug = slugs[i]]]
    BY DEF EnsureOrgSlugs
<1> DEFINE Before(i) == [j \in Orgs |-> IF j < i THEN org'[j] ELSE org[j]]
<1>4. DOMAIN org' = Orgs /\ Orgs' = Orgs /\ Orgs = 1 .. Len(org) /\ Len(org) \in Nat
    BY <1>3 DEF OrgOK, Orgs
<1>5. \A i \in Orgs : org'[i] = [org[i] EXCEPT !.slug = slugs[i]]
    BY <1>3
<1>6. \A i \in Orgs : org[i] \in OrgRow
    BY DEF OrgOK, Orgs
<1>7. \A i \in Orgs : org'[i] \in OrgRow
  <2> SUFFICES ASSUME NEW i \in Orgs PROVE org'[i] \in OrgRow
      OBVIOUS
  <2>1. slugs[i] \in {org[j].slug : j \in Orgs} \cup Word \X (1 .. Len(org) + 1)
      BY <1>3
  <2>2. slugs[i] \in {NoSlug} \cup Word \X Nat
      BY <2>1, <1>4, <1>6 DEF OrgRow
  <2> QED
      BY <2>2, <1>5, <1>6 DEF OrgRow
<1>8. OrgOK'
  <2>1. org' \in [1 .. Len(org) -> OrgRow]
      BY <1>3, <1>4, <1>7
  <2> QED
      BY <2>1, <1>4 DEF OrgOK
<1>9. \A i \in Orgs : org'[i].slug = IF org[i].slug # NoSlug THEN org[i].slug
                                     ELSE FirstFree(Before(i), org[i].word, i)
    BY <1>3 DEF SlugsEnsured, Orgs
<1>10. ASSUME NEW i \in Orgs
       PROVE  /\ \E k \in Nat : FirstFree(Before(i), org[i].word, i) = <<org[i].word, k>>
              /\ \A j \in Orgs \ {i} : Before(i)[j].slug # FirstFree(Before(i), org[i].word, i)
  <2>1. Before(i) \in [1 .. Len(org) -> OrgRow]
      BY <1>4, <1>6, <1>7
  <2>2. Before(i) \in Seq(OrgRow) /\ Len(Before(i)) = Len(org) /\ DOMAIN Before(i) = Orgs
      BY <2>1, <1>4
  <2> HIDE DEF Before
  <2>3. \E k \in 1 .. Len(org) + 1 : FirstFree(Before(i), org[i].word, i) = <<org[i].word, k>>
      BY <2>2, FirstFreeIsFree
  <2>4. \A j \in Orgs \ {i} : Before(i)[j].slug # FirstFree(Before(i), org[i].word, i)
      BY <2>2, FirstFreeIsFree
  <2> QED
      BY <2>3, <2>4, <1>4
<1>11. \A i \in Orgs : org'[i].slug # NoSlug
  <2> SUFFICES ASSUME NEW i \in Orgs, org[i].slug = NoSlug PROVE org'[i].slug # NoSlug
      BY <1>9
  <2> HIDE DEF Before
  <2>1. PICK k \in Nat : FirstFree(Before(i), org[i].word, i) = <<org[i].word, k>>
      BY <1>10
  <2>2. org'[i].slug = <<org[i].word, k>>
      BY <1>9, <2>1
  <2> QED
      BY <2>2 DEF NoSlug
<1>12. ASSUME NEW i \in Orgs, NEW j \in Orgs, i < j, org'[i].slug = org'[j].slug PROVE FALSE
  <2>1. CASE org[j].slug = NoSlug
    <3>1. org'[j].slug = FirstFree(Before(j), org[j].word, j)
        BY <2>1, <1>9
    <3>2. Before(j)[i] = org'[i]
        BY <1>12
    <3> HIDE DEF Before
    <3> QED
        BY <3>1, <3>2, <1>10, <1>12, <1>4
  <2>2. CASE org[j].slug # NoSlug /\ org[i].slug = NoSlug
    <3>1. org'[i].slug = FirstFree(Before(i), org[i].word, i)
        BY <2>2, <1>9
    <3>2. ~(j < i) /\ j # i
        BY <1>12, <1>4
    <3>3. Before(i)[j] = org[j]
        BY ONLY <3>2, j \in Orgs
    <3> HIDE DEF Before
    <3>4. org'[j].slug = org[j].slug
        BY <2>2, <1>9
    <3>5. Before(i)[j].slug # FirstFree(Before(i), org[i].word, i)
        BY <3>2, <1>10
    <3> QED
        BY ONLY <3>1, <3>3, <3>4, <3>5, <1>12
  <2>3. CASE org[j].slug # NoSlug /\ org[i].slug # NoSlug
    <3> HIDE DEF Before
    <3>1. i # j /\ org'[i].slug = org[i].slug /\ org'[j].slug = org[j].slug
        BY <2>3, <1>9, <1>12, <1>4
    <3> QED
        BY <3>1, <2>3, <1>12 DEF SlugsApart
  <2> QED
      BY <2>1, <2>2, <2>3
<1>13. SlugsApart'
  <2> SUFFICES ASSUME NEW i \in Orgs, NEW j \in Orgs, i # j PROVE org'[i].slug # org'[j].slug
      BY <1>4 DEF SlugsApart
  <2>1. i < j \/ j < i
      BY <1>4
  <2> QED
      BY <2>1, <1>12
<1>14. SiteOK' /\ AloneDefault' /\ Owned'
  <2>1. site' = site /\ lastSite' = lastSite /\ raced' = raced /\ boot.at = "slugs"
      BY DEF EnsureOrgSlugs, BootAt
  <2>2. SiteOK' /\ AloneDefault'
      BY <2>1 DEF SiteOK, AloneDefault, Alone
  <2>3. Owned'
      BY <2>1, <1>4 DEF Owned
  <2> QED
      BY <2>2, <2>3
<1>15. Progress'
    BY <1>4, <1>11 DEF EnsureOrgSlugs, Progress, BootAt, BootOK, OrgOK, Orgs
<1> QED
    BY <1>1, <1>2, <1>8, <1>13, <1>14, <1>15

LEMMA SeedSiteStep == WorkspaceInv /\ SeedSite => WorkspaceInv'
<1> SUFFICES ASSUME WorkspaceInv, SeedSite PROVE WorkspaceInv'
    OBVIOUS
<1> USE DEF WorkspaceInv, WTypes
<1>1. WorkOK' /\ Calm' /\ Known' /\ Views'
    BY BootKeepsThreads DEF SeedSite, BootAt
<1>2. boot.at = "sites" /\ boot.todo \subseteq Orgs
    BY DEF SeedSite, BootAt, Progress
<1>a. PICK o \in boot.todo :
        /\ DefaultSiteEnsured(o, SitesOf(site, o))
        /\ LET made == boot.made \cup {o}
               wrote == site' # site
           IN /\ schema' = IF wrote THEN schema \cup made ELSE schema
              /\ boot' = [boot EXCEPT !.todo = @ \ {o}, !.made = IF wrote THEN {} ELSE made]
    BY Zenon DEF SeedSite
<1>3. /\ DefaultSiteEnsured(o, SitesOf(site, o))
      /\ schema' = IF site' # site THEN schema \cup (boot.made \cup {o}) ELSE schema
      /\ boot' = [boot EXCEPT !.todo = @ \ {o},
                              !.made = IF site' # site THEN {} ELSE boot.made \cup {o}]
    BY <1>a, Zenon
<1>4. o \in Orgs /\ SitesOf(site, o) \in SUBSET DOMAIN site
    BY <1>2 DEF SitesOf
<1>5. Orgs \subseteq Nat /\ org' = org /\ Orgs' = Orgs
    BY DEF OrgOK, Orgs, SeedSite
<1>6. /\ boot'.at = "sites" /\ boot'.second = boot.second /\ boot'.todo = boot.todo \ {o}
      /\ boot'.made = IF site' # site THEN {} ELSE boot.made \cup {o}
      /\ BootOK'
  <2> DEFINE made == IF site' # site THEN {} ELSE boot.made \cup {o}
             todo == boot.todo \ {o}
  <2>1. boot' = [boot EXCEPT !.todo = todo, !.made = made]
      BY <1>3
  <2>2. made \in SUBSET Nat /\ todo \in SUBSET Nat
      BY <1>4, <1>5 DEF BootOK
  <2> HIDE DEF made, todo
  <2>3. /\ boot'.at = boot.at /\ boot'.second = boot.second /\ boot'.todo = todo
        /\ boot'.made = made /\ BootOK'
      BY <2>1, <2>2 DEF BootOK
  <2> QED
      BY <2>3, <1>2 DEF made, todo
<1>7. FlagsOK' /\ OfficeOK' /\ OrgOK' /\ SlugsApart'
    BY <1>6 DEF SeedSite, FlagsOK, OfficeOK, BootAt, OrgOK, SlugsApart, Orgs
<1> DEFINE Ensured ==
      /\ SiteOK' /\ DOMAIN site \subseteq DOMAIN site'
      /\ \A s \in DOMAIN site : site'[s].org = site[s].org /\ (site[s].default => site'[s].default)
      /\ \A s \in DOMAIN site' \ DOMAIN site : site'[s].org = o
      /\ Defaults(site', o) # {} /\ (Alone(site) => Alone(site'))
<1>8. Ensured
    BY <1>3, <1>4, EnsuredSites
<1>9. Owned'
  <2> SUFFICES ASSUME NEW s \in DOMAIN site' PROVE site'[s].org \in Orgs
      BY <1>5 DEF Owned
  <2>1. CASE s \in DOMAIN site
      BY <2>1, <1>2, <1>8 DEF Owned
  <2>2. CASE s \notin DOMAIN site
      BY <2>2, <1>4, <1>8
  <2> QED
      BY <2>1, <2>2
<1>10. AloneDefault'
    BY <1>8 DEF AloneDefault, SeedSite
<1>11. Progress'
  <2>1. ASSUME NEW p \in Orgs \ boot'.todo
        PROVE  p \in schema' \cup boot'.made /\ Defaults(site', p) # {}
    <3>1. CASE p = o
        BY <3>1, <1>3, <1>6, <1>8
    <3>2. CASE p # o
      <4>1. p \in schema \cup boot.made /\ Defaults(site, p) # {}
          BY <3>2, <2>1, <1>2, <1>6 DEF Progress, BootAt
      <4>2. Defaults(site, p) \subseteq Defaults(site', p)
          BY <1>8 DEF Defaults, SitesOf
      <4> QED
          BY <4>1, <4>2, <1>3, <1>6
    <3> QED
        BY <3>1, <3>2
  <2>2. admin' = admin /\ unowned' = unowned
      BY DEF SeedSite
  <2> QED
      BY <2>1, <2>2, <1>2, <1>5, <1>6 DEF Progress, BootAt
<1> QED
    BY <1>1, <1>6, <1>7, <1>8, <1>9, <1>10, <1>11

\* The steps of the boot that write neither organizations nor sites
LEMMA QuietBoot ==
    ASSUME WorkspaceInv,
           UNCHANGED <<org, site, lastSite, raced, calls>>, boot'.at \notin {"org", "slugs", "sites"},
           BootOK', office' \subseteq OrgRow, unowned' = unowned, admin' \in BOOLEAN,
           boot'.at = "up" => boot.at = "sites"
    PROVE  OfficeOK' /\ OrgOK' /\ SiteOK' /\ FlagsOK' /\ Owned' /\ SlugsApart' /\ AloneDefault'
<1> USE DEF WorkspaceInv, WTypes
<1>1. OfficeOK' /\ OrgOK' /\ SiteOK' /\ FlagsOK'
    BY DEF OfficeOK, OrgOK, SiteOK, FlagsOK, BootAt
<1>2. Owned' /\ SlugsApart' /\ AloneDefault'
    BY DEF Owned, SlugsApart, AloneDefault, Alone, Orgs
<1> QED
    BY <1>1, <1>2

LEMMA BootSteps == WorkspaceInv /\ (Start \/ SeedOfficeSettings \/ Seeded \/ SeedAdmin) => WorkspaceInv'
<1> SUFFICES ASSUME WorkspaceInv, Start \/ SeedOfficeSettings \/ Seeded \/ SeedAdmin
             PROVE  WorkspaceInv'
    OBVIOUS
<1> USE DEF WorkspaceInv, WTypes
<1>1. WorkOK' /\ Calm' /\ Known' /\ Views'
    BY BootKeepsThreads DEF Start, SeedOfficeSettings, Seeded, SeedAdmin, BootAt
<1>2. BootOK'
  <2>1. CASE Start
      BY <2>1 DEF Start, BootOK, BootStages
  <2>2. CASE SeedOfficeSettings
      BY <2>2 DEF SeedOfficeSettings, BootOK, BootGoes, BootStages
  <2>3. CASE Seeded
    <3> DEFINE next == IF boot.second THEN "up" ELSE "admin"
    <3>1. boot' = [boot EXCEPT !.at = next, !.made = {}]
        BY <2>3 DEF Seeded
    <3>2. next \in BootStages
        BY DEF BootStages
    <3> HIDE DEF next
    <3> QED
        BY <3>1, <3>2 DEF BootOK
  <2>4. CASE SeedAdmin
      BY <2>4 DEF SeedAdmin, BootOK, BootStages
  <2> QED
      BY <2>1, <2>2, <2>3, <2>4
<1>3. CASE Start
  <2>1. OfficeOK' /\ OrgOK' /\ SiteOK' /\ FlagsOK' /\ Owned' /\ SlugsApart' /\ AloneDefault'
      BY <1>3, <1>2, QuietBoot DEF Start, OfficeOK, FlagsOK, tables
  <2>2. Progress'
      BY <1>3 DEF Start, Progress, BootAt, tables
  <2> QED
      BY <1>1, <1>2, <2>1, <2>2
<1>4. CASE SeedOfficeSettings
  <2>1. PICK w \in Word :
          office' = IF office = {} THEN {NewOrg(w, NoSlug, OpenGround, TRUE)} ELSE office
      BY <1>4 DEF SeedOfficeSettings
  <2>2. NewOrg(w, NoSlug, OpenGround, TRUE) \in OrgRow
      BY DEF NewOrg, OrgRow, Fences
  <2>3. OfficeOK'
      BY <2>1, <2>2 DEF OfficeOK
  <2>4. OrgOK' /\ SiteOK' /\ FlagsOK'
      BY <1>4 DEF SeedOfficeSettings, OrgOK, SiteOK, FlagsOK
  <2>5. Owned' /\ SlugsApart' /\ AloneDefault'
      BY <1>4 DEF SeedOfficeSettings, Owned, SlugsApart, AloneDefault, Alone, Orgs, BootGoes, BootOK
  <2>6. Progress'
      BY <1>4 DEF SeedOfficeSettings, Progress, BootAt, BootGoes, BootOK
  <2> QED
      BY <1>1, <1>2, <2>3, <2>4, <2>5, <2>6
<1>5. CASE Seeded
  <2>1. boot.at = "sites" /\ boot'.at \in {"up", "admin"} /\ boot'.second = boot.second
      BY <1>5 DEF Seeded, BootAt, BootOK
  <2>2. OfficeOK' /\ OrgOK' /\ SiteOK' /\ FlagsOK' /\ Owned' /\ SlugsApart' /\ AloneDefault'
      BY <1>5, <2>1, <1>2, QuietBoot DEF Seeded, OfficeOK, FlagsOK
  <2>3. Progress'
      BY <1>5, <2>1 DEF Seeded, Progress, BootAt
  <2> QED
      BY <1>1, <1>2, <2>2, <2>3
<1>6. CASE SeedAdmin
  <2>1. boot'.at = "settings"
      BY <1>6 DEF SeedAdmin, BootOK
  <2>2. OfficeOK' /\ OrgOK' /\ SiteOK' /\ FlagsOK' /\ Owned' /\ SlugsApart' /\ AloneDefault'
      BY <1>6, <2>1, <1>2, QuietBoot DEF SeedAdmin, OfficeOK, FlagsOK
  <2>3. Progress'
      BY <1>6, <2>1 DEF SeedAdmin, Progress, BootAt
  <2> QED
      BY <1>1, <1>2, <2>2, <2>3
<1> QED
    BY <1>3, <1>4, <1>5, <1>6

LEMMA CrashStep == WorkspaceInv /\ Crash => WorkspaceInv'
<1> SUFFICES ASSUME WorkspaceInv, Crash PROVE WorkspaceInv'
    OBVIOUS
<1> USE DEF WorkspaceInv, WTypes
<1>1. WorkOK' /\ Calm' /\ Known' /\ Views'
    BY IdleThreads DEF Crash
<1>2. BootOK' /\ boot'.at = "down" /\ boot'.second = boot.second
    BY DEF Crash, BootGoes, BootOK, BootStages
<1>3. OfficeOK' /\ OrgOK' /\ SiteOK' /\ FlagsOK' /\ Owned' /\ SlugsApart' /\ AloneDefault'
    BY <1>2, QuietBoot DEF Crash, tables, OfficeOK, FlagsOK
<1>4. Progress'
    BY <1>2 DEF Crash, Progress, BootAt, tables
<1> QED
    BY <1>1, <1>2, <1>3, <1>4

----------------------------------------------------------------------------
(* The handlers.                                                           *)

\* A step of a thread that writes no site
LEMMA QuietHandler ==
    ASSUME WorkspaceInv, NEW t \in Thread, NEW next \in Job, work' = [work EXCEPT ![t] = next],
           BootAt("up"), UNCHANGED <<office, site, lastSite, unowned, admin, boot, raced>>,
           calls' \in Nat, OrgOK', SlugsApart', Orgs \subseteq Orgs',
           next.op \in {"org_schema", "org_site", "slug", "create_site"} => next.org \in Orgs',
           UpToDate(site, next)
    PROVE  WorkspaceInv'
<1> USE DEF WorkspaceInv, WTypes
<1>1. WorkOK' /\ Known' /\ Views'
    BY StepKeepsThreads
<1>2. OfficeOK' /\ BootOK' /\ Calm' /\ Progress'
    BY UpKeeps
<1>3. SiteOK' /\ Owned' /\ AloneDefault'
    BY QuietSites
<1>4. FlagsOK'
    BY DEF FlagsOK
<1> QED
    BY <1>1, <1>2, <1>3, <1>4

\* A thread's last step, with a commit to the sites
LEMMA SiteHandler ==
    ASSUME WorkspaceInv, NEW t \in Thread, SiteCommit(t, Idle),
           BootAt("up"), UNCHANGED <<office, org, unowned, admin, boot>>, calls' \in Nat,
           SiteOK', \A s \in DOMAIN site' : site'[s].org \in Orgs,
           work[t].fresh /\ Alone(site) => Alone(site')
    PROVE  WorkspaceInv'
<1> USE DEF WorkspaceInv, WTypes
<1>1. WorkOK' /\ Known' /\ Views'
    BY CommitKeepsThreads
<1>2. OfficeOK' /\ BootOK' /\ Calm' /\ Progress'
    BY UpKeeps
<1>3. OrgOK' /\ SlugsApart' /\ Owned'
    BY DEF OrgOK, SlugsApart, Orgs, Owned
<1>4. work[t].fresh \in BOOLEAN
    BY JobKinds DEF WorkOK
<1>5. FlagsOK' /\ AloneDefault'
    BY <1>4 DEF FlagsOK, SiteCommit, AloneDefault
<1> QED
    BY <1>1, <1>2, <1>3, <1>5

\* A request that is refused or fails
LEMMA FailStep ==
    ASSUME WorkspaceInv, NEW t \in Thread, BootAt("up"), Fails(t), calls' \in Nat
    PROVE  WorkspaceInv'
<1> USE DEF WorkspaceInv, WTypes
<1>1. OrgOK' /\ SlugsApart' /\ Orgs \subseteq Orgs'
    BY DEF Fails, tables, OrgOK, SlugsApart, Orgs
<1>2. UpToDate(site, Idle) /\ Idle.op = "idle" /\ Idle \in Job
    BY IdleIsJob DEF UpToDate
<1> QED
    BY <1>1, <1>2, QuietHandler DEF Fails, Begins, tables

LEMMA CallsType == WorkspaceInv => calls \in Nat /\ calls + 1 \in Nat
BY DEF WorkspaceInv, WTypes, FlagsOK

LEMMA OrgStartStep == ASSUME NEW t \in Thread, WorkspaceInv, OrgStart(t) PROVE WorkspaceInv'
<1> USE DEF WorkspaceInv, WTypes
<1>1. PICK w \in Word, type \in Types, asked \in {NoSlug} \cup {<<v, 1>> : v \in Word} :
         LET slug == IF asked = NoSlug THEN FirstFree(org, w, 0) ELSE asked
             refused == \E i \in Orgs : org[i].slug = slug
         IN Begins(t, IF refused THEN Idle
                      ELSE [op |-> "org_insert", fresh |-> TRUE, slug |-> slug, word |-> w,
                            gated |-> Gated(type, TRUE)])
    BY DEF OrgStart
<1> DEFINE slug == IF asked = NoSlug THEN FirstFree(org, w, 0) ELSE asked
           job == [op |-> "org_insert", fresh |-> TRUE, slug |-> slug, word |-> w,
                   gated |-> Gated(type, TRUE)]
           next == IF \E i \in Orgs : org[i].slug = slug THEN Idle ELSE job
<1>2. work' = [work EXCEPT ![t] = next]
    BY <1>1 DEF Begins
<1>3. slug \in Word \X Nat
  <2>1. PICK k \in 1 .. Len(org) + 1 : FirstFree(org, w, 0) = <<w, k>>
      BY FirstFreeIsFree DEF OrgOK
  <2>2. Len(org) \in Nat
      BY DEF OrgOK
  <2>3. k \in Nat
      BY <2>1, <2>2
  <2> QED
      BY <2>1, <2>3
<1>4. Gated(type, TRUE) \in BOOLEAN
    BY GatedType
<1> HIDE DEF slug
<1>5. job \in Job /\ job.op = "org_insert"
    BY <1>3, <1>4 DEF Job, InsertJob
<1> HIDE DEF job
<1>6. next \in Job /\ next.op \in {"idle", "org_insert"}
    BY <1>5, IdleIsJob
<1> HIDE DEF next
<1>7. UpToDate(site, next)
    BY <1>6 DEF UpToDate
<1>8. /\ BootAt("up") /\ UNCHANGED <<office, org, site, lastSite, unowned, admin, boot, raced>>
      /\ calls' \in Nat
    BY CallsType DEF OrgStart, Free, tables
<1>9. OrgOK' /\ SlugsApart' /\ Orgs \subseteq Orgs'
    BY <1>8 DEF OrgOK, SlugsApart, Orgs
<1> QED
    BY <1>2, <1>6, <1>7, <1>8, <1>9, QuietHandler

LEMMA OrgInsertStep == ASSUME NEW t \in Thread, WorkspaceInv, OrgInsert(t) PROVE WorkspaceInv'
<1> USE DEF WorkspaceInv, WTypes
<1>1. BootAt("up") /\ calls' \in Nat /\ work[t].op = "org_insert"
    BY CallsType DEF OrgInsert, Doing
<1>2. CASE \E i \in Orgs : org[i].slug = work[t].slug
    BY <1>1, <1>2, FailStep DEF OrgInsert
<1>3. CASE ~ \E i \in Orgs : org[i].slug = work[t].slug
  <2> DEFINE row == NewOrg(work[t].word, work[t].slug, OpenGround, work[t].gated)
             next == [op |-> "org_schema", fresh |-> TRUE, org |-> Len(org) + 1]
  <2>1. org' = Append(org, row) /\ work' = [work EXCEPT ![t] = next]
        /\ UNCHANGED <<office, site, lastSite, unowned, admin, boot, raced>>
      BY <1>3 DEF OrgInsert, Begins
  <2>2. work[t] \in InsertJob
      BY <1>1, JobKinds DEF WorkOK
  <2>3. row \in OrgRow /\ row.slug = work[t].slug
      BY <2>2 DEF NewOrg, OrgRow, InsertJob, Fences
  <2> HIDE DEF row
  <2>4. /\ OrgOK' /\ Orgs \subseteq Orgs' /\ Orgs' = Orgs \cup {Len(org) + 1}
        /\ Len(org) + 1 \notin Orgs
        /\ \A i \in Orgs : org'[i] = org[i]
        /\ org'[Len(org) + 1] = row
      BY <2>1, <2>3 DEF OrgOK, Orgs
  <2>5. SlugsApart'
      BY <1>3, <2>3, <2>4 DEF SlugsApart
  <2>6. next \in Job /\ next.op = "org_schema" /\ next.org \in Orgs'
    <3>1. Len(org) + 1 \in Nat
        BY DEF OrgOK
    <3> QED
        BY <2>4, <3>1 DEF Job, SchemaJob
  <2> HIDE DEF next
  <2>7. UpToDate(site, next)
      BY <2>6 DEF UpToDate
  <2> QED
      BY <1>1, <2>1, <2>4, <2>5, <2>6, <2>7, QuietHandler
<1> QED
    BY <1>2, <1>3

LEMMA OrgProvisionStep == ASSUME NEW t \in Thread, WorkspaceInv, OrgProvision(t) PROVE WorkspaceInv'
<1> USE DEF WorkspaceInv, WTypes
<1>1. BootAt("up") /\ calls' \in Nat /\ work[t].op = "org_schema"
    BY CallsType DEF OrgProvision, Doing
<1> DEFINE seen == SitesOf(site, work[t].org)
           next == [op |-> "org_site", fresh |-> TRUE, org |-> work[t].org, seen |-> seen]
<1>2. work' = [work EXCEPT ![t] = next]
      /\ UNCHANGED <<office, org, site, lastSite, unowned, admin, boot, raced>>
    BY DEF OrgProvision, Begins
<1>3. work[t] \in SchemaJob /\ work[t].org \in Orgs
    BY <1>1, JobKinds DEF WorkOK, Known
<1>4. seen \in SUBSET Nat
    BY DEF SiteOK, SitesOf
<1>5. OrgOK' /\ SlugsApart' /\ Orgs \subseteq Orgs'
    BY <1>2 DEF OrgOK, SlugsApart, Orgs
<1>6. UpToDate(site, next)
    BY DEF UpToDate
<1> HIDE DEF seen
<1>7. next \in Job /\ next.org \in Orgs'
    BY <1>3, <1>4, <1>5 DEF Job, SiteJob, SchemaJob
<1> HIDE DEF next
<1> QED
    BY <1>1, <1>2, <1>5, <1>6, <1>7, QuietHandler

LEMMA OrgSiteStep == ASSUME NEW t \in Thread, WorkspaceInv, OrgSite(t) PROVE WorkspaceInv'
<1> USE DEF WorkspaceInv, WTypes
<1>1. BootAt("up") /\ calls' \in Nat /\ work[t].op = "org_site"
    BY CallsType DEF OrgSite, Doing
<1>2. CASE ~(work[t].seen \subseteq DOMAIN site)
    BY <1>1, <1>2, FailStep DEF OrgSite
<1>3. CASE work[t].seen \subseteq DOMAIN site
  <2> DEFINE o == work[t].org
             seen == work[t].seen
  <2>1. /\ DefaultSiteEnsured(o, seen)
        /\ IF site' = site THEN Begins(t, Idle) /\ UNCHANGED raced ELSE SiteCommit(t, Idle)
        /\ UNCHANGED <<office, org, schema, unowned, admin, boot>>
      BY <1>3 DEF OrgSite
  <2>2. o \in Orgs /\ seen \in SUBSET DOMAIN site
      BY <1>1, <1>3 DEF Known
  <2>3. work[t].fresh => seen = SitesOf(site, o)
      BY <1>1 DEF Views, UpToDate
  <2> HIDE DEF o, seen
  <2> DEFINE Ensured ==
        /\ SiteOK' /\ DOMAIN site \subseteq DOMAIN site'
        /\ \A s \in DOMAIN site : site'[s].org = site[s].org
        /\ \A s \in DOMAIN site' \ DOMAIN site : site'[s].org = o
        /\ seen = SitesOf(site, o) /\ Alone(site) => Alone(site')
  <2>4. Ensured
      BY <2>1, <2>2, EnsuredSites
  <2>5. \A s \in DOMAIN site' : site'[s].org \in Orgs
    <3> SUFFICES ASSUME NEW s \in DOMAIN site' PROVE site'[s].org \in Orgs
        OBVIOUS
    <3>1. \A r \in DOMAIN site : site[r].org \in Orgs
        BY <1>1 DEF Owned, BootAt
    <3> QED
        BY <3>1, <2>2, <2>4
  <2>6. CASE site' = site
    <3>1. work' = [work EXCEPT ![t] = Idle] /\ raced' = raced
        BY <2>1, <2>6 DEF Begins
    <3>2. WorkOK' /\ Known' /\ Views'
      <4>1. UpToDate(site, Idle) /\ Idle.op = "idle" /\ Idle \in Job
          BY IdleIsJob DEF UpToDate
      <4>2. Orgs \subseteq Orgs'
          BY <2>1 DEF Orgs
      <4> QED
          BY <2>6, <3>1, <4>1, <4>2, StepKeepsThreads
    <3>3. OfficeOK' /\ BootOK' /\ Calm' /\ Progress'
        BY <1>1, <2>1, UpKeeps
    <3>4. OrgOK' /\ SlugsApart' /\ Owned' /\ AloneDefault' /\ FlagsOK'
        BY <1>1, <2>1, <2>5, <2>6, <3>1
           DEF OrgOK, SlugsApart, Orgs, Owned, AloneDefault, Alone, FlagsOK
    <3> QED
        BY <2>4, <3>2, <3>3, <3>4
  <2>7. CASE site' # site
    <3>1. SiteCommit(t, Idle)
        BY <2>1, <2>7
    <3> QED
        BY <1>1, <2>1, <2>3, <2>4, <2>5, <3>1, SiteHandler
  <2> QED
      BY <2>6, <2>7
<1> QED
    BY <1>2, <1>3

LEMMA SlugSteps ==
    ASSUME NEW t \in Thread, WorkspaceInv, SlugStart(t) \/ SlugCommit(t)
    PROVE  WorkspaceInv'
<1> USE DEF WorkspaceInv, WTypes
<1>1. BootAt("up") /\ calls' \in Nat
    BY CallsType DEF SlugStart, SlugCommit, Free, Doing
<1>2. CASE SlugStart(t)
  <2>1. PICK o \in Orgs, v \in Word :
          Begins(t, [op |-> "slug", fresh |-> TRUE, org |-> o, slug |-> <<v, 1>>])
      BY <1>2 DEF SlugStart
  <2> DEFINE next == [op |-> "slug", fresh |-> TRUE, org |-> o, slug |-> <<v, 1>>]
  <2>2. work' = [work EXCEPT ![t] = next]
      BY <2>1 DEF Begins
  <2>3. UNCHANGED <<office, org, site, lastSite, unowned, admin, boot, raced>>
      BY <1>2 DEF SlugStart, tables
  <2>4. OrgOK' /\ SlugsApart' /\ Orgs \subseteq Orgs'
      BY <2>3 DEF OrgOK, SlugsApart, Orgs
  <2>5. next \in Job /\ next.op = "slug" /\ next.org \in Orgs'
    <3>1. o \in Nat
        BY DEF OrgOK, Orgs
    <3> QED
        BY <2>4, <3>1 DEF Job, SlugJob
  <2> HIDE DEF next
  <2>6. UpToDate(site, next)
      BY <2>5 DEF UpToDate
  <2> QED
      BY <1>1, <2>2, <2>3, <2>4, <2>5, <2>6, QuietHandler
<1>3. CASE SlugCommit(t)
  <2>1. work[t].op = "slug"
      BY <1>3 DEF SlugCommit, Doing
  <2>2. CASE \E i \in Orgs \ {work[t].org} : org[i].slug = work[t].slug
      BY <1>1, <1>3, <2>2, FailStep DEF SlugCommit
  <2>3. CASE ~ \E i \in Orgs \ {work[t].org} : org[i].slug = work[t].slug
    <3>1. org' = [org EXCEPT ![work[t].org].slug = work[t].slug] /\ work' = [work EXCEPT ![t] = Idle]
          /\ UNCHANGED <<office, site, lastSite, unowned, admin, boot, raced>>
        BY <1>3, <2>3 DEF SlugCommit, Begins
    <3>2. work[t].org \in Orgs /\ work[t].slug \in Word \X Nat
        BY <2>1, JobKinds DEF Known, SlugJob, WorkOK
    <3>3. \A i \in Orgs : org[i] \in OrgRow
        BY DEF OrgOK, Orgs
    <3>4. OrgOK' /\ Orgs' = Orgs
        BY <3>1, <3>2, <3>3 DEF OrgOK, OrgRow, Orgs
    <3>5. \A i \in Orgs : org'[i].slug = IF i = work[t].org THEN work[t].slug ELSE org[i].slug
        BY <3>1, <3>3 DEF OrgRow, Orgs
    <3>6. SlugsApart'
        BY <2>3, <3>4, <3>5 DEF SlugsApart
    <3>7. UpToDate(site, Idle) /\ Idle.op = "idle" /\ Idle \in Job
        BY IdleIsJob DEF UpToDate
    <3> QED
        BY <1>1, <3>1, <3>4, <3>6, <3>7, QuietHandler
  <2> QED
      BY <2>2, <2>3
<1> QED
    BY <1>2, <1>3

LEMMA UpdateSettingsStep ==
    ASSUME NEW t \in Thread, WorkspaceInv, UpdateSettings(t) PROVE WorkspaceInv'
<1> USE DEF WorkspaceInv, WTypes
<1>1. /\ BootAt("up") /\ calls' \in Nat
      /\ UNCHANGED <<office, site, lastSite, unowned, admin, boot, raced, work>>
    BY CallsType DEF UpdateSettings, Free
<1>2. PICK o \in Orgs, type \in Types, fence \in Fences :
         org' = [org EXCEPT ![o].fence = fence, ![o].gated = Gated(type, @)]
    BY DEF UpdateSettings
<1>3. \A i \in Orgs : org[i] \in OrgRow
    BY DEF OrgOK, Orgs
<1> DEFINE gated == Gated(type, org[o].gated)
           row == [org[o] EXCEPT !.fence = fence, !.gated = gated]
<1>4. gated \in BOOLEAN
    BY <1>3, GatedType DEF OrgRow
<1>5. org' = [org EXCEPT ![o] = row]
    BY <1>2, <1>3 DEF OrgRow, OrgOK, Orgs
<1> HIDE DEF gated
<1>6. row \in OrgRow /\ row.slug = org[o].slug
    BY <1>3, <1>4 DEF OrgRow
<1> HIDE DEF row
<1>7. OrgOK' /\ Orgs' = Orgs /\ \A i \in Orgs : org'[i].slug = org[i].slug
    BY <1>5, <1>6 DEF OrgOK, Orgs
<1>8. SlugsApart'
    BY <1>7 DEF SlugsApart
<1>9. WorkOK' /\ Known' /\ Views'
    BY <1>1, <1>7 DEF WorkOK, Known, Views
<1>10. OfficeOK' /\ BootOK' /\ Calm' /\ Progress'
    BY <1>1, UpKeeps
<1>11. SiteOK' /\ Owned' /\ AloneDefault'
    BY <1>1, <1>7, QuietSites
<1>12. FlagsOK'
    BY <1>1 DEF FlagsOK
<1> QED
    BY <1>7, <1>8, <1>9, <1>10, <1>11, <1>12

LEMMA CreateSiteStartStep ==
    ASSUME NEW t \in Thread, WorkspaceInv, CreateSiteStart(t) PROVE WorkspaceInv'
<1> USE DEF WorkspaceInv, WTypes
<1>1. /\ BootAt("up") /\ calls' \in Nat
      /\ UNCHANGED <<office, org, site, lastSite, unowned, admin, boot, raced>>
    BY CallsType DEF CreateSiteStart, Free, tables
<1>2. PICK o \in Orgs, default \in BOOLEAN, fence \in SiteFences :
         Begins(t, [op |-> "create_site", fresh |-> TRUE, org |-> o, default |-> default, fence |-> fence,
                    seen |-> IF default THEN OthersDefault(o, NoSite) ELSE {}])
    BY DEF CreateSiteStart
<1> DEFINE seen == IF default THEN OthersDefault(o, NoSite) ELSE {}
           next == [op |-> "create_site", fresh |-> TRUE, org |-> o, default |-> default,
                    fence |-> fence, seen |-> seen]
<1>3. work' = [work EXCEPT ![t] = next]
    BY <1>2 DEF Begins
<1>4. seen \in SUBSET Nat
    BY DEF SiteOK, OthersDefault, Defaults, SitesOf
<1>5. NoSite \notin DOMAIN site
    BY DEF NoSite, SiteOK
<1>6. default => Defaults(site, o) \subseteq seen
    BY <1>5 DEF OthersDefault, Defaults, SitesOf
<1> HIDE DEF seen
<1>7. OrgOK' /\ SlugsApart' /\ Orgs \subseteq Orgs'
    BY <1>1 DEF OrgOK, SlugsApart, Orgs
<1>8. o \in Nat
    BY DEF OrgOK, Orgs
<1>9. next \in Job /\ next.org \in Orgs'
    BY <1>4, <1>7, <1>8 DEF Job, CreateJob
<1>10. UpToDate(site, next)
    BY <1>6 DEF UpToDate
<1> HIDE DEF next
<1> QED
    BY <1>1, <1>3, <1>7, <1>9, <1>10, QuietHandler

LEMMA ClearedSites ==
    ASSUME SiteOK, NEW seen
    PROVE  /\ DOMAIN Cleared(site, seen) = DOMAIN site
           /\ \A s \in DOMAIN site :
                /\ Cleared(site, seen)[s] \in SiteRow
                /\ Cleared(site, seen)[s].org = site[s].org
                /\ Cleared(site, seen)[s].default => site[s].default /\ s \notin seen
BY DEF Cleared, SiteOK, SiteRow

LEMMA CreateSiteCommitStep ==
    ASSUME NEW t \in Thread, WorkspaceInv, CreateSiteCommit(t) PROVE WorkspaceInv'
<1> USE DEF WorkspaceInv, WTypes
<1>1. BootAt("up") /\ calls' \in Nat /\ work[t].op = "create_site"
    BY CallsType DEF CreateSiteCommit, Doing
<1>2. CASE ~(work[t].seen \subseteq DOMAIN site)
    BY <1>1, <1>2, FailStep DEF CreateSiteCommit
<1>3. CASE work[t].seen \subseteq DOMAIN site
  <2> DEFINE new == lastSite + 1
             seen == work[t].seen
             row == NewSite(work[t].org, work[t].default, work[t].fence)
  <2>1. /\ site' = [s \in DOMAIN site \cup {new} |-> IF s = new THEN row ELSE Cleared(site, seen)[s]]
        /\ lastSite' = new
        /\ SiteCommit(t, Idle)
        /\ UNCHANGED <<office, org, schema, unowned, admin, boot>>
      BY <1>3 DEF CreateSiteCommit
  <2>2. work[t] \in CreateJob /\ work[t].org \in Orgs
      BY <1>1, JobKinds DEF WorkOK, Known
  <2>3. row \in SiteRow /\ row.org = work[t].org /\ row.default = work[t].default
      BY <2>2, SiteFencesAreFences DEF NewSite, SiteRow, CreateJob
  <2>4. work[t].fresh /\ work[t].default => Defaults(site, work[t].org) \subseteq seen
      BY <1>1 DEF Views, UpToDate
  <2> HIDE DEF row, seen
  <2>5. new \in Nat /\ new \notin DOMAIN site /\ DOMAIN site \cup {new} \subseteq 1 .. new
      BY DEF SiteOK
  <2> HIDE DEF new
  <2>6. /\ DOMAIN site' = DOMAIN site \cup {new} /\ site'[new] = row
        /\ \A s \in DOMAIN site : site'[s] = Cleared(site, seen)[s]
      BY <2>1, <2>5
  <2>7. \A s \in DOMAIN site :
           /\ site'[s] \in SiteRow /\ site'[s].org = site[s].org
           /\ site'[s].default => site[s].default /\ s \notin seen
      BY <2>6, ClearedSites
  <2>8. SiteOK'
    <3>1. lastSite' \in Nat /\ DOMAIN site' \subseteq 1 .. lastSite'
        BY ONLY <2>1, <2>5, <2>6
    <3>2. \A s \in DOMAIN site' : site'[s] \in SiteRow
        BY <2>3, <2>6, <2>7
    <3> QED
        BY <3>1, <3>2 DEF SiteOK
  <2>9. \A s \in DOMAIN site' : site'[s].org \in Orgs
    <3>1. \A s \in DOMAIN site : site[s].org \in Orgs
        BY <1>1 DEF Owned, BootAt
    <3> QED
        BY <3>1, <2>2, <2>3, <2>6, <2>7
  <2>10. work[t].fresh /\ Alone(site) => Alone(site')
    <3> SUFFICES ASSUME work[t].fresh, Alone(site), NEW r \in DOMAIN site', NEW s \in DOMAIN site',
                        site'[r].default, site'[s].default, site'[r].org = site'[s].org
                 PROVE  r = s
        BY DEF Alone
    <3>1. CASE r # new /\ s # new
        BY <3>1, <2>6, <2>7 DEF Alone
    <3>2. ASSUME NEW q \in DOMAIN site, row.default, site'[q].default, site'[q].org = row.org
          PROVE  FALSE
        BY <3>2, <2>3, <2>4, <2>7 DEF Defaults, SitesOf
    <3> QED
        BY <3>1, <3>2, <2>6
  <2> QED
      BY <1>1, <2>1, <2>8, <2>9, <2>10, SiteHandler
<1> QED
    BY <1>2, <1>3

LEMMA UpdateSiteStartStep ==
    ASSUME NEW t \in Thread, WorkspaceInv, UpdateSiteStart(t) PROVE WorkspaceInv'
<1> USE DEF WorkspaceInv, WTypes
<1>1. /\ BootAt("up") /\ calls' \in Nat
      /\ UNCHANGED <<office, org, site, lastSite, unowned, admin, boot, raced>>
    BY CallsType DEF UpdateSiteStart, Free, tables
<1>2. PICK s \in DOMAIN site, default \in BOOLEAN, fence \in SiteFences :
         Begins(t, [op |-> "update_site", fresh |-> TRUE, self |-> s, default |-> default,
                    fence |-> fence, was |-> site[s].default])
    BY DEF UpdateSiteStart
<1> DEFINE was == site[s].default
           next == [op |-> "update_site", fresh |-> TRUE, self |-> s, default |-> default,
                    fence |-> fence, was |-> was]
<1>3. work' = [work EXCEPT ![t] = next]
    BY <1>2 DEF Begins
<1>4. s \in Nat /\ was \in BOOLEAN
    BY DEF SiteOK, SiteRow
<1>5. OrgOK' /\ SlugsApart' /\ Orgs \subseteq Orgs'
    BY <1>1 DEF OrgOK, SlugsApart, Orgs
<1>6. UpToDate(site, next)
    BY DEF UpToDate
<1> HIDE DEF was
<1>7. next \in Job /\ next.op = "update_site"
    BY <1>4 DEF Job, UpdateJob
<1> HIDE DEF next
<1> QED
    BY <1>1, <1>3, <1>5, <1>6, <1>7, QuietHandler

LEMMA UpdateSiteLookStep ==
    ASSUME NEW t \in Thread, WorkspaceInv, UpdateSiteLook(t) PROVE WorkspaceInv'
<1> USE DEF WorkspaceInv, WTypes
<1>1. /\ BootAt("up") /\ calls' \in Nat /\ work[t].op = "update_site"
      /\ UNCHANGED <<office, org, site, lastSite, unowned, admin, boot, raced>>
    BY CallsType DEF UpdateSiteLook, Doing, tables
<1>2. OrgOK' /\ SlugsApart' /\ Orgs \subseteq Orgs'
    BY <1>1 DEF OrgOK, SlugsApart, Orgs
<1>3. CASE work[t].self \notin DOMAIN site
  <2>1. work' = [work EXCEPT ![t] = Idle]
      BY <1>3 DEF UpdateSiteLook, Begins
  <2>2. UpToDate(site, Idle) /\ Idle.op = "idle" /\ Idle \in Job
      BY IdleIsJob DEF UpToDate
  <2> QED
      BY <1>1, <1>2, <2>1, <2>2, QuietHandler
<1>4. CASE work[t].self \in DOMAIN site
  <2> DEFINE job == work[t]
             seen == IF job.default THEN OthersDefault(site[job.self].org, job.self) ELSE {}
             next == [op |-> "save_site", fresh |-> job.fresh, self |-> job.self,
                      fence |-> job.fence, default |-> job.default, was |-> job.was, seen |-> seen]
  <2>1. work' = [work EXCEPT ![t] = next]
      BY <1>4 DEF UpdateSiteLook, Begins
  <2>2. job \in UpdateJob
      BY <1>1, JobKinds DEF WorkOK
  <2>3. seen \in SUBSET Nat
      BY DEF SiteOK, OthersDefault, Defaults, SitesOf
  <2>4. job.fresh => job.self \in DOMAIN site /\ job.was = site[job.self].default
      BY <1>1 DEF Views, UpToDate
  <2>5. job.default => Defaults(site, site[job.self].org) \ {job.self} \subseteq seen
      BY DEF OthersDefault
  <2> HIDE DEF seen, job
  <2>6. UpToDate(site, next)
      BY <2>4, <2>5 DEF UpToDate
  <2>7. next \in Job /\ next.op = "save_site"
      BY <2>2, <2>3 DEF Job, SaveJob, UpdateJob
  <2> HIDE DEF next
  <2> QED
      BY <1>1, <1>2, <2>1, <2>6, <2>7, QuietHandler
<1> QED
    BY <1>3, <1>4

LEMMA UpdateSiteCommitStep ==
    ASSUME NEW t \in Thread, WorkspaceInv, UpdateSiteCommit(t) PROVE WorkspaceInv'
<1> USE DEF WorkspaceInv, WTypes
<1>1. BootAt("up") /\ calls' \in Nat /\ work[t].op = "save_site"
    BY CallsType DEF UpdateSiteCommit, Doing
<1>2. CASE ~(work[t].seen \cup {work[t].self} \subseteq DOMAIN site)
    BY <1>1, <1>2, FailStep DEF UpdateSiteCommit
<1>3. CASE work[t].seen \cup {work[t].self} \subseteq DOMAIN site
  <2> DEFINE job == work[t]
             self == job.self
             kept == IF job.default = job.was THEN site[self].default ELSE job.default
  <2>1. /\ site' = [Cleared(site, job.seen) EXCEPT ![self].default = kept, ![self].fence = job.fence]
        /\ SiteCommit(t, Idle)
        /\ UNCHANGED <<office, org, schema, lastSite, unowned, admin, boot>>
      BY <1>3 DEF UpdateSiteCommit
  <2>2. job \in SaveJob /\ self \in DOMAIN site
      BY <1>1, <1>3, JobKinds DEF WorkOK
  <2>3. kept \in BOOLEAN
      BY <2>2 DEF SaveJob, SiteOK, SiteRow
  <2>4. job.fresh => kept = job.default
      BY <1>1, <2>2 DEF Views, UpToDate, SaveJob
  <2>5. job.fresh /\ job.default => Defaults(site, site[self].org) \ {self} \subseteq job.seen
      BY <1>1 DEF Views, UpToDate
  <2>6. job.fence \in Fences
      BY <2>2, SiteFencesAreFences DEF SaveJob
  <2> HIDE DEF kept, self, job
  <2> DEFINE row == Cleared(site, job.seen)[self]
  <2>7. row \in SiteRow /\ row.org = site[self].org
      BY <2>2, ClearedSites
  <2>8. /\ DOMAIN site' = DOMAIN site
        /\ \A s \in DOMAIN site : s # self => site'[s] = Cleared(site, job.seen)[s]
        /\ site'[self] = [row EXCEPT !.default = kept, !.fence = job.fence]
      BY <2>1, <2>2, <2>7, ClearedSites DEF SiteRow
  <2> HIDE DEF row
  <2>9. site'[self] \in SiteRow /\ site'[self].org = site[self].org /\ site'[self].default = kept
      BY <2>3, <2>6, <2>7, <2>8 DEF SiteRow
  <2>10. \A s \in DOMAIN site :
            /\ site'[s] \in SiteRow /\ site'[s].org = site[s].org
            /\ s # self /\ site'[s].default => site[s].default /\ s \notin job.seen
    <3> SUFFICES ASSUME NEW s \in DOMAIN site
                 PROVE  /\ site'[s] \in SiteRow /\ site'[s].org = site[s].org
                        /\ s # self /\ site'[s].default => site[s].default /\ s \notin job.seen
        OBVIOUS
    <3>1. CASE s = self
        BY <3>1, <2>9
    <3>2. CASE s # self
      <4>1. site'[s] = Cleared(site, job.seen)[s]
          BY <3>2, <2>8
      <4> QED
          BY <4>1, ClearedSites
    <3> QED
        BY <3>1, <3>2
  <2>11. SiteOK'
      BY <2>1, <2>8, <2>10 DEF SiteOK
  <2>12. \A s \in DOMAIN site' : site'[s].org \in Orgs
      BY <1>1, <2>8, <2>10 DEF Owned, BootAt
  <2>13. job.fresh /\ Alone(site) => Alone(site')
    <3> SUFFICES ASSUME job.fresh, Alone(site), NEW r \in DOMAIN site, NEW s \in DOMAIN site,
                        site'[r].default, site'[s].default, site'[r].org = site'[s].org
                 PROVE  r = s
        BY <2>8 DEF Alone
    <3>1. CASE r # self /\ s # self
        BY <3>1, <2>10 DEF Alone
    <3>2. ASSUME NEW q \in DOMAIN site, q # self, site'[self].default, site'[q].default,
                 site'[q].org = site'[self].org
          PROVE  FALSE
      <4>1. q \in Defaults(site, site[self].org) /\ q \notin job.seen
          BY <3>2, <2>9, <2>10 DEF Defaults, SitesOf
      <4>2. job.default
          BY <3>2, <2>4, <2>9
      <4> QED
          BY <3>2, <4>1, <4>2, <2>5
    <3> QED
        BY <3>1, <3>2
  <2> QED
      BY <1>1, <2>1, <2>11, <2>12, <2>13, SiteHandler DEF job
<1> QED
    BY <1>2, <1>3

LEMMA DeleteSiteStep == ASSUME NEW t \in Thread, WorkspaceInv, DeleteSite(t) PROVE WorkspaceInv'
<1> USE DEF WorkspaceInv, WTypes
<1>1. /\ BootAt("up") /\ calls' \in Nat /\ SiteCommit(t, Idle)
      /\ UNCHANGED <<office, org, lastSite, unowned, admin, boot>>
    BY CallsType DEF DeleteSite, Free
<1>2. PICK s \in DOMAIN site : site' = [r \in DOMAIN site \ {s} |-> site[r]]
    BY DEF DeleteSite
<1>3. DOMAIN site' \subseteq DOMAIN site /\ \A r \in DOMAIN site' : site'[r] = site[r]
    BY <1>2
<1>4. SiteOK'
    BY <1>1, <1>3 DEF SiteOK
<1>5. \A r \in DOMAIN site' : site'[r].org \in Orgs
    BY <1>1, <1>3 DEF Owned, BootAt
<1>6. Alone(site) => Alone(site')
    BY <1>3 DEF Alone
<1> QED
    BY <1>1, <1>4, <1>5, <1>6, SiteHandler

----------------------------------------------------------------------------
(* The specification.                                                      *)

LEMMA Stuttering == WorkspaceInv /\ UNCHANGED workspace => WorkspaceInv'
<1> SUFFICES ASSUME WorkspaceInv, UNCHANGED workspace PROVE WorkspaceInv'
    OBVIOUS
<1> USE DEF WorkspaceInv, WTypes, workspace
<1>1. OfficeOK' /\ OrgOK' /\ SiteOK' /\ BootOK' /\ WorkOK' /\ FlagsOK'
    BY DEF OfficeOK, OrgOK, SiteOK, BootOK, WorkOK, FlagsOK, BootAt
<1>2. Calm' /\ Owned' /\ Known' /\ SlugsApart'
    BY DEF Calm, Owned, Known, SlugsApart, Orgs, BootAt
<1>3. Progress' /\ Views' /\ AloneDefault'
    BY DEF Progress, Views, AloneDefault, BootAt, Orgs
<1> QED
    BY <1>1, <1>2, <1>3

LEMMA WorkspaceNextHolds == WorkspaceInv /\ [WorkspaceNext]_workspace => WorkspaceInv'
<1> SUFFICES ASSUME WorkspaceInv, [WorkspaceNext]_workspace PROVE WorkspaceInv'
    OBVIOUS
<1>1. CASE Boot
    BY <1>1, BootSteps, SeedDefaultOrgStep, BackfillStep, EnsureOrgSlugsStep, SeedSiteStep DEF Boot
<1>2. CASE Crash
    BY <1>2, CrashStep
<1>3. ASSUME NEW t \in Thread, Handler(t) PROVE WorkspaceInv'
    BY <1>3, OrgStartStep, OrgInsertStep, OrgProvisionStep, OrgSiteStep, SlugSteps,
       UpdateSettingsStep, CreateSiteStartStep, CreateSiteCommitStep, UpdateSiteStartStep,
       UpdateSiteLookStep, UpdateSiteCommitStep, DeleteSiteStep DEF Handler
<1>4. CASE UNCHANGED workspace
    BY <1>4, Stuttering
<1> QED
    BY <1>1, <1>2, <1>3, <1>4 DEF WorkspaceNext

THEOREM WorkspaceInvariant == WorkspaceSpec => []WorkspaceInv
<1> QED
    BY WorkspaceInitHolds, WorkspaceNextHolds, PTL DEF WorkspaceSpec

\* An organization has two default sites only if two writers overlapped.
THEOREM DefaultSiteIsOne == WorkspaceSpec => []OneDefaultUnlessRaced
<1>1. WorkspaceInv => OneDefaultUnlessRaced
  <2> SUFFICES ASSUME WorkspaceInv, ~raced, NEW o \in Orgs
               PROVE  Cardinality(Defaults(site, o)) <= 1
      BY DEF OneDefaultUnlessRaced
  <2>1. \A r, s \in Defaults(site, o) : r = s
      BY DEF WorkspaceInv, AloneDefault, Alone, Defaults, SitesOf
  <2>2. CASE Defaults(site, o) = {}
      BY <2>2, FS_EmptySet
  <2>3. ASSUME NEW s \in Defaults(site, o) PROVE Cardinality(Defaults(site, o)) = 1
    <3>1. Defaults(site, o) = {s}
        BY <2>1
    <3> QED
        BY <3>1, FS_Singleton
  <2> QED
      BY <2>2, <2>3
<1> QED
    BY <1>1, WorkspaceInvariant, PTL

\* A boot that gets through hands over a database without legacy.
THEOREM BootsHeal == WorkspaceSpec => BootHeals
<1>1. ASSUME WorkspaceInv, WorkspaceNext, boot.at # "up", boot'.at = "up" PROVE Healed'
  <2>1. Seeded
    <3>1. ASSUME NEW t \in Thread, Handler(t) PROVE boot.at = "up"
        BY <3>1 DEF Handler, OrgStart, OrgInsert, OrgProvision, OrgSite, SlugStart, SlugCommit,
               UpdateSettings, CreateSiteStart, CreateSiteCommit, UpdateSiteStart, UpdateSiteLook,
               UpdateSiteCommit, DeleteSite, Free, Doing, BootAt
    <3>2. BootOK
        BY <1>1 DEF WorkspaceInv, WTypes
    <3>3. Crash \/ Start \/ SeedOfficeSettings \/ SeedDefaultOrg \/ BackfillOrgId => boot'.at # "up"
      <4>1. ASSUME NEW at, BootGoes(at) PROVE boot'.at = at
          BY <3>2, <4>1 DEF BootGoes, BootOK
      <4>2. Start => boot'.at = "settings"
          BY DEF Start
      <4>3. Crash => boot'.at = "down"
          BY <4>1 DEF Crash
      <4>4. SeedOfficeSettings => boot'.at = "org"
          BY <4>1 DEF SeedOfficeSettings
      <4>5. SeedDefaultOrg => boot'.at = "backfill"
          BY <4>1 DEF SeedDefaultOrg
      <4>6. BackfillOrgId => boot'.at = "slugs"
          BY <4>1 DEF BackfillOrgId
      <4> QED
          BY <4>2, <4>3, <4>4, <4>5, <4>6
    <3>4. EnsureOrgSlugs \/ SeedAdmin => boot'.at # "up"
        BY <3>2 DEF EnsureOrgSlugs, SeedAdmin, BootOK
    <3>5. SeedSite => boot'.at = boot.at
      <4> SUFFICES ASSUME SeedSite PROVE boot'.at = boot.at
          OBVIOUS
      <4>1. \E todo, made : boot' = [boot EXCEPT !.todo = todo, !.made = made]
          BY Zenon DEF SeedSite
      <4> QED
          BY <4>1, <3>2 DEF BootOK
    <3> QED
        BY <1>1, <3>1, <3>3, <3>4, <3>5 DEF WorkspaceNext, Boot
  <2>2. boot.at = "sites" /\ boot.todo = {} /\ boot.second
      BY <1>1, <2>1 DEF Seeded, BootAt, WorkspaceInv, WTypes, BootOK
  <2>3. UNCHANGED <<org, site, unowned, admin>> /\ schema' = schema \cup boot.made /\ Orgs' = Orgs
      BY <2>1 DEF Seeded, Orgs
  <2>4. org # <<>> /\ admin /\ ~unowned
      BY <1>1, <2>2 DEF WorkspaceInv, Progress, BootAt
  <2>5. \A o \in Orgs : org[o].slug # NoSlug /\ o \in schema \cup boot.made /\ Defaults(site, o) # {}
      BY <1>1, <2>2 DEF WorkspaceInv, Progress, BootAt
  <2>6. \A o, p \in Orgs : o # p => org[o].slug # org[p].slug
      BY <1>1, <2>5 DEF WorkspaceInv, SlugsApart
  <2>7. \A s \in DOMAIN site : site[s].org \in Orgs
      BY <1>1, <2>2 DEF WorkspaceInv, Owned
  <2> QED
      BY <2>3, <2>4, <2>5, <2>6, <2>7 DEF Healed
<1>2. UNCHANGED workspace => boot' = boot
    BY DEF workspace
<1>3. WorkspaceInv /\ [WorkspaceNext]_workspace =>
         (boot.at # "up" /\ boot'.at = "up" => Healed')
    BY <1>1, <1>2
<1> QED
    BY <1>3, WorkspaceInvariant, PTL DEF WorkspaceSpec, BootHeals

\* Giving an organization its first site does not move its fence: what the
\* site has comes from the organization, whose fence counted before because
\* it had no site.
LEMMA FirstSiteKeepsTheFence ==
    ASSUME OrgOK, SiteOK, NEW o \in Orgs, NEW p \in Orgs, NEW here,
           DefaultSiteEnsured(p, SitesOf(site, p)),
           ~(org[o].fence.at # Nowhere /\ ~org[o].fence.wide)
    PROVE  /\ PunchAllowed(org, site', o, here, NoSite) <=> PunchAllowed(org, site, o, here, NoSite)
           /\ LocationGate(org, site', o) <=> LocationGate(org, site, o)
<1> DEFINE old == Fenced(site, o)
           fence == org[o].fence
<1>1. CASE /\ \A s \in Fenced(site', o) : s \in old /\ site'[s].fence = site[s].fence
           /\ old \subseteq Fenced(site', o)
  <2>1. Fenced(site', o) = old
      BY <1>1
  <2>2. (\E f \in Fenced(site', o) : Within(here, site'[f].fence))
           <=> \E f \in old : Within(here, site[f].fence)
      BY <1>1, <2>1 DEF Within
  <2>3. PunchAllowed(org, site', o, here, NoSite) <=> PunchAllowed(org, site, o, here, NoSite)
      BY <2>1, <2>2 DEF PunchAllowed
  <2> QED
      BY <2>1, <2>3 DEF LocationGate
<1>2. CASE \E s \in SitesOf(site, p) : site[s].default
  <2>1. site' = site
      BY <1>2 DEF DefaultSiteEnsured
  <2> QED
      BY <1>1, <2>1 DEF Fenced
<1>3. CASE ~(\E s \in SitesOf(site, p) : site[s].default) /\ SitesOf(site, p) # {}
  <2>1. PICK s \in SitesOf(site, p) : site' = [site EXCEPT ![s].default = TRUE]
      BY <1>3 DEF DefaultSiteEnsured, Promoted
  <2>2. /\ DOMAIN site' = DOMAIN site
        /\ \A r \in DOMAIN site : site'[r].org = site[r].org /\ site'[r].fence = site[r].fence
      BY <2>1 DEF SiteOK, SiteRow, SitesOf
  <2> QED
      BY <1>1, <2>2 DEF Fenced, SitesOf
<1>4. CASE SitesOf(site, p) = {}
  <2> DEFINE new == lastSite + 1
  <2>1. site' = [s \in DOMAIN site \cup {new} |->
                    IF s \in DOMAIN site THEN site[s] ELSE SeededSite(p)]
      BY <1>4 DEF DefaultSiteEnsured
  <2>2. new \notin DOMAIN site
      BY DEF SiteOK
  <2>3. /\ DOMAIN site' = DOMAIN site \cup {new}
        /\ \A r \in DOMAIN site : site'[r] = site[r]
        /\ site'[new].org = p /\ site'[new].fence = org[p].fence
      BY <2>1, <2>2 DEF SeededSite, NewSite
  <2> HIDE DEF new
  <2>4. CASE o # p \/ fence.at = Nowhere
      BY <1>1, <2>2, <2>3, <2>4 DEF Fenced, SitesOf
  <2>5. CASE o = p /\ fence.at # Nowhere
    <3>1. fence.wide
        BY <2>5
    <3>2. old = {} /\ Fenced(site', o) = {new}
        BY <1>4, <2>2, <2>3, <2>5 DEF Fenced, SitesOf
    <3>3. GeofenceActive(org[o])
        BY <2>5, <3>1 DEF GeofenceActive
    <3>4. (\E f \in Fenced(site', o) : Within(here, site'[f].fence)) <=> Within(here, fence)
        BY <3>2, <2>3, <2>5
    <3>5. PunchAllowed(org, site', o, here, NoSite) <=> PunchAllowed(org, site, o, here, NoSite)
        BY <3>2, <3>3, <3>4 DEF PunchAllowed
    <3>6. LocationGate(org, site', o) <=> LocationGate(org, site, o)
        BY <3>2, <3>3 DEF LocationGate
    <3> QED
        BY <3>5, <3>6
  <2> QED
      BY <2>4, <2>5
<1> QED
    BY <1>2, <1>3, <1>4

\* A restart does not change where people may punch.
THEOREM RestartKeepsTheFence == WorkspaceSpec => BootKeepsTheFence
<1>1. WorkspaceInv /\ [WorkspaceNext]_workspace =>
        (SeedSite =>
           \A o \in Orgs, here \in Place \cup {Nowhere} :
              \/ org[o].fence.at # Nowhere /\ ~org[o].fence.wide
              \/ /\ PunchAllowed(org, site', o, here, NoSite)
                      <=> PunchAllowed(org, site, o, here, NoSite)
                 /\ LocationGate(org, site', o) <=> LocationGate(org, site, o))
  <2> SUFFICES ASSUME WorkspaceInv, SeedSite, NEW o \in Orgs, NEW here,
                      ~(org[o].fence.at # Nowhere /\ ~org[o].fence.wide)
               PROVE  /\ PunchAllowed(org, site', o, here, NoSite)
                           <=> PunchAllowed(org, site, o, here, NoSite)
                      /\ LocationGate(org, site', o) <=> LocationGate(org, site, o)
      OBVIOUS
  <2>1. PICK p \in boot.todo : DefaultSiteEnsured(p, SitesOf(site, p))
      BY Zenon DEF SeedSite
  <2>2. p \in Orgs
      BY DEF SeedSite, WorkspaceInv, Progress, BootAt
  <2> QED
      BY <2>1, <2>2, FirstSiteKeepsTheFence DEF WorkspaceInv, WTypes
<1> QED
    BY <1>1, WorkspaceInvariant, PTL DEF WorkspaceSpec, BootKeepsTheFence

----------------------------------------------------------------------------
(* People and their logins.                                                *)

PersonRow == [id : EmployeeId \cup {NoId}, how : {"register", "staff"}]
UserRow == [name : Username, role : Roles, person : Nat]

Registers == [op : {"register"}, fresh : BOOLEAN, name : Username, id : EmployeeId \cup {NoId}]
UserForms == [op : {"register_user"}, fresh : BOOLEAN, name : Username, person : Nat]
PersonForms == [op : {"person"}, fresh : BOOLEAN, id : EmployeeId \cup {NoId}, self : Nat]
StaffForms == [op : {"user"}, fresh : BOOLEAN, name : Username, role : Roles]
RoleForms == [op : {"role"}, fresh : BOOLEAN, by : Nat, user : Nat, role : Roles]
LoginForms == [op : {"login"}, fresh : BOOLEAN, person : Nat, name : Username, login : SUBSET Nat]
Form == {Blank} \cup Registers \cup UserForms \cup PersonForms \cup StaffForms
          \cup RoleForms \cup LoginForms

AccountTypes ==
    /\ people \in Seq(PersonRow) /\ users \in Seq(UserRow)
    /\ form \in [Clerk -> Form]
    /\ overtaken \in BOOLEAN /\ died \in BOOLEAN /\ byPlatform \in BOOLEAN

\* Whatever another handler has committed since, a form is about rows that
\* are there, and nobody demotes himself.
Standing(q) ==
    /\ q.op = "register_user" => q.person \in DOMAIN people
    /\ q.op = "person" => q.self \in DOMAIN people \cup {NoPerson}
    /\ q.op = "role" => q.by = Platform \/ q.by # q.user \/ q.role = "admin"
    /\ q.op = "login" => q.person \in DOMAIN people

\* A form that no commit has overtaken still rests on what it has read.
Fresh(q) ==
    /\ q.op = "register" => ~NameTaken(q.name, 0)
    /\ q.op = "register_user" => ~NameTaken(q.name, 0) /\ Logins(q.person) = {}
    /\ q.op = "role" => q.by = Platform \/ q.by \in Admins(users)

Sound(c) == Standing(form[c]) /\ (form[c].fresh => Fresh(form[c]))

\* The constraint holds, and no user is of a person to come.
Tables ==
    /\ UsersFit(users)
    /\ \A u \in DOMAIN users : users[u].person <= Len(people)

AccountsInv ==
    /\ AccountTypes /\ Tables
    /\ \A c \in Clerk : Sound(c)
    /\ AdminRemains /\ RegisteredHasLogin

----------------------------------------------------------------------------
(* Sequences and forms.                                                    *)

LEMMA SameLength ==
    ASSUME NEW S, NEW s \in Seq(S), NEW f,
           f = [i \in DOMAIN s |-> f[i]], \A i \in DOMAIN s : f[i] \in S
    PROVE  f \in Seq(S) /\ Len(f) = Len(s) /\ DOMAIN f = DOMAIN s
OBVIOUS

LEMMA Appended ==
    ASSUME NEW S, NEW s \in Seq(S), NEW e \in S
    PROVE  /\ Append(s, e) \in Seq(S) /\ Len(Append(s, e)) = Len(s) + 1
           /\ DOMAIN Append(s, e) = DOMAIN s \cup {Len(s) + 1}
           /\ \A i \in DOMAIN s : i # Len(s) + 1 /\ Append(s, e)[i] = s[i]
           /\ Append(s, e)[Len(s) + 1] = e
OBVIOUS

\* What a commit of another handler leaves of a form.
LEMMA Overtaken ==
    ASSUME NEW q \in Form, q # Blank
    PROVE  LET p == [q EXCEPT !.fresh = FALSE] IN
           /\ p \in Form /\ p.op = q.op /\ ~p.fresh
           /\ q.op \in {"register_user", "login"} => p.person = q.person
           /\ q.op = "person" => p.self = q.self
           /\ q.op = "role" => p.by = q.by /\ p.user = q.user /\ p.role = q.role
<1> USE DEF Form, Blank
<1>1. CASE q \in Registers
    BY <1>1 DEF Registers
<1>2. CASE q \in UserForms
    BY <1>2 DEF UserForms
<1>3. CASE q \in PersonForms
    BY <1>3 DEF PersonForms
<1>4. CASE q \in StaffForms
    BY <1>4 DEF StaffForms
<1>5. CASE q \in RoleForms
    BY <1>5 DEF RoleForms
<1>6. CASE q \in LoginForms
    BY <1>6 DEF LoginForms
<1> QED
    BY <1>1, <1>2, <1>3, <1>4, <1>5, <1>6

LEMMA FreshIsBoolean == \A q \in Form : q.fresh \in BOOLEAN
<1> TAKE q \in Form
<1>1. CASE q = Blank
    BY <1>1 DEF Blank
<1>2. CASE q \in Registers \cup UserForms \cup PersonForms
    BY <1>2 DEF Registers, UserForms, PersonForms
<1>3. CASE q \in StaffForms \cup RoleForms \cup LoginForms
    BY <1>3 DEF StaffForms, RoleForms, LoginForms
<1> QED
    BY <1>1, <1>2, <1>3 DEF Form

----------------------------------------------------------------------------
(* The kinds of steps.                                                     *)

LEMMA TakesStep ==
    ASSUME AccountsInv, NEW c \in Clerk, NEW q \in Form, Takes(c, q), q # Blank, Standing(q), Fresh(q)
    PROVE  AccountsInv'
<1> USE DEF Takes
<1>1. AccountTypes'
    BY DEF AccountsInv, AccountTypes
<1>2. Tables' /\ AdminRemains'
    BY DEF AccountsInv, Tables, AdminRemains, UsersFit, Admins
<1>3. form'[c] = q /\ \A d \in Clerk \ {c} : form'[d] = form[d]
    BY DEF AccountsInv, AccountTypes
<1>4. \A d \in Clerk : Sound(d)'
    BY <1>3 DEF AccountsInv, Sound, Standing, Fresh, NameTaken, Logins, Admins
<1>5. RegisteredHasLogin'
    BY <1>3 DEF AccountsInv, RegisteredHasLogin, Logins, Blank
<1> QED
    BY <1>1, <1>2, <1>4, <1>5 DEF AccountsInv

LEMMA RefusedStep ==
    ASSUME AccountsInv, NEW c \in Clerk, Refused(c), form[c].fresh => form[c].op # "register_user"
    PROVE  AccountsInv'
<1> USE DEF Refused
<1>1. AccountTypes'
  <2>1. Blank \in Form
      BY DEF Form
  <2>2. form[c].fresh \in BOOLEAN
      BY FreshIsBoolean DEF AccountsInv, AccountTypes
  <2> QED
      BY <2>1, <2>2 DEF AccountsInv, AccountTypes
<1>2. Tables' /\ AdminRemains'
    BY DEF AccountsInv, Tables, AdminRemains, UsersFit, Admins, AccountTypes
<1>3. form'[c] = Blank /\ \A d \in Clerk \ {c} : form'[d] = form[d]
    BY DEF AccountsInv, AccountTypes
<1>4. \A d \in Clerk : Sound(d)'
    BY <1>3 DEF AccountsInv, Sound, Standing, Fresh, NameTaken, Logins, Admins, Blank
<1>5. RegisteredHasLogin'
  <2> SUFFICES ASSUME ~overtaken', ~died', NEW p \in DOMAIN people, people[p].how = "register"
               PROVE  \/ Logins(p) # {}
                      \/ \E d \in Clerk : form'[d].op = "register_user" /\ form'[d].person = p
      BY DEF RegisteredHasLogin, Logins
  <2>1. ~overtaken /\ ~died /\ form[c].fresh
      BY FreshIsBoolean DEF AccountsInv, AccountTypes
  <2>2. \/ Logins(p) # {}
        \/ \E d \in Clerk : form[d].op = "register_user" /\ form[d].person = p
      BY <2>1 DEF AccountsInv, RegisteredHasLogin
  <2> QED
      BY <2>1, <2>2, <1>3
<1> QED
    BY <1>1, <1>2, <1>4, <1>5 DEF AccountsInv

\* A commit that keeps the rows there were, their persons and who had
\* registered, and gives a login to whom it was promised.
Keeps(c, next) ==
    /\ people' \in Seq(PersonRow) /\ users' \in Seq(UserRow) /\ byPlatform' \in BOOLEAN
    /\ DOMAIN people \subseteq DOMAIN people' /\ DOMAIN users \subseteq DOMAIN users'
    /\ \A u \in DOMAIN users : users'[u].person = users[u].person
    /\ \A p \in DOMAIN people' :
         people'[p].how = "register" =>
           \/ p \in DOMAIN people /\ people[p].how = "register"
           \/ next.op = "register_user" /\ next.person = p
    /\ form[c].op = "register_user" => \E u \in DOMAIN users' : users'[u].person = form[c].person

LEMMA CommitStep ==
    ASSUME AccountsInv, NEW c \in Clerk, NEW next \in Form, Commits(c, next), Keeps(c, next),
           Tables', AdminRemains', Standing(next)', next.fresh => Fresh(next)'
    PROVE  AccountsInv'
<1>1. form'[c] = next
    BY DEF Commits
<1>2. \A d \in Clerk \ {c} :
        /\ form'[d] \in Form /\ form'[d].op = form[d].op
        /\ form'[d].op = "idle" \/ ~form'[d].fresh
        /\ form[d].op \in {"register_user", "login"} => form'[d].person = form[d].person
        /\ form[d].op = "person" => form'[d].self = form[d].self
        /\ form[d].op = "role" => form'[d].by = form[d].by /\ form'[d].user = form[d].user
                                    /\ form'[d].role = form[d].role
  <2>1. TAKE d \in Clerk \ {c}
  <2>2. CASE form[d] = Blank
      BY <2>2 DEF Commits, Blank, Form
  <2>3. CASE form[d] # Blank
    <3>1. form[d] \in Form /\ form'[d] = [form[d] EXCEPT !.fresh = FALSE]
        BY <2>3 DEF AccountsInv, AccountTypes, Commits
    <3> QED
        BY <3>1, <2>3, Overtaken
  <2> QED
      BY <2>2, <2>3
<1>3. form[c].fresh \in BOOLEAN
    BY FreshIsBoolean DEF AccountsInv, AccountTypes
<1>4. AccountTypes'
  <2>1. form' \in [Clerk -> Form]
      BY <1>1, <1>2 DEF Commits
  <2>2. overtaken' \in BOOLEAN /\ died' \in BOOLEAN
      BY <1>3 DEF AccountsInv, AccountTypes, Commits
  <2> QED
      BY <2>1, <2>2 DEF AccountTypes, Keeps
<1>5. \A d \in Clerk : Sound(d)'
  <2>1. TAKE d \in Clerk
  <2>2. CASE d = c
      BY <1>1, <2>2 DEF Sound
  <2>3. CASE d # c
    <3>1. Standing(form[d])
        BY DEF AccountsInv, Sound
    <3>2. Standing(form[d])'
        BY <2>3, <3>1, <1>2 DEF Standing, Keeps
    <3>3. form'[d].fresh => Fresh(form[d])'
        BY <2>3, <1>2 DEF Fresh
    <3> QED
        BY <3>2, <3>3 DEF Sound
  <2> QED
      BY <2>2, <2>3
<1>6. RegisteredHasLogin'
  <2> SUFFICES ASSUME ~overtaken', ~died', NEW p \in DOMAIN people', people'[p].how = "register"
               PROVE  \/ Logins(p)' # {}
                      \/ \E d \in Clerk : form'[d].op = "register_user" /\ form'[d].person = p
      BY DEF RegisteredHasLogin
  <2>1. CASE next.op = "register_user" /\ next.person = p
      BY <2>1, <1>1
  <2>2. CASE p \in DOMAIN people /\ people[p].how = "register"
    <3>1. \/ Logins(p) # {}
          \/ \E d \in Clerk : form[d].op = "register_user" /\ form[d].person = p
        BY <2>2, <1>3 DEF AccountsInv, RegisteredHasLogin, Commits, AccountTypes
    <3>2. CASE Logins(p) # {}
        BY <3>2 DEF Logins, Keeps
    <3>3. CASE form[c].op = "register_user" /\ form[c].person = p
        BY <3>3 DEF Logins, Keeps
    <3>4. ASSUME NEW d \in Clerk \ {c}, form[d].op = "register_user", form[d].person = p
          PROVE  form'[d].op = "register_user" /\ form'[d].person = p
        BY <3>4, <1>2
    <3> QED
        BY <3>1, <3>2, <3>3, <3>4
  <2> QED
      BY <2>1, <2>2 DEF Keeps
<1> QED
    BY <1>4, <1>5, <1>6 DEF AccountsInv

----------------------------------------------------------------------------
(* The steps.                                                              *)

LEMMA AccountsInitHolds == AccountsInit => AccountsInv
<1> SUFFICES ASSUME AccountsInit PROVE AccountsInv
    OBVIOUS
<1>1. PICK name \in Username : users = <<NewUser(name, "admin", NoPerson)>>
    BY DEF AccountsInit
<1>2. users \in Seq(UserRow) /\ DOMAIN users = {1} /\ users[1].role = "admin" /\ users[1].person = 0
    BY <1>1 DEF NewUser, UserRow, Roles, NoPerson
<1>3. people \in Seq(PersonRow) /\ DOMAIN people = {} /\ Len(people) = 0
    BY DEF AccountsInit
<1>4. AccountTypes
    BY <1>2, <1>3 DEF AccountsInit, AccountTypes, Form
<1>5. Tables
    BY <1>2, <1>3 DEF Tables, UsersFit
<1>6. \A c \in Clerk : Sound(c)
    BY DEF AccountsInit, Sound, Standing, Fresh, Blank
<1>7. AdminRemains /\ RegisteredHasLogin
    BY <1>2, <1>3 DEF AdminRemains, RegisteredHasLogin, Admins
<1> QED
    BY <1>4, <1>5, <1>6, <1>7 DEF AccountsInv

LEMMA LookHolds ==
    ASSUME AccountsInv, NEW c \in Clerk, Look(c)
    PROVE  AccountsInv'
<1> USE DEF Form
<1>1. ASSUME NEW name \in Username, NEW id \in EmployeeId \cup {NoId}, RegisterLook(c, name, id)
      PROVE  AccountsInv'
  <2> DEFINE q == [op |-> "register", fresh |-> TRUE, name |-> name, id |-> id]
  <2>1. q \in Form /\ q # Blank
      BY DEF Registers, Blank
  <2>2. Standing(q) /\ Fresh(q)
      BY <1>1 DEF Standing, Fresh, RegisterLook
  <2> QED
      BY <1>1, <2>1, <2>2, TakesStep DEF RegisterLook
<1>2. ASSUME NEW id \in EmployeeId \cup {NoId}, NEW self \in DOMAIN people \cup {NoPerson},
             PersonLook(c, id, self)
      PROVE  AccountsInv'
  <2> DEFINE q == [op |-> "person", fresh |-> TRUE, id |-> id, self |-> self]
  <2>1. q \in Form /\ q # Blank
      BY DEF PersonForms, Blank, AccountsInv, AccountTypes, NoPerson
  <2>2. Standing(q) /\ Fresh(q)
      BY DEF Standing, Fresh
  <2> QED
      BY <1>2, <2>1, <2>2, TakesStep DEF PersonLook
<1>3. ASSUME NEW p \in DOMAIN people, NEW name \in Username, LoginLook(c, p, name)
      PROVE  AccountsInv'
  <2> DEFINE q == [op |-> "login", fresh |-> TRUE, person |-> p, name |-> name, login |-> Logins(p)]
  <2>1. q \in Form /\ q # Blank
      BY DEF LoginForms, Blank, AccountsInv, AccountTypes, Logins
  <2>2. Standing(q) /\ Fresh(q)
      BY DEF Standing, Fresh
  <2> QED
      BY <1>3, <2>1, <2>2, TakesStep DEF LoginLook
<1>4. ASSUME NEW name \in Username, NEW role \in Roles, UserLook(c, name, role)
      PROVE  AccountsInv'
  <2> DEFINE q == [op |-> "user", fresh |-> TRUE, name |-> name, role |-> role]
  <2>1. q \in Form /\ q # Blank
      BY DEF StaffForms, Blank
  <2>2. Standing(q) /\ Fresh(q)
      BY DEF Standing, Fresh
  <2> QED
      BY <1>4, <2>1, <2>2, TakesStep DEF UserLook
<1>5. ASSUME NEW by \in Admins(users) \cup {Platform}, NEW u \in DOMAIN users, NEW role \in Roles,
             RoleLook(c, by, u, role)
      PROVE  AccountsInv'
  <2> DEFINE q == [op |-> "role", fresh |-> TRUE, by |-> by, user |-> u, role |-> role]
  <2>1. q \in Form /\ q # Blank
      BY DEF RoleForms, Blank, AccountsInv, AccountTypes, Admins, Platform
  <2>2. Standing(q) /\ Fresh(q)
      BY <1>5 DEF Standing, Fresh, RoleLook, MaySetRole
  <2> QED
      BY <1>5, <2>1, <2>2, TakesStep DEF RoleLook
<1> QED
    BY <1>1, <1>2, <1>3, <1>4, <1>5 DEF Look

LEMMA FormOf ==
    ASSUME NEW q \in Form
    PROVE  /\ q.op = "register" => q \in Registers
           /\ q.op = "register_user" => q \in UserForms
           /\ q.op = "person" => q \in PersonForms
           /\ q.op = "user" => q \in StaffForms
           /\ q.op = "role" => q \in RoleForms
           /\ q.op = "login" => q \in LoginForms
<1> QED
    BY DEF Form, Blank, Registers, UserForms, PersonForms, StaffForms, RoleForms, LoginForms

\* A commit of users, or the refusal by the constraint.
LEMMA UsersStep ==
    ASSUME AccountsInv, NEW c \in Clerk, NEW rows \in Seq(UserRow), SavesUsers(c, rows), byPlatform' \in BOOLEAN,
           form[c].fresh /\ form[c].op = "register_user" => UsersFit(rows),
           DOMAIN users \subseteq DOMAIN rows,
           \A u \in DOMAIN users : rows[u].person = users[u].person,
           \A u \in DOMAIN rows : rows[u].person <= Len(people),
           form[c].op = "register_user" => \E u \in DOMAIN rows : rows[u].person = form[c].person,
           UsersFit(rows) => AdminRemains'
    PROVE  AccountsInv'
<1>1. CASE UsersFit(rows)
  <2>1. users' = rows /\ Commits(c, Blank) /\ people' = people
      BY <1>1 DEF SavesUsers
  <2>2. Keeps(c, Blank)
      BY <2>1 DEF Keeps, AccountsInv, AccountTypes
  <2>3. Tables'
      BY <2>1, <1>1 DEF Tables, UsersFit
  <2>4. Blank \in Form /\ Standing(Blank)' /\ Fresh(Blank)'
      BY DEF Form, Blank, Standing, Fresh
  <2> QED
      BY <1>1, <2>1, <2>2, <2>3, <2>4, CommitStep
<1>2. CASE ~UsersFit(rows)
    BY <1>2, RefusedStep DEF SavesUsers
<1> QED
    BY <1>1, <1>2

\* A new login: nobody loses a role by it.
LEMMA AddUser ==
    ASSUME AccountsInv, NEW c \in Clerk, NEW row \in UserRow,
           SavesUsers(c, Append(users, row)), UNCHANGED byPlatform,
           row.person <= Len(people),
           form[c].op = "register_user" => row.person = form[c].person,
           form[c].fresh /\ form[c].op = "register_user" => UsersFit(Append(users, row))
    PROVE  AccountsInv'
<1> DEFINE rows == Append(users, row)
<1>1. users \in Seq(UserRow)
    BY DEF AccountsInv, AccountTypes
<1>2. /\ rows \in Seq(UserRow) /\ DOMAIN rows = DOMAIN users \cup {Len(users) + 1}
      /\ \A i \in DOMAIN users : i # Len(users) + 1 /\ rows[i] = users[i]
      /\ rows[Len(users) + 1] = row
    BY <1>1, Appended
<1>3. UsersFit(rows) => AdminRemains'
  <2>1. UsersFit(rows) => users' = rows /\ (~overtaken' => ~overtaken) /\ byPlatform' = byPlatform
      BY FreshIsBoolean DEF SavesUsers, Commits, AccountsInv, AccountTypes
  <2>2. Admins(users) \subseteq Admins(rows)
      BY <1>2 DEF Admins
  <2> QED
      BY <2>1, <2>2 DEF AdminRemains, AccountsInv, Admins
<1>4. \A u \in DOMAIN rows : rows[u].person <= Len(people)
    BY <1>2 DEF AccountsInv, Tables
<1>5. form[c].op = "register_user" => \E u \in DOMAIN rows : rows[u].person = form[c].person
    BY <1>2
<1>6. \A u \in DOMAIN users : rows[u].person = users[u].person
    BY <1>2
<1>7. DOMAIN users \subseteq DOMAIN rows /\ byPlatform' \in BOOLEAN
    BY <1>2 DEF AccountsInv, AccountTypes
<1> HIDE DEF rows
<1>8. SavesUsers(c, rows) /\ (form[c].fresh /\ form[c].op = "register_user" => UsersFit(rows))
    BY DEF rows
<1> QED
    BY <1>2, <1>3, <1>4, <1>5, <1>6, <1>7, <1>8, UsersStep

LEMMA RegisterUserHolds ==
    ASSUME AccountsInv, NEW c \in Clerk, RegisterUser(c)
    PROVE  AccountsInv'
<1> DEFINE row == NewUser(form[c].name, "employee", form[c].person)
<1>1. form[c] \in UserForms /\ form[c].op = "register_user"
    BY FormOf DEF RegisterUser, AccountsInv, AccountTypes
<1>2. row \in UserRow /\ row.person = form[c].person /\ row.name = form[c].name
    BY <1>1 DEF UserForms, UserRow, NewUser, Roles
<1>3. row.person <= Len(people)
    BY <1>1, <1>2 DEF AccountsInv, Sound, Standing, AccountTypes
<1>4. form[c].fresh => UsersFit(Append(users, row))
  <2> SUFFICES ASSUME form[c].fresh PROVE UsersFit(Append(users, row))
      OBVIOUS
  <2>1. \A u \in DOMAIN users : users[u].name # row.name /\ users[u].person # row.person
    <3>1. ~NameTaken(form[c].name, 0) /\ Logins(form[c].person) = {}
        BY <1>1 DEF AccountsInv, Sound, Fresh
    <3>2. \A u \in DOMAIN users : u \in DOMAIN users \ {0}
        BY DEF AccountsInv, AccountTypes
    <3>3. \A u \in DOMAIN users : users[u].name # form[c].name
        BY <3>1, <3>2 DEF NameTaken
    <3>4. \A u \in DOMAIN users : users[u].person # form[c].person
        BY <3>1 DEF Logins
    <3> HIDE DEF row
    <3> QED
        BY <3>3, <3>4, <1>2
  <2>2. users \in Seq(UserRow) /\ UsersFit(users)
      BY DEF AccountsInv, AccountTypes, Tables
  <2>3. /\ DOMAIN Append(users, row) = DOMAIN users \cup {Len(users) + 1}
        /\ \A i \in DOMAIN users : Append(users, row)[i] = users[i]
        /\ Append(users, row)[Len(users) + 1] = row
      BY <1>2, <2>2, Appended
  <2> HIDE DEF row
  <2> QED
      BY <2>1, <2>2, <2>3 DEF UsersFit
<1> HIDE DEF row
<1>5. SavesUsers(c, Append(users, row)) /\ UNCHANGED byPlatform
    BY DEF RegisterUser, row
<1> QED
    BY <1>1, <1>2, <1>3, <1>4, <1>5, AddUser

LEMMA UserCommitHolds ==
    ASSUME AccountsInv, NEW c \in Clerk, UserCommit(c)
    PROVE  AccountsInv'
<1> DEFINE row == NewUser(form[c].name, form[c].role, NoPerson)
<1>1. form[c] \in StaffForms /\ form[c].op = "user"
    BY FormOf DEF UserCommit, AccountsInv, AccountTypes
<1>2. row \in UserRow /\ row.person = 0
    BY <1>1 DEF StaffForms, UserRow, NewUser, NoPerson
<1>3. row.person <= Len(people)
    BY <1>2 DEF AccountsInv, AccountTypes
<1> HIDE DEF row
<1>4. SavesUsers(c, Append(users, row)) /\ UNCHANGED byPlatform
    BY DEF UserCommit, row
<1> QED
    BY <1>1, <1>2, <1>3, <1>4, AddUser

LEMMA RoleCommitHolds ==
    ASSUME AccountsInv, NEW c \in Clerk, RoleCommit(c)
    PROVE  AccountsInv'
<1> DEFINE u == form[c].user
           rows == [users EXCEPT ![u].role = form[c].role]
<1>1. form[c] \in RoleForms /\ form[c].op = "role"
    BY FormOf DEF RoleCommit, AccountsInv, AccountTypes
<1>2. users \in Seq(UserRow) /\ u \in Nat /\ form[c].role \in Roles /\ form[c].by \in Nat
      /\ form[c].fresh \in BOOLEAN
    BY <1>1 DEF AccountsInv, AccountTypes, RoleForms
<1>3. \A v \in DOMAIN users :
        /\ rows[v] \in UserRow /\ rows[v].person = users[v].person
        /\ rows[v].role = IF v = u THEN form[c].role ELSE users[v].role
  <2>1. TAKE v \in DOMAIN users
  <2>2. users[v] \in UserRow /\ rows[v] = IF v = u THEN [users[v] EXCEPT !.role = form[c].role] ELSE users[v]
      BY <1>2
  <2> HIDE DEF rows
  <2> QED
      BY <2>2, <1>2 DEF UserRow
<1>4. rows \in Seq(UserRow) /\ DOMAIN rows = DOMAIN users
  <2>1. rows = [v \in DOMAIN users |-> rows[v]]
      BY <1>2
  <2> HIDE DEF rows
  <2> QED
      BY <2>1, <1>2, <1>3, SameLength
<1> HIDE DEF rows
<1>5. UsersFit(rows) => AdminRemains'
  <2> SUFFICES ASSUME UsersFit(rows), ~overtaken', ~byPlatform' PROVE Admins(users') # {}
      BY DEF AdminRemains
  <2>1. users' = rows /\ ~overtaken /\ form[c].fresh /\ ~byPlatform /\ form[c].by # Platform
      BY <1>2 DEF RoleCommit, SavesUsers, Commits, AccountsInv, AccountTypes, rows
  <2>2. form[c].by \in Admins(users) /\ (form[c].by # u \/ form[c].role = "admin")
      BY <2>1, <1>1 DEF AccountsInv, Sound, Standing, Fresh
  <2>3. form[c].by \in DOMAIN users /\ users[form[c].by].role = "admin"
      BY <2>2 DEF Admins
  <2>4. form[c].by \in DOMAIN rows /\ rows[form[c].by].role = "admin"
      BY <2>2, <2>3, <1>3, <1>4
  <2> QED
      BY <2>1, <2>4 DEF Admins
<1>6. \A v \in DOMAIN rows : rows[v].person <= Len(people)
    BY <1>3, <1>4 DEF AccountsInv, Tables
<1>7. SavesUsers(c, rows)
    BY DEF RoleCommit, rows
<1>8. byPlatform' \in BOOLEAN
    BY DEF RoleCommit
<1> QED
    BY <1>1, <1>3, <1>4, <1>5, <1>6, <1>7, <1>8, UsersStep

LEMMA LoginCommitHolds ==
    ASSUME AccountsInv, NEW c \in Clerk, LoginCommit(c)
    PROVE  AccountsInv'
<1>1. form[c] \in LoginForms /\ form[c].op = "login"
    BY FormOf DEF LoginCommit, AccountsInv, AccountTypes
<1>2. users \in Seq(UserRow) /\ form[c].name \in Username /\ form[c].person \in Nat
    BY <1>1 DEF AccountsInv, AccountTypes, LoginForms
<1>3. CASE form[c].login = {}
  <2> DEFINE row == NewUser(form[c].name, "employee", form[c].person)
  <2>1. row \in UserRow /\ row.person = form[c].person
      BY <1>2 DEF UserRow, NewUser, Roles
  <2>2. row.person <= Len(people)
      BY <1>1, <2>1 DEF AccountsInv, Sound, Standing, AccountTypes
  <2> HIDE DEF row
  <2>3. SavesUsers(c, Append(users, row)) /\ UNCHANGED byPlatform
      BY <1>3 DEF LoginCommit, row
  <2> QED
      BY <1>1, <2>1, <2>2, <2>3, AddUser
<1>4. CASE form[c].login # {}
  <2> DEFINE rows == [u \in DOMAIN users |->
                        IF u \in form[c].login THEN [users[u] EXCEPT !.name = form[c].name]
                        ELSE users[u]]
  <2>1. \A v \in DOMAIN users :
          rows[v] \in UserRow /\ rows[v].person = users[v].person /\ rows[v].role = users[v].role
    <3>1. TAKE v \in DOMAIN users
    <3>2. users[v] \in UserRow
          /\ rows[v] = IF v \in form[c].login THEN [users[v] EXCEPT !.name = form[c].name] ELSE users[v]
        BY <1>2
    <3> HIDE DEF rows
    <3> QED
        BY <3>2, <1>2 DEF UserRow
  <2>2. rows \in Seq(UserRow) /\ DOMAIN rows = DOMAIN users
    <3>1. rows = [v \in DOMAIN users |-> rows[v]]
        OBVIOUS
    <3> HIDE DEF rows
    <3> QED
        BY <3>1, <1>2, <2>1, SameLength
  <2> HIDE DEF rows
  <2>3. SavesUsers(c, rows) /\ UNCHANGED byPlatform
      BY <1>4 DEF LoginCommit, rows
  <2>4. UsersFit(rows) => AdminRemains'
    <3>1. UsersFit(rows) => users' = rows /\ (~overtaken' => ~overtaken) /\ byPlatform' = byPlatform
        BY <2>3, FreshIsBoolean DEF SavesUsers, Commits, AccountsInv, AccountTypes
    <3>2. Admins(users) \subseteq Admins(rows)
        BY <2>1, <2>2 DEF Admins
    <3> QED
        BY <3>1, <3>2 DEF AdminRemains, AccountsInv, Admins
  <2>5. \A v \in DOMAIN rows : rows[v].person <= Len(people)
      BY <2>1, <2>2 DEF AccountsInv, Tables
  <2>6. byPlatform' \in BOOLEAN
      BY <2>3 DEF AccountsInv, AccountTypes
  <2> QED
      BY <1>1, <2>1, <2>2, <2>3, <2>4, <2>5, <2>6, UsersStep
<1> QED
    BY <1>3, <1>4

\* A commit of people, or the refusal by the constraint.
LEMMA PeopleStep ==
    ASSUME AccountsInv, NEW c \in Clerk, NEW rows \in Seq(PersonRow), NEW next \in Form,
           SavesPeople(c, rows, next),
           form[c].op # "register_user", Len(people) <= Len(rows),
           \A p \in DOMAIN rows :
             rows[p].how = "register" =>
               \/ p \in DOMAIN people /\ people[p].how = "register"
               \/ next.op = "register_user" /\ next.person = p,
           PeopleFit(rows) => Standing(next)' /\ (next.fresh => Fresh(next)')
    PROVE  AccountsInv'
<1>1. CASE PeopleFit(rows)
  <2>1. people' = rows /\ Commits(c, next) /\ UNCHANGED <<users, byPlatform>>
      BY <1>1 DEF SavesPeople
  <2>2. /\ people \in Seq(PersonRow) /\ users \in Seq(UserRow)
        /\ DOMAIN people \subseteq DOMAIN people' /\ Len(people) <= Len(people')
      BY <2>1 DEF AccountsInv, AccountTypes
  <2>3. Keeps(c, next)
      BY <2>1, <2>2 DEF Keeps, AccountsInv, AccountTypes
  <2>4. Tables'
    <3>1. \A u \in DOMAIN users : users[u] \in UserRow
        BY <2>2
    <3>2. \A u \in DOMAIN users : users[u].person <= Len(people')
        BY <3>1, <2>1, <2>2 DEF AccountsInv, Tables, UserRow
    <3> QED
        BY <2>1, <3>2 DEF Tables, AccountsInv, UsersFit
  <2>5. AdminRemains'
      BY <2>1, FreshIsBoolean DEF AdminRemains, Admins, AccountsInv, AccountTypes, Commits
  <2> QED
      BY <1>1, <2>1, <2>3, <2>4, <2>5, CommitStep
<1>2. CASE ~PeopleFit(rows)
    BY <1>2, RefusedStep DEF SavesPeople
<1> QED
    BY <1>1, <1>2

LEMMA RegisterPersonHolds ==
    ASSUME AccountsInv, NEW c \in Clerk, RegisterPerson(c)
    PROVE  AccountsInv'
<1>1. form[c] \in Registers /\ form[c].op = "register"
    BY FormOf DEF RegisterPerson, AccountsInv, AccountTypes
<1>2. people \in Seq(PersonRow) /\ form[c].name \in Username /\ form[c].id \in EmployeeId \cup {NoId}
      /\ form[c].fresh \in BOOLEAN
    BY <1>1 DEF AccountsInv, AccountTypes, Registers
<1>3. CASE IdTaken(form[c].id, 0)
    BY <1>1, <1>3, RefusedStep DEF RegisterPerson
<1>4. CASE ~IdTaken(form[c].id, 0)
  <2> DEFINE row == NewPerson(form[c].id, "register")
             goes == [op |-> "register_user", fresh |-> form[c].fresh,
                      name |-> form[c].name, person |-> Len(people) + 1]
             rows == Append(people, row)
  <2>1. row \in PersonRow
      BY <1>2 DEF PersonRow, NewPerson
  <2>0. goes \in Form
      BY <1>2 DEF Form, UserForms
  <2>9. PICK next \in Form : next = goes
      BY <2>0
  <2>2. next.op = "register_user" /\ next.person = Len(people) + 1
        /\ next.fresh = form[c].fresh /\ next.name = form[c].name
      BY <2>9
  <2> HIDE DEF row, goes
  <2>3. /\ rows \in Seq(PersonRow) /\ DOMAIN rows = DOMAIN people \cup {Len(people) + 1}
        /\ Len(rows) = Len(people) + 1
        /\ \A p \in DOMAIN people : rows[p] = people[p]
      BY <1>2, <2>1, Appended
  <2> HIDE DEF rows
  <2>4. SavesPeople(c, rows, next)
      BY <1>4, <2>9 DEF RegisterPerson, rows, row, goes
  <2>5. ASSUME PeopleFit(rows) PROVE Standing(next)' /\ (next.fresh => Fresh(next)')
    <3>1. people' = rows /\ users' = users
        BY <2>4, <2>5 DEF SavesPeople
    <3>2. Standing(next)'
        BY <2>2, <2>3, <3>1 DEF Standing
    <3>3. ASSUME next.fresh PROVE Fresh(next)'
      <4>1. ~NameTaken(next.name, 0)
          BY <1>1, <2>2, <3>3 DEF AccountsInv, Sound, Fresh
      <4>2. \A u \in DOMAIN users : users[u].person # Len(people) + 1
        <5>1. \A u \in DOMAIN users : users[u] \in UserRow /\ users[u].person <= Len(people)
            BY DEF AccountsInv, AccountTypes, Tables
        <5> QED
            BY <5>1, <1>2 DEF UserRow
      <4>3. Logins(next.person) = {}
          BY <4>2, <2>2 DEF Logins
      <4> QED
          BY <4>1, <4>3, <3>1, <2>2 DEF Fresh, NameTaken, Logins
    <3> QED
        BY <3>2, <3>3
  <2>6. \A p \in DOMAIN rows :
          rows[p].how = "register" =>
            \/ p \in DOMAIN people /\ people[p].how = "register"
            \/ next.op = "register_user" /\ next.person = p
      BY <2>2, <2>3
  <2>7. Len(people) <= Len(rows)
      BY <1>2, <2>3
  <2> QED
      BY <1>1, <2>2, <2>3, <2>4, <2>5, <2>6, <2>7, PeopleStep
<1> QED
    BY <1>3, <1>4

LEMMA PersonCommitHolds ==
    ASSUME AccountsInv, NEW c \in Clerk, PersonCommit(c)
    PROVE  AccountsInv'
<1>1. form[c] \in PersonForms /\ form[c].op = "person"
    BY FormOf DEF PersonCommit, AccountsInv, AccountTypes
<1>2. people \in Seq(PersonRow) /\ form[c].id \in EmployeeId \cup {NoId}
    BY <1>1 DEF AccountsInv, AccountTypes, PersonForms
<1>3. Blank \in Form /\ Standing(Blank)' /\ Fresh(Blank)'
    BY DEF Form, Blank, Standing, Fresh
<1>4. CASE form[c].self = NoPerson
  <2> DEFINE row == NewPerson(form[c].id, "staff")
             rows == Append(people, row)
  <2>1. row \in PersonRow /\ row.how = "staff"
      BY <1>2 DEF PersonRow, NewPerson
  <2> HIDE DEF row
  <2>2. /\ rows \in Seq(PersonRow) /\ DOMAIN rows = DOMAIN people \cup {Len(people) + 1}
        /\ Len(rows) = Len(people) + 1 /\ rows[Len(people) + 1] = row
        /\ \A p \in DOMAIN people : rows[p] = people[p]
      BY <1>2, <2>1, Appended
  <2> HIDE DEF rows
  <2>3. SavesPeople(c, rows, Blank)
      BY <1>4 DEF PersonCommit, rows, row
  <2>4. Len(people) <= Len(rows)
      BY <1>2, <2>2
  <2> QED
      BY <1>1, <1>3, <2>1, <2>2, <2>3, <2>4, PeopleStep
<1>5. CASE form[c].self # NoPerson
  <2> DEFINE s == form[c].self
             rows == [people EXCEPT ![s].id = form[c].id]
  <2>1. \A p \in DOMAIN people : rows[p] \in PersonRow /\ rows[p].how = people[p].how
    <3>1. TAKE p \in DOMAIN people
    <3>2. people[p] \in PersonRow
          /\ rows[p] = IF p = s THEN [people[p] EXCEPT !.id = form[c].id] ELSE people[p]
        BY <1>2
    <3> HIDE DEF rows
    <3> QED
        BY <3>2, <1>2 DEF PersonRow
  <2>2. rows \in Seq(PersonRow) /\ DOMAIN rows = DOMAIN people /\ Len(rows) = Len(people)
    <3>1. rows = [p \in DOMAIN people |-> rows[p]]
        BY <1>2
    <3> HIDE DEF rows
    <3> QED
        BY <3>1, <1>2, <2>1, SameLength
  <2> HIDE DEF rows
  <2>3. SavesPeople(c, rows, Blank)
      BY <1>5 DEF PersonCommit, rows
  <2>4. Len(people) <= Len(rows)
      BY <1>2, <2>2
  <2> QED
      BY <1>1, <1>3, <2>1, <2>2, <2>3, <2>4, PeopleStep
<1> QED
    BY <1>4, <1>5

LEMMA DiesHolds ==
    ASSUME AccountsInv, Dies
    PROVE  AccountsInv'
<1>1. AccountTypes'
    BY DEF AccountsInv, AccountTypes, Dies, Form
<1>2. Tables' /\ AdminRemains' /\ RegisteredHasLogin'
    BY DEF AccountsInv, Tables, UsersFit, AdminRemains, Admins, RegisteredHasLogin, Dies
<1>3. \A c \in Clerk : Sound(c)'
    BY DEF Dies, Sound, Standing, Fresh, Blank
<1> QED
    BY <1>1, <1>2, <1>3 DEF AccountsInv

LEMMA AccountsStepHolds == AccountsInv /\ [AccountsNext]_accounts => AccountsInv'
<1> SUFFICES ASSUME AccountsInv, [AccountsNext]_accounts PROVE AccountsInv'
    OBVIOUS
<1>1. CASE Dies
    BY <1>1, DiesHolds
<1>2. ASSUME NEW c \in Clerk,
             \/ Look(c) \/ RegisterPerson(c) \/ RegisterUser(c) \/ PersonCommit(c)
             \/ UserCommit(c) \/ RoleCommit(c) \/ LoginCommit(c)
      PROVE  AccountsInv'
    BY <1>2, LookHolds, RegisterPersonHolds, RegisterUserHolds, PersonCommitHolds,
       UserCommitHolds, RoleCommitHolds, LoginCommitHolds
<1>3. CASE UNCHANGED accounts
  <2> USE <1>3 DEF accounts
  <2>1. AccountTypes' /\ Tables'
      BY DEF AccountsInv, AccountTypes, Tables, UsersFit
  <2>2. \A c \in Clerk : Sound(c)'
      BY DEF AccountsInv, Sound, Standing, Fresh, NameTaken, Logins, Admins
  <2>3. AdminRemains' /\ RegisteredHasLogin'
      BY DEF AccountsInv, AdminRemains, Admins, RegisteredHasLogin, Logins
  <2> QED
      BY <2>1, <2>2, <2>3 DEF AccountsInv
<1> QED
    BY <1>1, <1>2, <1>3 DEF AccountsNext

\* An organization keeps an administrator through every order of requests,
\* unless one decided by reads that another had overtaken, or the platform's
\* administrator changed a role (users.py:87).
THEOREM AdminRemainsCorrect == AccountsSpec => []AdminRemains
<1>1. AccountsInv => AdminRemains
    BY DEF AccountsInv
<1> QED
    BY <1>1, AccountsInitHolds, AccountsStepHolds, PTL DEF AccountsSpec

\* A registration whose person was committed ends with a login, unless a
\* request was overtaken or the process died (auth.py:209-222).
THEOREM RegisteredHasLoginCorrect == AccountsSpec => []RegisteredHasLogin
<1>1. AccountsInv => RegisteredHasLogin
    BY DEF AccountsInv
<1> QED
    BY <1>1, AccountsInitHolds, AccountsStepHolds, PTL DEF AccountsSpec

----------------------------------------------------------------------------
(* The rate limiter.                                                       *)

Admissions == DOMAIN admitted

InCall == [at : {"in"}, now : Nat, stale : BOOLEAN]
StoreCall == [at : {"store"}, now : Nat, stale : BOOLEAN, recent : SUBSET Nat]

LimiterTypes ==
    /\ clock \in Nat /\ overlapped \in BOOLEAN
    /\ admitted \in Seq(Nat)
    /\ hits \subseteq Admissions
    /\ call \in [Caller -> {NoCall} \cup InCall \cup StoreCall]
    /\ \A c \in Caller : call[c].at = "store" => call[c].recent \subseteq Admissions

\* No stamp is ahead of the clock, and stamps were let through in their order.
Punctual ==
    /\ \A i \in Admissions : admitted[i] <= clock
    /\ \A c \in Caller : call[c] # NoCall => call[c].now <= clock
    /\ ~overlapped => \A i, j \in Admissions : i <= j => admitted[i] <= admitted[j]

\* The list holds every stamp that can still matter.
Complete ==
    ~overlapped =>
        \A i \in Admissions : (\A j \in Admissions : admitted[j] - admitted[i] < Window) => i \in hits

\* What a call nobody has overtaken has read
UpToNow ==
    \A c \in Caller : call[c] # NoCall /\ ~call[c].stale =>
        /\ \A i \in Admissions : admitted[i] <= call[c].now
        /\ call[c].at = "store" =>
             call[c].recent = Recent(call[c].now) /\ Cardinality(call[c].recent) < MaxHits

LimiterInv == LimiterTypes /\ Punctual /\ Complete /\ UpToNow /\ WindowBound

LEMMA LimiterInitHolds == LimiterInit => LimiterInv
<1> SUFFICES ASSUME LimiterInit PROVE LimiterInv
    OBVIOUS
<1>1. admitted = <<>> /\ Admissions = {}
    BY DEF LimiterInit, Admissions
<1>2. LimiterTypes
  <2>1. call = [c \in Caller |-> NoCall] /\ \A c \in Caller : call[c].at # "store"
      BY DEF LimiterInit, NoCall
  <2>2. call \in [Caller -> {NoCall} \cup InCall \cup StoreCall]
      BY <2>1
  <2>3. clock = 0 /\ hits = {} /\ overlapped \in BOOLEAN
      BY DEF LimiterInit
  <2> QED
      BY <1>1, <2>1, <2>2, <2>3 DEF LimiterTypes
<1>3. Punctual /\ Complete /\ UpToNow
    BY <1>1 DEF LimiterInit, Punctual, Complete, UpToNow, NoCall
<1>4. WindowBound
    BY <1>1 DEF WindowBound, Admissions
<1> QED
    BY <1>2, <1>3, <1>4 DEF LimiterInv

\* A call that is let through and that nobody has overtaken
LEMMA StoreKeepsWindow ==
    ASSUME LimiterInv, NEW c \in Caller, CallStores(c), ~overlapped, ~call[c].stale
    PROVE  /\ \A i, j \in Admissions' : i <= j => admitted'[i] <= admitted'[j]
           /\ Complete' /\ WindowBound'
<1> DEFINE now == call[c].now
           recent == call[c].recent
           new == Len(admitted) + 1
<1> USE LimiterAssumption
<1>1. /\ now \in Nat /\ call[c] # NoCall /\ recent \subseteq Admissions
      /\ \A i \in Admissions : admitted[i] <= now
      /\ recent = Recent(now) /\ Cardinality(recent) < MaxHits
    BY DEF CallStores, LimiterInv, LimiterTypes, UpToNow, NoCall, InCall, StoreCall
<1>2. hits' = recent \cup {new} /\ admitted' = Append(admitted, now)
    BY DEF CallStores
<1> HIDE DEF now, recent
<1>3. admitted \in Seq(Nat)
    BY DEF LimiterInv, LimiterTypes
<1>4. /\ Admissions' = Admissions \cup {new} /\ new \in Nat /\ new \notin Admissions
      /\ \A i \in Admissions : admitted'[i] = admitted[i] /\ admitted[i] \in Nat /\ i \in Nat /\ i < new
      /\ admitted'[new] = now
    BY <1>1, <1>2, <1>3 DEF Admissions
<1> HIDE DEF new
<1>5. \A i, j \in Admissions' : i <= j => admitted'[i] <= admitted'[j]
  <2>1. \A i, j \in Admissions : i <= j => admitted[i] <= admitted[j]
      BY DEF LimiterInv, Punctual
  <2> QED
      BY <1>1, <1>4, <2>1
\* What the list has of the window that ends now, it has all of.
<1>6. ASSUME NEW i \in Admissions, now - admitted[i] < Window
      PROVE  i \in recent
  <2>1. \A j \in Admissions : admitted[j] - admitted[i] < Window
      BY <1>1, <1>4, <1>6
  <2>2. i \in hits
      BY <2>1 DEF LimiterInv, Complete
  <2> QED
      BY <1>1, <1>6, <2>2 DEF Recent
<1>7. Complete'
  <2> SUFFICES ASSUME NEW i \in Admissions', \A j \in Admissions' : admitted'[j] - admitted'[i] < Window
               PROVE  i \in hits'
      BY DEF Complete
  <2>1. CASE i = new
      BY <2>1, <1>2
  <2>2. CASE i # new
      BY <2>2, <1>2, <1>4, <1>6
  <2> QED
      BY <2>1, <2>2
<1>8. ASSUME NEW T, T \subseteq recent \cup {new}
      PROVE  Cardinality(T) <= MaxHits
  <2>1. IsFiniteSet(Admissions)
      BY <1>3, FS_Interval DEF Admissions
  <2>2. IsFiniteSet(recent) /\ Cardinality(recent) \in Nat
      BY <2>1, <1>1, FS_Subset, FS_CardinalityType
  <2>3. IsFiniteSet(recent \cup {new}) /\ Cardinality(recent \cup {new}) <= Cardinality(recent) + 1
      BY <2>2, FS_AddElement
  <2>4. /\ Cardinality(recent \cup {new}) \in Nat
        /\ Cardinality(T) \in Nat /\ Cardinality(T) <= Cardinality(recent \cup {new})
      BY <1>8, <2>3, FS_Subset, FS_CardinalityType
  <2> QED
      BY <1>1, <2>2, <2>3, <2>4 DEF LimiterAssumption
<1>9. WindowBound'
  <2> SUFFICES ASSUME NEW i \in Admissions' PROVE Cardinality(InWindow(admitted[i])') <= MaxHits
      BY DEF WindowBound, Admissions
  <2>1. CASE admitted'[i] = now
    <3>1. InWindow(admitted[i])' \subseteq recent \cup {new}
        BY <2>1, <1>1, <1>4, <1>6 DEF InWindow, Admissions, LimiterAssumption
    <3> QED
        BY <3>1, <1>8
  <2>2. CASE admitted'[i] # now
    <3>1. i \in Admissions /\ admitted'[i] = admitted[i] /\ admitted[i] < now
        BY <2>2, <1>1, <1>4
    <3>2. InWindow(admitted[i])' = InWindow(admitted[i])
        BY <3>1, <1>1, <1>4 DEF InWindow, Admissions
    <3> QED
        BY <3>1, <3>2 DEF LimiterInv, WindowBound, Admissions
  <2> QED
      BY <2>1, <2>2
<1> QED
    BY <1>5, <1>7, <1>9

LEMMA LimiterNextHolds == LimiterInv /\ [LimiterNext]_limiter => LimiterInv'
<1> SUFFICES ASSUME LimiterInv, [LimiterNext]_limiter PROVE LimiterInv'
    OBVIOUS
<1> USE LimiterAssumption DEF LimiterInv
<1>1. CASE UNCHANGED limiter \/ ClockTicks
  <2>1. UNCHANGED <<admitted, hits, call, overlapped>> /\ clock' \in Nat /\ clock <= clock'
      BY <1>1 DEF limiter, ClockTicks, LimiterTypes
  <2>2. LimiterTypes'
      BY <2>1 DEF LimiterTypes, Admissions
  <2>3. Punctual'
      BY <2>1 DEF LimiterTypes, Punctual, Admissions, InCall, StoreCall
  <2>4. Complete' /\ UpToNow' /\ WindowBound'
      BY <2>1 DEF Complete, UpToNow, WindowBound, InWindow, Recent, Admissions
  <2> QED
      BY <2>2, <2>3, <2>4
<1>2. ASSUME NEW c \in Caller, CallArrives(c) PROVE LimiterInv'
  <2> DEFINE new == [at |-> "in", now |-> clock, stale |-> FALSE]
  <2>1. call' = [call EXCEPT ![c] = new] /\ UNCHANGED <<clock, admitted, hits, overlapped>>
      BY <1>2 DEF CallArrives
  <2>2. new \in InCall /\ new.at = "in" /\ new.now = clock /\ new # NoCall
      BY DEF LimiterTypes, InCall, NoCall
  <2> HIDE DEF new
  <2>3. LimiterTypes'
      BY <2>1, <2>2 DEF LimiterTypes, Admissions
  <2>4. Punctual'
      BY <2>1, <2>2 DEF LimiterTypes, Punctual, Admissions
  <2>5. UpToNow'
      BY <2>1, <2>2 DEF LimiterTypes, UpToNow, Punctual, Admissions, Recent
  <2>6. Complete' /\ WindowBound'
      BY <2>1 DEF Complete, WindowBound, InWindow, Admissions
  <2> QED
      BY <2>3, <2>4, <2>5, <2>6
<1>3. ASSUME NEW c \in Caller, CallLooks(c) PROVE LimiterInv'
  <2> DEFINE recent == Recent(call[c].now)
             next == IF Cardinality(recent) >= MaxHits THEN NoCall
                     ELSE [at |-> "store", now |-> call[c].now, stale |-> call[c].stale,
                           recent |-> recent]
  <2>1. call' = [call EXCEPT ![c] = next] /\ UNCHANGED <<clock, admitted, hits, overlapped>>
      BY <1>3 DEF CallLooks
  <2>2. call[c] \in InCall /\ call[c] # NoCall
      BY <1>3 DEF CallLooks, LimiterTypes, NoCall, InCall, StoreCall
  <2>3. recent \subseteq Admissions /\ Admissions \subseteq Nat
      BY DEF Recent, LimiterTypes, Admissions
  <2>4. IsFiniteSet(recent) /\ Cardinality(recent) \in Nat
    <3>1. IsFiniteSet(Admissions)
        BY FS_Interval DEF Admissions, LimiterTypes
    <3> QED
        BY <2>3, <3>1, FS_Subset, FS_CardinalityType
  <2>5. \/ next = NoCall
        \/ /\ next \in StoreCall /\ next.now = call[c].now /\ next.stale = call[c].stale
           /\ next.recent = Recent(call[c].now) /\ Cardinality(next.recent) < MaxHits
           /\ next.recent \subseteq Admissions
    <3> HIDE DEF recent
    <3>1. CASE Cardinality(recent) >= MaxHits
        BY <3>1
    <3>2. CASE ~(Cardinality(recent) >= MaxHits)
      <4>1. recent \in SUBSET Nat /\ Cardinality(recent) < MaxHits
          BY <2>3, <2>4, <3>2 DEF LimiterAssumption
      <4> QED
          BY <2>2, <2>3, <3>2, <4>1 DEF InCall, StoreCall, recent
    <3> QED
        BY <3>1, <3>2
  <2> HIDE DEF next, recent
  <2>6. LimiterTypes'
      BY <2>1, <2>5 DEF LimiterTypes, Admissions, NoCall
  <2>7. Punctual'
      BY <2>1, <2>2, <2>5 DEF LimiterTypes, Punctual, Admissions
  <2>8. UpToNow'
      BY <2>1, <2>2, <2>5 DEF LimiterTypes, UpToNow, Admissions, Recent
  <2>9. Complete' /\ WindowBound'
      BY <2>1 DEF Complete, WindowBound, InWindow, Admissions
  <2> QED
      BY <2>6, <2>7, <2>8, <2>9
<1>4. ASSUME NEW c \in Caller, CallStores(c) PROVE LimiterInv'
  <2>1. call[c] \in StoreCall /\ call[c] # NoCall
      BY <1>4 DEF CallStores, LimiterTypes, NoCall, InCall, StoreCall
  <2>2. /\ Admissions' = Admissions \cup {Len(admitted) + 1}
        /\ admitted' = Append(admitted, call[c].now) /\ admitted' \in Seq(Nat)
        /\ \A i \in Admissions : admitted'[i] = admitted[i]
        /\ admitted'[Len(admitted) + 1] = call[c].now
        /\ clock' = clock
      BY <1>4, <2>1 DEF CallStores, LimiterTypes, Admissions, StoreCall
  <2>3. overlapped' \in BOOLEAN /\ (overlapped' <=> overlapped \/ call[c].stale)
      BY <1>4, <2>1 DEF CallStores, LimiterTypes, StoreCall
  <2>4. hits' \subseteq Admissions'
      BY <1>4, <2>2 DEF CallStores, LimiterTypes
  <2>5. ASSUME NEW d \in Caller
        PROVE  \/ call'[d] = NoCall
               \/ /\ call[d] # NoCall /\ call'[d] \in InCall \cup StoreCall
                  /\ call'[d].stale /\ call'[d].now = call[d].now /\ call'[d].at = call[d].at
                  /\ call'[d].at = "store" => call'[d].recent = call[d].recent
    <3>1. CASE d = c \/ call[d] = NoCall
        BY <1>4, <3>1 DEF CallStores
    <3>2. CASE ~(d = c \/ call[d] = NoCall)
      <4>1. call'[d] = [call[d] EXCEPT !.stale = TRUE]
          BY <1>4, <3>2 DEF CallStores
      <4>2. CASE call[d] \in InCall
          BY <3>2, <4>1, <4>2 DEF InCall
      <4>3. CASE call[d] \in StoreCall
          BY <3>2, <4>1, <4>3 DEF StoreCall
      <4> QED
          BY <3>2, <4>2, <4>3 DEF LimiterTypes
    <3> QED
        BY <3>1, <3>2
  <2>6. LimiterTypes'
    <3>1. call' = [d \in Caller |-> call'[d]]
        BY <1>4 DEF CallStores
    <3>2. call' \in [Caller -> {NoCall} \cup InCall \cup StoreCall]
        BY <2>5, <3>1
    <3>3. \A d \in Caller : call'[d].at = "store" => call'[d].recent \subseteq Admissions'
        BY <2>2, <2>5 DEF LimiterTypes, NoCall
    <3> QED
        BY <2>2, <2>3, <2>4, <3>2, <3>3 DEF LimiterTypes
  <2>7. UpToNow'
      BY <2>5 DEF UpToNow
  <2>8. /\ \A i \in Admissions' : admitted'[i] <= clock'
        /\ \A d \in Caller : call'[d] # NoCall => call'[d].now <= clock'
      BY <2>1, <2>2, <2>5 DEF Punctual
  <2>9. CASE overlapped'
      BY <2>6, <2>7, <2>8, <2>9 DEF Punctual, Complete, WindowBound
  <2>10. CASE ~overlapped'
    <3>1. /\ \A i, j \in Admissions' : i <= j => admitted'[i] <= admitted'[j]
          /\ Complete' /\ WindowBound'
        BY <1>4, <2>3, <2>10, StoreKeepsWindow
    <3> QED
        BY <2>6, <2>7, <2>8, <3>1 DEF Punctual
  <2> QED
      BY <2>9, <2>10
<1> QED
    BY <1>1, <1>2, <1>3, <1>4 DEF LimiterNext

LEMMA LimiterInvariant == LimiterSpec => []LimiterInv
<1> QED
    BY LimiterInitHolds, LimiterNextHolds, PTL DEF LimiterSpec

\* Unless a call was overtaken, no window holds more calls than allowed.
THEOREM LimitHolds == LimiterSpec => []WindowBound
<1>1. LimiterInv => WindowBound
    BY DEF LimiterInv
<1> QED
    BY <1>1, LimiterInvariant, PTL
==============================================================================
