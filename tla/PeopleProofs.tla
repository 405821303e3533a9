---------------------------- MODULE PeopleProofs ----------------------------
(***************************************************************************)
(* The safety properties of People, for any number of people, images and   *)
(* concurrent requests.                                                    *)
(*                                                                         *)
(* A request that met no other on its person (alone) knows what its steps  *)
(* so far have left in the tables and the gallery (Knows); every other     *)
(* request has its person in torn and kept (Spoiled).                      *)
(***************************************************************************)
EXTENDS People, TLAPS

\* Requests are about people who exist; who does not exist has left nothing.
Known == \A r \in Req : req[r] # Idle => Exists(req[r].person)
Blank == \A p \in Person : ~Exists(p) => stored[p] = {} /\ p \notin DOMAIN gallery

\* A request that is alone is under way, and no other is on its person.
Apart == \A r \in alone : req[r] # Idle /\ Others(r, req[r].person) = {}

Spoiled == \A r \in Req : req[r] # Idle /\ r \notin alone =>
             req[r].person \in torn /\ req[r].person \in kept

\* What a lone request knows, by how far it has come.
Knows(r) ==
    LET q == req[r]
        p == q.person
        sound == p \in torn \/ Faithful(p)
    IN /\ q.pc = "rename" => sound
       /\ q.pc = "rename_flush" => p \in torn \/ Shown(p, q.name)
       /\ q.pc \in {"deactivate", "remove"} => q.was = person[p].active
       /\ q.pc = "remove" => q.images = stored[p]
       /\ q.pc = "forget" => ~person[p].active /\ stored[p] = {}
       /\ q.pc = "reactivate" => sound /\ q.was = person[p].active
       /\ q.pc = "images" => sound /\ person[p].active
       /\ q.pc \in {"reload", "collect", "put"} =>
            /\ person[p].active
            /\ q.enroll => stored[p] # {}
            /\ ~q.enroll => p \in torn \/ p \notin DOMAIN gallery \/ Faithful(p)
       /\ q.pc \in {"collect", "put"} => q.name = person[p].name
       /\ q.pc = "put" => q.images = stored[p] /\ stored[p] # {}

IInv == /\ TypeOK
        /\ Known
        /\ Blank
        /\ Apart
        /\ Spoiled
        /\ \A r \in alone : Knows(r)
        /\ QuietIsFaithful
        /\ InactiveKeepNothing

----------------------------------------------------------------------------
\* What Requests says of a request, by its pc.
LEMMA RequestTypes ==
    ASSUME NEW q, q \in Requests
    PROVE  /\ q.pc \in {"rename", "rename_flush"} => q \in Renames
           /\ q.pc = "deactivate" => q \in Departures
           /\ q.pc = "remove" => q \in Removals
           /\ q.pc = "forget" => q \in Forgets
           /\ q.pc = "reactivate" => q \in Returns
           /\ q.pc = "images" => q \in Uploads
           /\ q.pc = "reload" => q \in Reloads
           /\ q.pc = "collect" => q \in Collects
           /\ q.pc = "put" => q \in Puts
           /\ q # Idle => q.pc # "idle" /\ q.person \in Person
           /\ q.pc # "idle" => q # Idle
  <1>1. q \in {Idle} \/ q \in Renames \/ q \in Departures \/ q \in Removals \/ q \in Forgets
          \/ q \in Returns \/ q \in Uploads \/ q \in Reloads \/ q \in Collects \/ q \in Puts
    BY DEF Requests
  <1> QED
    BY <1>1 DEF Idle, Renames, Departures, Removals, Forgets, Returns, Uploads, Reloads, Collects, Puts

LEMMA InitIInv == Init => IInv
  <1> SUFFICES ASSUME Init PROVE IInv
    OBVIOUS
  <1> USE DEF Init
  <1>1. TypeOK
    BY DEF TypeOK, Requests
  <1>2. \A p \in Person : ~Exists(p)
    BY DEF Exists
  <1> QED
    BY <1>1, <1>2 DEF IInv, Known, Blank, Apart, Spoiled, QuietIsFaithful, InactiveKeepNothing,
                      Faithful, Shown

----------------------------------------------------------------------------
(* One step of request r on person p.                                      *)

\* Everything about person x is as before.
Same(x) ==
    /\ person'[x] = person[x]
    /\ stored'[x] = stored[x]
    /\ x \in DOMAIN gallery' <=> x \in DOMAIN gallery
    /\ x \in DOMAIN gallery => gallery'[x] = gallery[x]
    /\ x \in torn' <=> x \in torn
    /\ x \in kept' <=> x \in kept

LEMMA SameShown ==
    ASSUME NEW x, Same(x)
    PROVE  /\ Exists(x)' <=> Exists(x)
           /\ \A n : Shown(x, n)' <=> Shown(x, n)
           /\ Faithful(x)' <=> Faithful(x)
  BY DEF Same, Exists, Shown, Faithful

\* What a step of r has to leave about p, the person it is on.
Leaves(r, p) ==
    /\ person'[p] # Nobody
    /\ r \in alone' => req'[r] # Idle /\ Others(r, p) = {} /\ Knows(r)'
    /\ \A s \in Req : req'[s] # Idle /\ s \notin alone' /\ req'[s].person = p
                        => p \in torn' /\ p \in kept'
    /\ Quiet(p)' /\ p \notin torn' => Faithful(p)'
    /\ p \notin kept' /\ ~person'[p].active => stored'[p] = {}

\* A step of r on p: other requests and other people are not touched, and a
\* request that is still alone is not on p.
OnlyOn(r, p) ==
    /\ req[r] = Idle \/ req[r].person = p
    /\ req'[r] = Idle \/ req'[r].person = p
    /\ \A s \in Req \ {r} : req'[s] = req[s]
    /\ \A x \in Person \ {p} : Same(x)
    /\ \A s \in Req \ {r} : s \in alone' <=> s \in alone /\ req[s].person # p

\* Such a step keeps the invariant.
LEMMA StepOn ==
    ASSUME IInv, TypeOK', NEW r \in Req, NEW p \in Person, OnlyOn(r, p), Leaves(r, p)
    PROVE  IInv'
  <1> USE DEF OnlyOn
  <1>1. ASSUME NEW s \in Req, req'[s] # Idle, req'[s].person # p
        PROVE  /\ s # r /\ req'[s] = req[s] /\ req[s] # Idle
               /\ req[s].person \in Person /\ Same(req[s].person)
               /\ s \in alone' <=> s \in alone
    <2>1. s # r /\ req'[s] = req[s]
      BY <1>1
    <2>2. req[s].person \in Person
      BY <1>1, <2>1, RequestTypes DEF TypeOK, IInv
    <2> QED
      BY <1>1, <2>1, <2>2
  <1>2. Known'
    BY <1>1 DEF Known, Exists, IInv, Leaves, Same
  <1>3. Blank'
    BY DEF Blank, Exists, IInv, Leaves, Same
  <1>4. Apart'
    <2> SUFFICES ASSUME NEW s \in alone'
                 PROVE  /\ req'[s] # Idle
                        /\ \A t \in Req \ {s} : req'[t] # Idle => req'[t].person # req'[s].person
      BY DEF Apart, Others
    <2>1. s \in Req
      BY DEF TypeOK
    <2>2. CASE s = r
      BY <2>2 DEF Leaves, Others
    <2>3. CASE s # r
      <3>1. s \in alone /\ req[s] # Idle /\ req'[s] = req[s] /\ req[s].person # p
        BY <2>1, <2>3 DEF Apart, IInv
      <3>2. \A t \in Req \ {s} : req[t] # Idle => req[t].person # req[s].person
        BY <3>1 DEF Apart, Others, IInv
      <3> QED
        BY <3>1, <3>2, <2>1
    <2> QED
      BY <2>2, <2>3
  <1>5. Spoiled'
    BY <1>1 DEF Spoiled, IInv, Leaves, Same
  <1>6. \A s \in alone' : Knows(s)'
    <2> SUFFICES ASSUME NEW s \in alone' PROVE Knows(s)'
      OBVIOUS
    <2>1. CASE s = r
      BY <2>1 DEF Leaves
    <2>2. CASE s # r
      <3>1. s \in Req /\ s \in alone /\ req'[s] = req[s] /\ req[s].person # p /\ req[s] # Idle
        BY <2>2 DEF TypeOK, Apart, IInv
      <3>2. Same(req[s].person) /\ Knows(s)
        BY <1>1, <3>1 DEF IInv
      <3> QED
        BY <3>1, <3>2 DEF Knows, Same, Faithful, Shown, Exists
    <2> QED
      BY <2>1, <2>2
  <1>7. QuietIsFaithful'
    <2> SUFFICES ASSUME NEW x \in Person, x # p, Quiet(x)', x \notin torn'
                 PROVE  Faithful(x)'
      BY DEF QuietIsFaithful, Leaves
    <2>1. Quiet(x)
      BY DEF Quiet
    <2> QED
      BY <2>1, SameShown DEF QuietIsFaithful, IInv, Same
  <1>8. InactiveKeepNothing'
    BY DEF InactiveKeepNothing, Leaves, IInv, Same, Exists
  <1> QED
    BY <1>2, <1>3, <1>4, <1>5, <1>6, <1>7, <1>8 DEF IInv

----------------------------------------------------------------------------
(* The three ways the bookkeeping of a step goes.                          *)

\* The tables and the gallery change for p only.
Local(p) ==
    \A x \in Person \ {p} :
        /\ person'[x] = person[x]
        /\ stored'[x] = stored[x]
        /\ x \in DOMAIN gallery' <=> x \in DOMAIN gallery
        /\ x \in DOMAIN gallery => gallery'[x] = gallery[x]

LEMMA BeginStep ==
    ASSUME IInv, TypeOK', NEW r \in Req, NEW p \in Person, NEW state,
           state # Idle, state.person = p, Begin(r, p, state),
           UNCHANGED <<tables, gallery>>,
           r \in alone' => Knows(r)'
    PROVE  IInv'
  <1> USE DEF Begin, tables
  <1>1. req'[r] = state /\ \A s \in Req \ {r} : req'[s] = req[s]
    BY DEF IInv, TypeOK
  <1>2. \A s \in Req \ {r} : s \in alone' <=> s \in alone /\ req[s].person # p
    BY DEF Others, IInv, Apart, TypeOK
  <1>3. OnlyOn(r, p)
    BY <1>1, <1>2 DEF OnlyOn, Same
  <1>4. ~Quiet(p)'
    BY <1>1 DEF Quiet
  <1>5. r \in alone' => Others(r, p) = {}
    BY DEF IInv, Apart, TypeOK
  <1>6. \A s \in Req : req'[s] # Idle /\ s \notin alone' /\ req'[s].person = p
                         => p \in torn' /\ p \in kept'
    <2> SUFFICES ASSUME NEW s \in Req, req'[s] # Idle, s \notin alone', req'[s].person = p
                 PROVE  p \in torn' /\ p \in kept'
      OBVIOUS
    <2>1. CASE Others(r, p) # {}
      BY <2>1
    <2>2. CASE Others(r, p) = {}
      BY <2>2, <1>1 DEF Others
    <2> QED
      BY <2>1, <2>2
  <1>7. p \notin kept' /\ ~person'[p].active => stored'[p] = {}
    BY DEF IInv, InactiveKeepNothing, Exists
  <1>8. Leaves(r, p)
    BY <1>1, <1>4, <1>5, <1>6, <1>7 DEF Leaves, Exists
  <1> QED
    BY <1>3, <1>8, StepOn

\* While r is on p, a request is alone on p only if it is r itself, and then
\* nobody else is on p.
LEMMA OnTheWay ==
    ASSUME IInv, NEW r \in Req, req[r] # Idle
    PROVE  /\ \A s \in Req \ {r} : s \in alone => req[s].person # req[r].person
           /\ r \in alone => Others(r, req[r].person) = {} /\ Knows(r)
           /\ r \notin alone => req[r].person \in torn /\ req[r].person \in kept
           /\ req[r].person \in Person /\ Exists(req[r].person)
  BY RequestTypes DEF IInv, Apart, Others, TypeOK, Spoiled, Known

LEMMA ContinueStep ==
    ASSUME IInv, TypeOK', NEW r \in Req, NEW p \in Person, NEW state,
           req[r] # Idle, req[r].person = p, state # Idle, state.person = p,
           Continue(r, state), Local(p), person'[p] # Nobody,
           r \in alone => Knows(r)',
           p \notin kept /\ ~person'[p].active => stored'[p] = {}
    PROVE  IInv'
  <1> USE DEF Continue, history
  <1>1. req'[r] = state /\ \A s \in Req \ {r} : req'[s] = req[s]
    BY DEF IInv, TypeOK
  <1>2. OnlyOn(r, p)
    BY <1>1, OnTheWay DEF OnlyOn, Same, Local
  <1>3. ~Quiet(p)'
    BY <1>1 DEF Quiet
  <1>4. \A s \in Req : req'[s] # Idle /\ s \notin alone' /\ req'[s].person = p
                         => p \in torn' /\ p \in kept'
    BY <1>1 DEF IInv, Spoiled
  <1>5. Leaves(r, p)
    BY <1>1, <1>3, <1>4, OnTheWay DEF Leaves
  <1> QED
    BY <1>2, <1>5, StepOn

LEMMA EndStep ==
    ASSUME IInv, TypeOK', NEW r \in Req, NEW p \in Person,
           NEW spoils \in BOOLEAN, NEW mends \in BOOLEAN, NEW cleans \in BOOLEAN,
           req[r] # Idle, req[r].person = p,
           End(r, spoils, mends, cleans), Local(p), person'[p] # Nobody,
           r \in alone /\ ~spoils /\ (mends \/ p \notin torn) => Faithful(p)',
           ~person'[p].active => stored'[p] = {} \/ (p \in kept /\ ~(cleans /\ r \in alone))
    PROVE  IInv'
  <1> USE DEF End
  <1>1. req'[r] = Idle /\ \A s \in Req \ {r} : req'[s] = req[s]
    BY DEF IInv, TypeOK
  <1>2. OnlyOn(r, p)
    BY <1>1, OnTheWay DEF OnlyOn, Same, Local
  <1>3. p \notin torn' => Faithful(p)'
    BY OnTheWay
  <1>4. \A s \in Req : req'[s] # Idle /\ s \notin alone' /\ req'[s].person = p
                         => p \in torn' /\ p \in kept'
    <2> SUFFICES ASSUME NEW s \in Req, req'[s] # Idle, s \notin alone', req'[s].person = p
                 PROVE  p \in torn' /\ p \in kept'
      OBVIOUS
    <2>1. s # r /\ req[s] # Idle /\ req[s].person = p /\ s \notin alone
      BY <1>1
    <2>2. r \notin alone
      BY <2>1, OnTheWay DEF Others
    <2> QED
      BY <2>1, <2>2 DEF IInv, Spoiled
  <1>5. Leaves(r, p)
    BY <1>1, <1>3, <1>4 DEF Leaves
  <1> QED
    BY <1>2, <1>5, StepOn

----------------------------------------------------------------------------
(* Types.                                                                  *)

LEMMA GalleryTypes ==
    ASSUME TypeOK, NEW p \in Person
    PROVE  /\ DOMAIN Without(p) = DOMAIN gallery \ {p}
           /\ Without(p) \in [DOMAIN Without(p) -> Entry]
           /\ \A x \in DOMAIN Without(p) : Without(p)[x] = gallery[x]
           /\ \A e \in Entry :
                /\ DOMAIN With(p, e) = DOMAIN gallery \cup {p}
                /\ With(p, e) \in [DOMAIN With(p, e) -> Entry]
                /\ With(p, e)[p] = e
                /\ \A x \in DOMAIN gallery \ {p} : With(p, e)[x] = gallery[x]
  BY DEF TypeOK, With, Without

\* A request slot with a typed request, and the histories that go with it.
LEMMA BookTypes ==
    ASSUME TypeOK, NEW r \in Req, NEW p \in Person
    PROVE  /\ \A state \in Requests :
                Begin(r, p, state) \/ Continue(r, state) =>
                  /\ req' \in [Req -> Requests]
                  /\ alone' \subseteq Req /\ torn' \subseteq Person /\ kept' \subseteq Person
           /\ \A spoils, mends, cleans \in BOOLEAN :
                req[r] # Idle /\ End(r, spoils, mends, cleans) =>
                  /\ req' \in [Req -> Requests]
                  /\ alone' \subseteq Req /\ torn' \subseteq Person /\ kept' \subseteq Person
  <1>1. ASSUME NEW state \in Requests, Begin(r, p, state) \/ Continue(r, state)
        PROVE  /\ req' \in [Req -> Requests]
               /\ alone' \subseteq Req /\ torn' \subseteq Person /\ kept' \subseteq Person
    BY <1>1 DEF TypeOK, Begin, Continue, history
  <1>2. ASSUME NEW spoils \in BOOLEAN, NEW mends \in BOOLEAN, NEW cleans \in BOOLEAN,
               req[r] # Idle, End(r, spoils, mends, cleans)
        PROVE  /\ req' \in [Req -> Requests]
               /\ alone' \subseteq Req /\ torn' \subseteq Person /\ kept' \subseteq Person
    <2>1. req[r].person \in Person
      BY <1>2, RequestTypes DEF TypeOK
    <2>2. Idle \in Requests
      BY DEF Requests
    <2> QED
      BY <1>2, <2>1, <2>2 DEF TypeOK, End
  <1> QED
    BY <1>1, <1>2

----------------------------------------------------------------------------
(* One lemma per handler.                                                  *)

LEMMA CreateKeeps ==
    ASSUME IInv, NEW p \in Person, NEW n \in Name, Create(p, n)
    PROVE  IInv'
  <1> USE DEF Create, history
  <1>1. TypeOK'
    BY DEF IInv, TypeOK, Row
  <1>2. /\ person'[p] = [name |-> n, active |-> TRUE]
        /\ \A x \in Person \ {p} : Same(x)
        /\ stored'[p] = {} /\ p \notin DOMAIN gallery'
    BY DEF IInv, TypeOK, Same, Blank
  <1>3. \A r \in Req : req'[r] = req[r] /\ (req[r] # Idle => req[r].person \in Person \ {p})
    BY RequestTypes DEF IInv, TypeOK, Known
  <1>4. person'[p] # Nobody
    <2>1. [name |-> n, active |-> TRUE] \in Row
      BY DEF Row
    <2>2. Nobody \notin Row
      BY NobodyAssumption DEF Row
    <2> QED
      BY <1>2, <2>1, <2>2
  <1>5. Known'
    BY <1>2, <1>3 DEF Known, Exists, IInv, Same
  <1>6. Blank'
    BY <1>2, <1>4 DEF Blank, Exists, IInv, Same
  <1>7. Apart' /\ Spoiled'
    BY DEF IInv, Apart, Others, Spoiled
  <1>8. \A r \in alone' : Knows(r)'
    <2> SUFFICES ASSUME NEW r \in alone PROVE Knows(r)'
      OBVIOUS
    <2>1. r \in Req /\ req[r] # Idle /\ Knows(r)
      BY DEF IInv, TypeOK, Apart
    <2>2. req'[r] = req[r] /\ Same(req[r].person)
      BY <1>2, <1>3, <2>1
    <2> QED
      BY <2>1, <2>2 DEF Knows, Same, Faithful, Shown, Exists
  <1>9. QuietIsFaithful'
    <2> SUFFICES ASSUME NEW x \in Person, Quiet(x)', x \notin torn' PROVE Faithful(x)'
      BY DEF QuietIsFaithful
    <2>1. CASE x = p
      BY <2>1, <1>2, <1>4 DEF Faithful, Shown
    <2>2. CASE x # p
      <3>1. Quiet(x)
        BY DEF Quiet
      <3> QED
        BY <2>2, <3>1, <1>2, SameShown DEF IInv, QuietIsFaithful
    <2> QED
      BY <2>1, <2>2
  <1>10. InactiveKeepNothing'
    BY <1>2 DEF InactiveKeepNothing, IInv, Same, Exists
  <1> QED
    BY <1>1, <1>5, <1>6, <1>7, <1>8, <1>9, <1>10 DEF IInv

LEMMA RestartKeeps ==
    ASSUME IInv, Restart
    PROVE  IInv'
  <1> USE DEF Restart, tables
  <1>1. TypeOK'
    <2>1. \A x \in Person : Exists(x) => person[x] \in Row
      BY DEF IInv, TypeOK, Exists
    <2>2. gallery' \in [DOMAIN gallery' -> Entry]
      BY <2>1 DEF IInv, TypeOK, Entry, Row
    <2> QED
      BY <2>2 DEF IInv, TypeOK, Requests
  <1>2. \A r \in Req : req'[r] = Idle
    OBVIOUS
  <1>3. Known' /\ Apart' /\ Spoiled' /\ (\A r \in alone' : Knows(r)')
    BY <1>2 DEF Known, Apart, Spoiled
  <1>4. Blank'
    BY DEF Blank, IInv, Exists
  <1>5. QuietIsFaithful'
    BY DEF QuietIsFaithful, Faithful, Shown, Exists
  <1>6. InactiveKeepNothing'
    BY DEF IInv, InactiveKeepNothing, Exists
  <1> QED
    BY <1>1, <1>3, <1>4, <1>5, <1>6 DEF IInv

\* What the tables say of somebody who exists, and that a row is not Nobody.
LEMMA Rows ==
    ASSUME TypeOK
    PROVE  /\ Nobody \notin Row
           /\ \A p \in Person : Exists(p) => person[p] \in Row /\ person[p].active \in BOOLEAN
  BY NobodyAssumption DEF TypeOK, Row, Exists

\* A request that begins alone finds the gallery entry of its person right.
LEMMA Arrives ==
    ASSUME IInv, NEW r \in Req, NEW p \in Person, NEW state, state.person = p,
           Begin(r, p, state), UNCHANGED <<tables, gallery>>, r \in alone'
    PROVE  req'[r] = state /\ (p \in torn' \/ Faithful(p)')
  <1> USE DEF tables
  <1>1. Others(r, p) = {} /\ req'[r] = state /\ req[r] = Idle /\ torn' = torn
    BY DEF Begin, IInv, TypeOK, Apart
  <1>2. Quiet(p)
    BY <1>1 DEF Quiet, Others
  <1>3. p \in torn \/ Faithful(p)
    BY <1>2 DEF IInv, QuietIsFaithful
  <1> QED
    BY <1>1, <1>3 DEF Faithful, Shown, Exists

LEMMA UpdateLoadKeeps ==
    ASSUME IInv, NEW r \in Req, NEW p \in Person, NEW n \in Name, UpdateLoad(r, p, n)
    PROVE  IInv'
  <1> DEFINE state == [pc |-> "rename", person |-> p, name |-> n]
  <1> USE DEF UpdateLoad, tables
  <1>1. state \in Requests /\ state # Idle /\ state.person = p
    BY DEF Requests, Renames, Idle
  <1>2. TypeOK'
    BY <1>1, BookTypes DEF IInv, TypeOK
  <1>3. Knows(r)' \/ r \notin alone'
    BY <1>1, Arrives DEF Knows
  <1> QED
    BY <1>1, <1>2, <1>3, BeginStep

LEMMA DeactivateLoadKeeps ==
    ASSUME IInv, NEW r \in Req, NEW p \in Person, DeactivateLoad(r, p)
    PROVE  IInv'
  <1> DEFINE state == [pc |-> "deactivate", person |-> p, was |-> person[p].active]
  <1> USE DEF DeactivateLoad, tables
  <1>1. state \in Requests /\ state # Idle /\ state.person = p
    BY Rows DEF IInv, TypeOK, Requests, Departures, Idle
  <1>2. TypeOK'
    BY <1>1, BookTypes DEF IInv, TypeOK
  <1>3. Knows(r)' \/ r \notin alone'
    BY <1>1, Arrives DEF Knows
  <1> QED
    BY <1>1, <1>2, <1>3, BeginStep

LEMMA ReactivateLoadKeeps ==
    ASSUME IInv, NEW r \in Req, NEW p \in Person, ReactivateLoad(r, p)
    PROVE  IInv'
  <1> DEFINE state == [pc |-> "reactivate", person |-> p, was |-> person[p].active]
  <1> USE DEF ReactivateLoad, tables
  <1>1. state \in Requests /\ state # Idle /\ state.person = p
    BY Rows DEF IInv, TypeOK, Requests, Returns, Idle
  <1>2. TypeOK'
    BY <1>1, BookTypes DEF IInv, TypeOK
  <1>3. Knows(r)' \/ r \notin alone'
    BY <1>1, Arrives DEF Knows
  <1> QED
    BY <1>1, <1>2, <1>3, BeginStep

LEMMA EnrollLoadKeeps ==
    ASSUME IInv, NEW r \in Req, NEW p \in Person, EnrollLoad(r, p)
    PROVE  IInv'
  <1> DEFINE state == [pc |-> "images", person |-> p]
  <1> USE DEF EnrollLoad, tables
  <1>1. state \in Requests /\ state # Idle /\ state.person = p
    BY DEF Requests, Uploads, Idle
  <1>2. TypeOK'
    BY <1>1, BookTypes DEF IInv, TypeOK
  <1>3. Knows(r)' \/ r \notin alone'
    BY <1>1, Arrives DEF Knows
  <1> QED
    BY <1>1, <1>2, <1>3, BeginStep

LEMMA UpdateGalleryKeeps ==
    ASSUME IInv, NEW r \in Req, UpdateGallery(r)
    PROVE  IInv'
  <1> USE DEF UpdateGallery, tables
  <1>0. PICK q \in Renames : req[r] = q
    BY RequestTypes DEF IInv, TypeOK
  <1> DEFINE p == q.person
             state == [q EXCEPT !.pc = "rename_flush"]
  <1>1. q # Idle /\ p \in Person /\ Exists(p)
    BY <1>0, OnTheWay DEF Renames, Idle
  <1>2. state \in Requests /\ state # Idle /\ state.person = p /\ state.name = q.name
    BY <1>1 DEF Requests, Renames, Idle
  <1>3. /\ DOMAIN gallery' = DOMAIN gallery
        /\ gallery' \in [DOMAIN gallery' -> Entry]
        /\ \A x \in DOMAIN gallery \ {p} : gallery'[x] = gallery[x]
        /\ p \in DOMAIN gallery => gallery'[p] = [gallery[p] EXCEPT !.name = q.name]
    BY <1>0, <1>1 DEF IInv, TypeOK, Entry, Renames
  <1>4. TypeOK'
    BY <1>0, <1>1, <1>2, <1>3, BookTypes DEF IInv, TypeOK
  <1>5. ASSUME r \in alone PROVE Knows(r)'
    <2>1. req'[r] = state /\ torn' = torn
      BY <1>0, <1>2 DEF Continue, history, IInv, TypeOK
    <2>2. p \in torn \/ Faithful(p)
      BY <1>0, <1>5, <1>1, OnTheWay DEF Knows
    <2>3. Faithful(p) => Shown(p, q.name)'
      <3>1. p \in DOMAIN gallery => gallery[p] \in Entry
        BY DEF IInv, TypeOK
      <3> QED
        BY <1>3, <3>1 DEF Faithful, Shown, Exists, Entry
    <2> QED
      BY <2>1, <2>2, <2>3, <1>2 DEF Knows
  <1>6. Local(p) /\ person'[p] # Nobody
    BY <1>0, <1>1, <1>3 DEF Local, Exists
  <1> QED
    BY <1>0, <1>1, <1>2, <1>4, <1>5, <1>6, ContinueStep DEF IInv, InactiveKeepNothing

LEMMA UpdateCommitKeeps ==
    ASSUME IInv, NEW r \in Req, UpdateCommit(r)
    PROVE  IInv'
  <1> USE DEF UpdateCommit
  <1>0. PICK q \in Renames : req[r] = q
    BY RequestTypes DEF IInv, TypeOK
  <1> DEFINE p == q.person
  <1>1. q # Idle /\ p \in Person /\ Exists(p)
    BY <1>0, OnTheWay DEF Renames, Idle
  <1>2. /\ person' = [person EXCEPT ![p] = [person[p] EXCEPT !.name = q.name]]
        /\ person'[p] \in Row /\ person'[p].name = q.name
        /\ person'[p].active = person[p].active
    BY <1>0, <1>1, Rows DEF IInv, TypeOK, Row, Renames
  <1>3. TypeOK'
    BY <1>0, <1>1, <1>2, BookTypes DEF IInv, TypeOK
  <1>4. person'[p] # Nobody
    BY <1>2, Rows DEF IInv
  <1>5. Local(p)
    BY <1>2 DEF Local, IInv, TypeOK
  <1>6. r \in alone => p \in torn \/ Faithful(p)'
    BY <1>0, <1>1, <1>2, <1>4, OnTheWay DEF Knows, Faithful, Shown, Exists
  <1> QED
    BY <1>0, <1>1, <1>2, <1>3, <1>4, <1>5, <1>6, EndStep DEF IInv, InactiveKeepNothing

LEMMA UpdateConflictKeeps ==
    ASSUME IInv, NEW r \in Req, UpdateConflict(r)
    PROVE  IInv'
  <1> USE DEF UpdateConflict, tables
  <1>0. PICK q \in Renames : req[r] = q
    BY RequestTypes DEF IInv, TypeOK
  <1> DEFINE p == q.person
  <1>1. q # Idle /\ p \in Person /\ Exists(p)
    BY <1>0, OnTheWay DEF Renames, Idle
  <1>2. TypeOK'
    BY <1>0, <1>1, BookTypes DEF IInv, TypeOK
  <1>3. Local(p) /\ person'[p] # Nobody
    BY <1>1 DEF Local, Exists
  <1> QED
    BY <1>0, <1>1, <1>2, <1>3, EndStep DEF IInv, InactiveKeepNothing

LEMMA DeactivateSelectKeeps ==
    ASSUME IInv, NEW r \in Req, DeactivateSelect(r)
    PROVE  IInv'
  <1> USE DEF DeactivateSelect, tables
  <1>0. PICK q \in Departures : req[r] = q
    BY RequestTypes DEF IInv, TypeOK
  <1>1. q # Idle /\ q.person \in Person /\ Exists(q.person) /\ stored[q.person] \in SUBSET Image
    BY <1>0, OnTheWay DEF IInv, TypeOK, Departures, Idle
  <1>2. PICK p \in Person, found \in SUBSET Image : p = q.person /\ found = stored[p]
    BY <1>1
  <1> DEFINE state == [pc |-> "remove", person |-> p, was |-> q.was, images |-> found]
  <1>3. state \in Requests /\ state # Idle /\ state.person = p
    BY <1>0 DEF Requests, Departures, Removals, Idle
  <1>4. Continue(r, state)
    BY <1>0, <1>2
  <1>5. TypeOK'
    BY <1>3, <1>4, BookTypes DEF IInv, TypeOK
  <1>6. Local(p) /\ person'[p] # Nobody
    BY <1>1, <1>2 DEF Local, Exists
  <1>7. ASSUME r \in alone PROVE Knows(r)'
    <2>1. req'[r] = state
      BY <1>4 DEF Continue, IInv, TypeOK
    <2>2. q.was = person[p].active
      BY <1>0, <1>1, <1>2, <1>7, OnTheWay DEF Knows, Departures
    <2> QED
      BY <2>1, <2>2, <1>2 DEF Knows
  <1> QED
    BY <1>0, <1>1, <1>2, <1>3, <1>4, <1>5, <1>6, <1>7, ContinueStep DEF IInv, InactiveKeepNothing

LEMMA DeactivateCommitKeeps ==
    ASSUME IInv, NEW r \in Req, DeactivateCommit(r)
    PROVE  IInv'
  <1> USE DEF DeactivateCommit
  <1>0. PICK q \in Removals : req[r] = q
    BY RequestTypes DEF IInv, TypeOK
  <1> DEFINE p == q.person
             state == [pc |-> "forget", person |-> p]
  <1>1. q # Idle /\ p \in Person /\ Exists(p)
    BY <1>0, OnTheWay DEF Removals, Idle
  <1>2. state \in Requests /\ state # Idle /\ state.person = p
    BY <1>1 DEF Requests, Forgets, Idle
  <1>3. /\ person' = [person EXCEPT ![p] = [person[p] EXCEPT !.active = @ /\ ~q.was]]
        /\ person'[p] \in Row
        /\ person'[p].active = (person[p].active /\ ~q.was)
    BY <1>0, <1>1, Rows DEF IInv, TypeOK, Row, Removals
  <1>4. stored' = [stored EXCEPT ![p] = @ \ q.images] /\ stored'[p] = stored[p] \ q.images
    BY <1>0, <1>1 DEF IInv, TypeOK
  <1>5. TypeOK'
    BY <1>0, <1>1, <1>2, <1>3, <1>4, BookTypes DEF IInv, TypeOK
  <1>6. person'[p] # Nobody
    BY <1>3, Rows DEF IInv
  <1>7. Local(p)
    BY <1>3, <1>4 DEF Local, IInv, TypeOK
  <1>8. r \in alone => stored'[p] = {} /\ ~person'[p].active
    BY <1>0, <1>1, <1>3, <1>4, OnTheWay DEF Knows
  <1>9. r \in alone => Knows(r)'
    <2>1. req'[r] = state
      BY <1>0 DEF Continue, IInv, TypeOK
    <2> QED
      BY <2>1, <1>8 DEF Knows
  <1>10. p \notin kept /\ ~person'[p].active => stored'[p] = {}
    BY <1>0, <1>1, <1>8, OnTheWay
  <1> QED
    BY <1>0, <1>1, <1>2, <1>5, <1>6, <1>7, <1>9, <1>10, ContinueStep

LEMMA DeactivateForgetKeeps ==
    ASSUME IInv, NEW r \in Req, DeactivateForget(r)
    PROVE  IInv'
  <1> USE DEF DeactivateForget, tables
  <1>0. PICK q \in Forgets : req[r] = q
    BY RequestTypes DEF IInv, TypeOK
  <1> DEFINE p == q.person
  <1>1. q # Idle /\ p \in Person /\ Exists(p)
    BY <1>0, OnTheWay DEF Forgets, Idle
  <1>2. /\ DOMAIN gallery' = DOMAIN gallery \ {p}
        /\ gallery' \in [DOMAIN gallery' -> Entry]
        /\ \A x \in DOMAIN gallery' : gallery'[x] = gallery[x]
    BY <1>0, <1>1, GalleryTypes DEF IInv
  <1>3. TypeOK'
    BY <1>0, <1>1, <1>2, BookTypes DEF IInv, TypeOK
  <1>4. Local(p) /\ person'[p] # Nobody
    BY <1>1, <1>2 DEF Local, Exists
  <1>5. r \in alone => stored[p] = {} /\ ~person[p].active
    BY <1>0, <1>1, OnTheWay DEF Knows
  <1>6. r \in alone => Faithful(p)'
    BY <1>2, <1>5 DEF Faithful, Shown
  <1>7. ~person'[p].active => stored'[p] = {} \/ (p \in kept /\ r \notin alone)
    BY <1>0, <1>1, <1>5, OnTheWay
  <1> QED
    BY <1>0, <1>1, <1>3, <1>4, <1>6, <1>7, EndStep

LEMMA ReactivateCommitKeeps ==
    ASSUME IInv, NEW r \in Req, ReactivateCommit(r)
    PROVE  IInv'
  <1> USE DEF ReactivateCommit
  <1>0. PICK q \in Returns : req[r] = q
    BY RequestTypes DEF IInv, TypeOK
  <1> DEFINE p == q.person
             state == [pc |-> "reload", person |-> p, enroll |-> FALSE]
  <1>1. q # Idle /\ p \in Person /\ Exists(p)
    BY <1>0, OnTheWay DEF Returns, Idle
  <1>2. state \in Requests /\ state # Idle /\ state.person = p
    BY <1>1 DEF Requests, Reloads, Idle
  <1>3. /\ person' = [person EXCEPT ![p] = [person[p] EXCEPT !.active = @ \/ ~q.was]]
        /\ person'[p] \in Row
        /\ person'[p].name = person[p].name
        /\ person'[p].active = (person[p].active \/ ~q.was)
    BY <1>0, <1>1, Rows DEF IInv, TypeOK, Row, Returns
  <1>4. TypeOK'
    BY <1>0, <1>1, <1>2, <1>3, BookTypes DEF IInv, TypeOK
  <1>5. person'[p] # Nobody
    BY <1>3, Rows DEF IInv
  <1>6. Local(p)
    BY <1>3 DEF Local, IInv, TypeOK
  <1>7. ASSUME r \in alone PROVE Knows(r)'
    <2>1. req'[r] = state /\ torn' = torn
      BY <1>0 DEF Continue, history, IInv, TypeOK
    <2>2. (p \in torn \/ Faithful(p)) /\ q.was = person[p].active
      BY <1>0, <1>1, <1>7, OnTheWay DEF Knows
    <2>3. person'[p].active
      BY <1>1, <1>3, <2>2, Rows DEF IInv
    <2>4. p \in torn \/ p \notin DOMAIN gallery \/ Faithful(p)'
      BY <1>1, <1>3, <1>5, <2>2, <2>3 DEF Faithful, Shown, Exists
    <2> QED
      BY <2>1, <2>3, <2>4 DEF Knows
  <1>8. p \notin kept /\ ~person'[p].active => stored'[p] = {}
    BY <1>1, <1>3 DEF IInv, InactiveKeepNothing
  <1> QED
    BY <1>0, <1>1, <1>2, <1>4, <1>5, <1>6, <1>7, <1>8, ContinueStep

LEMMA EnrollAbortKeeps ==
    ASSUME IInv, NEW r \in Req, EnrollAbort(r)
    PROVE  IInv'
  <1> USE DEF EnrollAbort, tables
  <1>0. PICK q \in Uploads : req[r] = q
    BY RequestTypes DEF IInv, TypeOK
  <1> DEFINE p == q.person
  <1>1. q # Idle /\ p \in Person /\ Exists(p)
    BY <1>0, OnTheWay DEF Uploads, Idle
  <1>2. TypeOK'
    BY <1>0, <1>1, BookTypes DEF IInv, TypeOK
  <1>3. Local(p) /\ person'[p] # Nobody
    BY <1>1 DEF Local, Exists
  <1>4. r \in alone => p \in torn \/ Faithful(p)'
    BY <1>0, <1>1, OnTheWay DEF Knows, Faithful, Shown, Exists
  <1> QED
    BY <1>0, <1>1, <1>2, <1>3, <1>4, EndStep DEF IInv, InactiveKeepNothing

LEMMA EnrollCommitKeeps ==
    ASSUME IInv, NEW r \in Req, NEW new \in (SUBSET Image) \ {{}}, EnrollCommit(r, new)
    PROVE  IInv'
  <1> USE DEF EnrollCommit
  <1>0. PICK q \in Uploads : req[r] = q
    BY RequestTypes DEF IInv, TypeOK
  <1> DEFINE p == q.person
             state == [pc |-> "reload", person |-> p, enroll |-> TRUE]
  <1>1. q # Idle /\ p \in Person /\ Exists(p)
    BY <1>0, OnTheWay DEF Uploads, Idle
  <1>2. state \in Requests /\ state # Idle /\ state.person = p
    BY <1>1 DEF Requests, Reloads, Idle
  <1>3. stored' = [stored EXCEPT ![p] = @ \cup new] /\ stored'[p] # {}
    <2>1. new # {}
      OBVIOUS
    <2>2. stored' = [stored EXCEPT ![p] = @ \cup new]
      BY <1>0
    <2>3. stored'[p] = stored[p] \cup new
      BY <2>2, <1>1 DEF IInv, TypeOK
    <2> QED
      BY <2>1, <2>2, <2>3
  <1>4. TypeOK'
    <2>1. stored' \in [Person -> SUBSET Image] /\ loop' \subseteq Req
      BY <1>1, <1>3 DEF IInv, TypeOK
    <2>2. Continue(r, state)
      BY <1>0
    <2> QED
      BY <1>1, <1>2, <2>1, <2>2, BookTypes DEF IInv, TypeOK
  <1>5. Local(p) /\ person'[p] # Nobody
    BY <1>1, <1>3 DEF Local, IInv, TypeOK, Exists
  <1>6. r \in alone => person[p].active
    BY <1>0, <1>1, OnTheWay DEF Knows
  <1>7. r \in alone => Knows(r)'
    <2>1. req'[r] = state
      BY <1>0 DEF Continue, IInv, TypeOK
    <2> QED
      BY <2>1, <1>3, <1>6 DEF Knows
  <1>8. p \notin kept /\ ~person'[p].active => stored'[p] = {}
    BY <1>0, <1>1, <1>6, OnTheWay
  <1> QED
    BY <1>0, <1>1, <1>2, <1>4, <1>5, <1>7, <1>8, ContinueStep

LEMMA ReloadKeeps ==
    ASSUME IInv, NEW r \in Req, Reload(r)
    PROVE  IInv'
  <1> USE DEF Reload, tables
  <1>0. PICK q \in Reloads : req[r] = q
    BY RequestTypes DEF IInv, TypeOK
  <1>1. q # Idle /\ q.person \in Person /\ Exists(q.person) /\ person[q.person] \in Row
    BY <1>0, OnTheWay, Rows DEF IInv, Reloads, Idle
  <1>2. PICK p \in Person, n \in Name : p = q.person /\ n = person[p].name
    BY <1>1 DEF Row
  <1> DEFINE state == [pc |-> "collect", person |-> p, enroll |-> q.enroll, name |-> n]
  <1>3. state \in Requests /\ state # Idle /\ state.person = p
    BY <1>0, <1>1 DEF Requests, Reloads, Collects, Idle
  <1>4. Continue(r, state)
    BY <1>0, <1>2
  <1>5. TypeOK'
    BY <1>3, <1>4, BookTypes DEF IInv, TypeOK
  <1>6. Local(p) /\ person'[p] # Nobody
    BY <1>1, <1>2 DEF Local, Exists
  <1>7. ASSUME r \in alone PROVE Knows(r)'
    <2>1. req'[r] = state /\ torn' = torn
      BY <1>4 DEF Continue, history, IInv, TypeOK
    <2>2. /\ person[p].active
          /\ q.enroll => stored[p] # {}
          /\ ~q.enroll => p \in torn \/ p \notin DOMAIN gallery \/ Faithful(p)
      BY <1>0, <1>1, <1>2, <1>7, OnTheWay DEF Knows, Reloads
    <2>3. Faithful(p)' <=> Faithful(p)
      BY DEF Faithful, Shown, Exists
    <2> QED
      BY <2>1, <2>2, <2>3, <1>2 DEF Knows
  <1> QED
    BY <1>0, <1>1, <1>2, <1>3, <1>4, <1>5, <1>6, <1>7, ContinueStep DEF IInv, InactiveKeepNothing

LEMMA CollectKeeps ==
    ASSUME IInv, NEW r \in Req, Collect(r)
    PROVE  IInv'
  <1> USE DEF Collect, tables
  <1>0. PICK q \in Collects : req[r] = q
    BY RequestTypes DEF IInv, TypeOK
  <1>1. q # Idle /\ q.person \in Person /\ Exists(q.person) /\ stored[q.person] \in SUBSET Image
    BY <1>0, OnTheWay DEF IInv, TypeOK, Collects, Idle
  <1>2. PICK p \in Person, found \in SUBSET Image : p = q.person /\ found = stored[p]
    BY <1>1
  <1> DEFINE state == [pc |-> "put", person |-> p, enroll |-> q.enroll,
                       name |-> q.name, images |-> found]
  <1>3. Local(p) /\ person'[p] # Nobody
    BY <1>1, <1>2 DEF Local, Exists
  <1>4. Faithful(p)' <=> Faithful(p)
    BY DEF Faithful, Shown, Exists
  <1>5. r \in alone =>
          /\ person[p].active /\ q.name = person[p].name
          /\ q.enroll => stored[p] # {}
          /\ ~q.enroll => p \in torn \/ p \notin DOMAIN gallery \/ Faithful(p)
    BY <1>0, <1>1, <1>2, OnTheWay DEF Knows, Collects
  <1>6. CASE found = {}
    <2>1. End(r, FALSE, FALSE, FALSE) /\ loop' = loop \ {r}
      BY <1>0, <1>2, <1>6
    <2>2. TypeOK'
      BY <1>0, <1>1, <2>1, BookTypes DEF IInv, TypeOK
    <2>3. r \in alone => p \in torn \/ Faithful(p)'
      BY <1>0, <1>2, <1>4, <1>5, <1>6 DEF Collects, Faithful, Shown
    <2> QED
      BY <1>0, <1>1, <1>2, <1>3, <1>6, <2>1, <2>2, <2>3, EndStep
  <1>7. CASE found # {}
    <2>1. Continue(r, state) /\ loop' = loop
      BY <1>0, <1>2, <1>7
    <2>2. state \in Requests /\ state # Idle /\ state.person = p
      BY <1>0, <1>1 DEF Requests, Collects, Puts, Idle
    <2>3. TypeOK'
      BY <2>1, <2>2, BookTypes DEF IInv, TypeOK
    <2>4. ASSUME r \in alone PROVE Knows(r)'
      <3>1. req'[r] = state /\ torn' = torn
        BY <2>1 DEF Continue, history, IInv, TypeOK
      <3> QED
        BY <3>1, <2>4, <1>2, <1>4, <1>5, <1>7 DEF Knows
    <2> QED
      BY <1>0, <1>1, <1>2, <1>3, <2>1, <2>2, <2>3, <2>4, ContinueStep
         DEF IInv, InactiveKeepNothing
  <1> QED
    BY <1>6, <1>7

LEMMA PutKeeps ==
    ASSUME IInv, NEW r \in Req, Put(r)
    PROVE  IInv'
  <1> USE DEF Put, tables
  <1>0. PICK q \in Puts : req[r] = q
    BY RequestTypes DEF IInv, TypeOK
  <1> DEFINE p == q.person
             entry == [name |-> q.name, images |-> q.images]
  <1>1. q # Idle /\ p \in Person /\ Exists(p) /\ q.enroll \in BOOLEAN /\ entry \in Entry
    BY <1>0, OnTheWay DEF Puts, Idle, Entry
  <1>2. /\ DOMAIN gallery' = DOMAIN gallery \cup {p}
        /\ gallery' \in [DOMAIN gallery' -> Entry]
        /\ gallery'[p] = entry
        /\ \A x \in DOMAIN gallery \ {p} : gallery'[x] = gallery[x]
    <2>1. gallery' = With(p, entry)
      BY <1>0
    <2>2. /\ DOMAIN With(p, entry) = DOMAIN gallery \cup {p}
          /\ With(p, entry) \in [DOMAIN With(p, entry) -> Entry]
          /\ With(p, entry)[p] = entry
          /\ \A x \in DOMAIN gallery \ {p} : With(p, entry)[x] = gallery[x]
      <3> HIDE DEF entry
      <3> QED
        BY <1>1, GalleryTypes DEF IInv
    <2> QED
      BY <2>1, <2>2
  <1>3. TypeOK'
    BY <1>0, <1>1, <1>2, BookTypes DEF IInv, TypeOK
  <1>4. Local(p) /\ person'[p] # Nobody
    BY <1>1, <1>2 DEF Local, Exists
  <1>5. r \in alone => Faithful(p)' /\ person[p].active
    BY <1>0, <1>1, <1>2, OnTheWay DEF Knows, Faithful, Shown, Exists
  <1>6. ~person'[p].active => stored'[p] = {} \/ p \in kept
    BY <1>0, <1>1, <1>5, OnTheWay
  <1> QED
    BY <1>0, <1>1, <1>3, <1>4, <1>5, <1>6, EndStep

----------------------------------------------------------------------------
LEMMA NextIInv == IInv /\ [Next]_vars => IInv'
  <1> SUFFICES ASSUME IInv, [Next]_vars PROVE IInv'
    OBVIOUS
  <1>1. CASE Restart
    BY <1>1, RestartKeeps
  <1>2. ASSUME NEW p \in Person, NEW n \in Name, Create(p, n) PROVE IInv'
    BY <1>2, CreateKeeps
  <1>3. ASSUME NEW r \in Req, Arrive(r) PROVE IInv'
    BY <1>3, UpdateLoadKeeps, DeactivateLoadKeeps, ReactivateLoadKeeps, EnrollLoadKeeps
       DEF Arrive
  <1>4. ASSUME NEW r \in Req, Proceed(r) PROVE IInv'
    BY <1>4, UpdateGalleryKeeps, UpdateCommitKeeps, UpdateConflictKeeps,
       DeactivateSelectKeeps, DeactivateCommitKeeps, DeactivateForgetKeeps, ReactivateCommitKeeps,
       EnrollAbortKeeps, EnrollCommitKeeps, ReloadKeeps, CollectKeeps, PutKeeps
       DEF Proceed
  <1>5. CASE UNCHANGED vars
    <2> USE <1>5 DEF vars, tables, history
    <2>1. TypeOK' /\ Known' /\ Blank'
      BY DEF IInv, TypeOK, Known, Blank, Exists
    <2>2. Apart' /\ Spoiled'
      BY DEF IInv, Apart, Spoiled, Others
    <2>3. \A r \in alone' : Knows(r)'
      BY DEF IInv, Knows, Faithful, Shown, Exists
    <2>4. QuietIsFaithful' /\ InactiveKeepNothing'
      BY DEF IInv, QuietIsFaithful, InactiveKeepNothing, Quiet, Faithful, Shown, Exists
    <2> QED
      BY <2>1, <2>2, <2>3, <2>4 DEF IInv
  <1> QED
    BY <1>1, <1>2, <1>3, <1>4, <1>5 DEF Next

LEMMA Invariance == Spec => []IInv
  <1> QED
    BY InitIInv, NextIInv, PTL DEF Spec

\* Every variable of the handlers in persons.py stays in its type.
THEOREM TypeCorrect == Spec => []TypeOK
  <1>1. IInv => TypeOK
    BY DEF IInv
  <1> QED
    BY <1>1, Invariance, PTL

\* Whatever the interleaving, the gallery of a quiet person agrees with the
\* tables unless requests on that person overlapped or a rename was refused.
THEOREM QuietIsFaithfulCorrect == Spec => []QuietIsFaithful
  <1>1. IInv => QuietIsFaithful
    BY DEF IInv
  <1> QED
    BY <1>1, Invariance, PTL

\* Deactivation leaves no biometric data unless requests overlapped.
THEOREM InactiveKeepNothingCorrect == Spec => []InactiveKeepNothing
  <1>1. IInv => InactiveKeepNothing
    BY DEF IInv
  <1> QED
    BY <1>1, Invariance, PTL
============================================================================
