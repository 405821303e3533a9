---------------------------- MODULE FaceGallery ----------------------------
(***************************************************************************)
(* The in-memory index of enrolled faces: backend/app/gallery/index.py.    *)
(*                                                                         *)
(* One FaceGallery object serves the process.  Its rows live in parallel   *)
(* containers: row i of _matrix is the centroid of person_ids[i] of        *)
(* org_ids[i], and names is a dict by (org, person).  The object has no    *)
(* lock.  Its callers are coroutines on the event loop (enroll, check-in,  *)
(* kiosk, identify, verify) and plain handlers in worker threads           *)
(* (deactivate, reactivate, rename), so a method is modelled as one step   *)
(* per container it reads or assigns.                                      *)
(*                                                                         *)
(* Abstracted: a centroid is the person it was computed from and a version;*)
(* the ranking by similarity is any order; counts changes together with    *)
(* names; the optional FAISS index mirrors _matrix and is never searched.  *)
(***************************************************************************)
EXTENDS Naturals, Sequences, FiniteSets

CONSTANTS
    Org, Pid,      \* organizations and person numbers
    Version,       \* versions of a person's centroid
    Name,
    Slot,          \* calls that can be in progress at once
    TopK           \* top_k of search

ASSUME TopKAssumption == TopK \in Nat \ {0}

VARIABLES
    matrix,        \* _matrix, as a sequence of centroids
    pids, orgs,    \* person_ids and org_ids
    names,         \* names: a function on the keys it holds
    call,          \* the calls in progress
    raised,        \* history: some call ended in an exception
    wanted         \* history: what the completed calls asked for, by key

index == <<matrix, pids, orgs, names>>
vars == <<index, call, raised, wanted>>

Key == Org \X Pid
ASSUME KeyAssumption == IsFiniteSet(Key)
Entry == [ver : Version, name : Name]

Idle == [pc |-> "idle"]
\* A removal or insertion in progress has in keep the row numbers that stay and
\* in put the entry add_person still has to insert, or none.

----------------------------------------------------------------------------
Goto(s, pc) == call' = [call EXCEPT ![s].pc = pc]
Return(s) == call' = [call EXCEPT ![s] = Idle]

\* An exception: the request answers 500, whatever was changed stays.
Raise(s) == /\ Return(s)
            /\ raised' = TRUE
            /\ UNCHANGED <<index, wanted>>

\* A list or row number out of range is an IndexError.
Holds(list, numbers) == \A i \in DOMAIN numbers : numbers[i] <= Len(list)

Kept(list, numbers) == [i \in DOMAIN numbers |-> list[numbers[i]]]

\* Faulty variants, here and below, show that the properties can fail.  Here:
\* one row number too many.
AllButOver(loc) == [i \in 1 .. Len(pids) |-> IF i < loc THEN i ELSE i + 1]

\* The row numbers that stay when row loc goes.
AllBut(loc) == [i \in 1 .. Len(pids) - 1 |-> IF i < loc THEN i ELSE i + 1]

\* _slot: the first row of key k in the zipped lists.
Rows(k) == {i \in DOMAIN pids \cap DOMAIN orgs : <<orgs[i], pids[i]>> = k}
First(S) == {i \in S : \A j \in S : i <= j}

\* Without a hit, zip(strict=True) raises when the lists differ in length.
SlotRaises(k) == Rows(k) = {} /\ Len(pids) # Len(orgs)

----------------------------------------------------------------------------
(* remove_person, and add_person, which begins with it.                    *)

Edit(s, k, put) ==
    /\ call[s] = Idle
    /\ \/ SlotRaises(k) /\ Raise(s)
       \/ /\ \E loc \in First(Rows(k)) :
               call' = [call EXCEPT ![s] = [pc |-> "cut_matrix", key |-> k,
                                            keep |-> AllBut(loc), put |-> put]]
          /\ UNCHANGED <<index, raised, wanted>>
       \/ /\ Rows(k) = {} /\ ~SlotRaises(k)
          /\ call' = [call EXCEPT ![s] =
                        IF put = {} THEN Idle
                        ELSE [pc |-> "grow_matrix", key |-> k, keep |-> <<>>, put |-> put]]
          /\ UNCHANGED <<index, raised, wanted>>

RemovePerson(s, k) == Edit(s, k, {})
AddPerson(s, k, e) == Edit(s, k, {e})

CutMatrix(s) ==
    /\ call[s].pc = "cut_matrix"
    /\ IF Holds(matrix, call[s].keep)
       THEN /\ matrix' = Kept(matrix, call[s].keep)
            /\ Goto(s, "cut_pids")
            /\ UNCHANGED <<pids, orgs, names, raised, wanted>>
       ELSE Raise(s)

CutPids(s) ==
    /\ call[s].pc = "cut_pids"
    /\ IF Holds(pids, call[s].keep)
       THEN /\ pids' = Kept(pids, call[s].keep)
            /\ Goto(s, "cut_orgs")
            /\ UNCHANGED <<matrix, orgs, names, raised, wanted>>
       ELSE Raise(s)

\* Faulty: org_ids keeps the row.
CutOrgsNothing(s) ==
    /\ call[s].pc = "cut_orgs"
    /\ Goto(s, "cut_names")
    /\ UNCHANGED <<matrix, pids, orgs, names, raised, wanted>>

CutOrgs(s) ==
    /\ call[s].pc = "cut_orgs"
    /\ IF Holds(orgs, call[s].keep)
       THEN /\ orgs' = Kept(orgs, call[s].keep)
            /\ Goto(s, "cut_names")
            /\ UNCHANGED <<matrix, pids, names, raised, wanted>>
       ELSE Raise(s)

Without(f, k) == [x \in DOMAIN f \ {k} |-> f[x]]
With(f, k, v) == [x \in DOMAIN f \cup {k} |-> IF x = k THEN v ELSE f[x]]

\* Faulty: the name stays behind.
CutNamesNothing(s) ==
    /\ call[s].pc = "cut_names"
    /\ IF call[s].put = {} THEN Return(s) ELSE Goto(s, "grow_matrix")
    /\ wanted' = Without(wanted, call[s].key)
    /\ UNCHANGED <<matrix, pids, orgs, names, raised>>

CutNames(s) ==
    /\ call[s].pc = "cut_names"
    /\ names' = Without(names, call[s].key)
    /\ IF call[s].put = {} THEN Return(s) ELSE Goto(s, "grow_matrix")
    /\ wanted' = Without(wanted, call[s].key)
    /\ UNCHANGED <<matrix, pids, orgs, raised>>

GrowMatrix(s) ==
    /\ call[s].pc = "grow_matrix"
    /\ \E e \in call[s].put :
         matrix' = Append(matrix, [key |-> call[s].key, ver |-> e.ver])
    /\ Goto(s, "grow_pids")
    /\ UNCHANGED <<pids, orgs, names, raised, wanted>>

GrowPids(s) ==
    /\ call[s].pc = "grow_pids"
    /\ pids' = Append(pids, call[s].key[2])
    /\ Goto(s, "grow_orgs")
    /\ UNCHANGED <<matrix, orgs, names, raised, wanted>>

GrowOrgs(s) ==
    /\ call[s].pc = "grow_orgs"
    /\ orgs' = Append(orgs, call[s].key[1])
    /\ Goto(s, "grow_names")
    /\ UNCHANGED <<matrix, pids, names, raised, wanted>>

GrowNames(s) ==
    LET k == call[s].key IN
    /\ call[s].pc = "grow_names"
    /\ \E e \in call[s].put : /\ names' = With(names, k, e.name)
                              /\ wanted' = With(wanted, k, e)
    /\ Return(s)
    /\ UNCHANGED <<matrix, pids, orgs, raised>>

\* set_name: only a key that is there is renamed.
SetName(s, k, n) ==
    /\ call[s] = Idle
    /\ k \in DOMAIN names
    /\ names' = [names EXCEPT ![k] = n]
    /\ wanted' = IF k \in DOMAIN wanted THEN [wanted EXCEPT ![k].name = n] ELSE wanted
    /\ UNCHANGED <<matrix, pids, orgs, call, raised>>

----------------------------------------------------------------------------
(* search: the scores are computed from one version of _matrix, the lists  *)
(* are read afterwards, row by row in any order.                           *)

SearchStart(s, org, allowed) ==
    /\ call[s] = Idle
    /\ Len(pids) > 0
    /\ call' = [call EXCEPT ![s] = [pc |-> "search", org |-> org,
                                    allowed |-> allowed, shot |-> matrix,
                                    left |-> DOMAIN matrix, found |-> <<>>]]
    /\ UNCHANGED <<index, raised, wanted>>

NameOf(k) == IF k \in DOMAIN names THEN names[k] ELSE "#"

\* Faulty: rows of every organization are hits.
SearchRowAnyOrg(s, i) ==
    LET q == call[s]
        k == <<orgs[i], pids[i]>>
        hit == [centroid |-> q.shot[i], key |-> k, name |-> NameOf(k)]
    IN /\ q.pc = "search"
       /\ i \in q.left
       /\ Len(q.found) < TopK
       /\ IF i \in DOMAIN pids \cap DOMAIN orgs
          THEN /\ call' = [call EXCEPT
                    ![s].left = @ \ {i},
                    ![s].found = IF k[2] \in q.allowed THEN Append(@, hit) ELSE @]
               /\ UNCHANGED <<index, raised, wanted>>
          ELSE Raise(s)

SearchRow(s, i) ==
    LET q == call[s]
        k == <<orgs[i], pids[i]>>
        hit == [centroid |-> q.shot[i], key |-> k, name |-> NameOf(k)]
    IN /\ q.pc = "search"
       /\ i \in q.left
       /\ Len(q.found) < TopK
       /\ IF i \in DOMAIN pids \cap DOMAIN orgs
          THEN /\ call' = [call EXCEPT
                    ![s].left = @ \ {i},
                    ![s].found = IF k[1] = q.org /\ k[2] \in q.allowed
                                 THEN Append(@, hit) ELSE @]
               /\ UNCHANGED <<index, raised, wanted>>
          ELSE Raise(s)

SearchReturn(s) ==
    /\ call[s].pc = "search"
    /\ call[s].left = {} \/ Len(call[s].found) = TopK
    /\ Return(s)
    /\ UNCHANGED <<index, raised, wanted>>

\* embedding_of: the row number is settled first, the row copied after it.
Probe(s, k) ==
    /\ call[s] = Idle
    /\ \/ SlotRaises(k) /\ Raise(s)
       \/ /\ \E loc \in First(Rows(k)) :
               call' = [call EXCEPT ![s] = [pc |-> "probe", key |-> k, row |-> loc]]
          /\ UNCHANGED <<index, raised, wanted>>

ProbeRead(s) ==
    LET q == call[s] IN
    /\ q.pc = "probe"
    /\ IF q.row \in DOMAIN matrix
       THEN /\ call' = [call EXCEPT ![s] = [pc |-> "probed", key |-> q.key,
                                            centroid |-> matrix[q.row]]]
            /\ UNCHANGED <<index, raised, wanted>>
       ELSE Raise(s)

ProbeReturn(s) ==
    /\ call[s].pc = "probed"
    /\ Return(s)
    /\ UNCHANGED <<index, raised, wanted>>

----------------------------------------------------------------------------
\* A process starts with clear() and rebuild(), before any request: one row
\* per active person that has stored images, in the order of the query.
Init ==
    /\ \E keys \in SUBSET Key :
         \E order \in [1 .. Cardinality(keys) -> keys] :
           /\ \A k \in keys : \E i \in DOMAIN order : order[i] = k
           /\ wanted \in [keys -> Entry]
           /\ matrix = [i \in DOMAIN order |-> [key |-> order[i], ver |-> wanted[order[i]].ver]]
           /\ pids = [i \in DOMAIN order |-> order[i][2]]
           /\ orgs = [i \in DOMAIN order |-> order[i][1]]
           /\ names = [k \in keys |-> wanted[k].name]
    /\ call = [s \in Slot |-> Idle]
    /\ raised = FALSE

EditStep(s) ==
    \/ CutMatrix(s) \/ CutPids(s) \/ CutOrgs(s) \/ CutNames(s)
    \/ GrowMatrix(s) \/ GrowPids(s) \/ GrowOrgs(s) \/ GrowNames(s)
    \/ \E k \in Key : \/ RemovePerson(s, k)
                      \/ \E e \in Entry : AddPerson(s, k, e)
                      \/ \E n \in Name : SetName(s, k, n)

ReadStep(s) ==
    \/ \E org \in Org, allowed \in SUBSET Pid : SearchStart(s, org, allowed)
    \/ call[s].pc = "search" /\ \E i \in call[s].left : SearchRow(s, i)
    \/ SearchReturn(s)
    \/ \E k \in Key : Probe(s, k)
    \/ ProbeRead(s)
    \/ ProbeReturn(s)

Next == \E s \in Slot : EditStep(s) \/ ReadStep(s)

Spec == Init /\ [][Next]_vars

----------------------------------------------------------------------------
(* Properties.                                                             *)

\* Between calls the parallel containers say together exactly what the calls
\* so far asked for: one row per key, the last centroid, the last name.
Quiet == \A s \in Slot : call[s].pc \in {"idle", "search", "probe", "probed"}

QuietIsFaithful ==
    Quiet =>
      /\ Len(matrix) = Len(pids) /\ Len(pids) = Len(orgs)
      /\ {<<orgs[i], pids[i]>> : i \in DOMAIN pids} = DOMAIN wanted
      /\ DOMAIN names = DOMAIN wanted
      /\ \A i, j \in DOMAIN pids :
           LET k == <<orgs[i], pids[i]>> IN
           /\ k = <<orgs[j], pids[j]>> => i = j
           /\ matrix[i] = [key |-> k, ver |-> wanted[k].ver]
           /\ names[k] = wanted[k].name

\* "Search is a NumPy matmul (thread-safe under FastAPI)" (the module
\* docstring): a reader that asks for a key, or is told of one, is given that
\* key's own centroid.
ReadersGetTheirFace ==
    \A s \in Slot :
      /\ call[s].pc = "search" =>
           \A n \in DOMAIN call[s].found : call[s].found[n].centroid.key = call[s].found[n].key
      /\ call[s].pc = "probed" => call[s].centroid.key = call[s].key

\* No call ever runs out of a list another step has shortened.
CallsNeverRaise == ~raised

\* A search that ran through all rows found every allowed person of the
\* organization with the current name, once, and nobody else.
SearchIsComplete ==
    \A s \in Slot :
      LET q == call[s] IN
      q.pc = "search" /\ q.left = {} /\ Len(q.found) < TopK =>
        /\ {q.found[n].key : n \in DOMAIN q.found}
             = {k \in DOMAIN wanted : k[1] = q.org /\ k[2] \in q.allowed}
        /\ \A n \in DOMAIN q.found : q.found[n].name = wanted[q.found[n].key].name
        /\ \A m, n \in DOMAIN q.found : q.found[m].key = q.found[n].key => m = n
============================================================================
