-------------------------- MODULE FaceGalleryProofs --------------------------
(***************************************************************************)
(* The properties of FaceGallery when calls do not overlap, for any number *)
(* of organizations, people, versions and names.                           *)
(***************************************************************************)
EXTENDS FaceGallery, FiniteSetTheorems, TLAPS

Alone == \E s : Slot = {s}

Row == [key : Key, ver : Version]
Hit == [centroid : Row, key : Key, name : Name]

Cutting == {"cut_matrix", "cut_pids", "cut_orgs", "cut_names"}
Growing == {"grow_matrix", "grow_pids", "grow_orgs", "grow_names"}
Reading == {"idle", "search", "probe", "probed"}

EditCall == [pc : Cutting \cup Growing, key : Key, keep : Seq(Nat), put : SUBSET Entry]
SearchCall == [pc : {"search"}, org : Org, allowed : SUBSET Pid, shot : Seq(Row),
               left : SUBSET Nat, found : Seq(Hit)]
ProbeCall == [pc : {"probe"}, key : Key, row : Nat]
ProbedCall == [pc : {"probed"}, key : Key, centroid : Row]

Call == {Idle} \cup EditCall \cup SearchCall \cup ProbeCall \cup ProbedCall

Typed ==
    /\ matrix \in Seq(Row) /\ pids \in Seq(Pid) /\ orgs \in Seq(Org)
    /\ DOMAIN wanted \subseteq Key /\ \A k \in DOMAIN wanted : wanted[k] \in Entry
    /\ call \in [Slot -> Call]

----------------------------------------------------------------------------
(* The containers, each measured by the matrix.                            *)

\* The rows of m are one for each key of want, of the version it has there.
Faces(m, want) ==
    /\ \A i \in DOMAIN m : m[i].key \in DOMAIN want /\ m[i].ver = want[m[i].key].ver
    /\ \A i, j \in DOMAIN m : m[i].key = m[j].key => i = j
    /\ \A k \in DOMAIN want : \E i \in DOMAIN m : m[i].key = k

\* A list has the first n rows of the matrix, or all of them and the row that
\* is to go.
PidsTo(n) == Len(pids) = n /\ \A i \in 1 .. n : pids[i] = matrix[i].key[2]
OrgsTo(n) == Len(orgs) = n /\ \A i \in 1 .. n : orgs[i] = matrix[i].key[1]
PidsWith(keep) == Len(pids) = Len(matrix) + 1 /\ \A i \in DOMAIN matrix : pids[keep[i]] = matrix[i].key[2]
OrgsWith(keep) == Len(orgs) = Len(matrix) + 1 /\ \A i \in DOMAIN matrix : orgs[keep[i]] = matrix[i].key[1]

Named == DOMAIN names = DOMAIN wanted /\ \A k \in DOMAIN wanted : names[k] = wanted[k].name

Parallel == Faces(matrix, wanted) /\ PidsTo(Len(matrix)) /\ OrgsTo(Len(matrix))

\* keep are the row numbers of a list of n but one, in their order.
Skips(keep, n) ==
    /\ Len(keep) = n - 1
    /\ \A i \in DOMAIN keep : keep[i] \in 1 .. n

Others(n, loc) == [i \in 1 .. n - 1 |-> IF i < loc THEN i ELSE i + 1]

\* What a removal knows at each of its steps, and an insertion.
Cut(q) ==
    /\ q.put = {} \/ \E e \in Entry : q.put = {e}
    /\ q.pc = "cut_matrix" => /\ Parallel
                              /\ \E loc \in DOMAIN matrix :
                                   /\ matrix[loc].key = q.key
                                   /\ q.keep = Others(Len(matrix), loc)
    /\ q.pc # "cut_matrix" => /\ Faces(matrix, Without(wanted, q.key))
                              /\ Skips(q.keep, Len(matrix) + 1)
    /\ q.pc = "cut_pids" => PidsWith(q.keep) /\ OrgsWith(q.keep)
    /\ q.pc = "cut_orgs" => PidsTo(Len(matrix)) /\ OrgsWith(q.keep)
    /\ q.pc = "cut_names" => PidsTo(Len(matrix)) /\ OrgsTo(Len(matrix))

Grow(q) ==
    \E e \in Entry :
      /\ q.put = {e}
      /\ q.pc = "grow_matrix" => Parallel /\ q.key \notin DOMAIN wanted
      /\ q.pc # "grow_matrix" => Len(matrix) > 0 /\ Faces(matrix, With(wanted, q.key, e))
                                   /\ matrix[Len(matrix)].key = q.key
      /\ q.pc = "grow_pids" => PidsTo(Len(matrix) - 1) /\ OrgsTo(Len(matrix) - 1)
      /\ q.pc = "grow_orgs" => PidsTo(Len(matrix)) /\ OrgsTo(Len(matrix) - 1)
      /\ q.pc = "grow_names" => PidsTo(Len(matrix)) /\ OrgsTo(Len(matrix))

\* What a search has seen: the rows it is through with, each once.
Asked(q, k) == k[1] = q.org /\ k[2] \in q.allowed

Search(q) ==
    /\ q.shot = matrix /\ q.left \subseteq DOMAIN matrix
    /\ \A n \in DOMAIN q.found :
         /\ q.found[n].centroid.key = q.found[n].key
         /\ Asked(q, q.found[n].key)
         /\ q.found[n].name = wanted[q.found[n].key].name
         /\ \E i \in DOMAIN matrix \ q.left : matrix[i].key = q.found[n].key
    /\ \A m, n \in DOMAIN q.found : q.found[m].key = q.found[n].key => m = n
    /\ \A i \in DOMAIN matrix \ q.left :
         Asked(q, matrix[i].key) => \E n \in DOMAIN q.found : q.found[n].key = matrix[i].key

Probing(q) == q.row \in DOMAIN matrix /\ matrix[q.row].key = q.key

Knows(q) ==
    /\ q.pc \in Reading => Parallel
    /\ q.pc \in Cutting => Cut(q)
    /\ q.pc \in Growing => Grow(q)
    /\ q.pc = "search" => Search(q)
    /\ q.pc = "probe" => Probing(q)
    /\ q.pc = "probed" => q.centroid.key = q.key

IInv ==
    /\ Typed /\ Named /\ ~raised
    /\ \A s \in Slot : Knows(call[s])

----------------------------------------------------------------------------
(* Lists.                                                                  *)

LEMMA SkipsOne ==
    ASSUME NEW n \in Nat, NEW loc \in 1 .. n
    PROVE  /\ Others(n, loc) \in Seq(Nat) /\ Skips(Others(n, loc), n)
           /\ \A i \in DOMAIN Others(n, loc) : Others(n, loc)[i] # loc
           /\ \A i, j \in DOMAIN Others(n, loc) : Others(n, loc)[i] = Others(n, loc)[j] => i = j
           /\ \A i \in 1 .. n : i # loc => \E j \in DOMAIN Others(n, loc) : Others(n, loc)[j] = i
<1> DEFINE keep == Others(n, loc)
<1>1. n - 1 \in Nat /\ DOMAIN keep = 1 .. n - 1
    BY DEF Others
<1>2. \A i \in 1 .. n - 1 : keep[i] \in 1 .. n /\ keep[i] = IF i < loc THEN i ELSE i + 1
    BY DEF Others
<1>3. keep \in Seq(Nat) /\ Len(keep) = n - 1
  <2>1. \A i \in 1 .. n - 1 : (IF i < loc THEN i ELSE i + 1) \in Nat
      OBVIOUS
  <2> QED
      BY <1>1, <2>1 DEF Others
<1>4. \A i \in 1 .. n : i # loc => \E j \in DOMAIN keep : keep[j] = i
  <2> SUFFICES ASSUME NEW i \in 1 .. n, i # loc PROVE \E j \in DOMAIN keep : keep[j] = i
      OBVIOUS
  <2>1. CASE i < loc
    <3>1. i \in 1 .. n - 1 /\ keep[i] = i
        BY <2>1, <1>2
    <3> QED
        BY <3>1, <1>1
  <2>2. CASE i > loc
    <3>1. i - 1 \in 1 .. n - 1 /\ keep[i - 1] = i
        BY <2>2, <1>2
    <3> QED
        BY <3>1, <1>1
  <2> QED
      BY <2>1, <2>2
<1>5. \A i \in DOMAIN keep : keep[i] # loc
    BY <1>1, <1>2
<1>6. \A i, j \in DOMAIN keep : keep[i] = keep[j] => i = j
    BY <1>1, <1>2
<1> QED
    BY <1>1, <1>2, <1>3, <1>4, <1>5, <1>6 DEF Skips, Others

LEMMA KeptList ==
    ASSUME NEW S, NEW list \in Seq(S), NEW keep \in Seq(Nat), Skips(keep, Len(list))
    PROVE  /\ Holds(list, keep)
           /\ Kept(list, keep) \in Seq(S)
           /\ Len(Kept(list, keep)) = Len(list) - 1
           /\ \A i \in DOMAIN keep : Kept(list, keep)[i] = list[keep[i]]
<1>1. Len(list) \in Nat /\ DOMAIN keep = 1 .. Len(keep) /\ Len(keep) \in Nat
    OBVIOUS
<1>2. \A i \in 1 .. Len(keep) : list[keep[i]] \in S
    BY <1>1 DEF Skips
<1>3. Kept(list, keep) = [i \in 1 .. Len(keep) |-> list[keep[i]]]
    BY <1>1 DEF Kept
<1>4. [i \in 1 .. Len(keep) |-> list[keep[i]]] \in Seq(S)
    BY <1>1, <1>2
<1>5. Kept(list, keep) \in Seq(S) /\ Len(Kept(list, keep)) = Len(keep)
    BY <1>1, <1>3, <1>4
<1>6. Holds(list, keep)
    BY <1>1 DEF Holds, Skips
<1> QED
    BY <1>1, <1>3, <1>5, <1>6 DEF Skips

LEMMA FacesCut ==
    ASSUME NEW m \in Seq(Row), NEW want, Faces(m, want), NEW loc \in DOMAIN m,
           NEW keep, keep = Others(Len(m), loc)
    PROVE  Faces(Kept(m, keep), Without(want, m[loc].key))
<1>1. /\ keep \in Seq(Nat) /\ Skips(keep, Len(m))
      /\ \A i \in DOMAIN keep : keep[i] # loc
      /\ \A i, j \in DOMAIN keep : keep[i] = keep[j] => i = j
      /\ \A i \in 1 .. Len(m) : i # loc => \E j \in DOMAIN keep : keep[j] = i
  <2> DEFINE l == Len(m)
  <2>1. l \in Nat /\ loc \in 1 .. l /\ keep = Others(l, loc)
      OBVIOUS
  <2> HIDE DEF l
  <2>2. Others(l, loc) \in Seq(Nat) /\ Skips(Others(l, loc), l)
      BY <2>1, SkipsOne
  <2>3. \A i \in DOMAIN Others(l, loc) : Others(l, loc)[i] # loc
      BY <2>1, SkipsOne
  <2>4. \A i, j \in DOMAIN Others(l, loc) : Others(l, loc)[i] = Others(l, loc)[j] => i = j
      BY <2>1, SkipsOne
  <2>5. \A i \in 1 .. l : i # loc => \E j \in DOMAIN Others(l, loc) : Others(l, loc)[j] = i
      BY <2>1, SkipsOne
  <2>6. /\ keep \in Seq(Nat) /\ Skips(keep, l)
        /\ \A i \in DOMAIN keep : keep[i] # loc
        /\ \A i, j \in DOMAIN keep : keep[i] = keep[j] => i = j
        /\ \A i \in 1 .. l : i # loc => \E j \in DOMAIN keep : keep[j] = i
      BY <2>1, <2>2, <2>3, <2>4, <2>5
  <2> QED
      BY <2>6 DEF l
<1> DEFINE n == Kept(m, keep)
           less == Without(want, m[loc].key)
<1>2. /\ Len(m) \in Nat /\ loc \in 1 .. Len(m) /\ DOMAIN m = 1 .. Len(m)
    OBVIOUS
<1>3. /\ DOMAIN n = DOMAIN keep
      /\ \A i \in DOMAIN keep : n[i] = m[keep[i]] /\ keep[i] \in DOMAIN m
    BY <1>2, <1>1, KeptList DEF Kept, Skips
<1>4. /\ DOMAIN less = DOMAIN want \ {m[loc].key}
      /\ \A k \in DOMAIN less : less[k] = want[k]
    BY DEF Without
<1> HIDE DEF n, less
<1>5. ASSUME NEW i \in DOMAIN n PROVE n[i].key \in DOMAIN less /\ n[i].ver = less[n[i].key].ver
  <2>1. n[i] = m[keep[i]] /\ keep[i] \in DOMAIN m /\ keep[i] # loc
      BY <1>1, <1>3
  <2>2. m[keep[i]].key \in DOMAIN want /\ m[keep[i]].ver = want[m[keep[i]].key].ver
      BY <2>1 DEF Faces
  <2>3. m[keep[i]].key # m[loc].key
      BY <2>1 DEF Faces
  <2> QED
      BY <1>4, <2>1, <2>2, <2>3
<1>6. ASSUME NEW i \in DOMAIN n, NEW j \in DOMAIN n, n[i].key = n[j].key PROVE i = j
  <2>1. /\ i \in DOMAIN keep /\ n[i] = m[keep[i]] /\ keep[i] \in DOMAIN m
        /\ j \in DOMAIN keep /\ n[j] = m[keep[j]] /\ keep[j] \in DOMAIN m
      BY <1>3
  <2>2. keep[i] = keep[j]
      BY <1>6, <2>1 DEF Faces
  <2> QED
      BY <1>1, <2>1, <2>2
<1>7. ASSUME NEW k \in DOMAIN less PROVE \E i \in DOMAIN n : n[i].key = k
  <2>1. PICK i \in DOMAIN m : m[i].key = k
      BY <1>4 DEF Faces
  <2>2. PICK j \in DOMAIN keep : keep[j] = i
      BY <1>2, <1>1, <1>4, <2>1
  <2> QED
      BY <1>3, <2>1, <2>2
<1>8. Faces(n, less)
    BY <1>5, <1>6, <1>7 DEF Faces
<1> QED
    BY <1>8 DEF n, less

LEMMA FacesGrown ==
    ASSUME NEW m \in Seq(Row), NEW want, Faces(m, want), NEW k \in Key, k \notin DOMAIN want,
           NEW e \in Entry
    PROVE  Faces(Append(m, [key |-> k, ver |-> e.ver]), With(want, k, e))
<1> DEFINE r == [key |-> k, ver |-> e.ver]
           n == Append(m, r)
           more == With(want, k, e)
<1>1. /\ r \in Row /\ r.key = k /\ r.ver = e.ver
    BY DEF Row, Entry
<1> HIDE DEF r
<1>2. /\ Len(m) \in Nat /\ DOMAIN m = 1 .. Len(m) /\ DOMAIN n = 1 .. Len(m) + 1
      /\ \A i \in 1 .. Len(m) : n[i] = m[i]
      /\ n[Len(m) + 1] = r
    BY <1>1
<1>3. /\ DOMAIN more = DOMAIN want \cup {k} /\ more[k] = e
      /\ \A x \in DOMAIN want : more[x] = want[x]
    BY DEF With
<1> HIDE DEF n, more
<1>4. ASSUME NEW i \in DOMAIN n PROVE n[i].key \in DOMAIN more /\ n[i].ver = more[n[i].key].ver
  <2>1. CASE i \in 1 .. Len(m)
      BY <1>2, <1>3, <2>1 DEF Faces
  <2>2. CASE i = Len(m) + 1
      BY <1>1, <1>2, <1>3, <2>2
  <2> QED
      BY <1>2, <2>1, <2>2
<1>5. \A i \in 1 .. Len(m) : n[i].key # k
    BY <1>2 DEF Faces
<1>6. ASSUME NEW i \in DOMAIN n, NEW j \in DOMAIN n, n[i].key = n[j].key PROVE i = j
  <2>1. CASE i \in 1 .. Len(m) /\ j \in 1 .. Len(m)
      BY <1>2, <1>6, <2>1 DEF Faces
  <2>2. CASE i = Len(m) + 1
      BY <1>1, <1>2, <1>5, <1>6, <2>2
  <2>3. CASE j = Len(m) + 1
      BY <1>1, <1>2, <1>5, <1>6, <2>3
  <2> QED
      BY <1>2, <2>1, <2>2, <2>3
<1>7. ASSUME NEW x \in DOMAIN more PROVE \E i \in DOMAIN n : n[i].key = x
  <2>1. CASE x = k
    <3>1. Len(m) + 1 \in DOMAIN n
        BY <1>2
    <3> QED
        BY <1>1, <1>2, <2>1, <3>1
  <2>2. CASE x \in DOMAIN want
    <3>1. PICK i \in DOMAIN m : m[i].key = x
        BY <2>2 DEF Faces
    <3>2. i \in DOMAIN n /\ n[i] = m[i]
        BY <1>2
    <3> QED
        BY <3>1, <3>2
  <2> QED
      BY <1>3, <2>1, <2>2
<1>8. Faces(n, more)
    BY <1>4, <1>6, <1>7 DEF Faces
<1> QED
    BY <1>8 DEF r, n, more

\* The first row of a key is the only one.
LEMMA RowsAreFaces ==
    ASSUME Typed, Parallel
    PROVE  /\ DOMAIN pids = DOMAIN matrix /\ DOMAIN orgs = DOMAIN matrix
           /\ \A i \in DOMAIN matrix : <<orgs[i], pids[i]>> = matrix[i].key
           /\ \A k \in Key : Rows(k) = {i \in DOMAIN matrix : matrix[i].key = k}
           /\ \A k \in Key : ~SlotRaises(k)
<1>1. Len(matrix) \in Nat /\ DOMAIN matrix = 1 .. Len(matrix)
    BY DEF Typed
<1>2. DOMAIN pids = DOMAIN matrix /\ DOMAIN orgs = DOMAIN matrix /\ Len(pids) = Len(orgs)
    BY <1>1 DEF Typed, Parallel, PidsTo, OrgsTo
<1>3. ASSUME NEW i \in DOMAIN matrix PROVE <<orgs[i], pids[i]>> = matrix[i].key
  <2>1. matrix[i] \in Row
      BY DEF Typed
  <2>2. matrix[i].key \in Key
      BY <2>1 DEF Row
  <2>3. pids[i] = matrix[i].key[2] /\ orgs[i] = matrix[i].key[1]
      BY <1>1 DEF Parallel, PidsTo, OrgsTo
  <2> QED
      BY <2>2, <2>3 DEF Key
<1>4. ASSUME NEW k \in Key PROVE Rows(k) = {i \in DOMAIN matrix : matrix[i].key = k}
    BY <1>2, <1>3 DEF Rows
<1> QED
    BY <1>2, <1>3, <1>4 DEF SlotRaises

----------------------------------------------------------------------------
(* Calls.                                                                  *)

LEMMA KindsOfCall ==
    ASSUME Typed, NEW s \in Slot
    PROVE  /\ call[s] \in Call
           /\ call[s].pc \in Cutting \cup Growing => call[s] \in EditCall
           /\ call[s].pc = "search" => call[s] \in SearchCall
           /\ call[s].pc = "probe" => call[s] \in ProbeCall
           /\ call[s].pc = "probed" => call[s] \in ProbedCall
<1>1. call[s] \in Call
    BY DEF Typed
<1>2. /\ Idle.pc = "idle"
      /\ \A q \in EditCall : q.pc \in Cutting \cup Growing
      /\ \A q \in SearchCall : q.pc = "search"
      /\ \A q \in ProbeCall : q.pc = "probe"
      /\ \A q \in ProbedCall : q.pc = "probed"
    BY DEF Idle, EditCall, SearchCall, ProbeCall, ProbedCall
<1> QED
    BY <1>1, <1>2 DEF Call, Cutting, Growing

LEMMA SetCall ==
    ASSUME Typed, NEW s \in Slot, NEW q \in Call, call' = [call EXCEPT ![s] = q]
    PROVE  call'[s] = q /\ call' \in [Slot -> Call]
BY DEF Typed

LEMMA GotoStep ==
    ASSUME Typed, NEW s \in Slot, NEW pc \in Cutting \cup Growing, call[s] \in EditCall, Goto(s, pc)
    PROVE  /\ call'[s].pc = pc /\ call'[s].key = call[s].key
           /\ call'[s].keep = call[s].keep /\ call'[s].put = call[s].put
           /\ call' \in [Slot -> Call]
<1> DEFINE q == [call[s] EXCEPT !.pc = pc]
<1>1. /\ q.pc = pc /\ q.key = call[s].key /\ q.keep = call[s].keep /\ q.put = call[s].put
      /\ q \in EditCall
    BY DEF EditCall
<1> HIDE DEF q
<1>2. call' = [call EXCEPT ![s] = q]
    BY DEF Goto, q
<1>3. q \in Call
    BY <1>1 DEF Call
<1> QED
    BY <1>1, <1>2, <1>3, SetCall

LEMMA ReturnStep ==
    ASSUME Typed, NEW s \in Slot, Return(s)
    PROVE  call'[s] = Idle /\ call' \in [Slot -> Call]
BY SetCall DEF Return, Call

\* With one slot, what the call in it knows is all there is to show.
LEMMA Settled ==
    ASSUME Alone, NEW s \in Slot, Typed', Named', ~raised', Knows(call[s])'
    PROVE  IInv'
BY DEF Alone, IInv

LEMMA IdleKnows ==
    ASSUME NEW s \in Slot, call[s] = Idle, Parallel
    PROVE  Knows(call[s])
BY DEF Knows, Idle, Cutting, Growing

----------------------------------------------------------------------------
(* A removal.                                                              *)

LEMMA CutMatrixHolds ==
    ASSUME Alone, IInv, NEW s \in Slot, CutMatrix(s)
    PROVE  IInv'
<1> DEFINE k == call[s].key
           keep == call[s].keep
<1> USE DEF IInv
<1>1. call[s] \in EditCall /\ Cut(call[s]) /\ Parallel /\ call[s].pc = "cut_matrix"
    BY KindsOfCall DEF CutMatrix, Knows, Cutting, Cut
<1>2. PICK loc \in DOMAIN matrix : matrix[loc].key = k /\ keep = Others(Len(matrix), loc)
    BY <1>1 DEF Cut
<1>3. /\ matrix \in Seq(Row) /\ Len(matrix) \in Nat /\ DOMAIN matrix = 1 .. Len(matrix)
      /\ loc \in 1 .. Len(matrix)
    BY DEF Typed
<1>4. keep \in Seq(Nat) /\ Skips(keep, Len(matrix))
  <2>1. Others(Len(matrix), loc) \in Seq(Nat) /\ Skips(Others(Len(matrix), loc), Len(matrix))
      BY <1>3, SkipsOne
  <2> QED
      BY <1>2, <2>1
<1>5. /\ Holds(matrix, keep) /\ Kept(matrix, keep) \in Seq(Row)
      /\ Len(Kept(matrix, keep)) = Len(matrix) - 1
      /\ \A i \in DOMAIN keep : Kept(matrix, keep)[i] = matrix[keep[i]]
    BY <1>3, <1>4, KeptList
<1>6. /\ matrix' = Kept(matrix, keep) /\ Goto(s, "cut_pids")
      /\ UNCHANGED <<pids, orgs, names, raised, wanted>>
    BY <1>5 DEF CutMatrix
<1>7. /\ call'[s].pc = "cut_pids" /\ call'[s].key = k /\ call'[s].keep = keep
      /\ call'[s].put = call[s].put /\ call' \in [Slot -> Call]
  <2>1. "cut_pids" \in Cutting \cup Growing
      BY DEF Cutting
  <2> QED
      BY <1>1, <1>6, <2>1, GotoStep
<1>8. Typed' /\ Named' /\ ~raised'
    BY <1>5, <1>6, <1>7 DEF Typed, Named
<1>9. Faces(matrix, Without(wanted, k))'
  <2>1. Faces(Kept(matrix, keep), Without(wanted, matrix[loc].key))
      BY <1>1, <1>2, <1>3, FacesCut DEF Parallel
  <2> QED
      BY <1>2, <1>6, <1>7, <2>1 DEF Faces, Without
<1>10. Len(matrix') \in Nat /\ Len(matrix') + 1 = Len(matrix) /\ Skips(keep, Len(matrix') + 1)
  <2>1. Len(matrix') = Len(matrix) - 1
      BY <1>5, <1>6
  <2>2. Len(keep) = Len(matrix) - 1 /\ Len(keep) \in Nat
      BY <1>4 DEF Skips
  <2>3. Len(matrix') \in Nat /\ Len(matrix') + 1 = Len(matrix)
    <3> DEFINE a == Len(matrix)
               b == Len(matrix')
    <3>1. a \in Nat /\ b = a - 1 /\ a - 1 \in Nat
        BY <1>3, <2>1, <2>2
    <3> HIDE DEF a, b
    <3>2. b \in Nat /\ b + 1 = a
        BY <3>1
    <3> QED
        BY <3>2 DEF a, b
  <2> QED
      BY <1>4, <2>3
<1>11. (PidsWith(keep) /\ OrgsWith(keep))'
  <2>1. Len(matrix') \in Nat /\ Len(matrix) = Len(matrix') + 1 /\ DOMAIN matrix' = DOMAIN keep
      BY <1>6, <1>10 DEF Kept
  <2>2. \A i \in DOMAIN keep : matrix'[i] = matrix[keep[i]] /\ keep[i] \in 1 .. Len(matrix)
      BY <1>4, <1>5, <1>6 DEF Skips
  <2> QED
      BY <1>1, <1>6, <1>7, <2>1, <2>2 DEF PidsWith, OrgsWith, Parallel, PidsTo, OrgsTo
<1>12. Knows(call[s])'
    BY <1>1, <1>7, <1>9, <1>10, <1>11 DEF Knows, Cut, Reading, Growing
<1> QED
    BY <1>8, <1>12, Settled

LEMMA CutPidsHolds ==
    ASSUME Alone, IInv, NEW s \in Slot, CutPids(s)
    PROVE  IInv'
<1> DEFINE keep == call[s].keep
<1> USE DEF IInv
<1>1. call[s] \in EditCall /\ Cut(call[s]) /\ call[s].pc = "cut_pids"
    BY KindsOfCall DEF CutPids, Knows, Cutting
<1>2. /\ Faces(matrix, Without(wanted, call[s].key)) /\ Skips(keep, Len(matrix) + 1)
      /\ PidsWith(keep) /\ OrgsWith(keep)
    BY <1>1 DEF Cut
<1>3. keep \in Seq(Nat) /\ Skips(keep, Len(pids)) /\ pids \in Seq(Pid) /\ Len(matrix) \in Nat
    BY <1>1, <1>2 DEF EditCall, PidsWith, Typed
<1>4. /\ Holds(pids, keep) /\ Kept(pids, keep) \in Seq(Pid)
      /\ Len(Kept(pids, keep)) = Len(pids) - 1
      /\ \A i \in DOMAIN keep : Kept(pids, keep)[i] = pids[keep[i]]
    BY <1>3, KeptList
<1>5. /\ pids' = Kept(pids, keep) /\ Goto(s, "cut_orgs")
      /\ UNCHANGED <<matrix, orgs, names, raised, wanted>>
    BY <1>4 DEF CutPids
<1>6. /\ call'[s].pc = "cut_orgs" /\ call'[s].key = call[s].key /\ call'[s].keep = keep
      /\ call'[s].put = call[s].put /\ call' \in [Slot -> Call]
  <2>1. "cut_orgs" \in Cutting \cup Growing
      BY DEF Cutting
  <2> QED
      BY <1>1, <1>5, <2>1, GotoStep
<1>7. Typed' /\ Named' /\ ~raised'
    BY <1>4, <1>5, <1>6 DEF Typed, Named
<1>8. PidsTo(Len(matrix))'
  <2>1. DOMAIN keep = 1 .. Len(matrix) /\ DOMAIN matrix = 1 .. Len(matrix)
      BY <1>2, <1>3 DEF Skips, Typed
  <2> QED
      BY <1>2, <1>3, <1>4, <1>5, <2>1 DEF PidsWith, PidsTo
<1>9. Faces(matrix, Without(wanted, call[s].key))' /\ Skips(keep, Len(matrix') + 1) /\ OrgsWith(keep)'
    BY <1>2, <1>5, <1>6 DEF Faces, Without, OrgsWith
<1>10. Knows(call[s])'
    BY <1>1, <1>6, <1>8, <1>9 DEF Knows, Cut, Reading, Growing
<1> QED
    BY <1>7, <1>10, Settled

LEMMA CutOrgsHolds ==
    ASSUME Alone, IInv, NEW s \in Slot, CutOrgs(s)
    PROVE  IInv'
<1> DEFINE keep == call[s].keep
<1> USE DEF IInv
<1>1. call[s] \in EditCall /\ Cut(call[s]) /\ call[s].pc = "cut_orgs"
    BY KindsOfCall DEF CutOrgs, Knows, Cutting
<1>2. /\ Faces(matrix, Without(wanted, call[s].key)) /\ Skips(keep, Len(matrix) + 1)
      /\ PidsTo(Len(matrix)) /\ OrgsWith(keep)
    BY <1>1 DEF Cut
<1>3. keep \in Seq(Nat) /\ Skips(keep, Len(orgs)) /\ orgs \in Seq(Org) /\ Len(matrix) \in Nat
    BY <1>1, <1>2 DEF EditCall, OrgsWith, Typed
<1>4. /\ Holds(orgs, keep) /\ Kept(orgs, keep) \in Seq(Org)
      /\ Len(Kept(orgs, keep)) = Len(orgs) - 1
      /\ \A i \in DOMAIN keep : Kept(orgs, keep)[i] = orgs[keep[i]]
    BY <1>3, KeptList
<1>5. /\ orgs' = Kept(orgs, keep) /\ Goto(s, "cut_names")
      /\ UNCHANGED <<matrix, pids, names, raised, wanted>>
    BY <1>4 DEF CutOrgs
<1>6. /\ call'[s].pc = "cut_names" /\ call'[s].key = call[s].key /\ call'[s].keep = keep
      /\ call'[s].put = call[s].put /\ call' \in [Slot -> Call]
  <2>1. "cut_names" \in Cutting \cup Growing
      BY DEF Cutting
  <2> QED
      BY <1>1, <1>5, <2>1, GotoStep
<1>7. Typed' /\ Named' /\ ~raised'
    BY <1>4, <1>5, <1>6 DEF Typed, Named
<1>8. OrgsTo(Len(matrix))'
  <2>1. DOMAIN keep = 1 .. Len(matrix) /\ DOMAIN matrix = 1 .. Len(matrix)
      BY <1>2, <1>3 DEF Skips, Typed
  <2> QED
      BY <1>2, <1>3, <1>4, <1>5, <2>1 DEF OrgsWith, OrgsTo
<1>9. Faces(matrix, Without(wanted, call[s].key))' /\ Skips(keep, Len(matrix') + 1) /\ PidsTo(Len(matrix))'
    BY <1>2, <1>5, <1>6 DEF Faces, Without, PidsTo
<1>10. Knows(call[s])'
    BY <1>1, <1>6, <1>8, <1>9 DEF Knows, Cut, Reading, Growing
<1> QED
    BY <1>7, <1>10, Settled

LEMMA WithoutWanted ==
    ASSUME Typed, NEW k, wanted' = Without(wanted, k)
    PROVE  /\ DOMAIN wanted' \subseteq Key /\ k \notin DOMAIN wanted'
           /\ \A x \in DOMAIN wanted' : wanted'[x] \in Entry
BY DEF Typed, Without

LEMMA CutNamesHolds ==
    ASSUME Alone, IInv, NEW s \in Slot, CutNames(s)
    PROVE  IInv'
<1> DEFINE k == call[s].key
<1> USE DEF IInv
<1>1. call[s] \in EditCall /\ Cut(call[s]) /\ call[s].pc = "cut_names"
    BY KindsOfCall DEF CutNames, Knows, Cutting
<1>2. Faces(matrix, Without(wanted, k)) /\ PidsTo(Len(matrix)) /\ OrgsTo(Len(matrix))
    BY <1>1 DEF Cut
<1>3. /\ names' = Without(names, k) /\ wanted' = Without(wanted, k)
      /\ UNCHANGED <<matrix, pids, orgs, raised>>
    BY DEF CutNames
<1>4. Parallel'
    BY <1>2, <1>3 DEF Parallel, PidsTo, OrgsTo, Faces
<1>5. Named' /\ ~raised'
    BY <1>3 DEF Named, Without
<1>6. CASE call[s].put = {}
  <2>1. call'[s] = Idle /\ call' \in [Slot -> Call]
      BY <1>6, ReturnStep DEF CutNames
  <2>2. Typed'
      BY <1>3, <2>1, WithoutWanted DEF Typed
  <2>3. Knows(call[s])'
      BY <1>4, <2>1, IdleKnows DEF Knows, Idle, Cutting, Growing
  <2> QED
      BY <1>5, <2>2, <2>3, Settled
<1>7. CASE call[s].put # {}
  <2>1. /\ call'[s].pc = "grow_matrix" /\ call'[s].key = k /\ call'[s].put = call[s].put
        /\ call' \in [Slot -> Call]
    <3>1. "grow_matrix" \in Cutting \cup Growing /\ Goto(s, "grow_matrix")
        BY <1>7 DEF Growing, CutNames
    <3> QED
        BY <1>1, <3>1, GotoStep
  <2>2. Typed'
      BY <1>3, <2>1, WithoutWanted DEF Typed
  <2>3. PICK e \in Entry : call'[s].put = {e}
      BY <1>1, <1>7, <2>1 DEF Cut
  <2>4. k \notin DOMAIN wanted'
      BY <1>3, WithoutWanted
  <2>5. Knows(call[s])'
      BY <1>4, <2>1, <2>3, <2>4 DEF Knows, Grow, Reading, Cutting
  <2> QED
      BY <1>5, <2>2, <2>5, Settled
<1> QED
    BY <1>6, <1>7

----------------------------------------------------------------------------
(* An insertion.                                                           *)

LEMMA GrowKnows ==
    ASSUME IInv, NEW s \in Slot, call[s].pc \in Growing
    PROVE  /\ call[s] \in EditCall /\ call[s].key \in Key
           /\ \E e \in Entry : call[s].put = {e} /\ Grow(call[s])
BY KindsOfCall DEF IInv, Knows, Grow, EditCall

LEMMA GrowMatrixHolds ==
    ASSUME Alone, IInv, NEW s \in Slot, GrowMatrix(s)
    PROVE  IInv'
<1> DEFINE k == call[s].key
<1> USE DEF IInv
<1>1. call[s].pc = "grow_matrix" /\ call[s] \in EditCall /\ k \in Key
    BY GrowKnows DEF GrowMatrix, Growing
<1>2. PICK e \in Entry : call[s].put = {e} /\ Parallel /\ k \notin DOMAIN wanted
    BY <1>1 DEF Knows, Grow, Growing
<1> DEFINE row == [key |-> k, ver |-> e.ver]
<1>3. /\ matrix' = Append(matrix, row) /\ Goto(s, "grow_pids")
      /\ UNCHANGED <<pids, orgs, names, raised, wanted>>
    BY <1>2 DEF GrowMatrix
<1>4. row \in Row /\ row.key = k
    BY <1>1 DEF Row, Entry
<1>5. Faces(Append(matrix, row), With(wanted, k, e))
    BY <1>1, <1>2, FacesGrown DEF Parallel, Typed
<1> HIDE DEF row
<1>6. /\ Len(matrix) \in Nat /\ Len(matrix') = Len(matrix) + 1 /\ matrix' \in Seq(Row)
      /\ \A i \in 1 .. Len(matrix) : matrix'[i] = matrix[i]
      /\ matrix'[Len(matrix')] = row
    BY <1>3, <1>4 DEF Typed
<1>7. /\ call'[s].pc = "grow_pids" /\ call'[s].key = k
      /\ call'[s].put = call[s].put /\ call' \in [Slot -> Call]
  <2>1. "grow_pids" \in Cutting \cup Growing
      BY DEF Growing
  <2> QED
      BY <1>1, <1>3, <2>1, GotoStep
<1>8. Typed' /\ Named' /\ ~raised'
    BY <1>3, <1>6, <1>7 DEF Typed, Named
<1>9. (PidsTo(Len(matrix) - 1) /\ OrgsTo(Len(matrix) - 1))'
  <2>1. Len(matrix') - 1 = Len(matrix)
      BY <1>6
  <2> QED
      BY <1>2, <1>3, <1>6, <2>1 DEF Parallel, PidsTo, OrgsTo
<1>10. Faces(matrix, With(wanted, k, e))'
    BY <1>3, <1>5, <1>7 DEF Faces, With
<1>11. Grow(call[s])'
    BY <1>2, <1>4, <1>6, <1>7, <1>9, <1>10 DEF Grow
<1>12. Knows(call[s])'
    BY <1>7, <1>11 DEF Knows, Reading, Cutting
<1> QED
    BY <1>8, <1>12, Settled

LEMMA GrowPidsHolds ==
    ASSUME Alone, IInv, NEW s \in Slot, GrowPids(s)
    PROVE  IInv'
<1> DEFINE k == call[s].key
<1> USE DEF IInv
<1>1. call[s].pc = "grow_pids" /\ call[s] \in EditCall /\ k \in Key
    BY GrowKnows DEF GrowPids, Growing
<1>2. PICK e \in Entry :
        /\ call[s].put = {e} /\ Len(matrix) > 0 /\ Faces(matrix, With(wanted, k, e))
        /\ matrix[Len(matrix)].key = k
        /\ PidsTo(Len(matrix) - 1) /\ OrgsTo(Len(matrix) - 1)
    BY <1>1 DEF Knows, Grow, Growing
<1>3. /\ pids' = Append(pids, k[2]) /\ Goto(s, "grow_orgs")
      /\ UNCHANGED <<matrix, orgs, names, raised, wanted>>
    BY DEF GrowPids
<1>4. k[2] \in Pid /\ pids \in Seq(Pid) /\ Len(matrix) \in Nat
    BY <1>1 DEF Key, Typed
<1>5. PidsTo(Len(matrix))'
  <2>1. /\ Len(pids') = Len(matrix) /\ pids'[Len(matrix)] = k[2]
        /\ \A i \in 1 .. Len(matrix) - 1 : pids'[i] = pids[i]
      BY <1>2, <1>3, <1>4 DEF PidsTo
  <2>2. ASSUME NEW i \in 1 .. Len(matrix) PROVE pids'[i] = matrix[i].key[2]
    <3>1. CASE i = Len(matrix)
        BY <1>2, <2>1, <3>1
    <3>2. CASE i # Len(matrix)
      <4>1. i \in 1 .. Len(matrix) - 1
          BY <1>4, <3>2
      <4> QED
          BY <1>2, <2>1, <4>1 DEF PidsTo
    <3> QED
        BY <3>1, <3>2
  <2> QED
      BY <1>3, <2>1, <2>2 DEF PidsTo
<1>6. /\ call'[s].pc = "grow_orgs" /\ call'[s].key = k
      /\ call'[s].put = call[s].put /\ call' \in [Slot -> Call]
  <2>1. "grow_orgs" \in Cutting \cup Growing
      BY DEF Growing
  <2> QED
      BY <1>1, <1>3, <2>1, GotoStep
<1>7. Typed' /\ Named' /\ ~raised'
    BY <1>3, <1>4, <1>6 DEF Typed, Named
<1>8. Faces(matrix, With(wanted, k, e))' /\ OrgsTo(Len(matrix) - 1)'
  <2>1. Faces(matrix, With(wanted, k, e))'
    <3>1. With(wanted, k, e)' = With(wanted, k, e)
        BY <1>3, <1>6 DEF With
    <3> QED
        BY <1>2, <1>3, <3>1 DEF Faces
  <2>2. OrgsTo(Len(matrix) - 1)'
      BY <1>2, <1>3 DEF OrgsTo
  <2> QED
      BY <2>1, <2>2
<1>9. Grow(call[s])'
    BY <1>2, <1>3, <1>5, <1>6, <1>8 DEF Grow
<1>10. Knows(call[s])'
    BY <1>6, <1>9 DEF Knows, Reading, Cutting
<1> QED
    BY <1>7, <1>10, Settled

LEMMA GrowOrgsHolds ==
    ASSUME Alone, IInv, NEW s \in Slot, GrowOrgs(s)
    PROVE  IInv'
<1> DEFINE k == call[s].key
<1> USE DEF IInv
<1>1. call[s].pc = "grow_orgs" /\ call[s] \in EditCall /\ k \in Key
    BY GrowKnows DEF GrowOrgs, Growing
<1>2. PICK e \in Entry :
        /\ call[s].put = {e} /\ Len(matrix) > 0 /\ Faces(matrix, With(wanted, k, e))
        /\ matrix[Len(matrix)].key = k
        /\ PidsTo(Len(matrix)) /\ OrgsTo(Len(matrix) - 1)
    BY <1>1 DEF Knows, Grow, Growing
<1>3. /\ orgs' = Append(orgs, k[1]) /\ Goto(s, "grow_names")
      /\ UNCHANGED <<matrix, pids, names, raised, wanted>>
    BY DEF GrowOrgs
<1>4. k[1] \in Org /\ orgs \in Seq(Org) /\ Len(matrix) \in Nat
    BY <1>1 DEF Key, Typed
<1>5. OrgsTo(Len(matrix))'
  <2>1. /\ Len(orgs') = Len(matrix) /\ orgs'[Len(matrix)] = k[1]
        /\ \A i \in 1 .. Len(matrix) - 1 : orgs'[i] = orgs[i]
      BY <1>2, <1>3, <1>4 DEF OrgsTo
  <2>2. ASSUME NEW i \in 1 .. Len(matrix) PROVE orgs'[i] = matrix[i].key[1]
    <3>1. CASE i = Len(matrix)
        BY <1>2, <2>1, <3>1
    <3>2. CASE i # Len(matrix)
      <4>1. i \in 1 .. Len(matrix) - 1
          BY <1>4, <3>2
      <4> QED
          BY <1>2, <2>1, <4>1 DEF OrgsTo
    <3> QED
        BY <3>1, <3>2
  <2> QED
      BY <1>3, <2>1, <2>2 DEF OrgsTo
<1>6. /\ call'[s].pc = "grow_names" /\ call'[s].key = k
      /\ call'[s].put = call[s].put /\ call' \in [Slot -> Call]
  <2>1. "grow_names" \in Cutting \cup Growing
      BY DEF Growing
  <2> QED
      BY <1>1, <1>3, <2>1, GotoStep
<1>7. Typed' /\ Named' /\ ~raised'
    BY <1>3, <1>4, <1>6 DEF Typed, Named
<1>8. Faces(matrix, With(wanted, k, e))' /\ PidsTo(Len(matrix))'
  <2>1. Faces(matrix, With(wanted, k, e))'
    <3>1. With(wanted, k, e)' = With(wanted, k, e)
        BY <1>3, <1>6 DEF With
    <3> QED
        BY <1>2, <1>3, <3>1 DEF Faces
  <2>2. PidsTo(Len(matrix))'
      BY <1>2, <1>3 DEF PidsTo
  <2> QED
      BY <2>1, <2>2
<1>9. Grow(call[s])'
    BY <1>2, <1>3, <1>5, <1>6, <1>8 DEF Grow
<1>10. Knows(call[s])'
    BY <1>6, <1>9 DEF Knows, Reading, Cutting
<1> QED
    BY <1>7, <1>10, Settled

LEMMA GrowNamesHolds ==
    ASSUME Alone, IInv, NEW s \in Slot, GrowNames(s)
    PROVE  IInv'
<1> DEFINE k == call[s].key
<1> USE DEF IInv
<1>1. call[s].pc = "grow_names" /\ call[s] \in EditCall /\ k \in Key
    BY GrowKnows DEF GrowNames, Growing
<1>2. PICK e \in Entry :
        /\ call[s].put = {e} /\ Faces(matrix, With(wanted, k, e))
        /\ PidsTo(Len(matrix)) /\ OrgsTo(Len(matrix))
    BY <1>1 DEF Knows, Grow, Growing
<1>3. /\ names' = With(names, k, e.name) /\ wanted' = With(wanted, k, e) /\ Return(s)
      /\ UNCHANGED <<matrix, pids, orgs, raised>>
    BY <1>2 DEF GrowNames
<1>4. /\ DOMAIN wanted' = DOMAIN wanted \cup {k} /\ wanted'[k] = e
      /\ \A x \in DOMAIN wanted : x # k => wanted'[x] = wanted[x]
    BY <1>3 DEF With
<1>5. /\ DOMAIN names' = DOMAIN names \cup {k} /\ names'[k] = e.name
      /\ \A x \in DOMAIN names : x # k => names'[x] = names[x]
    BY <1>3 DEF With
<1>6. call'[s] = Idle /\ call' \in [Slot -> Call]
    BY <1>3, ReturnStep
<1>7. Named' /\ ~raised'
    BY <1>3, <1>4, <1>5 DEF Named
<1>8. Typed'
    BY <1>1, <1>3, <1>4, <1>6 DEF Typed
<1>9. Parallel'
    BY <1>2, <1>3 DEF Parallel, PidsTo, OrgsTo, Faces
<1>10. Knows(call[s])'
    BY <1>6, <1>9 DEF Knows, Idle, Cutting, Growing
<1> QED
    BY <1>7, <1>8, <1>10, Settled

----------------------------------------------------------------------------
(* The first step of an edit, and a new name.                              *)

LEMMA EditHolds ==
    ASSUME Alone, IInv, NEW s \in Slot, NEW k \in Key, NEW put \in SUBSET Entry,
           put = {} \/ \E e \in Entry : put = {e}, Edit(s, k, put)
    PROVE  IInv'
<1> USE DEF IInv
<1>1. call[s] = Idle /\ Parallel
    BY DEF Edit, Knows, Idle, Reading
<1>2. /\ DOMAIN pids = DOMAIN matrix
      /\ Rows(k) = {i \in DOMAIN matrix : matrix[i].key = k}
      /\ ~SlotRaises(k)
    BY <1>1, RowsAreFaces
<1>3. UNCHANGED <<index, raised, wanted>>
    BY <1>2 DEF Edit
<1>4. /\ matrix' = matrix /\ pids' = pids /\ orgs' = orgs /\ names' = names
      /\ raised' = raised /\ wanted' = wanted
    BY <1>3 DEF index
<1>5. Named' /\ ~raised' /\ Parallel'
    BY <1>1, <1>4 DEF Named, Parallel, PidsTo, OrgsTo, Faces
<1>6. ASSUME NEW loc \in First(Rows(k)),
             call' = [call EXCEPT ![s] = [pc |-> "cut_matrix", key |-> k,
                                          keep |-> AllBut(loc), put |-> put]]
      PROVE  IInv'
  <2> DEFINE q == [pc |-> "cut_matrix", key |-> k, keep |-> AllBut(loc), put |-> put]
  <2>1. loc \in DOMAIN matrix /\ matrix[loc].key = k
      BY <1>2 DEF First
  <2>2. Len(matrix) \in Nat /\ loc \in 1 .. Len(matrix) /\ Len(pids) = Len(matrix)
      BY <1>1, <2>1 DEF Typed, Parallel, PidsTo
  <2>3. AllBut(loc) = Others(Len(matrix), loc) /\ AllBut(loc) \in Seq(Nat)
    <3>1. Others(Len(matrix), loc) \in Seq(Nat)
        BY <2>2, SkipsOne
    <3>2. AllBut(loc) = Others(Len(matrix), loc)
        BY <2>2 DEF AllBut, Others
    <3> QED
        BY <3>1, <3>2
  <2>4. q \in Call
      BY <2>3 DEF Call, EditCall, Cutting
  <2>5. call'[s] = q /\ call' \in [Slot -> Call]
      BY <1>6, <2>4, SetCall
  <2>6. Typed'
      BY <1>4, <2>5 DEF Typed
  <2>7. q.pc = "cut_matrix" /\ q.key = k /\ q.keep = AllBut(loc) /\ q.put = put
      OBVIOUS
  <2> HIDE DEF q
  <2>8. Cut(call[s])'
      BY <1>4, <1>5, <2>1, <2>3, <2>5, <2>7 DEF Cut
  <2>9. Knows(call[s])'
      BY <2>5, <2>7, <2>8 DEF Knows, Reading, Growing
  <2> QED
      BY <1>5, <2>6, <2>9, Settled
<1>7. ASSUME Rows(k) = {}, put = {}, call' = [call EXCEPT ![s] = Idle]
      PROVE  IInv'
  <2>1. call'[s] = Idle /\ call' \in [Slot -> Call]
      BY <1>7, SetCall DEF Call
  <2>2. Typed'
      BY <1>4, <2>1 DEF Typed
  <2>3. Knows(call[s])'
      BY <1>5, <2>1 DEF Knows, Idle, Cutting, Growing
  <2> QED
      BY <1>5, <2>2, <2>3, Settled
<1>8. ASSUME Rows(k) = {}, NEW e \in Entry, put = {e},
             call' = [call EXCEPT ![s] = [pc |-> "grow_matrix", key |-> k, keep |-> <<>>, put |-> put]]
      PROVE  IInv'
  <2> DEFINE q == [pc |-> "grow_matrix", key |-> k, keep |-> <<>>, put |-> put]
  <2>1. q \in Call
      BY DEF Call, EditCall, Growing
  <2>2. call'[s] = q /\ call' \in [Slot -> Call]
      BY <1>8, <2>1, SetCall
  <2>3. Typed'
      BY <1>4, <2>2 DEF Typed
  <2>4. k \notin DOMAIN wanted
      BY <1>1, <1>2, <1>8 DEF Parallel, Faces
  <2>5. q.pc = "grow_matrix" /\ q.key = k /\ q.put = {e}
      BY <1>8
  <2> HIDE DEF q
  <2>6. Knows(call[s])'
      BY <1>4, <1>5, <2>2, <2>4, <2>5 DEF Knows, Grow, Reading, Cutting
  <2> QED
      BY <1>5, <2>3, <2>6, Settled
<1> QED
    BY <1>2, <1>6, <1>7, <1>8 DEF Edit

LEMMA SetNameHolds ==
    ASSUME Alone, IInv, NEW s \in Slot, NEW k \in Key, NEW n \in Name, SetName(s, k, n)
    PROVE  IInv'
<1> USE DEF IInv
<1>1. call[s] = Idle /\ Parallel
    BY DEF SetName, Knows, Idle, Reading
<1>2. k \in DOMAIN wanted /\ wanted[k] \in Entry
    BY DEF SetName, Named, Typed
<1>3. /\ names' = [names EXCEPT ![k] = n] /\ wanted' = [wanted EXCEPT ![k].name = n]
      /\ UNCHANGED <<matrix, pids, orgs, call, raised>>
    BY <1>2 DEF SetName
<1>4. /\ DOMAIN wanted' = DOMAIN wanted
      /\ \A x \in DOMAIN wanted : x # k => wanted'[x] = wanted[x]
      /\ wanted'[k] \in Entry /\ wanted'[k].name = n /\ wanted'[k].ver = wanted[k].ver
    BY <1>2, <1>3 DEF Entry
<1>5. Named' /\ ~raised'
    BY <1>3, <1>4 DEF Named
<1>6. Typed'
    BY <1>3, <1>4 DEF Typed
<1>7. Faces(matrix, wanted)'
    BY <1>1, <1>3, <1>4 DEF Parallel, Faces
<1>8. Parallel'
    BY <1>1, <1>3, <1>7 DEF Parallel, PidsTo, OrgsTo
<1>9. Knows(call[s])'
    BY <1>1, <1>3, <1>8 DEF Knows, Idle, Cutting, Growing
<1> QED
    BY <1>5, <1>6, <1>9, Settled

----------------------------------------------------------------------------
(* Readers.                                                                *)

\* A step of a reader leaves the containers alone.
LEMMA ReadStepHolds ==
    ASSUME Alone, IInv, NEW s \in Slot, call[s].pc \in Reading, UNCHANGED <<index, raised, wanted>>,
           NEW q \in Call, call' = [call EXCEPT ![s] = q], q.pc \in Reading,
           q.pc = "search" => Search(q), q.pc = "probe" => Probing(q),
           q.pc = "probed" => q.centroid.key = q.key
    PROVE  IInv'
<1> USE DEF IInv
<1>1. call'[s] = q /\ call' \in [Slot -> Call]
    BY SetCall
<1>2. /\ matrix' = matrix /\ pids' = pids /\ orgs' = orgs /\ names' = names
      /\ raised' = raised /\ wanted' = wanted
    BY DEF index
<1>3. Typed' /\ Named' /\ ~raised'
    BY <1>1, <1>2 DEF Typed, Named
<1>4. Parallel
    BY DEF Knows
<1>5. Parallel'
    BY <1>2, <1>4 DEF Parallel, PidsTo, OrgsTo, Faces
<1>6. q.pc = "search" => Search(call[s])'
    BY <1>1, <1>2 DEF Search, Asked
<1>7. q.pc = "probe" => Probing(call[s])'
    BY <1>1, <1>2 DEF Probing
<1>8. Knows(call[s])'
    BY <1>1, <1>5, <1>6, <1>7 DEF Knows, Cutting, Growing, Reading
<1> QED
    BY <1>3, <1>8, Settled

LEMMA SearchStartHolds ==
    ASSUME Alone, IInv, NEW s \in Slot, NEW org \in Org, NEW allowed \in SUBSET Pid,
           SearchStart(s, org, allowed)
    PROVE  IInv'
<1> DEFINE q == [pc |-> "search", org |-> org, allowed |-> allowed, shot |-> matrix,
                 left |-> DOMAIN matrix, found |-> <<>>]
<1>1. call[s].pc \in Reading /\ call' = [call EXCEPT ![s] = q] /\ UNCHANGED <<index, raised, wanted>>
    BY DEF SearchStart, Idle, Reading
<1>2. matrix \in Seq(Row) /\ DOMAIN matrix \subseteq Nat
    BY DEF IInv, Typed
<1>3. q \in Call
    BY <1>2 DEF Call, SearchCall
<1>4. /\ q.pc = "search" /\ q.org = org /\ q.allowed = allowed /\ q.shot = matrix
      /\ q.left = DOMAIN matrix /\ q.found = <<>>
    OBVIOUS
<1> HIDE DEF q
<1>5. Search(q)
    BY <1>4 DEF Search
<1> QED
    BY <1>1, <1>3, <1>4, <1>5, ReadStepHolds DEF Reading

LEMMA SearchRowHolds ==
    ASSUME Alone, IInv, NEW s \in Slot, NEW i, SearchRow(s, i)
    PROVE  IInv'
<1> DEFINE q == call[s]
           k == matrix[i].key
           hit == [centroid |-> q.shot[i], key |-> k, name |-> NameOf(k)]
           found == IF Asked(q, k) THEN Append(q.found, hit) ELSE q.found
           r == [[q EXCEPT !.left = @ \ {i}] EXCEPT !.found = found]
<1> USE DEF IInv
<1>1. q.pc = "search" /\ q \in SearchCall /\ Search(q) /\ Parallel /\ i \in q.left
    BY KindsOfCall DEF SearchRow, Knows, Reading
<1>2. i \in DOMAIN matrix /\ q.shot = matrix
    BY <1>1 DEF Search
<1>3. i \in DOMAIN pids \cap DOMAIN orgs /\ <<orgs[i], pids[i]>> = k
    BY <1>1, <1>2, RowsAreFaces
<1>4. k \in Key /\ matrix[i] \in Row /\ <<k[1], k[2]>> = k
  <2>1. matrix[i] \in Row
      BY <1>2 DEF Typed
  <2> QED
      BY <2>1 DEF Row, Key
<1>5. k \in DOMAIN wanted /\ NameOf(k) = wanted[k].name /\ NameOf(k) \in Name
    BY <1>1, <1>2 DEF Parallel, Faces, Named, NameOf, Typed, Entry
<1>6. call' = [call EXCEPT ![s] = r] /\ UNCHANGED <<index, raised, wanted>>
    BY <1>1, <1>3 DEF SearchRow, Asked
<1>7. hit \in Hit /\ hit.centroid = matrix[i] /\ hit.key = k /\ hit.name = wanted[k].name
    BY <1>2, <1>4, <1>5 DEF Hit
<1> HIDE DEF hit
<1>8. q.found \in Seq(Hit) /\ found \in Seq(Hit)
    BY <1>1, <1>7 DEF SearchCall
<1> HIDE DEF found
<1>9. /\ r \in SearchCall /\ r.pc = "search" /\ r.org = q.org /\ r.allowed = q.allowed
      /\ r.shot = q.shot /\ r.left = q.left \ {i} /\ r.found = found
    BY <1>1, <1>8 DEF SearchCall
<1> HIDE DEF r, k
<1>10. Search(r)
  <2>1. CASE Asked(q, k)
    <3>1. /\ Len(q.found) \in Nat /\ DOMAIN q.found = 1 .. Len(q.found)
          /\ DOMAIN found = 1 .. Len(q.found) + 1
          /\ \A n \in 1 .. Len(q.found) : found[n] = q.found[n]
          /\ found[Len(q.found) + 1] = hit
        BY <1>7, <1>8, <2>1 DEF found
    <3>2. ASSUME NEW n \in 1 .. Len(q.found) PROVE q.found[n].key # k
      <4>1. PICK j \in DOMAIN matrix \ q.left : matrix[j].key = q.found[n].key
          BY <1>1, <3>1 DEF Search
      <4>2. j # i
          BY <1>1, <4>1
      <4>3. matrix[j].key # matrix[i].key
          BY <1>1, <1>2, <4>2 DEF Parallel, Faces
      <4> QED
          BY <4>1, <4>3 DEF k
    <3>3. ASSUME NEW n \in DOMAIN found
          PROVE  /\ found[n].centroid.key = found[n].key
                 /\ Asked(r, found[n].key)
                 /\ found[n].name = wanted[found[n].key].name
                 /\ \E j \in DOMAIN matrix \ r.left : matrix[j].key = found[n].key
      <4>1. CASE n \in 1 .. Len(q.found)
          BY <1>1, <1>9, <3>1, <4>1 DEF Search, Asked
      <4>2. CASE n = Len(q.found) + 1
          BY <1>2, <1>7, <1>9, <2>1, <3>1, <4>2 DEF Asked, k
      <4> QED
          BY <3>1, <4>1, <4>2
    <3>4. ASSUME NEW m \in DOMAIN found, NEW n \in DOMAIN found, found[m].key = found[n].key
          PROVE  m = n
      <4>1. CASE m \in 1 .. Len(q.found) /\ n \in 1 .. Len(q.found)
          BY <1>1, <3>1, <3>4, <4>1 DEF Search
      <4>2. CASE m = Len(q.found) + 1 \/ n = Len(q.found) + 1
          BY <1>7, <3>1, <3>2, <3>4, <4>2
      <4> QED
          BY <3>1, <4>1, <4>2
    <3>5. ASSUME NEW j \in DOMAIN matrix \ r.left, Asked(r, matrix[j].key)
          PROVE  \E n \in DOMAIN found : found[n].key = matrix[j].key
      <4>1. CASE j = i
        <5>1. Len(q.found) + 1 \in DOMAIN found
            BY <3>1
        <5> QED
            BY <1>7, <3>1, <4>1, <5>1 DEF k
      <4>2. CASE j # i
        <5>1. j \in DOMAIN matrix \ q.left /\ Asked(q, matrix[j].key)
            BY <1>9, <3>5, <4>2 DEF Asked
        <5>2. PICK n \in DOMAIN q.found : q.found[n].key = matrix[j].key
            BY <1>1, <5>1 DEF Search
        <5>3. n \in DOMAIN found /\ found[n] = q.found[n]
            BY <3>1
        <5> QED
            BY <5>2, <5>3
      <4> QED
          BY <4>1, <4>2
    <3>6. r.shot = matrix /\ r.left \subseteq DOMAIN matrix
        BY <1>1, <1>2, <1>9 DEF Search
    <3> QED
        BY <1>9, <3>3, <3>4, <3>5, <3>6 DEF Search
  <2>2. CASE ~Asked(q, k)
    <3>1. found = q.found
        BY <2>2 DEF found
    <3>2. ASSUME NEW j \in DOMAIN matrix \ r.left, Asked(r, matrix[j].key)
          PROVE  \E n \in DOMAIN found : found[n].key = matrix[j].key
      <4>1. j # i
          BY <1>9, <2>2, <3>2 DEF Asked, k
      <4> QED
          BY <1>1, <1>9, <3>1, <3>2, <4>1 DEF Search, Asked
    <3> QED
        BY <1>1, <1>9, <3>1, <3>2 DEF Search, Asked
  <2> QED
      BY <2>1, <2>2
<1> QED
    BY <1>1, <1>6, <1>9, <1>10, ReadStepHolds DEF Call, Reading

LEMMA ProbeHolds ==
    ASSUME Alone, IInv, NEW s \in Slot, NEW k \in Key, Probe(s, k)
    PROVE  IInv'
<1>1. call[s] = Idle /\ call[s].pc \in Reading /\ Parallel
    BY DEF Probe, IInv, Knows, Idle, Reading
<1>2. Rows(k) = {i \in DOMAIN matrix : matrix[i].key = k} /\ ~SlotRaises(k)
    BY <1>1, RowsAreFaces DEF IInv
<1>3. PICK loc \in First(Rows(k)) : call' = [call EXCEPT ![s] = [pc |-> "probe", key |-> k, row |-> loc]]
    BY <1>2 DEF Probe
<1> DEFINE q == [pc |-> "probe", key |-> k, row |-> loc]
<1>4. loc \in DOMAIN matrix /\ matrix[loc].key = k /\ loc \in Nat
    BY <1>2 DEF First, IInv, Typed
<1>5. q \in Call /\ q.pc = "probe" /\ q.row = loc /\ q.key = k
    BY <1>4 DEF Call, ProbeCall
<1>6. UNCHANGED <<index, raised, wanted>>
    BY <1>2 DEF Probe
<1> HIDE DEF q
<1>7. Probing(q)
    BY <1>4, <1>5 DEF Probing
<1>8. call' = [call EXCEPT ![s] = q]
    BY <1>3 DEF q
<1> QED
    BY <1>1, <1>5, <1>6, <1>7, <1>8, ReadStepHolds DEF Reading

LEMMA ProbeReadHolds ==
    ASSUME Alone, IInv, NEW s \in Slot, ProbeRead(s)
    PROVE  IInv'
<1> DEFINE p == call[s]
           q == [pc |-> "probed", key |-> p.key, centroid |-> matrix[p.row]]
<1>1. p.pc = "probe" /\ p \in ProbeCall /\ Probing(p)
    BY KindsOfCall DEF ProbeRead, IInv, Knows
<1>2. p.row \in DOMAIN matrix /\ matrix[p.row].key = p.key /\ p.key \in Key /\ matrix[p.row] \in Row
    BY <1>1 DEF Probing, ProbeCall, IInv, Typed
<1>3. call' = [call EXCEPT ![s] = q] /\ UNCHANGED <<index, raised, wanted>>
    BY <1>2 DEF ProbeRead
<1>4. q \in Call /\ q.pc = "probed" /\ q.centroid.key = q.key
    BY <1>2 DEF Call, ProbedCall
<1> HIDE DEF q
<1> QED
    BY <1>1, <1>3, <1>4, ReadStepHolds DEF Reading

LEMMA EndHolds ==
    ASSUME Alone, IInv, NEW s \in Slot, SearchReturn(s) \/ ProbeReturn(s)
    PROVE  IInv'
<1>1. /\ call[s].pc \in Reading /\ call' = [call EXCEPT ![s] = Idle]
      /\ UNCHANGED <<index, raised, wanted>>
    BY DEF SearchReturn, ProbeReturn, Return, Reading
<1>2. Idle \in Call /\ Idle.pc = "idle"
    BY DEF Idle, Call
<1> QED
    BY <1>1, <1>2, ReadStepHolds DEF Reading

----------------------------------------------------------------------------
(* The specification.                                                      *)

\* Boot lists every key once: a list of n rows over n keys cannot repeat one.
LEMMA InitHolds == Init => IInv
<1> SUFFICES ASSUME Init PROVE IInv
    OBVIOUS
<1>1. PICK keys \in SUBSET Key :
        \E order \in [1 .. Cardinality(keys) -> keys] :
          /\ \A k \in keys : \E i \in DOMAIN order : order[i] = k
          /\ wanted \in [keys -> Entry]
          /\ matrix = [i \in DOMAIN order |-> [key |-> order[i], ver |-> wanted[order[i]].ver]]
          /\ pids = [i \in DOMAIN order |-> order[i][2]]
          /\ orgs = [i \in DOMAIN order |-> order[i][1]]
          /\ names = [k \in keys |-> wanted[k].name]
    BY DEF Init
<1> DEFINE n == Cardinality(keys)
<1>2. PICK order \in [1 .. n -> keys] :
        /\ \A k \in keys : \E i \in DOMAIN order : order[i] = k
        /\ wanted \in [keys -> Entry]
        /\ matrix = [i \in DOMAIN order |-> [key |-> order[i], ver |-> wanted[order[i]].ver]]
        /\ pids = [i \in DOMAIN order |-> order[i][2]]
        /\ orgs = [i \in DOMAIN order |-> order[i][1]]
        /\ names = [k \in keys |-> wanted[k].name]
    BY <1>1
<1>3. IsFiniteSet(keys) /\ n \in Nat
    BY KeyAssumption, FS_Subset, FS_CardinalityType
<1>4. \A i, j \in 1 .. n : order[i] = order[j] => i = j
  <2>1. IsFiniteSet(1 .. n) /\ Cardinality(1 .. n) = n
      BY <1>3, FS_Interval
  <2>2. order \in Surjection(1 .. n, keys)
      BY <1>2 DEF Surjection
  <2>3. order \in Injection(1 .. n, keys)
      BY <2>1, <2>2, FS_SurjSameCardinalityImpliesInj
  <2> QED
      BY <2>3 DEF Injection, IsInjective
<1> HIDE DEF n
<1>5. \A i \in 1 .. n : order[i] \in Key /\ order[i] \in keys
    BY <1>2
<1>6. /\ matrix \in Seq(Row) /\ Len(matrix) = n /\ DOMAIN matrix = 1 .. n
      /\ \A i \in 1 .. n : matrix[i].key = order[i] /\ matrix[i].ver = wanted[order[i]].ver
  <2>1. \A i \in 1 .. n : [key |-> order[i], ver |-> wanted[order[i]].ver] \in Row
      BY <1>2, <1>5 DEF Row, Entry
  <2> QED
      BY <1>2, <1>3, <2>1
<1>7. pids \in Seq(Pid) /\ Len(pids) = n /\ \A i \in 1 .. n : pids[i] = order[i][2]
  <2>1. \A i \in 1 .. n : order[i][2] \in Pid
      BY <1>5 DEF Key
  <2> QED
      BY <1>2, <1>3, <2>1
<1>8. orgs \in Seq(Org) /\ Len(orgs) = n /\ \A i \in 1 .. n : orgs[i] = order[i][1]
  <2>1. \A i \in 1 .. n : order[i][1] \in Org
      BY <1>5 DEF Key
  <2> QED
      BY <1>2, <1>3, <2>1
<1>9. call \in [Slot -> Call] /\ \A s \in Slot : call[s] = Idle
    BY DEF Init, Call
<1>10. Typed /\ Named /\ ~raised
    BY <1>2, <1>6, <1>7, <1>8, <1>9 DEF Typed, Named, Init
<1>11. Faces(matrix, wanted)
    BY <1>2, <1>4, <1>5, <1>6 DEF Faces
<1>12. Parallel
    BY <1>6, <1>7, <1>8, <1>11 DEF Parallel, PidsTo, OrgsTo
<1> QED
    BY <1>9, <1>10, <1>12, IdleKnows DEF IInv

LEMMA StepHolds == Alone /\ IInv /\ [Next]_vars => IInv'
<1> SUFFICES ASSUME Alone, IInv, [Next]_vars PROVE IInv'
    OBVIOUS
<1>1. ASSUME NEW s \in Slot, EditStep(s) PROVE IInv'
  <2>1. CASE CutMatrix(s) \/ CutPids(s) \/ CutOrgs(s) \/ CutNames(s)
      BY <2>1, CutMatrixHolds, CutPidsHolds, CutOrgsHolds, CutNamesHolds
  <2>2. CASE GrowMatrix(s) \/ GrowPids(s) \/ GrowOrgs(s) \/ GrowNames(s)
      BY <2>2, GrowMatrixHolds, GrowPidsHolds, GrowOrgsHolds, GrowNamesHolds
  <2>3. CASE \E k \in Key : RemovePerson(s, k)
      BY <2>3, EditHolds DEF RemovePerson
  <2>4. CASE \E k \in Key, e \in Entry : AddPerson(s, k, e)
    <3>1. PICK k \in Key, e \in Entry : Edit(s, k, {e})
        BY <2>4 DEF AddPerson
    <3>2. {e} \in SUBSET Entry
        OBVIOUS
    <3> QED
        BY <3>1, <3>2, EditHolds
  <2>5. CASE \E k \in Key, n \in Name : SetName(s, k, n)
      BY <2>5, SetNameHolds
  <2> QED
      BY <1>1, <2>1, <2>2, <2>3, <2>4, <2>5 DEF EditStep
<1>2. ASSUME NEW s \in Slot, ReadStep(s) PROVE IInv'
  <2>1. CASE \E org \in Org, allowed \in SUBSET Pid : SearchStart(s, org, allowed)
      BY <2>1, SearchStartHolds
  <2>2. CASE \E i \in call[s].left : SearchRow(s, i)
      BY <2>2, SearchRowHolds
  <2>3. CASE \E k \in Key : Probe(s, k)
      BY <2>3, ProbeHolds
  <2>4. CASE ProbeRead(s) \/ SearchReturn(s) \/ ProbeReturn(s)
      BY <2>4, ProbeReadHolds, EndHolds
  <2> QED
      BY <1>2, <2>1, <2>2, <2>3, <2>4 DEF ReadStep
<1>3. CASE UNCHANGED vars
  <2>1. /\ matrix' = matrix /\ pids' = pids /\ orgs' = orgs /\ names' = names
        /\ call' = call /\ raised' = raised /\ wanted' = wanted
      BY <1>3 DEF vars, index
  <2>2. Typed' /\ Named' /\ Parallel' = Parallel
      BY <2>1 DEF IInv, Typed, Named, Parallel, Faces, PidsTo, OrgsTo
  <2>3. ASSUME NEW s \in Slot PROVE Knows(call[s])'
    <3>1. Cut(call[s])' = Cut(call[s])
        BY <2>1, <2>2 DEF Cut, Parallel, Faces, PidsTo, OrgsTo, PidsWith, OrgsWith, Without
    <3>2. Grow(call[s])' = Grow(call[s])
        BY <2>1, <2>2 DEF Grow, Parallel, Faces, PidsTo, OrgsTo, With
    <3>3. Search(call[s])' = Search(call[s]) /\ Probing(call[s])' = Probing(call[s])
        BY <2>1 DEF Search, Probing
    <3> QED
        BY <2>1, <2>2, <3>1, <3>2, <3>3 DEF IInv, Knows
  <2> QED
      BY <2>1, <2>2, <2>3 DEF IInv
<1> QED
    BY <1>1, <1>2, <1>3 DEF Next

LEMMA IInvHolds == Alone => (Spec => []IInv)
<1> SUFFICES ASSUME Alone PROVE Spec => []IInv
    OBVIOUS
<1>1. IInv /\ [Next]_vars => IInv'
    BY StepHolds
<1> QED
    BY <1>1, InitHolds, PTL DEF Spec

\* When calls come one after the other, the four containers say together what
\* the calls asked for, whatever edits there were and in whatever order.
THEOREM QuietIsFaithfulCorrect == Alone => (Spec => []QuietIsFaithful)
<1> SUFFICES ASSUME Alone PROVE Spec => []QuietIsFaithful
    OBVIOUS
<1>1. ASSUME IInv, Quiet PROVE QuietIsFaithful
  <2>1. Typed /\ Named /\ Parallel
    <3>1. PICK s : Slot = {s}
        BY DEF Alone
    <3> QED
        BY <1>1, <3>1 DEF IInv, Quiet, Knows, Reading
  <2>2. /\ DOMAIN pids = DOMAIN matrix
        /\ \A i \in DOMAIN matrix : <<orgs[i], pids[i]>> = matrix[i].key
      BY <2>1, RowsAreFaces
  <2>3. ASSUME NEW i \in DOMAIN matrix
        PROVE  matrix[i] = [key |-> matrix[i].key, ver |-> matrix[i].ver]
    <3>1. matrix[i] \in Row
        BY <2>1 DEF Typed
    <3> QED
        BY <3>1 DEF Row
  <2>4. Len(matrix) = Len(pids) /\ Len(pids) = Len(orgs)
      BY <2>1 DEF Parallel, PidsTo, OrgsTo
  <2>5. /\ \A i \in DOMAIN matrix : matrix[i].key \in DOMAIN wanted
                                    /\ matrix[i].ver = wanted[matrix[i].key].ver
        /\ \A i, j \in DOMAIN matrix : matrix[i].key = matrix[j].key => i = j
        /\ \A k \in DOMAIN wanted : \E i \in DOMAIN matrix : matrix[i].key = k
      BY <2>1 DEF Parallel, Faces
  <2>6. {<<orgs[i], pids[i]>> : i \in DOMAIN pids} = DOMAIN wanted
    <3>1. \A k \in {<<orgs[i], pids[i]>> : i \in DOMAIN pids} : k \in DOMAIN wanted
        BY <2>2, <2>5
    <3>2. ASSUME NEW k \in DOMAIN wanted PROVE k \in {<<orgs[i], pids[i]>> : i \in DOMAIN pids}
      <4>1. PICK i \in DOMAIN matrix : matrix[i].key = k
          BY <2>5
      <4>2. i \in DOMAIN pids /\ <<orgs[i], pids[i]>> = k
          BY <2>2, <4>1
      <4> QED
          BY <4>2
    <3> QED
        BY <3>1, <3>2
  <2>7. ASSUME NEW i \in DOMAIN pids, NEW j \in DOMAIN pids
        PROVE  LET k == <<orgs[i], pids[i]>> IN
               /\ k = <<orgs[j], pids[j]>> => i = j
               /\ matrix[i] = [key |-> k, ver |-> wanted[k].ver]
               /\ names[k] = wanted[k].name
    <3>1. /\ i \in DOMAIN matrix /\ j \in DOMAIN matrix
          /\ <<orgs[i], pids[i]>> = matrix[i].key /\ <<orgs[j], pids[j]>> = matrix[j].key
        BY <2>2
    <3>2. names[matrix[i].key] = wanted[matrix[i].key].name
        BY <2>1, <2>5, <3>1 DEF Named
    <3> QED
        BY <2>3, <2>5, <3>1, <3>2
  <2>8. DOMAIN names = DOMAIN wanted
      BY <2>1 DEF Named
  <2> QED
      BY <2>4, <2>6, <2>7, <2>8 DEF QuietIsFaithful
<1>2. IInv => QuietIsFaithful
    BY <1>1 DEF QuietIsFaithful
<1> QED
    BY <1>2, IInvHolds, PTL

\* A reader that is not overlapped is given the face it is told of.
THEOREM ReadersGetTheirFaceCorrect == Alone => (Spec => []ReadersGetTheirFace)
<1> SUFFICES ASSUME Alone PROVE Spec => []ReadersGetTheirFace
    OBVIOUS
<1>1. IInv => ReadersGetTheirFace
    BY DEF IInv, Knows, Search, ReadersGetTheirFace
<1> QED
    BY <1>1, IInvHolds, PTL

\* No call that is alone meets a list shorter than it takes it for.
THEOREM CallsNeverRaiseCorrect == Alone => (Spec => []CallsNeverRaise)
<1> SUFFICES ASSUME Alone PROVE Spec => []CallsNeverRaise
    OBVIOUS
<1>1. IInv => CallsNeverRaise
    BY DEF IInv, CallsNeverRaise
<1> QED
    BY <1>1, IInvHolds, PTL

\* A search that is alone and went through all rows has found every allowed
\* person of its organization once, under the current name, and nobody else.
THEOREM SearchIsCompleteCorrect == Alone => (Spec => []SearchIsComplete)
<1> SUFFICES ASSUME Alone PROVE Spec => []SearchIsComplete
    OBVIOUS
<1>1. ASSUME IInv, NEW s \in Slot, call[s].pc = "search", call[s].left = {}
      PROVE  LET q == call[s] IN
             /\ {q.found[n].key : n \in DOMAIN q.found}
                  = {k \in DOMAIN wanted : k[1] = q.org /\ k[2] \in q.allowed}
             /\ \A n \in DOMAIN q.found : q.found[n].name = wanted[q.found[n].key].name
             /\ \A m, n \in DOMAIN q.found : q.found[m].key = q.found[n].key => m = n
  <2> DEFINE q == call[s]
  <2>1. Search(q) /\ Parallel
      BY <1>1 DEF IInv, Knows, Reading
  <2> HIDE DEF q
  <2>2. q.left = {}
      BY <1>1 DEF q
  <2>3. \A n \in DOMAIN q.found : q.found[n].key \in DOMAIN wanted /\ Asked(q, q.found[n].key)
      BY <2>1 DEF Search, Parallel, Faces
  <2>4. ASSUME NEW k \in DOMAIN wanted, Asked(q, k)
        PROVE  \E n \in DOMAIN q.found : q.found[n].key = k
    <3>1. PICK i \in DOMAIN matrix : matrix[i].key = k
        BY <2>1 DEF Parallel, Faces
    <3> QED
        BY <2>1, <2>2, <2>4, <3>1 DEF Search
  <2>5. {q.found[n].key : n \in DOMAIN q.found} = {k \in DOMAIN wanted : Asked(q, k)}
    <3>1. \A x \in {q.found[n].key : n \in DOMAIN q.found} : x \in {k \in DOMAIN wanted : Asked(q, k)}
        BY <2>3
    <3>2. \A x \in {k \in DOMAIN wanted : Asked(q, k)} : x \in {q.found[n].key : n \in DOMAIN q.found}
        BY <2>4
    <3> QED
        BY <3>1, <3>2
  <2>6. {q.found[n].key : n \in DOMAIN q.found} = {k \in DOMAIN wanted : k[1] = q.org /\ k[2] \in q.allowed}
      BY <2>5 DEF Asked
  <2>7. /\ \A n \in DOMAIN q.found : q.found[n].name = wanted[q.found[n].key].name
        /\ \A m, n \in DOMAIN q.found : q.found[m].key = q.found[n].key => m = n
      BY <2>1 DEF Search
  <2> QED
      BY <2>6, <2>7 DEF q
<1>2. IInv => SearchIsComplete
    BY <1>1 DEF SearchIsComplete
<1> QED
    BY <1>2, IInvHolds, PTL
=============================================================================
