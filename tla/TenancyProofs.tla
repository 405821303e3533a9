--------------------------- MODULE TenancyProofs ---------------------------
(***************************************************************************)
(* The properties of Tenancy, for any number of organizations, connections *)
(* and concurrent requests.                                                *)
(***************************************************************************)
EXTENDS Tenancy, Integers, TLAPS

In(s, c) == \E i \in 1..Len(s) : s[i] = c
Once(s) == \A i, j \in 1..Len(s) : s[i] = s[j] => i = j

\* No connection is in two places.
PoolSound ==
    /\ Once(free)
    /\ \A r \in Holding : ~In(free, req[r].conn)
    /\ \A r, s \in Holding : req[r].conn = req[s].conn => r = s

\* A request whose last SET is in its transaction has it on its connection.
SetHolds ==
    \A r \in Req : req[r].stage = "set" =>
      /\ r \in Holding /\ path[req[r].conn] = req[r].for
      /\ req[r].met \cup req[r].wrote \subseteq {req[r].for, Public}

\* As long as nothing was shared.
OneSession ==
    /\ \A r, s \in Req : req[r] # Idle /\ req[s] # Idle => r = s
    /\ Len(free) = IF Holding = {} THEN 1 ELSE 0

\* What a session then knows.
Knows(r) ==
    LET q == req[r] IN
    /\ q.new = {} \/ q.made = {}
    /\ orgs = schemas \cup q.new \cup q.made
    /\ q.new \cup q.made # {} => q.admin /\ q.for = Public
    /\ q.met \cup q.wrote \subseteq {q.for}
    /\ q.for # Public => q.for \in schemas
    /\ q.stage = "kept" /\ q.for # Public =>
         \A c \in Conn : c \in Borrowed(r) => path[c] = q.for /\ base[c] = q.for

Alone ==
    /\ OneSession
    /\ (\A r \in Req : req[r] = Idle) => schemas = orgs
    /\ \A r \in Req : req[r] # Idle => Knows(r)
    /\ astray = {}

\* Only organizations of the table are provisioned.
Provisioning == \A r \in Req : req[r] # Idle => req[r].new \cup req[r].made \subseteq orgs

IInv == TypeOK /\ PoolSound /\ Provisioning /\ SetHolds /\ (~shared => Alone)

----------------------------------------------------------------------------
(* The pool.                                                               *)

LEMMA TailFacts ==
    ASSUME NEW s \in Seq(Conn), s # <<>>
    PROVE  /\ Head(s) \in Conn /\ Tail(s) \in Seq(Conn) /\ Len(Tail(s)) = Len(s) - 1
           /\ In(s, Head(s))
           /\ \A c : In(Tail(s), c) => In(s, c)
           /\ Once(s) => Once(Tail(s)) /\ ~In(Tail(s), Head(s))
  <1>1. /\ Len(s) \in Nat \ {0} /\ Head(s) = s[1] /\ s[1] \in Conn
        /\ Tail(s) \in Seq(Conn) /\ Len(Tail(s)) = Len(s) - 1
        /\ \A i \in 1..Len(Tail(s)) : Tail(s)[i] = s[i + 1] /\ i + 1 \in 1..Len(s)
    OBVIOUS
  <1> QED
    BY <1>1 DEF In, Once

LEMMA AppendFacts ==
    ASSUME NEW s \in Seq(Conn), NEW c \in Conn
    PROVE  /\ Append(s, c) \in Seq(Conn) /\ Len(Append(s, c)) = Len(s) + 1
           /\ Append(s, c) # <<>>
           /\ s = <<>> => Head(Append(s, c)) = c
           /\ \A d : In(Append(s, c), d) <=> In(s, d) \/ d = c
           /\ Once(s) /\ ~In(s, c) => Once(Append(s, c))
  <1>1. /\ Len(s) \in Nat /\ Append(s, c) \in Seq(Conn) /\ Len(Append(s, c)) = Len(s) + 1
        /\ \A i \in 1..Len(s) : Append(s, c)[i] = s[i] /\ i \in 1..Len(s) + 1
        /\ Append(s, c)[Len(s) + 1] = c /\ Len(s) + 1 \in 1..Len(s) + 1
        /\ \A i \in 1..Len(s) + 1 : i \in 1..Len(s) \/ i = Len(s) + 1
    OBVIOUS
  <1>2. s = <<>> => Head(Append(s, c)) = c
    BY <1>1
  <1>3. Append(s, c) # <<>>
    BY <1>1
  <1>4. \A d : In(Append(s, c), d) <=> In(s, d) \/ d = c
    BY <1>1 DEF In
  <1>5. Once(s) /\ ~In(s, c) => Once(Append(s, c))
    BY <1>1 DEF In, Once
  <1> QED
    BY <1>1, <1>2, <1>3, <1>4, <1>5

\* A connection that is borrowed is held by nobody else, and the rest of the
\* pool is without it.
LEMMA Borrowing ==
    ASSUME TypeOK, PoolSound, NEW r \in Req, NEW c \in Borrowed(r)
    PROVE  /\ c \in Conn
           /\ LeftBy(r) \in Seq(Conn) /\ Once(LeftBy(r)) /\ ~In(LeftBy(r), c)
           /\ \A s \in Holding \ {r} : req[s].conn # c /\ ~In(LeftBy(r), req[s].conn)
  <1>1. \A s \in Holding : req[s].conn \in Conn
    BY DEF TypeOK, Holding, Requests, Sessions
  <1>2. CASE r \in Holding
    BY <1>1, <1>2 DEF Borrowed, LeftBy, PoolSound, TypeOK
  <1>3. CASE r \notin Holding /\ free = <<>>
    <2>1. c \in Unopened /\ LeftBy(r) = free /\ Len(free) = 0
      BY <1>3 DEF Borrowed, LeftBy, Pooled, Left
    <2> QED
      BY <2>1 DEF Unopened, PoolSound, TypeOK, In
  <1>4. CASE r \notin Holding /\ free # <<>>
    <2>1. c = Head(free) /\ LeftBy(r) = Tail(free)
      BY <1>4 DEF Borrowed, LeftBy, Pooled, Left
    <2>2. free \in Seq(Conn)
      BY DEF TypeOK
    <2> QED
      BY <1>4, <2>1, <2>2, TailFacts DEF PoolSound
  <1> QED
    BY <1>2, <1>3, <1>4

\* A step after which request r holds c.
Takes(r, c, q) ==
    /\ c \in Borrowed(r)
    /\ q \in Sessions /\ q.conn = c
    /\ req' = [req EXCEPT ![r] = q]
    /\ free' = LeftBy(r)

\* A step after which request r holds nothing and c is in the pool.
Gives(r, c, q) ==
    /\ c \in Borrowed(r)
    /\ q \in Requests /\ (q # Idle => q.conn = Null)
    /\ req' = [req EXCEPT ![r] = q]
    /\ free' = Append(LeftBy(r), c)

LEMMA SessionIsNotIdle == \A q \in Sessions : q # Idle /\ q.stage # "idle"
  BY DEF Sessions, Idle

LEMMA TakeStep ==
    ASSUME TypeOK, PoolSound, NEW r \in Req, NEW c, NEW q, Takes(r, c, q)
    PROVE  /\ c \in Conn
           /\ req' \in [Req -> Requests] /\ free' \in Seq(Conn)
           /\ req'[r] = q /\ \A s \in Req \ {r} : req'[s] = req[s]
           /\ Holding' = Holding \cup {r}
           /\ Borrowed(r)' = {c}
           /\ \A s \in Holding \ {r} : req[s].conn # c
           /\ PoolSound'
  <1> USE DEF Takes
  <1>1. req' \in [Req -> Requests] /\ req'[r] = q /\ \A s \in Req \ {r} : req'[s] = req[s]
    BY DEF TypeOK, Requests
  <1>2. c \in Conn /\ q # Idle /\ q.conn # Null
    BY Borrowing, SessionIsNotIdle, NullAssumption
  <1>3. Holding' = Holding \cup {r}
    BY <1>1, <1>2 DEF Holding
  <1>4. Borrowed(r)' = {c}
    BY <1>1, <1>3 DEF Borrowed
  <1>5. PoolSound'
    BY <1>1, <1>3, Borrowing DEF PoolSound
  <1> QED
    BY <1>1, <1>2, <1>3, <1>4, <1>5, Borrowing

LEMMA GiveStep ==
    ASSUME TypeOK, PoolSound, NEW r \in Req, NEW c, NEW q, Gives(r, c, q)
    PROVE  /\ c \in Conn
           /\ req' \in [Req -> Requests] /\ free' \in Seq(Conn)
           /\ req'[r] = q /\ \A s \in Req \ {r} : req'[s] = req[s]
           /\ Holding' = Holding \ {r}
           /\ LeftBy(r) = <<>> => Borrowed(r)' = {c}
           /\ \A s \in Holding \ {r} : req[s].conn # c
           /\ PoolSound'
  <1> USE DEF Gives
  <1>1. req' \in [Req -> Requests] /\ req'[r] = q /\ \A s \in Req \ {r} : req'[s] = req[s]
    BY DEF TypeOK
  <1>2. c \in Conn /\ LeftBy(r) \in Seq(Conn) /\ free' \in Seq(Conn) /\ free' # <<>>
    BY Borrowing, AppendFacts
  <1>3. Holding' = Holding \ {r}
    BY <1>1 DEF Holding
  <1>4. LeftBy(r) = <<>> => Borrowed(r)' = {c}
    BY <1>2, <1>3, AppendFacts DEF Borrowed, Pooled
  <1>5. PoolSound'
    <2>1. Once(free') /\ \A d : In(free', d) <=> In(LeftBy(r), d) \/ d = c
      BY <1>2, Borrowing, AppendFacts
    <2>2. \A s \in Holding' : s \in Holding \ {r} /\ req'[s] = req[s]
      BY <1>1, <1>3 DEF Holding
    <2> QED
      BY <2>1, <2>2, Borrowing DEF PoolSound
  <1> QED
    BY <1>1, <1>2, <1>3, <1>4, <1>5, Borrowing

----------------------------------------------------------------------------
(* What a step of one request keeps of the rest of the invariant.          *)

LEMMA SetKept ==
    ASSUME TypeOK, SetHolds, NEW r \in Req, NEW c \in Conn, NEW n,
           req'[r] = n, \A s \in Req \ {r} : req'[s] = req[s],
           \A s \in Holding \ {r} : req[s].conn # c,
           \A d \in Conn \ {c} : path'[d] = path[d],
           Holding' \in {Holding \cup {r}, Holding \ {r}},
           n.stage = "set" => /\ r \in Holding' /\ path'[n.conn] = n.for
                              /\ n.met \cup n.wrote \subseteq {n.for, Public}
    PROVE  SetHolds'
  <1> SUFFICES ASSUME NEW s \in Req \ {r}, req[s].stage = "set"
               PROVE  /\ s \in Holding' /\ path'[req[s].conn] = req[s].for
                      /\ req[s].met \cup req[s].wrote \subseteq {req[s].for, Public}
    BY DEF SetHolds
  <1>1. s \in Holding /\ path[req[s].conn] = req[s].for
        /\ req[s].met \cup req[s].wrote \subseteq {req[s].for, Public}
    BY DEF SetHolds
  <1>2. req[s].conn \in Conn
    BY <1>1 DEF TypeOK, Holding, Requests, Sessions
  <1> QED
    BY <1>1, <1>2

LEMMA ProvisioningKept ==
    ASSUME Provisioning, NEW r \in Req, NEW n, req'[r] = n,
           \A s \in Req \ {r} : req'[s] = req[s], orgs \subseteq orgs',
           n = Idle \/ n.new \cup n.made \subseteq orgs'
    PROVE  Provisioning'
  BY DEF Provisioning

\* Nobody but r is in flight.
Lone(r) == \A s \in Req \ {r} : req[s] = Idle

LEMMA EmptySequence == \A s \in Seq(Conn) : Len(s) = 0 => s = <<>>
  OBVIOUS

LEMMA LonePool ==
    ASSUME TypeOK, Alone, NEW r \in Req, Lone(r)
    PROVE  LeftBy(r) = <<>> /\ Holding \subseteq {r}
  <1>1. Holding \subseteq {r}
    BY DEF Lone, Holding
  <1>2. CASE r \in Holding
    BY <1>1, <1>2 DEF Alone, OneSession, LeftBy, TypeOK
  <1>3. CASE r \notin Holding
    <2>1. Holding = {}
      BY <1>1, <1>3
    <2>2. free \in Seq(Conn) /\ Len(free) = 1
      BY <2>1 DEF Alone, OneSession, TypeOK
    <2>3. free # <<>>
      BY <2>2
    <2>4. Tail(free) \in Seq(Conn) /\ Len(Tail(free)) = 0
      BY <2>2, <2>3, TailFacts
    <2>5. Tail(free) = <<>>
      BY <2>4, EmptySequence
    <2> QED
      BY <1>1, <1>3, <2>3, <2>5 DEF LeftBy, Left
  <1> QED
    BY <1>1, <1>2, <1>3

LEMMA AloneTakes ==
    ASSUME TypeOK, PoolSound, Alone, NEW r \in Req, Lone(r), NEW c, NEW q, Takes(r, c, q),
           Knows(r)', astray' = {}
    PROVE  Alone'
  <1>1. free' = <<>> /\ Holding' = {r} /\ \A s \in Req \ {r} : req'[s] = Idle
    BY LonePool, TakeStep DEF Takes, Lone
  <1>2. req'[r] # Idle
    BY TakeStep, SessionIsNotIdle DEF Takes
  <1> QED
    BY <1>1, <1>2 DEF Alone, OneSession

LEMMA AloneGives ==
    ASSUME TypeOK, PoolSound, Alone, NEW r \in Req, Lone(r), NEW c, NEW q, Gives(r, c, q),
           IF q = Idle THEN schemas' = orgs' ELSE Knows(r)', astray' = {}
    PROVE  Alone'
  <1>1. Holding' = {} /\ req'[r] = q /\ \A s \in Req \ {r} : req'[s] = Idle
    BY LonePool, GiveStep DEF Lone
  <1>2. c \in Conn /\ free' = Append(<<>>, c)
    BY LonePool, GiveStep DEF Gives
  <1>3. Len(free') = 1
    BY <1>2
  <1> QED
    BY <1>1, <1>3 DEF Alone, OneSession

\* Nothing is shared yet and stays so, and r is in flight.
LEMMA InFlightAlone ==
    ASSUME IInv, ~shared, NEW r \in Req, req[r] # Idle
    PROVE  Alone /\ Lone(r) /\ Knows(r)
  BY DEF IInv, Alone, OneSession, Lone

----------------------------------------------------------------------------
(* One lemma per action.                                                   *)

LEMMA StatementKeeps ==
    ASSUME IInv, NEW r \in Req, NEW write \in BOOLEAN, Statement(r, write)
    PROVE  IInv'
  <1> USE DEF Statement
  <1>1. PICK q \in Sessions : req[r] = q
    BY DEF IInv, TypeOK, Requests
  <1>c. PICK c \in Borrowed(r) : \E n :
          /\ n = [q EXCEPT !.conn = c, !.met = @ \cup {Meets(c)},
                           !.wrote = IF write THEN @ \cup {Meets(c)} ELSE @]
          /\ req' = [req EXCEPT ![r] = n]
    BY <1>1
  <1>2. PICK n :
          /\ n = [q EXCEPT !.conn = c, !.met = @ \cup {Meets(c)},
                           !.wrote = IF write THEN @ \cup {Meets(c)} ELSE @]
          /\ req' = [req EXCEPT ![r] = n]
    BY <1>c
  <1>3. /\ Meets(c) \in Schema
        /\ path[c] \in schemas => Meets(c) = path[c]
        /\ Meets(c) \in {path[c], Public}
    BY DEF IInv, TypeOK, Meets, Schema
  <1>4. /\ n \in Sessions /\ n.conn = c /\ n.for = q.for /\ n.stage = q.stage
        /\ n.admin = q.admin /\ n.new = q.new /\ n.made = q.made
        /\ n.met = q.met \cup {Meets(c)} /\ n.wrote \subseteq q.wrote \cup {Meets(c)}
    <2>1. c \in Conn
      BY Borrowing DEF IInv
    <2> QED
      BY <1>2, <1>3, <2>1 DEF Sessions
  <1>5. Takes(r, c, n)
    BY <1>2, <1>4 DEF Takes
  <1>6. TypeOK'
    BY <1>5, TakeStep DEF IInv, TypeOK
  <1>7. PoolSound' /\ Provisioning'
    BY <1>1, <1>2, <1>4, <1>5, TakeStep, ProvisioningKept DEF IInv, Provisioning
  <1>8. SetHolds'
    <2>1. q.stage = "set" => /\ r \in Holding /\ path[q.conn] = q.for /\ c = q.conn
                             /\ q.met \cup q.wrote \subseteq {q.for, Public}
      BY <1>1 DEF IInv, SetHolds, Borrowed
    <2>2. /\ req'[r] = n /\ Holding' = Holding \cup {r} /\ c \in Conn
          /\ \A s \in Req \ {r} : req'[s] = req[s]
          /\ \A s \in Holding \ {r} : req[s].conn # c
      BY <1>5, TakeStep DEF IInv
    <2>3. n.stage = "set" => /\ r \in Holding' /\ path'[n.conn] = n.for
                             /\ n.met \cup n.wrote \subseteq {n.for, Public}
      BY <1>3, <1>4, <2>1, <2>2
    <2>4. \A d \in Conn \ {c} : path'[d] = path[d]
      OBVIOUS
    <2> HIDE DEF Statement
    <2> QED
      BY <2>2, <2>3, <2>4, SetKept DEF IInv
  <1>9. ASSUME ~shared' PROVE Alone'
    <2>1. ~shared /\ q.stage \in {"set", "kept"} /\ q # Idle /\ q.for # Public
      BY <1>1, <1>9 DEF Sessions
    <2>2. Alone /\ Lone(r) /\ Knows(r)
      BY <1>1, <2>1, InFlightAlone
    <2>3. path[c] = q.for /\ (q.stage = "kept" => base[c] = q.for) /\ q.for \in schemas
      <3>1. CASE q.stage = "set"
        BY <1>1, <2>1, <2>2, <3>1 DEF IInv, SetHolds, Borrowed, Knows
      <3>2. CASE q.stage = "kept"
        <4>1. c \in Conn
          BY Borrowing DEF IInv
        <4> QED
          BY <1>1, <2>1, <2>2, <3>2, <4>1 DEF Knows
      <3> QED
        BY <2>1, <3>1, <3>2
    <2>4. Knows(r)'
      <3>1. req'[r] = n /\ Borrowed(r)' = {c}
        BY <1>5, TakeStep DEF IInv
      <3> QED
        BY <1>1, <1>3, <1>4, <2>1, <2>2, <2>3, <3>1 DEF Knows
    <2> QED
      BY <1>5, <2>2, <2>4, AloneTakes DEF IInv, Alone
  <1> QED
    BY <1>6, <1>7, <1>8, <1>9 DEF IInv

LEMMA ArriveKeeps ==
    ASSUME IInv, NEW r \in Req, NEW o \in Schema, NEW admin \in BOOLEAN, Arrive(r, o, admin)
    PROVE  IInv'
  <1> USE DEF Arrive
  <1>1. r \notin Holding
    BY DEF Holding
  <1>c. PICK c \in Borrowed(r) : \E n :
          /\ n = [stage |-> "set", admin |-> admin, for |-> o, conn |-> c,
                  met |-> {}, wrote |-> {}, new |-> {}, made |-> {}]
          /\ path' = [path EXCEPT ![c] = o]
          /\ req' = [req EXCEPT ![r] = n]
    BY <1>1 DEF Borrowed
  <1>2. PICK n :
          /\ n = [stage |-> "set", admin |-> admin, for |-> o, conn |-> c,
                  met |-> {}, wrote |-> {}, new |-> {}, made |-> {}]
          /\ path' = [path EXCEPT ![c] = o]
          /\ req' = [req EXCEPT ![r] = n]
    BY <1>c
  <1>3. c \in Conn
    BY Borrowing DEF IInv
  <1>4. n \in Sessions
    BY <1>2, <1>3 DEF Sessions
  <1>5. Takes(r, c, n)
    BY <1>1, <1>2, <1>4 DEF Takes, LeftBy
  <1>6. TypeOK'
    BY <1>2, <1>5, TakeStep DEF IInv, TypeOK
  <1>7. PoolSound' /\ Provisioning'
    BY <1>1, <1>2, <1>4, <1>5, TakeStep, ProvisioningKept DEF IInv, Provisioning
  <1>8. SetHolds'
    <2>1. path'[c] = o /\ \A d \in Conn \ {c} : path'[d] = path[d]
      BY <1>2, <1>3 DEF IInv, TypeOK
    <2> QED
      BY <1>2, <1>3, <1>5, <2>1, TakeStep, SetKept DEF IInv
  <1>9. ASSUME ~shared' PROVE Alone'
    <2>1. ~shared /\ Alone /\ Lone(r) /\ \A s \in Req : req[s] = Idle
      BY <1>9 DEF OthersInFlight, IInv, Lone
    <2>2. schemas = orgs
      BY <2>1 DEF Alone
    <2>3. Knows(r)'
      <3>1. req'[r] = n
        BY <1>5, TakeStep DEF IInv
      <3> QED
        BY <1>2, <2>2, <3>1 DEF Knows
    <2> QED
      BY <1>5, <2>1, <2>3, AloneTakes DEF IInv, Alone
  <1> QED
    BY <1>6, <1>7, <1>8, <1>9 DEF IInv

LEMMA ReadyKeeps ==
    ASSUME IInv, NEW r \in Req, Ready(r)
    PROVE  IInv'
  <1> USE DEF Ready
  <1>1. r \notin Holding
    BY DEF Holding
  <1>c. PICK c \in Borrowed(r) : \E n :
          /\ n = [stage |-> "kept", admin |-> FALSE, for |-> Public, conn |-> c,
                  met |-> {}, wrote |-> {}, new |-> {}, made |-> {}]
          /\ req' = [req EXCEPT ![r] = n]
    BY <1>1 DEF Borrowed
  <1>2. PICK n :
          /\ n = [stage |-> "kept", admin |-> FALSE, for |-> Public, conn |-> c,
                  met |-> {}, wrote |-> {}, new |-> {}, made |-> {}]
          /\ req' = [req EXCEPT ![r] = n]
    BY <1>c
  <1>3. c \in Conn
    BY Borrowing DEF IInv
  <1>4. n \in Sessions
    BY <1>2, <1>3 DEF Sessions, Schema
  <1>5. Takes(r, c, n)
    BY <1>1, <1>2, <1>4 DEF Takes, LeftBy
  <1>6. TypeOK' /\ PoolSound'
    BY <1>5, TakeStep DEF IInv, TypeOK
  <1>9. Provisioning'
    BY <1>2, <1>5, TakeStep, ProvisioningKept DEF IInv
  <1>7. SetHolds'
    BY <1>2, <1>3, <1>5, TakeStep, SetKept DEF IInv
  <1>8. ASSUME ~shared' PROVE Alone'
    <2>1. ~shared /\ Alone /\ Lone(r) /\ \A s \in Req : req[s] = Idle
      BY <1>8 DEF OthersInFlight, IInv, Lone
    <2>2. schemas = orgs
      BY <2>1 DEF Alone
    <2>3. Knows(r)'
      <3>1. req'[r] = n
        BY <1>5, TakeStep DEF IInv
      <3> QED
        BY <1>2, <2>2, <3>1 DEF Knows
    <2> QED
      BY <1>5, <2>1, <2>3, AloneTakes DEF IInv, Alone
  <1> QED
    BY <1>6, <1>7, <1>8, <1>9 DEF IInv

LEMMA CommitKeeps ==
    ASSUME IInv, NEW r \in Req, Commit(r)
    PROVE  IInv'
  <1> USE DEF Commit
  <1>1. PICK q \in Sessions : req[r] = q /\ q # Idle /\ q.conn # Null
    BY DEF IInv, TypeOK, Requests, Holding
  <1>c. PICK c \in Borrowed(r) : \E n :
          /\ c = q.conn
          /\ n = [q EXCEPT !.conn = Null, !.met = {}, !.wrote = {}, !.made = {},
                           !.stage = IF @ = "set" THEN "kept" ELSE @]
          /\ req' = [req EXCEPT ![r] = n]
          /\ base' = [base EXCEPT ![c] = path[c]]
          /\ free' = Append(free, c)
    BY <1>1 DEF Borrowed
  <1>2. PICK n :
          /\ c = q.conn
          /\ n = [q EXCEPT !.conn = Null, !.met = {}, !.wrote = {}, !.made = {},
                           !.stage = IF @ = "set" THEN "kept" ELSE @]
          /\ req' = [req EXCEPT ![r] = n]
          /\ base' = [base EXCEPT ![c] = path[c]]
          /\ free' = Append(free, c)
    BY <1>c
  <1>3. c \in Conn
    BY Borrowing DEF IInv
  <1>4. /\ n \in Sessions /\ n.conn = Null /\ n.for = q.for /\ n.admin = q.admin
        /\ n.new = q.new /\ n.made = {} /\ n.met = {} /\ n.wrote = {}
        /\ n.stage = IF q.stage = "set" THEN "kept" ELSE q.stage
    BY <1>2 DEF Sessions
  <1>5. Gives(r, c, n)
    BY <1>2, <1>4 DEF Gives, LeftBy, Requests
  <1>6. TypeOK'
    <2>1. base' \in [Conn -> Schema]
      BY <1>2, <1>3 DEF IInv, TypeOK
    <2>2. schemas' \subseteq orgs'
      BY <1>1 DEF IInv, TypeOK, Provisioning
    <2>3. q.for \in Schema /\ q.wrote \subseteq Schema
      BY DEF Sessions
    <2>4. astray' \subseteq Schema \X Schema
      BY <1>1, <2>3 DEF IInv, TypeOK
    <2> QED
      BY <1>5, <2>1, <2>2, <2>4, GiveStep DEF IInv, TypeOK
  <1>7. PoolSound' /\ Provisioning'
    BY <1>1, <1>4, <1>5, GiveStep, ProvisioningKept DEF IInv, Provisioning
  <1>8. SetHolds'
    BY <1>3, <1>4, <1>5, GiveStep, SetKept DEF IInv
  <1>9. ASSUME ~shared' PROVE Alone'
    <2>1. Alone /\ Lone(r) /\ Knows(r)
      BY <1>1, <1>9, InFlightAlone
    <2>2. free = <<>> /\ LeftBy(r) = <<>> /\ Borrowed(r)' = {c} /\ req'[r] = n
      BY <1>1, <1>5, <2>1, GiveStep, LonePool DEF IInv, LeftBy, Holding
    <2>3. base'[c] = path[c] /\ path'[c] = path[c]
      BY <1>2, <1>3 DEF IInv, TypeOK
    <2>4. q.stage = "set" => path[c] = q.for
      BY <1>1, <1>2 DEF IInv, SetHolds
    <2>5. q.stage = "kept" /\ q.for # Public => path[c] = q.for
      BY <1>1, <1>2, <1>3, <2>1 DEF Knows, Borrowed, Holding
    <2>6. q.wrote \subseteq {q.for} /\ astray' = {}
      BY <1>1, <2>1 DEF Knows, Alone
    <2>7. Knows(r)'
      BY <1>1, <1>4, <2>1, <2>2, <2>3, <2>4, <2>5 DEF Knows
    <2> QED
      BY <1>4, <1>5, <2>1, <2>6, <2>7, AloneGives, SessionIsNotIdle DEF IInv
  <1> QED
    BY <1>6, <1>7, <1>8, <1>9 DEF IInv

LEMMA RollbackKeeps ==
    ASSUME IInv, NEW r \in Req, Rollback(r)
    PROVE  IInv'
  <1> USE DEF Rollback
  <1>1. PICK q \in Sessions : req[r] = q /\ q # Idle /\ q.conn # Null
    BY DEF IInv, TypeOK, Requests, Holding
  <1>c. PICK c \in Borrowed(r) : \E n :
          /\ c = q.conn
          /\ n = [q EXCEPT !.conn = Null, !.met = {}, !.wrote = {},
                           !.stage = IF @ = "set" THEN "undone" ELSE @]
          /\ req' = [req EXCEPT ![r] = n]
          /\ path' = [path EXCEPT ![c] = base[c]]
          /\ free' = Append(free, c)
    BY <1>1 DEF Borrowed
  <1>2. PICK n :
          /\ c = q.conn
          /\ n = [q EXCEPT !.conn = Null, !.met = {}, !.wrote = {},
                           !.stage = IF @ = "set" THEN "undone" ELSE @]
          /\ req' = [req EXCEPT ![r] = n]
          /\ path' = [path EXCEPT ![c] = base[c]]
          /\ free' = Append(free, c)
    BY <1>c
  <1>3. c \in Conn
    BY Borrowing DEF IInv
  <1>4. /\ n \in Sessions /\ n.conn = Null /\ n.for = q.for /\ n.admin = q.admin
        /\ n.new = q.new /\ n.made = q.made /\ n.met = {} /\ n.wrote = {}
        /\ n.stage = IF q.stage = "set" THEN "undone" ELSE q.stage
    BY <1>2 DEF Sessions
  <1>5. Gives(r, c, n)
    BY <1>2, <1>4 DEF Gives, LeftBy, Requests
  <1>6. TypeOK'
    <2>1. path' \in [Conn -> Schema]
      BY <1>2, <1>3 DEF IInv, TypeOK
    <2> QED
      BY <1>5, <2>1, GiveStep DEF IInv, TypeOK
  <1>7. PoolSound' /\ Provisioning'
    BY <1>1, <1>4, <1>5, GiveStep, ProvisioningKept DEF IInv, Provisioning
  <1>8. SetHolds'
    <2>1. \A d \in Conn \ {c} : path'[d] = path[d]
      BY <1>2, <1>3 DEF IInv, TypeOK
    <2> QED
      BY <1>3, <1>4, <1>5, <2>1, GiveStep, SetKept DEF IInv
  <1>9. ASSUME ~shared' PROVE Alone'
    <2>1. Alone /\ Lone(r) /\ Knows(r)
      BY <1>1, <1>9, InFlightAlone
    <2>2. LeftBy(r) = <<>> /\ Borrowed(r)' = {c} /\ req'[r] = n
      BY <1>5, <2>1, GiveStep, LonePool DEF IInv
    <2>3. base'[c] = base[c] /\ path'[c] = base[c]
      BY <1>2, <1>3 DEF IInv, TypeOK
    <2>4. q.stage = "kept" /\ q.for # Public => base[c] = q.for
      BY <1>1, <1>2, <1>3, <2>1 DEF Knows, Borrowed, Holding
    <2>5. Knows(r)'
      BY <1>1, <1>4, <2>1, <2>2, <2>3, <2>4 DEF Knows
    <2> QED
      BY <1>4, <1>5, <2>1, <2>5, AloneGives, SessionIsNotIdle DEF IInv, Alone
  <1> QED
    BY <1>6, <1>7, <1>8, <1>9 DEF IInv

LEMMA FinishKeeps ==
    ASSUME IInv, NEW r \in Req, Finish(r)
    PROVE  IInv'
  <1> USE DEF Finish
  <1>1. PICK c \in Borrowed(r) : /\ path' = [path EXCEPT ![c] = base[c]]
                                 /\ free' = Append(LeftBy(r), c)
    OBVIOUS
  <1>2. c \in Conn
    BY Borrowing DEF IInv
  <1>3. Gives(r, c, Idle)
    BY <1>1 DEF Gives, Requests
  <1>4. TypeOK'
    BY <1>1, <1>2, <1>3, GiveStep DEF IInv, TypeOK
  <1>5. PoolSound' /\ Provisioning'
    BY <1>3, GiveStep, ProvisioningKept DEF IInv
  <1>6. SetHolds'
    <2>1. \A d \in Conn \ {c} : path'[d] = path[d]
      BY <1>1, <1>2 DEF IInv, TypeOK
    <2>2. Idle.stage # "set"
      BY DEF Idle
    <2> QED
      BY <1>2, <1>3, <2>1, <2>2, GiveStep, SetKept DEF IInv
  <1>7. ASSUME ~shared' PROVE Alone'
    <2>1. Alone /\ Lone(r) /\ Knows(r)
      BY <1>7, InFlightAlone
    <2>2. schemas' = orgs' /\ astray' = {}
      BY <2>1 DEF Knows, Alone
    <2> QED
      BY <1>3, <2>1, <2>2, AloneGives DEF IInv
  <1> QED
    BY <1>4, <1>5, <1>6, <1>7 DEF IInv

LEMMA VisitKeeps ==
    ASSUME IInv, NEW r \in Req, NEW o \in Schema, Visit(r, o)
    PROVE  IInv'
  <1> USE DEF Visit
  <1>1. PICK q \in Sessions : req[r] = q /\ q # Idle
    BY DEF IInv, TypeOK, Requests
  <1>c. PICK c \in Borrowed(r) : \E n :
          /\ n = [q EXCEPT !.conn = c, !.for = o, !.stage = "set", !.met = {}]
          /\ req' = [req EXCEPT ![r] = n]
          /\ path' = [path EXCEPT ![c] = o]
    BY <1>1
  <1>2. PICK n :
          /\ n = [q EXCEPT !.conn = c, !.for = o, !.stage = "set", !.met = {}]
          /\ req' = [req EXCEPT ![r] = n]
          /\ path' = [path EXCEPT ![c] = o]
    BY <1>c
  <1>3. c \in Conn
    BY Borrowing DEF IInv
  <1>4. /\ n \in Sessions /\ n.conn = c /\ n.for = o /\ n.stage = "set"
        /\ n.admin = q.admin /\ n.new = {} /\ n.made = {} /\ n.met = {} /\ n.wrote = {}
    BY <1>1, <1>2, <1>3 DEF Sessions
  <1>5. Takes(r, c, n)
    BY <1>2, <1>4 DEF Takes
  <1>6. TypeOK'
    BY <1>2, <1>3, <1>5, TakeStep DEF IInv, TypeOK
  <1>7. PoolSound' /\ Provisioning'
    BY <1>1, <1>4, <1>5, TakeStep, ProvisioningKept DEF IInv, Provisioning
  <1>8. SetHolds'
    <2>1. path'[c] = o /\ \A d \in Conn \ {c} : path'[d] = path[d]
      BY <1>2, <1>3 DEF IInv, TypeOK
    <2> HIDE DEF Visit
    <2>2. /\ req'[r] = n /\ Holding' = Holding \cup {r}
          /\ \A s \in Req \ {r} : req'[s] = req[s]
          /\ \A s \in Holding \ {r} : req[s].conn # c
      BY <1>5, TakeStep DEF IInv
    <2>3. r \in Holding' /\ path'[n.conn] = n.for /\ n.met \cup n.wrote \subseteq {n.for, Public}
      BY <1>4, <2>1, <2>2
    <2> QED
      BY <1>3, <2>1, <2>2, <2>3, SetKept DEF IInv
  <1>9. ASSUME ~shared' PROVE Alone'
    <2>1. Alone /\ Lone(r) /\ Knows(r)
      BY <1>1, <1>9, InFlightAlone
    <2>2. req'[r] = n
      <3> HIDE DEF Visit
      <3> QED
        BY <1>5, TakeStep DEF IInv
    <2>3. Knows(r)'
      BY <1>1, <1>4, <2>1, <2>2 DEF Knows
    <2> QED
      BY <1>5, <2>1, <2>3, AloneTakes DEF IInv, Alone
  <1> QED
    BY <1>6, <1>7, <1>8, <1>9 DEF IInv

LEMMA CreateOrgKeeps ==
    ASSUME IInv, NEW r \in Req, NEW o \in Org, CreateOrg(r, o)
    PROVE  IInv'
  <1> USE DEF CreateOrg
  <1>1. PICK q \in Sessions : req[r] = q /\ q # Idle /\ q.conn # Null
    BY DEF IInv, TypeOK, Requests, Holding
  <1>c. PICK c \in Borrowed(r) : \E n :
          /\ c = q.conn
          /\ n = [q EXCEPT !.conn = Null, !.met = {}, !.wrote = {}, !.new = {o},
                           !.stage = "kept"]
          /\ req' = [req EXCEPT ![r] = n]
          /\ base' = [base EXCEPT ![c] = path[c]]
          /\ free' = Append(free, c)
    BY <1>1 DEF Borrowed
  <1>2. PICK n :
          /\ c = q.conn
          /\ n = [q EXCEPT !.conn = Null, !.met = {}, !.wrote = {}, !.new = {o},
                           !.stage = "kept"]
          /\ req' = [req EXCEPT ![r] = n]
          /\ base' = [base EXCEPT ![c] = path[c]]
          /\ free' = Append(free, c)
    BY <1>c
  <1>3. c \in Conn
    BY Borrowing DEF IInv
  <1>4. /\ n \in Sessions /\ n.conn = Null /\ n.for = q.for /\ n.admin = q.admin
        /\ n.new = {o} /\ n.made = q.made /\ n.met = {} /\ n.wrote = {} /\ n.stage = "kept"
    BY <1>2 DEF Sessions
  <1>5. Gives(r, c, n)
    BY <1>2, <1>4 DEF Gives, LeftBy, Requests
  <1>6. TypeOK'
    <2>1. base' \in [Conn -> Schema]
      BY <1>2, <1>3 DEF IInv, TypeOK
    <2> QED
      BY <1>5, <2>1, GiveStep DEF IInv, TypeOK
  <1>7. PoolSound' /\ Provisioning'
    <2>1. n.new \cup n.made \subseteq orgs'
      BY <1>1, <1>4 DEF IInv, Provisioning
    <2> QED
      BY <1>5, <2>1, GiveStep, ProvisioningKept DEF IInv
  <1>8. SetHolds'
    BY <1>3, <1>4, <1>5, GiveStep, SetKept DEF IInv
  <1>9. ASSUME ~shared' PROVE Alone'
    <2>1. Alone /\ Lone(r) /\ Knows(r)
      BY <1>1, <1>9, InFlightAlone
    <2>2. req'[r] = n
      BY <1>5, GiveStep DEF IInv
    <2>3. q.new = {} /\ q.made = {}
      BY <1>1
    <2>4. Knows(r)'
      BY <1>1, <1>4, <2>1, <2>2, <2>3 DEF Knows
    <2> QED
      BY <1>4, <1>5, <2>1, <2>4, AloneGives, SessionIsNotIdle DEF IInv, Alone
  <1> QED
    BY <1>6, <1>7, <1>8, <1>9 DEF IInv

LEMMA ProvisionKeeps ==
    ASSUME IInv, NEW r \in Req, Provision(r)
    PROVE  IInv'
  <1> USE DEF Provision
  <1>1. PICK q \in Sessions : req[r] = q /\ q # Idle
    BY DEF IInv, TypeOK, Requests
  <1>c. PICK c \in Borrowed(r) : \E n :
          /\ n = [q EXCEPT !.conn = c, !.new = {}, !.made = q.new]
          /\ req' = [req EXCEPT ![r] = n]
    BY <1>1
  <1>2. PICK n :
          /\ n = [q EXCEPT !.conn = c, !.new = {}, !.made = q.new]
          /\ req' = [req EXCEPT ![r] = n]
    BY <1>c
  <1>3. c \in Conn
    BY Borrowing DEF IInv
  <1>4. /\ n \in Sessions /\ n.conn = c /\ n.for = q.for /\ n.stage = q.stage
        /\ n.admin = q.admin /\ n.new = {} /\ n.made = q.new
        /\ n.met = q.met /\ n.wrote = q.wrote
    BY <1>2, <1>3 DEF Sessions
  <1>5. Takes(r, c, n)
    BY <1>2, <1>4 DEF Takes
  <1>6. TypeOK'
    BY <1>5, TakeStep DEF IInv, TypeOK
  <1>7. PoolSound' /\ Provisioning'
    BY <1>1, <1>4, <1>5, TakeStep, ProvisioningKept DEF IInv, Provisioning
  <1>8. SetHolds'
    <2>1. q.stage = "set" => /\ r \in Holding /\ path[q.conn] = q.for /\ c = q.conn
                             /\ q.met \cup q.wrote \subseteq {q.for, Public}
      BY <1>1 DEF IInv, SetHolds, Borrowed
    <2>2. /\ req'[r] = n /\ Holding' = Holding \cup {r}
          /\ \A s \in Req \ {r} : req'[s] = req[s]
          /\ \A s \in Holding \ {r} : req[s].conn # c
      BY <1>5, TakeStep DEF IInv
    <2>3. n.stage = "set" => /\ r \in Holding' /\ path'[n.conn] = n.for
                             /\ n.met \cup n.wrote \subseteq {n.for, Public}
      BY <1>4, <2>1, <2>2
    <2>4. \A d \in Conn \ {c} : path'[d] = path[d]
      OBVIOUS
    <2> HIDE DEF Provision
    <2> QED
      BY <1>3, <2>2, <2>3, <2>4, SetKept DEF IInv
  <1>9. ASSUME ~shared' PROVE Alone'
    <2>1. Alone /\ Lone(r) /\ Knows(r)
      BY <1>1, <1>9, InFlightAlone
    <2>2. req'[r] = n
      BY <1>5, TakeStep DEF IInv
    <2>3. q.new # {} /\ q.made = {} /\ q.for = Public
      BY <1>1, <2>1 DEF Knows
    <2>4. Knows(r)'
      BY <1>1, <1>4, <2>1, <2>2, <2>3 DEF Knows
    <2> QED
      BY <1>5, <2>1, <2>4, AloneTakes DEF IInv, Alone
  <1> QED
    BY <1>6, <1>7, <1>8, <1>9 DEF IInv

----------------------------------------------------------------------------
(* Boots.                                                                  *)

LEMMA BootStarts ==
    ASSUME Init
    PROVE  IInv
  <1> USE DEF Init
  <1>1. PICK o \in Org, c \in Conn : orgs = {o} /\ path = BootPath(o, c) /\ free = <<c>>
    OBVIOUS
  <1>2. BootPath(o, c) \in [Conn -> Schema]
    BY DEF BootPath, Schema
  <1>3. /\ free \in Seq(Conn) /\ Len(free) = 1 /\ Once(free)
    BY <1>1 DEF Once
  <1>4. Holding = {} /\ \A r \in Req : req[r] = Idle /\ req[r].stage # "set"
    BY DEF Holding, Idle
  <1>5. TypeOK
    <2>1. req \in [Req -> Requests]
      BY DEF Requests
    <2> QED
      BY <1>1, <1>2, <1>3, <2>1 DEF TypeOK
  <1>6. PoolSound /\ Provisioning /\ SetHolds
    BY <1>3, <1>4 DEF PoolSound, Provisioning, SetHolds
  <1>7. Alone
    BY <1>3, <1>4 DEF Alone, OneSession
  <1> QED
    BY <1>5, <1>6, <1>7 DEF IInv

LEMMA RestartKeeps ==
    ASSUME IInv, Restart
    PROVE  IInv'
  <1> USE DEF Restart
  <1>1. PICK o \in orgs, c \in Conn :
          path' = BootPath(o, c) /\ base' = BootPath(o, c) /\ free' = <<c>>
    OBVIOUS
  <1>2. schemas' = orgs /\ orgs' = orgs /\ orgs \subseteq Org
    BY DEF IInv, TypeOK
  <1>3. BootPath(o, c) \in [Conn -> Schema]
    BY <1>2 DEF BootPath, Schema
  <1>4. /\ free' \in Seq(Conn) /\ Len(free') = 1 /\ Once(free')
    BY <1>1 DEF Once
  <1>5. Holding' = {} /\ \A r \in Req : req'[r] = Idle /\ req'[r].stage # "set"
    BY DEF Holding, Idle
  <1>6. TypeOK'
    <2>1. req' \in [Req -> Requests]
      BY DEF Requests
    <2>2. path' \in [Conn -> Schema] /\ base' \in [Conn -> Schema]
      BY <1>1, <1>3
    <2>3. astray' \subseteq Schema \X Schema /\ shared' \in BOOLEAN
      BY DEF IInv, TypeOK
    <2> HIDE DEF Restart
    <2> QED
      BY <1>2, <1>4, <2>1, <2>2, <2>3 DEF TypeOK
  <1>7. PoolSound' /\ Provisioning' /\ SetHolds'
    BY <1>4, <1>5 DEF PoolSound, Provisioning, SetHolds
  <1>8. ASSUME ~shared' PROVE Alone'
    <2>1. astray' = {}
      BY <1>8 DEF IInv, Alone
    <2> QED
      BY <1>2, <1>4, <1>5, <2>1 DEF Alone, OneSession
  <1> QED
    BY <1>6, <1>7, <1>8 DEF IInv

----------------------------------------------------------------------------
(* The invariant and what follows from it.                                 *)

LEMMA StepKeeps ==
    ASSUME IInv, [Next]_vars
    PROVE  IInv'
  <1>1. CASE Restart
    BY <1>1, RestartKeeps
  <1>2. ASSUME NEW r \in Req, NEW o \in Schema, NEW admin \in BOOLEAN, Arrive(r, o, admin)
        PROVE  IInv'
    BY <1>2, ArriveKeeps
  <1>3. ASSUME NEW r \in Req, Ready(r)
        PROVE  IInv'
    BY <1>3, ReadyKeeps
  <1>4. ASSUME NEW r \in Req, NEW write \in BOOLEAN, Statement(r, write)
        PROVE  IInv'
    BY <1>4, StatementKeeps
  <1>5. ASSUME NEW r \in Req, Commit(r)
        PROVE  IInv'
    BY <1>5, CommitKeeps
  <1>6. ASSUME NEW r \in Req, Rollback(r)
        PROVE  IInv'
    BY <1>6, RollbackKeeps
  <1>7. ASSUME NEW r \in Req, Finish(r)
        PROVE  IInv'
    BY <1>7, FinishKeeps
  <1>8. ASSUME NEW r \in Req, NEW o \in Schema, Visit(r, o)
        PROVE  IInv'
    BY <1>8, VisitKeeps
  <1>9. ASSUME NEW r \in Req, NEW o \in Org, CreateOrg(r, o)
        PROVE  IInv'
    BY <1>9, CreateOrgKeeps
  <1>10. ASSUME NEW r \in Req, Provision(r)
         PROVE  IInv'
    BY <1>10, ProvisionKeeps
  <1>11. CASE UNCHANGED vars
    BY <1>11 DEF vars, IInv, TypeOK, PoolSound, Provisioning, SetHolds, Holding, Alone,
                 OneSession, Knows, Borrowed, Pooled, Unopened, Once, In
  <1> QED
    BY <1>1, <1>2, <1>3, <1>4, <1>5, <1>6, <1>7, <1>8, <1>9, <1>10, <1>11 DEF Next

LEMMA Inductive == Spec => []IInv
  BY BootStarts, StepKeeps, PTL DEF Spec

\* The type invariant, for any organizations, connections and requests.
THEOREM TypeCorrect == Spec => []TypeOK
  <1>1. IInv => TypeOK
    BY DEF IInv
  <1> QED
    BY <1>1, Inductive, PTL

\* However requests interleave on the pool, none meets the tables of another
\* organization in the transaction in which get_current_user set its path.
THEOREM FirstTransactionCorrect == Spec => []FirstTransactionAtHome
  <1>1. IInv => FirstTransactionAtHome
    BY DEF IInv, SetHolds, FirstTransactionAtHome
  <1> QED
    BY <1>1, Inductive, PTL

\* As long as sessions never overlapped and none went on after a rollback,
\* every statement and row was in the schema of the request's organization.
THEOREM AloneAtHomeCorrect == Spec => []AloneAtHome
  <1>1. IInv => AloneAtHome
    BY DEF IInv, Alone, Knows, AloneAtHome
  <1> QED
    BY <1>1, Inductive, PTL
============================================================================
