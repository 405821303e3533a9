----------------------- MODULE LivenessChallengeProofs -----------------------
(***************************************************************************)
(* The safety properties of LivenessChallenge, for any number of ids,      *)
(* users and requests, any TTL and any clock bound.                        *)
(***************************************************************************)
EXTENDS LivenessChallenge, TLAPS

(* The inductive invariant, in parts.                                      *)

\* Before its first registration an id is unused and not in the dict.
Fresh == \A c \in Id : verdict[c] = "none" => uses[c] = 0 /\ c \notin Held

\* A challenge being issued is registered by nobody else.
Issuing ==
    \A r \in Req : req[r].pc = "purge" /\ req[r].job = "issue" =>
        /\ verdict[req[r].id] = "none"
        /\ \A q \in Req : /\ req[q].pc = "purge" /\ req[q].job = "issue"
                          /\ req[q].id = req[r].id
                          => q = r

\* The record of a held challenge agrees with its history.
InSync ==
    \A c \in Held : /\ sessions[c].resolved <=> verdict[c] \in {"live", "spoof"}
                    /\ sessions[c].live <=> verdict[c] = "live"
                    /\ sessions[c].consumed <=> uses[c] > 0

\* The deletion list of a purge holds the keys that were expired when it
\* looked at the clock, as far as they are still there.
PurgeLists ==
    \A r \in Req : req[r].pc = "purge" =>
        /\ req[r].asked <= now
        /\ \A c \in req[r].dead : verdict[c] # "none"
        /\ \A c \in Held : c \in req[r].dead <=> sessions[c].expires < req[r].asked

Granted == \A r \in Req : req[r].pc = "score" => verdict[req[r].id] = "live"

IInv == /\ TypeOK
        /\ Fresh
        /\ Issuing
        /\ InSync
        /\ PurgeLists
        /\ Granted
        /\ OneShot
        /\ SpentWasLive

----------------------------------------------------------------------------
\* What TypeOK says of a request, by its pc.
LEMMA RequestTypes ==
    ASSUME NEW q, q \in Requests
    PROVE  /\ q.pc = "frames" => q \in Awaiting
           /\ q.pc = "purge" => q \in Purging
           /\ q.pc = "score" => q \in Scoring
           /\ q # Idle => q \in Awaiting \cup Purging \cup Scoring
  BY DEF Requests, Idle, Awaiting, Purging, Scoring

LEMMA IdleIsARequest == Idle \in Requests
  BY DEF Requests

LEMMA InitIInv == Init => IInv
  <1> SUFFICES ASSUME Init PROVE IInv
    OBVIOUS
  <1> USE DEF Init
  <1>1. Held = {}
    BY DEF Held
  <1>2. TypeOK
    BY <1>1, IdleIsARequest DEF TypeOK, Held
  <1>3. \A r \in Req : req[r].pc = "idle"
    BY DEF Idle
  <1> QED
    BY <1>1, <1>2, <1>3 DEF IInv, Fresh, Issuing, InSync, PurgeLists, Granted, OneShot, SpentWasLive, Held

----------------------------------------------------------------------------
(* Types.                                                                  *)

LEMMA ScanType ==
    ASSUME TypeOK, NEW r \in Req, NEW job \in Jobs, NEW c \in Id, NEW u \in User,
           Scan(r, job, c, u)
    PROVE  req' \in [Req -> Requests]
  <1>1. Expired(now) \subseteq Id
    BY DEF Expired, TypeOK
  <1>2. [pc |-> "purge", job |-> job, id |-> c, user |-> u, asked |-> now,
         dead |-> Expired(now)] \in Purging
    BY <1>1 DEF Purging, TypeOK
  <1> QED
    BY <1>2 DEF Scan, TypeOK, Requests

LEMMA ReturnType ==
    ASSUME TypeOK, NEW r \in Req
    PROVE  [req EXCEPT ![r] = Idle] \in [Req -> Requests]
  BY IdleIsARequest DEF TypeOK

LEMMA TypeStep == TypeOK /\ [Next]_vars => TypeOK'
  <1> SUFFICES ASSUME TypeOK, [Next]_vars PROVE TypeOK'
    OBVIOUS
  <1> USE TTLAssumption
  <1>1. CASE Tick
    BY <1>1 DEF Tick, TypeOK, Held
  <1>2. CASE Restart
    BY <1>2, IdleIsARequest DEF Restart, TypeOK, Held
  <1>3. ASSUME NEW r \in Req, PurgeDelete(r) PROVE TypeOK'
    <2>1. req[r] \in Purging
      BY <1>3, RequestTypes DEF TypeOK, PurgeDelete
    <2>2. PICK c \in req[r].dead : PurgeDelete(r)!2!(c)
      BY <1>3 DEF PurgeDelete
    <2>3. CASE c \in Held
      <3>1. [req[r] EXCEPT !.dead = @ \ {c}] \in Requests
        BY <2>1 DEF Purging, Requests
      <3>2. req' = [req EXCEPT ![r] = [req[r] EXCEPT !.dead = @ \ {c}]]
        BY <2>2, <2>3
      <3>3. Held' \subseteq Id /\ sessions' \in [Held' -> Challenge]
        BY <2>2, <2>3 DEF TypeOK, Without, Held
      <3> QED
        BY <1>3, <2>2, <2>3, <3>1, <3>2, <3>3 DEF PurgeDelete, TypeOK
    <2>4. CASE c \notin Held
      BY <1>3, <2>2, <2>4, ReturnType DEF PurgeDelete, TypeOK, Held
    <2> QED
      BY <2>3, <2>4
  <1>4. ASSUME NEW r \in Req, IssueRegister(r) PROVE TypeOK'
    <2>1. req[r] \in Purging
      BY <1>4, RequestTypes DEF TypeOK, IssueRegister, Purged
    <2> DEFINE fresh == [expires |-> now + TTL, resolved |-> FALSE, live |-> FALSE,
                         user |-> req[r].user, consumed |-> FALSE]
    <2>2. fresh \in Challenge /\ req[r].id \in Id
      BY <2>1 DEF Purging, Challenge, TypeOK
    <2>3. sessions' = [k \in Held \cup {req[r].id} |->
                         IF k = req[r].id THEN fresh ELSE sessions[k]]
      BY <1>4 DEF IssueRegister
    <2>4. Held' \subseteq Id /\ sessions' \in [Held' -> Challenge]
      BY <2>2, <2>3 DEF TypeOK, Held
    <2>5. req' \in [Req -> Requests]
      BY <1>4, ReturnType DEF IssueRegister
    <2> QED
      BY <1>4, <2>2, <2>4, <2>5 DEF IssueRegister, TypeOK
  <1>5. ASSUME NEW r \in Req, CheckAbort(r) \/ CheckRefuse(r) \/ ConsumeRefuse(r) \/ Score(r)
        PROVE TypeOK'
    BY <1>5, ReturnType DEF CheckAbort, CheckRefuse, ConsumeRefuse, Score, TypeOK, Held
  <1>6. ASSUME NEW r \in Req, CheckStart(r) PROVE TypeOK'
    <2>1. req[r] \in Awaiting
      BY <1>6, RequestTypes DEF TypeOK, CheckStart
    <2>a. req[r].id \in Id /\ req[r].user \in User /\ "check" \in Jobs
      BY <2>1 DEF Awaiting, Jobs
    <2>b. Scan(r, "check", req[r].id, req[r].user)
      BY <1>6 DEF CheckStart
    <2>2. req' \in [Req -> Requests]
      BY <2>a, <2>b, ScanType
    <2> QED
      BY <1>6, <2>2 DEF CheckStart, TypeOK, Held
  <1>7. ASSUME NEW r \in Req, NEW live \in BOOLEAN, CheckResolve(r, live) PROVE TypeOK'
    <2>1. req[r] \in Purging
      BY <1>7, RequestTypes DEF TypeOK, CheckResolve, Purged
    <2>a. PICK c \in Held : c = req[r].id
      BY <1>7 DEF CheckResolve
    <2>b. sessions[c] \in Challenge /\ Held \subseteq Id
      BY DEF TypeOK
    <2>c. [sessions[c] EXCEPT !.resolved = TRUE, !.live = live] \in Challenge
      BY <2>b DEF Challenge
    <2>d. sessions' = [sessions EXCEPT ![c] = [@ EXCEPT !.resolved = TRUE, !.live = live]]
      BY <1>7, <2>a DEF CheckResolve
    <2>2. Held' \subseteq Id /\ sessions' \in [Held' -> Challenge]
      BY <2>b, <2>c, <2>d DEF TypeOK, Held
    <2>3. req' \in [Req -> Requests]
      BY <1>7, ReturnType DEF CheckResolve
    <2> QED
      BY <1>7, <2>1, <2>2, <2>3 DEF CheckResolve, TypeOK, Purging
  <1>8. ASSUME NEW r \in Req, ConsumeGrant(r) PROVE TypeOK'
    <2>1. req[r] \in Purging
      BY <1>8, RequestTypes DEF TypeOK, ConsumeGrant, Purged
    <2>a. PICK c \in Held : c = req[r].id
      BY <1>8 DEF ConsumeGrant, Consumable
    <2>b. sessions[c] \in Challenge /\ Held \subseteq Id
      BY DEF TypeOK
    <2>c. [sessions[c] EXCEPT !.consumed = TRUE] \in Challenge
      BY <2>b DEF Challenge
    <2>d. sessions' = [sessions EXCEPT ![c] = [@ EXCEPT !.consumed = TRUE]]
      BY <1>8, <2>a DEF ConsumeGrant
    <2>2. Held' \subseteq Id /\ sessions' \in [Held' -> Challenge]
      BY <2>b, <2>c, <2>d DEF TypeOK, Held
    <2>3. [pc |-> "score", id |-> req[r].id] \in Requests
      BY <2>1 DEF Purging, Scoring, Requests
    <2>4. req' \in [Req -> Requests]
      BY <1>8, <2>3 DEF ConsumeGrant, TypeOK
    <2> QED
      BY <1>8, <2>1, <2>2, <2>4 DEF ConsumeGrant, TypeOK, Purging
  <1>9. ASSUME NEW r \in Req, NEW c \in Id, NEW u \in User, IssueStart(r, c, u) PROVE TypeOK'
    BY <1>9, ScanType DEF IssueStart, TypeOK, Held, Jobs
  <1>10. ASSUME NEW r \in Req, NEW c \in Id, NEW u \in User, CheckBind(r, c, u) PROVE TypeOK'
    <2>1. Held' \subseteq Id /\ sessions' \in [Held' -> Challenge]
      BY <1>10 DEF CheckBind, TypeOK, Held, Challenge
    <2>2. [pc |-> "frames", id |-> c, user |-> u] \in Requests
      BY DEF Awaiting, Requests
    <2> QED
      BY <1>10, <2>1, <2>2 DEF CheckBind, TypeOK
  <1>11. ASSUME NEW r \in Req, NEW c \in Id, NEW u \in User, ConsumeStart(r, c, u) PROVE TypeOK'
    BY <1>11, ScanType DEF ConsumeStart, TypeOK, Held, Jobs
  <1>12. CASE UNCHANGED vars
    BY <1>12 DEF vars, TypeOK, Held
  <1> QED
    BY <1>1, <1>2, <1>3, <1>4, <1>5, <1>6, <1>7, <1>8, <1>9, <1>10, <1>11, <1>12
       DEF Next, Proceed, Arrive

----------------------------------------------------------------------------
(* The rest of the invariant.                                              *)

History == Fresh /\ InSync /\ OneShot /\ SpentWasLive

Calls == Issuing /\ PurgeLists /\ Granted

LEMMA HistoryStep == IInv /\ [Next]_vars => History'
  <1> SUFFICES ASSUME IInv, [Next]_vars PROVE History'
    OBVIOUS
  <1> USE DEF IInv, TypeOK, History, Fresh, InSync, OneShot, SpentWasLive
  <1>1. CASE Tick
    BY <1>1 DEF Tick, Held
  <1>2. CASE Restart
    BY <1>2 DEF Restart, Held
  <1>3. ASSUME NEW r \in Req, PurgeDelete(r) PROVE History'
    BY <1>3 DEF PurgeDelete, Held, Without
  <1>4. ASSUME NEW r \in Req, IssueRegister(r) PROVE History'
    <2>1. verdict[req[r].id] = "none"
      BY <1>4 DEF IssueRegister, Purged, Issuing
    <2>2. req[r].id \in Id
      BY <1>4, RequestTypes DEF IssueRegister, Purged, Purging
    <2> QED
      BY <1>4, <2>1, <2>2 DEF IssueRegister, Held
  <1>5. ASSUME NEW r \in Req, CheckAbort(r) \/ CheckRefuse(r) \/ ConsumeRefuse(r) \/ Score(r)
        PROVE History'
    BY <1>5 DEF CheckAbort, CheckRefuse, ConsumeRefuse, Score, Held
  <1>6. ASSUME NEW r \in Req, CheckStart(r) PROVE History'
    BY <1>6 DEF CheckStart, Held
  <1>7. ASSUME NEW r \in Req, NEW live \in BOOLEAN, CheckResolve(r, live) PROVE History'
    BY <1>7 DEF CheckResolve, Held, Challenge
  <1>8. ASSUME NEW r \in Req, ConsumeGrant(r) PROVE History'
    BY <1>8 DEF ConsumeGrant, Consumable, Held, Challenge
  <1>9. ASSUME NEW r \in Req, NEW c \in Id, NEW u \in User, IssueStart(r, c, u) PROVE History'
    BY <1>9 DEF IssueStart, Held
  <1>10. ASSUME NEW r \in Req, NEW c \in Id, NEW u \in User, CheckBind(r, c, u) PROVE History'
    BY <1>10 DEF CheckBind, Held, Challenge
  <1>11. ASSUME NEW r \in Req, NEW c \in Id, NEW u \in User, ConsumeStart(r, c, u) PROVE History'
    BY <1>11 DEF ConsumeStart, Held
  <1>12. CASE UNCHANGED vars
    BY <1>12 DEF vars, Held
  <1> QED
    BY <1>1, <1>2, <1>3, <1>4, <1>5, <1>6, <1>7, <1>8, <1>9, <1>10, <1>11, <1>12
       DEF Next, Proceed, Arrive

\* A step that changes one request r, to something that is neither purging nor
\* scoring, and whose other changes keep the verdicts decided and the expiry
\* times of held records.
LEMMA CallsSettle ==
    ASSUME IInv, TypeOK', NEW r \in Req, NEW q \in {Idle} \cup Awaiting,
           req'[r] = q, \A s \in Req : s # r => req'[s] = req[s], now' = now,
           \A c \in Held' : c \in Held /\ sessions'[c].expires = sessions[c].expires,
           \A c \in Id : verdict'[c] = "none" <=> verdict[c] = "none",
           \A c \in Id : verdict[c] = "live" => verdict'[c] = "live"
    PROVE  Calls'
  <1>1. q.pc \notin {"purge", "score"}
    BY DEF Idle, Awaiting
  <1>2. \A s \in Req : req'[s].pc \in {"purge", "score"} => req'[s] = req[s]
    BY <1>1
  <1>3. \A s \in Req : /\ req[s].pc = "purge" => req[s].id \in Id /\ req[s].dead \subseteq Id
                       /\ req[s].pc = "score" => req[s].id \in Id
    BY RequestTypes DEF IInv, TypeOK, Purging, Scoring
  <1>4. Issuing'
    <2> SUFFICES ASSUME NEW s \in Req, req'[s].pc = "purge", req'[s].job = "issue"
                 PROVE  /\ verdict'[req'[s].id] = "none"
                        /\ \A t \in Req : /\ req'[t].pc = "purge" /\ req'[t].job = "issue"
                                          /\ req'[t].id = req'[s].id
                                          => t = s
      BY DEF Issuing
    <2>1. req'[s] = req[s]
      BY <1>2
    <2>2. verdict[req[s].id] = "none" /\ req[s].id \in Id
      BY <1>3, <2>1 DEF IInv, Issuing
    <2>3. verdict'[req[s].id] = "none"
      BY <2>2
    <2> QED
      BY <1>2, <2>1, <2>3 DEF IInv, Issuing
  <1>5. PurgeLists'
    <2> SUFFICES ASSUME NEW s \in Req, req'[s].pc = "purge"
                 PROVE  /\ req'[s].asked <= now'
                        /\ \A c \in req'[s].dead : verdict'[c] # "none"
                        /\ \A c \in Held' : c \in req'[s].dead
                              <=> sessions'[c].expires < req'[s].asked
      BY DEF PurgeLists
    <2>1. req'[s] = req[s]
      BY <1>2
    <2>2. /\ req[s].asked <= now /\ \A c \in req[s].dead : c \in Id /\ verdict[c] # "none"
          /\ \A c \in Held : c \in req[s].dead <=> sessions[c].expires < req[s].asked
      BY <1>3, <2>1 DEF IInv, PurgeLists
    <2> QED
      BY <2>1, <2>2
  <1>6. Granted'
    <2> SUFFICES ASSUME NEW s \in Req, req'[s].pc = "score"
                 PROVE  verdict'[req'[s].id] = "live"
      BY DEF Granted
    <2>1. req'[s] = req[s]
      BY <1>2
    <2>2. verdict[req[s].id] = "live" /\ req[s].id \in Id
      BY <1>3, <2>1 DEF IInv, Granted
    <2> QED
      BY <2>1, <2>2
  <1> QED
    BY <1>4, <1>5, <1>6 DEF Calls

\* A step that only begins a purge.
LEMMA CallsScan ==
    ASSUME IInv, NEW r \in Req, NEW job \in Jobs, NEW c \in Id, NEW u \in User,
           Scan(r, job, c, u), UNCHANGED <<now, sessions, verdict>>,
           job = "issue" =>
             /\ verdict[c] = "none"
             /\ c \notin {req[q].id : q \in {q \in Req : req[q] # Idle}}
    PROVE  Calls'
  <1>1. \A s \in Req : s # r => req'[s] = req[s]
    BY DEF Scan, IInv, TypeOK
  <1>2. /\ req'[r].pc = "purge" /\ req'[r].job = job /\ req'[r].id = c
        /\ req'[r].asked = now /\ req'[r].dead = Expired(now)
    BY DEF Scan, IInv, TypeOK
  <1>3. \A s \in Req : req[s].pc = "purge" => req[s] # Idle
    BY DEF Idle
  <1>4. Issuing'
    BY <1>1, <1>2, <1>3 DEF IInv, Issuing
  <1>5. PurgeLists'
    BY <1>1, <1>2 DEF IInv, TypeOK, PurgeLists, Expired, Held, Fresh
  <1>6. Granted'
    BY <1>1, <1>2 DEF IInv, Granted
  <1> QED
    BY <1>4, <1>5, <1>6 DEF Calls

LEMMA CallsStep == IInv /\ [Next]_vars => Calls'
  <1> SUFFICES ASSUME IInv, [Next]_vars PROVE Calls'
    OBVIOUS
  <1>0. TypeOK /\ TypeOK'
    BY TypeStep DEF IInv
  <1> DEFINE Ids == \A s \in Req :
                 /\ req[s].pc = "purge" => req[s].id \in Id /\ req[s].dead \subseteq Id
                 /\ req[s].pc = "score" => req[s].id \in Id
  <1>00. Ids
    BY <1>0, RequestTypes DEF TypeOK, Purging, Scoring
  <1>1. CASE Tick
    <2>1. UNCHANGED <<sessions, req, verdict>> /\ now < now'
      BY <1>0, <1>1 DEF Tick, TypeOK
    <2>2. \A s \in Req : req[s].pc = "purge" => req[s].asked \in Nat
      BY <1>0, RequestTypes DEF TypeOK, Purging
    <2>3. PurgeLists'
      BY <1>0, <2>1, <2>2 DEF IInv, TypeOK, PurgeLists, Held
    <2> QED
      BY <2>1, <2>3 DEF IInv, Calls, Issuing, Granted
  <1>2. CASE Restart
    <2>1. \A r \in Req : req'[r].pc = "idle"
      BY <1>2 DEF Restart, Idle
    <2> QED
      BY <2>1 DEF Calls, Issuing, PurgeLists, Granted
  <1>3. ASSUME NEW r \in Req, PurgeDelete(r) PROVE Calls'
    <2>1. PICK c \in req[r].dead : PurgeDelete(r)!2!(c)
      BY <1>3 DEF PurgeDelete
    <2>2. CASE c \in Held
      <3>1. \A s \in Req : s # r => req'[s] = req[s]
        BY <1>0, <2>1, <2>2 DEF TypeOK
      <3>2. req[r].pc = "purge" /\ req[r] \in Purging
        BY <1>0, <1>3, RequestTypes DEF TypeOK, PurgeDelete
      <3>3. /\ req'[r].pc = "purge" /\ req'[r].job = req[r].job /\ req'[r].id = req[r].id
            /\ req'[r].asked = req[r].asked /\ req'[r].dead = req[r].dead \ {c}
        BY <1>0, <2>1, <2>2, <3>2 DEF TypeOK, Purging
      <3>4. Held' = Held \ {c} /\ \A k \in Held' : sessions'[k] = sessions[k]
        BY <2>1, <2>2 DEF Held, Without
      <3>5. now' = now /\ verdict' = verdict
        BY <1>3 DEF PurgeDelete
      <3>6. Issuing'
        BY <3>1, <3>2, <3>3, <3>5 DEF IInv, Issuing
      <3>7. PurgeLists'
        BY <1>00, <3>1, <3>2, <3>3, <3>4, <3>5 DEF IInv, PurgeLists
      <3>8. Granted'
        BY <3>1, <3>3, <3>5 DEF IInv, Granted
      <3> QED
        BY <3>6, <3>7, <3>8 DEF Calls
    <2>3. CASE c \notin Held
      <3>1. req'[r] = Idle /\ \A s \in Req : s # r => req'[s] = req[s]
        BY <1>0, <2>1, <2>3 DEF TypeOK
      <3> QED
        BY <1>0, <1>3, <2>1, <2>3, <3>1, CallsSettle DEF PurgeDelete, Held
    <2> QED
      BY <2>2, <2>3
  <1>4. ASSUME NEW r \in Req, IssueRegister(r) PROVE Calls'
    <2> DEFINE id == req[r].id
    <2>1. req[r].pc = "purge" /\ req[r].job = "issue" /\ id \in Id
      BY <1>4, <1>00 DEF IssueRegister, Purged
    <2>2. \A s \in Req : req'[s].pc \in {"purge", "score"} => s # r /\ req'[s] = req[s]
      BY <1>0, <1>4 DEF IssueRegister, TypeOK, Idle
    <2>3. /\ now' = now /\ verdict'[id] = "pending"
          /\ \A c \in Id : c # id => verdict'[c] = verdict[c]
      BY <1>0, <1>4, <2>1 DEF IssueRegister, TypeOK
    <2>4. /\ Held' = Held \cup {id} /\ sessions'[id].expires = now + TTL
          /\ \A c \in Held : c # id => sessions'[c] = sessions[c]
      BY <1>4 DEF IssueRegister, Held
    <2>5. verdict[id] = "none" /\ id \notin Held
      BY <2>1 DEF IInv, Issuing, Fresh
    <2>6. Issuing'
      BY <1>00, <2>1, <2>2, <2>3 DEF IInv, Issuing
    <2>7. PurgeLists'
      <3> SUFFICES ASSUME NEW s \in Req, req'[s].pc = "purge"
                   PROVE  /\ req'[s].asked <= now'
                          /\ \A c \in req'[s].dead : verdict'[c] # "none"
                          /\ \A c \in Held' : c \in req'[s].dead
                                <=> sessions'[c].expires < req'[s].asked
        BY DEF PurgeLists
      <3>1. req'[s] = req[s] /\ req[s].pc = "purge" /\ req[s] \in Purging
        BY <1>0, <2>2, RequestTypes DEF TypeOK
      <3>2. id \notin req[s].dead
        BY <2>5, <3>1 DEF IInv, PurgeLists
      <3>3. ~(now + TTL < req[s].asked)
        BY <1>0, <3>1, TTLAssumption DEF IInv, PurgeLists, TypeOK, Purging
      <3> QED
        BY <1>00, <2>3, <2>4, <3>1, <3>2, <3>3 DEF IInv, PurgeLists
    <2>8. Granted'
      BY <1>00, <2>2, <2>3, <2>5 DEF IInv, Granted
    <2> QED
      BY <2>6, <2>7, <2>8 DEF Calls
  <1>5. ASSUME NEW r \in Req, CheckAbort(r) \/ CheckRefuse(r) \/ ConsumeRefuse(r) \/ Score(r)
        PROVE Calls'
    <2>1. req'[r] = Idle /\ \A s \in Req : s # r => req'[s] = req[s]
      BY <1>0, <1>5 DEF CheckAbort, CheckRefuse, ConsumeRefuse, Score, TypeOK
    <2> QED
      BY <1>0, <1>5, <2>1, CallsSettle DEF CheckAbort, CheckRefuse, ConsumeRefuse, Score, Held
  <1>6. ASSUME NEW r \in Req, CheckStart(r) PROVE Calls'
    <2>1. req[r] \in Awaiting
      BY <1>0, <1>6, RequestTypes DEF TypeOK, CheckStart
    <2> QED
      BY <1>6, <2>1, CallsScan DEF CheckStart, Awaiting, Jobs
  <1>7. ASSUME NEW r \in Req, NEW live \in BOOLEAN, CheckResolve(r, live) PROVE Calls'
    <2>1. req[r].id \in Id /\ req[r].id \in Held
      BY <1>7, <1>00 DEF CheckResolve, Purged
    <2>2. verdict[req[r].id] \notin {"none", "live", "spoof"}
      BY <1>7, <2>1 DEF CheckResolve, IInv, InSync, Fresh
    <2>3. \A c \in Id : /\ verdict'[c] = "none" <=> verdict[c] = "none"
                        /\ verdict[c] = "live" => verdict'[c] = "live"
      <3>1. verdict'[req[r].id] \in {"live", "spoof"}
        BY <1>0, <1>7, <2>1 DEF CheckResolve, TypeOK
      <3>2. \A c \in Id : c # req[r].id => verdict'[c] = verdict[c]
        BY <1>0, <1>7 DEF CheckResolve, TypeOK
      <3> QED
        BY <2>1, <2>2, <3>1, <3>2
    <2>4. \A c \in Held' : c \in Held /\ sessions'[c].expires = sessions[c].expires
      BY <1>0, <1>7 DEF CheckResolve, Held, TypeOK, Challenge
    <2>5. req'[r] = Idle /\ \A s \in Req : s # r => req'[s] = req[s]
      BY <1>0, <1>7 DEF CheckResolve, TypeOK
    <2>6. now' = now
      BY <1>7 DEF CheckResolve
    <2> QED
      BY <1>0, <2>3, <2>4, <2>5, <2>6, CallsSettle
  <1>8. ASSUME NEW r \in Req, ConsumeGrant(r) PROVE Calls'
    <2> DEFINE id == req[r].id
    <2>1. id \in Id /\ id \in Held /\ sessions[id].live
      BY <1>8, <1>00 DEF ConsumeGrant, Purged, Consumable
    <2>2. verdict[id] = "live" /\ verdict' = verdict /\ now' = now
      BY <1>8, <2>1 DEF ConsumeGrant, IInv, InSync
    <2>3. /\ \A s \in Req : s # r => req'[s] = req[s]
          /\ req'[r].pc = "score" /\ req'[r].id = id
      BY <1>0, <1>8 DEF ConsumeGrant, TypeOK
    <2>4. Held' = Held /\ \A c \in Held : sessions'[c].expires = sessions[c].expires
      BY <1>0, <1>8 DEF ConsumeGrant, Held, TypeOK, Challenge
    <2>5. Issuing' /\ Granted'
      BY <2>2, <2>3 DEF IInv, Issuing, Granted
    <2>6. PurgeLists'
      BY <2>2, <2>3, <2>4 DEF IInv, PurgeLists
    <2> QED
      BY <2>5, <2>6 DEF Calls
  <1>9. ASSUME NEW r \in Req, NEW c \in Id, NEW u \in User, IssueStart(r, c, u) PROVE Calls'
    BY <1>9, CallsScan DEF IssueStart, Jobs
  <1>10. ASSUME NEW r \in Req, NEW c \in Id, NEW u \in User, CheckBind(r, c, u) PROVE Calls'
    <2>1. [pc |-> "frames", id |-> c, user |-> u] \in Awaiting
      BY DEF Awaiting
    <2>2. \A k \in Held' : k \in Held /\ sessions'[k].expires = sessions[k].expires
      BY <1>0, <1>10 DEF CheckBind, Held, TypeOK, Challenge
    <2>3. /\ req'[r] = [pc |-> "frames", id |-> c, user |-> u]
          /\ \A s \in Req : s # r => req'[s] = req[s]
      BY <1>0, <1>10 DEF CheckBind, TypeOK
    <2>4. now' = now /\ verdict' = verdict
      BY <1>10 DEF CheckBind
    <2> QED
      BY <1>0, <2>1, <2>2, <2>3, <2>4, CallsSettle
  <1>11. ASSUME NEW r \in Req, NEW c \in Id, NEW u \in User, ConsumeStart(r, c, u) PROVE Calls'
    BY <1>11, CallsScan DEF ConsumeStart, Jobs
  <1>12. CASE UNCHANGED vars
    BY <1>12 DEF vars, Held, IInv, Calls, Issuing, PurgeLists, Granted
  <1> QED
    BY <1>1, <1>2, <1>3, <1>4, <1>5, <1>6, <1>7, <1>8, <1>9, <1>10, <1>11, <1>12
       DEF Next, Proceed, Arrive

LEMMA IInvStep == IInv /\ [Next]_vars => IInv'
  <1> SUFFICES ASSUME IInv, [Next]_vars PROVE IInv'
    OBVIOUS
  <1>1. TypeOK' /\ History' /\ Calls'
    BY TypeStep, HistoryStep, CallsStep DEF IInv
  <1> QED
    BY <1>1 DEF IInv, History, Calls

LEMMA Invariance == Spec => []IInv
  BY InitIInv, IInvStep, PTL DEF Spec

----------------------------------------------------------------------------
(* The theorems.                                                           *)

\* The variables keep their types.
THEOREM TypeCorrect == Spec => []TypeOK
  BY Invariance, PTL DEF IInv

\* One blink, one punch: consume_live answers True at most once per id.
THEOREM OneShotCorrect == Spec => []OneShot
  BY Invariance, PTL DEF IInv

\* A challenge that let a punch through has live as its only verdict.
THEOREM SpentWasLiveCorrect == Spec => []SpentWasLive
  BY Invariance, PTL DEF IInv

\* The verdict scored with a punch never contradicts the one it was granted on.
THEOREM ScoreCorrect == Spec => []ScoreSeesTheGrant
  <1>1. IInv => ScoreSeesTheGrant
    BY DEF IInv, Granted, InSync, ScoreSeesTheGrant, ResultFor
  <1> QED
    BY <1>1, Invariance, PTL

\* check() decides once.
THEOREM VerdictFinalCorrect == Spec => VerdictFinal
  <1> DEFINE Keeps == \A c \in Id : verdict[c] \in {"live", "spoof"} => verdict'[c] = verdict[c]
  <1>1. ASSUME IInv, [Next]_vars PROVE [Keeps]_vars
    <2> USE <1>1 DEF IInv, TypeOK
    <2>1. ASSUME NEW r \in Req, IssueRegister(r) PROVE Keeps
      <3>1. verdict[req[r].id] = "none"
        BY <2>1 DEF IssueRegister, Purged, Issuing
      <3> QED
        BY <2>1, <3>1 DEF IssueRegister
    <2>2. ASSUME NEW r \in Req, NEW live \in BOOLEAN, CheckResolve(r, live) PROVE Keeps
      BY <2>2 DEF CheckResolve, InSync
    <2>3. ASSUME NEW r \in Req, Proceed(r) PROVE Keeps
      BY <2>1, <2>2, <2>3 DEF Proceed, PurgeDelete, CheckAbort, CheckStart, CheckRefuse,
         ConsumeGrant, ConsumeRefuse, Score
    <2>4. ASSUME NEW r \in Req, Arrive(r) PROVE Keeps
      BY <2>4 DEF Arrive, IssueStart, CheckBind, ConsumeStart
    <2> QED
      BY <2>3, <2>4 DEF Next, Tick, Restart
  <1> QED
    BY <1>1, Invariance, PTL DEF Spec, VerdictFinal

\* "The record stays until it expires."
THEOREM RecordStaysCorrect == Spec => RecordStaysUntilExpiry
  <1> DEFINE Stays == \A c \in Held : \/ c \in Held'
                                      \/ sessions[c].expires < now
                                      \/ Restarted
  <1>1. ASSUME IInv, [Next]_vars PROVE [Stays]_vars
    <2> USE <1>1 DEF IInv, TypeOK, Held
    <2>1. ASSUME NEW r \in Req, PurgeDelete(r) PROVE Stays
      <3>1. PICK k \in req[r].dead : PurgeDelete(r)!2!(k)
        BY <2>1 DEF PurgeDelete
      <3>2. req[r] \in Purging /\ req[r].pc = "purge"
        BY <2>1, RequestTypes DEF PurgeDelete
      <3>3. k \in Held => sessions[k].expires < now
        BY <3>1, <3>2 DEF PurgeLists, Purging, Challenge
      <3> QED
        BY <3>1, <3>3 DEF Without
    <2>2. CASE Restart
      BY <2>2, IdleIsARequest DEF Restart, Restarted
    <2>3. ASSUME NEW r \in Req, IssueRegister(r) PROVE Stays
      BY <2>3 DEF IssueRegister
    <2>4. ASSUME NEW r \in Req, Proceed(r) PROVE Stays
      BY <2>1, <2>4, <2>3 DEF Proceed, CheckResolve, CheckAbort, CheckStart,
         CheckRefuse, ConsumeGrant, ConsumeRefuse, Score
    <2>5. ASSUME NEW r \in Req, Arrive(r) PROVE Stays
      BY <2>5 DEF Arrive, IssueStart, CheckBind, ConsumeStart
    <2> QED
      BY <2>2, <2>4, <2>5 DEF Next, Tick
  <1> QED
    BY <1>1, Invariance, PTL DEF Spec, RecordStaysUntilExpiry

\* Nothing is granted on a challenge that had expired, or to another user.
THEOREM GrantedInTimeCorrect == Spec => GrantedInTime
  <1> DEFINE InTime == \A c \in Id : uses'[c] # uses[c] =>
                         \E r \in Req : /\ req[r].pc = "purge"
                                        /\ req[r].id = c
                                        /\ c \in Held
                                        /\ req[r].asked <= sessions[c].expires
                                        /\ req[r].user = sessions[c].user
  <1>1. ASSUME IInv, [Next]_vars PROVE [InTime]_vars
    <2> USE <1>1 DEF IInv, TypeOK
    <2>1. ASSUME NEW r \in Req, ConsumeGrant(r) PROVE InTime
      <3>1. req[r] \in Purging
        BY <2>1, RequestTypes DEF ConsumeGrant, Purged
      <3>2. /\ req[r].pc = "purge" /\ req[r].dead = {} /\ req[r].id \in Held
            /\ sessions[req[r].id].user = req[r].user
        BY <2>1 DEF ConsumeGrant, Purged, Consumable
      <3>3. ~(sessions[req[r].id].expires < req[r].asked)
        BY <3>2 DEF PurgeLists
      <3>4. req[r].asked <= sessions[req[r].id].expires
        BY <3>1, <3>2, <3>3 DEF Purging, Challenge
      <3>5. \A c \in Id : c # req[r].id => uses'[c] = uses[c]
        BY <2>1 DEF ConsumeGrant
      <3> QED
        BY <3>2, <3>4, <3>5
    <2>2. ASSUME NEW r \in Req, Proceed(r) PROVE InTime
      BY <2>1, <2>2 DEF Proceed, PurgeDelete, IssueRegister, CheckResolve, CheckAbort,
         CheckStart, CheckRefuse, ConsumeRefuse, Score
    <2>3. ASSUME NEW r \in Req, Arrive(r) PROVE InTime
      BY <2>3 DEF Arrive, IssueStart, CheckBind, ConsumeStart
    <2>4. CASE Tick \/ Restart
      BY <2>4 DEF Tick, Restart
    <2> QED
      BY <2>2, <2>3, <2>4 DEF Next
  <1> QED
    BY <1>1, Invariance, PTL DEF Spec, GrantedInTime

----------------------------------------------------------------------------
(* Refinement.  Every step moves at most the stage of one challenge, or    *)
(* (deletion, restart) lets some of them lapse.                            *)

\* What the abstract permit needs to know of a step on challenge c.
LEMMA StageMoves ==
    ASSUME NEW c \in Id, \A k \in Id : k # c => Stage(k)' = Stage(k)
    PROVE  /\ Stage(c) = "none" /\ Stage(c)' = "open" => Permits!Offer(c)
           /\ Stage(c) = "open" /\ Stage(c)' \in {"passed", "void"} => Permits!Decide(c)
           /\ Stage(c) = "passed" /\ Stage(c)' = "spent" => Permits!Spend(c)
  BY DEF Permits!Offer, Permits!Decide, Permits!Spend, Permits!Move

LEMMA StagesLapse ==
    ASSUME \A k \in Id : \/ Stage(k)' = Stage(k)
                         \/ Stage(k) \in {"open", "passed"} /\ Stage(k)' = "void"
    PROVE  \E S \in SUBSET Id : Permits!Lapse(S)
  <1> DEFINE S == {k \in Id : Stage(k)' # Stage(k)}
  <1>1. [k \in Id |-> Stage(k)]' =
          [k \in Id |-> IF k \in S /\ Stage(k) \in {"open", "passed"} THEN "void" ELSE Stage(k)]
    OBVIOUS
  <1>2. Permits!Lapse(S)
    BY <1>1 DEF Permits!Lapse
  <1> QED
    BY <1>2

LEMMA PermitStep == IInv /\ [Next]_vars => [Permits!Next]_[c \in Id |-> Stage(c)]
  <1> SUFFICES ASSUME IInv, [Next]_vars
               PROVE  Permits!Next \/ UNCHANGED [c \in Id |-> Stage(c)]
    OBVIOUS
  <1> USE DEF IInv, TypeOK, Held
  <1> DEFINE Same == \A c \in Id : Stage(c)' = Stage(c)
  <1>0. Same => UNCHANGED [c \in Id |-> Stage(c)]
    OBVIOUS
  <1>1. ASSUME NEW r \in Req, PurgeDelete(r) PROVE Permits!Next
    <2>1. \A k \in Id : \/ Stage(k)' = Stage(k)
                        \/ Stage(k) \in {"open", "passed"} /\ Stage(k)' = "void"
      BY <1>1 DEF PurgeDelete, Without, Stage, Fresh
    <2> QED
      BY <2>1, StagesLapse DEF Permits!Next
  <1>2. CASE Restart
    <2>1. \A k \in Id : \/ Stage(k)' = Stage(k)
                        \/ Stage(k) \in {"open", "passed"} /\ Stage(k)' = "void"
      BY <1>2 DEF Restart, Stage
    <2> QED
      BY <2>1, StagesLapse DEF Permits!Next
  <1>3. ASSUME NEW r \in Req, IssueRegister(r) PROVE Permits!Next
    <2>1. PICK c \in Id : c = req[r].id /\ verdict[c] = "none" /\ uses[c] = 0
      BY <1>3, RequestTypes DEF IssueRegister, Purged, Purging, Issuing, Fresh
    <2>2. Stage(c) = "none" /\ Stage(c)' = "open"
      BY <1>3, <2>1 DEF IssueRegister, Stage
    <2>3. \A k \in Id : k # c => Stage(k)' = Stage(k)
      BY <1>3, <2>1 DEF IssueRegister, Stage
    <2> QED
      BY <2>1, <2>2, <2>3, StageMoves DEF Permits!Next
  <1>4. ASSUME NEW r \in Req, NEW live \in BOOLEAN, CheckResolve(r, live) PROVE Permits!Next
    <2>1. PICK c \in Id : c = req[r].id /\ c \in Held /\ uses[c] = 0 /\ verdict[c] = "pending"
      BY <1>4 DEF CheckResolve, InSync, Fresh, SpentWasLive
    <2>2. Stage(c) = "open" /\ Stage(c)' \in {"passed", "void"}
      BY <1>4, <2>1 DEF CheckResolve, Stage
    <2>3. \A k \in Id : k # c => Stage(k)' = Stage(k)
      BY <1>4, <2>1 DEF CheckResolve, Stage
    <2> QED
      BY <2>1, <2>2, <2>3, StageMoves DEF Permits!Next
  <1>5. ASSUME NEW r \in Req, ConsumeGrant(r) PROVE Permits!Next
    <2>1. PICK c \in Id : c = req[r].id /\ c \in Held /\ uses[c] = 0 /\ verdict[c] = "live"
      BY <1>5 DEF ConsumeGrant, Consumable, InSync, Challenge
    <2>2. Stage(c) = "passed" /\ Stage(c)' = "spent"
      BY <1>5, <2>1 DEF ConsumeGrant, Stage
    <2>3. \A k \in Id : k # c => Stage(k)' = Stage(k)
      BY <1>5, <2>1 DEF ConsumeGrant, Stage
    <2> QED
      BY <2>1, <2>2, <2>3, StageMoves DEF Permits!Next
  <1>6. ASSUME NEW r \in Req, CheckAbort(r) \/ CheckStart(r) \/ CheckRefuse(r)
                              \/ ConsumeRefuse(r) \/ Score(r) \/ Arrive(r)
        PROVE  Same
    BY <1>6 DEF CheckAbort, CheckStart, CheckRefuse, ConsumeRefuse, Score, Arrive,
       IssueStart, CheckBind, ConsumeStart, Stage
  <1>7. CASE Tick \/ UNCHANGED vars
    BY <1>7 DEF Tick, vars, Stage
  <1> QED
    BY <1>0, <1>1, <1>2, <1>3, <1>4, <1>5, <1>6, <1>7 DEF Next, Proceed

\* The service implements the one-shot permit.
THEOREM PermitsImplemented == Spec => ImplementsPermits
  <1>1. Init => Permits!Init
    BY DEF Init, Permits!Init, Stage
  <1> QED
    BY <1>1, Invariance, PermitStep, PTL DEF Spec, ImplementsPermits, Permits!Spec
=============================================================================
