------------------------- MODULE LivenessChallenge -------------------------
(***************************************************************************)
(* Blink challenges: backend/app/liveness/service.py with the handlers     *)
(* that call it (api/routes/liveness.py, and _require_live and             *)
(* _score_trust of api/routes/attendance.py).                              *)
(*                                                                         *)
(* One LivenessService object is shared by the whole process.  POST        *)
(* /liveness/challenge is a plain function, so the framework runs it in a  *)
(* worker thread; POST /liveness/check and the punches are coroutines on   *)
(* the only event loop.  A coroutine keeps the loop between two awaits     *)
(* (variable loop), a thread can be preempted anywhere, and both walk and  *)
(* change the same dict.  _purge is therefore modelled by its parts: the   *)
(* scan that collects the expired keys, then one deletion per key.         *)
(*                                                                         *)
(* Abstracted: the frames.  blink, texture and capture-path analysis end   *)
(* in one Boolean verdict, chosen freely.  Ids are fresh tokens.           *)
(***************************************************************************)
EXTENDS Naturals

CONSTANTS
    Id,        \* challenge ids
    User,      \* accounts that call the API
    Req,       \* request slots: how many requests can be in flight
    Free,      \* the event loop runs nobody
    TTL,       \* SESSION_TTL_S in clock ticks
    MaxNow     \* bound: the clock stops here

ASSUME TTLAssumption == TTL \in Nat
ASSUME BoundAssumption == MaxNow \in Nat
ASSUME FreeAssumption == Free \notin Req

VARIABLES
    now,       \* time.time()
    sessions,  \* LivenessService._sessions: the challenges held, by id
    req,       \* the requests in flight
    loop,      \* the coroutine that holds the event loop, or Free
    verdict,   \* history: the first verdict each challenge got
    uses       \* history: how often consume_live answered True for each id

vars == <<now, sessions, req, loop, verdict, uses>>

----------------------------------------------------------------------------
(* Data.                                                                   *)

\* The fields of Challenge the handlers read; live is result.get("live").
Challenge == [expires : Nat, resolved : BOOLEAN, live : BOOLEAN,
              user : User, consumed : BOOLEAN]

Held == DOMAIN sessions

\* A request is idle, suspended in an await, purging (asked is the clock
\* value its scan used, dead the expired keys it still has to delete), or
\* scoring a punch it was allowed to take.
Jobs == {"issue", "check", "consume"}
Idle == [pc |-> "idle"]
Awaiting == [pc : {"frames"}, id : Id, user : User]
Purging == [pc : {"purge"}, job : Jobs, id : Id, user : User,
            asked : Nat, dead : SUBSET Id]
Scoring == [pc : {"score"}, id : Id]

Requests == {Idle} \cup Awaiting \cup Purging \cup Scoring

\* Faulty variants, here and below, show that the properties can fail.  Here:
\* an off-by-one at the expiry, and no expiry at all.
ExpiredEarly(at) == {c \in Held : sessions[c].expires <= at}
ExpiredNever(at) == {c \in {} : at = 0}

Expired(at) == {c \in Held : sessions[c].expires < at}

Without(c) == [k \in Held \ {c} |-> sessions[k]]

----------------------------------------------------------------------------
Init == /\ now = 0
        /\ sessions = [c \in {} |-> Idle]
        /\ req = [r \in Req |-> Idle]
        /\ loop = Free
        /\ verdict = [c \in Id |-> "none"]
        /\ uses = [c \in Id |-> 0]

Tick == /\ now < MaxNow
        /\ now' = now + 1
        /\ UNCHANGED <<sessions, req, loop, verdict, uses>>

\* Every service call but bind_user begins with _purge: the clock is read
\* and the expired keys are collected.
Scan(r, job, c, u) ==
    req' = [req EXCEPT ![r] = [pc |-> "purge", job |-> job, id |-> c,
                               user |-> u, asked |-> now,
                               dead |-> Expired(now)]]

\* Faulty: a key that is gone is tried again for ever.
PurgeDeleteRetries(r) ==
    /\ req[r].pc = "purge"
    /\ \E c \in req[r].dead \cap Held :
         /\ sessions' = Without(c)
         /\ req' = [req EXCEPT ![r].dead = @ \ {c}]
    /\ UNCHANGED <<now, loop, verdict, uses>>

\* The deletions of _purge, one key at a time.  A key another purge already
\* deleted is a KeyError: the request fails, and a coroutine gives up the
\* loop.
PurgeDelete(r) ==
    /\ req[r].pc = "purge"
    /\ \E c \in req[r].dead :
         \/ /\ c \in Held
            /\ sessions' = Without(c)
            /\ req' = [req EXCEPT ![r].dead = @ \ {c}]
            /\ UNCHANGED loop
         \/ /\ c \notin Held
            /\ req' = [req EXCEPT ![r] = Idle]
            /\ loop' = IF loop = r THEN Free ELSE loop
            /\ UNCHANGED sessions
    /\ UNCHANGED <<now, verdict, uses>>

Purged(r, job) == /\ req[r].pc = "purge"
                  /\ req[r].job = job
                  /\ req[r].dead = {}

----------------------------------------------------------------------------
(* POST /liveness/challenge, in a worker thread.                           *)

IssueStart(r, c, u) ==
    /\ req[r] = Idle
    /\ verdict[c] = "none"
    /\ c \notin Held
    /\ c \notin {req[q].id : q \in {q \in Req : req[q] # Idle}}
    /\ Scan(r, "issue", c, u)
    /\ UNCHANGED <<now, sessions, loop, verdict, uses>>

\* The dict insertion, then bind_user: nobody else knows the id yet.
IssueRegister(r) ==
    /\ Purged(r, "issue")
    /\ LET fresh == [expires |-> now + TTL, resolved |-> FALSE,
                     live |-> FALSE, user |-> req[r].user,
                     consumed |-> FALSE]
       IN sessions' = [k \in Held \cup {req[r].id} |->
                         IF k = req[r].id THEN fresh ELSE sessions[k]]
    /\ verdict' = [verdict EXCEPT ![req[r].id] = "pending"]
    /\ req' = [req EXCEPT ![r] = Idle]
    /\ UNCHANGED <<now, loop, uses>>

----------------------------------------------------------------------------
(* POST /liveness/check, a coroutine.                                      *)

\* Faulty: binding an unknown id creates half a record.
CheckBindCreates(r, c, u) ==
    /\ req[r] = Idle
    /\ loop = Free
    /\ verdict[c] # "none"
    /\ sessions' = [k \in Held \cup {c} |->
                      IF k \in Held THEN sessions[k] ELSE [user |-> u]]
    /\ req' = [req EXCEPT ![r] = [pc |-> "frames", id |-> c, user |-> u]]
    /\ UNCHANGED <<now, loop, verdict, uses>>

\* bind_user runs before the frames are read and before any other test.
CheckBind(r, c, u) ==
    /\ req[r] = Idle
    /\ loop = Free
    /\ verdict[c] # "none"
    /\ sessions' = [k \in Held |->
                      IF k = c THEN [sessions[k] EXCEPT !.user = u]
                               ELSE sessions[k]]
    /\ req' = [req EXCEPT ![r] = [pc |-> "frames", id |-> c, user |-> u]]
    /\ UNCHANGED <<now, loop, verdict, uses>>

\* read_image refuses a frame, or the scan of _purge is disturbed by a thread
\* that changes the dict under it: the request fails, nothing is stored.
CheckAbort(r) ==
    /\ req[r].pc = "frames"
    /\ loop = Free
    /\ req' = [req EXCEPT ![r] = Idle]
    /\ UNCHANGED <<now, sessions, loop, verdict, uses>>

\* The frames are in: check() runs to its end without giving up the loop.
CheckStart(r) ==
    /\ req[r].pc = "frames"
    /\ loop = Free
    /\ loop' = r
    /\ Scan(r, "check", req[r].id, req[r].user)
    /\ UNCHANGED <<now, sessions, verdict, uses>>

\* The three refusals: unknown_challenge, already_used, too_few_frames.
CheckRefuse(r) ==
    /\ Purged(r, "check")
    /\ req' = [req EXCEPT ![r] = Idle]
    /\ loop' = Free
    /\ UNCHANGED <<now, sessions, verdict, uses>>

\* Faulty: a challenge can be checked again.
CheckResolveAgain(r, live) ==
    LET c == req[r].id IN
    /\ Purged(r, "check")
    /\ c \in Held
    /\ sessions' = [sessions EXCEPT ![c].resolved = TRUE, ![c].live = live]
    /\ verdict' = [verdict EXCEPT ![c] = IF live THEN "live" ELSE "spoof"]
    /\ req' = [req EXCEPT ![r] = Idle]
    /\ loop' = Free
    /\ UNCHANGED <<now, uses>>

CheckResolve(r, live) ==
    LET c == req[r].id IN
    /\ Purged(r, "check")
    /\ c \in Held
    /\ ~sessions[c].resolved
    /\ sessions' = [sessions EXCEPT ![c].resolved = TRUE, ![c].live = live]
    /\ verdict' = [verdict EXCEPT ![c] = IF live THEN "live" ELSE "spoof"]
    /\ req' = [req EXCEPT ![r] = Idle]
    /\ loop' = Free
    /\ UNCHANGED <<now, uses>>

----------------------------------------------------------------------------
(* The punch handlers' use of a challenge, on the loop.                    *)

ConsumeStart(r, c, u) ==
    /\ req[r] = Idle
    /\ loop = Free
    /\ verdict[c] # "none"
    /\ loop' = r
    /\ Scan(r, "consume", c, u)
    /\ UNCHANGED <<now, sessions, verdict, uses>>

\* Faulty: any verdict will do.
ConsumableUnchecked(c, u) == /\ c \in Held
                             /\ ~sessions[c].consumed
                             /\ sessions[c].user = u

Consumable(c, u) == /\ c \in Held
                    /\ ~sessions[c].consumed
                    /\ sessions[c].live
                    /\ sessions[c].user = u

\* Faulty: the challenge is not marked as consumed.
ConsumeGrantUnmarked(r) ==
    LET c == req[r].id IN
    /\ Purged(r, "consume")
    /\ Consumable(c, req[r].user)
    /\ uses' = [uses EXCEPT ![c] = @ + 1]
    /\ req' = [req EXCEPT ![r] = [pc |-> "score", id |-> c]]
    /\ loop' = Free
    /\ UNCHANGED <<now, sessions, verdict>>

\* consume_live answers True; the handler goes on to await the image.
ConsumeGrant(r) ==
    LET c == req[r].id IN
    /\ Purged(r, "consume")
    /\ Consumable(c, req[r].user)
    /\ sessions' = [sessions EXCEPT ![c].consumed = TRUE]
    /\ uses' = [uses EXCEPT ![c] = @ + 1]
    /\ req' = [req EXCEPT ![r] = [pc |-> "score", id |-> c]]
    /\ loop' = Free
    /\ UNCHANGED <<now, verdict>>

\* consume_live answers False: 400 liveness_required.
ConsumeRefuse(r) ==
    /\ Purged(r, "consume")
    /\ ~Consumable(req[r].id, req[r].user)
    /\ req' = [req EXCEPT ![r] = Idle]
    /\ loop' = Free
    /\ UNCHANGED <<now, sessions, verdict, uses>>

\* What result_for hands to presence_trust: the stored verdict, or nothing
\* once the record is gone.
ResultFor(c) == IF c \in Held /\ sessions[c].resolved
                THEN IF sessions[c].live THEN "live" ELSE "spoof"
                ELSE "nothing"

\* The punch is saved and _score_trust reads the verdict back.
Score(r) ==
    /\ req[r].pc = "score"
    /\ loop = Free
    /\ req' = [req EXCEPT ![r] = Idle]
    /\ UNCHANGED <<now, sessions, loop, verdict, uses>>

----------------------------------------------------------------------------
(* The process dies and starts again: the dict is memory only.             *)
Restart ==
    /\ sessions' = [c \in {} |-> Idle]
    /\ req' = [r \in Req |-> Idle]
    /\ loop' = Free
    /\ UNCHANGED <<now, verdict, uses>>

\* A request in flight takes its next step.
Proceed(r) ==
    \/ PurgeDelete(r)
    \/ IssueRegister(r)
    \/ CheckAbort(r)
    \/ CheckStart(r)
    \/ CheckRefuse(r)
    \/ \E live \in BOOLEAN : CheckResolve(r, live)
    \/ ConsumeGrant(r)
    \/ ConsumeRefuse(r)
    \/ Score(r)

Arrive(r) ==
    \E c \in Id, u \in User :
        IssueStart(r, c, u) \/ CheckBind(r, c, u) \/ ConsumeStart(r, c, u)

Next == \/ Tick
        \/ Restart
        \/ \E r \in Req : Proceed(r) \/ Arrive(r)

Spec == Init /\ [][Next]_vars

\* The event loop serves its ready coroutines in turn and the operating
\* system serves the threads, so a request that can go on again and again
\* does go on.  The frames were received before the handler was called.
FairSpec == Spec /\ \A r \in Req : SF_vars(Proceed(r))

----------------------------------------------------------------------------
(* Properties.                                                             *)

\* Every variable stays in its type.
TypeOK ==
    /\ now \in Nat
    /\ Held \subseteq Id
    /\ sessions \in [Held -> Challenge]
    /\ req \in [Req -> Requests]
    /\ loop \in Req \cup {Free}
    /\ verdict \in [Id -> {"none", "pending", "live", "spoof"}]
    /\ uses \in [Id -> Nat]

\* consume_live says True at most once per challenge, whatever purges,
\* rechecks and restarts happen around it: one blink, one punch.
OneShot == \A c \in Id : uses[c] <= 1

\* A challenge that let a punch through had been checked, and its one and
\* only verdict was live.
SpentWasLive == \A c \in Id : uses[c] > 0 => verdict[c] = "live"

\* While a granted punch is between consume_live and _score_trust, what
\* result_for can answer is the verdict it was granted on, or nothing.
ScoreSeesTheGrant ==
    \A r \in Req : req[r].pc = "score" => ResultFor(req[r].id) # "spoof"

\* check() decides a challenge once: of two check calls in flight on one id
\* the later finds already_used.
VerdictFinal ==
    [][\A c \in Id : verdict[c] \in {"live", "spoof"} => verdict'[c] = verdict[c]]_vars

\* "the record stays until it expires" (the result_for docstring): apart from
\* a restart nothing removes a record whose time has not run out, stale
\* deletion lists included.
Restarted == Held' = {} /\ \A r \in Req : req'[r] = Idle

RecordStaysUntilExpiry ==
    [][\A c \in Held : \/ c \in Held'
                       \/ sessions[c].expires < now
                       \/ Restarted]_vars

\* A punch is let through only on a challenge that had not expired when the
\* punch looked at the clock, and that was held for the very user punching.
GrantedInTime ==
    [][\A c \in Id : uses'[c] # uses[c] =>
         \E r \in Req : /\ req[r].pc = "purge"
                        /\ req[r].id = c
                        /\ c \in Held
                        /\ req[r].asked <= sessions[c].expires
                        /\ req[r].user = sessions[c].user]_vars

\* Every call returns: no purge, refusal or KeyError leaves a request hanging
\* or keeps the event loop from the others.
CallsReturn == \A r \in Req : req[r] # Idle ~> req[r] = Idle

\* The stage of challenge c, as OneShotPermit sees it.
Stage(c) ==
    IF uses[c] > 0 THEN "spent"
    ELSE IF verdict[c] = "none" THEN "none"
    ELSE IF c \notin Held \/ verdict[c] = "spoof" THEN "void"
    ELSE IF verdict[c] = "live" THEN "passed" ELSE "open"

Permits == INSTANCE OneShotPermit WITH permit <- [c \in Id |-> Stage(c)]

\* The service is an implementation of the one-shot permit.
ImplementsPermits == Permits!Spec
============================================================================
