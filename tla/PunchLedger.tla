---------------------------- MODULE PunchLedger ----------------------------
(***************************************************************************)
(* What is read back from the attendance table: the dashboard of           *)
(* backend/app/api/routes/ops.py, the lists with their limits, and the     *)
(* history that risk/behaviour.py judges a punch by.                       *)
(*                                                                         *)
(* The handlers that write rows are steps here; how they overlap is        *)
(* Attendance's subject.  Rows are in the order of created_at.  Those of   *)
(* one tick lie within COLLUSION_WINDOW_S, those of different ticks more   *)
(* than that and MIN_TRAVEL_GAP_S apart.  Every day is a workday and the   *)
(* office's day is that of UTC.                                            *)
(***************************************************************************)
EXTENDS PresenceTrust

CONSTANTS
    Person, Site, Meeting,  \* Meeting: what a mark is for, sessions of a day
    OffSite,                \* site_id and coordinates are None
    Shot,                   \* [similarity, site] of the check-ins
    Ticks, TickMinutes,     \* of a day, and their distance
    Apart,                  \* metres between two sites
    Limit,                  \* the 800 of summary
    MaxDay, MaxRows         \* bounds

ASSUME LedgerAssumption ==
    /\ OffSite \notin Site /\ IsFiniteSet(Person)
    /\ Shot \subseteq [similarity : 0 .. 100, site : Site \cup {OffSite}]
    /\ {Ticks, TickMinutes} \subseteq Nat \ {0}
    /\ {Apart, Limit, MaxDay, MaxRows} \subseteq Nat

VARIABLES
    hour,       \* ticks since the beginning
    rows,       \* the attendance table, oldest first
    roster,     \* active people with face images, the same all the time
    closed      \* days whose automatic absences are written

ledger == <<hour, rows, roster, closed>>

DayOf(at) == at \div Ticks
TickOf(at) == at % Ticks
LedgerDay == DayOf(hour)

NoSimilarity == -1
VerifyThreshold == 50    \* verify_threshold

NewRow(p, m, decision, similarity, site) ==
    [person |-> p, meeting |-> m, decision |-> decision, similarity |-> similarity,
     site |-> site, at |-> hour, out |-> FALSE]

Present(i) == rows[i].decision = "present"
PresentOn(p, d) == {i \in DOMAIN rows : Present(i) /\ rows[i].person = p /\ DayOf(rows[i].at) = d}
Marks(p, m) == {i \in PresentOn(p, LedgerDay) : rows[i].meeting = m}

----------------------------------------------------------------------------
(* The dashboard.                                                          *)

\* The newest rows of the table
Newest(n) == {i \in DOMAIN rows : i > Len(rows) - n}

Board == {i \in Newest(Limit) : DayOf(rows[i].at) = LedgerDay}
BoardPresent == {i \in Board : Present(i)}
PresentIds == {rows[i].person : i \in BoardPresent}
FailedToday == Cardinality({i \in Board : rows[i].decision = "failed"})

\* Faulty: the first mark of the day decides who is still in.
FirstPresent(p) == Min({i \in BoardPresent : rows[i].person = p})

LatestPresent(p) == Max({i \in BoardPresent : rows[i].person = p})

StillOut == {p \in PresentIds : ~rows[LatestPresent(p)].out}
Waiting == roster \ PresentIds
AbsentToday == Max({Cardinality(roster) - Cardinality(PresentIds), 0})

----------------------------------------------------------------------------
(* behaviour_features for the punch in row k, from the rows before it.     *)

History(p, k) == {i \in 1 .. k - 1 : rows[i].person = p}

\* (metres, seconds) between two rows that have coordinates
Speeding(i, k, share) ==
    /\ rows[i].site \in Site /\ rows[k].site \in Site /\ rows[i].site # rows[k].site
    /\ rows[i].at < rows[k].at
    /\ Apart * share > 250 * (rows[k].at - rows[i].at) * TickMinutes * 60

\* First row of each day, as minutes into the day
FirstOfDay(p, k) ==
    {i \in History(p, k) : \A j \in History(p, k) : j < i => DayOf(rows[j].at) # DayOf(rows[i].at)}
Minutes(i) == TickOf(rows[i].at) * TickMinutes

\* abs(arrival_zscore) > z, without the roots and quotients: the standard
\* deviation is floored at three minutes.  z is in halves.
Deviates(p, k, z) ==
    LET days == FirstOfDay(p, k)
        n == Cardinality(days)
        sum == MapThenSumSet(Minutes, days)
        squares == MapThenSumSet(LAMBDA i : Minutes(i) * Minutes(i), days)
        dev == n * Minutes(k) - sum
        spread == (n * (n * squares - sum * sum)) \div (n - 1)
    IN n >= 2 /\ 4 * dev * dev > z * z * Max({spread, 9 * n * n})

\* arrival_stdev_min < 1
Clockwork(p, k) ==
    LET days == FirstOfDay(p, k)
    IN Cardinality(days) >= 2 /\ \A i, j \in days : Minutes(i) = Minutes(j)

Visited(p, k) == {rows[i].site : i \in History(p, k)} \ {OffSite}

\* similarity_drift below -0.12
Drifts(p, k) ==
    LET past == {i \in History(p, k) : rows[i].similarity # NoSimilarity}
    IN /\ rows[k].similarity # NoSimilarity /\ past # {}
       /\ Cardinality(past) * (rows[k].similarity + 12)
            < MapThenSumSet(LAMBDA i : rows[i].similarity, past)

\* _collusion_rate: pairs of rows of p and of one other person in one window
Hits(p, q, k) ==
    Cardinality({ij \in History(p, k) \X History(q, k) : rows[ij[1]].at = rows[ij[2]].at})

\* The rate exceeds num / den.  Fewer than four rows give no rate.
Colludes(p, k, num, den) ==
    LET mine == Cardinality(History(p, k))
    IN mine >= 4 /\ \E q \in Person \ {p} : den * Hits(p, q, k) > num * mine

----------------------------------------------------------------------------
(* behaviour_risk, in hundredths.                                          *)

Rule(applies, points) == IF applies THEN points ELSE 0

Risk(p, k) ==
    LET history == History(p, k)
        last == Max(history)
    IN IF history = {} THEN 0
       ELSE (IF Speeding(last, k, 1) THEN 45 ELSE Rule(Speeding(last, k, 5), 15))
            + (IF Deviates(p, k, 8) THEN 20 ELSE Rule(Deviates(p, k, 5), 8))
            + Rule(Clockwork(p, k) /\ Cardinality(history) >= 10, 15)
            + (IF Colludes(p, k, 4, 5) THEN 25 ELSE Rule(Colludes(p, k, 1, 2), 10))
            + Rule(rows[k].site \in Site /\ Visited(p, k) # {} /\ rows[k].site \notin Visited(p, k), 8)
            + Rule(Drifts(p, k), 12)

\* Faulty: little history is as good as much.
BehaviourUndamped(p, k) == ((100 - Min({Risk(p, k), 100})) * 20) \div 100

\* What the behaviour adds to the fusion: less than five rows damp the risk.
Behaviour(p, k) ==
    LET risk == Min({Risk(p, k), 100})
    IN IF Cardinality(History(p, k)) < 5 THEN ((1000 - 4 * risk) * 20) \div 1000
       ELSE ((100 - risk) * 20) \div 100

----------------------------------------------------------------------------
(* Steps.                                                                  *)

AddRows(new) ==
    /\ Len(rows) + Len(new) <= MaxRows
    /\ rows' = rows \o new
    /\ UNCHANGED <<hour, roster, closed>>

\* check_in: a matching face marks, another leaves a failed row
Punch(p, m, shot) ==
    /\ p \in roster /\ Marks(p, m) = {}
    /\ AddRows(<<NewRow(p, m, IF shot.similarity >= VerifyThreshold THEN "present" ELSE "failed",
                        shot.similarity, shot.site)>>)

\* manual_attendance: for anybody, without a face or a place
Manual(p, m) == Marks(p, m) = {} /\ AddRows(<<NewRow(p, m, "present", NoSimilarity, OffSite)>>)

CheckOut(p, m) ==
    /\ \E i \in Marks(p, m) : ~rows[i].out /\ rows' = [rows EXCEPT ![i].out = TRUE]
    /\ UNCHANGED <<hour, roster, closed>>

\* _maybe_auto_absent, by a summary at closing time: one row each for the
\* missing, all within a moment
AutoAbsent ==
    LET missing == {p \in Waiting : PresentOn(p, LedgerDay) = {}}
    IN /\ TickOf(hour) = Ticks - 1 /\ LedgerDay \notin closed
       /\ Len(rows) + Cardinality(missing) <= MaxRows
       /\ \E order \in {f \in [1 .. Cardinality(missing) -> missing] :
                          {f[i] : i \in DOMAIN f} = missing} :
            rows' = rows \o [i \in DOMAIN order |->
                      NewRow(order[i], CHOOSE m \in Meeting : TRUE, "absent", NoSimilarity, OffSite)]
       /\ closed' = closed \cup {LedgerDay}
       /\ UNCHANGED <<hour, roster>>

HourPasses ==
    /\ hour < (MaxDay + 1) * Ticks - 1
    /\ hour' = hour + 1
    /\ UNCHANGED <<rows, roster, closed>>

LedgerInit == hour = 0 /\ rows = <<>> /\ roster \in SUBSET Person /\ closed = {}

LedgerNext ==
    \/ HourPasses \/ AutoAbsent
    \/ \E p \in Person, m \in Meeting :
         \/ Manual(p, m) \/ CheckOut(p, m)
         \/ \E shot \in Shot : Punch(p, m, shot)

LedgerSpec == LedgerInit /\ [][LedgerNext]_ledger

----------------------------------------------------------------------------
(* Properties.                                                             *)

DaysRows == {i \in DOMAIN rows : DayOf(rows[i].at) = LedgerDay}

\* As long as the day has no more rows than summary reads, the dashboard
\* tells who is in, who is waited for and who has not left since he came
\* last, and its number of absentees is the length of its list of those
\* waited for unless somebody is present who is not expected
\* (ops.py:169, 232).
BoardIsRight ==
    Cardinality(DaysRows) <= Limit =>
        /\ PresentIds = {p \in Person : PresentOn(p, LedgerDay) # {}}
        /\ StillOut = {p \in Person :
                         \E i \in PresentOn(p, LedgerDay) :
                            ~rows[i].out /\ \A j \in PresentOn(p, LedgerDay) : j <= i}
        /\ AbsentToday = Cardinality(Waiting) \/ ~(PresentIds \subseteq roster)

\* Somebody with little history is not taken for a fraud: whatever he does,
\* his behaviour does not turn a punch that the face and the camera's
\* signals accept, when it is scored, into one to review (behaviour.py:263).
NewcomersAreNotAccused ==
    LET k == Len(rows)
        p == rows[k].person
        face == FaceConfidence(rows[k].similarity)
        behaviour == Behaviour(p, k)
    IN (/\ k > 0 /\ rows[k].at = hour /\ rows[k].similarity # NoSimilarity
        /\ Cardinality(History(p, k)) < 5) =>
         \A pad, vcd \in {-1, 5, 20} :
            LET others == [face |-> face, pad |-> pad, vcd |-> vcd]
                all == [face |-> face, pad |-> pad, vcd |-> vcd, behaviour |-> behaviour]
            IN PresenceTrust(others) = "accept" => PresenceTrust(all) = "accept"
============================================================================
