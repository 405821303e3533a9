----------------------------- MODULE AuditTrail -----------------------------
(***************************************************************************)
(* The rows HR looks things up in: the access events, the spoof alerts,    *)
(* and the lists of routes/events.py, routes/attendance.py and             *)
(* routes/ops.py that show or export them.  All three tables are read the  *)
(* same way, newest first and up to a limit, and then cut to days; the     *)
(* rows here stand for events, with kind and person as the columns a       *)
(* statement can ask for.                                                  *)
(*                                                                         *)
(* Left out: the CSV, the captured frame, the mail about an alert.         *)
(***************************************************************************)
EXTENDS Integers, Sequences, FiniteSets

CONSTANTS
    Suspect,    \* people an event is about
    Nobody,     \* person_id is None
    AlertLimit, \* the 200 of summary and list_spoof_alerts
    MaxDays, MaxEvents, MaxAlerts   \* bounds

ASSUME TrailAssumption ==
    /\ Nobody \notin Suspect
    /\ {AlertLimit, MaxDays, MaxEvents, MaxAlerts} \subseteq Nat

VARIABLES
    localDay,
    events,     \* accessevent, oldest first
    alerts,     \* spoofalert, oldest first
    check       \* a liveness check that has answered and still writes

trail == <<localDay, events, alerts, check>>

NoCheck == [at |-> "none"]

AnyKind == "any"
AnyPerson == "any"

----------------------------------------------------------------------------
(* Reading.                                                                *)

Asked(row, kind, person) == kind \in {AnyKind, row.kind} /\ person \in {AnyPerson, row.person}

\* The n last elements of a set of positions
LastOf(n, positions) == {i \in positions : Cardinality({j \in positions : j > i}) < n}

\* Faulty: the statement's conditions are tested on the newest rows only.
LimitedFirst(rows, n, kind, person) ==
    {i \in LastOf(n, DOMAIN rows) : Asked(rows[i], kind, person)}

\* The statement: its conditions first, then its limit
Selected(rows, n, kind, person) ==
    LastOf(n, {i \in DOMAIN rows : Asked(rows[i], kind, person)})

\* _filtered, _filtered_rows: days are cut afterwards
Filtered(rows, n, kind, person, from, to) ==
    {i \in Selected(rows, n, kind, person) : rows[i].day \in from .. to}

\* spoof_today of summary
SpoofToday ==
    Cardinality({i \in LastOf(AlertLimit, DOMAIN alerts) : alerts[i].day = localDay})

----------------------------------------------------------------------------
(* Writing.                                                                *)

Event(kind, person) == [kind |-> kind, person |-> person, day |-> localDay]

\* log_event, by any handler
LogEvent(person) ==
    /\ Len(events) < MaxEvents
    /\ events' = Append(events, Event("attendance", person))
    /\ UNCHANGED <<localDay, alerts, check>>

\* check_challenge: the event of the check, for the person of the account.
\* A photo at a place where attendance is taken goes on to record_spoof,
\* unless no frame can be kept; the alert is about the account's person or,
\* if it has none, about whomever the gallery finds nearest, if anybody.
CheckClip(person) ==
    /\ check = NoCheck /\ Len(events) < MaxEvents
    /\ events' = Append(events, Event("liveness", person))
    /\ \/ UNCHANGED check
       \/ \E who \in IF person = Nobody THEN Suspect \cup {Nobody} ELSE {person} :
            check' = [at |-> "alert", who |-> who]
    /\ UNCHANGED <<localDay, alerts>>

\* record_spoof commits the alert, and then its event.
RecordSpoof ==
    /\ check.at = "alert" /\ Len(alerts) < MaxAlerts
    /\ alerts' = Append(alerts, [person |-> check.who, day |-> localDay, seen |-> FALSE])
    /\ check' = [check EXCEPT !.at = "log"]
    /\ UNCHANGED <<localDay, events>>

LogSpoof ==
    /\ check.at = "log" /\ Len(events) < MaxEvents
    /\ events' = Append(events, Event("spoof", check.who))
    /\ check' = NoCheck
    /\ UNCHANGED <<localDay, alerts>>

MarkSpoofSeen ==
    /\ \E i \in DOMAIN alerts : ~alerts[i].seen /\ alerts' = [alerts EXCEPT ![i].seen = TRUE]
    /\ UNCHANGED <<localDay, events, check>>

\* The process dies, and the check with it.
CheckDies == check # NoCheck /\ check' = NoCheck /\ UNCHANGED <<localDay, events, alerts>>

Midnight ==
    /\ localDay < MaxDays
    /\ localDay' = localDay + 1
    /\ UNCHANGED <<events, alerts, check>>

TrailInit == localDay = 1 /\ events = <<>> /\ alerts = <<>> /\ check = NoCheck

TrailNext ==
    \/ \E person \in Suspect \cup {Nobody} : LogEvent(person) \/ CheckClip(person)
    \/ RecordSpoof \/ LogSpoof \/ MarkSpoofSeen
    \/ CheckDies
    \/ Midnight

TrailSpec == TrailInit /\ [][TrailNext]_trail

----------------------------------------------------------------------------
(* Properties.                                                             *)

\* A list or export of a range of days shows every row of it, for every kind
\* and person, as long as no more rows of that kind and person than its
\* limit were written since the range began - and not only since it ended:
\* newer rows use up the limit (events.py:32, 38; attendance.py:520).  The
\* dashboard's number of alerts is today's, up to its limit.
ListsAreComplete ==
    /\ \A n \in 1 .. Len(events), kind \in {AnyKind, "attendance", "liveness", "spoof"},
          person \in Suspect \cup {AnyPerson}, from, to \in 1 .. MaxDays :
         LET matching == {i \in DOMAIN events : Asked(events[i], kind, person)}
         IN Cardinality({i \in matching : events[i].day >= from}) <= n =>
              Filtered(events, n, kind, person, from, to) = {i \in matching : events[i].day \in from .. to}
    /\ LET today == {i \in DOMAIN alerts : alerts[i].day = localDay}
       IN Cardinality(today) <= AlertLimit => SpoofToday = Cardinality(today)
==============================================================================
