---------------------------- MODULE AlertEngine ----------------------------
(***************************************************************************)
(* The alert centre of the backend: rules and events (alert_service.py)    *)
(* and the engine that compares the latest readings of every server with   *)
(* every enabled rule and moves the events along (alert_engine.py).        *)
(*                                                                         *)
(* An alert key is a rule, a server and the metric the rule was about when *)
(* the event came up; the events of a key are numbered in the order of     *)
(* their ids.  first_fired_at is kept as the age of the event, up to       *)
(* AgeCap.  Left out: names, severities, messages, alert_event_log and the *)
(* values shown to the user, which no handler reads back.                  *)
(*                                                                         *)
(* streak is no state of the program: it remembers for how long, since an  *)
(* evaluation found the rule of a key violated, none has found the value   *)
(* back to normal.                                                         *)
(***************************************************************************)
EXTENDS Integers

CONSTANTS
    Rules,       \* ids alert_rule.id can take
    Servers,     \* active servers
    Metrics,     \* values of metric_type in use
    Cores,       \* Cores[s]: cpu_cores, 0 if unknown
    RuleInputs,  \* rules a user may create or change one into
    Values,      \* readings of a metric
    None,        \* NULL
    MaxEvents,   \* bound: events a key may have
    AgeCap       \* ages above every duration count the same

Operators == {"GT", "GTE", "LT", "LTE", "EQ"}
ActiveStatuses == {"PENDING", "FIRING", "ACKNOWLEDGED"}

AlertRule ==
    [enabled : BOOLEAN, metric : Metrics, operator : Operators,
     threshold : Int \cup {None}, recovery : Int \cup {None}, duration : Nat]

AlertEvent ==
    [status : {"ABSENT", "RESOLVED"} \cup ActiveStatuses, age : 0..AgeCap]

ASSUME AlertAssumption ==
    /\ Metrics \subseteq {"CPU", "MEMORY", "DISK", "LOAD", "AGENT"}
    /\ Cores \in [Servers -> Nat]
    /\ RuleInputs \subseteq AlertRule
    /\ Values \subseteq Int
    /\ None \notin Int
    /\ MaxEvents \in Nat \ {0}
    /\ AgeCap \in Nat
    /\ \A r \in RuleInputs : r.duration <= AgeCap

AlertKeys == Rules \X Servers \X Metrics
Numbers == 1..MaxEvents
NoEvent == [status |-> "ABSENT", age |-> 0]
NoStreak == -1

VARIABLES
    rule,     \* alert_rule: a rule, or None
    retired,  \* ids of deleted rules, never given out again
    event,    \* alert_event: event[k][n]
    reading,  \* reading[s][m]: latest value of a metric, or None
    streak    \* streak[k]: how long k has been violated and never back to normal

vars == <<rule, retired, event, reading, streak>>

Init ==
    /\ rule = [r \in Rules |-> None]
    /\ retired = {}
    /\ event = [k \in AlertKeys |-> [n \in Numbers |-> NoEvent]]
    /\ reading = [s \in Servers |-> [m \in Metrics |-> None]]
    /\ streak = [k \in AlertKeys |-> NoStreak]

-----------------------------------------------------------------------------
(* What the engine decides for one rule and one server. *)

effective_threshold(r, s) ==
    IF r.threshold = None THEN None
    ELSE IF r.metric = "LOAD"
         THEN r.threshold * (IF Cores[s] = 0 THEN 1 ELSE Cores[s])
         ELSE r.threshold

compare(value, operator, threshold) ==
    /\ threshold # None
    /\ CASE operator = "GTE" -> value >= threshold
         [] operator = "LT"  -> value < threshold
         [] operator = "LTE" -> value <= threshold
         [] operator = "EQ"  -> value = threshold
         [] OTHER            -> value > threshold

\* Mutated form: the recovery threshold is strict and the rule's ignored.
is_recovered_below_only(r, value) == r.recovery # None /\ value < r.recovery

is_recovered(r, value) ==
    IF r.recovery # None THEN value <= r.recovery
    ELSE ~compare(value, r.operator, r.threshold)

\* Mutated form: an acknowledged event does not count.
get_active_unacknowledged(ev, k) ==
    {n \in Numbers : ev[k][n].status \in {"PENDING", "FIRING"}}

get_active_by_alert_key(ev, k) ==
    {n \in Numbers : ev[k][n].status \in ActiveStatuses}

\* The key is one the engine looks at: of an enabled rule, with a reading.
Evaluated(rl, k) ==
    /\ rl[k[1]] # None
    /\ rl[k[1]].enabled
    /\ rl[k[1]].metric = k[3]
    /\ reading[k[2]][k[3]] # None

Violated(rl, k) ==
    /\ Evaluated(rl, k)
    /\ compare(reading[k[2]][k[3]], rl[k[1]].operator,
               effective_threshold(rl[k[1]], k[2]))

\* n is the id the next event of a key gets.
IsNext(ev, k, n) ==
    /\ ev[k][n].status = "ABSENT"
    /\ \A m \in Numbers : m < n => ev[k][m].status # "ABSENT"

Full(ev, k) == \A n \in Numbers : ev[k][n].status # "ABSENT"

\* Mutated form: FIRING from the first evaluation that finds it violated again.
handle_violation_at_once(r, ev, k) ==
    LET active == get_active_by_alert_key(ev, k)
    IN  [n \in Numbers |->
            IF active = {} /\ IsNext(ev, k, n)
            THEN [status |-> "PENDING", age |-> 0]
            ELSE IF n \in active /\ ev[k][n].status = "PENDING"
            THEN [ev[k][n] EXCEPT !.status = "FIRING"]
            ELSE ev[k][n]]

\* Mutated form: the duration is counted from last_fired_at.
handle_violation_since_last(r, ev, k) ==
    LET active == get_active_by_alert_key(ev, k)
    IN  [n \in Numbers |->
            IF active = {} /\ IsNext(ev, k, n)
            THEN [status |-> "PENDING", age |-> 0]
            ELSE IF n \in active /\ ev[k][n].status = "PENDING"
            THEN [status |-> IF ev[k][n].age >= r.duration THEN "FIRING" ELSE "PENDING",
                  age |-> 0]
            ELSE ev[k][n]]

handle_violation(r, ev, k) ==
    LET active == get_active_by_alert_key(ev, k)
    IN  [n \in Numbers |->
            IF active = {} /\ IsNext(ev, k, n)
            THEN [status |-> "PENDING", age |-> 0]
            ELSE IF /\ n \in active
                    /\ ev[k][n].status = "PENDING"
                    /\ ev[k][n].age >= r.duration
            THEN [ev[k][n] EXCEPT !.status = "FIRING"]
            ELSE ev[k][n]]

handle_recovery(r, ev, k) ==
    [n \in Numbers |->
        IF n \in get_active_by_alert_key(ev, k) /\ is_recovered(r, reading[k[2]][k[3]])
        THEN [ev[k][n] EXCEPT !.status = "RESOLVED"] ELSE ev[k][n]]

evaluate_all(rl, ev) ==
    [k \in AlertKeys |->
        IF ~Evaluated(rl, k) THEN ev[k]
        ELSE IF Violated(rl, k) THEN handle_violation(rl[k[1]], ev, k)
        ELSE handle_recovery(rl[k[1]], ev, k)]

-----------------------------------------------------------------------------
(* Users and agents *)

CreateRule(r, data) ==
    /\ rule[r] = None /\ r \notin retired
    /\ rule' = [rule EXCEPT ![r] = data]
    /\ UNCHANGED <<retired, event, reading, streak>>

UpdateRule(r, data) ==
    /\ rule[r] # None
    /\ rule' = [rule EXCEPT ![r] = data]
    /\ UNCHANGED <<retired, event, reading, streak>>

\* A rule with events cannot be deleted: fk_alert_event_rule.
DeleteRule(r) ==
    /\ rule[r] # None
    /\ \A k \in AlertKeys, n \in Numbers : k[1] = r => event[k][n].status = "ABSENT"
    /\ rule' = [rule EXCEPT ![r] = None]
    /\ retired' = retired \cup {r}
    /\ UNCHANGED <<event, reading, streak>>

\* Mutated form: resolved events can be acknowledged.
AcknowledgeAny(k, n) ==
    /\ event[k][n].status # "ABSENT"
    /\ event' = [event EXCEPT ![k][n].status = "ACKNOWLEDGED"]
    /\ UNCHANGED <<rule, retired, reading, streak>>

Acknowledge(k, n) ==
    /\ event[k][n].status \notin {"ABSENT", "RESOLVED"}
    /\ event' = [event EXCEPT ![k][n].status = "ACKNOWLEDGED"]
    /\ UNCHANGED <<rule, retired, reading, streak>>

Resolve(k, n) ==
    /\ event[k][n].status \notin {"ABSENT", "RESOLVED"}
    /\ event' = [event EXCEPT ![k][n].status = "RESOLVED"]
    /\ UNCHANGED <<rule, retired, reading, streak>>

\* An agent reports; a report may leave a metric out.
ReportMetric(s, m, v) ==
    /\ reading' = [reading EXCEPT ![s][m] = v]
    /\ UNCHANGED <<rule, retired, event, streak>>

-----------------------------------------------------------------------------
(* The scheduler *)

\* Recovered as docs/modules/alerting.md:49 has it, with the threshold as it is
\* written in the rule; for LOAD the cores should multiply it (:44), which the
\* recovery test leaves out.  For LOAD on several cores, and with a recovery
\* threshold, a value may be neither in violation nor back to normal.
BackToNormal(rl, k) ==
    LET r == rl[k[1]]
        v == reading[k[2]][k[3]]
    IN  /\ Evaluated(rl, k)
        /\ ~Violated(rl, k)
        /\ r.recovery # None => v <= r.recovery
        /\ r.recovery = None => ~compare(v, r.operator, r.threshold)

StreakAfter(rl) ==
    [k \in AlertKeys |->
        IF BackToNormal(rl, k) THEN NoStreak
        ELSE IF Violated(rl, k) /\ streak[k] = NoStreak THEN 0
        ELSE streak[k]]

\* The bound: no key has used up its events.
RoomForEvents(rl, ev) ==
    \A k \in AlertKeys :
        Violated(rl, k) /\ get_active_by_alert_key(ev, k) = {} => ~Full(ev, k)

EvaluateAll ==
    /\ RoomForEvents(rule, event)
    /\ event' = evaluate_all(rule, event)
    /\ streak' = StreakAfter(rule)
    /\ UNCHANGED <<rule, retired, reading>>

\* Mutated form: ages grow past every bound.
OlderForEver(n) == n + 1

Older(n) == IF n < AgeCap THEN n + 1 ELSE n

Tick ==
    /\ event' = [k \in AlertKeys |-> [n \in Numbers |->
           IF event[k][n].status \in ActiveStatuses
           THEN [event[k][n] EXCEPT !.age = Older(@)] ELSE event[k][n]]]
    /\ streak' = [k \in AlertKeys |->
           IF streak[k] = NoStreak THEN NoStreak ELSE Older(streak[k])]
    /\ UNCHANGED <<rule, retired, reading>>

Next ==
    \/ \E r \in Rules, data \in RuleInputs : CreateRule(r, data)
    \/ \E r \in Rules, data \in RuleInputs : UpdateRule(r, data)
    \/ \E r \in Rules : DeleteRule(r)
    \/ \E k \in AlertKeys, n \in Numbers : Acknowledge(k, n)
    \/ \E k \in AlertKeys, n \in Numbers : Resolve(k, n)
    \/ \E s \in Servers, m \in Metrics, v \in Values \cup {None} : ReportMetric(s, m, v)
    \/ EvaluateAll
    \/ Tick

Spec == Init /\ [][Next]_vars

\* The evaluation job runs every few seconds and time passes.
FairSpec == Spec /\ WF_vars(EvaluateAll) /\ WF_vars(Tick)

-----------------------------------------------------------------------------
(* Correctness *)

TypeOK ==
    /\ rule \in [Rules -> RuleInputs \cup {None}]
    /\ retired \subseteq Rules
    /\ event \in [AlertKeys -> [Numbers -> AlertEvent]]
    /\ reading \in [Servers -> [Metrics -> Values \cup {None}]]
    /\ streak \in [AlertKeys -> {NoStreak} \cup 0..AgeCap]

\* A key has at most one active event, whatever is acknowledged, resolved,
\* reconfigured and found violated again: uk_alert_event_active_key is never
\* what keeps the engine from a second one.
OneActivePerKey ==
    \A k \in AlertKeys, m, n \in Numbers :
        /\ event[k][m].status \in ActiveStatuses
        /\ event[k][n].status \in ActiveStatuses
        => m = n

\* A resolved event is history: no handler opens it again.
ResolvedStaysResolved ==
    [][\A k \in AlertKeys, n \in Numbers :
           event[k][n].status = "RESOLVED" => event'[k][n].status = "RESOLVED"]_vars

\* An event fires only at an evaluation that finds the rule violated, and only
\* when for as long as the rule asks no evaluation has found the value back to
\* normal, whatever was acknowledged, resolved, edited, switched off and on
\* meanwhile.  Time in the band between violation and recovery counts: the
\* code keeps the event PENDING there, which "duration" does not say.
FiringNeedsSteadyViolation ==
    [][\A k \in AlertKeys, n \in Numbers :
           event[k][n].status # "FIRING" /\ event'[k][n].status = "FIRING" =>
               Violated(rule, k) /\ streak[k] >= rule[k[1]].duration]_vars

\* An alert, acknowledged or not, does not outlive its cause: while the value
\* is back to normal the next evaluation ends it (docs/modules/alerting.md:37
\* and :49), also for LOAD and for rules with a recovery threshold, and if the
\* rule is edited meanwhile.  What the code counts as normal for LOAD is less
\* than the documentation does: see BackToNormal.
AlertEnds ==
    \A k \in AlertKeys, n \in Numbers :
        event[k][n].status \in ActiveStatuses
            ~> (event[k][n].status \notin ActiveStatuses \/ ~BackToNormal(rule, k))

\* An event does not stay PENDING while its rule stays violated: the engine
\* fires it once the duration is over, unless a user handles it first.
PendingFires ==
    \A k \in AlertKeys, n \in Numbers :
        event[k][n].status = "PENDING"
            ~> (event[k][n].status # "PENDING" \/ ~Violated(rule, k))
=============================================================================
