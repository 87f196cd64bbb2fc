------------------------- MODULE AlertTransactions -------------------------
(***************************************************************************)
(* The alert centre with the concurrency it runs with: requests of users   *)
(* and the evaluation job in database sessions of their own.  As in        *)
(* TaskTransactions a session reads the snapshot of its first query, the   *)
(* ORM writes the columns the handler changed, each row by primary key     *)
(* over what it is at the commit, and the unique and foreign keys decide   *)
(* whether the commit succeeds.  Sessions are short: time passes only      *)
(* while none is open.                                                     *)
(***************************************************************************)
EXTENDS AlertEngine

CONSTANT Sessions   \* database sessions that may be open at once

VARIABLE session    \* session[w]: closed, or what it read and will write

txVars == <<rule, retired, event, reading, streak, session>>

Tables == [rule |-> rule, event |-> event]
Closed == [op |-> "closed"]
Idle == \A w \in Sessions : session[w] = Closed

\* streak is what the evaluation, if it is one, makes of the streaks.
Begin(w, op, newRule, newEvent, newStreak) ==
    /\ session[w] = Closed
    /\ session' = [session EXCEPT ![w] =
           [op |-> op, read |-> Tables, streak |-> newStreak,
            written |-> [rule |-> newRule, event |-> newEvent]]]
    /\ UNCHANGED vars

TxInit == Init /\ session = [w \in Sessions |-> Closed]

BeginUpdateRule(w, r, data) ==
    /\ rule[r] # None
    /\ Begin(w, "rule", [rule EXCEPT ![r] = data], event, streak)

BeginDeleteRule(w, r) ==
    /\ rule[r] # None
    /\ Begin(w, "rule", [rule EXCEPT ![r] = None], event, streak)

BeginAcknowledge(w, k, n) ==
    /\ event[k][n].status \notin {"ABSENT", "RESOLVED"}
    /\ Begin(w, "acknowledge", rule,
             [event EXCEPT ![k][n].status = "ACKNOWLEDGED"], streak)

BeginResolve(w, k, n) ==
    /\ event[k][n].status \notin {"ABSENT", "RESOLVED"}
    /\ Begin(w, "resolve", rule, [event EXCEPT ![k][n].status = "RESOLVED"], streak)

\* scheduler_lock: one evaluation at a time.
BeginEvaluate(w) ==
    /\ \A v \in Sessions : session[v].op # "evaluate"
    /\ RoomForEvents(rule, event)
    /\ Begin(w, "evaluate", rule, evaluate_all(rule, event), StreakAfter(rule))

-----------------------------------------------------------------------------
(* The end of a session. *)

\* The columns a session changed, over the row as it is now.
MergeColumns(now, read, written) ==
    [c \in DOMAIN now |-> IF written[c] # read[c] THEN written[c] ELSE now[c]]

EventsAfter(x) ==
    [k \in AlertKeys |-> [n \in Numbers |->
        MergeColumns(event[k][n], x.read.event[k][n], x.written.event[k][n])]]

RulesAfter(x) ==
    [r \in Rules |->
        IF rule[r] = None \/ x.written.rule[r] = x.read.rule[r] THEN rule[r]
        ELSE IF x.written.rule[r] = None THEN None
        ELSE MergeColumns(rule[r], x.read.rule[r], x.written.rule[r])]

\* uk_alert_event_active_key and fk_alert_event_rule.
KeysHold(rl, ev) ==
    /\ \A k \in AlertKeys, m, n \in Numbers :
           /\ ev[k][m].status \in ActiveStatuses
           /\ ev[k][n].status \in ActiveStatuses
           => m = n
    /\ \A k \in AlertKeys, n \in Numbers : ev[k][n].status # "ABSENT" => rl[k[1]] # None

\* An UPDATE of a rule that is gone finds no row, which the ORM takes for an
\* error as well.
RuleGone(x) ==
    \E r \in Rules : x.written.rule[r] # x.read.rule[r] /\ rule[r] = None

CommitSession(w) ==
    LET x == session[w]
    IN  /\ x # Closed
        /\ ~RuleGone(x)
        /\ KeysHold(RulesAfter(x), EventsAfter(x))
        /\ rule' = RulesAfter(x)
        /\ event' = EventsAfter(x)
        /\ retired' = retired \cup {r \in Rules : rule[r] # None /\ RulesAfter(x)[r] = None}
        /\ streak' = IF x.op = "evaluate" THEN x.streak ELSE streak
        /\ session' = [session EXCEPT ![w] = Closed]
        /\ UNCHANGED reading

RollbackSession(w) ==
    LET x == session[w]
    IN  /\ x # Closed
        /\ RuleGone(x) \/ ~KeysHold(RulesAfter(x), EventsAfter(x))
        /\ session' = [session EXCEPT ![w] = Closed]
        /\ UNCHANGED vars

TxNext ==
    \/ \E r \in Rules, data \in RuleInputs : CreateRule(r, data) /\ UNCHANGED session
    \/ \E w \in Sessions, r \in Rules, data \in RuleInputs : BeginUpdateRule(w, r, data)
    \/ \E w \in Sessions, r \in Rules : BeginDeleteRule(w, r)
    \/ \E w \in Sessions, k \in AlertKeys, n \in Numbers : BeginAcknowledge(w, k, n)
    \/ \E w \in Sessions, k \in AlertKeys, n \in Numbers : BeginResolve(w, k, n)
    \/ \E w \in Sessions : BeginEvaluate(w)
    \/ \E w \in Sessions : CommitSession(w)
    \/ \E w \in Sessions : RollbackSession(w)
    \/ \E s \in Servers, m \in Metrics, v \in Values \cup {None} :
           ReportMetric(s, m, v) /\ UNCHANGED session
    \/ Idle /\ Tick /\ UNCHANGED session

TxSpec == TxInit /\ [][TxNext]_txVars

-----------------------------------------------------------------------------
(* What the documentation says and overlapping sessions break. *)

\* docs/modules/alerting.md: RESOLVED is the end of an event.  An evaluation
\* or an acknowledgement that read the event before opens it again.
ResolvedIsFinal ==
    [][\A k \in AlertKeys, n \in Numbers :
           event[k][n].status = "RESOLVED" => event'[k][n].status = "RESOLVED"]_txVars

=============================================================================
