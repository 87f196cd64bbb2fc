------------------------- MODULE AlertEngineProofs -------------------------
(***************************************************************************)
(* Proofs about AlertEngine, for any rules, servers, readings and number   *)
(* of events.                                                              *)
(***************************************************************************)
EXTENDS AlertEngine, TLAPS

Events == [Numbers -> AlertEvent]

AtMostOneActive(ev) ==
    \A m, n \in Numbers :
        ev[m].status \in ActiveStatuses /\ ev[n].status \in ActiveStatuses => m = n

\* The invariant: the tables are well typed and a key has one active event.
AlertInv == TypeOK /\ OneActivePerKey

\* _handle_violation turns events into events, opens one only when none is
\* active, and leaves resolved ones alone.
LEMMA ViolationKeeps ==
    ASSUME NEW ev \in [AlertKeys -> Events], NEW k \in AlertKeys, NEW r,
           AtMostOneActive(ev[k])
    PROVE  /\ handle_violation(r, ev, k) \in Events
           /\ AtMostOneActive(handle_violation(r, ev, k))
           /\ \A n \in Numbers : ev[k][n].status = "RESOLVED" =>
                  handle_violation(r, ev, k)[n].status = "RESOLVED"
  <1> DEFINE old == ev[k]
             new == handle_violation(r, ev, k)
  <1>0. old \in Events /\ 0 \in 0..AgeCap
    BY AlertAssumption
  <1>1. ASSUME NEW n \in Numbers
        PROVE  \/ /\ \A m \in Numbers : old[m].status \notin ActiveStatuses
                  /\ IsNext(ev, k, n)
                  /\ new[n] = [status |-> "PENDING", age |-> 0]
               \/ /\ old[n].status = "PENDING"
                  /\ new[n] = [old[n] EXCEPT !.status = "FIRING"]
               \/ new[n] = old[n]
    BY DEF handle_violation, get_active_by_alert_key
  <1>2. ASSUME NEW n \in Numbers
        PROVE  /\ new[n] \in AlertEvent
               /\ old[n].status = "RESOLVED" => new[n].status = "RESOLVED"
               /\ new[n].status \in ActiveStatuses =>
                     \/ old[n].status \in ActiveStatuses
                     \/ /\ \A m \in Numbers : old[m].status \notin ActiveStatuses
                        /\ IsNext(ev, k, n)
    <2> HIDE DEF new
    <2>0. old[n] \in AlertEvent
      BY <1>0 DEF Events
    <2>1. CASE /\ \A m \in Numbers : old[m].status \notin ActiveStatuses
               /\ IsNext(ev, k, n)
               /\ new[n] = [status |-> "PENDING", age |-> 0]
      BY <2>1, <1>0 DEF AlertEvent, ActiveStatuses, IsNext
    <2>2. CASE /\ old[n].status = "PENDING"
               /\ new[n] = [old[n] EXCEPT !.status = "FIRING"]
      BY <2>0, <2>2 DEF AlertEvent, ActiveStatuses
    <2>3. CASE new[n] = old[n]
      BY <2>0, <2>3
    <2> QED BY <1>1, <2>1, <2>2, <2>3
  <1>3. new \in Events
    <2>1. new = [n \in Numbers |-> new[n]]
      BY DEF handle_violation
    <2> HIDE DEF new
    <2> QED BY <1>2, <2>1 DEF Events
  <1>4. \A m, n \in Numbers : IsNext(ev, k, m) /\ IsNext(ev, k, n) => m = n
    BY AlertAssumption DEF IsNext, Numbers
  <1>5. AtMostOneActive(new)
    <2> HIDE DEF new
    <2> QED BY <1>2, <1>4 DEF AtMostOneActive
  <1> QED BY <1>2, <1>3, <1>5

\* _handle_recovery only resolves.
LEMMA RecoveryKeeps ==
    ASSUME NEW ev \in [AlertKeys -> Events], NEW k \in AlertKeys, NEW r,
           AtMostOneActive(ev[k])
    PROVE  /\ handle_recovery(r, ev, k) \in Events
           /\ AtMostOneActive(handle_recovery(r, ev, k))
           /\ \A n \in Numbers : ev[k][n].status = "RESOLVED" =>
                  handle_recovery(r, ev, k)[n].status = "RESOLVED"
  <1> DEFINE old == ev[k]
             new == handle_recovery(r, ev, k)
  <1>0. old \in Events
    OBVIOUS
  <1>1. ASSUME NEW n \in Numbers
        PROVE  new[n] = old[n] \/ new[n] = [old[n] EXCEPT !.status = "RESOLVED"]
    BY DEF handle_recovery
  <1>2. ASSUME NEW n \in Numbers
        PROVE  /\ new[n] \in AlertEvent
               /\ old[n].status = "RESOLVED" => new[n].status = "RESOLVED"
               /\ new[n].status \in ActiveStatuses => old[n].status \in ActiveStatuses
    BY <1>0, <1>1 DEF Events, AlertEvent, ActiveStatuses
  <1>3. new \in Events
    <2>1. new = [n \in Numbers |-> new[n]]
      BY DEF handle_recovery
    <2> HIDE DEF new
    <2> QED BY <1>2, <2>1 DEF Events
  <1>4. AtMostOneActive(new)
    <2> HIDE DEF new
    <2> QED BY <1>2 DEF AtMostOneActive
  <1> QED BY <1>2, <1>3, <1>4

\* One step of ResolvedStaysResolved.
KeepsResolved ==
    \A k \in AlertKeys, n \in Numbers :
        event[k][n].status = "RESOLVED" => event'[k][n].status = "RESOLVED"

\* A round of the engine keeps the invariant and the history.
LEMMA EvaluateKeeps ==
    ASSUME AlertInv, EvaluateAll
    PROVE  AlertInv' /\ KeepsResolved
  <1>0. /\ event \in [AlertKeys -> Events]
        /\ \A k \in AlertKeys : AtMostOneActive(event[k])
    BY DEF AlertInv, TypeOK, Events, OneActivePerKey, AtMostOneActive
  <1>1. ASSUME NEW k \in AlertKeys
        PROVE  /\ event'[k] \in Events
               /\ AtMostOneActive(event'[k])
               /\ \A n \in Numbers : event[k][n].status = "RESOLVED" =>
                      event'[k][n].status = "RESOLVED"
    <2>1. \/ event'[k] = event[k]
          \/ event'[k] = handle_violation(rule[k[1]], event, k)
          \/ event'[k] = handle_recovery(rule[k[1]], event, k)
      BY DEF EvaluateAll, evaluate_all
    <2>2. CASE event'[k] = event[k]
      BY <2>2, <1>0
    <2>3. CASE event'[k] = handle_violation(rule[k[1]], event, k)
      BY <2>3, <1>0, ViolationKeeps
    <2>4. CASE event'[k] = handle_recovery(rule[k[1]], event, k)
      BY <2>4, <1>0, RecoveryKeeps
    <2> QED BY <2>1, <2>2, <2>3, <2>4
  <1>2. event' \in [AlertKeys -> Events]
    <2>1. event' = [k \in AlertKeys |-> event'[k]]
      BY DEF EvaluateAll, evaluate_all
    <2> QED BY <1>1, <2>1
  <1>3. streak' \in [AlertKeys -> {NoStreak} \cup 0..AgeCap]
    BY AlertAssumption DEF AlertInv, TypeOK, EvaluateAll, StreakAfter
  <1>4. TypeOK'
    BY <1>2, <1>3 DEF AlertInv, TypeOK, EvaluateAll, Events
  <1>5. OneActivePerKey'
    BY <1>1 DEF OneActivePerKey, AtMostOneActive
  <1> QED BY <1>1, <1>4, <1>5 DEF AlertInv, KeepsResolved

\* Users change the status of one event that is not over.
LEMMA UserKeeps ==
    ASSUME AlertInv, NEW k \in AlertKeys, NEW n \in Numbers,
           Acknowledge(k, n) \/ Resolve(k, n)
    PROVE  AlertInv' /\ KeepsResolved
  <1> USE DEF AlertInv, TypeOK
  <1>1. PICK x \in {"ACKNOWLEDGED", "RESOLVED"} :
            /\ event' = [event EXCEPT ![k][n].status = x]
            /\ event[k][n].status \notin {"ABSENT", "RESOLVED"}
            /\ UNCHANGED <<rule, retired, reading, streak>>
    BY DEF Acknowledge, Resolve
  <1>2. event[k][n] \in AlertEvent /\ event[k][n].status \in ActiveStatuses
    BY <1>1 DEF AlertEvent
  <1>3. [event[k][n] EXCEPT !.status = x] \in AlertEvent
    BY <1>2 DEF AlertEvent, ActiveStatuses
  <1>4. event' \in [AlertKeys -> [Numbers -> AlertEvent]]
    BY <1>1, <1>3
  <1>5. \A j \in AlertKeys, m \in Numbers :
            \/ event'[j][m] = event[j][m]
            \/ j = k /\ m = n
    BY <1>1
  <1>6. OneActivePerKey'
    BY <1>2, <1>5 DEF OneActivePerKey
  <1>7. KeepsResolved
    BY <1>1, <1>5 DEF KeepsResolved
  <1> QED BY <1>1, <1>4, <1>6, <1>7

\* Time makes active events older and changes nothing else about them.
LEMMA TickKeeps ==
    ASSUME AlertInv, Tick
    PROVE  AlertInv' /\ KeepsResolved
  <1> USE AlertAssumption DEF AlertInv, TypeOK
  <1>1. \A n \in 0..AgeCap : Older(n) \in 0..AgeCap
    BY DEF Older
  <1>2. ASSUME NEW k \in AlertKeys, NEW n \in Numbers
        PROVE  /\ event'[k][n] \in AlertEvent
               /\ event'[k][n].status = event[k][n].status
    <2>1. event[k][n] \in AlertEvent
      OBVIOUS
    <2>2. \/ event'[k][n] = event[k][n]
          \/ event'[k][n] = [event[k][n] EXCEPT !.age = Older(event[k][n].age)]
      BY DEF Tick
    <2> QED BY <2>1, <2>2, <1>1 DEF AlertEvent
  <1>3. event' \in [AlertKeys -> [Numbers -> AlertEvent]]
    <2>1. event' = [k \in AlertKeys |-> [n \in Numbers |-> event'[k][n]]]
      BY DEF Tick
    <2> QED BY <1>2, <2>1
  <1>4. streak' \in [AlertKeys -> {NoStreak} \cup 0..AgeCap]
    BY <1>1 DEF Tick
  <1>5. OneActivePerKey' /\ KeepsResolved
    BY <1>2 DEF OneActivePerKey, KeepsResolved
  <1> QED BY <1>3, <1>4, <1>5 DEF Tick

\* Rules and readings are not events.
LEMMA OthersKeep ==
    ASSUME AlertInv,
           \/ \E r \in Rules, data \in RuleInputs : CreateRule(r, data) \/ UpdateRule(r, data)
           \/ \E r \in Rules : DeleteRule(r)
           \/ \E s \in Servers, m \in Metrics, v \in Values \cup {None} : ReportMetric(s, m, v)
    PROVE  AlertInv' /\ KeepsResolved
  <1> USE DEF AlertInv, TypeOK
  <1>1. event' = event /\ streak' = streak
    BY DEF CreateRule, UpdateRule, DeleteRule, ReportMetric
  <1>2. rule' \in [Rules -> RuleInputs \cup {None}] /\ retired' \subseteq Rules
    BY DEF CreateRule, UpdateRule, DeleteRule, ReportMetric
  <1>3. reading' \in [Servers -> [Metrics -> Values \cup {None}]]
    BY DEF CreateRule, UpdateRule, DeleteRule, ReportMetric
  <1> QED BY <1>1, <1>2, <1>3 DEF OneActivePerKey, KeepsResolved

\* Every step keeps the invariant and the history.
LEMMA StepKeeps ==
    ASSUME AlertInv, [Next]_vars
    PROVE  AlertInv' /\ KeepsResolved
  <1>1. CASE Next
    BY <1>1, EvaluateKeeps, UserKeeps, TickKeeps, OthersKeep DEF Next
  <1>2. CASE UNCHANGED vars
    BY <1>2 DEF vars, AlertInv, TypeOK, OneActivePerKey, KeepsResolved
  <1> QED BY <1>1, <1>2

\* The inductive invariant of the alert centre.
THEOREM AlertInvariance == Spec => []AlertInv
  <1>1. Init => AlertInv
    BY AlertAssumption
    DEF Init, AlertInv, TypeOK, OneActivePerKey, NoEvent, AlertEvent, ActiveStatuses
  <1>2. AlertInv /\ [Next]_vars => AlertInv'
    BY StepKeeps
  <1> QED BY <1>1, <1>2, PTL DEF Spec

\* A rule, a server and a metric never have two active alerts at once.
THEOREM OneActiveCorrect == Spec => []OneActivePerKey
  <1>1. AlertInv => OneActivePerKey
    BY DEF AlertInv
  <1> QED BY AlertInvariance, <1>1, PTL

\* A resolved alert is never opened again.
THEOREM ResolvedCorrect == Spec => ResolvedStaysResolved
  <1>1. AlertInv /\ [Next]_vars => KeepsResolved
    BY StepKeeps
  <1>2. KeepsResolved =>
            [\A k \in AlertKeys, n \in Numbers :
                 event[k][n].status = "RESOLVED" => event'[k][n].status = "RESOLVED"]_vars
    BY DEF KeepsResolved
  <1> QED BY AlertInvariance, <1>1, <1>2, PTL DEF Spec, ResolvedStaysResolved

\* alert_service.py and alert_engine.py leave the rule, event and reading
\* tables well typed: no event gets a number or a status outside its domain.
THEOREM AlertTypeCorrect == Spec => []TypeOK
  <1>1. AlertInv => TypeOK
    BY DEF AlertInv
  <1> QED BY AlertInvariance, <1>1, PTL

-----------------------------------------------------------------------------
(* When an event may fire *)

\* A pending event is not older than the time in which its rule was violated
\* and never back to normal.
PendingWithinStreak ==
    \A k \in AlertKeys, n \in Numbers :
        event[k][n].status = "PENDING" =>
            streak[k] # NoStreak /\ event[k][n].age <= streak[k]

\* An evaluation that does not find the rule violated ends the events of a key
\* that is back to normal, and leaves the others as they are.
LEMMA NotViolated ==
    ASSUME TypeOK, NEW k \in AlertKeys, NEW n \in Numbers, ~Violated(rule, k)
    PROVE  LET e == evaluate_all(rule, event)[k][n]
           IN  IF BackToNormal(rule, k) THEN e.status \notin ActiveStatuses
                                        ELSE e = event[k][n]
  <1> DEFINE r == rule[k[1]]
             v == reading[k[2]][k[3]]
             e == evaluate_all(rule, event)[k][n]
  <1>0. event[k][n] \in AlertEvent
    BY DEF TypeOK
  <1>1. CASE ~Evaluated(rule, k)
    BY <1>1 DEF evaluate_all, BackToNormal
  <1>2. CASE Evaluated(rule, k)
    <2>1. BackToNormal(rule, k) <=> is_recovered(r, v)
      <3>1. CASE r.recovery = None
        BY <1>2, <3>1 DEF BackToNormal, is_recovered
      <3>2. CASE r.recovery # None
        BY <1>2, <3>2 DEF BackToNormal, is_recovered
      <3> QED BY <3>1, <3>2
    <2>2. e = IF event[k][n].status \in ActiveStatuses /\ is_recovered(r, v)
              THEN [event[k][n] EXCEPT !.status = "RESOLVED"] ELSE event[k][n]
      BY <1>2 DEF evaluate_all, handle_recovery, get_active_by_alert_key
    <2> HIDE DEF e
    <2>3. IF BackToNormal(rule, k) THEN e.status \notin ActiveStatuses ELSE e = event[k][n]
      BY <1>0, <2>1, <2>2 DEF AlertEvent, ActiveStatuses
    <2> QED BY <2>3 DEF e
  <1> QED BY <1>1, <1>2

\* A step keeps pending events within the streak, and fires only those whose
\* duration the streak covers.
LEMMA StreakStep ==
    ASSUME TypeOK, PendingWithinStreak, [Next]_vars
    PROVE  /\ PendingWithinStreak'
           /\ \A k \in AlertKeys, n \in Numbers :
                  event[k][n].status # "FIRING" /\ event'[k][n].status = "FIRING" =>
                      Violated(rule, k) /\ streak[k] >= rule[k[1]].duration
  <1> DEFINE Fires(k, n) == event[k][n].status # "FIRING" /\ event'[k][n].status = "FIRING"
  <1>1. CASE EvaluateAll
    <2> SUFFICES ASSUME NEW k \in AlertKeys, NEW n \in Numbers
                 PROVE  /\ event'[k][n].status = "PENDING" =>
                               streak'[k] # NoStreak /\ event'[k][n].age <= streak'[k]
                        /\ Fires(k, n) => Violated(rule, k) /\ streak[k] >= rule[k[1]].duration
      BY DEF PendingWithinStreak
    <2>1. /\ event[k][n] \in AlertEvent /\ event[k][n].age \in Int
          /\ streak[k] \in {NoStreak} \cup 0..AgeCap /\ AgeCap \in Nat
      BY AlertAssumption DEF TypeOK, AlertEvent
    <2>2. streak'[k] = IF BackToNormal(rule, k) THEN NoStreak
                       ELSE IF Violated(rule, k) /\ streak[k] = NoStreak THEN 0
                       ELSE streak[k]
      BY <1>1 DEF EvaluateAll, StreakAfter
    <2>3. event'[k][n] = evaluate_all(rule, event)[k][n]
      BY <1>1 DEF EvaluateAll
    <2>4. CASE ~Violated(rule, k)
      <3>1. CASE BackToNormal(rule, k)
        <4>1. event'[k][n].status \notin ActiveStatuses
          BY <2>3, <2>4, <3>1, NotViolated
        <4> QED BY <4>1 DEF ActiveStatuses
      <3>2. CASE ~BackToNormal(rule, k)
        <4>1. event'[k][n] = event[k][n] /\ streak'[k] = streak[k]
          BY <2>2, <2>3, <2>4, <3>2, NotViolated
        <4> QED BY <4>1 DEF PendingWithinStreak
      <3> QED BY <3>1, <3>2
    <2>5. CASE Violated(rule, k)
      <3>1. rule[k[1]].duration \in Nat
        BY <2>5, AlertAssumption DEF TypeOK, AlertKeys, Violated, Evaluated, AlertRule
      <3>2. event'[k] = handle_violation(rule[k[1]], event, k)
        BY <1>1, <2>5 DEF EvaluateAll, evaluate_all, Violated
      <3>3. \/ event'[k][n] = [status |-> "PENDING", age |-> 0]
            \/ /\ event[k][n].status = "PENDING" /\ event[k][n].age >= rule[k[1]].duration
               /\ event'[k][n] = [event[k][n] EXCEPT !.status = "FIRING"]
            \/ event'[k][n] = event[k][n]
        BY <3>2 DEF handle_violation
      <3>4. /\ streak'[k] # NoStreak /\ streak'[k] >= 0
            /\ streak[k] # NoStreak => streak'[k] = streak[k]
        BY <2>1, <2>2, <2>5 DEF NoStreak, BackToNormal
      <3>5. event[k][n].status = "PENDING" =>
                streak[k] # NoStreak /\ event[k][n].age <= streak[k]
        BY DEF PendingWithinStreak
      <3>6. CASE event'[k][n] = [status |-> "PENDING", age |-> 0]
        BY <3>4, <3>6
      <3>7. CASE /\ event[k][n].status = "PENDING" /\ event[k][n].age >= rule[k[1]].duration
                 /\ event'[k][n] = [event[k][n] EXCEPT !.status = "FIRING"]
        <4>1. event'[k][n].status = "FIRING"
          BY <2>1, <3>7 DEF AlertEvent
        <4>2. streak[k] >= rule[k[1]].duration
          BY <2>1, <3>1, <3>5, <3>7 DEF NoStreak
        <4> QED BY <2>5, <4>1, <4>2
      <3>8. CASE event'[k][n] = event[k][n]
        BY <3>4, <3>5, <3>8
      <3> QED BY <3>3, <3>6, <3>7, <3>8
    <2> QED BY <2>4, <2>5
  <1>2. CASE Tick
    <2> SUFFICES ASSUME NEW k \in AlertKeys, NEW n \in Numbers
                 PROVE  /\ event'[k][n].status = "PENDING" =>
                               streak'[k] # NoStreak /\ event'[k][n].age <= streak'[k]
                        /\ ~Fires(k, n)
      BY DEF PendingWithinStreak
    <2>1. /\ event[k][n] \in AlertEvent /\ event[k][n].age \in 0..AgeCap
          /\ streak[k] \in {NoStreak} \cup 0..AgeCap /\ AgeCap \in Nat
      BY AlertAssumption DEF TypeOK, AlertEvent
    <2>2. /\ event'[k][n].status = event[k][n].status
          /\ event[k][n].status \in ActiveStatuses =>
                 event'[k][n].age = Older(event[k][n].age)
      BY <1>2, <2>1 DEF Tick, AlertEvent
    <2>3. streak'[k] = IF streak[k] = NoStreak THEN NoStreak ELSE Older(streak[k])
      BY <1>2 DEF Tick
    <2>4. \A x, y \in 0..AgeCap :
              x <= y => Older(x) <= Older(y) /\ Older(y) # NoStreak
      BY <2>1 DEF Older, NoStreak
    <2>5. event[k][n].status = "PENDING" =>
              streak[k] # NoStreak /\ event[k][n].age <= streak[k]
      BY DEF PendingWithinStreak
    <2>6. event'[k][n].status = "PENDING" =>
              streak'[k] # NoStreak /\ event'[k][n].age <= streak'[k]
      BY <2>1, <2>2, <2>3, <2>4, <2>5 DEF ActiveStatuses
    <2> QED BY <2>2, <2>6
  <1>3. CASE \E k \in AlertKeys, n \in Numbers : Acknowledge(k, n) \/ Resolve(k, n)
    <2>1. PICK k \in AlertKeys, n \in Numbers, x \in {"ACKNOWLEDGED", "RESOLVED"} :
              event' = [event EXCEPT ![k][n].status = x] /\ streak' = streak
      BY <1>3 DEF Acknowledge, Resolve
    <2>2. event[k][n] \in AlertEvent
      BY DEF TypeOK
    <2>3. event'[k][n].status = x
      BY <2>1, <2>2 DEF TypeOK, AlertEvent
    <2>4. \A j \in AlertKeys, m \in Numbers :
              event'[j][m] = event[j][m] \/ (j = k /\ m = n)
      BY <2>1 DEF TypeOK
    <2> QED BY <2>1, <2>3, <2>4 DEF PendingWithinStreak
  <1>4. CASE event' = event /\ streak' = streak
    BY <1>4 DEF PendingWithinStreak
  <1> QED
    BY <1>1, <1>2, <1>3, <1>4
    DEF Next, vars, CreateRule, UpdateRule, DeleteRule, ReportMetric

\* An event fires only where _compare finds the rule violated, and only when
\* for as long as the rule asks no evaluation has found the value back to
\* normal, whatever users do to rules and events meanwhile.
THEOREM FiringCorrect == Spec => FiringNeedsSteadyViolation
  <1> DEFINE Fires == \A k \in AlertKeys, n \in Numbers :
                 event[k][n].status # "FIRING" /\ event'[k][n].status = "FIRING" =>
                     Violated(rule, k) /\ streak[k] >= rule[k[1]].duration
  <1>1. Init => PendingWithinStreak
    BY DEF Init, PendingWithinStreak, NoEvent
  <1>2. TypeOK /\ PendingWithinStreak /\ [Next]_vars => PendingWithinStreak' /\ [Fires]_vars
    BY StreakStep
  <1> QED BY AlertTypeCorrect, <1>1, <1>2, PTL DEF Spec, FiringNeedsSteadyViolation
=============================================================================
