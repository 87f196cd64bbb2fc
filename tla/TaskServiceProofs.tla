------------------------- MODULE TaskServiceProofs -------------------------
(***************************************************************************)
(* Proofs about TaskService, for any number of tasks, servers, attempts,   *)
(* any timeouts and backoff table, with and without the history cleanup,   *)
(* and about TaskTransactions, for any number of overlapping sessions.     *)
(***************************************************************************)
EXTENDS TaskTransactions, TLAPS

Statuses == Active \cup Terminal
Rows == [Servers -> [Attempts -> OpsTaskExecution]]

-----------------------------------------------------------------------------
(* Single rows *)

\* The repository's row operations yield rows, with the status they name, and
\* neither un-start a row nor bring a deleted one back.
LEMMA FinishRow ==
    ASSUME NEW e \in OpsTaskExecution, NEW x \in Terminal
    PROVE  /\ finish(e, x) \in OpsTaskExecution
           /\ finish(e, x).status = x
           /\ finish(e, x).started = e.started
           /\ finish(e, x).gone = e.gone
  BY DEF finish, OpsTaskExecution, Terminal, Active

\* mark_running yields a started RUNNING row.
LEMMA RunningRow ==
    ASSUME NEW e \in OpsTaskExecution
    PROVE  /\ mark_running(e) \in OpsTaskExecution
           /\ mark_running(e).status = "RUNNING"
           /\ mark_running(e).started
           /\ mark_running(e).gone = e.gone
  BY DEF mark_running, OpsTaskExecution, Terminal, Active

\* A fresh attempt is PENDING, an unused row ABSENT, and neither was handed out.
LEMMA NewRow ==
    /\ NewExecution \in OpsTaskExecution
    /\ NewExecution.status = "PENDING"
    /\ ~NewExecution.started
    /\ ~NewExecution.gone
    /\ NoExecution \in OpsTaskExecution
    /\ NoExecution.status = "ABSENT"
    /\ ~NoExecution.started
    /\ ~NoExecution.gone
  BY DEF NewExecution, NoExecution, OpsTaskExecution, Terminal, Active

\* The backoff table is total on attempt numbers.
LEMMA BackoffIsNat == \A n \in Nat : backoff_seconds(n) \in Nat
  BY BackoffAssumption DEF backoff_seconds

\* mark_retrying yields a RETRYING row that remembers having been handed out.
LEMMA RetryingRow ==
    ASSUME NEW e \in OpsTaskExecution, NEW n \in Nat
    PROVE  /\ mark_retrying(e, n) \in OpsTaskExecution
           /\ mark_retrying(e, n).status = "RETRYING"
           /\ mark_retrying(e, n).started = e.started
           /\ mark_retrying(e, n).gone = e.gone
  BY BackoffIsNat DEF mark_retrying, OpsTaskExecution, Terminal, Active

-----------------------------------------------------------------------------
(* Aggregation *)

\* An attempt without later ones has its status in what is aggregated.
LEMMA LatestCounts ==
    ASSUME NEW rows \in Rows, NEW s \in Servers, NEW a \in Attempts,
           Stored(rows[s][a]),
           \A b \in Attempts : b > a => rows[s][b].status = "ABSENT"
    PROVE  rows[s][a].status \in latest_statuses(rows)
  <1>1. rows[s][a].status \in Statuses
    BY DEF Stored, Rows, OpsTaskExecution, Statuses
  <1>2. IsLatest(rows, s, a)
    BY DEF IsLatest, Stored
  <1> QED BY <1>1, <1>2 DEF latest_statuses, Statuses

\* An active execution is stored and has no later attempt above it.
LEMMA ActiveIsLast ==
    ASSUME NEW rows \in Rows, NEW tk, Chain(tk, rows), GoneIsEnded(rows),
           NEW s \in Servers, NEW a \in Attempts, rows[s][a].status \in Active
    PROVE  /\ Stored(rows[s][a])
           /\ \A b \in Attempts : b > a => rows[s][b].status = "ABSENT"
  <1>1. Stored(rows[s][a])
    BY DEF Stored, GoneIsEnded, Active, Terminal, Rows, OpsTaskExecution
  <1>2. \A b \in Attempts : b > a => rows[s][b].status = "ABSENT"
    BY DEF Chain, Active, Attempts
  <1> QED BY <1>1, <1>2

\* Under the retry chain _aggregate_task_status never misses an execution that
\* is still active, and reports one exactly when there is one.
LEMMA AggregateFits ==
    ASSUME NEW rows \in Rows, NEW tk,
           Chain(tk, rows), GoneIsEnded(rows),
           latest_statuses(rows) # {}
    PROVE  /\ aggregated_status(latest_statuses(rows)) \in {"RUNNING", "RETRYING"} \cup Terminal
           /\ StatusFits(aggregated_status(latest_statuses(rows)), rows)
  <1> DEFINE L == latest_statuses(rows)
             x == aggregated_status(L)
  <1>1. ASSUME NEW s \in Servers, NEW a \in Attempts, rows[s][a].status \in Active
        PROVE  rows[s][a].status \in L
    BY <1>1, ActiveIsLast, LatestCounts
  <1>2. \A y \in L : y \in Statuses /\ Has(rows, {y})
    BY DEF latest_statuses, Has, Statuses
  <1>3. CASE "RETRYING" \in L
    <2>1. x = "RETRYING"
      BY <1>3 DEF aggregated_status
    <2> QED BY <2>1, <1>2, <1>3 DEF StatusFits, Terminal
  <1>4. CASE "RETRYING" \notin L /\ L \cap {"PENDING", "RUNNING"} # {}
    <2>1. x = "RUNNING"
      BY <1>4 DEF aggregated_status
    <2>2. Has(rows, {"PENDING", "RUNNING"})
      BY <1>4, <1>2 DEF Has
    <2>3. ~Has(rows, {"RETRYING"})
      BY <1>1, <1>4 DEF Has, Active
    <2> QED BY <2>1, <2>2, <2>3 DEF StatusFits, Terminal
  <1>5. CASE "RETRYING" \notin L /\ L \cap {"PENDING", "RUNNING"} = {}
    <2>1. x \in Terminal
      BY <1>5 DEF aggregated_status, Terminal
    <2>2. ~Has(rows, Active)
      BY <1>1, <1>5 DEF Has, Active
    <2> QED BY <2>1, <2>2 DEF StatusFits, Terminal
  <1> QED BY <1>3, <1>4, <1>5

\* What a handler has to show of the executions it leaves behind before it
\* aggregates: the task row it then writes satisfies the invariant.
LEMMA AggregateKeeps ==
    ASSUME NEW rows \in Rows, NEW tk \in OpsTask,
           tk.targets # {},
           Chain(tk, rows), GoneIsEnded(rows), NotHandedOut(rows),
           latest_statuses(rows) # {},
           \/ ~(tk.schedule = "ONCE" /\ tk.confirm_required /\ ~tk.confirmed)
           \/ ~Has(rows, Statuses \ {"CANCELLED"})
    PROVE  /\ aggregate_task_status(tk, rows) \in OpsTask
           /\ TaskInv(aggregate_task_status(tk, rows), rows)
  <1> DEFINE x == aggregated_status(latest_statuses(rows))
             new == aggregate_task_status(tk, rows)
  <1>1. x \in {"RUNNING", "RETRYING"} \cup Terminal /\ StatusFits(x, rows)
    BY AggregateFits
  <1>2. /\ new \in OpsTask
        /\ new.status = x
        /\ new.targets = tk.targets
        /\ new.max_attempts = tk.max_attempts
        /\ new.schedule = tk.schedule
        /\ new.confirm_required = tk.confirm_required
        /\ new.confirmed = tk.confirmed
    BY <1>1 DEF aggregate_task_status, OpsTask, Active, Terminal
  <1>3. Chain(new, rows)
    BY <1>2 DEF Chain
  <1>4. WaitingRows(new, rows) /\ DeletedRows(new, rows)
    BY <1>1, <1>2 DEF WaitingRows, DeletedRows, Terminal
  <1>5. Unconfirmed(new, rows)
    <2>1. CASE ~(tk.schedule = "ONCE" /\ tk.confirm_required /\ ~tk.confirmed)
      BY <2>1, <1>2 DEF Unconfirmed
    <2>2. CASE ~Has(rows, Statuses \ {"CANCELLED"})
      <3>1. latest_statuses(rows) = {"CANCELLED"}
        BY <2>2 DEF Has, latest_statuses, Statuses
      <3>2. x = "CANCELLED"
        BY <3>1 DEF aggregated_status
      <3>3. ~Has(rows, (Active \cup Terminal) \ {"PENDING", "CANCELLED"})
        BY <2>2 DEF Has, Statuses
      <3> QED BY <3>2, <3>3, <1>2 DEF Unconfirmed
    <2> QED BY <2>1, <2>2
  <1> QED BY <1>1, <1>2, <1>3, <1>4, <1>5 DEF TaskInv

-----------------------------------------------------------------------------
(* The initial state and the handlers *)

\* Multiplying a timeout by a number of attempts stays a natural number.
LEMMA BudgetIsNat == \A m, n \in Nat : m * n \in Nat
  OBVIOUS

\* What the request schema guarantees of a creation request.
LEMMA InputFields ==
    ASSUME NEW data \in TaskCreate
    PROVE  /\ data.schedule \in {"ONCE", "CRON"}
           /\ data.cron_valid \in BOOLEAN
           /\ data.cron_delay \in Nat
           /\ data.timeout \in Nat
           /\ data.max_attempts \in Nat
           /\ data.max_attempts \in Attempts
           /\ data.targets \in SUBSET Servers
           /\ data.targets # {}
           /\ data.key \in Keys \cup {NoKey}
  <1>1. data.schedule \in Schedules
    BY DEF TaskCreate
  <1>2. data.cron_delay \in CronDelays
    BY DEF TaskCreate
  <1>3. data.timeout \in Timeouts
    BY DEF TaskCreate
  <1>4. data.max_attempts \in Attempts
    BY DEF TaskCreate
  <1>5. data.cron_valid \in BOOLEAN
    BY DEF TaskCreate
  <1>6. data.key \in Keys \cup {NoKey}
    BY DEF TaskCreate
  <1>7. data.targets \in (SUBSET Servers) \ {{}}
    BY DEF TaskCreate
  <1>8. data.targets \in SUBSET Servers /\ data.targets # {}
    <2>1. data.targets \in SUBSET Servers /\ data.targets \notin {{}}
      BY <1>7, Zenon
    <2> QED BY <2>1, Zenon
  <1>9. data.schedule \in {"ONCE", "CRON"}
    BY <1>1, TableAssumption
  <1>10. data.cron_delay \in Nat /\ data.timeout \in Nat
    BY <1>2, <1>3, TableAssumption
  <1>11. data.max_attempts \in Nat
    BY <1>4, TableAssumption DEF Attempts
  <1> QED BY <1>4, <1>5, <1>6, <1>8, <1>9, <1>10, <1>11

\* The empty tables satisfy the invariant.
LEMMA InitInv == Init => IInv
  <1> SUFFICES ASSUME Init PROVE IInv
    OBVIOUS
  <1>1. /\ task = [t \in Tasks |-> NoTask]
        /\ exec = [t \in Tasks |-> [s \in Servers |-> [a \in Attempts |-> NoExecution]]]
        /\ sent = [t \in Tasks |-> [s \in Servers |-> [a \in Attempts |-> NoReport]]]
    BY DEF Init, EmptyDatabase, EachRow
  <1>2. NoTask \in OpsTask /\ NoTask.status = "ABSENT"
    BY TableAssumption DEF NoTask, OpsTask, Attempts
  <1>3. TypeOK
    BY <1>1, <1>2, NewRow DEF TypeOK
  <1>4. ReportsOfStarted
    BY <1>1 DEF ReportsOfStarted
  <1>5. ASSUME NEW t \in Tasks PROVE TaskInv(task[t], exec[t])
    <2>1. \A s \in Servers, a \in Attempts : exec[t][s][a] = NoExecution
      BY <1>1
    <2>2. task[t] = NoTask
      BY <1>1
    <2>3. /\ \A S : "ABSENT" \notin S => ~Has(exec[t], S)
          /\ Chain(task[t], exec[t]) /\ GoneIsEnded(exec[t]) /\ NotHandedOut(exec[t])
      BY <2>1, NewRow DEF Has, Chain, GoneIsEnded, NotHandedOut
    <2>4. StatusFits("ABSENT", exec[t])
      BY <2>3 DEF StatusFits, Active, Terminal
    <2>5. Unconfirmed(task[t], exec[t])
      BY <2>2 DEF Unconfirmed, NoTask
    <2> QED BY <1>2, <2>2, <2>3, <2>4, <2>5 DEF TaskInv, WaitingRows, DeletedRows
  <1> QED BY <1>3, <1>4, <1>5 DEF IInv

\* create_task keeps the invariant.
LEMMA CreateTaskInv ==
    ASSUME IInv, NEW t \in Tasks, NEW data \in TaskCreate, CreateTask(t, data)
    PROVE  IInv'
  <1> DEFINE rows == [s \in Servers |-> [a \in Attempts |->
                         IF data.schedule = "ONCE" /\ s \in data.targets /\ a = 1
                         THEN NewExecution ELSE NoExecution]]
             tk == create_task(db, t, data).task[t]
  <1> USE DEF IInv, TypeOK
  <1>1. /\ exec' = [exec EXCEPT ![t] = rows]
        /\ task' = [task EXCEPT ![t] = tk]
        /\ sent' = sent
        /\ task[t].status = "ABSENT"
    BY DEF CreateTask, Commit, create_task, db
  <1>2. /\ tk \in OpsTask
        /\ tk.targets = data.targets
        /\ tk.targets # {}
        /\ tk.max_attempts \in Attempts
        /\ tk.schedule = data.schedule
        /\ tk.status \in {"CREATED", "PENDING"}
        /\ tk.confirm_required => tk.status = "CREATED"
    <2>2. /\ data.schedule \in {"ONCE", "CRON"} /\ data.cron_valid \in BOOLEAN
          /\ data.cron_delay \in Nat /\ data.timeout \in Nat
          /\ data.max_attempts \in Nat /\ data.max_attempts \in Attempts
          /\ data.targets \in SUBSET Servers /\ data.targets # {}
          /\ data.key \in Keys \cup {NoKey}
      BY InputFields
    <2>1. data.timeout * data.max_attempts \in Nat
      BY <2>2, BudgetIsNat
    <2>3. confirm_required(data) \in BOOLEAN
      BY DEF confirm_required
    <2> QED BY <2>1, <2>2, <2>3 DEF create_task, db, OpsTask, Active
  <1>3. rows \in Rows
    BY NewRow DEF Rows
  <1>4. TypeOK'
    BY <1>1, <1>2, <1>3 DEF Rows
  <1>5. TaskInv(tk, rows)
    <2>1. Chain(tk, rows)
      BY <1>2, NewRow, TableAssumption DEF Chain, Attempts
    <2>2. GoneIsEnded(rows) /\ NotHandedOut(rows)
      BY NewRow DEF GoneIsEnded, NotHandedOut
    <2>3. \A S : "ABSENT" \notin S /\ "PENDING" \notin S => ~Has(rows, S)
      BY NewRow DEF Has
    <2>4. Has(rows, {"PENDING"}) <=> data.schedule = "ONCE"
      <3>1. 1 \in Attempts
        BY TableAssumption DEF Attempts
      <3>2. PICK s \in Servers : s \in data.targets
        BY <1>2 DEF OpsTask
      <3>3. data.schedule = "ONCE" => rows[s][1].status = "PENDING"
        BY <3>1, <3>2, NewRow
      <3>4. data.schedule # "ONCE" =>
                \A q \in Servers, a \in Attempts : rows[q][a].status = "ABSENT"
        BY NewRow
      <3> QED BY <3>1, <3>3, <3>4 DEF Has
    <2>5. StatusFits(tk.status, rows)
      BY <1>2, <2>3 DEF StatusFits, Active, Terminal
    <2>6. WaitingRows(tk, rows) /\ DeletedRows(tk, rows)
      BY <1>2, <2>4 DEF WaitingRows, DeletedRows
    <2>7. Unconfirmed(tk, rows)
      BY <1>2, <2>3 DEF Unconfirmed, Active, Terminal
    <2> QED BY <1>2, <2>1, <2>2, <2>5, <2>6, <2>7 DEF TaskInv
  <1>6. ReportsOfStarted'
    <2>1. \A s \in Servers, a \in Attempts : sent[t][s][a] = NoReport
      <3>1. \A s \in Servers, a \in Attempts : exec[t][s][a].status = "ABSENT"
        BY <1>1 DEF TaskInv, StatusFits, Has, OpsTaskExecution
      <3>2. NotHandedOut(exec[t])
        BY DEF TaskInv
      <3>3. \A s \in Servers, a \in Attempts : ~exec[t][s][a].started
        BY <3>1, <3>2 DEF NotHandedOut
      <3> QED BY <3>3 DEF ReportsOfStarted
    <2> QED BY <1>1, <2>1 DEF ReportsOfStarted
  <1>7. \A u \in Tasks : TaskInv(task'[u], exec'[u])
    BY <1>1, <1>5
  <1> QED BY <1>4, <1>6, <1>7

\* confirm_task keeps the invariant.
LEMMA ConfirmTaskInv ==
    ASSUME IInv, NEW t \in Tasks, ConfirmTask(t)
    PROVE  IInv'
  <1> DEFINE tk == [task[t] EXCEPT !.status = "PENDING", !.confirmed = TRUE]
  <1> USE DEF IInv, TypeOK
  <1>1. /\ task' = [task EXCEPT ![t] = tk]
        /\ exec' = exec /\ sent' = sent
        /\ task[t].status = "CREATED"
    BY DEF ConfirmTask, Commit, confirm_task, db
  <1>2. /\ tk \in OpsTask /\ tk.status = "PENDING" /\ tk.confirmed
        /\ tk.targets = task[t].targets /\ tk.max_attempts = task[t].max_attempts
        /\ tk.schedule = task[t].schedule
    <2>1. task[t] \in OpsTask
      OBVIOUS
    <2>2. tk \in OpsTask
      BY <2>1 DEF OpsTask, Active
    <2> QED BY <2>1, <2>2 DEF OpsTask
  <1>a. TaskInv(task[t], exec[t])
    OBVIOUS
  <1>b. Chain(tk, exec[t])
    BY <1>a, <1>2 DEF TaskInv, Chain
  <1>c. StatusFits(tk.status, exec[t])
    BY <1>a, <1>1, <1>2 DEF TaskInv, StatusFits, Terminal
  <1>d. /\ WaitingRows(tk, exec[t]) /\ Unconfirmed(tk, exec[t])
        /\ DeletedRows(tk, exec[t]) /\ tk.targets # {}
    BY <1>a, <1>1, <1>2 DEF TaskInv, WaitingRows, Unconfirmed, DeletedRows
  <1>3. TaskInv(tk, exec[t])
    BY <1>a, <1>b, <1>c, <1>d DEF TaskInv
  <1>4. TypeOK' /\ ReportsOfStarted'
    BY <1>1, <1>2 DEF ReportsOfStarted
  <1> QED BY <1>1, <1>3, <1>4

\* A task that is neither new nor over has an execution that is last of its
\* target, unless it is a cron task that was not fired.
LEMMA InProgressHasLast ==
    ASSUME NEW rows \in Rows, NEW tk \in OpsTask, TaskInv(tk, rows),
           \/ tk.status \in {"RUNNING", "RETRYING"}
           \/ tk.status \in {"CREATED", "PENDING"} /\ tk.schedule = "ONCE"
    PROVE  Has(rows, Active)
  <1>1. CASE tk.status \in {"RUNNING", "RETRYING"}
    BY <1>1 DEF TaskInv, StatusFits, Has, Active
  <1>2. CASE tk.status \in {"CREATED", "PENDING"} /\ tk.schedule = "ONCE"
    BY <1>2 DEF TaskInv, WaitingRows, Has, Active
  <1> QED BY <1>1, <1>2

\* cancel_task keeps the invariant.
LEMMA CancelTaskInv ==
    ASSUME IInv, NEW t \in Tasks, CancelTask(t)
    PROVE  IInv'
  <1> DEFINE old == exec[t]
             rows == cancelled_rows(old)
             tk == aggregate_task_status(task[t], rows)
  <1>1. /\ task' = [task EXCEPT ![t] = tk]
        /\ exec' = [exec EXCEPT ![t] = rows]
        /\ sent' = sent
        /\ TaskExists(task[t]) /\ task[t].status \notin Terminal
    BY DEF CancelTask, Commit, cancel_task, db, IInv, TypeOK
  <1>2. old \in Rows /\ task[t] \in OpsTask /\ TaskInv(task[t], old)
    BY DEF IInv, TypeOK, Rows
  <1>3. /\ rows \in Rows
        /\ \A s \in Servers, a \in Attempts :
               /\ rows[s][a].started = old[s][a].started
               /\ rows[s][a].gone = old[s][a].gone
               /\ rows[s][a].status =
                    IF Stored(old[s][a]) /\ old[s][a].status = "PENDING"
                    THEN "CANCELLED" ELSE old[s][a].status
    <2>1. \A s \in Servers, a \in Attempts : old[s][a] \in OpsTaskExecution
      BY <1>2 DEF Rows
    <2>2. \A e \in OpsTaskExecution :
             /\ finish(e, "CANCELLED") \in OpsTaskExecution
             /\ finish(e, "CANCELLED").status = "CANCELLED"
             /\ finish(e, "CANCELLED").started = e.started
             /\ finish(e, "CANCELLED").gone = e.gone
      BY FinishRow DEF Terminal
    <2> QED BY <2>1, <2>2 DEF cancelled_rows, Rows
  <1>4. Chain(task[t], rows)
    BY <1>2, <1>3 DEF TaskInv, Chain
  <1>5. GoneIsEnded(rows)
    BY <1>2, <1>3 DEF TaskInv, GoneIsEnded, Terminal
  <1>6. NotHandedOut(rows)
    BY <1>2, <1>3 DEF TaskInv, NotHandedOut
  <1>7. tk \in OpsTask /\ TaskInv(tk, rows)
    <2>1. CASE Has(old, Active)
      <3>1. PICK s \in Servers, a \in Attempts : old[s][a].status \in Active
        BY <2>1 DEF Has
      <3>2. Stored(old[s][a]) /\ \A b \in Attempts : b > a => old[s][b].status = "ABSENT"
        BY <3>1, <1>2, ActiveIsLast DEF TaskInv
      <3>3. Stored(rows[s][a]) /\ \A b \in Attempts : b > a => rows[s][b].status = "ABSENT"
        BY <3>2, <1>3 DEF Stored
      <3>4. latest_statuses(rows) # {}
        BY <3>3, <1>3, LatestCounts
      <3>5. \/ ~(task[t].schedule = "ONCE" /\ task[t].confirm_required /\ ~task[t].confirmed)
            \/ ~Has(rows, Statuses \ {"CANCELLED"})
        <4>1. SUFFICES ASSUME task[t].schedule = "ONCE", task[t].confirm_required,
                              ~task[t].confirmed
                       PROVE  ~Has(rows, Statuses \ {"CANCELLED"})
          OBVIOUS
        <4>2. ~Has(old, Statuses \ {"PENDING", "CANCELLED"})
          BY <4>1, <1>2 DEF TaskInv, Unconfirmed, Statuses
        <4>3. \A q \in Servers, b \in Attempts :
                  old[q][b].status = "PENDING" => Stored(old[q][b])
          BY <1>2, ActiveIsLast DEF TaskInv, Active
        <4> QED BY <4>2, <4>3, <1>3 DEF Has
      <3>6. task[t].targets # {}
        BY <1>1, <1>2 DEF TaskInv, TaskExists
      <3> QED BY <1>2, <1>3, <1>4, <1>5, <1>6, <3>4, <3>5, <3>6, AggregateKeeps
    <2>2. CASE ~Has(old, Active)
      <3>1. task[t].status \in {"CREATED", "PENDING"} /\ task[t].schedule = "CRON"
        BY <2>2, <1>1, <1>2, InProgressHasLast DEF OpsTask, Active, TaskExists
      <3>2. \A s \in Servers, a \in Attempts : old[s][a].status = "ABSENT"
        BY <2>2, <3>1, <1>2 DEF TaskInv, StatusFits, Has, Rows, OpsTaskExecution, Active, Terminal
      <3>3. \A s \in Servers, a \in Attempts : rows[s][a].status = "ABSENT"
        BY <3>2, <1>3
      <3>4. latest_statuses(rows) = {}
        BY <3>3 DEF latest_statuses, Active, Terminal
      <3>5. /\ tk \in OpsTask /\ tk.status = "PENDING" /\ tk.schedule = "CRON"
            /\ tk.targets # {}
        BY <3>1, <3>4, <1>2 DEF aggregate_task_status, aggregated_status, OpsTask, Active, TaskInv
      <3>6. \A S : "ABSENT" \notin S => ~Has(rows, S)
        BY <3>3 DEF Has
      <3>7. Chain(tk, rows)
        BY <3>3 DEF Chain
      <3>8. StatusFits(tk.status, rows) /\ WaitingRows(tk, rows)
        BY <3>5, <3>6 DEF StatusFits, WaitingRows, Terminal, Active
      <3>9. Unconfirmed(tk, rows) /\ DeletedRows(tk, rows)
        BY <3>5 DEF Unconfirmed, DeletedRows
      <3> QED BY <3>5, <3>7, <3>8, <3>9, <1>5, <1>6 DEF TaskInv
    <2> QED BY <2>1, <2>2
  <1>8. TypeOK'
    BY <1>1, <1>3, <1>7 DEF IInv, TypeOK, Rows
  <1>9. ReportsOfStarted'
    BY <1>1, <1>3 DEF IInv, TypeOK, ReportsOfStarted
  <1>10. \A u \in Tasks : TaskInv(task'[u], exec'[u])
    BY <1>1, <1>7 DEF IInv, TypeOK
  <1> QED BY <1>8, <1>9, <1>10 DEF IInv

\* Handing out pending executions of a released task keeps the invariant.
LEMMA StartKeeps ==
    ASSUME NEW old \in Rows, NEW new \in Rows, NEW tk \in OpsTask,
           TaskInv(tk, old), tk.status \in {"PENDING", "RUNNING"},
           \A s \in Servers, a \in Attempts :
               /\ new[s][a].gone = old[s][a].gone
               /\ \/ new[s][a] = old[s][a]
                  \/ new[s][a].status = "RUNNING" /\ old[s][a].status = "PENDING",
           \E s \in Servers, a \in Attempts : new[s][a].status = "RUNNING"
    PROVE  /\ [tk EXCEPT !.status = "RUNNING"] \in OpsTask
           /\ TaskInv([tk EXCEPT !.status = "RUNNING"], new)
  <1> DEFINE run == [tk EXCEPT !.status = "RUNNING"]
  <1>1. /\ run \in OpsTask /\ run.status = "RUNNING"
        /\ run.targets = tk.targets /\ run.max_attempts = tk.max_attempts
        /\ run.schedule = tk.schedule /\ run.confirmed = tk.confirmed
        /\ run.confirm_required = tk.confirm_required
    BY DEF OpsTask, Active
  <1>2. Chain(run, new)
    BY <1>1 DEF TaskInv, Chain
  <1>3. GoneIsEnded(new) /\ NotHandedOut(new)
    BY DEF TaskInv, GoneIsEnded, NotHandedOut, Terminal
  <1>4. ~Has(old, {"RETRYING"})
    BY DEF TaskInv, StatusFits, Has, Active
  <1>5. ~Has(new, {"RETRYING"}) /\ Has(new, {"PENDING", "RUNNING"})
    BY <1>4 DEF Has
  <1>6. StatusFits(run.status, new)
    BY <1>1, <1>5 DEF StatusFits, Terminal
  <1>7. Unconfirmed(run, new)
    BY <1>1 DEF TaskInv, Unconfirmed
  <1> QED BY <1>1, <1>2, <1>3, <1>6, <1>7 DEF TaskInv, WaitingRows, DeletedRows

\* fetch_pending keeps the invariant, whatever batch the LIMIT leaves.
LEMMA FetchPendingInv ==
    ASSUME IInv, NEW q \in Servers, FetchPending(q)
    PROVE  IInv'
  <1>1. PICK batch \in SUBSET fetch_pending_by_server(db, q) :
            Commit(fetch_pending(db, q, batch))
    BY DEF FetchPending, Limited
  <1>2. sent' = sent
    BY DEF FetchPending
  <1>3. ASSUME NEW t \in Tasks, NEW a \in Attempts, <<t, a>> \in batch
        PROVE  exec[t][q][a].status = "PENDING" /\ task[t].status \in {"PENDING", "RUNNING"}
    BY <1>1, <1>3 DEF fetch_pending_by_server, db
  <1>4. /\ exec' = [t \in Tasks |-> [s \in Servers |-> [a \in Attempts |->
                       IF s = q /\ <<t, a>> \in batch
                       THEN mark_running(exec[t][s][a]) ELSE exec[t][s][a]]]]
        /\ task' = [t \in Tasks |->
                       IF \E a \in Attempts : <<t, a>> \in batch
                       THEN [task[t] EXCEPT !.status = "RUNNING"] ELSE task[t]]
    BY <1>1 DEF Commit, fetch_pending, db, EachRow
  <1>5. ASSUME NEW t \in Tasks
        PROVE  /\ exec'[t] \in Rows
               /\ task'[t] \in OpsTask
               /\ TaskInv(task'[t], exec'[t])
               /\ \A s \in Servers, a \in Attempts :
                      exec[t][s][a].started => exec'[t][s][a].started
    <2> DEFINE old == exec[t]
               new == exec'[t]
    <2>1. old \in Rows /\ task[t] \in OpsTask /\ TaskInv(task[t], old)
      BY DEF IInv, TypeOK, Rows
    <2>2. /\ new \in Rows
          /\ \A s \in Servers, a \in Attempts :
               /\ new[s][a].gone = old[s][a].gone
               /\ old[s][a].started => new[s][a].started
               /\ \/ new[s][a] = old[s][a]
                  \/ new[s][a].status = "RUNNING" /\ old[s][a].status = "PENDING"
               /\ s = q /\ <<t, a>> \in batch => new[s][a].status = "RUNNING"
      <3>1. \A s \in Servers, a \in Attempts : old[s][a] \in OpsTaskExecution
        BY <2>1 DEF Rows
      <3>2. \A s \in Servers, a \in Attempts :
                new[s][a] = IF s = q /\ <<t, a>> \in batch
                            THEN mark_running(old[s][a]) ELSE old[s][a]
        BY <1>4
      <3>3. new \in Rows
        BY <1>4, <3>1, RunningRow DEF Rows
      <3> QED BY <3>1, <3>2, <3>3, <1>3, RunningRow
    <2>3. CASE \E a \in Attempts : <<t, a>> \in batch
      <3>1. PICK a \in Attempts : <<t, a>> \in batch
        BY <2>3
      <3>2. task[t].status \in {"PENDING", "RUNNING"} /\ new[q][a].status = "RUNNING"
        BY <3>1, <1>3, <2>2
      <3>3. task'[t] = [task[t] EXCEPT !.status = "RUNNING"]
        BY <1>4, <2>3
      <3>4. /\ [task[t] EXCEPT !.status = "RUNNING"] \in OpsTask
            /\ TaskInv([task[t] EXCEPT !.status = "RUNNING"], new)
        <4> HIDE DEF old, new
        <4>1. \E s \in Servers, b \in Attempts : new[s][b].status = "RUNNING"
          BY <3>2
        <4>2. \A s \in Servers, b \in Attempts :
                 /\ new[s][b].gone = old[s][b].gone
                 /\ \/ new[s][b] = old[s][b]
                    \/ new[s][b].status = "RUNNING" /\ old[s][b].status = "PENDING"
          BY <2>2
        <4> QED BY <4>1, <4>2, <2>1, <2>2, <3>2, StartKeeps
      <3> QED BY <2>2, <3>3, <3>4
    <2>4. CASE ~\E a \in Attempts : <<t, a>> \in batch
      <3>1. task'[t] = task[t] /\ new = old
        BY <2>4, <1>4 DEF IInv, TypeOK
      <3> QED BY <3>1, <2>1
    <2> QED BY <2>3, <2>4, <2>2
  <1>6. TypeOK'
    <2>1. task' \in [Tasks -> OpsTask]
      BY <1>4, <1>5
    <2>2. exec' \in [Tasks -> Rows]
      BY <1>4, <1>5
    <2> QED BY <2>1, <2>2, <1>2 DEF IInv, TypeOK, Rows
  <1>7. ReportsOfStarted'
    BY <1>2, <1>5 DEF IInv, ReportsOfStarted
  <1> QED BY <1>5, <1>6, <1>7 DEF IInv

\* An agent that executes what it fetched keeps the invariant.
LEMMA AgentExecuteInv ==
    ASSUME IInv, NEW t \in Tasks, NEW s \in Servers, NEW a \in Attempts,
           AgentExecute(t, s, a)
    PROVE  IInv'
  <1>1. PICK r \in Reports : sent' = [sent EXCEPT ![t][s][a] = r]
    BY DEF AgentExecute
  <1>2. task' = task /\ exec' = exec /\ exec[t][s][a].started
    BY DEF AgentExecute
  <1>3. TypeOK'
    BY <1>1, <1>2 DEF IInv, TypeOK
  <1>4. ReportsOfStarted'
    BY <1>1, <1>2 DEF IInv, TypeOK, ReportsOfStarted
  <1> QED BY <1>2, <1>3, <1>4 DEF IInv

\* report_result keeps the invariant, for a first and for a repeated report.
LEMMA ReportResultInv ==
    ASSUME IInv, NEW t \in Tasks, NEW s \in Servers, NEW a \in Attempts,
           ReportResult(t, s, a)
    PROVE  IInv'
  <1> DEFINE old == exec[t]
             e == reported_row(task[t], old[s][a], a, sent[t][s][a])
             rows == [old EXCEPT ![s][a] = e]
             tk == aggregate_task_status(task[t], rows)
  <1>1. /\ task' = [task EXCEPT ![t] = tk]
        /\ exec' = [exec EXCEPT ![t] = rows]
        /\ sent' = sent
        /\ Stored(old[s][a]) /\ old[s][a].status \notin Terminal
        /\ sent[t][s][a] # NoReport
    BY DEF ReportResult, Commit, report_result, db, IInv, TypeOK
  <1>2. old \in Rows /\ task[t] \in OpsTask /\ TaskInv(task[t], old)
    BY DEF IInv, TypeOK, Rows
  <1>3. old[s][a] \in OpsTaskExecution /\ old[s][a].status \in Active
    BY <1>1, <1>2 DEF Rows, OpsTaskExecution, Stored
  <1>4. old[s][a].started
    BY <1>1 DEF IInv, ReportsOfStarted
  <1>5. /\ e \in OpsTaskExecution
        /\ e.status \in {"SUCCESS", "FAILED", "RETRYING", "DEAD"}
        /\ e.gone = old[s][a].gone
        /\ e.started = old[s][a].started
    BY <1>3, FinishRow, RetryingRow DEF reported_row, mark_dead, Terminal, Attempts
  <1>6. /\ rows \in Rows
        /\ rows[s][a] = e
        /\ \A q \in Servers, b \in Attempts : <<q, b>> # <<s, a>> => rows[q][b] = old[q][b]
    BY <1>2, <1>5 DEF Rows
  <1>7. Stored(old[s][a]) /\ \A b \in Attempts : b > a => old[s][b].status = "ABSENT"
    BY <1>2, <1>3, ActiveIsLast DEF TaskInv
  <1>8. Chain(task[t], rows)
    <2> SUFFICES ASSUME NEW q \in Servers, NEW b \in Attempts, rows[q][b].status # "ABSENT"
                 PROVE  /\ q \in task[t].targets
                        /\ b <= task[t].max_attempts
                        /\ \A c \in Attempts : c < b => rows[q][c].status = "FAILED"
      BY DEF Chain
    <2>1. old[q][b].status # "ABSENT"
      BY <1>3, <1>6 DEF Active
    <2>2. q = s => b <= a
      BY <2>1, <1>7, TableAssumption DEF Attempts
    <2> QED BY <2>1, <2>2, <1>2, <1>6, TableAssumption, SMTT(40) DEF TaskInv, Chain, Attempts
  <1>9. GoneIsEnded(rows) /\ NotHandedOut(rows)
    <2>1. GoneIsEnded(old) /\ NotHandedOut(old)
      BY <1>2 DEF TaskInv
    <2>2. rows[s][a].started /\ ~rows[s][a].gone
      BY <1>4, <1>5, <1>6, <1>7 DEF Stored
    <2> HIDE DEF old, e, rows
    <2>3. GoneIsEnded(rows)
      BY <2>1, <2>2, <1>6 DEF GoneIsEnded
    <2>4. NotHandedOut(rows)
      BY <2>1, <2>2, <1>5, <1>6 DEF NotHandedOut
    <2> QED BY <2>3, <2>4
  <1>10. latest_statuses(rows) # {}
    <2>1. Stored(rows[s][a])
      BY <1>5, <1>6, <1>7 DEF Stored
    <2>2. \A b \in Attempts : b > a => rows[s][b].status = "ABSENT"
      BY <1>6, <1>7, TableAssumption DEF Attempts
    <2> QED BY <2>1, <2>2, <1>6, LatestCounts
  <1>11. ~(task[t].schedule = "ONCE" /\ task[t].confirm_required /\ ~task[t].confirmed)
    <2>1. old[s][a].status \notin {"PENDING", "CANCELLED"}
      BY <1>2, <1>4 DEF TaskInv, NotHandedOut
    <2>2. Has(old, (Active \cup Terminal) \ {"PENDING", "CANCELLED"})
      BY <2>1, <1>3 DEF Has
    <2> QED BY <2>2, <1>2 DEF TaskInv, Unconfirmed
  <1>12. task[t].targets # {}
    BY <1>2, <1>3 DEF TaskInv, Chain, Active
  <1>13. tk \in OpsTask /\ TaskInv(tk, rows)
    BY <1>2, <1>6, <1>8, <1>9, <1>10, <1>11, <1>12, AggregateKeeps
  <1>14. TypeOK'
    BY <1>1, <1>6, <1>13 DEF IInv, TypeOK, Rows
  <1>15. ReportsOfStarted'
    BY <1>1, <1>5, <1>6 DEF IInv, TypeOK, ReportsOfStarted
  <1>16. \A u \in Tasks : TaskInv(task'[u], exec'[u])
    BY <1>1, <1>13 DEF IInv, TypeOK
  <1> QED BY <1>14, <1>15, <1>16 DEF IInv

\* Timing executions out of a running task, and aggregating, keeps the invariant.
LEMMA TimeoutKeeps ==
    ASSUME NEW old \in Rows, NEW new \in Rows, NEW tk \in OpsTask,
           TaskInv(tk, old), tk.status = "RUNNING",
           \A s \in Servers, a \in Attempts :
               /\ new[s][a].gone = old[s][a].gone
               /\ new[s][a].started = old[s][a].started
               /\ \/ new[s][a].status = old[s][a].status
                  \/ new[s][a].status = "TIMEOUT" /\ old[s][a].status = "RUNNING",
           NEW q \in Servers, NEW b \in Attempts, old[q][b].status = "RUNNING"
    PROVE  /\ aggregate_task_status(tk, new) \in OpsTask
           /\ TaskInv(aggregate_task_status(tk, new), new)
  <1>1. Chain(tk, new)
    BY DEF TaskInv, Chain
  <1>2. GoneIsEnded(new) /\ NotHandedOut(new)
    BY DEF TaskInv, GoneIsEnded, NotHandedOut, Terminal
  <1>3. Stored(old[q][b]) /\ \A c \in Attempts : c > b => old[q][c].status = "ABSENT"
    BY ActiveIsLast DEF TaskInv, Active
  <1>4. Stored(new[q][b]) /\ \A c \in Attempts : c > b => new[q][c].status = "ABSENT"
    BY <1>3 DEF Stored
  <1>5. latest_statuses(new) # {}
    BY <1>4, LatestCounts
  <1>6. ~(tk.schedule = "ONCE" /\ tk.confirm_required /\ ~tk.confirmed)
    BY DEF TaskInv, Unconfirmed
  <1>7. tk.targets # {}
    BY DEF TaskInv
  <1> QED BY <1>1, <1>2, <1>5, <1>6, <1>7, AggregateKeeps

\* scan_timeouts keeps the invariant.
LEMMA ScanTimeoutsInv ==
    ASSUME IInv, ScanTimeouts
    PROVE  IInv'
  <1> DEFINE Expired(t) == IF task[t].status = "RUNNING" THEN expired_rows(db, t) ELSE {}
  <1>1. /\ exec' = [t \in Tasks |-> [s \in Servers |-> [a \in Attempts |->
                       IF <<s, a>> \in Expired(t)
                       THEN mark_timeout(exec[t][s][a]) ELSE exec[t][s][a]]]]
        /\ task' = [t \in Tasks |->
                       IF Expired(t) # {} THEN aggregate_task_status(task[t], exec'[t])
                                          ELSE task[t]]
        /\ sent' = sent
    BY DEF ScanTimeouts, Commit, scan_timeouts, db, EachRow
  <1>2. ASSUME NEW t \in Tasks
        PROVE  /\ exec'[t] \in Rows
               /\ task'[t] \in OpsTask
               /\ TaskInv(task'[t], exec'[t])
               /\ \A s \in Servers, a \in Attempts :
                      exec[t][s][a].started => exec'[t][s][a].started
    <2> DEFINE old == exec[t]
               new == exec'[t]
    <2>1. old \in Rows /\ task[t] \in OpsTask /\ TaskInv(task[t], old)
      BY DEF IInv, TypeOK, Rows
    <2>2. \A s \in Servers, a \in Attempts : <<s, a>> \in Expired(t) =>
              old[s][a].status = "RUNNING" /\ task[t].status = "RUNNING"
      BY DEF expired_rows, is_expired, db
    <2>3. /\ new \in Rows
          /\ \A s \in Servers, a \in Attempts :
               /\ new[s][a].gone = old[s][a].gone
               /\ new[s][a].started = old[s][a].started
               /\ \/ new[s][a].status = old[s][a].status
                  \/ new[s][a].status = "TIMEOUT" /\ old[s][a].status = "RUNNING"
      <3> HIDE DEF Expired
      <3>1. \A s \in Servers, a \in Attempts : old[s][a] \in OpsTaskExecution
        BY <2>1 DEF Rows
      <3>2. \A s \in Servers, a \in Attempts :
                new[s][a] = IF <<s, a>> \in Expired(t)
                            THEN mark_timeout(old[s][a]) ELSE old[s][a]
        BY <1>1
      <3>3. \A e \in OpsTaskExecution :
                /\ mark_timeout(e) \in OpsTaskExecution
                /\ mark_timeout(e).status = "TIMEOUT"
                /\ mark_timeout(e).gone = e.gone
                /\ mark_timeout(e).started = e.started
        BY FinishRow DEF mark_timeout, Terminal
      <3>4. new \in Rows
        BY <1>1, <3>1, <3>3 DEF Rows
      <3>5. ASSUME NEW s \in Servers, NEW a \in Attempts
            PROVE  /\ new[s][a].gone = old[s][a].gone
                   /\ new[s][a].started = old[s][a].started
                   /\ \/ new[s][a].status = old[s][a].status
                      \/ new[s][a].status = "TIMEOUT" /\ old[s][a].status = "RUNNING"
        <4>1. CASE <<s, a>> \in Expired(t)
          <5>1. new[s][a] = mark_timeout(old[s][a])
            BY <4>1, <3>2
          <5> QED BY <4>1, <5>1, <2>2, <3>1, <3>3
        <4>2. CASE <<s, a>> \notin Expired(t)
          BY <4>2, <3>2
        <4> QED BY <4>1, <4>2
      <3> QED BY <3>4, <3>5
    <2>4. CASE Expired(t) # {}
      <3>1. PICK s \in Servers, a \in Attempts : <<s, a>> \in Expired(t)
        BY <2>4 DEF expired_rows
      <3>2. old[s][a].status = "RUNNING" /\ task[t].status = "RUNNING"
        BY <3>1, <2>2
      <3>3. task'[t] = aggregate_task_status(task[t], new)
        BY <1>1, <2>4
      <3>4. /\ aggregate_task_status(task[t], new) \in OpsTask
            /\ TaskInv(aggregate_task_status(task[t], new), new)
        <4> HIDE DEF old, new
        <4> QED BY <2>1, <2>3, <3>2, TimeoutKeeps
      <3> QED BY <2>3, <3>3, <3>4
    <2>5. CASE Expired(t) = {}
      <3>1. task'[t] = task[t] /\ new = old
        BY <2>5, <1>1 DEF IInv, TypeOK
      <3> QED BY <3>1, <2>1
    <2> QED BY <2>4, <2>5
  <1>3. TypeOK'
    <2>1. task' \in [Tasks -> OpsTask] /\ exec' \in [Tasks -> Rows]
      BY <1>1, <1>2
    <2> QED BY <2>1, <1>1 DEF IInv, TypeOK, Rows
  <1>4. ReportsOfStarted'
    BY <1>1, <1>2 DEF IInv, ReportsOfStarted
  <1> QED BY <1>2, <1>3, <1>4 DEF IInv

\* What dispatch_retries does to the executions of one task: B are the due
\* ones it archives, each with its next attempt if there is budget for one.
RetryStep(tk, old, new, B) ==
    \A s \in Servers, a \in Attempts :
        \/ /\ <<s, a>> \in B
           /\ old[s][a].status = "RETRYING"
           /\ new[s][a].gone = old[s][a].gone
           /\ new[s][a].status = IF can_retry(tk, a) THEN "FAILED" ELSE "DEAD"
        \/ /\ <<s, a>> \notin B
           /\ a > 1 /\ <<s, a - 1>> \in B /\ can_retry(tk, a - 1)
           /\ new[s][a] = NewExecution
        \/ /\ <<s, a>> \notin B
           /\ ~(a > 1 /\ <<s, a - 1>> \in B /\ can_retry(tk, a - 1))
           /\ new[s][a] = old[s][a]

\* Archiving due retries of a task, creating their next attempts, and
\* aggregating, keeps the invariant: the chain grows by one at its end.
LEMMA RetryKeeps ==
    ASSUME NEW old \in Rows, NEW new \in Rows, NEW tk \in OpsTask,
           TaskInv(tk, old), NEW B, RetryStep(tk, old, new, B),
           NEW q \in Servers, NEW b \in Attempts, <<q, b>> \in B
    PROVE  /\ aggregate_task_status(tk, new) \in OpsTask
           /\ TaskInv(aggregate_task_status(tk, new), new)
  <1> USE TableAssumption DEF Attempts
  <1>0. tk.max_attempts \in Attempts /\ MaxAttemptsCap \in Nat
    BY DEF OpsTask
  <1>1. ASSUME NEW s \in Servers, NEW a \in Attempts, <<s, a>> \in B
        PROVE  /\ Stored(old[s][a])
               /\ \A c \in Attempts : c > a => old[s][c].status = "ABSENT"
               /\ s \in tk.targets
               /\ \A c \in Attempts : c < a => old[s][c].status = "FAILED"
    <2>1. old[s][a].status = "RETRYING"
      BY <1>1 DEF RetryStep
    <2>2. Chain(tk, old) /\ GoneIsEnded(old)
      BY DEF TaskInv
    <2>3. /\ Stored(old[s][a])
          /\ \A c \in Attempts : c > a => old[s][c].status = "ABSENT"
      BY <2>1, <2>2, ActiveIsLast DEF Active
    <2> QED BY <2>1, <2>2, <2>3 DEF Chain
  \* A row is one of the batch, the next attempt after one, or as it was.
  <1>2. ASSUME NEW s \in Servers, NEW a \in Attempts
        PROVE  \/ /\ <<s, a>> \in B
                  /\ old[s][a].status = "RETRYING"
                  /\ new[s][a].status \in {"FAILED", "DEAD"}
                  /\ can_retry(tk, a) => new[s][a].status = "FAILED"
               \/ /\ a > 1 /\ <<s, a - 1>> \in B /\ can_retry(tk, a - 1)
                  /\ new[s][a] = NewExecution
                  /\ old[s][a].status = "ABSENT"
               \/ new[s][a] = old[s][a] /\ <<s, a>> \notin B
    <2>1. CASE <<s, a>> \in B
      BY <2>1 DEF RetryStep
    <2>2. CASE <<s, a>> \notin B /\ a > 1 /\ <<s, a - 1>> \in B /\ can_retry(tk, a - 1)
      <3>1. a - 1 \in Attempts /\ a > a - 1
        BY <2>2
      <3>2. old[s][a].status = "ABSENT"
        BY <3>1, <2>2, <1>1
      <3> QED BY <2>2, <3>2 DEF RetryStep
    <2>3. CASE <<s, a>> \notin B /\ ~(a > 1 /\ <<s, a - 1>> \in B /\ can_retry(tk, a - 1))
      BY <2>3 DEF RetryStep
    <2> QED BY <2>1, <2>2, <2>3
  <1>3. ASSUME NEW s \in Servers, NEW a \in Attempts, old[s][a].status = "FAILED"
        PROVE  new[s][a].status = "FAILED"
    BY <1>2, <1>3 DEF RetryStep
  <1>4. Chain(tk, new)
    <2> SUFFICES ASSUME NEW s \in Servers, NEW a \in Attempts, new[s][a].status # "ABSENT"
                 PROVE  /\ s \in tk.targets
                        /\ a <= tk.max_attempts
                        /\ \A c \in Attempts : c < a => new[s][c].status = "FAILED"
      BY DEF Chain
    <2>1. CASE old[s][a].status # "ABSENT"
      <3>1. Chain(tk, old)
        BY DEF TaskInv
      <3> QED BY <2>1, <3>1, <1>3 DEF Chain
    <2>2. CASE old[s][a].status = "ABSENT"
      <3>a. a > 1 /\ <<s, a - 1>> \in B /\ can_retry(tk, a - 1)
        BY <2>2, <1>2
      <3>1. a > 1 /\ a - 1 \in Attempts /\ <<s, a - 1>> \in B /\ can_retry(tk, a - 1)
        BY <3>a
      <3>2. a <= tk.max_attempts
        BY <3>1, <1>0 DEF can_retry
      <3>3. new[s][a - 1].status = "FAILED"
        BY <3>1 DEF RetryStep
      <3>4. ASSUME NEW c \in Attempts, c < a PROVE new[s][c].status = "FAILED"
        <4>1. CASE c = a - 1
          BY <4>1, <3>3
        <4>2. CASE c < a - 1
          BY <4>2, <3>1, <1>1, <1>3
        <4> QED BY <3>4, <4>1, <4>2
      <3> QED BY <3>1, <3>2, <3>4, <1>1
    <2> QED BY <2>1, <2>2
  <1>5. GoneIsEnded(new)
    <2> SUFFICES ASSUME NEW s \in Servers, NEW a \in Attempts, new[s][a].gone
                 PROVE  new[s][a].status \in Terminal
      BY DEF GoneIsEnded
    <2>1. GoneIsEnded(old)
      BY DEF TaskInv
    <2>2. CASE new[s][a].status \in {"FAILED", "DEAD"}
      BY <2>2 DEF Terminal
    <2>3. CASE new[s][a] = NewExecution
      BY <2>3, NewRow
    <2>4. CASE new[s][a] = old[s][a]
      BY <2>1, <2>4 DEF GoneIsEnded
    <2> QED BY <1>2, <2>2, <2>3, <2>4
  <1>6. NotHandedOut(new)
    <2> SUFFICES ASSUME NEW s \in Servers, NEW a \in Attempts,
                        new[s][a].status \in {"ABSENT", "PENDING", "CANCELLED"}
                 PROVE  ~new[s][a].started
      BY DEF NotHandedOut
    <2>1. NotHandedOut(old)
      BY DEF TaskInv
    <2>2. CASE new[s][a] = NewExecution
      BY <2>2, NewRow
    <2>3. CASE new[s][a] = old[s][a]
      BY <2>1, <2>3 DEF NotHandedOut
    <2> QED BY <2>2, <2>3, <1>2
  <1>7. latest_statuses(new) # {}
    <2>1. CASE can_retry(tk, b)
      <3>1. b + 1 \in Attempts
        BY <2>1, <1>0 DEF can_retry
      <3>2. old[q][b + 1].status = "ABSENT"
        BY <3>1, <1>1
      <3>3. <<q, b + 1>> \notin B
        BY <3>1, <3>2 DEF RetryStep
      <3>4. (b + 1) - 1 = b /\ b + 1 > 1
        OBVIOUS
      <3>5. new[q][b + 1] = NewExecution
        BY <2>1, <3>1, <3>3, <3>4 DEF RetryStep
      <3>6. ASSUME NEW c \in Attempts, c > b + 1 PROVE new[q][c].status = "ABSENT"
        <4>1. old[q][c].status = "ABSENT" /\ old[q][c - 1].status = "ABSENT"
          BY <3>6, <1>1
        <4>2. <<q, c - 1>> \notin B /\ <<q, c>> \notin B
          <5>1. c - 1 \in Attempts
            BY <3>6
          <5> QED BY <4>1, <5>1 DEF RetryStep
        <4> QED BY <4>1, <4>2, <3>6, <1>2
      <3>7. Stored(new[q][b + 1])
        BY <3>5, NewRow DEF Stored
      <3> QED BY <3>1, <3>6, <3>7, LatestCounts
    <2>2. CASE ~can_retry(tk, b)
      <3>1. Stored(new[q][b])
        BY <2>2, <1>1 DEF Stored, RetryStep
      <3>2. ASSUME NEW c \in Attempts, c > b PROVE new[q][c].status = "ABSENT"
        <4>1. old[q][c].status = "ABSENT"
          BY <3>2, <1>1
        <4>2. <<q, c>> \notin B
          BY <4>1 DEF RetryStep
        <4>3. CASE c - 1 = b
          BY <4>1, <4>2, <4>3, <2>2, <1>2
        <4>4. CASE c - 1 # b
          <5>1. c - 1 \in Attempts /\ c - 1 > b
            BY <4>4, <3>2
          <5>2. old[q][c - 1].status = "ABSENT"
            BY <5>1, <1>1
          <5>3. <<q, c - 1>> \notin B
            BY <5>1, <5>2 DEF RetryStep
          <5> QED BY <4>1, <4>2, <5>3, <1>2
        <4> QED BY <4>3, <4>4
      <3> QED BY <3>1, <3>2, LatestCounts
    <2> QED BY <2>1, <2>2
  <1>8. ~(tk.schedule = "ONCE" /\ tk.confirm_required /\ ~tk.confirmed)
    <2>1. Has(old, (Active \cup Terminal) \ {"PENDING", "CANCELLED"})
      BY DEF Has, Active, RetryStep
    <2> QED BY <2>1 DEF TaskInv, Unconfirmed
  <1>9. tk.targets # {}
    BY <1>1
  <1> QED BY <1>4, <1>5, <1>6, <1>7, <1>8, <1>9, AggregateKeeps

\* dispatch_retries keeps the invariant, whatever batch the LIMIT leaves.
LEMMA DispatchRetriesInv ==
    ASSUME IInv, DispatchRetries
    PROVE  IInv'
  <1>1. PICK batch \in SUBSET list_due_retries(db) :
            Commit(dispatch_retries(db, batch))
    BY DEF DispatchRetries, Limited
  <1> DEFINE Ended(t) == task[t].status \in Terminal
             Again(t, s, a) == <<t, s, a>> \in batch /\ ~Ended(t) /\ can_retry(task[t], a)
             Archived(t, s, a) ==
                 finish(exec[t][s][a],
                        IF Ended(t) \/ can_retry(task[t], a) THEN "FAILED" ELSE "DEAD")
  <1>2. /\ exec' = [t \in Tasks |-> [s \in Servers |-> [a \in Attempts |->
                       IF <<t, s, a>> \in batch THEN Archived(t, s, a)
                       ELSE IF a > 1 /\ Again(t, s, a - 1) THEN NewExecution
                       ELSE exec[t][s][a]]]]
        /\ task' = [t \in Tasks |->
                       IF ~Ended(t) /\ \E s \in Servers, a \in Attempts : <<t, s, a>> \in batch
                       THEN aggregate_task_status(task[t], exec'[t]) ELSE task[t]]
    BY <1>1 DEF Commit, dispatch_retries, db, EachRow
  <1>3. sent' = sent
    BY DEF DispatchRetries
  <1>4. ASSUME NEW t \in Tasks
        PROVE  /\ exec'[t] \in Rows
               /\ task'[t] \in OpsTask
               /\ TaskInv(task'[t], exec'[t])
               /\ \A s \in Servers, a \in Attempts :
                      exec[t][s][a].started => exec'[t][s][a].started
    <2> DEFINE old == exec[t]
               new == exec'[t]
               B == {p \in Servers \X Attempts : <<t, p[1], p[2]>> \in batch}
    <2>1. old \in Rows /\ task[t] \in OpsTask /\ TaskInv(task[t], old)
      BY DEF IInv, TypeOK, Rows
    <2>2. \A s \in Servers, a \in Attempts : <<s, a>> \in B <=> <<t, s, a>> \in batch
      OBVIOUS
    <2>3. \A s \in Servers, a \in Attempts :
              <<s, a>> \in B => old[s][a].status = "RETRYING"
      BY <1>1 DEF list_due_retries, db
    <2>4. CASE \E s \in Servers, a \in Attempts : <<s, a>> \in B
      <3>1. PICK q \in Servers, b \in Attempts : <<q, b>> \in B
        BY <2>4
      <3>2. ~Ended(t)
        BY <3>1, <2>1, <2>3 DEF TaskInv, StatusFits, Has, Active
      <3>3. ASSUME NEW s \in Servers, NEW a \in Attempts
            PROVE  /\ new[s][a] = IF <<s, a>> \in B
                       THEN finish(old[s][a], IF can_retry(task[t], a) THEN "FAILED" ELSE "DEAD")
                       ELSE IF a > 1 /\ <<s, a - 1>> \in B /\ can_retry(task[t], a - 1)
                            THEN NewExecution ELSE old[s][a]
                   /\ old[s][a] \in OpsTaskExecution
        <4>1. a > 1 => a - 1 \in Attempts
          BY TableAssumption DEF Attempts
        <4>2. a > 1 => (<<s, a - 1>> \in B <=> <<t, s, a - 1>> \in batch)
          BY <4>1, <2>2
        <4>3. old[s][a] \in OpsTaskExecution
          BY <2>1 DEF Rows
        <4> QED BY <1>2, <2>2, <3>2, <4>2, <4>3
      <3> HIDE DEF B
      <3>4. /\ new \in Rows
            /\ RetryStep(task[t], old, new, B)
            /\ \A s \in Servers, a \in Attempts : old[s][a].started => new[s][a].started
        <4>1. ASSUME NEW s \in Servers, NEW a \in Attempts
              PROVE  /\ new[s][a] \in OpsTaskExecution
                     /\ old[s][a].started => new[s][a].started
                     /\ \/ /\ <<s, a>> \in B
                           /\ old[s][a].status = "RETRYING"
                           /\ new[s][a].gone = old[s][a].gone
                           /\ new[s][a].status = IF can_retry(task[t], a) THEN "FAILED" ELSE "DEAD"
                        \/ /\ <<s, a>> \notin B
                           /\ a > 1 /\ <<s, a - 1>> \in B /\ can_retry(task[t], a - 1)
                           /\ new[s][a] = NewExecution
                        \/ /\ <<s, a>> \notin B
                           /\ ~(a > 1 /\ <<s, a - 1>> \in B /\ can_retry(task[t], a - 1))
                           /\ new[s][a] = old[s][a]
          <5> HIDE DEF old, new
          <5>1. CASE <<s, a>> \in B
            <6> DEFINE x == IF can_retry(task[t], a) THEN "FAILED" ELSE "DEAD"
            <6>1. x \in Terminal /\ new[s][a] = finish(old[s][a], x)
              BY <5>1, <3>3 DEF Terminal
            <6>2. /\ new[s][a] \in OpsTaskExecution
                  /\ new[s][a].status = x
                  /\ new[s][a].started = old[s][a].started
                  /\ new[s][a].gone = old[s][a].gone
              <7> HIDE DEF x
              <7>1. old[s][a] \in OpsTaskExecution
                BY <3>3
              <7>2. /\ finish(old[s][a], x) \in OpsTaskExecution
                    /\ finish(old[s][a], x).status = x
                    /\ finish(old[s][a], x).started = old[s][a].started
                    /\ finish(old[s][a], x).gone = old[s][a].gone
                BY <6>1, <7>1, FinishRow, Zenon
              <7> QED BY <6>1, <7>2, Zenon
            <6>3. old[s][a].status = "RETRYING"
              BY <5>1, <2>3
            <6>4. old[s][a].started => new[s][a].started
              <7> HIDE DEF x
              <7> QED BY <6>2, Zenon
            <6>5. new[s][a].status = IF can_retry(task[t], a) THEN "FAILED" ELSE "DEAD"
              BY <6>2
            <6> HIDE DEF x
            <6> QED BY <5>1, <6>2, <6>3, <6>4, <6>5, Zenon
          <5>2. CASE <<s, a>> \notin B /\ a > 1 /\ <<s, a - 1>> \in B /\ can_retry(task[t], a - 1)
            <6>1. new[s][a] = NewExecution
              BY <5>2, <3>3
            <6>2. a - 1 \in Attempts /\ a > a - 1
              BY <5>2, TableAssumption DEF Attempts
            <6>3. old[s][a - 1].status = "RETRYING"
              BY <5>2, <6>2, <2>3
            <6>4. Chain(task[t], old) /\ GoneIsEnded(old) /\ NotHandedOut(old)
              BY <2>1 DEF TaskInv
            <6>5. old[s][a].status = "ABSENT"
              BY <6>2, <6>3, <6>4, <2>1, ActiveIsLast DEF Active
            <6>6. ~old[s][a].started
              BY <6>4, <6>5 DEF NotHandedOut
            <6> QED BY <5>2, <6>1, <6>6, NewRow
          <5>3. CASE <<s, a>> \notin B /\ ~(a > 1 /\ <<s, a - 1>> \in B /\ can_retry(task[t], a - 1))
            BY <5>3, <3>3
          <5> QED BY <5>1, <5>2, <5>3
        <4>2. new \in [Servers -> [Attempts -> OpsTaskExecution]]
          BY <4>1, <1>2
        <4>3. RetryStep(task[t], old, new, B)
          <5> HIDE DEF old, new
          <5> QED BY <4>1 DEF RetryStep
        <4> QED BY <4>1, <4>2, <4>3 DEF Rows
      <3>5. task'[t] = aggregate_task_status(task[t], new)
        BY <3>1, <3>2, <2>2, <1>2
      <3>6. /\ aggregate_task_status(task[t], new) \in OpsTask
            /\ TaskInv(aggregate_task_status(task[t], new), new)
        <4> HIDE DEF old, new
        <4> QED BY <2>1, <3>1, <3>4, RetryKeeps
      <3> QED BY <3>4, <3>5, <3>6
    <2>5. CASE ~\E s \in Servers, a \in Attempts : <<s, a>> \in B
      <3>1. \A s \in Servers, a \in Attempts : <<t, s, a>> \notin batch
        BY <2>5, <2>2
      <3>2. \A s \in Servers, a \in Attempts : a > 1 => <<t, s, a - 1>> \notin batch
        BY <3>1, TableAssumption DEF Attempts
      <3>a. \A s \in Servers, a \in Attempts : new[s][a] = old[s][a]
        BY <3>1, <3>2, <1>2
      <3>b. new \in Rows
        <4>1. \A s \in Servers, a \in Attempts : new[s][a] \in OpsTaskExecution
          BY <3>a, <2>1 DEF Rows
        <4> QED BY <4>1, <1>2 DEF Rows
      <3>c. new = old
        <4> HIDE DEF old, new
        <4> QED BY <3>a, <3>b, <2>1 DEF Rows
      <3>d. task'[t] = task[t]
        BY <3>1, <1>2
      <3> QED BY <3>c, <3>d, <2>1
    <2> QED BY <2>4, <2>5
  <1>5. TypeOK'
    <2>1. task' \in [Tasks -> OpsTask] /\ exec' \in [Tasks -> Rows]
      BY <1>2, <1>4
    <2> QED BY <2>1, <1>3 DEF IInv, TypeOK, Rows
  <1>6. ReportsOfStarted'
    BY <1>3, <1>4 DEF IInv, ReportsOfStarted
  <1> QED BY <1>4, <1>5, <1>6 DEF IInv

\* A step that leaves the statuses alone, or deletes what has ended, keeps the
\* invariant of a task.
LEMMA FrameKeeps ==
    ASSUME NEW old \in Rows, NEW new \in Rows,
           NEW tk \in OpsTask, NEW tn \in OpsTask, TaskInv(tk, old),
           \A s \in Servers, a \in Attempts :
               /\ new[s][a].status = old[s][a].status
               /\ new[s][a].started = old[s][a].started
               /\ old[s][a].gone => new[s][a].gone
               /\ new[s][a].gone => new[s][a].status \in Terminal,
           tn.targets = tk.targets, tn.max_attempts = tk.max_attempts,
           tn.schedule = tk.schedule, tn.confirm_required = tk.confirm_required,
           tn.confirmed = tk.confirmed,
           \/ tn.status = tk.status
           \/ /\ tk.status \in Terminal /\ tn.status = "DELETED"
              /\ \A s \in Servers, a \in Attempts : ~Stored(new[s][a])
    PROVE  TaskInv(tn, new)
  <1>1. \A S : Has(new, S) <=> Has(old, S)
    BY DEF Has
  <1>2. Chain(tn, new)
    BY DEF TaskInv, Chain
  <1>3. GoneIsEnded(new)
    BY DEF GoneIsEnded
  <1>4. NotHandedOut(new)
    <2>1. NotHandedOut(old)
      BY DEF TaskInv
    <2> QED BY <2>1, ZenonT(40) DEF NotHandedOut
  <1>5. StatusFits(tn.status, new)
    <2>1. StatusFits(tk.status, old)
      BY DEF TaskInv
    <2> QED BY <1>1, <2>1 DEF StatusFits, Terminal
  <1>6. WaitingRows(tn, new)
    <2>1. WaitingRows(tk, old)
      BY DEF TaskInv
    <2> QED BY <1>1, <2>1 DEF WaitingRows
  <1>7. Unconfirmed(tn, new)
    <2>1. Unconfirmed(tk, old)
      BY DEF TaskInv
    <2> QED BY <1>1, <2>1 DEF Unconfirmed
  <1>8. DeletedRows(tn, new)
    <2>1. DeletedRows(tk, old)
      BY DEF TaskInv
    <2>2. CASE tn.status = tk.status
      BY <2>1, <2>2 DEF DeletedRows, Stored
    <2>3. CASE tn.status # tk.status
      BY <2>3 DEF DeletedRows
    <2> QED BY <2>2, <2>3
  <1>9. tn.status # "ABSENT" => tn.targets # {}
    BY DEF TaskInv, Terminal
  <1> QED BY <1>2, <1>3, <1>4, <1>5, <1>6, <1>7, <1>8, <1>9 DEF TaskInv

\* Firing a cron task gives it its first executions and nothing else.
LEMMA FireKeeps ==
    ASSUME NEW old \in Rows, NEW new \in Rows,
           NEW tk \in OpsTask, NEW tn \in OpsTask, TaskInv(tk, old),
           tk.schedule = "CRON", tk.status \in {"PENDING", "CREATED"},
           tn.status = "RUNNING", tn.schedule = tk.schedule,
           tn.targets = tk.targets, tn.max_attempts = tk.max_attempts,
           \A s \in Servers, a \in Attempts :
               \/ s \in tk.targets /\ a = 1 /\ new[s][a] = NewExecution
               \/ ~(s \in tk.targets /\ a = 1) /\ new[s][a] = old[s][a]
    PROVE  /\ TaskInv(tn, new)
           /\ \A s \in Servers, a \in Attempts : ~old[s][a].started
  <1>0. 1 \in Attempts /\ tk.max_attempts \in Attempts /\ tk.targets \subseteq Servers
    BY TableAssumption DEF OpsTask, Attempts
  <1>1. \A s \in Servers, a \in Attempts : old[s][a].status = "ABSENT"
    <2>1. ~Has(old, (Active \cup Terminal) \ {"PENDING"}) /\ ~Has(old, {"PENDING"})
      BY DEF TaskInv, StatusFits, WaitingRows
    <2> QED BY <2>1 DEF Has, Rows, OpsTaskExecution
  <1>2. NotHandedOut(old) /\ GoneIsEnded(old)
    BY DEF TaskInv
  <1>3. \A s \in Servers, a \in Attempts : ~old[s][a].started
    BY <1>1, <1>2 DEF NotHandedOut
  <1>4. \A s \in Servers, a \in Attempts :
            \/ s \in tk.targets /\ a = 1 /\ new[s][a].status = "PENDING"
            \/ new[s][a].status = "ABSENT"
    BY <1>1, NewRow
  <1>5. Chain(tn, new)
    BY <1>0, <1>4 DEF Chain, Attempts
  <1>6. GoneIsEnded(new)
    BY <1>2, NewRow DEF GoneIsEnded
  <1>7. \A s \in Servers, a \in Attempts : ~new[s][a].started
    BY <1>3, NewRow
  <1>8. tk.targets # {}
    BY DEF TaskInv
  <1>9. Has(new, {"PENDING"})
    <2>1. PICK s \in Servers : s \in tk.targets
      BY <1>0, <1>8
    <2>2. new[s][1].status = "PENDING"
      BY <2>1, <1>0, NewRow
    <2> QED BY <2>2, <1>0 DEF Has
  <1>10. ~Has(new, {"RETRYING"})
    BY <1>4 DEF Has
  <1>11. StatusFits(tn.status, new)
    BY <1>9, <1>10 DEF StatusFits, Terminal, Has
  <1>12. NotHandedOut(new)
    BY <1>7 DEF NotHandedOut
  <1>13. WaitingRows(tn, new) /\ Unconfirmed(tn, new) /\ DeletedRows(tn, new)
    BY DEF WaitingRows, Unconfirmed, DeletedRows
  <1> QED BY <1>3, <1>5, <1>6, <1>8, <1>11, <1>12, <1>13 DEF TaskInv

\* fire_due_cron keeps the invariant.
LEMMA FireDueCronInv ==
    ASSUME IInv, FireDueCron
    PROVE  IInv'
  <1> DEFINE Due == due_cron(db)
             Fired(t) == [task[t] EXCEPT !.status = "RUNNING"]
  <1>1. /\ task' = [t \in Tasks |-> IF t \in Due THEN Fired(t) ELSE task[t]]
        /\ exec' = [t \in Tasks |-> [s \in Servers |-> [a \in Attempts |->
                       IF t \in Due /\ s \in task[t].targets /\ a = 1
                       THEN NewExecution ELSE exec[t][s][a]]]]
        /\ sent' = sent
    BY DEF FireDueCron, Commit, fire_due_cron, db, EachRow
  <1>2. ASSUME NEW t \in Tasks
        PROVE  /\ exec'[t] \in Rows
               /\ task'[t] \in OpsTask
               /\ TaskInv(task'[t], exec'[t])
               /\ \A s \in Servers, a \in Attempts :
                      exec[t][s][a].started => exec'[t][s][a].started
    <2> DEFINE old == exec[t]
               new == exec'[t]
               tn == task'[t]
    <2>1. old \in Rows /\ task[t] \in OpsTask /\ TaskInv(task[t], old)
      BY DEF IInv, TypeOK, Rows
    <2>2. CASE t \in Due
      <3>1. task[t].schedule = "CRON" /\ task[t].status \in {"PENDING", "CREATED"}
        BY <2>2 DEF due_cron, list_pending_cron, db
      <3>2. tn = Fired(t)
        BY <2>2, <1>1
      <3>3. /\ tn \in OpsTask /\ tn.status = "RUNNING"
            /\ tn.schedule = task[t].schedule /\ tn.targets = task[t].targets
            /\ tn.max_attempts = task[t].max_attempts
        BY <2>1, <3>2 DEF OpsTask, Active
      <3>4. \A s \in Servers, a \in Attempts :
               \/ s \in task[t].targets /\ a = 1 /\ new[s][a] = NewExecution
               \/ ~(s \in task[t].targets /\ a = 1) /\ new[s][a] = old[s][a]
        BY <2>2, <1>1
      <3>5. new \in Rows
        <4>1. \A s \in Servers, a \in Attempts : new[s][a] \in OpsTaskExecution
          BY <3>4, <2>1, NewRow DEF Rows
        <4> QED BY <4>1, <1>1 DEF Rows
      <3>6. TaskInv(tn, new) /\ \A s \in Servers, a \in Attempts : ~old[s][a].started
        <4> HIDE DEF old, new, tn
        <4> QED BY <2>1, <3>1, <3>3, <3>4, <3>5, FireKeeps
      <3> QED BY <3>3, <3>5, <3>6
    <2>3. CASE t \notin Due
      <3>1. tn = task[t] /\ \A s \in Servers, a \in Attempts : new[s][a] = old[s][a]
        BY <2>3, <1>1
      <3>2. new \in Rows
        <4>1. \A s \in Servers, a \in Attempts : new[s][a] \in OpsTaskExecution
          BY <3>1, <2>1 DEF Rows
        <4> QED BY <4>1, <1>1 DEF Rows
      <3>3. new = old
        <4> HIDE DEF old, new
        <4> QED BY <3>1, <3>2, <2>1 DEF Rows
      <3> QED BY <3>1, <3>3, <2>1
    <2> QED BY <2>2, <2>3
  <1>3. TypeOK'
    <2>1. task' \in [Tasks -> OpsTask] /\ exec' \in [Tasks -> Rows]
      BY <1>1, <1>2
    <2> QED BY <2>1, <1>1 DEF IInv, TypeOK, Rows
  <1>4. ReportsOfStarted'
    BY <1>1, <1>2 DEF IInv, ReportsOfStarted
  <1> QED BY <1>2, <1>3, <1>4 DEF IInv

\* cleanup_history keeps the invariant.
LEMMA CleanupHistoryInv ==
    ASSUME IInv, CleanupHistory
    PROVE  IInv'
  <1> DEFINE Old(t, s, a) == /\ Stored(exec[t][s][a])
                             /\ exec[t][s][a].status \in Terminal
                             /\ exec[t][s][a].ended > TASK_RETENTION
             Over(t) == /\ task[t].schedule = "ONCE"
                        /\ task[t].status \in Terminal
                        /\ task[t].ended > TASK_RETENTION
                        /\ \A s \in Servers, a \in Attempts : ~Stored(exec'[t][s][a])
  <1>1. /\ exec' = [t \in Tasks |-> [s \in Servers |-> [a \in Attempts |->
                       IF Old(t, s, a) THEN [exec[t][s][a] EXCEPT !.gone = TRUE]
                       ELSE exec[t][s][a]]]]
        /\ task' = [t \in Tasks |-> IF Over(t) THEN [task[t] EXCEPT !.status = "DELETED"]
                                    ELSE task[t]]
        /\ sent' = sent
    BY DEF CleanupHistory, Commit, cleanup_history, delete_terminal_before,
           delete_finished_tasks_before, db, EachRow
  <1>2. ASSUME NEW t \in Tasks
        PROVE  /\ exec'[t] \in Rows
               /\ task'[t] \in OpsTask
               /\ TaskInv(task'[t], exec'[t])
               /\ \A s \in Servers, a \in Attempts :
                      exec[t][s][a].started => exec'[t][s][a].started
    <2> DEFINE old == exec[t]
               new == exec'[t]
               tk == task[t]
               tn == task'[t]
    <2>1. old \in Rows /\ tk \in OpsTask /\ TaskInv(tk, old)
      BY DEF IInv, TypeOK, Rows
    <2>2. ASSUME NEW s \in Servers, NEW a \in Attempts
          PROVE  /\ new[s][a] \in OpsTaskExecution
                 /\ new[s][a].status = old[s][a].status
                 /\ new[s][a].started = old[s][a].started
                 /\ old[s][a].gone => new[s][a].gone
                 /\ new[s][a].gone => new[s][a].status \in Terminal
      <3>1. old[s][a] \in OpsTaskExecution
        BY <2>1 DEF Rows
      <3>2. GoneIsEnded(old)
        BY <2>1 DEF TaskInv
      <3>3. CASE Old(t, s, a)
        <4>1. new[s][a] = [old[s][a] EXCEPT !.gone = TRUE] /\ old[s][a].status \in Terminal
          BY <3>3, <1>1
        <4> HIDE DEF old, new
        <4>2. /\ new[s][a] \in OpsTaskExecution
              /\ new[s][a].status = old[s][a].status
              /\ new[s][a].started = old[s][a].started
              /\ new[s][a].gone
          BY <4>1, <3>1 DEF OpsTaskExecution
        <4> QED BY <4>1, <4>2, Zenon
      <3>4. CASE ~Old(t, s, a)
        <4>1. new[s][a] = old[s][a]
          BY <3>4, <1>1
        <4> HIDE DEF old, new
        <4> QED BY <4>1, <3>1, <3>2 DEF GoneIsEnded
      <3> QED BY <3>3, <3>4
    <2>3. new \in Rows
      BY <2>2, <1>1 DEF Rows
    <2>4. /\ tn \in OpsTask
          /\ tn.targets = tk.targets /\ tn.max_attempts = tk.max_attempts
          /\ tn.schedule = tk.schedule /\ tn.confirm_required = tk.confirm_required
          /\ tn.confirmed = tk.confirmed
          /\ \/ tn.status = tk.status
             \/ /\ tk.status \in Terminal /\ tn.status = "DELETED"
                /\ \A s \in Servers, a \in Attempts : ~Stored(new[s][a])
      <3>1. CASE Over(t)
        <4>1. /\ tn = [tk EXCEPT !.status = "DELETED"] /\ tk.status \in Terminal
              /\ \A s \in Servers, a \in Attempts : ~Stored(new[s][a])
          BY <3>1, <1>1
        <4> HIDE DEF new, tk, tn
        <4> QED BY <4>1, <2>1 DEF OpsTask
      <3>2. CASE ~Over(t)
        <4>1. tn = tk
          BY <3>2, <1>1
        <4> HIDE DEF tk, tn
        <4> QED BY <4>1, <2>1
      <3> QED BY <3>1, <3>2
    <2>5. TaskInv(tn, new)
      <3> HIDE DEF old, new, tk, tn
      <3> QED BY <2>1, <2>2, <2>3, <2>4, FrameKeeps
    <2>6. \A s \in Servers, a \in Attempts : old[s][a].started => new[s][a].started
      <3> HIDE DEF old, new
      <3> QED BY <2>2, Zenon
    <2> QED BY <2>3, <2>4, <2>5, <2>6
  <1>3. TypeOK'
    <2>1. task' \in [Tasks -> OpsTask] /\ exec' \in [Tasks -> Rows]
      BY <1>1, <1>2
    <2> QED BY <2>1, <1>1 DEF IInv, TypeOK, Rows
  <1>4. ReportsOfStarted'
    BY <1>1, <1>2 DEF IInv, ReportsOfStarted
  <1> QED BY <1>2, <1>3, <1>4 DEF IInv

\* The timers stay natural numbers.
LEMMA TimersAreNat ==
    /\ \A n \in Nat : CountDown(n) \in Nat
    /\ \A n, cap \in Nat : CountUp(n, cap) \in Nat
    /\ EndedCap \in Nat
  BY TableAssumption DEF CountDown, CountUp, EndedCap

\* The passage of time keeps the invariant.
LEMMA TickInv ==
    ASSUME IInv, Tick
    PROVE  IInv'
  <1>1. /\ exec' = [t \in Tasks |-> [s \in Servers |-> [a \in Attempts |->
                       LaterRow(task[t], exec[t][s][a])]]]
        /\ task' = [t \in Tasks |-> LaterTask(task[t])]
        /\ sent' = sent
    BY DEF Tick, Commit, TimePasses, db, EachRow
  <1>2. ASSUME NEW tk \in OpsTask
        PROVE  /\ LaterTask(tk) \in OpsTask
               /\ LaterTask(tk).status = tk.status
               /\ LaterTask(tk).targets = tk.targets
               /\ LaterTask(tk).max_attempts = tk.max_attempts
               /\ LaterTask(tk).schedule = tk.schedule
               /\ LaterTask(tk).confirm_required = tk.confirm_required
               /\ LaterTask(tk).confirmed = tk.confirmed
    BY TimersAreNat DEF LaterTask, OpsTask
  <1>3. ASSUME NEW tk \in OpsTask, NEW e \in OpsTaskExecution
        PROVE  /\ LaterRow(tk, e) \in OpsTaskExecution
               /\ LaterRow(tk, e).status = e.status
               /\ LaterRow(tk, e).started = e.started
               /\ LaterRow(tk, e).gone = e.gone
    <2>1. tk.timeout + 1 \in Nat
      BY DEF OpsTask
    <2> QED BY <2>1, TimersAreNat DEF LaterRow, OpsTaskExecution
  <1>4. ASSUME NEW t \in Tasks
        PROVE  /\ exec'[t] \in Rows
               /\ task'[t] \in OpsTask
               /\ TaskInv(task'[t], exec'[t])
               /\ \A s \in Servers, a \in Attempts :
                      exec[t][s][a].started => exec'[t][s][a].started
    <2> DEFINE old == exec[t]
               new == exec'[t]
               tk == task[t]
               tn == task'[t]
    <2>1. old \in Rows /\ tk \in OpsTask /\ TaskInv(tk, old)
      BY DEF IInv, TypeOK, Rows
    <2>2. ASSUME NEW s \in Servers, NEW a \in Attempts
          PROVE  /\ new[s][a] \in OpsTaskExecution
                 /\ new[s][a].status = old[s][a].status
                 /\ new[s][a].started = old[s][a].started
                 /\ old[s][a].gone => new[s][a].gone
                 /\ new[s][a].gone => new[s][a].status \in Terminal
      <3>1. old[s][a] \in OpsTaskExecution
        BY <2>1 DEF Rows
      <3>2. old[s][a].gone => old[s][a].status \in Terminal
        BY <2>1 DEF TaskInv, GoneIsEnded
      <3>3. new[s][a] = LaterRow(tk, old[s][a])
        BY <1>1
      <3> HIDE DEF old, new, tk
      <3>4. /\ new[s][a] \in OpsTaskExecution
            /\ new[s][a].status = old[s][a].status
            /\ new[s][a].started = old[s][a].started
            /\ new[s][a].gone = old[s][a].gone
        BY <3>1, <3>3, <2>1, <1>3, ZenonT(40)
      <3> QED BY <3>2, <3>4, Zenon
    <2>3. new \in Rows
      BY <2>2, <1>1 DEF Rows
    <2>4. tn = LaterTask(tk)
      BY <1>1
    <2>5. tn \in OpsTask /\ TaskInv(tn, new)
      <3> HIDE DEF old, new, tk, tn
      <3> QED BY <2>1, <2>2, <2>3, <2>4, <1>2, FrameKeeps
    <2>6. \A s \in Servers, a \in Attempts : old[s][a].started => new[s][a].started
      <3> HIDE DEF old, new
      <3> QED BY <2>2, Zenon
    <2> QED BY <2>3, <2>5, <2>6
  <1>5. TypeOK'
    <2>1. task' \in [Tasks -> OpsTask] /\ exec' \in [Tasks -> Rows]
      BY <1>1, <1>4
    <2> QED BY <2>1, <1>1 DEF IInv, TypeOK, Rows
  <1>6. ReportsOfStarted'
    BY <1>1, <1>4 DEF IInv, ReportsOfStarted
  <1> QED BY <1>4, <1>5, <1>6 DEF IInv

-----------------------------------------------------------------------------
(* The theorems *)

\* The inductive invariant: in every reachable state the tables are well typed,
\* agents report only what they were handed, and every task satisfies TaskInv.
THEOREM Invariance == Spec => []IInv
  <1>1. IInv /\ [Next]_vars => IInv'
    <2> SUFFICES ASSUME IInv, [Next]_vars PROVE IInv'
      OBVIOUS
    <2>1. CASE \E t \in Tasks, data \in TaskCreate : CreateTask(t, data)
      BY <2>1, CreateTaskInv
    <2>2. CASE \E t \in Tasks : ConfirmTask(t)
      BY <2>2, ConfirmTaskInv
    <2>3. CASE \E t \in Tasks : CancelTask(t)
      BY <2>3, CancelTaskInv
    <2>4. CASE \E s \in Servers : FetchPending(s)
      BY <2>4, FetchPendingInv
    <2>5. CASE \E t \in Tasks, s \in Servers, a \in Attempts : AgentExecute(t, s, a)
      BY <2>5, AgentExecuteInv
    <2>6. CASE \E t \in Tasks, s \in Servers, a \in Attempts : ReportResult(t, s, a)
      BY <2>6, ReportResultInv
    <2>7. CASE ScanTimeouts
      BY <2>7, ScanTimeoutsInv
    <2>8. CASE DispatchRetries
      BY <2>8, DispatchRetriesInv
    <2>9. CASE FireDueCron
      BY <2>9, FireDueCronInv
    <2>10. CASE CleanupHistory
      BY <2>10, CleanupHistoryInv
    <2>11. CASE Tick
      BY <2>11, TickInv
    <2>12. CASE UNCHANGED vars
      BY <2>12 DEF vars, IInv, TypeOK, ReportsOfStarted
    <2> QED BY <2>1, <2>2, <2>3, <2>4, <2>5, <2>6, <2>7, <2>8, <2>9, <2>10,
               <2>11, <2>12 DEF Next
  <1> QED BY InitInv, <1>1, PTL DEF Spec

\* The tables keep their types whatever the handlers do.
THEOREM TypeCorrect == Spec => []TypeOK
  <1>1. IInv => TypeOK
    BY DEF IInv
  <1> QED BY Invariance, <1>1, PTL

\* The status of a task never contradicts its executions, for any number of
\* tasks, servers and attempts.
THEOREM StatusCorrect == Spec => []StatusMatchesWork
  <1>1. IInv => StatusMatchesWork
    BY DEF IInv, TaskInv, StatusFits, StatusMatchesWork, Has, HasRow
  <1> QED BY Invariance, <1>1, PTL

\* Attempts of a target form a chain within the attempts the task allows.
THEOREM RetryChainCorrect == Spec => []RetryChain
  <1>1. IInv => RetryChain
    <2> SUFFICES ASSUME IInv, NEW t \in Tasks, NEW s \in Servers, NEW a \in Attempts,
                        Present(t, s, a)
                 PROVE  /\ s \in task[t].targets
                        /\ a <= task[t].max_attempts
                        /\ \A b \in 1..(a - 1) : exec[t][s][b].status = "FAILED"
      BY DEF RetryChain
    <2>1. Chain(task[t], exec[t])
      BY DEF IInv, TaskInv
    <2>2. \A b \in 1..(a - 1) : b \in Attempts /\ b < a
      BY TableAssumption DEF Attempts
    <2> QED BY <2>1, <2>2 DEF Chain, Present
  <1> QED BY Invariance, <1>1, PTL

\* A one-off task that needs confirmation runs nowhere before it is confirmed.
THEOREM ConfirmationCorrect == Spec => []ConfirmedBeforeRun
  <1>1. IInv => ConfirmedBeforeRun
    <2> SUFFICES ASSUME IInv, NEW t \in Tasks, NEW s \in Servers, NEW a \in Attempts,
                        exec[t][s][a].started, task[t].schedule = "ONCE",
                        task[t].confirm_required, ~task[t].confirmed
                 PROVE  FALSE
      BY DEF ConfirmedBeforeRun
    <2>1. Unconfirmed(task[t], exec[t]) /\ NotHandedOut(exec[t])
      BY DEF IInv, TaskInv
    <2>2. exec[t][s][a].status \in {"ABSENT"} \cup Active \cup Terminal
      BY DEF IInv, TypeOK, OpsTaskExecution
    <2>3. exec[t][s][a].status \in {"ABSENT", "PENDING", "CANCELLED"}
      BY <2>1, <2>2 DEF Unconfirmed, Has
    <2> QED BY <2>1, <2>3 DEF NotHandedOut
  <1> QED BY Invariance, <1>1, PTL

\* The cleanup leaves no execution without its task.
THEOREM CleanupCorrect == Spec => []ReferentialIntegrity
  <1>1. IInv => ReferentialIntegrity
    <2> SUFFICES ASSUME IInv, NEW t \in Tasks, NEW s \in Servers, NEW a \in Attempts
                 PROVE  /\ Stored(exec[t][s][a]) => TaskExists(task[t])
                        /\ exec[t][s][a].gone => exec[t][s][a].status \in Terminal
      BY DEF ReferentialIntegrity
    <2>1. /\ GoneIsEnded(exec[t]) /\ DeletedRows(task[t], exec[t])
          /\ StatusFits(task[t].status, exec[t])
      BY DEF IInv, TaskInv
    <2>2. task[t].status = "ABSENT" => exec[t][s][a].status = "ABSENT"
      BY <2>1 DEF StatusFits, Has, IInv, TypeOK, OpsTaskExecution
    <2> QED BY <2>1, <2>2 DEF GoneIsEnded, DeletedRows, Stored, TaskExists
  <1> QED BY Invariance, <1>1, PTL

-----------------------------------------------------------------------------
(* What no step does *)

\* One step of FinishedStaysFinished and of RetryOnlyInBudget.
KeepsFinished ==
    /\ \A t \in Tasks, s \in Servers, a \in Attempts :
           exec[t][s][a].status \in Terminal =>
               exec'[t][s][a].status = exec[t][s][a].status
    /\ \A t \in Tasks :
           task[t].status \in Terminal =>
               task'[t].status \in {task[t].status, "DELETED"}

AddsInBudget ==
    \A t \in Tasks, s \in Servers, a \in Attempts \ {1} :
        exec'[t][s][a].status # "ABSENT" /\ exec[t][s][a].status = "ABSENT" =>
            /\ exec[t][s][a - 1].status = "RETRYING"
            /\ exec[t][s][a - 1].wait = 0
            /\ task[t].left > 0

\* Users' requests end or add nothing they may not.
LEMMA UserSteps ==
    ASSUME IInv, NEW t \in Tasks,
           \/ \E data \in TaskCreate : CreateTask(t, data)
           \/ ConfirmTask(t)
           \/ CancelTask(t)
    PROVE  KeepsFinished /\ AddsInBudget
  <1>0. /\ task \in [Tasks -> OpsTask]
        /\ exec \in [Tasks -> [Servers -> [Attempts -> OpsTaskExecution]]]
    BY DEF IInv, TypeOK
  <1>1. ASSUME NEW data \in TaskCreate, CreateTask(t, data)
        PROVE  KeepsFinished /\ AddsInBudget
    <2> DEFINE rows == [s \in Servers |-> [a \in Attempts |->
                         IF data.schedule = "ONCE" /\ s \in data.targets /\ a = 1
                         THEN NewExecution ELSE NoExecution]]
               tk == create_task(db, t, data).task[t]
    <2>1. /\ exec' = [exec EXCEPT ![t] = rows]
          /\ task' = [task EXCEPT ![t] = tk]
          /\ task[t].status = "ABSENT"
      BY <1>1 DEF CreateTask, Commit, create_task, db
    <2>2. \A s \in Servers, a \in Attempts : exec[t][s][a].status \notin Terminal
      BY <2>1 DEF IInv, TaskInv, StatusFits, Has
    <2>3. \A s \in Servers, a \in Attempts : a # 1 => rows[s][a].status = "ABSENT"
      BY NewRow
    <2> HIDE DEF rows, tk
    <2>4. KeepsFinished
      BY <1>0, <2>1, <2>2 DEF KeepsFinished, Terminal
    <2>5. AddsInBudget
      BY <1>0, <2>1, <2>3 DEF AddsInBudget
    <2> QED BY <2>4, <2>5
  <1>2. CASE ConfirmTask(t)
    <2>1. /\ exec' = exec
          /\ task' = [task EXCEPT ![t] = [task[t] EXCEPT !.status = "PENDING", !.confirmed = TRUE]]
          /\ task[t].status = "CREATED"
      BY <1>2 DEF ConfirmTask, Commit, confirm_task, db
    <2> QED BY <1>0, <2>1 DEF KeepsFinished, AddsInBudget, Terminal
  <1>3. CASE CancelTask(t)
    <2> DEFINE rows == cancelled_rows(exec[t])
               tk == aggregate_task_status(task[t], rows)
    <2>1. /\ exec' = [exec EXCEPT ![t] = rows]
          /\ task' = [task EXCEPT ![t] = tk]
          /\ task[t].status \notin Terminal
      BY <1>3 DEF CancelTask, Commit, cancel_task, db
    <2>2. \A s \in Servers, a \in Attempts :
              \/ rows[s][a] = exec[t][s][a]
              \/ exec[t][s][a].status = "PENDING"
      BY DEF cancelled_rows
    <2> HIDE DEF rows, tk
    <2>3. KeepsFinished
      BY <1>0, <2>1, <2>2 DEF KeepsFinished, Terminal
    <2>4. AddsInBudget
      BY <1>0, <2>1, <2>2 DEF AddsInBudget
    <2> QED BY <2>3, <2>4
  <1> QED BY <1>1, <1>2, <1>3

\* A fetch hands out, and a report ends, only what is not over.
LEMMA AgentSteps ==
    ASSUME IInv,
           \/ \E s \in Servers : FetchPending(s)
           \/ \E t \in Tasks, s \in Servers, a \in Attempts :
                  AgentExecute(t, s, a) \/ ReportResult(t, s, a)
    PROVE  KeepsFinished /\ AddsInBudget
  <1>0. /\ task \in [Tasks -> OpsTask]
        /\ exec \in [Tasks -> [Servers -> [Attempts -> OpsTaskExecution]]]
    BY DEF IInv, TypeOK
  <1>1. ASSUME NEW q \in Servers, FetchPending(q)
        PROVE  KeepsFinished /\ AddsInBudget
    <2>1. PICK batch \in SUBSET fetch_pending_by_server(db, q) :
              Commit(fetch_pending(db, q, batch))
      BY <1>1 DEF FetchPending, Limited
    <2>2. /\ task' = [t \in Tasks |->
                         IF \E a \in Attempts : <<t, a>> \in batch
                         THEN [task[t] EXCEPT !.status = "RUNNING"] ELSE task[t]]
          /\ exec' = [t \in Tasks |-> [s \in Servers |-> [a \in Attempts |->
                         IF s = q /\ <<t, a>> \in batch
                         THEN mark_running(exec[t][s][a]) ELSE exec[t][s][a]]]]
      BY <2>1 DEF Commit, fetch_pending, db, EachRow
    <2>3. \A t \in Tasks, a \in Attempts : <<t, a>> \in batch =>
              /\ exec[t][q][a].status = "PENDING"
              /\ task[t].status \in {"PENDING", "RUNNING"}
      BY <2>1 DEF fetch_pending_by_server, db
    <2>4. KeepsFinished
      BY <2>2, <2>3 DEF KeepsFinished, Terminal
    <2>5. AddsInBudget
      BY <2>2, <2>3 DEF AddsInBudget
    <2> QED BY <2>4, <2>5
  <1>2. ASSUME NEW t \in Tasks, NEW s \in Servers, NEW a \in Attempts, AgentExecute(t, s, a)
        PROVE  KeepsFinished /\ AddsInBudget
    <2>1. task' = task /\ exec' = exec
      BY <1>2 DEF AgentExecute
    <2> QED BY <2>1 DEF KeepsFinished, AddsInBudget
  <1>3. ASSUME NEW t \in Tasks, NEW s \in Servers, NEW a \in Attempts, ReportResult(t, s, a)
        PROVE  KeepsFinished /\ AddsInBudget
    <2> DEFINE e == reported_row(task[t], exec[t][s][a], a, sent[t][s][a])
               rows == [exec[t] EXCEPT ![s][a] = e]
               tk == aggregate_task_status(task[t], rows)
    <2>1. /\ exec' = [exec EXCEPT ![t] = rows]
          /\ task' = [task EXCEPT ![t] = tk]
          /\ exec[t][s][a].status \notin Terminal
          /\ exec[t][s][a].status # "ABSENT"
      BY <1>3 DEF ReportResult, Commit, report_result, db, Stored
    <2>2. \A q \in Servers, b \in Attempts :
              rows[q][b] = exec[t][q][b] \/ (q = s /\ b = a)
      BY <1>0
    <2>3. task[t].status \notin Terminal
      <3>1. exec[t][s][a].status \in Active
        BY <1>0, <2>1 DEF OpsTaskExecution
      <3> QED BY <3>1 DEF IInv, TaskInv, StatusFits, Has
    <2> HIDE DEF rows, tk
    <2>4. KeepsFinished
      <3>1. ASSUME NEW u \in Tasks, NEW q \in Servers, NEW b \in Attempts,
                   exec[u][q][b].status \in Terminal
            PROVE  exec'[u][q][b].status = exec[u][q][b].status
        BY <3>1, <1>0, <2>1, <2>2
      <3>2. ASSUME NEW u \in Tasks, task[u].status \in Terminal
            PROVE  task'[u].status \in {task[u].status, "DELETED"}
        BY <3>2, <1>0, <2>1, <2>3
      <3> QED BY <3>1, <3>2 DEF KeepsFinished
    <2>5. AddsInBudget
      <3>1. ASSUME NEW u \in Tasks, NEW q \in Servers, NEW b \in Attempts,
                   exec[u][q][b].status = "ABSENT"
            PROVE  exec'[u][q][b].status = "ABSENT"
        BY <3>1, <1>0, <2>1, <2>2
      <3> QED BY <3>1 DEF AddsInBudget
    <2> QED BY <2>4, <2>5
  <1> QED BY <1>1, <1>2, <1>3

\* dispatch_retries decides only rows that wait for it, and adds an attempt
\* only after one of them and before the deadline.
LEMMA RetryStepsInBudget ==
    ASSUME IInv, DispatchRetries
    PROVE  KeepsFinished /\ AddsInBudget
  <1>1. PICK batch \in SUBSET list_due_retries(db) :
            Commit(dispatch_retries(db, batch))
    BY DEF DispatchRetries, Limited
  <1>2. \A t \in Tasks, s \in Servers, a \in Attempts : <<t, s, a>> \in batch =>
            exec[t][s][a].status = "RETRYING" /\ exec[t][s][a].wait = 0
    BY <1>1 DEF list_due_retries, db
  <1>3. \A t \in Tasks, s \in Servers, a \in Attempts :
            \/ <<t, s, a>> \in batch
            \/ /\ a > 1 /\ <<t, s, a - 1>> \in batch
               /\ can_retry(task[t], a - 1)
               /\ exec'[t][s][a] = NewExecution
            \/ exec'[t][s][a] = exec[t][s][a]
    BY <1>1 DEF Commit, dispatch_retries, db, EachRow
  <1>4. \A t \in Tasks : task[t].status \in Terminal => task'[t] = task[t]
    BY <1>1 DEF Commit, dispatch_retries, db
  <1>5. \A a \in Attempts : a > 1 => a - 1 \in Attempts /\ a > a - 1
    BY TableAssumption DEF Attempts
  <1>6. KeepsFinished
    <2> SUFFICES ASSUME NEW t \in Tasks, NEW s \in Servers, NEW a \in Attempts,
                        exec[t][s][a].status \in Terminal
                 PROVE  exec'[t][s][a].status = exec[t][s][a].status
      BY <1>4 DEF KeepsFinished
    <2>1. <<t, s, a>> \notin batch
      BY <1>2 DEF Terminal
    <2>2. ~(a > 1 /\ <<t, s, a - 1>> \in batch)
      <3> SUFFICES ASSUME a > 1, <<t, s, a - 1>> \in batch PROVE FALSE
        OBVIOUS
      <3>1. exec[t][s][a - 1].status = "RETRYING" /\ a - 1 \in Attempts /\ a > a - 1
        BY <1>2, <1>5
      <3>2. Chain(task[t], exec[t])
        BY DEF IInv, TaskInv
      <3> QED BY <3>1, <3>2 DEF Chain, Terminal
    <2> QED BY <2>1, <2>2, <1>3
  <1>7. AddsInBudget
    <2> SUFFICES ASSUME NEW t \in Tasks, NEW s \in Servers, NEW a \in Attempts \ {1},
                        exec'[t][s][a].status # "ABSENT", exec[t][s][a].status = "ABSENT"
                 PROVE  /\ exec[t][s][a - 1].status = "RETRYING"
                        /\ exec[t][s][a - 1].wait = 0
                        /\ task[t].left > 0
      BY DEF AddsInBudget
    <2>1. <<t, s, a>> \notin batch
      BY <1>2
    <2>2. a > 1 /\ <<t, s, a - 1>> \in batch /\ can_retry(task[t], a - 1)
      BY <2>1, <1>3
    <2> QED BY <2>2, <1>2, <1>5 DEF can_retry
  <1> QED BY <1>6, <1>7

\* The other jobs of the scheduler neither reopen what is over nor add a
\* further attempt.
LEMMA SchedulerSteps ==
    ASSUME IInv, ScanTimeouts \/ FireDueCron \/ CleanupHistory \/ Tick
    PROVE  KeepsFinished /\ AddsInBudget
  <1>0. /\ task \in [Tasks -> OpsTask]
        /\ exec \in [Tasks -> [Servers -> [Attempts -> OpsTaskExecution]]]
    BY DEF IInv, TypeOK
  <1>1. CASE ScanTimeouts
    <2>1. \A t \in Tasks : task[t].status \in Terminal => task'[t] = task[t]
      BY <1>1 DEF ScanTimeouts, Commit, scan_timeouts, db, Terminal
    <2>2. \A t \in Tasks, s \in Servers, a \in Attempts :
              exec[t][s][a].status = "RUNNING" \/ exec'[t][s][a] = exec[t][s][a]
      BY <1>1 DEF ScanTimeouts, Commit, scan_timeouts, db, EachRow, expired_rows, is_expired
    <2> QED BY <2>1, <2>2 DEF KeepsFinished, AddsInBudget, Terminal
  <1>2. CASE FireDueCron
    <2>1. \A t \in Tasks : task[t].status \in Terminal => task'[t] = task[t]
      BY <1>2 DEF FireDueCron, Commit, fire_due_cron, due_cron, list_pending_cron, db, Terminal
    <2>2. \A t \in Tasks, s \in Servers, a \in Attempts :
              \/ a = 1 /\ task[t].status \in {"CREATED", "PENDING"}
              \/ exec'[t][s][a] = exec[t][s][a]
      BY <1>2 DEF FireDueCron, Commit, fire_due_cron, due_cron, list_pending_cron, db, EachRow
    <2>3. \A t \in Tasks, s \in Servers, a \in Attempts :
              task[t].status \in {"CREATED", "PENDING"} => exec[t][s][a].status \notin Terminal
      BY DEF IInv, TaskInv, StatusFits, Has, Terminal
    <2> QED BY <2>1, <2>2, <2>3 DEF KeepsFinished, AddsInBudget
  <1>3. CASE CleanupHistory
    <2>1. \A t \in Tasks : task'[t].status \in {task[t].status, "DELETED"}
      BY <1>0, <1>3 DEF CleanupHistory, Commit, cleanup_history,
                        delete_finished_tasks_before, db, OpsTask
    <2>2. \A t \in Tasks, s \in Servers, a \in Attempts :
              exec'[t][s][a].status = exec[t][s][a].status
      BY <1>0, <1>3 DEF CleanupHistory, Commit, cleanup_history,
                        delete_terminal_before, db, EachRow, OpsTaskExecution
    <2> QED BY <2>1, <2>2 DEF KeepsFinished, AddsInBudget
  <1>4. CASE Tick
    <2>1. \A t \in Tasks : task'[t].status = task[t].status
      BY <1>0, <1>4 DEF Tick, Commit, TimePasses, LaterTask, db, OpsTask
    <2>2. \A t \in Tasks, s \in Servers, a \in Attempts :
              exec'[t][s][a].status = exec[t][s][a].status
      <3>1. ASSUME NEW tk, NEW e \in OpsTaskExecution
            PROVE  LaterRow(tk, e).status = e.status
        BY DEF LaterRow, OpsTaskExecution
      <3>2. \A t \in Tasks, s \in Servers, a \in Attempts :
                exec'[t][s][a] = LaterRow(task[t], exec[t][s][a])
        BY <1>4 DEF Tick, Commit, TimePasses, db, EachRow
      <3> QED BY <1>0, <3>1, <3>2
    <2> QED BY <2>1, <2>2 DEF KeepsFinished, AddsInBudget
  <1> QED BY <1>1, <1>2, <1>3, <1>4

\* No step does either.
LEMMA StepsKeep ==
    ASSUME IInv, [Next]_vars
    PROVE  KeepsFinished /\ AddsInBudget
  <1>1. CASE UNCHANGED vars
    BY <1>1 DEF vars, KeepsFinished, AddsInBudget
  <1>2. CASE Next
    BY <1>2, UserSteps, AgentSteps, RetryStepsInBudget, SchedulerSteps DEF Next
  <1> QED BY <1>1, <1>2

\* What has ended stays as it ended, in every behaviour of the handlers.
THEOREM FinishedCorrect == Spec => FinishedStaysFinished
  <1>1. IInv /\ [Next]_vars => KeepsFinished
    BY StepsKeep
  <1>2. KeepsFinished =>
            [/\ \A t \in Tasks, s \in Servers, a \in Attempts :
                    exec[t][s][a].status \in Terminal =>
                        exec'[t][s][a].status = exec[t][s][a].status
             /\ \A t \in Tasks :
                    task[t].status \in Terminal =>
                        task'[t].status \in {task[t].status, "DELETED"}]_vars
    BY DEF KeepsFinished
  <1> QED BY Invariance, <1>1, <1>2, PTL DEF Spec, FinishedStaysFinished

\* A further attempt is only ever made within the budget of the task.
THEOREM BudgetCorrect == Spec => RetryOnlyInBudget
  <1>1. IInv /\ [Next]_vars => AddsInBudget
    BY StepsKeep
  <1>2. AddsInBudget =>
            [\A t \in Tasks, s \in Servers, a \in Attempts \ {1} :
                 Present(t, s, a)' /\ ~Present(t, s, a) =>
                     /\ exec[t][s][a - 1].status = "RETRYING"
                     /\ exec[t][s][a - 1].wait = 0
                     /\ task[t].left > 0]_vars
    BY DEF AddsInBudget, Present
  <1> QED BY Invariance, <1>1, <1>2, PTL DEF Spec, RetryOnlyInBudget

-----------------------------------------------------------------------------
(* What the final status of a task says of its targets *)

Good == {"SUCCESS", "CANCELLED"}

\* The status of an ended task with all its rows still stored is the verdict
\* on the latest attempts.
CountsLatest(tk, rows) ==
    /\ tk.status \in Terminal
    /\ \A s \in Servers, a \in Attempts : ~rows[s][a].gone
    => (tk.status \in Good <=> latest_statuses(rows) \subseteq Good)

\* A handler leaves a task running, aggregates it over the rows it commits, or
\* changes no status of it and brings no removed row back.
CountsStep(t) ==
    \/ task'[t].status \notin Terminal
    \/ task'[t].status = aggregated_status(latest_statuses(exec'[t]))
    \/ /\ task'[t].status = task[t].status
       /\ \A s \in Servers, a \in Attempts :
              /\ exec'[t][s][a].status = exec[t][s][a].status
              /\ exec[t][s][a].gone => exec'[t][s][a].gone

\* _aggregate_task_status ends a task well exactly when every latest attempt
\* it looked at has.
LEMMA AggregateIsVerdict ==
    ASSUME NEW L \in SUBSET Statuses, aggregated_status(L) \in Terminal
    PROVE  aggregated_status(L) \in Good <=> L \subseteq Good
  <1>1. L # {}
    BY DEF aggregated_status, Terminal
  <1>2. L \cap Active = {}
    BY DEF aggregated_status, Terminal, Active
  <1>3. CASE "DEAD" \in L
    BY <1>1, <1>2, <1>3 DEF aggregated_status, Good, Active
  <1>4. CASE "DEAD" \notin L /\ L \cap {"FAILED", "TIMEOUT"} # {}
    BY <1>1, <1>2, <1>4 DEF aggregated_status, Good, Active
  <1>5. CASE "DEAD" \notin L /\ L \cap {"FAILED", "TIMEOUT"} = {}
    <2>1. L \subseteq Good
      BY <1>2, <1>5 DEF Statuses, Terminal, Good
    <2>2. "SUCCESS" \in L \/ L = {"CANCELLED"}
      BY <2>1, <1>1 DEF Good
    <2>3. aggregated_status(L) \in Good
      BY <1>1, <1>2, <1>5, <2>2 DEF aggregated_status, Good, Active
    <2> QED BY <2>1, <2>3
  <1> QED BY <1>3, <1>4, <1>5

\* Such a step keeps the verdict.
LEMMA CountsStepKeeps ==
    ASSUME NEW t \in Tasks, TypeOK, TypeOK', CountsStep(t),
           CountsLatest(task[t], exec[t])
    PROVE  CountsLatest(task'[t], exec'[t])
  <1> DEFINE L == latest_statuses(exec[t])
             K == latest_statuses(exec'[t])
  <1>1. CASE task'[t].status \notin Terminal
    BY <1>1 DEF CountsLatest
  <1>2. CASE task'[t].status = aggregated_status(K)
    <2>1. K \in SUBSET Statuses
      BY DEF latest_statuses, Statuses
    <2> QED BY <1>2, <2>1, AggregateIsVerdict DEF CountsLatest
  <1>3. CASE /\ task'[t].status = task[t].status
             /\ \A s \in Servers, a \in Attempts :
                    /\ exec'[t][s][a].status = exec[t][s][a].status
                    /\ exec[t][s][a].gone => exec'[t][s][a].gone
    <2> SUFFICES ASSUME task'[t].status \in Terminal,
                        \A s \in Servers, a \in Attempts : ~exec'[t][s][a].gone
                 PROVE  task'[t].status \in Good <=> K \subseteq Good
      BY DEF CountsLatest
    <2>1. \A s \in Servers, a \in Attempts : ~exec[t][s][a].gone
      BY <1>3
    <2>2. \A s \in Servers, a \in Attempts : Stored(exec'[t][s][a]) <=> Stored(exec[t][s][a])
      BY <1>3, <2>1 DEF Stored
    <2>3. \A s \in Servers, a \in Attempts :
              IsLatest(exec'[t], s, a) <=> IsLatest(exec[t], s, a)
      BY <2>2 DEF IsLatest
    <2>4. K = L
      BY <1>3, <2>3 DEF latest_statuses
    <2> QED BY <1>3, <2>1, <2>4 DEF CountsLatest
  <1> QED BY <1>1, <1>2, <1>3 DEF CountsStep

\* Every step of the system is such a step for every task.
LEMMA StepsCount ==
    ASSUME IInv, [Next]_vars, NEW t \in Tasks
    PROVE  CountsStep(t)
  <1>0. /\ task \in [Tasks -> OpsTask]
        /\ exec \in [Tasks -> [Servers -> [Attempts -> OpsTaskExecution]]]
    BY DEF IInv, TypeOK
  <1>1. ASSUME NEW u \in Tasks, NEW data \in TaskCreate, CreateTask(u, data)
        PROVE  CountsStep(t)
    <2>1. /\ \A v \in Tasks \ {u} : task'[v] = task[v] /\ exec'[v] = exec[v]
          /\ task'[u].status \in {"CREATED", "PENDING"}
      BY <1>0, <1>1 DEF CreateTask, Commit, create_task, db
    <2> QED BY <2>1 DEF CountsStep, Terminal
  <1>2. ASSUME NEW u \in Tasks, ConfirmTask(u)
        PROVE  CountsStep(t)
    <2>1. /\ exec' = exec
          /\ task' = [task EXCEPT ![u] = [task[u] EXCEPT !.status = "PENDING", !.confirmed = TRUE]]
      BY <1>2 DEF ConfirmTask, Commit, confirm_task, db
    <2>2. /\ \A v \in Tasks \ {u} : task'[v] = task[v]
          /\ task'[u].status = "PENDING"
      BY <1>0, <2>1 DEF OpsTask
    <2> QED BY <2>1, <2>2 DEF CountsStep, Terminal
  <1>3. ASSUME NEW u \in Tasks, NEW rows \in Rows,
               /\ exec' = [exec EXCEPT ![u] = rows]
               /\ task' = [task EXCEPT ![u] = aggregate_task_status(@, rows)]
        PROVE  CountsStep(t)
    <2>1. task' = [task EXCEPT ![u] = aggregate_task_status(task[u], rows)]
      BY <1>3, <1>0
    <2>2. aggregate_task_status(task[u], rows).status = aggregated_status(latest_statuses(rows))
      BY <1>0 DEF aggregate_task_status, OpsTask
    <2>3. /\ \A v \in Tasks \ {u} : task'[v] = task[v] /\ exec'[v] = exec[v]
          /\ exec'[u] = rows
          /\ task'[u].status = aggregated_status(latest_statuses(rows))
      BY <1>0, <1>3, <2>1, <2>2
    <2> QED BY <2>3 DEF CountsStep
  <1>4. ASSUME NEW u \in Tasks, CancelTask(u)
        PROVE  CountsStep(t)
    <2> DEFINE rows == cancelled_rows(exec[u])
    <2>1. /\ exec' = [exec EXCEPT ![u] = rows]
          /\ task' = [task EXCEPT ![u] = aggregate_task_status(@, rows)]
      BY <1>4 DEF CancelTask, Commit, cancel_task, db
    <2>2. rows \in Rows
      BY <1>0, FinishRow DEF cancelled_rows, Rows, Terminal
    <2> HIDE DEF rows
    <2> QED BY <2>1, <2>2, <1>3
  <1>5. ASSUME NEW u \in Tasks, NEW s \in Servers, NEW a \in Attempts, ReportResult(u, s, a)
        PROVE  CountsStep(t)
    <2> DEFINE e == reported_row(task[u], exec[u][s][a], a, sent[u][s][a])
               rows == [exec[u] EXCEPT ![s][a] = e]
    <2>1. /\ exec' = [exec EXCEPT ![u] = rows]
          /\ task' = [task EXCEPT ![u] = aggregate_task_status(@, rows)]
      BY <1>5 DEF ReportResult, Commit, report_result, db
    <2>2. e \in OpsTaskExecution
      <3>1. a \in Nat
        BY TableAssumption DEF Attempts
      <3> QED BY <3>1, <1>0, FinishRow, RetryingRow DEF reported_row, mark_dead, Terminal
    <2> HIDE DEF e
    <2>3. rows \in Rows
      BY <1>0, <2>2 DEF Rows
    <2> HIDE DEF rows
    <2> QED BY <2>1, <2>3, <1>3
  <1>6. ASSUME NEW q \in Servers, FetchPending(q)
        PROVE  CountsStep(t)
    <2>1. PICK batch \in SUBSET fetch_pending_by_server(db, q) :
              Commit(fetch_pending(db, q, batch))
      BY <1>6 DEF FetchPending, Limited
    <2>2. \/ task'[t] = [task[t] EXCEPT !.status = "RUNNING"]
          \/ task'[t] = task[t] /\ \A s \in Servers, a \in Attempts : exec'[t][s][a] = exec[t][s][a]
      BY <2>1 DEF Commit, fetch_pending, db, EachRow
    <2>3. [task[t] EXCEPT !.status = "RUNNING"].status = "RUNNING"
      BY <1>0 DEF OpsTask
    <2> QED BY <2>2, <2>3 DEF CountsStep, Terminal
  <1>7. ASSUME NEW u \in Tasks, NEW s \in Servers, NEW a \in Attempts, AgentExecute(u, s, a)
        PROVE  CountsStep(t)
    BY <1>7 DEF AgentExecute, CountsStep
  <1>8. CASE ScanTimeouts
    <2>1. \/ task'[t] = aggregate_task_status(task[t], exec'[t])
          \/ task'[t] = task[t] /\ \A s \in Servers, a \in Attempts : exec'[t][s][a] = exec[t][s][a]
      BY <1>8 DEF ScanTimeouts, Commit, scan_timeouts, db, EachRow
    <2>2. aggregate_task_status(task[t], exec'[t]).status
              = aggregated_status(latest_statuses(exec'[t]))
      BY <1>0 DEF aggregate_task_status, OpsTask
    <2> QED BY <2>1, <2>2 DEF CountsStep
  <1>9. CASE DispatchRetries
    <2>1. PICK batch \in SUBSET list_due_retries(db) :
              Commit(dispatch_retries(db, batch))
      BY <1>9 DEF DispatchRetries, Limited
    <2>2. \A s \in Servers, a \in Attempts : <<t, s, a>> \in batch =>
              exec[t][s][a].status = "RETRYING"
      BY <2>1 DEF list_due_retries, db
    <2>3. task[t].status \in Terminal =>
              \A s \in Servers, a \in Attempts : exec[t][s][a].status # "RETRYING"
      BY DEF IInv, TaskInv, StatusFits, Has, Active
    <2>4. \/ task'[t] = aggregate_task_status(task[t], exec'[t])
          \/ /\ task'[t] = task[t]
             /\ task[t].status \in Terminal \/ \A s \in Servers, a \in Attempts : <<t, s, a>> \notin batch
      BY <2>1 DEF Commit, dispatch_retries, db
    <2>5. (\A s \in Servers, a \in Attempts : <<t, s, a>> \notin batch)
              => \A s \in Servers, a \in Attempts : exec'[t][s][a] = exec[t][s][a]
      <3>1. \A a \in Attempts : a > 1 => a - 1 \in Attempts
        BY TableAssumption DEF Attempts
      <3> QED BY <2>1, <3>1 DEF Commit, dispatch_retries, db, EachRow
    <2>6. aggregate_task_status(task[t], exec'[t]).status
              = aggregated_status(latest_statuses(exec'[t]))
      BY <1>0 DEF aggregate_task_status, OpsTask
    <2> QED BY <2>2, <2>3, <2>4, <2>5, <2>6 DEF CountsStep
  <1>10. CASE FireDueCron
    <2>1. \/ task'[t] = [task[t] EXCEPT !.status = "RUNNING"]
          \/ task'[t] = task[t] /\ \A s \in Servers, a \in Attempts : exec'[t][s][a] = exec[t][s][a]
      BY <1>10 DEF FireDueCron, Commit, fire_due_cron, db, EachRow
    <2>2. [task[t] EXCEPT !.status = "RUNNING"].status = "RUNNING"
      BY <1>0 DEF OpsTask
    <2> QED BY <2>1, <2>2 DEF CountsStep, Terminal
  <1>11. CASE CleanupHistory
    <2>1. task'[t].status \in {task[t].status, "DELETED"}
      BY <1>0, <1>11 DEF CleanupHistory, Commit, cleanup_history,
                         delete_finished_tasks_before, db, OpsTask
    <2>2. \A s \in Servers, a \in Attempts :
              /\ exec'[t][s][a].status = exec[t][s][a].status
              /\ exec[t][s][a].gone => exec'[t][s][a].gone
      BY <1>0, <1>11 DEF CleanupHistory, Commit, cleanup_history,
                         delete_terminal_before, db, EachRow, OpsTaskExecution
    <2> QED BY <2>1, <2>2 DEF CountsStep, Terminal
  <1>12. CASE Tick
    <2>1. task'[t].status = task[t].status
      BY <1>0, <1>12 DEF Tick, Commit, TimePasses, LaterTask, db, OpsTask
    <2>2. ASSUME NEW tk, NEW e \in OpsTaskExecution
          PROVE  LaterRow(tk, e).status = e.status /\ LaterRow(tk, e).gone = e.gone
      BY DEF LaterRow, OpsTaskExecution
    <2>3. \A s \in Servers, a \in Attempts :
              exec'[t][s][a] = LaterRow(task[t], exec[t][s][a])
      BY <1>12 DEF Tick, Commit, TimePasses, db, EachRow
    <2> QED BY <1>0, <2>1, <2>2, <2>3 DEF CountsStep
  <1>13. CASE UNCHANGED vars
    BY <1>13 DEF vars, CountsStep
  <1> QED BY <1>1, <1>2, <1>4, <1>5, <1>6, <1>7, <1>8, <1>9, <1>10, <1>11, <1>12, <1>13 DEF Next

\* The final status of a task is the verdict on all its targets.
THEOREM FinalStatusCorrect == Spec => []FinalStatusCountsEveryTarget
  <1> DEFINE Counts == \A t \in Tasks : CountsLatest(task[t], exec[t])
  <1>1. Init => Counts
    BY DEF Init, EmptyDatabase, EachRow, NoTask, CountsLatest, Terminal
  <1>2. IInv /\ IInv' /\ Counts /\ [Next]_vars => Counts'
    <2> SUFFICES ASSUME IInv, IInv', Counts, [Next]_vars, NEW t \in Tasks
                 PROVE  CountsLatest(task'[t], exec'[t])
      OBVIOUS
    <2>1. TypeOK /\ TypeOK'
      BY DEF IInv
    <2> QED BY <2>1, StepsCount, CountsStepKeeps
  <1>3. Counts => FinalStatusCountsEveryTarget
    <2> SUFFICES ASSUME Counts, NEW t \in Tasks,
                        task[t].status \in Terminal,
                        \A s \in Servers, a \in Attempts : ~exec[t][s][a].gone
                 PROVE  task[t].status \in Good <=> LastStatuses(t) \subseteq Good
      BY DEF FinalStatusCountsEveryTarget, Good
    <2>1. LastStatuses(t) = latest_statuses(exec[t])
      <3>1. \A s \in Servers, a \in Attempts : Stored(exec[t][s][a]) <=> Present(t, s, a)
        BY DEF Stored, Present
      <3>2. \A s \in Servers, a \in Attempts, x \in Active \cup Terminal :
                exec[t][s][a].status = x => Present(t, s, a)
        BY DEF Present, Active, Terminal
      <3> QED BY <3>1, <3>2 DEF LastStatuses, latest_statuses, IsLatest
    <2> QED BY <2>1 DEF CountsLatest
  <1> QED BY Invariance, <1>1, <1>2, <1>3, PTL DEF Spec

-----------------------------------------------------------------------------
(* What a cancellation leaves running *)

\* A row an agent was given.
Begun(e) == e.status \notin {"ABSENT", "PENDING", "CANCELLED"} => e.started

\* Rows past the point of being handed out were begun, and beside a cancelled
\* row no first attempt waits to be.
NoNewServer(rows) ==
    /\ \A s \in Servers, a \in Attempts : Begun(rows[s][a])
    /\ Has(rows, {"CANCELLED"}) => \A s \in Servers : rows[s][1].status # "PENDING"

\* What a handler other than create_task, cancel_task and fire_due_cron does
\* to one row: it is begun if it was, it is cancelled or a waiting first
\* attempt only if it was that before.
SparesRow(a, e, f) ==
    /\ Begun(e) => Begun(f)
    /\ f.status = "CANCELLED" => e.status = "CANCELLED"
    /\ a = 1 /\ f.status = "PENDING" => e.status = "PENDING"

\* Attempts are counted from one.
LEMMA OneIsAttempt == 1 \in Attempts /\ \A a \in Attempts : a > 1 => a - 1 \in Attempts
  BY TableAssumption DEF Attempts

\* Such writes begin the task on no further server.
LEMMA SparesRowKeeps ==
    ASSUME NEW old \in Rows, NEW new \in Rows, NoNewServer(old),
           \A s \in Servers, a \in Attempts : SparesRow(a, old[s][a], new[s][a])
    PROVE  NoNewServer(new)
  <1>1. \A s \in Servers, a \in Attempts : Begun(new[s][a])
    BY DEF NoNewServer, SparesRow
  <1>2. Has(new, {"CANCELLED"}) => Has(old, {"CANCELLED"})
    BY DEF Has, SparesRow
  <1>3. \A s \in Servers : new[s][1].status = "PENDING" => old[s][1].status = "PENDING"
    BY OneIsAttempt DEF SparesRow
  <1> QED BY <1>1, <1>2, <1>3 DEF NoNewServer

\* A finished row was begun if it was begun before it was finished.
LEMMA FinishSpares ==
    ASSUME NEW a \in Attempts, NEW e \in OpsTaskExecution, NEW x \in Terminal \ {"CANCELLED"},
           e.started
    PROVE  SparesRow(a, e, finish(e, x))
  BY DEF SparesRow, Begun, finish, OpsTaskExecution, Terminal

\* The scan changes RUNNING rows only, to TIMEOUT.
LEMMA TimeoutRows ==
    ASSUME ScanTimeouts
    PROVE  \A t \in Tasks, s \in Servers, a \in Attempts :
               \/ exec'[t][s][a] = exec[t][s][a]
               \/ /\ exec[t][s][a].status = "RUNNING"
                  /\ exec'[t][s][a] = mark_timeout(exec[t][s][a])
  <1> DEFINE Expired(t) == IF task[t].status = "RUNNING" THEN expired_rows(db, t) ELSE {}
  <1>1. exec' = [t \in Tasks |-> [s \in Servers |-> [a \in Attempts |->
                    IF <<s, a>> \in Expired(t)
                    THEN mark_timeout(exec[t][s][a]) ELSE exec[t][s][a]]]]
    BY DEF ScanTimeouts, Commit, scan_timeouts, db, EachRow
  <1>2. \A t \in Tasks, s \in Servers, a \in Attempts :
            <<s, a>> \in Expired(t) => exec[t][s][a].status = "RUNNING"
    BY DEF expired_rows, is_expired, db
  <1> HIDE DEF Expired
  <1>3. ASSUME NEW t \in Tasks, NEW s \in Servers, NEW a \in Attempts
        PROVE  exec'[t][s][a] = IF <<s, a>> \in Expired(t)
                                THEN mark_timeout(exec[t][s][a]) ELSE exec[t][s][a]
    BY <1>1
  <1> QED BY <1>2, <1>3

\* Every step keeps what a cancellation promises.
LEMMA StepsSpare ==
    ASSUME IInv, IInv', [Next]_vars, NEW t \in Tasks, NoNewServer(exec[t])
    PROVE  NoNewServer(exec'[t])
  <1>0. /\ task \in [Tasks -> OpsTask]
        /\ exec \in [Tasks -> [Servers -> [Attempts -> OpsTaskExecution]]]
    BY DEF IInv, TypeOK
  <1>a. exec[t] \in Rows /\ exec'[t] \in Rows
    BY DEF IInv, TypeOK, Rows
  <1>b. ASSUME \A s \in Servers, a \in Attempts : SparesRow(a, exec[t][s][a], exec'[t][s][a])
        PROVE  NoNewServer(exec'[t])
    BY <1>a, <1>b, SparesRowKeeps
  <1>c. \A a \in Attempts, e \in OpsTaskExecution : SparesRow(a, e, e)
    BY DEF SparesRow
  <1>d. ASSUME exec'[t] = exec[t]
        PROVE  NoNewServer(exec'[t])
    BY <1>d
  <1>1. ASSUME NEW u \in Tasks, NEW data \in TaskCreate, CreateTask(u, data)
        PROVE  NoNewServer(exec'[t])
    <2>1. CASE u = t
      <3>1. \A s \in Servers, a \in Attempts : exec'[t][s][a] \in {NewExecution, NoExecution}
        BY <1>0, <1>1, <2>1 DEF CreateTask, Commit, create_task, db
      <3>2. NewExecution.status = "PENDING" /\ NoExecution.status = "ABSENT"
        BY DEF NewExecution, NoExecution
      <3>3. \A s \in Servers, a \in Attempts : exec'[t][s][a].status \in {"PENDING", "ABSENT"}
        BY <3>1, <3>2
      <3> QED BY <3>3 DEF NoNewServer, Begun, Has
    <2>2. CASE u # t
      <3>1. exec'[t] = exec[t]
        BY <1>0, <1>1, <2>2 DEF CreateTask, Commit, create_task, db
      <3> QED BY <3>1, <1>d
    <2> QED BY <2>1, <2>2
  <1>2. ASSUME NEW u \in Tasks, ConfirmTask(u)
        PROVE  NoNewServer(exec'[t])
    <2>1. exec' = exec
      BY <1>2 DEF ConfirmTask, Commit, confirm_task, db
    <2> QED BY <2>1, <1>d
  <1>3. ASSUME NEW u \in Tasks, CancelTask(u)
        PROVE  NoNewServer(exec'[t])
    <2>0. exec' = [exec EXCEPT ![u] = cancelled_rows(exec[u])]
      BY <1>3 DEF CancelTask, Commit, cancel_task, db
    <2>1. CASE u = t
      <3>1. \A s \in Servers, a \in Attempts :
                exec'[t][s][a] = IF Stored(exec[t][s][a]) /\ exec[t][s][a].status = "PENDING"
                                 THEN finish(exec[t][s][a], "CANCELLED") ELSE exec[t][s][a]
        BY <1>0, <2>0, <2>1 DEF cancelled_rows
      <3>2. \A e \in OpsTaskExecution : finish(e, "CANCELLED").status = "CANCELLED"
        BY DEF finish, OpsTaskExecution
      <3>3. \A s \in Servers, a \in Attempts :
                exec[t][s][a].status = "PENDING" => Stored(exec[t][s][a])
        <4>1. GoneIsEnded(exec[t])
          BY DEF IInv, TaskInv
        <4> QED BY <4>1 DEF GoneIsEnded, Stored, Terminal
      <3>4. \A s \in Servers, a \in Attempts :
                \/ exec'[t][s][a].status = "CANCELLED"
                \/ exec'[t][s][a] = exec[t][s][a] /\ exec[t][s][a].status # "PENDING"
        BY <1>0, <3>1, <3>2, <3>3
      <3>5. \A s \in Servers, a \in Attempts : Begun(exec'[t][s][a])
        BY <3>4 DEF NoNewServer, Begun
      <3>6. \A s \in Servers : exec'[t][s][1].status # "PENDING"
        BY <3>4, OneIsAttempt
      <3> QED BY <3>5, <3>6 DEF NoNewServer
    <2>2. CASE u # t
      <3>1. exec'[t] = exec[t]
        BY <1>0, <2>0, <2>2
      <3> QED BY <3>1, <1>d
    <2> QED BY <2>1, <2>2
  <1>4. ASSUME NEW q \in Servers, FetchPending(q)
        PROVE  NoNewServer(exec'[t])
    <2>1. PICK batch \in SUBSET fetch_pending_by_server(db, q) :
              Commit(fetch_pending(db, q, batch))
      BY <1>4 DEF FetchPending, Limited
    <2>2. \A s \in Servers, a \in Attempts :
              \/ exec'[t][s][a] = mark_running(exec[t][s][a])
              \/ exec'[t][s][a] = exec[t][s][a]
      BY <2>1 DEF Commit, fetch_pending, db, EachRow
    <2>3. \A a \in Attempts, e \in OpsTaskExecution : SparesRow(a, e, mark_running(e))
      BY DEF SparesRow, Begun, mark_running, OpsTaskExecution
    <2> QED BY <1>0, <1>b, <1>c, <2>2, <2>3
  <1>5. ASSUME NEW u \in Tasks, NEW s \in Servers, NEW a \in Attempts, AgentExecute(u, s, a)
        PROVE  NoNewServer(exec'[t])
    BY <1>5, <1>d DEF AgentExecute
  <1>6. ASSUME NEW u \in Tasks, NEW s \in Servers, NEW a \in Attempts, ReportResult(u, s, a)
        PROVE  NoNewServer(exec'[t])
    <2> DEFINE e == reported_row(task[u], exec[u][s][a], a, sent[u][s][a])
    <2>0. exec' = [exec EXCEPT ![u] = [exec[u] EXCEPT ![s][a] = e]]
      BY <1>6 DEF ReportResult, Commit, report_result, db
    <2>1. exec[u][s][a].started /\ exec[u][s][a] \in OpsTaskExecution
      BY <1>0, <1>6 DEF ReportResult, IInv, ReportsOfStarted
    <2>2. SparesRow(a, exec[u][s][a], e)
      <3>1. \A f \in OpsTaskExecution :
                f.started => SparesRow(a, f, mark_retrying(f, a))
        BY DEF SparesRow, Begun, mark_retrying, OpsTaskExecution
      <3> QED BY <2>1, <3>1, FinishSpares DEF reported_row, mark_dead, Terminal
    <2> HIDE DEF e
    <2>3. \A p \in Servers, b \in Attempts :
              \/ exec'[t][p][b] = exec[t][p][b]
              \/ t = u /\ p = s /\ b = a /\ exec'[t][p][b] = e
      BY <1>0, <2>0
    <2> QED BY <1>0, <1>b, <1>c, <2>2, <2>3
  <1>7. CASE ScanTimeouts
    <2>1. \A s \in Servers, a \in Attempts :
              \/ exec'[t][s][a] = exec[t][s][a]
              \/ /\ exec[t][s][a].status = "RUNNING"
                 /\ exec'[t][s][a] = mark_timeout(exec[t][s][a])
      BY <1>7, TimeoutRows
    <2>2. \A s \in Servers, a \in Attempts :
              exec[t][s][a].status = "RUNNING" => exec[t][s][a].started
      BY DEF NoNewServer, Begun
    <2> QED BY <1>0, <1>b, <1>c, <2>1, <2>2, FinishSpares DEF mark_timeout, Terminal
  <1>8. CASE DispatchRetries
    <2>1. PICK batch \in SUBSET list_due_retries(db) :
              Commit(dispatch_retries(db, batch))
      BY <1>8 DEF DispatchRetries, Limited
    <2>2. \A s \in Servers, a \in Attempts : <<t, s, a>> \in batch =>
              exec[t][s][a].status = "RETRYING"
      BY <2>1 DEF list_due_retries, db
    <2>3. \A s \in Servers, a \in Attempts :
              \/ exec'[t][s][a] = exec[t][s][a]
              \/ /\ <<t, s, a>> \in batch
                 /\ \E x \in {"FAILED", "DEAD"} : exec'[t][s][a] = finish(exec[t][s][a], x)
              \/ a > 1 /\ exec'[t][s][a] = NewExecution
      BY <2>1 DEF Commit, dispatch_retries, db, EachRow
    <2>4. \A s \in Servers, a \in Attempts :
              exec[t][s][a].status = "RETRYING" => exec[t][s][a].started
      BY DEF NoNewServer, Begun
    <2>5. \A a \in Attempts, e \in OpsTaskExecution : a > 1 => SparesRow(a, e, NewExecution)
      BY DEF SparesRow, Begun, NewExecution, NoExecution
    <2> SUFFICES ASSUME NEW s \in Servers, NEW a \in Attempts
                 PROVE  SparesRow(a, exec[t][s][a], exec'[t][s][a])
      BY <1>b
    <2>6. exec[t][s][a] \in OpsTaskExecution
      BY <1>0
    <2>7. CASE exec'[t][s][a] = exec[t][s][a]
      BY <1>c, <2>6, <2>7
    <2>8. CASE /\ <<t, s, a>> \in batch
               /\ \E x \in {"FAILED", "DEAD"} : exec'[t][s][a] = finish(exec[t][s][a], x)
      BY <2>2, <2>4, <2>6, <2>8, FinishSpares DEF Terminal
    <2>9. CASE a > 1 /\ exec'[t][s][a] = NewExecution
      BY <2>5, <2>6, <2>9
    <2> QED BY <2>3, <2>7, <2>8, <2>9
  <1>9. CASE FireDueCron
    <2>1. CASE t \in due_cron(db)
      <3>1. ~Has(exec[t], (Active \cup Terminal) \ {"PENDING"})
        BY <2>1 DEF due_cron, list_pending_cron, db, IInv, TaskInv, StatusFits
      <3>2. \A s \in Servers, a \in Attempts :
                exec'[t][s][a] \in {exec[t][s][a], NewExecution}
        BY <1>9 DEF FireDueCron, Commit, fire_due_cron, db, EachRow
      <3>3. NewExecution.status = "PENDING"
        BY DEF NewExecution, NoExecution
      <3>4. \A s \in Servers, a \in Attempts : exec[t][s][a].status \in {"ABSENT", "PENDING"}
        BY <1>0, <3>1 DEF Has, OpsTaskExecution
      <3>5. \A s \in Servers, a \in Attempts : exec'[t][s][a].status \in {"ABSENT", "PENDING"}
        BY <3>2, <3>3, <3>4
      <3> QED BY <3>5 DEF NoNewServer, Begun, Has
    <2>2. CASE t \notin due_cron(db)
      <3>1. \A s \in Servers, a \in Attempts : exec'[t][s][a] = exec[t][s][a]
        BY <1>9, <2>2 DEF FireDueCron, Commit, fire_due_cron, db, EachRow
      <3> QED BY <1>0, <1>b, <1>c, <3>1
    <2> QED BY <2>1, <2>2
  <1>10. ASSUME \A s \in Servers, a \in Attempts :
                    /\ exec'[t][s][a].status = exec[t][s][a].status
                    /\ exec'[t][s][a].started = exec[t][s][a].started
         PROVE  NoNewServer(exec'[t])
    BY <1>b, <1>10 DEF SparesRow, Begun
  <1>11. CASE CleanupHistory
    <2>1. \A s \in Servers, a \in Attempts :
              /\ exec'[t][s][a].status = exec[t][s][a].status
              /\ exec'[t][s][a].started = exec[t][s][a].started
      BY <1>0, <1>11 DEF CleanupHistory, Commit, cleanup_history,
                         delete_terminal_before, db, EachRow, OpsTaskExecution
    <2> QED BY <1>10, <2>1
  <1>12. CASE Tick
    <2>1. ASSUME NEW tk, NEW e \in OpsTaskExecution
          PROVE  LaterRow(tk, e).status = e.status /\ LaterRow(tk, e).started = e.started
      BY DEF LaterRow, OpsTaskExecution
    <2>2. \A s \in Servers, a \in Attempts :
              exec'[t][s][a] = LaterRow(task[t], exec[t][s][a])
      BY <1>12 DEF Tick, Commit, TimePasses, db, EachRow
    <2> QED BY <1>0, <1>10, <2>1, <2>2
  <1>13. CASE UNCHANGED vars
    BY <1>13, <1>d DEF vars
  <1> QED BY <1>1, <1>2, <1>3, <1>4, <1>5, <1>6, <1>7, <1>8, <1>9, <1>11, <1>12, <1>13 DEF Next

\* Once a task has cancelled rows, only servers that had begun it go on.
THEOREM CancelCorrect == Spec => []CancelSparesOnlyBegunWork
  <1> DEFINE Spared == \A t \in Tasks : NoNewServer(exec[t])
  <1>1. Init => Spared
    BY DEF Init, EmptyDatabase, EachRow, NoExecution, NoNewServer, Begun, Has
  <1>2. IInv /\ IInv' /\ Spared /\ [Next]_vars => Spared'
    BY StepsSpare
  <1>3. IInv /\ Spared => CancelSparesOnlyBegunWork
    <2> SUFFICES ASSUME IInv, Spared, NEW t \in Tasks, HasRow(t, {"CANCELLED"}),
                        NEW s \in Servers, NEW a \in Attempts,
                        exec[t][s][a].status \in Active
                 PROVE  exec[t][s][1].started
      BY DEF CancelSparesOnlyBegunWork
    <2>1. NoNewServer(exec[t]) /\ Has(exec[t], {"CANCELLED"})
      BY DEF HasRow, Has
    <2>2. Chain(task[t], exec[t])
      BY DEF IInv, TaskInv
    <2>3. CASE a = 1
      BY <2>1, <2>3 DEF NoNewServer, Begun, Active
    <2>4. CASE a # 1
      <3>1. 1 < a
        BY <2>4, TableAssumption DEF Attempts
      <3>2. exec[t][s][1].status = "FAILED"
        BY <2>2, <3>1, OneIsAttempt DEF Chain, Active
      <3> QED BY <2>1, <3>2, OneIsAttempt DEF NoNewServer, Begun
    <2> QED BY <2>3, <2>4
  <1> QED BY Invariance, <1>1, <1>2, <1>3, PTL DEF Spec


-----------------------------------------------------------------------------
(* Overlapping sessions.  An open session is judged by what its handler may *)
(* do to one row (RowWrite) and to one task (TaskWrite), by how what it has *)
(* read relates to the tables as they are now (RowPair, Current), and by    *)
(* what it may not share with another open session (Apart).                 *)

IsDatabase(d) == d.task \in [Tasks -> OpsTask] /\ d.exec \in [Tasks -> Rows]

\* A result the retry policy gives another attempt.
Retryable(r) == r.status # "SUCCESS" /\ is_retryable(r.error_type, r.words)

\* What a session makes of a row S of its snapshot, when tk is the task it
\* read and r the result the agent has for the row.
RowWrite(op, a, S, W, tk, r) ==
    \/ W = S
    \/ S.status = "ABSENT" /\ W = NewExecution
    \/ S.status = "PENDING" /\ W = mark_running(S)
    \/ S.status = "PENDING" /\ W = finish(S, "CANCELLED")
    \/ S.status = "RUNNING" /\ S.ran > 0 /\ W = mark_timeout(S)
    \/ /\ S.status \in Active /\ Retryable(r) /\ can_retry(tk, a)
       /\ W = mark_retrying(S, a)
    \/ /\ S.status \in Active /\ r # NoReport /\ ~(Retryable(r) /\ can_retry(tk, a))
       /\ \E x \in Terminal : W = finish(S, x)
    \/ /\ op = "dispatch_retries" /\ S.status = "RETRYING" /\ S.wait = 0
       /\ \E x \in {"FAILED", "DEAD"} : W = finish(S, x)

\* A row of attempt a.
RowOK(a, e) ==
    /\ ~e.gone
    /\ e.status = "ABSENT" => e = NoExecution
    /\ e.status = "PENDING" => e = NewExecution
    /\ e.status # "RUNNING" => e.ran = 0
    /\ e.wait <= backoff_seconds(a)
    /\ e.status = "RUNNING" /\ e.ran > 0 => e.wait < backoff_seconds(a)

\* A row C as it is now, against what an open session read and will write.
\* No time has passed since the session began: a row that has come to wait
\* for a retry since then has its whole backoff ahead of it.
RowPair(a, C, S, W) ==
    /\ S.status # "ABSENT" => C.status # "ABSENT"
    /\ S.status \notin {"ABSENT", "PENDING"} => C.status # "PENDING"
    /\ C.ran = S.ran \/ C.ran = 0
    /\ S.status # "RETRYING" /\ C.status = "RETRYING" => C.wait = backoff_seconds(a)
    /\ (/\ S.status # "RETRYING" /\ W.status = "RETRYING"
        /\ S.wait = backoff_seconds(a))
       => C.wait = backoff_seconds(a)
    /\ S.ran > 0 /\ C.status = "RUNNING" => C.ran > 0

\* The same row as two open sessions have read it.
RowTwo(S, T) == S.ran > 0 => T.status # "PENDING" /\ (T.status = "RUNNING" => T.ran > 0)

\* Every entry of the backoff table is at least one tick.
LEMMA BackoffPositive ==
    \A n \in Nat : backoff_seconds(n) \in Nat /\ backoff_seconds(n) > 0
  BY BackoffAssumption DEF backoff_seconds

\* The fields of a merged execution row.
LEMMA MergeRow ==
    ASSUME NEW C \in OpsTaskExecution, NEW S \in OpsTaskExecution,
           NEW W \in OpsTaskExecution
    PROVE  /\ Merge(C, S, W) \in OpsTaskExecution
           /\ Merge(C, S, W).status = IF W.status # S.status THEN W.status ELSE C.status
           /\ Merge(C, S, W).ran = IF W.ran # S.ran THEN W.ran ELSE C.ran
           /\ Merge(C, S, W).wait = IF W.wait # S.wait THEN W.wait ELSE C.wait
           /\ Merge(C, S, W).gone = IF W.gone # S.gone THEN W.gone ELSE C.gone
           /\ W = S => Merge(C, S, W) = C
           /\ C = S => Merge(C, S, W) = W
  BY DEF Merge, OpsTaskExecution

\* The fields a session may change of a row, one by one.
LEMMA WriteFields ==
    ASSUME NEW op, NEW a \in Nat, NEW S \in OpsTaskExecution, NEW W, NEW tk, NEW r,
           RowOK(a, S), RowWrite(op, a, S, W, tk, r)
    PROVE  /\ W \in OpsTaskExecution
           /\ W.gone = S.gone
           /\ W.status # S.status => W.ran = 0
           /\ W.ran = S.ran \/ W.ran = 0
           /\ S.status # "ABSENT" => W.status \notin {"ABSENT", "PENDING"} \/ W = S
           /\ S.status = "ABSENT" => W = S \/ W = NewExecution
           /\ S.status \in Terminal => W = S
           /\ W.status = S.status =>
                  \/ W = S
                  \/ S.status = "RETRYING" /\ W.wait = backoff_seconds(a) /\ W.ran = 0
           /\ W.status = "RUNNING" /\ S.status # "RUNNING" => S.status = "PENDING"
           /\ W.status = "RETRYING" =>
                  \/ W = S
                  \/ /\ S.status \in Active /\ Retryable(r) /\ can_retry(tk, a)
                     /\ W.wait = backoff_seconds(a)
           /\ W.wait = S.wait \/ W.wait = 0 \/ W.wait = backoff_seconds(a)
           /\ W.wait # S.wait =>
                  \/ W.status = "RETRYING" /\ W.wait = backoff_seconds(a)
                  \/ S.status = "RUNNING" /\ S.ran > 0
                  \/ S.status \in Active /\ ~(Retryable(r) /\ can_retry(tk, a))
  <1>0. /\ backoff_seconds(a) \in Nat
        /\ NewExecution \in OpsTaskExecution /\ NewExecution.status = "PENDING"
        /\ NewExecution.ran = 0 /\ NewExecution.wait = 0
        /\ NoExecution.status = "ABSENT" /\ NoExecution.ran = 0
        /\ NoExecution.wait = 0 /\ NewExecution.gone = NoExecution.gone
    BY BackoffPositive, NewRow DEF NewExecution, NoExecution
  <1>1. ASSUME NEW x \in Terminal
        PROVE  /\ finish(S, x) \in OpsTaskExecution /\ finish(S, x).status = x
               /\ finish(S, x).gone = S.gone
               /\ finish(S, x).ran = 0 /\ finish(S, x).wait = 0
    BY FinishRow DEF finish, OpsTaskExecution
  <1>2. /\ mark_running(S) \in OpsTaskExecution /\ mark_running(S).status = "RUNNING"
        /\ mark_running(S).gone = S.gone /\ mark_running(S).ran = 0
        /\ mark_running(S).wait = S.wait
    BY RunningRow DEF mark_running, OpsTaskExecution
  <1>3. /\ mark_retrying(S, a) \in OpsTaskExecution
        /\ mark_retrying(S, a).status = "RETRYING"
        /\ mark_retrying(S, a).gone = S.gone /\ mark_retrying(S, a).ran = 0
        /\ mark_retrying(S, a).wait = backoff_seconds(a)
    BY RetryingRow DEF mark_retrying, OpsTaskExecution
  <1>4. CASE W = S
    BY <1>4, <1>0 DEF RowOK
  <1>5. CASE S.status = "ABSENT" /\ W = NewExecution
    BY <1>5, <1>0 DEF RowOK, Terminal
  <1>6. CASE S.status = "PENDING" /\ W = mark_running(S)
    BY <1>6, <1>0, <1>2 DEF RowOK, Terminal
  <1>7. CASE S.status = "PENDING" /\ W = finish(S, "CANCELLED")
    BY <1>7, <1>0, <1>1 DEF RowOK, Terminal
  <1>8. CASE S.status = "RUNNING" /\ S.ran > 0 /\ W = mark_timeout(S)
    BY <1>8, <1>0, <1>1 DEF RowOK, Terminal, mark_timeout
  <1>9. CASE /\ S.status \in Active /\ Retryable(r) /\ can_retry(tk, a)
             /\ W = mark_retrying(S, a)
    BY <1>9, <1>0, <1>3 DEF RowOK, Terminal, Active
  <1>10. CASE /\ S.status \in Active /\ r # NoReport /\ ~(Retryable(r) /\ can_retry(tk, a))
              /\ \E x \in Terminal : W = finish(S, x)
    BY <1>10, <1>0, <1>1 DEF RowOK, Terminal, Active
  <1>11. CASE /\ op = "dispatch_retries" /\ S.status = "RETRYING" /\ S.wait = 0
              /\ \E x \in {"FAILED", "DEAD"} : W = finish(S, x)
    BY <1>11, <1>0, <1>1 DEF RowOK, Terminal, Active
  <1> QED BY <1>4, <1>5, <1>6, <1>7, <1>8, <1>9, <1>10, <1>11 DEF RowWrite

\* Committing a session leaves a row that is as it should be.
LEMMA MergeKeepsRow ==
    ASSUME NEW op, NEW a \in Nat, NEW tk, NEW r,
           NEW C \in OpsTaskExecution, NEW S \in OpsTaskExecution, NEW W,
           RowOK(a, C), RowOK(a, S), RowWrite(op, a, S, W, tk, r),
           RowPair(a, C, S, W),
           S.status = "ABSENT" /\ W.status # "ABSENT" => C.status = "ABSENT"
    PROVE  /\ Merge(C, S, W) \in OpsTaskExecution
           /\ RowOK(a, Merge(C, S, W))
  <1> DEFINE M == Merge(C, S, W)
             b == backoff_seconds(a)
  <1>0. /\ b \in Nat /\ b > 0
        /\ NewExecution.status = "PENDING" /\ NewExecution.ran = 0
        /\ NewExecution.wait = 0
        /\ NoExecution.status = "ABSENT" /\ NoExecution.ran = 0
        /\ NoExecution.wait = 0
    BY BackoffPositive, NewRow DEF NewExecution, NoExecution
  <1>1. /\ W \in OpsTaskExecution
        /\ W.gone = S.gone
        /\ W.status # S.status => W.ran = 0
        /\ W.ran = S.ran \/ W.ran = 0
        /\ S.status # "ABSENT" => W.status \notin {"ABSENT", "PENDING"} \/ W = S
        /\ S.status = "ABSENT" => W = S \/ W = NewExecution
        /\ W.status = S.status =>
               \/ W = S
               \/ S.status = "RETRYING" /\ W.wait = b /\ W.ran = 0
        /\ W.status = "RUNNING" /\ S.status # "RUNNING" => S.status = "PENDING"
        /\ W.wait = S.wait \/ W.wait = 0 \/ W.wait = b
    BY WriteFields
  <1>2. /\ M \in OpsTaskExecution
        /\ M.status = IF W.status # S.status THEN W.status ELSE C.status
        /\ M.ran = IF W.ran # S.ran THEN W.ran ELSE C.ran
        /\ M.wait = IF W.wait # S.wait THEN W.wait ELSE C.wait
        /\ M.gone = IF W.gone # S.gone THEN W.gone ELSE C.gone
        /\ W = S => M = C
        /\ C = S => M = W
    BY <1>1, MergeRow
  <1>3. /\ C.ran \in Nat /\ S.ran \in Nat /\ W.ran \in Nat
        /\ C.wait \in Nat /\ S.wait \in Nat /\ W.wait \in Nat
    BY <1>1 DEF OpsTaskExecution
  <1> HIDE DEF M, b
  <1>4. ~M.gone
    BY <1>1, <1>2 DEF RowOK
  <1>5. M.status = "ABSENT" => M = NoExecution
    <2> SUFFICES ASSUME M.status = "ABSENT" PROVE M = NoExecution
      OBVIOUS
    <2>1. W.status = S.status /\ C.status = "ABSENT"
      BY <1>0, <1>1, <1>2
    <2>2. S.status = "ABSENT"
      BY <2>1 DEF RowPair
    <2> QED BY <2>1, <2>2, <1>0, <1>1, <1>2 DEF RowOK
  <1>6. M.status = "PENDING" => M = NewExecution
    <2> SUFFICES ASSUME M.status = "PENDING" PROVE M = NewExecution
      OBVIOUS
    <2>1. CASE W.status # S.status
      <3>1. S.status = "ABSENT" /\ W = NewExecution
        BY <2>1, <1>1, <1>2, <1>0
      <3>2. C = NoExecution /\ S = NoExecution
        BY <3>1, <1>0 DEF RowOK
      <3> QED BY <3>1, <3>2, <1>2
    <2>2. CASE W.status = S.status
      <3>1. C.status = "PENDING"
        BY <2>2, <1>2
      <3>2. S.status \in {"ABSENT", "PENDING"}
        BY <3>1 DEF RowPair
      <3>3. W = S
        BY <3>2, <2>2, <1>1
      <3> QED BY <3>1, <3>3, <1>2 DEF RowOK
    <2> QED BY <2>1, <2>2
  <1>7. M.status # "RUNNING" => M.ran = 0
    BY <1>1, <1>2, <1>3 DEF RowOK, RowPair
  <1>8. M.wait <= b
    BY <1>0, <1>1, <1>2, <1>3 DEF RowOK, b
  <1>9. M.status = "RUNNING" /\ M.ran > 0 => M.wait < b
    <2> SUFFICES ASSUME M.status = "RUNNING", M.ran > 0 PROVE M.wait < b
      OBVIOUS
    <2>1. W.status = S.status
      <3> SUFFICES ASSUME W.status # S.status PROVE FALSE
        OBVIOUS
      <3>1. S.status = "PENDING" /\ W.ran = 0
        BY <1>1, <1>2
      <3>2. S.ran = 0
        BY <3>1 DEF RowOK
      <3> QED BY <3>1, <3>2, <1>2, <1>3 DEF RowPair
    <2>2. C.status = "RUNNING" /\ M.ran = C.ran /\ C.wait < b
      BY <2>1, <1>1, <1>2, <1>3 DEF RowOK, b
    <2>3. CASE W = S
      BY <2>2, <2>3, <1>2
    <2>4. CASE S.status = "RETRYING"
      <3>1. S.ran = 0
        BY <2>4 DEF RowOK
      <3> QED BY <3>1, <2>2, <1>3 DEF RowPair
    <2> QED BY <2>1, <2>3, <2>4, <1>1
  <1> QED BY <1>2, <1>4, <1>5, <1>6, <1>7, <1>8, <1>9 DEF RowOK, M, b

\* Committing session 2 leaves session 1 with a row it can still write: both
\* are judged by the same budget, so a row one of them sends to a retry the
\* other does not end.
LEMMA MergeKeepsPair ==
    ASSUME NEW a \in Nat, NEW r, NEW C \in OpsTaskExecution,
           NEW op1, NEW tk1, NEW S1 \in OpsTaskExecution, NEW W1,
           NEW op2, NEW tk2, NEW S2 \in OpsTaskExecution, NEW W2,
           RowOK(a, C), RowOK(a, S1), RowOK(a, S2),
           RowWrite(op1, a, S1, W1, tk1, r), RowWrite(op2, a, S2, W2, tk2, r),
           RowPair(a, C, S1, W1), RowPair(a, C, S2, W2),
           RowTwo(S1, S2), RowTwo(S2, S1),
           S1.status # "ABSENT" /\ S2.status # "ABSENT" =>
               (can_retry(tk1, a) <=> can_retry(tk2, a)),
           S2.status = "ABSENT" /\ W2.status # "ABSENT" => C.status = "ABSENT"
    PROVE  RowPair(a, Merge(C, S2, W2), S1, W1)
  <1> DEFINE M == Merge(C, S2, W2)
             b == backoff_seconds(a)
  <1>0. /\ b \in Nat /\ b > 0
        /\ NewExecution.status = "PENDING" /\ NewExecution.ran = 0
        /\ NewExecution.wait = 0
    BY BackoffPositive, NewRow DEF NewExecution, NoExecution
  <1>1. /\ W2 \in OpsTaskExecution
        /\ W2.status # S2.status => W2.ran = 0
        /\ W2.ran = S2.ran \/ W2.ran = 0
        /\ S2.status # "ABSENT" => W2.status \notin {"ABSENT", "PENDING"} \/ W2 = S2
        /\ S2.status = "ABSENT" => W2 = S2 \/ W2 = NewExecution
        /\ W2.status = S2.status =>
               \/ W2 = S2
               \/ S2.status = "RETRYING" /\ W2.wait = b /\ W2.ran = 0
        /\ W2.status = "RUNNING" /\ S2.status # "RUNNING" => S2.status = "PENDING"
        /\ W2.status = "RETRYING" => W2 = S2 \/ W2.wait = b
        /\ W2.wait # S2.wait =>
               \/ W2.status = "RETRYING" /\ W2.wait = b
               \/ S2.status = "RUNNING" /\ S2.ran > 0
               \/ S2.status \in Active /\ ~(Retryable(r) /\ can_retry(tk2, a))
    BY WriteFields
  <1>2. /\ M \in OpsTaskExecution
        /\ M.status = IF W2.status # S2.status THEN W2.status ELSE C.status
        /\ M.ran = IF W2.ran # S2.ran THEN W2.ran ELSE C.ran
        /\ M.wait = IF W2.wait # S2.wait THEN W2.wait ELSE C.wait
    BY <1>1, MergeRow
  <1>3. /\ C.ran \in Nat /\ S1.ran \in Nat /\ S2.ran \in Nat /\ W2.ran \in Nat
        /\ C.wait \in Nat /\ S1.wait \in Nat /\ S2.wait \in Nat /\ W2.wait \in Nat
    BY <1>1 DEF OpsTaskExecution
  <1>4. W1.status = "RETRYING" =>
            \/ W1 = S1
            \/ S1.status \in Active /\ Retryable(r) /\ can_retry(tk1, a)
    BY WriteFields
  <1> HIDE DEF M, b
  <1>5. S1.status # "ABSENT" => M.status # "ABSENT"
    BY <1>0, <1>1, <1>2 DEF RowPair
  <1>6. S1.status \notin {"ABSENT", "PENDING"} => M.status # "PENDING"
    BY <1>0, <1>1, <1>2 DEF RowPair
  <1>7. M.ran = S1.ran \/ M.ran = 0
    BY <1>1, <1>2 DEF RowPair
  <1>8. S1.status # "RETRYING" /\ M.status = "RETRYING" => M.wait = b
    <2> SUFFICES ASSUME S1.status # "RETRYING", M.status = "RETRYING" PROVE M.wait = b
      OBVIOUS
    <2>1. CASE W2.status # S2.status
      <3>1. W2.status = "RETRYING" /\ W2.wait = b
        BY <2>1, <1>1, <1>2
      <3>2. CASE S2.wait = b
        BY <2>1, <3>1, <3>2, <1>2 DEF RowPair, b
      <3>3. CASE S2.wait # b
        BY <3>1, <3>3, <1>2
      <3> QED BY <3>2, <3>3
    <2>2. CASE W2.status = S2.status
      <3>1. C.status = "RETRYING" /\ C.wait = b
        BY <2>2, <1>2 DEF RowPair, b
      <3> QED BY <2>2, <3>1, <1>1, <1>2
    <2> QED BY <2>1, <2>2
  <1>9. S1.status # "RETRYING" /\ W1.status = "RETRYING" /\ S1.wait = b => M.wait = b
    <2> SUFFICES ASSUME S1.status # "RETRYING", W1.status = "RETRYING", S1.wait = b,
                        M.wait # b
                 PROVE FALSE
      OBVIOUS
    <2>1. C.wait = b
      BY DEF RowPair, b
    <2>2. W2.wait # S2.wait /\ W2.wait # b
      BY <2>1, <1>2
    <2>3. S1.status \in Active /\ Retryable(r) /\ can_retry(tk1, a)
      BY <1>4
    <2>4. S1.status = "RUNNING"
      BY <2>3, <1>0 DEF Active, RowOK
    <2>5. CASE S2.status = "RUNNING" /\ S2.ran > 0
      <3>1. S1.ran > 0
        BY <2>4, <2>5 DEF RowTwo
      <3> QED BY <2>4, <3>1, <1>0, <1>3 DEF RowOK, b
    <2>6. CASE S2.status \in Active /\ ~(Retryable(r) /\ can_retry(tk2, a))
      BY <2>3, <2>4, <2>6 DEF Active
    <2> QED BY <2>2, <2>5, <2>6, <1>1
  <1>10. S1.ran > 0 /\ M.status = "RUNNING" => M.ran > 0
    <2> SUFFICES ASSUME S1.ran > 0, M.status = "RUNNING" PROVE M.ran > 0
      OBVIOUS
    <2>1. W2.status = S2.status
      BY <1>1, <1>2 DEF RowTwo
    <2>2. C.status = "RUNNING" /\ C.ran > 0
      BY <2>1, <1>2 DEF RowPair
    <2>3. W2.ran = S2.ran
      BY <2>1, <1>1 DEF RowOK
    <2> QED BY <2>2, <2>3, <1>2
  <1> QED BY <1>5, <1>6, <1>7, <1>8, <1>9, <1>10 DEF RowPair, M, b

\* What no handler changes of a task that exists, and decides a retry.
SameBudget(tk, uk) ==
    /\ tk.key = uk.key /\ tk.targets = uk.targets
    /\ tk.left = uk.left /\ tk.max_attempts = uk.max_attempts

Creates(x, t) == x.snap.task[t].status = "ABSENT" /\ x.new.task[t].status # "ABSENT"

Inserts(x, t, s, a) ==
    x.snap.exec[t][s][a].status = "ABSENT" /\ x.new.exec[t][s][a].status # "ABSENT"

TaskWrite(op, S, W) ==
    \/ /\ SameBudget(W, S)
       /\ TaskExists(W) <=> TaskExists(S)
       /\ S.status = "ABSENT" => W = S
    \/ op = "create" /\ S.status = "ABSENT" /\ TaskExists(W)

\* A first attempt is inserted for a target, a further one by the dispatch of
\* one that waits for it and fails by that.
InsertOK(x, t, s, a) ==
    Inserts(x, t, s, a) =>
        \/ a = 1 /\ s \in x.new.task[t].targets /\ TaskExists(x.new.task[t])
        \/ /\ a > 1 /\ x.op = "dispatch_retries"
           /\ x.snap.exec[t][s][a - 1].status = "RETRYING"
           /\ x.snap.exec[t][s][a - 1].wait = 0
           /\ x.new.exec[t][s][a - 1].status = "FAILED"
           /\ can_retry(x.snap.task[t], a - 1)

\* r is what the agents have to report.
Wrote(x, r) ==
    /\ \A t \in Tasks : TaskWrite(x.op, x.snap.task[t], x.new.task[t])
    /\ \A t, u \in Tasks : Creates(x, t) /\ Creates(x, u) => t = u
    /\ \A t \in Tasks, s \in Servers, a \in Attempts :
           /\ RowWrite(x.op, a, x.snap.exec[t][s][a], x.new.exec[t][s][a],
                       x.snap.task[t], r[t][s][a])
           /\ InsertOK(x, t, s, a)

\* The tables, as every session finds them.
TableOK(d) ==
    /\ \A t \in Tasks : /\ d.task[t].status # "DELETED"
                        /\ d.task[t].status = "ABSENT" => d.task[t] = NoTask
    /\ \A t \in Tasks, s \in Servers, a \in Attempts :
           /\ RowOK(a, d.exec[t][s][a])
           /\ d.exec[t][s][a].status # "ABSENT" => TaskExists(d.task[t])
    /\ \A t \in Tasks : Chain(d.task[t], d.exec[t])

\* What a session that starts now would be.
Started(op, new) == [op |-> op, snap |-> db, new |-> new]

-----------------------------------------------------------------------------
(* The handlers write what Wrote allows *)

\* Attempts are positive numbers, and all but the first have a predecessor.
LEMMA AttemptNumbers ==
    \A a \in Attempts : /\ a \in Nat /\ a >= 1
                        /\ a # 1 => a > 1
                        /\ a > 1 => a - 1 \in Attempts /\ a - 1 < a
  BY TableAssumption DEF Attempts

\* A task whose row the service aggregates again still exists.
LEMMA AggregateExists ==
    ASSUME NEW tk \in OpsTask, TaskExists(tk), NEW rows \in Rows
    PROVE  /\ aggregate_task_status(tk, rows) \in OpsTask
           /\ TaskWrite("any", tk, aggregate_task_status(tk, rows))
  <1>1. aggregated_status(latest_statuses(rows)) \in Active \cup Terminal
    BY DEF aggregated_status, Active, Terminal
  <1> QED BY <1>1 DEF aggregate_task_status, OpsTask, TaskWrite, SameBudget,
                      TaskExists, Active, Terminal

\* A task that is set running keeps its budget.
LEMMA TaskRuns ==
    ASSUME NEW tk \in OpsTask, TaskExists(tk)
    PROVE  /\ [tk EXCEPT !.status = "RUNNING"] \in OpsTask
           /\ TaskWrite("any", tk, [tk EXCEPT !.status = "RUNNING"])
  <1> DEFINE uk == [tk EXCEPT !.status = "RUNNING"]
  <1>1. uk \in OpsTask /\ uk.status = "RUNNING" /\ SameBudget(uk, tk)
    BY DEF OpsTask, SameBudget, Active
  <1> QED BY <1>1 DEF TaskWrite, TaskExists

\* Tables given row by row are tables.
LEMMA TablesOf ==
    ASSUME NEW d,
           d.task = [t \in Tasks |-> d.task[t]],
           d.exec = [t \in Tasks |-> [s \in Servers |-> [a \in Attempts |-> d.exec[t][s][a]]]],
           \A t \in Tasks : d.task[t] \in OpsTask,
           \A t \in Tasks, s \in Servers, a \in Attempts : d.exec[t][s][a] \in OpsTaskExecution
    PROVE  IsDatabase(d)
  <1>1. d.task \in [Tasks -> OpsTask]
    OBVIOUS
  <1>2. \A t \in Tasks : [s \in Servers |-> [a \in Attempts |-> d.exec[t][s][a]]] \in Rows
    BY DEF Rows
  <1>3. d.exec \in [Tasks -> Rows]
    BY <1>2
  <1> QED BY <1>1, <1>3 DEF IsDatabase

\* The tables as they are now.
LEMMA DbFields == db.task = task /\ db.exec = exec
  BY DEF db

\* The fields of a session that starts now.
LEMMA StartedFields ==
    ASSUME NEW op, NEW new
    PROVE  /\ Started(op, new).op = op
           /\ Started(op, new).snap = db
           /\ Started(op, new).new = new
           /\ db.task = task
           /\ db.exec = exec
  BY DEF Started, db

\* Task by task and row by row.
LEMMA StartedWrote ==
    ASSUME NEW op, NEW new,
           \A t \in Tasks : TaskWrite(op, task[t], new.task[t]),
           \A t, u \in Tasks :
               /\ task[t].status = "ABSENT" /\ new.task[t].status # "ABSENT"
               /\ task[u].status = "ABSENT" /\ new.task[u].status # "ABSENT"
               => t = u,
           \A t \in Tasks, s \in Servers, a \in Attempts :
               /\ RowWrite(op, a, exec[t][s][a], new.exec[t][s][a], task[t], sent[t][s][a])
               /\ InsertOK(Started(op, new), t, s, a)
    PROVE  Wrote(Started(op, new), sent)
  BY StartedFields DEF Wrote, Creates

\* A handler that creates no task and inserts no row.
LEMMA StartedPlain ==
    ASSUME NEW op, NEW new, TypeOK,
           \A t \in Tasks : TaskWrite("any", task[t], new.task[t]),
           \A t \in Tasks, s \in Servers, a \in Attempts :
               /\ RowWrite(op, a, exec[t][s][a], new.exec[t][s][a], task[t], sent[t][s][a])
               /\ exec[t][s][a].status = "ABSENT" => new.exec[t][s][a].status = "ABSENT"
    PROVE  Wrote(Started(op, new), sent)
  <1>1. \A t \in Tasks : TaskWrite(op, task[t], new.task[t])
    BY DEF TaskWrite
  <1>2. \A t \in Tasks : task[t].status = "ABSENT" => new.task[t].status = "ABSENT"
    BY DEF TaskWrite
  <1>3. \A t \in Tasks, s \in Servers, a \in Attempts : InsertOK(Started(op, new), t, s, a)
    BY StartedFields DEF InsertOK, Inserts
  <1> QED BY <1>1, <1>2, <1>3, StartedWrote

\* create_task: a task and its first attempts.
LEMMA CreateWrites ==
    ASSUME TypeOK, TableOK(db), NEW t \in Tasks, NEW data \in TaskCreate,
           task[t].status = "ABSENT"
    PROVE  /\ IsDatabase(create_task(db, t, data))
           /\ Wrote(Started("create", create_task(db, t, data)), sent)
           /\ \A u \in Tasks : Creates(Started("create", create_task(db, t, data)), u) => u = t
  <1> DEFINE new == create_task(db, t, data)
             rows == [s \in Servers |-> [a \in Attempts |->
                         IF data.schedule = "ONCE" /\ s \in data.targets /\ a = 1
                         THEN NewExecution ELSE NoExecution]]
             tk == new.task[t]
  <1> USE DEF TypeOK
  <1>1. /\ new.exec = [exec EXCEPT ![t] = rows]
        /\ new.task = [task EXCEPT ![t] = tk]
    BY DEF create_task, db
  <1>2. /\ tk \in OpsTask
        /\ tk.targets = data.targets
        /\ TaskExists(tk)
    <2>2. /\ data.schedule \in {"ONCE", "CRON"} /\ data.cron_valid \in BOOLEAN
          /\ data.cron_delay \in Nat /\ data.timeout \in Nat
          /\ data.max_attempts \in Nat /\ data.max_attempts \in Attempts
          /\ data.targets \in SUBSET Servers /\ data.targets # {}
          /\ data.key \in Keys \cup {NoKey}
      BY InputFields
    <2>3. confirm_required(data) \in BOOLEAN
      BY DEF confirm_required
    <2>4. data.timeout * data.max_attempts \in Nat
      BY <2>2, BudgetIsNat
    <2>5. tk = [status |-> IF data.schedule = "CRON" \/ confirm_required(data)
                           THEN "CREATED" ELSE "PENDING",
                schedule |-> data.schedule, cron_valid |-> data.cron_valid,
                cron_wait |-> IF data.schedule = "CRON" THEN data.cron_delay ELSE 0,
                targets |-> data.targets, max_attempts |-> data.max_attempts,
                timeout |-> data.timeout, left |-> data.timeout * data.max_attempts,
                key |-> data.key, confirm_required |-> confirm_required(data),
                confirmed |-> FALSE, ended |-> 0]
      BY DEF create_task, db
    <2> HIDE DEF tk
    <2> QED BY <2>2, <2>3, <2>4, <2>5 DEF OpsTask, TaskExists, Active
  <1>3. rows \in Rows
    BY NewRow DEF Rows
  <1>4. \A s \in Servers, a \in Attempts : exec[t][s][a] = NoExecution
    <2>1. \A s \in Servers, a \in Attempts : exec[t][s][a].status = "ABSENT"
      BY DbFields DEF TableOK, TaskExists
    <2> QED BY <2>1, DbFields DEF TableOK, RowOK
  <1>5. \A s \in Servers, a \in Attempts :
            \/ rows[s][a] = NoExecution
            \/ rows[s][a] = NewExecution /\ a = 1 /\ s \in data.targets
    OBVIOUS
  <1> HIDE DEF rows, tk, new
  <1>6. IsDatabase(new)
    BY <1>1, <1>2, <1>3 DEF IsDatabase, Rows
  <1>7. /\ new.task[t] = tk /\ new.exec[t] = rows
        /\ \A u \in Tasks : u # t => new.task[u] = task[u] /\ new.exec[u] = exec[u]
    BY <1>1
  <1>8. \A u \in Tasks : TaskWrite("create", task[u], new.task[u])
    BY <1>2, <1>7 DEF TaskWrite, SameBudget
  <1>9. \A u \in Tasks : task[u].status = "ABSENT" /\ new.task[u].status # "ABSENT" => u = t
    BY <1>7
  <1>10. ASSUME NEW u \in Tasks, NEW s \in Servers, NEW a \in Attempts
         PROVE  /\ RowWrite("create", a, exec[u][s][a], new.exec[u][s][a], task[u], sent[u][s][a])
                /\ InsertOK(Started("create", new), u, s, a)
    <2>1. CASE u # t
      BY <2>1, <1>7, StartedFields DEF RowWrite, InsertOK, Inserts
    <2>2. CASE u = t
      <3>1. RowWrite("create", a, exec[t][s][a], rows[s][a], task[t], sent[t][s][a])
        BY <1>4, <1>5, NewRow DEF RowWrite
      <3>2. InsertOK(Started("create", new), t, s, a)
        BY <1>2, <1>5, <1>7, StartedFields, NewRow DEF InsertOK, Inserts
      <3> QED BY <2>2, <3>1, <3>2, <1>7
    <2> QED BY <2>1, <2>2
  <1>11. Wrote(Started("create", new), sent)
    BY <1>8, <1>9, <1>10, StartedWrote
  <1>12. \A u \in Tasks : Creates(Started("create", new), u) => u = t
    BY <1>9, StartedFields DEF Creates
  <1> QED BY <1>6, <1>11, <1>12 DEF new

\* confirm_task: one task row.
LEMMA ConfirmWrites ==
    ASSUME TypeOK, TableOK(db), NEW t \in Tasks, task[t].status = "CREATED"
    PROVE  /\ IsDatabase(confirm_task(db, t))
           /\ Wrote(Started("confirm", confirm_task(db, t)), sent)
  <1> DEFINE new == confirm_task(db, t)
             tk == [task[t] EXCEPT !.status = "PENDING", !.confirmed = TRUE]
  <1> USE DEF TypeOK
  <1>1. /\ new.exec = exec
        /\ new.task = [task EXCEPT ![t] = tk]
    BY DEF confirm_task, db
  <1>2. tk \in OpsTask /\ TaskWrite("any", task[t], tk)
    <2>1. /\ tk \in OpsTask /\ tk.status = "PENDING" /\ SameBudget(tk, task[t])
      BY DEF OpsTask, SameBudget, Active
    <2> QED BY <2>1 DEF TaskWrite, TaskExists
  <1> HIDE DEF new, tk
  <1>3. IsDatabase(new)
    BY <1>1, <1>2 DEF IsDatabase, Rows
  <1>4. \A u \in Tasks : TaskWrite("any", task[u], new.task[u])
    BY <1>1, <1>2 DEF TaskWrite, SameBudget
  <1>5. \A u \in Tasks, s \in Servers, a \in Attempts :
            RowWrite("confirm", a, exec[u][s][a], new.exec[u][s][a], task[u], sent[u][s][a])
    BY <1>1 DEF RowWrite
  <1>6. Wrote(Started("confirm", new), sent)
    BY <1>1, <1>4, <1>5, StartedPlain
  <1> QED BY <1>3, <1>6 DEF new

\* cancel_task: the executions nobody has fetched, and the task.
LEMMA CancelWrites ==
    ASSUME TypeOK, TableOK(db), NEW t \in Tasks, TaskExists(task[t])
    PROVE  /\ IsDatabase(cancel_task(db, t))
           /\ Wrote(Started("cancel", cancel_task(db, t)), sent)
  <1> DEFINE new == cancel_task(db, t)
             rows == cancelled_rows(exec[t])
             tk == aggregate_task_status(task[t], rows)
  <1> USE DEF TypeOK
  <1>1. /\ new.exec = [exec EXCEPT ![t] = rows]
        /\ new.task = [task EXCEPT ![t] = tk]
    BY DEF cancel_task, db
  <1>2. rows \in Rows
    BY FinishRow DEF cancelled_rows, Rows, Terminal
  <1>3. \A s \in Servers, a \in Attempts :
            \/ rows[s][a] = exec[t][s][a]
            \/ exec[t][s][a].status = "PENDING" /\ rows[s][a] = finish(exec[t][s][a], "CANCELLED")
    BY DEF cancelled_rows
  <1> HIDE DEF rows
  <1>4. tk \in OpsTask /\ TaskWrite("any", task[t], tk)
    BY <1>2, AggregateExists
  <1> HIDE DEF new, tk
  <1>5. IsDatabase(new)
    BY <1>1, <1>2, <1>4 DEF IsDatabase, Rows
  <1>6. \A u \in Tasks : TaskWrite("any", task[u], new.task[u])
    BY <1>1, <1>4 DEF TaskWrite, SameBudget
  <1>7. \A u \in Tasks, s \in Servers, a \in Attempts :
            /\ RowWrite("cancel", a, exec[u][s][a], new.exec[u][s][a], task[u], sent[u][s][a])
            /\ exec[u][s][a].status = "ABSENT" => new.exec[u][s][a].status = "ABSENT"
    <2> SUFFICES ASSUME NEW u \in Tasks, NEW s \in Servers, NEW a \in Attempts
                 PROVE  /\ RowWrite("cancel", a, exec[u][s][a], new.exec[u][s][a],
                                    task[u], sent[u][s][a])
                        /\ exec[u][s][a].status = "ABSENT" => new.exec[u][s][a].status = "ABSENT"
      OBVIOUS
    <2>1. new.exec[t] = rows /\ (u # t => new.exec[u] = exec[u])
      BY <1>1
    <2>2. CASE u # t
      BY <2>1, <2>2 DEF RowWrite
    <2>3. CASE u = t
      <3>1. RowWrite("cancel", a, exec[t][s][a], rows[s][a], task[t], sent[t][s][a])
        BY <1>3 DEF RowWrite
      <3> QED BY <2>1, <2>3, <3>1, <1>3
    <2> QED BY <2>2, <2>3
  <1>8. Wrote(Started("cancel", new), sent)
    BY <1>6, <1>7, StartedPlain
  <1> QED BY <1>5, <1>8 DEF new

\* fetch_pending: the executions of the batch start, their tasks run.
LEMMA FetchWrites ==
    ASSUME TypeOK, TableOK(db), NEW q \in Servers,
           NEW batch \in SUBSET fetch_pending_by_server(db, q)
    PROVE  /\ IsDatabase(fetch_pending(db, q, batch))
           /\ Wrote(Started("fetch", fetch_pending(db, q, batch)), sent)
  <1> DEFINE new == fetch_pending(db, q, batch)
  <1> USE DEF TypeOK
  <1>1. /\ new.task = [t \in Tasks |->
                         IF \E a \in Attempts : <<t, a>> \in batch
                         THEN [task[t] EXCEPT !.status = "RUNNING"] ELSE task[t]]
        /\ new.exec = [t \in Tasks |-> [s \in Servers |-> [a \in Attempts |->
                         IF s = q /\ <<t, a>> \in batch
                         THEN mark_running(exec[t][s][a]) ELSE exec[t][s][a]]]]
    BY DEF fetch_pending, db, EachRow
  <1>2. \A t \in Tasks, a \in Attempts : <<t, a>> \in batch =>
            /\ exec[t][q][a].status = "PENDING"
            /\ task[t].status \in {"PENDING", "RUNNING"}
    BY DEF fetch_pending_by_server, db
  <1>3. ASSUME NEW t \in Tasks
        PROVE  new.task[t] \in OpsTask /\ TaskWrite("any", task[t], new.task[t])
    <2>1. CASE new.task[t] = task[t]
      BY <2>1 DEF TaskWrite, SameBudget
    <2>2. CASE /\ task[t].status \in {"PENDING", "RUNNING"}
               /\ new.task[t] = [task[t] EXCEPT !.status = "RUNNING"]
      <3> HIDE DEF new
      <3> QED BY <2>2, TaskRuns DEF TaskExists
    <2> QED BY <1>1, <1>2, <2>1, <2>2
  <1>4. ASSUME NEW t \in Tasks, NEW s \in Servers, NEW a \in Attempts
        PROVE  /\ new.exec[t][s][a] \in OpsTaskExecution
               /\ RowWrite("fetch", a, exec[t][s][a], new.exec[t][s][a], task[t], sent[t][s][a])
               /\ exec[t][s][a].status = "ABSENT" => new.exec[t][s][a].status = "ABSENT"
    <2>1. \/ new.exec[t][s][a] = exec[t][s][a]
          \/ exec[t][s][a].status = "PENDING" /\ new.exec[t][s][a] = mark_running(exec[t][s][a])
      BY <1>1, <1>2
    <2> HIDE DEF new
    <2> QED BY <2>1, RunningRow DEF RowWrite
  <1>5. IsDatabase(new)
    <2>1. \A t \in Tasks : new.task[t] \in OpsTask
      BY <1>3
    <2>2. \A t \in Tasks, s \in Servers, a \in Attempts : new.exec[t][s][a] \in OpsTaskExecution
      BY <1>4
    <2>3. /\ new.task = [t \in Tasks |-> new.task[t]]
          /\ new.exec = [t \in Tasks |-> [s \in Servers |-> [a \in Attempts |-> new.exec[t][s][a]]]]
      BY <1>1
    <2> HIDE DEF new
    <2> QED BY <2>1, <2>2, <2>3, TablesOf
  <1>6. Wrote(Started("fetch", new), sent)
    BY <1>3, <1>4, StartedPlain
  <1> QED BY <1>5, <1>6

\* report_result: one execution, sent to a retry or ended by the policy, and
\* the task.
LEMMA ReportWrites ==
    ASSUME TypeOK, TableOK(db), NEW t \in Tasks, NEW s \in Servers, NEW a \in Attempts,
           sent[t][s][a] # NoReport, Stored(exec[t][s][a]),
           exec[t][s][a].status \notin Terminal
    PROVE  /\ IsDatabase(report_result(db, t, s, a, sent[t][s][a]))
           /\ Wrote(Started("report", report_result(db, t, s, a, sent[t][s][a])), sent)
  <1> DEFINE new == report_result(db, t, s, a, sent[t][s][a])
             old == exec[t][s][a]
             r == sent[t][s][a]
             e == reported_row(task[t], old, a, r)
             rows == [exec[t] EXCEPT ![s][a] = e]
             tk == aggregate_task_status(task[t], rows)
  <1> USE DEF TypeOK
  <1>1. /\ new.exec = [exec EXCEPT ![t] = rows]
        /\ new.task = [task EXCEPT ![t] = tk]
    BY DEF report_result, db
  <1>2. old \in OpsTaskExecution /\ old.status \in Active /\ a \in Nat
    BY AttemptNumbers DEF Stored, OpsTaskExecution
  <1>3. /\ e \in OpsTaskExecution
        /\ e.status # "ABSENT"
        /\ RowWrite("report", a, old, e, task[t], r)
    <2>1. CASE r.status = "SUCCESS"
      <3>1. e = finish(old, "SUCCESS")
        BY <2>1 DEF reported_row
      <3>2. ~Retryable(r)
        BY <2>1 DEF Retryable
      <3> HIDE DEF e, old, r
      <3>3. "SUCCESS" \in Terminal
        BY DEF Terminal
      <3>4. r # NoReport
        BY DEF r
      <3> QED BY <3>1, <3>2, <3>3, <3>4, <1>2, FinishRow DEF RowWrite
    <2>2. CASE r.status # "SUCCESS" /\ ~is_retryable(r.error_type, r.words)
      <3>1. e = finish(old, "FAILED")
        BY <2>2 DEF reported_row
      <3>2. ~Retryable(r)
        BY <2>2 DEF Retryable
      <3> HIDE DEF e, old, r
      <3>3. "FAILED" \in Terminal
        BY DEF Terminal
      <3>4. r # NoReport
        BY DEF r
      <3> QED BY <3>1, <3>2, <3>3, <3>4, <1>2, FinishRow DEF RowWrite
    <2>3. CASE r.status # "SUCCESS" /\ is_retryable(r.error_type, r.words) /\ can_retry(task[t], a)
      <3>1. e = mark_retrying(old, a)
        BY <2>3 DEF reported_row
      <3>2. Retryable(r)
        BY <2>3 DEF Retryable
      <3> HIDE DEF e, old, r
      <3> QED BY <2>3, <3>1, <3>2, <1>2, RetryingRow DEF RowWrite
    <2>4. CASE r.status # "SUCCESS" /\ is_retryable(r.error_type, r.words) /\ ~can_retry(task[t], a)
      <3>1. e = finish(old, "DEAD")
        BY <2>4 DEF reported_row, mark_dead
      <3> HIDE DEF e, old, r
      <3>3. "DEAD" \in Terminal
        BY DEF Terminal
      <3>4. r # NoReport
        BY DEF r
      <3> QED BY <2>4, <3>1, <3>3, <3>4, <1>2, FinishRow DEF RowWrite
    <2> QED BY <2>1, <2>2, <2>3, <2>4
  <1> HIDE DEF e
  <1>4. rows \in Rows /\ rows[s][a] = e
    BY <1>3 DEF Rows
  <1>5. \A q \in Servers, b \in Attempts : (q = s /\ b = a) \/ rows[q][b] = exec[t][q][b]
    OBVIOUS
  <1>6. TaskExists(task[t])
    BY DbFields DEF TableOK, Stored
  <1> HIDE DEF rows
  <1>7. tk \in OpsTask /\ TaskWrite("any", task[t], tk)
    BY <1>4, <1>6, AggregateExists
  <1> HIDE DEF new, tk
  <1>8. IsDatabase(new)
    BY <1>1, <1>4, <1>7 DEF IsDatabase, Rows
  <1>9. \A u \in Tasks : TaskWrite("any", task[u], new.task[u])
    BY <1>1, <1>7 DEF TaskWrite, SameBudget
  <1>10. ASSUME NEW u \in Tasks, NEW q \in Servers, NEW b \in Attempts
         PROVE  /\ RowWrite("report", b, exec[u][q][b], new.exec[u][q][b], task[u], sent[u][q][b])
                /\ exec[u][q][b].status = "ABSENT" => new.exec[u][q][b].status = "ABSENT"
    <2>1. new.exec[t] = rows /\ (u # t => new.exec[u] = exec[u])
      BY <1>1
    <2>2. CASE u # t \/ q # s \/ b # a
      <3>1. new.exec[u][q][b] = exec[u][q][b]
        BY <2>1, <2>2, <1>5
      <3> QED BY <3>1 DEF RowWrite
    <2>3. CASE u = t /\ q = s /\ b = a
      BY <2>1, <2>3, <1>2, <1>3, <1>4 DEF Active
    <2> QED BY <2>2, <2>3
  <1>11. Wrote(Started("report", new), sent)
    BY <1>9, <1>10, StartedPlain
  <1> QED BY <1>8, <1>11 DEF new

\* scan_timeouts: executions past their timeout, and the tasks of them.
LEMMA ScanWrites ==
    ASSUME TypeOK, TableOK(db)
    PROVE  /\ IsDatabase(scan_timeouts(db))
           /\ Wrote(Started("scan_timeouts", scan_timeouts(db)), sent)
  <1> DEFINE new == scan_timeouts(db)
             expired(t) == IF task[t].status = "RUNNING" THEN expired_rows(db, t) ELSE {}
             rows(t) == [s \in Servers |-> [a \in Attempts |->
                            IF <<s, a>> \in expired(t)
                            THEN mark_timeout(exec[t][s][a]) ELSE exec[t][s][a]]]
  <1> USE DEF TypeOK
  <1>1. /\ new.exec = [t \in Tasks |-> rows(t)]
        /\ new.task = [t \in Tasks |->
               IF expired(t) # {} THEN aggregate_task_status(task[t], rows(t)) ELSE task[t]]
    BY DEF scan_timeouts, db, EachRow
  <1>2. ASSUME NEW t \in Tasks, NEW s \in Servers, NEW a \in Attempts
        PROVE  /\ rows(t)[s][a] \in OpsTaskExecution
               /\ RowWrite("scan_timeouts", a, exec[t][s][a], rows(t)[s][a], task[t], sent[t][s][a])
               /\ exec[t][s][a].status = "ABSENT" => rows(t)[s][a].status = "ABSENT"
    <2>1. \/ rows(t)[s][a] = exec[t][s][a]
          \/ /\ is_expired(exec[t][s][a], task[t].timeout)
             /\ rows(t)[s][a] = mark_timeout(exec[t][s][a])
      BY DEF expired_rows, db
    <2> DEFINE W == rows(t)[s][a]
               S == exec[t][s][a]
    <2>2. S \in OpsTaskExecution /\ task[t].timeout \in Nat /\ S.ran \in Nat
      BY DEF OpsTask, OpsTaskExecution
    <2>3. "TIMEOUT" \in Terminal
      BY DEF Terminal
    <2> HIDE DEF W, S
    <2>4. W = S \/ (is_expired(S, task[t].timeout) /\ W = mark_timeout(S))
      BY <2>1 DEF W, S
    <2>5. /\ W \in OpsTaskExecution
          /\ RowWrite("scan_timeouts", a, S, W, task[t], sent[t][s][a])
          /\ S.status = "ABSENT" => W.status = "ABSENT"
      BY <2>2, <2>3, <2>4, FinishRow DEF RowWrite, mark_timeout, is_expired
    <2> QED BY <2>5 DEF W, S
  <1>3. ASSUME NEW t \in Tasks
        PROVE  new.task[t] \in OpsTask /\ TaskWrite("any", task[t], new.task[t])
    <2>1. CASE new.task[t] = task[t]
      BY <2>1 DEF TaskWrite, SameBudget
    <2>2. CASE expired(t) # {}
      <3>1. TaskExists(task[t])
        BY <2>2 DEF TaskExists
      <3>2. rows(t) \in Rows
        BY <1>2 DEF Rows
      <3>3. new.task[t] = aggregate_task_status(task[t], rows(t))
        BY <2>2, <1>1
      <3> HIDE DEF rows, new
      <3> QED BY <3>1, <3>2, <3>3, AggregateExists
    <2> QED BY <1>1, <2>1, <2>2
  <1>4. \A t \in Tasks, s \in Servers, a \in Attempts : new.exec[t][s][a] = rows(t)[s][a]
    BY <1>1
  <1>5. /\ new.task = [t \in Tasks |-> new.task[t]]
        /\ new.exec = [t \in Tasks |-> [s \in Servers |-> [a \in Attempts |-> new.exec[t][s][a]]]]
    BY <1>1
  <1> HIDE DEF new, rows, expired
  <1>6. ASSUME NEW t \in Tasks, NEW s \in Servers, NEW a \in Attempts
        PROVE  /\ new.exec[t][s][a] \in OpsTaskExecution
               /\ RowWrite("scan_timeouts", a, exec[t][s][a], new.exec[t][s][a], task[t], sent[t][s][a])
               /\ exec[t][s][a].status = "ABSENT" => new.exec[t][s][a].status = "ABSENT"
    <2>1. new.exec[t][s][a] = rows(t)[s][a]
      BY <1>4
    <2> QED BY <2>1, <1>2
  <1>7. IsDatabase(new)
    BY <1>3, <1>5, <1>6, TablesOf
  <1>8. Wrote(Started("scan_timeouts", new), sent)
    BY <1>3, <1>6, StartedPlain
  <1> QED BY <1>7, <1>8 DEF new

\* fire_due_cron: first attempts where there are none, and the tasks run.
LEMMA CronWrites ==
    ASSUME TypeOK, TableOK(db), cron_insert_conflicts(db) = {}
    PROVE  /\ IsDatabase(fire_due_cron(db))
           /\ Wrote(Started("fire_due_cron", fire_due_cron(db)), sent)
  <1> DEFINE new == fire_due_cron(db)
             due == due_cron(db)
  <1> USE DEF TypeOK
  <1>1. /\ new.task = [t \in Tasks |->
               IF t \in due THEN [task[t] EXCEPT !.status = "RUNNING"] ELSE task[t]]
        /\ new.exec = [t \in Tasks |-> [s \in Servers |-> [a \in Attempts |->
               IF t \in due /\ s \in task[t].targets /\ a = 1
               THEN NewExecution ELSE exec[t][s][a]]]]
    BY DEF fire_due_cron, db, EachRow
  <1>2. ASSUME NEW t \in Tasks, t \in due
        PROVE  /\ TaskExists(task[t])
               /\ \A s \in task[t].targets : ~Stored(exec[t][s][1])
    BY <1>2 DEF due_cron, list_pending_cron, cron_insert_conflicts, db, TaskExists
  <1> HIDE DEF due
  <1>3. ASSUME NEW t \in Tasks
        PROVE  new.task[t] \in OpsTask /\ TaskWrite("any", task[t], new.task[t])
    <2>1. CASE t \notin due
      <3>1. new.task[t] = task[t]
        BY <2>1, <1>1
      <3> QED BY <3>1 DEF TaskWrite, SameBudget
    <2>2. CASE t \in due
      <3>1. new.task[t] = [task[t] EXCEPT !.status = "RUNNING"]
        BY <2>2, <1>1
      <3> HIDE DEF new
      <3> QED BY <2>2, <3>1, <1>2, TaskRuns
    <2> QED BY <2>1, <2>2
  <1>4. ASSUME NEW t \in Tasks, NEW s \in Servers, NEW a \in Attempts
        PROVE  \/ new.exec[t][s][a] = exec[t][s][a]
               \/ /\ exec[t][s][a].status = "ABSENT" /\ new.exec[t][s][a] = NewExecution
                  /\ a = 1 /\ t \in due /\ s \in task[t].targets
    <2>1. CASE t \in due /\ s \in task[t].targets /\ a = 1
      <3>1. ~Stored(exec[t][s][a]) /\ ~exec[t][s][a].gone
        BY <2>1, <1>2, DbFields DEF TableOK, RowOK
      <3> QED BY <2>1, <3>1, <1>1 DEF Stored
    <2>2. CASE ~(t \in due /\ s \in task[t].targets /\ a = 1)
      BY <2>2, <1>1
    <2> QED BY <2>1, <2>2
  <1>5. /\ new.task = [t \in Tasks |-> new.task[t]]
        /\ new.exec = [t \in Tasks |-> [s \in Servers |-> [a \in Attempts |-> new.exec[t][s][a]]]]
    BY <1>1
  <1> HIDE DEF new
  <1>6. ASSUME NEW t \in Tasks, NEW s \in Servers, NEW a \in Attempts
        PROVE  /\ new.exec[t][s][a] \in OpsTaskExecution
               /\ RowWrite("fire_due_cron", a, exec[t][s][a], new.exec[t][s][a], task[t], sent[t][s][a])
               /\ InsertOK(Started("fire_due_cron", new), t, s, a)
    <2>1. new.exec[t][s][a] \in OpsTaskExecution
      BY <1>4, NewRow
    <2>2. RowWrite("fire_due_cron", a, exec[t][s][a], new.exec[t][s][a], task[t], sent[t][s][a])
      BY <1>4 DEF RowWrite
    <2>3. Inserts(Started("fire_due_cron", new), t, s, a) =>
              a = 1 /\ t \in due /\ s \in task[t].targets
      BY <1>4, StartedFields DEF Inserts
    <2>4. t \in due => TaskExists(new.task[t]) /\ new.task[t].targets = task[t].targets
      BY <1>2, <1>3 DEF TaskWrite, SameBudget
    <2>5. InsertOK(Started("fire_due_cron", new), t, s, a)
      BY <2>3, <2>4, StartedFields DEF InsertOK
    <2> QED BY <2>1, <2>2, <2>5
  <1>7. IsDatabase(new)
    BY <1>3, <1>5, <1>6, TablesOf
  <1>8. /\ \A t \in Tasks : TaskWrite("fire_due_cron", task[t], new.task[t])
        /\ \A t \in Tasks : task[t].status = "ABSENT" => new.task[t].status = "ABSENT"
    BY <1>3 DEF TaskWrite
  <1>9. Wrote(Started("fire_due_cron", new), sent)
    BY <1>6, <1>8, StartedWrote
  <1> QED BY <1>7, <1>9 DEF new

\* dispatch_retries: rows that are due fail or die, a further attempt follows
\* where the budget allows it, and the tasks are aggregated.
LEMMA DispatchWrites ==
    ASSUME TypeOK, TableOK(db), NEW batch \in SUBSET list_due_retries(db)
    PROVE  /\ IsDatabase(dispatch_retries(db, batch))
           /\ Wrote(Started("dispatch_retries", dispatch_retries(db, batch)), sent)
  <1> DEFINE new == dispatch_retries(db, batch)
             Again(t, s, a) == /\ <<t, s, a>> \in batch
                               /\ task[t].status \notin Terminal
                               /\ can_retry(task[t], a)
             verdict(t, a) == IF task[t].status \in Terminal \/ can_retry(task[t], a)
                              THEN "FAILED" ELSE "DEAD"
             row(t, s, a) == IF <<t, s, a>> \in batch
                             THEN finish(exec[t][s][a], verdict(t, a))
                             ELSE IF a > 1 /\ Again(t, s, a - 1) THEN NewExecution
                             ELSE exec[t][s][a]
  <1> USE DEF TypeOK
  <1>1. /\ new.exec = [t \in Tasks |-> [s \in Servers |-> [a \in Attempts |-> row(t, s, a)]]]
        /\ new.task = [t \in Tasks |->
               IF /\ task[t].status \notin Terminal
                  /\ \E s \in Servers, a \in Attempts : <<t, s, a>> \in batch
               THEN aggregate_task_status(task[t], new.exec[t]) ELSE task[t]]
    <2>1. new.exec = [t \in Tasks |-> [s \in Servers |-> [a \in Attempts |-> row(t, s, a)]]]
      BY DEF dispatch_retries, db, EachRow
    <2>2. new.task = [t \in Tasks |->
               IF /\ task[t].status \notin Terminal
                  /\ \E s \in Servers, a \in Attempts : <<t, s, a>> \in batch
               THEN aggregate_task_status(task[t], new.exec[t]) ELSE task[t]]
      BY DEF dispatch_retries, db, EachRow
    <2> QED BY <2>1, <2>2
  <1>2. \A t \in Tasks, s \in Servers, a \in Attempts : <<t, s, a>> \in batch =>
            /\ exec[t][s][a].status = "RETRYING" /\ exec[t][s][a].wait = 0
            /\ TaskExists(task[t])
    <2>1. \A t \in Tasks, s \in Servers, a \in Attempts : <<t, s, a>> \in batch =>
              exec[t][s][a].status = "RETRYING" /\ exec[t][s][a].wait = 0
      BY DEF list_due_retries, db
    <2> QED BY <2>1, DbFields DEF TableOK
  <1>3. ASSUME NEW t \in Tasks, NEW s \in Servers, NEW a \in Attempts
        PROVE  \/ /\ <<t, s, a>> \in batch
                  /\ row(t, s, a) = finish(exec[t][s][a], verdict(t, a))
               \/ /\ exec[t][s][a].status = "ABSENT" /\ row(t, s, a) = NewExecution
                  /\ a > 1 /\ Again(t, s, a - 1)
               \/ row(t, s, a) = exec[t][s][a]
    <2> SUFFICES ASSUME a > 1, Again(t, s, a - 1)
                 PROVE  exec[t][s][a].status = "ABSENT"
      OBVIOUS
    <2>1. a - 1 \in Attempts /\ a - 1 < a
      BY AttemptNumbers
    <2>2. exec[t][s][a - 1].status = "RETRYING"
      BY <2>1, <1>2
    <2>3. Chain(task[t], exec[t])
      BY DbFields DEF TableOK
    <2> QED BY <2>1, <2>2, <2>3 DEF Chain
  <1>4. \A t \in Tasks, a \in Attempts : verdict(t, a) \in {"FAILED", "DEAD"}
    OBVIOUS
  <1>5. ASSUME NEW t \in Tasks, NEW s \in Servers, NEW a \in Attempts
        PROVE  /\ row(t, s, a) \in OpsTaskExecution
               /\ RowWrite("dispatch_retries", a, exec[t][s][a], row(t, s, a), task[t], sent[t][s][a])
    <2> HIDE DEF row, verdict, Again
    <2>1. exec[t][s][a] \in OpsTaskExecution /\ {"FAILED", "DEAD"} \subseteq Terminal
      BY DEF Terminal
    <2>2. row(t, s, a) \in OpsTaskExecution
      <3>1. verdict(t, a) \in Terminal
        BY <1>4, <2>1
      <3>2. finish(exec[t][s][a], verdict(t, a)) \in OpsTaskExecution
        BY <3>1, <2>1, FinishRow
      <3> QED BY <1>3, <2>1, <3>2, NewRow
    <2>3. RowWrite("dispatch_retries", a, exec[t][s][a], row(t, s, a), task[t], sent[t][s][a])
      BY <1>2, <1>3, <1>4 DEF RowWrite
    <2> QED BY <2>2, <2>3
  <1>6. ASSUME NEW t \in Tasks PROVE new.exec[t] \in Rows
    <2>1. new.exec[t] = [s \in Servers |-> [a \in Attempts |-> row(t, s, a)]]
      BY <1>1
    <2>2. \A s \in Servers, a \in Attempts : row(t, s, a) \in OpsTaskExecution
      BY <1>5
    <2> HIDE DEF row, new
    <2>3. [s \in Servers |-> [a \in Attempts |-> row(t, s, a)]] \in Rows
      BY <2>2 DEF Rows
    <2> QED BY <2>1, <2>3
  <1>7. ASSUME NEW t \in Tasks
        PROVE  new.task[t] \in OpsTask /\ TaskWrite("any", task[t], new.task[t])
    <2>1. CASE new.task[t] = task[t]
      BY <2>1 DEF TaskWrite, SameBudget
    <2>2. CASE /\ \E s \in Servers, a \in Attempts : <<t, s, a>> \in batch
               /\ new.task[t] = aggregate_task_status(task[t], new.exec[t])
      <3>1. TaskExists(task[t])
        BY <2>2, <1>2
      <3> HIDE DEF new
      <3> QED BY <2>2, <3>1, <1>6, AggregateExists
    <2> QED BY <1>1, <2>1, <2>2
  <1>8. \A t \in Tasks, s \in Servers, a \in Attempts : new.exec[t][s][a] = row(t, s, a)
    BY <1>1
  <1>9. /\ new.task = [t \in Tasks |-> new.task[t]]
        /\ new.exec = [t \in Tasks |-> [s \in Servers |-> [a \in Attempts |-> new.exec[t][s][a]]]]
    BY <1>1
  <1>10. ASSUME NEW t \in Tasks, NEW s \in Servers, NEW a \in Attempts,
                a > 1, Again(t, s, a - 1)
         PROVE  /\ exec[t][s][a - 1].status = "RETRYING" /\ exec[t][s][a - 1].wait = 0
                /\ row(t, s, a - 1).status = "FAILED"
                /\ can_retry(task[t], a - 1)
    <2>1. a - 1 \in Attempts
      BY <1>10, AttemptNumbers
    <2>2. "FAILED" \in Terminal
      BY DEF Terminal
    <2>3. exec[t][s][a - 1] \in OpsTaskExecution
      BY <2>1
    <2>4. row(t, s, a - 1) = finish(exec[t][s][a - 1], "FAILED")
      BY <1>10
    <2>5. finish(exec[t][s][a - 1], "FAILED").status = "FAILED"
      BY <2>2, <2>3, FinishRow
    <2> QED BY <1>10, <2>1, <2>4, <2>5, <1>2
  <1> HIDE DEF new, row, verdict, Again
  <1>11. ASSUME NEW t \in Tasks, NEW s \in Servers, NEW a \in Attempts
         PROVE  InsertOK(Started("dispatch_retries", new), t, s, a)
    <2> SUFFICES ASSUME exec[t][s][a].status = "ABSENT", new.exec[t][s][a].status # "ABSENT"
                 PROVE  /\ a > 1
                        /\ exec[t][s][a - 1].status = "RETRYING"
                        /\ exec[t][s][a - 1].wait = 0
                        /\ new.exec[t][s][a - 1].status = "FAILED"
                        /\ can_retry(task[t], a - 1)
      BY StartedFields DEF InsertOK, Inserts
    <2>1. a > 1 /\ Again(t, s, a - 1)
      <3>1. <<t, s, a>> \notin batch
        BY <1>2
      <3>2. row(t, s, a) # exec[t][s][a]
        BY <1>8
      <3> QED BY <3>1, <3>2, <1>3
    <2>2. a - 1 \in Attempts
      BY <2>1, AttemptNumbers
    <2> QED BY <2>1, <2>2, <1>8, <1>10
  <1>12. IsDatabase(new)
    <2>1. \A t \in Tasks, s \in Servers, a \in Attempts : new.exec[t][s][a] \in OpsTaskExecution
      BY <1>5, <1>8
    <2> QED BY <2>1, <1>7, <1>9, TablesOf
  <1>13. /\ \A t \in Tasks : TaskWrite("dispatch_retries", task[t], new.task[t])
         /\ \A t \in Tasks : task[t].status = "ABSENT" => new.task[t].status = "ABSENT"
    BY <1>7 DEF TaskWrite
  <1>14. Wrote(Started("dispatch_retries", new), sent)
    BY <1>5, <1>8, <1>11, <1>13, StartedWrote
  <1> QED BY <1>12, <1>14 DEF new

-----------------------------------------------------------------------------
(* Open sessions *)

\* Only a retryable failure makes a row wait for a retry.
WaitsForRetry(d, r) ==
    \A t \in Tasks, s \in Servers, a \in Attempts :
        d.exec[t][s][a].status = "RETRYING" => Retryable(r[t][s][a])

KeysUnique(tk) ==
    \A t, u \in Tasks :
        /\ TaskExists(tk[t]) /\ TaskExists(tk[u])
        /\ tk[t].key = tk[u].key /\ tk[t].key # NoKey
        => t = u

\* The tables d now, as far as the open session x depends on them: what it
\* read of a budget still holds, a task it creates is still to be created, a
\* row it lets fail for a further attempt still waits for it, and it writes
\* no status of a row that has a successor.
CurrentTasks(x, d) ==
    \A t \in Tasks :
        /\ TaskExists(x.snap.task[t]) =>
               TaskExists(d.task[t]) /\ SameBudget(d.task[t], x.snap.task[t])
        /\ Creates(x, t) => d.task[t].status = "ABSENT"

CurrentRows(x, d) ==
    \A t \in Tasks, s \in Servers, a \in Attempts :
        /\ RowPair(a, d.exec[t][s][a], x.snap.exec[t][s][a], x.new.exec[t][s][a])
        /\ Inserts(x, t, s, a) /\ a > 1 => d.exec[t][s][a - 1].status = "RETRYING"
        /\ d.exec[t][s][a].status # "ABSENT" =>
               \A b \in Attempts : b < a =>
                   x.new.exec[t][s][b].status = x.snap.exec[t][s][b].status

SessionOK(x, d, r) ==
    /\ x.op # "closed"
    /\ IsDatabase(x.snap) /\ IsDatabase(x.new)
    /\ TableOK(x.snap)
    /\ Wrote(x, r)
    /\ CurrentTasks(x, d)
    /\ CurrentRows(x, d)

\* Two open sessions do not run the same job, create the same task or both
\* decide a row that is to have a further attempt.
Apart(x, y) ==
    /\ x.op = y.op => x.op \notin Jobs
    /\ \A t \in Tasks : ~(Creates(x, t) /\ Creates(y, t))
    /\ \A t \in Tasks, s \in Servers, a \in Attempts :
           /\ RowTwo(x.snap.exec[t][s][a], y.snap.exec[t][s][a])
           /\ Inserts(x, t, s, a) /\ a > 1 =>
                  y.new.exec[t][s][a - 1].status = y.snap.exec[t][s][a - 1].status

SessionsOK(d, r, ses) ==
    /\ \A w \in Sessions : ses[w] = Closed \/ SessionOK(ses[w], d, r)
    /\ \A v, w \in Sessions :
           v # w /\ ses[v] # Closed /\ ses[w] # Closed => Apart(ses[v], ses[w])

TxInv ==
    /\ TypeOK
    /\ session = [w \in Sessions |-> session[w]]
    /\ TableOK(db)
    /\ WaitsForRetry(db, sent)
    /\ KeysUnique(task)
    /\ SessionsOK(db, sent, session)

-----------------------------------------------------------------------------
(* A session begins *)

\* The rows of a database have their type.
LEMMA RowTypes ==
    ASSUME NEW d, IsDatabase(d), NEW t \in Tasks, NEW s \in Servers, NEW a \in Attempts
    PROVE  /\ d.exec[t][s][a] \in OpsTaskExecution
           /\ d.task[t] \in OpsTask
           /\ d.exec[t][s][a].ran \in Nat
           /\ d.exec[t][s][a].wait \in Nat
  BY DEF IsDatabase, Rows, OpsTaskExecution

\* What a session has just read is how the tables are.
LEMMA FreshCurrent ==
    ASSUME NEW d, NEW r, NEW x, IsDatabase(d), TableOK(d), x.snap = d, Wrote(x, r)
    PROVE  CurrentTasks(x, d) /\ CurrentRows(x, d)
  <1>1. CurrentTasks(x, d)
    BY DEF CurrentTasks, SameBudget, Creates
  <1>2. ASSUME NEW t \in Tasks, NEW s \in Servers, NEW a \in Attempts
        PROVE  /\ RowPair(a, d.exec[t][s][a], x.snap.exec[t][s][a], x.new.exec[t][s][a])
               /\ Inserts(x, t, s, a) /\ a > 1 => d.exec[t][s][a - 1].status = "RETRYING"
    <2>1. RowPair(a, d.exec[t][s][a], d.exec[t][s][a], x.new.exec[t][s][a])
      BY DEF RowPair
    <2>2. InsertOK(x, t, s, a)
      BY DEF Wrote
    <2> QED BY <2>1, <2>2 DEF InsertOK
  <1>3. ASSUME NEW t \in Tasks, NEW s \in Servers, NEW a \in Attempts, NEW b \in Attempts,
               d.exec[t][s][a].status # "ABSENT", b < a
        PROVE  x.new.exec[t][s][b].status = x.snap.exec[t][s][b].status
    <2>1. d.exec[t][s][b].status = "FAILED"
      BY <1>3 DEF TableOK, Chain
    <2>2. d.exec[t][s][b] \in OpsTaskExecution /\ b \in Nat
      BY RowTypes, AttemptNumbers
    <2>3. RowOK(b, d.exec[t][s][b])
      BY DEF TableOK
    <2>4. RowWrite(x.op, b, d.exec[t][s][b], x.new.exec[t][s][b], d.task[t], r[t][s][b])
      BY DEF Wrote
    <2>5. x.new.exec[t][s][b] = d.exec[t][s][b]
      <3>1. "FAILED" \in Terminal
        BY DEF Terminal
      <3> QED BY <2>1, <2>2, <2>3, <2>4, <3>1, WriteFields
    <2> QED BY <2>5
  <1> QED BY <1>1, <1>2, <1>3 DEF CurrentRows

\* A row that waits for a retry the budget still allows, and whose report was
\* a retryable failure, keeps its status in every session but a dispatch.
LEMMA RetryingStays ==
    ASSUME NEW op, NEW a \in Nat, NEW S \in OpsTaskExecution, NEW W, NEW tk, NEW r,
           RowWrite(op, a, S, W, tk, r), S.status = "RETRYING",
           Retryable(r), can_retry(tk, a), op # "dispatch_retries"
    PROVE  W.status = "RETRYING"
  BY RetryingRow DEF RowWrite

\* What a session has read of a task that has executions is still its budget.
LEMMA BudgetNow ==
    ASSUME NEW d, NEW r, NEW x, SessionOK(x, d, r),
           NEW t \in Tasks, NEW s \in Servers, NEW a \in Attempts,
           x.snap.exec[t][s][a].status # "ABSENT", NEW n
    PROVE  /\ TaskExists(d.task[t]) /\ TaskExists(x.snap.task[t])
           /\ SameBudget(d.task[t], x.snap.task[t])
           /\ can_retry(x.snap.task[t], n) <=> can_retry(d.task[t], n)
  <1>1. TaskExists(x.snap.task[t])
    BY DEF SessionOK, TableOK
  <1>2. TaskExists(d.task[t]) /\ SameBudget(d.task[t], x.snap.task[t])
    BY <1>1 DEF SessionOK, CurrentTasks
  <1> QED BY <1>1, <1>2 DEF SameBudget, can_retry

\* A session that begins keeps apart from the ones already open.
LEMMA FreshApart ==
    ASSUME NEW d, NEW r, NEW x, NEW y,
           IsDatabase(d), TableOK(d), WaitsForRetry(d, r),
           x.snap = d, Wrote(x, r), SessionOK(y, d, r),
           x.op = y.op => x.op \notin Jobs,
           \A t \in Tasks : ~(Creates(x, t) /\ Creates(y, t))
    PROVE  Apart(x, y) /\ Apart(y, x)
  <1> DEFINE P(t, s, a) ==
          /\ RowTwo(x.snap.exec[t][s][a], y.snap.exec[t][s][a])
          /\ RowTwo(y.snap.exec[t][s][a], x.snap.exec[t][s][a])
          /\ Inserts(x, t, s, a) /\ a > 1 =>
                 y.new.exec[t][s][a - 1].status = y.snap.exec[t][s][a - 1].status
          /\ Inserts(y, t, s, a) /\ a > 1 =>
                 x.new.exec[t][s][a - 1].status = x.snap.exec[t][s][a - 1].status
  <1>1. ASSUME NEW t \in Tasks, NEW s \in Servers, NEW a \in Attempts
        PROVE  P(t, s, a)
    <2> DEFINE C == d.exec[t][s][a]
               S == y.snap.exec[t][s][a]
    <2>1. /\ C \in OpsTaskExecution /\ C.ran \in Nat
          /\ S \in OpsTaskExecution /\ S.ran \in Nat
      BY RowTypes DEF SessionOK
    <2>2. RowOK(a, C) /\ RowOK(a, S)
      BY DEF TableOK, SessionOK
    <2>3. RowPair(a, C, S, y.new.exec[t][s][a])
      BY DEF SessionOK, CurrentRows
    <2>4. NewExecution.ran = 0
      BY DEF NewExecution, NoExecution
    <2>5. RowTwo(C, S) /\ RowTwo(S, C)
      <3> HIDE DEF C, S
      <3> QED BY <2>1, <2>2, <2>3, <2>4 DEF RowTwo, RowPair, RowOK
    <2>6. ASSUME Inserts(x, t, s, a), a > 1
          PROVE  y.new.exec[t][s][a - 1].status = y.snap.exec[t][s][a - 1].status
      <3> DEFINE n == a - 1
                 Sn == y.snap.exec[t][s][n]
                 Wn == y.new.exec[t][s][n]
      <3>1. n \in Attempts /\ n \in Nat
        BY <2>6, AttemptNumbers
      <3>2. InsertOK(x, t, s, a)
        BY DEF Wrote
      <3>3. /\ x.op = "dispatch_retries"
            /\ d.exec[t][s][n].status = "RETRYING" /\ d.exec[t][s][n].wait = 0
            /\ can_retry(d.task[t], n)
        BY <2>6, <3>2 DEF InsertOK
      <3>4. RowPair(n, d.exec[t][s][n], Sn, Wn)
        BY <3>1 DEF SessionOK, CurrentRows
      <3>5. backoff_seconds(n) > 0 /\ backoff_seconds(n) \in Nat
        BY <3>1, BackoffPositive
      <3>6. Sn.status = "RETRYING"
        BY <3>3, <3>4, <3>5 DEF RowPair
      <3>7. can_retry(y.snap.task[t], n)
        BY <3>1, <3>3, <3>6, BudgetNow
      <3>8. Retryable(r[t][s][n])
        BY <3>1, <3>3 DEF WaitsForRetry
      <3>9. y.op # "dispatch_retries"
        BY <3>3 DEF Jobs
      <3>10. RowWrite(y.op, n, Sn, Wn, y.snap.task[t], r[t][s][n])
        BY <3>1 DEF SessionOK, Wrote
      <3>11. Sn \in OpsTaskExecution
        BY <3>1, RowTypes DEF SessionOK
      <3> HIDE DEF n, Sn, Wn
      <3>12. Wn.status = "RETRYING"
        BY <3>1, <3>6, <3>7, <3>8, <3>9, <3>10, <3>11, RetryingStays
      <3> QED BY <3>6, <3>12 DEF n, Sn, Wn
    <2>7. ASSUME Inserts(y, t, s, a), a > 1
          PROVE  x.new.exec[t][s][a - 1].status = x.snap.exec[t][s][a - 1].status
      <3> DEFINE n == a - 1
                 Sn == x.snap.exec[t][s][n]
                 Wn == x.new.exec[t][s][n]
      <3>1. n \in Attempts /\ n \in Nat
        BY <2>7, AttemptNumbers
      <3>2. InsertOK(y, t, s, a)
        BY DEF SessionOK, Wrote
      <3>3. /\ y.op = "dispatch_retries"
            /\ y.snap.exec[t][s][n].status = "RETRYING"
            /\ can_retry(y.snap.task[t], n)
        BY <2>7, <3>2 DEF InsertOK
      <3>6. Sn.status = "RETRYING"
        BY <2>7 DEF SessionOK, CurrentRows
      <3>7. can_retry(x.snap.task[t], n)
        BY <3>1, <3>3, BudgetNow
      <3>8. Retryable(r[t][s][n])
        BY <3>1, <3>6 DEF WaitsForRetry
      <3>9. x.op # "dispatch_retries"
        BY <3>3 DEF Jobs
      <3>10. RowWrite(x.op, n, Sn, Wn, x.snap.task[t], r[t][s][n])
        BY <3>1 DEF Wrote
      <3>11. Sn \in OpsTaskExecution
        BY <3>1, RowTypes
      <3> HIDE DEF n, Sn, Wn
      <3>12. Wn.status = "RETRYING"
        BY <3>1, <3>6, <3>7, <3>8, <3>9, <3>10, <3>11, RetryingStays
      <3> QED BY <3>6, <3>12 DEF n, Sn, Wn
    <2> QED BY <2>5, <2>6, <2>7
  <1> HIDE DEF P
  <1>2. \A t \in Tasks, s \in Servers, a \in Attempts : P(t, s, a)
    BY <1>1
  <1> QED BY <1>2 DEF Apart, P

\* A session that begins keeps the invariant, whatever its handler.
LEMMA BeginInv ==
    ASSUME TxInv, NEW w \in Sessions, NEW op, NEW new, op # "closed",
           Begin(w, op, new), IsDatabase(new), Wrote(Started(op, new), sent),
           op \in Jobs => \A v \in Sessions : session[v].op # op,
           \A v \in Sessions, t \in Tasks :
               session[v] # Closed => ~(Creates(Started(op, new), t) /\ Creates(session[v], t))
    PROVE  TxInv'
  <1> DEFINE x == Started(op, new)
  <1>1. /\ task' = task /\ exec' = exec /\ sent' = sent
        /\ session[w] = Closed
        /\ session' = [session EXCEPT ![w] = x]
    BY DEF Begin, Started
  <1>2. db' = db /\ IsDatabase(db) /\ x.snap = db /\ x.op = op /\ x.new = new
    BY <1>1, StartedFields, DbFields DEF db, TxInv, TypeOK, IsDatabase, Rows
  <1> HIDE DEF x
  <1>3. session'[w] = x /\ \A v \in Sessions : v # w => session'[v] = session[v]
    BY <1>1 DEF TxInv
  <1>4. SessionOK(x, db, sent)
    <2>1. CurrentTasks(x, db) /\ CurrentRows(x, db)
      BY <1>2, FreshCurrent DEF TxInv, x
    <2> QED BY <1>2, <2>1 DEF TxInv, SessionOK, x
  <1>5. ASSUME NEW v \in Sessions, session[v] # Closed
        PROVE  Apart(x, session[v]) /\ Apart(session[v], x)
    <2>1. SessionOK(session[v], db, sent)
      BY <1>5 DEF TxInv, SessionsOK
    <2>2. \A t \in Tasks : ~(Creates(x, t) /\ Creates(session[v], t))
      BY <1>5 DEF x
    <2>3. x.op = session[v].op => x.op \notin Jobs
      BY <1>2
    <2>4. Wrote(x, sent)
      BY DEF x
    <2> QED BY <1>2, <2>1, <2>2, <2>3, <2>4, FreshApart DEF TxInv
  <1>6. SessionsOK(db, sent, session')
    <2>1. \A v \in Sessions : session'[v] = Closed \/ SessionOK(session'[v], db, sent)
      BY <1>3, <1>4 DEF TxInv, SessionsOK
    <2>2. ASSUME NEW u \in Sessions, NEW v \in Sessions, u # v,
                 session'[u] # Closed, session'[v] # Closed
          PROVE  Apart(session'[u], session'[v])
      BY <2>2, <1>3, <1>5 DEF TxInv, SessionsOK
    <2> QED BY <2>1, <2>2 DEF SessionsOK
  <1>7. session' = [v \in Sessions |-> session'[v]]
    BY <1>1 DEF TxInv
  <1>8. TypeOK'
    BY <1>1 DEF TxInv, TypeOK
  <1> QED BY <1>1, <1>2, <1>6, <1>7, <1>8 DEF TxInv

-----------------------------------------------------------------------------
(* A session commits *)

\* The tables d with the changed columns of session x written over them.
Committed(d, x, e) ==
    /\ e.task = [t \in Tasks |-> Merge(d.task[t], x.snap.task[t], x.new.task[t])]
    /\ e.exec = [t \in Tasks |-> [s \in Servers |-> [a \in Attempts |->
           Merge(d.exec[t][s][a], x.snap.exec[t][s][a], x.new.exec[t][s][a])]]]

\* No INSERT of the session meets a key that is taken.
NoConflict(d, x) ==
    /\ \A t \in Tasks, s \in Servers, a \in Attempts :
           Inserts(x, t, s, a) => ~Stored(d.exec[t][s][a])
    /\ \A t \in Tasks : Creates(x, t) => get_by_idempotency_key(d, x.new.task[t].key) = {}

\* The fields of a merged task row.
LEMMA MergeTask ==
    ASSUME NEW C \in OpsTask, NEW S \in OpsTask, NEW W \in OpsTask
    PROVE  /\ Merge(C, S, W) \in OpsTask
           /\ Merge(C, S, W).status = IF W.status # S.status THEN W.status ELSE C.status
           /\ W.key = S.key => Merge(C, S, W).key = C.key
           /\ W.left = S.left => Merge(C, S, W).left = C.left
           /\ W.targets = S.targets => Merge(C, S, W).targets = C.targets
           /\ W.max_attempts = S.max_attempts =>
                  Merge(C, S, W).max_attempts = C.max_attempts
           /\ W = S => Merge(C, S, W) = C
           /\ C = S => Merge(C, S, W) = W
  BY DEF Merge, OpsTask

\* A commit creates the task the session meant to create, as it was meant, and
\* leaves the identity and the budget of every other task alone.
LEMMA CommitTask ==
    ASSUME NEW d, NEW e, NEW r, NEW x, IsDatabase(d), TableOK(d), SessionOK(x, d, r),
           Committed(d, x, e), NEW t \in Tasks
    PROVE  /\ e.task[t] \in OpsTask
           /\ Creates(x, t) => /\ d.task[t].status = "ABSENT"
                               /\ e.task[t] = x.new.task[t] /\ TaskExists(e.task[t])
           /\ ~Creates(x, t) => /\ TaskExists(e.task[t]) <=> TaskExists(d.task[t])
                                /\ SameBudget(e.task[t], d.task[t])
                                /\ d.task[t].status = "ABSENT" => e.task[t] = d.task[t]
           /\ e.task[t].status # "DELETED"
           /\ e.task[t].status = "ABSENT" => e.task[t] = NoTask
  <1> DEFINE C == d.task[t]
             S == x.snap.task[t]
             W == x.new.task[t]
             M == e.task[t]
  <1>1. C \in OpsTask /\ S \in OpsTask /\ W \in OpsTask
    BY DEF IsDatabase, SessionOK
  <1>2. M = Merge(C, S, W)
    BY DEF Committed
  <1>3. /\ C.status # "DELETED" /\ (C.status = "ABSENT" => C = NoTask)
        /\ S.status # "DELETED" /\ (S.status = "ABSENT" => S = NoTask)
    BY DEF SessionOK, TableOK
  <1>4. TaskWrite(x.op, S, W)
    BY DEF SessionOK, Wrote
  <1>5. TaskExists(S) => TaskExists(C)
    BY DEF SessionOK, CurrentTasks
  <1>6. Creates(x, t) <=> S.status = "ABSENT" /\ W.status # "ABSENT"
    BY DEF Creates
  <1>7. Creates(x, t) => C.status = "ABSENT"
    BY DEF SessionOK, CurrentTasks
  <1>8. /\ M \in OpsTask
        /\ M.status = IF W.status # S.status THEN W.status ELSE C.status
        /\ W.key = S.key => M.key = C.key
        /\ W.left = S.left => M.left = C.left
        /\ W.targets = S.targets => M.targets = C.targets
        /\ W.max_attempts = S.max_attempts => M.max_attempts = C.max_attempts
        /\ W = S => M = C
        /\ C = S => M = W
    <2> HIDE DEF C, S, W, M
    <2> QED BY <1>1, <1>2, MergeTask
  <1> HIDE DEF C, S, W, M
  <1>9. Creates(x, t) => C.status = "ABSENT" /\ M = W /\ TaskExists(M)
    BY <1>3, <1>4, <1>6, <1>7, <1>8 DEF TaskWrite, TaskExists
  <1>10. ASSUME ~Creates(x, t)
         PROVE  /\ TaskExists(M) <=> TaskExists(C)
                /\ SameBudget(M, C)
                /\ C.status = "ABSENT" => M = C
                /\ M.status # "DELETED"
                /\ M.status = "ABSENT" => C.status = "ABSENT"
    <2>1. CASE S.status = "ABSENT"
      <3>1. W = S
        BY <2>1, <1>10, <1>4, <1>6 DEF TaskWrite, TaskExists
      <3> QED BY <3>1, <1>3, <1>8 DEF SameBudget
    <2>2. CASE S.status # "ABSENT"
      <3>1. TaskExists(S) /\ TaskExists(W) /\ TaskExists(C) /\ SameBudget(W, S)
        BY <2>2, <1>3, <1>4, <1>5 DEF TaskWrite, TaskExists
      <3> QED BY <3>1, <1>8 DEF SameBudget, TaskExists
    <2> QED BY <2>1, <2>2
  <1>11. M.status # "DELETED" /\ (M.status = "ABSENT" => M = NoTask)
    BY <1>3, <1>9, <1>10 DEF TaskExists
  <1> QED BY <1>8, <1>9, <1>10, <1>11 DEF C, W, M

\* A commit leaves rows as they should be.
LEMMA CommitRow ==
    ASSUME NEW d, NEW e, NEW r, NEW x, IsDatabase(d), TableOK(d), SessionOK(x, d, r),
           Committed(d, x, e), NoConflict(d, x),
           NEW t \in Tasks, NEW s \in Servers, NEW a \in Attempts
    PROVE  /\ e.exec[t][s][a] \in OpsTaskExecution
           /\ RowOK(a, e.exec[t][s][a])
           /\ Inserts(x, t, s, a) => d.exec[t][s][a].status = "ABSENT"
           /\ \/ e.exec[t][s][a].status = d.exec[t][s][a].status
              \/ /\ x.new.exec[t][s][a].status # x.snap.exec[t][s][a].status
                 /\ e.exec[t][s][a].status = x.new.exec[t][s][a].status
           /\ x.new.exec[t][s][a].status # x.snap.exec[t][s][a].status =>
                  e.exec[t][s][a].status = x.new.exec[t][s][a].status
           /\ d.exec[t][s][a].status = "ABSENT" /\ e.exec[t][s][a].status # "ABSENT"
                  => Inserts(x, t, s, a)
           /\ d.exec[t][s][a].status # "ABSENT" => e.exec[t][s][a].status # "ABSENT"
           /\ e.exec[t][s][a].status = "RETRYING" =>
                  d.exec[t][s][a].status = "RETRYING" \/ Retryable(r[t][s][a])
  <1> DEFINE C == d.exec[t][s][a]
             S == x.snap.exec[t][s][a]
             W == x.new.exec[t][s][a]
             M == e.exec[t][s][a]
  <1>1. /\ C \in OpsTaskExecution /\ S \in OpsTaskExecution /\ W \in OpsTaskExecution
        /\ a \in Nat
    BY RowTypes, AttemptNumbers DEF SessionOK
  <1>2. M = Merge(C, S, W)
    BY DEF Committed
  <1>3. RowOK(a, C) /\ RowOK(a, S)
    BY DEF SessionOK, TableOK
  <1>4. RowWrite(x.op, a, S, W, x.snap.task[t], r[t][s][a])
    BY DEF SessionOK, Wrote
  <1>5. RowPair(a, C, S, W)
    BY DEF SessionOK, CurrentRows
  <1>6. Inserts(x, t, s, a) <=> S.status = "ABSENT" /\ W.status # "ABSENT"
    BY DEF Inserts
  <1>7. Inserts(x, t, s, a) => C.status = "ABSENT"
    BY <1>3 DEF NoConflict, Stored, RowOK
  <1> HIDE DEF C, S, W, M
  <1>8. M \in OpsTaskExecution /\ RowOK(a, M)
    BY <1>1, <1>2, <1>3, <1>4, <1>5, <1>6, <1>7, MergeKeepsRow
  <1>9. M.status = IF W.status # S.status THEN W.status ELSE C.status
    BY <1>1, <1>2, MergeRow
  <1>10. /\ S.status # "ABSENT" => W.status # "ABSENT"
         /\ W.status = "RETRYING" /\ S.status # "RETRYING" => Retryable(r[t][s][a])
    BY <1>1, <1>3, <1>4, WriteFields
  <1>11. C.status = "ABSENT" /\ M.status # "ABSENT" => Inserts(x, t, s, a)
    BY <1>5, <1>6, <1>9 DEF RowPair
  <1>12. C.status # "ABSENT" => M.status # "ABSENT"
    BY <1>6, <1>7, <1>9, <1>10
  <1>13. M.status = "RETRYING" => C.status = "RETRYING" \/ Retryable(r[t][s][a])
    BY <1>9, <1>10
  <1> QED BY <1>7, <1>8, <1>9, <1>11, <1>12, <1>13 DEF C, S, W, M

\* A row that already has a successor keeps its status in every commit, and so
\* does one that is to be retried by another session.
LEMMA CommitChain ==
    ASSUME NEW d, NEW e, NEW r, NEW x, IsDatabase(d), TableOK(d), SessionOK(x, d, r),
           Committed(d, x, e), NoConflict(d, x),
           NEW t \in Tasks, NEW s \in Servers, NEW a \in Attempts,
           e.exec[t][s][a].status # "ABSENT"
    PROVE  /\ TaskExists(e.task[t])
           /\ s \in e.task[t].targets
           /\ a <= e.task[t].max_attempts
           /\ \A b \in Attempts : b < a => e.exec[t][s][b].status = "FAILED"
  <1> DEFINE Stays(n) == x.new.exec[t][s][n].status = x.snap.exec[t][s][n].status
  <1>1. ASSUME NEW b \in Attempts, d.exec[t][s][b].status # "ABSENT"
        PROVE  /\ TaskExists(d.task[t]) /\ ~Creates(x, t)
               /\ s \in d.task[t].targets /\ b <= d.task[t].max_attempts
               /\ \A n \in Attempts : n < b => d.exec[t][s][n].status = "FAILED" /\ Stays(n)
    <2>1. TaskExists(d.task[t])
      BY <1>1 DEF TableOK
    <2>2. ~Creates(x, t)
      BY <2>1 DEF SessionOK, CurrentTasks, TaskExists
    <2>3. Chain(d.task[t], d.exec[t])
      BY DEF TableOK
    <2>4. \A n \in Attempts : n < b => Stays(n)
      BY <1>1 DEF SessionOK, CurrentRows
    <2> QED BY <1>1, <2>1, <2>2, <2>3, <2>4 DEF Chain
  <1>2. \A n \in Attempts :
            /\ Stays(n) => e.exec[t][s][n].status = d.exec[t][s][n].status
            /\ ~Stays(n) => e.exec[t][s][n].status = x.new.exec[t][s][n].status
    BY CommitRow
  <1>3. ~Creates(x, t) => /\ TaskExists(e.task[t]) <=> TaskExists(d.task[t])
                          /\ SameBudget(e.task[t], d.task[t])
    BY CommitTask
  <1>4. CASE d.exec[t][s][a].status # "ABSENT"
    BY <1>1, <1>2, <1>3, <1>4 DEF SameBudget
  <1>5. CASE d.exec[t][s][a].status = "ABSENT"
    <2>1. Inserts(x, t, s, a) /\ InsertOK(x, t, s, a)
      BY <1>5, CommitRow DEF SessionOK, Wrote
    <2>2. CASE a = 1 /\ s \in x.new.task[t].targets /\ TaskExists(x.new.task[t])
      <3>1. \A b \in Attempts : ~(b < a)
        BY <2>2, AttemptNumbers
      <3>2. CASE Creates(x, t)
        <4>1. e.task[t] = x.new.task[t] /\ e.task[t] \in OpsTask
          BY <3>2, CommitTask
        <4>2. e.task[t].max_attempts \in Attempts
          BY <4>1 DEF OpsTask
        <4>3. e.task[t].max_attempts >= 1
          BY <4>2, AttemptNumbers
        <4> QED BY <2>2, <3>1, <4>1, <4>3
      <3>3. CASE ~Creates(x, t)
        <4>1. TaskWrite(x.op, x.snap.task[t], x.new.task[t])
          BY DEF SessionOK, Wrote
        <4>2. TaskExists(x.snap.task[t]) /\ SameBudget(x.new.task[t], x.snap.task[t])
          BY <4>1, <2>2, <3>3 DEF TaskWrite, Creates, TaskExists
        <4>3. TaskExists(d.task[t]) /\ SameBudget(d.task[t], x.snap.task[t])
          BY <4>2 DEF SessionOK, CurrentTasks
        <4>4. TaskExists(e.task[t]) /\ SameBudget(e.task[t], d.task[t])
          BY <3>3, <1>3, <4>3
        <4>5. e.task[t].max_attempts \in Attempts
          BY CommitTask DEF OpsTask
        <4>6. e.task[t].max_attempts >= 1
          BY <4>5, AttemptNumbers
        <4> QED BY <2>2, <3>1, <4>2, <4>3, <4>4, <4>6 DEF SameBudget
      <3> QED BY <3>2, <3>3
    <2>3. CASE /\ a > 1 /\ x.op = "dispatch_retries"
               /\ x.snap.exec[t][s][a - 1].status = "RETRYING"
               /\ x.new.exec[t][s][a - 1].status = "FAILED"
               /\ can_retry(x.snap.task[t], a - 1)
      <3>1. a - 1 \in Attempts /\ a \in Nat
        BY <2>3, AttemptNumbers
      <3>2. d.exec[t][s][a - 1].status = "RETRYING"
        BY <2>1, <2>3 DEF SessionOK, CurrentRows
      <3>3. /\ TaskExists(d.task[t]) /\ ~Creates(x, t) /\ s \in d.task[t].targets
            /\ \A n \in Attempts : n < a - 1 => d.exec[t][s][n].status = "FAILED" /\ Stays(n)
        BY <3>1, <3>2, <1>1
      <3>4. can_retry(d.task[t], a - 1)
        BY <2>3, <3>1, BudgetNow
      <3>5. e.exec[t][s][a - 1].status = "FAILED"
        BY <2>3, <3>1, <1>2
      <3>6. ASSUME NEW b \in Attempts, b < a PROVE e.exec[t][s][b].status = "FAILED"
        <4>1. b = a - 1 \/ b < a - 1
          BY <3>6, <3>1, AttemptNumbers
        <4> QED BY <4>1, <3>3, <3>5, <1>2
      <3>7. d.task[t].max_attempts \in Nat
        <4>1. d.task[t].max_attempts \in Attempts
          BY DEF IsDatabase, OpsTask
        <4> QED BY <4>1, AttemptNumbers
      <3>8. a <= d.task[t].max_attempts
        BY <3>1, <3>4, <3>7 DEF can_retry
      <3> QED BY <3>3, <3>6, <3>8, <1>3 DEF SameBudget
    <2> QED BY <2>1, <2>2, <2>3 DEF InsertOK
  <1> QED BY <1>4, <1>5

\* The tables after a commit.
LEMMA CommitTables ==
    ASSUME NEW d, NEW e, NEW r, NEW x, IsDatabase(d), TableOK(d), SessionOK(x, d, r),
           Committed(d, x, e), NoConflict(d, x), WaitsForRetry(d, r), KeysUnique(d.task)
    PROVE  IsDatabase(e) /\ TableOK(e) /\ WaitsForRetry(e, r) /\ KeysUnique(e.task)
  <1>1. IsDatabase(e)
    <2>1. \A t \in Tasks : e.task[t] \in OpsTask
      BY CommitTask
    <2>2. \A t \in Tasks, s \in Servers, a \in Attempts : e.exec[t][s][a] \in OpsTaskExecution
      BY CommitRow
    <2>3. /\ e.task = [t \in Tasks |-> e.task[t]]
          /\ e.exec = [t \in Tasks |-> [s \in Servers |-> [a \in Attempts |-> e.exec[t][s][a]]]]
      BY DEF Committed
    <2> QED BY <2>1, <2>2, <2>3, TablesOf
  <1>2. TableOK(e)
    <2>1. \A t \in Tasks : /\ e.task[t].status # "DELETED"
                           /\ e.task[t].status = "ABSENT" => e.task[t] = NoTask
      BY CommitTask
    <2>2. \A t \in Tasks, s \in Servers, a \in Attempts :
              /\ RowOK(a, e.exec[t][s][a])
              /\ e.exec[t][s][a].status # "ABSENT" => TaskExists(e.task[t])
      BY CommitRow, CommitChain
    <2>3. \A t \in Tasks : Chain(e.task[t], e.exec[t])
      BY CommitChain DEF Chain
    <2> QED BY <2>1, <2>2, <2>3 DEF TableOK
  <1>3. WaitsForRetry(e, r)
    BY CommitRow DEF WaitsForRetry
  <1>4. KeysUnique(e.task)
    <2> SUFFICES ASSUME NEW t \in Tasks, NEW u \in Tasks,
                        TaskExists(e.task[t]), TaskExists(e.task[u]),
                        e.task[t].key = e.task[u].key, e.task[t].key # NoKey
                 PROVE  t = u
      BY DEF KeysUnique
    <2>1. \A v \in Tasks : ~Creates(x, v) =>
              /\ TaskExists(e.task[v]) => TaskExists(d.task[v])
              /\ e.task[v].key = d.task[v].key
      BY CommitTask DEF SameBudget
    <2>2. ASSUME NEW v \in Tasks, NEW o \in Tasks, Creates(x, v), ~Creates(x, o),
                 TaskExists(e.task[o]), e.task[v].key = e.task[o].key, e.task[v].key # NoKey
          PROVE  FALSE
      <3>1. e.task[v] = x.new.task[v]
        BY <2>2, CommitTask
      <3>2. TaskExists(d.task[o]) /\ d.task[o].key = x.new.task[v].key
        BY <2>1, <2>2, <3>1
      <3>3. get_by_idempotency_key(d, x.new.task[v].key) = {}
        BY <2>2 DEF NoConflict
      <3> QED BY <2>2, <3>1, <3>2, <3>3 DEF get_by_idempotency_key
    <2>3. CASE Creates(x, t) /\ Creates(x, u)
      BY <2>3 DEF SessionOK, Wrote
    <2>4. CASE ~Creates(x, t) /\ ~Creates(x, u)
      BY <2>4, <2>1 DEF KeysUnique
    <2> QED BY <2>2, <2>3, <2>4
  <1> QED BY <1>1, <1>2, <1>3, <1>4

\* Another session that is open does not notice the commit where it matters.
LEMMA CommitCurrent ==
    ASSUME NEW d, NEW e, NEW r, NEW x, NEW y, IsDatabase(d), TableOK(d),
           SessionOK(x, d, r), SessionOK(y, d, r), Apart(x, y), Apart(y, x),
           Committed(d, x, e), NoConflict(d, x)
    PROVE  SessionOK(y, e, r)
  <1>1. CurrentTasks(y, e)
    <2> SUFFICES ASSUME NEW t \in Tasks
                 PROVE  /\ TaskExists(y.snap.task[t]) =>
                               TaskExists(e.task[t]) /\ SameBudget(e.task[t], y.snap.task[t])
                        /\ Creates(y, t) => e.task[t].status = "ABSENT"
      BY DEF CurrentTasks
    <2>1. /\ TaskExists(y.snap.task[t]) =>
                 TaskExists(d.task[t]) /\ SameBudget(d.task[t], y.snap.task[t])
          /\ Creates(y, t) => d.task[t].status = "ABSENT"
      BY DEF SessionOK, CurrentTasks
    <2>2. ~(Creates(x, t) /\ Creates(y, t))
      BY DEF Apart
    <2>3. /\ Creates(x, t) => d.task[t].status = "ABSENT"
          /\ ~Creates(x, t) => /\ TaskExists(e.task[t]) <=> TaskExists(d.task[t])
                               /\ SameBudget(e.task[t], d.task[t])
                               /\ d.task[t].status = "ABSENT" => e.task[t] = d.task[t]
      BY CommitTask
    <2> QED BY <2>1, <2>2, <2>3 DEF SameBudget, TaskExists
  <1>2. ASSUME NEW t \in Tasks, NEW s \in Servers, NEW a \in Attempts
        PROVE  RowPair(a, e.exec[t][s][a], y.snap.exec[t][s][a], y.new.exec[t][s][a])
    <2> DEFINE C == d.exec[t][s][a]
               S1 == y.snap.exec[t][s][a]
               W1 == y.new.exec[t][s][a]
               S2 == x.snap.exec[t][s][a]
               W2 == x.new.exec[t][s][a]
               tk1 == y.snap.task[t]
               tk2 == x.snap.task[t]
               rr == r[t][s][a]
    <2>1. /\ C \in OpsTaskExecution /\ S1 \in OpsTaskExecution /\ S2 \in OpsTaskExecution
          /\ a \in Nat
      BY RowTypes, AttemptNumbers DEF SessionOK
    <2>2. RowOK(a, C) /\ RowOK(a, S1) /\ RowOK(a, S2)
      BY DEF SessionOK, TableOK
    <2>3. RowWrite(y.op, a, S1, W1, tk1, rr) /\ RowWrite(x.op, a, S2, W2, tk2, rr)
      BY DEF SessionOK, Wrote
    <2>4. RowPair(a, C, S1, W1) /\ RowPair(a, C, S2, W2)
      BY DEF SessionOK, CurrentRows
    <2>5. RowTwo(S1, S2) /\ RowTwo(S2, S1)
      BY DEF Apart
    <2>6. S1.status # "ABSENT" /\ S2.status # "ABSENT" =>
              (can_retry(tk1, a) <=> can_retry(tk2, a))
      BY BudgetNow
    <2>7. S2.status = "ABSENT" /\ W2.status # "ABSENT" => C.status = "ABSENT"
      BY CommitRow DEF Inserts
    <2>8. e.exec[t][s][a] = Merge(C, S2, W2)
      BY DEF Committed
    <2> HIDE DEF C, S1, W1, S2, W2, tk1, tk2, rr
    <2>9. RowPair(a, Merge(C, S2, W2), S1, W1)
      BY <2>1, <2>2, <2>3, <2>4, <2>5, <2>6, <2>7, MergeKeepsPair
    <2> QED BY <2>8, <2>9 DEF S1, W1
  <1>3. ASSUME NEW t \in Tasks, NEW s \in Servers, NEW a \in Attempts,
               Inserts(y, t, s, a), a > 1
        PROVE  e.exec[t][s][a - 1].status = "RETRYING"
    <2>1. a - 1 \in Attempts
      BY <1>3, AttemptNumbers
    <2>2. d.exec[t][s][a - 1].status = "RETRYING"
      BY <1>3 DEF SessionOK, CurrentRows
    <2>3. x.new.exec[t][s][a - 1].status = x.snap.exec[t][s][a - 1].status
      BY <1>3 DEF Apart
    <2>4. \A n \in Attempts :
              x.new.exec[t][s][n].status = x.snap.exec[t][s][n].status =>
                  e.exec[t][s][n].status = d.exec[t][s][n].status
      BY CommitRow
    <2> QED BY <2>1, <2>2, <2>3, <2>4
  <1>4. ASSUME NEW t \in Tasks, NEW s \in Servers, NEW a \in Attempts, NEW b \in Attempts,
               e.exec[t][s][a].status # "ABSENT", b < a
        PROVE  y.new.exec[t][s][b].status = y.snap.exec[t][s][b].status
    <2>1. CASE d.exec[t][s][a].status # "ABSENT"
      BY <1>4, <2>1 DEF SessionOK, CurrentRows
    <2>2. CASE d.exec[t][s][a].status = "ABSENT"
      <3>1. Inserts(x, t, s, a)
        BY <1>4, <2>2, CommitRow
      <3>2. a > 1 /\ a - 1 \in Attempts /\ (b = a - 1 \/ b < a - 1)
        BY <1>4, AttemptNumbers
      <3>3. CASE b = a - 1
        BY <3>1, <3>2, <3>3 DEF Apart
      <3>4. CASE b < a - 1
        <4>1. d.exec[t][s][a - 1].status = "RETRYING"
          BY <3>1, <3>2 DEF SessionOK, CurrentRows
        <4> QED BY <3>2, <3>4, <4>1 DEF SessionOK, CurrentRows
      <3> QED BY <3>2, <3>3, <3>4
    <2> QED BY <2>1, <2>2
  <1>5. CurrentRows(y, e)
    BY <1>2, <1>3, <1>4 DEF CurrentRows
  <1> QED BY <1>1, <1>5 DEF SessionOK

\* A commit keeps the invariant.
LEMMA CommitInv ==
    ASSUME TxInv, NEW w \in Sessions, CommitSession(w)
    PROVE  /\ TxInv'
           /\ SessionOK(session[w], db, sent)
           /\ Committed(db, session[w], db')
           /\ NoConflict(db, session[w])
  <1> DEFINE x == session[w]
             e == db'
  <1>1. /\ x.op # "closed" /\ ~InsertConflict(x)
        /\ task' = [t \in Tasks |-> Merge(task[t], x.snap.task[t], x.new.task[t])]
        /\ exec' = [t \in Tasks |-> [s \in Servers |-> [a \in Attempts |->
               Merge(exec[t][s][a], x.snap.exec[t][s][a], x.new.exec[t][s][a])]]]
        /\ session' = [session EXCEPT ![w] = Closed]
        /\ sent' = sent
    BY DEF CommitSession, EachRow
  <1>2. /\ db.task = task /\ db.exec = exec /\ e.task = task' /\ e.exec = exec'
        /\ IsDatabase(db)
    BY DEF db, TxInv, TypeOK, IsDatabase, Rows
  <1>3. /\ session'[w] = Closed
        /\ \A v \in Sessions : v # w => session'[v] = session[v]
        /\ session' = [v \in Sessions |-> session'[v]]
    BY <1>1 DEF TxInv
  <1>4. SessionOK(x, db, sent)
    <2>1. x # Closed
      BY <1>1 DEF Closed
    <2> QED BY <2>1 DEF TxInv, SessionsOK
  <1>5. Committed(db, x, e)
    BY <1>1, <1>2 DEF Committed
  <1>6. NoConflict(db, x)
    <2>1. \A t \in Tasks, s \in Servers, a \in Attempts :
              Inserts(x, t, s, a) => ~Stored(exec[t][s][a])
      BY <1>1 DEF InsertConflict, Inserts
    <2>2. \A t \in Tasks : Creates(x, t) => get_by_idempotency_key(db, x.new.task[t].key) = {}
      BY <1>1 DEF InsertConflict, Creates
    <2> QED BY <2>1, <2>2, <1>2 DEF NoConflict
  <1>7. TableOK(db) /\ WaitsForRetry(db, sent) /\ KeysUnique(db.task)
    BY <1>2 DEF TxInv
  <1> HIDE DEF x, e
  <1>8. IsDatabase(e) /\ TableOK(e) /\ WaitsForRetry(e, sent) /\ KeysUnique(e.task)
    BY <1>2, <1>4, <1>5, <1>6, <1>7, CommitTables
  <1>9. ASSUME NEW v \in Sessions, v # w, session[v] # Closed
        PROVE  SessionOK(session[v], e, sent)
    <2>1. x # Closed
      BY <1>1 DEF Closed
    <2>2. SessionOK(session[v], db, sent) /\ Apart(x, session[v]) /\ Apart(session[v], x)
      BY <1>9, <2>1 DEF TxInv, SessionsOK, x
    <2> QED BY <2>2, <1>2, <1>4, <1>5, <1>6, <1>7, CommitCurrent
  <1>10. SessionsOK(e, sent, session')
    <2>1. \A v \in Sessions : session'[v] = Closed \/ SessionOK(session'[v], e, sent)
      BY <1>3, <1>9
    <2>2. \A u, v \in Sessions : u # v /\ session'[u] # Closed /\ session'[v] # Closed
              => Apart(session'[u], session'[v])
      BY <1>3 DEF TxInv, SessionsOK
    <2> QED BY <2>1, <2>2 DEF SessionsOK
  <1>11. TypeOK'
    BY <1>1, <1>2, <1>8 DEF TxInv, TypeOK, IsDatabase, Rows
  <1>12. TxInv'
    BY <1>1, <1>2, <1>3, <1>8, <1>10, <1>11 DEF TxInv, e
  <1> QED BY <1>4, <1>5, <1>6, <1>12 DEF x, e

\* A session that is rolled back leaves no trace.
LEMMA RollbackInv ==
    ASSUME TxInv, NEW w \in Sessions, RollbackSession(w)
    PROVE  TxInv'
  <1>1. /\ task' = task /\ exec' = exec /\ sent' = sent
        /\ session' = [session EXCEPT ![w] = Closed]
    BY DEF RollbackSession
  <1>2. db' = db
    BY <1>1 DEF db
  <1>3. /\ session'[w] = Closed
        /\ \A v \in Sessions : v # w => session'[v] = session[v]
        /\ session' = [v \in Sessions |-> session'[v]]
    BY <1>1 DEF TxInv
  <1>4. SessionsOK(db, sent, session')
    BY <1>3 DEF TxInv, SessionsOK
  <1>5. TypeOK'
    BY <1>1 DEF TxInv, TypeOK
  <1> QED BY <1>1, <1>2, <1>3, <1>4, <1>5 DEF TxInv

\* Results that come in later do not change what a session may write.
LEMMA LaterReports ==
    ASSUME NEW x, NEW d, NEW r, NEW q, SessionOK(x, d, r),
           \A t \in Tasks, s \in Servers, a \in Attempts :
               r[t][s][a] # NoReport => q[t][s][a] = r[t][s][a]
    PROVE  SessionOK(x, d, q)
  <1>1. ~Retryable(NoReport)
    BY DEF Retryable, NoReport, is_retryable, classify_error, RETRYABLE_ERROR_TYPES,
           UNKNOWN_ERROR_TYPE
  <1>2. ASSUME NEW t \in Tasks, NEW s \in Servers, NEW a \in Attempts
        PROVE  RowWrite(x.op, a, x.snap.exec[t][s][a], x.new.exec[t][s][a],
                        x.snap.task[t], q[t][s][a])
    <2>1. RowWrite(x.op, a, x.snap.exec[t][s][a], x.new.exec[t][s][a],
                   x.snap.task[t], r[t][s][a])
      BY DEF SessionOK, Wrote
    <2>2. CASE q[t][s][a] = r[t][s][a]
      BY <2>1, <2>2
    <2>3. CASE r[t][s][a] = NoReport
      BY <2>1, <2>3, <1>1 DEF RowWrite
    <2> QED BY <2>2, <2>3
  <1>3. Wrote(x, q)
    BY <1>2 DEF SessionOK, Wrote
  <1> QED BY <1>3 DEF SessionOK

\* An agent runs what it was handed.
LEMMA ExecuteTxInv ==
    ASSUME TxInv, NEW t \in Tasks, NEW s \in Servers, NEW a \in Attempts,
           AgentExecute(t, s, a), UNCHANGED session
    PROVE  TxInv'
  <1>1. PICK result \in Reports : sent' = [sent EXCEPT ![t][s][a] = result]
    BY DEF AgentExecute
  <1>2. task' = task /\ exec' = exec /\ session' = session /\ sent[t][s][a] = NoReport
    BY DEF AgentExecute
  <1>3. db' = db
    BY <1>2 DEF db
  <1>4. TypeOK'
    BY <1>1, <1>2 DEF TxInv, TypeOK
  <1>5. \A u \in Tasks, q \in Servers, b \in Attempts :
            sent[u][q][b] # NoReport => sent'[u][q][b] = sent[u][q][b]
    BY <1>1, <1>2 DEF TxInv, TypeOK
  <1>6. ~Retryable(NoReport)
    BY DEF Retryable, NoReport, is_retryable, classify_error, RETRYABLE_ERROR_TYPES,
           UNKNOWN_ERROR_TYPE
  <1>7. WaitsForRetry(db, sent')
    BY <1>5, <1>6 DEF TxInv, WaitsForRetry
  <1>8. SessionsOK(db, sent', session)
    <2>1. ASSUME NEW w \in Sessions, session[w] # Closed
          PROVE  SessionOK(session[w], db, sent')
      <3>1. SessionOK(session[w], db, sent)
        BY <2>1 DEF TxInv, SessionsOK
      <3> QED BY <3>1, <1>5, LaterReports
    <2> QED BY <2>1 DEF TxInv, SessionsOK
  <1> QED BY <1>2, <1>3, <1>4, <1>7, <1>8 DEF TxInv

\* A row that was never started does not age.
LEMMA IdleRows ==
    ASSUME NEW tk
    PROVE  /\ LaterRow(tk, NoExecution) = NoExecution
           /\ LaterRow(tk, NewExecution) = NewExecution
  <1>1. CountDown(0) = 0
    BY DEF CountDown
  <1>2. ASSUME NEW e \in OpsTaskExecution, e.status \notin Terminal \cup {"RUNNING"},
               e.ran = 0, e.wait = 0, e.ended = 0
        PROVE  LaterRow(tk, e) = e
    <2>1. LaterRow(tk, e) = [e EXCEPT !.ran = 0, !.wait = 0, !.ended = 0]
      BY <1>1, <1>2 DEF LaterRow
    <2> QED BY <1>2, <2>1 DEF OpsTaskExecution
  <1>3. NoExecution.ran = 0 /\ NoExecution.wait = 0 /\ NoExecution.ended = 0
    BY DEF NoExecution
  <1>4. NewExecution.ran = 0 /\ NewExecution.wait = 0 /\ NewExecution.ended = 0
    BY DEF NewExecution, NoExecution
  <1>5. LaterRow(tk, NoExecution) = NoExecution
    BY <1>2, <1>3, NewRow DEF Terminal
  <1>6. LaterRow(tk, NewExecution) = NewExecution
    BY <1>2, <1>4, NewRow DEF Terminal
  <1> QED BY <1>5, <1>6

\* Time passes for the tables.
LEMMA TickTxInv ==
    ASSUME TxInv, Idle, Tick, UNCHANGED session
    PROVE  /\ TxInv'
           /\ \A t \in Tasks, s \in Servers, a \in Attempts :
                  exec'[t][s][a].status = exec[t][s][a].status
  <1>1. /\ task' = [t \in Tasks |-> LaterTask(task[t])]
        /\ exec' = [t \in Tasks |-> [s \in Servers |-> [a \in Attempts |->
               LaterRow(task[t], exec[t][s][a])]]]
        /\ sent' = sent /\ session' = session
    BY DEF Tick, Commit, TimePasses, db, EachRow
  <1>2. /\ task \in [Tasks -> OpsTask]
        /\ exec \in [Tasks -> [Servers -> [Attempts -> OpsTaskExecution]]]
        /\ db.task = task /\ db.exec = exec /\ db'.task = task' /\ db'.exec = exec'
    BY DEF TxInv, TypeOK, db
  <1>3. EndedCap \in Nat
    BY TableAssumption DEF EndedCap
  <1>4. ASSUME NEW tk \in OpsTask
        PROVE  /\ LaterTask(tk) \in OpsTask
               /\ LaterTask(tk).status = tk.status /\ LaterTask(tk).key = tk.key
               /\ LaterTask(tk).targets = tk.targets
               /\ LaterTask(tk).max_attempts = tk.max_attempts
    BY <1>3, TimersAreNat DEF LaterTask, OpsTask
  <1>5. LaterTask(NoTask) = NoTask
    <2>1. /\ NoTask.status \notin Terminal /\ NoTask.left = 0 /\ NoTask.cron_wait = 0
          /\ NoTask.ended = 0
      BY DEF NoTask, Terminal
    <2>2. CountDown(0) = 0
      BY DEF CountDown
    <2>3. LaterTask(NoTask) = [NoTask EXCEPT !.left = 0, !.cron_wait = 0, !.ended = 0]
      BY <2>1, <2>2 DEF LaterTask
    <2>4. NoTask \in OpsTask
      BY TableAssumption DEF NoTask, OpsTask, Attempts
    <2>5. [NoTask EXCEPT !.left = 0, !.cron_wait = 0, !.ended = 0] = NoTask
      BY <2>1, <2>4 DEF OpsTask
    <2> QED BY <2>3, <2>5
  <1>6. ASSUME NEW t \in Tasks, NEW s \in Servers, NEW a \in Attempts
        PROVE  /\ exec'[t][s][a] \in OpsTaskExecution
               /\ exec'[t][s][a].status = exec[t][s][a].status
               /\ RowOK(a, exec'[t][s][a])
    <2> DEFINE C == exec[t][s][a]
               M == exec'[t][s][a]
               b == backoff_seconds(a)
    <2>1. /\ C \in OpsTaskExecution /\ a \in Nat /\ b \in Nat /\ b > 0
          /\ C.ran \in Nat /\ C.wait \in Nat /\ C.ended \in Nat
      BY <1>2, AttemptNumbers, BackoffPositive DEF OpsTaskExecution
    <2>2. RowOK(a, C)
      BY <1>2 DEF TxInv, TableOK
    <2>3. M = LaterRow(task[t], C)
      BY <1>1
    <2>4. task[t] \in OpsTask /\ task[t].timeout + 1 \in Nat
      BY <1>2 DEF OpsTask
    <2> HIDE DEF C, M, b
    <2>5. /\ M \in OpsTaskExecution /\ M.status = C.status /\ M.gone = C.gone
          /\ M.wait = CountDown(C.wait)
          /\ M.ran = IF C.status = "RUNNING" THEN CountUp(C.ran, task[t].timeout + 1) ELSE C.ran
      BY <2>1, <2>3, <2>4, <1>3, TimersAreNat DEF LaterRow, OpsTaskExecution
    <2>6. M.wait \in Nat /\ M.wait <= C.wait /\ (C.wait > 0 => M.wait < C.wait)
      BY <2>1, <2>5 DEF CountDown
    <2>7. C.status = "ABSENT" => M = NoExecution
      <3>1. LaterRow(task[t], NoExecution) = NoExecution
        BY IdleRows
      <3> QED BY <2>2, <2>3, <3>1 DEF RowOK
    <2>8. C.status = "PENDING" => M = NewExecution
      <3>1. LaterRow(task[t], NewExecution) = NewExecution
        BY IdleRows
      <3> QED BY <2>2, <2>3, <3>1 DEF RowOK
    <2>9. C.wait <= b
      BY <2>2 DEF RowOK, b
    <2>10. M.wait <= b /\ M.wait < b
      BY <2>1, <2>6, <2>9
    <2>11. RowOK(a, M)
      BY <2>2, <2>5, <2>7, <2>8, <2>10 DEF RowOK, b
    <2> QED BY <2>5, <2>11 DEF C, M
  <1>7. TypeOK'
    <2>1. task' \in [Tasks -> OpsTask]
      BY <1>1, <1>2, <1>4
    <2>2. exec' \in [Tasks -> [Servers -> [Attempts -> OpsTaskExecution]]]
      BY <1>1, <1>6
    <2> QED BY <1>1, <2>1, <2>2 DEF TxInv, TypeOK
  <1>8. \A t \in Tasks : /\ task'[t].status = task[t].status /\ task'[t].key = task[t].key
                         /\ task'[t].targets = task[t].targets
                         /\ task'[t].max_attempts = task[t].max_attempts
                         /\ task[t].status = "ABSENT" => task'[t] = NoTask
    BY <1>1, <1>2, <1>4, <1>5 DEF TxInv, TableOK
  <1>9. TableOK(db')
    <2>1. \A t \in Tasks : Chain(task'[t], exec'[t])
      <3>1. \A t \in Tasks : Chain(task[t], exec[t])
        BY <1>2 DEF TxInv, TableOK
      <3> QED BY <3>1, <1>6, <1>8 DEF Chain
    <2>2. \A t \in Tasks, s \in Servers, a \in Attempts :
              exec'[t][s][a].status # "ABSENT" => TaskExists(task'[t])
      BY <1>2, <1>6, <1>8 DEF TxInv, TableOK, TaskExists
    <2>3. \A t \in Tasks : task'[t].status # "DELETED"
      BY <1>2, <1>8 DEF TxInv, TableOK
    <2> QED BY <1>2, <1>6, <1>8, <2>1, <2>2, <2>3 DEF TableOK
  <1>10. WaitsForRetry(db', sent)
    BY <1>2, <1>6 DEF TxInv, WaitsForRetry
  <1>11. KeysUnique(task')
    BY <1>8 DEF TxInv, KeysUnique, TaskExists
  <1>12. SessionsOK(db', sent, session)
    BY DEF Idle, SessionsOK
  <1> QED BY <1>1, <1>6, <1>7, <1>9, <1>10, <1>11, <1>12 DEF TxInv

\* Every handler that begins keeps the invariant.
LEMMA HandlersBegin ==
    ASSUME TxInv, NEW w \in Sessions,
           \/ \E t \in Tasks, data \in TaskCreate : BeginCreate(w, t, data)
           \/ \E t \in Tasks : BeginConfirm(w, t) \/ BeginCancel(w, t)
           \/ \E s \in Servers : BeginFetch(w, s)
           \/ \E t \in Tasks, s \in Servers, a \in Attempts : BeginReport(w, t, s, a)
           \/ BeginScanTimeouts(w) \/ BeginDispatchRetries(w) \/ BeginFireDueCron(w)
    PROVE  TxInv' /\ exec' = exec
  <1>0. TypeOK /\ TableOK(db)
    BY DEF TxInv
  <1> DEFINE Plain(op, new) == /\ Begin(w, op, new) /\ IsDatabase(new)
                               /\ Wrote(Started(op, new), sent)
  <1>1. ASSUME NEW op \in Jobs \cup {"confirm", "cancel", "fetch", "report"}, NEW new,
               Plain(op, new), op \in Jobs => \A v \in Sessions : session[v].op # op
        PROVE  TxInv' /\ exec' = exec
    <2>1. op # "create" /\ op # "closed"
      BY DEF Jobs
    <2>2. \A t \in Tasks : ~Creates(Started(op, new), t)
      BY <1>1, <2>1, StartedFields DEF Wrote, TaskWrite, Creates
    <2>3. TxInv'
      BY <1>1, <2>1, <2>2, BeginInv
    <2> QED BY <1>1, <2>3 DEF Begin
  <1>2. ASSUME NEW t \in Tasks, NEW data \in TaskCreate, BeginCreate(w, t, data)
        PROVE  TxInv' /\ exec' = exec
    <2> DEFINE new == create_task(db, t, data)
    <2>1. /\ task[t].status = "ABSENT" /\ Begin(w, "create", new)
          /\ \A v \in Sessions : session[v].new.task[t].status = "ABSENT" \/ session[v].op # "create"
      BY <1>2 DEF BeginCreate
    <2>2. /\ IsDatabase(new) /\ Wrote(Started("create", new), sent)
          /\ \A u \in Tasks : Creates(Started("create", new), u) => u = t
      BY <1>0, <2>1, CreateWrites
    <2> HIDE DEF new
    <2>3. ASSUME NEW v \in Sessions, session[v] # Closed
          PROVE  ~Creates(session[v], t)
      <3>1. TaskWrite(session[v].op, session[v].snap.task[t], session[v].new.task[t])
        BY <2>3 DEF TxInv, SessionsOK, SessionOK, Wrote
      <3> QED BY <2>1, <3>1 DEF TaskWrite, Creates
    <2>4. TxInv'
      <3>1. "create" \notin Jobs
        BY DEF Jobs
      <3> QED BY <2>1, <2>2, <2>3, <3>1, BeginInv
    <2> QED BY <2>1, <2>4 DEF Begin
  <1>3. ASSUME NEW t \in Tasks, BeginConfirm(w, t)
        PROVE  TxInv' /\ exec' = exec
    <2>1. task[t].status = "CREATED" /\ Begin(w, "confirm", confirm_task(db, t))
      BY <1>3 DEF BeginConfirm
    <2>2. Plain("confirm", confirm_task(db, t))
      BY <1>0, <2>1, ConfirmWrites
    <2> HIDE DEF Plain
    <2> QED BY <2>2, <1>1 DEF Jobs
  <1>4. ASSUME NEW t \in Tasks, BeginCancel(w, t)
        PROVE  TxInv' /\ exec' = exec
    <2>1. TaskExists(task[t]) /\ Begin(w, "cancel", cancel_task(db, t))
      BY <1>4 DEF BeginCancel
    <2>2. Plain("cancel", cancel_task(db, t))
      BY <1>0, <2>1, CancelWrites
    <2> HIDE DEF Plain
    <2> QED BY <2>2, <1>1 DEF Jobs
  <1>5. ASSUME NEW s \in Servers, BeginFetch(w, s)
        PROVE  TxInv' /\ exec' = exec
    <2>1. PICK batch \in SUBSET fetch_pending_by_server(db, s) :
              Begin(w, "fetch", fetch_pending(db, s, batch))
      BY <1>5 DEF BeginFetch, Limited
    <2>2. Plain("fetch", fetch_pending(db, s, batch))
      BY <1>0, <2>1, FetchWrites
    <2> HIDE DEF Plain
    <2> QED BY <2>2, <1>1 DEF Jobs
  <1>6. ASSUME NEW t \in Tasks, NEW s \in Servers, NEW a \in Attempts, BeginReport(w, t, s, a)
        PROVE  TxInv' /\ exec' = exec
    <2>1. /\ sent[t][s][a] # NoReport /\ Stored(exec[t][s][a])
          /\ exec[t][s][a].status \notin Terminal
          /\ Begin(w, "report", report_result(db, t, s, a, sent[t][s][a]))
      BY <1>6 DEF BeginReport
    <2>2. Plain("report", report_result(db, t, s, a, sent[t][s][a]))
      BY <1>0, <2>1, ReportWrites
    <2> HIDE DEF Plain
    <2> QED BY <2>2, <1>1 DEF Jobs
  <1>7. CASE BeginScanTimeouts(w)
    <2>1. Plain("scan_timeouts", scan_timeouts(db)) /\ \A v \in Sessions : session[v].op # "scan_timeouts"
      BY <1>0, <1>7, ScanWrites DEF BeginScanTimeouts, BeginJob
    <2> HIDE DEF Plain
    <2> QED BY <2>1, <1>1 DEF Jobs
  <1>8. CASE BeginDispatchRetries(w)
    <2>1. PICK batch \in SUBSET list_due_retries(db) :
              BeginJob(w, "dispatch_retries", dispatch_retries(db, batch))
      BY <1>8 DEF BeginDispatchRetries, Limited
    <2>2. /\ Plain("dispatch_retries", dispatch_retries(db, batch))
          /\ \A v \in Sessions : session[v].op # "dispatch_retries"
      BY <1>0, <2>1, DispatchWrites DEF BeginJob
    <2> HIDE DEF Plain
    <2> QED BY <2>2, <1>1 DEF Jobs
  <1>9. CASE BeginFireDueCron(w)
    <2>1. Plain("fire_due_cron", fire_due_cron(db)) /\ \A v \in Sessions : session[v].op # "fire_due_cron"
      BY <1>0, <1>9, CronWrites DEF BeginFireDueCron, BeginJob
    <2> HIDE DEF Plain
    <2> QED BY <2>1, <1>1 DEF Jobs
  <1> QED BY <1>2, <1>3, <1>4, <1>5, <1>6, <1>7, <1>8, <1>9

\* A further attempt only ever follows one that waits, before the deadline.
OverlapInBudget ==
    \A t \in Tasks, s \in Servers, a \in Attempts \ {1} :
        exec'[t][s][a].status # "ABSENT" /\ exec[t][s][a].status = "ABSENT" =>
            exec[t][s][a - 1].status = "RETRYING" /\ task[t].left > 0

\* Only a commit adds attempts, and it adds them within the budget.
LEMMA CommitInBudget ==
    ASSUME TxInv, NEW w \in Sessions, CommitSession(w)
    PROVE  OverlapInBudget
  <1> DEFINE x == session[w]
             e == db'
  <1>1. /\ SessionOK(x, db, sent) /\ Committed(db, x, e) /\ NoConflict(db, x)
        /\ IsDatabase(db) /\ TableOK(db)
        /\ db.task = task /\ db.exec = exec /\ e.exec = exec'
    BY CommitInv DEF TxInv, TypeOK, IsDatabase, Rows, db
  <1> HIDE DEF x, e
  <1> SUFFICES ASSUME NEW t \in Tasks, NEW s \in Servers, NEW a \in Attempts, a # 1,
                      e.exec[t][s][a].status # "ABSENT", db.exec[t][s][a].status = "ABSENT"
               PROVE  db.exec[t][s][a - 1].status = "RETRYING" /\ db.task[t].left > 0
    BY <1>1 DEF OverlapInBudget
  <1>2. Inserts(x, t, s, a) /\ a > 1 /\ a - 1 \in Attempts
    BY <1>1, CommitRow, AttemptNumbers
  <1>3. db.exec[t][s][a - 1].status = "RETRYING"
    BY <1>1, <1>2 DEF SessionOK, CurrentRows
  <1>4. /\ x.snap.exec[t][s][a - 1].status = "RETRYING"
        /\ can_retry(x.snap.task[t], a - 1)
    BY <1>1, <1>2 DEF SessionOK, Wrote, InsertOK
  <1>5. can_retry(db.task[t], a - 1)
    BY <1>1, <1>2, <1>4, BudgetNow
  <1> QED BY <1>3, <1>5 DEF can_retry

\* Every step keeps the invariant and the budget.
LEMMA TxSteps ==
    ASSUME TxInv, [TxNext]_txVars
    PROVE  TxInv' /\ OverlapInBudget
  <1>1. ASSUME NEW w \in Sessions, CommitSession(w)
        PROVE  TxInv' /\ OverlapInBudget
    BY <1>1, CommitInv, CommitInBudget
  <1>2. ASSUME NEW w \in Sessions, RollbackSession(w)
        PROVE  TxInv' /\ OverlapInBudget
    BY <1>2, RollbackInv DEF RollbackSession, OverlapInBudget
  <1>3. ASSUME NEW t \in Tasks, NEW s \in Servers, NEW a \in Attempts,
               AgentExecute(t, s, a), UNCHANGED session
        PROVE  TxInv' /\ OverlapInBudget
    BY <1>3, ExecuteTxInv DEF AgentExecute, OverlapInBudget
  <1>4. CASE Idle /\ Tick /\ UNCHANGED session
    BY <1>4, TickTxInv DEF OverlapInBudget
  <1>5. CASE UNCHANGED txVars
    <2>1. task' = task /\ exec' = exec /\ sent' = sent /\ session' = session
      BY <1>5 DEF txVars
    <2>2. db' = db
      BY <2>1 DEF db
    <2> QED BY <2>1, <2>2 DEF TxInv, TypeOK, OverlapInBudget
  <1>6. ASSUME NEW w \in Sessions,
               \/ \E t \in Tasks, data \in TaskCreate : BeginCreate(w, t, data)
               \/ \E t \in Tasks : BeginConfirm(w, t) \/ BeginCancel(w, t)
               \/ \E s \in Servers : BeginFetch(w, s)
               \/ \E t \in Tasks, s \in Servers, a \in Attempts : BeginReport(w, t, s, a)
               \/ BeginScanTimeouts(w) \/ BeginDispatchRetries(w) \/ BeginFireDueCron(w)
        PROVE  TxInv' /\ OverlapInBudget
    BY <1>6, HandlersBegin DEF OverlapInBudget
  <1> QED BY <1>1, <1>2, <1>3, <1>4, <1>5, <1>6 DEF TxNext

\* However sessions overlap, the invariant holds.
THEOREM TxInvariance == TxSpec => []TxInv
  <1>1. TxInit => TxInv
    <2> SUFFICES ASSUME TxInit PROVE TxInv
      OBVIOUS
    <2>1. Init /\ session = [w \in Sessions |-> Closed]
      BY DEF TxInit
    <2>2. /\ TypeOK
          /\ task = [t \in Tasks |-> NoTask]
          /\ exec = [t \in Tasks |-> [s \in Servers |-> [a \in Attempts |-> NoExecution]]]
      BY <2>1, InitInv DEF IInv, Init, EmptyDatabase, EachRow
    <2>3. NoTask.status = "ABSENT" /\ ~TaskExists(NoTask)
      BY DEF NoTask, TaskExists
    <2>4. ASSUME NEW a \in Attempts PROVE RowOK(a, NoExecution)
      <3>1. a \in Nat /\ backoff_seconds(a) \in Nat
        BY AttemptNumbers, BackoffPositive
      <3> QED BY <3>1 DEF RowOK, NoExecution
    <2>5. \A t \in Tasks, s \in Servers, a \in Attempts : exec[t][s][a] = NoExecution
      BY <2>2
    <2>6. \A t \in Tasks : task[t] = NoTask /\ Chain(task[t], exec[t])
      BY <2>2, <2>5, NewRow DEF Chain
    <2>7. TableOK(db)
      BY <2>3, <2>4, <2>5, <2>6, DbFields, NewRow DEF TableOK
    <2>8. WaitsForRetry(db, sent)
      BY <2>5, DbFields, NewRow DEF WaitsForRetry
    <2>9. KeysUnique(task)
      BY <2>3, <2>6 DEF KeysUnique
    <2>10. SessionsOK(db, sent, session) /\ session = [w \in Sessions |-> session[w]]
      BY <2>1 DEF SessionsOK
    <2> QED BY <2>2, <2>7, <2>8, <2>9, <2>10 DEF TxInv
  <1>2. TxInv /\ [TxNext]_txVars => TxInv'
    BY TxSteps
  <1> QED BY <1>1, <1>2, PTL DEF TxSpec

\* Two requests with one Idempotency-Key, however they overlap, leave one task.
THEOREM KeyCorrect == TxSpec => []OneTaskPerKey
  <1>1. TxInv => OneTaskPerKey
    BY DEF TxInv, KeysUnique, OneTaskPerKey
  <1> QED BY TxInvariance, <1>1, PTL

\* Reports, timeouts, cancellations and dispatches that overlap never fork the
\* attempts of a target.
THEOREM OverlapChainCorrect == TxSpec => []RetryChain
  <1>1. TxInv => RetryChain
    <2> SUFFICES ASSUME TxInv, NEW t \in Tasks, NEW s \in Servers, NEW a \in Attempts,
                        exec[t][s][a].status # "ABSENT"
                 PROVE  /\ s \in task[t].targets
                        /\ a <= task[t].max_attempts
                        /\ \A b \in 1..(a - 1) : exec[t][s][b].status = "FAILED"
      BY DEF RetryChain, Present
    <2>1. Chain(task[t], exec[t])
      BY DbFields DEF TxInv, TableOK
    <2>2. \A b \in 1..(a - 1) : b \in Attempts /\ b < a
      BY TableAssumption DEF Attempts
    <2> QED BY <2>1, <2>2 DEF Chain
  <1> QED BY TxInvariance, <1>1, PTL

\* A further attempt is only ever inserted within the budget of the task,
\* however sessions overlap.
THEOREM OverlapBudgetCorrect == TxSpec => OverlapKeepsBudget
  <1>1. TxInv /\ [TxNext]_txVars => OverlapInBudget
    BY TxSteps
  <1>2. OverlapInBudget =>
            [\A t \in Tasks, s \in Servers, a \in Attempts \ {1} :
                 Present(t, s, a)' /\ ~Present(t, s, a) =>
                     exec[t][s][a - 1].status = "RETRYING" /\ task[t].left > 0]_txVars
    BY DEF OverlapInBudget, Present
  <1> QED BY TxInvariance, <1>1, <1>2, PTL DEF TxSpec, OverlapKeepsBudget

-----------------------------------------------------------------------------
(* One session at a time: TaskTransactions implements TaskService. *)

\* A handler that reads the tables d and the reports r may start, and makes new
\* of what it reads.
Handles(d, r, new) ==
    \/ \E t \in Tasks, data \in TaskCreate :
           /\ d.task[t].status = "ABSENT" /\ get_by_idempotency_key(d, data.key) = {}
           /\ validate_service_whitelist(data)
           /\ new = create_task(d, t, data)
    \/ \E t \in Tasks : d.task[t].status = "CREATED" /\ new = confirm_task(d, t)
    \/ \E t \in Tasks : /\ TaskExists(d.task[t]) /\ d.task[t].status \notin Terminal
                        /\ new = cancel_task(d, t)
    \/ \E s \in Servers : /\ fetch_pending_by_server(d, s) # {}
                          /\ \E batch \in Limited(fetch_pending_by_server(d, s), FetchLimit) :
                                 new = fetch_pending(d, s, batch)
    \/ \E t \in Tasks, s \in Servers, a \in Attempts :
           /\ r[t][s][a] # NoReport /\ Stored(d.exec[t][s][a])
           /\ d.exec[t][s][a].status \notin Terminal
           /\ new = report_result(d, t, s, a, r[t][s][a])
    \/ /\ \E t \in Tasks : d.task[t].status = "RUNNING" /\ expired_rows(d, t) # {}
       /\ new = scan_timeouts(d)
    \/ /\ list_due_retries(d) # {}
       /\ \E batch \in Limited(list_due_retries(d), DispatchLimit) :
              new = dispatch_retries(d, batch)
    \/ due_cron(d) # {} /\ cron_insert_conflicts(d) = {} /\ new = fire_due_cron(d)

\* The only session there is has read the tables as they are.
UpToDate(w) ==
    session[w] # Closed => session[w].snap = db /\ Handles(db, sent, session[w].new)

\* A handler that commits what it made is a step of TaskService.
LEMMA HandledIsStep ==
    ASSUME NEW new, Handles(db, sent, new), Commit(new), sent' = sent
    PROVE  Next
  <1>0. db.task = task /\ db.exec = exec
    BY DbFields
  <1>1. CASE \E t \in Tasks, data \in TaskCreate :
                 /\ task[t].status = "ABSENT" /\ get_by_idempotency_key(db, data.key) = {}
                 /\ validate_service_whitelist(data) /\ new = create_task(db, t, data)
    BY <1>1 DEF CreateTask, Next
  <1>2. CASE \E t \in Tasks : task[t].status = "CREATED" /\ new = confirm_task(db, t)
    BY <1>2 DEF ConfirmTask, Next
  <1>3. CASE \E t \in Tasks : /\ TaskExists(task[t]) /\ task[t].status \notin Terminal
                              /\ new = cancel_task(db, t)
    BY <1>3 DEF CancelTask, Next
  <1>4. CASE \E s \in Servers :
                 /\ fetch_pending_by_server(db, s) # {}
                 /\ \E batch \in Limited(fetch_pending_by_server(db, s), FetchLimit) :
                        new = fetch_pending(db, s, batch)
    BY <1>4 DEF FetchPending, Next
  <1>5. CASE \E t \in Tasks, s \in Servers, a \in Attempts :
                 /\ sent[t][s][a] # NoReport /\ Stored(exec[t][s][a])
                 /\ exec[t][s][a].status \notin Terminal
                 /\ new = report_result(db, t, s, a, sent[t][s][a])
    BY <1>5 DEF ReportResult, Next
  <1>6. CASE /\ \E t \in Tasks : task[t].status = "RUNNING" /\ expired_rows(db, t) # {}
             /\ new = scan_timeouts(db)
    BY <1>6 DEF ScanTimeouts, Next
  <1>7. CASE /\ list_due_retries(db) # {}
             /\ \E batch \in Limited(list_due_retries(db), DispatchLimit) :
                    new = dispatch_retries(db, batch)
    BY <1>7 DEF DispatchRetries, Next
  <1>8. CASE /\ due_cron(db) # {} /\ cron_insert_conflicts(db) = {}
             /\ new = fire_due_cron(db)
    BY <1>8 DEF FireDueCron, Next
  <1> QED BY <1>0, <1>1, <1>2, <1>3, <1>4, <1>5, <1>6, <1>7, <1>8 DEF Handles

\* Each handler's session starts with what it has just read.
LEMMA BeginHandles ==
    ASSUME NEW w \in Sessions,
           \/ \E t \in Tasks, data \in TaskCreate : BeginCreate(w, t, data)
           \/ \E t \in Tasks : BeginConfirm(w, t) \/ BeginCancel(w, t)
           \/ \E s \in Servers : BeginFetch(w, s)
           \/ \E t \in Tasks, s \in Servers, a \in Attempts : BeginReport(w, t, s, a)
           \/ BeginScanTimeouts(w) \/ BeginDispatchRetries(w) \/ BeginFireDueCron(w)
    PROVE  \E op, new : Begin(w, op, new) /\ Handles(db, sent, new)
  <1>0. db.task = task /\ db.exec = exec
    BY DbFields
  <1>1. ASSUME NEW t \in Tasks, NEW data \in TaskCreate, BeginCreate(w, t, data)
        PROVE  /\ Begin(w, "create", create_task(db, t, data))
               /\ Handles(db, sent, create_task(db, t, data))
    BY <1>0, <1>1 DEF BeginCreate, Handles
  <1>2. ASSUME NEW t \in Tasks, BeginConfirm(w, t)
        PROVE  /\ Begin(w, "confirm", confirm_task(db, t))
               /\ Handles(db, sent, confirm_task(db, t))
    BY <1>0, <1>2 DEF BeginConfirm, Handles
  <1>3. ASSUME NEW t \in Tasks, BeginCancel(w, t)
        PROVE  /\ Begin(w, "cancel", cancel_task(db, t))
               /\ Handles(db, sent, cancel_task(db, t))
    BY <1>0, <1>3 DEF BeginCancel, Handles
  <1>4. ASSUME NEW s \in Servers, BeginFetch(w, s)
        PROVE  \E new : Begin(w, "fetch", new) /\ Handles(db, sent, new)
    <2>1. PICK batch \in Limited(fetch_pending_by_server(db, s), FetchLimit) :
              Begin(w, "fetch", fetch_pending(db, s, batch))
      BY <1>4 DEF BeginFetch
    <2>2. Handles(db, sent, fetch_pending(db, s, batch))
      BY <1>4, <2>1 DEF BeginFetch, Handles
    <2> QED BY <2>1, <2>2
  <1>5. ASSUME NEW t \in Tasks, NEW s \in Servers, NEW a \in Attempts, BeginReport(w, t, s, a)
        PROVE  /\ Begin(w, "report", report_result(db, t, s, a, sent[t][s][a]))
               /\ Handles(db, sent, report_result(db, t, s, a, sent[t][s][a]))
    BY <1>0, <1>5 DEF BeginReport, Handles
  <1>6. CASE BeginScanTimeouts(w)
    <2>1. /\ Begin(w, "scan_timeouts", scan_timeouts(db))
          /\ Handles(db, sent, scan_timeouts(db))
      BY <1>0, <1>6 DEF BeginScanTimeouts, BeginJob, Handles
    <2> QED BY <2>1
  <1>7. CASE BeginDispatchRetries(w)
    <2>1. PICK batch \in Limited(list_due_retries(db), DispatchLimit) :
              Begin(w, "dispatch_retries", dispatch_retries(db, batch))
      BY <1>7 DEF BeginDispatchRetries, BeginJob
    <2>2. Handles(db, sent, dispatch_retries(db, batch))
      BY <1>7, <2>1 DEF BeginDispatchRetries, Handles
    <2> QED BY <2>1, <2>2
  <1>8. CASE BeginFireDueCron(w)
    <2>1. /\ Begin(w, "fire_due_cron", fire_due_cron(db))
          /\ Handles(db, sent, fire_due_cron(db))
      BY <1>8 DEF BeginFireDueCron, BeginJob, Handles
    <2> QED BY <2>1
  <1> QED BY <1>1, <1>2, <1>3, <1>4, <1>5, <1>6, <1>7, <1>8

\* An agent's result, which no open report is about, changes nothing for the
\* handler.
LEMMA HandlesLater ==
    ASSUME NEW new, Handles(db, sent, new), NEW t \in Tasks, NEW s \in Servers,
           NEW a \in Attempts, AgentExecute(t, s, a), TypeOK
    PROVE  Handles(db, sent', new)
  <1>1. \A u \in Tasks, q \in Servers, b \in Attempts :
            sent[u][q][b] # NoReport => sent'[u][q][b] = sent[u][q][b]
    BY DEF AgentExecute, TypeOK
  <1>2. CASE \E u \in Tasks, q \in Servers, b \in Attempts :
                 /\ sent[u][q][b] # NoReport /\ Stored(db.exec[u][q][b])
                 /\ db.exec[u][q][b].status \notin Terminal
                 /\ new = report_result(db, u, q, b, sent[u][q][b])
    <2>1. PICK u \in Tasks, q \in Servers, b \in Attempts :
              /\ sent[u][q][b] # NoReport /\ Stored(db.exec[u][q][b])
              /\ db.exec[u][q][b].status \notin Terminal
              /\ new = report_result(db, u, q, b, sent[u][q][b])
      BY <1>2
    <2>2. sent'[u][q][b] = sent[u][q][b]
      BY <1>1, <2>1
    <2> QED BY <2>1, <2>2 DEF Handles
  <1>3. CASE ~\E u \in Tasks, q \in Servers, b \in Attempts :
                 /\ sent[u][q][b] # NoReport /\ Stored(db.exec[u][q][b])
                 /\ db.exec[u][q][b].status \notin Terminal
                 /\ new = report_result(db, u, q, b, sent[u][q][b])
    BY <1>3 DEF Handles
  <1> QED BY <1>2, <1>3

\* A session that has read the tables as they are writes what its handler made.
LEMMA CommitWritesNew ==
    ASSUME TxInv, NEW w \in Sessions, CommitSession(w), session[w].snap = db
    PROVE  Commit(session[w].new) /\ sent' = sent
  <1> DEFINE x == session[w]
  <1>1. /\ x.op # "closed"
        /\ task' = [t \in Tasks |-> Merge(task[t], task[t], x.new.task[t])]
        /\ exec' = [t \in Tasks |-> [s \in Servers |-> [a \in Attempts |->
               Merge(exec[t][s][a], exec[t][s][a], x.new.exec[t][s][a])]]]
        /\ sent' = sent
    BY DbFields DEF CommitSession, EachRow
  <1>2. /\ x.new.task \in [Tasks -> OpsTask]
        /\ x.new.exec \in [Tasks -> [Servers -> [Attempts -> OpsTaskExecution]]]
    <2>1. x # Closed
      BY <1>1 DEF Closed
    <2> QED BY <2>1 DEF TxInv, SessionsOK, SessionOK, IsDatabase, Rows
  <1>3. /\ task \in [Tasks -> OpsTask]
        /\ exec \in [Tasks -> [Servers -> [Attempts -> OpsTaskExecution]]]
    BY DEF TxInv, TypeOK
  <1> HIDE DEF x
  <1>4. \A t \in Tasks : Merge(task[t], task[t], x.new.task[t]) = x.new.task[t]
    BY <1>2, <1>3, MergeTask
  <1>5. \A t \in Tasks, s \in Servers, a \in Attempts :
            Merge(exec[t][s][a], exec[t][s][a], x.new.exec[t][s][a]) = x.new.exec[t][s][a]
    BY <1>2, <1>3, MergeRow
  <1>6. task' = x.new.task
    BY <1>1, <1>2, <1>4
  <1>7. exec' = x.new.exec
    BY <1>1, <1>2, <1>5
  <1> QED BY <1>1, <1>6, <1>7 DEF Commit, x

\* With one session a step of TaskTransactions is a step of TaskService or none.
LEMMA SerialStep ==
    ASSUME NEW w, Sessions = {w}, TxInv, UpToDate(w), [TxNext]_txVars
    PROVE  UpToDate(w)' /\ [Next]_vars
  <1>0. w \in Sessions /\ \A v \in Sessions : v = w
    OBVIOUS
  <1>1. CASE CommitSession(w)
    <2>1. session[w] # Closed
      BY <1>1 DEF CommitSession, EachRow, Closed
    <2>2. Next
      BY <1>0, <1>1, <2>1, CommitWritesNew, HandledIsStep DEF UpToDate
    <2>3. session'[w] = Closed
      BY <1>0, <1>1 DEF CommitSession, TxInv
    <2> QED BY <2>2, <2>3 DEF UpToDate
  <1>2. CASE RollbackSession(w)
    BY <1>0, <1>2 DEF RollbackSession, TxInv, UpToDate, vars
  <1>3. ASSUME NEW t \in Tasks, NEW s \in Servers, NEW a \in Attempts,
               AgentExecute(t, s, a), UNCHANGED session
        PROVE  UpToDate(w)' /\ [Next]_vars
    <2>1. db' = db
      BY <1>3 DEF AgentExecute, db
    <2>2. UpToDate(w)'
      BY <1>3, <2>1, HandlesLater DEF UpToDate, TxInv
    <2> QED BY <1>3, <2>2 DEF Next
  <1>4. CASE Idle /\ Tick /\ UNCHANGED session
    BY <1>0, <1>4 DEF Idle, UpToDate, Next
  <1>5. ASSUME NEW op, NEW new, Begin(w, op, new), Handles(db, sent, new)
        PROVE  UpToDate(w)' /\ [Next]_vars
    <2>1. db' = db /\ sent' = sent /\ UNCHANGED vars
      BY <1>5 DEF Begin, db, vars
    <2>2. session'[w].snap = db /\ session'[w].new = new
      BY <1>0, <1>5 DEF Begin, TxInv
    <2> QED BY <1>5, <2>1, <2>2 DEF UpToDate
  <1>6. CASE UNCHANGED txVars
    <2>1. db' = db /\ sent' = sent /\ session' = session /\ UNCHANGED vars
      BY <1>6 DEF txVars, db, vars
    <2> QED BY <2>1 DEF UpToDate
  <1>7. CASE \/ \E t \in Tasks, data \in TaskCreate : BeginCreate(w, t, data)
             \/ \E t \in Tasks : BeginConfirm(w, t) \/ BeginCancel(w, t)
             \/ \E s \in Servers : BeginFetch(w, s)
             \/ \E t \in Tasks, s \in Servers, a \in Attempts : BeginReport(w, t, s, a)
             \/ BeginScanTimeouts(w) \/ BeginDispatchRetries(w) \/ BeginFireDueCron(w)
    BY <1>0, <1>5, <1>7, BeginHandles
  <1> QED BY <1>0, <1>1, <1>2, <1>3, <1>4, <1>6, <1>7 DEF TxNext

\* Requests and jobs that do not overlap behave as the handlers of TaskService,
\* one after the other: what is proved of TaskService holds for the program
\* with its sessions, as long as only one is open at a time.
THEOREM SerialCorrect ==
    ASSUME NEW w, Sessions = {w}
    PROVE  TxSpec => Serial
  <1>1. TxInit => Init /\ UpToDate(w)
    BY DEF TxInit, UpToDate
  <1>2. TxInv /\ UpToDate(w) /\ [TxNext]_txVars => UpToDate(w)' /\ [Next]_vars
    BY SerialStep
  <1> QED BY TxInvariance, <1>1, <1>2, PTL DEF TxSpec, Serial, Spec
=============================================================================
