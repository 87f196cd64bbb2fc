----------------------------- MODULE TaskTables -----------------------------
(***************************************************************************)
(* The task tables of the backend (ops_task, ops_task_target,              *)
(* ops_task_execution) and what one handler of TaskService does to them    *)
(* between its first read and its commit.                                  *)
(*                                                                         *)
(* A database is a record [task, exec].  A handler is an operator from the *)
(* database it reads to the database it would commit, so that the serial   *)
(* specification (TaskService) and the one with concurrent transactions    *)
(* (TaskTransactions) use the very same definitions.                       *)
(*                                                                         *)
(* Time.  A timestamp column is kept as its distance to the present,       *)
(* saturated where no comparison of the code can tell two values apart:    *)
(*   exec.ran    how long ago started_at is, while the row is RUNNING      *)
(*   exec.wait   how far ahead next_retry_at is, while it is RETRYING      *)
(*   exec.ended  how long ago finished_at is, once the row is finished     *)
(*   task.left   how far ahead deadline_at is                              *)
(*   task.cron_wait  how far ahead the next cron time after created_at is  *)
(*   task.ended  how long ago finished_at is                               *)
(* There is no clock to bound, and a behaviour may be infinite.            *)
(*                                                                         *)
(* Left out because no handler ever reads them back: names, result texts,  *)
(* exit codes, durations, ops_task_log, ops_task.attempt (the number shown *)
(* to the user), and target_status, which nothing ever moves off PENDING.  *)
(***************************************************************************)
EXTENDS RetryPolicy, FiniteSets

CONSTANTS
    Tasks,           \* ids ops_task.id can take
    Servers,         \* ids of the registered servers
    MaxAttemptsCap,  \* largest max_attempts a task may ask for (10 in the schema)
    Timeouts,        \* values of timeout_seconds, in ticks
    Actions,         \* actions a task may ask for
    Schedules,       \* values of schedule_type
    Whitelisted,     \* servers where the task's service is whitelisted
    Keys, NoKey,     \* Idempotency-Key header values, and its absence
    CronDelays,      \* distances from created_at to the first cron time
    FetchLimit,      \* fetch_pending_by_server's limit (10)
    DispatchLimit,   \* dispatch_retries' limit (50)
    TASK_CLEANUP_ENABLED,
    TASK_RETENTION   \* TASK_RETENTION_DAYS, in ticks

Attempts == 1..MaxAttemptsCap

\* A day of retention is longer than any deadline: the schema bounds
\* timeout_seconds by 3600 and max_attempts by 10.
ASSUME TableAssumption ==
    /\ MaxAttemptsCap \in Nat \ {0}
    /\ Timeouts \subseteq Nat \ {0}
    /\ CronDelays \subseteq Nat \ {0}
    /\ Actions \subseteq {"STATUS", "START", "STOP", "RESTART", "LOGS"}
    /\ Schedules \subseteq {"ONCE", "CRON"}
    /\ NoKey \notin Keys
    /\ FetchLimit \in Nat \ {0}
    /\ DispatchLimit \in Nat \ {0}
    /\ TASK_CLEANUP_ENABLED \in BOOLEAN
    /\ TASK_RETENTION \in Nat
    /\ TASK_CLEANUP_ENABLED =>
         \A t \in Timeouts : TASK_RETENTION > t * MaxAttemptsCap

CONFIRM_REQUIRED_ACTIONS == {"START", "STOP", "RESTART"}

Terminal == {"SUCCESS", "FAILED", "TIMEOUT", "CANCELLED", "DEAD"}
Active   == {"PENDING", "RUNNING", "RETRYING"}

(***************************************************************************)
(* Rows.  ABSENT is an id not yet used; a task removed by the cleanup is   *)
(* DELETED and an execution removed by it is gone: the database has        *)
(* neither row any more, the model remembers what the execution's was.     *)
(***************************************************************************)
OpsTask ==
    [status : {"ABSENT", "DELETED", "CREATED"} \cup Active \cup Terminal,
     schedule : {"ONCE", "CRON"}, cron_valid : BOOLEAN, cron_wait : Nat,
     targets : SUBSET Servers, max_attempts : Attempts,
     timeout : Nat, left : Nat, key : Keys \cup {NoKey},
     confirm_required : BOOLEAN, confirmed : BOOLEAN, ended : Nat]

OpsTaskExecution ==
    [status : {"ABSENT"} \cup Active \cup Terminal, started : BOOLEAN,
     ran : Nat, wait : Nat, ended : Nat, gone : BOOLEAN]

NoTask ==
    [status |-> "ABSENT", schedule |-> "ONCE", cron_valid |-> FALSE,
     cron_wait |-> 0, targets |-> {}, max_attempts |-> 1, timeout |-> 0,
     left |-> 0, key |-> NoKey, confirm_required |-> FALSE,
     confirmed |-> FALSE, ended |-> 0]

NoExecution ==
    [status |-> "ABSENT", started |-> FALSE, ran |-> 0, wait |-> 0,
     ended |-> 0, gone |-> FALSE]

\* The row the ORM inserts for a new attempt: column defaults.
NewExecution == [NoExecution EXCEPT !.status = "PENDING"]

TaskExists(tk) == tk.status \notin {"ABSENT", "DELETED"}
Stored(e) == e.status # "ABSENT" /\ ~e.gone

\* An execution table given row by row.
EachRow(Row(_, _, _)) ==
    [t \in Tasks |-> [s \in Servers |-> [a \in Attempts |-> Row(t, s, a)]]]

EmptyDatabase ==
    [task |-> [t \in Tasks |-> NoTask],
     exec |-> EachRow(LAMBDA t, s, a : NoExecution)]

-----------------------------------------------------------------------------
(* TaskExecutionRepository: what it does to one row. *)

mark_running(e) == [e EXCEPT !.status = "RUNNING", !.started = TRUE, !.ran = 0]

finish(e, status) ==
    [e EXCEPT !.status = status, !.ran = 0, !.wait = 0, !.ended = 0]

mark_retrying(e, attempt) ==
    [e EXCEPT !.status = "RETRYING", !.ran = 0,
              !.wait = backoff_seconds(attempt)]

mark_dead(e) == finish(e, "DEAD")
\* Mutated form: a status the tables do not know.
mark_timeout_misnamed(e) == finish(e, "TIMED_OUT")

mark_timeout(e) == finish(e, "TIMEOUT")

is_expired(e, timeout) == Stored(e) /\ e.status = "RUNNING" /\ e.ran > timeout

-----------------------------------------------------------------------------
(* _aggregate_task_status: rows is the execution table of one task. *)

IsLatest(rows, s, a) ==
    /\ Stored(rows[s][a])
    /\ \A b \in Attempts : b > a => ~Stored(rows[s][b])

\* Mutated form: the statuses of all attempts, not of the latest.
every_status(rows) ==
    {x \in Active \cup Terminal :
        \E s \in Servers, a \in Attempts :
            Stored(rows[s][a]) /\ rows[s][a].status = x}

latest_statuses(rows) ==
    {x \in Active \cup Terminal :
        \E s \in Servers, a \in Attempts :
            IsLatest(rows, s, a) /\ rows[s][a].status = x}

\* Mutated form: one dead target ends the task whatever the others do.
aggregated_dead_first(statuses) ==
    IF statuses = {} THEN "PENDING"
    ELSE IF "DEAD" \in statuses THEN "DEAD"
    ELSE IF "RETRYING" \in statuses THEN "RETRYING"
    ELSE IF statuses \cap {"PENDING", "RUNNING"} # {} THEN "RUNNING"
    ELSE IF statuses \cap {"FAILED", "TIMEOUT"} # {} THEN "FAILED"
    ELSE IF "SUCCESS" \in statuses THEN "SUCCESS" ELSE "CANCELLED"

aggregated_status(statuses) ==
    IF statuses = {} THEN "PENDING"
    ELSE IF "RETRYING" \in statuses THEN "RETRYING"
    ELSE IF statuses \cap {"PENDING", "RUNNING"} # {} THEN "RUNNING"
    ELSE IF "DEAD" \in statuses THEN "DEAD"
    ELSE IF statuses \cap {"FAILED", "TIMEOUT"} # {} THEN "FAILED"
    ELSE IF statuses = {"SUCCESS"} THEN "SUCCESS"
    ELSE IF statuses = {"CANCELLED"} THEN "CANCELLED"
    ELSE IF "SUCCESS" \in statuses THEN "SUCCESS" ELSE "FAILED"

aggregate_task_status(tk, rows) ==
    [tk EXCEPT !.status = aggregated_status(latest_statuses(rows)),
               !.ended = 0]

\* Mutated forms: one attempt too many; the deadline forgotten.
can_retry_once_more(tk, attempt) == attempt <= tk.max_attempts /\ tk.left > 0
can_retry_any_time(tk, attempt) == attempt < tk.max_attempts

can_retry(tk, attempt) == attempt < tk.max_attempts /\ tk.left > 0

-----------------------------------------------------------------------------
(* create_task / confirm_task / cancel_task *)

\* The cron expression of a one-off task is never looked at.
TaskCreate ==
    {data \in [schedule : Schedules, cron_valid : BOOLEAN, cron_delay : CronDelays,
               targets : (SUBSET Servers) \ {{}}, max_attempts : Attempts,
               timeout : Timeouts, action : Actions,
               confirmation_required : {"default", "yes", "no"},
               key : Keys \cup {NoKey}] :
        data.schedule = "ONCE" => ~data.cron_valid}

validate_service_whitelist(data) ==
    data.action \notin {"STATUS", "LOGS"} => data.targets \subseteq Whitelisted

confirm_required(data) ==
    \/ data.confirmation_required = "yes"
    \/ /\ data.confirmation_required = "default"
       /\ data.action \in CONFIRM_REQUIRED_ACTIONS

get_by_idempotency_key(db, key) ==
    {t \in Tasks : key # NoKey /\ TaskExists(db.task[t]) /\ db.task[t].key = key}

create_task(db, t, data) ==
    [task |-> [db.task EXCEPT ![t] =
        [status |-> IF data.schedule = "CRON" \/ confirm_required(data)
                    THEN "CREATED" ELSE "PENDING",
         schedule |-> data.schedule, cron_valid |-> data.cron_valid,
         cron_wait |-> IF data.schedule = "CRON" THEN data.cron_delay ELSE 0,
         targets |-> data.targets, max_attempts |-> data.max_attempts,
         timeout |-> data.timeout, left |-> data.timeout * data.max_attempts,
         key |-> data.key, confirm_required |-> confirm_required(data),
         confirmed |-> FALSE, ended |-> 0]],
     exec |-> [db.exec EXCEPT ![t] =
        [s \in Servers |-> [a \in Attempts |->
            IF data.schedule = "ONCE" /\ s \in data.targets /\ a = 1
            THEN NewExecution ELSE NoExecution]]]]

confirm_task(db, t) ==
    [db EXCEPT !.task[t].status = "PENDING", !.task[t].confirmed = TRUE]

\* Mutated form: the loop returns after the first row it cancels.
cancelled_first_row(rows) ==
    LET pending == {p \in Servers \X Attempts :
                       /\ Stored(rows[p[1]][p[2]])
                       /\ rows[p[1]][p[2]].status = "PENDING"}
        first   == CHOOSE p \in Servers \X Attempts : pending # {} => p \in pending
    IN  [s \in Servers |-> [a \in Attempts |->
            IF <<s, a>> \in pending /\ <<s, a>> = first
            THEN finish(rows[s][a], "CANCELLED") ELSE rows[s][a]]]

cancelled_rows(rows) ==
    [s \in Servers |-> [a \in Attempts |->
        IF Stored(rows[s][a]) /\ rows[s][a].status = "PENDING"
        THEN finish(rows[s][a], "CANCELLED") ELSE rows[s][a]]]

cancel_task(db, t) ==
    LET rows == cancelled_rows(db.exec[t])
    IN  [task |-> [db.task EXCEPT ![t] = aggregate_task_status(@, rows)],
         exec |-> [db.exec EXCEPT ![t] = rows]]

-----------------------------------------------------------------------------
(* fetch_pending / report_result: the calls of the agents *)

\* Mutated form: the join with ops_task does not look at the task's status.
fetch_any_pending(db, s) ==
    {p \in Tasks \X Attempts :
        /\ Stored(db.exec[p[1]][s][p[2]])
        /\ db.exec[p[1]][s][p[2]].status = "PENDING"}

fetch_pending_by_server(db, s) ==
    {p \in Tasks \X Attempts :
        /\ Stored(db.exec[p[1]][s][p[2]])
        /\ db.exec[p[1]][s][p[2]].status = "PENDING"
        /\ db.task[p[1]].status \in {"PENDING", "RUNNING"}}

fetch_pending(db, s, batch) ==
    [task |-> [t \in Tasks |->
        IF \E a \in Attempts : <<t, a>> \in batch
        THEN [db.task[t] EXCEPT !.status = "RUNNING"] ELSE db.task[t]],
     exec |-> EachRow(LAMBDA t, q, a :
        IF q = s /\ <<t, a>> \in batch
        THEN mark_running(db.exec[t][q][a]) ELSE db.exec[t][q][a])]

reported_row(tk, e, attempt, result) ==
    IF result.status = "SUCCESS" THEN finish(e, "SUCCESS")
    ELSE IF ~is_retryable(result.error_type, result.words) THEN finish(e, "FAILED")
    ELSE IF can_retry(tk, attempt) THEN mark_retrying(e, attempt)
    ELSE mark_dead(e)

report_result(db, t, s, a, result) ==
    LET e    == reported_row(db.task[t], db.exec[t][s][a], a, result)
        rows == [db.exec[t] EXCEPT ![s][a] = e]
    IN  [task |-> [db.task EXCEPT ![t] = aggregate_task_status(@, rows)],
         exec |-> [db.exec EXCEPT ![t] = rows]]

-----------------------------------------------------------------------------
(* The scheduler's scans *)

expired_rows(db, t) ==
    {p \in Servers \X Attempts :
        is_expired(db.exec[t][p[1]][p[2]], db.task[t].timeout)}

\* Mutated form: the executions time out, the task is not aggregated again.
scan_timeouts_rows_only(db) ==
    [task |-> db.task,
     exec |-> EachRow(LAMBDA t, s, a :
        IF db.task[t].status = "RUNNING" /\ <<s, a>> \in expired_rows(db, t)
        THEN mark_timeout(db.exec[t][s][a]) ELSE db.exec[t][s][a])]

scan_timeouts(db) ==
    LET Expired(t) == IF db.task[t].status = "RUNNING"
                      THEN expired_rows(db, t) ELSE {}
        exec == EachRow(LAMBDA t, s, a :
                    IF <<s, a>> \in Expired(t)
                    THEN mark_timeout(db.exec[t][s][a]) ELSE db.exec[t][s][a])
    IN  [task |-> [t \in Tasks |->
            IF Expired(t) # {} THEN aggregate_task_status(db.task[t], exec[t])
                               ELSE db.task[t]],
         exec |-> exec]

list_due_retries(db) ==
    {r \in Tasks \X Servers \X Attempts :
        /\ Stored(db.exec[r[1]][r[2]][r[3]])
        /\ db.exec[r[1]][r[2]][r[3]].status = "RETRYING"
        /\ db.exec[r[1]][r[2]][r[3]].wait = 0}

(***************************************************************************)
(* The loop takes the due rows one after the other and aggregates the task *)
(* after each.  While a row of a task is still RETRYING the task cannot    *)
(* have become terminal in between, so every row of the batch is decided   *)
(* by the state the scan started from, and the last aggregation counts.    *)
(***************************************************************************)
dispatch_retries(db, batch) ==
    LET Ended(t)  == db.task[t].status \in Terminal
        Again(t, s, a) == /\ <<t, s, a>> \in batch
                          /\ ~Ended(t)
                          /\ can_retry(db.task[t], a)
        exec == EachRow(LAMBDA t, s, a :
                    IF <<t, s, a>> \in batch
                    THEN finish(db.exec[t][s][a],
                                IF Ended(t) \/ can_retry(db.task[t], a)
                                THEN "FAILED" ELSE "DEAD")
                    ELSE IF a > 1 /\ Again(t, s, a - 1) THEN NewExecution
                    ELSE db.exec[t][s][a])
    IN  [task |-> [t \in Tasks |->
            IF ~Ended(t) /\ \E s \in Servers, a \in Attempts : <<t, s, a>> \in batch
            THEN aggregate_task_status(db.task[t], exec[t]) ELSE db.task[t]],
         exec |-> exec]

list_pending_cron(db) ==
    {t \in Tasks : /\ db.task[t].schedule = "CRON"
                   /\ db.task[t].status \in {"PENDING", "CREATED"}}

due_cron(db) ==
    {t \in list_pending_cron(db) : db.task[t].cron_valid /\ db.task[t].cron_wait = 0}

fire_due_cron(db) ==
    [task |-> [t \in Tasks |->
        IF t \in due_cron(db) THEN [db.task[t] EXCEPT !.status = "RUNNING"]
                              ELSE db.task[t]],
     exec |-> EachRow(LAMBDA t, s, a :
        IF t \in due_cron(db) /\ s \in db.task[t].targets /\ a = 1
        THEN NewExecution ELSE db.exec[t][s][a])]

\* The batch inserts attempt 1 of every target; a row already there breaks
\* uk_ops_task_execution_target and the whole scan is rolled back.
cron_insert_conflicts(db) ==
    {t \in due_cron(db) : \E s \in db.task[t].targets : Stored(db.exec[t][s][1])}

delete_terminal_before(db) ==
    EachRow(LAMBDA t, s, a :
        IF /\ Stored(db.exec[t][s][a])
           /\ db.exec[t][s][a].status \in Terminal
           /\ db.exec[t][s][a].ended > TASK_RETENTION
        THEN [db.exec[t][s][a] EXCEPT !.gone = TRUE] ELSE db.exec[t][s][a])

delete_finished_tasks_before(task, exec) ==
    [t \in Tasks |->
        IF /\ task[t].schedule = "ONCE"
           /\ task[t].status \in Terminal
           /\ task[t].ended > TASK_RETENTION
           /\ \A s \in Servers, a \in Attempts : ~Stored(exec[t][s][a])
        THEN [task[t] EXCEPT !.status = "DELETED"] ELSE task[t]]

\* Mutated form: tasks are deleted as if their executions went with them.
cleanup_tasks_only(db) ==
    [task |-> delete_finished_tasks_before(db.task, EmptyDatabase.exec),
     exec |-> db.exec]

cleanup_history(db) ==
    LET exec == delete_terminal_before(db)
    IN  [task |-> delete_finished_tasks_before(db.task, exec), exec |-> exec]

-----------------------------------------------------------------------------
(* One tick of time. *)

CountDown(n) == IF n > 0 THEN n - 1 ELSE 0
CountUp(n, cap) == IF n < cap THEN n + 1 ELSE n
EndedCap == IF TASK_CLEANUP_ENABLED THEN TASK_RETENTION + 1 ELSE 0

\* Every timer a handler may still read moves by one.
LaterTask(tk) ==
    [tk EXCEPT !.left = CountDown(@), !.cron_wait = CountDown(@),
               !.ended = IF tk.status \in Terminal THEN CountUp(@, EndedCap) ELSE @]

LaterRow(tk, e) ==
    [e EXCEPT !.ran = IF e.status = "RUNNING" THEN CountUp(@, tk.timeout + 1) ELSE @,
              !.wait = CountDown(@),
              !.ended = IF e.status \in Terminal THEN CountUp(@, EndedCap) ELSE @]

TimePasses(db) ==
    [task |-> [t \in Tasks |-> LaterTask(db.task[t])],
     exec |-> EachRow(LAMBDA t, s, a : LaterRow(db.task[t], db.exec[t][s][a]))]
=============================================================================
