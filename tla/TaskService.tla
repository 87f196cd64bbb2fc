---------------------------- MODULE TaskService ----------------------------
(***************************************************************************)
(* The life of a task when the handlers of TaskService run one after the   *)
(* other: users create, confirm and cancel tasks, agents fetch executions  *)
(* and report their results, the scheduler's jobs time executions out,     *)
(* dispatch retries, fire cron tasks and delete history.                   *)
(*                                                                         *)
(* An agent is external to this module: it may lose the answer to a fetch  *)
(* (it never executes), crash before reporting (it never reports), or      *)
(* report the same result again and late, since its HTTP client retries.   *)
(***************************************************************************)
EXTENDS TaskTables

CONSTANT Reports   \* results an agent may report: [status, error_type, words]

ASSUME ReportAssumption ==
    \A r \in Reports : /\ r.status \in {"SUCCESS", "FAILED"}
                       /\ r.error_type \in ErrorTypes \cup {NoErrorType}
                       /\ r.words \subseteq WordGroups

NoReport == [status |-> "none", error_type |-> NoErrorType, words |-> {}]

VARIABLES
    task,   \* ops_task and its targets
    exec,   \* ops_task_execution: exec[t][s][a]
    sent    \* sent[t][s][a]: what the agent's executor returned for the row

vars == <<task, exec, sent>>

db == [task |-> task, exec |-> exec]

Commit(new) == task' = new.task /\ exec' = new.exec

Init ==
    /\ task = EmptyDatabase.task
    /\ exec = EmptyDatabase.exec
    /\ sent = EachRow(LAMBDA t, s, a : NoReport)

-----------------------------------------------------------------------------
(* Users *)

\* A key that is already in use returns the task it was used for: no change.
CreateTask(t, data) ==
    /\ task[t].status = "ABSENT"
    /\ get_by_idempotency_key(db, data.key) = {}
    /\ validate_service_whitelist(data)
    /\ Commit(create_task(db, t, data))
    /\ UNCHANGED sent

ConfirmTask(t) ==
    /\ task[t].status = "CREATED"
    /\ Commit(confirm_task(db, t))
    /\ UNCHANGED sent

CancelTask(t) ==
    /\ TaskExists(task[t])
    /\ task[t].status \notin Terminal
    /\ Commit(cancel_task(db, t))
    /\ UNCHANGED sent

-----------------------------------------------------------------------------
(* Agents *)

\* The subsets of S a query with LIMIT n may return.
Limited(S, n) ==
    {B \in SUBSET S : Cardinality(B) = (IF Cardinality(S) < n THEN Cardinality(S) ELSE n)}

FetchPending(s) ==
    /\ fetch_pending_by_server(db, s) # {}
    /\ \E batch \in Limited(fetch_pending_by_server(db, s), FetchLimit) :
           Commit(fetch_pending(db, s, batch))
    /\ UNCHANGED sent

\* The agent runs what the fetch handed out and keeps the result it will post.
\* It does so once: a row is handed out once, and of two overlapping polls that
\* both read the row (TaskTransactions) the one loop of the agent gets one
\* answer, since its client has given up on the other.
AgentExecute(t, s, a) ==
    /\ exec[t][s][a].started
    /\ sent[t][s][a] = NoReport
    /\ \E r \in Reports : sent' = [sent EXCEPT ![t][s][a] = r]
    /\ UNCHANGED <<task, exec>>

\* Mutated form: a late report overwrites a finished row.
ReportResultAnyStatus(t, s, a) ==
    /\ sent[t][s][a] # NoReport
    /\ Stored(exec[t][s][a])
    /\ Commit(report_result(db, t, s, a, sent[t][s][a]))
    /\ UNCHANGED sent

\* A finished row answers with what it holds; a RETRYING one is done again.
ReportResult(t, s, a) ==
    /\ sent[t][s][a] # NoReport
    /\ Stored(exec[t][s][a])
    /\ exec[t][s][a].status \notin Terminal
    /\ Commit(report_result(db, t, s, a, sent[t][s][a]))
    /\ UNCHANGED sent

-----------------------------------------------------------------------------
(* Scheduler jobs *)

ScanTimeouts ==
    /\ \E t \in Tasks : task[t].status = "RUNNING" /\ expired_rows(db, t) # {}
    /\ Commit(scan_timeouts(db))
    /\ UNCHANGED sent

DispatchRetries ==
    /\ list_due_retries(db) # {}
    /\ \E batch \in Limited(list_due_retries(db), DispatchLimit) :
           Commit(dispatch_retries(db, batch))
    /\ UNCHANGED sent

FireDueCron ==
    /\ due_cron(db) # {}
    /\ cron_insert_conflicts(db) = {}
    /\ Commit(fire_due_cron(db))
    /\ UNCHANGED sent

CleanupHistory ==
    /\ TASK_CLEANUP_ENABLED
    /\ Commit(cleanup_history(db))
    /\ UNCHANGED sent

Tick ==
    /\ Commit(TimePasses(db))
    /\ UNCHANGED sent

-----------------------------------------------------------------------------

Next ==
    \/ \E t \in Tasks, data \in TaskCreate : CreateTask(t, data)
    \/ \E t \in Tasks : ConfirmTask(t)
    \/ \E t \in Tasks : CancelTask(t)
    \/ \E s \in Servers : FetchPending(s)
    \/ \E t \in Tasks, s \in Servers, a \in Attempts : AgentExecute(t, s, a)
    \/ \E t \in Tasks, s \in Servers, a \in Attempts : ReportResult(t, s, a)
    \/ ScanTimeouts
    \/ DispatchRetries
    \/ FireDueCron
    \/ CleanupHistory
    \/ Tick

Spec == Init /\ [][Next]_vars

-----------------------------------------------------------------------------
(* Correctness *)

TypeOK ==
    /\ task \in [Tasks -> OpsTask]
    /\ exec \in [Tasks -> [Servers -> [Attempts -> OpsTaskExecution]]]
    /\ sent \in [Tasks -> [Servers -> [Attempts -> Reports \cup {NoReport}]]]

Present(t, s, a) == exec[t][s][a].status # "ABSENT"
HasRow(t, S) == \E s \in Servers, a \in Attempts : exec[t][s][a].status \in S

\* The status of a task never contradicts its executions: a task that has
\* ended leaves no execution behind that still could run or be retried, and
\* one in progress always has an execution that keeps it going, of the kind
\* its status names.  Every handler that touches an execution re-aggregates.
StatusMatchesWork ==
    \A t \in Tasks :
        /\ task[t].status \in Terminal \cup {"ABSENT", "DELETED"} =>
               ~HasRow(t, Active)
        /\ task[t].status = "RUNNING" =>
               HasRow(t, {"PENDING", "RUNNING"}) /\ ~HasRow(t, {"RETRYING"})
        /\ task[t].status = "RETRYING" => HasRow(t, {"RETRYING"})
        /\ task[t].status \in {"CREATED", "PENDING"} =>
               ~HasRow(t, (Active \cup Terminal) \ {"PENDING"})

\* Retries of a target form a chain: a further attempt exists only when all
\* the earlier ones have failed, so a target never has two attempts that can
\* run, and never more attempts than the task allows, whatever the order of
\* duplicate reports, timeouts and dispatches.
RetryChain ==
    \A t \in Tasks, s \in Servers, a \in Attempts :
        Present(t, s, a) =>
            /\ s \in task[t].targets
            /\ a <= task[t].max_attempts
            /\ \A b \in 1..(a - 1) : exec[t][s][b].status = "FAILED"

\* No execution of a one-off task whose action needs confirmation is handed
\* to an agent before a user has confirmed it.
ConfirmedBeforeRun ==
    \A t \in Tasks, s \in Servers, a \in Attempts :
        /\ exec[t][s][a].started
        /\ task[t].schedule = "ONCE"
        /\ task[t].confirm_required
        => task[t].confirmed

\* After a user has cancelled a task no server begins it any more: what may
\* still run is work of servers that had begun it before.  cancel_task looks
\* only at PENDING executions, although its docstring speaks of all that are
\* unfinished: a RUNNING one goes on, and a RETRYING one gets its next attempt.
CancelSparesOnlyBegunWork ==
    \A t \in Tasks : HasRow(t, {"CANCELLED"}) =>
        \A s \in Servers, a \in Attempts :
            exec[t][s][a].status \in Active => exec[t][s][1].started

\* Rows never point to a task that is not there: the cleanup removes a task
\* only with its last execution gone, and only executions that have ended.
ReferentialIntegrity ==
    \A t \in Tasks, s \in Servers, a \in Attempts :
        /\ Stored(exec[t][s][a]) => TaskExists(task[t])
        /\ exec[t][s][a].gone => exec[t][s][a].status \in Terminal

\* An Idempotency-Key names at most one stored task.
OneTaskPerKey ==
    \A t, u \in Tasks :
        /\ TaskExists(task[t]) /\ TaskExists(task[u])
        /\ task[t].key = task[u].key /\ task[t].key # NoKey
        => t = u

\* The last attempt of a target, removed by the cleanup or not.
LastStatuses(t) ==
    {x \in Active \cup Terminal : \E s \in Servers, a \in Attempts :
        /\ exec[t][s][a].status = x
        /\ \A b \in Attempts : b > a => ~Present(t, s, b)}

\* A task ends SUCCESS only if no target's last attempt went wrong, and ends
\* with a failure only if one did: "SUCCESS" is a statement about all targets,
\* as long as the cleanup has not removed what went wrong on one of them.
FinalStatusCountsEveryTarget ==
    \A t \in Tasks :
        /\ task[t].status \in Terminal
        /\ \A s \in Servers, a \in Attempts : ~exec[t][s][a].gone
        => (task[t].status \in {"SUCCESS", "CANCELLED"}
                <=> LastStatuses(t) \subseteq {"SUCCESS", "CANCELLED"})

\* What has ended stays as it ended: a late or duplicate report, a timeout, a
\* cancel or a retry never changes a finished execution or task again.
FinishedStaysFinished ==
    [][/\ \A t \in Tasks, s \in Servers, a \in Attempts :
              exec[t][s][a].status \in Terminal =>
                  exec'[t][s][a].status = exec[t][s][a].status
       /\ \A t \in Tasks :
              task[t].status \in Terminal =>
                  task'[t].status \in {task[t].status, "DELETED"}]_vars

\* A further attempt comes into being only from one that was waiting for it,
\* whose backoff has passed, while the task's deadline has not.
RetryOnlyInBudget ==
    [][\A t \in Tasks, s \in Servers, a \in Attempts \ {1} :
           Present(t, s, a)' /\ ~Present(t, s, a) =>
               /\ exec[t][s][a - 1].status = "RETRYING"
               /\ exec[t][s][a - 1].wait = 0
               /\ task[t].left > 0]_vars

\* Agents that poll and a scheduler that runs bring every released task to an
\* end, although agents may never answer: a lost execution times out.  A cron
\* task with an invalid expression is never fired, and is left out.
EveryTaskEnds ==
    \A t \in Tasks :
        (/\ task[t].status \in Active
         /\ task[t].schedule = "CRON" => task[t].cron_valid)
        ~> task[t].status \in Terminal \cup {"DELETED"}

-----------------------------------------------------------------------------
(* The inductive invariant, task by task: tk is the row of a task and rows  *)
(* its executions.  TaskServiceProofs shows that every handler keeps it.    *)

Chain(tk, rows) ==
    \A s \in Servers, a \in Attempts :
        rows[s][a].status # "ABSENT" =>
            /\ s \in tk.targets
            /\ a <= tk.max_attempts
            /\ \A b \in Attempts : b < a => rows[s][b].status = "FAILED"

GoneIsEnded(rows) ==
    \A s \in Servers, a \in Attempts :
        rows[s][a].gone => rows[s][a].status \in Terminal

NotHandedOut(rows) ==
    \A s \in Servers, a \in Attempts :
        rows[s][a].status \in {"ABSENT", "PENDING", "CANCELLED"} =>
            ~rows[s][a].started

Has(rows, S) == \E s \in Servers, a \in Attempts : rows[s][a].status \in S

StatusFits(status, rows) ==
    /\ status \in Terminal \cup {"ABSENT", "DELETED"} => ~Has(rows, Active)
    /\ status = "RUNNING" =>
           Has(rows, {"PENDING", "RUNNING"}) /\ ~Has(rows, {"RETRYING"})
    /\ status = "RETRYING" => Has(rows, {"RETRYING"})
    /\ status \in {"CREATED", "PENDING"} =>
           ~Has(rows, (Active \cup Terminal) \ {"PENDING"})
    /\ status = "ABSENT" => ~Has(rows, Terminal)

\* A task not started yet: a one-off task has its first attempts, a cron task
\* gets them when it is fired.
WaitingRows(tk, rows) ==
    tk.status \in {"CREATED", "PENDING"} =>
        (tk.schedule = "ONCE" <=> Has(rows, {"PENDING"}))

Unconfirmed(tk, rows) ==
    tk.schedule = "ONCE" /\ tk.confirm_required /\ ~tk.confirmed =>
        /\ tk.status \in {"ABSENT", "CREATED", "CANCELLED", "DELETED"}
        /\ ~Has(rows, (Active \cup Terminal) \ {"PENDING", "CANCELLED"})

DeletedRows(tk, rows) ==
    tk.status = "DELETED" =>
        \A s \in Servers, a \in Attempts : ~Stored(rows[s][a])

TaskInv(tk, rows) ==
    /\ tk.status # "ABSENT" => tk.targets # {}
    /\ Chain(tk, rows)
    /\ GoneIsEnded(rows)
    /\ NotHandedOut(rows)
    /\ StatusFits(tk.status, rows)
    /\ WaitingRows(tk, rows)
    /\ Unconfirmed(tk, rows)
    /\ DeletedRows(tk, rows)

\* Agents only report what they were handed.
ReportsOfStarted ==
    \A t \in Tasks, s \in Servers, a \in Attempts :
        sent[t][s][a] # NoReport => exec[t][s][a].started

IInv ==
    /\ TypeOK
    /\ ReportsOfStarted
    /\ \A t \in Tasks : TaskInv(task[t], exec[t])

=============================================================================
