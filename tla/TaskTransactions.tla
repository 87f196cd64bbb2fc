-------------------------- MODULE TaskTransactions --------------------------
(***************************************************************************)
(* TaskService with the concurrency it runs with: two uvicorn workers      *)
(* answer requests from a thread pool and each runs the scheduler, every   *)
(* handler in a database session of its own (core/database.py).            *)
(*                                                                         *)
(* The engine keeps MySQL's default isolation, REPEATABLE READ: a session  *)
(* reads the snapshot of its first query, and its UPDATEs, each by primary *)
(* key, act on the rows as they are when it commits.  The ORM writes the   *)
(* columns whose value it changed and no others.  A session is therefore   *)
(* two steps: Begin takes the snapshot and computes what the handler makes *)
(* of it, Commit writes the changed columns over the current rows.  Row    *)
(* locks order the commits that touch one row; they do not stop the later  *)
(* one from overwriting what it never read.                                *)
(*                                                                         *)
(* A handler takes milliseconds and a tick of the model is no less than a  *)
(* second, so time passes only while no session is open.  The history      *)
(* cleanup is left out: it only deletes rows that ended a retention period *)
(* ago, which no other handler writes.                                     *)
(***************************************************************************)
EXTENDS TaskService

CONSTANT Sessions   \* database sessions that may be open at once

VARIABLE session    \* session[w]: closed, or what it read and will write

txVars == <<task, exec, sent, session>>

Closed == [op |-> "closed", snap |-> EmptyDatabase, new |-> EmptyDatabase]
Jobs == {"scan_timeouts", "dispatch_retries", "fire_due_cron"}

Begin(w, op, new) ==
    /\ session[w] = Closed
    /\ session' = [session EXCEPT ![w] = [op |-> op, snap |-> db, new |-> new]]
    /\ UNCHANGED <<task, exec, sent>>

\* scheduler_lock: a job does not run twice at the same time.
BeginJob(w, job, new) ==
    /\ \A v \in Sessions : session[v].op # job
    /\ Begin(w, job, new)

TxInit ==
    /\ Init
    /\ session = [w \in Sessions |-> Closed]

-----------------------------------------------------------------------------
(* The handlers, each with the conditions it tests on what it has read. *)

\* The auto-increment id is no other session's.
BeginCreate(w, t, data) ==
    /\ task[t].status = "ABSENT"
    /\ \A v \in Sessions : session[v].new.task[t].status = "ABSENT" \/ session[v].op # "create"
    /\ get_by_idempotency_key(db, data.key) = {}
    /\ validate_service_whitelist(data)
    /\ Begin(w, "create", create_task(db, t, data))

BeginConfirm(w, t) ==
    /\ task[t].status = "CREATED"
    /\ Begin(w, "confirm", confirm_task(db, t))

BeginCancel(w, t) ==
    /\ TaskExists(task[t])
    /\ task[t].status \notin Terminal
    /\ Begin(w, "cancel", cancel_task(db, t))

BeginFetch(w, s) ==
    /\ fetch_pending_by_server(db, s) # {}
    /\ \E batch \in Limited(fetch_pending_by_server(db, s), FetchLimit) :
           Begin(w, "fetch", fetch_pending(db, s, batch))

\* Mutated form: a finished execution is reported over.
BeginReportAnyStatus(w, t, s, a) ==
    /\ sent[t][s][a] # NoReport
    /\ Stored(exec[t][s][a])
    /\ Begin(w, "report", report_result(db, t, s, a, sent[t][s][a]))

BeginReport(w, t, s, a) ==
    /\ sent[t][s][a] # NoReport
    /\ Stored(exec[t][s][a])
    /\ exec[t][s][a].status \notin Terminal
    /\ Begin(w, "report", report_result(db, t, s, a, sent[t][s][a]))

BeginScanTimeouts(w) ==
    /\ \E t \in Tasks : task[t].status = "RUNNING" /\ expired_rows(db, t) # {}
    /\ BeginJob(w, "scan_timeouts", scan_timeouts(db))

BeginDispatchRetries(w) ==
    /\ list_due_retries(db) # {}
    /\ \E batch \in Limited(list_due_retries(db), DispatchLimit) :
           BeginJob(w, "dispatch_retries", dispatch_retries(db, batch))

BeginFireDueCron(w) ==
    /\ due_cron(db) # {}
    /\ cron_insert_conflicts(db) = {}
    /\ BeginJob(w, "fire_due_cron", fire_due_cron(db))

-----------------------------------------------------------------------------
(* The end of a session. *)

\* Mutated form: every column is written back.
MergeWholeRow(now, read, written) == IF written # read THEN written ELSE now

\* The columns the session changed, over the row as it is now.
Merge(now, read, written) ==
    [c \in DOMAIN now |-> IF written[c] # read[c] THEN written[c] ELSE now[c]]

\* Mutated form: neither table has its unique key.
NoUniqueKeys(x) == x.op = "closed"

\* An INSERT that meets a unique key already taken: a second attempt row of a
\* target, or a second task with an idempotency key.
InsertConflict(x) ==
    \/ \E t \in Tasks, s \in Servers, a \in Attempts :
           /\ x.snap.exec[t][s][a].status = "ABSENT"
           /\ x.new.exec[t][s][a].status # "ABSENT"
           /\ Stored(exec[t][s][a])
    \/ \E t \in Tasks :
           /\ x.snap.task[t].status = "ABSENT"
           /\ x.new.task[t].status # "ABSENT"
           /\ get_by_idempotency_key(db, x.new.task[t].key) # {}

CommitSession(w) ==
    LET x == session[w]
    IN  /\ x.op # "closed"
        /\ ~InsertConflict(x)
        /\ task' = [t \in Tasks |->
               Merge(task[t], x.snap.task[t], x.new.task[t])]
        /\ exec' = EachRow(LAMBDA t, s, a :
               Merge(exec[t][s][a], x.snap.exec[t][s][a], x.new.exec[t][s][a]))
        /\ session' = [session EXCEPT ![w] = Closed]
        /\ UNCHANGED sent

\* An IntegrityError rolls the whole session back; the caller gets an error.
RollbackSession(w) ==
    /\ session[w].op # "closed"
    /\ InsertConflict(session[w])
    /\ session' = [session EXCEPT ![w] = Closed]
    /\ UNCHANGED <<task, exec, sent>>

Idle == \A w \in Sessions : session[w] = Closed

-----------------------------------------------------------------------------

TxNext ==
    \/ \E w \in Sessions, t \in Tasks, data \in TaskCreate : BeginCreate(w, t, data)
    \/ \E w \in Sessions, t \in Tasks : BeginConfirm(w, t)
    \/ \E w \in Sessions, t \in Tasks : BeginCancel(w, t)
    \/ \E w \in Sessions, s \in Servers : BeginFetch(w, s)
    \/ \E w \in Sessions, t \in Tasks, s \in Servers, a \in Attempts :
           BeginReport(w, t, s, a)
    \/ \E w \in Sessions : BeginScanTimeouts(w)
    \/ \E w \in Sessions : BeginDispatchRetries(w)
    \/ \E w \in Sessions : BeginFireDueCron(w)
    \/ \E w \in Sessions : CommitSession(w)
    \/ \E w \in Sessions : RollbackSession(w)
    \/ \E t \in Tasks, s \in Servers, a \in Attempts :
           AgentExecute(t, s, a) /\ UNCHANGED session
    \/ Idle /\ Tick /\ UNCHANGED session

TxSpec == TxInit /\ [][TxNext]_txVars

(***************************************************************************)
(* A session that is open ends; agents poll and the scheduler's jobs run   *)
(* again and again, whoever else keeps the database busy, and time passes. *)
(* Nothing is assumed of what an agent does with an execution it fetched,  *)
(* nor of the users.                                                       *)
(***************************************************************************)
TxFairness ==
    /\ \A w \in Sessions : WF_txVars(CommitSession(w) \/ RollbackSession(w))
    /\ \A s \in Servers : SF_txVars(\E w \in Sessions : BeginFetch(w, s))
    /\ SF_txVars(\E w \in Sessions : BeginScanTimeouts(w))
    /\ SF_txVars(\E w \in Sessions : BeginDispatchRetries(w))
    /\ SF_txVars(\E w \in Sessions : BeginFireDueCron(w))
    /\ SF_txVars(Idle /\ Tick /\ UNCHANGED session)

FairTxSpec == TxSpec /\ TxFairness

-----------------------------------------------------------------------------
(* Correctness *)

\* One session at a time: TaskTransactions implements TaskService, every
\* commit being one step of a handler.  This is what the proofs about
\* TaskService say of the program when requests do not overlap.
Serial == Spec

\* However sessions overlap, a further attempt is inserted only for a target
\* whose previous attempt is waiting to be retried and only before the
\* deadline: no overlap of reports, timeouts and dispatches forks the chain.
OverlapKeepsBudget ==
    [][\A t \in Tasks, s \in Servers, a \in Attempts \ {1} :
           Present(t, s, a)' /\ ~Present(t, s, a) =>
               exec[t][s][a - 1].status = "RETRYING" /\ task[t].left > 0]_txVars

-----------------------------------------------------------------------------
(* What the documentation says and overlapping sessions break. *)

\* docs/modules/automation.md: the status of a task is the aggregate of its
\* executions, SUCCESS when all of them are.  Two agents that report at the
\* same time each aggregate without the other's result, and nothing ever
\* aggregates again: the task stays RUNNING.
AllSuccessIsSuccess ==
    Idle => \A t \in Tasks :
        LastStatuses(t) = {"SUCCESS"} => task[t].status = "SUCCESS"

=============================================================================
