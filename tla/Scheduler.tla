----------------------------- MODULE Scheduler -----------------------------
(***************************************************************************)
(* One periodic job of the backend, scheduled by every worker process      *)
(* (core/scheduler.py) under the job's Redis lock (core/scheduler_lock.py).*)
(*                                                                         *)
(* Every uvicorn worker runs an APScheduler of its own with an interval    *)
(* trigger, started when the process starts, so the workers' rounds are    *)
(* not aligned.  A round that comes due tries SET NX PX on the key of the  *)
(* job; it runs the job when the key was free and is skipped otherwise, or *)
(* when Redis fails.  Jobs have keys of their own and do not meet.         *)
(*                                                                         *)
(* The token of a lock is the worker that set it: a worker runs a job at   *)
(* most once at a time (max_instances=1), so it has one token in play.     *)
(* Times are distances to the present, in ticks.                           *)
(***************************************************************************)
EXTENDS Integers

CONSTANTS
    Workers,      \* backend processes
    Free,         \* the lock key is not set
    INTERVAL,     \* seconds of the job's interval trigger
    TTL,          \* SCHEDULER_LOCK_TTL_SECONDS
    MaxRun,       \* longest time the job may take
    SCHEDULER_LOCK_ENABLED,
    StartsPaused  \* the job is added with next_run_time=None

ASSUME SchedulerAssumption ==
    /\ Free \notin Workers
    /\ INTERVAL \in Nat \ {0}
    /\ TTL \in Nat \ {0}
    /\ MaxRun \in Nat
    /\ SCHEDULER_LOCK_ENABLED \in BOOLEAN
    /\ StartsPaused \in BOOLEAN

VARIABLES
    due,      \* due[w]: time until the job's next run time in worker w
    running,  \* running[w]: worker w is inside the job
    ran,      \* ran[w]: for how long
    lock,     \* value of sched:lock:<job>: a worker's token or Free
    ttl       \* time until the key expires

vars == <<due, running, ran, lock, ttl>>

Init ==
    /\ due \in [Workers -> 1..INTERVAL]
    /\ running = [w \in Workers |-> FALSE]
    /\ ran = [w \in Workers |-> 0]
    /\ lock = Free
    /\ ttl = 0

-----------------------------------------------------------------------------
(* scheduler_lock *)

\* Mutated forms: SET without NX; SET without PX; DEL without comparing.
SetOverwrites(w) == lock' = w /\ ttl' = TTL
SetForEver(w) == lock = Free /\ lock' = w /\ ttl' = 0
DeleteAny(w) == lock' = Free /\ ttl' = 0

SetNxPx(w) == lock = Free /\ lock' = w /\ ttl' = TTL

\* _RELEASE_SCRIPT: only the worker's own token is deleted.
CompareAndDelete(w) ==
    IF lock = w THEN lock' = Free /\ ttl' = 0 ELSE UNCHANGED <<lock, ttl>>

-----------------------------------------------------------------------------
(* A round of the job in worker w. *)

\* Without coalesced or late rounds: the next one is an interval away.
RoundDue(w) ==
    /\ ~StartsPaused
    /\ due[w] = 0
    /\ due' = [due EXCEPT ![w] = INTERVAL]

Start(w) ==
    /\ running' = [running EXCEPT ![w] = TRUE]
    /\ ran' = [ran EXCEPT ![w] = 0]

RunRound(w) ==
    /\ RoundDue(w)
    /\ ~running[w]
    /\ IF SCHEDULER_LOCK_ENABLED THEN SetNxPx(w) ELSE UNCHANGED <<lock, ttl>>
    /\ Start(w)

\* max_instances=1, a key that is set, or a Redis that cannot be reached.
SkipRound(w) ==
    /\ RoundDue(w)
    /\ running[w] \/ SCHEDULER_LOCK_ENABLED
    /\ UNCHANGED <<running, ran, lock, ttl>>

\* Redis sets the key but its answer is lost: the worker skips the round and
\* leaves the key to expire.
SkipRoundAnswerLost(w) ==
    /\ RoundDue(w)
    /\ ~running[w]
    /\ SCHEDULER_LOCK_ENABLED
    /\ SetNxPx(w)
    /\ UNCHANGED <<running, ran>>

\* The job returns or raises: released either way.
FinishRound(w) ==
    /\ running[w]
    /\ running' = [running EXCEPT ![w] = FALSE]
    /\ IF SCHEDULER_LOCK_ENABLED THEN CompareAndDelete(w) ELSE UNCHANGED <<lock, ttl>>
    /\ UNCHANGED <<due, ran>>

\* A RedisError in _release is swallowed.
FinishRoundReleaseFails(w) ==
    /\ running[w]
    /\ SCHEDULER_LOCK_ENABLED
    /\ running' = [running EXCEPT ![w] = FALSE]
    /\ UNCHANGED <<due, ran, lock, ttl>>

\* The process dies and is started again.
Restart(w) ==
    /\ running' = [running EXCEPT ![w] = FALSE]
    /\ due' = [due EXCEPT ![w] = INTERVAL]
    /\ UNCHANGED <<ran, lock, ttl>>

\* Mutated form: the timers run past zero.
CountDownPastZero(n) == n - 1

CountDown(n) == IF n > 0 THEN n - 1 ELSE 0

Tick ==
    /\ StartsPaused \/ \A w \in Workers : due[w] > 0
    /\ \A w \in Workers : running[w] => ran[w] < MaxRun
    /\ due' = [w \in Workers |-> IF StartsPaused THEN due[w] ELSE CountDown(due[w])]
    /\ ran' = [w \in Workers |-> IF running[w] THEN ran[w] + 1 ELSE ran[w]]
    /\ ttl' = CountDown(ttl)
    /\ lock' = IF ttl = 1 THEN Free ELSE lock
    /\ UNCHANGED running

Next ==
    \/ \E w \in Workers : RunRound(w)
    \/ \E w \in Workers : SkipRound(w)
    \/ \E w \in Workers : SkipRoundAnswerLost(w)
    \/ \E w \in Workers : FinishRound(w)
    \/ \E w \in Workers : FinishRoundReleaseFails(w)
    \/ \E w \in Workers : Restart(w)
    \/ Tick

Spec == Init /\ [][Next]_vars

(***************************************************************************)
(* Time passes, a round that is due is handled and a job ends.  Redis does *)
(* not fail for ever: a round that finds the key free again and again is   *)
(* run in the end, although any single one may be lost.                    *)
(***************************************************************************)
Fairness ==
    /\ WF_vars(Tick)
    /\ \A w \in Workers :
           /\ SF_vars(RunRound(w))
           /\ WF_vars(SkipRound(w))
           /\ WF_vars(FinishRound(w))

FairSpec == Spec /\ Fairness

-----------------------------------------------------------------------------
(* Correctness *)

TypeOK ==
    /\ due \in [Workers -> 0..INTERVAL]
    /\ running \in [Workers -> BOOLEAN]
    /\ ran \in [Workers -> Nat]
    /\ lock \in Workers \cup {Free}
    /\ ttl \in 0..TTL

\* A run younger than the TTL still holds the lock, with exactly the rest of
\* the TTL ahead of it: no release of an overdue run, no restart and no lost
\* answer of another worker ever takes the lock away from it.
FreshRunHoldsLock ==
    SCHEDULER_LOCK_ENABLED =>
        \A w \in Workers :
            running[w] /\ ran[w] < TTL => lock = w /\ ttl = TTL - ran[w]

\* Two workers are inside the job at once only when one of them has outlasted
\* the TTL: a job shorter than it is never run by two.
OneAtATime ==
    SCHEDULER_LOCK_ENABLED =>
        \A v, w \in Workers :
            running[v] /\ running[w] /\ v # w => ran[v] >= TTL \/ ran[w] >= TTL

\* A worker that is not restarted before its round comes due.
ReachesItsRound(w) == due'[w] > due[w] => due[w] = 0

\* Once the processes live long enough to reach their rounds, the job is run
\* again and again by one worker or another, although rounds are skipped,
\* answers and releases lost.
JobKeepsRunning ==
    <>[][\A w \in Workers : ReachesItsRound(w)]_vars =>
        []<>(\E w \in Workers : running[w])

-----------------------------------------------------------------------------
(* The inductive invariant of SchedulerProofs: a key that is set has an     *)
(* expiry, and a job does not outlast MaxRun.                               *)

IInv ==
    /\ TypeOK
    /\ lock # Free => ttl > 0
    /\ \A w \in Workers : running[w] => ran[w] <= MaxRun
    /\ FreshRunHoldsLock

=============================================================================
