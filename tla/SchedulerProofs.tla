-------------------------- MODULE SchedulerProofs --------------------------
(***************************************************************************)
(* Proofs about Scheduler, for any number of workers, any interval, TTL    *)
(* and length of the job.                                                  *)
(***************************************************************************)
EXTENDS Scheduler, TLAPS

\* Acquiring a free lock leaves every other run overdue, and the new run with
\* the whole TTL ahead of it.
LEMMA RunRoundInv ==
    ASSUME IInv, NEW w \in Workers, RunRound(w)
    PROVE  IInv'
  <1> USE SchedulerAssumption DEF IInv
  <1>1. TypeOK'
    BY DEF TypeOK, RunRound, RoundDue, Start, SetNxPx
  <1>2. (lock # Free => ttl > 0)'
    BY DEF TypeOK, RunRound, SetNxPx
  <1>3. (\A v \in Workers : running[v] => ran[v] <= MaxRun)'
    BY DEF TypeOK, RunRound, Start
  <1>4. FreshRunHoldsLock'
    <2> SUFFICES ASSUME SCHEDULER_LOCK_ENABLED, NEW v \in Workers,
                        running'[v], ran'[v] < TTL
                 PROVE  lock' = v /\ ttl' = TTL - ran'[v]
      BY DEF FreshRunHoldsLock
    <2>1. lock = Free /\ lock' = w /\ ttl' = TTL
      BY DEF RunRound, SetNxPx
    <2>2. CASE v = w
      BY <2>1, <2>2 DEF RunRound, Start, TypeOK
    <2>3. CASE v # w
      <3>1. running[v] /\ ran[v] < TTL
        BY <2>3 DEF RunRound, Start, TypeOK
      <3> QED BY <3>1, <2>1 DEF FreshRunHoldsLock
    <2> QED BY <2>2, <2>3
  <1> QED BY <1>1, <1>2, <1>3, <1>4

\* A skipped round keeps the invariant, also when it leaves a key behind.
LEMMA SkipInv ==
    ASSUME IInv, NEW w \in Workers, SkipRound(w) \/ SkipRoundAnswerLost(w)
    PROVE  IInv'
  <1> USE SchedulerAssumption DEF IInv
  <1>1. CASE SkipRound(w)
    BY <1>1 DEF SkipRound, RoundDue, TypeOK, FreshRunHoldsLock
  <1>2. CASE SkipRoundAnswerLost(w)
    <2>1. /\ lock = Free /\ lock' = w /\ ttl' = TTL
          /\ running' = running /\ ran' = ran /\ SCHEDULER_LOCK_ENABLED
      BY <1>2 DEF SkipRoundAnswerLost, SetNxPx
    <2>2. TypeOK'
      BY <1>2, <2>1 DEF SkipRoundAnswerLost, RoundDue, TypeOK
    <2>3. FreshRunHoldsLock'
      BY <2>1 DEF FreshRunHoldsLock
    <2> QED BY <2>1, <2>2, <2>3
  <1> QED BY <1>1, <1>2

\* A run that ends deletes no other worker's lock.
LEMMA FinishInv ==
    ASSUME IInv, NEW w \in Workers,
           FinishRound(w) \/ FinishRoundReleaseFails(w) \/ Restart(w)
    PROVE  IInv'
  <1> USE SchedulerAssumption DEF IInv
  <1>1. /\ running' = [running EXCEPT ![w] = FALSE]
        /\ ran' = ran
        /\ due' \in [Workers -> 0..INTERVAL]
        /\ \/ lock' = lock /\ ttl' = ttl
           \/ lock = w /\ lock' = Free /\ ttl' = 0
    BY DEF FinishRound, FinishRoundReleaseFails, Restart, CompareAndDelete, TypeOK
  <1>2. TypeOK'
    BY <1>1 DEF TypeOK
  <1>3. \A v \in Workers : running'[v] => running[v] /\ v # w
    BY <1>1 DEF TypeOK
  <1>4. FreshRunHoldsLock'
    BY <1>1, <1>3 DEF FreshRunHoldsLock
  <1> QED BY <1>1, <1>2, <1>3, <1>4

\* A lock expires only when the run that set it is as old as the TTL.
LEMMA TickInv ==
    ASSUME IInv, Tick
    PROVE  IInv'
  <1> USE SchedulerAssumption DEF IInv
  <1>1. TypeOK'
    BY DEF TypeOK, Tick, CountDown
  <1>2. (lock # Free => ttl > 0)'
    BY DEF TypeOK, Tick, CountDown
  <1>3. (\A v \in Workers : running[v] => ran[v] <= MaxRun)'
    BY DEF TypeOK, Tick
  <1>4. FreshRunHoldsLock'
    <2> SUFFICES ASSUME SCHEDULER_LOCK_ENABLED, NEW v \in Workers,
                        running'[v], ran'[v] < TTL
                 PROVE  lock' = v /\ ttl' = TTL - ran'[v]
      BY DEF FreshRunHoldsLock
    <2>1. running[v] /\ ran'[v] = ran[v] + 1 /\ ran[v] \in Nat
      BY DEF Tick, TypeOK
    <2>2. lock = v /\ ttl = TTL - ran[v]
      BY <2>1 DEF FreshRunHoldsLock
    <2> QED BY <2>1, <2>2 DEF Tick, CountDown
  <1> QED BY <1>1, <1>2, <1>3, <1>4

\* The inductive invariant of the scheduler and its lock.
THEOREM SchedulerInvariance == Spec => []IInv
  <1>1. Init => IInv
    BY SchedulerAssumption DEF Init, IInv, TypeOK, FreshRunHoldsLock
  <1>2. IInv /\ [Next]_vars => IInv'
    <2> SUFFICES ASSUME IInv, [Next]_vars PROVE IInv'
      OBVIOUS
    <2>1. CASE Next
      BY <2>1, RunRoundInv, SkipInv, FinishInv, TickInv DEF Next
    <2>2. CASE UNCHANGED vars
      BY <2>2 DEF vars, IInv, TypeOK, FreshRunHoldsLock
    <2> QED BY <2>1, <2>2
  <1> QED BY <1>1, <1>2, PTL DEF Spec

\* A run younger than the TTL holds the lock, whatever other workers do.
THEOREM LockCorrect == Spec => []FreshRunHoldsLock
  <1>1. IInv => FreshRunHoldsLock
    BY DEF IInv
  <1> QED BY SchedulerInvariance, <1>1, PTL

\* Runs younger than the TTL exclude each other, which is what the model of
\* overlapping sessions takes for granted of a job.
THEOREM MutualExclusion == Spec => []OneAtATime
  <1>1. IInv => OneAtATime
    BY SchedulerAssumption DEF IInv, TypeOK, FreshRunHoldsLock, OneAtATime
  <1> QED BY SchedulerInvariance, <1>1, PTL

\* The countdowns of the rounds, the jobs and the lock stay within the
\* interval, the length of a job and the TTL of scheduler_lock.py.
THEOREM SchedulerTypeCorrect == Spec => []TypeOK
  <1>1. IInv => TypeOK
    BY DEF IInv
  <1> QED BY SchedulerInvariance, <1>1, PTL
=============================================================================
