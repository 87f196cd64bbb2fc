------------------------- MODULE MCTaskTransactions -------------------------
(* Small instances of TaskTransactions for TLC. *)
EXTENDS TaskTransactions, TLC

CONSTANTS t1, t2, s1, s2, k1, w1, w2

MCBackoff == <<1>>

\* One report of each class the service tells apart.
MCReports ==
    {[status |-> "SUCCESS", error_type |-> NoErrorType, words |-> {}],
     [status |-> "FAILED", error_type |-> NoErrorType, words |-> {"timeout"}]}

\* A second task takes part only in the race of two creations for one key.
SecondTaskOnlyRaces ==
    (\A t \in Tasks : TaskExists(task[t])
                         \/ \E w \in Sessions : TaskExists(session[w].new.task[t])) =>
        /\ \A w \in Sessions : session[w].op \in {"closed", "create"}
        /\ \A t \in Tasks, s \in Servers, a \in Attempts :
               exec[t][s][a].status \in {"ABSENT", "PENDING"}

Symmetry == Permutations(Servers) \cup Permutations(Sessions) \cup Permutations(Tasks)
=============================================================================
