--------------------------- MODULE MCTaskService ---------------------------
(* Small instances of TaskService for TLC. *)
EXTENDS TaskService, TLC

CONSTANTS t1, t2, s1, s2, k1

MCBackoff == <<1>>

\* One report of each class the service tells apart.
MCReports ==
    {[status |-> "SUCCESS", error_type |-> NoErrorType, words |-> {}],
     [status |-> "FAILED", error_type |-> NoErrorType, words |-> {"timeout"}],
     [status |-> "FAILED", error_type |-> "UNKNOWN", words |-> {"network"}]}

Symmetry == Permutations(Servers)
=============================================================================
