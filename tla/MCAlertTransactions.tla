------------------------ MODULE MCAlertTransactions ------------------------
(* Small instances of AlertTransactions for TLC. *)
EXTENDS AlertTransactions, TLC

CONSTANTS r1, s1, w1, w2

MCCores == [s \in Servers |-> 1]

RuleOf(threshold, duration, enabled) ==
    [enabled |-> enabled, metric |-> "CPU", operator |-> "GT",
     threshold |-> threshold, recovery |-> None, duration |-> duration]

MCRules == {RuleOf(1, 1, TRUE), RuleOf(1, 1, FALSE)}

Symmetry == Permutations(Sessions)
=============================================================================
