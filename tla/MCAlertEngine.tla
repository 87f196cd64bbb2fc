--------------------------- MODULE MCAlertEngine ---------------------------
(* A small instance of AlertEngine for TLC. *)
EXTENDS AlertEngine, TLC

CONSTANTS r1, s1

MCCores == [s \in Servers |-> 2]

RuleOf(operator, recovery, duration, enabled) ==
    [enabled |-> enabled, metric |-> "LOAD", operator |-> operator,
     threshold |-> 1, recovery |-> recovery, duration |-> duration]

\* Rules for the load of a server with two cores: one that fires above 2 and
\* ends at 1, the same switched off, a shorter one that ends at 0, one that
\* fires at once, and one for low values.
MCRules ==
    {RuleOf("GT", None, 2, TRUE), RuleOf("GT", None, 2, FALSE),
     RuleOf("GT", 0, 1, TRUE), RuleOf("GTE", None, 0, TRUE),
     RuleOf("LT", None, 2, TRUE)}
=============================================================================
