--------------------------- MODULE ReportDelivery ---------------------------
(***************************************************************************)
(* What an agent may rely on when it calls the backend: a call ends, a     *)
(* call that ends well took effect, and while the promise is exact no call *)
(* takes effect twice.  An effect may come late, after the caller gave up. *)
(* AgentRequests implements this specification.                            *)
(***************************************************************************)
EXTENDS Naturals

CONSTANT Requests

VARIABLES
    exact,      \* the backend still promises at most one effect per call
    outcome,    \* outcome[r]: what the caller knows
    effects     \* effects[r]: how often the call took effect

deliveryVars == <<exact, outcome, effects>>

Open(r) == outcome[r] = "open"

DeliveryInit ==
    /\ exact \in BOOLEAN
    /\ outcome = [r \in Requests |-> "idle"]
    /\ effects = [r \in Requests |-> 0]

Begin(r) ==
    /\ outcome[r] = "idle"
    /\ outcome' = [outcome EXCEPT ![r] = "open"]
    /\ UNCHANGED <<exact, effects>>

\* The promise may be withdrawn, never given back.
Withdraw ==
    /\ exact
    /\ exact' = FALSE
    /\ UNCHANGED <<outcome, effects>>

Take(r) ==
    /\ outcome[r] # "idle"
    /\ exact => effects[r] = 0
    /\ effects' = [effects EXCEPT ![r] = @ + 1]
    /\ UNCHANGED <<exact, outcome>>

Confirm(r) ==
    /\ Open(r)
    /\ effects[r] > 0
    /\ outcome' = [outcome EXCEPT ![r] = "ok"]
    /\ UNCHANGED <<exact, effects>>

\* A stopping agent abandons all its calls at once.
GiveUp(R) ==
    /\ R # {}
    /\ \A r \in R : Open(r)
    /\ outcome' = [r \in Requests |-> IF r \in R THEN "failed" ELSE outcome[r]]
    /\ UNCHANGED <<exact, effects>>

DeliveryNext ==
    \/ \E r \in Requests : Begin(r) \/ Take(r) \/ Confirm(r)
    \/ \E R \in SUBSET Requests : GiveUp(R)
    \/ Withdraw

CallsEnd == \A r \in Requests : Open(r) ~> ~Open(r)

DeliverySpec == DeliveryInit /\ [][DeliveryNext]_deliveryVars /\ CallsEnd

=============================================================================
