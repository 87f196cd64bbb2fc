---------------------------- MODULE RetryPolicy ----------------------------
(***************************************************************************)
(* Task retry policy of the backend (backend/app/core/retry.py): how a     *)
(* reported failure is classified, which classes are worth another         *)
(* attempt, and how long to wait before it.                                *)
(*                                                                         *)
(* The only thing the code looks for in an error message is whether it     *)
(* contains certain words, so a message is abstracted to the set of word   *)
(* groups it contains.                                                     *)
(***************************************************************************)
EXTENDS Integers, Sequences

CONSTANT BACKOFF_SECONDS  \* (5, 10, 30, 60) in the code, in ticks here

\* The backoff table is not empty and every entry is at least one tick.
ASSUME BackoffAssumption ==
    /\ BACKOFF_SECONDS \in Seq(Nat)
    /\ Len(BACKOFF_SECONDS) > 0
    /\ \A i \in 1..Len(BACKOFF_SECONDS) : BACKOFF_SECONDS[i] > 0

RETRYABLE_ERROR_TYPES ==
    {"NETWORK_ERROR", "AGENT_OFFLINE", "AGENT_TIMEOUT", "SERVER_5XX"}

NON_RETRYABLE_ERROR_TYPES ==
    {"INVALID_ARGUMENT", "PERMISSION_DENIED", "COMMAND_NOT_FOUND",
     "SERVICE_NOT_WHITELISTED", "TASK_ACTION_INVALID"}

CONDITIONAL_ERROR_TYPES ==
    {"AGENT_EXECUTION_TIMEOUT", "SERVICE_UNHEALTHY",
     "DEPENDENCY_UNAVAILABLE", "RESOURCE_EXHAUSTED"}

UNKNOWN_ERROR_TYPE == "UNKNOWN"

\* A report without error_type (None or the empty string).
NoErrorType == "none"

ErrorTypes == RETRYABLE_ERROR_TYPES \cup NON_RETRYABLE_ERROR_TYPES
              \cup CONDITIONAL_ERROR_TYPES \cup {UNKNOWN_ERROR_TYPE}

\* The groups of words classify_error looks for in a message.
WordGroups == {"timeout", "network", "offline"}

(***************************************************************************)
(* A reported type is taken as it is; only without one is the message      *)
(* searched, in this order of precedence.                                  *)
(***************************************************************************)
classify_error(error_type, words) ==
    IF error_type # NoErrorType THEN error_type
    ELSE IF "timeout" \in words THEN "AGENT_TIMEOUT"
    ELSE IF "network" \in words THEN "NETWORK_ERROR"
    ELSE IF "offline" \in words THEN "AGENT_OFFLINE"
    ELSE UNKNOWN_ERROR_TYPE

is_retryable(error_type, words) ==
    classify_error(error_type, words) \in RETRYABLE_ERROR_TYPES

\* The table is indexed by the attempt that failed, clamped to the table.
backoff_seconds(attempt) ==
    LET n == Len(BACKOFF_SECONDS)
    IN  BACKOFF_SECONDS[IF attempt < 1 THEN 1
                        ELSE IF attempt > n THEN n ELSE attempt]
=============================================================================
