---------------------------- MODULE AgentRequests ----------------------------
(***************************************************************************)
(* An agent's call of the backend, from the HTTP client that signs and     *)
(* retries it (agent/reporter/client.py, agent-go/internal/reporter) to    *)
(* the checks of api/v1/deps.py and the nonce store of core/replay.py.     *)
(*                                                                         *)
(* A request is signed once; every retry sends the same timestamp, nonce   *)
(* and signature.  Requests, answers and the answers of Redis get lost,    *)
(* and a copy whose sender has given up may still arrive.  The nonce is    *)
(* stored by the dependency, before the handler runs: between the two, any *)
(* other copy may arrive and be judged.                                    *)
(*                                                                         *)
(* Times are relative to the server's clock, in seconds: off is the        *)
(* request's timestamp minus now, nonce what is left of the TTL.  A key    *)
(* pair belongs to an installation of the agent and is named after it; a   *)
(* signature verifies with the key of the installation that made it and no *)
(* other.  Agents always sign and know their server code, so missing or    *)
(* foreign headers do not occur.                                           *)
(***************************************************************************)
EXTENDS Integers

CONSTANTS
    Agents,         \* installations of the agent on one host, with one token
    GoAgents,       \* the ones written in Go
    Requests,       \* calls
    NoKey,          \* signing_public_key is NULL
    MAX_SKEW,       \* AGENT_SIGNATURE_MAX_SKEW
    RetryMaxCount   \* retry_max_count, or the backoffs below retry_max_seconds if fewer

ASSUME AgentRequestsAssumption ==
    /\ GoAgents \subseteq Agents
    /\ NoKey \notin Agents
    /\ MAX_SKEW \in Nat \ {0}
    /\ RetryMaxCount \in Nat

VARIABLES
    strict,     \* AGENT_REQUIRE_SIGNATURE
    ahead,      \* the clock of the agents' host minus the server's
    proc,       \* proc[a]: the agent process
    registered, \* signing_public_key of the token
    call,       \* call[r]: the client's side of a call and its copies
    nonce,      \* nonce[r]: seconds the nonce stays in Redis, 0 if absent
    applied,    \* applied[r]: how often the handler committed
    aborted,    \* history: Redis failed after storing the nonce, or the handler failed
    degraded    \* history: a request was let in without a check of its nonce

vars == <<strict, ahead, proc, registered, call, nonce, applied, aborted, degraded>>
serverVars == <<registered, nonce, applied, aborted, degraded>>
settings == <<strict, ahead>>

TooOld == -(MAX_SKEW + 1)
Answers == {"done", "refused", "replayed", "unavailable", "error"}
Lines == {"none", "sent", "busy", "cut"} \cup Answers

\* line is the attempt the client waits for: on its way, in its handler
\* ("busy"), or the answer on its way back.  late and busy count the copies
\* nobody waits for, on their way and in their handlers.
Idle == [state |-> "idle", by |-> NoKey, tries |-> 0, line |-> "none", late |-> 0,
         busy |-> 0, off |-> 0]

TypeOK ==
    /\ strict \in BOOLEAN
    /\ ahead \in TooOld..(MAX_SKEW + 1)
    /\ proc \in [Agents -> {"down", "registering", "up"}]
    /\ registered \in Agents \cup {NoKey}
    /\ call \in [Requests -> [state : {"idle", "open", "ok", "failed"},
                              by : Agents \cup {NoKey}, tries : 0..RetryMaxCount,
                              line : Lines, late : 0..(RetryMaxCount + 1),
                              busy : 0..(RetryMaxCount + 1),
                              off : TooOld..(MAX_SKEW + 1)]]
    /\ nonce \in [Requests -> 0..(2 * MAX_SKEW)]
    /\ applied \in [Requests -> 0..(RetryMaxCount + 1)]
    /\ aborted \in SUBSET Requests
    /\ degraded \in BOOLEAN

Init ==
    /\ strict \in BOOLEAN
    /\ ahead \in TooOld..(MAX_SKEW + 1)
    /\ proc = [a \in Agents |-> "down"]
    /\ registered = NoKey
    /\ call = [r \in Requests |-> Idle]
    /\ nonce = [r \in Requests |-> 0]
    /\ applied = [r \in Requests |-> 0]
    /\ aborted = {}
    /\ degraded = FALSE

-----------------------------------------------------------------------------
(* The agent process. *)

\* load_or_create_signer: the key file makes the key outlive the process.
Start(a) ==
    /\ proc[a] = "down"
    /\ proc' = [proc EXCEPT ![a] = "registering"]
    /\ UNCHANGED <<settings, registered, call, nonce, applied, aborted, degraded>>

\* AgentService.register, which needs no signature: a key that differs from
\* the stored one replaces it.  The agent repeats it until an answer arrives.
Register(a, answered) ==
    /\ proc[a] = "registering"
    /\ registered' = a
    /\ proc' = [proc EXCEPT ![a] = IF answered THEN "up" ELSE @]
    /\ UNCHANGED <<settings, call, nonce, applied, aborted, degraded>>

\* rotate_signing_key: a caller that the current key lets in names another.
rotate_signing_key(a) ==
    /\ registered \notin {NoKey, a}
    /\ registered' = a
    /\ UNCHANGED <<settings, proc, call, nonce, applied, aborted, degraded>>

\* The client stops waiting for its attempt: a copy on the line may still
\* arrive, and a handler that has begun runs on.
Unawaited(c, arrives) ==
    [c EXCEPT !.late = IF c.line = "sent" /\ arrives THEN @ + 1 ELSE @,
              !.busy = IF c.line = "busy" THEN @ + 1 ELSE @]

\* The call fails; nobody waits for its copies any more.
Abandon(c, arrives) ==
    [Unawaited(c, arrives) EXCEPT !.state = "failed", !.line = "none"]

\* SIGTERM, a crash or a reboot: open calls are abandoned, copies travel on.
Stop(a) ==
    /\ proc[a] # "down"
    /\ proc' = [proc EXCEPT ![a] = "down"]
    /\ call' = [r \in Requests |->
           IF call[r].state = "open" /\ call[r].by = a
           THEN Abandon(call[r], TRUE) ELSE call[r]]
    /\ UNCHANGED <<settings, serverVars>>

-----------------------------------------------------------------------------
(* The HTTP client. *)

\* sign_headers, then the first attempt.
Send(r, a) ==
    /\ call[r].state = "idle"
    /\ proc[a] = "up"
    /\ call' = [call EXCEPT ![r] = [Idle EXCEPT !.state = "open", !.by = a,
                                                !.line = "sent", !.off = ahead]]
    /\ UNCHANGED <<settings, proc, serverVars>>

\* Mutated form: one attempt too many.
AttemptFailedLate(c, arrives) ==
    LET last == c.tries > RetryMaxCount
    IN  [c EXCEPT !.tries = IF last THEN @ ELSE @ + 1,
                  !.state = IF last THEN "failed" ELSE @,
                  !.line = IF last THEN "none" ELSE "sent"]

\* A failed attempt: the same headers again, or ReporterError.
AttemptFailed(c, arrives) ==
    LET last == c.tries = RetryMaxCount
    IN  [Unawaited(c, arrives) EXCEPT !.tries = IF last THEN @ ELSE @ + 1,
                                      !.state = IF last THEN "failed" ELSE @,
                                      !.line = IF last THEN "none" ELSE "sent"]

\* A timeout or a broken connection: the request, or its answer, is lost to
\* the client; the server may still get the request.
TransportError(r, arrives) ==
    /\ call[r].state = "open"
    /\ call' = [call EXCEPT ![r] = AttemptFailed(@, arrives)]
    /\ UNCHANGED <<settings, proc, serverVars>>

\* The proxy answers with a page of its own.  Python retries what it cannot
\* parse, Go does not.
NotJson(r, arrives) ==
    /\ call[r].state = "open"
    /\ call[r].line \in {"sent", "busy", "cut"}
    /\ call' = [call EXCEPT ![r] =
           IF @.by \in GoAgents THEN Abandon(@, arrives) ELSE AttemptFailed(@, arrives)]
    /\ UNCHANGED <<settings, proc, serverVars>>

\* Any status of 400 and above is final, "replayed" too.
Receive(r) ==
    /\ call[r].state = "open"
    /\ call[r].line \in Answers
    /\ call' = [call EXCEPT ![r].state = IF call[r].line = "done" THEN "ok" ELSE "failed",
                            ![r].line = "none"]
    /\ UNCHANGED <<settings, proc, serverVars>>

-----------------------------------------------------------------------------
(* The backend: _resolve_agent, _verify_agent_signature, then the handler. *)

\* abs(int(time.time()) - timestamp) <= AGENT_SIGNATURE_MAX_SKEW
InWindow(r) == call[r].off \in (-MAX_SKEW)..MAX_SKEW

HasKey == registered # NoKey
SignatureValid(r) == registered = call[r].by

\* Mutated form: the nonce is recorded before the signature is checked.
NonceBeforeSignature(r) == InWindow(r) /\ HasKey

\* The request gets as far as is_replayed.
ReachesNonceCheck(r) == InWindow(r) /\ HasKey /\ SignatureValid(r)

\* Mutated form: the nonce lives as long as the window is wide on one side.
NonceTtlHalf == MAX_SKEW

NonceTtl == 2 * MAX_SKEW

\* is_replayed: SET key NX EX.  "lost" and "stored" are the two ways in which
\* a command whose answer does not come may have ended.
StoreNonce(r, redis) ==
    IF ReachesNonceCheck(r) /\ redis # "lost" /\ nonce[r] = 0
    THEN [nonce EXCEPT ![r] = NonceTtl] ELSE nonce

\* The answer of the dependency, or "accepted".
Verdict(r, redis) ==
    CASE ~InWindow(r) -> "refused"
      [] InWindow(r) /\ ~HasKey -> IF strict THEN "refused" ELSE "accepted"
      [] ReachesNonceCheck(r) /\ redis # "up" ->
             IF strict THEN "unavailable" ELSE "accepted"
      [] ReachesNonceCheck(r) /\ redis = "up" ->
             IF nonce[r] > 0 THEN "replayed"
             ELSE IF SignatureValid(r) THEN "accepted" ELSE "refused"
      [] OTHER -> "refused"

Redis == {"up", "lost", "stored"}
Ends == {"commit", "commit_cut", "error", "crash"}

Accepted(r, redis) == Verdict(r, redis) = "accepted"

\* The dependency judges a copy and stores its nonce.
Admit(r, redis) ==
    /\ nonce' = StoreNonce(r, redis)
    /\ aborted' = IF nonce'[r] > nonce[r] /\ Verdict(r, redis) = "unavailable"
                  THEN aborted \cup {r} ELSE aborted
    /\ degraded' = (degraded \/ (Accepted(r, redis) /\ (redis # "up" \/ ~HasKey)))
    /\ UNCHANGED <<settings, proc, registered, applied>>

\* The attempt the client waits for.
AdmitCurrent(r, redis) ==
    /\ call[r].line = "sent"
    /\ Admit(r, redis)
    /\ call' = [call EXCEPT ![r].line =
           IF Accepted(r, redis) THEN "busy" ELSE Verdict(r, redis)]

\* A copy the client no longer waits for.
AdmitLate(r, redis) ==
    /\ call[r].late > 0
    /\ Admit(r, redis)
    /\ call' = [call EXCEPT ![r].late = @ - 1,
                            ![r].busy = IF Accepted(r, redis) THEN @ + 1 ELSE @]

\* The handler of an admitted copy ends.
Handle(r, end) ==
    /\ applied' = IF end \in {"commit", "commit_cut"}
                  THEN [applied EXCEPT ![r] = @ + 1] ELSE applied
    /\ aborted' = IF end \in {"error", "crash"} THEN aborted \cup {r} ELSE aborted
    /\ UNCHANGED <<settings, proc, registered, nonce, degraded>>

\* What the sender of a handled copy gets to see.
Reply(end) ==
    CASE end = "commit" -> "done"
      [] end = "error" -> "error"
      [] OTHER -> "cut"

HandleCurrent(r, end) ==
    /\ call[r].line = "busy"
    /\ Handle(r, end)
    /\ call' = [call EXCEPT ![r].line = Reply(end)]

HandleLate(r, end) ==
    /\ call[r].busy > 0
    /\ Handle(r, end)
    /\ call' = [call EXCEPT ![r].busy = @ - 1]

\* One second: timestamps age, nonces expire.
Tick ==
    /\ call' = [r \in Requests |->
           IF call[r].by # NoKey /\ call[r].off > TooOld
           THEN [call[r] EXCEPT !.off = @ - 1] ELSE call[r]]
    /\ nonce' = [r \in Requests |-> IF nonce[r] > 0 THEN nonce[r] - 1 ELSE 0]
    /\ UNCHANGED <<settings, proc, registered, applied, aborted, degraded>>

-----------------------------------------------------------------------------

Next ==
    \/ \E a \in Agents : Start(a) \/ rotate_signing_key(a) \/ Stop(a)
    \/ \E a \in Agents, answered \in BOOLEAN : Register(a, answered)
    \/ \E r \in Requests, a \in Agents : Send(r, a)
    \/ \E r \in Requests, arrives \in BOOLEAN :
           TransportError(r, arrives) \/ NotJson(r, arrives)
    \/ \E r \in Requests : Receive(r)
    \/ \E r \in Requests, redis \in Redis : AdmitCurrent(r, redis) \/ AdmitLate(r, redis)
    \/ \E r \in Requests, end \in Ends : HandleCurrent(r, end) \/ HandleLate(r, end)
    \/ Tick

\* The client's own timeout ends an attempt whatever the network does.
ClientStep(r) == Receive(r) \/ \E arrives \in BOOLEAN : TransportError(r, arrives)

Spec == Init /\ [][Next]_vars /\ \A r \in Requests : WF_vars(ClientStep(r))

-----------------------------------------------------------------------------
(* Correctness *)

\* The promise of at most one effect holds with AGENT_REQUIRE_SIGNATURE, and
\* without it until a request is let in while Redis fails, for agents whose
\* clock is less than MAX_SKEW ahead.  An agent exactly MAX_SKEW ahead gets a
\* nonce that expires in the last second its timestamp is accepted.
Delivery == INSTANCE ReportDelivery WITH
    exact <- (strict \/ ~degraded) /\ ahead < MAX_SKEW,
    outcome <- [r \in Requests |-> call[r].state],
    effects <- applied

\* Lost, repeated and late copies notwithstanding: every call of the client
\* ends, one that returns data was committed, and the nonce store lets no copy
\* commit a second time (deps.py, replay.py, _request).
DeliversAtMostOnce == Delivery!DeliverySpec

\* A copy of r is in its handler.
InHandler(r) == call[r].line = "busy" \/ call[r].busy > 0

\* A client that is told its request was replayed, an answer it does not
\* retry, has had it committed or has it in a handler at this moment, unless
\* Redis or a handler failed after the nonce was stored: the store is written
\* only by a request that is let in (deps.py:209), never by one that is
\* refused for its timestamp, its key or its signature.
ReplayedWasAdmitted ==
    \A r \in Requests :
        call[r].line = "replayed" => applied[r] > 0 \/ InHandler(r) \/ r \in aborted

=============================================================================
