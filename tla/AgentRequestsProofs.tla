------------------------- MODULE AgentRequestsProofs -------------------------
(***************************************************************************)
(* Proofs about AgentRequests, for any installations, requests, window and *)
(* number of retries: the type invariant, ReplayedWasAdmitted, and the     *)
(* safety part of the refinement of ReportDelivery.                        *)
(***************************************************************************)
EXTENDS AgentRequests, TLAPS

CallRecord ==
    [state : {"idle", "open", "ok", "failed"}, by : Agents \cup {NoKey},
     tries : 0..RetryMaxCount, line : Lines, late : 0..(RetryMaxCount + 1),
     busy : 0..(RetryMaxCount + 1), off : TooOld..(MAX_SKEW + 1)]

\* The attempt the client waits for is still with the network or the server,
\* and the copies of a call that are in their handlers.
Flying(c) == IF c.line \in {"sent", "busy"} THEN 1 ELSE 0
Running(c) == c.busy + (IF c.line = "busy" THEN 1 ELSE 0)

\* The client's side of a call that took effect ap times.  The copies under
\* way, the copies in their handlers and the effects together never outnumber
\* the attempts, which is what bounds late, busy and applied.
CallOK(c, ap) ==
    /\ c \in CallRecord
    /\ ap \in Nat
    /\ c.state = "idle" => c = Idle /\ ap = 0
    /\ c.state # "idle" => /\ c.by \in Agents
                           /\ c.off <= ahead
                           /\ c.late + c.busy + ap + Flying(c) <= c.tries + 1
    /\ c.state # "open" => c.line = "none"
    /\ c.line = "done" => ap > 0

\* The promise of ReportDelivery holds.
Exact == (strict \/ ~degraded) /\ ahead < MAX_SKEW

\* The nonce of r is in Redis only if r was let in: its handler runs, has
\* committed, or something broke off.  While the promise is exact at most one
\* copy was let in, counting the ones still in their handlers, and the nonce
\* it left outlives the time in which the timestamp is accepted.
NonceOK(r) ==
    /\ nonce[r] > 0 => applied[r] > 0 \/ Running(call[r]) > 0 \/ r \in aborted
    /\ call[r].line = "replayed" =>
           applied[r] > 0 \/ Running(call[r]) > 0 \/ r \in aborted
    /\ Exact => applied[r] + Running(call[r]) <= 1
    /\ Exact /\ applied[r] + Running(call[r]) > 0 => nonce[r] >= call[r].off + MAX_SKEW + 1

\* The inductive invariant.
RequestsInv ==
    /\ TypeOK
    /\ \A r \in Requests : CallOK(call[r], applied[r])
    /\ \A r \in Requests : NonceOK(r)

\* A call that is well formed has used at most one effect per attempt.
LEMMA EffectsBounded ==
    ASSUME NEW c, NEW ap, CallOK(c, ap)
    PROVE  ap \in 0..(RetryMaxCount + 1)
  BY AgentRequestsAssumption DEF CallOK, CallRecord, Flying

\* The call once the client stopped waiting for its attempt.
Settled(c, arrives, n, st, ln) ==
    [Unawaited(c, arrives) EXCEPT !.tries = n, !.state = st, !.line = ln]

\* When the client stops waiting, its copy counts among the others.
LEMMA SettledOK ==
    ASSUME NEW c, NEW ap, CallOK(c, ap), c.state = "open", NEW arrives \in BOOLEAN,
           NEW n \in 0..RetryMaxCount, n >= c.tries, NEW st \in {"open", "failed"},
           NEW ln \in {"none", "sent"}, st = "failed" => ln = "none",
           ln = "sent" => n = c.tries + 1
    PROVE  LET d == Settled(c, arrives, n, st, ln)
           IN  /\ CallOK(d, ap) /\ d.off = c.off /\ d.line = ln /\ d.state = st
               /\ Running(d) = Running(c)
  <1> USE AgentRequestsAssumption
  <1> DEFINE d == Settled(c, arrives, n, st, ln)
  <1>1. c \in CallRecord /\ ap \in Nat /\ c.by \in Agents /\ c.off <= ahead
        /\ c.late + c.busy + ap + Flying(c) <= c.tries + 1
    BY DEF CallOK
  <1> DEFINE l == IF c.line = "sent" /\ arrives THEN c.late + 1 ELSE c.late
             b == IF c.line = "busy" THEN c.busy + 1 ELSE c.busy
  <1>2. d = [c EXCEPT !.late = l, !.busy = b, !.tries = n, !.state = st, !.line = ln]
    BY <1>1 DEF Settled, Unawaited, CallRecord
  <1>3. l \in Nat /\ b \in Nat /\ l + b + ap <= c.tries + 1
    BY <1>1 DEF CallRecord, Flying
  <1>4. l \in 0..(RetryMaxCount + 1) /\ b \in 0..(RetryMaxCount + 1)
    BY <1>1, <1>3 DEF CallRecord
  <1>5. b = Running(c)
    BY <1>1 DEF Running, CallRecord
  <1> HIDE DEF l, b, d
  <1>6. /\ d.state = st /\ d.line = ln /\ d.off = c.off /\ d.by = c.by
        /\ d.tries = n /\ d.late = l /\ d.busy = b
    BY <1>1, <1>2 DEF CallRecord
  <1>7. d \in CallRecord
    BY <1>1, <1>2, <1>4 DEF CallRecord, Lines
  <1>8. d.late + d.busy + ap + Flying(d) <= d.tries + 1
    BY <1>1, <1>3, <1>6 DEF Flying, CallRecord
  <1>9. Running(d) = b
    BY <1>3, <1>6 DEF Running
  <1> QED BY <1>1, <1>5, <1>6, <1>7, <1>8, <1>9 DEF CallOK, d

\* A failed attempt, whether it is repeated or the last one, and whether or
\* not its copy still arrives, leaves the call well formed.
LEMMA AttemptFailedOK ==
    ASSUME NEW c, NEW ap, CallOK(c, ap), c.state = "open", NEW arrives \in BOOLEAN
    PROVE  /\ CallOK(AttemptFailed(c, arrives), ap)
           /\ AttemptFailed(c, arrives).off = c.off
           /\ AttemptFailed(c, arrives).line \in {"none", "sent"}
           /\ AttemptFailed(c, arrives).state \in {"open", "failed"}
           /\ Running(AttemptFailed(c, arrives)) = Running(c)
  <1> DEFINE d == AttemptFailed(c, arrives)
             u == Unawaited(c, arrives)
  <1> USE AgentRequestsAssumption
  <1>1. c \in CallRecord /\ c.tries \in 0..RetryMaxCount
    BY DEF CallOK, CallRecord
  <1>0. u.tries = c.tries /\ u.state = "open"
    BY <1>1 DEF Unawaited, CallRecord
  <1>2. CASE c.tries = RetryMaxCount
    <2>1. d = Settled(c, arrives, c.tries, "failed", "none")
      BY <1>0, <1>2 DEF AttemptFailed, Settled
    <2> HIDE DEF d, u
    <2>2. /\ CallOK(d, ap) /\ d.off = c.off /\ d.line = "none" /\ d.state = "failed"
          /\ Running(d) = Running(c)
      BY <1>1, <2>1, SettledOK
    <2> QED BY <2>2 DEF d
  <1>3. CASE c.tries # RetryMaxCount
    <2>1. d = Settled(c, arrives, c.tries + 1, "open", "sent")
      BY <1>0, <1>3 DEF AttemptFailed, Settled
    <2> HIDE DEF d, u
    <2>2. c.tries + 1 \in 0..RetryMaxCount /\ c.tries + 1 >= c.tries
      BY <1>1, <1>3
    <2>3. /\ CallOK(d, ap) /\ d.off = c.off /\ d.line = "sent" /\ d.state = "open"
          /\ Running(d) = Running(c)
      BY <1>1, <2>1, <2>2, SettledOK
    <2> QED BY <2>3 DEF d
  <1> QED BY <1>2, <1>3

\* So does giving a call up, with its last copy lost or still under way.
LEMMA AbandonedOK ==
    ASSUME NEW c, NEW ap, CallOK(c, ap), c.state = "open", NEW arrives \in BOOLEAN
    PROVE  /\ CallOK(Abandon(c, arrives), ap)
           /\ Abandon(c, arrives).off = c.off
           /\ Abandon(c, arrives).line = "none"
           /\ Abandon(c, arrives).state = "failed"
           /\ Running(Abandon(c, arrives)) = Running(c)
  <1> DEFINE d == Abandon(c, arrives)
             u == Unawaited(c, arrives)
  <1>1. c \in CallRecord /\ c.tries \in 0..RetryMaxCount /\ c.tries >= c.tries
    BY AgentRequestsAssumption DEF CallOK, CallRecord
  <1>2. u \in [DOMAIN c -> UNION {{u[x]} : x \in DOMAIN c}] /\ u.tries = c.tries
        /\ "tries" \in DOMAIN c
    BY <1>1 DEF Unawaited, CallRecord
  <1>3. d = Settled(c, arrives, c.tries, "failed", "none")
    BY <1>2 DEF Abandon, Settled
  <1> HIDE DEF d, u
  <1>4. /\ CallOK(d, ap) /\ d.off = c.off /\ d.line = "none" /\ d.state = "failed"
        /\ Running(d) = Running(c)
    BY <1>1, <1>3, SettledOK
  <1> QED BY <1>4 DEF d

\* What a step of the clients does to the call of r.
ClientKeeps(r) ==
    \/ call'[r] = call[r]
    \/ /\ CallOK(call'[r], applied[r])
       /\ call'[r].line # "replayed"
       /\ Running(call'[r]) = Running(call[r])
       /\ applied[r] + Running(call[r]) > 0 => call'[r].off = call[r].off

\* A step that leaves the server alone and every call well formed keeps the
\* invariant.
LEMMA ClientStepKeeps ==
    ASSUME RequestsInv, UNCHANGED <<settings, nonce, applied, aborted, degraded>>,
           proc' \in [Agents -> {"down", "registering", "up"}],
           registered' \in Agents \cup {NoKey},
           call' = [r \in Requests |-> call'[r]],
           \A r \in Requests : ClientKeeps(r)
    PROVE  RequestsInv'
  <1> USE DEF RequestsInv, settings
  <1>1. ASSUME NEW r \in Requests
        PROVE  CallOK(call[r], applied[r])' /\ NonceOK(r)'
    <2>1. CallOK(call'[r], applied[r])
      BY DEF ClientKeeps
    <2>2. CallOK(call[r], applied[r])'
      BY <2>1 DEF CallOK
    <2>3. NonceOK(r)'
      BY DEF ClientKeeps, NonceOK, Exact
    <2> QED BY <2>2, <2>3
  <1>2. call' \in [Requests -> CallRecord]
    BY <1>1 DEF CallOK
  <1>3. TypeOK'
    BY <1>2 DEF TypeOK, CallRecord
  <1> QED BY <1>1, <1>3

-----------------------------------------------------------------------------
(* The agents' steps keep the invariant. *)

\* Processes and keys are not calls.
LEMMA ProcessKeeps ==
    ASSUME RequestsInv, NEW a \in Agents,
           Start(a) \/ rotate_signing_key(a)
             \/ \E answered \in BOOLEAN : Register(a, answered)
    PROVE  RequestsInv'
  <1>1. /\ UNCHANGED <<settings, call, nonce, applied, aborted, degraded>>
        /\ proc' \in [Agents -> {"down", "registering", "up"}]
        /\ registered' \in Agents \cup {NoKey}
    BY DEF Start, rotate_signing_key, Register, RequestsInv, TypeOK
  <1>2. call' = [r \in Requests |-> call'[r]]
    BY <1>1 DEF RequestsInv, TypeOK
  <1>3. \A r \in Requests : ClientKeeps(r)
    BY <1>1 DEF ClientKeeps
  <1> QED BY <1>1, <1>2, <1>3, ClientStepKeeps

\* An agent that stops leaves the copies of its open calls under way.
LEMMA StopKeeps ==
    ASSUME RequestsInv, NEW a \in Agents, Stop(a)
    PROVE  RequestsInv'
  <1>1. /\ UNCHANGED <<settings, nonce, applied, aborted, degraded>>
        /\ proc' \in [Agents -> {"down", "registering", "up"}]
        /\ registered' \in Agents \cup {NoKey}
        /\ call' = [r \in Requests |-> call'[r]]
    BY DEF Stop, serverVars, RequestsInv, TypeOK
  <1>2. ASSUME NEW r \in Requests
        PROVE  ClientKeeps(r)
    <2>1. CASE call[r].state = "open" /\ call[r].by = a
      <3>1. call'[r] = Abandon(call[r], TRUE)
        BY <2>1 DEF Stop
      <3>2. CallOK(call[r], applied[r])
        BY DEF RequestsInv
      <3> QED BY <2>1, <3>1, <3>2, AbandonedOK DEF ClientKeeps
    <2>2. CASE ~(call[r].state = "open" /\ call[r].by = a)
      BY <2>2 DEF Stop, ClientKeeps
    <2> QED BY <2>1, <2>2
  <1> QED BY <1>1, <1>2, ClientStepKeeps

\* A first attempt is one copy under way and no effect.
LEMMA SendKeeps ==
    ASSUME RequestsInv, NEW r \in Requests, NEW a \in Agents, Send(r, a)
    PROVE  RequestsInv'
  <1> DEFINE d == [Idle EXCEPT !.state = "open", !.by = a, !.line = "sent", !.off = ahead]
  <1>1. /\ UNCHANGED <<settings, nonce, applied, aborted, degraded>>
        /\ proc' \in [Agents -> {"down", "registering", "up"}]
        /\ registered' \in Agents \cup {NoKey}
        /\ call' = [call EXCEPT ![r] = d]
        /\ call' = [q \in Requests |-> call'[q]]
    BY DEF Send, serverVars, RequestsInv, TypeOK
  <1>2. CallOK(call[r], applied[r]) /\ call[r].state = "idle" /\ ahead \in TooOld..(MAX_SKEW + 1)
    BY DEF RequestsInv, Send, TypeOK
  <1>3. applied[r] = 0 /\ Running(call[r]) = 0
    BY <1>2 DEF CallOK, Running, Idle
  <1>4. CallOK(d, 0) /\ d.line = "sent" /\ Running(d) = 0
    <2>1. Idle \in CallRecord /\ Idle.tries = 0 /\ Idle.late = 0 /\ Idle.busy = 0
      BY AgentRequestsAssumption DEF Idle, CallRecord, TooOld, Lines
    <2>2. d \in CallRecord
      BY <1>2, <2>1 DEF CallRecord, Lines
    <2>3. /\ d.state = "open" /\ d.by = a /\ d.line = "sent" /\ d.off = ahead
          /\ d.tries = 0 /\ d.late = 0 /\ d.busy = 0
      BY <2>1 DEF CallRecord
    <2> HIDE DEF d
    <2>4. ahead \in Int
      BY <1>2, AgentRequestsAssumption DEF TooOld
    <2> QED BY <2>2, <2>3, <2>4, AgentRequestsAssumption DEF CallOK, Flying, Running
  <1>5. call'[r] = d /\ \A q \in Requests : q # r => call'[q] = call[q]
    BY <1>1 DEF RequestsInv, TypeOK
  <1>6. \A q \in Requests : ClientKeeps(q)
    <2> HIDE DEF d
    <2> QED BY <1>3, <1>4, <1>5 DEF ClientKeeps
  <1> QED BY <1>1, <1>6, ClientStepKeeps

\* The client sees an answer, an error, a page that is no JSON, or a timeout.
LEMMA AnswerKeeps ==
    ASSUME RequestsInv, NEW r \in Requests, NEW arrives \in BOOLEAN,
           TransportError(r, arrives) \/ NotJson(r, arrives) \/ Receive(r)
    PROVE  /\ RequestsInv'
           /\ call[r].state = "open"
           /\ call'[r].state \in {"open", "failed"} \/ (call'[r].state = "ok" /\ applied[r] > 0)
           /\ \A q \in Requests : q # r => call'[q] = call[q]
  <1>1. /\ UNCHANGED <<settings, nonce, applied, aborted, degraded>>
        /\ proc' \in [Agents -> {"down", "registering", "up"}]
        /\ registered' \in Agents \cup {NoKey}
        /\ call' = [q \in Requests |-> call'[q]]
        /\ \A q \in Requests : q # r => call'[q] = call[q]
        /\ call[r].state = "open"
    BY DEF TransportError, NotJson, Receive, serverVars, RequestsInv, TypeOK
  <1>2. CallOK(call[r], applied[r])
    BY DEF RequestsInv
  <1>3. /\ CallOK(call'[r], applied[r])
        /\ call'[r].line # "replayed"
        /\ call'[r].off = call[r].off
        /\ Running(call'[r]) = Running(call[r])
        /\ call'[r].state \in {"open", "failed"} \/ (call'[r].state = "ok" /\ applied[r] > 0)
    <2>1. CASE call'[r] = AttemptFailed(call[r], arrives)
      BY <1>1, <1>2, <2>1, AttemptFailedOK
    <2>2. CASE call'[r] = Abandon(call[r], arrives)
      BY <1>1, <1>2, <2>2, AbandonedOK
    <2>3. CASE Receive(r)
      <3>1. call'[r] = [call[r] EXCEPT !.state = IF call[r].line = "done" THEN "ok" ELSE "failed",
                                       !.line = "none"]
        BY <2>3 DEF Receive, RequestsInv, TypeOK
      <3>2. call[r].line \notin {"sent", "busy"}
        BY <2>3 DEF Receive, Answers
      <3>3. call'[r] \in CallRecord
        BY <1>2, <3>1 DEF CallOK, CallRecord, Lines
      <3> QED BY <1>1, <1>2, <3>1, <3>2, <3>3, AgentRequestsAssumption
              DEF CallOK, CallRecord, Flying, Running
    <2>4. \/ Receive(r)
          \/ call'[r] = AttemptFailed(call[r], arrives)
          \/ call'[r] = Abandon(call[r], arrives)
      BY DEF TransportError, NotJson, RequestsInv, TypeOK
    <2> QED BY <2>1, <2>2, <2>3, <2>4
  <1>4. \A q \in Requests : ClientKeeps(q)
    BY <1>1, <1>3 DEF ClientKeeps
  <1> QED BY <1>1, <1>3, <1>4, ClientStepKeeps

-----------------------------------------------------------------------------
(* The server's steps keep the invariant. *)

\* What the dependency does with one copy of r: a copy it lets in while the
\* promise is exact is the first, and leaves a nonce that outlives the
\* timestamp.
LEMMA AdmitEffect ==
    ASSUME RequestsInv, NEW r \in Requests, NEW redis \in Redis,
           call[r].state # "idle", Admit(r, redis)
    PROVE  /\ nonce' \in [Requests -> 0..(2 * MAX_SKEW)]
           /\ \A q \in Requests : q # r => nonce'[q] = nonce[q]
           /\ nonce'[r] >= nonce[r]
           /\ aborted \subseteq aborted' /\ aborted' \subseteq Requests
           /\ degraded' \in BOOLEAN
           /\ Exact' => Exact
           /\ UNCHANGED <<settings, proc, registered, applied>>
           /\ nonce'[r] > 0 => \/ applied[r] > 0 \/ Running(call[r]) > 0 \/ r \in aborted'
                              \/ Accepted(r, redis)
           /\ Verdict(r, redis) = "replayed" =>
                  applied[r] > 0 \/ Running(call[r]) > 0 \/ r \in aborted'
           /\ Accepted(r, redis) /\ Exact' => /\ applied[r] + Running(call[r]) = 0
                                              /\ nonce'[r] >= call[r].off + MAX_SKEW + 1
           /\ Verdict(r, redis) \in {"accepted", "refused", "unavailable", "replayed"}
  <1> USE AgentRequestsAssumption
  <1> DEFINE verdict == Verdict(r, redis)
             stores == ReachesNonceCheck(r) /\ redis # "lost" /\ nonce[r] = 0
             n == applied[r] + Running(call[r])
  <1>0. /\ CallOK(call[r], applied[r]) /\ NonceOK(r)
        /\ nonce \in [Requests -> 0..(2 * MAX_SKEW)]
        /\ aborted \subseteq Requests /\ degraded \in BOOLEAN /\ strict \in BOOLEAN
        /\ call[r].off \in Int /\ ahead \in Int /\ call[r].off <= ahead
    BY DEF RequestsInv, TypeOK, CallOK, CallRecord, TooOld
  <1>1. /\ nonce' = IF stores THEN [nonce EXCEPT ![r] = 2 * MAX_SKEW] ELSE nonce
        /\ aborted' = IF nonce'[r] > nonce[r] /\ verdict = "unavailable"
                      THEN aborted \cup {r} ELSE aborted
        /\ degraded' = (degraded \/ (verdict = "accepted" /\ (redis # "up" \/ ~HasKey)))
        /\ UNCHANGED <<settings, proc, registered, applied>>
    BY DEF Admit, Accepted, StoreNonce, NonceTtl
  <1>2. /\ verdict \in {"accepted", "refused", "unavailable", "replayed"}
        /\ verdict = "accepted" => InWindow(r)
        /\ verdict = "accepted" /\ redis = "up" /\ HasKey => ReachesNonceCheck(r) /\ nonce[r] = 0
        /\ verdict = "accepted" /\ (redis # "up" \/ ~HasKey) => ~strict
        /\ verdict = "replayed" => nonce[r] > 0
        /\ stores => verdict # "refused" /\ verdict # "replayed"
    BY <1>0 DEF Verdict, ReachesNonceCheck, Redis
  <1>3. n \in Nat
    BY <1>0 DEF CallOK, CallRecord, Running
  <1> HIDE DEF verdict
  <1>4. nonce' \in [Requests -> 0..(2 * MAX_SKEW)] /\ nonce'[r] >= nonce[r]
        /\ (stores => nonce'[r] = 2 * MAX_SKEW /\ nonce'[r] > nonce[r])
        /\ (~stores => nonce'[r] = nonce[r])
    <2> HIDE DEF stores
    <2>1. CASE stores
      <3>1. nonce[r] = 0
        BY <2>1 DEF stores
      <3>2. nonce' = [nonce EXCEPT ![r] = 2 * MAX_SKEW]
        BY <1>1, <2>1
      <3> QED BY <2>1, <3>1, <3>2, <1>0
    <2>2. CASE ~stores
      BY <2>2, <1>1, <1>0
    <2> QED BY <2>1, <2>2
  <1>5. nonce'[r] > 0 => \/ applied[r] > 0 \/ Running(call[r]) > 0 \/ r \in aborted'
                         \/ verdict = "accepted"
    <2>1. CASE stores
      BY <2>1, <1>1, <1>2, <1>4
    <2>2. CASE ~stores
      BY <2>2, <1>0, <1>1, <1>4 DEF NonceOK
    <2> QED BY <2>1, <2>2
  <1>6. ASSUME verdict = "accepted", Exact'
        PROVE  n = 0 /\ nonce'[r] >= call[r].off + MAX_SKEW + 1
    <2>1. Exact /\ redis = "up" /\ HasKey
      BY <1>0, <1>1, <1>2, <1>6 DEF Exact, settings
    <2>2. stores
      BY <1>2, <2>1, <1>6
    <2>3. nonce[r] = 0 /\ call[r].off >= -MAX_SKEW
      BY <1>2, <2>1, <1>0, <1>6 DEF InWindow
    <2>4. n = 0
      <3>1. n > 0 => nonce[r] >= call[r].off + MAX_SKEW + 1
        BY <1>0, <2>1 DEF NonceOK
      <3> QED BY <1>0, <1>3, <2>3, <3>1
    <2>5. ahead < MAX_SKEW
      BY <2>1 DEF Exact
    <2> QED BY <1>0, <1>4, <2>2, <2>4, <2>5
  <1>7. \A q \in Requests : q # r => nonce'[q] = nonce[q]
    BY <1>0, <1>1
  <1>8. verdict = "replayed" => applied[r] > 0 \/ Running(call[r]) > 0 \/ r \in aborted'
    BY <1>0, <1>1, <1>2 DEF NonceOK
  <1>9. Exact' => Exact
    BY <1>0, <1>1 DEF Exact, settings
  <1>10. aborted \subseteq aborted' /\ aborted' \subseteq Requests /\ degraded' \in BOOLEAN
    BY <1>0, <1>1
  <1> QED BY <1>1, <1>2, <1>4, <1>5, <1>6, <1>7, <1>8, <1>9, <1>10 DEF verdict, Accepted

\* A step of the server on one call keeps the invariant if it keeps that call
\* well formed and its nonce in order.
LEMMA ServerStepKeeps ==
    ASSUME RequestsInv, NEW r \in Requests, call[r].state # "idle",
           UNCHANGED <<settings, proc, registered>>,
           call' = [q \in Requests |-> call'[q]],
           applied' = [q \in Requests |-> applied'[q]],
           nonce' \in [Requests -> 0..(2 * MAX_SKEW)],
           \A q \in Requests : q # r => /\ call'[q] = call[q] /\ nonce'[q] = nonce[q]
                                        /\ applied'[q] = applied[q],
           aborted \subseteq aborted', aborted' \subseteq Requests, degraded' \in BOOLEAN,
           Exact' => Exact, CallOK(call'[r], applied'[r]), NonceOK(r)'
    PROVE  RequestsInv'
  <1>1. ASSUME NEW q \in Requests
        PROVE  CallOK(call[q], applied[q])'
    <2>1. CallOK(call'[q], applied'[q])
      BY DEF RequestsInv
    <2> QED BY <2>1 DEF CallOK, settings
  <1>2. ASSUME NEW q \in Requests
        PROVE  NonceOK(q)'
    <2>1. CASE q = r
      BY <2>1
    <2>2. CASE q # r
      BY <2>2 DEF RequestsInv, NonceOK
    <2> QED BY <2>1, <2>2
  <1>3. TypeOK'
    <2>1. call' \in [Requests -> CallRecord]
      BY <1>1 DEF CallOK
    <2>2. applied' \in [Requests -> 0..(RetryMaxCount + 1)]
      <3>1. ASSUME NEW q \in Requests PROVE applied'[q] \in 0..(RetryMaxCount + 1)
        <4>1. CallOK(call'[q], applied'[q])
          BY DEF RequestsInv
        <4> QED BY <4>1, EffectsBounded
      <3> QED BY <3>1
    <2> QED BY <2>1, <2>2 DEF RequestsInv, TypeOK, CallRecord, settings
  <1> QED BY <1>1, <1>2, <1>3 DEF RequestsInv

\* The dependency judges the attempt the client waits for, or a late copy.
LEMMA AdmitKeeps ==
    ASSUME RequestsInv, NEW r \in Requests, NEW redis \in Redis,
           AdmitCurrent(r, redis) \/ AdmitLate(r, redis)
    PROVE  /\ RequestsInv'
           /\ \A q \in Requests : call'[q].state = call[q].state
           /\ Exact' => Exact
           /\ UNCHANGED <<settings, applied>>
  <1> USE AgentRequestsAssumption
  <1> DEFINE c == call[r]
             d == call'[r]
             verdict == Verdict(r, redis)
             in == Accepted(r, redis)
  <1>0. call \in [Requests -> CallRecord] /\ applied \in [Requests -> 0..(RetryMaxCount + 1)]
        /\ CallOK(c, applied[r]) /\ NonceOK(r) /\ nonce[r] \in Nat /\ c.off \in Int
    BY DEF RequestsInv, TypeOK, CallRecord, TooOld
  <1>1. c.state # "idle" /\ Admit(r, redis)
    BY <1>0 DEF CallOK, Idle, AdmitCurrent, AdmitLate
  <1>2. /\ nonce' \in [Requests -> 0..(2 * MAX_SKEW)]
        /\ \A q \in Requests : q # r => nonce'[q] = nonce[q]
        /\ nonce'[r] >= nonce[r]
        /\ aborted \subseteq aborted' /\ aborted' \subseteq Requests
        /\ degraded' \in BOOLEAN
        /\ Exact' => Exact
        /\ UNCHANGED <<settings, proc, registered, applied>>
        /\ nonce'[r] > 0 => applied[r] > 0 \/ Running(c) > 0 \/ r \in aborted' \/ in
        /\ verdict = "replayed" => applied[r] > 0 \/ Running(c) > 0 \/ r \in aborted'
        /\ in /\ Exact' => applied[r] + Running(c) = 0 /\ nonce'[r] >= c.off + MAX_SKEW + 1
        /\ verdict \in {"accepted", "refused", "unavailable", "replayed"}
    BY <1>1, AdmitEffect
  <1>3. /\ call' = [q \in Requests |-> call'[q]]
        /\ \A q \in Requests : q # r => call'[q] = call[q]
        /\ \/ c.line = "sent" /\ d = [c EXCEPT !.line = IF in THEN "busy" ELSE verdict]
           \/ c.late > 0 /\ d = [c EXCEPT !.late = c.late - 1,
                                           !.busy = IF in THEN c.busy + 1 ELSE c.busy]
    <2>1. CASE AdmitCurrent(r, redis)
      BY <1>0, <2>1 DEF AdmitCurrent
    <2>2. CASE AdmitLate(r, redis)
      BY <1>0, <2>2 DEF AdmitLate, CallRecord
    <2> QED BY <2>1, <2>2
  <1>4. in = (verdict = "accepted")
    BY DEF Accepted
  <1>5. /\ CallOK(d, applied[r]) /\ d.off = c.off /\ d.state = c.state
        /\ Running(d) = IF in THEN Running(c) + 1 ELSE Running(c)
        /\ d.line = "replayed" => c.line = "replayed" \/ verdict = "replayed"
    <2> HIDE DEF verdict, in, d, c
    <2>0. /\ c \in CallRecord /\ applied[r] \in Nat /\ c.by \in Agents /\ c.off <= ahead
          /\ c.late + c.busy + applied[r] + Flying(c) <= c.tries + 1
          /\ c.state # "open" => c.line = "none"
          /\ c.line = "done" => applied[r] > 0
      BY <1>0, <1>1 DEF CallOK, c
    <2>1. CASE c.line = "sent" /\ d = [c EXCEPT !.line = IF in THEN "busy" ELSE verdict]
      <3>1. /\ d.line = (IF in THEN "busy" ELSE verdict) /\ d.off = c.off /\ d.state = c.state
            /\ d.late = c.late /\ d.busy = c.busy /\ d.tries = c.tries /\ d.by = c.by
        BY <2>0, <2>1 DEF CallRecord
      <3>2. d.line \in {"busy", "refused", "unavailable", "replayed"}
        BY <3>1, <1>2, <1>4
      <3>3. d \in CallRecord
        BY <2>0, <2>1, <3>1, <3>2 DEF CallRecord, Lines, Answers
      <3>4. d.late + d.busy + applied[r] + Flying(d) <= d.tries + 1
        BY <2>0, <2>1, <3>1, <3>2 DEF CallRecord, Flying
      <3>5. Running(d) = IF in THEN Running(c) + 1 ELSE Running(c)
        BY <2>0, <2>1, <3>1, <1>2, <1>4 DEF CallRecord, Running
      <3>6. d.state = "open"
        BY <2>0, <2>1, <3>1
      <3>7. CallOK(d, applied[r])
        BY <2>0, <3>1, <3>2, <3>3, <3>4, <3>6 DEF CallOK
      <3> QED BY <3>1, <3>2, <3>5, <3>7
    <2>2. CASE c.late > 0 /\ d = [c EXCEPT !.late = c.late - 1,
                                          !.busy = IF in THEN c.busy + 1 ELSE c.busy]
      <3>1. /\ d.line = c.line /\ d.off = c.off /\ d.state = c.state
            /\ d.late = c.late - 1 /\ d.busy = (IF in THEN c.busy + 1 ELSE c.busy)
            /\ d.tries = c.tries /\ d.by = c.by
        BY <2>0, <2>2 DEF CallRecord
      <3>2. d.late + d.busy + applied[r] + Flying(d) <= d.tries + 1
        BY <2>0, <2>2, <3>1 DEF CallRecord, Flying
      <3>3. d.busy \in 0..(RetryMaxCount + 1) /\ d.late \in 0..(RetryMaxCount + 1)
        BY <2>0, <2>2, <3>1, <3>2 DEF CallRecord, Flying
      <3>4. d \in CallRecord
        BY <2>0, <2>2, <3>1, <3>3 DEF CallRecord
      <3>5. Running(d) = IF in THEN Running(c) + 1 ELSE Running(c)
        BY <2>0, <3>1 DEF CallRecord, Running
      <3>6. CallOK(d, applied[r])
        BY <1>1, <2>0, <3>1, <3>2, <3>4 DEF CallOK, c
      <3> QED BY <3>1, <3>5, <3>6
    <2> QED BY <1>3, <2>1, <2>2 DEF c, d, in, verdict
  <1>6. NonceOK(r)'
    <2>1. Running(c) \in Nat /\ applied[r] \in Nat
      BY <1>0 DEF CallOK, CallRecord, Running
    <2>2. /\ applied'[r] = applied[r]
          /\ nonce[r] > 0 => applied[r] > 0 \/ Running(c) > 0 \/ r \in aborted
          /\ c.line = "replayed" => applied[r] > 0 \/ Running(c) > 0 \/ r \in aborted
          /\ Exact => applied[r] + Running(c) <= 1
          /\ Exact /\ applied[r] + Running(c) > 0 => nonce[r] >= c.off + MAX_SKEW + 1
      BY <1>0, <1>2 DEF NonceOK
    <2>3. nonce'[r] \in Int
      BY <1>2
    <2>4. /\ nonce'[r] > 0 => applied'[r] > 0 \/ Running(d) > 0 \/ r \in aborted'
          /\ d.line = "replayed" => applied'[r] > 0 \/ Running(d) > 0 \/ r \in aborted'
          /\ Exact' => applied'[r] + Running(d) <= 1
          /\ Exact' /\ applied'[r] + Running(d) > 0 => nonce'[r] >= d.off + MAX_SKEW + 1
      <3> HIDE DEF c, d, in, verdict
      <3> QED BY <1>0, <1>2, <1>5, <2>1, <2>2, <2>3
    <2> QED BY <2>4 DEF NonceOK, Running
  <1>7. applied' = [q \in Requests |-> applied'[q]]
    BY <1>0, <1>2
  <1>8. RequestsInv'
    BY <1>1, <1>2, <1>3, <1>5, <1>6, <1>7, ServerStepKeeps
  <1> QED BY <1>2, <1>3, <1>5, <1>8

\* A handler ends, whether or not somebody waits for its answer.
LEMMA HandleKeeps ==
    ASSUME RequestsInv, NEW r \in Requests, NEW end \in Ends,
           HandleCurrent(r, end) \/ HandleLate(r, end)
    PROVE  /\ RequestsInv'
           /\ call[r].state # "idle"
           /\ \A q \in Requests : call'[q].state = call[q].state
           /\ UNCHANGED <<settings, degraded>>
           /\ \/ UNCHANGED applied
              \/ applied' = [applied EXCEPT ![r] = @ + 1] /\ (Exact => applied[r] = 0)
  <1> USE AgentRequestsAssumption
  <1> DEFINE c == call[r]
             d == call'[r]
             commits == end \in {"commit", "commit_cut"}
  <1>0. call \in [Requests -> CallRecord] /\ applied \in [Requests -> 0..(RetryMaxCount + 1)]
        /\ nonce \in [Requests -> 0..(2 * MAX_SKEW)] /\ aborted \subseteq Requests
        /\ CallOK(c, applied[r]) /\ NonceOK(r) /\ degraded \in BOOLEAN
    BY DEF RequestsInv, TypeOK, CallRecord
  <1>1. c.state # "idle" /\ Handle(r, end)
    BY <1>0 DEF CallOK, Idle, HandleCurrent, HandleLate
  <1>2. /\ applied' = IF commits THEN [applied EXCEPT ![r] = @ + 1] ELSE applied
        /\ aborted' = IF commits THEN aborted ELSE aborted \cup {r}
        /\ UNCHANGED <<settings, proc, registered, nonce, degraded>>
    BY <1>1 DEF Handle, Ends
  <1>3. /\ call' = [q \in Requests |-> call'[q]]
        /\ \A q \in Requests : q # r => call'[q] = call[q]
        /\ \/ c.line = "busy" /\ d = [c EXCEPT !.line = Reply(end)]
           \/ c.busy > 0 /\ d = [c EXCEPT !.busy = c.busy - 1]
    BY <1>0 DEF HandleCurrent, HandleLate
  <1>4. /\ Reply(end) \in {"done", "error", "cut"}
        /\ Reply(end) = "done" => commits
    BY DEF Reply, Ends
  <1>5. /\ applied'[r] = IF commits THEN applied[r] + 1 ELSE applied[r]
        /\ applied' = [q \in Requests |-> applied'[q]]
        /\ \A q \in Requests : q # r => applied'[q] = applied[q]
        /\ applied[r] \in Nat
    <2> HIDE DEF commits
    <2>1. CASE commits
      <3>1. applied' = [applied EXCEPT ![r] = @ + 1]
        BY <1>2, <2>1
      <3>2. applied \in [Requests -> 0..(RetryMaxCount + 1)]
        BY <1>0
      <3>3. applied'[r] = applied[r] + 1 /\ applied[r] \in Nat
        BY <3>1, <3>2
      <3>4. applied' = [q \in Requests |-> applied'[q]]
        BY <3>1, <3>2
      <3>5. \A q \in Requests : q # r => applied'[q] = applied[q]
        BY <3>1, <3>2
      <3> QED BY <2>1, <3>3, <3>4, <3>5
    <2>2. CASE ~commits
      BY <1>0, <1>2, <2>2
    <2> QED BY <2>1, <2>2
  <1>6. /\ CallOK(d, applied'[r]) /\ d.off = c.off /\ d.state = c.state
        /\ Running(c) \in Nat /\ Running(c) > 0 /\ Running(d) = Running(c) - 1
    <2> HIDE DEF d, c, commits
    <2>0. /\ c \in CallRecord /\ c.by \in Agents /\ c.off <= ahead
          /\ c.late + c.busy + applied[r] + Flying(c) <= c.tries + 1
          /\ c.state # "open" => c.line = "none"
          /\ c.line = "done" => applied[r] > 0
      BY <1>0, <1>1 DEF CallOK, c
    <2>1. CASE c.line = "busy" /\ d = [c EXCEPT !.line = Reply(end)]
      <3>1. /\ d.line = Reply(end) /\ d.off = c.off /\ d.state = c.state
            /\ d.late = c.late /\ d.busy = c.busy /\ d.tries = c.tries /\ d.by = c.by
        BY <2>0, <2>1 DEF CallRecord
      <3>2. d \in CallRecord
        BY <2>0, <2>1, <3>1, <1>4 DEF CallRecord, Lines, Answers
      <3>3. d.late + d.busy + applied'[r] + Flying(d) <= d.tries + 1
        BY <2>0, <2>1, <3>1, <1>4, <1>5 DEF CallRecord, Flying
      <3>4. Running(c) \in Nat /\ Running(c) > 0 /\ Running(d) = Running(c) - 1
        BY <2>0, <2>1, <3>1, <1>4 DEF CallRecord, Running
      <3>5. d.state = "open" /\ applied'[r] \in Nat /\ (d.line = "done" => applied'[r] > 0)
        BY <2>0, <2>1, <3>1, <1>4, <1>5
      <3>6. CallOK(d, applied'[r])
        BY <2>0, <3>1, <3>2, <3>3, <3>5 DEF CallOK
      <3> QED BY <3>1, <3>4, <3>6
    <2>2. CASE c.busy > 0 /\ d = [c EXCEPT !.busy = c.busy - 1]
      <3>1. /\ d.line = c.line /\ d.off = c.off /\ d.state = c.state
            /\ d.late = c.late /\ d.busy = c.busy - 1 /\ d.tries = c.tries /\ d.by = c.by
        BY <2>0, <2>2 DEF CallRecord
      <3>2. d \in CallRecord
        BY <2>0, <2>2, <3>1 DEF CallRecord
      <3>3. d.late + d.busy + applied'[r] + Flying(d) <= d.tries + 1
        BY <2>0, <2>2, <3>1, <1>5 DEF CallRecord, Flying
      <3>4. Running(c) \in Nat /\ Running(c) > 0 /\ Running(d) = Running(c) - 1
        BY <2>0, <2>2, <3>1 DEF CallRecord, Running
      <3>5. applied'[r] \in Nat /\ (d.line = "done" => applied'[r] > 0)
        BY <2>0, <3>1, <1>5
      <3>6. CallOK(d, applied'[r])
        BY <1>1, <2>0, <3>1, <3>2, <3>3, <3>5 DEF CallOK, c
      <3> QED BY <3>1, <3>4, <3>6
    <2> QED BY <1>3, <2>1, <2>2 DEF c, d
  <1>7. /\ Exact => applied[r] + Running(c) <= 1
        /\ Exact => nonce[r] >= c.off + MAX_SKEW + 1
    BY <1>0, <1>5, <1>6 DEF NonceOK
  <1>8. Exact' = Exact /\ nonce' = nonce /\ (applied'[r] > 0 \/ r \in aborted')
    BY <1>2, <1>5 DEF Exact, settings
  <1>9. NonceOK(r)'
    <2>1. Exact' => applied'[r] + Running(d) <= 1
      BY <1>5, <1>6, <1>7, <1>8
    <2> QED BY <1>6, <1>7, <1>8, <2>1 DEF NonceOK, Running
  <1>10. aborted \subseteq aborted' /\ aborted' \subseteq Requests
    <2>1. aborted' = aborted \/ aborted' = aborted \cup {r}
      BY <1>2
    <2> QED BY <1>0, <2>1
  <1>11. RequestsInv'
    BY <1>0, <1>1, <1>2, <1>3, <1>5, <1>6, <1>8, <1>9, <1>10, ServerStepKeeps
  <1>12. Exact => applied[r] = 0
    BY <1>5, <1>6, <1>7
  <1> QED BY <1>1, <1>2, <1>3, <1>6, <1>11, <1>12

\* A second takes as much from the nonce as from the timestamp.
LEMMA TickKeeps ==
    ASSUME RequestsInv, Tick
    PROVE  /\ RequestsInv'
           /\ \A r \in Requests : call'[r].state = call[r].state
  <1> USE AgentRequestsAssumption
  <1>0. /\ call \in [Requests -> CallRecord] /\ ahead \in Int
        /\ nonce \in [Requests -> 0..(2 * MAX_SKEW)]
    BY DEF RequestsInv, TypeOK, CallRecord, TooOld
  <1>1. ASSUME NEW r \in Requests
        PROVE  /\ call'[r] \in CallRecord
               /\ CallOK(call'[r], applied[r])
               /\ call'[r].line = call[r].line
               /\ call'[r].state = call[r].state
               /\ Running(call'[r]) = Running(call[r])
               /\ applied[r] + Running(call[r]) > 0 /\ call[r].off > TooOld
                      => call'[r].off = call[r].off - 1
               /\ call[r].off = TooOld => call'[r].off = TooOld
               /\ nonce'[r] \in 0..(2 * MAX_SKEW)
               /\ nonce'[r] = IF nonce[r] > 0 THEN nonce[r] - 1 ELSE 0
    <2> DEFINE c == call[r]
               d == call'[r]
    <2>1. CallOK(c, applied[r]) /\ c \in CallRecord
      BY <1>0 DEF RequestsInv
    <2>2. nonce'[r] = (IF nonce[r] > 0 THEN nonce[r] - 1 ELSE 0)
          /\ nonce'[r] \in 0..(2 * MAX_SKEW)
      BY <1>0 DEF Tick
    <2>3. CASE c.by # NoKey /\ c.off > TooOld
      <3>1. d = [c EXCEPT !.off = c.off - 1]
        BY <2>3 DEF Tick
      <3>2. /\ d.off = c.off - 1 /\ d.state = c.state /\ d.line = c.line
            /\ d.late = c.late /\ d.busy = c.busy /\ d.tries = c.tries /\ d.by = c.by
        BY <2>1, <3>1 DEF CallRecord
      <3>3. d \in CallRecord
        BY <2>1, <2>3, <3>1 DEF CallRecord, TooOld
      <3>4. c.state # "idle"
        BY <2>1, <2>3 DEF CallOK, Idle
      <3>5. d.off <= ahead
        BY <1>0, <2>1, <3>2, <3>4 DEF CallOK, CallRecord, TooOld
      <3>6. CallOK(d, applied[r])
        BY <2>1, <3>2, <3>3, <3>4, <3>5 DEF CallOK, Flying
      <3>7. Running(d) = Running(c)
        BY <3>2 DEF Running
      <3> QED BY <2>2, <2>3, <3>2, <3>3, <3>6, <3>7 DEF TooOld
    <2>4. CASE ~(c.by # NoKey /\ c.off > TooOld)
      <3>1. d = c
        BY <2>4 DEF Tick
      <3>2. applied[r] + Running(c) > 0 => c.by # NoKey
        BY <2>1 DEF CallOK, Idle, Running
      <3> QED BY <2>1, <2>2, <2>4, <3>1, <3>2
    <2> QED BY <2>3, <2>4
  <1>2. ASSUME NEW r \in Requests
        PROVE  CallOK(call[r], applied[r])' /\ NonceOK(r)'
    <2>1. CallOK(call[r], applied[r])'
      BY <1>1 DEF CallOK, Tick, settings
    <2>2. Exact' = Exact /\ applied' = applied /\ aborted' = aborted
      BY DEF Tick, Exact, settings
    <2>3. /\ NonceOK(r) /\ nonce[r] \in Nat /\ call[r].off \in Int /\ call[r].off >= TooOld
          /\ TooOld = -(MAX_SKEW + 1)
      BY <1>0 DEF RequestsInv, CallRecord, TooOld
    <2>4. Exact' /\ applied'[r] + Running(call[r])' > 0
             => nonce'[r] >= call'[r].off + MAX_SKEW + 1
      <3> SUFFICES ASSUME Exact, applied[r] + Running(call[r]) > 0
                   PROVE  nonce'[r] >= call'[r].off + MAX_SKEW + 1
        BY <1>1, <2>2 DEF Running
      <3>1. nonce[r] >= call[r].off + MAX_SKEW + 1
        BY <2>3 DEF NonceOK
      <3>2. CASE call[r].off > TooOld
        BY <3>1, <3>2, <1>1, <2>3
      <3>3. CASE call[r].off = TooOld
        BY <3>3, <1>1, <2>3
      <3> QED BY <2>3, <3>2, <3>3
    <2>5. NonceOK(r)'
      <3>1. Running(call[r])' = Running(call[r])
        BY <1>1 DEF Running
      <3> QED BY <1>1, <2>2, <2>3, <2>4, <3>1 DEF NonceOK
    <2> QED BY <2>1, <2>5
  <1>3. TypeOK'
    <2>1. call' \in [Requests -> CallRecord] /\ nonce' \in [Requests -> 0..(2 * MAX_SKEW)]
      <3>1. call' = [r \in Requests |-> call'[r]] /\ nonce' = [r \in Requests |-> nonce'[r]]
        BY DEF Tick
      <3> QED BY <3>1, <1>1
    <2> QED BY <2>1 DEF Tick, settings, RequestsInv, TypeOK, CallRecord
  <1> QED BY <1>1, <1>2, <1>3 DEF RequestsInv

-----------------------------------------------------------------------------
(* The theorems. *)

\* Every step keeps the invariant.
LEMMA StepKeeps ==
    ASSUME RequestsInv, [Next]_vars
    PROVE  RequestsInv'
  <1>1. CASE Next
    <2>1. TRUE \in BOOLEAN
      OBVIOUS
    <2> QED BY <1>1, <2>1, ProcessKeeps, StopKeeps, SendKeeps, AnswerKeeps, AdmitKeeps,
               HandleKeeps, TickKeeps
            DEF Next
  <1>2. CASE UNCHANGED vars
    <2>1. /\ UNCHANGED <<settings, nonce, applied, aborted, degraded>>
          /\ proc' \in [Agents -> {"down", "registering", "up"}]
          /\ registered' \in Agents \cup {NoKey}
          /\ call' = [r \in Requests |-> call'[r]]
          /\ \A r \in Requests : ClientKeeps(r)
      BY <1>2 DEF vars, settings, RequestsInv, TypeOK, ClientKeeps
    <2> QED BY <2>1, ClientStepKeeps
  <1> QED BY <1>1, <1>2

\* The inductive invariant of signing, retrying and serving a request.
THEOREM RequestsInvariance == Spec => []RequestsInv
  <1>1. Init => RequestsInv
    <2> SUFFICES ASSUME Init PROVE RequestsInv
      OBVIOUS
    <2> USE AgentRequestsAssumption
    <2>1. Idle \in CallRecord /\ Idle.state = "idle" /\ Idle.line = "none"
          /\ Running(Idle) = 0
      BY DEF Idle, CallRecord, TooOld, Lines, Running
    <2>2. call \in [Requests -> CallRecord] /\ \A r \in Requests : call[r] = Idle /\ applied[r] = 0
      BY <2>1 DEF Init
    <2>3. TypeOK
      <3>1. nonce \in [Requests -> 0..(2 * MAX_SKEW)]
        BY DEF Init
      <3>2. applied \in [Requests -> 0..(RetryMaxCount + 1)]
        BY DEF Init
      <3>3. aborted \in SUBSET Requests /\ degraded \in BOOLEAN
        BY DEF Init
      <3> QED BY <2>2, <3>1, <3>2, <3>3 DEF Init, TypeOK, CallRecord
    <2>4. \A r \in Requests : CallOK(call[r], applied[r])
      BY <2>1, <2>2 DEF CallOK
    <2>5. \A r \in Requests : NonceOK(r)
      BY <2>1, <2>2 DEF NonceOK, Init
    <2> QED BY <2>3, <2>4, <2>5 DEF RequestsInv
  <1>2. RequestsInv /\ [Next]_vars => RequestsInv'
    BY StepKeeps
  <1> QED BY <1>1, <1>2, PTL DEF Spec

\* Neither retries nor late copies take the counters of a call beyond the
\* retries of _request, and no nonce outlives the TTL of core/replay.py.
THEOREM RequestsTypeCorrect == Spec => []TypeOK
  <1>1. RequestsInv => TypeOK
    BY DEF RequestsInv
  <1> QED BY RequestsInvariance, <1>1, PTL

\* A client is told "replayed" only of a request that was let in: committed,
\* in its handler at this moment, or broken off after is_replayed had stored
\* the nonce.
THEOREM ReplayedCorrect == Spec => []ReplayedWasAdmitted
  <1>1. RequestsInv => ReplayedWasAdmitted
    <2> SUFFICES ASSUME RequestsInv, NEW r \in Requests, call[r].line = "replayed"
                 PROVE  applied[r] > 0 \/ InHandler(r) \/ r \in aborted
      BY DEF ReplayedWasAdmitted
    <2>1. call[r].busy \in Nat
      BY AgentRequestsAssumption DEF RequestsInv, CallOK, CallRecord
    <2> QED BY <2>1 DEF RequestsInv, NonceOK, Running, InHandler
  <1> QED BY RequestsInvariance, <1>1, PTL

\* Every step of the clients, the network and the backend is a step of
\* ReportDelivery or changes nothing that it shows.
LEMMA StepDelivers ==
    ASSUME RequestsInv, [Next]_vars
    PROVE  [Delivery!DeliveryNext]_(Delivery!deliveryVars)
  <1> DEFINE outcome == [r \in Requests |-> call[r].state]
  <1> USE DEF Delivery!deliveryVars
  <1>0. call \in [Requests -> CallRecord] /\ applied \in [Requests -> 0..(RetryMaxCount + 1)]
    BY DEF RequestsInv, TypeOK, CallRecord
  <1>1. ASSUME NEW a \in Agents,
               Start(a) \/ rotate_signing_key(a)
                 \/ \E answered \in BOOLEAN : Register(a, answered)
        PROVE  UNCHANGED Delivery!deliveryVars
    BY <1>1 DEF Start, rotate_signing_key, Register, settings
  <1>2. ASSUME NEW a \in Agents, Stop(a)
        PROVE  [Delivery!DeliveryNext]_(Delivery!deliveryVars)
    <2>0. PICK R \in SUBSET Requests :
              R = {r \in Requests : call[r].state = "open" /\ call[r].by = a}
      OBVIOUS
    <2>1. UNCHANGED <<strict, ahead, degraded, applied>>
      BY <1>2 DEF Stop, settings, serverVars
    <2>2. ASSUME NEW r \in Requests
          PROVE  call'[r].state = IF r \in R THEN "failed" ELSE call[r].state
      BY <1>2, <2>0, AbandonedOK DEF Stop, RequestsInv
    <2>3. CASE R = {}
      BY <2>1, <2>2, <2>3
    <2>4. CASE R # {}
      <3>1. outcome' = [r \in Requests |-> IF r \in R THEN "failed" ELSE outcome[r]]
        BY <2>2
      <3>2. \A r \in R : outcome[r] = "open"
        BY <2>0
      <3>3. Delivery!GiveUp(R)
        BY <2>1, <2>4, <3>1, <3>2 DEF Delivery!GiveUp, Delivery!Open
      <3> QED BY <3>3 DEF Delivery!DeliveryNext
    <2> QED BY <2>3, <2>4
  <1>3. ASSUME NEW r \in Requests, NEW a \in Agents, Send(r, a)
        PROVE  Delivery!DeliveryNext
    <2>1. UNCHANGED <<strict, ahead, degraded, applied>> /\ call[r].state = "idle"
      BY <1>3 DEF Send, settings, serverVars
    <2>2. Idle \in CallRecord
      BY AgentRequestsAssumption DEF Idle, CallRecord, TooOld, Lines
    <2>3. call'[r].state = "open" /\ \A q \in Requests : q # r => call'[q] = call[q]
      BY <1>0, <1>3, <2>2 DEF Send, CallRecord
    <2>4. outcome' = [outcome EXCEPT ![r] = "open"]
      BY <2>3
    <2>5. Delivery!Begin(r)
      BY <2>1, <2>4 DEF Delivery!Begin
    <2> QED BY <2>5 DEF Delivery!DeliveryNext
  <1>4. ASSUME NEW r \in Requests, NEW arrives \in BOOLEAN,
               TransportError(r, arrives) \/ NotJson(r, arrives) \/ Receive(r)
        PROVE  [Delivery!DeliveryNext]_(Delivery!deliveryVars)
    <2>1. UNCHANGED <<strict, ahead, degraded, applied>>
      BY <1>4 DEF TransportError, NotJson, Receive, settings, serverVars
    <2>2. /\ call[r].state = "open"
          /\ call'[r].state \in {"open", "failed"} \/ (call'[r].state = "ok" /\ applied[r] > 0)
          /\ \A q \in Requests : q # r => call'[q] = call[q]
      BY <1>4, AnswerKeeps
    <2>3. CASE call'[r].state = "open"
      BY <2>1, <2>2, <2>3
    <2>4. CASE call'[r].state = "failed"
      <3>1. outcome' = [q \in Requests |-> IF q \in {r} THEN "failed" ELSE outcome[q]]
        BY <2>2, <2>4
      <3>2. Delivery!GiveUp({r})
        BY <2>1, <2>2, <3>1 DEF Delivery!GiveUp, Delivery!Open
      <3>3. {r} \in SUBSET Requests
        OBVIOUS
      <3> QED BY <3>2, <3>3 DEF Delivery!DeliveryNext
    <2>5. CASE call'[r].state = "ok" /\ applied[r] > 0
      <3>1. outcome' = [outcome EXCEPT ![r] = "ok"]
        BY <2>2, <2>5
      <3>2. Delivery!Confirm(r)
        BY <2>1, <2>2, <2>5, <3>1 DEF Delivery!Confirm, Delivery!Open
      <3> QED BY <3>2 DEF Delivery!DeliveryNext
    <2> QED BY <2>2, <2>3, <2>4, <2>5
  <1>5. ASSUME NEW r \in Requests, NEW redis \in Redis,
               AdmitCurrent(r, redis) \/ AdmitLate(r, redis)
        PROVE  [Delivery!DeliveryNext]_(Delivery!deliveryVars)
    <2>1. UNCHANGED <<outcome, applied>> /\ (Exact' => Exact)
      BY <1>5, AdmitKeeps
    <2>2. CASE Exact /\ ~Exact'
      <3>1. Delivery!Withdraw
        BY <2>1, <2>2 DEF Delivery!Withdraw, Exact
      <3> QED BY <3>1 DEF Delivery!DeliveryNext
    <2>3. CASE Exact' = Exact
      BY <2>1, <2>3 DEF Exact
    <2>4. Exact \in BOOLEAN /\ Exact' \in BOOLEAN
      BY DEF Exact
    <2> QED BY <2>1, <2>2, <2>3, <2>4
  <1>9. ASSUME NEW r \in Requests, NEW end \in Ends,
               HandleCurrent(r, end) \/ HandleLate(r, end)
        PROVE  [Delivery!DeliveryNext]_(Delivery!deliveryVars)
    <2>1. /\ UNCHANGED outcome /\ outcome[r] # "idle"
          /\ UNCHANGED <<settings, degraded>>
          /\ \/ UNCHANGED applied
             \/ applied' = [applied EXCEPT ![r] = @ + 1] /\ (Exact => applied[r] = 0)
      BY <1>9, HandleKeeps
    <2>2. CASE UNCHANGED applied
      BY <2>1, <2>2 DEF settings
    <2>3. CASE applied' = [applied EXCEPT ![r] = @ + 1] /\ (Exact => applied[r] = 0)
      <3>1. Delivery!Take(r)
        BY <2>1, <2>3 DEF Delivery!Take, Exact, settings
      <3> QED BY <3>1 DEF Delivery!DeliveryNext
    <2> QED BY <2>1, <2>2, <2>3
  <1>6. ASSUME Tick
        PROVE  UNCHANGED Delivery!deliveryVars
    <2>1. UNCHANGED outcome
      BY <1>6, TickKeeps
    <2> QED BY <1>6, <2>1 DEF Tick, settings
  <1>7. CASE UNCHANGED vars
    BY <1>7 DEF vars
  <1>8. TRUE \in BOOLEAN
    OBVIOUS
  <1> QED BY <1>1, <1>2, <1>3, <1>4, <1>5, <1>6, <1>7, <1>8, <1>9 DEF Next

\* The safety part of DeliversAtMostOnce: what ReportDelivery promises without
\* the promise that every call ends.
DeliverySafety ==
    Delivery!DeliveryInit /\ [][Delivery!DeliveryNext]_(Delivery!deliveryVars)

\* Clients, network and nonce store implement ReportDelivery: a call that
\* returns data was committed, and while the promise holds none commits twice,
\* however many copies arrive and however late (_request, deps.py, replay.py).
THEOREM DeliverySafe == Spec => DeliverySafety
  <1>1. Init => Delivery!DeliveryInit
    <2> SUFFICES ASSUME Init PROVE Delivery!DeliveryInit
      OBVIOUS
    <2>1. \A r \in Requests : call[r].state = "idle"
      BY DEF Init, Idle
    <2> QED BY <2>1 DEF Init, Delivery!DeliveryInit
  <1>2. RequestsInv /\ [Next]_vars => [Delivery!DeliveryNext]_(Delivery!deliveryVars)
    BY StepDelivers
  <1> QED BY RequestsInvariance, <1>1, <1>2, PTL DEF Spec, DeliverySafety

\* What TLC has left to show of the refinement is that every call ends.
THEOREM DeliversIfCallsEnd == Spec /\ Delivery!CallsEnd => DeliversAtMostOnce
  BY DeliverySafe, PTL DEF DeliverySafety, DeliversAtMostOnce, Delivery!DeliverySpec
=============================================================================



