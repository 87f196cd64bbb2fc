----------------------------- MODULE WebSession -----------------------------
(***************************************************************************)
(* One browser with the web frontend on the backend of Accounts: the user  *)
(* store, the route guard and the axios interceptors.                      *)
(*                                                                         *)
(* A call is sent, answered by a worker or by the gateway, and received by *)
(* the page that may be another one by then.  userInfo and roles are       *)
(* always written together, so info stands for both.  The dashboard stands *)
(* for the pages that poll, users for the ones that need SYSTEM_ADMIN;     *)
(* loading is the first navigation of a page load.                         *)
(***************************************************************************)
EXTENDS Accounts

CONSTANTS
    Calls,          \* bound: calls in flight
    MAX_RETRY,
    NoToken, NoInfo, Free

VARIABLES
    token,      \* of the store and of localStorage
    info,       \* userInfo and roles
    path,       \* the current route
    call

pageVars == <<token, info, path, call>>
vars == <<accountVars, pageVars>>

WebInit ==
    /\ AccountsInit
    /\ token = NoToken /\ info = NoInfo
    /\ path = "login"
    /\ call = [c \in Calls |-> Free]

NewCall(kind, u, t, then) ==
    [kind |-> kind, user |-> u, token |-> t, then |-> then, retries |-> 0, answer |-> "pending"]

Flight(kinds) == {c \in Calls : call[c] # Free /\ call[c].kind \in kinds}

-----------------------------------------------------------------------------
(* The answer: ok, refused (401), error (any other of the server's), or       *)
(* gateway (502 to 504).                                                     *)

Refused(t) == t # NoToken /\ (t.expired \/ ~get_current_user(t.user))

Answer(m) ==
    CASE m.kind = "login" -> IF login(m.user) THEN "ok" ELSE "refused"
      [] m.kind # "login" /\ (m.token = NoToken \/ Refused(m.token)) -> "refused"
      [] OTHER -> "ok"

\* The body of GET /auth/me.
Me(m) == [user |-> m.token.user, admin |-> SYSTEM_ADMIN \in user[m.token.user].roles]

Answered(m) ==
    IF m.kind = "me" /\ Serving /\ Answer(m) = "ok"
    THEN [m EXCEPT !.answer = "ok", !.user = Me(m)]
    ELSE [m EXCEPT !.answer = IF Serving THEN Answer(m) ELSE "gateway"]

Handle(c) ==
    /\ call[c] # Free /\ call[c].answer = "pending"
    /\ call' = [call EXCEPT ![c] = Answered(@)]
    /\ UNCHANGED <<accountVars, token, info, path>>

\* A request the database fails is answered with 500.
HandleFails(c) ==
    /\ call[c] # Free /\ call[c].answer = "pending"
    /\ Disturb
    /\ call' = [call EXCEPT ![c].answer = "error"]
    /\ UNCHANGED <<user, role, rules, worker, edited, token, info, path>>

-----------------------------------------------------------------------------
(* The interceptors and what awaits the call *)

\* beforeEach once the user's data are there or have been asked for
Guard(to, t, i) ==
    CASE t = NoToken -> "login"
      [] t # NoToken /\ to = "users" /\ (i = NoInfo \/ ~i.admin) -> "dashboard"
      [] OTHER -> to

\* Mutated form: the page changes and the session stays.
ReceiveRefusalPushOnly(c) ==
    /\ call[c].answer = "refused"
    /\ path' = Guard("dashboard", token, info)
    /\ call' = [call EXCEPT ![c] = Free]
    /\ UNCHANGED <<token, info>>

\* Any 401 ends the session that is there now, whichever token it was for.
ReceiveRefusal(c) ==
    /\ call[c].answer = "refused"
    /\ token' = NoToken /\ info' = NoInfo
    /\ path' = "login"
    /\ call' = [call EXCEPT ![c] = Free]

\* isRetryableGatewayError: of these calls only the GETs are.  The request
\* interceptor puts the token of now into the repeated call.
Retryable(m) == m.answer = "gateway" /\ m.kind # "login" /\ m.retries < MAX_RETRY

ReceiveRetry(c) ==
    /\ Retryable(call[c])
    /\ call' = [call EXCEPT ![c].retries = @ + 1, ![c].answer = "pending",
                            ![c].token = IF token # NoToken THEN token ELSE @]
    /\ UNCHANGED <<token, info, path>>

\* The guard that was waiting goes on; a failed login leaves the login page.
ReceiveFailure(c) ==
    /\ call[c].answer \in {"error", "gateway"} /\ ~Retryable(call[c])
    /\ path' = IF call[c].then \in {"dashboard", "users"} /\ path = "loading"
               THEN Guard(call[c].then, token, info) ELSE path
    /\ call' = [call EXCEPT ![c] = Free]
    /\ UNCHANGED <<token, info>>

\* Mutated form: the token is stored and nothing follows.
ReceiveLoginOnly(c) ==
    /\ call[c].kind = "login" /\ call[c].answer = "ok"
    /\ token' = [user |-> call[c].user, expired |-> FALSE]
    /\ call' = [call EXCEPT ![c] = Free]
    /\ UNCHANGED <<info, path>>

\* login: the token is stored, then the user's data are fetched with it.
ReceiveLogin(c) ==
    /\ call[c].kind = "login" /\ call[c].answer = "ok"
    /\ LET t == [user |-> call[c].user, expired |-> FALSE]
       IN  /\ token' = t
           /\ call' = [call EXCEPT ![c] = NewCall("me", NoUser, t, "dashboard")]
    /\ UNCHANGED <<info, path>>

\* fetchMe: no one asks whether the answer is for the token of now.
ReceiveMe(c) ==
    /\ call[c].kind = "me" /\ call[c].answer = "ok"
    /\ info' = call[c].user
    /\ path' = Guard(call[c].then, token, info')
    /\ call' = [call EXCEPT ![c] = Free]
    /\ UNCHANGED token

ReceiveData(c) ==
    /\ call[c].kind = "api" /\ call[c].answer = "ok"
    /\ call' = [call EXCEPT ![c] = Free]
    /\ UNCHANGED <<token, info, path>>

Receive(c) ==
    /\ call[c] # Free /\ call[c].answer # "pending"
    /\ \/ ReceiveRefusal(c) \/ ReceiveRetry(c) \/ ReceiveFailure(c)
       \/ ReceiveLogin(c) \/ ReceiveMe(c) \/ ReceiveData(c)
    /\ UNCHANGED accountVars

-----------------------------------------------------------------------------
(* The user and the page *)

\* The slots are alike, so it does not matter which one is taken.
Send(m) ==
    /\ \E c \in Calls : call[c] = Free
    /\ call' = [call EXCEPT ![CHOOSE c \in Calls : call[c] = Free] = m]

\* The Enter key sends the form again while the button is still loading.
handleLogin(u) ==
    /\ path = "login"
    /\ IF Flight({"login", "me"}) = {} THEN UNCHANGED disturbances ELSE Disturb
    /\ Send(NewCall("login", u, NoToken, "none"))
    /\ UNCHANGED <<user, role, rules, worker, edited, token, info, path>>

handleLogout ==
    /\ path \in {"dashboard", "users"}
    /\ token' = NoToken /\ info' = NoInfo
    /\ path' = "login"
    /\ UNCHANGED <<accountVars, call>>

\* A page fetches its data when it is mounted, the dashboard every ten seconds.
Visit(to) ==
    /\ path \in {"dashboard", "users"}
    /\ path' = Guard(to, token, info)
    /\ Send(NewCall("api", NoUser, token, "none"))
    /\ UNCHANGED <<accountVars, token, info>>

Poll ==
    /\ path = "dashboard"
    /\ Send(NewCall("api", NoUser, token, "none"))
    /\ UNCHANGED <<accountVars, token, info, path>>

\* Only the token survives; what was in flight answers to no one.  The guard
\* asks for the user's data once per page load, here: on a page that is open
\* they are there, or it has failed to get them and does not try again.
Reload ==
    /\ Disturb
    /\ info' = NoInfo
    /\ IF token = NoToken
       THEN /\ path' = "login"
            /\ call' = [c \in Calls |-> Free]
       ELSE /\ path' = "loading"
            /\ \E to \in {"dashboard", "users"} :
                  /\ to = "users" => path = "users"
                  /\ call' = [c \in Calls |->
                                IF c = CHOOSE d \in Calls : TRUE
                                THEN NewCall("me", NoUser, token, to) ELSE Free]
    /\ UNCHANGED <<user, role, rules, worker, edited, token>>

Expired(t) == IF t = NoToken THEN t ELSE [t EXCEPT !.expired = TRUE]

\* JWT_EXPIRE_MINUTES pass.
Expire ==
    /\ token # NoToken
    /\ Disturb
    /\ token' = Expired(token)
    /\ call' = [c \in Calls |->
                  IF call[c] = Free \/ call[c].answer # "pending" THEN call[c]
                  ELSE [call[c] EXCEPT !.token = Expired(@)]]
    /\ UNCHANGED <<user, role, rules, worker, edited, info, path>>

WebNext ==
    \/ AccountsNext /\ UNCHANGED pageVars
    \/ \E c \in Calls : Handle(c) \/ HandleFails(c) \/ Receive(c)
    \/ \E u \in Users : handleLogin(u)
    \/ \E to \in {"dashboard", "users"} : Visit(to)
    \/ handleLogout \/ Poll \/ Reload \/ Expire

\* The supervisor restarts a worker and the worker goes on; calls are answered
\* and received; the dashboard's timer fires; a user with an account that works
\* keeps trying to get in.
WebSpec ==
    /\ WebInit /\ [][WebNext]_vars
    /\ \A w \in Workers : WF_vars(WorkerStep(w) /\ UNCHANGED pageVars)
    /\ \A c \in Calls : WF_vars(Handle(c) \/ Receive(c))
    /\ WF_vars(Poll)
    /\ SF_vars(\E u \in Users : login(u) /\ handleLogin(u))

-----------------------------------------------------------------------------
(* Correctness *)

\* A dashboard does not stay open on a token that expired or whose user was
\* disabled or deleted: a poll brings the 401 that ends the session.
RefusedSessionEnds ==
    []<>(path # "dashboard" \/ ~Refused(token) \/ AdminGone)

\* A user whose account works gets in, although late 401s of an earlier session
\* throw the new one out and the backend may be restarting.
EnabledUserGetsIn ==
    []<>(path # "login" \/ (\A u \in Users : ~login(u)) \/ AdminGone)

=============================================================================
