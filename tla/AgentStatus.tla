----------------------------- MODULE AgentStatus -----------------------------
(***************************************************************************)
(* Server rows and what the backend believes of the agent on each: created *)
(* by an operator, claimed by the agent's registration, kept ONLINE by its *)
(* heartbeats and re-derived by the refresh job (services/server_service,  *)
(* services/agent_service, repositories/server_repository, scheduler).     *)
(*                                                                         *)
(* A request is a database session of two steps, as in TaskTransactions:   *)
(* Begin reads the row, Commit writes the columns the ORM saw change, or   *)
(* fails as a whole on a unique key: server_code, (ip_address, ssh_port).  *)
(* Sessions of one server overlap too, when an agent restarts while its    *)
(* last heartbeat is served.  The refresh is one UPDATE that reads the     *)
(* rows it writes, hence one step.                                         *)
(*                                                                         *)
(* The unit of time is the heartbeat interval (30 s).  The refresh has the *)
(* same interval but runs in every worker, unaligned, so it may run at any *)
(* time.  age counts the units since last_heartbeat_at and stops at Old;   *)
(* NULL is Old too, for every comparison with it fails the same way.  All  *)
(* servers use one ssh_port.                                               *)
(***************************************************************************)
EXTENDS Naturals

CONSTANTS
    Servers,
    Addresses,      \* client addresses the backend may see
    Sessions,       \* database sessions that may be open at once
    OnlineWithin,   \* units since the last heartbeat: ONLINE, then WARNING,
    WarningWithin   \* then OFFLINE

ASSUME AgentStatusAssumption ==
    /\ OnlineWithin \in Nat
    /\ WarningWithin \in Nat
    /\ OnlineWithin < WarningWithin

VARIABLES
    server,     \* server[s]: the row of ops_server
    issued,     \* servers for which generate_agent_token has been called
    host,       \* host[s]: the machine, its address and its agent process
    due,        \* servers whose agent has its interval behind it
    session     \* session[w]: closed, or the request it serves

vars == <<server, issued, host, due, session>>

Old == WarningWithin + 1
Statuses == {"ONLINE", "WARNING", "OFFLINE"}
Row == [exists : BOOLEAN, addr : Addresses, agent_status : Statuses, age : 0..Old]
Closed == [op |-> "closed"]
Ops == {"create", "register", "heartbeat"}

TypeOK ==
    /\ server \in [Servers -> Row]
    /\ issued \in SUBSET Servers
    /\ host \in [Servers -> [addr : Addresses, proc : {"down", "registering", "up"}]]
    /\ due \in SUBSET Servers
    /\ session \in [Sessions ->
           {Closed} \cup [op : Ops, s : Servers, read : Row, addr : Addresses]]

Init ==
    /\ host \in [Servers -> [addr : Addresses, proc : {"down"}]]
    /\ server = [s \in Servers |-> [exists |-> FALSE, addr |-> host[s].addr,
                                    agent_status |-> "OFFLINE", age |-> Old]]
    /\ issued = {}
    /\ due = {}
    /\ session = [w \in Sessions |-> Closed]

\* get_by_ip_port, and the unique key behind it
Taken(addr, s) == \E o \in Servers \ {s} : server[o].exists /\ server[o].addr = addr

Begin(w, op, s, addr) ==
    /\ session[w] = Closed
    /\ session' = [session EXCEPT ![w] = [op |-> op, s |-> s, read |-> server[s], addr |-> addr]]
    /\ UNCHANGED <<server, issued, host>>

-----------------------------------------------------------------------------
(* Requests. *)

\* create_server answers 409 when the code or the address is in use.
BeginCreate(w, s, addr) ==
    /\ ~server[s].exists
    /\ ~Taken(addr, s)
    /\ Begin(w, "create", s, addr)
    /\ UNCHANGED due

generate_agent_token(s) ==
    /\ server[s].exists
    /\ s \notin issued
    /\ issued' = issued \cup {s}
    /\ UNCHANGED <<server, host, due, session>>

\* The agent registers once per start and repeats it until it is answered.
BeginRegister(w, s) ==
    /\ host[s].proc = "registering"
    /\ s \in due
    /\ Begin(w, "register", s, host[s].addr)
    /\ due' = due \ {s}

BeginHeartbeat(w, s) ==
    /\ host[s].proc = "up"
    /\ s \in due
    /\ Begin(w, "heartbeat", s, host[s].addr)
    /\ due' = due \ {s}

\* Mutated form: the heartbeat leaves agent_status to the refresh.
HeartbeatOnly(x, now) == [now EXCEPT !.addr = x.addr, !.age = 0]

\* register_server, update_last_heartbeat: every heartbeat has a new time, the
\* address and the status are written if they differ from what was read.
Beat(x, now) ==
    [now EXCEPT !.age = 0,
                !.addr = IF x.addr # x.read.addr THEN x.addr ELSE @,
                !.agent_status = IF x.read.agent_status # "ONLINE" THEN "ONLINE" ELSE @]

Created(x) == [exists |-> TRUE, addr |-> x.addr, agent_status |-> "OFFLINE", age |-> Old]

\* The row an UPDATE or INSERT leaves.
Written(x) == IF x.op = "create" THEN Created(x) ELSE Beat(x, server[x.s])

\* IntegrityError on uk_ops_server_code or uk_ops_server_ip_port
InsertConflict(x) ==
    (x.op = "create" /\ server[x.s].exists) \/ Taken(Written(x).addr, x.s)

Commit(w, answered) ==
    LET x == session[w]
    IN  /\ x # Closed
        /\ ~InsertConflict(x)
        /\ server' = [server EXCEPT ![x.s] = Written(x)]
        /\ host' = IF x.op = "register" /\ answered /\ host[x.s].proc = "registering"
                   THEN [host EXCEPT ![x.s].proc = "up"] ELSE host
        /\ session' = [session EXCEPT ![w] = Closed]
        /\ UNCHANGED <<issued, due>>

\* The whole request is rolled back and answered with 500.
Rollback(w) ==
    /\ session[w] # Closed
    /\ InsertConflict(session[w])
    /\ session' = [session EXCEPT ![w] = Closed]
    /\ UNCHANGED <<server, issued, host, due>>

-----------------------------------------------------------------------------
(* The refresh job. *)

\* Mutated form: the boundary belongs to the worse status.
StatusOfStrict(age) ==
    IF age < OnlineWithin THEN "ONLINE"
    ELSE IF age < WarningWithin THEN "WARNING" ELSE "OFFLINE"

\* Mutated form: an old heartbeat gives the fourth status of the column.
StatusOfUnknown(age) ==
    IF age <= OnlineWithin THEN "ONLINE"
    ELSE IF age <= WarningWithin THEN "WARNING" ELSE "UNKNOWN"

StatusOf(age) ==
    IF age <= OnlineWithin THEN "ONLINE"
    ELSE IF age <= WarningWithin THEN "WARNING" ELSE "OFFLINE"

\* Mutated form: only servers that are no longer ONLINE are looked at.
refresh_not_online ==
    /\ server' = [s \in Servers |->
           IF server[s].exists /\ server[s].agent_status # "ONLINE"
           THEN [server[s] EXCEPT !.agent_status = StatusOf(server[s].age)] ELSE server[s]]
    /\ UNCHANGED <<issued, host, due, session>>

refresh_agent_statuses ==
    /\ server' = [s \in Servers |->
           IF server[s].exists
           THEN [server[s] EXCEPT !.agent_status = StatusOf(server[s].age)] ELSE server[s]]
    /\ UNCHANGED <<issued, host, due, session>>

-----------------------------------------------------------------------------
(* The machines and time. *)

StartAgent(s) ==
    /\ s \in issued
    /\ host[s].proc = "down"
    /\ host' = [host EXCEPT ![s].proc = "registering"]
    /\ due' = due \cup {s}
    /\ UNCHANGED <<server, issued, session>>

StopAgent(s) ==
    /\ host[s].proc # "down"
    /\ host' = [host EXCEPT ![s].proc = "down"]
    /\ due' = due \ {s}
    /\ UNCHANGED <<server, issued, session>>

\* A lease ends, a proxy is put in between: the backend sees another address.
Move(s, addr) ==
    /\ addr # host[s].addr
    /\ host' = [host EXCEPT ![s].addr = addr]
    /\ UNCHANGED <<server, issued, due, session>>

\* A request takes milliseconds: time passes between requests only.  Nothing
\* that is due has to happen before it does.
Tick ==
    /\ \A w \in Sessions : session[w] = Closed
    /\ server' = [s \in Servers |->
           [server[s] EXCEPT !.age = IF @ < Old THEN @ + 1 ELSE @]]
    /\ due' = {s \in Servers : host[s].proc # "down"}
    /\ UNCHANGED <<issued, host, session>>

-----------------------------------------------------------------------------

Next ==
    \/ \E w \in Sessions, s \in Servers, addr \in Addresses : BeginCreate(w, s, addr)
    \/ \E s \in Servers : generate_agent_token(s)
    \/ \E w \in Sessions, s \in Servers : BeginRegister(w, s) \/ BeginHeartbeat(w, s)
    \/ \E w \in Sessions, answered \in BOOLEAN : Commit(w, answered)
    \/ \E w \in Sessions : Rollback(w)
    \/ refresh_agent_statuses
    \/ \E s \in Servers : StartAgent(s) \/ StopAgent(s)
    \/ \E s \in Servers, addr \in Addresses : Move(s, addr)
    \/ Tick

\* Sessions end, the agent's loop and the scheduler come round again, requests
\* get through now and then, time goes on.
Fairness ==
    /\ \A w \in Sessions :
           WF_vars(Commit(w, TRUE) \/ Commit(w, FALSE) \/ Rollback(w))
    /\ \A s \in Servers :
           SF_vars(\E w \in Sessions : BeginRegister(w, s) \/ BeginHeartbeat(w, s))
    /\ WF_vars(refresh_agent_statuses)
    /\ SF_vars(Tick)

Spec == Init /\ [][Next]_vars /\ Fairness

-----------------------------------------------------------------------------
(* Correctness *)

\* A heartbeat that commits while the previous one still counted as recent
\* leaves the server ONLINE, however the refreshes, restarts and other requests
\* overlapped it: neither a refresh between its read and its commit nor a
\* status column it left out may show a beating agent as WARNING.  One that
\* comes later, but before the server counts as OFFLINE, never leaves OFFLINE.
\* After a longer silence the status may be wrong until the next heartbeat.
BeatInTimeShowsOnline ==
    [][\A w \in Sessions :
           LET x == session[w]
           IN  (\E answered \in BOOLEAN : Commit(w, answered)) /\ x.op # "create" =>
                   /\ x.read.age <= OnlineWithin => server'[x.s].agent_status = "ONLINE"
                   /\ x.read.age <= WarningWithin => server'[x.s].agent_status # "OFFLINE"]_vars

\* An agent that stays down is shown OFFLINE in the end and from then on.
DeadAgentGoesOffline ==
    \A s \in Servers :
        <>[](host[s].proc = "down") => <>[](server[s].agent_status = "OFFLINE")

\* An agent that stays up on an address no other row holds is shown ONLINE
\* again and again.  Without that condition it need not be: the unique key
\* refuses its heartbeats for as long as the other row keeps the address.
LiveAgentComesOnline ==
    \A s \in Servers :
        <>[](host[s].proc = "up" /\ ~Taken(host[s].addr, s)) =>
            []<>(server[s].agent_status = "ONLINE")

=============================================================================
