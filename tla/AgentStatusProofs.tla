-------------------------- MODULE AgentStatusProofs --------------------------
(***************************************************************************)
(* Proofs about AgentStatus, for any servers, addresses, number of         *)
(* overlapping sessions and thresholds.                                    *)
(***************************************************************************)
EXTENDS AgentStatus, TLAPS

Request == [op : Ops, s : Servers, read : Row, addr : Addresses]

\* The status of a row has not fallen behind what a session read of it: a row
\* read as recent is still recent, and ONLINE if it was read so.
ReadHolds(x) ==
    LET now == server[x.s]
    IN  /\ now.exists
        /\ x.read.age <= OnlineWithin =>
               /\ now.age <= OnlineWithin
               /\ x.read.agent_status = "ONLINE" => now.agent_status = "ONLINE"
        /\ x.read.age <= WarningWithin =>
               /\ now.age <= WarningWithin
               /\ x.read.agent_status = "ONLINE" => now.agent_status # "OFFLINE"

\* Agents run, and ask, only for servers that exist.
Known ==
    /\ \A s \in issued : server[s].exists
    /\ \A s \in Servers : host[s].proc # "down" => s \in issued

SessionsHold ==
    \A w \in Sessions : session[w] # Closed /\ session[w].op # "create" => ReadHolds(session[w])

\* The inductive invariant.
StatusInv == TypeOK /\ Known /\ SessionsHold

\* The refresh gives every status the age calls for.
LEMMA StatusOfSettles ==
    ASSUME NEW age \in Nat
    PROVE  /\ StatusOf(age) \in Statuses
           /\ age <= OnlineWithin => StatusOf(age) = "ONLINE"
           /\ age <= WarningWithin => StatusOf(age) # "OFFLINE"
  BY AgentStatusAssumption DEF StatusOf, Statuses

\* An open session is a request for a server.
LEMMA OpenSession ==
    ASSUME TypeOK, NEW w \in Sessions, session[w] # Closed
    PROVE  session[w] \in Request /\ session[w].s \in Servers /\ session[w].read.age \in Nat
  <1>1. session[w] \in Request
    BY DEF TypeOK, Request
  <1> QED BY <1>1, AgentStatusAssumption DEF Request, Row, Old

\* A session opens and reads; no row changes.
LEMMA BeginKeeps ==
    ASSUME StatusInv, NEW w \in Sessions, NEW s \in Servers, NEW op \in Ops,
           NEW addr \in Addresses, Begin(w, op, s, addr), due' \subseteq Servers,
           op # "create" => server[s].exists
    PROVE  StatusInv'
  <1> DEFINE x == [op |-> op, s |-> s, read |-> server[s], addr |-> addr]
  <1>1. x \in Request
    BY DEF StatusInv, TypeOK, Request
  <1>2. session' = [session EXCEPT ![w] = x] /\ UNCHANGED <<server, issued, host>>
    BY DEF Begin
  <1>3. x.op # "create" => ReadHolds(x)
    BY DEF ReadHolds
  <1> HIDE DEF x
  <1>4. TypeOK'
    BY <1>1, <1>2 DEF StatusInv, TypeOK, Request
  <1>5. Known'
    BY <1>2 DEF StatusInv, Known
  <1>6. ASSUME NEW v \in Sessions, session'[v] # Closed, session'[v].op # "create"
        PROVE  ReadHolds(session'[v])
    <2>1. CASE v = w
      BY <1>2, <1>3, <1>6, <2>1 DEF StatusInv, TypeOK
    <2>2. CASE v # w
      BY <1>2, <1>6, <2>2 DEF StatusInv, TypeOK, SessionsHold
    <2> QED BY <2>1, <2>2
  <1>7. SessionsHold'
    BY <1>2, <1>6 DEF SessionsHold, ReadHolds
  <1> QED BY <1>4, <1>5, <1>7 DEF StatusInv

\* What a session writes is a row, whatever it had read.  A heartbeat's row is
\* new and its status ONLINE, unless the session read ONLINE: then it is what
\* the row has come to be since.
LEMMA WrittenIsRow ==
    ASSUME TypeOK, NEW w \in Sessions, session[w] # Closed
    PROVE  /\ Written(session[w]) \in Row /\ session[w].s \in Servers
           /\ session[w].op = "create" => Written(session[w]).exists
           /\ session[w].op # "create" =>
                 /\ Written(session[w]).age = 0
                 /\ Written(session[w]).exists = server[session[w].s].exists
                 /\ Written(session[w]).agent_status =
                       IF session[w].read.agent_status # "ONLINE" THEN "ONLINE"
                       ELSE server[session[w].s].agent_status
  <1> DEFINE x == session[w]
             now == server[x.s]
  <1>1. x \in Request
    BY OpenSession
  <1>2. now \in Row /\ x.s \in Servers /\ x.addr \in Addresses
    BY <1>1 DEF TypeOK, Request
  <1>3. Created(x) \in Row /\ Created(x).exists
    BY <1>2, AgentStatusAssumption DEF Created, Row, Statuses, Old
  <1>4. /\ Beat(x, now) \in Row /\ Beat(x, now).age = 0
        /\ Beat(x, now).exists = now.exists
        /\ Beat(x, now).agent_status =
              IF x.read.agent_status # "ONLINE" THEN "ONLINE" ELSE now.agent_status
    <2> DEFINE addr == IF x.addr # x.read.addr THEN x.addr ELSE now.addr
               status == IF x.read.agent_status # "ONLINE" THEN "ONLINE" ELSE now.agent_status
    <2>1. addr \in Addresses /\ status \in Statuses /\ 0 \in 0..Old
      BY <1>2, AgentStatusAssumption DEF Row, Statuses, Old
    <2>2. Beat(x, now) = [now EXCEPT !.age = 0, !.addr = addr, !.agent_status = status]
      BY DEF Beat
    <2>3. status = IF x.read.agent_status # "ONLINE" THEN "ONLINE" ELSE now.agent_status
      OBVIOUS
    <2> HIDE DEF addr, status, x, now
    <2> QED BY <1>2, <2>1, <2>2, <2>3 DEF Row
  <1> QED BY <1>2, <1>3, <1>4 DEF Written

\* A heartbeat of a row read as recent shows the server as it should.
LEMMA BeatShows ==
    ASSUME StatusInv, NEW w \in Sessions, session[w] # Closed, session[w].op # "create"
    PROVE  LET x == session[w]
           IN  /\ x.read.age <= OnlineWithin => Written(x).agent_status = "ONLINE"
               /\ x.read.age <= WarningWithin => Written(x).agent_status # "OFFLINE"
  BY WrittenIsRow DEF StatusInv, SessionsHold, ReadHolds

\* A committed request: of the other sessions on its server, what they read as
\* recent is now as recent as can be.
LEMMA CommitKeeps ==
    ASSUME StatusInv, NEW w \in Sessions, NEW answered \in BOOLEAN, Commit(w, answered)
    PROVE  StatusInv'
  <1> DEFINE x == session[w]
  <1>1. /\ server' = [server EXCEPT ![x.s] = Written(x)]
        /\ host' = host \/ (host' = [host EXCEPT ![x.s].proc = "up"] /\ host[x.s].proc = "registering")
        /\ session' = [session EXCEPT ![w] = Closed]
        /\ UNCHANGED <<issued, due>>
        /\ x # Closed
        /\ x.op = "create" => ~server[x.s].exists
    BY DEF Commit, InsertConflict
  <1>2. /\ Written(x) \in Row /\ x.s \in Servers
        /\ x.op = "create" => Written(x).exists
        /\ x.op # "create" =>
              /\ Written(x).age = 0
              /\ Written(x).exists = server[x.s].exists
              /\ Written(x).agent_status =
                    IF x.read.agent_status # "ONLINE" THEN "ONLINE" ELSE server[x.s].agent_status
    BY <1>1, WrittenIsRow DEF StatusInv
  <1> HIDE DEF x
  <1>3. TypeOK'
    BY <1>1, <1>2 DEF StatusInv, TypeOK
  <1>4. ASSUME NEW s \in Servers
        PROVE  /\ server'[s] = IF s = x.s THEN Written(x) ELSE server[s]
               /\ server[s].exists => server'[s].exists
               /\ host'[s].proc # "down" => host[s].proc # "down"
    <2>1. server'[s] = IF s = x.s THEN Written(x) ELSE server[s]
      BY <1>1 DEF StatusInv, TypeOK
    <2>2. server[s].exists => server'[s].exists
      BY <1>1, <1>2, <2>1
    <2>3. host'[s].proc # "down" => host[s].proc # "down"
      BY <1>1 DEF StatusInv, TypeOK
    <2> QED BY <2>1, <2>2, <2>3
  <1>5. Known'
    BY <1>1, <1>4 DEF StatusInv, Known, TypeOK
  <1>6. ASSUME NEW v \in Sessions, session'[v] # Closed, session'[v].op # "create"
        PROVE  ReadHolds(session[v])' /\ session'[v] = session[v]
    <2>1. session'[v] = session[v]
      BY <1>1, <1>6 DEF StatusInv, TypeOK
    <2>2. ReadHolds(session[v]) /\ session[v].s \in Servers
      BY <1>6, <2>1, OpenSession DEF StatusInv, SessionsHold
    <2>3. CASE session[v].s # x.s
      BY <1>4, <2>1, <2>2, <2>3 DEF ReadHolds
    <2>4. CASE session[v].s = x.s
      <3>1. x.op # "create"
        BY <1>1, <2>2, <2>4 DEF ReadHolds
      <3>2. server'[session[v].s] = Written(x)
        BY <1>4, <2>2, <2>4
      <3> QED BY <1>2, <2>1, <2>2, <2>4, <3>1, <3>2, AgentStatusAssumption DEF ReadHolds
    <2> QED BY <2>1, <2>3, <2>4
  <1>7. SessionsHold'
    BY <1>6 DEF SessionsHold
  <1> QED BY <1>3, <1>5, <1>7 DEF StatusInv

\* The refresh judges a row by its age, and a row read as recent still is.
LEMMA RefreshKeeps ==
    ASSUME StatusInv, refresh_agent_statuses
    PROVE  StatusInv'
  <1>1. ASSUME NEW s \in Servers
        PROVE  /\ server'[s] \in Row /\ server[s].age \in Nat
               /\ server'[s].age = server[s].age
               /\ server'[s].exists = server[s].exists
               /\ server[s].exists => server'[s].agent_status = StatusOf(server[s].age)
    <2>1. server[s] \in Row /\ server[s].age \in Nat
      BY AgentStatusAssumption DEF StatusInv, TypeOK, Row, Old
    <2>2. StatusOf(server[s].age) \in Statuses
      BY <2>1, StatusOfSettles
    <2> QED BY <2>1, <2>2 DEF refresh_agent_statuses, Row
  <1>2. server' = [s \in Servers |-> server'[s]] /\ UNCHANGED <<issued, host, due, session>>
    BY DEF refresh_agent_statuses
  <1>3. TypeOK'
    BY <1>1, <1>2 DEF StatusInv, TypeOK
  <1>4. Known'
    BY <1>1, <1>2 DEF StatusInv, Known, TypeOK
  <1>5. ASSUME NEW w \in Sessions, session[w] # Closed, session[w].op # "create"
        PROVE  ReadHolds(session[w])'
    <2>1. ReadHolds(session[w]) /\ session[w].s \in Servers
      BY <1>5, OpenSession DEF StatusInv, SessionsHold
    <2> DEFINE s == session[w].s
    <2>2. /\ server'[s].age = server[s].age /\ server'[s].exists = server[s].exists
          /\ server'[s].agent_status = StatusOf(server[s].age) /\ server[s].age \in Nat
      BY <1>1, <2>1 DEF ReadHolds
    <2> QED BY <1>2, <2>1, <2>2, StatusOfSettles DEF ReadHolds
  <1>6. SessionsHold'
    BY <1>2, <1>5 DEF SessionsHold
  <1> QED BY <1>3, <1>4, <1>6 DEF StatusInv

\* Time passes between requests.
LEMMA TickKeeps ==
    ASSUME StatusInv, Tick
    PROVE  StatusInv'
  <1> USE AgentStatusAssumption
  <1>1. ASSUME NEW s \in Servers
        PROVE  server'[s] \in Row /\ server'[s].exists = server[s].exists
    <2>1. server[s] \in Row
      BY DEF StatusInv, TypeOK
    <2>2. server'[s] = [server[s] EXCEPT !.age = IF server[s].age < Old THEN server[s].age + 1
                                                                   ELSE server[s].age]
      BY DEF Tick
    <2> QED BY <2>1, <2>2 DEF Row, Old
  <1>2. server' = [s \in Servers |-> server'[s]]
    BY DEF Tick
  <1>3. TypeOK'
    BY <1>1, <1>2 DEF StatusInv, TypeOK, Tick
  <1>4. Known'
    BY <1>1 DEF StatusInv, Known, Tick, TypeOK
  <1>5. SessionsHold'
    BY DEF Tick, SessionsHold
  <1> QED BY <1>3, <1>4, <1>5 DEF StatusInv

\* Tokens, agent processes, addresses and roll-backs leave the rows alone.
LEMMA OthersKeep ==
    ASSUME StatusInv,
           \/ \E s \in Servers : generate_agent_token(s) \/ StartAgent(s) \/ StopAgent(s)
           \/ \E w \in Sessions : Rollback(w)
           \/ \E s \in Servers, addr \in Addresses : Move(s, addr)
    PROVE  StatusInv'
  <1>1. server' = server
    BY DEF generate_agent_token, StartAgent, StopAgent, Rollback, Move
  <1>2. issued' \subseteq Servers /\ due' \subseteq Servers
    BY DEF generate_agent_token, StartAgent, StopAgent, Rollback, Move, StatusInv, TypeOK
  <1>3. host' \in [Servers -> [addr : Addresses, proc : {"down", "registering", "up"}]]
    BY DEF generate_agent_token, StartAgent, StopAgent, Rollback, Move, StatusInv, TypeOK
  <1>4. session' \in [Sessions ->
           {Closed} \cup [op : Ops, s : Servers, read : Row, addr : Addresses]]
    BY DEF generate_agent_token, StartAgent, StopAgent, Rollback, Move, StatusInv, TypeOK
  <1>5. TypeOK'
    BY <1>1, <1>2, <1>3, <1>4 DEF StatusInv, TypeOK
  <1>6. Known'
    <2>1. \A s \in issued' : s \in issued \/ server[s].exists
      BY DEF generate_agent_token, StartAgent, StopAgent, Rollback, Move
    <2>2. \A s \in Servers : host'[s].proc # "down" => s \in issued'
      BY DEF generate_agent_token, StartAgent, StopAgent, Rollback, Move, StatusInv, TypeOK, Known
    <2> QED BY <1>1, <2>1, <2>2 DEF StatusInv, Known
  <1>7. \A v \in Sessions : session'[v] = session[v] \/ session'[v] = Closed
    BY DEF generate_agent_token, StartAgent, StopAgent, Rollback, Move, StatusInv, TypeOK
  <1>8. SessionsHold'
    BY <1>1, <1>7 DEF StatusInv, SessionsHold, ReadHolds
  <1> QED BY <1>5, <1>6, <1>8 DEF StatusInv

\* The inductive invariant of the server rows and the open sessions: no refresh
\* and no other session takes from a row what a session read as recent in it.
THEOREM StatusInvariance == Spec => []StatusInv
  <1>1. Init => StatusInv
    <2> SUFFICES ASSUME Init PROVE StatusInv
      OBVIOUS
    <2>1. /\ host \in [Servers -> [addr : Addresses, proc : {"down", "registering", "up"}]]
          /\ \A s \in Servers : host[s].proc = "down"
      BY DEF Init
    <2>2. ASSUME NEW s \in Servers PROVE server[s] \in Row
      BY <2>1, AgentStatusAssumption DEF Init, Row, Statuses, Old
    <2>3. server \in [Servers -> Row]
      BY <2>2 DEF Init
    <2> QED BY <2>1, <2>3 DEF Init, StatusInv, TypeOK, Known, SessionsHold
  <1>2. StatusInv /\ [Next]_vars => StatusInv'
    <2> SUFFICES ASSUME StatusInv, [Next]_vars PROVE StatusInv'
      OBVIOUS
    <2>1. ASSUME NEW w \in Sessions, NEW s \in Servers, NEW addr \in Addresses,
                 BeginCreate(w, s, addr)
          PROVE  StatusInv'
      BY <2>1, BeginKeeps DEF BeginCreate, Ops, StatusInv, TypeOK
    <2>2. ASSUME NEW w \in Sessions, NEW s \in Servers,
                 BeginRegister(w, s) \/ BeginHeartbeat(w, s)
          PROVE  StatusInv'
      <3>1. host[s].addr \in Addresses /\ due' \subseteq Servers
        BY <2>2 DEF StatusInv, TypeOK, BeginRegister, BeginHeartbeat
      <3>2. server[s].exists
        BY <2>2 DEF StatusInv, Known, BeginRegister, BeginHeartbeat
      <3> QED BY <2>2, <3>1, <3>2, BeginKeeps DEF BeginRegister, BeginHeartbeat, Ops
    <2>3. CASE UNCHANGED vars
      BY <2>3 DEF vars, StatusInv, TypeOK, Known, SessionsHold, ReadHolds
    <2> QED BY <2>1, <2>2, <2>3, CommitKeeps, RefreshKeeps, TickKeeps, OthersKeep DEF Next
  <1> QED BY <1>1, <1>2, PTL DEF Spec

\* No session of register_server or update_last_heartbeat and no refresh
\* leaves a row, or reads one, outside the columns' domains.
THEOREM StatusTypeCorrect == Spec => []TypeOK
  <1>1. StatusInv => TypeOK
    BY DEF StatusInv
  <1> QED BY StatusInvariance, <1>1, PTL

\* A heartbeat that update_last_heartbeat commits in time leaves the server
\* ONLINE, however many refreshes, restarts and other sessions overlap it.
THEOREM BeatCorrect == Spec => BeatInTimeShowsOnline
  <1>1. ASSUME StatusInv, NEW w \in Sessions, NEW answered \in BOOLEAN,
               Commit(w, answered), session[w].op # "create"
        PROVE  LET x == session[w]
               IN  /\ x.read.age <= OnlineWithin => server'[x.s].agent_status = "ONLINE"
                   /\ x.read.age <= WarningWithin => server'[x.s].agent_status # "OFFLINE"
    <2>1. session[w] # Closed /\ session[w].s \in Servers
      BY <1>1, OpenSession DEF Commit, StatusInv
    <2>2. server'[session[w].s] = Written(session[w])
      BY <1>1, <2>1 DEF Commit, StatusInv, TypeOK
    <2> QED BY <1>1, <2>1, <2>2, BeatShows
  <1>2. StatusInv /\ [Next]_vars =>
          [\A w \in Sessions :
               LET x == session[w]
               IN  (\E answered \in BOOLEAN : Commit(w, answered)) /\ x.op # "create" =>
                       /\ x.read.age <= OnlineWithin => server'[x.s].agent_status = "ONLINE"
                       /\ x.read.age <= WarningWithin => server'[x.s].agent_status # "OFFLINE"]_vars
    BY <1>1
  <1> QED BY StatusInvariance, <1>2, PTL DEF Spec, BeatInTimeShowsOnline
=============================================================================
