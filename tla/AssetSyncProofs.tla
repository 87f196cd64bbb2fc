--------------------------- MODULE AssetSyncProofs ---------------------------
(***************************************************************************)
(* Proofs about AssetSync, for any items, services and number of           *)
(* overlapping sessions.                                                   *)
(***************************************************************************)
EXTENDS AssetSync, TLAPS

ServiceTable ==
    [rows : SUBSET Services, whitelisted : SUBSET Services, running : SUBSET Services]

AssetsSession ==
    [op : {"assets"}, insert : SUBSET Items, delete : SUBSET Items, touched : SUBSET Items]
ServicesSession ==
    [op : {"services"}, read : ServiceTable, running : SUBSET Services]
WhitelistSession ==
    [op : {"whitelist"}, read : ServiceTable, v : Services, flag : BOOLEAN]
OpenSession == AssetsSession \cup ServicesSession \cup WhitelistSession

AssetsReport == [op : {"assets"}, content : SUBSET Items]
ServicesReport == [op : {"services"}, content : SUBSET Services]

SyncTypeOK ==
    /\ actual \in [items : SUBSET Items, running : SUBSET Services]
    /\ wire \subseteq AssetsReport \cup ServicesReport
    /\ items \subseteq Items
    /\ service \in ServiceTable
    /\ session \in [Sessions -> {Closed} \cup OpenSession]

\* Rows of ops_server_service are never deleted, so what a session has read is
\* still there when it commits.
ReadsAreOld ==
    \A w \in Sessions :
        /\ session[w] \in ServicesSession => session[w].read.rows \subseteq service.rows
        /\ session[w] \in WhitelistSession => session[w].v \in service.rows

\* A flag or a status belongs to a row.
FlagsHaveRows ==
    service.whitelisted \subseteq service.rows /\ service.running \subseteq service.rows

\* The inductive invariant.
SyncInv == SyncTypeOK /\ ReadsAreOld /\ FlagsHaveRows

\* The flag of a row that exists changes by no step other than the commit of
\* an operator's session about it.
FlagStep ==
    \A v \in service.rows :
        (v \in service'.whitelisted) # (v \in service.whitelisted) =>
            \E w \in Sessions :
                /\ session[w] # Closed /\ session'[w] = Closed
                /\ session[w].op = "whitelist" /\ session[w].v = v

\* The kinds of sessions exclude each other.
LEMMA SessionKinds ==
    ASSUME NEW x \in OpenSession
    PROVE  /\ x # Closed
           /\ x.op = "assets" <=> x \in AssetsSession
           /\ x.op = "services" <=> x \in ServicesSession
           /\ x.op = "whitelist" <=> x \in WhitelistSession
           /\ x.op \in {"assets", "services", "whitelist"}
  <1>1. Closed.op = "closed"
    BY DEF Closed
  <1> QED BY <1>1 DEF OpenSession, AssetsSession, ServicesSession, WhitelistSession

\* A sync of services leaves a row for every service, and gives a flag only to
\* the rows it inserts.
LEMMA SyncServicesResult ==
    ASSUME SyncInv, NEW x \in ServicesSession, x.read.rows \subseteq service.rows
    PROVE  /\ SyncServices(x) \in ServiceTable
           /\ SyncServices(x).rows = Services
           /\ SyncServices(x).whitelisted = service.whitelisted \cup (Services \ x.read.rows)
  <1>1. service \in ServiceTable /\ x.running \subseteq Services /\ x.read \in ServiceTable
    BY DEF SyncInv, SyncTypeOK, ServicesSession
  <1>2. Overwrite(service.running, Differ(x.read.running, x.running)
                                     \cup (Services \ x.read.rows), x.running)
            \subseteq Services
    BY <1>1 DEF Overwrite, ServiceTable
  <1>3. service.rows \cup (Services \ x.read.rows) = Services
    BY <1>1 DEF ServiceTable
  <1>4. service.whitelisted \cup (Services \ x.read.rows) \subseteq Services
    BY <1>1 DEF ServiceTable
  <1> QED BY <1>2, <1>3, <1>4 DEF SyncServices, ServiceTable

\* update_service_whitelist changes no flag but its own.
LEMMA SetWhitelistResult ==
    ASSUME SyncInv, NEW x \in WhitelistSession, x.v \in service.rows
    PROVE  /\ SetWhitelist(x) \in ServiceTable
           /\ SetWhitelist(x).rows = service.rows
           /\ SetWhitelist(x).running = service.running
           /\ SetWhitelist(x).whitelisted \subseteq service.rows
           /\ \A v \in Services : v # x.v =>
                  (v \in SetWhitelist(x).whitelisted <=> v \in service.whitelisted)
  <1>1. /\ service \in ServiceTable /\ service.whitelisted \subseteq service.rows
        /\ service.rows \subseteq Services
    BY DEF SyncInv, SyncTypeOK, FlagsHaveRows, ServiceTable
  <1>2. PICK W : \/ SetWhitelist(x) = [service EXCEPT !.whitelisted = W]
                       /\ W \in {service.whitelisted \cup {x.v}, service.whitelisted \ {x.v}}
                 \/ SetWhitelist(x) = service /\ W = service.whitelisted
    BY DEF SetWhitelist
  <1>3. /\ W \subseteq service.rows
        /\ \A v \in Services : v # x.v => (v \in W <=> v \in service.whitelisted)
    BY <1>1, <1>2
  <1>4. /\ SetWhitelist(x) \in ServiceTable
        /\ SetWhitelist(x).rows = service.rows
        /\ SetWhitelist(x).running = service.running
        /\ SetWhitelist(x).whitelisted = W
    BY <1>1, <1>2, <1>3 DEF ServiceTable
  <1> QED BY <1>3, <1>4

\* A session opens with what it read, which is what the tables hold.
LEMMA OpenKeeps ==
    ASSUME SyncInv, NEW w \in Sessions, NEW x \in OpenSession, Open(w, x),
           wire' \subseteq wire,
           x \in ServicesSession => x.read.rows \subseteq service.rows,
           x \in WhitelistSession => x.v \in service.rows
    PROVE  SyncInv' /\ FlagStep
  <1>1. /\ session' = [session EXCEPT ![w] = x]
        /\ UNCHANGED <<actual, items, service>>
    BY DEF Open
  <1>2. SyncTypeOK'
    BY <1>1 DEF SyncInv, SyncTypeOK
  <1>3. ReadsAreOld'
    BY <1>1 DEF SyncInv, SyncTypeOK, ReadsAreOld
  <1> QED BY <1>1, <1>2, <1>3 DEF SyncInv, FlagsHaveRows, FlagStep

\* A commit changes the flag of an existing row only for the operator.
LEMMA CommitKeeps ==
    ASSUME SyncInv, NEW w \in Sessions, Commit(w)
    PROVE  SyncInv' /\ FlagStep
  <1> DEFINE x == session[w]
  <1>1. /\ x # Closed /\ ~Fails(x)
        /\ items' = IF x.op = "assets" THEN (items \cup x.insert) \ x.delete ELSE items
        /\ service' = CASE x.op = "assets" -> service
                        [] x.op = "services" -> SyncServices(x)
                        [] x.op = "whitelist" -> SetWhitelist(x)
        /\ session' = [session EXCEPT ![w] = Closed]
        /\ UNCHANGED <<actual, wire>>
    BY DEF Commit
  <1>2. x \in OpenSession
    BY <1>1 DEF SyncInv, SyncTypeOK
  <1>3. /\ x \in ServicesSession => x.read.rows \subseteq service.rows
        /\ x \in WhitelistSession => x.v \in service.rows
    BY DEF SyncInv, ReadsAreOld
  <1>4. /\ \A u \in Sessions : session'[u] = Closed \/ session'[u] = session[u]
        /\ session'[w] = Closed
        /\ session' \in [Sessions -> {Closed} \cup OpenSession]
    BY <1>1 DEF SyncInv, SyncTypeOK
  <1>5. items' \subseteq Items
    <2>1. CASE x.op = "assets"
      <3>1. x.insert \subseteq Items
        BY <1>2, <2>1, SessionKinds DEF AssetsSession
      <3> QED BY <1>1, <2>1, <3>1 DEF SyncInv, SyncTypeOK
    <2>2. CASE x.op # "assets"
      BY <1>1, <2>2 DEF SyncInv, SyncTypeOK
    <2> QED BY <2>1, <2>2
  <1>6. /\ service' \in ServiceTable
        /\ service.rows \subseteq service'.rows
        /\ service'.whitelisted \subseteq service'.rows
        /\ service'.running \subseteq service'.rows
        /\ FlagStep
    <2>0. /\ service \in ServiceTable /\ service.rows \subseteq Services
          /\ service.whitelisted \subseteq service.rows /\ service.running \subseteq service.rows
      BY DEF SyncInv, SyncTypeOK, FlagsHaveRows, ServiceTable
    <2>1. CASE x.op = "assets"
      <3>1. service' = service
        BY <1>1, <2>1
      <3> QED BY <2>0, <3>1 DEF FlagStep
    <2>2. CASE x.op = "services"
      <3>1. x \in ServicesSession
        BY <1>2, <2>2, SessionKinds
      <3>2. service' = SyncServices(x)
        BY <1>1, <2>2
      <3>3. /\ service' \in ServiceTable /\ service'.rows = Services
            /\ service'.whitelisted = service.whitelisted \cup (Services \ x.read.rows)
        BY <1>3, <3>1, <3>2, SyncServicesResult
      <3>4. \A v \in service.rows : v \notin Services \ x.read.rows
        BY <1>1, <2>2 DEF Fails
      <3>5. service'.running \subseteq Services
        BY <3>3 DEF ServiceTable
      <3>6. FlagStep
        BY <3>3, <3>4 DEF FlagStep
      <3> QED BY <2>0, <3>3, <3>5, <3>6
    <2>3. CASE x.op = "whitelist"
      <3>1. x \in WhitelistSession
        BY <1>2, <2>3, SessionKinds
      <3>2. service' = SetWhitelist(x)
        BY <1>1, <2>3
      <3>3. /\ service' \in ServiceTable /\ service'.rows = service.rows
            /\ service'.running = service.running
            /\ service'.whitelisted \subseteq service.rows
            /\ \A v \in Services : v # x.v =>
                   (v \in service'.whitelisted <=> v \in service.whitelisted)
        BY <1>3, <3>1, <3>2, SetWhitelistResult
      <3>4. FlagStep
        BY <1>1, <1>4, <2>0, <2>3, <3>3 DEF FlagStep
      <3> QED BY <2>0, <3>3, <3>4
    <2> QED BY <1>2, <2>1, <2>2, <2>3, SessionKinds
  <1>7. ReadsAreOld'
    <2>1. Closed \notin ServicesSession /\ Closed \notin WhitelistSession
      BY SessionKinds DEF OpenSession
    <2> QED BY <1>4, <1>6, <2>1 DEF SyncInv, ReadsAreOld
  <1> QED BY <1>1, <1>4, <1>5, <1>6, <1>7 DEF SyncInv, SyncTypeOK, FlagsHaveRows

\* The machine, the agent and a roll-back touch no row.
LEMMA OthersKeep ==
    ASSUME SyncInv, Change \/ Send("assets") \/ Send("services")
                      \/ \E w \in Sessions : Rollback(w)
    PROVE  SyncInv' /\ FlagStep
  <1>1. /\ UNCHANGED <<items, service>>
        /\ actual' \in [items : SUBSET Items, running : SUBSET Services]
        /\ session' \in [Sessions -> {Closed} \cup OpenSession]
        /\ \A u \in Sessions : session'[u] = Closed \/ session'[u] = session[u]
    BY DEF Change, Send, Rollback, SyncInv, SyncTypeOK
  <1>2. wire' \subseteq AssetsReport \cup ServicesReport
    <2>1. /\ Report("assets") \in AssetsReport
          /\ Report("services") \in ServicesReport
      BY DEF Report, AssetsReport, ServicesReport, SyncInv, SyncTypeOK
    <2> QED BY <2>1 DEF Change, Send, Rollback, SyncInv, SyncTypeOK
  <1>3. Closed \notin ServicesSession /\ Closed \notin WhitelistSession
    BY SessionKinds DEF OpenSession
  <1>4. ReadsAreOld'
    BY <1>1, <1>3 DEF SyncInv, ReadsAreOld
  <1> QED BY <1>1, <1>2, <1>4 DEF SyncInv, SyncTypeOK, FlagsHaveRows, FlagStep

\* Every step keeps the invariant and the operators' decisions.
LEMMA StepKeeps ==
    ASSUME SyncInv, [Next]_vars
    PROVE  SyncInv' /\ FlagStep
  <1>1. ASSUME NEW w \in Sessions, NEW m \in wire, BeginAssets(w, m)
        PROVE  SyncInv' /\ FlagStep
    <2>1. PICK touched \in SUBSET (items \cap m.content) :
              Open(w, sync_assets(m.content, touched)) /\ wire' \subseteq wire
      BY <1>1 DEF BeginAssets
    <2>2. m.content \subseteq Items /\ items \subseteq Items
      BY <1>1 DEF BeginAssets, SyncInv, SyncTypeOK, AssetsReport, ServicesReport
    <2>3. sync_assets(m.content, touched) \in AssetsSession
      BY <2>2 DEF sync_assets, AssetsSession
    <2>4. /\ sync_assets(m.content, touched) \in OpenSession
          /\ sync_assets(m.content, touched) \notin ServicesSession
          /\ sync_assets(m.content, touched) \notin WhitelistSession
      BY <2>3, SessionKinds DEF OpenSession, AssetsSession
    <2> QED BY <2>1, <2>4, OpenKeeps
  <1>2. ASSUME NEW w \in Sessions, NEW m \in wire, BeginServices(w, m)
        PROVE  SyncInv' /\ FlagStep
    <2> DEFINE x == [op |-> "services", read |-> service, running |-> m.content]
    <2>1. m.content \subseteq Services /\ service \in ServiceTable
      BY <1>2 DEF BeginServices, SyncInv, SyncTypeOK, AssetsReport, ServicesReport
    <2>2. x \in ServicesSession /\ x.read.rows \subseteq service.rows
      BY <2>1 DEF ServicesSession
    <2>3. Open(w, x) /\ wire' \subseteq wire
      BY <1>2 DEF BeginServices
    <2> HIDE DEF x
    <2>4. x \in OpenSession /\ x \notin WhitelistSession
      BY <2>2, SessionKinds DEF OpenSession, ServicesSession
    <2> QED BY <2>2, <2>3, <2>4, OpenKeeps
  <1>3. ASSUME NEW w \in Sessions, NEW v \in Services, NEW flag \in BOOLEAN,
               BeginWhitelist(w, v, flag)
        PROVE  SyncInv' /\ FlagStep
    <2> DEFINE x == [op |-> "whitelist", read |-> service, v |-> v, flag |-> flag]
    <2>1. service \in ServiceTable
      BY DEF SyncInv, SyncTypeOK
    <2>2. x \in WhitelistSession /\ x.v \in service.rows
      BY <1>3, <2>1 DEF WhitelistSession, BeginWhitelist
    <2>3. Open(w, x) /\ wire' \subseteq wire
      BY <1>3 DEF BeginWhitelist
    <2> HIDE DEF x
    <2>4. x \in OpenSession /\ x \notin ServicesSession
      BY <2>2, SessionKinds DEF OpenSession, WhitelistSession
    <2> QED BY <2>2, <2>3, <2>4, OpenKeeps
  <1>4. CASE UNCHANGED vars
    BY <1>4 DEF vars, SyncInv, SyncTypeOK, ReadsAreOld, FlagsHaveRows, FlagStep
  <1> QED BY <1>1, <1>2, <1>3, <1>4, CommitKeeps, OthersKeep DEF Next

\* The inductive invariant of the syncs.
THEOREM SyncInvariance == Spec => []SyncInv
  <1>1. Init => SyncInv
    <2> SUFFICES ASSUME Init PROVE SyncInv
      OBVIOUS
    <2>1. Closed \notin ServicesSession /\ Closed \notin WhitelistSession
      BY SessionKinds DEF OpenSession
    <2>2. service \in ServiceTable
      BY DEF Init, ServiceTable
    <2>3. SyncTypeOK
      BY <2>2 DEF Init, SyncTypeOK
    <2> QED BY <2>1, <2>3 DEF Init, SyncInv, ReadsAreOld, FlagsHaveRows
  <1>2. SyncInv /\ [Next]_vars => SyncInv'
    BY StepKeeps
  <1> QED BY <1>1, <1>2, PTL DEF Spec

\* No flag and no status is written to ops_server_service for a service
\* without a row, however sessions overlap.
THEOREM FlagsCorrect == Spec => []FlagsHaveRows
  <1>1. SyncInv => FlagsHaveRows
    BY DEF SyncInv
  <1> QED BY SyncInvariance, <1>1, PTL

\* A sync never undoes what an operator decided about a whitelist flag.
THEOREM WhitelistCorrect == Spec => WhitelistIsTheOperators
  <1>1. SyncInv /\ [Next]_vars => FlagStep
    BY StepKeeps
  <1>2. FlagStep =>
            [\A v \in service.rows :
                 (v \in service'.whitelisted) # (v \in service.whitelisted) =>
                     \E w \in Sessions :
                         /\ session[w] # Closed /\ session'[w] = Closed
                         /\ session[w].op = "whitelist" /\ session[w].v = v]_vars
    BY DEF FlagStep
  <1> QED BY SyncInvariance, <1>1, <1>2, PTL DEF Spec, WhitelistIsTheOperators
=============================================================================
