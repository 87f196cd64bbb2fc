------------------------------ MODULE AssetSync ------------------------------
(***************************************************************************)
(* The assets of one server: disks and network interfaces, which the agent *)
(* reports as a whole, and services, whose status the agent reports and    *)
(* whose whitelist flag an operator sets (agent loops, AgentService,       *)
(* ServerService, DiskRepository, NetworkRepository, ServiceRepository).   *)
(*                                                                         *)
(* Reports travel independently: the agent gives up on one, sends the next *)
(* and the old one may still arrive, or be served at the same time.  A     *)
(* request is a session of two steps, as in TaskTransactions.  What a row  *)
(* says besides its key (sizes, addresses) is left out; touched stands for *)
(* the rows in which it changed, which the session updates.                *)
(***************************************************************************)
EXTENDS Naturals, FiniteSets

CONSTANTS
    Items,      \* keys of disks and interfaces
    Services,   \* services the agent is configured to watch
    Sessions,   \* database sessions that may be open at once
    MaxWire     \* reports of a kind on their way at once (bound)

ASSUME AssetSyncAssumption == MaxWire \in Nat \ {0}

VARIABLES
    actual,     \* what the machine has: items, and services that run
    wire,       \* reports on their way
    items,      \* keys with a row in ops_server_disk, ops_server_network
    service,    \* ops_server_service: rows, whitelisted ones, RUNNING ones
    session     \* session[w]: closed, or what it read and will write

vars == <<actual, wire, items, service, session>>

Closed == [op |-> "closed"]

Init ==
    /\ actual \in [items : SUBSET Items, running : SUBSET Services]
    /\ wire = {}
    /\ items = {}
    /\ service = [rows |-> {}, whitelisted |-> {}, running |-> {}]
    /\ session = [w \in Sessions |-> Closed]

-----------------------------------------------------------------------------
(* The machine and its agent. *)

\* A disk or an interface comes or goes, a service starts or stops.
Change ==
    /\ actual' \in [items : SUBSET Items, running : SUBSET Services]
    /\ actual' # actual
    /\ UNCHANGED <<wire, items, service, session>>

Report(op) ==
    IF op = "assets" THEN [op |-> op, content |-> actual.items]
    ELSE [op |-> op, content |-> actual.running]

\* _assets_loop: send_assets, send_services, over and over.  A call that fails
\* delays the next round, it does not end the loop.  A report that is lost
\* changes nothing: it is one that was not sent.
Send(op) ==
    /\ Report(op) \notin wire
    /\ Cardinality({m \in wire : m.op = op}) < MaxWire
    /\ wire' = wire \cup {Report(op)}
    /\ UNCHANGED <<actual, items, service, session>>

-----------------------------------------------------------------------------
(* Sessions. *)

Open(w, x) ==
    /\ session[w] = Closed
    /\ session' = [session EXCEPT ![w] = x]
    /\ UNCHANGED <<actual, items, service>>

\* Mutated form: rows missing from the report stay.
sync_assets_keep(report, touched) ==
    [op |-> "assets", insert |-> report \ items, delete |-> {}, touched |-> touched]

\* upsert of every reported key, delete_missing of the others
sync_assets(report, touched) ==
    [op |-> "assets", insert |-> report \ items, delete |-> items \ report,
     touched |-> touched]

BeginAssets(w, m) ==
    /\ m \in wire
    /\ m.op = "assets"
    /\ wire' = wire \ {m}
    /\ \E touched \in SUBSET (items \cap m.content) :
           Open(w, sync_assets(m.content, touched))

\* upsert_status: a new row is whitelisted, a known one gets its status.
BeginServices(w, m) ==
    /\ m \in wire
    /\ m.op = "services"
    /\ wire' = wire \ {m}
    /\ Open(w, [op |-> "services", read |-> service, running |-> m.content])

\* update_service_whitelist answers 404 for a service without a row.
BeginWhitelist(w, v, flag) ==
    /\ v \in service.rows
    /\ Open(w, [op |-> "whitelist", read |-> service, v |-> v, flag |-> flag])
    /\ UNCHANGED wire

\* The members of now, those of changed taken from written.
Overwrite(now, changed, written) == (now \ changed) \cup (changed \cap written)
Differ(A, B) == (A \ B) \cup (B \ A)

\* Mutated form: the sync writes every column of the rows it read.
SyncServicesWholeRow(x) ==
    [rows |-> Services,
     whitelisted |-> Overwrite(service.whitelisted, Services,
                               x.read.whitelisted \cup (Services \ x.read.rows)),
     running |-> x.running]

SyncServices(x) ==
    LET new == Services \ x.read.rows
    IN  [rows |-> service.rows \cup new,
         whitelisted |-> service.whitelisted \cup new,
         running |-> Overwrite(service.running,
                               Differ(x.read.running, x.running) \cup new, x.running)]

SetWhitelist(x) ==
    IF (x.v \in x.read.whitelisted) # x.flag
    THEN [service EXCEPT !.whitelisted = IF x.flag THEN @ \cup {x.v} ELSE @ \ {x.v}]
    ELSE service

\* An INSERT meets the unique key, or an UPDATE finds its row deleted.
Fails(x) ==
    \/ x.op = "assets" /\ (x.insert \cap items # {} \/ ~(x.touched \subseteq items))
    \/ x.op = "services" /\ (Services \ x.read.rows) \cap service.rows # {}

Commit(w) ==
    LET x == session[w]
    IN  /\ x # Closed
        /\ ~Fails(x)
        /\ items' = IF x.op = "assets" THEN (items \cup x.insert) \ x.delete ELSE items
        /\ service' = CASE x.op = "assets" -> service
                        [] x.op = "services" -> SyncServices(x)
                        [] x.op = "whitelist" -> SetWhitelist(x)
        /\ session' = [session EXCEPT ![w] = Closed]
        /\ UNCHANGED <<actual, wire>>

Rollback(w) ==
    /\ session[w] # Closed
    /\ Fails(session[w])
    /\ session' = [session EXCEPT ![w] = Closed]
    /\ UNCHANGED <<actual, wire, items, service>>

-----------------------------------------------------------------------------

Next ==
    \/ Change
    \/ Send("assets") \/ Send("services")
    \/ \E w \in Sessions, m \in wire : BeginAssets(w, m) \/ BeginServices(w, m)
    \/ \E w \in Sessions, v \in Services, flag \in BOOLEAN : BeginWhitelist(w, v, flag)
    \/ \E w \in Sessions : Commit(w) \/ Rollback(w)

\* The agent's loop goes round, reports of either kind are served again and
\* again, and a session ends.
Fairness ==
    /\ WF_vars(Send("assets")) /\ WF_vars(Send("services"))
    /\ SF_vars(\E w \in Sessions, m \in wire : BeginAssets(w, m))
    /\ SF_vars(\E w \in Sessions, m \in wire : BeginServices(w, m))
    /\ \A w \in Sessions : WF_vars(Commit(w) \/ Rollback(w))

Spec == Init /\ [][Next]_vars /\ Fairness

-----------------------------------------------------------------------------
(* Correctness *)

\* A sync never undoes what an operator decided: the flag of a service that
\* has a row changes only when update_service_whitelist commits, however many
\* syncs read the row before and write it after.
WhitelistIsTheOperators ==
    [][\A v \in service.rows :
           (v \in service'.whitelisted) # (v \in service.whitelisted) =>
               \E w \in Sessions :
                   /\ session[w] # Closed /\ session'[w] = Closed
                   /\ session[w].op = "whitelist" /\ session[w].v = v]_vars

Described ==
    /\ items = actual.items
    /\ service.rows = Services /\ service.running = actual.running

\* Late, lost, overlapping and failed syncs notwithstanding, a machine that no
\* longer changes is described correctly in the end and from then on.
AssetsConverge == <>[][actual' = actual]_vars => <>[]Described

=============================================================================
