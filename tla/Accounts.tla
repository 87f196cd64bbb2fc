------------------------------ MODULE Accounts ------------------------------
(***************************************************************************)
(* The accounts of the platform: the user and role tables with UserService *)
(* on them, what a bearer token is worth (get_current_user, require_roles, *)
(* AuthService.login), and the seed data every worker of the backend       *)
(* writes while it starts (init_seed_data).                                *)
(*                                                                         *)
(* A user is named by the user name, whose unique key also covers rows     *)
(* that are only marked deleted, as the e-mail's does.  Permissions are    *)
(* seeded like roles and have the same unique key; alert rules have none.  *)
(***************************************************************************)
EXTENDS Naturals, FiniteSets

CONSTANTS
    Users, Admin,           \* SEED_ADMIN_USERNAME
    Roles, SYSTEM_ADMIN,    \* the role codes of DEFAULT_ROLES
    Rules,                  \* the rule names of DEFAULT_ALERT_RULES
    Workers,                \* uvicorn --workers
    MaxAttempts,            \* max_attempts of init_seed_data
    MaxDisturbances,        \* bound: crashes, faults, edits and reloads in all
    NoUser, NoSnapshot

SysUsers == [enabled : BOOLEAN, deleted : BOOLEAN, roles : SUBSET Roles]

ASSUME AccountsAssumption ==
    /\ Admin \in Users /\ SYSTEM_ADMIN \in Roles
    /\ NoUser \notin SysUsers
    /\ MaxAttempts \in Nat \ {0} /\ MaxDisturbances \in Nat

VARIABLES
    user,           \* sys_user with sys_user_role
    role,           \* the codes in sys_role
    rules,          \* rules[r]: how many rows of alert_rule have the name r
    worker,         \* the processes of the backend
    disturbances,
    edited          \* history: a default rule was renamed or deleted

accountVars == <<user, role, rules, worker, disturbances, edited>>

SysUser(rs) == [enabled |-> TRUE, deleted |-> FALSE, roles |-> rs]
Stopped == [phase |-> "down", attempt |-> 1, saw |-> NoSnapshot]

AccountsInit ==
    /\ user = [u \in Users |-> NoUser]
    /\ role = {}
    /\ rules = [r \in Rules |-> 0]
    /\ worker = [w \in Workers |-> Stopped]
    /\ disturbances = 0
    /\ edited = FALSE

Disturb ==
    /\ disturbances < MaxDisturbances
    /\ disturbances' = disturbances + 1

Serving == \E w \in Workers : worker[w].phase = "up"

-----------------------------------------------------------------------------
(* Who a request may act for. *)

\* No query finds a row that is marked deleted.
apply_soft_delete(u) == user[u] # NoUser /\ ~user[u].deleted

get_by_username(u) == apply_soft_delete(u)

get(u) == apply_soft_delete(u)

get_current_user(u) == get(u) /\ user[u].enabled

login(u) == get_by_username(u) /\ user[u].enabled

require_roles(u) == get_current_user(u) /\ SYSTEM_ADMIN \in user[u].roles

-----------------------------------------------------------------------------
(* UserService, called by an administrator. *)

set_roles(u, rs) == [user EXCEPT ![u].roles = rs]

soft_delete(u) == [user EXCEPT ![u].deleted = TRUE]

\* A name that is taken is a 409, or a 500 from the unique key when its row is
\* marked deleted; a role that does not exist is a 404.
create_user(u, rs) ==
    /\ user[u] = NoUser
    /\ rs \subseteq role
    /\ user' = [user EXCEPT ![u] = SysUser(rs)]

update_user(u, status, rs) ==
    /\ get(u)
    /\ rs \subseteq role
    /\ user' = [set_roles(u, rs) EXCEPT ![u].enabled = status]

delete_user(u) ==
    /\ get(u)
    /\ user' = soft_delete(u)

EditUser(by, u) ==
    /\ Serving
    /\ require_roles(by)
    /\ Disturb
    /\ \/ \E rs \in SUBSET Roles : create_user(u, rs)
       \/ \E status \in BOOLEAN, rs \in SUBSET Roles : update_user(u, status, rs)
       \/ delete_user(u)
    /\ UNCHANGED <<role, rules, worker, edited>>

\* AlertService.delete_rule, or update_rule with another name.
EditRule(r) ==
    /\ Serving
    /\ Disturb
    /\ rules[r] > 0
    /\ rules' = [rules EXCEPT ![r] = @ - 1]
    /\ edited' = TRUE
    /\ UNCHANGED <<user, role, worker>>

-----------------------------------------------------------------------------
(* A worker starts: init_seed_data, then it serves. *)

Start(w) ==
    /\ worker[w].phase = "down"
    /\ worker' = [worker EXCEPT ![w].phase = "starting"]
    /\ UNCHANGED <<user, role, rules, disturbances, edited>>

\* The first SELECT of the transaction fixes what all of them see.
SeedBegin(w) ==
    /\ worker[w].phase = "starting"
    /\ worker' = [worker EXCEPT ![w].phase = "seeding",
                                ![w].saw = [role |-> role,
                                            rules |-> {r \in Rules : rules[r] > 0},
                                            admin |-> get_by_username(Admin)]]
    /\ UNCHANGED <<user, role, rules, disturbances, edited>>

\* Mutated form: a key that exists already is passed over.
SeedConflictIgnored(saw) == FALSE

\* Mutated form: the rows are inserted without looking for them first.
SeedConflictBlind(saw) == role # {}

\* A row it did not see has its key already: IntegrityError.
SeedConflict(saw) ==
    \/ role \ saw.role # {}
    \/ ~saw.admin /\ user[Admin] # NoUser

SeedRows(saw) ==
    /\ role' = Roles
    /\ rules' = [r \in Rules |-> IF r \in saw.rules THEN rules[r] ELSE rules[r] + 1]
    /\ user' = IF saw.admin THEN set_roles(Admin, {SYSTEM_ADMIN})
               ELSE [user EXCEPT ![Admin] = SysUser({SYSTEM_ADMIN})]

SeedCommit(w) ==
    /\ worker[w].phase = "seeding"
    /\ ~SeedConflict(worker[w].saw)
    /\ SeedRows(worker[w].saw)
    /\ worker' = [worker EXCEPT ![w] = [Stopped EXCEPT !.phase = "up"]]
    /\ UNCHANGED <<disturbances, edited>>

\* IntegrityError is not caught: the process ends.
SeedFails(w) ==
    /\ worker[w].phase = "seeding"
    /\ SeedConflict(worker[w].saw)
    /\ worker' = [worker EXCEPT ![w] = Stopped]
    /\ UNCHANGED <<user, role, rules, disturbances, edited>>

\* OperationalError: the database is not there, or a deadlock.
SeedRetries(w) ==
    /\ worker[w].phase \in {"starting", "seeding"}
    /\ Disturb
    /\ worker' = [worker EXCEPT ![w] =
                    IF @.attempt < MaxAttempts
                    THEN [phase |-> "starting", attempt |-> @.attempt + 1, saw |-> NoSnapshot]
                    ELSE Stopped]
    /\ UNCHANGED <<user, role, rules, edited>>

Crash(w) ==
    /\ worker[w].phase = "up"
    /\ Disturb
    /\ worker' = [worker EXCEPT ![w] = Stopped]
    /\ UNCHANGED <<user, role, rules, edited>>

WorkerStep(w) == Start(w) \/ SeedBegin(w) \/ SeedCommit(w) \/ SeedFails(w)

AccountsNext ==
    \/ \E by, u \in Users : EditUser(by, u)
    \/ \E r \in Rules : EditRule(r)
    \/ \E w \in Workers : WorkerStep(w) \/ SeedRetries(w) \/ Crash(w)

-----------------------------------------------------------------------------
(* Correctness *)

\* Workers that start together on an empty database create every default rule
\* once, although rule names have no unique key: the loser fails on the roles,
\* which it inserts first.  Only a rule that was renamed or deleted can be
\* created twice, by two workers that both find it missing.
SeededOnce == edited \/ \A r \in Rules : rules[r] <= 1

\* The unique key of a row nobody finds: the backend cannot start any more.
AdminGone == user[Admin] # NoUser /\ user[Admin].deleted

\* A worker that is down comes up, whatever the others do meanwhile and however
\* often it fails on the way, unless the administrator's row is only marked
\* deleted: then every start runs into its unique key.
WorkersComeUp ==
    \A w \in Workers :
        []<>(worker[w].phase = "up" \/ AdminGone)

=============================================================================
