-------------------------- MODULE WebSessionProofs --------------------------
(***************************************************************************)
(* Proofs about the accounts of WebSession, for any users, roles, default  *)
(* rules, number of workers and of disturbances: the seed data that        *)
(* workers write while they start together.                                *)
(***************************************************************************)
EXTENDS WebSession, TLAPS

Snapshot == [role : SUBSET Roles, rules : SUBSET Rules, admin : BOOLEAN]

WorkerRecord ==
    [phase : {"down", "starting", "seeding", "up"}, attempt : Nat,
     saw : Snapshot \cup {NoSnapshot}]

AccountsTypeOK ==
    /\ user \in [Users -> SysUsers \cup {NoUser}]
    /\ role \in SUBSET Roles
    /\ rules \in [Rules -> Nat]
    /\ worker \in [Workers -> WorkerRecord]
    /\ edited \in BOOLEAN

\* The tables are empty, or hold all that init_seed_data writes: every role,
\* the administrator and, unless someone edited them, each default rule once.
Unseeded == role = {} /\ \A r \in Rules : rules[r] = 0
Seeded ==
    /\ role = Roles
    /\ user[Admin] # NoUser
    /\ ~edited => \A r \in Rules : rules[r] = 1

\* What a worker saw when its transaction began: the empty tables, or the
\* seeded ones, which have not gone since.
SawUnseeded(saw) == saw.role = {} /\ saw.rules = {}
SawSeeded(saw) == saw.role = Roles /\ (~edited => saw.rules = Rules) /\ Seeded

SeedingOK(w) ==
    worker[w].phase = "seeding" =>
        /\ worker[w].saw \in Snapshot
        /\ worker[w].saw.admin => user[Admin] # NoUser
        /\ SawUnseeded(worker[w].saw) \/ SawSeeded(worker[w].saw)

\* The inductive invariant.
AccountsInv ==
    /\ AccountsTypeOK
    /\ Unseeded \/ Seeded
    /\ Serving => Seeded
    /\ \A w \in Workers : SeedingOK(w)

\* A worker starts to serve only on tables that hold the seed data, and they
\* stay: no administrator, role or default rule is ever missing from them but
\* by an edit.
ServesSeeded == Serving => Seeded

\* The tables stay as seeded as they are when users and rules are edited.
LEMMA EditKeeps ==
    ASSUME AccountsInv, (\E by, u \in Users : EditUser(by, u)) \/ (\E r \in Rules : EditRule(r))
    PROVE  AccountsInv'
  <1> USE AccountsAssumption
  <1>0. Serving /\ Seeded /\ AccountsTypeOK
    BY DEF EditUser, EditRule, AccountsInv
  <1>1. ASSUME NEW by \in Users, NEW u \in Users, EditUser(by, u)
        PROVE  AccountsInv'
    <2>1. UNCHANGED <<role, rules, worker, edited>>
      BY <1>1 DEF EditUser
    <2>2. PICK x \in SysUsers : user' = [user EXCEPT ![u] = x]
      <3>1. CASE \E rs \in SUBSET Roles : create_user(u, rs)
        <4>1. \A rs \in SUBSET Roles : SysUser(rs) \in SysUsers
          BY DEF SysUser, SysUsers
        <4> QED BY <3>1, <4>1 DEF create_user
      <3>2. CASE \E status \in BOOLEAN, rs \in SUBSET Roles : update_user(u, status, rs)
        <4>1. PICK status \in BOOLEAN, rs \in SUBSET Roles : update_user(u, status, rs)
          BY <3>2
        <4>2. user[u] \in SysUsers
          BY <1>0, <4>1 DEF update_user, get, apply_soft_delete, AccountsTypeOK
        <4> DEFINE x == [[user[u] EXCEPT !.roles = rs] EXCEPT !.enabled = status]
        <4>3. x \in SysUsers
          BY <4>2 DEF SysUsers
        <4>4. user' = [user EXCEPT ![u] = x]
          BY <1>0, <4>1 DEF update_user, set_roles, AccountsTypeOK
        <4> QED BY <4>3, <4>4
      <3>3. CASE delete_user(u)
        <4>1. user[u] \in SysUsers
          BY <1>0, <3>3 DEF delete_user, get, apply_soft_delete, AccountsTypeOK
        <4>2. [user[u] EXCEPT !.deleted = TRUE] \in SysUsers
          BY <4>1 DEF SysUsers
        <4>3. user' = [user EXCEPT ![u] = [user[u] EXCEPT !.deleted = TRUE]]
          BY <3>3 DEF delete_user, soft_delete
        <4> QED BY <4>2, <4>3
      <3> QED BY <1>1, <3>1, <3>2, <3>3 DEF EditUser
    <2>3. user'[Admin] # NoUser
      BY <1>0, <2>2 DEF AccountsTypeOK, Seeded
    <2>4. AccountsTypeOK'
      BY <1>0, <2>1, <2>2 DEF AccountsTypeOK
    <2>5. Seeded'
      BY <1>0, <2>1, <2>3 DEF Seeded
    <2> QED BY <1>0, <2>1, <2>3, <2>4, <2>5 DEF AccountsInv, SeedingOK, SawUnseeded, SawSeeded
  <1>2. ASSUME NEW r \in Rules, EditRule(r)
        PROVE  AccountsInv'
    <2>1. /\ rules' = [rules EXCEPT ![r] = @ - 1] /\ rules[r] > 0 /\ edited' = TRUE
          /\ UNCHANGED <<user, role, worker>>
      BY <1>2 DEF EditRule
    <2>2. AccountsTypeOK'
      BY <1>0, <2>1 DEF AccountsTypeOK
    <2>3. Seeded'
      BY <1>0, <2>1 DEF Seeded
    <2> QED BY <1>0, <2>1, <2>2, <2>3 DEF AccountsInv, SeedingOK, SawUnseeded, SawSeeded
  <1> QED BY <1>1, <1>2

\* A worker whose transaction is not the one that commits changes no table.
LEMMA WorkerKeeps ==
    ASSUME AccountsInv, NEW w \in Workers,
           Start(w) \/ SeedBegin(w) \/ SeedFails(w) \/ SeedRetries(w) \/ Crash(w)
    PROVE  AccountsInv'
  <1> USE AccountsAssumption
  <1>0. AccountsTypeOK /\ UNCHANGED <<user, role, rules, edited>>
    BY DEF Start, SeedBegin, SeedFails, SeedRetries, Crash, AccountsInv
  <1> DEFINE saw == [role |-> role, rules |-> {r \in Rules : rules[r] > 0},
                     admin |-> get_by_username(Admin)]
  <1>1. /\ worker[w] \in WorkerRecord
        /\ Stopped \in WorkerRecord /\ Stopped.phase = "down"
        /\ saw \in Snapshot
    BY <1>0 DEF AccountsTypeOK, WorkerRecord, Stopped, Snapshot, get_by_username,
                apply_soft_delete
  <1> DEFINE Fresh(x) == /\ x \in WorkerRecord /\ x.phase # "up"
                         /\ x.phase = "seeding" => x.saw = saw
  <1>2. PICK x : Fresh(x) /\ worker' = [worker EXCEPT ![w] = x]
    <2>1. CASE Start(w)
      <3> DEFINE y == [worker[w] EXCEPT !.phase = "starting"]
      <3>1. worker' = [worker EXCEPT ![w] = y]
        BY <2>1 DEF Start
      <3>2. Fresh(y)
        BY <1>1 DEF WorkerRecord
      <3> HIDE DEF y, Fresh
      <3> QED BY <3>1, <3>2
    <2>2. CASE SeedBegin(w)
      <3> DEFINE y == [worker[w] EXCEPT !.phase = "seeding", !.saw = saw]
      <3>1. worker' = [worker EXCEPT ![w] = y]
        BY <1>0, <2>2 DEF SeedBegin, AccountsTypeOK
      <3>2. Fresh(y)
        <4> HIDE DEF saw
        <4> QED BY <1>1 DEF WorkerRecord
      <3> HIDE DEF y, Fresh
      <3> QED BY <3>1, <3>2
    <2>3. CASE SeedFails(w) \/ Crash(w)
      <3>1. worker' = [worker EXCEPT ![w] = Stopped]
        BY <2>3 DEF SeedFails, Crash
      <3>2. Fresh(Stopped)
        BY <1>1
      <3> HIDE DEF Fresh
      <3> QED BY <3>1, <3>2
    <2>4. CASE SeedRetries(w)
      <3> DEFINE y == [phase |-> "starting", attempt |-> worker[w].attempt + 1,
                       saw |-> NoSnapshot]
      <3>1. worker' = [worker EXCEPT ![w] = y] \/ worker' = [worker EXCEPT ![w] = Stopped]
        BY <2>4 DEF SeedRetries
      <3>2. Fresh(y) /\ Fresh(Stopped)
        BY <1>1 DEF WorkerRecord
      <3> HIDE DEF y, Fresh
      <3> QED BY <3>1, <3>2
    <2> QED BY <2>1, <2>2, <2>3, <2>4
  <1>3. AccountsTypeOK'
    BY <1>0, <1>2 DEF AccountsTypeOK
  <1>4. \A v \in Workers : worker'[v] = IF v = w THEN x ELSE worker[v]
    BY <1>0, <1>2 DEF AccountsTypeOK
  <1>5. Serving' => Serving
    BY <1>2, <1>4 DEF Serving
  <1>6. (Seeded <=> Seeded') /\ (Unseeded <=> Unseeded')
    BY <1>0 DEF Seeded, Unseeded
  <1>7. /\ saw.admin => user[Admin] # NoUser
        /\ SawUnseeded(saw) \/ SawSeeded(saw)
    <2>1. /\ saw.role = role /\ saw.rules = {r \in Rules : rules[r] > 0}
          /\ saw.admin = get_by_username(Admin)
      OBVIOUS
    <2> HIDE DEF saw
    <2>2. saw.admin => user[Admin] # NoUser
      BY <2>1 DEF get_by_username, apply_soft_delete
    <2>3. CASE Unseeded
      <3>1. saw.rules = {}
        BY <2>1, <2>3 DEF Unseeded
      <3> QED BY <2>1, <2>2, <2>3, <3>1 DEF Unseeded, SawUnseeded
    <2>4. CASE Seeded
      <3>1. ~edited => saw.rules = Rules
        BY <2>1, <2>4 DEF Seeded
      <3> QED BY <2>1, <2>2, <2>4, <3>1 DEF Seeded, SawSeeded
    <2> QED BY <2>3, <2>4 DEF AccountsInv
  <1>8. ASSUME NEW v \in Workers
        PROVE  SeedingOK(v)'
    <2> HIDE DEF saw
    <2>1. CASE v = w
      BY <1>0, <1>1, <1>2, <1>4, <1>6, <1>7, <2>1 DEF SeedingOK, SawUnseeded, SawSeeded
    <2>2. CASE v # w
      BY <1>0, <1>4, <1>6, <2>2 DEF AccountsInv, SeedingOK, SawUnseeded, SawSeeded
    <2> QED BY <2>1, <2>2
  <1> QED BY <1>3, <1>5, <1>6, <1>8 DEF AccountsInv

\* A transaction that commits either found the tables empty, and they are still
\* empty, or found them seeded and adds nothing: whoever comes second on empty
\* tables runs into the unique key of the roles.
LEMMA SeedCommitKeeps ==
    ASSUME AccountsInv, NEW w \in Workers, SeedCommit(w)
    PROVE  AccountsInv'
  <1> USE AccountsAssumption
  <1> DEFINE saw == worker[w].saw
             up == [Stopped EXCEPT !.phase = "up"]
  <1>0. /\ AccountsTypeOK /\ saw \in Snapshot
        /\ saw.admin => user[Admin] # NoUser
        /\ SawUnseeded(saw) \/ SawSeeded(saw)
        /\ role \ saw.role = {}
    BY DEF AccountsInv, SeedingOK, SeedCommit, SeedConflict
  <1>1. /\ role' = Roles /\ edited' = edited
        /\ rules' = [r \in Rules |-> IF r \in saw.rules THEN rules[r] ELSE rules[r] + 1]
        /\ user' = IF saw.admin THEN set_roles(Admin, {SYSTEM_ADMIN})
                   ELSE [user EXCEPT ![Admin] = SysUser({SYSTEM_ADMIN})]
        /\ worker' = [worker EXCEPT ![w] = up]
    BY DEF SeedCommit, SeedRows
  <1>2. up \in WorkerRecord /\ up.phase = "up"
    <2>1. Stopped \in WorkerRecord
      BY DEF Stopped, WorkerRecord
    <2> QED BY <2>1 DEF WorkerRecord
  <1> HIDE DEF saw, up
  <1>3. user' \in [Users -> SysUsers \cup {NoUser}] /\ user'[Admin] # NoUser
    <2>1. CASE saw.admin
      <3>1. user[Admin] \in SysUsers
        BY <1>0, <2>1 DEF AccountsTypeOK
      <3>2. [user[Admin] EXCEPT !.roles = {SYSTEM_ADMIN}] \in SysUsers
        BY <3>1 DEF SysUsers
      <3>3. user' = [user EXCEPT ![Admin] = [user[Admin] EXCEPT !.roles = {SYSTEM_ADMIN}]]
        BY <1>1, <2>1 DEF set_roles
      <3> QED BY <1>0, <3>2, <3>3 DEF AccountsTypeOK
    <2>2. CASE ~saw.admin
      <3>1. SysUser({SYSTEM_ADMIN}) \in SysUsers
        BY DEF SysUser, SysUsers
      <3>2. user' = [user EXCEPT ![Admin] = SysUser({SYSTEM_ADMIN})]
        BY <1>1, <2>2
      <3> QED BY <1>0, <3>1, <3>2 DEF AccountsTypeOK
    <2> QED BY <2>1, <2>2
  <1>4. AccountsTypeOK'
    <2>1. rules' \in [Rules -> Nat]
      BY <1>0, <1>1 DEF AccountsTypeOK
    <2>2. worker' \in [Workers -> WorkerRecord]
      BY <1>0, <1>1, <1>2 DEF AccountsTypeOK
    <2> QED BY <1>0, <1>1, <1>3, <2>1, <2>2 DEF AccountsTypeOK
  <1>5. ~edited => \A r \in Rules : rules'[r] = 1
    <2>1. CASE SawUnseeded(saw)
      <3>1. role = {}
        BY <1>0, <2>1 DEF SawUnseeded
      <3>2. \A r \in Rules : rules[r] = 0
        BY <3>1 DEF AccountsInv, Seeded, Unseeded
      <3> QED BY <1>1, <2>1, <3>2 DEF SawUnseeded
    <2>2. CASE SawSeeded(saw)
      BY <1>1, <2>2 DEF SawSeeded, Seeded
    <2> QED BY <1>0, <2>1, <2>2
  <1>6. Seeded'
    BY <1>1, <1>3, <1>5 DEF Seeded
  <1>7. ASSUME NEW v \in Workers
        PROVE  SeedingOK(v)'
    <2>1. worker'[v] = up \/ worker'[v] = worker[v]
      BY <1>0, <1>1 DEF AccountsTypeOK
    <2>2. CASE worker'[v] = up
      BY <1>2, <2>2 DEF SeedingOK
    <2>3. CASE worker'[v] = worker[v]
      BY <1>1, <1>3, <1>6, <2>3 DEF AccountsInv, SeedingOK, SawUnseeded, SawSeeded
    <2> QED BY <2>1, <2>2, <2>3
  <1> QED BY <1>4, <1>6, <1>7 DEF AccountsInv

\* The page, its calls and the rest of the backend leave the accounts alone.
LEMMA PageKeeps ==
    ASSUME AccountsInv, UNCHANGED <<user, role, rules, worker, edited>>
    PROVE  AccountsInv'
  BY DEF AccountsInv, AccountsTypeOK, Serving, Seeded, Unseeded, SeedingOK, SawUnseeded,
         SawSeeded

\* The inductive invariant of the accounts and their seed data.
THEOREM AccountsInvariance == WebSpec => []AccountsInv
  <1>1. WebInit => AccountsInv
    <2> SUFFICES ASSUME WebInit PROVE AccountsInv
      OBVIOUS
    <2>1. Stopped \in WorkerRecord /\ Stopped.phase = "down"
      BY DEF Stopped, WorkerRecord
    <2>2. \A w \in Workers : worker[w] = Stopped
      BY DEF WebInit, AccountsInit
    <2>3. AccountsTypeOK
      BY <2>1 DEF WebInit, AccountsInit, AccountsTypeOK
    <2>4. Unseeded
      BY DEF WebInit, AccountsInit, Unseeded
    <2> QED BY <2>1, <2>2, <2>3, <2>4 DEF AccountsInv, Serving, SeedingOK
  <1>2. AccountsInv /\ [WebNext]_vars => AccountsInv'
    <2> SUFFICES ASSUME AccountsInv, [WebNext]_vars PROVE AccountsInv'
      OBVIOUS
    <2>1. CASE AccountsNext
      BY <2>1, EditKeeps, WorkerKeeps, SeedCommitKeeps DEF AccountsNext, WorkerStep
    <2>2. CASE UNCHANGED <<user, role, rules, worker, edited>>
      BY <2>2, PageKeeps
    <2>3. AccountsNext \/ UNCHANGED <<user, role, rules, worker, edited>>
      BY DEF WebNext, vars, accountVars, Handle, HandleFails, Receive, handleLogin, Visit,
             handleLogout, Poll, Reload, Expire
    <2> QED BY <2>1, <2>2, <2>3
  <1> QED BY <1>1, <1>2, PTL DEF WebSpec

\* However many workers run init_seed_data at once on empty tables, and however
\* often they crash and retry, no default alert rule is created twice unless
\* one was edited.
THEOREM SeededOnceCorrect == WebSpec => []SeededOnce
  <1>1. AccountsInv => SeededOnce
    BY DEF AccountsInv, AccountsTypeOK, SeededOnce, Seeded, Unseeded
  <1> QED BY AccountsInvariance, <1>1, PTL

\* A worker that serves has the whole seed data of init_seed_data behind it:
\* every default role, the administrator's row and, unless edited, every rule.
THEOREM ServesSeededCorrect == WebSpec => []ServesSeeded
  <1>1. AccountsInv => ServesSeeded
    BY DEF AccountsInv, ServesSeeded
  <1> QED BY AccountsInvariance, <1>1, PTL
=============================================================================
