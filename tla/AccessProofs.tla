---------------------------- MODULE AccessProofs -----------------------------
(***************************************************************************)
(* Proofs about Access, for any users, roles and permissions and any       *)
(* number of requests, logins and shells at a time.                        *)
(*   The accounts: the last account that may manage the others goes only   *)
(* by overlapping requests or by its own role, and roles grant what was    *)
(* asked for.  Both rest on what a request may rely on that nothing has    *)
(* overtaken (Undisturbed), and on which of the rows it has loaded can be  *)
(* missing when it commits (KeysHeld).                                     *)
(*   The login guard: what counts in a window is bounded, because an       *)
(* attempt gets in only below the limit and gives up its place to count.   *)
(*   The web shell: how far a handler got says what it has told the audit. *)
(***************************************************************************)
EXTENDS Access, SequenceTheorems, FiniteSetTheorems, WellFoundedInduction, TLAPS

RequestStates ==
  [pc: {"idle", "load", "commit"}, by: Users \cup {None}, order: Orders \cup {NoOrder},
   mine: [role: Roles \cup {None}, perms: SUBSET Perms],
   seen: {None} \cup (SUBSET Perms) \cup Accounts,
   gone: SUBSET (Roles \cup Users), solo: BOOLEAN]

(* Every account has a role that exists.                                   *)
AccountsType ==
  /\ seeding \in Seedings
  /\ grants \in [Roles -> {None} \cup SUBSET Perms]
  /\ account \in [Users -> {None} \cup Accounts]
  /\ \A u \in Users : account[u] # None => grants[account[u].role] # None
  /\ asked \in [Roles -> {None, Unclear} \cup SUBSET Perms]
  /\ request \in [Requests -> RequestStates]

(* A request that no commit has overtaken: its author may still do what he *)
(* does, and what it has loaded is still so.                               *)
Undisturbed(q) ==
  q.solo /\ q.pc # "idle" =>
    /\ q.by \in Users /\ CanManage(q.by)
    /\ q.mine = [role |-> account[q.by].role, perms |-> grants[account[q.by].role]]
    /\ q.gone = {}
    /\ q.pc = "commit" /\ q.order.op = "update_role" => q.seen = grants[q.order.role]

(* The rows a request has loaded are there unless it holds them for gone.  *)
KeysHeld(q) ==
  /\ q.order.op \in {"update_role", "create_user"} =>
       q.order.role \in q.gone \/ grants[q.order.role] # None
  /\ q.order.op = "update_user" =>
       /\ q.order.user \in q.gone \/ account[q.order.user] # None
       /\ q.order.role # None =>
            q.order.role \in q.gone \/ grants[q.order.role] # None

(* A request that is about to commit has passed the guards that do not     *)
(* depend on what others do.                                               *)
Guarded(q) ==
  /\ q.order.op = "update_role" => q.seen \in SUBSET Perms
  /\ q.order.op = "update_user" => q.seen \in Accounts
  /\ q.order.op = "create_role" => q.gone = {}
  /\ q.order.op = "update_user" /\ (q.order.role # None \/ q.order.active # None) =>
       q.order.user # q.by
  /\ q.order.op = "delete_user" => q.order.user # q.by

Prepared(q) ==
  /\ q.pc = "load" => q.gone = {}
  /\ q.pc = "commit" => q.order \in OrdersOf /\ Guarded(q) /\ KeysHeld(q)

RequestsSound == \A r \in Requests : Undisturbed(request[r]) /\ Prepared(request[r])

AccountsInv == AccountsType /\ RequestsSound /\ RolesAsRequested /\ LockoutHasCause

-----------------------------------------------------------------------------
LEMMA IdleRequest == Idle \in RequestStates /\ Idle.pc = "idle"
  BY DEF Idle, RequestStates

LEMMA NotSeedingType == NotSeeding \in Seedings
  BY DEF NotSeeding, Seedings

LEMMA InitAccountsInv == Init => AccountsInv
<1> SUFFICES ASSUME Init PROVE AccountsInv
  OBVIOUS
<1>1. /\ grants \in [Roles -> {None} \cup SUBSET Perms]
      /\ \A ro \in BUILTIN_ROLES : grants[ro] = Defaults[ro]
  BY RolesAssumption DEF Init, BUILTIN_ROLES
<1>2. request = [r \in Requests |-> Idle] /\ asked = grants
  BY DEF Init
<1>3. account \in [Users -> {None} \cup Accounts]
  BY DEF Init, Accounts
<1>4. AccountsType
  BY <1>1, <1>2, <1>3, IdleRequest, NotSeedingType DEF Init, AccountsType
<1>5. RequestsSound
  BY <1>2, IdleRequest DEF RequestsSound, Undisturbed, Prepared
<1>6. CanManage(Admin) /\ Admin \in Users
  <2>1. account[Admin] = [role |-> Manager, active |-> TRUE] /\ account[Admin] # None
    <3>1. [role |-> Manager, active |-> TRUE] \in [role: Roles, active: BOOLEAN]
      BY RolesAssumption
    <3> QED BY <3>1, NoneAssumption DEF Init
  <2>2. ManageUsers \in grants[Manager]
    BY <1>1, RolesAssumption DEF BUILTIN_ROLES
  <2> QED BY <2>1, <2>2, RolesAssumption DEF CanManage, Holds
<1> QED BY <1>2, <1>4, <1>5, <1>6 DEF AccountsInv, RolesAsRequested, LockoutHasCause

-----------------------------------------------------------------------------
(* What the tables decide does not change with the rest.                   *)
LEMMA TablesKept ==
  ASSUME AccountsInv, UNCHANGED <<grants, account, seeding, asked, raced, disarmed>>,
         request' \in [Requests -> RequestStates],
         \A r \in Requests : Undisturbed(request[r])' /\ Prepared(request[r])'
  PROVE  AccountsInv'
BY DEF AccountsInv, AccountsType, RequestsSound, RolesAsRequested, LockoutHasCause,
       CanManage, Holds

LEMMA RequestKept ==
  ASSUME AccountsInv, UNCHANGED <<grants, account>>, NEW r \in Requests,
         request'[r] = request[r] \/ request'[r] = Idle
  PROVE  Undisturbed(request[r])' /\ Prepared(request[r])'
BY IdleRequest DEF AccountsInv, RequestsSound, Undisturbed, Prepared, Guarded, KeysHeld, CanManage, Holds

LEMMA AuthorizeKeeps ==
  ASSUME AccountsInv, NEW r \in Requests, NEW u \in Users, Authorize(r, u)
  PROVE  AccountsInv'
<1> DEFINE mine == [role |-> account[u].role, perms |-> grants[account[u].role]]
           new == [Idle EXCEPT !.pc = "load", !.by = u, !.mine = mine]
<1>1. /\ CanManage(u) /\ request' = [request EXCEPT ![r] = new]
      /\ UNCHANGED <<grants, account, seeding, asked, raced, disarmed>>
  BY DEF Authorize
<1>2. account[u] \in Accounts /\ grants[account[u].role] \in SUBSET Perms
  BY <1>1 DEF CanManage, Holds, AccountsInv, AccountsType, Accounts
<1>3. mine \in [role: Roles \cup {None}, perms: SUBSET Perms]
  BY <1>2 DEF Accounts
<1> HIDE DEF mine
<1>4. /\ new \in RequestStates /\ new.pc = "load" /\ new.by = u /\ new.mine = mine
      /\ new.gone = {}
  BY <1>3, IdleRequest DEF Idle, RequestStates
<1> HIDE DEF new
<1>5. request' \in [Requests -> RequestStates] /\ request'[r] = new
  BY <1>1, <1>4 DEF AccountsInv, AccountsType
<1>6. Undisturbed(request[r])' /\ Prepared(request[r])'
  BY <1>1, <1>4, <1>5 DEF mine, Undisturbed, Prepared, CanManage, Holds
<1>7. \A q \in Requests \ {r} : Undisturbed(request[q])' /\ Prepared(request[q])'
  BY <1>1, RequestKept DEF AccountsInv, AccountsType
<1> QED BY <1>1, <1>5, <1>6, <1>7, TablesKept

LEMMA LoadKeeps ==
  ASSUME AccountsInv, NEW r \in Requests, NEW o \in OrdersOf, Load(r, o)
  PROVE  AccountsInv'
<1> DEFINE q == request[r]
           new == [q EXCEPT !.pc = "commit", !.order = o, !.seen = Loaded(o, q.mine)]
<1>1. /\ q.pc = "load" /\ UNCHANGED <<grants, account, seeding, asked, raced, disarmed>>
      /\ request' = [request EXCEPT ![r] = IF Passes(o, q.by) THEN new ELSE Idle]
  BY DEF Load
<1>2. q \in RequestStates /\ Undisturbed(q) /\ q.gone = {}
  BY <1>1 DEF AccountsInv, AccountsType, RequestsSound, Prepared
<1>3. \A p \in Requests \ {r} : request'[p] = request[p]
  BY <1>1 DEF AccountsInv, AccountsType
<1>4. \A p \in Requests \ {r} : Undisturbed(request[p])' /\ Prepared(request[p])'
  BY <1>1, <1>3, RequestKept
<1>5. CASE ~Passes(o, q.by)
  <2>1. request'[r] = Idle /\ request' \in [Requests -> RequestStates]
    BY <1>1, <1>5, IdleRequest DEF AccountsInv, AccountsType
  <2> QED BY <1>1, <1>4, <2>1, RequestKept, TablesKept
<1>6. CASE Passes(o, q.by)
  <2>0. o \in Orders
    BY OrdersAssumption
  <2>1. /\ o.op = "update_role" => Loaded(o, q.mine) \in SUBSET Perms
        /\ o.op = "update_user" => Loaded(o, q.mine) \in Accounts
        /\ Loaded(o, q.mine) \in {None} \cup (SUBSET Perms) \cup Accounts
    <3>1. o.op = "update_role" => grants[o.role] \in SUBSET Perms /\ q.mine.perms \in SUBSET Perms
      BY <1>2, <1>6, OrdersAssumption
         DEF Passes, AccountsInv, AccountsType, RequestStates
    <3>2. o.op = "update_user" => account[o.user] \in Accounts
      BY <1>6, OrdersAssumption DEF Passes, AccountsInv, AccountsType
    <3>3. CASE o.op = "update_role"
      BY <3>1, <3>3 DEF Loaded
    <3>4. CASE o.op = "update_user"
      <4>1. Loaded(o, q.mine) = account[o.user]
        BY <3>4 DEF Loaded
      <4>2. Loaded(o, q.mine) \in Accounts
        BY <3>2, <3>4, <4>1
      <4> QED BY <3>4, <4>2
    <3>5. CASE o.op \notin {"update_role", "update_user"}
      BY <3>5 DEF Loaded
    <3> QED BY <3>3, <3>4, <3>5
  <2>2. /\ new \in RequestStates /\ new.pc = "commit" /\ new.order = o
        /\ new.seen = Loaded(o, q.mine) /\ new.by = q.by /\ new.mine = q.mine
        /\ new.gone = {} /\ new.solo = q.solo
    BY <1>2, <2>0, <2>1 DEF RequestStates
  <2> HIDE DEF new
  <2>3. request'[r] = new /\ request' \in [Requests -> RequestStates]
    BY <1>1, <1>6, <2>2 DEF AccountsInv, AccountsType
  <2>4. Undisturbed(new)
    <3>1. q.solo /\ o.op = "update_role" => Loaded(o, q.mine) = grants[o.role]
      BY <1>1, <1>2 DEF Undisturbed, Loaded
    <3> QED BY <1>1, <1>2, <2>2, <3>1 DEF Undisturbed
  <2>5. Guarded(new)
    BY <1>6, <2>1, <2>2 DEF Guarded, Passes
  <2>6. KeysHeld(new)
    BY <1>6, <2>2 DEF KeysHeld, Passes
  <2>7. Undisturbed(request[r])' /\ Prepared(request[r])'
    BY <1>1, <2>2, <2>3, <2>4, <2>5, <2>6
       DEF Undisturbed, Prepared, Guarded, KeysHeld, CanManage, Holds
  <2> QED BY <1>1, <1>4, <2>3, <2>7, TablesKept
<1> QED BY <1>5, <1>6

-----------------------------------------------------------------------------
(* What the commit of r does to the tables: keys stay whole, a row goes    *)
(* only when its deletion was asked for, roles grant what was asked, and   *)
(* the author, undisturbed, keeps what he came with or is to blame.        *)
ManagesNext(u) ==
  account'[u] # None /\ account'[u].active /\ ManageUsers \in grants'[account'[u].role]

TablesSound(r) ==
  LET q == request[r]
      o == q.order
  IN
  /\ grants' \in [Roles -> {None} \cup SUBSET Perms]
  /\ account' \in [Users -> {None} \cup Accounts]
  /\ \A u \in Users : account'[u] # None => grants'[account'[u].role] # None
  /\ asked' \in [Roles -> {None, Unclear} \cup SUBSET Perms]
  /\ \A ro \in Roles : grants[ro] # None /\ grants'[ro] = None =>
                         o.op = "delete_role" /\ ro = o.role
  /\ \A u \in Users : account[u] # None /\ account'[u] = None =>
                        o.op = "delete_user" /\ u = o.user
  /\ RolesAsRequested'
  /\ q.solo /\ ~disarmed' => ManagesNext(q.by)

(* What a committing request has, in one place.                            *)
LEMMA Committing ==
  ASSUME AccountsInv, NEW r \in Requests, Commit(r)
  PROVE  LET q == request[r] IN
         /\ q \in RequestStates /\ q.pc = "commit" /\ q.order \in OrdersOf
         /\ q.order \in Orders /\ Accepted(q) /\ Guarded(q) /\ KeysHeld(q) /\ Undisturbed(q)
         /\ grants' = GrantsAfter(q) /\ account' = AccountAfter(q)
BY OrdersAssumption DEF Commit, AccountsInv, AccountsType, RequestsSound, Prepared

(* A request without a say about accounts leaves its author as he was.     *)
LEMMA AuthorKept ==
  ASSUME AccountsInv, NEW r \in Requests, Commit(r), request[r].solo,
         account'[request[r].by] = account[request[r].by],
         ManageUsers \in grants'[account[request[r].by].role]
  PROVE  ManagesNext(request[r].by)
<1>1. CanManage(request[r].by)
  BY Committing DEF Undisturbed
<1> QED BY <1>1 DEF CanManage, Holds, ManagesNext

(* The requests about roles write no account.                              *)
LEMMA RoleCommit ==
  ASSUME AccountsInv, NEW r \in Requests, Commit(r), request[r].order.op \in RoleOps
  PROVE  TablesSound(r)
<1> DEFINE q == request[r]
           o == q.order
           after == grants'[o.role]
<1>0. /\ q \in RequestStates /\ q.pc = "commit" /\ o \in OrdersOf /\ o \in Orders
      /\ Accepted(q) /\ Guarded(q) /\ KeysHeld(q) /\ Undisturbed(q)
      /\ grants' = GrantsAfter(q) /\ account' = AccountAfter(q)
  BY Committing
<1>1. /\ o.role \in Roles /\ o.perms \in {None} \cup SUBSET Perms
      /\ o.op \in {"create_role", "update_role"} => o.perms \in SUBSET Perms
      /\ o.op = "delete_role" => o.perms = None
  BY <1>0, OrdersAssumption DEF RoleOps, Orders
<1>2. account' = account
  BY <1>0 DEF AccountAfter, RoleOps
<1>3. \A ro \in Roles \ {o.role} : grants'[ro] = grants[ro]
  BY <1>0, <1>1 DEF GrantsAfter, RoleOps, AccountsInv, AccountsType
<1>4. /\ o.op = "create_role" => after = o.perms /\ grants[o.role] = None
      /\ o.op = "update_role" =>
           /\ after = (grants[o.role] \ (q.seen \ o.perms)) \cup (o.perms \ q.seen)
           /\ grants[o.role] \in SUBSET Perms /\ o.role \notin q.gone
      /\ o.op = "delete_role" /\ o.role \notin q.gone =>
           after = None /\ Unassigned(o.role)
      /\ o.op = "delete_role" /\ o.role \in q.gone => after = grants[o.role]
  BY <1>0, <1>1 DEF GrantsAfter, Accepted, KeysHeld, AccountsInv, AccountsType
<1>5. grants' \in [Roles -> {None} \cup SUBSET Perms]
  <2>1. after \in {None} \cup SUBSET Perms
    BY <1>0, <1>1, <1>4 DEF RoleOps, Guarded, AccountsInv, AccountsType
  <2>2. DOMAIN grants' = Roles /\ grants' = [ro \in Roles |-> grants'[ro]]
    BY <1>0 DEF GrantsAfter, AccountsInv, AccountsType
  <2> HIDE DEF after
  <2>3. \A ro \in Roles : grants'[ro] \in {None} \cup SUBSET Perms
    BY <1>3, <2>1 DEF after, AccountsInv, AccountsType
  <2> QED BY <2>2, <2>3
<1>6. \A ro \in Roles : grants[ro] # None /\ grants'[ro] = None =>
                          o.op = "delete_role" /\ ro = o.role
  <2>1. o.op = "update_role" => after \in SUBSET Perms
    BY <1>0, <1>1, <1>4 DEF Guarded
  <2> QED BY <1>1, <1>3, <1>4, <2>1, NoneAssumption DEF RoleOps
<1>7. \A u \in Users : account[u] # None => grants'[account[u].role] # None
  <2> SUFFICES ASSUME NEW u \in Users, account[u] # None, grants'[account[u].role] = None
               PROVE  FALSE
    OBVIOUS
  <2>1. account[u].role \in Roles /\ grants[account[u].role] # None
    BY DEF AccountsInv, AccountsType, Accounts
  <2>2. o.op = "delete_role" /\ account[u].role = o.role
    BY <1>6, <2>1
  <2>3. o.role \in q.gone
    BY <1>4, <2>2 DEF Unassigned
  <2> QED BY <1>4, <2>1, <2>2, <2>3
<1>8. /\ asked' = IF o.role \notin q.gone
                  THEN [asked EXCEPT ![o.role] = IF o.op = "update_role" /\ ~q.solo
                                                 THEN Unclear ELSE o.perms]
                  ELSE asked
      /\ disarmed' = (disarmed \/ /\ o.op = "update_role" /\ o.role = q.mine.role
                                  /\ ManageUsers \notin o.perms)
  BY DEF Commit
<1>9. asked' \in [Roles -> {None, Unclear} \cup SUBSET Perms]
  BY <1>1, <1>8 DEF AccountsInv, AccountsType
<1>10. q.solo /\ o.op = "update_role" => after = o.perms
  <2> SUFFICES ASSUME q.solo, o.op = "update_role" PROVE after = o.perms
    OBVIOUS
  <2>1. q.seen = grants[o.role]
    BY <1>0 DEF Undisturbed
  <2> QED BY <1>4, <2>1
<1>11. RolesAsRequested'
  <2> SUFFICES ASSUME NEW ro \in Roles, asked'[ro] # Unclear PROVE grants'[ro] = asked'[ro]
    BY DEF RolesAsRequested
  <2>1. asked[ro] # Unclear => grants[ro] = asked[ro]
    BY DEF AccountsInv, RolesAsRequested
  <2>2. CASE ro # o.role
    BY <1>3, <1>8, <2>1, <2>2 DEF AccountsInv, AccountsType
  <2>3. CASE ro = o.role /\ o.role \in q.gone
    <3>1. o.op = "delete_role"
      BY <1>0, <1>4, <2>3 DEF Guarded, RoleOps
    <3> QED BY <1>4, <1>8, <2>1, <2>3, <3>1
  <2>4. CASE ro = o.role /\ o.role \notin q.gone
    <3>1. asked'[ro] = IF o.op = "update_role" /\ ~q.solo THEN Unclear ELSE o.perms
      BY <1>8, <2>4 DEF AccountsInv, AccountsType
    <3> QED BY <1>1, <1>4, <1>10, <2>4, <3>1 DEF RoleOps
  <2> QED BY <2>2, <2>3, <2>4
<1>12. ASSUME q.solo, ~disarmed' PROVE ManagesNext(q.by)
  <2>1. /\ q.by \in Users /\ q.gone = {} /\ CanManage(q.by)
        /\ q.mine.role = account[q.by].role
    BY <1>0, <1>12 DEF Undisturbed
  <2>2. account[q.by] # None /\ ManageUsers \in grants[account[q.by].role]
    BY <2>1 DEF CanManage, Holds
  <2>3. account[q.by].role \in Roles /\ grants[account[q.by].role] # None
    BY <2>1, <2>2 DEF AccountsInv, AccountsType, Accounts
  <2>4. ManageUsers \in grants'[account[q.by].role]
    <3>1. CASE account[q.by].role # o.role
      BY <1>3, <2>2, <2>3, <3>1
    <3>2. CASE account[q.by].role = o.role
      <4>1. o.op # "create_role"
        BY <1>4, <2>3, <3>2
      <4>2. o.op # "delete_role"
        BY <1>4, <2>1, <2>2, <3>2 DEF Unassigned
      <4>3. o.op = "update_role" /\ ManageUsers \in o.perms
        BY <1>8, <1>12, <2>1, <3>2, <4>1, <4>2 DEF RoleOps
      <4> QED BY <1>10, <1>12, <3>2, <4>3
    <3> QED BY <3>1, <3>2
  <2> QED BY <1>2, <1>12, <2>4, AuthorKept
<1> QED
  BY <1>2, <1>5, <1>6, <1>7, <1>9, <1>11, <1>12 DEF TablesSound, AccountsInv, AccountsType

(* The requests about users write no role, and never their author.         *)
LEMMA UserCommit ==
  ASSUME AccountsInv, NEW r \in Requests, Commit(r), request[r].order.op \notin RoleOps
  PROVE  TablesSound(r)
<1> DEFINE q == request[r]
           o == q.order
           after == account'[o.user]
<1>0. /\ q \in RequestStates /\ q.pc = "commit" /\ o \in OrdersOf /\ o \in Orders
      /\ Accepted(q) /\ Guarded(q) /\ KeysHeld(q) /\ Undisturbed(q)
      /\ grants' = GrantsAfter(q) /\ account' = AccountAfter(q)
  BY Committing
<1>1. /\ o.op \in {"create_user", "update_user", "delete_user"} /\ o.user \in Users
      /\ o.role \in Roles \cup {None} /\ o.active \in BOOLEAN \cup {None}
      /\ o.op = "create_user" => o.role \in Roles
  BY <1>0, OrdersAssumption DEF RoleOps, Orders
<1>2. grants' = grants /\ asked' = asked
  BY <1>0, <1>1 DEF GrantsAfter, Commit, RoleOps
<1>3. \A u \in Users \ {o.user} : account'[u] = account[u]
  BY <1>0, <1>1 DEF AccountAfter, AccountsInv, AccountsType
<1>4. /\ o.op = "create_user" => /\ after = [role |-> o.role, active |-> TRUE]
                                 /\ account[o.user] = None
                                 /\ grants[o.role] # None
      /\ o.op = "delete_user" => after \in {None, account[o.user]}
      /\ o.op = "update_user" =>
           /\ after = [role |-> IF Writes(o.role, q.seen.role) THEN o.role
                                ELSE account[o.user].role,
                       active |-> IF Writes(o.active, q.seen.active) THEN o.active
                                  ELSE account[o.user].active]
           /\ account[o.user] \in Accounts
           /\ Writes(o.role, q.seen.role) => grants[o.role] # None
  <2>1. CASE o.op = "create_user"
    BY <1>0, <1>1, <2>1 DEF AccountAfter, Accepted, KeysHeld, AccountsInv, AccountsType
  <2>2. CASE o.op = "delete_user"
    BY <1>0, <1>1, <2>2 DEF AccountAfter, AccountsInv, AccountsType
  <2>3. CASE o.op = "update_user"
    <3>1. account[o.user] \in Accounts
      BY <1>0, <1>1, <2>3 DEF Accepted, KeysHeld, AccountsInv, AccountsType
    <3>2. Writes(o.role, q.seen.role) => grants[o.role] # None
      BY <1>0, <2>3 DEF Accepted, KeysHeld, Writes
    <3> QED BY <1>0, <1>1, <2>3, <3>1, <3>2 DEF AccountAfter, AccountsInv, AccountsType
  <2> QED BY <1>1, <2>1, <2>2, <2>3
<1>5. o.op = "update_user" => after \in Accounts
  <2> SUFFICES ASSUME o.op = "update_user" PROVE after \in Accounts
    OBVIOUS
  <2> DEFINE newRole == IF Writes(o.role, q.seen.role) THEN o.role ELSE account[o.user].role
             newActive == IF Writes(o.active, q.seen.active) THEN o.active
                          ELSE account[o.user].active
  <2>1. newRole \in Roles
    BY <1>1, <1>4 DEF Writes, Accounts
  <2>2. newActive \in BOOLEAN
    <3>1. Writes(o.active, q.seen.active) => o.active \in BOOLEAN
      BY <1>1 DEF Writes
    <3>2. account[o.user].active \in BOOLEAN
      BY <1>4 DEF Accounts
    <3> QED BY <3>1, <3>2
  <2>3. after = [role |-> newRole, active |-> newActive]
    BY <1>4
  <2> HIDE DEF newRole, newActive, after
  <2> QED BY <2>1, <2>2, <2>3 DEF Accounts
<1>6. after \in {None} \cup Accounts
  <2>1. o.op = "create_user" => after \in Accounts
    <3>1. o.op = "create_user" => [role |-> o.role, active |-> TRUE] \in Accounts
      BY <1>1 DEF Accounts
    <3> QED BY <1>4, <3>1
  <2>2. o.op = "delete_user" => after \in {None} \cup Accounts
    BY <1>1, <1>4 DEF AccountsInv, AccountsType
  <2> QED BY <1>1, <1>5, <2>1, <2>2
<1>7. account' \in [Users -> {None} \cup Accounts]
  <2>1. account' = [u \in Users |-> account'[u]]
    BY <1>0 DEF AccountAfter, AccountsInv, AccountsType
  <2> HIDE DEF after
  <2>2. \A u \in Users : account'[u] \in {None} \cup Accounts
    BY <1>3, <1>6 DEF after, AccountsInv, AccountsType
  <2> QED BY <2>1, <2>2
<1>8. \A u \in Users : account'[u] # None => grants[account'[u].role] # None
  <2>0. \A u \in Users : account[u] # None => grants[account[u].role] # None
    BY DEF AccountsInv, AccountsType
  <2>1. after # None => grants[after.role] # None
    <3>1. CASE o.op = "create_user"
      BY <1>4, <3>1
    <3>2. CASE o.op = "delete_user"
      BY <1>1, <1>4, <2>0, <3>2
    <3>3. CASE o.op = "update_user"
      <4>1. after.role = IF Writes(o.role, q.seen.role) THEN o.role ELSE account[o.user].role
        BY <1>4, <3>3
      <4>2. account[o.user] # None
        BY <1>4, <3>3, NoneAssumption DEF Accounts
      <4> QED BY <1>1, <1>4, <2>0, <3>3, <4>1, <4>2
    <3> QED BY <1>1, <3>1, <3>2, <3>3
  <2> QED BY <1>3, <2>0, <2>1
<1>9. \A u \in Users : account[u] # None /\ account'[u] = None =>
                         o.op = "delete_user" /\ u = o.user
  <2>1. o.op = "update_user" => after # None
    BY <1>5, NoneAssumption DEF Accounts
  <2> QED BY <1>1, <1>3, <1>4, <2>1
<1>10. ASSUME q.solo PROVE ManagesNext(q.by)
  <2>1. q.by \in Users /\ CanManage(q.by)
    BY <1>0, <1>10 DEF Undisturbed
  <2>2. account[q.by] # None /\ ManageUsers \in grants[account[q.by].role]
    BY <2>1 DEF CanManage, Holds
  <2>3. account'[q.by] = account[q.by]
    <3>1. CASE q.by # o.user
      BY <1>3, <2>1, <3>1
    <3>2. CASE q.by = o.user
      <4>1. o.op = "update_user" /\ o.role = None /\ o.active = None
        BY <1>0, <1>1, <1>4, <2>2, <3>2 DEF Guarded
      <4>2. after = [role |-> account[o.user].role, active |-> account[o.user].active]
        BY <1>4, <4>1 DEF Writes
      <4>3. account[o.user] \in Accounts
        BY <1>4, <4>1
      <4> HIDE DEF after
      <4>4. after = account[o.user]
        BY <4>2, <4>3 DEF Accounts
      <4> QED BY <3>2, <4>4 DEF after
    <3> QED BY <3>1, <3>2
  <2> QED BY <1>2, <1>10, <2>2, <2>3, AuthorKept
<1> QED
  BY <1>2, <1>3, <1>7, <1>8, <1>9, <1>10
     DEF TablesSound, AccountsInv, AccountsType, RolesAsRequested

LEMMA CommitKeeps ==
  ASSUME AccountsInv, NEW r \in Requests, Commit(r)
  PROVE  AccountsInv'
<1> DEFINE o == request[r].order
           deleted == IF o.op \in {"delete_role", "delete_user"}
                      THEN {o.role, o.user} \ {None} ELSE {}
           more(q) == IF request[q].pc = "commit"
                      THEN deleted \cap RowsOf(request[q].order) ELSE {}
<1>1. TablesSound(r)
  BY RoleCommit, UserCommit
<1>2. /\ request' = [q \in Requests |->
                       IF q = r THEN Idle
                       ELSE [request[q] EXCEPT !.solo = FALSE, !.gone = @ \cup more(q)]]
      /\ raced' = (raced \/ ~request[r].solo)
  BY DEF Commit, Overtaken
<1>3. deleted \subseteq Roles \cup Users /\ o \in Orders
  BY Committing DEF Orders
<1> HIDE DEF o, deleted, more
<1>4. \A q \in Requests : more(q) \subseteq Roles \cup Users
  BY <1>3 DEF more
<1>5. \A q \in Requests : request[q] \in RequestStates /\ Prepared(request[q])
  BY DEF AccountsInv, AccountsType, RequestsSound
<1>6. ASSUME NEW q \in Requests \ {r}
      PROVE  /\ request'[q] \in RequestStates
             /\ request'[q].pc = request[q].pc /\ request'[q].order = request[q].order
             /\ request'[q].by = request[q].by /\ request'[q].seen = request[q].seen
             /\ request'[q].gone = request[q].gone \cup more(q) /\ ~request'[q].solo
  <2>1. request'[q] = [request[q] EXCEPT !.solo = FALSE, !.gone = request[q].gone \cup more(q)]
    BY <1>2
  <2>2. request[q].gone \cup more(q) \in SUBSET (Roles \cup Users)
    BY <1>4, <1>5 DEF RequestStates
  <2> QED BY <1>5, <2>1, <2>2 DEF RequestStates
<1>7. request' \in [Requests -> RequestStates] /\ request'[r] = Idle
  BY <1>2, <1>6, IdleRequest
<1>8. ASSUME NEW q \in Requests \ {r} PROVE Undisturbed(request[q])' /\ Prepared(request[q])'
  <2>1. Undisturbed(request[q])'
    BY <1>6 DEF Undisturbed
  <2>2. CASE request[q].pc # "commit"
    BY <1>5, <1>6, <2>1, <2>2 DEF Prepared, more
  <2>3. CASE request[q].pc = "commit"
    <3>1. Guarded(request[q]) /\ KeysHeld(request[q]) /\ request[q].order \in OrdersOf
      BY <1>5, <2>3 DEF Prepared
    <3>2. Guarded(request[q])'
      BY <1>6, <2>3, <3>1 DEF Guarded, more, RowsOf
    <3>3. ASSUME NEW ro \in Roles, ro \in RowsOf(request[q].order), grants[ro] # None
          PROVE  ro \in request'[q].gone \/ grants'[ro] # None
      <4> SUFFICES ASSUME grants'[ro] = None PROVE ro \in more(q)
        BY <1>6
      <4>1. o.op = "delete_role" /\ ro = o.role
        BY <1>1, <3>3 DEF TablesSound, o
      <4>2. ro \in deleted
        BY <4>1, NoneAssumption DEF deleted
      <4> QED BY <2>3, <3>3, <4>2 DEF more
    <3>4. ASSUME NEW u \in Users, u \in RowsOf(request[q].order), account[u] # None
          PROVE  u \in request'[q].gone \/ account'[u] # None
      <4> SUFFICES ASSUME account'[u] = None PROVE u \in more(q)
        BY <1>6
      <4>1. o.op = "delete_user" /\ u = o.user
        BY <1>1, <3>4 DEF TablesSound, o
      <4>2. u \in deleted
        BY <4>1, NoneAssumption DEF deleted
      <4> QED BY <2>3, <3>4, <4>2 DEF more
    <3>5. KeysHeld(request[q])'
      <4> DEFINE w == request[q].order
      <4>1. /\ w.op = "update_role" => w.role \in Roles /\ w.role \in RowsOf(w)
            /\ w.op = "create_user" => w.role \in Roles /\ w.role \in RowsOf(w)
            /\ w.op = "update_user" => /\ w.user \in Users /\ w.user \in RowsOf(w)
                                       /\ w.role # None => w.role \in Roles /\ w.role \in RowsOf(w)
        BY <3>1, OrdersAssumption DEF RowsOf, Orders
      <4> QED BY <1>6, <3>1, <3>3, <3>4, <4>1 DEF KeysHeld
    <3> QED BY <1>6, <2>1, <2>3, <3>1, <3>2, <3>5 DEF Prepared
  <2> QED BY <2>1, <2>2, <2>3
<1>9. RequestsSound'
  BY <1>7, <1>8, IdleRequest DEF RequestsSound, Undisturbed, Prepared
<1>10. LockoutHasCause'
  <2>1. CASE raced' \/ disarmed'
    BY <2>1 DEF LockoutHasCause
  <2>2. CASE ~raced' /\ ~disarmed'
    <3>1. request[r].solo /\ request[r].by \in Users /\ ManagesNext(request[r].by)
      BY <1>1, <1>2, <2>2, Committing DEF TablesSound, Undisturbed
    <3>2. PICK u \in Users : ManagesNext(u)
      BY <3>1
    <3>3. CanManage(u)'
      BY <3>2 DEF ManagesNext, CanManage, Holds
    <3> QED BY <3>3 DEF LockoutHasCause
  <2> QED BY <2>1, <2>2
<1>11. seeding' \in Seedings
  BY DEF Commit, AccountsInv, AccountsType
<1> QED
  BY <1>1, <1>7, <1>9, <1>10, <1>11 DEF TablesSound, AccountsInv, AccountsType

LEMMA SeedLoadType == ASSUME AccountsInv, SeedLoad PROVE seeding' \in Seedings
<1>1. [ro \in BUILTIN_ROLES |-> Defaults[ro] \ Granted(ro)] \in [BUILTIN_ROLES -> SUBSET Perms]
  BY RolesAssumption DEF BUILTIN_ROLES
<1>2. (account[Admin] = None) \in BOOLEAN
  OBVIOUS
<1> QED BY <1>1, <1>2 DEF SeedLoad, Seedings

(* The seed grants and creates, and overtakes everybody.                   *)
LEMMA SeedKeeps == ASSUME AccountsInv, SeedCommit PROVE AccountsInv'
<1>1. /\ grants' = [ro \in Roles |-> IF ro \in BUILTIN_ROLES
                                     THEN Granted(ro) \cup seeding.lacks[ro] ELSE grants[ro]]
      /\ account' = IF seeding.admin
                    THEN [account EXCEPT ![Admin] = [role |-> Manager, active |-> TRUE]]
                    ELSE account
      /\ seeding.admin => account[Admin] = None
      /\ asked' = [ro \in Roles |-> IF grants'[ro] # grants[ro] THEN Unclear ELSE asked[ro]]
      /\ request' = [q \in Requests |-> [request[q] EXCEPT !.solo = FALSE]]
      /\ UNCHANGED <<raced, disarmed>>
  BY DEF SeedCommit
<1>2. \A ro \in Roles : grants[ro] \in {None} \cup SUBSET Perms
  BY DEF AccountsInv, AccountsType
<1>3. /\ \A ro \in Roles : Granted(ro) \in SUBSET Perms /\ (grants[ro] # None => grants[ro] = Granted(ro))
      /\ \A ro \in BUILTIN_ROLES : seeding.lacks[ro] \in SUBSET Perms
  BY <1>2 DEF Granted, AccountsInv, AccountsType, Seedings
<1>11. seeding' \in Seedings
  BY NotSeedingType DEF SeedCommit
<1>4. /\ grants' \in [Roles -> {None} \cup SUBSET Perms]
      /\ \A ro \in BUILTIN_ROLES : grants'[ro] \in SUBSET Perms /\ grants'[ro] # None
      /\ \A ro \in Roles : grants[ro] # None => grants'[ro] # None /\ grants[ro] \subseteq grants'[ro]
  <2>1. \A ro \in BUILTIN_ROLES : ro \in Roles /\ grants'[ro] = Granted(ro) \cup seeding.lacks[ro]
    BY <1>1, RolesAssumption
  <2>2. \A ro \in BUILTIN_ROLES : grants'[ro] \in SUBSET Perms /\ grants'[ro] # None
    BY <1>3, <2>1, NoneAssumption
  <2>3. \A ro \in Roles \ BUILTIN_ROLES : grants'[ro] = grants[ro]
    BY <1>1
  <2>4. \A ro \in Roles : grants'[ro] \in {None} \cup SUBSET Perms
    BY <1>2, <2>2, <2>3
  <2> QED BY <1>1, <1>3, <2>1, <2>2, <2>3, <2>4
<1>5. /\ account' \in [Users -> {None} \cup Accounts]
      /\ \A u \in Users : account[u] # None => account'[u] = account[u]
      /\ \A u \in Users : account'[u] # None => grants'[account'[u].role] # None
  <2>0. /\ account \in [Users -> {None} \cup Accounts] /\ Admin \in Users
        /\ \A u \in Users : account[u] # None => /\ grants[account[u].role] # None
                                                 /\ account[u].role \in Roles
    BY RolesAssumption DEF AccountsInv, AccountsType, Accounts
  <2>1. /\ [role |-> Manager, active |-> TRUE] \in Accounts
        /\ grants'[[role |-> Manager, active |-> TRUE].role] # None
    BY <1>4, RolesAssumption DEF Accounts
  <2> DEFINE new == [role |-> Manager, active |-> TRUE]
  <2> HIDE DEF new
  <2>2. new \in Accounts /\ grants'[new.role] # None
    BY <2>1 DEF new
  <2>3. account' = IF seeding.admin THEN [account EXCEPT ![Admin] = new] ELSE account
    BY <1>1 DEF new
  <2>4. \A u \in Users : account'[u] = account[u] \/ (account[u] = None /\ account'[u] = new)
    BY <1>1, <2>0, <2>3
  <2> QED BY <1>4, <2>0, <2>2, <2>3, <2>4
<1>6. ASSUME NEW q \in Requests
      PROVE  /\ request'[q] \in RequestStates /\ ~request'[q].solo
             /\ request'[q].pc = request[q].pc /\ request'[q].order = request[q].order
             /\ request'[q].by = request[q].by /\ request'[q].seen = request[q].seen
             /\ request'[q].gone = request[q].gone
  <2>1. request'[q] = [request[q] EXCEPT !.solo = FALSE] /\ request[q] \in RequestStates
    BY <1>1 DEF AccountsInv, AccountsType
  <2> QED BY <2>1 DEF RequestStates
<1>7. request' \in [Requests -> RequestStates]
  BY <1>1, <1>6
<1>8. RequestsSound'
  <2> SUFFICES ASSUME NEW q \in Requests PROVE Undisturbed(request[q])' /\ Prepared(request[q])'
    BY DEF RequestsSound
  <2>1. Undisturbed(request[q])'
    BY <1>6 DEF Undisturbed
  <2>2. Prepared(request[q])
    BY DEF AccountsInv, RequestsSound
  <2>3. request[q].pc = "commit" => KeysHeld(request[q])'
    <3> DEFINE w == request[q].order
    <3>1. request[q].pc = "commit" =>
            /\ w.op \in {"update_role", "create_user"} => w.role \in Roles
            /\ w.op = "update_user" => w.user \in Users /\ w.role \in Roles \cup {None}
      BY <2>2, OrdersAssumption DEF Prepared, Orders
    <3>2. \A u \in Users : account[u] # None => account'[u] # None
      BY <1>5
    <3> QED BY <1>4, <1>6, <2>2, <3>1, <3>2 DEF Prepared, KeysHeld
  <2>4. request[q].pc = "commit" => Guarded(request[q])'
    BY <1>6, <2>2 DEF Prepared, Guarded
  <2> QED BY <1>6, <2>1, <2>2, <2>3, <2>4 DEF Prepared
<1>9. asked' \in [Roles -> {None, Unclear} \cup SUBSET Perms] /\ RolesAsRequested'
  BY <1>1 DEF AccountsInv, AccountsType, RolesAsRequested
<1>10. LockoutHasCause'
  <2>1. CASE raced \/ disarmed
    BY <1>1, <2>1 DEF LockoutHasCause
  <2>2. CASE \E u \in Users : CanManage(u)
    <3>1. PICK u \in Users : CanManage(u)
      BY <2>2
    <3>2. /\ account[u] # None /\ account[u].active /\ account[u].role \in Roles
          /\ ManageUsers \in grants[account[u].role] /\ grants[account[u].role] # None
      BY <3>1 DEF CanManage, Holds, AccountsInv, AccountsType, Accounts
    <3>3. CanManage(u)'
      BY <1>4, <1>5, <3>2 DEF CanManage, Holds
    <3> QED BY <3>3 DEF LockoutHasCause
  <2> QED BY <2>1, <2>2 DEF AccountsInv, LockoutHasCause
<1> QED BY <1>4, <1>5, <1>7, <1>8, <1>9, <1>10, <1>11 DEF AccountsInv, AccountsType

LEMMA NextKeepsAccountsInv == AccountsInv /\ [Next]_vars => AccountsInv'
<1> SUFFICES ASSUME AccountsInv, [Next]_vars PROVE AccountsInv'
  OBVIOUS
<1>1. CASE UNCHANGED <<grants, account, request, asked, raced, disarmed>> /\ seeding' \in Seedings
  BY <1>1 DEF AccountsInv, AccountsType, RequestsSound, Undisturbed, Prepared, Guarded, KeysHeld,
              RolesAsRequested, LockoutHasCause, CanManage, Holds
<1>2. CASE AccountsNext
  <2>1. ASSUME NEW r \in Requests, RequestNext(r) PROVE AccountsInv'
    <3>1. ASSUME NEW u \in Users, Authorize(r, u) PROVE AccountsInv'
      BY <3>1, AuthorizeKeeps
    <3>2. ASSUME NEW o \in OrdersOf, Load(r, o) PROVE AccountsInv'
      BY <3>2, LoadKeeps
    <3>3. CASE Commit(r)
      BY <3>3, CommitKeeps
    <3>4. CASE CommitFails(r)
      <4>1. /\ request' = [request EXCEPT ![r] = Idle]
            /\ UNCHANGED <<grants, account, seeding, asked, raced, disarmed>>
        BY <3>4 DEF CommitFails
      <4>2. /\ request' \in [Requests -> RequestStates]
            /\ \A q \in Requests : request'[q] = request[q] \/ request'[q] = Idle
        BY <4>1, IdleRequest DEF AccountsInv, AccountsType
      <4> QED BY <4>1, <4>2, RequestKept, TablesKept
    <3> QED BY <2>1, <3>1, <3>2, <3>3, <3>4 DEF RequestNext
  <2>2. ASSUME NEW u \in Users, CreateDevice(u) \/ DeleteDevices(u) PROVE AccountsInv'
    BY <1>1, <2>2 DEF CreateDevice, DeleteDevices, AccountsInv, AccountsType
  <2>3. CASE SeedLoad \/ SeedFails
    BY <1>1, <2>3, SeedLoadType, NotSeedingType DEF SeedLoad, SeedFails
  <2> QED BY <1>2, <2>1, <2>2, <2>3, SeedKeeps DEF AccountsNext
<1>3. CASE UNCHANGED accountVars
  BY <1>1, <1>3 DEF accountVars, AccountsInv, AccountsType
<1> QED BY <1>2, <1>3 DEF Next, vars

(* Whoever works on users and roles at the same time: an account that may  *)
(* manage the others is left, unless overlapping requests or a manager who *)
(* took the permission from his own role have removed the last one.        *)
THEOREM LockoutsHaveACause == Spec => []LockoutHasCause
<1>1. AccountsInv => LockoutHasCause
  BY DEF AccountsInv
<1> QED BY <1>1, InitAccountsInv, NextKeepsAccountsInv, PTL DEF Spec

(* A role grants what the last request about it asked for, unless that     *)
(* request overlapped another commit or the seed has granted more.         *)
THEOREM RolesGrantWhatWasAsked == Spec => []RolesAsRequested
<1>1. AccountsInv => RolesAsRequested
  BY DEF AccountsInv
<1> QED BY <1>1, InitAccountsInv, NextKeepsAccountsInv, PTL DEF Spec

-----------------------------------------------------------------------------
(* The login guard.  What pruning leaves is what follows the first failure *)
(* that is fresh, and there is a first one.                                *)
Ages == 0 .. LOGIN_WINDOW + 1

LEMMA LeastIndex ==
  ASSUME NEW F \in SUBSET Nat, F # {}
  PROVE  \E n \in F : \A m \in F : n <= m
<1> DEFINE T == {1 .. n : n \in F}
<1>1. T \subseteq FiniteSubsetsOf(Nat) /\ T # {}
  <2>1. ASSUME NEW n \in F PROVE 1 .. n \in SUBSET Nat /\ IsFiniteSet(1 .. n)
    BY FS_Interval
  <2> QED BY <2>1 DEF FiniteSubsetsOf
<1>2. PICK s \in T : \A t \in T : <<t, s>> \notin StrictSubsetOrdering(Nat)
  <2> HIDE DEF T
  <2> QED BY <1>1, WFMin, FS_StrictSubsetOrderingWellFounded
<1>3. PICK n \in F : s = 1 .. n
  OBVIOUS
<1>4. ASSUME NEW m \in F, m < n PROVE FALSE
  <2> DEFINE a == 1 .. m
             b == 1 .. n
  <2>1. a \in T /\ s = b
    BY <1>3
  <2>2. a \in SUBSET Nat /\ b \in SUBSET Nat /\ a \subseteq b /\ n \in b /\ n \notin a
    BY <1>4
  <2> HIDE DEF a, b, T
  <2>3. <<a, b>> \in StrictSubsetOrdering(Nat)
    BY <2>2 DEF StrictSubsetOrdering
  <2> QED BY <1>2, <2>1, <2>3
<1> QED BY <1>4

(* Where the cut is, and what is left of the failures.                     *)
CutIsRight ==
  /\ FirstFresh \in 1 .. Len(failures) + 1
  /\ FirstFresh <= Len(failures) => Fresh(failures[FirstFresh])
  /\ \A i \in 1 .. FirstFresh - 1 : ~Fresh(failures[i])
  /\ Pruned \in Seq(Ages)
  /\ Len(Pruned) = Len(failures) - FirstFresh + 1
  /\ Len(Pruned) > 0 => Last(Pruned) = Last(failures)

LEMMA PrunedIsASuffix == failures \in Seq(Ages) => CutIsRight
<1> SUFFICES ASSUME failures \in Seq(Ages) PROVE CutIsRight
  OBVIOUS
<1> DEFINE F == {n \in 1 .. Len(failures) + 1 : n <= Len(failures) => Fresh(failures[n])}
<1>1. Len(failures) \in Nat /\ Len(failures) + 1 \in F /\ F \in SUBSET Nat
  OBVIOUS
<1>2. PICK least \in F : \A m \in F : least <= m
  <2> HIDE DEF F
  <2> QED BY <1>1, LeastIndex
<1>3. \E n \in 1 .. Len(failures) + 1 :
        /\ n <= Len(failures) => Fresh(failures[n])
        /\ \A i \in 1 .. n - 1 : ~Fresh(failures[i])
  BY <1>1, <1>2
<1>4. /\ FirstFresh \in 1 .. Len(failures) + 1
      /\ FirstFresh <= Len(failures) => Fresh(failures[FirstFresh])
      /\ \A i \in 1 .. FirstFresh - 1 : ~Fresh(failures[i])
  <2> HIDE DEF F
  <2> QED BY <1>3 DEF FirstFresh
<1>5. /\ Pruned \in Seq(Ages)
      /\ Len(Pruned) = Len(failures) - FirstFresh + 1
      /\ Len(Pruned) > 0 => Last(Pruned) = Last(failures)
  <2> DEFINE f == FirstFresh
  <2>1. f \in 1 .. Len(failures) + 1 /\ Pruned = SubSeq(failures, f, Len(failures))
    BY <1>4 DEF Pruned
  <2> HIDE DEF f
  <2>2. Pruned \in Seq(Ages) /\ Len(Pruned) = Len(failures) - f + 1
    BY <1>1, <2>1
  <2>3. Len(Pruned) > 0 => Pruned[Len(Pruned)] = failures[Len(failures)]
    BY <1>1, <2>1, <2>2
  <2> QED BY <2>2, <2>3 DEF Last, f
<1> QED BY <1>4, <1>5 DEF CutIsRight

LEMMA PrunedAfter == (failures \in Seq(Ages))' => CutIsRight'
BY PrunedIsASuffix, PTL

(* The failures that count and the attempts that may still add one stay    *)
(* below the limit and all the attempts together: an attempt gets in only  *)
(* below the limit, and to count it gives up its place.  A block began     *)
(* with an alert, or within the window of one, and both grow old together. *)
InProgress == {a \in Attempts : attempt[a] # "idle"}

GuardType ==
  /\ failures \in Seq(Ages)
  /\ alertAge \in {Never} \cup Ages
  /\ attempt \in [Attempts -> {"idle", "checked", "audited"}]

Taken == Len(Pruned) + Cardinality(InProgress)

Room == Taken <= MAX_FAILURES - 1 + Cardinality(Attempts)

Alerted == Blocked => alertAge # Never /\ alertAge - Last(failures) < LOGIN_WINDOW

GuardInv == GuardType /\ Room /\ Alerted

LEMMA AttemptsCounted ==
  ASSUME NEW T \in SUBSET Attempts
  PROVE  /\ Cardinality(Attempts) \in Nat /\ IsFiniteSet(T)
         /\ Cardinality(T) \in Nat /\ Cardinality(T) <= Cardinality(Attempts)
BY GuardAssumption, FS_Subset, FS_CardinalityType

LEMMA InProgressCounted ==
  /\ Cardinality(Attempts) \in Nat /\ IsFiniteSet(InProgress)
  /\ Cardinality(InProgress) \in Nat /\ Cardinality(InProgress) <= Cardinality(Attempts)
  /\ Cardinality(InProgress') \in Nat /\ Cardinality(InProgress') <= Cardinality(Attempts)
BY AttemptsCounted DEF InProgress

LEMMA OlderTogether ==
  ASSUME NEW x \in Ages, NEW y \in Ages, x - y < LOGIN_WINDOW
  PROVE  Older(x) \in Ages /\ Older(x) - Older(y) < LOGIN_WINDOW
<1>1. x \in Nat /\ y \in Nat /\ LOGIN_WINDOW \in Nat \ {0}
      /\ x <= LOGIN_WINDOW + 1 /\ y <= LOGIN_WINDOW + 1
  BY GuardAssumption DEF Ages
<1>2. CASE x > LOGIN_WINDOW
  BY <1>1, <1>2 DEF Older, Ages
<1>3. CASE x <= LOGIN_WINDOW /\ y > LOGIN_WINDOW
  BY <1>1, <1>3 DEF Older, Ages
<1>4. CASE x <= LOGIN_WINDOW /\ y <= LOGIN_WINDOW
  BY <1>1, <1>4 DEF Older, Ages
<1> QED BY <1>1, <1>2, <1>3, <1>4

LEMMA GuardUntouched ==
  ASSUME GuardInv, UNCHANGED <<failures, alertAge>>, GuardType', InProgress' = InProgress
  PROVE  GuardInv' /\ Taken' <= Taken
<1>1. Pruned' = Pruned
  BY DEF Pruned, FirstFresh, Fresh
<1>2. Taken' = Taken /\ Taken \in Nat
  BY <1>1, PrunedIsASuffix, InProgressCounted DEF GuardInv, GuardType, CutIsRight, Taken
<1> QED BY <1>1, <1>2 DEF GuardInv, Room, Alerted, Blocked

LEMMA InitGuardInv == Init => GuardInv
<1> SUFFICES ASSUME Init PROVE GuardInv
  OBVIOUS
<1>1. GuardType /\ Len(failures) = 0
  BY DEF Init, GuardType, Ages
<1>2. Len(Pruned) = 0
  BY <1>1, PrunedIsASuffix DEF CutIsRight, GuardType
<1> QED BY <1>1, <1>2, GuardAssumption, InProgressCounted DEF GuardInv, Room, Taken, Alerted, Blocked

(* Refused or admitted, an attempt only prunes.                            *)
LEMMA PruningKeepsGuard ==
  ASSUME GuardInv, NEW a \in Attempts, Admit(a) \/ Refuse(a)
  PROVE  GuardInv' /\ (Blocked => Taken' <= Taken)
<1>1. failures' = Pruned /\ alertAge' = alertAge
  BY DEF Admit, Refuse
<1>2. /\ Pruned \in Seq(Ages) /\ Len(Pruned)' <= Len(Pruned) /\ Len(Pruned)' \in Nat
      /\ Len(Pruned) \in Nat /\ (Len(Pruned) > 0 => Last(Pruned) = Last(failures))
  BY <1>1, PrunedIsASuffix, PrunedAfter DEF CutIsRight, GuardInv, GuardType
<1>3. GuardType'
  BY <1>1, <1>2 DEF GuardInv, GuardType, Admit, Refuse
<1>4. Room' /\ (Blocked => Taken' <= Taken)
  <2>1. CASE Admit(a)
    BY <1>2, <2>1, InProgressCounted, GuardAssumption DEF Admit, Blocked, Room, Taken
  <2>2. CASE Refuse(a)
    <3>1. InProgress' = InProgress
      BY <2>2 DEF Refuse, InProgress
    <3> QED BY <1>2, <3>1, InProgressCounted, GuardAssumption DEF GuardInv, Room, Taken
  <2> QED BY <2>1, <2>2
<1>5. Alerted'
  <2> SUFFICES ASSUME Blocked' PROVE alertAge' # Never /\ alertAge' - Last(failures') < LOGIN_WINDOW
    BY DEF Alerted
  <2>1. Blocked /\ Len(Pruned) > 0
    BY <1>2, GuardAssumption DEF Blocked
  <2> QED BY <1>1, <1>2, <2>1 DEF GuardInv, Alerted
<1> QED BY <1>3, <1>4, <1>5 DEF GuardInv

LEMMA CountKeepsGuard ==
  ASSUME GuardInv, NEW a \in Attempts, Count(a)
  PROVE  GuardInv' /\ Taken' <= Taken
<1>1. /\ failures' = Append(Pruned, 0) /\ Pruned \in Seq(Ages)
      /\ attempt[a] = "audited" /\ attempt' = [attempt EXCEPT ![a] = "idle"]
  BY PrunedIsASuffix DEF CutIsRight, GuardInv, GuardType, Count
<1>2. /\ Len(failures') = Len(Pruned) + 1 /\ Last(failures') = 0
      /\ failures' \in Seq(Ages)
  BY <1>1, GuardAssumption DEF Last, Ages
<1>3. Len(Pruned)' <= Len(Pruned) + 1 /\ Len(Pruned)' \in Nat /\ Len(Pruned) \in Nat
  BY <1>1, <1>2, PrunedAfter DEF CutIsRight
<1>4. alertAge' = IF Len(failures') >= MAX_FAILURES
                     /\ (alertAge = Never \/ alertAge >= LOGIN_WINDOW)
                  THEN 0 ELSE alertAge
  BY DEF Count
<1>5. GuardType'
  BY <1>1, <1>2, <1>4, GuardAssumption DEF GuardInv, GuardType, Ages
<1>6. Room' /\ Taken' <= Taken
  <2>1. InProgress' = InProgress \ {a} /\ a \in InProgress
    BY <1>1 DEF GuardInv, GuardType, InProgress
  <2>2. Cardinality(InProgress') = Cardinality(InProgress) - 1
    BY <2>1, InProgressCounted, FS_RemoveElement
  <2>3. Taken' <= Taken /\ Taken' \in Nat /\ Taken \in Nat
    BY <1>3, <2>2, InProgressCounted DEF Taken
  <2> QED BY <2>3, InProgressCounted, GuardAssumption DEF GuardInv, Room
<1>7. Alerted'
  <2> SUFFICES ASSUME Len(Pruned)' >= MAX_FAILURES
               PROVE  alertAge' # Never /\ alertAge' - Last(failures') < LOGIN_WINDOW
    BY DEF Alerted, Blocked
  <2>1. Len(failures') >= MAX_FAILURES
    BY <1>1, <1>2, <1>3, GuardAssumption
  <2> QED BY <1>2, <1>4, <2>1, GuardAssumption DEF GuardInv, GuardType, Ages, Never
<1> QED BY <1>5, <1>6, <1>7 DEF GuardInv

(* Time prunes no less: what is stale stays so.                            *)
LEMMA TickKeepsGuard == ASSUME GuardInv, GuardTick PROVE GuardInv' /\ Taken' <= Taken
<1>1. /\ failures' = [i \in DOMAIN failures |-> Older(failures[i])]
      /\ alertAge' = IF alertAge = Never THEN Never ELSE Older(alertAge)
      /\ attempt' = attempt /\ failures \in Seq(Ages)
  BY DEF GuardInv, GuardType, GuardTick
<1>2. /\ failures' \in Seq(Ages) /\ Len(failures') = Len(failures) /\ Len(failures) \in Nat
      /\ \A i \in 1 .. Len(failures) : failures[i] \in Ages /\ failures'[i] = Older(failures[i])
  <2>1. \A i \in 1 .. Len(failures) : failures[i] \in Ages /\ Older(failures[i]) \in Ages
    <3>1. \A i \in 1 .. Len(failures) : failures[i] \in Ages
      BY <1>1
    <3>2. \A age \in Ages : Older(age) \in Ages
      BY GuardAssumption DEF Ages, Older
    <3> QED BY <3>1, <3>2
  <2>2. failures' \in [1 .. Len(failures) -> Ages]
    BY <1>1, <2>1
  <2> QED BY <1>1, <2>1, <2>2
<1>3. Len(Pruned)' <= Len(Pruned) /\ Len(Pruned)' \in Nat /\ Len(Pruned) \in Nat
  <2>1. FirstFresh <= FirstFresh'
    <3> SUFFICES ASSUME FirstFresh' < FirstFresh PROVE FALSE
      BY <1>1, <1>2, PrunedIsASuffix, PrunedAfter DEF CutIsRight
    <3>1. FirstFresh' \in 1 .. FirstFresh - 1 /\ FirstFresh' \in 1 .. Len(failures)
      BY <1>1, <1>2, PrunedIsASuffix, PrunedAfter DEF CutIsRight
    <3>2. ~Fresh(failures[FirstFresh']) /\ Fresh(failures'[FirstFresh'])
      BY <1>1, <1>2, <3>1, PrunedIsASuffix, PrunedAfter DEF CutIsRight
    <3> QED BY <1>2, <3>1, <3>2, GuardAssumption DEF Fresh, Older, Ages
  <2> QED BY <1>1, <1>2, <2>1, PrunedIsASuffix, PrunedAfter DEF CutIsRight
<1>4. alertAge' \in {Never} \cup Ages
  BY <1>1, GuardAssumption DEF GuardInv, GuardType, Ages, Older, Never
<1>5. GuardType'
  BY <1>1, <1>2, <1>4 DEF GuardInv, GuardType
<1>6. Room' /\ Taken' <= Taken
  <2>1. InProgress' = InProgress
    BY <1>1 DEF InProgress
  <2> QED BY <1>1, <1>3, <2>1, InProgressCounted, GuardAssumption DEF GuardInv, Room, Taken
<1>7. Alerted'
  <2> SUFFICES ASSUME Len(Pruned)' >= MAX_FAILURES
               PROVE  alertAge' # Never /\ alertAge' - Last(failures') < LOGIN_WINDOW
    BY DEF Alerted, Blocked
  <2>1. Len(Pruned) >= MAX_FAILURES /\ Len(failures) \in Nat \ {0}
    BY <1>1, <1>2, <1>3, PrunedIsASuffix, GuardAssumption DEF CutIsRight
  <2>2. Last(failures) \in Ages /\ Last(failures') = Older(Last(failures))
    BY <1>2, <2>1 DEF Last
  <2>3. alertAge \in Ages /\ alertAge - Last(failures) < LOGIN_WINDOW
    BY <2>1 DEF GuardInv, GuardType, Alerted, Blocked
  <2>4. alertAge' = Older(alertAge) /\ alertAge' # Never
    BY <1>1, <2>3, GuardAssumption DEF Ages, Never, Older
  <2> QED BY <2>2, <2>3, <2>4, OlderTogether
<1> QED BY <1>5, <1>6, <1>7 DEF GuardInv

LEMMA NextKeepsGuardInv == GuardInv /\ [Next]_vars => GuardInv' /\ (Blocked => Taken' <= Taken)
<1> SUFFICES ASSUME GuardInv, [Next]_vars PROVE GuardInv' /\ (Blocked => Taken' <= Taken)
  OBVIOUS
<1>1. ASSUME NEW a \in Attempts, AttemptNext(a) PROVE GuardInv' /\ (Blocked => Taken' <= Taken)
  <2>1. CASE Admit(a) \/ Refuse(a)
    BY <2>1, PruningKeepsGuard
  <2>2. CASE Fail(a)
    <3>1. /\ UNCHANGED <<failures, alertAge>>
          /\ attempt' \in [Attempts -> {"idle", "checked", "audited"}]
          /\ InProgress' = InProgress
      BY <2>2 DEF GuardInv, GuardType, InProgress, Fail
    <3> QED BY <3>1, GuardUntouched DEF GuardInv, GuardType
  <2>3. CASE Count(a)
    BY <2>3, CountKeepsGuard
  <2>4. CASE Succeed(a)
    <3>1. /\ failures' = <<>> /\ alertAge' = Never
          /\ attempt' \in [Attempts -> {"idle", "checked", "audited"}]
          /\ InProgress' \subseteq InProgress
      BY <2>4 DEF GuardInv, GuardType, Succeed, InProgress
    <3>2. GuardType' /\ Len(failures') = 0
      BY <3>1 DEF GuardType
    <3>3. Len(Pruned)' = 0
      BY <3>2, PrunedAfter DEF CutIsRight, GuardType
    <3>4. Cardinality(InProgress') <= Cardinality(InProgress)
      BY <3>1, InProgressCounted, FS_Subset
    <3>5. Taken' <= Taken
      BY <3>3, <3>4, InProgressCounted, PrunedIsASuffix
         DEF Taken, GuardInv, GuardType, CutIsRight
    <3> QED BY <3>2, <3>3, <3>5, GuardAssumption, InProgressCounted
            DEF GuardInv, Room, Taken, Alerted, Blocked
  <2> QED BY <1>1, <2>1, <2>2, <2>3, <2>4 DEF AttemptNext
<1>2. CASE LoginNext
  BY <1>1, <1>2, TickKeepsGuard DEF LoginNext
<1>3. CASE UNCHANGED guardVars
  <2>1. GuardType' /\ InProgress' = InProgress
    BY <1>3 DEF guardVars, GuardInv, GuardType, InProgress
  <2> QED BY <1>3, <2>1, GuardUntouched DEF guardVars
<1> QED BY <1>2, <1>3 DEF Next, vars

(* However many log in at once, the failures of an address in a window go  *)
(* beyond the limit by no more than the other attempts in progress when it *)
(* was reached, and no block is silent.                                    *)
THEOREM FailuresAreBounded == Spec => []GuardHolds
<1>1. GuardInv => GuardHolds
  <2> SUFFICES ASSUME GuardInv PROVE GuardHolds
    OBVIOUS
  <2>1. Len(Pruned) \in Nat
    BY PrunedIsASuffix DEF CutIsRight, GuardInv, GuardType
  <2> QED BY <2>1, InProgressCounted, GuardAssumption
          DEF GuardInv, Room, Taken, Alerted, GuardHolds
<1> QED BY <1>1, InitGuardInv, NextKeepsGuardInv, PTL DEF Spec

(* The safety half of BlockDrains: while an address is blocked nothing that *)
(* is tried adds to its failures but the attempts that had been let in      *)
(* before, and each of them once.                                           *)
BlockOnlyDrains == [][Blocked => Taken' <= Taken]_vars

(* Trying on while being refused does not make a block any longer, however *)
(* many logins are in progress.                                            *)
THEOREM RefusalsDoNotProlong == Spec => BlockOnlyDrains
<1>1. GuardInv /\ [Next]_vars => [Blocked => Taken' <= Taken]_vars
  BY NextKeepsGuardInv
<1> QED BY <1>1, InitGuardInv, NextKeepsGuardInv, PTL DEF Spec, BlockOnlyDrains

-----------------------------------------------------------------------------
(* The web shell: how far a handler got says what the audit trail was told.*)
LEMMA AppendedIs ==
  ASSUME NEW S, NEW s \in Seq(S), NEW b \in S, NEW q \in Seq(S)
  PROVE  Len(s) = 1 /\ Len(q) = 2 /\ q[1] = s[1] /\ q[2] = b => Append(s, b) = q
<1> DEFINE p == Append(s, b)
<1>1. /\ p \in Seq(S) /\ Len(p) = Len(s) + 1
      /\ \A i \in 1 .. Len(s) : p[i] = s[i]
      /\ p[Len(s) + 1] = b
  OBVIOUS
<1> HIDE DEF p
<1>2. ASSUME Len(s) = 1, Len(q) = 2, q[1] = s[1], q[2] = b PROVE p = q
  <2>1. ASSUME NEW i \in 1 .. Len(p) PROVE p[i] = q[i]
    <3>1. CASE i = 1
      BY <1>1, <1>2, <3>1
    <3>2. CASE i = 2
      BY <1>1, <1>2, <3>2
    <3> QED BY <1>1, <1>2, <3>1, <3>2
  <2>2. Len(p) = Len(q)
    BY <1>1, <1>2
  <2> QED BY <1>1, <2>1, <2>2, SeqEqual
<1> QED BY <1>2 DEF p

LEMMA BothRecords == Append(<<"open">>, "close") = <<"open", "close">>
<1>1. ASSUME NEW S, NEW a \in S, NEW b \in S PROVE Append(<<a>>, b) = <<a, b>>
  <2>1. <<a>> \in Seq(S) /\ Len(<<a>>) = 1 /\ <<a>>[1] = a
    OBVIOUS
  <2>2. <<a, b>> \in Seq(S) /\ Len(<<a, b>>) = 2 /\ <<a, b>>[1] = a /\ <<a, b>>[2] = b
    OBVIOUS
  <2> QED BY <2>1, <2>2, AppendedIs
<1>2. "open" \in {"open", "close"} /\ "close" \in {"open", "close"}
  OBVIOUS
<1> QED BY <1>1, <1>2

Recorded(s) ==
  /\ shell[s] \in Shell
  /\ shell[s].pc \in {"none", "open"} => shell[s].told = <<>> /\ shell[s].kept = {}
  /\ shell[s].pc \in {"first", "connect", "process", "bridge", "close"} =>
       shell[s].told = <<"open">> /\ "close" \notin shell[s].kept
  /\ shell[s].pc \in {"process", "bridge", "close"} => shell[s].reached
  /\ shell[s].reached => shell[s].pc \in {"process", "bridge", "close", "ended"}
  /\ shell[s].pc = "ended" =>
       /\ shell[s].told = IF shell[s].reached THEN <<"open", "close">> ELSE <<"open">>
       /\ "close" \in shell[s].kept => shell[s].reached

ShellsInv == shell \in [Shells -> Shell] /\ \A s \in Shells : Recorded(s)

LEMMA InitShellsInv == Init => ShellsInv
<1>1. /\ NoShell \in Shell /\ NoShell.pc = "none" /\ NoShell.told = <<>>
      /\ NoShell.kept = {} /\ ~NoShell.reached
  BY DEF NoShell, Shell
<1> QED BY <1>1 DEF Init, ShellsInv, Recorded

LEMMA ShellBecomes ==
  ASSUME ShellsInv, NEW s \in Shells, NEW h \in Shell, shell' = [shell EXCEPT ![s] = h],
         Recorded(s)'
  PROVE  ShellsInv'
<1>1. shell' \in [Shells -> Shell] /\ \A t \in Shells \ {s} : shell'[t] = shell[t]
  BY DEF ShellsInv
<1> QED BY <1>1 DEF ShellsInv, Recorded

(* Where the handler goes on says what it told.                            *)
LEMMA GoesOn ==
  ASSUME ShellsInv, NEW s \in Shells,
         NEW next \in {"open", "connect", "ended", "bridge", "close"},
         shell' = [shell EXCEPT ![s].pc = next],
         \/ shell[s].pc = "none" /\ next = "open"
         \/ shell[s].pc = "first" /\ next \in {"connect", "ended"}
         \/ shell[s].pc = "connect" /\ next = "ended"
         \/ shell[s].pc = "process" /\ next \in {"bridge", "close"}
         \/ shell[s].pc = "bridge" /\ next = "close"
  PROVE  ShellsInv'
<1> DEFINE x == [shell[s] EXCEPT !.pc = next]
<1>1. shell[s] \in Shell /\ Recorded(s) /\ shell \in [Shells -> Shell]
  BY DEF ShellsInv
<1>2. x \in Shell /\ shell' = [shell EXCEPT ![s] = x]
  BY <1>1 DEF Shell
<1>3. shell'[s] = x
  BY <1>1, <1>2
<1>4. Recorded(s)'
  BY <1>1, <1>2, <1>3 DEF Recorded, Shell
<1> QED BY <1>2, <1>4, ShellBecomes

LEMMA ShellNextKeeps ==
  ASSUME ShellsInv, NEW s \in Shells, ShellNext(s)
  PROVE  ShellsInv'
<1> DEFINE h == shell[s]
<1>1. h \in Shell /\ Recorded(s) /\ shell \in [Shells -> Shell]
  BY DEF ShellsInv
<1>2. CASE (\E u \in Users : Open(s, u)) \/ FirstFrame(s) \/ StartPumps(s) \/ NoProcess(s) \/ Unbridge(s)
  <2>1. CASE FirstFrame(s)
    <3> DEFINE next == IF h.browser THEN "connect" ELSE "ended"
    <3>1. shell' = [shell EXCEPT ![s].pc = next] /\ h.pc = "first"
      BY <2>1 DEF FirstFrame
    <3>2. next \in {"connect", "ended"}
      OBVIOUS
    <3> HIDE DEF next
    <3> QED BY <3>1, <3>2, GoesOn
  <2>2. CASE \E u \in Users : Open(s, u)
    BY <2>2, GoesOn DEF Open
  <2>3. CASE StartPumps(s)
    BY <2>3, GoesOn DEF StartPumps
  <2>4. CASE NoProcess(s) \/ Unbridge(s)
    BY <2>4, GoesOn DEF NoProcess, Unbridge
  <2> QED BY <1>2, <2>1, <2>2, <2>3, <2>4
<1>3. CASE RecordOpen(s)
  <2>1. PICK next \in {"first", "ended"}, lost \in BOOLEAN :
          shell' = [shell EXCEPT ![s].told = Append(@, "open"), ![s].pc = next,
                                 ![s].kept = IF lost THEN @ ELSE @ \cup {"open"}]
    BY <1>3 DEF RecordOpen, Record
  <2> DEFINE kept == IF lost THEN h.kept ELSE h.kept \cup {"open"}
             x == [h EXCEPT !.told = <<"open">>, !.pc = next, !.kept = kept]
  <2>2. h.pc = "open" /\ h.kept = {} /\ ~h.reached /\ Append(h.told, "open") = <<"open">>
    <3>1. h.pc = "open" /\ h.told = <<>> /\ h.kept = {} /\ ~h.reached
      BY <1>1, <1>3 DEF RecordOpen, Recorded
    <3>2. Append(<<>>, "open") = <<"open">>
      OBVIOUS
    <3> QED BY <3>1, <3>2
  <2>3. kept \in SUBSET {"open"}
    BY <2>2
  <2>4. shell' = [shell EXCEPT ![s] = [h EXCEPT !.told = Append(h.told, "open"), !.pc = next, !.kept = kept]]
    BY <2>1, Zenon
  <2>5. shell' = [shell EXCEPT ![s] = x]
    BY <2>2, <2>4
  <2> HIDE DEF kept
  <2>6. x \in Shell
    BY <1>1, <2>3 DEF Shell, Ends
  <2>7. shell'[s] = x
    BY <1>1, <2>5
  <2>8. Recorded(s)'
    BY <1>1, <2>2, <2>3, <2>6, <2>7 DEF Recorded, Shell
  <2> QED BY <2>5, <2>6, <2>8, ShellBecomes
<1>4. CASE RecordClose(s)
  <2>1. PICK lost \in BOOLEAN :
          shell' = [shell EXCEPT ![s].told = Append(@, "close"), ![s].pc = "ended",
                                 ![s].kept = IF lost THEN @ ELSE @ \cup {"close"}]
    BY <1>4 DEF RecordClose, Record
  <2> DEFINE kept == IF lost THEN h.kept ELSE h.kept \cup {"close"}
             x == [h EXCEPT !.told = <<"open", "close">>, !.pc = "ended", !.kept = kept]
  <2>2. h.pc = "close" /\ h.reached /\ Append(h.told, "close") = <<"open", "close">>
    <3>1. h.pc = "close" /\ h.told = <<"open">> /\ h.reached
      BY <1>1, <1>4 DEF RecordClose, Recorded
    <3> QED BY <3>1, BothRecords
  <2>3. kept \in SUBSET {"open", "close"}
    BY <1>1 DEF Shell, Ends
  <2>4. shell' = [shell EXCEPT ![s] = [h EXCEPT !.told = Append(h.told, "close"), !.pc = "ended", !.kept = kept]]
    BY <2>1, Zenon
  <2>5. shell' = [shell EXCEPT ![s] = x]
    BY <2>2, <2>4
  <2> HIDE DEF kept
  <2>6. x \in Shell
    BY <1>1, <2>3 DEF Shell, Ends
  <2>7. shell'[s] = x
    BY <1>1, <2>5
  <2>8. Recorded(s)'
    BY <1>1, <2>2, <2>6, <2>7 DEF Recorded, Shell
  <2> QED BY <2>5, <2>6, <2>8, ShellBecomes
<1>6. CASE Connect(s)
  <2>1. CASE shell' = [shell EXCEPT ![s].pc = "ended"]
    BY <1>6, <2>1, GoesOn DEF Connect
  <2>2. CASE shell' = [shell EXCEPT ![s].pc = "process", ![s].reached = TRUE]
    <3> DEFINE x == [h EXCEPT !.pc = "process", !.reached = TRUE]
    <3>1. x \in Shell /\ shell' = [shell EXCEPT ![s] = x] /\ h.pc = "connect"
      BY <1>1, <1>6, <2>2 DEF Connect, Shell
    <3>2. Recorded(s)'
      BY <1>1, <3>1 DEF Recorded, Shell
    <3> QED BY <3>1, <3>2, ShellBecomes
  <2> QED BY <1>6, <2>1, <2>2 DEF Connect
<1>7. CASE PumpIn(s) \/ PumpOut(s) \/ PumpBreaks(s)
  <2>1. PICK way \in {"in", "out"} : shell' = [shell EXCEPT ![s] = [h EXCEPT !.done = @ \cup {way}]]
    BY <1>1, <1>7 DEF PumpIn, PumpOut, PumpBreaks, PumpDone
  <2>2. [h EXCEPT !.done = @ \cup {way}] \in Shell
    BY <1>1 DEF Shell
  <2>3. Recorded(s)'
    BY <1>1, <2>1, <2>2 DEF Recorded, Shell
  <2> QED BY <2>1, <2>2, <2>3, ShellBecomes
<1>8. CASE BrowserLeaves(s) \/ DeviceHangsUp(s)
  <2>1. PICK x \in {[h EXCEPT !.browser = FALSE], [h EXCEPT !.device = FALSE]} :
          shell' = [shell EXCEPT ![s] = x]
    BY <1>1, <1>8 DEF BrowserLeaves, DeviceHangsUp
  <2>2. x \in Shell
    BY <1>1 DEF Shell
  <2>3. Recorded(s)'
    BY <1>1, <2>1, <2>2 DEF Recorded, Shell
  <2> QED BY <2>1, <2>2, <2>3, ShellBecomes
<1> QED BY <1>2, <1>3, <1>4, <1>6, <1>7, <1>8 DEF ShellNext, ShellStep

LEMMA NextKeepsShellsInv == ShellsInv /\ [Next]_vars => ShellsInv'
<1> SUFFICES ASSUME ShellsInv, [Next]_vars PROVE ShellsInv'
  OBVIOUS
<1>1. CASE UNCHANGED shell
  BY <1>1 DEF ShellsInv, Recorded
<1>2. CASE \E s \in Shells : ShellNext(s)
  BY <1>2, ShellNextKeeps
<1> QED BY <1>1, <1>2 DEF Next, vars

(* A shell that has ended, however it ended, has told the audit trail of   *)
(* its opening, once and first, and of its closing exactly if it reached   *)
(* its device; so a record is missing only because it could not be written.*)
(* What is on record is true: a closing is of a session that was there and *)
(* has ended.                                                              *)
EndsAreRecorded ==
  \A s \in Shells :
    /\ shell[s].pc = "ended" =>
         shell[s].told = IF shell[s].reached THEN <<"open", "close">> ELSE <<"open">>
    /\ "close" \in shell[s].kept => shell[s].pc = "ended" /\ shell[s].reached

(* The safety half of ShellEnds, for any shells, devices that stall and    *)
(* records that are lost.                                                  *)
THEOREM ShellsLeaveRecords == Spec => []EndsAreRecorded
<1>1. ShellsInv => EndsAreRecorded
  BY DEF ShellsInv, Recorded, EndsAreRecorded, Shell
<1> QED BY <1>1, InitShellsInv, NextKeepsShellsInv, PTL DEF Spec

-----------------------------------------------------------------------------
(* The rest of the types: an owner of devices cannot be deleted, not even  *)
(* by a request that tested before he got his first one.                   *)
Existing == {u \in Users : account[u] # None}

CountsInv ==
  /\ crowd \in Crowds
  /\ owners \subseteq Existing
  /\ commits \in 0 .. MaxCommits /\ raced \in BOOLEAN /\ disarmed \in BOOLEAN

LEMMA InitCountsInv == Init => CountsInv
<1> SUFFICES ASSUME Init PROVE CountsInv
  OBVIOUS
<1>1. crowd \in Crowds /\ owners = {} /\ commits = 0 /\ raced = FALSE /\ disarmed = FALSE
  BY DEF Init
<1>2. 0 \in 0 .. MaxCommits
  BY NoneAssumption
<1> QED BY <1>1, <1>2 DEF CountsInv

LEMMA AccountsSteps ==
  ASSUME AccountsNext
  PROVE  \/ \E r \in Requests : Commit(r)
         \/ SeedCommit
         \/ \E u \in Users : CreateDevice(u) \/ DeleteDevices(u)
         \/ UNCHANGED <<owners, account, commits, raced, disarmed>>
<1>1. ASSUME NEW r \in Requests, RequestNext(r), ~Commit(r)
      PROVE  UNCHANGED <<owners, account, commits, raced, disarmed>>
  <2>1. ASSUME NEW u \in Users, Authorize(r, u)
        PROVE  UNCHANGED <<owners, account, commits, raced, disarmed>>
    BY <2>1 DEF Authorize
  <2>2. ASSUME NEW o \in OrdersOf, Load(r, o)
        PROVE  UNCHANGED <<owners, account, commits, raced, disarmed>>
    BY <2>2 DEF Load
  <2>3. CASE CommitFails(r)
    BY <2>3 DEF CommitFails
  <2> QED BY <1>1, <2>1, <2>2, <2>3 DEF RequestNext
<1>2. ASSUME SeedLoad \/ SeedFails
      PROVE  UNCHANGED <<owners, account, commits, raced, disarmed>>
  BY <1>2 DEF SeedLoad, SeedFails
<1> QED BY <1>1, <1>2 DEF AccountsNext

LEMMA OwnersKept ==
  ASSUME AccountsInv, owners \subseteq Existing, [Next]_vars
  PROVE  owners' \subseteq Existing'
<1>1. ASSUME NEW r \in Requests, Commit(r) PROVE owners' \subseteq Existing'
  <2> SUFFICES ASSUME NEW u \in owners PROVE u \in Users /\ account'[u] # None
    BY <1>1 DEF Commit, Existing
  <2>1. u \in Users /\ account[u] # None
    BY DEF Existing
  <2>2. account'[u] = None => /\ request[r].order.op = "delete_user"
                              /\ u = request[r].order.user
    BY <1>1, <2>1, RoleCommit, UserCommit DEF TablesSound
  <2>3. Accepted(request[r]) /\ account' = AccountAfter(request[r])
    BY <1>1, Committing
  <2>4. CASE request[r].order.op = "delete_user" /\ u = request[r].order.user
    BY <2>1, <2>3, <2>4 DEF Accepted, AccountAfter
  <2> QED BY <2>1, <2>2, <2>4
<1>2. CASE SeedCommit
  <2>1. owners' = owners
        /\ account' \in {account, [account EXCEPT ![Admin] = [role |-> Manager, active |-> TRUE]]}
    BY <1>2 DEF SeedCommit
  <2>2. [role |-> Manager, active |-> TRUE] # None
    <3>1. [role |-> Manager, active |-> TRUE] \in [role: Roles, active: BOOLEAN]
      BY RolesAssumption
    <3> QED BY <3>1, NoneAssumption
  <2> QED BY <2>1, <2>2 DEF Existing, AccountsInv, AccountsType
<1>3. ASSUME NEW u \in Users, CreateDevice(u) \/ DeleteDevices(u)
      PROVE  owners' \subseteq Existing'
  BY <1>3 DEF CreateDevice, DeleteDevices, Existing
<1>4. CASE UNCHANGED <<owners, account>>
  BY <1>4 DEF Existing
<1>5. CASE AccountsNext
  BY <1>1, <1>2, <1>3, <1>4, <1>5, AccountsSteps
<1> QED BY <1>4, <1>5 DEF Next, vars, accountVars

LEMMA NextKeepsCountsInv == AccountsInv /\ CountsInv /\ [Next]_vars => CountsInv'
<1> SUFFICES ASSUME AccountsInv, CountsInv, [Next]_vars PROVE CountsInv'
  OBVIOUS
<1>1. owners' \subseteq Existing' /\ crowd' = crowd
  BY OwnersKept DEF CountsInv, Next, vars
<1>2. /\ commits' \in 0 .. MaxCommits
      /\ raced' \in BOOLEAN /\ disarmed' \in BOOLEAN
  <2>0. MaxCommits \in Nat /\ commits \in 0 .. MaxCommits
        /\ raced \in BOOLEAN /\ disarmed \in BOOLEAN
    BY NoneAssumption DEF CountsInv
  <2>1. CASE UNCHANGED <<commits, raced, disarmed>>
    BY <2>0, <2>1
  <2>2. CASE commits < MaxCommits /\ commits' = commits + 1 /\ UNCHANGED <<raced, disarmed>>
    BY <2>0, <2>2
  <2>3. ASSUME NEW r \in Requests, Commit(r)
        PROVE  commits' \in 0 .. MaxCommits /\ raced' \in BOOLEAN /\ disarmed' \in BOOLEAN
    <3>1. commits < MaxCommits /\ commits' = commits + 1
      BY <2>3 DEF Commit
    <3>2. raced' \in BOOLEAN /\ disarmed' \in BOOLEAN
      BY <2>3 DEF Commit
    <3> QED BY <2>0, <3>1, <3>2
  <2>4. CASE SeedCommit \/ \E u \in Users : CreateDevice(u) \/ DeleteDevices(u)
    BY <2>2, <2>4 DEF SeedCommit, CreateDevice, DeleteDevices
  <2>5. CASE AccountsNext
    BY <2>1, <2>3, <2>4, <2>5, AccountsSteps
  <2> QED BY <2>1, <2>5 DEF Next, vars, accountVars
<1> QED BY <1>1, <1>2 DEF CountsInv

(* The types of the gateway's tables and handlers, and the foreign keys of *)
(* the accounts and of the devices' owners.                                *)
THEOREM AccessTypeCorrect == Spec => []TypeOK
<1>1. AccountsInv /\ CountsInv /\ GuardInv /\ ShellsInv => TypeOK
  <2> SUFFICES ASSUME AccountsInv, CountsInv, GuardInv, ShellsInv PROVE TypeOK
    OBVIOUS
  <2>1. \A r \in Requests :
          /\ request[r].pc \in {"idle", "load", "commit"}
          /\ request[r].pc = "commit" => request[r].order \in Orders
    BY OrdersAssumption DEF AccountsInv, AccountsType, RequestStates, RequestsSound, Prepared
  <2> QED BY <2>1 DEF TypeOK, AccountsInv, AccountsType, CountsInv, Existing,
                      GuardInv, GuardType, Ages, ShellsInv
<1> QED
  BY <1>1, InitAccountsInv, NextKeepsAccountsInv, InitCountsInv, NextKeepsCountsInv,
     InitGuardInv, NextKeepsGuardInv, InitShellsInv, NextKeepsShellsInv, PTL DEF Spec

=============================================================================
