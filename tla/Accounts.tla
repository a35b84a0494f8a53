------------------------------ MODULE Accounts ------------------------------
(***************************************************************************)
(* Users, roles and permissions: the request handlers of the admin panel   *)
(* (api/routes/admin.py) behind require_permission (api/deps.py), and      *)
(* seed.py, which runs at every start of an API gateway.  A request is     *)
(* three transactions' worth of reading that no lock protects: it loads    *)
(* its author (Authorize), loads what it is about and tests the guards     *)
(* (Load), and commits (Commit).  Several managers work at the same time.  *)
(*                                                                         *)
(* The unit of work writes differences: against the row, or the set of     *)
(* permissions, that the request loaded and not against what is there.     *)
(***************************************************************************)
EXTENDS Integers, FiniteSets

CONSTANTS
  Users, Roles, Perms,
  None,          \* no such row, or a field that a request leaves out
  ManageUsers,   \* the permission manage_users
  Manager,       \* the role manager
  Defaults,      \* DEFAULT_ROLE_PERMISSIONS: its domain are the BUILTIN_ROLES
  Admin,         \* the user DEFAULT_MANAGER_EMAIL
  Requests,      \* the requests that may be in progress at the same time
  Unclear,       \* observer's value: nobody has asked for these permissions
  MaxCommits     \* bound of the model on commits

BUILTIN_ROLES == DOMAIN Defaults

ASSUME RolesAssumption ==
  /\ Admin \in Users /\ Manager \in BUILTIN_ROLES /\ BUILTIN_ROLES \subseteq Roles
  /\ ManageUsers \in Perms
  /\ Defaults \in [BUILTIN_ROLES -> SUBSET Perms] /\ Defaults[Manager] = Perms
ASSUME NoneAssumption ==
  /\ None \notin Users \cup Roles \cup BOOLEAN
  /\ None \notin [role: Roles, active: BOOLEAN]
  /\ \A ps \in SUBSET Perms : None # ps /\ Unclear # ps
  /\ Unclear # None /\ MaxCommits \in Nat

VARIABLES
  grants,    \* tables roles, role_permissions: None, or the permissions
  account,   \* table users: None, or role and is_active
  owners,    \* users with devices: devices.created_by
  request,   \* the requests in progress
  seeding,   \* seed.py in progress: what it has found missing
  commits,   \* how many transactions have committed
  asked,     \* observer: what the last request about a role asked for, or
             \* Unclear if it overlapped a commit or the seed added to it
  raced,     \* observer: a request that overlapped another one has committed
  disarmed   \* observer: somebody took manage_users from his own role

accountVars ==
  <<grants, account, owners, request, seeding, commits, asked, raced, disarmed>>

Accounts == [role: Roles, active: BOOLEAN]

(* What a request can be about: one field for every argument of a handler. *)
Orders ==
  [op: {"create_role", "update_role", "delete_role",
        "create_user", "update_user", "delete_user"},
   role: Roles \cup {None}, perms: {None} \cup SUBSET Perms,
   user: Users \cup {None}, active: BOOLEAN \cup {None}]

NoOrder == [op |-> "none", role |-> None, perms |-> None,
            user |-> None, active |-> None]

Idle == [pc |-> "idle", by |-> None, order |-> NoOrder,
         mine |-> [role |-> None, perms |-> {}], seen |-> None, gone |-> {},
         solo |-> TRUE]

Granted(ro) == IF grants[ro] = None THEN {} ELSE grants[ro]

Seedings == [pc: {"idle", "commit"}, admin: BOOLEAN,
             lacks: [BUILTIN_ROLES -> SUBSET Perms]]

NotSeeding == [pc |-> "idle", admin |-> FALSE, lacks |-> [ro \in BUILTIN_ROLES |-> {}]]

Holds(u, p) ==
  account[u] # None /\ account[u].active /\ p \in grants[account[u].role]

CanManage(u) == Holds(u, ManageUsers)

Unassigned(ro) == \A u \in Users : account[u] # None => account[u].role # ro

-----------------------------------------------------------------------------
(* get_current_user and require_permission.  A token only names its user,  *)
(* so what counts is the row.  The session keeps the author's role with    *)
(* its permissions: a later query for the same role does not refresh them. *)
Authorize(r, u) ==
  /\ request[r].pc = "idle"
  /\ CanManage(u)
  /\ request' = [request EXCEPT ![r] =
                   [Idle EXCEPT !.pc = "load", !.by = u,
                      !.mine = [role |-> account[u].role,
                                perms |-> grants[account[u].role]]]]
  /\ UNCHANGED <<grants, account, owners, seeding, commits, asked, raced, disarmed>>

(* The early returns of the handlers, as the condition to get past them.   *)
Fault_SelfAllowed(o, by) ==
  CASE o.op = "create_role" -> grants[o.role] = None
    [] o.op = "update_role" -> grants[o.role] # None /\ o.role # Manager
    [] o.op = "delete_role" ->
         grants[o.role] # None /\ o.role \notin BUILTIN_ROLES /\ Unassigned(o.role)
    [] o.op = "create_user" -> account[o.user] = None /\ grants[o.role] # None
    [] o.op = "update_user" ->
         /\ account[o.user] # None
         /\ o.role # None => grants[o.role] # None
    [] o.op = "delete_user" -> account[o.user] # None /\ o.user \notin owners

Passes(o, by) ==
  CASE o.op = "create_role" -> grants[o.role] = None
    [] o.op = "update_role" -> grants[o.role] # None /\ o.role # Manager
    [] o.op = "delete_role" ->
         grants[o.role] # None /\ o.role \notin BUILTIN_ROLES /\ Unassigned(o.role)
    [] o.op = "create_user" -> account[o.user] = None /\ grants[o.role] # None
    [] o.op = "update_user" ->
         /\ account[o.user] # None
         /\ o.role # None => o.user # by /\ grants[o.role] # None
         /\ o.active # None => o.user # by
    [] o.op = "delete_user" ->
         o.user # by /\ account[o.user] # None /\ o.user \notin owners

(* What the handler has loaded of the row it is going to change.           *)
Loaded(o, mine) ==
  CASE o.op = "update_role" ->
         IF o.role = mine.role THEN mine.perms ELSE grants[o.role]
    [] o.op = "update_user" -> account[o.user]
    [] OTHER -> None

(* The handler reads and tests: on to the commit, or an early return.      *)
Load(r, o) ==
  LET q == request[r] IN
  /\ q.pc = "load"
  /\ request' = [request EXCEPT ![r] =
                   IF Passes(o, q.by)
                   THEN [q EXCEPT !.pc = "commit", !.order = o, !.seen = Loaded(o, q.mine)]
                   ELSE Idle]
  /\ UNCHANGED <<grants, account, owners, seeding, commits, asked, raced, disarmed>>

-----------------------------------------------------------------------------
(* The rows after the commit of request q.  A row that it loaded and that  *)
(* was deleted since (gone) is not there to be deleted a second time, and  *)
(* a new row of the same name is another one.                              *)

Fault_OnlyGrants(q) ==
  LET o == q.order IN
  CASE o.op = "create_role" -> [grants EXCEPT ![o.role] = o.perms]
    [] o.op = "update_role" -> [grants EXCEPT ![o.role] = @ \cup o.perms]
    [] o.op = "delete_role" -> [grants EXCEPT ![o.role] = None]
    [] OTHER -> grants

GrantsAfter(q) ==
  LET o == q.order IN
  CASE o.op = "create_role" -> [grants EXCEPT ![o.role] = o.perms]
    [] o.op = "update_role" ->
         [grants EXCEPT ![o.role] = (@ \ (q.seen \ o.perms)) \cup (o.perms \ q.seen)]
    [] o.op = "delete_role" /\ o.role \notin q.gone -> [grants EXCEPT ![o.role] = None]
    [] OTHER -> grants

(* The column gets value if the request names it and it is not what was    *)
(* loaded, and else keeps what others may have written.                    *)
Writes(value, loaded) == value # None /\ value # loaded

AccountAfter(q) ==
  LET o == q.order IN
  CASE o.op = "create_user" ->
         [account EXCEPT ![o.user] = [role |-> o.role, active |-> TRUE]]
    [] o.op = "update_user" ->
         [account EXCEPT ![o.user] =
            [role |-> IF Writes(o.role, q.seen.role) THEN o.role ELSE @.role,
             active |-> IF Writes(o.active, q.seen.active) THEN o.active ELSE @.active]]
    [] o.op = "delete_user" /\ o.user \notin q.gone -> [account EXCEPT ![o.user] = None]
    [] OTHER -> account

(* The database refuses duplicates and dangling references, and the unit   *)
(* of work an UPDATE that meets no row.                                    *)
Fault_NoForeignKeys(q) ==
  q.order.op \in {"update_role", "update_user"} =>
    {q.order.role, q.order.user} \cap q.gone = {}

Accepted(q) ==
  LET o == q.order IN
  CASE o.op = "create_role" -> grants[o.role] = None
    [] o.op = "update_role" ->
         o.role \notin q.gone /\ (o.perms \ q.seen) \cap grants[o.role] = {}
    [] o.op = "delete_role" -> o.role \in q.gone \/ Unassigned(o.role)
    [] o.op = "create_user" -> account[o.user] = None /\ o.role \notin q.gone
    [] o.op = "update_user" ->
         o.user \notin q.gone /\ (Writes(o.role, q.seen.role) => o.role \notin q.gone)
    [] o.op = "delete_user" -> o.user \in q.gone \/ o.user \notin owners

(* The rows whose keys a handler has loaded for its commit.                *)
RowsOf(o) == IF o.op = "create_role" THEN {}
             ELSE IF o.op = "create_user" THEN {o.role} ELSE {o.role, o.user}

(* The other requests in progress have been overtaken by a commit; those   *)
(* past their reads may have loaded what it deleted.                       *)
Overtaken(r) ==
  LET o == request[r].order
      deleted == IF o.op \in {"delete_role", "delete_user"}
                 THEN {o.role, o.user} \ {None} ELSE {}
  IN [q \in Requests |->
        IF q = r THEN Idle
        ELSE [request[q] EXCEPT
                !.solo = FALSE,
                !.gone = @ \cup IF request[q].pc = "commit"
                                THEN deleted \cap RowsOf(request[q].order)
                                ELSE {}]]

RoleOps == {"create_role", "update_role", "delete_role"}

Commit(r) ==
  LET q == request[r]
      o == q.order
  IN
  /\ q.pc = "commit" /\ commits < MaxCommits
  /\ Accepted(q)
  /\ grants' = GrantsAfter(q)
  /\ account' = AccountAfter(q)
  /\ request' = Overtaken(r)
  /\ raced' = (raced \/ ~q.solo)
  /\ commits' = commits + 1
  /\ asked' = IF o.op \in RoleOps /\ o.role \notin q.gone
              THEN [asked EXCEPT ![o.role] = IF o.op = "update_role" /\ ~q.solo
                                             THEN Unclear ELSE o.perms]
              ELSE asked
  /\ disarmed' = (disarmed \/ /\ o.op = "update_role" /\ o.role = q.mine.role
                              /\ ManageUsers \notin o.perms)
  /\ UNCHANGED <<owners, seeding>>

(* The commit fails; the transaction is rolled back, the answer is a 500.  *)
CommitFails(r) ==
  /\ request[r].pc = "commit"
  /\ ~Accepted(request[r])
  /\ request' = [request EXCEPT ![r] = Idle]
  /\ UNCHANGED <<grants, account, owners, seeding, commits, asked, raced, disarmed>>

-----------------------------------------------------------------------------
(* seed.py: the built-in roles get back whatever they miss of their        *)
(* defaults, nothing is revoked; the default manager is created if its     *)
(* e-mail is not known.  It reads what is missing first ...                *)
SeedLoad ==
  /\ seeding.pc = "idle"
  /\ seeding' = [pc |-> "commit", admin |-> account[Admin] = None,
                 lacks |-> [ro \in BUILTIN_ROLES |-> Defaults[ro] \ Granted(ro)]]
  /\ UNCHANGED <<grants, account, owners, request, commits, asked, raced, disarmed>>

(* ... and adds it in one transaction, unless it is there by then.         *)
SeedCommit ==
  /\ seeding.pc = "commit" /\ commits < MaxCommits
  /\ commits' = commits + 1
  /\ \A ro \in BUILTIN_ROLES : seeding.lacks[ro] \cap Granted(ro) = {}
  /\ seeding.admin => account[Admin] = None
  /\ grants' = [ro \in Roles |-> IF ro \in BUILTIN_ROLES
                                 THEN Granted(ro) \cup seeding.lacks[ro] ELSE grants[ro]]
  /\ account' = IF seeding.admin
                THEN [account EXCEPT ![Admin] = [role |-> Manager, active |-> TRUE]]
                ELSE account
  /\ asked' = [ro \in Roles |-> IF grants'[ro] # grants[ro] THEN Unclear ELSE asked[ro]]
  /\ request' = [q \in Requests |-> [request[q] EXCEPT !.solo = FALSE]]
  /\ seeding' = NotSeeding
  /\ UNCHANGED <<owners, raced, disarmed>>

(* The transaction fails as a whole.                                       *)
SeedFails ==
  /\ seeding.pc = "commit"
  /\ seeding' = NotSeeding
  /\ UNCHANGED <<grants, account, owners, request, commits, asked, raced, disarmed>>

(* A user gets a first device, or loses the last one.                      *)
CreateDevice(u) ==
  /\ account[u] # None /\ u \notin owners
  /\ commits < MaxCommits /\ commits' = commits + 1
  /\ owners' = owners \cup {u}
  /\ UNCHANGED <<grants, account, request, seeding, asked, raced, disarmed>>

DeleteDevices(u) ==
  /\ u \in owners
  /\ commits < MaxCommits /\ commits' = commits + 1
  /\ owners' = owners \ {u}
  /\ UNCHANGED <<grants, account, request, seeding, asked, raced, disarmed>>

=============================================================================
