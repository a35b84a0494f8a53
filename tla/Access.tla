------------------------------- MODULE Access -------------------------------
(***************************************************************************)
(* Who may do what: the accounts, the login guard and the web shell in one *)
(* gateway.  A behaviour has a crowd, the handlers that run in it; a       *)
(* request, a login and a shell meet in the tables of users and roles.     *)
(***************************************************************************)
EXTENDS WebShell, LoginGuard

CONSTANTS
  Seeder,     \* seed.py, as a member of a crowd
  Crowds,     \* bound of the model: which handlers run together
  OrdersOf    \* bound of the model: what a request may be about

(* An order names what its handler needs: paths and bodies require it.     *)
ASSUME OrdersAssumption ==
  /\ OrdersOf \subseteq Orders
  /\ \A o \in OrdersOf :
       /\ o.op \in {"create_role", "update_role"} => o.role \in Roles /\ o.perms # None
       /\ o.op = "delete_role" => o.role \in Roles /\ o.perms = None
       /\ o.op = "create_user" => o.role \in Roles /\ o.user \in Users
       /\ o.op \in {"update_user", "delete_user"} => o.user \in Users

VARIABLE crowd

vars == <<accountVars, guardVars, shell, crowd>>

(* The seed has run; other users and roles may be there already.          *)
Init ==
  /\ crowd \in Crowds
  /\ \E made \in SUBSET (Roles \ BUILTIN_ROLES) :
       grants = [ro \in Roles |-> IF ro \in BUILTIN_ROLES THEN Defaults[ro]
                                 ELSE IF ro \in made THEN Perms ELSE None]
  /\ account \in [Users -> {None} \cup [role: Roles, active: {TRUE}]]
  /\ account[Admin] = [role |-> Manager, active |-> TRUE]
  /\ \A u \in Users : account[u] # None => grants[account[u].role] # None
  /\ owners = {}
  /\ request = [r \in Requests |-> Idle]
  /\ seeding = NotSeeding
  /\ asked = grants
  /\ commits = 0
  /\ raced = FALSE
  /\ disarmed = FALSE
  /\ failures = <<>>
  /\ alertAge = Never
  /\ attempt = [a \in Attempts |-> "idle"]
  /\ shell = [s \in Shells |-> NoShell]

(* Handlers of the three kinds; a login succeeds for an active account.    *)
RequestNext(r) ==
  \/ \E u \in Users : Authorize(r, u)
  \/ \E o \in OrdersOf : Load(r, o)
  \/ Commit(r) \/ CommitFails(r)

AttemptNext(a) ==
  \/ Admit(a) \/ Refuse(a) \/ Fail(a) \/ Count(a)
  \/ (\E u \in Users : account[u] # None /\ account[u].active) /\ Succeed(a)

ShellNext(s) ==
  \/ \E u \in Users : Open(s, u)
  \/ StartPumps(s) \/ NoProcess(s) \/ PumpBreaks(s) \/ ShellStep(s)
  \/ BrowserLeaves(s) \/ DeviceHangsUp(s)

AccountsNext ==
  \/ \E r \in Requests \cap crowd : RequestNext(r)
  \/ Seeder \in crowd /\ (SeedLoad \/ SeedCommit \/ SeedFails)
  \/ \E u \in Users : CreateDevice(u) \/ DeleteDevices(u)

LoginNext == (\E a \in Attempts \cap crowd : AttemptNext(a)) \/ GuardTick

Next ==
  \/ AccountsNext /\ UNCHANGED <<guardVars, shell, crowd>>
  \/ LoginNext /\ UNCHANGED <<accountVars, shell, crowd>>
  \/ \E s \in Shells \cap crowd : ShellNext(s) /\ UNCHANGED <<accountVars, guardVars, crowd>>

(* Time passes, a handler that has begun goes on, and nobody has to begin. *)
Spec == Init /\ [][Next]_vars
FairSpec ==
  /\ Spec
  /\ WF_vars(GuardTick /\ UNCHANGED <<accountVars, shell, crowd>>)
  /\ \A s \in Shells :
       WF_vars(ShellStep(s) /\ UNCHANGED <<accountVars, guardVars, crowd>>)

-----------------------------------------------------------------------------
(* Well-typed, with every foreign key: an account's role exists, and so    *)
(* does the owner of a device, whatever was deleted meanwhile.             *)
TypeOK ==
  /\ crowd \in Crowds
  /\ grants \in [Roles -> {None} \cup SUBSET Perms]
  /\ account \in [Users -> {None} \cup Accounts]
  /\ \A u \in Users : account[u] # None => grants[account[u].role] # None
  /\ owners \subseteq {u \in Users : account[u] # None}
  /\ \A r \in Requests :
       /\ request[r].pc \in {"idle", "load", "commit"}
       /\ request[r].pc = "commit" => request[r].order \in Orders
  /\ seeding \in Seedings
  /\ asked \in [Roles -> {None, Unclear} \cup SUBSET Perms]
  /\ commits \in 0 .. MaxCommits /\ raced \in BOOLEAN /\ disarmed \in BOOLEAN
  /\ failures \in Seq(0 .. LOGIN_WINDOW + 1)
  /\ alertAge \in {Never} \cup 0 .. LOGIN_WINDOW + 1
  /\ attempt \in [Attempts -> {"idle", "checked", "audited"}]
  /\ shell \in [Shells -> Shell]

(* The guards of the admin panel are there so that nobody locks himself    *)
(* out.  Two causes remain by which the last active user with manage_users *)
(* can go: requests that overlap (two managers deactivate each other), and *)
(* a manager by a custom role taking the permission from his own role.     *)
LockoutHasCause == (\E u \in Users : CanManage(u)) \/ raced \/ disarmed

(* A role grants what the last request about it asked for, unless that     *)
(* request overlapped another commit, or the seed has granted more since.  *)
RolesAsRequested == \A ro \in Roles : asked[ro] # Unclear => grants[ro] = asked[ro]

(* The failures of an address within a window exceed the limit by no more  *)
(* than the attempts that were in progress when it was reached; and no     *)
(* block is silent: when the newest failure of a blocked address counted,  *)
(* an alert less than a window old had gone out.                           *)
GuardHolds ==
  /\ Len(Pruned) <= MAX_FAILURES - 1 + Cardinality(Attempts)
  /\ Blocked => /\ alertAge # Never
                /\ alertAge - Last(failures) < LOGIN_WINDOW

(* A block ends by itself, whatever is tried meanwhile: refused attempts   *)
(* do not prolong it.                                                      *)
BlockDrains == []<>~Blocked

(* A shell that has reached its device does not outlive it, nor, once its  *)
(* pumps run, its browser; and it has told the audit trail of both its     *)
(* ends.  (Before the pumps run nobody listens to the browser, and a device*)
(* that accepts the connection and then stalls keeps the handler.)         *)
ShellEnds ==
  \A s \in Shells :
    \/ shell[s].reached /\ ~shell[s].device
    \/ shell[s].pc = "bridge" /\ ~shell[s].browser
      ~> shell[s].pc = "ended" /\ shell[s].told = <<"open", "close">>

=============================================================================
