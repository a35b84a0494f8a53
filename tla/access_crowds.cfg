SPECIFICATION FairSpec
CONSTANTS
  admin = admin
  eve = eve
  manager = manager
  engineer = engineer
  custom = custom
  manage = manage
  ssh = ssh
  r1 = r1
  r2 = r2
  s1 = s1
  l1 = l1
  l2 = l2
  seeder = seeder
  None = None
  Unclear = Unclear
  MaxCommits = 2
  Users <- TheUsers
  Roles <- TheRoles
  Perms <- ThePerms
  Defaults <- TheDefaults
  Crowds <- TheCrowds
  OrdersOf <- TheOrders
  ManageUsers = manage
  SSH = ssh
  Seeder = seeder
  Manager = manager
  Admin = admin
  Requests = {r1, r2}
  Attempts = {l1, l2}
  Shells = {s1}
  MAX_FAILURES = 2
  LOGIN_WINDOW = 3
INVARIANTS
  TypeOK
  LockoutHasCause
  RolesAsRequested
  GuardHolds
PROPERTIES
  BlockDrains
  ShellEnds
CHECK_DEADLOCK FALSE
