------------------------------ MODULE MCAccess ------------------------------
(* TLC instance of Access: a default manager and a second user, one custom *)
(* role.                                                                   *)
EXTENDS Access

CONSTANTS admin, eve, manager, engineer, custom, manage, ssh, r1, r2, s1, l1, l2, seeder

TheUsers == {admin, eve}
TheRoles == {manager, engineer, custom}
ThePerms == {manage, ssh}
TheDefaults == [ro \in {manager, engineer} |-> IF ro = manager THEN ThePerms ELSE {ssh}]

TheCrowds == {{r1, r2}, {r1, seeder}, {r1, s1}, {l1, l2}}

Order(op, ro, ps, u, act) ==
  [op |-> op, role |-> ro, perms |-> ps, user |-> u, active |-> act]

TheOrders ==
  {Order("create_role", custom, ThePerms, None, None),
   Order("delete_role", custom, None, None, None)}
  \cup {Order("update_role", ro, ps, None, None) : ro \in {engineer, custom}, ps \in {{}, {manage}}}
  \cup {Order("create_user", manager, None, eve, None)}
  \cup {Order("update_user", ro, None, u, None) : ro \in {engineer, custom}, u \in TheUsers}
  \cup {Order("update_user", None, None, u, FALSE) : u \in TheUsers}
  \cup {Order("delete_user", None, None, u, None) : u \in TheUsers}

=============================================================================
