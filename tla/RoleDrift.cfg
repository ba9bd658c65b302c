SPECIFICATION DSpec
CONSTANTS
  GroupNames <- MCGroupNames
  RoleKey <- MCKey
  FoldKey <- MCKey
  AdminKeys <- MCAdminKeys
  MemberKeys <- MCMemberKeys
  UserIds = {"u1"}
  GroupIds = {"g1", "g2"}
  GroupExts = {"x1"}
  Procs = {"p1", "p2"}
  Requests <- DriftRequests
  Faults = {"lost", "exit"}
  AccountEvents = {"suspend", "activate"}
  InitialAccounts <- Viewer
INVARIANTS
  RoleAccounted
  DriftInv
