SPECIFICATION HSpec
CONSTANTS
  GroupNames <- MCGroupNames
  RoleKey <- MCKey
  FoldKey <- MCKey
  AdminKeys <- MCAdminKeys
  MemberKeys <- MCMemberKeys
  UserIds = {"u1", "u2"}
  GroupIds = {"g1"}
  GroupExts = {"x1"}
  Procs = {"p1", "p2"}
  Requests <- TouchRequests
  Faults = {"exit"}
  AccountEvents = {}
  InitialAccounts <- Viewer
INVARIANTS
  HistoryInv
  RoleEarned
PROPERTIES
  OnlyTouchedChange
