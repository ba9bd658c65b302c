SPECIFICATION FairSpec
CONSTANTS
  GroupNames <- MCGroupNames
  RoleKey <- MCKey
  FoldKey <- MCKey
  AdminKeys <- MCAdminKeys
  MemberKeys <- MCMemberKeys
  UserIds = {"u1"}
  GroupIds = {"g1"}
  GroupExts = {"x1"}
  Procs = {"p1", "p2"}
  Requests <- LiveRequests
  Faults = {"lost"}
  AccountEvents = {"suspend", "delete"}
  InitialAccounts <- Viewer
PROPERTY
  Responds
