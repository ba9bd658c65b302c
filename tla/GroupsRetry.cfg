SPECIFICATION FairSpec
CONSTANTS
  GroupNames <- MCGroupNames
  RoleKey <- MCKey
  FoldKey <- MCKey
  AdminKeys <- MCAdminKeys
  MemberKeys <- MCMemberKeys
  UserIds = {"u1", "u2"}
  GroupIds = {"g1", "g2"}
  GroupExts = {"x1"}
  Procs = {"p1"}
  Requests <- PutsOnly
  Faults = {"refused"}
  AccountEvents = {}
  InitialAccounts <- Viewer
PROPERTY
  PutSettlesRoles
