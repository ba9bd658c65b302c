SPECIFICATION Spec
CONSTANTS
  GroupNames <- MCGroupNames
  RoleKey <- MCKey
  FoldKey <- MCKey
  AdminKeys <- MCAdminKeys
  MemberKeys <- MCMemberKeys
  UserIds = {"u1", "u2"}
  GroupIds = {"g1", "g2"}
  GroupExts = {"x1"}
  Procs = {"p1"}
  Requests <- SerialRequests
  Faults = {"refused", "lost", "exit"}
  AccountEvents = {}
  InitialAccounts <- ViewerOrSuspended
INVARIANT
  HandlerInv
  WorkDue
PROPERTIES
  AnswerHolds
  NoDuplicateCreated
