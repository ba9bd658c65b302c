SPECIFICATION Spec
CONSTANTS
  UserIds = {"u1", "u2"}
  Emails = {"e1", "e2"}
  Names = {"n1", "n2"}
  Exts = {"x1", "x2"}
  Procs = {"p1"}
  Requests <- OneByOne
  DeleteModes = {TRUE, FALSE}
  Faults = {"refused", "lost", "save", "kill"}
  DeletedInOutline = {"u1"}
INVARIANT
  AccountDue
PROPERTY
  UserAnswerHolds
