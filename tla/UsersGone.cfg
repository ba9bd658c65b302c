SPECIFICATION Spec
CONSTANTS
  UserIds = {"u1", "u2"}
  Emails = {"e1", "e2"}
  Names = {"n1"}
  Exts = {"x1", "x2"}
  Procs = {"p1", "p2"}
  Requests <- PutAndDelete
  DeleteModes = {TRUE}
  Faults = {}
  DeletedInOutline = {}
INVARIANT
  GoneUnresolved
