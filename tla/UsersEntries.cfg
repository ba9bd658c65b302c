SPECIFICATION HSpec
SYMMETRY Symmetry
CONSTANTS
  UserIds = {"u1", "u2"}
  Emails = {"e1", "e2"}
  Names = {"n1", "n2"}
  Exts = {"x1"}
  Procs = {p1, p2}
  Requests <- Claims
  DeleteModes = {TRUE}
  Faults = {"lost", "kill"}
  DeletedInOutline = {"u1"}
INVARIANTS
  UserInv
  HeldInv
PROPERTIES
  LiveEntriesKept
  EachHeld
