SPECIFICATION SSpec
SYMMETRY Symmetry
CONSTANTS
  Ids = {u1, u2}
  Exts = {e1, e2}
  Procs = {p1, p2}
  NoFile = NoFile
  Torn = Torn
  Failures = {"error", "kill", "power"}
INVARIANTS
  StoreInv
  MappingOneToOne
  NeverTorn
  MemoryIsSaved
PROPERTIES
  ImplementsMap
  OkUnlessStale
