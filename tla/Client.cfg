SPECIFICATION FairSpec
CONSTANTS
  MaxRetries = 2
  Timeout = 1
  MaxDelay = 2
  Headers = {1, 3}
  Entries = {"a", "b", "c", "d", "e"}
  Limit = 2
  InitialLists <- MCInitialLists
  MaxChanges = 2
INVARIANTS
  CallInv
  PagerInv
  NothingMissed
  NothingTwice
  ExactAtRest
PROPERTIES
  CallIsOnce
  CallReturns
