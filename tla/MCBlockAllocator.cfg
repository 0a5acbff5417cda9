CONSTANTS
  NewBufferLength = 4
  Capacities = {5}
  Sizes = {1, 2, 5}
  HeapSize = 10
  Addresses <- MCAddresses
SPECIFICATION FairSpec
INVARIANTS TypeOK FreeListApart NothingShared NothingLost
PROPERTIES CallsReturn ImplementsPool
CHECK_DEADLOCK FALSE
