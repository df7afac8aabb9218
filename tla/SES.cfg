CONSTANTS
  Devices = {"kbd", "mouse"}
  Keyboards = {"kbd"}
  ActionCount <- MCActionCount
  Servers = {"s1", "s2"}
  Nobody = "nobody"
  Vectors <- MCVectors
  InitialVector <- MCInitial
  MaxConfigCount = 1
  Essential = {"x"}
  Excluded <- MCExcluded
  AutoEnable = {"keyboard", "pointing"}
  ConfigLists <- MCConfigLists
  MaxRetry = 1
  MaxVersion = 2
  Scenarios <- MCScenarios
SPECIFICATION Spec
INVARIANTS
  TypeOK
  OriginalKept
  SettledInSync
  HookedAreWanted
PROPERTIES
  OwnershipRefined
  Handover
