SPECIFICATION FairSpec
CONSTANTS
  Files <- SmallFiles
  RegistryOrder <- OneRegistry
  LastVersion <- TwoVersions
  Service <- OneService
  Slots <- OneSlot
  Malformed <- NoneMalformed
  UpdateOnBootstrap = TRUE
  StoreFiles = {"data"}
  MaxExpiries = 0
  MaxStores = 1
  MaxCrashes = 1
  MaxTime = 4
PROPERTIES
  ComesBack
  RegistryServed
  TriggersHonoured
CHECK_DEADLOCK FALSE
