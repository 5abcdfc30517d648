SPECIFICATION FairSpec
CONSTANTS
  Files <- SmallFiles
  RegistryOrder <- OneRegistry
  LastVersion <- TwoVersions
  Service <- OneService
  Slots <- OneSlot
  Malformed <- NoneMalformed
  UpdateOnBootstrap = TRUE
  StoreFiles = {"data"}
  MaxExpiries = 0
  MaxStores = 2
  MaxCrashes = 0
  MaxTime = 4
PROPERTY
  ReloadHonoured
CHECK_DEADLOCK FALSE
