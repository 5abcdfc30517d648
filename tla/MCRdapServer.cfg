SPECIFICATION Spec
CONSTANTS
  Files <- MCFiles
  RegistryOrder <- MCRegistryOrder
  LastVersion <- MCLastVersion
  Service <- MCService
  Slots <- MCSlots
  Malformed <- SecondMalformed
  UpdateOnBootstrap = FALSE
  StoreFiles = {"data"}
  MaxExpiries = 0
  MaxStores = 1
  MaxCrashes = 1
  MaxTime = 6
INVARIANTS
  TypeOK
  TemplatesMatchCache
  NothingUnserved
CHECK_DEADLOCK FALSE
