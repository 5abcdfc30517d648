CONSTANTS
  Spaces = {" "}
  Marks <- MCMarks
  ALabels <- MCALabels
  CaseFold <- MCCaseFold
  IpAddresses <- MCIpAddresses
  IllTyped = IllTyped
  Networks <- MCNetworks
  Numerals <- MCNumerals
  Encoded <- MCEncoded
  MaxNesting = 3
  Dates = {"2020-01-01T00:00:00Z"}
  TokenEnds <- MCTokenEnds
  Services <- MCServices
  Worlds <- MCWorlds
SPECIFICATION Spec
INVARIANTS
  TypeOK
  RightServer
  QueryReaches
  ExitTells
  EveryAddressTested
  ExpectedDeclared
CHECK_DEADLOCK TRUE
