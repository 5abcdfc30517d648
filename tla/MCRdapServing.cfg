CONSTANTS
  MultiByte = {"w"}
  Width = 2
  SearchEnabled = TRUE
  BaseUrl <- MCBaseUrl
  ALabels <- MCALabels
  Queries <- MCQueries
  Bootstrap = TRUE
  MaxNum = 9
  LowerCase <- MCLowerCase
  FirstDir <- MCFirstDir
  MadeArgs <- MCMadeArgs
  MaxLoads = 2
  MaxWrites = 1
SPECIFICATION FairSpec
INVARIANTS
  TypeOK
  AnswerStands
  SearchFindsAll
  TablesAgree
  SelfLinksLead
  RedirectsServed
PROPERTIES
  WritesLoad
  Answered
CHECK_DEADLOCK FALSE
