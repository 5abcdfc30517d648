SPECIFICATION FairSpec
CONSTANTS
  Procs = {p1, p2}
  Registries = {"dns", "asn"}
  RegistryOf <- MCRegistryOf
  HintOrder <- MCHintOrder
  Invocations <- MCInvocations
  Links = {"registrar"}
  Answers <- MCAnswers
  MaxCrashes = 1
  MaxExpiries = 1
INVARIANTS
  TypeOK
  ShownAnswersAsked
  SuccessShows
PROPERTIES
  NoCacheBypasses
  UndisturbedWorks
  Ends
CHECK_DEADLOCK FALSE
