SPECIFICATION Spec
CONSTANTS
  Procs = {p1}
  Registries = {"dns", "asn"}
  RegistryOf <- MCRegistryOf
  HintOrder <- MCHintOrder
  Invocations <- MCInvocations
  Links = {"registrar"}
  Answers <- MCAnswers
  MaxCrashes = 0
  MaxExpiries = 0
INVARIANT
  RegistrarOnly
CHECK_DEADLOCK FALSE
