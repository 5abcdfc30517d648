CONSTANTS
  Spaces = {" "}
  Marks <- MCMarks
  ALabels <- MCALabels
  CaseFold <- MCCaseFold
  IpAddresses <- MCIpAddresses
  IllTyped = IllTyped
  MaxNesting = 3
  Dates = {"2020-01-01T00:00:00Z"}
  Cidrs <- MCCidrs
  Authors <- MCAuthors
  Urls = {"u1", "u2"}
  Limits = {1, 3}
  MaxSeconds = 100
SPECIFICATION Spec
INVARIANTS
  BuiltConforms
  ContactSurvives
  ShownStands
  MarksAsNamed
CHECK_DEADLOCK FALSE
