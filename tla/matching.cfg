SPECIFICATION Spec
CONSTANTS
  Cases <- MCCases
INVARIANTS
  LinesAgree
  OccurrencesRight
CHECK_DEADLOCK FALSE
