CONSTANTS
  Specs <- MCSpecs
  MaxFields = 2
  MaxSchemas = 2
SPECIFICATION Spec
CHECK_DEADLOCK FALSE
INVARIANTS
  FingerprintTellsOptions
  WriterMatchesIndex
