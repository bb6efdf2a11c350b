CONSTANTS
  Schema <- Declared
  UnknownNames = {"typo"}
  Values <- Written
  MaxWrites = 3
  MaxLong = 127
  NanosPerMicro = 2
  MicrosPerSecond = 2
SPECIFICATION Spec
CHECK_DEADLOCK FALSE
INVARIANTS
  ReadsBackWhatWasWritten
  TypedDocumentsAreReadable
  FoundByItsValues
