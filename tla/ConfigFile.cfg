SPECIFICATION Spec
CONSTANTS
  KnownSection <- MCSections
  KnownKey <- MCKnown
  TextKey <- MCText
  SectionName <- MCSectionNames
  KeyName <- MCKeyNames
  MaxLines = 7
INVARIANTS AcceptedIffWellFormed ValuesAreTheFiles
CHECK_DEADLOCK FALSE
