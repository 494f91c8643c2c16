SPECIFICATION Spec
CONSTANTS
  Alnum = {"a"}
  Inner = {"'"}
  Others = {" "}
  Dictionary <- MCDictionary
  LineLen = 3
  MaxLines = 2
  Lower <- MCLower
  Upper <- MCUpper
  Patterns <- MCPatterns
  TextLen = 5
  LINESZ = 5
  FileChars <- MCFileChars
  FileLen = 3
  LLONG_MAX = 7
  Numbers <- MCNumbers
INVARIANTS
  TypeOK
  MisspeltFound
  MatchesFound
  DifferenceFound
PROPERTIES
  NumbersInSteps
  Terminates
