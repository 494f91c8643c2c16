SPECIFICATION Spec
CONSTANTS
  MaxLen = 6
  Alphabet <- MCAlphabet
  TABSTOP = 3
  TAB_WIDTH = 2
  Width = 3
  WordSize = 4
  Lines <- MCLines
  MaxLines = 4
  Options <- MCOptions
  ChefTexts <- MCChefTexts
  ChefSize = 5
  Formats <- MCFormats
  MatchLines <- MCMatchLines
  Match <- MCMatch
  NMatch = 3
  LitLines <- MCLitLines
  Dumps <- MCDumps
  Piece = 2
  Texts <- MCTexts
  SpeedOptions <- MCSpeedOptions
  Leftover <- MCLeftover
  TC_WAV_SAMPLE_RATE = 8000
  Inputs <- MCInputs
  CAP = 2
  Headers <- MCHeaders
  ID1 = 1
  ID2 = 11
  W = 4
  OldTimes <- MCOldTimes
  Arguments <- MCArguments
  MSGSZ = 6
INVARIANT UniqSkipsFields
