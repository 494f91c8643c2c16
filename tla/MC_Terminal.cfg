SPECIFICATION Spec
CONSTANTS
  Whens <- MCWhens
  Nows <- MCNows
  Oversleeps <- MCOversleeps
  LATE = 2
  N = 3
  NWUMPS = 2
  Lines <- MCLines
  STSZ = 3
  LONG_MAX = 3
  MAXDIGITS = 2
  DigitKeys = {0, 1, 3, 8}
  Names = {"a"}
  Programs <- MCPrograms
  MEMSZ = 2
  INTSZ = 2
  TC_EOF <- MCEOF
  MooN = 4
  SECRET = 2
  WordLists <- MCWordLists
  Acrostics <- MCAcrostics
  None = None
  NWords = 2
  Phrases = 2
  TcTolower <- MCTcTolower
  Times <- MCTimes
  BYTES = 3
  DIGIT = 2
  ROWS = 4
  COLS = 5
INVARIANTS
  TypeOK
  RemindersInTime
  JudgedFairly
  NeverRetried
  WonBySecret
  Connected
  SelfAvoiding
  NeverTooLong
  ScreenShows
PROPERTIES
  ImplementsLanguage
  Terminates
