SPECIFICATION Spec
CONSTANTS
  File = {"f", "g"}
  Character = {"a", "b"}
  Argvs <- MCArgvs
  Inputs <- MCInputs
  Procs = {"p", "q"}
  MaxDepth = 3
  Commands <- MCCommands
  OperandFiles <- MCFiles
  Dirs = {"d"}
  Stdin = "stdin"
  Contents <- MCContents
  CommandLines <- MCCommandLines
  flag_n = 1
  Pattern = "a"
  Code <- MCCode
  BITS = 3
  DISK = 4
  FileChanges = 1
  TableSize = 3
  Elapsed <- MCElapsed
  TableChanges = 2
  MaxHeaders = 2
  Byte <- MCByte
  passes <- MCPasses
  Random <- MCRandom
  Original = "o"
  MaxSize = 4
  MaxAppends = 1
INVARIANTS
  TypeOK
  SuccessIsTrue
  ReportIsTrue
  ListingIsTrue
  PassesReachDisk
PROPERTY Terminates
