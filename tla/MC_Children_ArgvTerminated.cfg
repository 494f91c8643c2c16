SPECIFICATION Spec
CONSTANTS
  Pid <- MCPid
  IntMax = 3
  Codes <- MCCodes
  ShellLines = 4
  MaxRuns = 6
  ForeachLines = 4
  LineLen = 4
  TmplChars <- MCChars
  TmplLen = 5
  TmplRoom = 3
  Outputs <- MCOutputs
INVARIANT ArgvTerminated
