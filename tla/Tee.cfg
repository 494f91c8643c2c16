SPECIFICATION Spec
CONSTANTS
  File = {f, g}
  Byte = {a, b}
  Argvs <- MCArgvs
  Inputs <- MCInputs
INVARIANTS
  TypeOK
  LockStep
  SuccessIsComplete
PROPERTIES
  Terminates
  ImplementsFanout
