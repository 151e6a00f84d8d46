SPECIFICATION CompilerSpec
CONSTANTS
  MAXSTACK = 14
  MAXINDEXRK = 2
  MAXARG_C = 2
  MAXARG_sBx = 18
  LFIELDS_PER_FLUSH = 2
  LUAI_MAXVARS = 9
  LUAI_MAXUPVALUES = 3
  LUAI_MAXCCALLS = 12
  Family = "deep"
  Compiled <- MCCompiled
  Meant <- MCMeant
INVARIANT CompiledMeansSource
CHECK_DEADLOCK FALSE
