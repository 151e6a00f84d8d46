SPECIFICATION Spec
CONSTANTS
  M = M
  G = G
  a = a
  b = b
  c = c
  Object = {M, G, a, b, c}
  Main = M
  Globals = G
  Mixes <- MCMixes
  Nil = Nil
  Number = Number
  Level <- MCLevel
INVARIANTS
  ReachableSurvives BlackToNoWhite WeakEntriesLive
PROPERTIES
  FinalizedOnce FullCollects
CHECK_DEADLOCK FALSE
