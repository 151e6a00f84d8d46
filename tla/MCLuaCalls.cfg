SPECIFICATION Spec
CONSTANTS
  Main = Main
  c1 = c1
  c2 = c2
  Coroutine = {c1, c2}
  Nil = Nil
  BASIC_CI_SIZE = 5
  MAXCALLS = 5
  MAXCCALLS = 4
  CErrorRoom = 1
  Scripts <- MCScripts
INVARIANTS
  CStackAccounted UpvalsInStack HandlerIsNearest StatusTruthful
