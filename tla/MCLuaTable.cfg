SPECIFICATION Spec
CONSTANTS
  Name = Name
  Thing = Thing
  Nil = Nil
  Ints = {1, 2, 4}
  Strings <- MCStrings
  Objects <- MCObjects
  Hash <- MCHash
  Value <- MCValue
  ArraySizes <- MCArraySizes
  HashSizes <- MCHashSizes
  MAXASIZE = 8
  MAX_INT = 4
CONSTRAINT LengthBetweenVisits
INVARIANTS
  HoldsDict BrentsVariation LengthIsBorder TraversalExact
