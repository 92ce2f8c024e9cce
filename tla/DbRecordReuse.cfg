SPECIFICATION Spec
CONSTANTS
  h1 = h1
  h2 = h2
  h3 = h3
  a = a
  b = b
  Ids <- MCIds
  Vals <- MCVals
  NULL = NULL
  ReusesIds = TRUE
INVARIANT
  DeleteMeansRemoved
