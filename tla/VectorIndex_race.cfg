SPECIFICATION Spec
CONSTANTS
  Node = {1, 2}
  Runtime = {r1, r2}
  Model = {modelA, modelB}
  ModelOf <- TwoModels
  Dimension = {2, 3}
  NULL = NULL
  r1 = r1
  r2 = r2
  modelA = modelA
  modelB = modelB
INVARIANTS RowsAreHonest RankedAsRead
PROPERTY SearchesEnd
CHECK_DEADLOCK FALSE
