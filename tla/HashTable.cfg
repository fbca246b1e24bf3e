CONSTANTS
  k1 = k1
  k2 = k2
  k3 = k3
  k4 = k4
  Keys <- MCKeys
  Values = {1, 2}
  tbl_size = 3
  Hash <- MCHash
  NULL = NULL
  NoValue = NoValue
SPECIFICATION Spec
INVARIANT ChainsUnbroken
PROPERTY ImplementsBoundedMap
CHECK_DEADLOCK FALSE
