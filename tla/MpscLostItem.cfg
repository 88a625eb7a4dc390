SPECIFICATION Spec
SYMMETRY Symmetric
CONSTANTS
  None = None
  MaxDepth = 2
  Panics = {FALSE, TRUE}
  Builds = {TRUE}
  Items = {i1, i2}
  Tasks = {t1}
  Rx = Rx
  WakerIds = {1, 2, 3}
  MaxSenders = 1
  Bounded = TRUE
  Cap = 1
  Toxic <- AnyCallback
INVARIANTS
  Fifo
