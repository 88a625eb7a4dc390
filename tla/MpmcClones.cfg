SPECIFICATION Spec
SYMMETRY Symmetric
CONSTANTS
  None = None
  MaxDepth = 2
  Panics = {FALSE}
  Builds = {TRUE}
  Items = {i1, i2}
  RecvFuts = {s1}
  Receivers = {r1, r2}
  WakerIds = {1, 2, 3}
  MaxSenders = 2
  Bounded = TRUE
  Cap = 1
INVARIANTS
  NoLostRecvWakeup
  NoOrphanWaker
