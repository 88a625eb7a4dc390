SPECIFICATION Spec
SYMMETRY Symmetric
CONSTANTS
  None = None
  MaxDepth = 2
  Panics = {FALSE, TRUE}
  Builds = {TRUE, FALSE}
  Items = {i1, i2, i3}
  Tasks = {t1, t2}
  Rx = Rx
  WakerIds = {1, 2, 3}
  MaxSenders = 2
  Bounded = TRUE
  Cap = 2
  Toxic <- NotInCommit
INVARIANTS
  NoLostRecvWakeup
  ReceiverDrains
