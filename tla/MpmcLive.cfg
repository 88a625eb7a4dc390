SPECIFICATION LiveSpec
CONSTANTS
  None = None
  MaxDepth = 2
  Panics = {FALSE}
  Builds = {TRUE}
  Items = {i1, i2}
  RecvFuts = {s1}
  Receivers = {r1}
  WakerIds = {1, 2, 3}
  MaxSenders = 1
  Bounded = TRUE
  Cap = 1
PROPERTIES
  RecvSeesDisconnect
  SendSeesClose
