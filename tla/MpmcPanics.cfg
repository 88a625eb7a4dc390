SPECIFICATION Spec
SYMMETRY Symmetric
CONSTANTS
  None = None
  MaxDepth = 2
  Panics = {FALSE, TRUE}
  Builds = {TRUE, FALSE}
  Items = {i1, i2, i3}
  RecvFuts = {s1}
  Receivers = {r1}
  WakerIds = {1, 2, 3}
  MaxSenders = 1
  Bounded = TRUE
  Cap = 1
INVARIANTS
  TypeOK
  Fifo
  OutcomeExact
  NoLostRecvWakeup
  NoLostSendWakeup
  TerminalKeepsNoWaker
  DisconnectIsFinal
  LastReceiverDrains
  CompletedKeepsNoWaker
PROPERTIES
  ImplementsChannel
  SendsFailClosed
  TerminatedStreamIsDry
