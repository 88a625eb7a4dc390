SPECIFICATION LiveSpec
CONSTANTS
  None = None
  MaxDepth = 3
  Panics = {FALSE, TRUE}
  Builds = {TRUE}
  Tasks = {t1, t2}
INVARIANTS
  SlotFlagExact
  OutcomeExact
  NoLostWakeup
  ReceiverLeavesNothing
PROPERTIES
  ImplementsChannel
  RecvResolves
