SPECIFICATION Spec
CONSTANTS
  Items = {a, b}
  N = 2
  Addrs = {b1, b2, b3}
  MaxLen = 4
  None = None
  Freed = Freed
INVARIANTS
  ChainIsHeap
  LenExact
PROPERTIES
  ImplementsFifo
