SPECIFICATION Spec
CONSTANTS
  Items = {a, b}
  Cap = 3
  Hole = Hole
INVARIANTS
  WindowInitialised
PROPERTIES
  ImplementsFifo
