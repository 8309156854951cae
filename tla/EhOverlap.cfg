\* An exception may be thrown while another is handled.
CONSTANTS
  Coros = {main}
  Main = main
  Types <- SingleTypes
  Bases <- SingleBases
  Tries <- SingleTries
  Objects = {e1, e2}
  NoObject = none
  MaxDepth = 3
  MaxScopes = 2
  Overlaps = TRUE
  SwapsInScopes = FALSE
SPECIFICATION Spec
INVARIANTS
  CountsHandlers
