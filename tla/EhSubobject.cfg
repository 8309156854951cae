\* A base class at offset 4.
CONSTANTS
  Coros = {main}
  Main = main
  Types <- MultiTypes
  Bases <- MultiBases
  Tries <- MultiTries
  Objects = {e1}
  NoObject = none
  MaxDepth = 2
  MaxScopes = 1
  Overlaps = FALSE
  SwapsInScopes = FALSE
SPECIFICATION Spec
INVARIANTS
  CaughtSubobject
