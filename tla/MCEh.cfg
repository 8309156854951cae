\* Two coroutines that swap while no scope is open; one exception at a time,
\* bases at offset 0.
CONSTANTS
  Coros = {main, other}
  Main = main
  Types <- SingleTypes
  Bases <- SingleBases
  Tries <- SingleTries
  Objects = {e1}
  NoObject = none
  MaxDepth = 3
  MaxScopes = 2
  Overlaps = FALSE
  SwapsInScopes = FALSE
SPECIFICATION Spec
INVARIANTS
  TypeOK
  ChainExact
  CountsHandlers
PROPERTIES
  HandlesExceptions
