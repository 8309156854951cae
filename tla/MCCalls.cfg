\* Every 4-instruction program over the call alphabet, run twice.
CONSTANTS
  ByteBase = 4
  Carts <- MCCarts
  ArgVectors <- MCArgs
  FnIndexes = {1, 2}
  HostWords = {}
  FloatWords = {}
  MaxRuns = 2
  Alu <- AluValue
SPECIFICATION FairSpec
PROPERTIES
  CallsAreNested
  RunsEnd
