\* 4-valued bytes: 8-bit words, 24 bytes of memory.
CONSTANTS
  ByteBase = 4
  Carts <- MCCarts
  ArgVectors <- MCArgs
  FnIndexes = {0, 3}
  HostWords <- MCHostWords
  FloatWords <- MCFloatWords
  MaxRuns = 1
  Alu <- AluValue
SPECIFICATION Spec
INVARIANTS
  Sandboxed
