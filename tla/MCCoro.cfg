\* Main, two workers and a dead coroutine; the host picks every swap's target.
CONSTANTS
  ByteBase = 4
  Carts <- MCCarts
  ArgVectors <- MCArgs
  FnIndexes = {}
  HostWords = {0, 16, 32, 48}
  FloatWords = {}
  MaxRuns = 1
  Alu <- AluValue
  Records <- MCRecords
  MainRecord = 0
  DeadRecords = {48}
  StackOf <- MCStackOf
  EntryOf <- MCEntryOf
SPECIFICATION Spec
INVARIANT OneRunning
PROPERTY SwapsResume
