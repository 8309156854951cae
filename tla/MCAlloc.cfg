\* 8-bit words; a region of 83 bytes at address 4: room for five blocks, so that
\* a block in the middle of the free list is removed.
CONSTANTS
  ByteBase = 4
  HeapStart = 4
  HeapSize = 83
  Requests <- MCRequests
  UserWords <- MCUserWords
SPECIFICATION Spec
INVARIANTS
  TypeOK
  BlocksTile
  FreeListExact
PROPERTIES
  KeepsPromise
