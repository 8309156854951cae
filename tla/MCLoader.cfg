\* Words of 1296 values; two binaries one after the other, with either allocator.
CONSTANTS
  ByteBase = 6
  Files <- MCFiles
  Programs <- MCPrograms
  Allocators <- MCAllocators
  LinkNames <- MCLinkNames
  MaxLoads = 2
SPECIFICATION Spec
INVARIANTS
  TypeOK
  ReadsInFile
  LoadedIsCart
  LayoutSound
  RegionsAligned
  PeekAgrees
  BlocksOwned
  WrittenAccepted
  LoadsAsWritten
