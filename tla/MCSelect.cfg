\* Words of 4 base-4 digits: 8 bits.
CONSTANTS
  ByteBase = 4
  WideWords <- MCWideWords
  SmallWords <- MCSmallWords
  Granted = {"usub.sat", "uadd.sat", "fshr", "fsh amount", "uitofp", "zext i65"}
SPECIFICATION Spec
INVARIANT Represented
