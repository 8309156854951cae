\* 7-bit halves.
CONSTANTS
  Bits = 7
  Formats <- MCFormats
  Integers64 <- MCIntegers64
  Floats <- MCFloats
SPECIFICATION Spec
INVARIANTS
  IntegersExact
  DivisionInvariant
  SumsBounded
  ProductsTruncated
  QuotientsNearest
  OrderNumeric
  ConversionsExact
  SqrtConverges
