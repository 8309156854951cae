SPECIFICATION Spec
CONSTANTS
  ConstOf <- MCConstOf
  NoVal <- MCNoVal
  AddressOf <- MCAddressOf
  FirstReg = 3
  MaxSsaReg = 6
  MaxEmitReg = 29
  MinTable = 4
  ShortMax = 7
  Words = {0, 1}
  Functions <- MCFunctions
INVARIANTS
  TypeOK
  LivenessExact
  LiveValuesApart
  FenwickCounts
  RelaxedExactly
  BlocksKeepTheirCode
  WindowExact
PROPERTIES
  ImplementsSsa
  TranslationEnds
