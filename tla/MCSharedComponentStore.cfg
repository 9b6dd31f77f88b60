SPECIFICATION SharedStoreSpec
CONSTANTS
  d = d
  a = a
  b = b
  c = c
  e = e
  Value = {d, a, b, c, e}
  Default = d
  hashOf <- MCHash
  InitialCapacity = 4
  MaximumSize = 4
  MaxCapacity = 8
  MaxReferences = 2
SYMMETRY MCSymmetry
INVARIANTS
  ReferencesExact
  FreeSlotsExact
  SearchFinds
  OnlyLostRefused
PROPERTIES
  ImplementsSharedValues
