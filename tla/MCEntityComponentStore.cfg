SPECIFICATION Spec
CONSTANTS
  Entity = {e1, e2, e3, e4}
  Chunk = {c1, c2, c3}
  P = P
  M = M
  TypeOrder <- MCTypeOrder
  Managed <- MCManaged
  chunkCapacity <- MCCapacity
  Value <- MCValue
  MaxBatch = 2
SYMMETRY MCSymmetry
INVARIANTS
  PlacesAgree
  BooksAgree
  DestructedOnce
PROPERTIES
  ImplementsEntityTable
