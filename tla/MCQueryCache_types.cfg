SPECIFICATION Spec
CONSTANTS
  Archetype <- ThreeTypes
  Null = null
  Query <- RequireTwo
  Chunk = {c1}
  MaxQueries = 1
INVARIANTS
  TypesAreFound
CHECK_DEADLOCK FALSE
