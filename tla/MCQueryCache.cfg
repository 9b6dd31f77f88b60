SPECIFICATION FairSpec
CONSTANTS
  Archetype <- MCArchetype
  Null = null
  Query <- MCQueries
  Chunk = {c1, c2}
  MaxQueries = 2
INVARIANTS
  CachesKept
PROPERTIES
  ImplementsChangeSet
  CleaningEnds
