------------------------- MODULE MCEntityComponentStore -------------------------
(* EntityComponentStore with a component P of plain data and a managed one, M. *)
EXTENDS EntityComponentStore

CONSTANTS P, M
MCTypeOrder == <<P, M>>
MCManaged == {M}

\* The wider the rows, the fewer in a chunk.
MCCapacity == [a \in SUBSET {P, M} |->
  IF a = {P, M} THEN 1 ELSE IF a = {} THEN 4 ELSE 2]
MCValue == {0, 1}
MCSymmetry == Permutations(Entity) \cup Permutations(Chunk)
================================================================================
