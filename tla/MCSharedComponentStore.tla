------------------------- MODULE MCSharedComponentStore -------------------------
(* Values whose hash codes collide: b has the code of a, c meets them in the small
   table only, and e starts at the last place and wraps around. *)
EXTENDS SharedComponentStore

CONSTANTS d, a, b, c, e
MCHash == (d :> 4 @@ a :> 1 @@ b :> 1 @@ c :> 5 @@ e :> 3)
MCSymmetry == Permutations({a, b})
================================================================================
