--------------------------- MODULE MCResourceManager ---------------------------
(* Two requests at a time and three names, of which one is in the bundle. *)
EXTENDS ResourceManager

CONSTANTS r1, r2, n1, n2, n3
================================================================================
