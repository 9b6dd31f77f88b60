----------------------------- MODULE MCChunkStore -----------------------------
(* ChunkStore used by one thread, the engine's, as EntityComponentStore does. *)
EXTENDS ChunkStore
================================================================================
