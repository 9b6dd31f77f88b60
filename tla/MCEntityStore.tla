---------------------------- MODULE MCEntityStore ------------------------------
(* EntityStore for TLC: two threads, blocks small enough to fill up. *)
EXTENDS EntityStore
================================================================================
