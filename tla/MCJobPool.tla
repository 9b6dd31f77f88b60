------------------------------- MODULE MCJobPool -------------------------------
(* An instance of JobPool for TLC: two works. *)
EXTENDS JobPool
================================================================================
