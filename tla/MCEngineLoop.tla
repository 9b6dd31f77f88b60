----------------------------- MODULE MCEngineLoop -----------------------------
(* A game of two queries: one moves positions by speeds, one clamps them by   *)
(* the speeds.  OnFixedUpdate schedules a job for each or for none of them,   *)
(* OnUpdate nothing.                                                          *)
EXTENDS EngineLoop

Read(c)  == [type |-> c, write |-> FALSE]
Write(c) == [type |-> c, write |-> TRUE]

Move  == [access |-> <<Write("Position"), Read("Speed")>>, chunks |-> 2]
Clamp == [access |-> <<Read("Speed"), Write("Position")>>, chunks |-> 1]

MCQuery == {Move, Clamp}

Both == <<[query |-> Move, parallel |-> TRUE], [query |-> Clamp, parallel |-> FALSE]>>

MCPlans == {<<>>, Both}
NoPlans == {<<>>}
================================================================================
