------------------------------ MODULE EntityTable ------------------------------
(***************************************************************************)
(* What EntityComponentStore promises its callers, without chunks: a table *)
(* from entities to component values.  A call names the entities it is     *)
(* about (targets) and deals with them group by group, in any order; it    *)
(* touches no other entity.                                                *)
(***************************************************************************)
EXTENDS Naturals

CONSTANTS
  Entity,          \* entity handles
  Component,       \* component types, Entity itself left out
  Value,           \* values of a component
  Zero,            \* the value of zeroed memory
  Constructed(_)   \* the value of a component of a new entity

VARIABLES
  table,    \* per entity: Dead, or <<the value of each component it has>>
  targets   \* the entities the current call has still to deal with

Dead == <<>>
Alive == {e \in Entity : table[e] # Dead}

TableInit == table = [e \in Entity |-> Dead] /\ targets = {}

\* A call that changes or destroys the entities of S begins.
Begin == targets = {} /\ \E S \in SUBSET Alive : targets' = S /\ UNCHANGED table

\* Some new entities, all with the same components.
Create ==
  /\ targets = {}
  /\ \E S \in SUBSET (Entity \ Alive), a \in SUBSET Component :
       table' = [e \in Entity |->
                   IF e \in S THEN <<[t \in a |-> Constructed(t)]>> ELSE table[e]]
  /\ UNCHANGED targets

Destroy ==
  \E S \in SUBSET targets :
    /\ table' = [e \in Entity |-> IF e \in S THEN Dead ELSE table[e]]
    /\ targets' = targets \ S

\* Some targets get the components b: what they had already keeps its value,
\* what is new is zeroed memory.
Change ==
  \E S \in SUBSET targets, b \in SUBSET Component :
    /\ table' = [e \in Entity |->
                   IF e \in S
                     THEN <<[t \in b |-> IF t \in DOMAIN table[e][1]
                                            THEN table[e][1][t] ELSE Zero]>>
                     ELSE table[e]]
    /\ targets' = targets \ S

Write ==
  \E e \in Alive : \E t \in DOMAIN table[e][1], v \in Value :
    table' = [table EXCEPT ![e][1][t] = v] /\ UNCHANGED targets

\* The call throws: the targets it has not reached stay as they are.
GiveUp == targets # {} /\ targets' = {} /\ UNCHANGED table

TableNext == Begin \/ Create \/ Destroy \/ Change \/ Write \/ GiveUp

TableSpec == TableInit /\ [][TableNext]_<<table, targets>>
================================================================================
