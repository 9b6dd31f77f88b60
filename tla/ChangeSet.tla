------------------------------- MODULE ChangeSet -------------------------------
(***************************************************************************)
(* What ChunkListChanges promises: a set of changed archetypes, emptied by *)
(* visiting each of them.                                                  *)
(***************************************************************************)
CONSTANT Archetype

VARIABLES changed, cleaning

Init == changed = {} /\ cleaning = FALSE

Track(a) == ~cleaning /\ changed' = changed \cup {a} /\ UNCHANGED cleaning

Begin == ~cleaning /\ cleaning' = TRUE /\ UNCHANGED changed

Visit(a) == cleaning /\ a \in changed /\ changed' = changed \ {a} /\ UNCHANGED cleaning

End == cleaning /\ changed = {} /\ cleaning' = FALSE /\ UNCHANGED changed

Next == Begin \/ End \/ \E a \in Archetype : Track(a) \/ Visit(a)

Spec == Init /\ [][Next]_<<changed, cleaning>>
================================================================================
