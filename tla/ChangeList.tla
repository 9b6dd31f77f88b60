------------------------------ MODULE ChangeList ------------------------------
(***************************************************************************)
(* ECS::ChunkListChanges and EntityComponentStore::cleanChangeList: the    *)
(* archetypes whose chunk list changed since the last clean-up, linked     *)
(* through their own nextChangedArchetype.                                 *)
(*                                                                         *)
(* An archetype counts as "not in the list" when its link is null, but so  *)
(* is the link of the last one in the list: when that one is tracked again *)
(* it is linked in front as well, and the list becomes a cycle.  Cleaning  *)
(* cuts each link as it passes, which takes the cycle apart again.         *)
(***************************************************************************)
EXTENDS Integers, Sequences, FiniteSets

CONSTANTS
  Archetype,
  Null        \* the null pointer

ASSUME NullAssumption == Null \notin Archetype

VARIABLES
  head,     \* ChunkListChanges::head
  next,     \* per archetype: nextChangedArchetype
  cursor,   \* the loop variable of cleanChangeList
  cleaning  \* the engine thread is in cleanChangeList

listVars == <<head, next, cursor, cleaning>>

ListInit ==
  /\ head = Null
  /\ next = [a \in Archetype |-> Null]
  /\ cursor = Null
  /\ cleaning = FALSE

\* Mutant of Link: an archetype is linked in front wherever it is.
LinkAgain(a) == next' = [next EXCEPT ![a] = head] /\ head' = a

\* An archetype whose link is null becomes the head.
Link(a) ==
  IF next[a] = Null
    THEN next' = [next EXCEPT ![a] = head] /\ head' = a
    ELSE UNCHANGED <<next, head>>

trackArchetype(a) ==
  /\ ~cleaning
  /\ Link(a)
  /\ UNCHANGED <<cursor, cleaning>>

BeginClean ==
  /\ ~cleaning
  /\ cleaning' = TRUE
  /\ cursor' = head
  /\ UNCHANGED <<head, next>>

\* Mutant of Cut: the link stays.
CutNothing(a) == UNCHANGED next

\* archetype->nextChangedArchetype = nullptr
Cut(a) == next' = [next EXCEPT ![a] = Null]

\* One pass of the loop.
Visit(a) ==
  /\ cursor = a
  /\ cursor' = next[a]
  /\ Cut(a)
  /\ UNCHANGED <<head, cleaning>>

AtEnd == cursor = Null

EndClean ==
  /\ cleaning
  /\ AtEnd
  /\ head' = Null
  /\ cleaning' = FALSE
  /\ UNCHANGED <<next, cursor>>

--------------------------------------------------------------------------------
(* Correctness *)

\* What can be reached from a along the links, a included: the archetypes of every
\* set that holds a and follows its links.
Follows(S) == \A b \in S : next[b] # Null => next[b] \in S

Reachable(a) ==
  {b \in Archetype : \A S \in SUBSET Archetype :
                        (a # Null => a \in S) /\ Follows(S) => b \in S}

\* The types of the variables; the loop variable is used only while cleaning.
ListTypeOK ==
  /\ head \in Archetype \cup {Null}
  /\ next \in [Archetype -> Archetype \cup {Null}]
  /\ cursor \in Archetype \cup {Null}
  /\ cleaning \in BOOLEAN
  /\ cursor # Null => cleaning

\* The list stands for the set of archetypes that can be reached along it, and
\* is handled as ChangeSet says: tracking adds the archetype and loses none,
\* however often it is tracked and wherever it is in the list; a pass of the
\* loop takes out the archetype it visits or none (which it then meets once
\* more); cleaning ends only when all were visited.
Changed == Reachable(IF cleaning THEN cursor ELSE head)

Set == INSTANCE ChangeSet WITH changed <- Changed

ImplementsChangeSet == Set!Spec

\* Cleaning ends, on a cycle too.
CleaningEnds == cleaning ~> ~cleaning
================================================================================
