--------------------------- MODULE QueryCacheProofs ---------------------------
(***************************************************************************)
(* Proofs about changed archetypes and the caches of queries, for any      *)
(* archetypes, chunks and queries.                                         *)
(***************************************************************************)
EXTENDS QueryCache, FiniteSetTheorems, SequenceTheorems, WellFoundedInduction, TLAPS

--------------------------------------------------------------------------------
(* Links *)

Links == [Archetype -> Archetype \cup {Null}]

\* Reachable, for any links.
ReachedBy(links, a) ==
  {b \in Archetype : \A S \in SUBSET Archetype :
     (a # Null => a \in S) /\ (\A c \in S : links[c] # Null => links[c] \in S) => b \in S}

LEMMA ReachedHolds ==
  ASSUME NEW links \in Links, NEW a \in Archetype \cup {Null}
  PROVE  /\ ReachedBy(links, a) \subseteq Archetype
         /\ a # Null => a \in ReachedBy(links, a)
         /\ \A b \in ReachedBy(links, a) :
              links[b] # Null => links[b] \in ReachedBy(links, a)
  <1>1. ReachedBy(links, a) \subseteq Archetype
    BY DEF ReachedBy
  <1>2. a # Null => a \in ReachedBy(links, a)
    BY DEF ReachedBy
  <1>3. ASSUME NEW b \in ReachedBy(links, a), links[b] # Null
        PROVE  links[b] \in ReachedBy(links, a)
    <2>1. links[b] \in Archetype
      BY <1>1, <1>3 DEF Links
    <2>2. ASSUME NEW S \in SUBSET Archetype, a # Null => a \in S,
                 \A c \in S : links[c] # Null => links[c] \in S
          PROVE  links[b] \in S
      BY <1>3, <2>2 DEF ReachedBy
    <2> QED BY <2>1, <2>2 DEF ReachedBy
  <1> QED BY <1>1, <1>2, <1>3

LEMMA ReachedLeast ==
  ASSUME NEW links, NEW a, NEW S \in SUBSET Archetype, a # Null => a \in S,
         \A c \in S : links[c] # Null => links[c] \in S
  PROVE  ReachedBy(links, a) \subseteq S
  BY DEF ReachedBy

\* An archetype linked in front of a list joins it, and the list stays whole.
LEMMA LinkedInFront ==
  ASSUME NEW links \in Links, NEW h \in Archetype \cup {Null}, NEW a \in Archetype,
         links[a] = Null, NEW new \in Links, new[a] = h,
         \A c \in Archetype : c # a => new[c] = links[c]
  PROVE  ReachedBy(new, a) = ReachedBy(links, h) \cup {a}
  <1> DEFINE old == ReachedBy(links, h)
             now == ReachedBy(new, a)
  <1>2. old \subseteq Archetype /\ (h # Null => h \in old)
        /\ \A b \in old : links[b] # Null => links[b] \in old
    BY ReachedHolds
  <1>3. now \subseteq Archetype /\ a \in now
        /\ \A b \in now : new[b] # Null => new[b] \in now
    BY ReachedHolds, NullAssumption
  <1>4. now \subseteq old \cup {a}
    <2>1. \A c \in old \cup {a} : new[c] # Null => new[c] \in old \cup {a}
      BY <1>2
    <2>2. old \cup {a} \in SUBSET Archetype
      BY <1>2
    <2> HIDE DEF old
    <2> QED BY <2>1, <2>2, ReachedLeast
  <1>5. old \subseteq now
    <2>1. h # Null => h \in now
      BY <1>3
    <2>2. \A c \in now : links[c] # Null => links[c] \in now
      BY <1>3
    <2> QED BY <1>3, <2>1, <2>2, ReachedLeast
  <1> QED BY <1>3, <1>4, <1>5

\* Cutting the link of the first one loses that one at most.
LEMMA CutInFront ==
  ASSUME NEW links \in Links, NEW a \in Archetype
  PROVE  /\ ReachedBy([links EXCEPT ![a] = Null], links[a]) \subseteq ReachedBy(links, a)
         /\ ReachedBy(links, a)
              \subseteq ReachedBy([links EXCEPT ![a] = Null], links[a]) \cup {a}
  <1> DEFINE new == [links EXCEPT ![a] = Null]
             old == ReachedBy(links, a)
             now == ReachedBy(new, links[a])
  <1>1. new \in Links /\ new[a] = Null /\ \A c \in Archetype : c # a => new[c] = links[c]
    BY DEF Links
  <1>2. old \subseteq Archetype /\ a \in old
        /\ \A b \in old : links[b] # Null => links[b] \in old
    BY ReachedHolds, NullAssumption
  <1>3. links[a] \in Archetype \cup {Null}
    BY DEF Links
  <1> HIDE DEF new
  <1>4. now \subseteq Archetype /\ (links[a] # Null => links[a] \in now)
        /\ \A b \in now : new[b] # Null => new[b] \in now
    BY <1>1, <1>3, ReachedHolds
  <1>5. now \subseteq old
    <2>1. \A c \in old : new[c] # Null => new[c] \in old
      BY <1>1, <1>2
    <2> QED BY <1>2, <2>1, ReachedLeast
  <1>6. old \subseteq now \cup {a}
    <2>1. \A c \in now \cup {a} : links[c] # Null => links[c] \in now \cup {a}
      BY <1>1, <1>4
    <2>2. now \cup {a} \in SUBSET Archetype
      BY <1>4
    <2> HIDE DEF now
    <2> QED BY <2>1, <2>2, ReachedLeast
  <1> QED BY <1>5, <1>6 DEF new

LEMMA NullReachesNone ==
  ASSUME NEW links
  PROVE  ReachedBy(links, Null) = {}
  <1>1. ReachedBy(links, Null) \subseteq {}
    BY {} \in SUBSET Archetype, ReachedLeast
  <1> QED BY <1>1

--------------------------------------------------------------------------------
(* The list of changed archetypes *)

\* The start of what has still to be visited.
Start == IF cleaning THEN cursor ELSE head

\* An archetype with a link is in the list: it is not to be linked in again.
ListInv == ListTypeOK /\ \A a \in Archetype : next[a] # Null => a \in Changed

LEMMA ChangedReached == Changed = ReachedBy(next, Start) /\ Changed' = ReachedBy(next', Start')
  BY DEF Changed, Reachable, Follows, ReachedBy, Start

LEMMA ListInitInv == ListInit => ListInv /\ Changed = {} /\ ~cleaning
  <1> SUFFICES ASSUME ListInit PROVE ListInv /\ Changed = {} /\ ~cleaning
    OBVIOUS
  <1> USE DEF ListInit
  <1>1. Changed = {}
    BY ChangedReached, NullReachesNone DEF Start
  <1> QED BY <1>1 DEF ListInv, ListTypeOK

LEMMA TrackStep ==
  ASSUME ListInv, NEW a \in Archetype, trackArchetype(a)
  PROVE  ListInv' /\ Changed' = Changed \cup {a} /\ ~cleaning /\ ~cleaning'
  <1> USE DEF ListInv, ListTypeOK, trackArchetype
  <1>0. /\ cleaning = FALSE /\ cleaning' = FALSE /\ cursor' = cursor
        /\ next \in Links /\ head \in Archetype \cup {Null}
    BY DEF Links
  <1>1. Changed = ReachedBy(next, head) /\ Changed' = ReachedBy(next', head')
    BY <1>0, ChangedReached DEF Start
  <1>2. CASE next[a] = Null
    <2>1. next' = [next EXCEPT ![a] = head] /\ head' = a
      BY <1>2 DEF Link
    <2>2. Changed' = Changed \cup {a}
      <3>1. ReachedBy(next', a) = ReachedBy(next, head) \cup {a}
        <4>1. /\ next \in Links /\ head \in Archetype \cup {Null} /\ next[a] = Null
              /\ next' \in Links /\ next'[a] = head
              /\ \A c \in Archetype : c # a => next'[c] = next[c]
          BY <1>0, <1>2, <2>1 DEF Links
        <4> HIDE DEF ListInv, ListTypeOK, trackArchetype
        <4> QED BY <4>1, LinkedInFront
      <3> QED BY <1>1, <2>1, <3>1
    <2>3. next' \in Links
      BY <1>0, <2>1 DEF Links
    <2>4. \A b \in Archetype : next'[b] # Null => b \in Changed'
      BY <1>0, <2>1, <2>2 DEF Links
    <2> QED BY <1>0, <2>1, <2>2, <2>3, <2>4 DEF Links
  <1>3. CASE next[a] # Null
    <2>1. UNCHANGED <<next, head>>
      BY <1>3 DEF Link
    <2>2. Changed' = Changed /\ a \in Changed
      BY <1>1, <1>3, <2>1
    <2> QED BY <1>0, <2>1, <2>2
  <1> QED BY <1>2, <1>3

LEMMA BeginStep ==
  ASSUME ListInv, BeginClean
  PROVE  ListInv' /\ Changed' = Changed /\ ~cleaning /\ cleaning'
  <1> USE DEF ListInv, ListTypeOK, BeginClean
  <1>1. Changed' = Changed
    BY ChangedReached DEF Start
  <1> QED BY <1>1

LEMMA VisitStep ==
  ASSUME ListInv, NEW a \in Archetype, Visit(a)
  PROVE  /\ ListInv' /\ cleaning /\ cleaning' /\ a \in Changed
         /\ Changed' \in {Changed, Changed \ {a}}
  <1> USE DEF ListInv, ListTypeOK, Visit, Cut
  <1>0. /\ cursor = a /\ cleaning /\ cleaning' = cleaning /\ cursor' = next[a]
        /\ next' = [next EXCEPT ![a] = Null] /\ next \in Links /\ head' = head
    BY NullAssumption DEF Links
  <1>1. Changed = ReachedBy(next, a) /\ Changed' = ReachedBy(next', next[a])
    BY <1>0, ChangedReached DEF Start
  <1>2. a \in Changed
    BY <1>0, <1>1, ReachedHolds, NullAssumption
  <1>3. Changed' \subseteq Changed /\ Changed \subseteq Changed' \cup {a}
    BY <1>0, <1>1, CutInFront
  <1>4. \A b \in Archetype : next'[b] # Null => b \in Changed'
    BY <1>0, <1>3 DEF Links
  <1>5. next' \in Links
    BY <1>0 DEF Links
  <1> QED BY <1>0, <1>2, <1>3, <1>4, <1>5 DEF Links

LEMMA EndStep ==
  ASSUME ListInv, EndClean
  PROVE  ListInv' /\ cleaning /\ ~cleaning' /\ Changed = {} /\ Changed' = {} /\ head' = Null
  <1> USE DEF ListInv, ListTypeOK, EndClean, AtEnd
  <1>1. Changed = {} /\ Changed' = {}
    BY ChangedReached, NullReachesNone DEF Start
  <1> QED BY <1>1

\* What a step does to the list.
ListStep ==
  \/ UNCHANGED listVars
  \/ \E a \in Archetype : trackArchetype(a) \/ Visit(a)
  \/ BeginClean \/ EndClean

LEMMA NextMeetsList == [Next]_vars => ListStep
  <1> SUFFICES ASSUME [Next]_vars PROVE ListStep
    OBVIOUS
  <1> USE DEF ListStep
  <1>1. ASSUME NEW types \in Archetype, getOrCreateArchetype(types) PROVE ListStep
    BY <1>1 DEF getOrCreateArchetype
  <1>2. ASSUME NEW a \in Archetype, NEW c \in Chunk, addToChunkList(a, c) PROVE ListStep
    BY <1>2 DEF addToChunkList
  <1>3. ASSUME NEW a \in Archetype, NEW i \in DOMAIN chunks[a], removeFromChunkList(a, i)
        PROVE  ListStep
    BY <1>3 DEF removeFromChunkList
  <1>4. ASSUME NEW query \in Query, createEntityQuery(query) PROVE ListStep
    BY <1>4 DEF createEntityQuery
  <1>5. ASSUME NEW id \in QueryID, getData(id) PROVE ListStep
    BY <1>5 DEF getData
  <1>6. CASE updateNewArchetypes
    BY <1>6 DEF updateNewArchetypes
  <1>7. CASE cleanChangeList
    BY <1>7 DEF cleanChangeList
  <1>8. CASE NextPass
    BY <1>8 DEF NextPass
  <1>9. CASE UNCHANGED vars
    BY <1>9 DEF vars
  <1> HIDE DEF ListStep
  <1> QED BY <1>1, <1>2, <1>3, <1>4, <1>5, <1>6, <1>7, <1>8, <1>9 DEF Next

\* Every step keeps the list whole and is one of the set of changed archetypes.
LEMMA ListStepKept ==
  ASSUME ListInv, ListStep
  PROVE  ListInv' /\ [Set!Next]_<<Changed, cleaning>>
  <1> USE DEF Set!Next, Set!Track, Set!Begin, Set!Visit, Set!End
  <1>1. CASE UNCHANGED listVars
    <2>1. Changed' = Changed /\ cleaning' = cleaning
      BY <1>1, ChangedReached DEF listVars, Start
    <2>2. ListInv'
      BY <1>1, <2>1 DEF listVars, ListInv, ListTypeOK
    <2> QED BY <2>1, <2>2
  <1>2. ASSUME NEW a \in Archetype, trackArchetype(a)
        PROVE  ListInv' /\ [Set!Next]_<<Changed, cleaning>>
    <2>1. UNCHANGED cleaning
      BY <1>2 DEF trackArchetype
    <2> QED BY <1>2, <2>1, TrackStep
  <1>3. ASSUME NEW a \in Archetype, Visit(a)
        PROVE  ListInv' /\ [Set!Next]_<<Changed, cleaning>>
    <2>1. UNCHANGED cleaning
      BY <1>3 DEF Visit
    <2> QED BY <1>3, <2>1, VisitStep
  <1>4. CASE BeginClean
    <2>1. cleaning' = TRUE
      BY <1>4 DEF BeginClean
    <2> QED BY <1>4, <2>1, BeginStep
  <1>5. CASE EndClean
    <2>1. cleaning' = FALSE
      BY <1>5 DEF EndClean
    <2> QED BY <1>5, <2>1, EndStep
  <1> QED BY <1>1, <1>2, <1>3, <1>4, <1>5 DEF ListStep

\* The list of changed archetypes is handled as a set of them: an archetype that is
\* tracked is visited by the next clean-up, however often it was tracked and
\* though the links may have become a cycle (trackArchetype, cleanChangeList).
THEOREM ListIsASet == Spec => ImplementsChangeSet
  <1>1. Init => ListInv /\ Set!Init
    BY ListInitInv DEF Init, ListInit, Set!Init
  <1>2. ListInv /\ [Next]_vars => ListInv' /\ [Set!Next]_<<Changed, cleaning>>
    BY NextMeetsList, ListStepKept
  <1> QED BY <1>1, <1>2, PTL DEF Spec, ImplementsChangeSet, Set!Spec

--------------------------------------------------------------------------------
(* Induction *)

\* A set of naturals that is not empty has a least element.
LEMMA LeastOf ==
  ASSUME NEW S \in SUBSET Nat, S # {}
  PROVE  \E n \in S : \A m \in S : n <= m
  <1>1. PICK n \in S : \A m \in S : ~(<<m, n>> \in OpToRel(<, Nat))
    BY NatLessThanWellFounded, WFMin
  <1>2. \A m \in S : ~(m < n)
    BY <1>1 DEF OpToRel
  <1> QED BY <1>2

\* Induction over the naturals, for a set.
LEMMA NaturalsBySet ==
  ASSUME NEW S, 0 \in S, \A n \in Nat : n \in S => n + 1 \in S
  PROVE  \A n \in Nat : n \in S
  <1> SUFFICES ASSUME Nat \ S # {} PROVE FALSE
    OBVIOUS
  <1>1. PICK n \in Nat \ S : \A m \in Nat \ S : n <= m
    BY LeastOf
  <1>2. n # 0 /\ n - 1 \in Nat /\ (n - 1) + 1 = n
    BY <1>1
  <1>3. n - 1 \notin S
    BY <1>2
  <1> QED BY <1>1, <1>2, <1>3

LEMMA CountedFromOne ==
  ASSUME NEW n \in Nat
  PROVE  IsFiniteSet(1 .. n) /\ Cardinality(1 .. n) = n
  BY FS_Interval

\* A function can be built value by value.
BuiltBy(N, S, base, step) ==
  {f \in [0 .. N -> S] : f[0] = base /\ \A n \in 1 .. N : f[n] = step[n][f[n - 1]]}

LEMMA StepByStep ==
  ASSUME NEW N \in Nat, NEW S, NEW base \in S, NEW step \in [1 .. N -> [S -> S]]
  PROVE  BuiltBy(N, S, base, step) # {}
  <1> DEFINE Built(m) == BuiltBy(m, S, base, step)
             Good == {m \in Nat : m <= N => Built(m) # {}}
  <1>1. 0 \in Good
    <2>1. [n \in 0 .. 0 |-> base] \in Built(0)
      BY DEF BuiltBy
    <2> QED BY <2>1
  <1>2. ASSUME NEW m \in Nat, m \in Good PROVE m + 1 \in Good
    <2> SUFFICES ASSUME m + 1 <= N PROVE Built(m + 1) # {}
      OBVIOUS
    <2>1. PICK f : f \in [0 .. m -> S] /\ f[0] = base
                   /\ \A n \in 1 .. m : f[n] = step[n][f[n - 1]]
      BY <1>2 DEF BuiltBy
    <2>2. step[m + 1] \in [S -> S] /\ f[m] \in S
      BY <2>1
    <2> DEFINE g == [n \in 0 .. m + 1 |-> IF n = m + 1 THEN step[m + 1][f[m]] ELSE f[n]]
    <2>3. g[m + 1] = step[m + 1][f[m]] /\ \A n \in 0 .. m : g[n] = f[n]
      OBVIOUS
    <2>4. g \in [0 .. m + 1 -> S]
      BY <2>1, <2>2
    <2> HIDE DEF g
    <2>5. \A n \in 1 .. m + 1 : g[n] = step[n][g[n - 1]]
      <3> TAKE n \in 1 .. m + 1
      <3>1. CASE n = m + 1
        BY <2>3, <3>1
      <3>2. CASE n \in 1 .. m
        <4>1. n - 1 \in 0 .. m /\ n \in 0 .. m
          BY <3>2
        <4> QED BY <2>1, <2>3, <3>2, <4>1
      <3> QED BY <3>1, <3>2
    <2>6. g[0] = base
      BY <2>1, <2>3
    <2>7. g \in Built(m + 1)
      BY <2>4, <2>5, <2>6 DEF BuiltBy
    <2> QED BY <2>7
  <1>3. N \in Good
    <2> HIDE DEF Good
    <2> QED BY <1>1, <1>2, NaturalsBySet
  <1> QED BY <1>3

--------------------------------------------------------------------------------
(* Sorted arrays *)

Increasing(s) == \A i, k \in DOMAIN s : i < k => s[i] < s[k]

LEMMA SortedExists ==
  ASSUME NEW types \in TypeSets
  PROVE  \E s \in [1 .. Cardinality(types) -> types] : Increasing(s)
  <1> DEFINE Sortable == {n \in Nat : \A T \in TypeSets :
                            Cardinality(T) = n => \E s \in [1 .. n -> T] : Increasing(s)}
  <1>1. 0 \in Sortable
    <2> SUFFICES ASSUME NEW T \in TypeSets
                 PROVE  \E s \in [1 .. 0 -> T] : Increasing(s)
      OBVIOUS
    <2>1. [i \in 1 .. 0 |-> i] \in [1 .. 0 -> T] /\ Increasing([i \in 1 .. 0 |-> i])
      BY DEF Increasing
    <2> QED BY <2>1
  <1>2. ASSUME NEW n \in Nat, n \in Sortable PROVE n + 1 \in Sortable
    <2> SUFFICES ASSUME NEW T \in TypeSets, Cardinality(T) = n + 1
                 PROVE  \E s \in [1 .. n + 1 -> T] : Increasing(s)
      OBVIOUS
    <2>1. IsFiniteSet(T) /\ T \in SUBSET Nat
      BY DEF TypeSets
    <2>2. T # {}
      BY <2>1, FS_EmptySet
    <2>3. PICK x \in T : \A y \in T : x <= y
      BY <2>1, <2>2, LeastOf
    <2>4. Cardinality(T \ {x}) = n /\ T \ {x} \in TypeSets
      <3>1. IsFiniteSet(T \ {x}) /\ Cardinality(T \ {x}) = n
        BY <2>1, FS_RemoveElement
      <3> QED BY <2>1, <3>1 DEF TypeSets
    <2>5. PICK s \in [1 .. n -> T \ {x}] : Increasing(s)
      BY <1>2, <2>4
    <2> DEFINE t == [i \in 1 .. n + 1 |-> IF i = 1 THEN x ELSE s[i - 1]]
    <2>6. t[1] = x /\ \A i \in 2 .. n + 1 : t[i] = s[i - 1] /\ t[i] \in T \ {x}
      OBVIOUS
    <2>7. t \in [1 .. n + 1 -> T]
      OBVIOUS
    <2> HIDE DEF t
    <2>8. Increasing(t)
      <3> SUFFICES ASSUME NEW i \in 1 .. n + 1, NEW k \in 1 .. n + 1, i < k
                   PROVE  t[i] < t[k]
        BY <2>7 DEF Increasing
      <3>0. k \in 2 .. n + 1
        OBVIOUS
      <3>1. k \in 2 .. n + 1 /\ t[k] \in T /\ t[k] # x /\ t[k] \in Nat /\ x \in Nat
        <4>1. t[k] \in T \ {x}
          BY <2>6, <3>0
        <4> QED BY <2>1, <3>0, <4>1
      <3>2. CASE i = 1
        BY <2>3, <2>6, <3>1, <3>2
      <3>3. CASE i # 1
        <4>1. i \in 2 .. n + 1 /\ i - 1 \in 1 .. n /\ k - 1 \in 1 .. n /\ i - 1 < k - 1
          BY <3>1, <3>3
        <4>2. s[i - 1] < s[k - 1]
          BY <2>5, <4>1 DEF Increasing
        <4> QED BY <2>6, <3>1, <4>1, <4>2
      <3> QED BY <3>2, <3>3
    <2> QED BY <2>7, <2>8
  <1>3. Cardinality(types) \in Nat
    BY FS_CardinalityType DEF TypeSets
  <1>4. Cardinality(types) \in Sortable
    <2> HIDE DEF Sortable
    <2> QED BY <1>1, <1>2, <1>3, NaturalsBySet
  <1> QED BY <1>4

\* A sorted array holds the types, each once.
LEMMA SortedProperties ==
  ASSUME NEW types \in TypeSets
  PROVE  /\ Sorted(types) \in Seq(Nat)
         /\ Increasing(Sorted(types))
         /\ {Sorted(types)[i] : i \in 1 .. Len(Sorted(types))} = types
         /\ Sorted(types) = <<>> <=> types = {}
  <1> DEFINE n == Cardinality(types)
             s == Sorted(types)
  <1>1. s \in [1 .. n -> types] /\ Increasing(s)
    BY SortedExists DEF Sorted, Increasing
  <1>2. IsFiniteSet(types) /\ types \subseteq Nat /\ n \in Nat
    BY FS_CardinalityType DEF TypeSets
  <1> HIDE DEF s
  <1>3. s \in Seq(Nat) /\ Len(s) = n
    <2> HIDE DEF n
    <2>1. s \in [1 .. n -> Nat]
      BY <1>1, <1>2
    <2> QED BY <1>2, <2>1
  <1>4. s \in Injection(1 .. n, types)
    <2>1. \A i, k \in 1 .. n : s[i] = s[k] => i = k
      <3> HIDE DEF n
      <3>1. \A i, k \in 1 .. n : i < k => s[i] < s[k]
        BY <1>1 DEF Increasing
      <3>2. \A i \in 1 .. n : s[i] \in Nat
        BY <1>1, <1>2
      <3>3. \A i, k \in 1 .. n : i < k => s[i] # s[k]
        BY <3>1, <3>2
      <3>4. \A i, k \in 1 .. n : i = k \/ i < k \/ k < i
        BY <1>2
      <3> QED BY <3>3, <3>4
    <2> QED BY <1>1, <2>1 DEF Injection, IsInjective
  <1>5. IsFiniteSet(1 .. n) /\ Cardinality(1 .. n) = n
    BY <1>2, CountedFromOne
  <1>6. s \in Surjection(1 .. n, types)
    BY <1>2, <1>4, <1>5, FS_Injection
  <1>7. {s[i] : i \in 1 .. n} = types
    BY <1>1, <1>6 DEF Surjection
  <1>8. s = <<>> <=> types = {}
    BY <1>2, <1>3, <1>7
  <1> QED BY <1>1, <1>3, <1>7, <1>8 DEF s

--------------------------------------------------------------------------------
(* The walks along two sorted arrays *)

\* One comparison of the walk for required types, of the one for common types.
RequiredAt(a, q, walk, i, k) ==
  IF i > Len(a) THEN FALSE
  ELSE IF a[i] = q[k] THEN k = Len(q) \/ walk[<<i + 1, k + 1>>]
  ELSE a[i] < q[k] /\ walk[<<i + 1, k>>]

CommonAt(a, q, walk, i, k) ==
  IF i > Len(a) THEN FALSE
  ELSE IF a[i] > q[k] THEN k < Len(q) /\ walk[<<i, k + 1>>]
  ELSE a[i] = q[k] \/ walk[<<i + 1, k>>]

Steps(a, q) == (1 .. Len(a) + 1) \X (1 .. Len(q))

\* What the walks decide, on what is left of the arrays.
AllOf(a, q, i, k) == \A n \in k .. Len(q) : \E m \in i .. Len(a) : a[m] = q[n]
SomeOf(a, q, i, k) == \E n \in k .. Len(q) : \E m \in i .. Len(a) : a[m] = q[n]

\* Where two walks agree on the steps ahead they agree.
AgreeByNext(LA, LQ, f, g) ==
  \A i \in 1 .. LA + 1, k \in 1 .. LQ :
    (\A j \in 1 .. LA + 1, m \in 1 .. LQ : j + m > i + k => f[<<j, m>>] = g[<<j, m>>])
      => f[<<i, k>>] = g[<<i, k>>]

LEMMA WalksAgree ==
  ASSUME NEW LA \in Nat, NEW LQ \in Nat, NEW f, NEW g, AgreeByNext(LA, LQ, f, g)
  PROVE  \A i \in 1 .. LA + 1, k \in 1 .. LQ : f[<<i, k>>] = g[<<i, k>>]
  <1> DEFINE Differ == {n \in Nat : \E i \in 1 .. LA + 1, k \in 1 .. LQ :
                          f[<<i, k>>] # g[<<i, k>>] /\ n = LA + 1 + LQ - (i + k)}
  <1> SUFFICES ASSUME NEW i0 \in 1 .. LA + 1, NEW k0 \in 1 .. LQ, f[<<i0, k0>>] # g[<<i0, k0>>]
               PROVE  FALSE
    OBVIOUS
  <1>1. Differ # {}
    <2>1. LA + 1 + LQ - (i0 + k0) \in Nat
      OBVIOUS
    <2> QED BY <2>1
  <1>2. PICK n \in Differ : \A m \in Differ : n <= m
    <2>1. Differ \in SUBSET Nat
      OBVIOUS
    <2> HIDE DEF Differ
    <2> QED BY <1>1, <2>1, LeastOf
  <1>3. PICK i \in 1 .. LA + 1, k \in 1 .. LQ :
          f[<<i, k>>] # g[<<i, k>>] /\ n = LA + 1 + LQ - (i + k)
    BY <1>2
  <1>4. ASSUME NEW j \in 1 .. LA + 1, NEW m \in 1 .. LQ, j + m > i + k
        PROVE  f[<<j, m>>] = g[<<j, m>>]
    <2> SUFFICES ASSUME f[<<j, m>>] # g[<<j, m>>] PROVE FALSE
      OBVIOUS
    <2>1. LA + 1 + LQ - (j + m) \in Nat /\ LA + 1 + LQ - (j + m) < n
      BY <1>3, <1>4
    <2>2. LA + 1 + LQ - (j + m) \in Differ
      BY <2>1
    <2> HIDE DEF Differ
    <2>3. n <= LA + 1 + LQ - (j + m)
      BY <1>2, <2>2
    <2>4. n \in Nat
      BY <1>3
    <2> QED BY <2>1, <2>3, <2>4
  <1> QED BY <1>3, <1>4 DEF AgreeByNext

LEMMA AllOfStep ==
  ASSUME NEW a \in Seq(Nat), NEW q \in Seq(Nat), Increasing(a), Increasing(q),
         NEW i \in 1 .. Len(a) + 1, NEW k \in 1 .. Len(q)
  PROVE  /\ i > Len(a) => ~AllOf(a, q, i, k)
         /\ i <= Len(a) /\ a[i] = q[k] =>
              (AllOf(a, q, i, k) <=> k = Len(q) \/ AllOf(a, q, i + 1, k + 1))
         /\ i <= Len(a) /\ a[i] < q[k] => (AllOf(a, q, i, k) <=> AllOf(a, q, i + 1, k))
         /\ i <= Len(a) /\ a[i] > q[k] => ~AllOf(a, q, i, k)
  <1>1. i > Len(a) => ~AllOf(a, q, i, k)
    BY DEF AllOf
  <1>2. ASSUME i <= Len(a), a[i] = q[k]
        PROVE  AllOf(a, q, i, k) <=> k = Len(q) \/ AllOf(a, q, i + 1, k + 1)
    <2>1. \A n \in k + 1 .. Len(q) : q[n] > a[i]
      BY <1>2 DEF Increasing
    <2>2. \A n \in k + 1 .. Len(q) :
            (\E m \in i .. Len(a) : a[m] = q[n]) <=> (\E m \in i + 1 .. Len(a) : a[m] = q[n])
      <3> TAKE n \in k + 1 .. Len(q)
      <3>1. a[i] # q[n]
        BY <1>2, <2>1
      <3>2. \A m \in i .. Len(a) : m = i \/ m \in i + 1 .. Len(a)
        OBVIOUS
      <3>3. \A m \in i + 1 .. Len(a) : m \in i .. Len(a)
        OBVIOUS
      <3> QED BY <3>1, <3>2, <3>3
    <2>3. \E m \in i .. Len(a) : a[m] = q[k]
      BY <1>2
    <2>4. AllOf(a, q, i, k) <=> \A n \in k + 1 .. Len(q) : \E m \in i .. Len(a) : a[m] = q[n]
      <3>1. \A n \in k .. Len(q) : n = k \/ n \in k + 1 .. Len(q)
        OBVIOUS
      <3>2. \A n \in k + 1 .. Len(q) : n \in k .. Len(q)
        OBVIOUS
      <3> QED BY <2>3, <3>1, <3>2 DEF AllOf
    <2>5. AllOf(a, q, i, k) <=> AllOf(a, q, i + 1, k + 1)
      BY <2>2, <2>4 DEF AllOf
    <2>6. k = Len(q) => AllOf(a, q, i + 1, k + 1)
      BY DEF AllOf
    <2> QED BY <2>5, <2>6
  <1>3. ASSUME i <= Len(a), a[i] < q[k]
        PROVE  AllOf(a, q, i, k) <=> AllOf(a, q, i + 1, k)
    <2>1. \A n \in k .. Len(q) : q[n] > a[i]
      <3> TAKE n \in k .. Len(q)
      <3>1. n = k \/ q[n] > q[k]
        BY DEF Increasing
      <3> QED BY <1>3, <3>1
    <2>2. \A n \in k .. Len(q) :
            (\E m \in i .. Len(a) : a[m] = q[n]) <=> (\E m \in i + 1 .. Len(a) : a[m] = q[n])
      <3> TAKE n \in k .. Len(q)
      <3>1. a[i] # q[n]
        BY <1>3, <2>1
      <3>2. \A m \in i .. Len(a) : m = i \/ m \in i + 1 .. Len(a)
        OBVIOUS
      <3>3. \A m \in i + 1 .. Len(a) : m \in i .. Len(a)
        OBVIOUS
      <3> QED BY <3>1, <3>2, <3>3
    <2> QED BY <2>2 DEF AllOf
  <1>4. ASSUME i <= Len(a), a[i] > q[k]
        PROVE  ~AllOf(a, q, i, k)
    <2>1. \A m \in i .. Len(a) : a[m] > q[k]
      <3> TAKE m \in i .. Len(a)
      <3>1. m = i \/ a[m] > a[i]
        BY DEF Increasing
      <3> QED BY <1>4, <3>1
    <2> QED BY <2>1 DEF AllOf
  <1> QED BY <1>1, <1>2, <1>3, <1>4

LEMMA SomeOfStep ==
  ASSUME NEW a \in Seq(Nat), NEW q \in Seq(Nat), Increasing(a), Increasing(q),
         NEW i \in 1 .. Len(a) + 1, NEW k \in 1 .. Len(q)
  PROVE  /\ i > Len(a) => ~SomeOf(a, q, i, k)
         /\ i <= Len(a) /\ a[i] > q[k] =>
              (SomeOf(a, q, i, k) <=> k < Len(q) /\ SomeOf(a, q, i, k + 1))
         /\ i <= Len(a) /\ a[i] = q[k] => SomeOf(a, q, i, k)
         /\ i <= Len(a) /\ a[i] < q[k] => (SomeOf(a, q, i, k) <=> SomeOf(a, q, i + 1, k))
  <1>1. i > Len(a) => ~SomeOf(a, q, i, k)
    BY DEF SomeOf
  <1>2. ASSUME i <= Len(a), a[i] > q[k]
        PROVE  SomeOf(a, q, i, k) <=> k < Len(q) /\ SomeOf(a, q, i, k + 1)
    <2>1. \A m \in i .. Len(a) : a[m] > q[k]
      <3> TAKE m \in i .. Len(a)
      <3>1. m = i \/ a[m] > a[i]
        BY DEF Increasing
      <3> QED BY <1>2, <3>1
    <2>2. \A n \in k .. Len(q) : n = k \/ n \in k + 1 .. Len(q)
      OBVIOUS
    <2>3. \A n \in k + 1 .. Len(q) : n \in k .. Len(q) /\ k < Len(q)
      OBVIOUS
    <2>4. \A m \in i .. Len(a) : a[m] # q[k]
      BY <2>1
    <2>5. SomeOf(a, q, i, k) => k < Len(q) /\ SomeOf(a, q, i, k + 1)
      BY <2>2, <2>3, <2>4 DEF SomeOf
    <2>6. SomeOf(a, q, i, k + 1) => SomeOf(a, q, i, k)
      BY <2>3 DEF SomeOf
    <2> QED BY <2>5, <2>6
  <1>3. i <= Len(a) /\ a[i] = q[k] => SomeOf(a, q, i, k)
    BY DEF SomeOf
  <1>4. ASSUME i <= Len(a), a[i] < q[k]
        PROVE  SomeOf(a, q, i, k) <=> SomeOf(a, q, i + 1, k)
    <2>1. \A n \in k .. Len(q) : a[i] # q[n]
      <3> TAKE n \in k .. Len(q)
      <3>1. n = k \/ q[n] > q[k]
        BY DEF Increasing
      <3> QED BY <1>4, <3>1
    <2>2. \A m \in i .. Len(a) : m = i \/ m \in i + 1 .. Len(a)
      OBVIOUS
    <2>3. \A m \in i + 1 .. Len(a) : m \in i .. Len(a)
      OBVIOUS
    <2> QED BY <2>1, <2>2, <2>3 DEF SomeOf
  <1> QED BY <1>1, <1>2, <1>3, <1>4

\* The walk for required types finds out whether the archetype has all of them.
LEMMA RequiredIsAll ==
  ASSUME NEW a \in Seq(Nat), NEW q \in Seq(Nat), Increasing(a), Increasing(q), q # <<>>
  PROVE  Required(a, q) <=> AllOf(a, q, 1, 1)
  <1> DEFINE f == CHOOSE walk : walk = [at \in Steps(a, q) |-> RequiredAt(a, q, walk, at[1], at[2])]
             g == [at \in Steps(a, q) |-> AllOf(a, q, at[1], at[2])]
  <1>0. Len(a) \in Nat /\ Len(q) \in Nat /\ 1 \in 1 .. Len(q) /\ 1 \in 1 .. Len(a) + 1
    OBVIOUS
  <1>1. \A i \in 1 .. Len(a) + 1, k \in 1 .. Len(q) : g[<<i, k>>] = AllOf(a, q, i, k)
    BY DEF Steps
  <1>2. ASSUME NEW h, NEW i \in 1 .. Len(a) + 1, NEW k \in 1 .. Len(q),
               \A j \in 1 .. Len(a) + 1, m \in 1 .. Len(q) :
                 j + m > i + k => h[<<j, m>>] = AllOf(a, q, j, m)
        PROVE  RequiredAt(a, q, h, i, k) <=> AllOf(a, q, i, k)
    <2>1. CASE i > Len(a)
      BY <2>1, AllOfStep DEF RequiredAt
    <2>2. CASE i <= Len(a)
      <3>1. ASSUME k < Len(q) PROVE h[<<i + 1, k + 1>>] = AllOf(a, q, i + 1, k + 1)
        <4>1. i + 1 \in 1 .. Len(a) + 1 /\ k + 1 \in 1 .. Len(q) /\ (i + 1) + (k + 1) > i + k
          BY <2>2, <3>1
        <4> QED BY <1>2, <4>1
      <3>2. h[<<i + 1, k>>] = AllOf(a, q, i + 1, k)
        <4>1. i + 1 \in 1 .. Len(a) + 1 /\ (i + 1) + k > i + k
          BY <2>2
        <4> HIDE DEF f, g
        <4> QED BY <1>2, <4>1
      <3>3. a[i] \in Nat /\ q[k] \in Nat
        BY <2>2
      <3>4. CASE a[i] = q[k]
        <4>1. AllOf(a, q, i, k) <=> k = Len(q) \/ AllOf(a, q, i + 1, k + 1)
          BY <2>2, <3>4, AllOfStep
        <4>2. RequiredAt(a, q, h, i, k) <=> k = Len(q) \/ h[<<i + 1, k + 1>>]
          BY <2>2, <3>4 DEF RequiredAt
        <4>3. k = Len(q) \/ k < Len(q)
          OBVIOUS
        <4> QED BY <3>1, <4>1, <4>2, <4>3
      <3>5. CASE a[i] < q[k]
        <4>1. AllOf(a, q, i, k) <=> AllOf(a, q, i + 1, k)
          BY <2>2, <3>5, AllOfStep
        <4>2. RequiredAt(a, q, h, i, k) <=> h[<<i + 1, k>>]
          <5>1. ~(i > Len(a)) /\ a[i] # q[k] /\ ~(a[i] > q[k])
            BY <2>2, <3>3, <3>5
          <5> HIDE DEF f, g
          <5> QED BY <3>5, <5>1 DEF RequiredAt
        <4> QED BY <3>2, <4>1, <4>2
      <3>6. CASE a[i] > q[k]
        <4>1. ~AllOf(a, q, i, k)
          BY <2>2, <3>6, AllOfStep
        <4>2. ~RequiredAt(a, q, h, i, k)
          <5>1. ~(i > Len(a)) /\ a[i] # q[k] /\ ~(a[i] < q[k])
            BY <2>2, <3>3, <3>6
          <5> QED BY <5>1 DEF RequiredAt
        <4> QED BY <4>1, <4>2
      <3> QED BY <3>3, <3>4, <3>5, <3>6
    <2> QED BY <2>1, <2>2
  <1> DEFINE Again(h) == [at \in Steps(a, q) |-> RequiredAt(a, q, h, at[1], at[2])]
  <1>3. \A h : \A i \in 1 .. Len(a) + 1, k \in 1 .. Len(q) :
          Again(h)[<<i, k>>] = RequiredAt(a, q, h, i, k)
    BY DEF Steps
  <1>4. g = Again(g)
    <2>1. ASSUME NEW i \in 1 .. Len(a) + 1, NEW k \in 1 .. Len(q)
          PROVE  RequiredAt(a, q, g, i, k) <=> AllOf(a, q, i, k)
      <3> HIDE DEF g
      <3> QED BY <1>1, <1>2
    <2>2. \A at \in Steps(a, q) : RequiredAt(a, q, g, at[1], at[2]) <=> AllOf(a, q, at[1], at[2])
      <3> HIDE DEF g
      <3> QED BY <2>1 DEF Steps
    <2>3. \A i, k : AllOf(a, q, i, k) \in BOOLEAN
      BY DEF AllOf
    <2>4. \A at \in Steps(a, q) : RequiredAt(a, q, g, at[1], at[2]) \in BOOLEAN
      <3> HIDE DEF g
      <3> QED BY DEF RequiredAt
    <2> HIDE DEF g
    <2> QED BY <2>2, <2>3, <2>4 DEF g
  <1>5. f = Again(f)
    <2>1. \E h : h = Again(h)
      BY <1>4
    <2> QED BY <2>1
  <1> HIDE DEF f, g, Again
  <1>6. \A i \in 1 .. Len(a) + 1, k \in 1 .. Len(q) : f[<<i, k>>] = RequiredAt(a, q, f, i, k)
    BY <1>3, <1>5
  <1>7. ASSUME NEW i \in 1 .. Len(a) + 1, NEW k \in 1 .. Len(q),
               \A j \in 1 .. Len(a) + 1, m \in 1 .. Len(q) :
                 j + m > i + k => f[<<j, m>>] = g[<<j, m>>]
        PROVE  f[<<i, k>>] = g[<<i, k>>]
    <2>1. RequiredAt(a, q, f, i, k) <=> AllOf(a, q, i, k)
      <3>1. \A j \in 1 .. Len(a) + 1, m \in 1 .. Len(q) :
              j + m > i + k => f[<<j, m>>] = AllOf(a, q, j, m)
        BY <1>1, <1>7
      <3> QED BY <1>2, <3>1
    <2>2. RequiredAt(a, q, f, i, k) \in BOOLEAN /\ AllOf(a, q, i, k) \in BOOLEAN
      BY DEF RequiredAt, AllOf
    <2>3. RequiredAt(a, q, f, i, k) = AllOf(a, q, i, k)
      BY <2>1, <2>2
    <2> QED BY <1>1, <1>6, <2>3
  <1>8. f[<<1, 1>>] = g[<<1, 1>>]
    <2>1. AgreeByNext(Len(a), Len(q), f, g)
      BY <1>7 DEF AgreeByNext
    <2> QED BY <1>0, <2>1, WalksAgree
  <1>9. Required(a, q) = f[<<1, 1>>]
    BY DEF Required, f, RequiredAt, Steps
  <1> QED BY <1>0, <1>1, <1>8, <1>9
\* The walk for common types finds out whether the archetype has one of them.
LEMMA CommonIsSome ==
  ASSUME NEW a \in Seq(Nat), NEW q \in Seq(Nat), Increasing(a), Increasing(q), q # <<>>
  PROVE  Common(a, q) <=> SomeOf(a, q, 1, 1)
  <1> DEFINE f == CHOOSE walk : walk = [at \in Steps(a, q) |-> CommonAt(a, q, walk, at[1], at[2])]
             g == [at \in Steps(a, q) |-> SomeOf(a, q, at[1], at[2])]
  <1>0. Len(a) \in Nat /\ Len(q) \in Nat /\ 1 \in 1 .. Len(q) /\ 1 \in 1 .. Len(a) + 1
    OBVIOUS
  <1>1. \A i \in 1 .. Len(a) + 1, k \in 1 .. Len(q) : g[<<i, k>>] = SomeOf(a, q, i, k)
    BY DEF Steps
  <1>2. ASSUME NEW h, NEW i \in 1 .. Len(a) + 1, NEW k \in 1 .. Len(q),
               \A j \in 1 .. Len(a) + 1, m \in 1 .. Len(q) :
                 j + m > i + k => h[<<j, m>>] = SomeOf(a, q, j, m)
        PROVE  CommonAt(a, q, h, i, k) <=> SomeOf(a, q, i, k)
    <2>1. CASE i > Len(a)
      BY <2>1, SomeOfStep DEF CommonAt
    <2>2. CASE i <= Len(a)
      <3>1. ASSUME k < Len(q) PROVE h[<<i, k + 1>>] = SomeOf(a, q, i, k + 1)
        <4>1. k + 1 \in 1 .. Len(q) /\ i + (k + 1) > i + k
          BY <3>1
        <4> QED BY <1>2, <4>1
      <3>2. h[<<i + 1, k>>] = SomeOf(a, q, i + 1, k)
        <4>1. i + 1 \in 1 .. Len(a) + 1 /\ (i + 1) + k > i + k
          BY <2>2
        <4> HIDE DEF f, g
        <4> QED BY <1>2, <4>1
      <3>3. a[i] \in Nat /\ q[k] \in Nat
        BY <2>2
      <3>4. CASE a[i] > q[k]
        <4>1. SomeOf(a, q, i, k) <=> k < Len(q) /\ SomeOf(a, q, i, k + 1)
          BY <2>2, <3>4, SomeOfStep
        <4>2. CommonAt(a, q, h, i, k) <=> k < Len(q) /\ h[<<i, k + 1>>]
          BY <2>2, <3>4 DEF CommonAt
        <4> QED BY <3>1, <4>1, <4>2
      <3>5. CASE a[i] < q[k]
        <4>1. SomeOf(a, q, i, k) <=> SomeOf(a, q, i + 1, k)
          BY <2>2, <3>5, SomeOfStep
        <4>2. CommonAt(a, q, h, i, k) <=> h[<<i + 1, k>>]
          <5>1. ~(i > Len(a)) /\ a[i] # q[k] /\ ~(a[i] > q[k])
            BY <2>2, <3>3, <3>5
          <5> HIDE DEF f, g
          <5> QED BY <3>5, <5>1 DEF CommonAt
        <4> QED BY <3>2, <4>1, <4>2
      <3>6. CASE a[i] = q[k]
        <4>1. SomeOf(a, q, i, k)
          BY <2>2, <3>6, SomeOfStep
        <4>2. CommonAt(a, q, h, i, k)
          BY <2>2, <3>3, <3>6 DEF CommonAt
        <4> QED BY <4>1, <4>2
      <3> QED BY <3>3, <3>4, <3>5, <3>6
    <2> QED BY <2>1, <2>2
  <1> DEFINE Again(h) == [at \in Steps(a, q) |-> CommonAt(a, q, h, at[1], at[2])]
  <1>3. \A h : \A i \in 1 .. Len(a) + 1, k \in 1 .. Len(q) :
          Again(h)[<<i, k>>] = CommonAt(a, q, h, i, k)
    BY DEF Steps
  <1>4. g = Again(g)
    <2>1. ASSUME NEW i \in 1 .. Len(a) + 1, NEW k \in 1 .. Len(q)
          PROVE  CommonAt(a, q, g, i, k) <=> SomeOf(a, q, i, k)
      <3> HIDE DEF g
      <3> QED BY <1>1, <1>2
    <2>2. \A at \in Steps(a, q) : CommonAt(a, q, g, at[1], at[2]) <=> SomeOf(a, q, at[1], at[2])
      <3> HIDE DEF g
      <3> QED BY <2>1 DEF Steps
    <2>3. \A i, k : SomeOf(a, q, i, k) \in BOOLEAN
      BY DEF SomeOf
    <2>4. \A at \in Steps(a, q) : CommonAt(a, q, g, at[1], at[2]) \in BOOLEAN
      <3> HIDE DEF g
      <3> QED BY DEF CommonAt
    <2> HIDE DEF g
    <2> QED BY <2>2, <2>3, <2>4 DEF g
  <1>5. f = Again(f)
    <2>1. \E h : h = Again(h)
      BY <1>4
    <2> QED BY <2>1
  <1> HIDE DEF f, g, Again
  <1>6. \A i \in 1 .. Len(a) + 1, k \in 1 .. Len(q) : f[<<i, k>>] = CommonAt(a, q, f, i, k)
    BY <1>3, <1>5
  <1>7. ASSUME NEW i \in 1 .. Len(a) + 1, NEW k \in 1 .. Len(q),
               \A j \in 1 .. Len(a) + 1, m \in 1 .. Len(q) :
                 j + m > i + k => f[<<j, m>>] = g[<<j, m>>]
        PROVE  f[<<i, k>>] = g[<<i, k>>]
    <2>1. CommonAt(a, q, f, i, k) <=> SomeOf(a, q, i, k)
      <3>1. \A j \in 1 .. Len(a) + 1, m \in 1 .. Len(q) :
              j + m > i + k => f[<<j, m>>] = SomeOf(a, q, j, m)
        BY <1>1, <1>7
      <3> QED BY <1>2, <3>1
    <2>2. CommonAt(a, q, f, i, k) \in BOOLEAN /\ SomeOf(a, q, i, k) \in BOOLEAN
      BY DEF CommonAt, SomeOf
    <2>3. CommonAt(a, q, f, i, k) = SomeOf(a, q, i, k)
      BY <2>1, <2>2
    <2> QED BY <1>1, <1>6, <2>3
  <1>8. f[<<1, 1>>] = g[<<1, 1>>]
    <2>1. AgreeByNext(Len(a), Len(q), f, g)
      BY <1>7 DEF AgreeByNext
    <2> QED BY <1>0, <2>1, WalksAgree
  <1>9. Common(a, q) = f[<<1, 1>>]
    BY DEF Common, f, CommonAt, Steps
  <1> QED BY <1>0, <1>1, <1>8, <1>9
\* testMatchingArchetype decides what a query asks for.
LEMMA MatchingIsAsked ==
  ASSUME NEW archetype \in Archetype, NEW query \in Query
  PROVE  Matching(archetype, query) <=> Asked(query, archetype)
  <1> DEFINE a == Sorted(archetype)
  <1>1. archetype \in TypeSets /\ query.all \in TypeSets /\ query.any \in TypeSets
        /\ query.none \in TypeSets
    BY QueryAssumption
  <1>2. /\ a \in Seq(Nat) /\ Increasing(a)
        /\ {a[i] : i \in 1 .. Len(a)} = archetype
    BY <1>1, SortedProperties
  <1> HIDE DEF a
  <1>3. ASSUME NEW types \in TypeSets
        PROVE  /\ Sorted(types) = <<>> \/ Required(a, Sorted(types)) <=> types \subseteq archetype
               /\ Sorted(types) = <<>> <=> types = {}
               /\ Sorted(types) # <<>> =>
                    (Common(a, Sorted(types)) <=> types \cap archetype # {})
    <2> DEFINE q == Sorted(types)
    <2>1. /\ q \in Seq(Nat) /\ Increasing(q) /\ (q = <<>> <=> types = {})
          /\ {q[i] : i \in 1 .. Len(q)} = types
      BY SortedProperties
    <2> HIDE DEF q
    <2>2. AllOf(a, q, 1, 1) <=> types \subseteq archetype
      BY <1>2, <2>1 DEF AllOf
    <2>3. SomeOf(a, q, 1, 1) <=> types \cap archetype # {}
      BY <1>2, <2>1 DEF SomeOf
    <2>4. q # <<>> => (Required(a, q) <=> types \subseteq archetype)
      BY <1>2, <2>1, <2>2, RequiredIsAll
    <2>5. q # <<>> => (Common(a, q) <=> types \cap archetype # {})
      BY <1>2, <2>1, <2>3, CommonIsSome
    <2>6. q = <<>> => types \subseteq archetype
      BY <2>1
    <2> QED BY <2>1, <2>4, <2>5, <2>6 DEF q
  <1>4. testMatchingArchetypeRequiredComponent(a, Sorted(query.all))
          <=> query.all \subseteq archetype
    BY <1>1, <1>3 DEF testMatchingArchetypeRequiredComponent
  <1>5. testMatchingArchetypeOptionalComponent(a, Sorted(query.any))
          <=> query.any = {} \/ query.any \cap archetype # {}
    BY <1>1, <1>3 DEF testMatchingArchetypeOptionalComponent
  <1>6. testMatchingArchetypeExcludedComponent(a, Sorted(query.none))
          <=> query.none \cap archetype = {}
    BY <1>1, <1>3 DEF testMatchingArchetypeExcludedComponent
  <1> QED BY <1>4, <1>5, <1>6 DEF Matching, Asked, a

--------------------------------------------------------------------------------
(* The records of queries *)

Indices == {TypesIndex(archetype, query) : archetype \in Archetype, query \in Query}
Entries == [value : Chunk, archetypeIndex : Nat]
Datas == [query : Query, archetypes : Seq(Archetype), typesIndex : Seq(Indices),
          cache : Seq(Entries), validCache : BOOLEAN, returned : BOOLEAN]

\* An archetype is registered once, with its indices; the cache refers to those registered.
WellFormed(data) ==
  /\ IsInjective(data.archetypes)
  /\ Len(data.typesIndex) = Len(data.archetypes)
  /\ \A k \in DOMAIN data.cache : data.cache[k].archetypeIndex \in DOMAIN data.archetypes
  /\ \A a \in Range(data.archetypes) : Asked(data.query, a)

\* What becomes of a query's record when the archetypes of tried are given to it.
Grown(data, now, tried) ==
  /\ now \in Datas /\ WellFormed(now)
  /\ now.query = data.query /\ now.returned = data.returned
  /\ Range(now.archetypes) =
       Range(data.archetypes) \cup {a \in tried : Asked(data.query, a)}
  /\ now.validCache => now = data

\* An injective sequence stays so when something new is appended.
LEMMA AppendsNew ==
  ASSUME NEW S, NEW s \in Seq(S), NEW x \in S, IsInjective(s), x \notin Range(s)
  PROVE  /\ IsInjective(Append(s, x))
         /\ Range(Append(s, x)) = Range(s) \cup {x}
  <1>1. /\ Append(s, x) \in Seq(S) /\ DOMAIN Append(s, x) = 1 .. Len(s) + 1
        /\ \A k \in 1 .. Len(s) : Append(s, x)[k] = s[k]
        /\ Append(s, x)[Len(s) + 1] = x
        /\ DOMAIN s = 1 .. Len(s) /\ Len(s) \in Nat
    OBVIOUS
  <1>2. \A k \in 1 .. Len(s) + 1 : k \in 1 .. Len(s) \/ k = Len(s) + 1
    BY <1>1
  <1>3. IsInjective(Append(s, x))
    <2> SUFFICES ASSUME NEW i \in 1 .. Len(s) + 1, NEW k \in 1 .. Len(s) + 1,
                        Append(s, x)[i] = Append(s, x)[k]
                 PROVE  i = k
      BY <1>1 DEF IsInjective
    <2>1. \A m \in 1 .. Len(s) : s[m] # x
      BY <1>1 DEF Range
    <2> QED BY <1>1, <1>2, <2>1 DEF IsInjective
  <1>4. Range(Append(s, x)) = Range(s) \cup {x}
    <2>1. \A y \in Range(Append(s, x)) : y \in Range(s) \cup {x}
      BY <1>1, <1>2 DEF Range
    <2>2. \A y \in Range(s) : y \in Range(Append(s, x))
      <3> TAKE y \in Range(s)
      <3>1. PICK k \in 1 .. Len(s) : y = s[k]
        BY <1>1 DEF Range
      <3>2. k \in 1 .. Len(s) + 1 /\ Append(s, x)[k] = y
        BY <1>1, <3>1
      <3> QED BY <1>1, <3>2 DEF Range
    <2>3. x \in Range(Append(s, x))
      <3>1. Len(s) + 1 \in 1 .. Len(s) + 1
        BY <1>1
      <3> QED BY <1>1, <3>1 DEF Range
    <2> QED BY <2>1, <2>2, <2>3
  <1> QED BY <1>3, <1>4

LEMMA WithArchetypeGrows ==
  ASSUME NEW data \in Datas, WellFormed(data), NEW archetype \in Archetype
  PROVE  Grown(data, WithArchetype(data, archetype), {archetype})
  <1> DEFINE now == WithArchetype(data, archetype)
  <1>1. data.query \in Query /\ data.archetypes \in Seq(Archetype)
        /\ data.typesIndex \in Seq(Indices) /\ data.cache \in Seq(Entries)
    BY DEF Datas
  <1>2. Matching(archetype, data.query) <=> Asked(data.query, archetype)
    BY <1>1, MatchingIsAsked
  <1>3. CASE ~Matching(archetype, data.query) \/ InMask(data, archetype)
    <2>1. now = data
      BY <1>3 DEF WithArchetype
    <2>2. {a \in {archetype} : Asked(data.query, a)} \subseteq Range(data.archetypes)
      BY <1>2, <1>3 DEF InMask
    <2> QED BY <2>1, <2>2 DEF Grown
  <1>4. CASE Matching(archetype, data.query) /\ archetype \notin Range(data.archetypes)
    <2> DEFINE archs == Append(data.archetypes, archetype)
               inds == Append(data.typesIndex, TypesIndex(archetype, data.query))
    <2>1. now = [data EXCEPT !.archetypes = archs, !.typesIndex = inds, !.validCache = FALSE]
      BY <1>4 DEF WithArchetype, InMask
    <2>2. archs \in Seq(Archetype) /\ Len(archs) = Len(data.archetypes) + 1
      BY <1>1
    <2>3. inds \in Seq(Indices) /\ Len(inds) = Len(data.typesIndex) + 1
      <3>1. TypesIndex(archetype, data.query) \in Indices
        BY <1>1 DEF Indices
      <3> HIDE DEF Indices
      <3> QED BY <1>1, <3>1
    <2>4. IsInjective(archs) /\ Range(archs) = Range(data.archetypes) \cup {archetype}
      BY <1>1, <1>4, AppendsNew DEF WellFormed
    <2>5. /\ now \in Datas /\ now.archetypes = archs /\ now.typesIndex = inds
          /\ now.cache = data.cache /\ now.validCache = FALSE
          /\ now.query = data.query /\ now.returned = data.returned
      <3> HIDE DEF archs, inds, now
      <3> QED BY <2>1, <2>2, <2>3 DEF Datas
    <2>6. \A k \in DOMAIN data.archetypes : k \in DOMAIN archs
      BY <1>1, <2>2
    <2> HIDE DEF archs, inds, now
    <2>7. WellFormed(now)
      BY <1>2, <1>4, <2>3, <2>2, <2>4, <2>5, <2>6 DEF WellFormed
    <2>8. {a \in {archetype} : Asked(data.query, a)} = {archetype}
      BY <1>2, <1>4
    <2>9. Grown(data, now, {archetype})
      BY <2>4, <2>5, <2>7, <2>8 DEF Grown
    <2> QED BY <2>9 DEF now
  <1> QED BY <1>3, <1>4 DEF InMask

\* Archetypes are given to a query one after the other.
LEMMA WithArchetypesGrows ==
  ASSUME NEW data \in Datas, WellFormed(data), NEW list \in Seq(Archetype)
  PROVE  Grown(data, WithArchetypes(data, list), Range(list))
  <1> DEFINE N == Len(list)
             f == CHOOSE with : with = [n \in 0 .. Len(list) |->
                    IF n = 0 THEN data ELSE WithArchetype(with[n - 1], list[n])]
  <1>0. N \in Nat /\ \A n \in 1 .. N : list[n] \in Archetype
    OBVIOUS
  <1>1. f[0] = data /\ \A n \in 1 .. N : f[n] = WithArchetype(f[n - 1], list[n])
    <2> DEFINE S == {x \in Datas : WellFormed(x)}
               step == [n \in 1 .. N |-> [x \in S |-> WithArchetype(x, list[n])]]
    <2>1. step \in [1 .. N -> [S -> S]]
      <3> SUFFICES ASSUME NEW n \in 1 .. N, NEW x \in S
                   PROVE  WithArchetype(x, list[n]) \in S
        OBVIOUS
      <3> HIDE DEF Datas
      <3> QED BY <1>0, WithArchetypeGrows DEF Grown
    <2>2. data \in S
      OBVIOUS
    <2>3. \A n \in 1 .. N, x \in S : step[n][x] = WithArchetype(x, list[n])
      OBVIOUS
    <2> HIDE DEF S, step
    <2>4. PICK g \in [0 .. N -> S] : g[0] = data /\ \A n \in 1 .. N : g[n] = step[n][g[n - 1]]
      <3>1. BuiltBy(N, S, data, step) # {}
        BY <1>0, <2>1, <2>2, StepByStep
      <3> QED BY <3>1 DEF BuiltBy
    <2>5. \A n \in 1 .. N : g[n] = WithArchetype(g[n - 1], list[n])
      <3> TAKE n \in 1 .. N
      <3>1. n - 1 \in 0 .. N
        BY <1>0
      <3> QED BY <2>3, <2>4, <3>1
    <2>6. g = [n \in 0 .. N |-> IF n = 0 THEN data ELSE WithArchetype(g[n - 1], list[n])]
      <3>1. \A n \in 0 .. N : n = 0 \/ n \in 1 .. N
        BY <1>0
      <3> QED BY <2>4, <2>5, <3>1
    <2>7. f = [n \in 0 .. N |-> IF n = 0 THEN data ELSE WithArchetype(f[n - 1], list[n])]
      BY <2>6
    <2> HIDE DEF f
    <2> QED BY <1>0, <2>7
  <1> HIDE DEF f
  <1> DEFINE Done(n) == {list[k] : k \in 1 .. n}
             Good == {n \in Nat : n <= N => Grown(data, f[n], Done(n))}
  <1>2. 0 \in Good
    <2>1. Done(0) = {}
      OBVIOUS
    <2> QED BY <1>1, <2>1 DEF Grown
  <1>3. ASSUME NEW n \in Nat, n \in Good PROVE n + 1 \in Good
    <2> SUFFICES ASSUME n + 1 <= N PROVE Grown(data, f[n + 1], Done(n + 1))
      OBVIOUS
    <2>1. Grown(data, f[n], Done(n))
      BY <1>0, <1>3
    <2>2. f[n + 1] = WithArchetype(f[n], list[n + 1]) /\ list[n + 1] \in Archetype
      BY <1>0, <1>1
    <2>3. Grown(f[n], f[n + 1], {list[n + 1]})
      <3>1. f[n] \in Datas /\ WellFormed(f[n])
        BY <2>1 DEF Grown
      <3> QED BY <2>2, <3>1, WithArchetypeGrows
    <2>4. Done(n + 1) = Done(n) \cup {list[n + 1]}
      OBVIOUS
    <2> HIDE DEF Done
    <2> QED BY <2>1, <2>3, <2>4 DEF Grown
  <1>4. Grown(data, f[N], Done(N))
    <2>1. N \in Good
      <3> HIDE DEF Good
      <3> QED BY <1>0, <1>2, <1>3, NaturalsBySet
    <2> QED BY <1>0, <2>1
  <1>5. Done(N) = Range(list)
    BY DEF Range
  <1>6. WithArchetypes(data, list) = f[N]
    BY DEF WithArchetypes, f
  <1> QED BY <1>4, <1>5, <1>6

--------------------------------------------------------------------------------
(* The caches *)

\* The cache holds each chunk of the archetypes registered once, under its archetype.
Fresh(data, lists) ==
  /\ IsInjective(data.cache)
  /\ {data.cache[k].value : k \in DOMAIN data.cache} =
       UNION {Range(lists[a]) : a \in Range(data.archetypes)}
  /\ \A k \in DOMAIN data.cache :
       data.cache[k].value \in Range(lists[data.archetypes[data.cache[k].archetypeIndex]])

Lists == [Archetype -> Seq(Chunk)]

\* What rebuildMatchingChunkCache puts into the cache for the k-th archetype, and its set.
EntriesOf(data, lists, k) ==
  [c \in DOMAIN lists[data.archetypes[k]] |->
     [value |-> lists[data.archetypes[k]][c], archetypeIndex |-> k]]

LEMMA EntriesProperties ==
  ASSUME NEW data \in Datas, NEW lists \in Lists, \A a \in Archetype : IsInjective(lists[a]),
         NEW k \in 1 .. Len(data.archetypes)
  PROVE  /\ EntriesOf(data, lists, k) \in Seq(Entries)
         /\ IsInjective(EntriesOf(data, lists, k))
         /\ Range(EntriesOf(data, lists, k)) =
              {[value |-> v, archetypeIndex |-> k] : v \in Range(lists[data.archetypes[k]])}
  <1>1. data.archetypes \in Seq(Archetype)
    BY DEF Datas
  <1>2. data.archetypes[k] \in Archetype /\ k \in Nat
    BY <1>1
  <1> DEFINE list == lists[data.archetypes[k]]
             es == EntriesOf(data, lists, k)
  <1>3. list \in Seq(Chunk) /\ IsInjective(list) /\ DOMAIN list = 1 .. Len(list)
        /\ Len(list) \in Nat
    BY <1>2 DEF Lists
  <1>4. es = [c \in 1 .. Len(list) |-> [value |-> list[c], archetypeIndex |-> k]]
    BY <1>3 DEF EntriesOf
  <1> HIDE DEF list, es
  <1>5. \A c \in 1 .. Len(list) : list[c] \in Chunk
    BY <1>3
  <1>6. es \in Seq(Entries)
    <2>1. es \in [1 .. Len(list) -> Entries]
      BY <1>2, <1>4, <1>5 DEF Entries
    <2> QED BY <1>3, <2>1
  <1>7. IsInjective(es)
    BY <1>3, <1>4 DEF IsInjective
  <1>8. Range(es) = {[value |-> v, archetypeIndex |-> k] : v \in Range(list)}
    BY <1>3, <1>4 DEF Range
  <1> QED BY <1>6, <1>7, <1>8 DEF list, es

\* Sequences with nothing in common are joined to one without repetition.
LEMMA JoinInjective ==
  ASSUME NEW S, NEW s \in Seq(S), NEW t \in Seq(S), IsInjective(s), IsInjective(t),
         Range(s) \cap Range(t) = {}
  PROVE  /\ s \o t \in Seq(S)
         /\ IsInjective(s \o t)
         /\ Range(s \o t) = Range(s) \cup Range(t)
  <1> DEFINE u == s \o t
  <1>1. /\ u \in Seq(S) /\ DOMAIN u = 1 .. Len(s) + Len(t)
        /\ Len(s) \in Nat /\ Len(t) \in Nat
        /\ DOMAIN s = 1 .. Len(s) /\ DOMAIN t = 1 .. Len(t)
        /\ \A i \in 1 .. Len(s) : u[i] = s[i]
        /\ \A i \in 1 .. Len(t) : u[Len(s) + i] = t[i]
    OBVIOUS
  <1> HIDE DEF u
  <1>2. \A i \in DOMAIN u : \/ i \in 1 .. Len(s) /\ u[i] = s[i]
                            \/ i - Len(s) \in 1 .. Len(t) /\ u[i] = t[i - Len(s)]
    <2> TAKE i \in DOMAIN u
    <2>1. CASE i \in 1 .. Len(s)
      BY <1>1, <2>1
    <2>2. CASE i \notin 1 .. Len(s)
      <3>1. i - Len(s) \in 1 .. Len(t) /\ Len(s) + (i - Len(s)) = i
        BY <1>1, <2>2
      <3> QED BY <1>1, <3>1
    <2> QED BY <2>1, <2>2
  <1>3. \A i \in 1 .. Len(s), k \in 1 .. Len(t) : s[i] # t[k]
    BY <1>1 DEF Range
  <1>4. IsInjective(u)
    <2> SUFFICES ASSUME NEW i \in DOMAIN u, NEW k \in DOMAIN u, u[i] = u[k] PROVE i = k
      BY DEF IsInjective
    <2>0. i \in Int /\ k \in Int
      BY <1>1
    <2>1. CASE i \in 1 .. Len(s) /\ u[i] = s[i] /\ k \in 1 .. Len(s) /\ u[k] = s[k]
      BY <1>1, <2>1 DEF IsInjective
    <2>2. CASE /\ i - Len(s) \in 1 .. Len(t) /\ u[i] = t[i - Len(s)]
               /\ k - Len(s) \in 1 .. Len(t) /\ u[k] = t[k - Len(s)]
      <3>1. i - Len(s) = k - Len(s)
        BY <1>1, <2>2 DEF IsInjective
      <3> QED BY <1>1, <2>0, <3>1
    <2> QED BY <1>2, <1>3, <2>1, <2>2
  <1>5. Range(u) = Range(s) \cup Range(t)
    <2>1. \A x \in Range(u) : x \in Range(s) \cup Range(t)
      BY <1>1, <1>2 DEF Range
    <2>2. \A x \in Range(s) : x \in Range(u)
      <3>1. \A i \in 1 .. Len(s) : i \in DOMAIN u
        BY <1>1
      <3> QED BY <1>1, <3>1 DEF Range
    <2>3. \A x \in Range(t) : x \in Range(u)
      <3>1. \A i \in 1 .. Len(t) : Len(s) + i \in DOMAIN u
        BY <1>1
      <3> QED BY <1>1, <3>1 DEF Range
    <2> QED BY <2>1, <2>2, <2>3
  <1> QED BY <1>1, <1>4, <1>5 DEF u

\* rebuildMatchingChunkCache makes a cache that is exact at that moment.
LEMMA RebuiltIsFresh ==
  ASSUME NEW data \in Datas, chunks \in Lists, \A a \in Archetype : IsInjective(chunks[a])
  PROVE  /\ Rebuilt(data) \in Seq(Entries)
         /\ \A k \in DOMAIN Rebuilt(data) :
              Rebuilt(data)[k].archetypeIndex \in DOMAIN data.archetypes
         /\ Fresh([data EXCEPT !.cache = Rebuilt(data)], chunks)
  <1> DEFINE N == Len(data.archetypes)
             E(n) == EntriesOf(data, chunks, n)
             f == CHOOSE upTo : upTo = [n \in 0 .. Len(data.archetypes) |->
                    IF n = 0 THEN <<>> ELSE EntriesOf(data, chunks, n) \o upTo[n - 1]]
  <1>0. data.archetypes \in Seq(Archetype) /\ N \in Nat /\ DOMAIN data.archetypes = 1 .. N
    BY DEF Datas
  <1>1. \A n \in 1 .. N :
          /\ E(n) \in Seq(Entries) /\ IsInjective(E(n))
          /\ Range(E(n)) = {[value |-> v, archetypeIndex |-> n] :
                              v \in Range(chunks[data.archetypes[n]])}
    BY EntriesProperties
  <1>2. f[0] = <<>> /\ \A n \in 1 .. N : f[n] = E(n) \o f[n - 1]
    <2> DEFINE S == Seq(Entries)
               step == [n \in 1 .. N |-> [x \in S |-> E(n) \o x]]
    <2> HIDE DEF E, N
    <2>1. step \in [1 .. N -> [S -> S]]
      BY <1>1
    <2>2. <<>> \in S
      OBVIOUS
    <2>3. \A n \in 1 .. N, x \in S : step[n][x] = E(n) \o x
      OBVIOUS
    <2> HIDE DEF S, step
    <2>4. PICK g \in [0 .. N -> S] : g[0] = <<>> /\ \A n \in 1 .. N : g[n] = step[n][g[n - 1]]
      <3>1. BuiltBy(N, S, <<>>, step) # {}
        BY <1>0, <2>1, <2>2, StepByStep
      <3> QED BY <3>1 DEF BuiltBy
    <2>5. \A n \in 1 .. N : g[n] = E(n) \o g[n - 1]
      <3> TAKE n \in 1 .. N
      <3>1. n - 1 \in 0 .. N
        BY <1>0
      <3> QED BY <2>3, <2>4, <3>1
    <2>6. g = [n \in 0 .. N |-> IF n = 0 THEN <<>> ELSE E(n) \o g[n - 1]]
      <3>1. \A n \in 0 .. N : n = 0 \/ n \in 1 .. N
        BY <1>0
      <3> QED BY <2>4, <2>5, <3>1
    <2>7. f = [n \in 0 .. N |-> IF n = 0 THEN <<>> ELSE E(n) \o f[n - 1]]
      BY <2>6 DEF E, N
    <2> HIDE DEF f
    <2>8. f[0] = <<>>
      BY <1>0, <2>7
    <2>9. ASSUME NEW n \in 1 .. N PROVE f[n] = E(n) \o f[n - 1]
      <3>1. n \in 0 .. N /\ n # 0
        BY <1>0
      <3> QED BY <2>7, <3>1
    <2> QED BY <2>8, <2>9
  <1> HIDE DEF f, E
  <1> DEFINE Whole(n) == {e \in Entries : e.archetypeIndex \in 1 .. n
                            /\ e.value \in Range(chunks[data.archetypes[e.archetypeIndex]])}
             Good == {n \in Nat : n <= N =>
                        f[n] \in Seq(Entries) /\ IsInjective(f[n]) /\ Range(f[n]) = Whole(n)}
  <1>3. 0 \in Good
    <2>1. <<>> \in Seq(Entries) /\ IsInjective(<<>>) /\ Range(<<>>) = {}
      BY DEF IsInjective, Range
    <2>2. Whole(0) = {}
      OBVIOUS
    <2> QED BY <1>2, <2>1, <2>2
  <1>4. ASSUME NEW n \in Nat, n \in Good PROVE n + 1 \in Good
    <2> SUFFICES ASSUME n + 1 <= N
                 PROVE  /\ f[n + 1] \in Seq(Entries) /\ IsInjective(f[n + 1])
                        /\ Range(f[n + 1]) = Whole(n + 1)
      OBVIOUS
    <2>1. n + 1 \in 1 .. N /\ (n + 1) - 1 = n
      BY <1>0
    <2>2. f[n] \in Seq(Entries) /\ IsInjective(f[n]) /\ Range(f[n]) = Whole(n)
      BY <1>0, <1>4
    <2>3. f[n + 1] = E(n + 1) \o f[n]
      BY <1>2, <2>1
    <2>4. /\ E(n + 1) \in Seq(Entries) /\ IsInjective(E(n + 1))
          /\ Range(E(n + 1)) = {[value |-> v, archetypeIndex |-> n + 1] :
                                  v \in Range(chunks[data.archetypes[n + 1]])}
      BY <1>1, <2>1
    <2>5. Range(E(n + 1)) \cap Whole(n) = {}
      BY <2>4
    <2>6. \A v \in Range(chunks[data.archetypes[n + 1]]) : v \in Chunk
      BY <1>0, <2>1 DEF Lists, Range
    <2>7. Range(E(n + 1)) \cup Whole(n) = Whole(n + 1)
      <3>1. \A e \in Whole(n + 1) : e \in Whole(n) \/ e.archetypeIndex = n + 1
        OBVIOUS
      <3>2. \A e \in Entries : e = [value |-> e.value, archetypeIndex |-> e.archetypeIndex]
        BY DEF Entries
      <3>3. \A e \in Whole(n + 1) : e \in Range(E(n + 1)) \cup Whole(n)
        BY <2>4, <3>1, <3>2
      <3>4. \A e \in Range(E(n + 1)) : e \in Whole(n + 1)
        BY <2>4, <2>6 DEF Entries
      <3>5. \A e \in Whole(n) : e \in Whole(n + 1)
        OBVIOUS
      <3> QED BY <3>3, <3>4, <3>5
    <2> HIDE DEF Whole
    <2>8. Range(E(n + 1)) \cap Range(f[n]) = {}
      BY <2>2, <2>5
    <2>9. /\ E(n + 1) \o f[n] \in Seq(Entries) /\ IsInjective(E(n + 1) \o f[n])
          /\ Range(E(n + 1) \o f[n]) = Range(E(n + 1)) \cup Range(f[n])
      BY <2>2, <2>4, <2>8, JoinInjective
    <2> QED BY <2>2, <2>3, <2>7, <2>9
  <1>5. f[N] \in Seq(Entries) /\ IsInjective(f[N]) /\ Range(f[N]) = Whole(N)
    <2>1. N \in Good
      <3> HIDE DEF Good
      <3> QED BY <1>0, <1>3, <1>4, NaturalsBySet
    <2> QED BY <1>0, <2>1
  <1>6. Rebuilt(data) = f[N]
    BY DEF Rebuilt, f, EntriesOf
  <1> DEFINE now == [data EXCEPT !.cache = f[N]]
  <1>7. now.cache = f[N] /\ now.archetypes = data.archetypes
    BY DEF Datas
  <1>8. \A k \in DOMAIN f[N] : f[N][k] \in Whole(N)
    BY <1>5 DEF Range
  <1>9. {f[N][k].value : k \in DOMAIN f[N]} = UNION {Range(chunks[a]) : a \in Range(data.archetypes)}
    <2>1. \A k \in DOMAIN f[N] :
            f[N][k].value \in UNION {Range(chunks[a]) : a \in Range(data.archetypes)}
      BY <1>0, <1>8 DEF Range
    <2>2. ASSUME NEW v \in UNION {Range(chunks[a]) : a \in Range(data.archetypes)}
          PROVE  \E k \in DOMAIN f[N] : v = f[N][k].value
      <3>0. PICK a \in Range(data.archetypes) : v \in Range(chunks[a])
        OBVIOUS
      <3>1. PICK n \in 1 .. N : v \in Range(chunks[data.archetypes[n]])
        <4>1. \E n \in 1 .. N : a = data.archetypes[n]
          BY <1>0 DEF Range
        <4> QED BY <3>0, <4>1
      <3>2. v \in Chunk
        BY <1>0, <3>1 DEF Lists, Range
      <3>3. [value |-> v, archetypeIndex |-> n] \in Whole(N)
        BY <1>0, <3>1, <3>2 DEF Entries
      <3> HIDE DEF Whole
      <3>4. [value |-> v, archetypeIndex |-> n] \in Range(f[N])
        BY <1>5, <3>3
      <3> QED BY <3>4 DEF Range
    <2> QED BY <2>1, <2>2
  <1> HIDE DEF now
  <1>10. Fresh(now, chunks)
    BY <1>5, <1>7, <1>8, <1>9 DEF Fresh
  <1> QED BY <1>0, <1>5, <1>6, <1>8, <1>10 DEF now

--------------------------------------------------------------------------------
(* The invariant *)

\* What holds of a query: it has the archetypes it asks for among the first n, and
\* a valid cache is exact unless one of its archetypes is still to be visited.
Kept(data, archs, n, lists, changed) ==
  /\ WellFormed(data)
  /\ Range(data.archetypes) \subseteq Range(archs)
  /\ data.returned =>
       \A k \in 1 .. n : Asked(data.query, archs[k]) => archs[k] \in Range(data.archetypes)
  /\ data.validCache /\ Range(data.archetypes) \cap changed = {} => Fresh(data, lists)

\* Archetypes are registered once, a chunk is in one place of one list.
StoreInv ==
  /\ archetypes \in Seq(Archetype) /\ IsInjective(archetypes)
  /\ previousArchetypeCount \in 0 .. Len(archetypes)
  /\ chunks \in Lists
  /\ \A a \in Archetype : IsInjective(chunks[a])
  /\ \A a, b \in Archetype : a # b => Range(chunks[a]) \cap Range(chunks[b]) = {}

\* Past updateNewArchetypes every archetype was given to the queries, past
\* cleanChangeList every change was passed on.
StageInv ==
  /\ stage \in {"systems", "clean", "jobs", "terminated"}
  /\ cleaning = (stage = "clean")
  /\ stage \in {"clean", "jobs"} => previousArchetypeCount = Len(archetypes)
  /\ stage = "jobs" => Changed = {}

DatasInv ==
  /\ entityQueryDatas \in Seq(Datas)
  /\ \A id \in QueryID :
       Kept(entityQueryDatas[id], archetypes, previousArchetypeCount, chunks, Changed)

CacheInv == StoreInv /\ ListInv /\ StageInv /\ DatasInv

LEMMA InitCacheInv == Init => CacheInv
  <1> SUFFICES ASSUME Init PROVE CacheInv
    OBVIOUS
  <1> USE DEF Init
  <1>1. ListInv /\ Changed = {} /\ ~cleaning
    BY ListInitInv
  <1>2. StoreInv
    BY DEF StoreInv, Lists, IsInjective, Range
  <1>3. StageInv
    BY <1>1 DEF StageInv, ListInv, ListTypeOK
  <1>4. DatasInv
    BY DEF DatasInv, QueryID
  <1> QED BY <1>1, <1>2, <1>3, <1>4 DEF CacheInv

\* The queries are kept when their records are, no archetype is lost, and what
\* happened to the lists is on record as a change.
LEMMA DatasKept ==
  ASSUME DatasInv, UNCHANGED entityQueryDatas, UNCHANGED previousArchetypeCount,
         previousArchetypeCount \in Nat,
         Range(archetypes) \subseteq Range(archetypes'),
         \A k \in 1 .. previousArchetypeCount : archetypes'[k] = archetypes[k],
         Changed \subseteq Changed',
         \A a \in Archetype : a \in Changed' \/ chunks'[a] = chunks[a]
  PROVE  DatasInv'
  <1>1. ASSUME NEW id \in QueryID
        PROVE  Kept(entityQueryDatas[id], archetypes', previousArchetypeCount, chunks', Changed')
    <2> DEFINE data == entityQueryDatas[id]
    <2>1. Kept(data, archetypes, previousArchetypeCount, chunks, Changed) /\ data \in Datas
      BY DEF DatasInv, QueryID
    <2>2. data.archetypes \in Seq(Archetype) /\ Range(data.archetypes) \subseteq Archetype
          /\ \A k \in DOMAIN data.archetypes : data.archetypes[k] \in Range(data.archetypes)
      BY <2>1 DEF Datas, Range
    <2> HIDE DEF data
    <2>3. ASSUME data.validCache, Range(data.archetypes) \cap Changed' = {}
          PROVE  Fresh(data, chunks')
      <3>1. \A a \in Range(data.archetypes) : chunks'[a] = chunks[a]
        BY <2>2, <2>3
      <3>2. Fresh(data, chunks)
        BY <2>1, <2>3 DEF Kept
      <3>3. UNION {Range(chunks'[a]) : a \in Range(data.archetypes)}
              = UNION {Range(chunks[a]) : a \in Range(data.archetypes)}
        BY <3>1
      <3>4. \A k \in DOMAIN data.cache :
              chunks'[data.archetypes[data.cache[k].archetypeIndex]]
                = chunks[data.archetypes[data.cache[k].archetypeIndex]]
        BY <2>1, <2>2, <3>1 DEF Kept, WellFormed
      <3> QED BY <3>2, <3>3, <3>4 DEF Fresh
    <2>4. data.returned =>
            \A k \in 1 .. previousArchetypeCount :
              Asked(data.query, archetypes'[k]) => archetypes'[k] \in Range(data.archetypes)
      BY <2>1 DEF Kept
    <2> QED BY <2>1, <2>3, <2>4 DEF Kept, data
  <1> QED BY <1>1 DEF DatasInv, QueryID

\* Nothing but the stage may differ.
LEMMA SameStores ==
  ASSUME CacheInv, UNCHANGED <<listVars, archetypes, previousArchetypeCount, chunks>>
  PROVE  /\ ListInv' /\ StoreInv' /\ Changed' = Changed /\ cleaning' = cleaning
         /\ UNCHANGED entityQueryDatas => DatasInv'
  <1>1. Changed' = Changed
    BY ChangedReached DEF listVars, Start
  <1>2. ListInv'
    BY <1>1 DEF listVars, ListInv, ListTypeOK, CacheInv
  <1>3. StoreInv'
    BY DEF StoreInv, CacheInv
  <1>4. UNCHANGED entityQueryDatas => DatasInv'
    BY <1>1 DEF DatasInv, QueryID, CacheInv
  <1> QED BY <1>1, <1>2, <1>3, <1>4 DEF listVars

LEMMA CreateArchetypeKeeps ==
  ASSUME CacheInv, NEW types \in Archetype, getOrCreateArchetype(types)
  PROVE  CacheInv'
  <1> USE DEF getOrCreateArchetype
  <1>1. Changed' = Changed
    BY ChangedReached DEF listVars, Start
  <1>2. ListInv'
    BY <1>1 DEF listVars, ListInv, ListTypeOK, CacheInv
  <1>3. /\ archetypes \in Seq(Archetype) /\ IsInjective(archetypes)
        /\ previousArchetypeCount \in 0 .. Len(archetypes)
    BY DEF CacheInv, StoreInv
  <1>4. /\ archetypes' \in Seq(Archetype) /\ Len(archetypes') = Len(archetypes) + 1
        /\ \A k \in 1 .. Len(archetypes) : archetypes'[k] = archetypes[k]
    BY <1>3
  <1>5. IsInjective(archetypes') /\ Range(archetypes') = Range(archetypes) \cup {types}
    BY <1>3, AppendsNew
  <1>6. StoreInv'
    <2>1. previousArchetypeCount' \in 0 .. Len(archetypes')
      BY <1>3, <1>4
    <2>2. chunks' = chunks
      OBVIOUS
    <2> HIDE DEF getOrCreateArchetype
    <2> QED BY <1>4, <1>5, <2>1, <2>2 DEF StoreInv, CacheInv
  <1>7. StageInv'
    BY DEF StageInv, CacheInv, listVars
  <1>8. DatasInv'
    BY <1>1, <1>3, <1>4, <1>5, DatasKept DEF CacheInv
  <1> QED BY <1>2, <1>6, <1>7, <1>8 DEF CacheInv

\* A change of one archetype's chunk list.
LEMMA ListChangeKeeps ==
  ASSUME CacheInv, NEW a \in Archetype, trackArchetype(a), stage = "systems",
         NEW list \in Seq(Chunk), IsInjective(list),
         \A b \in Archetype : b # a => Range(list) \cap Range(chunks[b]) = {},
         chunks' = [chunks EXCEPT ![a] = list],
         UNCHANGED <<archetypes, previousArchetypeCount, entityQueryDatas, stage>>
  PROVE  CacheInv'
  <1>1. ListInv' /\ Changed' = Changed \cup {a} /\ ~cleaning /\ ~cleaning'
    BY TrackStep DEF CacheInv
  <1>2. /\ chunks \in Lists /\ \A b \in Archetype : IsInjective(chunks[b])
        /\ \A b, c \in Archetype : b # c => Range(chunks[b]) \cap Range(chunks[c]) = {}
    BY DEF CacheInv, StoreInv
  <1>3. /\ chunks' \in Lists /\ chunks'[a] = list
        /\ \A b \in Archetype : b # a => chunks'[b] = chunks[b]
    BY <1>2 DEF Lists
  <1>4. StoreInv'
    <2>1. \A b \in Archetype : IsInjective(chunks'[b])
      BY <1>2, <1>3
    <2>2. \A b, c \in Archetype : b # c => Range(chunks'[b]) \cap Range(chunks'[c]) = {}
      BY <1>2, <1>3
    <2> QED BY <1>3, <2>1, <2>2 DEF StoreInv, CacheInv
  <1>5. StageInv'
    <2>1. cleaning' = FALSE
      BY <1>1 DEF ListInv, ListTypeOK
    <2> QED BY <2>1 DEF StageInv, CacheInv
  <1>6. DatasInv'
    <2>1. previousArchetypeCount \in Nat
      BY DEF CacheInv, StoreInv
    <2> QED BY <1>1, <1>3, <2>1, DatasKept DEF CacheInv
  <1> QED BY <1>1, <1>4, <1>5, <1>6 DEF CacheInv

LEMMA AddChunkKeeps ==
  ASSUME CacheInv, NEW a \in Archetype, NEW c \in Chunk, addToChunkList(a, c)
  PROVE  CacheInv'
  <1> USE DEF addToChunkList
  <1> DEFINE list == Append(chunks[a], c)
  <1>1. chunks \in Lists /\ chunks[a] \in Seq(Chunk) /\ IsInjective(chunks[a])
    BY DEF CacheInv, StoreInv, Lists
  <1>2. c \notin Range(chunks[a])
    OBVIOUS
  <1>3. list \in Seq(Chunk) /\ IsInjective(list) /\ Range(list) = Range(chunks[a]) \cup {c}
    BY <1>1, <1>2, AppendsNew
  <1>4. \A b \in Archetype : b # a => Range(list) \cap Range(chunks[b]) = {}
    BY <1>3 DEF CacheInv, StoreInv
  <1>5. chunks' = [chunks EXCEPT ![a] = list]
    OBVIOUS
  <1> HIDE DEF list
  <1> QED BY <1>3, <1>4, <1>5, ListChangeKeeps

\* The last element takes the place of the one removed: nothing else is lost or doubled.
LEMMA SwapBackProperties ==
  ASSUME NEW S, NEW s \in Seq(S), IsInjective(s), NEW i \in DOMAIN s
  PROVE  /\ SwapBack(s, i) \in Seq(S) /\ IsInjective(SwapBack(s, i))
         /\ Range(SwapBack(s, i)) \subseteq Range(s)
  <1> DEFINE n == Len(s)
             t == SwapBack(s, i)
             from(k) == IF k = i THEN n ELSE k
  <1>1. n \in Nat /\ DOMAIN s = 1 .. n /\ i \in 1 .. n /\ n - 1 \in Nat
    OBVIOUS
  <1>2. t = [k \in 1 .. n - 1 |-> s[from(k)]]
    BY DEF SwapBack, Last
  <1>3. \A k \in 1 .. n - 1 : from(k) \in 1 .. n
    BY <1>1
  <1>4. \A k, m \in 1 .. n - 1 : from(k) = from(m) => k = m
    BY <1>1
  <1> HIDE DEF from, t, n
  <1>5. t \in Seq(S)
    <2>1. \A k \in 1 .. n - 1 : s[from(k)] \in S
      BY <1>1, <1>3
    <2>2. t \in [1 .. n - 1 -> S]
      BY <1>2, <2>1
    <2> QED BY <1>1, <2>2
  <1>6. IsInjective(t)
    BY <1>1, <1>2, <1>3, <1>4 DEF IsInjective
  <1>7. Range(t) \subseteq Range(s)
    BY <1>1, <1>2, <1>3 DEF Range
  <1> QED BY <1>5, <1>6, <1>7 DEF t

LEMMA RemoveChunkKeeps ==
  ASSUME CacheInv, NEW a \in Archetype, NEW i \in DOMAIN chunks[a], removeFromChunkList(a, i)
  PROVE  CacheInv'
  <1> USE DEF removeFromChunkList
  <1> DEFINE list == SwapBack(chunks[a], i)
  <1>1. chunks \in Lists /\ chunks[a] \in Seq(Chunk) /\ IsInjective(chunks[a])
    BY DEF CacheInv, StoreInv, Lists
  <1>2. list \in Seq(Chunk) /\ IsInjective(list) /\ Range(list) \subseteq Range(chunks[a])
    BY <1>1, SwapBackProperties
  <1>3. \A b \in Archetype : b # a => Range(list) \cap Range(chunks[b]) = {}
    BY <1>2 DEF CacheInv, StoreInv
  <1>4. chunks' = [chunks EXCEPT ![a] = list]
    OBVIOUS
  <1> HIDE DEF list
  <1> QED BY <1>2, <1>3, <1>4, ListChangeKeeps

LEMMA CreateQueryKeeps ==
  ASSUME CacheInv, NEW query \in Query, createEntityQuery(query)
  PROVE  CacheInv'
  <1> DEFINE failing == {k \in DOMAIN archetypes : Fails(archetypes[k], query)}
             tried == {k \in DOMAIN archetypes : \A f \in failing : k <= f}
             data == [query |-> query, archetypes |-> <<>>, typesIndex |-> <<>>,
                      cache |-> <<>>, validCache |-> FALSE, returned |-> failing = {}]
             list == SubSeq(archetypes, 1, Cardinality(tried))
             now == WithArchetypes(data, list)
  <1>1. /\ entityQueryDatas' = Append(entityQueryDatas, now)
        /\ UNCHANGED <<listVars, archetypes, previousArchetypeCount, chunks, stage>>
    BY DEF createEntityQuery
  <1>2. /\ archetypes \in Seq(Archetype) /\ DOMAIN archetypes = 1 .. Len(archetypes)
        /\ Len(archetypes) \in Nat /\ previousArchetypeCount \in 0 .. Len(archetypes)
    BY DEF CacheInv, StoreInv
  <1>3. Cardinality(tried) \in 0 .. Len(archetypes)
        /\ (failing = {} => Cardinality(tried) = Len(archetypes))
    <2>1. IsFiniteSet(1 .. Len(archetypes)) /\ Cardinality(1 .. Len(archetypes)) = Len(archetypes)
      BY <1>2, CountedFromOne
    <2>2. tried \in SUBSET (1 .. Len(archetypes))
      BY <1>2
    <2>3. failing = {} => tried = 1 .. Len(archetypes)
      BY <1>2
    <2> HIDE DEF tried, failing
    <2>4. Cardinality(tried) <= Len(archetypes) /\ Cardinality(tried) \in Nat
      BY <2>1, <2>2, FS_Subset, FS_CardinalityType
    <2> QED BY <1>2, <2>1, <2>3, <2>4
  <1> HIDE DEF tried
  <1>4. list \in Seq(Archetype) /\ Range(list) \subseteq Range(archetypes)
        /\ (failing = {} => list = archetypes)
    <2>1. /\ list \in Seq(Archetype) /\ DOMAIN list = 1 .. Cardinality(tried)
          /\ \A k \in 1 .. Cardinality(tried) : list[k] = archetypes[k]
      BY <1>2, <1>3
    <2>2. \A k \in 1 .. Cardinality(tried) : k \in DOMAIN archetypes
      BY <1>2, <1>3
    <2>3. failing = {} => list = archetypes
      BY <1>2, <1>3, SubSeqFull
    <2> QED BY <2>1, <2>2, <2>3 DEF Range
  <1>5. data \in Datas /\ WellFormed(data) /\ Range(data.archetypes) = {}
    <2>1. (failing = {}) \in BOOLEAN
      OBVIOUS
    <2> HIDE DEF failing
    <2>2. data \in Datas
      BY <2>1 DEF Datas
    <2>3. WellFormed(data) /\ Range(data.archetypes) = {}
      BY DEF WellFormed, IsInjective, Range
    <2> QED BY <2>2, <2>3
  <1>6. Grown(data, now, Range(list))
    <2> HIDE DEF data, list
    <2> QED BY <1>4, <1>5, WithArchetypesGrows
  <1>7. data.query = query /\ ~data.validCache /\ (data.returned <=> failing = {})
    OBVIOUS
  <1> HIDE DEF data, list, now, failing
  <1>8. now \in Datas /\ Kept(now, archetypes, previousArchetypeCount, chunks, Changed)
    <2>1. /\ now \in Datas /\ WellFormed(now) /\ now.query = query
          /\ now.returned = data.returned /\ (now.validCache => now = data)
          /\ Range(now.archetypes) = {a \in Range(list) : Asked(query, a)}
      BY <1>5, <1>6, <1>7 DEF Grown
    <2>2. ~now.validCache
      BY <1>7, <2>1
    <2>3. Range(now.archetypes) \subseteq Range(archetypes)
      BY <1>4, <2>1
    <2>4. now.returned =>
            \A k \in 1 .. previousArchetypeCount :
              Asked(query, archetypes[k]) => archetypes[k] \in Range(now.archetypes)
      <3>1. \A k \in 1 .. previousArchetypeCount : archetypes[k] \in Range(archetypes)
        BY <1>2 DEF Range
      <3> QED BY <1>4, <1>7, <2>1, <3>1
    <2> QED BY <2>1, <2>2, <2>3, <2>4 DEF Kept
  <1>9. ListInv' /\ StoreInv' /\ Changed' = Changed /\ cleaning' = cleaning
    BY <1>1, SameStores
  <1>10. StageInv'
    BY <1>1, <1>9 DEF StageInv, CacheInv
  <1>11. DatasInv'
    <2>1. /\ entityQueryDatas \in Seq(Datas)
          /\ \A id \in 1 .. Len(entityQueryDatas) :
               Kept(entityQueryDatas[id], archetypes, previousArchetypeCount, chunks, Changed)
      BY DEF CacheInv, DatasInv, QueryID
    <2>2. /\ entityQueryDatas' \in Seq(Datas)
          /\ DOMAIN entityQueryDatas' = 1 .. Len(entityQueryDatas) + 1
          /\ \A id \in 1 .. Len(entityQueryDatas) : entityQueryDatas'[id] = entityQueryDatas[id]
          /\ entityQueryDatas'[Len(entityQueryDatas) + 1] = now
          /\ Len(entityQueryDatas) \in Nat
      BY <1>1, <1>8, <2>1
    <2>3. \A id \in DOMAIN entityQueryDatas' :
            id \in 1 .. Len(entityQueryDatas) \/ id = Len(entityQueryDatas) + 1
      BY <2>2
    <2>4. \A id \in DOMAIN entityQueryDatas' :
            Kept(entityQueryDatas'[id], archetypes, previousArchetypeCount, chunks, Changed)
      BY <1>8, <2>1, <2>2, <2>3
    <2> QED BY <1>1, <1>9, <2>2, <2>4 DEF DatasInv, QueryID
  <1> QED BY <1>9, <1>10, <1>11 DEF CacheInv

LEMMA GetDataKeeps ==
  ASSUME CacheInv, NEW id \in QueryID, getData(id)
  PROVE  CacheInv'
  <1> DEFINE data == entityQueryDatas[id]
             now == [data EXCEPT !.cache = Rebuilt(data), !.validCache = TRUE]
  <1>1. /\ entityQueryDatas' = [entityQueryDatas EXCEPT ![id] = now]
        /\ UNCHANGED <<listVars, archetypes, previousArchetypeCount, chunks, stage>>
    BY DEF getData, DatasInv, CacheInv, QueryID
  <1>2. ListInv' /\ StoreInv' /\ Changed' = Changed /\ cleaning' = cleaning
    BY <1>1, SameStores
  <1>3. StageInv'
    BY <1>1, <1>2 DEF StageInv, CacheInv
  <1>4. /\ entityQueryDatas \in Seq(Datas) /\ data \in Datas
        /\ Kept(data, archetypes, previousArchetypeCount, chunks, Changed)
    BY DEF CacheInv, DatasInv, QueryID
  <1> HIDE DEF data
  <1>5. /\ Rebuilt(data) \in Seq(Entries)
        /\ \A k \in DOMAIN Rebuilt(data) :
             Rebuilt(data)[k].archetypeIndex \in DOMAIN data.archetypes
        /\ Fresh([data EXCEPT !.cache = Rebuilt(data)], chunks)
    BY <1>4, RebuiltIsFresh DEF CacheInv, StoreInv
  <1>6. /\ now \in Datas /\ now.cache = Rebuilt(data) /\ now.archetypes = data.archetypes
        /\ now.typesIndex = data.typesIndex /\ now.query = data.query
        /\ now.returned = data.returned
        /\ [data EXCEPT !.cache = Rebuilt(data)].cache = Rebuilt(data)
        /\ [data EXCEPT !.cache = Rebuilt(data)].archetypes = data.archetypes
    <2> DEFINE cache == Rebuilt(data)
    <2>1. cache \in Seq(Entries)
      BY <1>5
    <2> HIDE DEF cache
    <2> QED BY <1>4, <2>1 DEF Datas, cache
  <1> HIDE DEF now
  <1>7. Kept(now, archetypes, previousArchetypeCount, chunks, Changed)
    <2>1. WellFormed(now)
      BY <1>4, <1>5, <1>6 DEF Kept, WellFormed
    <2>2. Fresh(now, chunks)
      BY <1>5, <1>6 DEF Fresh
    <2> QED BY <1>4, <1>6, <2>1, <2>2 DEF Kept
  <1>8. DatasInv'
    <2>1. entityQueryDatas' \in Seq(Datas) /\ DOMAIN entityQueryDatas' = DOMAIN entityQueryDatas
      BY <1>1, <1>4, <1>6 DEF QueryID
    <2>2. \A k \in DOMAIN entityQueryDatas :
            entityQueryDatas'[k] = IF k = id THEN now ELSE entityQueryDatas[k]
      BY <1>1, <1>4 DEF QueryID
    <2>3. \A k \in DOMAIN entityQueryDatas :
            Kept(entityQueryDatas'[k], archetypes, previousArchetypeCount, chunks, Changed)
      BY <1>7, <2>2 DEF CacheInv, DatasInv, QueryID
    <2> QED BY <1>1, <1>2, <2>1, <2>3 DEF DatasInv, QueryID
  <1> QED BY <1>2, <1>3, <1>8 DEF CacheInv

LEMMA UpdateKeeps ==
  ASSUME CacheInv, updateNewArchetypes
  PROVE  CacheInv'
  <1> DEFINE fails == \E id \in QueryID, a \in Range(NewArchetypes) :
               Fails(a, entityQueryDatas[id].query) /\ ~InMask(entityQueryDatas[id], a)
  <1>0. /\ archetypes \in Seq(Archetype) /\ Len(archetypes) \in Nat
        /\ previousArchetypeCount \in 0 .. Len(archetypes)
        /\ entityQueryDatas \in Seq(Datas)
    BY DEF CacheInv, StoreInv, DatasInv
  <1>1. CASE fails
    <2>1. /\ stage' = "terminated" /\ stage = "systems"
          /\ UNCHANGED <<listVars, archetypes, previousArchetypeCount, chunks, entityQueryDatas>>
      BY <1>1 DEF updateNewArchetypes
    <2>2. ListInv' /\ StoreInv' /\ Changed' = Changed /\ cleaning' = cleaning /\ DatasInv'
      BY <2>1, SameStores
    <2>3. StageInv'
      BY <2>1, <2>2 DEF StageInv, CacheInv
    <2> QED BY <2>2, <2>3 DEF CacheInv
  <1>2. CASE ~fails
    <2>1. /\ entityQueryDatas' = [id \in QueryID |-> WithArchetypes(entityQueryDatas[id], NewArchetypes)]
          /\ previousArchetypeCount' = Len(archetypes)
          /\ BeginClean /\ stage' = "clean"
          /\ UNCHANGED <<archetypes, chunks>>
      BY <1>2 DEF updateNewArchetypes
    <2>2. ListInv' /\ Changed' = Changed /\ cleaning' = TRUE
      BY <2>1, BeginStep DEF CacheInv, BeginClean
    <2>3. StoreInv'
      <3>1. archetypes' = archetypes /\ chunks' = chunks
            /\ previousArchetypeCount' \in 0 .. Len(archetypes)
        BY <1>0, <2>1
      <3> QED BY <3>1 DEF StoreInv, CacheInv
    <2>4. StageInv'
      BY <2>1, <2>2 DEF StageInv, CacheInv
    <2>5. /\ NewArchetypes \in Seq(Archetype)
          /\ Range(NewArchetypes) \subseteq Range(archetypes)
          /\ \A k \in previousArchetypeCount + 1 .. Len(archetypes) :
               archetypes[k] \in Range(NewArchetypes)
      <3> DEFINE p == previousArchetypeCount
      <3>1. /\ NewArchetypes \in Seq(Archetype)
            /\ DOMAIN NewArchetypes = 1 .. Len(archetypes) - p
            /\ \A k \in 1 .. Len(archetypes) - p : NewArchetypes[k] = archetypes[p + k]
        BY <1>0 DEF NewArchetypes
      <3>2. \A k \in 1 .. Len(archetypes) - p : p + k \in DOMAIN archetypes
        BY <1>0
      <3>3. ASSUME NEW k \in p + 1 .. Len(archetypes) PROVE archetypes[k] \in Range(NewArchetypes)
        <4>1. k - p \in 1 .. Len(archetypes) - p /\ p + (k - p) = k
          BY <1>0
        <4> QED BY <3>1, <4>1 DEF Range
      <3> HIDE DEF p
      <3>4. Range(NewArchetypes) \subseteq Range(archetypes)
        BY <3>1, <3>2 DEF Range
      <3> QED BY <3>1, <3>3, <3>4 DEF p
    <2>6. ASSUME NEW id \in QueryID
          PROVE  /\ entityQueryDatas'[id] \in Datas
                 /\ Kept(entityQueryDatas'[id], archetypes, Len(archetypes), chunks, Changed)
      <3> DEFINE data == entityQueryDatas[id]
                 now == entityQueryDatas'[id]
      <3>1. data \in Datas /\ Kept(data, archetypes, previousArchetypeCount, chunks, Changed)
        BY DEF CacheInv, DatasInv, QueryID
      <3>2. Grown(data, now, Range(NewArchetypes))
        <4>1. now = WithArchetypes(data, NewArchetypes)
          BY <2>1
        <4> HIDE DEF now, data
        <4> QED BY <2>5, <3>1, <4>1, WithArchetypesGrows DEF Kept
      <3> HIDE DEF now, data
      <3>3. /\ now \in Datas /\ WellFormed(now) /\ now.query = data.query
            /\ now.returned = data.returned /\ (now.validCache => now = data)
            /\ Range(now.archetypes) = Range(data.archetypes)
                 \cup {a \in Range(NewArchetypes) : Asked(data.query, a)}
        BY <3>2 DEF Grown
      <3>4. Range(now.archetypes) \subseteq Range(archetypes)
        BY <2>5, <3>1, <3>3 DEF Kept
      <3>5. now.returned => \A k \in 1 .. Len(archetypes) :
                              Asked(now.query, archetypes[k]) => archetypes[k] \in Range(now.archetypes)
        <4>1. \A k \in 1 .. Len(archetypes) :
                k \in 1 .. previousArchetypeCount \/ k \in previousArchetypeCount + 1 .. Len(archetypes)
          BY <1>0
        <4> QED BY <2>5, <3>1, <3>3, <4>1 DEF Kept
      <3>6. now.validCache /\ Range(now.archetypes) \cap Changed = {} => Fresh(now, chunks)
        BY <3>1, <3>3 DEF Kept
      <3> QED BY <3>3, <3>4, <3>5, <3>6 DEF Kept, now
    <2>7. DatasInv'
      <3>1. DOMAIN entityQueryDatas' = 1 .. Len(entityQueryDatas) /\ QueryID = 1 .. Len(entityQueryDatas)
            /\ Len(entityQueryDatas) \in Nat
        BY <1>0, <2>1 DEF QueryID
      <3>2. entityQueryDatas' \in Seq(Datas)
        <4>1. entityQueryDatas' \in [1 .. Len(entityQueryDatas) -> Datas]
          BY <2>1, <2>6, <3>1
        <4> QED BY <3>1, <4>1
      <3> QED BY <2>1, <2>2, <2>6, <3>1, <3>2 DEF DatasInv, QueryID
    <2> QED BY <2>2, <2>3, <2>4, <2>7 DEF CacheInv
  <1> QED BY <1>1, <1>2

LEMMA CleanKeeps ==
  ASSUME CacheInv, cleanChangeList
  PROVE  CacheInv'
  <1>0. /\ stage = "clean"
        /\ UNCHANGED <<archetypes, previousArchetypeCount, chunks>>
    BY DEF cleanChangeList
  <1>1. StoreInv'
    BY <1>0 DEF StoreInv, CacheInv
  <1>2. ASSUME NEW a \in Archetype, Visit(a), entityQueryDatas' = Invalidated(a), UNCHANGED stage
        PROVE  CacheInv'
    <2>1. /\ ListInv' /\ cleaning /\ cleaning' /\ a \in Changed
          /\ Changed' \in {Changed, Changed \ {a}}
      BY <1>2, VisitStep DEF CacheInv
    <2>2. StageInv'
      <3>1. cleaning' = TRUE /\ cleaning = TRUE
        BY <2>1 DEF ListInv, ListTypeOK, CacheInv
      <3> QED BY <1>0, <1>2, <3>1 DEF StageInv, CacheInv
    <2>3. ASSUME NEW id \in QueryID
          PROVE  /\ entityQueryDatas'[id] \in Datas
                 /\ Kept(entityQueryDatas'[id], archetypes, previousArchetypeCount, chunks, Changed')
      <3> DEFINE data == entityQueryDatas[id]
                 now == entityQueryDatas'[id]
      <3>1. data \in Datas /\ Kept(data, archetypes, previousArchetypeCount, chunks, Changed)
        BY DEF CacheInv, DatasInv, QueryID
      <3>2. now = IF a \in Range(data.archetypes) THEN [data EXCEPT !.validCache = FALSE] ELSE data
        BY <1>2 DEF Invalidated, InMask
      <3> HIDE DEF data, now
      <3>3. CASE a \in Range(data.archetypes)
        <4>1. /\ now \in Datas /\ ~now.validCache /\ now.query = data.query
              /\ now.returned = data.returned /\ now.archetypes = data.archetypes
              /\ now.typesIndex = data.typesIndex /\ now.cache = data.cache
          BY <3>1, <3>2, <3>3 DEF Datas
        <4>2. WellFormed(now)
          BY <3>1, <4>1 DEF Kept, WellFormed
        <4> QED BY <3>1, <4>1, <4>2 DEF Kept, now
      <3>4. CASE a \notin Range(data.archetypes)
        <4>1. now = data
          BY <3>2, <3>4
        <4>2. Range(data.archetypes) \cap Changed' = Range(data.archetypes) \cap Changed
          BY <2>1, <3>4
        <4> QED BY <3>1, <4>1, <4>2 DEF Kept, now
      <3> QED BY <3>3, <3>4
    <2>4. DatasInv'
      <3>1. DOMAIN entityQueryDatas' = 1 .. Len(entityQueryDatas) /\ QueryID = 1 .. Len(entityQueryDatas)
            /\ Len(entityQueryDatas) \in Nat
        BY <1>2 DEF CacheInv, DatasInv, QueryID, Invalidated
      <3>2. entityQueryDatas' \in Seq(Datas)
        <4>1. entityQueryDatas' = [id \in 1 .. Len(entityQueryDatas) |-> entityQueryDatas'[id]]
          BY <1>2, <3>1 DEF Invalidated
        <4>2. entityQueryDatas' \in [1 .. Len(entityQueryDatas) -> Datas]
          BY <2>3, <3>1, <4>1
        <4> QED BY <3>1, <4>2
      <3> QED BY <1>0, <2>3, <3>1, <3>2 DEF DatasInv, QueryID
    <2> QED BY <1>1, <2>1, <2>2, <2>4 DEF CacheInv
  <1>3. ASSUME EndClean, stage' = "jobs", UNCHANGED entityQueryDatas
        PROVE  CacheInv'
    <2>1. ListInv' /\ cleaning' = FALSE /\ Changed = {} /\ Changed' = {}
      BY <1>3, EndStep DEF CacheInv, EndClean
    <2>2. StageInv'
      BY <1>0, <1>3, <2>1 DEF StageInv, CacheInv
    <2>3. DatasInv'
      BY <1>0, <1>3, <2>1 DEF DatasInv, QueryID, CacheInv
    <2> QED BY <1>1, <2>1, <2>2, <2>3 DEF CacheInv
  <1> QED BY <1>2, <1>3 DEF cleanChangeList

LEMMA StageOnlyKeeps ==
  ASSUME CacheInv, NextPass \/ UNCHANGED vars
  PROVE  CacheInv'
  <1>1. /\ UNCHANGED <<listVars, archetypes, previousArchetypeCount, chunks, entityQueryDatas>>
        /\ stage' # stage => stage = "jobs" /\ stage' = "systems"
    BY DEF NextPass, vars, queryVars
  <1>2. ListInv' /\ StoreInv' /\ Changed' = Changed /\ cleaning' = cleaning /\ DatasInv'
    BY <1>1, SameStores
  <1>3. StageInv'
    BY <1>1, <1>2 DEF StageInv, CacheInv
  <1> QED BY <1>2, <1>3 DEF CacheInv

LEMMA NextKeeps == CacheInv /\ [Next]_vars => CacheInv'
  <1> SUFFICES ASSUME CacheInv, [Next]_vars PROVE CacheInv'
    OBVIOUS
  <1>1. ASSUME NEW types \in Archetype, getOrCreateArchetype(types) PROVE CacheInv'
    BY <1>1, CreateArchetypeKeeps
  <1>2. ASSUME NEW a \in Archetype, NEW c \in Chunk, addToChunkList(a, c) PROVE CacheInv'
    BY <1>2, AddChunkKeeps
  <1>3. ASSUME NEW a \in Archetype, NEW i \in DOMAIN chunks[a], removeFromChunkList(a, i)
        PROVE  CacheInv'
    BY <1>3, RemoveChunkKeeps
  <1>4. ASSUME NEW query \in Query, createEntityQuery(query) PROVE CacheInv'
    BY <1>4, CreateQueryKeeps
  <1>5. ASSUME NEW id \in QueryID, getData(id) PROVE CacheInv'
    BY <1>5, GetDataKeeps
  <1>6. CASE updateNewArchetypes
    BY <1>6, UpdateKeeps
  <1>7. CASE cleanChangeList
    BY <1>7, CleanKeeps
  <1>8. CASE NextPass \/ UNCHANGED vars
    BY <1>8, StageOnlyKeeps
  <1> QED BY <1>1, <1>2, <1>3, <1>4, <1>5, <1>6, <1>7, <1>8 DEF Next

\* The invariant says what the run checks: a fresh cache of all the archetypes that
\* match is exact.
LEMMA InvariantKeepsCaches == CacheInv => CachesKept
  <1> SUFFICES ASSUME CacheInv PROVE CachesKept
    OBVIOUS
  <1> DEFINE data(id) == entityQueryDatas[id]
  <1>1. /\ archetypes \in Seq(Archetype) /\ DOMAIN archetypes = 1 .. Len(archetypes)
        /\ Len(archetypes) \in Nat /\ previousArchetypeCount \in 0 .. Len(archetypes)
    BY DEF CacheInv, StoreInv
  <1>2. ASSUME NEW id \in QueryID
        PROVE  /\ data(id) \in Datas
               /\ Kept(data(id), archetypes, previousArchetypeCount, chunks, Changed)
               /\ DOMAIN data(id).archetypes = 1 .. Len(data(id).archetypes)
               /\ DOMAIN data(id).typesIndex = 1 .. Len(data(id).typesIndex)
               /\ data(id).query \in Query
    <2>1. /\ data(id) \in Datas
          /\ Kept(data(id), archetypes, previousArchetypeCount, chunks, Changed)
      BY DEF CacheInv, DatasInv, QueryID
    <2> HIDE DEF data
    <2>2. data(id).archetypes \in Seq(Archetype) /\ data(id).typesIndex \in Seq(Indices)
          /\ data(id).query \in Query
      BY <2>1 DEF Datas
    <2> QED BY <2>1, <2>2
  <1>3. ASSUME NEW id \in QueryID, data(id).returned, data(id).validCache,
               Range(data(id).archetypes) \cap Changed = {},
               \A k \in previousArchetypeCount + 1 .. Len(archetypes) :
                 ~Asked(data(id).query, archetypes[k])
        PROVE  Exact(data(id))
    <2> DEFINE d == data(id)
    <2>1. Kept(d, archetypes, previousArchetypeCount, chunks, Changed) /\ Fresh(d, chunks)
      BY <1>2, <1>3 DEF Kept
    <2> HIDE DEF data
    <2>2. Range(d.archetypes) = {b \in Range(archetypes) : Asked(d.query, b)}
      <3>1. \A b \in Range(d.archetypes) : b \in Range(archetypes) /\ Asked(d.query, b)
        BY <2>1 DEF Kept, WellFormed
      <3>2. ASSUME NEW b \in Range(archetypes), Asked(d.query, b) PROVE b \in Range(d.archetypes)
        <4>1. PICK k \in 1 .. Len(archetypes) : b = archetypes[k]
          BY <1>1 DEF Range
        <4>2. k \in 1 .. previousArchetypeCount \/ k \in previousArchetypeCount + 1 .. Len(archetypes)
          BY <1>1
        <4> QED BY <1>3, <2>1, <3>2, <4>1, <4>2 DEF Kept
      <3> QED BY <3>1, <3>2
    <2> QED BY <2>1, <2>2 DEF Exact, Fresh, Expected
  <1> HIDE DEF data
  <1>4. QueryTypeOK
    <2>1. ListTypeOK
      BY DEF CacheInv, ListInv
    <2>2. \A a, b \in Archetype :
            /\ Range(chunks[a]) \subseteq Chunk /\ IsInjective(chunks[a])
            /\ a # b => Range(chunks[a]) \cap Range(chunks[b]) = {}
      <3>1. \A a \in Archetype : chunks[a] \in Seq(Chunk)
        BY DEF CacheInv, StoreInv, Lists
      <3>2. \A a \in Archetype : Range(chunks[a]) \subseteq Chunk
        BY <3>1 DEF Range
      <3> QED BY <3>2 DEF CacheInv, StoreInv
    <2>3. \A id \in QueryID :
            /\ data(id).query \in Query
            /\ Range(data(id).archetypes) \subseteq Range(archetypes)
            /\ IsInjective(data(id).archetypes)
            /\ DOMAIN data(id).typesIndex = DOMAIN data(id).archetypes
            /\ \A k \in DOMAIN data(id).cache :
                 data(id).cache[k].archetypeIndex \in DOMAIN data(id).archetypes
      BY <1>2 DEF Kept, WellFormed
    <2> QED BY <2>1, <2>2, <2>3 DEF QueryTypeOK, CacheInv, StoreInv, StageInv, Lists, data
  <1>5. CacheExact
    <2> SUFFICES ASSUME stage = "jobs", NEW id \in QueryID, data(id).returned, data(id).validCache
                 PROVE  Exact(data(id))
      BY DEF CacheExact, data
    <2>1. Changed = {} /\ previousArchetypeCount = Len(archetypes)
      BY DEF CacheInv, StageInv
    <2>2. \A k \in previousArchetypeCount + 1 .. Len(archetypes) : FALSE
      BY <1>1, <2>1
    <2> QED BY <1>3, <2>1, <2>2
  <1>6. StaleIsTracked
    <2> SUFFICES ASSUME stage = "systems", NEW id \in QueryID, data(id).returned,
                        data(id).validCache,
                        ~\E a \in Range(data(id).archetypes) : a \in Reachable(head),
                        ~\E a \in Range(NewArchetypes) : Asked(data(id).query, a)
                 PROVE  Exact(data(id))
      BY DEF StaleIsTracked, data
    <2>1. Changed = Reachable(head)
      BY DEF CacheInv, StageInv, Changed
    <2>2. ASSUME NEW k \in previousArchetypeCount + 1 .. Len(archetypes)
          PROVE  archetypes[k] \in Range(NewArchetypes)
      <3> DEFINE p == previousArchetypeCount
      <3>1. /\ DOMAIN NewArchetypes = 1 .. Len(archetypes) - p
            /\ \A m \in 1 .. Len(archetypes) - p : NewArchetypes[m] = archetypes[p + m]
        BY <1>1 DEF NewArchetypes
      <3>2. k - p \in 1 .. Len(archetypes) - p /\ p + (k - p) = k
        BY <1>1
      <3> QED BY <3>1, <3>2 DEF Range
    <2>3. Range(data(id).archetypes) \cap Changed = {}
      BY <2>1
    <2> QED BY <1>3, <2>2, <2>3
  <1> QED BY <1>4, <1>5, <1>6 DEF CachesKept

\* The cache a job is given holds exactly the chunks of the archetypes that match
\* its query, and between clean-ups what is out of date is on record
\* (EntityQueryManager, cleanChangeList), for any archetypes, chunks and queries.
THEOREM CachesAreKept == Spec => []CachesKept
  <1>1. Spec => []CacheInv
    BY InitCacheInv, NextKeeps, PTL DEF Spec
  <1> QED BY <1>1, InvariantKeepsCaches, PTL
================================================================================
