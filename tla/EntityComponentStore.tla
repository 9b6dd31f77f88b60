-------------------------- MODULE EntityComponentStore --------------------------
(***************************************************************************)
(* ECS::EntityComponentStore and the Archetypes it drives: entities of the *)
(* same component types live in the rows of that archetype's chunks, and   *)
(* every structural change moves rows: a hole is filled from the end of    *)
(* the chunk, an emptied chunk goes back to ChunkStore, a chunk that gets  *)
(* or loses its last free row enters or leaves the archetype's list of     *)
(* chunks with empty slots.                                                *)
(*                                                                         *)
(* One thread makes structural changes, so an action is one iteration of   *)
(* the loop of a call; a call is cut short by the exception of a full      *)
(* ChunkStore.  Indices are the code's plus one.  Chunk::count is the      *)
(* length of rows.  Archetypes have no shared components here, and the     *)
(* type Entity, first in every archetype, is left implicit.  The version   *)
(* of a handle is EntityStore's matter: a freed handle that comes back     *)
(* stands for the slot's next handle.  The tracking of changed archetypes  *)
(* is in ChangeList and QueryCache; change and order versions are left     *)
(* out, nothing here reads them.                                           *)
(***************************************************************************)
EXTENDS Integers, FiniteSets, SequencesExt

CONSTANTS
  Entity,      \* entity handles
  Chunk,       \* chunks ChunkStore can give out
  TypeOrder,   \* the component types in the order of their TypeID
  Managed,     \* those whose destruction is managed by the engine
  chunkCapacity, \* per archetype: rows of one of its chunks
  Value,       \* values a component may be given
  MaxBatch     \* bound: entities one call is about

Component == ToSet(TypeOrder)
Archetype == SUBSET Component
Zero == 0                                            \* memset(dst, 0, ...)
Constructed(t) == IF t \in Managed THEN 1 ELSE Zero  \* dCon(dst), or memset

ASSUME StoreAssumption ==
  /\ IsInjective(TypeOrder)
  /\ Managed \subseteq Component
  /\ chunkCapacity \in [Archetype -> Nat \ {0}]
  /\ {0, 1} \subseteq Value
  /\ MaxBatch \in Nat

Free == <<>>      \* a chunk that ChunkStore holds
Nowhere == <<>>   \* the place of an entity that does not exist
NoCall == [op |-> "none"]

VARIABLES
  store,          \* the archetypes and the chunks, as records of functions
  entityInChunk,  \* EntityStore's record: per entity, chunk and row
  call,           \* the call in progress and what it has left to do
  toDestruct      \* history: per type, the managed components a destructor is still due on,
                  \* those allocate constructed and those a move left as zero memory

vars == <<store, entityInChunk, call, toDestruct>>

Rows(c) == store.chunk[c].rows
Exists(e) == entityInChunk[e] # Nowhere
Row(e) == Rows(entityInChunk[e].chunk)[entityInChunk[e].index]
Used == {c \in Chunk : store.chunk[c] # Free}

Init ==
  /\ store = [archetype |-> [a \in Archetype |-> [chunks |-> <<>>,
                                chunksWithEmptySlots |-> <<>>, entityCount |-> 0]],
              chunk |-> [c \in Chunk |-> Free]]
  /\ entityInChunk = [e \in Entity |-> Nowhere]
  /\ call = NoCall
  /\ toDestruct = [t \in Managed |-> 0]

--------------------------------------------------------------------------------
(* The lists of an archetype.  s is the store on the way through a call. *)

Lesser(m, n) == IF m <= n THEN m ELSE n

\* The last element takes the place of the i-th.
SwapBack(q, i) == Front([q EXCEPT ![i] = Last(q)])

addToChunkList(s, a, c) ==
  [s EXCEPT !.chunk[c].listIndex = Len(s.archetype[a].chunks) + 1,
            !.archetype[a].chunks = Append(@, c)]

removeFromChunkList(s, a, c) ==
  LET i == s.chunk[c].listIndex
      left == SwapBack(s.archetype[a].chunks, i)
      t == [s EXCEPT !.archetype[a].chunks = left]
  IN IF i <= Len(left) THEN [t EXCEPT !.chunk[left[i]].listIndex = i] ELSE t

addToChunkListWithEmptySlots(s, a, c) ==
  [s EXCEPT !.chunk[c].listWithEmptySlotsIndex =
                                 Len(s.archetype[a].chunksWithEmptySlots) + 1,
            !.archetype[a].chunksWithEmptySlots = Append(@, c)]

removeFromChunkListWithEmptySlots(s, a, c) ==
  LET i == s.chunk[c].listWithEmptySlotsIndex
      left == SwapBack(s.archetype[a].chunksWithEmptySlots, i)
      t == [s EXCEPT !.archetype[a].chunksWithEmptySlots = left]
  IN IF i <= Len(left) THEN [t EXCEPT !.chunk[left[i]].listWithEmptySlotsIndex = i]
                       ELSE t

releaseChunk(s, a, c) ==
  LET t == IF Len(s.chunk[c].rows) < chunkCapacity[a]
             THEN removeFromChunkListWithEmptySlots(s, a, c) ELSE s
  IN [removeFromChunkList(t, a, c) EXCEPT !.chunk[c] = Free]

\* Mutant of setChunkCount: a full chunk that loses a row is not listed again.
setChunkCountForgets(s, c, rows) ==
  LET a == s.chunk[c].archetype
      full == Len(rows) = chunkCapacity[a]
      t == IF full THEN removeFromChunkListWithEmptySlots(s, a, c) ELSE s
  IN IF rows = <<>> THEN releaseChunk(s, a, c)
                    ELSE [t EXCEPT !.chunk[c].rows = rows]

\* The rows of c become these, and c enters and leaves lists accordingly.
setChunkCount(s, c, rows) ==
  LET a == s.chunk[c].archetype
      wasFull == Len(s.chunk[c].rows) = chunkCapacity[a]
      isFull == Len(rows) = chunkCapacity[a]
      t == IF isFull THEN removeFromChunkListWithEmptySlots(s, a, c)
           ELSE IF wasFull THEN addToChunkListWithEmptySlots(s, a, c)
           ELSE s
  IN IF rows = <<>> THEN releaseChunk(s, a, c)
                    ELSE [t EXCEPT !.chunk[c].rows = rows]

CountedBy(s, a, n) == [s EXCEPT !.archetype[a].entityCount = @ + n]

--------------------------------------------------------------------------------
(* Rows *)

\* Rows that move up from the end of the chunk into the hole of n rows.
FillCount(rows, first, n) == Lesser(n, Len(rows) - (first + n - 1))

\* The rows once those from first on, n of them, are gone.
RowsWithout(rows, first, n) ==
  LET fill == FillCount(rows, first, n)
  IN [k \in 1 .. Len(rows) - n |->
        IF k \in first .. first + fill - 1
          THEN rows[Len(rows) - fill + 1 + k - first]
          ELSE rows[k]]

\* setEntityInChunk for the entities of rows from .. to of chunk c.
Placed(place, c, rows, from, to) ==
  [e \in Entity |->
     IF \E k \in from .. to : rows[k].entity = e
       THEN [chunk |-> c, index |-> CHOOSE k \in from .. to : rows[k].entity = e]
       ELSE place[e]]

\* Mutant of Filled: the entities that moved up are still recorded at the end.
FilledUnrecorded(place, c, rows, first, n) == place

\* The places once the hole has been filled.
Filled(place, c, rows, first, n) ==
  Placed(place, c, RowsWithout(rows, first, n), first,
         first + FillCount(rows, first, n) - 1)

\* Archetype::remove, and the end of Archetype::deallocate.
WithoutBatch(s, c, first, n) ==
  CountedBy(setChunkCount(s, c, RowsWithout(s.chunk[c].rows, first, n)),
            s.chunk[c].archetype, -n)

--------------------------------------------------------------------------------
(* A chunk with a free row *)

CleanChunk(s, a, c) ==
  LET t == [s EXCEPT !.chunk[c] = [archetype |-> a, rows |-> <<>>,
                                   listIndex |-> 0, listWithEmptySlotsIndex |-> 0]]
  IN addToChunkListWithEmptySlots(addToChunkList(t, a, c), a, c)

\* What getChunkWithEmptySlots may return, each with the store it leaves: the
\* last of the listed chunks, or a new one; nothing when ChunkStore is full.
getChunkWithEmptySlots(a) ==
  LET listed == store.archetype[a].chunksWithEmptySlots
  IN IF listed # <<>> THEN {[chunk |-> Last(listed), store |-> store]}
     ELSE {[chunk |-> c, store |-> CleanChunk(store, a, c)] : c \in Chunk \ Used}

allocateIntoChunk(s, c, rows) ==
  CountedBy(setChunkCount(s, c, s.chunk[c].rows \o rows),
            s.chunk[c].archetype, Len(rows))

--------------------------------------------------------------------------------
(* Calls *)

\* ChunkStore throws and the call ends where it is.
OutOfChunks(a) ==
  /\ getChunkWithEmptySlots(a) = {}
  /\ call' = NoCall
  /\ UNCHANGED <<store, entityInChunk, toDestruct>>

\* A call for n new entities; EntityStore has room for them.
createEntities(a, n) ==
  /\ call = NoCall
  /\ n <= Cardinality({e \in Entity : ~Exists(e)})
  /\ call' = [op |-> "create", archetype |-> a, left |-> n]
  /\ UNCHANGED <<store, entityInChunk, toDestruct>>

CreateBatch ==
  /\ call.op = "create"
  /\ LET a == call.archetype IN
       \/ OutOfChunks(a)
       \/ \E g \in getChunkWithEmptySlots(a) :
            LET before == g.store.chunk[g.chunk].rows
                n == Lesser(call.left, chunkCapacity[a] - Len(before))
            IN \E es \in [1 .. n -> {e \in Entity : ~Exists(e)}] :
                 /\ IsInjective(es)
                 /\ LET new == [k \in 1 .. n |->
                              [entity |-> es[k],
                               data |-> [t \in a |-> Constructed(t)]]]
                    IN /\ store' = allocateIntoChunk(g.store, g.chunk, new)
                       /\ entityInChunk' = Placed(entityInChunk, g.chunk,
                            before \o new, Len(before) + 1, Len(before) + n)
                 /\ toDestruct' = [t \in Managed |->
                                  toDestruct[t] + IF t \in a THEN n ELSE 0]
                 /\ call' = IF call.left = n THEN NoCall
                                             ELSE [call EXCEPT !.left = @ - n]

destroyEntities(es) ==
  /\ call = NoCall
  /\ call' = [op |-> "destroy", entities |-> es]
  /\ UNCHANGED <<store, entityInChunk, toDestruct>>

\* The first n of es exist and lie in one chunk, one after the other.
InOneRange(es, n) ==
  \A k \in 1 .. n :
    /\ Exists(es[k])
    /\ entityInChunk[es[k]] = [entityInChunk[es[1]] EXCEPT !.index = @ + k - 1]

getFirstEntityBatchInChunk(es) ==
  CHOOSE n \in 1 .. Len(es) :
    InOneRange(es, n) /\ ~(n < Len(es) /\ InOneRange(es, n + 1))

Dropped(es, n) == SubSeq(es, n + 1, Len(es))

DestroysWith(n) ==
  call' = IF Len(call.entities) = n THEN NoCall
          ELSE [call EXCEPT !.entities = Dropped(@, n)]

SkipMissing ==
  /\ call.op = "destroy"
  /\ ~Exists(Head(call.entities))
  /\ DestroysWith(1)
  /\ UNCHANGED <<store, entityInChunk, toDestruct>>

DestroyBatch ==
  /\ call.op = "destroy"
  /\ Exists(Head(call.entities))
  /\ LET n == getFirstEntityBatchInChunk(call.entities)
         c == entityInChunk[Head(call.entities)].chunk
         first == entityInChunk[Head(call.entities)].index
         a == store.chunk[c].archetype
         gone == {Rows(c)[k].entity : k \in first .. first + n - 1}
     IN /\ entityInChunk' =
             Filled([e \in Entity |-> IF e \in gone THEN Nowhere ELSE entityInChunk[e]],
                    c, Rows(c), first, n)
        /\ store' = WithoutBatch(store, c, first, n)
        /\ toDestruct' = [t \in Managed |-> toDestruct[t] - IF t \in a THEN n ELSE 0]
        /\ DestroysWith(n)

--------------------------------------------------------------------------------
(* Changes of archetype *)

MoveTo(c, first, n, b) ==
  /\ call = NoCall
  /\ b # store.chunk[c].archetype   \* else: returns false
  /\ call' = [op |-> "move", chunk |-> c, first |-> first, count |-> n, to |-> b]
  /\ UNCHANGED <<store, entityInChunk, toDestruct>>

addComponents(c, first, n, types) ==
  MoveTo(c, first, n, store.chunk[c].archetype \cup types)

removeComponent(c, first, n, type) ==
  MoveTo(c, first, n, store.chunk[c].archetype \ {type})

\* newTypes[t] = types[t] reads the list of types to remove, so that the first
\* type is not Entity: validateArchetype throws before anything has changed.
removeComponents(c, types) ==
  /\ call = NoCall
  /\ types \cap store.chunk[c].archetype # {}   \* else: returns false
  /\ UNCHANGED vars

converted(row, b) ==
  [row EXCEPT !.data = [t \in b |-> IF t \in DOMAIN row.data THEN row.data[t]
                                                             ELSE Zero]]

\* Mutant of Destructed: what the change drops is left alone.
DestructedNever(a, b) == {}

\* Managed components of the source that the destination has not.
Destructed(a, b) == (a \ b) \cap Managed

\* Mutant of PartFirst: the part is taken from the front.
PartFirstFront(n) == call.first

\* Where the part of the batch that moves now begins: it is taken from the end.
PartFirst(n) == call.first + call.count - n

\* Components that are gained are zero memory on which no constructor runs; destructors
\* will run on them as on any other.
MoveBatch ==
  /\ call.op = "move"
  /\ \/ OutOfChunks(call.to)
     \/ \E g \in getChunkWithEmptySlots(call.to) :
          LET src == call.chunk
              a == store.chunk[src].archetype
              b == call.to
              before == g.store.chunk[g.chunk].rows
              n == Lesser(chunkCapacity[b] - Len(before), call.count)
              first == PartFirst(n)
              part == [k \in 1 .. n |-> converted(Rows(src)[first + k - 1], b)]
          IN /\ store' = WithoutBatch(allocateIntoChunk(g.store, g.chunk, part),
                                      src, first, n)
             /\ entityInChunk' =
                  Filled(Placed(entityInChunk, g.chunk, before \o part,
                                Len(before) + 1, Len(before) + n),
                         src, Rows(src), first, n)
             /\ toDestruct' = [t \in Managed |->
                  toDestruct[t] + (IF t \in b \ a THEN n ELSE 0)
                                - (IF t \in Destructed(a, b) THEN n ELSE 0)]
             /\ call' = IF n = call.count THEN NoCall
                                          ELSE [call EXCEPT !.count = @ - n]

--------------------------------------------------------------------------------
(* Access to a component *)

\* _types, Entity left out.
Types(a) == SelectSeq(TypeOrder, LAMBDA t : t \in a)

\* getComponentDataRW: v is written to the i-th component of e.
WriteAt(e, i, v) ==
  LET p == entityInChunk[e]
  IN store' = [store EXCEPT
       !.chunk[p.chunk].rows[p.index].data[Types(store.chunk[p.chunk].archetype)[i]] = v]

getComponentDataRW(e, i, v) ==
  /\ call = NoCall
  /\ WriteAt(e, i, v)
  /\ UNCHANGED <<entityInChunk, call, toDestruct>>

\* types_end - types: counted from the end of an array that begins with Entity.
getIndexInTypeArray(a, t) ==
  LET pos == CHOOSE k \in 1 .. Cardinality(a) : Types(a)[k] = t
  IN Cardinality(a) + 1 - pos

\* So the write may land in another component of e.
getComponentDataWithTypeRW(e, t, v) ==
  /\ call = NoCall
  /\ WriteAt(e, getIndexInTypeArray(store.chunk[entityInChunk[e].chunk].archetype, t), v)
  /\ UNCHANGED <<entityInChunk, call, toDestruct>>

--------------------------------------------------------------------------------
Lists == UNION {[1 .. n -> Entity] : n \in 1 .. MaxBatch}

OnBatch(c, first, n) ==
  \/ \E types \in SUBSET Component : addComponents(c, first, n, types)
  \/ \E type \in Component : removeComponent(c, first, n, type)

Access(e) ==
  \/ \E i \in 1 .. Cardinality(DOMAIN Row(e).data), v \in Value : getComponentDataRW(e, i, v)
  \/ \E t \in DOMAIN Row(e).data, v \in Value : getComponentDataWithTypeRW(e, t, v)

Next ==
  \/ \E a \in Archetype, n \in 1 .. MaxBatch : createEntities(a, n)
  \/ CreateBatch
  \/ \E es \in Lists : destroyEntities(es)
  \/ SkipMissing
  \/ DestroyBatch
  \/ \E c \in Used : \E first \in 1 .. Len(Rows(c)) :
       \E n \in 1 .. Lesser(MaxBatch, Len(Rows(c)) - first + 1) : OnBatch(c, first, n)
  \/ \E c \in Used, types \in SUBSET Component : removeComponents(c, types)
  \/ MoveBatch
  \/ \E e \in {x \in Entity : Exists(x)} : Access(e)

Spec == Init /\ [][Next]_vars

--------------------------------------------------------------------------------
(* Properties *)

\* Values have their types: a row has the components of its chunk's archetype,
\* a chunk no more rows than its capacity.
StoreTypeOK ==
  /\ \A a \in Archetype :
       LET r == store.archetype[a]
       IN Range(r.chunks) \cup Range(r.chunksWithEmptySlots) \subseteq Used
            /\ r.entityCount \in Nat
  /\ \A c \in Used :
       /\ store.chunk[c].archetype \in Archetype
       /\ Len(Rows(c)) <= chunkCapacity[store.chunk[c].archetype]
       /\ Rows(c) \in Seq([entity : Entity, data : [store.chunk[c].archetype -> Value]])
  /\ toDestruct \in [Managed -> Nat]
  /\ call.op \in {"none", "create", "destroy", "move"}

\* EntityStore and the chunks agree at every step of every call: an entity's
\* record leads to the row that holds it, and a row's entity leads back.
PlacesAgree ==
  /\ \A e \in Entity : Exists(e) =>
       /\ entityInChunk[e].chunk \in Used
       /\ entityInChunk[e].index \in DOMAIN Rows(entityInChunk[e].chunk)
  /\ \A c \in Used : \A k \in DOMAIN Rows(c) :
       entityInChunk[Rows(c)[k].entity] = [chunk |-> c, index |-> k]
  /\ \A e \in Entity : Exists(e) => Row(e).entity = e

\* A list holds exactly these chunks, each at the index it has on record.
Listed(q, cs, index) ==
  /\ Range(q) = cs
  /\ \A i \in DOMAIN q : index[q[i]] = i

\* The list of chunks with empty slots is exactly the chunks of the archetype
\* that are not full, so the throws of removeFromChunkListWithEmptySlots and
\* getExistingChunkWithEmptySlots are unreachable and no free row is forgotten;
\* the chunk list is exactly the archetype's chunks, and an emptied chunk has
\* gone back to ChunkStore.
ListsExact ==
  /\ \A a \in Archetype :
       LET own == {c \in Used : store.chunk[c].archetype = a} IN
       /\ Listed(store.archetype[a].chunks, own, [c \in own |-> store.chunk[c].listIndex])
       /\ Listed(store.archetype[a].chunksWithEmptySlots,
                 {c \in own : Len(Rows(c)) < chunkCapacity[a]},
                 [c \in own |-> store.chunk[c].listWithEmptySlotsIndex])
  /\ \A c \in Used : Rows(c) # <<>>

RowsOf(a) == {p \in Used \X (1 .. chunkCapacity[a]) :
                store.chunk[p[1]].archetype = a /\ p[2] \in DOMAIN Rows(p[1])}

\* entityCount, from which countEntities answers, is the number of rows.
CountsAgree ==
  \A a \in Archetype : store.archetype[a].entityCount = Cardinality(RowsOf(a))

\* The books agree with the rows.
BooksAgree == StoreTypeOK /\ ListsExact /\ CountsAgree

\* A destructor is due on exactly the managed components of the rows in use: each is
\* destructed when it goes, by destruction or by a move, and only then.
DestructedOnce ==
  \A t \in Managed :
    toDestruct[t] = Cardinality(UNION {RowsOf(a) : a \in {b \in Archetype : t \in b}})

Dead == <<>>
TheTable == [e \in Entity |-> IF Exists(e) THEN <<Row(e).data>> ELSE Dead]
TheTargets ==
  CASE call.op = "destroy" -> {e \in ToSet(call.entities) : Exists(e)}
    [] call.op = "move" -> {Rows(call.chunk)[k].entity :
                              k \in call.first .. call.first + call.count - 1}
    [] OTHER -> {}

Table == INSTANCE EntityTable WITH table <- TheTable, targets <- TheTargets

\* Whatever moves between chunks, the callers see a table of entities: a call
\* destroys or changes the entities it names and no other, and each keeps the
\* values of the components it keeps.
ImplementsEntityTable == Table!TableSpec

================================================================================
