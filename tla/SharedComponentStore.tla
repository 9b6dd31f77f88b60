-------------------------- MODULE SharedComponentStore --------------------------
(***************************************************************************)
(* The values of one shared component type: a table of counted values, an  *)
(* open-addressed hash table that finds the slot of a value, and a list of *)
(* free slots.  Types of less than 64 bytes are left out: their slots      *)
(* overlap the table of infos.                                             *)
(***************************************************************************)
EXTENDS Integers, FiniteSets, SequencesExt

CONSTANTS
  Value,          \* the values inserted
  Default,        \* the value of slot 0
  hashOf,         \* the hash code of a value, neither 0 nor SkipCode
  InitialCapacity,
  MaximumSize,    \* the greatest element index
  MaxCapacity,    \* bound: the last resize modelled makes a table of this size
  MaxReferences   \* bound: references to one value

ASSUME SharedAssumption ==
  /\ Default \in Value
  /\ hashOf \in [Value -> Nat \ {0}]
  /\ InitialCapacity \in Nat \ {0, 1}
  /\ MaximumSize \in Nat
  /\ MaxCapacity \in Nat /\ InitialCapacity <= MaxCapacity
  /\ MaxReferences \in Nat \ {0}

VARIABLES
  capacity,        \* ptr->capacity
  count,           \* ptr->count
  freeSlotIndex,   \* ptr->freeSlotIndex
  referenceCount,  \* ptr->infos, per slot
  version,         \* ptr->infos, per slot: of a free one the next on the list
  data,            \* ptr->buffer, per slot
  hashes,          \* ptr->hashes and ptr->hashes_index, per place
  held,            \* per slot and value: references handed out and not given back
  lost,            \* slots that an insert took without recording its value
  refused          \* slots held by a caller whose call threw

vars == <<capacity, count, freeSlotIndex, referenceCount, version, data, hashes, held, lost, refused>>

Slot == 0 .. MaxCapacity - 1
InvalidIndex == -1
Stamp == -2        \* a version: no slot
SkipCode == -1
Empty == [hash |-> 0, index |-> 0]
\* Mutant of Skipped: a removed hash leaves an empty place.
SkippedAsEmpty == Empty

Skipped == [hash |-> SkipCode, index |-> 0]

Referenced == {i \in Slot : referenceCount[i] > 0}

--------------------------------------------------------------------------------
(* The hash table. *)

\* The places of a table of size cap in the order a search visits them.
Probe(code, cap) == [k \in 1 .. cap |-> (code + k - 1) % cap]

\* The place of the first element of the search that satisfies Test, or none; no
\* search goes past an empty place.
FirstPlace(table, code, Test(_)) ==
  LET probe == Probe(code, Cardinality(DOMAIN table))
      hits == {k \in DOMAIN probe :
                 /\ Test(table[probe[k]])
                 /\ \A j \in 1 .. k - 1 : table[probe[j]] # Empty}
  IN IF hits = {} THEN {}
     ELSE {probe[CHOOSE k \in hits : \A j \in hits : k <= j]}

\* Mutant of TryFind: the search ends at a place that was skipped.
TryFindNoSkip(v) ==
  LET Same(cell) == cell.hash = SkipCode \/ (cell.hash = hashOf[v] /\ data[cell.index] = v)
  IN {p \in FirstPlace(hashes, hashOf[v], Same) : hashes[p].hash # SkipCode}

\* insert's tryFind: the place with the hash code and the bytes of v.
TryFind(v) ==
  LET Same(cell) == cell.hash = hashOf[v] /\ data[cell.index] = v
  IN FirstPlace(hashes, hashOf[v], Same)

\* removeReference's search: the place with the hash code and the slot.
PlaceOf(i) ==
  LET Same(cell) == cell.hash = hashOf[data[i]] /\ cell.index = i
  IN FirstPlace(hashes, hashOf[data[i]], Same)

\* checkInternalConsistency's search: the place with the hash code, whatever its slot.
PlaceOfCode(code) ==
  LET Same(cell) == cell.hash = code IN FirstPlace(hashes, code, Same)

\* checkInternalConsistency does not throw.  (After a resize it also reads the infos
\* beyond the old capacity, which nothing has written; they are left out.)
checkInternalConsistency ==
  \A i \in Referenced : \E p \in PlaceOfCode(hashOf[data[i]]) : hashes[p].index = i

\* insertHash: the first place that is empty or skipped.
Usable(cell) == cell.hash \in {0, SkipCode}
PlaceFor(table, code) == FirstPlace(table, code, Usable)

Put(table, code, i) ==
  [p \in DOMAIN table |->
     IF p \in PlaceFor(table, code) THEN [hash |-> code, index |-> i] ELSE table[p]]

\* Mutant of Rehashed: the codes stay at their places.
RehashedNot == [p \in 0 .. 2 * capacity - 1 |-> IF p < capacity THEN hashes[p] ELSE Empty]

\* resize: the codes in use go, in the order of the table, to one twice as large.
Rehashed ==
  LET UpTo[n \in 0 .. capacity] ==
        IF n = 0 THEN [p \in 0 .. 2 * capacity - 1 |-> Empty]
        ELSE IF Usable(hashes[n - 1]) THEN UpTo[n - 1]
        ELSE Put(UpTo[n - 1], hashes[n - 1].hash, hashes[n - 1].index)
  IN UpTo[capacity]

--------------------------------------------------------------------------------
(* Operations. *)

\* initiate
SharedStoreInit ==
  /\ capacity = InitialCapacity
  /\ count = 1
  /\ freeSlotIndex = InvalidIndex
  /\ referenceCount = [i \in Slot |-> IF i = 0 THEN 1 ELSE 0]
  /\ version = [i \in Slot |-> Stamp]
  /\ data = [i \in Slot |-> Default]
  /\ hashes = Put([p \in 0 .. InitialCapacity - 1 |-> Empty], hashOf[Default], 0)
  /\ held = [i \in Slot |-> [v \in Value |-> 0]]
  /\ lost = {} /\ refused = {}

\* Mutant of InsertFound: the reference handed out is not counted.
InsertFoundUncounted(v) ==
  \E p \in TryFind(v) : LET i == hashes[p].index IN
    /\ held[i][v] < MaxReferences
    /\ held' = [held EXCEPT ![i][v] = @ + 1]
    /\ UNCHANGED <<capacity, count, freeSlotIndex, referenceCount, version, data, hashes, lost, refused>>

\* insert of a value the table has.
InsertFound(v) ==
  \E p \in TryFind(v) : LET i == hashes[p].index IN
    /\ referenceCount[i] < MaxReferences
    /\ referenceCount' = [referenceCount EXCEPT ![i] = @ + 1]
    /\ held' = [held EXCEPT ![i][v] = @ + 1]
    /\ UNCHANGED <<capacity, count, freeSlotIndex, version, data, hashes, lost, refused>>

\* The last steps of an insert into slot i.
Record(v, i) ==
  /\ referenceCount' = [referenceCount EXCEPT ![i] = 1]
  /\ version' = [version EXCEPT ![i] = Stamp]
  /\ data' = [data EXCEPT ![i] = v]
  /\ hashes' = Put(hashes, hashOf[v], i)
  /\ IF PlaceFor(hashes, hashOf[v]) = {}   \* throws
       THEN refused' = refused \cup {i} /\ UNCHANGED held
       ELSE held' = [held EXCEPT ![i][v] = @ + 1] /\ UNCHANGED refused
  /\ UNCHANGED <<capacity, lost>>

InsertFree(v) ==
  /\ TryFind(v) = {} /\ freeSlotIndex # InvalidIndex
  /\ Record(v, freeSlotIndex)
  /\ freeSlotIndex' = version[freeSlotIndex]
  /\ UNCHANGED count

InsertNew(v) ==
  /\ TryFind(v) = {} /\ freeSlotIndex = InvalidIndex
  /\ count <= MaximumSize /\ count + 1 < capacity
  /\ Record(v, count)
  /\ count' = count + 1
  /\ UNCHANGED freeSlotIndex

\* insert into the last slot: resize replaces the table, and what insert goes on to
\* write it writes to the old one, which is freed.  The infos beyond the old capacity are
\* what was in the memory: only checkInternalConsistency reads one before it is written.
InsertResize(v) ==
  /\ TryFind(v) = {} /\ freeSlotIndex = InvalidIndex
  /\ count <= MaximumSize /\ count + 1 = capacity
  /\ 2 * capacity <= MaxCapacity
  /\ count' = count + 1
  /\ capacity' = 2 * capacity
  /\ hashes' = Rehashed
  /\ held' = [held EXCEPT ![count][v] = @ + 1]
  /\ lost' = lost \cup {count}
  /\ UNCHANGED <<freeSlotIndex, referenceCount, version, data, refused>>

\* insert when every index is used up: it throws with the count raised.
InsertThrows(v) ==
  /\ TryFind(v) = {} /\ freeSlotIndex = InvalidIndex
  /\ count > MaximumSize /\ count < MaxCapacity
  /\ count' = count + 1
  /\ lost' = lost \cup {count}
  /\ UNCHANGED <<capacity, freeSlotIndex, referenceCount, version, data, hashes, held, refused>>

\* A call on an index that its caller holds and the store refuses.
Refuse(i) ==
  /\ refused' = refused \cup {i}
  /\ UNCHANGED <<capacity, count, freeSlotIndex, referenceCount, version, data, hashes, held, lost>>

addReference(i, v, num) ==
  /\ i # 0 /\ held[i][v] > 0
  /\ IF i >= count \/ referenceCount[i] = 0
       THEN Refuse(i)
       ELSE /\ referenceCount[i] + num <= MaxReferences
            /\ referenceCount' = [referenceCount EXCEPT ![i] = @ + num]
            /\ held' = [held EXCEPT ![i][v] = @ + num]
            /\ UNCHANGED <<capacity, count, freeSlotIndex, version, data, hashes, lost, refused>>

\* removeReference that is not for the last reference.
RemoveSome(i, v, num) ==
  /\ num < referenceCount[i]
  /\ referenceCount' = [referenceCount EXCEPT ![i] = @ - num]
  /\ held' = [held EXCEPT ![i][v] = @ - num]
  /\ UNCHANGED <<capacity, count, freeSlotIndex, version, data, hashes, lost, refused>>

\* removeReference of the last one: the slot becomes free, and its hash a SkipCode; if
\* the search for the hash fails the call throws there.
RemoveLast(i, v, num) ==
  /\ num = referenceCount[i]
  /\ held' = [held EXCEPT ![i][v] = @ - num]
  /\ referenceCount' = [referenceCount EXCEPT ![i] = 0]
  /\ IF count = i + 1
       THEN /\ count' = i
            /\ UNCHANGED <<version, freeSlotIndex>>
       ELSE /\ version' = [version EXCEPT ![i] = freeSlotIndex]
            /\ freeSlotIndex' = i
            /\ UNCHANGED count
  /\ hashes' = [p \in DOMAIN hashes |->
                  IF p \in PlaceOf(i) THEN Skipped ELSE hashes[p]]
  /\ data' = [data EXCEPT ![i] = Default]   \* destroyed
  /\ refused' = IF PlaceOf(i) = {} THEN refused \cup {i} ELSE refused
  /\ UNCHANGED <<capacity, lost>>

removeReference(i, v, num) ==
  /\ i # 0 /\ held[i][v] >= num
  /\ IF i >= count \/ referenceCount[i] < num
       THEN Refuse(i)
       ELSE RemoveSome(i, v, num) \/ RemoveLast(i, v, num)

\* Mutant of incrementVersion: no look at the reference count.
incrementVersionAny(i) ==
  /\ i < count
  /\ version' = [version EXCEPT ![i] = Stamp]
  /\ UNCHANGED <<capacity, count, freeSlotIndex, referenceCount, data, hashes, held, lost, refused>>

\* incrementVersion may be called with any index.
incrementVersion(i) ==
  /\ i < count /\ referenceCount[i] # 0
  /\ version' = [version EXCEPT ![i] = Stamp]
  /\ UNCHANGED <<capacity, count, freeSlotIndex, referenceCount, data, hashes, held, lost, refused>>

SharedStoreNext ==
  \/ \E v \in Value : InsertFound(v) \/ InsertFree(v) \/ InsertNew(v)
                        \/ InsertResize(v) \/ InsertThrows(v)
  \/ \E i \in Slot : incrementVersion(i)
  \/ \E i \in Slot, v \in Value, num \in 1 .. MaxReferences :
       addReference(i, v, num) \/ removeReference(i, v, num)

SharedStoreSpec == SharedStoreInit /\ [][SharedStoreNext]_vars

--------------------------------------------------------------------------------
(* Correctness. *)

\* The count of a value is the number of references that were handed out for it, the
\* callers of an index all mean the value the store has there, and a value nobody was
\* given or everybody gave back has no count; only for a slot whose insert resized the
\* table the callers hold what the store does not know.
ReferencesExact ==
  \A i \in Slot \ (lost \cup {0}), v \in Value :
    held[i][v] = IF v = data[i] THEN referenceCount[i] ELSE 0

\* The slots on the free list, which shares its links with the versions.
FreeList ==
  LET Links[n \in 0 .. MaxCapacity] ==
        IF n = 0 THEN <<freeSlotIndex>>
        ELSE LET s == Links[n - 1] IN
             IF Last(s) < 0 THEN s ELSE Append(s, version[Last(s)])
  IN Links[MaxCapacity]

\* The free list holds each unused slot below the count once and ends: a slot is
\* neither leaked nor handed out twice, and the count never drops below a free slot.
FreeSlotsExact ==
  LET unused == {i \in 0 .. count - 1 : referenceCount[i] = 0} \ lost
      list == FreeList
  IN /\ Last(list) = InvalidIndex
     /\ Len(list) = Cardinality(unused) + 1
     /\ {list[k] : k \in 1 .. Len(list) - 1} = unused

\* However many collisions, skip codes and resizes lie behind the table, the searches of
\* insert and of removeReference for a value in use end at its slot.  The code's own check
\* looks for the code alone: it throws when two values in use have one code, as a and b of
\* the run, although nothing is wrong, and for no other reason.
SearchFinds ==
  /\ \A i \in Referenced : \E p \in TryFind(data[i]) : hashes[p].index = i /\ PlaceOf(i) = {p}
  /\ checkInternalConsistency <=>
       \A i, j \in Referenced : hashOf[data[i]] = hashOf[data[j]] => i = j

\* No call on an index its caller holds is refused, and no search runs out of places,
\* unless the insert that handed out the index resized the table.
OnlyLostRefused == refused \subseteq lost

--------------------------------------------------------------------------------
(* Refinement. *)

Abstract == INSTANCE SharedValues WITH Index <- Slot, refs <- referenceCount, value <- data

\* The store is a table of counted values in which a value has one index and an index
\* keeps its value until its last reference is gone.
ImplementsSharedValues ==
  /\ Abstract!SharedInit(0, Default)
  /\ [][Abstract!SharedNext]_<<referenceCount, data>>
================================================================================
