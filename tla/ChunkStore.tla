------------------------------ MODULE ChunkStore ------------------------------
(***************************************************************************)
(* ECS::ChunkStore: the table of all chunks.  A bitmap of atomic words     *)
(* says which indices are taken, an array of atomic pointers where the     *)
(* chunks are.  Threads allocate and free without a lock; each action is   *)
(* one access of the shared arrays.                                        *)
(*                                                                         *)
(* Chunk memory comes from an allocator that hands out any address not in  *)
(* use and never fails; the code has set the bit by then and would leave   *)
(* it.  A weak compare-and-swap is taken to fail only when another thread  *)
(* was faster, as on x86-64.  EntityComponentStore::allocateChunk looks    *)
(* the pointer of the new index up in a step of its own.                   *)
(***************************************************************************)
EXTENDS Integers, FiniteSets

CONSTANTS
  Thread,
  ChunkBunchCount,  \* words of the bitmap
  BitmaskSize,      \* bits of a word (32 in the code)
  Address           \* addresses the allocator has

Null == 0

ASSUME SizesAssumption ==
  ChunkBunchCount \in Nat /\ BitmaskSize \in Nat \ {0} /\ Null \notin Address

VARIABLES
  bitmasks, chunks, heap,  \* shared; heap is the set of allocated addresses
  pc, b_index, s_index,    \* locals of allocateChunk, index of freeChunk in s_index
  bitmask,
  held                     \* per thread: the chunks its caller owns

vars == <<bitmasks, chunks, heap, pc, b_index, s_index, bitmask, held>>

MaximumChunkCount == ChunkBunchCount * BitmaskSize
Index == 0 .. MaximumChunkCount - 1
Bits  == 0 .. BitmaskSize - 1

Init ==
  /\ bitmasks = [b \in 0 .. ChunkBunchCount - 1 |-> {}]
  /\ chunks = [i \in Index |-> Null]
  /\ heap = {}
  /\ pc = [t \in Thread |-> "idle"]
  /\ b_index = [t \in Thread |-> 0]
  /\ s_index = [t \in Thread |-> 0]
  /\ bitmask = [t \in Thread |-> {}]
  /\ held = [t \in Thread |-> {}]

Goto(t, label) == pc' = [pc EXCEPT ![t] = label]

--------------------------------------------------------------------------------
(* allocateChunk *)

Allocate(t) ==
  /\ pc[t] = "idle"
  /\ b_index' = [b_index EXCEPT ![t] = 0]
  /\ s_index' = [s_index EXCEPT ![t] = 0]
  /\ Goto(t, "load")
  /\ UNCHANGED <<bitmasks, chunks, heap, bitmask, held>>

\* The first clear bit at or after s; BitmaskSize when there is none.
FirstClear(mask, s) ==
  {k \in s .. BitmaskSize :
     k \notin mask /\ \A j \in s .. k - 1 : j \in mask}

\* Past the last word: throw "AllocateChunk(): out of memory".  A full word is
\* passed over.  s_index stays where the last search left it, in this word or
\* in one before it.
Load(t) ==
  /\ pc[t] = "load"
  /\ IF b_index[t] = ChunkBunchCount
       THEN Goto(t, "idle") /\ UNCHANGED <<b_index, s_index, bitmask>>
     ELSE IF bitmasks[b_index[t]] = Bits
       THEN /\ b_index' = [b_index EXCEPT ![t] = @ + 1]
            /\ UNCHANGED <<pc, s_index, bitmask>>
     ELSE /\ bitmask' = [bitmask EXCEPT ![t] = bitmasks[b_index[t]]]
          /\ \E s \in FirstClear(bitmask'[t], s_index[t]) :
               s_index' = [s_index EXCEPT ![t] = s]
          /\ Goto(t, "cas")
          /\ UNCHANGED b_index
  /\ UNCHANGED <<bitmasks, chunks, heap, held>>

\* What 1<<s sets; shifting by the whole width is undefined: bit 0 where the
\* processor masks the count, else nothing.
Shifted(s) == IF s < BitmaskSize THEN {{s}} ELSE {{0}, {}}

Exchange(t) ==
  /\ pc[t] = "cas"
  /\ IF bitmasks[b_index[t]] = bitmask[t]
       THEN /\ \E bit \in Shifted(s_index[t]) :
                 bitmasks' = [bitmasks EXCEPT ![b_index[t]] = @ \cup bit]
            /\ Goto(t, "store")
       ELSE Goto(t, "load") /\ UNCHANGED bitmasks
  /\ UNCHANGED <<chunks, heap, b_index, s_index, bitmask, held>>

NewIndex(t) == b_index[t] * BitmaskSize + s_index[t]

\* A new chunk goes into the table; past its end the store hits other memory.
Store(t) ==
  /\ pc[t] = "store"
  /\ \E v \in Address \ heap :
       /\ heap' = heap \cup {v}
       /\ IF NewIndex(t) \in Index
            THEN chunks' = [chunks EXCEPT ![NewIndex(t)] = v] /\ Goto(t, "fetch")
            ELSE Goto(t, "outOfBounds") /\ UNCHANGED chunks
  /\ UNCHANGED <<bitmasks, b_index, s_index, bitmask, held>>

\* getChunkPointer(newChunkIndex), called by EntityComponentStore.
Fetch(t) ==
  /\ pc[t] = "fetch"
  /\ held' = [held EXCEPT ![t] =
                @ \cup {[index |-> NewIndex(t), chunk |-> chunks[NewIndex(t)]]}]
  /\ Goto(t, "idle")
  /\ UNCHANGED <<bitmasks, chunks, heap, b_index, s_index, bitmask>>

--------------------------------------------------------------------------------
(* freeChunk *)

\* Mutant of ClearBit: the bit of a freed chunk stays set.
ClearNoBit(i) == UNCHANGED bitmasks

ClearBit(i) ==
  bitmasks' = [bitmasks EXCEPT ![i \div BitmaskSize] = @ \ {i % BitmaskSize}]

\* The owner gives its chunk up; first the bit is cleared.
Free(t) ==
  /\ pc[t] = "idle"
  /\ \E c \in held[t] :
       /\ held' = [held EXCEPT ![t] = @ \ {c}]
       /\ ClearBit(c.index)
       /\ s_index' = [s_index EXCEPT ![t] = c.index]
  /\ Goto(t, "freeing")
  /\ UNCHANGED <<chunks, heap, b_index, bitmask>>

\* Then the pointer is taken out, and its chunk deallocated.
TakeOut(t) ==
  /\ pc[t] = "freeing"
  /\ LET v == chunks[s_index[t]] IN
       /\ heap' = heap \ {v}
       /\ Goto(t, IF v = Null THEN "invalidChunk" ELSE "idle")
  /\ chunks' = [chunks EXCEPT ![s_index[t]] = Null]
  /\ UNCHANGED <<bitmasks, b_index, s_index, bitmask, held>>

--------------------------------------------------------------------------------
Next == \E t \in Thread :
  \/ Allocate(t) \/ Load(t) \/ Exchange(t) \/ Store(t) \/ Fetch(t)
  \/ Free(t) \/ TakeOut(t)

Spec == Init /\ [][Next]_vars

--------------------------------------------------------------------------------
(* Correctness *)

\* Between calls the bitmap says exactly which places of the table are in use,
\* each place in use is owned by somebody, and no chunk is leaked; at any time
\* the memory of a chunk that has an owner is allocated.
TableConsistent ==
  /\ \A t \in Thread : \A c \in held[t] : c.chunk \in heap
  /\ (\A t \in Thread : pc[t] = "idle") =>
    /\ \A i \in Index :
         (chunks[i] # Null) <=> (i % BitmaskSize) \in bitmasks[i \div BitmaskSize]
    /\ {chunks[i] : i \in Index} \ {Null} = heap
    /\ UNION {{c.index : c \in held[t]} : t \in Thread} = {i \in Index : chunks[i] # Null}

\* "AllocateChunk(): out of memory" is thrown only when every index is taken.
OutOfMemoryMeansFull ==
  [][\A t \in Thread :
       pc[t] = "load" /\ b_index[t] = ChunkBunchCount /\ pc'[t] = "idle"
         => \A i \in Index : chunks[i] # Null]_vars
================================================================================
