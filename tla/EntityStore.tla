------------------------------ MODULE EntityStore ------------------------------
(***************************************************************************)
(* ECS::EntityStore: entity handles are handed out from a fixed array of   *)
(* blocks.  A block has no mutex: its atomic entityCount is the lock, the  *)
(* value BlockBusy (~0) meaning "some thread is inside this block".        *)
(*                                                                         *)
(* allocateEntities never waits (a busy block is skipped), while           *)
(* deallocateEntities spins until it owns the block it needs.  Each action *)
(* below is one atomic access of entityCount, or one iteration of the loop *)
(* a thread runs over the slots of a block it owns.                        *)
(*                                                                         *)
(* A handle's int32 index is written as the pair (blk, slot) that the code *)
(* obtains from it with / and % EntitiesInBlock.  A DataBlock is created   *)
(* zeroed by the first thread that owns it, so a missing block and an      *)
(* empty one are the same state here.                                      *)
(***************************************************************************)
EXTENDS Integers, Sequences, FiniteSets

CONSTANTS
  Thread,           \* the threads that allocate and deallocate entities
  BlockCount,       \* number of blocks (4096 in the code)
  EntitiesInBlock,  \* slots of one block (8192 in the code)
  MaxRequest,       \* bound: entities asked for, or given back, by one call
  MaxCalls          \* bound: calls made in one behaviour

ASSUME ConstantsAssumption ==
  /\ BlockCount \in Nat
  /\ EntitiesInBlock \in Nat
  /\ MaxRequest \in Nat
  /\ MaxCalls \in Nat

VARIABLES
  \* shared memory
  entityCount,    \* per block: number of live entities, or BlockBusy
  allocated,      \* per block: the slots whose bit is set in the bitmap
  versions,       \* per slot: odd while the slot holds a live entity
  entityInChunk,  \* per slot: the chunk position recorded for the entity
  \* locals of the call each thread is executing
  pc, blk,        \* next step; current block
  seen,           \* blockCount, later the count that will be stored back
  want,           \* entities.size(): how many the caller still has to get
  take,           \* iterations left in the block (remainingCount, range)
  at,             \* entityInChunkIndex
  todo,           \* entities still to be deallocated
  \* history
  held,           \* per thread: every handle it was ever given, in order
  calls           \* calls begun so far

shared == <<entityCount, allocated, versions, entityInChunk>>
vars == <<entityCount, allocated, versions, entityInChunk,
          pc, blk, seen, want, take, at, todo, held, calls>>

Block     == 0 .. BlockCount - 1
InBlock   == 0 .. EntitiesInBlock - 1
BlockBusy == -1
Handle    == [blk : Block, slot : InBlock, ver : Nat]
NoPlace   == <<>>

Issued == UNION {{held[t][k] : k \in 1 .. Len(held[t])} : t \in Thread}

\* The handle's version is the slot's current one: what getChunkIfExists asks
\* and what deallocateEntities requires before it frees a slot.
Matches(h) == versions[h.blk][h.slot] = h.ver

\* ExistsOrThrow, the check of the unversioned accessors: the bit is set.
Exists(h) == h.slot \in allocated[h.blk]

\* The longest prefix of s that lies in one block at consecutive slots: the
\* range deallocateEntities handles under one acquisition of the block.
IsRun(s, n) == \A k \in 1 .. n :
                 s[k].blk = s[1].blk /\ s[k].slot = s[1].slot + k - 1
IsRange(s, n) == IsRun(s, n) /\ ~(n < Len(s) /\ IsRun(s, n + 1))

Drop(s, n) == SubSeq(s, n + 1, Len(s))

Lesser(a, b) == IF a <= b THEN a ELSE b

--------------------------------------------------------------------------------
Init ==
  /\ entityCount = [b \in Block |-> 0]
  /\ allocated = [b \in Block |-> {}]
  /\ versions = [b \in Block |-> [s \in InBlock |-> 0]]
  /\ entityInChunk = [b \in Block |-> [s \in InBlock |-> NoPlace]]
  /\ pc = [t \in Thread |-> "idle"]
  /\ blk = [t \in Thread |-> 0]
  /\ seen = [t \in Thread |-> 0]
  /\ want = [t \in Thread |-> 0]
  /\ take = [t \in Thread |-> 0]
  /\ at = [t \in Thread |-> 0]
  /\ todo = [t \in Thread |-> <<>>]
  /\ held = [t \in Thread |-> <<>>]
  /\ calls = 0

Goto(t, label) == pc' = [pc EXCEPT ![t] = label]

\* Mutant of Swaps: the count is overwritten whatever became of it.
SwapsBlindly(t) == TRUE

\* CAS(entityCount[blk], the count last seen -> BlockBusy) succeeds.
Swaps(t) == entityCount[blk[t]] = seen[t]

\* Mutant of NextVersion: the parity flips to and fro.
VersionToggled(n) == IF n % 2 = 1 THEN n - 1 ELSE n + 1

\* ++version, when a slot becomes an entity and when it stops being one.
NextVersion(n) == n + 1

\* CAS(entityCount[blk], BlockBusy -> n); a failing one throws.
StoreBack(t, n, label) ==
  IF entityCount[blk[t]] = BlockBusy
    THEN /\ entityCount' = [entityCount EXCEPT ![blk[t]] = n]
         /\ Goto(t, label)
    ELSE /\ Goto(t, "internalError")
         /\ UNCHANGED entityCount

--------------------------------------------------------------------------------
(* allocateEntities *)

\* The caller appends n entities to a chunk of its own: the chunk is the
\* thread, firstEntityInChunkIndex the number of handles it has there.
Allocate(t, n) ==
  /\ pc[t] = "idle"
  /\ calls < MaxCalls
  /\ calls' = calls + 1
  /\ want' = [want EXCEPT ![t] = n]
  /\ blk' = [blk EXCEPT ![t] = 0]
  /\ at' = [at EXCEPT ![t] = Len(held[t])]
  /\ Goto(t, "scan")
  /\ UNCHANGED <<shared, seen, take, todo, held>>

\* Mutant of GiveUp: when nothing was found the search starts over.
GiveUpRetries(t) ==
  /\ pc[t] = "scan"
  /\ blk[t] = BlockCount
  /\ blk' = [blk EXCEPT ![t] = 0]
  /\ UNCHANGED <<shared, pc, seen, want, take, at, todo, held, calls>>

\* Past the last block: throw "could not find a data block".  What earlier
\* blocks gave stays allocated.
GiveUp(t) ==
  /\ pc[t] = "scan"
  /\ blk[t] = BlockCount
  /\ Goto(t, "idle")
  /\ UNCHANGED <<shared, blk, seen, want, take, at, todo, held, calls>>

Scan(t) ==
  /\ pc[t] = "scan"
  /\ blk[t] \in Block
  /\ LET count == entityCount[blk[t]] IN
       IF count \in {BlockBusy, EntitiesInBlock}
         THEN /\ blk' = [blk EXCEPT ![t] = @ + 1]
              /\ UNCHANGED <<pc, seen>>
         ELSE /\ seen' = [seen EXCEPT ![t] = count]
              /\ Goto(t, "claim")
              /\ UNCHANGED blk
  /\ UNCHANGED <<shared, want, take, at, todo, held, calls>>

\* Mutant of Share: it forgets the room in the block.
ShareBeyondRoom(t) == want[t]

\* How many of the entities asked for this block is going to hold.
Share(t) == Lesser(EntitiesInBlock - seen[t], want[t])

\* CAS(entityCount[blk], blockCount -> BlockBusy).  When it fails the block is
\* passed over.  From here on seen is blockCount + count, stored by Publish.
Claim(t) ==
  /\ pc[t] = "claim"
  /\ IF Swaps(t)
       THEN /\ entityCount' = [entityCount EXCEPT ![blk[t]] = BlockBusy]
            /\ take' = [take EXCEPT ![t] = Share(t)]
            /\ seen' = [seen EXCEPT ![t] = @ + Share(t)]
            /\ Goto(t, "fill")
            /\ UNCHANGED blk
       ELSE /\ blk' = [blk EXCEPT ![t] = @ + 1]
            /\ Goto(t, "scan")
            /\ UNCHANGED <<entityCount, take, seen>>
  /\ UNCHANGED <<allocated, versions, entityInChunk, want, at, todo, held, calls>>

\* Mutant of Place: the index is advanced before it is used.
PlaceTooFar(t) == <<t, at[t] + 1>>

\* The ChunkPos recorded for the next entity of the call.
Place(t) == <<t, at[t]>>

\* One pass of the innermost loop: the lowest clear bit becomes an entity.
Fill(t) ==
  /\ pc[t] = "fill"
  /\ \E s \in InBlock \ allocated[blk[t]] :
       /\ \A u \in InBlock \ allocated[blk[t]] : s <= u
       /\ allocated' = [allocated EXCEPT ![blk[t]] = @ \cup {s}]
       /\ versions' = [versions EXCEPT ![blk[t]][s] = NextVersion(@)]
       /\ entityInChunk' = [entityInChunk EXCEPT ![blk[t]][s] = Place(t)]
       /\ held' = [held EXCEPT ![t] =
                     Append(@, [blk |-> blk[t], slot |-> s,
                                ver |-> NextVersion(versions[blk[t]][s])])]
  /\ at' = [at EXCEPT ![t] = @ + 1]
  /\ want' = [want EXCEPT ![t] = @ - 1]
  /\ take' = [take EXCEPT ![t] = @ - 1]
  /\ Goto(t, IF take[t] = 1 THEN "publish" ELSE "fill")
  /\ UNCHANGED <<entityCount, blk, seen, todo, calls>>

Publish(t) ==
  /\ pc[t] = "publish"
  /\ StoreBack(t, seen[t], IF want[t] = 0 THEN "idle" ELSE "scan")
  /\ blk' = [blk EXCEPT ![t] = @ + 1]
  /\ UNCHANGED <<allocated, versions, entityInChunk,
                 seen, want, take, at, todo, held, calls>>

--------------------------------------------------------------------------------
(* deallocateEntities *)

\* Any handles ever issued, live or not: the code takes stale ones in stride.
Deallocate(t, batch) ==
  /\ pc[t] = "idle"
  /\ calls < MaxCalls
  /\ calls' = calls + 1
  /\ todo' = [todo EXCEPT ![t] = batch]
  /\ Goto(t, "group")
  /\ UNCHANGED <<shared, blk, seen, want, take, at, held>>

Finished(t) ==
  /\ pc[t] = "group"
  /\ todo[t] = <<>>
  /\ Goto(t, "idle")
  /\ UNCHANGED <<shared, blk, seen, want, take, at, todo, held, calls>>

\* Take the next range and read its block's count; zero means nothing to free.
Group(t) ==
  /\ pc[t] = "group"
  /\ todo[t] # <<>>
  /\ \E n \in 1 .. Len(todo[t]) : LET b == todo[t][1].blk IN
       /\ IsRange(todo[t], n)
       /\ blk' = [blk EXCEPT ![t] = b]
       /\ seen' = [seen EXCEPT ![t] = entityCount[b]]
       /\ IF entityCount[b] = 0
            THEN /\ todo' = [todo EXCEPT ![t] = Drop(@, n)]
                 /\ UNCHANGED <<pc, take>>
            ELSE /\ take' = [take EXCEPT ![t] = n]
                 /\ Goto(t, "grab")
                 /\ UNCHANGED todo
  /\ UNCHANGED <<shared, want, at, held, calls>>

\* One turn of the spin loop: CAS(blockCount -> BlockBusy) unless the count
\* last seen is BlockBusy, else look again.
Grab(t) ==
  /\ pc[t] = "grab"
  /\ IF seen[t] # BlockBusy /\ Swaps(t)
       THEN /\ entityCount' = [entityCount EXCEPT ![blk[t]] = BlockBusy]
            /\ Goto(t, IF seen[t] = 0 THEN "restore" ELSE "free")
            /\ UNCHANGED seen
       ELSE /\ seen' = [seen EXCEPT ![t] = entityCount[blk[t]]]
            /\ UNCHANGED <<entityCount, pc>>
  /\ UNCHANGED <<allocated, versions, entityInChunk,
                 blk, want, take, at, todo, held, calls>>

\* The block became empty while this thread waited for it: put 0 back, skip.
Restore(t) ==
  /\ pc[t] = "restore"
  /\ StoreBack(t, 0, "group")
  /\ todo' = [todo EXCEPT ![t] = Drop(@, take[t])]
  /\ UNCHANGED <<allocated, versions, entityInChunk,
                 blk, seen, want, take, at, held, calls>>

\* Mutant of Frees: the entity's version is not looked at.
FreesAny(h) == TRUE

\* Only a handle of the current version is freed.
Frees(h) == Matches(h)

\* One entity of the range.
Free(t) ==
  /\ pc[t] = "free"
  /\ LET h == todo[t][1] IN
       IF Frees(h)
         THEN /\ versions' = [versions EXCEPT ![h.blk][h.slot] = NextVersion(@)]
              /\ allocated' = [allocated EXCEPT ![h.blk] = @ \ {h.slot}]
              /\ seen' = [seen EXCEPT ![t] = @ - 1]
         ELSE UNCHANGED <<versions, allocated, seen>>
  /\ todo' = [todo EXCEPT ![t] = Drop(@, 1)]
  /\ take' = [take EXCEPT ![t] = @ - 1]
  /\ Goto(t, IF take[t] = 1 THEN "release" ELSE "free")
  /\ UNCHANGED <<entityCount, entityInChunk, blk, want, at, held, calls>>

Release(t) ==
  /\ pc[t] = "release"
  /\ StoreBack(t, seen[t], "group")
  /\ UNCHANGED <<allocated, versions, entityInChunk,
                 blk, seen, want, take, at, todo, held, calls>>

--------------------------------------------------------------------------------
Batches == UNION {[1 .. n -> Issued] : n \in 1 .. MaxRequest}

Call(t) ==
  \/ \E n \in 1 .. MaxRequest : Allocate(t, n)
  \/ \E batch \in Batches : Deallocate(t, batch)

AllocateStep(t) == GiveUp(t) \/ Scan(t) \/ Claim(t) \/ Fill(t) \/ Publish(t)

DeallocateStep(t) ==
  Finished(t) \/ Group(t) \/ Grab(t) \/ Restore(t) \/ Free(t) \/ Release(t)

Next == \E t \in Thread : Call(t) \/ AllocateStep(t) \/ DeallocateStep(t)

Spec == Init /\ [][Next]_vars

\* The operating system runs every thread: a call that can take its next step
\* eventually takes it.  New calls are never owed.
FairSpec ==
  Spec /\ \A t \in Thread : WF_vars(AllocateStep(t)) /\ WF_vars(DeallocateStep(t))

--------------------------------------------------------------------------------
(* Correctness *)

Allocating == {"scan", "claim", "fill", "publish"}
Labels == Allocating \cup
          {"idle", "group", "grab", "restore", "free", "release", "internalError"}

\* The thread has set the block's count to BlockBusy and not yet stored back.
Owns(t, b) == pc[t] \in {"fill", "publish", "restore", "free", "release"} /\ blk[t] = b

\* Types of all variables.
TypeOK ==
  /\ entityCount \in [Block -> {BlockBusy} \cup 0 .. EntitiesInBlock]
  /\ allocated \in [Block -> SUBSET InBlock]
  /\ versions \in [Block -> [InBlock -> Nat]]
  /\ entityInChunk \in [Block -> [InBlock -> {NoPlace} \cup (Thread \X Nat)]]
  /\ pc \in [Thread -> Labels]
  /\ blk \in [Thread -> 0 .. BlockCount]
  /\ seen \in [Thread -> {BlockBusy} \cup 0 .. EntitiesInBlock]
  /\ want \in [Thread -> Nat]
  /\ take \in [Thread -> Nat]
  /\ at \in [Thread -> Nat]
  /\ todo \in [Thread -> Seq(Handle)]
  /\ held \in [Thread -> Seq(Handle)]
  /\ calls \in Nat

\* The count is a lock: two threads are never inside one block, and a block is
\* marked busy exactly while somebody is inside it (a busy mark nobody owns
\* would make every later deallocateEntities spin for ever).
BlockLock ==
  \A b \in Block :
    /\ \A t, u \in Thread : Owns(t, b) /\ Owns(u, b) => t = u
    /\ (entityCount[b] = BlockBusy) <=> (\E t \in Thread : Owns(t, b))

\* EntityStore::integrityCheck: a block at rest counts the bits of its bitmap,
\* whatever mixture of allocations, frees and double frees went before.
CountMatchesBitmap ==
  \A b \in Block :
    entityCount[b] # BlockBusy => entityCount[b] = Cardinality(allocated[b])

\* The "AllocateEntities()"/"DeallocateEntities()" throws after a failed
\* store-back are unreachable, and a thread that still needs slots in a block
\* it owns finds one (the while loop of allocateEntities would never end).
NoInternalError ==
  \A t \in Thread :
    /\ pc[t] # "internalError"
    /\ pc[t] = "fill" => InBlock \ allocated[blk[t]] # {}

\* No handle is given out twice, to one thread or to two.
HandlesUnique ==
  \A t, u \in Thread : \A i \in 1 .. Len(held[t]), j \in 1 .. Len(held[u]) :
    held[t][i] = held[u][j] => t = u /\ i = j

\* A handle passes the version check of getChunkIfExists only while its slot is
\* allocated, and then the slot records the place the entity was created at:
\* the k-th handle of a chunk sits at index k-1, also when it was created
\* by one call from several blocks.
LiveHandleInPlace ==
  \A t \in Thread : \A k \in 1 .. Len(held[t]) :
    LET h == held[t][k] IN
    Matches(h) => Exists(h) /\ entityInChunk[h.blk][h.slot] = <<t, k - 1>>

\* A handle that has gone stale never matches again, whoever recycles the slot.
StaleForever ==
  [][\A h \in Issued : ~Matches(h) => ~Matches(h)']_vars

\* allocateEntities never waits for another thread: it ends, by returning or by
\* throwing, however the others are scheduled.
AllocationEnds ==
  \A t \in Thread : pc[t] \in Allocating ~> pc[t] = "idle"

--------------------------------------------------------------------------------
(* The inductive invariant behind the safety properties above. *)

Odd(n) == n % 2 = 1

\* What a thread's locals say at each label.
LocalInv ==
  \A t \in Thread :
    /\ pc[t] \notin {"idle", "scan", "group"} => blk[t] \in Block
    /\ pc[t] \in {"scan", "claim"} => want[t] >= 1
    /\ pc[t] = "claim" => seen[t] \in 0 .. EntitiesInBlock - 1
    /\ pc[t] = "fill" => take[t] \in 1 .. want[t]
    /\ pc[t] \in {"grab", "restore", "free"} =>
         /\ take[t] \in 1 .. Len(todo[t])
         /\ \A k \in 1 .. take[t] : todo[t][k].blk = blk[t]
    /\ pc[t] # "internalError"

\* The store-back value of the thread inside a block against its bitmap.
CountInv ==
  /\ CountMatchesBitmap
  /\ \A t \in Thread :
       /\ pc[t] = "fill" => seen[t] = Cardinality(allocated[blk[t]]) + take[t]
       /\ pc[t] \in {"publish", "free", "release"} =>
            seen[t] = Cardinality(allocated[blk[t]])
       /\ pc[t] = "restore" => 0 = Cardinality(allocated[blk[t]])

\* A slot's bit is set exactly while its version is odd.
ParityInv ==
  \A b \in Block : \A s \in InBlock : s \in allocated[b] <=> Odd(versions[b][s])

\* Issued handles are odd and never ahead of their slot.
HandleInv ==
  /\ \A t \in Thread : \A k \in 1 .. Len(held[t]) :
       LET h == held[t][k] IN
       /\ Odd(h.ver)
       /\ h.ver <= versions[h.blk][h.slot]
       /\ Matches(h) => entityInChunk[h.blk][h.slot] = <<t, k - 1>>
  /\ \A t \in Thread : \A k \in 1 .. Len(todo[t]) : Odd(todo[t][k].ver)
  /\ \A t \in Thread : pc[t] \in Allocating => at[t] = Len(held[t])

\* Everything above, HandlesUnique included: true initially, kept by each step.
IInv == TypeOK /\ LocalInv /\ BlockLock /\ CountInv /\ ParityInv
        /\ HandleInv /\ HandlesUnique
================================================================================
