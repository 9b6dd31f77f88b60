--------------------------- MODULE EntityStoreProofs ---------------------------
(***************************************************************************)
(* Proofs about EntityStore, for any set of threads and any sizes.         *)
(*                                                                         *)
(* IInv is inductive: one lemma per conjunct shows that a step of Next     *)
(* keeps it, with one proof step per action of the module.                 *)
(***************************************************************************)
EXTENDS EntityStore, FiniteSetTheorems, SequenceTheorems, TLAPS

\* Parity alternates: freeing and recycling a slot toggles it.
LEMMA OddFlips == ASSUME NEW n \in Nat PROVE Odd(n + 1) <=> ~Odd(n)
  BY DEF Odd

\* The bitmap of a block is a finite set of at most EntitiesInBlock slots.
LEMMA BitmapFinite ==
  ASSUME NEW S \in SUBSET InBlock
  PROVE  /\ IsFiniteSet(S)
         /\ Cardinality(S) \in 0 .. EntitiesInBlock
         /\ Cardinality(S) = EntitiesInBlock => S = InBlock
  <1> USE ConstantsAssumption
  <1>1. IsFiniteSet(InBlock) /\ Cardinality(InBlock) = EntitiesInBlock
    BY FS_Interval DEF InBlock
  <1>2. IsFiniteSet(S) /\ Cardinality(S) <= EntitiesInBlock
        /\ (Cardinality(S) = EntitiesInBlock => S = InBlock)
    BY <1>1, FS_Subset
  <1>3. Cardinality(S) \in Nat
    BY <1>2, FS_CardinalityType
  <1> QED BY <1>2, <1>3

\* Dropping a prefix of at most the whole sequence.
LEMMA DropProperties ==
  ASSUME NEW S, NEW s \in Seq(S), NEW n \in 0 .. Len(s)
  PROVE  /\ Drop(s, n) \in Seq(S)
         /\ Len(Drop(s, n)) = Len(s) - n
         /\ \A k \in 1 .. Len(s) - n : Drop(s, n)[k] = s[n + k]
  BY SubSeqProperties DEF Drop

\* What holds of all elements holds of those left after a prefix is dropped.
LEMMA DropKeepsOdd ==
  ASSUME NEW s \in Seq(Handle), NEW n \in 0 .. Len(s),
         \A k \in 1 .. Len(s) : Odd(s[k].ver)
  PROVE  \A k \in 1 .. Len(Drop(s, n)) : Odd(Drop(s, n)[k].ver)
  <1> TAKE k \in 1 .. Len(Drop(s, n))
  <1>1. Len(s) \in Nat
    BY LenProperties
  <1>2. k \in 1 .. Len(s) - n /\ Drop(s, n)[k] = s[n + k]
    BY DropProperties
  <1>3. n + k \in 1 .. Len(s)
    BY <1>1, <1>2
  <1> QED BY <1>2, <1>3

\* A batch given to deallocateEntities is a sequence of issued handles.
LEMMA BatchProperties ==
  ASSUME TypeOK, NEW batch \in Batches
  PROVE  /\ batch \in Seq(Handle)
         /\ \A k \in 1 .. Len(batch) : batch[k] \in Issued
  <1>1. Issued \subseteq Handle
    BY DEF Issued, TypeOK
  <1>2. PICK n \in 1 .. MaxRequest : batch \in [1 .. n -> Issued]
    BY DEF Batches
  <1>3. n \in Nat /\ batch \in [1 .. n -> Handle]
    BY <1>1, <1>2, ConstantsAssumption
  <1>4. batch \in Seq(Handle) /\ Len(batch) = n
    BY <1>3, IsASeq
  <1> QED BY <1>2, <1>4

\* Every issued handle is odd.
LEMMA IssuedOdd == HandleInv => \A h \in Issued : Odd(h.ver)
  BY DEF HandleInv, Issued

--------------------------------------------------------------------------------
LEMMA InitIInv == Init => IInv
  <1> SUFFICES ASSUME Init PROVE IInv
    OBVIOUS
  <1> USE ConstantsAssumption DEF Init
  <1>1. TypeOK
    BY EmptySeq DEF TypeOK, Labels, Allocating, InBlock
  <1>2. LocalInv
    BY DEF LocalInv
  <1>3. BlockLock
    BY DEF BlockLock, Owns, BlockBusy
  <1>4. CountInv
    BY FS_EmptySet DEF CountInv, CountMatchesBitmap
  <1>5. ParityInv
    BY DEF ParityInv, Odd
  <1>6. HandleInv /\ HandlesUnique
    BY DEF HandleInv, HandlesUnique, Allocating
  <1> QED BY <1>1, <1>2, <1>3, <1>4, <1>5, <1>6 DEF IInv
--------------------------------------------------------------------------------
(* One lemma per action.  Each begins with what the action does to the      *)
(* variables and what the invariant says of the acting thread, and then has *)
(* one step per conjunct of IInv.                                           *)

LEMMA AllocateKeepsIInv ==
  ASSUME IInv, NEW t \in Thread, NEW n \in 1 .. MaxRequest, Allocate(t, n)
  PROVE  IInv'
  <1> USE ConstantsAssumption
  <1>1. /\ pc[t] = "idle" /\ pc' = [pc EXCEPT ![t] = "scan"]
        /\ want' = [want EXCEPT ![t] = n]
        /\ blk' = [blk EXCEPT ![t] = 0]
        /\ at' = [at EXCEPT ![t] = Len(held[t])]
        /\ calls' = calls + 1
        /\ UNCHANGED <<entityCount, allocated, versions, entityInChunk>>
        /\ UNCHANGED <<seen, take, todo, held>>
    BY DEF Allocate, Goto, shared
  <1>2. TypeOK'
    BY <1>1, LenProperties, SMTT(30) DEF IInv, TypeOK, Labels, Allocating
  <1>3. LocalInv'
    BY <1>1 DEF IInv, TypeOK, LocalInv
  <1>4. BlockLock'
    <2>1. \A u \in Thread, b \in Block : Owns(u, b)' <=> Owns(u, b)
      BY <1>1 DEF IInv, TypeOK, Owns
    <2> QED BY <1>1, <2>1 DEF IInv, BlockLock
  <1>5. CountInv'
    BY <1>1 DEF IInv, TypeOK, CountInv, CountMatchesBitmap
  <1>6. ParityInv'
    BY <1>1, SMTT(30) DEF IInv, ParityInv
  <1>7. HandleInv'
    BY <1>1 DEF IInv, TypeOK, HandleInv, Matches, Allocating
  <1>8. HandlesUnique'
    BY <1>1 DEF IInv, HandlesUnique
  <1> QED BY <1>2, <1>3, <1>4, <1>5, <1>6, <1>7, <1>8 DEF IInv

LEMMA DeallocateKeepsIInv ==
  ASSUME IInv, NEW t \in Thread, NEW batch \in Batches, Deallocate(t, batch)
  PROVE  IInv'
  <1> USE ConstantsAssumption
  <1>1. /\ pc[t] = "idle" /\ pc' = [pc EXCEPT ![t] = "group"]
        /\ todo' = [todo EXCEPT ![t] = batch]
        /\ calls' = calls + 1
        /\ UNCHANGED <<entityCount, allocated, versions, entityInChunk>>
        /\ UNCHANGED <<blk, seen, want, take, at, held>>
    BY DEF Deallocate, Goto, shared
  <1>a. batch \in Seq(Handle) /\ \A k \in 1 .. Len(batch) : Odd(batch[k].ver)
    BY BatchProperties, IssuedOdd DEF IInv
  <1>2. TypeOK'
    BY <1>1, <1>a DEF IInv, TypeOK, Labels, Allocating
  <1>3. LocalInv'
    BY <1>1 DEF IInv, TypeOK, LocalInv
  <1>4. BlockLock'
    <2>1. \A u \in Thread, b \in Block : Owns(u, b)' <=> Owns(u, b)
      BY <1>1, SMTT(30) DEF IInv, TypeOK, Owns
    <2> QED BY <1>1, <2>1 DEF IInv, BlockLock
  <1>5. CountInv'
    BY <1>1 DEF IInv, TypeOK, CountInv, CountMatchesBitmap
  <1>6. ParityInv'
    BY <1>1 DEF IInv, ParityInv
  <1>7. HandleInv'
    BY <1>1, <1>a DEF IInv, TypeOK, HandleInv, Matches, Allocating
  <1>8. HandlesUnique'
    BY <1>1 DEF IInv, HandlesUnique
  <1> QED BY <1>2, <1>3, <1>4, <1>5, <1>6, <1>7, <1>8 DEF IInv

LEMMA GiveUpKeepsIInv ==
  ASSUME IInv, NEW t \in Thread, GiveUp(t)
  PROVE  IInv'
  <1>1. /\ pc[t] = "scan" /\ pc' = [pc EXCEPT ![t] = "idle"]
        /\ UNCHANGED <<entityCount, allocated, versions, entityInChunk>>
        /\ UNCHANGED <<blk, seen, want, take, at, todo, held, calls>>
    BY DEF GiveUp, Goto, shared
  <1>2. TypeOK'
    BY <1>1 DEF IInv, TypeOK, Labels, Allocating
  <1>3. LocalInv'
    BY <1>1 DEF IInv, TypeOK, LocalInv
  <1>4. BlockLock'
    <2>1. \A u \in Thread, b \in Block : Owns(u, b)' <=> Owns(u, b)
      BY <1>1 DEF IInv, TypeOK, Owns
    <2> QED BY <1>1, <2>1 DEF IInv, BlockLock
  <1>5. CountInv'
    BY <1>1 DEF IInv, TypeOK, CountInv, CountMatchesBitmap
  <1>6. ParityInv' /\ HandlesUnique'
    BY <1>1, SMTT(30) DEF IInv, ParityInv, HandlesUnique
  <1>7. HandleInv'
    BY <1>1 DEF IInv, TypeOK, HandleInv, Matches, Allocating
  <1> QED BY <1>2, <1>3, <1>4, <1>5, <1>6, <1>7 DEF IInv

LEMMA ScanKeepsIInv ==
  ASSUME IInv, NEW t \in Thread, Scan(t)
  PROVE  IInv'
  <1> USE ConstantsAssumption
  <1>1. /\ pc[t] = "scan"
        /\ blk[t] \in Block /\ blk[t] + 1 \in 0 .. BlockCount
        /\ UNCHANGED <<entityCount, allocated, versions, entityInChunk>>
        /\ UNCHANGED <<want, take, at, todo, held, calls>>
    BY DEF Scan, shared, Block
  <1>2. CASE entityCount[blk[t]] \in {BlockBusy, EntitiesInBlock}
    <2>1. blk' = [blk EXCEPT ![t] = @ + 1] /\ UNCHANGED <<pc, seen>>
      BY <1>2 DEF Scan
    <2>2. TypeOK'
      BY <1>1, <2>1 DEF IInv, TypeOK
    <2>3. LocalInv'
      BY <1>1, <2>1 DEF IInv, TypeOK, LocalInv
    <2>4. BlockLock'
      <3>1. \A u \in Thread, b \in Block : Owns(u, b)' <=> Owns(u, b)
        BY <1>1, <2>1 DEF IInv, TypeOK, Owns
      <3> QED BY <1>1, <3>1 DEF IInv, BlockLock
    <2>5. CountInv'
      BY <1>1, <2>1, SMTT(30) DEF IInv, TypeOK, CountInv, CountMatchesBitmap
    <2>6. ParityInv' /\ HandlesUnique'
      BY <1>1 DEF IInv, ParityInv, HandlesUnique
    <2>7. HandleInv'
      BY <1>1, <2>1 DEF IInv, TypeOK, HandleInv, Matches, Allocating
    <2> QED BY <2>2, <2>3, <2>4, <2>5, <2>6, <2>7 DEF IInv
  <1>3. CASE entityCount[blk[t]] \notin {BlockBusy, EntitiesInBlock}
    <2>1. /\ seen' = [seen EXCEPT ![t] = entityCount[blk[t]]]
          /\ pc' = [pc EXCEPT ![t] = "claim"]
          /\ UNCHANGED blk
      BY <1>3 DEF Scan, Goto
    <2>a. entityCount[blk[t]] \in 0 .. EntitiesInBlock - 1
      BY <1>1, <1>3 DEF IInv, TypeOK, BlockBusy
    <2>2. TypeOK'
      BY <1>1, <2>1, <2>a DEF IInv, TypeOK, Labels, Allocating
    <2>3. LocalInv'
      BY <1>1, <2>1, <2>a DEF IInv, TypeOK, LocalInv
    <2>4. BlockLock'
      <3>1. \A u \in Thread, b \in Block : Owns(u, b)' <=> Owns(u, b)
        BY <1>1, <2>1 DEF IInv, TypeOK, Owns
      <3> QED BY <1>1, <3>1 DEF IInv, BlockLock
    <2>5. CountInv'
      BY <1>1, <2>1, SMTT(30) DEF IInv, TypeOK, CountInv, CountMatchesBitmap
    <2>6. ParityInv' /\ HandlesUnique'
      BY <1>1 DEF IInv, ParityInv, HandlesUnique
    <2>7. HandleInv'
      BY <1>1, <2>1 DEF IInv, TypeOK, HandleInv, Matches, Allocating
    <2> QED BY <2>2, <2>3, <2>4, <2>5, <2>6, <2>7 DEF IInv
  <1> QED BY <1>2, <1>3

LEMMA ClaimKeepsIInv ==
  ASSUME IInv, NEW t \in Thread, Claim(t)
  PROVE  IInv'
  <1> USE ConstantsAssumption
  <1> DEFINE count == Lesser(EntitiesInBlock - seen[t], want[t])
  <1>1. /\ pc[t] = "claim"
        /\ UNCHANGED <<allocated, versions, entityInChunk, want, at, todo, held, calls>>
    BY DEF Claim
  <1>a. /\ blk[t] \in Block /\ blk[t] + 1 \in 0 .. BlockCount
        /\ seen[t] \in 0 .. EntitiesInBlock - 1
        /\ want[t] \in Nat /\ want[t] >= 1
    <2>1. blk[t] \in Block /\ seen[t] \in 0 .. EntitiesInBlock - 1 /\ want[t] >= 1
      BY <1>1 DEF IInv, LocalInv
    <2> QED BY <2>1 DEF IInv, TypeOK, Block
  <1>2. CASE entityCount[blk[t]] = seen[t]
    <2>1. /\ entityCount' = [entityCount EXCEPT ![blk[t]] = BlockBusy]
          /\ take' = [take EXCEPT ![t] = count]
          /\ seen' = [seen EXCEPT ![t] = @ + count]
          /\ pc' = [pc EXCEPT ![t] = "fill"]
          /\ UNCHANGED blk
      BY <1>2 DEF Claim, Goto, Swaps, Share
    <2>a. /\ count \in 1 .. want[t]
          /\ seen[t] + count \in 0 .. EntitiesInBlock
      BY <1>a DEF Lesser
    <2> HIDE DEF count
    <2>2. TypeOK'
      <3>1. /\ entityCount' \in [Block -> {BlockBusy} \cup 0 .. EntitiesInBlock]
            /\ seen' \in [Thread -> {BlockBusy} \cup 0 .. EntitiesInBlock]
            /\ take' \in [Thread -> Nat]
        BY <1>a, <2>1, <2>a DEF IInv, TypeOK
      <3>2. pc' \in [Thread -> Labels]
        BY <2>1 DEF IInv, TypeOK, Labels, Allocating
      <3> QED BY <1>1, <2>1, <3>1, <3>2 DEF IInv, TypeOK
    <2>3. LocalInv'
      BY <1>1, <1>a, <2>1, <2>a DEF IInv, TypeOK, LocalInv
    <2>4. BlockLock'
      <3>1. \A u \in Thread, b \in Block :
              Owns(u, b)' <=> Owns(u, b) \/ (u = t /\ b = blk[t])
        BY <1>1, <2>1 DEF IInv, TypeOK, Owns
      <3>2. \A u \in Thread : ~Owns(u, blk[t])
        BY <1>2, <1>a DEF IInv, BlockLock, BlockBusy
      <3>3. \A b \in Block : entityCount'[b] = BlockBusy <=>
                             entityCount[b] = BlockBusy \/ b = blk[t]
        BY <2>1, <1>a DEF IInv, TypeOK
      <3> QED BY <3>1, <3>2, <3>3 DEF IInv, BlockLock
    <2>5. CountInv'
      <3>1. CountMatchesBitmap'
        BY <1>1, <2>1 DEF IInv, TypeOK, CountInv, CountMatchesBitmap
      <3>2. seen[t] = Cardinality(allocated[blk[t]])
        BY <1>2, <1>a DEF IInv, CountInv, CountMatchesBitmap, BlockBusy
      <3>3. /\ seen[t] + count = Cardinality(allocated[blk[t]]) + count
            /\ seen'[t] = seen[t] + count /\ take'[t] = count
        BY <2>1, <3>2 DEF IInv, TypeOK
      <3> QED BY <1>1, <2>1, <3>1, <3>3 DEF IInv, TypeOK, CountInv
    <2>6. ParityInv' /\ HandlesUnique'
      BY <1>1 DEF IInv, ParityInv, HandlesUnique
    <2>7. HandleInv'
      BY <1>1, <2>1 DEF IInv, TypeOK, HandleInv, Matches, Allocating
    <2> QED BY <2>2, <2>3, <2>4, <2>5, <2>6, <2>7 DEF IInv
  <1>3. CASE entityCount[blk[t]] # seen[t]
    <2>1. /\ blk' = [blk EXCEPT ![t] = @ + 1]
          /\ pc' = [pc EXCEPT ![t] = "scan"]
          /\ UNCHANGED <<entityCount, take, seen>>
      BY <1>3 DEF Claim, Goto, Swaps
    <2>2. TypeOK'
      BY <1>1, <1>a, <2>1 DEF IInv, TypeOK, Labels, Allocating
    <2>3. LocalInv'
      BY <1>1, <1>a, <2>1 DEF IInv, TypeOK, LocalInv
    <2>4. BlockLock'
      <3>1. \A u \in Thread, b \in Block : Owns(u, b)' <=> Owns(u, b)
        BY <1>1, <2>1 DEF IInv, TypeOK, Owns
      <3> QED BY <2>1, <3>1 DEF IInv, BlockLock
    <2>5. CountInv'
      BY <1>1, <2>1 DEF IInv, TypeOK, CountInv, CountMatchesBitmap
    <2>6. ParityInv' /\ HandlesUnique'
      BY <1>1 DEF IInv, ParityInv, HandlesUnique
    <2>7. HandleInv'
      BY <1>1, <2>1 DEF IInv, TypeOK, HandleInv, Matches, Allocating
    <2> QED BY <2>2, <2>3, <2>4, <2>5, <2>6, <2>7 DEF IInv
  <1> QED BY <1>2, <1>3

\* A thread inside a block owns it, so its store-back succeeds.
LEMMA StoreBackSucceeds ==
  ASSUME IInv, NEW t \in Thread, NEW n, NEW label,
         pc[t] \in {"publish", "restore", "release"}, StoreBack(t, n, label)
  PROVE  /\ blk[t] \in Block
         /\ entityCount' = [entityCount EXCEPT ![blk[t]] = n]
         /\ pc' = [pc EXCEPT ![t] = label]
  <1>1. blk[t] \in Block /\ Owns(t, blk[t])
    BY DEF IInv, LocalInv, Owns
  <1>2. entityCount[blk[t]] = BlockBusy
    BY <1>1 DEF IInv, BlockLock
  <1> QED BY <1>1, <1>2 DEF StoreBack, Goto

\* Storing n >= 0 back gives the block up, and nothing else changes hands.
LEMMA StoreBackKeepsBlockLock ==
  ASSUME IInv, NEW t \in Thread, NEW n \in Nat, NEW label \in {"idle", "scan", "group"},
         pc[t] \in {"publish", "restore", "release"}, blk[t] \in Block,
         entityCount' = [entityCount EXCEPT ![blk[t]] = n],
         pc' = [pc EXCEPT ![t] = label],
         \A u \in Thread : u # t => blk'[u] = blk[u]
  PROVE  BlockLock'
  <1>1. Owns(t, blk[t])
    BY DEF Owns
  <1>2. \A u \in Thread, b \in Block : Owns(u, b)' <=> Owns(u, b) /\ u # t
    BY DEF IInv, TypeOK, Owns
  <1>3. \A b \in Block : entityCount'[b] = BlockBusy <=>
                         entityCount[b] = BlockBusy /\ b # blk[t]
    BY DEF IInv, TypeOK, BlockBusy
  <1>4. \A u \in Thread : Owns(u, blk[t]) => u = t
    BY <1>1 DEF IInv, BlockLock
  <1>5. \A b \in Block : b # blk[t] => ~Owns(t, b)
    BY DEF Owns
  <1> QED BY <1>2, <1>3, <1>4, <1>5 DEF IInv, BlockLock

LEMMA PublishKeepsIInv ==
  ASSUME IInv, NEW t \in Thread, Publish(t)
  PROVE  IInv'
  <1> USE ConstantsAssumption
  <1> DEFINE label == IF want[t] = 0 THEN "idle" ELSE "scan"
  <1>1. /\ pc[t] = "publish"
        /\ blk' = [blk EXCEPT ![t] = @ + 1]
        /\ UNCHANGED <<allocated, versions, entityInChunk>>
        /\ UNCHANGED <<seen, want, take, at, todo, held, calls>>
    BY DEF Publish
  <1>2. /\ blk[t] \in Block
        /\ entityCount' = [entityCount EXCEPT ![blk[t]] = seen[t]]
        /\ pc' = [pc EXCEPT ![t] = label]
    BY <1>1, StoreBackSucceeds DEF Publish
  <1>a. /\ seen[t] = Cardinality(allocated[blk[t]])
        /\ allocated[blk[t]] \in SUBSET InBlock
        /\ want[t] \in Nat /\ blk[t] + 1 \in 0 .. BlockCount
        /\ label \in {"idle", "scan"} /\ (label = "scan" => want[t] >= 1)
    BY <1>1, <1>2 DEF IInv, TypeOK, CountInv, Block
  <1>b. seen[t] \in 0 .. EntitiesInBlock
    BY <1>a, BitmapFinite
  <1> HIDE DEF label
  <1>3. TypeOK'
    <2>1. /\ entityCount' \in [Block -> {BlockBusy} \cup 0 .. EntitiesInBlock]
          /\ blk' \in [Thread -> 0 .. BlockCount]
      BY <1>1, <1>2, <1>a, <1>b DEF IInv, TypeOK
    <2>2. pc' \in [Thread -> Labels]
      BY <1>2, <1>a DEF IInv, TypeOK, Labels, Allocating
    <2> QED BY <1>1, <2>1, <2>2 DEF IInv, TypeOK
  <1>4. LocalInv'
    BY <1>1, <1>2, <1>a DEF IInv, TypeOK, LocalInv
  <1>5. BlockLock'
    <2>1. \A u \in Thread : u # t => blk'[u] = blk[u]
      BY <1>1 DEF IInv, TypeOK
    <2>2. seen[t] \in Nat /\ label \in {"idle", "scan", "group"}
      BY <1>a, <1>b
    <2> QED BY <1>1, <1>2, <2>1, <2>2, StoreBackKeepsBlockLock
  <1>6. CountInv'
    <2>1. CountMatchesBitmap'
      BY <1>1, <1>2, <1>a DEF IInv, TypeOK, CountInv, CountMatchesBitmap
    <2> QED BY <1>1, <1>2, <1>a, <2>1 DEF IInv, TypeOK, CountInv
  <1>7. ParityInv' /\ HandlesUnique'
    BY <1>1, SMTT(30) DEF IInv, ParityInv, HandlesUnique
  <1>8. HandleInv'
    BY <1>1, <1>2, <1>a DEF IInv, TypeOK, HandleInv, Matches, Allocating
  <1> QED BY <1>3, <1>4, <1>5, <1>6, <1>7, <1>8 DEF IInv

\* Filling a slot makes a handle no thread holds: it is ahead of every handle
\* issued for that slot.
LEMMA FillKeepsIInv ==
  ASSUME IInv, NEW t \in Thread, Fill(t)
  PROVE  IInv'
  <1> USE ConstantsAssumption
  <1>1. /\ pc[t] = "fill"
        /\ pc' = [pc EXCEPT ![t] = IF take[t] = 1 THEN "publish" ELSE "fill"]
        /\ at' = [at EXCEPT ![t] = @ + 1]
        /\ want' = [want EXCEPT ![t] = @ - 1]
        /\ take' = [take EXCEPT ![t] = @ - 1]
        /\ UNCHANGED <<entityCount, blk, seen, todo, calls>>
    BY DEF Fill, Goto
  <1> DEFINE B == blk[t]
  <1>2. PICK s \in InBlock \ allocated[B] :
          /\ allocated' = [allocated EXCEPT ![B] = @ \cup {s}]
          /\ versions' = [versions EXCEPT ![B][s] = @ + 1]
          /\ entityInChunk' = [entityInChunk EXCEPT ![B][s] = <<t, at[t]>>]
          /\ held' = [held EXCEPT ![t] =
                        Append(@, [blk |-> B, slot |-> s, ver |-> versions[B][s] + 1])]
    BY DEF Fill, Place, NextVersion
  <1> DEFINE new == [blk |-> B, slot |-> s, ver |-> versions[B][s] + 1]
  <1>a. /\ B \in Block /\ take[t] \in 1 .. want[t]
        /\ want[t] \in Nat /\ at[t] \in Nat /\ at[t] = Len(held[t])
        /\ versions[B][s] \in Nat /\ new \in Handle
    <2>1. B \in Block /\ take[t] \in 1 .. want[t]
      BY <1>1 DEF IInv, LocalInv
    <2>2. at[t] = Len(held[t])
      BY <1>1 DEF IInv, HandleInv, Allocating
    <2>3. want[t] \in Nat /\ at[t] \in Nat /\ versions[B][s] \in Nat
      BY <2>1 DEF IInv, TypeOK
    <2> QED BY <2>1, <2>2, <2>3 DEF Handle
  <1>b. \A u \in Thread, b \in Block : Owns(u, b) /\ u # t => b # B
    BY <1>1, <1>a DEF IInv, BlockLock, Owns
  <1>c. /\ \A b \in Block : b # B => /\ allocated'[b] = allocated[b]
                                     /\ versions'[b] = versions[b]
                                     /\ entityInChunk'[b] = entityInChunk[b]
        /\ allocated'[B] = allocated[B] \cup {s}
        /\ versions'[B][s] = versions[B][s] + 1
        /\ entityInChunk'[B][s] = <<t, at[t]>>
        /\ \A x \in InBlock : x # s => /\ versions'[B][x] = versions[B][x]
                                       /\ entityInChunk'[B][x] = entityInChunk[B][x]
    BY <1>2, <1>a DEF IInv, TypeOK
  <1>d. /\ held[t] \in Seq(Handle)
        /\ held'[t] = Append(held[t], new) /\ held'[t] \in Seq(Handle)
        /\ Len(held'[t]) = Len(held[t]) + 1
        /\ \A k \in 1 .. Len(held[t]) : held'[t][k] = held[t][k]
        /\ held'[t][Len(held[t]) + 1] = new
        /\ \A u \in Thread : u # t => held'[u] = held[u]
    BY <1>2, <1>a, AppendProperties DEF IInv, TypeOK
  <1> HIDE DEF B, new
  <1>3. TypeOK'
    <2>1. pc' \in [Thread -> Labels]
      BY <1>1 DEF IInv, TypeOK, Labels, Allocating
    <2>2. /\ at' \in [Thread -> Nat] /\ want' \in [Thread -> Nat]
          /\ take' \in [Thread -> Nat]
      BY <1>1, <1>a DEF IInv, TypeOK
    <2>3. allocated' \in [Block -> SUBSET InBlock]
      BY <1>2, <1>a DEF IInv, TypeOK
    <2>4. versions' \in [Block -> [InBlock -> Nat]]
      BY <1>2, <1>a DEF IInv, TypeOK
    <2>5. entityInChunk' \in [Block -> [InBlock -> {NoPlace} \cup (Thread \X Nat)]]
      BY <1>2, <1>a DEF IInv, TypeOK
    <2>6. held' \in [Thread -> Seq(Handle)]
      BY <1>2, <1>d DEF IInv, TypeOK
    <2> QED BY <1>1, <2>1, <2>2, <2>3, <2>4, <2>5, <2>6 DEF IInv, TypeOK
  <1>4. LocalInv'
    <2>1. take[t] # 1 => take'[t] \in 1 .. want'[t]
      BY <1>1, <1>a DEF IInv, TypeOK
    <2> QED BY <1>1, <1>a, <2>1 DEF IInv, TypeOK, LocalInv, B
  <1>5. BlockLock'
    <2>1. \A u \in Thread, b \in Block : Owns(u, b)' <=> Owns(u, b)
      BY <1>1 DEF IInv, TypeOK, Owns
    <2> QED BY <1>1, <2>1 DEF IInv, BlockLock
  <1>6. CountInv'
    <2>1. CountMatchesBitmap'
      <3>1. entityCount[B] = BlockBusy
        BY <1>1, <1>a DEF IInv, BlockLock, Owns, B
      <3> QED BY <1>1, <1>c, <3>1 DEF IInv, CountInv, CountMatchesBitmap
    <2>2. Cardinality(allocated'[B]) = Cardinality(allocated[B]) + 1
      <3>1. allocated[B] \in SUBSET InBlock
        BY <1>a DEF IInv, TypeOK
      <3> QED BY <1>2, <1>c, <3>1, BitmapFinite, FS_AddElement
    <2>3. /\ seen[t] = Cardinality(allocated[B]) + take[t]
          /\ Cardinality(allocated[B]) \in Nat
      <3>1. allocated[B] \in SUBSET InBlock
        BY <1>a DEF IInv, TypeOK
      <3> QED BY <1>1, <3>1, BitmapFinite DEF IInv, CountInv, B
    <2>4. seen'[t] = Cardinality(allocated'[B]) + take'[t] /\ blk'[t] = B
      BY <1>1, <1>a, <2>2, <2>3 DEF IInv, TypeOK, B
    <2>5. pc'[t] = "publish" => take'[t] = 0
      BY <1>1, <1>a DEF IInv, TypeOK
    <2>6. ASSUME NEW u \in Thread, u # t,
                 pc[u] \in {"fill", "publish", "restore", "free", "release"}
          PROVE  allocated'[blk[u]] = allocated[blk[u]]
      BY <1>b, <1>c, <2>6 DEF IInv, LocalInv, Owns
    <2>7. Cardinality(allocated'[B]) \in Nat
      BY <2>2, <2>3
    <2>8. /\ pc'[t] = "fill" => seen'[t] = Cardinality(allocated'[blk'[t]]) + take'[t]
          /\ pc'[t] = "publish" => seen'[t] = Cardinality(allocated'[blk'[t]])
          /\ pc'[t] \in {"fill", "publish"}
      BY <1>1, <2>4, <2>5, <2>7 DEF IInv, TypeOK
    <2>9. \A u \in Thread : u # t =>
            pc'[u] = pc[u] /\ blk'[u] = blk[u] /\ seen'[u] = seen[u] /\ take'[u] = take[u]
      BY <1>1 DEF IInv, TypeOK
    <2> QED BY <2>1, <2>6, <2>8, <2>9 DEF IInv, CountInv
  <1>7. ParityInv'
    <2>1. Odd(versions[B][s] + 1) <=> ~Odd(versions[B][s])
      BY <1>a, OddFlips
    <2> QED BY <1>2, <1>a, <1>c, <2>1 DEF IInv, ParityInv
  <1>e. \A u \in Thread : \A k \in 1 .. Len(held[u]) :
          held[u][k] \in Handle /\ held[u][k] # new
    <2> TAKE u \in Thread
    <2> TAKE k \in 1 .. Len(held[u])
    <2>1. held[u][k] \in Handle
      BY ElementOfSeq DEF IInv, TypeOK
    <2>2. held[u][k].ver <= versions[held[u][k].blk][held[u][k].slot]
      BY DEF IInv, HandleInv
    <2>3. new.blk = B /\ new.slot = s /\ new.ver = versions[B][s] + 1
      BY DEF new
    <2>4. ASSUME held[u][k] = new PROVE FALSE
      <3>1. new.ver <= versions[new.blk][new.slot]
        BY <2>2, <2>4
      <3> QED BY <3>1, <2>3, <1>a
    <2> QED BY <2>1, <2>4
  <1>8. HandleInv'
    <2>1. Odd(new.ver)
      BY <1>2, <1>a, OddFlips DEF IInv, ParityInv, new
    <2>2. ASSUME NEW h \in Handle, h.ver <= versions[h.blk][h.slot]
          PROVE  /\ h.ver <= versions'[h.blk][h.slot]
                 /\ versions'[h.blk][h.slot] = h.ver =>
                      /\ Matches(h)
                      /\ entityInChunk'[h.blk][h.slot] = entityInChunk[h.blk][h.slot]
      <3>1. h.blk \in Block /\ h.slot \in InBlock /\ h.ver \in Nat
        BY DEF Handle
      <3>2. CASE h.blk = B /\ h.slot = s
        BY <1>a, <1>c, <2>2, <3>1, <3>2 DEF Matches
      <3>3. CASE ~(h.blk = B /\ h.slot = s)
        <4>1. /\ versions'[h.blk][h.slot] = versions[h.blk][h.slot]
              /\ entityInChunk'[h.blk][h.slot] = entityInChunk[h.blk][h.slot]
          BY <1>c, <3>1, <3>3
        <4> QED BY <2>2, <4>1 DEF Matches
      <3> QED BY <3>2, <3>3
    <2>3. ASSUME NEW u \in Thread, NEW k \in 1 .. Len(held'[u])
          PROVE  LET h == held'[u][k] IN
                 /\ Odd(h.ver)
                 /\ h.ver <= versions'[h.blk][h.slot]
                 /\ versions'[h.blk][h.slot] = h.ver => entityInChunk'[h.blk][h.slot] = <<u, k - 1>>
      <3>1. CASE u = t /\ k = Len(held[t]) + 1
        BY <3>1, <2>1, <1>a, <1>c, <1>d, SMTT(30) DEF new
      <3>2. CASE ~(u = t /\ k = Len(held[t]) + 1)
        <4>1. k \in 1 .. Len(held[u]) /\ held'[u][k] = held[u][k]
          BY <3>2, <1>d, LenProperties
        <4> PICK h \in Handle : h = held[u][k]
          BY <4>1, <1>e
        <4>3. /\ Odd(h.ver)
              /\ h.ver <= versions[h.blk][h.slot]
              /\ Matches(h) => entityInChunk[h.blk][h.slot] = <<u, k - 1>>
          BY <4>1 DEF IInv, HandleInv, Matches
        <4>4. held'[u][k] = h
          BY <4>1
        <4>5. /\ h.ver <= versions'[h.blk][h.slot]
              /\ versions'[h.blk][h.slot] = h.ver => entityInChunk'[h.blk][h.slot] = <<u, k - 1>>
          BY <4>3, <2>2 DEF Matches
        <4> QED BY <4>3, <4>4, <4>5
      <3> QED BY <3>1, <3>2, SMTT(30)
    <2>4. ASSUME NEW u \in Thread, pc'[u] \in Allocating
          PROVE  at'[u] = Len(held'[u])
      <3>1. CASE u = t
        BY <1>1, <1>a, <1>d, <3>1 DEF IInv, TypeOK
      <3>2. CASE u # t
        BY <1>1, <1>d, <2>4, <3>2 DEF IInv, TypeOK, HandleInv, Allocating
      <3> QED BY <3>1, <3>2
    <2>5. \A u \in Thread : \A k \in 1 .. Len(todo'[u]) : Odd(todo'[u][k].ver)
      BY <1>1 DEF IInv, HandleInv
    <2>6. \A u \in Thread : \A k \in 1 .. Len(held'[u]) :
            LET h == held'[u][k] IN
            /\ Odd(h.ver)
            /\ h.ver <= versions'[h.blk][h.slot]
            /\ versions'[h.blk][h.slot] = h.ver => entityInChunk'[h.blk][h.slot] = <<u, k - 1>>
      BY <2>3
    <2> QED BY <2>4, <2>5, <2>6 DEF HandleInv, Matches
  <1>9. HandlesUnique'
    <2> SUFFICES ASSUME NEW u \in Thread, NEW v \in Thread,
                        NEW i \in 1 .. Len(held'[u]), NEW j \in 1 .. Len(held'[v]),
                        held'[u][i] = held'[v][j]
                 PROVE  u = v /\ i = j
      BY DEF HandlesUnique
    <2>1. ASSUME NEW x \in Thread, NEW k \in 1 .. Len(held'[x])
          PROVE  \/ x = t /\ k = Len(held[t]) + 1 /\ held'[x][k] = new
                 \/ k \in 1 .. Len(held[x]) /\ held'[x][k] = held[x][k]
      BY <1>d, LenProperties
    <2>2. CASE held'[u][i] = new
      <3>1. u = t /\ i = Len(held[t]) + 1
        BY <2>1, <2>2, <1>e
      <3>2. v = t /\ j = Len(held[t]) + 1
        BY <2>1, <2>2, <1>e
      <3> QED BY <3>1, <3>2
    <2>3. CASE held'[u][i] # new
      <3>1. i \in 1 .. Len(held[u]) /\ held'[u][i] = held[u][i]
        BY <2>1, <2>3
      <3>2. j \in 1 .. Len(held[v]) /\ held'[v][j] = held[v][j]
        BY <2>1, <2>3
      <3>3. held[u][i] = held[v][j]
        BY <3>1, <3>2
      <3> QED BY <3>1, <3>2, <3>3 DEF IInv, HandlesUnique
    <2> QED BY <2>2, <2>3
  <1> QED BY <1>3, <1>4, <1>5, <1>6, <1>7, <1>8, <1>9 DEF IInv

LEMMA FinishedKeepsIInv ==
  ASSUME IInv, NEW t \in Thread, Finished(t)
  PROVE  IInv'
  <1>1. /\ pc[t] = "group" /\ pc' = [pc EXCEPT ![t] = "idle"]
        /\ UNCHANGED <<entityCount, allocated, versions, entityInChunk>>
        /\ UNCHANGED <<blk, seen, want, take, at, todo, held, calls>>
    BY DEF Finished, Goto, shared
  <1>2. TypeOK'
    BY <1>1 DEF IInv, TypeOK, Labels, Allocating
  <1>3. LocalInv'
    BY <1>1 DEF IInv, TypeOK, LocalInv
  <1>4. BlockLock'
    <2>1. \A u \in Thread, b \in Block : Owns(u, b)' <=> Owns(u, b)
      BY <1>1 DEF IInv, TypeOK, Owns
    <2> QED BY <1>1, <2>1 DEF IInv, BlockLock
  <1>5. CountInv'
    BY <1>1 DEF IInv, TypeOK, CountInv, CountMatchesBitmap
  <1>6. ParityInv' /\ HandlesUnique'
    BY <1>1 DEF IInv, ParityInv, HandlesUnique
  <1>7. HandleInv'
    BY <1>1 DEF IInv, TypeOK, HandleInv, Matches, Allocating
  <1> QED BY <1>2, <1>3, <1>4, <1>5, <1>6, <1>7 DEF IInv

LEMMA GroupKeepsIInv ==
  ASSUME IInv, NEW t \in Thread, Group(t)
  PROVE  IInv'
  <1> USE ConstantsAssumption
  <1> DEFINE b == todo[t][1].blk
  <1>1. /\ pc[t] = "group" /\ todo[t] # <<>>
        /\ UNCHANGED <<entityCount, allocated, versions, entityInChunk>>
        /\ UNCHANGED <<want, at, held, calls>>
        /\ blk' = [blk EXCEPT ![t] = b]
        /\ seen' = [seen EXCEPT ![t] = entityCount[b]]
    BY DEF Group, shared
  <1>2. PICK n \in 1 .. Len(todo[t]) :
          /\ IsRun(todo[t], n)
          /\ IF entityCount[b] = 0
               THEN /\ todo' = [todo EXCEPT ![t] = Drop(@, n)]
                    /\ UNCHANGED <<pc, take>>
               ELSE /\ take' = [take EXCEPT ![t] = n]
                    /\ pc' = [pc EXCEPT ![t] = "grab"]
                    /\ UNCHANGED todo
    BY DEF Group, IsRange, Goto
  <1>a. /\ todo[t] \in Seq(Handle) /\ Len(todo[t]) \in Nat
        /\ \A k \in 1 .. Len(todo[t]) : todo[t][k] \in Handle
    BY ElementOfSeq, LenProperties DEF IInv, TypeOK
  <1>b. /\ b \in Block /\ b \in 0 .. BlockCount
        /\ entityCount[b] \in {BlockBusy} \cup 0 .. EntitiesInBlock
    <2>1. todo[t][1] \in Handle
      BY <1>2, <1>a
    <2>2. b \in Block
      BY <2>1 DEF Handle
    <2> HIDE DEF b
    <2> QED BY <2>2 DEF IInv, TypeOK, Block
  <1>c. \A k \in 1 .. n : todo[t][k].blk = b
    BY <1>2 DEF IsRun
  <1> HIDE DEF b
  <1>3. CASE entityCount[b] = 0
    <2>1. todo' = [todo EXCEPT ![t] = Drop(@, n)] /\ UNCHANGED <<pc, take>>
      BY <1>2, <1>3
    <2>a. /\ Drop(todo[t], n) \in Seq(Handle)
          /\ Len(Drop(todo[t], n)) = Len(todo[t]) - n
          /\ \A k \in 1 .. Len(todo[t]) - n : Drop(todo[t], n)[k] = todo[t][n + k]
      <3>1. n \in 0 .. Len(todo[t])
        BY <1>a
      <3> QED BY <1>a, <3>1, DropProperties
    <2>2. TypeOK'
      BY <1>1, <1>b, <2>1, <2>a DEF IInv, TypeOK
    <2>3. LocalInv'
      BY <1>1, <2>1 DEF IInv, TypeOK, LocalInv
    <2>4. BlockLock'
      <3>1. \A u \in Thread, x \in Block : Owns(u, x)' <=> Owns(u, x)
        BY <1>1, <2>1 DEF IInv, TypeOK, Owns
      <3> QED BY <1>1, <3>1 DEF IInv, BlockLock
    <2>5. CountInv'
      BY <1>1, <2>1 DEF IInv, TypeOK, CountInv, CountMatchesBitmap
    <2>6. ParityInv' /\ HandlesUnique'
      BY <1>1 DEF IInv, ParityInv, HandlesUnique
    <2>7. HandleInv'
      <3>1. \A k \in 1 .. Len(Drop(todo[t], n)) : Odd(Drop(todo[t], n)[k].ver)
        <4> TAKE k \in 1 .. Len(Drop(todo[t], n))
        <4>1. n + k \in 1 .. Len(todo[t])
          BY <1>a, <2>a
        <4>2. Drop(todo[t], n)[k] = todo[t][n + k]
          BY <1>a, <2>a
        <4>3. Odd(todo[t][n + k].ver)
          BY <4>1 DEF IInv, HandleInv
        <4> QED BY <4>2, <4>3
      <3>2. /\ todo'[t] = Drop(todo[t], n)
            /\ \A u \in Thread : u # t => todo'[u] = todo[u]
        BY <2>1 DEF IInv, TypeOK
      <3>3. \A u \in Thread : \A k \in 1 .. Len(todo'[u]) : Odd(todo'[u][k].ver)
        <4>1. \A u \in Thread : \A k \in 1 .. Len(todo[u]) : Odd(todo[u][k].ver)
          BY DEF IInv, HandleInv
        <4> QED BY <3>1, <3>2, <4>1
      <3> QED BY <1>1, <2>1, <3>3 DEF IInv, HandleInv, Matches
    <2> QED BY <2>2, <2>3, <2>4, <2>5, <2>6, <2>7 DEF IInv
  <1>4. CASE entityCount[b] # 0
    <2>1. /\ take' = [take EXCEPT ![t] = n]
          /\ pc' = [pc EXCEPT ![t] = "grab"]
          /\ UNCHANGED todo
      BY <1>2, <1>4
    <2>2. TypeOK'
      <3>1. pc' \in [Thread -> Labels]
        BY <2>1 DEF IInv, TypeOK, Labels, Allocating
      <3>2. /\ blk' \in [Thread -> 0 .. BlockCount]
            /\ seen' \in [Thread -> {BlockBusy} \cup 0 .. EntitiesInBlock]
            /\ take' \in [Thread -> Nat]
        BY <1>1, <1>a, <1>b, <2>1 DEF IInv, TypeOK
      <3> QED BY <1>1, <2>1, <3>1, <3>2 DEF IInv, TypeOK
    <2>3. LocalInv'
      BY <1>1, <1>b, <1>c, <2>1 DEF IInv, TypeOK, LocalInv
    <2>4. BlockLock'
      <3>1. \A u \in Thread, x \in Block : Owns(u, x)' <=> Owns(u, x)
        BY <1>1, <2>1 DEF IInv, TypeOK, Owns
      <3> QED BY <1>1, <3>1 DEF IInv, BlockLock
    <2>5. CountInv'
      BY <1>1, <2>1, SMTT(30) DEF IInv, TypeOK, CountInv, CountMatchesBitmap
    <2>6. ParityInv' /\ HandlesUnique'
      BY <1>1 DEF IInv, ParityInv, HandlesUnique
    <2>7. HandleInv'
      BY <1>1, <2>1 DEF IInv, TypeOK, HandleInv, Matches, Allocating
    <2> QED BY <2>2, <2>3, <2>4, <2>5, <2>6, <2>7 DEF IInv
  <1> QED BY <1>3, <1>4

LEMMA GrabKeepsIInv ==
  ASSUME IInv, NEW t \in Thread, Grab(t)
  PROVE  IInv'
  <1> USE ConstantsAssumption
  <1>1. /\ pc[t] = "grab"
        /\ UNCHANGED <<allocated, versions, entityInChunk>>
        /\ UNCHANGED <<blk, want, take, at, todo, held, calls>>
    BY DEF Grab
  <1>a. /\ blk[t] \in Block
        /\ entityCount[blk[t]] \in {BlockBusy} \cup 0 .. EntitiesInBlock
    BY <1>1 DEF IInv, TypeOK, LocalInv
  <1>2. CASE seen[t] # BlockBusy /\ entityCount[blk[t]] = seen[t]
    <2> DEFINE label == IF seen[t] = 0 THEN "restore" ELSE "free"
    <2>1. /\ entityCount' = [entityCount EXCEPT ![blk[t]] = BlockBusy]
          /\ pc' = [pc EXCEPT ![t] = label]
          /\ UNCHANGED seen
      BY <1>2 DEF Grab, Goto, Swaps
    <2>a. label \in {"restore", "free"} /\ (label = "restore" => seen[t] = 0)
      OBVIOUS
    <2>b. seen[t] = Cardinality(allocated[blk[t]])
      BY <1>2, <1>a DEF IInv, CountInv, CountMatchesBitmap
    <2> HIDE DEF label
    <2>2. TypeOK'
      <3>1. entityCount' \in [Block -> {BlockBusy} \cup 0 .. EntitiesInBlock]
        BY <2>1 DEF IInv, TypeOK
      <3>2. pc' \in [Thread -> Labels]
        BY <2>1, <2>a DEF IInv, TypeOK, Labels, Allocating
      <3> QED BY <1>1, <2>1, <3>1, <3>2 DEF IInv, TypeOK
    <2>3. LocalInv'
      BY <1>1, <2>1, <2>a DEF IInv, TypeOK, LocalInv
    <2>4. BlockLock'
      <3>1. \A u \in Thread, b \in Block :
              Owns(u, b)' <=> Owns(u, b) \/ (u = t /\ b = blk[t])
        BY <1>1, <2>1, <2>a DEF IInv, TypeOK, Owns
      <3>2. \A u \in Thread : ~Owns(u, blk[t])
        BY <1>2, <1>a DEF IInv, BlockLock
      <3>3. \A b \in Block : entityCount'[b] = BlockBusy <=>
                             entityCount[b] = BlockBusy \/ b = blk[t]
        BY <2>1, <1>a DEF IInv, TypeOK
      <3> QED BY <3>1, <3>2, <3>3 DEF IInv, BlockLock
    <2>5. CountInv'
      <3>1. CountMatchesBitmap'
        BY <1>1, <2>1 DEF IInv, TypeOK, CountInv, CountMatchesBitmap
      <3> QED BY <1>1, <2>1, <2>a, <2>b, <3>1, SMTT(30) DEF IInv, TypeOK, CountInv
    <2>6. ParityInv' /\ HandlesUnique'
      BY <1>1 DEF IInv, ParityInv, HandlesUnique
    <2>7. HandleInv'
      BY <1>1, <2>1, <2>a DEF IInv, TypeOK, HandleInv, Matches, Allocating
    <2> QED BY <2>2, <2>3, <2>4, <2>5, <2>6, <2>7 DEF IInv
  <1>3. CASE ~(seen[t] # BlockBusy /\ entityCount[blk[t]] = seen[t])
    <2>1. /\ seen' = [seen EXCEPT ![t] = entityCount[blk[t]]]
          /\ UNCHANGED <<entityCount, pc>>
      BY <1>3 DEF Grab, Swaps
    <2>2. TypeOK'
      BY <1>1, <1>a, <2>1 DEF IInv, TypeOK
    <2>3. LocalInv'
      BY <1>1, <2>1 DEF IInv, TypeOK, LocalInv
    <2>4. BlockLock'
      <3>1. \A u \in Thread, b \in Block : Owns(u, b)' <=> Owns(u, b)
        BY <1>1, <2>1 DEF Owns
      <3> QED BY <2>1, <3>1 DEF IInv, BlockLock
    <2>5. CountInv'
      BY <1>1, <2>1 DEF IInv, TypeOK, CountInv, CountMatchesBitmap
    <2>6. ParityInv' /\ HandlesUnique'
      BY <1>1 DEF IInv, ParityInv, HandlesUnique
    <2>7. HandleInv'
      BY <1>1, <2>1 DEF IInv, TypeOK, HandleInv, Matches, Allocating
    <2> QED BY <2>2, <2>3, <2>4, <2>5, <2>6, <2>7 DEF IInv
  <1> QED BY <1>2, <1>3

LEMMA RestoreKeepsIInv ==
  ASSUME IInv, NEW t \in Thread, Restore(t)
  PROVE  IInv'
  <1> USE ConstantsAssumption
  <1>1. /\ pc[t] = "restore"
        /\ todo' = [todo EXCEPT ![t] = Drop(@, take[t])]
        /\ UNCHANGED <<allocated, versions, entityInChunk>>
        /\ UNCHANGED <<blk, seen, want, take, at, held, calls>>
    BY DEF Restore
  <1>2. /\ blk[t] \in Block
        /\ entityCount' = [entityCount EXCEPT ![blk[t]] = 0]
        /\ pc' = [pc EXCEPT ![t] = "group"]
    BY <1>1, StoreBackSucceeds DEF Restore
  <1>a. 0 = Cardinality(allocated[blk[t]])
    BY <1>1 DEF IInv, CountInv
  <1>b. /\ todo[t] \in Seq(Handle) /\ take[t] \in 1 .. Len(todo[t])
        /\ Len(todo[t]) \in Nat
    BY <1>1, LenProperties DEF IInv, TypeOK, LocalInv
  <1>c. /\ Drop(todo[t], take[t]) \in Seq(Handle)
        /\ Len(Drop(todo[t], take[t])) = Len(todo[t]) - take[t]
        /\ \A k \in 1 .. Len(todo[t]) - take[t] :
             Drop(todo[t], take[t])[k] = todo[t][take[t] + k]
    <2>1. take[t] \in 0 .. Len(todo[t])
      BY <1>b
    <2> QED BY <1>b, <2>1, DropProperties
  <1>3. TypeOK'
    <2>1. /\ entityCount' \in [Block -> {BlockBusy} \cup 0 .. EntitiesInBlock]
          /\ todo' \in [Thread -> Seq(Handle)]
      BY <1>1, <1>2, <1>c DEF IInv, TypeOK
    <2>2. pc' \in [Thread -> Labels]
      BY <1>2 DEF IInv, TypeOK, Labels, Allocating
    <2> QED BY <1>1, <2>1, <2>2 DEF IInv, TypeOK
  <1>4. LocalInv'
    BY <1>1, <1>2 DEF IInv, TypeOK, LocalInv
  <1>5. BlockLock'
    BY <1>1, <1>2, StoreBackKeepsBlockLock
  <1>6. CountInv'
    <2>1. CountMatchesBitmap'
      BY <1>1, <1>2, <1>a DEF IInv, TypeOK, CountInv, CountMatchesBitmap
    <2> QED BY <1>1, <1>2, <2>1 DEF IInv, TypeOK, CountInv
  <1>7. ParityInv' /\ HandlesUnique'
    BY <1>1, SMTT(30) DEF IInv, ParityInv, HandlesUnique
  <1>8. HandleInv'
    <2>1. \A k \in 1 .. Len(Drop(todo[t], take[t])) : Odd(Drop(todo[t], take[t])[k].ver)
      <3>1. take[t] \in 0 .. Len(todo[t]) /\ \A k \in 1 .. Len(todo[t]) : Odd(todo[t][k].ver)
        BY <1>b DEF IInv, HandleInv
      <3> QED BY <1>b, <3>1, DropKeepsOdd
    <2> QED BY <1>1, <1>2, <2>1 DEF IInv, TypeOK, HandleInv, Matches, Allocating
  <1> QED BY <1>3, <1>4, <1>5, <1>6, <1>7, <1>8 DEF IInv

\* An odd current version means the bit is set, so freeing a matching handle
\* removes exactly one slot; any other handle removes none.
LEMMA FreeKeepsIInv ==
  ASSUME IInv, NEW t \in Thread, Free(t)
  PROVE  IInv'
  <1> USE ConstantsAssumption
  <1>1. /\ pc[t] = "free"
        /\ pc' = [pc EXCEPT ![t] = IF take[t] = 1 THEN "release" ELSE "free"]
        /\ todo' = [todo EXCEPT ![t] = Drop(@, 1)]
        /\ take' = [take EXCEPT ![t] = @ - 1]
        /\ UNCHANGED <<entityCount, entityInChunk, blk, want, at, held, calls>>
    BY DEF Free, Goto
  <1>a. /\ blk[t] \in Block
        /\ todo[t] \in Seq(Handle) /\ Len(todo[t]) \in Nat
        /\ take[t] \in 1 .. Len(todo[t])
        /\ \A k \in 1 .. take[t] : todo[t][k].blk = blk[t]
    BY <1>1, LenProperties DEF IInv, TypeOK, LocalInv
  <1>b. /\ Drop(todo[t], 1) \in Seq(Handle)
        /\ Len(Drop(todo[t], 1)) = Len(todo[t]) - 1
        /\ \A k \in 1 .. Len(todo[t]) - 1 : Drop(todo[t], 1)[k] = todo[t][1 + k]
    <2>1. 1 \in 0 .. Len(todo[t])
      BY <1>a
    <2> QED BY <1>a, <2>1, DropProperties
  <1>f. \A k \in 1 .. Len(Drop(todo[t], 1)) : Odd(Drop(todo[t], 1)[k].ver)
    <2>1. 1 \in 0 .. Len(todo[t]) /\ \A k \in 1 .. Len(todo[t]) : Odd(todo[t][k].ver)
      BY <1>a DEF IInv, HandleInv
    <2> QED BY <1>a, <2>1, DropKeepsOdd
  <1>g. ASSUME take[t] # 1
        PROVE  /\ take'[t] \in 1 .. Len(todo'[t])
               /\ \A k \in 1 .. take'[t] : todo'[t][k].blk = blk[t]
    <2>1. take[t] - 1 \in 1 .. Len(Drop(todo[t], 1))
      BY <1>a, <1>b, <1>g
    <2>2. ASSUME NEW k \in 1 .. take[t] - 1
          PROVE  Drop(todo[t], 1)[k].blk = blk[t]
      <3>1. k \in 1 .. Len(todo[t]) - 1 /\ 1 + k \in 1 .. take[t]
        BY <1>a
      <3> QED BY <1>a, <1>b, <3>1
    <2>3. take'[t] = take[t] - 1 /\ todo'[t] = Drop(todo[t], 1)
      BY <1>1 DEF IInv, TypeOK
    <2> QED BY <2>1, <2>2, <2>3
  <1> PICK h \in Handle : h = todo[t][1]
    BY <1>a, ElementOfSeq
  <1>c. /\ h.blk = blk[t] /\ h.blk \in Block /\ h.slot \in InBlock
        /\ h.ver \in Nat /\ Odd(h.ver)
        /\ versions[h.blk][h.slot] \in Nat
    <2>1. h.blk = blk[t] /\ Odd(h.ver)
      BY <1>a DEF IInv, HandleInv
    <2>2. h.blk \in Block /\ h.slot \in InBlock /\ h.ver \in Nat
      BY DEF Handle
    <2> QED BY <2>1, <2>2 DEF IInv, TypeOK
  <1>d. CASE Matches(h)
    <2>1. /\ versions' = [versions EXCEPT ![h.blk][h.slot] = @ + 1]
          /\ allocated' = [allocated EXCEPT ![h.blk] = @ \ {h.slot}]
          /\ seen' = [seen EXCEPT ![t] = @ - 1]
      BY <1>d DEF Free, Frees, NextVersion
    <2>a. h.slot \in allocated[h.blk]
      BY <1>c, <1>d DEF IInv, ParityInv, Matches
    <2>b. /\ \A b \in Block : b # h.blk => /\ allocated'[b] = allocated[b]
                                           /\ versions'[b] = versions[b]
          /\ allocated'[h.blk] = allocated[h.blk] \ {h.slot}
          /\ versions'[h.blk][h.slot] = versions[h.blk][h.slot] + 1
          /\ \A x \in InBlock : x # h.slot => versions'[h.blk][x] = versions[h.blk][x]
      BY <2>1, <1>c DEF IInv, TypeOK
    <2>c. /\ seen[t] = Cardinality(allocated[h.blk])
          /\ Cardinality(allocated[h.blk]) \in 0 .. EntitiesInBlock
          /\ Cardinality(allocated'[h.blk]) \in 0 .. EntitiesInBlock
          /\ Cardinality(allocated'[h.blk]) = seen[t] - 1
      <3>1. /\ allocated[h.blk] \in SUBSET InBlock
            /\ allocated'[h.blk] \in SUBSET InBlock
        BY <1>c, <2>b DEF IInv, TypeOK
      <3>2. seen[t] = Cardinality(allocated[h.blk])
        BY <1>1, <1>c DEF IInv, CountInv
      <3>3. Cardinality(allocated'[h.blk]) = Cardinality(allocated[h.blk]) - 1
        BY <2>a, <2>b, <3>1, BitmapFinite, FS_RemoveElement, SMTT(30)
      <3> QED BY <3>1, <3>2, <3>3, BitmapFinite
    <2>2. TypeOK'
      <3>1. pc' \in [Thread -> Labels]
        BY <1>1 DEF IInv, TypeOK, Labels, Allocating
      <3>2. take' \in [Thread -> Nat] /\ todo' \in [Thread -> Seq(Handle)]
        BY <1>1, <1>a, <1>b DEF IInv, TypeOK
      <3>3. seen' \in [Thread -> {BlockBusy} \cup 0 .. EntitiesInBlock]
        BY <2>1, <2>c DEF IInv, TypeOK
      <3>4. allocated' \in [Block -> SUBSET InBlock]
        BY <2>1, <1>c DEF IInv, TypeOK
      <3>5. versions' \in [Block -> [InBlock -> Nat]]
        BY <2>1, <1>c DEF IInv, TypeOK
      <3> QED BY <1>1, <3>1, <3>2, <3>3, <3>4, <3>5 DEF IInv, TypeOK
    <2>3. LocalInv'
      <3>1. /\ pc'[t] \in {"free", "release"} /\ blk'[t] = blk[t]
            /\ pc'[t] = "free" => take[t] # 1
        BY <1>1 DEF IInv, TypeOK
      <3>2. \A u \in Thread : u # t => /\ pc'[u] = pc[u] /\ blk'[u] = blk[u]
                                       /\ take'[u] = take[u] /\ todo'[u] = todo[u]
                                       /\ want'[u] = want[u] /\ seen'[u] = seen[u]
        BY <1>1, <2>1 DEF IInv, TypeOK
      <3> QED BY <1>a, <1>g, <3>1, <3>2 DEF IInv, LocalInv
    <2>4. BlockLock'
      <3>1. \A u \in Thread, b \in Block : Owns(u, b)' <=> Owns(u, b)
        BY <1>1 DEF IInv, TypeOK, Owns
      <3> QED BY <1>1, <3>1 DEF IInv, BlockLock
    <2>5. CountInv'
      <3>1. CountMatchesBitmap'
        <4>1. entityCount[h.blk] = BlockBusy
          BY <1>1, <1>c DEF IInv, BlockLock, Owns
        <4> QED BY <1>1, <2>b, <4>1 DEF IInv, CountInv, CountMatchesBitmap
      <3>2. seen'[t] = Cardinality(allocated'[blk'[t]])
        BY <1>1, <1>c, <2>1, <2>c DEF IInv, TypeOK
      <3>3. pc'[t] \in {"free", "release"}
        BY <1>1 DEF IInv, TypeOK
      <3>4. \A u \in Thread : u # t =>
              pc'[u] = pc[u] /\ blk'[u] = blk[u] /\ seen'[u] = seen[u] /\ take'[u] = take[u]
        BY <1>1, <2>1 DEF IInv, TypeOK
      <3>5. ASSUME NEW u \in Thread, u # t,
                   pc[u] \in {"fill", "publish", "restore", "free", "release"}
            PROVE  allocated'[blk[u]] = allocated[blk[u]]
        <4>1. blk[u] \in Block /\ Owns(u, blk[u]) /\ Owns(t, h.blk)
          BY <1>1, <1>c, <3>5 DEF IInv, LocalInv, Owns
        <4>2. blk[u] # h.blk
          BY <1>c, <3>5, <4>1 DEF IInv, BlockLock
        <4> QED BY <2>b, <4>1, <4>2
      <3> QED BY <3>1, <3>2, <3>3, <3>4, <3>5 DEF IInv, CountInv
    <2>6. ParityInv'
      <3>1. Odd(versions[h.blk][h.slot] + 1) <=> ~Odd(versions[h.blk][h.slot])
        BY <1>c, OddFlips
      <3>2. ~Odd(versions'[h.blk][h.slot]) /\ h.slot \notin allocated'[h.blk]
        BY <1>c, <2>a, <2>b, <3>1 DEF IInv, ParityInv
      <3>3. \A b \in Block, x \in InBlock : ~(b = h.blk /\ x = h.slot) =>
              /\ versions'[b][x] = versions[b][x]
              /\ x \in allocated'[b] <=> x \in allocated[b]
        BY <1>c, <2>b
      <3> QED BY <1>c, <3>2, <3>3 DEF IInv, ParityInv
    <2>7. HandleInv'
      <3>1. ASSUME NEW g \in Handle, g.ver <= versions[g.blk][g.slot]
            PROVE  /\ g.ver <= versions'[g.blk][g.slot]
                   /\ versions'[g.blk][g.slot] = g.ver => versions[g.blk][g.slot] = g.ver
        <4>1. g.blk \in Block /\ g.slot \in InBlock /\ g.ver \in Nat
          BY DEF Handle
        <4>2. CASE g.blk = h.blk /\ g.slot = h.slot
          BY <1>c, <2>b, <3>1, <4>1, <4>2
        <4>3. CASE ~(g.blk = h.blk /\ g.slot = h.slot)
          BY <2>b, <3>1, <4>1, <4>3, SMTT(30)
        <4> QED BY <4>2, <4>3
      <3>2. ASSUME NEW u \in Thread, NEW k \in 1 .. Len(held[u])
            PROVE  LET g == held[u][k] IN
                   /\ Odd(g.ver)
                   /\ g.ver <= versions'[g.blk][g.slot]
                   /\ versions'[g.blk][g.slot] = g.ver =>
                        entityInChunk[g.blk][g.slot] = <<u, k - 1>>
        <4> PICK g \in Handle : g = held[u][k]
          BY ElementOfSeq DEF IInv, TypeOK
        <4>1. /\ Odd(g.ver)
              /\ g.ver <= versions[g.blk][g.slot]
              /\ versions[g.blk][g.slot] = g.ver =>
                   entityInChunk[g.blk][g.slot] = <<u, k - 1>>
          BY DEF IInv, HandleInv, Matches
        <4> QED BY <4>1, <3>1
      <3>3. \A u \in Thread : \A k \in 1 .. Len(todo'[u]) : Odd(todo'[u][k].ver)
        BY <1>1, <1>f DEF IInv, TypeOK, HandleInv
      <3>4. \A u \in Thread : pc'[u] \in Allocating => at'[u] = Len(held'[u])
        BY <1>1 DEF IInv, TypeOK, HandleInv, Allocating
      <3> QED BY <1>1, <3>2, <3>3, <3>4 DEF HandleInv, Matches
    <2>8. HandlesUnique'
      BY <1>1 DEF IInv, HandlesUnique
    <2> QED BY <2>2, <2>3, <2>4, <2>5, <2>6, <2>7, <2>8 DEF IInv
  <1>e. CASE ~Matches(h)
    <2>1. UNCHANGED <<versions, allocated, seen>>
      BY <1>e DEF Free, Frees
    <2>2. TypeOK'
      <3>1. pc' \in [Thread -> Labels]
        BY <1>1 DEF IInv, TypeOK, Labels, Allocating
      <3>2. take' \in [Thread -> Nat] /\ todo' \in [Thread -> Seq(Handle)]
        BY <1>1, <1>a, <1>b DEF IInv, TypeOK
      <3> QED BY <1>1, <2>1, <3>1, <3>2 DEF IInv, TypeOK
    <2>3. LocalInv'
      <3>1. /\ pc'[t] \in {"free", "release"} /\ blk'[t] = blk[t]
            /\ pc'[t] = "free" => take[t] # 1
        BY <1>1 DEF IInv, TypeOK
      <3>2. \A u \in Thread : u # t => /\ pc'[u] = pc[u] /\ blk'[u] = blk[u]
                                       /\ take'[u] = take[u] /\ todo'[u] = todo[u]
                                       /\ want'[u] = want[u] /\ seen'[u] = seen[u]
        BY <1>1, <2>1 DEF IInv, TypeOK
      <3> QED BY <1>a, <1>g, <3>1, <3>2 DEF IInv, LocalInv
    <2>4. BlockLock'
      <3>1. \A u \in Thread, b \in Block : Owns(u, b)' <=> Owns(u, b)
        BY <1>1 DEF IInv, TypeOK, Owns
      <3> QED BY <1>1, <3>1 DEF IInv, BlockLock
    <2>5. CountInv'
      <3>1. \A u \in Thread : u # t => pc'[u] = pc[u] /\ take'[u] = take[u]
        BY <1>1 DEF IInv, TypeOK
      <3>2. pc'[t] \in {"free", "release"}
        BY <1>1 DEF IInv, TypeOK
      <3> QED BY <1>1, <2>1, <3>1, <3>2 DEF IInv, CountInv, CountMatchesBitmap
    <2>6. ParityInv' /\ HandlesUnique'
      BY <1>1, <2>1, SMTT(30) DEF IInv, ParityInv, HandlesUnique
    <2>7. HandleInv'
      <3>2. \A u \in Thread : \A k \in 1 .. Len(todo'[u]) : Odd(todo'[u][k].ver)
        BY <1>1, <1>f DEF IInv, TypeOK, HandleInv
      <3>3. \A u \in Thread : pc'[u] \in Allocating => at'[u] = Len(held'[u])
        BY <1>1 DEF IInv, TypeOK, HandleInv, Allocating
      <3> QED BY <1>1, <2>1, <3>2, <3>3 DEF IInv, HandleInv, Matches
    <2> QED BY <2>2, <2>3, <2>4, <2>5, <2>6, <2>7 DEF IInv
  <1> QED BY <1>d, <1>e

LEMMA ReleaseKeepsIInv ==
  ASSUME IInv, NEW t \in Thread, Release(t)
  PROVE  IInv'
  <1> USE ConstantsAssumption
  <1>1. /\ pc[t] = "release"
        /\ UNCHANGED <<allocated, versions, entityInChunk>>
        /\ UNCHANGED <<blk, seen, want, take, at, todo, held, calls>>
    BY DEF Release
  <1>2. /\ blk[t] \in Block
        /\ entityCount' = [entityCount EXCEPT ![blk[t]] = seen[t]]
        /\ pc' = [pc EXCEPT ![t] = "group"]
    BY <1>1, StoreBackSucceeds DEF Release
  <1>a. /\ seen[t] = Cardinality(allocated[blk[t]])
        /\ allocated[blk[t]] \in SUBSET InBlock
    BY <1>1, <1>2 DEF IInv, TypeOK, CountInv
  <1>b. seen[t] \in 0 .. EntitiesInBlock
    BY <1>a, BitmapFinite
  <1>3. TypeOK'
    <2>1. entityCount' \in [Block -> {BlockBusy} \cup 0 .. EntitiesInBlock]
      BY <1>2, <1>b DEF IInv, TypeOK
    <2>2. pc' \in [Thread -> Labels]
      BY <1>2 DEF IInv, TypeOK, Labels, Allocating
    <2> QED BY <1>1, <2>1, <2>2 DEF IInv, TypeOK
  <1>4. LocalInv'
    BY <1>1, <1>2 DEF IInv, TypeOK, LocalInv
  <1>5. BlockLock'
    <2>1. seen[t] \in Nat
      BY <1>b
    <2> QED BY <1>1, <1>2, <2>1, StoreBackKeepsBlockLock
  <1>6. CountInv'
    <2>1. CountMatchesBitmap'
      BY <1>1, <1>2, <1>a DEF IInv, TypeOK, CountInv, CountMatchesBitmap
    <2> QED BY <1>1, <1>2, <2>1 DEF IInv, TypeOK, CountInv
  <1>7. ParityInv' /\ HandlesUnique'
    BY <1>1, SMTT(30) DEF IInv, ParityInv, HandlesUnique
  <1>8. HandleInv'
    BY <1>1, <1>2 DEF IInv, TypeOK, HandleInv, Matches, Allocating
  <1> QED BY <1>3, <1>4, <1>5, <1>6, <1>7, <1>8 DEF IInv

--------------------------------------------------------------------------------
LEMMA NextKeepsIInv == IInv /\ [Next]_vars => IInv'
  <1> SUFFICES ASSUME IInv, [Next]_vars PROVE IInv'
    OBVIOUS
  <1>1. ASSUME NEW t \in Thread, Call(t) PROVE IInv'
    BY <1>1, AllocateKeepsIInv, DeallocateKeepsIInv DEF Call
  <1>2. ASSUME NEW t \in Thread, AllocateStep(t) PROVE IInv'
    BY <1>2, GiveUpKeepsIInv, ScanKeepsIInv, ClaimKeepsIInv, FillKeepsIInv,
       PublishKeepsIInv DEF AllocateStep
  <1>3. ASSUME NEW t \in Thread, DeallocateStep(t) PROVE IInv'
    BY <1>3, FinishedKeepsIInv, GroupKeepsIInv, GrabKeepsIInv, RestoreKeepsIInv,
       FreeKeepsIInv, ReleaseKeepsIInv DEF DeallocateStep
  <1>4. CASE UNCHANGED vars
    <2> USE <1>4 DEF vars, IInv
    <2>1. TypeOK' /\ LocalInv' /\ BlockLock'
      BY DEF TypeOK, LocalInv, BlockLock, Owns
    <2>2. CountInv' /\ ParityInv' /\ HandlesUnique'
      BY DEF CountInv, CountMatchesBitmap, ParityInv, HandlesUnique
    <2>3. HandleInv'
      BY DEF HandleInv, Matches, Allocating
    <2> QED BY <2>1, <2>2, <2>3
  <1> QED BY <1>1, <1>2, <1>3, <1>4 DEF Next

\* IInv is an invariant of every behaviour of the entity store.
THEOREM Invariance == Spec => []IInv
  <1> QED BY InitIInv, NextKeepsIInv, PTL DEF Spec

\* Every variable keeps its type, for any number of threads, blocks and slots.
THEOREM TypeCorrect == Spec => []TypeOK
  <1>1. IInv => TypeOK
    BY DEF IInv
  <1> QED BY <1>1, Invariance, PTL

\* The busy mark is a correct lock: never two threads inside one block, never a
\* busy mark without an owner.
THEOREM BlockMutualExclusion == Spec => []BlockLock
  <1>1. IInv => BlockLock
    BY DEF IInv
  <1> QED BY <1>1, Invariance, PTL

\* EntityStore::integrityCheck succeeds on every block at rest.
THEOREM IntegrityHolds == Spec => []CountMatchesBitmap
  <1>1. IInv => CountMatchesBitmap
    BY DEF IInv, CountInv
  <1> QED BY <1>1, Invariance, PTL

\* The throws that follow a failed store-back are dead code, and a thread that
\* still needs slots in its block finds one.
THEOREM InternalErrorsUnreachable == Spec => []NoInternalError
  <1>1. IInv => NoInternalError
    <2> SUFFICES ASSUME IInv, NEW t \in Thread
                 PROVE  /\ pc[t] # "internalError"
                        /\ pc[t] = "fill" => InBlock \ allocated[blk[t]] # {}
      BY DEF NoInternalError
    <2>1. pc[t] # "internalError"
      BY DEF IInv, LocalInv
    <2>2. ASSUME pc[t] = "fill", InBlock \ allocated[blk[t]] = {}
          PROVE  FALSE
      <3>1. blk[t] \in Block /\ take[t] \in 1 .. want[t] /\ want[t] \in Nat
        BY <2>2 DEF IInv, TypeOK, LocalInv
      <3>4. allocated[blk[t]] \in SUBSET InBlock
        BY <3>1 DEF IInv, TypeOK
      <3>5. seen[t] \in {BlockBusy} \cup 0 .. EntitiesInBlock
        BY DEF IInv, TypeOK
      <3>6. seen[t] = Cardinality(allocated[blk[t]]) + take[t]
        BY <2>2 DEF IInv, CountInv
      <3>2. allocated[blk[t]] = InBlock
        BY <2>2, <3>4
      <3>3. Cardinality(InBlock) = EntitiesInBlock
        BY ConstantsAssumption, FS_Interval DEF InBlock
      <3> QED BY <3>1, <3>2, <3>3, <3>5, <3>6, ConstantsAssumption DEF BlockBusy
    <2> QED BY <2>1, <2>2
  <1> QED BY <1>1, Invariance, PTL

\* No handle is given out twice.
THEOREM NoHandleTwice == Spec => []HandlesUnique
  <1>1. IInv => HandlesUnique
    BY DEF IInv
  <1> QED BY <1>1, Invariance, PTL

\* A handle that matches its slot's version names an allocated slot, which still
\* records the place the entity was created at.
THEOREM LiveHandlesResolve == Spec => []LiveHandleInPlace
  <1>1. IInv => LiveHandleInPlace
    <2> SUFFICES ASSUME IInv, NEW t \in Thread, NEW k \in 1 .. Len(held[t]),
                        NEW h, h = held[t][k], Matches(h)
                 PROVE  Exists(h) /\ entityInChunk[h.blk][h.slot] = <<t, k - 1>>
      BY DEF LiveHandleInPlace
    <2>4. held[t] \in Seq(Handle)
      BY DEF IInv, TypeOK
    <2>5. h \in Handle
      BY <2>4, ElementOfSeq
    <2>1. h.blk \in Block /\ h.slot \in InBlock
      BY <2>5 DEF Handle
    <2>2. Odd(h.ver) /\ entityInChunk[h.blk][h.slot] = <<t, k - 1>>
      BY DEF IInv, HandleInv
    <2>3. Exists(h)
      BY <2>1, <2>2 DEF Exists, Matches, IInv, ParityInv
    <2> QED BY <2>2, <2>3
  <1> QED BY <1>1, Invariance, PTL

\* No step takes a slot's version back.
LEMMA VersionsGrow ==
  ASSUME TypeOK, LocalInv, [Next]_vars, NEW b \in Block, NEW s \in InBlock
  PROVE  versions[b][s] <= versions'[b][s]
  <1> USE DEF TypeOK
  <1>1. ASSUME UNCHANGED versions PROVE versions[b][s] <= versions'[b][s]
    BY <1>1
  <1>2. ASSUME NEW t \in Thread, Fill(t) PROVE versions[b][s] <= versions'[b][s]
    <2>1. blk[t] \in Block
      BY <1>2 DEF Fill, LocalInv
    <2>2. PICK x \in InBlock : versions' = [versions EXCEPT ![blk[t]][x] = @ + 1]
      BY <1>2 DEF Fill, NextVersion
    <2> QED BY <2>1, <2>2
  <1>3. ASSUME NEW t \in Thread, Free(t) PROVE versions[b][s] <= versions'[b][s]
    <2>1. CASE Matches(todo[t][1])
      <3>1. versions' = [versions EXCEPT ![todo[t][1].blk][todo[t][1].slot] = @ + 1]
        BY <1>3, <2>1 DEF Free, Frees, NextVersion
      <3>2. 1 \in 1 .. Len(todo[t]) /\ todo[t] \in Seq(Handle)
        BY <1>3 DEF Free, LocalInv
      <3>3. todo[t][1] \in Handle
        BY <3>2, ElementOfSeq
      <3>4. todo[t][1].blk \in Block /\ todo[t][1].slot \in InBlock
        BY <3>3 DEF Handle
      <3> QED BY <3>1, <3>4
    <2>2. CASE ~Matches(todo[t][1])
      BY <1>1, <1>3, <2>2 DEF Free, Frees
    <2> QED BY <2>1, <2>2
  <1>4. CASE UNCHANGED vars
    BY <1>1, <1>4 DEF vars
  <1>5. CASE Next
    <2>1. PICK t \in Thread : Call(t) \/ AllocateStep(t) \/ DeallocateStep(t)
      BY <1>5 DEF Next
    <2>2. CASE Call(t)
      BY <1>1, <2>2 DEF Call, Allocate, Deallocate, shared
    <2>3. CASE AllocateStep(t)
      BY <1>1, <1>2, <2>3 DEF AllocateStep, GiveUp, Scan, Claim, Publish, shared
    <2>4. CASE DeallocateStep(t)
      BY <1>1, <1>3, <2>4 DEF DeallocateStep, Finished, Group, Grab, Restore,
                              Release, shared
    <2> QED BY <2>1, <2>2, <2>3, <2>4
  <1> QED BY <1>4, <1>5

\* A handle that has gone stale never names an entity again: it was never ahead
\* of its slot, so once it differs the slot has moved past it for good.
THEOREM StaleHandlesStayStale == Spec => StaleForever
  <1> DEFINE Stay == \A h \in Issued : ~Matches(h) => ~Matches(h)'
  <1>1. IInv /\ [Next]_vars => [Stay]_vars
    <2> SUFFICES ASSUME IInv, [Next]_vars, NEW h \in Issued, ~Matches(h)
                 PROVE  ~Matches(h)'
      OBVIOUS
    <2>1. PICK t \in Thread : \E k \in 1 .. Len(held[t]) : h = held[t][k]
      BY DEF Issued
    <2>2. PICK k \in 1 .. Len(held[t]) : h = held[t][k]
      BY <2>1
    <2>3. held[t] \in Seq(Handle) /\ TypeOK /\ LocalInv
      BY DEF IInv, TypeOK
    <2>4. h \in Handle
      BY <2>2, <2>3, ElementOfSeq
    <2>5. h.blk \in Block /\ h.slot \in InBlock /\ h.ver \in Nat
      BY <2>4 DEF Handle
    <2>6. h.ver <= versions[h.blk][h.slot]
      BY <2>2 DEF IInv, HandleInv
    <2>7. versions[h.blk][h.slot] <= versions'[h.blk][h.slot]
      BY <2>3, <2>5, VersionsGrow
    <2>8. versions[h.blk][h.slot] \in Nat /\ versions'[h.blk][h.slot] \in Nat
      <3>1. TypeOK'
        BY NextKeepsIInv DEF IInv
      <3> QED BY <2>3, <2>5, <3>1 DEF TypeOK
    <2>9. versions[h.blk][h.slot] # h.ver
      BY DEF Matches
    <2>10. versions'[h.blk][h.slot] # h.ver
      BY <2>5, <2>6, <2>7, <2>8, <2>9
    <2> QED BY <2>10 DEF Matches
  <1> QED BY <1>1, Invariance, PTL DEF Spec, StaleForever
================================================================================
