--------------------------- MODULE ChunkStoreProofs ---------------------------
(***************************************************************************)
(* Proofs about the table of chunks, for any size of it and any addresses, *)
(* when one thread uses it: the engine's, the only one that changes where  *)
(* entities are.                                                           *)
(***************************************************************************)
EXTENDS ChunkStore, TLAPS

StoreType ==
  /\ bitmasks \in [0 .. ChunkBunchCount - 1 -> SUBSET Bits]
  /\ chunks \in [Index -> Address \cup {Null}]
  /\ pc \in [Thread -> {"idle", "load", "cas", "store", "fetch", "freeing"}]
  /\ b_index \in [Thread -> Nat]
  /\ s_index \in [Thread -> Nat]
  /\ bitmask \in [Thread -> SUBSET Bits]
  /\ held \in [Thread -> SUBSET [index : Index, chunk : Address]]

\* The indices whose bit is set, those with a pointer, those that a caller owns.
Used == {i \in Index : (i % BitmaskSize) \in bitmasks[i \div BitmaskSize]}
Filled == {i \in Index : chunks[i] # Null}
Owned(t) == {c.index : c \in held[t]}

\* The search has passed over full words only, and has nothing left from another word.
SearchInv(t) ==
  /\ pc[t] = "load" => /\ s_index[t] = 0
                       /\ \A b \in 0 .. b_index[t] - 1 : bitmasks[b] = Bits
                       /\ b_index[t] <= ChunkBunchCount
  /\ pc[t] = "cas" => /\ b_index[t] < ChunkBunchCount
                      /\ bitmask[t] = bitmasks[b_index[t]]
                      /\ s_index[t] \in Bits \ bitmask[t]

\* Bits and pointers agree but for the index in between.
BitsInv(t) ==
  /\ pc[t] = "store" => Used = Filled \cup {NewIndex(t)} /\ NewIndex(t) \in Index \ Filled
  /\ pc[t] = "freeing" => Filled = Used \cup {s_index[t]} /\ s_index[t] \in Index \ Used
  /\ pc[t] \notin {"store", "freeing"} => Used = Filled

\* The pointers in the table are all there is, each of them once.
HeapInv ==
  /\ heap = {chunks[i] : i \in Filled}
  /\ \A i, k \in Filled : chunks[i] = chunks[k] => i = k

\* The caller owns each chunk of the table but the one it is about to get, or gives up.
OwnerInv(t) ==
  /\ \A c \in held[t] : c.chunk = chunks[c.index]
  /\ pc[t] = "fetch" => Filled = Owned(t) \cup {NewIndex(t)} /\ NewIndex(t) \in Index \ Owned(t)
  /\ pc[t] = "freeing" => Filled = Owned(t) \cup {s_index[t]} /\ s_index[t] \notin Owned(t)
  /\ pc[t] \notin {"fetch", "freeing"} => Owned(t) = Filled

StoreInv(t) == StoreType /\ SearchInv(t) /\ BitsInv(t) /\ HeapInv /\ OwnerInv(t)
--------------------------------------------------------------------------------
(* Words and bits of an index *)

\* An index has a word and a bit.
LEMMA WordOfIndex ==
  ASSUME NEW i \in Index
  PROVE  /\ i \div BitmaskSize \in 0 .. ChunkBunchCount - 1
         /\ i % BitmaskSize \in Bits
         /\ i = (i \div BitmaskSize) * BitmaskSize + (i % BitmaskSize)
  <1> DEFINE n == BitmaskSize
  <1>1. n \in Nat \ {0} /\ ChunkBunchCount \in Nat
    BY SizesAssumption
  <1>2. i \in Nat /\ i \in 0 .. ChunkBunchCount * n - 1
    BY <1>1 DEF Index, MaximumChunkCount
  <1> HIDE DEF n
  <1>3. i \div n \in Nat /\ i \div n < ChunkBunchCount
    BY <1>1, <1>2
  <1>4. i % n \in 0 .. n - 1 /\ i = (i \div n) * n + (i % n)
    BY <1>1, <1>2
  <1> QED BY <1>1, <1>3, <1>4 DEF n, Bits

\* A word and a bit make one index.
LEMMA IndexOfWord ==
  ASSUME NEW b \in 0 .. ChunkBunchCount - 1, NEW k \in Bits
  PROVE  /\ b * BitmaskSize + k \in Index
         /\ \A i \in Index : i \div BitmaskSize = b /\ i % BitmaskSize = k
                             <=> i = b * BitmaskSize + k
  <1> DEFINE n == BitmaskSize
  <1>1. n \in Nat \ {0} /\ ChunkBunchCount \in Nat /\ b \in Nat /\ b < ChunkBunchCount
        /\ k \in 0 .. n - 1
    BY SizesAssumption DEF Bits
  <1> HIDE DEF n
  <1>2. b * n + k \in Nat /\ b * n + k < ChunkBunchCount * n
    BY <1>1
  <1>3. (b * n + k) \div n = b /\ (b * n + k) % n = k
    BY <1>1
  <1>4. \A i \in Index : i = (i \div n) * n + (i % n)
    BY WordOfIndex DEF n
  <1>5. b * n + k \in Index
    <2>1. ChunkBunchCount * n \in Nat
      BY <1>1
    <2> QED BY <1>2, <2>1 DEF Index, MaximumChunkCount, n
  <1> QED BY <1>3, <1>4, <1>5 DEF n

--------------------------------------------------------------------------------
LEMMA InitStoreInv ==
  ASSUME NEW t, Thread = {t}, Init
  PROVE  StoreInv(t)
  <1>1. StoreType
    BY DEF Init, StoreType
  <1>2. Used = {} /\ Filled = {} /\ Owned(t) = {}
    BY WordOfIndex DEF Init, Used, Filled, Owned
  <1> QED BY <1>1, <1>2 DEF Init, StoreInv, SearchInv, BitsInv, HeapInv, OwnerInv

\* Steps of the search change nothing of the table.
LEMMA SearchKeeps ==
  ASSUME NEW t, Thread = {t}, StoreInv(t), Allocate(t) \/ Load(t)
  PROVE  StoreInv(t)'
  <1> USE DEF StoreInv
  <1>1. UNCHANGED <<bitmasks, chunks, heap, held>>
    BY DEF Allocate, Load
  <1>2. Used' = Used /\ Filled' = Filled /\ Owned(t)' = Owned(t)
    BY <1>1 DEF Used, Filled, Owned
  <1>3. HeapInv'
    BY <1>1, <1>2 DEF HeapInv
  <1>4. StoreType' /\ SearchInv(t)' /\ pc[t] \in {"idle", "load"} /\ pc'[t] \in {"load", "cas", "idle"}
    <2>1. CASE Allocate(t)
      <3>1. /\ pc[t] = "idle" /\ pc' = [pc EXCEPT ![t] = "load"] /\ bitmask' = bitmask
            /\ b_index' = [b_index EXCEPT ![t] = 0] /\ s_index' = [s_index EXCEPT ![t] = 0]
        BY <2>1 DEF Allocate, Goto
      <3>2. pc'[t] = "load" /\ b_index'[t] = 0 /\ s_index'[t] = 0
        BY <3>1 DEF StoreType
      <3>3. StoreType'
        BY <1>1, <3>1 DEF StoreType
      <3>4. SearchInv(t)'
        BY <3>2, SizesAssumption DEF SearchInv
      <3> QED BY <3>1, <3>2, <3>3, <3>4
    <2>2. CASE Load(t)
      <3>1. pc[t] = "load" /\ s_index[t] = 0 /\ b_index[t] \in Nat /\ b_index[t] <= ChunkBunchCount
            /\ \A b \in 0 .. b_index[t] - 1 : bitmasks[b] = Bits
        BY <2>2 DEF Load, SearchInv, StoreType
      <3>2. CASE b_index[t] = ChunkBunchCount
        <4>1. pc' = [pc EXCEPT ![t] = "idle"] /\ UNCHANGED <<b_index, s_index, bitmask>>
          BY <2>2, <3>2 DEF Load, Goto
        <4> QED BY <1>1, <3>1, <4>1 DEF StoreType, SearchInv
      <3>3. CASE b_index[t] # ChunkBunchCount /\ bitmasks[b_index[t]] = Bits
        <4>1. b_index' = [b_index EXCEPT ![t] = @ + 1] /\ UNCHANGED <<pc, s_index, bitmask>>
          BY <2>2, <3>3 DEF Load
        <4>2. b_index'[t] = b_index[t] + 1 /\ b_index' \in [Thread -> Nat]
          BY <4>1 DEF StoreType
        <4>3. \A b \in 0 .. b_index'[t] - 1 : b \in 0 .. b_index[t] - 1 \/ b = b_index[t]
          BY <3>1, <4>2
        <4>4. b_index'[t] <= ChunkBunchCount
          BY <3>1, <3>3, <4>2, SizesAssumption
        <4>5. StoreType'
          BY <1>1, <4>1, <4>2 DEF StoreType
        <4> QED BY <1>1, <3>1, <3>3, <4>1, <4>3, <4>4, <4>5 DEF SearchInv
      <3>4. CASE b_index[t] # ChunkBunchCount /\ bitmasks[b_index[t]] # Bits
        <4> DEFINE mask == bitmasks[b_index[t]]
        <4>1. b_index[t] \in 0 .. ChunkBunchCount - 1
          BY <3>1, <3>4, SizesAssumption
        <4>2. mask \in SUBSET Bits /\ mask # Bits
          BY <3>4, <4>1 DEF StoreType
        <4>3. bitmask' = [bitmask EXCEPT ![t] = mask] /\ bitmask'[t] = mask
          BY <2>2, <3>4 DEF Load, StoreType
        <4>4. PICK k \in FirstClear(mask, 0) : s_index' = [s_index EXCEPT ![t] = k]
          BY <2>2, <3>1, <3>4, <4>3 DEF Load
        <4>5. pc' = [pc EXCEPT ![t] = "cas"] /\ b_index' = b_index
          BY <2>2, <3>4 DEF Load, Goto
        <4> HIDE DEF mask
        <4>6. k \in Bits \ mask
          <5>1. /\ k \in 0 .. BitmaskSize /\ k \notin mask
                /\ \A j \in 0 .. k - 1 : j \in mask
            BY <4>4 DEF FirstClear
          <5>2. k # BitmaskSize
            BY <4>2, <5>1 DEF Bits
          <5> QED BY <5>1, <5>2, SizesAssumption DEF Bits
        <4>7. k \in Nat
          BY <4>6, SizesAssumption DEF Bits
        <4>8. StoreType'
          BY <1>1, <4>2, <4>3, <4>4, <4>5, <4>7 DEF StoreType
        <4>9. pc'[t] = "cas" /\ s_index'[t] = k
          BY <4>4, <4>5 DEF StoreType
        <4>10. SearchInv(t)'
          <5>1. b_index'[t] < ChunkBunchCount
            BY <4>1, <4>5, SizesAssumption
          <5>2. bitmask'[t] = bitmasks'[b_index'[t]]
            BY <1>1, <4>3, <4>5 DEF mask
          <5>3. s_index'[t] \in Bits \ bitmask'[t]
            BY <4>3, <4>6, <4>9
          <5> QED BY <4>9, <5>1, <5>2, <5>3 DEF SearchInv
        <4> QED BY <3>1, <4>8, <4>9, <4>10
      <3> QED BY <3>2, <3>3, <3>4
    <2> QED BY <2>1, <2>2
  <1>5. BitsInv(t)'
    BY <1>2, <1>4 DEF BitsInv
  <1>6. OwnerInv(t)'
    BY <1>1, <1>2, <1>4 DEF OwnerInv
  <1> QED BY <1>3, <1>4, <1>5, <1>6

\* The bit of the new index is set: no other thread has changed the word meanwhile.
LEMMA ExchangeKeeps ==
  ASSUME NEW t, Thread = {t}, StoreInv(t), Exchange(t)
  PROVE  StoreInv(t)'
  <1> USE DEF StoreInv
  <1> DEFINE b == b_index[t]
             k == s_index[t]
  <1>1. /\ pc[t] = "cas" /\ b < ChunkBunchCount /\ b \in Nat /\ bitmask[t] = bitmasks[b]
        /\ k \in Bits \ bitmasks[b]
        /\ UNCHANGED <<chunks, heap, b_index, s_index, bitmask, held>>
    BY DEF Exchange, SearchInv, StoreType
  <1>2. b \in 0 .. ChunkBunchCount - 1
    BY <1>1, SizesAssumption
  <1>3. Shifted(k) = {{k}}
    BY <1>1, SizesAssumption DEF Shifted, Bits
  <1>4. bitmasks' = [bitmasks EXCEPT ![b] = @ \cup {k}] /\ pc' = [pc EXCEPT ![t] = "store"]
    BY <1>1, <1>3 DEF Exchange, Goto
  <1>5. pc'[t] = "store"
    BY <1>4 DEF StoreType
  <1>6. StoreType'
    <2>1. bitmasks[b] \cup {k} \in SUBSET Bits
      BY <1>1, <1>2 DEF StoreType
    <2> QED BY <1>1, <1>4, <2>1 DEF StoreType
  <1>7. NewIndex(t) \in Index /\ NewIndex(t)' = NewIndex(t)
        /\ \A i \in Index : i \div BitmaskSize = b /\ i % BitmaskSize = k <=> i = NewIndex(t)
    BY <1>1, <1>2, IndexOfWord DEF NewIndex
  <1>8. ASSUME NEW i \in Index
        PROVE  i \in Used' <=> i \in Used \/ i = NewIndex(t)
    <2>1. PICK w \in 0 .. ChunkBunchCount - 1, r \in Bits :
            w = i \div BitmaskSize /\ r = i % BitmaskSize
      BY WordOfIndex
    <2>2. r \in bitmasks'[w] <=> r \in bitmasks[w] \/ (w = b /\ r = k)
      BY <1>2, <1>4, <2>1 DEF StoreType
    <2> QED BY <1>7, <2>1, <2>2 DEF Used
  <1>9. NewIndex(t) \notin Used
    <2>1. NewIndex(t) \div BitmaskSize = b /\ NewIndex(t) % BitmaskSize = k
      BY <1>7
    <2> QED BY <1>1, <2>1 DEF Used
  <1>10. Used = Filled /\ Filled' = Filled /\ Owned(t)' = Owned(t)
    BY <1>1 DEF BitsInv, Filled, Owned
  <1>11. Used' = Filled \cup {NewIndex(t)}
    BY <1>7, <1>8, <1>10 DEF Used
  <1>12. BitsInv(t)'
    BY <1>5, <1>7, <1>9, <1>10, <1>11 DEF BitsInv
  <1>13. HeapInv'
    BY <1>1, <1>10 DEF HeapInv
  <1>14. OwnerInv(t)' /\ SearchInv(t)'
    BY <1>1, <1>5, <1>10 DEF OwnerInv, SearchInv
  <1> QED BY <1>6, <1>12, <1>13, <1>14

\* The new chunk fills its place.
LEMMA StoreKeeps ==
  ASSUME NEW t, Thread = {t}, StoreInv(t), Store(t)
  PROVE  StoreInv(t)'
  <1> USE DEF StoreInv
  <1>1. /\ pc[t] = "store" /\ NewIndex(t) \in Index \ Filled
        /\ Used = Filled \cup {NewIndex(t)} /\ Owned(t) = Filled
        /\ UNCHANGED <<bitmasks, b_index, s_index, bitmask, held>>
    BY DEF Store, BitsInv, OwnerInv
  <1>2. PICK i \in Index : i = NewIndex(t)
    BY <1>1
  <1>3. PICK v \in Address \ heap : heap' = heap \cup {v} /\ chunks' = [chunks EXCEPT ![i] = v]
                                 /\ pc' = [pc EXCEPT ![t] = "fetch"]
    BY <1>1, <1>2 DEF Store, Goto
  <1>4. NewIndex(t)' = i /\ pc'[t] = "fetch"
    BY <1>1, <1>2, <1>3 DEF NewIndex, StoreType
  <1>5. chunks'[i] = v /\ v # Null /\ \A k \in Index : k # i => chunks'[k] = chunks[k]
    BY <1>3, SizesAssumption DEF StoreType
  <1>6. Filled' = Filled \cup {i} /\ i \notin Filled
    BY <1>1, <1>2, <1>5 DEF Filled
  <1>7. StoreType'
    BY <1>1, <1>3 DEF StoreType
  <1>8. Used' = Used /\ Owned(t)' = Owned(t)
    BY <1>1 DEF Used, Owned
  <1>9. BitsInv(t)' /\ SearchInv(t)'
    BY <1>1, <1>2, <1>4, <1>6, <1>8 DEF BitsInv, SearchInv
  <1>10. HeapInv'
    <2>1. \A k \in Filled : k \in Index /\ k # i /\ chunks'[k] = chunks[k]
      BY <1>5, <1>6 DEF Filled
    <2>2. heap' = {chunks'[k] : k \in Filled'}
      BY <1>3, <1>5, <1>6, <2>1 DEF HeapInv
    <2>3. \A k \in Filled : chunks'[k] # v
      BY <1>3, <2>1 DEF HeapInv
    <2>4. \A j, k \in Filled' : chunks'[j] = chunks'[k] => j = k
      BY <1>5, <1>6, <2>1, <2>3 DEF HeapInv
    <2> QED BY <2>2, <2>4 DEF HeapInv
  <1>11. OwnerInv(t)'
    <2>1. \A c \in held[t] : c.index \in Index /\ c.index # i
      BY <1>1, <1>6 DEF Owned, Filled
    <2>2. \A c \in held'[t] : c.chunk = chunks'[c.index]
      BY <1>1, <1>5, <2>1 DEF OwnerInv
    <2> QED BY <1>1, <1>2, <1>4, <1>6, <1>8, <2>2 DEF OwnerInv
  <1> QED BY <1>7, <1>9, <1>10, <1>11

\* The caller gets its chunk.
LEMMA FetchKeeps ==
  ASSUME NEW t, Thread = {t}, StoreInv(t), Fetch(t)
  PROVE  StoreInv(t)'
  <1> USE DEF StoreInv
  <1>1. /\ pc[t] = "fetch" /\ Used = Filled
        /\ Filled = Owned(t) \cup {NewIndex(t)} /\ NewIndex(t) \in Index \ Owned(t)
        /\ UNCHANGED <<bitmasks, chunks, heap, b_index, s_index, bitmask>>
    BY DEF Fetch, BitsInv, OwnerInv
  <1>2. PICK c : c = [index |-> NewIndex(t), chunk |-> chunks[NewIndex(t)]]
    OBVIOUS
  <1>3. held' = [held EXCEPT ![t] = @ \cup {c}] /\ pc' = [pc EXCEPT ![t] = "idle"]
    BY <1>2 DEF Fetch, Goto
  <1>4. c \in [index : Index, chunk : Address]
    <2>1. NewIndex(t) \in Filled
      BY <1>1
    <2>2. chunks[NewIndex(t)] \in Address
      BY <2>1 DEF Filled, StoreType
    <2> QED BY <1>1, <1>2, <2>2
  <1>5. pc'[t] = "idle" /\ held'[t] = held[t] \cup {c}
    BY <1>3 DEF StoreType
  <1>6. StoreType'
    BY <1>1, <1>3, <1>4 DEF StoreType
  <1>7. Used' = Used /\ Filled' = Filled
    BY <1>1 DEF Used, Filled
  <1>8. Owned(t)' = Filled
    BY <1>1, <1>2, <1>5 DEF Owned
  <1>9. OwnerInv(t)'
    BY <1>1, <1>2, <1>5, <1>7, <1>8 DEF OwnerInv
  <1>10. BitsInv(t)' /\ SearchInv(t)' /\ HeapInv'
    BY <1>1, <1>5, <1>7 DEF BitsInv, SearchInv, HeapInv
  <1> QED BY <1>6, <1>9, <1>10

\* The bit of a chunk given up is cleared.
LEMMA FreeKeeps ==
  ASSUME NEW t, Thread = {t}, StoreInv(t), Free(t)
  PROVE  StoreInv(t)'
  <1> USE DEF StoreInv
  <1>1. /\ pc[t] = "idle" /\ pc' = [pc EXCEPT ![t] = "freeing"] /\ Used = Filled
        /\ Owned(t) = Filled /\ UNCHANGED <<chunks, heap, b_index, bitmask>>
    BY DEF Free, Goto, BitsInv, OwnerInv
  <1>2. PICK c \in held[t] : /\ held' = [held EXCEPT ![t] = @ \ {c}] /\ ClearBit(c.index)
                             /\ s_index' = [s_index EXCEPT ![t] = c.index]
    BY DEF Free
  <1>3. PICK i \in Index : i = c.index
    BY DEF StoreType
  <1>4. i \in Nat
    BY <1>3, SizesAssumption DEF Index
  <1>5. pc'[t] = "freeing" /\ s_index'[t] = i /\ held'[t] = held[t] \ {c}
    BY <1>1, <1>2, <1>3 DEF StoreType
  <1>6. PICK b \in 0 .. ChunkBunchCount - 1, k \in Bits :
          b = i \div BitmaskSize /\ k = i % BitmaskSize
    BY WordOfIndex
  <1>7. bitmasks' = [bitmasks EXCEPT ![b] = @ \ {k}]
    BY <1>2, <1>3, <1>6 DEF ClearBit
  <1>8. StoreType'
    <2>1. bitmasks[b] \ {k} \in SUBSET Bits
      BY DEF StoreType
    <2>2. bitmasks' \in [0 .. ChunkBunchCount - 1 -> SUBSET Bits]
      BY <1>7, <2>1 DEF StoreType
    <2>3. s_index' \in [Thread -> Nat]
      BY <1>2, <1>3, <1>4 DEF StoreType
    <2>4. held' \in [Thread -> SUBSET [index : Index, chunk : Address]]
      BY <1>2 DEF StoreType
    <2> QED BY <1>1, <2>2, <2>3, <2>4 DEF StoreType
  <1>9. ASSUME NEW j \in Index
        PROVE  j \in Used' <=> j \in Used /\ j # i
    <2>1. PICK w \in 0 .. ChunkBunchCount - 1, r \in Bits :
            w = j \div BitmaskSize /\ r = j % BitmaskSize
      BY WordOfIndex
    <2>2. r \in bitmasks'[w] <=> r \in bitmasks[w] /\ ~(w = b /\ r = k)
      BY <1>7, <2>1 DEF StoreType
    <2>3. w = b /\ r = k <=> j = i
      BY <1>6, <2>1, IndexOfWord
    <2> QED BY <2>1, <2>2, <2>3 DEF Used
  <1>10. Filled' = Filled /\ i \in Filled
    BY <1>1, <1>3 DEF Filled, Owned
  <1>11. Used' = Used \ {i}
    BY <1>9 DEF Used
  <1>12. Owned(t)' = Owned(t) \ {i}
    <2>1. ASSUME NEW d \in held[t], d.index = i
          PROVE  d = c
      <3>1. d.chunk = c.chunk /\ d.index = c.index
        BY <1>3, <2>1 DEF OwnerInv
      <3>2. d \in [index : Index, chunk : Address] /\ c \in [index : Index, chunk : Address]
        BY DEF StoreType
      <3> QED BY <3>1, <3>2
    <2> QED BY <1>3, <1>5, <2>1 DEF Owned
  <1>13. BitsInv(t)' /\ SearchInv(t)' /\ HeapInv'
    BY <1>1, <1>5, <1>10, <1>11 DEF BitsInv, SearchInv, HeapInv
  <1>14. OwnerInv(t)'
    BY <1>1, <1>5, <1>10, <1>12 DEF OwnerInv
  <1> QED BY <1>8, <1>13, <1>14

\* Its pointer is taken out, its memory given back.
LEMMA TakeOutKeeps ==
  ASSUME NEW t, Thread = {t}, StoreInv(t), TakeOut(t)
  PROVE  StoreInv(t)'
  <1> USE DEF StoreInv
  <1>1. /\ pc[t] = "freeing" /\ s_index[t] \in Index \ Used /\ Filled = Used \cup {s_index[t]}
        /\ Filled = Owned(t) \cup {s_index[t]} /\ s_index[t] \notin Owned(t)
        /\ UNCHANGED <<bitmasks, b_index, s_index, bitmask, held>>
    BY DEF TakeOut, BitsInv, OwnerInv
  <1>2. PICK i \in Index : i = s_index[t]
    BY <1>1
  <1>3. i \in Filled /\ chunks[i] # Null
    BY <1>1, <1>2 DEF Filled
  <1>4. /\ heap' = heap \ {chunks[i]} /\ pc' = [pc EXCEPT ![t] = "idle"]
        /\ chunks' = [chunks EXCEPT ![i] = Null]
    BY <1>2, <1>3 DEF TakeOut, Goto
  <1>5. pc'[t] = "idle" /\ chunks'[i] = Null
        /\ \A k \in Index : k # i => chunks'[k] = chunks[k]
    BY <1>4 DEF StoreType
  <1>6. StoreType'
    BY <1>1, <1>4 DEF StoreType
  <1>7. Filled' = Filled \ {i}
    BY <1>5 DEF Filled
  <1>8. Used' = Used /\ Owned(t)' = Owned(t)
    BY <1>1 DEF Used, Owned
  <1>9. BitsInv(t)' /\ SearchInv(t)'
    BY <1>1, <1>2, <1>5, <1>7, <1>8 DEF BitsInv, SearchInv
  <1>10. HeapInv'
    <2>1. \A k \in Filled : k \in Index
      BY DEF Filled
    <2>2. \A j, k \in Filled : chunks[j] = chunks[k] => j = k
      BY DEF HeapInv
    <2>3. heap' = {chunks'[k] : k \in Filled'}
      <3>1. heap = {chunks[k] : k \in Filled}
        BY DEF HeapInv
      <3>2. heap' = {chunks[k] : k \in Filled \ {i}}
        BY <1>3, <1>4, <2>2, <3>1
      <3> QED BY <1>5, <1>7, <2>1, <3>2
    <2>4. \A j, k \in Filled' : chunks'[j] = chunks'[k] => j = k
      BY <1>5, <1>7, <2>1, <2>2
    <2> QED BY <2>3, <2>4 DEF HeapInv
  <1>11. OwnerInv(t)'
    <2>1. \A c \in held[t] : c.index \in Index /\ c.index # i
      BY <1>1, <1>2 DEF Owned, Filled
    <2>2. \A c \in held'[t] : c.chunk = chunks'[c.index]
      BY <1>1, <1>5, <2>1 DEF OwnerInv
    <2>3. Owned(t)' = Filled'
      BY <1>1, <1>2, <1>7, <1>8
    <2> QED BY <1>5, <2>2, <2>3 DEF OwnerInv
  <1> QED BY <1>6, <1>9, <1>10, <1>11

--------------------------------------------------------------------------------
LEMMA NextKeepsStoreInv ==
  ASSUME NEW t, Thread = {t}
  PROVE  StoreInv(t) /\ [Next]_vars => StoreInv(t)'
  <1> SUFFICES ASSUME StoreInv(t), [Next]_vars PROVE StoreInv(t)'
    OBVIOUS
  <1>1. CASE UNCHANGED vars
    <2>1. /\ bitmasks' = bitmasks /\ chunks' = chunks /\ heap' = heap /\ pc' = pc
          /\ b_index' = b_index /\ s_index' = s_index /\ bitmask' = bitmask /\ held' = held
      BY <1>1 DEF vars
    <2> QED BY <2>1 DEF StoreInv, StoreType, SearchInv, BitsInv, HeapInv, OwnerInv, NewIndex,
                        Used, Filled, Owned
  <1>2. CASE Allocate(t) \/ Load(t)
    BY <1>2, SearchKeeps
  <1>3. CASE Exchange(t) \/ Store(t) \/ Fetch(t)
    BY <1>3, ExchangeKeeps, StoreKeeps, FetchKeeps
  <1>4. CASE Free(t) \/ TakeOut(t)
    BY <1>4, FreeKeeps, TakeOutKeeps
  <1> QED BY <1>1, <1>2, <1>3, <1>4 DEF Next

LEMMA AlwaysStoreInv ==
  ASSUME NEW owner, Thread = {owner}
  PROVE  Spec => []StoreInv(owner)
  <1>1. Init => StoreInv(owner)
    BY InitStoreInv
  <1>2. StoreInv(owner) /\ [Next]_vars => StoreInv(owner)'
    BY NextKeepsStoreInv
  <1> QED BY <1>1, <1>2, PTL DEF Spec

\* With one thread, between calls bitmap, pointers, memory and owners agree: no chunk is
\* leaked or given to two owners, whatever was allocated and freed before.
THEOREM TableStaysConsistent ==
  ASSUME NEW owner, Thread = {owner}
  PROVE  Spec => []TableConsistent
  <1>1. StoreInv(owner) => TableConsistent
    <2> SUFFICES ASSUME StoreInv(owner) PROVE TableConsistent
      OBVIOUS
    <2> USE DEF StoreInv
    <2>1. \A c \in held[owner] : c.chunk \in heap
      <3>1. Owned(owner) \subseteq Filled
        BY DEF OwnerInv
      <3>2. \A c \in held[owner] : c.index \in Filled /\ c.chunk = chunks[c.index]
        BY <3>1 DEF Owned, OwnerInv
      <3> QED BY <3>2 DEF HeapInv
    <2>2. ASSUME pc[owner] = "idle"
          PROVE  /\ \A i \in Index :
                      (chunks[i] # Null) <=> (i % BitmaskSize) \in bitmasks[i \div BitmaskSize]
                 /\ {chunks[i] : i \in Index} \ {Null} = heap
                 /\ Owned(owner) = {i \in Index : chunks[i] # Null}
      <3>1. Used = Filled /\ Owned(owner) = Filled
        BY <2>2 DEF BitsInv, OwnerInv
      <3>2. heap = {chunks[i] : i \in Filled}
        BY DEF HeapInv
      <3> QED BY <3>1, <3>2 DEF Used, Filled
    <2>3. UNION {Owned(u) : u \in Thread} = Owned(owner)
      OBVIOUS
    <2> QED BY <2>1, <2>2, <2>3 DEF TableConsistent, Owned
  <1>2. Spec => []StoreInv(owner)
    BY AlwaysStoreInv
  <1> QED BY <1>1, <1>2, PTL

\* With one thread, "out of memory" is thrown only when every index is taken.
THEOREM OutOfMemoryIsReal ==
  ASSUME NEW owner, Thread = {owner}
  PROVE  Spec => OutOfMemoryMeansFull
  <1>1. ASSUME StoreInv(owner), pc[owner] = "load", b_index[owner] = ChunkBunchCount, NEW i \in Index
        PROVE  chunks[i] # Null
    <2>1. \A b \in 0 .. ChunkBunchCount - 1 : bitmasks[b] = Bits
      BY <1>1 DEF StoreInv, SearchInv
    <2>2. i \in Used
      BY <2>1, WordOfIndex DEF Used
    <2> QED BY <1>1, <2>2 DEF StoreInv, BitsInv, Filled
  <1>2. StoreInv(owner) /\ [Next]_vars =>
          [\A t \in Thread :
             pc[t] = "load" /\ b_index[t] = ChunkBunchCount /\ pc'[t] = "idle"
               => \A i \in Index : chunks[i] # Null]_vars
    BY <1>1
  <1>3. Spec => []StoreInv(owner)
    BY AlwaysStoreInv
  <1> QED BY <1>2, <1>3, PTL DEF OutOfMemoryMeansFull, Spec

================================================================================
