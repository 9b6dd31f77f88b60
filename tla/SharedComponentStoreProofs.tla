----------------------- MODULE SharedComponentStoreProofs -----------------------
(***************************************************************************)
(* Proofs about the table of shared values, for any values, hash codes and *)
(* sizes: counts are exact, the free list holds each free slot once, every *)
(* search ends and finds its value, and the store is a table of counted    *)
(* values (SharedValues).                                                  *)
(*                                                                         *)
(* Most of it is about the hash table: IsTableOf says that a table is one  *)
(* of given slots, and lemmas show that insertHash, a removal and a resize *)
(* leave such a table.                                                     *)
(***************************************************************************)
EXTENDS SharedComponentStore, FiniteSetTheorems, SequenceTheorems, WellFoundedInduction, TLAPS

--------------------------------------------------------------------------------
(* The invariant *)

\* The k-th place a search for code visits in a table of n places.
At(code, k, n) == (code + k - 1) % n

\* The search for code comes to place At(code, k, n): no empty place is before it.
Comes(table, n, code, k) == \A j \in 1 .. k - 1 : table[At(code, j, n)] # Empty

\* A place with a hash in use.
Taken(table, p) == ~Usable(table[p])

\* A table of n places that has the slots of R, whose values are in val, and no others:
\* each once, and where a search for it comes.
IsTableOf(table, n, R, val) ==
  /\ table \in [0 .. n - 1 -> [hash : Int, index : Int]]
  /\ \A p \in 0 .. n - 1 : Taken(table, p) =>
       table[p].index \in R /\ table[p].hash = hashOf[val[table[p].index]]
  /\ \A p, q \in 0 .. n - 1 :
       Taken(table, p) /\ Taken(table, q) /\ table[p].index = table[q].index => p = q
  /\ \A i \in R : \E k \in 1 .. n :
       /\ Taken(table, At(hashOf[val[i]], k, n)) /\ table[At(hashOf[val[i]], k, n)].index = i
       /\ Comes(table, n, hashOf[val[i]], k)

StoreType ==
  /\ capacity \in 2 .. MaxCapacity
  /\ count \in 1 .. MaxCapacity
  /\ referenceCount \in [Slot -> 0 .. MaxReferences]
  /\ version \in [Slot -> Int]
  /\ data \in [Slot -> Value]
  /\ held \in [Slot -> [Value -> Int]]
  /\ lost \subseteq 1 .. count - 1

\* Slots in use are below the count, and the table always has a place more than they are;
\* no two of them have the same value.
SlotsInv ==
  /\ Referenced \subseteq 0 .. count - 1
  /\ 0 \in Referenced
  /\ lost \cap Referenced = {}
  /\ \A i \in 0 .. count - 1 : i \notin lost => i + 1 < capacity
  /\ \A i, j \in Referenced : data[i] = data[j] => i = j

HashInv == IsTableOf(hashes, capacity, Referenced, data)

\* The slots that nobody uses and that were not lost.
Unused == {i \in 0 .. count - 1 : referenceCount[i] = 0} \ lost

\* s is the free list: it starts at freeSlotIndex and the versions link it.
IsFreeList(s) ==
  /\ s \in Seq(Slot)
  /\ freeSlotIndex = IF s = <<>> THEN InvalidIndex ELSE s[1]
  /\ \A k \in 1 .. Len(s) : version[s[k]] = IF k = Len(s) THEN InvalidIndex ELSE s[k + 1]
  /\ \A j, k \in 1 .. Len(s) : s[j] = s[k] => j = k
  /\ {s[k] : k \in 1 .. Len(s)} = Unused

ListInv == \E s : IsFreeList(s)

SharedInv ==
  StoreType /\ SlotsInv /\ HashInv /\ ListInv /\ ReferencesExact /\ OnlyLostRefused

--------------------------------------------------------------------------------
(* Sets of naturals *)

\* A set of naturals has a least element.
LEMMA LeastOf ==
  ASSUME NEW H, H \subseteq Nat, H # {}
  PROVE  \E k \in H : \A j \in H : k <= j
  <1>1. PICK k \in H : \A j \in H : ~(<<j, k>> \in OpToRel(<, Nat))
    BY NatLessThanWellFounded, WFMin
  <1>2. \A j \in H : ~(j < k)
    BY <1>1 DEF OpToRel
  <1> QED BY <1>2

\* Induction over the naturals, for a set.
LEMMA InductionBySet ==
  ASSUME NEW S, 0 \in S, \A n \in Nat : n \in S => n + 1 \in S
  PROVE  \A n \in Nat : n \in S
  <1> SUFFICES ASSUME Nat \ S # {} PROVE FALSE
    OBVIOUS
  <1>1. PICK k \in Nat \ S : \A j \in Nat \ S : k <= j
    BY LeastOf
  <1>2. k # 0 /\ k - 1 \in Nat /\ (k - 1) + 1 = k /\ ~(k <= k - 1)
    BY <1>1
  <1>3. k - 1 \in S
    BY <1>1, <1>2
  <1> QED BY <1>1, <1>2, <1>3

--------------------------------------------------------------------------------
(* The search *)

\* The place of the first of a set H of hits in a table of n places, if there is one.
FirstAmong(H, code, n) ==
  IF H = {} THEN {} ELSE {Probe(code, n)[CHOOSE k \in H : \A j \in H : k <= j]}

LEMMA FirstHit ==
  ASSUME NEW n \in Nat, NEW code, NEW H, H \subseteq 1 .. n, H # {}
  PROVE  \E k \in H : FirstAmong(H, code, n) = {At(code, k, n)}
  <1> DEFINE least == CHOOSE k \in H : \A j \in H : k <= j
  <1>1. \E k \in H : \A j \in H : k <= j
    <2>1. H \subseteq Nat
      OBVIOUS
    <2> HIDE DEF least
    <2> QED BY <2>1, LeastOf
  <1>2. least \in H
    BY <1>1
  <1> HIDE DEF least
  <1>3. Probe(code, n)[least] = At(code, least, n)
    BY <1>2 DEF Probe, At
  <1> QED BY <1>2, <1>3 DEF FirstAmong, least

\* A search visits every place of the table.
LEMMA AtCoversTable ==
  ASSUME NEW n \in Nat \ {0}, NEW code \in Nat, NEW p \in 0 .. n - 1
  PROVE  \E k \in 1 .. n : At(code, k, n) = p
  <1> DEFINE r == code % n
             k == IF p >= r THEN (p - r) + 1 ELSE (p - r) + n + 1
  <1>1. r \in 0 .. n - 1 /\ code = n * (code \div n) + r
    OBVIOUS
  <1>2. k \in 1 .. n
    BY <1>1
  <1>3. \A x \in Int : x \in 0 .. n - 1 => x % n = x
    OBVIOUS
  <1>4. \A q \in Int, x \in 0 .. n - 1 : (n * q + x) % n = x
    OBVIOUS
  <1>5. (code + k - 1) % n = p
    <2> DEFINE q == code \div n
    <2>1. q \in Int
      OBVIOUS
    <2>2. CASE p >= r
      <3>1. code + k - 1 = n * q + p
        BY <1>1, <2>2
      <3> QED BY <1>4, <2>1, <3>1
    <2>3. CASE ~(p >= r)
      <3>1. code + k - 1 = n * (q + 1) + p
        <4>1. n * (q + 1) = n * q + n
          BY <2>1
        <4> QED BY <1>1, <2>3, <4>1
      <3>2. q + 1 \in Int
        BY <2>1
      <3>3. (n * (q + 1) + p) % n = p
        <4> HIDE DEF q
        <4> QED BY <1>4, <3>2
      <3> HIDE DEF q, k
      <3> QED BY <3>1, <3>3
    <2> QED BY <2>2, <2>3
  <1> QED BY <1>2, <1>5 DEF At

\* The place a search visits is one of the table.
LEMMA AtType ==
  ASSUME NEW n \in Nat \ {0}, NEW code \in Nat, NEW k \in 1 .. n
  PROVE  At(code, k, n) \in 0 .. n - 1
  BY DEF At

\* The search for a place to put a code at: it fails only in a full table.
LEMMA PlaceForIsUsable ==
  ASSUME NEW n \in Nat \ {0}, NEW code \in Nat, NEW table, DOMAIN table = 0 .. n - 1
  PROVE  \/ /\ PlaceFor(table, code) = {}
            /\ \A p \in 0 .. n - 1 : Taken(table, p)
         \/ \E k \in 1 .. n : /\ PlaceFor(table, code) = {At(code, k, n)}
                              /\ ~Taken(table, At(code, k, n))
                              /\ Comes(table, n, code, k)
  <1> DEFINE H == {k \in 1 .. n : /\ Usable(table[At(code, k, n)])
                                  /\ Comes(table, n, code, k)}
  <1>1. Cardinality(DOMAIN table) = n
    BY FS_Interval
  <1>2. \A k \in 1 .. n : \A j \in 1 .. k - 1 : j \in 1 .. n
    OBVIOUS
  <1>3. \A k \in 1 .. n : Probe(code, n)[k] = At(code, k, n)
    BY DEF Probe, At
  <1>4. DOMAIN Probe(code, n) = 1 .. n
    BY DEF Probe
  <1>5. H = {k \in DOMAIN Probe(code, n) :
               /\ Usable(table[Probe(code, n)[k]])
               /\ \A j \in 1 .. k - 1 : table[Probe(code, n)[j]] # Empty}
    BY <1>2, <1>3, <1>4 DEF Comes
  <1>6. PlaceFor(table, code) = FirstAmong(H, code, n)
    <2> DEFINE N == Cardinality(DOMAIN table)
               K == {k \in DOMAIN Probe(code, N) :
                       /\ Usable(table[Probe(code, N)[k]])
                       /\ \A j \in 1 .. k - 1 : table[Probe(code, N)[j]] # Empty}
    <2>1. PlaceFor(table, code) =
            IF K = {} THEN {}
            ELSE {Probe(code, N)[CHOOSE k \in K : \A j \in K : k <= j]}
      BY DEF PlaceFor, FirstPlace
    <2> HIDE DEF H
    <2>2. K = H
      <3>1. N = n
        BY <1>1
      <3> HIDE DEF N
      <3> QED BY <1>5, <3>1
    <2> HIDE DEF K
    <2> QED BY <1>1, <2>1, <2>2 DEF FirstAmong
  <1>7. H \subseteq 1 .. n
    OBVIOUS
  <1>8. \/ H = {} /\ PlaceFor(table, code) = {}
        \/ \E k \in H : PlaceFor(table, code) = {At(code, k, n)}
    <2> HIDE DEF H
    <2>1. H = {} => FirstAmong(H, code, n) = {}
      BY DEF FirstAmong
    <2>2. H # {} => \E k \in H : FirstAmong(H, code, n) = {At(code, k, n)}
      BY <1>7, FirstHit
    <2> QED BY <1>6, <2>1, <2>2
  <1>9. ASSUME NEW p \in 0 .. n - 1, ~Taken(table, p)
        PROVE  H # {}
    <2> DEFINE U == {k \in 1 .. n : Usable(table[At(code, k, n)])}
    <2>1. U # {}
      BY <1>9, AtCoversTable DEF Taken
    <2>2. PICK k \in U : \A j \in U : k <= j
      <3>1. U \subseteq Nat
        OBVIOUS
      <3> HIDE DEF U
      <3> QED BY <2>1, <3>1, LeastOf
    <2>3. Usable(Empty)
      BY DEF Usable, Empty
    <2>4. ASSUME NEW j \in 1 .. k - 1
          PROVE  table[At(code, j, n)] # Empty
      <3>1. j \in 1 .. n /\ ~(k <= j)
        BY <2>2
      <3>2. j \notin U
        BY <2>2, <3>1
      <3> QED BY <2>3, <3>1, <3>2
    <2>5. k \in H
      BY <2>2, <2>4 DEF Comes
    <2> QED BY <2>5
  <1>10. CASE H = {}
    BY <1>8, <1>9, <1>10
  <1>11. CASE H # {}
    <2>1. PICK k \in H : PlaceFor(table, code) = {At(code, k, n)}
      BY <1>8, <1>11
    <2> QED BY <2>1 DEF Taken
  <1> QED BY <1>10, <1>11

\* A table of less slots than places has a place to put a code at.
LEMMA PlaceForExists ==
  ASSUME NEW n \in Nat \ {0}, NEW code \in Nat, NEW table, NEW R, NEW val,
         R \subseteq 0 .. n - 2, IsTableOf(table, n, R, val)
  PROVE  \E k \in 1 .. n : /\ PlaceFor(table, code) = {At(code, k, n)}
                           /\ ~Taken(table, At(code, k, n))
                           /\ Comes(table, n, code, k)
  <1>1. DOMAIN table = 0 .. n - 1
    BY DEF IsTableOf
  <1> SUFFICES ASSUME \A p \in 0 .. n - 1 : Taken(table, p)
               PROVE  FALSE
    BY <1>1, PlaceForIsUsable
  <1> DEFINE f == [p \in 0 .. n - 1 |-> table[p].index]
  <1>2. f \in [0 .. n - 1 -> 0 .. n - 2]
    BY DEF IsTableOf
  <1>3. IsFiniteSet(0 .. n - 1) /\ Cardinality(0 .. n - 1) = n
    BY FS_Interval
  <1>4. IsFiniteSet(0 .. n - 2) /\ Cardinality(0 .. n - 2) = n - 1
    <2>1. n - 2 \in Int /\ (0 > n - 2 => n - 1 = 0)
      OBVIOUS
    <2> QED BY <2>1, FS_Interval
  <1>5. PICK p, q \in 0 .. n - 1 : p # q /\ f[p] = f[q]
    <2>1. Cardinality(0 .. n - 2) < Cardinality(0 .. n - 1)
      BY <1>3, <1>4
    <2> HIDE DEF f
    <2> QED BY <1>2, <1>3, <1>4, <2>1, FS_PigeonHole
  <1> QED BY <1>5 DEF IsTableOf

\* The places where a search for v, or for the slot i, comes and finds it.
ValueHits(v, n) ==
  {k \in 1 .. n : LET cell == hashes[At(hashOf[v], k, n)]
                  IN /\ cell.hash = hashOf[v] /\ data[cell.index] = v
                     /\ Comes(hashes, n, hashOf[v], k)}
SlotHits(i, n) ==
  {k \in 1 .. n : LET cell == hashes[At(hashOf[data[i]], k, n)]
                  IN /\ cell.hash = hashOf[data[i]] /\ cell.index = i
                     /\ Comes(hashes, n, hashOf[data[i]], k)}

\* insert's search
LEMMA TryFindHits ==
  ASSUME NEW n \in Nat \ {0}, DOMAIN hashes = 0 .. n - 1, NEW v
  PROVE  TryFind(v) = FirstAmong(ValueHits(v, n), hashOf[v], n)
  <1> DEFINE N == Cardinality(DOMAIN hashes)
             code == hashOf[v]
             K == {k \in DOMAIN Probe(code, N) :
                     /\ hashes[Probe(code, N)[k]].hash = code
                        /\ data[hashes[Probe(code, N)[k]].index] = v
                     /\ \A j \in 1 .. k - 1 : hashes[Probe(code, N)[j]] # Empty}
  <1>1. TryFind(v) = IF K = {} THEN {}
                   ELSE {Probe(code, N)[CHOOSE k \in K : \A j \in K : k <= j]}
    BY DEF TryFind, FirstPlace
  <1>2. N = n
    BY FS_Interval
  <1>3. \A k \in 1 .. n : \A j \in 1 .. k - 1 : j \in 1 .. n
    OBVIOUS
  <1>4. /\ DOMAIN Probe(code, n) = 1 .. n
        /\ \A k \in 1 .. n : Probe(code, n)[k] = At(code, k, n)
    BY DEF Probe, At
  <1>5. K = ValueHits(v, n)
    <2> HIDE DEF N
    <2> QED BY <1>2, <1>3, <1>4 DEF Comes, ValueHits
  <1> HIDE DEF N, K, code
  <1>6. FirstAmong(K, code, n) = TryFind(v)
    BY <1>1, <1>2 DEF FirstAmong
  <1> QED BY <1>5, <1>6 DEF code

\* removeReference's search
LEMMA PlaceOfHits ==
  ASSUME NEW n \in Nat \ {0}, DOMAIN hashes = 0 .. n - 1, NEW i
  PROVE  PlaceOf(i) = FirstAmong(SlotHits(i, n), hashOf[data[i]], n)
  <1> DEFINE N == Cardinality(DOMAIN hashes)
             code == hashOf[data[i]]
             K == {k \in DOMAIN Probe(code, N) :
                     /\ hashes[Probe(code, N)[k]].hash = code
                        /\ hashes[Probe(code, N)[k]].index = i
                     /\ \A j \in 1 .. k - 1 : hashes[Probe(code, N)[j]] # Empty}
  <1>1. PlaceOf(i) = IF K = {} THEN {}
                   ELSE {Probe(code, N)[CHOOSE k \in K : \A j \in K : k <= j]}
    BY DEF PlaceOf, FirstPlace
  <1>2. N = n
    BY FS_Interval
  <1>3. \A k \in 1 .. n : \A j \in 1 .. k - 1 : j \in 1 .. n
    OBVIOUS
  <1>4. /\ DOMAIN Probe(code, n) = 1 .. n
        /\ \A k \in 1 .. n : Probe(code, n)[k] = At(code, k, n)
    BY DEF Probe, At
  <1>5. K = SlotHits(i, n)
    <2> HIDE DEF N
    <2> QED BY <1>2, <1>3, <1>4 DEF Comes, SlotHits
  <1> HIDE DEF N, K, code
  <1>6. FirstAmong(K, code, n) = PlaceOf(i)
    BY <1>1, <1>2 DEF FirstAmong
  <1> QED BY <1>5, <1>6 DEF code

\* What insert's search and removeReference's search find of a slot in the table.
LEMMA SearchesFindSlot ==
  ASSUME NEW n \in Nat \ {0}, NEW R, IsTableOf(hashes, n, R, data),
         NEW i \in R, hashOf[data[i]] \in Nat \ {0},
         \A j \in R : data[j] = data[i] => j = i
  PROVE  \E p \in 0 .. n - 1 :
           /\ TryFind(data[i]) = {p} /\ PlaceOf(i) = {p}
           /\ Taken(hashes, p) /\ hashes[p].index = i
  <1> DEFINE code == hashOf[data[i]]
             Found(k) == hashes[At(code, k, n)].hash = code
             H == ValueHits(data[i], n)
             G == SlotHits(i, n)
  <1>1. TryFind(data[i]) = FirstAmong(H, code, n)
    BY TryFindHits DEF IsTableOf
  <1>2. PlaceOf(i) = FirstAmong(G, code, n)
    BY PlaceOfHits DEF IsTableOf
  <1>3. PICK k \in 1 .. n : /\ Taken(hashes, At(code, k, n))
                            /\ hashes[At(code, k, n)].index = i
                            /\ Comes(hashes, n, code, k)
    BY DEF IsTableOf
  <1> DEFINE p == At(code, k, n)
  <1>4. p \in 0 .. n - 1
    BY AtType
  <1>5. hashes[p].hash = code
    <2> HIDE DEF p
    <2> QED BY <1>3, <1>4 DEF IsTableOf, p
  <1>6. k \in H /\ k \in G
    BY <1>3, <1>5 DEF ValueHits, SlotHits
  <1>7. \A j \in 1 .. n : Found(j) => /\ At(code, j, n) \in 0 .. n - 1
                                       /\ Taken(hashes, At(code, j, n))
    <2>1. \A j \in 1 .. n : At(code, j, n) \in 0 .. n - 1
      BY AtType
    <2> QED BY <2>1 DEF Taken, Usable, SkipCode
  <1>8. \A j \in G : At(code, j, n) = p
    <2> SUFFICES ASSUME NEW j \in G PROVE At(code, j, n) = p
      OBVIOUS
    <2> DEFINE q == At(code, j, n)
    <2>1. q \in 0 .. n - 1 /\ Taken(hashes, q) /\ hashes[q].index = i
      BY <1>7 DEF SlotHits
    <2>2. p \in 0 .. n - 1 /\ Taken(hashes, p) /\ hashes[p].index = i
      BY <1>3, <1>4
    <2> HIDE DEF p, q
    <2> QED BY <2>1, <2>2 DEF IsTableOf, q
  <1>9. \A j \in H : j \in G
    <2> SUFFICES ASSUME NEW j \in H PROVE hashes[At(code, j, n)].index = i
      BY DEF ValueHits, SlotHits
    <2> DEFINE q == At(code, j, n)
    <2>1. q \in 0 .. n - 1 /\ Taken(hashes, q) /\ data[hashes[q].index] = data[i]
      BY <1>7 DEF ValueHits
    <2> HIDE DEF q
    <2>2. hashes[q].index \in R
      BY <2>1 DEF IsTableOf
    <2> QED BY <2>1, <2>2 DEF q
  <1>10. TryFind(data[i]) = {p}
    <2>1. H \subseteq 1 .. n /\ H # {}
      BY <1>6 DEF ValueHits
    <2> HIDE DEF H, p
    <2>2. \E j \in H : TryFind(data[i]) = {At(code, j, n)}
      BY <1>1, <2>1, FirstHit
    <2> QED BY <1>8, <1>9, <2>2
  <1>11. PlaceOf(i) = {p}
    <2>1. G \subseteq 1 .. n /\ G # {}
      BY <1>6 DEF SlotHits
    <2> HIDE DEF G, p
    <2>2. \E j \in G : PlaceOf(i) = {At(code, j, n)}
      BY <1>2, <2>1, FirstHit
    <2> QED BY <1>8, <2>2
  <1> HIDE DEF p
  <1> QED BY <1>3, <1>4, <1>10, <1>11 DEF p

\* What insert's search finds has the value it searched for.
LEMMA FoundHasValue ==
  ASSUME NEW n \in Nat \ {0}, NEW R, IsTableOf(hashes, n, R, data),
         NEW v \in Value, hashOf[v] \in Nat \ {0}, NEW p \in TryFind(v)
  PROVE  /\ p \in 0 .. n - 1 /\ hashes[p].index \in R
         /\ data[hashes[p].index] = v
  <1> DEFINE code == hashOf[v]
             H == ValueHits(v, n)
  <1>1. TryFind(v) = FirstAmong(H, code, n)
    BY TryFindHits DEF IsTableOf
  <1>2. PICK k \in H : p = At(code, k, n)
    <2>1. H \subseteq 1 .. n
      BY DEF ValueHits
    <2>2. H # {}
      BY <1>1 DEF FirstAmong
    <2> HIDE DEF H, code
    <2>3. PICK k \in H : FirstAmong(H, code, n) = {At(code, k, n)}
      BY <2>1, <2>2, FirstHit
    <2> QED BY <1>1, <2>3
  <1>3. p \in 0 .. n - 1
    BY <1>2, AtType DEF ValueHits
  <1>4. hashes[p].hash = code /\ data[hashes[p].index] = v
    BY <1>2 DEF ValueHits
  <1>5. Taken(hashes, p)
    BY <1>4 DEF Taken, Usable, SkipCode
  <1> QED BY <1>3, <1>4, <1>5 DEF IsTableOf

--------------------------------------------------------------------------------
(* What the operations do to a table *)

\* A slot that is put into a table of others.
LEMMA PutAddsSlot ==
  ASSUME NEW n \in Nat \ {0}, NEW table, NEW R, NEW val,
         R \subseteq 0 .. n - 2, IsTableOf(table, n, R, val),
         \A r \in R : hashOf[val[r]] \in Nat,
         NEW i \in Int \ R, NEW code \in Nat \ {0}, code = hashOf[val[i]]
  PROVE  IsTableOf(Put(table, code, i), n, R \cup {i}, val)
  <1>1. PICK k \in 1 .. n : /\ PlaceFor(table, code) = {At(code, k, n)}
                            /\ ~Taken(table, At(code, k, n))
                            /\ Comes(table, n, code, k)
    BY PlaceForExists
  <1>2. PICK p \in 0 .. n - 1 : p = At(code, k, n)
    BY AtType
  <1>3. PICK new : new = Put(table, code, i)
    OBVIOUS
  <1>4. table \in [0 .. n - 1 -> [hash : Int, index : Int]]
    BY DEF IsTableOf
  <1>5. /\ DOMAIN new = 0 .. n - 1
        /\ new[p] = [hash |-> code, index |-> i]
        /\ \A q \in 0 .. n - 1 : q # p => new[q] = table[q]
    BY <1>1, <1>2, <1>3, <1>4 DEF Put
  <1>6. new \in [0 .. n - 1 -> [hash : Int, index : Int]]
    <2>1. new = [q \in 0 .. n - 1 |-> new[q]]
      BY <1>3, <1>4 DEF Put
    <2>2. \A q \in 0 .. n - 1 : new[q] \in [hash : Int, index : Int]
      <3>1. [hash |-> code, index |-> i] \in [hash : Int, index : Int]
        OBVIOUS
      <3>2. \A q \in 0 .. n - 1 : table[q] \in [hash : Int, index : Int]
        BY <1>4
      <3> QED BY <1>5, <3>1, <3>2
    <2> QED BY <2>1, <2>2
  <1>7. Taken(new, p) /\ new[p].index = i /\ new[p].hash = hashOf[val[i]]
    BY <1>5 DEF Taken, Usable, SkipCode
  <1>8. \A q \in 0 .. n - 1 : q # p => (Taken(new, q) <=> Taken(table, q))
    BY <1>5 DEF Taken
  <1>9. \A q \in 0 .. n - 1 : new[q] = Empty => table[q] = Empty
    <2>1. new[p] # Empty
      BY <1>5 DEF Empty
    <2> QED BY <1>5, <2>1
  <1>10. \A c \in Nat : \A j \in 1 .. n : Comes(table, n, c, j) => Comes(new, n, c, j)
    <2> SUFFICES ASSUME NEW c \in Nat, NEW j \in 1 .. n, Comes(table, n, c, j),
                        NEW m \in 1 .. j - 1
                 PROVE  new[At(c, m, n)] # Empty
      BY DEF Comes
    <2>1. m \in 1 .. n
      OBVIOUS
    <2>2. At(c, m, n) \in 0 .. n - 1
      BY <2>1, AtType
    <2>3. table[At(c, m, n)] # Empty
      BY DEF Comes
    <2> QED BY <1>9, <2>2, <2>3
  <1>11. ~Taken(table, p)
    BY <1>1, <1>2
  <1>12. ASSUME NEW q \in 0 .. n - 1, Taken(new, q)
         PROVE  new[q].index \in R \cup {i} /\ new[q].hash = hashOf[val[new[q].index]]
    <2>1. CASE q = p
      BY <1>7, <2>1
    <2>2. CASE q # p
      BY <1>5, <1>8, <1>12, <2>2 DEF IsTableOf
    <2> QED BY <2>1, <2>2
  <1>13. ASSUME NEW q \in 0 .. n - 1, NEW r \in 0 .. n - 1,
                Taken(new, q), Taken(new, r), new[q].index = new[r].index
         PROVE  q = r
    <2>1. \A s \in 0 .. n - 1 : s # p /\ Taken(new, s) =>
            Taken(table, s) /\ new[s] = table[s] /\ table[s].index # i
      BY <1>5, <1>8 DEF IsTableOf
    <2>2. CASE q = p \/ r = p
      BY <1>7, <1>13, <2>1, <2>2
    <2>3. CASE q # p /\ r # p
      BY <1>13, <2>1, <2>3 DEF IsTableOf
    <2> QED BY <2>2, <2>3
  <1>14. ASSUME NEW r \in R \cup {i}
         PROVE  \E j \in 1 .. n : LET q == At(hashOf[val[r]], j, n)
                                  IN Taken(new, q) /\ new[q].index = r
                                     /\ Comes(new, n, hashOf[val[r]], j)
    <2>1. CASE r = i
      BY <1>1, <1>2, <1>7, <1>10, <2>1
    <2>2. CASE r # i
      <3>1. PICK j \in 1 .. n : /\ Taken(table, At(hashOf[val[r]], j, n))
                                /\ table[At(hashOf[val[r]], j, n)].index = r
                                /\ Comes(table, n, hashOf[val[r]], j)
        BY <2>2 DEF IsTableOf
      <3>2. hashOf[val[r]] \in Nat
        BY <2>2
      <3>3. PICK q \in 0 .. n - 1 : q = At(hashOf[val[r]], j, n)
        BY <3>2, AtType
      <3>4. q # p
        BY <1>11, <3>1, <3>3
      <3>5. Taken(new, q) /\ new[q].index = r
        BY <1>5, <1>8, <3>1, <3>3, <3>4
      <3> QED BY <1>10, <3>1, <3>2, <3>3, <3>5
    <2> QED BY <2>1, <2>2
  <1>15. IsTableOf(new, n, R \cup {i}, val)
    BY <1>6, <1>12, <1>13, <1>14 DEF IsTableOf
  <1> QED BY <1>3, <1>15

\* A slot whose place is skipped from now on.
LEMMA SkipRemovesSlot ==
  ASSUME NEW n \in Nat \ {0}, NEW table, NEW R, NEW val, IsTableOf(table, n, R, val),
         \A r \in R : hashOf[val[r]] \in Nat,
         NEW p \in 0 .. n - 1, Taken(table, p),
         NEW new, new = [q \in DOMAIN table |-> IF q \in {p} THEN Skipped ELSE table[q]]
  PROVE  IsTableOf(new, n, R \ {table[p].index}, val)
  <1> DEFINE i == table[p].index
  <1>1. table \in [0 .. n - 1 -> [hash : Int, index : Int]]
    BY DEF IsTableOf
  <1>2. /\ DOMAIN new = 0 .. n - 1 /\ new[p] = Skipped
        /\ \A q \in 0 .. n - 1 : q # p => new[q] = table[q]
    BY <1>1
  <1>3. new \in [0 .. n - 1 -> [hash : Int, index : Int]]
    <2>1. Skipped \in [hash : Int, index : Int]
      BY DEF Skipped, SkipCode
    <2> QED BY <1>1, <2>1
  <1>4. ~Taken(new, p)
    BY <1>2 DEF Taken, Usable, Skipped
  <1>5. \A q \in 0 .. n - 1 : Taken(new, q) =>
          q # p /\ Taken(table, q) /\ new[q] = table[q]
    BY <1>2, <1>4 DEF Taken
  <1>6. \A c \in Nat : \A j \in 1 .. n : Comes(table, n, c, j) => Comes(new, n, c, j)
    <2> SUFFICES ASSUME NEW c \in Nat, NEW j \in 1 .. n, Comes(table, n, c, j),
                        NEW m \in 1 .. j - 1
                 PROVE  new[At(c, m, n)] # Empty
      BY DEF Comes
    <2>1. m \in 1 .. n
      OBVIOUS
    <2>2. At(c, m, n) \in 0 .. n - 1
      BY <2>1, AtType
    <2>3. table[At(c, m, n)] # Empty
      BY DEF Comes
    <2>4. Skipped # Empty
      BY DEF Skipped, Empty, SkipCode
    <2> QED BY <1>2, <2>2, <2>3, <2>4
  <1>7. ASSUME NEW q \in 0 .. n - 1, Taken(new, q)
        PROVE  new[q].index \in R \ {i} /\ new[q].hash = hashOf[val[new[q].index]]
    BY <1>5, <1>7 DEF IsTableOf
  <1>8. ASSUME NEW q \in 0 .. n - 1, NEW r \in 0 .. n - 1,
               Taken(new, q), Taken(new, r), new[q].index = new[r].index
        PROVE  q = r
    BY <1>5, <1>8 DEF IsTableOf
  <1>9. ASSUME NEW r \in R \ {i}
        PROVE  \E j \in 1 .. n : LET q == At(hashOf[val[r]], j, n)
                                 IN Taken(new, q) /\ new[q].index = r
                                    /\ Comes(new, n, hashOf[val[r]], j)
    <2>1. PICK j \in 1 .. n : /\ Taken(table, At(hashOf[val[r]], j, n))
                              /\ table[At(hashOf[val[r]], j, n)].index = r
                              /\ Comes(table, n, hashOf[val[r]], j)
      BY DEF IsTableOf
    <2>2. PICK q \in 0 .. n - 1 : q = At(hashOf[val[r]], j, n)
      BY AtType
    <2>3. q # p
      BY <2>1, <2>2
    <2>4. Taken(new, q) /\ new[q].index = r
      BY <1>2, <2>1, <2>2, <2>3 DEF Taken
    <2> QED BY <1>6, <2>1, <2>2, <2>4
  <1> HIDE DEF i
  <1>10. IsTableOf(new, n, R \ {i}, val)
    BY <1>3, <1>7, <1>8, <1>9 DEF IsTableOf
  <1> QED BY <1>10 DEF i

\* A table of empty places has no slots.
LEMMA EmptyTable ==
  ASSUME NEW n \in Nat \ {0}, NEW val
  PROVE  IsTableOf([p \in 0 .. n - 1 |-> Empty], n, {}, val)
  <1>1. Empty \in [hash : Int, index : Int]
    BY DEF Empty
  <1>2. Usable(Empty)
    BY DEF Usable, Empty
  <1> QED BY <1>1, <1>2 DEF IsTableOf, Taken

\* resize makes a table of the same slots.
LEMMA RehashKeepsTable ==
  ASSUME NEW n \in Nat \ {0}, n = capacity, NEW R, IsTableOf(hashes, n, R, data),
         R \subseteq 0 .. 2 * n - 2, \A i \in R : hashOf[data[i]] \in Nat \ {0}
  PROVE  IsTableOf(Rehashed, 2 * n, R, data)
  <1> DEFINE Tables == [0 .. 2 * n - 1 -> [hash : Int, index : Int]]
             empty == [p \in 0 .. 2 * n - 1 |-> Empty]
             Step(g, m) ==
               IF m = 0 THEN empty
               ELSE IF Usable(hashes[m - 1]) THEN g[m - 1]
               ELSE Put(g[m - 1], hashes[m - 1].hash, hashes[m - 1].index)
             UpTo(m) == {g \in [0 .. m -> Tables] : \A k \in 0 .. m : g[k] = Step(g, k)}
             Good == {m \in Nat : m <= n => UpTo(m) # {}}
             Moved(m) == {hashes[p].index : p \in {q \in 0 .. m - 1 : Taken(hashes, q)}}
  <1>1. /\ 2 * n \in Nat \ {0}
        /\ hashes \in [0 .. n - 1 -> [hash : Int, index : Int]]
    BY DEF IsTableOf
  <1>2. empty \in Tables
    BY DEF Empty
  <1>3. \A t \in Tables, cell \in [hash : Int, index : Int] :
          Put(t, cell.hash, cell.index) \in Tables
    BY DEF Put
  <1>4. 0 \in Good
    <2> DEFINE h == [k \in 0 .. 0 |-> empty]
    <2>1. h \in [0 .. 0 -> Tables] /\ \A k \in 0 .. 0 : k = 0 /\ h[k] = empty
      <3> HIDE DEF empty, Tables
      <3> QED BY <1>2
    <2> HIDE DEF h, empty, Tables
    <2>2. h \in UpTo(0)
      BY <2>1
    <2> QED BY <2>2
  <1>5. ASSUME NEW m \in Nat, m \in Good
        PROVE  m + 1 \in Good
    <2> SUFFICES ASSUME m + 1 <= n
                 PROVE  UpTo(m + 1) # {}
      <3> HIDE DEF UpTo
      <3> QED OBVIOUS
    <2>1. PICK g : g \in UpTo(m)
      <3> HIDE DEF UpTo
      <3> QED BY <1>5
    <2>2. g \in [0 .. m -> Tables] /\ \A k \in 0 .. m : g[k] = Step(g, k)
      <3> HIDE DEF Tables, Step
      <3> QED BY <2>1
    <2> DEFINE cell == hashes[m]
               last == IF Usable(cell) THEN g[m] ELSE Put(g[m], cell.hash, cell.index)
               h == [k \in 0 .. m + 1 |-> IF k = m + 1 THEN last ELSE g[k]]
    <2>3. last \in Tables
      <3>1. cell \in [hash : Int, index : Int] /\ g[m] \in Tables
        <4> HIDE DEF Tables
        <4> QED BY <1>1, <2>2
      <3> HIDE DEF Tables, cell
      <3> QED BY <1>3, <3>1
    <2> HIDE DEF last, Tables, empty
    <2>4. /\ h \in [0 .. m + 1 -> Tables] /\ h[m + 1] = last
          /\ \A k \in 0 .. m : h[k] = g[k]
      <3>1. \A k \in 0 .. m + 1 : k # m + 1 => k \in 0 .. m
        OBVIOUS
      <3> QED BY <2>2, <2>3, <3>1
    <2> HIDE DEF h
    <2>5. ASSUME NEW k \in 0 .. m + 1
          PROVE  h[k] = Step(h, k)
      <3>1. CASE k = m + 1
        <4>1. k # 0 /\ k - 1 = m /\ m \in 0 .. m
          BY <3>1
        <4> QED BY <2>4, <3>1, <4>1 DEF last
      <3>2. CASE k \in 0 .. m
        <4>1. k # 0 => k - 1 \in 0 .. m
          BY <3>2
        <4>2. k # 0 => h[k - 1] = g[k - 1]
          BY <2>4, <4>1
        <4>3. Step(h, k) = Step(g, k)
          BY <4>2
        <4> QED BY <2>2, <2>4, <3>2, <4>3
      <3> QED BY <3>1, <3>2
    <2>6. h \in UpTo(m + 1)
      <3> HIDE DEF Step
      <3> QED BY <2>4, <2>5
    <2> QED BY <2>6
  <1>6. PICK g : g \in UpTo(n)
    <2> HIDE DEF Good
    <2>1. \A m \in Nat : m \in Good
      BY <1>4, <1>5, InductionBySet
    <2> HIDE DEF UpTo
    <2> QED BY <2>1 DEF Good
  <1> DEFINE f == CHOOSE r : r = [m \in 0 .. n |-> Step(r, m)]
  <1>7. g = [m \in 0 .. n |-> Step(g, m)]
    <2> HIDE DEF Step, Tables
    <2> QED BY <1>6
  <1>8. f = [m \in 0 .. n |-> Step(f, m)]
    <2> HIDE DEF Step
    <2> QED BY <1>7
  <1>9. Rehashed = f[n]
    BY DEF Rehashed
  <1> HIDE DEF f
  <1>10. \A m \in 0 .. n : f[m] = Step(f, m)
    <2> HIDE DEF Step
    <2> QED BY <1>8
  <1> DEFINE T == {m \in Nat : m <= n => IsTableOf(f[m], 2 * n, Moved(m), data)}
  <1>11. \A m \in 0 .. n : Moved(m) \subseteq R
    BY DEF IsTableOf
  <1>12. 0 \in T
    <2>1. f[0] = empty
      BY <1>10
    <2>2. Moved(0) = {}
      OBVIOUS
    <2>3. IsTableOf(empty, 2 * n, {}, data)
      BY <1>1, EmptyTable
    <2> HIDE DEF Moved, empty
    <2> QED BY <2>1, <2>2, <2>3
  <1>13. ASSUME NEW m \in Nat, m \in T
         PROVE  m + 1 \in T
    <2> SUFFICES ASSUME m + 1 <= n
                 PROVE  IsTableOf(f[m + 1], 2 * n, Moved(m + 1), data)
      <3> HIDE DEF Moved
      <3> QED OBVIOUS
    <2>1. IsTableOf(f[m], 2 * n, Moved(m), data)
      <3> HIDE DEF Moved
      <3> QED BY <1>13
    <2> DEFINE cell == hashes[m]
    <2>2. f[m + 1] = IF Usable(cell) THEN f[m] ELSE Put(f[m], cell.hash, cell.index)
      <3>1. m + 1 \in 0 .. n /\ m + 1 # 0 /\ (m + 1) - 1 = m
        OBVIOUS
      <3> QED BY <1>10, <3>1
    <2>3. m \in 0 .. n - 1 /\ \A q : q \in 0 .. (m + 1) - 1 <=> q \in 0 .. m - 1 \/ q = m
      OBVIOUS
    <2>4. CASE Usable(cell)
      <3>1. Moved(m + 1) = Moved(m)
        BY <2>3, <2>4 DEF Taken
      <3> HIDE DEF Moved
      <3> QED BY <2>1, <2>2, <2>4, <3>1
    <2>5. CASE ~Usable(cell)
      <3>1. Taken(hashes, m)
        BY <2>5 DEF Taken
      <3>2. Moved(m + 1) = Moved(m) \cup {cell.index}
        BY <2>3, <3>1
      <3>3. cell.index \in R /\ cell.hash = hashOf[data[cell.index]] /\ cell.index \in Int
        BY <1>1, <2>3, <3>1 DEF IsTableOf
      <3>4. cell.index \notin Moved(m)
        <4> SUFFICES ASSUME NEW q \in 0 .. m - 1, Taken(hashes, q),
                            hashes[q].index = hashes[m].index
                     PROVE  FALSE
          OBVIOUS
        <4>1. q \in 0 .. n - 1 /\ q # m
          OBVIOUS
        <4> QED BY <2>3, <3>1, <4>1 DEF IsTableOf
      <3>5. Moved(m) \subseteq R
        BY <1>11
      <3> HIDE DEF Moved, cell
      <3>6. /\ Moved(m) \subseteq 0 .. 2 * n - 2
            /\ \A r \in Moved(m) : hashOf[data[r]] \in Nat
            /\ cell.index \in Int \ Moved(m) /\ cell.hash \in Nat \ {0}
        BY <3>3, <3>4, <3>5
      <3>7. IsTableOf(Put(f[m], cell.hash, cell.index), 2 * n, Moved(m) \cup {cell.index}, data)
        BY <1>1, <2>1, <3>3, <3>6, PutAddsSlot
      <3> QED BY <2>2, <2>5, <3>2, <3>7
    <2> QED BY <2>4, <2>5
  <1>14. IsTableOf(f[n], 2 * n, Moved(n), data)
    <2> HIDE DEF T
    <2>1. n \in T
      BY <1>12, <1>13, InductionBySet
    <2> HIDE DEF Moved
    <2> QED BY <2>1 DEF T
  <1>15. Moved(n) = R
    <2>0. Moved(n) \subseteq R
      <3>1. n \in 0 .. n
        OBVIOUS
      <3> HIDE DEF Moved
      <3> QED BY <1>11, <3>1
    <2> SUFFICES ASSUME NEW i \in R PROVE i \in Moved(n)
      BY <2>0
    <2>1. PICK k \in 1 .. n : LET p == At(hashOf[data[i]], k, n)
                              IN Taken(hashes, p) /\ hashes[p].index = i
      BY DEF IsTableOf
    <2>2. At(hashOf[data[i]], k, n) \in 0 .. n - 1
      BY AtType
    <2> QED BY <2>1, <2>2
  <1> HIDE DEF Moved
  <1> QED BY <1>9, <1>14, <1>15

--------------------------------------------------------------------------------
(* The free list *)

\* The links that FreeList follows are those of the free list.
LEMMA FreeListFollowsLinks ==
  ASSUME SharedAssumption, StoreType, NEW s, IsFreeList(s)
  PROVE  /\ FreeList = Append(s, InvalidIndex)
         /\ IsFiniteSet(Unused) /\ Len(s) = Cardinality(Unused)
  <1> DEFINE L == Len(s)
             full == Append(s, InvalidIndex)
             Step(g, n) == IF n = 0 THEN <<freeSlotIndex>>
                           ELSE IF Last(g[n - 1]) < 0 THEN g[n - 1]
                           ELSE Append(g[n - 1], version[Last(g[n - 1])])
             Upto(n) == [k \in 1 .. IF n <= L THEN n + 1 ELSE L + 1 |-> full[k]]
             g == [n \in 0 .. MaxCapacity |-> Upto(n)]
             f == CHOOSE r : r = [n \in 0 .. MaxCapacity |-> Step(r, n)]
  <1>1. /\ MaxCapacity \in Nat \ {0} /\ s \in Seq(Slot) /\ L \in Nat
        /\ \A k \in 1 .. L : s[k] \in Slot
    BY ElementOfSeq, LenProperties DEF SharedAssumption, IsFreeList
  <1>2. /\ full \in Seq(Int) /\ Len(full) = L + 1 /\ full[L + 1] = -1
        /\ \A k \in 1 .. L : full[k] = s[k]
    <2>1. s \in Seq(Int)
      BY <1>1, SeqMonotonic DEF Slot
    <2> QED BY <2>1, AppendProperties DEF InvalidIndex
  <1>3. IsFiniteSet(Unused) /\ Cardinality(Unused) = L /\ L <= MaxCapacity
    <2> DEFINE b == [k \in 1 .. L |-> s[k]]
    <2>1. b \in Bijection(1 .. L, Unused)
      BY DEF Bijection, Injection, Surjection, IsInjective, IsFreeList
    <2>2. IsFiniteSet(1 .. L) /\ Cardinality(1 .. L) = L
      <3>1. 1 \in Int /\ L \in Int /\ (1 > L => L = 0) /\ (L - 1) + 1 = L
        BY <1>1
      <3> QED BY <3>1, FS_Interval
    <2>3. ExistsBijection(1 .. L, Unused)
      BY <2>1 DEF ExistsBijection
    <2>4. IsFiniteSet(Unused) /\ Cardinality(Unused) = L
      BY <2>2, <2>3, FS_Bijection
    <2>5. Unused \in SUBSET (0 .. MaxCapacity - 1)
      BY <1>1 DEF Unused, StoreType
    <2>6. IsFiniteSet(0 .. MaxCapacity - 1) /\ Cardinality(0 .. MaxCapacity - 1) = MaxCapacity
      <3>1. /\ 0 \in Int /\ MaxCapacity - 1 \in Int /\ ~(0 > MaxCapacity - 1)
            /\ (MaxCapacity - 1) - 0 + 1 = MaxCapacity
        BY <1>1
      <3> QED BY <3>1, FS_Interval
    <2>7. Cardinality(Unused) <= MaxCapacity
      BY <2>5, <2>6, FS_Subset
    <2> QED BY <2>4, <2>7
  <1>4. /\ freeSlotIndex = full[1]
        /\ \A k \in 1 .. L : version[full[k]] = full[k + 1]
    <2>1. L = 0 <=> s = <<>>
      BY <1>1, EmptySeq
    <2>2. freeSlotIndex = full[1]
      <3>1. CASE s = <<>>
        BY <1>2, <2>1, <3>1 DEF IsFreeList, InvalidIndex
      <3>2. CASE s # <<>>
        BY <1>1, <1>2, <2>1, <3>2 DEF IsFreeList
      <3> QED BY <3>1, <3>2
    <2>3. ASSUME NEW k \in 1 .. L
          PROVE  version[full[k]] = full[k + 1]
      <3>1. version[s[k]] = IF k = L THEN InvalidIndex ELSE s[k + 1]
        BY DEF IsFreeList
      <3>2. k # L => k + 1 \in 1 .. L
        BY <1>1
      <3> HIDE DEF full
      <3> QED BY <1>1, <1>2, <3>1, <3>2 DEF InvalidIndex
    <2> QED BY <2>2, <2>3
  <1> HIDE DEF full, L
  <1>5. \A n \in Nat : /\ Upto(n) \in Seq(Int)
                       /\ Len(Upto(n)) = IF n <= L THEN n + 1 ELSE L + 1
                       /\ Last(Upto(n)) = full[IF n <= L THEN n + 1 ELSE L + 1]
    <2> SUFFICES ASSUME NEW n \in Nat
                 PROVE  /\ Upto(n) \in Seq(Int)
                        /\ Len(Upto(n)) = IF n <= L THEN n + 1 ELSE L + 1
                        /\ Last(Upto(n)) = full[IF n <= L THEN n + 1 ELSE L + 1]
      OBVIOUS
    <2>1. PICK m \in 1 .. L + 1 : m = IF n <= L THEN n + 1 ELSE L + 1
      BY <1>1
    <2>2. Upto(n) = [k \in 1 .. m |-> full[k]]
      BY <2>1
    <2>3. \A k \in 1 .. m : k \in 1 .. Len(full)
      BY <1>1, <1>2
    <2>4. \A k \in 1 .. m : full[k] \in Int
      BY <1>2, <2>3, ElementOfSeq
    <2>5. [k \in 1 .. m |-> full[k]] \in Seq(Int) /\ Len([k \in 1 .. m |-> full[k]]) = m
      BY <1>1, <2>4, SeqDef
    <2> HIDE DEF Upto
    <2> QED BY <1>1, <2>1, <2>2, <2>5 DEF Last
  <1>6. Upto(0) = <<freeSlotIndex>>
    <2>1. Upto(0) = [k \in 1 .. 1 |-> full[k]]
      BY <1>1
    <2> QED BY <1>4, <2>1
  <1>7. ASSUME NEW n \in Nat \ {0}
        PROVE  Upto(n) = IF Last(Upto(n - 1)) < 0 THEN Upto(n - 1)
                         ELSE Append(Upto(n - 1), version[Last(Upto(n - 1))])
    <2>0. n - 1 \in Nat /\ (n - 1) + 1 = n
      OBVIOUS
    <2>1. CASE n <= L
      <3>0. (IF n - 1 <= L THEN (n - 1) + 1 ELSE L + 1) = n
        BY <1>1, <2>1
      <3>1. /\ Last(Upto(n - 1)) = full[n] /\ Len(Upto(n - 1)) = n
            /\ Upto(n - 1) \in Seq(Int)
        <4> HIDE DEF Upto
        <4> QED BY <1>5, <2>0, <3>0
      <3>2. n \in 1 .. L
        BY <1>1, <2>1
      <3>3. full[n] = s[n] /\ s[n] \in Nat
        BY <1>1, <1>2, <3>2 DEF Slot
      <3>4. version[full[n]] = full[n + 1]
        BY <1>4, <3>2
      <3>5. Upto(n) = Append(Upto(n - 1), full[n + 1])
        <4>1. Upto(n - 1) = [k \in 1 .. n |-> full[k]] /\ Upto(n - 1) \in Seq(Int)
          BY <3>0, <3>1
        <4>2. Upto(n) = [k \in 1 .. n + 1 |-> full[k]]
          BY <2>1
        <4>3. full[n + 1] \in Int
          <5>1. n + 1 \in 1 .. Len(full)
            BY <1>1, <1>2, <3>2
          <5> QED BY <1>2, <5>1, ElementOfSeq
        <4> HIDE DEF Upto
        <4> DEFINE longer == Append(Upto(n - 1), full[n + 1])
        <4>4. /\ longer \in Seq(Int) /\ Len(longer) = n + 1 /\ longer[n + 1] = full[n + 1]
              /\ \A k \in 1 .. n : longer[k] = Upto(n - 1)[k]
          BY <3>1, <4>1, <4>3, AppendProperties
        <4> HIDE DEF longer
        <4>5. \A k \in 1 .. n + 1 : longer[k] = Upto(n)[k]
          <5>1. \A k \in 1 .. n + 1 : k # n + 1 => k \in 1 .. n
            OBVIOUS
          <5> QED BY <4>1, <4>2, <4>4, <5>1
        <4>6. Upto(n) \in Seq(Int) /\ Len(Upto(n)) = n + 1
          BY <1>5, <2>1
        <4>7. Upto(n) = longer
          BY <4>4, <4>5, <4>6, SeqEqual
        <4> QED BY <4>7 DEF longer
      <3> HIDE DEF Upto
      <3>6. ~(Last(Upto(n - 1)) < 0)
        BY <3>1, <3>3
      <3> QED BY <3>1, <3>4, <3>5, <3>6
    <2>2. CASE ~(n <= L)
      <3>1. Last(Upto(n - 1)) = full[L + 1] /\ full[L + 1] = -1
        <4>1. n - 1 <= L => (n - 1) + 1 = L + 1
          BY <1>1, <2>2
        <4> HIDE DEF Upto
        <4> QED BY <1>2, <1>5, <2>0, <4>1
      <3>2. Upto(n) = Upto(n - 1)
        <4>1. (IF n <= L THEN n + 1 ELSE L + 1) = L + 1
          BY <2>2
        <4>2. (IF n - 1 <= L THEN (n - 1) + 1 ELSE L + 1) = L + 1
          BY <1>1, <2>2
        <4> QED BY <4>1, <4>2
      <3> HIDE DEF Upto
      <3> QED BY <3>1, <3>2
    <2> QED BY <2>1, <2>2
  <1> HIDE DEF Upto
  <1>8. \A n \in 0 .. MaxCapacity : g[n] = Step(g, n)
    <2> SUFFICES ASSUME NEW n \in 0 .. MaxCapacity
                 PROVE  g[n] = Step(g, n)
      OBVIOUS
    <2>1. CASE n = 0
      BY <1>6, <2>1
    <2>2. CASE n # 0
      <3>1. n \in Nat \ {0} /\ n - 1 \in 0 .. MaxCapacity
        BY <1>1, <2>2
      <3>2. g[n] = Upto(n) /\ g[n - 1] = Upto(n - 1)
        BY <3>1
      <3> HIDE DEF g
      <3> QED BY <1>7, <2>2, <3>1, <3>2
    <2> QED BY <2>1, <2>2
  <1>9. g = [n \in 0 .. MaxCapacity |-> Step(g, n)]
    <2>1. g = [n \in 0 .. MaxCapacity |-> g[n]]
      OBVIOUS
    <2> HIDE DEF g, Step
    <2> QED BY <1>8, <2>1
  <1> HIDE DEF g
  <1>10. f = [n \in 0 .. MaxCapacity |-> Step(f, n)]
    <2> HIDE DEF Step
    <2> QED BY <1>9
  <1>11. FreeList = f[MaxCapacity]
    BY DEF FreeList
  <1> HIDE DEF f
  <1>12. \A n \in 0 .. MaxCapacity : f[n] = Step(f, n)
    <2> HIDE DEF Step
    <2> QED BY <1>10
  <1> DEFINE T == {n \in Nat : n <= MaxCapacity => f[n] = Upto(n)}
  <1>13. 0 \in T
    <2>1. 0 \in 0 .. MaxCapacity
      BY <1>1
    <2> QED BY <1>6, <1>12, <2>1
  <1>14. ASSUME NEW n \in Nat, n \in T
         PROVE  n + 1 \in T
    <2> SUFFICES ASSUME n + 1 <= MaxCapacity
                 PROVE  f[n + 1] = Upto(n + 1)
      OBVIOUS
    <2>1. n + 1 \in 0 .. MaxCapacity /\ n + 1 \in Nat \ {0} /\ (n + 1) - 1 = n
      BY <1>1
    <2>2. f[n] = Upto(n)
      BY <1>1, <1>14
    <2>3. f[n + 1] = Step(f, n + 1)
      BY <1>12, <2>1
    <2> HIDE DEF T
    <2> QED BY <1>7, <2>1, <2>2, <2>3
  <1>15. f[MaxCapacity] = Upto(MaxCapacity)
    <2>1. \A n \in Nat : n \in T
      <3> HIDE DEF T
      <3> QED BY <1>13, <1>14, InductionBySet
    <2> QED BY <1>1, <2>1
  <1>16. Upto(MaxCapacity) = full
    <2>1. Upto(MaxCapacity) = [k \in 1 .. L + 1 |-> full[k]]
      <3>1. (IF MaxCapacity <= L THEN MaxCapacity + 1 ELSE L + 1) = L + 1
        BY <1>1, <1>3
      <3> QED BY <3>1 DEF Upto
    <2>2. full = [k \in 1 .. Len(full) |-> full[k]]
      BY <1>2, SeqDef
    <2> QED BY <1>2, <2>1, <2>2
  <1> QED BY <1>3, <1>11, <1>15, <1>16 DEF full, L

\* Taking the first slot off the list.
LEMMA ListPop ==
  ASSUME StoreType, NEW s, IsFreeList(s), s # <<>>,
         freeSlotIndex' = version[freeSlotIndex],
         \A i \in Unused \ {freeSlotIndex} : version'[i] = version[i],
         Unused' = Unused \ {freeSlotIndex}
  PROVE  IsFreeList(Tail(s))'
  <1> DEFINE L == Len(s)
             t == Tail(s)
  <1>1. /\ s \in Seq(Slot) /\ L \in Nat \ {0} /\ freeSlotIndex = s[1]
        /\ \A k \in 1 .. L : version[s[k]] = IF k = L THEN InvalidIndex ELSE s[k + 1]
        /\ \A j, k \in 1 .. L : s[j] = s[k] => j = k
        /\ {s[k] : k \in 1 .. L} = Unused
    BY EmptySeq DEF IsFreeList
  <1>2. /\ t \in Seq(Slot) /\ Len(t) = L - 1
        /\ \A k \in 1 .. L - 1 : t[k] = s[k + 1]
    BY <1>1, HeadTailProperties
  <1> HIDE DEF t
  <1>3. t = <<>> <=> L = 1
    <2>1. Len(<<>>) = 0 /\ (t # <<>> => Len(t) # 0)
      BY <1>2, EmptySeq
    <2> QED BY <1>1, <1>2, <2>1
  <1>4. freeSlotIndex' = IF t = <<>> THEN InvalidIndex ELSE t[1]
    BY <1>1, <1>2, <1>3
  <1>5. ASSUME NEW k \in 1 .. Len(t)
        PROVE  version'[t[k]] = IF k = Len(t) THEN InvalidIndex ELSE t[k + 1]
    <2>1. k + 1 \in 1 .. L /\ k + 1 # 1 /\ t[k] = s[k + 1]
      BY <1>1, <1>2
    <2>2. s[k + 1] \in Unused /\ s[k + 1] # freeSlotIndex
      BY <1>1, <2>1
    <2>3. version'[t[k]] = IF k + 1 = L THEN InvalidIndex ELSE s[(k + 1) + 1]
      BY <1>1, <2>1, <2>2
    <2>4. k # Len(t) => k + 1 \in 1 .. L - 1
      BY <1>1, <1>2
    <2> QED BY <1>1, <1>2, <2>3, <2>4
  <1>6. \A j, k \in 1 .. Len(t) : t[j] = t[k] => j = k
    BY <1>1, <1>2
  <1>7. {t[k] : k \in 1 .. Len(t)} = Unused'
    <2>1. \A k \in 1 .. L - 1 : k + 1 \in 1 .. L /\ k + 1 # 1
      BY <1>1
    <2>2. \A k \in 1 .. L : k # 1 => k - 1 \in 1 .. L - 1 /\ (k - 1) + 1 = k
      BY <1>1
    <2>3. 1 \in 1 .. L
      BY <1>1
    <2>4. \A i \in Unused \ {freeSlotIndex} : \E k \in 1 .. L - 1 : t[k] = i
      <3> SUFFICES ASSUME NEW i \in Unused, i # s[1]
                   PROVE  \E j \in 1 .. L - 1 : t[j] = i
        BY <1>1
      <3>0. PICK k \in 1 .. L : s[k] = i
        BY <1>1
      <3>1. k - 1 \in 1 .. L - 1 /\ t[k - 1] = i
        BY <1>2, <2>2, <3>0
      <3> QED BY <3>1
    <2>5. \A k \in 1 .. L - 1 : t[k] \in Unused \ {freeSlotIndex}
      BY <1>1, <1>2, <2>1, <2>3
    <2> HIDE DEF L
    <2>6. \A i \in Unused' : \E k \in 1 .. Len(t) : t[k] = i
      BY <1>2, <2>4
    <2>7. \A k \in 1 .. Len(t) : t[k] \in Unused'
      BY <1>2, <2>5
    <2> QED BY <2>6, <2>7
  <1>8. IsFreeList(t)'
    BY <1>2, <1>4, <1>5, <1>6, <1>7 DEF IsFreeList
  <1> QED BY <1>8 DEF t

\* Putting a slot in front of the list.
LEMMA ListPush ==
  ASSUME StoreType, NEW s, IsFreeList(s), NEW i \in Slot \ Unused,
         freeSlotIndex' = i, version' = [version EXCEPT ![i] = freeSlotIndex],
         Unused' = Unused \cup {i}
  PROVE  IsFreeList(<<i>> \o s)'
  <1> DEFINE L == Len(s)
             t == <<i>> \o s
  <1>1. /\ s \in Seq(Slot) /\ L \in Nat
        /\ freeSlotIndex = IF s = <<>> THEN InvalidIndex ELSE s[1]
        /\ \A k \in 1 .. L : version[s[k]] = IF k = L THEN InvalidIndex ELSE s[k + 1]
        /\ \A j, k \in 1 .. L : s[j] = s[k] => j = k
        /\ {s[k] : k \in 1 .. L} = Unused
    BY LenProperties DEF IsFreeList
  <1>2. <<i>> \in Seq(Slot) /\ Len(<<i>>) = 1 /\ <<i>>[1] = i
    OBVIOUS
  <1>3. /\ t \in Seq(Slot) /\ Len(t) = L + 1 /\ t[1] = i
        /\ \A k \in 2 .. L + 1 : t[k] = s[k - 1]
    <2>1. /\ t \in Seq(Slot) /\ Len(t) = 1 + L
          /\ \A k \in 1 .. 1 + L : t[k] = IF k <= 1 THEN <<i>>[k] ELSE s[k - 1]
      <3> HIDE DEF t
      <3> QED BY <1>1, <1>2, ConcatProperties DEF t
    <2> HIDE DEF t
    <2> QED BY <1>1, <1>2, <2>1
  <1>4. s = <<>> <=> L = 0
    BY <1>1, EmptySeq
  <1>5. t # <<>>
    BY <1>1, <1>3, EmptySeq
  <1> HIDE DEF t, L
  <1>6. \A k \in 1 .. L : s[k] \in Unused
    BY <1>1
  <1>7. version \in [Slot -> Int]
    BY DEF StoreType
  <1>8. ASSUME NEW k \in 1 .. Len(t)
        PROVE  version'[t[k]] = IF k = Len(t) THEN InvalidIndex ELSE t[k + 1]
    <2>1. CASE k = 1
      <3>1. version'[i] = freeSlotIndex
        BY <1>7
      <3>2. CASE L = 0
        BY <1>1, <1>3, <1>4, <2>1, <3>1, <3>2
      <3>3. CASE L # 0
        <4>1. 2 \in 2 .. L + 1 /\ t[1 + 1] = s[1]
          BY <1>1, <1>3, <3>3
        <4> QED BY <1>1, <1>3, <1>4, <2>1, <3>1, <3>3, <4>1
      <3> QED BY <3>2, <3>3
    <2>2. CASE k # 1
      <3>1. k - 1 \in 1 .. L /\ t[k] = s[k - 1] /\ (k - 1) + 1 = k
        BY <1>1, <1>3, <2>2
      <3>2. s[k - 1] \in Unused /\ s[k - 1] # i
        BY <1>6, <3>1
      <3>3. version'[t[k]] = version[s[k - 1]]
        <4>1. s[k - 1] \in Slot
          BY <1>1, <3>1, ElementOfSeq DEF L
        <4> QED BY <1>7, <3>1, <3>2, <4>1
      <3>4. k # L + 1 => k + 1 \in 2 .. L + 1 /\ (k + 1) - 1 = k
        BY <1>1, <1>3, <2>2
      <3> QED BY <1>1, <1>3, <3>1, <3>3, <3>4
    <2> QED BY <2>1, <2>2
  <1>9. ASSUME NEW j \in 1 .. Len(t), NEW k \in 1 .. Len(t), t[j] = t[k]
        PROVE  j = k
    <2>1. \A m \in 1 .. Len(t) : m # 1 => m - 1 \in 1 .. L /\ t[m] = s[m - 1] /\ t[m] # i
      BY <1>1, <1>3, <1>6
    <2>2. CASE j = 1 \/ k = 1
      BY <1>3, <1>9, <2>1, <2>2
    <2>3. CASE j # 1 /\ k # 1
      <3>1. j - 1 = k - 1
        BY <1>1, <1>9, <2>1, <2>3
      <3> QED BY <3>1
    <2> QED BY <2>2, <2>3
  <1>10. {t[k] : k \in 1 .. Len(t)} = Unused'
    <2>1. \A k \in 1 .. L : k + 1 \in 2 .. L + 1 /\ k + 1 \in 1 .. Len(t) /\ t[k + 1] = s[k]
      BY <1>1, <1>3
    <2>2. 1 \in 1 .. Len(t)
      BY <1>1, <1>3
    <2>3. \A k \in 1 .. Len(t) : t[k] \in Unused'
      <3> SUFFICES ASSUME NEW k \in 1 .. Len(t), k # 1 PROVE t[k] \in Unused'
        BY <1>3
      <3>1. k - 1 \in 1 .. L /\ t[k] = s[k - 1]
        BY <1>1, <1>3
      <3> QED BY <1>6, <3>1
    <2>4. \A u \in Unused' : \E k \in 1 .. Len(t) : t[k] = u
      <3> SUFFICES ASSUME NEW u \in Unused PROVE \E k \in 1 .. Len(t) : t[k] = u
        BY <1>3, <2>2
      <3>1. PICK k \in 1 .. L : s[k] = u
        BY <1>1
      <3> QED BY <2>1, <3>1
    <2> QED BY <2>3, <2>4
  <1>11. freeSlotIndex' = IF t = <<>> THEN InvalidIndex ELSE t[1]
    BY <1>3, <1>5
  <1>12. IsFreeList(t)'
    BY <1>3, <1>8, <1>9, <1>10, <1>11 DEF IsFreeList
  <1> QED BY <1>12 DEF t

\* A step that leaves the free slots and their links alone.
LEMMA ListKept ==
  ASSUME ListInv, UNCHANGED freeSlotIndex, Unused' = Unused,
         \A i \in Unused : version'[i] = version[i]
  PROVE  ListInv'
  <1>1. PICK s : IsFreeList(s)
    BY DEF ListInv
  <1>2. IsFreeList(s)'
    BY <1>1 DEF IsFreeList
  <1> QED BY <1>2 DEF ListInv

\* A free slot is on the list, if there is one.
LEMMA FreeSlotIsUnused ==
  ASSUME ListInv, freeSlotIndex # InvalidIndex
  PROVE  freeSlotIndex \in Unused
  <1>1. PICK s : IsFreeList(s)
    BY DEF ListInv
  <1>2. s # <<>> /\ s \in Seq(Slot)
    BY <1>1 DEF IsFreeList
  <1>3. 1 \in 1 .. Len(s)
    BY <1>2, EmptySeq
  <1> QED BY <1>1, <1>2, <1>3 DEF IsFreeList

--------------------------------------------------------------------------------
(* The invariant holds *)

\* What the assumption on the constants says of their types.
LEMMA ConstantsType ==
  ASSUME SharedAssumption
  PROVE  /\ MaxCapacity \in Nat /\ InitialCapacity \in 2 .. MaxCapacity
         /\ Default \in Value /\ 0 \in Slot /\ MaxReferences \in Nat \ {0}
         /\ \A v \in Value : hashOf[v] \in Nat \ {0}
  BY DEF SharedAssumption, Slot

\* What the invariant says of the sizes.
LEMMA SizesOf ==
  ASSUME SharedAssumption, SharedInv
  PROVE  /\ capacity \in Nat \ {0} /\ count \in Nat \ {0}
         /\ Referenced \subseteq 0 .. capacity - 2
         /\ Referenced \subseteq Slot \ lost
         /\ \A i \in Slot : hashOf[data[i]] \in Nat \ {0}
         /\ \A i \in Slot : i \in Referenced <=> referenceCount[i] # 0
  <1>1. /\ capacity \in Nat \ {0} /\ count \in Nat \ {0}
        /\ data \in [Slot -> Value] /\ referenceCount \in [Slot -> 0 .. MaxReferences]
    BY ConstantsType DEF SharedInv, StoreType
  <1>2. Referenced \subseteq Slot \ lost
    BY DEF SharedInv, SlotsInv, Referenced
  <1>3. Referenced \subseteq 0 .. capacity - 2
    <2> SUFFICES ASSUME NEW i \in Referenced PROVE i \in 0 .. capacity - 2
      OBVIOUS
    <2>1. i \in 0 .. count - 1 /\ i \notin lost /\ i + 1 < capacity
      BY <1>2 DEF SharedInv, SlotsInv
    <2> QED BY <1>1, <2>1
  <1>4. \A i \in Slot : hashOf[data[i]] \in Nat \ {0}
    BY <1>1, ConstantsType
  <1>5. \A i \in Slot : i \in Referenced <=> referenceCount[i] # 0
    BY <1>1, ConstantsType DEF Referenced
  <1> QED BY <1>1, <1>2, <1>3, <1>4, <1>5

\* What both searches find of a value in use.
LEMMA InUseIsFound ==
  ASSUME SharedAssumption, SharedInv, NEW i \in Referenced
  PROVE  \E p \in 0 .. capacity - 1 :
           /\ TryFind(data[i]) = {p} /\ PlaceOf(i) = {p}
           /\ Taken(hashes, p) /\ hashes[p].index = i
  <1>1. /\ IsTableOf(hashes, capacity, Referenced, data)
        /\ \A j \in Referenced : data[j] = data[i] => j = i
    BY DEF SharedInv, HashInv, SlotsInv
  <1>2. capacity \in Nat \ {0} /\ hashOf[data[i]] \in Nat \ {0}
    BY SizesOf
  <1> QED BY <1>1, <1>2, SearchesFindSlot

\* What insert finds is in use and has the value; what it does not find nobody uses.
LEMMA FoundIsInUse ==
  ASSUME SharedAssumption, SharedInv, NEW v \in Value
  PROVE  /\ \A p \in TryFind(v) : hashes[p].index \in Referenced /\ data[hashes[p].index] = v
         /\ TryFind(v) = {} => \A i \in Referenced : data[i] # v
  <1>1. ASSUME NEW p \in TryFind(v)
        PROVE  hashes[p].index \in Referenced /\ data[hashes[p].index] = v
    BY SizesOf, ConstantsType, FoundHasValue DEF SharedInv, HashInv
  <1>2. ASSUME TryFind(v) = {}, NEW i \in Referenced, data[i] = v
        PROVE  FALSE
    <2>1. TryFind(data[i]) # {}
      BY InUseIsFound
    <2> QED BY <1>2, <2>1
  <1> QED BY <1>1, <1>2

\* The places where checkInternalConsistency's search for a code comes and finds it.
CodeHits(code, n) ==
  {k \in 1 .. n : hashes[At(code, k, n)].hash = code /\ Comes(hashes, n, code, k)}

LEMMA PlaceOfCodeHits ==
  ASSUME NEW n \in Nat \ {0}, DOMAIN hashes = 0 .. n - 1, NEW code
  PROVE  PlaceOfCode(code) = FirstAmong(CodeHits(code, n), code, n)
  <1> DEFINE N == Cardinality(DOMAIN hashes)
             K == {k \in DOMAIN Probe(code, N) :
                     /\ hashes[Probe(code, N)[k]].hash = code
                     /\ \A j \in 1 .. k - 1 : hashes[Probe(code, N)[j]] # Empty}
  <1>1. PlaceOfCode(code) =
          IF K = {} THEN {} ELSE {Probe(code, N)[CHOOSE k \in K : \A j \in K : k <= j]}
    BY DEF PlaceOfCode, FirstPlace
  <1>2. N = n
    BY FS_Interval
  <1>3. \A k \in 1 .. n : \A j \in 1 .. k - 1 : j \in 1 .. n
    OBVIOUS
  <1>4. /\ DOMAIN Probe(code, n) = 1 .. n
        /\ \A k \in 1 .. n : Probe(code, n)[k] = At(code, k, n)
    BY DEF Probe, At
  <1>5. K = CodeHits(code, n)
    <2> HIDE DEF N
    <2> QED BY <1>2, <1>3, <1>4 DEF Comes, CodeHits
  <1> HIDE DEF N, K
  <1>6. FirstAmong(K, code, n) = PlaceOfCode(code)
    BY <1>1, <1>2 DEF FirstAmong
  <1> QED BY <1>5, <1>6

\* Two values in use with one code have one search, which finds one of them at most.
LEMMA CheckNeedsCodes ==
  ASSUME SharedAssumption, SharedInv, checkInternalConsistency,
         NEW i \in Referenced, NEW j \in Referenced, hashOf[data[i]] = hashOf[data[j]]
  PROVE  i = j
  <1> DEFINE code == hashOf[data[i]]
  <1>1. PICK p \in PlaceOfCode(code) : hashes[p].index = i
    BY DEF checkInternalConsistency
  <1>2. PICK q \in PlaceOfCode(code) : hashes[q].index = j
    BY DEF checkInternalConsistency
  <1>3. capacity \in Nat \ {0} /\ DOMAIN hashes = 0 .. capacity - 1
    BY SizesOf DEF SharedInv, HashInv, IsTableOf
  <1>4. p = q
    <2>1. PlaceOfCode(code) = FirstAmong(CodeHits(code, capacity), code, capacity)
      BY <1>3, PlaceOfCodeHits
    <2> HIDE DEF code
    <2> QED BY <1>1, <1>2, <2>1 DEF FirstAmong
  <1> QED BY <1>1, <1>2, <1>4

\* Where no two values in use share a code, a place with the code has the slot.
LEMMA CodesSuffice ==
  ASSUME SharedAssumption, SharedInv,
         \A i, j \in Referenced : hashOf[data[i]] = hashOf[data[j]] => i = j
  PROVE  checkInternalConsistency
  <1> SUFFICES ASSUME NEW i \in Referenced
               PROVE  \E p \in PlaceOfCode(hashOf[data[i]]) : hashes[p].index = i
    BY DEF checkInternalConsistency
  <1> DEFINE n == capacity
             code == hashOf[data[i]]
             H == CodeHits(code, n)
  <1>1. n \in Nat \ {0} /\ code \in Nat \ {0} /\ IsTableOf(hashes, n, Referenced, data)
    BY SizesOf DEF SharedInv, HashInv
  <1>2. PICK k \in 1 .. n : /\ Taken(hashes, At(code, k, n))
                            /\ hashes[At(code, k, n)].index = i
                            /\ Comes(hashes, n, code, k)
    BY <1>1 DEF IsTableOf
  <1>3. \A j \in 1 .. n : At(code, j, n) \in 0 .. n - 1
    BY <1>1, AtType
  <1> HIDE DEF n, code
  <1>4. k \in H
    <2>1. hashes[At(code, k, n)].hash = hashOf[data[i]]
      BY <1>1, <1>2, <1>3 DEF IsTableOf
    <2> QED BY <1>2, <2>1 DEF CodeHits, code
  <1>5. \A j \in H : hashes[At(code, j, n)].index = i
    <2> SUFFICES ASSUME NEW j \in H PROVE hashes[At(code, j, n)].index = i
      OBVIOUS
    <2>1. PICK q \in 0 .. n - 1 : q = At(code, j, n) /\ hashes[q].hash = code
      BY <1>3 DEF CodeHits
    <2>2. Taken(hashes, q)
      BY <1>1, <2>1 DEF Taken, Usable, SkipCode
    <2>3. hashes[q].index \in Referenced /\ hashes[q].hash = hashOf[data[hashes[q].index]]
      BY <1>1, <2>2 DEF IsTableOf
    <2> QED BY <2>1, <2>3 DEF code
  <1>6. PICK j \in H : PlaceOfCode(code) = {At(code, j, n)}
    <2>1. PlaceOfCode(code) = FirstAmong(H, code, n)
      BY <1>1, PlaceOfCodeHits DEF IsTableOf
    <2>2. H \subseteq 1 .. n /\ H # {}
      BY <1>4 DEF CodeHits
    <2> HIDE DEF H
    <2> QED BY <1>1, <2>1, <2>2, FirstHit
  <1> QED BY <1>5, <1>6 DEF code

\* A table depends on the values of its own slots only.
LEMMA TableOfSameValues ==
  ASSUME NEW table, NEW n, NEW R, NEW val, IsTableOf(table, n, R, val),
         NEW other, \A i \in R : other[i] = val[i]
  PROVE  IsTableOf(table, n, R, other)
  BY DEF IsTableOf

\* initiate: one value, in slot 0.
LEMMA InitSharedInv ==
  ASSUME SharedAssumption, SharedStoreInit
  PROVE  SharedInv
  <1>1. /\ capacity = InitialCapacity /\ count = 1 /\ freeSlotIndex = InvalidIndex
        /\ referenceCount = [i \in Slot |-> IF i = 0 THEN 1 ELSE 0]
        /\ version = [i \in Slot |-> Stamp] /\ data = [i \in Slot |-> Default]
        /\ hashes = Put([p \in 0 .. InitialCapacity - 1 |-> Empty], hashOf[Default], 0)
        /\ held = [i \in Slot |-> [v \in Value |-> 0]] /\ lost = {} /\ refused = {}
    BY DEF SharedStoreInit
  <1>2. Referenced = {0}
    BY <1>1, ConstantsType DEF Referenced
  <1>3. StoreType
    BY <1>1, ConstantsType DEF StoreType, Stamp
  <1>4. SlotsInv
    BY <1>1, <1>2, ConstantsType DEF SlotsInv
  <1>5. HashInv
    <2> DEFINE empty == [p \in 0 .. InitialCapacity - 1 |-> Empty]
    <2>1. InitialCapacity \in Nat \ {0} /\ data[0] = Default /\ hashOf[Default] \in Nat \ {0}
      BY <1>1, ConstantsType
    <2>2. IsTableOf(empty, InitialCapacity, {}, data)
      BY <2>1, EmptyTable
    <2> HIDE DEF empty
    <2>3. IsTableOf(Put(empty, hashOf[Default], 0), InitialCapacity, {} \cup {0}, data)
      BY <2>1, <2>2, PutAddsSlot
    <2> QED BY <1>1, <1>2, <2>3 DEF HashInv, empty
  <1>6. ListInv
    <2>1. Unused = {}
      BY <1>1, ConstantsType DEF Unused
    <2>2. <<>> \in Seq(Slot) /\ Len(<<>>) = 0
      BY EmptySeq
    <2>3. IsFreeList(<<>>)
      BY <1>1, <2>1, <2>2 DEF IsFreeList
    <2> QED BY <2>3 DEF ListInv
  <1>7. ReferencesExact /\ OnlyLostRefused
    BY <1>1, ConstantsType DEF ReferencesExact, OnlyLostRefused
  <1> QED BY <1>3, <1>4, <1>5, <1>6, <1>7 DEF SharedInv

\* A step that changes the count of a slot in use, and its references with it.
LEMMA CountKeepsInv ==
  ASSUME SharedAssumption, SharedInv, NEW i \in Referenced, NEW n \in 1 .. MaxReferences,
         referenceCount' = [referenceCount EXCEPT ![i] = n],
         NEW m \in Int, n = referenceCount[i] + m,
         held' = [held EXCEPT ![i][data[i]] = @ + m],
         UNCHANGED <<capacity, count, freeSlotIndex, version, data, hashes, lost, refused>>
  PROVE  SharedInv'
  <1>1. /\ capacity' = capacity /\ count' = count /\ freeSlotIndex' = freeSlotIndex
        /\ version' = version /\ data' = data /\ hashes' = hashes /\ lost' = lost
        /\ refused' = refused
    OBVIOUS
  <1>2. /\ i \in Slot \ lost /\ i \in 0 .. count - 1 /\ data[i] \in Value
        /\ referenceCount \in [Slot -> 0 .. MaxReferences]
        /\ held \in [Slot -> [Value -> Int]]
    BY SizesOf DEF SharedInv, StoreType, SlotsInv
  <1>3. Referenced' = Referenced
    <2>1. \A j \in Slot : referenceCount'[j] = IF j = i THEN n ELSE referenceCount[j]
      BY <1>2
    <2>2. referenceCount[i] > 0 /\ n > 0 /\ Slot' = Slot
      BY DEF Referenced, Slot
    <2> QED BY <2>1, <2>2 DEF Referenced
  <1>4. StoreType'
    <2>1. referenceCount' \in [Slot -> 0 .. MaxReferences]
      BY <1>2
    <2>2. held' \in [Slot -> [Value -> Int]]
      BY <1>2
    <2> QED BY <1>1, <2>1, <2>2 DEF StoreType, SharedInv, Slot
  <1>5. SlotsInv'
    BY <1>1, <1>3 DEF SharedInv, SlotsInv
  <1>6. HashInv'
    BY <1>1, <1>3 DEF SharedInv, HashInv, IsTableOf, Taken, Usable, Comes
  <1>7. ListInv'
    <2>1. Unused' = Unused
      <3>1. \A j \in 0 .. count - 1 : j \in Slot /\ (referenceCount'[j] = 0 <=> referenceCount[j] = 0)
        <4>1. \A j \in 0 .. count - 1 : j \in Slot
          BY ConstantsType DEF SharedInv, StoreType, Slot
        <4> QED BY <1>2, <4>1, SizesOf
      <3> QED BY <1>1, <3>1 DEF Unused
    <2> QED BY <1>1, <2>1, ListKept DEF SharedInv
  <1>8. ReferencesExact'
    <2> SUFFICES ASSUME NEW j \in Slot \ (lost \cup {0}), NEW w \in Value
                 PROVE  held'[j][w] = IF w = data[j] THEN referenceCount'[j] ELSE 0
      BY <1>1 DEF ReferencesExact, Slot
    <2>1. held[j][w] = IF w = data[j] THEN referenceCount[j] ELSE 0
      BY DEF SharedInv, ReferencesExact
    <2>2. held'[j][w] = IF j = i /\ w = data[i] THEN held[j][w] + m ELSE held[j][w]
      BY <1>2
    <2>3. referenceCount'[j] = IF j = i THEN n ELSE referenceCount[j]
      BY <1>2
    <2> QED BY <2>1, <2>2, <2>3
  <1>9. OnlyLostRefused'
    BY <1>1 DEF SharedInv, OnlyLostRefused
  <1> QED BY <1>4, <1>5, <1>6, <1>7, <1>8, <1>9 DEF SharedInv

\* The last steps of an insert: the table has a place for the value, and the caller gets
\* its first reference.
LEMMA RecordKeeps ==
  ASSUME SharedAssumption, SharedInv, NEW v \in Value, TryFind(v) = {},
         NEW i \in Slot \ (Referenced \cup lost), i + 1 < capacity, Record(v, i)
  PROVE  /\ Referenced' = Referenced \cup {i}
         /\ referenceCount' = [referenceCount EXCEPT ![i] = 1]
         /\ data' = [data EXCEPT ![i] = v] /\ version' = [version EXCEPT ![i] = Stamp]
         /\ UNCHANGED <<capacity, lost, refused>>
         /\ referenceCount' \in [Slot -> 0 .. MaxReferences] /\ version' \in [Slot -> Int]
         /\ data' \in [Slot -> Value] /\ held' \in [Slot -> [Value -> Int]]
         /\ \A j, k \in Referenced' : data'[j] = data'[k] => j = k
         /\ HashInv' /\ ReferencesExact' /\ OnlyLostRefused'
  <1>1. /\ referenceCount' = [referenceCount EXCEPT ![i] = 1]
        /\ version' = [version EXCEPT ![i] = Stamp]
        /\ data' = [data EXCEPT ![i] = v]
        /\ hashes' = Put(hashes, hashOf[v], i)
        /\ PlaceFor(hashes, hashOf[v]) # {} =>
             held' = [held EXCEPT ![i][v] = @ + 1] /\ refused' = refused
        /\ capacity' = capacity /\ lost' = lost
    BY DEF Record
  <1>2. /\ referenceCount \in [Slot -> 0 .. MaxReferences] /\ version \in [Slot -> Int]
        /\ data \in [Slot -> Value] /\ held \in [Slot -> [Value -> Int]]
    BY DEF SharedInv, StoreType
  <1>3. IsTableOf(hashes, capacity, Referenced, data)
    BY DEF SharedInv, HashInv
  <1>4. /\ capacity \in Nat \ {0} /\ Referenced \subseteq 0 .. capacity - 2
        /\ hashOf[v] \in Nat \ {0} /\ Referenced \subseteq Slot
        /\ \A j \in Slot : hashOf[data[j]] \in Nat \ {0}
    BY SizesOf, ConstantsType
  <1>5. held' = [held EXCEPT ![i][v] = @ + 1] /\ refused' = refused
    <2>1. hashOf[v] \in Nat
      BY <1>4
    <2>2. \E k \in 1 .. capacity :
            PlaceFor(hashes, hashOf[v]) = {At(hashOf[v], k, capacity)}
      BY <1>3, <1>4, <2>1, PlaceForExists
    <2> QED BY <1>1, <2>2
  <1>6. Referenced' = Referenced \cup {i}
    <2>1. \A j \in Slot : referenceCount'[j] = IF j = i THEN 1 ELSE referenceCount[j]
      BY <1>1, <1>2
    <2>2. Slot' = Slot
      BY DEF Slot
    <2> QED BY <2>1, <2>2 DEF Referenced
  <1>7. /\ referenceCount' \in [Slot -> 0 .. MaxReferences] /\ version' \in [Slot -> Int]
        /\ data' \in [Slot -> Value] /\ held' \in [Slot -> [Value -> Int]]
    <2>1. 1 \in 0 .. MaxReferences /\ Stamp \in Int
      BY ConstantsType DEF Stamp
    <2>2. held' \in [Slot -> [Value -> Int]]
      BY <1>2, <1>5
    <2> QED BY <1>1, <1>2, <2>1, <2>2
  <1>8. \A j \in Slot : data'[j] = IF j = i THEN v ELSE data[j]
    BY <1>1, <1>2
  <1>9. \A j \in Referenced : data'[j] = data[j] /\ data[j] # v /\ j # i
    BY <1>4, <1>8, FoundIsInUse
  <1>10. \A j, k \in Referenced' : data'[j] = data'[k] => j = k
    BY <1>6, <1>8, <1>9 DEF SharedInv, SlotsInv
  <1>11. HashInv'
    <2>1. IsTableOf(hashes, capacity, Referenced, data')
      BY <1>3, <1>9, TableOfSameValues
    <2>2. /\ hashOf[data'[i]] = hashOf[v] /\ i \in Int \ Referenced
          /\ \A j \in Referenced : hashOf[data'[j]] \in Nat
      <3>1. i \in Int
        BY DEF Slot
      <3>2. \A j \in Referenced : j \in Slot /\ data'[j] = data[j]
        BY <1>4, <1>9
      <3>3. data'[i] = v
        BY <1>8
      <3> QED BY <1>4, <3>1, <3>2, <3>3
    <2>3. IsTableOf(Put(hashes, hashOf[v], i), capacity, Referenced \cup {i}, data')
      BY <1>4, <2>1, <2>2, PutAddsSlot
    <2>4. IsTableOf(hashes', capacity', Referenced', data')
      BY <1>1, <1>6, <2>3
    <2> QED BY <2>4 DEF HashInv, IsTableOf, Taken, Usable, Comes
  <1>12. ReferencesExact'
    <2> SUFFICES ASSUME NEW j \in Slot \ (lost \cup {0}), NEW w \in Value
                 PROVE  held'[j][w] = IF w = data'[j] THEN referenceCount'[j] ELSE 0
      BY <1>1 DEF ReferencesExact, Slot
    <2>1. held[j][w] = IF w = data[j] THEN referenceCount[j] ELSE 0
      BY DEF SharedInv, ReferencesExact
    <2>2. held'[j][w] = IF j = i /\ w = v THEN held[j][w] + 1 ELSE held[j][w]
      BY <1>2, <1>5
    <2>3. referenceCount'[j] = IF j = i THEN 1 ELSE referenceCount[j]
      BY <1>1, <1>2
    <2>4. referenceCount[i] = 0
      BY SizesOf
    <2> QED BY <1>8, <2>1, <2>2, <2>3, <2>4
  <1>13. OnlyLostRefused'
    BY <1>1, <1>5 DEF SharedInv, OnlyLostRefused
  <1> QED BY <1>1, <1>5, <1>6, <1>7, <1>10, <1>11, <1>12, <1>13

\* insert of a value the table has.
LEMMA InsertFoundKeepsInv ==
  ASSUME SharedAssumption, SharedInv, NEW v \in Value, InsertFound(v)
  PROVE  SharedInv'
  <1>1. PICK p \in TryFind(v) :
          LET i == hashes[p].index IN
            /\ referenceCount[i] < MaxReferences
            /\ referenceCount' = [referenceCount EXCEPT ![i] = @ + 1]
            /\ held' = [held EXCEPT ![i][v] = @ + 1]
            /\ UNCHANGED <<capacity, count, freeSlotIndex, version, data, hashes, lost, refused>>
    BY DEF InsertFound
  <1>2. PICK i \in Referenced : i = hashes[p].index /\ data[i] = v
    BY FoundIsInUse
  <1>3. referenceCount[i] + 1 \in 1 .. MaxReferences
    <2>1. referenceCount[i] \in 0 .. MaxReferences
      BY DEF SharedInv, StoreType, Referenced
    <2> QED BY <1>1, <1>2, <2>1, ConstantsType
  <1>4. /\ referenceCount' = [referenceCount EXCEPT ![i] = referenceCount[i] + 1]
        /\ held' = [held EXCEPT ![i][data[i]] = @ + 1]
        /\ UNCHANGED <<capacity, count, freeSlotIndex, version, data, hashes, lost, refused>>
    BY <1>1, <1>2
  <1>5. 1 \in Int
    OBVIOUS
  <1> QED BY <1>3, <1>4, <1>5, CountKeepsInv

\* insert into a slot of the free list.
LEMMA InsertFreeKeepsInv ==
  ASSUME SharedAssumption, SharedInv, NEW v \in Value, InsertFree(v)
  PROVE  SharedInv'
  <1>1. PICK i : i = freeSlotIndex
    OBVIOUS
  <1>2. /\ TryFind(v) = {} /\ i # InvalidIndex /\ Record(v, i)
        /\ freeSlotIndex' = version[i] /\ count' = count
    BY <1>1 DEF InsertFree
  <1>3. i \in Unused
    BY <1>1, <1>2, FreeSlotIsUnused DEF SharedInv
  <1>4. i \in 0 .. count - 1 /\ i \in Slot \ (Referenced \cup lost) /\ i + 1 < capacity
    <2>1. i \in 0 .. count - 1 /\ i \notin lost /\ referenceCount[i] = 0
      BY <1>3 DEF Unused
    <2>2. i \in Slot
      BY <2>1, ConstantsType DEF SharedInv, StoreType, Slot
    <2> QED BY <2>1, <2>2, SizesOf DEF SharedInv, SlotsInv
  <1>5. /\ Referenced' = Referenced \cup {i}
        /\ referenceCount' = [referenceCount EXCEPT ![i] = 1]
        /\ version' = [version EXCEPT ![i] = Stamp]
        /\ capacity' = capacity /\ lost' = lost
        /\ referenceCount' \in [Slot -> 0 .. MaxReferences] /\ version' \in [Slot -> Int]
        /\ data' \in [Slot -> Value] /\ held' \in [Slot -> [Value -> Int]]
        /\ \A j, k \in Referenced' : data'[j] = data'[k] => j = k
        /\ HashInv' /\ ReferencesExact' /\ OnlyLostRefused'
    BY <1>2, <1>4, RecordKeeps
  <1>6. StoreType'
    BY <1>2, <1>5 DEF StoreType, SharedInv, Slot
  <1>7. SlotsInv'
    <2>1. Referenced \subseteq 0 .. count - 1 /\ 0 \in Referenced /\ lost \cap Referenced = {}
      BY DEF SharedInv, SlotsInv
    <2>2. \A j \in 0 .. count - 1 : j \notin lost => j + 1 < capacity
      BY DEF SharedInv, SlotsInv
    <2> QED BY <1>2, <1>4, <1>5, <2>1, <2>2 DEF SlotsInv
  <1>8. ListInv'
    <2>1. PICK s : IsFreeList(s)
      BY DEF SharedInv, ListInv
    <2>2. s # <<>>
      BY <1>1, <1>2, <2>1 DEF IsFreeList
    <2>3. \A j \in Slot : /\ referenceCount'[j] = IF j = i THEN 1 ELSE referenceCount[j]
                          /\ version'[j] = IF j = i THEN Stamp ELSE version[j]
      BY <1>4, <1>5 DEF SharedInv, StoreType
    <2>4. \A j \in 0 .. count - 1 : j \in Slot
      BY ConstantsType DEF SharedInv, StoreType, Slot
    <2>5. Unused' = Unused \ {i}
      BY <1>2, <1>5, <2>3, <2>4 DEF Unused
    <2>6. \A j \in Unused \ {freeSlotIndex} : version'[j] = version[j]
      BY <1>1, <2>3, <2>4 DEF Unused
    <2>7. IsFreeList(Tail(s))'
      BY <1>1, <1>2, <2>1, <2>2, <2>5, <2>6, ListPop DEF SharedInv
    <2>8. PICK t : t = Tail(s)
      OBVIOUS
    <2>9. IsFreeList(t)'
      BY <2>7, <2>8
    <2> QED BY <2>9 DEF ListInv
  <1> QED BY <1>5, <1>6, <1>7, <1>8 DEF SharedInv

\* insert into the first slot that was never used.
LEMMA InsertNewKeepsInv ==
  ASSUME SharedAssumption, SharedInv, NEW v \in Value, InsertNew(v)
  PROVE  SharedInv'
  <1>1. PICK i : i = count
    OBVIOUS
  <1>2. /\ TryFind(v) = {} /\ i + 1 < capacity /\ Record(v, i)
        /\ freeSlotIndex' = freeSlotIndex /\ count' = count + 1
    BY <1>1 DEF InsertNew
  <1>3. /\ count \in 1 .. MaxCapacity /\ capacity \in 2 .. MaxCapacity /\ lost \subseteq 1 .. count - 1
        /\ referenceCount \in [Slot -> 0 .. MaxReferences] /\ version \in [Slot -> Int]
    BY DEF SharedInv, StoreType
  <1>4. i \in Slot \ (Referenced \cup lost) /\ i + 1 < capacity
    <2>1. i \in Slot /\ i \notin lost
      BY <1>1, <1>2, <1>3, ConstantsType DEF Slot
    <2>2. i \notin Referenced
      BY <1>1, <1>3 DEF SharedInv, SlotsInv
    <2> QED BY <1>2, <2>1, <2>2
  <1>5. /\ Referenced' = Referenced \cup {i}
        /\ referenceCount' = [referenceCount EXCEPT ![i] = 1]
        /\ version' = [version EXCEPT ![i] = Stamp]
        /\ capacity' = capacity /\ lost' = lost
        /\ referenceCount' \in [Slot -> 0 .. MaxReferences] /\ version' \in [Slot -> Int]
        /\ data' \in [Slot -> Value] /\ held' \in [Slot -> [Value -> Int]]
        /\ \A j, k \in Referenced' : data'[j] = data'[k] => j = k
        /\ HashInv' /\ ReferencesExact' /\ OnlyLostRefused'
    BY <1>2, <1>4, RecordKeeps
  <1>6. StoreType'
    <2>1. count' \in 1 .. MaxCapacity /\ lost' \subseteq 1 .. count' - 1
      BY <1>1, <1>2, <1>3, <1>5, ConstantsType
    <2> QED BY <1>5, <2>1 DEF StoreType, SharedInv, Slot
  <1>7. SlotsInv'
    <2>1. Referenced \subseteq 0 .. count - 1 /\ 0 \in Referenced /\ lost \cap Referenced = {}
      BY DEF SharedInv, SlotsInv
    <2>2. \A j \in 0 .. count - 1 : j \notin lost => j + 1 < capacity
      BY DEF SharedInv, SlotsInv
    <2>3. \A j : j \in 0 .. count' - 1 <=> j \in 0 .. count - 1 \/ j = i
      BY <1>1, <1>2, <1>3
    <2>4. Referenced' \subseteq 0 .. count' - 1 /\ 0 \in Referenced' /\ lost' \cap Referenced' = {}
      <3>1. 0 .. count - 1 \subseteq 0 .. count' - 1 /\ i \in 0 .. count' - 1
        BY <1>1, <1>2, <1>3
      <3> QED BY <1>4, <1>5, <2>1, <3>1
    <2>5. \A j \in 0 .. count' - 1 : j \notin lost' => j + 1 < capacity'
      BY <1>4, <1>5, <2>2, <2>3
    <2> QED BY <1>5, <2>4, <2>5 DEF SlotsInv
  <1>8. ListInv'
    <2>1. \A j \in Slot : /\ referenceCount'[j] = IF j = i THEN 1 ELSE referenceCount[j]
                          /\ version'[j] = IF j = i THEN Stamp ELSE version[j]
      BY <1>3, <1>4, <1>5
    <2>2. \A j \in 0 .. count - 1 : j \in Slot /\ j # i
      BY <1>1, <1>3, ConstantsType DEF Slot
    <2>3. \A j : j \in 0 .. count' - 1 <=> j \in 0 .. count - 1 \/ j = i
      BY <1>1, <1>2, <1>3
    <2>4. Unused' = Unused
      BY <1>4, <1>5, <2>1, <2>2, <2>3 DEF Unused
    <2>5. \A j \in Unused : version'[j] = version[j]
      BY <2>1, <2>2 DEF Unused
    <2> QED BY <1>2, <2>4, <2>5, ListKept DEF SharedInv
  <1> QED BY <1>5, <1>6, <1>7, <1>8 DEF SharedInv

\* insert into the last slot: the table doubles, and the slot is lost.
LEMMA InsertResizeKeepsInv ==
  ASSUME SharedAssumption, SharedInv, NEW v \in Value, InsertResize(v)
  PROVE  SharedInv'
  <1>1. /\ count + 1 = capacity /\ 2 * capacity <= MaxCapacity
        /\ count' = count + 1 /\ capacity' = 2 * capacity /\ hashes' = Rehashed
        /\ held' = [held EXCEPT ![count][v] = @ + 1] /\ lost' = lost \cup {count}
        /\ freeSlotIndex' = freeSlotIndex /\ referenceCount' = referenceCount
        /\ version' = version /\ data' = data /\ refused' = refused
    BY DEF InsertResize
  <1>2. /\ count \in 1 .. MaxCapacity /\ capacity \in 2 .. MaxCapacity /\ lost \subseteq 1 .. count - 1
        /\ held \in [Slot -> [Value -> Int]]
    BY DEF SharedInv, StoreType
  <1>3. Referenced' = Referenced
    BY <1>1 DEF Referenced, Slot
  <1>4. /\ Referenced \subseteq 0 .. count - 1 /\ 0 \in Referenced /\ lost \cap Referenced = {}
        /\ \A j \in 0 .. count - 1 : j \notin lost => j + 1 < capacity
    BY DEF SharedInv, SlotsInv
  <1>5. StoreType'
    <2>1. count' \in 1 .. MaxCapacity /\ capacity' \in 2 .. MaxCapacity /\ lost' \subseteq 1 .. count' - 1
      BY <1>1, <1>2, ConstantsType
    <2>2. held' \in [Slot -> [Value -> Int]]
      <3>1. count \in Slot /\ \A w \in Value : held[count][w] + 1 \in Int
        BY <1>1, <1>2, ConstantsType DEF Slot
      <3> QED BY <1>1, <1>2, <3>1
    <2> QED BY <1>1, <2>1, <2>2 DEF StoreType, SharedInv, Slot
  <1>6. SlotsInv'
    <2>1. /\ 0 .. count - 1 \subseteq 0 .. count' - 1 /\ count \notin Referenced
          /\ \A j \in 0 .. count' - 1 : j = count \/ (j \in 0 .. count - 1 /\ j + 1 < capacity')
      BY <1>1, <1>2, <1>4
    <2>2. Referenced' \subseteq 0 .. count' - 1 /\ 0 \in Referenced' /\ lost' \cap Referenced' = {}
      BY <1>1, <1>3, <1>4, <2>1
    <2>3. \A j \in 0 .. count' - 1 : j \notin lost' => j + 1 < capacity'
      BY <1>1, <2>1
    <2> QED BY <1>1, <1>3, <2>2, <2>3 DEF SharedInv, SlotsInv
  <1>7. HashInv'
    <2>1. /\ capacity \in Nat \ {0} /\ IsTableOf(hashes, capacity, Referenced, data)
          /\ \A i \in Referenced : hashOf[data[i]] \in Nat \ {0}
      BY SizesOf DEF SharedInv, HashInv, Referenced
    <2>2. Referenced \subseteq 0 .. 2 * capacity - 2
      BY <1>1, <1>2, <1>4
    <2>3. IsTableOf(Rehashed, 2 * capacity, Referenced, data)
      BY <2>1, <2>2, RehashKeepsTable
    <2>4. IsTableOf(hashes', capacity', Referenced', data')
      BY <1>1, <1>3, <2>3
    <2> QED BY <2>4 DEF HashInv, IsTableOf, Taken, Usable, Comes
  <1>8. ListInv'
    <2>1. \A j \in 0 .. count' - 1 : j = count \/ j \in 0 .. count - 1
      BY <1>1, <1>2
    <2>2. 0 .. count - 1 \subseteq 0 .. count' - 1 /\ count \notin 0 .. count - 1
      BY <1>1, <1>2
    <2>3. Unused' = Unused
      BY <1>1, <2>1, <2>2 DEF Unused
    <2> QED BY <1>1, <2>3, ListKept DEF SharedInv
  <1>9. ReferencesExact'
    <2>1. \A j \in Slot : j # count => held'[j] = held[j]
      BY <1>1, <1>2
    <2> QED BY <1>1, <2>1 DEF SharedInv, ReferencesExact, Slot
  <1>10. OnlyLostRefused'
    BY <1>1 DEF SharedInv, OnlyLostRefused
  <1> QED BY <1>5, <1>6, <1>7, <1>8, <1>9, <1>10 DEF SharedInv

\* insert when every index is used up: a slot is lost.
LEMMA InsertThrowsKeepsInv ==
  ASSUME SharedAssumption, SharedInv, NEW v \in Value, InsertThrows(v)
  PROVE  SharedInv'
  <1>1. /\ count < MaxCapacity /\ count' = count + 1 /\ lost' = lost \cup {count}
        /\ capacity' = capacity /\ hashes' = hashes /\ held' = held
        /\ freeSlotIndex' = freeSlotIndex /\ referenceCount' = referenceCount
        /\ version' = version /\ data' = data /\ refused' = refused
    BY DEF InsertThrows
  <1>2. count \in 1 .. MaxCapacity /\ lost \subseteq 1 .. count - 1
    BY DEF SharedInv, StoreType
  <1>3. Referenced' = Referenced
    BY <1>1 DEF Referenced, Slot
  <1>4. /\ Referenced \subseteq 0 .. count - 1 /\ 0 \in Referenced /\ lost \cap Referenced = {}
        /\ \A j \in 0 .. count - 1 : j \notin lost => j + 1 < capacity
    BY DEF SharedInv, SlotsInv
  <1>5. StoreType'
    <2>1. count' \in 1 .. MaxCapacity /\ lost' \subseteq 1 .. count' - 1
      BY <1>1, <1>2, ConstantsType
    <2> QED BY <1>1, <2>1 DEF StoreType, SharedInv, Slot
  <1>6. /\ \A j \in 0 .. count' - 1 : j = count \/ j \in 0 .. count - 1
        /\ 0 .. count - 1 \subseteq 0 .. count' - 1 /\ count \notin 0 .. count - 1
    BY <1>1, <1>2
  <1>7. SlotsInv'
    <2>1. Referenced' \subseteq 0 .. count' - 1 /\ 0 \in Referenced' /\ lost' \cap Referenced' = {}
      BY <1>1, <1>3, <1>4, <1>6
    <2>2. \A j \in 0 .. count' - 1 : j \notin lost' => j + 1 < capacity'
      BY <1>1, <1>4, <1>6
    <2> QED BY <1>1, <1>3, <2>1, <2>2 DEF SharedInv, SlotsInv
  <1>8. HashInv'
    BY <1>1, <1>3 DEF SharedInv, HashInv, IsTableOf, Taken, Usable, Comes
  <1>9. ListInv'
    <2>1. Unused' = Unused
      BY <1>1, <1>6 DEF Unused
    <2> QED BY <1>1, <2>1, ListKept DEF SharedInv
  <1>10. ReferencesExact' /\ OnlyLostRefused'
    BY <1>1 DEF SharedInv, ReferencesExact, OnlyLostRefused, Slot
  <1> QED BY <1>5, <1>7, <1>8, <1>9, <1>10 DEF SharedInv

\* A call is refused for a lost slot only.
LEMMA RefuseKeepsInv ==
  ASSUME SharedInv, NEW i \in lost, Refuse(i)
  PROVE  SharedInv'
  <1>1. /\ refused' = refused \cup {i}
        /\ capacity' = capacity /\ count' = count /\ freeSlotIndex' = freeSlotIndex
        /\ referenceCount' = referenceCount /\ version' = version /\ data' = data
        /\ hashes' = hashes /\ held' = held /\ lost' = lost
    BY DEF Refuse
  <1>2. Referenced' = Referenced
    BY <1>1 DEF Referenced, Slot
  <1>3. StoreType' /\ SlotsInv'
    BY <1>1, <1>2 DEF SharedInv, StoreType, SlotsInv, Slot
  <1>4. HashInv'
    BY <1>1, <1>2 DEF SharedInv, HashInv, IsTableOf, Taken, Usable, Comes
  <1>5. ListInv'
    <2>1. Unused' = Unused
      BY <1>1 DEF Unused
    <2> QED BY <1>1, <2>1, ListKept DEF SharedInv
  <1>6. ReferencesExact' /\ OnlyLostRefused'
    BY <1>1 DEF SharedInv, ReferencesExact, OnlyLostRefused, Slot
  <1> QED BY <1>3, <1>4, <1>5, <1>6 DEF SharedInv

\* A caller that holds an index which was not lost holds all its references, for its value.
LEMMA HolderIsRight ==
  ASSUME SharedAssumption, SharedInv, NEW i \in Slot \ {0}, NEW v \in Value, held[i][v] > 0,
         i \notin lost
  PROVE  /\ i \in Referenced /\ i < count /\ data[i] = v
         /\ referenceCount[i] = held[i][v] /\ referenceCount[i] \in 1 .. MaxReferences
  <1>1. held[i][v] = IF v = data[i] THEN referenceCount[i] ELSE 0
    BY DEF SharedInv, ReferencesExact
  <1>2. data[i] = v /\ referenceCount[i] = held[i][v]
    BY <1>1
  <1>3. referenceCount[i] \in 1 .. MaxReferences /\ i \in Referenced
    BY <1>2, ConstantsType DEF SharedInv, StoreType, Referenced
  <1>4. i < count
    BY <1>3 DEF SharedInv, StoreType, SlotsInv
  <1> QED BY <1>2, <1>3, <1>4

\* A lost slot has no count.
LEMMA LostIsNotCounted ==
  ASSUME SharedAssumption, SharedInv, NEW i \in lost
  PROVE  referenceCount[i] = 0
  <1>1. i \in Slot
    BY ConstantsType DEF SharedInv, StoreType, Slot
  <1> QED BY <1>1, SizesOf

LEMMA AddReferenceKeepsInv ==
  ASSUME SharedAssumption, SharedInv, NEW i \in Slot, NEW v \in Value,
         NEW num \in 1 .. MaxReferences, addReference(i, v, num)
  PROVE  SharedInv'
  <1>1. i \in Slot \ {0} /\ held[i][v] > 0
    BY DEF addReference
  <1>2. CASE i \in lost
    <2>1. Refuse(i)
      BY <1>2, LostIsNotCounted DEF addReference
    <2> QED BY <1>2, <2>1, RefuseKeepsInv
  <1>3. CASE i \notin lost
    <2>1. /\ i \in Referenced /\ i < count /\ data[i] = v
          /\ referenceCount[i] \in 1 .. MaxReferences
      BY <1>1, <1>3, HolderIsRight
    <2>2. count \in Int
      BY SizesOf
    <2>3. /\ referenceCount[i] + num \in 1 .. MaxReferences
          /\ referenceCount' = [referenceCount EXCEPT ![i] = referenceCount[i] + num]
          /\ held' = [held EXCEPT ![i][data[i]] = @ + num]
          /\ UNCHANGED <<capacity, count, freeSlotIndex, version, data, hashes, lost, refused>>
      BY <2>1, <2>2, ConstantsType DEF addReference, Slot
    <2>4. num \in Int
      BY ConstantsType
    <2> QED BY <2>1, <2>3, <2>4, CountKeepsInv
  <1> QED BY <1>2, <1>3

LEMMA RemoveSomeKeepsInv ==
  ASSUME SharedAssumption, SharedInv, NEW v \in Value, NEW i \in Referenced, v = data[i],
         NEW num \in 1 .. MaxReferences, RemoveSome(i, v, num)
  PROVE  SharedInv'
  <1>1. referenceCount[i] \in 1 .. MaxReferences
    BY SizesOf, ConstantsType DEF SharedInv, StoreType
  <1>2. /\ referenceCount[i] + (-num) \in 1 .. MaxReferences
        /\ referenceCount[i] - num = referenceCount[i] + (-num) /\ -num \in Int
    BY <1>1, ConstantsType DEF RemoveSome
  <1>3. held[i][v] - num = held[i][v] + (-num)
    BY SizesOf DEF SharedInv, StoreType
  <1>4. /\ referenceCount' = [referenceCount EXCEPT ![i] = referenceCount[i] + (-num)]
        /\ held' = [held EXCEPT ![i][data[i]] = @ + (-num)]
        /\ UNCHANGED <<capacity, count, freeSlotIndex, version, data, hashes, lost, refused>>
    BY <1>2, <1>3 DEF RemoveSome
  <1> QED BY <1>2, <1>4, CountKeepsInv

\* removeReference of the last reference: the search finds the hash, and the slot is free.
LEMMA RemoveLastKeepsInv ==
  ASSUME SharedAssumption, SharedInv, NEW v \in Value, NEW i \in Referenced \ {0}, v = data[i],
         NEW num \in 1 .. MaxReferences, RemoveLast(i, v, num)
  PROVE  SharedInv'
  <1>1. PICK p \in 0 .. capacity - 1 :
          PlaceOf(i) = {p} /\ Taken(hashes, p) /\ hashes[p].index = i
    BY InUseIsFound
  <1>2. /\ num = referenceCount[i]
        /\ held' = [held EXCEPT ![i][v] = @ - num]
        /\ referenceCount' = [referenceCount EXCEPT ![i] = 0]
        /\ \/ count = i + 1 /\ count' = i /\ UNCHANGED <<version, freeSlotIndex>>
           \/ /\ count # i + 1 /\ count' = count
              /\ version' = [version EXCEPT ![i] = freeSlotIndex] /\ freeSlotIndex' = i
        /\ hashes' = [q \in DOMAIN hashes |-> IF q \in {p} THEN Skipped ELSE hashes[q]]
        /\ data' = [data EXCEPT ![i] = Default]
        /\ refused' = refused /\ capacity' = capacity /\ lost' = lost
    BY <1>1 DEF RemoveLast
  <1>3. /\ count \in 1 .. MaxCapacity /\ capacity \in 2 .. MaxCapacity /\ lost \subseteq 1 .. count - 1
        /\ referenceCount \in [Slot -> 0 .. MaxReferences] /\ version \in [Slot -> Int]
        /\ data \in [Slot -> Value] /\ held \in [Slot -> [Value -> Int]]
    BY DEF SharedInv, StoreType
  <1>4. /\ Referenced \subseteq 0 .. count - 1 /\ 0 \in Referenced /\ lost \cap Referenced = {}
        /\ \A j \in 0 .. count - 1 : j \notin lost => j + 1 < capacity
        /\ \A j, k \in Referenced : data[j] = data[k] => j = k
    BY DEF SharedInv, SlotsInv
  <1>5. i \in Slot /\ i \in 1 .. count - 1 /\ i \notin lost /\ referenceCount[i] # 0
    BY <1>4, SizesOf DEF Slot
  <1>6. \A j \in Slot : /\ referenceCount'[j] = IF j = i THEN 0 ELSE referenceCount[j]
                        /\ data'[j] = IF j = i THEN Default ELSE data[j]
    BY <1>2, <1>3
  <1>7. Referenced' = Referenced \ {i}
    <2>1. Slot' = Slot
      BY DEF Slot
    <2> QED BY <1>6, <2>1 DEF Referenced
  <1>8. /\ freeSlotIndex = InvalidIndex \/ freeSlotIndex \in Unused
        /\ freeSlotIndex \in Int
    <2>1. freeSlotIndex = InvalidIndex \/ freeSlotIndex \in Unused
      BY FreeSlotIsUnused DEF SharedInv
    <2> QED BY <1>3, <2>1 DEF Unused, InvalidIndex
  <1>9. StoreType'
    <2>1. count' \in 1 .. MaxCapacity /\ lost' \subseteq 1 .. count' - 1
      <3>1. \A j \in lost : j \in 1 .. count - 1 /\ j # i
        BY <1>3, <1>5
      <3>2. CASE count = i + 1 /\ count' = i
        BY <1>2, <1>3, <1>5, <3>1, <3>2
      <3>3. CASE count' = count
        BY <1>2, <1>3, <3>3
      <3> QED BY <1>2, <3>2, <3>3
    <2>2. version' \in [Slot -> Int]
      BY <1>2, <1>3, <1>8
    <2>3. held' \in [Slot -> [Value -> Int]]
      <3>1. \A w \in Value : held[i][w] - num \in Int
        BY <1>3, <1>5, ConstantsType
      <3> QED BY <1>2, <1>3, <1>5, <3>1
    <2>4. referenceCount' \in [Slot -> 0 .. MaxReferences] /\ data' \in [Slot -> Value]
      <3>1. 0 \in 0 .. MaxReferences /\ Default \in Value
        BY ConstantsType
      <3> QED BY <1>2, <1>3, <3>1
    <2> QED BY <1>2, <1>3, <2>1, <2>2, <2>3, <2>4 DEF StoreType, Slot
  <1>10. SlotsInv'
    <2>1. Referenced' \subseteq 0 .. count' - 1
      <3>1. CASE count' = count
        BY <1>4, <1>7, <3>1
      <3>2. CASE count = i + 1 /\ count' = i
        <4>1. \A j \in 0 .. count - 1 : j # i => j \in 0 .. count' - 1
          BY <1>3, <1>5, <3>2
        <4> QED BY <1>4, <1>7, <4>1
      <3> QED BY <1>2, <3>1, <3>2
    <2>2. 0 \in Referenced' /\ lost' \cap Referenced' = {}
      BY <1>2, <1>4, <1>5, <1>7
    <2>3. 0 .. count' - 1 \subseteq 0 .. count - 1
      BY <1>2, <1>3, <1>5
    <2>4. \A j \in 0 .. count' - 1 : j \notin lost' => j + 1 < capacity'
      BY <1>2, <1>4, <2>3
    <2>5. \A j, k \in Referenced' : data'[j] = data'[k] => j = k
      <3>1. \A j \in Referenced' : j \in Slot /\ j \in Referenced /\ data'[j] = data[j]
        BY <1>6, <1>7 DEF Referenced
      <3> QED BY <1>4, <3>1
    <2> QED BY <2>1, <2>2, <2>4, <2>5 DEF SlotsInv
  <1>11. HashInv'
    <2>1. /\ capacity \in Nat \ {0} /\ IsTableOf(hashes, capacity, Referenced, data)
          /\ \A j \in Referenced : j \in Slot /\ hashOf[data[j]] \in Nat
      BY SizesOf DEF SharedInv, HashInv
    <2>2. IsTableOf(hashes', capacity, Referenced \ {i}, data)
      BY <1>1, <1>2, <2>1, SkipRemovesSlot
    <2>3. \A j \in Referenced \ {i} : data'[j] = data[j]
      BY <1>6, <2>1
    <2>4. IsTableOf(hashes', capacity, Referenced \ {i}, data')
      BY <2>2, <2>3, TableOfSameValues
    <2>5. IsTableOf(hashes', capacity', Referenced', data')
      BY <1>2, <1>7, <2>4
    <2> QED BY <2>5 DEF HashInv, IsTableOf, Taken, Usable, Comes
  <1>12. \A j \in 0 .. count - 1 : j \in Slot
    BY <1>3, ConstantsType DEF Slot
  <1>13. i \notin Unused
    BY <1>5 DEF Unused
  <1>14. ListInv'
    <2>1. CASE count = i + 1 /\ count' = i /\ UNCHANGED <<version, freeSlotIndex>>
      <3>1. /\ \A j \in 0 .. count' - 1 : j \in 0 .. count - 1 /\ j # i
            /\ \A j \in 0 .. count - 1 : j # i => j \in 0 .. count' - 1
        BY <1>3, <1>5, <2>1
      <3>2. Unused' = Unused
        BY <1>2, <1>6, <1>12, <1>13, <3>1 DEF Unused
      <3> QED BY <2>1, <3>2, ListKept DEF SharedInv
    <2>2. CASE /\ count # i + 1 /\ count' = count
               /\ version' = [version EXCEPT ![i] = freeSlotIndex] /\ freeSlotIndex' = i
      <3>1. i \in 0 .. count - 1
        BY <1>3, <1>5
      <3>2. Unused' = Unused \cup {i}
        BY <1>2, <1>5, <1>6, <1>12, <2>2, <3>1 DEF Unused
      <3>3. PICK s : IsFreeList(s)
        BY DEF SharedInv, ListInv
      <3>4. IsFreeList(<<i>> \o s)'
        BY <1>5, <1>13, <2>2, <3>2, <3>3, ListPush DEF SharedInv
      <3>5. PICK t : t = <<i>> \o s
        OBVIOUS
      <3>6. IsFreeList(t)'
        BY <3>4, <3>5
      <3> QED BY <3>6 DEF ListInv
    <2> QED BY <1>2, <2>1, <2>2
  <1>15. ReferencesExact'
    <2> SUFFICES ASSUME NEW j \in Slot \ (lost \cup {0}), NEW w \in Value
                 PROVE  held'[j][w] = IF w = data'[j] THEN referenceCount'[j] ELSE 0
      BY <1>2 DEF ReferencesExact, Slot
    <2>1. held[j][w] = IF w = data[j] THEN referenceCount[j] ELSE 0
      BY DEF SharedInv, ReferencesExact
    <2>2. held'[j][w] = IF j = i /\ w = v THEN held[j][w] - num ELSE held[j][w]
      BY <1>2, <1>3
    <2>3. held[j][w] \in Int
      BY <1>3
    <2>4. CASE j = i
      BY <1>2, <1>6, <2>1, <2>2, <2>3, <2>4
    <2>5. CASE j # i
      BY <1>6, <2>1, <2>2, <2>5
    <2> QED BY <2>4, <2>5
  <1>16. OnlyLostRefused'
    BY <1>2 DEF SharedInv, OnlyLostRefused
  <1> QED BY <1>9, <1>10, <1>11, <1>14, <1>15, <1>16 DEF SharedInv

LEMMA RemoveReferenceKeepsInv ==
  ASSUME SharedAssumption, SharedInv, NEW i \in Slot, NEW v \in Value,
         NEW num \in 1 .. MaxReferences, removeReference(i, v, num)
  PROVE  SharedInv'
  <1>1. i \in Slot \ {0} /\ held[i][v] >= num /\ held[i][v] > 0
    <2>1. held[i][v] \in Int /\ num > 0
      BY ConstantsType DEF SharedInv, StoreType
    <2> QED BY <2>1 DEF removeReference
  <1>2. CASE i \in lost
    <2>1. referenceCount[i] < num
      BY <1>2, LostIsNotCounted, ConstantsType
    <2>2. Refuse(i)
      BY <2>1 DEF removeReference
    <2> QED BY <1>2, <2>2, RefuseKeepsInv
  <1>3. CASE i \notin lost
    <2>1. /\ i \in Referenced \ {0} /\ i < count /\ data[i] = v
          /\ referenceCount[i] \in 1 .. MaxReferences /\ referenceCount[i] = held[i][v]
      BY <1>1, <1>3, HolderIsRight
    <2>2. ~(i >= count) /\ ~(referenceCount[i] < num)
      BY <1>1, <2>1, SizesOf, ConstantsType DEF Slot
    <2>3. RemoveSome(i, v, num) \/ RemoveLast(i, v, num)
      BY <2>2 DEF removeReference
    <2> QED BY <2>1, <2>3, RemoveSomeKeepsInv, RemoveLastKeepsInv
  <1> QED BY <1>2, <1>3

\* A version is only stamped in a slot in use, never over a link of the free list.
LEMMA IncrementVersionKeepsInv ==
  ASSUME SharedAssumption, SharedInv, NEW i \in Slot, incrementVersion(i)
  PROVE  SharedInv'
  <1>1. /\ referenceCount[i] # 0 /\ version' = [version EXCEPT ![i] = Stamp]
        /\ capacity' = capacity /\ count' = count /\ freeSlotIndex' = freeSlotIndex
        /\ referenceCount' = referenceCount /\ data' = data
        /\ hashes' = hashes /\ held' = held /\ lost' = lost /\ refused' = refused
    BY DEF incrementVersion
  <1>2. Referenced' = Referenced
    BY <1>1 DEF Referenced, Slot
  <1>3. version \in [Slot -> Int]
    BY DEF SharedInv, StoreType
  <1>4. StoreType'
    <2>1. version' \in [Slot -> Int]
      BY <1>1, <1>3 DEF Stamp
    <2> QED BY <1>1, <2>1 DEF SharedInv, StoreType, Slot
  <1>5. SlotsInv'
    BY <1>1, <1>2 DEF SharedInv, SlotsInv
  <1>6. HashInv'
    BY <1>1, <1>2 DEF SharedInv, HashInv, IsTableOf, Taken, Usable, Comes
  <1>7. ListInv'
    <2>1. Unused' = Unused
      BY <1>1 DEF Unused
    <2>2. \A j \in Unused : version'[j] = version[j]
      <3>1. \A j \in 0 .. count - 1 : j \in Slot
        BY ConstantsType DEF SharedInv, StoreType, Slot
      <3>2. i \notin Unused
        BY <1>1 DEF Unused
      <3> QED BY <1>1, <1>3, <3>1, <3>2 DEF Unused
    <2> QED BY <1>1, <2>1, <2>2, ListKept DEF SharedInv
  <1>8. ReferencesExact' /\ OnlyLostRefused'
    BY <1>1 DEF SharedInv, ReferencesExact, OnlyLostRefused, Slot
  <1> QED BY <1>4, <1>5, <1>6, <1>7, <1>8 DEF SharedInv

LEMMA StutterKeepsInv ==
  ASSUME SharedInv, UNCHANGED vars
  PROVE  SharedInv'
  <1>1. /\ capacity' = capacity /\ count' = count /\ freeSlotIndex' = freeSlotIndex
        /\ referenceCount' = referenceCount /\ version' = version /\ data' = data
        /\ hashes' = hashes /\ held' = held /\ lost' = lost /\ refused' = refused
    BY DEF vars
  <1>2. Referenced' = Referenced
    BY <1>1 DEF Referenced, Slot
  <1>3. StoreType' /\ SlotsInv'
    BY <1>1, <1>2 DEF SharedInv, StoreType, SlotsInv, Slot
  <1>4. HashInv'
    BY <1>1, <1>2 DEF SharedInv, HashInv, IsTableOf, Taken, Usable, Comes
  <1>5. ListInv'
    <2>1. Unused' = Unused
      BY <1>1 DEF Unused
    <2> QED BY <1>1, <2>1, ListKept DEF SharedInv
  <1>6. ReferencesExact' /\ OnlyLostRefused'
    BY <1>1 DEF SharedInv, ReferencesExact, OnlyLostRefused, Slot
  <1> QED BY <1>3, <1>4, <1>5, <1>6 DEF SharedInv

LEMMA NextKeepsInv ==
  ASSUME SharedAssumption, SharedInv, [SharedStoreNext]_vars
  PROVE  SharedInv'
  <1>1. CASE \E v \in Value : InsertFound(v) \/ InsertFree(v) \/ InsertNew(v)
                               \/ InsertResize(v) \/ InsertThrows(v)
    BY <1>1, InsertFoundKeepsInv, InsertFreeKeepsInv, InsertNewKeepsInv,
       InsertResizeKeepsInv, InsertThrowsKeepsInv
  <1>2. CASE \E i \in Slot : incrementVersion(i)
    BY <1>2, IncrementVersionKeepsInv
  <1>3. CASE \E i \in Slot, v \in Value, num \in 1 .. MaxReferences :
               addReference(i, v, num) \/ removeReference(i, v, num)
    BY <1>3, AddReferenceKeepsInv, RemoveReferenceKeepsInv
  <1>4. CASE UNCHANGED vars
    BY <1>4, StutterKeepsInv
  <1> QED BY <1>1, <1>2, <1>3, <1>4 DEF SharedStoreNext

LEMMA SpecKeepsInv == SharedStoreSpec => []SharedInv
  <1>1. SharedStoreInit => SharedInv
    BY SharedAssumption, InitSharedInv
  <1>2. SharedInv /\ [SharedStoreNext]_vars => SharedInv'
    BY SharedAssumption, NextKeepsInv
  <1> QED BY <1>1, <1>2, PTL DEF SharedStoreSpec

--------------------------------------------------------------------------------
(* What the callers rely on *)

\* The count of a value is the number of references its callers hold, and all callers
\* of an index mean the same value, save for slots that were lost.
THEOREM CountsAreExact == SharedStoreSpec => []ReferencesExact
  <1>1. SharedInv => ReferencesExact
    BY DEF SharedInv
  <1> QED BY <1>1, SpecKeepsInv, PTL

\* No call on an index is refused, and no search for a place or a hash fails, save for
\* slots that were lost.
THEOREM RefusedWereLost == SharedStoreSpec => []OnlyLostRefused
  <1>1. SharedInv => OnlyLostRefused
    BY DEF SharedInv
  <1> QED BY <1>1, SpecKeepsInv, PTL

\* However many collisions, skip codes and resizes lie behind the table, both searches
\* find a value in use, at one place; checkInternalConsistency throws exactly when two
\* values in use have one hash code.
THEOREM SearchesFind == SharedStoreSpec => []SearchFinds
  <1>1. SharedInv => SearchFinds
    <2> SUFFICES ASSUME SharedInv PROVE SearchFinds
      OBVIOUS
    <2>1. \A i \in Referenced : \E p \in TryFind(data[i]) :
            hashes[p].index = i /\ PlaceOf(i) = {p}
      BY SharedAssumption, InUseIsFound
    <2>2. checkInternalConsistency <=>
            \A i, j \in Referenced : hashOf[data[i]] = hashOf[data[j]] => i = j
      BY SharedAssumption, CheckNeedsCodes, CodesSuffice
    <2> QED BY <2>1, <2>2 DEF SearchFinds
  <1> QED BY <1>1, SpecKeepsInv, PTL

\* The free list holds each slot that is free once, and ends.
THEOREM FreeListIsExact == SharedStoreSpec => []FreeSlotsExact
  <1>1. SharedInv => FreeSlotsExact
    <2> SUFFICES ASSUME SharedInv PROVE FreeSlotsExact
      OBVIOUS
    <2>1. PICK s : IsFreeList(s)
      BY DEF SharedInv, ListInv
    <2> DEFINE list == Append(s, InvalidIndex)
    <2>2. FreeList = list /\ Len(s) = Cardinality(Unused)
      BY <2>1, SharedAssumption, FreeListFollowsLinks DEF SharedInv
    <2>3. s \in Seq(Int) /\ InvalidIndex \in Int /\ Len(s) \in Nat
      <3>1. s \in Seq(Slot)
        BY <2>1 DEF IsFreeList
      <3>2. s \in Seq(Int)
        <4>1. Slot \subseteq Int
          BY DEF Slot
        <4> QED BY <3>1, <4>1, SeqMonotonic
      <3> QED BY <3>2, LenProperties DEF InvalidIndex
    <2>4. /\ Len(list) = Len(s) + 1 /\ list[Len(s) + 1] = InvalidIndex
          /\ \A k \in 1 .. Len(s) : list[k] = s[k]
      BY <2>3, AppendProperties
    <2> HIDE DEF list
    <2>5. Last(list) = InvalidIndex /\ Len(list) - 1 = Len(s)
      BY <2>3, <2>4 DEF Last
    <2>6. {list[k] : k \in 1 .. Len(list) - 1} = Unused
      <3>1. {s[k] : k \in 1 .. Len(s)} = Unused
        BY <2>1 DEF IsFreeList
      <3> QED BY <2>4, <2>5, <3>1
    <2> QED BY <2>2, <2>4, <2>5, <2>6 DEF FreeSlotsExact, Unused
  <1> QED BY <1>1, SpecKeepsInv, PTL

--------------------------------------------------------------------------------
(* The table of counted values *)

\* A step that recounts a value.
LEMMA RecountStep ==
  ASSUME SharedAssumption, SharedInv, NEW i \in Referenced, NEW n \in 0 .. MaxReferences,
         referenceCount' = [referenceCount EXCEPT ![i] = n],
         data' = data \/ (n = 0 /\ data' = [data EXCEPT ![i] = Default])
  PROVE  Abstract!Recount
  <1>1. i \in Abstract!Live
    BY DEF Referenced, Abstract!Live
  <1>2. \A j \in Slot : data'[j] = data[j] \/ (j = i /\ n = 0)
    BY DEF SharedInv, StoreType
  <1> QED BY <1>1, <1>2 DEF Abstract!Recount

LEMMA StepsImplement ==
  ASSUME SharedAssumption, SharedInv, [SharedStoreNext]_vars
  PROVE  Abstract!SharedNext \/ UNCHANGED <<referenceCount, data>>
  <1>1. ASSUME NEW v \in Value, InsertFound(v)
        PROVE  Abstract!InsertKnown(v)
    <2>1. PICK p \in TryFind(v) :
            /\ referenceCount' = [referenceCount EXCEPT ![hashes[p].index] = @ + 1]
            /\ UNCHANGED data
      BY <1>1 DEF InsertFound
    <2>2. hashes[p].index \in Abstract!Live /\ data[hashes[p].index] = v
      BY FoundIsInUse DEF Referenced, Abstract!Live
    <2> QED BY <2>1, <2>2 DEF Abstract!InsertKnown
  <1>2. ASSUME NEW v \in Value, NEW i \in Slot, referenceCount[i] = 0,
               TryFind(v) = {}, Record(v, i)
        PROVE  Abstract!InsertUnknown(v)
    <2>1. /\ referenceCount' = [referenceCount EXCEPT ![i] = 1]
          /\ data' = [data EXCEPT ![i] = v]
      BY <1>2 DEF Record
    <2>2. \A j \in Abstract!Live : data[j] # v
      BY <1>2, FoundIsInUse DEF Referenced, Abstract!Live
    <2>3. i \in Slot \ Abstract!Live
      BY <1>2 DEF Abstract!Live
    <2> QED BY <2>1, <2>2, <2>3 DEF Abstract!InsertUnknown
  <1>3. ASSUME NEW v \in Value, InsertFree(v)
        PROVE  Abstract!InsertUnknown(v)
    <2>1. freeSlotIndex \in Unused
      BY <1>3, FreeSlotIsUnused DEF InsertFree, SharedInv
    <2>2. freeSlotIndex \in Slot /\ referenceCount[freeSlotIndex] = 0
      BY <2>1, ConstantsType DEF Unused, SharedInv, StoreType, Slot
    <2> QED BY <1>2, <1>3, <2>2 DEF InsertFree
  <1>4. ASSUME NEW v \in Value, InsertNew(v)
        PROVE  Abstract!InsertUnknown(v)
    <2>1. count \in 1 .. MaxCapacity /\ capacity \in 2 .. MaxCapacity /\ count + 1 < capacity
      BY <1>4 DEF InsertNew, SharedInv, StoreType
    <2>2. count \in Slot
      BY <2>1, ConstantsType DEF Slot
    <2>3. count \notin Referenced
      BY <2>1 DEF SharedInv, SlotsInv
    <2>4. referenceCount[count] = 0
      BY <2>2, <2>3, SizesOf
    <2> QED BY <1>2, <1>4, <2>2, <2>4 DEF InsertNew
  <1>5. ASSUME NEW v \in Value, InsertResize(v) \/ InsertThrows(v)
        PROVE  UNCHANGED <<referenceCount, data>>
    BY <1>5 DEF InsertResize, InsertThrows
  <1>6. ASSUME NEW i \in Slot, incrementVersion(i)
        PROVE  UNCHANGED <<referenceCount, data>>
    BY <1>6 DEF incrementVersion
  <1>7. ASSUME NEW i \in Slot, NEW v \in Value, NEW num \in 1 .. MaxReferences,
               addReference(i, v, num)
        PROVE  Abstract!Recount \/ UNCHANGED <<referenceCount, data>>
    <2>1. CASE Refuse(i)
      BY <2>1 DEF Refuse
    <2>2. CASE ~Refuse(i)
      <3>1. /\ referenceCount[i] # 0 /\ referenceCount[i] + num <= MaxReferences
            /\ referenceCount' = [referenceCount EXCEPT ![i] = referenceCount[i] + num]
            /\ data' = data
        BY <1>7, <2>2 DEF addReference
      <3>2. i \in Referenced /\ referenceCount[i] \in Nat
        BY <3>1, SizesOf, ConstantsType DEF SharedInv, StoreType
      <3>3. referenceCount[i] + num \in 0 .. MaxReferences
        BY <3>1, <3>2, ConstantsType
      <3> QED BY <3>1, <3>2, <3>3, RecountStep
    <2> QED BY <2>1, <2>2
  <1>8. ASSUME NEW i \in Slot, NEW v \in Value, NEW num \in 1 .. MaxReferences,
               removeReference(i, v, num)
        PROVE  Abstract!Recount \/ UNCHANGED <<referenceCount, data>>
    <2>1. CASE Refuse(i)
      BY <2>1 DEF Refuse
    <2>2. CASE ~Refuse(i)
      <3>1. ~(referenceCount[i] < num) /\ (RemoveSome(i, v, num) \/ RemoveLast(i, v, num))
        BY <1>8, <2>2 DEF removeReference
      <3>2. referenceCount[i] \in 0 .. MaxReferences
        BY DEF SharedInv, StoreType
      <3>3. i \in Referenced
        BY <3>1, <3>2, SizesOf, ConstantsType
      <3>4. PICK n \in 0 .. MaxReferences :
              /\ referenceCount' = [referenceCount EXCEPT ![i] = n]
              /\ data' = data \/ (n = 0 /\ data' = [data EXCEPT ![i] = Default])
        <4>1. CASE RemoveSome(i, v, num)
          <5>1. referenceCount[i] - num \in 0 .. MaxReferences
            BY <3>1, <3>2, ConstantsType
          <5> QED BY <4>1, <5>1 DEF RemoveSome
        <4>2. CASE RemoveLast(i, v, num)
          <5>1. 0 \in 0 .. MaxReferences
            BY ConstantsType
          <5> QED BY <4>2, <5>1 DEF RemoveLast
        <4> QED BY <3>1, <4>1, <4>2
      <3> QED BY <3>3, <3>4, RecountStep
    <2> QED BY <2>1, <2>2
  <1>9. CASE UNCHANGED vars
    BY <1>9 DEF vars
  <1>10. CASE SharedStoreNext
    BY <1>1, <1>3, <1>4, <1>5, <1>6, <1>7, <1>8, <1>10 DEF SharedStoreNext, Abstract!SharedNext
  <1> QED BY <1>9, <1>10

\* The store implements the table of counted values: a value has one index, and keeps it
\* until its last reference is gone.
THEOREM StoreImplementsValues == SharedStoreSpec => ImplementsSharedValues
  <1>1. SharedStoreInit => Abstract!SharedInit(0, Default)
    BY SharedAssumption, ConstantsType DEF SharedStoreInit, Abstract!SharedInit
  <1>2. SharedInv /\ [SharedStoreNext]_vars =>
          [Abstract!SharedNext]_<<referenceCount, data>>
    BY SharedAssumption, StepsImplement
  <1> QED BY <1>1, <1>2, SpecKeepsInv, PTL DEF SharedStoreSpec, ImplementsSharedValues
================================================================================
