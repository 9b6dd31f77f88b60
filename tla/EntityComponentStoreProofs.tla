----------------------- MODULE EntityComponentStoreProofs -----------------------
(***************************************************************************)
(* Proofs about archetypes, chunks and rows, for any entities, chunks,     *)
(* component types and capacities.                                         *)
(***************************************************************************)
EXTENDS EntityComponentStore, FiniteSetTheorems, SequenceTheorems, WellFoundedInduction, TLAPS

--------------------------------------------------------------------------------
(* The store and what is in it *)

RowsFor(a) == Seq([entity : Entity, data : [a -> Value]])
CellsFor(a) == [archetype : {a}, rows : RowsFor(a),
                listIndex : Int, listWithEmptySlotsIndex : Int]
Cells == UNION {CellsFor(a) : a \in Archetype}
ArchetypeRecords ==
  [chunks : Seq(Chunk), chunksWithEmptySlots : Seq(Chunk), entityCount : Int]
Stores == [archetype : [Archetype -> ArchetypeRecords],
           chunk : [Chunk -> {Free} \cup Cells]]

\* Of a chunk, what lists do not change.
Content(cell) == IF cell = Free THEN Free
                 ELSE [archetype |-> cell.archetype, rows |-> cell.rows]
Contents(s) == [c \in Chunk |-> Content(s.chunk[c])]
With(K, c, content) == [K EXCEPT ![c] = content]
Counts(s) == [a \in Archetype |-> s.archetype[a].entityCount]

Contained == {Free} \cup UNION {[archetype : {a}, rows : RowsFor(a)] : a \in Archetype}

LEMMA CellParts ==
  ASSUME NEW a \in Archetype, NEW cell \in CellsFor(a)
  PROVE  /\ cell # Free /\ cell.archetype = a /\ cell.rows \in RowsFor(a)
         /\ cell.listIndex \in Int /\ cell.listWithEmptySlotsIndex \in Int
  <1>1. DOMAIN cell = {"archetype", "rows", "listIndex", "listWithEmptySlotsIndex"}
    BY DEF CellsFor
  <1>2. DOMAIN Free = {}
    BY DEF Free
  <1>3. cell # Free
    BY <1>1, <1>2
  <1> QED BY <1>3 DEF CellsFor

LEMMA ContentNotFree ==
  ASSUME NEW a, NEW rows
  PROVE  [archetype |-> a, rows |-> rows] # Free
  <1>1. DOMAIN Free = {}
    BY DEF Free
  <1>2. DOMAIN [archetype |-> a, rows |-> rows] = {"archetype", "rows"}
    OBVIOUS
  <1> QED BY <1>1, <1>2

LEMMA PlaceNotNowhere ==
  ASSUME NEW c, NEW k
  PROVE  [chunk |-> c, index |-> k] # Nowhere
  <1>1. DOMAIN Nowhere = {}
    BY DEF Nowhere
  <1>2. DOMAIN [chunk |-> c, index |-> k] = {"chunk", "index"}
    OBVIOUS
  <1> QED BY <1>1, <1>2

LEMMA OneNotDead ==
  ASSUME NEW x
  PROVE  <<x>> # Dead
  BY DEF Dead

--------------------------------------------------------------------------------
(* Lists with the index of each element on record *)

LEMMA AppendListed ==
  ASSUME NEW q \in Seq(Chunk), NEW cs, NEW index, Listed(q, cs, index),
         NEW c \in Chunk, NEW now, now[c] = Len(q) + 1,
         \A x \in cs : now[x] = index[x]
  PROVE  Append(q, c) \in Seq(Chunk) /\ Listed(Append(q, c), cs \cup {c}, now)
  <1>1. /\ Append(q, c) \in Seq(Chunk) /\ Len(Append(q, c)) = Len(q) + 1
        /\ Append(q, c)[Len(q) + 1] = c
        /\ \A i \in 1 .. Len(q) : Append(q, c)[i] = q[i]
    OBVIOUS
  <1>2. DOMAIN q = 1 .. Len(q) /\ DOMAIN Append(q, c) = 1 .. Len(q) + 1 /\ Len(q) \in Nat
    BY <1>1
  <1>3. \A i \in 1 .. Len(q) : q[i] \in cs /\ index[q[i]] = i
    BY <1>2 DEF Listed, Range
  <1>4. \A x \in cs : \E i \in 1 .. Len(q) : q[i] = x
    BY <1>2 DEF Listed, Range
  <1>5. \A i \in 1 .. Len(q) + 1 : i \in 1 .. Len(q) \/ i = Len(q) + 1
    BY <1>2
  <1>6. Range(Append(q, c)) = cs \cup {c}
    BY <1>1, <1>2, <1>3, <1>4, <1>5 DEF Range
  <1>7. \A i \in 1 .. Len(q) + 1 : now[Append(q, c)[i]] = i
    BY <1>1, <1>3, <1>5
  <1> QED BY <1>1, <1>2, <1>6, <1>7 DEF Listed

\* now is index, but for the element that moved up to place i.
MovedUp(left, i, cs, index, now) ==
  \A x \in cs : now[x] = IF i <= Len(left) /\ x = left[i] THEN i ELSE index[x]

LEMMA SwapBackKeeps ==
  ASSUME NEW q \in Seq(Chunk), NEW cs, NEW index, Listed(q, cs, index), NEW c \in cs,
         NEW i, i = index[c], NEW left, left = SwapBack(q, i)
  PROVE  /\ i \in 1 .. Len(q) /\ q[i] = c
         /\ left \in Seq(Chunk) /\ Len(left) = Len(q) - 1
         /\ left = [k \in 1 .. Len(q) - 1 |-> IF k = i THEN q[Len(q)] ELSE q[k]]
         /\ i <= Len(left) => left[i] \in cs \ {c}
  <1> DEFINE n == Len(q)
  <1>1. n \in Nat /\ DOMAIN q = 1 .. n /\ \A k \in 1 .. n : q[k] \in Chunk
    OBVIOUS
  <1>2. \A k \in 1 .. n : q[k] \in cs /\ index[q[k]] = k
    BY <1>1 DEF Listed, Range
  <1>3. \A x \in cs : \E k \in 1 .. n : q[k] = x
    BY <1>1 DEF Listed, Range
  <1>4. i \in 1 .. n /\ q[i] = c
    BY <1>2, <1>3
  <1>5. left = [k \in 1 .. n - 1 |-> IF k = i THEN q[n] ELSE q[k]]
    <2> DEFINE put == [q EXCEPT ![i] = Last(q)]
    <2>1. put \in Seq(Chunk) /\ Len(put) = n /\ DOMAIN put = 1 .. n
          /\ \A k \in 1 .. n : put[k] = IF k = i THEN q[n] ELSE q[k]
      BY <1>1, <1>4 DEF Last
    <2>2. left = [k \in 1 .. n - 1 |-> put[k]]
      BY <2>1 DEF SwapBack, Front
    <2> HIDE DEF put
    <2> QED BY <1>1, <2>1, <2>2
  <1> HIDE DEF n
  <1>6. left \in Seq(Chunk) /\ Len(left) = n - 1 /\ DOMAIN left = 1 .. n - 1
    <2>1. n - 1 \in Nat /\ \A k \in 1 .. n - 1 : k \in 1 .. n
      BY <1>1, <1>4
    <2>2. left \in [1 .. n - 1 -> Chunk]
      BY <1>1, <1>4, <1>5, <2>1
    <2> QED BY <2>1, <2>2, SeqDef, LenProperties
  <1>7. i <= n - 1 => left[i] = q[n] /\ q[n] \in cs \ {c}
    <2> SUFFICES ASSUME i <= n - 1 PROVE left[i] = q[n] /\ q[n] \in cs \ {c}
      OBVIOUS
    <2>1. i \in 1 .. n - 1 /\ n \in 1 .. n /\ n # i
      BY <1>1, <1>4
    <2> QED BY <1>2, <1>4, <1>5, <2>1
  <1> QED BY <1>4, <1>5, <1>6, <1>7 DEF n

LEMMA SwapBackListed ==
  ASSUME NEW q \in Seq(Chunk), NEW cs, NEW index, Listed(q, cs, index), NEW c \in cs,
         NEW i, i = index[c], NEW left, left = SwapBack(q, i),
         NEW now, MovedUp(left, i, cs \ {c}, index, now)
  PROVE  Listed(left, cs \ {c}, now)
  <1> DEFINE n == Len(q)
  <1>1. n \in Nat /\ DOMAIN q = 1 .. n /\ \A k \in 1 .. n : q[k] \in Chunk
    OBVIOUS
  <1>2. \A k \in 1 .. n : q[k] \in cs /\ index[q[k]] = k
    BY <1>1 DEF Listed, Range
  <1>3. \A x \in cs : \E k \in 1 .. n : q[k] = x
    BY <1>1 DEF Listed, Range
  <1>4. /\ i \in 1 .. n /\ q[i] = c /\ left \in Seq(Chunk)
        /\ i <= n - 1 => left[i] \in cs \ {c}
        /\ left = [k \in 1 .. n - 1 |-> IF k = i THEN q[n] ELSE q[k]]
        /\ Len(left) = n - 1
    BY SwapBackKeeps
  <1> HIDE DEF n
  <1>5. \A x \in cs \ {c} : now[x] = IF i <= n - 1 /\ x = left[i] THEN i ELSE index[x]
    BY <1>4 DEF MovedUp
  <1>6. \A k \in 1 .. n - 1 : left[k] \in cs \ {c} /\ now[left[k]] = k
    <2> TAKE k \in 1 .. n - 1
    <2>0. k \in 1 .. n /\ k # n /\ k \in Int
      BY <1>1
    <2>1. CASE k = i
      <3>1. i <= n - 1
        BY <1>1, <2>1
      <3> QED BY <1>4, <1>5, <2>1, <3>1
    <2>2. CASE k # i
      <3>1. left[k] = q[k] /\ q[k] # q[n] /\ q[k] # c /\ q[k] \in cs /\ index[q[k]] = k
        <4>1. n \in 1 .. n
          BY <1>1, <1>4
        <4> QED BY <1>2, <1>4, <2>0, <2>2, <4>1
      <3>2. i <= n - 1 => left[i] = q[n]
        BY <1>1, <1>4
      <3> QED BY <1>5, <3>1, <3>2
    <2> QED BY <2>1, <2>2
  <1>7. \A x \in cs \ {c} : \E k \in 1 .. n - 1 : left[k] = x
    <2> TAKE x \in cs \ {c}
    <2>1. PICK k \in 1 .. n : q[k] = x
      BY <1>3
    <2>2. k # i
      BY <1>4, <2>1
    <2>3. CASE k = n
      <3>1. i \in 1 .. n - 1
        BY <1>1, <1>4, <2>2, <2>3
      <3> QED BY <1>4, <2>1, <2>3, <3>1
    <2>4. CASE k # n
      <3>1. k \in 1 .. n - 1
        BY <1>1, <2>4
      <3> QED BY <1>4, <2>1, <2>2, <3>1
    <2> QED BY <2>3, <2>4
  <1>8. DOMAIN left = 1 .. n - 1
    BY <1>4
  <1> QED BY <1>6, <1>7, <1>8 DEF Listed, Range

--------------------------------------------------------------------------------
(* What the helpers do to the lists *)

ListIndex(s) == [c \in Chunk |-> s.chunk[c].listIndex]
EmptySlotsIndex(s) == [c \in Chunk |-> s.chunk[c].listWithEmptySlotsIndex]

\* The lists of each archetype hold these chunks.
Listing(s, own, open) ==
  /\ s \in Stores
  /\ own \in [Archetype -> SUBSET Chunk] /\ open \in [Archetype -> SUBSET Chunk]
  /\ \A a \in Archetype : \A c \in own[a] \cup open[a] :
       s.chunk[c] # Free /\ s.chunk[c].archetype = a
  /\ \A a \in Archetype :
       /\ Listed(s.archetype[a].chunks, own[a], ListIndex(s))
       /\ Listed(s.archetype[a].chunksWithEmptySlots, open[a], EmptySlotsIndex(s))

\* Nothing but lists has changed.
Relisted(s, t) == Contents(t) = Contents(s) /\ Counts(t) = Counts(s)

LEMMA StoreParts ==
  ASSUME NEW s \in Stores
  PROVE  /\ \A c \in Chunk : s.chunk[c] # Free =>
              /\ s.chunk[c].archetype \in Archetype
              /\ s.chunk[c] \in CellsFor(s.chunk[c].archetype)
         /\ \A a \in Archetype : s.archetype[a] \in ArchetypeRecords
  <1>1. ASSUME NEW c \in Chunk, s.chunk[c] # Free
        PROVE  /\ s.chunk[c].archetype \in Archetype
               /\ s.chunk[c] \in CellsFor(s.chunk[c].archetype)
    <2>1. PICK a \in Archetype : s.chunk[c] \in CellsFor(a)
      BY <1>1 DEF Stores, Cells
    <2> QED BY <2>1, CellParts
  <1> QED BY <1>1 DEF Stores

\* One chunk and one archetype change.
Updated(s, t, c, cell, a, r) ==
  /\ t = [archetype |-> t.archetype, chunk |-> t.chunk]
  /\ t.archetype = [s.archetype EXCEPT ![a] = r]
  /\ t.chunk = [s.chunk EXCEPT ![c] = cell]

LEMMA StoreUpdate ==
  ASSUME NEW s \in Stores, NEW c \in Chunk, NEW cell \in {Free} \cup Cells,
         NEW a \in Archetype, NEW r \in ArchetypeRecords, NEW t,
         Updated(s, t, c, cell, a, r)
  PROVE  /\ t \in Stores
         /\ t.chunk[c] = cell /\ \A x \in Chunk : x # c => t.chunk[x] = s.chunk[x]
         /\ t.archetype[a] = r
         /\ \A b \in Archetype : b # a => t.archetype[b] = s.archetype[b]
         /\ Content(cell) = Content(s.chunk[c]) => Contents(t) = Contents(s)
         /\ r.entityCount = s.archetype[a].entityCount => Counts(t) = Counts(s)
         /\ Contents(t) = With(Contents(s), c, Content(cell))
  <1>1. /\ t.chunk[c] = cell /\ \A x \in Chunk : x # c => t.chunk[x] = s.chunk[x]
        /\ t.archetype[a] = r
        /\ \A b \in Archetype : b # a => t.archetype[b] = s.archetype[b]
    BY DEF Stores, Updated
  <1>2. Content(cell) = Content(s.chunk[c]) => Contents(t) = Contents(s)
    BY <1>1 DEF Contents
  <1>3. r.entityCount = s.archetype[a].entityCount => Counts(t) = Counts(s)
    BY <1>1 DEF Counts
  <1>4. Contents(t) = With(Contents(s), c, Content(cell))
    BY <1>1 DEF Contents, With
  <1>5. t \in Stores
    BY DEF Stores, Updated
  <1> QED BY <1>1, <1>2, <1>3, <1>4, <1>5

LEMMA ListedAgree ==
  ASSUME NEW q, NEW cs, NEW index, NEW now, Listed(q, cs, index),
         \A x \in cs : now[x] = index[x]
  PROVE  Listed(q, cs, now)
  BY DEF Listed, Range

\* One archetype has new lists, the others keep theirs.
LEMMA ListingUpdate ==
  ASSUME NEW s, NEW own, NEW open, Listing(s, own, open),
         NEW t, NEW c \in Chunk, NEW a \in Archetype, NEW r \in ArchetypeRecords,
         NEW cell \in {Free} \cup Cells, Updated(s, t, c, cell, a, r),
         s.chunk[c] # Free => s.chunk[c].archetype = a,
         NEW X \in SUBSET Chunk, NEW Y \in SUBSET Chunk,
         \A x \in X \cup Y : t.chunk[x] # Free /\ t.chunk[x].archetype = a,
         Listed(r.chunks, X, ListIndex(t)),
         Listed(r.chunksWithEmptySlots, Y, EmptySlotsIndex(t))
  PROVE  Listing(t, [own EXCEPT ![a] = X], [open EXCEPT ![a] = Y])
  <1> DEFINE ownNow == [own EXCEPT ![a] = X]
             openNow == [open EXCEPT ![a] = Y]
  <1>1. /\ t \in Stores
        /\ \A x \in Chunk : x # c => t.chunk[x] = s.chunk[x]
        /\ t.archetype[a] = r
        /\ \A b \in Archetype : b # a => t.archetype[b] = s.archetype[b]
    <2>1. s \in Stores
      BY DEF Listing
    <2> QED BY <2>1, StoreUpdate
  <1>2. /\ ownNow \in [Archetype -> SUBSET Chunk] /\ openNow \in [Archetype -> SUBSET Chunk]
        /\ ownNow[a] = X /\ openNow[a] = Y
        /\ \A b \in Archetype : b # a => ownNow[b] = own[b] /\ openNow[b] = open[b]
    BY DEF Listing
  <1> HIDE DEF ownNow, openNow
  <1>3. ASSUME NEW b \in Archetype, b # a
        PROVE  /\ \A x \in own[b] \cup open[b] : t.chunk[x] # Free /\ t.chunk[x].archetype = b
               /\ Listed(t.archetype[b].chunks, own[b], ListIndex(t))
               /\ Listed(t.archetype[b].chunksWithEmptySlots, open[b], EmptySlotsIndex(t))
    <2>1. \A x \in own[b] \cup open[b] : x \in Chunk /\ x # c
      BY <1>3 DEF Listing
    <2>2. \A x \in own[b] \cup open[b] : t.chunk[x] # Free /\ t.chunk[x].archetype = b
      BY <1>1, <2>1 DEF Listing
    <2>3. Listed(t.archetype[b].chunks, own[b], ListIndex(t))
      <3>1. Listed(s.archetype[b].chunks, own[b], ListIndex(s))
        BY DEF Listing
      <3>2. \A x \in own[b] : ListIndex(t)[x] = ListIndex(s)[x]
        BY <1>1, <2>1 DEF ListIndex
      <3> QED BY <1>1, <1>3, <3>1, <3>2, ListedAgree
    <2>4. Listed(t.archetype[b].chunksWithEmptySlots, open[b], EmptySlotsIndex(t))
      <3>1. Listed(s.archetype[b].chunksWithEmptySlots, open[b], EmptySlotsIndex(s))
        BY DEF Listing
      <3>2. \A x \in open[b] : EmptySlotsIndex(t)[x] = EmptySlotsIndex(s)[x]
        BY <1>1, <2>1 DEF EmptySlotsIndex
      <3> QED BY <1>1, <1>3, <3>1, <3>2, ListedAgree
    <2> QED BY <2>2, <2>3, <2>4
  <1>4. \A b \in Archetype : b = a \/ b # a
    OBVIOUS
  <1>5. Listing(t, ownNow, openNow)
    BY <1>1, <1>2, <1>3, <1>4 DEF Listing
  <1> QED BY <1>5 DEF ownNow, openNow

LEMMA AddToList ==
  ASSUME NEW s, NEW own, NEW open, Listing(s, own, open),
         NEW a \in Archetype, NEW c \in Chunk, c \notin own[a],
         s.chunk[c] # Free, s.chunk[c].archetype = a
  PROVE  LET t == addToChunkList(s, a, c)
         IN Listing(t, [own EXCEPT ![a] = @ \cup {c}], open) /\ Relisted(s, t)
  <1> DEFINE q == s.archetype[a].chunks
             cell == [s.chunk[c] EXCEPT !.listIndex = Len(q) + 1]
             r == [s.archetype[a] EXCEPT !.chunks = Append(q, c)]
             t == addToChunkList(s, a, c)
  <1>1. s \in Stores /\ s.archetype[a] \in ArchetypeRecords /\ s.chunk[c] \in CellsFor(a)
    BY StoreParts DEF Listing
  <1>2. q \in Seq(Chunk) /\ Len(q) + 1 \in Int /\ Append(q, c) \in Seq(Chunk)
    BY <1>1 DEF ArchetypeRecords
  <1>3. /\ r \in ArchetypeRecords /\ r.chunks = Append(q, c)
        /\ r.entityCount = s.archetype[a].entityCount
        /\ r.chunksWithEmptySlots = s.archetype[a].chunksWithEmptySlots
    BY <1>1, <1>2 DEF ArchetypeRecords
  <1>4. /\ cell \in CellsFor(a) /\ cell.listIndex = Len(q) + 1 /\ cell.rows = s.chunk[c].rows
        /\ cell.listWithEmptySlotsIndex = s.chunk[c].listWithEmptySlotsIndex
    BY <1>1, <1>2 DEF CellsFor
  <1>5. cell \in {Free} \cup Cells /\ cell # Free /\ cell.archetype = a
    BY <1>4, CellParts DEF Cells
  <1>6. Content(cell) = Content(s.chunk[c])
    BY <1>4, <1>5 DEF Content
  <1>7. Updated(s, t, c, cell, a, r)
    <2>1. t.archetype = [s.archetype EXCEPT ![a] = r]
      BY <1>1 DEF addToChunkList, Stores
    <2>2. t.chunk = [s.chunk EXCEPT ![c] = cell]
      BY <1>1 DEF addToChunkList, Stores
    <2>3. t = [archetype |-> t.archetype, chunk |-> t.chunk]
      <3> DEFINE n == Len(q) + 1
                 new == Append(q, c)
      <3>1. t = [s EXCEPT !.chunk[c].listIndex = n, !.archetype[a].chunks = new]
        BY <1>1 DEF addToChunkList, Stores
      <3> HIDE DEF t, n, new
      <3> QED BY <1>1, <3>1 DEF Stores
    <2> QED BY <2>1, <2>2, <2>3 DEF Updated
  <1> HIDE DEF t, r, cell
  <1>8. /\ t \in Stores
        /\ t.chunk[c] = cell /\ \A x \in Chunk : x # c => t.chunk[x] = s.chunk[x]
        /\ t.archetype[a] = r
        /\ \A b \in Archetype : b # a => t.archetype[b] = s.archetype[b]
        /\ Relisted(s, t)
    BY <1>1, <1>3, <1>5, <1>6, <1>7, StoreUpdate DEF Relisted
  <1>9. Listing(t, [own EXCEPT ![a] = own[a] \cup {c}], [open EXCEPT ![a] = open[a]])
    <2>1. /\ Listed(q, own[a], ListIndex(s)) /\ own[a] \subseteq Chunk
          /\ Listed(s.archetype[a].chunksWithEmptySlots, open[a], EmptySlotsIndex(s))
          /\ open[a] \subseteq Chunk
          /\ \A x \in own[a] \cup open[a] : s.chunk[x] # Free /\ s.chunk[x].archetype = a
      BY DEF Listing
    <2>2. ListIndex(t)[c] = Len(q) + 1
      BY <1>4, <1>8 DEF ListIndex
    <2>3. \A x \in own[a] : ListIndex(t)[x] = ListIndex(s)[x]
      BY <1>8, <2>1 DEF ListIndex
    <2>4. \A x \in open[a] : EmptySlotsIndex(t)[x] = EmptySlotsIndex(s)[x]
      BY <1>4, <1>8, <2>1 DEF EmptySlotsIndex
    <2>5. Listed(r.chunks, own[a] \cup {c}, ListIndex(t))
      <3> HIDE DEF q
      <3> QED BY <1>2, <1>3, <2>1, <2>2, <2>3, AppendListed
    <2>6. Listed(r.chunksWithEmptySlots, open[a], EmptySlotsIndex(t))
      BY <1>3, <2>1, <2>4, ListedAgree
    <2>7. \A x \in own[a] \cup {c} \cup open[a] : t.chunk[x] # Free /\ t.chunk[x].archetype = a
      BY <1>5, <1>8, <2>1
    <2> QED BY <1>3, <1>5, <1>7, <2>1, <2>5, <2>6, <2>7, ListingUpdate
  <1>10. [open EXCEPT ![a] = open[a]] = open
    BY DEF Listing
  <1> QED BY <1>8, <1>9, <1>10 DEF t

LEMMA AddToEmptySlots ==
  ASSUME NEW s, NEW own, NEW open, Listing(s, own, open),
         NEW a \in Archetype, NEW c \in Chunk, c \notin open[a],
         s.chunk[c] # Free, s.chunk[c].archetype = a
  PROVE  LET t == addToChunkListWithEmptySlots(s, a, c)
         IN Listing(t, own, [open EXCEPT ![a] = @ \cup {c}]) /\ Relisted(s, t)
  <1> DEFINE q == s.archetype[a].chunksWithEmptySlots
             cell == [s.chunk[c] EXCEPT !.listWithEmptySlotsIndex = Len(q) + 1]
             r == [s.archetype[a] EXCEPT !.chunksWithEmptySlots = Append(q, c)]
             t == addToChunkListWithEmptySlots(s, a, c)
  <1>1. s \in Stores /\ s.archetype[a] \in ArchetypeRecords /\ s.chunk[c] \in CellsFor(a)
    BY StoreParts DEF Listing
  <1>2. q \in Seq(Chunk) /\ Len(q) + 1 \in Int /\ Append(q, c) \in Seq(Chunk)
    BY <1>1 DEF ArchetypeRecords
  <1>3. /\ r \in ArchetypeRecords /\ r.chunksWithEmptySlots = Append(q, c)
        /\ r.entityCount = s.archetype[a].entityCount
        /\ r.chunks = s.archetype[a].chunks
    BY <1>1, <1>2 DEF ArchetypeRecords
  <1>4. /\ cell \in CellsFor(a) /\ cell.listWithEmptySlotsIndex = Len(q) + 1 /\ cell.rows = s.chunk[c].rows
        /\ cell.listIndex = s.chunk[c].listIndex
    BY <1>1, <1>2 DEF CellsFor
  <1>5. cell \in {Free} \cup Cells /\ cell # Free /\ cell.archetype = a
    BY <1>4, CellParts DEF Cells
  <1>6. Content(cell) = Content(s.chunk[c])
    BY <1>4, <1>5 DEF Content
  <1>7. Updated(s, t, c, cell, a, r)
    <2>1. t.archetype = [s.archetype EXCEPT ![a] = r]
      BY <1>1 DEF addToChunkListWithEmptySlots, Stores
    <2>2. t.chunk = [s.chunk EXCEPT ![c] = cell]
      BY <1>1 DEF addToChunkListWithEmptySlots, Stores
    <2>3. t = [archetype |-> t.archetype, chunk |-> t.chunk]
      <3> DEFINE n == Len(q) + 1
                 new == Append(q, c)
      <3>1. t = [s EXCEPT !.chunk[c].listWithEmptySlotsIndex = n, !.archetype[a].chunksWithEmptySlots = new]
        BY <1>1 DEF addToChunkListWithEmptySlots, Stores
      <3> HIDE DEF t, n, new
      <3> QED BY <1>1, <3>1 DEF Stores
    <2> QED BY <2>1, <2>2, <2>3 DEF Updated
  <1> HIDE DEF t, r, cell
  <1>8. /\ t \in Stores
        /\ t.chunk[c] = cell /\ \A x \in Chunk : x # c => t.chunk[x] = s.chunk[x]
        /\ t.archetype[a] = r
        /\ \A b \in Archetype : b # a => t.archetype[b] = s.archetype[b]
        /\ Relisted(s, t)
    BY <1>1, <1>3, <1>5, <1>6, <1>7, StoreUpdate DEF Relisted
  <1>9. Listing(t, [own EXCEPT ![a] = own[a]], [open EXCEPT ![a] = open[a] \cup {c}])
    <2>1. /\ Listed(q, open[a], EmptySlotsIndex(s)) /\ own[a] \subseteq Chunk
          /\ Listed(s.archetype[a].chunks, own[a], ListIndex(s))
          /\ open[a] \subseteq Chunk
          /\ \A x \in own[a] \cup open[a] : s.chunk[x] # Free /\ s.chunk[x].archetype = a
      BY DEF Listing
    <2>2. EmptySlotsIndex(t)[c] = Len(q) + 1
      BY <1>4, <1>8 DEF EmptySlotsIndex
    <2>3. \A x \in open[a] : EmptySlotsIndex(t)[x] = EmptySlotsIndex(s)[x]
      BY <1>8, <2>1 DEF EmptySlotsIndex
    <2>4. \A x \in own[a] : ListIndex(t)[x] = ListIndex(s)[x]
      BY <1>4, <1>8, <2>1 DEF ListIndex
    <2>5. Listed(r.chunksWithEmptySlots, open[a] \cup {c}, EmptySlotsIndex(t))
      <3> HIDE DEF q
      <3> QED BY <1>2, <1>3, <2>1, <2>2, <2>3, AppendListed
    <2>6. Listed(r.chunks, own[a], ListIndex(t))
      BY <1>3, <2>1, <2>4, ListedAgree
    <2>7. \A x \in own[a] \cup open[a] \cup {c} : t.chunk[x] # Free /\ t.chunk[x].archetype = a
      BY <1>5, <1>8, <2>1
    <2> QED BY <1>3, <1>5, <1>7, <2>1, <2>5, <2>6, <2>7, ListingUpdate
  <1>10. [own EXCEPT ![a] = own[a]] = own
    BY DEF Listing
  <1> QED BY <1>8, <1>9, <1>10 DEF t

LEMMA RemoveFromList ==
  ASSUME NEW s, NEW own, NEW open, Listing(s, own, open),
         NEW a \in Archetype, NEW c \in own[a]
  PROVE  LET t == removeFromChunkList(s, a, c)
         IN Listing(t, [own EXCEPT ![a] = @ \ {c}], open) /\ Relisted(s, t)
  <1> DEFINE q == s.archetype[a].chunks
             i == s.chunk[c].listIndex
             left == SwapBack(q, i)
             r == [s.archetype[a] EXCEPT !.chunks = left]
             t == removeFromChunkList(s, a, c)
  <1>1. s \in Stores /\ s.archetype[a] \in ArchetypeRecords /\ c \in Chunk
        /\ s.chunk[c] # Free /\ s.chunk[c].archetype = a
    BY StoreParts DEF Listing
  <1>2. q \in Seq(Chunk) /\ Len(q) \in Nat
    BY <1>1 DEF ArchetypeRecords
  <1>3. /\ Listed(q, own[a], ListIndex(s)) /\ own[a] \subseteq Chunk
        /\ Listed(s.archetype[a].chunksWithEmptySlots, open[a], EmptySlotsIndex(s))
        /\ open[a] \subseteq Chunk
        /\ \A x \in own[a] \cup open[a] : s.chunk[x] # Free /\ s.chunk[x].archetype = a
    BY DEF Listing
  <1>4. ListIndex(s)[c] = i
    BY <1>1 DEF ListIndex
  <1>5. /\ i \in 1 .. Len(q) /\ left \in Seq(Chunk) /\ Len(left) = Len(q) - 1
        /\ i <= Len(left) => left[i] \in own[a] \ {c}
    <2> HIDE DEF q, i
    <2> QED BY <1>2, <1>3, <1>4, SwapBackKeeps
  <1>6. /\ r \in ArchetypeRecords /\ r.chunks = left
        /\ r.entityCount = s.archetype[a].entityCount
        /\ r.chunksWithEmptySlots = s.archetype[a].chunksWithEmptySlots
    BY <1>1, <1>5 DEF ArchetypeRecords
  <1>7. PICK d \in own[a] : d = IF i <= Len(left) THEN left[i] ELSE c
    BY <1>5
  <1> DEFINE cell == IF i <= Len(left) THEN [s.chunk[d] EXCEPT !.listIndex = i] ELSE s.chunk[c]
  <1>8. d \in Chunk /\ s.chunk[d] \in CellsFor(a) /\ s.chunk[d] # Free /\ s.chunk[d].archetype = a
    BY <1>1, <1>3, StoreParts
  <1>9. /\ cell \in CellsFor(a) /\ cell.rows = s.chunk[d].rows
        /\ cell.listIndex = IF i <= Len(left) THEN i ELSE s.chunk[c].listIndex
        /\ cell.listWithEmptySlotsIndex = s.chunk[d].listWithEmptySlotsIndex
    <2>1. i \in Int
      BY <1>5
    <2> HIDE DEF i, left, q
    <2> QED BY <1>7, <1>8, <2>1 DEF CellsFor
  <1>10. cell \in {Free} \cup Cells /\ cell # Free /\ cell.archetype = a
    BY <1>9, CellParts DEF Cells
  <1>11. Content(cell) = Content(s.chunk[d])
    BY <1>8, <1>9, <1>10 DEF Content
  <1>12. Updated(s, t, d, cell, a, r)
    <2>1. t = IF i <= Len(left) THEN [s EXCEPT !.archetype[a].chunks = left, !.chunk[d].listIndex = i]
                                ELSE [s EXCEPT !.archetype[a].chunks = left]
      BY <1>7 DEF removeFromChunkList
    <2> HIDE DEF t, i, left, q
    <2>2. CASE i <= Len(left)
      BY <1>1, <2>1, <2>2 DEF Updated, Stores
    <2>3. CASE ~(i <= Len(left))
      <3>1. d = c
        BY <1>7, <2>3
      <3> QED BY <1>1, <2>1, <2>3, <3>1 DEF Updated, Stores
    <2> QED BY <2>2, <2>3
  <1> HIDE DEF t, r, cell, i, left, q
  <1>13. /\ t \in Stores
         /\ t.chunk[d] = cell /\ \A x \in Chunk : x # d => t.chunk[x] = s.chunk[x]
         /\ Relisted(s, t)
    BY <1>1, <1>6, <1>8, <1>10, <1>11, <1>12, StoreUpdate DEF Relisted
  <1>14. Listing(t, [own EXCEPT ![a] = own[a] \ {c}], [open EXCEPT ![a] = open[a]])
    <2>1. ASSUME NEW x \in own[a] \ {c}
          PROVE ListIndex(t)[x] = IF i <= Len(left) /\ x = left[i] THEN i ELSE ListIndex(s)[x]
      <3>1. x \in Chunk
        BY <1>3
      <3>2. CASE x = d
        BY <1>7, <1>9, <1>13, <3>1, <3>2 DEF ListIndex
      <3>3. CASE x # d
        BY <1>7, <1>13, <3>1, <3>3 DEF ListIndex
      <3> QED BY <3>2, <3>3
    <2>2. Listed(r.chunks, own[a] \ {c}, ListIndex(t))
      <3>1. MovedUp(left, i, own[a] \ {c}, ListIndex(s), ListIndex(t))
        BY <2>1 DEF MovedUp
      <3>2. left = SwapBack(q, i)
        BY DEF left
      <3>3. q \in Seq(Chunk) /\ Listed(q, own[a], ListIndex(s)) /\ i = ListIndex(s)[c]
        BY <1>2, <1>3, <1>4
      <3>4. Listed(left, own[a] \ {c}, ListIndex(t))
        BY <3>1, <3>2, <3>3, SwapBackListed
      <3> QED BY <1>6, <3>4
    <2>3. \A x \in open[a] : EmptySlotsIndex(t)[x] = EmptySlotsIndex(s)[x]
      BY <1>3, <1>9, <1>13 DEF EmptySlotsIndex
    <2>4. Listed(r.chunksWithEmptySlots, open[a], EmptySlotsIndex(t))
      BY <1>3, <1>6, <2>3, ListedAgree
    <2>5. \A x \in (own[a] \ {c}) \cup open[a] : t.chunk[x] # Free /\ t.chunk[x].archetype = a
      BY <1>3, <1>10, <1>13
    <2>6. own[a] \ {c} \in SUBSET Chunk
      BY <1>3
    <2> DEFINE X == own[a] \ {c}
               Y == open[a]
    <2>7. /\ X \in SUBSET Chunk /\ Y \in SUBSET Chunk
          /\ \A x \in X \cup Y : t.chunk[x] # Free /\ t.chunk[x].archetype = a
          /\ Listed(r.chunks, X, ListIndex(t))
          /\ Listed(r.chunksWithEmptySlots, Y, EmptySlotsIndex(t))
      <3>1. X \cup Y = (own[a] \ {c}) \cup open[a]
        OBVIOUS
      <3>2. X = own[a] \ {c} /\ Y = open[a]
        OBVIOUS
      <3> HIDE DEF X, Y
      <3> QED BY <1>3, <2>2, <2>4, <2>5, <2>6, <3>1, <3>2
    <2> HIDE DEF X, Y
    <2>8. Listing(t, [own EXCEPT ![a] = X], [open EXCEPT ![a] = Y])
      BY <1>6, <1>8, <1>10, <1>12, <2>7, ListingUpdate
    <2> QED BY <2>8 DEF X, Y
  <1>15. [open EXCEPT ![a] = open[a]] = open
    BY DEF Listing
  <1>16. Listing(t, [own EXCEPT ![a] = own[a] \ {c}], open)
    BY <1>14, <1>15
  <1>17. Listing(t, [own EXCEPT ![a] = @ \ {c}], open) /\ Relisted(s, t)
    BY <1>13, <1>16
  <1> QED BY <1>17 DEF t

LEMMA RemoveFromEmptySlots ==
  ASSUME NEW s, NEW own, NEW open, Listing(s, own, open),
         NEW a \in Archetype, NEW c \in open[a]
  PROVE  LET t == removeFromChunkListWithEmptySlots(s, a, c)
         IN Listing(t, own, [open EXCEPT ![a] = @ \ {c}]) /\ Relisted(s, t)
  <1> DEFINE q == s.archetype[a].chunksWithEmptySlots
             i == s.chunk[c].listWithEmptySlotsIndex
             left == SwapBack(q, i)
             r == [s.archetype[a] EXCEPT !.chunksWithEmptySlots = left]
             t == removeFromChunkListWithEmptySlots(s, a, c)
  <1>1. s \in Stores /\ s.archetype[a] \in ArchetypeRecords /\ c \in Chunk
        /\ s.chunk[c] # Free /\ s.chunk[c].archetype = a
    BY StoreParts DEF Listing
  <1>2. q \in Seq(Chunk) /\ Len(q) \in Nat
    BY <1>1 DEF ArchetypeRecords
  <1>3. /\ Listed(q, open[a], EmptySlotsIndex(s)) /\ open[a] \subseteq Chunk
        /\ Listed(s.archetype[a].chunks, own[a], ListIndex(s))
        /\ own[a] \subseteq Chunk
        /\ \A x \in open[a] \cup own[a] : s.chunk[x] # Free /\ s.chunk[x].archetype = a
    BY DEF Listing
  <1>4. EmptySlotsIndex(s)[c] = i
    BY <1>1 DEF EmptySlotsIndex
  <1>5. /\ i \in 1 .. Len(q) /\ left \in Seq(Chunk) /\ Len(left) = Len(q) - 1
        /\ i <= Len(left) => left[i] \in open[a] \ {c}
    <2> HIDE DEF q, i
    <2> QED BY <1>2, <1>3, <1>4, SwapBackKeeps
  <1>6. /\ r \in ArchetypeRecords /\ r.chunksWithEmptySlots = left
        /\ r.entityCount = s.archetype[a].entityCount
        /\ r.chunks = s.archetype[a].chunks
    BY <1>1, <1>5 DEF ArchetypeRecords
  <1>7. PICK d \in open[a] : d = IF i <= Len(left) THEN left[i] ELSE c
    BY <1>5
  <1> DEFINE cell == IF i <= Len(left) THEN [s.chunk[d] EXCEPT !.listWithEmptySlotsIndex = i] ELSE s.chunk[c]
  <1>8. d \in Chunk /\ s.chunk[d] \in CellsFor(a) /\ s.chunk[d] # Free /\ s.chunk[d].archetype = a
    BY <1>1, <1>3, StoreParts
  <1>9. /\ cell \in CellsFor(a) /\ cell.rows = s.chunk[d].rows
        /\ cell.listWithEmptySlotsIndex = IF i <= Len(left) THEN i ELSE s.chunk[c].listWithEmptySlotsIndex
        /\ cell.listIndex = s.chunk[d].listIndex
    <2>1. i \in Int
      BY <1>5
    <2> HIDE DEF i, left, q
    <2> QED BY <1>7, <1>8, <2>1 DEF CellsFor
  <1>10. cell \in {Free} \cup Cells /\ cell # Free /\ cell.archetype = a
    BY <1>9, CellParts DEF Cells
  <1>11. Content(cell) = Content(s.chunk[d])
    BY <1>8, <1>9, <1>10 DEF Content
  <1>12. Updated(s, t, d, cell, a, r)
    <2>1. t = IF i <= Len(left) THEN [s EXCEPT !.archetype[a].chunksWithEmptySlots = left, !.chunk[d].listWithEmptySlotsIndex = i]
                                ELSE [s EXCEPT !.archetype[a].chunksWithEmptySlots = left]
      BY <1>7 DEF removeFromChunkListWithEmptySlots
    <2> HIDE DEF t, i, left, q
    <2>2. CASE i <= Len(left)
      BY <1>1, <2>1, <2>2 DEF Updated, Stores
    <2>3. CASE ~(i <= Len(left))
      <3>1. d = c
        BY <1>7, <2>3
      <3> QED BY <1>1, <2>1, <2>3, <3>1 DEF Updated, Stores
    <2> QED BY <2>2, <2>3
  <1> HIDE DEF t, r, cell, i, left, q
  <1>13. /\ t \in Stores
         /\ t.chunk[d] = cell /\ \A x \in Chunk : x # d => t.chunk[x] = s.chunk[x]
         /\ Relisted(s, t)
    BY <1>1, <1>6, <1>8, <1>10, <1>11, <1>12, StoreUpdate DEF Relisted
  <1>14. Listing(t, [own EXCEPT ![a] = own[a]], [open EXCEPT ![a] = open[a] \ {c}])
    <2>1. ASSUME NEW x \in open[a] \ {c}
          PROVE EmptySlotsIndex(t)[x] = IF i <= Len(left) /\ x = left[i] THEN i ELSE EmptySlotsIndex(s)[x]
      <3>1. x \in Chunk
        BY <1>3
      <3>2. CASE x = d
        BY <1>7, <1>9, <1>13, <3>1, <3>2 DEF EmptySlotsIndex
      <3>3. CASE x # d
        BY <1>7, <1>13, <3>1, <3>3 DEF EmptySlotsIndex
      <3> QED BY <3>2, <3>3
    <2>2. Listed(r.chunksWithEmptySlots, open[a] \ {c}, EmptySlotsIndex(t))
      <3>1. MovedUp(left, i, open[a] \ {c}, EmptySlotsIndex(s), EmptySlotsIndex(t))
        BY <2>1 DEF MovedUp
      <3>2. left = SwapBack(q, i)
        BY DEF left
      <3>3. q \in Seq(Chunk) /\ Listed(q, open[a], EmptySlotsIndex(s)) /\ i = EmptySlotsIndex(s)[c]
        BY <1>2, <1>3, <1>4
      <3>4. Listed(left, open[a] \ {c}, EmptySlotsIndex(t))
        BY <3>1, <3>2, <3>3, SwapBackListed
      <3> QED BY <1>6, <3>4
    <2>3. \A x \in own[a] : ListIndex(t)[x] = ListIndex(s)[x]
      BY <1>3, <1>9, <1>13 DEF ListIndex
    <2>4. Listed(r.chunks, own[a], ListIndex(t))
      BY <1>3, <1>6, <2>3, ListedAgree
    <2>5. \A x \in (open[a] \ {c}) \cup own[a] : t.chunk[x] # Free /\ t.chunk[x].archetype = a
      BY <1>3, <1>10, <1>13
    <2>6. open[a] \ {c} \in SUBSET Chunk
      BY <1>3
    <2> DEFINE X == open[a] \ {c}
               Y == own[a]
    <2>7. /\ X \in SUBSET Chunk /\ Y \in SUBSET Chunk
          /\ \A x \in X \cup Y : t.chunk[x] # Free /\ t.chunk[x].archetype = a
          /\ Listed(r.chunksWithEmptySlots, X, EmptySlotsIndex(t))
          /\ Listed(r.chunks, Y, ListIndex(t))
      <3>1. X \cup Y = (open[a] \ {c}) \cup own[a]
        OBVIOUS
      <3>2. X = open[a] \ {c} /\ Y = own[a]
        OBVIOUS
      <3> HIDE DEF X, Y
      <3> QED BY <1>3, <2>2, <2>4, <2>5, <2>6, <3>1, <3>2
    <2> HIDE DEF X, Y
    <2>8. Listing(t, [own EXCEPT ![a] = Y], [open EXCEPT ![a] = X])
      BY <1>6, <1>8, <1>10, <1>12, <2>7, ListingUpdate
    <2> QED BY <2>8 DEF X, Y
  <1>15. [own EXCEPT ![a] = own[a]] = own
    BY DEF Listing
  <1>16. Listing(t, own, [open EXCEPT ![a] = open[a] \ {c}])
    BY <1>14, <1>15
  <1>17. Listing(t, own, [open EXCEPT ![a] = @ \ {c}]) /\ Relisted(s, t)
    BY <1>13, <1>16
  <1> QED BY <1>17 DEF t

--------------------------------------------------------------------------------
(* What the helpers do to a chunk *)

LEMMA ContentOf ==
  ASSUME NEW s, NEW c \in Chunk
  PROVE  /\ Contents(s)[c] = Free <=> s.chunk[c] = Free
         /\ s.chunk[c] # Free =>
              /\ Contents(s)[c] = [archetype |-> s.chunk[c].archetype, rows |-> s.chunk[c].rows]
              /\ Contents(s)[c].archetype = s.chunk[c].archetype
              /\ Contents(s)[c].rows = s.chunk[c].rows
  BY ContentNotFree DEF Contents, Content

LEMMA ContentIs ==
  ASSUME NEW s, NEW c \in Chunk, NEW a, NEW rows,
         Contents(s)[c] = [archetype |-> a, rows |-> rows]
  PROVE  s.chunk[c] # Free /\ s.chunk[c].archetype = a /\ s.chunk[c].rows = rows
  <1> DEFINE cell == s.chunk[c]
             content == Contents(s)[c]
  <1>1. content = [archetype |-> a, rows |-> rows]
    OBVIOUS
  <1>2. content # Free /\ content.archetype = a /\ content.rows = rows
    BY <1>1, ContentNotFree
  <1>3. content = Content(cell)
    BY DEF Contents
  <1> HIDE DEF cell, content
  <1>4. cell # Free
    BY <1>2, <1>3 DEF Content
  <1>5. content = [archetype |-> cell.archetype, rows |-> cell.rows]
    BY <1>3, <1>4 DEF Content
  <1>6. cell # Free /\ cell.archetype = a /\ cell.rows = rows
    BY <1>2, <1>4, <1>5
  <1> QED BY <1>6 DEF cell

LEMMA SetCell ==
  ASSUME NEW s, NEW own, NEW open, Listing(s, own, open),
         NEW c \in Chunk, NEW a \in Archetype, NEW cell \in {Free} \cup CellsFor(a),
         s.chunk[c] # Free => s.chunk[c].archetype = a,
         c \in own[a] \cup open[a] =>
           /\ cell # Free
           /\ cell.listIndex = s.chunk[c].listIndex
           /\ cell.listWithEmptySlotsIndex = s.chunk[c].listWithEmptySlotsIndex,
         NEW t, t = [s EXCEPT !.chunk[c] = cell]
  PROVE  /\ Listing(t, own, open) /\ t.chunk[c] = cell
         /\ Contents(t) = With(Contents(s), c, Content(cell))
         /\ Counts(t) = Counts(s)
  <1> DEFINE r == s.archetype[a]
  <1>1. s \in Stores /\ r \in ArchetypeRecords
    BY StoreParts DEF Listing
  <1>2. cell \in {Free} \cup Cells /\ (cell # Free => cell.archetype = a)
    BY CellParts DEF Cells
  <1>3. Updated(s, t, c, cell, a, r)
    BY <1>1 DEF Updated, Stores
  <1>0. r.entityCount = s.archetype[a].entityCount
    OBVIOUS
  <1> HIDE DEF r
  <1>4. /\ t \in Stores
        /\ t.chunk[c] = cell /\ \A x \in Chunk : x # c => t.chunk[x] = s.chunk[x]
        /\ Contents(t) = With(Contents(s), c, Content(cell))
        /\ Counts(t) = Counts(s)
    <2>1. t \in Stores
      BY <1>1, <1>2, <1>3, StoreUpdate
    <2>2. t.chunk[c] = cell /\ \A x \in Chunk : x # c => t.chunk[x] = s.chunk[x]
      BY <1>1, <1>3 DEF Updated, Stores
    <2>3. Contents(t) = With(Contents(s), c, Content(cell))
      BY <1>1, <1>2, <1>3, StoreUpdate
    <2>4. Counts(t) = Counts(s)
      BY <1>0, <1>1, <1>2, <1>3, StoreUpdate
    <2> QED BY <2>1, <2>2, <2>3, <2>4
  <1>5. /\ own[a] \in SUBSET Chunk /\ open[a] \in SUBSET Chunk
        /\ Listed(r.chunks, own[a], ListIndex(s))
        /\ Listed(r.chunksWithEmptySlots, open[a], EmptySlotsIndex(s))
        /\ \A x \in own[a] \cup open[a] : s.chunk[x] # Free /\ s.chunk[x].archetype = a
    BY DEF Listing, r
  <1>6. \A x \in own[a] \cup open[a] : t.chunk[x] # Free /\ t.chunk[x].archetype = a
    BY <1>2, <1>4, <1>5
  <1>7. Listed(r.chunks, own[a], ListIndex(t))
    <2>1. \A x \in own[a] : ListIndex(t)[x] = ListIndex(s)[x]
      BY <1>4, <1>5 DEF ListIndex
    <2> QED BY <1>5, <2>1, ListedAgree
  <1>8. Listed(r.chunksWithEmptySlots, open[a], EmptySlotsIndex(t))
    <2>1. \A x \in open[a] : EmptySlotsIndex(t)[x] = EmptySlotsIndex(s)[x]
      BY <1>4, <1>5 DEF EmptySlotsIndex
    <2> QED BY <1>5, <2>1, ListedAgree
  <1>9. Listing(t, [own EXCEPT ![a] = own[a]], [open EXCEPT ![a] = open[a]])
    <2> DEFINE X == own[a]
               Y == open[a]
    <2>1. /\ X \in SUBSET Chunk /\ Y \in SUBSET Chunk
          /\ \A x \in X \cup Y : t.chunk[x] # Free /\ t.chunk[x].archetype = a
          /\ Listed(r.chunks, X, ListIndex(t))
          /\ Listed(r.chunksWithEmptySlots, Y, EmptySlotsIndex(t))
      BY <1>5, <1>6, <1>7, <1>8
    <2> HIDE DEF X, Y
    <2>2. Listing(t, [own EXCEPT ![a] = X], [open EXCEPT ![a] = Y])
      BY <1>1, <1>2, <1>3, <2>1, ListingUpdate
    <2> QED BY <2>2 DEF X, Y
  <1>10. [own EXCEPT ![a] = own[a]] = own /\ [open EXCEPT ![a] = open[a]] = open
    BY DEF Listing
  <1> QED BY <1>4, <1>9, <1>10

LEMMA CountedByCounts ==
  ASSUME NEW s, NEW own, NEW open, Listing(s, own, open),
         NEW a \in Archetype, NEW c \in Chunk, s.chunk[c] # Free => s.chunk[c].archetype = a,
         NEW n \in Int, NEW t, t = CountedBy(s, a, n)
  PROVE  /\ Listing(t, own, open) /\ Contents(t) = Contents(s)
         /\ Counts(t) = [Counts(s) EXCEPT ![a] = @ + n]
  <1> DEFINE old == s.archetype[a]
             r == [old EXCEPT !.entityCount = @ + n]
             cell == s.chunk[c]
  <1>1. s \in Stores /\ old \in ArchetypeRecords /\ cell \in {Free} \cup Cells
    BY StoreParts DEF Listing, Stores
  <1>2. /\ r \in ArchetypeRecords /\ r.entityCount = old.entityCount + n
        /\ r.chunks = old.chunks /\ r.chunksWithEmptySlots = old.chunksWithEmptySlots
    BY <1>1 DEF ArchetypeRecords
  <1>3. Updated(s, t, c, cell, a, r)
    BY <1>1 DEF Updated, Stores, CountedBy
  <1> HIDE DEF r, old, cell
  <1>4. /\ t \in Stores
        /\ t.chunk[c] = cell /\ \A x \in Chunk : x # c => t.chunk[x] = s.chunk[x]
        /\ t.archetype[a] = r
        /\ \A b \in Archetype : b # a => t.archetype[b] = s.archetype[b]
    BY <1>1, <1>2, <1>3, StoreUpdate
  <1>5. \A x \in Chunk : t.chunk[x] = s.chunk[x]
    BY <1>4 DEF cell
  <1>6. /\ Contents(t) = Contents(s) /\ ListIndex(t) = ListIndex(s)
        /\ EmptySlotsIndex(t) = EmptySlotsIndex(s)
    BY <1>5 DEF Contents, ListIndex, EmptySlotsIndex
  <1>7. Counts(t) = [Counts(s) EXCEPT ![a] = @ + n]
    BY <1>2, <1>4 DEF Counts, old
  <1>8. \A b \in Archetype : /\ t.archetype[b].chunks = s.archetype[b].chunks
                             /\ t.archetype[b].chunksWithEmptySlots =
                                  s.archetype[b].chunksWithEmptySlots
    BY <1>2, <1>4 DEF old
  <1>9. Listing(t, own, open)
    BY <1>4, <1>5, <1>6, <1>8 DEF Listing
  <1> QED BY <1>6, <1>7, <1>9

OwnOf(K) == [a \in Archetype |-> {c \in Chunk : K[c] # Free /\ K[c].archetype = a}]
OpenOf(K) == [a \in Archetype |->
  {c \in Chunk : K[c] # Free /\ K[c].archetype = a /\ Len(K[c].rows) < chunkCapacity[a]}]

Fits(K) ==
  \A c \in Chunk : K[c] # Free => Len(K[c].rows) <= chunkCapacity[K[c].archetype]

\* Every chunk is in the lists it belongs to and in no other.
Sound(s) ==
  /\ Listing(s, OwnOf(Contents(s)), OpenOf(Contents(s)))
  /\ Fits(Contents(s))

\* What a chunk of a holds with these rows.
Holding(a, rows) == IF rows = <<>> THEN Free ELSE [archetype |-> a, rows |-> rows]

\* All that has changed is what is in c.
Becomes(s, t, c, content) ==
  Sound(t) /\ Contents(t) = With(Contents(s), c, content) /\ Counts(t) = Counts(s)

LEMMA ReleaseChunkFrees ==
  ASSUME NEW s, Sound(s), NEW a \in Archetype, NEW c \in Chunk,
         s.chunk[c] # Free, s.chunk[c].archetype = a,
         NEW t, t = releaseChunk(s, a, c)
  PROVE  Becomes(s, t, c, Free)
  <1> DEFINE K == Contents(s)
             own == OwnOf(K)
             open == OpenOf(K)
             closed == [open EXCEPT ![a] = @ \ {c}]
             away == [own EXCEPT ![a] = @ \ {c}]
             t1 == IF Len(s.chunk[c].rows) < chunkCapacity[a]
                     THEN removeFromChunkListWithEmptySlots(s, a, c) ELSE s
             t2 == removeFromChunkList(t1, a, c)
             now == With(K, c, Free)
  <1>1. Listing(s, own, open) /\ s \in Stores
    BY DEF Sound, Listing
  <1>2. K[c] # Free /\ K[c].archetype = a /\ K[c].rows = s.chunk[c].rows
    BY ContentOf
  <1>3. c \in own[a] /\ (c \in open[a] <=> Len(s.chunk[c].rows) < chunkCapacity[a])
    BY <1>2 DEF OwnOf, OpenOf
  <1>4. own \in [Archetype -> SUBSET Chunk] /\ open \in [Archetype -> SUBSET Chunk]
    BY <1>1 DEF Listing
  <1> HIDE DEF K, own, open
  <1>5. Listing(t1, own, closed) /\ Relisted(s, t1)
    <2>1. CASE Len(s.chunk[c].rows) < chunkCapacity[a]
      BY <1>1, <1>3, <2>1, RemoveFromEmptySlots
    <2>2. CASE ~(Len(s.chunk[c].rows) < chunkCapacity[a])
      <3>1. closed = open
        BY <1>3, <1>4, <2>2
      <3> QED BY <1>1, <2>2, <3>1 DEF Relisted
    <2> QED BY <2>1, <2>2
  <1> HIDE DEF t1, closed
  <1>6. Listing(t2, away, closed) /\ Relisted(t1, t2)
    BY <1>3, <1>5, RemoveFromList
  <1>7. t = [t2 EXCEPT !.chunk[c] = Free]
    BY DEF releaseChunk, t1
  <1> HIDE DEF t2
  <1>8. Contents(t2) = K /\ Counts(t2) = Counts(s)
    BY <1>5, <1>6 DEF Relisted, K
  <1>9. t2.chunk[c] # Free /\ t2.chunk[c].archetype = a
    BY <1>2, <1>8, ContentOf
  <1>10. c \notin away[a] \cup closed[a]
    BY <1>4 DEF closed
  <1>11. /\ Listing(t, away, closed) /\ t.chunk[c] = Free
         /\ Contents(t) = With(Contents(t2), c, Content(Free)) /\ Counts(t) = Counts(t2)
    <2> DEFINE cell == Free
    <2>1. /\ cell \in {Free} \cup CellsFor(a)
          /\ c \in away[a] \cup closed[a] => /\ cell # Free
               /\ cell.listIndex = t2.chunk[c].listIndex
               /\ cell.listWithEmptySlotsIndex = t2.chunk[c].listWithEmptySlotsIndex
      BY <1>10
    <2>2. t = [t2 EXCEPT !.chunk[c] = cell]
      BY <1>7
    <2> HIDE DEF cell, away, now
    <2>3. /\ Listing(t, away, closed) /\ t.chunk[c] = cell
          /\ Contents(t) = With(Contents(t2), c, Content(cell)) /\ Counts(t) = Counts(t2)
      <3>1. Listing(t, away, closed)
        BY <1>6, <1>9, <2>1, <2>2, SetCell
      <3>0. t.chunk[c] = cell
        <4>1. t2 \in Stores
          BY <1>6 DEF Listing
        <4> QED BY <2>2, <4>1 DEF Stores
      <3>2. Contents(t) = With(Contents(t2), c, Content(cell))
        BY <1>6, <1>9, <2>1, <2>2, SetCell
      <3>3. Counts(t) = Counts(t2)
        BY <1>6, <1>9, <2>1, <2>2, SetCell
      <3> QED BY <3>0, <3>1, <3>2, <3>3
    <2> QED BY <2>3 DEF cell
  <1>12. Contents(t) = now /\ Counts(t) = Counts(s)
    BY <1>8, <1>11 DEF Content
  <1>13. /\ \A x \in Chunk : now[x] = IF x = c THEN Free ELSE K[x]
         /\ DOMAIN K = Chunk
    BY DEF K, Contents, With
  <1>14. OwnOf(now) = away
    <2>1. \A b \in Archetype : OwnOf(now)[b] = IF b = a THEN own[b] \ {c} ELSE own[b]
      BY <1>2, <1>13 DEF OwnOf, own
    <2>2. OwnOf(now) = [b \in Archetype |-> OwnOf(now)[b]] /\ DOMAIN own = Archetype
      BY DEF OwnOf, own
    <2> HIDE DEF own, now
    <2> QED BY <2>1, <2>2
  <1>15. OpenOf(now) = closed
    <2>1. \A b \in Archetype : OpenOf(now)[b] = IF b = a THEN open[b] \ {c} ELSE open[b]
      BY <1>2, <1>13 DEF OpenOf, open
    <2>2. OpenOf(now) = [b \in Archetype |-> OpenOf(now)[b]]
      BY DEF OpenOf
    <2>3. closed = [b \in Archetype |-> IF b = a THEN open[b] \ {c} ELSE open[b]]
      BY <1>4 DEF closed
    <2> QED BY <2>1, <2>2, <2>3
  <1>16. Fits(now)
    <2>1. Fits(K)
      BY DEF Sound, K
    <2> QED BY <1>13, <2>1 DEF Fits
  <1> QED BY <1>11, <1>12, <1>14, <1>15, <1>16 DEF Becomes, Sound, K

LEMMA SetChunkCountSets ==
  ASSUME NEW s, Sound(s), NEW a \in Archetype, NEW c \in Chunk,
         s.chunk[c] # Free, s.chunk[c].archetype = a,
         NEW rows \in RowsFor(a), Len(rows) <= chunkCapacity[a],
         Len(rows) # Len(s.chunk[c].rows),
         NEW t, t = setChunkCount(s, c, rows)
  PROVE  Becomes(s, t, c, Holding(a, rows))
  <1> DEFINE K == Contents(s)
             own == OwnOf(K)
             open == OpenOf(K)
             cap == chunkCapacity[a]
             old == s.chunk[c].rows
             t1 == IF Len(rows) = cap THEN removeFromChunkListWithEmptySlots(s, a, c)
                   ELSE IF Len(old) = cap THEN addToChunkListWithEmptySlots(s, a, c)
                   ELSE s
             opened == [open EXCEPT ![a] = IF Len(rows) = cap THEN @ \ {c} ELSE @ \cup {c}]
             now == With(K, c, Holding(a, rows))
  <1>1. Listing(s, own, open) /\ s \in Stores /\ Fits(K)
    BY DEF Sound, Listing
  <1>2. K[c] # Free /\ K[c].archetype = a /\ K[c].rows = old
    BY ContentOf
  <1>3. cap \in Nat \ {0} /\ Len(old) \in Nat /\ Len(old) <= cap /\ Len(rows) \in Nat
    <2>1. old \in RowsFor(a)
      BY <1>1, StoreParts, CellParts
    <2> QED BY <1>1, <1>2, <2>1, StoreAssumption DEF RowsFor, Fits
  <1>4. c \in own[a] /\ (c \in open[a] <=> Len(old) < cap)
    BY <1>2 DEF OwnOf, OpenOf
  <1>5. own \in [Archetype -> SUBSET Chunk] /\ open \in [Archetype -> SUBSET Chunk]
    BY <1>1 DEF Listing
  <1> HIDE DEF K, own, open, cap, old
  <1>6. CASE rows = <<>>
    <2>1. t = releaseChunk(s, a, c) /\ Holding(a, rows) = Free
      BY <1>6 DEF setChunkCount, Holding
    <2> QED BY <2>1, ReleaseChunkFrees
  <1>7. CASE rows # <<>>
    <2>1. Listing(t1, own, opened) /\ Relisted(s, t1)
      <3>1. CASE Len(rows) = cap
        <4>1. c \in open[a]
          BY <1>3, <1>4, <3>1 DEF old
        <4>2. opened = [open EXCEPT ![a] = @ \ {c}]
          BY <3>1
        <4> HIDE DEF opened
        <4> QED BY <1>1, <3>1, <4>1, <4>2, RemoveFromEmptySlots
      <3>2. CASE Len(rows) # cap /\ Len(old) = cap
        <4>1. c \notin open[a]
          BY <1>3, <1>4, <3>2
        <4>2. opened = [open EXCEPT ![a] = @ \cup {c}]
          BY <3>2
        <4> HIDE DEF opened
        <4> QED BY <1>1, <3>2, <4>1, <4>2, AddToEmptySlots
      <3>3. CASE Len(rows) # cap /\ Len(old) # cap
        <4>1. c \in open[a]
          BY <1>3, <1>4, <3>3
        <4>2. opened = open
          BY <1>5, <3>3, <4>1
        <4> QED BY <1>1, <3>3, <4>2 DEF Relisted
      <3> QED BY <3>1, <3>2, <3>3
    <2>2. t = [t1 EXCEPT !.chunk[c].rows = rows]
      BY <1>7 DEF setChunkCount, t1, cap, old
    <2> HIDE DEF t1
    <2>3. Contents(t1) = K /\ Counts(t1) = Counts(s) /\ t1 \in Stores
      BY <2>1 DEF Relisted, K, Listing
    <2>4. t1.chunk[c] # Free /\ t1.chunk[c].archetype = a
      BY <1>2, <2>3, ContentOf
    <2> DEFINE cell == [t1.chunk[c] EXCEPT !.rows = rows]
    <2>5. t1.chunk[c] \in CellsFor(a)
      BY <2>3, <2>4, StoreParts
    <2>6. /\ cell \in CellsFor(a) /\ cell.listIndex = t1.chunk[c].listIndex
          /\ cell.listWithEmptySlotsIndex = t1.chunk[c].listWithEmptySlotsIndex
          /\ cell.rows = rows
      BY <2>5 DEF CellsFor
    <2>7. t = [t1 EXCEPT !.chunk[c] = cell]
      BY <2>2, <2>3 DEF Stores
    <2> HIDE DEF cell, opened, now
    <2>8. cell # Free /\ cell.archetype = a
      BY <2>6, CellParts
    <2>9. Listing(t, own, opened)
      BY <2>1, <2>4, <2>6, <2>7, <2>8, SetCell
    <2>10. Contents(t) = With(Contents(t1), c, Content(cell))
      BY <2>1, <2>4, <2>6, <2>7, <2>8, SetCell
    <2>11. Counts(t) = Counts(s)
      BY <2>1, <2>3, <2>4, <2>6, <2>7, <2>8, SetCell
    <2>12. Content(cell) = [archetype |-> a, rows |-> rows]
           /\ Holding(a, rows) = [archetype |-> a, rows |-> rows]
      BY <1>7, <2>6, <2>8 DEF Content, Holding
    <2>13. Contents(t) = now
      BY <2>3, <2>10, <2>12 DEF now
    <2>14. /\ \A x \in Chunk : x # c => now[x] = K[x]
           /\ now[c] # Free /\ now[c].archetype = a /\ now[c].rows = rows
      <3>1. DOMAIN K = Chunk
        BY DEF K, Contents
      <3>2. now[c] = [archetype |-> a, rows |-> rows] /\ \A x \in Chunk : x # c => now[x] = K[x]
        BY <2>12, <3>1 DEF now, With
      <3> QED BY <3>2, ContentNotFree
    <2>15. OwnOf(now) = own
      <3>1. \A b \in Archetype : OwnOf(now)[b] = own[b]
        BY <1>2, <2>14 DEF OwnOf, own
      <3> QED BY <3>1 DEF OwnOf, own
    <2>16. OpenOf(now) = opened
      <3>1. ASSUME NEW b \in Archetype PROVE OpenOf(now)[b] = opened[b]
        <4>1. CASE b # a
          BY <1>2, <1>5, <2>14, <4>1 DEF OpenOf, open, opened
        <4>2. CASE b = a
          <5>1. opened[a] = IF Len(rows) = cap THEN open[a] \ {c} ELSE open[a] \cup {c}
            BY <1>5 DEF opened
          <5>2. OpenOf(now)[a] = {x \in Chunk : now[x] # Free /\ now[x].archetype = a
                                                /\ Len(now[x].rows) < cap}
            BY DEF OpenOf, cap
          <5>3. open[a] = {x \in Chunk : K[x] # Free /\ K[x].archetype = a
                                         /\ Len(K[x].rows) < cap}
            BY DEF OpenOf, cap, open
          <5>4. Len(rows) < cap <=> Len(rows) # cap
            BY <1>3 DEF cap
          <5> QED BY <2>14, <4>2, <5>1, <5>2, <5>3, <5>4
        <4> QED BY <4>1, <4>2
      <3>2. OpenOf(now) = [b \in Archetype |-> OpenOf(now)[b]]
        BY DEF OpenOf
      <3>3. opened = [b \in Archetype |-> opened[b]]
        BY <1>5 DEF opened
      <3> QED BY <3>1, <3>2, <3>3
    <2>17. Fits(now)
      BY <1>1, <2>14 DEF Fits
    <2> QED BY <2>9, <2>11, <2>13, <2>15, <2>16, <2>17 DEF Becomes, Sound, now, K
  <1> QED BY <1>6, <1>7

--------------------------------------------------------------------------------
(* Rows taken out and put in *)

\* Where each of the rows that stay comes from.
Source(len, first, n, k) ==
  LET fill == Lesser(n, len - (first + n - 1))
  IN IF k \in first .. first + fill - 1 THEN len - fill + 1 + k - first ELSE k

LEMMA RowsWithoutParts ==
  ASSUME NEW D, NEW rows \in Seq(D), NEW first \in Nat \ {0}, NEW n \in Nat \ {0},
         first + n - 1 <= Len(rows)
  PROVE  LET left == RowsWithout(rows, first, n)
         IN /\ left \in Seq(D) /\ Len(left) = Len(rows) - n
            /\ FillCount(rows, first, n) \in 0 .. n
            /\ first + n - 1 + FillCount(rows, first, n) <= Len(rows)
            /\ \A k \in 1 .. Len(left) :
                 /\ left[k] = rows[Source(Len(rows), first, n, k)]
                 /\ Source(Len(rows), first, n, k) \in 1 .. Len(rows)
                 /\ Source(Len(rows), first, n, k) \notin first .. first + n - 1
  <1> DEFINE len == Len(rows)
             fill == FillCount(rows, first, n)
             left == RowsWithout(rows, first, n)
  <1>1. /\ len \in Nat /\ n <= len /\ first <= len /\ len - n \in Nat
        /\ first + n - 1 <= len
    OBVIOUS
  <1>2. fill = IF n <= len - (first + n - 1) THEN n ELSE len - (first + n - 1)
    BY DEF FillCount, Lesser
  <1>3. fill \in 0 .. n /\ first + n - 1 + fill <= len
    <2> HIDE DEF len, fill
    <2> QED BY <1>1, <1>2
  <1>4. \A k : Source(len, first, n, k) = IF k \in first .. first + fill - 1
                                       THEN len - fill + 1 + k - first ELSE k
    BY DEF Source, FillCount
  <1>5. left = [k \in 1 .. len - n |-> IF k \in first .. first + fill - 1
                                         THEN rows[len - fill + 1 + k - first] ELSE rows[k]]
    BY DEF RowsWithout
  <1> HIDE DEF len, fill, left
  <1>6. ASSUME NEW k \in 1 .. len - n
        PROVE  /\ left[k] = rows[Source(len, first, n, k)]
               /\ Source(len, first, n, k) \in 1 .. len
               /\ Source(len, first, n, k) \notin first .. first + n - 1
    <2>1. CASE k \in first .. first + fill - 1
      <3>1. Source(len, first, n, k) = len - fill + 1 + k - first
        BY <1>4, <2>1
      <3>2. left[k] = rows[len - fill + 1 + k - first]
        BY <1>5, <2>1
      <3> DEFINE j == len - fill + 1 + k - first
      <3>3. j \in 1 .. len /\ j \notin first .. first + n - 1
        BY <1>1, <1>3, <2>1
      <3> HIDE DEF j
      <3>4. Source(len, first, n, k) = j /\ left[k] = rows[j]
        BY <3>1, <3>2 DEF j
      <3> QED BY <3>3, <3>4
    <2>2. CASE k \notin first .. first + fill - 1
      <3>1. Source(len, first, n, k) = k /\ left[k] = rows[k]
        BY <1>4, <1>5, <2>2
      <3>2. k \notin first .. first + n - 1
        <4>1. CASE fill = n
          BY <2>2, <4>1
        <4>2. CASE fill = len - (first + n - 1)
          BY <1>1, <1>3, <2>2, <4>2
        <4> QED BY <1>2, <4>1, <4>2
      <3> QED BY <1>1, <3>1, <3>2
    <2> QED BY <2>1, <2>2
  <1>7. left \in Seq(D) /\ Len(left) = len - n
    <2>1. \A k \in 1 .. len - n : left[k] \in D
      <3> TAKE k \in 1 .. len - n
      <3>1. rows[Source(len, first, n, k)] \in D
        BY <1>6 DEF len
      <3> QED BY <1>6, <3>1
    <2>2. left = [k \in 1 .. len - n |-> left[k]]
      BY <1>5
    <2>3. left \in [1 .. len - n -> D]
      BY <2>1, <2>2
    <2> QED BY <1>1, <2>3, SeqDef, LenProperties
  <1> QED BY <1>3, <1>6, <1>7 DEF len, fill, left

LEMMA RowsWithoutType ==
  ASSUME NEW D, NEW rows \in Seq(D), NEW first \in Nat \ {0}, NEW n \in Nat \ {0},
         first + n - 1 <= Len(rows), NEW left, left = RowsWithout(rows, first, n)
  PROVE  left \in Seq(D) /\ Len(left) = Len(rows) - n
  BY RowsWithoutParts

Added(counts, a, n) == [counts EXCEPT ![a] = @ + n]

\* So have the rows counted for a.
BecomesCounted(s, t, c, content, a, n) ==
  /\ Sound(t)
  /\ Contents(t) = With(Contents(s), c, content)
  /\ Counts(t) = Added(Counts(s), a, n)

LEMMA WithoutBatchRemoves ==
  ASSUME NEW s, Sound(s), NEW a \in Archetype, NEW c \in Chunk,
         s.chunk[c] # Free, s.chunk[c].archetype = a,
         NEW first \in Nat \ {0}, NEW n \in Nat \ {0},
         first + n - 1 <= Len(s.chunk[c].rows),
         NEW t, t = WithoutBatch(s, c, first, n)
  PROVE  BecomesCounted(s, t, c, Holding(a, RowsWithout(s.chunk[c].rows, first, n)), a, -n)
  <1> DEFINE old == s.chunk[c].rows
             rows == RowsWithout(old, first, n)
             u == setChunkCount(s, c, rows)
  <1>1. old \in RowsFor(a) /\ s \in Stores /\ Len(old) <= chunkCapacity[a]
    <2>1. s \in Stores /\ Fits(Contents(s))
      BY DEF Sound, Listing
    <2>2. old \in RowsFor(a)
      BY <2>1, StoreParts, CellParts
    <2>3. Contents(s)[c] # Free /\ Contents(s)[c].archetype = a /\ Contents(s)[c].rows = old
      BY ContentOf
    <2> QED BY <2>1, <2>2, <2>3 DEF Fits
  <1>2. rows \in RowsFor(a) /\ Len(rows) = Len(old) - n /\ Len(old) \in Nat
    <2> DEFINE D == [entity : Entity, data : [a -> Value]]
    <2>1. old \in Seq(D)
      BY <1>1 DEF RowsFor
    <2>0. rows = RowsWithout(old, first, n) /\ first + n - 1 <= Len(old)
      OBVIOUS
    <2> HIDE DEF D, old, rows
    <2>2. rows \in Seq(D) /\ Len(rows) = Len(old) - n
      BY <2>0, <2>1, RowsWithoutType
    <2> QED BY <2>1, <2>2 DEF RowsFor, D
  <1>3. chunkCapacity[a] \in Nat
    BY StoreAssumption
  <1>4. Len(rows) <= chunkCapacity[a] /\ Len(rows) # Len(old)
    <2> DEFINE cap == chunkCapacity[a]
               len == Len(old)
               rest == Len(rows)
    <2>1. cap \in Nat /\ len \in Nat /\ len <= cap /\ rest = len - n
      BY <1>1, <1>2, <1>3
    <2> HIDE DEF cap, len, rest
    <2>2. rest <= cap /\ rest # len
      BY <2>1
    <2> QED BY <2>2 DEF cap, len, rest
  <1> HIDE DEF rows, u
  <1>5. Sound(u) /\ Contents(u) = With(Contents(s), c, Holding(a, rows)) /\ Counts(u) = Counts(s)
    <2>1. u = setChunkCount(s, c, rows) /\ Len(rows) # Len(s.chunk[c].rows)
      BY <1>4 DEF u
    <2>2. Becomes(s, u, c, Holding(a, rows))
      BY <1>2, <1>4, <2>1, SetChunkCountSets
    <2> QED BY <2>2 DEF Becomes
  <1>6. t = CountedBy(u, a, -n)
    BY DEF WithoutBatch, u, rows
  <1>7. u.chunk[c] # Free => u.chunk[c].archetype = a
    <2>1. Contents(u)[c] = Holding(a, rows)
      BY <1>5 DEF With, Contents
    <2> SUFFICES ASSUME u.chunk[c] # Free PROVE u.chunk[c].archetype = a
      OBVIOUS
    <2>2. Contents(u)[c] # Free /\ Contents(u)[c].archetype = u.chunk[c].archetype
      BY ContentOf
    <2> QED BY <2>1, <2>2 DEF Holding
  <1>8. Listing(u, OwnOf(Contents(u)), OpenOf(Contents(u))) /\ Fits(Contents(u))
    BY <1>5 DEF Sound
  <1>9. /\ Listing(t, OwnOf(Contents(u)), OpenOf(Contents(u)))
        /\ Contents(t) = Contents(u) /\ Counts(t) = [Counts(u) EXCEPT ![a] = @ + (-n)]
    <2>1. -n \in Int
      OBVIOUS
    <2> QED BY <1>6, <1>7, <1>8, <2>1, CountedByCounts
  <1> QED BY <1>5, <1>8, <1>9 DEF BecomesCounted, Sound, Added, rows

LEMMA AllocateIntoChunkAdds ==
  ASSUME NEW s, Sound(s), NEW a \in Archetype, NEW c \in Chunk,
         s.chunk[c] # Free, s.chunk[c].archetype = a,
         NEW new \in RowsFor(a), new # <<>>,
         Len(s.chunk[c].rows) + Len(new) <= chunkCapacity[a],
         NEW t, t = allocateIntoChunk(s, c, new)
  PROVE  BecomesCounted(s, t, c, [archetype |-> a, rows |-> s.chunk[c].rows \o new],
                        a, Len(new))
  <1> DEFINE old == s.chunk[c].rows
             rows == old \o new
             u == setChunkCount(s, c, rows)
  <1>1. old \in RowsFor(a) /\ s \in Stores
    <2>1. s \in Stores
      BY DEF Sound, Listing
    <2> QED BY <2>1, StoreParts, CellParts
  <1>2. /\ rows \in RowsFor(a) /\ Len(rows) = Len(old) + Len(new) /\ Len(old) \in Nat
        /\ Len(new) \in Nat \ {0} /\ rows # <<>>
    <2> HIDE DEF old
    <2>1. old \in Seq([entity : Entity, data : [a -> Value]])
          /\ new \in Seq([entity : Entity, data : [a -> Value]])
      BY <1>1 DEF RowsFor
    <2>2. rows \in Seq([entity : Entity, data : [a -> Value]])
          /\ Len(rows) = Len(old) + Len(new) /\ Len(old) \in Nat /\ Len(new) \in Nat \ {0}
      BY <2>1
    <2>3. rows # <<>>
      BY <2>2
    <2> QED BY <2>2, <2>3 DEF RowsFor
  <1>3. chunkCapacity[a] \in Nat
    BY StoreAssumption
  <1>4. Len(rows) <= chunkCapacity[a] /\ Len(rows) # Len(old)
    BY <1>1, <1>2, <1>3
  <1>5. Holding(a, rows) = [archetype |-> a, rows |-> rows]
    BY <1>2 DEF Holding
  <1> HIDE DEF rows, u
  <1>6. /\ Sound(u) /\ Contents(u) = With(Contents(s), c, [archetype |-> a, rows |-> rows])
        /\ Counts(u) = Counts(s)
    <2>1. u = setChunkCount(s, c, rows) /\ Len(rows) # Len(s.chunk[c].rows)
      BY <1>4 DEF u
    <2>2. Becomes(s, u, c, Holding(a, rows))
      BY <1>2, <1>4, <2>1, SetChunkCountSets
    <2> QED BY <1>5, <2>2 DEF Becomes
  <1>7. t = CountedBy(u, a, Len(new))
    BY DEF allocateIntoChunk, u, rows
  <1>8. u.chunk[c] # Free => u.chunk[c].archetype = a
    <2>1. Contents(u)[c] = [archetype |-> a, rows |-> rows]
      BY <1>6 DEF With, Contents
    <2> SUFFICES ASSUME u.chunk[c] # Free PROVE u.chunk[c].archetype = a
      OBVIOUS
    <2>2. Contents(u)[c] # Free /\ Contents(u)[c].archetype = u.chunk[c].archetype
      BY ContentOf
    <2> QED BY <2>1, <2>2
  <1>9. Listing(u, OwnOf(Contents(u)), OpenOf(Contents(u))) /\ Fits(Contents(u))
    BY <1>6 DEF Sound
  <1>10. /\ Listing(t, OwnOf(Contents(u)), OpenOf(Contents(u)))
         /\ Contents(t) = Contents(u) /\ Counts(t) = [Counts(u) EXCEPT ![a] = @ + Len(new)]
    <2>1. Len(new) \in Int
      BY <1>2
    <2> QED BY <1>7, <1>8, <1>9, <2>1, CountedByCounts
  <1> QED BY <1>6, <1>9, <1>10 DEF BecomesCounted, Sound, Added, rows

--------------------------------------------------------------------------------
(* The chunk that rows are put into *)

LEMMA CleanChunkListed ==
  ASSUME NEW s, Sound(s), NEW a \in Archetype, NEW c \in Chunk, s.chunk[c] = Free,
         NEW t, t = CleanChunk(s, a, c)
  PROVE  Becomes(s, t, c, [archetype |-> a, rows |-> <<>>])
  <1> DEFINE K == Contents(s)
             own == OwnOf(K)
             open == OpenOf(K)
             cell == [archetype |-> a, rows |-> <<>>,
                      listIndex |-> 0, listWithEmptySlotsIndex |-> 0]
             content == [archetype |-> a, rows |-> <<>>]
             t1 == [s EXCEPT !.chunk[c] = cell]
             t2 == addToChunkList(t1, a, c)
             owned == [own EXCEPT ![a] = @ \cup {c}]
             opened == [open EXCEPT ![a] = @ \cup {c}]
             now == With(K, c, content)
  <1>1. Listing(s, own, open) /\ s \in Stores /\ Fits(K)
    BY DEF Sound, Listing
  <1>2. K[c] = Free /\ DOMAIN K = Chunk
    BY DEF Contents, Content
  <1>3. own \in [Archetype -> SUBSET Chunk] /\ open \in [Archetype -> SUBSET Chunk]
    BY <1>1 DEF Listing
  <1>4. \A b \in Archetype : c \notin own[b] /\ c \notin open[b]
    BY <1>2 DEF OwnOf, OpenOf
  <1>5. cell \in CellsFor(a) /\ cell.archetype = a /\ cell.rows = <<>>
    BY EmptySeq DEF CellsFor, RowsFor
  <1> HIDE DEF K, own, open, cell
  <1>6. cell # Free
    BY <1>5, CellParts
  <1>7. Content(cell) = content
    BY <1>5, <1>6 DEF Content
  <1> HIDE DEF now, content
  <1>8. t1.chunk[c] = cell
    BY <1>1 DEF Stores
  <1>9. Listing(t1, own, open) /\ Contents(t1) = now /\ Counts(t1) = Counts(s)
    <2>1. /\ cell \in {Free} \cup CellsFor(a)
          /\ c \notin own[a] \cup open[a]
      BY <1>4, <1>5
    <2>2. t1 = [s EXCEPT !.chunk[c] = cell]
      OBVIOUS
    <2> HIDE DEF t1
    <2>3. Listing(t1, own, open)
      BY <1>1, <2>1, <2>2, SetCell
    <2>4. Contents(t1) = With(Contents(s), c, Content(cell))
      BY <1>1, <2>1, <2>2, SetCell
    <2>5. Counts(t1) = Counts(s)
      BY <1>1, <2>1, <2>2, SetCell
    <2> QED BY <1>7, <2>3, <2>4, <2>5 DEF now, K
  <1>10. t = addToChunkListWithEmptySlots(t2, a, c)
    BY DEF CleanChunk, cell
  <1>11. t1.chunk[c] # Free /\ t1.chunk[c].archetype = a
    BY <1>5, <1>6, <1>8
  <1> HIDE DEF t1
  <1>12. Listing(t2, owned, open) /\ Relisted(t1, t2)
    BY <1>4, <1>9, <1>11, AddToList
  <1> HIDE DEF t2, owned
  <1>13. t2.chunk[c] # Free /\ t2.chunk[c].archetype = a
    <2>1. Contents(t2)[c] = Contents(t1)[c]
      BY <1>12 DEF Relisted
    <2>2. Contents(t1)[c] # Free /\ Contents(t1)[c].archetype = a
      BY <1>11, ContentOf
    <2>3. t2.chunk[c] # Free
      BY <2>1, <2>2, ContentOf
    <2> QED BY <2>1, <2>2, <2>3, ContentOf
  <1>14. Listing(t, owned, opened) /\ Relisted(t2, t)
    BY <1>4, <1>10, <1>12, <1>13, AddToEmptySlots
  <1> HIDE DEF opened
  <1>15. Contents(t) = now /\ Counts(t) = Counts(s)
    BY <1>9, <1>12, <1>14 DEF Relisted
  <1>16. /\ now[c] # Free /\ now[c].archetype = a /\ now[c].rows = <<>>
         /\ \A x \in Chunk : x # c => now[x] = K[x]
    <2>1. now[c] = content /\ \A x \in Chunk : x # c => now[x] = K[x]
      BY <1>2 DEF now, With
    <2> QED BY <2>1, ContentNotFree DEF content
  <1>17. chunkCapacity[a] \in Nat \ {0}
    BY StoreAssumption
  <1>18. OwnOf(now) = owned
    <2>1. ASSUME NEW b \in Archetype PROVE OwnOf(now)[b] = owned[b]
      <3>1. CASE b = a
        <4>1. owned[a] = own[a] \cup {c}
          BY <1>3 DEF owned
        <4> QED BY <1>2, <1>16, <3>1, <4>1 DEF OwnOf, own
      <3>2. CASE b # a
        <4>1. owned[b] = own[b]
          BY <1>3, <3>2 DEF owned
        <4> QED BY <1>2, <1>16, <3>2, <4>1 DEF OwnOf, own
      <3> QED BY <3>1, <3>2
    <2>2. OwnOf(now) = [b \in Archetype |-> OwnOf(now)[b]]
      BY DEF OwnOf
    <2>3. owned = [b \in Archetype |-> owned[b]]
      BY <1>3 DEF owned
    <2> QED BY <2>1, <2>2, <2>3
  <1>19. OpenOf(now) = opened
    <2>1. ASSUME NEW b \in Archetype PROVE OpenOf(now)[b] = opened[b]
      <3>1. CASE b = a
        <4>1. opened[a] = open[a] \cup {c}
          BY <1>3 DEF opened
        <4>2. Len(now[c].rows) < chunkCapacity[a]
          BY <1>16, <1>17
        <4> QED BY <1>2, <1>16, <3>1, <4>1, <4>2 DEF OpenOf, open
      <3>2. CASE b # a
        <4>1. opened[b] = open[b]
          BY <1>3, <3>2 DEF opened
        <4> QED BY <1>2, <1>16, <3>2, <4>1 DEF OpenOf, open
      <3> QED BY <3>1, <3>2
    <2>2. OpenOf(now) = [b \in Archetype |-> OpenOf(now)[b]]
      BY DEF OpenOf
    <2>3. opened = [b \in Archetype |-> opened[b]]
      BY <1>3 DEF opened
    <2> QED BY <2>1, <2>2, <2>3
  <1>20. Fits(now)
    <2>1. Len(now[c].rows) <= chunkCapacity[now[c].archetype]
      BY <1>16, <1>17
    <2> QED BY <1>1, <1>16, <2>1 DEF Fits
  <1> QED BY <1>14, <1>15, <1>18, <1>19, <1>20 DEF Becomes, Sound, now, K, content

\* c of a, with these rows, can take another one.
HasRoom(K, c, a, rows) ==
  /\ c \in Chunk
  /\ \/ K[c] = Free /\ rows = <<>>
     \/ K[c] = [archetype |-> a, rows |-> rows]
  /\ rows \in RowsFor(a)
  /\ Len(rows) < chunkCapacity[a]

LEMMA GotChunk ==
  ASSUME Sound(store), NEW a \in Archetype, NEW g \in getChunkWithEmptySlots(a)
  PROVE  LET rows == g.store.chunk[g.chunk].rows
         IN /\ Becomes(store, g.store, g.chunk, [archetype |-> a, rows |-> rows])
            /\ HasRoom(Contents(store), g.chunk, a, rows)
            /\ g.store.chunk[g.chunk] # Free /\ g.store.chunk[g.chunk].archetype = a
  <1> DEFINE K == Contents(store)
             listed == store.archetype[a].chunksWithEmptySlots
             rows == g.store.chunk[g.chunk].rows
  <1>1. Listing(store, OwnOf(K), OpenOf(K)) /\ store \in Stores /\ Fits(K)
    BY DEF Sound, Listing
  <1>2. CASE listed # <<>>
    <2>1. g.chunk = Last(listed) /\ g.store = store
      BY <1>2 DEF getChunkWithEmptySlots
    <2>2. listed \in Seq(Chunk) /\ Range(listed) = OpenOf(K)[a]
      BY <1>1, StoreParts DEF Listing, Listed, ArchetypeRecords
    <2>3. Last(listed) \in Range(listed)
      <3> HIDE DEF listed
      <3> QED BY <1>2, <2>2 DEF Last, Range
    <2>4. g.chunk \in Chunk /\ K[g.chunk] # Free /\ K[g.chunk].archetype = a
          /\ Len(K[g.chunk].rows) < chunkCapacity[a]
      BY <2>1, <2>2, <2>3 DEF OpenOf
    <2>5. /\ store.chunk[g.chunk] # Free /\ store.chunk[g.chunk].archetype = a
          /\ K[g.chunk].rows = rows /\ K[g.chunk] = [archetype |-> a, rows |-> rows]
      <3> DEFINE c == g.chunk
      <3>1. rows = store.chunk[c].rows
        BY <2>1
      <3>2. c \in Chunk /\ K[c] # Free /\ K[c].archetype = a
        BY <2>4
      <3> HIDE DEF rows, listed, c
      <3>3. store.chunk[c] # Free
        BY <3>2, ContentOf
      <3>4. K[c] = [archetype |-> store.chunk[c].archetype, rows |-> store.chunk[c].rows]
        BY <3>2, <3>3, ContentOf
      <3>5. K[c].archetype = store.chunk[c].archetype /\ K[c].rows = store.chunk[c].rows
        BY <3>2, <3>3, ContentOf
      <3>6. K[c] = [archetype |-> a, rows |-> rows]
        BY <3>1, <3>2, <3>4, <3>5
      <3> QED BY <3>1, <3>2, <3>3, <3>5, <3>6 DEF c
    <2>6. rows \in RowsFor(a)
      BY <1>1, <2>1, <2>4, <2>5, StoreParts, CellParts
    <2>7. K = With(K, g.chunk, [archetype |-> a, rows |-> rows])
      <3>1. DOMAIN K = Chunk /\ K = [x \in Chunk |-> K[x]]
        BY DEF Contents
      <3> HIDE DEF K
      <3> QED BY <2>4, <2>5, <3>1 DEF With
    <2> QED BY <2>1, <2>4, <2>5, <2>6, <2>7 DEF Becomes, HasRoom
  <1>3. CASE listed = <<>>
    <2>1. PICK c \in Chunk \ Used : g = [chunk |-> c, store |-> CleanChunk(store, a, c)]
      BY <1>3 DEF getChunkWithEmptySlots
    <2>2. g.chunk = c /\ g.store = CleanChunk(store, a, c)
      BY <2>1
    <2>3. store.chunk[c] = Free
      BY DEF Used
    <2>4. Becomes(store, g.store, c, [archetype |-> a, rows |-> <<>>])
      BY <2>2, <2>3, CleanChunkListed
    <2>5. K[c] = Free
      BY <2>3, ContentOf
    <2>6. Contents(g.store)[c] = [archetype |-> a, rows |-> <<>>]
      BY <2>4 DEF Becomes, With, Contents
    <2>7. g.store.chunk[c] # Free
      BY <2>6, ContentIs
    <2>8. g.store.chunk[c].archetype = a /\ g.store.chunk[c].rows = <<>>
      BY <2>6, ContentIs
    <2>9. chunkCapacity[a] \in Nat \ {0}
      BY StoreAssumption
    <2>10. <<>> \in RowsFor(a) /\ Len(<<>>) = 0
      BY EmptySeq DEF RowsFor
    <2> QED BY <2>2, <2>4, <2>5, <2>7, <2>8, <2>9, <2>10 DEF HasRoom
  <1> QED BY <1>2, <1>3

--------------------------------------------------------------------------------
(* How many rows there are *)

\* The rows, chunk and number, of the archetypes of A.
RowPairs(K, A) ==
  {p \in Chunk \X Nat : /\ K[p[1]] # Free /\ K[p[1]].archetype \in A
                        /\ p[2] \in 1 .. Len(K[p[1]].rows)}

\* How many of them are in a chunk with this content.
RowsIn(content, A) ==
  IF content # Free /\ content.archetype \in A THEN Len(content.rows) ELSE 0

LEMMA RowsInChunk ==
  ASSUME NEW c, NEW m \in Nat
  PROVE  IsFiniteSet({c} \X (1 .. m)) /\ Cardinality({c} \X (1 .. m)) = m
  <1> DEFINE f == [k \in 1 .. m |-> <<c, k>>]
             T == {c} \X (1 .. m)
  <1>1. IsFiniteSet(1 .. m) /\ Cardinality(1 .. m) = m
    BY FS_Interval
  <1>2. f \in Bijection(1 .. m, T)
    <2>1. f \in [1 .. m -> T]
      OBVIOUS
    <2>2. \A i, k \in 1 .. m : f[i] = f[k] => i = k
      OBVIOUS
    <2>3. \A p \in T : \E k \in 1 .. m : f[k] = p
      OBVIOUS
    <2> HIDE DEF f, T
    <2> QED BY <2>1, <2>2, <2>3 DEF Bijection, Injection, Surjection, IsInjective
  <1>3. ExistsBijection(1 .. m, T)
    BY <1>2 DEF ExistsBijection
  <1> HIDE DEF T
  <1>4. IsFiniteSet(T) /\ Cardinality(T) = m
    BY <1>1, <1>3, FS_Bijection
  <1> QED BY <1>4 DEF T

CountMoved(K, L, c, content, A) ==
  /\ IsFiniteSet(RowPairs(L, A))
  /\ Cardinality(RowPairs(L, A)) =
       Cardinality(RowPairs(K, A)) - RowsIn(K[c], A) + RowsIn(content, A)
  /\ Cardinality(RowPairs(L, A)) \in Nat /\ Cardinality(RowPairs(K, A)) \in Nat

LEMMA CountChanges ==
  ASSUME NEW K, DOMAIN K = Chunk, NEW c \in Chunk, NEW content, NEW A,
         IsFiniteSet(RowPairs(K, A)),
         RowsIn(K[c], A) \in Nat, RowsIn(content, A) \in Nat,
         NEW L, L = With(K, c, content)
  PROVE  CountMoved(K, L, c, content, A)
  <1> DEFINE m == RowsIn(K[c], A)
             n == RowsIn(content, A)
             rest == {p \in RowPairs(K, A) : p[1] # c}
             was == {c} \X (1 .. m)
             is == {c} \X (1 .. n)
  <1>1. L[c] = content /\ \A x \in Chunk : x # c => L[x] = K[x]
    BY DEF With
  <1>2. RowPairs(K, A) = rest \cup was
    BY DEF RowPairs, RowsIn
  <1>3. RowPairs(L, A) = rest \cup is
    BY <1>1 DEF RowPairs, RowsIn
  <1>4. rest \cap was = {} /\ rest \cap is = {}
    OBVIOUS
  <1>5. rest \subseteq RowPairs(K, A)
    OBVIOUS
  <1> HIDE DEF rest, was, is, m, n
  <1>6. IsFiniteSet(rest)
    BY <1>5, FS_Subset
  <1>7. /\ IsFiniteSet(was) /\ Cardinality(was) = m
        /\ IsFiniteSet(is) /\ Cardinality(is) = n /\ m \in Nat /\ n \in Nat
    BY RowsInChunk DEF was, is, m, n
  <1>8. Cardinality(rest) \in Nat /\ Cardinality({}) = 0
    BY <1>6, FS_CardinalityType, FS_EmptySet
  <1>9. Cardinality(RowPairs(K, A)) = Cardinality(rest) + m
    <2>1. Cardinality(rest \cup was) =
            Cardinality(rest) + Cardinality(was) - Cardinality(rest \cap was)
      BY <1>6, <1>7, FS_Union
    <2>2. Cardinality(rest \cap was) = 0
      BY <1>4, <1>8, Zenon
    <2>3. Cardinality(RowPairs(K, A)) = Cardinality(rest \cup was)
      BY <1>2, Zenon
    <2> QED BY <1>7, <1>8, <2>1, <2>2, <2>3
  <1>10. IsFiniteSet(RowPairs(L, A)) /\ Cardinality(RowPairs(L, A)) = Cardinality(rest) + n
    <2>1. /\ IsFiniteSet(rest \cup is)
          /\ Cardinality(rest \cup is) =
               Cardinality(rest) + Cardinality(is) - Cardinality(rest \cap is)
      BY <1>6, <1>7, FS_Union
    <2>2. Cardinality(rest \cap is) = 0
      BY <1>4, <1>8, Zenon
    <2>3. Cardinality(RowPairs(L, A)) = Cardinality(rest \cup is)
      BY <1>3, Zenon
    <2>4. IsFiniteSet(RowPairs(L, A))
      BY <1>3, <2>1, Zenon
    <2> QED BY <1>7, <1>8, <2>1, <2>2, <2>3, <2>4
  <1>11. Cardinality(RowPairs(L, A)) = Cardinality(RowPairs(K, A)) - m + n
    BY <1>7, <1>8, <1>9, <1>10
  <1> QED BY <1>7, <1>8, <1>9, <1>10, <1>11 DEF m, n, CountMoved

--------------------------------------------------------------------------------
(* The hole is filled from the end *)

\* Every row that stays has a place among those that are left.
AllStay(len, first, n) ==
  \A k \in (1 .. len) \ (first .. first + n - 1) :
    \E j \in 1 .. len - n : Source(len, first, n, j) = k

LEMMA SourceOnto ==
  ASSUME NEW len \in Nat, NEW first \in Nat \ {0}, NEW n \in Nat \ {0},
         first + n - 1 <= len
  PROVE  AllStay(len, first, n)
  <1> DEFINE fill == Lesser(n, len - (first + n - 1))
  <1> SUFFICES ASSUME NEW k \in (1 .. len) \ (first .. first + n - 1)
               PROVE  \E j \in 1 .. len - n : Source(len, first, n, j) = k
    BY DEF AllStay
  <1>1. fill = IF n <= len - (first + n - 1) THEN n ELSE len - (first + n - 1)
    BY DEF Lesser
  <1>2. \A j : Source(len, first, n, j) = IF j \in first .. first + fill - 1
                                       THEN len - fill + 1 + j - first ELSE j
    BY DEF Source
  <1> HIDE DEF fill
  <1>3. fill \in 0 .. n /\ first + n - 1 + fill <= len
    BY <1>1
  <1>4. CASE k <= len - fill
    <2>1. k \notin first .. first + fill - 1
      BY <1>3
    <2>2. k \in 1 .. len - n
      <3>1. CASE fill = n
        BY <1>4, <3>1
      <3>2. CASE fill = len - (first + n - 1)
        BY <1>4, <3>2
      <3> QED BY <1>1, <3>1, <3>2
    <2>3. Source(len, first, n, k) = k
      BY <1>2, <2>1
    <2> QED BY <2>2, <2>3
  <1>5. CASE k > len - fill
    <2> DEFINE j == first + k - (len - fill + 1)
    <2>1. j \in first .. first + fill - 1 /\ len - fill + 1 + j - first = k
      BY <1>3, <1>5
    <2>2. j \in 1 .. len - n
      BY <1>3, <2>1
    <2>3. Source(len, first, n, j) = k
      BY <1>2, <2>1
    <2> HIDE DEF j
    <2> QED BY <2>1, <2>2, <2>3
  <1> QED BY <1>3, <1>4, <1>5

--------------------------------------------------------------------------------
(* Where the entities are.  Rows first .. first + n - 1 of chunk h are a   *)
(* hole: they are no longer anybody's.                                     *)

At(c, k) == [chunk |-> c, index |-> k]

InPlace(K, c, k, h, first, n) ==
  /\ K[c] # Free
  /\ k \in 1 .. Len(K[c].rows)
  /\ ~(c = h /\ k \in first .. first + n - 1)

Placement(K, place, h, first, n) ==
  /\ place = [e \in Entity |-> place[e]]
  /\ \A c \in Chunk, k \in Nat :
       InPlace(K, c, k, h, first, n) => place[K[c].rows[k].entity] = At(c, k)
  /\ \A e \in Entity : place[e] # Nowhere =>
       \E c \in Chunk, k \in Nat :
         InPlace(K, c, k, h, first, n) /\ place[e] = At(c, k) /\ K[c].rows[k].entity = e

\* What the callers see.
TableOf(K, place) ==
  [e \in Entity |-> IF place[e] # Nowhere
                      THEN <<K[place[e].chunk].rows[place[e].index].data>> ELSE Dead]

WellFormed(K) ==
  /\ DOMAIN K = Chunk
  /\ \A c \in Chunk : K[c] # Free =>
       K[c].archetype \in Archetype /\ K[c].rows \in RowsFor(K[c].archetype)

LEMMA RowParts ==
  ASSUME NEW a, NEW rows \in RowsFor(a)
  PROVE  /\ Len(rows) \in Nat
         /\ \A k \in 1 .. Len(rows) : rows[k].entity \in Entity /\ rows[k].data \in [a -> Value]
  <1> DEFINE D == [entity : Entity, data : [a -> Value]]
  <1>1. rows \in Seq(D)
    BY DEF RowsFor
  <1>2. \A d \in D : d.entity \in Entity /\ d.data \in [a -> Value]
    OBVIOUS
  <1> HIDE DEF D
  <1>3. Len(rows) \in Nat /\ \A k \in 1 .. Len(rows) : rows[k] \in D
    BY <1>1
  <1> QED BY <1>2, <1>3

LEMMA AtParts ==
  ASSUME NEW c, NEW k, NEW d, NEW j
  PROVE  /\ At(c, k).chunk = c /\ At(c, k).index = k /\ At(c, k) # Nowhere
         /\ At(c, k) = At(d, j) => c = d /\ k = j
  BY PlaceNotNowhere DEF At

\* Those of rows from .. to are there, the others where they were.
PlacedThere(q, place, c, rows, from, to) ==
  /\ q = [e \in Entity |-> q[e]]
  /\ \A k \in from .. to : q[rows[k].entity] = At(c, k)
  /\ \A e \in Entity : (\A k \in from .. to : rows[k].entity # e) => q[e] = place[e]

LEMMA PlacedPlaces ==
  ASSUME NEW place, place = [e \in Entity |-> place[e]], NEW c, NEW rows,
         NEW from \in Int, NEW to \in Int,
         \A k \in from .. to : rows[k].entity \in Entity,
         \A i, k \in from .. to : rows[i].entity = rows[k].entity => i = k,
         NEW q, q = Placed(place, c, rows, from, to)
  PROVE  PlacedThere(q, place, c, rows, from, to)
  <1>1. q = [e \in Entity |-> q[e]]
    BY DEF Placed
  <1>2. ASSUME NEW k \in from .. to PROVE q[rows[k].entity] = At(c, k)
    <2> DEFINE e == rows[k].entity
               i == CHOOSE x \in from .. to : rows[x].entity = e
    <2>1. i \in from .. to /\ rows[i].entity = e
      OBVIOUS
    <2>2. i = k
      BY <2>1
    <2>3. q[e] = [chunk |-> c, index |-> i]
      BY <2>1 DEF Placed
    <2> QED BY <2>2, <2>3 DEF At
  <1>3. ASSUME NEW e \in Entity, \A k \in from .. to : rows[k].entity # e
        PROVE  q[e] = place[e]
    BY <1>3 DEF Placed
  <1> QED BY <1>1, <1>2, <1>3 DEF PlacedThere

\* Chunk c of archetype a has the rows before, and then new as well.
Appended(K, L, c, a, before, new) ==
  /\ HasRoom(K, c, a, before)
  /\ new \in RowsFor(a)
  /\ L = With(K, c, [archetype |-> a, rows |-> before \o new])

AppendedParts(K, L, c, a, before, new, rows) ==
  /\ c \in Chunk /\ Len(before) \in Nat /\ Len(new) \in Nat
  /\ Len(rows) = Len(before) + Len(new)
  /\ \A k \in 1 .. Len(before) : rows[k] = before[k]
  /\ \A i \in 1 .. Len(new) : rows[Len(before) + i] = new[i]
  /\ L[c] # Free /\ L[c].archetype = a /\ L[c].rows = rows
  /\ \A x \in Chunk : x # c => L[x] = K[x]
  /\ K[c] # Free => K[c].archetype = a /\ K[c].rows = before
  /\ K[c] = Free => before = <<>>

LEMMA AppendedRows ==
  ASSUME NEW K, WellFormed(K), NEW L, NEW c, NEW a, NEW before, NEW new,
         Appended(K, L, c, a, before, new), NEW rows, rows = before \o new
  PROVE  AppendedParts(K, L, c, a, before, new, rows)
  <1>1. c \in Chunk /\ before \in RowsFor(a) /\ new \in RowsFor(a)
    BY DEF Appended, HasRoom
  <1>2. /\ Len(before) \in Nat /\ Len(new) \in Nat
        /\ Len(rows) = Len(before) + Len(new)
        /\ \A k \in 1 .. Len(before) : rows[k] = before[k]
        /\ \A i \in 1 .. Len(new) : rows[Len(before) + i] = new[i]
    <2>1. before \in Seq([entity : Entity, data : [a -> Value]])
          /\ new \in Seq([entity : Entity, data : [a -> Value]])
      BY <1>1 DEF RowsFor
    <2> DEFINE D == [entity : Entity, data : [a -> Value]]
    <2> HIDE DEF D
    <2>2. before \in Seq(D) /\ new \in Seq(D)
      BY <2>1 DEF D
    <2> QED BY <2>2
  <1>3. L[c] = [archetype |-> a, rows |-> rows] /\ \A x \in Chunk : x # c => L[x] = K[x]
    BY <1>1 DEF Appended, With, WellFormed
  <1>4. L[c] # Free /\ L[c].archetype = a /\ L[c].rows = rows
    BY <1>3, ContentNotFree
  <1>5. K[c] # Free => K[c].archetype = a /\ K[c].rows = before
    BY DEF Appended, HasRoom
  <1>6. K[c] = Free => before = <<>>
    BY ContentNotFree DEF Appended, HasRoom
  <1> QED BY <1>1, <1>2, <1>3, <1>4, <1>5, <1>6 DEF AppendedParts

\* The new rows are for new entities, or for those of the hole.
Fresh(K, new, h, first, n) ==
  /\ \A i, k \in 1 .. Len(new) : new[i].entity = new[k].entity => i = k
  /\ \A x \in Chunk, k \in Nat, i \in 1 .. Len(new) :
       InPlace(K, x, k, h, first, n) => K[x].rows[k].entity # new[i].entity
  /\ \A k \in first .. first + n - 1 : \E i \in 1 .. Len(new) :
       new[i].entity = K[h].rows[k].entity

\* Some entities have the data of these rows, the others what they had.
Gives(T, U, new) ==
  /\ \A i \in 1 .. Len(new) : U[new[i].entity] = <<new[i].data>>
  /\ \A e \in Entity : (\A i \in 1 .. Len(new) : new[i].entity # e) => U[e] = T[e]

LEMMA AppendPlaces ==
  ASSUME NEW K, WellFormed(K), NEW L, NEW c, NEW a, NEW before, NEW new,
         Appended(K, L, c, a, before, new),
         NEW h, NEW first \in Nat, NEW n \in Nat, n = 0 \/ h # c,
         NEW place, Placement(K, place, h, first, 0), Fresh(K, new, h, first, n),
         NEW q, q = Placed(place, c, before \o new,
                           Len(before) + 1, Len(before) + Len(new))
  PROVE  Placement(L, q, h, first, n) /\ Gives(TableOf(K, place), TableOf(L, q), new)
  <1> DEFINE rows == before \o new
             b == Len(before)
             m == Len(new)
  <1>1. /\ c \in Chunk /\ b \in Nat /\ m \in Nat /\ Len(rows) = b + m
        /\ \A k \in 1 .. b : rows[k] = before[k]
        /\ \A i \in 1 .. m : rows[b + i] = new[i]
        /\ L[c] # Free /\ L[c].rows = rows
        /\ \A x \in Chunk : x # c => L[x] = K[x]
        /\ K[c] # Free => K[c].rows = before
        /\ K[c] = Free => b = 0
    <2> HIDE DEF rows
    <2>1. AppendedParts(K, L, c, a, before, new, rows)
      BY AppendedRows DEF rows
    <2> QED BY <2>1 DEF AppendedParts
  <1>2. \A i \in 1 .. m : new[i].entity \in Entity
    BY RowParts DEF Appended
  <1> HIDE DEF rows, b, m
  <1>3. \A k \in 1 .. b + m : k \in 1 .. b \/ (k - b \in 1 .. m /\ b + (k - b) = k)
    BY <1>1
  <1>4. \A i \in 1 .. m : b + i \in b + 1 .. b + m /\ b + i \in 1 .. b + m
    BY <1>1
  <1>5. \A k \in b + 1 .. b + m : k - b \in 1 .. m /\ rows[k] = new[k - b]
    BY <1>1
  <1>6. /\ q = [e \in Entity |-> q[e]]
        /\ \A k \in b + 1 .. b + m : q[rows[k].entity] = At(c, k)
        /\ \A e \in Entity : (\A k \in b + 1 .. b + m : rows[k].entity # e) => q[e] = place[e]
    <2>1. \A k \in b + 1 .. b + m : rows[k].entity \in Entity
      BY <1>2, <1>5
    <2>2. \A i, k \in b + 1 .. b + m : rows[i].entity = rows[k].entity => i = k
      <3> TAKE i, k \in b + 1 .. b + m
      <3>1. new[i - b].entity = new[k - b].entity => i - b = k - b
        BY <1>5 DEF Fresh, m
      <3> QED BY <1>1, <1>5, <3>1
    <2>3. q = Placed(place, c, rows, b + 1, b + m) /\ b + 1 \in Int /\ b + m \in Int
      BY <1>1 DEF rows, b, m
    <2>4. place = [e \in Entity |-> place[e]]
      BY DEF Placement
    <2>5. PlacedThere(q, place, c, rows, b + 1, b + m)
      BY <2>1, <2>2, <2>3, <2>4, PlacedPlaces
    <2> QED BY <2>5 DEF PlacedThere
  <1>7. \A i \in 1 .. m : q[new[i].entity] = At(c, b + i)
    BY <1>1, <1>4, <1>6
  <1>8. \A e \in Entity : (\A i \in 1 .. m : new[i].entity # e) => q[e] = place[e]
    BY <1>5, <1>6
  <1>9. \A x \in Chunk, k \in Nat : InPlace(K, x, k, h, first, n) =>
          /\ InPlace(L, x, k, h, first, n) /\ L[x].rows[k] = K[x].rows[k]
          /\ \A i \in 1 .. m : K[x].rows[k].entity # new[i].entity
    <2> SUFFICES ASSUME NEW x \in Chunk, NEW k \in Nat, InPlace(K, x, k, h, first, n)
                 PROVE  /\ InPlace(L, x, k, h, first, n) /\ L[x].rows[k] = K[x].rows[k]
                        /\ \A i \in 1 .. m : K[x].rows[k].entity # new[i].entity
      OBVIOUS
    <2>1. \A i \in 1 .. m : K[x].rows[k].entity # new[i].entity
      BY DEF Fresh, m
    <2>2. CASE x = c
      <3>1. K[c].rows = before /\ k \in 1 .. b
        BY <1>1, <2>2 DEF InPlace, b
      <3>2. k \in 1 .. b + m
        BY <1>1, <3>1
      <3> QED BY <1>1, <2>1, <2>2, <3>1, <3>2 DEF InPlace
    <2>3. CASE x # c
      BY <1>1, <2>1, <2>3 DEF InPlace
    <2> QED BY <2>2, <2>3
  <1>10. \A x \in Chunk, k \in Nat : InPlace(K, x, k, h, first, 0) =>
           \/ InPlace(K, x, k, h, first, n)
           \/ \E i \in 1 .. m : K[x].rows[k].entity = new[i].entity
    BY DEF InPlace, Fresh, m
  <1>11. \A x \in Chunk, k \in Nat : InPlace(K, x, k, h, first, n) =>
           InPlace(K, x, k, h, first, 0)
    BY DEF InPlace
  <1>12. ASSUME NEW x \in Chunk, NEW k \in Nat, InPlace(L, x, k, h, first, n)
         PROVE  q[L[x].rows[k].entity] = At(x, k)
    <2>1. CASE InPlace(K, x, k, h, first, n)
      <3>1. K[x].rows[k].entity \in Entity
        BY <2>1, RowParts DEF WellFormed, InPlace
      <3>2. place[K[x].rows[k].entity] = At(x, k)
        BY <1>11, <2>1 DEF Placement
      <3> QED BY <1>8, <1>9, <2>1, <3>1, <3>2
    <2>2. CASE ~InPlace(K, x, k, h, first, n)
      <3>1. x = c
        BY <1>1, <1>12, <2>2 DEF InPlace
      <3>2. k \in 1 .. b + m
        BY <1>1, <1>12, <3>1 DEF InPlace
      <3>3. k \notin 1 .. b
        <4> SUFFICES ASSUME k \in 1 .. b PROVE FALSE
          OBVIOUS
        <4>1. K[c] # Free /\ K[c].rows = before
          BY <1>1
        <4> QED BY <1>12, <2>2, <3>1, <4>1 DEF InPlace, b
      <3>4. k - b \in 1 .. m /\ rows[k] = new[k - b] /\ k = b + (k - b)
        BY <1>1, <1>3, <3>2, <3>3
      <3> QED BY <1>1, <1>7, <3>1, <3>4
    <2> QED BY <2>1, <2>2
  <1>13. ASSUME NEW i \in 1 .. m
         PROVE  InPlace(L, c, b + i, h, first, n) /\ L[c].rows[b + i] = new[i] /\ b + i \in Nat
    BY <1>1, <1>4 DEF InPlace
  <1>14. ASSUME NEW e \in Entity, q[e] # Nowhere
         PROVE  \E x \in Chunk, k \in Nat :
                  InPlace(L, x, k, h, first, n) /\ q[e] = At(x, k) /\ L[x].rows[k].entity = e
    <2>1. CASE \E i \in 1 .. m : new[i].entity = e
      BY <1>1, <1>7, <1>13, <2>1
    <2>2. CASE \A i \in 1 .. m : new[i].entity # e
      <3>1. place[e] = q[e]
        BY <1>8, <2>2
      <3>2. PICK x \in Chunk, k \in Nat :
              InPlace(K, x, k, h, first, 0) /\ place[e] = At(x, k) /\ K[x].rows[k].entity = e
        BY <1>14, <3>1 DEF Placement
      <3>3. InPlace(K, x, k, h, first, n)
        BY <1>10, <2>2, <3>2
      <3> QED BY <1>9, <3>1, <3>2, <3>3
    <2> QED BY <2>1, <2>2
  <1>15. Placement(L, q, h, first, n)
    BY <1>6, <1>12, <1>14 DEF Placement
  <1>16. ASSUME NEW i \in 1 .. m PROVE TableOf(L, q)[new[i].entity] = <<new[i].data>>
    <2> DEFINE e == new[i].entity
    <2>1. e \in Entity /\ q[e] = At(c, b + i)
      BY <1>2, <1>7
    <2>2. q[e] # Nowhere /\ q[e].chunk = c /\ q[e].index = b + i
      BY <2>1, AtParts
    <2>3. L[c].rows[b + i] = new[i]
      BY <1>13
    <2> HIDE DEF e
    <2>4. TableOf(L, q)[e] = <<L[q[e].chunk].rows[q[e].index].data>>
      BY <2>1, <2>2 DEF TableOf
    <2> QED BY <2>2, <2>3, <2>4 DEF e
  <1>17. ASSUME NEW e \in Entity, \A i \in 1 .. m : new[i].entity # e
         PROVE  TableOf(L, q)[e] = TableOf(K, place)[e]
    <2>1. place[e] = q[e]
      BY <1>8, <1>17
    <2>2. CASE q[e] = Nowhere
      BY <2>1, <2>2 DEF TableOf
    <2>3. CASE q[e] # Nowhere
      <3>1. PICK x \in Chunk, k \in Nat :
              InPlace(K, x, k, h, first, 0) /\ place[e] = At(x, k) /\ K[x].rows[k].entity = e
        BY <2>1, <2>3 DEF Placement
      <3>2. InPlace(K, x, k, h, first, n)
        BY <1>10, <1>17, <3>1
      <3>3. L[x].rows[k] = K[x].rows[k]
        BY <1>9, <3>2
      <3>4. place[e].chunk = x /\ place[e].index = k
        BY <3>1, AtParts
      <3> QED BY <2>1, <2>3, <3>3, <3>4 DEF TableOf
    <2> QED BY <2>2, <2>3
  <1> QED BY <1>15, <1>16, <1>17 DEF m, Gives

\* Chunk c of archetype a has lost its rows first .. first + n - 1.
Removed(K, L, c, a, first, n) ==
  /\ c \in Chunk /\ K[c] # Free /\ K[c].archetype = a
  /\ first \in Nat \ {0} /\ n \in Nat \ {0}
  /\ first + n - 1 <= Len(K[c].rows)
  /\ L = With(K, c, Holding(a, RowsWithout(K[c].rows, first, n)))

RemovedParts(K, L, c, a, first, n, len, fill, left) ==
  /\ len \in Nat /\ len = Len(K[c].rows) /\ first + n - 1 <= len
  /\ fill \in 0 .. n /\ fill = Lesser(n, len - (first + n - 1))
  /\ first + n - 1 + fill <= len
  /\ left \in RowsFor(a) /\ Len(left) = len - n /\ len - n \in Nat
  /\ \A k \in 1 .. len - n :
       /\ left[k] = K[c].rows[Source(len, first, n, k)]
       /\ Source(len, first, n, k) \in 1 .. len
       /\ Source(len, first, n, k) \notin first .. first + n - 1
  /\ L[c] = Holding(a, left)
  /\ L[c] # Free => L[c].archetype = a /\ L[c].rows = left
  /\ len - n > 0 => L[c] # Free
  /\ L[c] # Free => len - n > 0
  /\ \A x \in Chunk : x # c => L[x] = K[x]

LEMMA RemovedRows ==
  ASSUME NEW K, WellFormed(K), NEW L, NEW c, NEW a, NEW first, NEW n,
         Removed(K, L, c, a, first, n),
         NEW len, len = Len(K[c].rows), NEW fill, fill = FillCount(K[c].rows, first, n),
         NEW left, left = RowsWithout(K[c].rows, first, n)
  PROVE  RemovedParts(K, L, c, a, first, n, len, fill, left)
  <1> DEFINE rows == K[c].rows
             D == [entity : Entity, data : [a -> Value]]
  <1>1. /\ c \in Chunk /\ first \in Nat \ {0} /\ n \in Nat \ {0}
        /\ first + n - 1 <= Len(rows) /\ rows \in RowsFor(a)
        /\ L = With(K, c, Holding(a, left))
    BY DEF Removed, WellFormed
  <1>2. rows \in Seq(D)
    BY <1>1 DEF RowsFor
  <1>3. len = Len(rows) /\ fill = FillCount(rows, first, n) /\ left = RowsWithout(rows, first, n)
    OBVIOUS
  <1>4. fill = Lesser(n, len - (first + n - 1))
    BY <1>3 DEF FillCount
  <1> HIDE DEF rows, D
  <1>5. /\ left \in Seq(D) /\ Len(left) = len - n /\ fill \in 0 .. n
        /\ first + n - 1 + fill <= len
        /\ \A k \in 1 .. Len(left) :
             /\ left[k] = rows[Source(len, first, n, k)]
             /\ Source(len, first, n, k) \in 1 .. len
             /\ Source(len, first, n, k) \notin first .. first + n - 1
    BY <1>1, <1>2, <1>3, RowsWithoutParts
  <1>6. len \in Nat /\ Len(left) \in Nat
    BY <1>2, <1>3, <1>5
  <1>7. left \in RowsFor(a)
    BY <1>5 DEF RowsFor, D
  <1>8. L[c] = Holding(a, left) /\ \A x \in Chunk : x # c => L[x] = K[x]
    BY <1>1 DEF With, WellFormed
  <1>9. left = <<>> <=> Len(left) = 0
    BY <1>5
  <1>10. /\ L[c] # Free => L[c].archetype = a /\ L[c].rows = left /\ Len(left) # 0
         /\ Len(left) # 0 => L[c] # Free
    <2>1. CASE left = <<>>
      BY <1>8, <1>9, <2>1 DEF Holding
    <2>2. CASE left # <<>>
      <3>1. L[c] = [archetype |-> a, rows |-> left]
        BY <1>8, <2>2 DEF Holding
      <3> QED BY <1>9, <2>2, <3>1, ContentNotFree
    <2> QED BY <2>1, <2>2
  <1>11. /\ len - n > 0 => L[c] # Free
         /\ L[c] # Free => len - n > 0
         /\ len - n \in Nat
    <2>1. Len(left) = len - n /\ Len(left) \in Nat
      BY <1>5, <1>6
    <2>2. \A m \in Nat : \A d : m = d => (d > 0 <=> m # 0) /\ d \in Nat
      OBVIOUS
    <2>3. (len - n > 0 <=> Len(left) # 0) /\ len - n \in Nat
      BY <2>1, <2>2, Zenon
    <2> QED BY <1>10, <2>3
  <1> QED BY <1>1, <1>3, <1>4, <1>5, <1>6, <1>7, <1>8, <1>10, <1>11 DEF RemovedParts, rows

LEMMA FillPlaces ==
  ASSUME NEW K, WellFormed(K), NEW L, NEW c, NEW a, NEW first, NEW n,
         Removed(K, L, c, a, first, n),
         NEW place, Placement(K, place, c, first, n),
         NEW q, q = Filled(place, c, K[c].rows, first, n)
  PROVE  Placement(L, q, c, first, 0) /\ TableOf(L, q) = TableOf(K, place)
  <1> DEFINE rows == K[c].rows
             len == Len(rows)
             fill == FillCount(rows, first, n)
             left == RowsWithout(rows, first, n)
             src(k) == Source(len, first, n, k)
             tail == first .. first + fill - 1
  <1>1. c \in Chunk /\ first \in Nat \ {0} /\ n \in Nat \ {0} /\ K[c] # Free
    BY DEF Removed
  <1>2. RemovedParts(K, L, c, a, first, n, len, fill, left)
    BY RemovedRows
  <1>3. q = Placed(place, c, left, first, first + fill - 1)
    BY DEF Filled
  <1> HIDE DEF len, fill, left
  <1>4. /\ len \in Nat /\ len = Len(rows) /\ first + n - 1 <= len
        /\ fill \in 0 .. n /\ fill = Lesser(n, len - (first + n - 1))
        /\ first + n - 1 + fill <= len
        /\ left \in RowsFor(a) /\ Len(left) = len - n /\ len - n \in Nat
        /\ \A k \in 1 .. len - n :
             left[k] = rows[src(k)] /\ src(k) \in 1 .. len /\ src(k) \notin first .. first + n - 1
    BY <1>2 DEF RemovedParts
  <1>5. /\ L[c] # Free => L[c].rows = left
        /\ len - n > 0 => L[c] # Free
        /\ L[c] # Free => len - n > 0
        /\ \A x \in Chunk : x # c => L[x] = K[x]
    BY <1>2 DEF RemovedParts
  <1>6. \A k \in tail : k \in 1 .. len - n /\ src(k) = len - fill + 1 + k - first
    <2> TAKE k \in tail
    <2>1. src(k) = len - fill + 1 + k - first
      BY <1>4 DEF Source
    <2>2. k \in 1 .. len - n
      <3>1. fill = IF n <= len - (first + n - 1) THEN n ELSE len - (first + n - 1)
        BY <1>4 DEF Lesser
      <3> QED BY <1>1, <1>4, <3>1
    <2> QED BY <2>1, <2>2
  <1>7. \A k \in (1 .. len - n) \ tail : src(k) = k
    BY <1>4 DEF Source
  <1>8. \A k \in 1 .. len : k \notin first .. first + n - 1 =>
          \E j \in 1 .. len - n : src(j) = k
    <2>1. len \in Nat /\ first + n - 1 <= len
      BY <1>4
    <2> QED BY <1>1, <2>1, SourceOnto DEF AllStay
  <1> HIDE DEF src, tail, rows
  <1>9. \A k \in 1 .. len - n : InPlace(K, c, src(k), c, first, n) /\ src(k) \in Nat
    BY <1>1, <1>4 DEF InPlace, rows
  <1>10. \A k \in 1 .. len - n : place[left[k].entity] = At(c, src(k))
    <2> TAKE k \in 1 .. len - n
    <2>1. place[rows[src(k)].entity] = At(c, src(k))
      BY <1>1, <1>9 DEF Placement, rows
    <2> QED BY <1>4, <2>1
  <1>11. \A k \in 1 .. len - n : left[k].entity \in Entity
    BY <1>4, RowParts
  <1>12. \A i \in tail, k \in 1 .. len - n : left[i].entity = left[k].entity => i = k
    <2> SUFFICES ASSUME NEW i \in tail, NEW k \in 1 .. len - n,
                        left[i].entity = left[k].entity
                 PROVE  i = k
      OBVIOUS
    <2>1. At(c, src(i)) = At(c, src(k))
      BY <1>6, <1>10
    <2>2. src(i) = src(k)
      BY <2>1, AtParts
    <2>6. first \in Int /\ n \in Int /\ len \in Int /\ fill \in Int /\ fill <= n
      BY <1>1, <1>4
    <2>5. src(i) = len - fill + 1 + i - first /\ first <= i /\ i \in Int /\ k \in Int
      BY <1>1, <1>4, <1>6 DEF tail
    <2>3. CASE k \in tail
      <3>1. src(k) = len - fill + 1 + k - first
        BY <1>6, <2>3
      <3>2. len - fill + 1 + i - first = len - fill + 1 + k - first
        BY <2>2, <2>5, <3>1, Zenon
      <3> QED BY <2>5, <2>6, <3>2
    <2>4. CASE k \notin tail
      <3>1. src(k) = k /\ k <= len - n
        BY <1>4, <1>7, <2>4
      <3>2. len - fill + 1 + i - first = k
        BY <2>2, <2>5, <3>1, Zenon
      <3> QED BY <2>5, <2>6, <3>1, <3>2
    <2> QED BY <2>3, <2>4
  <1>13. PlacedThere(q, place, c, left, first, first + fill - 1)
    <2>1. \A k \in first .. first + fill - 1 : left[k].entity \in Entity
      BY <1>6, <1>11 DEF tail
    <2>2. \A i, k \in first .. first + fill - 1 : left[i].entity = left[k].entity => i = k
      BY <1>6, <1>12 DEF tail
    <2>3. place = [e \in Entity |-> place[e]]
      BY DEF Placement
    <2>4. first \in Int /\ first + fill - 1 \in Int
      BY <1>1, <1>4
    <2> QED BY <1>3, <2>1, <2>2, <2>3, <2>4, PlacedPlaces
  <1>14. /\ q = [e \in Entity |-> q[e]]
         /\ \A k \in tail : q[left[k].entity] = At(c, k)
         /\ \A e \in Entity : (\A k \in tail : left[k].entity # e) => q[e] = place[e]
    BY <1>13 DEF PlacedThere, tail
  <1>15. \A k \in 1 .. len - n : q[left[k].entity] = At(c, k)
    <2> TAKE k \in 1 .. len - n
    <2>1. CASE k \in tail
      BY <1>14, <2>1
    <2>2. CASE k \notin tail
      <3>1. \A i \in tail : left[i].entity # left[k].entity
        BY <1>12, <2>2
      <3> QED BY <1>7, <1>10, <1>11, <1>14, <2>2, <3>1
    <2> QED BY <2>1, <2>2
  <1>16. \A x \in Chunk, k \in Nat : x # c /\ InPlace(K, x, k, c, first, n) =>
           q[K[x].rows[k].entity] = At(x, k)
    <2> SUFFICES ASSUME NEW x \in Chunk, NEW k \in Nat, x # c, InPlace(K, x, k, c, first, n)
                 PROVE  q[K[x].rows[k].entity] = At(x, k)
      OBVIOUS
    <2>1. K[x].rows[k].entity \in Entity
      BY RowParts DEF WellFormed, InPlace
    <2>2. place[K[x].rows[k].entity] = At(x, k)
      BY DEF Placement
    <2>3. \A i \in tail : left[i].entity # K[x].rows[k].entity
      BY <1>6, <1>10, <2>2, AtParts
    <2> QED BY <1>14, <2>1, <2>2, <2>3
  <1>17. ASSUME NEW x \in Chunk, NEW k \in Nat, InPlace(L, x, k, c, first, 0)
         PROVE  q[L[x].rows[k].entity] = At(x, k)
    <2>1. CASE x = c
      BY <1>4, <1>5, <1>15, <1>17, <2>1 DEF InPlace
    <2>2. CASE x # c
      <3>1. InPlace(K, x, k, c, first, n) /\ L[x] = K[x]
        BY <1>5, <1>17, <2>2 DEF InPlace
      <3> QED BY <1>16, <2>2, <3>1
    <2> QED BY <2>1, <2>2
  <1>18. \A k \in 1 .. len - n : InPlace(L, c, k, c, first, 0) /\ L[c].rows[k] = left[k] /\ k \in Nat
    <2> TAKE k \in 1 .. len - n
    <2>1. L[c].rows = left /\ L[c] # Free /\ Len(left) = len - n /\ k \in Nat
      BY <1>1, <1>4, <1>5
    <2>2. k \notin first .. first + 0 - 1
      BY <1>1
    <2> QED BY <2>1, <2>2 DEF InPlace
  <1>19. ASSUME NEW e \in Entity, place[e] # Nowhere
         PROVE  \E x \in Chunk, k \in Nat :
                  /\ InPlace(L, x, k, c, first, 0) /\ q[e] = At(x, k) /\ L[x].rows[k].entity = e
                  /\ L[x].rows[k] = K[place[e].chunk].rows[place[e].index]
    <2>1. PICK x \in Chunk, k \in Nat :
            InPlace(K, x, k, c, first, n) /\ place[e] = At(x, k) /\ K[x].rows[k].entity = e
      BY <1>19 DEF Placement
    <2>2. K[place[e].chunk].rows[place[e].index] = K[x].rows[k]
      BY <2>1, AtParts
    <2>3. CASE x # c
      <3>1. InPlace(L, x, k, c, first, 0) /\ L[x] = K[x]
        BY <1>5, <2>1, <2>3 DEF InPlace
      <3>2. q[e] = At(x, k)
        BY <1>16, <2>1, <2>3
      <3> QED BY <2>1, <2>2, <3>1, <3>2
    <2>4. CASE x = c
      <3>1. k \in 1 .. len /\ k \notin first .. first + n - 1
        BY <1>4, <2>1, <2>4 DEF InPlace, rows
      <3>2. PICK j \in 1 .. len - n : src(j) = k
        BY <1>8, <3>1
      <3>3. left[j] = rows[k] /\ left[j].entity = e
        BY <1>4, <2>1, <2>4, <3>2 DEF rows
      <3>4. InPlace(L, c, j, c, first, 0) /\ L[c].rows[j] = left[j] /\ j \in Nat
        BY <1>18
      <3>5. q[e] = At(c, j)
        BY <1>15, <3>3
      <3> QED BY <2>2, <2>4, <3>3, <3>4, <3>5 DEF rows
    <2> QED BY <2>3, <2>4
  <1>20. ASSUME NEW e \in Entity, place[e] = Nowhere PROVE q[e] = Nowhere
    <2>1. \A k \in tail : left[k].entity # e
      BY <1>6, <1>10, <1>20, AtParts
    <2> QED BY <1>14, <1>20, <2>1
  <1>21. Placement(L, q, c, first, 0)
    BY <1>14, <1>17, <1>19, <1>20 DEF Placement
  <1>22. ASSUME NEW e \in Entity PROVE TableOf(L, q)[e] = TableOf(K, place)[e]
    <2>1. CASE place[e] = Nowhere
      BY <1>20, <2>1 DEF TableOf
    <2>2. CASE place[e] # Nowhere
      <3>1. PICK x \in Chunk, k \in Nat :
              q[e] = At(x, k) /\ L[x].rows[k] = K[place[e].chunk].rows[place[e].index]
        BY <1>19, <2>2
      <3>2. q[e] # Nowhere /\ q[e].chunk = x /\ q[e].index = k
        BY <3>1, AtParts
      <3> QED BY <2>2, <3>1, <3>2 DEF TableOf
    <2> QED BY <2>1, <2>2
  <1>23. TableOf(L, q) = TableOf(K, place)
    BY <1>22 DEF TableOf
  <1> QED BY <1>21, <1>23

--------------------------------------------------------------------------------
(* The counts *)

Having(t) == {a \in Archetype : t \in a}
DueOf(K) == [t \in Managed |-> Cardinality(RowPairs(K, Having(t)))]

CountsRight(K, counts) ==
  /\ \A A \in SUBSET Archetype : IsFiniteSet(RowPairs(K, A))
  /\ counts = [a \in Archetype |-> Cardinality(RowPairs(K, {a}))]

\* Rows of archetype a, n of them, have come (or gone: n < 0), in chunk c.
Recounted(K, L, counts, c, a, n) ==
  /\ CountsRight(L, Added(counts, a, n))
  /\ \A t \in Managed : DueOf(L)[t] = DueOf(K)[t] + IF t \in a THEN n ELSE 0

LEMMA RowsInIsNat ==
  ASSUME NEW K, WellFormed(K), NEW c \in Chunk, NEW A
  PROVE  RowsIn(K[c], A) \in Nat
  BY RowParts DEF WellFormed, RowsIn

LEMMA CountsChange ==
  ASSUME NEW K, WellFormed(K), NEW L, WellFormed(L), NEW counts, CountsRight(K, counts),
         NEW c \in Chunk, NEW content, L = With(K, c, content), NEW a \in Archetype,
         K[c] = Free \/ K[c].archetype = a, content = Free \/ content.archetype = a,
         NEW n \in Int, RowsIn(content, {a}) = RowsIn(K[c], {a}) + n
  PROVE  Recounted(K, L, counts, c, a, n)
  <1>1. L[c] = content /\ DOMAIN K = Chunk
    BY DEF With, WellFormed
  <1>2. \A A : RowsIn(K[c], A) \in Nat /\ RowsIn(content, A) \in Nat
    BY <1>1, RowsInIsNat
  <1>3. \A A : /\ a \in A => RowsIn(content, A) = RowsIn(K[c], A) + n
               /\ a \notin A => RowsIn(content, A) = RowsIn(K[c], A)
    BY DEF RowsIn
  <1>4. ASSUME NEW A \in SUBSET Archetype
        PROVE  /\ IsFiniteSet(RowPairs(L, A))
               /\ Cardinality(RowPairs(L, A)) \in Nat /\ Cardinality(RowPairs(K, A)) \in Nat
               /\ a \in A => Cardinality(RowPairs(L, A)) = Cardinality(RowPairs(K, A)) + n
               /\ a \notin A => Cardinality(RowPairs(L, A)) = Cardinality(RowPairs(K, A))
    <2>1. IsFiniteSet(RowPairs(K, A))
      BY DEF CountsRight
    <2>2. CountMoved(K, L, c, content, A)
      BY <1>1, <1>2, <2>1, CountChanges
    <2> QED BY <1>2, <1>3, <2>2 DEF CountMoved
  <1>5. CountsRight(L, Added(counts, a, n))
    <2> DEFINE now == [b \in Archetype |-> Cardinality(RowPairs(L, {b}))]
    <2>1. \A b \in Archetype : counts[b] = Cardinality(RowPairs(K, {b}))
      BY DEF CountsRight
    <2>2. DOMAIN counts = Archetype
      BY DEF CountsRight
    <2>3. ASSUME NEW b \in Archetype
          PROVE  Cardinality(RowPairs(L, {b})) = IF b = a THEN counts[b] + n ELSE counts[b]
      <3>1. {b} \in SUBSET Archetype /\ (a \in {b} <=> b = a)
        OBVIOUS
      <3> QED BY <1>4, <2>1, <3>1
    <2>4. Added(counts, a, n) = [b \in Archetype |-> IF b = a THEN counts[b] + n ELSE counts[b]]
      BY <2>2 DEF Added
    <2>5. Added(counts, a, n) = now
      BY <2>3, <2>4
    <2> QED BY <1>4, <2>5 DEF CountsRight
  <1>6. ASSUME NEW t \in Managed
        PROVE  DueOf(L)[t] = DueOf(K)[t] + IF t \in a THEN n ELSE 0
    <2>1. Having(t) \in SUBSET Archetype /\ (a \in Having(t) <=> t \in a)
      BY DEF Having
    <2>2. DueOf(L)[t] = Cardinality(RowPairs(L, Having(t)))
          /\ DueOf(K)[t] = Cardinality(RowPairs(K, Having(t)))
      BY DEF DueOf
    <2>3. CASE t \in a
      <3>1. Cardinality(RowPairs(L, Having(t))) = Cardinality(RowPairs(K, Having(t))) + n
        BY <1>4, <2>1, <2>3
      <3> QED BY <2>2, <2>3, <3>1
    <2>4. CASE t \notin a
      <3>1. /\ Cardinality(RowPairs(L, Having(t))) = Cardinality(RowPairs(K, Having(t)))
            /\ Cardinality(RowPairs(K, Having(t))) \in Nat
        BY <1>4, <2>1, <2>4
      <3> QED BY <2>2, <2>4, <3>1
    <2> QED BY <2>3, <2>4
  <1> QED BY <1>5, <1>6 DEF Recounted

LEMMA AppendedCounts ==
  ASSUME NEW K, WellFormed(K), NEW L, WellFormed(L), NEW counts, CountsRight(K, counts),
         NEW c, NEW a \in Archetype, NEW before, NEW new,
         Appended(K, L, c, a, before, new), NEW m, m = Len(new)
  PROVE  Recounted(K, L, counts, c, a, m)
  <1> DEFINE rows == before \o new
             content == [archetype |-> a, rows |-> rows]
  <1>1. L = With(K, c, content)
    BY DEF Appended
  <1>2. AppendedParts(K, L, c, a, before, new, rows)
    <2> HIDE DEF rows
    <2> QED BY AppendedRows DEF rows
  <1> HIDE DEF rows
  <1>3. content # Free /\ content.archetype = a /\ content.rows = rows
    BY ContentNotFree
  <1>4. c \in Chunk /\ m \in Int /\ (K[c] = Free \/ K[c].archetype = a)
    BY <1>2 DEF AppendedParts
  <1> HIDE DEF content
  <1>5. RowsIn(content, {a}) = RowsIn(K[c], {a}) + m
    BY <1>2, <1>3 DEF AppendedParts, RowsIn
  <1> QED BY <1>1, <1>3, <1>4, <1>5, CountsChange

LEMMA RemovedCounts ==
  ASSUME NEW K, WellFormed(K), NEW L, WellFormed(L), NEW counts, CountsRight(K, counts),
         NEW c, NEW a \in Archetype, NEW first, NEW n, Removed(K, L, c, a, first, n)
  PROVE  Recounted(K, L, counts, c, a, -n)
  <1> DEFINE left == RowsWithout(K[c].rows, first, n)
             len == Len(K[c].rows)
             fill == FillCount(K[c].rows, first, n)
             content == Holding(a, left)
  <1>1. L = With(K, c, content) /\ c \in Chunk /\ n \in Nat /\ -n \in Int
        /\ K[c] # Free /\ K[c].archetype = a
    BY DEF Removed
  <1>2. RemovedParts(K, L, c, a, first, n, len, fill, left)
    <2> HIDE DEF left, len, fill
    <2> QED BY RemovedRows DEF left, len, fill
  <1> HIDE DEF left, fill
  <1>3. L[c] = content /\ len \in Nat /\ Len(left) = len - n /\ len - n \in Nat
    BY <1>2 DEF RemovedParts
  <1>4. /\ content # Free => content.archetype = a /\ Len(content.rows) = len - n
        /\ content = Free => len - n = 0
    BY <1>2, <1>3 DEF RemovedParts
  <1> HIDE DEF content
  <1>5. RowsIn(K[c], {a}) = len
    BY <1>1 DEF RowsIn
  <1>6. RowsIn(content, {a}) = len - n
    BY <1>4 DEF RowsIn
  <1> HIDE DEF len
  <1>7. RowsIn(content, {a}) = RowsIn(K[c], {a}) + (-n)
    BY <1>1, <1>3, <1>5, <1>6
  <1> QED BY <1>1, <1>4, <1>7, CountsChange

--------------------------------------------------------------------------------
(* The two halves of a batch *)

LEMMA SoundParts ==
  ASSUME NEW s, Sound(s)
  PROVE  s \in Stores /\ WellFormed(Contents(s))
  <1>1. s \in Stores
    BY DEF Sound, Listing
  <1>2. ASSUME NEW c \in Chunk, Contents(s)[c] # Free
        PROVE  /\ Contents(s)[c].archetype \in Archetype
               /\ Contents(s)[c].rows \in RowsFor(Contents(s)[c].archetype)
    <2>1. /\ s.chunk[c] # Free /\ Contents(s)[c].archetype = s.chunk[c].archetype
          /\ Contents(s)[c].rows = s.chunk[c].rows
      BY <1>2, ContentOf
    <2> QED BY <1>1, <2>1, StoreParts, CellParts
  <1>3. DOMAIN Contents(s) = Chunk
    BY DEF Contents
  <1> QED BY <1>1, <1>2, <1>3 DEF WellFormed

Allocates(s, t, c, a, before, new) ==
  /\ Sound(t)
  /\ Appended(Contents(s), Contents(t), c, a, before, new)
  /\ Counts(t) = Added(Counts(s), a, Len(new))

LEMMA AllocateStep ==
  ASSUME Sound(store), NEW a \in Archetype, NEW g \in getChunkWithEmptySlots(a),
         NEW before, before = g.store.chunk[g.chunk].rows,
         NEW new \in RowsFor(a), new # <<>>,
         Len(before) + Len(new) <= chunkCapacity[a],
         NEW t, t = allocateIntoChunk(g.store, g.chunk, new)
  PROVE  Allocates(store, t, g.chunk, a, before, new)
  <1> DEFINE c == g.chunk
             s == g.store
             K == Contents(store)
             old == [archetype |-> a, rows |-> before]
             content == [archetype |-> a, rows |-> before \o new]
  <1>1. /\ Becomes(store, s, c, old) /\ HasRoom(K, c, a, before)
        /\ s.chunk[c] # Free /\ s.chunk[c].archetype = a
    BY GotChunk
  <1>2. c \in Chunk
    BY <1>1 DEF HasRoom
  <1>3. Sound(s) /\ Contents(s) = With(K, c, old) /\ Counts(s) = Counts(store)
    BY <1>1 DEF Becomes
  <1>4. BecomesCounted(s, t, c, content, a, Len(new))
    <2> HIDE DEF c, s
    <2>1. before = s.chunk[c].rows /\ t = allocateIntoChunk(s, c, new)
      BY DEF c, s
    <2> QED BY <1>1, <1>2, <1>3, <2>1, AllocateIntoChunkAdds
  <1>5. Contents(t) = With(K, c, content)
    <2>1. Contents(t) = With(With(K, c, old), c, content)
      BY <1>3, <1>4 DEF BecomesCounted
    <2>2. DOMAIN K = Chunk
      BY DEF Contents
    <2> HIDE DEF K, old, content, c
    <2> QED BY <1>2, <2>1, <2>2 DEF With
  <1> QED BY <1>1, <1>3, <1>4, <1>5 DEF Allocates, Appended, BecomesCounted

Removes(s, t, c, a, first, n) ==
  /\ Sound(t)
  /\ Removed(Contents(s), Contents(t), c, a, first, n)
  /\ Counts(t) = Added(Counts(s), a, -n)

LEMMA RemoveStep ==
  ASSUME NEW s, Sound(s), NEW a \in Archetype, NEW c \in Chunk,
         s.chunk[c] # Free, s.chunk[c].archetype = a,
         NEW first \in Nat \ {0}, NEW n \in Nat \ {0},
         first + n - 1 <= Len(s.chunk[c].rows),
         NEW t, t = WithoutBatch(s, c, first, n)
  PROVE  Removes(s, t, c, a, first, n)
  <1>1. BecomesCounted(s, t, c, Holding(a, RowsWithout(s.chunk[c].rows, first, n)), a, -n)
    BY WithoutBatchRemoves
  <1>2. /\ Contents(s)[c] # Free /\ Contents(s)[c].archetype = a
        /\ Contents(s)[c].rows = s.chunk[c].rows
    BY ContentOf
  <1> QED BY <1>1, <1>2 DEF Removes, Removed, BecomesCounted

--------------------------------------------------------------------------------
(* What holds between the steps, and the steps on chunks and places *)

NoneEmpty(K) == \A c \in Chunk : K[c] # Free => K[c].rows # <<>>

\* No chunk has a hole.
Places(K, place) == Placement(K, place, Nowhere, 1, 0)

Books(s, place, due) ==
  /\ Sound(s)
  /\ NoneEmpty(Contents(s))
  /\ Places(Contents(s), place)
  /\ CountsRight(Contents(s), Counts(s))
  /\ due = DueOf(Contents(s))

LEMMA NoHole ==
  ASSUME NEW K, NEW place, NEW h, NEW first \in Nat, NEW j, NEW i \in Nat,
         Placement(K, place, h, first, 0)
  PROVE  Placement(K, place, j, i, 0)
  <1>1. \A c \in Chunk, k \in Nat : InPlace(K, c, k, h, first, 0) <=> InPlace(K, c, k, j, i, 0)
    BY DEF InPlace
  <1> QED BY <1>1 DEF Placement

LEMMA PlacesParts ==
  ASSUME NEW K, NEW place, Places(K, place)
  PROVE  /\ place = [e \in Entity |-> place[e]]
         /\ \A c \in Chunk : \A k \in 1 .. Len(K[c].rows) :
              K[c] # Free => place[K[c].rows[k].entity] = At(c, k)
         /\ \A e \in Entity : place[e] # Nowhere =>
              \E c \in Chunk : \E k \in 1 .. Len(K[c].rows) :
                K[c] # Free /\ place[e] = At(c, k) /\ K[c].rows[k].entity = e
  <1>1. ASSUME NEW c \in Chunk, NEW k \in 1 .. Len(K[c].rows), K[c] # Free
        PROVE  place[K[c].rows[k].entity] = At(c, k)
    <2>1. InPlace(K, c, k, Nowhere, 1, 0) /\ k \in Nat
      BY <1>1 DEF InPlace
    <2> QED BY <2>1 DEF Places, Placement
  <1>2. ASSUME NEW e \in Entity, place[e] # Nowhere
        PROVE  \E c \in Chunk : \E k \in 1 .. Len(K[c].rows) :
                 K[c] # Free /\ place[e] = At(c, k) /\ K[c].rows[k].entity = e
    BY <1>2 DEF Places, Placement, InPlace
  <1> QED BY <1>1, <1>2 DEF Places, Placement

LEMMA DueAreNat ==
  ASSUME NEW K, NEW counts, CountsRight(K, counts), NEW t \in Managed
  PROVE  DueOf(K)[t] \in Nat
  <1>1. Having(t) \in SUBSET Archetype
    BY DEF Having
  <1> QED BY <1>1, FS_CardinalityType DEF DueOf, CountsRight

LEMMA AppendedNotEmpty ==
  ASSUME NEW K, WellFormed(K), NoneEmpty(K), NEW L, NEW c, NEW a, NEW before, NEW new,
         Appended(K, L, c, a, before, new), new # <<>>
  PROVE  NoneEmpty(L)
  <1> DEFINE rows == before \o new
  <1>1. AppendedParts(K, L, c, a, before, new, rows)
    <2> HIDE DEF rows
    <2> QED BY AppendedRows DEF rows
  <1>2. Len(new) > 0
    <2>1. new \in Seq([entity : Entity, data : [a -> Value]])
      BY DEF Appended, RowsFor
    <2> QED BY <2>1
  <1> HIDE DEF rows
  <1>3. rows # <<>>
    <2>1. Len(rows) # 0 /\ Len(<<>>) = 0
      BY <1>1, <1>2 DEF AppendedParts
    <2> QED BY <2>1
  <1> QED BY <1>1, <1>3 DEF NoneEmpty, AppendedParts

LEMMA RemovedNotEmpty ==
  ASSUME NEW K, WellFormed(K), NoneEmpty(K), NEW L, NEW c, NEW a, NEW first, NEW n,
         Removed(K, L, c, a, first, n)
  PROVE  NoneEmpty(L)
  <1> DEFINE left == RowsWithout(K[c].rows, first, n)
             len == Len(K[c].rows)
             fill == FillCount(K[c].rows, first, n)
  <1>1. RemovedParts(K, L, c, a, first, n, len, fill, left)
    <2> HIDE DEF left, len, fill
    <2> QED BY RemovedRows DEF left, len, fill
  <1> HIDE DEF left, len, fill
  <1>2. L[c] # Free => L[c].rows = left /\ Len(left) > 0
    BY <1>1 DEF RemovedParts
  <1>3. L[c] # Free => L[c].rows # <<>>
    <2>1. Len(<<>>) = 0
      OBVIOUS
    <2> QED BY <1>2, <2>1
  <1> QED BY <1>1, <1>3 DEF NoneEmpty, RemovedParts

MoreDue(due, a, n) == [x \in Managed |-> due[x] + IF x \in a THEN n ELSE 0]
FewerDue(due, a, n) == [x \in Managed |-> due[x] - IF x \in a THEN n ELSE 0]

\* The rows are for different entities, and none of these has a place yet.
ForNew(place, new) ==
  /\ \A i \in 1 .. Len(new) : place[new[i].entity] = Nowhere
  /\ \A i, k \in 1 .. Len(new) : new[i].entity = new[k].entity => i = k

LEMMA CreateStep ==
  ASSUME NEW s, NEW place, NEW due, Books(s, place, due),
         NEW t, NEW c, NEW a \in Archetype, NEW before, NEW new,
         Allocates(s, t, c, a, before, new), new # <<>>, ForNew(place, new),
         NEW q, q = Placed(place, c, before \o new,
                           Len(before) + 1, Len(before) + Len(new)),
         NEW now, now = MoreDue(due, a, Len(new))
  PROVE  /\ Books(t, q, now)
         /\ Gives(TableOf(Contents(s), place), TableOf(Contents(t), q), new)
  <1> DEFINE K == Contents(s)
             L == Contents(t)
             m == Len(new)
  <1>1. /\ Sound(t) /\ Appended(K, L, c, a, before, new) /\ Counts(t) = Added(Counts(s), a, m)
        /\ WellFormed(K) /\ WellFormed(L) /\ NoneEmpty(K)
        /\ Places(K, place) /\ CountsRight(K, Counts(s)) /\ due = DueOf(K)
    BY SoundParts DEF Allocates, Books
  <1> HIDE DEF K, L, m
  <1>2. Placement(K, place, Nowhere, 1, 0) /\ 1 \in Nat /\ 0 \in Nat
    BY <1>1 DEF Places
  <1>3. Fresh(K, new, Nowhere, 1, 0)
    <2>1. ASSUME NEW x \in Chunk, NEW k \in Nat, NEW i \in 1 .. Len(new),
                 InPlace(K, x, k, Nowhere, 1, 0)
          PROVE  K[x].rows[k].entity # new[i].entity
      <3>1. place[K[x].rows[k].entity] = At(x, k)
        BY <1>2, <2>1 DEF Placement
      <3> QED BY <3>1, AtParts DEF ForNew
    <2>2. 1 .. 1 + 0 - 1 = {}
      OBVIOUS
    <2> QED BY <2>1, <2>2 DEF Fresh, ForNew
  <1>4. Placement(L, q, Nowhere, 1, 0)
    BY <1>1, <1>2, <1>3, AppendPlaces
  <1>5. Gives(TableOf(K, place), TableOf(L, q), new)
    BY <1>1, <1>2, <1>3, AppendPlaces
  <1>7. Recounted(K, L, Counts(s), c, a, m)
    BY <1>1, AppendedCounts DEF m
  <1>8. NoneEmpty(L)
    BY <1>1, AppendedNotEmpty
  <1>9. now = DueOf(L)
    <2>1. \A x \in Managed : now[x] = DueOf(L)[x]
      BY <1>1, <1>7 DEF Recounted, m, MoreDue
    <2> QED BY <2>1 DEF DueOf, MoreDue
  <1>10. Books(t, q, now)
    BY <1>1, <1>4, <1>7, <1>8, <1>9 DEF Books, Places, Recounted, L
  <1> QED BY <1>5, <1>10 DEF K, L

\* The entities of some rows; the places and the table without them.
EntitiesIn(rows, first, n) == {rows[k].entity : k \in first .. first + n - 1}
Vacated(place, gone) == [e \in Entity |-> IF e \in gone THEN Nowhere ELSE place[e]]
Empties(T, U, gone) == U = [e \in Entity |-> IF e \in gone THEN Dead ELSE T[e]]

\* The rows first .. first + n - 1 of c go, and their entities with them.
Destroys(place, q, rows, c, first, n, gone) ==
  /\ gone = EntitiesIn(rows, first, n)
  /\ q = Filled(Vacated(place, gone), c, rows, first, n)

LEMMA DestroyStep ==
  ASSUME NEW s, NEW place, NEW due, Books(s, place, due),
         NEW t, NEW c, NEW a \in Archetype, NEW first, NEW n,
         Removes(s, t, c, a, first, n),
         NEW gone, NEW q, NEW rows, rows = s.chunk[c].rows,
         Destroys(place, q, rows, c, first, n, gone)
  PROVE  /\ Books(t, q, FewerDue(due, a, n))
         /\ Empties(TableOf(Contents(s), place), TableOf(Contents(t), q), gone)
  <1> DEFINE K == Contents(s)
             L == Contents(t)
             p == Vacated(place, gone)
             now == FewerDue(due, a, n)
  <1>1. /\ Sound(t) /\ Removed(K, L, c, a, first, n) /\ Counts(t) = Added(Counts(s), a, -n)
        /\ WellFormed(K) /\ WellFormed(L) /\ NoneEmpty(K)
        /\ Places(K, place) /\ CountsRight(K, Counts(s)) /\ due = DueOf(K)
    BY SoundParts DEF Removes, Books
  <1>2. /\ c \in Chunk /\ K[c] # Free /\ first \in Nat \ {0} /\ n \in Nat \ {0}
        /\ first + n - 1 <= Len(K[c].rows)
    BY <1>1 DEF Removed
  <1>3. K[c].rows = s.chunk[c].rows
    BY <1>2, ContentOf
  <1>4. gone = {K[c].rows[k].entity : k \in first .. first + n - 1}
        /\ q = Filled(p, c, K[c].rows, first, n)
    BY <1>3 DEF EntitiesIn, Destroys
  <1> HIDE DEF K, L
  <1>5. /\ place = [e \in Entity |-> place[e]]
        /\ \A x \in Chunk : \A k \in 1 .. Len(K[x].rows) :
             K[x] # Free => place[K[x].rows[k].entity] = At(x, k)
        /\ \A e \in Entity : place[e] # Nowhere =>
             \E x \in Chunk : \E k \in 1 .. Len(K[x].rows) :
               K[x] # Free /\ place[e] = At(x, k) /\ K[x].rows[k].entity = e
    BY <1>1, PlacesParts
  <1>6. \A k \in first .. first + n - 1 : k \in 1 .. Len(K[c].rows)
    <2>1. Len(K[c].rows) \in Nat
      BY <1>1, <1>2, RowParts DEF WellFormed
    <2> QED BY <1>2, <2>1
  <1>7. \A k \in first .. first + n - 1 : place[K[c].rows[k].entity] = At(c, k)
    BY <1>2, <1>5, <1>6
  <1>8. Placement(K, p, c, first, n)
    <2>1. ASSUME NEW x \in Chunk, NEW k \in Nat, InPlace(K, x, k, c, first, n)
          PROVE  p[K[x].rows[k].entity] = At(x, k)
      <3>1. K[x].rows[k].entity \in Entity
        BY <1>1, <2>1, RowParts DEF WellFormed, InPlace
      <3>2. place[K[x].rows[k].entity] = At(x, k)
        BY <1>5, <2>1 DEF InPlace
      <3>3. K[x].rows[k].entity \notin gone
        <4> SUFFICES ASSUME NEW i \in first .. first + n - 1,
                            K[x].rows[k].entity = K[c].rows[i].entity
                     PROVE  FALSE
          BY <1>4
        <4>1. At(x, k) = At(c, i)
          BY <1>7, <3>2
        <4> QED BY <2>1, <4>1, AtParts DEF InPlace
      <3> QED BY <3>1, <3>2, <3>3 DEF Vacated
    <2>2. ASSUME NEW e \in Entity, p[e] # Nowhere
          PROVE  \E x \in Chunk, k \in Nat :
                   InPlace(K, x, k, c, first, n) /\ p[e] = At(x, k) /\ K[x].rows[k].entity = e
      <3>1. e \notin gone /\ p[e] = place[e]
        BY <2>2 DEF Vacated
      <3>2. PICK x \in Chunk : \E k \in 1 .. Len(K[x].rows) :
              K[x] # Free /\ place[e] = At(x, k) /\ K[x].rows[k].entity = e
        BY <1>5, <2>2, <3>1
      <3>3. PICK k \in 1 .. Len(K[x].rows) :
              K[x] # Free /\ place[e] = At(x, k) /\ K[x].rows[k].entity = e
        BY <3>2
      <3>4. ~(x = c /\ k \in first .. first + n - 1)
        BY <1>4, <3>1, <3>3
      <3> QED BY <3>1, <3>3, <3>4 DEF InPlace
    <2>3. p = [e \in Entity |-> p[e]]
      BY DEF Vacated
    <2> HIDE DEF p
    <2> QED BY <2>1, <2>2, <2>3 DEF Placement
  <1>9. Empties(TableOf(K, place), TableOf(K, p), gone)
    BY DEF TableOf, Vacated, Empties
  <1> HIDE DEF p
  <1>10. Placement(L, q, c, first, 0) /\ TableOf(L, q) = TableOf(K, p)
    BY <1>1, <1>4, <1>8, FillPlaces
  <1>11. Places(L, q)
    BY <1>2, <1>10, NoHole DEF Places
  <1>12. Recounted(K, L, Counts(s), c, a, -n)
    BY <1>1, RemovedCounts
  <1>13. NoneEmpty(L)
    BY <1>1, RemovedNotEmpty
  <1>14. now = DueOf(L)
    <2>1. ASSUME NEW x \in Managed PROVE now[x] = DueOf(L)[x]
      <3>1. DueOf(L)[x] = DueOf(K)[x] + IF x \in a THEN -n ELSE 0
        BY <1>12 DEF Recounted
      <3>2. DueOf(K)[x] \in Nat
        BY <1>1, DueAreNat
      <3>3. now[x] = DueOf(K)[x] - IF x \in a THEN n ELSE 0
        BY <1>1 DEF FewerDue
      <3> QED BY <1>2, <3>1, <3>2, <3>3
    <2> QED BY <2>1 DEF DueOf, FewerDue
  <1>15. Books(t, q, now)
    BY <1>1, <1>11, <1>12, <1>13, <1>14 DEF Books, Recounted, L
  <1> QED BY <1>9, <1>10, <1>15 DEF K, L

\* The rows of part are for the entities of rows from first on.
SameEntities(part, rows, first, n) ==
  \A k \in 1 .. n : part[k].entity = rows[first + k - 1].entity

MovesPlaces(place, q, c, before, part, src, rows, first, n) ==
  q = Filled(Placed(place, c, before \o part, Len(before) + 1, Len(before) + n),
             src, rows, first, n)

MovesDue(due, now, a, b, n) ==
  /\ now = [x \in Managed |-> now[x]]
  /\ \A x \in Managed :
       now[x] = due[x] + (IF x \in b THEN n ELSE 0) - (IF x \in a THEN n ELSE 0)

LEMMA MoveStep ==
  ASSUME NEW s, NEW place, NEW due, Books(s, place, due),
         NEW t, NEW c, NEW b \in Archetype, NEW before, NEW part,
         Allocates(s, t, c, b, before, part), part # <<>>,
         NEW u, NEW src, NEW a \in Archetype, NEW first, NEW n,
         Removes(t, u, src, a, first, n), src # c, n = Len(part),
         NEW rows, rows = s.chunk[src].rows, SameEntities(part, rows, first, n),
         NEW q, MovesPlaces(place, q, c, before, part, src, rows, first, n),
         NEW now, MovesDue(due, now, a, b, n)
  PROVE  /\ Books(u, q, now)
         /\ Gives(TableOf(Contents(s), place), TableOf(Contents(u), q), part)
  <1> DEFINE K == Contents(s)
             L == Contents(t)
             M == Contents(u)
             p == Placed(place, c, before \o part, Len(before) + 1, Len(before) + n)
  <1>1. /\ Sound(t) /\ Appended(K, L, c, b, before, part) /\ Counts(t) = Added(Counts(s), b, n)
        /\ WellFormed(K) /\ WellFormed(L) /\ NoneEmpty(K)
        /\ Places(K, place) /\ CountsRight(K, Counts(s)) /\ due = DueOf(K)
    BY SoundParts DEF Allocates, Books
  <1>2. /\ Sound(u) /\ Removed(L, M, src, a, first, n) /\ Counts(u) = Added(Counts(t), a, -n)
        /\ WellFormed(M)
    BY SoundParts DEF Removes
  <1>3. /\ src \in Chunk /\ L[src] # Free /\ first \in Nat \ {0} /\ n \in Nat \ {0}
        /\ first + n - 1 <= Len(L[src].rows)
    BY <1>2 DEF Removed
  <1>4. K[src] = L[src] /\ K[src] # Free /\ K[src].rows = s.chunk[src].rows
    <2>1. AppendedParts(K, L, c, b, before, part, before \o part)
      <3> DEFINE joined == before \o part
      <3> HIDE DEF joined, K, L
      <3>1. AppendedParts(K, L, c, b, before, part, joined)
        BY <1>1, AppendedRows DEF joined
      <3> QED BY <3>1 DEF joined
    <2>2. K[src] = L[src]
      BY <1>3, <2>1 DEF AppendedParts
    <2> QED BY <1>3, <2>2, ContentOf
  <1> HIDE DEF K, L, M
  <1>5. Placement(K, place, src, first, 0)
    <2>1. first \in Nat /\ 1 \in Nat
      BY <1>3
    <2> QED BY <1>1, <2>1, NoHole DEF Places
  <1>6. Len(K[src].rows) \in Nat
    BY <1>1, <1>3, <1>4, RowParts DEF WellFormed
  <1>7. \A k \in first .. first + n - 1 :
          /\ k - first + 1 \in 1 .. n /\ first + (k - first + 1) - 1 = k
          /\ place[K[src].rows[k].entity] = At(src, k)
    <2> TAKE k \in first .. first + n - 1
    <2>1. k - first + 1 \in 1 .. n /\ first + (k - first + 1) - 1 = k
      BY <1>3
    <2>2. k \in 1 .. Len(K[src].rows) /\ k \in Nat
      BY <1>3, <1>4, <1>6
    <2>3. InPlace(K, src, k, src, first, 0)
      BY <1>3, <1>4, <2>2 DEF InPlace
    <2>4. place[K[src].rows[k].entity] = At(src, k)
      BY <1>3, <1>5, <2>2, <2>3 DEF Placement
    <2> QED BY <2>1, <2>4
  <1>8. \A i \in 1 .. n : /\ first + i - 1 \in first .. first + n - 1
                          /\ place[part[i].entity] = At(src, first + i - 1)
    <2> TAKE i \in 1 .. n
    <2>1. first + i - 1 \in first .. first + n - 1
      BY <1>3
    <2>2. part[i].entity = K[src].rows[first + i - 1].entity
      BY <1>4 DEF SameEntities
    <2> QED BY <1>7, <2>1, <2>2
  <1>9. Fresh(K, part, src, first, n)
    <2>1. ASSUME NEW i \in 1 .. n, NEW k \in 1 .. n, part[i].entity = part[k].entity
          PROVE  i = k
      <3>1. first + i - 1 = first + k - 1
        BY <1>8, <2>1, AtParts
      <3> QED BY <1>3, <3>1
    <2>2. ASSUME NEW x \in Chunk, NEW k \in Nat, NEW i \in 1 .. n,
                 InPlace(K, x, k, src, first, n), K[x].rows[k].entity = part[i].entity
          PROVE  FALSE
      <3>1. InPlace(K, x, k, src, first, 0)
        BY <1>3, <2>2 DEF InPlace
      <3>2. place[K[x].rows[k].entity] = At(x, k)
        BY <1>5, <3>1 DEF Placement
      <3>3. x = src /\ k = first + i - 1
        BY <1>8, <2>2, <3>2, AtParts
      <3> QED BY <1>8, <2>2, <3>3 DEF InPlace
    <2>3. ASSUME NEW k \in first .. first + n - 1
          PROVE  \E i \in 1 .. n : part[i].entity = K[src].rows[k].entity
      <3>1. k - first + 1 \in 1 .. n /\ first + (k - first + 1) - 1 = k
        BY <1>7
      <3>2. part[k - first + 1].entity = K[src].rows[k].entity
        BY <1>4, <3>1 DEF SameEntities
      <3> QED BY <3>1, <3>2
    <2> QED BY <2>1, <2>2, <2>3 DEF Fresh
  <1> HIDE DEF p
  <1>10. /\ Placement(L, p, src, first, n)
         /\ Gives(TableOf(K, place), TableOf(L, p), part)
    <2>1. p = Placed(place, c, before \o part, Len(before) + 1, Len(before) + Len(part))
      BY DEF p
    <2>2. first \in Nat /\ n \in Nat
      BY <1>3
    <2> QED BY <1>1, <1>5, <1>9, <2>1, <2>2, AppendPlaces
  <1>11. Placement(M, q, src, first, 0) /\ TableOf(M, q) = TableOf(L, p)
    <2>1. q = Filled(p, src, L[src].rows, first, n)
      BY <1>4 DEF p, MovesPlaces
    <2> QED BY <1>1, <1>2, <1>10, <2>1, FillPlaces
  <1>12. Places(M, q)
    BY <1>3, <1>11, NoHole DEF Places
  <1>13. NoneEmpty(M)
    BY <1>1, <1>2, AppendedNotEmpty, RemovedNotEmpty
  <1>14. Recounted(K, L, Counts(s), c, b, n)
    BY <1>1, AppendedCounts
  <1>15. Recounted(L, M, Counts(t), src, a, -n)
    <2>1. CountsRight(L, Counts(t))
      BY <1>1, <1>14 DEF Recounted
    <2> QED BY <1>1, <1>2, <2>1, RemovedCounts
  <1>16. now = DueOf(M)
    <2>1. ASSUME NEW x \in Managed PROVE now[x] = DueOf(M)[x]
      <3>1. DueOf(L)[x] = DueOf(K)[x] + IF x \in b THEN n ELSE 0
        BY <1>14 DEF Recounted
      <3>2. DueOf(M)[x] = DueOf(L)[x] + IF x \in a THEN -n ELSE 0
        BY <1>15 DEF Recounted
      <3>3. DueOf(K)[x] \in Nat
        BY <1>1, DueAreNat
      <3>4. now[x] = DueOf(K)[x] + (IF x \in b THEN n ELSE 0) - (IF x \in a THEN n ELSE 0)
        BY <1>1 DEF MovesDue
      <3>5. PICK up \in Nat : up = IF x \in b THEN n ELSE 0
        BY <1>3
      <3>6. DueOf(L)[x] = DueOf(K)[x] + up /\ DueOf(L)[x] \in Nat
        BY <3>1, <3>3, <3>5
      <3>7. now[x] = DueOf(K)[x] + up - (IF x \in a THEN n ELSE 0)
        BY <3>4, <3>5
      <3>8. CASE x \in a
        BY <1>3, <3>2, <3>3, <3>5, <3>6, <3>7, <3>8
      <3>9. CASE x \notin a
        BY <3>2, <3>3, <3>5, <3>6, <3>7, <3>9
      <3> QED BY <3>8, <3>9
    <2> QED BY <2>1 DEF DueOf, MovesDue
  <1>17. Books(u, q, now)
    BY <1>2, <1>12, <1>13, <1>15, <1>16 DEF Books, Recounted, M
  <1>18. Gives(TableOf(K, place), TableOf(M, q), part)
    BY <1>10, <1>11
  <1> QED BY <1>17, <1>18 DEF K, M

--------------------------------------------------------------------------------
(* The inductive invariant *)

\* What a call in progress has left to do makes sense.
CallOK(K, cl) ==
  \/ cl = NoCall
  \/ \E a \in Archetype, n \in Nat \ {0} :
       cl = [op |-> "create", archetype |-> a, left |-> n]
  \/ \E es \in Seq(Entity) : es # <<>> /\ cl = [op |-> "destroy", entities |-> es]
  \/ \E c \in Chunk, first \in Nat \ {0}, n \in Nat \ {0}, b \in Archetype :
       /\ cl = [op |-> "move", chunk |-> c, first |-> first, count |-> n, to |-> b]
       /\ K[c] # Free /\ K[c].archetype # b /\ first + n - 1 <= Len(K[c].rows)

StoreInv == Books(store, entityInChunk, toDestruct) /\ CallOK(Contents(store), call)

TableStep == Table!TableNext \/ UNCHANGED <<TheTable, TheTargets>>

LEMMA TableIs ==
  ASSUME NEW s, NEW place, NEW due, Books(s, place, due)
  PROVE  [e \in Entity |-> IF place[e] # Nowhere
            THEN <<s.chunk[place[e].chunk].rows[place[e].index].data>> ELSE Dead]
         = TableOf(Contents(s), place)
  <1>1. ASSUME NEW e \in Entity, place[e] # Nowhere
        PROVE  s.chunk[place[e].chunk].rows = Contents(s)[place[e].chunk].rows
    <2>1. PICK c \in Chunk : \E k \in 1 .. Len(Contents(s)[c].rows) :
            Contents(s)[c] # Free /\ place[e] = At(c, k)
      BY <1>1, PlacesParts DEF Books
    <2>2. Contents(s)[c] # Free /\ place[e].chunk = c
      BY <2>1, AtParts
    <2> QED BY <2>2, ContentOf
  <1> QED BY <1>1 DEF TableOf

LEMMA TheTableIs ==
  ASSUME Books(store, entityInChunk, toDestruct)
  PROVE  TheTable = TableOf(Contents(store), entityInChunk)
  BY TableIs DEF TheTable, Exists, Row, Rows

LEMMA TheTableNext ==
  ASSUME Books(store', entityInChunk', toDestruct')
  PROVE  TheTable' = TableOf(Contents(store'), entityInChunk')
  BY TableIs DEF TheTable, Exists, Row, Rows

RowsMadeOf(n, es, data) == [k \in 1 .. n |-> [entity |-> es[k], data |-> data[k]]]

LEMMA RowsMade ==
  ASSUME NEW a \in Archetype, NEW n \in Nat, NEW es \in [1 .. n -> Entity],
         NEW data \in [1 .. n -> [a -> Value]]
  PROVE  RowsMadeOf(n, es, data) \in RowsFor(a) /\ Len(RowsMadeOf(n, es, data)) = n
  <1> DEFINE new == RowsMadeOf(n, es, data)
  <1> DEFINE D == [entity : Entity, data : [a -> Value]]
  <1>1. \A k \in 1 .. n : new[k] \in D
    BY DEF RowsMadeOf
  <1>3. new = [k \in 1 .. n |-> new[k]]
    BY DEF RowsMadeOf
  <1> HIDE DEF D, new
  <1>4. new \in [1 .. n -> D]
    BY <1>1, <1>3
  <1>5. new \in Seq(D) /\ Len(new) = n
    BY <1>4, SeqDef, LenProperties
  <1> QED BY <1>5 DEF RowsFor, D, new

LEMMA InitBooks ==
  ASSUME Init
  PROVE  StoreInv /\ Table!TableInit
  <1> DEFINE K == Contents(store)
  <1>1. \A c \in Chunk : K[c] = Free
    BY DEF Init, Contents, Content
  <1>2. Sound(store)
    <2>1. store \in Stores
      BY EmptySeq DEF Init, Stores, ArchetypeRecords
    <2>2. OwnOf(K) = [a \in Archetype |-> {}] /\ OpenOf(K) = [a \in Archetype |-> {}]
      BY <1>1 DEF OwnOf, OpenOf
    <2>3. \A a \in Archetype : /\ store.archetype[a].chunks = <<>>
                               /\ store.archetype[a].chunksWithEmptySlots = <<>>
      BY DEF Init
    <2>4. \A index : Listed(<<>>, {}, index)
      BY DEF Listed, Range
    <2> HIDE DEF K
    <2>5. Listing(store, OwnOf(K), OpenOf(K))
      BY <2>1, <2>2, <2>3, <2>4 DEF Listing
    <2>6. Fits(K)
      BY <1>1 DEF Fits
    <2> QED BY <2>5, <2>6 DEF Sound, K
  <1> HIDE DEF K
  <1>3. Places(K, entityInChunk)
    BY <1>1 DEF Init, Places, Placement, InPlace
  <1>4. \A A : RowPairs(K, A) = {}
    BY <1>1 DEF RowPairs
  <1>5. IsFiniteSet({}) /\ Cardinality({}) = 0
    BY FS_EmptySet
  <1>6. \A A : IsFiniteSet(RowPairs(K, A)) /\ Cardinality(RowPairs(K, A)) = 0
    BY <1>4, <1>5, Zenon
  <1>7. CountsRight(K, Counts(store))
    <2>1. Counts(store) = [a \in Archetype |-> 0]
      BY DEF Init, Counts
    <2> QED BY <1>6, <2>1 DEF CountsRight
  <1>8. toDestruct = DueOf(K)
    BY <1>6 DEF Init, DueOf
  <1>9. Books(store, entityInChunk, toDestruct)
    BY <1>1, <1>2, <1>3, <1>7, <1>8 DEF Books, NoneEmpty, K
  <1>10. StoreInv
    BY <1>9 DEF StoreInv, CallOK, Init
  <1>11. Table!TableInit
    BY DEF Init, Table!TableInit, TheTable, TheTargets, Exists, NoCall, Dead, Table!Dead
  <1> QED BY <1>10, <1>11

\* The call ends or begins, and no more: the store is as it was.
LEMMA StoreStays ==
  ASSUME StoreInv, UNCHANGED <<store, entityInChunk, toDestruct>>, CallOK(Contents(store), call')
  PROVE  StoreInv' /\ TheTable' = TheTable
  <1>1. StoreInv'
    BY DEF StoreInv
  <1>2. TheTable' = TheTable
    BY DEF TheTable, Exists, Row, Rows
  <1> QED BY <1>1, <1>2

LEMMA NoTargets ==
  /\ call = NoCall \/ call.op = "create" => TheTargets = {}
  /\ call' = NoCall \/ call'.op = "create" => TheTargets' = {}
  BY DEF TheTargets, NoCall

LEMMA CreateEntitiesStep ==
  ASSUME StoreInv, NEW a \in Archetype, NEW n \in 1 .. MaxBatch, createEntities(a, n)
  PROVE  StoreInv' /\ TableStep
  <1>1. CallOK(Contents(store), call')
    <2>1. n \in Nat \ {0} /\ call' = [op |-> "create", archetype |-> a, left |-> n]
      BY StoreAssumption DEF createEntities
    <2> QED BY <2>1 DEF CallOK
  <1>2. StoreInv' /\ TheTable' = TheTable
    BY <1>1, StoreStays DEF createEntities
  <1>3. TheTargets = {} /\ TheTargets' = {}
    BY NoTargets DEF createEntities
  <1> QED BY <1>2, <1>3 DEF TableStep

LEMMA OutOfChunksStep ==
  ASSUME StoreInv, NEW a, OutOfChunks(a)
  PROVE  StoreInv' /\ TheTable' = TheTable /\ TheTargets' = {}
  <1>1. StoreInv' /\ TheTable' = TheTable
    BY StoreStays DEF OutOfChunks, CallOK
  <1>2. TheTargets' = {}
    BY NoTargets DEF OutOfChunks
  <1> QED BY <1>1, <1>2

LEMMA CreateBatchStep ==
  ASSUME StoreInv, CreateBatch
  PROVE  StoreInv' /\ TableStep
  <1>1. PICK a \in Archetype, left \in Nat \ {0} :
          call = [op |-> "create", archetype |-> a, left |-> left]
    <2>1. call.op = "create"
      BY DEF CreateBatch
    <2>2. call # NoCall
      BY <2>1 DEF NoCall
    <2>3. \A es : call # [op |-> "destroy", entities |-> es]
      BY <2>1
    <2>4. \A c, first, n, b :
            call # [op |-> "move", chunk |-> c, first |-> first, count |-> n, to |-> b]
      BY <2>1
    <2> QED BY <2>2, <2>3, <2>4 DEF StoreInv, CallOK
  <1>2. call.op = "create" /\ call.archetype = a /\ call.left = left
    BY <1>1
  <1>3. TheTargets = {}
    BY <1>2, NoTargets
  <1>4. CASE OutOfChunks(a)
    BY <1>3, <1>4, OutOfChunksStep DEF TableStep
  <1>5. CASE ~OutOfChunks(a)
    <2>1. PICK g \in getChunkWithEmptySlots(a) :
            LET before == g.store.chunk[g.chunk].rows
                n == Lesser(left, chunkCapacity[a] - Len(before))
            IN \E es \in [1 .. n -> {e \in Entity : ~Exists(e)}] :
                 /\ IsInjective(es)
                 /\ LET new == [k \in 1 .. n |->
                              [entity |-> es[k],
                               data |-> [t \in a |-> Constructed(t)]]]
                    IN /\ store' = allocateIntoChunk(g.store, g.chunk, new)
                       /\ entityInChunk' = Placed(entityInChunk, g.chunk,
                            before \o new, Len(before) + 1, Len(before) + n)
                 /\ toDestruct' = [t \in Managed |->
                                  toDestruct[t] + IF t \in a THEN n ELSE 0]
                 /\ call' = IF left = n THEN NoCall ELSE [call EXCEPT !.left = @ - n]
      BY <1>2, <1>5, ZenonT(60) DEF CreateBatch
    <2> DEFINE before == g.store.chunk[g.chunk].rows
               n == Lesser(left, chunkCapacity[a] - Len(before))
    <2>2. PICK es \in [1 .. n -> {e \in Entity : ~Exists(e)}] :
                 /\ IsInjective(es)
                 /\ LET new == [k \in 1 .. n |->
                              [entity |-> es[k],
                               data |-> [t \in a |-> Constructed(t)]]]
                    IN /\ store' = allocateIntoChunk(g.store, g.chunk, new)
                       /\ entityInChunk' = Placed(entityInChunk, g.chunk,
                            before \o new, Len(before) + 1, Len(before) + n)
                 /\ toDestruct' = [t \in Managed |->
                                  toDestruct[t] + IF t \in a THEN n ELSE 0]
                 /\ call' = IF left = n THEN NoCall ELSE [call EXCEPT !.left = @ - n]
      BY <2>1
    <2> DEFINE fresh == [t \in a |-> Constructed(t)]
               data == [k \in 1 .. n |-> fresh]
               new == [k \in 1 .. n |-> [entity |-> es[k], data |-> fresh]]
    <2>3. Books(store, entityInChunk, toDestruct) /\ Sound(store)
      BY DEF StoreInv, Books
    <2>4. HasRoom(Contents(store), g.chunk, a, before)
      BY <2>3, GotChunk
    <2>5. chunkCapacity[a] \in Nat /\ Len(before) \in Nat /\ Len(before) < chunkCapacity[a]
      BY <2>4, StoreAssumption, RowParts DEF HasRoom
    <2>6. n \in Nat \ {0} /\ n <= left /\ Len(before) + n <= chunkCapacity[a]
      <3> DEFINE room == chunkCapacity[a] - Len(before)
      <3>1. n = IF left <= room THEN left ELSE room
        BY DEF Lesser
      <3> HIDE DEF before
      <3>2. room \in Nat \ {0} /\ Len(before) + room = chunkCapacity[a]
        BY <2>5
      <3> HIDE DEF room, n
      <3>3. n \in Nat \ {0} /\ n <= left /\ n <= room
        BY <3>1, <3>2
      <3> QED BY <2>5, <3>2, <3>3
    <2>7. fresh \in [a -> Value]
      BY StoreAssumption DEF Constructed, Zero
    <2>8. /\ store' = allocateIntoChunk(g.store, g.chunk, new)
          /\ entityInChunk' = Placed(entityInChunk, g.chunk,
                            before \o new, Len(before) + 1, Len(before) + n)
          /\ toDestruct' = [t \in Managed |-> toDestruct[t] + IF t \in a THEN n ELSE 0]
          /\ call' = IF left = n THEN NoCall ELSE [call EXCEPT !.left = @ - n]
      BY <2>2
    <2> HIDE DEF n, fresh
    <2>9. data \in [1 .. n -> [a -> Value]]
      BY <2>7
    <2>10. new = RowsMadeOf(n, es, data)
      BY DEF RowsMadeOf
    <2>11. /\ es \in [1 .. n -> Entity]
           /\ \A k \in 1 .. n : entityInChunk[es[k]] = Nowhere
           /\ \A i, k \in 1 .. n : es[i] = es[k] => i = k
      BY <2>2 DEF IsInjective, Exists
    <2> HIDE DEF new, before, data
    <2>12. /\ new \in RowsFor(a) /\ Len(new) = n
           /\ \A k \in 1 .. n : new[k].entity = es[k] /\ new[k].data = fresh
      <3>1. n \in Nat
        BY <2>6
      <3>3. new \in RowsFor(a) /\ Len(new) = n
        BY <2>9, <2>10, <2>11, <3>1, RowsMade
      <3>4. \A k \in 1 .. n : new[k].entity = es[k] /\ new[k].data = fresh
        BY DEF new
      <3> QED BY <3>3, <3>4
    <2>13. new # <<>>
      <3>1. Len(<<>>) = 0
        OBVIOUS
      <3> QED BY <2>6, <2>12, <3>1
    <2>14. Allocates(store, store', g.chunk, a, before, new)
      <3>1. before = g.store.chunk[g.chunk].rows
        BY DEF before
      <3> QED BY <2>3, <2>6, <2>8, <2>12, <2>13, <3>1, AllocateStep
    <2>15. /\ Books(store', entityInChunk', toDestruct')
           /\ Gives(TableOf(Contents(store), entityInChunk),
                    TableOf(Contents(store'), entityInChunk'), new)
      <3>1. ForNew(entityInChunk, new)
        BY <2>11, <2>12 DEF ForNew
      <3>2. /\ entityInChunk' = Placed(entityInChunk, g.chunk,
                            before \o new, Len(before) + 1, Len(before) + Len(new))
            /\ toDestruct' = MoreDue(toDestruct, a, Len(new))
        BY <2>8, <2>12 DEF MoreDue
      <3> QED BY <2>3, <2>13, <2>14, <3>1, <3>2, CreateStep
    <2>16. CallOK(Contents(store'), call') /\ (call' = NoCall \/ call'.op = "create")
      <3>1. CASE left = n
        BY <2>8, <3>1 DEF CallOK
      <3>2. CASE left # n
        <4>1. call' = [op |-> "create", archetype |-> a, left |-> left - n]
          BY <1>1, <2>8, <3>2
        <4>2. left - n \in Nat \ {0}
          BY <2>6, <3>2
        <4> QED BY <4>1, <4>2 DEF CallOK
      <3> QED BY <3>1, <3>2
    <2>17. StoreInv'
      BY <2>15, <2>16 DEF StoreInv
    <2>18. TheTargets' = {}
      BY <2>16, NoTargets
    <2> DEFINE S == {es[k] : k \in 1 .. n}
    <2>19. S \in SUBSET (Entity \ Table!Alive)
      <3>1. ASSUME NEW k \in 1 .. n PROVE es[k] \in Entity /\ TheTable[es[k]] = Dead
        BY <2>11 DEF TheTable, Exists
      <3>2. Table!Dead = Dead
        BY DEF Dead, Table!Dead
      <3> QED BY <3>1, <3>2 DEF Table!Alive
    <2>20. TheTable' = [e \in Entity |-> IF e \in S THEN <<fresh>> ELSE TheTable[e]]
      <3>1. /\ TheTable = TableOf(Contents(store), entityInChunk)
            /\ TheTable' = TableOf(Contents(store'), entityInChunk')
        BY <2>3, <2>15, TheTableIs, TheTableNext
      <3>2. \A e \in Entity : TheTable'[e] = IF e \in S THEN <<fresh>> ELSE TheTable[e]
        BY <2>12, <2>15, <3>1 DEF Gives
      <3>3. TheTable' = [e \in Entity |-> TheTable'[e]]
        BY <3>1 DEF TableOf
      <3> QED BY <3>2, <3>3
    <2>21. Table!Create
      <3>1. a \in SUBSET Component
        BY DEF Archetype
      <3> HIDE DEF S
      <3> QED BY <1>3, <2>18, <2>19, <2>20, <3>1 DEF Table!Create, fresh
    <2> QED BY <2>17, <2>21 DEF TableStep, Table!TableNext
  <1> QED BY <1>4, <1>5

LEMMA LeastNumber ==
  ASSUME NEW H, H \subseteq Nat, H # {}
  PROVE  \E k \in H : \A j \in H : k <= j
  <1>1. PICK k \in H : \A j \in H : ~(<<j, k>> \in OpToRel(<, Nat))
    BY NatLessThanWellFounded, WFMin
  <1>2. \A j \in H : ~(j < k)
    BY <1>1 DEF OpToRel
  <1> QED BY <1>2

\* There is a first batch: the CHOOSE has something to choose.
LEMMA FirstBatch ==
  ASSUME NEW es \in Seq(Entity), es # <<>>, Exists(es[1]),
         NEW c, NEW i \in Int, entityInChunk[es[1]] = At(c, i),
         NEW n, n = getFirstEntityBatchInChunk(es)
  PROVE  n \in 1 .. Len(es) /\ InOneRange(es, n)
  <1> DEFINE H == {m \in 1 .. Len(es) : m = Len(es) \/ ~InOneRange(es, m + 1)}
  <1>1. Len(es) \in Nat \ {0}
    OBVIOUS
  <1>2. Len(es) \in H /\ H \subseteq Nat
    BY <1>1
  <1>3. PICK m \in H : \A j \in H : m <= j
    <2> HIDE DEF H
    <2> QED BY <1>2, LeastNumber
  <1>4. InOneRange(es, m)
    <2>1. CASE m = 1
      <3>1. [At(c, i) EXCEPT !.index = @ + 1 - 1] = At(c, i)
        BY DEF At
      <3>2. \A k \in 1 .. m : k = 1
        BY <2>1
      <3> QED BY <3>1, <3>2 DEF InOneRange
    <2>2. CASE m # 1
      <3>1. m - 1 \in 1 .. Len(es) /\ m - 1 # Len(es) /\ ~(m <= m - 1) /\ (m - 1) + 1 = m
        BY <1>1, <2>2
      <3>2. m - 1 \notin H
        BY <1>3, <3>1
      <3> QED BY <3>1, <3>2
    <2> QED BY <2>1, <2>2
  <1>5. \E j \in 1 .. Len(es) : InOneRange(es, j) /\ ~(j < Len(es) /\ InOneRange(es, j + 1))
    <2>1. m \in 1 .. Len(es) /\ ~(m < Len(es) /\ InOneRange(es, m + 1))
      BY <1>1
    <2> QED BY <1>4, <2>1
  <1> QED BY <1>5 DEF getFirstEntityBatchInChunk

Left(es, n) == {es[k] : k \in n + 1 .. Len(es)}
Done(es, n) == {es[k] : k \in 1 .. n}

LEMMA DestroysOn ==
  ASSUME NEW es \in Seq(Entity), call = [op |-> "destroy", entities |-> es],
         NEW n \in 1 .. Len(es), DestroysWith(n)
  PROVE  /\ \A K : CallOK(K, call')
         /\ TheTargets = {e \in Done(es, n) \cup Left(es, n) : Exists(e)}
         /\ TheTargets' = {e \in Left(es, n) : Exists(e)'}
  <1>1. call.op = "destroy" /\ call.entities = es /\ Len(es) \in Nat
    OBVIOUS
  <1>2. ToSet(es) = Done(es, n) \cup Left(es, n)
    <2>1. \A k \in 1 .. Len(es) : k \in 1 .. n \/ k \in n + 1 .. Len(es)
      BY <1>1
    <2>2. \A k : k \in 1 .. n \/ k \in n + 1 .. Len(es) => k \in 1 .. Len(es)
      BY <1>1
    <2>3. DOMAIN es = 1 .. Len(es)
      OBVIOUS
    <2> QED BY <2>1, <2>2, <2>3 DEF ToSet, Done, Left
  <1>3. TheTargets = {e \in Done(es, n) \cup Left(es, n) : Exists(e)}
    BY <1>1, <1>2 DEF TheTargets
  <1>4. CASE Len(es) = n
    <2>1. call' = NoCall
      BY <1>1, <1>4 DEF DestroysWith
    <2>2. Left(es, n) = {}
      BY <1>4 DEF Left
    <2>3. TheTargets' = {}
      BY <2>1, NoTargets
    <2> QED BY <1>3, <2>1, <2>2, <2>3 DEF CallOK
  <1>5. CASE Len(es) # n
    <2> DEFINE d == Dropped(es, n)
               m == Len(es) - n
    <2>1. m \in Nat \ {0} /\ n \in Nat
      BY <1>1, <1>5
    <2>2. d \in Seq(Entity) /\ Len(d) = m /\ \A k \in 1 .. m : d[k] = es[n + k]
      <3>1. d = SubSeq(es, n + 1, Len(es)) /\ n + 1 <= Len(es)
        BY <1>1, <1>5 DEF Dropped
      <3>2. \A k \in 1 .. m : (n + 1) + k - 1 = n + k
        BY <2>1
      <3>3. (Len(es) - (n + 1)) + 1 = m /\ n + 1 \in Int /\ Len(es) \in Int
        BY <1>1, <2>1
      <3>4. \A k \in n + 1 .. Len(es) : es[k] \in Entity
        BY <1>1, <2>1
      <3> HIDE DEF d, m
      <3>5. /\ d \in Seq(Entity) /\ Len(d) = m
            /\ \A k \in 1 .. m : d[k] = es[(n + 1) + k - 1]
        BY <3>1, <3>3, <3>4, SubSeqProperties
      <3> QED BY <3>2, <3>5
    <2>3. \A k \in 1 .. m : n + k \in n + 1 .. Len(es) /\ n + k \in 1 .. Len(es)
      BY <1>1, <2>1
    <2>4. \A k \in n + 1 .. Len(es) : k - n \in 1 .. m /\ n + (k - n) = k
      BY <1>1, <2>1
    <2>5. call' = [op |-> "destroy", entities |-> d]
      BY <1>1, <1>5 DEF DestroysWith
    <2> HIDE DEF d, m
    <2>7. d \in Seq(Entity) /\ Len(d) = m /\ DOMAIN d = 1 .. m
      BY <2>2
    <2>8. d # <<>>
      BY <2>1, <2>7
    <2>9. ToSet(d) = Left(es, n)
      <3>1. \A k \in 1 .. m : d[k] = es[n + k]
        BY <2>2
      <3>2. ToSet(d) = {d[k] : k \in 1 .. m}
        BY <2>7 DEF ToSet
      <3>3. \A k \in n + 1 .. Len(es) : d[k - n] = es[k]
        BY <2>4, <3>1
      <3> QED BY <2>3, <2>4, <3>1, <3>2, <3>3 DEF Left
    <2>10. TheTargets' = {e \in Left(es, n) : Exists(e)'}
      <3>1. call'.op = "destroy" /\ call'.entities = d
        BY <2>5
      <3> QED BY <2>9, <3>1 DEF TheTargets
    <2>11. \A K : CallOK(K, call')
      BY <2>5, <2>7, <2>8 DEF CallOK
    <2> QED BY <1>3, <2>10, <2>11
  <1> QED BY <1>4, <1>5

LEMMA DestroyCall ==
  ASSUME StoreInv, call.op = "destroy"
  PROVE  \E es \in Seq(Entity) : es # <<>> /\ call = [op |-> "destroy", entities |-> es]
  <1>1. call # NoCall
    BY DEF NoCall
  <1>2. \A a, n : call # [op |-> "create", archetype |-> a, left |-> n]
    OBVIOUS
  <1>3. \A c, first, n, b :
          call # [op |-> "move", chunk |-> c, first |-> first, count |-> n, to |-> b]
    OBVIOUS
  <1> QED BY <1>1, <1>2, <1>3 DEF StoreInv, CallOK

LEMMA DestroyEntitiesStep ==
  ASSUME StoreInv, NEW es \in Lists, destroyEntities(es)
  PROVE  StoreInv' /\ TableStep
  <1>1. PICK n \in 1 .. MaxBatch : es \in [1 .. n -> Entity]
    BY DEF Lists
  <1>2. es \in Seq(Entity) /\ es # <<>>
    <2>1. n \in Nat \ {0}
      BY StoreAssumption
    <2>2. es \in Seq(Entity) /\ Len(es) = n
      BY <1>1, <2>1, SeqDef, LenProperties
    <2> QED BY <2>1, <2>2
  <1>3. call' = [op |-> "destroy", entities |-> es] /\ call = NoCall
    BY DEF destroyEntities
  <1>4. StoreInv' /\ TheTable' = TheTable
    <2>1. CallOK(Contents(store), call')
      BY <1>2, <1>3 DEF CallOK
    <2> QED BY <2>1, StoreStays DEF destroyEntities
  <1>5. TheTargets = {}
    BY <1>3, NoTargets
  <1>6. TheTargets' \in SUBSET Table!Alive
    <2>1. call'.op = "destroy" /\ call'.entities = es
      BY <1>3
    <2>2. TheTargets' = {e \in ToSet(es) : Exists(e)}
      BY <2>1 DEF TheTargets, destroyEntities, Exists
    <2>3. ToSet(es) \subseteq Entity
      BY <1>1 DEF ToSet
    <2>4. \A e \in Entity : Exists(e) => TheTable[e] # Table!Dead
      BY OneNotDead DEF TheTable, Dead, Table!Dead
    <2> QED BY <2>2, <2>3, <2>4 DEF Table!Alive
  <1>7. Table!Begin
    BY <1>4, <1>5, <1>6 DEF Table!Begin
  <1> QED BY <1>4, <1>7 DEF TableStep, Table!TableNext

LEMMA SkipMissingStep ==
  ASSUME StoreInv, SkipMissing
  PROVE  StoreInv' /\ TableStep
  <1>1. PICK es \in Seq(Entity) : es # <<>> /\ call = [op |-> "destroy", entities |-> es]
    BY DestroyCall DEF SkipMissing
  <1>2. 1 \in 1 .. Len(es) /\ call.entities = es /\ Head(es) = es[1]
    BY <1>1
  <1>3. ~Exists(es[1]) /\ DestroysWith(1) /\ UNCHANGED <<store, entityInChunk, toDestruct>>
    BY <1>2 DEF SkipMissing
  <1>4. /\ \A K : CallOK(K, call')
        /\ TheTargets = {e \in Done(es, 1) \cup Left(es, 1) : Exists(e)}
        /\ TheTargets' = {e \in Left(es, 1) : Exists(e)'}
    BY <1>1, <1>2, <1>3, DestroysOn
  <1>5. StoreInv' /\ TheTable' = TheTable
    BY <1>3, <1>4, StoreStays
  <1>6. TheTargets' = TheTargets
    <2>1. Done(es, 1) = {es[1]}
      BY DEF Done
    <2>2. \A e : Exists(e)' <=> Exists(e)
      BY <1>3 DEF Exists
    <2> QED BY <1>3, <1>4, <2>1, <2>2
  <1> QED BY <1>5, <1>6 DEF TableStep

LEMMA DestroyBatchStep ==
  ASSUME StoreInv, DestroyBatch
  PROVE  StoreInv' /\ TableStep
  <1>1. PICK es \in Seq(Entity) : es # <<>> /\ call = [op |-> "destroy", entities |-> es]
    BY DestroyCall DEF DestroyBatch
  <1>2. 1 \in 1 .. Len(es) /\ call.entities = es /\ Head(es) = es[1] /\ es[1] \in Entity
    BY <1>1
  <1> DEFINE K == Contents(store)
             n == getFirstEntityBatchInChunk(es)
             c == entityInChunk[es[1]].chunk
             first == entityInChunk[es[1]].index
             a == store.chunk[c].archetype
             rows == store.chunk[c].rows
             gone == EntitiesIn(rows, first, n)
  <1>3. /\ Exists(es[1])
        /\ entityInChunk' = Filled(Vacated(entityInChunk, gone), c, rows, first, n)
        /\ store' = WithoutBatch(store, c, first, n)
        /\ toDestruct' = FewerDue(toDestruct, a, n)
        /\ DestroysWith(n)
    BY <1>2 DEF DestroyBatch, Rows, FewerDue, EntitiesIn, Vacated
  <1>4. Books(store, entityInChunk, toDestruct) /\ Sound(store) /\ WellFormed(K)
    BY SoundParts DEF StoreInv, Books
  <1>5. Places(K, entityInChunk)
    BY <1>4 DEF Books
  <1> HIDE DEF K
  <1>6. /\ \A x \in Chunk : \A k \in 1 .. Len(K[x].rows) :
             K[x] # Free => entityInChunk[K[x].rows[k].entity] = At(x, k)
        /\ \A e \in Entity : Exists(e) =>
             \E x \in Chunk : \E k \in 1 .. Len(K[x].rows) :
               K[x] # Free /\ entityInChunk[e] = At(x, k) /\ K[x].rows[k].entity = e
    BY <1>5, PlacesParts DEF Exists
  <1>7. PICK x \in Chunk : \E k \in 1 .. Len(K[x].rows) :
          K[x] # Free /\ entityInChunk[es[1]] = At(x, k) /\ K[x].rows[k].entity = es[1]
    BY <1>2, <1>3, <1>6
  <1>8. PICK i \in 1 .. Len(K[x].rows) :
          K[x] # Free /\ entityInChunk[es[1]] = At(x, i) /\ K[x].rows[i].entity = es[1]
    BY <1>7
  <1>9. c = x /\ first = i /\ c \in Chunk /\ K[c] # Free
    BY <1>8, AtParts
  <1>10. /\ store.chunk[c] # Free /\ K[c].rows = rows /\ K[c].archetype = a /\ a \in Archetype
         /\ rows \in RowsFor(a) /\ Len(rows) \in Nat
    <2>1. store.chunk[c] # Free /\ K[c].rows = rows /\ K[c].archetype = a
      BY <1>9, ContentOf DEF K
    <2> QED BY <1>4, <1>9, <2>1, RowParts DEF WellFormed
  <1>11. first \in 1 .. Len(rows) /\ first \in Nat \ {0}
    BY <1>8, <1>9, <1>10
  <1> HIDE DEF c, first, a, rows, n
  <1>12. n \in 1 .. Len(es) /\ InOneRange(es, n) /\ n \in Nat \ {0}
    <2>1. entityInChunk[es[1]] = At(c, first) /\ first \in Int
      BY <1>8, <1>9, <1>11
    <2>2. n \in 1 .. Len(es) /\ InOneRange(es, n)
      BY <1>1, <1>3, <2>1, FirstBatch DEF n
    <2>3. Len(es) \in Nat
      BY <1>1
    <2> QED BY <2>2, <2>3
  <1>13. \A k \in 1 .. n : /\ es[k] \in Entity /\ Exists(es[k])
                           /\ entityInChunk[es[k]] = At(c, first + k - 1)
    <2> TAKE k \in 1 .. n
    <2>1. k \in 1 .. Len(es)
      BY <1>1, <1>12
    <2>2. entityInChunk[es[1]] = [chunk |-> c, index |-> first]
      BY <1>8, <1>9 DEF At
    <2>3. Exists(es[k]) /\ entityInChunk[es[k]] = [entityInChunk[es[1]] EXCEPT !.index = @ + k - 1]
      BY <1>12 DEF InOneRange
    <2>4. entityInChunk[es[k]] = [chunk |-> c, index |-> first + k - 1]
      BY <2>2, <2>3
    <2> QED BY <1>1, <2>1, <2>3, <2>4 DEF At
  <1>14. \A k \in 1 .. n : first + k - 1 \in 1 .. Len(rows) /\ rows[first + k - 1].entity = es[k]
    <2> TAKE k \in 1 .. n
    <2>1. PICK y \in Chunk : \E j \in 1 .. Len(K[y].rows) :
            K[y] # Free /\ entityInChunk[es[k]] = At(y, j) /\ K[y].rows[j].entity = es[k]
      BY <1>6, <1>13
    <2>2. PICK j \in 1 .. Len(K[y].rows) :
            K[y] # Free /\ entityInChunk[es[k]] = At(y, j) /\ K[y].rows[j].entity = es[k]
      BY <2>1
    <2>3. y = c /\ j = first + k - 1
      BY <1>13, <2>2, AtParts
    <2> QED BY <1>10, <2>2, <2>3
  <1>15. first + n - 1 <= Len(rows)
    <2>1. n \in 1 .. n
      BY <1>12
    <2> QED BY <1>14, <2>1
  <1>16. gone = Done(es, n)
    <2>1. \A k \in first .. first + n - 1 :
            k - first + 1 \in 1 .. n /\ first + (k - first + 1) - 1 = k
      BY <1>11, <1>12
    <2>2. \A k \in first .. first + n - 1 : rows[k].entity = es[k - first + 1]
      BY <1>14, <2>1
    <2>3. \A k \in 1 .. n : first + k - 1 \in first .. first + n - 1
      BY <1>11, <1>12
    <2>4. gone \subseteq Done(es, n)
      BY <2>1, <2>2 DEF Done, EntitiesIn
    <2>5. Done(es, n) \subseteq gone
      BY <1>14, <2>3 DEF Done, EntitiesIn
    <2> QED BY <2>4, <2>5
  <1> HIDE DEF gone
  <1>17. Removes(store, store', c, a, first, n)
    <2>1. store.chunk[c].archetype = a /\ first + n - 1 <= Len(store.chunk[c].rows)
      BY <1>15 DEF a, rows
    <2> QED BY <1>3, <1>4, <1>9, <1>10, <1>11, <1>12, <2>1, RemoveStep
  <1>18. /\ Books(store', entityInChunk', toDestruct')
         /\ Empties(TableOf(Contents(store), entityInChunk),
                    TableOf(Contents(store'), entityInChunk'), gone)
    <2>1. Destroys(entityInChunk, entityInChunk', rows, c, first, n, gone)
      BY <1>3 DEF Destroys, gone
    <2>2. rows = store.chunk[c].rows
      BY DEF rows
    <2>3. toDestruct' = FewerDue(toDestruct, a, n) /\ a \in Archetype
      BY <1>3, <1>10
    <2>4. Books(store, entityInChunk, toDestruct)
      BY <1>4
    <2> HIDE DEF rows
    <2>5. Books(store', entityInChunk', FewerDue(toDestruct, a, n))
      BY <1>17, <2>1, <2>2, <2>3, <2>4, DestroyStep
    <2>6. Empties(TableOf(Contents(store), entityInChunk),
                  TableOf(Contents(store'), entityInChunk'), gone)
      BY <1>17, <2>1, <2>2, <2>3, <2>4, DestroyStep
    <2> QED BY <2>3, <2>5, <2>6
  <1>19. /\ \A L : CallOK(L, call')
         /\ TheTargets = {e \in Done(es, n) \cup Left(es, n) : Exists(e)}
         /\ TheTargets' = {e \in Left(es, n) : Exists(e)'}
    BY <1>1, <1>3, <1>12, DestroysOn
  <1>20. StoreInv'
    BY <1>18, <1>19 DEF StoreInv
  <1>21. TheTable' = [e \in Entity |-> IF e \in gone THEN Dead ELSE TheTable[e]]
    BY <1>4, <1>18, TheTableIs, TheTableNext DEF Empties
  <1>22. \A e \in Entity : Exists(e)' <=> (Exists(e) /\ e \notin gone)
    <2>1. \A e \in Entity : Exists(e) <=> TheTable[e] # Dead
      BY OneNotDead DEF TheTable
    <2>2. \A e \in Entity : Exists(e)' <=> TheTable'[e] # Dead
      BY OneNotDead DEF TheTable
    <2> QED BY <1>21, <2>1, <2>2
  <1>23. Done(es, n) \cup Left(es, n) \subseteq Entity
    <2>1. \A k \in n + 1 .. Len(es) : k \in 1 .. Len(es)
      BY <1>12
    <2>2. \A k \in 1 .. Len(es) : es[k] \in Entity
      BY <1>1
    <2> QED BY <1>13, <2>1, <2>2 DEF Done, Left
  <1>24. gone \in SUBSET TheTargets
    <2>1. \A e \in gone : Exists(e) /\ e \in Done(es, n)
      BY <1>13, <1>16 DEF Done
    <2> QED BY <1>19, <2>1
  <1>25. TheTargets' = TheTargets \ gone
    BY <1>16, <1>19, <1>22, <1>23
  <1>26. Table!Destroy
    <2>1. Table!Dead = Dead
      BY DEF Dead, Table!Dead
    <2> HIDE DEF gone
    <2> QED BY <1>21, <1>24, <1>25, <2>1 DEF Table!Destroy
  <1> QED BY <1>20, <1>26 DEF TableStep, Table!TableNext

--------------------------------------------------------------------------------
(* Moving rows to another archetype *)

GoodRows(c) ==
  /\ Contents(store)[c] # Free /\ Contents(store)[c].rows = Rows(c)
  /\ Contents(store)[c].archetype = store.chunk[c].archetype
  /\ store.chunk[c].archetype \in Archetype
  /\ Rows(c) \in RowsFor(store.chunk[c].archetype)
  /\ Len(Rows(c)) \in Nat \ {0} /\ Len(Rows(c)) <= chunkCapacity[store.chunk[c].archetype]
  /\ \A k \in 1 .. Len(Rows(c)) :
       /\ Rows(c)[k].entity \in Entity
       /\ Rows(c)[k].data \in [store.chunk[c].archetype -> Value]
       /\ entityInChunk[Rows(c)[k].entity] = At(c, k)
       /\ TheTable[Rows(c)[k].entity] = <<Rows(c)[k].data>>

LEMMA RowsAreGood ==
  ASSUME Books(store, entityInChunk, toDestruct), NEW c \in Chunk, store.chunk[c] # Free
  PROVE  GoodRows(c)
  <1> DEFINE K == Contents(store)
             a == store.chunk[c].archetype
             rows == Rows(c)
  <1>1. K[c] # Free /\ K[c].rows = rows /\ K[c].archetype = a
    BY ContentOf DEF Rows
  <1>2. WellFormed(K) /\ Places(K, entityInChunk) /\ NoneEmpty(K) /\ Fits(K)
    BY SoundParts DEF Books, Sound
  <1> HIDE DEF K
  <1>3. a \in Archetype /\ rows \in RowsFor(a) /\ rows # <<>> /\ Len(rows) <= chunkCapacity[a]
    BY <1>1, <1>2 DEF WellFormed, NoneEmpty, Fits
  <1>4. \A k \in 1 .. Len(rows) : entityInChunk[rows[k].entity] = At(c, k)
    BY <1>1, <1>2, PlacesParts
  <1> HIDE DEF rows, a
  <1>5. /\ Len(rows) \in Nat
        /\ \A k \in 1 .. Len(rows) : rows[k].entity \in Entity /\ rows[k].data \in [a -> Value]
    BY <1>3, RowParts
  <1>6. Len(rows) # 0
    <2>1. rows \in Seq([entity : Entity, data : [a -> Value]])
      BY <1>3 DEF RowsFor
    <2> QED BY <1>3, <2>1
  <1>7. ASSUME NEW k \in 1 .. Len(rows)
        PROVE  TheTable[rows[k].entity] = <<rows[k].data>>
    <2>1. rows[k].entity \in Entity /\ entityInChunk[rows[k].entity] = At(c, k)
      BY <1>4, <1>5
    <2>2. Exists(rows[k].entity) /\ Row(rows[k].entity) = Rows(c)[k]
      BY <2>1, AtParts DEF Exists, Row
    <2> QED BY <2>1, <2>2 DEF TheTable, rows
  <1> QED BY <1>1, <1>3, <1>4, <1>5, <1>6, <1>7 DEF GoodRows, K, rows, a

LEMMA MoveToStep ==
  ASSUME StoreInv, NEW c \in Used, NEW first \in 1 .. Len(Rows(c)),
         NEW n \in 1 .. Lesser(MaxBatch, Len(Rows(c)) - first + 1),
         NEW b \in Archetype, MoveTo(c, first, n, b)
  PROVE  StoreInv' /\ TableStep
  <1>1. GoodRows(c) /\ c \in Chunk
    BY RowsAreGood DEF StoreInv, Used
  <1>2. Len(Rows(c)) \in Nat \ {0}
    BY <1>1 DEF GoodRows
  <1>3. n \in Nat \ {0} /\ first \in Nat \ {0} /\ first + n - 1 <= Len(Rows(c))
    <2>1. MaxBatch \in Nat
      BY StoreAssumption
    <2>2. n <= Len(Rows(c)) - first + 1 /\ n \in Nat \ {0}
      BY <1>2, <2>1 DEF Lesser
    <2> QED BY <1>2, <2>2
  <1>4. /\ call = NoCall /\ b # store.chunk[c].archetype
        /\ call' = [op |-> "move", chunk |-> c, first |-> first, count |-> n, to |-> b]
        /\ UNCHANGED <<store, entityInChunk, toDestruct>>
    BY DEF MoveTo
  <1>5. CallOK(Contents(store), call')
    BY <1>1, <1>3, <1>4 DEF CallOK, GoodRows
  <1>6. StoreInv' /\ TheTable' = TheTable
    BY <1>4, <1>5, StoreStays
  <1>7. TheTargets = {}
    BY <1>4, NoTargets
  <1>8. TheTargets' \in SUBSET Table!Alive
    <2>1. /\ call'.op = "move" /\ call'.chunk = c /\ call'.first = first /\ call'.count = n
      BY <1>4
    <2>2. Rows(c)' = Rows(c)
      BY <1>4 DEF Rows
    <2>3. TheTargets' = {Rows(c)[k].entity : k \in first .. first + n - 1}
      BY <2>1, <2>2 DEF TheTargets, Rows
    <2>4. \A k \in first .. first + n - 1 : k \in 1 .. Len(Rows(c))
      BY <1>2, <1>3
    <2>5. \A k \in first .. first + n - 1 :
            Rows(c)[k].entity \in Entity /\ TheTable[Rows(c)[k].entity] # Table!Dead
      BY <1>1, <2>4, OneNotDead DEF GoodRows, Dead, Table!Dead
    <2> QED BY <2>3, <2>5 DEF Table!Alive
  <1>9. Table!Begin
    BY <1>6, <1>7, <1>8 DEF Table!Begin
  <1> QED BY <1>6, <1>9 DEF TableStep, Table!TableNext

LEMMA OnBatchStep ==
  ASSUME StoreInv, NEW c \in Used, NEW first \in 1 .. Len(Rows(c)),
         NEW n \in 1 .. Lesser(MaxBatch, Len(Rows(c)) - first + 1), OnBatch(c, first, n)
  PROVE  StoreInv' /\ TableStep
  <1>1. store.chunk[c].archetype \in Archetype
    BY RowsAreGood DEF StoreInv, Used, GoodRows
  <1>2. ASSUME NEW types \in SUBSET Component, addComponents(c, first, n, types)
        PROVE  StoreInv' /\ TableStep
    <2>1. store.chunk[c].archetype \cup types \in Archetype
      BY <1>1 DEF Archetype
    <2> QED BY <1>2, <2>1, MoveToStep DEF addComponents
  <1>3. ASSUME NEW type \in Component, removeComponent(c, first, n, type)
        PROVE  StoreInv' /\ TableStep
    <2>1. store.chunk[c].archetype \ {type} \in Archetype
      BY <1>1 DEF Archetype
    <2> QED BY <1>3, <2>1, MoveToStep DEF removeComponent
  <1> QED BY <1>2, <1>3 DEF OnBatch

LEMMA RemoveComponentsStep ==
  ASSUME StoreInv, NEW c, NEW types, removeComponents(c, types)
  PROVE  StoreInv' /\ TableStep
  <1>1. UNCHANGED vars
    BY DEF removeComponents
  <1>2. StoreInv'
    BY <1>1 DEF StoreInv, vars
  <1>3. UNCHANGED <<TheTable, TheTargets>>
    BY <1>1 DEF vars, TheTable, TheTargets, Exists, Row, Rows
  <1> QED BY <1>2, <1>3 DEF TableStep

\* What moved keeps: the components it had, and zeros for the others.
Kept(data, b) == [t \in b |-> IF t \in DOMAIN data THEN data[t] ELSE Zero]

LEMMA ConvertedRow ==
  ASSUME NEW a, NEW b, NEW row \in [entity : Entity, data : [a -> Value]]
  PROVE  /\ converted(row, b) = [entity |-> row.entity, data |-> Kept(row.data, b)]
         /\ Kept(row.data, b) \in [b -> Value]
  <1>1. Kept(row.data, b) \in [b -> Value]
    <2>1. row.data \in [a -> Value] /\ Zero \in Value
      BY StoreAssumption DEF Zero
    <2> QED BY <2>1 DEF Kept
  <1>2. converted(row, b) = [row EXCEPT !.data = Kept(row.data, b)]
    BY DEF converted, Kept
  <1>3. [row EXCEPT !.data = Kept(row.data, b)] =
          [entity |-> row.entity, data |-> Kept(row.data, b)]
    <2> DEFINE d == Kept(row.data, b)
    <2> HIDE DEF d
    <2>1. [row EXCEPT !.data = d] = [entity |-> row.entity, data |-> d]
      OBVIOUS
    <2> QED BY <2>1 DEF d
  <1> QED BY <1>1, <1>2, <1>3

LEMMA MoveCall ==
  ASSUME StoreInv, call.op = "move"
  PROVE  \E c \in Chunk, first \in Nat \ {0}, n \in Nat \ {0}, b \in Archetype :
           /\ call = [op |-> "move", chunk |-> c, first |-> first, count |-> n, to |-> b]
           /\ Contents(store)[c] # Free /\ Contents(store)[c].archetype # b
           /\ first + n - 1 <= Len(Contents(store)[c].rows)
  <1>1. call # NoCall
    BY DEF NoCall
  <1>2. \A a, n : call # [op |-> "create", archetype |-> a, left |-> n]
    OBVIOUS
  <1>3. \A es : call # [op |-> "destroy", entities |-> es]
    OBVIOUS
  <1> QED BY <1>1, <1>2, <1>3 DEF StoreInv, CallOK

LEMMA SeqOfFunction ==
  ASSUME NEW D, NEW n \in Nat, NEW f \in [1 .. n -> D]
  PROVE  f \in Seq(D) /\ Len(f) = n
  BY SeqDef, LenProperties

PartOf(rows, first, n, b) == [k \in 1 .. n |-> converted(rows[first + k - 1], b)]

PartParts(part, rows, first, n, b) ==
  \A k \in 1 .. n : /\ part[k].entity = rows[first + k - 1].entity
                    /\ part[k].data = Kept(rows[first + k - 1].data, b)

\* The rows that move are the last of those the call has left.
LEMMA MovedRows ==
  ASSUME NEW a \in Archetype, NEW b \in Archetype, NEW rows \in RowsFor(a),
         NEW first \in Nat \ {0}, NEW n \in Nat \ {0}, first + n - 1 <= Len(rows),
         NEW part, part = PartOf(rows, first, n, b)
  PROVE  /\ part \in RowsFor(b) /\ Len(part) = n
         /\ PartParts(part, rows, first, n, b)
  <1> DEFINE D == [entity : Entity, data : [a -> Value]]
             E == [entity : Entity, data : [b -> Value]]
  <1>1. rows \in Seq(D)
    BY DEF RowsFor
  <1> HIDE DEF D
  <1>2. \A k \in 1 .. n : first + k - 1 \in 1 .. Len(rows)
    <2>1. Len(rows) \in Nat
      BY <1>1
    <2> QED BY <2>1
  <1>3. \A k \in 1 .. n : rows[first + k - 1] \in D
    BY <1>1, <1>2
  <1>4. ASSUME NEW k \in 1 .. n
        PROVE  /\ part[k].entity = rows[first + k - 1].entity
               /\ part[k].data = Kept(rows[first + k - 1].data, b)
               /\ part[k] \in E
    <2> DEFINE row == rows[first + k - 1]
    <2>1. row \in [entity : Entity, data : [a -> Value]] /\ part[k] = converted(row, b)
      BY <1>3 DEF D, PartOf
    <2> HIDE DEF row
    <2>2. /\ converted(row, b) = [entity |-> row.entity, data |-> Kept(row.data, b)]
          /\ Kept(row.data, b) \in [b -> Value]
      BY <2>1, ConvertedRow
    <2>3. row.entity \in Entity
      BY <2>1
    <2>4. part[k] \in E
      BY <2>1, <2>2, <2>3
    <2>5. part[k].entity = row.entity /\ part[k].data = Kept(row.data, b)
      BY <2>1, <2>2
    <2> QED BY <2>4, <2>5 DEF row
  <1> HIDE DEF E
  <1>5. part \in [1 .. n -> E]
    BY <1>4 DEF PartOf
  <1>6. part \in Seq(E) /\ Len(part) = n
    BY <1>5, SeqOfFunction
  <1> QED BY <1>4, <1>6 DEF RowsFor, E, PartParts

\* The n rows from first on are the last of the count rows from from on.
LastOf(from, count, first, n) ==
  /\ from \in Nat \ {0} /\ count \in Nat \ {0} /\ n \in 1 .. count
  /\ first = from + count - n

\* These rows of src are still there.
StillThere(M, src, a, rows, from, left) ==
  /\ M[src] # Free /\ M[src].archetype = a
  /\ from + left - 1 <= Len(M[src].rows)
  /\ \A k \in from .. from + left - 1 : M[src].rows[k] = rows[k]

\* What is left of the call once n rows have moved, with the content of src then.
LEMMA MoveLeaves ==
  ASSUME NEW K, WellFormed(K), NEW M, NEW src, NEW a,
         NEW from, NEW count, NEW first, NEW n, LastOf(from, count, first, n), n # count,
         Removed(K, M, src, a, first, n), NEW rows, rows = K[src].rows
  PROVE  StillThere(M, src, a, rows, from, count - n)
  <1> DEFINE len == Len(K[src].rows)
             fill == FillCount(K[src].rows, first, n)
             left == RowsWithout(K[src].rows, first, n)
  <1>1. RemovedParts(K, M, src, a, first, n, len, fill, left)
    <2> HIDE DEF len, fill, left
    <2> QED BY RemovedRows DEF len, fill, left
  <1> HIDE DEF len, fill, left
  <1>2. /\ len \in Nat /\ first + n - 1 <= len /\ Len(left) = len - n /\ len - n \in Nat
        /\ \A k \in 1 .. len - n : left[k] = rows[Source(len, first, n, k)]
        /\ len - n > 0 => M[src] # Free
        /\ M[src] # Free => M[src].archetype = a /\ M[src].rows = left
    BY <1>1 DEF RemovedParts
  <1>3. len - n > 0 /\ from + (count - n) - 1 <= len - n
    BY <1>2 DEF LastOf
  <1>4. ASSUME NEW k \in from .. from + (count - n) - 1 PROVE left[k] = rows[k]
    <2>1. k \in 1 .. len - n /\ k < first /\ k \in Int /\ first \in Int
      BY <1>2, <1>3 DEF LastOf
    <2>2. \A m : k \notin first .. m
      BY <2>1
    <2>3. Source(len, first, n, k) = k
      BY <2>2 DEF Source
    <2> QED BY <1>2, <2>1, <2>3
  <1> QED BY <1>2, <1>3, <1>4 DEF StillThere

\* Of what src had in K, rows first .. first + n - 1 have gone.
Takes(K, M, src, a, first, n) ==
  \E L : WellFormed(L) /\ L[src] = K[src] /\ Removed(L, M, src, a, first, n)

\* The chunk that rows are taken from is not the one that gets them.
LEMMA MoveBatchBooks ==
  ASSUME StoreInv, NEW src \in Chunk, NEW a \in Archetype, NEW b \in Archetype, a # b,
         store.chunk[src] # Free, store.chunk[src].archetype = a,
         NEW g \in getChunkWithEmptySlots(b),
         NEW before, before = g.store.chunk[g.chunk].rows,
         NEW rows, rows = Rows(src),
         NEW first \in Nat \ {0}, NEW n \in Nat \ {0}, first + n - 1 <= Len(rows),
         Len(before) + n <= chunkCapacity[b],
         NEW part, part = PartOf(rows, first, n, b),
         store' = WithoutBatch(allocateIntoChunk(g.store, g.chunk, part), src, first, n),
         MovesPlaces(entityInChunk, entityInChunk', g.chunk, before, part, src, rows, first, n),
         MovesDue(toDestruct, toDestruct', a, b, n)
  PROVE  /\ Books(store', entityInChunk', toDestruct')
         /\ Gives(TheTable, TheTable', part)
         /\ Takes(Contents(store), Contents(store'), src, a, first, n)
  <1> DEFINE t == allocateIntoChunk(g.store, g.chunk, part)
             c == g.chunk
             K == Contents(store)
             L == Contents(t)
  <1>1. Books(store, entityInChunk, toDestruct) /\ Sound(store) /\ WellFormed(K)
    BY SoundParts DEF StoreInv, Books
  <1>2. GoodRows(src)
    BY <1>1, RowsAreGood
  <1>3. /\ K[src] # Free /\ K[src].rows = rows /\ K[src].archetype = a /\ rows \in RowsFor(a)
    BY <1>2 DEF GoodRows
  <1>4. /\ part \in RowsFor(b) /\ Len(part) = n
        /\ PartParts(part, rows, first, n, b)
    BY <1>3, MovedRows
  <1>5. part # <<>>
    <2>1. Len(<<>>) = 0
      OBVIOUS
    <2> QED BY <1>4, <2>1
  <1>6. SameEntities(part, rows, first, n)
    BY <1>4 DEF SameEntities, PartParts
  <1> HIDE DEF K, L, t, c
  <1>7. Allocates(store, t, c, b, before, part)
    <2>1. Len(before) + Len(part) <= chunkCapacity[b]
      BY <1>4
    <2>2. part \in RowsFor(b)
      BY <1>4
    <2>3. Allocates(store, t, g.chunk, b, before, part)
      BY <1>1, <1>5, <2>1, <2>2, AllocateStep DEF t
    <2> QED BY <2>3 DEF c
  <1>8. Sound(t) /\ Appended(K, L, c, b, before, part)
    BY <1>7 DEF Allocates, K, L
  <1>9. c # src
    <2>1. K[c] # Free => K[c] = [archetype |-> b, rows |-> before]
      BY <1>8 DEF Appended, HasRoom
    <2>2. K[c] # Free => K[c].archetype = b
      BY <2>1
    <2> QED BY <1>3, <2>2
  <1>10. L[src] = K[src]
    <2>1. DOMAIN K = Chunk
      BY <1>1 DEF WellFormed
    <2>2. L = [K EXCEPT ![c] = [archetype |-> b, rows |-> before \o part]]
      BY <1>8 DEF Appended, With
    <2> QED BY <1>9, <2>1, <2>2
  <1>11. t.chunk[src] # Free /\ t.chunk[src].archetype = a /\ t.chunk[src].rows = rows
    <2>1. L[src] # Free /\ L[src].archetype = a /\ L[src].rows = rows
      BY <1>3, <1>10
    <2> QED BY <2>1, ContentOf DEF L
  <1>12. Removes(t, store', src, a, first, n)
    <2>1. store' = WithoutBatch(t, src, first, n)
      BY DEF t
    <2>2. first + n - 1 <= Len(t.chunk[src].rows)
      BY <1>11
    <2> QED BY <1>8, <1>11, <2>1, <2>2, RemoveStep
  <1>13. /\ rows = store.chunk[src].rows /\ n = Len(part)
         /\ MovesPlaces(entityInChunk, entityInChunk', c, before, part, src, rows, first, n)
    BY <1>4 DEF Rows, c
  <1>14. Books(store', entityInChunk', toDestruct')
    BY <1>1, <1>5, <1>6, <1>7, <1>9, <1>12, <1>13, MoveStep
  <1>15. Gives(TableOf(Contents(store), entityInChunk),
               TableOf(Contents(store'), entityInChunk'), part)
    BY <1>1, <1>5, <1>6, <1>7, <1>9, <1>12, <1>13, MoveStep
  <1>16. Gives(TheTable, TheTable', part)
    BY <1>1, <1>14, <1>15, TheTableIs, TheTableNext
  <1>17. Removed(L, Contents(store'), src, a, first, n)
    BY <1>12 DEF Removes, L
  <1>18. WellFormed(L)
    BY <1>8, SoundParts DEF L
  <1> QED BY <1>10, <1>14, <1>16, <1>17, <1>18 DEF K, Takes
OneEach(rows, from, count) ==
  \A i, k \in from .. from + count - 1 : rows[i].entity = rows[k].entity => i = k

IsWithout(rest, all, mine) == mine \subseteq all /\ rest = all \ mine

\* The entities that move are the last of the targets.
LEMMA MoveTargets ==
  ASSUME NEW rows, NEW from, NEW count, NEW first, NEW n, LastOf(from, count, first, n),
         OneEach(rows, from, count)
  PROVE  IsWithout(EntitiesIn(rows, from, count - n), EntitiesIn(rows, from, count),
                   EntitiesIn(rows, first, n))
  <1> DEFINE all == from .. from + count - 1
             mine == first .. first + n - 1
             rest == from .. from + (count - n) - 1
  <1>1. mine \subseteq all /\ rest \subseteq all /\ rest = all \ mine
    BY DEF LastOf
  <1>2. /\ EntitiesIn(rows, first, n) = {rows[k].entity : k \in mine}
        /\ EntitiesIn(rows, from, count - n) = {rows[k].entity : k \in rest}
        /\ EntitiesIn(rows, from, count) = {rows[k].entity : k \in all}
    BY DEF EntitiesIn
  <1>3. \A i, k \in all : rows[i].entity = rows[k].entity => i = k
    BY DEF OneEach
  <1> HIDE DEF all, mine, rest
  <1> DEFINE A == {rows[k].entity : k \in all}
             M == {rows[k].entity : k \in mine}
             R == {rows[k].entity : k \in rest}
  <1>4. M \subseteq A
    BY <1>1
  <1>5. R \subseteq A \ M
    BY <1>1, <1>3
  <1>6. A \ M \subseteq R
    BY <1>1
  <1>7. R = A \ M
    BY <1>5, <1>6
  <1> QED BY <1>2, <1>4, <1>7 DEF IsWithout

LEMMA MoveBatchStep ==
  ASSUME StoreInv, MoveBatch
  PROVE  StoreInv' /\ TableStep
  <1>1. PICK src \in Chunk, from \in Nat \ {0}, count \in Nat \ {0}, b \in Archetype :
          /\ call = [op |-> "move", chunk |-> src, first |-> from, count |-> count, to |-> b]
          /\ Contents(store)[src] # Free /\ Contents(store)[src].archetype # b
          /\ from + count - 1 <= Len(Contents(store)[src].rows)
    BY MoveCall DEF MoveBatch
  <1>2. /\ call.op = "move" /\ call.chunk = src /\ call.first = from
        /\ call.count = count /\ call.to = b
    BY <1>1
  <1> DEFINE a == store.chunk[src].archetype
             rows == Rows(src)
  <1>3. Books(store, entityInChunk, toDestruct) /\ store.chunk[src] # Free
    BY <1>1, ContentOf DEF StoreInv
  <1>4. GoodRows(src)
    BY <1>3, RowsAreGood
  <1>5. /\ a \in Archetype /\ a # b /\ from + count - 1 <= Len(rows) /\ Len(rows) \in Nat
        /\ Contents(store)[src].rows = rows
    BY <1>1, <1>4 DEF GoodRows
  <1>6. TheTargets = EntitiesIn(rows, from, count)
    BY <1>2 DEF TheTargets, EntitiesIn, Rows
  <1>7. CASE OutOfChunks(b)
    <2>1. StoreInv' /\ TheTable' = TheTable /\ TheTargets' = {}
      BY <1>7, OutOfChunksStep
    <2>2. TheTargets # {}
      <3>1. from \in from .. from + count - 1
        OBVIOUS
      <3>2. rows[from].entity \in TheTargets
        BY <1>6, <3>1 DEF EntitiesIn
      <3> QED BY <3>2
    <2> QED BY <2>1, <2>2 DEF TableStep, Table!TableNext, Table!GiveUp
  <1>8. CASE ~OutOfChunks(b)
    <2>1. PICK g \in getChunkWithEmptySlots(b) :
          LET before == g.store.chunk[g.chunk].rows
              n == Lesser(chunkCapacity[b] - Len(before), count)
              first == from + count - n
              part == [k \in 1 .. n |-> converted(rows[first + k - 1], b)]
          IN /\ store' = WithoutBatch(allocateIntoChunk(g.store, g.chunk, part),
                                      src, first, n)
             /\ entityInChunk' =
                  Filled(Placed(entityInChunk, g.chunk, before \o part,
                                Len(before) + 1, Len(before) + n),
                         src, rows, first, n)
             /\ toDestruct' = [t \in Managed |->
                  toDestruct[t] + (IF t \in b \ a THEN n ELSE 0)
                                - (IF t \in Destructed(a, b) THEN n ELSE 0)]
             /\ call' = IF n = count THEN NoCall ELSE [call EXCEPT !.count = @ - n]
      BY <1>2, <1>8, ZenonT(60) DEF MoveBatch, PartFirst
    <2> DEFINE before == g.store.chunk[g.chunk].rows
               n == Lesser(chunkCapacity[b] - Len(before), count)
               first == from + count - n
               part == PartOf(rows, first, n, b)
    <2>2. /\ store' = WithoutBatch(allocateIntoChunk(g.store, g.chunk, part), src, first, n)
          /\ entityInChunk' =
               Filled(Placed(entityInChunk, g.chunk, before \o part,
                             Len(before) + 1, Len(before) + n),
                      src, rows, first, n)
          /\ toDestruct' = [t \in Managed |->
               toDestruct[t] + (IF t \in b \ a THEN n ELSE 0)
                             - (IF t \in Destructed(a, b) THEN n ELSE 0)]
          /\ call' = IF n = count THEN NoCall ELSE [call EXCEPT !.count = @ - n]
      BY <2>1 DEF PartOf
    <2>3. HasRoom(Contents(store), g.chunk, b, before)
      BY <1>3, GotChunk DEF Books
    <2>4. chunkCapacity[b] \in Nat /\ Len(before) \in Nat /\ Len(before) < chunkCapacity[b]
      BY <2>3, StoreAssumption, RowParts DEF HasRoom
    <2> HIDE DEF a, rows, before
    <2>5. n \in 1 .. count /\ n \in Nat \ {0} /\ Len(before) + n <= chunkCapacity[b]
      <3> DEFINE room == chunkCapacity[b] - Len(before)
      <3>1. n = IF room <= count THEN room ELSE count
        BY DEF Lesser
      <3>2. room \in Nat \ {0} /\ Len(before) + room = chunkCapacity[b]
        BY <2>4
      <3> HIDE DEF room, n
      <3>3. n \in 1 .. count /\ n <= room
        BY <3>1, <3>2
      <3> QED BY <2>4, <3>2, <3>3
    <2> HIDE DEF n
    <2>6. first \in Nat \ {0} /\ first = from + count - n /\ first + n - 1 = from + count - 1
      BY <2>5
    <2> HIDE DEF first
    <2>7. MovesPlaces(entityInChunk, entityInChunk', g.chunk, before, part, src, rows, first, n)
      BY <2>2 DEF MovesPlaces
    <2>8. MovesDue(toDestruct, toDestruct', a, b, n)
      <3>1. \A t \in Managed : toDestruct[t] \in Nat
        BY <1>3, DueAreNat DEF Books
      <3>2. ASSUME NEW t \in Managed
            PROVE  toDestruct'[t] = toDestruct[t] + (IF t \in b THEN n ELSE 0)
                                            - (IF t \in a THEN n ELSE 0)
        <4>1. toDestruct'[t] = toDestruct[t] + (IF t \in b \ a THEN n ELSE 0)
                                       - (IF t \in Destructed(a, b) THEN n ELSE 0)
          BY <2>2
        <4>2. t \in Destructed(a, b) <=> t \in a \ b
          BY DEF Destructed
        <4> QED BY <2>5, <3>1, <4>1, <4>2
      <3>3. toDestruct' = [t \in Managed |-> toDestruct'[t]]
        BY <2>2
      <3> QED BY <3>2, <3>3 DEF MovesDue
    <2> HIDE DEF part
    <2>9. /\ Books(store', entityInChunk', toDestruct')
          /\ Gives(TheTable, TheTable', part)
          /\ Takes(Contents(store), Contents(store'), src, a, first, n)
      <3>1. first + n - 1 <= Len(rows) /\ part = PartOf(rows, first, n, b)
        BY <1>5, <2>6 DEF part
      <3>2. /\ store.chunk[src].archetype = a /\ rows = Rows(src)
            /\ before = g.store.chunk[g.chunk].rows
        BY DEF a, rows, before
      <3>3. store' = WithoutBatch(allocateIntoChunk(g.store, g.chunk, part), src, first, n)
        BY <2>2
      <3>4. Books(store', entityInChunk', toDestruct')
        BY <1>3, <1>5, <2>5, <2>6, <2>7, <2>8, <3>1, <3>2, <3>3, MoveBatchBooks
      <3>5. Gives(TheTable, TheTable', part)
        BY <1>3, <1>5, <2>5, <2>6, <2>7, <2>8, <3>1, <3>2, <3>3, MoveBatchBooks
      <3>6. Takes(Contents(store), Contents(store'), src, a, first, n)
        BY <1>3, <1>5, <2>5, <2>6, <2>7, <2>8, <3>1, <3>2, <3>3, MoveBatchBooks
      <3> QED BY <3>4, <3>5, <3>6
    <2>10. CallOK(Contents(store'), call') /\ TheTargets' = EntitiesIn(rows, from, count - n)
      <3>1. CASE n = count
        <4>1. call' = NoCall
          BY <2>2, <3>1
        <4>2. EntitiesIn(rows, from, count - n) = {}
          BY <3>1 DEF EntitiesIn
        <4>3. TheTargets' = {}
          BY <4>1, NoTargets
        <4> QED BY <4>1, <4>2, <4>3 DEF CallOK
      <3>2. CASE n # count
        <4> DEFINE M == Contents(store')
                   left == count - n
        <4>1. PICK L : /\ WellFormed(L) /\ L[src] = Contents(store)[src]
                       /\ Removed(L, M, src, a, first, n)
          BY <2>9 DEF Takes
        <4> HIDE DEF M
        <4>2. rows = L[src].rows /\ LastOf(from, count, first, n)
          BY <1>5, <2>5, <2>6, <4>1 DEF rows, LastOf
        <4>3. /\ M[src] # Free /\ M[src].archetype = a
              /\ from + left - 1 <= Len(M[src].rows)
              /\ \A k \in from .. from + left - 1 : M[src].rows[k] = rows[k]
          <5>1. StillThere(M, src, a, rows, from, count - n)
            BY <3>2, <4>1, <4>2, MoveLeaves
          <5> QED BY <5>1 DEF StillThere
        <4>4. left \in Nat \ {0}
          BY <2>5, <3>2
        <4>5. call' = [op |-> "move", chunk |-> src, first |-> from, count |-> left, to |-> b]
          BY <1>1, <2>2, <3>2
        <4> HIDE DEF left
        <4>6. CallOK(M, call')
          BY <1>5, <4>3, <4>4, <4>5 DEF CallOK, a
        <4>7. /\ call'.op = "move" /\ call'.chunk = src /\ call'.first = from
              /\ call'.count = left
          BY <4>5
        <4>8. Rows(src)' = M[src].rows
          BY <4>3, ContentOf DEF M, Rows
        <4>9. TheTargets' = {M[src].rows[k].entity : k \in from .. from + left - 1}
          BY <4>7, <4>8 DEF TheTargets, Rows
        <4>10. TheTargets' = {rows[k].entity : k \in from .. from + left - 1}
          BY <4>3, <4>9
        <4> QED BY <4>6, <4>10 DEF EntitiesIn, M, left
      <3> QED BY <3>1, <3>2
    <2>11. StoreInv'
      BY <2>9, <2>10 DEF StoreInv
    <2> DEFINE moved == EntitiesIn(rows, first, n)
    <2>12. \A k \in from .. from + count - 1 :
             /\ rows[k].entity \in Entity
             /\ rows[k].data \in [a -> Value]
             /\ entityInChunk[rows[k].entity] = At(src, k)
             /\ TheTable[rows[k].entity] = <<rows[k].data>>
      <3>1. \A k \in from .. from + count - 1 : k \in 1 .. Len(rows)
        BY <1>5 DEF rows
      <3> QED BY <1>4, <3>1 DEF GoodRows, rows, a
    <2>13. moved \in SUBSET TheTargets /\ TheTargets' = TheTargets \ moved
      <3>0. LastOf(from, count, first, n)
        BY <2>5, <2>6 DEF LastOf
      <3>1. OneEach(rows, from, count)
        BY <2>12, AtParts DEF OneEach
      <3>2. IsWithout(EntitiesIn(rows, from, count - n), EntitiesIn(rows, from, count),
                      EntitiesIn(rows, first, n))
        BY <3>0, <3>1, MoveTargets
      <3> QED BY <1>6, <2>10, <3>2 DEF rows, IsWithout
    <2>14. Len(part) = n /\ PartParts(part, rows, first, n, b)
      <3>1. rows \in RowsFor(a) /\ part = PartOf(rows, first, n, b) /\ first + n - 1 <= Len(rows)
        BY <1>4, <1>5, <2>6 DEF GoodRows, rows, a, part
      <3> QED BY <1>5, <2>5, <2>6, <3>1, MovedRows
    <2>15. \A i \in 1 .. n : /\ first + i - 1 \in first .. first + n - 1
                             /\ first + i - 1 \in from .. from + count - 1
      BY <2>5, <2>6
    <2>16. ASSUME NEW e \in moved
           PROVE  TheTable'[e] = <<Kept(TheTable[e][1], b)>>
      <3>1. PICK k \in first .. first + n - 1 : e = rows[k].entity
        BY DEF EntitiesIn
      <3> DEFINE i == k - first + 1
      <3>2. i \in 1 .. n /\ first + i - 1 = k /\ k \in from .. from + count - 1
        BY <2>5, <2>6
      <3> HIDE DEF i
      <3>3. part[i].entity = e /\ part[i].data = Kept(rows[k].data, b)
        BY <2>14, <3>1, <3>2 DEF PartParts
      <3>4. TheTable'[e] = <<part[i].data>>
        BY <2>9, <2>14, <3>2, <3>3 DEF Gives
      <3>5. TheTable[e] = <<rows[k].data>>
        BY <2>12, <3>1, <3>2
      <3>6. TheTable[e][1] = rows[k].data
        BY <3>5
      <3> QED BY <3>3, <3>4, <3>6
    <2>17. ASSUME NEW e \in Entity, e \notin moved
           PROVE  TheTable'[e] = TheTable[e]
      <3>1. \A i \in 1 .. n : part[i].entity # e
        BY <2>14, <2>15, <2>17 DEF PartParts, EntitiesIn
      <3> QED BY <2>9, <2>14, <3>1 DEF Gives
    <2> HIDE DEF moved
    <2>18. TheTable' = [e \in Entity |-> IF e \in moved
                         THEN <<[t \in b |-> IF t \in DOMAIN TheTable[e][1]
                                               THEN TheTable[e][1][t] ELSE Zero]>>
                         ELSE TheTable[e]]
      <3>1. TheTable' = [e \in Entity |-> TheTable'[e]]
        BY DEF TheTable
      <3>2. TheTable' = [e \in Entity |-> IF e \in moved THEN <<Kept(TheTable[e][1], b)>>
                                          ELSE TheTable[e]]
        BY <2>16, <2>17, <3>1
      <3> QED BY <3>2 DEF Kept
    <2>19. Table!Change
      <3>1. b \in SUBSET Component
        BY DEF Archetype
      <3> QED BY <2>13, <2>18, <3>1 DEF Table!Change
    <2> QED BY <2>11, <2>19 DEF TableStep, Table!TableNext
  <1> QED BY <1>7, <1>8

--------------------------------------------------------------------------------
(* Writing a component *)

\* The same rows for the same entities; their data may differ.
SameRows(K, L) ==
  \A c \in Chunk :
    /\ L[c] # Free <=> K[c] # Free
    /\ K[c] # Free =>
         /\ L[c].archetype = K[c].archetype
         /\ Len(L[c].rows) = Len(K[c].rows)
         /\ \A k \in 1 .. Len(K[c].rows) : L[c].rows[k].entity = K[c].rows[k].entity

LEMMA SameRowsKeep ==
  ASSUME NEW K, WellFormed(K), NEW L, WellFormed(L), SameRows(K, L)
  PROVE  /\ OwnOf(L) = OwnOf(K) /\ OpenOf(L) = OpenOf(K)
         /\ Fits(K) => Fits(L)
         /\ NoneEmpty(K) => NoneEmpty(L)
         /\ \A A : RowPairs(L, A) = RowPairs(K, A)
         /\ \A place : Places(K, place) => Places(L, place)
  <1>1. OwnOf(L) = OwnOf(K) /\ OpenOf(L) = OpenOf(K)
    BY DEF SameRows, OwnOf, OpenOf
  <1>2. Fits(K) => Fits(L)
    BY DEF SameRows, Fits
  <1>3. NoneEmpty(K) => NoneEmpty(L)
    <2> SUFFICES ASSUME NoneEmpty(K), NEW c \in Chunk, L[c] # Free PROVE L[c].rows # <<>>
      BY DEF NoneEmpty
    <2> DEFINE rows == K[c].rows
               D == [entity : Entity, data : [K[c].archetype -> Value]]
    <2>1. rows \in Seq(D) /\ rows # <<>> /\ Len(L[c].rows) = Len(rows)
      BY DEF NoneEmpty, WellFormed, SameRows, RowsFor
    <2> HIDE DEF rows, D
    <2>2. Len(rows) # 0 /\ Len(<<>>) = 0
      BY <2>1
    <2> QED BY <2>1, <2>2
  <1>4. ASSUME NEW A PROVE RowPairs(L, A) = RowPairs(K, A)
    <2>1. \A p \in Chunk \X Nat :
            (L[p[1]] # Free /\ L[p[1]].archetype \in A /\ p[2] \in 1 .. Len(L[p[1]].rows))
            <=> (K[p[1]] # Free /\ K[p[1]].archetype \in A /\ p[2] \in 1 .. Len(K[p[1]].rows))
      BY DEF SameRows
    <2> QED BY <2>1 DEF RowPairs
  <1>5. ASSUME NEW place, Places(K, place) PROVE Places(L, place)
    <2>1. \A c \in Chunk, k \in Nat :
            InPlace(L, c, k, Nowhere, 1, 0) <=> InPlace(K, c, k, Nowhere, 1, 0)
      BY DEF SameRows, InPlace
    <2>2. \A c \in Chunk, k \in Nat : InPlace(K, c, k, Nowhere, 1, 0) =>
            L[c].rows[k].entity = K[c].rows[k].entity
      BY DEF SameRows, InPlace
    <2> QED BY <1>5, <2>1, <2>2 DEF Places, Placement
  <1> QED BY <1>1, <1>2, <1>3, <1>4, <1>5

LEMMA SameRowsCounted ==
  ASSUME NEW K, WellFormed(K), NEW L, WellFormed(L), SameRows(K, L),
         NEW counts, CountsRight(K, counts)
  PROVE  CountsRight(L, counts) /\ DueOf(L) = DueOf(K)
  <1>1. \A A : RowPairs(L, A) = RowPairs(K, A)
    BY SameRowsKeep
  <1>2. \A A : Cardinality(RowPairs(L, A)) = Cardinality(RowPairs(K, A))
               /\ (IsFiniteSet(RowPairs(K, A)) => IsFiniteSet(RowPairs(L, A)))
    BY <1>1, Zenon
  <1>3. \A A \in SUBSET Archetype : IsFiniteSet(RowPairs(L, A))
    BY <1>2 DEF CountsRight
  <1>4. counts = [a \in Archetype |-> Cardinality(RowPairs(L, {a}))]
    BY <1>2 DEF CountsRight
  <1>5. DueOf(L) = DueOf(K)
    BY <1>2 DEF DueOf
  <1> QED BY <1>3, <1>4, <1>5 DEF CountsRight

\* What a write makes of a row, of the rows and of their chunk.
Rewritten(rows, k, x, v) ==
  [rows EXCEPT ![k] = [rows[k] EXCEPT !.data = [rows[k].data EXCEPT ![x] = v]]]

RewrittenParts(now, rows, a, k, x, v) ==
  /\ now \in RowsFor(a) /\ Len(now) = Len(rows)
  /\ \A j \in 1 .. Len(rows) : now[j].entity = rows[j].entity
  /\ \A j \in 1 .. Len(rows) : j # k => now[j] = rows[j]
  /\ now[k].data = [rows[k].data EXCEPT ![x] = v]

LEMMA RewrittenRows ==
  ASSUME NEW a, NEW rows \in RowsFor(a), NEW k \in 1 .. Len(rows), NEW x, NEW v \in Value,
         NEW now, now = Rewritten(rows, k, x, v)
  PROVE  RewrittenParts(now, rows, a, k, x, v)
  <1> DEFINE D == [entity : Entity, data : [a -> Value]]
             row == rows[k]
             data == [row.data EXCEPT ![x] = v]
             new == [row EXCEPT !.data = data]
  <1>1. rows \in Seq(D)
    BY DEF RowsFor
  <1>2. row \in D
    <2> HIDE DEF D
    <2> QED BY <1>1
  <1>3. row.data \in [a -> Value] /\ row.entity \in Entity
    BY <1>2
  <1>4. data \in [a -> Value]
    BY <1>3
  <1>5. now = [rows EXCEPT ![k] = new]
    BY DEF Rewritten
  <1> HIDE DEF data, row
  <1>6. new \in D /\ new.entity = row.entity /\ new.data = data
    BY <1>2, <1>4
  <1> HIDE DEF new, D
  <1>7. /\ now \in Seq(D) /\ Len(now) = Len(rows) /\ now[k] = new
        /\ \A j \in 1 .. Len(rows) : j # k => now[j] = rows[j]
    BY <1>1, <1>5, <1>6
  <1>8. \A j \in 1 .. Len(rows) : now[j].entity = rows[j].entity
    BY <1>6, <1>7 DEF row
  <1> QED BY <1>6, <1>7, <1>8 DEF RewrittenParts, RowsFor, D, row, data

LEMMA WriteAtCell ==
  ASSUME store \in Stores, NEW c \in Chunk, store.chunk[c] # Free, NEW e, NEW k,
         entityInChunk[e] = At(c, k), NEW i, NEW v, WriteAt(e, i, v),
         NEW x, x = Types(store.chunk[c].archetype)[i],
         NEW rows, rows = Rewritten(store.chunk[c].rows, k, x, v)
  PROVE  Updated(store, store', c, [store.chunk[c] EXCEPT !.rows = rows],
                 store.chunk[c].archetype, store.archetype[store.chunk[c].archetype])
  <1> DEFINE cell == store.chunk[c]
             a == cell.archetype
             new == [cell EXCEPT !.rows = rows]
  <1>1. entityInChunk[e].chunk = c /\ entityInChunk[e].index = k
    BY AtParts
  <1>2. store' = [store EXCEPT !.chunk[c].rows[k].data[x] = v]
    BY <1>1 DEF WriteAt
  <1>3. store' = [store EXCEPT !.chunk = [store.chunk EXCEPT ![c] = new]]
    BY <1>2 DEF Rewritten
  <1>4. store = [archetype |-> store.archetype, chunk |-> store.chunk]
    BY DEF Stores
  <1> HIDE DEF new
  <1>5. store'.chunk = [store.chunk EXCEPT ![c] = new] /\ store'.archetype = store.archetype
    BY <1>3, <1>4
  <1>6. store' = [archetype |-> store'.archetype, chunk |-> store'.chunk]
    <2> DEFINE chunks == [store.chunk EXCEPT ![c] = new]
    <2>1. store' = [store EXCEPT !.chunk = chunks]
      BY <1>3
    <2> HIDE DEF chunks
    <2> QED BY <1>4, <2>1
  <1>7. store'.archetype = [store.archetype EXCEPT ![a] = store.archetype[a]]
    BY <1>5 DEF Stores
  <1>8. Updated(store, store', c, new, a, store.archetype[a])
    BY <1>5, <1>6, <1>7 DEF Updated
  <1> QED BY <1>8 DEF new

LEMMA WriteBooks ==
  ASSUME Books(store, entityInChunk, toDestruct), NEW c \in Chunk, store.chunk[c] # Free,
         NEW k \in 1 .. Len(Rows(c)), NEW a, a = store.chunk[c].archetype,
         NEW x, NEW v \in Value, NEW rows, rows = Rewritten(Rows(c), k, x, v),
         Updated(store, store', c, [store.chunk[c] EXCEPT !.rows = rows],
                 a, store.archetype[a]),
         UNCHANGED <<entityInChunk, toDestruct>>
  PROVE  /\ Books(store', entityInChunk', toDestruct')
         /\ Contents(store') = With(Contents(store), c, [archetype |-> a, rows |-> rows])
  <1> DEFINE cell == store.chunk[c]
             new == [cell EXCEPT !.rows = rows]
             r == store.archetype[a]
             K == Contents(store)
             L == Contents(store')
             content == [archetype |-> a, rows |-> rows]
  <1>1. Sound(store) /\ store \in Stores /\ WellFormed(K) /\ GoodRows(c)
    BY SoundParts, RowsAreGood DEF Books
  <1>2. a \in Archetype /\ cell \in CellsFor(a) /\ r \in ArchetypeRecords
        /\ Rows(c) \in RowsFor(a) /\ K[c] # Free /\ K[c].rows = Rows(c) /\ K[c].archetype = a
    BY <1>1, StoreParts DEF GoodRows
  <1>3. RewrittenParts(rows, Rows(c), a, k, x, v)
    BY <1>2, RewrittenRows
  <1>4. rows \in RowsFor(a) /\ Len(rows) = Len(Rows(c))
        /\ \A j \in 1 .. Len(Rows(c)) : rows[j].entity = Rows(c)[j].entity
    BY <1>3 DEF RewrittenParts
  <1>5. /\ new \in CellsFor(a) /\ new.rows = rows /\ new.listIndex = cell.listIndex
        /\ new.listWithEmptySlotsIndex = cell.listWithEmptySlotsIndex
    BY <1>2, <1>4 DEF CellsFor
  <1>6. new # Free /\ new.archetype = a /\ new \in {Free} \cup Cells
    BY <1>2, <1>5, CellParts DEF Cells
  <1>7. Content(new) = content
    BY <1>5, <1>6 DEF Content
  <1>8. Updated(store, store', c, new, a, r)
    OBVIOUS
  <1> HIDE DEF new, cell, r
  <1>9. /\ store' \in Stores /\ store'.chunk[c] = new
        /\ \A y \in Chunk : y # c => store'.chunk[y] = store.chunk[y]
        /\ store'.archetype[a] = r
        /\ L = With(K, c, Content(new)) /\ Counts(store') = Counts(store)
    BY <1>1, <1>2, <1>6, <1>8, StoreUpdate DEF r
  <1>10. L = With(K, c, content)
    BY <1>7, <1>9
  <1>11. L[c] # Free /\ L[c].archetype = a /\ L[c].rows = rows
         /\ \A y \in Chunk : y # c => L[y] = K[y]
    <2>1. L[c] = content /\ \A y \in Chunk : y # c => L[y] = K[y]
      BY <1>1, <1>10 DEF With, WellFormed
    <2> QED BY <2>1, ContentNotFree
  <1> HIDE DEF K, L, content
  <1>12. SameRows(K, L)
    BY <1>2, <1>4, <1>11 DEF SameRows
  <1>13. WellFormed(L)
    <2>1. DOMAIN L = Chunk
      BY DEF L, Contents
    <2> QED BY <1>1, <1>2, <1>4, <1>11, <2>1 DEF WellFormed
  <1>14. /\ OwnOf(L) = OwnOf(K) /\ OpenOf(L) = OpenOf(K) /\ Fits(L)
         /\ NoneEmpty(L) /\ Places(L, entityInChunk)
    BY <1>1, <1>12, <1>13, SameRowsKeep DEF Books, Sound, K
  <1>15. CountsRight(L, Counts(store)) /\ DueOf(L) = DueOf(K)
    BY <1>1, <1>12, <1>13, SameRowsCounted DEF Books, K
  <1> DEFINE own == OwnOf(K)
             open == OpenOf(K)
  <1>16. Listing(store, own, open)
    BY <1>1 DEF Sound, K
  <1> HIDE DEF own, open
  <1>17. own[a] \in SUBSET Chunk /\ open[a] \in SUBSET Chunk
         /\ own = [own EXCEPT ![a] = own[a]] /\ open = [open EXCEPT ![a] = open[a]]
    BY <1>2, <1>16 DEF Listing
  <1>18. \A y \in own[a] \cup open[a] : store'.chunk[y] # Free /\ store'.chunk[y].archetype = a
    BY <1>2, <1>6, <1>9, <1>16, <1>17 DEF Listing
  <1>19. \A y \in Chunk : /\ ListIndex(store')[y] = ListIndex(store)[y]
                          /\ EmptySlotsIndex(store')[y] = EmptySlotsIndex(store)[y]
    BY <1>5, <1>9 DEF ListIndex, EmptySlotsIndex, cell
  <1>20. Listed(r.chunks, own[a], ListIndex(store'))
    <2>1. Listed(r.chunks, own[a], ListIndex(store))
      BY <1>2, <1>16 DEF Listing, r
    <2>2. \A y \in own[a] : ListIndex(store')[y] = ListIndex(store)[y]
      BY <1>17, <1>19
    <2> QED BY <2>1, <2>2, ListedAgree
  <1>21. Listed(r.chunksWithEmptySlots, open[a], EmptySlotsIndex(store'))
    <2>1. Listed(r.chunksWithEmptySlots, open[a], EmptySlotsIndex(store))
      BY <1>2, <1>16 DEF Listing, r
    <2>2. \A y \in open[a] : EmptySlotsIndex(store')[y] = EmptySlotsIndex(store)[y]
      BY <1>17, <1>19
    <2> QED BY <2>1, <2>2, ListedAgree
  <1>22. Listing(store', [own EXCEPT ![a] = own[a]], [open EXCEPT ![a] = open[a]])
    BY <1>2, <1>6, <1>8, <1>16, <1>17, <1>18, <1>20, <1>21, ListingUpdate
  <1>23. Sound(store')
    BY <1>14, <1>17, <1>22 DEF Sound, L, own, open
  <1>24. Books(store', entityInChunk', toDestruct')
    BY <1>9, <1>14, <1>15, <1>23 DEF Books, L, K
  <1> QED BY <1>10, <1>24 DEF L, K, content

LEMMA WriteStep ==
  ASSUME StoreInv, NEW e \in Entity, Exists(e), NEW i, NEW v \in Value,
         call = NoCall, WriteAt(e, i, v), UNCHANGED <<entityInChunk, call, toDestruct>>
  PROVE  StoreInv' /\ TableStep
  <1> DEFINE K == Contents(store)
  <1>1. Books(store, entityInChunk, toDestruct) /\ Places(K, entityInChunk) /\ store \in Stores
        /\ WellFormed(K)
    BY SoundParts DEF StoreInv, Books
  <1> HIDE DEF K
  <1>2. PICK c \in Chunk : \E k \in 1 .. Len(K[c].rows) :
          K[c] # Free /\ entityInChunk[e] = At(c, k) /\ K[c].rows[k].entity = e
    BY <1>1, PlacesParts DEF Exists
  <1>3. PICK k \in 1 .. Len(K[c].rows) :
          K[c] # Free /\ entityInChunk[e] = At(c, k) /\ K[c].rows[k].entity = e
    BY <1>2
  <1>4. store.chunk[c] # Free /\ K[c].rows = Rows(c)
    BY <1>3, ContentOf DEF K, Rows
  <1>5. GoodRows(c)
    BY <1>1, <1>4, RowsAreGood
  <1> DEFINE a == store.chunk[c].archetype
             x == Types(a)[i]
             rows == Rewritten(Rows(c), k, x, v)
             data == Rows(c)[k].data
  <1>6. a \in Archetype /\ data \in [a -> Value] /\ Rows(c) \in RowsFor(a)
        /\ k \in 1 .. Len(Rows(c)) /\ TheTable[e] = <<data>>
    BY <1>3, <1>4, <1>5 DEF GoodRows
  <1> HIDE DEF x, rows
  <1>7. Updated(store, store', c, [store.chunk[c] EXCEPT !.rows = rows], a, store.archetype[a])
    <2>1. x = Types(store.chunk[c].archetype)[i] /\ rows = Rewritten(store.chunk[c].rows, k, x, v)
      BY DEF x, rows, Rows
    <2> QED BY <1>1, <1>3, <1>4, <2>1, WriteAtCell
  <1>8. /\ Books(store', entityInChunk', toDestruct')
        /\ Contents(store') = With(K, c, [archetype |-> a, rows |-> rows])
    BY <1>1, <1>4, <1>6, <1>7, WriteBooks DEF rows, K
  <1>9. RewrittenParts(rows, Rows(c), a, k, x, v)
    BY <1>6, RewrittenRows DEF rows
  <1>10. StoreInv'
    BY <1>8 DEF StoreInv, CallOK
  <1> DEFINE L == Contents(store')
             T == TableOf(K, entityInChunk)
             U == TableOf(L, entityInChunk)
  <1>11. L[c].rows = rows /\ \A y \in Chunk : y # c => L[y] = K[y]
    <2>1. L[c] = [archetype |-> a, rows |-> rows] /\ \A y \in Chunk : y # c => L[y] = K[y]
      BY <1>1, <1>8 DEF With, WellFormed
    <2> QED BY <2>1
  <1> HIDE DEF L
  <1>12. ASSUME NEW f \in Entity, f # e PROVE U[f] = T[f]
    <2>1. CASE entityInChunk[f] = Nowhere
      BY <2>1 DEF TableOf
    <2>2. CASE entityInChunk[f] # Nowhere
      <3>1. PICK y \in Chunk : \E j \in 1 .. Len(K[y].rows) :
              K[y] # Free /\ entityInChunk[f] = At(y, j) /\ K[y].rows[j].entity = f
        BY <1>1, <2>2, PlacesParts
      <3>2. PICK j \in 1 .. Len(K[y].rows) :
              K[y] # Free /\ entityInChunk[f] = At(y, j) /\ K[y].rows[j].entity = f
        BY <3>1
      <3>3. L[y].rows[j] = K[y].rows[j]
        <4>1. CASE y # c
          BY <1>11, <4>1
        <4>2. CASE y = c
          <5>1. j # k
            BY <1>3, <1>12, <3>2, <4>2
          <5> QED BY <1>4, <1>9, <1>11, <3>2, <4>2, <5>1 DEF RewrittenParts
        <4> QED BY <4>1, <4>2
      <3>4. entityInChunk[f].chunk = y /\ entityInChunk[f].index = j
        BY <3>2, AtParts
      <3> QED BY <2>2, <3>3, <3>4 DEF TableOf
    <2> QED BY <2>1, <2>2
  <1>13. U[e] = <<[data EXCEPT ![x] = v]>>
    <2>1. entityInChunk[e].chunk = c /\ entityInChunk[e].index = k /\ entityInChunk[e] # Nowhere
      BY <1>3, AtParts
    <2>2. L[c].rows[k].data = [data EXCEPT ![x] = v]
      BY <1>9, <1>11 DEF RewrittenParts
    <2> QED BY <2>1, <2>2 DEF TableOf
  <1>14. TheTable = T /\ TheTable' = U
    <2>1. UNCHANGED entityInChunk
      OBVIOUS
    <2> QED BY <1>1, <1>8, <2>1, TheTableIs, TheTableNext DEF K, L
  <1>15. TheTargets = {} /\ TheTargets' = {}
    BY NoTargets
  <1> HIDE DEF data, a
  <1>16. TheTable' = [TheTable EXCEPT ![e] = <<[data EXCEPT ![x] = v]>>]
    <2>1. TheTable = [f \in Entity |-> TheTable[f]] /\ TheTable' = [f \in Entity |-> TheTable'[f]]
      BY DEF TheTable
    <2>2. \A f \in Entity : TheTable'[f] = IF f = e THEN <<[data EXCEPT ![x] = v]>> ELSE TheTable[f]
      BY <1>12, <1>13, <1>14
    <2> HIDE DEF T, U
    <2> QED BY <2>1, <2>2
  <1>17. CASE x \in a
    <2>1. x \in DOMAIN TheTable[e][1]
      BY <1>6, <1>17
    <2>2. e \in Table!Alive
      BY <1>6, OneNotDead DEF Table!Alive, Table!Dead, Dead
    <2>3. [TheTable[e] EXCEPT ![1] = [TheTable[e][1] EXCEPT ![x] = v]] =
            <<[data EXCEPT ![x] = v]>>
      <3>1. \A y, z : [<<y>> EXCEPT ![1] = z] = <<z>>
        OBVIOUS
      <3>2. TheTable[e][1] = data
        BY <1>6
      <3>3. [TheTable[e] EXCEPT ![1] = [TheTable[e][1] EXCEPT ![x] = v]] =
              [<<data>> EXCEPT ![1] = [data EXCEPT ![x] = v]]
        BY <1>6, <3>2, Zenon
      <3> DEFINE z == [data EXCEPT ![x] = v]
      <3>4. [<<data>> EXCEPT ![1] = z] = <<z>>
        <4> HIDE DEF z
        <4> QED BY <3>1
      <3> QED BY <3>3, <3>4, Zenon
    <2>4. TheTable' = [TheTable EXCEPT ![e][1][x] = v]
      BY <1>16, <2>3
    <2>5. Table!Write
      BY <1>15, <2>1, <2>2, <2>4 DEF Table!Write
    <2> QED BY <1>10, <2>5 DEF TableStep, Table!TableNext
  <1>18. CASE x \notin a
    <2>1. [data EXCEPT ![x] = v] = data
      BY <1>6, <1>18
    <2>2. TheTable' = TheTable
      <3>1. TheTable = [f \in Entity |-> TheTable[f]]
        BY DEF TheTable
      <3> QED BY <1>6, <1>16, <2>1, <3>1
    <2> QED BY <1>10, <1>15, <2>2 DEF TableStep
  <1> QED BY <1>17, <1>18

LEMMA AccessStep ==
  ASSUME StoreInv, NEW e \in Entity, Exists(e), Access(e)
  PROVE  StoreInv' /\ TableStep
  BY WriteStep DEF Access, getComponentDataRW, getComponentDataWithTypeRW

--------------------------------------------------------------------------------
(* Every step, and what follows *)

LEMMA StutterStep ==
  ASSUME StoreInv, UNCHANGED vars
  PROVE  StoreInv' /\ TableStep
  <1>1. StoreInv'
    BY DEF StoreInv, vars
  <1>2. UNCHANGED <<TheTable, TheTargets>>
    BY DEF vars, TheTable, TheTargets, Exists, Row, Rows
  <1> QED BY <1>1, <1>2 DEF TableStep

LEMMA EveryStep ==
  ASSUME StoreInv, [Next]_vars
  PROVE  StoreInv' /\ TableStep
  <1>1. ASSUME NEW a \in Archetype, NEW n \in 1 .. MaxBatch, createEntities(a, n)
        PROVE  StoreInv' /\ TableStep
    BY <1>1, CreateEntitiesStep
  <1>2. CASE CreateBatch
    BY <1>2, CreateBatchStep
  <1>3. ASSUME NEW es \in Lists, destroyEntities(es)
        PROVE  StoreInv' /\ TableStep
    BY <1>3, DestroyEntitiesStep
  <1>4. CASE SkipMissing
    BY <1>4, SkipMissingStep
  <1>5. CASE DestroyBatch
    BY <1>5, DestroyBatchStep
  <1>6. ASSUME NEW c \in Used, NEW first \in 1 .. Len(Rows(c)),
               NEW n \in 1 .. Lesser(MaxBatch, Len(Rows(c)) - first + 1), OnBatch(c, first, n)
        PROVE  StoreInv' /\ TableStep
    BY <1>6, OnBatchStep
  <1>7. ASSUME NEW c \in Used, NEW types \in SUBSET Component, removeComponents(c, types)
        PROVE  StoreInv' /\ TableStep
    BY <1>7, RemoveComponentsStep
  <1>8. CASE MoveBatch
    BY <1>8, MoveBatchStep
  <1>9. ASSUME NEW e \in {x \in Entity : Exists(x)}, Access(e)
        PROVE  StoreInv' /\ TableStep
    BY <1>9, AccessStep
  <1>10. CASE UNCHANGED vars
    BY <1>10, StutterStep
  <1> QED BY <1>1, <1>2, <1>3, <1>4, <1>5, <1>6, <1>7, <1>8, <1>9, <1>10 DEF Next

\* StoreInv holds in every state: lists, places, rows, counts and the call agree.
THEOREM StoreInvariant == Spec => []StoreInv
  <1>1. Init => StoreInv
    BY InitBooks
  <1>2. StoreInv /\ [Next]_vars => StoreInv'
    BY EveryStep
  <1> QED BY <1>1, <1>2, PTL DEF Spec

LEMMA UsedRows ==
  ASSUME StoreInv, NEW c \in Used
  PROVE  GoodRows(c)
  BY RowsAreGood DEF StoreInv, Used

\* EntityStore and the chunks agree at every step of every call.
THEOREM PlacesAlwaysAgree == Spec => []PlacesAgree
  <1>1. ASSUME StoreInv PROVE PlacesAgree
    <2> DEFINE K == Contents(store)
    <2>1. Places(K, entityInChunk)
      BY <1>1 DEF StoreInv, Books
    <2> HIDE DEF K
    <2>2. ASSUME NEW e \in Entity, Exists(e)
          PROVE  /\ entityInChunk[e].chunk \in Used
                 /\ entityInChunk[e].index \in DOMAIN Rows(entityInChunk[e].chunk)
                 /\ Row(e).entity = e
      <3>1. PICK c \in Chunk : \E k \in 1 .. Len(K[c].rows) :
              K[c] # Free /\ entityInChunk[e] = At(c, k) /\ K[c].rows[k].entity = e
        BY <2>1, <2>2, PlacesParts DEF Exists
      <3>2. PICK k \in 1 .. Len(K[c].rows) :
              K[c] # Free /\ entityInChunk[e] = At(c, k) /\ K[c].rows[k].entity = e
        BY <3>1
      <3>3. entityInChunk[e].chunk = c /\ entityInChunk[e].index = k
        BY <3>2, AtParts
      <3>4. store.chunk[c] # Free /\ K[c].rows = Rows(c)
        BY <3>2, ContentOf DEF K, Rows
      <3>5. c \in Used
        BY <3>4 DEF Used
      <3>6. DOMAIN Rows(c) = 1 .. Len(Rows(c))
        BY <1>1, <3>5, UsedRows DEF GoodRows, RowsFor
      <3> QED BY <3>2, <3>3, <3>4, <3>5, <3>6 DEF Row
    <2>3. ASSUME NEW c \in Used, NEW k \in DOMAIN Rows(c)
          PROVE  entityInChunk[Rows(c)[k].entity] = [chunk |-> c, index |-> k]
      <3>1. GoodRows(c)
        BY <1>1, UsedRows
      <3>2. k \in 1 .. Len(Rows(c))
        BY <3>1 DEF GoodRows, RowsFor
      <3> QED BY <3>1, <3>2 DEF GoodRows, At
    <2> QED BY <2>2, <2>3 DEF PlacesAgree
  <1> QED BY <1>1, StoreInvariant, PTL

LEMMA RowsOfIsRowPairs ==
  ASSUME StoreInv, NEW a \in Archetype
  PROVE  RowsOf(a) = RowPairs(Contents(store), {a})
  <1> DEFINE K == Contents(store)
             cap == chunkCapacity[a]
  <1>1. cap \in Nat
    BY StoreAssumption
  <1>2. ASSUME NEW c \in Used
        PROVE  /\ c \in Chunk /\ K[c] # Free /\ K[c].archetype = store.chunk[c].archetype
               /\ K[c].rows = Rows(c) /\ DOMAIN Rows(c) = 1 .. Len(Rows(c))
               /\ Len(Rows(c)) \in Nat
               /\ store.chunk[c].archetype = a => Len(Rows(c)) <= cap
    <2>1. GoodRows(c) /\ c \in Chunk
      BY UsedRows DEF Used
    <2>2. DOMAIN Rows(c) = 1 .. Len(Rows(c))
      BY <2>1 DEF GoodRows, RowsFor
    <2> QED BY <2>1, <2>2 DEF GoodRows
  <1>3. \A c \in Chunk : K[c] # Free => c \in Used
    BY ContentOf DEF Used
  <1> HIDE DEF K, cap
  <1>4. \A p : p \in RowsOf(a) => p \in RowPairs(K, {a})
    <2> SUFFICES ASSUME NEW p \in RowsOf(a) PROVE p \in RowPairs(K, {a})
      OBVIOUS
    <2>1. p \in Used \X (1 .. cap) /\ store.chunk[p[1]].archetype = a /\ p[2] \in DOMAIN Rows(p[1])
      BY DEF RowsOf, cap
    <2>2. p[1] \in Used /\ p = <<p[1], p[2]>>
      BY <2>1
    <2>3. p[2] \in Nat /\ p[1] \in Chunk
      BY <1>2, <2>1, <2>2
    <2>4. p \in Chunk \X Nat
      BY <2>2, <2>3
    <2> QED BY <1>2, <2>1, <2>2, <2>4 DEF RowPairs
  <1>5. \A p : p \in RowPairs(K, {a}) => p \in RowsOf(a)
    <2> SUFFICES ASSUME NEW p \in RowPairs(K, {a}) PROVE p \in RowsOf(a)
      OBVIOUS
    <2>1. /\ p \in Chunk \X Nat /\ K[p[1]] # Free /\ K[p[1]].archetype = a
          /\ p[2] \in 1 .. Len(K[p[1]].rows)
      BY DEF RowPairs
    <2>2. p = <<p[1], p[2]>> /\ p[1] \in Used
      BY <1>3, <2>1
    <2>3. p[2] \in DOMAIN Rows(p[1]) /\ p[2] \in 1 .. cap /\ store.chunk[p[1]].archetype = a
      BY <1>1, <1>2, <2>1, <2>2
    <2>4. p \in Used \X (1 .. cap)
      BY <2>2, <2>3
    <2> QED BY <2>3, <2>4 DEF RowsOf, cap
  <1> QED BY <1>4, <1>5 DEF K

\* The lists, the counts and the rows agree, so the throws that guard the lists
\* are unreachable, no free row is forgotten and no emptied chunk is kept.
THEOREM BooksAlwaysAgree == Spec => []BooksAgree
  <1>1. ASSUME StoreInv PROVE StoreTypeOK
    <2> DEFINE K == Contents(store)
    <2>1. /\ Listing(store, OwnOf(K), OpenOf(K)) /\ CountsRight(K, Counts(store))
          /\ toDestruct = DueOf(K)
      BY <1>1 DEF StoreInv, Books, Sound
    <2>2. ASSUME NEW a \in Archetype
          PROVE  /\ Range(store.archetype[a].chunks) \subseteq Used
                 /\ Range(store.archetype[a].chunksWithEmptySlots) \subseteq Used
                 /\ store.archetype[a].entityCount \in Nat
      <3>1. OwnOf(K)[a] \subseteq Used /\ OpenOf(K)[a] \subseteq Used
        BY ContentOf DEF OwnOf, OpenOf, Used
      <3>2. /\ Range(store.archetype[a].chunks) = OwnOf(K)[a]
            /\ Range(store.archetype[a].chunksWithEmptySlots) = OpenOf(K)[a]
        BY <2>1 DEF Listing, Listed
      <3>3. store.archetype[a].entityCount = Counts(store)[a]
        BY DEF Counts
      <3> HIDE DEF K
      <3>4. Counts(store)[a] = Cardinality(RowPairs(K, {a})) /\ IsFiniteSet(RowPairs(K, {a}))
        BY <2>1 DEF CountsRight
      <3>5. Cardinality(RowPairs(K, {a})) \in Nat
        BY <3>4, FS_CardinalityType
      <3>6. store.archetype[a].entityCount \in Nat
        BY <3>3, <3>4, <3>5
      <3> QED BY <3>1, <3>2, <3>6
    <2>3. \A c \in Used :
            /\ store.chunk[c].archetype \in Archetype
            /\ Len(Rows(c)) <= chunkCapacity[store.chunk[c].archetype]
            /\ Rows(c) \in Seq([entity : Entity, data : [store.chunk[c].archetype -> Value]])
      BY <1>1, UsedRows DEF GoodRows, RowsFor
    <2>4. toDestruct \in [Managed -> Nat]
      <3>1. \A t \in Managed : toDestruct[t] \in Nat
        BY <2>1, DueAreNat
      <3> QED BY <2>1, <3>1 DEF DueOf
    <2>5. call.op \in {"none", "create", "destroy", "move"}
      BY <1>1 DEF StoreInv, CallOK, NoCall
    <2> HIDE DEF K
    <2> QED BY <2>2, <2>3, <2>4, <2>5 DEF StoreTypeOK
  <1>2. ASSUME StoreInv PROVE ListsExact
    <2> DEFINE K == Contents(store)
    <2>1. Listing(store, OwnOf(K), OpenOf(K))
      BY <1>2 DEF StoreInv, Books, Sound
    <2>2. \A c \in Used : Rows(c) # <<>>
      <3>1. Len(<<>>) = 0
        OBVIOUS
      <3> QED BY <1>2, <3>1, UsedRows DEF GoodRows
    <2>3. ASSUME NEW a \in Archetype, NEW own, own = {c \in Used : store.chunk[c].archetype = a}
          PROVE  /\ Listed(store.archetype[a].chunks, own,
                           [c \in own |-> store.chunk[c].listIndex])
                 /\ Listed(store.archetype[a].chunksWithEmptySlots,
                           {c \in own : Len(Rows(c)) < chunkCapacity[a]},
                           [c \in own |-> store.chunk[c].listWithEmptySlotsIndex])
      <3> DEFINE open == {c \in own : Len(Rows(c)) < chunkCapacity[a]}
                 index == [c \in own |-> store.chunk[c].listIndex]
                 emptyIndex == [c \in own |-> store.chunk[c].listWithEmptySlotsIndex]
      <3>0. \A c \in Chunk : /\ K[c] # Free <=> c \in Used
                             /\ c \in Used => K[c].archetype = store.chunk[c].archetype
                                              /\ K[c].rows = Rows(c)
        BY ContentOf DEF Used, Rows
      <3> HIDE DEF K
      <3>1. OwnOf(K)[a] = own
        <4>1. OwnOf(K)[a] = {c \in Chunk : K[c] # Free /\ K[c].archetype = a}
          BY DEF OwnOf
        <4>2. Used \subseteq Chunk
          BY DEF Used
        <4> QED BY <2>3, <3>0, <4>1, <4>2
      <3>2. OpenOf(K)[a] = open
        <4>1. OpenOf(K)[a] = {c \in Chunk : /\ K[c] # Free /\ K[c].archetype = a
                                             /\ Len(K[c].rows) < chunkCapacity[a]}
          BY DEF OpenOf
        <4>2. Used \subseteq Chunk
          BY DEF Used
        <4> QED BY <2>3, <3>0, <4>1, <4>2
      <3>3. own \subseteq Chunk /\ open \subseteq own
        BY <2>3 DEF Used
      <3>4. \A c \in own : index[c] = ListIndex(store)[c]
        BY <3>3 DEF ListIndex
      <3>5. \A c \in open : emptyIndex[c] = EmptySlotsIndex(store)[c]
        BY <3>3 DEF EmptySlotsIndex
      <3>6. /\ Listed(store.archetype[a].chunks, own, ListIndex(store))
            /\ Listed(store.archetype[a].chunksWithEmptySlots, open, EmptySlotsIndex(store))
        BY <2>1, <3>1, <3>2 DEF Listing
      <3> HIDE DEF open, index, emptyIndex
      <3>7. Listed(store.archetype[a].chunks, own, index)
        BY <3>4, <3>6, ListedAgree
      <3>8. Listed(store.archetype[a].chunksWithEmptySlots, open, emptyIndex)
        BY <3>5, <3>6, ListedAgree
      <3> QED BY <3>7, <3>8 DEF open, index, emptyIndex
    <2> HIDE DEF K
    <2> QED BY <2>2, <2>3 DEF ListsExact
  <1>3. ASSUME StoreInv PROVE CountsAgree
    <2>1. CountsRight(Contents(store), Counts(store))
      BY <1>3 DEF StoreInv, Books
    <2>2. ASSUME NEW a \in Archetype
          PROVE  store.archetype[a].entityCount = Cardinality(RowsOf(a))
      <3>1. RowsOf(a) = RowPairs(Contents(store), {a})
        BY <1>3, RowsOfIsRowPairs
      <3>2. store.archetype[a].entityCount = Counts(store)[a]
        BY DEF Counts
      <3>3. Counts(store)[a] = Cardinality(RowPairs(Contents(store), {a}))
        BY <2>1 DEF CountsRight
      <3> QED BY <3>1, <3>2, <3>3, Zenon
    <2> QED BY <2>2 DEF CountsAgree
  <1>4. StoreInv => BooksAgree
    BY <1>1, <1>2, <1>3 DEF BooksAgree
  <1> QED BY <1>4, StoreInvariant, PTL

\* A destructor is due on exactly the managed components of the rows in use, whether they
\* were constructed or are the zero memory of a move.
THEOREM AlwaysDestructedOnce == Spec => []DestructedOnce
  <1>1. ASSUME StoreInv PROVE DestructedOnce
    <2> DEFINE K == Contents(store)
               all(t) == UNION {RowsOf(a) : a \in {b \in Archetype : t \in b}}
    <2>1. toDestruct = DueOf(K)
      BY <1>1 DEF StoreInv, Books
    <2>2. \A a \in Archetype : RowsOf(a) = RowPairs(K, {a})
      BY <1>1, RowsOfIsRowPairs
    <2>3. \A c \in Chunk : K[c] # Free => K[c].archetype \in Archetype
      BY <1>1, SoundParts DEF StoreInv, Books, WellFormed
    <2> HIDE DEF K
    <2>4. ASSUME NEW t \in Managed PROVE all(t) = RowPairs(K, Having(t))
      <3>1. \A p : p \in all(t) <=> \E a \in Archetype : t \in a /\ p \in RowPairs(K, {a})
        BY <2>2
      <3>2. \A p : (\E a \in Archetype : t \in a /\ p \in RowPairs(K, {a}))
                     <=> p \in RowPairs(K, Having(t))
        BY <2>3 DEF RowPairs, Having
      <3> HIDE DEF all
      <3> QED BY <3>1, <3>2
    <2>5. ASSUME NEW t \in Managed PROVE toDestruct[t] = Cardinality(all(t))
      <3>1. toDestruct[t] = Cardinality(RowPairs(K, Having(t)))
        BY <2>1 DEF DueOf
      <3> HIDE DEF all
      <3> QED BY <2>4, <3>1, Zenon
    <2> QED BY <2>5 DEF DestructedOnce
  <1> QED BY <1>1, StoreInvariant, PTL

\* The callers see a table of entities, whatever moves between chunks.
THEOREM EntityTableImplemented == Spec => ImplementsEntityTable
  <1>1. Init => Table!TableInit
    BY InitBooks
  <1>2. StoreInv /\ [Next]_vars => [Table!TableNext]_<<TheTable, TheTargets>>
    BY EveryStep DEF TableStep
  <1> QED BY <1>1, <1>2, StoreInvariant, PTL DEF Spec, ImplementsEntityTable, Table!TableSpec
================================================================================
