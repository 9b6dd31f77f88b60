------------------------- MODULE ResourceManagerProofs -------------------------
(***************************************************************************)
(* Proofs about loads: as long as resources are freed last first, each     *)
(* load has its request, but for those written where no page is, and       *)
(* references lead where they should, for any number of names and requests.*)
(*                                                                         *)
(* AssetsManager and ResourceManager meet in InFlight: the first keeps one *)
(* request, at work or in a page, for each context it was given, until it  *)
(* calls back; the second has a slot, a reference and a waiter for it.     *)
(***************************************************************************)
EXTENDS ResourceManager, FiniteSetTheorems, SequenceTheorems, TLAPS

Asked == [ctx : Index, entry : Name]
Page == [pool : Seq(Asked), readIndex : Nat]

\* Pages of which none is read past what is written in it and still kept.
IsPages(pages) ==
  /\ pages \in Seq(Page)
  /\ \A p \in 1 .. Len(pages) :
       /\ Len(pages[p].pool) \in 1 .. RequestPageSize
       /\ pages[p].readIndex <= Len(pages[p].pool)
       /\ pages[p].readIndex < RequestPageSize

AtWork(r) == phase[r] \notin {"free", "cb"}

AssetsType ==
  /\ freeWorks \in Seq(Req)
  /\ phase \in [Req -> {"free", "queued", "failed", "found", "reading", "read", "cb"}]
  /\ info \in [Req -> Asked \cup {NoInfo}]
  /\ IsPages(pageQueue)

\* The requests in the list are those that are free, each once.
FreeInv ==
  /\ \A r \in Req : phase[r] = "free" => \E k \in 1 .. Len(freeWorks) : freeWorks[k] = r
  /\ \A k \in 1 .. Len(freeWorks) : phase[freeWorks[k]] = "free"
  /\ \A j, k \in 1 .. Len(freeWorks) : freeWorks[j] = freeWorks[k] => j = k

\* A page, a request for nobody read from one, and a load that is lost are left of a load
\* that came while no request was free.
PagedInv ==
  /\ pageQueue # <<>> \/ lost # {} => crowded
  /\ \A r \in Req : AtWork(r) /\ info[r] = NoInfo => crowded

AssetsInv == AssetsType /\ FreeInv /\ PagedInv

\* Each load in progress that was not lost has one request, and no request is for another.
RequestsInv ==
  /\ lost \subseteq loading
  /\ \A i \in Index :
       /\ i \in loading \ lost => \E x : InFlight(i) = {x}
       /\ i \notin loading \ lost => InFlight(i) = {}

ResourceType ==
  /\ hashmap \in [Name -> 0 .. Cardinality(Name)]
  /\ hash \in [Index -> Name \cup {"none"}]
  /\ resIndex \in [Index -> 0 .. Cardinality(Name)]
  /\ waiters \in [Index -> Seq(Name)]
  /\ refCounts \in [Index -> Nat]
  /\ held \in [Index -> [Name -> Nat]]

\* The first indices are taken, each by one name, which is what its slot says; the counts
\* and the waiters of a slot are those of its clients and its loader.
SlotsInv ==
  /\ \A n \in Name : hashmap[n] # 0 => hashmap[n] \in 1 .. Occupied /\ hash[hashmap[n]] = n
  /\ \A i \in 1 .. Occupied :
       /\ hash[i] \in Name /\ hashmap[hash[i]] = i /\ resIndex[i] = i
       /\ refCounts[i] > 0
       /\ refCounts[i] = held[i][hash[i]] + (IF i \in loading THEN 1 ELSE 0)
  /\ loading \subseteq 1 .. Occupied
  /\ \A i \in Index : waiters[i] = IF i \in loading THEN <<hash[i]>> ELSE <<>>
  /\ \A i \in Index, n \in Name : held[i][n] > 0 => i \in 1 .. Occupied /\ hash[i] = n

\* What was freed is not found again: the free index stays 0.
ResourceInv == ResourceType /\ SlotsInv /\ ~refused /\ freeIndex = 0

LoadsInv == RequestsInv /\ ResourceInv

\* What holds of the requests and pages always, and of loads as long as resources are freed
\* last first and the program was not ended.
InOrderInv ==
  /\ AssetsInv
  /\ lastFirst /\ crashed = "no" => LoadsInv
  /\ CrashOnlyBeyondRoom

--------------------------------------------------------------------------------
(* Places in pages *)

\* Place k of page p is written and not yet read, for i.
Waits(pages, p, k, i) ==
  /\ p \in 1 .. Len(pages)
  /\ k \in pages[p].readIndex + 1 .. Len(pages[p].pool)
  /\ pages[p].pool[k].ctx = i

PlacesFor(pages, i) == {c \in Nat \X Nat : Waits(pages, c[1], c[2], i)}

RequestsFor(i) == {r \in Req : AtWork(r) /\ info[r].ctx = i}

\* A page as it is written.
LEMMA PageType ==
  ASSUME NEW pages, IsPages(pages), NEW p \in 1 .. Len(pages)
  PROVE  /\ pages[p] \in Page /\ pages[p].pool \in Seq(Asked) /\ pages[p].readIndex \in Nat
         /\ Len(pages[p].pool) \in 1 .. RequestPageSize
         /\ pages[p].readIndex <= Len(pages[p].pool) /\ pages[p].readIndex < RequestPageSize
         /\ \A k \in 1 .. Len(pages[p].pool) : pages[p].pool[k] \in Asked
  <1>1. pages[p] \in Page
    BY DEF IsPages
  <1>2. pages[p].pool \in Seq(Asked) /\ pages[p].readIndex \in Nat
    BY <1>1 DEF Page
  <1> QED BY <1>1, <1>2 DEF IsPages

\* What is under way for i is at work or at a place.
LEMMA FlightIs ==
  ASSUME NEW i, IsPages(pageQueue)
  PROVE  InFlight(i) = RequestsFor(i) \cup PlacesFor(pageQueue, i)
  <1> DEFINE C == {c \in (DOMAIN pageQueue) \X (1 .. RequestPageSize) :
                     LET page == pageQueue[c[1]] IN
                     /\ c[2] \in page.readIndex + 1 .. Len(page.pool)
                     /\ page.pool[c[2]].ctx = i}
  <1>1. DOMAIN pageQueue = 1 .. Len(pageQueue)
    BY DEF IsPages
  <1>2. ASSUME NEW c \in C
        PROVE  c \in PlacesFor(pageQueue, i)
    BY <1>1, <1>2, AssetsAssumption DEF PlacesFor, Waits
  <1>3. ASSUME NEW c \in PlacesFor(pageQueue, i)
        PROVE  c \in C
    <2>1. /\ c[1] \in 1 .. Len(pageQueue)
          /\ c[2] \in pageQueue[c[1]].readIndex + 1 .. Len(pageQueue[c[1]].pool)
          /\ pageQueue[c[1]].pool[c[2]].ctx = i
          /\ c \in Nat \X Nat
      BY <1>3 DEF PlacesFor, Waits
    <2>2. c[2] \in 1 .. RequestPageSize
      BY <2>1, PageType, AssetsAssumption
    <2> QED BY <2>1, <2>2, <1>1
  <1>4. C = PlacesFor(pageQueue, i)
    BY <1>2, <1>3
  <1> HIDE DEF C
  <1> QED BY <1>4 DEF InFlight, RequestsFor, AtWork, C

FlightParts ==
  IsPages(pageQueue) =>
    \A i : InFlight(i) = RequestsFor(i) \cup PlacesFor(pageQueue, i)

\* It is so before and after a step.
LEMMA FlightIsStill == FlightParts /\ FlightParts'
  <1>1. FlightParts
    BY FlightIs DEF FlightParts
  <1> QED BY <1>1, PTL

\* An entry that is written takes one place more.
WrittenTo(pages, new, e, c) ==
  /\ IsPages(new) /\ new # <<>> /\ c \in Nat \X Nat
  /\ \A i : PlacesFor(new, i) = PlacesFor(pages, i) \cup (IF e.ctx = i THEN {c} ELSE {})

LEMMA PageIsAdded ==
  ASSUME NEW pages, IsPages(pages), NEW e \in Asked
  PROVE  WrittenTo(pages, Append(pages, NewPage(e)), e, <<Len(pages) + 1, 1>>)
  <1> DEFINE n == Len(pages)
             new == Append(pages, NewPage(e))
  <1>1. NewPage(e) \in Page /\ Len(NewPage(e).pool) = 1 /\ NewPage(e).readIndex = 0
        /\ NewPage(e).pool[1] = e
    BY DEF NewPage, Page
  <1>2. /\ n \in Nat
        /\ new \in Seq(Page) /\ Len(new) = n + 1 /\ new[n + 1] = NewPage(e)
        /\ \A p \in 1 .. n : new[p] = pages[p]
    BY <1>1, AppendProperties, LenProperties DEF IsPages
  <1> HIDE DEF n, new
  <1>3. IsPages(new) /\ new # <<>>
    <2>1. \A p \in 1 .. n + 1 : /\ Len(new[p].pool) \in 1 .. RequestPageSize
                                /\ new[p].readIndex <= Len(new[p].pool)
                                /\ new[p].readIndex < RequestPageSize
      <3> TAKE p \in 1 .. n + 1
      <3>1. CASE p = n + 1
        <4>1. 1 \in 1 .. RequestPageSize /\ 0 < RequestPageSize
          BY AssetsAssumption
        <4>2. new[p] = NewPage(e)
          BY <3>1, <1>2
        <4> QED BY <4>1, <4>2, <1>1
      <3>2. CASE p # n + 1
        BY <3>2, <1>2 DEF IsPages, n
      <3> QED BY <3>1, <3>2
    <2> QED BY <2>1, <1>2, EmptySeq DEF IsPages
  <1>4. ASSUME NEW i, NEW c \in Nat \X Nat
        PROVE  Waits(new, c[1], c[2], i)
                 <=> Waits(pages, c[1], c[2], i) \/ (c = <<n + 1, 1>> /\ e.ctx = i)
    <2>1. CASE c[1] \in 1 .. n
      BY <1>2, <2>1 DEF Waits, n
    <2>2. CASE c[1] = n + 1
      BY <1>1, <1>2, <2>2 DEF Waits, n
    <2>3. CASE c[1] \notin 1 .. n + 1
      BY <1>2, <2>3 DEF Waits, n
    <2> QED BY <1>2, <2>1, <2>2, <2>3
  <1>5. <<n + 1, 1>> \in Nat \X Nat
    BY <1>2
  <1>6. \A i : PlacesFor(new, i)
                 = PlacesFor(pages, i) \cup (IF e.ctx = i THEN {<<n + 1, 1>>} ELSE {})
    BY <1>4, <1>5 DEF PlacesFor
  <1> QED BY <1>3, <1>5, <1>6 DEF WrittenTo, new, n

LEMMA PageIsWritten ==
  ASSUME NEW pages, IsPages(pages), NEW e \in Asked, pages # <<>>,
         Len(Last(pages).pool) # RequestPageSize
  PROVE  WrittenTo(pages, [pages EXCEPT ![Len(pages)].pool = Append(@, e)], e,
                   <<Len(pages), Len(Last(pages).pool) + 1>>)
  <1> DEFINE n == Len(pages)
             old == pages[n]
             new == [pages EXCEPT ![n].pool = Append(@, e)]
             k == Len(old.pool) + 1
  <1>1. n \in Nat \ {0} /\ n \in 1 .. n /\ Last(pages) = old
    BY LenProperties, EmptySeq DEF IsPages, Last
  <1>2. /\ old \in Page /\ old.pool \in Seq(Asked) /\ old.readIndex \in Nat
        /\ Len(old.pool) \in 1 .. RequestPageSize /\ old.readIndex <= Len(old.pool)
        /\ old.readIndex < RequestPageSize
    BY <1>1, PageType
  <1>3. /\ Append(old.pool, e) \in Seq(Asked) /\ Len(Append(old.pool, e)) = k
        /\ Append(old.pool, e)[k] = e
        /\ \A j \in 1 .. Len(old.pool) : Append(old.pool, e)[j] = old.pool[j]
    BY <1>2, AppendProperties
  <1>4. k \in 1 .. RequestPageSize
    BY <1>1, <1>2, AssetsAssumption
  <1>5. /\ new \in Seq(Page) /\ Len(new) = n
        /\ new[n].pool = Append(old.pool, e) /\ new[n].readIndex = old.readIndex
        /\ \A p \in 1 .. n : p # n => new[p] = pages[p]
    <2> DEFINE page == [old EXCEPT !.pool = Append(@, e)]
    <2>1. page \in Page /\ page.pool = Append(old.pool, e) /\ page.readIndex = old.readIndex
      BY <1>2, <1>3 DEF Page
    <2>2. new = [pages EXCEPT ![n] = page]
      OBVIOUS
    <2> HIDE DEF page, new
    <2>3. pages \in Seq(Page) /\ n \in 1 .. Len(pages)
      BY <1>1 DEF IsPages
    <2> QED BY <2>1, <2>2, <2>3, ExceptSeq
  <1> HIDE DEF n, new, old, k
  <1>6. IsPages(new) /\ new # <<>>
    <2>1. \A p \in 1 .. n : /\ Len(new[p].pool) \in 1 .. RequestPageSize
                            /\ new[p].readIndex <= Len(new[p].pool)
                            /\ new[p].readIndex < RequestPageSize
      <3> TAKE p \in 1 .. n
      <3>1. CASE p = n
        BY <3>1, <1>1, <1>2, <1>3, <1>4, <1>5, AssetsAssumption DEF k
      <3>2. CASE p # n
        BY <3>2, <1>5 DEF IsPages, n
      <3> QED BY <3>1, <3>2
    <2> QED BY <2>1, <1>1, <1>5, EmptySeq DEF IsPages
  <1>7. <<n, k>> \in Nat \X Nat
    BY <1>1, <1>4, AssetsAssumption
  <1>8. ASSUME NEW i, NEW c \in Nat \X Nat
        PROVE  Waits(new, c[1], c[2], i)
                 <=> Waits(pages, c[1], c[2], i) \/ (c = <<n, k>> /\ e.ctx = i)
    <2>1. CASE c[1] # n
      BY <1>5, <2>1 DEF Waits, n
    <2>2. CASE c[1] = n
      <3>1. Waits(new, n, c[2], i)
              <=> c[2] \in old.readIndex + 1 .. k /\ Append(old.pool, e)[c[2]].ctx = i
        BY <1>1, <1>3, <1>5 DEF Waits
      <3>2. Waits(pages, n, c[2], i)
              <=> c[2] \in old.readIndex + 1 .. Len(old.pool) /\ old.pool[c[2]].ctx = i
        BY <1>1 DEF Waits, n, old
      <3>3. Len(old.pool) \in Nat /\ old.readIndex \in Nat /\ k = Len(old.pool) + 1
            /\ old.readIndex <= Len(old.pool)
        BY <1>2, AssetsAssumption DEF k
      <3>4. CASE c[2] = k
        <4>1. /\ c = <<n, k>>
              /\ k \in old.readIndex + 1 .. k /\ k \notin old.readIndex + 1 .. Len(old.pool)
          BY <3>3, <3>4, <2>2
        <4> QED BY <4>1, <3>1, <3>2, <3>4, <2>2, <1>3
      <3>5. CASE c[2] # k
        <4>1. c[2] \in old.readIndex + 1 .. k <=> c[2] \in old.readIndex + 1 .. Len(old.pool)
          BY <3>3, <3>5
        <4>2. c[2] \in old.readIndex + 1 .. Len(old.pool)
                => Append(old.pool, e)[c[2]] = old.pool[c[2]]
          BY <3>3, <1>3
        <4>3. Waits(new, n, c[2], i) <=> Waits(pages, n, c[2], i)
          BY <4>1, <4>2, <3>1, <3>2
        <4>4. c # <<n, k>>
          BY <3>5
        <4> QED BY <4>3, <4>4, <2>2
      <3> QED BY <3>4, <3>5
    <2> QED BY <2>1, <2>2
  <1>9. \A i : PlacesFor(new, i)
                 = PlacesFor(pages, i) \cup (IF e.ctx = i THEN {<<n, k>>} ELSE {})
    BY <1>7, <1>8 DEF PlacesFor
  <1>10. k = Len(Last(pages).pool) + 1
    BY <1>1 DEF k
  <1>11. WrittenTo(pages, new, e, <<n, k>>)
    BY <1>6, <1>7, <1>9 DEF WrittenTo
  <1> QED BY <1>10, <1>11 DEF new, n

\* What is left of pages after the first place to read is given out as next.
LEMMA PlaceIsRead ==
  ASSUME IsPages(pageQueue), pageQueue # <<>>
  PROVE  /\ NextInfo \in Asked \cup {NoInfo} /\ IsPages(PagesLeft)
         /\ \E first \in Nat \X Nat : \A i \in Index :
              /\ first \in PlacesFor(pageQueue, i) <=> NextInfo.ctx = i
              /\ PlacesFor(pageQueue, i) \ {first} = {} => PlacesFor(PagesLeft, i) = {}
              /\ \A x : PlacesFor(pageQueue, i) \ {first} = {x}
                          => \E y : PlacesFor(PagesLeft, i) = {y}
  <1> DEFINE n == Len(pageQueue)
             old == pageQueue[1]
             k == old.readIndex + 1
             left == PagesLeft
  <1>1. /\ pageQueue \in Seq(Page) /\ n \in Nat \ {0} /\ 1 \in 1 .. n /\ Head(pageQueue) = old
        /\ \A p \in 1 .. n : pageQueue[p] \in Page
    BY LenProperties, EmptySeq DEF IsPages
  <1>2. /\ old \in Page /\ old.pool \in Seq(Asked) /\ old.readIndex \in Nat
        /\ Len(old.pool) \in Nat /\ old.readIndex <= Len(old.pool)
        /\ old.readIndex < RequestPageSize /\ Len(old.pool) \in 1 .. RequestPageSize
        /\ \A j \in 1 .. Len(old.pool) : old.pool[j] \in Asked
    BY <1>1, PageType, AssetsAssumption
  <1> HIDE DEF n, old
  <1>3. k \in Nat /\ k \in 1 .. RequestPageSize
    BY <1>2, AssetsAssumption
  <1>4. NextInfo = IF k <= Len(old.pool) THEN old.pool[k] ELSE NoInfo
    BY <1>1, <1>2 DEF NextInfo
  <1>5. NextInfo \in Asked \cup {NoInfo}
    BY <1>2, <1>3, <1>4
  <1>6. left = IF k = RequestPageSize THEN Tail(pageQueue)
               ELSE [pageQueue EXCEPT ![1] = [old EXCEPT !.readIndex = k]]
    BY <1>1 DEF PagesLeft, old
  <1> HIDE DEF left
  <1>7. ASSUME NEW i \in Index
        PROVE  <<1, k>> \in PlacesFor(pageQueue, i) <=> NextInfo.ctx = i
    <2>1. <<1, k>> \in PlacesFor(pageQueue, i)
            <=> k \in k .. Len(old.pool) /\ old.pool[k].ctx = i
      BY <1>1, <1>3 DEF PlacesFor, Waits, old, n
    <2>2. k \in k .. Len(old.pool) <=> k <= Len(old.pool)
      BY <1>2, <1>3
    <2>3. NoInfo.ctx # i
      BY DEF NoInfo, Index
    <2> QED BY <2>1, <2>2, <2>3, <1>4
  <1> SUFFICES /\ IsPages(left)
               /\ \A i \in Index :
                    /\ PlacesFor(pageQueue, i) \ {<<1, k>>} = {} => PlacesFor(left, i) = {}
                    /\ \A x : PlacesFor(pageQueue, i) \ {<<1, k>>} = {x}
                                => \E y : PlacesFor(left, i) = {y}
    <2>1. <<1, k>> \in Nat \X Nat
      BY <1>3
    <2>2. /\ IsPages(PagesLeft)
          /\ \A i \in Index :
               /\ <<1, k>> \in PlacesFor(pageQueue, i) <=> NextInfo.ctx = i
               /\ PlacesFor(pageQueue, i) \ {<<1, k>>} = {} => PlacesFor(PagesLeft, i) = {}
               /\ \A x : PlacesFor(pageQueue, i) \ {<<1, k>>} = {x}
                           => \E y : PlacesFor(PagesLeft, i) = {y}
      BY <1>7 DEF left
    <2> HIDE DEF k
    <2> QED BY <2>1, <2>2, <1>5
  <1>8. CASE k = RequestPageSize
    <2>1. /\ left \in Seq(Page) /\ Len(left) = n - 1
          /\ \A p \in 1 .. n - 1 : left[p] = pageQueue[p + 1]
      BY <1>1, <1>6, <1>8, HeadTailProperties, EmptySeq DEF n
    <2>2. IsPages(left)
      BY <2>1, <1>1 DEF IsPages, n
    <2>3. ASSUME NEW i, NEW p \in Nat, NEW j \in Nat
          PROVE  <<p, j>> \in PlacesFor(left, i)
                   <=> p # 0 /\ <<p + 1, j>> \in PlacesFor(pageQueue, i)
      <3>1. <<p, j>> \in PlacesFor(left, i) <=> Waits(left, p, j, i)
        BY DEF PlacesFor
      <3>2. <<p + 1, j>> \in PlacesFor(pageQueue, i) <=> Waits(pageQueue, p + 1, j, i)
        BY DEF PlacesFor
      <3>3. p \in 1 .. n - 1 <=> p # 0 /\ p + 1 \in 1 .. n
        BY <1>1
      <3> QED BY <3>1, <3>2, <3>3, <2>1 DEF Waits, n
    <2>4. ASSUME NEW i, NEW x \in PlacesFor(pageQueue, i), x # <<1, k>>
          PROVE  \E p, j \in Nat : p # 0 /\ x = <<p + 1, j>> /\ <<p, j>> \in PlacesFor(left, i)
      <3>1. /\ x \in Nat \X Nat /\ x[1] \in 1 .. n
            /\ x[2] \in pageQueue[x[1]].readIndex + 1 .. Len(pageQueue[x[1]].pool)
        BY <2>4 DEF PlacesFor, Waits, n
      <3>2. x[1] # 1
        <4> SUFFICES ASSUME x[1] = 1
                     PROVE  FALSE
          OBVIOUS
        <4>1. x[2] \in k .. Len(old.pool)
          BY <3>1 DEF old
        <4>2. x[2] = k
          BY <4>1, <1>2, <1>3, <1>8
        <4> QED BY <3>1, <4>2, <2>4
      <3>3. x[1] - 1 \in Nat /\ x[1] - 1 # 0 /\ x = <<(x[1] - 1) + 1, x[2]>> /\ x[2] \in Nat
        BY <3>1, <3>2, <1>1
      <3> QED BY <3>3, <2>3
    <2>5. ASSUME NEW i, PlacesFor(pageQueue, i) \ {<<1, k>>} = {}
          PROVE  PlacesFor(left, i) = {}
      <3> SUFFICES ASSUME NEW y \in PlacesFor(left, i)
                   PROVE  FALSE
        OBVIOUS
      <3>1. PICK p \in Nat, j \in Nat : y = <<p, j>>
        BY DEF PlacesFor
      <3>2. p # 0 /\ <<p + 1, j>> \in PlacesFor(pageQueue, i)
        BY <3>1, <2>3
      <3>3. <<p + 1, j>> # <<1, k>>
        BY <3>2
      <3> QED BY <3>2, <3>3, <2>5
    <2>6. ASSUME NEW i, NEW x, PlacesFor(pageQueue, i) \ {<<1, k>>} = {x}
          PROVE  \E y : PlacesFor(left, i) = {y}
      <3>1. PICK p \in Nat, j \in Nat :
              p # 0 /\ x = <<p + 1, j>> /\ <<p, j>> \in PlacesFor(left, i)
        BY <2>4, <2>6
      <3>2. ASSUME NEW y \in PlacesFor(left, i)
            PROVE  y = <<p, j>>
        <4>1. PICK q \in Nat, h \in Nat : y = <<q, h>>
          BY DEF PlacesFor
        <4>2. q # 0 /\ <<q + 1, h>> \in PlacesFor(pageQueue, i)
          BY <4>1, <3>2, <2>3
        <4>3. <<q + 1, h>> # <<1, k>>
          BY <4>2
        <4>4. <<q + 1, h>> = <<p + 1, j>>
          BY <4>2, <4>3, <3>1, <2>6
        <4> QED BY <4>1, <4>4
      <3> QED BY <3>1, <3>2
    <2> QED BY <2>2, <2>5, <2>6
  <1>9. CASE k # RequestPageSize
    <2> DEFINE page == [old EXCEPT !.readIndex = k]
    <2>1. page \in Page /\ page.pool = old.pool /\ page.readIndex = k
      BY <1>2, <1>3 DEF Page
    <2> HIDE DEF page
    <2>2. /\ left \in Seq(Page) /\ Len(left) = n /\ left[1] = page
          /\ \A p \in 1 .. n : p # 1 => left[p] = pageQueue[p]
      <3>1. left = [pageQueue EXCEPT ![1] = page]
        BY <1>6, <1>9 DEF page
      <3> QED BY <3>1, <1>1, <2>1, ExceptSeq DEF n
    <2>3. IsPages(left)
      <3>1. \A p \in 1 .. n : /\ Len(left[p].pool) \in 1 .. RequestPageSize
                              /\ left[p].readIndex <= Len(left[p].pool)
                              /\ left[p].readIndex < RequestPageSize
        <4> TAKE p \in 1 .. n
        <4>1. CASE p = 1
          BY <4>1, <2>1, <2>2, <1>2, <1>3, <1>9, AssetsAssumption
        <4>2. CASE p # 1
          BY <4>2, <2>2 DEF IsPages, n
        <4> QED BY <4>1, <4>2
      <3> QED BY <3>1, <2>2 DEF IsPages
    <2>4. ASSUME NEW i, NEW c \in Nat \X Nat
          PROVE  Waits(left, c[1], c[2], i) <=> Waits(pageQueue, c[1], c[2], i) /\ c # <<1, k>>
      <3>1. CASE c[1] # 1
        BY <3>1, <2>2 DEF Waits, n
      <3>2. CASE c[1] = 1
        <4>1. c[2] \in k + 1 .. Len(old.pool) <=> c[2] \in k .. Len(old.pool) /\ c[2] # k
          BY <1>2, <1>3
        <4>2. Waits(left, 1, c[2], i)
                <=> c[2] \in k + 1 .. Len(old.pool) /\ old.pool[c[2]].ctx = i
          BY <1>1, <2>1, <2>2 DEF Waits
        <4>3. Waits(pageQueue, 1, c[2], i)
                <=> c[2] \in k .. Len(old.pool) /\ old.pool[c[2]].ctx = i
          BY <1>1 DEF Waits, old, n
        <4>4. c = <<1, k>> <=> c[2] = k
          BY <3>2
        <4> QED BY <3>2, <4>1, <4>2, <4>3, <4>4
      <3> QED BY <3>1, <3>2
    <2>5. \A i : PlacesFor(left, i) = PlacesFor(pageQueue, i) \ {<<1, k>>}
      BY <2>4 DEF PlacesFor
    <2> QED BY <2>3, <2>5
  <1> QED BY <1>8, <1>9

--------------------------------------------------------------------------------
(* The handlers of AssetsManager *)

\* post puts one request to work and touches no other.
LEMMA PostMoves ==
  ASSUME AssetsInv, NEW r \in Req, NEW e \in Asked \cup {NoInfo}, post(r, e)
  PROVE  /\ phase' \in [Req -> {"free", "queued", "failed", "found", "reading", "read", "cb"}]
         /\ info' \in [Req -> Asked \cup {NoInfo}]
         /\ \A i : RequestsFor(i)' = (RequestsFor(i) \ {r}) \cup (IF e.ctx = i THEN {r} ELSE {})
  <1>1. /\ phase \in [Req -> {"free", "queued", "failed", "found", "reading", "read", "cb"}]
        /\ info \in [Req -> Asked \cup {NoInfo}]
        /\ phase' = [phase EXCEPT ![r] = "queued"] /\ info' = [info EXCEPT ![r] = e]
    BY DEF AssetsInv, AssetsType, post
  <1>2. ASSUME NEW i
        PROVE  RequestsFor(i)' = (RequestsFor(i) \ {r}) \cup (IF e.ctx = i THEN {r} ELSE {})
    BY <1>1 DEF RequestsFor, AtWork
  <1> QED BY <1>1, <1>2

\* While every request is in use, none is in the list.
LEMMA NoneFree ==
  ASSUME AssetsInv, freeWorks = <<>>, NEW r \in Req
  PROVE  phase[r] # "free"
  BY DEF AssetsInv, FreeInv

\* A load that comes while no request is free is noted.
Noted == (crowded => crowded') /\ (freeWorks = <<>> => crowded')

\* With a request that is free, the load is put to work.
LEMMA OpenNowKeeps ==
  ASSUME AssetsInv, NEW e \in Asked, OpenNow(e), Noted
  PROVE  /\ AssetsInv'
         /\ \E x : \A i : InFlight(i)' = InFlight(i) \cup (IF e.ctx = i THEN {x} ELSE {})
  <1>1. /\ freeWorks \in Seq(Req) /\ freeWorks # <<>> /\ freeWorks' = Tail(freeWorks)
        /\ IsPages(pageQueue) /\ UNCHANGED <<pageQueue, lost>>
    BY DEF OpenNow, AssetsInv, AssetsType
  <1> DEFINE r == Head(freeWorks)
  <1>2. /\ r \in Req /\ r = freeWorks[1] /\ freeWorks' \in Seq(Req)
        /\ Len(freeWorks) \in Nat \ {0} /\ Len(freeWorks') = Len(freeWorks) - 1
        /\ \A k \in 1 .. Len(freeWorks') : freeWorks'[k] = freeWorks[k + 1]
        /\ \A k \in 1 .. Len(freeWorks) : k # 1 => k - 1 \in 1 .. Len(freeWorks')
                                                  /\ freeWorks'[k - 1] = freeWorks[k]
    BY <1>1, HeadTailProperties, EmptySeq
  <1>3. phase' = [phase EXCEPT ![r] = "queued"] /\ info' = [info EXCEPT ![r] = e]
    BY DEF OpenNow, post
  <1>4. post(r, e)
    BY DEF OpenNow
  <1> HIDE DEF r
  <1>5. phase[r] = "free"
    BY <1>2 DEF AssetsInv, FreeInv
  <1>6. \A i : RequestsFor(i)' = RequestsFor(i) \cup (IF e.ctx = i THEN {r} ELSE {})
    <2> TAKE i
    <2>1. r \notin RequestsFor(i)
      BY <1>5 DEF RequestsFor, AtWork
    <2>2. RequestsFor(i)' = (RequestsFor(i) \ {r}) \cup (IF e.ctx = i THEN {r} ELSE {})
      BY <1>2, <1>4, PostMoves
    <2> QED BY <2>1, <2>2
  <1>7. \A i : InFlight(i)' = InFlight(i) \cup (IF e.ctx = i THEN {r} ELSE {})
    BY <1>1, <1>6, FlightIsStill DEF FlightParts
  <1>8. AssetsType'
    BY <1>1, <1>2, <1>4, PostMoves DEF AssetsType
  <1>9. FreeInv'
    <2>1. \A k \in 1 .. Len(freeWorks') : k + 1 \in 1 .. Len(freeWorks) /\ k + 1 # 1
      BY <1>2
    <2>2. \A k \in 1 .. Len(freeWorks') : freeWorks'[k] # r /\ phase[freeWorks'[k]] = "free"
                                          /\ freeWorks'[k] \in Req
      BY <1>2, <2>1, ElementOfSeq DEF AssetsInv, FreeInv
    <2>3. \A j, k \in 1 .. Len(freeWorks') : freeWorks'[j] = freeWorks'[k] => j = k
      <3> TAKE j, k \in 1 .. Len(freeWorks')
      <3>1. freeWorks[j + 1] = freeWorks[k + 1] => j + 1 = k + 1
        BY <2>1 DEF AssetsInv, FreeInv
      <3> QED BY <1>2, <3>1
    <2>4. ASSUME NEW q \in Req, phase'[q] = "free"
          PROVE  \E k \in 1 .. Len(freeWorks') : freeWorks'[k] = q
      <3>1. q # r /\ phase[q] = "free"
        BY <1>2, <1>3, <2>4 DEF AssetsInv, AssetsType
      <3>2. PICK k \in 1 .. Len(freeWorks) : freeWorks[k] = q
        BY <3>1 DEF AssetsInv, FreeInv
      <3> QED BY <1>2, <3>1, <3>2
    <2> QED BY <1>3, <2>2, <2>3, <2>4 DEF FreeInv, AssetsInv, AssetsType
  <1>10. PagedInv'
    <2>1. e # NoInfo
      BY DEF Asked, NoInfo, Index
    <2> QED BY <1>1, <1>2, <1>3, <2>1 DEF PagedInv, AtWork, AssetsInv, AssetsType, Noted
  <1> QED BY <1>7, <1>8, <1>9, <1>10 DEF AssetsInv

\* In a page of the queue, the load waits.
LEMMA PagedKeeps ==
  ASSUME AssetsInv, NEW e \in Asked, Paged(e), crowded'
  PROVE  /\ AssetsInv'
         /\ \E x : \A i : InFlight(i)' = InFlight(i) \cup (IF e.ctx = i THEN {x} ELSE {})
  <1>1. IsPages(pageQueue) /\ UNCHANGED <<freeWorks, phase, info>>
    BY DEF Paged, AssetsInv, AssetsType
  <1>2. PICK c : WrittenTo(pageQueue, pageQueue', e, c)
    <2>1. CASE pageQueue = <<>> \/ Len(Last(pageQueue).pool) = RequestPageSize
      BY <2>1, <1>1, PageIsAdded DEF Paged
    <2>2. CASE ~(pageQueue = <<>> \/ Len(Last(pageQueue).pool) = RequestPageSize)
      BY <2>2, <1>1, PageIsWritten DEF Paged
    <2> QED BY <2>1, <2>2
  <1>3. \A i : RequestsFor(i)' = RequestsFor(i)
    BY <1>1 DEF RequestsFor, AtWork
  <1>4. \A i : InFlight(i)' = InFlight(i) \cup (IF e.ctx = i THEN {c} ELSE {})
    BY <1>1, <1>2, <1>3, FlightIsStill DEF FlightParts, WrittenTo
  <1>5. AssetsInv'
    BY <1>1, <1>2 DEF AssetsInv, AssetsType, FreeInv, PagedInv, AtWork, WrittenTo
  <1> QED BY <1>4, <1>5

\* Nothing changes but what is noted about a load.
LEMMA AsideKeeps ==
  ASSUME AssetsInv, crowded', UNCHANGED <<freeWorks, phase, info, pageQueue>>
  PROVE  AssetsInv' /\ \A i : InFlight(i)' = InFlight(i)
  <1>1. AssetsInv'
    BY DEF AssetsInv, AssetsType, FreeInv, PagedInv, AtWork
  <1>2. \A i : InFlight(i)' = InFlight(i)
    BY DEF InFlight
  <1> QED BY <1>1, <1>2

\* A request is put to work, or waits, and no other is touched; or the load is lost, or the
\* program ends, but only when no request was free.
LEMMA OpenKeeps ==
  ASSUME AssetsInv, NEW e \in Asked, open(e), crashed = "no", Noted
  PROVE  /\ AssetsInv'
         /\ \/ crashed' = "back" /\ crowded'
            \/ /\ crashed' = "no" /\ lost' = lost
               /\ \E x : \A i : InFlight(i)' = InFlight(i) \cup (IF e.ctx = i THEN {x} ELSE {})
            \/ /\ crashed' = "no" /\ lost' = lost \cup {e.ctx}
               /\ \A i : InFlight(i)' = InFlight(i)
  <1>1. CASE OpenNow(e)
    BY <1>1, OpenNowKeeps DEF OpenNow
  <1>2. CASE freeWorks = <<>> /\ Paged(e)
    BY <1>2, PagedKeeps DEF Paged, Noted
  <1>3. CASE /\ freeWorks = <<>> /\ UNCHANGED <<freeWorks, phase, info, pageQueue>>
             /\ \/ crashed' = "back"
                \/ crashed' = crashed /\ lost' = lost \cup {e.ctx}
    BY <1>3, AsideKeeps DEF Noted
  <1>4. CASE OpenLater(e)
    BY <1>2, <1>4 DEF OpenLater
  <1>5. CASE OpenPopped(e)
    BY <1>3, <1>5 DEF OpenPopped
  <1>6. CASE OpenUndefined(e)
    BY <1>2, <1>3, <1>6 DEF OpenUndefined, Crash
  <1> QED BY <1>1, <1>4, <1>5, <1>6 DEF open

\* A request that goes on stays the request of its load.
LEMMA WorkKeeps ==
  ASSUME AssetsInv, NEW r \in Req, InitialWork(r) \/ AfterInitial(r) \/ Read(r),
         UNCHANGED crowded
  PROVE  AssetsInv' /\ \A i : InFlight(i)' = InFlight(i)
  <1>1. /\ AtWork(r) /\ UNCHANGED <<freeWorks, info, pageQueue, lost>>
        /\ \E to \in {"found", "failed", "reading", "read"} : phase' = [phase EXCEPT ![r] = to]
    BY DEF InitialWork, AfterInitial, Read, Unless, AtWork
  <1>2. PICK to \in {"found", "failed", "reading", "read"} : phase' = [phase EXCEPT ![r] = to]
    BY <1>1
  <1>3. /\ info \in [Req -> Asked \cup {NoInfo}] /\ IsPages(pageQueue)
        /\ phase \in [Req -> {"free", "queued", "failed", "found", "reading", "read", "cb"}]
    BY DEF AssetsInv, AssetsType
  <1>4. \A q \in Req : (phase'[q] \notin {"free", "cb"} <=> phase[q] \notin {"free", "cb"})
                       /\ (phase'[q] = "free" <=> phase[q] = "free")
    BY <1>1, <1>2, <1>3 DEF AtWork
  <1>5. \A i : RequestsFor(i)' = RequestsFor(i)
    BY <1>1, <1>4 DEF RequestsFor, AtWork
  <1>6. \A i : InFlight(i)' = InFlight(i)
    BY <1>1, <1>3, <1>5, FlightIsStill DEF FlightParts
  <1>7. AssetsType'
    BY <1>1, <1>2, <1>3 DEF AssetsType, AssetsInv
  <1>8. FreeInv'
    BY <1>1, <1>4, ElementOfSeq DEF FreeInv, AssetsInv, AssetsType
  <1>9. PagedInv'
    BY <1>1, <1>4 DEF PagedInv, AssetsInv, AtWork
  <1> QED BY <1>6, <1>7, <1>8, <1>9 DEF AssetsInv

\* A request that calls back was under way for its load, and is no more.
LEMMA CallBackKeeps ==
  ASSUME AssetsInv, NEW r \in Req, CallBack(r), UNCHANGED crowded
  PROVE  /\ AssetsInv' /\ info[r] \in Asked /\ r \in InFlight(info[r].ctx)
         /\ \A i : i # info[r].ctx => InFlight(i)' = InFlight(i)
         /\ \A i, x : i = info[r].ctx /\ InFlight(i) = {x} => InFlight(i)' = {}
  <1>1. /\ AtWork(r) /\ UNCHANGED <<freeWorks, info, pageQueue, lost>>
        /\ phase' = [phase EXCEPT ![r] = "cb"] /\ info[r] # NoInfo
    BY DEF CallBack, Unless, AtWork
  <1>2. /\ info \in [Req -> Asked \cup {NoInfo}] /\ IsPages(pageQueue)
        /\ phase \in [Req -> {"free", "queued", "failed", "found", "reading", "read", "cb"}]
    BY DEF AssetsInv, AssetsType
  <1>3. info[r] \in Asked /\ r \in RequestsFor(info[r].ctx)
    BY <1>1, <1>2 DEF RequestsFor
  <1>4. \A i : RequestsFor(i)' = RequestsFor(i) \ {r}
    BY <1>1, <1>2 DEF RequestsFor, AtWork
  <1>5. /\ r \in InFlight(info[r].ctx)
        /\ \A i : i # info[r].ctx => InFlight(i)' = InFlight(i)
    <2>1. \A i : i # info[r].ctx => r \notin RequestsFor(i)
      BY DEF RequestsFor
    <2>2. \A i : InFlight(i) = RequestsFor(i) \cup PlacesFor(pageQueue, i)
      BY <1>2, FlightIsStill DEF FlightParts
    <2>3. \A i : InFlight(i)' = RequestsFor(i)' \cup PlacesFor(pageQueue, i)
      BY <1>1, <1>2, FlightIsStill DEF FlightParts
    <2>4. r \in InFlight(info[r].ctx)
      BY <1>3, <2>2
    <2>5. \A i : i # info[r].ctx => RequestsFor(i)' = RequestsFor(i)
      BY <1>4, <2>1
    <2> QED BY <2>2, <2>3, <2>4, <2>5
  <1>6. ASSUME NEW i, NEW x, i = info[r].ctx, InFlight(i) = {x}
        PROVE  InFlight(i)' = {}
    <2>1. \A j : r \notin PlacesFor(pageQueue, j)
      BY AssetsAssumption DEF PlacesFor
    <2>2. /\ InFlight(i) = RequestsFor(i) \cup PlacesFor(pageQueue, i)
          /\ InFlight(i)' = (RequestsFor(i) \ {r}) \cup PlacesFor(pageQueue, i)
      BY <1>1, <1>2, <1>4, FlightIsStill DEF FlightParts
    <2> QED BY <2>1, <2>2, <1>3, <1>6
  <1>7. AssetsType'
    BY <1>1, <1>2 DEF AssetsType, AssetsInv
  <1>8. FreeInv'
    <2>1. \A q \in Req : phase[q] = "free" <=> phase'[q] = "free"
      BY <1>1, <1>2 DEF AtWork
    <2> QED BY <1>1, <2>1, ElementOfSeq DEF FreeInv, AssetsInv, AssetsType
  <1>9. PagedInv'
    <2>1. \A q \in Req : phase'[q] \notin {"free", "cb"} => phase[q] \notin {"free", "cb"}
      BY <1>1, <1>2
    <2> QED BY <1>1, <2>1 DEF PagedInv, AssetsInv, AtWork
  <1> QED BY <1>3, <1>5, <1>6, <1>7, <1>8, <1>9 DEF AssetsInv

\* A request whose client has returned is free, or takes over the first load that waits.
LEMMA CleanupKeeps ==
  ASSUME AssetsInv, NEW r \in Req, onCleanup(r), UNCHANGED crowded
  PROVE  /\ AssetsInv'
         /\ \A i \in Index : InFlight(i) = {} => InFlight(i)' = {}
         /\ \A i \in Index : \A x : InFlight(i) = {x} => \E y : InFlight(i)' = {y}
  <1>1. /\ info \in [Req -> Asked \cup {NoInfo}] /\ IsPages(pageQueue)
        /\ phase \in [Req -> {"free", "queued", "failed", "found", "reading", "read", "cb"}]
        /\ freeWorks \in Seq(Req)
    BY DEF AssetsInv, AssetsType
  <1>2. phase[r] = "cb" /\ UNCHANGED lost /\ \A i : r \notin RequestsFor(i)
    BY DEF onCleanup, Unless, RequestsFor, AtWork
  <1>3. \A i : InFlight(i) = RequestsFor(i) \cup PlacesFor(pageQueue, i)
    BY <1>1, FlightIsStill DEF FlightParts
  <1>4. \A k \in 1 .. Len(freeWorks) : freeWorks[k] \in Req /\ freeWorks[k] # r
    BY <1>1, <1>2, ElementOfSeq DEF AssetsInv, FreeInv
  <1>5. CASE pageQueue = <<>>
    <2>1. /\ freeWorks' = <<r>> \o freeWorks /\ UNCHANGED pageQueue
          /\ phase' = [phase EXCEPT ![r] = "free"] /\ info' = [info EXCEPT ![r] = NoInfo]
      BY <1>5 DEF onCleanup
    <2>2. \A i : RequestsFor(i)' = RequestsFor(i)
      <3> TAKE i
      <3>1. RequestsFor(i)' = RequestsFor(i) \ {r}
        BY <1>1, <2>1 DEF RequestsFor, AtWork
      <3> QED BY <3>1, <1>2
    <2>3. \A i : InFlight(i)' = InFlight(i)
      BY <1>1, <2>1, <2>2, FlightIsStill DEF FlightParts
    <2>4. /\ freeWorks' \in Seq(Req) /\ Len(freeWorks) \in Nat
          /\ Len(freeWorks') = Len(freeWorks) + 1 /\ freeWorks'[1] = r
          /\ \A k \in 2 .. Len(freeWorks') : freeWorks'[k] = freeWorks[k - 1]
        /\ \A k \in 1 .. Len(freeWorks) : freeWorks'[k + 1] = freeWorks[k]
      <3>1. <<r>> \in Seq(Req) /\ Len(<<r>>) = 1 /\ <<r>>[1] = r
        OBVIOUS
      <3>2. Len(freeWorks) \in Nat
        BY <1>1, LenProperties
      <3> QED BY <1>1, <2>1, <3>1, <3>2, ConcatProperties
    <2>5. AssetsType'
      BY <1>1, <1>2, <2>1, <2>4 DEF AssetsType
    <2>6. FreeInv'
      <3>1. \A k \in 2 .. Len(freeWorks') : k - 1 \in 1 .. Len(freeWorks)
        BY <2>4
      <3>2. \A k \in 2 .. Len(freeWorks') : freeWorks'[k] \in Req /\ freeWorks'[k] # r
                                            /\ phase[freeWorks'[k]] = "free"
        BY <1>4, <2>4, <3>1 DEF AssetsInv, FreeInv
      <3>3. \A k \in 1 .. Len(freeWorks') : k = 1 \/ k \in 2 .. Len(freeWorks')
        BY <2>4
      <3>4. \A k \in 1 .. Len(freeWorks') : phase'[freeWorks'[k]] = "free"
        BY <1>1, <2>1, <2>4, <3>2, <3>3
      <3>5. \A j, k \in 1 .. Len(freeWorks') : freeWorks'[j] = freeWorks'[k] => j = k
        <4> TAKE j, k \in 1 .. Len(freeWorks')
        <4>1. CASE j = 1 \/ k = 1
          BY <4>1, <2>4, <3>2, <3>3
        <4>2. CASE j # 1 /\ k # 1
          <5>1. freeWorks'[j] = freeWorks'[k] => j - 1 = k - 1
            BY <4>2, <2>4, <3>1, <3>3 DEF AssetsInv, FreeInv
          <5> QED BY <5>1, <2>4
        <4> QED BY <4>1, <4>2
      <3>6. ASSUME NEW q \in Req, phase'[q] = "free"
            PROVE  \E k \in 1 .. Len(freeWorks') : freeWorks'[k] = q
        <4>1. CASE q = r
          BY <4>1, <2>4
        <4>2. CASE q # r
          <5>1. PICK k \in 1 .. Len(freeWorks) : freeWorks[k] = q
            BY <1>1, <2>1, <3>6, <4>2 DEF AssetsInv, FreeInv
          <5>2. k + 1 \in 1 .. Len(freeWorks')
            BY <2>4
          <5> QED BY <2>4, <5>1, <5>2
        <4> QED BY <4>1, <4>2
      <3> QED BY <3>4, <3>5, <3>6 DEF FreeInv
    <2>7. PagedInv'
      BY <1>1, <1>2, <2>1 DEF PagedInv, AssetsInv, AtWork
    <2> QED BY <2>3, <2>5, <2>6, <2>7 DEF AssetsInv
  <1>6. CASE pageQueue # <<>>
    <2>1. /\ UNCHANGED freeWorks /\ pageQueue' = PagesLeft
          /\ phase' = [phase EXCEPT ![r] = "queued"] /\ info' = [info EXCEPT ![r] = NextInfo]
      BY <1>6 DEF onCleanup, post
    <2>2. post(r, NextInfo)
      BY <1>6 DEF onCleanup
    <2>3. NextInfo \in Asked \cup {NoInfo} /\ IsPages(pageQueue')
      BY <1>1, <1>6, <2>1, PlaceIsRead
    <2>4. PICK first \in Nat \X Nat : \A i \in Index :
            /\ first \in PlacesFor(pageQueue, i) <=> NextInfo.ctx = i
            /\ PlacesFor(pageQueue, i) \ {first} = {} => PlacesFor(pageQueue', i) = {}
            /\ \A x : PlacesFor(pageQueue, i) \ {first} = {x}
                        => \E y : PlacesFor(pageQueue', i) = {y}
      BY <1>1, <1>6, <2>1, PlaceIsRead
    <2>5. ASSUME NEW i
          PROVE  InFlight(i)' = RequestsFor(i) \cup (IF NextInfo.ctx = i THEN {r} ELSE {})
                                  \cup PlacesFor(pageQueue', i)
      <3>1. RequestsFor(i)' = (RequestsFor(i) \ {r})
                                \cup (IF NextInfo.ctx = i THEN {r} ELSE {})
        BY <2>3, <2>2, PostMoves
      <3>2. InFlight(i)' = RequestsFor(i)' \cup PlacesFor(pageQueue', i)
        BY <2>3, FlightIsStill DEF FlightParts
      <3> QED BY <3>1, <3>2, <1>2
    <2>6. \A i : RequestsFor(i) \cap PlacesFor(pageQueue, i) = {} /\ first \notin RequestsFor(i)
      BY AssetsAssumption DEF RequestsFor, PlacesFor
    <2>7. ASSUME NEW i \in Index, InFlight(i) = {}
          PROVE  InFlight(i)' = {}
      <3>1. RequestsFor(i) = {} /\ PlacesFor(pageQueue, i) = {}
        BY <1>3, <2>7
      <3>2. PlacesFor(pageQueue', i) = {} /\ NextInfo.ctx # i
        BY <2>4, <3>1
      <3> QED BY <2>5, <3>1, <3>2
    <2>8. ASSUME NEW i \in Index, NEW x, InFlight(i) = {x}
          PROVE  \E y : InFlight(i)' = {y}
      <3>1. CASE NextInfo.ctx = i
        <4>1. first \in PlacesFor(pageQueue, i)
          BY <2>4, <3>1
        <4>2. x = first /\ RequestsFor(i) = {} /\ PlacesFor(pageQueue, i) \ {first} = {}
          BY <1>3, <2>6, <2>8, <4>1
        <4>3. PlacesFor(pageQueue', i) = {}
          BY <2>4, <4>2
        <4> QED BY <2>5, <3>1, <4>2, <4>3
      <3>2. CASE NextInfo.ctx # i
        <4>1. first \notin PlacesFor(pageQueue, i)
          BY <2>4, <3>2
        <4>2. CASE RequestsFor(i) = {}
          <5>1. PlacesFor(pageQueue, i) \ {first} = {x}
            BY <1>3, <2>8, <4>1, <4>2
          <5>2. PICK y : PlacesFor(pageQueue', i) = {y}
            BY <2>4, <5>1
          <5> QED BY <2>5, <3>2, <4>2, <5>2
        <4>3. CASE RequestsFor(i) # {}
          <5>1. RequestsFor(i) = {x} /\ PlacesFor(pageQueue, i) \ {first} = {}
            BY <1>3, <2>6, <2>8, <4>3
          <5>2. PlacesFor(pageQueue', i) = {}
            BY <2>4, <5>1
          <5> QED BY <2>5, <3>2, <5>1, <5>2
        <4> QED BY <4>2, <4>3
      <3> QED BY <3>1, <3>2
    <2>9. AssetsType'
      BY <1>1, <1>2, <2>1, <2>3, <2>2, PostMoves DEF AssetsType
    <2>10. FreeInv'
      BY <1>1, <1>4, <2>1 DEF AssetsInv, FreeInv
    <2>11. PagedInv'
      BY <1>2, <1>6 DEF AssetsInv, PagedInv
    <2> QED BY <2>7, <2>8, <2>9, <2>10, <2>11 DEF AssetsInv
  <1> QED BY <1>5, <1>6

--------------------------------------------------------------------------------
(* Slots *)

LEMMA OccupiedType ==
  ASSUME ResourceType
  PROVE  /\ Cardinality(Name) \in Nat /\ Occupied \in 0 .. Cardinality(Name)
         /\ 1 .. Occupied \subseteq Index
  <1>1. IsFiniteSet(Name) /\ Cardinality(Name) \in Nat
    BY ResourceAssumption, FS_CardinalityType
  <1>2. Occupied \in Nat /\ Occupied <= Cardinality(Name)
    <2> DEFINE S == {n \in Name : hashmap[n] # 0}
    <2>1. S \in SUBSET Name
      OBVIOUS
    <2> HIDE DEF S
    <2>2. IsFiniteSet(S) /\ Cardinality(S) <= Cardinality(Name)
      BY <1>1, <2>1, FS_Subset
    <2>3. Cardinality(S) \in Nat
      BY <2>2, FS_CardinalityType
    <2> QED BY <2>2, <2>3 DEF S, Occupied
  <1> QED BY <1>1, <1>2 DEF Index

\* A name that gets an index, or loses it, is one more, or one less.
LEMMA OccupiedCounts ==
  ASSUME ResourceType, NEW n \in Name, NEW i \in 0 .. Cardinality(Name),
         hashmap' = [hashmap EXCEPT ![n] = i]
  PROVE  /\ hashmap[n] = 0 /\ i # 0
              => Occupied' = Occupied + 1 /\ Occupied + 1 \in Index
         /\ hashmap[n] # 0 /\ i = 0 => Occupied' = Occupied - 1
  <1> DEFINE S == {m \in Name : hashmap[m] # 0}
             T == {m \in Name : hashmap'[m] # 0}
  <1>1. IsFiniteSet(Name) /\ Cardinality(Name) \in Nat
    BY ResourceAssumption, FS_CardinalityType
  <1>2. Occupied = Cardinality(S) /\ Occupied' = Cardinality(T)
    BY DEF Occupied
  <1>3. hashmap \in [Name -> 0 .. Cardinality(Name)]
    BY DEF ResourceType
  <1>4. S \in SUBSET Name /\ T \in SUBSET Name
    OBVIOUS
  <1>5. hashmap[n] = 0 /\ i # 0 => n \notin S /\ T = S \cup {n}
    BY <1>3
  <1>6. hashmap[n] # 0 /\ i = 0 => n \in S /\ T = S \ {n}
    BY <1>3
  <1> HIDE DEF S, T
  <1>7. IsFiniteSet(S) /\ IsFiniteSet(T) /\ Cardinality(S) \in Nat
        /\ Cardinality(T) <= Cardinality(Name)
    BY <1>1, <1>4, FS_Subset, FS_CardinalityType
  <1>8. CASE hashmap[n] = 0 /\ i # 0
    <2>1. Cardinality(T) = Cardinality(S) + 1
      BY <1>5, <1>7, <1>8, FS_AddElement
    <2> QED BY <1>1, <1>2, <1>7, <1>8, <2>1 DEF Index
  <1>9. CASE hashmap[n] # 0 /\ i = 0
    <2>1. Cardinality(T) = Cardinality(S) - 1
      BY <1>6, <1>7, <1>9, FS_RemoveElement
    <2> QED BY <1>2, <1>9, <2>1
  <1> QED BY <1>8, <1>9

\* A name that has an index has a slot with a reference; no call for it is refused.
LEMMA KnownIsThere ==
  ASSUME ResourceInv, NEW n \in Name, hashmap[n] # 0
  PROVE  LET i == hashmap[n] IN
         i \in Index /\ InRange(i) /\ hash[i] = n /\ resIndex[i] = i /\ refCounts[i] > 0
  BY OccupiedType DEF ResourceInv, SlotsInv, InRange

--------------------------------------------------------------------------------
(* The calls of the clients *)

\* A call that asks for no load leaves the requests as they are.
LEMMA AssetsStay ==
  ASSUME UNCHANGED <<assetVars, loading, crowded>>
  PROVE  /\ AssetsInv => AssetsInv'
         /\ RequestsInv => RequestsInv'
         /\ CrashOnlyBeyondRoom /\ crashed = "no" => CrashOnlyBeyondRoom'
  <1>1. UNCHANGED <<freeWorks, phase, info, pageQueue, lost, crashed>>
    BY DEF assetVars
  <1>2. AssetsInv => AssetsInv'
    BY <1>1 DEF AssetsInv, AssetsType, FreeInv, PagedInv, AtWork
  <1>3. \A i : InFlight(i)' = InFlight(i)
    BY <1>1 DEF InFlight
  <1>4. RequestsInv => RequestsInv'
    BY <1>1, <1>3 DEF RequestsInv
  <1>5. CrashOnlyBeyondRoom /\ crashed = "no" => CrashOnlyBeyondRoom'
    BY <1>1 DEF CrashOnlyBeyondRoom
  <1> QED BY <1>2, <1>4, <1>5

\* The handlers of AssetsManager leave the slots and the clients as they are.
LEMMA ResourcesStay ==
  ASSUME ResourceInv, UNCHANGED <<resVars, clientVars>>
  PROVE  ResourceInv'
  <1>1. /\ UNCHANGED <<hashmap, hash, resIndex, waiters, refCounts, freeIndex>>
        /\ UNCHANGED <<loading, held, refused>>
    BY DEF resVars, clientVars
  <1>2. Occupied' = Occupied
    BY <1>1 DEF Occupied
  <1>3. ResourceType'
    BY <1>1 DEF ResourceInv, ResourceType
  <1>4. SlotsInv'
    BY <1>1, <1>2 DEF ResourceInv, SlotsInv
  <1> QED BY <1>1, <1>3, <1>4 DEF ResourceInv

LEMMA LoadKnownKeeps ==
  ASSUME LoadsInv, NEW n \in Name, LoadKnown(n)
  PROVE  LoadsInv' /\ UNCHANGED <<assetVars, loading, crowded>>
  <1> DEFINE i == hashmap[n]
  <1>1. i \in Index /\ InRange(i) /\ hash[i] = n /\ resIndex[i] = i /\ refCounts[i] > 0
        /\ hashmap[n] # 0
    BY KnownIsThere DEF LoadKnown, LoadsInv
  <1>2. CASE UNCHANGED vars
    <2>1. UNCHANGED <<assetVars, resVars, clientVars>>
      BY <1>2 DEF vars
    <2>2. RequestsInv'
      BY <2>1, AssetsStay DEF LoadsInv, clientVars
    <2>3. ResourceInv'
      BY <2>1, ResourcesStay DEF LoadsInv
    <2> QED BY <2>1, <2>2, <2>3 DEF LoadsInv, clientVars
  <1>3. CASE ~UNCHANGED vars
    <2>1. /\ refCounts' = [refCounts EXCEPT ![i] = @ + 1]
          /\ held' = [held EXCEPT ![i][n] = @ + 1]
          /\ UNCHANGED <<assetVars, hashmap, rstate, hash, resIndex, waiters, freeIndex,
                         loading, refused, lastFirst, crowded>>
      BY <1>1, <1>3 DEF LoadKnown, InRange
    <2> HIDE DEF i
    <2>2. RequestsInv'
      BY <2>1, AssetsStay DEF LoadsInv
    <2>3. ResourceType'
      BY <1>1, <2>1 DEF ResourceType, ResourceInv, LoadsInv
    <2>4. Occupied' = Occupied
      BY <2>1 DEF Occupied
    <2>5. SlotsInv'
      <3> USE DEF LoadsInv, ResourceInv
      <3>1. \A j \in Index, m \in Name : j # i \/ m # n => held'[j][m] = held[j][m]
        BY <2>1 DEF ResourceType
      <3>2. held'[i][n] = held[i][n] + 1 /\ refCounts'[i] = refCounts[i] + 1
            /\ \A j \in Index : j # i => refCounts'[j] = refCounts[j]
        BY <1>1, <2>1 DEF ResourceType
      <3>3. held[i][n] \in Nat /\ refCounts[i] \in Nat
        BY <1>1 DEF ResourceType
      <3>4. i \in 1 .. Occupied /\ 1 .. Occupied \subseteq Index
        BY <1>1, OccupiedType DEF InRange
      <3>5. \A j \in 1 .. Occupied :
              /\ refCounts'[j] > 0
              /\ refCounts'[j] = held'[j][hash[j]] + (IF j \in loading THEN 1 ELSE 0)
        <4> TAKE j \in 1 .. Occupied
        <4>1. CASE j = i
          BY <4>1, <1>1, <3>2, <3>3, <3>4 DEF SlotsInv
        <4>2. CASE j # i
          BY <4>2, <3>1, <3>2, <3>4 DEF SlotsInv
        <4> QED BY <4>1, <4>2
      <3>6. \A j \in Index, m \in Name : held'[j][m] > 0 => j \in 1 .. Occupied /\ hash[j] = m
        BY <1>1, <3>1, <3>4 DEF SlotsInv
      <3> QED BY <2>1, <2>4, <3>5, <3>6 DEF SlotsInv
    <2> QED BY <2>1, <2>2, <2>3, <2>5 DEF LoadsInv, ResourceInv
  <1> QED BY <1>2, <1>3 DEF vars, clientVars

LEMMA LoadNewKeeps ==
  ASSUME AssetsInv, LoadsInv, crashed = "no", NEW n \in Name, LoadNew(n)
  PROVE  /\ AssetsInv'
         /\ (crashed' = "back" /\ crowded') \/ (crashed' = "no" /\ LoadsInv')
  <1>1. PICK i : i = Occupied + 1
    OBVIOUS
  <1> DEFINE e == [ctx |-> i, entry |-> n]
  <1>2. ResourceType /\ SlotsInv /\ ~refused /\ freeIndex = 0
    BY DEF LoadsInv, ResourceInv
  <1>3. /\ hashmap[n] = 0
        /\ hashmap' = [hashmap EXCEPT ![n] = i]
        /\ freeIndex' = 0
        /\ refCounts' = [refCounts EXCEPT ![i] = 1]
        /\ resIndex' = [resIndex EXCEPT ![i] = i]
        /\ hash' = [hash EXCEPT ![i] = n]
        /\ waiters' = [waiters EXCEPT ![i] = Append(@, n)]
        /\ loading' = loading \cup {i}
        /\ open(e)
        /\ UNCHANGED <<rstate, held, refused, lastFirst>>
    BY <1>1, <1>2 DEF LoadNew, NewIndex
  <1>4. Occupied \in Nat /\ 1 .. Occupied \subseteq Index /\ Cardinality(Name) \in Nat
    BY <1>2, OccupiedType
  <1>5. i \in Index /\ i \in 0 .. Cardinality(Name) /\ Occupied' = i
    <2>1. Occupied < Cardinality(Name)
      <3> DEFINE S == {m \in Name : hashmap[m] # 0}
      <3>1. S \in SUBSET Name /\ n \notin S
        BY <1>3
      <3>2. IsFiniteSet(Name) /\ Occupied = Cardinality(S)
        BY ResourceAssumption DEF Occupied
      <3> HIDE DEF S
      <3>3. Cardinality(S) <= Cardinality(Name) /\ Cardinality(S) # Cardinality(Name)
        BY <3>1, <3>2, FS_Subset
      <3> QED BY <1>4, <3>2, <3>3
    <2>2. i \in Index /\ i \in 0 .. Cardinality(Name) /\ i # 0
      BY <1>1, <1>4, <2>1 DEF Index
    <2>3. Occupied' = Occupied + 1
      BY <1>2, <1>3, <2>2, OccupiedCounts
    <2> QED BY <1>1, <2>2, <2>3
  <1>6. i \notin 1 .. Occupied /\ i \notin loading
        /\ \A j \in 1 .. i : j = i \/ j \in 1 .. Occupied
    BY <1>1, <1>2, <1>4 DEF SlotsInv
  <1>7. 1 .. Occupied' = 1 .. i /\ 1 .. Occupied \subseteq 1 .. i /\ i \in 1 .. i
    BY <1>1, <1>4, <1>5
  <1>8. e \in Asked
    BY <1>5 DEF Asked
  <1>9. Noted
    BY NoneFree DEF LoadNew, Noted
  <1>10. AssetsInv'
    BY <1>3, <1>8, <1>9, OpenKeeps
  <1>11. CASE crashed' = "back" /\ crowded'
    BY <1>10, <1>11
  <1>12. CASE /\ crashed' = "no"
              /\ \/ /\ lost' = lost
                    /\ \E x : \A j : InFlight(j)' = InFlight(j) \cup
                                                      (IF e.ctx = j THEN {x} ELSE {})
                 \/ lost' = lost \cup {e.ctx} /\ \A j : InFlight(j)' = InFlight(j)
    <2>1. InFlight(i) = {} /\ i \notin lost /\ lost \subseteq loading
      BY <1>5, <1>6 DEF LoadsInv, RequestsInv
    <2>2. RequestsInv'
      <3>1. \A j \in Index : j # i => /\ InFlight(j)' = InFlight(j)
                                      /\ j \in (loading \ lost)' <=> j \in loading \ lost
        BY <1>3, <1>12
      <3>2. lost' \subseteq loading'
        BY <1>3, <1>12, <2>1
      <3>3. /\ i \in (loading \ lost)' => \E y : InFlight(i)' = {y}
            /\ i \notin (loading \ lost)' => InFlight(i)' = {}
        <4>1. i \in loading'
          BY <1>3
        <4>2. CASE lost' = lost /\ \E x : \A j : InFlight(j)' = InFlight(j) \cup
                                                         (IF e.ctx = j THEN {x} ELSE {})
          <5>1. PICK x : \A j : InFlight(j)' = InFlight(j) \cup (IF i = j THEN {x} ELSE {})
            BY <4>2
          <5>2. InFlight(i)' = {x}
            BY <2>1, <5>1
          <5> QED BY <2>1, <4>1, <4>2, <5>2
        <4>3. CASE lost' = lost \cup {e.ctx} /\ \A j : InFlight(j)' = InFlight(j)
          BY <2>1, <4>3
        <4> QED BY <1>12, <4>2, <4>3
      <3>4. \A j \in Index : /\ j \in (loading \ lost)' => \E y : InFlight(j)' = {y}
                             /\ j \notin (loading \ lost)' => InFlight(j)' = {}
        <4> TAKE j \in Index
        <4>1. CASE j = i
          BY <4>1, <3>3
        <4>2. CASE j # i
          <5>1. /\ j \in loading \ lost => \E y : InFlight(j) = {y}
                /\ j \notin loading \ lost => InFlight(j) = {}
            BY DEF LoadsInv, RequestsInv
          <5>2. InFlight(j)' = InFlight(j) /\ (j \in (loading \ lost)' <=> j \in loading \ lost)
            BY <4>2, <3>1
          <5> QED BY <5>1, <5>2
        <4> QED BY <4>1, <4>2
      <3> QED BY <3>2, <3>4 DEF RequestsInv
    <2>3. waiters[i] = <<>> /\ waiters'[i] = <<n>>
      <3>1. waiters[i] = <<>>
        BY <1>2, <1>5, <1>6 DEF SlotsInv
      <3>2. Append(<<>>, n) = <<n>>
        OBVIOUS
      <3> QED BY <1>2, <1>3, <1>5, <3>1, <3>2 DEF ResourceType
    <2>4. ResourceType'
      <3>1. waiters' \in [Index -> Seq(Name)]
        <4>1. <<n>> \in Seq(Name)
          OBVIOUS
        <4>2. waiters' = [waiters EXCEPT ![i] = <<n>>]
          BY <1>2, <1>3, <1>5, <2>3 DEF ResourceType
        <4> QED BY <1>2, <4>1, <4>2 DEF ResourceType
      <3> QED BY <1>2, <1>3, <1>5, <3>1 DEF ResourceType
    <2>5. \A m \in Name : held[i][m] = 0
      BY <1>2, <1>5, <1>6 DEF SlotsInv, ResourceType
    <2>6. /\ hash'[i] = n /\ hashmap'[n] = i /\ resIndex'[i] = i /\ refCounts'[i] = 1
          /\ \A m \in Name : m # n => hashmap'[m] = hashmap[m]
          /\ \A j \in Index : j # i => /\ hash'[j] = hash[j] /\ resIndex'[j] = resIndex[j]
                                       /\ refCounts'[j] = refCounts[j]
                                       /\ waiters'[j] = waiters[j]
      BY <1>2, <1>3, <1>5 DEF ResourceType
    <2>7. \A j \in 1 .. Occupied : j # i /\ j \in Index /\ hash[j] \in Name /\ hash[j] # n
      BY <1>2, <1>3, <1>4, <1>6, <1>5 DEF SlotsInv
    <2>8. SlotsInv'
      <3>1. \A m \in Name : hashmap'[m] # 0 => hashmap'[m] \in 1 .. i /\ hash'[hashmap'[m]] = m
        <4> TAKE m \in Name
        <4>1. CASE m = n
          BY <4>1, <2>6, <1>7
        <4>2. CASE m # n
          BY <4>2, <2>6, <2>7, <1>2, <1>7 DEF SlotsInv
        <4> QED BY <4>1, <4>2
      <3>2. \A j \in 1 .. i :
              /\ hash'[j] \in Name /\ hashmap'[hash'[j]] = j /\ resIndex'[j] = j
              /\ refCounts'[j] > 0
              /\ refCounts'[j] = held'[j][hash'[j]] + (IF j \in loading' THEN 1 ELSE 0)
        <4> TAKE j \in 1 .. i
        <4>1. CASE j = i
          BY <4>1, <1>3, <2>5, <2>6
        <4>2. CASE j \in 1 .. Occupied
          BY <4>2, <1>2, <1>3, <2>6, <2>7 DEF SlotsInv
        <4> QED BY <4>1, <4>2, <1>6
      <3>3. loading' \subseteq 1 .. i
        BY <1>2, <1>3, <1>7 DEF SlotsInv
      <3>4. \A j \in Index : waiters'[j] = IF j \in loading' THEN <<hash'[j]>> ELSE <<>>
        <4> TAKE j \in Index
        <4>1. CASE j = i
          BY <4>1, <1>3, <2>3, <2>6
        <4>2. CASE j # i
          BY <4>2, <1>2, <1>3, <2>6 DEF SlotsInv
        <4> QED BY <4>1, <4>2
      <3>5. \A j \in Index, m \in Name : held'[j][m] > 0 => j \in 1 .. i /\ hash'[j] = m
        <4> TAKE j \in Index, m \in Name
        <4>1. CASE j = i
          BY <4>1, <1>3, <2>5
        <4>2. CASE j # i
          BY <4>2, <1>2, <1>3, <1>7, <2>6 DEF SlotsInv
        <4> QED BY <4>1, <4>2
      <3> QED BY <1>5, <3>1, <3>2, <3>3, <3>4, <3>5 DEF SlotsInv
    <2> QED BY <1>2, <1>3, <1>10, <1>12, <2>2, <2>4, <2>8 DEF LoadsInv, ResourceInv
  <1> QED BY <1>3, <1>8, <1>9, <1>11, <1>12, OpenKeeps

\* A client gives up a reference; with the last one the slot is freed, and this keeps the
\* invariant if it is the last slot.
LEMMA DecreaseKeeps ==
  ASSUME LoadsInv, NEW i \in Index, NEW n \in Name, refCountDecrease(i, n), lastFirst'
  PROVE  LoadsInv'
  <1>1. ResourceType /\ SlotsInv /\ ~refused /\ freeIndex = 0
    BY DEF LoadsInv, ResourceInv
  <1>2. /\ held[i][n] > 0 /\ i \in 1 .. Occupied /\ hash[i] = n
        /\ hashmap[n] = i /\ resIndex[i] = i
        /\ refCounts[i] > 0 /\ refCounts[i] = held[i][n] + (IF i \in loading THEN 1 ELSE 0)
        /\ held[i][n] \in Nat /\ refCounts[i] \in Nat
    BY <1>1 DEF refCountDecrease, SlotsInv, ResourceType
  <1>3. Occupied \in Nat /\ 1 .. Occupied \subseteq Index /\ 0 \in 0 .. Cardinality(Name)
    BY <1>1, OccupiedType
  <1>4. /\ refCounts' = [refCounts EXCEPT ![i] = @ - 1]
        /\ held' = [held EXCEPT ![i][n] = @ - 1]
        /\ UNCHANGED <<assetVars, rstate, loading, refused, crowded>>
        /\ IF refCounts[i] = 1
             THEN freeResource(i)
             ELSE UNCHANGED <<hashmap, resIndex, freeIndex, hash, waiters, lastFirst>>
    <2>1. InRange(i) /\ refCounts[i] # 0 /\ hashmap[hash[i]] # 0
      BY <1>2 DEF InRange
    <2> QED BY <2>1 DEF refCountDecrease
  <1>5. RequestsInv'
    BY <1>4, AssetsStay DEF LoadsInv
  <1>6. /\ refCounts' \in [Index -> Nat] /\ held' \in [Index -> [Name -> Nat]]
        /\ refCounts'[i] = refCounts[i] - 1 /\ held'[i][n] = held[i][n] - 1
        /\ \A j \in Index : j # i => refCounts'[j] = refCounts[j]
        /\ \A j \in Index, m \in Name : j # i \/ m # n => held'[j][m] = held[j][m]
    BY <1>1, <1>2, <1>4 DEF ResourceType
  <1>7. CASE refCounts[i] # 1
    <2>1. /\ UNCHANGED <<hashmap, resIndex, freeIndex, hash, waiters, loading, refused>>
          /\ Occupied' = Occupied
      BY <1>4, <1>7 DEF Occupied
    <2>2. ResourceType'
      BY <1>1, <1>6, <2>1 DEF ResourceType
    <2>3. \A j \in 1 .. Occupied :
            /\ refCounts'[j] > 0
            /\ refCounts'[j] = held'[j][hash[j]] + (IF j \in loading THEN 1 ELSE 0)
      <3> TAKE j \in 1 .. Occupied
      <3>1. CASE j = i
        BY <3>1, <1>2, <1>6, <1>7
      <3>2. CASE j # i
        <4>1. j \in Index /\ hash[j] \in Name
          BY <1>1, <1>3 DEF SlotsInv
        <4>2. refCounts'[j] = refCounts[j] /\ held'[j][hash[j]] = held[j][hash[j]]
          BY <3>2, <4>1, <1>6
        <4> QED BY <4>2, <1>1 DEF SlotsInv
      <3> QED BY <3>1, <3>2
    <2>4. \A j \in Index, m \in Name : held'[j][m] > 0 => held[j][m] > 0
      BY <1>2, <1>6
    <2>5. SlotsInv'
      BY <1>1, <2>1, <2>3, <2>4 DEF SlotsInv
    <2> QED BY <1>1, <1>4, <1>5, <2>1, <2>2, <2>5 DEF LoadsInv, ResourceInv
  <1>8. CASE refCounts[i] = 1
    <2>1. /\ hashmap' = [hashmap EXCEPT ![n] = 0]
          /\ resIndex' = [resIndex EXCEPT ![i] = 0]
          /\ freeIndex' = resIndex'[i]
          /\ hash' = [hash EXCEPT ![i] = "none"]
          /\ waiters' = [waiters EXCEPT ![i] = <<>>]
          /\ i = Occupied
      BY <1>1, <1>2, <1>4, <1>8 DEF freeResource
    <2>2. freeIndex' = 0
      BY <1>1, <1>3, <2>1 DEF ResourceType
    <2>3. i \notin loading /\ held'[i][n] = 0
      BY <1>2, <1>6, <1>8
    <2>4. Occupied' = Occupied - 1
      <3>1. hashmap[n] # 0
        BY <1>2
      <3> QED BY <1>1, <1>3, <2>1, <3>1, OccupiedCounts
    <2>5. /\ \A j \in 1 .. Occupied : j # i => j \in 1 .. Occupied'
          /\ \A j \in 1 .. Occupied' : j \in 1 .. Occupied /\ j # i
      BY <1>3, <2>1, <2>4
    <2>6. /\ hashmap'[n] = 0 /\ \A m \in Name : m # n => hashmap'[m] = hashmap[m]
          /\ \A j \in Index : j # i => /\ hash'[j] = hash[j] /\ resIndex'[j] = resIndex[j]
                                       /\ waiters'[j] = waiters[j]
          /\ waiters'[i] = <<>>
      BY <1>1, <2>1 DEF ResourceType
    <2>7. ResourceType'
      <3>1. <<>> \in Seq(Name)
        OBVIOUS
      <3> QED BY <1>1, <1>3, <1>6, <2>1, <3>1 DEF ResourceType
    <2>8. SlotsInv'
      <3>1. \A m \in Name : hashmap'[m] # 0 =>
              hashmap'[m] \in 1 .. Occupied' /\ hash'[hashmap'[m]] = m
        <4> SUFFICES ASSUME NEW m \in Name, hashmap'[m] # 0
                     PROVE  hashmap'[m] \in 1 .. Occupied' /\ hash'[hashmap'[m]] = m
          OBVIOUS
        <4>1. m # n /\ hashmap'[m] = hashmap[m]
          BY <2>6
        <4>2. hashmap[m] \in 1 .. Occupied /\ hash[hashmap[m]] = m /\ hashmap[m] # i
          BY <1>1, <1>2, <4>1 DEF SlotsInv
        <4> QED BY <1>3, <2>5, <2>6, <4>1, <4>2
      <3>2. \A j \in 1 .. Occupied' :
              /\ hash'[j] \in Name /\ hashmap'[hash'[j]] = j /\ resIndex'[j] = j
              /\ refCounts'[j] > 0
              /\ refCounts'[j] = held'[j][hash'[j]] + (IF j \in loading' THEN 1 ELSE 0)
        <4> TAKE j \in 1 .. Occupied'
        <4>1. j \in 1 .. Occupied /\ j # i /\ j \in Index
          BY <1>3, <2>5
        <4>2. hash[j] \in Name /\ hash[j] # n
          BY <1>1, <1>2, <4>1 DEF SlotsInv
        <4>3. hash'[j] = hash[j] /\ hashmap'[hash[j]] = hashmap[hash[j]]
              /\ resIndex'[j] = resIndex[j]
          BY <2>6, <4>1, <4>2
        <4>4. refCounts'[j] = refCounts[j] /\ held'[j][hash[j]] = held[j][hash[j]]
              /\ loading' = loading
          BY <1>4, <1>6, <4>1, <4>2
        <4> QED BY <1>1, <4>1, <4>2, <4>3, <4>4 DEF SlotsInv
      <3>3. loading' \subseteq 1 .. Occupied'
        BY <1>1, <1>4, <2>3, <2>5 DEF SlotsInv
      <3>4. \A j \in Index : waiters'[j] = IF j \in loading' THEN <<hash'[j]>> ELSE <<>>
        BY <1>1, <1>4, <2>3, <2>6 DEF SlotsInv
      <3>5. \A j \in Index, m \in Name : held'[j][m] > 0 => j \in 1 .. Occupied' /\ hash'[j] = m
        <4> SUFFICES ASSUME NEW j \in Index, NEW m \in Name, held'[j][m] > 0
                     PROVE  j \in 1 .. Occupied' /\ hash'[j] = m
          OBVIOUS
        <4>1. held[j][m] > 0
          BY <1>2, <1>6
        <4>2. j \in 1 .. Occupied /\ hash[j] = m
          BY <1>1, <4>1 DEF SlotsInv
        <4>3. j # i
          BY <1>2, <2>3, <4>2
        <4> QED BY <2>5, <2>6, <4>2, <4>3
      <3> QED BY <3>1, <3>2, <3>3, <3>4, <3>5 DEF SlotsInv
    <2> QED BY <1>1, <1>4, <1>5, <2>2, <2>7, <2>8 DEF LoadsInv, ResourceInv
  <1> QED BY <1>7, <1>8

--------------------------------------------------------------------------------
(* The steps of a request *)

\* The callback finds the slot of its load as it left it, and does not throw.
LEMMA cbKeeps ==
  ASSUME AssetsInv, LoadsInv, crashed = "no", NEW r \in Req, cb(r)
  PROVE  LoadsInv' /\ UNCHANGED <<crashed, lastFirst>>
  <1>1. ResourceType /\ SlotsInv /\ ~refused /\ freeIndex = 0
    BY DEF LoadsInv, ResourceInv
  <1>2. PICK i \in Index : i = info[r].ctx
    BY CallBackKeeps DEF cb, clientVars, Asked
  <1>3. /\ r \in InFlight(i)
        /\ \A j : j # i => InFlight(j)' = InFlight(j)
        /\ \A x : InFlight(i) = {x} => InFlight(i)' = {}
    BY <1>2, CallBackKeeps DEF cb, clientVars
  <1>4. i \in loading /\ i \notin lost
    BY <1>3 DEF LoadsInv, RequestsInv
  <1>5. PICK h \in Name : h = hash[i]
    BY <1>1, <1>4 DEF SlotsInv
  <1>6. /\ i \in 1 .. Occupied /\ resIndex[i] = i /\ refCounts[i] > 0 /\ waiters[i] = <<h>>
        /\ refCounts[i] = held[i][h] + 1
        /\ Occupied \in Nat /\ 1 .. Occupied \subseteq Index
        /\ refCounts[i] \in Nat /\ held[i][h] \in Nat
    BY <1>1, <1>4, <1>5, OccupiedType DEF SlotsInv, ResourceType
  <1>7. /\ Told(i) /\ loading' = loading \ {i}
        /\ UNCHANGED <<lost, crashed, hashmap, hash, resIndex, freeIndex, refused, lastFirst>>
    <2>1. InRange(resIndex[i]) /\ waiters[i] # <<>>
      BY <1>6 DEF InRange
    <2> QED BY <1>2, <1>6, <2>1 DEF cb, CallBack
  <1>8. RequestsInv'
    <2>1. InFlight(i)' = {} /\ i \notin loading' /\ lost' \subseteq loading'
      BY <1>3, <1>4, <1>7 DEF LoadsInv, RequestsInv
    <2>2. \A j \in Index : /\ j \in (loading \ lost)' => \E x : InFlight(j)' = {x}
                           /\ j \notin (loading \ lost)' => InFlight(j)' = {}
      <3> TAKE j \in Index
      <3>1. CASE j = i
        BY <2>1, <3>1
      <3>2. CASE j # i
        <4>1. InFlight(j)' = InFlight(j) /\ (j \in (loading \ lost)' <=> j \in loading \ lost)
          BY <1>3, <1>7, <3>2
        <4>2. /\ j \in loading \ lost => \E x : InFlight(j) = {x}
              /\ j \notin loading \ lost => InFlight(j) = {}
          BY DEF LoadsInv, RequestsInv
        <4> QED BY <4>1, <4>2
      <3> QED BY <3>1, <3>2
    <2> QED BY <2>1, <2>2 DEF RequestsInv
  <1>9. /\ refCounts' = refCounts
        /\ waiters' = [waiters EXCEPT ![i] = <<>>]
        /\ held' \in [Index -> [Name -> Nat]]
        /\ held'[i][h] = held[i][h] + 1
        /\ \A j \in Index, m \in Name : j # i \/ m # h => held'[j][m] = held[j][m]
    <2> DEFINE takers(m) == {w \in DOMAIN waiters[i] : waiters[i][w] = m}
    <2>1. \A m \in Name : Cardinality(takers(m)) = IF m = h THEN 1 ELSE 0
      <3> TAKE m \in Name
      <3>1. DOMAIN waiters[i] = {1} /\ waiters[i][1] = h
        BY <1>6
      <3>2. takers(m) = IF m = h THEN {1} ELSE {}
        BY <3>1
      <3> QED BY <3>2, FS_Singleton, FS_EmptySet
    <2>2. held' = [held EXCEPT ![i] = [m \in Name |-> @[m] + Cardinality(takers(m))]]
      BY <1>6, <1>7 DEF Told
    <2> HIDE DEF takers
    <2>3. held' = [held EXCEPT ![i] = [m \in Name |-> @[m] + IF m = h THEN 1 ELSE 0]]
      BY <2>1, <2>2
    <2>4. Len(waiters[i]) = 1
      BY <1>6
    <2>5. refCounts' = [refCounts EXCEPT ![i] = @ + 1 - 1]
      BY <1>6, <1>7, <2>4 DEF Told
    <2>6. refCounts' = refCounts
      BY <1>1, <1>6, <2>5 DEF ResourceType
    <2>7. waiters' = [waiters EXCEPT ![i] = <<>>]
      BY <1>7 DEF Told
    <2> QED BY <1>1, <2>3, <2>6, <2>7 DEF ResourceType
  <1>10. ResourceType'
    <2>1. <<>> \in Seq(Name)
      OBVIOUS
    <2> QED BY <1>1, <1>7, <1>9, <2>1 DEF ResourceType
  <1>11. Occupied' = Occupied
    BY <1>7 DEF Occupied
  <1>12. SlotsInv'
    <2>1. \A j \in 1 .. Occupied :
            refCounts'[j] = held'[j][hash[j]] + (IF j \in loading' THEN 1 ELSE 0)
      <3> TAKE j \in 1 .. Occupied
      <3>1. CASE j = i
        BY <3>1, <1>5, <1>6, <1>7, <1>9
      <3>2. CASE j # i
        <4>1. j \in Index /\ hash[j] \in Name
          BY <1>1, <1>6 DEF SlotsInv
        <4>2. held'[j][hash[j]] = held[j][hash[j]] /\ (j \in loading' <=> j \in loading)
          BY <3>2, <4>1, <1>7, <1>9
        <4>3. refCounts[j] = held[j][hash[j]] + (IF j \in loading THEN 1 ELSE 0)
          BY <1>1 DEF SlotsInv
        <4> QED BY <4>2, <4>3, <1>9
      <3> QED BY <3>1, <3>2
    <2>2. \A j \in Index : waiters'[j] = IF j \in loading' THEN <<hash[j]>> ELSE <<>>
      BY <1>1, <1>7, <1>9 DEF SlotsInv, ResourceType
    <2>3. \A j \in Index, m \in Name : held'[j][m] > 0 => j \in 1 .. Occupied /\ hash[j] = m
      <3> TAKE j \in Index, m \in Name
      <3>1. CASE j = i /\ m = h
        BY <3>1, <1>5, <1>6
      <3>2. CASE j # i \/ m # h
        <4>1. held'[j][m] = held[j][m]
          BY <3>2, <1>9
        <4> QED BY <4>1, <1>1 DEF SlotsInv
      <3> QED BY <3>1, <3>2
    <2>4. \A j \in 1 .. Occupied :
            hash[j] \in Name /\ hashmap[hash[j]] = j /\ resIndex[j] = j /\ refCounts'[j] > 0
      BY <1>1, <1>9 DEF SlotsInv
    <2>5. loading' \subseteq 1 .. Occupied
      BY <1>1, <1>7 DEF SlotsInv
    <2>6. \A m \in Name :
            hashmap[m] # 0 => hashmap[m] \in 1 .. Occupied /\ hash[hashmap[m]] = m
      BY <1>1 DEF SlotsInv
    <2> QED BY <1>7, <1>11, <2>1, <2>2, <2>3, <2>4, <2>5, <2>6 DEF SlotsInv
  <1> QED BY <1>1, <1>7, <1>8, <1>10, <1>12 DEF LoadsInv, ResourceInv

\* AssetsManager goes on with its requests whatever becomes of the loads, and ends the
\* program only if an info was read that nobody wrote.
LEMMA LibraryKeeps ==
  ASSUME AssetsInv, NEW r \in Req, Library(r)
  PROVE  /\ AssetsInv' /\ UNCHANGED <<lost, lastFirst, crowded>>
         /\ \/ crashed' = "null" /\ crowded'
            \/ UNCHANGED crashed /\ (LoadsInv => LoadsInv')
  <1>1. UNCHANGED <<resVars, clientVars>> /\ UNCHANGED <<loading, lastFirst, crowded>>
    BY DEF Library, clientVars
  <1>2. ResourceInv => ResourceInv'
    BY <1>1, ResourcesStay
  <1>3. CASE InitialWork(r) \/ AfterInitial(r) \/ Read(r)
    <2>1. UNCHANGED <<lost, crashed>>
      BY <1>3 DEF InitialWork, AfterInitial, Read
    <2>2. AssetsInv' /\ (RequestsInv => RequestsInv')
      BY <1>1, <1>3, <2>1, WorkKeeps DEF RequestsInv
    <2> QED BY <1>1, <1>2, <2>1, <2>2 DEF LoadsInv
  <1>4. CASE CallNull(r)
    <2>1. /\ AtWork(r) /\ info[r] = NoInfo /\ crashed' = "null"
          /\ UNCHANGED <<freeWorks, phase, info, pageQueue, lost>>
      BY <1>4 DEF CallNull, Unless, Crash, AtWork
    <2>2. crowded
      BY <2>1 DEF AssetsInv, PagedInv
    <2> QED BY <1>1, <2>1, <2>2, AsideKeeps
  <1>5. CASE onCleanup(r)
    <2>1. UNCHANGED <<lost, crashed>>
      BY <1>5 DEF onCleanup
    <2>2. /\ AssetsInv'
          /\ \A i \in Index : InFlight(i) = {} => InFlight(i)' = {}
          /\ \A i \in Index : \A x : InFlight(i) = {x} => \E y : InFlight(i)' = {y}
      BY <1>1, <1>5, CleanupKeeps
    <2>3. RequestsInv => RequestsInv'
      BY <1>1, <2>1, <2>2 DEF RequestsInv
    <2> QED BY <1>1, <1>2, <2>1, <2>2, <2>3 DEF LoadsInv
  <1> QED BY <1>3, <1>4, <1>5 DEF Library

--------------------------------------------------------------------------------
(* The invariant *)

\* As many places as requests, none of them twice: each is in one.
LEMMA InjectiveIsOnto ==
  ASSUME IsFiniteSet(Req), NEW f \in [1 .. Cardinality(Req) -> Req], IsInjective(f)
  PROVE  \A r \in Req : \E k \in 1 .. Cardinality(Req) : f[k] = r
  <1>1. Cardinality(Req) \in Nat
    BY FS_CardinalityType
  <1>2. /\ IsFiniteSet(1 .. Cardinality(Req))
        /\ Cardinality(1 .. Cardinality(Req)) = Cardinality(Req)
    <2>1. 1 \in Nat /\ Cardinality(Req) \in Nat
      BY <1>1
    <2> QED BY <2>1, FS_Interval
  <1>3. f \in Injection(1 .. Cardinality(Req), Req)
    BY DEF Injection, IsInjective
  <1>4. f \in Surjection(1 .. Cardinality(Req), Req)
    BY <1>2, <1>3, FS_SurjSameCardinalityImpliesInj, FS_Injection
  <1> QED BY <1>4 DEF Surjection

LEMMA InitInOrder ==
  ASSUME ResourceInit
  PROVE  InOrderInv
  <1>1. /\ freeWorks = SetToSeq(Req) /\ phase = [r \in Req |-> "free"]
        /\ info = [r \in Req |-> NoInfo]
        /\ pageQueue = <<>> /\ lost = {} /\ crashed = "no" /\ loading = {}
    BY DEF ResourceInit, AssetsInit
  <1>2. /\ freeWorks \in Seq(Req)
        /\ \A j, k \in 1 .. Len(freeWorks) : freeWorks[j] = freeWorks[k] => j = k
        /\ \A r \in Req : \E h \in 1 .. Len(freeWorks) : freeWorks[h] = r
    <2>1. PICK f \in Bijection(1 .. Cardinality(Req), Req) : TRUE
      BY AssetsAssumption, FS_CardinalityType DEF ExistsBijection
    <2>2. /\ f \in [1 .. Cardinality(Req) -> Req] /\ IsInjective(f)
          /\ IsFiniteSet(Req)
      BY <2>1, AssetsAssumption DEF Bijection, Injection, IsInjective
    <2>3. freeWorks \in [1 .. Cardinality(Req) -> Req] /\ IsInjective(freeWorks)
      BY <1>1, <2>2 DEF SetToSeq
    <2>6. \A r \in Req : \E k \in 1 .. Cardinality(Req) : freeWorks[k] = r
      BY <2>2, <2>3, InjectiveIsOnto
    <2>4. Cardinality(Req) \in Nat
      BY AssetsAssumption, FS_CardinalityType
    <2>5. freeWorks \in Seq(Req) /\ DOMAIN freeWorks = 1 .. Len(freeWorks)
      BY <2>3, <2>4, SeqDef, LenProperties
    <2> QED BY <2>3, <2>4, <2>5, <2>6 DEF IsInjective
  <1>3. AssetsInv
    <2>1. IsPages(pageQueue)
      BY <1>1, EmptySeq DEF IsPages
    <2>2. AssetsType
      BY <1>1, <1>2, <2>1 DEF AssetsType
    <2>3. FreeInv
      <3>1. \A k \in 1 .. Len(freeWorks) : phase[freeWorks[k]] = "free"
        BY <1>1, <1>2, ElementOfSeq
      <3>2. \A r \in Req : \E k \in 1 .. Len(freeWorks) : freeWorks[k] = r
        BY <1>2
      <3>3. \A j, k \in 1 .. Len(freeWorks) : freeWorks[j] = freeWorks[k] => j = k
        BY <1>2
      <3> QED BY <3>1, <3>2, <3>3, Zenon DEF FreeInv
    <2>4. PagedInv
      BY <1>1 DEF PagedInv, AtWork
    <2> QED BY <2>2, <2>3, <2>4 DEF AssetsInv
  <1>4. \A i : InFlight(i) = {}
    BY <1>1, EmptySeq DEF InFlight
  <1>5. RequestsInv
    BY <1>1, <1>4 DEF RequestsInv
  <1>6. ResourceInv
    <2>1. ResourceType
      <3>1. <<>> \in Seq(Name) /\ 0 \in 0 .. Cardinality(Name)
        BY ResourceAssumption, FS_CardinalityType
      <3> QED BY <3>1 DEF ResourceType, ResourceInit
    <2>2. Occupied = 0
      <3>1. {n \in Name : hashmap[n] # 0} = {}
        BY DEF ResourceInit
      <3> QED BY <3>1, FS_EmptySet DEF Occupied
    <2>3. SlotsInv
      BY <2>2 DEF SlotsInv, ResourceInit
    <2> QED BY <2>1, <2>3 DEF ResourceInv, ResourceInit
  <1> QED BY <1>1, <1>3, <1>5, <1>6 DEF InOrderInv, LoadsInv, CrashOnlyBeyondRoom

\* Calls are made, and requests go on, only until the program ends; calls, only until
\* resources were freed out of order.
LEMMA NextIs ==
  ASSUME ResourceNext
  PROVE  /\ crashed = "no" /\ (lastFirst' => lastFirst)
         /\ (\E r \in Req : RequestStep(r)) \/ lastFirst
  <1>1. ASSUME NEW n \in Name, LoadKnown(n) \/ LoadNew(n)
        PROVE  lastFirst /\ crashed = "no"
    BY <1>1 DEF LoadKnown, LoadNew, Calling
  <1>2. ASSUME NEW i \in Index, NEW n \in Name, refCountDecrease(i, n)
        PROVE  lastFirst /\ crashed = "no"
    BY <1>2 DEF refCountDecrease, Calling
  <1>3. ASSUME NEW r \in Req, RequestStep(r)
        PROVE  UNCHANGED lastFirst /\ crashed = "no"
    BY <1>3 DEF RequestStep, Library, InitialWork, AfterInitial, Read, CallNull, onCleanup, cb,
                CallBack, Unless, clientVars
  <1> QED BY <1>1, <1>2, <1>3 DEF ResourceNext

LEMMA NextKeepsInOrder ==
  ASSUME InOrderInv, [ResourceNext]_vars
  PROVE  InOrderInv'
  <1>1. CASE UNCHANGED vars
    <2>1. /\ UNCHANGED <<assetVars, resVars, clientVars>>
          /\ UNCHANGED <<assetVars, loading, crowded>> /\ UNCHANGED <<crashed, lastFirst, lost>>
      BY <1>1 DEF vars, assetVars, clientVars
    <2>2. LoadsInv => LoadsInv'
      BY <2>1, AssetsStay, ResourcesStay DEF LoadsInv
    <2> QED BY <2>1, <2>2, AssetsStay DEF InOrderInv, CrashOnlyBeyondRoom
  <1>2. ASSUME ResourceNext
        PROVE  InOrderInv'
    <2>1. /\ AssetsInv /\ CrashOnlyBeyondRoom /\ crashed = "no"
          /\ lastFirst => LoadsInv
          /\ lastFirst' => lastFirst
      BY <1>2, NextIs DEF InOrderInv
    <2>2. ASSUME NEW n \in Name, LoadKnown(n)
          PROVE  InOrderInv'
      <3>1. LoadsInv
        BY <2>1, <2>2 DEF LoadKnown, Calling
      <3> QED BY <2>1, <2>2, <3>1, LoadKnownKeeps, AssetsStay DEF InOrderInv
    <2>3. ASSUME NEW n \in Name, LoadNew(n)
          PROVE  InOrderInv'
      <3>1. LoadsInv
        BY <2>1, <2>3 DEF LoadNew, Calling
      <3>2. AssetsInv' /\ ((crashed' = "back" /\ crowded') \/ (crashed' = "no" /\ LoadsInv'))
        BY <2>1, <2>3, <3>1, LoadNewKeeps
      <3> QED BY <3>2 DEF InOrderInv, CrashOnlyBeyondRoom, AssetsInv, PagedInv
    <2>4. ASSUME NEW i \in Index, NEW n \in Name, refCountDecrease(i, n)
          PROVE  InOrderInv'
      <3>1. LoadsInv
        BY <2>1, <2>4 DEF refCountDecrease, Calling
      <3>2. UNCHANGED <<assetVars, loading, crowded>>
        BY <2>4 DEF refCountDecrease, Refuse
      <3>3. AssetsInv' /\ CrashOnlyBeyondRoom'
        BY <2>1, <3>2, AssetsStay
      <3>4. lastFirst' => LoadsInv'
        BY <2>4, <3>1, DecreaseKeeps
      <3> QED BY <3>3, <3>4 DEF InOrderInv
    <2>5. ASSUME NEW r \in Req, RequestStep(r)
          PROVE  InOrderInv'
      <3>1. CASE Library(r)
        BY <2>1, <3>1, LibraryKeeps DEF InOrderInv, CrashOnlyBeyondRoom
      <3>2. CASE cb(r)
        <4>1. UNCHANGED crowded /\ UNCHANGED lost /\ UNCHANGED lastFirst
          BY <3>2 DEF cb, CallBack, clientVars
        <4>2. AssetsInv'
          BY <2>1, <3>2, <4>1, CallBackKeeps DEF cb
        <4>3. CASE lastFirst
          <5>1. LoadsInv' /\ UNCHANGED crashed
            BY <2>1, <3>2, <4>3, cbKeeps
          <5> QED BY <2>1, <4>1, <4>2, <5>1 DEF InOrderInv, CrashOnlyBeyondRoom
        <4>4. CASE ~lastFirst
          <5>1. crashed' \in {"no", "callback"}
            BY <2>1, <3>2 DEF cb
          <5> QED BY <2>1, <4>1, <4>2, <4>4, <5>1 DEF InOrderInv, CrashOnlyBeyondRoom
        <4> QED BY <4>3, <4>4
      <3> QED BY <2>5, <3>1, <3>2 DEF RequestStep
    <2> QED BY <1>2, <2>2, <2>3, <2>4, <2>5 DEF ResourceNext
  <1> QED BY <1>1, <1>2

LEMMA AlwaysInOrder == ResourceSpec => []InOrderInv
  <1>1. ResourceInit => InOrderInv
    BY InitInOrder
  <1>2. InOrderInv /\ [ResourceNext]_vars => InOrderInv'
    BY NextKeepsInOrder
  <1> QED BY <1>1, <1>2, PTL DEF ResourceSpec

\* However requests and pages are handed on, each load in progress has a waiter and one
\* request, at work or in a page, unless it was written where no page is.
THEOREM EachLoadHasItsRequest == ResourceSpec => []NoRequestLost
  <1>1. InOrderInv => NoRequestLost
    <2> SUFFICES ASSUME LoadsInv, NEW i \in Index
                 PROVE  /\ Cardinality(InFlight(i)) = IF i \in loading \ lost THEN 1 ELSE 0
                        /\ waiters[i] # <<>> <=> i \in loading
      BY DEF InOrderInv, NoRequestLost
    <2>1. Cardinality(InFlight(i)) = IF i \in loading \ lost THEN 1 ELSE 0
      BY FS_Singleton, FS_EmptySet DEF LoadsInv, RequestsInv
    <2>2. waiters[i] # <<>> <=> i \in loading
      <3>1. waiters[i] = IF i \in loading THEN <<hash[i]>> ELSE <<>>
        BY DEF LoadsInv, ResourceInv, SlotsInv
      <3>2. <<hash[i]>> # <<>>
        OBVIOUS
      <3> QED BY <3>1, <3>2
    <2> QED BY <2>1, <2>2
  <1> QED BY <1>1, AlwaysInOrder, PTL

\* A reference that is held is counted and leads to its resource, and no call with it is
\* refused, while resources are freed last first.
THEOREM HeldReferencesResolve == ResourceSpec => []HandlesResolve
  <1>1. InOrderInv => HandlesResolve
    <2> SUFFICES ASSUME LoadsInv
                 PROVE  /\ ~refused
                        /\ \A i \in Index, n \in Name :
                             held[i][n] > 0 => InRange(i) /\ hashmap[n] = i
                        /\ \A n \in Name : LET i == hashmap[n] IN
                             i # 0 =>
                               refCounts[i] = held[i][n] + (IF i \in loading THEN 1 ELSE 0)
      BY DEF InOrderInv, HandlesResolve
    <2> QED BY DEF LoadsInv, ResourceInv, SlotsInv, InRange
  <1> QED BY <1>1, AlwaysInOrder, PTL

\* While resources are freed last first no callback meets a slot other than its load left
\* it, however many loads wait in pages; and no load is lost, and the program is not ended
\* by a page, before a load came while every request was in use.
THEOREM CrashNeedsCrowd == ResourceSpec => []CrashOnlyBeyondRoom
  <1>1. InOrderInv => CrashOnlyBeyondRoom
    BY DEF InOrderInv
  <1> QED BY <1>1, AlwaysInOrder, PTL
================================================================================
