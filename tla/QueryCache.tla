------------------------------ MODULE QueryCache ------------------------------
(***************************************************************************)
(* EntityQueryManager: queries, the archetypes each of them matches, and   *)
(* the cache of matching chunks that jobs iterate over.                    *)
(*                                                                         *)
(* The engine thread passes through stages: the systems run and change     *)
(* what they like ("systems"), then new archetypes are given to the        *)
(* queries and the change list is cleaned, which invalidates the caches of *)
(* the archetypes that changed ("clean"), then jobs are scheduled, and     *)
(* scheduling one brings its query's cache up to date ("jobs").            *)
(*                                                                         *)
(* An archetype is its set of component types, as typeLookup never holds   *)
(* two of the same types.  A type is a number, in the order of TypeID;     *)
(* every archetype has the type Entity, its least.                         *)
(*                                                                         *)
(* An archetype's entityCount is positive exactly while it has chunks: a   *)
(* chunk is created to put entities into and released with its last one.   *)
(***************************************************************************)
EXTENDS ChangeList, SequencesExt

CONSTANTS
  Query,       \* the queries systems make: [all, any, none], sets of types
  Chunk,       \* the chunks there can be
  MaxQueries   \* bound: queries made

\* A query asks for some type: createEntityQuery throws for one that only excludes types,
\* and for one that names a type twice, after it has begun an entry for it.
TypeSets == {types \in SUBSET Nat : IsFiniteSet(types)}

ASSUME QueryAssumption ==
  /\ Archetype \subseteq TypeSets
  /\ Query \subseteq [all : TypeSets, any : TypeSets, none : TypeSets]
  /\ \A query \in Query : query.all \cup query.any # {}

VARIABLES
  archetypes,              \* in the order of creation
  previousArchetypeCount,
  chunks,                  \* per archetype: its chunk list
  entityQueryDatas,        \* the queries made; their number is their ID
  stage

queryVars == <<archetypes, previousArchetypeCount, chunks, entityQueryDatas, stage>>
vars == <<listVars, queryVars>>

QueryID == DOMAIN entityQueryDatas

\* TypeQuery arrays and archetypes hold their types sorted.
Sorted(types) ==
  CHOOSE s \in [1 .. Cardinality(types) -> types] :
    \A i, k \in DOMAIN s : i < k => s[i] < s[k]

--------------------------------------------------------------------------------
(* testMatchingArchetype...Component: one walk along two sorted arrays.  a is  *)
(* the archetype's, q the query's, which is not empty.                         *)

\* Every type of q is in a.
Required(a, q) ==
  LET walk[at \in (1 .. Len(a) + 1) \X (1 .. Len(q))] ==
        LET i == at[1]
            k == at[2]
        IN IF i > Len(a) THEN FALSE
           ELSE IF a[i] = q[k] THEN k = Len(q) \/ walk[<<i + 1, k + 1>>]
           ELSE a[i] < q[k] /\ walk[<<i + 1, k>>]
  IN walk[<<1, 1>>]

\* Some type of q is in a.
Common(a, q) ==
  LET walk[at \in (1 .. Len(a) + 1) \X (1 .. Len(q))] ==
        LET i == at[1]
            k == at[2]
        IN IF i > Len(a) THEN FALSE
           ELSE IF a[i] > q[k] THEN k < Len(q) /\ walk[<<i, k + 1>>]
           ELSE a[i] = q[k] \/ walk[<<i + 1, k>>]
  IN walk[<<1, 1>>]

testMatchingArchetypeRequiredComponent(a, q) == q = <<>> \/ Required(a, q)
testMatchingArchetypeOptionalComponent(a, q) == q = <<>> \/ Common(a, q)
testMatchingArchetypeExcludedComponent(a, q) == q = <<>> \/ ~Common(a, q)

Matching(archetype, query) ==
  LET a == Sorted(archetype) IN
  /\ testMatchingArchetypeRequiredComponent(a, Sorted(query.all))
  /\ testMatchingArchetypeOptionalComponent(a, Sorted(query.any))
  /\ testMatchingArchetypeExcludedComponent(a, Sorted(query.none))

--------------------------------------------------------------------------------
(* typesIndex: where a job finds the components of the query in the archetype  *)

Unset    == -2  \* what was in the memory before
NotFound == -1
Throws   == -3

\* getNextIndexInTypeArray(type, last): throws for a last beyond the array;
\* the index it returns is counted from the end of the array.
NextIndex(a, type, last) ==
  IF last \notin 0 .. Len(a) - 1 THEN Throws
  ELSE IF \E i \in last + 1 .. Len(a) : a[i] = type
    THEN Len(a) - (CHOOSE i \in last + 1 .. Len(a) : a[i] = type) + 1
    ELSE NotFound

\* The indices of the required types, each searched from the index of the one
\* before; NotFound throws "type unexpectedly not found".
RequiredIndices(a, q) ==
  LET found[k \in 0 .. Len(q)] ==
        IF k = 0 THEN 0
        ELSE IF found[k - 1] < 0 THEN Throws ELSE NextIndex(a, q[k], found[k - 1])
  IN [k \in 1 .. Len(q) |-> found[k]]

\* The indices of the first n optional types.
OptionalIndices(a, q, n) ==
  LET last[k \in 0 .. n] ==
        IF k = 0 THEN 0
        ELSE LET i == NextIndex(a, q[k], last[k - 1])
             IN IF i >= 0 THEN i ELSE last[k - 1]
  IN [k \in 1 .. n |-> NextIndex(a, q[k], last[k - 1])]

\* The loop over the optional types runs from firstAnyIndex to anyCount.
OptionalTypesIndexed(query) ==
  LET all == Cardinality(query.all)
      any == Cardinality(query.any)
  IN IF all < any THEN any - all ELSE 0

\* By type; the code has the number under which the query was given the type.
TypesIndex(archetype, query) ==
  LET a   == Sorted(archetype)
      all == Sorted(query.all)
      any == Sorted(query.any)
      n   == OptionalTypesIndexed(query)
      requiredAt == RequiredIndices(a, all)
      optionalAt == OptionalIndices(a, any, n)
  IN [type \in query.all \cup query.any |->
        IF type \in query.all
          THEN requiredAt[CHOOSE k \in DOMAIN all : all[k] = type]
          ELSE LET k == CHOOSE i \in DOMAIN any : any[i] = type
               IN IF k <= n THEN optionalAt[k] ELSE Unset]

--------------------------------------------------------------------------------
(* EntityQueryManager *)

\* archetype->queryMask.test(query.ID)
InMask(data, archetype) == archetype \in Range(data.archetypes)

\* addArchetypeIfMatching.  When it throws, the archetype is already registered.
WithArchetype(data, archetype) ==
  IF ~Matching(archetype, data.query) \/ InMask(data, archetype) THEN data
  ELSE [data EXCEPT !.archetypes = Append(@, archetype),
                    !.typesIndex = Append(@, TypesIndex(archetype, data.query)),
                    !.validCache = FALSE]

WithArchetypes(data, list) ==
  LET with[n \in 0 .. Len(list)] ==
        IF n = 0 THEN data ELSE WithArchetype(with[n - 1], list[n])
  IN with[Len(list)]

\* addArchetypeIfMatching throws: a required type was looked up in vain, or a
\* type was looked up from beyond the array.
Fails(archetype, query) ==
  Matching(archetype, query) /\
  LET index == TypesIndex(archetype, query) IN
  \E type \in DOMAIN index :
    index[type] = Throws \/ (type \in query.all /\ index[type] = NotFound)

\* createEntityQuery.  When it throws its caller gets no query, while the one
\* begun stays, with the archetypes it has got so far.
createEntityQuery(query) ==
  LET failing == {k \in DOMAIN archetypes : Fails(archetypes[k], query)}
      tried == {k \in DOMAIN archetypes : \A f \in failing : k <= f}
      data == [query |-> query, archetypes |-> <<>>, typesIndex |-> <<>>,
               cache |-> <<>>, validCache |-> FALSE, returned |-> failing = {}]
  IN /\ stage = "systems"
     /\ Len(entityQueryDatas) < MaxQueries
     /\ entityQueryDatas' = Append(entityQueryDatas,
          WithArchetypes(data, SubSeq(archetypes, 1, Cardinality(tried))))
     /\ UNCHANGED <<listVars, archetypes, previousArchetypeCount, chunks, stage>>

NewArchetypes ==
  SubSeq(archetypes, previousArchetypeCount + 1, Len(archetypes))

\* updateNewArchetypes, then the first step of cleanChangeList.  Nobody catches
\* what updateNewArchetypes throws: the process ends.
updateNewArchetypes ==
  /\ stage = "systems"
  /\ IF \E id \in QueryID, a \in Range(NewArchetypes) :
          Fails(a, entityQueryDatas[id].query) /\ ~InMask(entityQueryDatas[id], a)
       THEN /\ stage' = "terminated"
            /\ UNCHANGED <<listVars, previousArchetypeCount, entityQueryDatas>>
       ELSE /\ entityQueryDatas' =
                 [id \in QueryID |-> WithArchetypes(entityQueryDatas[id], NewArchetypes)]
            /\ previousArchetypeCount' = Len(archetypes)
            /\ BeginClean
            /\ stage' = "clean"
  /\ UNCHANGED <<archetypes, chunks>>

\* Mutant of Invalidated: only the newest query of the archetype is told.
InvalidatedLast(a) ==
  [id \in QueryID |->
     IF InMask(entityQueryDatas[id], a)
          /\ \A k \in QueryID : InMask(entityQueryDatas[k], a) => k <= id
       THEN [entityQueryDatas[id] EXCEPT !.validCache = FALSE]
       ELSE entityQueryDatas[id]]

\* invalidateCache for all of archetype->matchingQueryData.
Invalidated(a) ==
  [id \in QueryID |->
     IF InMask(entityQueryDatas[id], a)
       THEN [entityQueryDatas[id] EXCEPT !.validCache = FALSE]
       ELSE entityQueryDatas[id]]

cleanChangeList ==
  /\ stage = "clean"
  /\ \/ \E a \in Archetype :
          /\ Visit(a)
          /\ entityQueryDatas' = Invalidated(a)
          /\ UNCHANGED stage
     \/ EndClean /\ stage' = "jobs" /\ UNCHANGED entityQueryDatas
  /\ UNCHANGED <<archetypes, previousArchetypeCount, chunks>>

\* rebuildMatchingChunkCache: each chunk with the number of its archetype, the
\* last archetype's chunks first.
Rebuilt(data) ==
  LET entries(k) == [c \in DOMAIN chunks[data.archetypes[k]] |->
                       [value |-> chunks[data.archetypes[k]][c], archetypeIndex |-> k]]
      upTo[n \in 0 .. Len(data.archetypes)] ==
        IF n = 0 THEN <<>> ELSE entries(n) \o upTo[n - 1]
  IN upTo[Len(data.archetypes)]

\* EntityQueryImpl::getData, called by a system or to schedule a job.
getData(id) ==
  /\ stage \in {"systems", "jobs"}
  /\ entityQueryDatas[id].returned
  /\ ~entityQueryDatas[id].validCache
  /\ entityQueryDatas' =
       [entityQueryDatas EXCEPT ![id].cache = Rebuilt(entityQueryDatas[id]),
                                ![id].validCache = TRUE]
  /\ UNCHANGED <<listVars, archetypes, previousArchetypeCount, chunks, stage>>

--------------------------------------------------------------------------------
(* The systems *)

getOrCreateArchetype(types) ==
  /\ stage = "systems"
  /\ types \notin Range(archetypes)
  /\ archetypes' = Append(archetypes, types)
  /\ UNCHANGED <<listVars, previousArchetypeCount, chunks, entityQueryDatas, stage>>

\* Entities are created that need a new chunk.
addToChunkList(a, c) ==
  /\ stage = "systems"
  /\ a \in Range(archetypes)
  /\ \A b \in Archetype : c \notin Range(chunks[b])
  /\ chunks' = [chunks EXCEPT ![a] = Append(@, c)]
  /\ trackArchetype(a)
  /\ UNCHANGED <<archetypes, previousArchetypeCount, entityQueryDatas, stage>>

\* removeAtSwapBack: the last one takes the place of the one removed.
SwapBack(list, i) ==
  [k \in 1 .. Len(list) - 1 |-> IF k = i THEN Last(list) ELSE list[k]]

\* The last entity of a chunk is destroyed or moved elsewhere.
removeFromChunkList(a, i) ==
  /\ stage = "systems"
  /\ chunks' = [chunks EXCEPT ![a] = SwapBack(@, i)]
  /\ trackArchetype(a)
  /\ UNCHANGED <<archetypes, previousArchetypeCount, entityQueryDatas, stage>>

\* The round of jobs is over.
NextPass ==
  /\ stage = "jobs"
  /\ stage' = "systems"
  /\ UNCHANGED <<listVars, archetypes, previousArchetypeCount, chunks,
                 entityQueryDatas>>

--------------------------------------------------------------------------------
Init ==
  /\ ListInit
  /\ archetypes = <<>>
  /\ previousArchetypeCount = 0
  /\ chunks = [a \in Archetype |-> <<>>]
  /\ entityQueryDatas = <<>>
  /\ stage = "systems"

Next ==
  \/ \E types \in Archetype : getOrCreateArchetype(types)
  \/ \E a \in Archetype, c \in Chunk : addToChunkList(a, c)
  \/ \E a \in Archetype : \E i \in DOMAIN chunks[a] : removeFromChunkList(a, i)
  \/ \E query \in Query : createEntityQuery(query)
  \/ \E id \in QueryID : getData(id)
  \/ updateNewArchetypes \/ cleanChangeList \/ NextPass

Spec == Init /\ [][Next]_vars

\* The loop of cleanChangeList is run to its end.
FairSpec == Spec /\ WF_vars(cleanChangeList)

--------------------------------------------------------------------------------
(* Correctness *)

\* What a query asks for, in terms of sets.
Asked(query, archetype) ==
  /\ query.all \subseteq archetype
  /\ query.any = {} \/ query.any \cap archetype # {}
  /\ query.none \cap archetype = {}

\* The chunks a job for the query should be given.
Expected(query) ==
  UNION {Range(chunks[a]) : a \in {b \in Range(archetypes) : Asked(query, b)}}

\* The cache lists each of them once, under the archetype it belongs to.
Exact(data) ==
  /\ IsInjective(data.cache)
  /\ {data.cache[k].value : k \in DOMAIN data.cache} = Expected(data.query)
  /\ \A k \in DOMAIN data.cache : LET entry == data.cache[k] IN
       entry.value \in Range(chunks[data.archetypes[entry.archetypeIndex]])

\* The types of the variables; a chunk is in one place of one chunk list, and an
\* archetype is registered with a query once, with an index for its types.
QueryTypeOK ==
  /\ ListTypeOK
  /\ archetypes \in Seq(Archetype) /\ IsInjective(archetypes)
  /\ previousArchetypeCount \in 0 .. Len(archetypes)
  /\ DOMAIN chunks = Archetype
  /\ \A a, b \in Archetype :
       /\ Range(chunks[a]) \subseteq Chunk /\ IsInjective(chunks[a])
       /\ a # b => Range(chunks[a]) \cap Range(chunks[b]) = {}
  /\ \A id \in QueryID : LET data == entityQueryDatas[id] IN
       /\ data.query \in Query
       /\ Range(data.archetypes) \subseteq Range(archetypes)
       /\ IsInjective(data.archetypes)
       /\ DOMAIN data.typesIndex = DOMAIN data.archetypes
       /\ \A k \in DOMAIN data.cache :
            data.cache[k].archetypeIndex \in DOMAIN data.archetypes
  /\ stage \in {"systems", "clean", "jobs", "terminated"}
  /\ cleaning = (stage = "clean")

\* When jobs are scheduled a valid cache holds exactly the chunks of the
\* archetypes that match, whatever archetypes, chunks and queries came and went
\* since it was built, and in whatever order.
CacheExact ==
  stage = "jobs" =>
    \A id \in QueryID : LET data == entityQueryDatas[id] IN
      data.returned /\ data.validCache => Exact(data)

\* A valid cache that is out of date is so because of an archetype that
\* updateNewArchetypes or cleanChangeList is going to come to.
StaleIsTracked ==
  stage = "systems" =>
    \A id \in QueryID : LET data == entityQueryDatas[id] IN
      data.returned /\ data.validCache /\ ~Exact(data) =>
        \/ \E a \in Range(data.archetypes) : a \in Reachable(head)
        \/ \E a \in Range(NewArchetypes) : Asked(data.query, a)

\* The caches are kept, before and after each clean-up.
CachesKept == QueryTypeOK /\ StaleIsTracked /\ CacheExact

\* "type unexpectedly not found": an archetype that matches a query has the types
\* the query requires, so that looking them up never ends the process.  (Not
\* what the code does.)
TypesAreFound == stage # "terminated"
================================================================================
