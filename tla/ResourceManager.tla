---------------------------- MODULE ResourceManager ----------------------------
(***************************************************************************)
(* The resources of one type, loaded through AssetsManager by a client as  *)
(* in test-v2/test-7.cpp: Load opens the entry, its callback records the   *)
(* outcome, tells the waiters, who take a reference each, and gives up the *)
(* reference of the loader.                                                *)
(***************************************************************************)
EXTENDS AssetsManager

CONSTANTS
  Name,      \* what clients load
  MaxHeld    \* bound: references held to one resource

ASSUME ResourceAssumption == IsFiniteSet(Name) /\ MaxHeld \in Nat

Index == 1 .. Cardinality(Name)   \* 0 is no resource

VARIABLES
  hashmap,    \* per name: the index of its resource, or 0
  rstate,     \* per index: task.state, "Loaded" or "Failed"; never "Loading"
  hash,       \* per index: task.hash
  resIndex,   \* per index: task.res.index
  waiters,    \* per index: task.waiters, by the name they wait for
  refCounts,
  freeIndex,
  loading,    \* indices whose loader has still to be called back
  held,       \* per index and name: references clients hold
  refused,    \* history: a call with a reference held, or a load, threw
  lastFirst,  \* history: resources were freed in the reverse order of their indices
  crowded     \* history: a load came while every request was in use

resVars == <<hashmap, rstate, hash, resIndex, waiters, refCounts, freeIndex>>
clientVars == <<loading, held, refused, lastFirst, crowded>>
vars == <<assetVars, resVars, clientVars>>

\* The constructor links the requests in some order, on which nothing depends.
ResourceInit ==
  /\ AssetsInit(SetToSeq(Req))
  /\ hashmap = [n \in Name |-> 0]
  /\ rstate = [i \in Index |-> "Loaded"] /\ hash = [i \in Index |-> "none"]
  /\ resIndex = [i \in Index |-> 0] /\ waiters = [i \in Index |-> <<>>]
  /\ refCounts = [i \in Index |-> 0] /\ freeIndex = 0
  /\ loading = {} /\ held = [i \in Index |-> [n \in Name |-> 0]]
  /\ refused = FALSE /\ lastFirst = TRUE /\ crowded = FALSE

\* Bound: clients make no more calls once one was refused, or once a resource was freed
\* while a later one lived.
Calling == lastFirst /\ ~refused /\ crashed = "no"

Occupied == Cardinality({n \in Name : hashmap[n] # 0})

\* The check of getResource, getRefCount and getValue.
InRange(i) == i \in 1 .. Occupied

Refuse == refused' = TRUE /\ UNCHANGED <<assetVars, resVars, loading, held, lastFirst, crowded>>

\* loadResource of a name the map has: its waiter is called at once, with the resource,
\* of which it takes a reference, or, after a load that failed, with resource 0, for which
\* refCountIncrease throws.  Only the first is a refusal: nothing was loaded there.
LoadKnown(n) ==
  /\ Calling /\ hashmap[n] # 0
  /\ LET i == hashmap[n]
         k == IF rstate[i] = "Failed" THEN 0 ELSE resIndex[i] IN
     IF ~InRange(i) THEN Refuse
     ELSE IF k = 0 THEN UNCHANGED vars
     ELSE IF ~InRange(k) \/ refCounts[k] = 0 THEN Refuse
     ELSE /\ held[k][n] < MaxHeld
          /\ refCounts' = [refCounts EXCEPT ![k] = @ + 1]
          /\ held' = [held EXCEPT ![k][n] = @ + 1]
          /\ UNCHANGED <<assetVars, hashmap, rstate, hash, resIndex, waiters, freeIndex,
                         loading, refused, lastFirst, crowded>>

\* allocateResource; the state of the slot stays what it was.
NewIndex == IF freeIndex # 0 THEN freeIndex ELSE Occupied + 1

\* loadResource of a name the map does not have: Load opens the entry.
LoadNew(n) ==
  /\ Calling /\ hashmap[n] = 0
  /\ LET i == NewIndex IN
     /\ hashmap' = [hashmap EXCEPT ![n] = i]
     /\ freeIndex' = IF freeIndex # 0 THEN resIndex[i] ELSE 0
     /\ refCounts' = [refCounts EXCEPT ![i] = 1]
     /\ resIndex' = [resIndex EXCEPT ![i] = i]
     /\ hash' = [hash EXCEPT ![i] = n]
     /\ waiters' = [waiters EXCEPT ![i] = Append(@, n)]
     /\ loading' = loading \cup {i}
     /\ open([ctx |-> i, entry |-> n])
     /\ crowded' = (crowded \/ \A r \in Req : phase[r] # "free")
  /\ UNCHANGED <<rstate, held, refused, lastFirst>>

\* freeResource, which reads the free index back from where it has just stored it.  The
\* hash nobody reads again is forgotten.
freeResource(i) ==
  /\ hashmap' = [hashmap EXCEPT ![hash[i]] = 0]
  /\ resIndex' = [resIndex EXCEPT ![i] = freeIndex]
  /\ freeIndex' = resIndex'[i]
  /\ hash' = [hash EXCEPT ![i] = "none"]
  /\ waiters' = [waiters EXCEPT ![i] = <<>>]
  /\ lastFirst' = (lastFirst /\ i = Occupied)

\* refCountDecrease by a client that holds a reference; Free is called with the last one,
\* and remove throws if the map has lost the name.
refCountDecrease(i, n) ==
  /\ Calling /\ held[i][n] > 0
  /\ IF ~InRange(i) \/ refCounts[i] = 0 \/ (refCounts[i] = 1 /\ hashmap[hash[i]] = 0)
       THEN Refuse
       ELSE /\ refCounts' = [refCounts EXCEPT ![i] = @ - 1]
            /\ held' = [held EXCEPT ![i][n] = @ - 1]
            /\ IF refCounts[i] = 1
                 THEN freeResource(i)
                 ELSE UNCHANGED <<hashmap, resIndex, freeIndex, hash, waiters, lastFirst>>
            /\ UNCHANGED <<assetVars, rstate, loading, refused, crowded>>

\* Mutant of Told: the loader gives up its reference before anyone takes one, and tells
\* nobody.
ToldNobody(i) ==
  /\ refCounts' = [refCounts EXCEPT ![resIndex[i]] = @ - 1]
  /\ waiters' = [waiters EXCEPT ![i] = <<>>]
  /\ UNCHANGED held

\* The waiters of task i take a reference each; then the loader gives up its own.
Told(i) ==
  LET k == resIndex[i] IN
  /\ held' = [held EXCEPT ![k] =
                [n \in Name |-> @[n] + Cardinality({w \in DOMAIN waiters[i] : waiters[i][w] = n})]]
  /\ refCounts' = [refCounts EXCEPT ![k] = @ + Len(waiters[i]) - 1]
  /\ waiters' = [waiters EXCEPT ![i] = <<>>]

\* cb of the client, called by AssetsManager.  An exception out of it ends the program.
cb(r) ==
  /\ CallBack(r)
  /\ LET i == info[r].ctx IN
     IF InRange(resIndex[i]) /\ refCounts[resIndex[i]] > 0 /\ waiters[i] # <<>>
       THEN /\ rstate' = [rstate EXCEPT ![i] = IF phase[r] = "read" THEN "Loaded" ELSE "Failed"]
            /\ Told(i)
            /\ loading' = loading \ {i}
            /\ UNCHANGED <<crashed, hashmap, hash, resIndex, freeIndex, refused, lastFirst,
                           crowded>>
       ELSE crashed' = "callback" /\ UNCHANGED <<resVars, clientVars>>

Library(r) ==
  /\ InitialWork(r) \/ AfterInitial(r) \/ Read(r) \/ CallNull(r) \/ onCleanup(r)
  /\ UNCHANGED <<resVars, clientVars>>

RequestStep(r) == Library(r) \/ cb(r)

ResourceNext ==
  \/ \E n \in Name : LoadKnown(n) \/ LoadNew(n)
  \/ \E i \in Index, n \in Name : refCountDecrease(i, n)
  \/ \E r \in Req : RequestStep(r)

ResourceSpec == ResourceInit /\ [][ResourceNext]_vars

\* The workers run, clients return from their callbacks, and the loop reports what is
\* finished in the order in which it was (WorkQueue): no request is passed over for ever.
ResourceFairSpec == ResourceSpec /\ \A r \in Req : SF_vars(RequestStep(r))

--------------------------------------------------------------------------------
(* Correctness. *)

\* Every load that has not been called back has its waiter and is the business of one
\* request, at work or in a page, unless its info was written where no page is; no request
\* serves two loads or none.
NoRequestLost ==
  lastFirst /\ crashed = "no" =>
    \A i \in Index :
      /\ Cardinality(InFlight(i)) = IF i \in loading \ lost THEN 1 ELSE 0
      /\ waiters[i] # <<>> <=> i \in loading

\* As long as resources are freed last first, a callback finds the slot of its load as it
\* left it, whatever became of pages and requests; and as long as no load comes while all
\* requests are in use, none is lost and the program is not ended by a page either.
CrashOnlyBeyondRoom ==
  /\ crashed = "callback" => ~lastFirst
  /\ crashed \in {"back", "null"} \/ lost # {} => crowded

\* As long as resources are freed last first, a reference that is held leads to the
\* resource it was taken for and is counted, and no call with it throws.
HandlesResolve ==
  lastFirst /\ crashed = "no" =>
    /\ ~refused
    /\ \A i \in Index, n \in Name : held[i][n] > 0 => InRange(i) /\ hashmap[n] = i
    /\ \A n \in Name : LET i == hashmap[n] IN
         i # 0 => refCounts[i] = held[i][n] + (IF i \in loading THEN 1 ELSE 0)

\* Every load is answered, unless its info was written where no page is or the program
\* ends.
LoadsAnswered ==
  \A i \in Index : i \in loading \ lost ~> i \notin loading \/ crashed # "no"
================================================================================
