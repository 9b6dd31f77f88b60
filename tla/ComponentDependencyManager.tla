---------------------- MODULE ComponentDependencyManager ----------------------
(***************************************************************************)
(* How queue_jobs turns the engine's schedule queue into jobs:             *)
(* JobChunkWrapperBase::schedule and scheduleParallel ask the              *)
(* ComponentDependencyManager which earlier jobs the query must wait for,  *)
(* schedule the job, and record it as reader or writer of its components.  *)
(* The rest of a round is JobPool's.                                       *)
(*                                                                         *)
(* A query is the sequence of its component accesses, with the number of   *)
(* chunks it matches.  Its components are distinct, as a query built from  *)
(* an EntityQueryBuilder names each of them once.  A query that matches no *)
(* chunk is left out: schedule throws for it, on a worker, which ends the  *)
(* process.                                                                *)
(***************************************************************************)
EXTENDS JobPool, SequencesExt

CONSTANTS
  Query,                \* the queries the systems schedule jobs for
  MaximumReadJobHandle  \* readers remembered per component (16 in the code)

Access(q) == {q.access[i] : i \in DOMAIN q.access}

ASSUME CDMAssumption ==
  /\ MaximumReadJobHandle \in Nat \ {0, 1}
  /\ \A q \in Query :
       /\ q.access \in Seq(Access(q)) /\ \A a \in Access(q) : a.write \in BOOLEAN
       /\ q.chunks \in 1 .. MaxBatches

Reads(q)  == {a.type : a \in {b \in Access(q) : ~b.write}}
Writes(q) == {a.type : a \in {b \in Access(q) : b.write}}

VARIABLES
  fences,   \* dependencyHandles and readJobFences of the components registered
  context   \* per job of the round: the query it was scheduled for

cdmVars == <<fences, context>>

CDMInit == Init /\ fences = <<>> /\ context = <<>>

\* The handles getDependency collects for one access.
HandlesFor(access) ==
  IF access.type \notin DOMAIN fences THEN <<>>
  ELSE LET fence == fences[access.type] IN
       <<fence.write>> \o IF access.write THEN Reverse(fence.reads) ELSE <<>>

\* FlattenSeq of the community modules, as a function the proofs can unfold.
Concatenated(seqs) ==
  LET upTo[n \in 0 .. Len(seqs)] == IF n = 0 THEN <<>> ELSE upTo[n - 1] \o seqs[n]
  IN upTo[Len(seqs)]

GetDependency(q) ==
  CombineDependencies(jobs,
    Concatenated([i \in DOMAIN q.access |-> HandlesFor(q.access[i])]))

\* getTypeArrayIndex: a component's fences, made when it has none yet.
Fences(type) ==
  IF type \in DOMAIN fences THEN fences[type] ELSE [write |-> NoJob, reads |-> <<>>]

\* Mutant of AddReader: the list of readers is never cut down.
AddReaderOnly(reads, handle) == Append(reads, handle)

\* A full list of readers is cut down by combineReadDependencies.
AddReader(reads, handle) ==
  IF Len(reads) + 1 = MaximumReadJobHandle
    THEN <<CombineDependencies(jobs', Append(reads, handle))>>
    ELSE Append(reads, handle)

\* Mutant of WriteFence: the first writer stays.
WriteFenceKept(old, handle) == IF old = NoJob THEN handle ELSE old

\* The component's last writer becomes the job just scheduled.
WriteFence(old, handle) == handle

AddDependency(handle, q) ==
  fences' = [type \in DOMAIN fences \cup Reads(q) \cup Writes(q) |->
    IF type \in Writes(q)
      THEN [Fences(type) EXCEPT !.write = WriteFence(@, handle)]
      ELSE IF type \in Reads(q)
      THEN [Fences(type) EXCEPT !.reads = AddReader(@, handle)]
      ELSE fences[type]]

\* JobChunkWrapperBase::schedule: all chunks in one batch.  scheduleParallel:
\* a batch per chunk.
ScheduleQuery(q, parallel) ==
  /\ Schedule(GetDependency(q), IF parallel THEN q.chunks ELSE 1)
  /\ AddDependency(Len(jobs) + 1, q)
  /\ context' = Append(context, q)

\* ComponentDependencyManager::clear
Clear == fences' = <<>>

\* The first half of queue_jobs(uv__work* ), before its loop over the queue.
BeginQueue == BeginRound /\ Clear /\ context' = <<>>

--------------------------------------------------------------------------------
\* Any client that schedules queries in any order.
CDMClient ==
  \/ (\E n \in 1 .. MaxJobs : SubmitQueue(n)) /\ UNCHANGED cdmVars
  \/ BeginQueue
  \/ \E q \in Query, parallel \in BOOLEAN : ScheduleQuery(q, parallel)
  \/ PrepareJobs /\ UNCHANGED cdmVars

CDMNext ==
  \/ CDMClient
  \/ (LoopStep \/ \E w \in Worker : WorkStep(w)) /\ UNCHANGED cdmVars

CDMSpec == CDMInit /\ [][CDMNext]_<<poolVars, cdmVars>>

--------------------------------------------------------------------------------
(* Correctness *)

\* A handle that a fence hands to combineDependencies names a job of this
\* round: nothing of an earlier round is looked up in the arrays rewritten
\* since.
FencesOfThisRound ==
  stage \in {"queueing", "prepared", "working"} =>
    \A type \in DOMAIN fences :
      /\ fences[type].write \in {NoJob} \cup DOMAIN jobs
      /\ \A i \in DOMAIN fences[type].reads :
           fences[type].reads[i] \in {NoJob} \cup DOMAIN jobs

\* readJobFences has MaximumReadJobHandle places per component: there is always
\* one for the next reader, whatever the queries before it.
ReadersFit ==
  \A type \in DOMAIN fences : Len(fences[type].reads) < MaximumReadJobHandle

\* While jobs are being queued the write fence of a component is the last of
\* them that writes it, however many readers and writers there were.
WriteFenceIsLastWriter ==
  stage = "queueing" =>
    \A h \in DOMAIN jobs : \A type \in Writes(context[h]) :
      /\ fences[type].write >= h
      /\ type \in Writes(context[fences[type].write])

\* Two queries that may not run side by side.
Conflict(p, q) ==
  \/ Writes(p) \cap (Reads(q) \cup Writes(q)) # {}
  \/ Writes(q) \cap (Reads(p) \cup Writes(p)) # {}

\* What the dependencies are there for: a job never runs beside another one
\* that writes what it accesses.  (Not what the code does.)
ConflictsSerialised ==
  \A v, w \in Worker :
    wpc[v] = "run" /\ wpc[w] = "run" /\ Current(v) # Current(w) =>
      ~Conflict(context[Current(v)], context[Current(w)])

================================================================================
