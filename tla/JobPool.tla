-------------------------------- MODULE JobPool --------------------------------
(***************************************************************************)
(* The job half of ThreadPool.cpp: JobsUtility::schedule and               *)
(* combineDependencies, JobDataChunk, queue_jobs, work_jobs and            *)
(* after_work_jobs.  It says what a round of jobs is and who may do what   *)
(* in it; who schedules which jobs is left to the client.                  *)
(*                                                                         *)
(* A round: the loop thread, holding the engine alone (activeThreads = 1), *)
(* submits queue_jobs to a worker, which rewrites the job arrays; then all *)
(* workers run work_jobs, and the done callback of the last one to finish  *)
(* gives the engine back to the loop thread or, jobs being left, submits   *)
(* all workers again.                                                      *)
(*                                                                         *)
(* A job's handle is its position in jobs, 1 and up (the code's index plus *)
(* one); NoJob is the invalid handle.                                      *)
(***************************************************************************)
EXTENDS Integers, Sequences, FiniteSets

CONSTANTS
  Worker,        \* the elements of works, one per worker thread used
  MaxJobs,       \* bound: jobs of one round
  MaxBatches,    \* bound: batches of one job
  Dependencies   \* the handles a client of schedule passes as dependsOn

NoJob == 0

ASSUME PoolAssumption ==
  /\ IsFiniteSet(Worker) /\ Worker # {}
  /\ MaxJobs \in Nat /\ MaxBatches \in Nat
  /\ Dependencies \subseteq Nat /\ NoJob \in Dependencies

VARIABLES
  jobs,           \* the jobs of the round; writeIndex is Len(jobs)
  capacity,       \* jobs the arrays have room for
  jobsArray,      \* handles sorted by level
  beginIndex,     \* per handle: batches claimed so far (at most batchCount)
  readIndex,      \* position in jobsArray of the job being worked on
  readerLevel,    \* level up to which jobs may run
  activeThreads,  \* 0: nobody; 1: the engine has one owner; else running works
  stage,          \* who that owner is, or that the works are running
  wpc,            \* per work: next step of work_jobs; "idle" when not submitted
  at,             \* per work: its local readIndex
  batch,          \* per work: the batch it runs
  ran             \* history: the <<handle, batch>> pairs that have been run

jobVars == <<jobs, capacity, jobsArray, beginIndex, readerLevel>>
workVars == <<wpc, at, batch, ran>>
poolVars == <<jobs, capacity, jobsArray, beginIndex, readIndex, readerLevel,
              activeThreads, stage, wpc, at, batch, ran>>

Job == [level : 0 .. MaxJobs, batchCount : 1 .. MaxBatches]

\* asleep     activeThreads = 0, the loop waits for a signal
\* systems    iterate_systems on the loop thread
\* submitted  queue_jobs(uv__work*) handed to works[0]
\* queueing   ... and running there
\* prepared, empty   ... and finished, its done callback pending
\* working    works submitted to work_jobs
Stages == {"asleep", "systems", "submitted", "queueing", "prepared", "empty",
           "working"}

Init ==
  /\ jobs = <<>> /\ capacity = 0 /\ jobsArray = <<>> /\ beginIndex = <<>>
  /\ readIndex = 0 /\ readerLevel = 0
  /\ activeThreads = 0 /\ stage = "asleep"
  /\ wpc = [w \in Worker |-> "idle"]
  /\ at = [w \in Worker |-> 0]
  /\ batch = [w \in Worker |-> 0]
  /\ ran = {}

JobsLeft == readIndex < Len(jobs)

--------------------------------------------------------------------------------
(* The loop thread *)

NumWorkerThread == Cardinality(Worker)

\* queue_jobs(uv__work*, int): all works go to work_jobs.
Submit ==
  /\ activeThreads' = NumWorkerThread
  /\ stage' = "working"
  /\ wpc' = [w \in Worker |-> "load"]

\* What wakeThread does once its CAS(activeThreads, 0 -> 1) has succeeded.
WakeUp(idleWorks) ==
  IF JobsLeft
    THEN Submit
    ELSE /\ activeThreads' = 1
         /\ stage' = "systems"
         /\ wpc' = idleWorks

\* The async callback; it does nothing when activeThreads is not 0.
WakeThread ==
  /\ activeThreads = 0
  /\ WakeUp(wpc)
  /\ UNCHANGED <<jobVars, readIndex, at, batch, ran>>

\* iterate_systems has nothing left to do.
Sleep ==
  /\ stage = "systems"
  /\ activeThreads' = activeThreads - 1
  /\ stage' = "asleep"
  /\ UNCHANGED <<jobVars, readIndex, workVars>>

Larger(a, b) == IF a >= b THEN a ELSE b

\* resizeJobPool(n)
RoomFor(n) == Larger(capacity, n)

\* iterate_systems has n schedules for the workers: room is made for n jobs and
\* works[0] is submitted to queue_jobs.
SubmitQueue(n) ==
  /\ stage = "systems"
  /\ capacity' = RoomFor(n)
  /\ stage' = "submitted"
  /\ UNCHANGED <<jobs, jobsArray, beginIndex, readerLevel,
                 readIndex, activeThreads, workVars>>

\* The done callback of queue_jobs: after_work_jobs, which wakes itself, or
\* iterate_systems when no job was scheduled.
QueueDone ==
  \/ /\ stage = "prepared"
     /\ WakeUp(wpc)
     /\ UNCHANGED <<jobVars, readIndex, at, batch, ran>>
  \/ /\ stage = "empty"
     /\ stage' = "systems"
     /\ UNCHANGED <<jobVars, readIndex, activeThreads, workVars>>

\* Mutant of LastOne: the last but one is taken for the last.
LastTwo == activeThreads <= 2

\* activeThreads.fetch_sub(1) == 1
LastOne == activeThreads = 1

\* after_work_jobs for a work that has returned from work_jobs.
AfterWork(w) ==
  /\ wpc[w] = "done"
  /\ IF LastOne
       THEN WakeUp([wpc EXCEPT ![w] = "idle"])
       ELSE /\ activeThreads' = activeThreads - 1
            /\ wpc' = [wpc EXCEPT ![w] = "idle"]
            /\ UNCHANGED stage
  /\ UNCHANGED <<jobVars, readIndex, at, batch, ran>>

--------------------------------------------------------------------------------
(* queue_jobs(uv__work* ) on a worker *)

BeginRound ==
  /\ stage = "submitted"
  /\ jobs' = <<>>
  /\ readIndex' = 0
  /\ readerLevel' = 0
  /\ ran' = {}
  /\ stage' = "queueing"
  /\ UNCHANGED <<capacity, jobsArray, beginIndex, activeThreads, wpc, at, batch>>

\* JobsUtility::schedule with dependsOn = dep, which throws for a handle that
\* is not an earlier job's.
Schedule(dep, batchCount) ==
  /\ stage = "queueing"
  /\ Len(jobs) < MaxJobs
  /\ dep <= Len(jobs)
  /\ capacity' = IF Len(jobs) < capacity THEN capacity ELSE capacity * 2
  /\ jobs' = Append(jobs, [level |-> IF dep = NoJob THEN 0
                                     ELSE jobs[dep].level + 1,
                           batchCount |-> batchCount])
  /\ UNCHANGED <<jobsArray, beginIndex, readerLevel, readIndex,
                 activeThreads, stage, workVars>>

\* JobsUtility::combineDependencies, js being the jobs: the first of the handles
\* with the highest level, provided that level is above 0.
CombineDependencies(js, handles) ==
  LET level(i) == IF handles[i] = NoJob THEN 0 ELSE js[handles[i]].level
      best == {i \in DOMAIN handles :
                 /\ level(i) > 0
                 /\ \A k \in DOMAIN handles :
                      level(k) <= level(i) /\ (k < i => level(k) < level(i))}
  IN IF best = {} THEN NoJob ELSE handles[CHOOSE i \in best : TRUE]

\* The handles in an order std::sort may leave them in: by level, ties anyhow.
SortedHandles ==
  {order \in [1 .. Len(jobs) -> 1 .. Len(jobs)] :
     \A i, k \in 1 .. Len(jobs) :
       i < k => /\ order[i] # order[k]
                /\ jobs[order[i]].level <= jobs[order[k]].level}

\* The end of queue_jobs(uv__work* ): prepareJobs, or no job at all.
PrepareJobs ==
  /\ stage = "queueing"
  /\ IF jobs = <<>>
       THEN stage' = "empty" /\ UNCHANGED <<jobsArray, beginIndex>>
       ELSE /\ jobsArray' \in SortedHandles
            /\ beginIndex' = [h \in DOMAIN jobs |-> 0]
            /\ stage' = "prepared"
  /\ UNCHANGED <<jobs, capacity, readerLevel, readIndex, activeThreads, workVars>>

--------------------------------------------------------------------------------
(* work_jobs *)

GoTo(w, label) == wpc' = [wpc EXCEPT ![w] = label]

\* The handle work w has read at its readIndex.
Current(w) == jobsArray[at[w] + 1]

\* Return when no job is left or the next one's level is not reached.
Load(w) ==
  /\ wpc[w] = "load"
  /\ at' = [at EXCEPT ![w] = readIndex]
  /\ IF JobsLeft /\ jobs[jobsArray[readIndex + 1]].level <= readerLevel
       THEN GoTo(w, "claim")
       ELSE GoTo(w, "done")
  /\ UNCHANGED <<jobVars, readIndex, activeThreads, stage, batch, ran>>

\* Mutant of Claim: the counter is read and never advanced.
ClaimWithoutAdd(w) ==
  /\ wpc[w] = "claim"
  /\ batch' = [batch EXCEPT ![w] = beginIndex[Current(w)]]
  /\ GoTo(w, IF beginIndex[Current(w)] < jobs[Current(w)].batchCount
               THEN "run" ELSE "advance")
  /\ UNCHANGED <<jobVars, readIndex, activeThreads, stage, at, ran>>

\* beginIndex.fetch_add(1).  A counter past batchCount is kept at batchCount:
\* the code tells no two such values apart.
Claim(w) ==
  /\ wpc[w] = "claim"
  /\ LET h == Current(w) IN
       IF beginIndex[h] < jobs[h].batchCount
         THEN /\ batch' = [batch EXCEPT ![w] = beginIndex[h]]
              /\ beginIndex' = [beginIndex EXCEPT ![h] = @ + 1]
              /\ GoTo(w, "run")
         ELSE /\ GoTo(w, "advance")
              /\ UNCHANGED <<batch, beginIndex>>
  /\ UNCHANGED <<jobs, capacity, jobsArray, readerLevel,
                 readIndex, activeThreads, stage, at, ran>>

\* The job's function returns.
Run(w) ==
  /\ wpc[w] = "run"
  /\ ran' = ran \cup {<<Current(w), batch[w]>>}
  /\ GoTo(w, "claim")
  /\ UNCHANGED <<jobVars, readIndex, activeThreads, stage, at, batch>>

\* Mutant of Advances: readIndex is stored, not compared and exchanged.
AdvancesAnyway(w) == TRUE

\* CAS(readIndex, the value read in Load -> + 1) succeeds.
Advances(w) == readIndex = at[w]

Advance(w) ==
  /\ wpc[w] = "advance"
  /\ readIndex' = IF Advances(w) THEN readIndex + 1 ELSE readIndex
  /\ GoTo(w, "load")
  /\ UNCHANGED <<jobVars, activeThreads, stage, at, batch, ran>>

--------------------------------------------------------------------------------
LoopStep == WakeThread \/ Sleep \/ QueueDone \/ (\E w \in Worker : AfterWork(w))

WorkStep(w) == Load(w) \/ Claim(w) \/ Run(w) \/ Advance(w)

Client ==
  \/ \E n \in 1 .. MaxJobs : SubmitQueue(n)
  \/ BeginRound
  \/ \E dep \in Dependencies, n \in 1 .. MaxBatches : Schedule(dep, n)
  \/ PrepareJobs

Next == LoopStep \/ Client \/ \E w \in Worker : WorkStep(w)

Spec == Init /\ [][Next]_poolVars

\* The operating system runs the workers, and the loop the callbacks that are
\* due.  A client need not schedule anything.
FairSpec ==
  /\ Spec
  /\ WF_poolVars(QueueDone)
  /\ \A w \in Worker : WF_poolVars(WorkStep(w)) /\ WF_poolVars(AfterWork(w))

--------------------------------------------------------------------------------
(* Correctness *)

\* Types of all variables.
TypeOK ==
  /\ jobs \in Seq(Job) /\ Len(jobs) <= MaxJobs
  /\ capacity \in Nat
  /\ jobsArray \in Seq(1 .. MaxJobs)
  /\ beginIndex \in Seq(0 .. MaxBatches)
  /\ readIndex \in 0 .. MaxJobs
  /\ readerLevel = 0
  /\ activeThreads \in 0 .. Larger(1, Cardinality(Worker))
  /\ stage \in Stages
  /\ wpc \in [Worker -> {"idle", "load", "claim", "run", "advance", "done"}]
  /\ at \in [Worker -> 0 .. MaxJobs]
  /\ batch \in [Worker -> 0 .. MaxBatches]
  /\ ran \subseteq (1 .. MaxJobs) \X (0 .. MaxBatches)

\* The batch work w is running.
Running(w) == <<Current(w), batch[w]>>

\* Whatever the workers' interleaving, no batch is run twice: not by two works
\* at once, nor again after it was run.
BatchOnce ==
  \A w \in Worker : wpc[w] = "run" =>
    /\ Running(w) \notin ran
    /\ \A v \in Worker \ {w} : wpc[v] = "run" => Running(v) # Running(w)

\* readIndex moves past a job only when each of its batches is run or running:
\* with workers at different jobs, none is ever skipped.
NoJobSkipped ==
  stage = "working" =>
    /\ readIndex <= Len(jobsArray)
    /\ \A i \in 1 .. readIndex : \A b \in 0 .. jobs[jobsArray[i]].batchCount - 1 :
         \/ <<jobsArray[i], b>> \in ran
         \/ \E w \in Worker : wpc[w] = "run" /\ Running(w) = <<jobsArray[i], b>>

\* The systems get the engine back only when the round is over: every batch of
\* every job has returned, and no work can touch the jobs any more.
RoundComplete ==
  stage \in {"systems", "asleep"} =>
    /\ \A h \in DOMAIN jobs : \A b \in 0 .. jobs[h].batchCount - 1 : <<h, b>> \in ran
    /\ \A w \in Worker : wpc[w] = "idle"

\* activeThreads counts the works whose done callback is still to come, and is
\* 1 whenever the engine has a single owner: the throws of queue_jobs on
\* another value are unreachable.
ActiveThreads ==
  activeThreads =
    IF stage = "asleep" THEN 0
    ELSE IF stage = "working" THEN Cardinality({w \in Worker : wpc[w] # "idle"})
    ELSE 1

\* A round that was started ends: the systems run again.
RoundEnds == stage = "working" ~> stage = "systems"

================================================================================
