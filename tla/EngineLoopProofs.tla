--------------------------- MODULE EngineLoopProofs ---------------------------
(***************************************************************************)
(* Proofs about the engine: the rounds of JobPool, the fences of the       *)
(* manager that fills them, and the thread that runs both, each for any    *)
(* workers, jobs, dependencies, queries and plans of the systems.          *)
(*                                                                         *)
(* PoolInv is inductive for JobPool, ManagedInv for the manager, and       *)
(* EngineInv together with ManagedInv for the engine thread: a manager is  *)
(* a client JobPool allows, the engine thread a client of the manager.     *)
(***************************************************************************)
EXTENDS EngineLoop, FiniteSetTheorems, SequenceTheorems, WellFoundedInduction, TLAPS

--------------------------------------------------------------------------------
(* The rounds of JobPool: the invariant, kept by each kind of step *)

\* The types the proof needs; how high levels get is of no matter.
PoolType ==
  /\ jobs \in Seq([level : Nat, batchCount : Nat])
  /\ readIndex \in Nat /\ activeThreads \in Nat
  /\ stage \in Stages
  /\ wpc \in [Worker -> {"idle", "load", "claim", "run", "advance", "done"}]
  /\ at \in [Worker -> Nat]
  /\ batch \in [Worker -> Nat]

\* What prepareJobs leaves: each job once in the order, no counter past its job.
Arrays ==
  /\ jobsArray \in [1 .. Len(jobs) -> 1 .. Len(jobs)]
  /\ \A i, k \in 1 .. Len(jobs) : jobsArray[i] = jobsArray[k] => i = k
  /\ beginIndex \in [1 .. Len(jobs) -> Nat]
  /\ \A h \in 1 .. Len(jobs) : beginIndex[h] <= jobs[h].batchCount

\* The arrays belong to the jobs, but while a worker queues new ones; between rounds
\* without jobs they are those of an earlier round.
ArraysInv == stage # "queueing" /\ jobs # <<>> => Arrays

\* What each stage knows of the round.
StageInv ==
  /\ stage = "queueing" => readIndex = 0 /\ ran = {}
  /\ stage = "empty" => jobs = <<>>
  /\ stage = "working" => jobs # <<>>
  /\ stage # "working" => \A w \in Worker : wpc[w] = "idle"
  /\ stage \in {"systems", "asleep"} => ~JobsLeft
  /\ readIndex <= Len(jobs)

\* A counter that is positive between rounds belongs to the works that are out.
ThreadsInv == ActiveThreads /\ (stage = "working" => activeThreads > 0)

\* A batch that was run, or that a work is running.
Handled(h, b) ==
  \/ <<h, b>> \in ran
  \/ \E w \in Worker : wpc[w] = "run" /\ Running(w) = <<h, b>>

\* The counter of a job says which batches were handled: this, and not the place of
\* the workers, is what makes a batch run once and all of them run.
CountersInv ==
  stage # "queueing" =>
    \A h \in 1 .. Len(jobs), b \in Nat : Handled(h, b) <=> b < beginIndex[h]

\* Jobs passed, and jobs a work is about to pass, have no batch left.
PassedInv ==
  stage # "queueing" /\ jobs # <<>> =>
    /\ \A i \in 1 .. readIndex : beginIndex[jobsArray[i]] = jobs[jobsArray[i]].batchCount
    /\ \A w \in Worker : wpc[w] \in {"claim", "run", "advance"} => at[w] < Len(jobs)
    /\ \A w \in Worker :
         wpc[w] = "advance" => beginIndex[Current(w)] = jobs[Current(w)].batchCount

PoolInv ==
  PoolType /\ ArraysInv /\ StageInv /\ ThreadsInv /\ CountersInv /\ PassedInv /\ BatchOnce

--------------------------------------------------------------------------------
(* Sequences and sets *)

\* An order of the handles leaves none out.
LEMMA OrderIsOnto ==
  ASSUME NEW n \in Nat, NEW f \in [1 .. n -> 1 .. n],
         \A i, k \in 1 .. n : f[i] = f[k] => i = k
  PROVE  \A h \in 1 .. n : \E i \in 1 .. n : f[i] = h
  <1>1. IsFiniteSet(1 .. n)
    BY FS_Interval
  <1>2. f \in Injection(1 .. n, 1 .. n)
    BY DEF Injection, IsInjective
  <1>3. f \in Surjection(1 .. n, 1 .. n)
    BY <1>1, <1>2, FS_Injection
  <1> QED BY <1>3 DEF Surjection

LEMMA JobsLength ==
  ASSUME PoolType
  PROVE  /\ Len(jobs) \in Nat /\ DOMAIN jobs = 1 .. Len(jobs)
         /\ jobs = <<>> <=> Len(jobs) = 0
         /\ \A h \in 1 .. Len(jobs) : jobs[h] \in [level : Nat, batchCount : Nat]
  BY LenProperties, ElementOfSeq, EmptySeq DEF PoolType

--------------------------------------------------------------------------------
LEMMA InitPoolInv == Init => PoolInv
  <1> SUFFICES ASSUME Init PROVE PoolInv
    OBVIOUS
  <1> USE DEF Init
  <1>1. PoolType
    BY DEF PoolType, Stages
  <1>2. Len(jobs) = 0
    OBVIOUS
  <1> QED
    BY <1>1, <1>2 DEF PoolInv, ArraysInv, StageInv, ThreadsInv, CountersInv, PassedInv,
       BatchOnce, ActiveThreads, JobsLeft

\* Steps of the owner of the engine that touch neither jobs nor works.
LEMMA OwnerKeeps ==
  ASSUME PoolInv,
         \/ Sleep
         \/ stage = "empty" /\ stage' = "systems"
              /\ UNCHANGED <<jobVars, readIndex, activeThreads, workVars>>
         \/ \E n \in 1 .. MaxJobs : SubmitQueue(n)
  PROVE  PoolInv'
  <1> USE DEF PoolInv, jobVars, workVars, Sleep, SubmitQueue
  <1>0. stage \in {"systems", "empty"} /\ stage' \in {"asleep", "systems", "submitted"}
    OBVIOUS
  <1>1. UNCHANGED <<jobs, jobsArray, beginIndex, readIndex, wpc, at, batch, ran>>
    OBVIOUS
  <1>2. ThreadsInv'
    BY <1>0 DEF ThreadsInv, ActiveThreads
  <1>3. PoolType'
    BY <1>0, <1>1, <1>2 DEF PoolType, Stages, ThreadsInv, ActiveThreads
  <1>4. StageInv'
    BY <1>0, <1>1, JobsLength DEF StageInv, JobsLeft, PoolType
  <1>5. BatchOnce'
    BY <1>1 DEF BatchOnce, Running, Current
  <1>6. ArraysInv' /\ CountersInv' /\ PassedInv'
    BY <1>0, <1>1 DEF ArraysInv, Arrays, CountersInv, Handled, PassedInv, Running, Current
  <1> QED BY <1>2, <1>3, <1>4, <1>5, <1>6

\* Waking up with no work out, w being the one that has just come back, if any.
LEMMA WakeUpKeeps ==
  ASSUME PoolInv, stage \in {"asleep", "prepared", "working"},
         NEW idle, idle = [w \in Worker |-> "idle"],
         \A w \in Worker : wpc[w] \in {"idle", "done"},
         WakeUp(idle), UNCHANGED <<jobVars, readIndex, at, batch, ran>>
  PROVE  PoolInv'
  <1> USE DEF PoolInv, jobVars
  <1>1. CASE JobsLeft
    <2>1. /\ stage' = "working" /\ activeThreads' = Cardinality(Worker)
          /\ wpc' = [w \in Worker |-> "load"]
      BY <1>1 DEF WakeUp, Submit, NumWorkerThread
    <2>2. jobs # <<>>
      BY <1>1, JobsLength DEF JobsLeft, PoolType
    <2>3. Cardinality(Worker) \in Nat /\ Cardinality(Worker) > 0
      BY PoolAssumption, FS_CardinalityType, FS_EmptySet
    <2>4. {w \in Worker : wpc'[w] # "idle"} = Worker
      BY <2>1
    <2>5. ThreadsInv'
      BY <2>1, <2>3, <2>4 DEF ThreadsInv, ActiveThreads
    <2>6. PoolType' /\ StageInv'
      BY <2>1, <2>2, <2>3 DEF PoolType, Stages, StageInv, JobsLeft
    <2>7. \A h, b : Handled(h, b) <=> Handled(h, b)'
      BY <2>1 DEF Handled
    <2>8. ArraysInv' /\ CountersInv' /\ PassedInv' /\ BatchOnce'
      BY <2>1, <2>7 DEF ArraysInv, Arrays, CountersInv, PassedInv, BatchOnce
    <2> QED BY <2>5, <2>6, <2>8
  <1>2. CASE ~JobsLeft
    <2>1. stage' = "systems" /\ activeThreads' = 1 /\ wpc' = idle
      BY <1>2 DEF WakeUp
    <2>2. ThreadsInv'
      BY <2>1 DEF ThreadsInv, ActiveThreads
    <2>3. PoolType' /\ StageInv'
      BY <1>2, <2>1 DEF PoolType, Stages, StageInv, JobsLeft
    <2>4. \A h, b : Handled(h, b) <=> Handled(h, b)'
      BY <2>1 DEF Handled
    <2>5. ArraysInv' /\ CountersInv' /\ PassedInv' /\ BatchOnce'
      BY <2>1, <2>4 DEF ArraysInv, Arrays, CountersInv, PassedInv, BatchOnce
    <2> QED BY <2>2, <2>3, <2>5
  <1> QED BY <1>1, <1>2

LEMMA WakeThreadKeeps ==
  ASSUME PoolInv, WakeThread
  PROVE  PoolInv'
  <1>1. stage = "asleep"
    BY DEF WakeThread, PoolInv, ThreadsInv, ActiveThreads
  <1>2. wpc = [w \in Worker |-> "idle"]
    BY <1>1 DEF PoolInv, StageInv, PoolType
  <1> QED BY <1>1, <1>2, WakeUpKeeps DEF WakeThread

LEMMA QueueDoneKeeps ==
  ASSUME PoolInv, QueueDone
  PROVE  PoolInv'
  <1>1. CASE stage = "prepared"
    <2>1. wpc = [w \in Worker |-> "idle"]
      BY <1>1 DEF PoolInv, StageInv, PoolType
    <2> QED BY <1>1, <2>1, WakeUpKeeps DEF QueueDone
  <1>2. CASE stage = "empty"
    BY <1>2, OwnerKeeps DEF QueueDone
  <1> QED BY <1>1, <1>2 DEF QueueDone

\* A work comes back: the last one wakes the engine up, another one is counted.
LEMMA AfterWorkKeeps ==
  ASSUME PoolInv, NEW w \in Worker, AfterWork(w)
  PROVE  PoolInv'
  <1> USE DEF PoolInv
  <1> DEFINE Out == {v \in Worker : wpc[v] # "idle"}
             back == [wpc EXCEPT ![w] = "idle"]
  <1>1. stage = "working" /\ wpc[w] = "done" /\ w \in Out
    BY DEF AfterWork, StageInv
  <1>2. activeThreads = Cardinality(Out)
    BY <1>1 DEF ThreadsInv, ActiveThreads
  <1>3. IsFiniteSet(Out)
    BY PoolAssumption, FS_Subset
  <1>4. IsFiniteSet(Out \ {w}) /\ Cardinality(Out \ {w}) = activeThreads - 1
    BY <1>1, <1>2, <1>3, FS_RemoveElement
  <1>5. CASE LastOne
    <2>1. Out \ {w} = {}
      BY <1>4, <1>5, FS_EmptySet DEF LastOne
    <2>2. \A v \in Worker : v # w => wpc[v] = "idle"
      BY <2>1
    <2>3. back = [v \in Worker |-> "idle"]
      BY <2>2 DEF PoolType
    <2>4. \A v \in Worker : wpc[v] \in {"idle", "done"}
      BY <1>1, <2>2
    <2>5. WakeUp(back) /\ UNCHANGED <<jobVars, readIndex, at, batch, ran>>
      BY <1>5 DEF AfterWork
    <2> HIDE DEF back, Out
    <2> QED BY <1>1, <2>3, <2>4, <2>5, WakeUpKeeps
  <1>6. CASE ~LastOne
    <2>1. /\ activeThreads' = activeThreads - 1 /\ wpc' = back /\ stage' = stage
          /\ UNCHANGED <<jobVars, readIndex, at, batch, ran>>
      BY <1>6 DEF AfterWork
    <2>2. {v \in Worker : wpc'[v] # "idle"} = Out \ {w}
      BY <2>1 DEF PoolType
    <2>3. activeThreads > 1
      BY <1>1, <1>6 DEF LastOne, ThreadsInv, PoolType
    <2>4. ThreadsInv'
      BY <1>1, <1>4, <2>1, <2>2, <2>3 DEF ThreadsInv, ActiveThreads
    <2>5. PoolType' /\ StageInv'
      BY <1>1, <2>1, <2>3 DEF PoolType, StageInv, JobsLeft, jobVars
    <2>6. \A v \in Worker : v # w => wpc'[v] = wpc[v]
      BY <2>1 DEF PoolType
    <2>7. wpc'[w] = "idle"
      BY <2>1 DEF PoolType
    <2>8. \A h, b : Handled(h, b) <=> Handled(h, b)'
      BY <1>1, <2>1, <2>6, <2>7 DEF Handled, Running, Current, jobVars
    <2>9. ArraysInv' /\ CountersInv'
      BY <2>1, <2>8 DEF ArraysInv, Arrays, CountersInv, jobVars
    <2>10. PassedInv' /\ BatchOnce'
      BY <2>1, <2>6, <2>7 DEF PassedInv, BatchOnce, Running, Current, jobVars
    <2> QED BY <2>4, <2>5, <2>9, <2>10
  <1> QED BY <1>5, <1>6

--------------------------------------------------------------------------------
(* The worker that queues jobs *)

LEMMA BeginRoundKeeps ==
  ASSUME PoolInv, BeginRound
  PROVE  PoolInv'
  <1> USE DEF PoolInv, BeginRound
  <1>1. stage' = "queueing" /\ \A w \in Worker : wpc'[w] = "idle"
    BY DEF StageInv
  <1>2. PoolType' /\ Len(jobs') = 0
    BY DEF PoolType, Stages
  <1>3. StageInv' /\ ThreadsInv' /\ BatchOnce'
    BY <1>1, <1>2 DEF StageInv, ThreadsInv, ActiveThreads, JobsLeft, BatchOnce
  <1> QED BY <1>1, <1>2, <1>3 DEF ArraysInv, CountersInv, PassedInv

LEMMA ScheduleKeeps ==
  ASSUME PoolInv, NEW dep \in Dependencies, NEW n \in 1 .. MaxBatches, Schedule(dep, n)
  PROVE  PoolInv'
  <1> USE DEF PoolInv, Schedule, workVars
  <1> DEFINE level == IF dep = NoJob THEN 0 ELSE jobs[dep].level + 1
             job == [level |-> level, batchCount |-> n]
  <1>1. dep \in Nat /\ n \in Nat
    BY PoolAssumption
  <1>2. level \in Nat
    BY <1>1, JobsLength DEF NoJob
  <1>3. job \in [level : Nat, batchCount : Nat]
    BY <1>1, <1>2
  <1>4. jobs' = Append(jobs, job)
    OBVIOUS
  <1> HIDE DEF job
  <1>5. jobs' \in Seq([level : Nat, batchCount : Nat]) /\ Len(jobs') = Len(jobs) + 1
    BY <1>3, <1>4, AppendProperties DEF PoolType
  <1>6. PoolType'
    BY <1>5 DEF PoolType
  <1>7. stage = "queueing" /\ stage' = "queueing"
    OBVIOUS
  <1>8. StageInv' /\ ThreadsInv' /\ BatchOnce'
    BY <1>5, <1>7, JobsLength DEF StageInv, ThreadsInv, ActiveThreads, JobsLeft, BatchOnce
  <1> QED BY <1>6, <1>7, <1>8 DEF ArraysInv, CountersInv, PassedInv

LEMMA PrepareJobsKeeps ==
  ASSUME PoolInv, PrepareJobs
  PROVE  PoolInv'
  <1> USE DEF PoolInv, PrepareJobs, workVars
  <1>1. /\ stage = "queueing" /\ stage' \in {"empty", "prepared"}
        /\ readIndex' = 0 /\ ran' = {} /\ jobs' = jobs
        /\ \A w \in Worker : wpc'[w] = "idle"
    BY DEF StageInv
  <1>2. PoolType' /\ ThreadsInv' /\ BatchOnce'
    BY <1>1 DEF PoolType, Stages, ThreadsInv, ActiveThreads, BatchOnce
  <1>3. StageInv'
    BY <1>1, JobsLength DEF StageInv, JobsLeft
  <1>4. CASE jobs = <<>>
    <2>1. Len(jobs') = 0
      BY <1>1, <1>4
    <2>2. ArraysInv' /\ CountersInv' /\ PassedInv'
      BY <1>1, <1>4, <2>1 DEF ArraysInv, CountersInv, PassedInv
    <2> QED BY <1>2, <1>3, <2>2
  <1>5. CASE jobs # <<>>
    <2>1. beginIndex' = [h \in 1 .. Len(jobs) |-> 0]
      BY <1>5, JobsLength
    <2>2. jobsArray' \in SortedHandles
      BY <1>5
    <2>3. jobsArray' \in [1 .. Len(jobs) -> 1 .. Len(jobs)]
          /\ \A i, k \in 1 .. Len(jobs) : i < k => jobsArray'[i] # jobsArray'[k]
      BY <2>2 DEF SortedHandles
    <2>4. \A i, k \in 1 .. Len(jobs) : jobsArray'[i] = jobsArray'[k] => i = k
      BY <2>3, JobsLength
    <2>5. ArraysInv'
      BY <1>1, <2>1, <2>3, <2>4, JobsLength DEF ArraysInv, Arrays
    <2>6. \A h, b : ~Handled(h, b)'
      BY <1>1 DEF Handled
    <2>7. CountersInv' /\ PassedInv'
      BY <1>1, <2>1, <2>6, JobsLength DEF CountersInv, PassedInv
    <2> QED BY <1>2, <1>3, <2>5, <2>7
  <1> QED BY <1>4, <1>5

--------------------------------------------------------------------------------
(* The steps of work_jobs *)

\* What a work that is at a job knows.
LEMMA AtWork ==
  ASSUME PoolInv, NEW w \in Worker, wpc[w] # "idle"
  PROVE  /\ stage = "working" /\ jobs # <<>> /\ Arrays
         /\ wpc[w] \in {"claim", "run", "advance"} =>
              at[w] + 1 \in 1 .. Len(jobs) /\ Current(w) \in 1 .. Len(jobs)
  <1>1. stage = "working" /\ jobs # <<>> /\ Arrays
    BY DEF PoolInv, StageInv, ArraysInv
  <1>2. ASSUME wpc[w] \in {"claim", "run", "advance"}
        PROVE  at[w] + 1 \in 1 .. Len(jobs)
    BY <1>1, <1>2, JobsLength DEF PoolInv, PassedInv, PoolType
  <1> QED BY <1>1, <1>2 DEF Arrays, Current

\* The works out stay as many when one of them goes from one label to another.
LEMMA StillOut ==
  ASSUME PoolInv, NEW w \in Worker, wpc[w] # "idle",
         NEW label \in {"load", "claim", "run", "advance", "done"}, GoTo(w, label),
         UNCHANGED <<activeThreads, stage, jobs>>, readIndex' <= Len(jobs)
  PROVE  /\ ThreadsInv' /\ StageInv'
         /\ wpc' \in [Worker -> {"idle", "load", "claim", "run", "advance", "done"}]
         /\ wpc'[w] = label /\ \A v \in Worker : v # w => wpc'[v] = wpc[v]
  <1> USE DEF PoolInv, GoTo, PoolType
  <1>1. {v \in Worker : wpc'[v] # "idle"} = {v \in Worker : wpc[v] # "idle"}
    OBVIOUS
  <1>2. stage = "working" /\ jobs # <<>>
    BY AtWork
  <1>3. ThreadsInv'
    BY <1>1, <1>2 DEF ThreadsInv, ActiveThreads
  <1> QED BY <1>2, <1>3 DEF StageInv

LEMMA LoadKeeps ==
  ASSUME PoolInv, NEW w \in Worker, Load(w)
  PROVE  PoolInv'
  <1> USE DEF PoolInv
  <1>1. wpc[w] = "load" /\ UNCHANGED <<jobs, jobsArray, beginIndex, readIndex, activeThreads,
                                       stage, batch, ran>>
    BY DEF Load, jobVars
  <1>2. PICK label \in {"claim", "done"} : GoTo(w, label) /\ (label = "claim" => JobsLeft)
    BY DEF Load
  <1>3. /\ ThreadsInv' /\ StageInv'
        /\ wpc' \in [Worker -> {"idle", "load", "claim", "run", "advance", "done"}]
        /\ wpc'[w] = label /\ \A v \in Worker : v # w => wpc'[v] = wpc[v]
    BY <1>1, <1>2, StillOut DEF StageInv
  <1>4. at' = [at EXCEPT ![w] = readIndex]
    BY DEF Load
  <1>5. at'[w] = readIndex /\ \A v \in Worker : v # w => at'[v] = at[v]
    BY <1>4 DEF PoolType
  <1>6. PoolType'
    BY <1>1, <1>3, <1>4 DEF PoolType
  <1>7. \A v \in Worker : wpc'[v] = "run" <=> wpc[v] = "run"
    BY <1>1, <1>3
  <1>8. \A v \in Worker : wpc[v] = "run" => Running(v)' = Running(v)
    BY <1>1, <1>5 DEF Running, Current
  <1>9. \A h, b : Handled(h, b) <=> Handled(h, b)'
    BY <1>1, <1>7, <1>8 DEF Handled
  <1>10. ArraysInv' /\ CountersInv' /\ BatchOnce'
    BY <1>1, <1>7, <1>8, <1>9 DEF ArraysInv, Arrays, CountersInv, BatchOnce
  <1>11. PassedInv'
    BY <1>1, <1>2, <1>3, <1>5, JobsLength DEF PassedInv, Current, JobsLeft, PoolType
  <1> QED BY <1>3, <1>6, <1>10, <1>11

\* The next batch of the job is claimed: it was not handled before.
LEMMA ClaimsBatch ==
  ASSUME PoolInv, NEW w \in Worker, Claim(w),
         beginIndex[Current(w)] < jobs[Current(w)].batchCount
  PROVE  PoolInv'
  <1> USE DEF PoolInv
  <1> DEFINE h == Current(w)
             b == beginIndex[h]
  <1>1. wpc[w] = "claim" /\ UNCHANGED <<jobs, jobsArray, readIndex, activeThreads, stage, at, ran>>
    BY DEF Claim
  <1>2. /\ batch' = [batch EXCEPT ![w] = b] /\ GoTo(w, "run")
        /\ beginIndex' = [beginIndex EXCEPT ![h] = @ + 1]
    BY DEF Claim
  <1>3. stage = "working" /\ jobs # <<>> /\ Arrays /\ at[w] < Len(jobs) /\ h \in 1 .. Len(jobs)
    BY <1>1, AtWork DEF PassedInv
  <1>4. b \in Nat
    BY <1>3 DEF Arrays
  <1>5. /\ ThreadsInv' /\ StageInv'
        /\ wpc' \in [Worker -> {"idle", "load", "claim", "run", "advance", "done"}]
        /\ wpc'[w] = "run" /\ \A v \in Worker : v # w => wpc'[v] = wpc[v]
    BY <1>1, <1>2, StillOut DEF StageInv
  <1>6. batch'[w] = b /\ \A v \in Worker : v # w => batch'[v] = batch[v]
    BY <1>2 DEF PoolType
  <1>7. /\ beginIndex' \in [1 .. Len(jobs) -> Nat] /\ beginIndex'[h] = b + 1
        /\ \A g \in 1 .. Len(jobs) : g # h => beginIndex'[g] = beginIndex[g]
    BY <1>2, <1>3, <1>4 DEF Arrays
  <1>8. PoolType'
    BY <1>1, <1>2, <1>4, <1>5 DEF PoolType
  <1>9. jobs[h].batchCount \in Nat
    BY <1>3, JobsLength
  <1>10. ArraysInv'
    <2>1. b < jobs[h].batchCount /\ \A g \in 1 .. Len(jobs) : beginIndex[g] <= jobs[g].batchCount
      BY <1>3 DEF Arrays
    <2>2. \A g \in 1 .. Len(jobs) : beginIndex'[g] <= jobs[g].batchCount
      BY <1>4, <1>7, <1>9, <2>1
    <2>3. jobs' = jobs /\ jobsArray' = jobsArray
      BY <1>1
    <2>4. Arrays'
      BY <1>3, <1>7, <2>2, <2>3 DEF Arrays
    <2> QED BY <2>4 DEF ArraysInv
  <1>11. /\ Running(w)' = <<h, b>>
         /\ \A v \in Worker : v # w => Running(v)' = Running(v)
    BY <1>1, <1>6 DEF Running, Current
  <1>12. ~Handled(h, b)
    BY <1>3, <1>4 DEF CountersInv
  <1>13. BatchOnce'
    BY <1>1, <1>5, <1>11, <1>12 DEF BatchOnce, Handled
  <1>14. \A g, c : Handled(g, c)' <=> Handled(g, c) \/ (g = h /\ c = b)
    BY <1>1, <1>5, <1>11 DEF Handled
  <1>15. CountersInv'
    <2>1. SUFFICES ASSUME NEW g \in 1 .. Len(jobs), NEW c \in Nat
                   PROVE  Handled(g, c)' <=> c < beginIndex'[g]
      BY <1>1 DEF CountersInv
    <2>2. Handled(g, c) <=> c < beginIndex[g]
      BY <1>3 DEF CountersInv
    <2> HIDE DEF Handled, h, b
    <2>3. CASE g = h
      <3>1. c < b + 1 <=> c < b \/ c = b
        BY <1>4
      <3> QED BY <1>7, <1>14, <2>2, <2>3, <3>1 DEF b
    <2>4. CASE g # h
      BY <1>7, <1>14, <2>2, <2>4
    <2> QED BY <2>3, <2>4
  <1>16. PassedInv'
    <2>1. ASSUME NEW i \in 1 .. readIndex
          PROVE  jobsArray[i] # h /\ jobsArray[i] \in 1 .. Len(jobs)
      <3>1. i \in 1 .. Len(jobs)
        BY JobsLength DEF StageInv, PoolType
      <3>2. jobsArray[i] \in 1 .. Len(jobs)
        BY <1>3, <3>1 DEF Arrays
      <3>3. beginIndex[jobsArray[i]] = jobs[jobsArray[i]].batchCount
        BY <1>3 DEF PassedInv
      <3>4. jobsArray[i] # h
        BY <1>4, <1>9, <3>3
      <3> QED BY <3>2, <3>4
    <2>2. \A v \in Worker :
            wpc[v] = "advance" => Current(v) # h /\ Current(v) \in 1 .. Len(jobs)
      BY <1>3, <1>4, <1>9, AtWork DEF PassedInv
    <2>3. \A i \in 1 .. readIndex' : beginIndex'[jobsArray'[i]] = jobs'[jobsArray'[i]].batchCount
      BY <1>1, <1>3, <1>7, <2>1 DEF PassedInv
    <2>4. \A v \in Worker : wpc'[v] \in {"claim", "run", "advance"} => at'[v] < Len(jobs')
      BY <1>1, <1>3, <1>5 DEF PassedInv
    <2>5. \A v \in Worker :
            wpc'[v] = "advance" => beginIndex'[Current(v)'] = jobs'[Current(v)'].batchCount
      BY <1>1, <1>3, <1>5, <1>7, <2>2 DEF PassedInv, Current
    <2> QED BY <2>3, <2>4, <2>5 DEF PassedInv
  <1> QED BY <1>5, <1>8, <1>10, <1>13, <1>15, <1>16

\* No batch is left, and the work goes to raise readIndex.
LEMMA ClaimsNone ==
  ASSUME PoolInv, NEW w \in Worker, Claim(w),
         ~(beginIndex[Current(w)] < jobs[Current(w)].batchCount)
  PROVE  PoolInv'
  <1> USE DEF PoolInv
  <1>1. wpc[w] = "claim" /\ UNCHANGED <<jobs, jobsArray, readIndex, activeThreads, stage, at, ran,
                                        batch, beginIndex>>
    BY DEF Claim
  <1>2. GoTo(w, "advance")
    BY DEF Claim
  <1>3. /\ stage = "working" /\ jobs # <<>> /\ Arrays /\ at[w] < Len(jobs)
        /\ Current(w) \in 1 .. Len(jobs)
    BY <1>1, AtWork DEF PassedInv
  <1>4. beginIndex[Current(w)] = jobs[Current(w)].batchCount
    BY <1>3, JobsLength DEF Arrays
  <1>5. /\ ThreadsInv' /\ StageInv'
        /\ wpc' \in [Worker -> {"idle", "load", "claim", "run", "advance", "done"}]
        /\ wpc'[w] = "advance" /\ \A v \in Worker : v # w => wpc'[v] = wpc[v]
    BY <1>1, <1>2, StillOut DEF StageInv
  <1>6. PoolType'
    BY <1>1, <1>5 DEF PoolType
  <1>7. \A h, b : Handled(h, b) <=> Handled(h, b)'
    BY <1>1, <1>5 DEF Handled, Running, Current
  <1>8. ArraysInv' /\ CountersInv'
    BY <1>1, <1>7 DEF ArraysInv, Arrays, CountersInv
  <1>9. BatchOnce'
    BY <1>1, <1>5 DEF BatchOnce, Running, Current
  <1>10. PassedInv'
    BY <1>1, <1>3, <1>4, <1>5 DEF PassedInv, Current
  <1> QED BY <1>5, <1>6, <1>8, <1>9, <1>10

\* The batch a work runs becomes one that was run.
LEMMA RunKeeps ==
  ASSUME PoolInv, NEW w \in Worker, Run(w)
  PROVE  PoolInv'
  <1> USE DEF PoolInv
  <1>1. wpc[w] = "run" /\ UNCHANGED <<jobs, jobsArray, beginIndex, readIndex, activeThreads, stage,
                                      at, batch>>
    BY DEF Run, jobVars
  <1>2. GoTo(w, "claim") /\ ran' = ran \cup {Running(w)}
    BY DEF Run, Running
  <1>3. stage = "working" /\ jobs # <<>> /\ at[w] < Len(jobs)
    BY <1>1, AtWork DEF PassedInv
  <1>4. /\ ThreadsInv' /\ StageInv'
        /\ wpc' \in [Worker -> {"idle", "load", "claim", "run", "advance", "done"}]
        /\ wpc'[w] = "claim" /\ \A v \in Worker : v # w => wpc'[v] = wpc[v]
    BY <1>1, <1>2, StillOut DEF StageInv
  <1>5. PoolType'
    BY <1>1, <1>4 DEF PoolType
  <1>6. \A v \in Worker : Running(v)' = Running(v)
    BY <1>1 DEF Running, Current
  <1>7. \A h, b : Handled(h, b) <=> Handled(h, b)'
    BY <1>1, <1>2, <1>4, <1>6 DEF Handled
  <1>8. ArraysInv' /\ CountersInv'
    BY <1>1, <1>7 DEF ArraysInv, Arrays, CountersInv
  <1>9. BatchOnce'
    BY <1>1, <1>2, <1>4, <1>6 DEF BatchOnce
  <1>10. PassedInv'
    BY <1>1, <1>3, <1>4 DEF PassedInv, Current
  <1> QED BY <1>4, <1>5, <1>8, <1>9, <1>10

\* readIndex is raised past a job without batches left, or is elsewhere already.
LEMMA AdvanceKeeps ==
  ASSUME PoolInv, NEW w \in Worker, Advance(w)
  PROVE  PoolInv'
  <1> USE DEF PoolInv
  <1>1. wpc[w] = "advance" /\ UNCHANGED <<jobs, jobsArray, beginIndex, activeThreads, stage, at,
                                          batch, ran>>
    BY DEF Advance, jobVars
  <1>2. GoTo(w, "load") /\ readIndex' = IF readIndex = at[w] THEN readIndex + 1 ELSE readIndex
    BY DEF Advance, Advances
  <1>3. stage = "working" /\ jobs # <<>> /\ at[w] < Len(jobs)
    BY <1>1, AtWork DEF PassedInv
  <1>4. readIndex' \in Nat /\ readIndex' <= Len(jobs)
    BY <1>2, <1>3, JobsLength DEF StageInv, PoolType
  <1>5. /\ ThreadsInv' /\ StageInv'
        /\ wpc' \in [Worker -> {"idle", "load", "claim", "run", "advance", "done"}]
        /\ wpc'[w] = "load" /\ \A v \in Worker : v # w => wpc'[v] = wpc[v]
    BY <1>1, <1>2, <1>4, StillOut
  <1>6. PoolType'
    BY <1>1, <1>4, <1>5 DEF PoolType
  <1>7. \A v \in Worker : Running(v)' = Running(v) /\ Current(v)' = Current(v)
    BY <1>1 DEF Running, Current
  <1>8. \A h, b : Handled(h, b) <=> Handled(h, b)'
    BY <1>1, <1>5, <1>7 DEF Handled
  <1>9. ArraysInv' /\ CountersInv' /\ BatchOnce'
    BY <1>1, <1>5, <1>7, <1>8 DEF ArraysInv, Arrays, CountersInv, BatchOnce
  <1>10. \A i \in 1 .. readIndex' : i \in 1 .. readIndex \/ (i = at[w] + 1 /\ readIndex = at[w])
    <2>1. readIndex \in Nat
      BY DEF PoolType
    <2>2. readIndex' = readIndex \/ (readIndex' = readIndex + 1 /\ readIndex = at[w])
      BY <1>2
    <2> QED BY <2>1, <2>2
  <1>11. PassedInv'
    BY <1>1, <1>3, <1>5, <1>7, <1>10 DEF PassedInv, Current
  <1> QED BY <1>5, <1>6, <1>9, <1>11

--------------------------------------------------------------------------------
LEMMA NextKeepsPoolInv == PoolInv /\ [Next]_poolVars => PoolInv'
  <1> SUFFICES ASSUME PoolInv, [Next]_poolVars PROVE PoolInv'
    OBVIOUS
  <1>1. CASE WakeThread \/ QueueDone
    BY <1>1, WakeThreadKeeps, QueueDoneKeeps
  <1>2. CASE Sleep \/ \E n \in 1 .. MaxJobs : SubmitQueue(n)
    BY <1>2, OwnerKeeps
  <1>3. CASE BeginRound \/ PrepareJobs
    BY <1>3, BeginRoundKeeps, PrepareJobsKeeps
  <1>4. CASE \E dep \in Dependencies, n \in 1 .. MaxBatches : Schedule(dep, n)
    BY <1>4, ScheduleKeeps
  <1>5. ASSUME NEW w \in Worker, AfterWork(w) PROVE PoolInv'
    BY <1>5, AfterWorkKeeps
  <1>6. ASSUME NEW w \in Worker, Claim(w) PROVE PoolInv'
    BY <1>6, ClaimsBatch, ClaimsNone
  <1>7. ASSUME NEW w \in Worker, Load(w) \/ Run(w) \/ Advance(w) PROVE PoolInv'
    BY <1>7, LoadKeeps, RunKeeps, AdvanceKeeps
  <1>8. CASE UNCHANGED poolVars
    <2> USE DEF PoolInv
    <2>0. /\ jobs' = jobs /\ jobsArray' = jobsArray /\ beginIndex' = beginIndex
          /\ readIndex' = readIndex /\ activeThreads' = activeThreads /\ stage' = stage
          /\ wpc' = wpc /\ at' = at /\ batch' = batch /\ ran' = ran
      BY <1>8 DEF poolVars
    <2>1. PoolType' /\ StageInv' /\ ThreadsInv'
      BY <2>0 DEF PoolType, StageInv, JobsLeft, ThreadsInv, ActiveThreads
    <2>2. ArraysInv' /\ BatchOnce'
      BY <2>0 DEF ArraysInv, Arrays, BatchOnce, Running, Current
    <2>3. CountersInv'
      <3>1. \A h, b : Handled(h, b)' <=> Handled(h, b)
        BY <2>0 DEF Handled, Running, Current
      <3> QED BY <2>0, <3>1 DEF CountersInv
    <2>4. PassedInv'
      BY <2>0 DEF PassedInv, Current
    <2> QED BY <2>1, <2>2, <2>3, <2>4
  <1> QED BY <1>1, <1>2, <1>3, <1>4, <1>5, <1>6, <1>7, <1>8 DEF Next, LoopStep, Client, WorkStep

LEMMA AlwaysPoolInv == Spec => []PoolInv
  BY InitPoolInv, NextKeepsPoolInv, PTL DEF Spec

\* However many works claim at once, no batch of a job is run twice.
THEOREM BatchesRunOnce == Spec => []BatchOnce
  <1>1. PoolInv => BatchOnce
    BY DEF PoolInv
  <1> QED BY <1>1, AlwaysPoolInv, PTL

\* readIndex passes a job only when each of its batches was run or is running.
THEOREM NoneSkipped == Spec => []NoJobSkipped
  <1>1. PoolInv => NoJobSkipped
    <2> SUFFICES ASSUME PoolInv, stage = "working" PROVE NoJobSkipped
      BY DEF NoJobSkipped
    <2> USE DEF PoolInv
    <2>1. jobs # <<>> /\ Arrays /\ Len(jobs) \in Nat
      BY JobsLength DEF StageInv, ArraysInv
    <2>2. Len(jobsArray) = Len(jobs)
      <3>1. jobsArray \in Seq(1 .. Len(jobs))
        BY <2>1, SeqDef DEF Arrays
      <3>2. DOMAIN jobsArray = 1 .. Len(jobs) /\ DOMAIN jobsArray = 1 .. Len(jobsArray)
            /\ Len(jobsArray) \in Nat
        BY <2>1, <3>1, LenProperties DEF Arrays
      <3> QED BY <2>1, <3>2
    <2>3. readIndex <= Len(jobsArray)
      BY <2>2 DEF StageInv
    <2>a. \A i \in 1 .. readIndex : beginIndex[jobsArray[i]] = jobs[jobsArray[i]].batchCount
      BY <2>1 DEF PassedInv
    <2>4. ASSUME NEW i \in 1 .. readIndex, NEW b \in 0 .. jobs[jobsArray[i]].batchCount - 1
          PROVE  Handled(jobsArray[i], b)
      <3>1. jobsArray[i] \in 1 .. Len(jobs)
        <4>1. readIndex \in Nat /\ readIndex <= Len(jobs)
          BY DEF StageInv, PoolType
        <4>2. jobsArray \in [1 .. Len(jobs) -> 1 .. Len(jobs)]
          BY <2>1 DEF Arrays
        <4> QED BY <2>1, <4>1, <4>2
      <3>2. beginIndex[jobsArray[i]] = jobs[jobsArray[i]].batchCount
        BY <2>a
      <3>3. jobs[jobsArray[i]].batchCount \in Nat
        BY <3>1, JobsLength
      <3>4. b \in Nat /\ b < beginIndex[jobsArray[i]]
        BY <3>2, <3>3
      <3> QED BY <3>1, <3>4 DEF CountersInv
    <2> QED BY <2>3, <2>4 DEF NoJobSkipped, Handled
  <1> QED BY <1>1, AlwaysPoolInv, PTL

\* The systems run, or sleep, only when every batch of every job has returned.
THEOREM SystemsAfterRound == Spec => []RoundComplete
  <1>1. PoolInv => RoundComplete
    <2> SUFFICES ASSUME PoolInv, stage \in {"systems", "asleep"} PROVE RoundComplete
      BY DEF RoundComplete
    <2> USE DEF PoolInv
    <2>1. \A w \in Worker : wpc[w] = "idle"
      BY DEF StageInv
    <2>2. readIndex = Len(jobs)
      BY JobsLength DEF StageInv, JobsLeft, PoolType
    <2>3. ASSUME NEW h \in DOMAIN jobs, NEW b \in 0 .. jobs[h].batchCount - 1
          PROVE  <<h, b>> \in ran
      <3>1. h \in 1 .. Len(jobs) /\ jobs[h].batchCount \in Nat /\ jobs # <<>>
            /\ Len(jobs) \in Nat
        BY JobsLength
      <3>2. Arrays
        BY <3>1 DEF ArraysInv
      <3>3. PICK i \in 1 .. Len(jobs) : jobsArray[i] = h
        <4>1. /\ jobsArray \in [1 .. Len(jobs) -> 1 .. Len(jobs)]
              /\ \A i, k \in 1 .. Len(jobs) : jobsArray[i] = jobsArray[k] => i = k
          BY <3>2 DEF Arrays
        <4>2. \A k \in 1 .. Len(jobs) : \E i \in 1 .. Len(jobs) : jobsArray[i] = k
          BY <3>1, <4>1, OrderIsOnto
        <4> QED BY <3>1, <4>2
      <3>4. beginIndex[h] = jobs[h].batchCount
        BY <2>2, <3>1, <3>3 DEF PassedInv
      <3>5. b \in Nat /\ b < beginIndex[h]
        BY <3>1, <3>4
      <3>6. Handled(h, b)
        BY <3>1, <3>5 DEF CountersInv
      <3> QED BY <2>1, <3>6 DEF Handled
    <2> QED BY <2>1, <2>3 DEF RoundComplete
  <1> QED BY <1>1, AlwaysPoolInv, PTL

\* activeThreads is 1 exactly while one thread owns the engine, so that queue_jobs never
\* throws, and otherwise counts the works that are out.
THEOREM OwnersCounted == Spec => []ActiveThreads
  <1>1. PoolInv => ActiveThreads
    BY DEF PoolInv, ThreadsInv
  <1> QED BY <1>1, AlwaysPoolInv, PTL

--------------------------------------------------------------------------------
(* How far counters, levels and arrays go *)

\* A job depends on an earlier one, so that its level is below its number.
LevelsInv == \A h \in 1 .. Len(jobs) : jobs[h].level < h

TypeInv == TypeOK /\ LevelsInv

\* A job scheduled has a level below its number, and there is room for that number.
LEMMA ScheduleKeepsTypes ==
  ASSUME PoolInv, TypeInv, NEW dep \in Dependencies, NEW n \in 1 .. MaxBatches,
         Schedule(dep, n)
  PROVE  TypeInv'
  <1> USE DEF TypeInv, PoolInv
  <1> DEFINE level == IF dep = NoJob THEN 0 ELSE jobs[dep].level + 1
             job == [level |-> level, batchCount |-> n]
  <1>1. /\ jobs' = Append(jobs, job) /\ dep <= Len(jobs) /\ Len(jobs) < MaxJobs
        /\ UNCHANGED <<jobsArray, beginIndex, readerLevel, readIndex, activeThreads,
                       stage, wpc, at, batch, ran>>
        /\ capacity' = IF Len(jobs) < capacity THEN capacity ELSE capacity * 2
    BY DEF Schedule, workVars
  <1>2. dep \in Nat /\ MaxJobs \in Nat /\ Len(jobs) \in Nat
    BY PoolAssumption, JobsLength
  <1>3. level \in Nat /\ level < Len(jobs) + 1
    <2>1. CASE dep = NoJob
      BY <1>2, <2>1
    <2>2. CASE dep # NoJob
      <3>1. dep \in 1 .. Len(jobs)
        BY <1>1, <1>2, <2>2 DEF NoJob
      <3>2. jobs[dep].level \in Nat /\ jobs[dep].level < dep
        BY <3>1, JobsLength DEF LevelsInv
      <3> QED BY <1>1, <1>2, <2>2, <3>2
    <2> QED BY <2>1, <2>2
  <1> HIDE DEF level
  <1>4. job \in Job
    BY <1>1, <1>2, <1>3 DEF Job
  <1>5. job.level < Len(jobs) + 1
    BY <1>3
  <1> HIDE DEF job
  <1>6. /\ jobs' \in Seq(Job) /\ Len(jobs') = Len(jobs) + 1
        /\ \A h \in 1 .. Len(jobs) : jobs'[h] = jobs[h]
        /\ jobs'[Len(jobs) + 1] = job
    BY <1>1, <1>4, AppendProperties DEF TypeOK
  <1>7. LevelsInv'
    BY <1>2, <1>5, <1>6 DEF LevelsInv
  <1>8. capacity' \in Nat
    BY <1>1 DEF TypeOK
  <1> QED BY <1>1, <1>2, <1>6, <1>7, <1>8 DEF TypeOK

LEMMA PrepareJobsKeepsTypes ==
  ASSUME PoolInv, TypeInv, PrepareJobs
  PROVE  TypeInv'
  <1> USE DEF TypeInv, PoolInv
  <1>1. /\ stage' \in Stages
        /\ UNCHANGED <<jobs, capacity, readerLevel, readIndex, activeThreads,
                       wpc, at, batch, ran>>
    BY DEF PrepareJobs, workVars, Stages
  <1>2. LevelsInv'
    BY <1>1 DEF LevelsInv
  <1>3. jobsArray' \in Seq(1 .. MaxJobs) /\ beginIndex' \in Seq(0 .. MaxBatches)
    <2>1. CASE jobs = <<>>
      BY <2>1 DEF PrepareJobs, TypeOK
    <2>2. CASE jobs # <<>>
      <3>1. Len(jobs) \in Nat /\ Len(jobs) <= MaxJobs /\ MaxJobs \in Nat /\ MaxBatches \in Nat
            /\ DOMAIN jobs = 1 .. Len(jobs)
        BY PoolAssumption, JobsLength DEF TypeOK
      <3>2. jobsArray' \in SortedHandles /\ beginIndex' = [h \in 1 .. Len(jobs) |-> 0]
        BY <2>2, <3>1 DEF PrepareJobs
      <3>3. 1 .. Len(jobs) \subseteq 1 .. MaxJobs /\ 0 \in 0 .. MaxBatches
        BY <3>1
      <3>4. jobsArray' \in [1 .. Len(jobs) -> 1 .. MaxJobs]
        BY <3>2, <3>3 DEF SortedHandles
      <3>5. beginIndex' \in [1 .. Len(jobs) -> 0 .. MaxBatches]
        BY <3>2, <3>3
      <3> QED BY <3>1, <3>4, <3>5, SeqDef
    <2> QED BY <2>1, <2>2
  <1> QED BY <1>1, <1>2, <1>3 DEF TypeOK

\* The loop thread counts works out and in, and never beyond those there are.
LEMMA LoopKeepsTypes ==
  ASSUME PoolInv, TypeInv, LoopStep \/ (\E n \in 1 .. MaxJobs : SubmitQueue(n)) \/ BeginRound
  PROVE  TypeInv'
  <1> USE DEF TypeInv, PoolInv
  <1>1. Cardinality(Worker) \in Nat /\ MaxJobs \in Nat
    BY PoolAssumption, FS_CardinalityType
  <1> DEFINE most == Larger(1, Cardinality(Worker))
  <1>2. most \in Nat /\ 1 <= most /\ Cardinality(Worker) <= most
    BY <1>1 DEF Larger
  <1> HIDE DEF most
  <1> DEFINE Labels == {"idle", "load", "claim", "run", "advance", "done"}
             Moves == /\ activeThreads' \in 0 .. most /\ stage' \in Stages
                      /\ wpc' \in [Worker -> Labels]
             Stays == UNCHANGED <<jobs, jobsArray, beginIndex, readerLevel, readIndex,
                                  at, batch, ran>>
  <1>3. activeThreads \in 0 .. most /\ wpc \in [Worker -> Labels] /\ stage \in Stages
        /\ activeThreads \in Nat
    BY DEF TypeOK, most, PoolType
  <1>4. ASSUME NEW idle \in [Worker -> Labels], WakeUp(idle) PROVE Moves
    BY <1>1, <1>2, <1>4 DEF WakeUp, Submit, NumWorkerThread, Stages
  <1>5. ASSUME Moves, Stays, capacity' \in Nat PROVE TypeInv'
    BY <1>5 DEF TypeOK, LevelsInv, most
  <1>6. capacity \in Nat
    BY DEF TypeOK
  <1>7. ASSUME WakeThread PROVE TypeInv'
    <2>1. WakeUp(wpc) /\ Stays /\ capacity' = capacity
      BY <1>7 DEF WakeThread, jobVars
    <2>2. Moves
      BY <1>3, <1>4, <2>1
    <2> HIDE DEF Moves, Stays
    <2> QED BY <1>5, <1>6, <2>1, <2>2
  <1>8. ASSUME Sleep PROVE TypeInv'
    <2>1. activeThreads' = activeThreads - 1 /\ stage' = "asleep" /\ wpc' = wpc /\ Stays
          /\ capacity' = capacity /\ stage = "systems"
      BY <1>8 DEF Sleep, jobVars, workVars
    <2>2. activeThreads = 1
      BY <2>1 DEF ThreadsInv, ActiveThreads
    <2>3. Moves
      BY <1>2, <1>3, <2>1, <2>2 DEF Stages
    <2> HIDE DEF Moves, Stays
    <2> QED BY <1>5, <1>6, <2>1, <2>3
  <1>9. ASSUME QueueDone PROVE TypeInv'
    <2>1. CASE stage = "prepared"
      <3>1. WakeUp(wpc) /\ Stays /\ capacity' = capacity
        BY <1>9, <2>1 DEF QueueDone, jobVars
      <3>2. Moves
        BY <1>3, <1>4, <3>1
      <3> HIDE DEF Moves, Stays
      <3> QED BY <1>5, <1>6, <3>1, <3>2
    <2>2. CASE stage = "empty"
      <3>1. stage' = "systems" /\ Stays /\ UNCHANGED <<capacity, activeThreads, wpc>>
        BY <1>9, <2>2 DEF QueueDone, jobVars, workVars
      <3>2. Moves
        BY <1>3, <3>1 DEF Stages
      <3> HIDE DEF Moves, Stays
      <3> QED BY <1>5, <1>6, <3>1, <3>2
    <2> QED BY <1>9, <2>1, <2>2 DEF QueueDone
  <1>10. ASSUME NEW w \in Worker, AfterWork(w) PROVE TypeInv'
    <2> DEFINE back == [wpc EXCEPT ![w] = "idle"]
    <2>1. back \in [Worker -> Labels]
      BY <1>3
    <2>2. Stays /\ capacity' = capacity
      BY <1>10 DEF AfterWork, jobVars
    <2>3. stage = "working" /\ activeThreads > 0
      BY <1>10 DEF AfterWork, StageInv, ThreadsInv
    <2> HIDE DEF back
    <2>4. Moves
      <3>1. CASE LastOne
        BY <1>4, <1>10, <2>1, <3>1 DEF AfterWork, back
      <3>2. CASE ~LastOne
        <4>1. activeThreads' = activeThreads - 1 /\ wpc' = back /\ stage' = stage
          BY <1>10, <3>2 DEF AfterWork, back
        <4> QED BY <1>2, <1>3, <2>1, <2>3, <4>1
      <3> QED BY <3>1, <3>2
    <2> HIDE DEF Moves, Stays
    <2> QED BY <1>5, <1>6, <2>2, <2>4
  <1>11. ASSUME NEW n \in 1 .. MaxJobs, SubmitQueue(n) PROVE TypeInv'
    <2>1. stage' = "submitted" /\ capacity' = RoomFor(n) /\ Stays
          /\ UNCHANGED <<activeThreads, wpc>>
      BY <1>11 DEF SubmitQueue, workVars
    <2>2. capacity' \in Nat
      BY <1>1, <1>6, <2>1 DEF RoomFor, Larger
    <2>3. Moves
      BY <1>3, <2>1 DEF Stages
    <2> HIDE DEF Moves, Stays
    <2> QED BY <1>5, <2>1, <2>2, <2>3
  <1>12. ASSUME BeginRound PROVE TypeInv'
    <2>1. /\ jobs' = <<>> /\ readIndex' = 0 /\ readerLevel' = 0 /\ ran' = {}
          /\ stage' = "queueing"
          /\ UNCHANGED <<capacity, jobsArray, beginIndex, activeThreads, wpc, at, batch>>
      BY <1>12 DEF BeginRound
    <2>2. jobs' \in Seq(Job) /\ Len(jobs') = 0
      BY <2>1, EmptySeq
    <2> QED BY <1>1, <2>1, <2>2 DEF TypeOK, LevelsInv, Stages
  <1> QED BY <1>7, <1>8, <1>9, <1>10, <1>11, <1>12 DEF LoopStep

\* A work stays within the jobs of the round and the batches of its job.
LEMMA WorkKeepsTypes ==
  ASSUME PoolInv, TypeInv, NEW w \in Worker, WorkStep(w)
  PROVE  TypeInv'
  <1> USE DEF TypeInv, PoolInv
  <1> DEFINE Labels == {"idle", "load", "claim", "run", "advance", "done"}
  <1>1. UNCHANGED <<jobs, capacity, jobsArray, readerLevel, activeThreads, stage>>
    BY DEF WorkStep, Load, Claim, Run, Advance, jobVars
  <1>2. LevelsInv' /\ wpc' \in [Worker -> Labels]
    BY <1>1 DEF LevelsInv, WorkStep, Load, Claim, Run, Advance, GoTo, TypeOK
  <1>3. /\ MaxJobs \in Nat /\ MaxBatches \in Nat
        /\ Len(jobs) \in Nat /\ Len(jobs) <= MaxJobs
        /\ \A h \in 1 .. Len(jobs) : jobs[h] \in Job
    BY PoolAssumption, JobsLength, ElementOfSeq DEF TypeOK
  <1>4. ASSUME /\ readIndex' \in 0 .. MaxJobs /\ at' \in [Worker -> 0 .. MaxJobs]
               /\ batch' \in [Worker -> 0 .. MaxBatches]
               /\ beginIndex' \in Seq(0 .. MaxBatches)
               /\ ran' \subseteq (1 .. MaxJobs) \X (0 .. MaxBatches)
        PROVE  TypeInv'
    BY <1>1, <1>2, <1>4 DEF TypeOK
  <1>5. /\ readIndex \in 0 .. MaxJobs /\ at \in [Worker -> 0 .. MaxJobs]
        /\ batch \in [Worker -> 0 .. MaxBatches]
        /\ beginIndex \in Seq(0 .. MaxBatches)
        /\ ran \subseteq (1 .. MaxJobs) \X (0 .. MaxBatches)
    BY DEF TypeOK
  <1>6. CASE Load(w)
    <2>1. UNCHANGED <<readIndex, batch, beginIndex, ran>> /\ at' = [at EXCEPT ![w] = readIndex]
      BY <1>6 DEF Load, jobVars
    <2> QED BY <1>4, <1>5, <2>1
  <1>7. ASSUME wpc[w] \in {"claim", "run", "advance"}
        PROVE  /\ Current(w) \in 1 .. Len(jobs) /\ Current(w) \in 1 .. MaxJobs
               /\ at[w] < MaxJobs /\ at[w] \in Nat /\ Arrays
    BY <1>3, <1>5, <1>7, AtWork
  <1>8. CASE Claim(w)
    <2> DEFINE h == Current(w)
    <2>1. h \in 1 .. Len(jobs) /\ Arrays /\ UNCHANGED <<readIndex, at, ran>>
      BY <1>7, <1>8 DEF Claim
    <2>2. CASE beginIndex[h] < jobs[h].batchCount
      <3>1. /\ batch' = [batch EXCEPT ![w] = beginIndex[h]]
            /\ beginIndex' = [beginIndex EXCEPT ![h] = @ + 1]
        BY <1>8, <2>2 DEF Claim
      <3>2. beginIndex[h] \in Nat /\ beginIndex \in [1 .. Len(jobs) -> Nat]
        BY <2>1 DEF Arrays
      <3>3. jobs[h].batchCount \in 1 .. MaxBatches
        BY <1>3, <2>1 DEF Job
      <3>4. beginIndex[h] \in 0 .. MaxBatches /\ beginIndex[h] + 1 \in 0 .. MaxBatches
        BY <1>3, <2>2, <3>2, <3>3
      <3> HIDE DEF h
      <3>5. beginIndex' \in Seq(0 .. MaxBatches)
        <4>1. beginIndex \in [1 .. Len(beginIndex) -> 0 .. MaxBatches]
              /\ Len(beginIndex) \in Nat
          BY <1>5, LenProperties
        <4>2. beginIndex' \in [1 .. Len(beginIndex) -> 0 .. MaxBatches]
          BY <3>1, <3>4, <4>1
        <4> QED BY <4>1, <4>2, SeqDef
      <3>6. batch' \in [Worker -> 0 .. MaxBatches]
        BY <1>5, <3>1, <3>4
      <3> QED BY <1>4, <1>5, <2>1, <3>5, <3>6
    <2>3. CASE ~(beginIndex[h] < jobs[h].batchCount)
      <3>1. UNCHANGED <<batch, beginIndex>>
        BY <1>8, <2>3 DEF Claim
      <3> QED BY <1>4, <1>5, <2>1, <3>1
    <2> QED BY <2>2, <2>3
  <1>9. CASE Run(w)
    <2>1. /\ UNCHANGED <<readIndex, at, batch, beginIndex>>
          /\ ran' = ran \cup {<<Current(w), batch[w]>>} /\ wpc[w] = "run"
      BY <1>9 DEF Run, jobVars
    <2>2. <<Current(w), batch[w]>> \in (1 .. MaxJobs) \X (0 .. MaxBatches)
      BY <1>5, <1>7, <2>1
    <2> QED BY <1>4, <1>5, <2>1, <2>2
  <1>10. CASE Advance(w)
    <2>1. /\ UNCHANGED <<at, batch, beginIndex, ran>> /\ wpc[w] = "advance"
          /\ readIndex' = IF readIndex = at[w] THEN readIndex + 1 ELSE readIndex
      BY <1>10 DEF Advance, Advances, jobVars
    <2>2. readIndex' \in 0 .. MaxJobs
      BY <1>3, <1>5, <1>7, <2>1
    <2> QED BY <1>4, <1>5, <2>1, <2>2
  <1> QED BY <1>6, <1>8, <1>9, <1>10 DEF WorkStep

\* The array of jobs, its order, the counters and indices of the works keep to the
\* number of jobs and of batches: no level is above the number of jobs, and none of the
\* indices the works share leaves the arrays.
THEOREM PoolTypesCorrect == Spec => []TypeOK
  <1>1. Init => TypeInv
    <2> SUFFICES ASSUME Init PROVE TypeInv
      OBVIOUS
    <2>1. Len(jobs) = 0 /\ MaxJobs \in Nat /\ MaxBatches \in Nat /\ Cardinality(Worker) \in Nat
      BY PoolAssumption, FS_CardinalityType DEF Init
    <2>2. 0 \in 0 .. Larger(1, Cardinality(Worker)) /\ 0 \in 0 .. MaxJobs /\ 0 \in 0 .. MaxBatches
      BY <2>1 DEF Larger
    <2>3. jobs \in Seq(Job) /\ jobsArray \in Seq(1 .. MaxJobs) /\ beginIndex \in Seq(0 .. MaxBatches)
      BY EmptySeq DEF Init
    <2> QED BY <2>1, <2>2, <2>3 DEF Init, TypeInv, TypeOK, LevelsInv, Stages
  <1>2. PoolInv /\ TypeInv /\ [Next]_poolVars => TypeInv'
    <2> SUFFICES ASSUME PoolInv, TypeInv, [Next]_poolVars PROVE TypeInv'
      OBVIOUS
    <2>1. CASE LoopStep \/ (\E n \in 1 .. MaxJobs : SubmitQueue(n)) \/ BeginRound
      BY <2>1, LoopKeepsTypes
    <2>2. CASE PrepareJobs
      BY <2>2, PrepareJobsKeepsTypes
    <2>3. CASE \E dep \in Dependencies, n \in 1 .. MaxBatches : Schedule(dep, n)
      BY <2>3, ScheduleKeepsTypes
    <2>4. CASE \E w \in Worker : WorkStep(w)
      BY <2>4, WorkKeepsTypes
    <2>5. CASE UNCHANGED poolVars
      BY <2>5 DEF poolVars, TypeInv, TypeOK, LevelsInv
    <2> QED BY <2>1, <2>2, <2>3, <2>4, <2>5 DEF Next, Client
  <1>3. TypeInv => TypeOK
    BY DEF TypeInv
  <1> QED BY <1>1, <1>2, <1>3, AlwaysPoolInv, PTL DEF Spec

--------------------------------------------------------------------------------
(* The fences of the components: what they hold, that the manager is a client *)
(* JobPool allows, and that no job of it ever waits                            *)

\* Jobs and their queries go together; what a job's level is is of no matter.
JobsInv ==
  /\ \E S : jobs \in Seq(S)
  /\ context \in Seq(Query)
  /\ Len(context) = Len(jobs)

\* The fences of every component: a handle, and a list of them with a place left.
FencesInv ==
  \A type \in DOMAIN fences :
    /\ fences[type] \in [write : Nat, reads : Seq(Nat)]
    /\ Len(fences[type].reads) < MaximumReadJobHandle

\* Each component written has a fence that names a later job, or the same, that writes it.
WritersInv ==
  stage = "queueing" =>
    \A h \in 1 .. Len(jobs) : \A type \in Writes(context[h]) :
      /\ type \in DOMAIN fences
      /\ fences[type].write \in h .. Len(jobs)
      /\ type \in Writes(context[fences[type].write])

CDMInv == JobsInv /\ FencesInv /\ WritersInv

\* No job has a level: a dependency only counts when its job has one, and the first
\* job of a round has none.
NoJobWaits == \A h \in 1 .. Len(jobs) : jobs[h].level = 0

\* What holds of a client that schedules through the manager.
ManagedInv == PoolInv /\ CDMInv /\ FencesOfThisRound /\ NoJobWaits

--------------------------------------------------------------------------------
(* Joining sequences *)

\* Induction over the naturals, for a set.
LEMMA NaturalsBySet ==
  ASSUME NEW S, 0 \in S, \A n \in Nat : n \in S => n + 1 \in S
  PROVE  \A n \in Nat : n \in S
  <1>1. PICK R : IsWellFoundedOn(R, Nat) /\ \A n \in Nat : <<n, n + 1>> \in R
    <2>1. \A n \in Nat : <<n, n + 1>> \in OpToRel(<, Nat)
      BY DEF OpToRel
    <2> QED BY <2>1, NatLessThanWellFounded
  <1> DEFINE Out == Nat \ S
  <1>2. SUFFICES ASSUME Out # {} PROVE FALSE
    OBVIOUS
  <1>3. PICK x \in Out : \A y \in Out : ~(<<y, x>> \in R)
    <2>1. Out \subseteq Nat
      OBVIOUS
    <2> HIDE DEF Out
    <2> QED BY <1>1, <1>2, <2>1, WFMin
  <1>4. x \in Nat /\ x # 0 /\ x - 1 \in Nat /\ (x - 1) + 1 = x
    BY <1>3
  <1>5. x - 1 \notin S
    BY <1>3, <1>4
  <1>6. <<x - 1, (x - 1) + 1>> \in R
    BY <1>1, <1>4
  <1> QED BY <1>3, <1>4, <1>5, <1>6

\* What the sequences joined hold, all of them hold.
LEMMA ConcatenatedType ==
  ASSUME NEW S, NEW seqs, Len(seqs) \in Nat,
         \A i \in 1 .. Len(seqs) : seqs[i] \in Seq(S)
  PROVE  Concatenated(seqs) \in Seq(S)
  <1> DEFINE N == Len(seqs)
             Joined(g, n) == IF n = 0 THEN <<>> ELSE g[n - 1] \o seqs[n]
             UpTo(m) == {g \in [0 .. m -> Seq(S)] : \A n \in 0 .. m : g[n] = Joined(g, n)}
             Good == {m \in Nat : m <= N => UpTo(m) # {}}
  <1>1. 0 \in Good
    <2> DEFINE h == [n \in 0 .. 0 |-> <<>>]
    <2>1. h \in [0 .. 0 -> Seq(S)] /\ \A n \in 0 .. 0 : n = 0 /\ h[n] = <<>>
      BY EmptySeq
    <2> HIDE DEF h
    <2>2. h \in UpTo(0)
      BY <2>1
    <2> QED BY <2>2
  <1>2. ASSUME NEW m \in Nat, m \in Good
        PROVE  m + 1 \in Good
    <2> SUFFICES ASSUME m + 1 <= N
                 PROVE  UpTo(m + 1) # {}
      <3> HIDE DEF UpTo
      <3> QED OBVIOUS
    <2>1. PICK g : g \in UpTo(m)
      <3> HIDE DEF UpTo
      <3> QED BY <1>2
    <2> DEFINE h == [n \in 0 .. m + 1 |-> IF n = m + 1 THEN g[m] \o seqs[m + 1] ELSE g[n]]
    <2>2. \A n \in 0 .. m : h[n] = g[n] /\ g[n] = Joined(g, n) /\ g[n] \in Seq(S)
      <3>1. g \in [0 .. m -> Seq(S)] /\ \A n \in 0 .. m : g[n] = Joined(g, n)
        BY <2>1
      <3>2. \A n \in 0 .. m : h[n] = g[n]
        OBVIOUS
      <3> HIDE DEF h
      <3> QED BY <3>1, <3>2
    <2>3. h[m + 1] = g[m] \o seqs[m + 1]
      OBVIOUS
    <2>4. g[m] \o seqs[m + 1] \in Seq(S)
      <3>1. g[m] \in Seq(S) /\ seqs[m + 1] \in Seq(S)
        <4>1. m \in 0 .. m /\ m + 1 \in 1 .. N
          OBVIOUS
        <4> HIDE DEF h
        <4> QED BY <2>2, <4>1
      <3> HIDE DEF h
      <3> QED BY <3>1, ConcatProperties
    <2>5. h \in [0 .. m + 1 -> Seq(S)]
      <3>1. \A n \in 0 .. m + 1 : n # m + 1 => n \in 0 .. m
        OBVIOUS
      <3> QED BY <2>2, <2>4, <3>1
    <2> HIDE DEF h
    <2>6. ASSUME NEW n \in 0 .. m + 1
          PROVE  h[n] = Joined(h, n)
      <3>1. CASE n = m + 1
        <4>1. n # 0 /\ n - 1 = m
          BY <3>1
        <4>2. h[m] = g[m]
          BY <2>2
        <4> QED BY <2>3, <3>1, <4>1, <4>2
      <3>2. CASE n \in 0 .. m
        <4>1. n # 0 => n - 1 \in 0 .. m
          BY <3>2
        <4> QED BY <2>2, <3>2, <4>1
      <3> QED BY <3>1, <3>2
    <2>7. h \in UpTo(m + 1)
      BY <2>5, <2>6
    <2> QED BY <2>7
  <1>3. PICK g : g \in UpTo(N)
    <2> HIDE DEF Good
    <2>1. \A m \in Nat : m \in Good
      BY <1>1, <1>2, NaturalsBySet
    <2>2. N \in Good
      BY <2>1
    <2> HIDE DEF UpTo
    <2> QED BY <2>2 DEF Good
  <1> DEFINE f == CHOOSE r : r = [n \in 0 .. N |-> Joined(r, n)]
  <1>4. g = [n \in 0 .. N |-> Joined(g, n)]
    BY <1>3
  <1>5. f = [n \in 0 .. N |-> Joined(f, n)]
    BY <1>4
  <1> HIDE DEF f
  <1>6. \A n \in 0 .. N : f[n] = Joined(f, n)
    BY <1>5
  <1> DEFINE T == {n \in Nat : n <= N => f[n] \in Seq(S)}
  <1>7. 0 \in T
    <2>1. f[0] = <<>>
      BY <1>6
    <2> QED BY <2>1, EmptySeq
  <1>8. ASSUME NEW n \in Nat, n \in T
        PROVE  n + 1 \in T
    <2> SUFFICES ASSUME n + 1 <= N
                 PROVE  f[n + 1] \in Seq(S)
      OBVIOUS
    <2>1. f[n] \in Seq(S) /\ seqs[n + 1] \in Seq(S)
      BY <1>8
    <2>2. n + 1 \in 0 .. N /\ n + 1 # 0 /\ (n + 1) - 1 = n
      OBVIOUS
    <2>3. f[n + 1] = f[n] \o seqs[n + 1]
      BY <1>6, <2>2
    <2> QED BY <2>1, <2>3, ConcatProperties
  <1>9. N \in T
    <2> HIDE DEF T
    <2> QED BY <1>7, <1>8, NaturalsBySet
  <1>10. Concatenated(seqs) = f[N]
    BY DEF Concatenated, f
  <1> QED BY <1>9, <1>10
--------------------------------------------------------------------------------
(* Helpers of the manager *)

\* combineDependencies returns one of the handles it was given, or none.
LEMMA CombineReturnsHandle ==
  ASSUME NEW js, NEW H, NEW handles \in Seq(H)
  PROVE  CombineDependencies(js, handles) \in H \cup {NoJob}
  <1> DEFINE level(i) == IF handles[i] = NoJob THEN 0 ELSE js[handles[i]].level
             best == {i \in DOMAIN handles :
                        /\ level(i) > 0
                        /\ \A k \in DOMAIN handles :
                             level(k) <= level(i) /\ (k < i => level(k) < level(i))}
  <1>1. CASE best = {}
    BY <1>1 DEF CombineDependencies
  <1>2. CASE best # {}
    <2>1. (CHOOSE i \in best : TRUE) \in best
      BY <1>2
    <2>2. (CHOOSE i \in best : TRUE) \in DOMAIN handles
      BY <2>1
    <2>3. handles[CHOOSE i \in best : TRUE] \in H
      <3> HIDE DEF best
      <3> QED BY <2>2, LenProperties
    <2> QED BY <1>2, <2>3 DEF CombineDependencies
  <1> QED BY <1>1, <1>2

\* A reader is added or the list is cut down to one: there is a place left after it.
LEMMA AddReaderFits ==
  ASSUME NEW reads \in Seq(Nat), NEW handle \in Nat, Len(reads) < MaximumReadJobHandle
  PROVE  /\ AddReader(reads, handle) \in Seq(Nat)
         /\ Len(AddReader(reads, handle)) < MaximumReadJobHandle
  <1>1. Append(reads, handle) \in Seq(Nat) /\ Len(Append(reads, handle)) = Len(reads) + 1
        /\ Len(reads) \in Nat
    BY AppendProperties, LenProperties
  <1>2. CASE Len(reads) + 1 = MaximumReadJobHandle
    <2> DEFINE one == CombineDependencies(jobs', Append(reads, handle))
    <2>1. one \in Nat
      <3>1. one \in Nat \cup {NoJob}
        BY <1>1, CombineReturnsHandle
      <3> HIDE DEF one
      <3> QED BY <3>1 DEF NoJob
    <2>2. AddReader(reads, handle) = <<one>>
      BY <1>2 DEF AddReader
    <2> HIDE DEF one
    <2>3. Len(AddReader(reads, handle)) = 1
      BY <2>2
    <2>4. 1 < MaximumReadJobHandle
      BY CDMAssumption
    <2>5. AddReader(reads, handle) \in Seq(Nat)
      BY <2>1, <2>2
    <2> QED BY <2>3, <2>4, <2>5
  <1>3. CASE Len(reads) + 1 # MaximumReadJobHandle
    <2>1. AddReader(reads, handle) = Append(reads, handle)
      BY <1>3 DEF AddReader
    <2> QED BY <1>1, <1>3, <2>1, CDMAssumption
  <1> QED BY <1>2, <1>3

--------------------------------------------------------------------------------
\* What a handle list holds, it holds after a reader of that kind was added.
LEMMA AddReaderType ==
  ASSUME NEW H, NoJob \in H, NEW reads \in Seq(H), NEW handle \in H
  PROVE  AddReader(reads, handle) \in Seq(H)
  <1>1. Append(reads, handle) \in Seq(H)
    BY AppendProperties
  <1> DEFINE one == CombineDependencies(jobs', Append(reads, handle))
  <1>2. one \in H
    BY <1>1, CombineReturnsHandle
  <1>3. AddReader(reads, handle) \in {<<one>>, Append(reads, handle)}
    BY DEF AddReader
  <1> HIDE DEF one
  <1>4. <<one>> \in Seq(H)
    BY <1>2
  <1> QED BY <1>1, <1>3, <1>4

\* Of jobs that have no level combineDependencies returns none.
LEMMA NoneCombined ==
  ASSUME NEW js, NEW H, NEW handles \in Seq(H), \A h \in H : h # NoJob => js[h].level = 0
  PROVE  CombineDependencies(js, handles) = NoJob
  <1> DEFINE level(i) == IF handles[i] = NoJob THEN 0 ELSE js[handles[i]].level
             best == {i \in DOMAIN handles :
                        /\ level(i) > 0
                        /\ \A k \in DOMAIN handles :
                             level(k) <= level(i) /\ (k < i => level(k) < level(i))}
  <1>1. ASSUME NEW i \in DOMAIN handles
        PROVE  level(i) = 0
    <2>1. handles[i] \in H
      BY LenProperties
    <2> QED BY <2>1
  <1>2. best = {}
    BY <1>1
  <1> QED BY <1>2 DEF CombineDependencies

\* The handles a fence hands out are of the round.
LEMMA HandlesForType ==
  ASSUME NEW H, NoJob \in H, NEW access, access.write \in BOOLEAN,
         \A type \in DOMAIN fences : fences[type].write \in H /\ fences[type].reads \in Seq(H)
  PROVE  HandlesFor(access) \in Seq(H)
  <1>1. CASE access.type \notin DOMAIN fences
    BY <1>1, EmptySeq DEF HandlesFor
  <1>2. CASE access.type \in DOMAIN fences
    <2>1. PICK fence : fence = fences[access.type]
      OBVIOUS
    <2>2. fence.write \in H /\ fence.reads \in Seq(H)
      BY <1>2, <2>1
    <2>3. <<fence.write>> \in Seq(H)
      BY <2>2
    <2>4. Reverse(fence.reads) \in Seq(H)
      <3>1. PICK n \in Nat : n = Len(fence.reads) /\ fence.reads \in [1 .. n -> H]
        BY <2>2, LenProperties
      <3>2. Reverse(fence.reads) = [i \in 1 .. n |-> fence.reads[(n - i) + 1]]
        BY <3>1 DEF Reverse
      <3>3. \A i \in 1 .. n : fence.reads[(n - i) + 1] \in H
        BY <3>1
      <3>4. Reverse(fence.reads) \in [1 .. n -> H]
        BY <3>2, <3>3
      <3> QED BY <3>1, <3>4, SeqDef
    <2>5. HandlesFor(access) = <<fence.write>> \o
            (IF access.write THEN Reverse(fence.reads) ELSE <<>>)
      BY <1>2, <2>1 DEF HandlesFor
    <2>6. CASE access.write
      BY <2>3, <2>4, <2>5, <2>6, ConcatProperties
    <2>7. CASE ~access.write
      BY <2>3, <2>5, <2>7, ConcatProperties, EmptySeq
    <2> QED BY <2>6, <2>7
  <1> QED BY <1>1, <1>2

--------------------------------------------------------------------------------
LEMMA InitCDMInv == CDMInit => CDMInv
  <1> SUFFICES ASSUME CDMInit PROVE CDMInv
    OBVIOUS
  <1> USE DEF CDMInit, Init
  <1>1. jobs \in Seq({}) /\ Len(jobs) = 0
    OBVIOUS
  <1> QED BY <1>1 DEF CDMInv, JobsInv, FencesInv, WritersInv

\* Steps that neither queue a job nor begin a round.
LEMMA OthersKeepCDMInv ==
  ASSUME CDMInv, UNCHANGED <<jobs, cdmVars>>, stage' = "queueing" => stage = "queueing"
  PROVE  CDMInv'
  BY DEF CDMInv, JobsInv, FencesInv, WritersInv, cdmVars

\* A round begins without fences.
LEMMA BeginQueueKeeps ==
  ASSUME CDMInv, BeginQueue
  PROVE  CDMInv'
  <1>1. jobs' = <<>> /\ context' = <<>> /\ fences' = <<>>
    BY DEF BeginQueue, BeginRound, Clear
  <1>2. jobs' \in Seq({}) /\ Len(jobs') = 0 /\ context' \in Seq(Query) /\ Len(context') = 0
    BY <1>1
  <1>3. JobsInv'
    BY <1>2 DEF JobsInv
  <1>4. FencesInv' /\ WritersInv'
    BY <1>1, <1>2 DEF FencesInv, WritersInv
  <1> QED BY <1>3, <1>4 DEF CDMInv

\* A job is queued and becomes the last writer, or a reader, of its components.
LEMMA ScheduleQueryKeeps ==
  ASSUME CDMInv, NEW q \in Query, NEW parallel \in BOOLEAN, ScheduleQuery(q, parallel)
  PROVE  CDMInv'
  <1> USE DEF CDMInv
  <1> DEFINE handle == Len(jobs) + 1
  <1>1. PICK S : jobs \in Seq(S)
    BY DEF JobsInv
  <1>2. PICK job : jobs' = Append(jobs, job)
    BY DEF ScheduleQuery, Schedule
  <1>3. stage = "queueing"
    BY DEF ScheduleQuery, Schedule
  <1>4. Len(jobs) \in Nat /\ Len(jobs') = handle /\ jobs' \in Seq(S \cup {job})
    <2>1. jobs \in Seq(S \cup {job})
      BY <1>1, SeqMonotonic
    <2> QED BY <1>2, <2>1, AppendProperties, LenProperties
  <1>5. /\ context' = Append(context, q) /\ context' \in Seq(Query) /\ Len(context') = handle
        /\ context'[handle] = q
        /\ \A h \in 1 .. Len(jobs) : context'[h] = context[h]
    BY AppendProperties DEF ScheduleQuery, JobsInv
  <1>6. JobsInv'
    BY <1>4, <1>5 DEF JobsInv
  <1>7. AddDependency(handle, q)
    BY DEF ScheduleQuery
  <1>8. DOMAIN fences' = DOMAIN fences \cup Reads(q) \cup Writes(q)
    BY <1>7 DEF AddDependency
  <1>9. ASSUME NEW type
        PROVE  /\ Fences(type) \in [write : Nat, reads : Seq(Nat)]
               /\ Len(Fences(type).reads) < MaximumReadJobHandle
    BY CDMAssumption DEF Fences, FencesInv, NoJob
  <1>10. FencesInv'
    <2> SUFFICES ASSUME NEW type \in DOMAIN fences'
                 PROVE  /\ fences'[type] \in [write : Nat, reads : Seq(Nat)]
                        /\ Len(fences'[type].reads) < MaximumReadJobHandle
      BY DEF FencesInv
    <2>1. CASE type \in Writes(q)
      <3>1. fences'[type] = [Fences(type) EXCEPT !.write = WriteFence(@, handle)]
        BY <1>7, <1>8, <2>1 DEF AddDependency
      <3>2. WriteFence(Fences(type).write, handle) \in Nat
        BY <1>4 DEF WriteFence
      <3> QED BY <1>9, <3>1, <3>2
    <2>2. CASE type \in Reads(q) \ Writes(q)
      <3>1. fences'[type] = [Fences(type) EXCEPT !.reads = AddReader(@, handle)]
        BY <1>7, <1>8, <2>2 DEF AddDependency
      <3>2. AddReader(Fences(type).reads, handle) \in Seq(Nat)
            /\ Len(AddReader(Fences(type).reads, handle)) < MaximumReadJobHandle
        BY <1>4, <1>9, AddReaderFits
      <3> QED BY <1>9, <3>1, <3>2
    <2>3. CASE type \notin Reads(q) \cup Writes(q)
      BY <1>7, <1>8, <2>3 DEF AddDependency, FencesInv
    <2> QED BY <2>1, <2>2, <2>3
  <1>11. WritersInv'
    <2> SUFFICES ASSUME NEW h \in 1 .. Len(jobs'), NEW type \in Writes(context'[h])
                 PROVE  /\ type \in DOMAIN fences'
                        /\ fences'[type].write \in h .. Len(jobs')
                        /\ type \in Writes(context'[fences'[type].write])
      BY DEF WritersInv
    <2>1. CASE type \in Writes(q)
      <3>1. fences'[type] = [Fences(type) EXCEPT !.write = WriteFence(@, handle)]
        BY <1>7, <1>8, <2>1 DEF AddDependency
      <3>2. fences'[type].write = handle
        BY <1>9, <3>1 DEF WriteFence
      <3> QED BY <1>4, <1>5, <1>8, <2>1, <3>2
    <2>2. CASE type \notin Writes(q)
      <3>1. h \in 1 .. Len(jobs) /\ type \in Writes(context[h])
        BY <1>4, <1>5, <2>2
      <3>2. /\ type \in DOMAIN fences /\ fences[type].write \in h .. Len(jobs)
            /\ type \in Writes(context[fences[type].write])
        BY <1>3, <3>1 DEF WritersInv
      <3>3. fences'[type].write = fences[type].write
        <4>1. CASE type \in Reads(q)
          <5>1. fences'[type] = [Fences(type) EXCEPT !.reads = AddReader(@, handle)]
            BY <1>7, <1>8, <2>2, <4>1 DEF AddDependency
          <5> QED BY <1>9, <3>2, <5>1 DEF Fences
        <4>2. CASE type \notin Reads(q)
          <5>1. type \in DOMAIN fences'
            BY <1>8, <3>2
          <5> QED BY <1>7, <1>8, <2>2, <4>2, <5>1 DEF AddDependency
        <4> QED BY <4>1, <4>2
      <3> QED BY <1>4, <1>5, <1>8, <3>1, <3>2, <3>3
    <2> QED BY <2>1, <2>2
  <1> QED BY <1>6, <1>10, <1>11

LEMMA NextKeepsCDMInv == CDMInv /\ [CDMNext]_<<poolVars, cdmVars>> => CDMInv'
  <1> SUFFICES ASSUME CDMInv, [CDMNext]_<<poolVars, cdmVars>> PROVE CDMInv'
    OBVIOUS
  <1>1. CASE BeginQueue
    BY <1>1, BeginQueueKeeps
  <1>2. CASE \E q \in Query, parallel \in BOOLEAN : ScheduleQuery(q, parallel)
    BY <1>2, ScheduleQueryKeeps
  <1>3. CASE ((\E n \in 1 .. MaxJobs : SubmitQueue(n)) \/ PrepareJobs) /\ UNCHANGED cdmVars
    BY <1>3, OthersKeepCDMInv DEF SubmitQueue, PrepareJobs
  <1>4. CASE LoopStep /\ UNCHANGED cdmVars
    BY <1>4, OthersKeepCDMInv
    DEF LoopStep, WakeThread, Sleep, QueueDone, AfterWork, WakeUp, Submit, jobVars
  <1>5. CASE (\E w \in Worker : WorkStep(w)) /\ UNCHANGED cdmVars
    BY <1>5, OthersKeepCDMInv DEF WorkStep, Load, Claim, Run, Advance, jobVars
  <1>6. CASE UNCHANGED <<poolVars, cdmVars>>
    BY <1>6, OthersKeepCDMInv DEF poolVars
  <1> QED BY <1>1, <1>2, <1>3, <1>4, <1>5, <1>6 DEF CDMNext, CDMClient

LEMMA AlwaysCDMInv == CDMSpec => []CDMInv
  BY InitCDMInv, NextKeepsCDMInv, PTL DEF CDMSpec

--------------------------------------------------------------------------------
(* The manager as a client of JobPool *)

\* getDependency finds handles of jobs that have no level, and returns none of them.
LEMMA DependencyIsNone ==
  ASSUME ManagedInv, stage = "queueing", NEW q \in Query
  PROVE  GetDependency(q) = NoJob
  <1> DEFINE H == {NoJob} \cup DOMAIN jobs
             lists == [i \in DOMAIN q.access |-> HandlesFor(q.access[i])]
  <1>1. ASSUME NEW type \in DOMAIN fences
        PROVE  fences[type].write \in H /\ fences[type].reads \in Seq(H)
    <2>1. /\ fences[type].write \in H /\ fences[type].reads \in Seq(Nat)
          /\ \A i \in DOMAIN fences[type].reads : fences[type].reads[i] \in H
      BY DEF ManagedInv, CDMInv, FencesInv, FencesOfThisRound
    <2>2. PICK n \in Nat : n = Len(fences[type].reads)
                          /\ fences[type].reads \in [1 .. n -> Nat]
      BY <2>1, LenProperties
    <2>3. fences[type].reads \in [1 .. n -> H]
      BY <2>1, <2>2
    <2> QED BY <2>1, <2>3, SeqDef
  <1>2. /\ q.access \in Seq(Access(q))
        /\ \A a \in Access(q) : a.write \in BOOLEAN
    BY CDMAssumption
  <1>3. Len(q.access) \in Nat /\ DOMAIN q.access = 1 .. Len(q.access)
    BY <1>2, LenProperties
  <1>4. ASSUME NEW i \in DOMAIN q.access
        PROVE  HandlesFor(q.access[i]) \in Seq(H)
    <2>1. q.access[i].write \in BOOLEAN
      BY <1>2 DEF Access
    <2> HIDE DEF H
    <2>2. NoJob \in H
      BY DEF H
    <2> QED BY <1>1, <2>1, <2>2, HandlesForType
  <1>5. Concatenated(lists) \in Seq(H)
    <2> HIDE DEF H
    <2>1. lists \in Seq(Seq(H))
      <3>1. lists \in [1 .. Len(q.access) -> Seq(H)]
        BY <1>3, <1>4
      <3> HIDE DEF lists
      <3> QED BY <1>3, <3>1, SeqDef
    <2>2. Len(lists) \in Nat /\ \A i \in 1 .. Len(lists) : lists[i] \in Seq(H)
      <3> HIDE DEF lists
      <3> QED BY <2>1, LenProperties, ElementOfSeq
    <2> HIDE DEF lists
    <2> QED BY <2>2, ConcatenatedType
  <1>6. \A h \in H : h # NoJob => jobs[h].level = 0
    BY JobsLength DEF ManagedInv, NoJobWaits, PoolInv
  <1>7. GetDependency(q) = CombineDependencies(jobs, Concatenated(lists))
    BY DEF GetDependency
  <1> HIDE DEF H, lists
  <1> QED BY <1>5, <1>6, <1>7, NoneCombined

\* A query becomes a job that depends on none.
LEMMA ScheduleQuerySchedules ==
  ASSUME ManagedInv, NEW q \in Query, NEW parallel \in BOOLEAN, ScheduleQuery(q, parallel)
  PROVE  \E n \in 1 .. MaxBatches : Schedule(NoJob, n)
  <1>1. stage = "queueing"
    BY DEF ScheduleQuery, Schedule
  <1>2. Schedule(NoJob, IF parallel THEN q.chunks ELSE 1)
    BY <1>1, DependencyIsNone DEF ScheduleQuery
  <1>3. q.chunks \in 1 .. MaxBatches
    BY CDMAssumption
  <1>4. (IF parallel THEN q.chunks ELSE 1) \in 1 .. MaxBatches
    BY <1>3, PoolAssumption
  <1> QED BY <1>2, <1>4

\* Whatever the manager does, JobPool allows.
LEMMA ManagedStepIsPoolStep ==
  ASSUME ManagedInv, [CDMNext]_<<poolVars, cdmVars>>
  PROVE  [Next]_poolVars
  <1>1. CASE BeginQueue
    BY <1>1 DEF BeginQueue, Next, Client
  <1>2. ASSUME NEW q \in Query, NEW parallel \in BOOLEAN, ScheduleQuery(q, parallel)
        PROVE  Next
    BY <1>2, ScheduleQuerySchedules, PoolAssumption DEF Next, Client
  <1>3. CASE ((\E n \in 1 .. MaxJobs : SubmitQueue(n)) \/ PrepareJobs) /\ UNCHANGED cdmVars
    BY <1>3 DEF Next, Client
  <1>4. CASE (LoopStep \/ \E w \in Worker : WorkStep(w)) /\ UNCHANGED cdmVars
    BY <1>4 DEF Next
  <1>5. CASE UNCHANGED <<poolVars, cdmVars>>
    BY <1>5
  <1> QED BY <1>1, <1>2, <1>3, <1>4, <1>5 DEF CDMNext, CDMClient

\* The fences are of the round: jobs begin, or go on, only with those that were queued.
LEMMA OthersKeepFences ==
  ASSUME ManagedInv, UNCHANGED <<jobs, cdmVars>>,
         stage' \in {"queueing", "prepared", "working"} =>
           stage \in {"queueing", "prepared", "working"}
  PROVE  FencesOfThisRound' /\ NoJobWaits'
  BY DEF ManagedInv, FencesOfThisRound, NoJobWaits, cdmVars

\* The job just queued has no level, and the fences that change name it.
LEMMA ScheduleQueryKeepsFences ==
  ASSUME ManagedInv, NEW q \in Query, NEW parallel \in BOOLEAN, ScheduleQuery(q, parallel)
  PROVE  FencesOfThisRound' /\ NoJobWaits'
  <1> DEFINE handle == Len(jobs) + 1
             H == {NoJob} \cup 1 .. handle
  <1>1. PICK n \in 1 .. MaxBatches : Schedule(NoJob, n)
    BY ScheduleQuerySchedules
  <1>2. stage = "queueing" /\ jobs' = Append(jobs, [level |-> 0, batchCount |-> n])
    BY <1>1 DEF Schedule
  <1>3. PICK S : jobs \in Seq(S)
    BY DEF ManagedInv, PoolInv, PoolType
  <1>4. /\ Len(jobs) \in Nat /\ Len(jobs') = handle /\ DOMAIN jobs' = 1 .. handle
        /\ DOMAIN jobs = 1 .. Len(jobs)
        /\ jobs'[handle] = [level |-> 0, batchCount |-> n]
        /\ \A h \in 1 .. Len(jobs) : jobs'[h] = jobs[h]
    BY <1>2, <1>3, LenProperties, AppendProperties
  <1>5. NoJobWaits'
    <2>1. \A h \in 1 .. handle : h = handle \/ h \in 1 .. Len(jobs)
      BY <1>4
    <2> QED BY <1>4, <2>1 DEF ManagedInv, NoJobWaits
  <1>6. AddDependency(handle, q)
    BY DEF ScheduleQuery
  <1>7. handle \in H /\ NoJob \in H /\ {NoJob} \cup DOMAIN jobs \subseteq H
    BY <1>4
  <1>8. ASSUME NEW type
        PROVE  Fences(type) \in [write : H, reads : Seq(H)]
    <2>1. CASE type \notin DOMAIN fences
      BY <1>7, <2>1, EmptySeq DEF Fences
    <2>2. CASE type \in DOMAIN fences
      <3>1. fences[type] \in [write : Nat, reads : Seq(Nat)]
        BY <2>2 DEF ManagedInv, CDMInv, FencesInv
      <3>2. /\ fences[type].write \in {NoJob} \cup DOMAIN jobs
            /\ \A i \in DOMAIN fences[type].reads :
                 fences[type].reads[i] \in {NoJob} \cup DOMAIN jobs
        BY <1>2, <2>2 DEF ManagedInv, FencesOfThisRound
      <3> HIDE DEF H
      <3>3. fences[type].write \in H
        BY <1>7, <3>2
      <3>4. PICK m \in Nat : m = Len(fences[type].reads)
                            /\ fences[type].reads \in [1 .. m -> Nat]
        BY <3>1, LenProperties
      <3>5. fences[type].reads \in [1 .. m -> H]
        BY <1>7, <3>2, <3>4
      <3>6. fences[type].reads \in Seq(H)
        BY <3>5, SeqDef
      <3> QED BY <2>2, <3>1, <3>3, <3>6 DEF Fences
    <2> QED BY <2>1, <2>2
  <1> HIDE DEF H
  <1>9. ASSUME NEW type \in DOMAIN fences'
        PROVE  fences'[type] \in [write : H, reads : Seq(H)]
    <2>1. DOMAIN fences' = DOMAIN fences \cup Reads(q) \cup Writes(q)
      BY <1>6 DEF AddDependency
    <2>2. CASE type \in Writes(q)
      <3>1. fences'[type] = [Fences(type) EXCEPT !.write = WriteFence(@, handle)]
        BY <1>6, <2>1, <2>2 DEF AddDependency
      <3>2. WriteFence(Fences(type).write, handle) \in H
        BY <1>7 DEF WriteFence
      <3> QED BY <1>8, <3>1, <3>2
    <2>3. CASE type \in Reads(q) \ Writes(q)
      <3>1. fences'[type] = [Fences(type) EXCEPT !.reads = AddReader(@, handle)]
        BY <1>6, <2>1, <2>3 DEF AddDependency
      <3>2. AddReader(Fences(type).reads, handle) \in Seq(H)
        BY <1>7, <1>8, AddReaderType
      <3> QED BY <1>8, <3>1, <3>2
    <2>4. CASE type \notin Reads(q) \cup Writes(q)
      <3>1. type \in DOMAIN fences /\ fences'[type] = Fences(type)
        BY <1>6, <2>1, <2>4 DEF AddDependency, Fences
      <3> QED BY <1>8, <3>1
    <2> QED BY <2>2, <2>3, <2>4
  <1>10. FencesOfThisRound'
    <2> SUFFICES ASSUME NEW type \in DOMAIN fences'
                 PROVE  /\ fences'[type].write \in H
                        /\ \A i \in DOMAIN fences'[type].reads : fences'[type].reads[i] \in H
      BY <1>4 DEF FencesOfThisRound, H
    <2>1. fences'[type].write \in H /\ fences'[type].reads \in Seq(H)
      BY <1>9
    <2> QED BY <2>1, LenProperties
  <1> QED BY <1>5, <1>10

LEMMA NextKeepsManagedInv == ManagedInv /\ [CDMNext]_<<poolVars, cdmVars>> => ManagedInv'
  <1> SUFFICES ASSUME ManagedInv, [CDMNext]_<<poolVars, cdmVars>> PROVE ManagedInv'
    OBVIOUS
  <1>1. PoolInv' /\ CDMInv'
    BY ManagedStepIsPoolStep, NextKeepsPoolInv, NextKeepsCDMInv DEF ManagedInv
  <1> SUFFICES FencesOfThisRound' /\ NoJobWaits'
    BY <1>1 DEF ManagedInv
  <1>2. CASE BeginQueue
    <2>1. Len(jobs') = 0 /\ fences' = <<>>
      BY <1>2 DEF BeginQueue, BeginRound, Clear
    <2> QED BY <2>1 DEF FencesOfThisRound, NoJobWaits
  <1>3. ASSUME NEW q \in Query, NEW parallel \in BOOLEAN, ScheduleQuery(q, parallel)
        PROVE  FencesOfThisRound' /\ NoJobWaits'
    BY <1>3, ScheduleQueryKeepsFences
  <1>4. CASE ((\E n \in 1 .. MaxJobs : SubmitQueue(n)) \/ PrepareJobs) /\ UNCHANGED cdmVars
    BY <1>4, OthersKeepFences DEF SubmitQueue, PrepareJobs
  <1>5. CASE WakeThread /\ UNCHANGED cdmVars
    <2>1. stage = "asleep" /\ ~JobsLeft
      BY <1>5 DEF WakeThread, ManagedInv, PoolInv, ThreadsInv, ActiveThreads, StageInv
    <2>2. UNCHANGED <<jobs, cdmVars>> /\ stage' = "systems"
      BY <1>5, <2>1 DEF WakeThread, WakeUp, jobVars
    <2> QED BY <2>2, OthersKeepFences
  <1>6. CASE (Sleep \/ QueueDone) /\ UNCHANGED cdmVars
    BY <1>6, OthersKeepFences DEF Sleep, QueueDone, WakeUp, Submit, jobVars
  <1>7. ASSUME NEW w \in Worker, AfterWork(w), UNCHANGED cdmVars
        PROVE  FencesOfThisRound' /\ NoJobWaits'
    <2>1. stage = "working" /\ UNCHANGED <<jobs, cdmVars>>
      BY <1>7 DEF AfterWork, ManagedInv, PoolInv, StageInv, jobVars
    <2> QED BY <2>1, OthersKeepFences
  <1>8. CASE (\E w \in Worker : WorkStep(w)) /\ UNCHANGED cdmVars
    BY <1>8, OthersKeepFences DEF WorkStep, Load, Claim, Run, Advance, jobVars
  <1>9. CASE UNCHANGED <<poolVars, cdmVars>>
    BY <1>9, OthersKeepFences DEF poolVars
  <1> QED BY <1>2, <1>3, <1>4, <1>5, <1>6, <1>7, <1>8, <1>9 DEF CDMNext, CDMClient, LoopStep

LEMMA InitManagedInv == CDMInit => ManagedInv
  <1> SUFFICES ASSUME CDMInit PROVE ManagedInv
    OBVIOUS
  <1>1. PoolInv /\ CDMInv
    BY InitPoolInv, InitCDMInv DEF CDMInit
  <1>2. Len(jobs) = 0 /\ fences = <<>>
    BY DEF CDMInit, Init
  <1> QED BY <1>1, <1>2 DEF ManagedInv, FencesOfThisRound, NoJobWaits

LEMMA AlwaysManagedInv == CDMSpec => []ManagedInv
  BY InitManagedInv, NextKeepsManagedInv, PTL DEF CDMSpec

\* Jobs queued through the manager are handled as JobPool says: what is proved of its
\* rounds holds with the manager's jobs.
THEOREM ManagerImplementsJobPool == CDMSpec => Spec
  <1>1. CDMInit => Init
    BY DEF CDMInit
  <1>2. ManagedInv /\ [CDMNext]_<<poolVars, cdmVars>> => [Next]_poolVars
    BY ManagedStepIsPoolStep
  <1> QED BY <1>1, <1>2, AlwaysManagedInv, PTL DEF CDMSpec, Spec

\* A handle that a fence hands to combineDependencies names a job of this round.
THEOREM FencesNameJobsOfRound == CDMSpec => []FencesOfThisRound
  <1>1. ManagedInv => FencesOfThisRound
    BY DEF ManagedInv
  <1> QED BY <1>1, AlwaysManagedInv, PTL

\* Whatever the queries, getDependency never makes a job wait for another: as long as no
\* job has a level combineDependencies returns none, and no job ever gets one.
THEOREM JobsNeverWait == CDMSpec => []NoJobWaits
  <1>1. ManagedInv => NoJobWaits
    BY DEF ManagedInv
  <1> QED BY <1>1, AlwaysManagedInv, PTL

\* However many jobs of a round read a component, there is a place for the next reader.
THEOREM ReadersAlwaysFit == CDMSpec => []ReadersFit
  <1>1. CDMInv => ReadersFit
    BY DEF CDMInv, FencesInv, ReadersFit
  <1> QED BY <1>1, AlwaysCDMInv, PTL

\* Whatever was queued before, the write fence of a component is its last writer.
THEOREM LastWriterFenced == CDMSpec => []WriteFenceIsLastWriter
  <1>1. CDMInv => WriteFenceIsLastWriter
    <2> SUFFICES ASSUME CDMInv, stage = "queueing",
                        NEW h \in DOMAIN jobs, NEW type \in Writes(context[h])
                 PROVE  /\ fences[type].write >= h
                        /\ type \in Writes(context[fences[type].write])
      BY DEF WriteFenceIsLastWriter
    <2>1. h \in 1 .. Len(jobs) /\ Len(jobs) \in Nat
      BY LenProperties DEF CDMInv, JobsInv
    <2> QED BY <2>1 DEF CDMInv, WritersInv
  <1> QED BY <1>1, AlwaysCDMInv, PTL

--------------------------------------------------------------------------------
(* The engine thread: the systems run alone, no request is slept on, the       *)
(* arrays have room for a round                                                 *)

\* The engine thread is out of uv_run only while the systems have the engine.
LoopInv ==
  /\ pc # "poll" => stage = "systems"
  /\ bitmask \subseteq Request
  /\ glock \in Nat

\* What is scheduled waits for the dispatch, or for the worker that queues it, in
\* arrays that have room for it.
QueueInv ==
  /\ scheduleQueue \in Seq([query : Query, parallel : BOOLEAN])
  /\ Len(scheduleQueue) <= MaxJobs
  /\ capacity \in Nat
  /\ \/ scheduleQueue = <<>>
     \/ pc \in {"clearTimer", "clearRender", "dispatch"}
     \/ stage \in {"submitted", "queueing"}
  /\ stage = "submitted" => Len(scheduleQueue) <= capacity
  /\ stage = "queueing" => Len(jobs) + Len(scheduleQueue) <= capacity

\* Somebody is still to make wakeThread run.
WakeDue == wakecall \/ gfx = "send" \/ mainThread = "send"

\* The requests iterate_systems has looked for and not found, at each of its steps.
LookedFor ==
  IF pc = "checkTimer" THEN {"Exit"}
  ELSE IF pc = "checkRender" THEN {"Exit", "Timer"}
  ELSE IF pc = "leave" THEN Request
  ELSE {}

\* A request made behind the engine's back is followed by a wake.
RequestsInv ==
  /\ bitmask \cap LookedFor # {} => WakeDue
  /\ pc = "poll" /\ stage = "asleep" /\ bitmask # {} => WakeDue

\* A request to render that the engine may still answer is of a render thread that
\* waits, and glock has not been posted since it was made.
RenderInv ==
  pc \notin Stopped =>
    /\ glock <= 1
    /\ pc = "update" \/ ("Render" \in bitmask /\ pc # "clearRender") =>
         gfx \in {"send", "wait"} /\ glock = 0
    /\ gfx \in {"check", "set", "gone"} => glock = 0

EngineInv == LoopInv /\ QueueInv /\ RequestsInv /\ RenderInv

--------------------------------------------------------------------------------
(* The engine as a client of the dependency manager *)

\* While the systems have the engine no step of a worker, nor a callback, is enabled.
LEMMA WorkersStill ==
  ASSUME PoolInv, stage = "systems"
  PROVE  /\ \A w \in Worker : wpc[w] = "idle"
         /\ activeThreads = 1
  BY DEF PoolInv, StageInv, ThreadsInv, ActiveThreads

\* Each step is one that a client of the dependency manager may take, or none of its.
LEMMA EngineStepIsManagedStep ==
  ASSUME EngineInv, [EngineNext]_vars
  PROVE  [CDMNext]_<<poolVars, cdmVars>>
  <1>1. CASE on_fixed_timer \/ CheckRequests \/ Destroy \/ FixedUpdate \/ Update
             \/ ClearRequest \/ runThread \/ RenderThread \/ MainThread \/ CloseWindow
    BY <1>1 DEF on_fixed_timer, CheckRequests, Check, Destroy, FixedUpdate, Update, CallSystems,
                ClearRequest, ClearBit, runThread, RenderThread, MainThread, CloseWindow
  <1>2. CASE wakeThread
    BY <1>2 DEF wakeThread, TryWake, CDMNext, LoopStep
  <1>3. CASE after_queue_jobs
    BY <1>3 DEF after_queue_jobs, CDMNext, LoopStep
  <1>4. ASSUME NEW w \in Worker, after_work_jobs(w)
        PROVE  CDMNext
    BY <1>4 DEF after_work_jobs, CDMNext, LoopStep
  <1>5. CASE Dispatch
    <2>1. CASE scheduleQueue = <<>>
      BY <1>5, <2>1 DEF Dispatch
    <2>2. CASE scheduleQueue # <<>>
      <3>1. Len(scheduleQueue) \in 1 .. MaxJobs
        BY <2>2, LenProperties, EmptySeq, PoolAssumption DEF EngineInv, QueueInv
      <3> QED BY <1>5, <2>2, <3>1 DEF Dispatch, CDMNext, CDMClient
    <2> QED BY <2>1, <2>2
  <1>6. CASE Leave
    BY <1>6 DEF Leave, CDMNext, LoopStep
  <1>7. CASE queue_jobs
    <2>1. CASE BeginQueue
      BY <2>1 DEF CDMNext, CDMClient
    <2>2. CASE /\ scheduleQueue # <<>>
               /\ ScheduleQuery(Head(scheduleQueue).query, Head(scheduleQueue).parallel)
      <3>1. Head(scheduleQueue) \in [query : Query, parallel : BOOLEAN]
        BY <2>2, HeadTailProperties DEF EngineInv, QueueInv
      <3> QED BY <2>2, <3>1 DEF CDMNext, CDMClient
    <2>3. CASE PrepareJobs /\ UNCHANGED cdmVars
      BY <2>3 DEF CDMNext, CDMClient
    <2> QED BY <1>7, <2>1, <2>2, <2>3 DEF queue_jobs
  <1>8. ASSUME NEW w \in Worker, work_jobs(w)
        PROVE  CDMNext
    BY <1>8 DEF work_jobs, CDMNext
  <1>9. CASE UNCHANGED vars
    BY <1>9 DEF vars
  <1> QED BY <1>1, <1>2, <1>3, <1>4, <1>5, <1>6, <1>7, <1>8, <1>9
          DEF EngineNext, Callback, iterate_systems

--------------------------------------------------------------------------------
(* What each kind of step keeps *)

\* Another thread asks for something, or the timer does, or the user closes the window.
LEMMA OthersKeep ==
  ASSUME EngineInv, on_fixed_timer \/ RenderThread \/ MainThread \/ CloseWindow
  PROVE  EngineInv'
  <1> USE DEF EngineInv
  <1>1. UNCHANGED <<poolVars, cdmVars, pc, scheduleQueue>>
    BY DEF on_fixed_timer, RenderThread, MainThread, CloseWindow, loopVars
  <1>2. pc' = pc /\ scheduleQueue' = scheduleQueue /\ capacity' = capacity /\ jobs' = jobs
        /\ stage' = stage
    BY <1>1 DEF poolVars
  <1>3. QueueInv'
    BY <1>2 DEF QueueInv
  <1>4. CASE on_fixed_timer
    <2>1. pc = "poll" /\ bitmask' = bitmask \cup {"Timer"} /\ wakecall' = TRUE
          /\ gfx' = gfx /\ glock' = glock
      BY <1>4 DEF on_fixed_timer, hostVars
    <2> QED BY <1>2, <1>3, <2>1 DEF LoopInv, RequestsInv, WakeDue, RenderInv, Stopped, Request
  <1>5. CASE RenderThread
    <2>1. UNCHANGED mainThread
      BY <1>5 DEF RenderThread
    <2>2. CASE gfx = "check" /\ gfx' \in {"gone", "set"} /\ UNCHANGED <<bitmask, wakecall, glock>>
      BY <1>2, <1>3, <2>1, <2>2 DEF LoopInv, RequestsInv, LookedFor, WakeDue, RenderInv, Stopped
    <2>3. CASE gfx = "set" /\ SetBit("Render") /\ gfx' = "send" /\ UNCHANGED glock
      BY <1>2, <1>3, <2>1, <2>3
      DEF LoopInv, RequestsInv, LookedFor, WakeDue, RenderInv, Stopped, SetBit, Request
    <2>4. CASE gfx = "send" /\ Send /\ gfx' = "wait" /\ UNCHANGED glock
      BY <1>2, <1>3, <2>1, <2>4
      DEF LoopInv, RequestsInv, LookedFor, WakeDue, RenderInv, Stopped, Send
    <2>5. CASE gfx = "wait" /\ glock > 0 /\ glock' = glock - 1 /\ gfx' = "check"
               /\ UNCHANGED <<bitmask, wakecall>>
      BY <1>2, <1>3, <2>1, <2>5 DEF LoopInv, RequestsInv, LookedFor, WakeDue, RenderInv, Stopped
    <2> QED BY <1>5, <2>2, <2>3, <2>4, <2>5 DEF RenderThread
  <1>6. CASE MainThread
    <2>1. gfx' = gfx /\ glock' = glock
      BY <1>6 DEF MainThread
    <2>2. CASE mainThread = "wait" /\ mainThread' = "set" /\ UNCHANGED <<bitmask, wakecall>>
      BY <1>2, <1>3, <2>1, <2>2 DEF LoopInv, RequestsInv, LookedFor, WakeDue, RenderInv, Stopped
    <2>3. CASE mainThread = "set" /\ SetBit("Exit") /\ mainThread' = "send"
      BY <1>2, <1>3, <2>1, <2>3
      DEF LoopInv, RequestsInv, LookedFor, WakeDue, RenderInv, Stopped, SetBit, Request
    <2>4. CASE mainThread = "send" /\ Send /\ mainThread' = "join"
      BY <1>2, <1>3, <2>1, <2>4 DEF LoopInv, RequestsInv, LookedFor, WakeDue, RenderInv, Stopped, Send
    <2>5. CASE mainThread = "join" /\ mainThread' = "gone" /\ UNCHANGED <<bitmask, wakecall>>
      BY <1>2, <1>3, <2>1, <2>5 DEF LoopInv, RequestsInv, LookedFor, WakeDue, RenderInv, Stopped
    <2> QED BY <1>6, <2>2, <2>3, <2>4, <2>5 DEF MainThread
  <1>7. CASE CloseWindow
    <2>1. UNCHANGED <<bitmask, wakecall, gfx, glock, mainThread>>
      BY <1>7 DEF CloseWindow, loopVars
    <2> QED BY <1>2, <1>3, <2>1 DEF LoopInv, RequestsInv, LookedFor, WakeDue, RenderInv, Stopped
  <1> QED BY <1>4, <1>5, <1>6, <1>7

\* A callback ends with the engine in its sleep, at work, or with its systems.
LEMMA CallbackKeeps ==
  ASSUME EngineInv, PoolInv, Callback
  PROVE  EngineInv'
  <1> USE DEF EngineInv
  <1>1. pc = "poll" /\ UNCHANGED <<bitmask, scheduleQueue, hostVars>>
    BY DEF Callback, wakeThread, after_queue_jobs, after_work_jobs
  <1>2. bitmask' = bitmask /\ scheduleQueue' = scheduleQueue /\ gfx' = gfx /\ glock' = glock
    BY <1>1 DEF hostVars
  <1>3. /\ capacity' = capacity /\ jobs' = jobs
        /\ \/ stage' = stage /\ pc' = "poll" /\ stage # "asleep"
           \/ /\ stage \in {"asleep", "prepared", "empty", "working"}
              /\ stage' \in {"working", "systems"}
              /\ pc' = IF stage' = "systems" THEN "checkExit" ELSE "poll"
    <2>1. CASE wakeThread
      <3>1. activeThreads = 0 <=> stage = "asleep"
        BY DEF PoolInv, ThreadsInv, ActiveThreads
      <3>2. CASE activeThreads = 0
        BY <2>1, <3>1, <3>2 DEF wakeThread, TryWake, WakeThread, WakeUp, Submit, jobVars
      <3>3. CASE activeThreads # 0
        BY <2>1, <3>1, <3>3 DEF wakeThread, TryWake, poolVars
      <3> QED BY <3>2, <3>3
    <2>2. CASE after_queue_jobs
      BY <2>2 DEF after_queue_jobs, IterateIfOwner, QueueDone, WakeUp, Submit, jobVars
    <2>3. ASSUME NEW w \in Worker, after_work_jobs(w)
          PROVE  /\ capacity' = capacity /\ jobs' = jobs
                 /\ stage = "working" /\ stage' \in {"working", "systems"}
                 /\ pc' = IF stage' = "systems" THEN "checkExit" ELSE "poll"
      <3>1. stage = "working"
        BY <2>3 DEF after_work_jobs, AfterWork, PoolInv, StageInv
      <3> QED BY <2>3, <3>1
              DEF after_work_jobs, IterateIfOwner, AfterWork, WakeUp, Submit, jobVars
    <2> QED BY <2>1, <2>2, <2>3 DEF Callback
  <1>4. LoopInv'
    BY <1>2, <1>3 DEF LoopInv
  <1>5. QueueInv'
    BY <1>1, <1>2, <1>3 DEF QueueInv
  <1>6. RequestsInv'
    BY <1>3 DEF RequestsInv, LookedFor
  <1>7. RenderInv'
    BY <1>1, <1>2, <1>3 DEF RenderInv, Stopped
  <1> QED BY <1>4, <1>5, <1>6, <1>7

\* A job is queued, the room that was left for it is used.
LEMMA QueueJobsKeeps ==
  ASSUME EngineInv, PoolInv, queue_jobs
  PROVE  EngineInv'
  <1> USE DEF EngineInv
  <1>1. pc' = pc /\ bitmask' = bitmask /\ gfx' = gfx /\ glock' = glock
    BY DEF queue_jobs, hostVars
  <1>2. stage \in {"submitted", "queueing"} /\ stage' \in {"queueing", "empty", "prepared"}
    BY DEF queue_jobs, BeginQueue, BeginRound, ScheduleQuery, Schedule, PrepareJobs
  <1>3. pc = "poll"
    BY <1>2 DEF LoopInv
  <1>4. LoopInv' /\ RequestsInv' /\ RenderInv'
    BY <1>1, <1>2, <1>3 DEF LoopInv, RequestsInv, LookedFor, RenderInv, Stopped
  <1>5. QueueInv'
    <2>1. CASE BeginQueue /\ UNCHANGED scheduleQueue
      <3>1. stage = "submitted" /\ stage' = "queueing" /\ Len(jobs') = 0
            /\ scheduleQueue' = scheduleQueue /\ capacity' = capacity
        BY <2>1 DEF BeginQueue, BeginRound
      <3> QED BY <3>1 DEF QueueInv
    <2>2. CASE /\ scheduleQueue # <<>>
               /\ ScheduleQuery(Head(scheduleQueue).query, Head(scheduleQueue).parallel)
               /\ scheduleQueue' = Tail(scheduleQueue)
      <3>1. PICK job : jobs' = Append(jobs, job)
        BY <2>2 DEF ScheduleQuery, Schedule
      <3>2. Len(jobs) \in Nat /\ Len(jobs') = Len(jobs) + 1
        <4>1. jobs \in Seq([level : Nat, batchCount : Nat])
          BY DEF PoolInv, PoolType
        <4>2. jobs \in Seq([level : Nat, batchCount : Nat] \cup {job})
          BY <4>1, SeqMonotonic
        <4> QED BY <3>1, <4>2, AppendProperties, LenProperties
      <3>3. /\ scheduleQueue' \in Seq([query : Query, parallel : BOOLEAN])
            /\ Len(scheduleQueue) \in Nat /\ Len(scheduleQueue') = Len(scheduleQueue) - 1
        BY <2>2, HeadTailProperties, LenProperties DEF QueueInv
      <3>4. stage = "queueing" /\ stage' = "queueing"
            /\ capacity' = IF Len(jobs) < capacity THEN capacity ELSE capacity * 2
        BY <2>2 DEF ScheduleQuery, Schedule
      <3>5. Len(scheduleQueue) > 0
        BY <2>2, <3>3, EmptySeq DEF QueueInv
      <3>6. capacity' = capacity
        BY <3>2, <3>3, <3>4, <3>5 DEF QueueInv
      <3> QED BY <3>2, <3>3, <3>4, <3>6, PoolAssumption DEF QueueInv
    <2>3. CASE scheduleQueue = <<>> /\ PrepareJobs /\ UNCHANGED scheduleQueue
      <3>1. stage' \in {"empty", "prepared"} /\ scheduleQueue' = <<>> /\ capacity' = capacity
        BY <2>3 DEF PrepareJobs
      <3> QED BY <2>3, <3>1 DEF QueueInv
    <2> QED BY <2>1, <2>2, <2>3 DEF queue_jobs
  <1> QED BY <1>4, <1>5

\* A worker at its jobs touches nothing of the loop.
LEMMA WorkJobsKeeps ==
  ASSUME EngineInv, PoolInv, NEW w \in Worker, work_jobs(w)
  PROVE  EngineInv'
  <1>1. stage = "working"
    BY DEF work_jobs, WorkStep, Load, Claim, Run, Advance, PoolInv, StageInv
  <1>2. /\ pc' = pc /\ bitmask' = bitmask /\ wakecall' = wakecall
        /\ scheduleQueue' = scheduleQueue
        /\ gfx' = gfx /\ glock' = glock /\ mainThread' = mainThread
    BY DEF work_jobs, loopVars, hostVars
  <1>3. stage' = stage /\ capacity' = capacity /\ jobs' = jobs
    BY DEF work_jobs, WorkStep, Load, Claim, Run, Advance, jobVars
  <1> QED BY <1>1, <1>2, <1>3
          DEF EngineInv, LoopInv, QueueInv, RequestsInv, LookedFor, WakeDue, RenderInv, Stopped

\* A request not found is looked for no more before the engine sleeps.
LEMMA CheckKeeps ==
  ASSUME EngineInv, CheckRequests
  PROVE  EngineInv'
  <1> USE DEF EngineInv
  <1>1. UNCHANGED <<poolVars, cdmVars, bitmask, wakecall, scheduleQueue, hostVars>>
    BY DEF CheckRequests, Check
  <1>2. /\ bitmask' = bitmask /\ wakecall' = wakecall /\ scheduleQueue' = scheduleQueue
        /\ capacity' = capacity /\ jobs' = jobs /\ stage' = stage
        /\ gfx' = gfx /\ glock' = glock /\ mainThread' = mainThread
    BY <1>1 DEF poolVars, hostVars
  <1>3. \/ pc = "checkExit" /\ pc' = IF "Exit" \in bitmask THEN "destroy" ELSE "checkTimer"
        \/ pc = "checkTimer" /\ pc' = IF "Timer" \in bitmask THEN "fixedUpdate" ELSE "checkRender"
        \/ pc = "checkRender" /\ pc' = IF "Render" \in bitmask THEN "update" ELSE "leave"
    BY DEF CheckRequests, Check
  <1>4. LoopInv' /\ QueueInv' /\ RenderInv'
    BY <1>2, <1>3 DEF LoopInv, QueueInv, RenderInv, Stopped
  <1>5. RequestsInv'
    <2>1. pc' # "poll" /\ (WakeDue' <=> WakeDue)
      BY <1>2, <1>3 DEF WakeDue
    <2>2. bitmask' \cap LookedFor' \subseteq bitmask \cap LookedFor
      BY <1>2, <1>3 DEF LookedFor, Request
    <2> QED BY <2>1, <2>2 DEF RequestsInv
  <1> QED BY <1>4, <1>5

\* A pass over the systems: what it schedules fits a round, Exit may be requested.
LEMMA CallSystemsKeeps ==
  ASSUME EngineInv, NEW plans \in {FixedPlans, RenderPlans},
         NEW next \in {"clearTimer", "clearRender"}, CallSystems(plans, next),
         pc \in {"fixedUpdate", "update"}
  PROVE  /\ QueueInv' /\ RequestsInv'
         /\ stage' = "systems" /\ pc' = next /\ gfx' = gfx
         /\ bitmask' \subseteq Request /\ ("Render" \in bitmask' <=> "Render" \in bitmask)
  <1> USE DEF EngineInv
  <1>1. /\ pc' = next /\ capacity' = capacity /\ jobs' = jobs /\ stage' = stage /\ gfx' = gfx
        /\ bitmask' \in {bitmask, bitmask \cup {"Exit"}}
    BY DEF CallSystems, poolVars
  <1>2. stage = "systems" /\ scheduleQueue = <<>>
    BY DEF LoopInv, QueueInv
  <1>3. PICK plan \in plans : scheduleQueue' = <<>> \o plan
    BY <1>2 DEF CallSystems
  <1>4. plan \in Seq([query : Query, parallel : BOOLEAN]) /\ Len(plan) <= MaxJobs
    BY EngineAssumption
  <1>5. scheduleQueue' = plan
    BY <1>3, <1>4, ConcatEmptySeq
  <1>6. QueueInv'
    BY <1>1, <1>2, <1>4, <1>5 DEF QueueInv
  <1>7. RequestsInv'
    BY <1>1 DEF RequestsInv, LookedFor
  <1> QED BY <1>1, <1>2, <1>6, <1>7 DEF LoopInv, Request

\* The steps of iterate_systems but for the checks.
LEMMA SystemsKeep ==
  ASSUME EngineInv, PoolInv, Destroy \/ FixedUpdate \/ Update \/ ClearRequest \/ Dispatch \/ Leave
  PROVE  EngineInv'
  <1> USE DEF EngineInv
  <1>1. CASE Destroy
    <2>1. /\ pc = "destroy" /\ pc' = "stopped" /\ bitmask' = bitmask
          /\ scheduleQueue' = scheduleQueue /\ glock' = glock + 1
          /\ capacity' = capacity /\ jobs' = jobs /\ stage' = stage
      BY <1>1 DEF Destroy, poolVars
    <2> QED BY <2>1 DEF LoopInv, QueueInv, RequestsInv, LookedFor, RenderInv, Stopped
  <1>2. CASE FixedUpdate
    <2>1. pc = "fixedUpdate" /\ glock' = glock /\ CallSystems(FixedPlans, "clearTimer")
      BY <1>2 DEF FixedUpdate
    <2>2. /\ QueueInv' /\ RequestsInv'
          /\ stage' = "systems" /\ pc' = "clearTimer" /\ gfx' = gfx
          /\ bitmask' \subseteq Request /\ ("Render" \in bitmask' <=> "Render" \in bitmask)
      BY <2>1, CallSystemsKeeps
    <2> QED BY <2>1, <2>2 DEF LoopInv, RenderInv, Stopped
  <1>3. CASE Update
    <2>1. pc = "update" /\ glock' \in {glock, glock + 1} /\ CallSystems(RenderPlans, "clearRender")
      BY <1>3 DEF Update
    <2>2. /\ QueueInv' /\ RequestsInv'
          /\ stage' = "systems" /\ pc' = "clearRender" /\ gfx' = gfx
          /\ bitmask' \subseteq Request
      BY <2>1, CallSystemsKeeps
    <2>3. glock = 0 /\ gfx \in {"send", "wait"}
      BY <2>1 DEF RenderInv, Stopped
    <2> QED BY <2>1, <2>2, <2>3 DEF LoopInv, RenderInv, Stopped
  <1>4. CASE ClearRequest
    <2>1. /\ pc' = "dispatch" /\ scheduleQueue' = scheduleQueue /\ gfx' = gfx /\ glock' = glock
          /\ capacity' = capacity /\ jobs' = jobs /\ stage' = stage
          /\ \/ pc = "clearTimer" /\ bitmask' = bitmask \ {"Timer"}
             \/ pc = "clearRender" /\ bitmask' = bitmask \ {"Render"}
      BY <1>4 DEF ClearRequest, ClearBit, Cleared, poolVars, hostVars
    <2> QED BY <2>1 DEF LoopInv, QueueInv, RequestsInv, LookedFor, RenderInv, Stopped
  <1>5. CASE Dispatch
    <2>1. /\ pc = "dispatch" /\ bitmask' = bitmask /\ scheduleQueue' = scheduleQueue
          /\ gfx' = gfx /\ glock' = glock
      BY <1>5 DEF Dispatch, hostVars
    <2>2. CASE scheduleQueue = <<>>
      <3>1. pc' = AfterRequest /\ capacity' = capacity /\ jobs' = jobs /\ stage' = stage
        BY <1>5, <2>2 DEF Dispatch, poolVars
      <3>2. pc' = "checkExit" \/ (pc' = "leave" /\ bitmask = {})
        BY <3>1 DEF AfterRequest
      <3> QED BY <2>1, <2>2, <3>1, <3>2 DEF LoopInv, QueueInv, RequestsInv, LookedFor, RenderInv, Stopped
    <2>3. CASE scheduleQueue # <<>>
      <3>1. pc' = "poll" /\ stage' = "submitted" /\ capacity' = RoomFor(Len(scheduleQueue))
        BY <1>5, <2>3 DEF Dispatch, SubmitQueue
      <3>2. Len(scheduleQueue) \in Nat
        BY LenProperties DEF QueueInv
      <3>3. capacity' \in Nat /\ Len(scheduleQueue) <= capacity'
        BY <3>1, <3>2 DEF QueueInv, RoomFor, Larger
      <3> QED BY <2>1, <3>1, <3>3 DEF LoopInv, QueueInv, RequestsInv, LookedFor, RenderInv, Stopped
    <2> QED BY <2>2, <2>3
  <1>6. CASE Leave
    <2>1. /\ pc = "leave" /\ pc' = "poll" /\ stage' = "asleep"
          /\ bitmask' = bitmask /\ wakecall' = wakecall /\ scheduleQueue' = scheduleQueue
          /\ gfx' = gfx /\ glock' = glock /\ mainThread' = mainThread
          /\ capacity' = capacity /\ jobs' = jobs
      BY <1>6 DEF Leave, Sleep, jobVars, hostVars
    <2>2. bitmask # {} => WakeDue
      BY <2>1 DEF LoopInv, RequestsInv, LookedFor
    <2>3. RequestsInv'
      BY <2>1, <2>2 DEF RequestsInv, LookedFor, WakeDue
    <2> QED BY <2>1, <2>3 DEF LoopInv, QueueInv, RenderInv, Stopped
  <1> QED BY <1>1, <1>2, <1>3, <1>4, <1>5, <1>6

\* The loop is left for good.
LEMMA RunThreadKeeps ==
  ASSUME EngineInv, runThread
  PROVE  EngineInv'
  <1>1. /\ pc \in Stopped /\ pc' \in Stopped /\ bitmask' = bitmask /\ wakecall' = wakecall
        /\ scheduleQueue' = scheduleQueue /\ glock' \in {glock, glock + 1}
        /\ gfx' = gfx /\ mainThread' = mainThread
        /\ capacity' = capacity /\ jobs' = jobs /\ stage' = stage
    BY DEF runThread, Stopped, poolVars
  <1> QED BY <1>1 DEF EngineInv, LoopInv, QueueInv, RequestsInv, LookedFor, RenderInv, Stopped

--------------------------------------------------------------------------------
LEMMA NextKeepsEngineInv ==
  EngineInv /\ ManagedInv /\ [EngineNext]_vars => (EngineInv /\ ManagedInv)'
  <1> SUFFICES ASSUME EngineInv, ManagedInv, [EngineNext]_vars
               PROVE  (EngineInv /\ ManagedInv)'
    OBVIOUS
  <1>1. ManagedInv'
    BY EngineStepIsManagedStep, NextKeepsManagedInv
  <1> SUFFICES EngineInv'
    BY <1>1
  <1>2. PoolInv
    BY DEF ManagedInv
  <1>3. CASE on_fixed_timer \/ RenderThread \/ MainThread \/ CloseWindow
    BY <1>3, OthersKeep
  <1>4. CASE Callback
    BY <1>2, <1>4, CallbackKeeps
  <1>5. CASE iterate_systems
    BY <1>2, <1>5, CheckKeeps, SystemsKeep DEF iterate_systems
  <1>6. CASE queue_jobs
    BY <1>2, <1>6, QueueJobsKeeps
  <1>7. CASE \E w \in Worker : work_jobs(w)
    BY <1>2, <1>7, WorkJobsKeeps
  <1>8. CASE UNCHANGED vars
    <2>1. /\ pc' = pc /\ bitmask' = bitmask /\ wakecall' = wakecall
          /\ scheduleQueue' = scheduleQueue
          /\ gfx' = gfx /\ glock' = glock /\ mainThread' = mainThread
          /\ stage' = stage /\ capacity' = capacity /\ jobs' = jobs
      BY <1>8 DEF vars, loopVars, hostVars, poolVars
    <2> QED BY <2>1 DEF EngineInv, LoopInv, QueueInv, RequestsInv, LookedFor, WakeDue, RenderInv, Stopped
  <1>9. CASE runThread
    BY <1>9, RunThreadKeeps
  <1> QED BY <1>1, <1>3, <1>4, <1>5, <1>6, <1>7, <1>8, <1>9 DEF EngineNext

LEMMA AlwaysEngineInv == EngineSpec => [](EngineInv /\ ManagedInv)
  <1>1. EngineInit => EngineInv /\ ManagedInv
    <2> SUFFICES ASSUME EngineInit PROVE EngineInv /\ ManagedInv
      OBVIOUS
    <2>1. ManagedInv
      BY InitManagedInv DEF EngineInit
    <2>2. EngineInv
      BY EmptySeq, PoolAssumption
      DEF EngineInit, CDMInit, Init, EngineInv, LoopInv, QueueInv, RequestsInv, LookedFor,
          RenderInv, Stopped, Request
    <2> QED BY <2>1, <2>2
  <1> QED BY <1>1, NextKeepsEngineInv, PTL DEF EngineSpec

\* The loop schedules jobs as a client of the dependency manager may.
THEOREM EngineImplementsManager == EngineSpec => CDMSpec
  <1>1. EngineInit => CDMInit
    BY DEF EngineInit
  <1>2. EngineInv /\ ManagedInv /\ [EngineNext]_vars => [CDMNext]_<<poolVars, cdmVars>>
    BY EngineStepIsManagedStep
  <1> QED BY <1>1, <1>2, AlwaysEngineInv, PTL DEF EngineSpec, CDMSpec

\* Whatever the callbacks, the signals and the systems, jobs are handled as JobPool says.
THEOREM EngineImplementsJobPool == EngineSpec => ImplementsJobPool
  BY EngineImplementsManager, ManagerImplementsJobPool, PTL DEF ImplementsJobPool

\* While a callback of the engine runs the systems, no work is in the pool: they have
\* the entities for themselves.
THEOREM SystemsRunAlone == EngineSpec => []SystemsAlone
  <1>1. EngineInv /\ ManagedInv => SystemsAlone
    BY WorkersStill DEF EngineInv, LoopInv, ManagedInv, SystemsAlone
  <1> QED BY <1>1, AlwaysEngineInv, PTL

\* No request is slept on, and OnUpdate answers each of them once.
THEOREM RequestsAreKept == EngineSpec => []RequestsKept
  <1>1. EngineInv /\ ManagedInv => RequestsKept
    <2> SUFFICES ASSUME EngineInv, ManagedInv PROVE RequestsKept
      OBVIOUS
    <2>1. activeThreads = 0 => stage = "asleep"
      BY DEF ManagedInv, PoolInv, ThreadsInv, ActiveThreads
    <2>2. NoSleepOnRequest
      BY <2>1 DEF EngineInv, RequestsInv, WakeDue, NoSleepOnRequest
    <2>3. OneUpdatePerRequest
      BY DEF EngineInv, RenderInv, Stopped, OneUpdatePerRequest
    <2> QED BY <2>2, <2>3 DEF RequestsKept
  <1> QED BY <1>1, AlwaysEngineInv, PTL

\* The room made before a round is enough for it: no worker reallocates the arrays.
THEOREM RoundHasRoom == EngineSpec => []RoomForRound
  <1>1. EngineInv /\ ManagedInv => RoomForRound
    BY DEF EngineInv, QueueInv, ManagedInv, CDMInv, FencesInv, ReadersFit, RoomForRound
  <1> QED BY <1>1, AlwaysEngineInv, PTL

\* What is proved of the rounds of JobPool and of the fences holds of the engine's.
THEOREM EngineRoundsCorrect ==
  EngineSpec => [](BatchOnce /\ NoJobSkipped /\ RoundComplete /\ WriteFenceIsLastWriter)
  <1>1. EngineSpec => []BatchOnce
    BY EngineImplementsManager, ManagerImplementsJobPool, BatchesRunOnce, PTL
  <1>2. EngineSpec => []NoJobSkipped
    BY EngineImplementsManager, ManagerImplementsJobPool, NoneSkipped, PTL
  <1>3. EngineSpec => []RoundComplete
    BY EngineImplementsManager, ManagerImplementsJobPool, SystemsAfterRound, PTL
  <1>4. EngineSpec => []WriteFenceIsLastWriter
    BY EngineImplementsManager, LastWriterFenced, PTL
  <1> QED BY <1>1, <1>2, <1>3, <1>4, PTL
================================================================================
