------------------------------- MODULE Threadpool -------------------------------
(***************************************************************************)
(* libuv's threadpool.c, which runs the works of ThreadPool.cpp (slow) and *)
(* of AssetsManager and uv_fs_* (quick).  What is done under `mutex' in    *)
(* one piece is one step; a worker reports to the loop under wq_mutex,     *)
(* with the steps of uv_async_send in between.                             *)
(***************************************************************************)
EXTENDS Async, Sequences, FiniteSets

CONSTANTS
  Worker,   \* the threads
  Loop,     \* the thread of the event loop
  Work,
  Slow      \* works submitted with uv_queue_work_slow

ASSUME ThreadpoolAssumption ==
  /\ IsFiniteSet(Worker) /\ Loop \notin Worker /\ Sender = Worker \cup {Loop}
  /\ "nobody" \notin Sender /\ Work \cap {"nobody", "slow", "exit"} = {}
  /\ Slow \subseteq Work

VARIABLES
  mutex,       \* the thread that goes round the loop of worker() with it, or Nobody
  wq,          \* works and messages
  slow_io_pending_wq,
  slow_io_work_running,
  pc,          \* per worker: where it is
  at,          \* per worker: the work it has taken, or Nobody
  wq_mutex,    \* loop->wq_mutex: a thread or Nobody
  loopwq,      \* loop->wq
  batch,       \* the queue uv__work_done has moved loopwq to
  cancelled,   \* works with work = uv__cancelled
  cleanup      \* uv__threadpool_cleanup: "no", "joining", "done"

poolVars == <<mutex, wq, slow_io_pending_wq, slow_io_work_running, pc, at>>
loopVars == <<wq_mutex, loopwq, batch, cancelled>>
vars == <<asyncVars, poolVars, loopVars, cleanup>>

Nobody == "nobody"
run_slow_work_message == "slow"
exit_message == "exit"

\* uv_num_worker_threads
NumWorkerThreads == Cardinality(Worker) - 1

InSeq(x, s) == \E k \in DOMAIN s : s[k] = x

\* QUEUE_REMOVE: s without its element x, if it has one.
Without(s, x) ==
  IF ~InSeq(x, s) THEN s
  ELSE LET k == CHOOSE i \in DOMAIN s : s[i] = x
       IN SubSeq(s, 1, k - 1) \o SubSeq(s, k + 1, Len(s))

Busy(w) ==
  \/ \E q \in {wq, slow_io_pending_wq, loopwq, batch} : InSeq(w, q)
  \/ w \in cancelled
  \/ \E t \in Worker : at[t] = w /\ pc[t] \in {"run", "stuck"}

PoolInit ==
  /\ AsyncInit
  /\ mutex = Nobody /\ wq = <<>> /\ slow_io_pending_wq = <<>> /\ slow_io_work_running = 0
  /\ pc = [t \in Worker |-> "ready"] /\ at = [t \in Worker |-> Nobody]
  /\ wq_mutex = Nobody /\ loopwq = <<>> /\ batch = <<>> /\ cancelled = {}
  /\ cleanup = "no"

--------------------------------------------------------------------------------
(* The queue, under mutex. *)

\* uv_cond_signal when idle_threads > 0: one of the threads that wait, if any does.
Signalled(pcs) ==
  LET waiting == {t \in Worker : pcs[t] = "wait"}
  IN IF waiting = {} THEN {pcs} ELSE {[pcs EXCEPT ![t] = "woken"] : t \in waiting}

\* post of a slow work: one message stands for all of them.
PostSlow(w) ==
  /\ slow_io_pending_wq' = Append(slow_io_pending_wq, w)
  /\ IF InSeq(run_slow_work_message, wq)
       THEN UNCHANGED <<wq, pc>>
       ELSE wq' = Append(wq, run_slow_work_message) /\ pc' \in Signalled(pc)

PostQuick(q) ==
  /\ wq' = Append(wq, q) /\ pc' \in Signalled(pc)
  /\ UNCHANGED slow_io_pending_wq

\* The loop thread is inside uv_cancel.
Cancelling ==
  wq_mutex = Loop \/ \E w \in cancelled : ~InSeq(w, loopwq) /\ ~InSeq(w, batch)

\* The loop thread is in a callback, or between two.
LoopFree == ~Cancelling /\ io # "spin" /\ cleanup = "no"

\* uv_queue_work_quick and uv_queue_work_slow, from a callback or before uv_run.
Submit(w) ==
  /\ LoopFree /\ mutex = Nobody /\ ~Busy(w)
  /\ IF w \in Slow THEN PostSlow(w) ELSE PostQuick(w)
  /\ UNCHANGED <<asyncVars, mutex, slow_io_work_running, at, loopVars, cleanup>>

--------------------------------------------------------------------------------
(* worker() *)

\* Mutant of AtThreshold: one more slow work is let through.
AboveThreshold(running) == running > NumWorkerThreads

AtThreshold(running) == running >= NumWorkerThreads

\* The condition of the inner while.
NothingToDo(running) ==
  wq = <<>> \/ (wq = <<run_slow_work_message>> /\ AtThreshold(running))

\* slow_io_work_running, less the slow work that t comes back from.
RunningBut(t) == slow_io_work_running - (IF at[t] \in Slow THEN 1 ELSE 0)

GoTo(t, label) == [pc EXCEPT ![t] = label]

Wait(t) ==
  /\ NothingToDo(RunningBut(t))
  /\ pc' = GoTo(t, "wait") /\ at' = [at EXCEPT ![t] = Nobody]
  /\ mutex' = Nobody /\ slow_io_work_running' = RunningBut(t)
  /\ UNCHANGED <<wq, slow_io_pending_wq>>

\* The message stays in the queue, for the other threads.
Exit(t) ==
  /\ wq # <<>> /\ Head(wq) = exit_message
  /\ pc' \in Signalled(GoTo(t, "exited")) /\ at' = [at EXCEPT ![t] = Nobody]
  /\ mutex' = Nobody /\ slow_io_work_running' = RunningBut(t)
  /\ UNCHANGED <<wq, slow_io_pending_wq>>

\* At the threshold the slow message goes behind the other works; one whose works were
\* all cancelled goes away.  The thread looks again and keeps the lock.
PutBack(t) ==
  /\ ~NothingToDo(RunningBut(t)) /\ Head(wq) = run_slow_work_message
  /\ \/ AtThreshold(RunningBut(t)) /\ wq' = Append(Tail(wq), run_slow_work_message)
     \/ ~AtThreshold(RunningBut(t)) /\ slow_io_pending_wq = <<>> /\ wq' = Tail(wq)
  /\ pc' = GoTo(t, "ready") /\ at' = [at EXCEPT ![t] = Nobody]
  /\ mutex' = t /\ slow_io_work_running' = RunningBut(t)
  /\ UNCHANGED slow_io_pending_wq

\* Mutant of NextSlow: one message, one work.
NextSlowOnce(t) == wq' = Tail(wq) /\ pc' = GoTo(t, "run")

\* If there are more slow works the message is queued again, behind the other works.
NextSlow(t) ==
  IF Len(slow_io_pending_wq) = 1
    THEN wq' = Tail(wq) /\ pc' = GoTo(t, "run")
    ELSE wq' = Append(Tail(wq), run_slow_work_message) /\ pc' \in Signalled(GoTo(t, "run"))

TakeSlow(t) ==
  /\ ~NothingToDo(RunningBut(t)) /\ Head(wq) = run_slow_work_message
  /\ ~AtThreshold(RunningBut(t)) /\ slow_io_pending_wq # <<>>
  /\ at' = [at EXCEPT ![t] = Head(slow_io_pending_wq)]
  /\ slow_io_pending_wq' = Tail(slow_io_pending_wq)
  /\ NextSlow(t)
  /\ mutex' = Nobody /\ slow_io_work_running' = RunningBut(t) + 1

TakeQuick(t) ==
  /\ wq # <<>> /\ Head(wq) \in Work
  /\ at' = [at EXCEPT ![t] = Head(wq)]
  /\ wq' = Tail(wq)
  /\ pc' = GoTo(t, "run")
  /\ mutex' = Nobody /\ slow_io_work_running' = RunningBut(t)
  /\ UNCHANGED slow_io_pending_wq

\* From the lock, or from the wake-up, to the unlock.
Take(t) ==
  /\ pc[t] \in {"ready", "woken"} /\ mutex \in {Nobody, t}
  /\ Wait(t) \/ Exit(t) \/ PutBack(t) \/ TakeSlow(t) \/ TakeQuick(t)
  /\ UNCHANGED <<asyncVars, loopVars, cleanup>>

\* w->work(w) of a slow work may go on for ever.
RunsForever(t) ==
  /\ pc[t] = "run" /\ at[t] \in Slow
  /\ pc' = GoTo(t, "stuck")
  /\ UNCHANGED <<asyncVars, mutex, wq, slow_io_pending_wq, slow_io_work_running, at, loopVars, cleanup>>

\* Mutant of SendWanted: the loop is not woken when it is awake.
SendIfAsleep == IF io = "poll" THEN "claim" ELSE "no"

SendWanted == "claim"

\* w->work(w) has returned, and the thread has wq_mutex: the work goes to the loop's
\* queue, and the loop is woken.
Report(t) ==
  /\ pc[t] = "run" /\ wq_mutex = Nobody
  /\ wq_mutex' = t
  /\ loopwq' = Append(loopwq, at[t])
  /\ sending' = [sending EXCEPT ![t] = SendWanted]
  /\ pc' = GoTo(t, "send")
  /\ UNCHANGED <<pending, eventfd, aborted, io, mutex, wq, slow_io_pending_wq, slow_io_work_running,
                 at, batch, cancelled, cleanup>>

WakeLoop(t) == SendStep(t) /\ UNCHANGED <<poolVars, loopVars, cleanup>>

Reported(t) ==
  /\ wq_mutex = t /\ sending[t] = "no"
  /\ wq_mutex' = Nobody
  /\ pc' = IF t \in Worker THEN GoTo(t, "ready") ELSE pc
  /\ UNCHANGED <<asyncVars, mutex, wq, slow_io_pending_wq, slow_io_work_running, at, loopwq, batch,
                 cancelled, cleanup>>

WorkerStep(t) == Take(t) \/ Report(t) \/ WakeLoop(t) \/ Reported(t)

--------------------------------------------------------------------------------
(* The loop thread. *)

\* Mutant of Cancel: the work stays in its queue.
CancelKeeps(w) ==
  /\ LoopFree /\ mutex = Nobody /\ wq_mutex = Nobody
  /\ InSeq(w, wq) \/ InSeq(w, slow_io_pending_wq)
  /\ cancelled' = cancelled \cup {w}
  /\ UNCHANGED <<asyncVars, poolVars, wq_mutex, loopwq, batch, cleanup>>

\* uv__work_cancel of a work that no worker has taken: it is taken out of its queue ...
Cancel(w) ==
  /\ LoopFree /\ mutex = Nobody /\ wq_mutex = Nobody
  /\ InSeq(w, wq) \/ InSeq(w, slow_io_pending_wq)
  /\ wq' = Without(wq, w) /\ slow_io_pending_wq' = Without(slow_io_pending_wq, w)
  /\ cancelled' = cancelled \cup {w}
  /\ UNCHANGED <<asyncVars, mutex, slow_io_work_running, pc, at, wq_mutex, loopwq, batch, cleanup>>

\* ... and put into the queue of the loop, which wakes itself.
ReportCancelled(w) ==
  /\ w \in cancelled /\ ~InSeq(w, loopwq) /\ ~InSeq(w, batch)
  /\ wq_mutex = Nobody
  /\ wq_mutex' = Loop
  /\ loopwq' = Append(loopwq, w)
  /\ sending' = [sending EXCEPT ![Loop] = "claim"]
  /\ UNCHANGED <<pending, eventfd, aborted, io, poolVars, batch, cancelled, cleanup>>

PollStep ==
  /\ ~Cancelling /\ cleanup = "no"
  /\ IoRead \/ Spin
  /\ UNCHANGED <<poolVars, loopVars, cleanup>>

\* uv__work_done takes over the queue ...
Move ==
  /\ ~Cancelling /\ io = "cb" /\ batch = <<>> /\ wq_mutex = Nobody
  /\ batch' = loopwq /\ loopwq' = <<>>
  /\ io' = IF loopwq = <<>> THEN "poll" ELSE "cb"
  /\ UNCHANGED <<pending, eventfd, sending, aborted, poolVars, wq_mutex, cancelled, cleanup>>

\* ... and calls the done callbacks.
Done ==
  /\ ~Cancelling /\ batch # <<>>
  /\ batch' = Tail(batch)
  /\ cancelled' = cancelled \ {Head(batch)}
  /\ io' = IF Tail(batch) = <<>> THEN "poll" ELSE "cb"
  /\ UNCHANGED <<pending, eventfd, sending, aborted, poolVars, wq_mutex, loopwq, cleanup>>

\* uv_library_shutdown, which nothing but the end of the program follows.
Cleanup ==
  /\ ~Cancelling /\ io = "poll" /\ cleanup = "no" /\ mutex = Nobody
  /\ PostQuick(exit_message)
  /\ cleanup' = "joining"
  /\ UNCHANGED <<asyncVars, mutex, slow_io_work_running, at, loopVars>>

Join ==
  /\ cleanup = "joining" /\ \A t \in Worker : pc[t] = "exited"
  /\ cleanup' = "done"
  /\ UNCHANGED <<asyncVars, poolVars, loopVars>>

LoopStep ==
  PollStep \/ Move \/ Done \/ (\E w \in Work : ReportCancelled(w)) \/ WakeLoop(Loop)
    \/ Reported(Loop) \/ Join

PoolNext ==
  \/ \E w \in Work : Submit(w) \/ Cancel(w)
  \/ \E t \in Worker : WorkerStep(t) \/ RunsForever(t)
  \/ LoopStep \/ Cleanup

PoolSpec == PoolInit /\ [][PoolNext]_vars

\* The threads run, and a thread that wants a lock which is free again and again gets
\* it; uv_run goes on; a work that does not run for ever returns.
PoolFairSpec ==
  /\ PoolSpec
  /\ \A t \in Worker :
       SF_vars(Take(t)) /\ SF_vars(Report(t)) /\ WF_vars(WakeLoop(t) \/ Reported(t))
  /\ WF_vars(LoopStep)

--------------------------------------------------------------------------------
(* Correctness. *)

StateOf(w) ==
  IF w \in cancelled THEN "cancelled"
  ELSE IF InSeq(w, wq) \/ InSeq(w, slow_io_pending_wq) THEN "queued"
  ELSE IF InSeq(w, loopwq) \/ InSeq(w, batch) THEN "ran"
  ELSE IF \E t \in Worker : at[t] = w /\ pc[t] \in {"run", "stuck"} THEN "running"
  ELSE "idle"

WQ == INSTANCE WorkQueue WITH state <- [w \in Work |-> StateOf(w)]

\* Whatever the threads do at the same time, each work that is submitted runs once or
\* is cancelled, and its done callback follows once.
ImplementsWorkQueue == WQ!QueueSpec

\* No sender finds the handle changed behind its back (the abort in uv_async_send).
SendSettles == ~aborted

\* A work the loop has to hear of is never left without a wake-up on its way: the
\* handle is pending, somebody is about to send, or the callback is still to come.
LoopWillHear ==
  loopwq # <<>> =>
    \/ \E t \in Sender : sending[t] = "claim"
    \/ pending # 0 /\ (eventfd \/ io = "spin" \/ \E t \in Sender : sending[t] = "write")
    \/ io = "cb"

\* Slow works leave a thread: however long jobs take and however many there are, a
\* quick work is taken, run and answered (unless the pool is shut down).
QuickIsServed ==
  \A w \in Work \ Slow : Busy(w) ~> ~Busy(w) \/ cleanup # "no"

Stuck == \E t \in Worker : pc[t] = "stuck"

\* If jobs return, each of them gets its done callback too, and a shutdown joins all
\* threads.
JobsFinish ==
  /\ \A w \in Slow : Busy(w) ~> ~Busy(w) \/ cleanup # "no" \/ Stuck
  /\ cleanup = "joining" ~> cleanup = "done" \/ Stuck
================================================================================
