------------------------------ MODULE EngineLoop ------------------------------
(***************************************************************************)
(* The engine thread: the libuv loop of runThread, the three requests a    *)
(* signal may make of it (Exit, Render, Timer), iterate_systems, and the   *)
(* rounds of jobs the systems schedule (ComponentDependencyManager and     *)
(* JobPool, whose steps are taken here by the threads that take them in    *)
(* the code).                                                              *)
(*                                                                         *)
(* Around it, the threads of the program: the main thread, which waits for *)
(* the window to close, requests Exit and joins the engine thread, and the *)
(* render thread of ExampleSystem, which requests Render and waits for     *)
(* OnUpdate to post its semaphore.  A signal is two steps, the bit and     *)
(* uv_async_send.                                                          *)
(***************************************************************************)
EXTENDS ComponentDependencyManager

CONSTANTS
  FixedPlans,   \* what one OnFixedUpdate may append to the schedule queue
  RenderPlans,  \* ... and one OnUpdate: sequences of [query, parallel]
  MayThrow      \* whether an event function may throw or request Exit

\* One pass over the systems schedules no more jobs than a round may have.
ASSUME EngineAssumption ==
  \A plan \in FixedPlans \cup RenderPlans :
    plan \in Seq([query : Query, parallel : BOOLEAN]) /\ Len(plan) <= MaxJobs

VARIABLES
  pc,             \* the engine thread; "poll" when inside uv_run, Stopped after it
  bitmask,        \* requests not yet cleared
  wakecall,       \* uv_async_send was called and wakeThread is still to run
  scheduleQueue,
  shouldClose,    \* glfwWindowShouldClose
  mainThread, gfx, glock

hostVars == <<shouldClose, mainThread, gfx, glock>>
loopVars == <<pc, bitmask, wakecall, scheduleQueue>>
vars == <<poolVars, cdmVars, loopVars, hostVars>>

Request == {"Exit", "Render", "Timer"}

\* The engine thread has stopped the loop, joins the render thread, or has ended.
Stopped == {"stopped", "join", "ended"}

\* JobsUtility::init has returned.  (It starts the render thread before it initialises
\* wakecall; a signal sent in between goes to a handle that is none yet.)
EngineInit ==
  /\ CDMInit
  /\ pc = "poll" /\ bitmask = {} /\ wakecall = FALSE /\ scheduleQueue = <<>>
  /\ shouldClose = FALSE /\ mainThread = "wait" /\ gfx = "check" /\ glock = 0

--------------------------------------------------------------------------------
(* The callbacks uv_run calls *)

on_fixed_timer ==
  /\ pc = "poll"
  /\ bitmask' = bitmask \cup {"Timer"}
  /\ wakecall' = TRUE
  /\ UNCHANGED <<poolVars, cdmVars, pc, scheduleQueue, hostVars>>

\* iterate_systems begins when a callback has left the engine to the systems.
IterateIfOwner == pc' = IF stage' = "systems" THEN "checkExit" ELSE "poll"

\* Mutant of TryWake: nobody asks whether the engine has an owner already.
WakeAnyway == WakeUp(wpc) /\ UNCHANGED <<jobVars, readIndex, at, batch, ran>>

TryWake == IF activeThreads = 0 THEN WakeThread ELSE UNCHANGED poolVars

wakeThread ==
  /\ pc = "poll"
  /\ wakecall
  /\ wakecall' = FALSE
  /\ TryWake
  /\ pc' = IF activeThreads = 0 /\ stage' = "systems" THEN "checkExit" ELSE "poll"
  /\ UNCHANGED <<cdmVars, bitmask, scheduleQueue, hostVars>>

after_queue_jobs ==
  /\ pc = "poll"
  /\ QueueDone
  /\ IterateIfOwner
  /\ UNCHANGED <<cdmVars, bitmask, wakecall, scheduleQueue, hostVars>>

after_work_jobs(w) ==
  /\ pc = "poll"
  /\ AfterWork(w)
  /\ IterateIfOwner
  /\ UNCHANGED <<cdmVars, bitmask, wakecall, scheduleQueue, hostVars>>

--------------------------------------------------------------------------------
(* iterate_systems *)

\* The requests are read one after the other, Exit first.
Check(request, from, yes, no) ==
  /\ pc = from
  /\ pc' = IF request \in bitmask THEN yes ELSE no
  /\ UNCHANGED <<poolVars, cdmVars, bitmask, wakecall, scheduleQueue, hostVars>>

CheckRequests ==
  \/ Check("Exit", "checkExit", "destroy", "checkTimer")
  \/ Check("Timer", "checkTimer", "fixedUpdate", "checkRender")
  \/ Check("Render", "checkRender", "update", "leave")

\* Mutant of CloseOnDestroy: the window is left open.
CloseNot == UNCHANGED shouldClose

\* glfwSetWindowShouldClose and glfwPostEmptyEvent
CloseOnDestroy == shouldClose' = TRUE

\* The loop is stopped, with activeThreads left at 1, and the systems are told:
\* ExampleSystem::OnDestroy posts glock.
Destroy ==
  /\ pc = "destroy"
  /\ CloseOnDestroy
  /\ glock' = glock + 1
  /\ pc' = "stopped"
  /\ UNCHANGED <<poolVars, cdmVars, bitmask, wakecall, scheduleQueue,
                 mainThread, gfx>>

\* runThread after uv_run: ~ExampleSystem posts glock too and joins the render thread.
runThread ==
  /\ \/ pc = "stopped" /\ pc' = "join" /\ glock' = glock + 1
     \/ pc = "join" /\ gfx = "gone" /\ pc' = "ended" /\ UNCHANGED glock
  /\ UNCHANGED <<poolVars, cdmVars, bitmask, wakecall, scheduleQueue,
                 shouldClose, mainThread, gfx>>

\* One pass over the systems: schedules are appended, and an event function
\* may throw (Exit is requested, nothing is sent) or call signalQuit.
CallSystems(plans, next) ==
  /\ \E plan \in plans : scheduleQueue' = scheduleQueue \o plan
  /\ \/ UNCHANGED <<bitmask, wakecall>>
     \/ /\ MayThrow
        /\ bitmask' = bitmask \cup {"Exit"}
        /\ wakecall' \in {wakecall, TRUE}
  /\ pc' = next
  /\ UNCHANGED <<poolVars, cdmVars, shouldClose, mainThread, gfx>>

FixedUpdate ==
  /\ pc = "fixedUpdate"
  /\ CallSystems(FixedPlans, "clearTimer")
  /\ UNCHANGED glock

\* ExampleSystem::OnUpdate posts glock, unless a system before it has thrown.
Update ==
  /\ pc = "update"
  /\ CallSystems(RenderPlans, "clearRender")
  /\ \/ glock' = glock + 1
     \/ MayThrow /\ "Exit" \in bitmask' /\ glock' = glock

\* bitmask &= ~request
Cleared(request) == bitmask \ {request}

ClearBit(request, from) ==
  /\ pc = from
  /\ bitmask' = Cleared(request)
  /\ pc' = "dispatch"
  /\ UNCHANGED <<poolVars, cdmVars, wakecall, scheduleQueue, hostVars>>

ClearRequest == ClearBit("Timer", "clearTimer") \/ ClearBit("Render", "clearRender")

\* Mutant of AfterRequest: the engine goes to sleep without another look.
AfterRequestSleeps == "leave"

\* Where to go when nothing was scheduled: on with the requests that are left.
AfterRequest == IF bitmask # {} THEN "checkExit" ELSE "leave"

\* With schedules in the queue, room is reserved and works[0] submitted.
Dispatch ==
  /\ pc = "dispatch"
  /\ IF scheduleQueue = <<>>
       THEN /\ pc' = AfterRequest
            /\ UNCHANGED poolVars
       ELSE /\ SubmitQueue(Len(scheduleQueue))
            /\ pc' = "poll"
  /\ UNCHANGED <<cdmVars, bitmask, wakecall, scheduleQueue, hostVars>>

Leave ==
  /\ pc = "leave"
  /\ Sleep
  /\ pc' = "poll"
  /\ UNCHANGED <<cdmVars, bitmask, wakecall, scheduleQueue, hostVars>>

iterate_systems == CheckRequests \/ Destroy \/ FixedUpdate \/ Update
                   \/ ClearRequest \/ Dispatch \/ Leave

--------------------------------------------------------------------------------
(* The workers *)

\* queue_jobs(uv__work* ) on works[0]: reset, one job per schedule, prepare.
queue_jobs ==
  /\ \/ BeginQueue /\ UNCHANGED scheduleQueue
     \/ /\ scheduleQueue # <<>>
        /\ ScheduleQuery(Head(scheduleQueue).query, Head(scheduleQueue).parallel)
        /\ scheduleQueue' = Tail(scheduleQueue)
     \/ /\ scheduleQueue = <<>>
        /\ PrepareJobs
        /\ UNCHANGED <<cdmVars, scheduleQueue>>
  /\ UNCHANGED <<pc, bitmask, wakecall, hostVars>>

work_jobs(w) == WorkStep(w) /\ UNCHANGED <<cdmVars, loopVars, hostVars>>

--------------------------------------------------------------------------------
(* The other threads *)

SetBit(request) == bitmask' = bitmask \cup {request} /\ UNCHANGED wakecall
Send == wakecall' = TRUE /\ UNCHANGED bitmask

\* ExampleSystem::gFunc; acquiring and presenting images is left out.
RenderThread ==
  /\ \/ /\ gfx = "check"
        /\ gfx' = IF shouldClose THEN "gone" ELSE "set"
        /\ UNCHANGED <<bitmask, wakecall, glock>>
     \/ gfx = "set" /\ SetBit("Render") /\ gfx' = "send" /\ UNCHANGED glock
     \/ gfx = "send" /\ Send /\ gfx' = "wait" /\ UNCHANGED glock
     \/ /\ gfx = "wait" /\ glock > 0
        /\ glock' = glock - 1
        /\ gfx' = "check"
        /\ UNCHANGED <<bitmask, wakecall>>
  /\ UNCHANGED <<poolVars, cdmVars, pc, scheduleQueue, shouldClose, mainThread>>

MainThread ==
  /\ \/ /\ mainThread = "wait" /\ shouldClose
        /\ mainThread' = "set"
        /\ UNCHANGED <<bitmask, wakecall>>
     \/ mainThread = "set" /\ SetBit("Exit") /\ mainThread' = "send"
     \/ mainThread = "send" /\ Send /\ mainThread' = "join"
     \/ /\ mainThread = "join" /\ pc = "ended"
        /\ mainThread' = "gone"
        /\ UNCHANGED <<bitmask, wakecall>>
  /\ UNCHANGED <<poolVars, cdmVars, pc, scheduleQueue, shouldClose, gfx, glock>>

\* The user closes the window.
CloseWindow ==
  /\ ~shouldClose
  /\ shouldClose' = TRUE
  /\ UNCHANGED <<poolVars, cdmVars, loopVars, mainThread, gfx, glock>>

--------------------------------------------------------------------------------
Callback == wakeThread \/ after_queue_jobs \/ \E w \in Worker : after_work_jobs(w)

EngineNext ==
  \/ on_fixed_timer \/ Callback \/ iterate_systems \/ runThread
  \/ queue_jobs \/ (\E w \in Worker : work_jobs(w))
  \/ RenderThread \/ MainThread \/ CloseWindow

EngineSpec == EngineInit /\ [][EngineNext]_vars

\* Every iteration of uv_run calls the callbacks that are due, the operating
\* system runs every thread, and an event function returns.  Neither the timer
\* nor the user is relied on.
EngineFairSpec ==
  /\ EngineSpec
  /\ WF_vars(wakeThread) /\ WF_vars(after_queue_jobs)
  /\ \A w \in Worker : WF_vars(after_work_jobs(w)) /\ WF_vars(work_jobs(w))
  /\ WF_vars(iterate_systems) /\ WF_vars(runThread) /\ WF_vars(queue_jobs)
  /\ WF_vars(RenderThread) /\ WF_vars(MainThread)

--------------------------------------------------------------------------------
(* Correctness *)

\* The loop takes part in the protocol of JobPool: whatever the callbacks and
\* the signals, jobs are handled as a client of JobPool may handle them.
ImplementsJobPool == Spec

\* "must be called alone ... requires full access to the engine": while the
\* systems run, or are destroyed, no work is in the pool and none can come back.
SystemsAlone ==
  pc # "poll" => stage = "systems" /\ \A w \in Worker : wpc[w] = "idle"

\* The engine never sleeps on a request: some call of wakeThread is still due.
\* (Exit requested by an exception is not followed by a uv_async_send.)
NoSleepOnRequest ==
  pc = "poll" /\ activeThreads = 0 /\ bitmask # {} =>
    wakecall \/ gfx = "send" \/ mainThread = "send"

\* One OnUpdate per request: glock never holds a second post that would let the
\* render thread run a frame ahead of the engine.
OneUpdatePerRequest == pc \notin Stopped => glock <= 1

\* Requests are kept: none is slept on, none is answered twice.
RequestsKept == NoSleepOnRequest /\ OneUpdatePerRequest

\* The arrays reserved before a round ("reserve memory ... before calling this")
\* hold every job it will have, so that no worker ever reallocates them under the
\* others, and every component has room for its next reader.
RoomForRound ==
  /\ stage = "queueing" => Len(jobs) + Len(scheduleQueue) <= capacity
  /\ ReadersFit

\* A requested Exit stops the loop, whatever jobs are running when it comes.
ExitServed == "Exit" \in bitmask ~> pc \in Stopped

\* Once the window is to close or a system has failed the program ends: the render
\* thread leaves its loop, the engine thread joins it and the main thread the engine's.
ShutdownCompletes ==
  shouldClose \/ "Exit" \in bitmask ~> gfx = "gone" /\ pc = "ended" /\ mainThread = "gone"

\* A render thread that has requested Render is answered.  (Not by the code:
\* a request made while OnUpdate still runs is cleared with the one before.)
RenderAnswered == gfx = "wait" ~> gfx # "wait"

================================================================================
