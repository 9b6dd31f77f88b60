------------------------------- MODULE WorkQueue -------------------------------
(***************************************************************************)
(* What the engine relies on when it hands a work to libuv: its function   *)
(* runs once, on some thread, and then, or when the work was cancelled     *)
(* before it ran, its done callback is called once on the loop thread.     *)
(***************************************************************************)
CONSTANT Work

VARIABLE state   \* per work: "idle", "queued", "running", "ran" or "cancelled"

QueueInit == state = [w \in Work |-> "idle"]

Step ==
  { <<"idle", "queued">>,        \* uv_queue_work_quick, uv_queue_work_slow
    <<"queued", "running">>,
    <<"running", "ran">>,        \* the function returns
    <<"ran", "idle">>,           \* done(0)
    <<"queued", "cancelled">>,   \* uv_cancel
    <<"cancelled", "idle">> }    \* done(UV_ECANCELED)

QueueNext ==
  \E w \in Work :
    /\ <<state[w], state'[w]>> \in Step
    /\ \A v \in Work \ {w} : state'[v] = state[v]

QueueSpec == QueueInit /\ [][QueueNext]_state
================================================================================
