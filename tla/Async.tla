--------------------------------- MODULE Async ---------------------------------
(***************************************************************************)
(* The async handle of unix/async.c: uv_async_send by any thread and       *)
(* uv__async_io on the loop thread, at the grain of their atomic accesses  *)
(* and system calls.  One handle: the engine has two on one eventfd, of    *)
(* which uv__async_io then passes over the one that is not pending.        *)
(***************************************************************************)
EXTENDS Integers

CONSTANT Sender   \* threads that call uv_async_send

VARIABLES
  pending,   \* handle->pending: 0, 1 while a sender works with it, 2
  eventfd,   \* loop->async_io_watcher.fd can be read
  sending,   \* per sender: the next step of uv_async_send, "no" outside
  aborted,   \* a sender found the handle not as it left it
  io         \* the loop thread: "poll", "spin" in uv__async_io, or "cb"

asyncVars == <<pending, eventfd, sending, aborted, io>>

AsyncInit ==
  /\ pending = 0 /\ eventfd = FALSE /\ aborted = FALSE /\ io = "poll"
  /\ sending = [t \in Sender |-> "no"]

\* The read and the first exchange: somebody's send may do for this one too.
Claim(t) ==
  /\ sending[t] = "claim"
  /\ IF pending = 0
       THEN pending' = 1 /\ sending' = [sending EXCEPT ![t] = "write"]
       ELSE UNCHANGED pending /\ sending' = [sending EXCEPT ![t] = "no"]
  /\ UNCHANGED <<eventfd, aborted, io>>

\* uv__async_send; a write to a full eventfd is as good.
Write(t) ==
  /\ sending[t] = "write"
  /\ eventfd' = TRUE
  /\ sending' = [sending EXCEPT ![t] = "settle"]
  /\ UNCHANGED <<pending, aborted, io>>

Settle(t) ==
  /\ sending[t] = "settle"
  /\ IF pending = 1 THEN pending' = 2 /\ UNCHANGED aborted
                    ELSE aborted' = TRUE /\ UNCHANGED pending
  /\ sending' = [sending EXCEPT ![t] = "no"]
  /\ UNCHANGED <<eventfd, io>>

SendStep(t) == Claim(t) \/ Write(t) \/ Settle(t)

\* uv__async_io reads the eventfd ...
IoRead ==
  /\ io = "poll" /\ eventfd
  /\ eventfd' = FALSE
  /\ io' = "spin"
  /\ UNCHANGED <<pending, sending, aborted>>

\* Mutant of Settled: the loop does not wait for the sender.
SettledOrNot == pending # 0

Settled == pending = 2

\* ... and then spins until no sender works with the handle.
Spin ==
  /\ io = "spin"
  /\ \/ Settled /\ pending' = 0 /\ io' = "cb"
     \/ pending = 0 /\ io' = "poll" /\ UNCHANGED pending
  /\ UNCHANGED <<eventfd, sending, aborted>>
================================================================================
