---------------------------- MODULE ThreadpoolProofs ----------------------------
(***************************************************************************)
(* Proofs for any number of threads and works: first how the threads of    *)
(* the pool tell the loop of their results, then that Threadpool           *)
(* implements WorkQueue.                                                   *)
(***************************************************************************)
EXTENDS Threadpool, SequenceTheorems, TLAPS

--------------------------------------------------------------------------------
(* The loop hears of every result *)

SendType ==
  /\ pending \in 0 .. 2
  /\ sending \in [Sender -> {"no", "claim", "write", "settle"}]

\* wq_mutex is what makes the handle safe: a thread sends with it held.
OneSends == \A t \in Sender : sending[t] # "no" => wq_mutex = t

\* The busy mark stands for a sender between its two exchanges.
MarkedBusy == pending = 1 <=> \E t \in Sender : sending[t] \in {"write", "settle"}

SendInv == SendType /\ OneSends /\ MarkedBusy /\ ~aborted

\* The mark comes with something the loop will read.
MarkIsRead ==
  pending # 0 => eventfd \/ io = "spin" \/ \E t \in Sender : sending[t] = "write"

\* Results wait for a send, for the mark, or for a callback that has not yet taken the
\* queue over.
ResultsAnnounced ==
  loopwq # <<>> =>
    (\E t \in Sender : sending[t] = "claim") \/ pending # 0 \/ (io = "cb" /\ batch = <<>>)

HearInv == MarkIsRead /\ ResultsAnnounced /\ (batch # <<>> => io = "cb")

--------------------------------------------------------------------------------

\* A step of uv_async_send by the thread that has wq_mutex.
LEMMA SendStepKeeps ==
  ASSUME SendInv, HearInv, NEW t \in Sender, SendStep(t), UNCHANGED loopVars
  PROVE  SendInv' /\ HearInv'
  <1> USE DEF SendInv, SendType, OneSends, MarkedBusy, HearInv, MarkIsRead, ResultsAnnounced,
              loopVars
  <1>1. \A u \in Sender : u # t => sending[u] = "no" /\ sending'[u] = "no"
    BY DEF SendStep, Claim, Write, Settle
  <1>2. CASE Claim(t) /\ pending = 0
    <2>1. pending' = 1 /\ sending'[t] = "write"
      BY <1>2 DEF Claim
    <2> QED BY <1>1, <1>2, <2>1 DEF Claim
  <1>3. CASE Claim(t) /\ pending # 0
    <2>1. pending' = pending /\ sending'[t] = "no" /\ sending[t] = "claim"
      BY <1>3 DEF Claim
    <2> QED BY <1>1, <1>3, <2>1 DEF Claim
  <1>4. CASE Write(t)
    <2>1. sending[t] = "write" /\ sending'[t] = "settle" /\ eventfd'
      BY <1>4 DEF Write
    <2> QED BY <1>1, <1>4, <2>1 DEF Write
  <1>5. CASE Settle(t)
    <2>1. pending = 1 /\ pending' = 2 /\ ~aborted' /\ sending[t] = "settle" /\ sending'[t] = "no"
      BY <1>5 DEF Settle
    <2> QED BY <1>1, <1>5, <2>1 DEF Settle
  <1> QED BY <1>2, <1>3, <1>4, <1>5 DEF SendStep

\* A thread that takes wq_mutex, with a result in hand, begins to send.
LEMMA ReportKeeps ==
  ASSUME SendInv, HearInv, NEW t \in Sender,
         wq_mutex = Nobody, Nobody \notin Sender, wq_mutex' = t,
         sending' = [sending EXCEPT ![t] = "claim"],
         UNCHANGED <<pending, eventfd, aborted, io, batch>>
  PROVE  SendInv' /\ HearInv'
  <1> USE DEF SendInv, SendType, OneSends, MarkedBusy, HearInv, MarkIsRead, ResultsAnnounced
  <1>1. \A u \in Sender : sending[u] = "no"
    OBVIOUS
  <1>2. sending'[t] = "claim" /\ \A u \in Sender : u # t => sending'[u] = "no"
    BY <1>1
  <1> QED BY <1>1, <1>2

\* The loop reads the eventfd, waits for the sender, and goes on.
LEMMA PollKeeps ==
  ASSUME SendInv, HearInv, IoRead \/ Spin, UNCHANGED loopVars
  PROVE  SendInv' /\ HearInv'
  BY DEF SendInv, SendType, OneSends, MarkedBusy, HearInv, MarkIsRead, ResultsAnnounced,
         loopVars, IoRead, Spin, Settled

\* The loop takes the queue over and calls back.
LEMMA TakeOverKeeps ==
  ASSUME SendInv, HearInv, Move \/ Done
  PROVE  SendInv' /\ HearInv'
  <1> USE DEF SendInv, SendType, OneSends, MarkedBusy, HearInv, MarkIsRead, ResultsAnnounced
  <1>1. SendInv'
    BY DEF Move, Done
  <1>2. CASE Move
    BY <1>1, <1>2 DEF Move
  <1>3. CASE Done
    <2>1. io = "cb" /\ (Tail(batch) # <<>> => io' = "cb")
      BY <1>3 DEF Done
    <2> QED BY <1>1, <1>3, <2>1 DEF Done
  <1> QED BY <1>2, <1>3

\* Nothing else touches the handle, the queue of results or their lock but to let it go.
LEMMA OthersKeep ==
  ASSUME SendInv, HearInv, UNCHANGED <<asyncVars, loopwq, batch>>,
         wq_mutex' = wq_mutex \/ \E t \in Sender : wq_mutex = t /\ sending[t] = "no"
  PROVE  SendInv' /\ HearInv'
  BY DEF SendInv, SendType, OneSends, MarkedBusy, HearInv, MarkIsRead, ResultsAnnounced, asyncVars

LEMMA InitKeeps == PoolInit => SendInv /\ HearInv
  BY DEF PoolInit, AsyncInit, SendInv, SendType, OneSends, MarkedBusy, HearInv, MarkIsRead,
         ResultsAnnounced

LEMMA NextKeeps == SendInv /\ HearInv /\ [PoolNext]_vars => SendInv' /\ HearInv'
  <1> SUFFICES ASSUME SendInv, HearInv, [PoolNext]_vars PROVE SendInv' /\ HearInv'
    OBVIOUS
  <1> USE ThreadpoolAssumption DEF Nobody
  <1>1. ASSUME NEW w \in Work, Submit(w) \/ Cancel(w) PROVE SendInv' /\ HearInv'
    BY <1>1, OthersKeep DEF Submit, Cancel, loopVars
  <1>2. ASSUME NEW t \in Worker, Take(t) \/ RunsForever(t) PROVE SendInv' /\ HearInv'
    BY <1>2, OthersKeep DEF Take, RunsForever, loopVars
  <1>3. ASSUME NEW t \in Worker, Report(t) PROVE SendInv' /\ HearInv'
    BY <1>3, ReportKeeps DEF Report, SendWanted
  <1>4. ASSUME NEW t \in Sender, WakeLoop(t) PROVE SendInv' /\ HearInv'
    BY <1>4, SendStepKeeps DEF WakeLoop
  <1>5. ASSUME NEW t \in Sender, Reported(t) PROVE SendInv' /\ HearInv'
    BY <1>5, OthersKeep DEF Reported
  <1>6. ASSUME NEW w \in Work, ReportCancelled(w) PROVE SendInv' /\ HearInv'
    BY <1>6, ReportKeeps DEF ReportCancelled
  <1>7. CASE PollStep
    BY <1>7, PollKeeps DEF PollStep
  <1>8. CASE Move \/ Done
    BY <1>8, TakeOverKeeps
  <1>9. CASE Join \/ Cleanup
    BY <1>9, OthersKeep DEF Join, Cleanup, loopVars
  <1>10. CASE UNCHANGED vars
    BY <1>10, OthersKeep DEF vars, loopVars
  <1> QED
    BY <1>1, <1>2, <1>3, <1>4, <1>5, <1>6, <1>7, <1>8, <1>9, <1>10
    DEF PoolNext, WorkerStep, LoopStep

--------------------------------------------------------------------------------

LEMMA AlwaysKept == PoolSpec => [](SendInv /\ HearInv)
  BY InitKeeps, NextKeeps, PTL DEF PoolSpec

\* However many threads report at once, uv_async_send never finds the handle changed
\* behind its back: its abort is unreachable.
THEOREM AbortUnreachable == PoolSpec => []SendSettles
  <1>1. SendInv => SendSettles
    BY DEF SendInv, SendSettles
  <1> QED BY <1>1, AlwaysKept, PTL

\* No result is ever left in the queue of the loop without a wake-up on its way, whatever
\* the order of reports, wake-ups and callbacks.
THEOREM NoResultUnheard == PoolSpec => []LoopWillHear
  <1>1. HearInv => LoopWillHear
    BY DEF HearInv, MarkIsRead, ResultsAnnounced, LoopWillHear
  <1> QED BY <1>1, AlwaysKept, PTL

--------------------------------------------------------------------------------
(* Threadpool implements WorkQueue.  Placed says that a work is in one place at a time;
   a step moves one work from its place to the next, and moves no other. *)

Message == {run_slow_work_message, exit_message}

PlaceType ==
  /\ wq \in Seq(Work \cup Message) /\ slow_io_pending_wq \in Seq(Work)
  /\ loopwq \in Seq(Work) /\ batch \in Seq(Work)
  /\ cancelled \subseteq Work
  /\ pc \in [Worker -> {"ready", "wait", "woken", "run", "stuck", "send", "exited"}]
  /\ at \in [Worker -> Work \cup {Nobody}]
  /\ \A t \in Worker : pc[t] \in {"run", "stuck"} => at[t] \in Work

\* No work is twice in a queue.
Once(s) == \A i, k \in 1 .. Len(s) : s[i] = s[k] /\ s[i] \in Work => i = k

Runs(t, w) == at[t] = w /\ pc[t] \in {"run", "stuck"}
Queued(w) == InSeq(w, wq) \/ InSeq(w, slow_io_pending_wq)
Running(w) == \E t \in Worker : Runs(t, w)
Told(w) == InSeq(w, loopwq) \/ InSeq(w, batch)

\* A work is at one place of one queue, or with one thread, or nowhere; one that was
\* cancelled may be on its way back to the loop.
Placed ==
  /\ Once(wq) /\ Once(slow_io_pending_wq) /\ Once(loopwq) /\ Once(batch)
  /\ \A w \in Work :
       /\ ~(InSeq(w, wq) /\ InSeq(w, slow_io_pending_wq))
       /\ ~(InSeq(w, loopwq) /\ InSeq(w, batch))
       /\ ~(Queued(w) /\ (Running(w) \/ Told(w) \/ w \in cancelled))
       /\ ~(Running(w) /\ (Told(w) \/ w \in cancelled))
  /\ \A t, u \in Worker : \A w \in Work : Runs(t, w) /\ Runs(u, w) => t = u

\* A thread that holds the lock of the queue of results is sending.
LockInv == \A t \in Worker : wq_mutex = t => pc[t] = "send"

PlaceInv == PlaceType /\ Placed /\ LockInv

--------------------------------------------------------------------------------
(* Queues *)

LEMMA InSeqAppend ==
  ASSUME NEW T, NEW s \in Seq(T), NEW y \in T
  PROVE  /\ Append(s, y) \in Seq(T)
         /\ \A x : InSeq(x, Append(s, y)) <=> InSeq(x, s) \/ x = y
         /\ Once(s) /\ (~InSeq(y, s) \/ y \notin Work) => Once(Append(s, y))
  <1> DEFINE a == Append(s, y)
  <1>1. /\ a \in Seq(T) /\ Len(a) = Len(s) + 1 /\ a[Len(s) + 1] = y /\ Len(s) \in Nat
        /\ \A i \in 1 .. Len(s) : a[i] = s[i]
        /\ DOMAIN a = 1 .. Len(s) + 1 /\ DOMAIN s = 1 .. Len(s)
    BY AppendProperties, LenProperties
  <1> HIDE DEF a
  <1>2. \A x : InSeq(x, a) <=> InSeq(x, s) \/ x = y
    BY <1>1 DEF InSeq
  <1>3. ASSUME Once(s), ~InSeq(y, s) \/ y \notin Work PROVE Once(a)
    <2> SUFFICES ASSUME NEW i \in 1 .. Len(a), NEW k \in 1 .. Len(a), a[i] = a[k], a[i] \in Work
                 PROVE  i = k
      BY DEF Once
    <2>1. CASE i \in 1 .. Len(s) /\ k \in 1 .. Len(s)
      BY <1>1, <1>3, <2>1 DEF Once
    <2>2. CASE i = Len(s) + 1 /\ k = Len(s) + 1
      BY <2>2
    <2>3. CASE i \in 1 .. Len(s) /\ k = Len(s) + 1
      BY <1>1, <1>3, <2>3 DEF InSeq
    <2>4. CASE k \in 1 .. Len(s) /\ i = Len(s) + 1
      BY <1>1, <1>3, <2>4 DEF InSeq
    <2> QED BY <1>1, <2>1, <2>2, <2>3, <2>4
  <1> QED BY <1>1, <1>2, <1>3 DEF a

LEMMA InSeqTail ==
  ASSUME NEW T, NEW s \in Seq(T), s # <<>>, Once(s)
  PROVE  /\ Head(s) \in T /\ InSeq(Head(s), s) /\ Tail(s) \in Seq(T)
         /\ \A x \in Work : InSeq(x, Tail(s)) <=> InSeq(x, s) /\ x # Head(s)
         /\ Once(Tail(s))
  <1> DEFINE a == Tail(s)
  <1>1. /\ Len(s) \in Nat /\ Len(s) >= 1 /\ Head(s) = s[1] /\ Head(s) \in T
        /\ a \in Seq(T) /\ Len(a) = Len(s) - 1
        /\ \A i \in 1 .. Len(a) : a[i] = s[i + 1]
        /\ DOMAIN a = 1 .. Len(s) - 1 /\ DOMAIN s = 1 .. Len(s)
    BY HeadTailProperties, LenProperties, EmptySeq
  <1> HIDE DEF a
  <1>2. ASSUME NEW x \in Work PROVE InSeq(x, a) <=> InSeq(x, s) /\ x # Head(s)
    <2>1. ASSUME NEW k \in 1 .. Len(a), a[k] = x PROVE InSeq(x, s) /\ x # Head(s)
      <3>1. k + 1 \in 1 .. Len(s) /\ s[k + 1] = x /\ k + 1 # 1
        BY <1>1, <2>1
      <3> QED BY <1>1, <3>1 DEF InSeq, Once
    <2>2. ASSUME NEW k \in 1 .. Len(s), s[k] = x, x # Head(s) PROVE InSeq(x, a)
      <3>1. k - 1 \in 1 .. Len(a)
        BY <1>1, <2>2
      <3>2. a[k - 1] = x
        BY <1>1, <2>2, <3>1
      <3> QED BY <1>1, <3>1, <3>2 DEF InSeq
    <2> QED BY <1>1, <2>1, <2>2 DEF InSeq
  <1>3. Once(a)
    <2> SUFFICES ASSUME NEW i \in 1 .. Len(a), NEW k \in 1 .. Len(a), a[i] = a[k], a[i] \in Work
                 PROVE  i = k
      BY DEF Once
    <2>1. i + 1 \in 1 .. Len(s) /\ k + 1 \in 1 .. Len(s) /\ s[i + 1] = s[k + 1] /\ s[i + 1] \in Work
      BY <1>1
    <2>2. i + 1 = k + 1
      BY <2>1 DEF Once
    <2> QED BY <2>2
  <1>4. InSeq(Head(s), s)
    BY <1>1 DEF InSeq
  <1> QED BY <1>1, <1>2, <1>3, <1>4 DEF a

LEMMA InSeqWithout ==
  ASSUME NEW T, NEW s \in Seq(T), NEW w \in Work, Once(s)
  PROVE  /\ Without(s, w) \in Seq(T)
         /\ \A x \in Work : InSeq(x, Without(s, w)) <=> InSeq(x, s) /\ x # w
         /\ Once(Without(s, w))
  <1>1. CASE ~InSeq(w, s)
    BY <1>1 DEF Without
  <1>2. CASE InSeq(w, s)
    <2> DEFINE k == CHOOSE i \in DOMAIN s : s[i] = w
               n == Len(s)
               a == Without(s, w)
               pre == SubSeq(s, 1, k - 1)
               post == SubSeq(s, k + 1, n)
    <2>1. n \in Nat /\ DOMAIN s = 1 .. n /\ k \in 1 .. n /\ s[k] = w
          /\ \A i \in 1 .. n : s[i] \in T
      BY <1>2, LenProperties, ElementOfSeq DEF InSeq
    <2> HIDE DEF k, n
    <2>2. /\ pre \in Seq(T) /\ Len(pre) = k - 1
          /\ \A i \in 1 .. k - 1 : pre[i] = s[i]
      <3>1. \A i \in 1 .. k - 1 : s[i] \in T
        BY <2>1
      <3>2. k - 1 \in Int /\ 1 \in Int /\ k - 1 >= 0
        BY <2>1
      <3>3. /\ pre \in Seq(T) /\ Len(pre) = IF 1 <= k - 1 THEN (k - 1) - 1 + 1 ELSE 0
            /\ \A i \in 1 .. (k - 1) - 1 + 1 : pre[i] = s[1 + i - 1]
        BY <3>1, <3>2, SubSeqProperties
      <3> HIDE DEF pre
      <3> QED BY <3>2, <3>3
    <2>3. /\ post \in Seq(T) /\ Len(post) = n - k
          /\ \A i \in 1 .. n - k : post[i] = s[k + i]
      <3>1. \A i \in k + 1 .. n : s[i] \in T
        BY <2>1
      <3>2. k + 1 \in Int /\ n \in Int /\ n - k >= 0
        BY <2>1
      <3>3. /\ post \in Seq(T) /\ Len(post) = IF k + 1 <= n THEN n - (k + 1) + 1 ELSE 0
            /\ \A i \in 1 .. n - (k + 1) + 1 : post[i] = s[(k + 1) + i - 1]
        BY <3>1, <3>2, SubSeqProperties
      <3> HIDE DEF post
      <3> QED BY <2>1, <3>2, <3>3
    <2>4. a = pre \o post
      BY <1>2 DEF Without, k, n
    <2> HIDE DEF a, pre, post
    <2>5. /\ a \in Seq(T) /\ Len(a) = n - 1
          /\ \A i \in 1 .. n - 1 : a[i] = IF i < k THEN s[i] ELSE s[i + 1]
      <3>1. /\ a \in Seq(T) /\ Len(a) = (k - 1) + (n - k)
            /\ \A i \in 1 .. (k - 1) + (n - k) :
                 a[i] = IF i <= k - 1 THEN pre[i] ELSE post[i - (k - 1)]
        BY <2>2, <2>3, <2>4, ConcatProperties
      <3>2. (k - 1) + (n - k) = n - 1
        BY <2>1
      <3>3. ASSUME NEW i \in 1 .. n - 1 PROVE a[i] = IF i < k THEN s[i] ELSE s[i + 1]
        <4>1. CASE i < k
          BY <2>1, <2>2, <3>1, <3>2, <4>1
        <4>2. CASE ~(i < k)
          <5>1. i - (k - 1) \in 1 .. n - k /\ ~(i <= k - 1)
            BY <2>1, <4>2
          <5>2. a[i] = post[i - (k - 1)]
            BY <3>1, <3>2, <5>1
          <5>3. k + (i - (k - 1)) = i + 1
            BY <2>1
          <5> QED BY <2>3, <4>2, <5>1, <5>2, <5>3
        <4> QED BY <4>1, <4>2
      <3> QED BY <3>1, <3>2, <3>3
    <2>6. DOMAIN a = 1 .. n - 1
      BY <2>1, <2>5, LenProperties
    <2>7. ASSUME NEW x \in Work PROVE InSeq(x, a) <=> InSeq(x, s) /\ x # w
      <3>1. ASSUME NEW i \in 1 .. n - 1, a[i] = x PROVE InSeq(x, s) /\ x # w
        <4>1. PICK j \in 1 .. n : s[j] = x /\ j # k
          BY <2>1, <2>5, <3>1
        <4> QED BY <2>1, <4>1 DEF InSeq, Once, n
      <3>2. ASSUME NEW j \in 1 .. n, s[j] = x, x # w PROVE InSeq(x, a)
        <4>1. CASE j < k
          <5>1. j \in 1 .. n - 1 /\ a[j] = x
            BY <2>1, <2>5, <3>2, <4>1
          <5> QED BY <2>6, <5>1 DEF InSeq
        <4>2. CASE j > k
          <5>1. j - 1 \in 1 .. n - 1 /\ ~(j - 1 < k)
            BY <2>1, <4>2
          <5>2. a[j - 1] = x
            BY <2>5, <3>2, <5>1
          <5> QED BY <2>6, <5>1, <5>2 DEF InSeq
        <4> QED BY <2>1, <3>2, <4>1, <4>2
      <3> QED BY <2>1, <2>6, <3>1, <3>2 DEF InSeq
    <2>8. Once(a)
      <3> SUFFICES ASSUME NEW i \in 1 .. n - 1, NEW j \in 1 .. n - 1, a[i] = a[j], a[i] \in Work
                   PROVE  i = j
        BY <2>5 DEF Once
      <3> DEFINE src(m) == IF m < k THEN m ELSE m + 1
      <3>1. /\ src(i) \in 1 .. n /\ src(j) \in 1 .. n
            /\ s[src(i)] = a[i] /\ s[src(j)] = a[j]
        BY <2>1, <2>5
      <3>2. src(i) = src(j)
        <4> HIDE DEF src
        <4> QED BY <3>1 DEF Once, n
      <3> QED BY <2>1, <3>2
    <2> QED BY <2>5, <2>7, <2>8 DEF a
  <1> QED BY <1>1, <1>2

LEMMA EmptyQueue == \A x : ~InSeq(x, <<>>)
  BY DEF InSeq

LEMMA WorkIsNoMessage ==
  /\ Work \cap Message = {} /\ Nobody \notin Work
  /\ run_slow_work_message \in Message /\ exit_message \in Message
  BY ThreadpoolAssumption DEF Message, Nobody, run_slow_work_message, exit_message

\* A message is no work.
LEMMA AppendMessage ==
  ASSUME NEW s \in Seq(Work \cup Message), Once(s), NEW m \in Message
  PROVE  /\ Append(s, m) \in Seq(Work \cup Message) /\ Once(Append(s, m))
         /\ \A v \in Work : InSeq(v, Append(s, m)) <=> InSeq(v, s)
  <1>1. m \in Work \cup Message /\ m \notin Work
    BY WorkIsNoMessage
  <1> DEFINE a == Append(s, m)
  <1>2. /\ a \in Seq(Work \cup Message) /\ Once(a)
        /\ \A x : InSeq(x, a) <=> InSeq(x, s) \/ x = m
    BY <1>1, InSeqAppend
  <1> HIDE DEF a
  <1>3. \A v \in Work : InSeq(v, a) <=> InSeq(v, s)
    BY <1>1, <1>2
  <1> QED BY <1>2, <1>3 DEF a

--------------------------------------------------------------------------------
(* Steps of WorkQueue *)

\* One work goes on, and no other.
LEMMA Moves ==
  ASSUME NEW w \in Work, <<StateOf(w), StateOf(w)'>> \in WQ!Step,
         \A v \in Work : v # w => StateOf(v)' = StateOf(v)
  PROVE  WQ!QueueNext
  BY DEF WQ!QueueNext

\* What a step does to the queue.
Refines == WQ!QueueNext \/ \A v \in Work : StateOf(v)' = StateOf(v)

\* Where a work is, in terms of its places.
LEMMA StateByPlace ==
  ASSUME NEW w \in Work
  PROVE  StateOf(w) = IF w \in cancelled THEN "cancelled" ELSE IF Queued(w) THEN "queued"
                      ELSE IF Told(w) THEN "ran" ELSE IF Running(w) THEN "running" ELSE "idle"
  BY DEF StateOf, Queued, Told, Running, Runs

LEMMA StateByPlacePrime ==
  ASSUME NEW w \in Work
  PROVE  StateOf(w)' = IF w \in cancelled' THEN "cancelled" ELSE IF Queued(w)' THEN "queued"
                       ELSE IF Told(w)' THEN "ran" ELSE IF Running(w)' THEN "running" ELSE "idle"
  BY DEF StateOf, Queued, Told, Running, Runs

\* Nothing changes its place.
LEMMA PlacesStay ==
  ASSUME PlaceInv, PlaceType', LockInv',
         Once(wq)' /\ Once(slow_io_pending_wq)' /\ Once(loopwq)' /\ Once(batch)',
         \A w \in Work :
           /\ InSeq(w, wq)' <=> InSeq(w, wq)
           /\ InSeq(w, slow_io_pending_wq)' <=> InSeq(w, slow_io_pending_wq)
           /\ Told(w)' <=> Told(w)
           /\ ~(InSeq(w, loopwq)' /\ InSeq(w, batch)'),
         cancelled' = cancelled,
         \A t \in Worker, w \in Work : Runs(t, w)' <=> Runs(t, w)
  PROVE  PlaceInv' /\ Refines
  <1>1. \A w \in Work : /\ Queued(w)' <=> Queued(w)
                        /\ Running(w)' <=> Running(w)
    BY DEF Queued, Running
  <1>2. Placed'
    BY <1>1 DEF PlaceInv, Placed
  <1>3. \A w \in Work : StateOf(w)' = StateOf(w)
    BY <1>1, StateByPlace, StateByPlacePrime
  <1> QED BY <1>2, <1>3 DEF PlaceInv, Refines

\* A signal wakes a thread that waits, and none that runs a work.
LEMMA SignalWakes ==
  ASSUME NEW pcs \in [Worker -> {"ready", "wait", "woken", "run", "stuck", "send", "exited"}],
         pc' \in Signalled(pcs)
  PROVE  /\ pc' \in [Worker -> {"ready", "wait", "woken", "run", "stuck", "send", "exited"}]
         /\ \A t \in Worker :
              pc'[t] = pcs[t] \/ (pcs[t] = "wait" /\ pc'[t] = "woken")
  BY DEF Signalled

--------------------------------------------------------------------------------
(* The loop thread *)

\* A work that is nowhere goes to a queue; a message there is no work.
LEMMA SubmitMoves ==
  ASSUME PlaceInv, NEW w \in Work, Submit(w)
  PROVE  PlaceInv' /\ Refines
  <1> USE DEF PlaceInv
  <1>1. /\ ~InSeq(w, wq) /\ ~InSeq(w, slow_io_pending_wq) /\ ~Told(w) /\ w \notin cancelled
        /\ ~Running(w)
    BY DEF Submit, Busy, Told, Running, Runs
  <1>2. UNCHANGED <<at, wq_mutex, loopwq, batch, cancelled>>
    BY DEF Submit, loopVars
  <1>3. /\ wq' \in Seq(Work \cup Message) /\ slow_io_pending_wq' \in Seq(Work)
        /\ \A v \in Work : InSeq(v, wq') <=> InSeq(v, wq) \/ (v = w /\ w \notin Slow)
        /\ \A v \in Work : InSeq(v, slow_io_pending_wq')
                             <=> InSeq(v, slow_io_pending_wq) \/ (v = w /\ w \in Slow)
        /\ Once(wq') /\ Once(slow_io_pending_wq')
    <2>1. CASE w \in Slow
      <3>1. /\ slow_io_pending_wq' = Append(slow_io_pending_wq, w)
            /\ wq' = wq \/ wq' = Append(wq, run_slow_work_message)
        BY <2>1 DEF Submit, PostSlow
      <3>2. /\ slow_io_pending_wq' \in Seq(Work) /\ Once(slow_io_pending_wq')
            /\ \A v : InSeq(v, slow_io_pending_wq') <=> InSeq(v, slow_io_pending_wq) \/ v = w
        BY <1>1, <3>1, InSeqAppend DEF PlaceType, Placed
      <3>3. /\ wq' \in Seq(Work \cup Message) /\ Once(wq')
            /\ \A v \in Work : InSeq(v, wq') <=> InSeq(v, wq)
        <4>1. wq \in Seq(Work \cup Message) /\ Once(wq)
          BY DEF PlaceType, Placed
        <4>2. /\ Append(wq, run_slow_work_message) \in Seq(Work \cup Message)
              /\ Once(Append(wq, run_slow_work_message))
              /\ \A v \in Work : InSeq(v, Append(wq, run_slow_work_message)) <=> InSeq(v, wq)
          BY <4>1, AppendMessage, WorkIsNoMessage
        <4> QED BY <3>1, <4>1, <4>2
      <3> QED BY <2>1, <3>2, <3>3
    <2>2. CASE w \notin Slow
      <3>1. wq' = Append(wq, w) /\ slow_io_pending_wq' = slow_io_pending_wq
        BY <2>2 DEF Submit, PostQuick
      <3>2. /\ wq' \in Seq(Work \cup Message) /\ Once(wq')
            /\ \A v : InSeq(v, wq') <=> InSeq(v, wq) \/ v = w
        BY <1>1, <3>1, InSeqAppend DEF PlaceType, Placed
      <3> QED BY <2>2, <3>1, <3>2 DEF PlaceType, Placed
    <2> QED BY <2>1, <2>2
  <1>4. /\ pc' \in [Worker -> {"ready", "wait", "woken", "run", "stuck", "send", "exited"}]
        /\ \A t \in Worker : pc'[t] = pc[t] \/ (pc[t] = "wait" /\ pc'[t] = "woken")
    BY SignalWakes DEF Submit, PostSlow, PostQuick, PlaceType
  <1>5. PlaceType' /\ LockInv'
    BY <1>2, <1>3, <1>4 DEF PlaceType, LockInv
  <1>6. \A t \in Worker, v \in Work : Runs(t, v)' <=> Runs(t, v)
    BY <1>2, <1>4 DEF Runs
  <1>7. \A v \in Work : /\ Queued(v)' <=> Queued(v) \/ v = w
                        /\ Told(v)' <=> Told(v)
                        /\ Running(v)' <=> Running(v)
    BY <1>2, <1>3, <1>6 DEF Queued, Told, Running
  <1>8. Placed'
    BY <1>1, <1>2, <1>3, <1>6, <1>7 DEF Placed
  <1>9. <<StateOf(w), StateOf(w)'>> \in WQ!Step
    BY <1>1, <1>2, <1>7, StateByPlace, StateByPlacePrime DEF Queued, WQ!Step
  <1>10. \A v \in Work : v # w => StateOf(v)' = StateOf(v)
    BY <1>2, <1>7, StateByPlace, StateByPlacePrime
  <1> QED BY <1>5, <1>8, <1>9, <1>10, Moves DEF Refines

\* A work is taken out of its queue, and is cancelled.
LEMMA CancelMoves ==
  ASSUME PlaceInv, NEW w \in Work, Cancel(w)
  PROVE  PlaceInv' /\ Refines
  <1> USE DEF PlaceInv
  <1>1. Queued(w) /\ cancelled' = cancelled \cup {w}
        /\ UNCHANGED <<pc, at, wq_mutex, loopwq, batch>>
    BY DEF Cancel, Queued
  <1>2. /\ wq' \in Seq(Work \cup Message) /\ slow_io_pending_wq' \in Seq(Work)
        /\ \A v \in Work : InSeq(v, wq') <=> InSeq(v, wq) /\ v # w
        /\ \A v \in Work : InSeq(v, slow_io_pending_wq') <=> InSeq(v, slow_io_pending_wq) /\ v # w
        /\ Once(wq') /\ Once(slow_io_pending_wq')
    BY InSeqWithout DEF Cancel, PlaceType, Placed
  <1>3. PlaceType' /\ LockInv'
    BY <1>1, <1>2 DEF PlaceType, LockInv
  <1>4. \A t \in Worker, v \in Work : Runs(t, v)' <=> Runs(t, v)
    BY <1>1 DEF Runs
  <1>5. \A v \in Work : /\ Queued(v)' <=> Queued(v) /\ v # w
                        /\ Told(v)' <=> Told(v)
                        /\ Running(v)' <=> Running(v)
    BY <1>1, <1>2, <1>4 DEF Queued, Told, Running
  <1>6. Placed'
    BY <1>1, <1>2, <1>4, <1>5 DEF Placed
  <1>7. <<StateOf(w), StateOf(w)'>> \in WQ!Step
    BY <1>1, <1>5, StateByPlace, StateByPlacePrime DEF Placed, WQ!Step
  <1>8. \A v \in Work : v # w => StateOf(v)' = StateOf(v)
    BY <1>1, <1>5, StateByPlace, StateByPlacePrime
  <1> QED BY <1>3, <1>6, <1>7, <1>8, Moves DEF Refines

\* A cancelled work goes to the loop's queue, as cancelled.
LEMMA ReportCancelledMoves ==
  ASSUME PlaceInv, NEW w \in Work, ReportCancelled(w)
  PROVE  PlaceInv' /\ Refines
  <1> USE DEF PlaceInv
  <1>1. /\ w \in cancelled /\ ~InSeq(w, loopwq) /\ ~InSeq(w, batch)
        /\ loopwq' = Append(loopwq, w) /\ wq_mutex' = Loop
        /\ UNCHANGED <<wq, slow_io_pending_wq, pc, at, batch, cancelled>>
    BY DEF ReportCancelled, poolVars
  <1>2. /\ loopwq' \in Seq(Work) /\ Once(loopwq')
        /\ \A v : InSeq(v, loopwq') <=> InSeq(v, loopwq) \/ v = w
    BY <1>1, InSeqAppend DEF PlaceType, Placed
  <1>3. PlaceType' /\ LockInv'
    BY <1>1, <1>2, ThreadpoolAssumption DEF PlaceType, LockInv
  <1>4. \A t \in Worker, v \in Work : Runs(t, v)' <=> Runs(t, v)
    BY <1>1 DEF Runs
  <1>5. \A v \in Work : /\ Queued(v)' <=> Queued(v)
                        /\ Told(v)' <=> Told(v) \/ v = w
                        /\ Running(v)' <=> Running(v)
    BY <1>1, <1>2, <1>4 DEF Queued, Told, Running
  <1>6. Placed'
    BY <1>1, <1>2, <1>4, <1>5 DEF Placed
  <1>7. \A v \in Work : StateOf(v)' = StateOf(v)
    BY <1>1, <1>5, StateByPlace, StateByPlacePrime
  <1> QED BY <1>3, <1>6, <1>7 DEF Refines

\* The loop takes its queue over.
LEMMA MoveStays ==
  ASSUME PlaceInv, Move
  PROVE  PlaceInv' /\ Refines
  <1> USE DEF PlaceInv
  <1>1. /\ batch = <<>> /\ batch' = loopwq /\ loopwq' = <<>>
        /\ UNCHANGED <<wq, slow_io_pending_wq, pc, at, wq_mutex, cancelled>>
    BY DEF Move, poolVars
  <1>2. \A w \in Work : /\ Told(w)' <=> Told(w)
                        /\ ~(InSeq(w, loopwq)' /\ InSeq(w, batch)')
    BY <1>1, EmptyQueue DEF Told
  <1>3. Once(loopwq)' /\ Once(batch)'
    BY <1>1 DEF Once, Placed
  <1>4. PlaceType' /\ LockInv'
    BY <1>1 DEF PlaceType, LockInv
  <1>5. \A t \in Worker, v \in Work : Runs(t, v)' <=> Runs(t, v)
    BY <1>1 DEF Runs
  <1>6. Once(wq)' /\ Once(slow_io_pending_wq)'
    BY <1>1 DEF Placed
  <1> QED BY <1>1, <1>2, <1>3, <1>4, <1>5, <1>6, PlacesStay

\* A done callback: its work is nowhere again.
LEMMA DoneMoves ==
  ASSUME PlaceInv, Done
  PROVE  PlaceInv' /\ Refines
  <1> USE DEF PlaceInv
  <1>0. PICK w : w = Head(batch)
    OBVIOUS
  <1>1. /\ batch # <<>> /\ batch' = Tail(batch) /\ cancelled' = cancelled \ {w}
        /\ UNCHANGED <<wq, slow_io_pending_wq, pc, at, wq_mutex, loopwq>>
    BY <1>0 DEF Done, poolVars
  <1>2. /\ w \in Work /\ InSeq(w, batch) /\ batch' \in Seq(Work) /\ Once(batch')
        /\ \A v \in Work : InSeq(v, batch') <=> InSeq(v, batch) /\ v # w
    BY <1>0, <1>1, InSeqTail DEF PlaceType, Placed
  <1>3. PlaceType' /\ LockInv'
    BY <1>1, <1>2 DEF PlaceType, LockInv
  <1>4. \A t \in Worker, v \in Work : Runs(t, v)' <=> Runs(t, v)
    BY <1>1 DEF Runs
  <1>5. \A v \in Work : /\ Queued(v)' <=> Queued(v)
                        /\ Running(v)' <=> Running(v)
    BY <1>1, <1>4 DEF Queued, Running
  <1>6. Told(w) /\ ~Told(w)' /\ \A v \in Work : v # w => (Told(v)' <=> Told(v))
    BY <1>1, <1>2 DEF Told, Placed
  <1>7. Placed'
    <2>1. \A v \in Work : Told(v)' => Told(v)
      BY <1>6
    <2> QED BY <1>1, <1>2, <1>4, <1>5, <2>1 DEF Placed
  <1>8. ~Queued(w) /\ ~Running(w)
    BY <1>2, <1>6 DEF Placed
  <1>9. StateOf(w) \in {"cancelled", "ran"} /\ StateOf(w)' = "idle"
    BY <1>1, <1>2, <1>5, <1>6, <1>8, StateByPlace, StateByPlacePrime
  <1>10. <<StateOf(w), StateOf(w)'>> \in WQ!Step
    BY <1>9 DEF WQ!Step
  <1>11. \A v \in Work : v # w => StateOf(v)' = StateOf(v)
    BY <1>1, <1>5, <1>6, StateByPlace, StateByPlacePrime
  <1> QED BY <1>2, <1>3, <1>7, <1>10, <1>11, Moves DEF Refines

\* Cleanup queues a message.
LEMMA CleanupStays ==
  ASSUME PlaceInv, Cleanup
  PROVE  PlaceInv' /\ Refines
  <1> USE DEF PlaceInv
  <1>1. /\ wq' = Append(wq, exit_message) /\ pc' \in Signalled(pc)
        /\ UNCHANGED <<slow_io_pending_wq, at, wq_mutex, loopwq, batch, cancelled>>
    BY DEF Cleanup, PostQuick, loopVars
  <1>2. /\ wq' \in Seq(Work \cup Message) /\ Once(wq')
        /\ \A v \in Work : InSeq(v, wq') <=> InSeq(v, wq)
    BY <1>1, InSeqAppend, WorkIsNoMessage DEF PlaceType, Placed
  <1>3. /\ pc' \in [Worker -> {"ready", "wait", "woken", "run", "stuck", "send", "exited"}]
        /\ \A t \in Worker : pc'[t] = pc[t] \/ (pc[t] = "wait" /\ pc'[t] = "woken")
    BY <1>1, SignalWakes DEF PlaceType
  <1>4. PlaceType' /\ LockInv'
    BY <1>1, <1>2, <1>3 DEF PlaceType, LockInv
  <1>5. \A t \in Worker, v \in Work : Runs(t, v)' <=> Runs(t, v)
    BY <1>1, <1>3 DEF Runs
  <1>6. /\ Once(slow_io_pending_wq)' /\ Once(loopwq)' /\ Once(batch)'
        /\ \A v \in Work : /\ Told(v)' <=> Told(v)
                           /\ ~(InSeq(v, loopwq)' /\ InSeq(v, batch)')
                           /\ InSeq(v, slow_io_pending_wq)' <=> InSeq(v, slow_io_pending_wq)
    BY <1>1 DEF Told, Placed
  <1> QED BY <1>1, <1>2, <1>4, <1>5, <1>6, PlacesStay

--------------------------------------------------------------------------------
(* The threads *)

\* What every way to take something leaves alone.
LEMMA TakeLeaves ==
  ASSUME PlaceInv, NEW t \in Worker, Take(t)
  PROVE  /\ UNCHANGED <<wq_mutex, loopwq, batch, cancelled>>
         /\ pc[t] \in {"ready", "woken"} /\ \A w \in Work : ~Runs(t, w)
         /\ wq_mutex # t
  BY DEF Take, loopVars, Runs, PlaceInv, LockInv

\* A thread that takes no work.
LEMMA TakesNothing ==
  ASSUME PlaceInv, NEW t \in Worker, Take(t), Wait(t) \/ Exit(t) \/ PutBack(t)
  PROVE  PlaceInv' /\ Refines
  <1> USE DEF PlaceInv
  <1>1. /\ UNCHANGED <<wq_mutex, loopwq, batch, cancelled, slow_io_pending_wq>>
        /\ pc[t] \in {"ready", "woken"} /\ \A w \in Work : ~Runs(t, w)
        /\ wq_mutex # t
    BY TakeLeaves DEF Wait, Exit, PutBack
  <1>2. at' = [at EXCEPT ![t] = Nobody]
    BY DEF Wait, Exit, PutBack
  <1>3. \E label \in {"wait", "exited", "ready"} :
          pc' = [pc EXCEPT ![t] = label] \/ pc' \in Signalled([pc EXCEPT ![t] = label])
    BY DEF Wait, Exit, PutBack, GoTo
  <1>4. /\ pc' \in [Worker -> {"ready", "wait", "woken", "run", "stuck", "send", "exited"}]
        /\ pc'[t] \notin {"run", "stuck"}
        /\ \A u \in Worker : u # t => pc'[u] = pc[u] \/ (pc[u] = "wait" /\ pc'[u] = "woken")
    <2>1. PICK label \in {"wait", "exited", "ready"} :
            pc' = [pc EXCEPT ![t] = label] \/ pc' \in Signalled([pc EXCEPT ![t] = label])
      BY <1>3
    <2> DEFINE pcs == [pc EXCEPT ![t] = label]
    <2>2. /\ pcs \in [Worker -> {"ready", "wait", "woken", "run", "stuck", "send", "exited"}]
          /\ pcs[t] = label /\ \A u \in Worker : u # t => pcs[u] = pc[u]
      BY DEF PlaceType
    <2> HIDE DEF pcs
    <2>3. /\ pc' \in [Worker -> {"ready", "wait", "woken", "run", "stuck", "send", "exited"}]
          /\ \A u \in Worker : pc'[u] = pcs[u] \/ (pcs[u] = "wait" /\ pc'[u] = "woken")
      BY <2>1, <2>2, SignalWakes DEF pcs
    <2> QED BY <2>2, <2>3
  <1>5. /\ wq' \in Seq(Work \cup Message) /\ Once(wq')
        /\ \A v \in Work : InSeq(v, wq') <=> InSeq(v, wq)
    <2>1. CASE wq' = wq
      BY <2>1 DEF PlaceType, Placed
    <2>2. CASE PutBack(t)
      <3>1. /\ wq # <<>> /\ Head(wq) = run_slow_work_message
            /\ wq' = Tail(wq) \/ wq' = Append(Tail(wq), run_slow_work_message)
        BY <2>2 DEF PutBack, NothingToDo
      <3>2. /\ Tail(wq) \in Seq(Work \cup Message) /\ Once(Tail(wq))
            /\ \A v \in Work : InSeq(v, Tail(wq)) <=> InSeq(v, wq)
        BY <3>1, InSeqTail, WorkIsNoMessage DEF PlaceType, Placed
      <3>3. /\ Append(Tail(wq), run_slow_work_message) \in Seq(Work \cup Message)
            /\ Once(Append(Tail(wq), run_slow_work_message))
            /\ \A v \in Work : InSeq(v, Append(Tail(wq), run_slow_work_message))
                                 <=> InSeq(v, Tail(wq))
        BY <3>2, AppendMessage, WorkIsNoMessage
      <3> QED BY <3>1, <3>2, <3>3
    <2> QED BY <2>1, <2>2 DEF Wait, Exit
  <1>6. PlaceType' /\ LockInv'
    <2>1. at' \in [Worker -> Work \cup {Nobody}] /\ \A u \in Worker : u # t => at'[u] = at[u]
      BY <1>2 DEF PlaceType
    <2> QED BY <1>1, <1>4, <1>5, <2>1 DEF PlaceType, LockInv
  <1>7. \A u \in Worker, v \in Work : Runs(u, v)' <=> Runs(u, v)
    BY <1>1, <1>2, <1>4 DEF Runs, PlaceType
  <1>8. /\ Once(slow_io_pending_wq)' /\ Once(loopwq)' /\ Once(batch)'
        /\ \A v \in Work : /\ Told(v)' <=> Told(v)
                           /\ ~(InSeq(v, loopwq)' /\ InSeq(v, batch)')
                           /\ InSeq(v, slow_io_pending_wq)' <=> InSeq(v, slow_io_pending_wq)
    BY <1>1 DEF Told, Placed
  <1> QED BY <1>1, <1>5, <1>6, <1>7, <1>8, PlacesStay

\* A thread that takes work w from a queue runs it.
LEMMA TakesWork ==
  ASSUME PlaceInv, NEW t \in Worker, Take(t), NEW w \in Work, Queued(w),
         at' = [at EXCEPT ![t] = w],
         wq' \in Seq(Work \cup Message), slow_io_pending_wq' \in Seq(Work),
         Once(wq)', Once(slow_io_pending_wq)',
         \A v \in Work :
           /\ InSeq(v, wq)' <=> InSeq(v, wq) /\ v # w
           /\ InSeq(v, slow_io_pending_wq)' <=> InSeq(v, slow_io_pending_wq) /\ v # w,
         pc' = GoTo(t, "run") \/ pc' \in Signalled(GoTo(t, "run"))
  PROVE  PlaceInv' /\ Refines
  <1> USE DEF PlaceInv
  <1>1. /\ UNCHANGED <<wq_mutex, loopwq, batch, cancelled>>
        /\ pc[t] \in {"ready", "woken"} /\ \A v \in Work : ~Runs(t, v)
        /\ wq_mutex # t
    BY TakeLeaves
  <1>2. /\ pc' \in [Worker -> {"ready", "wait", "woken", "run", "stuck", "send", "exited"}]
        /\ pc'[t] = "run"
        /\ \A u \in Worker : u # t => pc'[u] = pc[u] \/ (pc[u] = "wait" /\ pc'[u] = "woken")
    <2> DEFINE pcs == [pc EXCEPT ![t] = "run"]
    <2>1. /\ pcs \in [Worker -> {"ready", "wait", "woken", "run", "stuck", "send", "exited"}]
          /\ pcs[t] = "run" /\ \A u \in Worker : u # t => pcs[u] = pc[u]
      BY DEF PlaceType
    <2>2. pc' = pcs \/ pc' \in Signalled(pcs)
      BY DEF GoTo
    <2> HIDE DEF pcs
    <2>3. /\ pc' \in [Worker -> {"ready", "wait", "woken", "run", "stuck", "send", "exited"}]
          /\ \A u \in Worker : pc'[u] = pcs[u] \/ (pcs[u] = "wait" /\ pc'[u] = "woken")
      BY <2>1, <2>2, SignalWakes
    <2> QED BY <2>1, <2>3
  <1>3. /\ at' \in [Worker -> Work \cup {Nobody}] /\ at'[t] = w
        /\ \A u \in Worker : u # t => at'[u] = at[u]
    BY DEF PlaceType
  <1>4. PlaceType' /\ LockInv'
    BY <1>1, <1>2, <1>3 DEF PlaceType, LockInv
  <1>5. \A u \in Worker, v \in Work : Runs(u, v)' <=> Runs(u, v) \/ (u = t /\ v = w)
    BY <1>1, <1>2, <1>3 DEF Runs
  <1>6. ~Running(w) /\ ~Told(w) /\ w \notin cancelled
    BY DEF Placed
  <1>7. \A v \in Work : /\ Queued(v)' <=> Queued(v) /\ v # w
                        /\ Told(v)' <=> Told(v)
                        /\ Running(v)' <=> Running(v) \/ v = w
    BY <1>1, <1>5 DEF Queued, Told, Running
  <1>8. Placed'
    <2>1. \A u, x \in Worker : \A v \in Work : Runs(u, v)' /\ Runs(x, v)' => u = x
      BY <1>5, <1>6 DEF Placed, Running
    <2> QED BY <1>1, <1>6, <1>7, <2>1 DEF Placed
  <1>9. <<StateOf(w), StateOf(w)'>> \in WQ!Step
    BY <1>1, <1>6, <1>7, StateByPlace, StateByPlacePrime DEF WQ!Step
  <1>10. \A v \in Work : v # w => StateOf(v)' = StateOf(v)
    BY <1>1, <1>7, StateByPlace, StateByPlacePrime
  <1> QED BY <1>4, <1>8, <1>9, <1>10, Moves DEF Refines

LEMMA TakeSlowMoves ==
  ASSUME PlaceInv, NEW t \in Worker, Take(t), TakeSlow(t)
  PROVE  PlaceInv' /\ Refines
  <1> USE DEF PlaceInv
  <1> DEFINE w == Head(slow_io_pending_wq)
  <1>1. /\ slow_io_pending_wq # <<>> /\ slow_io_pending_wq' = Tail(slow_io_pending_wq)
        /\ at' = [at EXCEPT ![t] = w]
        /\ wq # <<>> /\ Head(wq) = run_slow_work_message
        /\ wq' = Tail(wq) \/ wq' = Append(Tail(wq), run_slow_work_message)
        /\ pc' = GoTo(t, "run") \/ pc' \in Signalled(GoTo(t, "run"))
    BY DEF TakeSlow, NextSlow, NothingToDo
  <1>2. /\ w \in Work /\ InSeq(w, slow_io_pending_wq)
        /\ slow_io_pending_wq' \in Seq(Work) /\ Once(slow_io_pending_wq')
        /\ \A v \in Work : InSeq(v, slow_io_pending_wq') <=> InSeq(v, slow_io_pending_wq) /\ v # w
    BY <1>1, InSeqTail DEF PlaceType, Placed
  <1> HIDE DEF w
  <1>3. /\ Tail(wq) \in Seq(Work \cup Message) /\ Once(Tail(wq))
        /\ \A v \in Work : InSeq(v, Tail(wq)) <=> InSeq(v, wq)
    BY <1>1, InSeqTail, WorkIsNoMessage DEF PlaceType, Placed
  <1>4. /\ Append(Tail(wq), run_slow_work_message) \in Seq(Work \cup Message)
        /\ Once(Append(Tail(wq), run_slow_work_message))
        /\ \A v \in Work : InSeq(v, Append(Tail(wq), run_slow_work_message)) <=> InSeq(v, Tail(wq))
    BY <1>3, AppendMessage, WorkIsNoMessage
  <1>5. /\ wq' \in Seq(Work \cup Message) /\ Once(wq')
        /\ \A v \in Work : InSeq(v, wq') <=> InSeq(v, wq)
    BY <1>1, <1>3, <1>4
  <1>6. Queued(w) /\ ~InSeq(w, wq)
    BY <1>2 DEF Queued, Placed
  <1> QED BY <1>1, <1>2, <1>5, <1>6, TakesWork

LEMMA TakeQuickMoves ==
  ASSUME PlaceInv, NEW t \in Worker, Take(t), TakeQuick(t)
  PROVE  PlaceInv' /\ Refines
  <1> USE DEF PlaceInv
  <1> DEFINE w == Head(wq)
  <1>1. /\ wq # <<>> /\ w \in Work /\ wq' = Tail(wq) /\ at' = [at EXCEPT ![t] = w]
        /\ pc' = GoTo(t, "run") /\ slow_io_pending_wq' = slow_io_pending_wq
    BY DEF TakeQuick
  <1>2. /\ InSeq(w, wq) /\ wq' \in Seq(Work \cup Message) /\ Once(wq')
        /\ \A v \in Work : InSeq(v, wq') <=> InSeq(v, wq) /\ v # w
    BY <1>1, InSeqTail DEF PlaceType, Placed
  <1> HIDE DEF w
  <1>3. /\ Queued(w) /\ ~InSeq(w, slow_io_pending_wq)
        /\ slow_io_pending_wq' \in Seq(Work) /\ Once(slow_io_pending_wq)'
    BY <1>1, <1>2 DEF Queued, Placed, PlaceType
  <1> QED BY <1>1, <1>2, <1>3, TakesWork

\* The work of a thread goes to the loop's queue.
LEMMA ReportMoves ==
  ASSUME PlaceInv, NEW t \in Worker, Report(t)
  PROVE  PlaceInv' /\ Refines
  <1> USE DEF PlaceInv
  <1>0. PICK w : w = at[t]
    OBVIOUS
  <1>1. /\ pc[t] = "run" /\ wq_mutex' = t /\ loopwq' = Append(loopwq, w)
        /\ pc' = [pc EXCEPT ![t] = "send"]
        /\ UNCHANGED <<wq, slow_io_pending_wq, at, batch, cancelled>>
    BY <1>0 DEF Report, GoTo
  <1>2. w \in Work /\ Runs(t, w)
    BY <1>0, <1>1 DEF PlaceType, Runs
  <1>3. Running(w) /\ ~Queued(w) /\ ~Told(w) /\ w \notin cancelled
    BY <1>2 DEF Running, Placed
  <1>4. /\ loopwq' \in Seq(Work) /\ Once(loopwq')
        /\ \A v : InSeq(v, loopwq') <=> InSeq(v, loopwq) \/ v = w
    BY <1>1, <1>2, <1>3, InSeqAppend DEF PlaceType, Placed, Told
  <1>5. /\ pc' \in [Worker -> {"ready", "wait", "woken", "run", "stuck", "send", "exited"}]
        /\ pc'[t] = "send" /\ \A u \in Worker : u # t => pc'[u] = pc[u]
    BY <1>1 DEF PlaceType
  <1>6. PlaceType' /\ LockInv'
    BY <1>1, <1>4, <1>5 DEF PlaceType, LockInv
  <1>7. \A u \in Worker, v \in Work : Runs(u, v)' <=> Runs(u, v) /\ u # t
    BY <1>1, <1>5 DEF Runs
  <1>8. \A v \in Work : Running(v)' <=> Running(v) /\ v # w
    <2>1. \A u \in Worker, v \in Work : Runs(u, v) => (u = t <=> v = w)
      BY <1>2 DEF Placed, Runs
    <2> QED BY <1>7, <2>1 DEF Running
  <1>9. \A v \in Work : /\ Queued(v)' <=> Queued(v)
                        /\ Told(v)' <=> Told(v) \/ v = w
    BY <1>1, <1>4 DEF Queued, Told
  <1>10. Placed'
    <2>1. \A u, x \in Worker : \A v \in Work : Runs(u, v)' /\ Runs(x, v)' => u = x
      BY <1>7 DEF Placed
    <2>2. ~InSeq(w, batch)
      BY <1>3 DEF Told
    <2> QED BY <1>1, <1>3, <1>4, <1>8, <1>9, <2>1, <2>2 DEF Placed
  <1>11. <<StateOf(w), StateOf(w)'>> \in WQ!Step
    BY <1>1, <1>2, <1>3, <1>8, <1>9, StateByPlace, StateByPlacePrime DEF WQ!Step
  <1>12. \A v \in Work : v # w => StateOf(v)' = StateOf(v)
    BY <1>1, <1>8, <1>9, StateByPlace, StateByPlacePrime
  <1> QED BY <1>2, <1>6, <1>10, <1>11, <1>12, Moves DEF Refines

\* Steps that leave the queues alone and no thread with another work.
LEMMA OthersStay ==
  ASSUME PlaceInv,
         UNCHANGED <<wq, slow_io_pending_wq, at, loopwq, batch, cancelled>>,
         pc' \in [Worker -> {"ready", "wait", "woken", "run", "stuck", "send", "exited"}],
         \A t \in Worker : pc'[t] \in {"run", "stuck"} <=> pc[t] \in {"run", "stuck"},
         LockInv'
  PROVE  PlaceInv' /\ Refines
  <1>1. PlaceType'
    BY DEF PlaceInv, PlaceType
  <1>2. \A t \in Worker, w \in Work : Runs(t, w)' <=> Runs(t, w)
    BY DEF Runs
  <1>3. /\ Once(wq)' /\ Once(slow_io_pending_wq)' /\ Once(loopwq)' /\ Once(batch)'
        /\ \A v \in Work : /\ Told(v)' <=> Told(v)
                           /\ ~(InSeq(v, loopwq)' /\ InSeq(v, batch)')
                           /\ InSeq(v, wq)' <=> InSeq(v, wq)
                           /\ InSeq(v, slow_io_pending_wq)' <=> InSeq(v, slow_io_pending_wq)
    BY DEF Told, PlaceInv, Placed
  <1> QED BY <1>1, <1>2, <1>3, PlacesStay

LEMMA ReportedStays ==
  ASSUME PlaceInv, NEW t \in Sender, Reported(t)
  PROVE  PlaceInv' /\ Refines
  <1> USE DEF PlaceInv
  <1>1. /\ wq_mutex = t /\ wq_mutex' = Nobody
        /\ UNCHANGED <<wq, slow_io_pending_wq, at, loopwq, batch, cancelled>>
        /\ pc' = IF t \in Worker THEN [pc EXCEPT ![t] = "ready"] ELSE pc
    BY DEF Reported, GoTo
  <1>2. LockInv'
    BY <1>1, ThreadpoolAssumption DEF LockInv, Nobody
  <1>3. CASE t \in Worker
    <2>1. pc[t] = "send"
      BY <1>1, <1>3 DEF LockInv
    <2>2. /\ pc' \in [Worker -> {"ready", "wait", "woken", "run", "stuck", "send", "exited"}]
          /\ pc'[t] = "ready" /\ \A u \in Worker : u # t => pc'[u] = pc[u]
      BY <1>1, <1>3 DEF PlaceType
    <2>3. \A u \in Worker : pc'[u] \in {"run", "stuck"} <=> pc[u] \in {"run", "stuck"}
      BY <2>1, <2>2
    <2> QED BY <1>1, <1>2, <2>2, <2>3, OthersStay
  <1>4. CASE t \notin Worker
    BY <1>1, <1>2, <1>4, OthersStay DEF PlaceType
  <1> QED BY <1>3, <1>4

LEMMA RunsForeverStays ==
  ASSUME PlaceInv, NEW t \in Worker, RunsForever(t)
  PROVE  PlaceInv' /\ Refines
  <1> USE DEF PlaceInv
  <1>1. /\ pc[t] = "run" /\ pc' = [pc EXCEPT ![t] = "stuck"]
        /\ UNCHANGED <<wq, slow_io_pending_wq, at, wq_mutex, loopwq, batch, cancelled>>
    BY DEF RunsForever, GoTo, loopVars
  <1>2. /\ pc' \in [Worker -> {"ready", "wait", "woken", "run", "stuck", "send", "exited"}]
        /\ pc'[t] = "stuck" /\ \A u \in Worker : u # t => pc'[u] = pc[u]
    BY <1>1 DEF PlaceType
  <1>3. \A u \in Worker : pc'[u] \in {"run", "stuck"} <=> pc[u] \in {"run", "stuck"}
    BY <1>1, <1>2
  <1>4. LockInv'
    BY <1>1, <1>2 DEF LockInv
  <1> QED BY <1>1, <1>2, <1>3, <1>4, OthersStay

--------------------------------------------------------------------------------
LEMMA InitPlaced ==
  ASSUME PoolInit
  PROVE  PlaceInv /\ WQ!QueueInit
  <1> USE DEF PoolInit
  <1>1. PlaceType /\ LockInv
    BY ThreadpoolAssumption DEF PlaceType, LockInv, Nobody
  <1>2. \A w \in Work : ~Queued(w) /\ ~Told(w) /\ ~Running(w)
    BY EmptyQueue DEF Queued, Told, Running, Runs
  <1>3. Len(wq) = 0 /\ Len(slow_io_pending_wq) = 0 /\ Len(loopwq) = 0 /\ Len(batch) = 0
    OBVIOUS
  <1>4. Once(wq) /\ Once(slow_io_pending_wq) /\ Once(loopwq) /\ Once(batch)
    BY <1>3 DEF Once
  <1>5. Placed
    BY <1>2, <1>4 DEF Placed, Queued, Told, Running
  <1>6. \A w \in Work : StateOf(w) = "idle"
    BY <1>2, StateByPlace
  <1> QED BY <1>1, <1>5, <1>6 DEF PlaceInv, WQ!QueueInit

LEMMA NextMoves == PlaceInv /\ [PoolNext]_vars => PlaceInv' /\ Refines
  <1> SUFFICES ASSUME PlaceInv, [PoolNext]_vars PROVE PlaceInv' /\ Refines
    OBVIOUS
  <1>1. ASSUME NEW w \in Work, Submit(w) \/ Cancel(w) \/ ReportCancelled(w)
        PROVE  PlaceInv' /\ Refines
    BY <1>1, SubmitMoves, CancelMoves, ReportCancelledMoves
  <1>2. ASSUME NEW t \in Worker, Take(t) PROVE PlaceInv' /\ Refines
    <2>1. Wait(t) \/ Exit(t) \/ PutBack(t) \/ TakeSlow(t) \/ TakeQuick(t)
      BY <1>2 DEF Take
    <2> QED BY <1>2, <2>1, TakesNothing, TakeSlowMoves, TakeQuickMoves
  <1>3. ASSUME NEW t \in Worker, Report(t) \/ RunsForever(t) PROVE PlaceInv' /\ Refines
    BY <1>3, ReportMoves, RunsForeverStays
  <1>4. ASSUME NEW t \in Sender, Reported(t) PROVE PlaceInv' /\ Refines
    BY <1>4, ReportedStays
  <1>5. CASE Move \/ Done \/ Cleanup
    BY <1>5, MoveStays, DoneMoves, CleanupStays
  <1>6. CASE UNCHANGED <<poolVars, loopVars>>
    <2>1. LockInv'
      BY <1>6 DEF PlaceInv, LockInv, poolVars, loopVars
    <2> QED BY <1>6, <2>1, OthersStay DEF PlaceInv, PlaceType, poolVars, loopVars
  <1>7. ASSUME NEW t, WakeLoop(t) PROVE PlaceInv' /\ Refines
    BY <1>6, <1>7 DEF WakeLoop
  <1>8. CASE PollStep \/ Join \/ UNCHANGED vars
    BY <1>6, <1>8 DEF PollStep, Join, vars
  <1>9. Loop \in Sender /\ Worker \subseteq Sender
    BY ThreadpoolAssumption
  <1> QED
    BY <1>1, <1>2, <1>3, <1>4, <1>5, <1>7, <1>8, <1>9 DEF PoolNext, WorkerStep, LoopStep

\* Whatever the threads do at the same time, each work that is submitted runs once or is
\* cancelled, and its done callback follows once.
THEOREM ThreadpoolIsWorkQueue == PoolSpec => ImplementsWorkQueue
  <1>1. PoolInit => PlaceInv /\ WQ!QueueInit
    BY InitPlaced
  <1>2. PlaceInv /\ [PoolNext]_vars
          => PlaceInv' /\ [WQ!QueueNext]_([w \in Work |-> StateOf(w)])
    BY NextMoves DEF Refines
  <1> QED BY <1>1, <1>2, PTL DEF PoolSpec, ImplementsWorkQueue, WQ!QueueSpec
================================================================================
