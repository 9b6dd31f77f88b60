----------------------------- MODULE AssetsManager -----------------------------
(***************************************************************************)
(* AssetsManager's requests: a fixed number of them work at a time, more   *)
(* wait in pages.  A request passes twice through libuv's work queue (see  *)
(* WorkQueue): once to look up and open the file, once to read it.         *)
(* One bundle, so that a request never changes its file.                   *)
(***************************************************************************)
EXTENDS Integers, FiniteSets, SequencesExt

CONSTANTS
  Req,              \* the RequestWorks, MaximumOpenFiles of them
  RequestPageSize,
  Entry             \* the entries of the bundle

\* A request is no place in a page.  A page of two that was read past what is written in
\* it has been read to its end, and popped (the code has two); with three an entry might
\* be written where the page, still in the queue, was read before.
ASSUME AssetsAssumption ==
  /\ IsFiniteSet(Req) /\ \A r \in Req : r \notin Nat \X Nat
  /\ RequestPageSize \in {1, 2}

VARIABLES
  freeWorks,    \* the list of requests nobody uses
  phase,        \* per request: "free", "queued", "failed", "found", "reading", "read" or "cb"
  info,         \* per request: whom it is for and what it is to read
  pageQueue,    \* pages [pool, readIndex]; writeIndex is Len(pool)
  behind,       \* what back() reads as writeIndex when pageQueue is empty: that of the last
                \* page, whose memory may still be there, or 0 for memory that is no page
  lost,         \* history: whose info was written to memory that is in no page of the queue
  crashed       \* "no", or what ended the program: "back", "null" or "callback"

assetVars == <<freeWorks, phase, info, pageQueue, behind, lost, crashed>>

NoInfo == [ctx |-> 0, entry |-> "none"]   \* a RequestInfo nobody wrote: its cb is null

AssetsInit(works) ==
  /\ freeWorks = works
  /\ phase = [r \in Req |-> "free"] /\ info = [r \in Req |-> NoInfo]
  /\ pageQueue = <<>> /\ behind = 0 /\ lost = {} /\ crashed = "no"

\* The loop thread is in the callback of a request.
InCallback == \E r \in Req : phase[r] = "cb"

Crash(why) == crashed' = why /\ UNCHANGED <<freeWorks, phase, info, pageQueue, behind, lost>>

--------------------------------------------------------------------------------
(* open *)

\* Mutant of post: the request keeps the callback of the one before.
postStale(r, i) ==
  /\ phase' = [phase EXCEPT ![r] = "queued"]
  /\ UNCHANGED info

post(r, i) ==
  /\ phase' = [phase EXCEPT ![r] = "queued"]
  /\ info' = [info EXCEPT ![r] = i]

OpenNow(i) ==
  /\ freeWorks # <<>>
  /\ post(Head(freeWorks), i)
  /\ freeWorks' = Tail(freeWorks)
  /\ UNCHANGED <<pageQueue, behind, lost, crashed>>

NewPage(i) == [pool |-> <<i>>, readIndex |-> 0]

Paged(i) ==
  /\ IF pageQueue = <<>> \/ Len(Last(pageQueue).pool) = RequestPageSize
       THEN pageQueue' = Append(pageQueue, NewPage(i))
       ELSE pageQueue' = [pageQueue EXCEPT ![Len(pageQueue)].pool = Append(@, i)]
  /\ behind' = 0
  /\ UNCHANGED <<freeWorks, phase, info, lost, crashed>>

\* No request is free: i goes to the page pageQueue.back(), or to a new one if that is full.
\* The back of an empty queue may still be the page that was popped last.
OpenLater(i) ==
  /\ freeWorks = <<>>
  /\ pageQueue # <<>> \/ behind = RequestPageSize
  /\ Paged(i)

\* The page that was popped was read past its end: there is room in it, and nobody reads it.
OpenPopped(i) ==
  /\ freeWorks = <<>> /\ pageQueue = <<>> /\ behind \in 1 .. RequestPageSize - 1
  /\ behind' = behind + 1 /\ lost' = lost \cup {i.ctx}
  /\ UNCHANGED <<freeWorks, phase, info, pageQueue, crashed>>

\* No page at all, there was none or its memory was given back.  What the code then does
\* is undefined: it ends the program, takes what it reads for a full page, or writes i
\* somewhere.
OpenUndefined(i) ==
  /\ freeWorks = <<>> /\ pageQueue = <<>> /\ behind = 0
  /\ \/ Crash("back")
     \/ Paged(i)
     \/ lost' = lost \cup {i.ctx}
        /\ UNCHANGED <<freeWorks, phase, info, pageQueue, behind, crashed>>

open(i) == OpenNow(i) \/ OpenLater(i) \/ OpenPopped(i) \/ OpenUndefined(i)

--------------------------------------------------------------------------------
(* The work queue *)

Unless(r, from) == phase[r] = from /\ crashed = "no"

\* initial_work on a worker: the entry is looked up, and the file opened if the request
\* has not opened it before.
InitialWork(r) ==
  /\ Unless(r, "queued")
  /\ \/ info[r].entry \in Entry /\ phase' = [phase EXCEPT ![r] = "found"]
     \/ phase' = [phase EXCEPT ![r] = "failed"]
  /\ UNCHANGED <<freeWorks, info, pageQueue, behind, lost, crashed>>

\* initial_after_work on the loop thread.
AfterInitial(r) ==
  /\ Unless(r, "found") /\ ~InCallback
  /\ phase' = [phase EXCEPT ![r] = "reading"]
  /\ UNCHANGED <<freeWorks, info, pageQueue, behind, lost, crashed>>

\* uv_fs_read on a worker, whole or short.
Read(r) ==
  /\ Unless(r, "reading")
  /\ \E outcome \in {"read", "failed"} : phase' = [phase EXCEPT ![r] = outcome]
  /\ UNCHANGED <<freeWorks, info, pageQueue, behind, lost, crashed>>

\* cb_failed, or after_read, calls the client; a null pointer if nobody wrote the info.
CallBack(r) ==
  /\ \E from \in {"failed", "read"} : Unless(r, from)
  /\ ~InCallback /\ info[r] # NoInfo
  /\ phase' = [phase EXCEPT ![r] = "cb"]
  /\ UNCHANGED <<freeWorks, info, pageQueue, behind, lost>>

CallNull(r) == Unless(r, "failed") /\ ~InCallback /\ info[r] = NoInfo /\ Crash("null")

--------------------------------------------------------------------------------
(* onCleanup, when the client returns *)

\* The entry of the first page that is next to read, written or not.
NextInfo ==
  LET page == Head(pageQueue) IN
  IF page.readIndex < Len(page.pool) THEN page.pool[page.readIndex + 1] ELSE NoInfo

\* Mutant of PagesLeft: the page goes with its first entry.
PagesLeftNone == Tail(pageQueue)

PagesLeft ==
  IF Head(pageQueue).readIndex + 1 = RequestPageSize
    THEN Tail(pageQueue)
    ELSE [pageQueue EXCEPT ![1].readIndex = @ + 1]

onCleanup(r) ==
  /\ Unless(r, "cb")
  /\ IF pageQueue = <<>>
       THEN /\ freeWorks' = <<r>> \o freeWorks
            /\ phase' = [phase EXCEPT ![r] = "free"]
            /\ info' = [info EXCEPT ![r] = NoInfo]
            /\ UNCHANGED <<pageQueue, behind>>
       ELSE /\ post(r, NextInfo)
            /\ pageQueue' = PagesLeft
            /\ behind' \in IF PagesLeft = <<>> THEN {Len(Head(pageQueue).pool), 0} ELSE {0}
            /\ UNCHANGED freeWorks
  /\ UNCHANGED <<lost, crashed>>

--------------------------------------------------------------------------------
\* The requests under way for ctx, at work or in a page.
InFlight(ctx) ==
  {r \in Req : phase[r] \notin {"free", "cb"} /\ info[r].ctx = ctx}
    \cup {c \in (DOMAIN pageQueue) \X (1 .. RequestPageSize) :
            LET page == pageQueue[c[1]] IN
            /\ c[2] \in page.readIndex + 1 .. Len(page.pool)
            /\ page.pool[c[2]].ctx = ctx}
================================================================================
