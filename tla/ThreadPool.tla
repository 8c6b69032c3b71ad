------------------------------ MODULE ThreadPool ------------------------------
(***************************************************************************)
(* ThreadPool::QueueWork and libuv's thread pool beneath it.  The loop     *)
(* thread submits a request and only then stores the request's own address *)
(* in Request.data; a worker takes it from the pool's queue and reads      *)
(* Request.data; the loop thread collects finished requests, runs          *)
(* OnAfterWork and frees them.                                             *)
(***************************************************************************)
EXTENDS Integers, Sequences, FiniteSets, Functions

CONSTANTS Requests,  \* addresses the pool can give to a UVWorkReq
          Workers,   \* libuv's worker threads
          NULL

ASSUME RequestsAssumption == NULL \notin Requests

VARIABLES
  mem,         \* allocated requests
  data,        \* Request.data: the request's own address, or NULL
  activeReqs,  \* loop->active_reqs
  submitting,  \* the request the loop thread has submitted without storing data
  wq,          \* the pool's queue
  holds,       \* the request a worker has taken, or NULL
  pc,          \* a worker: "wait", "taken", in "work" (OnWork)
  loopWq,      \* loop->wq: finished requests
  wake,        \* loop->wq_async was sent
  batch,       \* the list uv__work_done has moved out of loop->wq
  after,       \* the request whose OnAfterWork runs, or NULL
  crashed      \* a null `self` was dereferenced

loopVars == <<submitting, batch, after>>
poolVars == <<wq, holds, pc>>
vars == <<mem, data, activeReqs, loopVars, poolVars, loopWq, wake, crashed>>

Init ==
  /\ mem = {} /\ data = [r \in Requests |-> NULL] /\ activeReqs = 0
  /\ submitting = NULL /\ wq = <<>>
  /\ holds = [k \in Workers |-> NULL] /\ pc = [k \in Workers |-> "wait"]
  /\ loopWq = <<>> /\ wake = FALSE /\ batch = <<>> /\ after = NULL
  /\ crashed = FALSE

-----------------------------------------------------------------------------
(* The loop thread.                                                        *)

\* User code runs between the loop's callbacks and inside OnAfterWork.
InUserCode == submitting = NULL /\ (batch = <<>> \/ after # NULL)

\* QueueWork up to and including uv_queue_work: MOE_UV_NEW zeroes the request.
QueueWork(r) ==
  /\ ~crashed /\ InUserCode /\ r \notin mem
  /\ mem' = mem \cup {r}
  /\ data' = [data EXCEPT ![r] = NULL]
  /\ activeReqs' = activeReqs + 1
  /\ wq' = Append(wq, r)
  /\ submitting' = r
  /\ UNCHANGED <<holds, pc, loopWq, wake, batch, after, crashed>>

\* MOVE_OWNER_SELF
MoveOwnerSelf ==
  /\ ~crashed /\ submitting # NULL
  /\ data' = [data EXCEPT ![submitting] = submitting]
  /\ submitting' = NULL
  /\ UNCHANGED <<mem, activeReqs, poolVars, loopWq, wake, batch, after, crashed>>

\* uv__work_done takes the whole list.
WorkDone ==
  /\ ~crashed /\ InUserCode /\ after = NULL /\ wake
  /\ wake' = FALSE
  /\ batch' = loopWq /\ loopWq' = <<>>
  /\ UNCHANGED <<mem, data, activeReqs, submitting, poolVars, after, crashed>>

(* A name with an underscore is a faulty variant of the definition after it. *)

\* The request is not unregistered from its loop.
AfterWork_StillActive ==
  /\ ~crashed /\ batch # <<>> /\ after = NULL
  /\ batch' = Tail(batch)
  /\ after' = data[Head(batch)]
  /\ crashed' = (data[Head(batch)] = NULL)
  /\ UNCHANGED <<mem, data, activeReqs, submitting, poolVars, loopWq, wake>>

\* uv__queue_done and AfterWorkCallback, up to OnAfterWork.
AfterWork ==
  /\ ~crashed /\ batch # <<>> /\ after = NULL
  /\ activeReqs' = activeReqs - 1
  /\ batch' = Tail(batch)
  /\ after' = data[Head(batch)]
  /\ crashed' = (data[Head(batch)] = NULL)
  /\ UNCHANGED <<mem, data, submitting, poolVars, loopWq, wake>>

\* OnAfterWork returns or throws; the handler's owner pointer frees the request.
AfterWorkReturns ==
  /\ ~crashed /\ after # NULL /\ submitting = NULL
  /\ mem' = mem \ {after}
  /\ after' = NULL
  /\ UNCHANGED <<data, activeReqs, submitting, poolVars, loopWq, wake, batch, crashed>>

-----------------------------------------------------------------------------
(* Worker k.                                                               *)

\* A worker that leaves what it takes in the queue.
Take_Peeks(k) ==
  /\ ~crashed /\ pc[k] = "wait" /\ wq # <<>>
  /\ holds' = [holds EXCEPT ![k] = Head(wq)]
  /\ pc' = [pc EXCEPT ![k] = "taken"]
  /\ UNCHANGED <<mem, data, activeReqs, loopVars, wq, loopWq, wake, crashed>>

\* worker() takes the head of the queue.
Take(k) ==
  /\ ~crashed /\ pc[k] = "wait" /\ wq # <<>>
  /\ holds' = [holds EXCEPT ![k] = Head(wq)]
  /\ wq' = Tail(wq)
  /\ pc' = [pc EXCEPT ![k] = "taken"]
  /\ UNCHANGED <<mem, data, activeReqs, loopVars, loopWq, wake, crashed>>

\* WorkCallback reads req->data and goes through it without a check.
WorkCallback(k) ==
  /\ ~crashed /\ pc[k] = "taken"
  /\ crashed' = (data[holds[k]] = NULL)
  /\ pc' = [pc EXCEPT ![k] = "work"]
  /\ UNCHANGED <<mem, data, activeReqs, loopVars, wq, holds, loopWq, wake>>

\* A worker that does not wake the loop.
WorkReturns_Silent(k) ==
  /\ ~crashed /\ pc[k] = "work"
  /\ loopWq' = Append(loopWq, holds[k])
  /\ holds' = [holds EXCEPT ![k] = NULL]
  /\ pc' = [pc EXCEPT ![k] = "wait"]
  /\ UNCHANGED <<mem, data, activeReqs, loopVars, wq, wake, crashed>>

\* OnWork returns or throws; worker() hands the request back to its loop.
WorkReturns(k) ==
  /\ ~crashed /\ pc[k] = "work"
  /\ loopWq' = Append(loopWq, holds[k])
  /\ wake' = TRUE
  /\ holds' = [holds EXCEPT ![k] = NULL]
  /\ pc' = [pc EXCEPT ![k] = "wait"]
  /\ UNCHANGED <<mem, data, activeReqs, loopVars, wq, crashed>>

LoopThread == MoveOwnerSelf \/ WorkDone \/ AfterWork \/ AfterWorkReturns
Worker(k) == Take(k) \/ WorkCallback(k) \/ WorkReturns(k)

Next == \/ \E r \in Requests : QueueWork(r)
        \/ LoopThread
        \/ \E k \in Workers : Worker(k)

Spec == Init /\ [][Next]_vars

\* Both callbacks return, the loop keeps running, and every thread of the pool
\* that can take work is scheduled.
FairSpec ==
  /\ Spec
  /\ WF_vars(MoveOwnerSelf) /\ SF_vars(WorkDone) /\ WF_vars(AfterWork)
  /\ SF_vars(AfterWorkReturns)
  /\ SF_vars(\E k \in Workers : Take(k))
  /\ \A k \in Workers : WF_vars(WorkCallback(k)) /\ WF_vars(WorkReturns(k))

-----------------------------------------------------------------------------
TypeOK ==
  /\ mem \subseteq Requests /\ data \in [Requests -> Requests \cup {NULL}]
  /\ activeReqs \in Nat
  /\ submitting \in Requests \cup {NULL} /\ after \in Requests \cup {NULL}
  /\ wq \in Seq(Requests) /\ loopWq \in Seq(Requests) /\ batch \in Seq(Requests)
  /\ holds \in [Workers -> Requests \cup {NULL}]
  /\ pc \in [Workers -> {"wait", "taken", "work"}]
  /\ wake \in BOOLEAN /\ crashed \in BOOLEAN

\* Requests that are on their way through the pool and back.
Travelling == wq \o loopWq \o batch
Held == {holds[k] : k \in Workers} \ {NULL}

\* A request is in one place at a time, from uv_queue_work to OnAfterWork, and
\* its memory lives as long: no worker runs on, and no list links, a freed
\* request, and none is freed or completed twice.
InOnePlace ==
  /\ IsInjective(Travelling)
  /\ \A k, l \in Workers : holds[k] = holds[l] /\ holds[k] # NULL => k = l
  /\ Range(Travelling) \cap Held = {}
  /\ after \notin Range(Travelling) \cup Held
  /\ ~crashed => mem = Range(Travelling) \cup Held \cup ({after} \ {NULL})

\* The loop counts exactly the requests that have not been completed, so that
\* it stays alive for them, and no longer.
ReqsCounted == ~crashed => activeReqs = Cardinality(mem \ {after})

\* Every piece of work is done and its completion delivered.
WorkCompletes ==
  \A r \in Requests : r \in mem ~> r \notin mem \/ crashed

\* "A weak reference is needed here": a worker in WorkCallback finds in
\* req->data a reference to its request.
WeakReference ==
  \A k \in Workers : pc[k] = "work" => data[holds[k]] = holds[k] /\ ~crashed
=============================================================================
