------------------------------- MODULE RunLoop -------------------------------
(***************************************************************************)
(* RunLoop on top of AsyncHandle: uv_run with its modes, the stop flag and *)
(* the poll that may block, thread-pool requests, ForceCloseAllHandle, and *)
(* the destructor that closes what it finds, drives the loop itself, gives *)
(* up after kMaxLoopTimeout and terminates the process if libuv still has  *)
(* something open.                                                         *)
(***************************************************************************)
EXTENDS AsyncHandle, SequencesExt

CONSTANTS OwnLoop,          \* useDefaultLoop was false: the loop is this object's
          kMaxLoopTimeout,  \* how long the destructor tries, in clock ticks
          MaxReqs,          \* bound: requests in flight
          MaxClock          \* bound: the latest time a destructor may begin

ASSUME LoopAssumption == /\ OwnLoop \in BOOLEAN
                         /\ kMaxLoopTimeout \in Nat /\ MaxReqs \in Nat /\ MaxClock \in Nat

VARIABLES
  life,      \* of the RunLoop object: "running", "destructing", "timedOut",
             \* "closed" (destructor done) or "terminated" (std::terminate)
  mode,      \* of the uv_run in progress, "none" outside
  poll,      \* where the iteration is: "before", "blocked" in or "after" the poll
  stopFlag,  \* loop->stop_flag
  reqs,      \* loop->active_reqs: requests that belong to no handle
  clock,     \* the time
  now,       \* loop->time, the time cached by uv_update_time
  start,     \* the destructor's `start`
  began      \* when the destructor really began (history)

ctlVars  == <<life, mode, poll, stopFlag, start, began>>
loopVars == <<ctlVars, reqs, clock, now>>
rlVars   == <<vars, loopVars>>

RLInit == /\ Init
          /\ life = "running" /\ mode = "none" /\ poll = "before"
          /\ stopFlag = FALSE /\ reqs = 0
          /\ clock = 0 /\ now = 0 /\ start = 0 /\ began = 0

\* (A name with an underscore is a faulty variant, as in AsyncHandle.)
\* uv_loop_alive that forgets the closing handles.
Alive_NotClosing == active \cap ref # {} \/ reqs > 0

\* uv_loop_alive
Alive == active \cap ref # {} \/ reqs > 0 \/ closingHandles # <<>>

-----------------------------------------------------------------------------
(* User code: in the application while it has the loop, and in callbacks.  *)
(* Once the RunLoop is gone the remaining wrappers can still be moved and   *)
(* destroyed; Create throws.                                               *)

MayCall == cb # "none" \/ (phase = "user" /\ life = "running")

HandleCall ==
  /\ MayCall \/ life = "closed"
  /\ UserStep
  /\ life = "closed" => mem' \subseteq mem
  /\ UNCHANGED loopVars

\* RunLoop::Stop
StopLoop == /\ MayCall
            /\ stopFlag' = TRUE
            /\ UNCHANGED <<vars, life, mode, poll, reqs, clock, now, start, began>>

\* A request starts: ThreadPool::QueueWork, Dns::Resolve and the like.
QueueReq == /\ MayCall /\ reqs < MaxReqs
            /\ reqs' = reqs + 1
            /\ UNCHANGED <<vars, ctlVars, clock, now>>

\* A walker that does not ask uv_is_closing.
WalkAndClose_Again ==
  /\ \E order \in SetToSeqs(queue) : closingHandles' = order \o closingHandles
  /\ flags' = [h \in Handles |-> IF h \in queue THEN "closing" ELSE flags[h]]
  /\ active' = active \ queue

\* uv_walk with UVClosingHandleWalker: whatever is open is closed, in the order
\* of the loop's queue, which is the order of creation and abstracted here.
\* Its close callback is OnUVClose, because handle->data is set (OrphanIsClosing).
WalkAndClose ==
  LET opened == {h \in queue : flags[h] = "open"} IN
  /\ \E order \in SetToSeqs(opened) : closingHandles' = order \o closingHandles
  /\ flags' = [h \in Handles |-> IF h \in opened THEN "closing" ELSE flags[h]]
  /\ active' = active \ opened

ForceCloseAllHandle ==
  /\ MayCall
  /\ WalkAndClose
  /\ UNCHANGED <<mem, data, ref, queue, runVars, objVars, cbVars, loopVars>>

-----------------------------------------------------------------------------
(* uv_run                                                                  *)

\* uv_run up to its first iteration; a loop with nothing alive, or one that was
\* told to stop, returns at once and forgets the stop flag.  isAlive is
\* uv__loop_alive at that point.
BeginRun(m, isAlive) ==
  IF isAlive /\ ~stopFlag
  THEN /\ phase' = "events" /\ mode' = m /\ poll' = "before" /\ now' = clock
       /\ UNCHANGED stopFlag
  ELSE /\ stopFlag' = FALSE /\ now' = (IF isAlive THEN now ELSE clock)
       /\ UNCHANGED <<phase, mode, poll>>

\* RunLoop::Run and RunLoop::RunOnce
Run(m) ==
  /\ phase = "user" /\ life = "running"
  /\ BeginRun(m, Alive)
  /\ UNCHANGED <<uvVars, batch, finishing, objVars, cbVars, life, reqs, clock, start, began>>

\* uv_backend_timeout is not zero
MayBlock == /\ mode # "nowait" /\ ~stopFlag /\ closingHandles = <<>>
            /\ active \cap ref # {} \/ reqs > 0

EnterPoll ==
  /\ phase = "events" /\ Idle /\ poll = "before"
  /\ poll' = IF MayBlock THEN "blocked" ELSE "after"
  /\ UNCHANGED <<vars, life, mode, stopFlag, reqs, clock, now, start, began>>

\* Something that happens during the poll ends it.
WakePoll == poll' = IF poll = "blocked" THEN "after" ELSE poll

\* A timer comes due while polling.
PollTimeout ==
  /\ poll = "blocked" /\ active # {}
  /\ WakePoll
  /\ UNCHANGED <<vars, life, mode, stopFlag, reqs, clock, now, start, began>>

HandleEvent ==
  /\ EventStep /\ WakePoll
  /\ UNCHANGED <<life, mode, stopFlag, reqs, clock, now, start, began>>

\* The pool's completion is polled, the request's callback runs.
ReqDone ==
  /\ phase = "events" /\ Idle /\ poll # "before" /\ reqs > 0
  /\ reqs' = reqs - 1
  /\ cb' = "notify" /\ UNCHANGED <<cbHandle, cbSelf>>
  /\ WakePoll
  /\ UNCHANGED <<uvVars, runVars, objVars, life, mode, stopFlag, clock, now, start, began>>

ClosePhase ==
  /\ poll = "after" /\ RunClosingHandles
  /\ UNCHANGED loopVars

StartClose     == FinishClose /\ UNCHANGED loopVars
EndClose       == (CloseOrphan \/ CloseOwned) /\ UNCHANGED loopVars
ReturnCallback == CallbackReturns /\ UNCHANGED loopVars

\* A loop that looks at stop_flag only before its first iteration.
NextIteration_NoStop ==
  /\ EndIteration
  /\ phase' = CASE mode = "once"   -> "timers"
                [] mode = "nowait" -> "user"
                [] OTHER           -> IF Alive THEN "events" ELSE "user"
  /\ now' = IF phase' = "user" THEN now ELSE clock
  /\ poll' = "before"
  /\ IF phase' = "user" THEN mode' = "none" /\ stopFlag' = FALSE
     ELSE UNCHANGED <<mode, stopFlag>>
  /\ UNCHANGED <<life, reqs, clock, start, began>>

\* The end of an iteration: UV_RUN_ONCE runs the timers again, UV_RUN_DEFAULT
\* goes round while the loop is alive and not stopped.
NextIteration ==
  /\ EndIteration
  /\ phase' = CASE mode = "once"   -> "timers"
                [] mode = "nowait" -> "user"
                [] OTHER           -> IF Alive /\ ~stopFlag THEN "events" ELSE "user"
  /\ now' = IF phase' = "user" THEN now ELSE clock
  /\ poll' = "before"
  /\ IF phase' = "user" THEN mode' = "none" /\ stopFlag' = FALSE
     ELSE UNCHANGED <<mode, stopFlag>>
  /\ UNCHANGED <<life, reqs, clock, start, began>>

ReturnFromOnce ==
  /\ LeaveRun
  /\ mode' = "none" /\ stopFlag' = FALSE
  /\ UNCHANGED <<life, poll, reqs, clock, now, start, began>>

\* Bounded: MaxClock in all, and in the destructor what its timeout takes.
Tick == /\ clock < IF life = "running" THEN MaxClock ELSE began + kMaxLoopTimeout + 1
        /\ clock' = clock + 1
        /\ UNCHANGED <<vars, ctlVars, reqs, now>>

-----------------------------------------------------------------------------
(* ~RunLoop                                                                *)

\* m_bClosing = true; start = uv_now, which is the cached time.
BeginDestroy ==
  /\ life = "running" /\ phase = "user"
  /\ life' = "destructing" /\ start' = now /\ began' = clock
  /\ UNCHANGED <<vars, mode, poll, stopFlag, reqs, clock, now>>

\* A destructor that goes on for as long as the loop is alive.
DestroyTurn_NoTimeout ==
  /\ life = "destructing" /\ phase = "user" /\ Alive
  /\ WalkAndClose
  /\ BeginRun("once", TRUE)
  /\ UNCHANGED <<mem, data, ref, queue, batch, finishing, objVars, cbVars,
                 life, reqs, clock, start, began>>

\* One turn of the destructor's loop, up to the events of its uv_run(ONCE).
DestroyTurn ==
  /\ life = "destructing" /\ phase = "user" /\ Alive
  /\ now - start <= kMaxLoopTimeout
  /\ WalkAndClose
  /\ BeginRun("once", TRUE)
  /\ UNCHANGED <<mem, data, ref, queue, batch, finishing, objVars, cbVars,
                 life, reqs, clock, start, began>>

\* After a turn, too much time has passed.
GiveUp ==
  /\ life = "destructing" /\ phase = "user"
  /\ now - start > kMaxLoopTimeout
  /\ life' = "timedOut"
  /\ UNCHANGED <<vars, mode, poll, stopFlag, reqs, clock, now, start, began>>

\* A destructor that ignores what uv_loop_close returns.
EndDestroy_Unchecked ==
  /\ phase = "user"
  /\ life = "timedOut" \/ (life = "destructing" /\ ~Alive /\ now - start <= kMaxLoopTimeout)
  /\ life' = "closed"
  /\ UNCHANGED <<vars, mode, poll, stopFlag, reqs, clock, now, start, began>>

\* uv_loop_close refuses a loop with handles or requests; the default loop is
\* left as it is.
EndDestroy ==
  /\ phase = "user"
  /\ life = "timedOut" \/ (life = "destructing" /\ ~Alive /\ now - start <= kMaxLoopTimeout)
  /\ life' = IF OwnLoop /\ (queue # {} \/ reqs > 0) THEN "terminated" ELSE "closed"
  /\ UNCHANGED <<vars, mode, poll, stopFlag, reqs, clock, now, start, began>>

DestroyStep == BeginDestroy \/ DestroyTurn \/ GiveUp \/ EndDestroy

-----------------------------------------------------------------------------
UvStep == \/ EnterPoll \/ PollTimeout \/ HandleEvent \/ ReqDone \/ ClosePhase
          \/ StartClose \/ EndClose \/ ReturnCallback \/ NextIteration \/ ReturnFromOnce

RLNext == \/ HandleCall \/ StopLoop \/ QueueReq \/ ForceCloseAllHandle
          \/ \E m \in {"default", "once", "nowait"} : Run(m)
          \/ UvStep \/ DestroyStep \/ Tick

RLSpec == RLInit /\ [][RLNext]_rlVars

\* uv_run and the destructor keep stepping, callbacks return, the work before
\* and after a poll is finite, and time passes.
LoopFairness ==
  /\ SF_rlVars(EnterPoll) /\ SF_rlVars(ClosePhase)
  /\ WF_rlVars(StartClose) /\ SF_rlVars(EndClose) /\ WF_rlVars(ReturnCallback)
  /\ WF_rlVars(NextIteration) /\ SF_rlVars(ReturnFromOnce)
  /\ WF_rlVars(DestroyTurn) /\ WF_rlVars(GiveUp) /\ WF_rlVars(EndDestroy)
  /\ WF_rlVars(Tick)

\* Nothing is said of requests: the pool may be busy for ever.
BusyPoolSpec == RLSpec /\ LoopFairness

\* Every request completes in the end.
FairPoolSpec == BusyPoolSpec /\ SF_rlVars(ReqDone)

-----------------------------------------------------------------------------
RLTypeOK ==
  /\ TypeOK
  /\ life \in {"running", "destructing", "timedOut", "closed", "terminated"}
  /\ mode \in {"none", "default", "once", "nowait"}
  /\ poll \in {"before", "blocked", "after"}
  /\ stopFlag \in BOOLEAN /\ reqs \in 0..MaxReqs
  /\ clock \in 0..(MaxClock + kMaxLoopTimeout + 1)
  /\ now \in 0..clock /\ start \in 0..now /\ began \in 0..clock
  /\ mode = "none" <=> phase = "user"

\* The destructor terminates the process for one of two reasons only: it gave
\* up, or a handle that does not keep the loop alive was left open.  A handle
\* that is closing is never the reason.
TerminateReason ==
  life = "terminated" =>
    \/ now - start > kMaxLoopTimeout
    \/ \E h \in queue : flags[h] = "open" /\ h \notin active \cap ref

\* A loop that has been freed is not used again, whatever is done with the
\* wrappers that outlive it.
ClosedLoopUntouched ==
  [][OwnLoop /\ life = "closed" =>
       UNCHANGED <<flags, active, ref, queue, closingHandles>>]_rlVars

\* Stop ends the uv_run in progress.
StopEndsRun == (stopFlag /\ phase # "user") ~> phase = "user"

\* The destructor comes to an end, even if every OnClose opens a new handle.
DestructorEnds == life = "destructing" ~> life \in {"closed", "terminated"}

\* "Close all handles": a destructor that was not interrupted by its timeout
\* leaves nothing open.
ClosesAllHandles ==
  life \in {"closed", "terminated"} /\ now - start <= kMaxLoopTimeout => queue = {}
=============================================================================
