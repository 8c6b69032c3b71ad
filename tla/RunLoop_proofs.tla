---------------------------- MODULE RunLoop_proofs ----------------------------
(***************************************************************************)
(* What AsyncHandle promises of wrappers and handles holds with RunLoop on *)
(* top of it, which closes handles behind their wrappers' backs; and what  *)
(* its destructor leaves behind.                                           *)
(***************************************************************************)
EXTENDS RunLoop, AsyncHandle_proofs, FiniteSetTheorems

\* Between two calls of uv_run no callback is on the stack, and once the destructor
\* has left its loop, uv_run is not called again.
Settled ==
  /\ phase = "user" => cb = "none"
  /\ life \in {"timedOut", "closed", "terminated"} => phase = "user"
  /\ life = "timedOut" => now - start > kMaxLoopTimeout
  /\ life = "running" => clock <= MaxClock
  /\ began <= MaxClock
  /\ IsFiniteSet(queue)
  /\ OwnLoop /\ life = "closed" => queue = {}

RInv == IInv /\ RLTypeOK /\ Settled /\ TerminateReason

-----------------------------------------------------------------------------
(* uv_walk with UVClosingHandleWalker.                                     *)

LEMMA OrderOfASet ==
  ASSUME NEW S, IsFiniteSet(S), NEW s \in SetToSeqs(S)
  PROVE  s \in Seq(S) /\ IsInjective(s) /\ Range(s) = S
<1> DEFINE n == Cardinality(S)
<1>1. n \in Nat
  BY FS_CardinalityType
<1>2. IsFiniteSet(1..n) /\ Cardinality(1..n) = n
  BY <1>1, FS_Interval
<1>3. s \in [1..n -> S] /\ \A i, j \in 1..n : i # j => s[i] # s[j]
  BY DEF SetToSeqs
<1>4. s \in Injection(1..n, S)
  BY <1>3 DEF Injection, IsInjective
<1>5. s \in Surjection(1..n, S)
  BY <1>2, <1>4, FS_Injection
<1>6. s \in Seq(S)
  BY <1>1, <1>3
<1> HIDE DEF n
<1>7. Range(s) = S
  BY <1>3, <1>5 DEF Range, Surjection
<1>8. IsInjective(s)
  BY <1>4 DEF Injection
<1> QED BY <1>6, <1>7, <1>8

\* Every open handle of the loop, and no other, gets to the closing list.
LEMMA WalkPreserves ==
  ASSUME IInv, IsFiniteSet(queue), WalkAndClose,
         UNCHANGED <<mem, data, ref, queue, batch, finishing, objVars, cbVars>>,
         phase' = phase \/ (phase = "user" /\ phase' = "events")
  PROVE  IInv'
<1> USE NullAssumption DEF objVars, cbVars
<1> DEFINE opened == {h \in queue : flags[h] = "open"}
<1>1. IsFiniteSet(opened)
  BY FS_Subset
<1>2. PICK order \in SetToSeqs(opened) : closingHandles' = order \o closingHandles
  BY DEF WalkAndClose
<1>3. /\ flags' = [h \in Handles |-> IF h \in opened THEN "closing" ELSE flags[h]]
      /\ active' = active \ opened
  BY DEF WalkAndClose
<1>4. order \in Seq(opened) /\ IsInjective(order) /\ Range(order) = opened
  BY <1>1, <1>2, OrderOfASet
<1>5. opened \subseteq Handles /\ opened \subseteq mem
  BY DEF IInv, TypeOK, MemorySafe
<1>6. order \in Seq(Handles)
  BY <1>4, <1>5
<1>7. /\ closingHandles \in Seq(Handles) /\ IsInjective(closingHandles)
      /\ Range(closingHandles) \subseteq mem /\ Range(batch) \subseteq mem
      /\ \A h \in Range(closingHandles) \cup Range(batch) : flags[h] = "closing"
  BY DEF IInv, TypeOK, ClosingOnce, MemorySafe
<1>8. Range(order) \cap Range(closingHandles) = {} /\ Range(order) \cap Range(batch) = {}
  BY <1>4, <1>7
<1>9. /\ closingHandles' \in Seq(Handles) /\ IsInjective(closingHandles')
      /\ Range(closingHandles') = opened \cup Range(closingHandles)
  BY <1>2, <1>4, <1>6, <1>7, <1>8, QueueInTwo
<1>10. /\ \A h \in opened : h \in queue /\ flags[h] = "open" /\ flags'[h] = "closing"
       /\ \A h \in Handles \ opened : flags'[h] = flags[h]
       /\ \A h \in queue : flags'[h] # "open"
  BY <1>3, <1>5 DEF IInv, TypeOK
<1> HIDE DEF opened
<1>11. flags' \in [Handles -> {"open", "closing", "closed"}]
  BY <1>3 DEF IInv, TypeOK
<1>12. TypeOK'
  BY <1>3, <1>9, <1>11 DEF IInv, TypeOK
<1>13. MemorySafe'
  BY <1>5, <1>9 DEF IInv, MemorySafe, OnStack
<1>14. OwnersAgree' /\ ClosedMeansReleased'
  BY DEF IInv, OwnersAgree, ClosedMeansReleased
<1>15. OrphanIsClosing'
  BY <1>10 DEF OrphanIsClosing
<1>16. ClosingOnce'
  <2>1. Range(closingHandles') \cap Range(batch') = {}
    BY <1>4, <1>8, <1>9 DEF IInv, ClosingOnce
  <2>2. ASSUME NEW h \in mem
        PROVE  flags'[h] = "closing" <=> h \in Range(closingHandles') \cup Range(batch)
    <3>1. h \in Handles
      BY <2>2 DEF IInv, TypeOK
    <3>2. flags[h] = "closing" <=> h \in Range(closingHandles) \cup Range(batch)
      BY <2>2 DEF IInv, ClosingOnce
    <3> QED BY <3>1, <3>2, <1>9, <1>10
  <2> QED BY <2>1, <2>2, <1>9 DEF IInv, ClosingOnce
<1>17. QueueExact'
  <2>1. ASSUME NEW h \in mem PROVE h \in queue <=> flags'[h] # "closed" \/ h = finishing
    <3>1. h \in Handles /\ (h \in queue <=> flags[h] # "closed" \/ h = finishing)
      BY <2>1 DEF IInv, TypeOK, QueueExact
    <3> QED BY <3>1, <1>10
  <2>2. active' = {}
    BY <1>3 DEF IInv, QueueExact, opened
  <2> QED BY <2>1, <2>2 DEF IInv, QueueExact
<1>18. PhaseExact'
  <2>1. finishing # NULL => finishing \in Handles /\ finishing \notin opened
    BY DEF IInv, PhaseExact, TypeOK, opened
  <2> QED BY <2>1, <1>10 DEF IInv, PhaseExact
<1> QED BY <1>12, <1>13, <1>14, <1>15, <1>16, <1>17, <1>18 DEF IInv

-----------------------------------------------------------------------------
(* The handles.                                                            *)

\* On the level of handles most of RunLoop's steps are AsyncHandle's or none.
LEMMA HandleSteps ==
  ASSUME RInv, RLNext
  PROVE  \/ [Next]_vars
         \/ /\ ForceCloseAllHandle \/ DestroyTurn
            /\ WalkAndClose /\ UNCHANGED <<mem, data, ref, queue, batch, finishing, objVars, cbVars>>
            /\ phase' = phase \/ (phase = "user" /\ phase' = "events")
         \/ ReqDone
<1>1. CASE HandleCall
  BY <1>1 DEF HandleCall, Next
<1>2. CASE StopLoop \/ QueueReq \/ Tick \/ EnterPoll \/ PollTimeout \/ BeginDestroy \/ GiveUp \/ EndDestroy
  BY <1>2 DEF StopLoop, QueueReq, Tick, EnterPoll, PollTimeout, BeginDestroy, GiveUp, EndDestroy
<1>3. CASE ForceCloseAllHandle
  BY <1>3 DEF ForceCloseAllHandle, runVars
<1>4. CASE \E m \in {"default", "once", "nowait"} : Run(m)
  <2>1. PICK m \in {"default", "once", "nowait"} : Run(m)
    BY <1>4
  <2>2. /\ phase = "user" /\ (phase' = "events" \/ phase' = phase)
        /\ UNCHANGED <<uvVars, batch, finishing, objVars, cbVars>>
    BY <2>1 DEF Run, BeginRun
  <2>3. EnterRun \/ UNCHANGED vars
    BY <2>2 DEF EnterRun, vars, runVars
  <2> QED BY <2>3 DEF Next, LoopStep
<1>5. CASE DestroyTurn
  BY <1>5 DEF DestroyTurn, BeginRun
<1>6. CASE HandleEvent
  BY <1>6 DEF HandleEvent, Next
<1>7. CASE ClosePhase \/ StartClose \/ EndClose \/ ReturnCallback \/ NextIteration \/ ReturnFromOnce
  BY <1>7 DEF ClosePhase, StartClose, EndClose, ReturnCallback, NextIteration, ReturnFromOnce,
              Next, LoopStep
<1> QED BY <1>1, <1>2, <1>3, <1>4, <1>5, <1>6, <1>7 DEF RLNext, UvStep, DestroyStep

LEMMA HandlesKept ==
  ASSUME RInv, RLNext
  PROVE  IInv'
<1>1. CASE [Next]_vars
  BY <1>1, StepInvariant DEF RInv
<1>2. CASE /\ WalkAndClose /\ UNCHANGED <<mem, data, ref, queue, batch, finishing, objVars, cbVars>>
           /\ phase' = phase \/ (phase = "user" /\ phase' = "events")
  BY <1>2, WalkPreserves DEF RInv, Settled
<1>3. CASE ReqDone
  <2>1. /\ cb = "none" /\ finishing = NULL /\ cb' = "notify" /\ UNCHANGED <<cbHandle, cbSelf>>
        /\ UNCHANGED <<mem, data, flags, active, ref, queue, closingHandles, batch, finishing, phase>>
        /\ UNCHANGED <<alive, mHandle, mClosed>>
    BY <1>3 DEF ReqDone, Idle, uvVars, runVars, objVars
  <2>2. TypeOK' /\ MemorySafe' /\ OwnersAgree' /\ OrphanIsClosing'
    BY <2>1 DEF RInv, IInv, TypeOK, MemorySafe, OnStack, OwnersAgree, OrphanIsClosing, UserCallbacks,
       ErrorCallbacks
  <2>3. ClosingOnce' /\ ClosedMeansReleased' /\ QueueExact' /\ PhaseExact'
    BY <2>1 DEF RInv, IInv, ClosingOnce, ClosedMeansReleased, QueueExact, PhaseExact, ErrorCallbacks
  <2> QED BY <2>2, <2>3 DEF IInv
<1> QED BY <1>1, <1>2, <1>3, HandleSteps

\* The loop's queue changes by one handle at a time, and grows only by Create.
LEMMA QueueChanges ==
  ASSUME RInv, RLNext
  PROVE  /\ IsFiniteSet(queue')
         /\ mem' \subseteq mem => queue' \subseteq queue
<1>1. IsFiniteSet(queue) /\ \A h : IsFiniteSet(queue \cup {h}) /\ IsFiniteSet(queue \ {h})
  BY FS_AddElement, FS_RemoveElement DEF RInv, Settled
<1>2. CASE [Next]_vars
  <2>1. CASE UserStep
    <3>1. CASE \E w \in Wrappers, h \in Handles, b \in BOOLEAN : Create(w, h, b)
      <4>1. PICK h \in Handles : queue' = queue \cup {h} /\ mem' = mem \cup {h} /\ h \notin mem
        BY <3>1 DEF Create
      <4> QED BY <4>1, <1>1
    <3>2. CASE \E w \in Wrappers : \/ Start(w) \/ Stop(w) \/ Ref(w) \/ Unref(w)
                                   \/ Close(w) \/ DestroyOpen(w) \/ DestroyClosed(w)
      <4>1. queue' = queue
        BY <3>2 DEF Start, Stop, Ref, Unref, Close, DestroyOpen, DestroyClosed
      <4> QED BY <4>1, <1>1
    <3>3. CASE \E w, org \in Wrappers : MoveConstruct(w, org) \/ MoveAssign(w, org)
      <4>1. queue' = queue
        BY <3>3 DEF MoveConstruct, MoveAssign
      <4> QED BY <4>1, <1>1
    <3> QED BY <2>1, <3>1, <3>2, <3>3 DEF UserStep
  <2>2. CASE LoopStep \/ EventStep \/ UNCHANGED vars
    <3>1. queue' = queue \/ queue' = queue \ {finishing}
      BY <2>2 DEF LoopStep, EventStep, EnterRun, RunClosingHandles, FinishClose, CloseOrphan,
                  CloseOwned, CallbackReturns, EndIteration, LeaveRun, Event, CancelRequest, vars, uvVars
    <3> QED BY <3>1, <1>1
  <2> QED BY <1>2, <2>1, <2>2 DEF Next
<1>3. CASE UNCHANGED queue
  BY <1>1, <1>3
<1> QED BY <1>2, <1>3, HandleSteps DEF ReqDone, uvVars

-----------------------------------------------------------------------------
(* After the destructor.                                                   *)

LEMMA UserStepFrame ==
  ASSUME UserStep
  PROVE  UNCHANGED <<batch, finishing, phase, cb, cbHandle, cbSelf>>
<1>1. CASE \E w \in Wrappers, h \in Handles, b \in BOOLEAN : Create(w, h, b)
  BY <1>1 DEF Create, runVars, cbVars
<1>2. CASE \E w \in Wrappers : \/ Start(w) \/ Stop(w) \/ Ref(w) \/ Unref(w)
                               \/ Close(w) \/ DestroyOpen(w) \/ DestroyClosed(w)
  BY <1>2 DEF Start, Stop, Ref, Unref, Close, DestroyOpen, DestroyClosed, runVars, cbVars
<1>3. CASE \E w, org \in Wrappers : MoveConstruct(w, org) \/ MoveAssign(w, org)
  BY <1>3 DEF MoveConstruct, MoveAssign, runVars, cbVars
<1> QED BY <1>1, <1>2, <1>3 DEF UserStep

\* Once the destructor has left its loop nothing but its own end, and what becomes
\* of wrappers that are left, changes anything.
LEMMA AfterTheLoop ==
  ASSUME RInv, RLNext, life \in {"timedOut", "closed", "terminated"}
  PROVE  /\ UNCHANGED <<now, start, began, phase, cb, reqs>>
         /\ life' = life \/ (life = "timedOut" /\ EndDestroy)
         /\ UNCHANGED vars \/ (life = "closed" /\ UserStep /\ mem' \subseteq mem)
<1>1. phase = "user" /\ cb = "none" /\ finishing = NULL
  BY DEF RInv, Settled, IInv, PhaseExact
<1>2. CASE HandleCall
  BY <1>1, <1>2, UserStepFrame DEF HandleCall, MayCall, loopVars, ctlVars
<1>3. CASE Tick \/ PollTimeout
  BY <1>3 DEF Tick, PollTimeout, vars, cbVars, runVars, ctlVars
<1>4. CASE EndDestroy
  BY <1>4 DEF EndDestroy, vars, cbVars, runVars
<1>5. ~StopLoop /\ ~QueueReq /\ ~ForceCloseAllHandle
  BY <1>1 DEF StopLoop, QueueReq, ForceCloseAllHandle, MayCall
<1>6. ~(\E m \in {"default", "once", "nowait"} : Run(m)) /\ ~BeginDestroy /\ ~DestroyTurn /\ ~GiveUp
  BY DEF Run, BeginDestroy, DestroyTurn, GiveUp
<1>7. ~EnterPoll /\ ~HandleEvent /\ ~ReqDone /\ ~ClosePhase /\ ~StartClose /\ ~EndClose
      /\ ~ReturnCallback /\ ~NextIteration /\ ~ReturnFromOnce
  BY <1>1 DEF EnterPoll, HandleEvent, EventStep, Event, CancelRequest, ReqDone, ClosePhase,
     RunClosingHandles, StartClose, FinishClose, EndClose, CloseOrphan, CloseOwned, ReturnCallback,
     CallbackReturns, NextIteration, EndIteration, ReturnFromOnce, LeaveRun
<1> QED BY <1>2, <1>3, <1>4, <1>5, <1>6, <1>7 DEF RLNext, UvStep, DestroyStep

\* With a loop that knows no handle, moves and destructors leave it alone.
LEMMA WrappersOutliveLoop ==
  ASSUME IInv, UserStep, mem' \subseteq mem, queue = {}
  PROVE  UNCHANGED <<flags, active, ref, queue, closingHandles>>
<1> USE NullAssumption
<1>1. ASSUME NEW w \in alive
      PROVE  IsClosing(w) /\ mClosed[w]
  <2>1. mHandle[w] = NULL \/ mHandle[w] \in mem
    BY <1>1 DEF IInv, OwnersAgree
  <2>2. mHandle[w] \in mem => flags[mHandle[w]] = "closed"
    BY DEF IInv, QueueExact
  <2>3. mClosed[w]
    BY <1>1 DEF IInv, ClosedMeansReleased
  <2> QED BY <2>1, <2>2, <2>3 DEF IsClosing
<1>2. ~\E w \in Wrappers, h \in Handles, b \in BOOLEAN : Create(w, h, b)
  BY DEF Create
<1>3. ASSUME NEW w \in Wrappers,
             \/ Start(w) \/ Stop(w) \/ Ref(w) \/ Unref(w) \/ Close(w) \/ DestroyOpen(w)
      PROVE  FALSE
  BY <1>1, <1>3 DEF Start, Stop, Ref, Unref, Close, DestroyOpen
<1>4. ASSUME NEW w \in Wrappers, DestroyClosed(w)
      PROVE  UNCHANGED <<flags, active, ref, queue, closingHandles>>
  BY <1>4 DEF DestroyClosed
<1>5. ASSUME NEW w \in Wrappers, NEW org \in Wrappers, MoveConstruct(w, org) \/ MoveAssign(w, org)
      PROVE  UNCHANGED <<flags, active, ref, queue, closingHandles>>
  BY <1>1, <1>5 DEF MoveConstruct, MoveAssign, DoClose
<1> QED BY <1>2, <1>3, <1>4, <1>5 DEF UserStep

\* What keeps uv_loop_close from closing a loop that is not alive is an open
\* handle that does not keep it alive.
LEMMA DeadLoop ==
  ASSUME RInv, ~Alive, phase = "user", queue # {} \/ reqs > 0
  PROVE  \E h \in queue : flags[h] = "open" /\ h \notin active \cap ref
<1>1. active \cap ref = {} /\ ~(reqs > 0) /\ closingHandles = <<>>
  BY DEF Alive
<1>2. batch = <<>> /\ finishing = NULL
  BY DEF RInv, IInv, PhaseExact
<1>3. PICK h \in queue : TRUE
  BY <1>1
<1>4. h \in mem /\ h \in Handles
  BY DEF RInv, IInv, MemorySafe, TypeOK
<1>5. flags[h] # "closing"
  BY <1>1, <1>2, <1>4, EmptyQueue DEF RInv, IInv, ClosingOnce
<1>6. h # finishing
  BY <1>2, <1>4, NullAssumption
<1>7. flags[h] # "closed"
  BY <1>3, <1>4, <1>6 DEF RInv, IInv, QueueExact
<1>8. flags[h] = "open"
  BY <1>4, <1>5, <1>7 DEF RInv, IInv, TypeOK
<1> QED BY <1>1, <1>8

-----------------------------------------------------------------------------
(* The variables of the loop and of its destructor.                        *)

\* Steps of wrappers and of the closing phase.
LEMMA QuietSteps ==
  ASSUME RInv, HandleCall \/ ClosePhase \/ StartClose \/ EndClose \/ ReturnCallback
  PROVE  /\ UNCHANGED loopVars
         /\ phase' = "user" <=> phase = "user"
         /\ phase' = "user" => cb' = "none"
<1>1. phase = "user" => cb = "none" /\ finishing = NULL
  BY DEF RInv, Settled, IInv, PhaseExact
<1>2. CASE HandleCall
  BY <1>1, <1>2, UserStepFrame DEF HandleCall
<1>3. CASE ClosePhase
  BY <1>3 DEF ClosePhase, RunClosingHandles
<1>4. CASE StartClose
  BY <1>1, <1>4 DEF StartClose, FinishClose, cbVars
<1>5. CASE EndClose
  BY <1>1, <1>5 DEF EndClose, CloseOrphan, CloseOwned
<1>6. CASE ReturnCallback
  BY <1>1, <1>6 DEF ReturnCallback, CallbackReturns, runVars
<1> QED BY <1>2, <1>3, <1>4, <1>5, <1>6

\* Steps during which uv_run stays where it is, but for the poll.
LEMMA EventSteps ==
  ASSUME RInv, StopLoop \/ QueueReq \/ ForceCloseAllHandle \/ EnterPoll \/ PollTimeout
               \/ HandleEvent \/ ReqDone
  PROVE  /\ UNCHANGED <<life, mode, clock, now, start, began, phase>>
         /\ phase = "user" => cb' = "none"
         /\ poll' \in {"before", "blocked", "after"} /\ stopFlag' \in {stopFlag, TRUE}
         /\ reqs' \in 0..MaxReqs
<1> USE LoopAssumption
<1>1. /\ phase = "user" => cb = "none" /\ finishing = NULL
      /\ reqs \in 0..MaxReqs /\ poll \in {"before", "blocked", "after"}
  BY DEF RInv, Settled, IInv, PhaseExact, RLTypeOK
<1>2. CASE StopLoop
  BY <1>1, <1>2 DEF StopLoop, vars, runVars, cbVars
<1>3. CASE QueueReq
  BY <1>1, <1>3 DEF QueueReq, vars, runVars, cbVars, ctlVars
<1>4. CASE ForceCloseAllHandle
  BY <1>1, <1>4 DEF ForceCloseAllHandle, runVars, cbVars, loopVars, ctlVars
<1>5. CASE EnterPoll
  BY <1>1, <1>5 DEF EnterPoll, vars, runVars, cbVars
<1>6. CASE PollTimeout
  BY <1>1, <1>6 DEF PollTimeout, WakePoll, vars, runVars, cbVars
<1>7. CASE HandleEvent
  <2>1. phase # "user" /\ phase' = phase
    BY <1>1, <1>7, NullAssumption DEF HandleEvent, EventStep, Event, CancelRequest, runVars
  <2> QED BY <2>1, <1>1, <1>7 DEF HandleEvent, WakePoll
<1>8. CASE ReqDone
  BY <1>1, <1>8 DEF ReqDone, WakePoll, runVars
<1> QED BY <1>2, <1>3, <1>4, <1>5, <1>6, <1>7, <1>8

\* uv_run starts, goes round and returns.
LEMMA RunSteps ==
  ASSUME RInv,
         \/ \E m \in {"default", "once", "nowait"} : Run(m)
         \/ DestroyTurn \/ NextIteration \/ ReturnFromOnce
  PROVE  /\ UNCHANGED <<life, reqs, clock, start, began>>
         /\ life \in {"timedOut", "closed", "terminated"} => phase # "user"
         /\ mode' \in {"none", "default", "once", "nowait"}
         /\ mode' = "none" <=> phase' = "user"
         /\ poll' \in {"before", "blocked", "after"} /\ stopFlag' \in {stopFlag, FALSE}
         /\ now' \in {now, clock}
         /\ cb' = "none"
<1>1. /\ phase = "user" => cb = "none"
      /\ mode \in {"none", "default", "once", "nowait"} /\ (mode = "none" <=> phase = "user")
      /\ poll \in {"before", "blocked", "after"}
      /\ phase \in {"user", "events", "closing", "timers"}
  BY DEF RInv, Settled, RLTypeOK, TypeOK
<1>2. ASSUME NEW m \in {"default", "once", "nowait"}, NEW isAlive \in BOOLEAN,
             phase = "user", BeginRun(m, isAlive)
      PROVE  /\ mode' \in {"none", "default", "once", "nowait"}
             /\ mode' = "none" <=> phase' = "user"
             /\ poll' \in {"before", "blocked", "after"} /\ stopFlag' \in {stopFlag, FALSE}
             /\ now' \in {now, clock}
  BY <1>1, <1>2 DEF BeginRun
<1>3. CASE \E m \in {"default", "once", "nowait"} : Run(m)
  <2>1. PICK m \in {"default", "once", "nowait"} : Run(m)
    BY <1>3
  <2>2. Alive \in BOOLEAN
    BY DEF Alive
  <2>3. /\ phase = "user" /\ life = "running" /\ BeginRun(m, Alive)
        /\ UNCHANGED <<cb, life, reqs, clock, start, began>>
    BY <2>1 DEF Run, cbVars
  <2> QED BY <2>2, <2>3, <1>1, <1>2
<1>4. CASE DestroyTurn
  <2>1. /\ phase = "user" /\ life = "destructing" /\ BeginRun("once", TRUE)
        /\ UNCHANGED <<cb, life, reqs, clock, start, began>>
    BY <1>4 DEF DestroyTurn, cbVars
  <2> QED BY <2>1, <1>1, <1>2
<1>5. CASE NextIteration
  <2>1. /\ phase = "closing" /\ cb = "none" /\ cb' = cb
        /\ phase' \in {"events", "timers", "user"}
    BY <1>5 DEF NextIteration, EndIteration, Idle, cbVars
  <2> QED BY <2>1, <1>1, <1>5 DEF NextIteration
<1>6. CASE ReturnFromOnce
  BY <1>1, <1>6 DEF ReturnFromOnce, LeaveRun, Idle, cbVars
<1> QED BY <1>3, <1>4, <1>5, <1>6

\* Time, and the destructor's decisions.
LEMMA DestructorSteps ==
  ASSUME RInv, Tick \/ BeginDestroy \/ GiveUp \/ EndDestroy
  PROVE  /\ UNCHANGED <<vars, mode, poll, stopFlag, reqs, now>>
         /\ \/ Tick /\ clock' = clock + 1 /\ UNCHANGED <<life, start, began>>
            \/ life = "running" /\ life' = "destructing" /\ start' = now /\ began' = clock
               /\ UNCHANGED clock
            \/ life = "destructing" /\ life' = "timedOut" /\ phase = "user"
               /\ now - start > kMaxLoopTimeout /\ UNCHANGED <<start, began, clock>>
            \/ EndDestroy /\ life \in {"timedOut", "destructing"}
               /\ life' \in {"closed", "terminated"} /\ phase = "user"
               /\ UNCHANGED <<start, began, clock>>
<1>1. CASE Tick
  BY <1>1 DEF Tick, ctlVars
<1>2. CASE BeginDestroy
  BY <1>2 DEF BeginDestroy
<1>3. CASE GiveUp
  BY <1>3 DEF GiveUp
<1>4. CASE EndDestroy
  BY <1>4 DEF EndDestroy
<1> QED BY <1>1, <1>2, <1>3, <1>4

\* RLNext, by the groups of steps above.
LEMMA StepGroups ==
  ASSUME RLNext
  PROVE  \/ HandleCall \/ ClosePhase \/ StartClose \/ EndClose \/ ReturnCallback
         \/ StopLoop \/ QueueReq \/ ForceCloseAllHandle \/ EnterPoll \/ PollTimeout
              \/ HandleEvent \/ ReqDone
         \/ (\E m \in {"default", "once", "nowait"} : Run(m)) \/ DestroyTurn \/ NextIteration
              \/ ReturnFromOnce
         \/ Tick \/ BeginDestroy \/ GiveUp \/ EndDestroy
BY DEF RLNext, UvStep, DestroyStep

LEMMA TypesKept ==
  ASSUME RInv, RLNext
  PROVE  RLTypeOK'
<1> USE LoopAssumption
<1>1. TypeOK'
  BY HandlesKept DEF IInv
<1>2. /\ life \in {"running", "destructing", "timedOut", "closed", "terminated"}
      /\ mode \in {"none", "default", "once", "nowait"}
      /\ poll \in {"before", "blocked", "after"}
      /\ stopFlag \in BOOLEAN /\ reqs \in 0..MaxReqs
      /\ clock \in 0..(MaxClock + kMaxLoopTimeout + 1)
      /\ now \in 0..clock /\ start \in 0..now /\ began \in 0..clock
      /\ mode = "none" <=> phase = "user"
      /\ began <= MaxClock /\ (life = "running" => clock <= MaxClock)
  BY DEF RInv, RLTypeOK, Settled
<1>3. CASE HandleCall \/ ClosePhase \/ StartClose \/ EndClose \/ ReturnCallback
  BY <1>1, <1>2, <1>3, QuietSteps DEF RLTypeOK, loopVars, ctlVars
<1>4. CASE StopLoop \/ QueueReq \/ ForceCloseAllHandle \/ EnterPoll \/ PollTimeout
           \/ HandleEvent \/ ReqDone
  BY <1>1, <1>2, <1>4, EventSteps DEF RLTypeOK
<1>5. CASE (\E m \in {"default", "once", "nowait"} : Run(m)) \/ DestroyTurn \/ NextIteration
           \/ ReturnFromOnce
  <2>1. /\ UNCHANGED <<life, reqs, clock, start, began>>
        /\ mode' \in {"none", "default", "once", "nowait"}
        /\ mode' = "none" <=> phase' = "user"
        /\ poll' \in {"before", "blocked", "after"} /\ stopFlag' \in {stopFlag, FALSE}
        /\ now' \in {now, clock}
    BY <1>5, RunSteps
  <2>2. now' \in 0..clock /\ start \in 0..now'
    BY <2>1, <1>2
  <2> QED BY <2>1, <2>2, <1>1, <1>2 DEF RLTypeOK
<1>6. CASE Tick \/ BeginDestroy \/ GiveUp \/ EndDestroy
  <2>1. UNCHANGED <<phase, mode, poll, stopFlag, reqs, now>>
    BY <1>6, DestructorSteps DEF vars, runVars
  <2>2. CASE Tick
    <3>1. clock' = clock + 1 /\ UNCHANGED <<life, start, began>>
      BY <2>2 DEF Tick, ctlVars
    <3>2. clock' \in 0..(MaxClock + kMaxLoopTimeout + 1)
      BY <2>2, <3>1, <1>2 DEF Tick
    <3>3. now \in 0..clock' /\ began \in 0..clock'
      BY <3>1, <1>2
    <3> QED BY <3>1, <3>2, <3>3, <2>1, <1>1, <1>2 DEF RLTypeOK
  <2>3. CASE ~Tick
    <3>1. /\ clock' = clock /\ start' \in {start, now} /\ began' \in {began, clock}
          /\ life' \in {"destructing", "timedOut", "closed", "terminated"}
      BY <1>6, <2>3, DestructorSteps
    <3>2. start' \in 0..now /\ began' \in 0..clock
      BY <3>1, <1>2
    <3> QED BY <3>1, <3>2, <2>1, <1>1, <1>2 DEF RLTypeOK
  <2> QED BY <2>2, <2>3
<1> QED BY <1>3, <1>4, <1>5, <1>6, StepGroups

LEMMA SettledKept ==
  ASSUME RInv, RLNext
  PROVE  Settled'
<1> USE LoopAssumption
<1>1. /\ clock \in Nat /\ began \in Nat /\ reqs \in Nat /\ Settled
  BY DEF RInv, RLTypeOK
<1>2. IsFiniteSet(queue')
  BY QueueChanges
<1>3. /\ phase' = "user" => cb' = "none"
      /\ life' \in {"timedOut", "closed", "terminated"} => phase' = "user"
      /\ life' = "running" => clock' <= MaxClock
      /\ began' <= MaxClock
  <2>1. CASE HandleCall \/ ClosePhase \/ StartClose \/ EndClose \/ ReturnCallback
    BY <2>1, <1>1, QuietSteps DEF Settled, loopVars, ctlVars
  <2>2. CASE StopLoop \/ QueueReq \/ ForceCloseAllHandle \/ EnterPoll \/ PollTimeout
             \/ HandleEvent \/ ReqDone
    BY <2>2, <1>1, EventSteps DEF Settled
  <2>3. CASE (\E m \in {"default", "once", "nowait"} : Run(m)) \/ DestroyTurn \/ NextIteration
             \/ ReturnFromOnce
    BY <2>3, <1>1, RunSteps DEF Settled
  <2>4. CASE Tick
    BY <2>4, <1>1 DEF Tick, Settled, vars, runVars, cbVars, ctlVars
  <2>5. CASE BeginDestroy \/ GiveUp \/ EndDestroy
    <3>1. UNCHANGED <<phase, cb, clock>>
      BY <2>5 DEF BeginDestroy, GiveUp, EndDestroy, vars, runVars, cbVars
    <3>2. /\ life' # "running"
          /\ life' \in {"timedOut", "closed", "terminated"} => phase = "user"
          /\ began' = began \/ (began' = clock /\ life = "running")
      BY <2>5 DEF BeginDestroy, GiveUp, EndDestroy
    <3> QED BY <3>1, <3>2, <1>1 DEF Settled
  <2> QED BY <2>1, <2>2, <2>3, <2>4, <2>5, StepGroups
<1>4. life' = "timedOut" => now' - start' > kMaxLoopTimeout
  <2>1. CASE life = "timedOut"
    BY <2>1, <1>1, AfterTheLoop DEF Settled
  <2>2. CASE life # "timedOut" /\ life' = "timedOut"
    <3>1. GiveUp
      BY <2>2, StepGroups, QuietSteps, EventSteps, RunSteps
      DEF Tick, BeginDestroy, EndDestroy, loopVars, ctlVars
    <3> QED BY <3>1 DEF GiveUp
  <2> QED BY <2>1, <2>2
<1>5. OwnLoop /\ life' = "closed" => queue' = {}
  <2>1. CASE life = "closed"
    <3>1. OwnLoop => queue = {}
      BY <2>1, <1>1 DEF Settled
    <3>2. mem' \subseteq mem
      BY <2>1, AfterTheLoop DEF vars, uvVars
    <3> QED BY <3>1, <3>2, QueueChanges
  <2>2. CASE life # "closed" /\ life' = "closed"
    <3>1. EndDestroy
      BY <2>2, StepGroups, QuietSteps, EventSteps, RunSteps
      DEF Tick, BeginDestroy, GiveUp, loopVars, ctlVars
    <3>2. OwnLoop => queue = {}
      BY <3>1, <2>2 DEF EndDestroy
    <3> QED BY <3>1, <3>2 DEF EndDestroy, vars, uvVars
  <2> QED BY <2>1, <2>2
<1> QED BY <1>2, <1>3, <1>4, <1>5 DEF Settled

LEMMA ReasonKept ==
  ASSUME RInv, RLNext
  PROVE  TerminateReason'
<1>1. CASE life = "terminated"
  <2>1. UNCHANGED <<now, start, vars>>
    BY <1>1, AfterTheLoop
  <2> QED BY <2>1, <1>1 DEF RInv, TerminateReason, vars, uvVars
<1>2. CASE life # "terminated" /\ life' = "terminated"
  <2>1. EndDestroy
    BY <1>2, StepGroups, QuietSteps, EventSteps, RunSteps
    DEF Tick, BeginDestroy, GiveUp, loopVars, ctlVars
  <2>2. /\ UNCHANGED <<now, start, vars>> /\ phase = "user" /\ (queue # {} \/ reqs > 0)
        /\ life = "timedOut" \/ ~Alive
    BY <2>1, <1>2 DEF EndDestroy
  <2>3. CASE life = "timedOut"
    BY <2>2, <2>3 DEF RInv, Settled, TerminateReason
  <2>4. CASE ~Alive
    <3>1. \E h \in queue : flags[h] = "open" /\ h \notin active \cap ref
      BY <2>2, <2>4, DeadLoop
    <3> QED BY <3>1, <2>2 DEF TerminateReason, vars, uvVars
  <2> QED BY <2>2, <2>3, <2>4
<1>3. CASE life' # "terminated"
  BY <1>3 DEF TerminateReason
<1> QED BY <1>1, <1>2, <1>3

-----------------------------------------------------------------------------
LEMMA LoopStarts == RLInit => RInv
<1> SUFFICES ASSUME RLInit PROVE RInv
  OBVIOUS
<1> USE LoopAssumption
<1>1. IInv
  BY InitInvariant DEF RLInit
<1>2. RLTypeOK
  <2>1. stopFlag \in BOOLEAN
    BY DEF RLInit
  <2>2. /\ life = "running" /\ mode = "none" /\ poll = "before" /\ phase = "user"
        /\ reqs = 0 /\ clock = 0 /\ now = 0 /\ start = 0 /\ began = 0
    BY DEF RLInit, Init
  <2> QED BY <1>1, <2>1, <2>2 DEF IInv, RLTypeOK
<1>3. Settled /\ TerminateReason
  BY FS_EmptySet DEF RLInit, Init, Settled, TerminateReason
<1> QED BY <1>1, <1>2, <1>3 DEF RInv

LEMMA LoopSteps == RInv /\ [RLNext]_rlVars => RInv'
<1>1. ASSUME RInv, RLNext PROVE RInv'
  BY <1>1, HandlesKept, TypesKept, SettledKept, ReasonKept DEF RInv
<1>2. ASSUME RInv, UNCHANGED rlVars PROVE RInv'
  <2>1. UNCHANGED vars /\ UNCHANGED <<loopVars, queue, phase, cb, flags, active, ref>>
    BY <1>2 DEF rlVars, vars, uvVars, runVars, cbVars
  <2>2. IInv'
    BY <2>1, <1>2, StepInvariant DEF RInv
  <2>3. RLTypeOK'
    BY <2>1, <2>2, <1>2 DEF RInv, IInv, RLTypeOK, loopVars, ctlVars
  <2>4. Settled' /\ TerminateReason'
    BY <2>1, <1>2 DEF RInv, Settled, TerminateReason, loopVars, ctlVars
  <2> QED BY <2>2, <2>3, <2>4 DEF RInv
<1> QED BY <1>1, <1>2

\* The inductive invariant: the one of AsyncHandle, and how far the destructor is.
THEOREM LoopInvariant == RLSpec => []RInv
BY LoopStarts, LoopSteps, PTL DEF RLSpec

\* The variables keep their types: loop->time never gets ahead of the clock, and the
\* destructor's start not of loop->time, whose difference is unsigned.
THEOREM LoopTyped == RLSpec => []RLTypeOK
<1>1. RInv => RLTypeOK
  BY DEF RInv
<1> QED BY <1>1, LoopInvariant, PTL

\* ForceCloseAllHandle and ~RunLoop close handles that wrappers own, and still
\* uv_close is called once per handle.
THEOREM LoopClosesOnce == RLSpec => []ClosingOnce
<1>1. RInv => ClosingOnce
  BY DEF RInv, IInv
<1> QED BY <1>1, LoopInvariant, PTL

\* And nothing is freed that the loop or a handler still refers to.
THEOREM LoopMemorySafe == RLSpec => [](MemorySafe /\ OwnersAgree /\ OrphanIsClosing)
<1>1. RInv => MemorySafe /\ OwnersAgree /\ OrphanIsClosing
  BY DEF RInv, IInv
<1> QED BY <1>1, LoopInvariant, PTL

\* ~RunLoop terminates the process only after its timeout, or for an open handle
\* that is unreferenced or inactive, however many are still closing.
THEOREM TerminatesForAReason == RLSpec => []TerminateReason
<1>1. RInv => TerminateReason
  BY DEF RInv
<1> QED BY <1>1, LoopInvariant, PTL

\* A loop that uv_loop_close has freed is not touched again by the wrappers that
\* outlive it.
THEOREM ClosedLoopNotTouched == RLSpec => ClosedLoopUntouched
<1> DEFINE A == OwnLoop /\ life = "closed" => UNCHANGED <<flags, active, ref, queue, closingHandles>>
<1>1. ASSUME RInv, RLNext PROVE A
  <2> SUFFICES ASSUME OwnLoop, life = "closed"
               PROVE  UNCHANGED <<flags, active, ref, queue, closingHandles>>
    OBVIOUS
  <2>1. queue = {} /\ IInv
    BY <1>1 DEF RInv, Settled
  <2>2. CASE UNCHANGED vars
    BY <2>2 DEF vars, uvVars
  <2>3. CASE UserStep /\ mem' \subseteq mem
    BY <2>1, <2>3, WrappersOutliveLoop
  <2> QED BY <1>1, <2>2, <2>3, AfterTheLoop
<1>2. RInv /\ [RLNext]_rlVars => [A]_rlVars
  BY <1>1
<1> QED BY <1>2, LoopInvariant, PTL DEF RLSpec, ClosedLoopUntouched
=============================================================================
