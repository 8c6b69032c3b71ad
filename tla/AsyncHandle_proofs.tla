-------------------------- MODULE AsyncHandle_proofs --------------------------
(***************************************************************************)
(* Proofs about handles and their wrappers: the invariants of AsyncHandle, *)
(* which rest on the inductive IInv, that it implements HandleLifecycle,   *)
(* and its action properties.                                              *)
(***************************************************************************)
EXTENDS AsyncHandle, QueueTheorems

(* What libuv knows of a handle: the loop's queue holds the handles that are *)
(* open or closing and the one uv__finish_close is working on.               *)
QueueExact ==
  /\ \A h \in mem : h \in queue <=> flags[h] # "closed" \/ h = finishing
  /\ active \subseteq {h \in queue : flags[h] = "open"}
  /\ \A h \in Handles \ mem : data[h] = NULL

(* The closing phase: its batch and its handle exist only within it.         *)
PhaseExact ==
  /\ batch # <<>> => phase = "closing"
  /\ finishing # NULL => /\ phase = "closing" /\ finishing \in queue
                         /\ flags[finishing] = "closed"
  /\ cb \in ErrorCallbacks => cbHandle \in queue /\ cbSelf # NULL

IInv == /\ TypeOK /\ MemorySafe /\ OwnersAgree /\ OrphanIsClosing
        /\ ClosingOnce /\ ClosedMeansReleased /\ QueueExact /\ PhaseExact

-----------------------------------------------------------------------------
(* What Close() does to the loop's bookkeeping.                              *)

CloseTarget(w) == IF IsClosing(w) THEN NULL ELSE mHandle[w]

\* Close() of a constructed wrapper either does nothing or moves its open
\* handle, and no other, to the closing list; either way that handle is not
\* open afterwards.
LEMMA CloseEffect ==
  ASSUME IInv, NEW w \in alive, DoClose(w)
  PROVE  /\ CloseTarget(w) # NULL =>
              /\ CloseTarget(w) = mHandle[w] /\ mHandle[w] \in queue
              /\ flags[mHandle[w]] = "open"
         /\ flags' = [h \in Handles |-> IF h = CloseTarget(w) THEN "closing" ELSE flags[h]]
         /\ active' = active \ {CloseTarget(w)}
         /\ closingHandles' \in Seq(Handles)
         /\ IsInjective(closingHandles')
         /\ Range(closingHandles') = Range(closingHandles) \cup ({CloseTarget(w)} \ {NULL})
         /\ mHandle[w] # NULL => flags'[mHandle[w]] # "open"
<1> USE NullAssumption
<1>1. CASE IsClosing(w)
  <2>1. CloseTarget(w) = NULL /\ UNCHANGED <<flags, active, closingHandles>>
    BY <1>1 DEF CloseTarget, DoClose
  <2>2. mHandle[w] # NULL => mHandle[w] \in mem /\ flags[mHandle[w]] # "open"
    <3>1. mHandle[w] # NULL /\ mClosed[w] => mHandle[w] \notin queue
      BY DEF IInv, ClosedMeansReleased
    <3>2. mHandle[w] # NULL => mHandle[w] \in mem
      BY DEF IInv, OwnersAgree
    <3>3. \A h \in mem : h \notin queue => flags[h] # "open"
      BY DEF IInv, QueueExact
    <3> QED BY <1>1, <3>1, <3>2, <3>3 DEF IsClosing
  <2>3. NULL \notin Handles /\ flags \in [Handles -> {"open", "closing", "closed"}]
        /\ active \subseteq Handles /\ closingHandles \in Seq(Handles) /\ IsInjective(closingHandles)
    BY DEF IInv, TypeOK, ClosingOnce
  <2> QED BY <2>1, <2>2, <2>3
<1>2. CASE ~IsClosing(w)
  <2> DEFINE c == mHandle[w]
  <2>1. CloseTarget(w) = c /\ c # NULL /\ flags[c] = "open" /\ ~mClosed[w]
    BY <1>2 DEF CloseTarget, IsClosing
  <2>2. c \in mem /\ c \in Handles /\ c \in queue
    BY <2>1 DEF IInv, TypeOK, OwnersAgree, ClosedMeansReleased
  <2>3. /\ flags' = [flags EXCEPT ![c] = "closing"] /\ active' = active \ {c}
        /\ closingHandles' = <<c>> \o closingHandles
    BY <1>2 DEF DoClose
  <2>4. c \notin Range(closingHandles)
    BY <2>1, <2>2 DEF IInv, ClosingOnce
  <2>5. closingHandles \in Seq(Handles) /\ IsInjective(closingHandles)
    BY DEF IInv, TypeOK, ClosingOnce
  <2>6. /\ closingHandles' \in Seq(Handles) /\ IsInjective(closingHandles')
        /\ Range(closingHandles') = Range(closingHandles) \cup {c}
    BY <2>2, <2>3, <2>4, <2>5, PushHandle
  <2>7. /\ flags' = [h \in Handles |-> IF h = c THEN "closing" ELSE flags[h]]
        /\ flags'[c] = "closing"
    BY <2>2, <2>3 DEF IInv, TypeOK
  <2> QED BY <2>1, <2>2, <2>3, <2>6, <2>7
<1> QED BY <1>1, <1>2

-----------------------------------------------------------------------------
(* Each step preserves the invariant.                                        *)

\* The conjuncts of IInv with their sequences read as sets, as the steps below
\* use them.
LEMMA CreatePreserves ==
  ASSUME IInv, NEW w \in Wrappers, NEW h \in Handles, NEW s \in BOOLEAN, Create(w, h, s)
  PROVE  IInv'
<1> USE NullAssumption DEF IInv, Create, runVars, cbVars
<1>1. TypeOK'
  BY DEF TypeOK
<1>2. h \notin queue /\ h \notin active
  BY DEF MemorySafe, QueueExact
<1>3. MemorySafe'
  BY DEF MemorySafe, OnStack
<1>4. OwnersAgree'
  BY DEF OwnersAgree, TypeOK
<1>5. OrphanIsClosing'
  BY DEF OrphanIsClosing, TypeOK, MemorySafe
<1>6. ClosingOnce'
  BY DEF ClosingOnce, TypeOK, MemorySafe
<1>7. ClosedMeansReleased'
  BY <1>2 DEF ClosedMeansReleased, TypeOK, OwnersAgree
<1>8. QueueExact'
  BY <1>2 DEF QueueExact, TypeOK, MemorySafe, PhaseExact
<1>9. PhaseExact'
  BY <1>2 DEF PhaseExact, TypeOK
<1> QED BY <1>1, <1>3, <1>4, <1>5, <1>6, <1>7, <1>8, <1>9

\* Start, Stop, Ref and Unref touch nothing but the two handle flags.
LEMMA FlagStepPreserves ==
  ASSUME IInv, NEW w \in Wrappers, Start(w) \/ Stop(w) \/ Ref(w) \/ Unref(w)
  PROVE  IInv'
<1> USE NullAssumption
<1>1. /\ UNCHANGED <<mem, data, flags, queue, closingHandles, batch, finishing, phase>>
      /\ UNCHANGED <<alive, mHandle, mClosed, cb, cbHandle, cbSelf>>
  BY DEF Start, Stop, Ref, Unref, runVars, objVars, cbVars
<1>2. w \in alive /\ ~mClosed[w] => mHandle[w] \in Handles /\ mHandle[w] \in queue
  BY DEF IInv, TypeOK, ClosedMeansReleased
<1>3. active' \subseteq {h \in queue : flags[h] = "open"} /\ ref' \subseteq Handles
  <2>1. CASE Start(w)
    BY <2>1, <1>2 DEF Start, IsClosing, IInv, QueueExact, TypeOK, runVars, objVars, cbVars
  <2>2. CASE Stop(w) \/ Ref(w) \/ Unref(w)
    BY <2>2, <1>2 DEF Stop, Ref, Unref, IInv, QueueExact, TypeOK
  <2> QED BY <2>1, <2>2
<1>4. TypeOK'
  BY <1>1, <1>3 DEF IInv, TypeOK
<1>5. QueueExact'
  BY <1>1, <1>3 DEF IInv, QueueExact
<1>6. MemorySafe' /\ OwnersAgree' /\ OrphanIsClosing' /\ ClosingOnce'
  BY <1>1 DEF IInv, MemorySafe, OnStack, OwnersAgree, OrphanIsClosing, ClosingOnce
<1>7. ClosedMeansReleased' /\ PhaseExact'
  BY <1>1 DEF IInv, ClosedMeansReleased, PhaseExact
<1> QED BY <1>4, <1>5, <1>6, <1>7 DEF IInv

\* Close() itself, and the Close() of an error handler: only the bookkeeping
\* of CloseEffect changes.
LEMMA DoClosePreserves ==
  ASSUME IInv, NEW w \in alive, DoClose(w),
         UNCHANGED <<mem, data, ref, queue, runVars, objVars>>,
         cb' \in UserCallbacks \cup {"none"}, cbHandle' \in Handles \cup {NULL},
         cbSelf' \in Wrappers \cup {NULL},
         cb' \in ErrorCallbacks => cbHandle' \in queue /\ cbSelf' # NULL
  PROVE  IInv'
<1> USE NullAssumption DEF runVars, objVars
<1> DEFINE c == CloseTarget(w)
<1>1. /\ c # NULL => c = mHandle[w] /\ c \in queue /\ c \in mem /\ flags[c] = "open"
      /\ flags' = [h \in Handles |-> IF h = c THEN "closing" ELSE flags[h]]
      /\ active' = active \ {c}
      /\ closingHandles' \in Seq(Handles) /\ IsInjective(closingHandles')
      /\ Range(closingHandles') = Range(closingHandles) \cup ({c} \ {NULL})
  BY CloseEffect DEF IInv, MemorySafe
<1>2. TypeOK'
  BY <1>1 DEF IInv, TypeOK
<1>3. MemorySafe'
  BY <1>1 DEF IInv, MemorySafe, OnStack
<1>4. OwnersAgree'
  BY DEF IInv, OwnersAgree
<1>5. OrphanIsClosing'
  BY <1>1 DEF IInv, OrphanIsClosing, TypeOK
<1>6. c \notin Range(batch)
  BY <1>1 DEF IInv, ClosingOnce, MemorySafe, TypeOK
<1>7. ClosingOnce'
  BY <1>1, <1>6 DEF IInv, ClosingOnce, TypeOK
<1>8. ClosedMeansReleased'
  BY DEF IInv, ClosedMeansReleased
<1>9. QueueExact'
  BY <1>1 DEF IInv, QueueExact, TypeOK
<1>10. PhaseExact'
  BY <1>1 DEF IInv, PhaseExact, TypeOK
<1> QED BY <1>2, <1>3, <1>4, <1>5, <1>7, <1>8, <1>9, <1>10 DEF IInv

LEMMA ClosePreserves ==
  ASSUME IInv, NEW w \in Wrappers, Close(w)
  PROVE  IInv'
<1>1. /\ w \in alive /\ DoClose(w)
      /\ UNCHANGED <<mem, data, ref, queue, runVars, objVars, cbVars>>
  BY DEF Close
<1>2. /\ cb' \in UserCallbacks \cup {"none"} /\ cbHandle' \in Handles \cup {NULL}
      /\ cbSelf' \in Wrappers \cup {NULL}
      /\ cb' \in ErrorCallbacks => cbHandle' \in queue /\ cbSelf' # NULL
  BY <1>1 DEF IInv, TypeOK, PhaseExact, cbVars
<1> QED BY <1>1, <1>2, DoClosePreserves

\* The destructor lets go of a handle that Close() has made non-open.
LEMMA DestroyOpenPreserves ==
  ASSUME IInv, NEW w \in Wrappers, DestroyOpen(w)
  PROVE  IInv'
<1> USE NullAssumption DEF runVars, cbVars
<1> DEFINE c == CloseTarget(w)
           g == mHandle[w]
<1>1. /\ w \in alive /\ ~mClosed[w] /\ DoClose(w)
      /\ data' = [data EXCEPT ![g] = NULL]
      /\ mHandle' = [mHandle EXCEPT ![w] = NULL]
      /\ mClosed' = [mClosed EXCEPT ![w] = TRUE]
      /\ alive' = alive \ {w}
      /\ UNCHANGED <<mem, ref, queue, batch, finishing, phase, cb, cbHandle, cbSelf>>
  BY DEF DestroyOpen
<1>2. g \in Handles /\ g \in queue /\ g \in mem /\ data[g] = w
  BY <1>1 DEF IInv, TypeOK, ClosedMeansReleased, OwnersAgree
<1>3. /\ c # NULL => c = g /\ c \in queue /\ c \in mem /\ flags[c] = "open"
      /\ flags' = [h \in Handles |-> IF h = c THEN "closing" ELSE flags[h]]
      /\ active' = active \ {c}
      /\ closingHandles' \in Seq(Handles) /\ IsInjective(closingHandles')
      /\ Range(closingHandles') = Range(closingHandles) \cup ({c} \ {NULL})
      /\ flags'[g] # "open"
  BY <1>1, <1>2, CloseEffect DEF IInv, MemorySafe
<1>4. TypeOK'
  BY <1>1, <1>2, <1>3 DEF IInv, TypeOK
<1>5. MemorySafe'
  BY <1>1, <1>3 DEF IInv, MemorySafe, OnStack
<1>6. OwnersAgree'
  BY <1>1, <1>2 DEF IInv, OwnersAgree, TypeOK
<1>7. OrphanIsClosing'
  BY <1>1, <1>2, <1>3 DEF IInv, OrphanIsClosing, TypeOK
<1>8. c \notin Range(batch)
  BY <1>3 DEF IInv, ClosingOnce, MemorySafe, TypeOK
<1>9. ClosingOnce'
  BY <1>1, <1>3, <1>8 DEF IInv, ClosingOnce, TypeOK
<1>10. ClosedMeansReleased'
  BY <1>1 DEF IInv, ClosedMeansReleased, TypeOK
<1>11. QueueExact'
  BY <1>1, <1>2, <1>3 DEF IInv, QueueExact, TypeOK
<1>12. PhaseExact'
  BY <1>1, <1>3 DEF IInv, PhaseExact, TypeOK
<1> QED BY <1>4, <1>5, <1>6, <1>7, <1>9, <1>10, <1>11, <1>12 DEF IInv

\* A closed wrapper's handle has left the loop, so nothing refers to the memory
\* its destructor frees.
LEMMA DestroyClosedPreserves ==
  ASSUME IInv, NEW w \in Wrappers, DestroyClosed(w)
  PROVE  IInv'
<1> USE NullAssumption DEF runVars, cbVars
<1> DEFINE g == mHandle[w]
<1>1. /\ w \in alive /\ mClosed[w] /\ mem' = mem \ {g}
      /\ data' = [h \in Handles |-> IF h = g THEN NULL ELSE data[h]]
      /\ mHandle' = [mHandle EXCEPT ![w] = NULL]
      /\ alive' = alive \ {w}
      /\ UNCHANGED <<flags, active, ref, queue, closingHandles, mClosed>>
      /\ UNCHANGED <<batch, finishing, phase, cb, cbHandle, cbSelf>>
  BY DEF DestroyClosed
<1>2. g \notin queue /\ (g \in Handles => g \in mem /\ data[g] = w /\ flags[g] = "closed")
  BY <1>1 DEF IInv, TypeOK, ClosedMeansReleased, OwnersAgree, QueueExact
<1>3. TypeOK'
  BY <1>1 DEF IInv, TypeOK
<1>4. g \notin Range(closingHandles) \cup Range(batch)
  BY <1>2 DEF IInv, ClosingOnce, MemorySafe, TypeOK
<1>5. MemorySafe'
  BY <1>1, <1>2, <1>4 DEF IInv, MemorySafe, OnStack, PhaseExact
<1>6. OwnersAgree'
  BY <1>1, <1>2 DEF IInv, OwnersAgree, TypeOK
<1>7. OrphanIsClosing'
  BY <1>1, <1>2 DEF IInv, OrphanIsClosing, TypeOK
<1>8. ClosingOnce' /\ ClosedMeansReleased' /\ PhaseExact'
  BY <1>1 DEF IInv, ClosingOnce, ClosedMeansReleased, PhaseExact, TypeOK
<1>9. QueueExact'
  BY <1>1, <1>2 DEF IInv, QueueExact, TypeOK
<1> QED BY <1>3, <1>5, <1>6, <1>7, <1>8, <1>9 DEF IInv

LEMMA MoveConstructPreserves ==
  ASSUME IInv, NEW w \in Wrappers, NEW org \in Wrappers, MoveConstruct(w, org)
  PROVE  IInv'
<1> USE NullAssumption DEF runVars, cbVars
<1>1. /\ w \notin alive /\ org \in alive /\ alive' = alive \cup {w}
      /\ mHandle' = [mHandle EXCEPT ![w] = mHandle[org], ![org] = NULL]
      /\ mClosed' = [mClosed EXCEPT ![w] = mClosed[org], ![org] = TRUE]
      /\ data' = [h \in Handles |-> IF h = mHandle[org] THEN w ELSE data[h]]
      /\ UNCHANGED <<mem, flags, active, ref, queue, closingHandles>>
      /\ UNCHANGED <<batch, finishing, phase, cb, cbHandle, cbSelf>>
  BY DEF MoveConstruct
<1>2. TypeOK'
  BY <1>1 DEF IInv, TypeOK
<1>3. MemorySafe' /\ ClosingOnce' /\ PhaseExact'
  BY <1>1 DEF IInv, MemorySafe, OnStack, ClosingOnce, PhaseExact
<1>4. OwnersAgree'
  BY <1>1 DEF IInv, OwnersAgree, TypeOK
<1>5. OrphanIsClosing'
  BY <1>1 DEF IInv, OrphanIsClosing, TypeOK
<1>6. ClosedMeansReleased'
  BY <1>1 DEF IInv, ClosedMeansReleased, TypeOK
<1>7. QueueExact'
  BY <1>1 DEF IInv, QueueExact, TypeOK, OwnersAgree
<1> QED BY <1>2, <1>3, <1>4, <1>5, <1>6, <1>7 DEF IInv

\* The old handle is let go of once it is not open, the new one changes hands.
LEMMA MoveAssignPreserves ==
  ASSUME IInv, NEW w \in Wrappers, NEW org \in Wrappers, MoveAssign(w, org)
  PROVE  IInv'
<1> USE NullAssumption DEF runVars, cbVars
<1> DEFINE c    == CloseTarget(w)
           old  == mHandle[w]
           took == IF org = w THEN NULL ELSE mHandle[org]
<1>1. /\ w \in alive /\ org \in alive /\ DoClose(w)
      /\ data' = [h \in Handles |-> IF h = took THEN w
                                    ELSE IF h = old THEN NULL ELSE data[h]]
      /\ mHandle' = [mHandle EXCEPT ![org] = NULL, ![w] = took]
      /\ mClosed' = [mClosed EXCEPT ![w] = mClosed[org], ![org] = TRUE]
      /\ UNCHANGED <<mem, ref, queue, alive, batch, finishing, phase, cb, cbHandle, cbSelf>>
  BY DEF MoveAssign
<1>2. /\ took # NULL => took # old /\ took \in mem /\ data[took] = org
      /\ old # NULL => old \in mem /\ data[old] = w
  BY <1>1 DEF IInv, OwnersAgree
<1>3. /\ c # NULL => c = old /\ c \in queue /\ c \in mem /\ flags[c] = "open"
      /\ flags' = [h \in Handles |-> IF h = c THEN "closing" ELSE flags[h]]
      /\ active' = active \ {c}
      /\ closingHandles' \in Seq(Handles) /\ IsInjective(closingHandles')
      /\ Range(closingHandles') = Range(closingHandles) \cup ({c} \ {NULL})
      /\ old # NULL => flags'[old] # "open"
  BY <1>1, CloseEffect DEF IInv, MemorySafe
<1>4. TypeOK'
  BY <1>1, <1>3 DEF IInv, TypeOK
<1>5. MemorySafe'
  BY <1>1, <1>3 DEF IInv, MemorySafe, OnStack
<1>6. OwnersAgree'
  <2>1. mHandle'[w] = took /\ (org # w => mHandle'[org] = NULL)
        /\ \A v \in Wrappers \ {w, org} : mHandle'[v] = mHandle[v]
    BY <1>1 DEF IInv, TypeOK
  <2>2. \A h \in mem : data'[h] # NULL => data'[h] \in alive /\ mHandle'[data'[h]] = h
    BY <1>1, <1>2, <2>1 DEF IInv, OwnersAgree, TypeOK
  <2>3. ASSUME NEW v \in alive, mHandle'[v] # NULL
        PROVE  mHandle'[v] \in mem /\ data'[mHandle'[v]] = v
    <3>1. CASE v = w
      BY <1>1, <1>2, <2>1, <2>3, <3>1 DEF IInv, TypeOK
    <3>2. CASE v # w
      <4>1. v # org /\ mHandle'[v] = mHandle[v] /\ mHandle[v] \in mem /\ data[mHandle[v]] = v
        BY <2>1, <2>3, <3>2 DEF IInv, TypeOK, OwnersAgree
      <4>2. mHandle[v] # took /\ mHandle[v] # old
        BY <1>2, <2>3, <3>2, <4>1
      <4> QED BY <1>1, <4>1, <4>2 DEF IInv, TypeOK
    <3> QED BY <3>1, <3>2
  <2>4. mem' = mem /\ alive' = alive
    BY <1>1
  <2> QED BY <2>2, <2>3, <2>4 DEF OwnersAgree
<1>7. OrphanIsClosing'
  BY <1>1, <1>2, <1>3 DEF IInv, OrphanIsClosing, TypeOK
<1>8. c \notin Range(batch)
  BY <1>3 DEF IInv, ClosingOnce, MemorySafe, TypeOK
<1>9. ClosingOnce'
  BY <1>1, <1>3, <1>8 DEF IInv, ClosingOnce, TypeOK
<1>10. ClosedMeansReleased'
  BY <1>1 DEF IInv, ClosedMeansReleased, TypeOK
<1>11. QueueExact'
  BY <1>1, <1>2, <1>3 DEF IInv, QueueExact, TypeOK
<1>12. PhaseExact'
  BY <1>1, <1>3 DEF IInv, PhaseExact, TypeOK
<1> QED BY <1>4, <1>5, <1>6, <1>7, <1>9, <1>10, <1>11, <1>12 DEF IInv

\* Steps of uv_run that only move its program counter.
LEMMA PhaseStepPreserves ==
  ASSUME IInv, EnterRun \/ EndIteration \/ LeaveRun
  PROVE  IInv'
<1>1. /\ UNCHANGED <<mem, data, flags, active, ref, queue, closingHandles, batch, finishing>>
      /\ UNCHANGED <<alive, mHandle, mClosed, cb, cbHandle, cbSelf>>
      /\ phase' \in {"user", "events", "closing", "timers"}
      /\ batch = <<>> /\ finishing = NULL
  <2>1. CASE EnterRun
    BY <2>1 DEF EnterRun, uvVars, objVars, cbVars, IInv, PhaseExact, TypeOK
  <2>2. CASE EndIteration
    BY <2>2 DEF EndIteration, Idle, uvVars, objVars, cbVars
  <2>3. CASE LeaveRun
    BY <2>3 DEF LeaveRun, Idle, uvVars, objVars, cbVars, IInv, PhaseExact, TypeOK
  <2> QED BY <2>1, <2>2, <2>3
<1>2. TypeOK' /\ PhaseExact'
  BY <1>1 DEF IInv, TypeOK, PhaseExact
<1>3. MemorySafe' /\ OwnersAgree' /\ OrphanIsClosing' /\ ClosingOnce'
  BY <1>1 DEF IInv, MemorySafe, OnStack, OwnersAgree, OrphanIsClosing, ClosingOnce
<1>4. ClosedMeansReleased' /\ QueueExact'
  BY <1>1 DEF IInv, ClosedMeansReleased, QueueExact
<1> QED BY <1>2, <1>3, <1>4 DEF IInv

\* A callback starts on a handle the loop knows, whose data is the frame's self.
LEMMA CallbackStarts ==
  ASSUME IInv,
         \/ \E h \in Handles, k \in {"notify"} \cup ErrorCallbacks : Event(h, k)
         \/ \E k \in {"notify", "sent", "error"} : CancelRequest(k)
  PROVE  IInv'
<1>1. PICK h \in queue, k \in {"notify"} \cup ErrorCallbacks :
        /\ cb' = k /\ cbHandle' = h /\ cbSelf' = data[h] /\ data[h] # NULL
        /\ active' \subseteq active
        /\ UNCHANGED <<mem, data, flags, ref, queue, closingHandles, runVars, objVars>>
  <2>1. CASE \E h \in Handles, k \in {"notify"} \cup ErrorCallbacks : Event(h, k)
    BY <2>1 DEF Event
  <2>2. CASE \E k \in {"notify", "sent", "error"} : CancelRequest(k)
    <3>1. PICK k \in {"notify", "sent", "error"} : CancelRequest(k)
      BY <2>2
    <3>2. finishing \in queue
      BY <3>1 DEF CancelRequest, IInv, PhaseExact
    <3> QED BY <3>1, <3>2 DEF CancelRequest, uvVars, ErrorCallbacks
  <2> QED BY <2>1, <2>2
<1>2. /\ UNCHANGED <<mem, data, flags, ref, queue, closingHandles, batch, finishing>>
      /\ UNCHANGED <<alive, mHandle, mClosed, phase>>
  BY <1>1 DEF runVars, objVars
<1>3. TypeOK' /\ PhaseExact'
  BY <1>1, <1>2 DEF IInv, TypeOK, PhaseExact, UserCallbacks, ErrorCallbacks
<1>4. MemorySafe'
  BY <1>1, <1>2 DEF IInv, MemorySafe, OnStack
<1>5. OwnersAgree' /\ OrphanIsClosing' /\ ClosingOnce'
  BY <1>2 DEF IInv, OwnersAgree, OrphanIsClosing, ClosingOnce
<1>6. ClosedMeansReleased' /\ QueueExact'
  BY <1>1, <1>2 DEF IInv, ClosedMeansReleased, QueueExact
<1> QED BY <1>3, <1>4, <1>5, <1>6 DEF IInv

LEMMA RunClosingHandlesPreserves ==
  ASSUME IInv, RunClosingHandles
  PROVE  IInv'
<1>1. /\ phase' = "closing" /\ batch' = closingHandles /\ closingHandles' = <<>>
      /\ UNCHANGED <<mem, data, flags, active, ref, queue, finishing>>
      /\ UNCHANGED <<alive, mHandle, mClosed, cb, cbHandle, cbSelf>>
      /\ batch = <<>> /\ finishing = NULL
  BY DEF RunClosingHandles, Idle, objVars, cbVars, IInv, PhaseExact
<1>2. Range(<<>>) = {} /\ IsInjective(<<>>) /\ <<>> \in Seq(Handles)
  BY DEF Range, IsInjective
<1>3. TypeOK' /\ PhaseExact'
  BY <1>1, <1>2 DEF IInv, TypeOK, PhaseExact
<1>4. MemorySafe' /\ ClosingOnce'
  BY <1>1, <1>2 DEF IInv, MemorySafe, OnStack, ClosingOnce
<1>5. OwnersAgree' /\ OrphanIsClosing' /\ ClosedMeansReleased' /\ QueueExact'
  BY <1>1 DEF IInv, OwnersAgree, OrphanIsClosing, ClosedMeansReleased, QueueExact
<1> QED BY <1>3, <1>4, <1>5 DEF IInv

LEMMA FinishClosePreserves ==
  ASSUME IInv, FinishClose
  PROVE  IInv'
<1> USE NullAssumption
<1> DEFINE p == Head(batch)
<1>1. /\ phase = "closing" /\ cb = "none" /\ finishing = NULL /\ batch # <<>>
      /\ finishing' = p /\ batch' = Tail(batch) /\ flags' = [flags EXCEPT ![p] = "closed"]
      /\ UNCHANGED <<mem, data, active, ref, queue, closingHandles, phase>>
      /\ UNCHANGED <<alive, mHandle, mClosed, cb, cbHandle, cbSelf>>
  BY DEF FinishClose, Idle, objVars, cbVars
<1>2. /\ p \in Handles /\ p \in Range(batch)
      /\ batch' \in Seq(Handles) /\ IsInjective(batch') /\ Range(batch') = Range(batch) \ {p}
  BY <1>1, TakeHandle DEF IInv, TypeOK, ClosingOnce
<1>3. p \in mem /\ flags[p] = "closing" /\ p \in queue /\ p \notin Range(closingHandles)
  BY <1>2 DEF IInv, MemorySafe, ClosingOnce, QueueExact
<1>4. TypeOK'
  BY <1>1, <1>2 DEF IInv, TypeOK
<1>5. MemorySafe'
  BY <1>1, <1>2, <1>3 DEF IInv, MemorySafe, OnStack
<1>6. OwnersAgree' /\ ClosedMeansReleased'
  BY <1>1 DEF IInv, OwnersAgree, ClosedMeansReleased
<1>7. OrphanIsClosing'
  BY <1>1, <1>2 DEF IInv, OrphanIsClosing, TypeOK
<1>8. ClosingOnce'
  BY <1>1, <1>2, <1>3 DEF IInv, ClosingOnce, TypeOK
<1>9. QueueExact'
  BY <1>1, <1>3 DEF IInv, QueueExact, TypeOK
<1>10. PhaseExact'
  BY <1>1, <1>3 DEF IInv, PhaseExact, TypeOK
<1> QED BY <1>4, <1>5, <1>6, <1>7, <1>8, <1>9, <1>10 DEF IInv

\* Nothing but the frame that has just ended referred to the handle any more.
LEMMA CloseOrphanPreserves ==
  ASSUME IInv, CloseOrphan
  PROVE  IInv'
<1> USE NullAssumption
<1>1. /\ finishing # NULL /\ cb = "none" /\ data[finishing] = NULL
      /\ ref' = ref \ {finishing} /\ queue' = queue \ {finishing} /\ mem' = mem \ {finishing}
      /\ finishing' = NULL
      /\ UNCHANGED <<data, flags, active, closingHandles, batch, phase>>
      /\ UNCHANGED <<alive, mHandle, mClosed, cb, cbHandle, cbSelf>>
  BY DEF CloseOrphan, objVars, cbVars
<1>2. finishing \in queue /\ finishing \in mem /\ flags[finishing] = "closed"
  BY <1>1 DEF IInv, PhaseExact, MemorySafe
<1>3. \A w \in alive : mHandle[w] # finishing
  BY <1>1 DEF IInv, OwnersAgree, TypeOK
<1>4. finishing \notin Range(closingHandles) \cup Range(batch)
  BY <1>2 DEF IInv, ClosingOnce
<1>5. TypeOK'
  BY <1>1 DEF IInv, TypeOK
<1>6. MemorySafe'
  BY <1>1, <1>4 DEF IInv, MemorySafe, OnStack, ErrorCallbacks
<1>7. OwnersAgree' /\ ClosedMeansReleased'
  BY <1>1, <1>3 DEF IInv, OwnersAgree, ClosedMeansReleased
<1>8. OrphanIsClosing' /\ ClosingOnce'
  BY <1>1 DEF IInv, OrphanIsClosing, ClosingOnce
<1>9. QueueExact'
  BY <1>1, <1>2 DEF IInv, QueueExact, TypeOK
<1>10. PhaseExact'
  BY <1>1 DEF IInv, PhaseExact, ErrorCallbacks
<1> QED BY <1>5, <1>6, <1>7, <1>8, <1>9, <1>10 DEF IInv

\* The handle leaves the loop in the step that marks its wrapper closed.
LEMMA CloseOwnedPreserves ==
  ASSUME IInv, CloseOwned
  PROVE  IInv'
<1> USE NullAssumption
<1> DEFINE w == data[finishing]
<1>1. /\ finishing # NULL /\ cb = "none" /\ w # NULL
      /\ ref' = ref \ {finishing} /\ queue' = queue \ {finishing}
      /\ mClosed' = [mClosed EXCEPT ![w] = TRUE]
      /\ cb' = "close" /\ cbHandle' = finishing /\ cbSelf' = w /\ finishing' = NULL
      /\ UNCHANGED <<mem, data, flags, active, closingHandles, batch, phase, alive, mHandle>>
  BY DEF CloseOwned
<1>2. finishing \in queue /\ finishing \in mem /\ flags[finishing] = "closed"
  BY <1>1 DEF IInv, PhaseExact, MemorySafe
<1>3. w \in alive /\ mHandle[w] = finishing
  BY <1>1, <1>2 DEF IInv, OwnersAgree
<1>4. \A v \in alive : mHandle[v] = finishing => v = w
  BY <1>1 DEF IInv, OwnersAgree
<1>5. TypeOK'
  BY <1>1, <1>2, <1>3 DEF IInv, TypeOK, UserCallbacks
<1>6. MemorySafe'
  BY <1>1 DEF IInv, MemorySafe, OnStack
<1>7. OwnersAgree' /\ OrphanIsClosing' /\ ClosingOnce'
  BY <1>1 DEF IInv, OwnersAgree, OrphanIsClosing, ClosingOnce
<1>8. ClosedMeansReleased'
  BY <1>1, <1>3, <1>4 DEF IInv, ClosedMeansReleased, TypeOK
<1>9. QueueExact'
  BY <1>1, <1>2 DEF IInv, QueueExact, TypeOK
<1>10. PhaseExact'
  BY <1>1 DEF IInv, PhaseExact, ErrorCallbacks
<1> QED BY <1>5, <1>6, <1>7, <1>8, <1>9, <1>10 DEF IInv

\* The wrapper an error handler closes is constructed, because it is still the
\* owner of the handle the frame was entered with.
LEMMA CallbackReturnsPreserves ==
  ASSUME IInv, CallbackReturns
  PROVE  IInv'
<1> USE NullAssumption
<1>1. /\ UNCHANGED <<mem, data, ref, queue, runVars, objVars>>
      /\ cb' \in UserCallbacks \cup {"none"} /\ cbHandle' \in Handles \cup {NULL}
      /\ cbSelf' \in Wrappers \cup {NULL}
      /\ cb' \in ErrorCallbacks => cbHandle' \in queue /\ cbSelf' # NULL
  BY DEF CallbackReturns, IInv, TypeOK, PhaseExact, UserCallbacks, ErrorCallbacks
<1>2. CASE cb \in ErrorCallbacks /\ StillOwned /\ DoClose(cbSelf)
  <2>1. cbHandle \in mem /\ data[cbHandle] = cbSelf /\ cbSelf # NULL
    BY <1>2 DEF StillOwned, IInv, PhaseExact, MemorySafe
  <2>2. cbSelf \in alive
    BY <2>1 DEF IInv, OwnersAgree
  <2> QED BY <1>1, <1>2, <2>2, DoClosePreserves
<1>3. CASE UNCHANGED <<flags, active, closingHandles>>
  <2>1. /\ UNCHANGED <<mem, data, flags, active, ref, queue, closingHandles, batch, finishing>>
        /\ UNCHANGED <<alive, mHandle, mClosed, phase>>
    BY <1>1, <1>3 DEF runVars, objVars
  <2>2. TypeOK' /\ PhaseExact'
    BY <1>1, <2>1 DEF IInv, TypeOK, PhaseExact
  <2>3. MemorySafe'
    BY <1>1, <2>1 DEF IInv, MemorySafe, OnStack
  <2>4. OwnersAgree' /\ OrphanIsClosing' /\ ClosingOnce'
    BY <2>1 DEF IInv, OwnersAgree, OrphanIsClosing, ClosingOnce
  <2>5. ClosedMeansReleased' /\ QueueExact'
    BY <2>1 DEF IInv, ClosedMeansReleased, QueueExact
  <2> QED BY <2>2, <2>3, <2>4, <2>5 DEF IInv
<1> QED BY <1>2, <1>3 DEF CallbackReturns, ErrorCallbacks

-----------------------------------------------------------------------------
(* The invariant of the specification and what follows from it.              *)

LEMMA InitInvariant == Init => IInv
<1> SUFFICES ASSUME Init PROVE IInv
  OBVIOUS
<1> USE NullAssumption DEF Init
<1>1. Range(<<>>) = {} /\ IsInjective(<<>>) /\ <<>> \in Seq(Handles)
  BY DEF Range, IsInjective
<1>2. TypeOK
  BY <1>1 DEF TypeOK
<1>3. MemorySafe /\ OwnersAgree /\ OrphanIsClosing /\ ClosingOnce
  BY <1>1 DEF MemorySafe, OnStack, OwnersAgree, OrphanIsClosing, ClosingOnce
<1>4. ClosedMeansReleased /\ QueueExact /\ PhaseExact
  BY DEF ClosedMeansReleased, QueueExact, PhaseExact, ErrorCallbacks
<1> QED BY <1>2, <1>3, <1>4 DEF IInv

LEMMA StepInvariant == IInv /\ [Next]_vars => IInv'
<1> SUFFICES ASSUME IInv, [Next]_vars PROVE IInv'
  OBVIOUS
<1>1. CASE UserStep
  <2>1. CASE \E w \in Wrappers, h \in Handles, s \in BOOLEAN : Create(w, h, s)
    BY <2>1, CreatePreserves
  <2>2. CASE \E w \in Wrappers : Start(w) \/ Stop(w) \/ Ref(w) \/ Unref(w)
    BY <2>2, FlagStepPreserves
  <2>3. CASE \E w \in Wrappers : Close(w)
    BY <2>3, ClosePreserves
  <2>4. CASE \E w \in Wrappers : DestroyOpen(w) \/ DestroyClosed(w)
    BY <2>4, DestroyOpenPreserves, DestroyClosedPreserves
  <2>5. CASE \E w, org \in Wrappers : MoveConstruct(w, org) \/ MoveAssign(w, org)
    BY <2>5, MoveConstructPreserves, MoveAssignPreserves
  <2> QED BY <1>1, <2>1, <2>2, <2>3, <2>4, <2>5 DEF UserStep
<1>2. CASE LoopStep
  BY <1>2, PhaseStepPreserves, RunClosingHandlesPreserves, FinishClosePreserves,
     CloseOrphanPreserves, CloseOwnedPreserves, CallbackReturnsPreserves DEF LoopStep
<1>3. CASE EventStep
  BY <1>3, CallbackStarts DEF EventStep
<1>4. CASE UNCHANGED vars
  <2>1. /\ UNCHANGED <<mem, data, flags, active, ref, queue, closingHandles, batch, finishing>>
        /\ UNCHANGED <<alive, mHandle, mClosed, phase, cb, cbHandle, cbSelf>>
    BY <1>4 DEF vars, uvVars, runVars, objVars, cbVars
  <2>2. TypeOK' /\ PhaseExact' /\ MemorySafe'
    BY <2>1 DEF IInv, TypeOK, PhaseExact, MemorySafe, OnStack
  <2>3. OwnersAgree' /\ OrphanIsClosing' /\ ClosingOnce'
    BY <2>1 DEF IInv, OwnersAgree, OrphanIsClosing, ClosingOnce
  <2>4. ClosedMeansReleased' /\ QueueExact'
    BY <2>1 DEF IInv, ClosedMeansReleased, QueueExact
  <2> QED BY <2>2, <2>3, <2>4 DEF IInv
<1> QED BY <1>1, <1>2, <1>3, <1>4 DEF Next

\* The inductive invariant holds in every reachable state of AsyncHandle.
THEOREM Invariant == Spec => []IInv
<1>1. Init => IInv
  BY InitInvariant
<1>2. IInv /\ [Next]_vars => IInv'
  BY StepInvariant
<1> QED BY <1>1, <1>2, PTL DEF Spec

\* Types are preserved by every constructor, destructor, move and loop step.
THEOREM TypeCorrect == Spec => []TypeOK
<1>1. IInv => TypeOK
  BY DEF IInv
<1> QED BY <1>1, Invariant, PTL

\* No destructor, move or OnUVClose frees memory that the loop, its closing
\* list or a handler's frame still refers to.
THEOREM NoUseAfterFree == Spec => []MemorySafe
<1>1. IInv => MemorySafe
  BY DEF IInv
<1> QED BY <1>1, Invariant, PTL

\* handle->data and m_pHandle stay inverse to each other through every move, so
\* GetSelf always finds the constructed owner.
THEOREM BackPointersCorrect == Spec => []OwnersAgree
<1>1. IInv => OwnersAgree
  BY DEF IInv
<1> QED BY <1>1, Invariant, PTL

\* The assertion of MOE_UV_GET_SELF never fails.
THEOREM GetSelfAssertion == Spec => []OrphanIsClosing
<1>1. IInv => OrphanIsClosing
  BY DEF IInv
<1> QED BY <1>1, Invariant, PTL

\* uv_close is called at most once per handle, and none is lost from the lists.
THEOREM CloseIsOnce == Spec => []ClosingOnce
<1>1. IInv => ClosingOnce
  BY DEF IInv
<1> QED BY <1>1, Invariant, PTL

\* m_bHandleClosed tells truly whether libuv is done with the handle.
THEOREM ClosedFlagCorrect == Spec => []ClosedMeansReleased
<1>1. IInv => ClosedMeansReleased
  BY DEF IInv
<1> QED BY <1>1, Invariant, PTL

-----------------------------------------------------------------------------
(* AsyncHandle implements HandleLifecycle, for any numbers of wrappers and  *)
(* handles; and action properties of AsyncHandle.                           *)

(* Life, case by case.                                                     *)
LEMMA LifeIs ==
  ASSUME NEW h \in Handles
  PROVE  /\ Life[h] = "free" <=> h \notin mem
         /\ Life[h] = "closed" <=> h \in mem /\ h \notin queue
         /\ Life[h] = "open" <=> h \in mem /\ h \in queue /\ flags[h] = "open"
         /\ Life[h] = "closing" <=> h \in mem /\ h \in queue /\ flags[h] # "open"
BY DEF Life

LEMMA LifeIsNext ==
  ASSUME NEW h \in Handles
  PROVE  /\ Life'[h] = "free" <=> h \notin mem'
         /\ Life'[h] = "closed" <=> h \in mem' /\ h \notin queue'
         /\ Life'[h] = "open" <=> h \in mem' /\ h \in queue' /\ flags'[h] = "open"
         /\ Life'[h] = "closing" <=> h \in mem' /\ h \in queue' /\ flags'[h] # "open"
BY DEF Life

LEMMA LifeType == Life' \in [Handles -> {"free", "open", "closing", "closed"}]
BY DEF Life

\* handle->data is an owner in the sense of HandleLifecycle.
LEMMA OneOwnerHolds == ASSUME IInv PROVE Lifecycle!OneOwner
<1> SUFFICES ASSUME NEW g \in Handles, NEW h \in Handles, data[g] = data[h], data[g] # NULL
             PROVE  g = h
  BY DEF Lifecycle!OneOwner
<1>1. g \in mem /\ h \in mem
  BY DEF IInv, QueueExact
<1> QED BY <1>1 DEF IInv, OwnersAgree

\* What one step of AsyncHandle may do to one handle.
HandleStep(h) == \/ Lifecycle!Opens(h) \/ Lifecycle!Keeps(h) \/ Lifecycle!StartsClosing(h)
                 \/ Lifecycle!Completes(h) \/ Lifecycle!Frees(h)

\* A handle that stays where it is, and whose owner stays or is replaced.
LEMMA KeepsOwned ==
  ASSUME NEW h \in Handles,
         h \in mem <=> h \in mem', h \in queue <=> h \in queue',
         h \in queue => (flags[h] = "open" <=> flags'[h] = "open"),
         data[h] = NULL <=> data'[h] = NULL
  PROVE  HandleStep(h)
<1>1. Life'[h] = Life[h]
  BY DEF Life
<1> QED BY <1>1 DEF HandleStep, Lifecycle!Keeps

\* uv_close on the handle of w, if it is open, is StartsClosing; a handle that
\* is not open may lose its owner.
LEMMA DoCloseSteps ==
  ASSUME IInv, NEW w \in Wrappers, w \in alive, DoClose(w), UNCHANGED <<mem, queue>>,
         NEW h \in Handles,
         \/ data[h] = NULL <=> data'[h] = NULL
         \/ h = mHandle[w] /\ data'[h] = NULL
  PROVE  HandleStep(h)
<1>1. CASE h = mHandle[w] /\ h \in queue /\ flags[h] = "open"
  <2>1. ~mClosed[w]
    BY <1>1, NullAssumption DEF IInv, ClosedMeansReleased
  <2>2. flags'[h] = "closing"
    BY <1>1, <2>1, NullAssumption DEF DoClose, IsClosing, IInv, TypeOK
  <2>3. h \in mem
    BY <1>1 DEF IInv, MemorySafe
  <2>4. Life[h] = "open" /\ Life'[h] = "closing"
    BY <1>1, <2>2, <2>3 DEF Life
  <2> QED BY <2>4 DEF HandleStep, Lifecycle!StartsClosing
<1>2. CASE ~(h = mHandle[w] /\ h \in queue /\ flags[h] = "open")
  <2>1. h \in queue => (flags[h] = "open" <=> flags'[h] = "open")
    BY <1>2 DEF DoClose, IInv, TypeOK
  <2>2. Life'[h] = Life[h]
    BY <2>1 DEF Life
  <2>3. CASE data[h] = NULL <=> data'[h] = NULL
    BY <2>2, <2>3 DEF HandleStep, Lifecycle!Keeps
  <2>4. CASE h = mHandle[w] /\ data'[h] = NULL
    <3>1. Life[h] # "open"
      BY <1>2, <2>4, LifeIs
    <3> QED BY <2>2, <2>4, <3>1 DEF HandleStep, Lifecycle!Keeps
  <2> QED BY <2>3, <2>4
<1> QED BY <1>1, <1>2

-----------------------------------------------------------------------------
LEMMA UserStepRefines ==
  ASSUME IInv, UserStep, NEW h \in Handles
  PROVE  HandleStep(h)
<1>1. ASSUME NEW w \in Wrappers, NEW g \in Handles, NEW s \in BOOLEAN, Create(w, g, s)
      PROVE  HandleStep(h)
  <2>1. CASE h = g
    <3>1. h \notin mem /\ h \in mem' /\ h \in queue' /\ flags'[h] = "open" /\ data'[h] # NULL
      BY <1>1, <2>1, NullAssumption DEF Create, IInv, TypeOK
    <3>2. Life[h] = "free" /\ Life'[h] = "open"
      BY <3>1 DEF Life
    <3> QED BY <3>1, <3>2 DEF HandleStep, Lifecycle!Opens
  <2>2. CASE h # g
    BY <1>1, <2>2, KeepsOwned DEF Create, IInv, TypeOK
  <2> QED BY <2>1, <2>2
<1>2. ASSUME NEW w \in Wrappers, Start(w) \/ Stop(w) \/ Ref(w) \/ Unref(w)
      PROVE  HandleStep(h)
  BY <1>2, KeepsOwned DEF Start, Stop, Ref, Unref
<1>3. ASSUME NEW w \in Wrappers, Close(w) PROVE HandleStep(h)
  BY <1>3, DoCloseSteps DEF Close
<1>4. ASSUME NEW w \in Wrappers, DestroyOpen(w) PROVE HandleStep(h)
  <2>1. w \in alive /\ DoClose(w) /\ UNCHANGED <<mem, queue>>
    BY <1>4 DEF DestroyOpen
  <2>2. h = mHandle[w] => data'[h] = NULL
    BY <1>4 DEF DestroyOpen, IInv, TypeOK
  <2>3. h # mHandle[w] => data'[h] = data[h]
    BY <1>4 DEF DestroyOpen, IInv, TypeOK
  <2> QED BY <2>1, <2>2, <2>3, DoCloseSteps
<1>5. ASSUME NEW w \in Wrappers, DestroyClosed(w) PROVE HandleStep(h)
  <2>1. CASE h = mHandle[w]
    <3>1. h \in mem /\ data[h] = w /\ h \notin queue
      BY <1>5, <2>1, NullAssumption
      DEF DestroyClosed, IInv, OwnersAgree, ClosedMeansReleased
    <3>2. h \notin mem' /\ data'[h] = NULL
      BY <1>5, <2>1 DEF DestroyClosed
    <3>3. Life[h] = "closed" /\ Life'[h] = "free"
      BY <3>1, <3>2 DEF Life
    <3> QED BY <3>1, <3>2, <3>3, NullAssumption DEF HandleStep, Lifecycle!Frees
  <2>2. CASE h # mHandle[w]
    BY <1>5, <2>2, KeepsOwned DEF DestroyClosed
  <2> QED BY <2>1, <2>2
<1>6. ASSUME NEW w \in Wrappers, NEW org \in Wrappers, MoveConstruct(w, org)
      PROVE  HandleStep(h)
  <2>1. h = mHandle[org] => data[h] = org
    BY <1>6, NullAssumption DEF MoveConstruct, IInv, OwnersAgree
  <2> QED BY <1>6, <2>1, KeepsOwned, NullAssumption DEF MoveConstruct
<1>7. ASSUME NEW w \in Wrappers, NEW org \in Wrappers, MoveAssign(w, org)
      PROVE  HandleStep(h)
  <2> DEFINE took == IF org = w THEN NULL ELSE mHandle[org]
  <2>1. w \in alive /\ DoClose(w) /\ UNCHANGED <<mem, queue>>
    BY <1>7 DEF MoveAssign
  <2>2. data'[h] = IF h = took THEN w ELSE IF h = mHandle[w] THEN NULL ELSE data[h]
    BY <1>7 DEF MoveAssign
  <2>3. h = took => data[h] = org
    BY <1>7, NullAssumption DEF MoveAssign, IInv, OwnersAgree
  <2>4. h = took => data[h] # NULL /\ data'[h] # NULL
    BY <2>2, <2>3, NullAssumption
  <2>5. h # took /\ h = mHandle[w] => data'[h] = NULL
    BY <2>2
  <2>6. h # took /\ h # mHandle[w] => data'[h] = data[h]
    BY <2>2
  <2> QED BY <2>1, <2>4, <2>5, <2>6, DoCloseSteps
<1> QED BY <1>1, <1>2, <1>3, <1>4, <1>5, <1>6, <1>7 DEF UserStep

LEMMA LoopStepRefines ==
  ASSUME IInv, LoopStep \/ EventStep, NEW h \in Handles
  PROVE  HandleStep(h)
<1>1. CASE EnterRun \/ RunClosingHandles \/ EndIteration \/ LeaveRun \/ EventStep
  BY <1>1, KeepsOwned DEF EnterRun, RunClosingHandles, EndIteration, LeaveRun,
     EventStep, Event, CancelRequest, uvVars
<1>2. CASE FinishClose
  <2> DEFINE f == Head(batch)
  <2>1. f \in Range(batch)
    BY <1>2 DEF FinishClose, Range, IInv, TypeOK
  <2>2. f \in Handles /\ flags[f] = "closing" /\ flags' = [flags EXCEPT ![f] = "closed"]
    BY <1>2, <2>1 DEF FinishClose, IInv, TypeOK, ClosingOnce, MemorySafe
  <2> QED BY <1>2, <2>2, KeepsOwned DEF FinishClose, IInv, TypeOK
<1>3. CASE CloseOrphan
  <2>1. finishing \in mem /\ finishing \in queue /\ flags[finishing] = "closed"
    BY <1>3 DEF CloseOrphan, IInv, PhaseExact, MemorySafe
  <2>2. CASE h = finishing
    <3>1. Life[h] = "closing" /\ Life'[h] = "free" /\ data[h] = NULL /\ data' = data
      BY <1>3, <2>1, <2>2 DEF CloseOrphan, Life
    <3> QED BY <3>1 DEF HandleStep, Lifecycle!Completes
  <2>3. CASE h # finishing
    BY <1>3, <2>3, KeepsOwned DEF CloseOrphan
  <2> QED BY <2>2, <2>3
<1>4. CASE CloseOwned
  <2>1. finishing \in mem /\ finishing \in queue /\ flags[finishing] = "closed"
    BY <1>4 DEF CloseOwned, IInv, PhaseExact, MemorySafe
  <2>2. CASE h = finishing
    <3>1. Life[h] = "closing" /\ Life'[h] = "closed" /\ data[h] # NULL /\ data' = data
      BY <1>4, <2>1, <2>2 DEF CloseOwned, Life
    <3> QED BY <3>1 DEF HandleStep, Lifecycle!Completes
  <2>3. CASE h # finishing
    BY <1>4, <2>3, KeepsOwned DEF CloseOwned
  <2> QED BY <2>2, <2>3
<1>5. CASE CallbackReturns
  <2>1. UNCHANGED <<mem, data, queue>>
    BY <1>5 DEF CallbackReturns
  <2>2. CASE cb \in ErrorCallbacks /\ StillOwned /\ DoClose(cbSelf)
    <3>1. cbHandle \in mem /\ cbSelf \in Wrappers /\ data[cbHandle] = cbSelf
      BY <2>2 DEF StillOwned, IInv, PhaseExact, MemorySafe, TypeOK
    <3>2. cbSelf \in alive
      BY <3>1, <2>2 DEF IInv, OwnersAgree, PhaseExact
    <3> QED BY <1>5, <2>1, <2>2, <3>1, <3>2, DoCloseSteps DEF CallbackReturns
  <2>3. CASE UNCHANGED flags
    BY <1>5, <2>1, <2>3, KeepsOwned DEF CallbackReturns
  <2> QED BY <1>5, <2>2, <2>3 DEF CallbackReturns, ErrorCallbacks
<1> QED BY <1>1, <1>2, <1>3, <1>4, <1>5 DEF LoopStep

-----------------------------------------------------------------------------
\* Every call, callback and loop step is, on each handle, a step of its life:
\* AsyncHandle implements HandleLifecycle.
THEOREM Refinement == Spec => LifecycleSpec
<1>1. Init => Lifecycle!Init
  BY DEF Init, Lifecycle!Init, Life
<1>2. IInv /\ IInv' /\ [Next]_vars => [Lifecycle!Next]_(Lifecycle!vars)
  <2> SUFFICES ASSUME IInv, IInv', [Next]_vars PROVE [Lifecycle!Next]_(Lifecycle!vars)
    OBVIOUS
  <2>1. CASE Next
    <3>1. \A h \in Handles : HandleStep(h)
      BY <2>1, UserStepRefines, LoopStepRefines DEF Next
    <3>2. data' \in [Handles -> Wrappers \cup {NULL}]
      BY DEF IInv, TypeOK
    <3>3. Lifecycle!OneOwner'
      <4>1. (IInv => Lifecycle!OneOwner)'
        BY OneOwnerHolds, PTL
      <4> QED BY <4>1
    <3>4. Lifecycle!Next
      BY <3>1, <3>2, <3>3, LifeType DEF HandleStep, Lifecycle!Next
    <3> QED BY <3>4
  <2>2. CASE UNCHANGED vars
    BY <2>2 DEF vars, uvVars, Life, Lifecycle!vars
  <2> QED BY <2>1, <2>2
<1> QED BY <1>1, <1>2, Invariant, PTL DEF Spec, LifecycleSpec, Lifecycle!Spec

-----------------------------------------------------------------------------
(* Action properties.                                                      *)

\* Only a destructor of a closed wrapper and OnUVClose of an abandoned handle
\* free memory, and both do so when the close is complete.
THEOREM FreeAfterClose == Spec => FreedOnlyAfterClose
<1> DEFINE P == \A h \in mem \ mem' : h \notin queue' /\ flags[h] = "closed"
<1>1. ASSUME IInv, Next PROVE P
  <2>1. ASSUME NEW w \in Wrappers, DestroyClosed(w) PROVE P
    <3> SUFFICES ASSUME NEW h \in mem \ mem' PROVE h \notin queue' /\ flags[h] = "closed"
      OBVIOUS
    <3>1. h = mHandle[w] /\ w \in alive /\ mClosed[w] /\ h \in Handles
      BY <1>1, <2>1 DEF DestroyClosed, IInv, TypeOK
    <3>2. h \notin queue
      BY <1>1, <3>1, NullAssumption DEF IInv, ClosedMeansReleased
    <3>3. queue' = queue
      BY <2>1 DEF DestroyClosed
    <3> QED BY <1>1, <3>2, <3>3 DEF IInv, QueueExact
  <2>2. CASE CloseOrphan
    BY <1>1, <2>2 DEF CloseOrphan, IInv, PhaseExact
  <2>3. CASE \E w \in Wrappers, h \in Handles, s \in BOOLEAN : Create(w, h, s)
    BY <2>3 DEF Create
  <2>4. ASSUME NEW w \in Wrappers,
               Start(w) \/ Stop(w) \/ Ref(w) \/ Unref(w) \/ Close(w) \/ DestroyOpen(w)
        PROVE  mem' = mem
    BY <2>4 DEF Start, Stop, Ref, Unref, Close, DestroyOpen
  <2>5. ASSUME NEW w \in Wrappers, NEW org \in Wrappers,
               MoveConstruct(w, org) \/ MoveAssign(w, org)
        PROVE  mem' = mem
    BY <2>5 DEF MoveConstruct, MoveAssign
  <2>6. CASE EventStep \/ (LoopStep /\ ~CloseOrphan)
    <3>1. mem' = mem
      BY <2>6 DEF EventStep, Event, CancelRequest, LoopStep, EnterRun, RunClosingHandles,
         FinishClose, CloseOwned, CallbackReturns, EndIteration, LeaveRun, uvVars
    <3> QED BY <3>1
  <2> QED BY <1>1, <2>1, <2>2, <2>3, <2>4, <2>5, <2>6 DEF Next, UserStep, LoopStep
<1>2. ASSUME UNCHANGED vars PROVE P
  BY <1>2 DEF vars, uvVars
<1>3. IInv /\ [Next]_vars => [P]_vars
  BY <1>1, <1>2
<1> QED BY <1>3, Invariant, PTL DEF Spec, FreedOnlyAfterClose

\* Which steps start an OnClose, and which end an error callback.
LEMMA CallbackSteps ==
  ASSUME IInv, [Next]_vars
  PROVE  /\ cb # "close" /\ cb' = "close" => CloseOwned
         /\ cb \in ErrorCallbacks /\ cb' # cb => CallbackReturns
<1>1. CASE UserStep
  <2>1. cb' = cb
    BY <1>1 DEF UserStep, Create, Start, Stop, Ref, Unref, Close, DestroyOpen, DestroyClosed,
       MoveConstruct, MoveAssign, cbVars
  <2> QED BY <2>1
<1>2. CASE LoopStep \/ EventStep
  BY <1>2 DEF LoopStep, EventStep, Event, CancelRequest, EnterRun, RunClosingHandles,
     FinishClose, CloseOrphan, CloseOwned, CallbackReturns, EndIteration, LeaveRun, Idle, cbVars,
     ErrorCallbacks
<1>3. CASE UNCHANGED vars
  BY <1>3 DEF vars, cbVars
<1> QED BY <1>1, <1>2, <1>3 DEF Next

\* OnUVClose calls OnClose on the owner of the handle that has just left the
\* loop.
THEOREM OnCloseOfOwner == Spec => OnCloseReachesOwner
<1> DEFINE P == cb # "close" /\ cb' = "close" =>
                  /\ cbSelf' \in alive /\ mHandle[cbSelf'] = cbHandle'
                  /\ ~mClosed[cbSelf'] /\ mClosed'[cbSelf']
<1>1. ASSUME IInv, CloseOwned PROVE P
  <2>1. finishing \in mem /\ finishing \in queue
    BY <1>1 DEF CloseOwned, IInv, PhaseExact, MemorySafe
  <2>2. data[finishing] \in alive /\ mHandle[data[finishing]] = finishing
    BY <1>1, <2>1 DEF CloseOwned, IInv, OwnersAgree
  <2>3. ~mClosed[data[finishing]]
    BY <1>1, <2>1, <2>2 DEF CloseOwned, IInv, ClosedMeansReleased
  <2>4. cbSelf' = data[finishing] /\ cbHandle' = finishing /\ mClosed'[data[finishing]]
    BY <1>1, <2>2 DEF CloseOwned, IInv, TypeOK
  <2> QED BY <2>2, <2>3, <2>4
<1>2. IInv /\ [Next]_vars => [P]_vars
  BY <1>1, CallbackSteps
<1> QED BY <1>2, Invariant, PTL DEF Spec, OnCloseReachesOwner

\* The check of ownership that a handler makes when an error callback has
\* returned is enough: a wrapper that data still refers to is constructed, and
\* the handle it holds, the one Close() would close, is the one that failed.
THEOREM ErrorsStayHome == Spec => HandlersStayHome
<1> DEFINE P == cb' # cb /\ cb \in ErrorCallbacks =>
                  /\ (cb' = "error" => cbSelf \in alive /\ mHandle[cbSelf] = cbHandle)
                  /\ \A h \in Handles \ {cbHandle} : flags'[h] = flags[h]
<1>1. ASSUME IInv, CallbackReturns, cb \in ErrorCallbacks PROVE P
  <2>1. cbHandle \in mem /\ cbSelf # NULL
    BY <1>1 DEF IInv, PhaseExact, MemorySafe
  <2>2. StillOwned => cbSelf \in alive /\ mHandle[cbSelf] = cbHandle
    BY <1>1, <2>1 DEF StillOwned, IInv, OwnersAgree
  <2>3. cb' = "error" => StillOwned
    BY <1>1 DEF CallbackReturns
  <2>4. ASSUME NEW h \in Handles \ {cbHandle} PROVE flags'[h] = flags[h]
    <3>1. CASE StillOwned /\ DoClose(cbSelf)
      BY <1>1, <2>2, <2>4, <3>1 DEF DoClose, IInv, TypeOK
    <3>2. CASE UNCHANGED flags
      BY <3>2
    <3> QED BY <1>1, <3>1, <3>2 DEF CallbackReturns
  <2> QED BY <2>2, <2>3, <2>4
<1>2. IInv /\ [Next]_vars => [P]_vars
  BY <1>1, CallbackSteps
<1> QED BY <1>2, Invariant, PTL DEF Spec, HandlersStayHome
=============================================================================
