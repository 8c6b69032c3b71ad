------------------------- MODULE AsyncNotifier_proofs -------------------------
(***************************************************************************)
(* For any number of notifiers and threads: no wakeup is lost, and Notify  *)
(* reads no freed memory.                                                  *)
(***************************************************************************)
EXTENDS AsyncNotifier, TLAPS

\* A notifier that exists, or that a thread uses, has its handle's memory.
OwnedExact ==
  /\ \A h \in owned : state[h] # "free"
  /\ \A t \in Threads : pc[t] # "idle" => arg[t] \in owned

\* The inductive invariant: of the queues it needs LinkedOnce, so that the
\* scan that starts when fd is reset holds every open handle.
NInv == TypeOK /\ WakeupOnTheWay /\ LinkedOnce /\ OwnedExact

LEMMA NotifyTouchesOwned ==
  ASSUME NInv PROVE NotifyTouchesMemory
BY DEF NInv, OwnedExact, NotifyTouchesMemory, TypeOK

LEMMA NInit == Init => NInv
BY NullAssumption DEF Init, NInv, TypeOK, WakeupOnTheWay, LinkedOnce, OwnedExact

-----------------------------------------------------------------------------
(* The loop thread.                                                        *)

\* Create, Close, Destroy and FinishClose change one handle's state and keep
\* the queues to the open ones.
LEMMA LifeStep ==
  ASSUME NInv, NEW h \in Handles,
         Create(h) \/ Close(h) \/ Destroy(h) \/ FinishClose(h)
  PROVE  NInv'
<1>1. CASE Create(h)
  <2>1. TypeOK'
    BY <1>1 DEF NInv, TypeOK, Create, thrVars
  <2>2. WakeupOnTheWay' /\ LinkedOnce'
    BY <1>1 DEF NInv, TypeOK, Create, thrVars, WakeupOnTheWay, LinkedOnce
  <2>3. OwnedExact'
    BY <1>1 DEF NInv, TypeOK, Create, thrVars, OwnedExact
  <2> QED BY <2>1, <2>2, <2>3 DEF NInv
<1>2. CASE Close(h)
  <2>1. TypeOK'
    BY <1>2 DEF NInv, TypeOK, Close, Unlink, thrVars
  <2>2. WakeupOnTheWay' /\ LinkedOnce'
    BY <1>2 DEF NInv, TypeOK, Close, Unlink, thrVars, WakeupOnTheWay, LinkedOnce
  <2>3. OwnedExact'
    BY <1>2 DEF NInv, TypeOK, Close, thrVars, OwnedExact
  <2> QED BY <2>1, <2>2, <2>3 DEF NInv
<1>3. CASE Destroy(h)
  <2>1. TypeOK'
    BY <1>3 DEF NInv, TypeOK, Destroy, Unlink, thrVars
  <2>2. WakeupOnTheWay' /\ LinkedOnce'
    BY <1>3 DEF NInv, TypeOK, Destroy, Unlink, thrVars, WakeupOnTheWay, LinkedOnce
  <2>3. OwnedExact'
    BY <1>3 DEF NInv, TypeOK, Destroy, InUse, thrVars, OwnedExact
  <2> QED BY <2>1, <2>2, <2>3 DEF NInv
<1>4. CASE FinishClose(h)
  <2>1. TypeOK'
    BY <1>4 DEF NInv, TypeOK, FinishClose, thrVars
  <2>2. WakeupOnTheWay' /\ LinkedOnce'
    BY <1>4 DEF NInv, TypeOK, FinishClose, thrVars, WakeupOnTheWay, LinkedOnce
  <2>3. OwnedExact'
    BY <1>4 DEF NInv, TypeOK, FinishClose, thrVars, OwnedExact
  <2> QED BY <2>1, <2>2, <2>3 DEF NInv
<1> QED BY <1>1, <1>2, <1>3, <1>4

\* uv__async_io: the drained descriptor is made good for by the scan, and the
\* scan lets go of a handle only with pending reset.
LEMMA AsyncIoStep ==
  ASSUME NInv, AsyncIo \/ OnAsyncReturns \/ \E h \in Handles : ScanNext(h)
  PROVE  NInv'
<1>1. CASE AsyncIo
  <2>1. TypeOK' /\ OwnedExact'
    BY <1>1 DEF NInv, TypeOK, OwnedExact, AsyncIo, thrVars
  <2>2. LinkedOnce'
    BY <1>1 DEF NInv, LinkedOnce, AsyncIo
  <2>3. WakeupOnTheWay'
    BY <1>1 DEF NInv, LinkedOnce, WakeupOnTheWay, AsyncIo
  <2> QED BY <2>1, <2>2, <2>3 DEF NInv
<1>2. CASE OnAsyncReturns
  BY <1>2 DEF NInv, TypeOK, OwnedExact, LinkedOnce, WakeupOnTheWay, OnAsyncReturns, thrVars
<1>3. ASSUME NEW h \in Handles, ScanNext(h) PROVE NInv'
  <2>1. TypeOK'
    BY <1>3 DEF NInv, TypeOK, ScanNext, thrVars
  <2>2. OwnedExact'
    BY <1>3 DEF NInv, OwnedExact, ScanNext, thrVars
  <2>3. LinkedOnce'
    BY <1>3 DEF NInv, LinkedOnce, ScanNext
  <2>4. WakeupOnTheWay'
    BY <1>3 DEF NInv, WakeupOnTheWay, ScanNext, thrVars
  <2> QED BY <2>1, <2>2, <2>3, <2>4 DEF NInv
<1> QED BY <1>1, <1>2, <1>3

-----------------------------------------------------------------------------
(* A thread.                                                               *)

\* A thread that leaves pending set behind it goes on to write.
LEMMA ThreadStep ==
  ASSUME NInv, NEW t \in Threads,
         Notify(t) \/ \E h \in Handles : Post(t, h)
  PROVE  NInv'
<1>1. /\ UNCHANGED loopVars
      /\ \A u \in Threads \ {t} : pc'[u] = pc[u] /\ arg'[u] = arg[u]
      /\ DOMAIN pc' = Threads /\ DOMAIN arg' = Threads
  BY DEF Notify, Post, Check, CheapRead, Swap, Write, Goto, NInv, TypeOK
<1>2. \/ pc'[t] = "idle" /\ arg'[t] = NULL
      \/ pc'[t] \in {"check", "read", "swap", "write"} /\ arg'[t] \in owned
  BY DEF Notify, Post, Check, CheapRead, Swap, Write, Goto, NInv, TypeOK, OwnedExact
<1>3. fd' \in BOOLEAN /\ pending' \subseteq Handles /\ posted' \subseteq Handles
  BY DEF Notify, Post, Check, CheapRead, Swap, Write, NInv, TypeOK
<1>4. TypeOK'
  <2>1. pc' = [u \in Threads |-> pc'[u]] /\ arg' = [u \in Threads |-> arg'[u]]
    BY DEF Notify, Post, Check, CheapRead, Swap, Write, Goto, NInv, TypeOK
  <2>2. \A u \in Threads : /\ pc'[u] \in {"idle", "check", "read", "swap", "write"}
                           /\ arg'[u] \in Handles \cup {NULL}
                           /\ pc'[u] = "idle" <=> arg'[u] = NULL
    BY <1>1, <1>2, NullAssumption DEF NInv, TypeOK, OwnedExact
  <2> QED BY <1>1, <1>3, <2>1, <2>2 DEF NInv, TypeOK, loopVars
<1>5. LinkedOnce' /\ OwnedExact'
  BY <1>1, <1>2 DEF NInv, LinkedOnce, OwnedExact, loopVars
<1>6. WakeupOnTheWay'
  <2> SUFFICES ASSUME NEW h \in Handles, state[h] = "open", h \in pending', ~fd', h \notin scan
               PROVE  \E u \in Threads : pc'[u] = "write"
    BY <1>1 DEF WakeupOnTheWay, loopVars
  <2>1. CASE h \in pending
    <3>1. ~fd /\ pc[t] # "write"
      BY DEF Notify, Post, Check, CheapRead, Swap, Write
    <3>2. PICK u \in Threads : pc[u] = "write"
      BY <2>1, <3>1 DEF NInv, WakeupOnTheWay
    <3> QED BY <3>1, <3>2, <1>1
  <2>2. CASE h \notin pending
    <3>1. Swap(t) /\ arg[t] \notin pending
      BY <2>2 DEF Notify, Post, Check, CheapRead, Swap, Write
    <3> QED BY <3>1 DEF Swap, Goto, NInv, TypeOK
  <2> QED BY <2>1, <2>2
<1> QED BY <1>4, <1>5, <1>6 DEF NInv

-----------------------------------------------------------------------------
THEOREM NInvariant == Spec => []NInv
<1>1. NInv /\ [Next]_vars => NInv'
  <2> SUFFICES ASSUME NInv, [Next]_vars PROVE NInv'
    OBVIOUS
  <2>1. CASE LoopThread
    BY <2>1, LifeStep, AsyncIoStep DEF LoopThread
  <2>2. CASE \E t \in Threads : Notify(t) \/ \E h \in Handles : Post(t, h)
    BY <2>2, ThreadStep
  <2>3. CASE UNCHANGED vars
    BY <2>3 DEF NInv, TypeOK, WakeupOnTheWay, LinkedOnce, OwnedExact, vars, loopVars, thrVars
  <2> QED BY <2>1, <2>2, <2>3 DEF Next
<1> QED BY NInit, <1>1, PTL DEF Spec

\* No Notify relies on a wakeup that is not there, for any number of threads
\* and notifiers: uv_async_send's early return is justified.
THEOREM NoLostWakeup == Spec => []WakeupOnTheWay
<1>1. NInv => WakeupOnTheWay
  BY DEF NInv
<1> QED BY NInvariant, <1>1, PTL

\* Notify of a wrapper that exists reads allocated memory, also while the loop
\* thread closes the handle: a wrapper keeps its handle until it is destroyed.
THEOREM NotifyIsMemorySafe == Spec => []NotifyTouchesMemory
BY NInvariant, NotifyTouchesOwned, PTL

\* uv__async_io's walk survives the closes and creations of its callbacks.
THEOREM QueuesExact == Spec => []LinkedOnce
<1>1. NInv => LinkedOnce
  BY DEF NInv
<1> QED BY NInvariant, <1>1, PTL
=============================================================================
