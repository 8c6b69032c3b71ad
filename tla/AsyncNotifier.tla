---------------------------- MODULE AsyncNotifier ----------------------------
(***************************************************************************)
(* AsyncNotifier: Notify may be called from any thread and makes the loop   *)
(* thread call OnAsync.  Beneath it are uv_async_send, which coalesces      *)
(* calls in handle->pending and wakes the loop through one descriptor that  *)
(* all async handles share, and uv__async_io, which drains the descriptor   *)
(* and then looks at every handle.  The loop thread may meanwhile close and *)
(* destroy notifiers.                                                       *)
(*                                                                         *)
(* A notifier is named by the address of its uv_async_t; moves are the     *)
(* subject of AsyncHandle.  That no thread uses a wrapper while it is being *)
(* destroyed is left to the application (InUse guards Destroy).            *)
(***************************************************************************)
CONSTANTS Handles,  \* addresses the pool can give to a uv_async_t
          Threads,  \* the threads that call Notify
          NULL

ASSUME NullAssumption == NULL \notin Handles

VARIABLES
  state,         \* of the uv_async_t: "free", "open", "closing", "closed"
  owned,         \* handles whose AsyncNotifier exists
  pending,       \* handles with pending = 1
  fd,            \* the loop's descriptor is readable
  asyncHandles,  \* loop->async_handles, its order abstracted
  scan,          \* the local queue uv__async_io still has to look at
  cb,            \* the handle whose OnAsync runs, or NULL
  posted,        \* handles for which a thread has left the user something to do
  pc,            \* a thread: "idle", or before a step of Notify
  arg            \* the handle a thread notifies

loopVars == <<state, owned, asyncHandles, scan, cb>>
thrVars  == <<pc, arg>>
vars     == <<loopVars, thrVars, pending, fd, posted>>

Init ==
  /\ state = [h \in Handles |-> "free"] /\ owned = {}
  /\ pending = {} /\ fd = FALSE
  /\ asyncHandles = {} /\ scan = {} /\ cb = NULL
  /\ posted = {}
  /\ pc = [t \in Threads |-> "idle"] /\ arg = [t \in Threads |-> NULL]

-----------------------------------------------------------------------------
(* The loop thread.                                                        *)

InUserCode == cb # NULL \/ scan = {}

InUse(h) == \E t \in Threads : arg[t] = h

\* AsyncNotifier::Create; uv_async_init starts the handle.
Create(h) ==
  /\ InUserCode /\ state[h] = "free"
  /\ state' = [state EXCEPT ![h] = "open"]
  /\ owned' = owned \cup {h}
  /\ pending' = pending \ {h}
  /\ asyncHandles' = asyncHandles \cup {h}
  /\ posted' = posted \ {h}
  /\ UNCHANGED <<fd, scan, cb, thrVars>>

(* A name with an underscore is a faulty variant of the definition after it. *)

\* A close during uv__async_io that misses its local queue.
Unlink_NotScan(h) == asyncHandles' = asyncHandles \ {h} /\ UNCHANGED scan

\* uv__async_close takes the handle out of whichever queue it is in.
Unlink(h) == /\ asyncHandles' = asyncHandles \ {h}
             /\ scan' = scan \ {h}

Close(h) ==
  /\ InUserCode /\ h \in owned /\ state[h] = "open"
  /\ state' = [state EXCEPT ![h] = "closing"]
  /\ Unlink(h)
  /\ UNCHANGED <<owned, pending, fd, cb, posted, thrVars>>

\* ~AsyncHandle: a handle libuv still holds is closed and freed by OnUVClose,
\* a closed one is freed here.
Destroy(h) ==
  /\ InUserCode /\ h \in owned /\ ~InUse(h)
  /\ owned' = owned \ {h}
  /\ state' = [state EXCEPT ![h] = IF @ = "closed" THEN "free" ELSE "closing"]
  /\ Unlink(h)
  /\ UNCHANGED <<pending, fd, cb, posted, thrVars>>

\* OnUVClose that frees the handle although its notifier exists.
FinishClose_Frees(h) ==
  /\ scan = {} /\ cb = NULL /\ state[h] = "closing"
  /\ state' = [state EXCEPT ![h] = "free"]
  /\ UNCHANGED <<owned, asyncHandles, scan, cb, pending, fd, posted, thrVars>>

\* uv__finish_close and OnUVClose.
FinishClose(h) ==
  /\ scan = {} /\ cb = NULL /\ state[h] = "closing"
  /\ state' = [state EXCEPT ![h] = IF h \in owned THEN "closed" ELSE "free"]
  /\ UNCHANGED <<owned, asyncHandles, scan, cb, pending, fd, posted, thrVars>>

\* uv__async_io drains the descriptor, then takes the whole queue.
AsyncIo ==
  /\ scan = {} /\ cb = NULL /\ fd
  /\ fd' = FALSE
  /\ scan' = asyncHandles /\ asyncHandles' = {}
  /\ UNCHANGED <<state, owned, cb, pending, posted, thrVars>>

\* The descriptor is drained after the handles have been looked at.
ScanNext_ThenDrain(h) ==
  /\ h \in scan /\ cb = NULL
  /\ scan' = scan \ {h} /\ asyncHandles' = asyncHandles \cup {h}
  /\ pending' = pending \ {h}
  /\ IF h \in pending THEN cb' = h /\ posted' = posted \ {h}
                      ELSE UNCHANGED <<cb, posted>>
  /\ fd' = (fd /\ scan # {h})
  /\ UNCHANGED <<state, owned, thrVars>>

\* The next handle of the queue: cmpxchgi(&h->pending, 1, 0), and if it was
\* pending OnUVAsync.  The user's function starts by picking up what is posted.
ScanNext(h) ==
  /\ h \in scan /\ cb = NULL
  /\ scan' = scan \ {h} /\ asyncHandles' = asyncHandles \cup {h}
  /\ pending' = pending \ {h}
  /\ IF h \in pending THEN cb' = h /\ posted' = posted \ {h}
                      ELSE UNCHANGED <<cb, posted>>
  /\ UNCHANGED <<state, owned, fd, thrVars>>

\* pending is reset only when the callback has returned.
OnAsyncReturns_Resets ==
  /\ cb # NULL
  /\ cb' = NULL /\ pending' = pending \ {cb}
  /\ UNCHANGED <<state, owned, asyncHandles, scan, fd, posted, thrVars>>

OnAsyncReturns ==
  /\ cb # NULL
  /\ cb' = NULL
  /\ UNCHANGED <<state, owned, asyncHandles, scan, pending, fd, posted, thrVars>>

-----------------------------------------------------------------------------
(* Thread t.                                                               *)

\* It leaves something for OnAsync and calls Notify.
Post(t, h) ==
  /\ pc[t] = "idle" /\ h \in owned
  /\ posted' = posted \cup {h}
  /\ pc' = [pc EXCEPT ![t] = "check"] /\ arg' = [arg EXCEPT ![t] = h]
  /\ UNCHANGED <<loopVars, pending, fd>>

Goto(t, to) ==
  /\ pc' = [pc EXCEPT ![t] = to]
  /\ arg' = IF to = "idle" THEN [arg EXCEPT ![t] = NULL] ELSE arg

\* MOE_UV_GET_HANDLE: throw if IsClosing.  It reads m_bHandleClosed and then
\* the handle's flags, without synchronisation; the flags decide, because they
\* still say "closing" when m_bHandleClosed is set.
Check(t) ==
  /\ pc[t] = "check"
  /\ Goto(t, IF state[arg[t]] = "open" THEN "read" ELSE "idle")
  /\ UNCHANGED <<loopVars, pending, fd, posted>>

\* uv_async_send: "Do a cheap read first."
CheapRead(t) ==
  /\ pc[t] = "read"
  /\ Goto(t, IF arg[t] \in pending THEN "idle" ELSE "swap")
  /\ UNCHANGED <<loopVars, pending, fd, posted>>

\* cmpxchgi(&handle->pending, 0, 1)
Swap(t) ==
  /\ pc[t] = "swap"
  /\ Goto(t, IF arg[t] \in pending THEN "idle" ELSE "write")
  /\ pending' = pending \cup {arg[t]}
  /\ UNCHANGED <<loopVars, fd, posted>>

\* uv__async_send writes to the descriptor; one that is full is readable.
Write(t) ==
  /\ pc[t] = "write"
  /\ fd' = TRUE
  /\ Goto(t, "idle")
  /\ UNCHANGED <<loopVars, pending, posted>>

Notify(t) == Check(t) \/ CheapRead(t) \/ Swap(t) \/ Write(t)

LoopThread == \/ \E h \in Handles : \/ Create(h) \/ Close(h) \/ Destroy(h)
                                    \/ FinishClose(h) \/ ScanNext(h)
              \/ AsyncIo \/ OnAsyncReturns

Next == \/ LoopThread
        \/ \E t \in Threads : Notify(t) \/ \E h \in Handles : Post(t, h)

Spec == Init /\ [][Next]_vars

\* The loop keeps running, OnAsync returns, and every thread is scheduled.
FairSpec == /\ Spec
            /\ WF_vars(AsyncIo) /\ WF_vars(OnAsyncReturns)
            /\ WF_vars(\E h \in Handles : ScanNext(h))
            /\ \A t \in Threads : WF_vars(Notify(t))

-----------------------------------------------------------------------------
TypeOK ==
  /\ state \in [Handles -> {"free", "open", "closing", "closed"}]
  /\ owned \subseteq Handles /\ pending \subseteq Handles /\ posted \subseteq Handles
  /\ fd \in BOOLEAN
  /\ asyncHandles \subseteq Handles /\ scan \subseteq Handles
  /\ cb \in Handles \cup {NULL}
  /\ pc \in [Threads -> {"idle", "check", "read", "swap", "write"}]
  /\ arg \in [Threads -> Handles \cup {NULL}]
  /\ \A t \in Threads : pc[t] = "idle" <=> arg[t] = NULL

\* No wakeup is lost: as long as a handle is open and pending, so that every
\* further Notify returns early, the loop has yet to look at it or there is,
\* or is about to be, something to wake it.
WakeupOnTheWay ==
  \A h \in Handles : state[h] = "open" /\ h \in pending =>
     \/ fd
     \/ \E t \in Threads : pc[t] = "write"
     \/ h \in scan

\* What Notify reads and swaps is allocated memory, also when the loop thread
\* closes the handle, completely, in the middle of it.
NotifyTouchesMemory ==
  \A t \in Threads : pc[t] # "idle" => state[arg[t]] # "free"

\* An open handle is in exactly one of the two queues, and no other handle is
\* in any: uv__async_io calls back only handles that are open, and misses none,
\* whatever its callbacks close and create.
LinkedOnce ==
  /\ asyncHandles \cap scan = {}
  /\ \A h \in Handles : state[h] = "open" <=> h \in asyncHandles \cup scan

\* Whatever is posted before Notify is picked up by OnAsync, however Notify
\* and the loop overlap, unless the notifier is closed first.
PostedIsPickedUp ==
  \A h \in Handles :
     h \in posted /\ state[h] = "open" ~> h \notin posted \/ state[h] # "open"
=============================================================================
