----------------------------- MODULE AsyncHandle -----------------------------
(***************************************************************************)
(* Moe.UV wraps every libuv handle in a movable C++ object, AsyncHandle.   *)
(* The wrapper owns the handle's memory until libuv does; handle->data     *)
(* points back to the wrapper or is null.  This module is the protocol     *)
(* between the wrappers, the handles and the event loop's closing list:    *)
(* everything runs on one thread, but user code is re-entered from every   *)
(* callback and may there destroy, move, close or create any wrapper.      *)
(*                                                                         *)
(* A handle is named by its address, and an address that has been freed    *)
(* may be allocated again.                                                 *)
(***************************************************************************)
EXTENDS Integers, Sequences, Functions

CONSTANTS Wrappers,   \* addresses of AsyncHandle objects
          Handles,    \* addresses the pool can give to a uv_handle_t
          NULL        \* nullptr

ASSUME NullAssumption == NULL \notin Wrappers /\ NULL \notin Handles

VARIABLES
  \* libuv's side
  mem,             \* the handles whose memory is allocated
  data,            \* handle->data, untagged
  flags,           \* uv_close progress: "open", "closing", "closed"
  active, ref,     \* handles with UV_HANDLE_ACTIVE, with UV_HANDLE_REF
  queue,           \* loop->handle_queue: the handles the loop knows
  closingHandles,  \* loop->closing_handles, most recently closed first
  batch,           \* the list uv__run_closing_handles still has to finish
  finishing,       \* the handle inside uv__finish_close, or NULL
  \* Moe.UV's side
  alive,           \* constructed wrapper objects
  mHandle,         \* m_pHandle
  mClosed,         \* m_bHandleClosed
  \* control
  phase,           \* where uv_run is; "user" when it is not running
  cb,              \* which user callback is on the stack, "none" if none
  cbHandle, cbSelf \* `handle` and `self` of the callback's frame

uvVars   == <<mem, data, flags, active, ref, queue, closingHandles>>
runVars  == <<batch, finishing, phase>>
objVars  == <<alive, mHandle, mClosed>>
cbVars   == <<cb, cbHandle, cbSelf>>
vars     == <<uvVars, runVars, objVars, cbVars>>

\* Callbacks that the handler returns from to look at the wrapper again: OnWrite
\* or OnSend, to be followed by OnError ("sent"); OnError, to be followed by
\* Close ("error"); and OnError in the try block of the Close, as in
\* Stream::OnUVRead, so that throwing skips it ("readError").
ErrorCallbacks == {"sent", "error", "readError"}

\* the others: one after which the handler does nothing more, and OnClose
UserCallbacks == {"notify", "close"} \cup ErrorCallbacks

Init ==
  /\ mem = {} /\ queue = {} /\ active = {} /\ ref = {}
  /\ data = [h \in Handles |-> NULL]
  /\ flags = [h \in Handles |-> "closed"]
  /\ closingHandles = <<>> /\ batch = <<>> /\ finishing = NULL
  /\ alive = {}
  /\ mHandle = [w \in Wrappers |-> NULL]
  /\ mClosed = [w \in Wrappers |-> TRUE]
  /\ phase = "user" /\ cb = "none" /\ cbHandle = NULL /\ cbSelf = NULL

-----------------------------------------------------------------------------
(* What user code may do, before uv_run or from inside a callback.         *)

InUserCode == phase = "user" \/ cb # "none"

(* A name with an underscore is a faulty variant of the definition after it: *)
(* the bug that a property is there to rule out.                            *)

\* IsClosing that does not ask uv_is_closing.
IsClosing_NoFlag(w) == mHandle[w] = NULL \/ mClosed[w]

IsClosing(w) == mHandle[w] = NULL \/ mClosed[w] \/ flags[mHandle[w]] # "open"

\* What Close() does: uv_close unless w is closing already.
DoClose(w) ==
  IF IsClosing(w) THEN UNCHANGED <<flags, active, closingHandles>>
  ELSE /\ flags' = [flags EXCEPT ![mHandle[w]] = "closing"]
       /\ active' = active \ {mHandle[w]}
       /\ closingHandles' = <<mHandle[w]>> \o closingHandles

\* X::Create: allocate the handle, uv_x_init it, wrap it.  Some uv_x_init
\* start the handle at once (uv_async_init).
Create(w, h, started) ==
  /\ InUserCode /\ w \notin alive /\ h \notin mem
  /\ mem' = mem \cup {h}
  /\ flags' = [flags EXCEPT ![h] = "open"]
  /\ queue' = queue \cup {h}
  /\ ref' = ref \cup {h}
  /\ active' = IF started THEN active \cup {h} ELSE active
  /\ data' = [data EXCEPT ![h] = w]
  /\ alive' = alive \cup {w}
  /\ mHandle' = [mHandle EXCEPT ![w] = h]
  /\ mClosed' = [mClosed EXCEPT ![w] = FALSE]
  /\ UNCHANGED <<closingHandles, runVars, cbVars>>

Start(w) ==
  /\ InUserCode /\ w \in alive /\ ~IsClosing(w)
  /\ active' = active \cup {mHandle[w]}
  /\ UNCHANGED <<mem, data, flags, ref, queue, closingHandles,
                 runVars, objVars, cbVars>>

Stop(w) ==
  /\ InUserCode /\ w \in alive /\ ~IsClosing(w)
  /\ active' = active \ {mHandle[w]}
  /\ UNCHANGED <<mem, data, flags, ref, queue, closingHandles,
                 runVars, objVars, cbVars>>

\* Ref that does not look at IsClosed.
Ref_Unchecked(w) ==
  /\ InUserCode /\ w \in alive
  /\ ref' = ref \cup {mHandle[w]}
  /\ UNCHANGED <<mem, data, flags, active, queue, closingHandles,
                 runVars, objVars, cbVars>>

Ref(w) ==
  /\ InUserCode /\ w \in alive /\ ~mClosed[w]
  /\ ref' = ref \cup {mHandle[w]}
  /\ UNCHANGED <<mem, data, flags, active, queue, closingHandles,
                 runVars, objVars, cbVars>>

Unref(w) ==
  /\ InUserCode /\ w \in alive /\ ~mClosed[w]
  /\ ref' = ref \ {mHandle[w]}
  /\ UNCHANGED <<mem, data, flags, active, queue, closingHandles,
                 runVars, objVars, cbVars>>

Close(w) ==
  /\ InUserCode /\ w \in alive /\ ~IsClosing(w)
  /\ DoClose(w)
  /\ UNCHANGED <<mem, data, ref, queue, runVars, objVars, cbVars>>

\* A destructor that closes the handle and frees it at once.
DestroyOpen_FreesNow(w) ==
  /\ InUserCode /\ w \in alive /\ ~mClosed[w]
  /\ DoClose(w)
  /\ mem' = mem \ {mHandle[w]}
  /\ data' = [data EXCEPT ![mHandle[w]] = NULL]
  /\ mHandle' = [mHandle EXCEPT ![w] = NULL]
  /\ mClosed' = [mClosed EXCEPT ![w] = TRUE]
  /\ alive' = alive \ {w}
  /\ UNCHANGED <<ref, queue, runVars, cbVars>>

\* A destructor that lets go of the handle without closing it.
DestroyOpen_NoClose(w) ==
  /\ InUserCode /\ w \in alive /\ ~mClosed[w]
  /\ data' = [data EXCEPT ![mHandle[w]] = NULL]
  /\ mHandle' = [mHandle EXCEPT ![w] = NULL]
  /\ mClosed' = [mClosed EXCEPT ![w] = TRUE]
  /\ alive' = alive \ {w}
  /\ UNCHANGED <<mem, flags, active, closingHandles, ref, queue, runVars, cbVars>>

\* ~AsyncHandle of a handle libuv still holds: close it and leave the memory
\* to OnUVClose.
DestroyOpen(w) ==
  /\ InUserCode /\ w \in alive /\ ~mClosed[w]
  /\ DoClose(w)
  /\ data' = [data EXCEPT ![mHandle[w]] = NULL]
  /\ mHandle' = [mHandle EXCEPT ![w] = NULL]
  /\ mClosed' = [mClosed EXCEPT ![w] = TRUE]
  /\ alive' = alive \ {w}
  /\ UNCHANGED <<mem, ref, queue, runVars, cbVars>>

\* A destructor that does not look at m_bHandleClosed.
DestroyClosed_AnyTime(w) ==
  /\ InUserCode /\ w \in alive
  /\ mem' = mem \ {mHandle[w]}
  /\ data' = [h \in Handles |-> IF h = mHandle[w] THEN NULL ELSE data[h]]
  /\ mHandle' = [mHandle EXCEPT ![w] = NULL]
  /\ alive' = alive \ {w}
  /\ UNCHANGED <<flags, active, ref, queue, closingHandles, mClosed,
                 runVars, cbVars>>

\* ~AsyncHandle once the handle is closed, or was moved away: m_pHandle's own
\* destructor frees the memory, if there is any.
DestroyClosed(w) ==
  /\ InUserCode /\ w \in alive /\ mClosed[w]
  /\ mem' = mem \ {mHandle[w]}
  /\ data' = [h \in Handles |-> IF h = mHandle[w] THEN NULL ELSE data[h]]
  /\ mHandle' = [mHandle EXCEPT ![w] = NULL]
  /\ alive' = alive \ {w}
  /\ UNCHANGED <<flags, active, ref, queue, closingHandles, mClosed,
                 runVars, cbVars>>

\* A move that leaves handle->data pointing to the old wrapper.
MoveConstruct_KeepsData(w, org) ==
  /\ InUserCode /\ w \notin alive /\ org \in alive
  /\ alive' = alive \cup {w}
  /\ mHandle' = [mHandle EXCEPT ![w] = mHandle[org], ![org] = NULL]
  /\ mClosed' = [mClosed EXCEPT ![w] = mClosed[org], ![org] = TRUE]
  /\ UNCHANGED <<mem, data, flags, active, ref, queue, closingHandles,
                 runVars, cbVars>>

\* A move that leaves the new wrapper's m_bHandleClosed at its default.
MoveConstruct_ForgetsOpen(w, org) ==
  /\ InUserCode /\ w \notin alive /\ org \in alive
  /\ alive' = alive \cup {w}
  /\ mHandle' = [mHandle EXCEPT ![w] = mHandle[org], ![org] = NULL]
  /\ mClosed' = [mClosed EXCEPT ![w] = TRUE, ![org] = TRUE]
  /\ data' = [h \in Handles |-> IF h = mHandle[org] THEN w ELSE data[h]]
  /\ UNCHANGED <<mem, flags, active, ref, queue, closingHandles,
                 runVars, cbVars>>

\* AsyncHandle(AsyncHandle&&)
MoveConstruct(w, org) ==
  /\ InUserCode /\ w \notin alive /\ org \in alive
  /\ alive' = alive \cup {w}
  /\ mHandle' = [mHandle EXCEPT ![w] = mHandle[org], ![org] = NULL]
  /\ mClosed' = [mClosed EXCEPT ![w] = mClosed[org], ![org] = TRUE]
  /\ data' = [h \in Handles |-> IF h = mHandle[org] THEN w ELSE data[h]]
  /\ UNCHANGED <<mem, flags, active, ref, queue, closingHandles,
                 runVars, cbVars>>

\* A move assignment that does not close the old handle.
MoveAssign_NoClose(w, org) ==
  LET old  == mHandle[w]
      took == IF org = w THEN NULL ELSE mHandle[org]
  IN /\ InUserCode /\ w \in alive /\ org \in alive
     /\ data' = [h \in Handles |-> IF h = took THEN w
                                   ELSE IF h = old THEN NULL ELSE data[h]]
     /\ mHandle' = [mHandle EXCEPT ![org] = NULL, ![w] = took]
     /\ mClosed' = [mClosed EXCEPT ![w] = mClosed[org], ![org] = TRUE]
     /\ UNCHANGED <<mem, flags, active, closingHandles, ref, queue, alive, runVars, cbVars>>

\* operator=(AsyncHandle&&): the old handle is closed and let go of, whether
\* or not libuv still holds it; org may be w itself, and has by then nothing
\* left to give.
MoveAssign(w, org) ==
  LET old  == mHandle[w]
      took == IF org = w THEN NULL ELSE mHandle[org]
  IN /\ InUserCode /\ w \in alive /\ org \in alive
     /\ DoClose(w)
     /\ data' = [h \in Handles |-> IF h = took THEN w
                                   ELSE IF h = old THEN NULL ELSE data[h]]
     /\ mHandle' = [mHandle EXCEPT ![org] = NULL, ![w] = took]
     /\ mClosed' = [mClosed EXCEPT ![w] = mClosed[org], ![org] = TRUE]
     /\ UNCHANGED <<mem, ref, queue, alive, runVars, cbVars>>

-----------------------------------------------------------------------------
(* uv_run: an iteration delivers events, then finishes the closing handles; *)
(* UV_RUN_ONCE delivers timers once more.                                   *)

Idle == cb = "none" /\ finishing = NULL

EnterRun ==
  /\ phase = "user"
  /\ phase' = "events"
  /\ UNCHANGED <<uvVars, batch, finishing, objVars, cbVars>>

\* A libuv callback on h, for the handle itself or for a request on it, reaches
\* its OnUV* handler; an expired timer or a finished stream has been stopped
\* before.  The handler gets self from handle->data and calls the user's
\* function.  A handle that one callback of an event closes may still get the
\* event's remaining callbacks: uv__write_callbacks goes on to the end.
Event(h, kind) ==
  /\ phase \in {"events", "timers"} /\ Idle
  /\ h \in queue /\ flags[h] # "closed"
  /\ data[h] # NULL
  /\ active' \in {active, active \ {h}}
  /\ cb' = kind /\ cbHandle' = h /\ cbSelf' = data[h]
  /\ UNCHANGED <<mem, data, flags, ref, queue, closingHandles, runVars, objVars>>

\* A loop that finishes one handle, the latest, per iteration.
RunClosingHandles_OneOnly ==
  /\ phase = "events" /\ Idle
  /\ phase' = "closing"
  /\ IF closingHandles = <<>> THEN UNCHANGED <<batch, closingHandles>>
     ELSE batch' = <<Head(closingHandles)>> /\ closingHandles' = Tail(closingHandles)
  /\ UNCHANGED <<mem, data, flags, active, ref, queue, finishing,
                 objVars, cbVars>>

\* uv__run_closing_handles takes the whole list before it finishes any of it.
RunClosingHandles ==
  /\ phase = "events" /\ Idle
  /\ phase' = "closing"
  /\ batch' = closingHandles
  /\ closingHandles' = <<>>
  /\ UNCHANGED <<mem, data, flags, active, ref, queue, finishing,
                 objVars, cbVars>>

\* uv__finish_close, up to the requests it cancels.
FinishClose ==
  /\ phase = "closing" /\ Idle /\ batch # <<>>
  /\ finishing' = Head(batch)
  /\ batch' = Tail(batch)
  /\ flags' = [flags EXCEPT ![Head(batch)] = "closed"]
  /\ UNCHANGED <<mem, data, active, ref, queue, closingHandles, phase,
                 objVars, cbVars>>

\* uv__stream_destroy and uv__udp_finish_close call back every request that
\* is still pending with UV_ECANCELED, while the handle is half closed.
CancelRequest(kind) ==
  /\ finishing # NULL /\ cb = "none"
  /\ data[finishing] # NULL
  /\ cb' = kind /\ cbHandle' = finishing /\ cbSelf' = data[finishing]
  /\ UNCHANGED <<uvVars, runVars, objVars>>

\* OnUVClose that returns early when there is no wrapper.
CloseOrphan_Leaks ==
  /\ finishing # NULL /\ cb = "none"
  /\ data[finishing] = NULL
  /\ ref' = ref \ {finishing}
  /\ queue' = queue \ {finishing}
  /\ finishing' = NULL
  /\ UNCHANGED <<mem, data, flags, active, closingHandles, batch, phase,
                 objVars, cbVars>>

\* The rest of uv__finish_close and OnUVClose of a handle without a wrapper.
CloseOrphan ==
  /\ finishing # NULL /\ cb = "none"
  /\ data[finishing] = NULL
  /\ ref' = ref \ {finishing}
  /\ queue' = queue \ {finishing}
  /\ mem' = mem \ {finishing}
  /\ finishing' = NULL
  /\ UNCHANGED <<data, flags, active, closingHandles, batch, phase,
                 objVars, cbVars>>

\* OnUVClose that does not set m_bHandleClosed.
CloseOwned_NotMarked ==
  /\ finishing # NULL /\ cb = "none"
  /\ data[finishing] # NULL
  /\ ref' = ref \ {finishing}
  /\ queue' = queue \ {finishing}
  /\ cb' = "close" /\ cbHandle' = finishing /\ cbSelf' = data[finishing]
  /\ finishing' = NULL
  /\ UNCHANGED <<mem, data, flags, active, closingHandles, batch, phase,
                 alive, mHandle, mClosed>>

\* OnUVClose that frees the handle although a wrapper owns it.
CloseOwned_Frees ==
  /\ finishing # NULL /\ cb = "none"
  /\ data[finishing] # NULL
  /\ ref' = ref \ {finishing}
  /\ queue' = queue \ {finishing}
  /\ mem' = mem \ {finishing}
  /\ mClosed' = [mClosed EXCEPT ![data[finishing]] = TRUE]
  /\ cb' = "close" /\ cbHandle' = finishing /\ cbSelf' = data[finishing]
  /\ finishing' = NULL
  /\ UNCHANGED <<data, flags, active, closingHandles, batch, phase,
                 alive, mHandle>>

\* The rest of uv__finish_close and OnUVClose of a handle with a wrapper,
\* which leads to the user's OnClose.
CloseOwned ==
  /\ finishing # NULL /\ cb = "none"
  /\ data[finishing] # NULL
  /\ ref' = ref \ {finishing}
  /\ queue' = queue \ {finishing}
  /\ mClosed' = [mClosed EXCEPT ![data[finishing]] = TRUE]
  /\ cb' = "close" /\ cbHandle' = finishing /\ cbSelf' = data[finishing]
  /\ finishing' = NULL
  /\ UNCHANGED <<mem, data, flags, active, closingHandles, batch, phase,
                 alive, mHandle>>

\* GetSelf(handle) == self
StillOwned == data[cbHandle] = cbSelf

\* A handler that asks whether self is usable, not whether it is still the
\* owner of the handle that failed.
CallbackReturns_AnyHandle ==
  /\ cb # "none"
  /\ \/ cb \in {"error", "readError"} /\ cbSelf \in alive /\ DoClose(cbSelf)
     \/ (cb = "error" => cbSelf \notin alive) /\ UNCHANGED <<flags, active, closingHandles>>
  /\ IF cb = "sent" /\ StillOwned
     THEN cb' = "error" /\ UNCHANGED <<cbHandle, cbSelf>>
     ELSE cb' = "none" /\ cbHandle' = NULL /\ cbSelf' = NULL
  /\ UNCHANGED <<mem, data, ref, queue, runVars, objVars>>

\* The user's function returns or throws; the handler catches everything.
\* After an error, and only if the wrapper is still the handle's owner, the
\* handler goes on to OnError and finally closes the handle, which only a
\* throwing OnError in OnUVRead prevents.
CallbackReturns ==
  /\ cb # "none"
  /\ \/ cb \in {"error", "readError"} /\ StillOwned /\ DoClose(cbSelf)
     \/ (cb = "error" => ~StillOwned) /\ UNCHANGED <<flags, active, closingHandles>>
  /\ IF cb = "sent" /\ StillOwned
     THEN cb' = "error" /\ UNCHANGED <<cbHandle, cbSelf>>
     ELSE cb' = "none" /\ cbHandle' = NULL /\ cbSelf' = NULL
  /\ UNCHANGED <<mem, data, ref, queue, runVars, objVars>>

\* UV_RUN_DEFAULT goes round, UV_RUN_ONCE runs the timers, UV_RUN_NOWAIT
\* leaves.
EndIteration ==
  /\ phase = "closing" /\ Idle /\ batch = <<>>
  /\ phase' \in {"events", "timers", "user"}
  /\ UNCHANGED <<uvVars, batch, finishing, objVars, cbVars>>

LeaveRun ==
  /\ phase = "timers" /\ Idle
  /\ phase' = "user"
  /\ UNCHANGED <<uvVars, batch, finishing, objVars, cbVars>>

-----------------------------------------------------------------------------
UserStep ==
  \/ \E w \in Wrappers, h \in Handles, s \in BOOLEAN : Create(w, h, s)
  \/ \E w \in Wrappers : \/ Start(w) \/ Stop(w) \/ Ref(w) \/ Unref(w)
                         \/ Close(w) \/ DestroyOpen(w) \/ DestroyClosed(w)
  \/ \E w, org \in Wrappers : MoveConstruct(w, org) \/ MoveAssign(w, org)

LoopStep ==
  \/ EnterRun \/ RunClosingHandles \/ FinishClose
  \/ CloseOrphan \/ CloseOwned \/ CallbackReturns \/ EndIteration \/ LeaveRun

EventStep ==
  \/ \E h \in Handles, k \in {"notify"} \cup ErrorCallbacks : Event(h, k)
  \/ \E k \in {"notify", "sent", "error"} : CancelRequest(k)

Next == UserStep \/ LoopStep \/ EventStep

Spec == Init /\ [][Next]_vars

\* The application keeps driving the loop with Run or RunOnce, callbacks
\* return, and the events of one iteration and the pending requests of one
\* handle are finitely many.
FairSpec ==
  /\ Spec
  /\ WF_vars(EnterRun) /\ WF_vars(CallbackReturns)
  /\ SF_vars(RunClosingHandles) /\ WF_vars(FinishClose)
  /\ SF_vars(CloseOrphan \/ CloseOwned)
  /\ WF_vars(EndIteration) /\ SF_vars(LeaveRun)

-----------------------------------------------------------------------------
TypeOK ==
  /\ mem \subseteq Handles /\ queue \subseteq Handles
  /\ active \subseteq Handles /\ ref \subseteq Handles
  /\ data \in [Handles -> Wrappers \cup {NULL}]
  /\ flags \in [Handles -> {"open", "closing", "closed"}]
  /\ closingHandles \in Seq(Handles) /\ batch \in Seq(Handles)
  /\ finishing \in Handles \cup {NULL}
  /\ alive \subseteq Wrappers
  /\ mHandle \in [Wrappers -> Handles \cup {NULL}]
  /\ mClosed \in [Wrappers -> BOOLEAN]
  /\ phase \in {"user", "events", "closing", "timers"}
  /\ cb \in UserCallbacks \cup {"none"}
  /\ cbHandle \in Handles \cup {NULL} /\ cbSelf \in Wrappers \cup {NULL}

\* Handles a frame of libuv or of a Moe.UV handler will still dereference:
\* uv__finish_close its handle, an error handler the one whose data it
\* compares with self.  OnUVClose never looks back after OnClose.
OnStack == {finishing} \cup (IF cb \in ErrorCallbacks THEN {cbHandle} ELSE {})

\* No use after free: what the loop, its closing list, or a frame on the stack
\* still refers to is allocated memory.
MemorySafe ==
  /\ queue \cup Range(closingHandles) \cup Range(batch) \subseteq mem
  /\ OnStack \ {NULL} \subseteq mem

\* handle->data and m_pHandle are inverse to each other: the GetSelf that
\* every handler starts with yields a constructed wrapper that owns this very
\* handle, and no handle has two owners.
OwnersAgree ==
  /\ \A h \in mem : data[h] # NULL => data[h] \in alive /\ mHandle[data[h]] = h
  /\ \A w \in alive : mHandle[w] # NULL => mHandle[w] \in mem /\ data[mHandle[w]] = w

\* The assertion in MOE_UV_GET_SELF, at all times: a handle known to the loop
\* that no wrapper owns is being closed.  (Otherwise nobody could close it, and
\* UVClosingHandleWalker would take it for another library's.)
OrphanIsClosing ==
  \A h \in queue : data[h] = NULL => flags[h] # "open"

\* uv_close happens once per handle, and a handle between uv_close and its
\* close callback is waiting in exactly one place.
ClosingOnce ==
  /\ IsInjective(closingHandles) /\ IsInjective(batch)
  /\ Range(closingHandles) \cap Range(batch) = {}
  /\ \A h \in mem :
       flags[h] = "closing" <=> h \in Range(closingHandles) \cup Range(batch)

\* IsClosed() is true exactly when libuv is done with the wrapper's handle,
\* which is when the destructor may free the memory itself.
ClosedMeansReleased ==
  \A w \in alive : mClosed[w] <=> mHandle[w] = NULL \/ mHandle[w] \notin queue

\* Memory is given back only after uv_close has completed.
FreedOnlyAfterClose ==
  [][\A h \in mem \ mem' : h \notin queue' /\ flags[h] = "closed"]_vars

\* OnClose runs on a constructed wrapper whose own handle has just left the
\* loop.
OnCloseReachesOwner ==
  [][cb # "close" /\ cb' = "close" =>
       /\ cbSelf' \in alive /\ mHandle[cbSelf'] = cbHandle'
       /\ ~mClosed[cbSelf'] /\ mClosed'[cbSelf']]_vars

\* What a handler does once an error callback has returned concerns the handle
\* that failed, and a wrapper that owns it: the callback may have moved it to
\* another wrapper, destroyed self, or built another handle's wrapper where self
\* was, and still no other handle is closed and no OnError comes to the wrong one.
HandlersStayHome ==
  [][cb' # cb /\ cb \in ErrorCallbacks =>
       /\ (cb' = "error" => cbSelf \in alive /\ mHandle[cbSelf] = cbHandle)
       /\ \A h \in Handles \ {cbHandle} : flags'[h] = flags[h]]_vars

\* Every close completes, however much is created and closed meanwhile.
CloseCompletes ==
  \A h \in Handles : flags[h] = "closing" ~> flags[h] = "closed"

\* The memory of a handle whose wrapper is gone is eventually given back.
OrphanIsFreed ==
  \A h \in Handles : (h \in queue /\ data[h] = NULL) ~> h \notin mem

\* "libuv still has the ownership, so the memory is released later": whatever
\* no wrapper owns any more is still in libuv's hands.
NoLeak == \A h \in mem : data[h] = NULL => h \in queue

-----------------------------------------------------------------------------
\* Where a handle is in its life: until uv__finish_close unlinks it, a handle
\* with uv_close called is closing.
Life == [h \in Handles |-> IF h \notin mem          THEN "free"
                           ELSE IF h \notin queue   THEN "closed"
                           ELSE IF flags[h] = "open" THEN "open"
                           ELSE "closing"]

Lifecycle == INSTANCE HandleLifecycle WITH life <- Life, owner <- data

\* Every step of wrappers and loop is, on each handle, a step of the life
\* HandleLifecycle allows: no close is skipped or repeated, no memory freed
\* early, no open handle without an owner.
LifecycleSpec == Lifecycle!Spec
=============================================================================
