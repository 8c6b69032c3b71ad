---------------------------- MODULE Socket_proofs ----------------------------
(***************************************************************************)
(* Proofs about sockets.  Whatever Socket does is, on the variables of     *)
(* AsyncHandle, a step of AsyncHandle, so that its invariant IInv holds.   *)
(* Invariants are added to it, each from the ones before:                  *)
(*   SInv   requests are answered once, and in order;                      *)
(*   TInv   types, and what the loop polls;                                *)
(*   WInv   a request that is queued is one the loop will look at;         *)
(*   FInv   and only a stream is asked to shut down.                       *)
(***************************************************************************)
EXTENDS Socket, AsyncHandle_proofs

-----------------------------------------------------------------------------
(* Sockets are handles.                                                    *)

\* A callback that ends a request is a callback of AsyncHandle.
LEMMA DeliverStep ==
  ASSUME NEW h \in Handles, NEW r, NEW k \in {"notify", "sent", "error"}, Deliver(h, r, k)
  PROVE  UNCHANGED vars \/ EventStep
<1>1. CASE UNCHANGED vars
  BY <1>1
<1>2. CASE Event(h, k)
  BY <1>2 DEF EventStep, ErrorCallbacks
<1>3. CASE CancelRequest(k)
  BY <1>3 DEF EventStep, ErrorCallbacks
<1> QED BY <1>1, <1>2, <1>3 DEF Deliver

\* A call is a call of AsyncHandle, or leaves the handles alone.
LEMMA SocketCallStep ==
  ASSUME SocketCall
  PROVE  UNCHANGED vars \/ UserStep
<1>1. CASE \E w \in Wrappers, h \in Handles, k \in {"tcp", "pipe", "udp"} : CreateSocket(w, h, k)
  <2>1. PICK w \in Wrappers, h \in Handles : Create(w, h, FALSE)
    BY <1>1 DEF CreateSocket
  <2> QED BY <2>1 DEF UserStep
<1>2. CASE HandleCall
  BY <1>2 DEF HandleCall, UserStep
<1>3. CASE \E w \in Wrappers, r \in Requests, b \in BOOLEAN :
             Write(w, r, b) \/ ConnectTcp(w, r, b) \/ ConnectPipe(w, r, b)
  <2>1. PICK w \in Wrappers, r \in Requests, b \in BOOLEAN :
          Write(w, r, b) \/ ConnectTcp(w, r, b) \/ ConnectPipe(w, r, b)
    BY <1>3
  <2>2. CASE Write(w, r, b)
    BY <2>2 DEF Write
  <2>3. CASE ConnectTcp(w, r, b)
    BY <2>3 DEF ConnectTcp
  <2>4. CASE ConnectPipe(w, r, b)
    BY <2>4 DEF ConnectPipe
  <2> QED BY <2>1, <2>2, <2>3, <2>4
<1>4. CASE \E w \in Wrappers, r \in Requests : Shutdown(w, r)
  BY <1>4 DEF Shutdown
<1>5. CASE \E w \in Wrappers : \/ TryWrite(w) \/ OpenDescriptor(w) \/ ConnectTcpThrows(w)
                               \/ StartRead(w) \/ StopRead(w)
  BY <1>5 DEF TryWrite, OpenDescriptor, ConnectTcpThrows, StartRead, StopRead
<1> QED BY <1>1, <1>2, <1>3, <1>4, <1>5 DEF SocketCall

\* A callback is a callback of AsyncHandle, or leaves the handles alone.
LEMMA SocketEventStep ==
  ASSUME TypeOK, SocketEvent
  PROVE  UNCHANGED vars \/ EventStep
<1>1. CASE \E h \in Handles, rd, wr \in BOOLEAN : Serve(h, rd, wr)
  BY <1>1 DEF Serve
<1>2. CASE \E h \in Handles, err \in BOOLEAN : StreamConnect(h, err)
  <2>1. PICK h \in Handles, err \in BOOLEAN : StreamConnect(h, err)
    BY <1>2
  <2> QED BY <2>1, DeliverStep DEF StreamConnect
<1>3. CASE \E h \in Handles : ServeClosed(h) \/ StillConnecting(h)
  BY <1>3 DEF ServeClosed, StillConnecting
<1>4. CASE \E h \in Handles : WriteCallback(h)
  <2>1. PICK h \in Handles : WriteCallback(h)
    BY <1>4
  <2> QED BY <2>1, DeliverStep DEF WriteCallback
<1>5. CASE \E k \in {"notify", "error", "readError"},
              next \in {"read", "eof", "stopRead", "readDone"} : Read(k, next)
  <2>1. PICK k \in {"notify", "error", "readError"},
             next \in {"read", "eof", "stopRead", "readDone"} : Read(k, next)
    BY <1>5
  <2>2. io \in Handles
    BY <2>1 DEF Read, Event, TypeOK
  <2> QED BY <2>1, <2>2 DEF Read, EventStep, ErrorCallbacks
<1>6. CASE \E err \in BOOLEAN : Drain(err)
  <2>1. PICK err \in BOOLEAN : Drain(err)
    BY <1>6
  <2>2. CASE UNCHANGED vars
    BY <2>2
  <2>3. CASE ~UNCHANGED vars
    <3>1. PICK k \in {"notify", "error"} : Deliver(io, shutdownReq[io], k)
      BY <2>1, <2>3 DEF Drain
    <3>2. io \in Handles
      BY <3>1, <2>3 DEF Deliver, Event, CancelRequest, TypeOK
    <3> QED BY <3>1, <3>2, DeliverStep
  <2> QED BY <2>2, <2>3
<1>7. CASE ConnectFailed \/ EndRead \/ Transmit \/ CancelWrites
  BY <1>7 DEF ConnectFailed, EndRead, Transmit, CancelWrites
<1>8. CASE CancelConnect
  <2>1. PICK k \in {"notify", "error"} : Deliver(finishing, connectReq[finishing], k)
    BY <1>8 DEF CancelConnect
  <2>2. finishing \in Handles
    BY <1>8 DEF TypeOK, CancelConnect
  <2> QED BY <2>1, <2>2, DeliverStep
<1>9. CASE CancelShutdown
  <2>1. PICK k \in {"notify", "error"} : Deliver(finishing, shutdownReq[finishing], k)
    BY <1>9 DEF CancelShutdown
  <2>2. finishing \in Handles
    BY <1>9 DEF TypeOK, CancelShutdown
  <2> QED BY <2>1, <2>2, DeliverStep
<1> QED BY <1>1, <1>2, <1>3, <1>4, <1>5, <1>6, <1>7, <1>8, <1>9 DEF SocketEvent

\* Every step of a socket is a step of AsyncHandle or leaves it alone.
LEMMA HandleSteps ==
  ASSUME TypeOK, [SockNext]_allVars
  PROVE  [Next]_vars
<1>1. CASE SocketCall
  BY <1>1, SocketCallStep DEF Next
<1>2. CASE SocketEvent
  BY <1>2, SocketEventStep DEF Next
<1>3. CASE ReturnCallback \/ EndClose \/ RunStep
  BY <1>3 DEF ReturnCallback, EndClose, RunStep, Next, LoopStep
<1>4. CASE UNCHANGED allVars
  BY <1>4 DEF allVars
<1> QED BY <1>1, <1>2, <1>3, <1>4 DEF SockNext

\* So the invariant of AsyncHandle is kept.
LEMMA HandlesKept == ASSUME IInv, [SockNext]_allVars PROVE IInv'
BY HandleSteps, StepInvariant DEF IInv

\* Whatever is done with sockets, the loop, its closing lists and the handlers
\* refer to allocated handles only, and GetSelf finds their owners.
THEOREM SocketsAreHandles == SockSpec => Spec
<1>1. SockInit => Init /\ IInv
  BY InitInvariant DEF SockInit
<1>2. IInv /\ [SockNext]_allVars => [Next]_vars /\ IInv'
  BY HandleSteps, HandlesKept DEF IInv
<1> QED BY <1>1, <1>2, PTL DEF SockSpec, Spec

-----------------------------------------------------------------------------
(* Requests.                                                               *)

ReqTypes ==
  /\ connectReq \in [Handles -> Requests \cup {NULL}]
  /\ shutdownReq \in [Handles -> Requests \cup {NULL}]
  /\ writeQueue \in [Handles -> Seq(Requests)] /\ completed \in [Handles -> Seq(Requests)]
  /\ reqs \subseteq Requests /\ lost \subseteq Requests
  /\ held \in Requests \cup {NULL} /\ io \in Handles \cup {NULL}

\* Only a handler on the stack owns a request.
HeldExact == cb = "none" => held = NULL

\* The requests of one handle are in different places.
Apart(h) == /\ IsInjective(Unanswered(h))
            /\ connectReq[h] # NULL => connectReq[h] # shutdownReq[h]
            /\ {connectReq[h], shutdownReq[h]} \cap Range(Unanswered(h)) = {}

\* The invariant, with AsyncHandle's.
Requested == ReqTypes /\ HeldExact /\ RequestsInOnePlace
SInv == IInv /\ Requested

\* A handle a step does not concern.
SameRequests(g) == /\ connectReq'[g] = connectReq[g] /\ shutdownReq'[g] = shutdownReq[g]
                   /\ writeQueue'[g] = writeQueue[g] /\ completed'[g] = completed[g]

\* The requests of a handle are a matter of its own variables.
LEMMA SameRequestsOf ==
  ASSUME NEW g \in Handles, SameRequests(g)
  PROVE  RequestsOf(g)' = RequestsOf(g) /\ (Apart(g)' <=> Apart(g))
BY DEF SameRequests, RequestsOf, Unanswered, Apart

\* RequestsInOnePlace in two parts: where the requests are, and that these are
\* all the requests there are.
Places ==
  /\ \A h \in Handles :
       /\ Apart(h)
       /\ RequestsOf(h) # {} => h \in queue
       /\ NULL \notin RequestsOf(h)
       /\ held \notin RequestsOf(h) /\ RequestsOf(h) \cap lost = {}
       /\ \A g \in Handles \ {h} : RequestsOf(g) \cap RequestsOf(h) = {}
  /\ held \notin lost

Accounted ==
  \A r \in Requests :
    r \in reqs <=> (\E h \in Handles : r \in RequestsOf(h)) \/ r \in lost \/ r = held

\* NULL is no request.
LEMMA NeverNull == \A h \in Handles : NULL \notin RequestsOf(h)
BY DEF RequestsOf

\* RequestsInOnePlace is the two parts together.
LEMMA OnePlace ==
  ASSUME RequestsInOnePlace
  PROVE  Places /\ Accounted
BY NeverNull DEF RequestsInOnePlace, Apart, Places, Accounted

\* ... also after a step.
LEMMA OnePlaceNext ==
  ASSUME Places', Accounted'
  PROVE  RequestsInOnePlace'
BY DEF RequestsInOnePlace, Apart, Places, Accounted

\* A step that moves requests of h, if any, from one place to another.
LEMMA RequestsMoved ==
  ASSUME RequestsInOnePlace, NEW h \in Handles,
         \A g \in Handles \ {h} : SameRequests(g),
         Apart(h)', RequestsOf(h)' = RequestsOf(h),
         \A g \in Handles : g \in queue /\ RequestsOf(g)' # {} => g \in queue',
         UNCHANGED <<reqs, held, lost>>
  PROVE  RequestsInOnePlace'
<1>1. Places /\ Accounted
  BY OnePlace
<1>2. \A g \in Handles : RequestsOf(g)' = RequestsOf(g) /\ Apart(g)'
  BY <1>1, SameRequestsOf DEF Places
<1>3. Places'
  BY <1>1, <1>2 DEF Places
<1>4. Accounted'
  BY <1>1, <1>2 DEF Accounted
<1> QED BY <1>3, <1>4, OnePlaceNext

\* A new request r, of an open handle, in the place of old if there is one.
LEMMA RequestTaken ==
  ASSUME RequestsInOnePlace, NEW h \in Handles, NEW r \in Requests, r \notin reqs,
         NEW old \in RequestsOf(h) \cup {NULL},
         \A g \in Handles \ {h} : SameRequests(g),
         Apart(h)', RequestsOf(h)' = (RequestsOf(h) \ {old}) \cup {r},
         lost' = lost \cup ({old} \ {NULL}),
         h \in queue, UNCHANGED <<queue, held>>, reqs' = reqs \cup {r}
  PROVE  RequestsInOnePlace'
<1>1. Places /\ Accounted
  BY OnePlace
<1>2. \A g \in Handles \ {h} : RequestsOf(g)' = RequestsOf(g) /\ Apart(g)'
  BY <1>1, SameRequestsOf DEF Places
<1>3. r \notin lost /\ r # held /\ r # NULL /\ \A g \in Handles : r \notin RequestsOf(g)
  BY <1>1, RequestsAssumption DEF Accounted
<1>4. Places'
  BY <1>1, <1>2, <1>3 DEF Places
<1>5. Accounted'
  <2> SUFFICES ASSUME NEW q \in Requests
               PROVE  q \in reqs' <=> (\E g \in Handles : q \in RequestsOf(g)') \/ q \in lost' \/ q = held'
    BY DEF Accounted
  <2>1. (\E g \in Handles : q \in RequestsOf(g)') \/ q \in lost'
        <=> (\E g \in Handles : q \in RequestsOf(g)) \/ q \in lost \/ q = r
    BY <1>2, RequestsAssumption
  <2> QED BY <2>1, <1>1 DEF Accounted
<1> QED BY <1>4, <1>5, OnePlaceNext

\* The answer to r, which its handler frees or goes on to hold.
LEMMA RequestAnswered ==
  ASSUME RequestsInOnePlace, NEW h \in Handles, NEW r \in RequestsOf(h), held = NULL,
         \A g \in Handles \ {h} : SameRequests(g),
         Apart(h)', RequestsOf(h)' = RequestsOf(h) \ {r},
         UNCHANGED <<queue, lost>>,
         \/ held' = r /\ reqs' = reqs
         \/ held' = NULL /\ reqs' = reqs \ {r}
  PROVE  RequestsInOnePlace'
<1>1. Places /\ Accounted
  BY OnePlace
<1>2. \A g \in Handles \ {h} : RequestsOf(g)' = RequestsOf(g) /\ Apart(g)'
  BY <1>1, SameRequestsOf DEF Places
<1>3. r \notin lost /\ r # NULL /\ NULL \notin lost /\ \A g \in Handles \ {h} : r \notin RequestsOf(g)
  BY <1>1 DEF Places
<1>4. Places'
  BY <1>1, <1>2, <1>3 DEF Places
<1>5. Accounted'
  <2> SUFFICES ASSUME NEW q \in Requests
               PROVE  q \in reqs' <=> (\E g \in Handles : q \in RequestsOf(g)') \/ q \in lost' \/ q = held'
    BY DEF Accounted
  <2>1. (\E g \in Handles : q \in RequestsOf(g)') <=> q # r /\ \E g \in Handles : q \in RequestsOf(g)
    BY <1>2, <1>3
  <2>2. q # NULL /\ (q \in reqs <=> (\E g \in Handles : q \in RequestsOf(g)) \/ q \in lost)
    BY <1>1, RequestsAssumption DEF Accounted
  <2> QED BY <2>1, <2>2, <1>3
<1> QED BY <1>4, <1>5, OnePlaceNext

\* The handler has returned, and what it held is freed.
LEMMA RequestFreed ==
  ASSUME RequestsInOnePlace, reqs \subseteq Requests, lost \subseteq Requests,
         UNCHANGED <<connectReq, shutdownReq, writeQueue, completed, queue, lost>>,
         held' = NULL, reqs' = reqs \ {held}
  PROVE  RequestsInOnePlace'
<1>1. Places /\ Accounted
  BY OnePlace
<1>2. \A g \in Handles : RequestsOf(g)' = RequestsOf(g) /\ Apart(g)'
  BY <1>1, SameRequestsOf DEF Places, SameRequests
<1>3. Places'
  BY <1>1, <1>2, RequestsAssumption DEF Places
<1>4. Accounted'
  BY <1>1, <1>2, RequestsAssumption DEF Accounted, Places
<1> QED BY <1>3, <1>4, OnePlaceNext

\* uv_close, and libuv's own steps.
LEMMA RequestsAlone ==
  ASSUME RequestsInOnePlace, UNCHANGED <<connectReq, shutdownReq, writeQueue, completed, reqs, held, lost>>,
         \A g \in Handles : g \in queue /\ RequestsOf(g) # {} => g \in queue'
  PROVE  RequestsInOnePlace'
<1>1. Places /\ Accounted
  BY OnePlace
<1>2. \A g \in Handles : SameRequests(g)
  BY DEF SameRequests
<1>3. \A g \in Handles : RequestsOf(g)' = RequestsOf(g) /\ Apart(g)'
  BY <1>1, <1>2, SameRequestsOf DEF Places
<1>4. Places'
  BY <1>1, <1>3 DEF Places
<1>5. Accounted'
  BY <1>1, <1>3 DEF Accounted
<1> QED BY <1>4, <1>5, OnePlaceNext

-----------------------------------------------------------------------------
(* One lemma per action that moves, makes or ends a request.               *)

\* The queues hold requests, and nothing else.
LEMMA RequestTypes ==
  ASSUME ReqTypes, NEW h \in Handles
  PROVE  /\ Unanswered(h) \in Seq(Requests) /\ RequestsOf(h) \subseteq Requests
         /\ completed[h] \in Seq(Requests) /\ writeQueue[h] \in Seq(Requests)
         /\ NULL \notin Range(Unanswered(h))
<1>1. completed[h] \in Seq(Requests) /\ writeQueue[h] \in Seq(Requests)
  BY DEF ReqTypes
<1>2. Unanswered(h) \in Seq(Requests)
  BY <1>1, ConcatProperties DEF Unanswered
<1>3. Range(Unanswered(h)) \subseteq Requests
  BY <1>2, RangeOfSeq
<1>4. RequestsOf(h) \subseteq Requests
  BY <1>3 DEF RequestsOf, ReqTypes
<1> QED BY <1>1, <1>2, <1>3, <1>4, RequestsAssumption

\* MOE_UV_GET_HANDLE gives a handle the loop knows.
LEMMA UsableHandle ==
  ASSUME IInv, NEW w \in Wrappers, Usable(w)
  PROVE  mHandle[w] \in Handles /\ mHandle[w] \in queue
<1>1. w \in alive /\ mHandle[w] # NULL /\ flags[mHandle[w]] = "open"
  BY DEF Usable, IsClosing
<1>2. mHandle[w] \in mem /\ mHandle[w] \in Handles
  BY <1>1 DEF IInv, OwnersAgree, TypeOK
<1> QED BY <1>1, <1>2 DEF IInv, QueueExact

\* A callback that ends a request takes it from its handle and frees it, or
\* leaves it to user code.
LEMMA Delivered ==
  ASSUME Requested, NEW h \in Handles, NEW r \in RequestsOf(h),
         NEW k \in {"notify", "sent", "error"}, Deliver(h, r, k),
         \A g \in Handles \ {h} : SameRequests(g),
         Apart(h)', RequestsOf(h)' = RequestsOf(h) \ {r}
  PROVE  /\ HeldExact' /\ RequestsInOnePlace'
         /\ reqs' \subseteq Requests /\ held' \in Requests \cup {NULL} /\ lost' = lost
<1>1. held = NULL /\ r \in Requests
  BY RequestTypes DEF Deliver, Requested, HeldExact
<1>2. CASE Free(r) /\ UNCHANGED <<vars, held>>
  <2>1. UNCHANGED <<queue, lost>> /\ held' = NULL /\ reqs' = reqs \ {r}
    BY <1>1, <1>2 DEF Deliver, Free, vars, uvVars
  <2>2. RequestsInOnePlace'
    BY <2>1, <1>1, RequestAnswered DEF Requested
  <2> QED BY <2>1, <2>2 DEF HeldExact, Requested, ReqTypes
<1>3. CASE /\ (Event(h, k) \/ CancelRequest(k))
           /\ held' = r /\ UNCHANGED <<reqs, noCopy, failed>>
  <2>1. UNCHANGED <<queue, lost>> /\ cb' = k
    BY <1>3 DEF Deliver, Event, CancelRequest, uvVars
  <2>2. RequestsInOnePlace'
    BY <2>1, <1>1, <1>3, RequestAnswered DEF Requested
  <2>3. HeldExact'
    BY <2>1 DEF HeldExact
  <2> QED BY <2>1, <2>2, <2>3, <1>1, <1>3 DEF Requested, ReqTypes
<1> QED BY <1>2, <1>3 DEF Deliver

\* The steps that leave the requests where they are.
LEMMA Untouched ==
  ASSUME IInv, Requested, UNCHANGED <<connectReq, shutdownReq, writeQueue, completed, reqs, held, lost>>,
         io' \in Handles \cup {NULL},
         cb' = "none" => cb = "none",
         \A g \in Handles : g \in queue /\ RequestsOf(g) # {} => g \in queue'
  PROVE  Requested'
<1>1. RequestsInOnePlace'
  BY RequestsAlone DEF Requested
<1>2. ReqTypes' /\ HeldExact'
  BY DEF Requested, ReqTypes, HeldExact
<1> QED BY <1>1, <1>2 DEF Requested

\* A new socket has no request: its address has none either.
LEMMA CreateRequests ==
  ASSUME SInv, NEW w \in Wrappers, NEW h \in Handles, NEW k, CreateSocket(w, h, k)
  PROVE  Requested'
<1>1. UNCHANGED <<connectReq, shutdownReq, writeQueue, completed, reqs, held, lost, io, cb>>
      /\ queue' = queue \cup {h}
  BY DEF CreateSocket, Create, cbVars, reqVars, ioVars
<1> QED BY <1>1, Untouched DEF SInv, Requested, ReqTypes

\* Closing and destroying a socket leaves its requests with its handle.
LEMMA HandleCallRequests ==
  ASSUME SInv, HandleCall
  PROVE  Requested'
<1>1. UNCHANGED <<connectReq, shutdownReq, writeQueue, completed, reqs, held, lost, io>>
  BY DEF HandleCall, reqVars, ioVars, handleVars
<1>2. UNCHANGED <<cb, queue>>
  BY DEF HandleCall, Close, DestroyOpen, DestroyClosed, MoveConstruct, MoveAssign, cbVars
<1> QED BY <1>1, <1>2, Untouched DEF SInv, Requested, ReqTypes

\* A call that uv__stream_io does not see, or that asks for no answer.
LEMMA QuietCallRequests ==
  ASSUME SInv, NEW w \in Wrappers,
         \/ TryWrite(w) \/ OpenDescriptor(w) \/ ConnectTcpThrows(w)
         \/ StartRead(w) \/ StopRead(w)
  PROVE  Requested'
<1>1. UNCHANGED <<connectReq, shutdownReq, writeQueue, completed, reqs, held, lost, io, cb, queue>>
  BY DEF TryWrite, OpenDescriptor, ConnectTcpThrows, StartRead, StopRead,
         handleVars, reqVars, ioVars, vars, uvVars, cbVars
<1> QED BY <1>1, Untouched DEF SInv, Requested, ReqTypes

\* A turn that answers nothing: the poll, and the read callbacks.
LEMMA QuietEventRequests ==
  ASSUME SInv, \/ \E h \in Handles, rd, wr \in BOOLEAN : Serve(h, rd, wr)
               \/ \E h \in Handles : ServeClosed(h) \/ StillConnecting(h)
               \/ \E k \in {"notify", "error", "readError"},
                     next \in {"read", "eof", "stopRead", "readDone"} : Read(k, next)
               \/ EndRead
  PROVE  Requested'
<1>1. UNCHANGED <<connectReq, shutdownReq, writeQueue, completed, reqs, held, lost, queue>>
  BY DEF Serve, ServeClosed, StillConnecting, Read, Event, EndRead,
         handleVars, reqVars, vars, uvVars
<1>2. cb' = "none" => cb = "none"
  BY DEF Serve, ServeClosed, StillConnecting, Read, Event, EndRead, vars, cbVars
<1>3. io' \in Handles \cup {NULL}
  BY DEF Serve, ServeClosed, StillConnecting, Read, EndRead, ioVars, SInv, Requested, ReqTypes
<1> QED BY <1>1, <1>2, <1>3, Untouched DEF SInv

\* The loop's own steps leave requests and handles where they are.
LEMMA RunStepRequests ==
  ASSUME SInv, RunStep
  PROVE  Requested'
<1>1. UNCHANGED <<connectReq, shutdownReq, writeQueue, completed, reqs, held, lost, io>>
  BY DEF RunStep, sockVars, handleVars, reqVars, ioVars
<1>2. UNCHANGED <<cb, queue>>
  BY DEF RunStep, EnterRun, FinishClose, EndIteration, LeaveRun, RunClosingHandles, cbVars, uvVars
<1> QED BY <1>1, <1>2, Untouched DEF SInv, Requested, ReqTypes

\* A handle is freed without requests: uv__stream_destroy and
\* uv__udp_finish_close have cancelled them.
LEMMA EndCloseRequests ==
  ASSUME SInv, EndClose
  PROVE  Requested'
<1>1. UNCHANGED <<connectReq, shutdownReq, writeQueue, completed, reqs, held, lost, io>>
  BY DEF EndClose, sockVars, handleVars, reqVars, ioVars
<1>2. queue' = queue \ {finishing} /\ cb = "none" /\ finishing \in Handles
  BY DEF EndClose, CloseOrphan, CloseOwned, SInv, IInv, TypeOK
<1>3. RequestsOf(finishing) = {}
  <2>1. Unanswered(finishing) = <<>>
    BY DEF EndClose, Unanswered
  <2> QED BY <2>1, EmptyQueue DEF EndClose, RequestsOf
<1> QED BY <1>1, <1>2, <1>3, Untouched DEF SInv, Requested, ReqTypes

\* When user code returns, the request whose callback it was is freed.
LEMMA ReturnRequests ==
  ASSUME SInv, ReturnCallback
  PROVE  Requested'
<1>1. UNCHANGED <<connectReq, shutdownReq, writeQueue, completed, lost, io, queue>>
  BY DEF ReturnCallback, CallbackReturns, handleVars, ioVars
<1>2. CASE cb' = "none"
  <2>1. held' = NULL /\ reqs' = reqs \ {held}
    BY <1>2 DEF ReturnCallback, Free
  <2>2. RequestsInOnePlace'
    BY <2>1, <1>1, RequestFreed DEF SInv, Requested, ReqTypes
  <2> QED BY <2>1, <2>2, <1>1 DEF SInv, Requested, ReqTypes, HeldExact
<1>3. CASE cb' # "none"
  <2>1. UNCHANGED <<reqs, held>>
    BY <1>3 DEF ReturnCallback
  <2> QED BY <2>1, <1>1, <1>3, Untouched DEF SInv, Requested, ReqTypes
<1> QED BY <1>2, <1>3

\* What a step does to the queues of one handle, told by Unanswered alone.
LEMMA TakenAtEnd ==
  ASSUME ReqTypes, RequestsInOnePlace, NEW h \in Handles, NEW r \in Requests, r \notin reqs,
         UNCHANGED <<connectReq, shutdownReq>>,
         Unanswered(h)' = Append(Unanswered(h), r)
  PROVE  Apart(h)' /\ RequestsOf(h)' = RequestsOf(h) \cup {r}
<1>1. Places /\ Accounted /\ Unanswered(h) \in Seq(Requests) /\ RequestsOf(h) \subseteq Requests
  BY OnePlace, RequestTypes
<1>2. r \notin RequestsOf(h) /\ r # NULL
  BY <1>1, RequestsAssumption DEF Accounted
<1>3. /\ Range(Append(Unanswered(h), r)) = Range(Unanswered(h)) \cup {r}
      /\ IsInjective(Append(Unanswered(h), r))
  BY <1>1, <1>2, PutAtEnd DEF Places, Apart, RequestsOf
<1>4. RequestsOf(h)' = RequestsOf(h) \cup {r}
  BY <1>2, <1>3 DEF RequestsOf
<1>5. Apart(h)'
  BY <1>1, <1>2, <1>3 DEF Apart, Places, RequestsOf
<1> QED BY <1>4, <1>5

\* Handed to the kernel, or cancelled: the order of the two queues together is kept.
LEMMA SentKeepsOrder ==
  ASSUME ReqTypes, NEW h \in Handles, NEW q \in Seq(Requests), NEW n \in 0..Len(q), NEW bad,
         Sent(h, q, n, bad)
  PROVE  /\ Unanswered(h)' = completed[h] \o q
         /\ completed' \in [Handles -> Seq(Requests)] /\ writeQueue' \in [Handles -> Seq(Requests)]
         /\ \A g \in Handles \ {h} : completed'[g] = completed[g] /\ writeQueue'[g] = writeQueue[g]
<1>1. completed[h] \in Seq(Requests)
  BY DEF ReqTypes
<1> DEFINE a == completed[h] \o SubSeq(q, 1, n)
           b == SubSeq(q, n + 1, Len(q))
<1>2. a \in Seq(Requests) /\ b \in Seq(Requests) /\ a \o b = completed[h] \o q
  BY <1>1, HandOver, ZenonT(60)
<1>3. completed' = [completed EXCEPT ![h] = a] /\ writeQueue' = [writeQueue EXCEPT ![h] = b]
  BY DEF Sent
<1> HIDE DEF a, b
<1> QED BY <1>2, <1>3 DEF ReqTypes, Unanswered

\* Flush completes the requests of the write queue in their order.
LEMMA FlushKeepsOrder ==
  ASSUME ReqTypes, NEW h \in Handles, Flush(h)
  PROVE  /\ Unanswered(h)' = Unanswered(h)
         /\ completed' \in [Handles -> Seq(Requests)] /\ writeQueue' \in [Handles -> Seq(Requests)]
         /\ \A g \in Handles \ {h} : completed'[g] = completed[g] /\ writeQueue'[g] = writeQueue[g]
<1> DEFINE a == completed[h] \o writeQueue[h]
<1>1. a \in Seq(Requests) /\ a \o <<>> = a
  BY RequestTypes, ConcatEmptySeq DEF Unanswered
<1>2. completed' = [completed EXCEPT ![h] = a] /\ writeQueue' = [writeQueue EXCEPT ![h] = <<>>]
  BY DEF Flush
<1>3. a = Unanswered(h)
  BY DEF Unanswered
<1> HIDE DEF a
<1> QED BY <1>1, <1>2, <1>3, EmptySeq DEF ReqTypes, Unanswered

\* Wherever the call puts it, a new write is behind all others of its socket.
LEMMA WriteGoesLast ==
  ASSUME SInv, NEW w \in Wrappers, NEW r \in Requests, NEW b \in BOOLEAN, Write(w, r, b),
         NEW h \in Handles, h = mHandle[w]
  PROVE  /\ Unanswered(h)' = Append(Unanswered(h), r)
         /\ completed' \in [Handles -> Seq(Requests)] /\ writeQueue' \in [Handles -> Seq(Requests)]
         /\ \A g \in Handles \ {h} : completed'[g] = completed[g] /\ writeQueue'[g] = writeQueue[g]
<1>1. ReqTypes
  BY DEF SInv, Requested
<1> DEFINE q == Append(writeQueue[h], r)
<1>2. /\ completed[h] \in Seq(Requests) /\ writeQueue[h] \in Seq(Requests)
      /\ q \in Seq(Requests) /\ Len(q) \in Nat \ {0}
  BY <1>1, AppendProperties, EmptySeq DEF ReqTypes
<1>3. completed[h] \o q = Append(Unanswered(h), r)
  <2>1. \A c, t \in Seq(Requests) : c \o Append(t, r) = Append(c \o t, r)
    BY QueueBehind
  <2> QED BY <2>1, <1>2 DEF Unanswered
<1>4. /\ Unanswered(h)' = completed[h] \o q
      /\ completed' \in [Handles -> Seq(Requests)] /\ writeQueue' \in [Handles -> Seq(Requests)]
      /\ \A g \in Handles \ {h} : completed'[g] = completed[g] /\ writeQueue'[g] = writeQueue[g]
  <2>1. CASE writeQueue' = [writeQueue EXCEPT ![h] = q] /\ UNCHANGED completed
    <3> HIDE DEF q
    <3> QED BY <2>1, <1>1, <1>2 DEF ReqTypes, Unanswered
  <2>2. CASE \E n \in 0..Len(q), bad \in SUBSET Range(q) : Sent(h, q, n, bad)
    BY <2>2, <1>1, <1>2, SentKeepsOrder
  <2>3. CASE SendFirst(h, q)
    <3>1. PICK n \in {0, 1}, bad \in SUBSET Range(q) : Sent(h, q, n, bad)
      BY <2>3 DEF SendFirst
    <3>2. n \in 0..Len(q)
      BY <1>2
    <3> QED BY <3>1, <3>2, <2>2
  <2>4. CASE SendSome(h, q, TRUE)
    BY <2>4, <2>2 DEF SendSome
  <2> QED BY <2>1, <2>3, <2>4 DEF Write
<1> QED BY <1>3, <1>4

\* uv_write2 and uv__udp_send put the new request last.
LEMMA WriteRequests ==
  ASSUME SInv, NEW w \in Wrappers, NEW r \in Requests, NEW b \in BOOLEAN, Write(w, r, b)
  PROVE  Requested'
<1>1. ReqTypes /\ RequestsInOnePlace
  BY DEF SInv, Requested
<1>2. PICK h \in Handles : h = mHandle[w] /\ h \in queue
  BY UsableHandle DEF SInv, Write
<1>3. /\ r \notin reqs /\ reqs' = reqs \cup {r}
      /\ UNCHANGED <<connectReq, shutdownReq, held, lost, io, queue, cb>>
  BY DEF Write, Allocate, ioVars, vars, uvVars, cbVars
<1>4. /\ Unanswered(h)' = Append(Unanswered(h), r)
      /\ completed' \in [Handles -> Seq(Requests)] /\ writeQueue' \in [Handles -> Seq(Requests)]
      /\ \A g \in Handles \ {h} : completed'[g] = completed[g] /\ writeQueue'[g] = writeQueue[g]
  BY <1>2, WriteGoesLast
<1>5. Apart(h)' /\ RequestsOf(h)' = RequestsOf(h) \cup {r}
  BY <1>1, <1>3, <1>4, TakenAtEnd
<1>6. \A g \in Handles \ {h} : SameRequests(g)
  BY <1>3, <1>4 DEF SameRequests
<1>7. RequestsInOnePlace'
  <2>1. RequestsOf(h)' = (RequestsOf(h) \ {NULL}) \cup {r} /\ lost' = lost \cup ({NULL} \ {NULL})
    BY <1>3, <1>5, NeverNull
  <2> QED BY <2>1, <1>1, <1>2, <1>3, <1>5, <1>6, RequestTaken
<1> QED BY <1>3, <1>4, <1>7 DEF SInv, Requested, ReqTypes, HeldExact

\* uv_shutdown keeps its request apart from the write queue.
LEMMA ShutdownRequests ==
  ASSUME SInv, NEW w \in Wrappers, NEW r \in Requests, Shutdown(w, r)
  PROVE  Requested'
<1>1. ReqTypes /\ RequestsInOnePlace /\ Places /\ Accounted
  BY OnePlace DEF SInv, Requested
<1>2. PICK h \in Handles : h = mHandle[w] /\ h \in queue
  BY UsableHandle DEF SInv, Shutdown
<1>3. /\ r \notin reqs /\ reqs' = reqs \cup {r} /\ shutdownReq[h] = NULL
      /\ shutdownReq' = [shutdownReq EXCEPT ![h] = r]
      /\ UNCHANGED <<connectReq, writeQueue, completed, held, lost, io, queue, cb>>
  BY <1>2 DEF Shutdown, Allocate, ioVars, vars, uvVars, cbVars
<1>4. r # NULL /\ r \notin RequestsOf(h) /\ Unanswered(h)' = Unanswered(h)
  BY <1>1, <1>2, <1>3, RequestsAssumption DEF Accounted, Unanswered
<1>5. \A g \in Handles \ {h} : SameRequests(g)
  BY <1>3 DEF SameRequests
<1>6. shutdownReq'[h] = r
  BY <1>1, <1>2, <1>3 DEF ReqTypes
<1>7. RequestsOf(h)' = RequestsOf(h) \cup {r}
  BY <1>2, <1>3, <1>4, <1>6 DEF RequestsOf
<1>8. Apart(h)'
  BY <1>1, <1>2, <1>3, <1>4, <1>6 DEF Apart, Places, RequestsOf
<1>9. RequestsInOnePlace'
  <2>1. RequestsOf(h)' = (RequestsOf(h) \ {NULL}) \cup {r} /\ lost' = lost \cup ({NULL} \ {NULL})
    BY <1>2, <1>3, <1>7, NeverNull
  <2> QED BY <2>1, <1>1, <1>2, <1>3, <1>5, <1>8, RequestTaken
<1> QED BY <1>3, <1>9 DEF SInv, Requested, ReqTypes, HeldExact

\* A second Pipe::Connect loses the first request.
LEMMA ConnectRequests ==
  ASSUME SInv, NEW w \in Wrappers, NEW r \in Requests, NEW b \in BOOLEAN,
         ConnectTcp(w, r, b) \/ ConnectPipe(w, r, b)
  PROVE  Requested'
<1>1. ReqTypes /\ RequestsInOnePlace /\ Places /\ Accounted
  BY OnePlace DEF SInv, Requested
<1>2. PICK h \in Handles : h = mHandle[w] /\ h \in queue
  BY UsableHandle DEF SInv, ConnectTcp, ConnectPipe
<1> DEFINE old == connectReq[h]
<1>3. /\ r \notin reqs /\ reqs' = reqs \cup {r}
      /\ connectReq' = [connectReq EXCEPT ![h] = r]
      /\ UNCHANGED <<shutdownReq, writeQueue, completed, held, io, queue, cb>>
      /\ lost' = lost \cup ({old} \ {NULL})
  BY <1>2 DEF ConnectTcp, ConnectPipe, Allocate, ioVars, vars, uvVars, cbVars
<1>4. r # NULL /\ r \notin RequestsOf(h) /\ Unanswered(h)' = Unanswered(h)
  BY <1>1, <1>2, <1>3, RequestsAssumption DEF Accounted, Unanswered
<1>5. \A g \in Handles \ {h} : SameRequests(g)
  BY <1>3 DEF SameRequests
<1>6. connectReq'[h] = r /\ old \in RequestsOf(h) \cup {NULL}
  BY <1>1, <1>2, <1>3 DEF ReqTypes, RequestsOf
<1>7. RequestsOf(h)' = (RequestsOf(h) \ {old}) \cup {r} /\ Apart(h)'
  BY <1>1, <1>2, <1>3, <1>4, <1>6 DEF Apart, Places, RequestsOf
<1>8. RequestsInOnePlace'
  BY <1>1, <1>2, <1>3, <1>5, <1>6, <1>7, RequestTaken
<1>9. lost' \subseteq Requests
  BY <1>1, <1>2, <1>3 DEF ReqTypes
<1> QED BY <1>3, <1>8, <1>9 DEF SInv, Requested, ReqTypes, HeldExact

-----------------------------------------------------------------------------
(* The loop's turns.                                                       *)

\* uv__stream_connect ends the connect request, and on failure the writes.
LEMMA StreamConnectRequests ==
  ASSUME SInv, NEW h \in Handles, NEW err \in BOOLEAN, StreamConnect(h, err)
  PROVE  Requested'
<1> DEFINE r == connectReq[h]
<1>1. Requested /\ ReqTypes /\ Places
  BY OnePlace DEF SInv, Requested
<1>2. /\ r # NULL /\ connectReq' = [connectReq EXCEPT ![h] = NULL]
      /\ UNCHANGED <<shutdownReq, writeQueue, completed>> /\ io' \in {io, h}
      /\ \E k \in {"notify", "error"} : Deliver(h, r, k)
  BY DEF StreamConnect, ioVars
<1>3. connectReq'[h] = NULL /\ Unanswered(h)' = Unanswered(h) /\ r \in RequestsOf(h)
  BY <1>1, <1>2 DEF ReqTypes, Unanswered, RequestsOf
<1>4. Apart(h)' /\ RequestsOf(h)' = RequestsOf(h) \ {r}
  BY <1>1, <1>2, <1>3, RequestTypes DEF Places, Apart, RequestsOf
<1>5. \A g \in Handles \ {h} : SameRequests(g)
  BY <1>2 DEF SameRequests
<1>6. /\ HeldExact' /\ RequestsInOnePlace'
      /\ reqs' \subseteq Requests /\ held' \in Requests \cup {NULL} /\ lost' = lost
  BY <1>1, <1>2, <1>3, <1>4, <1>5, Delivered
<1> QED BY <1>1, <1>2, <1>6 DEF Requested, ReqTypes

\* uv__stream_destroy cancels the connect request of a closed stream.
LEMMA CancelConnectRequests ==
  ASSUME SInv, CancelConnect
  PROVE  Requested'
<1>1. Requested /\ ReqTypes /\ Places
  BY OnePlace DEF SInv, Requested
<1>2. PICK h \in Handles : h = finishing
  BY DEF CancelConnect, SInv, IInv, TypeOK
<1> DEFINE r == connectReq[h]
<1>3. /\ r # NULL /\ connectReq' = [connectReq EXCEPT ![h] = NULL]
      /\ UNCHANGED <<shutdownReq, writeQueue, completed, io>>
      /\ \E k \in {"notify", "error"} : Deliver(h, r, k)
  BY <1>2 DEF CancelConnect, ioVars
<1>4. connectReq'[h] = NULL /\ Unanswered(h)' = Unanswered(h) /\ r \in RequestsOf(h)
  BY <1>1, <1>3 DEF ReqTypes, Unanswered, RequestsOf
<1>5. Apart(h)' /\ RequestsOf(h)' = RequestsOf(h) \ {r}
  BY <1>1, <1>3, <1>4, RequestTypes DEF Places, Apart, RequestsOf
<1>6. \A g \in Handles \ {h} : SameRequests(g)
  BY <1>3 DEF SameRequests
<1>7. /\ HeldExact' /\ RequestsInOnePlace'
      /\ reqs' \subseteq Requests /\ held' \in Requests \cup {NULL} /\ lost' = lost
  BY <1>1, <1>3, <1>4, <1>5, <1>6, Delivered
<1> QED BY <1>1, <1>3, <1>7 DEF Requested, ReqTypes

\* uv__drain and uv__stream_destroy answer the shutdown.
LEMMA ShutdownAnswered ==
  ASSUME SInv, NEW h \in Handles, shutdownReq[h] # NULL,
         shutdownReq' = [shutdownReq EXCEPT ![h] = NULL],
         UNCHANGED <<connectReq, writeQueue, completed>>, io' \in Handles \cup {NULL},
         NEW k \in {"notify", "error"}, Deliver(h, shutdownReq[h], k)
  PROVE  Requested'
<1> DEFINE r == shutdownReq[h]
<1>1. Requested /\ ReqTypes /\ Places
  BY OnePlace DEF SInv, Requested
<1>2. shutdownReq'[h] = NULL /\ Unanswered(h)' = Unanswered(h) /\ r \in RequestsOf(h)
  BY <1>1 DEF ReqTypes, Unanswered, RequestsOf
<1>3. Apart(h)' /\ RequestsOf(h)' = RequestsOf(h) \ {r}
  BY <1>1, <1>2, RequestTypes DEF Places, Apart, RequestsOf
<1>4. \A g \in Handles \ {h} : SameRequests(g)
  BY DEF SameRequests
<1>5. /\ HeldExact' /\ RequestsInOnePlace'
      /\ reqs' \subseteq Requests /\ held' \in Requests \cup {NULL} /\ lost' = lost
  BY <1>1, <1>2, <1>3, <1>4, Delivered
<1> QED BY <1>1, <1>5 DEF Requested, ReqTypes

\* uv__stream_destroy cancels the shutdown request of a closed stream.
LEMMA CancelShutdownRequests ==
  ASSUME SInv, CancelShutdown
  PROVE  Requested'
<1>1. finishing \in Handles /\ io' \in Handles \cup {NULL}
  BY DEF CancelShutdown, ioVars, SInv, Requested, ReqTypes, IInv, TypeOK
<1> QED BY <1>1, ShutdownAnswered DEF CancelShutdown

\* uv__drain ends the shutdown request.
LEMMA DrainRequests ==
  ASSUME SInv, NEW err \in BOOLEAN, Drain(err)
  PROVE  Requested'
<1>1. io \in Handles /\ io' = NULL /\ UNCHANGED <<connectReq, writeQueue, completed>>
  BY DEF Drain, SInv, Requested, ReqTypes
<1>2. CASE UNCHANGED <<vars, reqVars, sock, shutdownReq>>
  <2>1. UNCHANGED <<shutdownReq, reqs, held, lost, cb, queue>>
    BY <1>2 DEF vars, reqVars, uvVars, cbVars
  <2> QED BY <1>1, <2>1, Untouched DEF SInv
<1>3. CASE /\ shutdownReq[io] # NULL
           /\ shutdownReq' = [shutdownReq EXCEPT ![io] = NULL]
           /\ Deliver(io, shutdownReq[io], IF err THEN "error" ELSE "notify")
  BY <1>1, <1>3, ShutdownAnswered
<1> QED BY <1>2, <1>3 DEF Drain

\* The queues of h change, but not what is in them: nobody is called.
LEMMA QueuesMoved ==
  ASSUME SInv, NEW h \in Handles, Unanswered(h)' = Unanswered(h),
         completed' \in [Handles -> Seq(Requests)], writeQueue' \in [Handles -> Seq(Requests)],
         \A g \in Handles \ {h} : completed'[g] = completed[g] /\ writeQueue'[g] = writeQueue[g],
         UNCHANGED <<connectReq, shutdownReq, reqs, held, lost, queue, cb>>,
         io' \in Handles \cup {NULL}
  PROVE  Requested'
<1>1. RequestsInOnePlace /\ Places
  BY OnePlace DEF SInv, Requested
<1>2. Apart(h)' /\ RequestsOf(h)' = RequestsOf(h)
  BY <1>1 DEF Places, Apart, RequestsOf
<1>3. \A g \in Handles \ {h} : SameRequests(g)
  BY DEF SameRequests
<1>4. RequestsInOnePlace'
  BY <1>1, <1>2, <1>3, RequestsMoved
<1> QED BY <1>4 DEF SInv, Requested, ReqTypes, HeldExact

\* A connect that fails completes the writes that waited for it.
LEMMA ConnectFailedRequests ==
  ASSUME SInv, ConnectFailed
  PROVE  Requested'
<1>1. PICK h \in Handles : h = io
  BY DEF ConnectFailed, SInv, Requested, ReqTypes
<1>2. /\ UNCHANGED <<connectReq, shutdownReq, reqs, held, lost, queue, cb>>
      /\ io' \in Handles \cup {NULL}
  BY <1>1 DEF ConnectFailed, vars, uvVars, cbVars
<1>3. CASE Flush(h)
  BY <1>2, <1>3, FlushKeepsOrder, QueuesMoved DEF SInv, Requested
<1>4. CASE UNCHANGED <<completed, writeQueue>>
  BY <1>2, <1>4, Untouched DEF SInv
<1> QED BY <1>1, <1>3, <1>4 DEF ConnectFailed

\* A closed socket completes what it has not sent.
LEMMA CancelWritesRequests ==
  ASSUME SInv, CancelWrites
  PROVE  Requested'
<1>1. PICK h \in Handles : h = finishing
  BY DEF CancelWrites, SInv, IInv, TypeOK
<1>2. /\ UNCHANGED <<connectReq, shutdownReq, reqs, held, lost, queue, cb>>
      /\ io' \in Handles \cup {NULL} /\ Flush(h)
  BY <1>1 DEF CancelWrites, vars, uvVars, cbVars, ioVars, SInv, Requested, ReqTypes
<1> QED BY <1>2, FlushKeepsOrder, QueuesMoved DEF SInv, Requested

\* What is sent moves to the completed requests, the rest stays in its order.
LEMMA TransmitRequests ==
  ASSUME SInv, Transmit
  PROVE  Requested'
<1>1. PICK h \in Handles : h = io
  BY DEF Transmit, SInv, Requested, ReqTypes
<1> DEFINE q == writeQueue[h]
<1>2. /\ UNCHANGED <<connectReq, shutdownReq, reqs, held, lost, queue, cb>>
      /\ io' \in Handles \cup {NULL}
  BY <1>1 DEF Transmit, vars, uvVars, cbVars
<1>3. ReqTypes /\ q \in Seq(Requests) /\ completed[h] \o q = Unanswered(h)
  BY DEF SInv, Requested, ReqTypes, Unanswered
<1>4. CASE UNCHANGED <<completed, writeQueue>>
  BY <1>2, <1>4, Untouched DEF SInv
<1>5. CASE Flush(h)
  BY <1>2, <1>3, <1>5, FlushKeepsOrder, QueuesMoved
<1>6. CASE \E n \in 0..Len(q), bad \in SUBSET Range(q) : Sent(h, q, n, bad)
  <2>1. PICK n \in 0..Len(q), bad \in SUBSET Range(q) : Sent(h, q, n, bad)
    BY <1>6
  <2> HIDE DEF q
  <2>2. /\ Unanswered(h)' = completed[h] \o q
        /\ completed' \in [Handles -> Seq(Requests)] /\ writeQueue' \in [Handles -> Seq(Requests)]
        /\ \A g \in Handles \ {h} : completed'[g] = completed[g] /\ writeQueue'[g] = writeQueue[g]
    BY <2>1, <1>3, SentKeepsOrder
  <2> QED BY <2>2, <1>2, <1>3, QueuesMoved
<1>7. CASE q # <<>> /\ (SendFirst(h, q) \/ SendSome(h, q, FALSE))
  <2>1. Len(q) \in Nat \ {0}
    BY <1>3, <1>7, EmptySeq
  <2>2. {0, 1} \subseteq 0..Len(q)
    BY <2>1
  <2> HIDE DEF q
  <2> QED BY <1>6, <1>7, <2>2 DEF SendFirst, SendSome
<1> QED BY <1>1, <1>4, <1>5, <1>7 DEF Transmit

\* uv__write_callbacks and uv__udp_run_completed begin with the oldest.
LEMMA CallbackTakesFirst ==
  ASSUME SInv, NEW h \in Handles, WriteCallback(h)
  PROVE  /\ Unanswered(h) # <<>> /\ Head(Unanswered(h)) = Head(completed[h])
         /\ Unanswered(h)' = Tail(Unanswered(h))
         /\ completed' \in [Handles -> Seq(Requests)]
         /\ \A g \in Handles \ {h} : completed'[g] = completed[g]
<1>1. ReqTypes
  BY DEF SInv, Requested
<1>2. completed[h] # <<>> /\ completed' = [completed EXCEPT ![h] = Tail(@)] /\ UNCHANGED writeQueue
  BY DEF WriteCallback
<1>3. completed[h] \in Seq(Requests) /\ writeQueue[h] \in Seq(Requests)
  BY <1>1, RequestTypes
<1>4. /\ Unanswered(h) # <<>> /\ Head(Unanswered(h)) = Head(completed[h])
      /\ Tail(Unanswered(h)) = Tail(completed[h]) \o writeQueue[h]
  BY <1>2, <1>3, TakeInFront DEF Unanswered
<1>5. Tail(completed[h]) \in Seq(Requests)
  BY <1>2, <1>3, HeadTailProperties
<1>6. Unanswered(h)' = Tail(completed[h]) \o writeQueue[h]
  BY <1>1, <1>2 DEF ReqTypes, Unanswered
<1> QED BY <1>1, <1>2, <1>4, <1>5, <1>6 DEF ReqTypes

\* The oldest of the completed requests is answered.
LEMMA WriteCallbackRequests ==
  ASSUME SInv, NEW h \in Handles, WriteCallback(h)
  PROVE  Requested'
<1> DEFINE r == Head(completed[h])
           u == Unanswered(h)
<1>1. Requested /\ ReqTypes /\ RequestsInOnePlace /\ Places
  BY OnePlace DEF SInv, Requested
<1>2. /\ cb = "none" /\ UNCHANGED <<connectReq, shutdownReq, writeQueue, io>>
      /\ \/ \E k \in {"notify", "sent", "error"} : Deliver(h, r, k)
         \/ Free(r) /\ UNCHANGED <<vars, held, lost>>
  BY DEF WriteCallback, ioVars
<1>3. /\ u # <<>> /\ Head(u) = r /\ Unanswered(h)' = Tail(u)
      /\ completed' \in [Handles -> Seq(Requests)]
      /\ \A g \in Handles \ {h} : completed'[g] = completed[g]
  BY CallbackTakesFirst
<1>4. u \in Seq(Requests) /\ IsInjective(u)
  BY <1>1, RequestTypes DEF Places, Apart
<1> HIDE DEF r, u
<1>5. /\ r \in Range(u) /\ r \in Requests /\ Range(Tail(u)) = Range(u) \ {r} /\ IsInjective(Tail(u))
  BY <1>3, <1>4, TakeHandle
<1>6. r # NULL /\ r \in RequestsOf(h)
  BY <1>5, RequestsAssumption DEF RequestsOf, u
<1>7. Apart(h)' /\ RequestsOf(h)' = RequestsOf(h) \ {r}
  <2>1. Range(Unanswered(h))' = Range(Unanswered(h)) \ {r} /\ IsInjective(Unanswered(h))'
    BY <1>3, <1>5 DEF u
  <2>2. r \in Range(Unanswered(h))
    BY <1>5 DEF u
  <2>3. Apart(h)
    BY <1>1 DEF Places
  <2> QED BY <2>1, <2>2, <2>3, <1>2 DEF Apart, RequestsOf
<1>8. \A g \in Handles \ {h} : SameRequests(g)
  BY <1>2, <1>3 DEF SameRequests
<1>9. /\ HeldExact' /\ RequestsInOnePlace'
      /\ reqs' \subseteq Requests /\ held' \in Requests \cup {NULL} /\ lost' = lost
  <2>1. CASE \E k \in {"notify", "sent", "error"} : Deliver(h, r, k)
    BY <2>1, <1>1, <1>6, <1>7, <1>8, Delivered
  <2>2. CASE Free(r) /\ UNCHANGED <<vars, held, lost>>
    <3>1. UNCHANGED <<queue, lost, cb>> /\ held = NULL /\ held' = NULL /\ reqs' = reqs \ {r}
      BY <2>2, <1>1, <1>2 DEF Free, vars, uvVars, cbVars, Requested, HeldExact
    <3>2. RequestsInOnePlace'
      BY <3>1, <1>1, <1>6, <1>7, <1>8, RequestAnswered
    <3> QED BY <3>1, <3>2, <1>1 DEF HeldExact, ReqTypes
  <2> QED BY <2>1, <2>2, <1>2 DEF r
<1> QED BY <1>1, <1>2, <1>3, <1>9 DEF Requested, ReqTypes

-----------------------------------------------------------------------------
\* SInv holds at the start.
LEMMA SocketsStart == SockInit => SInv
<1> SUFFICES ASSUME SockInit PROVE SInv
  OBVIOUS
<1>1. IInv
  BY InitInvariant DEF SockInit
<1>2. \A h \in Handles : Unanswered(h) = <<>> /\ RequestsOf(h) = {}
  <2> TAKE h \in Handles
  <2>1. Unanswered(h) = <<>>
    BY DEF SockInit, Unanswered
  <2> QED BY <2>1, EmptyQueue DEF SockInit, RequestsOf
<1>3. RequestsInOnePlace
  BY <1>2, EmptyQueue, RequestsAssumption DEF RequestsInOnePlace, SockInit
<1>4. ReqTypes /\ HeldExact
  BY EmptySeq DEF SockInit, ReqTypes, HeldExact
<1> QED BY <1>1, <1>3, <1>4 DEF SInv, Requested

\* SInv is inductive.
LEMMA SocketsGoOn ==
  ASSUME SInv, [SockNext]_allVars
  PROVE  SInv'
<1>1. IInv'
  BY HandlesKept DEF SInv
<1>2. Requested'
  <2>1. CASE SocketCall
    BY <2>1, CreateRequests, HandleCallRequests, QuietCallRequests, WriteRequests,
       ShutdownRequests, ConnectRequests DEF SocketCall
  <2>2. CASE SocketEvent
    BY <2>2, QuietEventRequests, StreamConnectRequests, WriteCallbackRequests, DrainRequests,
       ConnectFailedRequests, TransmitRequests, CancelConnectRequests, CancelWritesRequests,
       CancelShutdownRequests DEF SocketEvent
  <2>3. CASE ReturnCallback \/ EndClose \/ RunStep
    BY <2>3, ReturnRequests, EndCloseRequests, RunStepRequests
  <2>4. CASE UNCHANGED allVars
    <3>1. UNCHANGED <<connectReq, shutdownReq, writeQueue, completed, reqs, held, lost, io, cb, queue>>
      BY <2>4 DEF allVars, sockVars, handleVars, ioVars, reqVars, vars, uvVars, cbVars
    <3> QED BY <3>1, Untouched DEF SInv, Requested, ReqTypes
  <2> QED BY <2>1, <2>2, <2>3, <2>4 DEF SockNext
<1> QED BY <1>1, <1>2 DEF SInv

\* RequestsInOnePlace: whatever the order of writes, connects, shutdowns and
\* closes, in and out of callbacks, each request is answered once.
THEOREM AnsweredOnce == SockSpec => []RequestsInOnePlace
<1>1. SInv => RequestsInOnePlace
  BY DEF SInv, Requested
<1> QED BY <1>1, SocketsStart, SocketsGoOn, PTL DEF SockSpec

-----------------------------------------------------------------------------
(* The order of the answers.                                               *)

\* Only a new handle comes to be open.
LEMMA OnlyNewOpen ==
  ASSUME IInv, IInv', [Next]_vars, NEW h \in Handles, h \in queue', flags'[h] = "open", h \in queue
  PROVE  flags[h] = "open"
<1>1. h \in mem' /\ h \in mem
  BY DEF IInv, MemorySafe
<1>2. CASE UNCHANGED vars
  BY <1>2 DEF vars, uvVars
<1>3. CASE Next
  <2>1. HandleStep(h)
    BY <1>3, UserStepRefines, LoopStepRefines DEF Next
  <2>2. Life'[h] = "open" /\ Life[h] \in {"open", "closing"}
    BY <1>1, LifeIs, LifeIsNext DEF Life
  <2>3. Life[h] = "open"
    BY <2>1, <2>2 DEF HandleStep, Lifecycle!Opens, Lifecycle!Keeps, Lifecycle!StartsClosing,
                      Lifecycle!Completes, Lifecycle!Frees
  <2> QED BY <2>3, LifeIs
<1> QED BY <1>2, <1>3

\* Every other step leaves both queues, or hands over from one to the other.
LEMMA OrderKept ==
  ASSUME SInv, [SockNext]_allVars, NEW h \in Handles
  PROVE  \/ Unanswered(h)' = Unanswered(h)
         \/ \E w \in Wrappers, r \in Requests, b \in BOOLEAN : Write(w, r, b)
         \/ \E g \in Handles : WriteCallback(g)
<1>1. ReqTypes
  BY DEF SInv, Requested
<1>2. CASE UNCHANGED <<completed, writeQueue>>
  BY <1>2 DEF Unanswered
<1>3. ASSUME NEW g \in Handles, Flush(g)
      PROVE  Unanswered(h)' = Unanswered(h)
  BY <1>1, <1>3, FlushKeepsOrder DEF Unanswered
<1>4. CASE ConnectFailed \/ CancelWrites
  <2>1. io \in Handles \cup {NULL} /\ finishing \in Handles \cup {NULL}
    BY <1>1 DEF ReqTypes, SInv, IInv, TypeOK
  <2> QED BY <2>1, <1>2, <1>3, <1>4 DEF ConnectFailed, CancelWrites
<1>5. CASE Transmit
  <2>1. PICK g \in Handles : g = io
    BY <1>1, <1>5 DEF Transmit, ReqTypes
  <2>2. ASSUME NEW n \in 0..Len(writeQueue[g]), NEW bad, Sent(g, writeQueue[g], n, bad)
        PROVE  Unanswered(h)' = Unanswered(h)
    <3>1. writeQueue[g] \in Seq(Requests)
      BY <1>1 DEF ReqTypes
    <3> QED BY <3>1, <1>1, <2>2, SentKeepsOrder DEF Unanswered
  <2>3. writeQueue[g] # <<>> => {0, 1} \subseteq 0..Len(writeQueue[g])
    BY <1>1, EmptySeq DEF ReqTypes
  <2> QED BY <2>1, <2>2, <2>3, <1>2, <1>3, <1>5 DEF Transmit, SendFirst, SendSome
<1>6. CASE SocketCall
  <2>1. CASE \E w \in Wrappers, g \in Handles, k \in {"tcp", "pipe", "udp"} : CreateSocket(w, g, k)
    BY <1>2, <2>1 DEF CreateSocket
  <2>2. CASE HandleCall
    BY <1>2, <2>2 DEF HandleCall, handleVars
  <2>3. CASE \E w \in Wrappers, r \in Requests, b \in BOOLEAN : ConnectTcp(w, r, b)
    BY <1>2, <2>3 DEF ConnectTcp
  <2>4. CASE \E w \in Wrappers, r \in Requests, b \in BOOLEAN : ConnectPipe(w, r, b)
    <3>1. PICK w \in Wrappers, r \in Requests, b \in BOOLEAN : ConnectPipe(w, r, b)
      BY <2>4
    <3> QED BY <3>1, <1>2 DEF ConnectPipe
  <2>5. CASE \E w \in Wrappers, r \in Requests : Shutdown(w, r)
    BY <1>2, <2>5 DEF Shutdown
  <2>6. CASE \E w \in Wrappers : \/ TryWrite(w) \/ OpenDescriptor(w) \/ ConnectTcpThrows(w)
                                 \/ StartRead(w) \/ StopRead(w)
    BY <1>2, <2>6 DEF TryWrite, OpenDescriptor, ConnectTcpThrows, StartRead, StopRead, handleVars
  <2> QED BY <1>6, <2>1, <2>2, <2>3, <2>4, <2>5, <2>6 DEF SocketCall
<1>7. CASE SocketEvent
  BY <1>2, <1>4, <1>5, <1>7 DEF SocketEvent, Serve, StreamConnect, ServeClosed, StillConnecting,
     Read, Drain, EndRead, CancelConnect, CancelShutdown, handleVars
<1>8. CASE ReturnCallback \/ EndClose \/ RunStep \/ UNCHANGED allVars
  BY <1>2, <1>8 DEF ReturnCallback, EndClose, RunStep, allVars, sockVars, handleVars
<1> QED BY <1>6, <1>7, <1>8 DEF SockNext

OpenHandles == {h \in queue : Open(h)}
Pending == [h \in Handles |-> Unanswered(h)]

\* Every step is a step of SendQueue, or leaves the pending requests alone.
LEMMA QueueSteps ==
  ASSUME SInv, SInv', [SockNext]_allVars
  PROVE  [Queues!Next]_(Queues!vars)
<1>1. CASE \E w \in Wrappers, r \in Requests, b \in BOOLEAN : Write(w, r, b)
  <2>1. PICK w \in Wrappers, r \in Requests, b \in BOOLEAN : Write(w, r, b)
    BY <1>1
  <2>2. PICK h \in Handles : h = mHandle[w] /\ h \in queue
    BY <2>1, UsableHandle DEF SInv, Write
  <2>3. UNCHANGED OpenHandles /\ h \in OpenHandles
    BY <2>1, <2>2 DEF Write, vars, uvVars, OpenHandles, Open, Usable, IsClosing
  <2>4. Pending' = [Pending EXCEPT ![h] = Append(@, r)]
    <3>1. /\ Unanswered(h)' = Append(Unanswered(h), r)
          /\ \A g \in Handles \ {h} : completed'[g] = completed[g] /\ writeQueue'[g] = writeQueue[g]
      BY <2>1, <2>2, WriteGoesLast
    <3>2. \A g \in Handles \ {h} : Unanswered(g)' = Unanswered(g)
      BY <3>1 DEF Unanswered
    <3> QED BY <3>1, <3>2 DEF Pending
  <2>5. \A g \in Handles : \A i \in DOMAIN Unanswered(g) : Unanswered(g)[i] # r
    <3>1. ReqTypes /\ Accounted /\ r \notin reqs
      BY <2>1, OnePlace DEF SInv, Requested, Write, Allocate
    <3> TAKE g \in Handles
    <3>2. r \notin RequestsOf(g) /\ r # NULL
      BY <3>1, RequestsAssumption DEF Accounted
    <3> QED BY <3>2 DEF RequestsOf, Range
  <2>6. Queues!Accepts(h)
    <3>1. \A g \in Handles : \A i \in DOMAIN Pending[g] : Pending[g][i] # r
      BY <2>5 DEF Pending
    <3> QED BY <2>1, <2>3, <2>4, <3>1 DEF Queues!Accepts, OpenHandles, Pending
  <2>7. Queues!Accepts(h) \/ Queues!Answers(h)
    BY <2>6
  <2>8. Queues!Next
    BY <2>2, <2>7, ZenonT(60) DEF Queues!Next
  <2> QED BY <2>8
<1>2. CASE \E h \in Handles : WriteCallback(h)
  <2>1. PICK h \in Handles : WriteCallback(h)
    BY <1>2
  <2>2. /\ Unanswered(h) # <<>> /\ Unanswered(h)' = Tail(Unanswered(h))
        /\ \A g \in Handles \ {h} : completed'[g] = completed[g]
    BY <2>1, CallbackTakesFirst
  <2>3. Pending' = [Pending EXCEPT ![h] = Tail(@)]
    <3>1. \A g \in Handles \ {h} : Unanswered(g)' = Unanswered(g)
      BY <2>1, <2>2 DEF Unanswered, WriteCallback
    <3> QED BY <2>2, <3>1 DEF Pending
  <2>4. UNCHANGED OpenHandles
    BY <2>1 DEF WriteCallback, Deliver, Event, CancelRequest, vars, uvVars, OpenHandles, Open
  <2> QED BY <2>2, <2>3, <2>4 DEF Queues!Next, Queues!Answers, OpenHandles, Pending
<1>3. CASE \A h \in Handles : Unanswered(h)' = Unanswered(h)
  <2>1. UNCHANGED Pending
    BY <1>3 DEF Pending
  <2>2. OpenHandles' \subseteq Handles
    BY DEF OpenHandles, SInv, IInv, TypeOK
  <2>3. ASSUME NEW h \in OpenHandles' \ OpenHandles PROVE Pending[h] = <<>>
    <3>1. h \in Handles /\ h \notin queue
      BY <2>2, <2>3, HandleSteps, OnlyNewOpen DEF OpenHandles, Open, SInv, IInv
    <3>2. RequestsOf(h) = {} /\ Unanswered(h) \in Seq(Requests) /\ NULL \notin Range(Unanswered(h))
      BY <3>1, OnePlace, RequestTypes DEF Places, SInv, Requested
    <3>3. Range(Unanswered(h)) = {}
      BY <3>2 DEF RequestsOf
    <3>4. Unanswered(h) = <<>>
      BY <3>2, <3>3, EmptySeq, TakeHandle
    <3> QED BY <3>1, <3>4 DEF Pending
  <2> QED BY <2>1, <2>2, <2>3 DEF Queues!Next, Queues!OpensOrCloses, OpenHandles, Pending
<1> QED BY <1>1, <1>2, <1>3, OrderKept

\* AnsweredInOrder: a socket answers its writes and sends in the order of the
\* calls, each once, and takes none when it is closing.
THEOREM SocketsAnswerInOrder == SockSpec => AnsweredInOrder
<1>1. SockInit => Queues!Init
  <2> SUFFICES ASSUME SockInit PROVE Queues!Init
    OBVIOUS
  <2>1. OpenHandles = {} /\ \A h \in Handles : Unanswered(h) = <<>>
    BY DEF SockInit, Init, OpenHandles, Unanswered
  <2> QED BY <2>1 DEF Queues!Init, OpenHandles
<1>2. SInv /\ SInv' /\ [SockNext]_allVars => [Queues!Next]_(Queues!vars)
  BY QueueSteps
<1> QED BY <1>1, <1>2, SocketsStart, SocketsGoOn, PTL DEF SockSpec, AnsweredInOrder, Queues!Spec

-----------------------------------------------------------------------------
(* Types, and what the loop polls.                                         *)

SockTypes ==
  /\ kind \in [Handles -> {"tcp", "pipe", "udp"}]
  /\ sock \in [Handles -> {"none", "made", "open", "shut"}]
  /\ delayed \subseteq Handles /\ fed \subseteq Handles
  /\ at \in {"none", "read", "eof", "stopRead", "readDone", "write", "completed", "connectFailed"}
  /\ more \in BOOLEAN

NotesExact == noCopy \subseteq reqs /\ failed \subseteq reqs

\* The loop polls open handles only, and serves one only among the events.
PollExact ==
  /\ reading \subseteq OpenHandles /\ pollin \subseteq OpenHandles /\ pollout \subseteq OpenHandles
  /\ io # NULL => phase = "events" /\ io \in queue

TInv == SockTypes /\ NotesExact /\ PollExact

\* What is sent was queued.
LEMMA SentWasQueued ==
  ASSUME NEW h \in Handles, NEW q \in Seq(reqs'), NEW n \in 0..Len(q), NEW bad,
         Sent(h, q, n, bad), failed \subseteq reqs'
  PROVE  failed' \subseteq reqs'
<1> DEFINE a == SubSeq(q, 1, n)
<1>1. a \in Seq(reqs')
  OBVIOUS
<1>2. Range(a) \subseteq reqs'
  BY <1>1, RangeOfSeq
<1> QED BY <1>2 DEF Sent

\* Queued requests are allocated.
LEMMA QueuedIsAllocated ==
  ASSUME Requested, NEW h \in Handles
  PROVE  /\ RequestsOf(h) \subseteq reqs
         /\ completed[h] \in Seq(reqs) /\ writeQueue[h] \in Seq(reqs)
<1>1. ReqTypes /\ Accounted
  BY OnePlace DEF Requested
<1>2. RequestsOf(h) \subseteq reqs
  BY <1>1, RequestTypes DEF Accounted
<1>3. /\ completed[h] \in Seq(Requests) /\ writeQueue[h] \in Seq(Requests)
      /\ NULL \notin Range(Unanswered(h))
  BY <1>1, RequestTypes
<1>4. Range(completed[h]) \subseteq reqs /\ Range(writeQueue[h]) \subseteq reqs
  <2>1. Range(Unanswered(h)) = Range(completed[h]) \cup Range(writeQueue[h])
    BY <1>3, RangeConcatenation DEF Unanswered
  <2> QED BY <2>1, <1>2, <1>3 DEF RequestsOf
<1>5. completed[h] \in Seq(reqs) /\ writeQueue[h] \in Seq(reqs)
  BY <1>3, <1>4, SeqOfRange, SeqMonotonic
<1> QED BY <1>2, <1>5

\* The handles that stay open, of which only a call can take one away.
StayOpen == OpenHandles \subseteq OpenHandles'

\* A socket that closes is polled no longer.
LEMMA CloseDescriptorExact ==
  ASSUME PollExact, CloseDescriptor, queue' = queue, UNCHANGED <<io, phase>>
  PROVE  PollExact'
BY DEF PollExact, CloseDescriptor, OpenHandles, Open

\* A step that closes no handle may poll for open handles.
LEMMA StayOpenExact ==
  ASSUME PollExact, StayOpen,
         reading' \subseteq reading \cup OpenHandles', pollin' \subseteq pollin \cup OpenHandles',
         pollout' \subseteq pollout \cup OpenHandles',
         io' # NULL => phase' = "events" /\ io' \in queue'
  PROVE  PollExact'
BY DEF PollExact, StayOpen

\* Without a change of the flags no handle closes.
LEMMA SameHandlesStayOpen ==
  ASSUME UNCHANGED <<queue, flags>>
  PROVE  OpenHandles' = OpenHandles /\ StayOpen
BY DEF OpenHandles, StayOpen, Open

\* A wrapper that is not closed has an open handle.
LEMMA UsableIsOpen ==
  ASSUME IInv, NEW w \in Wrappers, Usable(w)
  PROVE  mHandle[w] \in OpenHandles
BY UsableHandle DEF Usable, IsClosing, OpenHandles, Open

\* A callback that ends a request closes no handle by itself.
LEMMA DeliverStays ==
  ASSUME NEW h, NEW r, NEW k, Deliver(h, r, k)
  PROVE  /\ UNCHANGED <<queue, flags, phase>>
         /\ NotesExact => NotesExact'
<1>1. UNCHANGED <<queue, flags, phase>>
  BY DEF Deliver, Event, CancelRequest, vars, uvVars, runVars
<1>2. NotesExact => NotesExact'
  BY DEF Deliver, NotesExact, Free
<1> QED BY <1>1, <1>2

\* TInv: a new socket.
LEMMA CreateTypes ==
  ASSUME SInv, TInv, NEW w \in Wrappers, NEW h \in Handles, NEW k \in {"tcp", "pipe", "udp"},
         CreateSocket(w, h, k)
  PROVE  TInv'
<1>1. /\ kind' = [kind EXCEPT ![h] = k] /\ sock' = [sock EXCEPT ![h] = IF k = "udp" THEN "open" ELSE "none"]
      /\ delayed' = delayed \ {h} /\ fed' = fed \ {h} /\ queue' = queue \cup {h}
      /\ flags' = [flags EXCEPT ![h] = "open"]
      /\ UNCHANGED <<at, more, io, noCopy, failed, reqs, reading, pollin, pollout, phase>>
  BY DEF CreateSocket, Create, ioVars, reqVars, runVars
<1>2. SockTypes'
  BY <1>1 DEF TInv, SockTypes
<1>3. StayOpen
  BY <1>1 DEF StayOpen, OpenHandles, Open, SInv, IInv, TypeOK
<1>4. PollExact'
  BY <1>1, <1>3, StayOpenExact DEF TInv, PollExact
<1> QED BY <1>1, <1>2, <1>4 DEF TInv, NotesExact

\* TInv: closing, moving and destroying wrappers.
LEMMA HandleCallTypes ==
  ASSUME SInv, TInv, HandleCall \/ ReturnCallback
  PROVE  TInv'
<1>1. /\ UNCHANGED <<kind, sock, delayed, at, more, io, queue, phase>>
      /\ CloseDescriptor
  BY DEF HandleCall, ReturnCallback, Close, DestroyOpen, DestroyClosed, MoveConstruct, MoveAssign,
         CallbackReturns, handleVars, ioVars, runVars
<1>2. PollExact' /\ SockTypes'
  BY <1>1, CloseDescriptorExact DEF TInv, SockTypes, CloseDescriptor
<1>3. NotesExact'
  <2>1. UNCHANGED <<reqs, noCopy, failed>> \/ Free(held)
    BY DEF HandleCall, ReturnCallback, reqVars
  <2> QED BY <2>1 DEF TInv, NotesExact, Free
<1> QED BY <1>2, <1>3 DEF TInv

\* TInv: connect and shutdown.
LEMMA RequestCallTypes ==
  ASSUME SInv, TInv, NEW w \in Wrappers, NEW r \in Requests, NEW b \in BOOLEAN,
         ConnectTcp(w, r, b) \/ ConnectPipe(w, r, b) \/ Shutdown(w, r)
  PROVE  TInv'
<1>1. PICK h \in OpenHandles : h = mHandle[w] /\ h \in Handles
  BY UsableIsOpen, UsableHandle DEF SInv, ConnectTcp, ConnectPipe, Shutdown
<1>2. /\ UNCHANGED <<vars, kind, at, more, io, failed, reading>>
      /\ pollin' \in {pollin, pollin \cup {h}}
      /\ \/ sock' = sock \/ \E x \in {"open", "made", sock[h]} : sock' = [sock EXCEPT ![h] = x]
      /\ delayed' \in {delayed, delayed \cup {h}, delayed \ {h}} /\ fed' \in {fed, fed \cup {h}}
      /\ pollout' \in {pollout, pollout \cup {h}}
      /\ reqs' = reqs \cup {r} /\ noCopy' \in {noCopy, noCopy \cup {r}}
  BY <1>1 DEF ConnectTcp, ConnectPipe, Shutdown, Allocate, ioVars
<1>3. SockTypes'
  <2>1. sock' \in [Handles -> {"none", "made", "open", "shut"}]
    BY <1>1, <1>2 DEF TInv, SockTypes
  <2> QED BY <2>1, <1>1, <1>2 DEF TInv, SockTypes
<1>4. NotesExact'
  BY <1>2 DEF TInv, NotesExact
<1>5. UNCHANGED <<queue, flags, phase>>
  BY <1>2 DEF vars, uvVars, runVars
<1>6. PollExact'
  BY <1>1, <1>2, <1>5, SameHandlesStayOpen, StayOpenExact DEF TInv, PollExact
<1> QED BY <1>3, <1>4, <1>6 DEF TInv

\* TInv: calls that make no request.
LEMMA QuietCallTypes ==
  ASSUME SInv, TInv, NEW w \in Wrappers,
         \/ TryWrite(w) \/ OpenDescriptor(w) \/ ConnectTcpThrows(w)
         \/ StartRead(w) \/ StopRead(w)
  PROVE  TInv'
<1>1. PICK h \in OpenHandles : h = mHandle[w] /\ h \in Handles
  BY UsableIsOpen, UsableHandle DEF SInv, TryWrite, OpenDescriptor, ConnectTcpThrows, StartRead, StopRead
<1>2. /\ UNCHANGED <<vars, kind, delayed, at, more, io, reqs, noCopy, failed>>
      /\ \/ sock' = sock \/ \E x \in {"open", "made"} : sock' = [sock EXCEPT ![h] = x]
      /\ fed' \in {fed, fed \cup {h}}
      /\ pollout' \subseteq pollout
      /\ reading' \subseteq reading \cup {h} /\ pollin' \subseteq pollin \cup {h}
  BY <1>1 DEF TryWrite, OpenDescriptor, ConnectTcpThrows, StartRead, StopRead, StopReading, ioVars,
              reqVars, handleVars, pollVars
<1>3. SockTypes'
  <2>1. sock' \in [Handles -> {"none", "made", "open", "shut"}]
    BY <1>1, <1>2 DEF TInv, SockTypes
  <2> QED BY <2>1, <1>1, <1>2 DEF TInv, SockTypes
<1>4. NotesExact'
  BY <1>2 DEF TInv, NotesExact
<1>5. UNCHANGED <<queue, flags, phase>>
  BY <1>2 DEF vars, uvVars, runVars
<1>6. PollExact'
  BY <1>1, <1>2, <1>5, SameHandlesStayOpen, StayOpenExact DEF TInv, PollExact
<1> QED BY <1>3, <1>4, <1>6 DEF TInv

\* TInv: write and send.
LEMMA WriteTypes ==
  ASSUME SInv, TInv, NEW w \in Wrappers, NEW r \in Requests, NEW b \in BOOLEAN, Write(w, r, b)
  PROVE  TInv'
<1>1. PICK h \in OpenHandles : h = mHandle[w] /\ h \in Handles
  BY UsableIsOpen, UsableHandle DEF SInv, Write
<1> DEFINE q == Append(writeQueue[h], r)
<1>2. /\ UNCHANGED <<vars, kind, sock, delayed, at, more, io, reading, pollin>>
      /\ reqs' = reqs \cup {r} /\ noCopy' \in {noCopy, noCopy \cup {r}}
  BY DEF Write, Allocate, ioVars
<1>3. q \in Seq(reqs') /\ Len(q) \in Nat \ {0}
  <2>1. writeQueue[h] \in Seq(reqs) /\ reqs \subseteq reqs' /\ r \in reqs'
    BY <1>1, <1>2, QueuedIsAllocated DEF SInv
  <2>2. writeQueue[h] \in Seq(reqs')
    BY <2>1, SeqMonotonic
  <2> QED BY <2>1, <2>2, AppendProperties, EmptySeq
<1> HIDE DEF q
<1>4. /\ failed' \subseteq reqs' /\ fed' \in {fed, fed \cup {h}}
      /\ pollout' \subseteq pollout \cup {h}
  <2>1. CASE UNCHANGED <<failed, fed>> /\ pollout' \subseteq pollout \cup {h}
    BY <2>1, <1>2 DEF TInv, NotesExact
  <2>2. CASE /\ \E n \in 0..Len(q), bad \in SUBSET Range(q) : Sent(h, q, n, bad)
             /\ pollout' \subseteq pollout \cup {h}
    <3>1. PICK n \in 0..Len(q), bad \in SUBSET Range(q) : Sent(h, q, n, bad)
      BY <2>2
    <3>2. failed \subseteq reqs'
      BY <1>2 DEF TInv, NotesExact
    <3> QED BY <3>1, <3>2, <2>2, <1>1, <1>3, SentWasQueued DEF Sent
  <2>3. CASE SendFirst(h, q)
    <3>1. {0, 1} \subseteq 0..Len(q)
      BY <1>3
    <3>2. \E n \in {0, 1}, bad \in SUBSET Range(q) : Sent(h, q, n, bad)
      BY <2>3 DEF SendFirst
    <3>3. pollout' \subseteq pollout \cup {h}
      BY <2>3 DEF SendFirst
    <3> QED BY <3>1, <3>2, <3>3, <2>2
  <2>4. CASE SendSome(h, q, TRUE)
    BY <2>2, <2>4 DEF SendSome
  <2> QED BY <2>1, <2>3, <2>4, <1>1 DEF Write, q
<1>5. UNCHANGED <<queue, flags, phase>>
  BY <1>2 DEF vars, uvVars, runVars
<1>6. PollExact'
  BY <1>1, <1>2, <1>4, <1>5, SameHandlesStayOpen, StayOpenExact DEF TInv, PollExact
<1> QED BY <1>1, <1>2, <1>4, <1>6 DEF TInv, SockTypes, NotesExact

\* A handle being served stays known to the loop until uv__stream_io is over.
LEMMA ServedStays ==
  ASSUME SInv, TInv, UNCHANGED <<queue, flags, phase>>,
         reading' \subseteq reading, pollin' \subseteq pollin,
         pollout' \subseteq pollout \cup (OpenHandles \cap {io}),
         io' \in {io, NULL}
  PROVE  PollExact'
<1>1. io' # NULL => phase' = "events" /\ io' \in queue'
  BY DEF TInv, PollExact
<1>2. OpenHandles' = OpenHandles /\ StayOpen
  BY SameHandlesStayOpen
<1> QED BY <1>1, <1>2, StayOpenExact DEF TInv

\* TInv: the loop takes a socket whose descriptor is ready.
LEMMA ServeTypes ==
  ASSUME SInv, TInv, NEW h \in Handles,
         \/ \E rd, wr \in BOOLEAN : Serve(h, rd, wr)
         \/ ServeClosed(h) \/ StillConnecting(h)
  PROVE  TInv'
<1>1. /\ UNCHANGED <<vars, kind, sock, delayed, reqs, noCopy, failed, reading, pollin, pollout>>
      /\ fed' \subseteq fed /\ phase = "events"
      /\ at' \in {at, "read", "write"} /\ more' \in {more} \cup BOOLEAN
      /\ io' = io \/ (io' = h /\ h \in queue)
  BY DEF Serve, Awakened, ServeClosed, StillConnecting, handleVars, reqVars, ioVars
<1>2. UNCHANGED <<queue, flags, phase>>
  BY <1>1 DEF vars, uvVars, runVars
<1>3. PollExact'
  BY <1>1, <1>2, SameHandlesStayOpen, StayOpenExact DEF TInv, PollExact
<1> QED BY <1>1, <1>3 DEF TInv, SockTypes, NotesExact

\* TInv: uv__stream_connect.
LEMMA StreamConnectTypes ==
  ASSUME SInv, TInv, NEW h \in Handles, NEW err \in BOOLEAN, StreamConnect(h, err)
  PROVE  TInv'
<1>1. /\ UNCHANGED <<kind, reading, pollin>> /\ pollout' \subseteq pollout
      /\ delayed' = delayed \ {h} /\ sock' \in {sock, [sock EXCEPT ![h] = "made"]}
      /\ fed' \subseteq fed /\ phase = "events" /\ h \in queue
      /\ at' \in {at, "connectFailed"} /\ more' \in {more, FALSE} /\ io' \in {io, h}
  BY DEF StreamConnect, Awakened, ioVars
<1>2. UNCHANGED <<queue, flags, phase>> /\ NotesExact'
  BY DeliverStays DEF StreamConnect, TInv
<1>3. PollExact'
  BY <1>1, <1>2, SameHandlesStayOpen, StayOpenExact DEF TInv, PollExact
<1>4. sock' \in [Handles -> {"none", "made", "open", "shut"}]
  BY <1>1 DEF TInv, SockTypes
<1> QED BY <1>1, <1>2, <1>3, <1>4 DEF TInv, SockTypes

\* TInv: the read callback.
LEMMA ReadTypes ==
  ASSUME SInv, TInv, NEW k \in {"notify", "error", "readError"},
         NEW next \in {"read", "eof", "stopRead", "readDone"}, Read(k, next)
  PROVE  TInv'
<1>1. /\ UNCHANGED <<kind, sock, delayed, fed, reading, pollout, io, more, reqs, noCopy, failed>>
      /\ pollin' \subseteq pollin /\ at' = next
  BY DEF Read, handleVars, reqVars
<1>2. UNCHANGED <<queue, flags, phase>>
  BY DEF Read, Event, runVars
<1> QED BY <1>1, <1>2, ServedStays DEF TInv, SockTypes, NotesExact

\* TInv: after the read callback.
LEMMA EndReadTypes ==
  ASSUME SInv, TInv, EndRead
  PROVE  TInv'
<1>1. /\ UNCHANGED <<vars, kind, sock, delayed, fed, pollout, reqs, noCopy, failed>>
      /\ reading' \subseteq reading /\ pollin' \subseteq pollin /\ io' \in {io, NULL}
      /\ at' \in {"write", "none"} /\ more' \in {more, FALSE}
  BY DEF EndRead, StopsReading, StopReading, handleVars, reqVars
<1>2. UNCHANGED <<queue, flags, phase>>
  BY <1>1 DEF vars, uvVars, runVars
<1>3. PollExact'
  BY <1>1, <1>2, ServedStays
<1> QED BY <1>1, <1>3 DEF TInv, SockTypes, NotesExact

\* TInv: Flush.
LEMMA FlushTypes ==
  ASSUME SInv, TInv, NEW h \in Handles, Flush(h), UNCHANGED reqs
  PROVE  failed' \subseteq reqs'
<1>1. Range(writeQueue[h]) \subseteq reqs
  BY QueuedIsAllocated, RangeOfSeq DEF SInv
<1> QED BY <1>1 DEF Flush, TInv, NotesExact

\* TInv: a connect that fails.
LEMMA ConnectFailedTypes ==
  ASSUME SInv, TInv, ConnectFailed
  PROVE  TInv'
<1>1. /\ UNCHANGED <<vars, kind, sock, delayed, fed, reading, pollin, pollout, more, reqs, noCopy>>
      /\ io' \in {io, NULL} /\ at' \in {"completed", "none"}
  BY DEF ConnectFailed, pollVars
<1>2. UNCHANGED <<queue, flags, phase>>
  BY <1>1 DEF vars, uvVars, runVars
<1>3. failed' \subseteq reqs'
  <2>1. io \in Handles
    BY DEF ConnectFailed, SInv, Requested, ReqTypes
  <2>2. Flush(io) \/ failed' = failed
    BY DEF ConnectFailed
  <2> QED BY <2>1, <2>2, <1>1, FlushTypes DEF TInv, NotesExact
<1> QED BY <1>1, <1>2, <1>3, ServedStays DEF TInv, SockTypes, NotesExact

\* TInv: uv__stream_flush_write_queue of a closed socket.
LEMMA CancelWritesTypes ==
  ASSUME SInv, TInv, CancelWrites
  PROVE  TInv'
<1>1. UNCHANGED <<vars, kind, sock, delayed, fed, reading, pollin, pollout, io, at, more, reqs, noCopy>>
  BY DEF CancelWrites, pollVars, ioVars
<1>2. UNCHANGED <<queue, flags, phase>>
  BY <1>1 DEF vars, uvVars, runVars
<1>3. failed' \subseteq reqs'
  <2>1. finishing \in Handles
    BY DEF CancelWrites, SInv, IInv, TypeOK
  <2> QED BY <2>1, <1>1, FlushTypes DEF CancelWrites
<1> QED BY <1>1, <1>2, <1>3, ServedStays DEF TInv, SockTypes, NotesExact

\* TInv: uv__write and uv__udp_sendmsg.
LEMMA TransmitTypes ==
  ASSUME SInv, TInv, Transmit
  PROVE  TInv'
<1>1. /\ UNCHANGED <<vars, kind, sock, delayed, reading, pollin, io, more, reqs, noCopy>>
      /\ at' = "completed" /\ io \in Handles
  BY DEF Transmit, SInv, Requested, ReqTypes
<1>2. UNCHANGED <<queue, flags, phase>>
  BY <1>1 DEF vars, uvVars, runVars
<1> DEFINE q == writeQueue[io]
<1>3. q \in Seq(reqs)
  BY <1>1, QueuedIsAllocated DEF SInv
<1>4. /\ failed' \subseteq reqs' /\ fed' \subseteq fed \cup {io}
      /\ pollout' \subseteq pollout \cup (OpenHandles \cap {io})
  <2>1. CASE UNCHANGED <<failed, pollout, fed>>
    BY <2>1, <1>1 DEF TInv, NotesExact
  <2>2. CASE Flush(io) /\ fed' \in {fed, fed \cup {io}} /\ UNCHANGED pollout
    BY <2>2, <1>1, FlushTypes
  <2>3. CASE /\ Open(io) /\ q # <<>>
             /\ SendFirst(io, q) \/ SendSome(io, q, FALSE)
    <3>1. io \in OpenHandles
      BY <2>3, <1>1 DEF TInv, PollExact, OpenHandles, Transmit
    <3>2. {0, 1} \subseteq 0..Len(q)
      BY <1>3, <2>3, EmptySeq
    <3>3. PICK n \in 0..Len(q), bad \in SUBSET Range(q) : Sent(io, q, n, bad)
      BY <2>3, <3>2 DEF SendFirst, SendSome
    <3>4. failed \subseteq reqs' /\ q \in Seq(reqs')
      BY <1>1, <1>3 DEF TInv, NotesExact
    <3>5. failed' \subseteq reqs'
      BY <3>3, <3>4, <1>1, SentWasQueued
    <3>6. pollout' \subseteq pollout \cup {io} /\ fed' \subseteq fed \cup {io}
      BY <2>3, <3>3 DEF SendFirst, SendSome, Sent
    <3> QED BY <3>1, <3>5, <3>6
  <2> QED BY <2>1, <2>2, <2>3 DEF Transmit
<1>5. PollExact'
  BY <1>1, <1>2, <1>4, ServedStays
<1> QED BY <1>1, <1>4, <1>5 DEF TInv, SockTypes, NotesExact

\* TInv: the callbacks of requests.
LEMMA AnswerTypes ==
  ASSUME SInv, TInv,
         \/ \E h \in Handles : WriteCallback(h)
         \/ CancelConnect \/ CancelShutdown
  PROVE  TInv'
<1>1. UNCHANGED <<kind, sock, delayed, fed, reading, pollin, pollout, io, at, more>>
  BY DEF WriteCallback, CancelConnect, CancelShutdown, pollVars, ioVars
<1>2. UNCHANGED <<queue, flags, phase>> /\ NotesExact'
  <2>1. CASE \E h, r, k : Deliver(h, r, k)
    BY <2>1, DeliverStays DEF TInv
  <2>2. CASE \E r : Free(r) /\ UNCHANGED vars
    BY <2>2 DEF Free, TInv, NotesExact, vars, uvVars, runVars
  <2> QED BY <2>1, <2>2 DEF WriteCallback, CancelConnect, CancelShutdown
<1> QED BY <1>1, <1>2, ServedStays DEF TInv, SockTypes

\* TInv: uv__drain.
LEMMA DrainTypes ==
  ASSUME SInv, TInv, NEW err \in BOOLEAN, Drain(err)
  PROVE  TInv'
<1>1. /\ UNCHANGED <<kind, delayed, fed, reading, pollin>> /\ pollout' \subseteq pollout
      /\ sock' \in {sock, [sock EXCEPT ![io] = "shut"]}
      /\ io' = NULL /\ at' = "none" /\ more' = FALSE
  BY DEF Drain, reqVars
<1>2. UNCHANGED <<queue, flags, phase>> /\ NotesExact'
  <2>1. CASE UNCHANGED <<vars, reqVars>>
    BY <2>1 DEF TInv, NotesExact, vars, uvVars, runVars, reqVars
  <2>2. CASE \E h, r, k : Deliver(h, r, k)
    BY <2>2, DeliverStays DEF TInv
  <2> QED BY <2>1, <2>2 DEF Drain
<1>3. PollExact'
  BY <1>1, <1>2, ServedStays
<1> QED BY <1>1, <1>2, <1>3 DEF TInv, SockTypes

\* The closing phase takes handles off the queue, but no open one.
LEMMA ClosingTypes ==
  ASSUME SInv, TInv, EndClose \/ RunStep
  PROVE  TInv'
<1>1. UNCHANGED <<kind, sock, delayed, fed, reading, pollin, pollout, io, at, more, reqs, noCopy, failed>>
  BY DEF EndClose, RunStep, sockVars, handleVars, pollVars, ioVars, reqVars
<1>2. StayOpen /\ io = NULL
  <2>1. CASE EndClose
    <3>1. /\ queue' = queue \ {finishing} /\ flags' = flags
          /\ finishing # NULL
      BY <2>1 DEF EndClose, CloseOrphan, CloseOwned
    <3>2. flags[finishing] = "closed" /\ phase = "closing"
      BY <3>1 DEF SInv, IInv, PhaseExact
    <3> QED BY <3>1, <3>2 DEF StayOpen, OpenHandles, Open, TInv, PollExact
  <2>2. CASE FinishClose
    <3> DEFINE p == Head(batch)
    <3>1. phase = "closing" /\ batch # <<>> /\ flags' = [flags EXCEPT ![p] = "closed"] /\ queue' = queue
      BY <2>2 DEF FinishClose
    <3>2. batch \in Seq(Handles) /\ p \in Range(batch)
      BY <3>1, TakeHandle DEF SInv, IInv, TypeOK
    <3>3. flags[p] = "closing"
      BY <3>2 DEF SInv, IInv, ClosingOnce, MemorySafe
    <3> QED BY <3>1, <3>3 DEF StayOpen, OpenHandles, Open, TInv, PollExact, SInv, IInv, TypeOK
  <2>3. CASE RunStep /\ ~FinishClose
    <3>1. UNCHANGED <<queue, flags>>
      BY <2>3 DEF RunStep, EnterRun, RunClosingHandles, EndIteration, LeaveRun, uvVars
    <3>2. io = NULL
      BY <2>3 DEF RunStep, EnterRun, EndIteration, LeaveRun, TInv, PollExact
    <3> QED BY <3>1, <3>2, SameHandlesStayOpen
  <2> QED BY <2>1, <2>2, <2>3
<1>3. PollExact'
  BY <1>1, <1>2, StayOpenExact DEF TInv, PollExact
<1> QED BY <1>1, <1>3 DEF TInv, SockTypes, NotesExact

\* TInv holds at the start.
LEMMA TypesStart == SockInit => TInv
BY DEF SockInit, TInv, SockTypes, NotesExact, PollExact

\* TInv is inductive.
LEMMA TypesGoOn ==
  ASSUME SInv, TInv, [SockNext]_allVars
  PROVE  TInv'
<1>1. CASE SocketCall
  BY <1>1, CreateTypes, HandleCallTypes, QuietCallTypes, WriteTypes, RequestCallTypes DEF SocketCall
<1>2. CASE SocketEvent
  BY <1>2, ServeTypes, StreamConnectTypes, ReadTypes, EndReadTypes, ConnectFailedTypes,
     CancelWritesTypes, TransmitTypes, AnswerTypes, DrainTypes DEF SocketEvent
<1>3. CASE ReturnCallback \/ EndClose \/ RunStep
  BY <1>3, HandleCallTypes, ClosingTypes
<1>4. CASE UNCHANGED allVars
  <2>1. UNCHANGED <<queue, flags, phase, kind, sock, delayed, fed, reading, pollin, pollout, io, at, more,
                    reqs, noCopy, failed>>
    BY <1>4 DEF allVars, vars, uvVars, runVars, sockVars, handleVars, pollVars, ioVars, reqVars
  <2> QED BY <2>1, ServedStays DEF TInv, SockTypes, NotesExact
<1> QED BY <1>1, <1>2, <1>3, <1>4 DEF SockNext

\* SockTypeOK.  What a socket waits for is allocated, and the loop polls and
\* serves only handles that it knows.
THEOREM SocketTypes == SockSpec => []SockTypeOK
<1>1. ASSUME SInv, TInv PROVE SockTypeOK
  <2>1. Requested /\ ReqTypes /\ Accounted /\ TypeOK
    BY <1>1, OnePlace DEF SInv, Requested, IInv
  <2>2. \A h \in Handles : /\ completed[h] \in Seq(reqs) /\ writeQueue[h] \in Seq(reqs)
                           /\ connectReq[h] \in reqs \cup {NULL} /\ shutdownReq[h] \in reqs \cup {NULL}
    BY <2>1, QueuedIsAllocated DEF RequestsOf
  <2>3. /\ connectReq \in [Handles -> reqs \cup {NULL}] /\ shutdownReq \in [Handles -> reqs \cup {NULL}]
        /\ writeQueue \in [Handles -> Seq(reqs)] /\ completed \in [Handles -> Seq(reqs)]
    BY <2>1, <2>2 DEF ReqTypes
  <2>4. held \in reqs \cup {NULL} /\ lost \subseteq reqs /\ reqs \subseteq Requests
    BY <2>1 DEF ReqTypes, Accounted
  <2>5. /\ io \in queue \cup {NULL}
        /\ reading \subseteq queue /\ pollin \subseteq queue /\ pollout \subseteq queue
    BY <1>1 DEF TInv, PollExact, OpenHandles
  <2> QED BY <1>1, <2>1, <2>3, <2>4, <2>5 DEF SockTypeOK, TInv, SockTypes, NotesExact
<1> QED BY <1>1, SocketsStart, SocketsGoOn, TypesStart, TypesGoOn, PTL DEF SockSpec

-----------------------------------------------------------------------------
(* No write gets stuck.                                                    *)

\* Where h's writes wait while nothing of them is on its way.  For a stream a
\* turn of the loop will do; uv__udp_io never asks for POLLOUT itself.
Watching(h) ==
  \/ h \in pollout
  \/ Stream(h) /\ (h \in fed \/ (io = h /\ more /\ at # "completed"))
  \/ io = h /\ at = "connectFailed"

\* A pipe whose connect has failed at once is not writable: it has no writes,
\* and in a turn of its own nobody is called.
NeverConnected(h) == kind[h] = "pipe" /\ sock[h] \in {"none", "made"}

WatchOf(h) ==
  /\ connectReq[h] = NULL /\ writeQueue[h] # <<>> => Watching(h)
  /\ ~Stream(h) => connectReq[h] = NULL
  /\ connectReq[h] # NULL /\ h \notin delayed => h \in pollout
  /\ io = h /\ more => connectReq[h] = NULL \/ h \in delayed
  /\ NeverConnected(h) =>
       /\ writeQueue[h] = <<>> /\ completed[h] = <<>> /\ h \notin reading
       /\ io = h /\ more => cb = "none" /\ at \in {"write", "completed"}

TurnExact == /\ at = "connectFailed" => ~more
             /\ at = "write" => more

WInv == TurnExact /\ \A h \in OpenHandles : WatchOf(h)

\* What a step leaves as it is for h.
SameSocket(h) == /\ kind'[h] = kind[h] /\ sock'[h] = sock[h] /\ connectReq'[h] = connectReq[h]
                 /\ writeQueue'[h] = writeQueue[h] /\ completed'[h] = completed[h]
                 /\ h \in delayed' <=> h \in delayed

\* A socket that the step is not about stays watched.
LEMMA OtherWatched ==
  ASSUME NEW h \in Handles, WatchOf(h), SameSocket(h),
         h \in pollout => h \in pollout', h \in fed => h \in fed',
         h \in reading' => h \in reading,
         io # h, io' # h
  PROVE  WatchOf(h)'
BY DEF WatchOf, SameSocket, Watching, Stream, NeverConnected

\* So does the one being served, while its turn does not move on.
LEMMA SameWatched ==
  ASSUME NEW h \in Handles, WatchOf(h), SameSocket(h),
         h \in pollout => h \in pollout', h \in fed => h \in fed',
         h \in reading' => h \in reading,
         UNCHANGED <<io, more, at>>, io = h /\ more /\ cb = "none" => cb' = "none"
  PROVE  WatchOf(h)'
BY DEF WatchOf, SameSocket, Watching, Stream, NeverConnected

\* Steps that close handles, or none.
LEMMA CloseWatched ==
  ASSUME WInv, UNCHANGED <<handleVars, io, more, at>>,
         OpenHandles' \subseteq OpenHandles,
         \A h \in OpenHandles' : /\ h \in pollout => h \in pollout'
                                 /\ h \in fed => h \in fed'
                                 /\ h \in reading' => h \in reading,
         io # NULL /\ cb = "none" => cb' = "none",
         NULL \notin OpenHandles', OpenHandles \subseteq Handles
  PROVE  WInv'
<1>1. TurnExact'
  BY DEF WInv, TurnExact
<1>2. ASSUME NEW h \in OpenHandles' PROVE WatchOf(h)'
  <2>1. WatchOf(h) /\ SameSocket(h) /\ h \in Handles
    BY DEF WInv, SameSocket, handleVars
  <2> QED BY <2>1, SameWatched
<1> QED BY <1>1, <1>2 DEF WInv

\* Open handles are handles.
LEMMA OpenTypes == ASSUME SInv PROVE OpenHandles \subseteq Handles /\ NULL \notin OpenHandles
BY NullAssumption DEF OpenHandles, SInv, IInv, TypeOK

\* WInv: closing, moving and destroying wrappers.
LEMMA HandleCallWatched ==
  ASSUME SInv, SInv', TInv, WInv, HandleCall \/ ReturnCallback
  PROVE  WInv'
<1>1. /\ UNCHANGED <<handleVars, io, more, at, queue>> /\ CloseDescriptor
  BY DEF HandleCall, ReturnCallback, Close, DestroyOpen, DestroyClosed, MoveConstruct, MoveAssign,
         CallbackReturns, ioVars
<1>2. OpenHandles' \subseteq OpenHandles
  <2>1. [Next]_vars
    BY DEF HandleCall, ReturnCallback, Next, UserStep, LoopStep
  <2>2. ASSUME NEW h \in OpenHandles' PROVE h \in OpenHandles
    BY <2>1, <1>1, OnlyNewOpen, OpenTypes DEF OpenHandles, Open, SInv, IInv, TypeOK
  <2> QED BY <2>2
<1>3. \A h \in OpenHandles' : /\ h \in pollout => h \in pollout'
                              /\ h \in fed => h \in fed'
                              /\ h \in reading' => h \in reading
  BY <1>1 DEF CloseDescriptor, OpenHandles, Open
<1>4. cb = "none" => cb' = "none"
  BY DEF HandleCall, ReturnCallback, Close, DestroyOpen, DestroyClosed, MoveConstruct, MoveAssign,
         CallbackReturns, cbVars
<1> QED BY <1>1, <1>2, <1>3, <1>4, CloseWatched, OpenTypes

\* WInv: the loop closes handles.
LEMMA ClosingWatched ==
  ASSUME SInv, SInv', TInv, WInv, EndClose \/ RunStep
  PROVE  WInv'
<1>1. UNCHANGED sockVars
  BY DEF EndClose, RunStep
<1>2. UNCHANGED <<handleVars, pollout, fed, reading, io, more, at>>
  BY <1>1 DEF sockVars, pollVars, ioVars
<1>3. OpenHandles' \subseteq OpenHandles
  <2>1. [Next]_vars
    BY DEF EndClose, RunStep, Next, LoopStep
  <2>2. queue' \subseteq queue
    BY DEF EndClose, CloseOrphan, CloseOwned, RunStep, EnterRun, FinishClose, EndIteration,
           LeaveRun, RunClosingHandles, uvVars
  <2>3. ASSUME NEW h \in OpenHandles' PROVE h \in OpenHandles
    BY <2>1, <2>2, OnlyNewOpen, OpenTypes DEF OpenHandles, Open, SInv, IInv, TypeOK
  <2> QED BY <2>3
<1>4. io # NULL /\ cb = "none" => cb' = "none"
  <2>1. CASE EndClose
    <3>1. finishing # NULL /\ io # NULL => FALSE
      BY DEF TInv, PollExact, SInv, IInv, PhaseExact
    <3> QED BY <2>1, <3>1 DEF EndClose
  <2>2. CASE RunStep
    BY <2>2 DEF RunStep, EnterRun, FinishClose, EndIteration, LeaveRun, RunClosingHandles, cbVars
  <2> QED BY <2>1, <2>2
<1> QED BY <1>2, <1>3, <1>4, CloseWatched, OpenTypes

\* A new handle has nothing to wait for.
LEMMA CreateWatched ==
  ASSUME SInv, SInv', TInv, WInv, NEW w \in Wrappers, NEW h \in Handles,
         NEW k \in {"tcp", "pipe", "udp"}, CreateSocket(w, h, k)
  PROVE  WInv'
<1>1. /\ kind' = [kind EXCEPT ![h] = k] /\ sock' = [sock EXCEPT ![h] = IF k = "udp" THEN "open" ELSE "none"]
      /\ delayed' = delayed \ {h} /\ fed' = fed \ {h} /\ h \notin mem
      /\ queue' = queue \cup {h} /\ flags' = [flags EXCEPT ![h] = "open"]
      /\ UNCHANGED <<at, more, io, reading, pollout, connectReq, writeQueue, completed, cb>>
  BY DEF CreateSocket, Create, ioVars, cbVars
<1>2. h \notin queue
  BY <1>1 DEF SInv, IInv, MemorySafe
<1>3. RequestsOf(h) = {} /\ Unanswered(h) \in Seq(Requests) /\ NULL \notin Range(Unanswered(h))
  BY <1>2, OnePlace, RequestTypes DEF Places, SInv, Requested
<1>4. Unanswered(h) = <<>>
  <2>1. Range(Unanswered(h)) = {}
    BY <1>3 DEF RequestsOf
  <2> QED BY <2>1, <1>3, TakeHandle
<1>5. connectReq[h] = NULL /\ writeQueue[h] = <<>> /\ completed[h] = <<>>
  <2>1. writeQueue[h] \in Seq(Requests) /\ completed[h] \in Seq(Requests)
    BY RequestTypes DEF SInv, Requested
  <2>2. writeQueue[h] = <<>> /\ completed[h] = <<>>
    BY <2>1, <1>4, ConcatEqualIffEmpty, EmptySeq DEF Unanswered
  <2> QED BY <2>2, <1>3 DEF RequestsOf
<1>6. io # h /\ h \notin reading
  BY <1>2, NullAssumption DEF TInv, PollExact, OpenHandles
<1>7. WatchOf(h)'
  BY <1>1, <1>5, <1>6 DEF WatchOf, NeverConnected
<1>8. ASSUME NEW g \in OpenHandles' \ {h} PROVE WatchOf(g)'
  <2>1. g \in OpenHandles /\ g \in Handles
    BY <1>1 DEF OpenHandles, Open, SInv, IInv, TypeOK
  <2>2. SameSocket(g)
    BY <1>1, <2>1 DEF SameSocket
  <2> QED BY <1>1, <2>1, <2>2, SameWatched DEF WInv
<1> QED BY <1>1, <1>7, <1>8 DEF WInv, TurnExact

\* Calls and turns leave the handles that are open alone.
LEMMA WatchedNext ==
  ASSUME SInv, WInv, UNCHANGED <<queue, flags>>, TurnExact', NEW h,
         \A g \in OpenHandles \ {h} : WatchOf(g) => WatchOf(g)',
         h \in OpenHandles /\ WatchOf(h) => WatchOf(h)'
  PROVE  WInv'
<1>1. OpenHandles' = OpenHandles
  BY SameHandlesStayOpen
<1> QED BY <1>1 DEF WInv

\* WInv: calls that make no request.
LEMMA QuietCallWatched ==
  ASSUME SInv, TInv, WInv, NEW w \in Wrappers,
         \/ TryWrite(w) \/ OpenDescriptor(w) \/ ConnectTcpThrows(w)
         \/ StartRead(w) \/ StopRead(w)
  PROVE  WInv'
<1>1. PICK h \in OpenHandles : h = mHandle[w] /\ h \in Handles
  BY UsableIsOpen, UsableHandle DEF SInv, TryWrite, OpenDescriptor, ConnectTcpThrows, StartRead, StopRead
<1>2. /\ UNCHANGED <<vars, kind, delayed, at, more, io, connectReq, writeQueue, completed>>
      /\ \/ sock' = sock
         \/ sock[h] = "none" /\ kind[h] = "tcp" /\ sock' = [sock EXCEPT ![h] = "made"]
         \/ sock[h] = "none" /\ sock' = [sock EXCEPT ![h] = "open"]
      /\ fed' \in {fed, fed \cup {h}}
      /\ \/ pollout' = pollout
         \/ pollout' = pollout \ {h} /\ connectReq[h] = NULL /\ writeQueue[h] = <<>>
      /\ \/ reading' \subseteq reading
         \/ reading' = reading \cup {h} /\ Writable(h)
  BY <1>1 DEF TryWrite, OpenDescriptor, ConnectTcpThrows, StartRead, StopRead, StopReading, ioVars,
              reqVars, handleVars, pollVars, Busy
<1>3. UNCHANGED <<queue, flags, cb>>
  BY <1>2 DEF vars, uvVars, cbVars
<1>4. ASSUME NEW g \in OpenHandles \ {h}, WatchOf(g) PROVE WatchOf(g)'
  <2>1. SameSocket(g) /\ g \in Handles
    BY <1>2, OpenTypes DEF SameSocket, TInv, SockTypes
  <2> QED BY <1>2, <1>3, <1>4, <2>1, SameWatched
<1>5. ASSUME WatchOf(h) PROVE WatchOf(h)'
  <2>1. NeverConnected(h)' => NeverConnected(h) /\ (h \in reading' => h \in reading)
    BY <1>1, <1>2 DEF NeverConnected, TInv, SockTypes, Writable
  <2> QED BY <1>2, <1>3, <1>5, <2>1 DEF WatchOf, Watching, Stream
<1> QED BY <1>1, <1>2, <1>3, <1>4, <1>5, WatchedNext DEF WInv, TurnExact

\* WInv: uv_shutdown asks for POLLOUT.
LEMMA ShutdownWatched ==
  ASSUME SInv, TInv, WInv, NEW w \in Wrappers, NEW r \in Requests, Shutdown(w, r)
  PROVE  WInv'
<1>1. /\ UNCHANGED <<vars, kind, sock, delayed, at, more, io, connectReq, writeQueue, completed, fed, reading>>
      /\ pollout \subseteq pollout'
  BY DEF Shutdown, ioVars
<1>2. UNCHANGED <<queue, flags, cb>>
  BY <1>1 DEF vars, uvVars, cbVars
<1>3. ASSUME NEW g \in OpenHandles, WatchOf(g) PROVE WatchOf(g)'
  <2>1. SameSocket(g) /\ g \in Handles
    BY <1>1, OpenTypes DEF SameSocket
  <2> QED BY <1>1, <1>2, <1>3, <2>1, SameWatched
<1> QED BY <1>1, <1>2, <1>3, WatchedNext DEF WInv, TurnExact

\* Outside of OnConnect no connect may begin in a turn of the socket's own but
\* one that fails.
LEMMA ConnectWatched ==
  ASSUME SInv, TInv, WInv, NEW w \in Wrappers, NEW r \in Requests, NEW b \in BOOLEAN,
         ConnectTcp(w, r, b) \/ ConnectPipe(w, r, b)
  PROVE  WInv'
<1>1. PICK h \in OpenHandles : h = mHandle[w] /\ h \in Handles
  BY UsableIsOpen, UsableHandle DEF SInv, ConnectTcp, ConnectPipe
<1>2. /\ UNCHANGED <<vars, kind, at, more, io, writeQueue, completed, reading>>
      /\ connectReq' = [connectReq EXCEPT ![h] = r] /\ Stream(h)
      /\ fed' \in {fed, fed \cup {h}}
      /\ \/ delayed' = delayed \cup {h} /\ pollout' \in {pollout, pollout \cup {h}}
         \/ delayed' = delayed \ {h} /\ pollout' = pollout \cup {h}
  BY <1>1 DEF ConnectTcp, ConnectPipe, ioVars, Stream
<1>3. UNCHANGED <<queue, flags, cb>>
  BY <1>2 DEF vars, uvVars, cbVars
<1>4. \/ sock' = sock \/ \E x \in {"open", "made"} : sock' = [sock EXCEPT ![h] = x]
  <2>1. ConnectTcp(w, r, b) => sock' = [sock EXCEPT ![h] = "open"]
    BY <1>1 DEF ConnectTcp
  <2>2. ConnectPipe(w, r, b) => \E x \in {"open", "made", sock[h]} : sock' = [sock EXCEPT ![h] = x]
    BY <1>1 DEF ConnectPipe
  <2>3. [sock EXCEPT ![h] = sock[h]] = sock
    BY DEF TInv, SockTypes
  <2> QED BY <2>1, <2>2, <2>3
<1>5. ASSUME NEW g \in OpenHandles \ {h}, WatchOf(g) PROVE WatchOf(g)'
  <2>1. SameSocket(g) /\ g \in Handles
    BY <1>2, <1>4, OpenTypes DEF SameSocket, TInv, SockTypes, SInv, Requested, ReqTypes
  <2> QED BY <1>2, <1>3, <1>5, <2>1, SameWatched
<1>6. ASSUME WatchOf(h) PROVE WatchOf(h)'
  <2>1. NeverConnected(h)' => NeverConnected(h)
    BY <1>1, <1>2 DEF NeverConnected, TInv, SockTypes, ConnectTcp, ConnectPipe
  <2>2. connectReq'[h] = r /\ r # NULL
    BY <1>1, <1>2, RequestsAssumption DEF SInv, Requested, ReqTypes
  <2>3. io = h /\ more => h \in delayed'
    <3>1. SUFFICES ASSUME io = h, more PROVE h \in delayed'
      OBVIOUS
    <3>2. at # "connectFailed"
      BY <3>1 DEF WInv, TurnExact
    <3>3. ConnectPipe(w, r, b)
      BY <3>1, <3>2, <1>1 DEF ConnectTcp
    <3>4. cb # "none"
      BY <3>1, <3>3, NullAssumption, <1>1 DEF ConnectPipe, Usable, InUserCode, TInv, PollExact
    <3>5. ~NeverConnected(h)
      BY <1>6, <3>1, <3>4 DEF WatchOf
    <3>6. sock[h] \in {"open", "shut"}
      BY <1>1, <3>3, <3>5 DEF NeverConnected, ConnectPipe, TInv, SockTypes
    <3> QED BY <1>1, <3>3, <3>6 DEF ConnectPipe
  <2> QED BY <1>2, <1>3, <1>6, <2>1, <2>2, <2>3 DEF WatchOf, Stream
<1> QED BY <1>1, <1>2, <1>3, <1>5, <1>6, WatchedNext DEF WInv, TurnExact

\* What uv__write sends feeds the watcher, which then comes to the callbacks.
LEMMA SentOrWatched ==
  ASSUME NEW q \in Seq(Requests), NEW n \in 0..Len(q), NEW bad, NEW h \in Handles,
         Sent(h, q, n, bad), writeQueue \in [Handles -> Seq(Requests)]
  PROVE  /\ n > 0 => h \in fed'
         /\ n = 0 => bad = {}
         /\ n = Len(q) => writeQueue'[h] = <<>>
<1>1. writeQueue'[h] = SubSeq(q, n + 1, Len(q))
  BY DEF Sent
<1>2. n = 0 => SubSeq(q, 1, n) = <<>>
  BY SubSeqEmpty
<1>3. n = Len(q) => SubSeq(q, n + 1, Len(q)) = <<>>
  BY SubSeqEmpty
<1> QED BY <1>1, <1>2, <1>3, EmptyQueue DEF Sent

\* WInv: uv_write2 tries to send, unless something is queued already, and asks for
\* POLLOUT if something is left.
LEMMA WriteWatched ==
  ASSUME SInv, TInv, WInv, NEW w \in Wrappers, NEW r \in Requests, NEW b \in BOOLEAN, Write(w, r, b)
  PROVE  WInv'
<1>1. PICK h \in OpenHandles : h = mHandle[w] /\ h \in Handles
  BY UsableIsOpen, UsableHandle DEF SInv, Write
<1> DEFINE q == Append(writeQueue[h], r)
<1>2. /\ UNCHANGED <<vars, kind, sock, connectReq, delayed, at, more, io, reading>> /\ Writable(h)
      /\ fed' \in {fed, fed \cup {h}}
      /\ pollout \subseteq pollout' \cup {h} /\ pollout' \subseteq pollout \cup {h}
      /\ connectReq[h] # NULL => pollout' = pollout
  BY <1>1 DEF Write, ioVars, SendFirst, SendSome, Sent
<1>3. UNCHANGED <<queue, flags, cb>>
  BY <1>2 DEF vars, uvVars, cbVars
<1>4. \A g \in Handles \ {h} : completed'[g] = completed[g] /\ writeQueue'[g] = writeQueue[g]
  BY <1>1, WriteGoesLast
<1>5. ASSUME NEW g \in OpenHandles \ {h}, WatchOf(g) PROVE WatchOf(g)'
  <2>1. SameSocket(g) /\ g \in Handles
    BY <1>2, <1>4, OpenTypes DEF SameSocket
  <2> QED BY <1>2, <1>3, <1>5, <2>1, SameWatched
<1>6. connectReq[h] = NULL => h \in pollout' \/ writeQueue'[h] = <<>>
  <2> SUFFICES ASSUME connectReq[h] = NULL PROVE h \in pollout' \/ writeQueue'[h] = <<>>
    OBVIOUS
  <2>1. /\ writeQueue \in [Handles -> Seq(Requests)] /\ writeQueue[h] \in Seq(Requests)
        /\ q \in Seq(Requests) /\ Len(q) = Len(writeQueue[h]) + 1 /\ Len(q) \in Nat \ {0}
    BY <1>1, AppendProperties, EmptySeq DEF SInv, Requested, ReqTypes
  <2>2. writeQueue[h] = <<>> => Len(q) = 1
    BY <2>1
  <2> HIDE DEF q
  <2>3. CASE ~Busy(h) /\ SendFirst(h, q)
    <3>1. Len(q) = 1
      BY <2>2, <2>3 DEF Busy
    <3>2. PICK n \in {0, 1}, bad \in SUBSET Range(q) :
            /\ Sent(h, q, n, bad)
            /\ pollout' = IF bad # {} THEN pollout \ {h}
                          ELSE IF n = 0 THEN pollout \cup {h} ELSE pollout
      BY <2>3 DEF SendFirst
    <3>3. n \in 0..Len(q)
      BY <3>1
    <3>4. (n = 0 => bad = {}) /\ (n = Len(q) => writeQueue'[h] = <<>>)
      BY <3>2, <3>3, <2>1, <1>1, SentOrWatched
    <3>5. CASE n = 0
      BY <3>2, <3>4, <3>5
    <3>6. CASE n = 1
      BY <3>1, <3>4, <3>6
    <3> QED BY <3>5, <3>6
  <2>4. CASE SendSome(h, q, TRUE)
    <3>1. PICK n \in 0..Len(q), bad \in SUBSET Range(q) :
            /\ Sent(h, q, n, bad)
            /\ pollout' = IF n < Len(q) THEN pollout \cup {h} ELSE pollout
      BY <2>4 DEF SendSome
    <3> QED BY <3>1, <2>1, <1>1, SentOrWatched
  <2>5. CASE h \in pollout'
    BY <2>5
  <2> QED BY <2>3, <2>4, <2>5, <1>1 DEF Write, q
<1>7. ASSUME WatchOf(h) PROVE WatchOf(h)'
  <2>1. ~NeverConnected(h)'
    BY <1>2 DEF NeverConnected, Writable
  <2> QED BY <1>2, <1>6, <1>7, <2>1 DEF WatchOf, Watching, Stream
<1> QED BY <1>1, <1>2, <1>3, <1>5, <1>7, WatchedNext DEF WInv, TurnExact

\* A turn begins when none is under way.
LEMMA ServeWatched ==
  ASSUME SInv, TInv, WInv, NEW h \in Handles,
         \/ \E rd, wr \in BOOLEAN : Serve(h, rd, wr)
         \/ ServeClosed(h) \/ StillConnecting(h)
  PROVE  WInv'
<1>1. /\ UNCHANGED <<vars, handleVars, reading, pollout>>
      /\ fed' \in {fed, fed \ {h}} /\ io = NULL /\ cb = "none"
      /\ \/ UNCHANGED <<io, at, more>> /\ connectReq[h] # NULL /\ h \in OpenHandles
         \/ UNCHANGED <<io, at, more>> /\ h \notin OpenHandles
         \/ /\ connectReq[h] = NULL /\ io' = h /\ more' \in BOOLEAN
            /\ \/ at' = "read" /\ h \in reading
               \/ at' = "write"
            /\ ~more' => at' = "read" /\ fed' = fed
  BY DEF Serve, Awakened, ServeClosed, StillConnecting, ioVars, Idle, OpenHandles, Open
<1>2. UNCHANGED <<queue, flags, cb, kind, sock, connectReq, delayed, writeQueue, completed>>
  BY <1>1 DEF vars, uvVars, cbVars, handleVars
<1>3. ASSUME NEW g \in OpenHandles \ {h}, WatchOf(g) PROVE WatchOf(g)'
  <2>1. SameSocket(g) /\ g \in Handles /\ io # g /\ io' # g
    BY <1>1, <1>2, OpenTypes DEF SameSocket
  <2> QED BY <1>1, <1>2, <1>3, <2>1, OtherWatched
<1>4. ASSUME h \in OpenHandles, WatchOf(h) PROVE WatchOf(h)'
  <2>1. io # h
    BY <1>1, NullAssumption
  <2>2. CASE connectReq[h] # NULL
    BY <1>1, <1>2, <1>4, <2>1, <2>2 DEF WatchOf, Stream, NeverConnected
  <2>3. CASE connectReq[h] = NULL
    BY <1>1, <1>2, <1>4, <2>1, <2>3 DEF WatchOf, Watching, Stream, NeverConnected
  <2> QED BY <2>2, <2>3
<1>5. TurnExact'
  BY <1>1 DEF WInv, TurnExact
<1> QED BY <1>2, <1>3, <1>4, <1>5, WatchedNext DEF WInv

\* WInv: uv__stream_connect keeps POLLOUT when something is queued.
LEMMA StreamConnectWatched ==
  ASSUME SInv, TInv, WInv, NEW h \in Handles, NEW err \in BOOLEAN, StreamConnect(h, err)
  PROVE  WInv'
<1>1. /\ io = NULL /\ h \in OpenHandles /\ UNCHANGED <<kind, writeQueue, completed, reading>>
      /\ connectReq[h] # NULL /\ (h \in delayed => err)
      /\ connectReq' = [connectReq EXCEPT ![h] = NULL] /\ delayed' = delayed \ {h}
      /\ sock' = IF err /\ kind[h] = "tcp" THEN [sock EXCEPT ![h] = "made"] ELSE sock
      /\ pollout' = IF err \/ writeQueue[h] = <<>> THEN pollout \ {h} ELSE pollout
      /\ fed' \in {fed, fed \ {h}}
      /\ IF err THEN io' = h /\ at' = "connectFailed" /\ more' = FALSE ELSE UNCHANGED <<io, at, more>>
  BY DEF StreamConnect, Awakened, ioVars, OpenHandles
<1>2. UNCHANGED <<queue, flags>>
  BY DeliverStays DEF StreamConnect
<1>3. ASSUME NEW g \in OpenHandles \ {h}, WatchOf(g) PROVE WatchOf(g)'
  <2>1. g \in Handles /\ io # g /\ io' # g
    BY <1>1, OpenTypes
  <2>2. SameSocket(g)
    BY <1>1, <2>1 DEF SameSocket, TInv, SockTypes, SInv, Requested, ReqTypes
  <2> QED BY <1>1, <1>3, <2>1, <2>2, OtherWatched
<1>4. ASSUME WatchOf(h) PROVE WatchOf(h)'
  <2>1. connectReq'[h] = NULL /\ io # h
    BY <1>1, NullAssumption DEF SInv, Requested, ReqTypes
  <2>2. NeverConnected(h)' => NeverConnected(h)
    BY <1>1 DEF NeverConnected
  <2> QED BY <1>1, <1>4, <2>1, <2>2 DEF WatchOf, Watching
<1> QED BY <1>1, <1>2, <1>3, <1>4, WatchedNext DEF WInv, TurnExact

\* The other turns concern the handle being served, and it alone.
LEMMA ServedWatched ==
  ASSUME SInv, TInv, WInv, io # NULL, UNCHANGED <<queue, flags, kind, connectReq, delayed>>, TurnExact',
         sock' \in {sock, [sock EXCEPT ![io] = "shut"]},
         io' \in {io, NULL}, reading' \subseteq reading,
         \A g \in Handles \ {io} : /\ completed'[g] = completed[g] /\ writeQueue'[g] = writeQueue[g]
                                   /\ g \in pollout => g \in pollout'
                                   /\ g \in fed => g \in fed',
         io \in OpenHandles /\ WatchOf(io) => \A h \in Handles : h = io => WatchOf(h)'
  PROVE  WInv'
<1>1. PICK h \in Handles : h = io
  BY DEF SInv, Requested, ReqTypes
<1>2. ASSUME NEW g \in OpenHandles \ {h}, WatchOf(g) PROVE WatchOf(g)'
  <2>1. g \in Handles /\ io # g /\ io' # g
    BY <1>1, OpenTypes
  <2>2. SameSocket(g)
    BY <1>1, <2>1 DEF SameSocket, TInv, SockTypes
  <2> QED BY <1>1, <1>2, <2>1, <2>2, OtherWatched
<1> QED BY <1>1, <1>2, WatchedNext

\* WInv: the read callback.
LEMMA ReadWatched ==
  ASSUME SInv, TInv, WInv, NEW k \in {"notify", "error", "readError"},
         NEW next \in {"read", "eof", "stopRead", "readDone"}, Read(k, next)
  PROVE  WInv'
<1>1. /\ UNCHANGED <<handleVars, fed, reading, pollout, io, more>>
      /\ at' = next /\ at = "read" /\ io # NULL /\ io \in reading
  BY DEF Read, pollVars
<1>2. UNCHANGED <<queue, flags, kind, sock, connectReq, delayed, writeQueue, completed>>
  BY <1>1 DEF Read, Event, handleVars
<1>3. ASSUME WatchOf(io), NEW h \in Handles, h = io PROVE WatchOf(h)'
  BY <1>1, <1>2, <1>3 DEF WatchOf, Watching, Stream, NeverConnected
<1>4. TurnExact'
  BY <1>1 DEF TurnExact
<1> QED BY <1>1, <1>2, <1>3, <1>4, ServedWatched

\* WInv: after the read callback the turn goes on to the queue.
LEMMA EndReadWatched ==
  ASSUME SInv, TInv, WInv, EndRead
  PROVE  WInv'
<1>1. /\ UNCHANGED <<vars, handleVars, fed, pollout>> /\ reading' \subseteq reading /\ io # NULL
      /\ at \in {"read", "eof", "stopRead", "readDone"}
      /\ IF more /\ (Open(io) \/ ~Stream(io)) THEN at' = "write" /\ UNCHANGED <<io, more>>
                                              ELSE at' = "none" /\ io' = NULL /\ more' = FALSE
  BY DEF EndRead, StopsReading, StopReading
<1>2. UNCHANGED <<queue, flags, kind, sock, connectReq, delayed, writeQueue, completed, cb>>
  BY <1>1 DEF vars, uvVars, cbVars, handleVars
<1>3. ASSUME io \in OpenHandles, WatchOf(io), NEW h \in Handles, h = io PROVE WatchOf(h)'
  <2>1. Open(h)
    BY <1>3 DEF OpenHandles
  <2> QED BY <1>1, <1>2, <1>3, <2>1, NullAssumption DEF WatchOf, Watching, Stream, NeverConnected
<1>4. TurnExact'
  BY <1>1 DEF TurnExact
<1> QED BY <1>1, <1>2, <1>3, <1>4, ServedWatched

\* Flush empties the write queue.
LEMMA FlushEmpties ==
  ASSUME ReqTypes, NEW h \in Handles, Flush(h)
  PROVE  /\ writeQueue'[h] = <<>>
         /\ writeQueue[h] = <<>> /\ completed[h] = <<>> => completed'[h] = <<>>
<1>1. completed'[h] = completed[h] \o writeQueue[h] /\ writeQueue'[h] = <<>>
  BY DEF Flush, ReqTypes
<1>2. <<>> \o <<>> = <<>>
  BY ConcatEmptySeq, EmptySeq
<1> QED BY <1>1, <1>2

\* WInv: a connect that fails empties the queue.
LEMMA ConnectFailedWatched ==
  ASSUME SInv, TInv, WInv, ConnectFailed
  PROVE  WInv'
<1>1. /\ UNCHANGED <<vars, kind, sock, connectReq, delayed, fed, reading, pollout, more>>
      /\ io # NULL /\ at = "connectFailed"
      /\ IF Open(io) THEN Flush(io) /\ at' = "completed" /\ UNCHANGED io
                     ELSE io' = NULL /\ at' = "none" /\ UNCHANGED <<completed, writeQueue, failed>>
  BY DEF ConnectFailed, pollVars
<1>2. UNCHANGED <<queue, flags, cb>>
  BY <1>1 DEF vars, uvVars, cbVars
<1>3. ASSUME io \in OpenHandles, WatchOf(io), NEW h \in Handles, h = io PROVE WatchOf(h)'
  <2>1. Flush(h) /\ ~more
    BY <1>1, <1>3 DEF OpenHandles, WInv, TurnExact
  <2>2. writeQueue'[h] = <<>> /\ (writeQueue[h] = <<>> /\ completed[h] = <<>> => completed'[h] = <<>>)
    BY <2>1, FlushEmpties DEF SInv, Requested
  <2> QED BY <1>1, <1>2, <1>3, <2>1, <2>2 DEF WatchOf, Stream, NeverConnected
<1>4. TurnExact'
  BY <1>1 DEF TurnExact
<1>5. \A g \in Handles \ {io} : completed'[g] = completed[g] /\ writeQueue'[g] = writeQueue[g]
  BY <1>1 DEF Flush, SInv, Requested, ReqTypes
<1> QED BY <1>1, <1>2, <1>3, <1>4, <1>5, ServedWatched

\* uv__write that sends nothing asks for POLLOUT, and one that sends or fails
\* feeds the watcher; uv__udp_sendmsg leaves POLLOUT as it is.
LEMMA TransmitWatched ==
  ASSUME SInv, TInv, WInv, Transmit
  PROVE  WInv'
<1>1. PICK s \in Handles : s = io
  BY DEF Transmit, SInv, Requested, ReqTypes
<1> DEFINE q == writeQueue[s]
<1>2. /\ UNCHANGED <<vars, kind, sock, connectReq, delayed, reading, io, more>>
      /\ io # NULL /\ at = "write" /\ at' = "completed" /\ more /\ cb = "none"
  BY DEF Transmit, WInv, TurnExact
<1>3. UNCHANGED <<queue, flags, cb>>
  BY <1>2 DEF vars, uvVars, cbVars
<1>4. \/ q = <<>> /\ UNCHANGED <<writeQueue, completed, pollout, fed>>
      \/ q # <<>> /\ Flush(s) /\ fed \subseteq fed' /\ UNCHANGED pollout /\ ~Open(s)
      \/ q # <<>> /\ Open(s) /\ Stream(s) /\ SendFirst(s, q)
      \/ q # <<>> /\ Open(s) /\ ~Stream(s) /\ SendSome(s, q, FALSE)
  BY <1>1 DEF Transmit
<1>5. /\ writeQueue \in [Handles -> Seq(Requests)] /\ q \in Seq(Requests)
      /\ completed \in [Handles -> Seq(Requests)]
  BY DEF SInv, Requested, ReqTypes
<1>6. \A g \in Handles \ {s} : /\ completed'[g] = completed[g] /\ writeQueue'[g] = writeQueue[g]
                               /\ g \in pollout => g \in pollout'
                               /\ g \in fed => g \in fed'
  BY <1>4, <1>5 DEF Flush, SendFirst, SendSome, Sent
<1>7. ASSUME s \in OpenHandles, WatchOf(s) PROVE WatchOf(s)'
  <2>1. Open(s)
    BY <1>7 DEF OpenHandles
  <2>2. CASE q = <<>>
    BY <2>1, <2>2, <1>1, <1>2, <1>3, <1>4, <1>7 DEF WatchOf, Stream, NeverConnected
  <2>3. CASE q # <<>> /\ Stream(s) /\ SendFirst(s, q)
    <3>1. PICK n \in {0, 1}, bad \in SUBSET Range(q) :
            /\ Sent(s, q, n, bad)
            /\ pollout' = IF bad # {} THEN pollout \ {s}
                          ELSE IF n = 0 THEN pollout \cup {s} ELSE pollout
      BY <2>3 DEF SendFirst
    <3>2. n \in 0..Len(q)
      BY <2>3, <1>5, EmptySeq
    <3>3. (n > 0 => s \in fed') /\ (n = 0 => bad = {})
      BY <3>1, <3>2, <1>5, SentOrWatched
    <3>4. s \in fed' \/ s \in pollout'
      BY <3>1, <3>3
    <3>5. connectReq[s] = NULL \/ s \in delayed
      BY <1>1, <1>2, <1>7 DEF WatchOf
    <3>6. ~NeverConnected(s)' /\ Stream(s)'
      BY <1>2, <1>7, <2>3 DEF WatchOf, NeverConnected, Stream
    <3> QED BY <1>2, <3>4, <3>5, <3>6 DEF WatchOf, Watching
  <2>4. CASE q # <<>> /\ ~Stream(s) /\ SendSome(s, q, FALSE)
    <3>1. pollout' = pollout
      BY <2>4 DEF SendSome
    <3>2. s \in pollout /\ connectReq[s] = NULL
      BY <1>2, <1>7, <2>4 DEF WatchOf, Watching
    <3>3. ~NeverConnected(s)'
      BY <1>2, <2>4 DEF NeverConnected, Stream
    <3> QED BY <1>2, <3>1, <3>2, <3>3 DEF WatchOf, Watching
  <2> QED BY <2>1, <2>2, <2>3, <2>4, <1>4
<1>8. TurnExact'
  BY <1>2 DEF TurnExact
<1>9. ASSUME io \in OpenHandles, WatchOf(io), NEW h \in Handles, h = io PROVE WatchOf(h)'
  BY <1>1, <1>7, <1>9
<1>10. \A h \in Handles \ {io} : /\ completed'[h] = completed[h] /\ writeQueue'[h] = writeQueue[h]
                                 /\ h \in pollout => h \in pollout'
                                 /\ h \in fed => h \in fed'
  BY <1>1, <1>6
<1>11. /\ io # NULL /\ UNCHANGED <<queue, flags, kind, connectReq, delayed>>
       /\ sock' \in {sock, [sock EXCEPT ![io] = "shut"]}
       /\ io' \in {io, NULL} /\ reading' \subseteq reading
  BY <1>2, <1>3
<1> QED BY <1>8, <1>9, <1>10, <1>11, ServedWatched

\* WInv: the callback of a completed request.
LEMMA WriteCallbackWatched ==
  ASSUME SInv, TInv, WInv, NEW h \in Handles, WriteCallback(h)
  PROVE  WInv'
<1>1. /\ UNCHANGED <<kind, sock, connectReq, delayed, writeQueue, pollout, fed, reading, io, at, more>>
      /\ completed[h] # <<>>
      /\ io = h \/ finishing = h
  BY DEF WriteCallback, pollVars, ioVars
<1>2. UNCHANGED <<queue, flags>>
  BY DeliverStays DEF WriteCallback, vars, uvVars
<1>3. \A g \in Handles \ {h} : completed'[g] = completed[g]
  BY CallbackTakesFirst
<1>4. ASSUME NEW g \in OpenHandles \ {h}, WatchOf(g) PROVE WatchOf(g)'
  <2>1. SameSocket(g) /\ g \in Handles
    BY <1>1, <1>3, OpenTypes DEF SameSocket
  <2>2. io # g
    <3>1. finishing = h /\ finishing # NULL => io = NULL
      BY DEF TInv, PollExact, SInv, IInv, PhaseExact
    <3> QED BY <3>1, <1>1, NullAssumption, <2>1
  <2> QED BY <1>1, <1>4, <2>1, <2>2, OtherWatched
<1>5. ASSUME WatchOf(h) PROVE WatchOf(h)'
  <2>1. ~NeverConnected(h)'
    BY <1>1, <1>5 DEF WatchOf, NeverConnected
  <2> QED BY <1>1, <1>5, <2>1 DEF WatchOf, Watching, Stream
<1> QED BY <1>1, <1>2, <1>4, <1>5, WatchedNext DEF WInv, TurnExact

\* uv__drain ends the interest in POLLOUT only when nothing is queued.
LEMMA DrainWatched ==
  ASSUME SInv, TInv, WInv, NEW err \in BOOLEAN, Drain(err)
  PROVE  WInv'
<1>1. /\ UNCHANGED <<kind, connectReq, delayed, writeQueue, completed, reading, fed>>
      /\ io # NULL /\ at = "completed"
      /\ pollout' = IF more /\ writeQueue[io] = <<>> THEN pollout \ {io} ELSE pollout
      /\ sock' \in {sock, [sock EXCEPT ![io] = "shut"]}
      /\ io' = NULL /\ at' = "none" /\ more' = FALSE
  BY DEF Drain
<1>2. UNCHANGED <<queue, flags>>
  BY DeliverStays DEF Drain, vars, uvVars
<1>3. ASSUME WatchOf(io), NEW h \in Handles, h = io PROVE WatchOf(h)'
  <2>1. NeverConnected(h)' => NeverConnected(h)
    BY <1>1, <1>3 DEF NeverConnected, TInv, SockTypes
  <2> QED BY <1>1, <1>3, <2>1, NullAssumption DEF WatchOf, Watching, Stream
<1>4. TurnExact'
  BY <1>1 DEF TurnExact
<1> QED BY <1>1, <1>2, <1>3, <1>4, ServedWatched

\* What is cancelled is not open any more.
LEMMA CancelWatched ==
  ASSUME SInv, TInv, WInv, CancelConnect \/ CancelWrites \/ CancelShutdown
  PROVE  WInv'
<1>1. PICK h \in Handles : h = finishing
  BY DEF CancelConnect, CancelWrites, CancelShutdown, SInv, IInv, TypeOK
<1>2. h \notin OpenHandles /\ io = NULL
  BY <1>1, NullAssumption DEF SInv, IInv, PhaseExact, OpenHandles, Open, TInv, PollExact
<1>3. /\ UNCHANGED <<kind, sock, delayed, pollout, fed, reading, io, at, more>>
      /\ \A g \in Handles \ {h} : /\ connectReq'[g] = connectReq[g] /\ writeQueue'[g] = writeQueue[g]
                                 /\ completed'[g] = completed[g]
  BY <1>1 DEF CancelConnect, CancelWrites, CancelShutdown, Flush, pollVars, ioVars,
              SInv, Requested, ReqTypes
<1>4. UNCHANGED <<queue, flags>>
  BY DeliverStays DEF CancelConnect, CancelWrites, CancelShutdown, vars, uvVars
<1>5. ASSUME NEW g \in OpenHandles \ {h}, WatchOf(g) PROVE WatchOf(g)'
  <2>1. SameSocket(g) /\ g \in Handles /\ io # g
    BY <1>2, <1>3, OpenTypes DEF SameSocket
  <2> QED BY <1>3, <1>5, <2>1, OtherWatched
<1> QED BY <1>2, <1>3, <1>4, <1>5, WatchedNext DEF WInv, TurnExact

\* WInv is inductive.
LEMMA WatchedGoesOn ==
  ASSUME SInv, SInv', TInv, WInv, [SockNext]_allVars
  PROVE  WInv'
<1>1. CASE SocketCall
  BY <1>1, CreateWatched, HandleCallWatched, QuietCallWatched, WriteWatched, ShutdownWatched,
     ConnectWatched DEF SocketCall
<1>2. CASE SocketEvent
  BY <1>2, ServeWatched, StreamConnectWatched, ReadWatched, EndReadWatched, ConnectFailedWatched,
     TransmitWatched, WriteCallbackWatched, DrainWatched, CancelWatched DEF SocketEvent
<1>3. CASE ReturnCallback \/ EndClose \/ RunStep
  BY <1>3, HandleCallWatched, ClosingWatched
<1>4. CASE UNCHANGED allVars
  <2>1. UNCHANGED <<queue, flags, cb, handleVars, fed, reading, pollout, io, at, more>>
    BY <1>4 DEF allVars, vars, uvVars, cbVars, sockVars, pollVars, ioVars
  <2> QED BY <2>1, SameHandlesStayOpen, CloseWatched, OpenTypes
<1> QED BY <1>1, <1>2, <1>3, <1>4 DEF SockNext

\* WritesAreWatched.  On a socket that is open and not connecting no write or
\* send gets stuck: the loop polls for POLLOUT, has the watcher pending, or is
\* in a turn of the socket that still comes to the queue.
THEOREM WritesStayWatched == SockSpec => []WritesAreWatched
<1>1. SockInit => WInv
  BY DEF SockInit, Init, WInv, TurnExact, OpenHandles
<1>2. WInv => WritesAreWatched
  BY DEF WInv, WatchOf, Watching, WritesAreWatched, OnItsWay, OpenHandles
<1> QED BY <1>1, <1>2, SocketsStart, SocketsGoOn, TypesStart, TypesGoOn, WatchedGoesOn, PTL DEF SockSpec

-----------------------------------------------------------------------------
(* Nothing is forgotten.                                                   *)

\* UDP sockets have no uv_shutdown.
ShutdownStreams == \A h \in Handles : ~Stream(h) => shutdownReq[h] = NULL

FInv == SInv /\ TInv /\ WInv /\ ShutdownStreams

\* What NothingForgotten says of one handle.
NotForgotten(h) ==
  /\ Open(h) /\ connectReq[h] = NULL /\ OnItsWay(h)
  /\ Open(h)' /\ connectReq'[h] = NULL
  /\ shutdownReq'[h] # NULL \/ completed'[h] # <<>>
  => OnItsWay(h)'

\* A step that forgets nobody.
LEMMA Remembered ==
  ASSUME NEW h, h \in pollout \cup fed => h \in pollout' \cup fed',
         io = h /\ more => (io' = h /\ more') \/ h \in pollout' \cup fed'
  PROVE  NotForgotten(h)
BY DEF NotForgotten, OnItsWay

\* Closing forgets only the handle that closes.
LEMMA CloseRemembers ==
  ASSUME CloseDescriptor, UNCHANGED ioVars, NEW h \in queue
  PROVE  NotForgotten(h)
BY DEF CloseDescriptor, NotForgotten, OnItsWay, Open, ioVars

\* The calls on a socket.
LEMMA CallRemembers ==
  ASSUME FInv, SocketCall, NEW h \in queue
  PROVE  NotForgotten(h)
<1>1. CASE \E w \in Wrappers, g \in Handles, k \in {"tcp", "pipe", "udp"} : CreateSocket(w, g, k)
  <2>1. PICK w \in Wrappers, g \in Handles, k \in {"tcp", "pipe", "udp"} : CreateSocket(w, g, k)
    BY <1>1
  <2>2. g \notin queue
    BY <2>1 DEF CreateSocket, Create, FInv, SInv, IInv, MemorySafe
  <2> QED BY <2>1, <2>2, Remembered DEF CreateSocket, ioVars
<1>2. CASE HandleCall
  BY <1>2, CloseRemembers DEF HandleCall
<1>3. ASSUME NEW w \in Wrappers, NEW r \in Requests, NEW b \in BOOLEAN, Write(w, r, b)
      PROVE  NotForgotten(h)
  <2> DEFINE g == mHandle[w]
             q == Append(writeQueue[g], r)
  <2>1. UNCHANGED ioVars
    BY <1>3 DEF Write
  <2>2. /\ g \in Handles /\ q \in Seq(Requests)
        /\ writeQueue \in [Handles -> Seq(Requests)]
    BY <1>3, UsableHandle DEF Write, FInv, SInv, Requested, ReqTypes
  <2>3. \/ UNCHANGED fed /\ pollout \subseteq pollout'
        \/ SendFirst(g, q)
        \/ SendSome(g, q, TRUE)
    BY <1>3 DEF Write
  <2> HIDE DEF g, q
  <2>4. CASE SendFirst(g, q)
    <3>1. PICK n \in {0, 1}, bad \in SUBSET Range(q) :
            /\ Sent(g, q, n, bad)
            /\ pollout' = IF bad # {} THEN pollout \ {g}
                          ELSE IF n = 0 THEN pollout \cup {g} ELSE pollout
      BY <2>4 DEF SendFirst
    <3>2. n = 0 => bad = {}
      <4>1. SubSeq(q, 1, 0) = <<>>
        BY SubSeqEmpty
      <4> QED BY <3>1, <4>1, EmptyQueue DEF Sent
    <3>3. fed' = IF n > 0 THEN fed \cup {g} ELSE fed
      BY <3>1 DEF Sent
    <3> QED BY <2>1, <3>1, <3>2, <3>3, Remembered DEF ioVars
  <2>5. CASE SendSome(g, q, TRUE)
    <3>1. pollout \subseteq pollout' /\ fed \subseteq fed'
      BY <2>5 DEF SendSome, Sent
    <3> QED BY <2>1, <3>1, Remembered DEF ioVars
  <2> QED BY <2>1, <2>3, <2>4, <2>5, Remembered DEF ioVars
<1>4. ASSUME NEW w \in Wrappers, NEW r \in Requests, NEW b \in BOOLEAN,
             ConnectTcp(w, r, b) \/ ConnectPipe(w, r, b) \/ Shutdown(w, r)
      PROVE  NotForgotten(h)
  <2>1. UNCHANGED ioVars /\ pollout \subseteq pollout' /\ fed \subseteq fed'
    <3>1. CASE ConnectTcp(w, r, b)
      BY <3>1 DEF ConnectTcp
    <3>2. CASE ConnectPipe(w, r, b)
      BY <3>2 DEF ConnectPipe
    <3>3. CASE Shutdown(w, r)
      BY <3>3 DEF Shutdown
    <3> QED BY <1>4, <3>1, <3>2, <3>3
  <2> QED BY <2>1, Remembered DEF ioVars
<1>5. ASSUME NEW w \in Wrappers, \/ TryWrite(w) \/ OpenDescriptor(w) \/ ConnectTcpThrows(w)
                                 \/ StartRead(w) \/ StopRead(w)
      PROVE  NotForgotten(h)
  <2>1. UNCHANGED ioVars /\ pollout \cup fed \subseteq pollout' \cup fed'
    <3>1. CASE TryWrite(w)
      BY <3>1 DEF TryWrite
    <3>2. CASE ~TryWrite(w)
      BY <1>5, <3>2 DEF OpenDescriptor, ConnectTcpThrows, StartRead, StopRead, pollVars
    <3> QED BY <3>1, <3>2
  <2> QED BY <2>1, Remembered DEF ioVars
<1> QED BY <1>1, <1>2, <1>3, <1>4, <1>5 DEF SocketCall

\* uv__drain, which has done the shutdown or leaves the queue to a later turn.
LEMMA DrainRemembers ==
  ASSUME FInv, NEW err \in BOOLEAN, Drain(err), NEW h \in queue
  PROVE  NotForgotten(h)
<1>1. /\ completed[io] = <<>> /\ UNCHANGED <<kind, connectReq, writeQueue, completed, fed>>
      /\ pollout' = IF more /\ writeQueue[io] = <<>> THEN pollout \ {io} ELSE pollout
      /\ io # NULL /\ at = "completed" /\ io' = NULL /\ more' = FALSE
  BY DEF Drain
<1>2. CASE io # h
  BY <1>1, <1>2, Remembered
<1>3. CASE io = h /\ ~more
  BY <1>1, <1>3, Remembered
<1>4. CASE io = h /\ more
  <2> SUFFICES ASSUME Open(h), connectReq[h] = NULL, shutdownReq'[h] # NULL \/ completed'[h] # <<>>
               PROVE  h \in pollout' \cup fed'
    BY DEF NotForgotten, OnItsWay
  <2>1. h \in Handles /\ h \in OpenHandles
    BY OpenTypes DEF OpenHandles, FInv
  <2>2. CASE writeQueue[h] # <<>>
    <3>1. Watching(h)
      BY <2>1, <2>2 DEF FInv, WInv, WatchOf
    <3> QED BY <1>1, <1>4, <2>2, <3>1 DEF Watching
  <2>3. CASE writeQueue[h] = <<>>
    <3>1. shutdownReq[h] # NULL => Stream(h)
      BY <2>1 DEF FInv, ShutdownStreams
    <3>2. shutdownReq'[h] = NULL
      <4>1. shutdownReq \in [Handles -> Requests \cup {NULL}]
        BY DEF FInv, SInv, Requested, ReqTypes
      <4> QED BY <1>4, <2>1, <2>3, <3>1, <4>1 DEF Drain
    <3> QED BY <1>1, <1>4, <3>2
  <2> QED BY <2>2, <2>3
<1> QED BY <1>2, <1>3, <1>4

\* The loop's turn of a socket.
LEMMA EventRemembers ==
  ASSUME FInv, SocketEvent, NEW h \in queue
  PROVE  NotForgotten(h)
<1>1. ASSUME NEW g \in Handles, NEW rd \in BOOLEAN, NEW wr \in BOOLEAN, Serve(g, rd, wr)
      PROVE  NotForgotten(h)
  <2>1. io = NULL /\ io' = g /\ UNCHANGED pollout
    BY <1>1 DEF Serve, Awakened
  <2>2. h # NULL
    BY NullAssumption DEF FInv, SInv, IInv, TypeOK
  <2>3. h \in fed => h \in fed' \/ (h = g /\ wr)
    BY <1>1 DEF Serve, Awakened
  <2>4. more' = wr
    BY <1>1 DEF Serve
  <2> QED BY <2>1, <2>2, <2>3, <2>4 DEF NotForgotten, OnItsWay
<1>2. ASSUME NEW g \in Handles, NEW err \in BOOLEAN, StreamConnect(g, err)
      PROVE  NotForgotten(h)
  <2>1. /\ connectReq[g] # NULL /\ io = NULL
        /\ \A x \in {h} \ {g} : (x \in pollout => x \in pollout') /\ (x \in fed => x \in fed')
    BY <1>2 DEF StreamConnect, Awakened
  <2>2. CASE h = g
    BY <2>1, <2>2 DEF NotForgotten
  <2>3. CASE h # g
    <3>1. h # NULL
      BY NullAssumption DEF FInv, SInv, IInv, TypeOK
    <3> QED BY <2>1, <2>3, <3>1, Remembered
  <2> QED BY <2>2, <2>3
<1>3. ASSUME NEW g \in Handles, ServeClosed(g) \/ StillConnecting(g)
      PROVE  NotForgotten(h)
  <2>1. /\ UNCHANGED <<pollout, io, more>> /\ (h # g => (h \in fed => h \in fed'))
        /\ h = g => ~Open(h) \/ connectReq[h] # NULL
    BY <1>3 DEF ServeClosed, StillConnecting, Awakened, ioVars
  <2> QED BY <2>1, Remembered DEF NotForgotten
<1>4. CASE (\E g \in Handles : WriteCallback(g)) \/ CancelConnect \/ CancelWrites \/ CancelShutdown
  <2>1. UNCHANGED <<pollVars, ioVars>>
    BY <1>4 DEF WriteCallback, CancelConnect, CancelWrites, CancelShutdown
  <2> QED BY <2>1, Remembered DEF pollVars, ioVars
<1>5. CASE \E k \in {"notify", "error", "readError"},
              next \in {"read", "eof", "stopRead", "readDone"} : Read(k, next)
  BY <1>5, Remembered DEF Read, pollVars
<1>6. CASE \E err \in BOOLEAN : Drain(err)
  BY <1>6, DrainRemembers
<1>7. CASE ConnectFailed
  <2>1. UNCHANGED <<pollout, fed, more>> /\ (Open(io) => UNCHANGED io)
    BY <1>7 DEF ConnectFailed, pollVars
  <2> QED BY <2>1, Remembered DEF NotForgotten
<1>8. CASE EndRead
  <2>1. UNCHANGED <<pollout, fed>> /\ (more /\ Open(io) => UNCHANGED <<io, more>>)
    BY <1>8 DEF EndRead
  <2> QED BY <2>1, Remembered DEF NotForgotten
<1>9. CASE Transmit
  <2>1. UNCHANGED <<io, more>> /\ more
    BY <1>9 DEF Transmit, FInv, WInv, TurnExact
  <2>2. CASE h = io
    BY <2>1, <2>2 DEF NotForgotten, OnItsWay
  <2>3. CASE h # io
    <3>1. io \in Handles /\ h \in Handles
      BY <1>9 DEF Transmit, FInv, SInv, Requested, ReqTypes, IInv, TypeOK
    <3>2. (h \in pollout => h \in pollout') /\ (h \in fed => h \in fed')
      BY <1>9, <2>3 DEF Transmit, SendFirst, SendSome, Sent
    <3> QED BY <2>1, <2>3, <3>2, Remembered
  <2> QED BY <2>2, <2>3
<1> QED BY <1>1, <1>2, <1>3, <1>4, <1>5, <1>6, <1>7, <1>8, <1>9 DEF SocketEvent

\* A shutdown request is made of a stream, and a new socket has none.
LEMMA ShutdownStreamsKept ==
  ASSUME FInv, [SockNext]_allVars
  PROVE  ShutdownStreams'
<1>1. SInv /\ ShutdownStreams /\ shutdownReq \in [Handles -> Requests \cup {NULL}]
      /\ kind \in [Handles -> {"tcp", "pipe", "udp"}]
  BY DEF FInv, SInv, Requested, ReqTypes, TInv, SockTypes
<1>2. CASE UNCHANGED <<kind, shutdownReq>>
  BY <1>1, <1>2 DEF ShutdownStreams, Stream
<1>3. ASSUME NEW w \in Wrappers, NEW g \in Handles, NEW k \in {"tcp", "pipe", "udp"}, CreateSocket(w, g, k)
      PROVE  ShutdownStreams'
  <2>1. RequestsOf(g) = {}
    BY <1>1, <1>3, OnePlace DEF Places, Requested, CreateSocket, Create, SInv, IInv, MemorySafe
  <2>2. shutdownReq[g] = NULL
    BY <2>1 DEF RequestsOf
  <2> QED BY <1>1, <1>3, <2>2 DEF CreateSocket, ShutdownStreams, Stream
<1>4. ASSUME NEW w \in Wrappers, NEW r \in Requests, Shutdown(w, r)
      PROVE  ShutdownStreams'
  BY <1>1, <1>4 DEF Shutdown, ShutdownStreams, Stream
<1>5. CASE (\E err \in BOOLEAN : Drain(err)) \/ CancelShutdown
  <2>1. UNCHANGED kind /\ \A h \in Handles : shutdownReq'[h] \in {shutdownReq[h], NULL}
    BY <1>1, <1>5 DEF Drain, CancelShutdown
  <2> QED BY <1>1, <2>1 DEF ShutdownStreams, Stream
<1>6. CASE SocketCall
  <2>1. CASE \E w \in Wrappers, r \in Requests, b \in BOOLEAN :
               Write(w, r, b) \/ ConnectTcp(w, r, b) \/ ConnectPipe(w, r, b)
    <3>1. PICK w \in Wrappers, r \in Requests, b \in BOOLEAN :
               Write(w, r, b) \/ ConnectTcp(w, r, b) \/ ConnectPipe(w, r, b)
      BY <2>1
    <3>2. CASE Write(w, r, b)
      BY <1>2, <3>2 DEF Write
    <3>3. CASE ConnectTcp(w, r, b)
      BY <1>2, <3>3 DEF ConnectTcp
    <3>4. CASE ConnectPipe(w, r, b)
      BY <1>2, <3>4 DEF ConnectPipe
    <3> QED BY <3>1, <3>2, <3>3, <3>4
  <2>2. CASE HandleCall
    BY <1>2, <2>2 DEF HandleCall, handleVars
  <2>3. CASE \E w \in Wrappers : \/ TryWrite(w) \/ OpenDescriptor(w) \/ ConnectTcpThrows(w)
                                 \/ StartRead(w) \/ StopRead(w)
    BY <1>2, <2>3 DEF TryWrite, OpenDescriptor, ConnectTcpThrows, StartRead, StopRead, handleVars
  <2> QED BY <1>3, <1>4, <1>6, <2>1, <2>2, <2>3 DEF SocketCall
<1>7. CASE SocketEvent
  <2>1. CASE \E g \in Handles : \/ \E rd, wr \in BOOLEAN : Serve(g, rd, wr)
                                \/ \E err \in BOOLEAN : StreamConnect(g, err)
                                \/ ServeClosed(g) \/ StillConnecting(g) \/ WriteCallback(g)
    BY <1>2, <2>1 DEF Serve, StreamConnect, ServeClosed, StillConnecting, WriteCallback, handleVars
  <2>2. CASE \/ \E k \in {"notify", "error", "readError"},
                   next \in {"read", "eof", "stopRead", "readDone"} : Read(k, next)
             \/ ConnectFailed \/ EndRead \/ Transmit \/ CancelConnect \/ CancelWrites
    BY <1>2, <2>2 DEF Read, ConnectFailed, EndRead, Transmit, CancelConnect, CancelWrites, handleVars
  <2> QED BY <1>5, <1>7, <2>1, <2>2 DEF SocketEvent
<1>8. CASE ReturnCallback \/ EndClose \/ RunStep \/ UNCHANGED allVars
  BY <1>2, <1>8 DEF ReturnCallback, EndClose, RunStep, allVars, sockVars, handleVars
<1> QED BY <1>6, <1>7, <1>8 DEF SockNext

\* NothingForgotten.  While a socket stays open and unconnected to nothing else,
\* no call, no failure of a write, no read and no end of a turn makes the loop
\* forget its shutdown or the callback of a write that is done.
THEOREM ShutdownsNotForgotten == SockSpec => NothingForgotten
<1> DEFINE P == \A h \in queue : NotForgotten(h)
<1>1. SockInit => WInv /\ ShutdownStreams
  BY DEF SockInit, Init, WInv, TurnExact, OpenHandles, ShutdownStreams
<1>2. FInv /\ [SockNext]_allVars => [P]_allVars
  <2> SUFFICES ASSUME FInv, SockNext, NEW h \in queue PROVE NotForgotten(h)
    OBVIOUS
  <2>1. CASE ReturnCallback
    BY <2>1, CloseRemembers DEF ReturnCallback
  <2>2. CASE EndClose \/ RunStep
    BY <2>2, Remembered DEF EndClose, RunStep, sockVars, pollVars, ioVars
  <2> QED BY <2>1, <2>2, CallRemembers, EventRemembers DEF SockNext
<1>3. SInv /\ SInv' /\ TInv /\ WInv /\ ShutdownStreams /\ [SockNext]_allVars => WInv' /\ ShutdownStreams'
  BY WatchedGoesOn, ShutdownStreamsKept DEF FInv
<1> QED BY <1>1, <1>2, <1>3, SocketsStart, SocketsGoOn, TypesStart, TypesGoOn, PTL
        DEF SockSpec, FInv, NothingForgotten, NotForgotten
=============================================================================
