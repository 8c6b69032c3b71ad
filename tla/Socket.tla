-------------------------------- MODULE Socket --------------------------------
(***************************************************************************)
(* TcpSocket, Pipe and UdpSocket over libuv's uv_stream_t and uv_udp_t:    *)
(* the requests user code makes of a socket, the queues they wait in, the  *)
(* loop's interest in the descriptor, and the callbacks that answer them.  *)
(* The handles and wrappers are AsyncHandle's.  A callback may call any    *)
(* socket, so libuv's loops over a queue are steps of their own.           *)
(*                                                                         *)
(* Bytes are not modelled: a request is sent, refused or has to wait.      *)
(* `active` is not followed here, and listening sockets are left out.      *)
(***************************************************************************)
EXTENDS AsyncHandle

CONSTANT Requests   \* addresses of the requests' memory

ASSUME RequestsAssumption == NULL \notin Requests

VARIABLES
  \* of each handle
  kind,          \* "tcp", "pipe" or "udp"
  sock,          \* the descriptor: "none", "made" but not connected, "open",
                 \* or "shut" for writing
  connectReq,    \* connect_req
  delayed,       \* the handles whose delayed_error is set
  shutdownReq,   \* shutdown_req, which stands for UV_HANDLE_SHUTTING too
  writeQueue,    \* write_queue
  completed,     \* write_completed_queue
  \* of the loop
  reading,       \* handles with UV_HANDLE_READING, or a recv_cb
  pollin,        \* handles polled for POLLIN
  pollout,       \* handles polled for POLLOUT
  fed,           \* handles in loop->pending_queue
  io,            \* the handle inside uv__stream_io or uv__udp_io, or NULL
  at,            \* how far that has got
  more,          \* whether it goes on to write (in "read"), or to drain
  \* of Moe.UV
  reqs,          \* allocated requests
  noCopy,        \* those of WriteNoCopy or SendNoCopy, which have a callback
  failed,        \* those with an error
  held,          \* the request a handler on the stack owns, or NULL
  lost           \* requests nothing points to any more

handleVars == <<kind, sock, connectReq, delayed, shutdownReq, writeQueue, completed>>
pollVars   == <<reading, pollin, pollout, fed>>
ioVars     == <<io, at, more>>
reqVars    == <<reqs, noCopy, failed, held, lost>>
sockVars   == <<handleVars, pollVars, ioVars, reqVars>>
allVars    == <<vars, sockVars>>

SockInit ==
  /\ Init
  /\ kind = [h \in Handles |-> "tcp"]
  /\ sock = [h \in Handles |-> "none"]
  /\ connectReq = [h \in Handles |-> NULL] /\ shutdownReq = [h \in Handles |-> NULL]
  /\ writeQueue = [h \in Handles |-> <<>>] /\ completed = [h \in Handles |-> <<>>]
  /\ delayed = {} /\ reading = {} /\ pollin = {} /\ pollout = {} /\ fed = {}
  /\ io = NULL /\ at = "none" /\ more = FALSE
  /\ reqs = {} /\ noCopy = {} /\ failed = {} /\ held = NULL /\ lost = {}

Stream(h) == kind[h] # "udp"
Open(h)   == flags[h] = "open"

\* MOE_UV_GET_HANDLE: a wrapper that is closing throws.
Usable(w) == InUserCode /\ w \in alive /\ ~IsClosing(w)

-----------------------------------------------------------------------------
(* Handles.                                                                *)

\* uv__stream_close, uv__udp_close: uv_close takes the descriptor away, with
\* everything the loop was to do about it.
CloseDescriptor ==
  LET shut == {h \in queue : flags[h] = "open" /\ flags'[h] # "open"}
  IN /\ reading' = reading \ shut
     /\ pollin' = pollin \ shut
     /\ pollout' = pollout \ shut
     /\ fed' = fed \ shut

\* X::Create, and what Accept or Open make of it.  (Had the freed handle at
\* this address still been in fed, anything could happen from here; the model
\* goes on without the entry.)
CreateSocket(w, h, k) ==
  /\ Create(w, h, FALSE)
  /\ kind' = [kind EXCEPT ![h] = k]
  /\ sock' = [sock EXCEPT ![h] = IF k = "udp" THEN "open" ELSE "none"]
  /\ delayed' = delayed \ {h} /\ fed' = fed \ {h}
  /\ UNCHANGED <<connectReq, shutdownReq, writeQueue, completed, reading, pollin, pollout,
                 ioVars, reqVars>>

\* The calls that may close or free a handle.
HandleCall ==
  /\ \/ \E w \in Wrappers : Close(w) \/ DestroyOpen(w) \/ DestroyClosed(w)
     \/ \E w, org \in Wrappers : MoveConstruct(w, org) \/ MoveAssign(w, org)
  /\ CloseDescriptor
  /\ UNCHANGED <<handleVars, ioVars, reqVars>>

-----------------------------------------------------------------------------
(* Requests.  (A name with an underscore is a faulty variant, as before.)    *)

\* MOE_UV_NEW and release() after libuv has taken the request.
Allocate(r, isNoCopy) ==
  /\ r \notin reqs
  /\ reqs' = reqs \cup {r}
  /\ noCopy' = IF isNoCopy THEN noCopy \cup {r} ELSE noCopy

\* A request freed with its answer still noted.
Free_KeepsNotes(r) ==
  /\ reqs' = reqs \ {r}
  /\ UNCHANGED <<noCopy, failed>>

Free(r) ==
  /\ reqs' = reqs \ {r}
  /\ noCopy' = noCopy \ {r}
  /\ failed' = failed \ {r}

\* A libuv callback that ends request r of h: the handler owns the request
\* while it calls user code, but leaves at once if no wrapper is left.
Deliver(h, r, k) ==
  /\ cb = "none"
  /\ \/ /\ data[h] = NULL
        /\ Free(r)
        /\ UNCHANGED <<vars, held>>
     \/ /\ data[h] # NULL
        /\ \/ finishing = NULL /\ Event(h, k) /\ UNCHANGED active
           \/ finishing = h /\ CancelRequest(k)
        /\ held' = r
        /\ UNCHANGED <<reqs, noCopy, failed>>
  /\ UNCHANGED lost

\* The handler's user function returns; with the last of them the request goes.
ReturnCallback ==
  /\ CallbackReturns
  /\ CloseDescriptor
  /\ IF cb' = "none" THEN Free(held) /\ held' = NULL
                     ELSE UNCHANGED <<reqs, noCopy, failed, held>>
  /\ UNCHANGED <<handleVars, ioVars, lost>>

-----------------------------------------------------------------------------
(* Writing.                                                                *)

\* uv_write2 and uv_pipe_open set UV_HANDLE_WRITABLE with the descriptor,
\* except that uv_pipe_connect to a name that fails leaves one without.
Writable(h) == \/ sock[h] \in {"open", "shut"}
               \/ sock[h] = "made" /\ kind[h] = "tcp"

\* write_queue_size # 0, or send_queue_count # 0: also a request that has
\* failed counts until its callback, and for UDP any.
Busy(h) ==
  \/ writeQueue[h] # <<>>
  \/ Range(completed[h]) \cap failed # {}
  \/ ~Stream(h) /\ completed[h] # <<>>

\* The first n requests of q are handed to the kernel, which refuses those in
\* bad; the rest has to wait.  A socket that is not connected, or shut for
\* writing, refuses everything.
Sent(h, q, n, bad) ==
  /\ bad \subseteq Range(SubSeq(q, 1, n))
  /\ sock[h] # "open" => n > 0 /\ bad # {}
  /\ completed' = [completed EXCEPT ![h] = @ \o SubSeq(q, 1, n)]
  /\ writeQueue' = [writeQueue EXCEPT ![h] = SubSeq(q, n + 1, Len(q))]
  /\ failed' = failed \cup bad
  /\ fed' = IF n > 0 THEN fed \cup {h} ELSE fed

\* uv__write on the queue q: one request, which ends the interest in POLLOUT
\* when it fails, or asks for it when it has to wait.
SendFirst(h, q) ==
  \E n \in {0, 1}, bad \in SUBSET Range(q) :
    /\ Sent(h, q, n, bad)
    /\ pollout' = IF bad # {} THEN pollout \ {h}
                  ELSE IF n = 0 THEN pollout \cup {h} ELSE pollout

\* uv__udp_sendmsg on the queue q: any number of requests, and POLLOUT for the
\* rest if this is uv__udp_send (inline).
SendSome(h, q, inline) ==
  \E n \in 0..Len(q), bad \in SUBSET Range(q) :
    /\ Sent(h, q, n, bad)
    /\ pollout' = IF inline /\ n < Len(q) THEN pollout \cup {h} ELSE pollout

\* UV_HANDLE_UDP_PROCESSING
Processing(h) == io = h /\ at = "completed" /\ ~Stream(h)

\* Stream::Write, UdpSocket::Send (FALSE), WriteNoCopy, SendNoCopy (TRUE).
Write(w, r, isNoCopy) ==
  LET h == mHandle[w]
      q == Append(writeQueue[h], r)
      queueUp == /\ writeQueue' = [writeQueue EXCEPT ![h] = q]
                 /\ UNCHANGED <<completed, failed, fed>>
  IN /\ Usable(w) /\ Writable(h)
     /\ Allocate(r, isNoCopy)
     /\ \/ connectReq[h] # NULL /\ queueUp /\ UNCHANGED pollout
        \/ /\ connectReq[h] = NULL /\ ~Busy(h) /\ ~Processing(h)
           /\ IF Stream(h) THEN SendFirst(h, q) ELSE SendSome(h, q, TRUE)
        \/ /\ connectReq[h] = NULL /\ (Busy(h) \/ Processing(h))
           /\ queueUp /\ pollout' = pollout \cup {h}
     /\ UNCHANGED <<vars, kind, sock, connectReq, delayed, shutdownReq, reading, pollin,
                    ioVars, held, lost>>

\* A uv_try_write that always ends the interest in POLLOUT.
TryWrite_StopsPolling(w) ==
  LET h == mHandle[w]
  IN /\ Usable(w) /\ Writable(h) /\ Stream(h)
     /\ connectReq[h] = NULL /\ ~Busy(h)
     /\ \/ fed' = fed \cup {h}
        \/ UNCHANGED fed
     /\ pollout' = pollout \ {h}
     /\ UNCHANGED <<vars, handleVars, reading, pollin, ioVars, reqVars>>

\* Stream::TryWrite when nothing is queued: all of it written, or refused,
\* through a request that is done with at once but for the watcher it has fed;
\* or part or nothing, and only then the interest in POLLOUT is as before.
TryWrite(w) ==
  LET h == mHandle[w]
  IN /\ Usable(w) /\ Writable(h) /\ Stream(h)
     /\ connectReq[h] = NULL /\ ~Busy(h)
     /\ fed' = fed \cup {h}
     /\ \/ sock[h] = "open" /\ UNCHANGED pollout
        \/ pollout' = pollout \ {h}
     /\ UNCHANGED <<vars, handleVars, reading, pollin, ioVars, reqVars>>

\* Stream::Shutdown
Shutdown(w, r) ==
  LET h == mHandle[w]
  IN /\ Usable(w) /\ Stream(h) /\ Writable(h)
     /\ sock[h] # "shut" /\ shutdownReq[h] = NULL
     /\ Allocate(r, FALSE)
     /\ shutdownReq' = [shutdownReq EXCEPT ![h] = r]
     /\ pollout' = pollout \cup {h}
     /\ UNCHANGED <<vars, kind, sock, connectReq, delayed, writeQueue, completed,
                    reading, pollin, fed, ioVars, failed, held, lost>>

-----------------------------------------------------------------------------
(* Connecting and reading.                                                 *)

\* TcpSocket::Open, Pipe::Open, and the socket that Accept returns.
OpenDescriptor(w) ==
  LET h == mHandle[w]
  IN /\ Usable(w) /\ Stream(h) /\ sock[h] = "none"
     /\ sock' = [sock EXCEPT ![h] = "open"]
     /\ UNCHANGED <<vars, kind, connectReq, delayed, shutdownReq, writeQueue, completed,
                    pollVars, ioVars, reqVars>>

\* TcpSocket::Connect; ECONNREFUSED is kept for the next iteration.  A failed
\* connect may be repeated, also from OnConnect.  (From another callback of the
\* same socket, which could only be OnError or OnWrite, uv__drain would then make
\* the loop forget the connect: that is left out.)
ConnectTcp(w, r, refused) ==
  LET h == mHandle[w]
  IN /\ Usable(w) /\ kind[h] = "tcp" /\ sock[h] \in {"none", "made"}
     /\ connectReq[h] = NULL
     /\ io = h => at = "connectFailed"
     /\ Allocate(r, FALSE)
     /\ sock' = [sock EXCEPT ![h] = "open"]
     /\ connectReq' = [connectReq EXCEPT ![h] = r]
     /\ pollout' = pollout \cup {h}
     /\ IF refused THEN delayed' = delayed \cup {h} /\ fed' = fed \cup {h}
                   ELSE delayed' = delayed \ {h} /\ UNCHANGED fed
     /\ UNCHANGED <<vars, kind, shutdownReq, writeQueue, completed, reading, pollin,
                    ioVars, failed, held, lost>>

\* TcpSocket::Connect that throws another error of connect(2).
ConnectTcpThrows(w) ==
  LET h == mHandle[w]
  IN /\ Usable(w) /\ kind[h] = "tcp" /\ sock[h] = "none"
     /\ sock' = [sock EXCEPT ![h] = "made"]
     /\ UNCHANGED <<vars, kind, connectReq, delayed, shutdownReq, writeQueue, completed,
                    pollVars, ioVars, reqVars>>

\* Pipe::Connect never fails: an error is kept for the next iteration, and an
\* earlier request is overwritten.  A descriptor left by a failed Connect does
\* not become writable; one that is connecting is polled for POLLIN too.
ConnectPipe(w, r, fails) ==
  LET h == mHandle[w]
  IN /\ Usable(w) /\ kind[h] = "pipe"
     /\ sock[h] \in {"open", "shut"} => fails
     /\ Allocate(r, FALSE)
     /\ connectReq' = [connectReq EXCEPT ![h] = r]
     /\ lost' = lost \cup ({connectReq[h]} \ {NULL})
     /\ IF fails
        THEN /\ delayed' = delayed \cup {h} /\ fed' = fed \cup {h}
             /\ sock' = [sock EXCEPT ![h] = IF @ = "none" THEN "made" ELSE @]
             /\ UNCHANGED <<pollin, pollout>>
        ELSE /\ delayed' = delayed \ {h}
             /\ pollin' = pollin \cup {h} /\ pollout' = pollout \cup {h}
             /\ sock' = [sock EXCEPT ![h] = IF @ = "none" THEN "open" ELSE @]
             /\ UNCHANGED fed
     /\ UNCHANGED <<vars, kind, shutdownReq, writeQueue, completed, reading,
                    ioVars, failed, held>>

\* Stream::StartRead, UdpSocket::StartRead
StartRead(w) ==
  LET h == mHandle[w]
  IN /\ Usable(w) /\ Writable(h)
     /\ reading' = reading \cup {h} /\ pollin' = pollin \cup {h}
     /\ UNCHANGED <<vars, handleVars, pollout, fed, ioVars, reqVars>>

\* uv_read_stop and uv__udp_recv_stop; a stream that is not reading stays as it
\* is, also if Pipe::Connect has made the loop poll it for POLLIN.
StopReading(h) ==
  /\ reading' = reading \ {h}
  /\ pollin' = IF h \in reading THEN pollin \ {h} ELSE pollin

\* Stream::StopRead, UdpSocket::StopRead
StopRead(w) ==
  /\ Usable(w) /\ StopReading(mHandle[w])
  /\ UNCHANGED <<vars, handleVars, pollout, fed, ioVars, reqVars>>

-----------------------------------------------------------------------------
(* The loop serves a socket: uv__stream_io, uv__udp_io.                     *)

\* h's turn comes from the pending queue, which means POLLOUT, or from the poll.
\* A stream also hears of errors and hang-ups while it is polled for anything;
\* they count as both.
Awakened(h, rd, wr) ==
  /\ phase = "events" /\ Idle /\ io = NULL /\ h \in queue /\ Open(h)
  /\ \/ h \in fed /\ fed' = fed \ {h} /\ ~rd /\ wr
     \/ /\ h \in pollin \cup pollout
        /\ rd => h \in reading
        /\ wr => h \in pollout \/ Stream(h)
        /\ rd \/ wr
        /\ UNCHANGED fed

Serve(h, rd, wr) ==
  /\ Awakened(h, rd, wr) /\ connectReq[h] = NULL
  /\ io' = h /\ at' = (IF rd THEN "read" ELSE "write") /\ more' = wr
  /\ UNCHANGED <<vars, handleVars, reading, pollin, pollout, reqVars>>

\* uv__udp_io of a handle that was fed after its close finds nothing to send.
ServeClosed(h) ==
  /\ phase = "events" /\ Idle /\ io = NULL
  /\ h \in fed /\ h \in mem /\ ~Open(h)
  /\ fed' = fed \ {h}
  /\ UNCHANGED <<vars, handleVars, reading, pollin, pollout, ioVars, reqVars>>

\* uv__stream_connect that stops polling for POLLOUT whatever is queued.
StreamConnect_StopsPolling(h, err) ==
  /\ Awakened(h, FALSE, TRUE)
  /\ connectReq[h] # NULL /\ (h \in delayed => err)
  /\ connectReq' = [connectReq EXCEPT ![h] = NULL]
  /\ delayed' = delayed \ {h}
  /\ sock' = IF err /\ kind[h] = "tcp" THEN [sock EXCEPT ![h] = "made"] ELSE sock
  /\ pollout' = pollout \ {h}
  /\ Deliver(h, connectReq[h], IF err /\ kind[h] = "pipe" THEN "error" ELSE "notify")
  /\ IF err THEN io' = h /\ at' = "connectFailed" /\ more' = FALSE ELSE UNCHANGED ioVars
  /\ UNCHANGED <<kind, shutdownReq, writeQueue, completed, reading, pollin>>

\* uv__stream_connect: the connection is there or has failed.  A Pipe's handler
\* closes it after an error, a TcpSocket's only tells.
StreamConnect(h, err) ==
  /\ Awakened(h, FALSE, TRUE)
  /\ connectReq[h] # NULL /\ (h \in delayed => err)
  /\ connectReq' = [connectReq EXCEPT ![h] = NULL]
  /\ delayed' = delayed \ {h}
  /\ sock' = IF err /\ kind[h] = "tcp" THEN [sock EXCEPT ![h] = "made"] ELSE sock
  /\ pollout' = IF err \/ writeQueue[h] = <<>> THEN pollout \ {h} ELSE pollout
  /\ Deliver(h, connectReq[h], IF err /\ kind[h] = "pipe" THEN "error" ELSE "notify")
  /\ IF err THEN io' = h /\ at' = "connectFailed" /\ more' = FALSE ELSE UNCHANGED ioVars
  /\ UNCHANGED <<kind, shutdownReq, writeQueue, completed, reading, pollin>>

\* uv__stream_connect before the connection is decided: the turn is spent.
StillConnecting(h) ==
  /\ Awakened(h, FALSE, TRUE) /\ connectReq[h] # NULL /\ h \notin delayed
  /\ UNCHANGED <<vars, handleVars, reading, pollin, pollout, ioVars, reqVars>>

\* uv__stream_flush_write_queue that puts the requests in front.
Flush_InFront(h) ==
  /\ completed' = [completed EXCEPT ![h] = writeQueue[h] \o @]
  /\ writeQueue' = [writeQueue EXCEPT ![h] = <<>>]
  /\ failed' = failed \cup Range(writeQueue[h])

\* uv__stream_flush_write_queue: everything not sent is cancelled.
Flush(h) ==
  /\ completed' = [completed EXCEPT ![h] = @ \o writeQueue[h]]
  /\ writeQueue' = [writeQueue EXCEPT ![h] = <<>>]
  /\ failed' = failed \cup Range(writeQueue[h])

\* After a failed connect: if the callback left the socket open, the writes that
\* waited for the connection, or were queued by the callback, are cancelled.
ConnectFailed ==
  /\ io # NULL /\ at = "connectFailed" /\ cb = "none"
  /\ IF Open(io) THEN Flush(io) /\ at' = "completed" /\ UNCHANGED io
                 ELSE io' = NULL /\ at' = "none" /\ UNCHANGED <<completed, writeQueue, failed>>
  /\ UNCHANGED <<vars, kind, sock, connectReq, delayed, shutdownReq, pollVars, more,
                 reqs, noCopy, held, lost>>

\* One read(2) or recvmsg: OnData, and on; OnEof, with no more interest in
\* POLLIN (uv__stream_eof); or OnError.  Without memory for the buffer, which is an
\* error too, a stream goes on reading.
Read(k, next) ==
  /\ io # NULL /\ at = "read" /\ io \in reading
  /\ \/ k = "notify" /\ next = "read"
     \/ k = "notify" /\ next = "eof" /\ Stream(io)
     \/ k = "readError" /\ next \in {"stopRead", "readDone"} /\ Stream(io)
     \/ k = "error" /\ next = "readDone" /\ ~Stream(io)
  /\ Idle /\ Event(io, k) /\ UNCHANGED active
  /\ at' = next
  /\ pollin' = IF next = "eof" THEN pollin \ {io} ELSE pollin
  /\ UNCHANGED <<handleVars, reading, pollout, fed, io, more, reqVars>>

\* What uv__read does after the callback: after an error or the end of file
\* reading stops, also if the callback has started it again.  If OnEof has, the
\* loop goes on to poll for POLLIN, with nobody to read.
StopsReading ==
  IF at = "stopRead" THEN StopReading(io)
  ELSE /\ reading' = IF at = "eof" THEN reading \ {io} ELSE reading
       /\ UNCHANGED pollin

\* An uv__stream_io that returns after reading.
EndRead_ThenReturns ==
  /\ io # NULL /\ at \in {"read", "eof", "stopRead", "readDone"} /\ cb = "none"
  /\ StopsReading
  /\ at' = "none" /\ io' = NULL /\ more' = FALSE
  /\ UNCHANGED <<vars, handleVars, pollout, fed, reqVars>>

\* uv__read is over.  Writing follows if the poll said so, for a stream only if
\* the callback has not closed it.
EndRead ==
  /\ io # NULL /\ at \in {"read", "eof", "stopRead", "readDone"} /\ cb = "none"
  /\ StopsReading
  /\ IF more /\ (Open(io) \/ ~Stream(io)) THEN at' = "write" /\ UNCHANGED <<io, more>>
                                          ELSE at' = "none" /\ io' = NULL /\ more' = FALSE
  /\ UNCHANGED <<vars, handleVars, pollout, fed, reqVars>>

\* uv__write or uv__udp_sendmsg.  A datagram socket that the read callback has
\* closed refuses everything, and its watcher is fed again unless the close
\* found it fed.
Transmit ==
  /\ io # NULL /\ at = "write" /\ cb = "none"
  /\ IF writeQueue[io] = <<>>
     THEN UNCHANGED <<writeQueue, completed, failed, pollout, fed>>
     ELSE IF ~Open(io)
     THEN Flush(io) /\ fed' \in {fed, fed \cup {io}} /\ UNCHANGED pollout
     ELSE IF Stream(io) THEN SendFirst(io, writeQueue[io])
                        ELSE SendSome(io, writeQueue[io], FALSE)
  /\ at' = "completed" /\ UNCHANGED <<io, more>>
  /\ UNCHANGED <<vars, kind, sock, connectReq, delayed, shutdownReq, reading, pollin,
                 reqs, noCopy, held, lost>>

\* One turn of uv__write_callbacks or uv__udp_run_completed: OnUVWrite, OnUVSend.
WriteCallback(h) ==
  LET r == Head(completed[h])
  IN /\ \/ io = h /\ at = "completed"
        \/ finishing = h /\ connectReq[h] = NULL /\ writeQueue[h] = <<>>
     /\ cb = "none" /\ completed[h] # <<>>
     /\ completed' = [completed EXCEPT ![h] = Tail(@)]
     /\ IF r \in failed \cup noCopy
        THEN Deliver(h, r, IF r \notin failed THEN "notify"
                           ELSE IF r \in noCopy THEN "sent" ELSE "error")
        ELSE Free(r) /\ UNCHANGED <<vars, held, lost>>
     /\ UNCHANGED <<kind, sock, connectReq, delayed, shutdownReq, writeQueue, pollVars, ioVars>>

\* uv__drain, if the writes are done, performs the shutdown that waits for them;
\* after a failed connect there is no drain.
Drain(err) ==
  LET r == IF more /\ Stream(io) /\ Open(io) /\ writeQueue[io] = <<>>
           THEN shutdownReq[io] ELSE NULL
  IN /\ io # NULL /\ at = "completed" /\ completed[io] = <<>> /\ cb = "none"
     /\ sock[io] = "made" => err
     /\ pollout' = IF more /\ writeQueue[io] = <<>> THEN pollout \ {io} ELSE pollout
     /\ IF r = NULL THEN UNCHANGED <<vars, reqVars, sock, shutdownReq>>
        ELSE /\ shutdownReq' = [shutdownReq EXCEPT ![io] = NULL]
             /\ sock' = IF err THEN sock ELSE [sock EXCEPT ![io] = "shut"]
             /\ Deliver(io, r, IF err THEN "error" ELSE "notify")
     /\ io' = NULL /\ at' = "none" /\ more' = FALSE
     /\ UNCHANGED <<kind, connectReq, delayed, writeQueue, completed, reading, pollin, fed>>

-----------------------------------------------------------------------------
(* Closing.                                                                *)

\* uv__stream_destroy and uv__udp_finish_close, in the half closed state: what
\* is still asked for is cancelled, in this order, before OnUVClose.
CancelConnect ==
  LET r == connectReq[finishing]
  IN /\ finishing # NULL /\ r # NULL
     /\ connectReq' = [connectReq EXCEPT ![finishing] = NULL]
     /\ Deliver(finishing, r, IF kind[finishing] = "pipe" THEN "error" ELSE "notify")
     /\ UNCHANGED <<kind, sock, delayed, shutdownReq, writeQueue, completed, pollVars, ioVars>>

CancelWrites ==
  /\ finishing # NULL /\ cb = "none"
  /\ connectReq[finishing] = NULL /\ writeQueue[finishing] # <<>>
  /\ Flush(finishing)
  /\ UNCHANGED <<vars, kind, sock, connectReq, delayed, shutdownReq, pollVars, ioVars,
                 reqs, noCopy, held, lost>>

CancelShutdown ==
  LET r == shutdownReq[finishing]
  IN /\ finishing # NULL /\ r # NULL /\ connectReq[finishing] = NULL
     /\ writeQueue[finishing] = <<>> /\ completed[finishing] = <<>>
     /\ shutdownReq' = [shutdownReq EXCEPT ![finishing] = NULL]
     /\ Deliver(finishing, r, "error")
     /\ UNCHANGED <<kind, sock, connectReq, delayed, writeQueue, completed, pollVars, ioVars>>

\* A uv__stream_destroy that leaves the shutdown request alone.
EndClose_KeepsShutdown ==
  /\ finishing # NULL
  /\ connectReq[finishing] = NULL
  /\ writeQueue[finishing] = <<>> /\ completed[finishing] = <<>>
  /\ CloseOrphan \/ CloseOwned
  /\ UNCHANGED sockVars

EndClose ==
  /\ finishing # NULL
  /\ connectReq[finishing] = NULL /\ shutdownReq[finishing] = NULL
  /\ writeQueue[finishing] = <<>> /\ completed[finishing] = <<>>
  /\ CloseOrphan \/ CloseOwned
  /\ UNCHANGED sockVars

\* The rest of uv_run.  An iteration does not end inside uv__stream_io.
RunStep ==
  /\ \/ EnterRun \/ FinishClose \/ EndIteration \/ LeaveRun
     \/ io = NULL /\ RunClosingHandles
  /\ UNCHANGED sockVars

-----------------------------------------------------------------------------
SocketCall ==
  \/ \E w \in Wrappers, h \in Handles, k \in {"tcp", "pipe", "udp"} : CreateSocket(w, h, k)
  \/ HandleCall
  \/ \E w \in Wrappers, r \in Requests, b \in BOOLEAN :
       Write(w, r, b) \/ ConnectTcp(w, r, b) \/ ConnectPipe(w, r, b)
  \/ \E w \in Wrappers, r \in Requests : Shutdown(w, r)
  \/ \E w \in Wrappers : \/ TryWrite(w) \/ OpenDescriptor(w) \/ ConnectTcpThrows(w)
                         \/ StartRead(w) \/ StopRead(w)

SocketEvent ==
  \/ \E h \in Handles, rd, wr \in BOOLEAN : Serve(h, rd, wr)
  \/ \E h \in Handles, err \in BOOLEAN : StreamConnect(h, err)
  \/ \E h \in Handles : ServeClosed(h) \/ StillConnecting(h) \/ WriteCallback(h)
  \/ \E k \in {"notify", "error", "readError"}, next \in {"read", "eof", "stopRead", "readDone"} :
       Read(k, next)
  \/ \E err \in BOOLEAN : Drain(err)
  \/ ConnectFailed \/ EndRead \/ Transmit
  \/ CancelConnect \/ CancelWrites \/ CancelShutdown

SockNext == SocketCall \/ SocketEvent \/ ReturnCallback \/ EndClose \/ RunStep

SockSpec == SockInit /\ [][SockNext]_allVars

\* A turn that ends with the kernel taking or refusing something.
TransmitSome == Transmit /\ writeQueue'[io] # writeQueue[io]

\* The steps that wait for nobody.
Proceed ==
  \/ RunStep /\ phase # "events"
  \/ ReturnCallback \/ ConnectFailed \/ Transmit
  \/ (\E h \in Handles : WriteCallback(h)) \/ (\E err \in BOOLEAN : Drain(err))
  \/ CancelConnect \/ CancelWrites \/ CancelShutdown \/ EndClose

\* The application keeps driving the loop and its callbacks return; a connect is
\* decided in the end; the peers go on reading, so that a socket polled for POLLOUT
\* becomes writable again and again and takes something; uv__read gives up after
\* 32 reads, and the events of an iteration are finitely many.
SockFairSpec ==
  /\ SockSpec
  /\ WF_allVars(Proceed)
  /\ SF_allVars(EndRead) /\ SF_allVars(RunStep /\ phase = "events")
  /\ \A h \in Handles :
       /\ SF_allVars(h \in pollout \cup fed /\ \E rd \in BOOLEAN : Serve(h, rd, TRUE))
       /\ SF_allVars(h \in pollout \cup fed /\ \E err \in BOOLEAN : StreamConnect(h, err))
  /\ SF_allVars(TransmitSome)

-----------------------------------------------------------------------------
SockTypeOK ==
  /\ TypeOK
  /\ kind \in [Handles -> {"tcp", "pipe", "udp"}]
  /\ sock \in [Handles -> {"none", "made", "open", "shut"}]
  /\ connectReq \in [Handles -> reqs \cup {NULL}]
  /\ shutdownReq \in [Handles -> reqs \cup {NULL}]
  /\ writeQueue \in [Handles -> Seq(reqs)] /\ completed \in [Handles -> Seq(reqs)]
  /\ delayed \subseteq Handles
  /\ reading \subseteq queue /\ pollin \subseteq queue /\ pollout \subseteq queue
  /\ fed \subseteq Handles
  /\ io \in queue \cup {NULL}
  /\ at \in {"none", "read", "eof", "stopRead", "readDone", "write", "completed", "connectFailed"}
  /\ more \in BOOLEAN
  /\ reqs \subseteq Requests /\ noCopy \subseteq reqs /\ failed \subseteq reqs
  /\ held \in reqs \cup {NULL} /\ lost \subseteq reqs

\* The requests of a handle that libuv still has to answer, in the order it
\* will if it keeps to that of the calls.
Unanswered(h) == completed[h] \o writeQueue[h]
RequestsOf(h) == ({connectReq[h], shutdownReq[h]} \cup Range(Unanswered(h))) \ {NULL}

\* Every request is answered once: until it is freed it waits in one place, of
\* one handle that the loop still knows, or its answer is being given.  The one
\* exception is a connect request that a second Pipe::Connect has overwritten.
RequestsInOnePlace ==
  /\ \A h \in Handles :
       /\ IsInjective(Unanswered(h))
       /\ connectReq[h] # NULL => connectReq[h] # shutdownReq[h]
       /\ {connectReq[h], shutdownReq[h]} \cap Range(Unanswered(h)) = {}
       /\ RequestsOf(h) # {} => h \in queue
       /\ held \notin RequestsOf(h) /\ RequestsOf(h) \cap lost = {}
       /\ \A g \in Handles \ {h} : RequestsOf(g) \cap RequestsOf(h) = {}
  /\ held \notin lost
  /\ \A r \in Requests :
       r \in reqs <=> (\E h \in Handles : r \in RequestsOf(h)) \/ r \in lost \/ r = held

\* Something will make the loop come to write to h: it is polled, pending, or
\* being served.
OnItsWay(h) == h \in pollout \/ h \in fed \/ (io = h /\ more)

\* No write or send gets stuck: on a socket that is open and not connecting,
\* the loop is watching while anything waits to be sent, or about to cancel it.
WritesAreWatched ==
  \A h \in queue : Open(h) /\ connectReq[h] = NULL /\ writeQueue[h] # <<>>
                  => OnItsWay(h) \/ (io = h /\ at = "connectFailed")

\* Nothing but a connect makes the loop forget a shutdown, or the callback of a
\* write that is done: not another write, a TryWrite or a read, fail as they may.
NothingForgotten ==
  [][\A h \in queue :
       /\ Open(h) /\ connectReq[h] = NULL /\ OnItsWay(h)
       /\ Open(h)' /\ connectReq'[h] = NULL
       /\ shutdownReq'[h] # NULL \/ completed'[h] # <<>>
       => OnItsWay(h)']_allVars

\* uv__run_pending only calls watchers of handles that are still allocated.
PendingIsAllocated == fed \subseteq mem

\* Whatever waits in the write queue is answered, be the socket connecting, busy,
\* failing or closed meanwhile.
WritesComplete ==
  \A h \in Handles, r \in Requests :
    r \in Range(writeQueue[h]) ~> r \notin Range(Unanswered(h))

Queues == INSTANCE SendQueue WITH open <- {h \in queue : Open(h)},
                                  pending <- [h \in Handles |-> Unanswered(h)]

\* Writes and sends are answered in the order of the calls, each once.
AnsweredInOrder == Queues!Spec
=============================================================================
