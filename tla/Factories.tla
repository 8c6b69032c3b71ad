------------------------------ MODULE Factories ------------------------------
(***************************************************************************)
(* The two factories whose work is not done with uv_x_init:                *)
(* SubProcess::Spawn, which goes on to fork and exec, and                  *)
(* TcpSocket::Accept, which goes on to take the connection a listening     *)
(* socket holds.  When the second step fails, the object that MOE_UV_NEW   *)
(* has allocated is freed on the way out, as it is when the first one      *)
(* fails: but by then the loop's handle queue links it.                    *)
(***************************************************************************)
EXTENDS AsyncHandle

VARIABLES
  children,    \* loop->process_handles
  listening,   \* the handles whose watcher is uv__server_io
  polled,      \* those of them polled for POLLIN
  holding,     \* those with an accepted_fd
  serving      \* the handle inside uv__server_io, or NULL

serverVars == <<listening, polled, holding, serving>>
allVars    == <<vars, children, serverVars>>

FInit ==
  /\ Init
  /\ children = {} /\ listening = {} /\ polled = {} /\ holding = {}
  /\ serving = NULL

Usable(w) == InUserCode /\ w \in alive /\ ~IsClosing(w)

\* uv__process_close, uv__stream_close: the calls that close a handle take it
\* from where the loop would look at it.
HandleCall ==
  /\ \/ \E w \in Wrappers : Close(w) \/ DestroyOpen(w) \/ DestroyClosed(w)
     \/ \E w, org \in Wrappers : MoveConstruct(w, org) \/ MoveAssign(w, org)
     \/ CallbackReturns
  /\ LET shut == {h \in queue : flags[h] = "open" /\ flags'[h] # "open"}
     IN /\ children' = children \ shut
        /\ listening' = listening \ shut
        /\ polled' = polled \ shut
        /\ holding' = holding \ shut
  /\ UNCHANGED serving

\* What is left of a factory that throws after uv__handle_init: the handle is
\* in the queue, its memory back in the pool.
Abandon(h) ==
  /\ InUserCode /\ h \notin mem
  /\ queue' = queue \cup {h}
  /\ UNCHANGED <<mem, data, flags, active, ref, closingHandles,
                 runVars, objVars, cbVars>>

-----------------------------------------------------------------------------
Spawn(w, h) ==
  /\ Create(w, h, TRUE)
  /\ children' = children \cup {h}
  /\ UNCHANGED serverVars

\* uv_spawn without a program to execute, or without a process to do it.
SpawnFails(h) == Abandon(h) /\ UNCHANGED <<children, serverVars>>

\* uv__chld: the handle is stopped; Spawn gives uv_spawn no exit_cb to call.
ChildExits(h) ==
  /\ phase = "events" /\ Idle /\ serving = NULL
  /\ h \in children
  /\ children' = children \ {h}
  /\ active' = active \ {h}
  /\ UNCHANGED <<mem, data, flags, ref, queue, closingHandles,
                 runVars, objVars, cbVars, serverVars>>

-----------------------------------------------------------------------------
CreateSocket(w, h) ==
  /\ Create(w, h, FALSE)
  /\ UNCHANGED <<children, serverVars>>

\* TcpSocket::Listen
Listen(w) ==
  /\ Start(w) /\ mHandle[w] \notin children
  /\ listening' = listening \cup {mHandle[w]}
  /\ polled' = polled \cup {mHandle[w]}
  /\ UNCHANGED <<children, holding, serving>>

\* One turn of uv__server_io: accept(2) gives a connection, and OnConnection is
\* told; or it fails, and the handler closes the server after OnError.
Connection(h, k) ==
  /\ serving = h \/ (serving = NULL /\ h \in polled)
  /\ h \in listening \ holding
  /\ Event(h, k) /\ UNCHANGED active
  /\ holding' = IF k = "notify" THEN holding \cup {h} ELSE holding
  /\ serving' = h
  /\ UNCHANGED <<children, listening, polled>>

\* uv__server_io returns.  With a connection nobody has accepted it stops polling.
EndConnections ==
  /\ serving # NULL /\ cb = "none"
  /\ polled' = IF serving \in holding THEN polled \ {serving} ELSE polled
  /\ serving' = NULL
  /\ UNCHANGED <<vars, children, listening, holding>>

\* TcpSocket::Accept of the connection the server w holds: now or, if OnConnection
\* has left it, at any time later.
Accept(w, client, h) ==
  /\ Usable(w) /\ mHandle[w] \in holding
  /\ Create(client, h, FALSE)
  /\ holding' = holding \ {mHandle[w]}
  /\ polled' = polled \cup {mHandle[w]}
  /\ UNCHANGED <<children, listening, serving>>

\* TcpSocket::Accept when uv_accept returns UV_EAGAIN: there is no connection,
\* or a call of the same OnConnection has had it.
AcceptFails(w, h) ==
  /\ Usable(w) /\ mHandle[w] \in listening \ holding
  /\ Abandon(h)
  /\ UNCHANGED <<children, serverVars>>

-----------------------------------------------------------------------------
RunStep ==
  /\ \/ EnterRun \/ FinishClose \/ CloseOrphan \/ CloseOwned \/ EndIteration \/ LeaveRun
     \/ serving = NULL /\ RunClosingHandles
  /\ UNCHANGED <<children, serverVars>>

FNext ==
  \/ \E w \in Wrappers, h \in Handles :
       Spawn(w, h) \/ CreateSocket(w, h) \/ AcceptFails(w, h)
  \/ \E w, client \in Wrappers, h \in Handles : Accept(w, client, h)
  \/ \E w \in Wrappers : Listen(w)
  \/ \E h \in Handles : SpawnFails(h) \/ ChildExits(h)
  \/ \E h \in Handles, k \in {"notify", "error"} : Connection(h, k)
  \/ HandleCall \/ EndConnections \/ RunStep

FSpec == FInit /\ [][FNext]_allVars

-----------------------------------------------------------------------------
\* The memory of a handle the loop knows is not given back before uv_close is
\* done with it: neither by its wrapper, nor by a factory that throws
\* (SubProcess::Spawn, TcpSocket::Accept).
QueueIsAllocated == queue \subseteq mem
=============================================================================
