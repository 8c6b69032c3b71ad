# Moe.UV: specification, model checking, proofs

Moe.UV (`src/include/Moe.UV/`, `src/src/`) is a C++ layer over libuv. It turns
libuv's C handles and requests into movable C++ objects, its callbacks into
virtual functions or `std::function`s, and its integer results into exceptions.
What can go wrong in such a layer is mostly *lifetime and order*: whose memory a
handle is at each moment, which wrapper a callback belongs to when user code
has destroyed or moved it, what still happens after a close, and what other
threads see meanwhile. This directory models that part of the program in TLA+,
checks it with TLC and proves the central invariants with TLAPS.

Contents: [the system](#the-system) · [plan](#plan) · [modules](#modules) ·
[runs](#runs) · [fairness](#fairness) · [proofs](#proofs) ·
[findings](#findings) · [not modelled](#not-modelled).

## The system

One `RunLoop` per thread owns or borrows a `uv_loop_t`. Every asynchronous
object is an `AsyncHandle` whose `m_pHandle` owns a `uv_handle_t` from an object
pool and whose address is stored, tagged, in `handle->data`. A libuv callback
(`OnUV*`) gets the wrapper back from `handle->data` (`GetSelf`), runs user code in
a `try` block and, for errors, closes the handle if the wrapper still owns it.
Requests (`uv_work_t`, `uv_write_t`, ...) are also pooled, and own themselves
through a pointer stored in them until their completion callback takes it back.

| Component | State | Operations | Talks to | Hard behaviour | What makes it correct |
|---|---|---|---|---|---|
| `AsyncHandle` | `m_pHandle`, `m_bHandleClosed`, `handle->data` | create, move, move-assign, destroy, `Close`, `Ref`, `Unref`, `OnUVClose` | libuv's queue and closing list; all handle kinds | re-entrancy: user code inside a callback destroys, moves, closes, creates; addresses are reused | no use after free, one `uv_close`, one owner, closing completes, no leak |
| `RunLoop` | `m_bClosing`, the loop, `start` | `Run`, `RunOnce`, `Stop`, `ForceCloseAllHandle`, destructor | uv_run, uv_walk, uv_loop_close | destructor drives the loop itself, with a timeout, and terminates the process if something is left | the destructor ends, closes everything, and the freed loop is not used again |
| `ThreadPool` | `UVWorkReq`, `Request.data` | `QueueWork`, `WorkCallback`, `AfterWorkCallback` | worker threads | the request runs on another thread while its submitter still writes it | a request is freed once, after its work; it is always completed |
| `AsyncNotifier` | `uv_async_t.pending`, the loop's descriptor | `Create`, `Notify` (any thread), `OnUVAsync` | all threads | coalescing, close during a scan, close during a `Notify` | no lost wakeup, no freed memory read |
| `Timer`, `PrepareHandle`, `IdleHandle`, `CheckHandle` | interval, libuv's timer heap and phase lists | `Start`, `Stop`, callback | the loop's phases | restart or close from the own callback; a stale `loop->time` | once per phase, in order, neither early nor never; the poll does not oversleep |
| `Signal`, `FsEvent`, `Poll` | libuv watcher | `Start`, `Stop`, callback with error | the loop | error callback then close | as for every handle |
| `Stream`, `TcpSocket`, `Pipe` | write queue, `connect_req`, `shutdown_req`, the watcher | read start and stop, write, try-write, shutdown, connect, listen, accept | the loop, each other (accept) | requests outlive the wrapper; cancelled from inside the close; partial writes; failing accept | each request completes once and in order, nothing that waits is forgotten |
| `UdpSocket` | send queue | bind, send, receive | the loop | as Stream | as Stream |
| `Process`, `SubProcess` | `uv_process_t` | spawn, kill, exit callback | the loop | spawn fails after the handle is linked | no handle freed while linked |
| `Dns` | requests, result list | resolve, reverse resolve | libuv's pool | self-owning requests as in `ThreadPool` | every address reported once, in its own family |
| `EndPoint` | `sockaddr` storage | parse, format, compare | sockets | overflow of a number, in-place compression, swaps | accepts what spells an address and nothing else, in bounds |
| `Environment` | none | getters | operating system | buffer-size retry | the retry ends with the full value |

`PROJECT.json` lists these components with their status, the hazards with the
line where each one bites and the properties aimed at it, and for every definition
the source lines it stands for.

## Plan

In order of importance; what is left is at the end.

1. `HandleLifecycle`: the abstract promise about one handle. **Done.**
2. `AsyncHandle`, which implements it, with all its safety proofs and the
   refinement. **Done.**
3. `RunLoop`, which extends `AsyncHandle` with uv_run and the destructor; proved.
   **Done.**
4. `ThreadPool`, `AsyncNotifier`; proved. **Done.**
5. `Socket`, on top of the same handle life (Stream, TcpSocket, Pipe, UdpSocket),
   and its abstract specification `SendQueue`. **Done.**
6. `LoopPhases`: Timer and the three loop watchers through the phases of uv_run;
   proved. **Done.**
7. `EndPoint`: the two address parsers and the printer; proved. **Done.**
8. `Factories`: Spawn, Listen, Accept, and their ways to fail. **Done.**
9. `Socket_proofs`: sockets are handles, requests are answered once and in order, no
   write gets stuck and no shutdown is forgotten. **Done.**
10. Left:
   sockets that are served while another one of the same loop is closed by their
   callback (two handles in `Socket`, too large for TLC with two requests); the
   address list of `Dns`; libuv's signal handles, which may postpone their close.

## Modules

In every module a name with an underscore (`DestroyOpen_FreesNow`) is a *faulty
variant* of the definition that follows it: a plausible bug which one of the
properties is there to rule out. No specification uses them; they say what
each property is worth, and `PROJECT.json` pairs each property with one.

**`HandleLifecycle`** is the abstract specification. `life[h]` and `owner[h]`; in one
step any number of handles each take one of `Opens`, `Keeps`, `StartsClosing`,
`Completes`, `Frees` (one call may concern several handles: move assignment closes
one and hands over another).

**`AsyncHandle`** has one action per operation of `AsyncHandle.cpp` and per step of
libuv that touches a handle's life.
- *Libuv's side.* `mem` is the pool's allocated handles, `data` is
  `handle->data`, `flags` the uv_close progress, `active` and `ref` the two handle
  flags, `queue` is `loop->handle_queue`, `closingHandles` the list uv_close pushes to,
  `batch` the list `uv__run_closing_handles` has taken, `finishing` the handle
  inside `uv__finish_close`.
- *Moe.UV's side.* `alive` wrappers, `mHandle` = `m_pHandle`, `mClosed` =
  `m_bHandleClosed`. The destructor and both moves are whole actions, each the
  complete body of its function; the destructor has two, for its two outcomes.
- *Control.* `phase` is where uv_run is, and `cb`, `cbHandle`, `cbSelf` the frame of
  the user callback on the stack with the `handle` and `self` its handler will use
  afterwards. All user operations are enabled before uv_run and *inside every
  callback*; that is where the interleavings of this single-threaded program
  come from. A handler is `Event` or `CancelRequest` (to the user's
  function) and `CallbackReturns` (what it does afterwards). The `kind` of a callback
  says what that is: nothing ("notify"), `OnError` and then `Close` ("sent", then
  "error"), `Close` ("error"), or `Close` unless `OnError` throws ("readError": in
  `Stream::OnUVRead` both stand in one `try` block, so that the wrapper may survive with an open
  handle). `CancelRequest` is the `UV_ECANCELED` callback from inside
  `uv__finish_close`, the moment when a handle is half closed.
- `Handles` are addresses: a freed one is allocated again, and so is a wrapper's.

Which kind of handle it is only matters for what starts, stops and calls it
back; `Start`, `Stop` and `Event` stand for all of them here, and are mapped to one
representative each.

**`RunLoop`** extends `AsyncHandle`: its actions are those of `AsyncHandle`
restricted to where uv_run really is (`mode`, `poll`, `stopFlag`, `reqs`, `clock`,
`now`), plus `Run`, `StopLoop`, `ForceCloseAllHandle`, `QueueReq` and
`ReqDone` for requests that belong to no handle, and the destructor's
`BeginDestroy`, `DestroyTurn`, `GiveUp`, `EndDestroy`. `now` is the time libuv has
cached, `clock` the time it is. Bounds: `MaxReqs` requests at once, `MaxClock` for the
latest start of a destructor; `kMaxLoopTimeout` is the constant of the code in
ticks. The order in which uv_walk meets the handles is any.

**`Socket`** extends `AsyncHandle` with what a `uv_stream_t` or `uv_udp_t` adds to a
handle: `connectReq`, `shutdownReq`, `writeQueue`, `completed` (the requests that wait for
their callback), `reading`, the interest of the loop in the descriptor (`pollin`, `pollout`) and
the pending queue (`fed`). `reading` and `pollin` are not the same: `Pipe::Connect` polls for POLLIN before
anybody reads, and an `OnEof` that starts reading again leaves POLLIN polled with `reading` reset. `io`, `at` and `more` are the program counter of
`uv__stream_io` and `uv__udp_io`, which user code interrupts at every callback. On
Moe.UV's side there are the allocated requests, and `held`, the one a handler on the
stack owns. `Write`, `TryWrite`, `Shutdown`, `ConnectTcp`, `ConnectPipe`, `StartRead` and `StopRead` are the calls;
`Serve`, `StreamConnect`, `Read`, `Transmit`, `WriteCallback`, `Drain` the loop; `CancelConnect`, `CancelWrites`,
`CancelShutdown` and `EndClose` what `uv__stream_destroy` and `uv__udp_finish_close` do in the half
closed state. Bytes are abstracted: a request is sent, refused or waits, so that a
partial write is one that waits. Left out: listening sockets (`Factories`), a `Connect`
repeated from another callback of the same socket, and `active`.

**`SendQueue`** is the promise about the writes of a socket: a queue per handle
that grows at the end while the socket is open and is answered at the head.
`Socket` implements it with `pending[h]` = `completed[h] \o writeQueue[h]`.

**`LoopPhases`** is one iteration of uv_run, phase by phase: timers, pending, idle, prepare, poll,
check, and the end of the iteration in the three modes. Times are relative to `loop->time`: `left[t]` is what
is left of a timer, `lag` how far the clock is ahead of `loop->time`, because callbacks
take time. The heap is a sequence in the order of `start_id`. A phase of watchers moves its queue
to a local one (`MoveQueue`) and calls them one by one; any callback may start, stop, restart and close any timer
or watcher. `Forever` is UINT64_MAX in ticks, so that the clamp in `uv_timer_start` is in the model;
`CallbackLag` bounds what one callback may take. History variables say what the user asked for, apart
from what libuv keeps: `asked[t]`, how long by the clock until a timer was to fire (negative when it is late), `started`, the
armed timers in the order of their last `uv_timer_start`, and `ran` and `owed` for the watchers of a phase. Closing is only seen as far as it stops a handle and
keeps the poll from blocking; the rest is `AsyncHandle`'s.

**`ThreadPool`** has the loop thread (`QueueWork`, then separately `MoveOwnerSelf`,
the store to `Request.data`; `WorkDone`, `AfterWork`, `AfterWorkReturns`) and the
workers (`Take`, `WorkCallback`, `WorkReturns`). `crashed` records that a null `self` was
dereferenced, after which nothing happens.

**`AsyncNotifier`** takes `Notify` apart into the steps other threads can see
(`Check`, `CheapRead`, `Swap`, `Write`), and `uv__async_io` into the drain and one step per
handle; `OnAsync` runs between two steps and may create, close and destroy
notifiers. The order within a queue is abstracted. A notifier is not destroyed
while another thread is inside its `Notify` (`~InUse` in `Destroy`): the class offers
no protection against that and leaves it to the application. Closing it
meanwhile is allowed.

**`Factories`** extends `AsyncHandle` with the two factories that do more than initialise a
handle: `Spawn`, and `Accept` with the listening sockets it belongs to (`polled`, `holding` = `accepted_fd`,
`serving` = inside `uv__server_io`). `SpawnFails` and `AcceptFails` are their error paths.

**`EndPoint`** is an algorithm: `ParseIpv6` over tokens (a group, a dotted quad, a colon,
junk) with its in-place compression and the swaps that undo it, one action per turn of its
loops; `ParseIpv4` on numbers; `GetAddress` as an operator, with its brackets, which are
junk to the parser. The number of pieces and the base of a number
are constants, `Pieces` and `Base`, 8 and 256 in the code. The recognition of digits is abstracted to a number or junk.

The `MC*` modules add symmetry sets and the values of constants that are not sets of names.

## Runs

| Run | Instance | What it shows |
|---|---|---|
| `handle` | 3 wrappers, 2 handles, no symmetry (liveness) | `TypeOK`, `MemorySafe`, `OwnersAgree`, `OrphanIsClosing`, `ClosingOnce`, `ClosedMeansReleased`, `FreedOnlyAfterClose`, `OnCloseReachesOwner`, `HandlersStayHome`; the refinement `LifecycleSpec`; `CloseCompletes`, `OrphanIsFreed` |
| `leak` | 2 wrappers, 2 handles | violates `NoLeak` (finding 1) |
| `loop` | 1 wrapper, 2 handles, 1 request, own loop, timeout 1 | `ClosingOnce` also under `ForceCloseAllHandle`; `TerminateReason`; `ClosedLoopUntouched`; `StopEndsRun`; `DestructorEnds` when requests complete |
| `closes_all` | the same, with a clock to 2 | violates `ClosesAllHandles` (finding 2) |
| `pool` | 3 requests, 2 workers | `InOnePlace`, `ReqsCounted`, `WorkCompletes` |
| `weak_ref` | the same | violates `WeakReference` (finding 3) |
| `notifier` | 2 notifiers, 2 threads | `WakeupOnTheWay`, `NotifyTouchesMemory`, `LinkedOnce`, `PostedIsPickedUp` |
| `socket` | 1 wrapper, 1 handle of any kind, 2 requests | `SockTypeOK`, `RequestsInOnePlace`, `WritesAreWatched`, `NothingForgotten`; the refinement `AnsweredInOrder`; `WritesComplete` |
| `stale_watcher` | 1 wrapper, 1 handle, 1 request | violates `PendingIsAllocated` (finding 4) |
| `phases` | 2 timers, 2 idle watchers; first times 0 and Forever (9), intervals 0 and 2, a lag of 1 per callback | `QueuedOnce`, `EachWatcherOnce`, `BlocksNoLonger`, `NotEarly`, `InOrder`, `TimerFires` |
| `endpoint` | 4 pieces, groups 0 and 1, base 4, texts up to a full address, one piece more, and what `GetAddress` writes | `InBounds`, `ParsesExactly`, `Ipv4Exact`, `ReadsBackInside` |
| `no_such_program` | 2 wrappers, 2 handles | violates `QueueIsAllocated` (finding 5) |

Why the bounds are enough to be interesting. *Handles*: two are one in the
closing list while another is in the batch, one handed over while another is
closed, one being finished while another is created. *Wrappers*: a move
needs two, and the third is a wrapper that has been destroyed and
constructed again at another wrapper's old handle. In `loop` a single
wrapper suffices because one wrapper can create
handle after handle, which is how a callback would keep a destructor busy. *Requests
and workers*: three requests let one be queued, one held and one collected;
two workers finish out of order and coalesce their wakeups. *Threads*: two are
one that has set `pending` and not yet written, and one that returns early
because of it. *Sockets*: one handle, whose address is used again, and two requests are one that
waits or fails while another is made from its callback, a shutdown behind a write, a connect that overwrites
another, each in any of the three kinds. *Timers*: two are one that restarts or closes the other while
both are due; the two first times are the one that fires in the turn it is set and the one that overflows,
and the interval lies beyond the lag. *Addresses*: four pieces are two before and two after a compression, with room for a
dotted quad on either side; base 4 puts every boundary of the four places among the numbers that are tried.

The safety properties do not depend on these bounds at all: they are proved (below).

`CHECK_DEADLOCK FALSE` is set where the system stops: after the RunLoop's destructor
or std::terminate, after the crash in `ThreadPool`, and when a text has been parsed. Everywhere
else there is always something to do, and it is checked.

## Fairness

- *The application drives the loop, and callbacks return* (`EnterRun`,
  `CallbackReturns`, `OnAsyncReturns`, `Proceed` of `Socket`, ...): `Run` and `RunOnce` are
  all the library offers to make anything asynchronous happen.
- *One iteration is finite*: `RunClosingHandles`, `LeaveRun` and the closing
  steps are strongly fair because callbacks, which may come again and again in the
  model, disable them for a moment; in the code one iteration walks lists that
  were fixed when it began (`batch`), polls a bounded number of times, reads at most 32 times from
  one stream, and a handle has finitely many pending requests. The exception is `uv__run_timers`: a callback may
  restart its timer with no time left for ever, which docs/src/timer.rst says cannot happen; `TimerFires` is stated for
  user code that does not.
- *Nothing is assumed of what user code does* otherwise, except that it does not stay in one
  callback for ever: it may create, write and close without end, and `CloseCompletes`,
  `DestructorEnds` and `WritesComplete` hold even so.
- *Requests*: `DestructorEnds` holds in `FairPoolSpec`, where requests complete;
  `BusyPoolSpec` leaves them alone, and the destructor, which compares the time only after a `uv_run`
  that may block, then waits for ever.
- *The other side*: peers keep reading, so that a socket the loop watches becomes writable again and again,
  and a connect is decided in the end (`SockFairSpec`). Nothing is assumed of a socket the loop does not watch for writing (`pollout` or `fed`): that it watches is
  what `WritesComplete` needs.
- *Time passes* (`Tick`), also while callbacks keep coming.
- *Threads* are scheduled: workers that can take work, one of them at least;
  notifying threads, each.

## Proofs

TLAPS proves, for any sets of wrappers, handles, requests, workers and threads, any timers and watchers, any
times and any timeout, addresses of any number of pieces and texts of any length, from the assumptions on the constants that the modules name (`NullAssumption`: `NULL` is neither a
wrapper nor a handle; `LoopAssumption`, `PhasesAssumption`, `RequestsAssumption`: the bounds are natural numbers, timers and watchers are different things, and `NULL` is neither of them and no request;
`EndPointAssumption`: an address has at least two pieces and the base is at least 2, pieces are natural numbers, 0 is one of them,
a quad stands for two, a text that goes to `ParseIpv6` has a colon, and `None` is no number):

- `AsyncHandle_proofs`: `TypeCorrect`, `NoUseAfterFree` (`MemorySafe`),
  `BackPointersCorrect` (`OwnersAgree`), `GetSelfAssertion` (`OrphanIsClosing`), `CloseIsOnce`
  (`ClosingOnce`), `ClosedFlagCorrect` (`ClosedMeansReleased`); `Refinement` (`Spec => LifecycleSpec`); and the action
  properties `FreeAfterClose` (`FreedOnlyAfterClose`), `OnCloseOfOwner` (`OnCloseReachesOwner`), `ErrorsStayHome` (`HandlersStayHome`).
- `RunLoop_proofs`: `LoopClosesOnce`, `LoopMemorySafe`, `TerminatesForAReason`, `ClosedLoopNotTouched`, `LoopTyped`.
- `ThreadPool_proofs`: `RequestsInOnePlace`, `RequestsCounted`.
- `AsyncNotifier_proofs`: `NoLostWakeup`, `NotifyIsMemorySafe`, `QueuesExact`.
- `LoopPhases_proofs`: `HandlesQueuedOnce`, `WatchersRunOnce`, `PollNeverOversleeps`, `TimersNotEarly`, `TimersInOrder`.
- `Socket_proofs`: `SocketsAreHandles` (`SockSpec => Spec`, so that what is proved of `AsyncHandle` holds of
  sockets), `AnsweredOnce` (`RequestsInOnePlace`), `SocketsAnswerInOrder` (the refinement of `SendQueue`,
  `AnsweredInOrder`), `SocketTypes`, `WritesStayWatched` (`WritesAreWatched`), `ShutdownsNotForgotten` (`NothingForgotten`).
- `EndPoint_proofs`: `EndPointTypes`, `PiecesInBounds` (`InBounds`), `Ipv4IsExact` (`Ipv4Exact`), `ParsesWhatIsWritten`
  (`ParsesExactly`), `WhatIsInsideIsReadBack` (`ReadsBackInside`).
- `QueueTheorems`: what pushing, taking and removing do to a sequence without repetition, which the others cite.

*The invariant of AsyncHandle.* Hardly one of its properties is inductive by
itself; they need each other: that `CloseOrphan` may free the handle follows
from `ClosingOnce` (it is in no list any more) and `OwnersAgree` (no wrapper points to
it); that `DestroyClosed` may free it follows from `ClosedMeansReleased`. `IInv` is their
conjunction with two more parts. `QueueExact`: a handle is in the loop's queue iff
it is open, closing, or the one being finished; only open ones are active; a
freed address has no back pointer, so that reuse starts clean. `PhaseExact`:
the batch and the handle being finished exist in the closing phase only,
and the handle an error handler will look at after user code returns is still
in the queue. That last part is the heart of re-entrancy: in one callback
user code can only *start* closing the handle, never finish it, because the loop
does not turn underneath a callback. The proof has one lemma per action or group of like actions,
and the effect of `DoClose` is one lemma used by `Close`,
`DestroyOpen`, `MoveAssign` and `CallbackReturns`.

*The refinement* maps `life` to `Life`, computed from `mem`, `queue` and `flags`, and
`owner` to `data`. Each action is shown to be, on each handle, a step of its life
(`HandleStep`), from `IInv` before and after; `OneOwner` follows from `OwnersAgree`.

*The invariant of RunLoop* is `RInv`: `IInv`, the types of what RunLoop adds, `Settled` (outside uv_run no callback is on the stack, and past the destructor's loop uv_run is over) and `TerminateReason`. Most actions are `AsyncHandle`'s with a guard, and their lemmas are cited. The new one is `WalkAndClose`, which closes
any number of handles in one step, in any order: the handles are put in a sequence (`SetToSeqs`) that becomes the front
of the closing list, and `WalkPreserves` shows that it repeats nothing. `DeadLoop` is what the guards of
the destructor leave: with the loop gone there is no callback, so that what wrappers still do is to be destroyed, moved or asked.

*The invariant of ThreadPool*, `PInv`, adds to the two properties what the threads rely on: `DataExact` (`Request.data` is null or the request's own address) and `HoldsExact` (a worker that does not wait holds one); `ReqsCounted` needs that the allocated
requests are finitely many.

*The invariant of AsyncNotifier* is `NInv`: types, `WakeupOnTheWay`, `LinkedOnce` (so that the
scan that starts when the descriptor is drained contains every open handle) and
`OwnedExact` (a thread inside Notify keeps its notifier's memory).

*The invariant of LoopPhases* is `LInv`: `QueuedOnce`, `EachWatcherOnce`, `TurnExact` (the local queue of a phase holds watchers of its kind, and is empty
outside) and `TimesExact`: what is left of a timer is what it was asked for,
less the time that has passed, neither more nor less than the lag of `loop->time` allows, and the heap is in the
order of `started`. `PollNeverOversleeps`, `TimersNotEarly` and `TimersInOrder` are consequences of the latter: the last one
goes from the order `timer_less_than` makes of `left` and heap positions to the order of the clock and of the calls.
`EachWatcherOnce` says in both directions what the local queue of a phase holds: all watchers still owed a call, and none that a
callback has started meanwhile.

*The invariants of Socket* come one on top of the other. Every action of `Socket` is an action of
`AsyncHandle` or leaves its variables alone (`HandleSteps`), which gives `IInv`. `SInv` adds `RequestsInOnePlace` and
`HeldExact` (no callback, no request in user code's hands): most actions move requests of one handle from one place to another,
and `RequestsMoved`, `Delivered` and the like say once what that is worth; a handle leaves the loop only without
requests, and its address is free of them when it is used again. The refinement maps `pending[h]` to what is completed
followed by what is queued: sending moves the border between the two, and the callback takes from the front. `TInv` says that the loop polls open
handles only. `WInv` is what `WritesAreWatched` needs to be inductive: `WatchOf(h)` lists the ways in which the loop
can still come to a queue that is not empty (POLLOUT, a watcher that has been fed, a turn that has not got to the queue yet), that
a connect in progress keeps POLLOUT, and that a pipe whose connect failed at once, whose
descriptor was never opened, has nothing queued. The turn of a socket is the hard part: between the read callback and the
write half of it, user code may have queued, connected or closed, and the turn still comes to the queue (`more`).
`FInv` joins them and adds that only streams are asked to shut down (`ShutdownStreams`). The action property `NothingForgotten` follows from it step by step:
a step may take a socket out of the poll and the pending queue only if nothing is left to do, the turn of the socket goes on, or
the watcher is fed again.

*The invariants of EndPoint.* `Spellings(a)`, the texts that stand for an address, is a set of concatenations; the parser counts tokens. The proofs go
from one to the other once, with `Spelt(t, a)`: which token of `t` stands where, before and after a "::"
that leaves out the pieces from `h` to `q - 1`. `SpellingsAreSpelt` and `SpeltAreSpellings` show the two to be the same, and
`OneSpelling` that a text spells one address only. `BInv` has the bounds: the compression lies at or below the current piece, the
pieces not read yet are zero, and so are, during the swaps, the places that are still to be filled. `ReadInv` says of the loop over the text that
what has been read spells the pieces in front of the compression (`HeadRead`) and those after it, with more to
come (`OpenRead`) or ended (`ClosedRead`). `MoveInv` says of the swaps that
the address they will have made (`AddressOf`, a function of the place they have got to) is the one that is spelt: each swap changes the
address and leaves `AddressOf` alone. `AcceptInv` and `RejectInv` are the two results; the latter needs that, at every token the loop stops at,
no spelling goes on (`GoesOn`). `ReadsBackInside` is then that what `GetAddress` writes between its brackets is a spelling (`PiecesSpell`), and that no
spelling begins with a bracket (`SpellingsStart`); that there is a longest
run of zeros to leave out, and a first one, is induction on natural numbers (`Least`, from the well-foundedness of `<`).
`Ipv4Exact` is arithmetic: a number in the last place fits what the others leave exactly if the value can be read back place by place.

Only model-checked: liveness, that is `CloseCompletes`, `OrphanIsFreed`, `StopEndsRun`, `DestructorEnds`, `WorkCompletes`, `PostedIsPickedUp`,
`WritesComplete` and `TimerFires` (temporal reasoning under fairness, with ENABLED, which is out of reach of the prover). The invariants and action properties of
the passing runs are all proved. `leak`, `closes_all`, `weak_ref`, `stale_watcher` and `no_such_program` show by a behaviour that something does not hold, and have nothing to prove.

## Findings

1. **A leak** (`leak`, `NoLeak`). `operator=` (`AsyncHandle.cpp:79-84`) releases the old
   handle's memory to libuv whenever there is any. If that handle is already
   closed, libuv has forgotten it, and nobody frees it. The destructor makes the
   distinction (`AsyncHandle.cpp:67-74`).
2. **Handles left open** (`closes_all`, `ClosesAllHandles`). The destructor calls
   `ForceCloseAllHandle` only while `uv_loop_alive` (`RunLoop.cpp:77-78`); inactive or
   unreferenced handles do not make a loop alive. An own loop then cannot be
   closed and the process is terminated. `TerminateReason` shows that besides the
   timeout this is the only reason.
3. **A race** (`weak_ref`, `WeakReference`). `QueueWork` stores the request in
   `Request.data` after `uv_queue_work` (`ThreadPool.cpp:58-60`); the worker may read it
   before.
4. **A stale watcher** (`stale_watcher`, `PendingIsAllocated`). A `UdpSocket` destroyed by its own `OnData` while a send
   waits: `uv__udp_io` (`udp.c:145`) goes on to send on the closed handle, fails, and feeds its watcher to the loop's pending queue,
   after uv_close has taken it out. The handle is then freed.
5. **A freed handle in the loop** (`no_such_program`, `QueueIsAllocated`). `SubProcess::Spawn` of a program that does not exist
   (`Process.cpp:37`), and `TcpSocket::Accept` without a connection (`TcpSocket.cpp:130`), throw after libuv has linked the
   new handle, and free it.

Met on the way, and visible in a line or two each: `GetAddress` puts an IPv6 address in brackets (`EndPoint.cpp:450`, `500`), which
`ParseIpv6` rejects (`EndPoint.cpp:236-237`), so that `SetAddress` throws for what `GetAddress` has written (`ReadsBackInside`), and
`SetAddressIpv6` never stores its result (`EndPoint.cpp:611-633`); an `OnError` that throws in `Stream::OnUVRead` skips the `Close` after it
(`Stream.cpp:120-124`); `Dns` reads IPv6
addresses through `sockaddr_in` (`Dns.cpp:51`); `Spawn` passes no exit callback, so that `OnExit` never comes. `RequestsInOnePlace`
makes room for the connect request that a second `Pipe::Connect` overwrites (`Pipe.cpp:82`).

## Not modelled

- `UV_SIGNAL` handles may postpone the end of their close while a signal is in the
  pipe; the closing list is then met twice.
- The tag in `handle->data` that tells Moe.UV's handles from those of other libraries:
  no foreign handles occur, so `UVClosingHandleWalker` always takes its first branch.
- In `RunLoop` a request belongs to no handle; requests on sockets are `Socket`'s.
- User code that calls `Run` inside a callback, which libuv forbids, and an exception out
  of the object pool (out of memory).
- `Dns`: its requests live like `ThreadPool`'s, without the race; what remains is one walk over a list.
  `Environment`: queries without state.
- The system calls: epoll, inotify, fork and exec, the kernel's side of a socket.
- Almost all of the repository's lines are the vendored libuv: its Windows half, its file system, terminal and address
  resolution code, none of which this library's behaviour depends on. The modules cover Moe.UV itself and the parts
  of libuv it cannot be understood without (`core.c`, `stream.c`, `udp.c`, `timer.c`, `loop-watcher.c`, `async.c`,
  `threadpool.c`, `process.c`), which is a small share of the lines of the repository and is meant to be.
