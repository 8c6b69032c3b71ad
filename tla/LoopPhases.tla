------------------------------ MODULE LoopPhases ------------------------------
(***************************************************************************)
(* One iteration of uv_run in its phases: the timers that are due, the     *)
(* idle and prepare watchers, the poll and how long it blocks, the check   *)
(* watchers, the closing handles.  The users are Timer and EventHandle.    *)
(* What wrappers and handles owe each other is AsyncHandle's subject; here *)
(* a handle is just its timer or its watcher, and always referenced.       *)
(*                                                                         *)
(* Times are relative to loop->time, so that the clock needs no bound: when*)
(* loop->time is updated, all that is left to wait shrinks.                *)
(***************************************************************************)
EXTENDS Integers, Sequences, SequencesExt

CONSTANTS Timers, Watchers,
          Kind,         \* of each watcher: "idle", "prepare" or "check"
          FirstTimes,   \* what SetFirstTime and
          Intervals,    \* SetInterval are called with
          Forever,      \* UINT64_MAX: added to loop->time it overflows
          CallbackLag,  \* bound: how far the clock runs on outside the poll
          NULL

Kinds == {"idle", "prepare", "check"}

ASSUME PhasesAssumption ==
  /\ Timers \cap Watchers = {} /\ {NULL, "event"} \cap (Timers \cup Watchers) = {}
  /\ Kind \in [Watchers -> Kinds]
  /\ Forever \in Nat /\ CallbackLag \in Nat
  /\ FirstTimes \subseteq 0..Forever /\ Intervals \subseteq 0..Forever

VARIABLES
  active,   \* handles with UV_HANDLE_ACTIVE
  heap,     \* the timers in timer_heap, in the order of start_id
  left,     \* timeout - loop->time of each timer
  repeat,   \* repeat of each timer
  watching, \* prepare_handles, idle_handles and check_handles, by kind
  turn,     \* the local queue of uv__run_idle, uv__run_prepare, uv__run_check
  closed,   \* handles with uv_close called and the callback still to come
  lag,      \* the clock minus loop->time
  wait,     \* how long epoll_wait will go on blocking
  phase,    \* where uv_run is, "user" outside
  mode,     \* what uv_run was called with, NULL outside
  cb,       \* the handle whose callback is running, or NULL
  \* history
  asked,    \* how long, by the clock, until a timer was asked to fire
  started,  \* the armed timers, the one started last at the end
  ran,      \* the watchers that have run in this phase
  owed      \* those active since before it

heapVars  == <<heap, left, repeat, asked, started>>
queueVars == <<watching, turn, ran, owed>>
loopVars  == <<phase, mode, wait>>
vars      == <<active, heapVars, queueVars, closed, lag, loopVars, cb>>

Modes == {"default", "once", "nowait"}

Init ==
  /\ active = {} /\ heap = <<>> /\ closed = {}
  /\ left = [t \in Timers |-> 0] /\ repeat = [t \in Timers |-> 0]
  /\ asked = [t \in Timers |-> 0] /\ started = <<>>
  /\ watching = [k \in Kinds |-> <<>>] /\ turn = <<>> /\ ran = {} /\ owed = {}
  /\ lag = 0 /\ wait = 0 /\ phase = "user" /\ mode = NULL /\ cb = NULL

Less(d, n) == IF d = Forever THEN Forever ELSE d - n

-----------------------------------------------------------------------------
(* User code, outside uv_run or inside a callback.                         *)

InUserCode == phase = "user" \/ cb # NULL

\* A name with an underscore is a faulty variant of the definition that follows it.
\* uv_timer_start without the clamp: loop->time + UINT64_MAX is loop->time - 1.
Arm_Wraps(t, duration, again) ==
  /\ heap' = Append(RemoveFirst(heap, t), t)
  /\ left' = [left EXCEPT ![t] = IF duration = Forever THEN -1 ELSE duration]
  /\ repeat' = [repeat EXCEPT ![t] = again]
  /\ asked' = [asked EXCEPT ![t] = duration] /\ started' = Append(RemoveFirst(started, t), t)

\* A uv_timer_start that lets a timer already in the heap keep its start_id.
Arm_KeepsPlace(t, duration, again) ==
  /\ heap' = IF t \in Range(heap) THEN heap ELSE Append(heap, t)
  /\ left' = [left EXCEPT ![t] = duration]
  /\ repeat' = [repeat EXCEPT ![t] = again]
  /\ asked' = [asked EXCEPT ![t] = duration] /\ started' = Append(RemoveFirst(started, t), t)

\* uv_timer_start: removed from the heap if it is there, and inserted with a new
\* start_id.  A sum that overflows is clamped to a time that never comes.
Arm(t, duration, again) ==
  /\ heap' = Append(RemoveFirst(heap, t), t)
  /\ left' = [left EXCEPT ![t] = duration]
  /\ repeat' = [repeat EXCEPT ![t] = again]
  /\ asked' = [asked EXCEPT ![t] = duration] /\ started' = Append(RemoveFirst(started, t), t)

\* uv_timer_stop.  Nothing reads the timeout and repeat of a stopped timer, and so
\* they are dropped.
Disarm(t) ==
  /\ heap' = RemoveFirst(heap, t)
  /\ left' = [left EXCEPT ![t] = 0]
  /\ repeat' = [repeat EXCEPT ![t] = 0]
  /\ asked' = [asked EXCEPT ![t] = 0] /\ started' = RemoveFirst(started, t)

\* Timer::Start, with the values of SetFirstTime and SetInterval.
StartTimer(t, firstTime, interval) ==
  /\ InUserCode /\ t \notin closed
  /\ Arm(t, firstTime, interval)
  /\ active' = active \cup {t}
  /\ UNCHANGED <<queueVars, closed, lag, loopVars, cb>>

StopTimer(t) ==
  /\ InUserCode /\ t \in active
  /\ Disarm(t)
  /\ active' = active \ {t}
  /\ UNCHANGED <<queueVars, closed, lag, loopVars, cb>>

\* A uv_idle_start during uv__run_idle that inserts into its local queue.
StartWatcher_InTurn(w) ==
  /\ InUserCode /\ w \notin closed \cup active
  /\ IF phase = Kind[w]
     THEN turn' = Append(turn, w) /\ UNCHANGED watching
     ELSE watching' = [watching EXCEPT ![Kind[w]] = <<w>> \o @] /\ UNCHANGED turn
  /\ active' = active \cup {w}
  /\ UNCHANGED <<heapVars, ran, owed, closed, lag, loopVars, cb>>

\* EventHandle::Start: new watchers are put in front.
StartWatcher(w) ==
  /\ InUserCode /\ w \notin closed \cup active
  /\ watching' = [watching EXCEPT ![Kind[w]] = <<w>> \o @]
  /\ active' = active \cup {w}
  /\ UNCHANGED <<heapVars, turn, ran, owed, closed, lag, loopVars, cb>>

\* A uv_idle_stop that only looks for the watcher in the loop's own queue.
Unlink_NotInTurn(w) ==
  /\ watching' = [watching EXCEPT ![Kind[w]] = RemoveFirst(@, w)]
  /\ UNCHANGED <<turn, ran>>
  /\ owed' = owed \ {w}

\* QUEUE_REMOVE, from whichever queue the watcher is in.
Unlink(w) ==
  /\ watching' = [watching EXCEPT ![Kind[w]] = RemoveFirst(@, w)]
  /\ turn' = RemoveFirst(turn, w)
  /\ owed' = owed \ {w}
  /\ UNCHANGED ran

\* EventHandle::Stop
StopWatcher(w) ==
  /\ InUserCode /\ w \in active
  /\ Unlink(w)
  /\ active' = active \ {w}
  /\ UNCHANGED <<heapVars, closed, lag, loopVars, cb>>

\* AsyncHandle::Close: uv__timer_close and uv__idle_close stop the handle.
CloseTimer(t) ==
  /\ InUserCode /\ t \notin closed
  /\ Disarm(t)
  /\ active' = active \ {t} /\ closed' = closed \cup {t}
  /\ UNCHANGED <<queueVars, lag, loopVars, cb>>

CloseWatcher(w) ==
  /\ InUserCode /\ w \notin closed
  /\ Unlink(w)
  /\ active' = active \ {w} /\ closed' = closed \cup {w}
  /\ UNCHANGED <<heapVars, lag, loopVars, cb>>

\* RunLoop::Stop in a callback: from there on UV_RUN_DEFAULT goes on like
\* UV_RUN_NOWAIT, and the other modes as before.  (Stop outside is RunLoop's
\* subject.)
StopLoop ==
  /\ cb # NULL /\ mode = "default"
  /\ mode' = "nowait"
  /\ UNCHANGED <<active, heapVars, queueVars, closed, lag, phase, wait, cb>>

-----------------------------------------------------------------------------
(* The clock.                                                              *)

\* Time passes, while a callback runs or the poll blocks.
Tick ==
  /\ \/ phase = "poll" /\ cb = NULL /\ wait # 0 /\ (wait = Forever => lag < CallbackLag)
     \/ InUserCode /\ lag < CallbackLag
  /\ lag' = lag + 1
  /\ asked' = [t \in Timers |-> IF t \in active THEN Less(asked[t], 1) ELSE 0]
  /\ wait' = IF wait # 0 THEN Less(wait, 1) ELSE 0
  /\ UNCHANGED <<active, heap, left, repeat, started, queueVars, closed, phase, mode, cb>>

\* uv__update_time
UpdateTime ==
  /\ left' = [t \in Timers |-> IF t \in active THEN Less(left[t], lag) ELSE 0]
  /\ lag' = 0

-----------------------------------------------------------------------------
(* uv_run.                                                                 *)

\* uv__loop_alive.  Handles of other kinds may keep the loop alive as well.
Alive == active # {} \/ closed # {}

EnterRun(m) ==
  /\ phase = "user"
  /\ UpdateTime
  /\ phase' \in {"timers"} \cup (IF Alive THEN {} ELSE {"user"})
  /\ mode' = IF phase' = "user" THEN NULL ELSE m
  /\ UNCHANGED <<active, heap, repeat, asked, started, queueVars, closed, wait, cb>>

\* timer_less_than, for timers of the heap
Before(t, u) ==
  \/ left[t] < left[u]
  \/ left[t] = left[u] /\ \E i, j \in DOMAIN heap : heap[i] = t /\ heap[j] = u /\ i <= j

\* heap_min
IsFirst(t) == t \in Range(heap) /\ \A u \in Range(heap) : Before(t, u)

Due(t) == t \in Range(heap) /\ left[t] <= 0

InTimers == phase \in {"timers", "lastTimers"} /\ cb = NULL

\* uv__run_timers: the timer is stopped, armed again if it repeats, and called.
RunTimer(t) ==
  /\ InTimers /\ IsFirst(t) /\ Due(t)
  /\ IF repeat[t] # 0
     THEN Arm(t, repeat[t], repeat[t]) /\ UNCHANGED active
     ELSE Disarm(t) /\ active' = active \ {t}
  /\ cb' = t
  /\ UNCHANGED <<queueVars, closed, lag, loopVars>>

\* QUEUE_MOVE, at the start of uv__run_idle, uv__run_prepare, uv__run_check
MoveQueue(k) ==
  /\ turn' = watching[k] /\ watching' = [watching EXCEPT ![k] = <<>>]
  /\ ran' = {} /\ owed' = Range(watching[k])

\* Callbacks that uv__run_pending makes for handles of other kinds may follow.
EndTimers(event) ==
  /\ phase = "timers" /\ cb = NULL /\ ~\E t \in Timers : Due(t)
  /\ phase' = "pending" /\ cb' = IF event THEN "event" ELSE NULL
  /\ UNCHANGED <<active, heapVars, queueVars, closed, lag, mode, wait>>

EndPending ==
  /\ phase = "pending" /\ cb = NULL
  /\ phase' = "idle" /\ MoveQueue("idle")
  /\ UNCHANGED <<active, heapVars, closed, lag, mode, wait, cb>>

RunWatcher ==
  /\ phase \in Kinds /\ cb = NULL /\ turn # <<>>
  /\ turn' = Tail(turn)
  /\ watching' = [watching EXCEPT ![phase] = Append(@, Head(turn))]
  /\ ran' = ran \cup {Head(turn)}
  /\ cb' = Head(turn)
  /\ UNCHANGED <<active, heapVars, owed, closed, lag, loopVars>>

EndIdle ==
  /\ phase = "idle" /\ cb = NULL /\ turn = <<>>
  /\ phase' = "prepare" /\ MoveQueue("prepare")
  /\ UNCHANGED <<active, heapVars, closed, lag, mode, wait, cb>>

\* A uv_backend_timeout that does not look at the idle watchers.
BackendTimeout_IgnoresIdle(d) ==
  \/ d = 0 /\ (~Alive \/ closed # {})
  \/ /\ closed = {}
     /\ IF heap = <<>> THEN d = Forever
        ELSE \E t \in Timers : IsFirst(t) /\ d = IF left[t] <= 0 THEN 0 ELSE left[t]

\* A uv_backend_timeout that does not look at the timers.
BackendTimeout_IgnoresTimers(d) ==
  \/ d = 0 /\ (~Alive \/ closed # {} \/ watching["idle"] # <<>>)
  \/ closed = {} /\ watching["idle"] = <<>> /\ d = Forever

\* uv_backend_timeout and uv__next_timeout.  Other handles may keep a loop
\* waiting that has no timer and no watcher.  (A wait of more than INT_MAX ms is
\* cut short, which is a wakeup without an event; and it does not wait either when
\* a handle of another kind is in the pending queue.)
BackendTimeout(d) ==
  \/ d = 0 /\ (~Alive \/ closed # {} \/ watching["idle"] # <<>>)
  \/ /\ closed = {} /\ watching["idle"] = <<>>
     /\ IF heap = <<>> THEN d = Forever
        ELSE \E t \in Timers : IsFirst(t) /\ d = IF left[t] <= 0 THEN 0 ELSE left[t]

\* UV_RUN_ONCE does not wait after it has run pending callbacks, or after Stop.
EndPrepare ==
  /\ phase = "prepare" /\ cb = NULL /\ turn = <<>>
  /\ \E d \in 0..Forever : /\ wait' = d
                           /\ \/ BackendTimeout(d) /\ mode # "nowait"
                              \/ d = 0 /\ mode # "default"
  /\ phase' = "poll" /\ turn' = <<>> /\ ran' = {} /\ owed' = {}
  /\ UNCHANGED <<active, heapVars, watching, closed, lag, mode, cb>>

\* epoll_wait returns because its time is up, or for events of other handles,
\* whose callbacks are the first to see the new time.
PollReturns(event) ==
  /\ phase = "poll" /\ (wait = 0 \/ event)
  /\ UpdateTime
  /\ cb' = IF event THEN "event" ELSE NULL
  /\ phase' = "polled" /\ wait' = 0
  /\ UNCHANGED <<active, heap, repeat, asked, started, queueVars, closed, mode>>

EndPoll ==
  /\ phase = "polled" /\ cb = NULL
  /\ phase' = "check" /\ MoveQueue("check")
  /\ UNCHANGED <<active, heapVars, closed, lag, mode, wait, cb>>

EndCheck ==
  /\ phase = "check" /\ cb = NULL /\ turn = <<>>
  /\ phase' = "closing"
  /\ ran' = {} /\ owed' = {}
  /\ UNCHANGED <<active, heapVars, watching, turn, closed, lag, mode, wait, cb>>

CallbackReturns ==
  /\ cb # NULL
  /\ cb' = NULL
  /\ UNCHANGED <<active, heapVars, queueVars, closed, lag, loopVars>>

\* uv__run_closing_handles (the handle may then be created anew), and the end of
\* the iteration: UV_RUN_ONCE runs the timers again, UV_RUN_DEFAULT goes round
\* unless nothing keeps it alive.
EndIteration(next) ==
  /\ phase = "closing"
  /\ next \in CASE mode = "once" -> {"lastTimers"}
                [] mode = "nowait" -> {"user"}
                [] mode = "default" -> {"timers"} \cup (IF active = {} THEN {"user"} ELSE {})
  /\ phase' = next /\ closed' = {}
  /\ IF next = "user" THEN mode' = NULL /\ UNCHANGED <<left, lag>>
                      ELSE UpdateTime /\ UNCHANGED mode
  /\ UNCHANGED <<active, heap, repeat, asked, started, queueVars, wait, cb>>

LeaveRun ==
  /\ phase = "lastTimers" /\ cb = NULL /\ ~\E t \in Timers : Due(t)
  /\ phase' = "user" /\ mode' = NULL
  /\ UNCHANGED <<active, heapVars, queueVars, closed, lag, wait, cb>>

-----------------------------------------------------------------------------
UserStep ==
  \/ \E t \in Timers, d \in FirstTimes, i \in Intervals : StartTimer(t, d, i)
  \/ \E t \in Timers : StopTimer(t) \/ CloseTimer(t)
  \/ \E w \in Watchers : StartWatcher(w) \/ StopWatcher(w) \/ CloseWatcher(w)
  \/ StopLoop

LoopStep ==
  \/ \E t \in Timers : RunTimer(t)
  \/ EndTimers(FALSE) \/ EndPending \/ RunWatcher \/ EndIdle \/ EndPrepare \/ EndPoll \/ EndCheck
  \/ PollReturns(FALSE) \/ CallbackReturns \/ LeaveRun
  \/ \E next \in {"timers", "lastTimers", "user"} : EndIteration(next)

Next ==
  \/ UserStep \/ Tick \/ LoopStep \/ EndTimers(TRUE) \/ PollReturns(TRUE)
  \/ \E m \in Modes : EnterRun(m)

Spec == Init /\ [][Next]_vars

\* The application keeps running the loop and its callbacks return; the clock goes
\* on whatever the program does, also if it can only be seen to in the short times
\* between two steps of a busy loop, which is why Tick is strongly fair.
FairSpec ==
  /\ Spec
  /\ WF_vars(\E m \in Modes : EnterRun(m))
  /\ WF_vars(LoopStep \/ EndTimers(TRUE))
  /\ SF_vars(Tick)

-----------------------------------------------------------------------------
TypeOK ==
  /\ active \subseteq Timers \cup Watchers /\ closed \subseteq Timers \cup Watchers
  /\ heap \in Seq(Timers)
  /\ left \in [Timers -> Int]
  /\ repeat \in [Timers -> Intervals \cup {0}]
  /\ watching \in [Kinds -> Seq(Watchers)] /\ turn \in Seq(Watchers)
  /\ lag \in Nat /\ wait \in 0..Forever
  /\ phase \in {"user", "timers", "pending", "poll", "polled", "closing", "lastTimers"} \cup Kinds
  /\ mode \in Modes \cup {NULL} /\ cb \in Timers \cup Watchers \cup {NULL, "event"}
  /\ asked \in [Timers -> Int] /\ started \in Seq(Timers)
  /\ ran \subseteq Watchers /\ owed \subseteq Watchers

\* Everything the loop still has in a queue.
Queued == Range(heap) \cup Range(turn) \cup UNION {Range(watching[k]) : k \in Kinds}

\* uv__is_active says which handles are queued, each is so once, and a handle
\* that has been closed, and will be freed, never: not even when a callback
\* closes the watcher that is next in turn.
QueuedOnce ==
  /\ Queued = active /\ active \cap closed = {}
  /\ IsInjective(heap) /\ IsInjective(turn)
  /\ \A k \in Kinds : /\ IsInjective(watching[k])
                      /\ Range(watching[k]) \cap Range(turn) = {}
                      /\ \A w \in Range(watching[k]) : Kind[w] = k

\* In its phase every watcher runs once: nothing a callback stops, starts or
\* closes makes another be skipped or run twice, and one that is started by a
\* callback waits for the next iteration.
EachWatcherOnce ==
  phase \in Kinds => /\ ran \cap Range(turn) = {}
                     /\ owed \subseteq ran \cup Range(turn)
                     /\ Range(turn) \subseteq owed

\* The poll does not block while there is an idle watcher or a handle to close,
\* and not past the first timer by more than the time the callbacks before it
\* have taken.
BlocksNoLonger ==
  phase = "poll" /\ cb = NULL /\ wait # 0 =>
    /\ watching["idle"] = <<>> /\ closed = {}
    /\ \A t \in Range(heap) : left[t] # Forever => wait <= left[t] - lag + CallbackLag

\* A timer fires late, but early only by as much as loop->time was behind the
\* clock when it was started; and one whose time overflows never fires.
NotEarly ==
  [][\A t \in Timers : cb = NULL /\ cb' = t => asked[t] <= CallbackLag]_vars

\* The timer called is the one that was asked to fire first, by the clock and but
\* for the lag, and of those due at the same loop->time the one that was started
\* first, however often the others, or it, were started and stopped before.
InOrder ==
  [][\A t \in Timers : cb = NULL /\ cb' = t =>
       \A u \in Range(heap) \ {t} :
         /\ asked[t] <= asked[u] + CallbackLag
         /\ (left[t] = left[u] => \E i, j \in DOMAIN started :
                                   started[i] = t /\ started[j] = u /\ i < j)]_vars

\* A timer that is left alone fires, unless callbacks for ever start timers with
\* no time to wait, in the middle of uv__run_timers.
TimerFires ==
  \A t \in Timers :
    \/ []<><<\E d \in FirstTimes, i \in Intervals : StartTimer(t, d, i)>>_vars
    \/ []<><<\E u \in Timers, i \in Intervals : cb # NULL /\ StartTimer(u, 0, i)>>_vars
    \/ (t \in active /\ left[t] # Forever) ~> (cb = t \/ t \notin active \/ left[t] = Forever)
=============================================================================
