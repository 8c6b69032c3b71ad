-------------------------- MODULE LoopPhases_proofs --------------------------
(***************************************************************************)
(* For any timers and watchers, any times they are given and any lag:      *)
(* nothing a callback does disturbs the queues uv_run walks over, timers    *)
(* fire in order and not before their time, and the poll never oversleeps. *)
(***************************************************************************)
EXTENDS LoopPhases, QueueTheorems

\* The local queue of uv__run_idle, uv__run_prepare, uv__run_check: it is empty
\* outside, and inside holds watchers of that kind.
TurnExact ==
  /\ phase \notin Kinds => turn = <<>>
  /\ \A w \in Range(turn) : Kind[w] = phase

\* What loop->time and the clock know of a timer: they agree on when it is due but
\* for the lag, and the order of the heap is that in which the timers were started.
TimesExact ==
  /\ phase = "poll" => cb = NULL
  /\ phase # "poll" => lag <= CallbackLag
  /\ phase = "poll" /\ wait # 0 /\ wait = Forever => \A t \in Range(heap) : left[t] = Forever
  /\ \A t \in Timers : left[t] <= Forever
  /\ \A t \in Range(heap) :
       IF left[t] = Forever THEN asked[t] = Forever
       ELSE /\ asked[t] < Forever
            /\ left[t] - lag <= asked[t] /\ asked[t] <= left[t] - lag + CallbackLag
  /\ started = heap

LInv == /\ TypeOK /\ QueuedOnce /\ TurnExact /\ EachWatcherOnce
        /\ TimesExact /\ BlocksNoLonger

\* Queued, member by member.
LEMMA InQueue ==
  \A x : x \in Queued <=> \/ x \in Range(heap) \/ x \in Range(turn)
                          \/ \E k \in Kinds : x \in Range(watching[k])
BY DEF Queued

LEMMA InQueuePrime ==
  \A x : x \in Queued' <=> \/ x \in Range(heap') \/ x \in Range(turn')
                           \/ \E k \in Kinds : x \in Range(watching'[k])
BY DEF Queued

LEMMA TimersAndWatchers ==
  ASSUME TypeOK
  PROVE  /\ Range(heap) \subseteq Timers /\ Range(turn) \subseteq Watchers
         /\ \A k \in Kinds : watching[k] \in Seq(Watchers) /\ Range(watching[k]) \subseteq Watchers
<1>1. heap \in Seq(Timers) /\ turn \in Seq(Watchers)
  BY DEF TypeOK
<1>2. Range(heap) \subseteq Timers /\ Range(turn) \subseteq Watchers
  BY <1>1, RangeOfSeq
<1>3. ASSUME NEW k \in Kinds
      PROVE  watching[k] \in Seq(Watchers) /\ Range(watching[k]) \subseteq Watchers
  <2>1. watching[k] \in Seq(Watchers)
    BY <1>3 DEF TypeOK
  <2> QED BY <2>1, RangeOfSeq
<1> QED BY <1>2, <1>3

-----------------------------------------------------------------------------
(* The three ways a queue changes.                                         *)

LEMMA ArmEffect ==
  ASSUME LInv, NEW t \in Timers, NEW d \in 0..Forever, NEW i \in Intervals \cup {0},
         Arm(t, d, i)
  PROVE  /\ heap' \in Seq(Timers) /\ IsInjective(heap')
         /\ Range(heap') = Range(heap) \cup {t}
         /\ left' \in [Timers -> Int] /\ repeat' \in [Timers -> Intervals \cup {0}]
         /\ asked' \in [Timers -> Int] /\ started' = heap'
         /\ left'[t] = d /\ asked'[t] = d
         /\ \A u \in Timers \ {t} : left'[u] = left[u] /\ asked'[u] = asked[u]
<1> DEFINE rest == RemoveFirst(heap, t)
<1>1. heap \in Seq(Timers) /\ IsInjective(heap)
  BY DEF LInv, TypeOK, QueuedOnce
<1>2. rest \in Seq(Timers) /\ Range(rest) = Range(heap) \ {t} /\ IsInjective(rest)
  BY <1>1, TakeOut
<1>3. heap' = Append(rest, t) /\ started' = Append(rest, t)
  BY DEF Arm, LInv, TimesExact
<1> HIDE DEF rest
<1>4. /\ heap' \in Seq(Timers) /\ IsInjective(heap')
      /\ Range(heap') = Range(heap) \cup {t}
  BY <1>2, <1>3, PutAtEnd
<1>5. d \in Int
  BY PhasesAssumption
<1> QED BY <1>3, <1>4, <1>5 DEF Arm, LInv, TypeOK

LEMMA DisarmEffect ==
  ASSUME LInv, NEW t \in Timers, Disarm(t)
  PROVE  /\ heap' \in Seq(Timers) /\ IsInjective(heap')
         /\ Range(heap') = Range(heap) \ {t}
         /\ left' \in [Timers -> Int] /\ repeat' \in [Timers -> Intervals \cup {0}]
         /\ asked' \in [Timers -> Int] /\ started' = heap'
         /\ left'[t] = 0
         /\ \A u \in Timers \ {t} : left'[u] = left[u] /\ asked'[u] = asked[u]
<1>1. heap \in Seq(Timers) /\ IsInjective(heap)
  BY DEF LInv, TypeOK, QueuedOnce
<1>2. heap' = RemoveFirst(heap, t) /\ started' = heap'
  BY DEF Disarm, LInv, TimesExact
<1>3. /\ heap' \in Seq(Timers) /\ IsInjective(heap')
      /\ Range(heap') = Range(heap) \ {t}
  BY <1>1, <1>2, TakeOut
<1> QED BY <1>2, <1>3, PhasesAssumption DEF Disarm, LInv, TypeOK

LEMMA UnlinkEffect ==
  ASSUME LInv, NEW w \in Watchers, Unlink(w)
  PROVE  /\ watching' \in [Kinds -> Seq(Watchers)] /\ turn' \in Seq(Watchers)
         /\ \A k \in Kinds : /\ IsInjective(watching'[k])
                             /\ Range(watching'[k]) = Range(watching[k]) \ {w}
         /\ IsInjective(turn') /\ Range(turn') = Range(turn) \ {w}
         /\ turn = <<>> => turn' = <<>>
<1> DEFINE q == watching[Kind[w]]
<1>1. /\ Kind[w] \in Kinds /\ q \in Seq(Watchers) /\ IsInjective(q)
      /\ turn \in Seq(Watchers) /\ IsInjective(turn)
  BY PhasesAssumption DEF LInv, TypeOK, QueuedOnce
<1>2. /\ RemoveFirst(q, w) \in Seq(Watchers) /\ IsInjective(RemoveFirst(q, w))
      /\ Range(RemoveFirst(q, w)) = Range(q) \ {w}
  BY <1>1, TakeOut
<1>3. /\ turn' = RemoveFirst(turn, w) /\ turn' \in Seq(Watchers) /\ IsInjective(turn')
      /\ Range(turn') = Range(turn) \ {w}
  <2>1. turn' = RemoveFirst(turn, w)
    BY DEF Unlink
  <2> QED BY <1>1, <2>1, TakeOut
<1>4. turn = <<>> => turn' = <<>>
  BY <1>3 DEF RemoveFirst
<1>5. watching' = [watching EXCEPT ![Kind[w]] = RemoveFirst(q, w)]
  BY DEF Unlink
<1> HIDE DEF q
<1>6. \A k \in Kinds : k # Kind[w] => w \notin Range(watching[k])
  BY DEF LInv, QueuedOnce
<1>7. watching \in [Kinds -> Seq(Watchers)] /\ \A k \in Kinds : IsInjective(watching[k])
  BY DEF LInv, TypeOK, QueuedOnce
<1>8. /\ watching' \in [Kinds -> Seq(Watchers)]
      /\ \A k \in Kinds : /\ IsInjective(watching'[k])
                          /\ Range(watching'[k]) = Range(watching[k]) \ {w}
  BY <1>1, <1>2, <1>5, <1>6, <1>7 DEF q
<1> QED BY <1>3, <1>4, <1>8

-----------------------------------------------------------------------------
(* User code.                                                              *)

\* What the callbacks do to timers: the heap gains or loses the one timer, and
\* a timer that is started, with loop->time behind the clock by at most the
\* lag, is due that much early.
LEMMA TimerStep ==
  ASSUME LInv, NEW t \in Timers,
         \/ \E d \in FirstTimes, i \in Intervals : StartTimer(t, d, i)
         \/ StopTimer(t) \/ CloseTimer(t) \/ RunTimer(t)
  PROVE  LInv'
<1> USE PhasesAssumption
<1>1. /\ UNCHANGED <<queueVars, lag, loopVars>>
      /\ phase # "poll" /\ lag <= CallbackLag
      /\ cb' \in {cb, t}
    BY DEF StartTimer, StopTimer, CloseTimer, RunTimer, InUserCode, InTimers, LInv, TimesExact,
           queueVars, loopVars
<1>2. /\ heap' \in Seq(Timers) /\ IsInjective(heap')
      /\ left' \in [Timers -> Int] /\ repeat' \in [Timers -> Intervals \cup {0}]
      /\ asked' \in [Timers -> Int] /\ started' = heap'
      /\ \A u \in Timers \ {t} : left'[u] = left[u] /\ asked'[u] = asked[u]
      /\ left'[t] \in 0..Forever
      /\ \/ /\ Range(heap') = Range(heap) \cup {t} /\ active' = active \cup {t}
            /\ asked'[t] = left'[t] /\ closed' = closed /\ t \notin closed
         \/ /\ Range(heap') = Range(heap) \ {t} /\ active' = active \ {t}
            /\ closed' \in {closed, closed \cup {t}}
  <2>1. CASE \E d \in FirstTimes, i \in Intervals : StartTimer(t, d, i)
    BY <2>1, ArmEffect DEF StartTimer
  <2>2. CASE StopTimer(t) \/ CloseTimer(t)
    BY <2>2, DisarmEffect DEF StopTimer, CloseTimer
  <2>3. CASE RunTimer(t) /\ repeat[t] # 0
    <3>1. repeat[t] \in Intervals /\ t \in Range(heap)
      BY <2>3 DEF RunTimer, IsFirst, LInv, TypeOK
    <3>2. t \in active /\ t \notin closed
      BY <3>1, InQueue DEF LInv, QueuedOnce
    <3>3. Arm(t, repeat[t], repeat[t]) /\ UNCHANGED <<active, closed>>
      BY <2>3 DEF RunTimer
    <3> QED BY <3>1, <3>2, <3>3, ArmEffect
  <2>4. CASE RunTimer(t) /\ repeat[t] = 0
    BY <2>4, DisarmEffect DEF RunTimer
  <2> QED BY <2>1, <2>2, <2>3, <2>4
<1>3. TypeOK'
  BY <1>1, <1>2 DEF LInv, TypeOK, queueVars, loopVars
<1>4. QueuedOnce'
  <2>1. Queued' = active'
    <3>1. \A x : x # t => (x \in Queued' <=> x \in Queued)
      BY <1>1, <1>2, InQueue, InQueuePrime DEF queueVars
    <3>2. t \in Queued' <=> t \in Range(heap')
      BY <1>1, InQueuePrime, TimersAndWatchers DEF LInv, queueVars
    <3>3. \A x : x \in Queued <=> x \in active
      BY DEF LInv, QueuedOnce
    <3>4. t \in Range(heap') <=> t \in active'
      BY <1>2
    <3>5. \A x : x # t => (x \in active' <=> x \in active)
      BY <1>2
    <3>6. \A x : x \in Queued' <=> x \in active'
      BY <3>1, <3>2, <3>3, <3>4, <3>5
    <3> QED BY <3>6
  <2> QED BY <2>1, <1>1, <1>2 DEF LInv, QueuedOnce, queueVars
<1>5. TurnExact' /\ EachWatcherOnce'
  BY <1>1 DEF LInv, TurnExact, EachWatcherOnce, queueVars, loopVars
<1>6. TimesExact'
  <2>1. \A u \in Timers : left'[u] <= Forever
    <3>1. left'[t] <= Forever
      BY <1>2
    <3>2. \A u \in Timers \ {t} : left'[u] <= Forever
      BY <1>2 DEF LInv, TimesExact
    <3> QED BY <3>1, <3>2
  <2>2. ASSUME NEW u \in Range(heap')
        PROVE  IF left'[u] = Forever THEN asked'[u] = Forever
               ELSE /\ asked'[u] < Forever
                    /\ left'[u] - lag' <= asked'[u] /\ asked'[u] <= left'[u] - lag' + CallbackLag
    <3>1. CASE u = t
      <4>1. left'[t] \in 0..Forever /\ asked'[t] = left'[t]
        BY <3>1, <2>2, <1>2
      <4>2. lag' \in Nat /\ lag' <= CallbackLag
        BY <1>1 DEF LInv, TypeOK
      <4> QED BY <3>1, <4>1, <4>2
    <3>2. CASE u # t
      <4>1. u \in Range(heap) /\ left'[u] = left[u] /\ asked'[u] = asked[u] /\ lag' = lag
        BY <3>2, <2>2, <1>1, <1>2, TimersAndWatchers DEF LInv
      <4> QED BY <4>1 DEF LInv, TimesExact
    <3> QED BY <3>1, <3>2
  <2> QED BY <2>1, <2>2, <1>1, <1>2 DEF LInv, TimesExact, loopVars
<1>7. BlocksNoLonger'
  BY <1>1 DEF BlocksNoLonger, loopVars
<1> QED BY <1>3, <1>4, <1>5, <1>6, <1>7 DEF LInv

\* What they do to watchers.
LEMMA WatcherStep ==
  ASSUME LInv, NEW w \in Watchers, StartWatcher(w) \/ StopWatcher(w) \/ CloseWatcher(w)
  PROVE  LInv'
<1> USE PhasesAssumption
<1>1. /\ UNCHANGED <<heapVars, lag, loopVars, cb, ran>>
      /\ phase # "poll" /\ lag <= CallbackLag
    BY DEF StartWatcher, StopWatcher, CloseWatcher, Unlink, InUserCode, LInv, TimesExact,
           loopVars
<1>2. CASE StartWatcher(w)
  <2> DEFINE q == watching[Kind[w]]
  <2>1. /\ Kind[w] \in Kinds /\ q \in Seq(Watchers) /\ IsInjective(q) /\ w \notin Range(q)
    BY <1>2, InQueue DEF StartWatcher, LInv, TypeOK, QueuedOnce
  <2>2. /\ <<w>> \o q \in Seq(Watchers) /\ IsInjective(<<w>> \o q)
        /\ Range(<<w>> \o q) = Range(q) \cup {w}
    BY <2>1, PushHandle
  <2>3. watching' = [watching EXCEPT ![Kind[w]] = <<w>> \o q]
    BY <1>2 DEF StartWatcher
  <2> HIDE DEF q
  <2>4. /\ UNCHANGED <<turn, owed, closed>> /\ active' = active \cup {w}
        /\ w \notin closed \cup active
    BY <1>2 DEF StartWatcher
  <2>5. TypeOK'
    BY <1>1, <2>1, <2>2, <2>3, <2>4 DEF LInv, TypeOK, heapVars, loopVars
  <2>6. \A k \in Kinds : /\ IsInjective(watching'[k])
                         /\ Range(watching'[k]) = Range(watching[k]) \cup
                                                  (IF k = Kind[w] THEN {w} ELSE {})
    BY <2>1, <2>2, <2>3 DEF LInv, TypeOK, QueuedOnce, q
  <2>7. QueuedOnce'
    <3>1. Queued' = active'
      <4>1. \A x : x # w => (x \in Queued' <=> x \in Queued)
        BY <1>1, <2>4, <2>6, InQueue, InQueuePrime DEF heapVars
      <4>2. w \in Queued'
        BY <2>1, <2>6, InQueuePrime
      <4>3. \A x : x \in Queued <=> x \in active
        BY DEF LInv, QueuedOnce
      <4> QED BY <4>1, <4>2, <4>3, <2>4
    <3>2. w \notin Range(turn)
      BY <2>4, InQueue DEF LInv, QueuedOnce
    <3> QED BY <3>1, <3>2, <1>1, <2>4, <2>6 DEF LInv, QueuedOnce, heapVars
  <2>8. TurnExact' /\ EachWatcherOnce'
    BY <1>1, <2>4 DEF LInv, TurnExact, EachWatcherOnce, loopVars
  <2>9. TimesExact' /\ BlocksNoLonger'
    BY <1>1 DEF LInv, TimesExact, BlocksNoLonger, heapVars, loopVars
  <2> QED BY <2>5, <2>7, <2>8, <2>9 DEF LInv
<1>3. CASE StopWatcher(w) \/ CloseWatcher(w)
  <2>1. /\ watching' \in [Kinds -> Seq(Watchers)] /\ turn' \in Seq(Watchers)
        /\ \A k \in Kinds : /\ IsInjective(watching'[k])
                            /\ Range(watching'[k]) = Range(watching[k]) \ {w}
        /\ IsInjective(turn') /\ Range(turn') = Range(turn) \ {w}
        /\ turn = <<>> => turn' = <<>>
    BY <1>3, UnlinkEffect DEF StopWatcher, CloseWatcher
  <2>2. /\ owed' = owed \ {w} /\ active' = active \ {w}
        /\ closed' \in {closed, closed \cup {w}}
    BY <1>3 DEF StopWatcher, CloseWatcher, Unlink
  <2>3. TypeOK'
    BY <1>1, <2>1, <2>2 DEF LInv, TypeOK, heapVars, loopVars
  <2>4. QueuedOnce'
    <3>1. Queued' = active'
      <4>1. w \notin Range(heap)
        BY TimersAndWatchers DEF LInv
      <4> QED BY <4>1, <1>1, <2>1, <2>2, InQueue, InQueuePrime DEF LInv, QueuedOnce, heapVars
    <3> QED BY <3>1, <1>1, <2>1, <2>2 DEF LInv, QueuedOnce, heapVars
  <2>5. TurnExact' /\ EachWatcherOnce'
    BY <1>1, <2>1, <2>2 DEF LInv, TurnExact, EachWatcherOnce, loopVars
  <2>6. TimesExact' /\ BlocksNoLonger'
    BY <1>1 DEF LInv, TimesExact, BlocksNoLonger, heapVars, loopVars
  <2> QED BY <2>3, <2>4, <2>5, <2>6 DEF LInv
<1> QED BY <1>2, <1>3

-----------------------------------------------------------------------------
(* uv_run.                                                                 *)

\* A phase of uv_run starts and takes its watchers into the local queue.
LEMMA NextPhase ==
  ASSUME LInv, NEW k \in Kinds, MoveQueue(k), turn = <<>>, phase # "poll", phase' = k,
         UNCHANGED <<active, heapVars, closed, lag, mode, wait, cb>>
  PROVE  LInv'
<1> USE PhasesAssumption
<1>1. /\ turn' = watching[k] /\ ran' = {} /\ owed' = Range(watching[k])
      /\ watching' = [watching EXCEPT ![k] = <<>>]
  BY DEF MoveQueue
<1>2. /\ watching \in [Kinds -> Seq(Watchers)] /\ watching[k] \in Seq(Watchers)
      /\ Range(watching[k]) \subseteq Watchers /\ Range(turn) = {}
  BY TimersAndWatchers, EmptyQueue DEF LInv, TypeOK
<1>3. watching' \in [Kinds -> Seq(Watchers)] /\ watching'[k] = <<>>
      /\ \A j \in Kinds : j # k => watching'[j] = watching[j]
  BY <1>1, <1>2
<1>4. TypeOK'
  BY <1>1, <1>2, <1>3 DEF LInv, TypeOK, heapVars
<1>5. Range(watching'[k]) = {} /\ IsInjective(watching'[k])
  BY <1>3, EmptyQueue
<1>6. QueuedOnce'
  <2>1. \A x : x \in Queued' <=> x \in Queued
    BY <1>1, <1>2, <1>3, <1>5, InQueue, InQueuePrime DEF heapVars
  <2>2. Queued' = active'
    BY <2>1 DEF LInv, QueuedOnce
  <2>3. IsInjective(turn')
    BY <1>1 DEF LInv, QueuedOnce
  <2>4. \A j \in Kinds : j # k => Range(watching'[j]) \cap Range(turn') = {}
    BY <1>1, <1>3 DEF LInv, QueuedOnce
  <2> QED BY <2>2, <2>3, <2>4, <1>3, <1>5 DEF LInv, QueuedOnce, heapVars
<1>7. TurnExact'
  BY <1>1 DEF TurnExact, LInv, QueuedOnce
<1>8. EachWatcherOnce'
  BY <1>1 DEF EachWatcherOnce
<1>9. TimesExact' /\ BlocksNoLonger'
  BY DEF LInv, TimesExact, BlocksNoLonger, heapVars, Kinds
<1> QED BY <1>4, <1>6, <1>7, <1>8, <1>9 DEF LInv

LEMMA MovingPhases ==
  ASSUME LInv, EndPending \/ EndIdle \/ EndPoll
  PROVE  LInv'
<1>1. CASE EndPending
  BY <1>1, NextPhase DEF EndPending, LInv, TurnExact, Kinds
<1>2. CASE EndIdle
  BY <1>2, NextPhase DEF EndIdle, Kinds
<1>3. CASE EndPoll
  BY <1>3, NextPhase DEF EndPoll, LInv, TurnExact, Kinds
<1> QED BY <1>1, <1>2, <1>3

LEMMA WatcherRuns ==
  ASSUME LInv, RunWatcher
  PROVE  LInv'
<1> DEFINE w == Head(turn)
           q == watching[phase]
<1>1. /\ phase \in Kinds /\ turn # <<>> /\ turn' = Tail(turn)
      /\ watching' = [watching EXCEPT ![phase] = Append(q, w)]
      /\ ran' = ran \cup {w} /\ cb' = w
      /\ UNCHANGED <<active, heapVars, owed, closed, lag, loopVars>>
  BY DEF RunWatcher
<1>2. /\ turn \in Seq(Watchers) /\ IsInjective(turn)
      /\ watching \in [Kinds -> Seq(Watchers)]
      /\ q \in Seq(Watchers) /\ IsInjective(q)
      /\ Range(q) \cap Range(turn) = {}
  BY <1>1 DEF LInv, TypeOK, QueuedOnce
<1>3. /\ w \in Watchers /\ w \in Range(turn)
      /\ turn' \in Seq(Watchers) /\ IsInjective(turn') /\ Range(turn') = Range(turn) \ {w}
  BY <1>1, <1>2, TakeHandle
<1>4. w \notin Range(q)
  BY <1>2, <1>3
<1>5. /\ Append(q, w) \in Seq(Watchers) /\ IsInjective(Append(q, w))
      /\ Range(Append(q, w)) = Range(q) \cup {w}
  BY <1>2, <1>3, <1>4, PutAtEnd
<1> HIDE DEF w, q
<1>6. /\ watching' \in [Kinds -> Seq(Watchers)] /\ watching'[phase] = Append(q, w)
      /\ \A k \in Kinds : k # phase => watching'[k] = watching[k]
  BY <1>1, <1>2, <1>5
<1>7. TypeOK'
  BY <1>1, <1>3, <1>6 DEF LInv, TypeOK, heapVars, loopVars
<1>8. QueuedOnce'
  <2>1. \A x : x \in Queued' <=> x \in Queued
    <3>1. \A x : (\E k \in Kinds : x \in Range(watching'[k])) <=>
                 x = w \/ \E k \in Kinds : x \in Range(watching[k])
      <4>1. Range(watching'[phase]) = Range(watching[phase]) \cup {w}
        BY <1>5, <1>6 DEF q
      <4>2. \A k \in Kinds : k # phase => Range(watching'[k]) = Range(watching[k])
        BY <1>6
      <4> QED BY <4>1, <4>2, <1>1
    <3> QED BY <3>1, <1>1, <1>3, InQueue, InQueuePrime DEF heapVars
  <2>2. Queued' = active'
    BY <2>1, <1>1 DEF LInv, QueuedOnce
  <2>3. \A k \in Kinds : /\ IsInjective(watching'[k])
                         /\ Range(watching'[k]) \cap Range(turn') = {}
                         /\ \A x \in Range(watching'[k]) : Kind[x] = k
    <3>1. Kind[w] = phase
      BY <1>3 DEF LInv, TurnExact
    <3>2. ASSUME NEW k \in Kinds, k = phase
          PROVE  /\ IsInjective(watching'[k])
                 /\ Range(watching'[k]) \cap Range(turn') = {}
                 /\ \A x \in Range(watching'[k]) : Kind[x] = k
      BY <3>1, <3>2, <1>1, <1>2, <1>3, <1>5, <1>6 DEF LInv, QueuedOnce, q
    <3>3. ASSUME NEW k \in Kinds, k # phase
          PROVE  /\ IsInjective(watching'[k])
                 /\ Range(watching'[k]) \cap Range(turn') = {}
                 /\ \A x \in Range(watching'[k]) : Kind[x] = k
      BY <3>3, <1>3, <1>6 DEF LInv, QueuedOnce
    <3> QED BY <3>2, <3>3
  <2> QED BY <2>2, <2>3, <1>1, <1>3 DEF LInv, QueuedOnce, heapVars
<1>9. TurnExact' /\ EachWatcherOnce'
  BY <1>1, <1>3 DEF LInv, TurnExact, EachWatcherOnce, loopVars
<1>10. TimesExact' /\ BlocksNoLonger'
  BY <1>1 DEF LInv, TimesExact, BlocksNoLonger, heapVars, loopVars, Kinds
<1> QED BY <1>7, <1>8, <1>9, <1>10 DEF LInv

\* The phases that leave the queues alone.
LEMMA OtherPhases ==
  ASSUME LInv,
         \/ \E event \in BOOLEAN : EndTimers(event)
         \/ EndCheck \/ CallbackReturns \/ LeaveRun \/ StopLoop
  PROVE  LInv'
<1> USE PhasesAssumption
<1>1. /\ UNCHANGED <<active, heapVars, watching, turn, closed, lag, wait>>
      /\ phase # "poll" /\ phase' # "poll"
      /\ cb' \in {cb, NULL, "event"}
      /\ mode' \in Modes \cup {mode, NULL}
      /\ phase' \in {phase, "pending", "closing", "user"}
      /\ \/ UNCHANGED <<ran, owed, phase>>
         \/ /\ phase' \notin Kinds /\ turn = <<>>
            /\ \/ UNCHANGED <<ran, owed>>
               \/ ran' = {} /\ owed' = {}
  <2>1. /\ phase = "poll" => cb = NULL
        /\ phase \notin Kinds => turn = <<>>
    BY DEF LInv, TimesExact, TurnExact
  <2>2. ASSUME NEW event \in BOOLEAN, EndTimers(event)
        PROVE  /\ UNCHANGED <<active, heapVars, watching, turn, closed, lag, wait, ran, owed, mode>>
               /\ phase = "timers" /\ phase' = "pending" /\ cb' \in {NULL, "event"}
    BY <2>2 DEF EndTimers, queueVars
  <2>3. CASE EndCheck
    BY <2>3 DEF EndCheck, Kinds
  <2>4. CASE CallbackReturns
    BY <2>1, <2>4 DEF CallbackReturns, queueVars, loopVars
  <2>5. CASE StopLoop
    BY <2>1, <2>5 DEF StopLoop, queueVars, Modes
  <2>6. CASE LeaveRun
    BY <2>1, <2>6 DEF LeaveRun, queueVars, Kinds
  <2>7. CASE \E event \in BOOLEAN : EndTimers(event)
    BY <2>1, <2>2, <2>7 DEF Kinds
  <2> QED BY <2>3, <2>4, <2>5, <2>6, <2>7
<1>2. TypeOK'
  BY <1>1 DEF LInv, TypeOK, heapVars
<1>3. QueuedOnce'
  BY <1>1 DEF LInv, QueuedOnce, Queued, heapVars
<1>4. TurnExact' /\ EachWatcherOnce'
  BY <1>1, EmptyQueue DEF LInv, TurnExact, EachWatcherOnce
<1>5. TimesExact' /\ BlocksNoLonger'
  BY <1>1 DEF LInv, TimesExact, BlocksNoLonger, heapVars
<1> QED BY <1>2, <1>3, <1>4, <1>5 DEF LInv

\* How long the poll blocks.
LEMMA PollStarts ==
  ASSUME LInv, EndPrepare
  PROVE  LInv'
<1> USE PhasesAssumption
<1>1. PICK d \in 0..Forever : wait' = d /\ (BackendTimeout(d) \/ d = 0)
  BY DEF EndPrepare
<1>2. /\ phase = "prepare" /\ cb = NULL /\ turn = <<>> /\ phase' = "poll"
      /\ turn' = <<>> /\ ran' = {} /\ owed' = {}
      /\ UNCHANGED <<active, heapVars, watching, closed, lag, mode, cb>>
  BY DEF EndPrepare
<1>3. TypeOK'
  BY <1>1, <1>2 DEF LInv, TypeOK, heapVars
<1>4. QueuedOnce'
  BY <1>2 DEF LInv, QueuedOnce, Queued, heapVars
<1>5. TurnExact' /\ EachWatcherOnce'
  BY <1>2, EmptyQueue DEF TurnExact, EachWatcherOnce, Kinds
<1>6. d # 0 => /\ closed = {} /\ watching["idle"] = <<>>
               /\ \A t \in Range(heap) : d <= left[t]
  <2>1. ASSUME d # 0 PROVE BackendTimeout(d)
    BY <1>1, <2>1
  <2>2. heap = <<>> => Range(heap) = {}
    BY EmptyQueue
  <2>3. ASSUME d # 0, heap # <<>>, NEW t \in Range(heap) PROVE d <= left[t]
    <3>1. PICK u \in Timers : IsFirst(u) /\ d = IF left[u] <= 0 THEN 0 ELSE left[u]
      BY <2>1, <2>3 DEF BackendTimeout
    <3>2. Before(u, t)
      BY <3>1, <2>3 DEF IsFirst
    <3>3. left[u] \in Int /\ left[t] \in Int
      BY <2>3, <3>1, TimersAndWatchers DEF LInv, TypeOK
    <3> QED BY <3>1, <3>2, <3>3, <2>3 DEF Before
  <2> QED BY <2>1, <2>2, <2>3 DEF BackendTimeout
<1>7. lag <= CallbackLag /\ lag \in Nat
  BY <1>2 DEF LInv, TimesExact, TypeOK
<1>8. \A t \in Range(heap) : t \in Timers /\ left[t] \in Int /\ left[t] <= Forever
  BY TimersAndWatchers DEF LInv, TypeOK, TimesExact
<1>9. BlocksNoLonger'
  <2>1. ASSUME d # 0, NEW t \in Range(heap)
        PROVE  d <= left[t] - lag + CallbackLag
    BY <2>1, <1>1, <1>6, <1>7, <1>8
  <2> QED BY <2>1, <1>1, <1>2, <1>6 DEF BlocksNoLonger, heapVars
<1>10. TimesExact'
  <2>1. ASSUME d # 0, d = Forever, NEW t \in Range(heap)
        PROVE  left[t] = Forever
    BY <2>1, <1>1, <1>6, <1>8
  <2> QED BY <2>1, <1>1, <1>2 DEF LInv, TimesExact, heapVars
<1> QED BY <1>3, <1>4, <1>5, <1>9, <1>10 DEF LInv

-----------------------------------------------------------------------------
(* The clock.                                                              *)

LEMMA TimePasses ==
  ASSUME LInv, Tick
  PROVE  LInv'
<1> USE PhasesAssumption
<1>1. /\ lag' = lag + 1
      /\ asked' = [t \in Timers |-> IF t \in active THEN Less(asked[t], 1) ELSE 0]
      /\ wait' = IF wait # 0 THEN Less(wait, 1) ELSE 0
      /\ UNCHANGED <<active, heap, left, repeat, started, queueVars, closed, phase, mode, cb>>
      /\ \/ phase = "poll" /\ cb = NULL /\ wait # 0 /\ (wait = Forever => lag < CallbackLag)
         \/ phase # "poll" /\ lag < CallbackLag
  BY DEF Tick, InUserCode, LInv, TimesExact
<1>2. /\ lag \in Nat /\ wait \in 0..Forever /\ wait' \in 0..Forever
      /\ asked \in [Timers -> Int] /\ left \in [Timers -> Int]
  BY <1>1 DEF LInv, TypeOK, Less
<1>3. ASSUME NEW t \in Timers
      PROVE  /\ asked'[t] \in Int
             /\ t \in active => asked'[t] = Less(asked[t], 1)
  BY <1>1, <1>2, <1>3 DEF Less
<1>4. TypeOK'
  <2>1. asked' \in [Timers -> Int]
    BY <1>1, <1>3
  <2> QED BY <2>1, <1>1, <1>2 DEF LInv, TypeOK, queueVars
<1>5. QueuedOnce' /\ TurnExact' /\ EachWatcherOnce'
  BY <1>1 DEF LInv, QueuedOnce, Queued, TurnExact, EachWatcherOnce, queueVars
<1>6. TimesExact'
  <2>1. ASSUME NEW t \in Range(heap)
        PROVE  IF left[t] = Forever THEN asked'[t] = Forever
               ELSE /\ asked'[t] < Forever
                    /\ left[t] - lag' <= asked'[t] /\ asked'[t] <= left[t] - lag' + CallbackLag
    <3>1. t \in Timers /\ t \in active /\ left[t] \in Int /\ asked[t] \in Int
      BY <2>1, <1>2, TimersAndWatchers, InQueue DEF LInv, QueuedOnce
    <3>2. IF left[t] = Forever THEN asked[t] = Forever
          ELSE /\ asked[t] < Forever
               /\ left[t] - lag <= asked[t] /\ asked[t] <= left[t] - lag + CallbackLag
      BY <2>1 DEF LInv, TimesExact
    <3>3. asked'[t] = Less(asked[t], 1)
      BY <3>1, <1>3
    <3> QED BY <3>1, <3>2, <3>3, <1>1, <1>2 DEF Less
  <2>2. /\ phase' = "poll" => cb' = NULL
        /\ phase' # "poll" => lag' <= CallbackLag
    BY <1>1, <1>2 DEF LInv, TimesExact
  <2>3. wait' # 0 /\ wait' = Forever => wait # 0 /\ wait = Forever
    BY <1>1, <1>2 DEF Less
  <2> QED BY <2>1, <2>2, <2>3, <1>1 DEF LInv, TimesExact
<1>7. BlocksNoLonger'
  <2>1. ASSUME phase = "poll", cb = NULL, wait' # 0, NEW t \in Range(heap), left[t] # Forever
        PROVE  wait' <= left[t] - lag' + CallbackLag
    <3>1. wait # 0 /\ wait <= left[t] - lag + CallbackLag
      BY <2>1, <1>1 DEF LInv, BlocksNoLonger
    <3>2. wait # Forever
      BY <2>1, <3>1 DEF LInv, TimesExact
    <3>3. t \in Timers /\ left[t] \in Int
      BY <2>1, <1>2, TimersAndWatchers DEF LInv
    <3> QED BY <3>1, <3>2, <3>3, <1>1, <1>2 DEF Less
  <2>2. phase = "poll" /\ cb = NULL /\ wait' # 0 => watching["idle"] = <<>> /\ closed = {}
    BY <1>1 DEF LInv, BlocksNoLonger
  <2> QED BY <2>1, <2>2, <1>1 DEF BlocksNoLonger, queueVars
<1> QED BY <1>4, <1>5, <1>6, <1>7 DEF LInv

\* loop->time catches up with the clock: what is left of every timer shrinks by
\* the lag, and so does the room for being early.
LEMMA LoopTimeCatchesUp ==
  ASSUME LInv, UpdateTime, phase' # "poll", phase' \notin Kinds, turn = <<>>,
         phase' \in {"user", "timers", "polled", "lastTimers"},
         UNCHANGED <<active, heap, repeat, asked, started, queueVars>>,
         closed' \in {closed, {}}, mode' \in Modes \cup {mode, NULL},
         cb' \in {cb, NULL, "event"}, wait' \in {wait, 0}
  PROVE  LInv'
<1> USE PhasesAssumption
<1>1. lag' = 0 /\ lag \in Nat /\ left \in [Timers -> Int]
      /\ asked \in [Timers -> Int]
  BY DEF UpdateTime, LInv, TypeOK
<1>2. ASSUME NEW t \in Timers
      PROVE  /\ left'[t] \in Int /\ left'[t] <= Forever
             /\ t \in active => left'[t] = Less(left[t], lag)
  <2>1. left'[t] = IF t \in active THEN Less(left[t], lag) ELSE 0
    BY <1>2 DEF UpdateTime
  <2>2. left[t] \in Int /\ left[t] <= Forever
    BY <1>1, <1>2 DEF LInv, TimesExact
  <2> QED BY <2>1, <2>2, <1>1 DEF Less
<1>3. TypeOK'
  <2>1. left' \in [Timers -> Int]
    BY <1>2 DEF UpdateTime
  <2> QED BY <2>1, <1>1 DEF LInv, TypeOK, queueVars
<1>4. QueuedOnce'
  BY DEF LInv, QueuedOnce, Queued, queueVars
<1>5. TurnExact' /\ EachWatcherOnce' /\ BlocksNoLonger'
  BY EmptyQueue DEF TurnExact, EachWatcherOnce, BlocksNoLonger, queueVars
<1>6. TimesExact'
  <2>1. ASSUME NEW t \in Range(heap)
        PROVE  IF left'[t] = Forever THEN asked[t] = Forever
               ELSE /\ asked[t] < Forever
                    /\ left'[t] - 0 <= asked[t] /\ asked[t] <= left'[t] - 0 + CallbackLag
    <3>1. t \in Timers /\ t \in active
      BY <2>1, TimersAndWatchers, InQueue DEF LInv, QueuedOnce
    <3>2. /\ left[t] \in Int /\ left[t] <= Forever /\ asked[t] \in Int
          /\ left'[t] = Less(left[t], lag)
      BY <3>1, <1>1, <1>2 DEF LInv, TimesExact
    <3>3. IF left[t] = Forever THEN asked[t] = Forever
          ELSE /\ asked[t] < Forever
               /\ left[t] - lag <= asked[t] /\ asked[t] <= left[t] - lag + CallbackLag
      BY <2>1 DEF LInv, TimesExact
    <3> QED BY <3>2, <3>3, <1>1 DEF Less
  <2> QED BY <2>1, <1>1, <1>2 DEF LInv, TimesExact
<1> QED BY <1>3, <1>4, <1>5, <1>6 DEF LInv

LEMMA TimeSteps ==
  ASSUME LInv,
         \/ \E m \in Modes : EnterRun(m)
         \/ \E event \in BOOLEAN : PollReturns(event)
         \/ \E next \in {"timers", "lastTimers", "user"} : EndIteration(next)
  PROVE  LInv'
<1> USE PhasesAssumption
<1>1. CASE \E m \in Modes : EnterRun(m)
  BY <1>1, LoopTimeCatchesUp DEF EnterRun, LInv, TurnExact, Kinds
<1>2. CASE \E event \in BOOLEAN : PollReturns(event)
  BY <1>2, LoopTimeCatchesUp DEF PollReturns, LInv, TurnExact, Kinds
<1>3. CASE \E next \in {"timers", "lastTimers"} : EndIteration(next)
  BY <1>3, LoopTimeCatchesUp DEF EndIteration, LInv, TurnExact, Kinds
<1>4. CASE EndIteration("user")
  <2>1. /\ phase = "closing" /\ phase' = "user" /\ closed' = {} /\ mode' = NULL
        /\ UNCHANGED <<left, lag, active, heap, repeat, asked, started, queueVars, wait, cb>>
    BY <1>4 DEF EndIteration
  <2>2. TypeOK'
    BY <2>1 DEF LInv, TypeOK, queueVars
  <2>3. QueuedOnce' /\ TurnExact' /\ EachWatcherOnce' /\ BlocksNoLonger'
    BY <2>1, EmptyQueue DEF LInv, QueuedOnce, Queued, TurnExact, EachWatcherOnce,
       BlocksNoLonger, queueVars, Kinds
  <2>4. TimesExact'
    BY <2>1 DEF LInv, TimesExact
  <2> QED BY <2>2, <2>3, <2>4 DEF LInv
<1> QED BY <1>1, <1>2, <1>3, <1>4

-----------------------------------------------------------------------------
LEMMA Starts == Init => LInv
<1> SUFFICES ASSUME Init PROVE LInv
  OBVIOUS
<1> USE PhasesAssumption, EmptyQueue DEF Init
<1>1. TypeOK
  BY DEF TypeOK
<1>2. Queued = {}
  BY InQueue
<1>3. QueuedOnce /\ TurnExact /\ EachWatcherOnce /\ BlocksNoLonger
  BY <1>2 DEF QueuedOnce, TurnExact, EachWatcherOnce, BlocksNoLonger, Kinds
<1>4. TimesExact
  BY DEF TimesExact
<1> QED BY <1>1, <1>3, <1>4 DEF LInv

LEMMA Stutters == LInv /\ UNCHANGED vars => LInv'
BY DEF LInv, TypeOK, QueuedOnce, Queued, TurnExact, EachWatcherOnce, TimesExact, BlocksNoLonger,
       vars, heapVars, queueVars, loopVars

LEMMA Steps ==
  ASSUME LInv, Next
  PROVE  LInv'
<1>1. CASE UserStep
  BY <1>1, TimerStep, WatcherStep, OtherPhases DEF UserStep
<1>2. CASE Tick
  BY <1>2, TimePasses
<1>3. CASE LoopStep
  BY <1>3, TimerStep, MovingPhases, WatcherRuns, PollStarts, OtherPhases, TimeSteps DEF LoopStep
<1>4. CASE EndTimers(TRUE) \/ PollReturns(TRUE) \/ \E m \in Modes : EnterRun(m)
  BY <1>4, OtherPhases, TimeSteps
<1> QED BY <1>1, <1>2, <1>3, <1>4 DEF Next

\* The inductive invariant: the queues hold what is active, once, and what is left
\* of a timer is what it was asked to wait, but for the lag of loop->time.
THEOREM PhasesInvariant == Spec => []LInv
<1>1. LInv /\ [Next]_vars => LInv'
  BY Steps, Stutters
<1> QED BY Starts, <1>1, PTL DEF Spec

\* The variables keep their types: no time passes UINT64_MAX, and the local queue
\* only ever holds watchers.
THEOREM PhasesTyped == Spec => []TypeOK
<1>1. LInv => TypeOK
  BY DEF LInv
<1> QED BY <1>1, PhasesInvariant, PTL

\* Whatever callbacks start, stop and close while uv__run_idle and its siblings
\* walk their local queue, an active handle is in exactly one queue.
THEOREM HandlesQueuedOnce == Spec => []QueuedOnce
<1>1. LInv => QueuedOnce
  BY DEF LInv
<1> QED BY <1>1, PhasesInvariant, PTL

\* uv__run_idle and its siblings call every watcher active before the phase once.
THEOREM WatchersRunOnce == Spec => []EachWatcherOnce
<1>1. LInv => EachWatcherOnce
  BY DEF LInv
<1> QED BY <1>1, PhasesInvariant, PTL

\* uv_backend_timeout never lets epoll_wait sleep past a timer.
THEOREM PollNeverOversleeps == Spec => []BlocksNoLonger
<1>1. LInv => BlocksNoLonger
  BY DEF LInv
<1> QED BY <1>1, PhasesInvariant, PTL

\* Only uv__run_timers calls a timer.
LEMMA WhoCallsTimers ==
  ASSUME LInv, [Next]_vars, NEW t \in Timers, cb = NULL, cb' = t
  PROVE  RunTimer(t)
<1>1. /\ t # NULL /\ t # "event" /\ t \notin Watchers
  BY PhasesAssumption
<1>2. ~UserStep
  BY <1>1 DEF UserStep, StartTimer, StopTimer, CloseTimer, StartWatcher, StopWatcher, CloseWatcher,
              StopLoop
<1>3. ~RunWatcher
  <2> SUFFICES ASSUME RunWatcher PROVE FALSE
    OBVIOUS
  <2>1. turn \in Seq(Watchers) /\ turn # <<>> /\ cb' = Head(turn)
    BY DEF RunWatcher, LInv, TypeOK
  <2>2. Head(turn) \in Watchers
    BY <2>1
  <2> QED BY <2>1, <2>2, <1>1
<1>4. ASSUME NEW u \in Timers, RunTimer(u) PROVE u = t
  BY <1>4 DEF RunTimer
<1>5. CASE LoopStep
  BY <1>5, <1>1, <1>3, <1>4 DEF LoopStep, EndTimers, EndPending, EndIdle, EndPrepare, EndPoll, EndCheck,
     PollReturns, CallbackReturns, LeaveRun, EndIteration
<1>6. CASE Tick \/ EndTimers(TRUE) \/ PollReturns(TRUE) \/ (\E m \in Modes : EnterRun(m))
           \/ UNCHANGED vars
  BY <1>6, <1>1 DEF Tick, EndTimers, PollReturns, EnterRun, vars
<1> QED BY <1>2, <1>5, <1>6 DEF Next

\* A timer fires early by no more than loop->time was behind, and one that was
\* given the time UINT64_MAX not at all.
THEOREM TimersNotEarly == Spec => NotEarly
<1> DEFINE A == \A t \in Timers : cb = NULL /\ cb' = t => asked[t] <= CallbackLag
<1>1. ASSUME LInv, [Next]_vars PROVE A
  <2> USE PhasesAssumption
  <2> SUFFICES ASSUME NEW t \in Timers, cb = NULL, cb' = t PROVE asked[t] <= CallbackLag
    OBVIOUS
  <2>1. RunTimer(t)
    BY <1>1, WhoCallsTimers
  <2>2. t \in Range(heap) /\ left[t] <= 0 /\ phase # "poll"
    BY <2>1 DEF RunTimer, Due, InTimers
  <2>3. left[t] \in Int /\ asked[t] \in Int /\ lag \in Nat
    BY <1>1 DEF LInv, TypeOK
  <2>4. IF left[t] = Forever THEN asked[t] = Forever
        ELSE /\ asked[t] < Forever
             /\ left[t] - lag <= asked[t] /\ asked[t] <= left[t] - lag + CallbackLag
    BY <2>2, <1>1 DEF LInv, TimesExact
  <2> QED BY <2>2, <2>3, <2>4
<1>2. LInv /\ [Next]_vars => [A]_vars
  BY <1>1
<1> QED BY <1>2, PhasesInvariant, PTL DEF Spec, NotEarly

\* uv__run_timers calls the timers in the order in which they were asked to fire, by
\* the clock and but for the lag, and those due at the same loop->time in the order
\* in which they were started.
THEOREM TimersInOrder == Spec => InOrder
<1> DEFINE A == \A t \in Timers : cb = NULL /\ cb' = t =>
                  \A u \in Range(heap) \ {t} :
                    /\ asked[t] <= asked[u] + CallbackLag
                    /\ (left[t] = left[u] => \E i, j \in DOMAIN started :
                                              started[i] = t /\ started[j] = u /\ i < j)
<1>1. ASSUME LInv, [Next]_vars PROVE A
  <2> USE PhasesAssumption
  <2> SUFFICES ASSUME NEW t \in Timers, cb = NULL, cb' = t, NEW u \in Range(heap) \ {t}
               PROVE  /\ asked[t] <= asked[u] + CallbackLag
                      /\ (left[t] = left[u] => \E i, j \in DOMAIN started :
                                                started[i] = t /\ started[j] = u /\ i < j)
    OBVIOUS
  <2>1. RunTimer(t)
    BY <1>1, WhoCallsTimers
  <2>2. t \in Range(heap) /\ left[t] <= 0 /\ Before(t, u)
    BY <2>1 DEF RunTimer, Due, IsFirst
  <2>3. u \in Timers
    BY <1>1, TimersAndWatchers DEF LInv
  <2>4. /\ left[t] \in Int /\ asked[t] \in Int /\ left[u] \in Int /\ asked[u] \in Int
        /\ lag \in Nat /\ started = heap
    BY <2>3, <1>1 DEF LInv, TypeOK, TimesExact
  <2>5. left[t] <= left[u]
    BY <2>2, <2>4 DEF Before
  <2>6. /\ (left[t] = Forever => asked[t] = Forever)
        /\ (left[t] # Forever => asked[t] < Forever /\ asked[t] <= left[t] - lag + CallbackLag)
        /\ (left[u] = Forever => asked[u] = Forever)
        /\ (left[u] # Forever => left[u] - lag <= asked[u])
    BY <2>2, <1>1 DEF LInv, TimesExact
  <2>7. asked[t] <= asked[u] + CallbackLag
    <3>1. CASE left[u] = Forever
      BY <3>1, <2>4, <2>6
    <3>2. CASE left[u] # Forever
      <4>1. left[t] # Forever
        <5>1. left[u] <= Forever
          BY <2>3, <1>1 DEF LInv, TimesExact
        <5> QED BY <5>1, <3>2, <2>2, <2>4, <2>5
      <4> QED BY <4>1, <3>2, <2>4, <2>5, <2>6
    <3> QED BY <3>1, <3>2
  <2>8. ASSUME left[t] = left[u]
        PROVE  \E i, j \in DOMAIN started : started[i] = t /\ started[j] = u /\ i < j
    <3>1. PICK i, j \in DOMAIN heap : heap[i] = t /\ heap[j] = u /\ i <= j
      BY <2>8, <2>2, <2>4 DEF Before
    <3>2. i \in Int /\ j \in Int /\ i # j
      <4>1. heap \in Seq(Timers)
        BY <1>1 DEF LInv, TypeOK
      <4> QED BY <4>1, <3>1
    <3> QED BY <3>1, <3>2, <2>4
  <2> QED BY <2>7, <2>8
<1>2. LInv /\ [Next]_vars => [A]_vars
  BY <1>1
<1> QED BY <1>2, PhasesInvariant, PTL DEF Spec, InOrder
=============================================================================
