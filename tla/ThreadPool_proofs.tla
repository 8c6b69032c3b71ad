-------------------------- MODULE ThreadPool_proofs --------------------------
(***************************************************************************)
(* For any requests and any number of workers: a request is in one place   *)
(* at a time and its memory lives exactly as long, and the loop counts the *)
(* requests that are still to complete.                                    *)
(***************************************************************************)
EXTENDS ThreadPool, QueueTheorems, FiniteSetTheorems

\* Request.data is the request's own address, once it is stored; so OnAfterWork
\* and the free that follows are for the request that was in the batch.
DataExact == \A r \in Requests : data[r] \in {NULL, r}

\* A worker holds a request from taking it to handing it back.
HoldsExact == \A k \in Workers : pc[k] = "wait" <=> holds[k] = NULL

PInv == TypeOK /\ InOnePlace /\ ReqsCounted /\ DataExact /\ HoldsExact /\ IsFiniteSet(mem)

-----------------------------------------------------------------------------
LEMMA QueueInThree ==
  ASSUME NEW S, NEW a \in Seq(S), NEW b \in Seq(S), NEW c \in Seq(S)
  PROVE  /\ Range(a \o b \o c) = Range(a) \cup Range(b) \cup Range(c)
         /\ IsInjective(a \o b \o c) <=>
              /\ IsInjective(a) /\ IsInjective(b) /\ IsInjective(c)
              /\ Range(a) \cap Range(b) = {} /\ Range(a) \cap Range(c) = {}
              /\ Range(b) \cap Range(c) = {}
<1> DEFINE ab == a \o b
<1>1. /\ ab \in Seq(S) /\ Range(ab) = Range(a) \cup Range(b)
      /\ IsInjective(ab) <=> IsInjective(a) /\ IsInjective(b) /\ Range(a) \cap Range(b) = {}
  BY QueueInTwo
<1> HIDE DEF ab
<1>2. /\ Range(ab \o c) = Range(ab) \cup Range(c)
      /\ IsInjective(ab \o c) <=> IsInjective(ab) /\ IsInjective(c) /\ Range(ab) \cap Range(c) = {}
  BY <1>1, QueueInTwo
<1> QED BY <1>1, <1>2 DEF ab

\* The places of a request, as sets.
Apart(W, L, B, H, A) ==
  /\ W \cap L = {} /\ W \cap B = {} /\ L \cap B = {}
  /\ (W \cup L \cup B) \cap H = {} /\ A \cap (W \cup L \cup B \cup H) = {}

LEMMA Places ==
  ASSUME PInv
  PROVE  /\ wq \in Seq(Requests) /\ loopWq \in Seq(Requests) /\ batch \in Seq(Requests)
         /\ IsInjective(wq) /\ IsInjective(loopWq) /\ IsInjective(batch)
         /\ Range(wq) \subseteq Requests /\ Range(loopWq) \subseteq Requests
         /\ Range(batch) \subseteq Requests /\ Held \subseteq Requests
         /\ \A k \in Workers : holds[k] # NULL => holds[k] \in Held
         /\ Apart(Range(wq), Range(loopWq), Range(batch), Held, {after} \ {NULL})
         /\ ~crashed => mem = Range(wq) \cup Range(loopWq) \cup Range(batch) \cup Held
                              \cup ({after} \ {NULL})
<1>1. wq \in Seq(Requests) /\ loopWq \in Seq(Requests) /\ batch \in Seq(Requests)
  BY DEF PInv, TypeOK
<1>2. /\ Range(wq) \subseteq Requests /\ Range(loopWq) \subseteq Requests
      /\ Range(batch) \subseteq Requests
  BY <1>1, RangeOfSeq
<1>3. Held \subseteq Requests /\ \A k \in Workers : holds[k] # NULL => holds[k] \in Held
  BY DEF PInv, TypeOK, Held
<1>4. /\ Range(Travelling) = Range(wq) \cup Range(loopWq) \cup Range(batch)
      /\ IsInjective(Travelling) <=>
           /\ IsInjective(wq) /\ IsInjective(loopWq) /\ IsInjective(batch)
           /\ Range(wq) \cap Range(loopWq) = {} /\ Range(wq) \cap Range(batch) = {}
           /\ Range(loopWq) \cap Range(batch) = {}
  BY <1>1, QueueInThree DEF Travelling
<1> QED BY <1>1, <1>2, <1>3, <1>4 DEF PInv, InOnePlace, Apart

\* What is to be shown of a step, place by place.
LEMMA PlacesPrime ==
  ASSUME wq' \in Seq(Requests), loopWq' \in Seq(Requests), batch' \in Seq(Requests),
         IsInjective(wq'), IsInjective(loopWq'), IsInjective(batch'),
         \A k, l \in Workers : holds'[k] = holds'[l] /\ holds'[k] # NULL => k = l,
         Apart(Range(wq'), Range(loopWq'), Range(batch'), Held', {after'} \ {NULL}),
         NULL \notin Range(wq') \cup Range(loopWq') \cup Range(batch'),
         ~crashed' => mem' = Range(wq') \cup Range(loopWq') \cup Range(batch') \cup Held'
                             \cup ({after'} \ {NULL})
  PROVE  InOnePlace'
<1>1. /\ Range(Travelling') = Range(wq') \cup Range(loopWq') \cup Range(batch')
      /\ IsInjective(Travelling') <=>
           /\ IsInjective(wq') /\ IsInjective(loopWq') /\ IsInjective(batch')
           /\ Range(wq') \cap Range(loopWq') = {} /\ Range(wq') \cap Range(batch') = {}
           /\ Range(loopWq') \cap Range(batch') = {}
  BY QueueInThree DEF Travelling
<1>2. NULL \notin Held'
  BY DEF Held
<1> QED BY <1>1, <1>2 DEF InOnePlace, Apart

\* A worker takes a request, or lets go of it.
LEMMA WorkerTakes ==
  ASSUME PInv, NEW k \in Workers, NEW r \in Requests, holds[k] = NULL, r \notin Held,
         holds' = [holds EXCEPT ![k] = r]
  PROVE  /\ Held' = Held \cup {r}
         /\ \A i, j \in Workers : holds'[i] = holds'[j] /\ holds'[i] # NULL => i = j
         /\ holds' \in [Workers -> Requests \cup {NULL}]
<1> USE RequestsAssumption
<1>1. /\ holds \in [Workers -> Requests \cup {NULL}]
      /\ \A i, j \in Workers : holds[i] = holds[j] /\ holds[i] # NULL => i = j
  BY DEF PInv, TypeOK, InOnePlace
<1>2. \A i \in Workers : holds'[i] = IF i = k THEN r ELSE holds[i]
  BY <1>1
<1>3. \A i \in Workers : holds[i] # r
  BY DEF Held
<1>4. \A x : x \in Held' <=> x \in Held \/ x = r
  BY <1>2 DEF Held
<1> QED BY <1>1, <1>2, <1>3, <1>4

LEMMA WorkerLetsGo ==
  ASSUME PInv, NEW k \in Workers, holds[k] # NULL, holds' = [holds EXCEPT ![k] = NULL]
  PROVE  /\ Held' = Held \ {holds[k]}
         /\ \A i, j \in Workers : holds'[i] = holds'[j] /\ holds'[i] # NULL => i = j
         /\ holds' \in [Workers -> Requests \cup {NULL}]
<1>1. /\ holds \in [Workers -> Requests \cup {NULL}]
      /\ \A i, j \in Workers : holds[i] = holds[j] /\ holds[i] # NULL => i = j
  BY DEF PInv, TypeOK, InOnePlace
<1>2. \A i \in Workers : holds'[i] = IF i = k THEN NULL ELSE holds[i]
  BY <1>1
<1>3. \A x : x \in Held' <=> x \in Held /\ x # holds[k]
  BY <1>1, <1>2 DEF Held
<1> QED BY <1>1, <1>2, <1>3

\* The loop's count, when a request comes and when one is completed.
LEMMA Counting ==
  ASSUME IsFiniteSet(mem), NEW r
  PROVE  /\ IsFiniteSet(mem \cup {r}) /\ IsFiniteSet(mem \ {r})
         /\ Cardinality(mem) \in Nat
         /\ r \in mem => Cardinality(mem \ {r}) = Cardinality(mem) - 1
         /\ \A x : IsFiniteSet(mem \ {x}) /\ Cardinality(mem \ {x}) \in Nat
         /\ \A x : r \notin mem =>
              Cardinality((mem \ {x}) \cup {r}) = Cardinality(mem \ {x}) + 1
<1>1. /\ IsFiniteSet(mem \cup {r}) /\ IsFiniteSet(mem \ {r}) /\ Cardinality(mem) \in Nat
      /\ r \in mem => Cardinality(mem \ {r}) = Cardinality(mem) - 1
  BY FS_AddElement, FS_RemoveElement, FS_CardinalityType
<1>2. ASSUME NEW x
      PROVE  /\ IsFiniteSet(mem \ {x}) /\ Cardinality(mem \ {x}) \in Nat
             /\ r \notin mem => Cardinality((mem \ {x}) \cup {r}) = Cardinality(mem \ {x}) + 1
  <2>1. IsFiniteSet(mem \ {x})
    BY FS_RemoveElement
  <2> DEFINE rest == mem \ {x}
  <2>2. r \notin mem => r \notin rest
    OBVIOUS
  <2>3. IsFiniteSet(rest)
    BY <2>1
  <2> HIDE DEF rest
  <2>4. /\ Cardinality(rest) \in Nat
        /\ r \notin rest => Cardinality(rest \cup {r}) = Cardinality(rest) + 1
    BY <2>3, FS_AddElement, FS_CardinalityType
  <2> QED BY <2>1, <2>2, <2>4 DEF rest
<1> QED BY <1>1, <1>2

-----------------------------------------------------------------------------
(* The loop thread.                                                        *)

LEMMA Submits ==
  ASSUME PInv, NEW r \in Requests, QueueWork(r)
  PROVE  PInv'
<1> USE RequestsAssumption
<1>1. /\ ~crashed /\ r \notin mem /\ mem' = mem \cup {r} /\ wq' = Append(wq, r)
      /\ data' = [data EXCEPT ![r] = NULL] /\ activeReqs' = activeReqs + 1 /\ submitting' = r
      /\ UNCHANGED <<holds, pc, loopWq, wake, batch, after, crashed>>
  BY DEF QueueWork
<1>2. /\ wq \in Seq(Requests) /\ r \notin Range(wq)
      /\ r \notin Range(loopWq) \cup Range(batch) \cup Held /\ r # after
  BY <1>1, Places
<1>3. /\ wq' \in Seq(Requests) /\ Range(wq') = Range(wq) \cup {r} /\ IsInjective(wq')
  BY <1>1, <1>2, PutAtEnd, Places
<1>4. Held' = Held
  BY <1>1 DEF Held
<1>5. /\ wq' \in Seq(Requests) /\ loopWq' \in Seq(Requests) /\ batch' \in Seq(Requests)
      /\ IsInjective(wq') /\ IsInjective(loopWq') /\ IsInjective(batch')
      /\ \A k, l \in Workers : holds'[k] = holds'[l] /\ holds'[k] # NULL => k = l
      /\ Apart(Range(wq'), Range(loopWq'), Range(batch'), Held', {after'} \ {NULL})
      /\ NULL \notin Range(wq') \cup Range(loopWq') \cup Range(batch')
      /\ ~crashed' => mem' = Range(wq') \cup Range(loopWq') \cup Range(batch') \cup Held'
                             \cup ({after'} \ {NULL})
  BY <1>1, <1>2, <1>3, <1>4, Places DEF PInv, InOnePlace, Apart
<1>6. InOnePlace'
  BY <1>5, PlacesPrime
<1>7. IsFiniteSet(mem') /\ ReqsCounted'
  <2>1. mem' \ {after'} = (mem \ {after}) \cup {r}
    BY <1>1, <1>2
  <2>2. activeReqs = Cardinality(mem \ {after})
    BY <1>1 DEF PInv, ReqsCounted
  <2> QED BY <2>1, <2>2, <1>1, Counting DEF PInv, ReqsCounted
<1>8. TypeOK' /\ DataExact' /\ HoldsExact'
  BY <1>1, <1>3 DEF PInv, TypeOK, DataExact, HoldsExact
<1> QED BY <1>6, <1>7, <1>8 DEF PInv

LEMMA StoresItself ==
  ASSUME PInv, MoveOwnerSelf
  PROVE  PInv'
<1>1. /\ submitting # NULL /\ submitting \in Requests
      /\ data' = [data EXCEPT ![submitting] = submitting] /\ submitting' = NULL
      /\ UNCHANGED <<mem, activeReqs, poolVars, loopWq, wake, batch, after, crashed>>
  BY DEF MoveOwnerSelf, PInv, TypeOK
<1>2. TypeOK' /\ DataExact' /\ HoldsExact'
  BY <1>1 DEF PInv, TypeOK, DataExact, HoldsExact, poolVars
<1>3. InOnePlace' /\ ReqsCounted' /\ IsFiniteSet(mem')
  BY <1>1 DEF PInv, InOnePlace, Travelling, Held, ReqsCounted, poolVars
<1> QED BY <1>2, <1>3 DEF PInv

LEMMA Collects ==
  ASSUME PInv, WorkDone
  PROVE  PInv'
<1>1. /\ ~crashed /\ batch = <<>> /\ batch' = loopWq /\ loopWq' = <<>> /\ wake' = FALSE
      /\ UNCHANGED <<mem, data, activeReqs, submitting, poolVars, after, crashed>>
  BY DEF WorkDone, InUserCode
<1>2. Range(batch) = {} /\ Range(loopWq') = {} /\ IsInjective(loopWq') /\ Held' = Held
  BY <1>1, EmptyQueue DEF Held, poolVars
<1>3. NULL \notin Requests
  BY RequestsAssumption
<1>4. /\ wq' \in Seq(Requests) /\ loopWq' \in Seq(Requests) /\ batch' \in Seq(Requests)
      /\ IsInjective(wq') /\ IsInjective(loopWq') /\ IsInjective(batch')
      /\ \A k, l \in Workers : holds'[k] = holds'[l] /\ holds'[k] # NULL => k = l
      /\ Apart(Range(wq'), Range(loopWq'), Range(batch'), Held', {after'} \ {NULL})
      /\ NULL \notin Range(wq') \cup Range(loopWq') \cup Range(batch')
      /\ ~crashed' => mem' = Range(wq') \cup Range(loopWq') \cup Range(batch') \cup Held'
                             \cup ({after'} \ {NULL})
  BY <1>1, <1>2, <1>3, Places DEF PInv, InOnePlace, Apart, poolVars
<1>5. InOnePlace'
  BY <1>4, PlacesPrime
<1>6. TypeOK' /\ DataExact' /\ HoldsExact' /\ ReqsCounted' /\ IsFiniteSet(mem')
  BY <1>1, <1>4 DEF PInv, TypeOK, DataExact, HoldsExact, ReqsCounted, poolVars
<1> QED BY <1>5, <1>6 DEF PInv

LEMMA Completes ==
  ASSUME PInv, AfterWork
  PROVE  PInv'
<1> DEFINE r == Head(batch)
<1>1. /\ ~crashed /\ batch # <<>> /\ after = NULL
      /\ activeReqs' = activeReqs - 1 /\ batch' = Tail(batch)
      /\ after' = data[r] /\ crashed' = (data[r] = NULL)
      /\ UNCHANGED <<mem, data, submitting, poolVars, loopWq, wake>>
  BY DEF AfterWork
<1>2. /\ r \in Requests /\ r \in Range(batch)
      /\ batch' \in Seq(Requests) /\ IsInjective(batch') /\ Range(batch') = Range(batch) \ {r}
  BY <1>1, TakeHandle, Places
<1> HIDE DEF r
<1>3. NULL \notin Requests /\ NULL \notin mem
  BY RequestsAssumption DEF PInv, TypeOK
<1>4. after' \in {NULL, r} /\ (~crashed' => after' = r)
  BY <1>1, <1>2 DEF PInv, DataExact
<1>5. Held' = Held
  BY <1>1 DEF Held, poolVars
<1>6. /\ wq' \in Seq(Requests) /\ loopWq' \in Seq(Requests) /\ batch' \in Seq(Requests)
      /\ IsInjective(wq') /\ IsInjective(loopWq') /\ IsInjective(batch')
      /\ \A k, l \in Workers : holds'[k] = holds'[l] /\ holds'[k] # NULL => k = l
      /\ Apart(Range(wq'), Range(loopWq'), Range(batch'), Held', {after'} \ {NULL})
      /\ NULL \notin Range(wq') \cup Range(loopWq') \cup Range(batch')
      /\ ~crashed' => mem' = Range(wq') \cup Range(loopWq') \cup Range(batch') \cup Held'
                             \cup ({after'} \ {NULL})
  BY <1>1, <1>2, <1>3, <1>4, <1>5, Places DEF PInv, InOnePlace, Apart, poolVars
<1>7. InOnePlace'
  BY <1>6, PlacesPrime
<1>8. r \in mem
  BY <1>1, <1>2, Places
<1>9. mem \ {after} = mem
  BY <1>1, <1>3
<1>10. activeReqs = Cardinality(mem) /\ Cardinality(mem \ {r}) \in Nat
       /\ Cardinality(mem \ {r}) = Cardinality(mem) - 1 /\ Cardinality(mem) \in Nat
  BY <1>1, <1>8, <1>9, Counting DEF PInv, ReqsCounted
<1>11. activeReqs' \in Nat /\ ReqsCounted'
  BY <1>1, <1>4, <1>10 DEF ReqsCounted
<1>12. TypeOK' /\ DataExact' /\ HoldsExact' /\ IsFiniteSet(mem')
  BY <1>1, <1>2, <1>4, <1>11 DEF PInv, TypeOK, DataExact, HoldsExact, poolVars
<1> QED BY <1>7, <1>11, <1>12 DEF PInv

LEMMA Frees ==
  ASSUME PInv, AfterWorkReturns
  PROVE  PInv'
<1>1. /\ ~crashed /\ after # NULL /\ mem' = mem \ {after} /\ after' = NULL
      /\ UNCHANGED <<data, activeReqs, submitting, poolVars, loopWq, wake, batch, crashed>>
  BY DEF AfterWorkReturns
<1>2. Held' = Held /\ NULL \notin Held
  BY <1>1 DEF Held, poolVars
<1>3. NULL \notin Requests /\ mem \subseteq Requests
  BY RequestsAssumption DEF PInv, TypeOK
<1>4. /\ wq' \in Seq(Requests) /\ loopWq' \in Seq(Requests) /\ batch' \in Seq(Requests)
      /\ IsInjective(wq') /\ IsInjective(loopWq') /\ IsInjective(batch')
      /\ \A k, l \in Workers : holds'[k] = holds'[l] /\ holds'[k] # NULL => k = l
      /\ Apart(Range(wq'), Range(loopWq'), Range(batch'), Held', {after'} \ {NULL})
      /\ NULL \notin Range(wq') \cup Range(loopWq') \cup Range(batch')
      /\ ~crashed' => mem' = Range(wq') \cup Range(loopWq') \cup Range(batch') \cup Held'
                             \cup ({after'} \ {NULL})
  BY <1>1, <1>2, <1>3, Places DEF PInv, InOnePlace, Apart, poolVars
<1>5. InOnePlace'
  BY <1>4, PlacesPrime
<1>6. mem' \ {after'} = mem \ {after}
  BY <1>1, <1>3
<1>7. IsFiniteSet(mem') /\ ReqsCounted'
  BY <1>1, <1>6, Counting DEF PInv, ReqsCounted
<1>8. TypeOK' /\ DataExact' /\ HoldsExact'
  BY <1>1, <1>3 DEF PInv, TypeOK, DataExact, HoldsExact, poolVars
<1> QED BY <1>5, <1>7, <1>8 DEF PInv

-----------------------------------------------------------------------------
(* The workers.                                                            *)

LEMMA Takes ==
  ASSUME PInv, NEW k \in Workers, Take(k)
  PROVE  PInv'
<1> DEFINE r == Head(wq)
<1>1. /\ pc[k] = "wait" /\ wq # <<>> /\ wq' = Tail(wq)
      /\ holds' = [holds EXCEPT ![k] = r] /\ pc' = [pc EXCEPT ![k] = "taken"]
      /\ UNCHANGED <<mem, data, activeReqs, loopVars, loopWq, wake, crashed>>
  BY DEF Take
<1>2. /\ r \in Requests /\ r \in Range(wq)
      /\ wq' \in Seq(Requests) /\ IsInjective(wq') /\ Range(wq') = Range(wq) \ {r}
  BY <1>1, TakeHandle, Places
<1> HIDE DEF r
<1>3. holds[k] = NULL /\ r \notin Held
  BY <1>1, <1>2, Places DEF PInv, HoldsExact, Apart
<1>4. /\ Held' = Held \cup {r} /\ holds' \in [Workers -> Requests \cup {NULL}]
      /\ \A i, j \in Workers : holds'[i] = holds'[j] /\ holds'[i] # NULL => i = j
  BY <1>1, <1>2, <1>3, WorkerTakes
<1>5. NULL \notin Requests
  BY RequestsAssumption
<1>6. /\ wq' \in Seq(Requests) /\ loopWq' \in Seq(Requests) /\ batch' \in Seq(Requests)
      /\ IsInjective(wq') /\ IsInjective(loopWq') /\ IsInjective(batch')
      /\ Apart(Range(wq'), Range(loopWq'), Range(batch'), Held', {after'} \ {NULL})
      /\ NULL \notin Range(wq') \cup Range(loopWq') \cup Range(batch')
      /\ ~crashed' => mem' = Range(wq') \cup Range(loopWq') \cup Range(batch') \cup Held'
                             \cup ({after'} \ {NULL})
  BY <1>1, <1>2, <1>4, <1>5, Places DEF Apart, loopVars
<1>7. InOnePlace'
  BY <1>4, <1>6, PlacesPrime
<1>8. TypeOK' /\ DataExact' /\ ReqsCounted' /\ IsFiniteSet(mem')
  BY <1>1, <1>2, <1>4 DEF PInv, TypeOK, DataExact, ReqsCounted, loopVars
<1>9. HoldsExact'
  BY <1>1, <1>2, <1>5 DEF PInv, TypeOK, HoldsExact
<1> QED BY <1>7, <1>8, <1>9 DEF PInv

LEMMA Works ==
  ASSUME PInv, NEW k \in Workers, WorkCallback(k)
  PROVE  PInv'
<1>1. /\ ~crashed /\ pc[k] = "taken" /\ pc' = [pc EXCEPT ![k] = "work"]
      /\ crashed' \in BOOLEAN
      /\ UNCHANGED <<mem, data, activeReqs, loopVars, wq, holds, loopWq, wake>>
  BY DEF WorkCallback
<1>2. TypeOK' /\ DataExact' /\ HoldsExact'
  BY <1>1 DEF PInv, TypeOK, DataExact, HoldsExact, loopVars
<1>3. InOnePlace' /\ ReqsCounted' /\ IsFiniteSet(mem')
  BY <1>1 DEF PInv, InOnePlace, Travelling, Held, ReqsCounted, loopVars
<1> QED BY <1>2, <1>3 DEF PInv

LEMMA HandsBack ==
  ASSUME PInv, NEW k \in Workers, WorkReturns(k)
  PROVE  PInv'
<1> DEFINE r == holds[k]
<1>1. /\ pc[k] = "work" /\ loopWq' = Append(loopWq, r) /\ wake' = TRUE
      /\ holds' = [holds EXCEPT ![k] = NULL] /\ pc' = [pc EXCEPT ![k] = "wait"]
      /\ UNCHANGED <<mem, data, activeReqs, loopVars, wq, crashed>>
  BY DEF WorkReturns
<1>2. r # NULL /\ r \in Requests /\ r \in Held /\ r \notin Range(loopWq)
  <2>1. r # NULL
    BY <1>1 DEF PInv, HoldsExact
  <2> QED BY <2>1, Places DEF Apart
<1>3. /\ loopWq' \in Seq(Requests) /\ IsInjective(loopWq')
      /\ Range(loopWq') = Range(loopWq) \cup {r}
  BY <1>1, <1>2, PutAtEnd, Places
<1>4. /\ Held' = Held \ {r} /\ holds' \in [Workers -> Requests \cup {NULL}]
      /\ \A i, j \in Workers : holds'[i] = holds'[j] /\ holds'[i] # NULL => i = j
  BY <1>1, <1>2, WorkerLetsGo
<1>5. holds'[k] = NULL /\ \A j \in Workers : j # k => holds'[j] = holds[j]
  BY <1>1 DEF PInv, TypeOK
<1> HIDE DEF r
<1>6. NULL \notin Requests
  BY RequestsAssumption
<1>7. /\ wq' \in Seq(Requests) /\ loopWq' \in Seq(Requests) /\ batch' \in Seq(Requests)
      /\ IsInjective(wq') /\ IsInjective(loopWq') /\ IsInjective(batch')
      /\ Apart(Range(wq'), Range(loopWq'), Range(batch'), Held', {after'} \ {NULL})
      /\ NULL \notin Range(wq') \cup Range(loopWq') \cup Range(batch')
      /\ ~crashed' => mem' = Range(wq') \cup Range(loopWq') \cup Range(batch') \cup Held'
                             \cup ({after'} \ {NULL})
  BY <1>1, <1>2, <1>3, <1>4, <1>6, Places DEF Apart, loopVars
<1>8. InOnePlace'
  BY <1>4, <1>7, PlacesPrime
<1>9. TypeOK' /\ DataExact' /\ ReqsCounted' /\ IsFiniteSet(mem')
  BY <1>1, <1>3, <1>4 DEF PInv, TypeOK, DataExact, ReqsCounted, loopVars
<1>10. HoldsExact'
  BY <1>1, <1>5 DEF PInv, TypeOK, HoldsExact
<1> QED BY <1>8, <1>9, <1>10 DEF PInv

-----------------------------------------------------------------------------
LEMMA Starts == Init => PInv
<1> SUFFICES ASSUME Init PROVE PInv
  OBVIOUS
<1> USE DEF Init
<1>1. TypeOK /\ DataExact /\ HoldsExact
  <2>1. wake \in BOOLEAN /\ crashed \in BOOLEAN
    OBVIOUS
  <2>2. /\ mem = {} /\ activeReqs = 0 /\ submitting = NULL /\ after = NULL
        /\ wq = <<>> /\ loopWq = <<>> /\ batch = <<>>
    OBVIOUS
  <2>3. /\ data \in [Requests -> {NULL}] /\ holds \in [Workers -> {NULL}]
        /\ pc \in [Workers -> {"wait"}]
    OBVIOUS
  <2> QED BY ONLY <2>1, <2>2, <2>3 DEF TypeOK, DataExact, HoldsExact
<1>2. Range(Travelling) = {} /\ IsInjective(Travelling) /\ Held = {}
  BY EmptyQueue DEF Travelling, Held
<1>3. InOnePlace
  BY <1>2 DEF InOnePlace
<1>4. ReqsCounted /\ IsFiniteSet(mem)
  <2>1. mem \ {after} = {}
    OBVIOUS
  <2> QED BY <2>1, FS_EmptySet DEF ReqsCounted
<1> QED BY <1>1, <1>3, <1>4 DEF PInv

LEMMA Steps ==
  ASSUME PInv, [Next]_vars
  PROVE  PInv'
<1>1. CASE \E r \in Requests : QueueWork(r)
  BY <1>1, Submits
<1>2. CASE LoopThread
  BY <1>2, StoresItself, Collects, Completes, Frees DEF LoopThread
<1>3. CASE \E k \in Workers : Worker(k)
  BY <1>3, Takes, Works, HandsBack DEF Worker
<1>4. CASE UNCHANGED vars
  BY <1>4 DEF PInv, TypeOK, InOnePlace, Travelling, Held, ReqsCounted, DataExact, HoldsExact,
     vars, loopVars, poolVars
<1> QED BY <1>1, <1>2, <1>3, <1>4 DEF Next

\* The inductive invariant: besides the two properties, a worker's program counter
\* and what it holds agree, and Request.data is never another request.
THEOREM PoolInvariant == Spec => []PInv
<1>1. PInv /\ [Next]_vars => PInv'
  BY Steps
<1> QED BY Starts, <1>1, PTL DEF Spec

\* The variables keep their types; the count of requests never drops below zero.
THEOREM PoolTyped == Spec => []TypeOK
<1>1. PInv => TypeOK
  BY DEF PInv
<1> QED BY <1>1, PoolInvariant, PTL

\* From uv_queue_work to OnAfterWork a request is in one place, and it is freed
\* when it has left the last of them.
THEOREM RequestsInOnePlace == Spec => []InOnePlace
<1>1. PInv => InOnePlace
  BY DEF PInv
<1> QED BY <1>1, PoolInvariant, PTL

\* loop->active_reqs is the number of requests that are still to complete.
THEOREM RequestsCounted == Spec => []ReqsCounted
<1>1. PInv => ReqsCounted
  BY DEF PInv
<1> QED BY <1>1, PoolInvariant, PTL
=============================================================================
