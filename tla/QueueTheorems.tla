---------------------------- MODULE QueueTheorems ----------------------------
(***************************************************************************)
(* What putting a handle or a request into a queue, and taking it out      *)
(* again, does to the set of those that are queued: libuv's QUEUE_INSERT,  *)
(* QUEUE_REMOVE and QUEUE_HEAD, as the proofs about its queues use them.   *)
(***************************************************************************)
EXTENDS Integers, SequencesExt, SequenceTheorems, TLAPS

\* Two queues in a row have nothing twice iff neither has and they share nothing.
LEMMA ConcatInjective ==
  ASSUME NEW S, NEW s \in Seq(S), NEW t \in Seq(S)
  PROVE  IsInjective(s \o t) <=>
           IsInjective(s) /\ IsInjective(t) /\ Range(s) \cap Range(t) = {}
<1> DEFINE u == s \o t
<1>1. /\ u \in Seq(S) /\ Len(u) = Len(s) + Len(t)
      /\ Len(s) \in Nat /\ Len(t) \in Nat
      /\ DOMAIN u = 1..Len(u) /\ DOMAIN s = 1..Len(s) /\ DOMAIN t = 1..Len(t)
  OBVIOUS
<1>2. /\ \A i \in DOMAIN s : i \in DOMAIN u /\ u[i] = s[i]
      /\ \A i \in DOMAIN t : i + Len(s) \in DOMAIN u /\ u[i + Len(s)] = t[i]
  BY <1>1
<1>3. \A i \in DOMAIN u : \/ i \in DOMAIN s
                          \/ i - Len(s) \in DOMAIN t /\ u[i] = t[i - Len(s)] /\ i \in Int
  BY <1>1
<1>4. ASSUME IsInjective(u)
      PROVE  IsInjective(s) /\ IsInjective(t) /\ Range(s) \cap Range(t) = {}
  <2>1. IsInjective(s)
    BY <1>2, <1>4 DEF IsInjective
  <2>2. IsInjective(t)
    <3> SUFFICES ASSUME NEW i \in DOMAIN t, NEW j \in DOMAIN t, t[i] = t[j] PROVE i = j
      BY DEF IsInjective
    <3>1. i + Len(s) = j + Len(s)
      BY <1>2, <1>4 DEF IsInjective
    <3> QED BY <3>1, <1>1
  <2>3. ASSUME NEW i \in DOMAIN s, NEW j \in DOMAIN t PROVE s[i] # t[j]
    <3>1. i # j + Len(s)
      BY <1>1
    <3> QED BY <3>1, <1>2, <1>4 DEF IsInjective
  <2> QED BY <2>1, <2>2, <2>3 DEF Range
<1>5. ASSUME IsInjective(s), IsInjective(t), Range(s) \cap Range(t) = {}
      PROVE  IsInjective(u)
  <2> SUFFICES ASSUME NEW i \in DOMAIN u, NEW j \in DOMAIN u, u[i] = u[j] PROVE i = j
    BY DEF IsInjective
  <2>1. ASSUME NEW k \in DOMAIN s, NEW l \in DOMAIN t PROVE s[k] # t[l]
    BY <1>5 DEF Range
  <2>2. CASE i \in DOMAIN s /\ j \in DOMAIN s
    BY <2>2, <1>2, <1>5 DEF IsInjective
  <2>3. CASE i \notin DOMAIN s /\ j \notin DOMAIN s
    <3>1. i - Len(s) = j - Len(s)
      BY <2>3, <1>3, <1>5 DEF IsInjective
    <3> QED BY <3>1, <2>3, <1>1, <1>3
  <2>4. CASE i \in DOMAIN s /\ j \notin DOMAIN s
    BY <2>4, <2>1, <1>2, <1>3
  <2>5. CASE i \notin DOMAIN s /\ j \in DOMAIN s
    BY <2>5, <2>1, <1>2, <1>3
  <2> QED BY <2>2, <2>3, <2>4, <2>5
<1> QED BY <1>4, <1>5

LEMMA EmptyQueue == Range(<<>>) = {} /\ IsInjective(<<>>)
BY DEF Range, IsInjective

LEMMA QueueOfOne ==
  ASSUME NEW x PROVE Range(<<x>>) = {x} /\ IsInjective(<<x>>)
<1>1. DOMAIN <<x>> = {1} /\ <<x>>[1] = x
  OBVIOUS
<1> QED BY <1>1 DEF Range, IsInjective

\* A queue and one that follows it, by what they hold.
LEMMA QueueInTwo ==
  ASSUME NEW S, NEW s \in Seq(S), NEW t \in Seq(S)
  PROVE  /\ s \o t \in Seq(S)
         /\ Range(s \o t) = Range(s) \cup Range(t)
         /\ IsInjective(s \o t) <=>
              IsInjective(s) /\ IsInjective(t) /\ Range(s) \cap Range(t) = {}
BY ConcatProperties, RangeConcatenation, ConcatInjective

\* Pushed in front (QUEUE_INSERT_HEAD, closing_handles).
LEMMA PushHandle ==
  ASSUME NEW S, NEW s \in Seq(S), NEW x \in S, x \notin Range(s), IsInjective(s)
  PROVE  /\ <<x>> \o s \in Seq(S)
         /\ Range(<<x>> \o s) = Range(s) \cup {x}
         /\ IsInjective(<<x>> \o s)
<1> DEFINE one == <<x>>
<1>1. one \in Seq(S) /\ Range(one) = {x} /\ IsInjective(one)
  BY QueueOfOne
<1> HIDE DEF one
<1>2. /\ one \o s \in Seq(S)
      /\ Range(one \o s) = Range(s) \cup {x}
      /\ IsInjective(one \o s)
  BY <1>1, QueueInTwo
<1> QED BY <1>2 DEF one

\* Appended (QUEUE_INSERT_TAIL).
LEMMA PutAtEnd ==
  ASSUME NEW S, NEW s \in Seq(S), NEW x \in S
  PROVE  /\ Append(s, x) \in Seq(S)
         /\ Range(Append(s, x)) = Range(s) \cup {x}
         /\ IsInjective(s) /\ x \notin Range(s) => IsInjective(Append(s, x))
<1> DEFINE one == <<x>>
<1>1. one \in Seq(S) /\ Range(one) = {x} /\ IsInjective(one)
  BY QueueOfOne
<1>2. Append(s, x) = s \o one
  BY AppendIsConcat
<1> HIDE DEF one
<1> QED BY <1>1, <1>2, QueueInTwo

\* The first is taken (QUEUE_HEAD, QUEUE_REMOVE): exactly that one leaves.
LEMMA TakeHandle ==
  ASSUME NEW S, NEW s \in Seq(S), s # <<>>
  PROVE  /\ Head(s) \in S /\ Tail(s) \in Seq(S)
         /\ Head(s) \in Range(s) /\ Range(s) = {Head(s)} \cup Range(Tail(s))
         /\ IsInjective(s) => /\ Range(Tail(s)) = Range(s) \ {Head(s)}
                              /\ IsInjective(Tail(s))
<1> DEFINE one == <<Head(s)>>
           rest == Tail(s)
<1>1. /\ Head(s) \in S /\ rest \in Seq(S) /\ one \in Seq(S)
      /\ Len(s) = Len(rest) + 1 /\ Len(rest) \in Nat
  OBVIOUS
<1>2. s = one \o rest
  <2>1. one \o rest \in Seq(S) /\ Len(one \o rest) = Len(s)
    BY <1>1
  <2>2. \A i \in 1..Len(s) : s[i] = (one \o rest)[i]
    BY <1>1
  <2> QED BY <2>1, <2>2, SeqEqual
<1>3. Range(one) = {Head(s)} /\ IsInjective(one)
  BY QueueOfOne
<1> HIDE DEF one, rest
<1>4. /\ Range(s) = {Head(s)} \cup Range(rest)
      /\ IsInjective(s) => IsInjective(rest) /\ {Head(s)} \cap Range(rest) = {}
  BY <1>1, <1>2, <1>3, QueueInTwo
<1> QED BY <1>1, <1>4 DEF rest

\* Two queues in a row, of which the second hands its first n over to the first.
LEMMA HandOver ==
  ASSUME NEW S, NEW s \in Seq(S), NEW t \in Seq(S), NEW n \in 0..Len(t)
  PROVE  /\ s \o SubSeq(t, 1, n) \in Seq(S) /\ SubSeq(t, n + 1, Len(t)) \in Seq(S)
         /\ (s \o SubSeq(t, 1, n)) \o SubSeq(t, n + 1, Len(t)) = s \o t
<1> DEFINE a == SubSeq(t, 1, n)
           b == SubSeq(t, n + 1, Len(t))
<1>1. a \in Seq(S) /\ b \in Seq(S)
  OBVIOUS
<1>2. a \o b = t
  <2>1. 1 \in 1..(Len(t) + 1) /\ n \in (1 - 1)..Len(t) /\ Len(t) \in n..Len(t)
    OBVIOUS
  <2>2. SubSeq(t, 1, n) \o SubSeq(t, n + 1, Len(t)) = SubSeq(t, 1, Len(t))
    BY <2>1, ConcatAdjacentSubSeq, Zenon
  <2> QED BY <2>2, SubSeqFull
<1> HIDE DEF a, b
<1>3. s \o a \in Seq(S) /\ (s \o a) \o b = s \o t
  <2>1. s \o a \in Seq(S)
    BY <1>1, ConcatProperties
  <2>2. (s \o a) \o b = s \o (a \o b)
    BY <1>1, ConcatAssociative
  <2> QED BY <2>1, <2>2, <1>2
<1> QED BY <1>1, <1>3 DEF a, b

\* Two queues in a row: putting at the end of the second, taking from the first.
LEMMA QueueBehind ==
  ASSUME NEW S, NEW s \in Seq(S), NEW t \in Seq(S), NEW x \in S
  PROVE  s \o Append(t, x) = Append(s \o t, x)
<1> DEFINE one == <<x>>
<1>1. one \in Seq(S) /\ Append(t, x) = t \o one
  BY AppendIsConcat
<1>2. s \o t \in Seq(S)
  BY ConcatProperties
<1>3. Append(s \o t, x) = (s \o t) \o one
  BY <1>2, AppendIsConcat
<1> HIDE DEF one
<1> QED BY <1>1, <1>3, ConcatAssociative

LEMMA TakeInFront ==
  ASSUME NEW S, NEW s \in Seq(S), NEW t \in Seq(S), s # <<>>
  PROVE  s \o t # <<>> /\ Head(s \o t) = Head(s) /\ Tail(s \o t) = Tail(s) \o t
<1> DEFINE u == s \o t
           v == Tail(s) \o t
<1>1. /\ u \in Seq(S) /\ Len(u) = Len(s) + Len(t) /\ Len(s) \in Nat \ {0} /\ Len(t) \in Nat
      /\ \A i \in 1..Len(u) : u[i] = IF i <= Len(s) THEN s[i] ELSE t[i - Len(s)]
  BY ConcatProperties, EmptySeq
<1>2. /\ Tail(s) \in Seq(S) /\ Len(Tail(s)) = Len(s) - 1
      /\ \A i \in 1..(Len(s) - 1) : Tail(s)[i] = s[i + 1]
  BY HeadTailProperties
<1>3. /\ v \in Seq(S) /\ Len(v) = Len(s) - 1 + Len(t)
      /\ \A i \in 1..Len(v) : v[i] = IF i <= Len(s) - 1 THEN s[i + 1] ELSE t[i - (Len(s) - 1)]
  BY <1>1, <1>2, ConcatProperties
<1> HIDE DEF u, v
<1>4. u # <<>>
  BY <1>1
<1>5. /\ Tail(u) \in Seq(S) /\ Len(Tail(u)) = Len(u) - 1
      /\ \A i \in 1..(Len(u) - 1) : Tail(u)[i] = u[i + 1]
  BY <1>1, <1>4, HeadTailProperties
<1>6. ASSUME NEW i \in 1..Len(v) PROVE Tail(u)[i] = v[i]
  <2>1. i \in 1..(Len(u) - 1) /\ i + 1 \in 1..Len(u)
    BY <1>1, <1>3
  <2>2. CASE i <= Len(s) - 1
    <3>1. Tail(u)[i] = s[i + 1]
      BY <2>1, <2>2, <1>1, <1>5
    <3> QED BY <3>1, <2>2, <1>3
  <2>3. CASE ~(i <= Len(s) - 1)
    <3>1. Tail(u)[i] = t[i + 1 - Len(s)]
      BY <2>1, <2>3, <1>1, <1>5
    <3>2. v[i] = t[i - (Len(s) - 1)] /\ i + 1 - Len(s) = i - (Len(s) - 1)
      BY <2>3, <1>1, <1>3
    <3> QED BY <3>1, <3>2
  <2> QED BY <2>2, <2>3
<1>7. Tail(u) = v
  BY <1>1, <1>3, <1>5, <1>6, SeqEqual
<1>8. Head(u) = Head(s)
  BY <1>1
<1> QED BY <1>4, <1>7, <1>8 DEF u, v

\* Taken out of the middle (QUEUE_REMOVE): the others stay in order.
LEMMA TakeOut ==
  ASSUME NEW S, NEW s \in Seq(S), NEW x, IsInjective(s)
  PROVE  /\ RemoveFirst(s, x) \in Seq(S)
         /\ Range(RemoveFirst(s, x)) = Range(s) \ {x}
         /\ IsInjective(RemoveFirst(s, x))
<1>1. CASE ~\E i \in 1..Len(s) : s[i] = x
  <2>1. RemoveFirst(s, x) = s
    BY <1>1 DEF RemoveFirst
  <2>2. x \notin Range(s)
    BY <1>1 DEF Range
  <2> QED BY <2>1, <2>2
<1>2. ASSUME NEW i \in 1..Len(s), s[i] = x
      PROVE  /\ RemoveFirst(s, x) \in Seq(S)
             /\ Range(RemoveFirst(s, x)) = Range(s) \ {x}
             /\ IsInjective(RemoveFirst(s, x))
  <2> DEFINE a == SubSeq(s, 1, i - 1)
             one == <<x>>
             b == SubSeq(s, i + 1, Len(s))
  <2>1. RemoveFirst(s, x) = a \o b
    <3>1. {j \in 1..Len(s) : s[j] = x} = {i}
      BY <1>2 DEF IsInjective
    <3>2. SelectInSeq(s, LAMBDA v : v = x) = i
      BY <3>1 DEF SelectInSeq, Min
    <3> QED BY <1>2, <3>2 DEF RemoveFirst, RemoveAt
  <2>2. /\ a \in Seq(S) /\ Len(a) = i - 1 /\ \A j \in 1..(i - 1) : a[j] = s[j]
        /\ b \in Seq(S) /\ Len(b) = Len(s) - i /\ \A j \in 1..(Len(s) - i) : b[j] = s[j + i]
        /\ one \in Seq(S) /\ Len(one) = 1 /\ one[1] = s[i]
    BY <1>2
  <2>3. Range(one) = {x} /\ IsInjective(one)
    BY QueueOfOne
  <2> HIDE DEF a, b, one
  <2>4. s = (a \o one) \o b
    <3>1. one = SubSeq(s, i, i)
      BY <1>2 DEF one
    <3>2. a \o one = SubSeq(s, 1, i)
      BY <1>2, <3>1, ConcatAdjacentSubSeq DEF a
    <3>3. SubSeq(s, 1, i) \o b = SubSeq(s, 1, Len(s))
      BY <1>2, ConcatAdjacentSubSeq DEF b
    <3> QED BY <3>2, <3>3, SubSeqFull
  <2>5. a \o one \in Seq(S) /\ Range(a \o one) = Range(a) \cup {x}
    BY <2>2, <2>3, QueueInTwo
  <2>6. /\ Range(s) = Range(a) \cup {x} \cup Range(b)
        /\ IsInjective(a \o one) /\ IsInjective(b)
        /\ (Range(a) \cup {x}) \cap Range(b) = {}
    <3> DEFINE m == a \o one
    <3>1. m \in Seq(S) /\ Range(m) = Range(a) \cup {x} /\ s = m \o b
      BY <2>4, <2>5
    <3> HIDE DEF m
    <3>2. Range(s) = Range(m) \cup Range(b) /\ IsInjective(m) /\ IsInjective(b)
          /\ Range(m) \cap Range(b) = {}
      BY <2>2, <3>1, QueueInTwo
    <3> QED BY <3>1, <3>2 DEF m
  <2>7. IsInjective(a) /\ x \notin Range(a)
    BY <2>2, <2>3, <2>6, QueueInTwo
  <2>8. /\ a \o b \in Seq(S) /\ Range(a \o b) = Range(a) \cup Range(b)
        /\ IsInjective(a \o b)
    BY <2>2, <2>6, <2>7, QueueInTwo
  <2> QED BY <2>1, <2>6, <2>7, <2>8
<1> QED BY <1>1, <1>2
=============================================================================
