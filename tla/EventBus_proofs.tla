---------------------------- MODULE EventBus_proofs ----------------------------
(***************************************************************************)
(* Theorems about the event bus, for any number of subscribers, any queue  *)
(* capacities and any warning interval.                                    *)
(***************************************************************************)
EXTENDS EventBus, FiniteSetTheorems, SequenceTheorems, TLAPS

\* A queue is its head and its tail.
LEMMA HeadThenTail ==
    ASSUME NEW q \in Seq(Nat), q # <<>>
    PROVE  <<Head(q)>> \o Tail(q) = q
<1> DEFINE h == <<Head(q)>>
           l == h \o Tail(q)
<1>1. /\ Head(q) \in Nat /\ Head(q) = q[1]
      /\ Tail(q) \in Seq(Nat)
      /\ Len(q) \in Nat /\ Len(Tail(q)) = Len(q) - 1
      /\ \A i \in 1 .. Len(Tail(q)) : Tail(q)[i] = q[i + 1]
  BY HeadTailProperties, LenProperties
<1>2. h \in Seq(Nat) /\ Len(h) = 1 /\ h[1] = q[1]
  BY <1>1
<1> HIDE DEF h
<1> h \in Seq(Nat) /\ Tail(q) \in Seq(Nat)
  BY <1>1, <1>2
<1>3. /\ l \in Seq(Nat)
      /\ Len(l) = Len(h) + Len(Tail(q))
      /\ \A i \in 1 .. Len(h) + Len(Tail(q)) :
            l[i] = IF i <= Len(h) THEN h[i] ELSE Tail(q)[i - Len(h)]
  BY ConcatProperties, Zenon
<1> HIDE DEF l
<1>4. Len(l) = Len(q)
  BY <1>1, <1>2, <1>3
<1>5. ASSUME NEW i \in 1 .. Len(l)
      PROVE  l[i] = q[i]
  <2>1. l[i] = IF i <= 1 THEN h[i] ELSE Tail(q)[i - 1]
    BY <1>1, <1>2, <1>3
  <2>2. CASE i = 1
    BY <2>1, <2>2, <1>2
  <2>3. CASE i # 1
    <3>1. i - 1 \in 1 .. Len(Tail(q)) /\ ~(i <= 1)
      BY <2>3, <1>1, <1>4
    <3>2. Tail(q)[i - 1] = q[(i - 1) + 1]
      BY <3>1, <1>1
    <3>3. (i - 1) + 1 = i
      BY <1>1, <1>4
    <3>4. QED BY <2>1, <3>1, <3>2, <3>3
  <2>4. QED BY <2>2, <2>3
<1>6. l = q
  BY <1>3, <1>4, <1>5, SeqEqual
<1>7. QED BY <1>6 DEF l, h

\* Concatenation is associative, for streams.
LEMMA Regroup ==
    ASSUME NEW a \in Seq(Nat), NEW b \in Seq(Nat), NEW c \in Seq(Nat)
    PROVE  (a \o b) \o c = a \o (b \o c)
BY ConcatAssociative

\* Taking the head of a queue moves it, and leaves the whole stream alone.
LEMMA DrainKeepsStream ==
    ASSUME NEW t \in Seq(Nat), NEW q \in Seq(Nat), q # <<>>
    PROVE  Append(t, Head(q)) \o Tail(q) = t \o q
<1> DEFINE h == <<Head(q)>>
<1>1. Head(q) \in Nat /\ Tail(q) \in Seq(Nat)
  BY HeadTailProperties
<1>2. Append(t, Head(q)) = t \o h
  BY <1>1, AppendIsConcat
<1>3. h \in Seq(Nat)
  BY <1>1
<1>4. h \o Tail(q) = q
  BY HeadThenTail
<1> HIDE DEF h
<1> Tail(q) \in Seq(Nat)
  BY <1>1
<1>5. (t \o h) \o Tail(q) = t \o (h \o Tail(q))
  BY <1>3, Regroup, Zenon
<1>6. QED BY <1>2, <1>4, <1>5, Zenon

\* One accepted event goes to the end of the stream.
LEMMA AppendGrowsStream ==
    ASSUME NEW t \in Seq(Nat), NEW q \in Seq(Nat), NEW e \in Nat
    PROVE  t \o Append(q, e) = Append(t \o q, e)
<1>1. /\ Append(q, e) = q \o <<e>>
      /\ t \o q \in Seq(Nat)
      /\ <<e>> \in Seq(Nat)
  BY AppendIsConcat, ConcatProperties
<1>2. Append(t \o q, e) = (t \o q) \o <<e>>
  BY <1>1, AppendIsConcat
<1>3. QED BY <1>1, <1>2, ConcatAssociative

-----------------------------------------------------------------------------
\* How many queues one publish finds full is a natural number.
LEMMA FullIsCounted ==
    ASSUME TypeOK
    PROVE  Cardinality({s \in subscribed : IsFull(s)}) \in Nat
<1>1. {s \in subscribed : IsFull(s)} \in SUBSET Subscribers
  BY DEF TypeOK
<1>2. QED BY <1>1, BusAssumption, FS_Subset, FS_CardinalityType

\* The warning mark never passes the count and trails it by less than one
\* interval, on the interval's grid.
LEMMA MarkOnGrid ==
    ASSUME TypeOK, WarnedEveryInterval, NEW total \in Nat, total >= dropped
    PROVE  /\ LastWarned(total) \in Nat
           /\ \E n \in 0 .. total : LastWarned(total) = n * WarnInterval
           /\ total - LastWarned(total) \in 0 .. WarnInterval - 1
<1> DEFINE W == WarnInterval
           a == total - lastWarn
           q == a \div W
<1>1. /\ W \in Nat /\ W >= 1 /\ a \in Nat
      /\ dropped \in Nat /\ lastWarn \in Nat
  BY BusAssumption DEF TypeOK, WarnedEveryInterval
<1>2. PICK n \in 0 .. dropped : lastWarn = n * W
  BY DEF WarnedEveryInterval
<1>3. q \in Int /\ W * q <= a /\ a < W * q + W
  BY <1>1, Z3
<1>4. q \in Nat
  <2>1. SUFFICES ASSUME q <= -1 PROVE FALSE
    BY <1>3
  <2>2. W * q <= W * (-1)
    BY <2>1, <1>1, <1>3
  <2>3. QED BY <2>2, <1>1, <1>3
<1>5. W * q \in Nat
  BY <1>4, <1>1
<1>6. lastWarn + W * q = (n + q) * W
  BY <1>2, <1>1, <1>4
<1>7. n + q <= (n + q) * W
  BY <1>1, <1>2, <1>4
<1>8. LastWarned(total) = lastWarn + W * q
  <2>1. LastWarned(total)
          = lastWarn + WarnInterval * ((total - lastWarn) \div WarnInterval)
    BY DEF LastWarned
  <2>2. QED BY <2>1, <1>1, <1>3 DEF W, a, q
<1> HIDE DEF W, a, q
<1>9. a = total - lastWarn
  BY DEF a
<1>10. n + q \in 0 .. total
  BY <1>1, <1>2, <1>3, <1>4, <1>5, <1>6, <1>7, <1>9
<1>11. LastWarned(total) = (n + q) * WarnInterval
  BY <1>6, <1>8 DEF W
<1>12. LastWarned(total) \in Nat
  BY <1>1, <1>5, <1>8
<1>13. total - LastWarned(total) = a - W * q
  BY <1>1, <1>5, <1>8, <1>9
<1>14. a - W * q \in 0 .. W - 1
  BY <1>1, <1>3, <1>5
<1>15. QED
  BY <1>10, <1>11, <1>12, <1>13, <1>14 DEF W

-----------------------------------------------------------------------------
\* The types hold and the drop counter is reported on every interval: the two
\* conjuncts of the counters' inductive invariant.
BusInv == TypeOK /\ WarnedEveryInterval

LEMMA BusInvInit == Init => BusInv
<1> SUFFICES ASSUME Init PROVE BusInv
  OBVIOUS
<1>1. /\ Subscribers = Subscribers
      /\ <<>> \in Seq(Nat) /\ Len(<<>>) = 0
  BY EmptySeq
<1>2. TypeOK
  BY <1>1, BusAssumption DEF Init, TypeOK
<1>3. WarnedEveryInterval
  BY BusAssumption DEF Init, WarnedEveryInterval
<1>4. QED BY <1>2, <1>3 DEF BusInv

LEMMA BusInvStep == BusInv /\ [Next]_busVars => BusInv'
<1> SUFFICES ASSUME TypeOK, WarnedEveryInterval, [Next]_busVars
             PROVE  TypeOK' /\ WarnedEveryInterval'
  BY DEF BusInv
<1>1. CASE Publish
  <2> DEFINE full == {s \in subscribed : IsFull(s)}
  <2>1. /\ Cardinality(full) \in Nat
        /\ dropped' = dropped + Cardinality(full)
        /\ lastWarn' = LastWarned(dropped + Cardinality(full))
    BY <1>1, FullIsCounted DEF Publish, Receivers, Refusals
  <2>2. /\ lastWarn' \in Nat
        /\ \E n \in 0 .. dropped' : lastWarn' = n * WarnInterval
        /\ dropped' - lastWarn' \in 0 .. WarnInterval - 1
    <3>1. /\ dropped' \in Nat /\ dropped' >= dropped
          /\ lastWarn' = LastWarned(dropped')
      <4> HIDE DEF full
      <4>1. QED BY <2>1 DEF TypeOK
    <3>2. QED BY <3>1, MarkOnGrid
  <2>3. published + 1 \in Nat /\ published' \in 0 .. MaxPublished
    BY <1>1, BusAssumption DEF Publish, Receivers, Refusals, TypeOK
  <2>4. ASSUME NEW s \in Subscribers
        PROVE  queue'[s] \in Seq(Nat) /\ Len(queue'[s]) <= Capacity[s]
    <3>1. queue[s] \in Seq(Nat) /\ Len(queue[s]) \in Nat
          /\ Len(queue[s]) <= Capacity[s] /\ Capacity[s] \in Nat
      BY BusAssumption DEF TypeOK
    <3>2. CASE s \in subscribed \ full
      <4>1. Len(queue[s]) < Capacity[s]
        BY <3>1, <3>2 DEF IsFull
      <4>2. queue'[s] = Append(queue[s], published + 1)
        BY <3>2, <1>1 DEF Publish, Receivers, Refusals
      <4>3. QED BY <4>1, <4>2, <3>1, <2>3, AppendProperties
    <3>3. CASE s \notin subscribed \ full
      BY <3>1, <3>3, <1>1 DEF Publish, Receivers, Refusals
    <3>4. QED BY <3>2, <3>3
  <2>5. queue' \in [Subscribers -> Seq(Nat)]
    BY <2>4, <1>1 DEF Publish, Receivers, Refusals
  <2>6. missed' \in [Subscribers -> SUBSET Nat]
    BY <2>3, <1>1 DEF Publish, Receivers, Refusals, TypeOK
  <2>7. dropped' \in Nat
    <3> HIDE DEF full
    <3>1. QED BY <2>1 DEF TypeOK
  <2>8. WarnedEveryInterval'
    BY <2>2, Zenon DEF WarnedEveryInterval
  <2>9. TypeOK'
    BY <2>2, <2>3, <2>4, <2>5, <2>6, <2>7, <1>1 DEF Publish, Receivers, Refusals, TypeOK
  <2>10. QED BY <2>8, <2>9
<1>2. ASSUME NEW s \in Subscribers, Subscribe(s)
      PROVE  TypeOK' /\ WarnedEveryInterval'
  <2>1. <<>> \in Seq(Nat) /\ Len(<<>>) = 0
    BY EmptySeq
  <2>2. TypeOK'
    <3>1. /\ queue' \in [Subscribers -> Seq(Nat)]
          /\ taken' \in [Subscribers -> Seq(Nat)]
          /\ missed' \in [Subscribers -> SUBSET Nat]
          /\ joined' \in [Subscribers -> Nat]
      BY <2>1, <1>2 DEF Subscribe, TypeOK
    <3>2. \A r \in Subscribers : Len(queue'[r]) <= Capacity[r]
      <4>1. ASSUME NEW r \in Subscribers PROVE Len(queue'[r]) <= Capacity[r]
        <5>1. queue'[r] = IF r = s THEN <<>> ELSE queue[r]
          BY <1>2 DEF Subscribe, TypeOK
        <5>2. Capacity[r] \in Nat /\ Len(queue[r]) <= Capacity[r]
          BY BusAssumption DEF TypeOK
        <5>3. QED BY <5>1, <5>2, <2>1
      <4>2. QED BY <4>1
    <3>3. QED BY <3>1, <3>2, <1>2 DEF Subscribe, TypeOK, counters
  <2>3. dropped' = dropped /\ lastWarn' = lastWarn
    BY <1>2 DEF Subscribe, counters
  <2>4. QED BY <2>2, <2>3, Zenon DEF WarnedEveryInterval
<1>3. ASSUME NEW s \in Subscribers, Unsubscribe(s)
      PROVE  TypeOK' /\ WarnedEveryInterval'
  BY <1>3 DEF Unsubscribe, TypeOK, WarnedEveryInterval
<1>4. ASSUME NEW s \in Subscribers, Get(s)
      PROVE  TypeOK' /\ WarnedEveryInterval'
  <2>1. /\ queue[s] \in Seq(Nat) /\ taken[s] \in Seq(Nat) /\ queue[s] # <<>>
        /\ Capacity[s] \in Nat /\ Len(queue[s]) <= Capacity[s]
    BY <1>4, BusAssumption DEF Get, TypeOK
  <2>2. /\ Head(queue[s]) \in Nat
        /\ Tail(queue[s]) \in Seq(Nat)
        /\ Len(Tail(queue[s])) = Len(queue[s]) - 1
    BY <2>1, HeadTailProperties
  <2>3. Append(taken[s], Head(queue[s])) \in Seq(Nat)
    BY <2>1, <2>2, AppendProperties
  <2>4. Len(Tail(queue[s])) <= Capacity[s]
    BY <2>1, <2>2
  <2>5. /\ queue' \in [Subscribers -> Seq(Nat)]
        /\ taken' \in [Subscribers -> Seq(Nat)]
        /\ \A r \in Subscribers : Len(queue'[r]) <= Capacity[r]
    BY <2>2, <2>3, <2>4, <1>4 DEF Get, TypeOK
  <2>6. QED BY <2>5, <1>4 DEF Get, TypeOK, WarnedEveryInterval
<1>5. CASE UNCHANGED busVars
  BY <1>5 DEF busVars, TypeOK, WarnedEveryInterval
<1>6. QED BY <1>1, <1>2, <1>3, <1>4, <1>5 DEF Next

\* The state has its types in every reachable state: no queue ever holds more
\* than its maxsize, whatever publish, subscribe and get do (bus.py:36-67).
THEOREM BusTypeCorrect == Spec => []TypeOK
<1>1. BusInv => TypeOK
  BY DEF BusInv
<1>2. QED BY <1>1, BusInvInit, BusInvStep, PTL DEF Spec

\* No interval of drops goes unreported and every report is on the interval,
\* for any number of queues that overflow at once (bus.py:43-46).
THEOREM DropsAreReported == Spec => []WarnedEveryInterval
<1>1. BusInv => WarnedEveryInterval
  BY DEF BusInv
<1>2. QED BY <1>1, BusInvInit, BusInvStep, PTL DEF Spec

-----------------------------------------------------------------------------
\* The inductive invariant of the streams: each subscriber's stream is in
\* order, and together with what it missed it is everything published since it
\* joined; what it missed was published since it joined.
Missed(s) ==
    /\ joined[s] <= published
    /\ missed[s] \subseteq joined[s] + 1 .. published

StreamInv ==
    /\ OrderedStreams
    /\ NothingVanishes
    /\ \A s \in Subscribers : Missed(s)

\* Appending an event newer than the whole stream keeps a stream in order, and
\* accounts for that event.
LEMMA FreshEventExtends ==
    ASSUME NEW t \in Seq(Nat), NEW e \in Nat,
           \A i, j \in 1 .. Len(t) : i < j => t[i] < t[j],
           \A i \in 1 .. Len(t) : t[i] < e
    PROVE  LET u == Append(t, e)
           IN  /\ \A i, j \in 1 .. Len(u) : i < j => u[i] < u[j]
               /\ \A i \in 1 .. Len(u) : u[i] = e \/ \E j \in 1 .. Len(t) : u[i] = t[j]
               /\ \A j \in 1 .. Len(t) : u[j] = t[j]
               /\ Len(u) = Len(t) + 1
               /\ u[Len(u)] = e
<1> DEFINE u == Append(t, e)
<1>1. /\ Len(u) = Len(t) + 1 /\ Len(t) \in Nat
      /\ \A i \in 1 .. Len(t) : u[i] = t[i]
      /\ u[Len(t) + 1] = e
      /\ \A i \in 1 .. Len(t) : t[i] \in Nat
  BY AppendProperties
<1> HIDE DEF u
<1>2. \A i \in 1 .. Len(u) : i \in 1 .. Len(t) \/ i = Len(t) + 1
  BY <1>1
<1>3. ASSUME NEW i \in 1 .. Len(u), NEW j \in 1 .. Len(u), i < j
      PROVE  u[i] < u[j]
  <2>1. i \in 1 .. Len(t)
    BY <1>1, <1>2, <1>3
  <2>2. CASE j \in 1 .. Len(t)
    BY <2>1, <2>2, <1>1, <1>3
  <2>3. CASE j = Len(t) + 1
    BY <2>1, <2>3, <1>1
  <2>4. QED BY <1>2, <2>2, <2>3
<1>4. QED BY <1>1, <1>2, <1>3 DEF u

LEMMA StreamInvInit == Init => StreamInv
<1> SUFFICES ASSUME Init PROVE StreamInv
  OBVIOUS
<1>1. \A s \in Subscribers : Stream(s) = <<>>
  BY EmptySeq, ConcatEmptySeq DEF Init, Stream
<1>2. Len(<<>>) = 0
  BY EmptySeq
<1>3. OrderedStreams
  BY <1>1, <1>2 DEF OrderedStreams, InOrder
<1>4. NothingVanishes
  BY DEF Init, NothingVanishes
<1>5. \A s \in Subscribers : Missed(s)
  BY DEF Init, Missed
<1>6. QED BY <1>3, <1>4, <1>5 DEF StreamInv

\* A step that leaves a subscriber's stream, misses and start alone, and
\* publishes nothing, keeps everything said about it.
LEMMA Untouched ==
    ASSUME NEW s \in Subscribers,
           Stream(s)' = Stream(s), missed'[s] = missed[s],
           joined'[s] = joined[s], published' = published
    PROVE  /\ InOrder(s) => InOrder(s)'
           /\ Accounted(s) => Accounted(s)'
           /\ Missed(s) => Missed(s)'
BY DEF InOrder, Accounted, Missed

LEMMA StreamInvStep == TypeOK /\ StreamInv /\ [Next]_busVars => StreamInv'
<1> SUFFICES ASSUME TypeOK, StreamInv, [Next]_busVars
             PROVE  StreamInv'
  OBVIOUS
<1> DEFINE Good(s) == InOrder(s) /\ (s \in subscribed => Accounted(s)) /\ Missed(s)
<1>0. ASSUME NEW s \in Subscribers
      PROVE  /\ InOrder(s)
             /\ s \in subscribed => Accounted(s)
             /\ Missed(s)
             /\ queue[s] \in Seq(Nat) /\ taken[s] \in Seq(Nat)
             /\ Stream(s) \in Seq(Nat)
             /\ missed[s] \subseteq Nat /\ joined[s] \in Nat
             /\ published \in Nat
  <2>1. queue[s] \in Seq(Nat) /\ taken[s] \in Seq(Nat)
    BY DEF TypeOK
  <2>2. Stream(s) \in Seq(Nat)
    BY <2>1, ConcatProperties DEF Stream
  <2>3. QED BY <2>1, <2>2, BusAssumption
    DEF TypeOK, StreamInv, OrderedStreams, NothingVanishes
<1>1. CASE Publish
  <2>1. ASSUME NEW s \in Subscribers
        PROVE  Good(s)'
    <3> DEFINE e == published + 1
    <3>1. /\ published' = e /\ taken'[s] = taken[s] /\ joined'[s] = joined[s]
          /\ subscribed' = subscribed /\ e \in Nat
      BY <1>1, <1>0 DEF Publish, Receivers, Refusals
    <3>2. CASE s \in subscribed /\ ~IsFull(s)
      <4>1. queue'[s] = Append(queue[s], e) /\ missed'[s] = missed[s]
        BY <3>2, <1>1 DEF Publish, Receivers, Refusals
      <4>2. Stream(s)' = Append(Stream(s), e)
        BY <4>1, <3>1, <1>0, AppendGrowsStream DEF Stream
      <4>3. \A i \in 1 .. Len(Stream(s)) : Stream(s)[i] < e
        BY <1>0 DEF InOrder
      <4>4. /\ \A i, j \in 1 .. Len(Stream(s)') : i < j => Stream(s)'[i] < Stream(s)'[j]
            /\ \A i \in 1 .. Len(Stream(s)') :
                  Stream(s)'[i] = e \/ \E j \in 1 .. Len(Stream(s)) : Stream(s)'[i] = Stream(s)[j]
            /\ \A j \in 1 .. Len(Stream(s)) : Stream(s)'[j] = Stream(s)[j]
            /\ Len(Stream(s)') = Len(Stream(s)) + 1
            /\ Stream(s)'[Len(Stream(s)')] = e
        BY <4>2, <4>3, <3>1, <1>0, FreshEventExtends DEF InOrder
      <4>5. \A i \in 1 .. Len(Stream(s)') :
               Stream(s)'[i] \in (joined'[s] + 1 .. published') \ missed'[s]
        <5>1. ASSUME NEW i \in 1 .. Len(Stream(s)')
              PROVE  Stream(s)'[i] \in (joined[s] + 1 .. e) \ missed[s]
          <6>1. CASE Stream(s)'[i] = e
            BY <6>1, <3>1, <1>0 DEF Missed
          <6>2. CASE \E j \in 1 .. Len(Stream(s)) : Stream(s)'[i] = Stream(s)[j]
            <7>1. PICK j \in 1 .. Len(Stream(s)) : Stream(s)'[i] = Stream(s)[j]
              BY <6>2
            <7>2. Stream(s)[j] \in (joined[s] + 1 .. published) \ missed[s]
              BY <1>0 DEF InOrder
            <7>3. QED BY <7>1, <7>2, <1>0
          <6>3. QED BY <6>1, <6>2, <4>4
        <5>2. QED BY <5>1, <4>1, <3>1
      <4>6. InOrder(s)'
        BY <4>4, <4>5 DEF InOrder
      <4>7. \A n \in joined'[s] + 1 .. published' :
               n \in joined[s] + 1 .. published \/ n = e
        BY <3>1, <1>0
      <4>8. Len(Stream(s)') \in 1 .. Len(Stream(s)')
            /\ \A j \in 1 .. Len(Stream(s)) : j \in 1 .. Len(Stream(s)')
        BY <4>4, <1>0
      <4>9. Accounted(s)'
        <5>1. ASSUME NEW n \in joined'[s] + 1 .. published'
              PROVE  n \in missed'[s] \/ \E i \in 1 .. Len(Stream(s)') : Stream(s)'[i] = n
          <6>1. CASE n = e
            BY <6>1, <4>4, <4>8
          <6>2. CASE n \in joined[s] + 1 .. published
            <7>1. n \in missed[s] \/ \E i \in 1 .. Len(Stream(s)) : Stream(s)[i] = n
              BY <6>2, <3>2, <1>0 DEF Accounted
            <7>2. QED BY <7>1, <4>1, <4>4, <4>8
          <6>3. QED BY <6>1, <6>2, <4>7
        <5>2. QED BY <5>1 DEF Accounted
      <4>10. Missed(s)'
        BY <4>1, <3>1, <1>0 DEF Missed
      <4>11. QED BY <4>6, <4>9, <4>10
    <3>3. CASE s \in subscribed /\ IsFull(s)
      <4>1. queue'[s] = queue[s] /\ missed'[s] = missed[s] \cup {e}
        BY <3>3, <1>1 DEF Publish, Receivers, Refusals
      <4>2. Stream(s)' = Stream(s)
        BY <4>1, <3>1 DEF Stream
      <4>3. InOrder(s)'
        BY <4>1, <4>2, <3>1, <1>0 DEF InOrder
      <4>4. Accounted(s)'
        <5>1. ASSUME NEW n \in joined'[s] + 1 .. published'
              PROVE  n \in missed'[s] \/ \E i \in 1 .. Len(Stream(s)') : Stream(s)'[i] = n
          <6>1. n = e \/ n \in joined[s] + 1 .. published
            BY <3>1, <1>0
          <6>2. n \in missed[s] \cup {e} \/ \E i \in 1 .. Len(Stream(s)) : Stream(s)[i] = n
            BY <6>1, <3>3, <1>0 DEF Accounted
          <6>3. QED BY <6>2, <4>1, <4>2
        <5>2. QED BY <5>1 DEF Accounted
      <4>5. Missed(s)'
        BY <4>1, <3>1, <1>0 DEF Missed
      <4>6. QED BY <4>3, <4>4, <4>5
    <3>4. CASE s \notin subscribed
      <4>1. queue'[s] = queue[s] /\ missed'[s] = missed[s]
        BY <3>4, <1>1 DEF Publish, Receivers, Refusals
      <4>2. Stream(s)' = Stream(s)
        BY <4>1, <3>1 DEF Stream
      <4>3. InOrder(s)'
        BY <4>1, <4>2, <3>1, <1>0 DEF InOrder
      <4>4. Missed(s)'
        BY <4>1, <3>1, <1>0 DEF Missed
      <4>5. QED BY <4>3, <4>4, <3>1, <3>4
    <3>5. QED BY <3>2, <3>3, <3>4
  <2>2. QED BY <2>1, <1>1 DEF StreamInv, OrderedStreams, NothingVanishes, TypeOK, Publish
<1>2. ASSUME NEW r \in Subscribers, Subscribe(r)
      PROVE  StreamInv'
  <2>1. ASSUME NEW s \in Subscribers
        PROVE  Good(s)'
    <3>1. CASE s = r
      <4>1. /\ queue'[s] = <<>> /\ taken'[s] = <<>> /\ joined'[s] = published
            /\ published' = published
        BY <3>1, <1>2 DEF Subscribe, TypeOK, counters
      <4>2. Stream(s)' = <<>> /\ Len(<<>>) = 0
        BY <4>1, EmptySeq, ConcatEmptySeq DEF Stream
      <4>3. missed'[s] = {}
        BY <3>1, <1>2 DEF Subscribe, TypeOK
      <4>4. QED BY <4>1, <4>2, <4>3, <1>0 DEF InOrder, Accounted, Missed
    <3>2. CASE s # r
      <4>1. /\ queue'[s] = queue[s] /\ taken'[s] = taken[s]
            /\ joined'[s] = joined[s] /\ missed'[s] = missed[s]
            /\ published' = published
            /\ s \in subscribed' => s \in subscribed
        BY <3>2, <1>2 DEF Subscribe, TypeOK, counters
      <4>2. Stream(s)' = Stream(s)
        BY <4>1 DEF Stream
      <4>3. QED BY <4>1, <4>2, <1>0, Untouched
    <3>3. QED BY <3>1, <3>2
  <2>2. QED BY <2>1, <1>2 DEF StreamInv, OrderedStreams, NothingVanishes, TypeOK, Subscribe
<1>3. ASSUME NEW r \in Subscribers, Unsubscribe(r)
      PROVE  StreamInv'
  <2>1. \A s \in Subscribers : Stream(s)' = Stream(s)
    BY <1>3 DEF Stream, Unsubscribe
  <2>2. QED BY <2>1, <1>0, <1>3, Untouched
    DEF StreamInv, OrderedStreams, NothingVanishes, TypeOK, Unsubscribe
<1>4. ASSUME NEW r \in Subscribers, Get(r)
      PROVE  StreamInv'
  <2>1. ASSUME NEW s \in Subscribers PROVE Stream(s)' = Stream(s)
    <3>1. CASE s = r
      BY <3>1, <1>4, <1>0, DrainKeepsStream DEF Stream, Get, TypeOK
    <3>2. CASE s # r
      BY <3>2, <1>4 DEF Stream, Get, TypeOK
    <3>3. QED BY <3>1, <3>2
  <2>2. ASSUME NEW s \in Subscribers PROVE Good(s)'
    BY <2>1, <1>0, <1>4, Untouched DEF Get
  <2>3. QED BY <2>2, <1>4
    DEF StreamInv, OrderedStreams, NothingVanishes, TypeOK, Get
<1>5. CASE UNCHANGED busVars
  <2>1. \A s \in Subscribers : Stream(s)' = Stream(s)
    BY <1>5 DEF Stream, busVars
  <2>2. ASSUME NEW s \in Subscribers PROVE Good(s)'
    BY <2>1, <1>0, <1>5, Untouched DEF busVars
  <2>3. QED BY <2>2, <1>5
    DEF StreamInv, OrderedStreams, NothingVanishes, TypeOK, busVars
<1>6. QED BY <1>1, <1>2, <1>3, <1>4, <1>5 DEF Next

\* Every subscriber sees publication order without repeats, and whatever it
\* does not see was refused to it: for any number of subscribers coming and
\* going at any time (bus.py:36-67).
THEOREM StreamsAreFaithful == Spec => [](OrderedStreams /\ NothingVanishes)
<1>1. StreamInv => OrderedStreams /\ NothingVanishes
  BY DEF StreamInv
<1>2. QED
  BY <1>1, BusTypeCorrect, StreamInvInit, StreamInvStep, PTL DEF Spec

-----------------------------------------------------------------------------
\* Every step of the bus is, for each subscriber, a step of its own channel or
\* leaves that channel alone.
LEMMA ChannelStep ==
    ASSUME TypeOK, [Next]_busVars, NEW s \in Subscribers
    PROVE  [ChannelOf(s)!ChannelNext]_(ChannelOf(s)!channelVars)
<1> USE DEF ChannelOf!ChannelNext, ChannelOf!channelVars
<1>1. CASE Publish
  <2>1. /\ taken'[s] = taken[s] /\ (s \in subscribed') = (s \in subscribed)
        /\ published' = published + 1
    BY <1>1 DEF Publish, Receivers, Refusals
  <2>2. CASE s \in subscribed /\ ~IsFull(s)
    <3>1. /\ queue'[s] = Append(queue[s], published + 1)
          /\ missed'[s] = missed[s]
          /\ Len(queue[s]) < Capacity[s]
      BY <2>2, <1>1, BusAssumption DEF Publish, Receivers, Refusals, IsFull, TypeOK
    <3>2. QED BY <3>1, <2>1, <2>2 DEF ChannelOf!Accept
  <2>3. CASE s \in subscribed /\ IsFull(s)
    BY <2>3, <2>1, <1>1 DEF Publish, Receivers, Refusals, IsFull, ChannelOf!Refuse
  <2>4. CASE s \notin subscribed
    BY <2>4, <2>1, <1>1 DEF Publish, Receivers, Refusals, ChannelOf!Pass
  <2>5. QED BY <2>2, <2>3, <2>4
<1>2. ASSUME NEW r \in Subscribers, Subscribe(r)
      PROVE  [ChannelOf(s)!ChannelNext]_(ChannelOf(s)!channelVars)
  BY <1>2 DEF Subscribe, TypeOK, counters, ChannelOf!Open
<1>3. ASSUME NEW r \in Subscribers, Unsubscribe(r)
      PROVE  [ChannelOf(s)!ChannelNext]_(ChannelOf(s)!channelVars)
  BY <1>3 DEF Unsubscribe, TypeOK, ChannelOf!Close
<1>4. ASSUME NEW r \in Subscribers, Get(r)
      PROVE  [ChannelOf(s)!ChannelNext]_(ChannelOf(s)!channelVars)
  BY <1>4 DEF Get, TypeOK, ChannelOf!Take
<1>5. CASE UNCHANGED busVars
  BY <1>5 DEF busVars
<1>6. QED BY <1>1, <1>2, <1>3, <1>4, <1>5 DEF Next

\* The bus implements, for every subscriber at once, the best-effort channel
\* of BestEffortChannel: a slow reader never costs another one an event.
THEOREM BusIsolatesSubscribers == Spec => IsolatedChannels
<1>1. Init => \A s \in Subscribers : ChannelOf(s)!ChannelInit
  BY DEF Init, ChannelOf!ChannelInit
<1>2. TypeOK /\ [Next]_busVars
      => [\A s \in Subscribers :
            [ChannelOf(s)!ChannelNext]_(ChannelOf(s)!channelVars)]_busVars
  BY ChannelStep
<1>3. QED BY <1>1, <1>2, BusTypeCorrect, PTL DEF Spec, IsolatedChannels

==============================================================================
