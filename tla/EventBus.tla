------------------------------- MODULE EventBus -------------------------------
(***************************************************************************)
(* blutruth/bus.py: the in-process fan-out every collector publishes to    *)
(* and every consumer (writer, correlation rules, SSE, CLI) reads from     *)
(* through a queue of its own.                                             *)
(*                                                                         *)
(* publish, subscribe and unsubscribe hold an asyncio.Lock but never await *)
(* anything else inside it, so no other task runs between their first and  *)
(* their last statement: each is one action.  A subscriber stands for one  *)
(* asyncio.Queue; subscribing again makes a fresh one.  An event is its    *)
(* ordinal in the order of publication.                                    *)
(***************************************************************************)
EXTENDS Integers, Sequences, FiniteSets

CONSTANTS Subscribers,   \* identities a queue can be created for
          Capacity,      \* Capacity[s]: max_queue that s subscribes with
          WarnInterval,  \* _DROP_WARN_INTERVAL
          MaxPublished   \* bound on the events published in a behaviour

ASSUME BusAssumption ==
    /\ IsFiniteSet(Subscribers)
    /\ Capacity \in [Subscribers -> Nat \ {0}]
    /\ WarnInterval \in Nat \ {0}
    /\ MaxPublished \in Nat

VARIABLES subscribed,    \* _subscribers
          queue,         \* the content of each subscriber's asyncio.Queue
          published,     \* _total_published
          dropped,       \* _total_dropped
          lastWarn,      \* _last_drop_warn
          joined,        \* history: published when s subscribed
          taken,         \* history: what s took from its queue, in order
          missed         \* history: what was dropped for s

counters == <<published, dropped, lastWarn>>
busVars == <<subscribed, queue, published, dropped, lastWarn,
             joined, taken, missed>>

Init ==
    /\ subscribed = {}
    /\ queue = [s \in Subscribers |-> <<>>]
    /\ published = 0
    /\ dropped = 0
    /\ lastWarn = 0
    /\ joined = [s \in Subscribers |-> 0]
    /\ taken = [s \in Subscribers |-> <<>>]
    /\ missed = [s \in Subscribers |-> {}]

-----------------------------------------------------------------------------
\* q.put_nowait raises QueueFull.
IsFull(s) == Len(queue[s]) = Capacity[s]

\* Mutant: the count is looked at once per publish, after the loop.
LastWarnedPerPublish(total) ==
    IF total - lastWarn >= WarnInterval THEN total ELSE lastWarn

\* _last_drop_warn once the drop count has run up to total one by one: each
\* count a whole interval past the last warning warned in its turn.
LastWarned(total) ==
    lastWarn + WarnInterval * ((total - lastWarn) \div WarnInterval)

\* Mutant: the first full queue ends the loop for everybody.
ReceiversUntilFull(full) == IF full = {} THEN subscribed ELSE {}

\* Those who get an event that the full queues refuse: a full queue costs its own
\* subscriber the event and nobody else.
Receivers(full) == subscribed \ full

\* What an event adds to the count of drops.
Refusals(full) == Cardinality(full)

\* Offer one event to every queue.
Publish ==
    /\ published < MaxPublished
    /\ LET event == published + 1
           full  == {s \in subscribed : IsFull(s)}
       IN  /\ published' = event
           /\ queue' = [s \in Subscribers |->
                          IF s \in Receivers(full)
                          THEN Append(queue[s], event) ELSE queue[s]]
           /\ missed' = [s \in Subscribers |->
                          IF s \in full
                          THEN missed[s] \cup {event} ELSE missed[s]]
           /\ dropped' = dropped + Refusals(full)
           /\ lastWarn' = LastWarned(dropped')
    /\ UNCHANGED <<subscribed, joined, taken>>

\* subscribe makes a fresh queue.
Subscribe(s) ==
    /\ s \notin subscribed
    /\ subscribed' = subscribed \cup {s}
    /\ queue' = [queue EXCEPT ![s] = <<>>]
    /\ joined' = [joined EXCEPT ![s] = published]
    /\ taken' = [taken EXCEPT ![s] = <<>>]
    /\ missed' = [missed EXCEPT ![s] = {}]
    /\ UNCHANGED counters

\* The queue outlives the subscription: its reader may still drain it.
Unsubscribe(s) ==
    /\ s \in subscribed
    /\ subscribed' = subscribed \ {s}
    /\ UNCHANGED <<queue, published, dropped, lastWarn, joined, taken, missed>>

\* The reader's q.get() or q.get_nowait().
Get(s) ==
    /\ queue[s] # <<>>
    /\ taken' = [taken EXCEPT ![s] = Append(@, Head(queue[s]))]
    /\ queue' = [queue EXCEPT ![s] = Tail(@)]
    /\ UNCHANGED <<subscribed, published, dropped, lastWarn, joined, missed>>

Next ==
    \/ Publish
    \/ \E s \in Subscribers : Subscribe(s) \/ Unsubscribe(s) \/ Get(s)

Spec == Init /\ [][Next]_busVars

-----------------------------------------------------------------------------
\* Every event the bus ever handed to s, in the order s sees them.
Stream(s) == taken[s] \o queue[s]

\* Types of the state; a queue never holds more than its maxsize.
TypeOK ==
    /\ subscribed \subseteq Subscribers
    /\ queue \in [Subscribers -> Seq(Nat)]
    /\ \A s \in Subscribers : Len(queue[s]) <= Capacity[s]
    /\ published \in 0 .. MaxPublished
    /\ dropped \in Nat
    /\ lastWarn \in Nat
    /\ joined \in [Subscribers -> Nat]
    /\ taken \in [Subscribers -> Seq(Nat)]
    /\ missed \in [Subscribers -> SUBSET Nat]

\* Each subscriber sees a strictly increasing stream: publication order, no
\* event twice, nothing from before it subscribed and nothing that was counted
\* as dropped for it (publish, bus.py:36-54).
InOrder(s) ==
    /\ \A i, j \in 1 .. Len(Stream(s)) :
          i < j => Stream(s)[i] < Stream(s)[j]
    /\ \A i \in 1 .. Len(Stream(s)) :
          Stream(s)[i] \in (joined[s] + 1 .. published) \ missed[s]

OrderedStreams == \A s \in Subscribers : InOrder(s)

\* Nothing disappears: what was published since s subscribed is in its stream
\* or was refused to s because s itself was slow (bus.py:37 "Best-effort:
\* drops if a subscriber is slow").
Accounted(s) ==
    \A n \in joined[s] + 1 .. published :
        n \in missed[s] \/ \E i \in 1 .. Len(Stream(s)) : Stream(s)[i] = n

NothingVanishes == \A s \in subscribed : Accounted(s)

\* The log never lets a whole interval of drops go by unreported, and never
\* reports off the interval, however many queues one publish overflows
\* (bus.py:22 "Warn every N drops").
WarnedEveryInterval ==
    /\ \E n \in 0 .. dropped : lastWarn = n * WarnInterval
    /\ dropped - lastWarn \in 0 .. WarnInterval - 1

\* Whatever the other subscribers do, each sees a best-effort FIFO channel:
\* the bus implements BestEffortChannel for every subscriber at once
\* (bus.py:27 "subscribers get independent queues").
ChannelOf(s) == INSTANCE BestEffortChannel WITH
    Room    <- Capacity[s],
    open    <- s \in subscribed,
    latest  <- published,
    backlog <- queue[s],
    taken   <- taken[s],
    missed  <- missed[s]

IsolatedChannels ==
    /\ \A s \in Subscribers : ChannelOf(s)!ChannelInit
    /\ [][\A s \in Subscribers :
            [ChannelOf(s)!ChannelNext]_(ChannelOf(s)!channelVars)]_busVars
=============================================================================
