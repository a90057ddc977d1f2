------------------------------ MODULE RuleEngine ------------------------------
(***************************************************************************)
(* blutruth/correlation/rules.py: named patterns over the live stream.     *)
(*                                                                         *)
(* A rule is a sequence of triggers; a trigger is satisfied by an event of *)
(* its type or, when it is negated, by the window going by without one.    *)
(* Each device has a list of partial matches.  The engine's only clock is  *)
(* the moment it processes an event: partials are looked at when an event  *)
(* of their own device is processed, or when the whole queue has been      *)
(* silent for IdleTimeout.                                                 *)
(*                                                                         *)
(* What a trigger compares (source, type, conditions on the payload) is    *)
(* one event type here; a count is expanded as from_dict does.  An event   *)
(* without an address has device None, the key "_global_" of the source.   *)
(***************************************************************************)
EXTENDS Integers, Sequences, FiniteSets

CONSTANTS Addresses, None,
          EventTypes,    \* event types rules may look for
          Meta,          \* PATTERN_MATCH and the other types _run skips
          Rules,         \* a sequence of [triggers, window, sameDevice]
          Cap,           \* _MAX_PARTIALS_PER_KEY
          IdleTimeout,   \* the wait_for timeout of _run
          MaxLag,        \* bound: how long an event may wait in the queue
          MaxPublished, MaxClock   \* bounds

Keys == Addresses \cup {None}
Trigger == [type : EventTypes, negate : BOOLEAN]
Rule == [triggers : Seq(Trigger), window : Nat \ {0}, sameDevice : BOOLEAN]

ASSUME RuleAssumption ==
    /\ None \notin Addresses /\ Meta \notin EventTypes
    /\ Rules \in Seq(Rule)
    /\ \A i \in DOMAIN Rules : Rules[i].triggers # <<>> /\ ~Rules[i].triggers[1].negate
    /\ Cap \in Nat \ {0} /\ IdleTimeout \in Nat \ {0}
    /\ MaxLag \in Nat /\ MaxPublished \in Nat /\ MaxClock \in Nat

VARIABLES clock,         \* time.monotonic(), in ticks
          inbox,         \* the engine's bus queue
          waitingSince,  \* when the current wait_for started
          partials,      \* _partials: for each key a list of PartialMatch
          sweep,         \* the keys _expire_old_partials has still to look at
          fired,         \* history: the matches emitted, in order
          seen,          \* history: events processed, each with its time
          published,     \* history: how many events were published for rules
          evicted        \* history: the cap has thrown a partial away

ruleVars == <<clock, inbox, waitingSince, partials, sweep, fired, seen, published, evicted>>

RuleInit ==
    /\ clock = 0
    /\ inbox = <<>>
    /\ waitingSince = 0
    /\ partials = [k \in Keys |-> <<>>]
    /\ sweep = {}
    /\ fired = <<>> /\ seen = <<>>
    /\ published = 0
    /\ evicted = FALSE

-----------------------------------------------------------------------------
\* The entries of a list that are at the positions S, in their order.
Keeping(list, S) ==
    [n \in 1 .. Cardinality(S) |->
        list[CHOOSE i \in S : Cardinality({j \in S : j < i}) = n - 1]]

TriggersOf(pm) == Rules[pm.rule].triggers
WindowOf(pm) == Rules[pm.rule].window
Elapsed(pm) == clock - pm.start

\* Mutant: a partial does not notice that a negation comes next.
AtUnawares(pm, i) == [pm EXCEPT !.next = i]

\* A partial whose next trigger is i: complete, or waiting at a negation.
At(pm, i) == [pm EXCEPT !.next = i,
                        !.waiting = /\ i <= Len(TriggersOf(pm))
                                    /\ TriggersOf(pm)[i].negate]
Complete(pm) == pm.next > Len(TriggersOf(pm))
Open(list) == Keeping(list, {i \in DOMAIN list : ~Complete(list[i])})
Closed(list) == Keeping(list, {i \in DOMAIN list : Complete(list[i])})

\* _expire_partials_for: a negation whose window went by is satisfied; any
\* other partial is given up at twice its window.
Satisfied(pm) == pm.waiting /\ Elapsed(pm) >= WindowOf(pm)
Stale(pm) == ~pm.waiting /\ Elapsed(pm) >= 2 * WindowOf(pm)
Aged(pm) == IF Satisfied(pm) THEN At(pm, pm.next + 1) ELSE pm

Expired(list) ==
    LET kept == Keeping(list, {i \in DOMAIN list : ~Stale(list[i])})
    IN  [i \in DOMAIN kept |-> Aged(kept[i])]
Active(list) == Open(Expired(list))
ToFire(list) == Closed(Expired(list))

-----------------------------------------------------------------------------
Wanted(pm, ev) == TriggersOf(pm)[pm.next].type = ev.type

\* Mutant: the negated event cancels nothing.
CancelledNever(list, ev) == list

\* Step 2 of _process_event: the negated event came, the partial is dropped.
Cancelled(list, ev) ==
    Keeping(list, {i \in DOMAIN list : ~(list[i].waiting /\ Wanted(list[i], ev))})

\* Step 3: every partial waiting for this event takes it.
Fed(pm, ev) ==
    IF ~pm.waiting /\ Wanted(pm, ev)
    THEN At([pm EXCEPT !.events = Append(@, ev)], pm.next + 1)
    ELSE pm

\* Mutant: the loop goes over the list it removes from, so the partial behind one
\* that completes does not see the event.
AdvancedSkipping(list, ev) ==
    [i \in DOMAIN list |-> IF i > 1 /\ Complete(Fed(list[i - 1], ev))
                            THEN list[i] ELSE Fed(list[i], ev)]

Advanced(list, ev) == [i \in DOMAIN list |-> Fed(list[i], ev)]

\* Step 4: one new partial for each rule that starts with this event.
Begun(r, ev) ==
    At([rule |-> r, events |-> <<ev>>, next |-> 2, start |-> clock, waiting |-> FALSE], 2)
Started(ev) ==
    Keeping([r \in DOMAIN Rules |-> Begun(r, ev)],
            {r \in DOMAIN Rules : Rules[r].triggers[1].type = ev.type})

Newest(list) ==
    IF Len(list) > Cap THEN SubSeq(list, Len(list) - Cap + 1, Len(list)) ELSE list

Match(pm) == [rule |-> pm.rule, events |-> pm.events, start |-> pm.start, at |-> clock]

\* Each emitted match is published, and so comes back to the engine's queue.
Emit(list, rest) ==
    /\ fired' = fired \o [i \in DOMAIN list |-> Match(list[i])]
    /\ inbox' = rest \o [i \in DOMAIN list |->
                           [type |-> Meta, dev |-> list[i].events[1].dev,
                            at |-> clock, nr |-> 0]]

-----------------------------------------------------------------------------
\* Somebody publishes an event the rules may look at; nr tells events apart.
Publish(type, dev) ==
    /\ sweep = {}
    /\ published < MaxPublished /\ published' = published + 1
    /\ inbox' = Append(inbox, [type |-> type, dev |-> dev, at |-> clock,
                               nr |-> published + 1])
    /\ UNCHANGED <<clock, waitingSince, partials, sweep, fired, seen, evicted>>

\* _run takes an event it does not skip and processes it to the end.
ProcessEvent ==
    /\ sweep = {} /\ inbox # <<>> /\ Head(inbox).type # Meta
    /\ LET ev       == Head(inbox)
           key      == ev.dev
           advanced == Advanced(Cancelled(Active(partials[key]), ev), ev) \o Started(ev)
       IN  /\ partials' = [partials EXCEPT ![key] = Newest(Open(advanced))]
           /\ evicted' = (evicted \/ Len(Open(advanced)) > Cap)
           /\ seen' = Append(seen, [event |-> ev, done |-> clock])
           /\ Emit(ToFire(partials[key]) \o Closed(advanced), Tail(inbox))
    /\ waitingSince' = clock
    /\ UNCHANGED <<clock, sweep, published>>

SkipMeta ==
    /\ sweep = {} /\ inbox # <<>> /\ Head(inbox).type = Meta
    /\ inbox' = Tail(inbox)
    /\ waitingSince' = clock
    /\ UNCHANGED <<clock, partials, sweep, fired, seen, published, evicted>>

\* The queue was silent for a whole timeout: _expire_old_partials goes through the
\* keys, in the order in which it has come to know them.  Nothing else runs until it is
\* done: publishing a match is awaited, but never waits.
IdleTimedOut ==
    /\ sweep = {} /\ inbox = <<>>
    /\ clock - waitingSince >= IdleTimeout
    /\ sweep' = {k \in Keys : partials[k] # <<>>}
    /\ waitingSince' = clock
    /\ UNCHANGED <<clock, inbox, partials, fired, seen, published, evicted>>

ExpireKey(k) ==
    /\ k \in sweep /\ sweep' = sweep \ {k}
    /\ partials' = [partials EXCEPT ![k] = Active(@)]
    /\ Emit(ToFire(partials[k]), inbox)
    /\ UNCHANGED <<clock, waitingSince, seen, published, evicted>>

\* Time goes by, but the loop is not kept from an event longer than MaxLag nor
\* from a timeout that is due.
ClockTicks ==
    /\ sweep = {} /\ clock < MaxClock
    /\ inbox # <<>> => clock - Head(inbox).at < MaxLag
    /\ inbox = <<>> => clock - waitingSince < IdleTimeout
    /\ clock' = clock + 1
    /\ UNCHANGED <<inbox, waitingSince, partials, sweep, fired, seen, published, evicted>>

RuleNext ==
    \/ \E type \in EventTypes, dev \in Keys : Publish(type, dev)
    \/ ProcessEvent \/ SkipMeta \/ IdleTimedOut
    \/ \E k \in Keys : ExpireKey(k)
    \/ ClockTicks

RuleSpec == RuleInit /\ [][RuleNext]_ruleVars

-----------------------------------------------------------------------------
BusEvent == [type : EventTypes \cup {Meta}, dev : Keys, at : 0 .. MaxClock,
             nr : 0 .. MaxPublished]
Partial == [rule : DOMAIN Rules, events : Seq(BusEvent), next : Nat,
            start : 0 .. MaxClock, waiting : BOOLEAN]

\* Types of the state.
RuleTypeOK ==
    /\ clock \in 0 .. MaxClock /\ waitingSince \in 0 .. MaxClock
    /\ inbox \in Seq(BusEvent)
    /\ partials \in [Keys -> Seq(Partial)] /\ sweep \subseteq Keys
    /\ seen \in Seq([event : BusEvent, done : 0 .. MaxClock])
    /\ fired \in Seq([rule : DOMAIN Rules, events : Seq(BusEvent),
                      start : 0 .. MaxClock, at : 0 .. MaxClock])
    /\ published \in 0 .. MaxPublished /\ evicted \in BOOLEAN

\* A partial always has a trigger to wait for, waits the right way for it, and
\* the list of a device holds at most Cap of them, oldest first, so that the
\* slice [-200:] throws away the oldest (rules.py:313-316).
PartialsWellFormed ==
    /\ RuleTypeOK
    /\ \A k \in Keys :
        /\ Len(partials[k]) <= Cap
        /\ \A i \in 1 .. Len(partials[k]) :
              LET pm == partials[k][i]
              IN  /\ pm.next \in 2 .. Len(TriggersOf(pm))
                  /\ pm.waiting = TriggersOf(pm)[pm.next].negate
                  /\ \A e \in 1 .. Len(pm.events) : pm.events[e].dev = k
        /\ \A i, j \in 1 .. Len(partials[k]) :
              i < j => partials[k][i].events[1].nr <= partials[k][j].events[1].nr

\* The reference: a chain is an event processed for each trigger, each the first of
\* its type and of the first one's device that came after the one before.
Fits(n, trigger, dev) == seen[n].event.type = trigger.type /\ seen[n].event.dev = dev
IsChain(triggers, c) ==
    LET dev == seen[c[1]].event.dev
    IN  /\ \A k \in 1 .. Len(triggers) : Fits(c[k], triggers[k], dev)
        /\ \A k \in 1 .. Len(triggers) - 1 :
              /\ c[k] < c[k + 1]
              /\ \A n \in c[k] + 1 .. c[k + 1] - 1 : ~Fits(n, triggers[k + 1], dev)
EventsOf(c) == [k \in DOMAIN c |-> seen[c[k]].event]

Positive(triggers) == \A k \in 1 .. Len(triggers) : ~triggers[k].negate

\* The chains of a rule that may be found: a partial lives for less than twice the
\* window (rules.py:376).
Closing(r, c) == seen[c[Len(Rules[r].triggers)]].done - seen[c[1]].done
ReferenceMatches(r) ==
    LET triggers == Rules[r].triggers
    IN  {c \in [1 .. Len(triggers) -> 1 .. Len(seen)] :
            IsChain(triggers, c) /\ Closing(r, c) < 2 * Rules[r].window}

\* The chains that must be found: they close within the window itself (rules.py:21).
WithinWindow(r) == {c \in ReferenceMatches(r) : Closing(r, c) <= Rules[r].window}

\* As long as the cap evicts nothing, a rule without negations that asks for one device
\* fires for every chain that closes within its window, with the chain's events, and
\* for nothing but chains a partial may live for: none is missed or mixed up when others
\* overlap it, share its events, complete beside it or expire around it
\* (_process_event, rules.py:247-319).  Whatever the rule, and with the cap, it never
\* fires twice from the same first event.
FiresAsReference ==
    /\ \A f, g \in 1 .. Len(fired) :
          fired[f].rule = fired[g].rule
          /\ fired[f].events[1] = fired[g].events[1] => f = g
    /\ ~evicted =>
        \A r \in DOMAIN Rules :
           Positive(Rules[r].triggers) /\ Rules[r].sameDevice =>
              LET found == {fired[f].events :
                               f \in {g \in 1 .. Len(fired) : fired[g].rule = r}}
              IN  /\ {EventsOf(c) : c \in WithinWindow(r)} \subseteq found
                  /\ found \subseteq {EventsOf(c) : c \in ReferenceMatches(r)}

\* What the file format promises: the triggers of a match all occurred within the window
\* of its rule (rules.py:21).
AllWithinWindow ==
    \A f \in 1 .. Len(fired) :
       Positive(Rules[fired[f].rule].triggers) =>
          \A e \in 1 .. Len(fired[f].events) :
             fired[f].events[e].at - fired[f].events[1].at <= Rules[fired[f].rule].window

\* No rule waits for one silence after another.
NegationsApart ==
    \A r \in DOMAIN Rules : \A k \in 1 .. Len(Rules[r].triggers) - 1 :
       ~(Rules[r].triggers[k].negate /\ Rules[r].triggers[k + 1].negate)

\* A rule that fires because something did not happen is right about what the
\* engine had processed: while the window of the match was open, between the
\* event before the negation and the one after it, no event of the negated
\* type and of the same device was processed (rules.py:34).
NoFalseAlarm ==
    \A f \in 1 .. Len(fired), n \in 1 .. Len(seen) :
        LET triggers == Rules[fired[f].rule].triggers
        IN  \A k \in 2 .. Len(triggers) :
              LET before == Cardinality({j \in 1 .. k : ~triggers[j].negate})
              IN  /\ triggers[k].negate
                  /\ seen[n].event.type = triggers[k].type
                  /\ seen[n].event.dev = fired[f].events[1].dev
                  /\ seen[n].event.nr > fired[f].events[before].nr
                  => seen[n].done - fired[f].start >= Rules[fired[f].rule].window
=============================================================================
