--------------------------- MODULE CorrelationEngine ---------------------------
(***************************************************************************)
(* blutruth/correlation/engine.py: the background task that links events   *)
(* of one device, close in time and from several sources, by a group id    *)
(* written back to the database.                                           *)
(*                                                                         *)
(* A pass is not atomic: the query and each update run on an executor      *)
(* thread, and between them new rows are committed, an update can fail     *)
(* with some of it done and the storage can be rolled.  Everybody uses one *)
(* connection, so what a failed update left is seen at once and goes into  *)
(* the database with whatever is committed next.  An event is the moment   *)
(* it happened (its ts_mono_us), its device and its source; its id is its  *)
(* place in the table.  Events without an address never take part and are  *)
(* left out.                                                               *)
(***************************************************************************)
EXTENDS Integers, Sequences, FiniteSets

CONSTANTS Devices, Sources,
          Window,         \* time_window_ms
          BatchInterval,  \* batch_interval_s
          Lookback,       \* lookback_us
          MaxSkew,        \* bound: how late an event reaches the bus
          MaxLatency,     \* bound: how long it waits for its commit
          MaxPass,        \* bound: how long a pass takes
          MaxTime, MaxEvents,
          MaxFaults       \* bound: failed passes, restarts and rolls

ASSUME CorrelationAssumption ==
    /\ {Window, BatchInterval, Lookback} \subseteq Nat \ {0}
    /\ {MaxSkew, MaxLatency, MaxPass, MaxTime, MaxEvents, MaxFaults}
          \subseteq Nat

VARIABLES now,
          waiting,      \* events in the bus queue and in the sink's buffer
          rows,         \* the events table, by id
          group,        \* events.group_id, by id (0: NULL)
          links,        \* the event_groups table
          durable,      \* the group ids and the links that are committed
          torn,         \* history: updates of events whose link was not inserted
          dbOpen,       \* FALSE while a roll has the database closed
          pass,         \* the pass of _run: asleep, querying or updating
          nextGroup,    \* _next_group_id
          watermark,    \* _last_processed_us
          covered,      \* history: rows and times the passes have covered
          faults        \* the failed passes, restarts and rolls there were

tables == <<rows, group, links, durable, torn, dbOpen>>
vars == <<now, waiting, tables, pass, nextGroup, watermark, covered, faults>>

Asleep(until) == [at |-> "sleep", until |-> until]
Nothing == [rows |-> 0, since |-> 0, until |-> 0]

\* The two tables as the connection sees them, and their commit.
Seen == [group |-> group, links |-> links]
Commit == durable' = Seen'

Init ==
    /\ now = 0 /\ waiting = <<>>
    /\ rows = <<>> /\ group = <<>> /\ links = {} /\ dbOpen = TRUE
    /\ durable = Seen /\ torn = {}
    /\ pass = Asleep(BatchInterval)
    /\ nextGroup = 1 /\ watermark = 0
    /\ covered = Nothing
    /\ faults = <<>>

-----------------------------------------------------------------------------
\* The order of the query: ts_mono_us, then the order of the rows.
Before(a, b) == rows[a].at < rows[b].at \/ (rows[a].at = rows[b].at /\ a < b)
First(ids) == CHOOSE a \in ids : \A b \in ids \ {a} : Before(a, b)
Latest(ids) == CHOOSE a \in ids : \A b \in ids \ {a} : Before(b, a)

QueryWindow(from, to) == {id \in DOMAIN rows : rows[id].at \in from .. to}

\* _cluster_events cuts the events of a device wherever the next one comes
\* more than a window after the last: a cluster begins at such an event and
\* goes up to the next.
ByDevice(ids, id) == {e \in ids : rows[e].dev = rows[id].dev}
Begins(ids, id) ==
    \A e \in ByDevice(ids, id) :
        Before(e, id) => rows[id].at - rows[e].at > Window
ClusterFrom(ids, id) ==
    {e \in ByDevice(ids, id) :
        /\ e = id \/ Before(id, e)
        /\ \A b \in ByDevice(ids, id) \ {id} :
              Begins(ids, b) /\ Before(id, b) => Before(e, b) /\ e # b}

\* Only clusters of several sources are grouped.
ClusterEvents(ids) ==
    {c \in {ClusterFrom(ids, id) : id \in {e \in ids : Begins(ids, e)}} :
        Cardinality({rows[e].source : e \in c}) >= 2}

\* Devices in the order in which the query returned them, then by time.
EarlierCluster(ids, c, d) ==
    LET device(k) == First(ByDevice(ids, First(k)))
    IN  \/ Before(device(c), device(d))
        \/ device(c) = device(d) /\ Before(First(c), First(d))

\* One call of set_group_id.
Update(id, g, role) == [event |-> id, group |-> g, role |-> role]

\* Every event of the i-th cluster gets the i-th new group id, the earliest as
\* PRIMARY.
GroupOf(ids, c) ==
    nextGroup + Cardinality({d \in ClusterEvents(ids) : EarlierCluster(ids, d, c)})
UpdatesOf(ids, c) ==
    {Update(e, GroupOf(ids, c), IF e = First(c) THEN "PRIMARY" ELSE "CORRELATED") :
        e \in c}
AllUpdates(ids) == UNION {UpdatesOf(ids, c) : c \in ClusterEvents(ids)}

\* The updates of a pass: cluster by cluster, each in the order of the query.
Sooner(u, v) ==
    u.group < v.group \/ (u.group = v.group /\ Before(u.event, v.event))
Updates(ids) ==
    [i \in 1 .. Cardinality(AllUpdates(ids)) |->
        CHOOSE u \in AllUpdates(ids) :
            Cardinality({v \in AllUpdates(ids) : Sooner(v, u)}) = i - 1]

-----------------------------------------------------------------------------
\* The world: an event happens and reaches the bus up to MaxSkew later.
Occur(dev, source, at) ==
    /\ Len(rows) + Len(waiting) < MaxEvents
    /\ at \in now - MaxSkew .. now /\ at >= 0
    /\ waiting' = Append(waiting, [dev |-> dev, source |-> source, at |-> at,
                                   since |-> now])
    /\ UNCHANGED <<now, tables, pass, nextGroup, watermark, covered, faults>>

Stored(n) == [i \in 1 .. n |-> [dev |-> waiting[i].dev, at |-> waiting[i].at,
                                source |-> waiting[i].source]]

\* The sink commits a batch, with group_id NULL.
Store(n) ==
    /\ dbOpen /\ n \in 1 .. Len(waiting)
    /\ rows' = rows \o Stored(n)
    /\ group' = group \o [i \in 1 .. n |-> 0]
    /\ waiting' = SubSeq(waiting, n + 1, Len(waiting))
    /\ UNCHANGED <<now, links, torn, dbOpen, pass, nextGroup, watermark, covered,
                   faults>>
    /\ Commit

\* So does the commit of anything else (a session, a device).
CommitElsewhere ==
    /\ dbOpen /\ durable # Seen
    /\ UNCHANGED <<now, waiting, rows, group, links, torn, dbOpen, pass, nextGroup,
                   watermark, covered, faults>>
    /\ Commit

\* Time goes by; the bounds keep it from leaving work behind for long.
Tick ==
    /\ now < MaxTime
    /\ waiting # <<>> => now - Head(waiting).since < MaxLatency
    /\ IF pass.at = "sleep" THEN now < pass.until ELSE now - pass.to < MaxPass
    /\ now' = now + 1
    /\ UNCHANGED <<waiting, tables, pass, nextGroup, watermark, covered, faults>>

-----------------------------------------------------------------------------
\* Mutant: one window seems enough for events that are a window late.
StartWithShortOverlap ==
    LET overlap == watermark - Window
        recent  == now - Lookback
    IN  IF overlap > recent THEN overlap ELSE recent

\* The interval is over: the bounds of the query are fixed and it is handed to
\* the executor.
StartOfWindow ==
    LET overlap == watermark - 2 * Window
        recent  == now - Lookback
    IN  IF overlap > recent THEN overlap ELSE recent

\* The window overlaps the last one by two windows, but never starts earlier
\* than the lookback.
BeginPass ==
    /\ pass.at = "sleep" /\ now >= pass.until
    /\ pass' = [at |-> "query", from |-> StartOfWindow, to |-> now]
    /\ UNCHANGED <<now, waiting, tables, nextGroup, watermark, covered, faults>>

\* The rows come back.  Nothing found (or no database): the pass is over.
Query ==
    /\ pass.at = "query"
    /\ LET ids == IF dbOpen THEN QueryWindow(pass.from, pass.to) ELSE {}
       IN  pass' = IF ids = {} THEN Asleep(now + BatchInterval)
                   ELSE [at |-> "update", to |-> pass.to, todo |-> Updates(ids),
                         newest |-> rows[Latest(ids)].at, rows |-> Len(rows)]
    /\ UNCHANGED <<now, waiting, tables, nextGroup, watermark, covered, faults>>

\* Mutant: an id counts as taken when the last event of its cluster has it.
TakenAfterCluster(u) ==
    IF Len(pass.todo) > 1 /\ pass.todo[2].group = u.group
    THEN nextGroup ELSE u.group + 1

\* _next_group_id once u is handed to set_group_id: it was moved before the
\* first update of u's cluster.
Taken(u) == u.group + 1

\* Mutant: an event keeps the group it has.
RegroupedOnce(u) ==
    IF dbOpen /\ u.event \in DOMAIN group /\ group[u.event] = 0
    THEN [group EXCEPT ![u.event] = u.group] ELSE group

\* The events table after u.
Regrouped(u) ==
    IF dbOpen /\ u.event \in DOMAIN group
    THEN [group EXCEPT ![u.event] = u.group] ELSE group

WithLink(u) == IF dbOpen THEN links \cup {u} ELSE links

\* set_group_id: UPDATE, INSERT, commit.  The row of an id that is gone is not
\* updated; the link is written all the same.  Without a database the call returns
\* at once.
AssignGroup ==
    /\ pass.at = "update" /\ pass.todo # <<>>
    /\ LET u == Head(pass.todo)
       IN  /\ group' = Regrouped(u)
           /\ links' = WithLink(u)
           /\ nextGroup' = Taken(u)
    /\ IF dbOpen THEN Commit ELSE UNCHANGED durable
    /\ pass' = [pass EXCEPT !.todo = Tail(@)]
    /\ UNCHANGED <<now, waiting, rows, torn, dbOpen, watermark, covered, faults>>

EndPass ==
    /\ pass.at = "update" /\ pass.todo = <<>>
    /\ watermark' = pass.newest
    /\ covered' = [rows |-> pass.rows, since |-> pass.to - Lookback,
                   until |-> pass.to]
    /\ pass' = Asleep(now + BatchInterval)
    /\ UNCHANGED <<now, waiting, tables, nextGroup, faults>>

Fault(kind) == Len(faults) < MaxFaults /\ faults' = Append(faults, kind)

\* The query raises: CORRELATION_ERROR, and the pass is given up where it stands.
QueryRaises ==
    /\ pass.at = "query"
    /\ Fault("failure")
    /\ pass' = Asleep(now + BatchInterval)
    /\ UNCHANGED <<now, waiting, tables, nextGroup, watermark, covered>>

\* So does an update, at its first, second or third statement.  Nothing is rolled
\* back: what the statements before it did waits for the next commit.
UpdateRaises(done) ==
    /\ pass.at = "update" /\ pass.todo # <<>>
    /\ done > 0 => dbOpen
    /\ Fault("failure")
    /\ LET u == Head(pass.todo)
       IN  /\ group' = IF done > 0 THEN Regrouped(u) ELSE group
           /\ links' = IF done = 2 THEN WithLink(u) ELSE links
           /\ torn' = IF done = 1 THEN torn \cup {u} ELSE torn
           /\ nextGroup' = Taken(u)
    /\ pass' = Asleep(now + BatchInterval)
    /\ UNCHANGED <<now, waiting, rows, durable, dbOpen, watermark, covered>>

-----------------------------------------------------------------------------
\* The program stops and is started again on the same database: what waited is
\* flushed, the engine's counters start over.  With nothing to flush, what no commit
\* has taken with it by the close is rolled back.
Restart ==
    /\ dbOpen
    /\ Fault("restart")
    /\ rows' = rows \o Stored(Len(waiting))
    /\ \E kept \in {Seen} \cup {k \in {durable} : waiting = <<>>} :
          /\ group' = kept.group \o [i \in 1 .. Len(waiting) |-> 0]
          /\ links' = kept.links
    /\ Commit
    /\ waiting' = <<>>
    /\ pass' = Asleep(now + BatchInterval)
    /\ nextGroup' = 1 /\ watermark' = 0
    /\ UNCHANGED <<now, torn, dbOpen, covered>>

\* roll_storage: the tables are archived with what waited, and a fresh database
\* numbers its rows from 1 again.  The engine is not told (what a pass would
\* add to the history is of the old table).
RollCloses ==
    /\ dbOpen
    /\ Fault("roll")
    /\ rows' = <<>> /\ group' = <<>> /\ links' = {} /\ waiting' = <<>>
    /\ Commit /\ torn' = {}
    /\ dbOpen' = FALSE
    /\ covered' = Nothing
    /\ pass' = IF pass.at = "update" THEN [pass EXCEPT !.rows = 0] ELSE pass
    /\ UNCHANGED <<now, nextGroup, watermark>>

RollOpens ==
    /\ ~dbOpen /\ dbOpen' = TRUE
    /\ UNCHANGED <<now, waiting, rows, group, links, durable, torn, pass, nextGroup,
                   watermark, covered, faults>>

Next ==
    \/ \E dev \in Devices, source \in Sources, at \in 0 .. MaxTime :
          Occur(dev, source, at)
    \/ \E n \in 1 .. MaxEvents : Store(n)
    \/ CommitElsewhere
    \/ Tick \/ BeginPass \/ Query \/ AssignGroup \/ EndPass
    \/ QueryRaises \/ \E done \in 0 .. 2 : UpdateRaises(done)
    \/ Restart \/ RollCloses \/ RollOpens

Spec == Init /\ [][Next]_vars

-----------------------------------------------------------------------------
Row == [dev : Devices, source : Sources, at : 0 .. MaxTime]
Link == [event : 1 .. MaxEvents, group : Nat \ {0},
         role : {"PRIMARY", "CORRELATED"}]

\* Types of the state.
TypeOK ==
    /\ now \in 0 .. MaxTime /\ dbOpen \in BOOLEAN
    /\ rows \in Seq(Row) /\ group \in [DOMAIN rows -> Nat]
    /\ links \subseteq Link /\ torn \subseteq Link
    /\ durable \in [group : [DOMAIN rows -> Nat], links : SUBSET Link]
    /\ pass.at \in {"sleep", "query", "update"}
    /\ pass.at = "update" => pass.todo \in Seq(Link)
    /\ nextGroup \in Nat \ {0} /\ watermark \in 0 .. MaxTime
    /\ faults \in Seq({"failure", "restart", "roll"})

Groups == {l.group : l \in links}
Members(g) == {l.event : l \in {k \in links : k.group = g}}

\* Nothing has reset the group ids or the row ids while the other was kept.
IdsAreFresh == \A i \in DOMAIN faults : faults[i] = "failure"

\* Whatever fails in the middle of a pass, the events of one group id are of
\* one device, each within a window of the one before it, and exactly the
\* earliest is PRIMARY: a retried pass never adds to a group the failed one
\* left (engine.py:128-149).
GroupsAreChains ==
    /\ TypeOK
    /\ IdsAreFresh => \A g \in Groups :
        LET ids   == Members(g)
            first == First(ids)
        IN  /\ \A e \in ids : rows[e].dev = rows[first].dev
            /\ \A e \in ids \ {first} :
                  \E d \in ids : /\ Before(d, e)
                                 /\ rows[e].at - rows[d].at <= Window
            /\ \A l \in links :
                  l.group = g => (l.role = "PRIMARY" <=> l.event = first)

\* The watermark hides nothing: two events of a device, from two sources and
\* within a window of each other, that were in the table when the last whole
\* pass queried it, and recent enough for its lookback, share a group, however
\* late (up to a window) and in whatever order they were stored and whichever
\* passes failed before (engine.py:101-106).
PairsAreCorrelated ==
    \A a, b \in 1 .. covered.rows :
        /\ rows[a].dev = rows[b].dev /\ rows[a].source # rows[b].source
        /\ rows[b].at - rows[a].at \in 0 .. Window
        /\ covered.since <= rows[a].at /\ rows[b].at <= covered.until
        => \E g \in Groups : {a, b} \subseteq Members(g)

\* The two tables agree: an event's group_id is the newest of its links, or of the
\* updates of it whose link could not be inserted: whatever fails, a pass that is tried
\* again never leaves an event with an older group than the ones it is linked to, nor
\* with one that no update gave it (set_group_id, sqlite.py:386-395).
TablesAgree ==
    IdsAreFresh => \A id \in DOMAIN group :
        LET given == {l.group : l \in {k \in links \cup torn : k.event = id}}
        IN  IF given = {} THEN group[id] = 0
            ELSE group[id] \in given /\ \A g \in given : g <= group[id]

=============================================================================
