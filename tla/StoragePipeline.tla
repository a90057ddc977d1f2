---------------------------- MODULE StoragePipeline ----------------------------
(***************************************************************************)
(* blutruth/runtime.py: from the bus to the two stores.  A writer task     *)
(* takes events from its bus queue and writes each to SQLite and JSONL at  *)
(* once; roll_storage, delete_storage and stop cancel it, close the stores *)
(* and, for the first two, archive or delete the files, open fresh ones    *)
(* and start a new writer.                                                 *)
(*                                                                         *)
(* Bus is EventBus with one subscription per writer, Sink is SqliteSink    *)
(* with the writers' sqlite.write child tasks as clients and the           *)
(* controllers (web requests and stop) as closers.  A step is what one     *)
(* task does between two awaits; cancelling a task and its reaction, which *)
(* awaits nothing but its drain, are one step.                             *)
(***************************************************************************)
EXTENDS Integers, Sequences, FiniteSets

CONSTANTS Writers,       \* writer tasks, in the order they may be created
          Requests,      \* POST /v1/storage/roll and /v1/storage/delete
          Kind,          \* Kind[r]: "roll" or "delete"
          Stop,          \* the task in Runtime.stop
          Flusher, Free, NoRow, None,
          BatchSize,     \* batch_size of the SQLite sink
          QueueSize,     \* max_queue of the writer's subscription
          SwallowsCancel,  \* asyncio before 3.12: wait_for returns a value it
                         \* already has instead of being cancelled
          MaxPublished, MaxFailures, MaxClock   \* bounds, MaxPublished with one
                         \* event for each request to announce itself

Controllers == Requests \cup {Stop}

\* A row is an event with the session it was stamped with; sessions are told
\* apart by the connection that made them, as their ids start over at 1 in a
\* fresh file.
Sessions == 1 .. Cardinality(Requests) + 1
Rows == (1 .. MaxPublished) \X (Sessions \cup {None})

ASSUME PipelineAssumption ==
    /\ IsFiniteSet(Requests)
    /\ Writers = 1 .. Cardinality(Requests) + 1
    /\ Kind \in [Requests -> {"roll", "delete"}]
    /\ Stop \notin Requests
    /\ SwallowsCancel \in BOOLEAN
    /\ MaxPublished \in Nat /\ MaxFailures \in Nat /\ MaxClock \in Nat \ {0}
    /\ QueueSize \in Nat \ {0} /\ BatchSize \in Nat \ {0}
    /\ NoRow \notin Rows /\ None \notin Sessions
    /\ Writers \cap Controllers = {}
    /\ Flusher \notin Writers \cup Controllers
    /\ Free \notin Writers \cup Controllers \cup {Flusher}

VARIABLES subscribed, queue, published, dropped, lastWarn, joined, taken, missed
VARIABLES db, conn, flushTask, buffer, lock, call, pending, jobs, table,
          uncommitted, lost, orphaned

busVars == <<subscribed, queue, published, dropped, lastWarn, joined, taken,
             missed>>
sinkVars == <<db, conn, flushTask, buffer, lock, call, pending, jobs, table,
              uncommitted, lost, orphaned>>

Bus == INSTANCE EventBus WITH
    Subscribers <- Writers,
    Capacity <- [w \in Writers |-> QueueSize],
    WarnInterval <- 100

Sink == INSTANCE SqliteSink WITH
    Clients <- Writers,
    Closers <- Controllers,
    Row <- Rows

VARIABLES
    booted,          \* Runtime.start got past creating the writer task
    collecting,      \* collectors are publishing
    stopping,        \* _stop_event
    writerTask,      \* _writer_task
    sessionId,       \* Runtime._session_id
    active,          \* SqliteSink._active_session_id
    pc,              \* where each writer task is
    sqlChild,        \* its sqlite.write child: "none", "new", "running", "done"
    jsonChild,       \* its jsonl.write child: "none", "new", "done"
    jsonOpen,        \* JsonlSink._fp is open
    lines,           \* the events in the live JSONL file
    ctl,             \* where each controller is
    target,          \* the writer a controller cancelled and awaits
    stamp,           \* the second a request names its backups with
    clock,           \* wall clock, in the seconds the backup names show
    archive,         \* archive[s]: SQLite backup named s
    jsonArchive,     \* jsonArchive[s]: JSONL backup named s
    failures,
    cut,             \* history: a writer was cancelled between taking an
                     \* event and its next wait
    overlapped       \* history: a roll or delete began while another was in
                     \* progress; nothing in the code keeps them apart

runVars == <<booted, collecting, stopping, writerTask, sessionId, active>>
writerVars == <<pc, sqlChild, jsonChild, cut>>
fileVars == <<jsonOpen, lines, archive, jsonArchive>>
ctlVars == <<ctl, target, stamp, overlapped>>
envVars == <<clock, failures>>
vars == <<busVars, sinkVars, runVars, writerVars, fileVars, ctlVars, envVars>>

Times == 1 .. MaxClock

Init ==
    /\ Bus!Init /\ Sink!SinkInit
    /\ booted = FALSE /\ collecting = FALSE /\ stopping = FALSE
    /\ writerTask = None /\ sessionId = None /\ active = None
    /\ pc = [w \in Writers |-> "none"]
    /\ sqlChild = [w \in Writers |-> "none"]
    /\ jsonChild = [w \in Writers |-> "none"]
    /\ jsonOpen = FALSE /\ lines = <<>>
    /\ ctl = [c \in Controllers |-> "idle"]
    /\ target = [c \in Controllers |-> None]
    /\ stamp = [c \in Controllers |-> 1]
    /\ clock = 1
    /\ archive = [s \in Times |-> None]
    /\ jsonArchive = [s \in Times |-> None]
    /\ failures = 0 /\ cut = FALSE /\ overlapped = FALSE

Busy(c) == ctl[c] \notin {"idle", "done", "error"}

\* Between _flush returning and a controller's next await nothing else runs.
LoopIsFree == \A c \in Controllers : ctl[c] = "flushing" => ~Sink!Outside(c)

-----------------------------------------------------------------------------
(* Runtime.start *)

\* Open the stores, create the session and the writer task, and publish the
\* size warning: publish does not suspend, so the writer has not run yet.
Boot ==
    /\ ~booted
    /\ booted' = TRUE /\ collecting' = TRUE
    /\ Sink!Start
    /\ jsonOpen' = TRUE
    /\ sessionId' = 1 /\ active' = 1
    /\ writerTask' = 1
    /\ pc' = [pc EXCEPT ![1] = "created"]
    /\ Bus!Publish \/ UNCHANGED busVars
    /\ UNCHANGED <<stopping, sqlChild, jsonChild, cut, lines, archive,
                   jsonArchive, ctlVars, clock, failures>>

\* Any collector, rule or the ingest API publishes an event.
Publish ==
    /\ collecting /\ LoopIsFree
    /\ published < MaxPublished - Cardinality(Requests)
    /\ Bus!Publish
    /\ UNCHANGED <<sinkVars, runVars, writerVars, fileVars, ctlVars, envVars>>

-----------------------------------------------------------------------------
(* Runtime._writer_loop *)

\* The event a writer last took is the one its children write.
Current(w) == taken[w][Len(taken[w])]

\* gather(sqlite.write(event), jsonl.write(event)): two tasks, not yet run.
Gather(w, at) ==
    /\ Bus!Get(w)
    /\ pc' = [pc EXCEPT ![w] = at]
    /\ sqlChild' = [sqlChild EXCEPT ![w] = "new"]
    /\ jsonChild' = [jsonChild EXCEPT ![w] = "new"]

Leave(w) ==
    /\ IF w \in subscribed THEN Bus!Unsubscribe(w) ELSE UNCHANGED busVars
    /\ pc' = [pc EXCEPT ![w] = "ended"]
    /\ UNCHANGED <<sqlChild, jsonChild>>

\* Mutant: what is queued is left there.
DrainNothing(w) == Leave(w)

\* The drain loop: the next queued event, or out and unsubscribe.
Drain(w) == IF queue[w] # <<>> THEN Gather(w, "drain") ELSE Leave(w)

\* The head of the main loop.
LoopHead(w) ==
    IF stopping
    THEN Drain(w)
    ELSE /\ pc' = [pc EXCEPT ![w] = "waiting"]
         /\ UNCHANGED <<busVars, sqlChild, jsonChild>>

Others == <<runVars, fileVars, ctlVars, envVars>>

Fault == failures < MaxFailures /\ failures' = failures + 1

\* The task's first step: subscribe and wait for an event.
WriterStarts(w) ==
    /\ LoopIsFree
    /\ pc[w] = "created"
    /\ Bus!Subscribe(w)
    /\ pc' = [pc EXCEPT ![w] = "waiting"]
    /\ UNCHANGED <<sqlChild, jsonChild, cut, sinkVars, Others>>

\* wait_for gets an event ...
WriterTakes(w) ==
    /\ LoopIsFree
    /\ pc[w] = "waiting" /\ queue[w] # <<>>
    /\ Gather(w, "gather")
    /\ UNCHANGED <<cut, sinkVars, Others>>

\* ... or times out, and the loop looks at the stop event again.
WriterTimesOut(w) ==
    /\ LoopIsFree
    /\ pc[w] = "waiting" /\ queue[w] = <<>>
    /\ stopping
    /\ LoopHead(w)
    /\ UNCHANGED <<cut, sinkVars, Others>>

SqlChildRuns(w) ==
    /\ LoopIsFree
    /\ sqlChild[w] = "new"
    /\ Sink!Write(w, <<Current(w), active>>)
    /\ sqlChild' = [sqlChild EXCEPT ![w] = "running"]
    /\ UNCHANGED <<pc, jsonChild, cut, busVars, Others>>

\* Returned or raised: return_exceptions keeps the exception from the writer.
SqlChildEnds(w) ==
    /\ LoopIsFree
    /\ sqlChild[w] = "running" /\ Sink!Outside(w)
    /\ sqlChild' = [sqlChild EXCEPT ![w] = "done"]
    /\ UNCHANGED <<pc, jsonChild, cut, busVars, sinkVars, Others>>

\* The line is written, unless the file refuses it.
JsonChildRuns(w) ==
    /\ LoopIsFree
    /\ jsonChild[w] = "new"
    /\ jsonChild' = [jsonChild EXCEPT ![w] = "done"]
    /\ \/ /\ lines' = IF jsonOpen THEN Append(lines, Current(w)) ELSE lines
          /\ UNCHANGED failures
       \/ jsonOpen /\ Fault /\ UNCHANGED lines
    /\ UNCHANGED <<pc, sqlChild, cut, busVars, sinkVars, runVars, jsonOpen,
                   archive, jsonArchive, ctlVars, clock>>

WriterGathered(w) ==
    /\ LoopIsFree
    /\ sqlChild[w] = "done" /\ jsonChild[w] = "done"
    /\ \/ pc[w] = "gather" /\ LoopHead(w)
       \/ pc[w] = "drain" /\ Drain(w)
    /\ UNCHANGED <<cut, sinkVars, Others>>

Granted(t) ==
    /\ LoopIsFree
    /\ Sink!Acquire(t)
    /\ UNCHANGED <<busVars, runVars, writerVars, fileVars, ctlVars, envVars>>

PeriodicFlush ==
    /\ LoopIsFree
    /\ Sink!PeriodicFlush
    /\ UNCHANGED <<busVars, runVars, writerVars, fileVars, ctlVars, envVars>>

\* The executor finishes a batch, or finds its connection closed ...
ExecutorAnswers ==
    /\ \E job \in jobs : Sink!Commit(job) \/ Sink!CutOff(job)
    /\ UNCHANGED <<busVars, runVars, writerVars, fileVars, ctlVars, envVars>>

\* ... or the batch raises, after some of its rows or at the commit (database
\* locked).
ExecutorRaises ==
    /\ Fault
    /\ \E job \in jobs : \E n \in 0 .. Len(job.rows) : Sink!Raise(job, n)
    /\ UNCHANGED <<busVars, runVars, writerVars, fileVars, ctlVars, clock>>

\* A session, group ids or a purge are committed on the same connection.
CommitsElsewhere ==
    /\ Sink!CommitElsewhere
    /\ UNCHANGED <<busVars, runVars, writerVars, fileVars, ctlVars, envVars>>

\* cancel(): a writer that waits for an event breaks out and drains, or goes on
\* with the event that was there already; one that waits for its children takes
\* them down with it, drains nothing and leaves.
InWrite(w) == pc[w] \in {"gather", "drain"}

CancelWriter(w) ==
    \/ /\ pc[w] = "created"
       /\ pc' = [pc EXCEPT ![w] = "ended"]
       /\ UNCHANGED <<busVars, sinkVars, sqlChild, jsonChild, cut>>
    \/ /\ pc[w] = "waiting"
       /\ \/ Drain(w)
          \/ SwallowsCancel /\ queue[w] # <<>> /\ Gather(w, "gather")
       /\ UNCHANGED <<sinkVars, cut>>
    \/ /\ InWrite(w)
       /\ cut' = TRUE
       /\ IF w \in subscribed THEN Bus!Unsubscribe(w) ELSE UNCHANGED busVars
       /\ pc' = [pc EXCEPT ![w] = "ended"]
       /\ sqlChild' = [sqlChild EXCEPT ![w] = "done"]
       /\ jsonChild' = [jsonChild EXCEPT ![w] = "done"]
       /\ IF call[w] \in {"lock", "job"} THEN Sink!Cancel(w)
                                         ELSE UNCHANGED sinkVars
    \/ /\ pc[w] = "ended"
       /\ UNCHANGED <<busVars, sinkVars, writerVars>>

-----------------------------------------------------------------------------
(* roll_storage, delete_storage and stop *)

Goto(c, place) == ctl' = [ctl EXCEPT ![c] = place]

\* Mutant: the writer is forgotten, not cancelled.
CancelNobody(c) ==
    /\ Goto(c, "writerGone")
    /\ UNCHANGED <<target, busVars, sinkVars, writerVars>>

\* cancel and await the writer task, or find none.
CancelCurrent(c) ==
    IF writerTask = None
    THEN /\ Goto(c, "writerGone")
         /\ UNCHANGED <<target, busVars, sinkVars, writerVars>>
    ELSE /\ CancelWriter(writerTask)
         /\ target' = [target EXCEPT ![c] = writerTask]
         /\ Goto(c, "awaiting")

\* The handler starts: it names the backups after the current second.  Neither
\* it nor the web server asks whether another is in progress.
RequestBegins(r) ==
    /\ booted /\ ~stopping /\ LoopIsFree
    /\ ctl[r] = "idle"
    /\ overlapped' = (overlapped \/ \E q \in Requests : Busy(q))
    /\ CancelCurrent(r)
    /\ stamp' = [stamp EXCEPT ![r] = clock]
    /\ UNCHANGED <<runVars, fileVars, envVars>>

\* The web server finishes its requests before Runtime.stop is called.
StopBegins ==
    /\ booted /\ ~stopping /\ LoopIsFree
    /\ \A r \in Requests : ~Busy(r)
    /\ stopping' = TRUE
    /\ Goto(Stop, "collectors")
    /\ UNCHANGED <<busVars, sinkVars, booted, collecting, writerTask, sessionId,
                   active, writerVars, fileVars, target, stamp, overlapped, envVars>>

\* The config watcher, rules, correlation and collectors are stopped.
CollectorsStopped ==
    /\ LoopIsFree
    /\ ctl[Stop] = "collectors"
    /\ collecting' = FALSE
    /\ CancelCurrent(Stop)
    /\ UNCHANGED <<booted, stopping, writerTask, sessionId, active, fileVars,
                   stamp, overlapped, envVars>>

\* The awaited writer has ended.
WriterAwaited(c) ==
    /\ LoopIsFree
    /\ ctl[c] = "awaiting" /\ pc[target[c]] = "ended"
    /\ writerTask' = IF c = Stop THEN writerTask ELSE None
    /\ Goto(c, "writerGone")
    /\ UNCHANGED <<busVars, sinkVars, booted, collecting, stopping, sessionId,
                   active, writerVars, fileVars, target, stamp, overlapped, envVars>>

\* The session, if there is one, has been ended (end_session waits for the
\* executor); then the sink begins to stop.  Of two requests that overlap the
\* other may have changed the session meanwhile, so that this is no longer it.
SessionEnded(c) ==
    /\ LoopIsFree
    /\ ctl[c] = "writerGone"
    /\ \/ active' = IF db /\ active = sessionId THEN None ELSE active
       \/ overlapped /\ UNCHANGED active
    /\ sessionId' = IF c = Stop THEN sessionId ELSE None
    /\ \/ Sink!StopFlushTask /\ Goto(c, "stopping")
       \/ Sink!StopRaises /\ Goto(c, "error") /\ UNCHANGED sinkVars
    /\ UNCHANGED <<busVars, booted, collecting, stopping, writerTask,
                   writerVars, fileVars, target, stamp, overlapped, envVars>>

\* end_session or create_session raises, for a fault of the store or, of
\* requests that overlap, because the other has closed the connection: the
\* exception ends the controller.
SessionRaises(c) ==
    /\ LoopIsFree
    /\ ctl[c] \in {"writerGone", "creating"}
    /\ \/ /\ db /\ ctl[c] = "writerGone" => sessionId # None
          /\ Fault
       \/ overlapped /\ UNCHANGED failures
    /\ Goto(c, "error")
    /\ UNCHANGED <<busVars, sinkVars, runVars, writerVars, fileVars, target,
                   stamp, overlapped, clock>>

FlushesRemaining(c) ==
    /\ LoopIsFree
    /\ ctl[c] = "stopping"
    /\ Sink!Flush(c)
    /\ Goto(c, "flushing")
    /\ UNCHANGED <<busVars, runVars, writerVars, fileVars, target, stamp,
                   overlapped, envVars>>

\* The final flush raised: the caller gets the exception, the rest is skipped.
FlushRaised(c) ==
    /\ ctl[c] = "flushing" /\ call[c] = "raised"
    /\ Goto(c, "error")
    /\ UNCHANGED <<busVars, sinkVars, runVars, writerVars, fileVars, target,
                   stamp, overlapped, envVars>>

\* Both stores are flushed and closed; nothing reopens them.
StopCloses ==
    /\ ctl[Stop] = "flushing" /\ call[Stop] = "out"
    /\ Sink!Close
    /\ jsonOpen' = FALSE
    /\ Goto(Stop, "done")
    /\ UNCHANGED <<busVars, runVars, writerVars, lines, archive, jsonArchive,
                   target, stamp, overlapped, envVars>>

\* SqliteSink.roll or delete after its flush: close, rename or unlink the live
\* file and open a fresh one; rename replaces a backup of the same name.
SqliteReplaced(r) ==
    /\ ctl[r] = "flushing" /\ call[r] = "out"
    /\ archive' = IF Kind[r] = "roll"
                  THEN [archive EXCEPT ![stamp[r]] = Sink!Committed] ELSE archive
    /\ Sink!Replace

\* JsonlSink.roll or delete as far as the rename or unlink.
JsonlPutAway(r) ==
    /\ jsonArchive' = IF Kind[r] = "roll"
                      THEN [jsonArchive EXCEPT ![stamp[r]] = lines]
                      ELSE jsonArchive
    /\ lines' = <<>>

\* Both stores replaced, all without an await.
FilesReplaced(r) ==
    /\ SqliteReplaced(r)
    /\ JsonlPutAway(r)
    /\ jsonOpen' = TRUE
    /\ Goto(r, "creating")
    /\ UNCHANGED <<busVars, runVars, writerVars, target, stamp, overlapped,
                   envVars>>

\* The live database cannot be renamed or unlinked: its connection stays closed.
RenameRaises(r) ==
    /\ ctl[r] = "flushing" /\ call[r] = "out"
    /\ Sink!Close
    /\ Fault
    /\ Goto(r, "error")
    /\ UNCHANGED <<busVars, runVars, writerVars, fileVars, target, stamp,
                   overlapped, clock>>

\* The database is fresh when the JSONL file cannot be renamed or unlinked, or
\* not be opened again, or is missing since an earlier open failed.
JsonlRaises(r) ==
    /\ SqliteReplaced(r)
    /\ jsonOpen' = FALSE
    /\ \/ Fault /\ UNCHANGED <<lines, jsonArchive>>
       \/ Fault /\ JsonlPutAway(r)
       \/ /\ Kind[r] = "roll" /\ ~jsonOpen /\ lines = <<>>
          /\ UNCHANGED <<lines, jsonArchive, failures>>
    /\ Goto(r, "error")
    /\ UNCHANGED <<busVars, runVars, writerVars, target, stamp, overlapped,
                   clock>>

\* Mutant: the sink goes on stamping with what it had.
SessionCreatedUnstamped ==
    /\ sessionId' = conn
    /\ UNCHANGED active

\* create_session: the id of the fresh file's row, for the runtime and the
\* stamp.  Of requests that overlap the other may have put that file away.
SessionCreated ==
    \E s \in Sessions :
        /\ s = conn \/ (overlapped /\ s < conn)
        /\ sessionId' = s /\ active' = s

\* create_session has answered: a new writer task, and STORAGE_ROLLED or
\* STORAGE_DELETED is published before it can run.
RequestEnds(r) ==
    /\ LoopIsFree
    /\ ctl[r] = "creating"
    /\ SessionCreated
    /\ \E w \in Writers :
          /\ pc[w] = "none" /\ \A v \in 1 .. w - 1 : pc[v] # "none"
          /\ writerTask' = w
          /\ pc' = [pc EXCEPT ![w] = "created"]
    /\ Bus!Publish
    /\ Goto(r, "done")
    /\ UNCHANGED <<sinkVars, booted, collecting, stopping, sqlChild, jsonChild,
                   cut, fileVars, target, stamp, overlapped, envVars>>

ClockTicks ==
    /\ clock < MaxClock
    /\ clock' = clock + 1
    /\ UNCHANGED <<busVars, sinkVars, runVars, writerVars, fileVars, ctlVars,
                   failures>>

-----------------------------------------------------------------------------
WriterStep(w) ==
    \/ WriterStarts(w) \/ WriterTakes(w) \/ WriterTimesOut(w)
    \/ SqlChildRuns(w) \/ SqlChildEnds(w) \/ JsonChildRuns(w)
    \/ WriterGathered(w)

ControllerStep(c) ==
    \/ WriterAwaited(c) \/ SessionEnded(c) \/ FlushesRemaining(c)
    \/ SessionRaises(c) \/ FlushRaised(c)
    \/ c \in Requests /\ (\/ FilesReplaced(c) \/ RenameRaises(c)
                          \/ JsonlRaises(c) \/ RequestEnds(c))
    \/ c = Stop /\ (CollectorsStopped \/ StopCloses)

Next ==
    \/ Boot \/ Publish \/ PeriodicFlush \/ ClockTicks
    \/ ExecutorAnswers \/ ExecutorRaises \/ CommitsElsewhere
    \/ \E w \in Writers : WriterStep(w)
    \/ \E t \in Writers \cup Controllers \cup {Flusher} : Granted(t)
    \/ StopBegins
    \/ \E r \in Requests : RequestBegins(r)
    \/ \E c \in Controllers : ControllerStep(c)

Spec == Init /\ [][Next]_vars

\* Every ready task runs and the executor answers.  Nobody has to publish,
\* tick, roll or stop.
FairSpec ==
    /\ Spec
    /\ WF_vars(ExecutorAnswers)
    /\ \A w \in Writers : WF_vars(WriterStep(w))
    /\ \A c \in Controllers : WF_vars(ControllerStep(c))
    /\ \A t \in Writers \cup Controllers \cup {Flusher} : SF_vars(Granted(t))

-----------------------------------------------------------------------------
Places == {"idle", "collectors", "awaiting", "writerGone", "stopping",
           "flushing", "creating", "done", "error"}

\* Types of the state.
TypeOK ==
    /\ Bus!TypeOK /\ Sink!SinkTypeOK
    /\ \A b \in {booted, collecting, stopping, jsonOpen, cut, overlapped} : b \in BOOLEAN
    /\ writerTask \in Writers \cup {None}
    /\ sessionId \in Sessions \cup {None} /\ active \in Sessions \cup {None}
    /\ pc \in [Writers -> {"none", "created", "waiting", "gather", "drain", "ended"}]
    /\ sqlChild \in [Writers -> {"none", "new", "running", "done"}]
    /\ jsonChild \in [Writers -> {"none", "new", "done"}]
    /\ lines \in Seq(1 .. MaxPublished)
    /\ ctl \in [Controllers -> Places]
    /\ target \in [Controllers -> Writers \cup {None}]
    /\ stamp \in [Controllers -> Times] /\ clock \in Times
    /\ \A s \in Times : archive[s] = None \/ archive[s] \in Seq(Rows)
    /\ \A s \in Times : jsonArchive[s] = None \/ jsonArchive[s] \in Seq(1 .. MaxPublished)
    /\ failures \in 0 .. MaxFailures

\* The rows of every place an event can be in on its way to, or in, SQLite,
\* and the lines of every JSONL file: each place with its sequence.
SqlPlaces ==
    {<<"live", 0, table>>, <<"buffer", 0, buffer>>}
    \cup {<<"job", job.by, job.rows>> : job \in jobs}
    \cup {<<"pending", t, <<pending[t]>>>> :
             t \in {u \in Sink!Tasks : pending[u] # NoRow}}
    \cup {<<"backup", s, archive[s]>> : s \in {u \in Times : archive[u] # None}}

JsonPlaces ==
    {<<"live", 0, lines>>}
    \cup {<<"backup", s, jsonArchive[s]>> :
             s \in {u \in Times : jsonArchive[u] # None}}

\* Where the entries that IsOf recognises are, over all the places.
Copies(places, IsOf(_)) ==
    UNION {{<<place[1], place[2], i>> :
              i \in {j \in 1 .. Len(place[3]) : IsOf(place[3][j])}} : place \in places}

SqlCopies(e) == Copies(SqlPlaces, LAMBDA row : row[1] = e)
JsonCopies(e) == Copies(JsonPlaces, LAMBDA line : line = e)

\* No event is stored twice, over the live files and all backups, whatever
\* rolls, deletes and stops come while it is written, as long as no two
\* requests overlap (roll_storage's promise to pause the writer and restart it,
\* runtime.py:404-405).
EachStoredOnce ==
    ~overlapped => \A e \in 1 .. published :
        Cardinality(SqlCopies(e)) <= 1 /\ Cardinality(JsonCopies(e)) <= 1

Ascending(seq) == \A i, j \in 1 .. Len(seq) : i < j => seq[i] < seq[j]
Events(rows) == [i \in 1 .. Len(rows) |-> rows[i][1]]

\* As long as no two requests overlap, both live files list events in the order
\* they were published, and a row is not behind a newer one in the buffer,
\* unless a cancelled task's batch was left running.
FilesInOrder ==
    ~overlapped =>
        /\ Ascending(lines)
        /\ ~orphaned => Ascending(Events(table \o buffer))

\* As long as no two requests overlap and no cancelled task's batch was left
\* running, every row carries the session of the file it is in: none is stamped
\* with no session or with the session of a file that was rolled away
\* (runtime.py:109 "create before events start flowing so all events get
\* stamped").
SessionMatchesFile ==
    ~overlapped /\ ~orphaned =>
        /\ \A i \in 1 .. Len(table \o buffer) : (table \o buffer)[i][2] = conn
        /\ \A s \in Times : archive[s] # None =>
              \A i, j \in 1 .. Len(archive[s]) :
                 archive[s][i][2] = archive[s][j][2] /\ archive[s][i][2] # None

StoredBy(e) ==
    /\ \E i \in 1 .. Len(lines) : lines[i] = e
    /\ \E i \in 1 .. Len(table) : table[i][1] = e

AcceptedEvents(w) == {Bus!Stream(w)[i] : i \in 1 .. Len(Bus!Stream(w))}

\* When stop is through, every event the last writer's queue accepted is in
\* both files, if nothing failed, no two requests overlapped and the
\* cancellation did not land on a writer in the middle of a write or on a
\* periodic flush (the drain of runtime.py:319-329).
DrainStoresAll ==
    ctl[Stop] = "done" /\ writerTask # None /\ ~cut /\ ~orphaned /\ ~overlapped
    /\ failures = 0
        => \A e \in AcceptedEvents(writerTask) : StoredBy(e)

\* The same without the condition (runtime.py:297-298 "On stop, drains
\* remaining queued events so both sinks get every event.").
BothSinksGetEveryEvent ==
    ctl[Stop] = "done" /\ writerTask # None
        => \A e \in AcceptedEvents(writerTask) : StoredBy(e)

AliveWriters == {w \in Writers : pc[w] \notin {"none", "ended"}}

\* As long as no two requests overlap, only one writer at a time reads from the
\* bus, and when no request is in progress, none has failed and no stop has
\* come, there is one, the one the runtime knows (runtime.py:404 "Pauses the
\* writer ... restarts the writer").
OneWriter ==
    /\ TypeOK
    /\ ~overlapped =>
          /\ Cardinality(AliveWriters) <= 1
          /\ booted /\ ~stopping
             /\ (\A r \in Requests : ctl[r] \in {"idle", "done"})
             => AliveWriters = {writerTask}

\* The same without the condition (runtime.py:404-405 "Pauses the writer ...
\* creates a new session, restarts the writer.").
OneWriterAlways == Cardinality(AliveWriters) <= 1

\* A stop, a roll or a delete that was begun comes to an end, well or with an
\* error, whatever the writer and the stores were doing (runtime.py:252-293,
\* 400-470).
RequestsComplete ==
    /\ stopping ~> ctl[Stop] \in {"done", "error"}
    /\ \A r \in Requests : Busy(r) ~> ~Busy(r)
=============================================================================
