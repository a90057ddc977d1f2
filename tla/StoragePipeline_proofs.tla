------------------------- MODULE StoragePipeline_proofs -------------------------
(***************************************************************************)
(* From the bus to the two stores, proved for any number of rolls, deletes *)
(* and events, any batch and queue sizes and any faults: what holds of     *)
(* every behaviour, and what holds of it until two requests overlap.       *)
(*                                                                         *)
(* SP and BP are the sink and the bus of the pipeline with their theorems: *)
(* what an operation of theirs does to their own state is taken from       *)
(* SqliteSink_proofs and EventBus_proofs.                                  *)
(***************************************************************************)
EXTENDS StoragePipeline, FiniteSetTheorems, TLAPS

SP == INSTANCE SqliteSink_proofs WITH
    Clients <- Writers,
    Closers <- Controllers,
    Row <- Rows

BP == INSTANCE EventBus_proofs WITH
    Subscribers <- Writers,
    Capacity <- [w \in Writers |-> QueueSize],
    WarnInterval <- 100

-----------------------------------------------------------------------------
\* Who runs: a controller at a time, and a writer only while none of them has
\* seen it end.
Reading == {"waiting", "gather", "drain"}
Alive(w) == pc[w] \notin {"none", "ended"}
Gone == {"writerGone", "stopping", "flushing", "creating"}

\* A stop waits for the requests, and nothing runs before the boot ...
Controls ==
    /\ ~stopping => ctl[Stop] = "idle"
    /\ stopping => \A r \in Requests : ~Busy(r)
    /\ \A r \in Requests : ctl[r] # "collectors"
    /\ ctl[Stop] # "creating"
    /\ ~booted => /\ ~stopping /\ \A c \in Controllers : ctl[c] = "idle"
                  /\ \A w \in Writers : pc[w] = "none"

\* ... but only requests that do not overlap come one at a time.
OneController ==
    /\ Controls
    /\ \A c, d \in Controllers : Busy(c) /\ Busy(d) => c = d

OneAlive ==
    /\ \A w \in Writers : Alive(w) => w = writerTask
    /\ writerTask \in Writers => pc[writerTask] # "none"
    /\ ~booted => writerTask = None /\ \A w \in Writers : pc[w] = "none"
    /\ \A c \in Controllers :
          ctl[c] = "awaiting" => writerTask \in Writers /\ target[c] = writerTask
    /\ \A r \in Requests : ctl[r] \in Gone => writerTask = None
    /\ ctl[Stop] \in Gone \cup {"done", "error"} => \A w \in Writers : ~Alive(w)
    /\ booted /\ ~stopping /\ (\A r \in Requests : ctl[r] \in {"idle", "done"})
         => writerTask \in Writers
            /\ pc[writerTask] \in {"created", "waiting", "gather"}

\* A writer's children live inside its write.
ChildFits(w) ==
    /\ pc[w] \in {"none", "created"}
         => w \notin subscribed /\ queue[w] = <<>> /\ taken[w] = <<>>
    /\ ~InWrite(w) => sqlChild[w] \in {"none", "done"}
                      /\ jsonChild[w] \in {"none", "done"}
    /\ InWrite(w) => taken[w] # <<>>
    /\ call[w] \in {"lock", "job"} => sqlChild[w] = "running"
    /\ w \in subscribed => pc[w] \in Reading

Children == \A w \in Writers : ChildFits(w)

\* A connection for each file that was opened.
Opening == {r \in Requests : ctl[r] \in {"creating", "done", "error"}}
Connections ==
    /\ ~booted => conn = 0 /\ ~db
    /\ booted => conn \in 1 .. 1 + Cardinality(Opening)

-----------------------------------------------------------------------------
\* The stores are open while a writer runs, which stamps what it writes with
\* the file's session; the last flush leaves nothing in the buffer.
OpenRule ==
    /\ writerTask # None /\ ctl[Stop] # "done" => db /\ jsonOpen
    /\ \A r \in Requests : ctl[r] = "creating" => db /\ jsonOpen

StampRule == \A w \in Writers : Alive(w) => active = conn

FlushRule ==
    /\ ~db => buffer = <<>>
    /\ \A c \in Controllers :
          ctl[c] = "flushing" /\ SP!Outside(c) => lock = Free /\ buffer = <<>>
    /\ \A t \in Controllers \cup {Flusher} : pending[t] = NoRow

Stores == OpenRule /\ StampRule /\ FlushRule /\ SP!BufferRule /\ SP!JobsCurrent

Backup(files, s) == IF files[s] = None THEN <<>> ELSE files[s]
In(seq) == {seq[i] : i \in 1 .. Len(seq)}

\* Rows are told apart by their event.
Key == [row \in Rows |-> row[1]]

\* The events that were ever handed to a store.
SqlUsed ==
    SP!Live(Key) \cup SP!KeysLost(Key)
        \cup UNION {SP!KeysOf(Key, Backup(archive, s)) : s \in Times}
JsonUsed == In(lines) \cup UNION {In(Backup(jsonArchive, s)) : s \in Times}

\* They come before those that are still to be written.
MarkFits(w) ==
    /\ pc[w] \in Reading
         => \A i \in 1 .. Len(queue[w]) : SP!Below(SqlUsed \cup JsonUsed, queue[w][i])
    /\ sqlChild[w] = "new" => SP!Below(SqlUsed, Current(w))
    /\ jsonChild[w] = "new" => SP!Below(JsonUsed, Current(w))

Marks ==
    /\ SqlUsed \cup JsonUsed \subseteq 1 .. published
    /\ \A w \in Writers : MarkFits(w)

\* Every event is in one place.
SqlInv ==
    /\ SP!Apart(Key)
    /\ \A s \in Times :
          /\ SP!Distinct(Key, Backup(archive, s))
          /\ SP!KeysOf(Key, Backup(archive, s)) \cap SP!Live(Key) = {}
    /\ \A s, u \in Times : s # u =>
          SP!KeysOf(Key, Backup(archive, s)) \cap SP!KeysOf(Key, Backup(archive, u)) = {}

JsonInv ==
    /\ Ascending(lines)
    /\ \A s \in Times :
          /\ Ascending(Backup(jsonArchive, s))
          /\ In(Backup(jsonArchive, s)) \cap In(lines) = {}
    /\ \A s, u \in Times : s # u =>
          In(Backup(jsonArchive, s)) \cap In(Backup(jsonArchive, u)) = {}

-----------------------------------------------------------------------------
\* Without an orphan every row on its way to the live file carries its session.
Stamped(seq, n) == \A i \in 1 .. Len(seq) : seq[i][2] = n

SessionInv ==
    /\ ~booted => SP!Live(SP!Itself) = {}
    /\ ~orphaned =>
          /\ \A row \in SP!Live(SP!Itself) : row[2] = conn
          /\ \A s \in Times : \E n \in Sessions : Stamped(Backup(archive, s), n)

\* Without an orphan the table comes before the batch or the buffer, and
\* those before the row that waits.
OrderInv == ~orphaned => SP!FileRises(Key) /\ SP!WaitsLast(Key)

\* Without a fault, what the last writer took is on its way to both stores or
\* in them, and a writer that ends has emptied its queue.
NoFault == ~cut /\ ~orphaned /\ failures = 0

TakenFits(w, i) ==
    /\ taken[w][i] \in In(lines) \/ (i = Len(taken[w]) /\ jsonChild[w] = "new")
    /\ taken[w][i] \in SP!Live(Key) \/ (i = Len(taken[w]) /\ sqlChild[w] = "new")

Delivered(w) ==
    /\ pc[w] = "ended" => queue[w] = <<>>
    /\ \A i \in 1 .. Len(taken[w]) : TakenFits(w, i)

DrainInv ==
    NoFault =>
        /\ lost = {} /\ uncommitted = 0
        /\ \A w \in Writers : w = writerTask => Delivered(w)
        /\ ctl[Stop] = "done" => SP!Live(Key) \subseteq SP!KeysOf(Key, table)

-----------------------------------------------------------------------------
(***************************************************************************)
(* What an operation of the sink or of the bus is called in SP and in BP.  *)
(***************************************************************************)
LEMMA SinkFits ==
    /\ SP!SinkAssumption
    /\ SP!Tasks = Writers \cup Controllers \cup {Flusher}
BY PipelineAssumption DEF SP!SinkAssumption, SP!Tasks

LEMMA BusFits == BP!BusAssumption
<1>1. IsFiniteSet(Writers)
  BY PipelineAssumption, FS_CardinalityType, FS_Interval
<1>2. BP!IsFiniteSet(Writers)
  BY <1>1 DEF IsFiniteSet, BP!IsFiniteSet
<1>3. QED  BY <1>2, PipelineAssumption DEF BP!BusAssumption

LEMMA SinkEnters ==
    ASSUME NEW t, NEW row, Sink!Enter(t, row)
    PROVE  SP!Enter(t, row)
BY DEF Sink!Enter, SP!Enter, Sink!Outside, SP!Outside, Sink!Locked, SP!Locked,
       Sink!FlushLocked, SP!FlushLocked, Sink!AppendLocked, SP!AppendLocked

LEMMA SinkAcquires ==
    ASSUME NEW t, Sink!Acquire(t)
    PROVE  SP!Acquire(t)
BY DEF Sink!Acquire, SP!Acquire, Sink!Locked, SP!Locked,
       Sink!FlushLocked, SP!FlushLocked, Sink!AppendLocked, SP!AppendLocked

LEMMA SinkAnswers ==
    ASSUME NEW job
    PROVE  /\ Sink!Commit(job) => SP!Commit(job)
           /\ \A n : Sink!Raise(job, n) => SP!Raise(job, n)
           /\ Sink!CutOff(job) => SP!CutOff(job)
BY DEF Sink!Commit, SP!Commit, Sink!CutOff, SP!CutOff, Sink!Raise, SP!Raise,
       Sink!Answer, SP!Answer, Sink!RowsOf, SP!RowsOf

LEMMA SinkCancels ==
    ASSUME NEW t, Sink!CancelInside(t)
    PROVE  SP!CancelInside(t)
BY DEF Sink!CancelInside, SP!CancelInside, Sink!RowsOf, SP!RowsOf

LEMMA SinkOpens ==
    /\ Sink!Start => SP!Start
    /\ Sink!Replace => SP!Replace
    /\ Sink!Close => SP!Close
    /\ Sink!CommitElsewhere => SP!CommitElsewhere
    /\ Sink!Committed = SP!Committed
BY DEF Sink!Start, SP!Start, Sink!Replace, SP!Replace, Sink!Opened, SP!Opened,
       Sink!Close, SP!Close, Sink!RolledBack, SP!RolledBack, Sink!Committed,
       SP!Committed, Sink!RowsOf, SP!RowsOf, Sink!CommitElsewhere, SP!CommitElsewhere

LEMMA SinkTypes == SP!SinkTypeOK => Sink!SinkTypeOK
BY DEF SP!SinkTypeOK, Sink!SinkTypeOK, SP!Tasks, Sink!Tasks, SP!Job, Sink!Job

LEMMA BusTypes == BP!TypeOK => Bus!TypeOK
BY DEF BP!TypeOK, Bus!TypeOK

\* Every operation of the bus is a step of it.
LEMMA BusMoves ==
    /\ Bus!Publish => BP!Publish
    /\ \A w : Bus!Subscribe(w) => BP!Subscribe(w)
    /\ \A w : Bus!Unsubscribe(w) => BP!Unsubscribe(w)
    /\ \A w : Bus!Get(w) => BP!Get(w)
<1>1. Bus!Publish => BP!Publish
  BY DEF Bus!Publish, BP!Publish, Bus!Receivers, BP!Receivers, Bus!IsFull, BP!IsFull,
         Bus!Refusals, BP!Refusals, Bus!LastWarned, BP!LastWarned,
         Bus!Cardinality, BP!Cardinality
<1>2. QED
  BY <1>1 DEF Bus!Subscribe, BP!Subscribe, Bus!Unsubscribe, BP!Unsubscribe,
              Bus!Get, BP!Get, Bus!counters, BP!counters

-----------------------------------------------------------------------------
(***************************************************************************)
(* The controllers and the writer tasks.                                   *)
(***************************************************************************)
CtlTypes ==
    /\ booted \in BOOLEAN /\ collecting \in BOOLEAN /\ stopping \in BOOLEAN
    /\ jsonOpen \in BOOLEAN /\ cut \in BOOLEAN /\ overlapped \in BOOLEAN
    /\ writerTask \in Writers \cup {None}
    /\ ctl \in [Controllers -> Places]
    /\ target \in [Controllers -> Writers \cup {None}]
    /\ stamp \in [Controllers -> Times] /\ clock \in Times
    /\ failures \in 0 .. MaxFailures

PcTypes ==
    /\ pc \in [Writers -> {"none", "created", "waiting", "gather", "drain", "ended"}]
    /\ sqlChild \in [Writers -> {"none", "new", "running", "done"}]
    /\ jsonChild \in [Writers -> {"none", "new", "done"}]

\* There is a first writer, and a writer is a number.
LEMMA WritersFit ==
    /\ Cardinality(Requests) \in Nat /\ 1 \in Writers /\ None \notin Writers
    /\ Writers = Sessions /\ Writers \subseteq Nat /\ 1 \in Times
BY PipelineAssumption, FS_CardinalityType DEF Sessions, Times

LEMMA InitCtl == Init => CtlTypes /\ PcTypes /\ OneController /\ OneAlive
<1> SUFFICES ASSUME Init PROVE CtlTypes /\ PcTypes /\ OneController /\ OneAlive
  OBVIOUS
<1>0. PcTypes
  BY DEF Init, PcTypes
<1>1. CtlTypes
  <2>1. /\ booted = FALSE /\ collecting = FALSE /\ stopping = FALSE
        /\ jsonOpen = FALSE /\ cut = FALSE /\ overlapped = FALSE /\ writerTask = None
        /\ ctl = [c \in Controllers |-> "idle"]
        /\ target = [c \in Controllers |-> None]
        /\ stamp = [c \in Controllers |-> 1] /\ clock = 1 /\ failures = 0
    BY DEF Init
  <2>2. 0 \in 0 .. MaxFailures
    BY PipelineAssumption
  <2>3. QED  BY <2>1, <2>2, WritersFit DEF CtlTypes, Places
<1>2. OneController
  BY DEF Init, OneController, Controls, Busy, Controllers
<1>3. OneAlive
  BY PipelineAssumption DEF Init, OneAlive, Alive, Gone, Controllers, Sessions
<1>4. QED  BY <1>0, <1>1, <1>2, <1>3

LEMMA StepCtlTypes ==
    ASSUME CtlTypes, [Next]_vars
    PROVE  CtlTypes'
<1> USE PipelineAssumption
    DEF CtlTypes, Places, Times, Goto, Fault, envVars, ctlVars, runVars, fileVars,
        writerVars, Others, Controllers
<1>1. CASE Boot
  BY <1>1, WritersFit DEF Boot
<1>2. CASE Publish \/ PeriodicFlush \/ ExecutorAnswers \/ CommitsElsewhere
  BY <1>2 DEF Publish, PeriodicFlush, ExecutorAnswers, CommitsElsewhere
<1>3. CASE ClockTicks \/ ExecutorRaises
  BY <1>3 DEF ClockTicks, ExecutorRaises
<1>4. ASSUME NEW w \in Writers, WriterStep(w)  PROVE CtlTypes'
  BY <1>4 DEF WriterStep, WriterStarts, WriterTakes, WriterTimesOut, SqlChildRuns,
              SqlChildEnds, JsonChildRuns, WriterGathered
<1>5. ASSUME NEW t, Granted(t)  PROVE CtlTypes'
  BY <1>5 DEF Granted
<1>6. CASE StopBegins
  BY <1>6 DEF StopBegins
<1>7. ASSUME NEW w \in Writers, CancelWriter(w)  PROVE cut' \in BOOLEAN
  BY <1>7 DEF CancelWriter
<1>8. ASSUME NEW c \in Controllers, CancelCurrent(c)
      PROVE  /\ ctl' \in [Controllers -> Places]
             /\ target' \in [Controllers -> Writers \cup {None}]
             /\ cut' \in BOOLEAN
  <2>1. CASE writerTask = None
    BY <1>8, <2>1 DEF CancelCurrent
  <2>2. CASE writerTask # None
    BY <1>7, <1>8, <2>2 DEF CancelCurrent
  <2>3. QED  BY <2>1, <2>2
<1>9. ASSUME NEW r \in Requests, RequestBegins(r)  PROVE CtlTypes'
  <2>1. r \in Controllers /\ CancelCurrent(r) /\ overlapped' \in BOOLEAN
    BY <1>9 DEF RequestBegins
  <2>2. /\ ctl' \in [Controllers -> Places]
        /\ target' \in [Controllers -> Writers \cup {None}]
        /\ cut' \in BOOLEAN
    BY <1>8, <2>1
  <2>3. QED  BY <1>9, <2>1, <2>2 DEF RequestBegins
<1>10. CASE CollectorsStopped
  <2>1. Stop \in Controllers /\ CancelCurrent(Stop)
    BY <1>10 DEF CollectorsStopped
  <2>2. /\ ctl' \in [Controllers -> Places]
        /\ target' \in [Controllers -> Writers \cup {None}]
        /\ cut' \in BOOLEAN
    BY <1>8, <2>1
  <2>3. QED  BY <1>10, <2>2 DEF CollectorsStopped
<1>11. ASSUME NEW c \in Controllers,
              WriterAwaited(c) \/ SessionEnded(c) \/ FlushesRemaining(c)
              \/ SessionRaises(c) \/ FlushRaised(c)
       PROVE  CtlTypes'
  BY <1>11 DEF WriterAwaited, SessionEnded, FlushesRemaining, SessionRaises, FlushRaised
<1>12. ASSUME NEW r \in Requests, FilesReplaced(r) \/ RenameRaises(r) \/ JsonlRaises(r)
       PROVE  CtlTypes'
  <2>1. CASE FilesReplaced(r)
    <3>1. ctl' = [ctl EXCEPT ![r] = "creating"] /\ jsonOpen' = TRUE
          /\ UNCHANGED <<booted, collecting, stopping, cut, writerTask, target,
                         stamp, overlapped, clock, failures>>
      BY <2>1 DEF FilesReplaced
    <3>2. QED  BY <3>1
  <2>2. CASE RenameRaises(r)
    BY <2>2 DEF RenameRaises
  <2>3. CASE JsonlRaises(r)
    <3>1. ctl' = [ctl EXCEPT ![r] = "error"] /\ jsonOpen' = FALSE
          /\ UNCHANGED <<booted, collecting, stopping, cut, writerTask, target,
                         stamp, overlapped, clock>>
      BY <2>3 DEF JsonlRaises
    <3>2. failures' = failures \/ Fault
      BY <2>3 DEF JsonlRaises
    <3>3. failures' \in 0 .. MaxFailures
      BY <3>2
    <3>4. r \in Controllers /\ jsonOpen' \in BOOLEAN
      BY <3>1 DEF Controllers
    <3>5. ctl' \in [Controllers -> Places]
      BY <3>1 DEF Places
    <3>6. QED  BY <3>1, <3>3, <3>4, <3>5
  <2>4. QED  BY <1>12, <2>1, <2>2, <2>3
<1>13. ASSUME NEW r \in Requests, RequestEnds(r)
       PROVE  CtlTypes'
  BY <1>13 DEF RequestEnds
<1>14. CASE StopCloses
  BY <1>14 DEF StopCloses
<1>15. CASE UNCHANGED vars
  BY <1>15 DEF vars
<1>16. QED
  BY <1>1, <1>2, <1>3, <1>4, <1>5, <1>6, <1>9, <1>10, <1>11, <1>12, <1>13, <1>14,
     <1>15 DEF Next, ControllerStep

\* The kinds of steps, as the control of the pipeline sees them: a writer goes
\* on, by itself or cancelled ...
Passes(w, from) ==
    /\ Alive(w)
    /\ \E x \in {"waiting", "gather", "drain", "ended"} :
          /\ pc' = [pc EXCEPT ![w] = x]
          /\ from = "itself" /\ x \in {"drain", "ended"} => stopping \/ pc[w] = "drain"

\* ... a controller cancels the writer there is, or finds none ...
Cancels(c) ==
    \/ /\ writerTask = None /\ Goto(c, "writerGone")
       /\ UNCHANGED <<target, pc>>
    \/ /\ writerTask \in Writers /\ Goto(c, "awaiting")
       /\ target' = [target EXCEPT ![c] = writerTask]
       /\ Passes(writerTask, "cancel") \/ UNCHANGED pc

\* ... or, when the writer has ended, goes on until it is through.
Proceeds(c) ==
    /\ ctl[c] \in Gone
    /\ \E x \in {"stopping", "flushing", "error"}
                  \cup (IF c = Stop THEN {"done"} ELSE {"creating"}) :
          /\ Goto(c, x)
          /\ ctl[c] = "creating" => x = "error"
          /\ x = "flushing" => FlushesRemaining(c)
          /\ x = "creating" => FilesReplaced(c)
          /\ x = "done" => StopCloses

Placed == <<ctl, target, booted, stopping, writerTask, pc>>

Moves ==
    \/ UNCHANGED Placed
    \/ /\ Boot /\ ~booted /\ booted' = TRUE /\ writerTask' = 1
       /\ pc' = [pc EXCEPT ![1] = "created"]
       /\ UNCHANGED <<ctl, target, stopping>>
    \/ /\ \E w \in Writers : Passes(w, "itself")
       /\ UNCHANGED <<ctl, target, booted, stopping, writerTask>>
    \/ \E r \in Requests :
          /\ booted /\ ~stopping /\ ctl[r] = "idle"
          /\ ~overlapped' => \A q \in Requests : ~Busy(q)
          /\ Cancels(r)
          /\ UNCHANGED <<booted, stopping, writerTask>>
    \/ /\ booted /\ ~stopping /\ \A r \in Requests : ~Busy(r)
       /\ stopping' = TRUE /\ Goto(Stop, "collectors")
       /\ UNCHANGED <<target, booted, writerTask, pc>>
    \/ /\ ctl[Stop] = "collectors" /\ Cancels(Stop)
       /\ UNCHANGED <<booted, stopping, writerTask>>
    \/ \E c \in Controllers :
          /\ ctl[c] = "awaiting" /\ pc[target[c]] = "ended"
          /\ writerTask' = IF c = Stop THEN writerTask ELSE None
          /\ Goto(c, "writerGone")
          /\ UNCHANGED <<target, booted, stopping, pc>>
    \/ \E c \in Controllers :
          Proceeds(c) /\ UNCHANGED <<target, booted, stopping, writerTask, pc>>
    \/ \E r \in Requests, w \in Writers :
          /\ RequestEnds(r) /\ ctl[r] = "creating" /\ Goto(r, "done")
          /\ pc[w] = "none" /\ writerTask' = w
          /\ pc' = [pc EXCEPT ![w] = "created"]
          /\ UNCHANGED <<target, booted, stopping>>

LEMMA WriterPasses ==
    ASSUME PcTypes, NEW w \in Writers
    PROVE  /\ WriterStep(w) => Passes(w, "itself") \/ UNCHANGED pc
           /\ CancelWriter(w) => Passes(w, "cancel") \/ UNCHANGED pc
<1> USE DEF PcTypes, Passes, Alive
<1>1. CASE WriterStarts(w)
  BY <1>1 DEF WriterStarts
<1>2. CASE WriterTakes(w)
  BY <1>2 DEF WriterTakes, Gather
<1>3. CASE WriterTimesOut(w)
  BY <1>3 DEF WriterTimesOut, LoopHead, Drain, Gather, Leave
<1>4. CASE SqlChildRuns(w) \/ SqlChildEnds(w) \/ JsonChildRuns(w)
  BY <1>4 DEF SqlChildRuns, SqlChildEnds, JsonChildRuns
<1>5. CASE WriterGathered(w)
  BY <1>5 DEF WriterGathered, LoopHead, Drain, Gather, Leave
<1>6. ASSUME CancelWriter(w)  PROVE Passes(w, "cancel") \/ UNCHANGED pc
  BY <1>6 DEF CancelWriter, Drain, Gather, Leave, InWrite, writerVars
<1>7. QED  BY <1>1, <1>2, <1>3, <1>4, <1>5, <1>6 DEF WriterStep

LEMMA ControlMoves ==
    ASSUME CtlTypes, PcTypes, [Next]_vars
    PROVE  Moves
<1> USE DEF Moves, Placed, ctlVars, runVars, writerVars, Others
<1>1. CASE Boot
  BY <1>1 DEF Boot
<1>2. CASE Publish \/ PeriodicFlush \/ ExecutorAnswers \/ ClockTicks \/ ExecutorRaises
           \/ CommitsElsewhere
  BY <1>2 DEF Publish, PeriodicFlush, ExecutorAnswers, ClockTicks, ExecutorRaises,
              CommitsElsewhere
<1>3. ASSUME NEW w \in Writers, WriterStep(w)  PROVE Moves
  <2>1. Passes(w, "itself") \/ UNCHANGED pc
    BY <1>3, WriterPasses
  <2>2. UNCHANGED <<ctl, target, booted, stopping, writerTask>>
    BY <1>3 DEF WriterStep, WriterStarts, WriterTakes, WriterTimesOut, SqlChildRuns,
                SqlChildEnds, JsonChildRuns, WriterGathered
  <2>3. QED  BY <2>1, <2>2
<1>4. ASSUME NEW t, Granted(t)  PROVE Moves
  BY <1>4 DEF Granted
<1>5. CASE StopBegins
  BY <1>5 DEF StopBegins
<1>6. ASSUME NEW c, CancelCurrent(c)  PROVE Cancels(c)
  <2>1. CASE writerTask = None
    BY <1>6, <2>1 DEF CancelCurrent, Cancels
  <2>2. CASE writerTask # None
    <3>1. writerTask \in Writers
      BY <2>2 DEF CtlTypes
    <3>2. /\ CancelWriter(writerTask) /\ Goto(c, "awaiting")
          /\ target' = [target EXCEPT ![c] = writerTask]
      BY <1>6, <2>2 DEF CancelCurrent
    <3>3. QED  BY <3>1, <3>2, WriterPasses DEF Cancels
  <2>3. QED  BY <2>1, <2>2
<1>7. ASSUME NEW r \in Requests, RequestBegins(r)  PROVE Moves
  BY <1>6, <1>7 DEF RequestBegins
<1>8. CASE CollectorsStopped
  BY <1>6, <1>8 DEF CollectorsStopped
<1>9. ASSUME NEW c \in Controllers, WriterAwaited(c)  PROVE Moves
  BY <1>9 DEF WriterAwaited
<1>10. ASSUME NEW c \in Controllers,
              SessionEnded(c) \/ FlushesRemaining(c) \/ SessionRaises(c) \/ FlushRaised(c)
       PROVE  Moves
  <2>1. Proceeds(c) /\ UNCHANGED <<target, booted, stopping, writerTask, pc>>
    BY <1>10 DEF SessionEnded, FlushesRemaining, SessionRaises, FlushRaised, Proceeds, Gone
  <2>2. QED  BY <2>1
<1>11. ASSUME NEW r \in Requests, FilesReplaced(r) \/ RenameRaises(r) \/ JsonlRaises(r)
       PROVE  Moves
  <2>1. r # Stop /\ r \in Controllers
    BY PipelineAssumption DEF Controllers
  <2>2. Proceeds(r) /\ UNCHANGED <<target, booted, stopping, writerTask, pc>>
    BY <1>11, <2>1 DEF FilesReplaced, RenameRaises, JsonlRaises, SqliteReplaced,
                       Proceeds, Gone
  <2>3. QED  BY <2>1, <2>2
<1>12. ASSUME NEW r \in Requests, RequestEnds(r)  PROVE Moves
  BY <1>12 DEF RequestEnds
<1>13. CASE StopCloses
  <2>1. Proceeds(Stop) /\ UNCHANGED <<target, booted, stopping, writerTask, pc>>
    BY <1>13 DEF StopCloses, Proceeds, Gone
  <2>2. QED  BY <2>1 DEF Controllers
<1>14. CASE UNCHANGED vars
  BY <1>14 DEF vars
<1>15. QED
  BY <1>1, <1>2, <1>3, <1>4, <1>5, <1>7, <1>8, <1>9, <1>10, <1>11, <1>12, <1>13,
     <1>14 DEF Next, ControllerStep

\* A history variable that is set stays set.
LEMMA OverlapStays ==
    ASSUME [Next]_vars, ~overlapped'
    PROVE  ~overlapped
<1> USE DEF ctlVars, Others
<1>1. CASE Boot \/ Publish \/ PeriodicFlush \/ ClockTicks \/ ExecutorAnswers
           \/ ExecutorRaises \/ CommitsElsewhere \/ StopBegins \/ CollectorsStopped
  BY <1>1 DEF Boot, Publish, PeriodicFlush, ClockTicks, ExecutorAnswers, ExecutorRaises,
              CommitsElsewhere, StopBegins, CollectorsStopped
<1>2. ASSUME NEW w, WriterStep(w)  PROVE ~overlapped
  BY <1>2 DEF WriterStep, WriterStarts, WriterTakes, WriterTimesOut, SqlChildRuns,
              SqlChildEnds, JsonChildRuns, WriterGathered
<1>3. ASSUME NEW t, Granted(t)  PROVE ~overlapped
  BY <1>3 DEF Granted
<1>4. ASSUME NEW r \in Requests, RequestBegins(r)  PROVE ~overlapped
  BY <1>4 DEF RequestBegins
<1>5. ASSUME NEW c, WriterAwaited(c) \/ SessionEnded(c) \/ FlushesRemaining(c)
                    \/ SessionRaises(c) \/ FlushRaised(c) \/ FilesReplaced(c)
                    \/ RenameRaises(c) \/ JsonlRaises(c) \/ RequestEnds(c) \/ StopCloses
      PROVE  ~overlapped
  BY <1>5 DEF WriterAwaited, SessionEnded, FlushesRemaining, SessionRaises, FlushRaised,
              FilesReplaced, RenameRaises, JsonlRaises, RequestEnds, StopCloses
<1>6. CASE UNCHANGED vars
  BY <1>6 DEF vars
<1>7. QED  BY <1>1, <1>2, <1>3, <1>4, <1>5, <1>6 DEF Next, ControllerStep

\* What a move does to the controllers: requests that do not overlap come one
\* at a time.
LEMMA StepControllers ==
    ASSUME CtlTypes, Controls, Moves
    PROVE  /\ Controls'
           /\ OneController /\ ~overlapped' => OneController'
<1> USE DEF CtlTypes, Goto
<1> DEFINE One == \A c, d \in Controllers : Busy(c) /\ Busy(d) => c = d
<1>0. /\ Stop \in Controllers /\ \A r \in Requests : r \in Controllers /\ r # Stop
      /\ \A c \in Controllers : c = Stop \/ c \in Requests
  BY PipelineAssumption DEF Controllers
<1>i. SUFFICES Controls' /\ (One /\ ~overlapped' => One')
  BY DEF OneController
\* A controller that is in progress goes from one place to the next.
<1>1. ASSUME NEW c \in Controllers, Busy(c), NEW x \in Places, Goto(c, x),
             x # "collectors", x # "idle", x = "creating" => c # Stop, booted,
             UNCHANGED <<booted, stopping>>
      PROVE  Controls' /\ (One => One')
  <2>1. \A d \in Controllers : ctl'[d] = IF d = c THEN x ELSE ctl[d]
    BY <1>1
  <2>2. \A d \in Controllers : Busy(d)' => Busy(d)
    BY <1>1, <2>1 DEF Busy
  <2>3. /\ One => One'
        /\ stopping => \A r \in Requests : ~Busy(r)'
    BY <1>0, <2>2 DEF Controls
  <2>4. ~stopping => ctl'[Stop] = "idle"
    BY <1>0, <1>1, <2>1 DEF Controls, Busy
  <2>5. Controls'
    BY <1>0, <1>1, <2>1, <2>3, <2>4 DEF Controls
  <2>6. QED  BY <2>3, <2>5
<1>2. \A c \in Controllers : Busy(c) => booted
  BY DEF Controls, Busy
<1>3. ASSUME UNCHANGED <<ctl, booted, stopping>>, ~booted => UNCHANGED pc
      PROVE  Controls' /\ (One => One')
  BY <1>3 DEF Controls, Busy
<1>4. ASSUME UNCHANGED <<ctl, stopping>>, booted' = TRUE, ~booted
      PROVE  Controls' /\ (One => One')
  BY <1>4 DEF Controls, Busy
<1>5. ASSUME NEW r \in Requests, booted, ~stopping, ctl[r] = "idle",
             ~overlapped' => \A q \in Requests : ~Busy(q),
             Cancels(r), UNCHANGED <<booted, stopping>>
      PROVE  Controls' /\ (~overlapped' => One')
  <2>1. PICK x \in {"awaiting", "writerGone"} : Goto(r, x)
    BY <1>5 DEF Cancels
  <2>2. \A d \in Controllers : ctl'[d] = IF d = r THEN x ELSE ctl[d]
    BY <1>0, <2>1
  <2>3. ASSUME ~overlapped'  PROVE \A d \in Controllers : Busy(d)' => d = r
    <3>1. ~Busy(Stop)
      BY <1>5 DEF Controls, Busy
    <3>2. QED  BY <1>0, <1>5, <2>2, <2>3, <3>1 DEF Busy
  <2>4. Controls'
    BY <1>0, <1>5, <2>2 DEF Controls
  <2>5. QED  BY <2>3, <2>4
<1>6. ASSUME booted, ~stopping, \A r \in Requests : ~Busy(r), stopping' = TRUE,
             Goto(Stop, "collectors"), booted' = booted
      PROVE  Controls' /\ One'
  <2>1. \A d \in Controllers : ctl'[d] = IF d = Stop THEN "collectors" ELSE ctl[d]
    BY <1>0, <1>6
  <2>2. \A r \in Requests : ~Busy(r)'
    BY <1>0, <1>6, <2>1 DEF Busy
  <2>3. Controls'
    BY <1>0, <1>6, <2>1, <2>2 DEF Controls
  <2>4. QED  BY <1>0, <2>2, <2>3
<1>7. ASSUME ctl[Stop] = "collectors", Cancels(Stop), UNCHANGED <<booted, stopping>>
      PROVE  Controls' /\ (One => One')
  <2>1. PICK x \in {"awaiting", "writerGone"} : Goto(Stop, x)
    BY <1>7 DEF Cancels
  <2>2. Busy(Stop) /\ x \in Places
    BY <1>7, <2>1 DEF Busy, Places
  <2>3. QED  BY <1>0, <1>1, <1>2, <1>7, <2>1, <2>2
<1>8. ASSUME NEW c \in Controllers, ctl[c] = "awaiting", Goto(c, "writerGone"),
             UNCHANGED <<booted, stopping>>
      PROVE  Controls' /\ (One => One')
  <2>1. Busy(c) /\ "writerGone" \in Places
    BY <1>8 DEF Busy, Places
  <2>2. QED  BY <1>1, <1>2, <1>8, <2>1
<1>9. ASSUME NEW c \in Controllers, Proceeds(c), UNCHANGED <<booted, stopping>>
      PROVE  Controls' /\ (One => One')
  <2>1. PICK x \in {"stopping", "flushing", "error", "done", "creating"} :
           Goto(c, x) /\ (x = "creating" => c # Stop)
    BY <1>9 DEF Proceeds
  <2>2. Busy(c) /\ x \in Places
    BY <1>9, <2>1 DEF Proceeds, Busy, Gone, Places
  <2>3. QED  BY <1>1, <1>2, <1>9, <2>1, <2>2
<1>10. ASSUME NEW r \in Requests, ctl[r] = "creating", Goto(r, "done"),
              UNCHANGED <<booted, stopping>>
       PROVE  Controls' /\ (One => One')
  <2>1. Busy(r) /\ "done" \in Places
    BY <1>10 DEF Busy, Places
  <2>2. QED  BY <1>0, <1>1, <1>2, <1>10, <2>1
<1>11. ASSUME NEW w \in Writers, Passes(w, "itself"), UNCHANGED <<ctl, booted, stopping>>
       PROVE  Controls' /\ (One => One')
  <2>1. booted
    BY <1>11 DEF Passes, Alive, Controls
  <2>2. QED  BY <1>3, <1>11, <2>1
<1> HIDE DEF One
<1>12. QED
  BY <1>3, <1>4, <1>5, <1>6, <1>7, <1>8, <1>9, <1>10, <1>11 DEF Moves, Placed

LEMMA StepOneAlive ==
    ASSUME ~overlapped', CtlTypes, PcTypes, OneController, OneAlive, Moves
    PROVE  OneAlive'
<1> USE DEF CtlTypes, PcTypes, Goto
<1>0. /\ Stop \in Controllers /\ \A r \in Requests : r \in Controllers /\ r # Stop
      /\ \A c \in Controllers : c = Stop \/ c \in Requests
      /\ None \notin Writers /\ 1 \in Writers
  BY PipelineAssumption, WritersFit DEF Controllers
<1>1. CASE UNCHANGED Placed
  BY <1>1 DEF OneAlive, Alive, Placed
<1>2. CASE /\ ~booted /\ booted' = TRUE /\ writerTask' = 1
           /\ pc' = [pc EXCEPT ![1] = "created"]
           /\ UNCHANGED <<ctl, target, stopping>>
  <2>1. \A w \in Writers : ~Alive(w)
    BY <1>0, <1>2 DEF OneAlive
  <2>2. \A w \in Writers : pc'[w] = IF w = 1 THEN "created" ELSE pc[w]
    BY <1>0, <1>2
  <2>3. \A c \in Controllers : ctl[c] = "idle"
    BY <1>2 DEF OneController, Controls
  <2>4. QED  BY <1>0, <1>2, <2>1, <2>2, <2>3 DEF OneAlive, Alive, Gone
\* A writer that goes on is the one there is, and stays it.
<1>3. ASSUME NEW w \in Writers, NEW from, Passes(w, from)
      PROVE  /\ w = writerTask /\ pc'[w] # "none"
             /\ \A v \in Writers : v # w => pc'[v] = pc[v] /\ ~Alive(v)
             /\ \A v \in Writers : Alive(v)' => v = writerTask
  BY <1>3 DEF Passes, OneAlive, Alive
<1>4. ASSUME NEW w \in Writers, Passes(w, "itself"),
             UNCHANGED <<ctl, target, booted, stopping, writerTask>>
      PROVE  OneAlive'
  <2>1. Alive(w)
    BY <1>4 DEF Passes
  <2>2. /\ ~(ctl[Stop] \in Gone \cup {"done", "error"}) /\ writerTask \in Writers
    BY <1>3, <1>4, <2>1 DEF OneAlive
  <2>3. ASSUME booted, ~stopping, \A r \in Requests : ctl[r] \in {"idle", "done"}
        PROVE  pc'[writerTask] \in {"created", "waiting", "gather"}
    <3>1. pc[w] # "drain"
      BY <1>3, <1>4, <2>3 DEF OneAlive
    <3>2. QED  BY <1>3, <1>4, <2>3, <3>1 DEF Passes
  <2>4. QED  BY <1>0, <1>3, <1>4, <2>2, <2>3 DEF OneAlive
\* A controller cancels.
<1>5. ASSUME NEW c \in Controllers, Cancels(c), ctl[c] \in {"idle", "collectors"},
             c = Stop => ctl[c] = "collectors", c # Stop => ~stopping,
             UNCHANGED <<booted, stopping, writerTask>>, booted
      PROVE  OneAlive'
  <2>1. CASE /\ writerTask = None /\ Goto(c, "writerGone")
             /\ UNCHANGED <<target, pc>>
    <3>1. \A w \in Writers : ~Alive(w) /\ ~Alive(w)'
      BY <1>0, <2>1 DEF OneAlive, Alive
    <3>2. \A d \in Controllers : ctl'[d] = IF d = c THEN "writerGone" ELSE ctl[d]
      BY <2>1
    <3>3. ~((\A r \in Requests : ctl'[r] \in {"idle", "done"}) /\ ~stopping')
      BY <1>0, <1>5, <3>2 DEF OneController, Controls
    <3>4. QED  BY <1>0, <1>5, <2>1, <3>1, <3>2, <3>3 DEF OneAlive
  <2>2. CASE /\ writerTask \in Writers /\ Goto(c, "awaiting")
             /\ target' = [target EXCEPT ![c] = writerTask]
             /\ Passes(writerTask, "cancel") \/ UNCHANGED pc
    <3>1. \A d \in Controllers : /\ ctl'[d] = IF d = c THEN "awaiting" ELSE ctl[d]
                                 /\ target'[d] = IF d = c THEN writerTask ELSE target[d]
      BY <2>2
    <3>2. ~((\A r \in Requests : ctl'[r] \in {"idle", "done"}) /\ ~stopping')
      BY <1>0, <1>5, <3>1 DEF OneController, Controls
    <3>3. /\ \A v \in Writers : Alive(v)' => v = writerTask
          /\ pc'[writerTask] # "none"
      <4>1. CASE UNCHANGED pc
        BY <2>2, <4>1 DEF OneAlive, Alive
      <4>2. CASE Passes(writerTask, "cancel")
        BY <1>3, <2>2, <4>2
      <4>3. QED  BY <2>2, <4>1, <4>2
    <3>4. ctl'[Stop] \notin Gone \cup {"done", "error"}
      <4>1. CASE c = Stop
        BY <1>0, <3>1, <4>1 DEF Gone
      <4>2. CASE c # Stop
        BY <1>0, <1>5, <3>1, <4>2 DEF Gone, OneController, Controls
      <4>3. QED  BY <4>1, <4>2
    <3>5. \A r \in Requests : ctl'[r] \in Gone => writerTask = None
      BY <1>0, <3>1 DEF OneAlive, Gone
    <3>6. \A d \in Controllers :
             ctl'[d] = "awaiting" => writerTask \in Writers /\ target'[d] = writerTask
      BY <2>2, <3>1 DEF OneAlive
    <3>7. QED  BY <1>5, <2>2, <3>2, <3>3, <3>4, <3>5, <3>6 DEF OneAlive
  <2>3. QED  BY <1>5, <2>1, <2>2 DEF Cancels
<1>6. CASE /\ booted /\ ~stopping
           /\ stopping' = TRUE /\ Goto(Stop, "collectors")
           /\ UNCHANGED <<target, booted, writerTask, pc>>
  <2>1. \A d \in Controllers : ctl'[d] = IF d = Stop THEN "collectors" ELSE ctl[d]
    BY <1>0, <1>6
  <2>2. QED  BY <1>0, <1>6, <2>1 DEF OneAlive, Alive, Gone
<1>7. ASSUME NEW c \in Controllers, ctl[c] = "awaiting", pc[target[c]] = "ended",
             writerTask' = (IF c = Stop THEN writerTask ELSE None),
             Goto(c, "writerGone"),
             UNCHANGED <<target, booted, stopping, pc>>
      PROVE  OneAlive'
  <2>1. \A d \in Controllers : ctl'[d] = IF d = c THEN "writerGone" ELSE ctl[d]
    BY <1>7
  <2>2. \A w \in Writers : ~Alive(w) /\ ~Alive(w)'
    BY <1>7 DEF OneAlive, Alive
  <2>3. \A d \in Controllers : d # c => ctl[d] \in {"idle", "done", "error"}
    BY <1>7 DEF OneController, Controls, Busy
  <2>4. booted
    BY <1>7 DEF OneController, Controls
  <2>5. ~((\A r \in Requests : ctl'[r] \in {"idle", "done"}) /\ ~stopping')
    BY <1>0, <1>7, <2>1 DEF OneController, Controls
  <2>6. writerTask' \in Writers => pc'[writerTask'] # "none"
    BY <1>0, <1>7 DEF OneAlive
  <2>7. \A d \in Controllers : ctl'[d] # "awaiting"
    BY <2>1, <2>3
  <2>8. \A r \in Requests : ctl'[r] \in Gone => writerTask' = None
    BY <1>0, <1>7, <2>1, <2>3 DEF Gone
  <2>9. QED  BY <1>7, <2>2, <2>4, <2>5, <2>6, <2>7, <2>8 DEF OneAlive
<1>8. ASSUME NEW c \in Controllers, Proceeds(c),
             UNCHANGED <<target, booted, stopping, writerTask, pc>>
      PROVE  OneAlive'
  <2>1. PICK x \in {"stopping", "flushing", "error", "done", "creating"} :
           Goto(c, x) /\ (x = "done" => c = Stop)
    BY <1>8 DEF Proceeds
  <2>2. ctl[c] \in Gone
    BY <1>8 DEF Proceeds
  <2>3. \A d \in Controllers : ctl'[d] = IF d = c THEN x ELSE ctl[d]
    BY <2>1
  <2>4. ~((\A r \in Requests : ctl'[r] \in {"idle", "done"}) /\ ~stopping)
    <3>1. CASE c = Stop
      BY <2>2, <3>1 DEF OneController, Controls, Gone
    <3>2. CASE c # Stop
      BY <1>0, <2>1, <2>3, <3>2
    <3>3. QED  BY <3>1, <3>2
  <2>5. c = Stop => \A w \in Writers : ~Alive(w)
    BY <2>2 DEF OneAlive
  <2>6. c \in Requests => writerTask = None
    BY <2>2 DEF OneAlive
  <2>7. \A d \in Controllers : ctl'[d] = "awaiting" => ctl[d] = "awaiting"
    BY <2>1, <2>3
  <2>8. \A r \in Requests : ctl'[r] \in Gone => writerTask = None
    BY <1>0, <2>3, <2>6 DEF OneAlive
  <2>9. ctl'[Stop] \in Gone \cup {"done", "error"} => \A w \in Writers : ~Alive(w)
    BY <1>0, <2>3, <2>5 DEF OneAlive
  <2>10. \A w \in Writers : Alive(w)' = Alive(w)
    BY <1>8 DEF Alive
  <2>11. QED
    BY <1>8, <2>4, <2>7, <2>8, <2>9, <2>10 DEF OneAlive
<1>9. ASSUME NEW r \in Requests, NEW w \in Writers,
             ctl[r] = "creating", Goto(r, "done"), pc[w] = "none", writerTask' = w,
             pc' = [pc EXCEPT ![w] = "created"],
             UNCHANGED <<target, booted, stopping>>
      PROVE  OneAlive'
  <2>1. \A d \in Controllers : ctl'[d] = IF d = r THEN "done" ELSE ctl[d]
    BY <1>0, <1>9
  <2>2. \A d \in Controllers : d # r => ctl[d] \in {"idle", "done", "error"}
    BY <1>0, <1>9 DEF OneController, Controls, Busy
  <2>3. /\ ctl[Stop] = "idle" /\ booted
    BY <1>0, <1>9, <2>2 DEF OneController, Controls, Busy
  <2>4. \A v \in Writers : pc'[v] = IF v = w THEN "created" ELSE pc[v]
    BY <1>9
  <2>5. writerTask = None
    BY <1>9 DEF OneAlive, Gone
  <2>6. \A v \in Writers : ~Alive(v)
    BY <1>0, <2>5 DEF OneAlive
  <2>7. \A v \in Writers : Alive(v)' => v = w
    BY <2>4, <2>6 DEF Alive
  <2>8. \A d \in Controllers : ctl'[d] \notin Gone \cup {"awaiting"}
    BY <2>1, <2>2 DEF Gone
  <2>9. QED  BY <1>0, <1>9, <2>1, <2>3, <2>4, <2>7, <2>8 DEF OneAlive
<1>10. \A c \in Controllers : Busy(c) => booted
  BY DEF OneController, Controls, Busy
<1>11. ctl[Stop] = "collectors" => booted
  BY DEF OneController, Controls
<1>12. QED
  BY <1>0, <1>1, <1>2, <1>4, <1>5, <1>6, <1>7, <1>8, <1>9, <1>11 DEF Moves

-----------------------------------------------------------------------------
(***************************************************************************)
(* The bus under the pipeline, and the writers' children.                  *)
(***************************************************************************)
BusInv == BP!BusInv /\ BP!StreamInv

\* What a writer's step, or its cancellation, does to the bus.
LEMMA WriterBus ==
    ASSUME NEW w \in Writers, WriterStep(w) \/ CancelWriter(w)
    PROVE  \/ UNCHANGED busVars
           \/ Bus!Subscribe(w) \/ Bus!Unsubscribe(w) \/ Bus!Get(w)
<1>1. \/ Drain(w) \/ LoopHead(w) \/ Leave(w) \/ (\E at : Gather(w, at))
      => UNCHANGED busVars \/ Bus!Unsubscribe(w) \/ Bus!Get(w)
  BY DEF LoopHead, Drain, Gather, Leave
<1>2. ASSUME WriterStep(w)
      PROVE  \/ UNCHANGED busVars
             \/ Bus!Subscribe(w) \/ Bus!Unsubscribe(w) \/ Bus!Get(w)
  BY <1>1, <1>2 DEF WriterStep, WriterStarts, WriterTakes, WriterTimesOut, SqlChildRuns,
                    SqlChildEnds, JsonChildRuns, WriterGathered
<1>3. ASSUME CancelWriter(w)
      PROVE  \/ UNCHANGED busVars
             \/ Bus!Subscribe(w) \/ Bus!Unsubscribe(w) \/ Bus!Get(w)
  BY <1>1, <1>3 DEF CancelWriter
<1>4. QED  BY <1>2, <1>3

LEMMA BusStep ==
    ASSUME CtlTypes, [Next]_vars
    PROVE  [BP!Next]_(BP!busVars)
<1>1. \/ UNCHANGED busVars \/ Bus!Publish
      \/ \E w \in Writers : Bus!Subscribe(w) \/ Bus!Unsubscribe(w) \/ Bus!Get(w)
      => [BP!Next]_(BP!busVars)
  <2>1. UNCHANGED busVars => UNCHANGED BP!busVars
    BY DEF busVars, BP!busVars
  <2>2. QED  BY <2>1, BusMoves DEF BP!Next
<1>2. ASSUME NEW c, CancelCurrent(c)
      PROVE  \/ UNCHANGED busVars
             \/ \E w \in Writers : Bus!Subscribe(w) \/ Bus!Unsubscribe(w) \/ Bus!Get(w)
  <2>1. CASE writerTask = None
    BY <1>2, <2>1 DEF CancelCurrent
  <2>2. CASE writerTask # None
    <3>1. writerTask \in Writers /\ CancelWriter(writerTask)
      BY <1>2, <2>2 DEF CancelCurrent, CtlTypes
    <3>2. QED  BY <3>1, WriterBus
  <2>3. QED  BY <2>1, <2>2
<1>3. \/ UNCHANGED busVars \/ Bus!Publish
      \/ \E w \in Writers : Bus!Subscribe(w) \/ Bus!Unsubscribe(w) \/ Bus!Get(w)
  <2>1. CASE Boot \/ Publish
    BY <2>1 DEF Boot, Publish
  <2>2. CASE PeriodicFlush \/ ClockTicks \/ ExecutorAnswers \/ ExecutorRaises \/ StopBegins
             \/ CommitsElsewhere
    BY <2>2 DEF PeriodicFlush, ClockTicks, ExecutorAnswers, ExecutorRaises, StopBegins,
                CommitsElsewhere
  <2>3. CASE \E w \in Writers : WriterStep(w)
    BY <2>3, WriterBus
  <2>4. CASE \E t \in Writers \cup Controllers \cup {Flusher} : Granted(t)
    BY <2>4 DEF Granted
  <2>5. CASE \E r \in Requests : RequestBegins(r)
    BY <1>2, <2>5 DEF RequestBegins
  <2>6. ASSUME NEW c \in Controllers, ControllerStep(c)
        PROVE  UNCHANGED busVars \/ Bus!Publish
               \/ \E w \in Writers : Bus!Subscribe(w) \/ Bus!Unsubscribe(w) \/ Bus!Get(w)
    <3>1. CASE CollectorsStopped
      BY <1>2, <3>1 DEF CollectorsStopped
    <3>2. CASE \E r \in Requests : \/ FilesReplaced(r) \/ RenameRaises(r)
                                   \/ JsonlRaises(r) \/ RequestEnds(r)
      BY <3>2 DEF FilesReplaced, RenameRaises, JsonlRaises, RequestEnds
    <3>3. CASE ~CollectorsStopped
               /\ ~\E r \in Requests : \/ FilesReplaced(r) \/ RenameRaises(r)
                                       \/ JsonlRaises(r) \/ RequestEnds(r)
      BY <2>6, <3>3 DEF ControllerStep, WriterAwaited, SessionEnded, FlushesRemaining,
                        SessionRaises, FlushRaised, StopCloses
    <3>4. QED  BY <3>1, <3>2, <3>3
  <2>7. CASE UNCHANGED vars
    BY <2>7 DEF vars
  <2>8. QED  BY <2>1, <2>2, <2>3, <2>4, <2>5, <2>6, <2>7 DEF Next
<1>4. QED  BY <1>1, <1>3

LEMMA InitBus == Init => BusInv
<1>1. Bus!Init => BP!Init
  BY DEF Bus!Init, BP!Init
<1>2. BP!BusAssumption
  BY BusFits
<1>3. QED  BY <1>1, <1>2, BP!BusInvInit, BP!StreamInvInit DEF Init, BusInv

LEMMA StepBus ==
    ASSUME CtlTypes, BusInv, [Next]_vars
    PROVE  BusInv'
<1>1. [BP!Next]_(BP!busVars) /\ BP!BusAssumption
  BY BusStep, BusFits
<1>2. BP!BusInv' /\ BP!TypeOK
  BY <1>1, BP!BusInvStep DEF BusInv, BP!BusInv
<1>3. BP!StreamInv'
  BY <1>1, <1>2, BP!StreamInvStep DEF BusInv
<1>4. QED  BY <1>2, <1>3 DEF BusInv

\* What the bus's invariant says of a writer's queue: it continues, in order,
\* what was taken.
LEMMA StreamFacts ==
    ASSUME BusInv, NEW w \in Writers
    PROVE  /\ queue[w] \in Seq(Nat) /\ taken[w] \in Seq(Nat)
           /\ published \in Nat /\ published <= MaxPublished
           /\ \A i \in 1 .. Len(taken[w]) : taken[w][i] \in 1 .. published
           /\ \A i \in 1 .. Len(queue[w]) : queue[w][i] \in 1 .. published
           /\ \A i, j \in 1 .. Len(queue[w]) : i < j => queue[w][i] < queue[w][j]
           /\ taken[w] # <<>> =>
                 /\ Current(w) \in 1 .. published
                 /\ \A i \in 1 .. Len(queue[w]) : Current(w) < queue[w][i]
<1>1. /\ queue[w] \in Seq(Nat) /\ taken[w] \in Seq(Nat)
      /\ published \in Nat /\ published <= MaxPublished
      /\ joined[w] \in Nat
  BY PipelineAssumption DEF BusInv, BP!BusInv, BP!TypeOK
<1> DEFINE t == taken[w]
           q == queue[w]
           s == t \o q
<1>2. /\ \A i, j \in 1 .. Len(s) : i < j => s[i] < s[j]
      /\ \A i \in 1 .. Len(s) : s[i] \in joined[w] + 1 .. published
  BY DEF BusInv, BP!StreamInv, BP!OrderedStreams, BP!InOrder, BP!Stream
<1>0. t \in Seq(Nat) /\ q \in Seq(Nat)
  BY <1>1
<1> HIDE DEF t, q
<1>3. /\ Len(t) \in Nat /\ Len(q) \in Nat /\ Len(s) = Len(t) + Len(q)
      /\ \A i \in 1 .. Len(t) : s[i] = t[i]
      /\ \A i \in 1 .. Len(q) : s[Len(t) + i] = q[i]
  BY <1>0
<1> HIDE DEF s
<1>4. \A i \in 1 .. Len(s) : s[i] \in 1 .. published
  BY <1>1, <1>2
<1>5. \A i \in 1 .. Len(t) : t[i] \in 1 .. published
  BY <1>3, <1>4
<1>6. \A i \in 1 .. Len(q) : Len(t) + i \in 1 .. Len(s)
  BY <1>3
<1>7. \A i \in 1 .. Len(q) : q[i] \in 1 .. published
  BY <1>3, <1>4, <1>6
<1>8. \A i, j \in 1 .. Len(q) : i < j => q[i] < q[j]
  <2>1. TAKE i, j \in 1 .. Len(q)
  <2>2. HAVE i < j
  <2>3. Len(t) + i < Len(t) + j
    BY <1>3, <2>2
  <2>4. QED  BY <1>2, <1>3, <1>6, <2>3
<1>9. ASSUME t # <<>>
      PROVE  /\ t[Len(t)] \in 1 .. published
             /\ \A i \in 1 .. Len(q) : t[Len(t)] < q[i]
  <2>1. Len(t) \in 1 .. Len(t)
    BY <1>1, <1>3, <1>9 DEF t
  <2>2. Len(t) \in 1 .. Len(s)
    BY <1>3, <2>1
  <2>3. ASSUME NEW i \in 1 .. Len(q)  PROVE t[Len(t)] < q[i]
    <3>1. Len(t) < Len(t) + i
      BY <1>3
    <3>2. s[Len(t)] < s[Len(t) + i]
      BY <1>2, <1>6, <2>2, <3>1
    <3>3. QED  BY <1>3, <2>1, <3>2
  <2>4. QED  BY <1>5, <2>1, <2>3
<1>10. QED  BY <1>1, <1>5, <1>7, <1>8, <1>9 DEF Current, t, q

\* A writer takes the head of its queue.
LEMMA GetFacts ==
    ASSUME BusInv, NEW w \in Writers, Bus!Get(w)
    PROVE  /\ queue[w] # <<>> /\ taken'[w] # <<>>
           /\ Len(taken'[w]) = Len(taken[w]) + 1
           /\ \A i \in 1 .. Len(taken[w]) : taken'[w][i] = taken[w][i]
           /\ 1 \in 1 .. Len(queue[w]) /\ Current(w)' = queue[w][1]
           /\ \A i \in 1 .. Len(queue'[w]) :
                 i + 1 \in 1 .. Len(queue[w]) /\ queue'[w][i] = queue[w][i + 1]
           /\ \A v \in Writers : v # w => queue'[v] = queue[v] /\ taken'[v] = taken[v]
           /\ UNCHANGED <<subscribed, published>>
<1>1. /\ queue \in [Writers -> Seq(Nat)] /\ taken \in [Writers -> Seq(Nat)]
  BY DEF BusInv, BP!BusInv, BP!TypeOK
<1>2. /\ queue[w] # <<>>
      /\ taken' = [taken EXCEPT ![w] = Append(@, Head(queue[w]))]
      /\ queue' = [queue EXCEPT ![w] = Tail(@)]
      /\ UNCHANGED <<subscribed, published>>
  BY DEF Bus!Get
<1>3. /\ queue[w] \in Seq(Nat) /\ taken[w] \in Seq(Nat)
      /\ taken'[w] = Append(taken[w], Head(queue[w]))
      /\ queue'[w] = Tail(queue[w])
      /\ \A v \in Writers : v # w => queue'[v] = queue[v] /\ taken'[v] = taken[v]
  BY <1>1, <1>2
<1> DEFINE q == queue[w]
           t == taken[w]
<1>4. /\ Head(q) = q[1] /\ Len(q) \in Nat /\ Len(q) > 0
      /\ Len(Tail(q)) = Len(q) - 1
      /\ \A i \in 1 .. Len(Tail(q)) : Tail(q)[i] = q[i + 1]
  BY <1>2, <1>3
<1>5. /\ Len(t) \in Nat /\ Len(Append(t, Head(q))) = Len(t) + 1
      /\ Append(t, Head(q))[Len(t) + 1] = Head(q)
      /\ \A i \in 1 .. Len(t) : Append(t, Head(q))[i] = t[i]
  BY <1>3, <1>4
<1>6. /\ Len(taken'[w]) = Len(t) + 1 /\ taken'[w][Len(t) + 1] = q[1]
      /\ \A i \in 1 .. Len(t) : taken'[w][i] = t[i]
  BY <1>3, <1>4, <1>5
<1>7. /\ 1 \in 1 .. Len(q)
      /\ \A i \in 1 .. Len(queue'[w]) :
            i + 1 \in 1 .. Len(q) /\ queue'[w][i] = q[i + 1]
  BY <1>3, <1>4
<1>8. Current(w)' = q[1] /\ taken'[w] # <<>>
  BY <1>5, <1>6 DEF Current
<1>9. QED  BY <1>2, <1>3, <1>6, <1>7, <1>8

\* Nobody but a child that is started enters the sink as a writer.
NoneEnters == \A w \in Writers : call'[w] \in {"lock", "job"} => call[w] \in {"lock", "job"}

LEMMA SinkCalls ==
    ASSUME SP!SinkTypeOK
    PROVE  /\ \A t, row : SP!Enter(t, row) /\ t \in SP!Tasks =>
                 \A u \in SP!Tasks : u # t => call'[u] = call[u]
           /\ \A t \in SP!Tasks : SP!Acquire(t) => NoneEnters
           /\ \A job, how : SP!Answer(job, how) /\ how \in {"out", "raised"} => NoneEnters
           /\ \A t \in SP!Tasks : SP!CancelInside(t) => NoneEnters
           /\ SP!Opened => NoneEnters
<1> USE SinkFits DEF SP!SinkTypeOK, NoneEnters
<1>1. ASSUME NEW t \in SP!Tasks, NEW row, SP!Locked(t, row)
      PROVE  \A u \in SP!Tasks : u # t => call'[u] = call[u]
  BY <1>1 DEF SP!Locked, SP!AppendLocked, SP!FlushLocked
<1>2. ASSUME NEW t \in SP!Tasks, NEW row, SP!Enter(t, row)
      PROVE  \A u \in SP!Tasks : u # t => call'[u] = call[u]
  BY <1>1, <1>2 DEF SP!Enter
<1>3. ASSUME NEW t \in SP!Tasks, SP!Acquire(t)  PROVE NoneEnters
  BY <1>1, <1>3 DEF SP!Acquire
<1>4. ASSUME NEW job, NEW how \in {"out", "raised"}, SP!Answer(job, how)
      PROVE  NoneEnters
  BY <1>4 DEF SP!Answer
<1>5. ASSUME NEW t \in SP!Tasks, SP!CancelInside(t)  PROVE NoneEnters
  BY <1>5 DEF SP!CancelInside
<1>6. ASSUME SP!Opened  PROVE NoneEnters
  BY <1>6 DEF SP!Opened
<1>7. QED  BY <1>2, <1>3, <1>4, <1>5, <1>6

LEMMA InitChildren == Init => Children
BY DEF Init, Children, ChildFits, Bus!Init, Sink!SinkInit, Sink!Tasks, InWrite, Reading

LEMMA StepPcTypes ==
    ASSUME CtlTypes, PcTypes, [Next]_vars
    PROVE  PcTypes'
<1> USE DEF PcTypes, writerVars, Others, runVars
<1>1. CASE Boot
  BY <1>1 DEF Boot
<1>2. CASE Publish \/ PeriodicFlush \/ ExecutorAnswers \/ ClockTicks \/ ExecutorRaises
           \/ CommitsElsewhere \/ StopBegins
  BY <1>2 DEF Publish, PeriodicFlush, ExecutorAnswers, ClockTicks, ExecutorRaises,
              CommitsElsewhere, StopBegins
<1>3. ASSUME NEW w \in Writers, Drain(w) \/ LoopHead(w) \/ Gather(w, "gather")
      PROVE  PcTypes'
  BY <1>3 DEF Drain, LoopHead, Gather, Leave
<1>4. ASSUME NEW w \in Writers, WriterStep(w)  PROVE PcTypes'
  <2>1. CASE WriterStarts(w) \/ SqlChildRuns(w) \/ SqlChildEnds(w) \/ JsonChildRuns(w)
    BY <2>1 DEF WriterStarts, SqlChildRuns, SqlChildEnds, JsonChildRuns
  <2>2. CASE WriterTakes(w) \/ WriterTimesOut(w) \/ WriterGathered(w)
    BY <1>3, <2>2 DEF WriterTakes, WriterTimesOut, WriterGathered
  <2>3. QED  BY <1>4, <2>1, <2>2 DEF WriterStep
<1>5. ASSUME NEW w \in Writers, CancelWriter(w)  PROVE PcTypes'
  BY <1>3, <1>5 DEF CancelWriter
<1>6. ASSUME NEW c, CancelCurrent(c)  PROVE PcTypes'
  <2>1. CASE writerTask = None
    BY <1>6, <2>1 DEF CancelCurrent
  <2>2. CASE writerTask # None
    BY <1>5, <1>6, <2>2 DEF CancelCurrent, CtlTypes
  <2>3. QED  BY <2>1, <2>2
<1>7. ASSUME NEW t, Granted(t)  PROVE PcTypes'
  BY <1>7 DEF Granted
<1>8. CASE CollectorsStopped \/ \E r \in Requests : RequestBegins(r)
  BY <1>6, <1>8 DEF CollectorsStopped, RequestBegins
<1>9. ASSUME NEW r \in Requests, RequestEnds(r)  PROVE PcTypes'
  BY <1>9 DEF RequestEnds
<1>10. ASSUME NEW c, WriterAwaited(c) \/ SessionEnded(c) \/ FlushesRemaining(c)
                     \/ SessionRaises(c) \/ FlushRaised(c) \/ FilesReplaced(c)
                     \/ RenameRaises(c) \/ JsonlRaises(c) \/ StopCloses
       PROVE  PcTypes'
  BY <1>10 DEF WriterAwaited, SessionEnded, FlushesRemaining, SessionRaises, FlushRaised,
               FilesReplaced, RenameRaises, JsonlRaises, StopCloses
<1>11. CASE UNCHANGED vars
  BY <1>11 DEF vars
<1>12. QED
  BY <1>1, <1>2, <1>4, <1>7, <1>8, <1>9, <1>10, <1>11 DEF Next, ControllerStep

\* The kinds of steps, as the SQLite store sees them: a row is written, the
\* files are replaced, or it is the store's own business.
Inside ==
    \/ UNCHANGED sinkVars
    \/ LoopIsFree /\ \E t \in Controllers \cup {Flusher} : SP!Enter(t, NoRow)
    \/ LoopIsFree /\ \E t \in SP!Tasks : SP!Acquire(t)
    \/ \E job \in jobs : \/ SP!Commit(job)
                         \/ \E n \in 0 .. Len(job.rows) : SP!Raise(job, n)
    \/ SP!CommitElsewhere
    \/ \E t \in Writers \cup {Flusher} :
          /\ LoopIsFree
          /\ SP!CancelInside(t) /\ flushTask' \in {flushTask, FALSE}
          /\ UNCHANGED <<db, conn, buffer, table, uncommitted>>
    \/ Boot /\ SP!Start
    \/ /\ \E c \in Controllers :
             /\ ctl[c] = "flushing" /\ call[c] = "out"
             /\ Goto(c, IF c = Stop THEN "done" ELSE "error")
       /\ SP!Close

\* Both stores are replaced, or the first of them.
Replaces(r) == FilesReplaced(r) \/ JsonlRaises(r)

SqlKind ==
    \/ \E w \in Writers : SqlChildRuns(w)
    \/ \E r \in Requests : Replaces(r)
    \/ Inside /\ archive' = archive

\* Either way the live database becomes the backup, or goes.
LEMMA ReplacesSqlite ==
    ASSUME NEW r, Replaces(r)
    PROVE  /\ ctl[r] = "flushing" /\ call[r] = "out"
           /\ SP!Replace
           /\ archive' = IF Kind[r] = "roll"
                         THEN [archive EXCEPT ![stamp[r]] = SP!Committed] ELSE archive
           /\ Goto(r, "creating") \/ Goto(r, "error")
           /\ UNCHANGED <<busVars, runVars, writerVars, target, stamp, overlapped, clock>>
<1>1. SqliteReplaced(r)
  BY DEF Replaces, FilesReplaced, JsonlRaises
<1>2. /\ ctl[r] = "flushing" /\ call[r] = "out"
      /\ SP!Replace
      /\ archive' = IF Kind[r] = "roll"
                    THEN [archive EXCEPT ![stamp[r]] = SP!Committed] ELSE archive
  BY <1>1, SinkOpens DEF SqliteReplaced
<1>3. QED  BY <1>2 DEF Replaces, FilesReplaced, JsonlRaises, envVars

LEMMA SinkKinds ==
    ASSUME CtlTypes, SP!SinkInv, [Next]_vars
    PROVE  SqlKind
<1> USE DEF SqlKind, Inside, fileVars, Others
<1>0. SP!Tasks = Writers \cup Controllers \cup {Flusher}
  BY SinkFits
<1>1. CASE Boot
  <2>1. SP!Start /\ archive' = archive
    BY <1>1, SinkOpens DEF Boot
  <2>2. QED  BY <1>1, <2>1
<1>2. CASE Publish \/ ClockTicks \/ StopBegins
  BY <1>2 DEF Publish, ClockTicks, StopBegins
<1>3. CASE PeriodicFlush
  <2>1. Sink!Enter(Flusher, NoRow) /\ archive' = archive /\ LoopIsFree
    BY <1>3 DEF PeriodicFlush, Sink!PeriodicFlush, Sink!Flush
  <2>2. QED  BY <2>1, SinkEnters
<1>4. CASE ExecutorAnswers \/ ExecutorRaises
  <2>1. /\ \E job \in jobs : \/ Sink!Commit(job) \/ Sink!CutOff(job)
                             \/ \E n \in 0 .. Len(job.rows) : Sink!Raise(job, n)
        /\ archive' = archive
    BY <1>4 DEF ExecutorAnswers, ExecutorRaises
  <2>2. ASSUME NEW job \in jobs, Sink!CutOff(job)
        PROVE  0 \in 0 .. Len(job.rows) /\ SP!Raise(job, 0)
    BY <2>2, SinkFits, SinkAnswers, SP!CutOffRaises
  <2>3. \E job \in jobs : \/ SP!Commit(job)
                          \/ \E n \in 0 .. Len(job.rows) : SP!Raise(job, n)
    BY <2>1, <2>2, SinkAnswers
  <2>4. QED  BY <2>1, <2>3
<1>5. ASSUME NEW w \in Writers, WriterStep(w)  PROVE SqlKind
  <2>1. CASE SqlChildRuns(w)
    BY <2>1
  <2>2. CASE ~SqlChildRuns(w)
    <3>1. UNCHANGED sinkVars /\ archive' = archive
      BY <1>5, <2>2 DEF WriterStep, WriterStarts, WriterTakes, WriterTimesOut,
                        SqlChildEnds, JsonChildRuns, WriterGathered
    <3>2. QED  BY <3>1
  <2>3. QED  BY <2>1, <2>2
<1>6. ASSUME NEW t \in Writers \cup Controllers \cup {Flusher}, Granted(t)
      PROVE  SqlKind
  BY <1>0, <1>6, SinkAcquires DEF Granted
\* A writer is cancelled, inside the sink or not.
<1>7. ASSUME NEW w \in Writers, CancelWriter(w), LoopIsFree  PROVE Inside
  <2>1. UNCHANGED sinkVars \/ Sink!Cancel(w)
    BY <1>7 DEF CancelWriter
  <2>2. CASE Sink!Cancel(w)
    <3>1. /\ Sink!CancelInside(w)
          /\ UNCHANGED <<db, conn, flushTask, buffer, table, uncommitted>>
      BY <2>2 DEF Sink!Cancel
    <3>2. SP!CancelInside(w)
      BY <3>1, SinkCancels
    <3>3. QED  BY <1>7, <3>1, <3>2
  <2>3. QED  BY <2>1, <2>2
<1>8. ASSUME NEW c, CancelCurrent(c), LoopIsFree  PROVE Inside
  <2>1. CASE writerTask = None
    BY <1>8, <2>1 DEF CancelCurrent
  <2>2. CASE writerTask # None
    <3>1. writerTask \in Writers /\ CancelWriter(writerTask)
      BY <1>8, <2>2 DEF CancelCurrent, CtlTypes
    <3>2. QED  BY <1>7, <1>8, <3>1
  <2>3. QED  BY <2>1, <2>2
<1>9. CASE CollectorsStopped \/ \E r \in Requests : RequestBegins(r)
  BY <1>8, <1>9 DEF CollectorsStopped, RequestBegins
<1>10. ASSUME NEW c \in Controllers, SessionEnded(c)  PROVE SqlKind
  <2>1. (Sink!StopFlushTask \/ UNCHANGED sinkVars) /\ archive' = archive /\ LoopIsFree
    BY <1>10 DEF SessionEnded
  <2>2. CASE Sink!StopFlushTask
    <3>1. /\ Sink!CancelInside(Flusher) /\ flushTask' = FALSE
          /\ UNCHANGED <<db, conn, buffer, table, uncommitted>>
      BY <2>2 DEF Sink!StopFlushTask
    <3>2. SP!CancelInside(Flusher)
      BY <3>1, SinkCancels
    <3>3. Inside
      BY <2>1, <3>1, <3>2
    <3>4. QED  BY <2>1, <3>3
  <2>3. QED  BY <2>1, <2>2
<1>11. ASSUME NEW c \in Controllers, FlushesRemaining(c)  PROVE SqlKind
  <2>1. Sink!Enter(c, NoRow) /\ archive' = archive /\ LoopIsFree
    BY <1>11 DEF FlushesRemaining, Sink!Flush
  <2>2. QED  BY <2>1, SinkEnters
<1>12. ASSUME NEW c \in Controllers,
              WriterAwaited(c) \/ SessionRaises(c) \/ FlushRaised(c) \/ RequestEnds(c)
       PROVE  SqlKind
  BY <1>12 DEF WriterAwaited, SessionRaises, FlushRaised, RequestEnds
<1>13. ASSUME NEW c \in Controllers,
              StopCloses \/ (c \in Requests /\ RenameRaises(c))
       PROVE  SqlKind
  <2>1. Sink!Close /\ archive' = archive
    BY <1>13 DEF StopCloses, RenameRaises
  <2>2. \E d \in Controllers : /\ ctl[d] = "flushing" /\ call[d] = "out"
                               /\ Goto(d, IF d = Stop THEN "done" ELSE "error")
    <3>1. CASE StopCloses
      <4>1. Stop \in Controllers
        BY DEF Controllers
      <4>2. QED  BY <3>1, <4>1 DEF StopCloses
    <3>2. CASE c \in Requests /\ RenameRaises(c)
      <4>1. c # Stop
        BY <3>2, PipelineAssumption
      <4>2. QED  BY <3>2, <4>1 DEF RenameRaises
    <3>3. QED  BY <1>13, <3>1, <3>2
  <2>3. SP!Close
    BY <2>1, SinkOpens
  <2>4. QED  BY <2>1, <2>2, <2>3
<1>14. CASE UNCHANGED vars
  BY <1>14 DEF vars
<1>15. ASSUME NEW c \in Controllers, ControllerStep(c)  PROVE SqlKind
  BY <1>9, <1>10, <1>11, <1>12, <1>13, <1>15 DEF ControllerStep, Replaces
<1>16. CASE CommitsElsewhere
  BY <1>16, SinkOpens DEF CommitsElsewhere
<1>17. QED
  BY <1>1, <1>2, <1>3, <1>4, <1>5, <1>6, <1>9, <1>14, <1>15, <1>16 DEF Next

\* What leaves a writer alone, but for events that are queued for it.
Spares(w) ==
    /\ pc'[w] = pc[w] /\ sqlChild'[w] = sqlChild[w] /\ jsonChild'[w] = jsonChild[w]
    /\ taken'[w] = taken[w] /\ (w \in subscribed' <=> w \in subscribed)
    /\ w \notin subscribed => queue'[w] = queue[w]

LEMMA SparedFits ==
    ASSUME NEW w \in Writers, ChildFits(w), Spares(w),
           call'[w] \in {"lock", "job"} => call[w] \in {"lock", "job"}
    PROVE  ChildFits(w)'
BY DEF ChildFits, Spares, InWrite

\* What the bus's operations leave alone.
LEMMA BusSpares ==
    ASSUME BusInv
    PROVE  /\ UNCHANGED busVars \/ Bus!Publish =>
                 \A v \in Writers :
                    /\ taken'[v] = taken[v] /\ (v \in subscribed' <=> v \in subscribed)
                    /\ v \notin subscribed => queue'[v] = queue[v]
           /\ \A w \in Writers : Bus!Subscribe(w) \/ Bus!Unsubscribe(w) \/ Bus!Get(w) =>
                 /\ published' = published
                 /\ \A v \in Writers : v # w =>
                       /\ taken'[v] = taken[v] /\ queue'[v] = queue[v]
                       /\ (v \in subscribed' <=> v \in subscribed)
<1>1. /\ queue \in [Writers -> Seq(Nat)] /\ taken \in [Writers -> Seq(Nat)]
  BY DEF BusInv, BP!BusInv, BP!TypeOK
<1>2. Bus!Publish => \A v \in Writers :
         /\ taken' = taken /\ subscribed' = subscribed
         /\ v \notin subscribed => queue'[v] = queue[v]
  BY DEF Bus!Publish, Bus!Receivers
<1>3. UNCHANGED busVars => UNCHANGED <<taken, subscribed, queue>>
  BY DEF busVars
<1>4. ASSUME NEW w \in Writers, Bus!Subscribe(w) \/ Bus!Unsubscribe(w) \/ Bus!Get(w),
             NEW v \in Writers, v # w
      PROVE  /\ taken'[v] = taken[v] /\ queue'[v] = queue[v]
             /\ (v \in subscribed' <=> v \in subscribed)
  BY <1>1, <1>4 DEF Bus!Subscribe, Bus!Unsubscribe, Bus!Get
<1>5. \A w : Bus!Subscribe(w) \/ Bus!Unsubscribe(w) \/ Bus!Get(w)
            => published' = published
  BY DEF Bus!Subscribe, Bus!Unsubscribe, Bus!Get, Bus!counters
<1>6. QED  BY <1>2, <1>3, <1>4, <1>5

\* A writer's step, or its cancellation, spares the others.
LEMMA WriterSpares ==
    ASSUME BusInv, PcTypes, NEW w \in Writers, WriterStep(w) \/ CancelWriter(w),
           NEW v \in Writers, v # w
    PROVE  Spares(v) /\ queue'[v] = queue[v]
<1>1. /\ taken'[v] = taken[v] /\ (v \in subscribed' <=> v \in subscribed)
      /\ queue'[v] = queue[v]
  BY WriterBus, BusSpares DEF busVars
<1> USE DEF PcTypes
<1>2. ASSUME Drain(w) \/ LoopHead(w) \/ Leave(w) \/ Gather(w, "gather")
      PROVE  pc'[v] = pc[v] /\ sqlChild'[v] = sqlChild[v] /\ jsonChild'[v] = jsonChild[v]
  BY <1>2 DEF LoopHead, Drain, Gather, Leave
<1>3. ASSUME WriterStep(w)
      PROVE  pc'[v] = pc[v] /\ sqlChild'[v] = sqlChild[v] /\ jsonChild'[v] = jsonChild[v]
  <2>1. CASE WriterStarts(w) \/ SqlChildRuns(w) \/ SqlChildEnds(w) \/ JsonChildRuns(w)
    BY <2>1 DEF WriterStarts, SqlChildRuns, SqlChildEnds, JsonChildRuns
  <2>2. CASE WriterTakes(w) \/ WriterTimesOut(w) \/ WriterGathered(w)
    BY <1>2, <2>2 DEF WriterTakes, WriterTimesOut, WriterGathered
  <2>3. QED  BY <1>3, <2>1, <2>2 DEF WriterStep
<1>4. ASSUME CancelWriter(w)
      PROVE  pc'[v] = pc[v] /\ sqlChild'[v] = sqlChild[v] /\ jsonChild'[v] = jsonChild[v]
  BY <1>2, <1>4 DEF CancelWriter, writerVars
<1>5. QED  BY <1>1, <1>3, <1>4 DEF Spares

\* The SQLite store's own business is not the writers'.
LEMMA InsideCalls ==
    ASSUME SP!SinkInv, Inside
    PROVE  NoneEnters
<1>0. /\ SP!SinkTypeOK
      /\ \A t \in SP!Tasks : t \in Writers => t \notin Controllers \cup {Flusher}
      /\ SP!Tasks = Writers \cup Controllers \cup {Flusher}
  BY SinkFits, PipelineAssumption DEF SP!SinkInv
<1>1. CASE UNCHANGED call
  BY <1>1 DEF NoneEnters
<1>2. ASSUME NEW t \in Controllers \cup {Flusher}, SP!Enter(t, NoRow)
      PROVE  NoneEnters
  <2>1. \A u \in SP!Tasks : u # t => call'[u] = call[u]
    BY <1>0, <1>2, SinkCalls
  <2>2. QED  BY <1>0, <2>1 DEF NoneEnters
<1>3. ASSUME NEW job \in jobs, SP!Commit(job) \/ \E n : SP!Raise(job, n)
      PROVE  NoneEnters
  <2>1. SP!Answer(job, "out") \/ SP!Answer(job, "raised")
    BY <1>3 DEF SP!Commit, SP!Raise
  <2>2. QED  BY <1>0, <2>1, SinkCalls
<1>4. ASSUME NEW t \in SP!Tasks, SP!Acquire(t) \/ SP!CancelInside(t)
      PROVE  NoneEnters
  BY <1>0, <1>4, SinkCalls
<1>5. CASE SP!Start
  BY <1>0, <1>5, SinkCalls DEF SP!Start
<1>6. QED
  BY <1>0, <1>1, <1>2, <1>3, <1>4, <1>5
  DEF Inside, sinkVars, SP!Close, SP!CommitElsewhere

\* A writer without children goes on to its next event or leaves.
LEMMA WriterGoesOn ==
    ASSUME BusInv, PcTypes, NEW w \in Writers, ChildFits(w),
           sqlChild[w] # "running", sqlChild[w] # "new", jsonChild[w] # "new",
           pc[w] \in Reading, UNCHANGED call,
           Drain(w) \/ LoopHead(w) \/ Gather(w, "gather")
    PROVE  ChildFits(w)'
<1>1. call'[w] \notin {"lock", "job"}
  BY DEF ChildFits
<1>2. ASSUME NEW at \in {"gather", "drain"}, Gather(w, at)  PROVE ChildFits(w)'
  <2>1. taken'[w] # <<>>
    BY <1>2, GetFacts DEF Gather
  <2>2. pc'[w] = at
    BY <1>2 DEF Gather, PcTypes
  <2>3. QED  BY <1>1, <1>2, <2>1, <2>2 DEF ChildFits, InWrite, Reading
<1>3. ASSUME Leave(w)  PROVE ChildFits(w)'
  <2>1. pc'[w] = "ended" /\ UNCHANGED <<sqlChild, jsonChild>> /\ w \notin subscribed'
    BY <1>3 DEF Leave, PcTypes, busVars, Bus!Unsubscribe
  <2>2. QED  BY <1>1, <2>1 DEF ChildFits, InWrite, PcTypes
<1>4. CASE /\ pc' = [pc EXCEPT ![w] = "waiting"]
           /\ UNCHANGED <<busVars, sqlChild, jsonChild>>
  <2>1. pc'[w] = "waiting"
    BY <1>4 DEF PcTypes
  <2>2. QED  BY <1>1, <1>4, <2>1 DEF ChildFits, InWrite, Reading, PcTypes
<1>5. QED  BY <1>2, <1>3, <1>4 DEF LoopHead, Drain

LEMMA WriterFits ==
    ASSUME SP!SinkTypeOK, BusInv, PcTypes, NEW w \in Writers, ChildFits(w),
           WriterStep(w) \/ CancelWriter(w)
    PROVE  ChildFits(w)'
<1>1. CASE WriterStarts(w)
  <2>1. /\ pc[w] = "created" /\ pc'[w] = "waiting"
        /\ UNCHANGED <<sqlChild, jsonChild, sinkVars>>
    BY <1>1 DEF WriterStarts, PcTypes
  <2>2. QED  BY <2>1 DEF ChildFits, InWrite, Reading, PcTypes, sinkVars
<1>2. CASE WriterTakes(w) \/ WriterTimesOut(w)
  <2>1. /\ pc[w] = "waiting" /\ UNCHANGED call
        /\ Gather(w, "gather") \/ LoopHead(w)
    BY <1>2 DEF WriterTakes, WriterTimesOut, sinkVars
  <2>2. pc[w] \in Reading /\ ~InWrite(w)
    BY <2>1 DEF Reading, InWrite
  <2>3. sqlChild[w] # "running" /\ sqlChild[w] # "new" /\ jsonChild[w] # "new"
    BY <2>2 DEF ChildFits
  <2>4. QED  BY <2>1, <2>2, <2>3, WriterGoesOn
<1>3. CASE WriterGathered(w)
  <2>1. /\ pc[w] \in Reading /\ UNCHANGED call
        /\ sqlChild[w] = "done" /\ jsonChild[w] = "done"
        /\ Drain(w) \/ LoopHead(w)
    BY <1>3 DEF WriterGathered, sinkVars, Reading
  <2>2. QED  BY <2>1, WriterGoesOn
<1>4. CASE SqlChildRuns(w) \/ SqlChildEnds(w) \/ JsonChildRuns(w)
  <2>1. /\ pc' = pc /\ UNCHANGED busVars
        /\ sqlChild[w] \in {"new", "running"} \/ jsonChild[w] = "new"
        /\ sqlChild'[w] \in {sqlChild[w], "running", "done"}
        /\ jsonChild'[w] \in {jsonChild[w], "done"}
        /\ call'[w] \in {"lock", "job"} => sqlChild'[w] = "running"
    <3>1. CASE SqlChildRuns(w)
      BY <3>1 DEF SqlChildRuns, PcTypes
    <3>2. CASE SqlChildEnds(w)
      BY <3>2 DEF SqlChildEnds, PcTypes, sinkVars, Sink!Outside
    <3>3. CASE JsonChildRuns(w)
      BY <3>3 DEF JsonChildRuns, PcTypes, sinkVars, ChildFits
    <3>4. QED  BY <1>4, <3>1, <3>2, <3>3
  <2>2. InWrite(w) /\ UNCHANGED <<subscribed, queue, taken>>
    BY <2>1 DEF ChildFits, busVars
  <2>3. QED  BY <2>1, <2>2 DEF ChildFits, InWrite
<1>5. CASE CancelWriter(w)
  <2>1. CASE pc[w] = "waiting" /\ UNCHANGED call /\ (Drain(w) \/ Gather(w, "gather"))
    <3>1. pc[w] \in Reading /\ ~InWrite(w)
      BY <2>1 DEF Reading, InWrite
    <3>2. sqlChild[w] # "running" /\ sqlChild[w] # "new" /\ jsonChild[w] # "new"
      BY <3>1 DEF ChildFits
    <3>3. QED  BY <2>1, <3>1, <3>2, WriterGoesOn
  <2>2. CASE /\ pc[w] = "created"
             /\ pc' = [pc EXCEPT ![w] = "ended"]
             /\ UNCHANGED <<busVars, sinkVars, sqlChild, jsonChild, cut>>
    <3>1. pc'[w] = "ended"
      BY <2>2 DEF PcTypes
    <3>2. QED  BY <2>2, <3>1 DEF ChildFits, InWrite, busVars, sinkVars
  <2>3. CASE /\ InWrite(w)
             /\ IF w \in subscribed THEN Bus!Unsubscribe(w) ELSE UNCHANGED busVars
             /\ pc' = [pc EXCEPT ![w] = "ended"]
             /\ sqlChild' = [sqlChild EXCEPT ![w] = "done"]
             /\ jsonChild' = [jsonChild EXCEPT ![w] = "done"]
             /\ IF call[w] \in {"lock", "job"} THEN Sink!Cancel(w)
                                               ELSE UNCHANGED sinkVars
    <3>1. /\ pc'[w] = "ended" /\ sqlChild'[w] = "done" /\ jsonChild'[w] = "done"
          /\ w \notin subscribed'
      BY <2>3 DEF PcTypes, busVars, Bus!Unsubscribe
    <3>2. call'[w] \notin {"lock", "job"}
      BY <2>3, SinkFits DEF sinkVars, Sink!Cancel, Sink!CancelInside, SP!SinkTypeOK
    <3>3. QED  BY <3>1, <3>2 DEF ChildFits, InWrite
  <2>4. CASE UNCHANGED <<busVars, sinkVars, writerVars>>
    BY <2>4 DEF ChildFits, InWrite, busVars, sinkVars, writerVars
  <2>5. QED  BY <1>5, <2>1, <2>2, <2>3, <2>4 DEF CancelWriter, sinkVars
<1>6. QED  BY <1>1, <1>2, <1>3, <1>4, <1>5 DEF WriterStep

\* Nobody but a child that is started enters the sink as a writer.
LEMMA OneEnters ==
    ASSUME SP!SinkInv, SqlKind, NEW w \in Writers, call'[w] \in {"lock", "job"}
    PROVE  call[w] \in {"lock", "job"} \/ SqlChildRuns(w)
<1>0. /\ SP!SinkTypeOK /\ w \in SP!Tasks
      /\ \A v \in Writers : v \in SP!Tasks
  BY SinkFits DEF SP!SinkInv
<1>1. CASE Inside
  BY <1>1, InsideCalls DEF NoneEnters
<1>2. ASSUME NEW v \in Writers, SqlChildRuns(v)
      PROVE  call[w] \in {"lock", "job"} \/ SqlChildRuns(w)
  <2>1. SP!Enter(v, <<Current(v), active>>)
    BY <1>2, SinkEnters DEF SqlChildRuns, Sink!Write
  <2>2. v # w => call'[w] = call[w]
    BY <1>0, <2>1, SinkCalls
  <2>3. QED  BY <1>2, <2>2
<1>3. ASSUME NEW r \in Requests, Replaces(r)
      PROVE  call[w] \in {"lock", "job"}
  <2>1. SP!Opened
    BY <1>3, ReplacesSqlite DEF SP!Replace
  <2>2. QED  BY <1>0, <2>1, SinkCalls DEF NoneEnters
<1>4. QED  BY <1>1, <1>2, <1>3 DEF SqlKind

\* The kinds of steps, as the writers see them: one of them moves, one is
\* created, or none is touched.
Untouched == UNCHANGED <<sqlChild, jsonChild, taken, subscribed>>
             /\ (Bus!Publish \/ UNCHANGED busVars)

WriterKind ==
    \/ \E w \in Writers : WriterStep(w) \/ CancelWriter(w)
    \/ \E w \in Writers :
          pc[w] = "none" /\ pc' = [pc EXCEPT ![w] = "created"] /\ Untouched
    \/ UNCHANGED pc /\ Untouched

LEMMA WriterKinds ==
    ASSUME CtlTypes, Controls, [Next]_vars
    PROVE  WriterKind
<1>0. (Bus!Publish \/ UNCHANGED busVars) /\ UNCHANGED <<sqlChild, jsonChild>> => Untouched
  BY DEF Bus!Publish, busVars, Untouched
<1> USE DEF WriterKind, writerVars
<1>1. CASE Boot
  <2>1. 1 \in Writers /\ pc[1] = "none" /\ pc' = [pc EXCEPT ![1] = "created"]
    BY <1>1, WritersFit DEF Boot, Controls
  <2>2. QED  BY <1>0, <1>1, <2>1 DEF Boot
<1>2. CASE Publish \/ PeriodicFlush \/ ExecutorAnswers \/ ClockTicks \/ ExecutorRaises
           \/ CommitsElsewhere \/ StopBegins
  BY <1>0, <1>2 DEF Publish, PeriodicFlush, ExecutorAnswers, ClockTicks, ExecutorRaises,
                    CommitsElsewhere, StopBegins
<1>3. ASSUME NEW c, CancelCurrent(c)  PROVE WriterKind
  <2>1. CASE writerTask = None
    BY <1>0, <1>3, <2>1 DEF CancelCurrent
  <2>2. CASE writerTask # None
    BY <1>3, <2>2 DEF CancelCurrent, CtlTypes
  <2>3. QED  BY <2>1, <2>2
<1>4. CASE CollectorsStopped \/ \E r \in Requests : RequestBegins(r)
  BY <1>3, <1>4 DEF CollectorsStopped, RequestBegins
<1>5. ASSUME NEW c, WriterAwaited(c) \/ SessionEnded(c) \/ FlushesRemaining(c)
                    \/ SessionRaises(c) \/ FlushRaised(c) \/ FilesReplaced(c)
                    \/ RenameRaises(c) \/ JsonlRaises(c) \/ StopCloses \/ Granted(c)
      PROVE  WriterKind
  BY <1>0, <1>5 DEF WriterAwaited, SessionEnded, FlushesRemaining, SessionRaises,
                    FlushRaised, FilesReplaced, RenameRaises, JsonlRaises, StopCloses,
                    Granted
<1>6. ASSUME NEW r \in Requests, RequestEnds(r)  PROVE WriterKind
  BY <1>0, <1>6 DEF RequestEnds
<1>7. CASE UNCHANGED vars
  BY <1>0, <1>7 DEF vars
<1>8. QED
  BY <1>1, <1>2, <1>4, <1>5, <1>6, <1>7 DEF Next, ControllerStep

LEMMA StepChildren ==
    ASSUME CtlTypes, PcTypes, Controls, SP!SinkInv, BusInv, Children, [Next]_vars
    PROVE  Children'
<1>1. SqlKind /\ WriterKind
  BY SinkKinds, WriterKinds
<1>2. SUFFICES ASSUME NEW v \in Writers  PROVE ChildFits(v)'
  BY DEF Children
<1>3. ChildFits(v) /\ SP!SinkTypeOK
  BY DEF Children, SP!SinkInv
<1>4. CASE WriterStep(v) \/ CancelWriter(v)
  BY <1>3, <1>4, WriterFits
<1>5. CASE ~WriterStep(v)
  <2>1. call'[v] \in {"lock", "job"} => call[v] \in {"lock", "job"}
    BY <1>1, <1>5, OneEnters DEF WriterStep
  <2>2. ASSUME NEW w \in Writers, WriterStep(w) \/ CancelWriter(w), w # v
        PROVE  ChildFits(v)'
    <3>1. Spares(v)
      BY <2>2, WriterSpares
    <3>2. QED  BY <1>3, <2>1, <3>1, SparedFits
  <2>3. ASSUME Untouched
        PROVE  /\ sqlChild'[v] = sqlChild[v] /\ jsonChild'[v] = jsonChild[v]
               /\ taken'[v] = taken[v] /\ (v \in subscribed' <=> v \in subscribed)
               /\ v \notin subscribed => queue'[v] = queue[v]
    BY <2>3, BusSpares DEF Untouched
  <2>4. CASE Untouched /\ pc'[v] = pc[v]
    <3>1. Spares(v)
      BY <2>3, <2>4 DEF Spares
    <3>2. QED  BY <1>3, <2>1, <3>1, SparedFits
  <2>5. ASSUME NEW w \in Writers, pc[w] = "none", pc' = [pc EXCEPT ![w] = "created"],
               Untouched
        PROVE  ChildFits(v)'
    <3>1. CASE w # v
      BY <2>4, <2>5, <3>1 DEF PcTypes
    <3>2. CASE w = v
      <4>1. pc[v] = "none" /\ pc'[v] = "created"
        BY <2>5, <3>2 DEF PcTypes
      <4>2. QED  BY <1>3, <2>1, <2>3, <2>5, <4>1 DEF ChildFits, InWrite
    <3>3. QED  BY <3>1, <3>2
  <2>6. QED  BY <1>1, <1>4, <2>2, <2>4, <2>5 DEF WriterKind
<1>6. QED  BY <1>4, <1>5

-----------------------------------------------------------------------------
(***************************************************************************)
(* The stores: types and sessions.                                         *)
(***************************************************************************)
SessionTypes == sessionId \in Sessions \cup {None} /\ active \in Sessions \cup {None}

FileTypes ==
    /\ lines \in Seq(1 .. MaxPublished)
    /\ archive \in [Times -> Seq(Rows) \cup {None}]
    /\ jsonArchive \in [Times -> Seq(1 .. MaxPublished) \cup {None}]

\* What a child writes is a row.
LEMMA RowFits ==
    ASSUME PcTypes, BusInv, Children, NEW w \in Writers,
           sqlChild[w] = "new" \/ jsonChild[w] = "new"
    PROVE  /\ Current(w) \in 1 .. MaxPublished /\ Current(w) \in 1 .. published
           /\ active \in Sessions \cup {None} => <<Current(w), active>> \in Rows
           /\ InWrite(w) /\ taken[w] # <<>>
<1>1. InWrite(w) /\ taken[w] # <<>>
  BY DEF Children, ChildFits, PcTypes
<1>2. Current(w) \in 1 .. published /\ published <= MaxPublished /\ published \in Nat
  BY <1>1, StreamFacts
<1>3. Current(w) \in 1 .. MaxPublished
  BY <1>2, PipelineAssumption
<1>4. QED  BY <1>1, <1>2, <1>3 DEF Rows

LEMMA InitSink == Init => SP!SinkInv
<1> SUFFICES ASSUME Init PROVE SP!SinkInv
  OBVIOUS
<1>1. SP!SinkInit
  BY DEF Init, Sink!SinkInit, SP!SinkInit, Sink!Tasks, SP!Tasks
<1>2. SP!SinkTypeOK
  <2>1. <<>> \in Seq(Rows) /\ 0 \in 0 .. Len(<<>>)  OBVIOUS
  <2>2. QED  BY <1>1, <2>1, SinkFits DEF SP!SinkInit, SP!SinkTypeOK
<1>3. SP!LockGuardsJob
  BY <1>1, SinkFits DEF SP!SinkInit, SP!LockGuardsJob, SP!SinkAssumption
<1>4. QED  BY <1>2, <1>3 DEF SP!SinkInv

\* The store's own business keeps its invariant.
LEMMA InsideKeeps ==
    ASSUME SP!SinkInv, Inside
    PROVE  SP!SinkInv'
<1>0. /\ SP!SinkAssumption /\ SP!Tasks = Writers \cup Controllers \cup {Flusher}
      /\ table \in Seq(Rows) /\ flushTask \in BOOLEAN /\ db \in BOOLEAN
      /\ NoRow \in Rows \cup {NoRow}
  BY SinkFits DEF SP!SinkInv, SP!SinkTypeOK
<1>1. CASE UNCHANGED sinkVars
  BY <1>0, <1>1, SP!UntouchedKeeps DEF sinkVars, SP!sinkVars
<1>2. ASSUME NEW t \in Controllers \cup {Flusher}, SP!Enter(t, NoRow)
      PROVE  SP!SinkInv'
  <2>1. t \in SP!Tasks
    BY <1>0
  <2>2. QED  BY <1>0, <1>2, <2>1, SP!EnterKeeps
<1>3. ASSUME NEW t \in SP!Tasks, SP!Acquire(t)
      PROVE  SP!SinkInv'
  BY <1>0, <1>3, SP!AcquireKeeps
<1>4. ASSUME NEW job \in jobs,
             SP!Commit(job) \/ \E n \in 0 .. Len(job.rows) : SP!Raise(job, n)
      PROVE  SP!SinkInv'
  BY <1>0, <1>4, SP!CommitKeeps, SP!RaiseKeeps
<1>5. ASSUME NEW t \in Writers \cup {Flusher}, SP!CancelInside(t),
             flushTask' \in {flushTask, FALSE},
             UNCHANGED <<db, conn, buffer, table, uncommitted>>
      PROVE  SP!SinkInv'
  <2>1. t \in SP!Tasks /\ db' \in BOOLEAN /\ flushTask' \in BOOLEAN
    BY <1>0, <1>5
  <2>2. QED  BY <1>0, <1>5, <2>1, SP!CancelKeeps
<1>6. CASE SP!Start
  BY <1>0, <1>6, SP!StartKeeps
<1>7. CASE SP!Close \/ SP!CommitElsewhere
  BY <1>0, <1>7, SP!CloseKeeps, SP!CommitElsewhereKeeps
<1>8. QED
  BY <1>1, <1>2, <1>3, <1>4, <1>5, <1>6, <1>7 DEF Inside

LEMMA StepSink ==
    ASSUME CtlTypes, PcTypes, SP!SinkInv, BusInv, Children, SessionTypes, SqlKind
    PROVE  SP!SinkInv'
<1>0. SP!SinkAssumption /\ \A w \in Writers : w \in SP!Tasks
  BY SinkFits
<1>1. CASE Inside
  BY <1>1, InsideKeeps
<1>2. ASSUME NEW w \in Writers, SqlChildRuns(w)  PROVE SP!SinkInv'
  <2>1. SP!Enter(w, <<Current(w), active>>) /\ sqlChild[w] = "new"
    BY <1>2, SinkEnters DEF SqlChildRuns, Sink!Write
  <2>2. <<Current(w), active>> \in Rows \cup {NoRow}
    BY <2>1, RowFits DEF SessionTypes
  <2>3. QED  BY <1>0, <2>1, <2>2, SP!EnterKeeps
<1>3. ASSUME NEW r \in Requests, Replaces(r)  PROVE SP!SinkInv'
  BY <1>0, <1>3, ReplacesSqlite, SP!ReplaceKeeps
<1>4. QED  BY <1>1, <1>2, <1>3 DEF SqlKind

\* The connection counts the files that were opened.
LEMMA InitConnections == Init => Connections /\ SessionTypes /\ FileTypes
<1> SUFFICES ASSUME Init PROVE Connections /\ SessionTypes /\ FileTypes
  OBVIOUS
<1>1. <<>> \in Seq(1 .. MaxPublished)  OBVIOUS
<1>2. FileTypes
  BY <1>1 DEF Init, FileTypes
<1>3. QED  BY <1>2 DEF Init, Connections, SessionTypes, Sink!SinkInit

LEMMA StepConnections ==
    ASSUME CtlTypes, PcTypes, Controls, SP!SinkInv, Connections, SqlKind, Moves
    PROVE  Connections'
<1>0. /\ conn \in Nat /\ \A r \in Requests : r \in Controllers /\ r # Stop
      /\ IsFiniteSet(Opening) /\ Cardinality(Opening) \in Nat /\ IsFiniteSet(Opening')
      /\ Cardinality(Opening') \in Nat
  <2>1. Opening \subseteq Requests /\ Opening' \subseteq Requests
    BY DEF Opening
  <2>2. QED
    BY <2>1, PipelineAssumption, FS_Subset, FS_CardinalityType
    DEF SP!SinkInv, SP!SinkTypeOK, Controllers
<1>1. CASE Boot
  <2>1. booted' = TRUE /\ conn' = conn + 1 /\ ~booted
    BY <1>1 DEF Boot, Sink!Start, Sink!Opened
  <2>2. QED  BY <1>0, <2>1 DEF Connections
<1>2. ASSUME NEW r \in Requests, Replaces(r)  PROVE Connections'
  <2>1. /\ booted' = booted /\ conn' = conn + 1 /\ ctl[r] = "flushing"
        /\ Goto(r, "creating") \/ Goto(r, "error")
    BY <1>2, ReplacesSqlite DEF runVars, SP!Replace, SP!Opened
  <2>2. booted
    BY <1>0, <2>1 DEF Controls
  <2>3. Opening' = Opening \cup {r} /\ r \notin Opening
    BY <1>0, <2>1 DEF Opening, CtlTypes, Goto
  <2>4. Cardinality(Opening') = Cardinality(Opening) + 1
    BY <1>0, <2>3, FS_AddElement
  <2>5. QED  BY <1>0, <2>1, <2>2, <2>4 DEF Connections
<1>3. CASE conn' = conn /\ (~db => ~db') /\ booted' = booted
  <2>1. Opening \subseteq Opening'
    <3>1. ASSUME NEW c \in Controllers, NEW x, Goto(c, x), ctl[c] \notin {"done", "error"},
                 ctl[c] = "creating" => x \in {"done", "error"}
          PROVE  Opening \subseteq Opening'
      BY <1>0, <3>1 DEF Opening, CtlTypes, Goto
    <3>2. CASE ctl' = ctl
      BY <3>2 DEF Opening
    <3>3. ASSUME NEW c \in Controllers, Cancels(c), ctl[c] \in {"idle", "collectors"}
          PROVE  Opening \subseteq Opening'
      BY <3>1, <3>3 DEF Cancels
    <3>4. ASSUME NEW c \in Controllers, Proceeds(c)
          PROVE  Opening \subseteq Opening'
      BY <3>1, <3>4 DEF Proceeds, Gone
    <3>5. CASE \E r \in Requests : ctl[r] = "idle" /\ Cancels(r)
      BY <1>0, <3>3, <3>5
    <3>6. CASE ctl[Stop] = "collectors" /\ Cancels(Stop)
      BY <3>3, <3>6 DEF Controllers
    <3>7. CASE \E c \in Controllers : ctl[c] = "awaiting" /\ Goto(c, "writerGone")
      BY <3>1, <3>7
    <3>8. CASE \E r \in Requests : ctl[r] = "creating" /\ Goto(r, "done")
      BY <1>0, <3>1, <3>8
    <3>9. CASE ~stopping /\ Goto(Stop, "collectors")
      <4>1. Stop \in Controllers /\ ctl[Stop] = "idle"
        BY <3>9 DEF Controls, Controllers
      <4>2. QED  BY <3>1, <3>9, <4>1
    <3>10. QED
      BY <3>2, <3>4, <3>5, <3>6, <3>7, <3>8, <3>9 DEF Moves, Placed
  <2>2. Cardinality(Opening) <= Cardinality(Opening')
    BY <1>0, <2>1, FS_Subset
  <2>3. QED  BY <1>0, <1>3, <2>2 DEF Connections
<1>4. Boot \/ booted' = booted
  BY DEF Moves, Placed
<1>5. ASSUME NEW w \in Writers, SqlChildRuns(w)  PROVE UNCHANGED <<conn, db>>
  BY <1>5 DEF SqlChildRuns, Sink!Write, Sink!Enter
<1>6. ASSUME Inside, ~Boot  PROVE conn' = conn /\ (~db => ~db')
  <2>1. ASSUME NEW t, NEW row, SP!Enter(t, row) \/ SP!Acquire(t)
        PROVE  UNCHANGED <<conn, db>>
    BY <2>1 DEF SP!Enter, SP!Acquire
  <2>2. ASSUME NEW job, SP!Commit(job) \/ \E n : SP!Raise(job, n)
        PROVE  UNCHANGED <<conn, db>>
    BY <2>2 DEF SP!Commit, SP!Raise, SP!Answer
  <2>3. QED  BY <1>6, <2>1, <2>2 DEF Inside, sinkVars, SP!Close, SP!CommitElsewhere
<1>7. QED  BY <1>1, <1>2, <1>3, <1>4, <1>5, <1>6 DEF SqlKind

\* The kinds of steps, as the session's stamp and the JSONL store see them.
StampKind ==
    \/ Boot
    \/ \E c \in Controllers : SessionEnded(c)
    \/ \E r \in Requests : RequestEnds(r)
    \/ UNCHANGED <<sessionId, active>>

JsonKind ==
    \/ \E w \in Writers : JsonChildRuns(w)
    \/ \E r \in Requests : Replaces(r) /\ JsonlPutAway(r)
    \/ UNCHANGED <<lines, jsonArchive>>

OpenKind ==
    \/ jsonOpen' = jsonOpen \/ Boot \/ StopCloses
    \/ \E r \in Requests : FilesReplaced(r) \/ JsonlRaises(r)

LEMMA StampKinds ==
    ASSUME [Next]_vars
    PROVE  StampKind /\ JsonKind /\ OpenKind
<1> USE DEF StampKind, JsonKind, OpenKind, Others, runVars, fileVars
<1>1. CASE Boot
  BY <1>1 DEF Boot
<1>2. CASE Publish \/ PeriodicFlush \/ ExecutorAnswers \/ ClockTicks \/ ExecutorRaises
           \/ CommitsElsewhere \/ StopBegins
  BY <1>2 DEF Publish, PeriodicFlush, ExecutorAnswers, ClockTicks, ExecutorRaises,
              CommitsElsewhere, StopBegins
<1>3. ASSUME NEW w \in Writers, WriterStep(w)
      PROVE  /\ UNCHANGED <<sessionId, active, jsonOpen>>
             /\ JsonChildRuns(w) \/ UNCHANGED <<lines, jsonArchive>>
  BY <1>3 DEF WriterStep, WriterStarts, WriterTakes, WriterTimesOut, SqlChildRuns,
              SqlChildEnds, JsonChildRuns, WriterGathered
<1>4. CASE CollectorsStopped \/ \E r \in Requests : RequestBegins(r)
  BY <1>4 DEF CollectorsStopped, RequestBegins
<1>5. ASSUME NEW c, WriterAwaited(c) \/ FlushesRemaining(c)
                    \/ SessionRaises(c) \/ FlushRaised(c)
                    \/ RenameRaises(c) \/ Granted(c)
      PROVE  UNCHANGED <<sessionId, active, lines, jsonArchive, jsonOpen>>
  BY <1>5 DEF WriterAwaited, FlushesRemaining, SessionRaises,
              FlushRaised, RenameRaises, Granted
<1>6. ASSUME NEW c, SessionEnded(c) \/ RequestEnds(c)
      PROVE  UNCHANGED <<lines, jsonArchive, jsonOpen>>
  BY <1>6 DEF SessionEnded, RequestEnds
<1>7. ASSUME NEW r \in Requests, Replaces(r)
      PROVE  /\ UNCHANGED <<sessionId, active>>
             /\ JsonlPutAway(r) \/ UNCHANGED <<lines, jsonArchive>>
  BY <1>7, ReplacesSqlite DEF Replaces, FilesReplaced, JsonlRaises
<1>8. CASE StopCloses
  BY <1>8 DEF StopCloses
<1>9. CASE UNCHANGED vars
  BY <1>9 DEF vars
<1>10. ASSUME NEW c \in Controllers, ControllerStep(c)
       PROVE  StampKind /\ JsonKind /\ OpenKind
  BY <1>4, <1>5, <1>6, <1>7, <1>8, <1>10 DEF ControllerStep, Replaces
<1>11. QED
  BY <1>1, <1>2, <1>3, <1>4, <1>5, <1>9, <1>10 DEF Next

\* A file that was opened has a session of its own.
LEMMA ConnIsSession ==
    ASSUME Connections, booted
    PROVE  conn \in Sessions
<1>1. Cardinality(Opening) \in Nat /\ Cardinality(Opening) <= Cardinality(Requests)
      /\ Cardinality(Requests) \in Nat
  <2>1. Opening \subseteq Requests
    BY DEF Opening
  <2>2. QED  BY <2>1, PipelineAssumption, FS_Subset, FS_CardinalityType
<1>2. QED  BY <1>1 DEF Connections, Sessions

LEMMA StepSessions ==
    ASSUME Controls, Connections, SP!SinkInv, SessionTypes, StampKind
    PROVE  SessionTypes'
<1>0. 1 \in Sessions
  BY WritersFit
<1>1. ASSUME NEW r \in Requests, RequestEnds(r)  PROVE SessionTypes'
  BY <1>1 DEF RequestEnds, SessionCreated, SessionTypes
<1>2. CASE Boot
  BY <1>0, <1>2 DEF Boot, SessionTypes
<1>3. ASSUME NEW c \in Controllers, SessionEnded(c)  PROVE SessionTypes'
  BY <1>3 DEF SessionEnded, SessionTypes
<1>4. QED  BY <1>1, <1>2, <1>3 DEF StampKind, SessionTypes

LEMMA StepFiles ==
    ASSUME CtlTypes, PcTypes, BusInv, Children, SP!SinkInv, FileTypes, SqlKind, JsonKind
    PROVE  FileTypes'
<1>1. table \in Seq(Rows)
  BY DEF SP!SinkInv, SP!SinkTypeOK
<1>2. \A r \in Requests : stamp[r] \in Times
  BY DEF CtlTypes, Controllers
<1>3. lines' \in Seq(1 .. MaxPublished)
  <2>1. ASSUME NEW w \in Writers, JsonChildRuns(w)
        PROVE  lines' \in Seq(1 .. MaxPublished)
    <3>1. jsonChild[w] = "new" /\ lines' \in {lines, Append(lines, Current(w))}
      BY <2>1 DEF JsonChildRuns
    <3>2. Current(w) \in 1 .. MaxPublished
      BY <3>1, RowFits
    <3>3. lines \in Seq(1 .. MaxPublished)
      BY DEF FileTypes
    <3>4. \A e \in 1 .. MaxPublished : Append(lines, e) \in Seq(1 .. MaxPublished)
      BY <3>3
    <3>5. QED  BY <3>1, <3>2, <3>3, <3>4
  <2>2. ASSUME NEW r \in Requests, JsonlPutAway(r)  PROVE lines' = <<>>
    BY <2>2 DEF JsonlPutAway
  <2>3. <<>> \in Seq(1 .. MaxPublished)  OBVIOUS
  <2>4. QED  BY <2>1, <2>2, <2>3 DEF JsonKind, FileTypes
<1>4. jsonArchive' \in [Times -> Seq(1 .. MaxPublished) \cup {None}]
  BY <1>2 DEF JsonKind, JsonChildRuns, JsonlPutAway, FileTypes
<1>5. archive' \in [Times -> Seq(Rows) \cup {None}]
  <2>1. ASSUME NEW w \in Writers, SqlChildRuns(w)  PROVE archive' = archive
    BY <2>1 DEF SqlChildRuns, Others, fileVars
  <2>2. SP!Committed \in Seq(Rows)
    BY SinkFits, SP!CommittedFits DEF SP!SinkInv
  <2>3. ASSUME NEW r \in Requests, Replaces(r)
        PROVE  archive' \in [Times -> Seq(Rows) \cup {None}]
    BY <1>2, <2>2, <2>3, ReplacesSqlite DEF FileTypes
  <2>4. QED  BY <2>1, <2>3 DEF SqlKind, FileTypes
<1>6. QED  BY <1>3, <1>4, <1>5 DEF FileTypes

-----------------------------------------------------------------------------
\* What is inductive about the types, whatever overlaps, and about the tasks
\* while nothing does.
TypesInv ==
    /\ CtlTypes /\ PcTypes /\ Controls
    /\ BusInv /\ SP!SinkInv /\ Children
    /\ Connections /\ SessionTypes /\ FileTypes

BaseInv == TypesInv /\ OneController /\ OneAlive

LEMMA InitBase == Init => BaseInv
BY InitCtl, InitBus, InitSink, InitChildren, InitConnections
DEF BaseInv, TypesInv, OneController

LEMMA StepTypes ==
    ASSUME TypesInv, [Next]_vars
    PROVE  TypesInv'
<1>0. /\ CtlTypes /\ PcTypes /\ Controls
      /\ BusInv /\ SP!SinkInv /\ Children
      /\ Connections /\ SessionTypes /\ FileTypes
  BY DEF TypesInv
<1>1. Moves /\ SqlKind /\ StampKind /\ JsonKind
  BY <1>0, ControlMoves, SinkKinds, StampKinds
<1>2. CtlTypes'
  BY <1>0, StepCtlTypes
<1>3. PcTypes'
  BY <1>0, StepPcTypes
<1>4. Controls'
  BY <1>0, <1>1, StepControllers
<1>5. BusInv'
  BY <1>0, StepBus
<1>6. SP!SinkInv'
  BY <1>0, <1>1, StepSink
<1>7. Children'
  BY <1>0, StepChildren
<1>8. Connections'
  BY <1>0, <1>1, StepConnections
<1>9. SessionTypes'
  BY <1>0, <1>1, StepSessions
<1>10. FileTypes'
  BY <1>0, <1>1, StepFiles
<1>11. QED
  BY <1>2, <1>3, <1>4, <1>5, <1>6, <1>7, <1>8, <1>9, <1>10 DEF TypesInv

LEMMA StepBase ==
    ASSUME ~overlapped', BaseInv, [Next]_vars
    PROVE  BaseInv'
<1>0. CtlTypes /\ PcTypes /\ Controls /\ OneController /\ OneAlive /\ TypesInv
  BY DEF BaseInv, TypesInv
<1>1. Moves
  BY <1>0, ControlMoves
<1>2. OneController'
  BY <1>0, <1>1, StepControllers
<1>3. OneAlive'
  BY <1>0, <1>1, StepOneAlive
<1>4. TypesInv'
  BY <1>0, StepTypes
<1>5. QED  BY <1>2, <1>3, <1>4 DEF BaseInv

LEMMA BaseTypes == TypesInv => TypeOK
<1> SUFFICES ASSUME TypesInv PROVE TypeOK
  OBVIOUS
<1>1. Bus!TypeOK /\ Sink!SinkTypeOK
  BY BusTypes, SinkTypes DEF TypesInv, BusInv, BP!BusInv, SP!SinkInv
<1>2. \A b \in {booted, collecting, stopping, jsonOpen, cut, overlapped} : b \in BOOLEAN
  BY DEF TypesInv, CtlTypes
<1>3. /\ \A s \in Times : archive[s] = None \/ archive[s] \in Seq(Rows)
      /\ \A s \in Times : jsonArchive[s] = None \/ jsonArchive[s] \in Seq(1 .. MaxPublished)
      /\ lines \in Seq(1 .. MaxPublished)
  BY DEF TypesInv, FileTypes
<1>4. QED
  BY <1>1, <1>2, <1>3 DEF TypesInv, CtlTypes, PcTypes, SessionTypes, TypeOK

LEMMA BaseOneWriter ==
    ASSUME BaseInv
    PROVE  /\ Cardinality(AliveWriters) <= 1
           /\ booted /\ ~stopping /\ (\A r \in Requests : ctl[r] \in {"idle", "done"})
                => AliveWriters = {writerTask}
<1>1. AliveWriters \subseteq {writerTask}
  BY DEF BaseInv, OneAlive, Alive, AliveWriters
<1>2. Cardinality(AliveWriters) <= 1
  <2>1. IsFiniteSet({writerTask}) /\ Cardinality({writerTask}) = 1
    BY FS_Singleton
  <2>2. IsFiniteSet(AliveWriters)
    BY <1>1, <2>1, FS_Subset
  <2>3. QED  BY <1>1, <2>1, <2>2, FS_Subset
<1>3. ASSUME booted, ~stopping, \A r \in Requests : ctl[r] \in {"idle", "done"}
      PROVE  AliveWriters = {writerTask}
  <2>1. writerTask \in Writers /\ pc[writerTask] \in {"created", "waiting", "gather"}
    BY <1>3 DEF BaseInv, OneAlive
  <2>2. QED  BY <1>1, <2>1 DEF AliveWriters
<1>4. QED  BY <1>2, <1>3

\* The types hold whatever happens; until two requests overlap, however rolls,
\* deletes and a stop follow each other, one writer at most reads from the bus,
\* and when nothing is in progress and nothing has failed there is one, the one
\* the runtime knows (runtime.py:404).
THEOREM OneWriterReads == Spec => []OneWriter
<1> DEFINE Inv == TypesInv /\ (~overlapped => BaseInv)
<1>1. Init => Inv
  BY InitBase DEF BaseInv
<1>2. Inv /\ [Next]_vars => Inv'
  BY StepTypes, StepBase, OverlapStays
<1>3. Inv => OneWriter
  BY BaseTypes, BaseOneWriter DEF OneWriter
<1> HIDE DEF Inv
<1>4. QED  BY <1>1, <1>2, <1>3, PTL DEF Spec

-----------------------------------------------------------------------------
(***************************************************************************)
(* Every event is stored once.                                             *)
(***************************************************************************)
\* The store's own business moves rows and brings none.
LEMMA InsideMoves ==
    ASSUME SP!SinkInv, NEW key, SP!Apart(key), Inside
    PROVE  SP!RowsMove(key, {})
<1>0. /\ SP!SinkAssumption /\ SP!Tasks = Writers \cup Controllers \cup {Flusher}
      /\ NoRow \in Rows \cup {NoRow}
  BY SinkFits
<1>1. ASSUME NEW t \in Controllers \cup {Flusher}, SP!Enter(t, NoRow)
      PROVE  SP!RowsMove(key, {})
  <2>1. t \in SP!Tasks /\ SP!KeysNew(key, NoRow) = {}
    BY <1>0 DEF SP!KeysNew
  <2>2. SP!KeysNew(key, NoRow) \cap (SP!Live(key) \cup SP!KeysLost(key)) = {}
    BY <2>1
  <2>3. SP!RowsMove(key, SP!KeysNew(key, NoRow))
    BY <1>0, <1>1, <2>1, <2>2, SP!EnterMoves
  <2>4. QED  BY <2>1, <2>3
<1>2. ASSUME NEW t \in SP!Tasks, SP!Acquire(t)
      PROVE  SP!RowsMove(key, {})
  BY <1>0, <1>2, SP!AcquireMoves
<1>3. ASSUME NEW job \in jobs,
             SP!Commit(job) \/ \E n \in 0 .. Len(job.rows) : SP!Raise(job, n)
      PROVE  SP!RowsMove(key, {})
  BY <1>0, <1>3, SP!CommitMoves, SP!RaiseMoves
<1>4. ASSUME NEW t \in Writers \cup {Flusher}, SP!CancelInside(t),
             UNCHANGED <<db, conn, buffer, table, uncommitted>>
      PROVE  SP!RowsMove(key, {})
  <2>1. t \in SP!Tasks /\ UNCHANGED <<buffer, table>>
    BY <1>0, <1>4
  <2>2. QED  BY <1>0, <1>4, <2>1, SP!CancelMoves
<1>5. CASE SP!Start
  BY <1>0, <1>5, SP!StartMoves
<1>6. CASE UNCHANGED <<buffer, call, pending, jobs, lost, table>>
  <2>1. SP!WaitersQueue'
    BY <1>6 DEF SP!Apart, SP!WaitersQueue
  <2>2. QED  BY <1>0, <1>6, <2>1, SP!StillMoves
<1>7. CASE SP!CommitElsewhere \/ SP!Close
  BY <1>0, <1>7, SP!CommitElsewhereMoves, SP!CloseMoves
<1>8. QED
  BY <1>1, <1>2, <1>3, <1>4, <1>5, <1>6, <1>7 DEF Inside, sinkVars

\* A child brings its event.
LEMMA ChildMoves ==
    ASSUME BaseInv, NEW w \in Writers, SqlChildRuns(w), NEW key, SP!Apart(key),
           key[<<Current(w), active>>] \notin SP!Live(key) \cup SP!KeysLost(key)
    PROVE  SP!RowsMove(key, {key[<<Current(w), active>>]})
<1> DEFINE row == <<Current(w), active>>
<1>1. /\ SP!SinkAssumption /\ w \in SP!Tasks
      /\ SP!Enter(w, row) /\ row # NoRow /\ sqlChild[w] = "new"
  BY SinkFits, SinkEnters DEF SqlChildRuns, Sink!Write
<1>2. row \in Rows \cup {NoRow}
  BY <1>1, RowFits DEF BaseInv, TypesInv, SessionTypes
<1>3. SP!KeysNew(key, row) = {key[row]}
  BY <1>1 DEF SP!KeysNew
<1>4. SP!KeysNew(key, row) \cap (SP!Live(key) \cup SP!KeysLost(key)) = {}
  BY <1>3
<1>5. SP!SinkInv
  BY DEF BaseInv, TypesInv
<1> HIDE DEF row
<1>6. SP!RowsMove(key, SP!KeysNew(key, row))
  BY <1>1, <1>2, <1>4, <1>5, SP!EnterMoves
<1>7. QED  BY <1>3, <1>6 DEF row

\* What putting the live files away does to the backups.
LEMMA BackupsReplaced ==
    ASSUME BaseInv, NEW r \in Requests, Replaces(r)
    PROVE  /\ stamp[r] \in Times
           /\ \A s \in Times :
                 \/ Backup(archive', s) = Backup(archive, s)
                 \/ s = stamp[r] /\ Backup(archive', s) \in {<<>>, SP!Committed}
<1>1. stamp[r] \in Times
  BY DEF BaseInv, TypesInv, CtlTypes, Controllers
<1>2. archive' \in {archive, [archive EXCEPT ![stamp[r]] = SP!Committed]}
  BY ReplacesSqlite
<1>3. archive \in [Times -> Seq(Rows) \cup {None}]
  BY DEF BaseInv, TypesInv, FileTypes
<1>4. QED  BY <1>1, <1>2, <1>3 DEF Backup

LEMMA JsonBackupsReplaced ==
    ASSUME BaseInv, NEW r \in Requests, JsonlPutAway(r)
    PROVE  \A s \in Times :
              \/ Backup(jsonArchive', s) = Backup(jsonArchive, s)
              \/ s = stamp[r] /\ Backup(jsonArchive', s) \in {<<>>, lines}
<1>1. stamp[r] \in Times
  BY DEF BaseInv, TypesInv, CtlTypes, Controllers
<1>2. jsonArchive' \in {jsonArchive, [jsonArchive EXCEPT ![stamp[r]] = lines]}
  BY DEF JsonlPutAway
<1>3. jsonArchive \in [Times -> Seq(1 .. MaxPublished) \cup {None}]
  BY DEF BaseInv, TypesInv, FileTypes
<1>4. QED  BY <1>1, <1>2, <1>3 DEF Backup

\* A new row is new to the sink by whatever key.
LEMMA NewToSink ==
    ASSUME BaseInv, SqlInv, Marks, NEW w \in Writers, sqlChild[w] = "new"
    PROVE  /\ <<Current(w), active>> \in Rows
           /\ Key[<<Current(w), active>>] = Current(w)
           /\ Current(w) \in Nat /\ SP!Below(SqlUsed, Current(w))
           /\ Current(w) \notin SqlUsed
<1>1. <<Current(w), active>> \in Rows
  BY RowFits DEF BaseInv, TypesInv, SessionTypes
<1>2. Key[<<Current(w), active>>] = Current(w)
  BY <1>1 DEF Key
<1>3. SP!Below(SqlUsed, Current(w)) /\ Current(w) \in Nat
  <2>1. Current(w) \in 1 .. published
    BY RowFits DEF BaseInv, TypesInv
  <2>2. QED  BY <2>1 DEF Marks, MarkFits, SP!Below
<1>4. Current(w) \notin SqlUsed
  BY <1>3 DEF SP!Below
<1>5. QED  BY <1>1, <1>2, <1>3, <1>4

LEMMA StepSql ==
    ASSUME BaseInv, SqlInv, Marks, SqlKind
    PROVE  /\ SqlInv'
           /\ \/ SqlUsed' \subseteq SqlUsed
              \/ \E w \in Writers : SqlChildRuns(w) /\ SqlUsed' \subseteq SqlUsed \cup {Current(w)}
<1> DEFINE B(s) == SP!KeysOf(Key, Backup(archive, s))
<1>0. SP!SinkInv /\ SP!Apart(Key) /\ SP!SinkAssumption
  BY SinkFits DEF BaseInv, TypesInv, SqlInv
\* The backups stay.
<1>1. ASSUME NEW new, SP!RowsMove(Key, new), archive' = archive,
             \A s \in Times : new \cap B(s) = {}
      PROVE  SqlInv' /\ SqlUsed' \subseteq SqlUsed \cup new
  <2>1. /\ SP!Apart(Key)'
        /\ SP!Live(Key)' \cup SP!KeysLost(Key)' = SP!Live(Key) \cup SP!KeysLost(Key) \cup new
        /\ SP!Live(Key)' \subseteq SP!Live(Key) \cup new
    BY <1>1 DEF SP!RowsMove
  <2>2. \A s \in Times : Backup(archive, s)' = Backup(archive, s)
    BY <1>1 DEF Backup
  <2>3. \A s \in Times : B(s)' = B(s)
    BY <2>2 DEF SP!KeysOf
  <2>4. \A s \in Times : SP!Distinct(Key, Backup(archive, s))'
    BY <2>2 DEF SqlInv, SP!Distinct
  <2>5. \A s \in Times : B(s) \cap SP!Live(Key) = {}
    BY DEF SqlInv
  <2>6. \A s, u \in Times : s # u => B(s) \cap B(u) = {}
    BY DEF SqlInv
  <2>7. SqlUsed = SP!Live(Key) \cup SP!KeysLost(Key) \cup UNION {B(s) : s \in Times}
    BY DEF SqlUsed
  <2>8. SqlUsed' = SP!Live(Key)' \cup SP!KeysLost(Key)' \cup UNION {B(s)' : s \in Times}
    BY DEF SqlUsed
  <2> HIDE DEF B
  <2>9. SqlUsed' \subseteq SqlUsed \cup new
    BY <2>1, <2>3, <2>7, <2>8
  <2>10. /\ \A s \in Times : B(s)' \cap SP!Live(Key)' = {}
         /\ \A s, u \in Times : s # u => B(s)' \cap B(u)' = {}
    BY <1>1, <2>1, <2>3, <2>5, <2>6
  <2>11. SqlInv'
    BY <2>1, <2>4, <2>10 DEF SqlInv, B
  <2>12. QED  BY <2>9, <2>11
<1>2. CASE Inside /\ archive' = archive
  <2>1. SP!RowsMove(Key, {})
    BY <1>0, <1>2, InsideMoves
  <2>2. SqlInv' /\ SqlUsed' \subseteq SqlUsed \cup {}
    BY <1>1, <1>2, <2>1
  <2>3. QED  BY <2>2
<1>3. ASSUME NEW w \in Writers, SqlChildRuns(w)
      PROVE  SqlInv' /\ SqlUsed' \subseteq SqlUsed \cup {Current(w)}
  <2>1. sqlChild[w] = "new" /\ archive' = archive
    BY <1>3 DEF SqlChildRuns, Others, fileVars
  <2>2. Key[<<Current(w), active>>] = Current(w) /\ Current(w) \notin SqlUsed
    BY <2>1, NewToSink
  <2>3. SP!RowsMove(Key, {Current(w)})
    BY <1>0, <1>3, <2>2, ChildMoves DEF SqlUsed
  <2>4. \A s \in Times : {Current(w)} \cap B(s) = {}
    BY <2>2 DEF SqlUsed
  <2> HIDE DEF B
  <2>5. QED  BY <1>1, <2>1, <2>3, <2>4
<1>4. ASSUME NEW r \in Requests, Replaces(r)
      PROVE  SqlInv' /\ SqlUsed' \subseteq SqlUsed
  <2>1. SP!Replace
    BY <1>4, ReplacesSqlite
  <2> DEFINE T == SP!KeysOf(Key, table)
             C == SP!KeysOf(Key, SP!Committed)
  <2>2. /\ SP!Apart(Key)' /\ SP!Live(Key)' = SP!Live(Key) \ T
        /\ SP!KeysLost(Key)' = SP!KeysLost(Key) \cup (T \ C)
        /\ C \subseteq T /\ SP!Distinct(Key, SP!Committed)
    BY <1>0, <2>1, SP!ReplaceMoves
  <2>3. \A s \in Times :
           \/ Backup(archive, s)' = Backup(archive, s)
           \/ s = stamp[r] /\ Backup(archive, s)' \in {<<>>, SP!Committed}
    BY <1>4, BackupsReplaced DEF Backup
  <2>4. /\ SP!Distinct(Key, <<>>)
        /\ SP!KeysOf(Key, <<>>) = {} /\ T \subseteq SP!Live(Key)
    BY <1>0, SP!EmptyKeys DEF SP!Apart, SP!Live
  <2>5. \A s \in Times : B(s)' = B(s) \/ (s = stamp[r] /\ B(s)' \in {{}, C})
    <3>1. TAKE s \in Times
    <3>2. B(s)' = SP!KeysOf(Key, Backup(archive, s)')
      BY DEF SP!KeysOf
    <3>3. QED  BY <2>3, <2>4, <3>2
  <2>6. \A s \in Times : SP!Distinct(Key, Backup(archive, s))'
    <3>1. TAKE s \in Times
    <3>2. SP!Distinct(Key, Backup(archive, s))' <=> SP!Distinct(Key, Backup(archive, s)')
      BY DEF SP!Distinct
    <3>3. SP!Distinct(Key, Backup(archive, s))
      BY DEF SqlInv
    <3>4. QED  BY <2>2, <2>3, <2>4, <3>2, <3>3
  <2>7. /\ \A s \in Times : B(s) \cap SP!Live(Key) = {}
        /\ \A s, u \in Times : s # u => B(s) \cap B(u) = {}
    BY DEF SqlInv
  <2>8. SqlUsed = SP!Live(Key) \cup SP!KeysLost(Key) \cup UNION {B(s) : s \in Times}
    BY DEF SqlUsed
  <2>9. SqlUsed' = SP!Live(Key)' \cup SP!KeysLost(Key)' \cup UNION {B(s)' : s \in Times}
    BY DEF SqlUsed
  <2> HIDE DEF B, T, C
  <2>10. SqlUsed' \subseteq SqlUsed
    BY <2>2, <2>4, <2>5, <2>8, <2>9
  <2>11. /\ \A s \in Times : B(s)' \cap SP!Live(Key)' = {}
         /\ \A s, u \in Times : s # u => B(s)' \cap B(u)' = {}
    BY <2>2, <2>4, <2>5, <2>7
  <2>12. SqlInv'
    BY <2>2, <2>6, <2>11 DEF SqlInv, B
  <2>13. QED  BY <2>10, <2>12
<1>5. QED  BY <1>2, <1>3, <1>4 DEF SqlKind

LEMMA InitStored == Init => SqlInv /\ Marks /\ JsonInv
<1> SUFFICES ASSUME Init PROVE SqlInv /\ Marks /\ JsonInv
  OBVIOUS
<1>1. SP!SinkInit /\ SP!SinkAssumption
  BY SinkFits DEF Init, Sink!SinkInit, SP!SinkInit, Sink!Tasks, SP!Tasks
<1>2. SP!Apart(Key) /\ SP!Live(Key) = {} /\ SP!KeysLost(Key) = {}
  BY <1>1, SP!NoRowsYet
<1>3. /\ \A s \in Times : Backup(archive, s) = <<>> /\ Backup(jsonArchive, s) = <<>>
      /\ lines = <<>>
  BY DEF Init, Backup
<1>4. /\ SP!KeysOf(Key, <<>>) = {} /\ SP!Distinct(Key, <<>>)
      /\ In(<<>>) = {} /\ Ascending(<<>>)
  <2>1. SP!KeysOf(Key, <<>>) = {} /\ SP!Distinct(Key, <<>>)
    BY <1>1, SP!EmptyKeys
  <2>2. Len(<<>>) = 0 /\ 1 .. 0 = {}
    OBVIOUS
  <2>3. QED  BY <2>1, <2>2 DEF In, Ascending
<1>5. SqlInv
  BY <1>2, <1>3, <1>4 DEF SqlInv
<1>6. JsonInv
  BY <1>3, <1>4 DEF JsonInv
<1>7. SqlUsed = {} /\ JsonUsed = {}
  BY <1>2, <1>3, <1>4 DEF SqlUsed, JsonUsed
<1>8. Marks
  BY <1>7 DEF Marks, MarkFits, SP!Below, Init, Reading
<1>9. QED  BY <1>5, <1>6, <1>8

\* A line is appended after all the others.
LEMMA AppendAscends ==
    ASSUME NEW S \in SUBSET Nat, NEW seq \in Seq(S), NEW e \in S,
           Ascending(seq), SP!Below(In(seq), e)
    PROVE  Ascending(Append(seq, e)) /\ In(Append(seq, e)) = In(seq) \cup {e}
<1> DEFINE new == Append(seq, e)
           n == Len(seq)
<1>1. /\ n \in Nat /\ Len(new) = n + 1 /\ new[n + 1] = e
      /\ \A i \in 1 .. n : new[i] = seq[i]
  OBVIOUS
<1>2. \A i \in 1 .. n : seq[i] \in In(seq)
  BY DEF In
<1>3. \A i, j \in 1 .. n : i < j => seq[i] < seq[j]
  BY DEF Ascending
<1> HIDE DEF new, n
<1>4. \A i, j \in 1 .. Len(new) : i < j => new[i] < new[j]
  <2>1. TAKE i, j \in 1 .. Len(new)
  <2>2. HAVE i < j
  <2>3. i \in 1 .. n
    BY <1>1, <2>2
  <2>4. CASE j = n + 1
    BY <1>1, <1>2, <2>3, <2>4 DEF SP!Below
  <2>5. CASE j # n + 1
    <3>1. j \in 1 .. n
      BY <1>1, <2>5
    <3>2. QED  BY <1>1, <1>3, <2>2, <2>3, <3>1
  <2>6. QED  BY <2>4, <2>5
<1>5. In(new) = In(seq) \cup {e}
  <2>1. In(new) = {new[i] : i \in 1 .. n + 1}
    BY <1>1 DEF In
  <2>2. In(seq) = {seq[i] : i \in 1 .. n}
    BY DEF In, n
  <2>3. 1 .. n + 1 = (1 .. n) \cup {n + 1}
    BY <1>1
  <2>4. QED  BY <1>1, <2>1, <2>2, <2>3
<1>6. QED  BY <1>4, <1>5 DEF Ascending, new

LEMMA StepJson ==
    ASSUME BaseInv, JsonInv, Marks, JsonKind
    PROVE  /\ JsonInv'
           /\ \/ JsonUsed' \subseteq JsonUsed
              \/ \E w \in Writers :
                    JsonChildRuns(w) /\ JsonUsed' \subseteq JsonUsed \cup {Current(w)}
<1> DEFINE B(s) == In(Backup(jsonArchive, s))
<1>a. /\ \A s \in Times : Ascending(Backup(jsonArchive, s)) /\ B(s) \cap In(lines) = {}
      /\ \A s, u \in Times : s # u => B(s) \cap B(u) = {}
      /\ Ascending(lines)
  BY DEF JsonInv
<1>b. lines \in Seq(1 .. MaxPublished) /\ 1 .. MaxPublished \in SUBSET Nat
  BY PipelineAssumption DEF BaseInv, TypesInv, FileTypes
<1>c. JsonUsed = In(lines) \cup UNION {B(s) : s \in Times}
  BY DEF JsonUsed
<1>d. JsonUsed' = In(lines)' \cup UNION {B(s)' : s \in Times}
  BY DEF JsonUsed
<1>1. ASSUME UNCHANGED <<lines, jsonArchive>>
      PROVE  JsonInv' /\ JsonUsed' \subseteq JsonUsed
  <2>1. \A s \in Times : Backup(jsonArchive, s)' = Backup(jsonArchive, s)
    BY <1>1 DEF Backup
  <2>2. \A s \in Times : B(s)' = B(s) /\ Ascending(Backup(jsonArchive, s))'
    BY <1>a, <2>1 DEF In, Ascending
  <2>3. In(lines)' = In(lines) /\ Ascending(lines)'
    BY <1>1, <1>a DEF In, Ascending
  <2> HIDE DEF B
  <2>4. JsonUsed' \subseteq JsonUsed
    BY <1>c, <1>d, <2>2, <2>3
  <2>5. /\ \A s \in Times : B(s)' \cap In(lines)' = {}
        /\ \A s, u \in Times : s # u => B(s)' \cap B(u)' = {}
    BY <1>a, <2>2, <2>3
  <2>6. QED  BY <2>2, <2>3, <2>4, <2>5 DEF JsonInv, B
<1>2. ASSUME NEW w \in Writers, JsonChildRuns(w)
      PROVE  JsonInv' /\ JsonUsed' \subseteq JsonUsed \cup {Current(w)}
  <2>1. /\ jsonChild[w] = "new" /\ jsonArchive' = jsonArchive
        /\ lines' \in {lines, Append(lines, Current(w))}
    BY <1>2 DEF JsonChildRuns
  <2>2. Current(w) \in 1 .. MaxPublished /\ SP!Below(JsonUsed, Current(w))
    <3>1. Current(w) \in 1 .. MaxPublished
      BY <2>1, RowFits DEF BaseInv, TypesInv
    <3>2. QED  BY <2>1, <3>1 DEF Marks, MarkFits
  <2>3. \A s \in Times : Backup(jsonArchive, s)' = Backup(jsonArchive, s)
    BY <2>1 DEF Backup
  <2>4. \A s \in Times : B(s)' = B(s) /\ Ascending(Backup(jsonArchive, s))'
    BY <1>a, <2>3 DEF In, Ascending
  <2>5. CASE lines' = lines
    BY <1>1, <2>1, <2>5
  <2>6. CASE lines' = Append(lines, Current(w))
    <3>1. SP!Below(In(lines), Current(w)) /\ \A s \in Times : Current(w) \notin B(s)
      BY <2>2 DEF JsonUsed, SP!Below
    <3>2. Ascending(lines)' /\ In(lines)' = In(lines) \cup {Current(w)}
      <4>1. /\ Ascending(Append(lines, Current(w)))
            /\ In(Append(lines, Current(w))) = In(lines) \cup {Current(w)}
        BY <1>a, <1>b, <2>2, <3>1, AppendAscends
      <4>2. /\ Ascending(lines)' <=> Ascending(lines')
            /\ In(lines)' = In(lines')
        BY DEF Ascending, In
      <4>3. QED  BY <2>6, <4>1, <4>2
    <3> HIDE DEF B
    <3>3. \A s \in Times : B(s)' \cap In(lines)' = {}
      BY <1>a, <2>4, <3>1, <3>2
    <3>4. \A s, u \in Times : s # u => B(s)' \cap B(u)' = {}
      BY <1>a, <2>4
    <3>5. JsonInv'
      BY <2>4, <3>2, <3>3, <3>4 DEF JsonInv, B
    <3>6. JsonUsed' \subseteq JsonUsed \cup {Current(w)}
      BY <1>c, <1>d, <2>4, <3>2
    <3>7. QED  BY <3>5, <3>6
  <2>7. QED  BY <2>1, <2>5, <2>6
<1>3. ASSUME NEW r \in Requests, JsonlPutAway(r)
      PROVE  JsonInv' /\ JsonUsed' \subseteq JsonUsed
  <2>1. lines' = <<>>
    BY <1>3 DEF JsonlPutAway
  <2>2. \A s \in Times :
           \/ Backup(jsonArchive, s)' = Backup(jsonArchive, s)
           \/ s = stamp[r] /\ Backup(jsonArchive, s)' \in {<<>>, lines}
    BY <1>3, JsonBackupsReplaced DEF Backup
  <2>3. In(<<>>) = {} /\ Ascending(<<>>)
    <3>1. Len(<<>>) = 0 /\ 1 .. 0 = {}
      OBVIOUS
    <3>2. QED  BY <3>1 DEF In, Ascending
  <2>4. \A s \in Times : B(s)' = In(Backup(jsonArchive, s)')
                         /\ (Ascending(Backup(jsonArchive, s)')
                              => Ascending(Backup(jsonArchive, s))')
    BY DEF In, Ascending
  <2>5. \A s \in Times : Ascending(Backup(jsonArchive, s))'
    BY <1>a, <2>2, <2>3, <2>4
  <2>6. \A s \in Times : B(s)' = B(s) \/ (s = stamp[r] /\ B(s)' \in {{}, In(lines)})
    BY <2>2, <2>3, <2>4
  <2>7. In(lines)' = {} /\ Ascending(lines)'
    BY <2>1, <2>3 DEF In, Ascending
  <2> HIDE DEF B
  <2>8. /\ \A s \in Times : B(s)' \cap In(lines)' = {}
        /\ \A s, u \in Times : s # u => B(s)' \cap B(u)' = {}
    BY <1>a, <2>6, <2>7
  <2>9. JsonInv'
    BY <2>5, <2>7, <2>8 DEF JsonInv, B
  <2>10. JsonUsed' \subseteq JsonUsed
    BY <1>c, <1>d, <2>6, <2>7
  <2>11. QED  BY <2>9, <2>10
<1>4. QED  BY <1>1, <1>2, <1>3 DEF JsonKind

\* What a writer has next was in its queue.
Hands(w) ==
    /\ pc'[w] \in Reading =>
          \A i \in 1 .. Len(queue'[w]) :
             pc[w] \in Reading /\ \E j \in 1 .. Len(queue[w]) : queue'[w][i] = queue[w][j]
    /\ sqlChild'[w] = "new" =>
          \/ sqlChild[w] = "new" /\ Current(w)' = Current(w)
          \/ pc[w] \in Reading /\ 1 \in 1 .. Len(queue[w]) /\ Current(w)' = queue[w][1]
    /\ jsonChild'[w] = "new" =>
          \/ jsonChild[w] = "new" /\ Current(w)' = Current(w)
          \/ pc[w] \in Reading /\ 1 \in 1 .. Len(queue[w]) /\ Current(w)' = queue[w][1]

LEMMA WriterHands ==
    ASSUME BaseInv, NEW w \in Writers, WriterStep(w) \/ CancelWriter(w)
    PROVE  Hands(w)
<1>0. BusInv /\ PcTypes /\ ChildFits(w)
  BY DEF BaseInv, TypesInv, Children
\* The queue stays.
<1>1. ASSUME UNCHANGED <<queue, taken>>, pc'[w] \in Reading => pc[w] \in Reading,
             sqlChild'[w] = "new" => sqlChild[w] = "new",
             jsonChild'[w] = "new" => jsonChild[w] = "new"
      PROVE  Hands(w)
  BY <1>1 DEF Hands, Current
<1>2. ASSUME pc[w] \in Reading, Drain(w) \/ LoopHead(w) \/ Gather(w, "gather")
      PROVE  Hands(w)
  <2>1. ASSUME NEW at, Gather(w, at)  PROVE Hands(w)
    <3>1. /\ 1 \in 1 .. Len(queue[w]) /\ Current(w)' = queue[w][1]
          /\ \A i \in 1 .. Len(queue'[w]) :
                i + 1 \in 1 .. Len(queue[w]) /\ queue'[w][i] = queue[w][i + 1]
      BY <1>0, <2>1, GetFacts DEF Gather
    <3>2. QED  BY <1>2, <3>1 DEF Hands
  <2>2. CASE Leave(w)
    BY <1>1, <1>2, <2>2 DEF Leave, busVars, Bus!Unsubscribe
  <2>3. CASE UNCHANGED <<busVars, sqlChild, jsonChild>>
    BY <1>1, <1>2, <2>3 DEF busVars
  <2>4. QED  BY <1>2, <2>1, <2>2, <2>3 DEF LoopHead, Drain
<1>3. CASE WriterStarts(w)
  <2>1. queue'[w] = <<>> /\ UNCHANGED <<sqlChild, jsonChild>> /\ pc[w] = "created"
    BY <1>0, <1>3 DEF WriterStarts, Bus!Subscribe, BusInv, BP!BusInv, BP!TypeOK
  <2>2. sqlChild[w] # "new" /\ jsonChild[w] # "new"
    BY <1>0, <2>1 DEF ChildFits, InWrite
  <2>3. Len(<<>>) = 0 /\ 1 .. 0 = {}
    OBVIOUS
  <2>4. QED  BY <2>1, <2>2, <2>3 DEF Hands
<1>4. CASE WriterTakes(w) \/ WriterTimesOut(w) \/ WriterGathered(w)
  BY <1>2, <1>4 DEF WriterTakes, WriterTimesOut, WriterGathered, Reading
<1>5. CASE SqlChildRuns(w) \/ SqlChildEnds(w) \/ JsonChildRuns(w)
  BY <1>0, <1>1, <1>5 DEF SqlChildRuns, SqlChildEnds, JsonChildRuns, busVars, PcTypes
<1>6. CASE CancelWriter(w)
  <2>1. CASE pc[w] = "waiting" /\ (Drain(w) \/ Gather(w, "gather"))
    BY <1>2, <2>1 DEF Reading
  <2>2. CASE /\ pc' = [pc EXCEPT ![w] = "ended"] /\ pc'[w] \notin Reading
             /\ UNCHANGED <<queue, taken>>
             /\ \/ UNCHANGED <<sqlChild, jsonChild>>
                \/ sqlChild'[w] = "done" /\ jsonChild'[w] = "done"
    BY <1>1, <2>2
  <2>3. CASE pc' = pc /\ UNCHANGED <<queue, taken, sqlChild, jsonChild>>
    BY <1>1, <2>3
  <2>4. \/ pc[w] = "waiting" /\ (Drain(w) \/ Gather(w, "gather"))
        \/ /\ pc' = [pc EXCEPT ![w] = "ended"]
           /\ UNCHANGED <<queue, taken>>
           /\ \/ UNCHANGED <<sqlChild, jsonChild>>
              \/ /\ sqlChild' = [sqlChild EXCEPT ![w] = "done"]
                 /\ jsonChild' = [jsonChild EXCEPT ![w] = "done"]
        \/ pc' = pc /\ UNCHANGED <<queue, taken, sqlChild, jsonChild>>
    BY <1>6 DEF CancelWriter, busVars, writerVars, Bus!Unsubscribe
  <2>5. QED  BY <1>0, <2>1, <2>2, <2>3, <2>4 DEF PcTypes, Reading
<1>7. QED  BY <1>3, <1>4, <1>5, <1>6 DEF WriterStep

LEMMA StepMarks ==
    ASSUME BaseInv, Marks, WriterKind,
           \/ SqlUsed' \subseteq SqlUsed
           \/ \E w \in Writers : SqlChildRuns(w) /\ SqlUsed' \subseteq SqlUsed \cup {Current(w)},
           \/ JsonUsed' \subseteq JsonUsed
           \/ \E w \in Writers :
                 JsonChildRuns(w) /\ JsonUsed' \subseteq JsonUsed \cup {Current(w)}
    PROVE  Marks'
<1> USE DEF SP!Below
<1>0. /\ BusInv /\ PcTypes /\ published \in Nat
      /\ \A v \in Writers : MarkFits(v)
      /\ SqlUsed \cup JsonUsed \subseteq 1 .. published
  <2>1. published \in Nat
    BY DEF BaseInv, TypesInv, BusInv, BP!BusInv, BP!TypeOK
  <2>2. QED  BY <2>1 DEF BaseInv, TypesInv, Marks
\* Only the writer there is has something to write.
<1>1. ASSUME NEW v \in Writers, pc[v] \in Reading \/ sqlChild[v] = "new" \/ jsonChild[v] = "new"
      PROVE  v = writerTask
  <2>1. Alive(v)
    BY <1>1 DEF BaseInv, TypesInv, Children, ChildFits, InWrite, Alive, Reading
  <2>2. QED  BY <2>1 DEF BaseInv, TypesInv, OneAlive
\* A child writes the event its writer took last, which is before the queue.
<1>2. ASSUME NEW w \in Writers, sqlChild[w] = "new" \/ jsonChild[w] = "new",
             UNCHANGED <<pc, busVars>>,
             SqlUsed' \cup JsonUsed' \subseteq SqlUsed \cup JsonUsed \cup {Current(w)},
             sqlChild'[w] = "new" => sqlChild[w] = "new" /\ SqlUsed' \subseteq SqlUsed,
             jsonChild'[w] = "new" => jsonChild[w] = "new" /\ JsonUsed' \subseteq JsonUsed,
             \A v \in Writers : v # w => sqlChild'[v] = sqlChild[v] /\ jsonChild'[v] = jsonChild[v]
      PROVE  Marks'
  <2>1. UNCHANGED <<queue, taken, published>>
    BY <1>2 DEF busVars
  <2>2. /\ Current(w) \in 1 .. published
        /\ \A i \in 1 .. Len(queue[w]) : Current(w) < queue[w][i]
    BY <1>0, <1>2, RowFits, StreamFacts DEF BaseInv, TypesInv
  <2>3. \A v \in Writers : Current(v)' = Current(v)
    BY <2>1 DEF Current
  <2>4. SqlUsed' \cup JsonUsed' \subseteq 1 .. published'
    BY <1>0, <1>2, <2>1, <2>2
  <2>5. ASSUME NEW v \in Writers  PROVE MarkFits(v)'
    <3>1. CASE v = w
      <4>1. pc[w] \in Reading
        BY <1>2, RowFits DEF InWrite, Reading, BaseInv, TypesInv
      <4>2. \A i \in 1 .. Len(queue[w]) :
               \A x \in SqlUsed' \cup JsonUsed' : x < queue[w][i]
        BY <1>0, <1>2, <2>2, <4>1 DEF MarkFits
      <4>3. QED  BY <1>0, <1>2, <2>1, <2>3, <3>1, <4>2 DEF MarkFits
    <3>2. CASE v # w
      <4>1. pc[v] \notin Reading /\ sqlChild[v] # "new" /\ jsonChild[v] # "new"
        BY <1>1, <1>2, <3>2
      <4>2. QED  BY <1>2, <3>2, <4>1 DEF MarkFits
    <3>3. QED  BY <3>1, <3>2
  <2>6. QED  BY <2>4, <2>5 DEF Marks
<1>3. ASSUME NEW w \in Writers, SqlChildRuns(w), SqlUsed' \subseteq SqlUsed \cup {Current(w)}
      PROVE  Marks'
  <2>1. /\ sqlChild[w] = "new" /\ sqlChild'[w] = "running"
        /\ UNCHANGED <<pc, busVars, jsonChild, lines, jsonArchive>>
        /\ \A v \in Writers : v # w => sqlChild'[v] = sqlChild[v]
    BY <1>0, <1>3 DEF SqlChildRuns, PcTypes, Others, fileVars
  <2>2. JsonUsed' = JsonUsed
    BY <2>1 DEF JsonUsed, In, Backup
  <2>3. QED  BY <1>2, <1>3, <2>1, <2>2
<1>4. ASSUME NEW w \in Writers, JsonChildRuns(w), SqlUsed' \subseteq SqlUsed,
             JsonUsed' \subseteq JsonUsed \cup {Current(w)}
      PROVE  Marks'
  <2>1. /\ jsonChild[w] = "new" /\ jsonChild'[w] = "done"
        /\ UNCHANGED <<pc, busVars, sqlChild>>
        /\ \A v \in Writers : v # w => jsonChild'[v] = jsonChild[v]
    BY <1>0, <1>4 DEF JsonChildRuns, PcTypes
  <2>2. QED  BY <1>2, <1>4, <2>1
\* Nothing new is stored.
<1>5. ASSUME SqlUsed' \subseteq SqlUsed, JsonUsed' \subseteq JsonUsed
      PROVE  Marks'
  <2>1. ASSUME NEW w \in Writers, WriterStep(w) \/ CancelWriter(w)
        PROVE  Marks'
    <3>1. published' = published
      BY <1>0, <2>1, WriterBus, BusSpares DEF busVars
    <3>2. ASSUME NEW v \in Writers  PROVE MarkFits(v)'
      <4>1. CASE v = w
        <5>1. Hands(w)
          BY <2>1, WriterHands
        <5>2. QED  BY <1>0, <1>5, <4>1, <5>1 DEF Hands, MarkFits
      <4>2. CASE v # w
        <5>1. Spares(v) /\ queue'[v] = queue[v]
          BY <1>0, <2>1, <4>2, WriterSpares
        <5>2. QED  BY <1>0, <1>5, <5>1 DEF Spares, MarkFits, Current
      <4>3. QED  BY <4>1, <4>2
    <3>3. QED  BY <1>0, <1>5, <3>1, <3>2 DEF Marks
  <2>2. ASSUME Untouched
        PROVE  /\ published' \in Nat /\ published <= published'
               /\ \A v \in Writers : \A i \in 1 .. Len(queue'[v]) :
                     \/ i \in 1 .. Len(queue[v]) /\ queue'[v][i] = queue[v][i]
                     \/ queue'[v][i] = published + 1
    <3>1. CASE UNCHANGED busVars
      BY <1>0, <3>1 DEF busVars
    <3>2. CASE Bus!Publish
      <4>1. /\ published' = published + 1
            /\ \A v \in Writers : queue'[v] \in {queue[v], Append(queue[v], published + 1)}
        BY <3>2 DEF Bus!Publish
      <4>2. ASSUME NEW v \in Writers, NEW i \in 1 .. Len(queue'[v])
            PROVE  \/ i \in 1 .. Len(queue[v]) /\ queue'[v][i] = queue[v][i]
                   \/ queue'[v][i] = published + 1
        <5>1. queue[v] \in Seq(Nat)
          BY <1>0, StreamFacts
        <5>2. \A k \in 1 .. Len(Append(queue[v], published + 1)) :
                 \/ k \in 1 .. Len(queue[v])
                    /\ Append(queue[v], published + 1)[k] = queue[v][k]
                 \/ Append(queue[v], published + 1)[k] = published + 1
          BY <5>1
        <5>3. QED  BY <4>1, <4>2, <5>2
      <4>3. QED  BY <1>0, <4>1, <4>2
    <3>3. QED  BY <2>2, <3>1, <3>2 DEF Untouched
  <2>3. ASSUME Untouched, NEW v \in Writers, pc'[v] \in Reading => pc[v] \in Reading
        PROVE  MarkFits(v)'
    <3>1. /\ sqlChild'[v] = sqlChild[v] /\ jsonChild'[v] = jsonChild[v]
          /\ Current(v)' = Current(v)
      BY <2>3 DEF Untouched, Current
    <3>2. \A x \in SqlUsed' \cup JsonUsed' : x < published + 1
      BY <1>0, <1>5
    <3>3. ASSUME pc'[v] \in Reading, NEW i \in 1 .. Len(queue'[v])
          PROVE  \A x \in SqlUsed' \cup JsonUsed' : x < queue'[v][i]
      <4>1. CASE i \in 1 .. Len(queue[v]) /\ queue'[v][i] = queue[v][i]
        BY <1>0, <1>5, <2>3, <3>3, <4>1 DEF MarkFits
      <4>2. CASE queue'[v][i] = published + 1
        BY <3>2, <4>2
      <4>3. QED  BY <2>2, <2>3, <4>1, <4>2
    <3>4. QED  BY <1>0, <1>5, <3>1, <3>3 DEF MarkFits
  <2>4. CASE Untouched /\ \A v \in Writers : pc'[v] \in Reading => pc[v] \in Reading
    <3>1. \A v \in Writers : MarkFits(v)'
      BY <2>3, <2>4
    <3>2. SqlUsed' \cup JsonUsed' \subseteq 1 .. published'
      <4>1. published' \in Nat /\ published <= published'
        BY <2>2, <2>4
      <4>2. 1 .. published \subseteq 1 .. published'
        BY <1>0, <4>1
      <4>3. SqlUsed \cup JsonUsed \subseteq 1 .. published
        BY <1>0
      <4>4. QED  BY <1>5, <4>2, <4>3
    <3>3. QED  BY <3>1, <3>2 DEF Marks
  <2>5. ASSUME NEW w \in Writers, pc' = [pc EXCEPT ![w] = "created"]
        PROVE  \A v \in Writers : pc'[v] \in Reading => pc[v] \in Reading
    BY <1>0, <2>5 DEF PcTypes, Reading
  <2>6. QED  BY <2>1, <2>4, <2>5 DEF WriterKind
<1>6. QED  BY <1>3, <1>4, <1>5

-----------------------------------------------------------------------------
\* A set whose members are all one has one member at most.
LEMMA OneMember ==
    ASSUME NEW S, \A a, b \in S : a = b
    PROVE  Cardinality(S) <= 1
<1>1. CASE S = {}
  BY <1>1, FS_EmptySet
<1>2. CASE S # {}
  <2>1. PICK a : a \in S
    BY <1>2
  <2>2. S = {a}
    BY <2>1
  <2>3. QED  BY <2>2, FS_Singleton
<1>3. QED  BY <1>1, <1>2

\* A place of rows is one of five kinds.
LEMMA KindsOfPlace ==
    ASSUME NEW p \in SqlPlaces
    PROVE  \/ p = <<"live", 0, table>>
           \/ p = <<"buffer", 0, buffer>>
           \/ \E job \in jobs : p = <<"job", job.by, job.rows>>
           \/ \E t \in SP!Tasks : pending[t] # NoRow /\ p = <<"pending", t, <<pending[t]>>>>
           \/ \E s \in Times : archive[s] # None /\ p = <<"backup", s, archive[s]>>
BY DEF SqlPlaces, Sink!Tasks, SP!Tasks

\* It holds rows, each once.
LEMMA PlaceOfRows ==
    ASSUME BaseInv, SqlInv, NEW p \in SqlPlaces
    PROVE  p[3] \in Seq(Rows) /\ SP!Distinct(Key, p[3])
<1>0. /\ table \in Seq(Rows) /\ buffer \in Seq(Rows)
      /\ \A j \in jobs : j.rows \in Seq(Rows)
      /\ \A t \in SP!Tasks : pending[t] \in Rows \cup {NoRow}
      /\ \A s \in Times : archive[s] \in Seq(Rows) \cup {None}
  BY DEF BaseInv, TypesInv, SP!SinkInv, SP!SinkTypeOK, SP!Job, FileTypes
<1>1. /\ SP!Distinct(Key, table) /\ SP!Distinct(Key, buffer)
      /\ \A j \in jobs : SP!Distinct(Key, j.rows)
  BY DEF SqlInv, SP!Apart, SP!Packed
<1>2. CASE p = <<"live", 0, table>> \/ p = <<"buffer", 0, buffer>>
  BY <1>0, <1>1, <1>2
<1>3. ASSUME NEW job \in jobs, p = <<"job", job.by, job.rows>>
      PROVE  p[3] \in Seq(Rows) /\ SP!Distinct(Key, p[3])
  BY <1>0, <1>1, <1>3
<1>4. ASSUME NEW t \in SP!Tasks, pending[t] # NoRow, p = <<"pending", t, <<pending[t]>>>>
      PROVE  p[3] \in Seq(Rows) /\ SP!Distinct(Key, p[3])
  <2>1. pending[t] \in Rows /\ p[3] = <<pending[t]>>
    BY <1>0, <1>4
  <2>2. <<pending[t]>> \in Seq(Rows) /\ Len(<<pending[t]>>) = 1
    BY <2>1
  <2>3. \A i, j \in 1 .. 1 : i = j
    OBVIOUS
  <2>4. QED  BY <2>1, <2>2, <2>3 DEF SP!Distinct
<1>5. ASSUME NEW s \in Times, archive[s] # None, p = <<"backup", s, archive[s]>>
      PROVE  p[3] \in Seq(Rows) /\ SP!Distinct(Key, p[3])
  <2>1. p[3] = Backup(archive, s) /\ p[3] \in Seq(Rows)
    BY <1>0, <1>5 DEF Backup
  <2>2. QED  BY <2>1 DEF SqlInv
<1>6. QED  BY <1>2, <1>3, <1>4, <1>5, KindsOfPlace

\* No event is in two places.
LEMMA PlacesApart ==
    ASSUME BaseInv, SqlInv, NEW e, NEW p \in SqlPlaces, NEW q \in SqlPlaces,
           e \in SP!KeysOf(Key, p[3]), e \in SP!KeysOf(Key, q[3])
    PROVE  p = q
<1> DEFINE T == SP!KeysOf(Key, table)
           B == SP!KeysOf(Key, buffer)
           J == SP!KeysInJobs(Key)
           W == SP!KeysWaiting(Key)
           A(s) == SP!KeysOf(Key, Backup(archive, s))
\* Which kind of place holds the event.
<1>1. ASSUME NEW x \in SqlPlaces, e \in SP!KeysOf(Key, x[3])
      PROVE  \/ e \in T /\ x = <<"live", 0, table>>
             \/ e \in B /\ x = <<"buffer", 0, buffer>>
             \/ e \in J /\ \E job \in jobs :
                   e \in SP!KeysOf(Key, job.rows) /\ x = <<"job", job.by, job.rows>>
             \/ e \in W /\ \E t \in SP!Tasks :
                   /\ pending[t] # NoRow /\ e = Key[pending[t]]
                   /\ x = <<"pending", t, <<pending[t]>>>>
             \/ \E s \in Times : e \in A(s) /\ x = <<"backup", s, archive[s]>>
  <2>1. CASE x = <<"live", 0, table>> \/ x = <<"buffer", 0, buffer>>
    BY <1>1, <2>1
  <2>2. ASSUME NEW job \in jobs, x = <<"job", job.by, job.rows>>
        PROVE  e \in J /\ e \in SP!KeysOf(Key, job.rows)
    BY <1>1, <2>2 DEF SP!KeysInJobs
  <2>3. ASSUME NEW t \in SP!Tasks, pending[t] # NoRow, x = <<"pending", t, <<pending[t]>>>>
        PROVE  e \in W /\ e = Key[pending[t]]
    <3>1. e \in SP!KeysOf(Key, <<pending[t]>>)
      BY <1>1, <2>3
    <3>2. e = Key[pending[t]]
      BY <3>1 DEF SP!KeysOf
    <3>3. QED  BY <2>3, <3>2 DEF SP!KeysWaiting
  <2>4. ASSUME NEW s \in Times, archive[s] # None, x = <<"backup", s, archive[s]>>
        PROVE  e \in A(s)
    BY <1>1, <2>4 DEF Backup
  <2> HIDE DEF T, B, J, W, A
  <2>5. QED  BY <2>1, <2>2, <2>3, <2>4, <1>1, KindsOfPlace DEF T, B
<1>2. /\ T \cap (J \cup B \cup W) = {} /\ (J \cup B) \cap W = {} /\ J \cap B = {}
      /\ \A s \in Times : A(s) \cap (T \cup J \cup B \cup W) = {}
  BY DEF SqlInv, SP!Apart, SP!Packed, SP!Live
<1>3. /\ \A i, j \in jobs : i # j => SP!KeysOf(Key, i.rows) \cap SP!KeysOf(Key, j.rows) = {}
      /\ \A t, u \in SP!Tasks : pending[t] # NoRow /\ pending[u] # NoRow
                                /\ Key[pending[t]] = Key[pending[u]] => t = u
      /\ \A s, u \in Times : s # u => A(s) \cap A(u) = {}
  BY DEF SqlInv, SP!Apart, SP!Packed
<1> HIDE DEF T, B, J, W, A
<1>4. CASE e \in T
  BY <1>1, <1>2, <1>4
<1>5. CASE e \in B
  BY <1>1, <1>2, <1>5
<1>6. CASE e \in J
  <2>1. PICK i \in jobs : e \in SP!KeysOf(Key, i.rows) /\ p = <<"job", i.by, i.rows>>
    BY <1>1, <1>2, <1>6
  <2>2. PICK j \in jobs : e \in SP!KeysOf(Key, j.rows) /\ q = <<"job", j.by, j.rows>>
    BY <1>1, <1>2, <1>6
  <2>3. i = j
    BY <1>3, <2>1, <2>2
  <2>4. QED  BY <2>1, <2>2, <2>3
<1>7. CASE e \in W
  <2>1. PICK t \in SP!Tasks : pending[t] # NoRow /\ e = Key[pending[t]]
                              /\ p = <<"pending", t, <<pending[t]>>>>
    BY <1>1, <1>2, <1>7
  <2>2. PICK u \in SP!Tasks : pending[u] # NoRow /\ e = Key[pending[u]]
                              /\ q = <<"pending", u, <<pending[u]>>>>
    BY <1>1, <1>2, <1>7
  <2>3. t = u
    BY <1>3, <2>1, <2>2
  <2>4. QED  BY <2>1, <2>2, <2>3
<1>8. CASE \E s \in Times : e \in A(s)
  <2>1. PICK s \in Times : e \in A(s) /\ p = <<"backup", s, archive[s]>>
    BY <1>1, <1>2, <1>8
  <2>2. PICK u \in Times : e \in A(u) /\ q = <<"backup", u, archive[u]>>
    BY <1>1, <1>2, <1>8
  <2>3. s = u
    BY <1>3, <2>1, <2>2
  <2>4. QED  BY <2>1, <2>2, <2>3
<1>9. QED  BY <1>1, <1>4, <1>5, <1>6, <1>7, <1>8

LEMMA SqlOnce ==
    ASSUME BaseInv, SqlInv, NEW e
    PROVE  Cardinality(SqlCopies(e)) <= 1
<1>1. ASSUME NEW a \in SqlCopies(e)
      PROVE  \E p \in SqlPlaces : \E i \in 1 .. Len(p[3]) :
                a = <<p[1], p[2], i>> /\ p[3][i][1] = e
  BY <1>1 DEF SqlCopies, Copies
<1>2. ASSUME NEW p \in SqlPlaces, NEW i \in 1 .. Len(p[3]), p[3][i][1] = e
      PROVE  Key[p[3][i]] = e /\ e \in SP!KeysOf(Key, p[3])
  <2>1. p[3][i] \in Rows
    BY PlaceOfRows
  <2>2. Key[p[3][i]] = e
    BY <1>2, <2>1 DEF Key
  <2>3. QED  BY <2>2 DEF SP!KeysOf
<1>3. ASSUME NEW a \in SqlCopies(e), NEW b \in SqlCopies(e)  PROVE a = b
  <2>1. PICK p \in SqlPlaces : \E i \in 1 .. Len(p[3]) :
           a = <<p[1], p[2], i>> /\ p[3][i][1] = e
    BY <1>1
  <2>2. PICK i \in 1 .. Len(p[3]) : a = <<p[1], p[2], i>> /\ p[3][i][1] = e
    BY <2>1
  <2>3. PICK q \in SqlPlaces : \E j \in 1 .. Len(q[3]) :
           b = <<q[1], q[2], j>> /\ q[3][j][1] = e
    BY <1>1
  <2>4. PICK j \in 1 .. Len(q[3]) : b = <<q[1], q[2], j>> /\ q[3][j][1] = e
    BY <2>3
  <2>5. /\ Key[p[3][i]] = e /\ e \in SP!KeysOf(Key, p[3])
        /\ Key[q[3][j]] = e /\ e \in SP!KeysOf(Key, q[3])
    BY <1>2, <2>2, <2>4
  <2>6. p = q
    BY <2>5, PlacesApart
  <2>7. i = j
    BY <2>5, <2>6, PlaceOfRows DEF SP!Distinct
  <2>8. QED  BY <2>2, <2>4, <2>6, <2>7
<1>4. QED  BY <1>3, OneMember

\* The same for the lines.
LEMMA AscendingApart ==
    ASSUME NEW n \in Nat, NEW seq \in Seq(1 .. n), Ascending(seq),
           NEW i \in 1 .. Len(seq), NEW j \in 1 .. Len(seq), seq[i] = seq[j]
    PROVE  i = j
<1>1. i \in Nat /\ j \in Nat /\ seq[i] \in 1 .. n
  OBVIOUS
<1>2. /\ i < j => seq[i] < seq[j]
      /\ j < i => seq[j] < seq[i]
  BY DEF Ascending
<1>3. QED  BY <1>1, <1>2

LEMMA JsonOnce ==
    ASSUME BaseInv, JsonInv, NEW e
    PROVE  Cardinality(JsonCopies(e)) <= 1
<1>0. /\ 1 .. MaxPublished \in SUBSET Nat /\ lines \in Seq(1 .. MaxPublished)
      /\ \A s \in Times : jsonArchive[s] \in Seq(1 .. MaxPublished) \cup {None}
  BY PipelineAssumption DEF BaseInv, TypesInv, FileTypes
\* Where a line is.
<1>1. ASSUME NEW p \in JsonPlaces
      PROVE  /\ p[3] \in Seq(1 .. MaxPublished) /\ Ascending(p[3])
             /\ \/ p = <<"live", 0, lines>>
                \/ \E s \in Times : p = <<"backup", s, Backup(jsonArchive, s)>>
  <2>1. CASE p = <<"live", 0, lines>>
    BY <1>0, <2>1 DEF JsonInv
  <2>2. ASSUME NEW s \in Times, jsonArchive[s] # None,
               p = <<"backup", s, jsonArchive[s]>>
        PROVE  /\ p[3] \in Seq(1 .. MaxPublished) /\ Ascending(p[3])
               /\ p = <<"backup", s, Backup(jsonArchive, s)>>
    <3>1. Backup(jsonArchive, s) = jsonArchive[s] /\ p[3] = jsonArchive[s]
      BY <2>2 DEF Backup
    <3>2. Ascending(Backup(jsonArchive, s))
      BY DEF JsonInv
    <3>3. QED  BY <1>0, <2>2, <3>1, <3>2
  <2>3. QED  BY <1>1, <2>1, <2>2 DEF JsonPlaces
<1>2. ASSUME NEW p \in JsonPlaces, NEW q \in JsonPlaces, e \in In(p[3]), e \in In(q[3])
      PROVE  p = q
  <2>1. /\ \A s \in Times : In(Backup(jsonArchive, s)) \cap In(lines) = {}
        /\ \A s, u \in Times : s # u =>
              In(Backup(jsonArchive, s)) \cap In(Backup(jsonArchive, u)) = {}
    BY DEF JsonInv
  <2>2. CASE p = <<"live", 0, lines>>
    BY <1>1, <1>2, <2>1, <2>2
  <2>3. ASSUME NEW s \in Times, p = <<"backup", s, Backup(jsonArchive, s)>>
        PROVE  p = q
    BY <1>1, <1>2, <2>1, <2>3
  <2>4. QED  BY <1>1, <2>2, <2>3
<1>3. ASSUME NEW a \in JsonCopies(e)
      PROVE  \E p \in JsonPlaces : \E i \in 1 .. Len(p[3]) :
                a = <<p[1], p[2], i>> /\ p[3][i] = e
  BY <1>3 DEF JsonCopies, Copies
<1>4. ASSUME NEW a \in JsonCopies(e), NEW b \in JsonCopies(e)  PROVE a = b
  <2>1. PICK p \in JsonPlaces : \E i \in 1 .. Len(p[3]) :
           a = <<p[1], p[2], i>> /\ p[3][i] = e
    BY <1>3
  <2>2. PICK i \in 1 .. Len(p[3]) : a = <<p[1], p[2], i>> /\ p[3][i] = e
    BY <2>1
  <2>3. PICK q \in JsonPlaces : \E j \in 1 .. Len(q[3]) :
           b = <<q[1], q[2], j>> /\ q[3][j] = e
    BY <1>3
  <2>4. PICK j \in 1 .. Len(q[3]) : b = <<q[1], q[2], j>> /\ q[3][j] = e
    BY <2>3
  <2>5. p = q
    BY <1>2, <2>2, <2>4 DEF In
  <2>6. p[3] \in Seq(1 .. MaxPublished) /\ Ascending(p[3])
    BY <1>1
  <2>7. j \in 1 .. Len(p[3]) /\ p[3][i] = p[3][j] /\ MaxPublished \in Nat
    BY <2>2, <2>4, <2>5, PipelineAssumption
  <2>8. i = j
    BY <2>6, <2>7, AscendingApart
  <2>9. QED  BY <2>2, <2>4, <2>5, <2>8
<1>5. QED  BY <1>4, OneMember

-----------------------------------------------------------------------------
(***************************************************************************)
(* The stores are open and flushed when they have to be.                   *)
(***************************************************************************)
\* How a controller comes to be where it is.
LEMMA CtlArrives ==
    ASSUME CtlTypes, OneController, Moves, NEW c \in Controllers
    PROVE  /\ ctl[c] \in {"done", "error"} => ctl'[c] = ctl[c]
           /\ ctl'[c] = "flushing" => ctl[c] = "flushing" \/ FlushesRemaining(c)
           /\ ctl'[c] = "creating" => ctl[c] = "creating" \/ FilesReplaced(c)
<1>0. /\ Stop \in Controllers /\ \A r \in Requests : r \in Controllers
      /\ ~stopping => ctl[Stop] = "idle"
  BY DEF Controllers, OneController, Controls
<1>1. ASSUME NEW d \in Controllers, NEW x, Goto(d, x), ctl[d] \notin {"done", "error"},
             x = "flushing" => FlushesRemaining(d), x = "creating" => FilesReplaced(d)
      PROVE  /\ ctl[c] \in {"done", "error"} => ctl'[c] = ctl[c]
             /\ ctl'[c] = "flushing" => ctl[c] = "flushing" \/ FlushesRemaining(c)
             /\ ctl'[c] = "creating" => ctl[c] = "creating" \/ FilesReplaced(c)
  BY <1>1 DEF Goto, CtlTypes
<1>2. ASSUME NEW d \in Controllers, Cancels(d), ctl[d] \in {"idle", "collectors"}
      PROVE  /\ ctl[c] \in {"done", "error"} => ctl'[c] = ctl[c]
             /\ ctl'[c] = "flushing" => ctl[c] = "flushing" \/ FlushesRemaining(c)
             /\ ctl'[c] = "creating" => ctl[c] = "creating" \/ FilesReplaced(c)
  BY <1>1, <1>2 DEF Cancels
<1>3. ASSUME NEW d \in Controllers, Proceeds(d)
      PROVE  /\ ctl[c] \in {"done", "error"} => ctl'[c] = ctl[c]
             /\ ctl'[c] = "flushing" => ctl[c] = "flushing" \/ FlushesRemaining(c)
             /\ ctl'[c] = "creating" => ctl[c] = "creating" \/ FilesReplaced(c)
  BY <1>1, <1>3 DEF Proceeds, Gone
<1>4. CASE ctl' = ctl
  BY <1>4
<1>5. CASE \E r \in Requests : ctl[r] = "idle" /\ Cancels(r)
  BY <1>0, <1>2, <1>5
<1>6. CASE ctl[Stop] = "collectors" /\ Cancels(Stop)
  BY <1>0, <1>2, <1>6
<1>7. CASE \E d \in Controllers : ctl[d] = "awaiting" /\ Goto(d, "writerGone")
  BY <1>1, <1>7
<1>8. CASE \E r \in Requests : ctl[r] = "creating" /\ Goto(r, "done")
  BY <1>0, <1>1, <1>8
<1>9. CASE ~stopping /\ Goto(Stop, "collectors")
  BY <1>0, <1>1, <1>9
<1>10. QED
  BY <1>3, <1>4, <1>5, <1>6, <1>7, <1>8, <1>9 DEF Moves, Placed

\* How the connection opens and closes.
LEMMA DbMoves ==
    ASSUME SqlKind
    PROVE  \/ UNCHANGED <<db, conn>>
           \/ Boot /\ db' = TRUE /\ conn' = conn + 1
           \/ \E r \in Requests : Replaces(r) /\ db' = TRUE
           \/ /\ \E c \in Controllers :
                    /\ ctl[c] = "flushing" /\ call[c] = "out"
                    /\ Goto(c, IF c = Stop THEN "done" ELSE "error")
              /\ db' = FALSE /\ UNCHANGED <<conn, buffer, lock, call, pending, jobs>>
<1>1. ASSUME NEW w \in Writers, SqlChildRuns(w)  PROVE UNCHANGED <<conn, db>>
  BY <1>1 DEF SqlChildRuns, Sink!Write, Sink!Enter
<1>2. ASSUME NEW t, NEW row, SP!Enter(t, row) \/ SP!Acquire(t)
      PROVE  UNCHANGED <<conn, db>>
  BY <1>2 DEF SP!Enter, SP!Acquire
<1>3. ASSUME NEW job, SP!Commit(job) \/ \E n : SP!Raise(job, n)
      PROVE  UNCHANGED <<conn, db>>
  BY <1>3 DEF SP!Commit, SP!Raise, SP!Answer
<1>4. ASSUME NEW r, Replaces(r)  PROVE db' = TRUE
  BY <1>4, ReplacesSqlite DEF SP!Replace, SP!Opened
<1>5. SP!Start => db' = TRUE /\ conn' = conn + 1
  BY DEF SP!Start, SP!Opened
<1>6. SP!Close => db' = FALSE /\ UNCHANGED <<conn, buffer, lock, call, pending, jobs>>
  BY DEF SP!Close
<1>7. SP!CommitElsewhere => UNCHANGED <<conn, db>>
  BY DEF SP!CommitElsewhere
<1>8. QED
  BY <1>1, <1>2, <1>3, <1>4, <1>5, <1>6, <1>7 DEF SqlKind, Inside, sinkVars

LEMMA StepOpen ==
    ASSUME BaseInv, OpenRule, Moves, SqlKind, OpenKind
    PROVE  OpenRule'
<1>0. /\ CtlTypes /\ OneController /\ Controls /\ OneAlive /\ Stop \in Controllers
      /\ \A r \in Requests : r \in Controllers /\ r # Stop
      /\ \A c \in Controllers : c = Stop \/ c \in Requests
  BY PipelineAssumption DEF BaseInv, TypesInv, Controllers
<1>1. /\ ctl[Stop] = "done" => ctl'[Stop] = "done"
      /\ \A r \in Requests : ctl'[r] = "creating" => ctl[r] = "creating" \/ FilesReplaced(r)
  BY <1>0, CtlArrives
\* A store is closed by a controller that is flushing.
<1>2. ASSUME NEW c \in Controllers, ctl[c] = "flushing",
             Goto(c, IF c = Stop THEN "done" ELSE "error")
      PROVE  /\ ctl'[Stop] = "done" \/ writerTask' = None
             /\ \A r \in Requests : ctl'[r] # "creating"
  <2>1. \A r \in Requests : ctl'[r] # "creating"
    BY <1>0, <1>2 DEF Goto, CtlTypes, OneController, Busy
  <2>2. CASE c = Stop
    BY <1>0, <1>2, <2>1, <2>2 DEF Goto, CtlTypes
  <2>3. CASE c # Stop
    <3>1. writerTask = None
      BY <1>0, <1>2, <2>3 DEF OneAlive, Gone
    <3>2. \A d \in Controllers : d # c => ctl[d] \in {"idle", "done", "error"}
      BY <1>0, <1>2 DEF OneController, Busy
    <3>3. writerTask' \in {writerTask, None}
      <4>1. ~Boot
        BY <1>0, <1>2 DEF Controls, Boot
      <4>2. \A r \in Requests : ctl[r] # "creating"
        BY <1>0, <1>2, <3>2
      <4>3. QED  BY <4>1, <4>2 DEF Moves, Placed
    <3>4. QED  BY <2>1, <3>1, <3>3
  <2>4. QED  BY <2>2, <2>3
\* A store that was open is open still, unless one of them closed it.
<1>3. \/ db' /\ jsonOpen'
      \/ (db => db') /\ (jsonOpen => jsonOpen')
      \/ \E c \in Controllers :
            ctl[c] = "flushing" /\ Goto(c, IF c = Stop THEN "done" ELSE "error")
  <2>1. Boot => db' /\ jsonOpen'
    BY DEF Boot, Sink!Start, Sink!Opened
  <2>2. \A r \in Requests : FilesReplaced(r) => db' /\ jsonOpen'
    BY DEF FilesReplaced, SqliteReplaced, Sink!Replace, Sink!Opened
  <2>3. ASSUME NEW r \in Requests, JsonlRaises(r)
        PROVE  ctl[r] = "flushing" /\ Goto(r, "error")
    BY <2>3 DEF JsonlRaises, SqliteReplaced
  <2>4. StopCloses => ctl[Stop] = "flushing" /\ Goto(Stop, "done")
    BY DEF StopCloses
  <2>5. QED  BY <1>0, <2>1, <2>2, <2>3, <2>4, DbMoves DEF OpenKind, Replaces
<1>4. writerTask' # None /\ ctl'[Stop] # "done" => db' /\ jsonOpen'
  <2>1. SUFFICES ASSUME writerTask' # None, ctl'[Stop] # "done"  PROVE db' /\ jsonOpen'
    OBVIOUS
  <2>2. ctl[Stop] # "done"
    BY <1>1, <2>1
  <2>3. (db /\ jsonOpen) \/ Boot
    <3>1. CASE writerTask # None
      BY <2>2, <3>1 DEF OpenRule
    <3>2. CASE writerTask = None /\ ~Boot
      <4>1. \E r \in Requests : ctl[r] = "creating"
        BY <1>0, <2>1, <3>2 DEF Moves, Placed
      <4>2. QED  BY <4>1 DEF OpenRule
    <3>3. QED  BY <3>1, <3>2
  <2>4. Boot => db' /\ jsonOpen'
    BY DEF Boot, Sink!Start, Sink!Opened
  <2>5. QED  BY <1>2, <1>3, <2>1, <2>3, <2>4
<1>5. \A r \in Requests : ctl'[r] = "creating" => db' /\ jsonOpen'
  <2>1. TAKE r \in Requests
  <2>2. HAVE ctl'[r] = "creating"
  <2>3. FilesReplaced(r) => db' /\ jsonOpen'
    BY DEF FilesReplaced, SqliteReplaced, Sink!Replace, Sink!Opened
  <2>4. ctl[r] = "creating" => db /\ jsonOpen
    BY DEF OpenRule
  <2>5. QED  BY <1>1, <1>2, <1>3, <2>2, <2>3, <2>4
<1>6. QED  BY <1>4, <1>5 DEF OpenRule

\* A writer that runs was there or has just been created.
LEMMA AliveMoves ==
    ASSUME BaseInv, Moves, NEW w \in Writers, Alive(w)'
    PROVE  Alive(w) \/ Boot \/ \E r \in Requests : RequestEnds(r)
<1>1. CASE UNCHANGED pc
  BY <1>1 DEF Alive
<1>2. ASSUME NEW v \in Writers, NEW from, Passes(v, from)  PROVE Alive(w)
  BY <1>2 DEF Passes, Alive, BaseInv, TypesInv, PcTypes
<1>3. writerTask = None \/ writerTask \in Writers
  BY DEF BaseInv, TypesInv, CtlTypes
<1>4. QED  BY <1>1, <1>2, <1>3 DEF Moves, Placed, Cancels

LEMMA StepStamp ==
    ASSUME ~overlapped, BaseInv, OpenRule, StampRule, Moves, SqlKind, StampKind
    PROVE  StampRule'
<1> SUFFICES ASSUME NEW w \in Writers, Alive(w)'  PROVE active' = conn'
  BY DEF StampRule
<1>0. /\ OneController /\ OneAlive /\ \A r \in Requests : r \in Controllers
      /\ \A c \in Controllers : c = Stop \/ c \in Requests
      /\ None \notin Writers
  BY WritersFit DEF BaseInv, TypesInv, Controllers
<1>1. CASE Boot
  <2>1. /\ active' = 1 /\ conn' = conn + 1 /\ ~booted
    BY <1>1 DEF Boot, Sink!Start, Sink!Opened
  <2>2. conn = 0
    BY <2>1 DEF BaseInv, TypesInv, Connections
  <2>3. QED  BY <2>1, <2>2
<1>2. ASSUME NEW r \in Requests, RequestEnds(r)  PROVE active' = conn'
  <2>1. ctl[r] = "creating" /\ SessionCreated /\ UNCHANGED sinkVars
    BY <1>2 DEF RequestEnds
  <2>2. db
    BY <2>1 DEF OpenRule
  <2>3. QED  BY <2>1, <2>2 DEF SessionCreated, sinkVars
<1>3. CASE ~Boot /\ ~\E r \in Requests : RequestEnds(r)
  <2>1. Alive(w)
    BY <1>3, AliveMoves
  <2>2. \A c \in Controllers : ctl[c] \notin Gone
    BY <1>0, <2>1 DEF OneAlive
  <2>3. ~\E c \in Controllers : SessionEnded(c)
    BY <2>2 DEF SessionEnded, Gone
  <2>4. active' = active
    BY <1>3, <2>3 DEF StampKind
  <2>5. conn' = conn
    <3>1. ~\E r \in Requests : Replaces(r)
      BY <1>0, <2>2, ReplacesSqlite DEF Gone
    <3>2. QED  BY <1>3, <3>1, DbMoves
  <2>6. QED  BY <2>1, <2>4, <2>5 DEF StampRule
<1>4. QED  BY <1>1, <1>2, <1>3

\* Before anything is stored the stores' rules hold.
LEMMA InitStores == Init => Stores
<1> SUFFICES ASSUME Init PROVE Stores
  OBVIOUS
<1>1. SP!Tasks = Sink!Tasks /\ SP!SinkAssumption
  BY SinkFits DEF SP!Tasks, Sink!Tasks
<1>2. OpenRule /\ StampRule
  BY PipelineAssumption DEF Init, OpenRule, StampRule, Alive, Controllers
<1>3. FlushRule
  BY <1>1, PipelineAssumption DEF Init, Sink!SinkInit, FlushRule, SP!Tasks
<1>4. SP!BufferRule /\ SP!JobsCurrent
  BY DEF Init, Sink!SinkInit, SP!BufferRule, SP!JobsCurrent
<1>5. QED  BY <1>2, <1>3, <1>4 DEF Stores

\* While the lock is held the buffer stays empty.
LEMMA StepBuffer ==
    ASSUME BaseInv, SP!BufferRule, SqlKind
    PROVE  SP!BufferRule'
<1>0. /\ SP!SinkInv /\ SP!SinkAssumption
      /\ \A w \in Writers : w \in SP!Tasks
      /\ \A t \in Controllers \cup {Flusher} : t \in SP!Tasks
  BY SinkFits DEF BaseInv, TypesInv
<1>1. ASSUME UNCHANGED <<buffer, lock>> \/ (buffer' = buffer /\ lock' = Free)
      PROVE  SP!BufferRule'
  BY <1>1 DEF SP!BufferRule
<1>2. ASSUME NEW t \in SP!Tasks, NEW row, SP!Enter(t, row)  PROVE SP!BufferRule'
  <2>1. CASE lock = Free
    BY <1>0, <1>2, <2>1, SP!LockedBuffer DEF SP!Enter
  <2>2. CASE lock # Free
    BY <1>1, <1>2, <2>2 DEF SP!Enter
  <2>3. QED  BY <2>1, <2>2
<1>3. ASSUME NEW t \in SP!Tasks, SP!Acquire(t)  PROVE SP!BufferRule'
  BY <1>0, <1>3, SP!LockedBuffer DEF SP!Acquire
<1>4. ASSUME NEW job \in jobs, SP!Commit(job) \/ \E n : SP!Raise(job, n)
      PROVE  SP!BufferRule'
  BY <1>1, <1>4 DEF SP!Commit, SP!Raise, SP!Answer
<1>5. ASSUME NEW t, SP!CancelInside(t), buffer' = buffer  PROVE SP!BufferRule'
  BY <1>1, <1>5 DEF SP!CancelInside
<1>6. ASSUME Inside  PROVE SP!BufferRule'
  BY <1>0, <1>1, <1>2, <1>3, <1>4, <1>5, <1>6
     DEF Inside, sinkVars, SP!Start, SP!Opened, SP!CommitElsewhere, SP!Close
<1>7. ASSUME NEW w \in Writers, SqlChildRuns(w)  PROVE SP!BufferRule'
  BY <1>0, <1>2, <1>7, SinkEnters DEF SqlChildRuns, Sink!Write
<1>8. ASSUME NEW r \in Requests, Replaces(r)  PROVE SP!BufferRule'
  BY <1>1, <1>8, ReplacesSqlite DEF SP!Replace, SP!Opened
<1>9. QED  BY <1>6, <1>7, <1>8 DEF SqlKind

\* A row that waits is a writer's, which finds the store open.
LEMMA WritersFindOpen ==
    ASSUME BaseInv, OpenRule, NEW w \in Writers, InWrite(w)
    PROVE  db
<1>1. Alive(w)
  BY DEF InWrite, Alive
<1>2. /\ writerTask = w /\ w # None /\ ctl[Stop] # "done"
  BY <1>1, WritersFit DEF BaseInv, TypesInv, OneAlive
<1>3. QED  BY <1>2 DEF OpenRule

LEMMA RowsFindOpen ==
    ASSUME BaseInv, OpenRule, FlushRule, SqlInv, NEW t \in SP!Tasks, pending[t] # NoRow
    PROVE  db
<1>1. t \in Writers
  BY SinkFits DEF FlushRule
<1>2. call[t] = "lock"
  BY DEF SqlInv, SP!Apart, SP!WaitersQueue
<1>3. InWrite(t)
  BY <1>1, <1>2 DEF BaseInv, TypesInv, Children, ChildFits
<1>4. QED  BY <1>1, <1>3, WritersFindOpen

\* Whatever is closed, or flushed to the end, leaves an empty buffer.
LEMMA StepEmpty ==
    ASSUME BaseInv, OpenRule, FlushRule, SqlInv, SqlKind
    PROVE  ~db' => buffer' = <<>>
<1>0. /\ SP!SinkInv /\ SP!SinkAssumption
      /\ \A w \in Writers : w \in SP!Tasks
      /\ \A t \in Controllers \cup {Flusher} : t \in SP!Tasks
  BY SinkFits DEF BaseInv, TypesInv
<1>1. SUFFICES ASSUME ~db'  PROVE buffer' = <<>>
  OBVIOUS
<1>2. CASE db
  <2>1. PICK c \in Controllers :
           ctl[c] = "flushing" /\ call[c] = "out" /\ buffer' = buffer
    BY <1>1, <1>2, DbMoves
  <2>2. QED  BY <2>1 DEF FlushRule, SP!Outside
<1>3. CASE ~db
  <2>1. buffer = <<>>
    BY <1>3 DEF FlushRule
  <2>2. ASSUME NEW t \in SP!Tasks, NEW row, row = NoRow, SP!Enter(t, row)
        PROVE  buffer' = <<>>
    BY <1>0, <2>1, <2>2, SP!FlushEmpties DEF SP!Enter
  <2>3. ASSUME NEW t \in SP!Tasks, SP!Acquire(t)
        PROVE  buffer' = <<>>
    <3>1. pending[t] = NoRow
      BY <1>3, RowsFindOpen
    <3>2. SP!Locked(t, NoRow)
      BY <2>3, <3>1 DEF SP!Acquire
    <3>3. QED  BY <1>0, <2>1, <3>2, SP!FlushEmpties
  <2>4. ASSUME Inside  PROVE buffer' = <<>>
    BY <1>0, <2>1, <2>2, <2>3, <2>4
       DEF Inside, sinkVars, SP!Commit, SP!Raise, SP!Answer, SP!Start, SP!Opened,
           SP!CommitElsewhere, SP!Close
  <2>5. ASSUME NEW w \in Writers, SqlChildRuns(w)  PROVE FALSE
    <3>1. InWrite(w)
      BY <2>5, RowFits DEF BaseInv, TypesInv, SqlChildRuns
    <3>2. QED  BY <1>3, <3>1, WritersFindOpen
  <2>6. ASSUME NEW r \in Requests, Replaces(r)  PROVE FALSE
    BY <1>1, <2>6, ReplacesSqlite DEF SP!Replace, SP!Opened
  <2>7. QED  BY <2>4, <2>5, <2>6 DEF SqlKind
<1>4. QED  BY <1>2, <1>3

\* Only the writers' rows wait.
LEMMA StepWaits ==
    ASSUME BaseInv, FlushRule, SqlKind
    PROVE  \A t \in Controllers \cup {Flusher} : pending'[t] = NoRow
<1>0. /\ SP!SinkTypeOK
      /\ \A t \in Controllers \cup {Flusher} : t \in SP!Tasks /\ t \notin Writers
  BY SinkFits, PipelineAssumption DEF BaseInv, TypesInv, SP!SinkInv
<1>1. SUFFICES ASSUME NEW t \in Controllers \cup {Flusher}  PROVE pending'[t] = NoRow
  OBVIOUS
<1>2. /\ pending[t] = NoRow /\ t \in SP!Tasks /\ t \notin Writers
      /\ pending \in [SP!Tasks -> Rows \cup {NoRow}]
  BY <1>0 DEF FlushRule, SP!SinkTypeOK
<1>3. ASSUME NEW u, NEW row, SP!Enter(u, row), u # t \/ row = NoRow
      PROVE  pending'[t] = NoRow
  BY <1>2, <1>3 DEF SP!Enter
<1>4. CASE Inside
  <2>1. ASSUME NEW u, SP!Acquire(u) \/ SP!CancelInside(u)  PROVE pending'[t] = NoRow
    BY <1>2, <2>1 DEF SP!Acquire, SP!CancelInside
  <2>2. QED
    BY <1>2, <1>3, <1>4, <2>1
       DEF Inside, sinkVars, SP!Commit, SP!Raise, SP!Answer, SP!Start, SP!Opened,
           SP!CommitElsewhere, SP!Close
<1>5. ASSUME NEW w \in Writers, SqlChildRuns(w)  PROVE pending'[t] = NoRow
  BY <1>2, <1>3, <1>5, SinkEnters DEF SqlChildRuns, Sink!Write
<1>6. ASSUME NEW r \in Requests, Replaces(r)  PROVE pending'[t] = NoRow
  BY <1>2, <1>6, ReplacesSqlite DEF SP!Replace, SP!Opened
<1>7. QED  BY <1>4, <1>5, <1>6 DEF SqlKind

\* A controller that enters or is granted the lock to flush, and is out of the
\* sink at once, has left nothing behind.
LEMMA FlushLeaves ==
    ASSUME BaseInv, FlushRule, NEW c \in Controllers, SP!Locked(c, NoRow), SP!Outside(c)',
           db \/ buffer = <<>>
    PROVE  lock' = Free /\ buffer' = <<>>
<1>0. SP!SinkTypeOK /\ SP!SinkAssumption /\ c \in SP!Tasks
  BY SinkFits DEF BaseInv, TypesInv, SP!SinkInv
<1>1. call'[c] \in {"out", "job"}
  BY <1>0 DEF SP!Locked, SP!FlushLocked, SP!SinkTypeOK
<1>2. call'[c] = "out"
  BY <1>1 DEF SP!Outside
<1>3. QED  BY <1>0, <1>2, SP!LockedLeaves, SP!FlushEmpties

\* From the moment a controller's flush has left the sink nothing else runs,
\* until the files are closed.
LEMMA StepFlushed ==
    ASSUME BaseInv, OpenRule, FlushRule, SP!BufferRule, SqlInv, Moves, SqlKind,
           NEW c \in Controllers, ctl'[c] = "flushing", SP!Outside(c)'
    PROVE  lock' = Free /\ buffer' = <<>>
<1>0. /\ CtlTypes /\ OneController /\ Controls /\ Stop \in Controllers
      /\ SP!SinkInv /\ SP!SinkTypeOK /\ SP!SinkAssumption
      /\ c \in SP!Tasks /\ c \notin Writers /\ c # Flusher
      /\ \A t \in Writers \cup {Flusher} : t \in SP!Tasks /\ t # c
      /\ \A t \in Controllers : t \in SP!Tasks
      /\ \A r \in Requests : r \in Controllers
      /\ pending[c] = NoRow
  BY SinkFits, PipelineAssumption DEF BaseInv, TypesInv, SP!SinkInv, Controllers, FlushRule
<1>1. ctl[c] = "flushing" \/ FlushesRemaining(c)
  BY <1>0, CtlArrives
<1>2. db \/ buffer = <<>>
  BY DEF FlushRule
<1>3. CASE FlushesRemaining(c)
  <2>1. SP!Enter(c, NoRow)
    BY <1>3, SinkEnters DEF FlushesRemaining, Sink!Flush
  <2>2. lock = Free
    <3>1. CASE lock # Free
      <4>1. call'[c] = "lock"
        BY <1>0, <2>1, <3>1 DEF SP!Enter, SP!SinkTypeOK
      <4>2. QED  BY <4>1 DEF SP!Outside
    <3>2. QED  BY <3>1
  <2>3. QED  BY <1>2, <2>1, <2>2, FlushLeaves DEF SP!Enter
\* Another controller cannot be about to close, and this one does not stay.
<1>4. ASSUME NEW d \in Controllers, ctl[c] = "flushing", ctl[d] = "flushing",
             NEW x, x # "flushing", Goto(d, x)
      PROVE  FALSE
  <2>1. c = d
    BY <1>0, <1>4 DEF OneController, Busy
  <2>2. QED  BY <1>0, <1>4, <2>1 DEF Goto, CtlTypes
<1>5. ctl[c] = "flushing" => ~\E r \in Requests : Replaces(r)
  BY <1>0, <1>4, ReplacesSqlite
<1>6. ctl[c] = "flushing" => ~Boot
  BY <1>0 DEF Boot, Controls
<1>7. ASSUME ctl[c] = "flushing", SP!Outside(c)
      PROVE  lock' = Free /\ buffer' = <<>>
  <2>1. lock = Free /\ buffer = <<>> /\ ~LoopIsFree
    BY <1>7 DEF FlushRule, LoopIsFree, SP!Outside, Sink!Outside
  <2>2. ASSUME NEW job \in jobs, SP!Commit(job) \/ \E n : SP!Raise(job, n)
        PROVE  lock' = Free /\ buffer' = <<>>
    BY <2>1, <2>2 DEF SP!Commit, SP!Raise, SP!Answer
  <2>3. Inside => lock' = Free /\ buffer' = <<>>
    BY <1>6, <1>7, <2>1, <2>2 DEF Inside, sinkVars, SP!CommitElsewhere, SP!Close
  <2>4. QED  BY <1>5, <1>7, <2>1, <2>3 DEF SqlKind, SqlChildRuns
<1>8. ASSUME ctl[c] = "flushing", ~SP!Outside(c)
      PROVE  lock' = Free /\ buffer' = <<>>
  <2>1. call'[c] # call[c]
    BY <1>8 DEF SP!Outside
  <2>2. ASSUME NEW t, NEW row, SP!Enter(t, row), t \in SP!Tasks  PROVE FALSE
    <3>1. t # c
      BY <1>8, <2>2 DEF SP!Enter
    <3>2. QED  BY <1>0, <2>1, <2>2, <3>1, SinkCalls
  <2>3. ASSUME NEW t \in SP!Tasks, SP!Acquire(t)
        PROVE  lock' = Free /\ buffer' = <<>>
    <3>1. t = c
      BY <1>0, <2>1, <2>3, SP!LockedCalls DEF SP!Acquire
    <3>2. QED  BY <1>0, <1>2, <2>3, <3>1, FlushLeaves DEF SP!Acquire
  <2>4. ASSUME NEW job \in jobs, SP!Commit(job) \/ \E n : SP!Raise(job, n)
        PROVE  lock' = Free /\ buffer' = <<>>
    <3>1. PICK how \in {"out", "raised"} : SP!Answer(job, how)
      BY <2>4 DEF SP!Commit, SP!Raise
    <3>2. job.awaited /\ job.by = c
      <4>1. call \in [SP!Tasks -> {"out", "lock", "job", "raised"}]
        BY <1>0 DEF SP!SinkTypeOK
      <4>2. QED  BY <1>0, <2>1, <3>1, <4>1 DEF SP!Answer
    <3>3. lock = c
      BY <1>0, <3>2 DEF SP!SinkInv, SP!LockGuardsJob
    <3>4. lock # Free
      BY <1>0, <3>3, PipelineAssumption
    <3>5. QED  BY <3>1, <3>2, <3>4 DEF SP!Answer, SP!BufferRule
  <2>5. ASSUME NEW t \in Writers \cup {Flusher}, SP!CancelInside(t)  PROVE FALSE
    BY <1>0, <2>1, <2>5 DEF SP!CancelInside, SP!SinkTypeOK
  <2>6. ASSUME Inside  PROVE lock' = Free /\ buffer' = <<>>
    <3>1. ~\E d \in Controllers : ctl[d] = "flushing" /\ call[d] = "out"
                                  /\ Goto(d, IF d = Stop THEN "done" ELSE "error")
      BY <1>4, <1>8
    <3>2. ~UNCHANGED sinkVars
      BY <2>1 DEF sinkVars
    <3>3. ~SP!CommitElsewhere
      BY <2>1 DEF SP!CommitElsewhere
    <3>4. QED
      BY <1>0, <1>6, <1>8, <2>2, <2>3, <2>4, <2>5, <2>6, <3>1, <3>2, <3>3 DEF Inside
  <2>7. ASSUME NEW w \in Writers, SqlChildRuns(w)  PROVE FALSE
    <3>1. SP!Enter(w, <<Current(w), active>>)
      BY <2>7, SinkEnters DEF SqlChildRuns, Sink!Write
    <3>2. QED  BY <1>0, <2>2, <3>1
  <2>8. QED  BY <1>5, <1>8, <2>6, <2>7 DEF SqlKind
<1>9. QED  BY <1>1, <1>3, <1>7, <1>8

LEMMA StepFlush ==
    ASSUME BaseInv, OpenRule, FlushRule, SP!BufferRule, SqlInv, Moves, SqlKind
    PROVE  FlushRule'
<1>1. ~db' => buffer' = <<>>
  BY StepEmpty
<1>2. \A c \in Controllers :
         ctl'[c] = "flushing" /\ SP!Outside(c)' => lock' = Free /\ buffer' = <<>>
  BY StepFlushed
<1>3. \A t \in Controllers \cup {Flusher} : pending'[t] = NoRow
  BY StepWaits
<1>4. QED  BY <1>1, <1>2, <1>3 DEF FlushRule

\* Without an orphan the executor has nothing to do once a flush has left the
\* sink.
LEMMA NothingInside ==
    ASSUME BaseInv, FlushRule, SP!JobsCurrent, ~orphaned,
           NEW c \in Controllers, ctl[c] = "flushing", call[c] = "out"
    PROVE  lock = Free /\ buffer = <<>> /\ jobs = {}
<1>1. lock = Free /\ buffer = <<>>
  BY DEF FlushRule, SP!Outside
<1>2. \A j \in jobs : ~j.awaited
  BY <1>1, SinkFits, SP!FreeMeansIdle DEF BaseInv, TypesInv
<1>3. QED  BY <1>1, <1>2 DEF SP!JobsCurrent

\* Every batch is one that somebody waits for, of the connection there is.
LEMMA StepJobs ==
    ASSUME BaseInv, FlushRule, SP!JobsCurrent, SqlKind
    PROVE  SP!JobsCurrent'
<1>0. /\ SP!SinkInv /\ SP!SinkAssumption
      /\ \A w \in Writers : w \in SP!Tasks
      /\ \A t \in Controllers \cup {Flusher} : t \in SP!Tasks
      /\ \A r \in Requests : r \in Controllers
  BY SinkFits DEF BaseInv, TypesInv, Controllers
<1>1. ASSUME NEW c \in Controllers, ctl[c] = "flushing", call[c] = "out",
             jobs' = jobs, orphaned' = orphaned
      PROVE  SP!JobsCurrent'
  BY <1>1, NothingInside DEF SP!JobsCurrent
<1>2. ASSUME NEW job \in jobs, SP!Commit(job) \/ \E n : SP!Raise(job, n)
      PROVE  SP!JobsCurrent'
  BY <1>0, <1>2, SP!AnswerCurrent DEF SP!Commit, SP!Raise
<1>3. ASSUME Boot, SP!Start  PROVE SP!JobsCurrent'
  <2>1. ~db
    BY <1>3 DEF Boot, BaseInv, TypesInv, Connections
  <2>2. QED  BY <1>0, <1>3, <2>1, SP!OpenedCurrent DEF SP!Start
<1>4. UNCHANGED sinkVars => SP!JobsCurrent'
  BY DEF sinkVars, SP!JobsCurrent
<1>5. ASSUME NEW t \in Writers \cup {Flusher}, SP!CancelInside(t), UNCHANGED <<db, conn>>
      PROVE  SP!JobsCurrent'
  BY <1>0, <1>5, SP!CancelInsideCurrent
<1>6. ASSUME NEW t \in SP!Tasks, SP!Enter(t, NoRow) \/ SP!Acquire(t)
      PROVE  SP!JobsCurrent'
  BY <1>0, <1>6, SP!EnterCurrent, SP!AcquireCurrent
<1>7. CASE Inside
  <2>1. ASSUME SP!CommitElsewhere  PROVE SP!JobsCurrent'
    BY <2>1 DEF SP!CommitElsewhere, SP!JobsCurrent
  <2>2. SP!Close => jobs' = jobs /\ orphaned' = orphaned
    BY DEF SP!Close
  <2>3. QED
    BY <1>0, <1>1, <1>2, <1>3, <1>4, <1>5, <1>6, <1>7, <2>1, <2>2 DEF Inside
<1>8. ASSUME NEW w \in Writers, SqlChildRuns(w)  PROVE SP!JobsCurrent'
  BY <1>0, <1>8, SinkEnters, SP!EnterCurrent DEF SqlChildRuns, Sink!Write
<1>9. ASSUME NEW r \in Requests, Replaces(r)  PROVE SP!JobsCurrent'
  BY <1>0, <1>1, <1>9, ReplacesSqlite DEF SP!Replace, SP!Opened
<1>10. QED  BY <1>7, <1>8, <1>9 DEF SqlKind

LEMMA StepStores ==
    ASSUME ~overlapped, BaseInv, Stores, SqlInv, Moves, SqlKind, OpenKind, StampKind
    PROVE  Stores'
BY StepOpen, StepStamp, StepFlush, StepBuffer, StepJobs DEF Stores

-----------------------------------------------------------------------------
(***************************************************************************)
(* A row is in the file of the session it is stamped with.                 *)
(***************************************************************************)
\* A batch that was left running is not forgotten.
LEMMA OrphansStay ==
    ASSUME SqlKind, orphaned
    PROVE  orphaned'
<1>1. CASE Inside
  BY <1>1 DEF Inside, sinkVars, SP!Enter, SP!Acquire, SP!Commit, SP!Raise, SP!Answer,
              SP!CancelInside, SP!Start, SP!Opened, SP!CommitElsewhere, SP!Close
<1>2. ASSUME NEW w \in Writers, SqlChildRuns(w)  PROVE orphaned'
  BY <1>2, SinkEnters DEF SqlChildRuns, Sink!Write, SP!Enter
<1>3. ASSUME NEW r \in Requests, Replaces(r)  PROVE orphaned'
  BY <1>3, ReplacesSqlite DEF SP!Replace, SP!Opened
<1>4. QED  BY <1>1, <1>2, <1>3 DEF SqlKind

\* When the last flush has left the sink every row is in the live file, unless
\* one was left in an orphan's batch.
LEMMA AllStored ==
    ASSUME BaseInv, SqlInv, FlushRule, SP!JobsCurrent, ~orphaned,
           NEW c \in Controllers, ctl[c] = "flushing", call[c] = "out", NEW key
    PROVE  /\ jobs = {} /\ \A t \in SP!Tasks : pending[t] = NoRow
           /\ SP!Live(key) = SP!KeysOf(key, table)
<1>1. OneAlive /\ (c = Stop \/ c \in Requests)
  BY DEF Controllers, BaseInv, TypesInv
<1>2. jobs = {} /\ buffer = <<>>
  BY NothingInside
<1>3. \A t \in SP!Tasks : pending[t] = NoRow
  <2>1. SUFFICES ASSUME NEW t \in SP!Tasks, pending[t] # NoRow  PROVE FALSE
    OBVIOUS
  <2>2. t \in Writers /\ call[t] = "lock"
    BY <2>1, SinkFits DEF FlushRule, SqlInv, SP!Apart, SP!WaitersQueue
  <2>3. Alive(t)
    BY <2>2 DEF BaseInv, TypesInv, Children, ChildFits, InWrite, Alive
  <2>4. QED  BY <1>1, <2>2, <2>3, WritersFit DEF OneAlive, Gone
<1>4. /\ SP!KeysInJobs(key) = {} /\ SP!KeysWaiting(key) = {}
      /\ SP!KeysOf(key, buffer) = {}
  BY <1>2, <1>3, SinkFits, SP!EmptyKeys DEF SP!KeysInJobs, SP!KeysWaiting
<1>5. QED  BY <1>2, <1>3, <1>4 DEF SP!Live

LEMMA InitSession == Init => SessionInv
<1> SUFFICES ASSUME Init PROVE SessionInv
  OBVIOUS
<1>1. SP!SinkInit /\ SP!SinkAssumption
  BY SinkFits DEF Init, Sink!SinkInit, SP!SinkInit, Sink!Tasks, SP!Tasks
<1>2. SP!Live(SP!Itself) = {}
  BY <1>1, SP!NoRowsYet
<1>3. \A s \in Times : Backup(archive, s) = <<>>
  BY DEF Init, Backup
<1>4. 1 \in Sessions /\ Stamped(<<>>, 1)
  BY WritersFit DEF Stamped
<1>5. QED  BY <1>2, <1>3, <1>4 DEF SessionInv

\* A row is stamped with the session of the file it is going to, and rows are
\* put away with their file.
LEMMA StepSession ==
    ASSUME BaseInv, Stores, SqlInv, Marks, SessionInv, Moves, SqlKind
    PROVE  SessionInv'
<1> DEFINE I == SP!Itself
<1>0. /\ SP!SinkInv /\ SP!SinkTypeOK /\ SP!SinkAssumption
      /\ OneController /\ Controls /\ OneAlive /\ Connections
      /\ SP!Apart(I) /\ SP!Apart(Key)
      /\ \A r \in Requests : r \in Controllers
  BY SinkFits, SP!ApartThemselves DEF BaseInv, TypesInv, SP!SinkInv, SqlInv, Controllers
<1> HIDE DEF I
<1>1. booted => booted'
  BY DEF Moves, Placed
<1>2. orphaned => orphaned'
  BY OrphansStay
<1>3. /\ ~booted => SP!Live(I) = {}
      /\ ~orphaned => \A row \in SP!Live(I) : row[2] = conn
      /\ ~orphaned => \A s \in Times : \E n \in Sessions : Stamped(Backup(archive, s), n)
  BY DEF SessionInv, I
\* The backups stay.
<1>4. ASSUME NEW new, SP!RowsMove(I, new), archive' = archive,
             ~booted' => new = {}, \A row \in new : row[2] = conn,
             conn' = conn \/ (~booted /\ new = {})
      PROVE  SessionInv'
  <2>1. ~booted' => SP!Live(I)' = {}
    BY <1>1, <1>3, <1>4 DEF SP!RowsMove
  <2>2. ~orphaned' => \A row \in SP!Live(I)' : row[2] = conn'
    BY <1>2, <1>3, <1>4 DEF SP!RowsMove
  <2>3. \A s \in Times : Backup(archive', s) = Backup(archive, s)
    BY <1>4 DEF Backup
  <2>4. ~orphaned' => \A s \in Times : \E n \in Sessions : Stamped(Backup(archive', s), n)
    BY <1>2, <1>3, <2>3
  <2>5. QED  BY <2>1, <2>2, <2>4 DEF SessionInv, Backup, Stamped, I
<1>5. CASE Inside /\ archive' = archive
  <2>1. SP!RowsMove(I, {})
    BY <1>0, <1>5, InsideMoves
  <2>2. conn' = conn \/ ~booted
    BY <1>5 DEF Inside, sinkVars, Boot, SP!Enter, SP!Acquire, SP!Commit, SP!Raise, SP!Answer,
                SP!CommitElsewhere, SP!Close
  <2>3. \A row \in {} : row[2] = conn
    OBVIOUS
  <2>4. QED  BY <1>4, <1>5, <2>1, <2>2, <2>3
<1>6. ASSUME NEW w \in Writers, SqlChildRuns(w)  PROVE SessionInv'
  <2> DEFINE row == <<Current(w), active>>
  <2>1. sqlChild[w] = "new" /\ archive' = archive /\ SP!Enter(w, row)
    BY <1>6, SinkEnters DEF SqlChildRuns, Others, fileVars, Sink!Write
  <2>2. row \in Rows /\ Key[row] \notin SP!Live(Key) \cup SP!KeysLost(Key)
    BY <2>1, NewToSink DEF SqlUsed
  <2>3. I[row] = row
    BY <2>2 DEF I, SP!Itself
  <2>4. row \notin SP!Live(I) \cup SP!KeysLost(I)
    BY <1>0, <2>2, SP!RowsShow DEF SP!Live, I
  <2>5. SP!RowsMove(I, {row})
    BY <1>0, <1>6, <2>3, <2>4, ChildMoves
  <2>6. Alive(w)
    BY <2>1, RowFits DEF BaseInv, TypesInv, InWrite, Alive
  <2>7. row[2] = conn
    BY <2>6 DEF Stores, StampRule
  <2>8. booted
    BY <1>0, <2>6 DEF OneAlive, Alive
  <2>9. conn' = conn
    BY <2>1 DEF SP!Enter
  <2> HIDE DEF row
  <2>10. \A x \in {row} : x[2] = conn
    BY <2>7
  <2>11. booted'
    BY <1>1, <2>8
  <2>12. QED  BY <1>4, <2>1, <2>5, <2>9, <2>10, <2>11
<1>7. ASSUME NEW r \in Requests, Replaces(r)  PROVE SessionInv'
  <2>1. /\ ctl[r] = "flushing" /\ call[r] = "out" /\ orphaned' = orphaned
        /\ SP!Replace
    BY <1>7, ReplacesSqlite DEF SP!Replace, SP!Opened
  <2>2. booted
    BY <1>0, <2>1 DEF Controls
  <2>3. SUFFICES ASSUME ~orphaned  PROVE SessionInv'
    BY <1>1, <2>1, <2>2 DEF SessionInv
  <2>4. SP!Live(I) = SP!KeysOf(I, table)
    BY <1>0, <2>1, <2>3, AllStored DEF Stores
  <2>5. SP!Live(I)' = {}
    BY <1>0, <2>1, <2>4, SP!ReplaceMoves
  <2>6. \A i \in 1 .. Len(table) : table[i] \in SP!Live(I)
    <3>1. table \in Seq(Rows)
      BY <1>0 DEF SP!SinkTypeOK
    <3>2. \A i \in 1 .. Len(table) : I[table[i]] = table[i]
      BY <3>1 DEF I, SP!Itself
    <3>3. QED  BY <2>4, <3>2 DEF SP!KeysOf
  <2>7. Stamped(table, conn) /\ conn \in Sessions
    BY <1>0, <1>3, <2>2, <2>3, <2>6, ConnIsSession DEF Stamped
  <2>a. Stamped(SP!Committed, conn)
    <3>1. /\ Len(SP!Committed) \in 0 .. Len(table) /\ Len(table) \in Nat
          /\ \A i \in 1 .. Len(SP!Committed) : SP!Committed[i] = table[i]
      BY <1>0, SP!CommittedFits DEF SP!SinkTypeOK
    <3>2. QED  BY <2>7, <3>1 DEF Stamped
  <2>8. 1 \in Sessions /\ Stamped(<<>>, 1)
    BY WritersFit DEF Stamped
  <2>9. \A s \in Times : \E n \in Sessions : Stamped(Backup(archive', s), n)
    <3>1. TAKE s \in Times
    <3>2. \/ Backup(archive', s) = Backup(archive, s)
          \/ Backup(archive', s) \in {<<>>, SP!Committed}
      BY <1>7, BackupsReplaced
    <3>3. QED  BY <1>3, <2>3, <2>7, <2>a, <2>8, <3>2
  <2>10. QED  BY <1>1, <2>2, <2>5, <2>9 DEF SessionInv, Backup, Stamped, I
<1>8. QED  BY <1>5, <1>6, <1>7 DEF SqlKind

LEMMA SessionsMatch ==
    ASSUME BaseInv, SqlInv, SessionInv
    PROVE  SessionMatchesFile
<1>1. SUFFICES ASSUME ~orphaned
      PROVE  /\ \A i \in 1 .. Len(table \o buffer) : (table \o buffer)[i][2] = conn
             /\ \A s \in Times : archive[s] # None =>
                   \A i, j \in 1 .. Len(archive[s]) :
                      archive[s][i][2] = archive[s][j][2] /\ archive[s][i][2] # None
  BY DEF SessionMatchesFile
<1>2. table \in Seq(Rows) /\ buffer \in Seq(Rows)
  BY DEF BaseInv, TypesInv, SP!SinkInv, SP!SinkTypeOK
<1>3. \A i \in 1 .. Len(table \o buffer) : (table \o buffer)[i][2] = conn
  <2>1. \A seq \in Seq(Rows) : \A i \in 1 .. Len(seq) : seq[i] \in SP!KeysOf(SP!Itself, seq)
    BY DEF SP!KeysOf, SP!Itself
  <2>2. \A i \in 1 .. Len(table) : table[i][2] = conn
    BY <1>1, <1>2, <2>1 DEF SessionInv, SP!Live
  <2>3. \A i \in 1 .. Len(buffer) : buffer[i][2] = conn
    BY <1>1, <1>2, <2>1 DEF SessionInv, SP!Live
  <2>4. \A i \in 1 .. Len(table \o buffer) :
           \/ i \in 1 .. Len(table) /\ (table \o buffer)[i] = table[i]
           \/ i - Len(table) \in 1 .. Len(buffer)
              /\ (table \o buffer)[i] = buffer[i - Len(table)]
    BY <1>2
  <2>5. QED  BY <2>2, <2>3, <2>4
<1>4. ASSUME NEW s \in Times, archive[s] # None,
             NEW i \in 1 .. Len(archive[s]), NEW j \in 1 .. Len(archive[s])
      PROVE  archive[s][i][2] = archive[s][j][2] /\ archive[s][i][2] # None
  <2>1. \E n \in Sessions : Stamped(Backup(archive, s), n)
    BY <1>1 DEF SessionInv
  <2>2. Backup(archive, s) = archive[s]
    BY <1>4 DEF Backup
  <2>3. QED  BY <1>4, <2>1, <2>2, PipelineAssumption DEF Stamped
<1>5. QED  BY <1>3, <1>4

-----------------------------------------------------------------------------
(***************************************************************************)
(* Both live files are in the order of publication.                        *)
(***************************************************************************)
LEMMA InitOrder == Init => OrderInv
<1> SUFFICES ASSUME Init PROVE OrderInv
  OBVIOUS
<1>1. /\ table = <<>> /\ buffer = <<>> /\ jobs = {}
      /\ \A t \in SP!Tasks : pending[t] = NoRow
  BY DEF Init, Sink!SinkInit, Sink!Tasks, SP!Tasks
<1>2. SP!Rises(Key, <<>>) /\ SP!Before(SP!KeysOf(Key, <<>>), SP!KeysOf(Key, <<>>))
  BY SinkFits, SP!EmptyKeys DEF SP!Rises, SP!Before
<1>3. QED  BY <1>1, <1>2 DEF OrderInv, SP!FileRises, SP!WaitsLast

\* One row waits at most, and it is the running writer's.
LEMMA OneWaits ==
    ASSUME BaseInv, SqlInv, FlushRule, NEW t \in SP!Tasks, pending[t] # NoRow
    PROVE  t \in Writers /\ t = writerTask /\ call[t] = "lock"
<1>1. t \in Writers /\ call[t] = "lock"
  BY SinkFits DEF FlushRule, SqlInv, SP!Apart, SP!WaitersQueue
<1>2. Alive(t)
  BY <1>1 DEF BaseInv, TypesInv, Children, ChildFits, InWrite, Alive
<1>3. QED  BY <1>1, <1>2 DEF BaseInv, TypesInv, OneAlive

\* What the store does by itself lets it wait, or lets no row wait.
LEMMA InsideWaits ==
    ASSUME BaseInv, SqlInv, FlushRule, Inside
    PROVE  pending' = pending \/ \A t \in SP!Tasks : pending'[t] = NoRow
<1>0. pending \in [SP!Tasks -> Rows \cup {NoRow}]
  BY DEF BaseInv, TypesInv, SP!SinkInv, SP!SinkTypeOK
<1>1. ASSUME NEW t \in SP!Tasks, pending' = [pending EXCEPT ![t] = NoRow]
      PROVE  pending' = pending \/ \A u \in SP!Tasks : pending'[u] = NoRow
  <2>1. CASE pending[t] = NoRow
    BY <1>0, <1>1, <2>1
  <2>2. CASE pending[t] # NoRow
    <3>1. \A u \in SP!Tasks : u # t => pending[u] = NoRow
      BY <2>2, OneWaits
    <3>2. QED  BY <1>0, <1>1, <3>1
  <2>3. QED  BY <2>1, <2>2
<1>2. ASSUME NEW t \in SP!Tasks,
             SP!Enter(t, NoRow) \/ SP!Acquire(t) \/ SP!CancelInside(t)
      PROVE  pending' = pending \/ \A u \in SP!Tasks : pending'[u] = NoRow
  BY <1>1, <1>2 DEF SP!Enter, SP!Acquire, SP!CancelInside
<1>3. \A t \in Writers \cup Controllers \cup {Flusher} : t \in SP!Tasks
  BY SinkFits
<1>4. QED
  BY <1>2, <1>3 DEF Inside, sinkVars, SP!Commit, SP!Raise, SP!Answer, SP!Start, SP!Opened,
                    SP!CommitElsewhere, SP!Close

\* While the lock is free and there is no orphan the executor is idle.
LEMMA IdleExecutor ==
    ASSUME BaseInv, SP!JobsCurrent, ~orphaned, lock = Free
    PROVE  jobs = {}
BY SinkFits, SP!FreeMeansIdle DEF BaseInv, TypesInv, SP!JobsCurrent

\* What the store does by itself leaves the rows in order.
LEMMA InsideRises ==
    ASSUME BaseInv, Stores, SqlInv, ~orphaned, Inside,
           SP!FileRises(Key), SP!WaitsLast(Key)
    PROVE  SP!FileRises(Key)'
<1>0. /\ SP!SinkInv /\ SP!SinkTypeOK /\ SP!SinkAssumption
      /\ SP!JobsCurrent /\ SP!BufferRule
      /\ \A j \in jobs : j.awaited
      /\ \A t \in SP!Tasks : pending[t] \in Rows \cup {NoRow}
  BY SinkFits DEF BaseInv, TypesInv, SP!SinkInv, SP!SinkTypeOK, Stores, SP!JobsCurrent
<1>1. ASSUME UNCHANGED <<table, buffer>>, jobs' \subseteq jobs  PROVE SP!FileRises(Key)'
  BY <1>0, <1>1, SP!StillRises
<1>2. ASSUME NEW t \in SP!Tasks, SP!Enter(t, NoRow)  PROVE SP!FileRises(Key)'
  <2>1. CASE lock = Free
    <3>1. SP!Locked(t, NoRow) /\ table' = table /\ jobs = {}
      BY <1>0, <1>2, <2>1, IdleExecutor DEF SP!Enter
    <3>2. SP!KeysNew(Key, NoRow) = {}
      BY DEF SP!KeysNew
    <3>3. QED  BY <1>0, <3>1, <3>2, SP!LockedRises
  <2>2. CASE lock # Free
    BY <1>1, <1>2, <2>2 DEF SP!Enter
  <2>3. QED  BY <2>1, <2>2
<1>3. ASSUME NEW t \in SP!Tasks, SP!Acquire(t)  PROVE SP!FileRises(Key)'
  <2>1. SP!Locked(t, pending[t]) /\ table' = table /\ jobs = {}
    BY <1>0, <1>3, IdleExecutor DEF SP!Acquire
  <2>2. \A k \in SP!KeysNew(Key, pending[t]) :
           SP!Below(SP!KeysOf(Key, table) \cup SP!KeysOf(Key, buffer), k)
    BY DEF SP!KeysNew, SP!WaitsLast, SP!Below
  <2>3. QED  BY <1>0, <2>1, <2>2, SP!LockedRises
<1>4. ASSUME NEW job \in jobs, SP!Commit(job)  PROVE SP!FileRises(Key)'
  BY <1>0, <1>4, SP!CommitRises
<1>5. ASSUME NEW job \in jobs, NEW n \in 0 .. Len(job.rows), SP!Raise(job, n)
      PROVE  SP!FileRises(Key)'
  BY <1>0, <1>5, SP!RaiseRises
<1>6. ASSUME NEW t, SP!CancelInside(t), UNCHANGED <<table, buffer>>
      PROVE  SP!FileRises(Key)'
  <2>1. \A j \in jobs' : \E i \in jobs : j.rows = i.rows
    <3>1. \A i \in jobs : [i EXCEPT !.awaited = FALSE].rows = i.rows
      BY <1>0 DEF SP!SinkTypeOK, SP!Job
    <3>2. \E unbegun :
             jobs' = {IF j.by = t THEN [j EXCEPT !.awaited = FALSE] ELSE j
                         : j \in jobs \ unbegun}
      BY <1>6 DEF SP!CancelInside
    <3>3. QED  BY <3>1, <3>2
  <2>2. QED  BY <1>0, <1>6, <2>1, SP!StillRises
<1>7. \A t \in Writers \cup Controllers \cup {Flusher} : t \in SP!Tasks
  BY SinkFits
<1>8. SP!Close => SP!FileRises(Key)'
  BY <1>0, SP!CloseRises
<1>9. SP!CommitElsewhere => SP!FileRises(Key)'
  BY <1>1 DEF SP!CommitElsewhere
<1>10. QED
  BY <1>1, <1>2, <1>3, <1>4, <1>5, <1>6, <1>7, <1>8, <1>9
     DEF Inside, sinkVars, SP!Start, SP!Opened

\* Rows reach the file in the order in which their events were published.
LEMMA StepOrder ==
    ASSUME BaseInv, Stores, SqlInv, SqlInv', Marks, OrderInv, SqlKind
    PROVE  OrderInv'
<1>0. /\ SP!SinkInv /\ SP!SinkTypeOK /\ SP!SinkAssumption
      /\ SP!JobsCurrent /\ FlushRule
      /\ SP!Apart(Key) /\ SP!Apart(Key)'
      /\ \A w \in Writers : w \in SP!Tasks
      /\ \A r \in Requests : r \in Controllers
  BY SinkFits DEF BaseInv, TypesInv, SP!SinkInv, Stores, SqlInv, Controllers
<1>1. SUFFICES ASSUME ~orphaned', ~orphaned, SP!FileRises(Key), SP!WaitsLast(Key)
               PROVE  SP!FileRises(Key)' /\ SP!WaitsLast(Key)'
  BY OrphansStay DEF OrderInv
<1>2. (\A t \in SP!Tasks : pending'[t] = NoRow) => SP!WaitsLast(Key)'
  BY DEF SP!WaitsLast
<1>3. CASE Inside
  <2>1. SP!FileRises(Key)'
    BY <1>1, <1>3, InsideRises
  <2>2. SP!Live(Key)' \subseteq SP!Live(Key)
    BY <1>0, <1>3, InsideMoves DEF SP!RowsMove
  <2>3. pending' = pending \/ \A t \in SP!Tasks : pending'[t] = NoRow
    BY <1>0, <1>3, InsideWaits
  <2>4. pending' = pending => SP!WaitsLast(Key)'
    BY <1>0, <1>1, <2>2, SP!WaitersStay
  <2>5. QED  BY <1>2, <2>1, <2>3, <2>4
<1>4. ASSUME NEW w \in Writers, SqlChildRuns(w)
      PROVE  SP!FileRises(Key)' /\ SP!WaitsLast(Key)'
  <2> DEFINE row == <<Current(w), active>>
  <2>1. sqlChild[w] = "new" /\ SP!Enter(w, row) /\ row # NoRow
    BY <1>4, SinkEnters DEF SqlChildRuns, Sink!Write
  <2>2. /\ row \in Rows /\ Key[row] = Current(w)
        /\ SP!Below(SqlUsed, Current(w))
    BY <2>1, NewToSink
  <2>3. SP!Below(SP!KeysOf(Key, table) \cup SP!KeysInJobs(Key) \cup SP!KeysOf(Key, buffer),
                 Key[row])
    BY <2>2 DEF SqlUsed, SP!Live, SP!Below
\* Nobody else waits with a row.
  <2>4. \A t \in SP!Tasks : pending[t] = NoRow
    <3>1. SUFFICES ASSUME NEW t \in SP!Tasks, pending[t] # NoRow  PROVE FALSE
      OBVIOUS
    <3>2. t \in Writers /\ t = writerTask /\ call[t] = "lock"
      BY <1>0, <3>1, OneWaits
    <3>3. Alive(w)
      BY <2>1, RowFits DEF BaseInv, TypesInv, InWrite, Alive
    <3>4. t = w
      BY <3>2, <3>3 DEF BaseInv, TypesInv, OneAlive
    <3>5. QED  BY <2>1, <3>2, <3>4 DEF SP!Enter, SP!Outside
  <2> HIDE DEF row
  <2>5. CASE lock = Free
    <3>1. SP!Locked(w, row) /\ table' = table /\ jobs = {} /\ pending' = pending
      BY <1>0, <1>1, <2>1, <2>5, IdleExecutor DEF SP!Enter
    <3>2. \A k \in SP!KeysNew(Key, row) :
             SP!Below(SP!KeysOf(Key, table) \cup SP!KeysOf(Key, buffer), k)
      BY <2>3 DEF SP!KeysNew, SP!Below
    <3>3. SP!FileRises(Key)'
      BY <1>0, <1>1, <2>2, <3>1, <3>2, SP!LockedRises
    <3>4. QED  BY <1>2, <2>4, <3>1, <3>3
  <2>6. CASE lock # Free
    <3>1. /\ UNCHANGED <<table, buffer, jobs>>
          /\ pending' = [pending EXCEPT ![w] = row]
      BY <2>1, <2>6 DEF SP!Enter
    <3>2. SP!FileRises(Key)'
      BY <1>0, <1>1, <3>1, SP!StillRises
    <3>3. \A t \in SP!Tasks : pending'[t] # NoRow => t = w /\ pending'[t] = row
      BY <1>0, <2>4, <3>1 DEF SP!SinkTypeOK
    <3>4. /\ SP!KeysOf(Key, table)' = SP!KeysOf(Key, table)
          /\ SP!KeysOf(Key, buffer)' = SP!KeysOf(Key, buffer)
          /\ SP!KeysInJobs(Key)' = SP!KeysInJobs(Key)
      BY <3>1 DEF SP!KeysOf, SP!KeysInJobs
    <3>5. SP!WaitsLast(Key)'
      BY <2>3, <3>3, <3>4 DEF SP!WaitsLast
    <3>6. QED  BY <3>2, <3>5
  <2>7. QED  BY <2>5, <2>6
<1>5. ASSUME NEW r \in Requests, Replaces(r)
      PROVE  SP!FileRises(Key)' /\ SP!WaitsLast(Key)'
  <2>1. /\ ctl[r] = "flushing" /\ call[r] = "out"
        /\ table' = <<>> /\ UNCHANGED <<buffer, jobs, pending>>
    BY <1>5, ReplacesSqlite DEF SP!Replace, SP!Opened
  <2>2. jobs = {} /\ \A t \in SP!Tasks : pending[t] = NoRow
    BY <1>0, <1>1, <2>1, AllStored
  <2>3. SP!KeysOf(Key, <<>>) = {} /\ SP!Rises(Key, <<>>)
    BY <1>0, SP!EmptyKeys DEF SP!Rises
  <2>4. SP!Rises(Key, table') /\ SP!KeysOf(Key, table') = {}
        /\ SP!Rises(Key, buffer') /\ jobs' = {}
    BY <1>1, <2>1, <2>2, <2>3 DEF SP!FileRises
  <2>5. SP!FileRises(Key)'
    BY <2>4 DEF SP!FileRises, SP!Rises, SP!Before, SP!Below, SP!KeysOf
  <2>6. QED  BY <1>2, <2>1, <2>2, <2>5
<1>6. QED  BY <1>3, <1>4, <1>5 DEF SqlKind

LEMMA FilesAscend ==
    ASSUME BaseInv, JsonInv, OrderInv
    PROVE  FilesInOrder
<1>1. Ascending(lines)
  BY DEF JsonInv
<1>2. ASSUME ~orphaned  PROVE Ascending(Events(table \o buffer))
  <2>1. table \in Seq(Rows) /\ buffer \in Seq(Rows)
    BY DEF BaseInv, TypesInv, SP!SinkInv, SP!SinkTypeOK
  <2>2. SP!Rises(Key, table \o buffer)
    BY <1>2, <2>1, SinkFits, SP!ConcatRises DEF OrderInv, SP!FileRises
  <2> DEFINE rows == table \o buffer
  <2>3. rows \in Seq(Rows)
    BY <2>1
  <2> HIDE DEF rows
  <2>4. \A i \in 1 .. Len(rows) : Key[rows[i]] = rows[i][1]
    BY <2>3 DEF Key
  <2>5. /\ Len(Events(rows)) = Len(rows)
        /\ \A i \in 1 .. Len(rows) : Events(rows)[i] = rows[i][1]
    BY <2>3 DEF Events
  <2>6. Ascending(Events(rows))
    BY <2>2, <2>4, <2>5 DEF Ascending, SP!Rises, rows
  <2>7. QED  BY <2>6 DEF rows
<1>3. QED  BY <1>1, <1>2 DEF FilesInOrder

-----------------------------------------------------------------------------
(***************************************************************************)
(* A drain brings what was taken into both files.                          *)
(***************************************************************************)
\* With all its rows committed, the file is what its connection sees.
LEMMA AllCommitted ==
    ASSUME SP!SinkInv, uncommitted = 0
    PROVE  SP!Committed = table
<1>1. table \in Seq(Rows) /\ SP!Committed = SubSeq(table, 1, Len(table) - 0)
  BY DEF SP!SinkInv, SP!SinkTypeOK, SP!Committed
<1>2. QED  BY <1>1

\* A fault is remembered, and rows are lost, or left uncommitted, only to one,
\* to a connection that was closed too early, or with a periodic flush.
LEMMA FaultKinds ==
    ASSUME CtlTypes, SP!SinkInv, [Next]_vars
    PROVE  /\ cut => cut'
           /\ failures' = failures \/ failures' = failures + 1
           /\ \/ lost' = lost /\ uncommitted' \in {uncommitted, 0}
              \/ cut' \/ orphaned' \/ failures' = failures + 1
              \/ \E job \in jobs : ~db \/ job.conn # conn
              \/ pending[Flusher] # NoRow
              \/ uncommitted # 0
<1> DEFINE Spared == lost' = lost /\ uncommitted' \in {uncommitted, 0}
           Goal ==
       /\ cut => cut'
       /\ failures' = failures \/ failures' = failures + 1
       /\ \/ Spared
          \/ cut' \/ orphaned' \/ failures' = failures + 1
          \/ \E job \in jobs : ~db \/ job.conn # conn
          \/ pending[Flusher] # NoRow
          \/ uncommitted # 0
<1> SUFFICES Goal  OBVIOUS
<1>0. \/ Spared
      \/ ~(lost' = lost /\ uncommitted' = uncommitted)
  OBVIOUS
<1>1. cut' = cut /\ failures' = failures /\ (Spared \/ uncommitted # 0) => Goal
  OBVIOUS
<1>a. SP!Close \/ SP!Replace => Spared \/ uncommitted # 0
  <2>1. SP!Close \/ SP!Replace => SP!RolledBack
    BY DEF SP!Close, SP!Replace
  <2>2. QED  BY <2>1, AllCommitted DEF SP!RolledBack
<1> HIDE DEF Goal
<1> USE <1>0 DEF envVars, writerVars, sinkVars, Others
<1>2. CASE Boot
  BY <1>1, <1>2 DEF Boot, Sink!Start, Sink!Opened
<1>3. CASE Publish \/ ClockTicks \/ StopBegins
  BY <1>1, <1>3 DEF Publish, ClockTicks, StopBegins
<1>4. CASE PeriodicFlush \/ CommitsElsewhere
  BY <1>1, <1>4 DEF PeriodicFlush, Sink!PeriodicFlush, Sink!Flush, Sink!Enter,
                    CommitsElsewhere, Sink!CommitElsewhere
<1>5. CASE ExecutorAnswers
  <2>1. PICK job \in jobs : Sink!Commit(job) \/ Sink!CutOff(job)
    BY <1>5 DEF ExecutorAnswers
  <2>2. cut' = cut /\ failures' = failures
    BY <1>5 DEF ExecutorAnswers
  <2>3. Sink!Commit(job) => Spared
    BY DEF Sink!Commit
  <2>4. QED  BY <1>1, <2>1, <2>2, <2>3 DEF Goal, Sink!CutOff
<1>6. CASE ExecutorRaises
  BY <1>6 DEF Goal, ExecutorRaises, Fault
<1>7. ASSUME NEW w \in Writers, WriterStep(w)  PROVE Goal
  <2>1. CASE SqlChildRuns(w)
    BY <1>1, <2>1 DEF SqlChildRuns, Sink!Write, Sink!Enter
  <2>2. CASE JsonChildRuns(w)
    BY <2>2 DEF Goal, JsonChildRuns, Fault
  <2>3. CASE WriterStarts(w) \/ WriterTakes(w) \/ WriterTimesOut(w) \/ SqlChildEnds(w)
             \/ WriterGathered(w)
    BY <1>1, <2>3 DEF WriterStarts, WriterTakes, WriterTimesOut, SqlChildEnds, WriterGathered
  <2>4. QED  BY <1>7, <2>1, <2>2, <2>3 DEF WriterStep
<1>8. ASSUME NEW t, Granted(t)  PROVE Goal
  BY <1>1, <1>8 DEF Granted, Sink!Acquire
<1>9. ASSUME NEW c, CancelCurrent(c), failures' = failures  PROVE Goal
  <2>1. ASSUME NEW w, CancelWriter(w)  PROVE cut' = TRUE \/ (cut' = cut /\ Spared)
    BY <2>1 DEF CancelWriter
  <2>2. cut' = TRUE \/ (cut' = cut /\ Spared)
    BY <1>9, <2>1 DEF CancelCurrent
  <2>3. QED  BY <1>9, <2>2 DEF Goal
<1>10. CASE CollectorsStopped \/ \E r \in Requests : RequestBegins(r)
  BY <1>9, <1>10 DEF CollectorsStopped, RequestBegins
<1>11. ASSUME NEW c \in Controllers, SessionEnded(c)  PROVE Goal
  <2>1. cut' = cut /\ failures' = failures /\ (Sink!StopFlushTask \/ UNCHANGED sinkVars)
    BY <1>11 DEF SessionEnded
  <2>2. ASSUME Sink!StopFlushTask
        PROVE  orphaned' \/ pending[Flusher] # NoRow \/ Spared
    <3>1. PICK unbegun \in SUBSET {j \in jobs : j.awaited /\ j.by = Flusher} :
             /\ lost' = lost \cup ({pending[Flusher]} \ {NoRow})
                             \cup UNION {Sink!RowsOf(j.rows) : j \in unbegun}
             /\ orphaned' = (orphaned \/ call[Flusher] = "job")
      BY <2>2 DEF Sink!StopFlushTask, Sink!CancelInside
    <3>2. unbegun # {} => call[Flusher] = "job"
      BY <3>1, SinkFits DEF SP!SinkInv, SP!LockGuardsJob
    <3>3. unbegun = {} /\ pending[Flusher] = NoRow => lost' = lost
      BY <3>1
    <3>4. uncommitted' = uncommitted
      BY <2>2 DEF Sink!StopFlushTask
    <3>5. QED  BY <3>1, <3>2, <3>3, <3>4
  <2>3. QED  BY <1>1, <2>1, <2>2 DEF Goal
<1>12. ASSUME NEW c \in Controllers, WriterAwaited(c) \/ FlushesRemaining(c) \/ FlushRaised(c)
                                     \/ RequestEnds(c)
       PROVE  Goal
  BY <1>1, <1>12
     DEF WriterAwaited, FlushesRemaining, FlushRaised, RequestEnds, Sink!Flush, Sink!Enter
<1>b. ASSUME NEW c \in Controllers, FilesReplaced(c) \/ StopCloses  PROVE Goal
  <2>1. cut' = cut /\ failures' = failures /\ (SP!Replace \/ SP!Close)
    BY <1>b, SinkOpens DEF FilesReplaced, SqliteReplaced, StopCloses
  <2>2. QED  BY <1>1, <1>a, <2>1
<1>13. ASSUME NEW c \in Controllers, SessionRaises(c) \/ RenameRaises(c) \/ JsonlRaises(c)
       PROVE  Goal
  <2>1. cut' = cut /\ (Fault \/ (failures' = failures /\ (UNCHANGED sinkVars \/ SP!Replace)))
    BY <1>13, SinkOpens DEF SessionRaises, RenameRaises, JsonlRaises, SqliteReplaced
  <2>2. QED  BY <1>1, <1>a, <2>1 DEF Goal, Fault
<1>14. CASE UNCHANGED vars
  BY <1>1, <1>14 DEF vars
<1>15. ASSUME NEW c \in Controllers, ControllerStep(c)  PROVE Goal
  BY <1>10, <1>11, <1>12, <1>b, <1>13, <1>15 DEF ControllerStep
<1>16. QED
  BY <1>2, <1>3, <1>4, <1>5, <1>6, <1>7, <1>8, <1>10, <1>14, <1>15 DEF Next

\* Without a fault nothing is lost, or left uncommitted.
LEMMA NothingLost ==
    ASSUME BaseInv, Stores, DrainInv, SqlKind, [Next]_vars, NoFault'
    PROVE  NoFault /\ lost' = lost /\ uncommitted = 0 /\ uncommitted' = 0
<1>1. NoFault
  <2>1. failures \in Nat
    BY DEF BaseInv, TypesInv, CtlTypes
  <2>2. CtlTypes /\ SP!SinkInv
    BY DEF BaseInv, TypesInv
  <2>3. QED  BY <2>1, <2>2, FaultKinds, OrphansStay DEF NoFault
<1>2. /\ pending[Flusher] = NoRow /\ uncommitted = 0
      /\ \A job \in jobs : db /\ job.conn = conn
  BY <1>1 DEF Stores, FlushRule, SP!JobsCurrent, NoFault, DrainInv
<1>3. failures' # failures + 1 /\ ~cut' /\ ~orphaned' /\ CtlTypes /\ SP!SinkInv
  BY <1>1 DEF NoFault, BaseInv, TypesInv
<1>4. QED  BY <1>1, <1>2, <1>3, FaultKinds

\* What a writer has taken stays on its way to the stores until its children
\* have handed it over.
LEMMA StepDelivered ==
    ASSUME BaseInv, WriterKind, ~cut', NEW w \in Writers, Delivered(w),
           In(lines) \subseteq In(lines'), SP!Live(Key) \subseteq SP!Live(Key)',
           JsonChildRuns(w) => Current(w) \in In(lines'),
           SqlChildRuns(w) => Current(w) \in SP!Live(Key)'
    PROVE  Delivered(w)'
<1>0. BusInv /\ PcTypes /\ ChildFits(w)
      /\ taken[w] \in Seq(Nat) /\ queue[w] \in Seq(Nat)
  BY StreamFacts DEF BaseInv, TypesInv, Children
\* Nothing is taken.
<1>1. ASSUME taken'[w] = taken[w],
             pc'[w] = "ended" => queue'[w] = <<>>,
             sqlChild[w] = "new" => sqlChild'[w] = "new" \/ SqlChildRuns(w),
             jsonChild[w] = "new" => jsonChild'[w] = "new" \/ JsonChildRuns(w)
      PROVE  Delivered(w)'
  <2>1. ASSUME NEW i \in 1 .. Len(taken[w])
        PROVE  /\ taken[w][i] \in In(lines') \/ (i = Len(taken[w]) /\ jsonChild'[w] = "new")
               /\ taken[w][i] \in SP!Live(Key)' \/ (i = Len(taken[w]) /\ sqlChild'[w] = "new")
    BY <1>1, <2>1 DEF Delivered, TakenFits, Current
  <2>2. QED  BY <1>1, <2>1 DEF Delivered, TakenFits, In
\* An event is taken once the last one is done with.
<1>2. ASSUME NEW at, Gather(w, at), at # "ended", sqlChild[w] # "new", jsonChild[w] # "new"
      PROVE  Delivered(w)'
  <2>1. /\ Len(taken'[w]) = Len(taken[w]) + 1
        /\ \A i \in 1 .. Len(taken[w]) : taken'[w][i] = taken[w][i]
    BY <1>0, <1>2, GetFacts DEF Gather
  <2>2. pc'[w] = at /\ sqlChild'[w] = "new" /\ jsonChild'[w] = "new"
    BY <1>0, <1>2 DEF Gather, PcTypes
  <2>3. ASSUME NEW i \in 1 .. Len(taken'[w])
        PROVE  /\ taken'[w][i] \in In(lines') \/ (i = Len(taken'[w]) /\ jsonChild'[w] = "new")
               /\ taken'[w][i] \in SP!Live(Key)' \/ (i = Len(taken'[w]) /\ sqlChild'[w] = "new")
    <3>1. i \in 1 .. Len(taken[w]) \/ i = Len(taken'[w])
      BY <1>0, <2>1
    <3>2. CASE i \in 1 .. Len(taken[w])
      BY <1>2, <2>1, <3>2 DEF Delivered, TakenFits
    <3>3. QED  BY <2>2, <3>1, <3>2
  <2>4. QED  BY <1>2, <2>2, <2>3 DEF Delivered, TakenFits, In
<1>3. ASSUME Drain(w) \/ LoopHead(w) \/ Gather(w, "gather"),
             sqlChild[w] # "new", jsonChild[w] # "new"
      PROVE  Delivered(w)'
  <2>1. CASE queue[w] = <<>> /\ Leave(w)
    <3>1. UNCHANGED <<taken, queue, sqlChild, jsonChild>>
      BY <2>1 DEF Leave, busVars, Bus!Unsubscribe
    <3>2. QED  BY <1>1, <2>1, <3>1
  <2>2. CASE /\ pc' = [pc EXCEPT ![w] = "waiting"]
             /\ UNCHANGED <<busVars, sqlChild, jsonChild>>
    <3>1. UNCHANGED <<taken, queue>> /\ pc'[w] # "ended"
      BY <1>0, <2>2 DEF busVars, PcTypes
    <3>2. QED  BY <1>1, <2>2, <3>1
  <2>3. QED  BY <1>2, <1>3, <2>1, <2>2 DEF LoopHead, Drain
<1>4. ASSUME WriterStep(w)  PROVE Delivered(w)'
  <2>1. CASE WriterStarts(w)
    <3>1. /\ pc[w] = "created" /\ UNCHANGED <<sqlChild, jsonChild>>
          /\ pc'[w] = "waiting" /\ taken'[w] = <<>>
      BY <1>0, <2>1 DEF WriterStarts, Bus!Subscribe, PcTypes, BusInv, BP!BusInv, BP!TypeOK
    <3>2. taken[w] = <<>>
      BY <1>0, <3>1 DEF ChildFits
    <3>3. QED  BY <1>1, <3>1, <3>2
  <2>2. CASE WriterTakes(w) \/ WriterTimesOut(w)
    <3>1. sqlChild[w] # "new" /\ jsonChild[w] # "new"
      BY <1>0, <2>2 DEF ChildFits, InWrite, WriterTakes, WriterTimesOut
    <3>2. QED  BY <1>3, <2>2, <3>1 DEF WriterTakes, WriterTimesOut
  <2>3. CASE WriterGathered(w)
    BY <1>3, <2>3 DEF WriterGathered
  <2>4. CASE SqlChildRuns(w) \/ SqlChildEnds(w) \/ JsonChildRuns(w)
    <3>1. UNCHANGED <<taken, queue, pc>>
      BY <2>4 DEF SqlChildRuns, SqlChildEnds, JsonChildRuns, busVars
    <3>2. /\ sqlChild[w] = "new" => sqlChild'[w] = "new" \/ SqlChildRuns(w)
          /\ jsonChild[w] = "new" => jsonChild'[w] = "new" \/ JsonChildRuns(w)
      BY <1>0, <2>4 DEF SqlChildRuns, SqlChildEnds, JsonChildRuns, PcTypes
    <3>3. QED  BY <1>1, <3>1, <3>2 DEF Delivered
  <2>5. QED  BY <1>4, <2>1, <2>2, <2>3, <2>4 DEF WriterStep
<1>5. ASSUME CancelWriter(w)  PROVE Delivered(w)'
  <2>1. CASE pc[w] = "created" /\ UNCHANGED <<busVars, sqlChild, jsonChild>>
    <3>1. UNCHANGED <<taken, queue>> /\ queue[w] = <<>>
      BY <1>0, <2>1 DEF busVars, ChildFits
    <3>2. QED  BY <1>1, <2>1, <3>1
  <2>2. CASE pc[w] = "waiting" /\ (Drain(w) \/ Gather(w, "gather"))
    <3>1. sqlChild[w] # "new" /\ jsonChild[w] # "new"
      BY <1>0, <2>2 DEF ChildFits, InWrite
    <3>2. QED  BY <1>3, <2>2, <3>1
  <2>3. CASE pc[w] = "ended" /\ UNCHANGED <<busVars, writerVars>>
    BY <1>1, <2>3 DEF busVars, writerVars, Delivered
  <2>4. QED  BY <1>5, <2>1, <2>2, <2>3 DEF CancelWriter
<1>6. ASSUME taken'[w] = taken[w], sqlChild'[w] = sqlChild[w], jsonChild'[w] = jsonChild[w],
             pc'[w] \in {pc[w], "created"}, w \notin subscribed => queue'[w] = queue[w]
      PROVE  Delivered(w)'
  <2>1. pc'[w] = "ended" => queue'[w] = <<>>
    BY <1>0, <1>6 DEF Delivered, ChildFits, Reading
  <2>2. QED  BY <1>1, <1>6, <2>1
<1>7. ASSUME NEW v \in Writers, v # w, WriterStep(v) \/ CancelWriter(v)
      PROVE  Delivered(w)'
  BY <1>0, <1>6, <1>7, WriterSpares DEF Spares
<1>8. ASSUME Untouched, pc'[w] \in {pc[w], "created"}  PROVE Delivered(w)'
  <2>1. /\ taken'[w] = taken[w] /\ sqlChild'[w] = sqlChild[w] /\ jsonChild'[w] = jsonChild[w]
        /\ w \notin subscribed => queue'[w] = queue[w]
    BY <1>0, <1>8, BusSpares DEF Untouched
  <2>2. QED  BY <1>6, <1>8, <2>1
<1>9. QED
  <2>1. CASE \E v \in Writers : WriterStep(v) \/ CancelWriter(v)
    BY <1>4, <1>5, <1>7, <2>1
  <2>2. ASSUME NEW v, pc' = [pc EXCEPT ![v] = "created"]  PROVE pc'[w] \in {pc[w], "created"}
    BY <1>0, <2>2 DEF PcTypes
  <2>3. QED  BY <1>8, <2>1, <2>2 DEF WriterKind

\* What a child hands over is stored, or on its way.
LEMMA NewLines ==
    ASSUME BaseInv, OpenRule, JsonKind, NoFault',
           ~\E r \in Requests : Replaces(r)
    PROVE  /\ In(lines) \subseteq In(lines')
           /\ \A w \in Writers : JsonChildRuns(w) => Current(w) \in In(lines')
<1>1. ASSUME NEW w \in Writers, JsonChildRuns(w)
      PROVE  In(lines) \subseteq In(lines') /\ Current(w) \in In(lines')
  <2>1. jsonChild[w] = "new" /\ failures' = 0 /\ failures \in Nat
    BY <1>1 DEF JsonChildRuns, NoFault, BaseInv, TypesInv, CtlTypes
  <2>2. Alive(w)
    BY <2>1, RowFits DEF BaseInv, TypesInv, InWrite, Alive
  <2>3. writerTask # None /\ ctl[Stop] # "done"
    BY <2>2, WritersFit DEF BaseInv, TypesInv, OneAlive, Alive
  <2>4. lines' = Append(lines, Current(w))
    BY <1>1, <2>1, <2>3 DEF OpenRule, JsonChildRuns, Fault
  <2>5. lines \in Seq(1 .. MaxPublished) /\ Current(w) \in 1 .. MaxPublished
    BY <2>1, RowFits DEF BaseInv, TypesInv, FileTypes
  <2> DEFINE new == Append(lines, Current(w))
  <2>6. /\ Len(new) = Len(lines) + 1 /\ new[Len(lines) + 1] = Current(w)
        /\ \A i \in 1 .. Len(lines) : i \in 1 .. Len(new) /\ new[i] = lines[i]
        /\ Len(lines) + 1 \in 1 .. Len(new)
    BY <2>5
  <2> HIDE DEF new
  <2>7. In(lines) \subseteq In(new) /\ Current(w) \in In(new)
    BY <2>6 DEF In
  <2>8. QED  BY <2>4, <2>7 DEF new
<1>2. lines' = lines \/ \E w \in Writers : JsonChildRuns(w)
  BY DEF JsonKind
<1>3. QED  BY <1>1, <1>2

LEMMA NewRows ==
    ASSUME BaseInv, SqlInv, Marks, SqlKind, lost = {}, lost' = {},
           ~\E r \in Requests : Replaces(r)
    PROVE  /\ SP!Live(Key) \subseteq SP!Live(Key)'
           /\ \A w \in Writers : SqlChildRuns(w) => Current(w) \in SP!Live(Key)'
           /\ \/ SP!Live(Key)' \subseteq SP!Live(Key)
              \/ \E w \in Writers : SqlChildRuns(w)
<1>1. SP!KeysLost(Key) = {} /\ SP!KeysLost(Key)' = {}
  BY DEF SP!KeysLost
<1>2. SP!SinkInv /\ SP!Apart(Key)
  BY DEF BaseInv, TypesInv, SqlInv
<1>3. ASSUME NEW w \in Writers, SqlChildRuns(w)
      PROVE  SP!Live(Key) \subseteq SP!Live(Key)' /\ Current(w) \in SP!Live(Key)'
  <2>1. sqlChild[w] = "new"
    BY <1>3 DEF SqlChildRuns
  <2>2. Key[<<Current(w), active>>] = Current(w) /\ Current(w) \notin SqlUsed
    BY <2>1, NewToSink
  <2>3. SP!RowsMove(Key, {Current(w)})
    BY <1>2, <1>3, <2>2, ChildMoves DEF SqlUsed
  <2>4. QED  BY <1>1, <2>3 DEF SP!RowsMove
<1>4. CASE \E w \in Writers : SqlChildRuns(w)
  BY <1>3, <1>4
<1>5. CASE ~\E w \in Writers : SqlChildRuns(w)
  <2>1. Inside
    BY <1>5 DEF SqlKind
  <2>2. QED  BY <1>1, <1>2, <1>5, <2>1, InsideMoves DEF SP!RowsMove
<1>6. QED  BY <1>4, <1>5

\* The store by itself takes no committed row out of the live file.
LEMMA TableGrows ==
    ASSUME BaseInv, Inside, uncommitted = 0
    PROVE  SP!KeysOf(Key, table) \subseteq SP!KeysOf(Key, table)'
<1>0. SP!SinkInv /\ table \in Seq(Rows)
  BY DEF BaseInv, TypesInv, SP!SinkInv, SP!SinkTypeOK
<1>1. table' = table => SP!KeysOf(Key, table)' = SP!KeysOf(Key, table)
  BY DEF SP!KeysOf
<1>2. ASSUME NEW more \in Seq(Rows), table' = table \o more
      PROVE  SP!KeysOf(Key, table) \subseteq SP!KeysOf(Key, table)'
  <2>1. SP!KeysOf(Key, table \o more) = SP!KeysOf(Key, table) \cup SP!KeysOf(Key, more)
    BY <1>0, SinkFits, SP!ConcatKeys
  <2>2. SP!KeysOf(Key, table)' = SP!KeysOf(Key, table')
    BY DEF SP!KeysOf
  <2>3. QED  BY <1>2, <2>1, <2>2
<1>3. ASSUME NEW job \in jobs, NEW n \in 0 .. Len(job.rows),
             SP!Commit(job) \/ SP!Raise(job, n)
      PROVE  \E more \in Seq(Rows) : table' = table \o more
  <2>1. job.rows \in Seq(Rows)
    BY <1>0 DEF SP!SinkInv, SP!SinkTypeOK, SP!Job
  <2>2. SubSeq(job.rows, 1, n) \in Seq(Rows)
    BY <2>1
  <2>3. QED  BY <1>3, <2>1, <2>2 DEF SP!Commit, SP!Raise
<1>4. \A job \in jobs : 0 \in 0 .. Len(job.rows)
  BY <1>0 DEF SP!SinkInv, SP!SinkTypeOK, SP!Job
<1>5. \/ table' = table \/ SP!Close
      \/ \E job \in jobs : \E n \in 0 .. Len(job.rows) : SP!Commit(job) \/ SP!Raise(job, n)
  BY <1>4 DEF Inside, sinkVars, SP!Enter, SP!Acquire, SP!Start, SP!CommitElsewhere
<1>6. SP!Close => table' = table
  BY <1>0, AllCommitted DEF SP!Close
<1>7. QED  BY <1>1, <1>2, <1>3, <1>5, <1>6

LEMMA InitDrain == Init => DrainInv
<1> SUFFICES ASSUME Init PROVE DrainInv
  OBVIOUS
<1>1. lost = {} /\ uncommitted = 0 /\ ctl[Stop] # "done" /\ writerTask = None
  BY DEF Init, Sink!SinkInit, Controllers
<1>2. QED  BY <1>1, WritersFit DEF DrainInv

\* A writer that is new has taken nothing yet.
LEMMA NewWriter ==
    ASSUME BaseInv, Moves, NEW w \in Writers, writerTask' = w, writerTask # w
    PROVE  Delivered(w)'
<1>0. OneAlive /\ ChildFits(w) /\ PcTypes /\ BusInv /\ w # None
  BY WritersFit DEF BaseInv, TypesInv, Children
<1>1. Boot \/ \E r \in Requests : RequestEnds(r)
  BY <1>0 DEF Moves, Placed
<1>2. pc[w] = "none" /\ pc' = [pc EXCEPT ![w] = "created"]
  BY <1>0, <1>1 DEF Boot, RequestEnds, OneAlive
<1>3. taken[w] = <<>>
  BY <1>0, <1>2 DEF ChildFits
<1>4. taken'[w] = taken[w]
  BY <1>0, <1>1, BusSpares DEF Boot, RequestEnds
<1>5. pc'[w] = "created" /\ Len(taken'[w]) = 0
  BY <1>0, <1>2, <1>3, <1>4 DEF PcTypes
<1>6. QED  BY <1>5 DEF Delivered

\* Only closing the stores ends a stop well.
LEMMA StopIsThrough ==
    ASSUME CtlTypes, Moves, ctl[Stop] # "done", ctl'[Stop] = "done"
    PROVE  StopCloses
<1>0. Stop \in Controllers /\ \A r \in Requests : r # Stop
  BY PipelineAssumption DEF Controllers
<1>1. ASSUME NEW c, NEW x, Goto(c, x)  PROVE c = Stop /\ x = "done"
  BY <1>0, <1>1 DEF Goto, CtlTypes
<1>2. ~UNCHANGED ctl
  OBVIOUS
<1>3. ASSUME NEW c, Cancels(c)  PROVE FALSE
  BY <1>1, <1>3 DEF Cancels
<1>4. ASSUME NEW c \in Controllers, Proceeds(c)  PROVE StopCloses
  <2>1. \A x : Goto(c, x) => x = "done"
    BY <1>1
  <2>2. QED  BY <1>4, <2>1 DEF Proceeds
<1>5. QED  BY <1>0, <1>1, <1>2, <1>3, <1>4 DEF Moves, Placed

\* As long as no fault comes between, the writer's drain and the last flush
\* bring everything into the files.
LEMMA StepDrain ==
    ASSUME BaseInv, Stores, SqlInv, Marks, DrainInv, [Next]_vars,
           Moves, SqlKind, JsonKind, WriterKind
    PROVE  DrainInv'
<1> SUFFICES ASSUME NoFault'
             PROVE  /\ lost' = {} /\ uncommitted' = 0
                    /\ \A w \in Writers : w = writerTask' => Delivered(w)'
                    /\ ctl'[Stop] = "done" =>
                          SP!Live(Key)' \subseteq SP!KeysOf(Key, table)'
  BY DEF DrainInv
<1>0. /\ CtlTypes /\ OneController /\ Controls /\ OneAlive /\ Stop \in Controllers
      /\ \A r \in Requests : r \in Controllers
      /\ OpenRule /\ FlushRule /\ SP!JobsCurrent
  BY DEF BaseInv, TypesInv, Stores, Controllers
<1>1. NoFault /\ lost' = lost /\ uncommitted = 0 /\ uncommitted' = 0
  BY NothingLost
<1>2. /\ lost = {} /\ lost' = {} /\ uncommitted' = 0
      /\ \A w \in Writers : w = writerTask => Delivered(w)
      /\ ctl[Stop] = "done" => SP!Live(Key) \subseteq SP!KeysOf(Key, table)
  BY <1>1 DEF DrainInv
<1>3. ASSUME NEW w \in Writers, w = writerTask'  PROVE Delivered(w)'
  <2>1. CASE writerTask # w
    BY <1>3, <2>1, NewWriter
  <2>2. CASE writerTask = w
    <3>1. ~\E r \in Requests : Replaces(r)
      BY <1>0, <2>2, WritersFit, ReplacesSqlite DEF OneAlive, Gone
    <3>2. /\ In(lines) \subseteq In(lines')
          /\ JsonChildRuns(w) => Current(w) \in In(lines')
      BY <1>0, <3>1, NewLines
    <3>3. /\ SP!Live(Key) \subseteq SP!Live(Key)'
          /\ SqlChildRuns(w) => Current(w) \in SP!Live(Key)'
      BY <1>2, <3>1, NewRows
    <3>4. Delivered(w) /\ ~cut'
      BY <1>2, <2>2 DEF NoFault
    <3>5. QED  BY <3>2, <3>3, <3>4, StepDelivered
  <2>3. QED  BY <2>1, <2>2
<1>4. ASSUME ctl'[Stop] = "done"
      PROVE  SP!Live(Key)' \subseteq SP!KeysOf(Key, table)'
\* The store has been closed: nobody writes, and what is left is stored.
  <2>1. CASE ctl[Stop] = "done"
    <3>1. ~\E w \in Writers : SqlChildRuns(w)
      <4>1. SUFFICES ASSUME NEW w \in Writers, SqlChildRuns(w)  PROVE FALSE
        OBVIOUS
      <4>2. Alive(w)
        BY <4>1, RowFits DEF BaseInv, TypesInv, InWrite, Alive, SqlChildRuns
      <4>3. QED  BY <1>0, <2>1, <4>2 DEF OneAlive
    <3>2. ~\E r \in Requests : Replaces(r)
      BY <1>0, <2>1, ReplacesSqlite DEF Controls, Busy
    <3>3. Inside
      BY <3>1, <3>2 DEF SqlKind
    <3>4. SP!KeysOf(Key, table) \subseteq SP!KeysOf(Key, table)'
      BY <1>1, <3>3, TableGrows
    <3>5. SP!Live(Key)' \subseteq SP!Live(Key)
      BY <1>2, <3>1, <3>2, NewRows
    <3>6. QED  BY <1>2, <2>1, <3>4, <3>5
\* It closes.
  <2>2. CASE ctl[Stop] # "done"
    <3>1. StopCloses
      BY <1>0, <1>4, <2>2, StopIsThrough
    <3>2. /\ ctl[Stop] = "flushing" /\ call[Stop] = "out"
          /\ UNCHANGED <<table, buffer, pending, jobs>>
      BY <1>1, <3>1, SinkOpens, AllCommitted
         DEF StopCloses, SP!Close, BaseInv, TypesInv
    <3>3. ~orphaned
      BY <1>1 DEF NoFault
    <3>4. SP!Live(Key) = SP!KeysOf(Key, table)
      BY <1>0, <3>2, <3>3, AllStored
    <3>5. SP!Live(Key)' = SP!Live(Key) /\ SP!KeysOf(Key, table)' = SP!KeysOf(Key, table)
      BY <3>2 DEF SP!Live, SP!KeysOf, SP!KeysInJobs, SP!KeysWaiting
    <3>6. QED  BY <3>4, <3>5
  <2>3. QED  BY <2>1, <2>2
<1>5. QED  BY <1>2, <1>3, <1>4

\* What the drained writer took is in both files.
LEMMA DrainedIsStored ==
    ASSUME BaseInv, SqlInv, DrainInv
    PROVE  DrainStoresAll
<1> SUFFICES ASSUME ctl[Stop] = "done", writerTask # None, NoFault,
                    NEW e \in AcceptedEvents(writerTask)
             PROVE  StoredBy(e)
  BY DEF DrainStoresAll, NoFault
<1> DEFINE w == writerTask
<1>1. w \in Writers /\ BusInv /\ PcTypes /\ OneAlive /\ ChildFits(w)
  BY DEF BaseInv, TypesInv, CtlTypes, Children
<1>2. pc[w] = "ended"
  BY <1>1 DEF OneAlive, Alive
<1>3. Delivered(w) /\ SP!Live(Key) \subseteq SP!KeysOf(Key, table)
  BY <1>1 DEF DrainInv
<1> HIDE DEF w
<1>4. queue[w] = <<>> /\ taken[w] \in Seq(Nat)
  BY <1>1, <1>2, <1>3, StreamFacts DEF Delivered
<1>5. Bus!Stream(w) = taken[w]
  BY <1>4 DEF Bus!Stream
<1>6. PICK i \in 1 .. Len(taken[w]) : e = taken[w][i]
  BY <1>5 DEF AcceptedEvents, w
<1>7. sqlChild[w] # "new" /\ jsonChild[w] # "new"
  BY <1>1, <1>2 DEF ChildFits, InWrite
<1>8. e \in In(lines) /\ e \in SP!KeysOf(Key, table)
  BY <1>3, <1>6, <1>7 DEF Delivered, TakenFits
<1>9. \A j \in 1 .. Len(table) : Key[table[j]] = table[j][1]
  <2>1. table \in Seq(Rows)
    BY DEF BaseInv, TypesInv, SP!SinkInv, SP!SinkTypeOK
  <2>2. QED  BY <2>1 DEF Key
<1>10. QED  BY <1>8, <1>9 DEF In, SP!KeysOf, StoredBy

-----------------------------------------------------------------------------
(***************************************************************************)
(* The theorems.                                                           *)
(***************************************************************************)
\* What is inductive about the files.
FilesInv ==
    /\ BaseInv /\ SqlInv /\ Marks /\ JsonInv
    /\ Stores /\ SessionInv /\ OrderInv /\ DrainInv

LEMMA InitFilesInv == Init => FilesInv
BY InitBase, InitStored, InitStores, InitSession, InitOrder, InitDrain DEF FilesInv

LEMMA StepFilesInv ==
    ASSUME ~overlapped', FilesInv, [Next]_vars
    PROVE  FilesInv'
<1>1. /\ BaseInv /\ SqlInv /\ Marks /\ JsonInv
      /\ Stores /\ SessionInv /\ OrderInv /\ DrainInv
      /\ CtlTypes /\ PcTypes /\ Controls /\ OneAlive /\ SP!SinkInv
      /\ ~overlapped
  BY OverlapStays DEF FilesInv, BaseInv, TypesInv
<1>2. Moves /\ SqlKind /\ StampKind /\ JsonKind /\ OpenKind /\ WriterKind
  BY <1>1, ControlMoves, SinkKinds, StampKinds, WriterKinds
<1>3. BaseInv' /\ SqlInv' /\ JsonInv' /\ Marks'
  BY <1>1, <1>2, StepBase, StepSql, StepJson, StepMarks
<1>4. Stores' /\ SessionInv' /\ OrderInv' /\ DrainInv'
  BY <1>1, <1>2, <1>3, StepStores, StepSession, StepOrder, StepDrain
<1>5. QED  BY <1>3, <1>4 DEF FilesInv

\* Once two requests have overlapped, nothing is claimed any more.
UntilOverlap == ~overlapped => FilesInv

LEMMA InitUntilOverlap == Init => UntilOverlap
BY InitFilesInv DEF UntilOverlap

LEMMA StepUntilOverlap == UntilOverlap /\ [Next]_vars => UntilOverlap'
BY StepFilesInv, OverlapStays DEF UntilOverlap

\* Whatever rolls, deletes and a stop come while they are written, as long as
\* no two requests overlap, no event is in two places of SQLite or of the JSONL
\* files, nor twice in one, the backups included (runtime.py:404-405).
THEOREM EventsAreStoredOnce == Spec => []EachStoredOnce
<1>1. UntilOverlap => EachStoredOnce
  BY SqlOnce, JsonOnce DEF UntilOverlap, FilesInv, EachStoredOnce
<1>2. QED  BY <1>1, InitUntilOverlap, StepUntilOverlap, PTL DEF Spec

\* Whatever rolls, deletes and a stop come, as long as no two requests overlap,
\* a row is in the file of the session it is stamped with, live or put away,
\* unless a cancelled task's batch was left running (runtime.py:109).
THEOREM SessionsMatchFiles == Spec => []SessionMatchesFile
<1>1. UntilOverlap => SessionMatchesFile
  BY SessionsMatch DEF UntilOverlap, FilesInv, SessionMatchesFile
<1>2. QED  BY <1>1, InitUntilOverlap, StepUntilOverlap, PTL DEF Spec

\* As long as no two requests overlap, both live files list the events in the
\* order in which they were published, whatever batches, periodic flushes and
\* failures come in between, unless a cancelled task's batch was left running
\* (sqlite.py:159-178).
THEOREM FilesListInOrder == Spec => []FilesInOrder
<1>1. UntilOverlap => FilesInOrder
  BY FilesAscend DEF UntilOverlap, FilesInv, FilesInOrder
<1>2. QED  BY <1>1, InitUntilOverlap, StepUntilOverlap, PTL DEF Spec

\* When a stop is through and no two requests have overlapped, everything the
\* last writer's queue accepted is in both files, if nothing failed and no
\* cancellation fell into a write (runtime.py:319-329).
THEOREM DrainIsComplete == Spec => []DrainStoresAll
<1>1. UntilOverlap => DrainStoresAll
  BY DrainedIsStored DEF UntilOverlap, FilesInv, DrainStoresAll
<1>2. QED  BY <1>1, InitUntilOverlap, StepUntilOverlap, PTL DEF Spec
===============================================================================
