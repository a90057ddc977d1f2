------------------------------ MODULE SqliteSink ------------------------------
(***************************************************************************)
(* blutruth/storage/sqlite.py: the buffered event store.                   *)
(*                                                                         *)
(* write appends to a buffer under an asyncio.Lock; the batch is handed to *)
(* an executor thread when it is full or when the periodic task wakes, and *)
(* the lock is held until the thread answers.  A task that is cancelled    *)
(* while it waits gives the lock back, but its thread runs on: that batch  *)
(* is an orphan nobody waits for.  stop cancels the periodic task, flushes *)
(* what is buffered and closes the connection without asking for orphans.  *)
(*                                                                         *)
(* A step is what one task does between two awaits.  The actions take the  *)
(* calling task: SqliteSinkDriver checks the sink with tasks of its own,   *)
(* StoragePipeline composes it with the runtime's.                         *)
(***************************************************************************)
EXTENDS Integers, Sequences, FiniteSets

CONSTANTS Clients,       \* tasks that call write
          Closers,       \* tasks that call stop, roll or delete
          Flusher,       \* the _periodic_flush task
          BatchSize,     \* batch_size
          Row,           \* the rows that may be written
          NoRow, Free    \* no row to write, nobody holds the lock

Tasks == Clients \cup Closers \cup {Flusher}

ASSUME SinkAssumption ==
    /\ BatchSize \in Nat \ {0}
    /\ NoRow \notin Row
    /\ Free \notin Tasks
    /\ Flusher \notin Clients \cup Closers
    /\ Clients \cap Closers = {}

VARIABLES db,            \* _db is an open connection
          conn,          \* which connection: start counts them
          flushTask,     \* _flush_task is set
          buffer,        \* _buffer
          lock,          \* who holds _lock
          call,          \* where each task is inside the sink
          pending,       \* the row a task waits to append
          jobs,          \* batches the executor has not finished
          table,         \* rows of the live file as its connection sees them,
                         \* in rowid order
          uncommitted,   \* how many of them, at the end, lie in a transaction
                         \* that a failed batch left open
          lost,          \* history: rows no file will have, since their batch
                         \* raised, was cut off or never began, the connection
                         \* closed on them or their writer was cancelled
          orphaned       \* history: a task was cancelled during its job

sinkVars == <<db, conn, flushTask, buffer, lock, call, pending, jobs, table,
              uncommitted, lost, orphaned>>

SinkInit ==
    /\ db = FALSE
    /\ conn = 0
    /\ flushTask = FALSE
    /\ buffer = <<>>
    /\ lock = Free
    /\ call = [t \in Tasks |-> "out"]
    /\ pending = [t \in Tasks |-> NoRow]
    /\ jobs = {}
    /\ table = <<>>
    /\ uncommitted = 0
    /\ lost = {}
    /\ orphaned = FALSE

RowsOf(seq) == {seq[i] : i \in 1 .. Len(seq)}

\* What a new connection to the live file would find.
Committed == SubSeq(table, 1, Len(table) - uncommitted)

\* A task may enter the sink: it is not inside, whether its last call
\* returned or raised.
Outside(t) == call[t] \in {"out", "raised"}

-----------------------------------------------------------------------------
\* Mutant: the buffer is not swapped out.
FlushLockedKeeps(t, buf) ==
    /\ buffer' = buf
    /\ IF buf = <<>> \/ ~db
       THEN /\ lock' = Free
            /\ call' = [call EXCEPT ![t] = "out"]
            /\ UNCHANGED jobs
       ELSE /\ lock' = t
            /\ call' = [call EXCEPT ![t] = "job"]
            /\ jobs' = jobs \cup {[by |-> t, awaited |-> TRUE,
                                   conn |-> conn, rows |-> buf]}

\* Mutant: the lock is released before the executor is awaited.
FlushLockedUnlocks(t, buf) ==
    /\ lock' = Free
    /\ IF buf = <<>> \/ ~db
       THEN /\ buffer' = buf
            /\ call' = [call EXCEPT ![t] = "out"]
            /\ UNCHANGED jobs
       ELSE /\ buffer' = <<>>
            /\ call' = [call EXCEPT ![t] = "job"]
            /\ jobs' = jobs \cup {[by |-> t, awaited |-> TRUE,
                                   conn |-> conn, rows |-> buf]}

\* _flush_locked by the holder of the lock, with buf in the buffer: swap the
\* buffer out and await the executor, holding the lock.
FlushLocked(t, buf) ==
    IF buf = <<>> \/ ~db
    THEN /\ buffer' = buf
         /\ lock' = Free
         /\ call' = [call EXCEPT ![t] = "out"]
         /\ UNCHANGED jobs
    ELSE /\ buffer' = <<>>
         /\ lock' = t
         /\ call' = [call EXCEPT ![t] = "job"]
         /\ jobs' = jobs \cup {[by |-> t, awaited |-> TRUE,
                                conn |-> conn, rows |-> buf]}

\* The body of write's critical section.
AppendLocked(t, row) ==
    IF Len(buffer) + 1 >= BatchSize
    THEN FlushLocked(t, Append(buffer, row))
    ELSE /\ buffer' = Append(buffer, row)
         /\ lock' = Free
         /\ call' = [call EXCEPT ![t] = "out"]
         /\ UNCHANGED jobs

\* Take the lock for a write of row, or for a flush when row is NoRow.
Locked(t, row) ==
    IF row = NoRow THEN FlushLocked(t, buffer) ELSE AppendLocked(t, row)

\* write(event) and _flush(): at once when the lock is free, or queue up.
Enter(t, row) ==
    /\ Outside(t)
    /\ IF lock = Free
       THEN Locked(t, row) /\ UNCHANGED pending
       ELSE /\ call' = [call EXCEPT ![t] = "lock"]
            /\ pending' = [pending EXCEPT ![t] = row]
            /\ UNCHANGED <<buffer, lock, jobs>>
    /\ UNCHANGED <<db, conn, flushTask, table, uncommitted, lost, orphaned>>

Write(t, row) == row # NoRow /\ Enter(t, row)
Flush(t) == Enter(t, NoRow)

\* The lock comes free for a task that queued up.
Acquire(t) ==
    /\ call[t] = "lock"
    /\ lock = Free
    /\ Locked(t, pending[t])
    /\ pending' = [pending EXCEPT ![t] = NoRow]
    /\ UNCHANGED <<db, conn, flushTask, table, uncommitted, lost, orphaned>>

-----------------------------------------------------------------------------
\* Mutant: any job that ends releases the lock.
AnswerReleases(job, how) ==
    /\ jobs' = jobs \ {job}
    /\ lock' = Free
    /\ call' = IF job.awaited THEN [call EXCEPT ![job.by] = how] ELSE call
    /\ UNCHANGED <<db, conn, flushTask, buffer, pending, orphaned>>

\* Mutant: a job that raised leaves the lock taken.
AnswerKeepsLock(job, how) ==
    /\ jobs' = jobs \ {job}
    /\ lock' = IF job.awaited /\ how = "out" THEN Free ELSE lock
    /\ call' = IF job.awaited THEN [call EXCEPT ![job.by] = how] ELSE call
    /\ UNCHANGED <<db, conn, flushTask, buffer, pending, orphaned>>

\* The thread is done with job and its task, if it still waits, goes on:
\* it leaves the lock and returns or raises.
Answer(job, how) ==
    /\ jobs' = jobs \ {job}
    /\ IF job.awaited
       THEN lock' = Free /\ call' = [call EXCEPT ![job.by] = how]
       ELSE UNCHANGED <<lock, call>>
    /\ UNCHANGED <<db, conn, flushTask, buffer, pending, orphaned>>

\* _write_batch_sync commits, and with its rows those an earlier failure left
\* behind.  It reads self._db when it runs: a thread that starts late finds the
\* connection of a later start.
Commit(job) ==
    /\ db
    /\ table' = table \o job.rows
    /\ uncommitted' = 0
    /\ Answer(job, "out")
    /\ UNCHANGED lost

\* _write_batch_sync raises: the batch was already out of the buffer, and
\* nobody rolls back.  The n rows inserted by then wait for the next commit.
Raise(job, n) ==
    /\ n > 0 => db
    /\ table' = table \o SubSeq(job.rows, 1, n)
    /\ uncommitted' = uncommitted + n
    /\ lost' = lost \cup RowsOf(SubSeq(job.rows, n + 1, Len(job.rows)))
    /\ Answer(job, "raised")

\* The connection was closed under the thread.
CutOff(job) == (~db \/ job.conn # conn) /\ Raise(job, 0)

\* Sessions, group ids and purges are written, and committed, over the same
\* connection.  Any moment is taken for one of theirs, which allows more
\* orders than their callers do.
CommitElsewhere ==
    /\ db /\ uncommitted > 0
    /\ uncommitted' = 0
    /\ UNCHANGED <<db, conn, flushTask, buffer, lock, call, pending, jobs, table,
                   lost, orphaned>>

\* Mutant: a cancelled task keeps the lock.
CancelInsideKeepsLock(t) ==
    LET mine == {j \in jobs : j.awaited /\ j.by = t} IN
    \E unbegun \in SUBSET mine :
        /\ call' = [call EXCEPT ![t] = "out"]
        /\ pending' = [pending EXCEPT ![t] = NoRow]
        /\ UNCHANGED lock
        /\ lost' = lost \cup ({pending[t]} \ {NoRow})
                        \cup UNION {RowsOf(j.rows) : j \in unbegun}
        /\ orphaned' = (orphaned \/ call[t] = "job")
        /\ jobs' = {IF j.by = t THEN [j EXCEPT !.awaited = FALSE] ELSE j
                        : j \in jobs \ unbegun}

\* CancelledError inside the sink: the row not yet appended is dropped and the
\* lock is given back.  A batch the pool has not begun is cancelled with its
\* future and never written; one in its thread is left to itself.
CancelInside(t) ==
    LET mine == {j \in jobs : j.awaited /\ j.by = t} IN
    \E unbegun \in SUBSET mine :
        /\ call' = [call EXCEPT ![t] = "out"]
        /\ pending' = [pending EXCEPT ![t] = NoRow]
        /\ lock' = IF lock = t THEN Free ELSE lock
        /\ lost' = lost \cup ({pending[t]} \ {NoRow})
                        \cup UNION {RowsOf(j.rows) : j \in unbegun}
        /\ orphaned' = (orphaned \/ call[t] = "job")
        /\ jobs' = {IF j.by = t THEN [j EXCEPT !.awaited = FALSE] ELSE j
                        : j \in jobs \ unbegun}

Cancel(t) ==
    /\ call[t] \in {"lock", "job"}
    /\ CancelInside(t)
    /\ UNCHANGED <<db, conn, flushTask, buffer, table, uncommitted>>

-----------------------------------------------------------------------------
\* start makes a new periodic task; one that was never stopped lives on and
\* is, to the sink, one more wake-up of the same kind.
Opened ==
    /\ db' = TRUE
    /\ conn' = conn + 1
    /\ flushTask' = TRUE
    /\ call' = [call EXCEPT ![Flusher] = IF @ = "raised" THEN "out" ELSE @]
    /\ UNCHANGED <<buffer, lock, pending, jobs, orphaned>>

Start == Opened /\ UNCHANGED <<table, uncommitted, lost>>

\* What a connection that closes without a commit takes with it.
RolledBack ==
    /\ lost' = lost \cup (RowsOf(table) \ RowsOf(Committed))
    /\ uncommitted' = 0

\* Mutant: the periodic task leaves a batch that is not full.
PeriodicFlushOfFull ==
    /\ flushTask
    /\ call[Flusher] = "out"
    /\ Len(buffer) >= BatchSize
    /\ Flush(Flusher)

\* One round of _periodic_flush; a flush that raised has ended the task.
PeriodicFlush ==
    /\ flushTask
    /\ call[Flusher] = "out"
    /\ Flush(Flusher)

\* stop up to _flush(): cancel the periodic task and await it.
StopFlushTask ==
    /\ flushTask => call[Flusher] # "raised"
    /\ flushTask' = FALSE
    /\ CancelInside(Flusher)
    /\ UNCHANGED <<db, conn, buffer, table, uncommitted>>

\* Awaiting a periodic task that died raises its exception out of stop.
StopRaises == flushTask /\ call[Flusher] = "raised"

\* stop after _flush().
Close ==
    /\ db' = FALSE
    /\ table' = Committed
    /\ RolledBack
    /\ UNCHANGED <<conn, flushTask, buffer, lock, call, pending, jobs, orphaned>>

\* roll and delete after _flush(): close, put the live file away and start on
\* a fresh one, with no await in between.
Replace == Opened /\ table' = <<>> /\ RolledBack

-----------------------------------------------------------------------------
Job == [by : Tasks, awaited : BOOLEAN, conn : Nat, rows : Seq(Row)]

SinkTypeOK ==
    /\ db \in BOOLEAN /\ conn \in Nat /\ flushTask \in BOOLEAN
    /\ buffer \in Seq(Row) /\ table \in Seq(Row)
    /\ lock \in Tasks \cup {Free}
    /\ call \in [Tasks -> {"out", "lock", "job", "raised"}]
    /\ pending \in [Tasks -> Row \cup {NoRow}]
    /\ \A j \in jobs : j \in Job
    /\ uncommitted \in 0 .. Len(table)
    /\ lost \subseteq Row
    /\ orphaned \in BOOLEAN

\* The lock does its work: it is held exactly while its holder waits for the
\* one job that somebody waits for (sqlite.py:159-178).
LockGuardsJob ==
    /\ \A t \in Tasks : call[t] = "job" <=> lock = t
    /\ \A t \in Tasks : call[t] = "job" <=> \E j \in jobs : j.awaited /\ j.by = t
    /\ \A i, j \in jobs : i.awaited /\ j.awaited => i = j
=============================================================================
