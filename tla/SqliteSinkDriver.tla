--------------------------- MODULE SqliteSinkDriver ---------------------------
(***************************************************************************)
(* SqliteSink on its own: clients that write, cancelled now and then, the  *)
(* periodic flush, an executor that may fail, and tasks that stop the sink *)
(* and open it again, as roll and delete do (sqlite.py:117-190, 518-542).  *)
(***************************************************************************)
EXTENDS SqliteSink

CONSTANTS MaxRows,       \* bound: rows written in a behaviour
          MaxFailures,   \* bound: executor jobs that raise
          MaxCancels,    \* bound: clients cancelled inside write
          MaxOpens       \* bound: times start opens the database

ASSUME DriverAssumption ==
    /\ MaxRows \in Nat /\ MaxFailures \in Nat
    /\ MaxCancels \in Nat /\ MaxOpens \in Nat
    /\ Row = 1 .. MaxRows

VARIABLES written,       \* rows handed to write so far; a row is its number
          closer,        \* where each closing task is in stop
          failures, cancels

clientVars == <<written, closer, failures, cancels>>
vars == <<sinkVars, clientVars>>

Init ==
    /\ SinkInit
    /\ written = 0
    /\ closer = [k \in Closers |-> "down"]
    /\ failures = 0
    /\ cancels = 0

\* Nothing is awaited between _flush returning and the connection closing: the
\* event loop runs no other task there.
LoopIsFree == \A k \in Closers : closer[k] = "flushing" => ~Outside(k)

ClientWrites(t) ==
    /\ LoopIsFree
    /\ written < MaxRows /\ conn > 0
    /\ Write(t, written + 1)
    /\ written' = written + 1
    /\ UNCHANGED <<closer, failures, cancels>>

ClientCancelled(t) ==
    /\ LoopIsFree
    /\ cancels < MaxCancels
    /\ cancels' = cancels + 1
    /\ Cancel(t)
    /\ UNCHANGED <<written, closer, failures>>

Tick == LoopIsFree /\ PeriodicFlush /\ UNCHANGED clientVars

Granted(t) == LoopIsFree /\ Acquire(t) /\ UNCHANGED clientVars

JobCommits == (\E job \in jobs : Commit(job)) /\ UNCHANGED clientVars

JobRaises ==
    /\ failures < MaxFailures
    /\ failures' = failures + 1
    /\ \E job \in jobs : \E n \in 0 .. Len(job.rows) : Raise(job, n)
    /\ UNCHANGED <<written, closer, cancels>>

JobCutOff == (\E job \in jobs : CutOff(job)) /\ UNCHANGED clientVars

CommitsElsewhere == CommitElsewhere /\ UNCHANGED clientVars

Opens(k) ==
    /\ closer[k] = "down"
    /\ ~db
    /\ conn < MaxOpens
    /\ Start
    /\ closer' = [closer EXCEPT ![k] = "up"]
    /\ UNCHANGED <<written, failures, cancels>>

BeginsStop(k) ==
    /\ closer[k] = "up" /\ db
    /\ \/ StopFlushTask /\ closer' = [closer EXCEPT ![k] = "stopping"]
       \/ StopRaises /\ closer' = [closer EXCEPT ![k] = "raised"]
          /\ UNCHANGED sinkVars
    /\ UNCHANGED <<written, failures, cancels>>

FlushesRemaining(k) ==
    /\ closer[k] = "stopping"
    /\ Flush(k)
    /\ closer' = [closer EXCEPT ![k] = "flushing"]
    /\ UNCHANGED <<written, failures, cancels>>

\* Mutant: the connection is closed while the last flush runs.
ClosesAtOnce(k) ==
    /\ closer[k] = "flushing"
    /\ Close
    /\ closer' = [closer EXCEPT ![k] = "down"]
    /\ UNCHANGED <<written, failures, cancels>>

Closes(k) ==
    /\ closer[k] = "flushing" /\ call[k] = "out"
    /\ Close
    /\ closer' = [closer EXCEPT ![k] = "down"]
    /\ UNCHANGED <<written, failures, cancels>>

\* The last flush raised: stop ends there, with the connection open.
FlushRaised(k) ==
    /\ closer[k] = "flushing" /\ call[k] = "raised"
    /\ closer' = [closer EXCEPT ![k] = "raised"]
    /\ UNCHANGED <<sinkVars, written, failures, cancels>>

Next ==
    \/ \E t \in Clients : ClientWrites(t) \/ ClientCancelled(t)
    \/ \E t \in Tasks : Granted(t)
    \/ Tick \/ JobCommits \/ JobRaises \/ JobCutOff \/ CommitsElsewhere
    \/ \E k \in Closers : \/ Opens(k) \/ BeginsStop(k) \/ FlushesRemaining(k)
                          \/ Closes(k) \/ FlushRaised(k)

Spec == Init /\ [][Next]_vars

\* asyncio runs every ready task, the periodic task wakes every interval and
\* the executor answers; nobody has to write, cancel, stop or fail.
FairSpec ==
    /\ Spec
    /\ WF_vars(Tick) /\ WF_vars(JobCommits) /\ WF_vars(JobCutOff)
    /\ \A t \in Tasks : SF_vars(Granted(t))
    /\ \A k \in Closers : /\ WF_vars(FlushesRemaining(k))
                          /\ WF_vars(Closes(k) \/ FlushRaised(k))

-----------------------------------------------------------------------------
\* Types of the state.
TypeOK ==
    /\ SinkTypeOK
    /\ written \in 0 .. MaxRows
    /\ closer \in [Closers -> {"down", "up", "stopping", "flushing", "raised"}]
    /\ failures \in 0 .. MaxFailures
    /\ cancels \in 0 .. MaxCancels

Waiting == {pending[t] : t \in Tasks} \ {NoRow}
InJobs == UNION {RowsOf(j.rows) : j \in jobs}

\* Through full batches, periodic flushes, cancellations, failed commits and
\* restarts every row written is in one place only: it is never stored twice
\* and never forgotten without a fault (write, _flush_locked, stop, start).
RowsKept ==
    /\ RowsOf(table) \cup InJobs \cup RowsOf(buffer) \cup Waiting \cup lost
          = 1 .. written
    /\ written = Len(table) + Cardinality(InJobs) + Len(buffer)
                 + Cardinality(Waiting) + Cardinality(lost)

\* A row is lost only to a commit that raised, a writer cancelled in write or
\* a task cancelled while its batch was in the executor.
LossNeedsFault == lost # {} => failures > 0 \/ cancels > 0 \/ orphaned

\* While the sink stays open every buffered row is handed to the executor,
\* unless a failed commit has ended the periodic task or the stop that came in
\* its place (sqlite.py:91-94, 144-157, 186-189).
BufferIsFlushed ==
    \A r \in Row :
        r \in RowsOf(buffer)
            ~> \/ r \notin RowsOf(buffer) \/ ~db
               \/ call[Flusher] = "raised" \/ \E k \in Closers : closer[k] = "raised"

\* A stop that was begun ends: nobody waits for the lock or a job for ever.
StopEnds ==
    \A k \in Closers : closer[k] = "stopping" ~> closer[k] \in {"down", "raised"}
=============================================================================
