------------------------ MODULE SqliteSinkDriver_proofs ------------------------
(***************************************************************************)
(* The invariants of the SQLite sink hold in every behaviour of            *)
(* SqliteSinkDriver, for any tasks, batch size and number of rows,         *)
(* cancellations, failures and restarts.  The invariance proofs only say   *)
(* which operations of the sink an action of the driver is made of.        *)
(***************************************************************************)
EXTENDS SqliteSinkDriver, SqliteSink_proofs, FiniteSetTheorems

\* Init establishes the invariant.
LEMMA InitEstablishes == Init => SinkInv
<1> SUFFICES ASSUME Init PROVE SinkInv
  OBVIOUS
<1>1. SinkTypeOK
  <2>1. <<>> \in Seq(Row) /\ 0 \in 0 .. Len(<<>>)  OBVIOUS
  <2>2. QED  BY <2>1, SinkAssumption DEF Init, SinkInit, SinkTypeOK
<1>2. LockGuardsJob
  BY SinkAssumption DEF Init, SinkInit, LockGuardsJob
<1>3. QED  BY <1>1, <1>2 DEF SinkInv

\* Every step of the driver keeps it.
LEMMA StepKeeps ==
    ASSUME SinkInv, written \in Nat, [Next]_vars
    PROVE  SinkInv'
<1> USE SinkAssumption
<1>1. ASSUME NEW t \in Clients, ClientWrites(t)  PROVE SinkInv'
  <2>1. written + 1 \in Row
    BY <1>1, DriverAssumption DEF ClientWrites
  <2>2. Enter(t, written + 1) /\ t \in Tasks
    BY <1>1 DEF ClientWrites, Write, Tasks
  <2>3. QED  BY <2>1, <2>2, EnterKeeps
<1>2. ASSUME NEW t \in Clients, ClientCancelled(t)  PROVE SinkInv'
  <2>1. /\ CancelInside(t) /\ t \in Tasks
        /\ UNCHANGED <<db, conn, flushTask, buffer, table, uncommitted>>
    BY <1>2 DEF ClientCancelled, Cancel, Tasks
  <2>2. db' \in BOOLEAN /\ flushTask' \in BOOLEAN
    BY <2>1 DEF SinkInv, SinkTypeOK
  <2>3. QED  BY <2>1, <2>2, CancelKeeps
<1>3. ASSUME NEW t \in Tasks, Granted(t)  PROVE SinkInv'
  BY <1>3, AcquireKeeps DEF Granted
<1>4. CASE Tick
  BY <1>4, EnterKeeps DEF Tick, PeriodicFlush, Flush, Tasks
<1>5. CASE JobCommits
  BY <1>5, CommitKeeps DEF JobCommits
<1>6. CASE JobRaises
  BY <1>6, RaiseKeeps DEF JobRaises
<1>7. CASE JobCutOff
  BY <1>7, CutOffRaises, RaiseKeeps DEF JobCutOff
<1>8. ASSUME NEW k \in Closers, Opens(k)  PROVE SinkInv'
  BY <1>8, StartKeeps DEF Opens
<1>9. ASSUME NEW k \in Closers, BeginsStop(k)  PROVE SinkInv'
  <2>1. CASE StopFlushTask
    <3>1. /\ CancelInside(Flusher) /\ Flusher \in Tasks /\ flushTask' = FALSE
          /\ UNCHANGED <<db, conn, buffer, table, uncommitted>>
      BY <2>1 DEF StopFlushTask, Tasks
    <3>2. db' \in BOOLEAN /\ flushTask' \in BOOLEAN
      BY <3>1 DEF SinkInv, SinkTypeOK
    <3>3. QED  BY <3>1, <3>2, CancelKeeps
  <2>2. CASE UNCHANGED sinkVars
    BY <2>2, UntouchedKeeps
  <2>3. QED  BY <1>9, <2>1, <2>2 DEF BeginsStop
<1>10. ASSUME NEW k \in Closers, FlushesRemaining(k)  PROVE SinkInv'
  BY <1>10, EnterKeeps DEF FlushesRemaining, Flush, Tasks
<1>11. ASSUME NEW k \in Closers, Closes(k)  PROVE SinkInv'
  BY <1>11, CloseKeeps DEF Closes
<1>12. ASSUME NEW k \in Closers, FlushRaised(k)  PROVE SinkInv'
  BY <1>12, UntouchedKeeps DEF FlushRaised
<1>13. CASE CommitsElsewhere
  BY <1>13, CommitElsewhereKeeps DEF CommitsElsewhere
<1>14. CASE UNCHANGED vars
  BY <1>14, UntouchedKeeps DEF vars
<1>15. QED
  BY <1>1, <1>2, <1>3, <1>4, <1>5, <1>6, <1>7, <1>8, <1>9, <1>10, <1>11, <1>12,
     <1>13, <1>14 DEF Next

\* The bounds of the driver: written, closer and the two fault counters.
DriverTypes ==
    /\ written \in 0 .. MaxRows
    /\ closer \in [Closers -> {"down", "up", "stopping", "flushing", "raised"}]
    /\ failures \in 0 .. MaxFailures
    /\ cancels \in 0 .. MaxCancels

LEMMA InitTypes == Init => DriverTypes
BY DriverAssumption DEF Init, DriverTypes

LEMMA StepTypes ==
    ASSUME DriverTypes, [Next]_vars
    PROVE  DriverTypes'
<1> USE DriverAssumption DEF DriverTypes
<1>1. ASSUME NEW t \in Clients, ClientWrites(t)  PROVE DriverTypes'
  BY <1>1 DEF ClientWrites
<1>2. ASSUME NEW t \in Clients, ClientCancelled(t)  PROVE DriverTypes'
  BY <1>2 DEF ClientCancelled
<1>3. CASE JobRaises
  BY <1>3 DEF JobRaises
<1>4. ASSUME NEW k \in Closers,
             Opens(k) \/ BeginsStop(k) \/ FlushesRemaining(k) \/ Closes(k)
             \/ FlushRaised(k)
      PROVE  DriverTypes'
  BY <1>4 DEF Opens, BeginsStop, FlushesRemaining, Closes, FlushRaised
<1>5. CASE UNCHANGED clientVars
  BY <1>5 DEF clientVars
<1>6. QED
  BY <1>1, <1>2, <1>3, <1>4, <1>5
  DEF Next, Granted, Tick, JobCommits, JobCutOff, CommitsElsewhere, vars

\* The sink's variables keep their types.
THEOREM SinkTypeCorrect == Spec => []TypeOK
<1>1. Init => SinkInv /\ DriverTypes
  BY InitEstablishes, InitTypes
<1>2. SinkInv /\ DriverTypes /\ [Next]_vars => (SinkInv /\ DriverTypes)'
  <2>1. DriverTypes => written \in Nat
    BY DriverAssumption DEF DriverTypes
  <2>2. QED  BY <2>1, StepKeeps, StepTypes
<1>3. SinkInv /\ DriverTypes => TypeOK
  BY DEF SinkInv, DriverTypes, TypeOK
<1>4. QED  BY <1>1, <1>2, <1>3, PTL DEF Spec

\* The lock is held exactly while its holder waits for the one awaited job,
\* through every cancellation, failure and restart (sqlite.py:159-178).
THEOREM LockIsHeldForJob == Spec => []LockGuardsJob
<1>1. Init => SinkInv /\ DriverTypes
  BY InitEstablishes, InitTypes
<1>2. SinkInv /\ DriverTypes /\ [Next]_vars => (SinkInv /\ DriverTypes)'
  <2>1. DriverTypes => written \in Nat
    BY DriverAssumption DEF DriverTypes
  <2>2. QED  BY <2>1, StepKeeps, StepTypes
<1>3. SinkInv => LockGuardsJob
  BY DEF SinkInv
<1>4. QED  BY <1>1, <1>2, <1>3, PTL DEF Spec

-----------------------------------------------------------------------------
\* The driver's rows are their own keys.
Id == [row \in Row |-> row]

\* Every row written is in one place or lost.
RowsInv == Apart(Id) /\ Live(Id) \cup KeysLost(Id) = 1 .. written

LEMMA InitRows == Init => RowsInv
<1> SUFFICES ASSUME Init PROVE RowsInv
  OBVIOUS
<1>1. Apart(Id) /\ Live(Id) = {} /\ KeysLost(Id) = {}
  BY NoRowsYet DEF Init
<1>2. QED  BY <1>1 DEF Init, RowsInv

\* A step that writes nothing moves no row in or out.
LEMMA MovesKeep ==
    ASSUME RowsInv, RowsMove(Id, {}), written' = written
    PROVE  RowsInv'
BY DEF RowsInv, RowsMove

LEMMA StepRows ==
    ASSUME SinkInv, DriverTypes, RowsInv, [Next]_vars
    PROVE  RowsInv'
<1> USE SinkAssumption
<1>1. Apart(Id) /\ WaitersQueue
  BY DEF RowsInv, Apart
<1>2. ASSUME NEW t \in Clients, ClientWrites(t)  PROVE RowsInv'
  <2> DEFINE row == written + 1
  <2>1. /\ written \in Nat /\ row \in Row /\ t \in Tasks
        /\ Enter(t, row) /\ row # NoRow /\ written' = written + 1
    BY <1>2, DriverAssumption DEF ClientWrites, Write, Tasks, DriverTypes
  <2>2. KeysNew(Id, row) = {row}
    BY <2>1 DEF KeysNew, Id
  <2>3. KeysNew(Id, row) \cap (Live(Id) \cup KeysLost(Id)) = {}
    BY <2>1, <2>2 DEF RowsInv
  <2> HIDE DEF row
  <2>4. RowsMove(Id, KeysNew(Id, row))
    BY <1>1, <2>1, <2>3, EnterMoves
  <2>5. 1 .. written' = (1 .. written) \cup {row}
    BY <2>1 DEF row
  <2>6. QED  BY <2>2, <2>4, <2>5 DEF RowsMove, RowsInv
<1>3. ASSUME NEW t \in Clients, ClientCancelled(t)  PROVE RowsInv'
  <2>1. /\ CancelInside(t) /\ t \in Tasks /\ written' = written
        /\ UNCHANGED <<buffer, table>>
    BY <1>3 DEF ClientCancelled, Cancel, Tasks
  <2>2. QED  BY <1>1, <2>1, CancelMoves, MovesKeep
<1>4. ASSUME NEW t \in Tasks, Granted(t)  PROVE RowsInv'
  BY <1>1, <1>4, AcquireMoves, MovesKeep DEF Granted, clientVars
\* A flush brings in no row.
<1>5. ASSUME NEW t \in Tasks, Flush(t), written' = written  PROVE RowsInv'
  <2>1. Enter(t, NoRow) /\ KeysNew(Id, NoRow) = {}
    BY <1>5 DEF Flush, KeysNew
  <2>2. RowsMove(Id, {})
    BY <1>1, <2>1, EnterMoves
  <2>3. QED  BY <1>5, <2>2, MovesKeep
<1>6. CASE Tick
  BY <1>5, <1>6 DEF Tick, PeriodicFlush, Tasks, clientVars
<1>7. CASE JobCommits
  BY <1>1, <1>7, CommitMoves, MovesKeep DEF JobCommits, clientVars
<1>8. CASE JobRaises
  BY <1>1, <1>8, RaiseMoves, MovesKeep DEF JobRaises
<1>9. CASE JobCutOff
  BY <1>1, <1>9, CutOffRaises, RaiseMoves, MovesKeep DEF JobCutOff, clientVars
<1>10. ASSUME NEW k \in Closers, Opens(k)  PROVE RowsInv'
  BY <1>1, <1>10, StartMoves, MovesKeep DEF Opens
\* A step that leaves rows and calls alone.
<1>11. ASSUME UNCHANGED <<buffer, call, pending, jobs, lost, table, written>>
       PROVE  RowsInv'
  <2>1. WaitersQueue'
    BY <1>1, <1>11 DEF WaitersQueue
  <2>2. QED  BY <1>1, <1>11, <2>1, StillMoves, MovesKeep
<1>12. ASSUME NEW k \in Closers, BeginsStop(k)  PROVE RowsInv'
  <2>1. CASE StopFlushTask
    <3>1. /\ CancelInside(Flusher) /\ Flusher \in Tasks /\ written' = written
          /\ UNCHANGED <<buffer, table>>
      BY <1>12, <2>1 DEF StopFlushTask, BeginsStop, Tasks
    <3>2. QED  BY <1>1, <3>1, CancelMoves, MovesKeep
  <2>2. CASE UNCHANGED sinkVars
    BY <1>11, <1>12, <2>2 DEF BeginsStop, sinkVars
  <2>3. QED  BY <1>12, <2>1, <2>2 DEF BeginsStop
<1>13. ASSUME NEW k \in Closers, FlushesRemaining(k)  PROVE RowsInv'
  BY <1>5, <1>13 DEF FlushesRemaining, Tasks
<1>14. ASSUME NEW k \in Closers, Closes(k)  PROVE RowsInv'
  BY <1>1, <1>14, CloseMoves, MovesKeep DEF Closes
<1>15. ASSUME NEW k \in Closers, FlushRaised(k)  PROVE RowsInv'
  BY <1>11, <1>15 DEF FlushRaised, sinkVars
<1>16. CASE UNCHANGED vars
  BY <1>11, <1>16 DEF vars, sinkVars, clientVars
<1>17. CASE CommitsElsewhere
  BY <1>1, <1>17, CommitElsewhereMoves, MovesKeep DEF CommitsElsewhere, clientVars
<1>18. QED
  BY <1>2, <1>3, <1>4, <1>6, <1>7, <1>8, <1>9, <1>10, <1>12, <1>13, <1>14, <1>15,
     <1>16, <1>17 DEF Next

-----------------------------------------------------------------------------
\* A sequence without repetitions is as long as the set of its rows is large.
LEMMA DistinctLength ==
    ASSUME NEW seq \in Seq(Row), Distinct(Id, seq)
    PROVE  IsFiniteSet(RowsOf(seq)) /\ Cardinality(RowsOf(seq)) = Len(seq)
<1> DEFINE D == 1 .. Len(seq)
           f == [i \in D |-> seq[i]]
<1>1. \A i \in D : seq[i] \in Row
  OBVIOUS
<1>2. f \in Bijection(D, RowsOf(seq))
  <2>1. f \in [D -> RowsOf(seq)]
    BY DEF RowsOf
  <2>2. \A i, j \in D : f[i] = f[j] => i = j
    BY <1>1 DEF Distinct, Id
  <2>3. \A r \in RowsOf(seq) : \E i \in D : f[i] = r
    BY DEF RowsOf
  <2>4. DOMAIN f = D  OBVIOUS
  <2> HIDE DEF f, D
  <2>5. QED  BY <2>1, <2>2, <2>3, <2>4 DEF Bijection, Injection, Surjection, IsInjective
<1>3. IsFiniteSet(D) /\ Cardinality(D) = Len(seq)
  <2>1. Len(seq) \in Nat  OBVIOUS
  <2>2. QED  BY <2>1, FS_Interval
<1> HIDE DEF f, D
<1>4. QED  BY <1>2, <1>3, FS_Bijection DEF ExistsBijection

\* Disjoint finite sets add up.
LEMMA Disjoint ==
    ASSUME NEW S, NEW T, IsFiniteSet(S), IsFiniteSet(T), S \cap T = {}
    PROVE  /\ IsFiniteSet(S \cup T)
           /\ Cardinality(S \cup T) = Cardinality(S) + Cardinality(T)
<1>1. Cardinality(S) \in Nat /\ Cardinality(T) \in Nat
  BY FS_CardinalityType
<1>2. QED  BY <1>1, FS_Union, FS_EmptySet

\* The rows of the five places, counted place by place.
LEMMA RowsCounted ==
    ASSUME SinkInv, DriverTypes, RowsInv
    PROVE  RowsKept
<1>1. /\ table \in Seq(Row) /\ buffer \in Seq(Row) /\ lost \subseteq Row
      /\ \A j \in jobs : j.rows \in Seq(Row)
      /\ \A t \in Tasks : pending[t] \in Row \cup {NoRow}
      /\ written \in Nat
  BY DriverAssumption DEF SinkInv, SinkTypeOK, Job, DriverTypes
<1>2. \A seq \in Seq(Row) : KeysOf(Id, seq) = RowsOf(seq)
  <2>1. TAKE seq \in Seq(Row)
  <2>2. \A i \in 1 .. Len(seq) : Id[seq[i]] = seq[i]
    BY DEF Id
  <2>3. QED  BY <2>2 DEF KeysOf, RowsOf
<1>3. KeysOf(Id, table) = RowsOf(table) /\ KeysOf(Id, buffer) = RowsOf(buffer)
  BY <1>1, <1>2
<1>4. KeysInJobs(Id) = InJobs
  BY <1>1, <1>2 DEF KeysInJobs, InJobs
<1>5. KeysWaiting(Id) = Waiting
  <2>1. \A t \in Tasks : pending[t] # NoRow => Id[pending[t]] = pending[t]
    BY <1>1 DEF Id
  <2>2. QED  BY <2>1 DEF KeysWaiting, Waiting
<1>6. KeysLost(Id) = lost
  <2>1. \A row \in lost : Id[row] = row
    BY <1>1 DEF Id
  <2>2. QED  BY <2>1 DEF KeysLost
<1> DEFINE T == RowsOf(table)
           B == RowsOf(buffer)
<1>7. T \cup InJobs \cup B \cup Waiting \cup lost = 1 .. written
  BY <1>3, <1>4, <1>5, <1>6 DEF RowsInv, Live
<1>8. /\ Cardinality(T) = Len(table) /\ Cardinality(B) = Len(buffer)
  BY <1>1, DistinctLength DEF RowsInv, Apart, Packed
<1>9. /\ T \cap InJobs = {}
      /\ (T \cup InJobs) \cap B = {}
      /\ (T \cup InJobs \cup B) \cap Waiting = {}
      /\ (T \cup InJobs \cup B \cup Waiting) \cap lost = {}
  <2>1. /\ KeysInJobs(Id) \cap KeysOf(Id, buffer) = {}
        /\ (KeysInJobs(Id) \cup KeysOf(Id, buffer)) \cap KeysWaiting(Id) = {}
        /\ KeysOf(Id, table)
             \cap (KeysInJobs(Id) \cup KeysOf(Id, buffer) \cup KeysWaiting(Id)) = {}
        /\ KeysLost(Id) \cap (KeysOf(Id, table) \cup KeysInJobs(Id)
                              \cup KeysOf(Id, buffer) \cup KeysWaiting(Id)) = {}
    BY DEF RowsInv, Apart, Packed, Live
  <2> HIDE DEF T, B
  <2>2. QED  BY <1>3, <1>4, <1>5, <1>6, <2>1 DEF T, B
<1>10. IsFiniteSet(1 .. written) /\ Cardinality(1 .. written) = written
  BY <1>1, FS_Interval
<1> HIDE DEF T, B
<1>11. /\ IsFiniteSet(T) /\ IsFiniteSet(InJobs) /\ IsFiniteSet(B)
       /\ IsFiniteSet(Waiting) /\ IsFiniteSet(lost)
  BY <1>7, <1>10, FS_Subset
<1>12. /\ IsFiniteSet(T \cup InJobs)
       /\ Cardinality(T \cup InJobs) = Cardinality(T) + Cardinality(InJobs)
  BY <1>9, <1>11, Disjoint
<1>13. /\ IsFiniteSet(T \cup InJobs \cup B)
       /\ Cardinality(T \cup InJobs \cup B)
             = Cardinality(T \cup InJobs) + Cardinality(B)
  BY <1>9, <1>11, <1>12, Disjoint
<1>14. /\ IsFiniteSet(T \cup InJobs \cup B \cup Waiting)
       /\ Cardinality(T \cup InJobs \cup B \cup Waiting)
             = Cardinality(T \cup InJobs \cup B) + Cardinality(Waiting)
  BY <1>9, <1>11, <1>13, Disjoint
<1>15. Cardinality(T \cup InJobs \cup B \cup Waiting \cup lost)
             = Cardinality(T \cup InJobs \cup B \cup Waiting) + Cardinality(lost)
  BY <1>9, <1>11, <1>14, Disjoint
<1>16. written = Cardinality(T) + Cardinality(InJobs) + Cardinality(B)
                 + Cardinality(Waiting) + Cardinality(lost)
  BY <1>7, <1>10, <1>12, <1>13, <1>14, <1>15
<1>17. QED  BY <1>7, <1>8, <1>16 DEF RowsKept, T, B

\* Through full batches, periodic flushes, cancellations, failed commits and
\* restarts every row written is in one place only: it is never stored twice
\* and never forgotten without a fault (sqlite.py:117-190).
THEOREM RowsAreKept == Spec => []RowsKept
<1>1. Init => SinkInv /\ DriverTypes /\ RowsInv
  BY InitEstablishes, InitTypes, InitRows
<1>2. SinkInv /\ DriverTypes /\ RowsInv /\ [Next]_vars
         => (SinkInv /\ DriverTypes /\ RowsInv)'
  <2>1. DriverTypes => written \in Nat
    BY DriverAssumption DEF DriverTypes
  <2>2. QED  BY <2>1, StepKeeps, StepTypes, StepRows
<1>3. SinkInv /\ DriverTypes /\ RowsInv => RowsKept
  BY RowsCounted
<1>4. QED  BY <1>1, <1>2, <1>3, PTL DEF Spec

-----------------------------------------------------------------------------
\* At most one task is between opening and closing the sink, the database is
\* open exactly then, and once its last flush is over nobody holds the lock.
OneCloser ==
    /\ \A k, m \in Closers : closer[k] # "down" /\ closer[m] # "down" => k = m
    /\ db <=> \E k \in Closers : closer[k] # "down"
    /\ \A k \in Closers : closer[k] = "flushing" /\ Outside(k) => lock = Free

\* Only a client that is cancelled can drop a row it waits to append, a job is
\* cut off only when it is an orphan, and a transaction is left open only by a
\* batch that raised.
LossInv ==
    /\ OneCloser
    /\ JobsCurrent
    /\ failures = 0 => uncommitted = 0
    /\ \A t \in Tasks : t \notin Clients => pending[t] = NoRow
    /\ LossNeedsFault

LEMMA InitLoss == Init => LossInv
<1> SUFFICES ASSUME Init PROVE LossInv
  OBVIOUS
<1>1. OneCloser
  BY DEF Init, SinkInit, OneCloser
<1>2. /\ JobsCurrent /\ LossNeedsFault /\ uncommitted = 0
      /\ \A t \in Tasks : pending[t] = NoRow
  BY DEF Init, SinkInit, JobsCurrent, LossNeedsFault
<1>3. QED  BY <1>1, <1>2 DEF LossInv

\* The closer in its last flush keeps others out of the lock.
LEMMA LoopKeepsCloser ==
    ASSUME SinkInv, DriverTypes, OneCloser, LoopIsFree, NEW t \in Tasks,
           \/ Acquire(t)
           \/ t \notin Closers /\ (CancelInside(t) \/ \E row : Enter(t, row)),
           closer' = closer, db' = db
    PROVE  OneCloser'
<1>1. SUFFICES ASSUME NEW k \in Closers, closer[k] = "flushing", Outside(k)'
               PROVE  lock' = Free
  BY DEF OneCloser, Outside
<1>2. ~Outside(k) /\ k \in Tasks /\ SinkTypeOK
  BY <1>1 DEF LoopIsFree, Tasks, SinkInv
<1>3. ASSUME NEW row, Locked(t, row)  PROVE lock' = Free
  <2>1. t = k
    BY <1>1, <1>2, <1>3, LockedCalls DEF Outside
  <2>2. call'[t] # "raised"
    BY <1>2, <1>3 DEF Locked, AppendLocked, FlushLocked, SinkTypeOK
  <2>3. QED  BY <1>1, <1>2, <1>3, <2>1, <2>2, LockedLeaves DEF Outside
<1>4. CASE Acquire(t)
  BY <1>3, <1>4 DEF Acquire
<1>5. CASE t \notin Closers /\ CancelInside(t)
  BY <1>1, <1>2, <1>5 DEF CancelInside, Outside, SinkTypeOK
<1>6. ASSUME t \notin Closers, NEW row, Enter(t, row)  PROVE lock' = Free
  <2>1. CASE lock = Free
    BY <1>3, <1>6, <2>1 DEF Enter
  <2>2. CASE lock # Free
    BY <1>1, <1>2, <1>6, <2>2 DEF Enter, Outside, SinkTypeOK
  <2>3. QED  BY <2>1, <2>2
<1>7. QED  BY <1>4, <1>5, <1>6

\* So does a job that ends: its task leaves the lock free.
LEMMA AnswerKeepsCloser ==
    ASSUME SinkInv, OneCloser, NEW job \in jobs, NEW how, Answer(job, how),
           closer' = closer, db' = db
    PROVE  OneCloser'
<1>1. CASE job.awaited
  BY <1>1 DEF Answer, OneCloser, Outside
<1>2. CASE ~job.awaited
  BY <1>2 DEF Answer, OneCloser, Outside
<1>3. QED  BY <1>1, <1>2

LEMMA StepLoss ==
    ASSUME SinkInv, DriverTypes, LossInv, [Next]_vars
    PROVE  LossInv'
<1> USE SinkAssumption
<1>1. /\ OneCloser /\ JobsCurrent /\ LossNeedsFault /\ SinkTypeOK
      /\ failures = 0 => uncommitted = 0
      /\ \A t \in Tasks : t \notin Clients => pending[t] = NoRow
      /\ failures \in Nat /\ cancels \in Nat
      /\ closer \in [Closers -> {"down", "up", "stopping", "flushing", "raised"}]
  BY DriverAssumption DEF LossInv, SinkInv, DriverTypes
<1>2. ASSUME NEW t \in Clients, ClientWrites(t)  PROVE LossInv'
  <2>1. /\ Enter(t, written + 1) /\ LoopIsFree /\ t \in Tasks /\ t \notin Closers
        /\ UNCHANGED <<closer, failures, cancels>>
    BY <1>2 DEF ClientWrites, Write, Tasks
  <2>2. /\ JobsCurrent' /\ db' = db /\ uncommitted' = uncommitted
        /\ lost' = lost /\ orphaned' = orphaned
    BY <1>1, <2>1, EnterCurrent DEF Enter
  <2>3. OneCloser'
    BY <1>1, <2>1, <2>2, LoopKeepsCloser
  <2>4. \A u \in Tasks : u \notin Clients => pending'[u] = NoRow
    BY <1>1, <2>1 DEF Enter, SinkTypeOK
  <2>5. QED  BY <1>1, <2>1, <2>2, <2>3, <2>4 DEF LossInv, LossNeedsFault
<1>3. ASSUME NEW t \in Clients, ClientCancelled(t)  PROVE LossInv'
  <2>1. /\ CancelInside(t) /\ LoopIsFree /\ t \in Tasks /\ t \notin Closers
        /\ UNCHANGED <<db, conn, uncommitted, closer, failures>>
        /\ cancels' = cancels + 1
    BY <1>3 DEF ClientCancelled, Cancel, Tasks
  <2>2. JobsCurrent'
    BY <1>1, <2>1, CancelInsideCurrent
  <2>3. OneCloser'
    BY <1>1, <2>1, LoopKeepsCloser
  <2>4. \A u \in Tasks : u \notin Clients => pending'[u] = NoRow
    BY <1>1, <2>1 DEF CancelInside, SinkTypeOK
  <2>5. LossNeedsFault'
    BY <1>1, <2>1 DEF LossNeedsFault
  <2>6. QED  BY <1>1, <2>1, <2>2, <2>3, <2>4, <2>5 DEF LossInv
<1>4. ASSUME NEW t \in Tasks, Granted(t)  PROVE LossInv'
  <2>1. Acquire(t) /\ LoopIsFree /\ UNCHANGED <<closer, failures, cancels>>
    BY <1>4 DEF Granted, clientVars
  <2>2. /\ JobsCurrent' /\ db' = db /\ uncommitted' = uncommitted
        /\ lost' = lost /\ orphaned' = orphaned
    BY <1>1, <2>1, AcquireCurrent DEF Acquire
  <2>3. OneCloser'
    BY <1>1, <2>1, <2>2, LoopKeepsCloser
  <2>4. \A u \in Tasks : u \notin Clients => pending'[u] = NoRow
    BY <1>1, <2>1 DEF Acquire, SinkTypeOK
  <2>5. QED  BY <1>1, <2>1, <2>2, <2>3, <2>4 DEF LossInv, LossNeedsFault
<1>5. CASE Tick
  <2>1. /\ Enter(Flusher, NoRow) /\ LoopIsFree /\ Flusher \in Tasks
        /\ Flusher \notin Closers /\ UNCHANGED <<closer, failures, cancels>>
    BY <1>5 DEF Tick, PeriodicFlush, Flush, Tasks, clientVars
  <2>2. /\ JobsCurrent' /\ db' = db /\ uncommitted' = uncommitted
        /\ lost' = lost /\ orphaned' = orphaned
    BY <1>1, <2>1, EnterCurrent DEF Enter
  <2>3. OneCloser'
    BY <1>1, <2>1, <2>2, LoopKeepsCloser
  <2>4. \A u \in Tasks : u \notin Clients => pending'[u] = NoRow
    BY <1>1, <2>1 DEF Enter, SinkTypeOK
  <2>5. QED  BY <1>1, <2>1, <2>2, <2>3, <2>4 DEF LossInv, LossNeedsFault
<1>6. CASE JobCommits
  <2>1. PICK job \in jobs : Commit(job)
    BY <1>6 DEF JobCommits
  <2>2. /\ Answer(job, "out") /\ lost' = lost /\ db' = db /\ pending' = pending
        /\ uncommitted' = 0 /\ orphaned' = orphaned /\ UNCHANGED <<closer, failures, cancels>>
    BY <1>6, <2>1 DEF JobCommits, Commit, Answer, clientVars
  <2>3. JobsCurrent' /\ OneCloser'
    BY <1>1, <2>2, AnswerCurrent, AnswerKeepsCloser
  <2>4. QED  BY <1>1, <2>2, <2>3 DEF LossInv, LossNeedsFault
<1>7. CASE JobRaises
  <2>1. PICK job \in jobs : \E n \in 0 .. Len(job.rows) : Raise(job, n)
    BY <1>7 DEF JobRaises
  <2>2. /\ Answer(job, "raised") /\ db' = db /\ pending' = pending
        /\ closer' = closer /\ failures' = failures + 1
    BY <1>7, <2>1 DEF JobRaises, Raise, Answer
  <2>3. JobsCurrent' /\ OneCloser'
    BY <1>1, <2>2, AnswerCurrent, AnswerKeepsCloser
  <2>4. LossNeedsFault'
    BY <1>1, <2>2 DEF LossNeedsFault
  <2>5. QED  BY <1>1, <2>2, <2>3, <2>4 DEF LossInv
<1>8. CASE JobCutOff
  <2>1. PICK job \in jobs : CutOff(job)
    BY <1>8 DEF JobCutOff
  <2>2. /\ Answer(job, "raised") /\ db' = db /\ pending' = pending
        /\ orphaned' = orphaned /\ closer' = closer /\ failures' = failures
        /\ uncommitted' = uncommitted + 0
    BY <1>8, <2>1 DEF JobCutOff, CutOff, Raise, Answer, clientVars
  <2>3. JobsCurrent' /\ OneCloser'
    BY <1>1, <2>2, AnswerCurrent, AnswerKeepsCloser
  <2>4. orphaned
    BY <1>1, <2>1 DEF CutOff, JobsCurrent
  <2>5. LossNeedsFault'
    BY <2>2, <2>4 DEF LossNeedsFault
  <2>6. QED  BY <1>1, <2>2, <2>3, <2>5 DEF LossInv, SinkTypeOK
<1>9. ASSUME NEW k \in Closers, Opens(k)  PROVE LossInv'
  <2>1. /\ Opened /\ ~db /\ closer' = [closer EXCEPT ![k] = "up"]
        /\ UNCHANGED <<failures, cancels, uncommitted, lost>>
    BY <1>9 DEF Opens, Start
  <2>2. /\ db' = TRUE /\ UNCHANGED <<lock, pending, orphaned>>
    BY <2>1 DEF Opened
  <2>3. JobsCurrent'
    BY <1>1, <2>1, OpenedCurrent
  <2>4. \A m \in Closers : closer[m] = "down"
    BY <1>1, <2>1 DEF OneCloser
  <2>5. \A m \in Closers : closer'[m] = IF m = k THEN "up" ELSE "down"
    BY <1>1, <2>1, <2>4
  <2>6. OneCloser'
    BY <2>2, <2>5 DEF OneCloser
  <2>7. QED  BY <1>1, <2>1, <2>2, <2>3, <2>6 DEF LossInv, LossNeedsFault
<1>10. ASSUME NEW k \in Closers, BeginsStop(k)  PROVE LossInv'
  <2>1. /\ closer[k] = "up" /\ UNCHANGED <<failures, cancels>>
    BY <1>10 DEF BeginsStop
  <2>2. CASE StopFlushTask /\ closer' = [closer EXCEPT ![k] = "stopping"]
    <3>1. /\ CancelInside(Flusher) /\ Flusher \in Tasks /\ Flusher \notin Clients
          /\ Flusher \notin Closers /\ UNCHANGED <<db, conn, uncommitted>>
      BY <2>2 DEF StopFlushTask, Tasks
    <3>2. JobsCurrent'
      BY <1>1, <3>1, CancelInsideCurrent
    <3>3. /\ \A u \in Tasks : u \notin Clients => pending'[u] = NoRow
          /\ lost' # lost => call[Flusher] = "job"
          /\ orphaned' = (orphaned \/ call[Flusher] = "job")
      <4>1. PICK unbegun \in SUBSET {j \in jobs : j.awaited /\ j.by = Flusher} :
               /\ pending' = [pending EXCEPT ![Flusher] = NoRow]
               /\ lost' = lost \cup ({pending[Flusher]} \ {NoRow})
                               \cup UNION {RowsOf(j.rows) : j \in unbegun}
               /\ orphaned' = (orphaned \/ call[Flusher] = "job")
        BY <3>1 DEF CancelInside
      <4>2. pending[Flusher] = NoRow
        BY <1>1, <3>1
      <4>3. call[Flusher] # "job" => unbegun = {}
        BY <3>1, <4>1 DEF SinkInv, LockGuardsJob
      <4>4. \A u \in Tasks : u \notin Clients => pending'[u] = NoRow
        BY <1>1, <4>1 DEF SinkTypeOK
      <4>5. QED  BY <4>1, <4>2, <4>3, <4>4
    <3>4. \A m \in Closers : closer[m] = IF m = k THEN "up" ELSE "down"
      BY <1>1, <2>1 DEF OneCloser
    <3>5. \A m \in Closers : closer'[m] = IF m = k THEN "stopping" ELSE "down"
      BY <1>1, <2>2, <3>4
    <3>6. OneCloser'
      BY <1>1, <3>1, <3>4, <3>5 DEF OneCloser
    <3>7. LossNeedsFault'
      BY <1>1, <2>1, <3>3 DEF LossNeedsFault
    <3>8. QED  BY <1>1, <2>1, <3>1, <3>2, <3>3, <3>6, <3>7 DEF LossInv
  <2>3. CASE UNCHANGED sinkVars /\ closer' = [closer EXCEPT ![k] = "raised"]
    <3>1. UNCHANGED <<db, conn, lock, call, pending, jobs, uncommitted, lost, orphaned>>
      BY <2>3 DEF sinkVars
    <3>2. OneCloser'
      BY <1>1, <2>1, <2>3, <3>1 DEF OneCloser, Outside
    <3>3. QED
      BY <1>1, <2>1, <3>1, <3>2 DEF LossInv, JobsCurrent, LossNeedsFault
  <2>4. QED  BY <1>10, <2>2, <2>3 DEF BeginsStop
<1>11. ASSUME NEW k \in Closers, FlushesRemaining(k)  PROVE LossInv'
  <2>1. /\ Enter(k, NoRow) /\ k \in Tasks /\ closer[k] = "stopping"
        /\ closer' = [closer EXCEPT ![k] = "flushing"]
        /\ UNCHANGED <<failures, cancels>>
    BY <1>11 DEF FlushesRemaining, Flush, Tasks
  <2>2. /\ JobsCurrent' /\ db' = db /\ uncommitted' = uncommitted
        /\ lost' = lost /\ orphaned' = orphaned
    BY <1>1, <2>1, EnterCurrent DEF Enter
  <2>3. \A u \in Tasks : u \notin Clients => pending'[u] = NoRow
    BY <1>1, <2>1 DEF Enter, SinkTypeOK
  <2>4. Outside(k)' => lock' = Free
    <3>1. CASE lock = Free
      <4>1. Locked(k, NoRow)
        BY <2>1, <3>1 DEF Enter
      <4>2. QED  BY <1>1, <2>1, <4>1 DEF Outside, Locked, FlushLocked, SinkTypeOK
    <3>2. CASE lock # Free
      BY <1>1, <2>1, <3>2 DEF Enter, Outside, SinkTypeOK
    <3>3. QED  BY <3>1, <3>2
  <2>5. \A m \in Closers : closer[m] = IF m = k THEN "stopping" ELSE "down"
    BY <1>1, <2>1 DEF OneCloser
  <2>6. \A m \in Closers : closer'[m] = IF m = k THEN "flushing" ELSE "down"
    BY <1>1, <2>1, <2>5
  <2>7. OneCloser'
    BY <1>1, <2>2, <2>4, <2>5, <2>6 DEF OneCloser
  <2>8. QED  BY <1>1, <2>1, <2>2, <2>3, <2>7 DEF LossInv, LossNeedsFault
<1>12. ASSUME NEW k \in Closers, Closes(k)  PROVE LossInv'
  <2>1. /\ closer[k] = "flushing" /\ call[k] = "out" /\ db' = FALSE
        /\ closer' = [closer EXCEPT ![k] = "down"]
        /\ UNCHANGED <<pending, jobs, orphaned, failures, cancels>>
        /\ RolledBack
    BY <1>12 DEF Closes, Close
  <2>2. lock = Free
    BY <1>1, <2>1 DEF OneCloser, Outside
  <2>3. JobsCurrent'
    BY <1>1, <2>1, <2>2, FreeMeansIdle DEF JobsCurrent
  <2>4. \A m \in Closers : closer'[m] = "down"
    BY <1>1, <2>1 DEF OneCloser
  <2>5. OneCloser'
    BY <2>1, <2>4 DEF OneCloser
  <2>6. lost' # lost => uncommitted # 0
    <3>1. \A seq \in Seq(Row) : SubSeq(seq, 1, Len(seq) - 0) = seq
      OBVIOUS
    <3>2. table \in Seq(Row)
      BY <1>1 DEF SinkTypeOK
    <3>3. uncommitted = 0 => Committed = table
      BY <3>1, <3>2 DEF Committed
    <3>4. uncommitted = 0 => lost' = lost
      BY <2>1, <3>3 DEF RolledBack
    <3>5. QED  BY <3>4
  <2>7. uncommitted' = 0
    BY <2>1 DEF RolledBack
  <2>8. QED  BY <1>1, <2>1, <2>3, <2>5, <2>6, <2>7 DEF LossInv, LossNeedsFault
<1>13. ASSUME NEW k \in Closers, FlushRaised(k)  PROVE LossInv'
  <2>1. /\ closer[k] = "flushing" /\ closer' = [closer EXCEPT ![k] = "raised"]
        /\ UNCHANGED <<db, conn, lock, call, pending, jobs, uncommitted, lost,
                       orphaned, failures, cancels>>
    BY <1>13 DEF FlushRaised, sinkVars
  <2>2. OneCloser'
    BY <1>1, <2>1 DEF OneCloser, Outside
  <2>3. QED  BY <1>1, <2>1, <2>2 DEF LossInv, JobsCurrent, LossNeedsFault
<1>14. CASE UNCHANGED vars
  BY <1>1, <1>14
  DEF LossInv, JobsCurrent, LossNeedsFault, OneCloser, Outside, vars, sinkVars,
      clientVars
<1>15. CASE CommitsElsewhere
  <2>1. /\ uncommitted' = 0
        /\ UNCHANGED <<db, conn, lock, call, pending, jobs, lost, orphaned, closer,
                       failures, cancels>>
    BY <1>15 DEF CommitsElsewhere, CommitElsewhere, clientVars
  <2>2. OneCloser' /\ JobsCurrent' /\ LossNeedsFault'
    BY <1>1, <2>1 DEF OneCloser, Outside, JobsCurrent, LossNeedsFault
  <2>3. QED  BY <1>1, <2>1, <2>2 DEF LossInv
<1>16. QED
  BY <1>2, <1>3, <1>4, <1>5, <1>6, <1>7, <1>8, <1>9, <1>10, <1>11, <1>12, <1>13,
     <1>14, <1>15 DEF Next

\* A row is lost only to a commit that raised, a writer cancelled in write or a
\* task cancelled while its batch was in the executor: closing the connection
\* after the last flush cuts no awaited batch off (sqlite.py:117-190).
THEOREM OnlyFaultsLoseRows == Spec => []LossNeedsFault
<1>1. Init => SinkInv /\ DriverTypes /\ LossInv
  BY InitEstablishes, InitTypes, InitLoss
<1>2. SinkInv /\ DriverTypes /\ LossInv /\ [Next]_vars
         => (SinkInv /\ DriverTypes /\ LossInv)'
  <2>1. DriverTypes => written \in Nat
    BY DriverAssumption DEF DriverTypes
  <2>2. QED  BY <2>1, StepKeeps, StepTypes, StepLoss
<1>3. LossInv => LossNeedsFault
  BY DEF LossInv
<1>4. QED  BY <1>1, <1>2, <1>3, PTL DEF Spec
===============================================================================
