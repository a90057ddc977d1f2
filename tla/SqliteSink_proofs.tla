--------------------------- MODULE SqliteSink_proofs ---------------------------
(***************************************************************************)
(* What every operation of the SQLite sink preserves, whoever calls it and *)
(* in whatever order: the lemmas the driver's and the pipeline's theorems  *)
(* rest on, for any tasks, batch size and rows.                            *)
(*                                                                         *)
(* SinkInv is about the lock: it is held for the one job somebody awaits.  *)
(* Apart is about the rows: each is in one place, told apart by a key.     *)
(***************************************************************************)
EXTENDS SqliteSink, TLAPS

\* What is inductive about the sink alone.
SinkInv == SinkTypeOK /\ LockGuardsJob

\* While the lock is free no job is awaited.
LEMMA FreeMeansIdle ==
    ASSUME SinkInv, lock = Free
    PROVE  /\ \A t \in Tasks : call[t] # "job"
           /\ \A j \in jobs : ~j.awaited
<1>1. \A t \in Tasks : call[t] # "job"
  BY SinkAssumption DEF SinkInv, LockGuardsJob
<1>2. \A j \in jobs : j.by \in Tasks
  BY DEF SinkInv, SinkTypeOK, Job
<1>3. QED  BY <1>1, <1>2 DEF SinkInv, LockGuardsJob

-----------------------------------------------------------------------------
\* A task that has the free lock may flush buf.
LEMMA FlushTypes ==
    ASSUME SinkTypeOK, NEW t \in Tasks, NEW buf \in Seq(Row), FlushLocked(t, buf)
    PROVE  /\ buffer' \in Seq(Row)
           /\ lock' \in Tasks \cup {Free}
           /\ call' \in [Tasks -> {"out", "lock", "job", "raised"}]
           /\ \A j \in jobs' : j \in Job
<1>1. CASE buf = <<>> \/ ~db
  BY <1>1 DEF SinkTypeOK, FlushLocked
<1>2. CASE ~(buf = <<>> \/ ~db)
  <2>1. <<>> \in Seq(Row)  OBVIOUS
  <2>2. [by |-> t, awaited |-> TRUE, conn |-> conn, rows |-> buf] \in Job
    BY DEF SinkTypeOK, Job
  <2>3. QED  BY <1>2, <2>1, <2>2 DEF SinkTypeOK, FlushLocked
<1>3. QED  BY <1>1, <1>2

LEMMA FlushKeepsLock ==
    ASSUME SinkInv, lock = Free, NEW t \in Tasks, NEW buf \in Seq(Row),
           FlushLocked(t, buf)
    PROVE  LockGuardsJob'
<1> USE SinkAssumption
<1>1. /\ \A u \in Tasks : call[u] # "job"
      /\ \A j \in jobs : ~j.awaited
      /\ call \in [Tasks -> {"out", "lock", "job", "raised"}]
  BY FreeMeansIdle DEF SinkInv, SinkTypeOK
<1>2. CASE buf = <<>> \/ ~db
  <2>1. /\ lock' = Free /\ jobs' = jobs
        /\ call' = [call EXCEPT ![t] = "out"]
    BY <1>2 DEF FlushLocked
  <2>2. \A u \in Tasks : call'[u] # "job"
    BY <1>1, <2>1
  <2>3. QED  BY <1>1, <2>1, <2>2 DEF LockGuardsJob
<1>3. CASE ~(buf = <<>> \/ ~db)
  <2> DEFINE new == [by |-> t, awaited |-> TRUE, conn |-> conn, rows |-> buf]
  <2>1. /\ lock' = t /\ jobs' = jobs \cup {new}
        /\ call' = [call EXCEPT ![t] = "job"]
    BY <1>3 DEF FlushLocked
  <2>2. \A u \in Tasks : call'[u] = "job" <=> u = t
    BY <1>1, <2>1
  <2>3. new.awaited /\ new.by = t  OBVIOUS
  <2>4. \A j \in jobs' : j.awaited => j = new
    BY <1>1, <2>1
  <2>5. \A u \in Tasks :
           call'[u] = "job" <=> \E j \in jobs' : j.awaited /\ j.by = u
    BY <2>1, <2>2, <2>3, <2>4
  <2>6. QED  BY <2>1, <2>2, <2>4, <2>5 DEF LockGuardsJob
<1>4. QED  BY <1>2, <1>3

\* A task that has the free lock may append its row, or flush.
LEMMA LockedKeeps ==
    ASSUME SinkInv, lock = Free, NEW t \in Tasks, NEW row \in Row \cup {NoRow},
           Locked(t, row)
    PROVE  /\ buffer' \in Seq(Row)
           /\ lock' \in Tasks \cup {Free}
           /\ call' \in [Tasks -> {"out", "lock", "job", "raised"}]
           /\ \A j \in jobs' : j \in Job
           /\ LockGuardsJob'
<1>1. SinkTypeOK /\ buffer \in Seq(Row)
  BY DEF SinkInv, SinkTypeOK
<1>2. CASE row = NoRow
  BY <1>1, <1>2, FlushTypes, FlushKeepsLock DEF Locked
<1>3. CASE row # NoRow
  <2>1. AppendLocked(t, row) /\ row \in Row
    BY <1>3 DEF Locked
  <2>2. Append(buffer, row) \in Seq(Row)
    BY <1>1, <2>1
  <2>3. CASE Len(buffer) + 1 >= BatchSize
    BY <1>1, <2>1, <2>2, <2>3, FlushTypes, FlushKeepsLock DEF AppendLocked
  <2>4. CASE ~(Len(buffer) + 1 >= BatchSize)
    <3>1. /\ buffer' = Append(buffer, row) /\ lock' = Free /\ jobs' = jobs
          /\ call' = [call EXCEPT ![t] = "out"]
      BY <2>1, <2>4 DEF AppendLocked
    <3>2. /\ \A u \in Tasks : call[u] # "job"
          /\ \A j \in jobs : ~j.awaited
      BY FreeMeansIdle
    <3>3. \A u \in Tasks : call'[u] # "job"
      BY <1>1, <3>1, <3>2 DEF SinkTypeOK
    <3>4. LockGuardsJob'
      BY <3>1, <3>2, <3>3, SinkAssumption DEF LockGuardsJob
    <3>5. QED  BY <1>1, <2>2, <3>1, <3>4 DEF SinkTypeOK
  <2>5. QED  BY <2>3, <2>4
<1>4. QED  BY <1>2, <1>3

-----------------------------------------------------------------------------
\* Entering, and being granted the lock that came free.
LEMMA EnterKeeps ==
    ASSUME SinkInv, NEW t \in Tasks, NEW row \in Row \cup {NoRow}, Enter(t, row)
    PROVE  SinkInv'
<1>1. UNCHANGED <<db, conn, flushTask, table, uncommitted, lost, orphaned>>
  BY DEF Enter
<1>2. CASE lock = Free
  <2>1. Locked(t, row) /\ pending' = pending
    BY <1>2 DEF Enter
  <2>2. QED  BY <1>1, <1>2, <2>1, LockedKeeps DEF SinkInv, SinkTypeOK
<1>3. CASE lock # Free
  <2>1. /\ call' = [call EXCEPT ![t] = "lock"]
        /\ pending' = [pending EXCEPT ![t] = row]
        /\ UNCHANGED <<buffer, lock, jobs>> /\ call[t] # "job"
    BY <1>3 DEF Enter, Outside
  <2>2. SinkTypeOK'
    BY <1>1, <2>1 DEF SinkInv, SinkTypeOK
  <2>3. \A u \in Tasks : call'[u] = "job" <=> call[u] = "job"
    BY <2>1 DEF SinkInv, SinkTypeOK
  <2>4. LockGuardsJob'
    BY <2>1, <2>3 DEF SinkInv, LockGuardsJob
  <2>5. QED  BY <2>2, <2>4 DEF SinkInv
<1>4. QED  BY <1>2, <1>3

LEMMA AcquireKeeps ==
    ASSUME SinkInv, NEW t \in Tasks, Acquire(t)
    PROVE  SinkInv'
<1>1. /\ lock = Free /\ Locked(t, pending[t])
      /\ pending' = [pending EXCEPT ![t] = NoRow]
      /\ UNCHANGED <<db, conn, flushTask, table, uncommitted, lost, orphaned>>
  BY DEF Acquire
<1>2. pending[t] \in Row \cup {NoRow}
  BY DEF SinkInv, SinkTypeOK
<1>3. pending' \in [Tasks -> Row \cup {NoRow}]
  BY <1>1 DEF SinkInv, SinkTypeOK
<1>4. QED  BY <1>1, <1>2, <1>3, LockedKeeps DEF SinkInv, SinkTypeOK

-----------------------------------------------------------------------------
\* The executor answers: the task that awaited the job gives the lock back.
LEMMA AnswerKeeps ==
    ASSUME SinkInv, NEW job \in jobs, NEW how \in {"out", "raised"},
           Answer(job, how), table' \in Seq(Row), lost' \subseteq Row,
           uncommitted' \in 0 .. Len(table')
    PROVE  SinkInv'
<1> USE SinkAssumption
<1>1. /\ job \in Job /\ job.by \in Tasks
      /\ jobs' = jobs \ {job}
      /\ UNCHANGED <<db, conn, flushTask, buffer, pending, orphaned>>
  BY DEF Answer, SinkInv, SinkTypeOK, Job
<1>2. CASE job.awaited
  <2>1. lock' = Free /\ call' = [call EXCEPT ![job.by] = how]
    BY <1>2 DEF Answer
  <2>2. SinkTypeOK'
    BY <1>1, <2>1 DEF SinkInv, SinkTypeOK
  <2>3. \A j \in jobs' : ~j.awaited
    BY <1>1, <1>2 DEF SinkInv, LockGuardsJob
  <2>4. \A u \in Tasks : call'[u] # "job"
    <3>1. \A u \in Tasks : u # job.by => call[u] # "job"
      BY <1>1, <1>2 DEF SinkInv, LockGuardsJob
    <3>2. QED  BY <1>1, <2>1, <3>1 DEF SinkInv, SinkTypeOK
  <2>5. LockGuardsJob'
    BY <2>1, <2>3, <2>4 DEF LockGuardsJob
  <2>6. QED  BY <2>2, <2>5 DEF SinkInv
<1>3. CASE ~job.awaited
  <2>1. UNCHANGED <<lock, call>>
    BY <1>3 DEF Answer
  <2>2. SinkTypeOK'
    BY <1>1, <2>1 DEF SinkInv, SinkTypeOK
  <2>3. \A u \in Tasks : (\E j \in jobs' : j.awaited /\ j.by = u)
                            <=> (\E j \in jobs : j.awaited /\ j.by = u)
    BY <1>1, <1>3
  <2>4. LockGuardsJob'
    BY <1>1, <2>1, <2>3 DEF SinkInv, LockGuardsJob
  <2>5. QED  BY <2>2, <2>4 DEF SinkInv
<1>4. QED  BY <1>2, <1>3

\* The first n rows of a sequence and the others.
LEMMA SplitSeq ==
    ASSUME NEW seq \in Seq(Row), NEW n \in 0 .. Len(seq)
    PROVE  /\ SubSeq(seq, 1, n) \in Seq(Row) /\ Len(SubSeq(seq, 1, n)) = n
           /\ \A i \in 1 .. n : SubSeq(seq, 1, n)[i] = seq[i]
           /\ SubSeq(seq, n + 1, Len(seq)) \in Seq(Row)
           /\ Len(SubSeq(seq, n + 1, Len(seq))) = Len(seq) - n
           /\ \A i \in 1 .. Len(seq) - n :
                 SubSeq(seq, n + 1, Len(seq))[i] = seq[n + i]
<1>1. Len(seq) \in Nat /\ n \in 0 .. Len(seq) /\ n \in Nat
  OBVIOUS
<1>2. \A i \in 1 .. Len(seq) : seq[i] \in Row
  OBVIOUS
<1>3. /\ SubSeq(seq, 1, n) \in Seq(Row) /\ Len(SubSeq(seq, 1, n)) = n
      /\ \A i \in 1 .. n : SubSeq(seq, 1, n)[i] = seq[i]
  BY <1>1, <1>2
<1>4. /\ SubSeq(seq, n + 1, Len(seq)) \in Seq(Row)
      /\ Len(SubSeq(seq, n + 1, Len(seq))) = Len(seq) - n
      /\ \A i \in 1 .. Len(seq) - n :
            SubSeq(seq, n + 1, Len(seq))[i] = seq[n + i]
  BY <1>1, <1>2
<1>5. QED  BY <1>3, <1>4

LEMMA CommittedFits ==
    ASSUME SinkTypeOK
    PROVE  /\ Committed \in Seq(Row)
           /\ Len(Committed) = Len(table) - uncommitted
           /\ Len(Committed) \in 0 .. Len(table)
           /\ \A i \in 1 .. Len(Committed) : Committed[i] = table[i]
<1>1. table \in Seq(Row) /\ Len(table) - uncommitted \in 0 .. Len(table)
  BY DEF SinkTypeOK
<1>2. QED  BY <1>1, SplitSeq DEF Committed

LEMMA CommitKeeps ==
    ASSUME SinkInv, NEW job \in jobs, Commit(job)
    PROVE  SinkInv'
<1>1. job.rows \in Seq(Row) /\ table \in Seq(Row) /\ lost \subseteq Row
  BY DEF SinkInv, SinkTypeOK, Job
<1>2. table' \in Seq(Row) /\ lost' \subseteq Row /\ Answer(job, "out")
  BY <1>1 DEF Commit
<1>3. uncommitted' \in 0 .. Len(table')
  BY <1>2 DEF Commit
<1>4. QED  BY <1>2, <1>3, AnswerKeeps

LEMMA RaiseKeeps ==
    ASSUME SinkInv, NEW job \in jobs, NEW n \in 0 .. Len(job.rows), Raise(job, n)
    PROVE  SinkInv'
<1>1. /\ job.rows \in Seq(Row) /\ table \in Seq(Row) /\ lost \subseteq Row
      /\ uncommitted \in 0 .. Len(table)
  BY DEF SinkInv, SinkTypeOK, Job
<1> DEFINE kept == SubSeq(job.rows, 1, n)
           rest == SubSeq(job.rows, n + 1, Len(job.rows))
<1>2. kept \in Seq(Row) /\ Len(kept) = n /\ rest \in Seq(Row)
  BY <1>1, SplitSeq
<1>3. /\ table' = table \o kept /\ uncommitted' = uncommitted + n
      /\ lost' = lost \cup RowsOf(rest) /\ Answer(job, "raised")
  BY DEF Raise
<1> HIDE DEF kept, rest
<1>4. table' \in Seq(Row) /\ Len(table') = Len(table) + n
  <2>1. \A a, b \in Seq(Row) :
           a \o b \in Seq(Row) /\ Len(a \o b) = Len(a) + Len(b)
    OBVIOUS
  <2>2. table' = table \o kept  BY <1>3
  <2>3. QED  BY <1>1, <1>2, <2>1, <2>2
<1>5. lost' \subseteq Row
  BY <1>1, <1>2, <1>3 DEF RowsOf
<1>6. uncommitted' \in 0 .. Len(table')
  BY <1>1, <1>3, <1>4
<1>7. QED  BY <1>3, <1>4, <1>5, <1>6, AnswerKeeps

\* A cancelled task gives back the lock, and nobody awaits its job.
LEMMA CancelKeeps ==
    ASSUME SinkInv, NEW t \in Tasks, CancelInside(t),
           db' \in BOOLEAN, flushTask' \in BOOLEAN,
           UNCHANGED <<conn, buffer, table, uncommitted>>
    PROVE  SinkInv'
<1> USE SinkAssumption
<1> DEFINE Left(j) == IF j.by = t THEN [j EXCEPT !.awaited = FALSE] ELSE j
<1>1. PICK unbegun \in SUBSET {j \in jobs : j.awaited /\ j.by = t} :
         /\ call' = [call EXCEPT ![t] = "out"]
         /\ pending' = [pending EXCEPT ![t] = NoRow]
         /\ lock' = IF lock = t THEN Free ELSE lock
         /\ lost' = lost \cup ({pending[t]} \ {NoRow})
                         \cup UNION {RowsOf(j.rows) : j \in unbegun}
         /\ orphaned' = (orphaned \/ call[t] = "job")
         /\ jobs' = {Left(j) : j \in jobs \ unbegun}
  BY DEF CancelInside
<1>2. \A j \in jobs : /\ Left(j) \in Job
                      /\ Left(j).by = j.by
                      /\ Left(j).awaited <=> j.awaited /\ j.by # t
  <2>1. TAKE j \in jobs
  <2>2. j \in Job
    BY DEF SinkInv, SinkTypeOK
  <2>3. CASE j.by = t
    BY <2>2, <2>3 DEF Job
  <2>4. CASE j.by # t
    BY <2>2, <2>4 DEF Job
  <2>5. QED  BY <2>3, <2>4
<1>3. SinkTypeOK'
  <2>1. pending[t] \in Row \cup {NoRow}
    BY DEF SinkInv, SinkTypeOK
  <2>2. lost' \subseteq Row
    <3>1. \A j \in unbegun : j.rows \in Seq(Row)
      BY DEF SinkInv, SinkTypeOK, Job
    <3>2. \A j \in unbegun : RowsOf(j.rows) \subseteq Row
      BY <3>1 DEF RowsOf
    <3>3. lost \subseteq Row
      BY DEF SinkInv, SinkTypeOK
    <3>4. QED  BY <1>1, <2>1, <3>2, <3>3
  <2>3. orphaned' \in BOOLEAN
    BY <1>1 DEF SinkInv, SinkTypeOK
  <2>4. \A j \in jobs' : j \in Job
    <3> HIDE DEF Left
    <3>1. QED  BY <1>1, <1>2
  <2>5. /\ call' \in [Tasks -> {"out", "lock", "job", "raised"}]
        /\ pending' \in [Tasks -> Row \cup {NoRow}]
        /\ lock' \in Tasks \cup {Free}
    BY <1>1 DEF SinkInv, SinkTypeOK
  <2>6. QED  BY <2>2, <2>3, <2>4, <2>5 DEF SinkInv, SinkTypeOK
<1>4. \A u \in Tasks : call'[u] = "job" <=> call[u] = "job" /\ u # t
  BY <1>1 DEF SinkInv, SinkTypeOK
<1>5. \A u \in Tasks : (\E j \in jobs' : j.awaited /\ j.by = u)
                          <=> (\E j \in jobs : j.awaited /\ j.by = u) /\ u # t
  <2> HIDE DEF Left
  <2>1. ASSUME NEW u \in Tasks, NEW j \in jobs, j.awaited, j.by = u, u # t
        PROVE  j \notin unbegun /\ Left(j) \in jobs' /\ Left(j).awaited /\ Left(j).by = u
    BY <1>1, <1>2, <2>1
  <2>2. QED  BY <1>1, <1>2, <2>1
<1>6. \A i, j \in jobs' : i.awaited /\ j.awaited => i = j
  <2> HIDE DEF Left
  <2>1. SUFFICES ASSUME NEW i \in jobs, NEW j \in jobs,
                        Left(i).awaited, Left(j).awaited
                 PROVE  Left(i) = Left(j)
    BY <1>1
  <2>2. i.awaited /\ j.awaited
    BY <1>2, <2>1
  <2>3. i = j
    BY <2>2 DEF SinkInv, LockGuardsJob
  <2>4. QED  BY <2>3
<1>7. \A u \in Tasks : lock' = u <=> lock = u /\ u # t
  BY <1>1
<1>8. LockGuardsJob'
  BY <1>4, <1>5, <1>6, <1>7 DEF SinkInv, LockGuardsJob
<1>9. QED  BY <1>3, <1>8 DEF SinkInv

\* start, roll and delete open a connection and revive the periodic task.
LEMMA OpenedKeeps ==
    ASSUME SinkInv, Opened, table' \in Seq(Row), uncommitted' \in 0 .. Len(table'),
           lost' \subseteq Row
    PROVE  SinkInv'
<1>1. /\ db' = TRUE /\ conn' = conn + 1 /\ flushTask' = TRUE
      /\ call' = [call EXCEPT ![Flusher] = IF @ = "raised" THEN "out" ELSE @]
      /\ UNCHANGED <<buffer, lock, pending, jobs, orphaned>>
  BY DEF Opened
<1>2. SinkTypeOK'
  <2>1. call[Flusher] \in {"out", "lock", "job", "raised"}
    BY DEF SinkInv, SinkTypeOK, Tasks
  <2>2. call' \in [Tasks -> {"out", "lock", "job", "raised"}]
    BY <1>1, <2>1 DEF SinkInv, SinkTypeOK
  <2>3. db' \in BOOLEAN /\ conn' \in Nat /\ flushTask' \in BOOLEAN
    BY <1>1 DEF SinkInv, SinkTypeOK
  <2>4. /\ buffer' = buffer /\ lock' = lock /\ pending' = pending
        /\ jobs' = jobs /\ orphaned' = orphaned
    BY <1>1
  <2>5. QED  BY <2>2, <2>3, <2>4 DEF SinkInv, SinkTypeOK
<1>3. \A u \in Tasks : call'[u] = "job" <=> call[u] = "job"
  BY <1>1 DEF SinkInv, SinkTypeOK
<1>4. LockGuardsJob'
  BY <1>1, <1>3 DEF SinkInv, LockGuardsJob
<1>5. QED  BY <1>2, <1>4 DEF SinkInv

LEMMA StartKeeps ==
    ASSUME SinkInv, Start
    PROVE  SinkInv'
<1>1. /\ Opened /\ table' \in Seq(Row) /\ uncommitted' \in 0 .. Len(table')
      /\ lost' \subseteq Row
  BY DEF Start, SinkInv, SinkTypeOK
<1>2. QED  BY <1>1, OpenedKeeps

\* What a closed connection takes with it is rows.
LEMMA RollbackFits ==
    ASSUME SinkTypeOK, RolledBack
    PROVE  lost' \subseteq Row /\ uncommitted' = 0
<1>1. RowsOf(table) \subseteq Row /\ lost \subseteq Row
  BY DEF SinkTypeOK, RowsOf
<1>2. QED  BY <1>1 DEF RolledBack

LEMMA ReplaceKeeps ==
    ASSUME SinkInv, Replace
    PROVE  SinkInv'
<1>1. Opened /\ table' = <<>> /\ lost' \subseteq Row /\ uncommitted' = 0
  BY RollbackFits DEF Replace, SinkInv
<1>2. table' \in Seq(Row) /\ uncommitted' \in 0 .. Len(table')
  BY <1>1
<1>3. QED  BY <1>1, <1>2, OpenedKeeps

LEMMA CloseKeeps ==
    ASSUME SinkInv, Close
    PROVE  SinkInv'
<1>1. /\ db' = FALSE /\ table' = Committed /\ lost' \subseteq Row /\ uncommitted' = 0
      /\ UNCHANGED <<conn, flushTask, buffer, lock, call, pending, jobs, orphaned>>
  BY RollbackFits DEF Close, SinkInv
<1>2. table' \in Seq(Row) /\ uncommitted' \in 0 .. Len(table')
  BY <1>1, CommittedFits DEF SinkInv
<1>3. QED  BY <1>1, <1>2 DEF SinkInv, SinkTypeOK, LockGuardsJob

LEMMA CommitElsewhereKeeps ==
    ASSUME SinkInv, CommitElsewhere
    PROVE  SinkInv'
<1>1. /\ uncommitted' = 0
      /\ UNCHANGED <<db, conn, flushTask, buffer, lock, call, pending, jobs, table,
                     lost, orphaned>>
  BY DEF CommitElsewhere
<1>2. uncommitted' \in 0 .. Len(table')
  BY <1>1 DEF SinkInv, SinkTypeOK
<1>3. QED  BY <1>1, <1>2 DEF SinkInv, SinkTypeOK, LockGuardsJob

\* What leaves the sink alone.
LEMMA UntouchedKeeps ==
    ASSUME SinkInv, UNCHANGED sinkVars
    PROVE  SinkInv'
BY DEF SinkInv, SinkTypeOK, LockGuardsJob, sinkVars

-----------------------------------------------------------------------------
(***************************************************************************)
(* Where the rows are.  key tells rows apart: the driver's rows are their  *)
(* own keys, the pipeline's are told apart by the event in them.           *)
(***************************************************************************)
KeysOf(key, seq) == {key[seq[i]] : i \in 1 .. Len(seq)}
Distinct(key, seq) ==
    \A i, j \in 1 .. Len(seq) : key[seq[i]] = key[seq[j]] => i = j

KeysInJobs(key) == UNION {KeysOf(key, j.rows) : j \in jobs}
KeysWaiting(key) == {key[pending[t]] : t \in {u \in Tasks : pending[u] # NoRow}}
KeysLost(key) == {key[row] : row \in lost}

\* What an operation that is given row, or none, brings into the sink.
KeysNew(key, row) == IF row = NoRow THEN {} ELSE {key[row]}

\* Rows the sink holds or has stored.
Live(key) ==
    KeysOf(key, table) \cup KeysInJobs(key) \cup KeysOf(key, buffer)
        \cup KeysWaiting(key)

\* Nothing is twice in the buffer, in the executor or in both.
Packed(key) ==
    /\ Distinct(key, buffer)
    /\ \A j \in jobs : Distinct(key, j.rows)
    /\ \A i, j \in jobs : i # j => KeysOf(key, i.rows) \cap KeysOf(key, j.rows) = {}
    /\ KeysInJobs(key) \cap KeysOf(key, buffer) = {}

\* Only a task in the queue for the lock has a row to append.
WaitersQueue == \A t \in Tasks : pending[t] # NoRow => call[t] = "lock"

\* Every row is in one place.
Apart(key) ==
    /\ WaitersQueue
    /\ Packed(key)
    /\ Distinct(key, table)
    /\ \A t, u \in Tasks : pending[t] # NoRow /\ pending[u] # NoRow
                           /\ key[pending[t]] = key[pending[u]] => t = u
    /\ (KeysInJobs(key) \cup KeysOf(key, buffer)) \cap KeysWaiting(key) = {}
    /\ KeysOf(key, table)
         \cap (KeysInJobs(key) \cup KeysOf(key, buffer) \cup KeysWaiting(key)) = {}
    /\ KeysLost(key) \cap Live(key) = {}

\* Rows are neither duplicated nor forgotten, and come only from new.
RowsMove(key, new) ==
    /\ Apart(key)'
    /\ Live(key)' \cup KeysLost(key)' = Live(key) \cup KeysLost(key) \cup new
    /\ Live(key)' \subseteq Live(key) \cup new

LEMMA EmptyKeys ==
    ASSUME NEW key
    PROVE  KeysOf(key, <<>>) = {} /\ Distinct(key, <<>>)
BY DEF KeysOf, Distinct

LEMMA AppendKeys ==
    ASSUME NEW key, NEW seq \in Seq(Row), NEW row \in Row
    PROVE  /\ KeysOf(key, Append(seq, row)) = KeysOf(key, seq) \cup {key[row]}
           /\ Distinct(key, seq) /\ key[row] \notin KeysOf(key, seq)
                 => Distinct(key, Append(seq, row))
<1> DEFINE new == Append(seq, row)
<1>1. /\ Len(seq) \in Nat /\ Len(new) = Len(seq) + 1
      /\ \A i \in 1 .. Len(seq) : new[i] = seq[i]
      /\ new[Len(new)] = row
  OBVIOUS
<1> HIDE DEF new
<1>2. 1 .. Len(new) = (1 .. Len(seq)) \cup {Len(new)}
  BY <1>1
<1>3. KeysOf(key, new) = KeysOf(key, seq) \cup {key[row]}
  BY <1>1, <1>2 DEF KeysOf
<1>4. ASSUME Distinct(key, seq), key[row] \notin KeysOf(key, seq)
      PROVE  Distinct(key, new)
  <2>1. \A i \in 1 .. Len(seq) : key[new[i]] # key[row]
    BY <1>1, <1>4 DEF KeysOf
  <2>2. SUFFICES ASSUME NEW i \in 1 .. Len(new), NEW j \in 1 .. Len(new),
                        key[new[i]] = key[new[j]]
                 PROVE  i = j
    BY DEF Distinct
  <2>3. CASE i \in 1 .. Len(seq) /\ j \in 1 .. Len(seq)
    BY <1>1, <1>4, <2>2, <2>3 DEF Distinct
  <2>4. QED  BY <1>1, <1>2, <2>1, <2>2, <2>3
<1>5. QED  BY <1>3, <1>4 DEF new

LEMMA ConcatKeys ==
    ASSUME NEW key, NEW a \in Seq(Row), NEW b \in Seq(Row)
    PROVE  /\ KeysOf(key, a \o b) = KeysOf(key, a) \cup KeysOf(key, b)
           /\ /\ Distinct(key, a) /\ Distinct(key, b)
              /\ KeysOf(key, a) \cap KeysOf(key, b) = {}
              => Distinct(key, a \o b)
<1> DEFINE ab == a \o b
<1>1. /\ Len(a) \in Nat /\ Len(b) \in Nat /\ Len(ab) = Len(a) + Len(b)
      /\ \A i \in 1 .. Len(a) : ab[i] = a[i]
      /\ \A i \in 1 .. Len(b) : ab[Len(a) + i] = b[i]
  OBVIOUS
<1> HIDE DEF ab
<1>2. \A i \in 1 .. Len(ab) : i \notin 1 .. Len(a) =>
         \E m \in 1 .. Len(b) : i = Len(a) + m /\ ab[i] = b[m]
  <2>1. TAKE i \in 1 .. Len(ab)
  <2>2. HAVE i \notin 1 .. Len(a)
  <2>3. i - Len(a) \in 1 .. Len(b) /\ Len(a) + (i - Len(a)) = i
    BY <1>1, <2>2
  <2>4. QED  BY <1>1, <2>3
<1>3. KeysOf(key, ab) = KeysOf(key, a) \cup KeysOf(key, b)
  <2>1. KeysOf(key, ab) \subseteq KeysOf(key, a) \cup KeysOf(key, b)
    <3>1. \A i \in 1 .. Len(ab) :
             \/ \E m \in 1 .. Len(a) : ab[i] = a[m]
             \/ \E m \in 1 .. Len(b) : ab[i] = b[m]
      BY <1>1, <1>2
    <3>2. \A i \in 1 .. Len(ab) : key[ab[i]] \in KeysOf(key, a) \cup KeysOf(key, b)
      <4>1. TAKE i \in 1 .. Len(ab)
      <4>2. CASE \E m \in 1 .. Len(a) : ab[i] = a[m]
        BY <4>2 DEF KeysOf
      <4>3. CASE \E m \in 1 .. Len(b) : ab[i] = b[m]
        BY <4>3 DEF KeysOf
      <4>4. QED  BY <3>1, <4>2, <4>3
    <3>3. \A k \in KeysOf(key, ab) : \E i \in 1 .. Len(ab) : k = key[ab[i]]
      BY DEF KeysOf
    <3>4. QED  BY <3>2, <3>3
  <2>2. KeysOf(key, a) \subseteq KeysOf(key, ab)
    BY <1>1 DEF KeysOf
  <2>3. KeysOf(key, b) \subseteq KeysOf(key, ab)
    <3>1. \A i \in 1 .. Len(b) : Len(a) + i \in 1 .. Len(ab)
      BY <1>1
    <3>2. QED  BY <1>1, <3>1 DEF KeysOf
  <2>4. QED  BY <2>1, <2>2, <2>3
<1>4. ASSUME Distinct(key, a), Distinct(key, b),
             KeysOf(key, a) \cap KeysOf(key, b) = {}
      PROVE  Distinct(key, ab)
  <2>1. SUFFICES ASSUME NEW i \in 1 .. Len(ab), NEW j \in 1 .. Len(ab),
                        key[ab[i]] = key[ab[j]]
                 PROVE  i = j
    BY DEF Distinct
  <2>2. \A m \in 1 .. Len(a), n \in 1 .. Len(b) : key[a[m]] # key[b[n]]
    BY <1>4 DEF KeysOf
  <2>3. CASE i \in 1 .. Len(a) /\ j \in 1 .. Len(a)
    BY <1>1, <1>4, <2>1, <2>3 DEF Distinct
  <2>4. CASE i \notin 1 .. Len(a) /\ j \notin 1 .. Len(a)
    <3>1. PICK m \in 1 .. Len(b) : i = Len(a) + m /\ ab[i] = b[m]
      BY <1>2, <2>4
    <3>2. PICK n \in 1 .. Len(b) : j = Len(a) + n /\ ab[j] = b[n]
      BY <1>2, <2>4
    <3>3. m = n
      BY <1>4, <2>1, <3>1, <3>2 DEF Distinct
    <3>4. QED  BY <3>1, <3>2, <3>3
  <2>5. CASE i \in 1 .. Len(a) /\ j \notin 1 .. Len(a)
    <3>1. PICK n \in 1 .. Len(b) : ab[j] = b[n]
      BY <1>2, <2>5
    <3>2. QED  BY <1>1, <2>1, <2>2, <2>5, <3>1
  <2>6. CASE i \notin 1 .. Len(a) /\ j \in 1 .. Len(a)
    <3>1. PICK n \in 1 .. Len(b) : ab[i] = b[n]
      BY <1>2, <2>6
    <3>2. QED  BY <1>1, <2>1, <2>2, <2>6, <3>1
  <2>7. QED  BY <2>3, <2>4, <2>5, <2>6
<1>5. QED  BY <1>3, <1>4 DEF ab

-----------------------------------------------------------------------------
\* The rows of buf go to the executor as one batch, or stay.
LEMMA FlushPacks ==
    ASSUME NEW key, NEW t \in Tasks, NEW buf, FlushLocked(t, buf),
           Distinct(key, buf),
           \A j \in jobs : Distinct(key, j.rows),
           \A i, j \in jobs : i # j => KeysOf(key, i.rows) \cap KeysOf(key, j.rows) = {},
           KeysInJobs(key) \cap KeysOf(key, buf) = {}
    PROVE  /\ Packed(key)'
           /\ KeysInJobs(key)' \cup KeysOf(key, buffer)'
                 = KeysInJobs(key) \cup KeysOf(key, buf)
<1>1. CASE buf = <<>> \/ ~db
  <2>1. buffer' = buf /\ jobs' = jobs
    BY <1>1 DEF FlushLocked
  <2>2. KeysInJobs(key)' = KeysInJobs(key) /\ KeysOf(key, buffer)' = KeysOf(key, buf)
    BY <2>1 DEF KeysInJobs, KeysOf
  <2>3. Distinct(key, buffer)'
    BY <2>1 DEF Distinct
  <2>4. QED  BY <2>1, <2>2, <2>3 DEF Packed, Distinct, KeysOf
<1>2. CASE ~(buf = <<>> \/ ~db)
  <2> DEFINE new == [by |-> t, awaited |-> TRUE, conn |-> conn, rows |-> buf]
  <2>1. buffer' = <<>> /\ jobs' = jobs \cup {new}
    BY <1>2 DEF FlushLocked
  <2>2. new.rows = buf  OBVIOUS
  <2> HIDE DEF new
  <2>3. KeysOf(key, buffer)' = {} /\ Distinct(key, buffer)'
    BY <2>1 DEF KeysOf, Distinct
  <2>4. KeysInJobs(key)' = KeysInJobs(key) \cup KeysOf(key, buf)
    BY <2>1, <2>2 DEF KeysInJobs, KeysOf
  <2>5. \A j \in jobs' : Distinct(key, j.rows)
    BY <2>1, <2>2
  <2>6. \A j \in jobs : KeysOf(key, j.rows) \cap KeysOf(key, buf) = {}
    BY DEF KeysInJobs
  <2>7. \A i, j \in jobs' : i # j => KeysOf(key, i.rows) \cap KeysOf(key, j.rows) = {}
    BY <2>1, <2>2, <2>6
  <2>8. Packed(key)'
    BY <2>3, <2>5, <2>7 DEF Packed, Distinct, KeysOf
  <2>9. QED  BY <2>3, <2>4, <2>8
<1>3. QED  BY <1>1, <1>2

\* A row new to buffer and executor is appended once.
LEMMA LockedPacks ==
    ASSUME SinkTypeOK, NEW key, NEW t \in Tasks, NEW row \in Row \cup {NoRow},
           Locked(t, row), Packed(key),
           KeysNew(key, row) \cap (KeysInJobs(key) \cup KeysOf(key, buffer)) = {}
    PROVE  /\ Packed(key)'
           /\ KeysInJobs(key)' \cup KeysOf(key, buffer)'
                 = KeysInJobs(key) \cup KeysOf(key, buffer) \cup KeysNew(key, row)
<1>1. buffer \in Seq(Row)
  BY DEF SinkTypeOK
<1>2. CASE row = NoRow
  <2>1. FlushLocked(t, buffer) /\ KeysNew(key, row) = {}
    BY <1>2 DEF Locked, KeysNew
  <2>2. QED  BY <2>1, FlushPacks DEF Packed
<1>3. CASE row # NoRow
  <2> DEFINE buf == Append(buffer, row)
  <2>1. AppendLocked(t, row) /\ KeysNew(key, row) = {key[row]} /\ row \in Row
    BY <1>3 DEF Locked, KeysNew
  <2>2. KeysOf(key, buf) = KeysOf(key, buffer) \cup {key[row]} /\ Distinct(key, buf)
    BY <1>1, <2>1, AppendKeys DEF Packed
  <2>3. KeysInJobs(key) \cap KeysOf(key, buf) = {}
    BY <2>1, <2>2 DEF Packed
  <2>4. CASE FlushLocked(t, buf)
    <3> HIDE DEF buf
    <3>1. /\ \A j \in jobs : Distinct(key, j.rows)
          /\ \A i, j \in jobs :
                i # j => KeysOf(key, i.rows) \cap KeysOf(key, j.rows) = {}
      BY DEF Packed
    <3>2. /\ Packed(key)'
          /\ KeysInJobs(key)' \cup KeysOf(key, buffer)'
                = KeysInJobs(key) \cup KeysOf(key, buf)
      BY <2>2, <2>3, <2>4, <3>1, FlushPacks
    <3>3. QED  BY <2>1, <2>2, <3>2
  <2>5. CASE buffer' = buf /\ jobs' = jobs
    <3> HIDE DEF buf
    <3>1. KeysInJobs(key)' = KeysInJobs(key) /\ KeysOf(key, buffer)' = KeysOf(key, buf)
      BY <2>5 DEF KeysInJobs, KeysOf
    <3>2. Distinct(key, buffer)'
      BY <2>2, <2>5 DEF Distinct
    <3>3. Packed(key)'
      BY <2>3, <2>5, <3>1, <3>2 DEF Packed, Distinct, KeysOf
    <3>4. QED  BY <2>1, <2>2, <3>1, <3>3
  <2>6. QED  BY <2>1, <2>4, <2>5 DEF AppendLocked
<1>4. QED  BY <1>2, <1>3

\* No operation of the lock's holder touches another task's call.
LEMMA LockedCalls ==
    ASSUME SinkTypeOK, NEW t \in Tasks, NEW row, Locked(t, row)
    PROVE  \A u \in Tasks : u # t => call'[u] = call[u]
BY DEF Locked, FlushLocked, AppendLocked, SinkTypeOK

\* A task joins the queue for the lock with its row, or leaves it.
LEMMA QueueGains ==
    ASSUME SinkTypeOK, NEW key, NEW t \in Tasks, NEW row \in Row \cup {NoRow},
           pending[t] = NoRow, pending' = [pending EXCEPT ![t] = row]
    PROVE  KeysWaiting(key)' = KeysWaiting(key) \cup KeysNew(key, row)
<1>1. /\ pending'[t] = row
      /\ \A u \in Tasks : u # t => pending'[u] = pending[u]
  BY DEF SinkTypeOK
<1>2. CASE row = NoRow
  <2>1. \A u \in Tasks : pending'[u] = pending[u]
    BY <1>1, <1>2
  <2>2. QED  BY <1>2, <2>1 DEF KeysWaiting, KeysNew
<1>3. CASE row # NoRow
  <2>1. {u \in Tasks : pending'[u] # NoRow} = {u \in Tasks : pending[u] # NoRow} \cup {t}
    BY <1>1, <1>3
  <2>2. QED  BY <1>1, <1>3, <2>1 DEF KeysWaiting, KeysNew
<1>4. QED  BY <1>2, <1>3

LEMMA QueueLoses ==
    ASSUME SinkTypeOK, NEW key, Apart(key), NEW t \in Tasks,
           pending' = [pending EXCEPT ![t] = NoRow]
    PROVE  /\ KeysWaiting(key)' = KeysWaiting(key) \ KeysNew(key, pending[t])
           /\ KeysNew(key, pending[t]) \subseteq KeysWaiting(key)
           /\ \A u, v \in Tasks : pending'[u] # NoRow /\ pending'[v] # NoRow
                                  /\ key[pending'[u]] = key[pending'[v]] => u = v
<1>1. /\ pending'[t] = NoRow
      /\ \A u \in Tasks : u # t => pending'[u] = pending[u]
  BY DEF SinkTypeOK
<1>2. \A u, v \in Tasks : pending[u] # NoRow /\ pending[v] # NoRow
                          /\ key[pending[u]] = key[pending[v]] => u = v
  BY DEF Apart
<1>3. CASE pending[t] = NoRow
  <2>1. \A u \in Tasks : pending'[u] = pending[u]
    BY <1>1, <1>3
  <2>2. QED  BY <1>2, <1>3, <2>1 DEF KeysWaiting, KeysNew
<1>4. CASE pending[t] # NoRow
  <2>1. {u \in Tasks : pending'[u] # NoRow} = {u \in Tasks : pending[u] # NoRow} \ {t}
    BY <1>1
  <2>2. QED  BY <1>1, <1>2, <1>4, <2>1 DEF KeysWaiting, KeysNew
<1>5. QED  BY <1>3, <1>4

\* write and flush: the new row goes to the buffer, the executor or the queue.
LEMMA EnterMoves ==
    ASSUME SinkInv, NEW key, Apart(key), NEW t \in Tasks,
           NEW row \in Row \cup {NoRow}, Enter(t, row),
           KeysNew(key, row) \cap (Live(key) \cup KeysLost(key)) = {}
    PROVE  RowsMove(key, KeysNew(key, row))
<1>1. SinkTypeOK /\ Packed(key) /\ WaitersQueue
  BY DEF SinkInv, Apart
<1>2. table' = table /\ lost' = lost /\ Outside(t)
  BY DEF Enter
<1>3. pending[t] = NoRow
  BY <1>1, <1>2 DEF WaitersQueue, Outside
<1>4. /\ KeysOf(key, table)' = KeysOf(key, table) /\ KeysLost(key)' = KeysLost(key)
      /\ Distinct(key, table)'
  BY <1>2 DEF KeysOf, KeysLost, Distinct, Apart
<1>5. CASE lock = Free
  <2>1. Locked(t, row) /\ pending' = pending
    BY <1>5 DEF Enter
  <2>2. /\ Packed(key)'
        /\ KeysInJobs(key)' \cup KeysOf(key, buffer)'
              = KeysInJobs(key) \cup KeysOf(key, buffer) \cup KeysNew(key, row)
    BY <1>1, <2>1, LockedPacks DEF Live
  <2>3. KeysWaiting(key)' = KeysWaiting(key)
    BY <2>1 DEF KeysWaiting
  <2>4. WaitersQueue'
    BY <1>1, <1>3, <2>1, LockedCalls DEF WaitersQueue
  <2>5. QED  BY <1>4, <2>1, <2>2, <2>3, <2>4 DEF RowsMove, Apart, Live
<1>6. CASE lock # Free
  <2>1. /\ UNCHANGED <<buffer, jobs>> /\ call' = [call EXCEPT ![t] = "lock"]
        /\ pending' = [pending EXCEPT ![t] = row]
    BY <1>6 DEF Enter
  <2>2. KeysWaiting(key)' = KeysWaiting(key) \cup KeysNew(key, row)
    BY <1>1, <1>3, <2>1, QueueGains
  <2>3. /\ Packed(key)' /\ KeysInJobs(key)' = KeysInJobs(key)
        /\ KeysOf(key, buffer)' = KeysOf(key, buffer)
    BY <1>1, <2>1 DEF Packed, KeysInJobs, KeysOf, Distinct
  <2>4. WaitersQueue'
    BY <1>1, <2>1 DEF WaitersQueue, SinkTypeOK
  <2>5. \A u \in Tasks : pending[u] # NoRow => key[pending[u]] \in KeysWaiting(key)
    BY DEF KeysWaiting
  <2>6. row # NoRow => key[row] \notin KeysWaiting(key)
    BY DEF KeysNew, Live
  <2>7. \A u, v \in Tasks : pending'[u] # NoRow /\ pending'[v] # NoRow
                            /\ key[pending'[u]] = key[pending'[v]] => u = v
    <3>1. \A u \in Tasks : pending'[u] = IF u = t THEN row ELSE pending[u]
      BY <1>1, <2>1 DEF SinkTypeOK
    <3>2. QED  BY <2>5, <2>6, <3>1 DEF Apart
  <2>8. QED  BY <1>4, <2>2, <2>3, <2>4, <2>7 DEF RowsMove, Apart, Live
<1>7. QED  BY <1>5, <1>6

\* The lock is granted: the row goes from the queue to buffer or executor.
LEMMA AcquireMoves ==
    ASSUME SinkInv, NEW key, Apart(key), NEW t \in Tasks, Acquire(t)
    PROVE  RowsMove(key, {})
<1>1. SinkTypeOK /\ Packed(key) /\ WaitersQueue
  BY DEF SinkInv, Apart
<1>2. /\ table' = table /\ lost' = lost /\ Locked(t, pending[t])
      /\ pending' = [pending EXCEPT ![t] = NoRow]
  BY DEF Acquire
<1>3. /\ KeysOf(key, table)' = KeysOf(key, table) /\ KeysLost(key)' = KeysLost(key)
      /\ Distinct(key, table)'
  BY <1>2 DEF KeysOf, KeysLost, Distinct, Apart
<1>4. /\ KeysWaiting(key)' = KeysWaiting(key) \ KeysNew(key, pending[t])
      /\ KeysNew(key, pending[t]) \subseteq KeysWaiting(key)
      /\ \A u, v \in Tasks : pending'[u] # NoRow /\ pending'[v] # NoRow
                             /\ key[pending'[u]] = key[pending'[v]] => u = v
  BY <1>1, <1>2, QueueLoses
<1>5. pending[t] \in Row \cup {NoRow}
  BY <1>1 DEF SinkTypeOK
<1>6. (KeysInJobs(key) \cup KeysOf(key, buffer)) \cap KeysWaiting(key) = {}
  BY DEF Apart
<1>7. /\ Packed(key)'
      /\ KeysInJobs(key)' \cup KeysOf(key, buffer)'
            = KeysInJobs(key) \cup KeysOf(key, buffer) \cup KeysNew(key, pending[t])
  BY <1>1, <1>2, <1>4, <1>5, <1>6, LockedPacks
<1>8. WaitersQueue'
  BY <1>1, <1>2, LockedCalls DEF WaitersQueue, SinkTypeOK
<1>9. QED  BY <1>3, <1>4, <1>7, <1>8 DEF RowsMove, Apart, Live

\* A batch leaves the executor.
LEMMA JobLeaves ==
    ASSUME NEW key, Packed(key), NEW job \in jobs, jobs' = jobs \ {job},
           buffer' = buffer
    PROVE  /\ Packed(key)'
           /\ KeysOf(key, buffer)' = KeysOf(key, buffer)
           /\ KeysInJobs(key)' = KeysInJobs(key) \ KeysOf(key, job.rows)
           /\ KeysOf(key, job.rows) \subseteq KeysInJobs(key)
<1>1. KeysOf(key, buffer)' = KeysOf(key, buffer) /\ Distinct(key, buffer)'
  BY DEF KeysOf, Distinct, Packed
<1>2. \A j \in jobs' : KeysOf(key, j.rows) \cap KeysOf(key, job.rows) = {}
  BY DEF Packed
<1>3. KeysInJobs(key)' = UNION {KeysOf(key, j.rows) : j \in jobs'}
  BY DEF KeysInJobs, KeysOf
<1>4. /\ KeysInJobs(key)' = KeysInJobs(key) \ KeysOf(key, job.rows)
      /\ KeysOf(key, job.rows) \subseteq KeysInJobs(key)
  BY <1>2, <1>3 DEF KeysInJobs
<1>5. /\ \A j \in jobs' : Distinct(key, j.rows)
      /\ \A i, j \in jobs' : i # j => KeysOf(key, i.rows) \cap KeysOf(key, j.rows) = {}
  BY DEF Packed
<1>6. /\ Packed(key)' <=>
            /\ Distinct(key, buffer)'
            /\ \A j \in jobs' : Distinct(key, j.rows)
            /\ \A i, j \in jobs' : i # j => KeysOf(key, i.rows) \cap KeysOf(key, j.rows) = {}
            /\ KeysInJobs(key)' \cap KeysOf(key, buffer)' = {}
  BY DEF Packed, Distinct, KeysOf
<1>7. QED  BY <1>1, <1>4, <1>5, <1>6 DEF Packed

\* Its task returns or raises, and was not in the queue for the lock.
LEMMA AnswerQueue ==
    ASSUME SinkInv, NEW job \in jobs, NEW how, Answer(job, how), WaitersQueue
    PROVE  WaitersQueue'
<1>1. job.awaited => call[job.by] = "job"
  BY DEF SinkInv, SinkTypeOK, LockGuardsJob, Job
<1>2. QED  BY <1>1 DEF Answer, WaitersQueue, SinkInv, SinkTypeOK

\* The keys of the first rows of a sequence, and those of the others.
LEMMA SplitKeys ==
    ASSUME NEW key, NEW seq \in Seq(Row), NEW n \in 0 .. Len(seq), Distinct(key, seq)
    PROVE  LET a == SubSeq(seq, 1, n)
               b == SubSeq(seq, n + 1, Len(seq))
           IN  /\ a \in Seq(Row) /\ b \in Seq(Row)
               /\ KeysOf(key, a) \cup KeysOf(key, b) = KeysOf(key, seq)
               /\ KeysOf(key, a) \cap KeysOf(key, b) = {}
               /\ Distinct(key, a)
<1> DEFINE a == SubSeq(seq, 1, n)
           b == SubSeq(seq, n + 1, Len(seq))
<1>1. /\ a \in Seq(Row) /\ Len(a) = n
      /\ \A i \in 1 .. n : a[i] = seq[i]
      /\ b \in Seq(Row) /\ Len(b) = Len(seq) - n
      /\ \A i \in 1 .. Len(seq) - n : b[i] = seq[n + i]
      /\ n \in Nat /\ Len(seq) \in Nat /\ n <= Len(seq)
  BY SplitSeq
<1> HIDE DEF a, b
<1>2. \A i \in 1 .. Len(seq) : \/ i \in 1 .. n
                               \/ i - n \in 1 .. Len(b) /\ n + (i - n) = i
  BY <1>1
<1>3. \A i \in 1 .. Len(b) : n + i \in 1 .. Len(seq) /\ n + i \notin 1 .. n
  BY <1>1
<1>4. \A i \in 1 .. n : i \in 1 .. Len(seq)
  BY <1>1
<1>5. KeysOf(key, seq) \subseteq KeysOf(key, a) \cup KeysOf(key, b)
  <2>1. SUFFICES ASSUME NEW i \in 1 .. Len(seq)
                 PROVE  key[seq[i]] \in KeysOf(key, a) \cup KeysOf(key, b)
    BY DEF KeysOf
  <2>2. CASE i \in 1 .. n
    BY <1>1, <2>2 DEF KeysOf
  <2>3. CASE i - n \in 1 .. Len(b) /\ n + (i - n) = i
    <3>1. b[i - n] = seq[i]
      BY <1>1, <2>3
    <3>2. QED  BY <2>3, <3>1 DEF KeysOf
  <2>4. QED  BY <1>2, <2>2, <2>3
<1>6. KeysOf(key, a) \subseteq KeysOf(key, seq)
  BY <1>1, <1>4 DEF KeysOf
<1>7. KeysOf(key, b) \subseteq KeysOf(key, seq)
  <2>1. SUFFICES ASSUME NEW i \in 1 .. Len(b) PROVE key[b[i]] \in KeysOf(key, seq)
    BY DEF KeysOf
  <2>2. n + i \in 1 .. Len(seq) /\ b[i] = seq[n + i]
    BY <1>1, <1>3
  <2>3. QED  BY <2>2 DEF KeysOf
<1>8. KeysOf(key, a) \cap KeysOf(key, b) = {}
  <2>1. SUFFICES ASSUME NEW i \in 1 .. Len(a), NEW j \in 1 .. Len(b),
                        key[a[i]] = key[b[j]]
                 PROVE  FALSE
    BY DEF KeysOf
  <2>2. /\ i \in 1 .. Len(seq) /\ a[i] = seq[i] /\ i \in 1 .. n
        /\ n + j \in 1 .. Len(seq) /\ b[j] = seq[n + j] /\ n + j \notin 1 .. n
    BY <1>1, <1>3, <1>4
  <2>3. i = n + j
    BY <2>1, <2>2 DEF Distinct
  <2>4. QED  BY <2>2, <2>3
<1>9. Distinct(key, a)
  BY <1>1, <1>4 DEF Distinct
<1>10. QED  BY <1>1, <1>5, <1>6, <1>7, <1>8, <1>9 DEF a, b

\* Some rows of a batch go to the table, the others are lost.
LEMMA AnswerMoves ==
    ASSUME SinkInv, NEW key, Apart(key), NEW job \in jobs, NEW how, Answer(job, how),
           NEW a \in Seq(Row), NEW b \in Seq(Row),
           table' = table \o a, lost' = lost \cup RowsOf(b), Distinct(key, a),
           KeysOf(key, a) \cup KeysOf(key, b) = KeysOf(key, job.rows),
           KeysOf(key, a) \cap KeysOf(key, b) = {}
    PROVE  RowsMove(key, {})
<1>1. table \in Seq(Row) /\ Packed(key) /\ Distinct(key, table)
  BY DEF SinkInv, SinkTypeOK, Apart
<1>2. jobs' = jobs \ {job} /\ buffer' = buffer /\ pending' = pending
  BY DEF Answer
<1>3. WaitersQueue'
  BY AnswerQueue DEF Apart
<1>4. /\ Packed(key)'
      /\ KeysOf(key, buffer)' = KeysOf(key, buffer)
      /\ KeysInJobs(key)' = KeysInJobs(key) \ KeysOf(key, job.rows)
      /\ KeysOf(key, job.rows) \subseteq KeysInJobs(key)
  BY <1>1, <1>2, JobLeaves
<1>5. /\ KeysOf(key, table)' = KeysOf(key, table \o a)
      /\ Distinct(key, table)' <=> Distinct(key, table \o a)
  BY DEF KeysOf, Distinct
<1>6. KeysOf(key, table) \cap KeysOf(key, a) = {}
  BY <1>4 DEF Apart
<1>7. /\ KeysOf(key, table)' = KeysOf(key, table) \cup KeysOf(key, a)
      /\ Distinct(key, table)'
  BY <1>1, <1>5, <1>6, ConcatKeys
<1>8. /\ KeysWaiting(key)' = KeysWaiting(key)
      /\ KeysLost(key)' = KeysLost(key) \cup KeysOf(key, b)
  BY <1>2 DEF KeysWaiting, KeysLost, KeysOf, RowsOf
<1>9. \A t, u \in Tasks : pending'[t] # NoRow /\ pending'[u] # NoRow
                          /\ key[pending'[t]] = key[pending'[u]] => t = u
  BY <1>2 DEF Apart
<1>10. /\ (KeysInJobs(key)' \cup KeysOf(key, buffer)') \cap KeysWaiting(key)' = {}
       /\ KeysOf(key, table)' \cap (KeysInJobs(key)' \cup KeysOf(key, buffer)'
                                    \cup KeysWaiting(key)') = {}
       /\ KeysLost(key)' \cap Live(key)' = {}
       /\ Live(key)' \cup KeysLost(key)' = Live(key) \cup KeysLost(key)
       /\ Live(key)' \subseteq Live(key)
  <2>1. /\ Live(key)' = KeysOf(key, table)' \cup KeysInJobs(key)'
                        \cup KeysOf(key, buffer)' \cup KeysWaiting(key)'
        /\ Live(key) = KeysOf(key, table) \cup KeysInJobs(key)
                        \cup KeysOf(key, buffer) \cup KeysWaiting(key)
    BY DEF Live
  <2>2. KeysInJobs(key) \cap KeysOf(key, buffer) = {}
    BY <1>1 DEF Packed
  <2>3. /\ (KeysInJobs(key) \cup KeysOf(key, buffer)) \cap KeysWaiting(key) = {}
        /\ KeysOf(key, table) \cap (KeysInJobs(key) \cup KeysOf(key, buffer)
                                     \cup KeysWaiting(key)) = {}
        /\ KeysLost(key) \cap Live(key) = {}
    BY DEF Apart
  <2>4. QED  BY <1>4, <1>7, <1>8, <2>1, <2>2, <2>3
<1>11. Apart(key)'
  BY <1>3, <1>4, <1>7, <1>9, <1>10 DEF Apart
<1>12. QED  BY <1>10, <1>11 DEF RowsMove

\* All of them go to the table ...
LEMMA CommitMoves ==
    ASSUME SinkInv, NEW key, Apart(key), NEW job \in jobs, Commit(job)
    PROVE  RowsMove(key, {})
<1>1. job.rows \in Seq(Row) /\ <<>> \in Seq(Row) /\ Distinct(key, job.rows)
  BY DEF SinkInv, SinkTypeOK, Job, Apart, Packed
<1>2. /\ table' = table \o job.rows /\ lost' = lost \cup RowsOf(<<>>)
      /\ Answer(job, "out")
  BY DEF Commit, RowsOf
<1>3. KeysOf(key, <<>>) = {}
  BY EmptyKeys
<1>4. QED  BY <1>1, <1>2, <1>3, AnswerMoves

\* ... or the first n.
LEMMA RaiseMoves ==
    ASSUME SinkInv, NEW key, Apart(key), NEW job \in jobs,
           NEW n \in 0 .. Len(job.rows), Raise(job, n)
    PROVE  RowsMove(key, {})
<1> DEFINE a == SubSeq(job.rows, 1, n)
           b == SubSeq(job.rows, n + 1, Len(job.rows))
<1>1. job.rows \in Seq(Row) /\ Distinct(key, job.rows)
  BY DEF SinkInv, SinkTypeOK, Job, Apart, Packed
<1>2. /\ a \in Seq(Row) /\ b \in Seq(Row) /\ Distinct(key, a)
      /\ KeysOf(key, a) \cup KeysOf(key, b) = KeysOf(key, job.rows)
      /\ KeysOf(key, a) \cap KeysOf(key, b) = {}
  BY <1>1, SplitKeys
<1>3. /\ table' = table \o a /\ lost' = lost \cup RowsOf(b) /\ Answer(job, "raised")
  BY DEF Raise
<1> HIDE DEF a, b
<1>4. QED  BY <1>2, <1>3, AnswerMoves

LEMMA CutOffRaises ==
    ASSUME SinkInv, NEW job \in jobs, CutOff(job)
    PROVE  0 \in 0 .. Len(job.rows) /\ Raise(job, 0)
<1>1. job.rows \in Seq(Row)
  BY DEF SinkInv, SinkTypeOK, Job
<1>2. QED  BY <1>1 DEF CutOff

\* A cancelled task's row is lost, with a batch that had not begun; a batch in
\* its thread stays where it is.
LEMMA CancelMoves ==
    ASSUME SinkInv, NEW key, Apart(key), NEW t \in Tasks, CancelInside(t),
           UNCHANGED <<buffer, table>>
    PROVE  RowsMove(key, {})
<1> DEFINE Left(j) == IF j.by = t THEN [j EXCEPT !.awaited = FALSE] ELSE j
<1>1. PICK unbegun \in SUBSET {j \in jobs : j.awaited /\ j.by = t} :
         /\ SinkTypeOK /\ call' = [call EXCEPT ![t] = "out"]
         /\ pending' = [pending EXCEPT ![t] = NoRow]
         /\ lost' = lost \cup ({pending[t]} \ {NoRow})
                         \cup UNION {RowsOf(j.rows) : j \in unbegun}
         /\ jobs' = {Left(j) : j \in jobs \ unbegun}
         /\ table' = table /\ buffer' = buffer
  BY DEF CancelInside, SinkInv
<1> DEFINE KeysGone == UNION {KeysOf(key, j.rows) : j \in unbegun}
<1>2. \A j \in jobs : Left(j).rows = j.rows
  <2>1. TAKE j \in jobs
  <2>2. j \in Job
    BY <1>1 DEF SinkTypeOK
  <2>3. CASE j.by = t
    BY <2>2, <2>3 DEF Job
  <2>4. CASE j.by # t
    BY <2>4
  <2>5. QED  BY <2>3, <2>4
<1> HIDE DEF Left
<1>3. KeysOf(key, table)' = KeysOf(key, table) /\ Distinct(key, table)'
  BY <1>1 DEF KeysOf, Distinct, Apart
<1>4. KeysOf(key, buffer)' = KeysOf(key, buffer) /\ Distinct(key, buffer)'
  BY <1>1 DEF KeysOf, Distinct, Apart, Packed
<1>5. KeysInJobs(key)' = KeysInJobs(key) \ KeysGone /\ KeysGone \subseteq KeysInJobs(key)
  <2>1. KeysInJobs(key)' = UNION {KeysOf(key, j.rows) : j \in jobs'}
    BY DEF KeysInJobs, KeysOf
  <2>2. \A k : (\E j \in jobs' : k \in KeysOf(key, j.rows))
                  <=> (\E j \in jobs \ unbegun : k \in KeysOf(key, j.rows))
    BY <1>1, <1>2
  <2>3. \A i \in unbegun, j \in jobs \ unbegun :
           KeysOf(key, i.rows) \cap KeysOf(key, j.rows) = {}
    BY DEF Apart, Packed
  <2>4. \A k : k \in KeysGone <=> \E i \in unbegun : k \in KeysOf(key, i.rows)
    OBVIOUS
  <2>5. \A k : k \in KeysInJobs(key) <=> \E j \in jobs : k \in KeysOf(key, j.rows)
    BY DEF KeysInJobs
  <2> HIDE DEF KeysGone
  <2>6. \A k : k \in KeysInJobs(key)' <=> k \in KeysInJobs(key) /\ k \notin KeysGone
    BY <2>1, <2>2, <2>3, <2>4, <2>5
  <2>7. KeysGone \subseteq KeysInJobs(key)
    BY <2>4, <2>5
  <2>8. QED  BY <2>6, <2>7
<1>6. /\ \A j \in jobs' : Distinct(key, j.rows)
      /\ \A i, j \in jobs' : i # j => KeysOf(key, i.rows) \cap KeysOf(key, j.rows) = {}
  BY <1>1, <1>2 DEF Apart, Packed
<1>8. /\ KeysWaiting(key)' = KeysWaiting(key) \ KeysNew(key, pending[t])
      /\ KeysNew(key, pending[t]) \subseteq KeysWaiting(key)
      /\ \A u, v \in Tasks : pending'[u] # NoRow /\ pending'[v] # NoRow
                             /\ key[pending'[u]] = key[pending'[v]] => u = v
  BY <1>1, QueueLoses
<1>9. KeysLost(key)' = KeysLost(key) \cup KeysNew(key, pending[t]) \cup KeysGone
  <2>1. \A k : k \in KeysGone
               <=> \E row \in UNION {RowsOf(j.rows) : j \in unbegun} : k = key[row]
    BY DEF KeysOf, RowsOf
  <2> HIDE DEF KeysGone
  <2>2. QED  BY <1>1, <2>1 DEF KeysLost, KeysNew
<1> HIDE DEF KeysGone
<1>7. Packed(key)'
  <2>1. KeysInJobs(key)' \cap KeysOf(key, buffer)' = {}
    BY <1>4, <1>5 DEF Apart, Packed
  <2>2. QED  BY <1>4, <1>6, <2>1 DEF Packed, Distinct, KeysOf
<1>10. WaitersQueue'
  BY <1>1 DEF Apart, WaitersQueue, SinkTypeOK
<1>11. /\ (KeysInJobs(key)' \cup KeysOf(key, buffer)') \cap KeysWaiting(key)' = {}
       /\ KeysOf(key, table)' \cap (KeysInJobs(key)' \cup KeysOf(key, buffer)'
                                    \cup KeysWaiting(key)') = {}
       /\ KeysLost(key)' \cap Live(key)' = {}
       /\ Live(key)' \cup KeysLost(key)' = Live(key) \cup KeysLost(key)
       /\ Live(key)' \subseteq Live(key)
  <2>1. /\ Live(key)' = KeysOf(key, table)' \cup KeysInJobs(key)'
                        \cup KeysOf(key, buffer)' \cup KeysWaiting(key)'
        /\ Live(key) = KeysOf(key, table) \cup KeysInJobs(key)
                        \cup KeysOf(key, buffer) \cup KeysWaiting(key)
    BY DEF Live
  <2>2. KeysInJobs(key) \cap KeysOf(key, buffer) = {}
    BY DEF Apart, Packed
  <2>3. /\ (KeysInJobs(key) \cup KeysOf(key, buffer)) \cap KeysWaiting(key) = {}
        /\ KeysOf(key, table) \cap (KeysInJobs(key) \cup KeysOf(key, buffer)
                                     \cup KeysWaiting(key)) = {}
        /\ KeysLost(key) \cap Live(key) = {}
    BY DEF Apart
  <2>4. QED  BY <1>3, <1>4, <1>5, <1>8, <1>9, <2>1, <2>2, <2>3
<1>12. Apart(key)'
  BY <1>3, <1>7, <1>8, <1>10, <1>11 DEF Apart
<1>13. QED  BY <1>11, <1>12 DEF RowsMove

\* Opening, committing and idling move no row.
LEMMA StillMoves ==
    ASSUME NEW key, Apart(key), WaitersQueue',
           UNCHANGED <<buffer, pending, jobs, lost, table>>
    PROVE  RowsMove(key, {})
<1>1. /\ KeysOf(key, table)' = KeysOf(key, table)
      /\ KeysInJobs(key)' = KeysInJobs(key)
      /\ KeysOf(key, buffer)' = KeysOf(key, buffer)
      /\ KeysWaiting(key)' = KeysWaiting(key)
      /\ KeysLost(key)' = KeysLost(key)
  BY DEF KeysOf, KeysInJobs, KeysWaiting, KeysLost
<1>2. Live(key)' = Live(key)
  BY <1>1 DEF Live
<1>3. Distinct(key, table)' /\ Distinct(key, buffer)'
  BY DEF Apart, Packed, Distinct
<1>4. Packed(key)'
  BY <1>1, <1>3 DEF Apart, Packed, Distinct, KeysOf
<1>5. \A t, u \in Tasks : pending'[t] # NoRow /\ pending'[u] # NoRow
                          /\ key[pending'[t]] = key[pending'[u]] => t = u
  BY DEF Apart
<1>6. Apart(key)'
  BY <1>1, <1>2, <1>3, <1>4, <1>5 DEF Apart
<1>7. QED  BY <1>1, <1>2, <1>6 DEF RowsMove

LEMMA StartMoves ==
    ASSUME SinkInv, NEW key, Apart(key), Start
    PROVE  RowsMove(key, {})
<1>1. /\ UNCHANGED <<buffer, pending, jobs, lost, table>>
      /\ call' = [call EXCEPT ![Flusher] = IF @ = "raised" THEN "out" ELSE @]
  BY DEF Start, Opened
<1>2. WaitersQueue'
  BY <1>1 DEF Apart, WaitersQueue, SinkInv, SinkTypeOK
<1>3. QED  BY <1>1, <1>2, StillMoves

LEMMA CommitElsewhereMoves ==
    ASSUME NEW key, Apart(key), CommitElsewhere
    PROVE  RowsMove(key, {})
<1>1. UNCHANGED <<buffer, pending, jobs, lost, table, call>>
  BY DEF CommitElsewhere
<1>2. WaitersQueue'
  BY <1>1 DEF Apart, WaitersQueue
<1>3. QED  BY <1>1, <1>2, StillMoves

\* Rows leave the table while the others stay where they are.
LEMMA TableLoses ==
    ASSUME NEW key, Apart(key), WaitersQueue', UNCHANGED <<buffer, pending, jobs>>,
           Distinct(key, table)', NEW gone, gone \subseteq KeysOf(key, table),
           KeysOf(key, table)' \subseteq KeysOf(key, table) \ gone,
           KeysLost(key)' = KeysLost(key) \cup gone
    PROVE  /\ Apart(key)'
           /\ Live(key)' = (Live(key) \ KeysOf(key, table)) \cup KeysOf(key, table)'
<1>1. /\ KeysInJobs(key)' = KeysInJobs(key)
      /\ KeysOf(key, buffer)' = KeysOf(key, buffer)
      /\ KeysWaiting(key)' = KeysWaiting(key)
  BY DEF KeysOf, KeysInJobs, KeysWaiting
<1>2. Packed(key)'
  BY <1>1 DEF Apart, Packed, Distinct, KeysOf
<1>3. \A t, u \in Tasks : pending'[t] # NoRow /\ pending'[u] # NoRow
                          /\ key[pending'[t]] = key[pending'[u]] => t = u
  BY DEF Apart
<1>4. /\ KeysOf(key, table) \cap (KeysInJobs(key) \cup KeysOf(key, buffer)
                                  \cup KeysWaiting(key)) = {}
      /\ (KeysInJobs(key) \cup KeysOf(key, buffer)) \cap KeysWaiting(key) = {}
      /\ KeysLost(key) \cap Live(key) = {}
  BY DEF Apart
<1>5. /\ Live(key)' = KeysOf(key, table)' \cup KeysInJobs(key)'
                      \cup KeysOf(key, buffer)' \cup KeysWaiting(key)'
      /\ Live(key) = KeysOf(key, table) \cup KeysInJobs(key)
                      \cup KeysOf(key, buffer) \cup KeysWaiting(key)
  BY DEF Live
<1>6. /\ Live(key)' = (Live(key) \ KeysOf(key, table)) \cup KeysOf(key, table)'
      /\ KeysLost(key)' \cap Live(key)' = {}
  BY <1>1, <1>4, <1>5
<1>7. Apart(key)'
  BY <1>1, <1>2, <1>3, <1>4, <1>6 DEF Apart
<1>8. QED  BY <1>6, <1>7

\* What is committed, and what a connection that closes takes with it.
LEMMA CommittedKeys ==
    ASSUME SinkTypeOK, NEW key, Distinct(key, table)
    PROVE  /\ KeysOf(key, Committed) \subseteq KeysOf(key, table)
           /\ Distinct(key, Committed)
           /\ {key[row] : row \in RowsOf(table) \ RowsOf(Committed)}
                = KeysOf(key, table) \ KeysOf(key, Committed)
<1> DEFINE C == Committed
<1>1. /\ Len(C) \in 0 .. Len(table) /\ Len(table) \in Nat
      /\ \A i \in 1 .. Len(C) : C[i] = table[i] /\ i \in 1 .. Len(table)
  <2>1. table \in Seq(Row)
    BY DEF SinkTypeOK
  <2>2. QED  BY <2>1, CommittedFits
<1> HIDE DEF C
<1>2. KeysOf(key, C) \subseteq KeysOf(key, table) /\ Distinct(key, C)
  BY <1>1 DEF KeysOf, Distinct
<1>3. ASSUME NEW row \in RowsOf(table) \ RowsOf(C)
      PROVE  key[row] \in KeysOf(key, table) \ KeysOf(key, C)
  <2>1. PICK i \in 1 .. Len(table) : row = table[i]
    BY <1>3 DEF RowsOf
  <2>2. ASSUME NEW j \in 1 .. Len(C), key[C[j]] = key[row]  PROVE FALSE
    <3>1. i = j
      BY <1>1, <2>1, <2>2 DEF Distinct
    <3>2. QED  BY <1>1, <1>3, <2>1, <3>1 DEF RowsOf
  <2>3. QED  BY <2>1, <2>2 DEF KeysOf
<1>4. ASSUME NEW k \in KeysOf(key, table) \ KeysOf(key, C)
      PROVE  \E row \in RowsOf(table) \ RowsOf(C) : k = key[row]
  <2>1. PICK i \in 1 .. Len(table) : k = key[table[i]]
    BY <1>4 DEF KeysOf
  <2>2. table[i] \notin RowsOf(C)
    BY <1>4, <2>1 DEF RowsOf, KeysOf
  <2>3. QED  BY <2>1, <2>2 DEF RowsOf
<1>5. {key[row] : row \in RowsOf(table) \ RowsOf(C)} = KeysOf(key, table) \ KeysOf(key, C)
  BY <1>3, <1>4
<1>6. QED  BY <1>2, <1>5 DEF C

LEMMA RollbackLoses ==
    ASSUME SinkTypeOK, NEW key, Distinct(key, table), RolledBack
    PROVE  KeysLost(key)' = KeysLost(key) \cup (KeysOf(key, table) \ KeysOf(key, Committed))
<1>1. lost' = lost \cup (RowsOf(table) \ RowsOf(Committed))
  BY DEF RolledBack
<1>2. KeysLost(key)' = KeysLost(key)
                         \cup {key[row] : row \in RowsOf(table) \ RowsOf(Committed)}
  BY <1>1 DEF KeysLost
<1>3. QED  BY <1>2, CommittedKeys

LEMMA CloseMoves ==
    ASSUME SinkInv, NEW key, Apart(key), Close
    PROVE  RowsMove(key, {})
<1>1. /\ UNCHANGED <<buffer, pending, jobs, call>> /\ table' = Committed /\ RolledBack
      /\ SinkTypeOK /\ Distinct(key, table)
  BY DEF Close, SinkInv, Apart
<1> DEFINE gone == KeysOf(key, table) \ KeysOf(key, Committed)
<1>2. /\ KeysOf(key, Committed) \subseteq KeysOf(key, table)
      /\ Distinct(key, Committed)
  BY <1>1, CommittedKeys
<1>3. KeysLost(key)' = KeysLost(key) \cup gone
  BY <1>1, RollbackLoses
<1>4. KeysOf(key, table)' = KeysOf(key, Committed) /\ Distinct(key, table)'
  BY <1>1, <1>2 DEF KeysOf, Distinct
<1>5. WaitersQueue'
  BY <1>1 DEF Apart, WaitersQueue
<1>6. KeysOf(key, table)' \subseteq KeysOf(key, table) \ gone
  BY <1>2, <1>4
<1>7. /\ Apart(key)'
      /\ Live(key)' = (Live(key) \ KeysOf(key, table)) \cup KeysOf(key, table)'
  BY <1>1, <1>3, <1>4, <1>5, <1>6, TableLoses
<1>8. KeysOf(key, table) \subseteq Live(key)
  BY DEF Live
<1>9. QED  BY <1>2, <1>3, <1>4, <1>7, <1>8 DEF RowsMove

\* At first there is none.
LEMMA NoRowsYet ==
    ASSUME NEW key, SinkInit
    PROVE  Apart(key) /\ Live(key) = {} /\ KeysLost(key) = {}
<1>1. /\ table = <<>> /\ buffer = <<>> /\ jobs = {} /\ lost = {}
      /\ \A t \in Tasks : pending[t] = NoRow
  BY DEF SinkInit
<1>2. /\ KeysOf(key, table) = {} /\ KeysOf(key, buffer) = {}
      /\ Distinct(key, table) /\ Distinct(key, buffer)
  BY <1>1, EmptyKeys
<1>3. KeysInJobs(key) = {} /\ KeysWaiting(key) = {} /\ KeysLost(key) = {}
  BY <1>1 DEF KeysInJobs, KeysWaiting, KeysLost
<1>4. QED  BY <1>1, <1>2, <1>3 DEF Apart, WaitersQueue, Packed, Live

-----------------------------------------------------------------------------
(***************************************************************************)
(* Which jobs are in the executor: without an orphan, only awaited ones of *)
(* the open connection.  These are the ones that cannot be cut off.        *)
(***************************************************************************)
JobsCurrent == ~orphaned => \A j \in jobs : j.awaited /\ db /\ j.conn = conn

LEMMA LockedCurrent ==
    ASSUME NEW t \in Tasks, NEW row, Locked(t, row), JobsCurrent,
           UNCHANGED <<db, conn, orphaned>>
    PROVE  JobsCurrent'
<1>1. \A buf : FlushLocked(t, buf) => JobsCurrent'
  <2>1. TAKE buf
  <2>2. CASE buf = <<>> \/ ~db
    BY <2>2 DEF FlushLocked, JobsCurrent
  <2>3. CASE ~(buf = <<>> \/ ~db)
    <3> DEFINE new == [by |-> t, awaited |-> TRUE, conn |-> conn, rows |-> buf]
    <3>1. new.awaited /\ new.conn = conn  OBVIOUS
    <3>2. FlushLocked(t, buf) => jobs' = jobs \cup {new}
      BY <2>3 DEF FlushLocked
    <3> HIDE DEF new
    <3>3. QED  BY <2>3, <3>1, <3>2 DEF JobsCurrent
  <2>4. QED  BY <2>2, <2>3
<1>2. QED  BY <1>1 DEF Locked, AppendLocked, JobsCurrent

LEMMA EnterCurrent ==
    ASSUME NEW t \in Tasks, NEW row, Enter(t, row), JobsCurrent
    PROVE  JobsCurrent'
BY LockedCurrent DEF Enter, JobsCurrent

LEMMA AcquireCurrent ==
    ASSUME NEW t \in Tasks, Acquire(t), JobsCurrent
    PROVE  JobsCurrent'
BY LockedCurrent DEF Acquire

LEMMA AnswerCurrent ==
    ASSUME NEW job \in jobs, NEW how, Answer(job, how), JobsCurrent
    PROVE  JobsCurrent'
BY DEF Answer, JobsCurrent

\* A task cancelled outside its job leaves the jobs alone.
LEMMA CancelInsideCurrent ==
    ASSUME SinkInv, NEW t \in Tasks, CancelInside(t), JobsCurrent,
           UNCHANGED <<db, conn>>
    PROVE  JobsCurrent'
<1>1. PICK unbegun \in SUBSET {j \in jobs : j.awaited /\ j.by = t} :
         /\ orphaned' = (orphaned \/ call[t] = "job")
         /\ jobs' = {IF j.by = t THEN [j EXCEPT !.awaited = FALSE] ELSE j
                        : j \in jobs \ unbegun}
  BY DEF CancelInside
<1>2. SUFFICES ASSUME ~orphaned, call[t] # "job" PROVE JobsCurrent'
  BY <1>1 DEF JobsCurrent
<1>3. \A j \in jobs : j.by # t
  BY <1>2 DEF JobsCurrent, SinkInv, LockGuardsJob
<1>4. jobs' = jobs
  BY <1>1, <1>3
<1>5. QED  BY <1>2, <1>4 DEF JobsCurrent

\* A new connection finds no job of the last one.
LEMMA OpenedCurrent ==
    ASSUME Opened, ~db, JobsCurrent
    PROVE  JobsCurrent'
BY DEF Opened, JobsCurrent

\* Whoever has flushed and is out of the sink has left the lock free.
LEMMA LockedLeaves ==
    ASSUME SinkTypeOK, NEW t \in Tasks, NEW row, Locked(t, row)
    PROVE  call'[t] = "out" => lock' = Free
BY DEF Locked, FlushLocked, AppendLocked, SinkTypeOK

-----------------------------------------------------------------------------
(***************************************************************************)
(* For a sink whose file is put away, and for one that a single task       *)
(* writes to: what the live file's rows are, and their order.              *)
(***************************************************************************)
\* The live file is put away with what was committed to it; the other rows stay.
LEMMA ReplaceMoves ==
    ASSUME SinkInv, NEW key, Apart(key), Replace
    PROVE  /\ Apart(key)' /\ KeysOf(key, table)' = {}
           /\ Live(key)' = Live(key) \ KeysOf(key, table)
           /\ KeysLost(key)' = KeysLost(key)
                                 \cup (KeysOf(key, table) \ KeysOf(key, Committed))
           /\ KeysOf(key, Committed) \subseteq KeysOf(key, table)
           /\ Distinct(key, Committed)
<1>1. /\ UNCHANGED <<buffer, pending, jobs>> /\ table' = <<>> /\ RolledBack
      /\ call' = [call EXCEPT ![Flusher] = IF @ = "raised" THEN "out" ELSE @]
      /\ SinkTypeOK /\ Distinct(key, table)
  BY DEF Replace, Opened, SinkInv, Apart
<1> DEFINE gone == KeysOf(key, table) \ KeysOf(key, Committed)
<1>2. WaitersQueue'
  BY <1>1 DEF Apart, WaitersQueue, SinkInv, SinkTypeOK
<1>3. KeysOf(key, table)' = {} /\ Distinct(key, table)'
  BY <1>1, EmptyKeys DEF KeysOf, Distinct
<1>4. KeysLost(key)' = KeysLost(key) \cup gone
  BY <1>1, RollbackLoses
<1>5. /\ Apart(key)'
      /\ Live(key)' = (Live(key) \ KeysOf(key, table)) \cup KeysOf(key, table)'
  BY <1>1, <1>2, <1>3, <1>4, TableLoses
<1>6. /\ KeysOf(key, Committed) \subseteq KeysOf(key, table)
      /\ Distinct(key, Committed)
  BY <1>1, CommittedKeys
<1>7. QED  BY <1>3, <1>4, <1>5, <1>6

\* A batch takes all of the buffer, and the lock.
BufferRule == lock # Free => buffer = <<>>

LEMMA LockedBuffer ==
    ASSUME SinkInv, NEW t \in Tasks, NEW row, Locked(t, row)
    PROVE  BufferRule'
BY DEF Locked, AppendLocked, FlushLocked, BufferRule

\* A flush of an open sink leaves nothing in the buffer.
LEMMA FlushEmpties ==
    ASSUME NEW t, Locked(t, NoRow), db \/ buffer = <<>>
    PROVE  buffer' = <<>>
BY DEF Locked, FlushLocked

\* The keys of a sequence rise; those of one sequence come before another's.
Rises(key, seq) ==
    \A i, j \in 1 .. Len(seq) : i < j => key[seq[i]] < key[seq[j]]

Below(S, e) == \A x \in S : x < e
Before(S, T) == \A y \in T : Below(S, y)

LEMMA AppendRises ==
    ASSUME NEW key, NEW seq \in Seq(Row), NEW row \in Row, Rises(key, seq),
           Below(KeysOf(key, seq), key[row])
    PROVE  Rises(key, Append(seq, row))
<1> DEFINE new == Append(seq, row)
<1>1. /\ Len(seq) \in Nat /\ Len(new) = Len(seq) + 1
      /\ \A i \in 1 .. Len(seq) : new[i] = seq[i]
      /\ new[Len(new)] = row
  OBVIOUS
<1> HIDE DEF new
<1>2. SUFFICES ASSUME NEW i \in 1 .. Len(new), NEW j \in 1 .. Len(new), i < j
               PROVE  key[new[i]] < key[new[j]]
  BY DEF Rises, new
<1>3. i \in 1 .. Len(seq) /\ new[i] = seq[i]
  BY <1>1, <1>2
<1>4. CASE j \in 1 .. Len(seq)
  BY <1>1, <1>2, <1>3, <1>4 DEF Rises
<1>5. CASE j = Len(new)
  BY <1>1, <1>3, <1>5 DEF Below, KeysOf
<1>6. j \in 1 .. Len(seq) \/ j = Len(new)
  BY <1>1
<1>7. QED  BY <1>4, <1>5, <1>6

LEMMA ConcatRises ==
    ASSUME NEW key, NEW a \in Seq(Row), NEW b \in Seq(Row), Rises(key, a), Rises(key, b),
           Before(KeysOf(key, a), KeysOf(key, b))
    PROVE  Rises(key, a \o b)
<1> DEFINE ab == a \o b
<1>1. /\ Len(a) \in Nat /\ Len(b) \in Nat /\ Len(ab) = Len(a) + Len(b)
      /\ \A i \in 1 .. Len(a) : ab[i] = a[i]
      /\ \A i \in 1 .. Len(b) : ab[Len(a) + i] = b[i]
  OBVIOUS
<1> HIDE DEF ab
<1>2. \A i \in 1 .. Len(ab) : i \notin 1 .. Len(a) =>
         \E m \in 1 .. Len(b) : i = Len(a) + m /\ ab[i] = b[m]
  <2>1. TAKE i \in 1 .. Len(ab)
  <2>2. HAVE i \notin 1 .. Len(a)
  <2>3. i - Len(a) \in 1 .. Len(b) /\ i = Len(a) + (i - Len(a))
    BY <1>1, <2>2
  <2>4. ab[Len(a) + (i - Len(a))] = b[i - Len(a)]
    BY <1>1, <2>3
  <2>5. QED  BY <2>3, <2>4
<1>3. SUFFICES ASSUME NEW i \in 1 .. Len(ab), NEW j \in 1 .. Len(ab), i < j
               PROVE  key[ab[i]] < key[ab[j]]
  BY DEF Rises, ab
<1>4. CASE i \in 1 .. Len(a) /\ j \in 1 .. Len(a)
  BY <1>1, <1>3, <1>4 DEF Rises
<1>5. CASE i \in 1 .. Len(a) /\ j \notin 1 .. Len(a)
  <2>1. PICK m \in 1 .. Len(b) : ab[j] = b[m]
    BY <1>2, <1>5
  <2>2. key[a[i]] \in KeysOf(key, a) /\ key[b[m]] \in KeysOf(key, b)
    BY <1>5 DEF KeysOf
  <2>3. QED  BY <1>1, <1>5, <2>1, <2>2 DEF Before, Below
<1>6. CASE i \notin 1 .. Len(a)
  <2>1. PICK m \in 1 .. Len(b) : i = Len(a) + m /\ ab[i] = b[m]
    BY <1>2, <1>6
  <2>2. j \notin 1 .. Len(a)
    BY <1>1, <1>3, <1>6
  <2>3. PICK n \in 1 .. Len(b) : j = Len(a) + n /\ ab[j] = b[n]
    BY <1>2, <2>2
  <2>4. m < n
    BY <1>1, <1>3, <2>1, <2>3
  <2>5. QED  BY <2>1, <2>3, <2>4 DEF Rises
<1>7. QED  BY <1>4, <1>5, <1>6

-----------------------------------------------------------------------------
\* The table comes before the buffer and before every batch.
FileRises(key) ==
    /\ Rises(key, table) /\ Rises(key, buffer)
    /\ Before(KeysOf(key, table), KeysOf(key, buffer))
    /\ \A j \in jobs : Rises(key, j.rows)
                       /\ Before(KeysOf(key, table), KeysOf(key, j.rows))

\* A row that waits comes after those that are stored or on their way.
WaitsLast(key) ==
    \A t \in Tasks : pending[t] # NoRow =>
        Below(KeysOf(key, table) \cup KeysInJobs(key) \cup KeysOf(key, buffer),
              key[pending[t]])

LEMMA FlushRises ==
    ASSUME NEW key, NEW t, NEW buf, FlushLocked(t, buf), jobs = {}, table' = table,
           Rises(key, table), Rises(key, buf),
           Before(KeysOf(key, table), KeysOf(key, buf))
    PROVE  FileRises(key)'
<1>1. CASE buf = <<>> \/ ~db
  <2>1. buffer' = buf /\ jobs' = {}
    BY <1>1 DEF FlushLocked
  <2>2. QED  BY <2>1 DEF FileRises, Rises, KeysOf
<1>2. CASE ~(buf = <<>> \/ ~db)
  <2>1. buffer' = <<>> /\ \A j \in jobs' : j.rows = buf
    BY <1>2 DEF FlushLocked
  <2>2. Rises(key, <<>>) /\ KeysOf(key, <<>>) = {}
    BY EmptyKeys DEF Rises
  <2>3. QED  BY <2>1, <2>2 DEF FileRises, Rises, KeysOf, Before
<1>3. QED  BY <1>1, <1>2

\* A row appended to an idle sink is the last one.
LEMMA LockedRises ==
    ASSUME SinkTypeOK, jobs = {}, NEW key, FileRises(key), NEW t \in Tasks,
           NEW row \in Row \cup {NoRow}, Locked(t, row), table' = table,
           \A k \in KeysNew(key, row) :
              Below(KeysOf(key, table) \cup KeysOf(key, buffer), k)
    PROVE  FileRises(key)'
<1>1. buffer \in Seq(Row) /\ Rises(key, table) /\ Rises(key, buffer)
  BY DEF SinkTypeOK, FileRises
<1>2. CASE row = NoRow
  BY <1>1, <1>2, FlushRises DEF Locked, FileRises
<1>3. CASE row # NoRow
  <2> DEFINE buf == Append(buffer, row)
  <2>1. row \in Row /\ Below(KeysOf(key, table) \cup KeysOf(key, buffer), key[row])
    BY <1>3 DEF KeysNew
  <2>2. Rises(key, buf)
    BY <1>1, <2>1, AppendRises DEF Below
  <2>3. Before(KeysOf(key, table), KeysOf(key, buf))
    BY <1>1, <2>1, AppendKeys DEF FileRises, Before, Below
  <2>4. \/ FlushLocked(t, buf)
        \/ buffer' = buf /\ jobs' = jobs
    BY <1>3 DEF Locked, AppendLocked
  <2> HIDE DEF buf
  <2>5. CASE FlushLocked(t, buf)
    BY <1>1, <2>2, <2>3, <2>5, FlushRises
  <2>6. CASE buffer' = buf /\ jobs' = jobs
    BY <1>1, <2>2, <2>3, <2>6 DEF FileRises, Rises, KeysOf
  <2>7. QED  BY <2>4, <2>5, <2>6
<1>4. QED  BY <1>2, <1>3

\* Its only batch, or the first of its rows, is inserted before anything is
\* buffered again.
LEMMA AnswerRises ==
    ASSUME SinkInv, BufferRule, NEW key, FileRises(key), NEW job \in jobs, NEW how,
           \A j \in jobs : j.awaited, Answer(job, how),
           NEW a \in Seq(Row), table' = table \o a, Rises(key, a),
           KeysOf(key, a) \subseteq KeysOf(key, job.rows)
    PROVE  FileRises(key)'
<1>1. /\ table \in Seq(Row) /\ job.by \in Tasks
  BY DEF SinkInv, SinkTypeOK, Job
<1>2. \A j \in jobs : j = job
  BY DEF SinkInv, LockGuardsJob
<1>3. lock = job.by /\ lock # Free
  BY <1>1, SinkAssumption DEF SinkInv, LockGuardsJob
<1>4. /\ buffer' = buffer /\ jobs' = {}
  BY <1>2 DEF Answer
<1>5. buffer = <<>>
  BY <1>3 DEF BufferRule
<1>6. Rises(key, table)'
  <2>1. Rises(key, table) /\ Before(KeysOf(key, table), KeysOf(key, a))
    BY DEF FileRises, Before
  <2>2. Rises(key, table \o a)
    BY <1>1, <2>1, ConcatRises
  <2>3. QED  BY <2>2 DEF Rises
<1>7. Rises(key, buffer)' /\ KeysOf(key, buffer)' = {}
  BY <1>4, <1>5, EmptyKeys DEF Rises, KeysOf
<1>8. QED  BY <1>4, <1>6, <1>7 DEF FileRises, Before

LEMMA CommitRises ==
    ASSUME SinkInv, BufferRule, NEW key, FileRises(key), NEW job \in jobs,
           \A j \in jobs : j.awaited, Commit(job)
    PROVE  FileRises(key)'
<1>1. job.rows \in Seq(Row) /\ Rises(key, job.rows)
  BY DEF SinkInv, SinkTypeOK, Job, FileRises
<1>2. table' = table \o job.rows /\ Answer(job, "out")
  BY DEF Commit
<1>3. QED  BY <1>1, <1>2, AnswerRises

\* The first rows of a sequence rise if all do.
LEMMA PrefixRises ==
    ASSUME NEW key, NEW seq \in Seq(Row), Rises(key, seq), NEW a,
           Len(a) \in 0 .. Len(seq), \A i \in 1 .. Len(a) : a[i] = seq[i]
    PROVE  Rises(key, a) /\ KeysOf(key, a) \subseteq KeysOf(key, seq)
<1>1. Len(seq) \in Nat /\ \A i \in 1 .. Len(a) : i \in 1 .. Len(seq)
  OBVIOUS
<1>2. QED  BY <1>1 DEF Rises, KeysOf

LEMMA RaiseRises ==
    ASSUME SinkInv, BufferRule, NEW key, FileRises(key), NEW job \in jobs,
           \A j \in jobs : j.awaited, NEW n \in 0 .. Len(job.rows), Raise(job, n)
    PROVE  FileRises(key)'
<1> DEFINE a == SubSeq(job.rows, 1, n)
<1>1. job.rows \in Seq(Row) /\ Rises(key, job.rows)
  BY DEF SinkInv, SinkTypeOK, Job, FileRises
<1>2. /\ a \in Seq(Row) /\ Len(a) = n /\ \A i \in 1 .. n : a[i] = job.rows[i]
  BY <1>1, SplitSeq
<1>3. table' = table \o a /\ Answer(job, "raised")
  BY DEF Raise
<1> HIDE DEF a
<1>4. Rises(key, a) /\ KeysOf(key, a) \subseteq KeysOf(key, job.rows)
  BY <1>1, <1>2, PrefixRises
<1>5. QED  BY <1>2, <1>3, <1>4, AnswerRises

\* What is left when the connection closes rises too.
LEMMA CloseRises ==
    ASSUME SinkTypeOK, NEW key, FileRises(key), Close
    PROVE  FileRises(key)'
<1>1. table' = Committed /\ UNCHANGED <<buffer, jobs>> /\ table \in Seq(Row)
  BY DEF Close, SinkTypeOK
<1>2. Rises(key, Committed) /\ KeysOf(key, Committed) \subseteq KeysOf(key, table)
  BY <1>1, CommittedFits, PrefixRises DEF FileRises
<1>3. /\ Rises(key, table)' /\ KeysOf(key, table)' \subseteq KeysOf(key, table)
  BY <1>1, <1>2 DEF Rises, KeysOf
<1>4. Rises(key, buffer)' /\ KeysOf(key, buffer)' = KeysOf(key, buffer)
  BY <1>1 DEF FileRises, Rises, KeysOf
<1>5. Before(KeysOf(key, table)', KeysOf(key, buffer)')
  BY <1>3, <1>4 DEF FileRises, Before, Below
<1>6. ASSUME NEW j \in jobs'
      PROVE  Rises(key, j.rows)' /\ Before(KeysOf(key, table)', KeysOf(key, j.rows)')
  BY <1>1, <1>3 DEF FileRises, Before, Below, Rises, KeysOf
<1>7. QED  BY <1>3, <1>4, <1>5, <1>6 DEF FileRises, Before, Below, Rises, KeysOf

\* Otherwise the stored rows stay as they are.
LEMMA StillRises ==
    ASSUME NEW key, FileRises(key), UNCHANGED <<table, buffer>>,
           \A j \in jobs' : \E i \in jobs : j.rows = i.rows
    PROVE  FileRises(key)'
<1>1. /\ Rises(key, table)' /\ Rises(key, buffer)'
      /\ KeysOf(key, table)' = KeysOf(key, table)
      /\ KeysOf(key, buffer)' = KeysOf(key, buffer)
  BY DEF FileRises, Rises, KeysOf
<1>2. ASSUME NEW j \in jobs'
      PROVE  /\ Rises(key, j.rows)
             /\ Before(KeysOf(key, table), KeysOf(key, j.rows))
  BY <1>2 DEF FileRises
<1>3. QED  BY <1>1, <1>2 DEF FileRises, Before, KeysOf, Rises

\* Rows that move among the places of the sink stay before those that wait.
LEMMA WaitersStay ==
    ASSUME NEW key, Apart(key), Apart(key)', WaitsLast(key), pending' = pending,
           Live(key)' \subseteq Live(key)
    PROVE  WaitsLast(key)'
<1>1. KeysWaiting(key)' = KeysWaiting(key)
  BY DEF KeysWaiting
<1>2. KeysOf(key, table)' \cup KeysInJobs(key)' \cup KeysOf(key, buffer)'
        \subseteq KeysOf(key, table) \cup KeysInJobs(key) \cup KeysOf(key, buffer)
  <2>1. /\ (KeysInJobs(key)' \cup KeysOf(key, buffer)') \cap KeysWaiting(key)' = {}
        /\ KeysOf(key, table)' \cap KeysWaiting(key)' = {}
    BY DEF Apart
  <2>2. QED  BY <1>1, <2>1 DEF Live
<1>3. ASSUME NEW t \in Tasks, pending'[t] # NoRow
      PROVE  Below(KeysOf(key, table)' \cup KeysInJobs(key)' \cup KeysOf(key, buffer)',
                   key[pending'[t]])
  BY <1>2, <1>3 DEF WaitsLast, Below
<1>4. QED  BY <1>3 DEF WaitsLast, Below

\* A row is its own key; where it is by that key it is by any other.
Itself == [row \in Row |-> row]

LEMMA SeqShows ==
    ASSUME NEW key, NEW seq \in Seq(Row)
    PROVE  /\ \A x \in KeysOf(Itself, seq) : x \in Row /\ key[x] \in KeysOf(key, seq)
           /\ Distinct(key, seq) => Distinct(Itself, seq)
<1>1. \A i \in 1 .. Len(seq) : seq[i] \in Row /\ Itself[seq[i]] = seq[i]
  BY DEF Itself
<1>2. QED  BY <1>1 DEF KeysOf, Distinct

LEMMA RowsShow ==
    ASSUME SinkTypeOK, NEW key
    PROVE  /\ \A x \in KeysOf(Itself, table) : x \in Row /\ key[x] \in KeysOf(key, table)
           /\ \A x \in KeysOf(Itself, buffer) : x \in Row /\ key[x] \in KeysOf(key, buffer)
           /\ \A x \in KeysInJobs(Itself) : x \in Row /\ key[x] \in KeysInJobs(key)
           /\ \A x \in KeysWaiting(Itself) : x \in Row /\ key[x] \in KeysWaiting(key)
           /\ \A x \in KeysLost(Itself) : x \in Row /\ key[x] \in KeysLost(key)
<1>1. /\ table \in Seq(Row) /\ buffer \in Seq(Row) /\ lost \subseteq Row
      /\ \A j \in jobs : j.rows \in Seq(Row)
      /\ \A t \in Tasks : pending[t] # NoRow => pending[t] \in Row
  BY DEF SinkTypeOK, Job
<1>2. \A x \in KeysInJobs(Itself) : x \in Row /\ key[x] \in KeysInJobs(key)
  BY <1>1, SeqShows DEF KeysInJobs
<1>3. \A x \in KeysWaiting(Itself) : x \in Row /\ key[x] \in KeysWaiting(key)
  <2>1. \A t \in Tasks : pending[t] # NoRow => Itself[pending[t]] = pending[t]
    BY <1>1 DEF Itself
  <2>2. QED  BY <1>1, <2>1 DEF KeysWaiting
<1>4. \A x \in KeysLost(Itself) : x \in Row /\ key[x] \in KeysLost(key)
  <2>1. \A row \in lost : Itself[row] = row
    BY <1>1 DEF Itself
  <2>2. QED  BY <1>1, <2>1 DEF KeysLost
<1>5. QED  BY <1>1, <1>2, <1>3, <1>4, SeqShows

\* Rows told apart by some key are told apart by themselves.
LEMMA ApartThemselves ==
    ASSUME SinkTypeOK, NEW key, Apart(key)
    PROVE  Apart(Itself)
<1>1. /\ table \in Seq(Row) /\ buffer \in Seq(Row)
      /\ \A j \in jobs : j.rows \in Seq(Row)
      /\ \A t \in Tasks : pending[t] # NoRow => pending[t] \in Row
  BY DEF SinkTypeOK, Job
<1>2. Packed(Itself)
  <2>1. KeysInJobs(Itself) \cap KeysOf(Itself, buffer) = {}
    BY RowsShow DEF Apart, Packed
  <2>2. \A i, j \in jobs :
           i # j => KeysOf(Itself, i.rows) \cap KeysOf(Itself, j.rows) = {}
    BY <1>1, SeqShows DEF Apart, Packed
  <2>3. QED  BY <1>1, <2>1, <2>2, SeqShows DEF Apart, Packed
<1>3. \A t, u \in Tasks : pending[t] # NoRow /\ pending[u] # NoRow
                          /\ Itself[pending[t]] = Itself[pending[u]] => t = u
  BY <1>1 DEF Apart, Itself
<1>4. /\ (KeysInJobs(Itself) \cup KeysOf(Itself, buffer)) \cap KeysWaiting(Itself) = {}
      /\ KeysOf(Itself, table)
           \cap (KeysInJobs(Itself) \cup KeysOf(Itself, buffer) \cup KeysWaiting(Itself))
         = {}
  BY RowsShow DEF Apart
<1>5. KeysLost(Itself) \cap Live(Itself) = {}
  BY RowsShow DEF Apart, Live
<1>6. QED  BY <1>1, <1>2, <1>3, <1>4, <1>5, SeqShows DEF Apart
===============================================================================
