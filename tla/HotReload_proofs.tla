---------------------------- MODULE HotReload_proofs ----------------------------
(***************************************************************************)
(* A reload takes effect and a stopped runtime leaves nothing running, for *)
(* any collectors, settings, edits and failures.                           *)
(*                                                                         *)
(* Neither property is inductive: both speak of a moment when a loop over  *)
(* the collectors is through.  RestartProgress says how far the watcher's  *)
(* two loops have come, StopProgress how far the shutdown's has, and that  *)
(* the watcher is out of the way by then.                                  *)
(***************************************************************************)
EXTENDS HotReload, TLAPS

\* The collectors the configuration in force enables, each once.
Wanted(c) == IF config.data[c] = Off THEN 0 ELSE 1

RestartProgress ==
    /\ ForceDisabled = {} /\ (IsRoot \/ NeedsRoot = {}) /\ "rejected" \notin Flaws
    /\ shutdown.at = "running" /\ failures = 0
    => /\ watcher.at \in {"idle", "reading"} =>
             \A c \in Names : instances[c] = Wanted(c)
       /\ watcher.at = "stopping" =>
             \A i \in 1 .. Last : i < watcher.next => instances[Collectors[i]] = 0
       /\ watcher.at = "starting" =>
             \A i \in 1 .. Last :
                instances[Collectors[i]] = IF i < watcher.next
                                           THEN Wanted(Collectors[i]) ELSE 0

StopProgress ==
    /\ shutdown.at \in {"collectors", "stopped"} => watcher.at = "done"
    /\ shutdown.at = "collectors" /\ failures = 0 =>
          \A i \in 1 .. Last : i > shutdown.next => instances[Collectors[i]] = 0
    /\ shutdown.at = "stopped" /\ failures = 0 =>
          \A c \in Names : instances[c] = 0

Inv == TypeOK /\ RestartProgress /\ StopProgress

-----------------------------------------------------------------------------
\* Collectors and indices.
LEMMA Indexed ==
    /\ \A i \in 1 .. Last : Collectors[i] \in Names
    /\ \A c \in Names : \E i \in 1 .. Last : Collectors[i] = c
    /\ Last \in Nat
BY ReloadAssumption DEF Names, Last

\* A changed section means that there is a collector.
LEMMA ChangeNeedsCollector ==
    ASSUME NEW s \in Section, NEW t \in Section, s # t
    PROVE  Last >= 1
<1>1. PICK c \in Names : s[c] # t[c]
  BY DEF Section
<1>2. QED  BY <1>1, Indexed

\* Stopping or starting one collector.
LEMMA StopEffect ==
    ASSUME TypeOK, NEW c \in Names, StopCollector(c)
    PROVE  /\ instances' \in [Names -> Nat] /\ failures' \in 0 .. MaxFailures
           /\ failures' = 0 => /\ failures = 0
                               /\ instances' = [instances EXCEPT ![c] = 0]
BY ReloadAssumption DEF TypeOK, StopCollector, Fails

LEMMA StartEffect ==
    ASSUME TypeOK, NEW c \in Names, StartCollector(c)
    PROVE  /\ instances' \in [Names -> Nat] /\ failures' \in 0 .. MaxFailures
           /\ failures' = 0 => /\ failures = 0
                               /\ instances' = [instances EXCEPT ![c] = @ + 1]
BY ReloadAssumption DEF TypeOK, StartCollector, Fails

-----------------------------------------------------------------------------
LEMMA InitInv == Init => Inv
<1> SUFFICES ASSUME Init PROVE Inv
  OBVIOUS
<1> USE ReloadAssumption
<1>1. PICK section \in Section :
        /\ file = [says |-> section, flaw |-> "none", mtime |-> 1]
        /\ config = [data |-> section, previous |-> section, mtime |-> 1]
        /\ instances = [c \in Names |-> IF StartsAtBoot(section, c) THEN 1 ELSE 0]
  BY DEF Init
<1>2. TypeOK
  <2>1. 1 \in 1 .. MaxEdits + 1 /\ 0 \in 0 .. MaxEdits /\ 0 \in 0 .. MaxFailures
    OBVIOUS
  <2>2. /\ file \in [says : Section, flaw : {"none"} \cup Flaws, mtime : 1 .. MaxEdits + 1]
        /\ config \in [data : Section, previous : Section,
                       mtime : 1 .. MaxEdits + 1]
    BY <1>1, <2>1
  <2>3. instances \in [Names -> Nat]
    BY <1>1
  <2>4. watcher \in Watching /\ shutdown \in Stopping
    BY DEF Init, Idle, Watching, Stopping
  <2>5. notified \in BOOLEAN /\ notifier \in BOOLEAN
    BY DEF Init
  <2>6. QED  BY <2>1, <2>2, <2>3, <2>4, <2>5 DEF Init, TypeOK
<1>3. RestartProgress
  BY <1>1 DEF Init, RestartProgress, Idle, Wanted, StartsAtBoot
<1>4. StopProgress
  BY DEF Init, StopProgress
<1>5. QED  BY <1>2, <1>3, <1>4 DEF Inv

\* The file, and what load does with it.
LEMMA EditKeeps == ASSUME Inv, Edit PROVE Inv'
<1>1. TypeOK'
  <2>1. PICK says \in Section, flaw \in {"none"} \cup Flaws,
             mtime \in 1 .. MaxEdits + 1 :
           file' = [says |-> says, flaw |-> flaw, mtime |-> mtime]
    <3>1. PICK s \in Section, f \in {"none"} \cup Flaws,
               m \in (IF OlderFiles THEN 1 ELSE edits + 2) .. edits + 2 :
             file' = [says |-> s, flaw |-> f, mtime |-> m]
      BY DEF Edit
    <3>2. m \in 1 .. MaxEdits + 1
      BY <3>1, ReloadAssumption DEF Inv, TypeOK, Edit
    <3>3. QED  BY <3>1, <3>2
  <2>2. QED  BY <2>1, ReloadAssumption DEF Inv, TypeOK, Edit
<1>2. RestartProgress' /\ StopProgress'
  BY DEF Inv, Edit, RestartProgress, StopProgress, Wanted
<1>3. QED  BY <1>1, <1>2 DEF Inv

LEMMA LookKeeps == ASSUME Inv, LookAtFile PROVE Inv'
<1>1. watcher' = Idle \/ watcher' = [at |-> "reading", mtime |-> file.mtime]
  BY DEF LookAtFile
<1>2. TypeOK'
  BY <1>1 DEF Inv, TypeOK, LookAtFile, Watching, Idle
<1>3. RestartProgress' /\ StopProgress'
  BY <1>1 DEF Inv, LookAtFile, RestartProgress, StopProgress, Wanted, Idle
<1>4. QED  BY <1>2, <1>3 DEF Inv

LEMMA ReadKeeps == ASSUME Inv, ReadFile PROVE Inv'
<1>1. /\ watcher \in [at : {"reading"}, mtime : 1 .. MaxEdits + 1]
      /\ file.says \in Section /\ config.data \in Section
  BY DEF Inv, TypeOK, ReadFile, Watching
<1>2. config' = [data |-> file.says, previous |-> config.data,
                 mtime |-> watcher.mtime]
  BY DEF ReadFile, Loaded
<1>3. CASE file.says # config.data
  <2>1. watcher' = [at |-> "stopping", next |-> 1]
    BY <1>3 DEF ReadFile
  <2>2. Last \in Nat /\ Last >= 1
    BY <1>1, <1>3, ChangeNeedsCollector, Indexed
  <2>3. TypeOK'
    <3>1. watcher' \in Watching
      BY <2>1, <2>2 DEF Watching
    <3>2. config' \in [data : Section, previous : Section,
                      mtime : 1 .. MaxEdits + 1]
      BY <1>1, <1>2
    <3>3. QED  BY <3>1, <3>2 DEF Inv, TypeOK, ReadFile, fileVars
  <2>4. RestartProgress' /\ StopProgress'
    BY <1>1, <2>1 DEF Inv, ReadFile, RestartProgress, StopProgress
  <2>5. QED  BY <2>3, <2>4 DEF Inv
<1>4. CASE file.says = config.data
  <2>1. watcher' = Idle /\ config'.data = config.data
    BY <1>2, <1>4 DEF ReadFile
  <2>2. TypeOK'
    BY <1>1, <1>2, <2>1 DEF Inv, TypeOK, ReadFile, fileVars, Watching, Idle
  <2>3. RestartProgress' /\ StopProgress'
    BY <1>1, <2>1
    DEF Inv, ReadFile, RestartProgress, StopProgress, Wanted, Idle
  <2>4. QED  BY <2>2, <2>3 DEF Inv
<1>5. QED  BY <1>3, <1>4

LEMMA LoadRaisesKeeps == ASSUME Inv, LoadRaises PROVE Inv'
<1>1. /\ watcher \in [at : {"reading"}, mtime : 1 .. MaxEdits + 1]
      /\ watcher' = Idle \/ watcher' = [at |-> "dead"]
  BY DEF Inv, TypeOK, LoadRaises, Watching
<1>2. \/ file.flaw = "rejected" /\ config' = [data |-> file.says,
                              previous |-> config.data, mtime |-> watcher.mtime]
      \/ file.flaw # "rejected" /\ config' = config
  BY DEF LoadRaises, Loaded
<1>3. config' \in [data : Section, previous : Section, mtime : 1 .. MaxEdits + 1]
  BY <1>1, <1>2 DEF Inv, TypeOK
<1>4. TypeOK'
  BY <1>1, <1>3 DEF Inv, TypeOK, LoadRaises, fileVars, Watching, Idle
<1>5. RestartProgress'
  <2>1. CASE file.flaw = "rejected"
    BY <2>1 DEF Inv, TypeOK, LoadRaises, RestartProgress
  <2>2. CASE file.flaw # "rejected"
    BY <1>1, <1>2, <2>2
    DEF Inv, LoadRaises, RestartProgress, Wanted, Idle
  <2>3. QED  BY <2>1, <2>2
<1>6. StopProgress'
  BY <1>1 DEF Inv, LoadRaises, StopProgress, Idle
<1>7. QED  BY <1>4, <1>5, <1>6 DEF Inv

-----------------------------------------------------------------------------
\* The two loops of the restart.
LEMMA StopNextKeeps == ASSUME Inv, StopNext PROVE Inv'
<1> DEFINE n == watcher.next
<1>1. /\ watcher \in [at : {"stopping", "starting"}, next : 1 .. Last]
      /\ watcher.at = "stopping" /\ n \in 1 .. Last
  BY DEF Inv, TypeOK, StopNext, Watching
<1>2. /\ Collectors[n] \in Names /\ StopCollector(Collectors[n])
      /\ UNCHANGED <<file, notified, edits, config, notifier, shutdown>>
  BY <1>1, Indexed DEF StopNext, fileVars
<1>3. /\ instances' \in [Names -> Nat] /\ failures' \in 0 .. MaxFailures
      /\ failures' = 0 =>
            /\ failures = 0
            /\ instances' = [instances EXCEPT ![Collectors[n]] = 0]
  BY <1>2, StopEffect DEF Inv
<1>4. /\ watcher' \in [at : {"stopping", "starting"}, next : 1 .. Last]
      /\ IF n = Last THEN watcher'.at = "starting" /\ watcher'.next = 1
         ELSE watcher'.at = "stopping" /\ watcher'.next = n + 1
  <2>1. CASE n = Last
    <3>1. watcher' = [watcher EXCEPT !.at = "starting", !.next = 1]
      BY <2>1 DEF StopNext
    <3>2. 1 \in 1 .. Last
      BY <1>1, Indexed
    <3>3. QED  BY <1>1, <2>1, <3>1, <3>2
  <2>2. CASE n # Last
    <3>1. watcher' = [watcher EXCEPT !.next = n + 1]
      BY <2>2 DEF StopNext
    <3>2. n + 1 \in 1 .. Last
      BY <1>1, <2>2, Indexed
    <3>3. QED  BY <1>1, <2>2, <3>1, <3>2
  <2>3. QED  BY <2>1, <2>2
<1>5. TypeOK'
  BY <1>2, <1>3, <1>4 DEF Inv, TypeOK, Watching
<1>6. ASSUME ForceDisabled = {}, IsRoot \/ NeedsRoot = {}, "rejected" \notin Flaws,
             shutdown'.at = "running", failures' = 0
      PROVE  \A i \in 1 .. Last : i < n + 1 => instances'[Collectors[i]] = 0
  <2>1. \A i \in 1 .. Last : i < n => instances[Collectors[i]] = 0
    BY <1>1, <1>2, <1>3, <1>6 DEF Inv, RestartProgress
  <2>2. QED  BY <1>1, <1>3, <1>6, <2>1, Indexed DEF Inv, TypeOK
<1>7. RestartProgress'
  BY <1>1, <1>4, <1>6, Indexed DEF RestartProgress
<1>8. StopProgress'
  BY <1>1, <1>2 DEF Inv, StopProgress
<1>9. QED  BY <1>5, <1>7, <1>8 DEF Inv

LEMMA StartNextKeeps == ASSUME Inv, StartNext PROVE Inv'
<1> DEFINE n == watcher.next
<1>1. /\ watcher \in [at : {"stopping", "starting"}, next : 1 .. Last]
      /\ watcher.at = "starting" /\ n \in 1 .. Last
  BY DEF Inv, TypeOK, StartNext, Watching
<1>2. /\ Collectors[n] \in Names
      /\ UNCHANGED <<file, notified, edits, config, notifier, shutdown>>
  BY <1>1, Indexed DEF StartNext, fileVars
<1>3. /\ instances' \in [Names -> Nat] /\ failures' \in 0 .. MaxFailures
      /\ failures' = 0 =>
            /\ failures = 0
            /\ instances' = [instances EXCEPT ![Collectors[n]] =
                                @ + Wanted(Collectors[n])]
  <2>1. CASE config.data[Collectors[n]] # Off
    <3>1. StartCollector(Collectors[n])
      BY <2>1 DEF StartNext
    <3>2. QED  BY <1>2, <2>1, <3>1, StartEffect DEF Inv, Wanted
  <2>2. CASE config.data[Collectors[n]] = Off
    <3>1. UNCHANGED <<instances, failures>>
      BY <2>2 DEF StartNext
    <3>2. instances = [instances EXCEPT ![Collectors[n]] = @ + 0]
      BY <1>2 DEF Inv, TypeOK
    <3>3. QED  BY <2>2, <3>1, <3>2 DEF Inv, TypeOK, Wanted
  <2>3. QED  BY <2>1, <2>2
<1>4. \/ /\ n < Last /\ watcher' \in [at : {"stopping", "starting"},
                                      next : 1 .. Last]
         /\ watcher'.at = "starting" /\ watcher'.next = n + 1
      \/ n = Last /\ watcher' = [at |-> "idle"]
      \/ shutdown.at # "running" /\ watcher' = [at |-> "done"]
  <2>1. CASE n < Last
    BY <1>1, <2>1, Indexed DEF StartNext
  <2>2. CASE ~(n < Last)
    BY <1>1, <2>2, Indexed DEF StartNext, AfterRestart, Idle
  <2>3. QED  BY <2>1, <2>2
<1>5. TypeOK'
  BY <1>2, <1>3, <1>4 DEF Inv, TypeOK, Watching
<1>6. ASSUME ForceDisabled = {}, IsRoot \/ NeedsRoot = {}, "rejected" \notin Flaws,
             shutdown'.at = "running", failures' = 0
      PROVE  \A i \in 1 .. Last :
                instances'[Collectors[i]] = IF i < n + 1
                                            THEN Wanted(Collectors[i]) ELSE 0
  <2>1. \A i \in 1 .. Last :
           instances[Collectors[i]] = IF i < n THEN Wanted(Collectors[i]) ELSE 0
    BY <1>1, <1>2, <1>3, <1>6 DEF Inv, RestartProgress
  <2> TAKE i \in 1 .. Last
  <2>2. CASE i = n
    <3>1. instances[Collectors[n]] = 0
      BY <1>1, <2>1
    <3>2. Wanted(Collectors[n]) \in Nat
      BY DEF Wanted
    <3>3. instances'[Collectors[n]] = 0 + Wanted(Collectors[n])
      BY <1>2, <1>3, <1>6, <3>1 DEF Inv, TypeOK
    <3>4. QED  BY <1>1, <2>2, <3>2, <3>3
  <2>3. CASE i # n
    <3>1. Collectors[i] # Collectors[n]
      BY <1>1, <2>3, ReloadAssumption
    <3>2. instances'[Collectors[i]] = instances[Collectors[i]]
      BY <1>2, <1>3, <1>6, <3>1, Indexed DEF Inv, TypeOK
    <3>3. QED  BY <1>1, <2>1, <2>3, <3>2
  <2>4. QED  BY <2>2, <2>3
<1>7. RestartProgress'
  <2>1. \A c : (Wanted(c))' = Wanted(c)
    BY <1>2 DEF Wanted
  <2> SUFFICES ASSUME ForceDisabled = {}, IsRoot \/ NeedsRoot = {}, "rejected" \notin Flaws,
                      shutdown'.at = "running", failures' = 0
               PROVE  /\ watcher'.at \in {"idle", "reading"} =>
                            \A c \in Names : instances'[c] = Wanted(c)
                      /\ watcher'.at = "stopping" => FALSE
                      /\ watcher'.at = "starting" =>
                            \A i \in 1 .. Last :
                               instances'[Collectors[i]] =
                                  IF i < watcher'.next
                                  THEN Wanted(Collectors[i]) ELSE 0
    BY <2>1 DEF RestartProgress
  <2>2. \A i \in 1 .. Last :
           instances'[Collectors[i]] = IF i < n + 1
                                       THEN Wanted(Collectors[i]) ELSE 0
    BY <1>6
  <2>3. CASE n < Last /\ watcher'.at = "starting" /\ watcher'.next = n + 1
    BY <2>2, <2>3
  <2>4. CASE n = Last /\ watcher' = [at |-> "idle"]
    <3>1. \A i \in 1 .. Last : instances'[Collectors[i]] = Wanted(Collectors[i])
      BY <1>1, <2>2, <2>4
    <3>2. QED  BY <2>4, <3>1, Indexed
  <2>5. QED  BY <1>2, <1>4, <2>3, <2>4
<1>8. StopProgress'
  BY <1>1, <1>2 DEF Inv, StopProgress
<1>9. QED  BY <1>5, <1>7, <1>8 DEF Inv

-----------------------------------------------------------------------------
\* The shutdown.
LEMMA StopKeeps == ASSUME Inv, Stop PROVE Inv'
<1>1. TypeOK'
  BY DEF Inv, TypeOK, Stop, fileVars, Stopping
<1>2. RestartProgress' /\ StopProgress'
  BY DEF Inv, Stop, RestartProgress, StopProgress
<1>3. QED  BY <1>1, <1>2 DEF Inv

LEMMA CancelKeeps == ASSUME Inv, CancelTakesEffect PROVE Inv'
<1>1. instances' \in [Names -> Nat]
  <2>1. CASE UNCHANGED instances
    BY <2>1 DEF Inv, TypeOK
  <2>2. CASE watcher.at = "starting" /\ instances' =
               [instances EXCEPT ![Collectors[watcher.next]] = @ + 1]
    <3>1. watcher.next \in 1 .. Last
      BY <2>2 DEF Inv, TypeOK, Watching
    <3>2. QED  BY <2>2, <3>1, Indexed DEF Inv, TypeOK
  <2>3. QED  BY <2>1, <2>2 DEF CancelTakesEffect
<1>2. TypeOK'
  BY <1>1 DEF Inv, TypeOK, CancelTakesEffect, fileVars, Watching
<1>3. RestartProgress' /\ StopProgress'
  BY DEF Inv, CancelTakesEffect, RestartProgress, StopProgress
<1>4. QED  BY <1>2, <1>3 DEF Inv

LEMMA SwallowKeeps == ASSUME Inv, CancelIsSwallowed PROVE Inv'
<1>1. TypeOK'
  BY DEF Inv, TypeOK, CancelIsSwallowed, fileVars, Stopping
<1>2. RestartProgress' /\ StopProgress'
  BY DEF Inv, CancelIsSwallowed, RestartProgress, StopProgress
<1>3. QED  BY <1>1, <1>2 DEF Inv

LEMMA AwaitedKeeps == ASSUME Inv, WatcherAwaited PROVE Inv'
<1>1. \/ watcher.at = "dead" /\ shutdown' = [at |-> "raised"]
      \/ watcher.at = "done" /\ shutdown' = [at |-> "collectors", next |-> Last]
  BY DEF WatcherAwaited
<1>2. TypeOK'
  BY <1>1, Indexed DEF Inv, TypeOK, WatcherAwaited, fileVars, Stopping
<1>3. RestartProgress'
  BY <1>1 DEF RestartProgress
<1>4. StopProgress'
  BY <1>1, Indexed DEF WatcherAwaited, StopProgress
<1>5. QED  BY <1>2, <1>3, <1>4 DEF Inv

LEMMA ShutDownKeeps == ASSUME Inv, ShutDownNext PROVE Inv'
<1> DEFINE n == shutdown.next
<1>1. /\ shutdown \in [at : {"collectors"}, next : 0 .. Last]
      /\ shutdown.at = "collectors" /\ n \in 1 .. Last
  BY DEF Inv, TypeOK, ShutDownNext, Stopping
<1>2. /\ Collectors[n] \in Names /\ StopCollector(Collectors[n])
      /\ UNCHANGED <<file, notified, edits, config, watcher, notifier>>
  BY <1>1, Indexed DEF ShutDownNext, fileVars
<1>3. /\ instances' \in [Names -> Nat] /\ failures' \in 0 .. MaxFailures
      /\ failures' = 0 =>
            /\ failures = 0
            /\ instances' = [instances EXCEPT ![Collectors[n]] = 0]
  BY <1>2, StopEffect DEF Inv
<1>4. /\ shutdown' \in [at : {"collectors"}, next : 0 .. Last]
      /\ shutdown'.at = "collectors" /\ shutdown'.next = n - 1
  <2>1. shutdown' = [shutdown EXCEPT !.next = n - 1]
    BY DEF ShutDownNext
  <2>2. n - 1 \in 0 .. Last
    BY <1>1, Indexed
  <2>3. QED  BY <1>1, <2>1, <2>2
<1>5. TypeOK'
  BY <1>2, <1>3, <1>4 DEF Inv, TypeOK, Stopping
<1>6. RestartProgress'
  BY <1>4 DEF RestartProgress
<1>7. ASSUME failures' = 0
      PROVE  \A i \in 1 .. Last : i > n - 1 => instances'[Collectors[i]] = 0
  <2>1. \A i \in 1 .. Last : i > n => instances[Collectors[i]] = 0
    BY <1>1, <1>3, <1>7 DEF Inv, StopProgress
  <2>2. QED  BY <1>1, <1>3, <1>7, <2>1, Indexed DEF Inv, TypeOK
<1>8. StopProgress'
  BY <1>1, <1>2, <1>4, <1>7 DEF Inv, StopProgress
<1>9. QED  BY <1>5, <1>6, <1>8 DEF Inv

LEMMA CloseKeeps == ASSUME Inv, CloseStorage PROVE Inv'
<1>1. shutdown.at = "collectors" /\ shutdown.next = 0
      /\ shutdown' = [at |-> "stopped"]
  BY DEF CloseStorage
<1>2. TypeOK'
  BY <1>1 DEF Inv, TypeOK, CloseStorage, fileVars, Stopping
<1>3. RestartProgress'
  BY <1>1 DEF RestartProgress
<1>4. StopProgress'
  BY <1>1, Indexed DEF Inv, CloseStorage, StopProgress
<1>5. QED  BY <1>2, <1>3, <1>4 DEF Inv

-----------------------------------------------------------------------------
LEMMA Inductive == Inv /\ [Next]_vars => Inv'
<1> SUFFICES ASSUME Inv, [Next]_vars PROVE Inv'
  OBVIOUS
<1>1. CASE Edit
  BY <1>1, EditKeeps
<1>2. CASE Watcher
  BY <1>2, LookKeeps, ReadKeeps, LoadRaisesKeeps, StopNextKeeps, StartNextKeeps
  DEF Watcher
<1>3. CASE Stop
  BY <1>3, StopKeeps
<1>4. CASE Shutdown
  BY <1>4, CancelKeeps, SwallowKeeps, AwaitedKeeps, ShutDownKeeps, CloseKeeps
  DEF Shutdown
<1>5. CASE UNCHANGED vars
  BY <1>5
  DEF vars, fileVars, Inv, TypeOK, RestartProgress, StopProgress, Wanted
<1>6. QED  BY <1>1, <1>2, <1>3, <1>4, <1>5 DEF Next

LEMMA Invariant == Spec => []Inv
BY InitInv, Inductive, PTL DEF Spec

\* The variables keep their types.
THEOREM ReloadTypeCorrect == Spec => []TypeOK
<1>1. Inv => TypeOK  BY DEF Inv
<1>2. QED  BY <1>1, Invariant, PTL

\* A reload takes effect: whenever the watcher waits again, exactly the enabled
\* collectors are running, each once (runtime.py:363-398).
THEOREM ReloadWorks == Spec => []ReloadTakesEffect
<1>1. Inv => ReloadTakesEffect
  BY DEF Inv, RestartProgress, ReloadTakesEffect, Idle, Wanted
<1>2. QED  BY <1>1, Invariant, PTL

\* A stopped runtime leaves no collector running, wherever the stop caught the
\* watcher (runtime.py:252-276).
THEOREM StopIsComplete == Spec => []NothingRunsAfterStop
<1>1. Inv => NothingRunsAfterStop
  BY DEF Inv, StopProgress, NothingRunsAfterStop
<1>2. QED  BY <1>1, Invariant, PTL
=============================================================================
