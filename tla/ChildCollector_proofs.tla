-------------------------- MODULE ChildCollector_proofs --------------------------
(***************************************************************************)
(* The invariants of ChildCollector for every collector, any number of     *)
(* starts and lines, and faults of every kind.                             *)
(***************************************************************************)
EXTENDS ChildCollector, FiniteSetTheorems, TLAPS

\* What the proofs need to know of a profile.
LEMMA ProfileFacts ==
    ASSUME kind \in Kinds
    PROVE  /\ Tasks \in {<<"reader">>, <<"poller">>, <<"reader", "poller">>,
                         <<"reader", "ftrace", "poller">>}
           /\ profile.start.by \in {"start", "task", "nobody"}
           /\ profile.start.by = "nobody" => Tasks = <<"poller">>
           /\ profile.start.by # "nobody" => Tasks # <<"poller">>
           /\ profile.start.by = "start" => Tasks = <<"reader">>
           /\ kind = "managed" => profile.start.by = "start" /\ profile.reads.fragile = FALSE
           /\ kind = "bcc" => /\ profile.start.by = "task" /\ Tasks = <<"reader">>
                              /\ profile.start.caught = {}
                              /\ profile.reads.fragile = FALSE
                              /\ profile.reads.eof = "never"
           /\ kind # "kernel" => Tasks \in {<<"reader">>, <<"poller">>, <<"reader", "poller">>}
           /\ profile.reads.blocks \in {"no", "strict", "loose"}
<1>1. kind \in AllKinds
  BY ChildAssumption
<1>2. kind \in {"hci", "udev", "journal", "managed", "mgmt", "kernel", "pipewire",
                "pulse", "bpftrace", "bcc", "ubertooth", "blesniffer", "ebpfmock"}
  BY <1>1 DEF AllKinds, Profiles
<1> USE DEF Tasks, profile, Profiles, Profile, InStart, InTask, NoChild, Lines
<1>3. CASE kind = "hci"
  BY <1>3 DEF HciStart, HciReads, HciStop
<1>4. CASE kind = "udev"
  BY <1>4 DEF UdevStart, UdevReads, UdevStop
<1>5. CASE kind = "journal"
  BY <1>5 DEF JournalStart, JournalReads, JournalStop
<1>6. CASE kind = "managed"
  BY <1>6 DEF ManagedStart, ManagedReads, JournalStop
<1>7. CASE kind = "mgmt"
  BY <1>7 DEF MgmtStart, MgmtReads, MgmtStop
<1>8. CASE kind = "kernel"
  BY <1>8 DEF KernelStart, KernelReads, KernelStop
<1>9. CASE kind = "pipewire"
  BY <1>9 DEF PipewireStart, PipewireReads, PipewireStop
<1>10. CASE kind = "pulse"
  BY <1>10 DEF PulseStart, PulseReads, PipewireStop
<1>11. CASE kind = "bpftrace"
  BY <1>11 DEF BpftraceStart, BpftraceReads, EbpfStop
<1>12. CASE kind = "bcc"
  BY <1>12 DEF BccStart, BccReads, EbpfStop
<1>13. CASE kind \in {"ubertooth", "blesniffer", "ebpfmock"}
  BY <1>13 DEF UbertoothStart, UbertoothReads, UbertoothStop, BleSnifferStart,
     BleSnifferReads, BleSnifferStop, EbpfMockStart, EbpfMockReads, EbpfMockStop
<1>14. QED
  BY <1>2, <1>3, <1>4, <1>5, <1>6, <1>7, <1>8, <1>9, <1>10, <1>11, <1>12, <1>13

-----------------------------------------------------------------------------
(***************************************************************************)
(* Types.  Where stage says what it stands at, it is the record of it; a   *)
(* generation that was not started has no task, and none has tasks that    *)
(* its collector does not know; lines the collector cannot choke on are    *)
(* never bad.                                                              *)
(***************************************************************************)
Places == {"none", "created", "reading", "sleeping", "joining", "ended", "raised",
           "cancelled"}
LineKinds == {"head", "more", "other", "long", "bad"}

StageOK ==
    \/ stage \in {Up, Down}
    \/ \E a \in {"asking", "halting", "spawning", "reaping"} : stage = [at |-> a]
    \/ \E i \in DOMAIN Tasks : stage = [at |-> "joining", next |-> i]
    \/ \E e \in {"up", "down"} : stage = [at |-> "restoring", then |-> e]

CallerOK ==
    /\ kind \in Kinds
    /\ StageOK
    /\ stage.at = "joining" => slot[Tasks[stage.next]] # 0
    /\ stage.at = "reaping" => proc # 0
    /\ stage.at \in {"asking", "halting", "spawning"} => generation # 0
    /\ generation \in 0 .. MaxStarts
    /\ proc \in 0 .. generation
    /\ slot \in [TaskNames -> 0 .. generation]

KnownTasks ==
    \A g \in Generations, n \in TaskNames :
       task[g][n] # "none" => g <= generation /\ \E i \in DOMAIN Tasks : Tasks[i] = n

TasksOK ==
    /\ task \in [Generations -> [TaskNames -> Places]]
    /\ child \in [Generations -> [Owners -> {"none", "running", "told", "exited"}]]
    /\ KnownTasks

LinesOK ==
    \A g \in Generations : \A i \in 1 .. Len(printed[g]) :
       /\ printed[g][i] = "bad" => profile.reads.fragile # FALSE
       /\ printed[g][i] = "long" => kind # "bcc"
       /\ profile.reads.blocks = "no" => printed[g][i] \in {"head", "long", "bad"}

OutputOK ==
    /\ printed \in [Generations -> Seq(LineKinds)]
    /\ read \in [Generations -> Nat]
    /\ \A g \in Generations : read[g] <= Len(printed[g])
    /\ LinesOK
    /\ block \in [Generations -> Seq(Nat)]
    /\ events \in [Generations -> Seq(Seq(Nat))]
    /\ noticed \subseteq 1 .. generation

FlagsOK ==
    /\ running \in BOOLEAN /\ final \in BOOLEAN /\ wasActive \in BOOLEAN
    /\ botched \in BOOLEAN /\ late \in BOOLEAN
    /\ service \in {"active", "inactive", "none"}
    /\ faults \subseteq FaultKinds

TypeInv == CallerOK /\ TasksOK /\ OutputOK /\ FlagsOK

\* The names of the tasks and where they stand in the order of stop.
LEMMA TaskOrder ==
    ASSUME kind \in Kinds
    PROVE  /\ Len(Tasks) \in 1 .. 3 /\ DOMAIN Tasks = 1 .. Len(Tasks)
           /\ \A i \in 1 .. Len(Tasks) : Tasks[i] \in TaskNames
           /\ \A i, j \in 1 .. Len(Tasks) : Tasks[i] = Tasks[j] => i = j
<1>1. Tasks \in {<<"reader">>, <<"poller">>, <<"reader", "poller">>,
                 <<"reader", "ftrace", "poller">>}
  BY ProfileFacts
<1>2. CASE Tasks = <<"reader">>
  BY <1>2 DEF TaskNames
<1>3. CASE Tasks = <<"poller">>
  BY <1>3 DEF TaskNames
<1>4. CASE Tasks = <<"reader", "poller">>
  BY <1>4 DEF TaskNames
<1>5. CASE Tasks = <<"reader", "ftrace", "poller">>
  BY <1>5 DEF TaskNames
<1>6. QED  BY <1>1, <1>2, <1>3, <1>4, <1>5

\* A stage that stands somewhere is the record for it.
LEMMA StageIs ==
    ASSUME StageOK
    PROVE  /\ stage = Up <=> stage.at = "up"
           /\ stage = Down <=> stage.at = "down"
           /\ stage.at = "joining" => /\ stage.next \in DOMAIN Tasks
                                      /\ stage = [at |-> "joining", next |-> stage.next]
           /\ stage.at = "restoring" => /\ stage.then \in {"up", "down"}
                                        /\ stage = [at |-> "restoring", then |-> stage.then]
           /\ stage.at \in {"up", "down", "asking", "halting", "spawning", "joining",
                            "reaping", "restoring"}
BY DEF StageOK, Up, Down

\* What stop does next: it cancels the next task it has, or it has none left.
LEMMA CancelFromCases ==
    ASSUME kind \in Kinds, NEW i \in Nat \ {0}, NEW slots, CancelFrom(i, slots)
    PROVE  \/ \E m \in i .. Len(Tasks) :
                 /\ slots[Tasks[m]] # 0
                 /\ \A j \in i .. m - 1 : slots[Tasks[j]] = 0
                 /\ task' = [task EXCEPT ![slots[Tasks[m]]][Tasks[m]] = Cancelled(@)]
                 /\ stage' = [at |-> "joining", next |-> m]
                 /\ child' = child
           \/ /\ \A j \in i .. Len(Tasks) : slots[Tasks[j]] = 0
              /\ stage' = IF proc # 0 THEN [at |-> "reaping"] ELSE RestoreOr("down")
              /\ child' = IF proc # 0 /\ child[proc]["reader"] = "running"
                          THEN [child EXCEPT ![proc]["reader"] = "told"] ELSE child
              /\ task' = task
<1> DEFINE left == {j \in i .. Len(Tasks) : slots[Tasks[j]] # 0}
           next == CHOOSE j \in left : \A k \in left : j <= k
<1>1. Len(Tasks) \in 1 .. 3
  BY TaskOrder
<1>2. CASE left = {}
  BY <1>2 DEF CancelFrom
<1>3. CASE left # {}
  <2>1. \E j \in left : \A k \in left : j <= k
    <3>1. left \subseteq {1, 2, 3}
      BY <1>1
    <3>2. QED  BY <1>3, <3>1
  <2>2. next \in left /\ \A k \in left : next <= k
    BY <2>1
  <2>3. /\ task' = [task EXCEPT ![slots[Tasks[next]]][Tasks[next]] = Cancelled(@)]
        /\ stage' = [at |-> "joining", next |-> next]
        /\ child' = child
    BY <1>3 DEF CancelFrom
  <2> HIDE DEF next
  <2>4. /\ next \in i .. Len(Tasks) /\ slots[Tasks[next]] # 0
        /\ \A j \in i .. next - 1 : slots[Tasks[j]] = 0
    BY <1>1, <2>2
  <2>5. QED  BY <2>3, <2>4
<1>4. QED  BY <1>2, <1>3

-----------------------------------------------------------------------------
\* One task of one generation moves.
LEMMA OneTask ==
    ASSUME NEW old \in [Generations -> [TaskNames -> Places]],
           NEW g \in Generations, NEW n \in TaskNames, NEW x \in Places, NEW new,
           new = [old EXCEPT ![g] = [old[g] EXCEPT ![n] = x]]
    PROVE  /\ new \in [Generations -> [TaskNames -> Places]]
           /\ new[g][n] = x
           /\ \A h \in Generations, l \in TaskNames :
                 h # g \/ l # n => new[h][l] = old[h][l]
OBVIOUS

\* What stop leaves is typed.
LEMMA CancelledTypes ==
    ASSUME NEW at \in Places
    PROVE  Cancelled(at) \in {"none", "ended", "raised", "cancelled", "joining"}
BY DEF Cancelled, Places

LEMMA CancelFromTypes ==
    ASSUME TypeInv, NEW i \in Nat \ {0}, NEW slots \in [TaskNames -> 0 .. generation],
           CancelFrom(i, slots), slot' = slots,
           UNCHANGED <<kind, generation, proc>>
    PROVE  CallerOK' /\ TasksOK'
<1>1. /\ kind \in Kinds /\ generation \in Nat /\ generation <= MaxStarts
      /\ proc \in 0 .. generation /\ MaxStarts \in Nat
      /\ Tasks' = Tasks
  BY ChildAssumption DEF TypeInv, CallerOK, Tasks, profile
<1>2. ASSUME NEW m \in i .. Len(Tasks),
             slots[Tasks[m]] # 0,
             task' = [task EXCEPT ![slots[Tasks[m]]][Tasks[m]] = Cancelled(@)],
             stage' = [at |-> "joining", next |-> m],
             child' = child
      PROVE  CallerOK' /\ TasksOK'
  <2> DEFINE n == Tasks[m]
             g == slots[n]
  <2>1. m \in DOMAIN Tasks /\ n \in TaskNames
    BY <1>1, TaskOrder
  <2>2. g \in Generations /\ g <= generation
    BY <1>1, <1>2, <2>1 DEF Generations
  <2>3. Cancelled(task[g][n]) \in Places
    <3>1. task \in [Generations -> [TaskNames -> Places]]
      BY DEF TypeInv, TasksOK
    <3> HIDE DEF n, g
    <3>2. task[g][n] \in Places
      BY <2>1, <2>2, <3>1
    <3>3. QED  BY <3>2, CancelledTypes DEF Places
  <2>4. task' = [task EXCEPT ![g] = [task[g] EXCEPT ![n] = Cancelled(task[g][n])]]
    BY <1>2
  <2>5. TasksOK'
    <3> HIDE DEF g
    <3>0. task \in [Generations -> [TaskNames -> Places]]
      BY DEF TypeInv, TasksOK
    <3>1. /\ task' \in [Generations -> [TaskNames -> Places]]
          /\ \A h \in Generations, l \in TaskNames :
                h # g \/ l # n => task'[h][l] = task[h][l]
      <4> HIDE DEF n
      <4>1. QED  BY <2>1, <2>2, <2>3, <2>4, <3>0, OneTask
    <3>4. \A h \in Generations, l \in TaskNames : task'[h][l] # "none" =>
             h <= generation' /\ \E j \in DOMAIN Tasks' : Tasks'[j] = l
      BY <1>1, <2>1, <2>2, <3>1 DEF TypeInv, TasksOK, KnownTasks
    <3>5. QED  BY <1>2, <3>1, <3>4 DEF TypeInv, TasksOK, KnownTasks
  <2>6. StageOK'
    BY <1>1, <1>2, <2>1 DEF StageOK
  <2>7. stage'.at = "joining" /\ stage'.next = m
    BY <1>2
  <2>8. CallerOK'
    BY <1>1, <1>2, <2>6, <2>7 DEF TypeInv, CallerOK
  <2>9. QED  BY <2>5, <2>8
<1>3. ASSUME stage' = IF proc # 0 THEN [at |-> "reaping"] ELSE RestoreOr("down"),
             child' = IF proc # 0 /\ child[proc]["reader"] = "running"
                      THEN [child EXCEPT ![proc]["reader"] = "told"] ELSE child,
             task' = task
      PROVE  CallerOK' /\ TasksOK'
  <2>1. /\ stage'.at \in {"reaping", "restoring", "down"} /\ StageOK'
        /\ stage'.at = "reaping" => proc # 0
    BY <1>3 DEF RestoreOr, StageOK, Down
  <2>2. CallerOK'
    BY <1>1, <2>1 DEF TypeInv, CallerOK
  <2>3. child' \in [Generations -> [Owners -> {"none", "running", "told", "exited"}]]
    <3>1. CASE proc # 0 /\ child[proc]["reader"] = "running"
      <4>1. proc \in Generations
        BY <1>1, <3>1 DEF Generations
      <4>2. QED  BY <1>3, <3>1, <4>1 DEF TypeInv, TasksOK, Owners
    <3>2. QED  BY <1>3, <3>1 DEF TypeInv, TasksOK
  <2>4. TasksOK'
    BY <1>1, <1>3, <2>3 DEF TypeInv, TasksOK, KnownTasks
  <2>5. QED  BY <2>2, <2>4
<1>4. QED  BY <1>1, <1>2, <1>3, CancelFromCases

\* Launched: the tasks of a new generation.
LEMMA LaunchedTypes ==
    ASSUME TypeInv, NEW g \in Generations, Launched(g), kind' = kind,
           generation' \in 0 .. MaxStarts, generation <= generation', g = generation',
           proc' \in 0 .. generation',
           child' \in [Generations -> [Owners -> {"none", "running", "told", "exited"}]]
    PROVE  CallerOK' /\ TasksOK' /\ running' \in BOOLEAN
<1> DEFINE N == {n \in TaskNames : \E i \in DOMAIN Tasks : Tasks[i] = n}
<1>1. /\ running' = TRUE
      /\ slot' = [n \in TaskNames |-> IF n \in N THEN g ELSE slot[n]]
      /\ task' = [task EXCEPT ![g] = [n \in TaskNames |->
                      IF n \in N THEN "created" ELSE task[g][n]]]
      /\ stage' = Up
  BY DEF Launched
<1> HIDE DEF N
<1>2. kind \in Kinds /\ generation \in Nat /\ generation' \in Nat /\ MaxStarts \in Nat
  BY ChildAssumption DEF TypeInv, CallerOK
<1>3. slot' \in [TaskNames -> 0 .. generation']
  BY <1>1, <1>2 DEF TypeInv, CallerOK
<1>4. StageOK' /\ stage'.at = "up"
  BY <1>1 DEF StageOK, Up
<1>5. CallerOK'
  BY <1>2, <1>3, <1>4 DEF CallerOK
<1>6. [n \in TaskNames |-> IF n \in N THEN "created" ELSE task[g][n]]
         \in [TaskNames -> Places]
  BY DEF TypeInv, TasksOK, Places
<1>7. task' \in [Generations -> [TaskNames -> Places]]
  BY <1>1, <1>6 DEF TypeInv, TasksOK
<1>8. \A h \in Generations, n \in TaskNames :
         task'[h][n] # "none" => task[h][n] # "none" \/ (h = g /\ n \in N)
  <2>1. task \in [Generations -> [TaskNames -> Places]]
    BY DEF TypeInv, TasksOK
  <2>2. \A n \in TaskNames : task'[g][n] = IF n \in N THEN "created" ELSE task[g][n]
    BY <1>1, <2>1
  <2>3. \A h \in Generations : h # g => task'[h] = task[h]
    BY <1>1, <2>1
  <2>4. TAKE h \in Generations, n \in TaskNames
  <2>5. CASE h = g
    BY <2>2, <2>5
  <2>6. CASE h # g
    BY <2>3, <2>6
  <2>7. QED  BY <2>5, <2>6
<1>10. \A h \in Generations, n \in TaskNames : task'[h][n] # "none" =>
          h <= generation' /\ \E i \in DOMAIN Tasks' : Tasks'[i] = n
  <2>1. Tasks' = Tasks
    BY DEF Tasks, profile
  <2>2. \A n \in N : \E i \in DOMAIN Tasks : Tasks[i] = n
    BY DEF N
  <2>3. QED  BY <1>2, <1>8, <2>1, <2>2 DEF TypeInv, TasksOK, KnownTasks
<1>9. QED  BY <1>1, <1>5, <1>7, <1>10 DEF TasksOK, KnownTasks

\* What the caller does.
LEMMA CallerTypes ==
    ASSUME TypeInv, Start \/ Stop \/ CancelCaller \/ CallerSteps
    PROVE  TypeInv'
<1>1. /\ kind \in Kinds /\ generation \in Nat /\ generation <= MaxStarts
      /\ proc \in 0 .. generation /\ MaxStarts \in Nat
      /\ slot \in [TaskNames -> 0 .. generation]
      /\ CallerOK /\ TasksOK /\ OutputOK /\ FlagsOK
  BY ChildAssumption DEF TypeInv, CallerOK
<1>2. /\ stage.at = "joining" => stage.next \in DOMAIN Tasks
      /\ stage.at = "restoring" => stage.then \in {"up", "down"}
  BY StageIs DEF CallerOK, TypeInv
\* Steps that leave the tasks and the output alone.
<1>3. ASSUME UNCHANGED <<kind, generation, task, slot, outputVars>>,
             \/ stage' = stage
             \/ stage'.at \in {"up", "down", "asking", "halting", "spawning", "restoring"},
             stage'.at \in {"asking", "halting", "spawning"} => generation # 0,
             StageOK', proc' \in {proc, 0}, stage' = stage => proc' = proc,
             FlagsOK',
             child' = child
      PROVE  TypeInv'
  <2>1. Tasks' = Tasks
    BY <1>3 DEF Tasks, profile
  <2>2. CallerOK'
    BY <1>1, <1>3, <2>1 DEF CallerOK
  <2>3. TasksOK' /\ OutputOK'
    BY <1>1, <1>3, <2>1 DEF TasksOK, KnownTasks, OutputOK, LinesOK, profile, outputVars
  <2>4. QED  BY <1>3, <2>2, <2>3 DEF TypeInv
<1>4. CASE Start
  <2>1. /\ generation < MaxStarts /\ generation' = generation + 1
        /\ UNCHANGED <<kind, final, child, outputVars, serviceVars, botched, faults>>
    BY <1>4 DEF Start
  <2>2. /\ generation' \in 0 .. MaxStarts /\ generation <= generation'
        /\ generation' \in Generations /\ generation' # 0
    BY <1>1, <2>1 DEF Generations
  <2>3. OutputOK'
    <3>1. LinesOK'
      BY <1>1, <2>1 DEF OutputOK, LinesOK, profile, outputVars
    <3>2. noticed' \subseteq 1 .. generation'
      BY <1>1, <2>1, <2>2 DEF OutputOK, outputVars
    <3>3. QED  BY <1>1, <2>1, <3>1, <3>2 DEF OutputOK, outputVars
  <2>4. CASE stage'.at \in {"asking", "spawning"} /\ StageOK' /\ UNCHANGED <<selfVars, task>>
    <3>1. CallerOK'
      BY <1>1, <2>1, <2>2, <2>4 DEF CallerOK, selfVars
    <3>2. TasksOK'
      <4>1. KnownTasks'
        BY <1>1, <2>1, <2>2, <2>4 DEF TasksOK, KnownTasks, Tasks, profile
      <4>2. QED  BY <1>1, <2>1, <2>4, <4>1 DEF TasksOK
    <3>3. FlagsOK'
      BY <1>1, <2>1, <2>4 DEF FlagsOK, selfVars, outputVars, serviceVars
    <3>4. QED  BY <2>3, <3>1, <3>2, <3>3 DEF TypeInv
  <2>5. CASE Launched(generation + 1) /\ proc' = proc
    <3>1. proc' \in 0 .. generation'
      BY <1>1, <2>1, <2>5
    <3>2. CallerOK' /\ TasksOK' /\ running' \in BOOLEAN
      BY <1>1, <2>1, <2>2, <2>5, <3>1, LaunchedTypes DEF TasksOK
    <3>3. FlagsOK'
      BY <1>1, <2>1, <3>2 DEF FlagsOK, outputVars, serviceVars
    <3>4. QED  BY <2>3, <3>2, <3>3 DEF TypeInv
  <2>6. QED  BY <1>4, <2>4, <2>5 DEF Start, StageOK
<1>5. CASE Ask
  <2>1. /\ stage' \in {[at |-> "halting"], [at |-> "spawning"], Up}
        /\ stage.at = "asking" /\ wasActive' \in BOOLEAN /\ faults' \subseteq FaultKinds
        /\ UNCHANGED <<kind, final, generation, selfVars, task, child, outputVars,
                       service, found, botched>>
    BY <1>1, <1>5 DEF Ask, Fault, FlagsOK
  <2>2. StageOK' /\ stage'.at \in {"up", "halting", "spawning"} /\ generation # 0
    BY <1>1, <2>1 DEF StageOK, Up, CallerOK
  <2>3. FlagsOK'
    BY <1>1, <2>1 DEF FlagsOK, selfVars, outputVars
  <2>4. QED  BY <1>3, <2>1, <2>2, <2>3 DEF selfVars
<1>6. CASE Halt
  <2>1. /\ stage' \in {[at |-> "spawning"], Up}
        /\ stage.at = "halting" /\ service' \in {"inactive", service}
        /\ faults' \subseteq FaultKinds
        /\ UNCHANGED <<kind, final, generation, selfVars, task, child, outputVars,
                       found, wasActive, botched>>
    BY <1>1, <1>6 DEF Halt, Fault, FlagsOK
  <2>2. StageOK' /\ stage'.at \in {"up", "spawning"} /\ generation # 0
    BY <1>1, <2>1 DEF StageOK, Up, CallerOK
  <2>3. FlagsOK'
    BY <1>1, <2>1 DEF FlagsOK, selfVars, outputVars
  <2>4. QED  BY <1>3, <2>1, <2>2, <2>3 DEF selfVars
<1>7. CASE Spawn
  <2>1. /\ stage.at = "spawning" /\ generation \in Generations
        /\ UNCHANGED <<kind, final, generation, outputVars, serviceVars, botched>>
    BY <1>1, <1>7 DEF Spawn, CallerOK, Generations
  <2>2. CASE /\ child' = [child EXCEPT ![generation]["reader"] = "running"]
             /\ proc' = generation /\ Launched(generation) /\ faults' = faults
    <3>1. child' \in [Generations -> [Owners -> {"none", "running", "told", "exited"}]]
      BY <1>1, <2>1, <2>2 DEF TasksOK, Owners
    <3>2. CallerOK' /\ TasksOK' /\ running' \in BOOLEAN
      BY <1>1, <2>1, <2>2, <3>1, LaunchedTypes
    <3>3. OutputOK' /\ FlagsOK'
      BY <1>1, <2>1, <2>2, <3>2 DEF OutputOK, LinesOK, FlagsOK, profile, outputVars, serviceVars
    <3>4. QED  BY <3>2, <3>3 DEF TypeInv
  <2>3. CASE /\ Fault("spawn") /\ UNCHANGED <<selfVars, task, child>>
             /\ stage' = IF kind = "managed" /\ wasActive
                         THEN [at |-> "restoring", then |-> "up"] ELSE Up
    <3>1. StageOK' /\ stage'.at \in {"up", "restoring"}
      BY <2>3 DEF StageOK, Up
    <3>2. FlagsOK'
      BY <1>1, <2>1, <2>3 DEF FlagsOK, Fault, selfVars, outputVars, serviceVars
    <3>3. QED  BY <1>3, <2>1, <2>3, <3>1, <3>2 DEF selfVars
  <2>4. QED  BY <1>7, <2>2, <2>3 DEF Spawn
<1>8. CASE Stop
  <2>1. /\ running' = FALSE /\ final' \in BOOLEAN /\ CancelFrom(1, slot)
        /\ UNCHANGED <<kind, generation, slot, proc, outputVars, serviceVars, botched,
                       faults>>
    BY <1>1, <1>8 DEF Stop, FlagsOK
  <2>2. CallerOK' /\ TasksOK'
    BY <1>1, <2>1, CancelFromTypes
  <2>3. OutputOK' /\ FlagsOK'
    BY <1>1, <2>1 DEF OutputOK, LinesOK, FlagsOK, profile, outputVars, serviceVars
  <2>4. QED  BY <2>2, <2>3 DEF TypeInv
<1>9. CASE Join
  <2> DEFINE name == Tasks[stage.next]
             freed == [slot EXCEPT ![name] = 0]
  <2>1. /\ stage.at = "joining"
        /\ UNCHANGED <<kind, final, generation, running, proc, outputVars, serviceVars,
                       faults>>
        /\ \/ /\ slot' = freed /\ CancelFrom(stage.next + 1, freed) /\ botched' = botched
           \/ stage' = Down /\ botched' = TRUE /\ UNCHANGED <<slot, task, child>>
    BY <1>9 DEF Join
  <2>2. OutputOK' /\ FlagsOK'
    BY <1>1, <2>1 DEF OutputOK, LinesOK, FlagsOK, profile, outputVars, serviceVars
  <2>3. CASE slot' = freed /\ CancelFrom(stage.next + 1, freed)
    <3>1. freed \in [TaskNames -> 0 .. generation]
      <4>1. 0 \in 0 .. generation
        BY <1>1
      <4> HIDE DEF name
      <4>2. QED  BY <1>1, <4>1
    <3>2. stage.next + 1 \in Nat \ {0}
      BY <1>1, <1>2, <2>1, TaskOrder
    <3> HIDE DEF freed
    <3>3. CallerOK' /\ TasksOK'
      BY <2>1, <2>3, <3>1, <3>2, CancelFromTypes
    <3>4. QED  BY <2>2, <3>3 DEF TypeInv
  <2>4. CASE stage' = Down /\ UNCHANGED <<slot, task, child>>
    <3>1. StageOK' /\ stage'.at = "down"
      BY <2>4 DEF StageOK, Down
    <3>2. QED  BY <1>3, <2>1, <2>2, <2>4, <3>1
  <2>5. QED  BY <2>1, <2>3, <2>4
<1>10. CASE Reap
  <2>1. /\ proc' = 0 /\ stage' = RestoreOr("down") /\ faults' \subseteq FaultKinds
        /\ stage.at = "reaping"
        /\ UNCHANGED <<kind, final, generation, running, slot, task, child, outputVars,
                       serviceVars, botched>>
    BY <1>1, <1>10 DEF Reap, Fault, FlagsOK
  <2>2. StageOK' /\ stage'.at \in {"restoring", "down"} /\ stage' # stage
    BY <2>1 DEF StageOK, RestoreOr, Down
  <2>3. FlagsOK'
    BY <1>1, <2>1 DEF FlagsOK, outputVars, serviceVars
  <2>4. QED  BY <1>3, <2>1, <2>2, <2>3
<1>11. CASE Restore
  <2>1. /\ stage.at = "restoring" /\ stage' = [at |-> stage.then]
        /\ service' \in {"active", service} /\ faults' \subseteq FaultKinds
        /\ UNCHANGED <<kind, final, generation, selfVars, task, child, outputVars,
                       found, wasActive, botched>>
    BY <1>1, <1>11 DEF Restore, Fault, FlagsOK
  <2>2. StageOK' /\ stage'.at \in {"up", "down"}
    BY <1>2, <2>1 DEF StageOK, Up, Down
  <2>3. FlagsOK'
    BY <1>1, <2>1 DEF FlagsOK, selfVars, outputVars
  <2>4. QED  BY <1>3, <2>1, <2>2, <2>3 DEF selfVars
<1>12. CASE CancelCaller
  <2>1. /\ faults' \subseteq FaultKinds
        /\ UNCHANGED <<kind, generation, selfVars, child, outputVars, found, wasActive,
                       botched>>
    BY <1>1, <1>12 DEF CancelCaller, Fault, FlagsOK
  <2>2. CASE stage.at = "joining"
    <3> DEFINE name == Tasks[stage.next]
               g == slot[name]
    <3>1. /\ UNCHANGED <<stage, final, service>>
          /\ task' = [task EXCEPT ![g] = [task[g] EXCEPT ![name] =
                          IF task[g][name] = "joining" THEN "cancelled" ELSE task[g][name]]]
      BY <1>12, <2>2 DEF CancelCaller
    <3>2. /\ name \in TaskNames /\ g # 0 /\ g \in Generations /\ g <= generation
      BY <1>1, <1>2, <2>2, TaskOrder DEF CallerOK, Generations
    <3>3. CallerOK'
      BY <1>1, <2>1, <3>1 DEF CallerOK, StageOK, selfVars, Tasks, profile
    <3> HIDE DEF g, name
    <3>4. /\ task' \in [Generations -> [TaskNames -> Places]]
          /\ \A h \in Generations, l \in TaskNames :
                h # g \/ l # name => task'[h][l] = task[h][l]
      <4>1. task \in [Generations -> [TaskNames -> Places]]
        BY <1>1 DEF TasksOK
      <4>2. (IF task[g][name] = "joining" THEN "cancelled" ELSE task[g][name]) \in Places
        BY <3>2, <4>1 DEF Places
      <4>3. QED  BY <3>1, <3>2, <4>1, <4>2, OneTask
    <3>8. name = Tasks[stage.next] /\ Tasks' = Tasks
      BY <2>1 DEF name, Tasks, profile
    <3>5. TasksOK'
      BY <1>1, <1>2, <2>1, <2>2, <3>2, <3>4, <3>8 DEF TasksOK, KnownTasks
    <3>6. OutputOK' /\ FlagsOK'
      BY <1>1, <2>1, <3>1 DEF OutputOK, LinesOK, FlagsOK, profile, outputVars, selfVars
    <3>7. QED  BY <3>3, <3>5, <3>6 DEF TypeInv
  <2>3. CASE stage.at # "joining"
    <3>1. /\ stage' = Up /\ final' = TRUE /\ task' = task
          /\ service' \in {"inactive", "active", service}
      BY <1>12, <2>3 DEF CancelCaller
    <3>2. StageOK' /\ stage'.at = "up"
      BY <3>1 DEF StageOK, Up
    <3>3. FlagsOK'
      BY <1>1, <2>1, <3>1 DEF FlagsOK, selfVars, outputVars
    <3>4. QED  BY <1>3, <2>1, <3>1, <3>2, <3>3 DEF selfVars
  <2>4. QED  BY <2>2, <2>3
<1>13. QED
  BY <1>4, <1>5, <1>6, <1>7, <1>8, <1>9, <1>10, <1>11, <1>12 DEF CallerSteps

-----------------------------------------------------------------------------
(***************************************************************************)
(* What a step of generation g's tasks does: task n, which was alive,      *)
(* moves to x; a child is started only by a task that had not begun.       *)
(***************************************************************************)
Goals == {"reading", "sleeping", "ended", "raised", "cancelled"}

Moved(g, n, x) ==
    /\ Alive(g, n)
    /\ task' = [task EXCEPT ![g] = [task[g] EXCEPT ![n] = x]]
    /\ x \in {"reading", "sleeping"} => running
    /\ x = "sleeping" => n = "poller"
    /\ IF x = "cancelled"
       THEN task[g][n] = "joining" /\ child[g]["reader"] = "exited"
       ELSE task[g][n] # "joining"
    /\ x = "raised" => kind # "managed" /\ (kind = "bcc" => task[g][n] = "created")
    /\ kind = "bcc" => x # "ended" \/ ~running

ChildStarted(g, n, x) ==
    /\ n \in Owners /\ task[g][n] = "created" /\ x \in {"reading", "ended"}
    /\ \E to \in {"running", "told"} :
          child' = [child EXCEPT ![g] = [child[g] EXCEPT ![n] = to]]
    /\ proc' = IF n = "reader" /\ kind # "bcc" THEN g ELSE proc
    /\ n = "reader" => profile.start.by = "task"

TaskMoves(g) ==
    /\ UNCHANGED <<kind, stage, final, generation, running, slot, printed,
                   serviceVars, botched>>
    /\ late' \in {late, late \/ stage = Down}
    /\ faults \subseteq faults' /\ faults' \subseteq FaultKinds
    /\ \E n \in TaskNames, x \in Goals :
          Moved(g, n, x) /\ (UNCHANGED <<child, proc>> \/ ChildStarted(g, n, x))

LEMMA TaskSteps ==
    ASSUME TypeInv, NEW g \in Generations, ReaderSteps(g) \/ OtherSteps(g)
    PROVE  TaskMoves(g)
<1>1. /\ task \in [Generations -> [TaskNames -> Places]] /\ faults \subseteq FaultKinds
      /\ kind \in Kinds /\ late \in BOOLEAN /\ running \in BOOLEAN
      /\ "reader" \in TaskNames /\ "ftrace" \in TaskNames /\ "poller" \in TaskNames
      /\ "reader" \in Owners /\ "ftrace" \in Owners
  BY DEF TypeInv, TasksOK, CallerOK, FlagsOK, TaskNames, Owners
<1>2. \A n \in TaskNames : task[g][n] # "none" => \E i \in DOMAIN Tasks : Tasks[i] = n
  BY DEF TypeInv, TasksOK, KnownTasks
<1>3. kind \in {"managed", "bcc"} => Tasks = <<"reader">>
  BY <1>1, ProfileFacts
<1>4. kind \in {"managed", "bcc"} => \A n \in TaskNames : task[g][n] # "none" => n = "reader"
  BY <1>2, <1>3
<1>5. CASE ReaderBegins(g)
  <2>1. /\ task[g]["reader"] = "created" /\ profile.start.by = "start"
        /\ UNCHANGED <<kind, stage, final, generation, selfVars, child, outputVars,
                       serviceVars, botched, faults>>
        /\ task' = [task EXCEPT ![g] = [task[g] EXCEPT !["reader"] =
                        IF running THEN "reading" ELSE "ended"]]
    BY <1>5 DEF ReaderBegins
  <2>2. kind # "bcc"
    BY <1>1, <2>1, ProfileFacts
  <2>3. Moved(g, "reader", IF running THEN "reading" ELSE "ended")
    BY <1>1, <2>1, <2>2 DEF Moved, Alive
  <2>4. (IF running THEN "reading" ELSE "ended") \in Goals
    BY DEF Goals
  <2>5. QED  BY <1>1, <2>1, <2>3, <2>4 DEF TaskMoves, selfVars, outputVars
<1>6. CASE ReadLine(g)
  <2> DEFINE line == printed[g][read[g] + 1]
             x == IF line = "long" THEN "ended"
                  ELSE IF line = "bad" THEN "raised"
                  ELSE IF running THEN "reading" ELSE "ended"
  <2>1. /\ task[g]["reader"] = "reading" /\ read[g] < Len(printed[g])
        /\ UNCHANGED <<kind, stage, final, generation, selfVars, child, printed, noticed,
                       serviceVars, botched, faults>>
        /\ late' \in {late, late \/ stage = Down}
    BY <1>6 DEF ReadLine, Publish
  <2>2. /\ line = "bad" => profile.reads.fragile # FALSE
        /\ line = "long" => kind # "bcc"
    <3>1. read[g] + 1 \in 1 .. Len(printed[g])
      BY <2>1 DEF TypeInv, OutputOK
    <3>2. QED  BY <3>1 DEF TypeInv, OutputOK, LinesOK
  <2>3. task' = [task EXCEPT ![g] = [task[g] EXCEPT !["reader"] = x]]
    <3>1. CASE line = "long"
      BY <1>6, <3>1 DEF ReadLine, Leave
    <3>2. CASE line = "bad"
      BY <1>6, <3>2 DEF ReadLine
    <3>3. CASE line \notin {"long", "bad"}
      BY <1>1, <1>6, <2>1, <3>3 DEF ReadLine
    <3>4. QED  BY <3>1, <3>2, <3>3
  <2>4. x \in Goals
    BY DEF Goals
  <2>5. /\ x = "raised" => kind \notin {"managed", "bcc"}
        /\ x = "reading" => running
        /\ kind = "bcc" => x # "ended" \/ ~running
        /\ x \notin {"cancelled", "sleeping"}
    BY <1>1, <2>2, ProfileFacts
  <2> HIDE DEF x
  <2>6. Moved(g, "reader", x)
    BY <1>1, <2>1, <2>3, <2>5 DEF Moved, Alive
  <2>7. QED  BY <1>1, <2>1, <2>4, <2>6 DEF TaskMoves, selfVars
<1>7. CASE ReadEnd(g)
  <2>1. /\ task[g]["reader"] = "reading" /\ profile.reads.eof = "report"
        /\ UNCHANGED <<kind, stage, final, generation, selfVars, child, printed, read,
                       serviceVars, botched, faults>>
        /\ late' = (late \/ stage = Down)
        /\ task' = [task EXCEPT ![g] = [task[g] EXCEPT !["reader"] = "ended"]]
    BY <1>7 DEF ReadEnd, Leave, Publish
  <2>2. kind # "bcc"
    BY <1>1, <2>1, ProfileFacts
  <2>3. Moved(g, "reader", "ended")
    BY <1>1, <2>1, <2>2 DEF Moved, Alive
  <2>4. QED  BY <1>1, <2>1, <2>3 DEF TaskMoves, selfVars, Goals
<1>8. CASE Joined(g)
  <2>1. /\ task[g]["reader"] = "joining" /\ child[g]["reader"] = "exited"
        /\ UNCHANGED <<kind, stage, final, generation, selfVars, child, outputVars,
                       serviceVars, botched, faults>>
        /\ task' = [task EXCEPT ![g] = [task[g] EXCEPT !["reader"] = "cancelled"]]
    BY <1>8 DEF Joined
  <2>2. Moved(g, "reader", "cancelled")
    BY <1>1, <2>1 DEF Moved, Alive
  <2>3. QED  BY <1>1, <2>1, <2>2 DEF TaskMoves, selfVars, outputVars, Goals
<1>9. ASSUME NEW o \in Owners, ChildStarts(g, o)  PROVE TaskMoves(g)
  <2>1. /\ task[g][o] = "created" /\ o \in TaskNames
        /\ o = "ftrace" \/ profile.start.by = "task"
        /\ UNCHANGED <<kind, stage, final, generation, running, slot, printed, read,
                       block, events, noticed, serviceVars, botched>>
        /\ late' \in {late, late \/ stage = Down}
        /\ faults \subseteq faults' /\ faults' \subseteq FaultKinds
    BY <1>1, <1>9 DEF ChildStarts, Publish, Fault, Owners, TaskNames
  <2>2. CASE /\ child' = [child EXCEPT ![g][o] =
                            IF o = "ftrace" /\ ~running THEN "told" ELSE "running"]
             /\ proc' = IF o = "reader" /\ kind # "bcc" THEN g ELSE proc
             /\ task' = [task EXCEPT ![g][o] = IF running THEN "reading" ELSE "ended"]
    <3> DEFINE x == IF running THEN "reading" ELSE "ended"
    <3>1. x \in {"reading", "ended"} /\ (x = "reading" <=> running)
      BY <1>1
    <3>2. task' = [task EXCEPT ![g] = [task[g] EXCEPT ![o] = x]]
      BY <2>2
    <3>3. \E to \in {"running", "told"} :
             child' = [child EXCEPT ![g] = [child[g] EXCEPT ![o] = to]]
      BY <2>2
    <3> HIDE DEF x
    <3>4. Moved(g, o, x)
      BY <1>1, <2>1, <3>1, <3>2 DEF Moved, Alive
    <3>5. o = "reader" => profile.start.by = "task"
      BY <2>1
    <3>6. ChildStarted(g, o, x)
      BY <2>1, <2>2, <3>1, <3>3, <3>5 DEF ChildStarted
    <3>7. x \in Goals
      BY <3>1 DEF Goals
    <3>8. QED  BY <2>1, <3>4, <3>6, <3>7 DEF TaskMoves
  <2>3. CASE \E x \in {"ended", "raised"} :
                /\ task' = [task EXCEPT ![g][o] = x]
                /\ kind = "bcc" /\ o = "reader" => x = "raised"
                /\ UNCHANGED <<child, proc>>
    <3>1. PICK x \in {"ended", "raised"} :
             /\ task' = [task EXCEPT ![g] = [task[g] EXCEPT ![o] = x]]
             /\ kind = "bcc" /\ o = "reader" => x = "raised"
             /\ UNCHANGED <<child, proc>>
      BY <2>3
    <3>2. kind # "managed"
      <4>1. kind = "managed" => o = "reader"
        BY <1>4, <2>1
      <4>2. QED  BY <1>1, <2>1, <4>1, ProfileFacts
    <3>6. kind = "bcc" => x = "raised"
      BY <1>4, <2>1, <3>1
    <3>3. Moved(g, o, x)
      BY <1>1, <2>1, <3>1, <3>2, <3>6 DEF Moved, Alive
    <3>4. x \in Goals
      BY DEF Goals
    <3>5. QED  BY <2>1, <3>1, <3>3, <3>4 DEF TaskMoves
  <2>4. kind = "bcc" => "missing" \notin profile.start.caught
           /\ "denied" \notin profile.start.caught /\ "other" \notin profile.start.caught
    BY ProfileFacts, <1>1
  <2>5. QED  BY <1>9, <2>2, <2>3, <2>4 DEF ChildStarts, Failures
<1>10. CASE FtraceEnds(g)
  <2>1. /\ task[g]["ftrace"] = "reading"
        /\ UNCHANGED <<kind, stage, final, generation, selfVars, child, outputVars,
                       serviceVars, botched, faults>>
        /\ task' = [task EXCEPT ![g] = [task[g] EXCEPT !["ftrace"] = "ended"]]
    BY <1>10 DEF FtraceEnds
  <2>2. kind # "bcc"
    BY <1>1, <1>4, <2>1
  <2>3. Moved(g, "ftrace", "ended")
    BY <1>1, <2>1, <2>2 DEF Moved, Alive
  <2>4. QED  BY <1>1, <2>1, <2>3 DEF TaskMoves, selfVars, outputVars, Goals
<1>11. CASE Poll(g)
  <2>1. /\ task[g]["poller"] \in {"created", "sleeping"}
        /\ UNCHANGED <<kind, stage, final, generation, selfVars, child, printed, read,
                       block, events, noticed, serviceVars, botched>>
        /\ late' \in {late, late \/ stage = Down}
        /\ faults \subseteq faults' /\ faults' \subseteq FaultKinds
    BY <1>1, <1>11 DEF Poll, Publish, Fault
  <2>2. PICK x \in {"sleeping", "ended", "raised"} :
            /\ task' = [task EXCEPT ![g] = [task[g] EXCEPT !["poller"] = x]]
            /\ x = "sleeping" => running
    BY <1>1, <1>11 DEF Poll
  <2>3. kind \notin {"managed", "bcc"}
    BY <1>1, <1>4, <2>1
  <2>4. Moved(g, "poller", x)
    BY <1>1, <2>1, <2>2, <2>3 DEF Moved, Alive
  <2>5. x \in Goals
    BY DEF Goals
  <2>6. QED  BY <1>1, <2>1, <2>4, <2>5 DEF TaskMoves, selfVars
<1>12. QED
  BY <1>1, <1>5, <1>6, <1>7, <1>8, <1>9, <1>10, <1>11 DEF ReaderSteps, OtherSteps

-----------------------------------------------------------------------------
\* The reader's output stays typed.
LEMMA OutputTypes ==
    ASSUME TypeInv, NEW g \in Generations, ReaderSteps(g) \/ OtherSteps(g)
    PROVE  OutputOK'
<1>1. /\ printed \in [Generations -> Seq(LineKinds)] /\ read \in [Generations -> Nat]
      /\ block \in [Generations -> Seq(Nat)] /\ events \in [Generations -> Seq(Seq(Nat))]
      /\ \A h \in Generations : read[h] <= Len(printed[h])
      /\ noticed \subseteq 1 .. generation /\ LinesOK
      /\ generation \in Nat /\ MaxStarts \in Nat
  BY ChildAssumption DEF TypeInv, OutputOK, CallerOK
<1>2. UNCHANGED <<kind, generation, printed>> /\ LinesOK'
  BY <1>1, TaskSteps DEF TaskMoves, LinesOK, profile
\* Steps that read nothing.
<1>3. ASSUME UNCHANGED <<read, block, events, noticed>>  PROVE OutputOK'
  BY <1>1, <1>2, <1>3 DEF OutputOK
<1>4. Flushed(g) \in Seq(Seq(Nat))
  <2>1. events[g] \in Seq(Seq(Nat)) /\ block[g] \in Seq(Nat)
    BY <1>1
  <2>2. QED  BY <2>1 DEF Flushed
<1>5. <<>> \in Seq(Nat) /\ \A n \in Nat : <<n>> \in Seq(Nat)
  OBVIOUS
\* The loop is left.
<1>6. ASSUME Leave(g)
      PROVE  block' \in [Generations -> Seq(Nat)] /\ events' \in [Generations -> Seq(Seq(Nat))]
  BY <1>1, <1>4, <1>5, <1>6 DEF Leave
<1>7. CASE ReadEnd(g)
  <2>1. Leave(g) /\ read' = read /\ noticed' \subseteq noticed \cup {g}
    BY <1>7 DEF ReadEnd
  <2>2. g \in 1 .. generation
    <3>1. task[g]["reader"] = "reading"
      BY <1>7 DEF ReadEnd
    <3>2. g <= generation
      BY <3>1 DEF TypeInv, TasksOK, KnownTasks, TaskNames
    <3>3. QED  BY <1>1, <3>2 DEF Generations
  <2>3. QED  BY <1>1, <1>2, <1>6, <2>1, <2>2 DEF OutputOK
<1>8. CASE ReadLine(g)
  <2> DEFINE n == read[g] + 1
             line == printed[g][n]
  <2>1. /\ read[g] < Len(printed[g]) /\ read' = [read EXCEPT ![g] = n]
        /\ noticed' = noticed
        /\ \/ Leave(g)
           \/ UNCHANGED <<events, block>>
           \/ Take(g, n, line)
    BY <1>8 DEF ReadLine
  <2>2. n \in Nat /\ n <= Len(printed[g])
    <3>1. Len(printed[g]) \in Nat /\ read[g] \in Nat
      BY <1>1
    <3>2. QED  BY <2>1, <3>1
  <2> HIDE DEF n
  <2>3. /\ read' \in [Generations -> Nat]
        /\ \A h \in Generations : read'[h] <= Len(printed[h])
    BY <1>1, <2>1, <2>2
  <2>4. ASSUME Take(g, n, line)
        PROVE  block' \in [Generations -> Seq(Nat)] /\ events' \in [Generations -> Seq(Seq(Nat))]
    <3> HIDE DEF line
    <3>1. /\ events' \in {events, [events EXCEPT ![g] = Append(events[g], <<n>>)],
                          [events EXCEPT ![g] = Flushed(g)]}
          /\ block' \in {block, [block EXCEPT ![g] = <<n>>], [block EXCEPT ![g] = <<>>],
                         [block EXCEPT ![g] = Append(block[g], n)]}
      BY <2>4 DEF Take
    <3>2. Append(events[g], <<n>>) \in Seq(Seq(Nat))
      <4>1. events[g] \in Seq(Seq(Nat)) /\ <<n>> \in Seq(Nat)
        BY <1>1, <2>2
      <4>2. QED  BY <4>1
    <3>3. Append(block[g], n) \in Seq(Nat) /\ <<n>> \in Seq(Nat)
      BY <1>1, <2>2
    <3>4. QED  BY <1>1, <1>4, <1>5, <3>1, <3>2, <3>3
  <2>5. QED  BY <1>1, <1>2, <1>6, <2>1, <2>3, <2>4 DEF OutputOK
<1>9. QED
  BY <1>3, <1>7, <1>8
  DEF ReaderSteps, OtherSteps, ReaderBegins, Joined, ChildStarts, FtraceEnds, Poll,
      outputVars

LEMMA TaskTypes ==
    ASSUME TypeInv, NEW g \in Generations, ReaderSteps(g) \/ OtherSteps(g)
    PROVE  TypeInv'
<1>1. TaskMoves(g) /\ OutputOK'
  BY TaskSteps, OutputTypes
<1>2. /\ UNCHANGED <<kind, stage, final, generation, running, slot, serviceVars, botched>>
      /\ Tasks' = Tasks
  BY <1>1 DEF TaskMoves, Tasks, profile
<1>3. PICK n \in TaskNames, x \in Goals :
         Moved(g, n, x) /\ (UNCHANGED <<child, proc>> \/ ChildStarted(g, n, x))
  BY <1>1 DEF TaskMoves
<1>4. /\ task \in [Generations -> [TaskNames -> Places]] /\ KnownTasks
      /\ child \in [Generations -> [Owners -> {"none", "running", "told", "exited"}]]
      /\ generation \in Nat /\ proc \in 0 .. generation
  BY ChildAssumption DEF TypeInv, TasksOK, CallerOK
<1>5. /\ task[g][n] # "none" /\ x \in Places
      /\ task' = [task EXCEPT ![g] = [task[g] EXCEPT ![n] = x]]
  BY <1>3 DEF Moved, Alive, Goals, Places
<1>6. /\ task' \in [Generations -> [TaskNames -> Places]]
      /\ \A h \in Generations, l \in TaskNames : h # g \/ l # n => task'[h][l] = task[h][l]
  BY <1>3, <1>4, <1>5, OneTask
<1>7. KnownTasks'
  BY <1>2, <1>4, <1>5, <1>6 DEF KnownTasks
<1>8. g \in 1 .. generation
  BY <1>4, <1>5 DEF KnownTasks, Generations
<1>9. proc' \in {proc, g}
  BY <1>3 DEF ChildStarted
<1>10. child' \in [Generations -> [Owners -> {"none", "running", "told", "exited"}]]
  <2>1. CASE UNCHANGED <<child, proc>>
    BY <1>4, <2>1
  <2>2. CASE ChildStarted(g, n, x)
    <3>1. PICK to \in {"running", "told"} :
             child' = [child EXCEPT ![g] = [child[g] EXCEPT ![n] = to]]
      BY <2>2 DEF ChildStarted
    <3>2. QED  BY <1>4, <3>1
  <2>3. QED  BY <1>3, <2>1, <2>2
<1>11. CallerOK'
  <2>1. StageOK' /\ proc' \in 0 .. generation /\ (proc # 0 => proc' # 0)
    BY <1>2, <1>4, <1>8, <1>9 DEF TypeInv, CallerOK, StageOK
  <2>2. QED  BY <1>2, <2>1 DEF TypeInv, CallerOK
<1>12. FlagsOK'
  BY <1>1, <1>2 DEF TaskMoves, TypeInv, FlagsOK, serviceVars
<1>13. QED  BY <1>1, <1>6, <1>7, <1>10, <1>11, <1>12 DEF TypeInv, TasksOK

\* The children.
LEMMA ChildTypes ==
    ASSUME TypeInv, NEW g \in Generations, Prints(g) \/ \E o \in Owners : Exits(g, o)
    PROVE  TypeInv'
<1>1. /\ kind \in Kinds /\ printed \in [Generations -> Seq(LineKinds)] /\ OutputOK /\ LinesOK
      /\ child \in [Generations -> [Owners -> {"none", "running", "told", "exited"}]]
      /\ CallerOK /\ TasksOK /\ FlagsOK /\ read \in [Generations -> Nat]
  BY DEF TypeInv, CallerOK, OutputOK, TasksOK
<1>2. CASE Prints(g)
  <2>1. /\ UNCHANGED <<kind, stage, final, generation, selfVars, task, child, read, block,
                       events, noticed, late, serviceVars, botched>>
        /\ faults' \subseteq FaultKinds
    BY <1>1, <1>2 DEF Prints, Fault, FlagsOK
  <2>2. PICK line \in LineKinds :
           /\ printed' = [printed EXCEPT ![g] = Append(printed[g], line)]
           /\ line = "bad" => profile.reads.fragile # FALSE
           /\ line = "long" => kind # "bcc"
           /\ profile.reads.blocks = "no" => line \in {"head", "long", "bad"}
    BY <1>2 DEF Prints, LineKinds
  <2>3. /\ printed[g] \in Seq(LineKinds) /\ Append(printed[g], line) \in Seq(LineKinds)
        /\ Len(Append(printed[g], line)) = Len(printed[g]) + 1
        /\ Append(printed[g], line)[Len(printed[g]) + 1] = line
        /\ \A i \in 1 .. Len(printed[g]) : Append(printed[g], line)[i] = printed[g][i]
    BY <1>1
  <2>4. printed' \in [Generations -> Seq(LineKinds)]
    BY <1>1, <2>2, <2>3
  <2>5. /\ printed'[g] = Append(printed[g], line)
        /\ \A h \in Generations : h # g => printed'[h] = printed[h]
    BY <1>1, <2>2
  <2>6. LinesOK'
    <3>1. profile' = profile /\ kind' = kind
      BY <2>1 DEF profile
    <3>2. SUFFICES ASSUME NEW h \in Generations, NEW i \in 1 .. Len(printed'[h])
                   PROVE  /\ printed'[h][i] = "bad" => profile.reads.fragile # FALSE
                          /\ printed'[h][i] = "long" => kind # "bcc"
                          /\ profile.reads.blocks = "no"
                                => printed'[h][i] \in {"head", "long", "bad"}
      BY <3>1 DEF LinesOK
    <3>3. CASE i \in 1 .. Len(printed[h]) /\ printed'[h][i] = printed[h][i]
      BY <1>1, <3>3 DEF LinesOK
    <3>4. CASE printed'[h][i] = line
      BY <2>2, <3>4
    <3>5. QED
      <4>1. Len(printed[g]) \in Nat
        BY <2>3
      <4>2. CASE h = g
        <5>1. i \in 1 .. Len(printed[g]) \/ i = Len(printed[g]) + 1
          BY <2>3, <2>5, <3>2, <4>1, <4>2
        <5>2. CASE i \in 1 .. Len(printed[g])
          BY <2>3, <2>5, <3>3, <4>2, <5>2
        <5>3. CASE i = Len(printed[g]) + 1
          BY <2>3, <2>5, <3>4, <4>2, <5>3
        <5>4. QED  BY <5>1, <5>2, <5>3
      <4>3. CASE h # g
        BY <2>5, <3>3, <4>3
      <4>4. QED  BY <4>2, <4>3
  <2>7. \A h \in Generations : read'[h] <= Len(printed'[h])
    <3>1. \A h \in Generations : read[h] <= Len(printed[h]) /\ Len(printed[h]) \in Nat
      BY <1>1 DEF OutputOK
    <3>2. read' = read
      BY <2>1
    <3>3. read[g] <= Len(printed'[g])
      BY <1>1, <2>3, <2>5, <3>1
    <3>4. QED  BY <2>5, <3>1, <3>2, <3>3
  <2>8. OutputOK'
    BY <1>1, <2>1, <2>4, <2>6, <2>7 DEF OutputOK
  <2>9. Tasks' = Tasks
    BY <2>1 DEF Tasks, profile
  <2>10. CallerOK' /\ TasksOK' /\ FlagsOK'
    BY <1>1, <2>1, <2>9
    DEF CallerOK, StageOK, TasksOK, KnownTasks, FlagsOK, selfVars, serviceVars
  <2>11. QED  BY <2>8, <2>10 DEF TypeInv
<1>3. ASSUME NEW o \in Owners, Exits(g, o)  PROVE TypeInv'
  <2>1. /\ child' = [child EXCEPT ![g] = [child[g] EXCEPT ![o] = "exited"]]
        /\ UNCHANGED <<kind, stage, final, generation, selfVars, task, outputVars,
                       serviceVars, botched>>
        /\ faults' \subseteq FaultKinds
    BY <1>1, <1>3 DEF Exits, Fault, FlagsOK
  <2>2. child' \in [Generations -> [Owners -> {"none", "running", "told", "exited"}]]
    BY <1>1, <2>1
  <2>3. Tasks' = Tasks /\ profile' = profile
    BY <2>1 DEF Tasks, profile
  <2>4. CallerOK'
    BY <1>1, <2>1, <2>3 DEF CallerOK, StageOK, selfVars
  <2>5. TasksOK'
    BY <1>1, <2>1, <2>2, <2>3 DEF TasksOK, KnownTasks
  <2>6. FlagsOK'
    BY <1>1, <2>1 DEF FlagsOK, selfVars, serviceVars, outputVars
  <2>7. LinesOK'
    BY <1>1, <2>1, <2>3 DEF LinesOK, outputVars
  <2>8. OutputOK'
    BY <1>1, <2>1, <2>7 DEF OutputOK, outputVars
  <2>9. QED  BY <2>4, <2>5, <2>6, <2>8 DEF TypeInv
<1>4. QED  BY <1>2, <1>3

LEMMA InitTypes == Init => TypeInv
<1> SUFFICES ASSUME Init PROVE TypeInv
  OBVIOUS
<1>1. MaxStarts \in Nat /\ <<>> \in Seq(LineKinds) /\ <<>> \in Seq(Nat)
      /\ <<>> \in Seq(Seq(Nat)) /\ Len(<<>>) = 0
  BY ChildAssumption
<1>2. CallerOK
  BY <1>1 DEF Init, CallerOK, StageOK, Down, TaskNames
<1>3. TasksOK
  BY DEF Init, TasksOK, KnownTasks, Places, TaskNames
<1>4. OutputOK
  BY <1>1 DEF Init, OutputOK, LinesOK
<1>5. FlagsOK
  BY DEF Init, FlagsOK
<1>6. QED  BY <1>2, <1>3, <1>4, <1>5 DEF TypeInv

LEMMA IdleTypes == ASSUME TypeInv, UNCHANGED vars PROVE TypeInv'
<1>1. /\ UNCHANGED <<kind, stage, final, generation, running, slot, proc, task, child,
                     printed, read, block, events, noticed, late, service, found,
                     wasActive, botched, faults>>
      /\ Tasks' = Tasks /\ profile' = profile
  BY DEF vars, selfVars, outputVars, serviceVars, Tasks, profile
<1>2. CallerOK'
  BY <1>1 DEF TypeInv, CallerOK, StageOK
<1>3. TasksOK'
  BY <1>1 DEF TypeInv, TasksOK, KnownTasks
<1>4. FlagsOK'
  BY <1>1 DEF TypeInv, FlagsOK
<1>5. OutputOK'
  BY <1>1 DEF TypeInv, OutputOK, LinesOK
<1>6. QED  BY <1>2, <1>3, <1>4, <1>5 DEF TypeInv

LEMMA StepTypes == ASSUME TypeInv, [Next]_vars PROVE TypeInv'
BY CallerTypes, TaskTypes, ChildTypes, IdleTypes DEF Next

-----------------------------------------------------------------------------
LEMMA TypesHold == Spec => []TypeInv
<1>1. TypeInv /\ [Next]_vars => TypeInv'
  BY StepTypes
<1>2. QED  BY <1>1, InitTypes, PTL DEF Spec

\* The type invariant of the run is a part of it.
LEMMA TypeInvIsTypeOK == TypeInv => TypeOK
<1> SUFFICES ASSUME TypeInv PROVE TypeOK
  OBVIOUS
<1>1. CallerOK /\ TasksOK /\ OutputOK /\ FlagsOK
  BY DEF TypeInv
<1>2. /\ kind \in Kinds
      /\ stage.at \in {"up", "down", "asking", "halting", "spawning", "joining",
                       "reaping", "restoring"}
      /\ stage.at = "joining" => stage.next \in DOMAIN Tasks /\ slot[Tasks[stage.next]] # 0
      /\ stage.at = "reaping" => proc # 0
  BY <1>1, StageIs DEF CallerOK
<1>3. /\ generation \in 0 .. MaxStarts /\ proc \in 0 .. generation
      /\ slot \in [TaskNames -> 0 .. generation]
  BY <1>1 DEF CallerOK
<1>4. /\ task \in [Generations -> [TaskNames -> {"none", "created", "reading", "sleeping",
                                "joining", "ended", "raised", "cancelled"}]]
      /\ child \in [Generations -> [Owners -> {"none", "running", "told", "exited"}]]
  BY <1>1 DEF TasksOK, Places
<1>5. \A g \in Generations : read[g] \in 0 .. Len(printed[g])
  <2>1. TAKE g \in Generations
  <2>2. printed[g] \in Seq(LineKinds) /\ read[g] \in Nat /\ read[g] <= Len(printed[g])
    BY <1>1 DEF OutputOK
  <2>3. QED  BY <2>2
<1>6. noticed \subseteq 1 .. generation
  BY <1>1 DEF OutputOK
<1>7. /\ {running, final, wasActive, botched, late} \subseteq BOOLEAN
      /\ service \in {"active", "inactive", "none"}
      /\ faults \subseteq FaultKinds
  BY <1>1 DEF FlagsOK
<1>8. QED  BY <1>2, <1>3, <1>4, <1>5, <1>6, <1>7 DEF TypeOK

-----------------------------------------------------------------------------
(***************************************************************************)
(* The service and the bluetoothd of the managed mode.  Its bluetoothd     *)
(* runs only while the collector is up or its stop waits for the reader,   *)
(* and that wait always goes on to the child because the reader never      *)
(* raises; told to end, it lives only as long as stop waits for it, unless *)
(* it is stubborn.  If systemctl has not failed, the service is as it was  *)
(* found, or it was active and the collector remembers that it stopped it. *)
(***************************************************************************)
Halted == service # "active" \/ "service" \in faults

OwnedBy(g) ==
    /\ child[g]["reader"] = "running" =>
          g = proc /\ stage.at \in {"up", "joining"} /\ Halted
    /\ child[g]["reader"] = "told" =>
          \/ "stubborn" \in faults
          \/ g = proc /\ stage.at \in {"up", "joining", "reaping"} /\ Halted

TakeTurns ==
    kind = "managed" =>
       /\ \A g \in Generations, n \in TaskNames : task[g][n] # "raised"
       /\ stage.at = "spawning" => Halted
       /\ \A g \in Generations : OwnedBy(g)

Remembered ==
    "service" \notin faults =>
       /\ kind = "managed" => found \in {"active", "inactive"}
       /\ kind # "managed" => service = found /\ stage.at \notin {"asking", "halting", "restoring"}
       /\ wasActive => found = "active"
       /\ service = found \/ (found = "active" /\ service = "inactive" /\ wasActive)
       /\ stage.at \in {"down", "asking"} => service = found
       /\ stage.at \in {"halting", "restoring"} => wasActive

ServiceInv == TakeTurns /\ Remembered

\* What the caller does to a task: it cancels it, or it creates it for a start.
Called(h, l) ==
    \/ task'[h][l] = task[h][l]
    \/ task'[h][l] \in {"cancelled", "joining"}
    \/ /\ task'[h][l] = "created" /\ \E i \in DOMAIN Tasks : Tasks[i] = l
       /\ \/ stage = Down /\ h = generation + 1 /\ Start
          \/ stage.at = "spawning" /\ h = generation /\ Spawn

LEMMA CancelFromCalls ==
    ASSUME TypeInv, NEW i \in Nat \ {0}, NEW slots \in [TaskNames -> 0 .. generation],
           CancelFrom(i, slots)
    PROVE  \A h \in Generations, l \in TaskNames : Called(h, l)
<1>1. /\ kind \in Kinds /\ generation \in Nat /\ MaxStarts \in Nat
      /\ generation <= MaxStarts /\ task \in [Generations -> [TaskNames -> Places]]
  BY ChildAssumption DEF TypeInv, CallerOK, TasksOK
<1>2. CASE task' = task
  BY <1>2 DEF Called
<1>3. ASSUME NEW m \in i .. Len(Tasks), slots[Tasks[m]] # 0,
             task' = [task EXCEPT ![slots[Tasks[m]]][Tasks[m]] = Cancelled(@)]
      PROVE  \A h \in Generations, l \in TaskNames : Called(h, l)
  <2> DEFINE n == Tasks[m]
             g == slots[n]
  <2>1. n \in TaskNames
    BY <1>1, TaskOrder
  <2>2. g \in Generations
    BY <1>1, <1>3, <2>1 DEF Generations
  <2>3. task' = [task EXCEPT ![g] = [task[g] EXCEPT ![n] = Cancelled(task[g][n])]]
    BY <1>3
  <2> HIDE DEF n, g
  <2>4. task[g][n] \in Places
    BY <1>1, <2>1, <2>2
  <2>5. Cancelled(task[g][n]) \in {task[g][n], "cancelled", "joining"}
    BY <2>4 DEF Cancelled, Places
  <2>6. Cancelled(task[g][n]) \in Places
    BY <2>4, CancelledTypes DEF Places
  <2>7. /\ task'[g][n] = Cancelled(task[g][n])
        /\ \A h \in Generations, l \in TaskNames : h # g \/ l # n => task'[h][l] = task[h][l]
    BY <1>1, <2>1, <2>2, <2>3, <2>6, OneTask
  <2>8. QED  BY <2>5, <2>7 DEF Called
<1>4. QED  BY <1>1, <1>2, <1>3, CancelFromCases

LEMMA CallerCalls ==
    ASSUME TypeInv, Start \/ Stop \/ CancelCaller \/ CallerSteps
    PROVE  \A h \in Generations, l \in TaskNames : Called(h, l)
<1>1. /\ generation \in Nat /\ task \in [Generations -> [TaskNames -> Places]]
      /\ slot \in [TaskNames -> 0 .. generation] /\ kind \in Kinds
      /\ MaxStarts \in Nat /\ generation <= MaxStarts
  BY ChildAssumption DEF TypeInv, CallerOK, TasksOK
<1>2. CASE task' = task
  BY <1>2 DEF Called
<1>3. ASSUME NEW g \in Generations, Launched(g),
             (Start /\ stage = Down /\ g = generation + 1)
                \/ (Spawn /\ stage.at = "spawning" /\ g = generation)
      PROVE  \A h \in Generations, l \in TaskNames : Called(h, l)
  <2> DEFINE N == {n \in TaskNames : \E i \in DOMAIN Tasks : Tasks[i] = n}
  <2>1. task' = [task EXCEPT ![g] = [n \in TaskNames |->
                    IF n \in N THEN "created" ELSE task[g][n]]]
    BY <1>3 DEF Launched
  <2>5. \A n \in N : \E i \in DOMAIN Tasks : Tasks[i] = n
    OBVIOUS
  <2> HIDE DEF N
  <2>2. \A n \in TaskNames : task'[g][n] = IF n \in N THEN "created" ELSE task[g][n]
    BY <1>1, <2>1
  <2>3. \A h \in Generations : h # g => task'[h] = task[h]
    BY <1>1, <2>1
  <2>4. QED  BY <1>3, <2>2, <2>3, <2>5 DEF Called
<1>4. CASE Start
  <2>1. generation < MaxStarts /\ stage = Down /\ (task' = task \/ Launched(generation + 1))
    BY <1>4 DEF Start
  <2>2. generation + 1 \in Generations
    BY <1>1, <2>1 DEF Generations
  <2>3. QED  BY <1>2, <1>3, <1>4, <2>1, <2>2
<1>5. CASE Spawn
  <2>1. stage.at = "spawning" /\ (task' = task \/ Launched(generation))
    BY <1>5 DEF Spawn
  <2>2. generation \in Generations
    BY <1>1, <2>1 DEF TypeInv, CallerOK, Generations
  <2>3. QED  BY <1>2, <1>3, <1>5, <2>1, <2>2
<1>6. CASE Stop
  BY <1>1, <1>6, CancelFromCalls DEF Stop
<1>7. CASE Join
  <2> DEFINE freed == [slot EXCEPT ![Tasks[stage.next]] = 0]
  <2>1. stage.at = "joining" /\ (CancelFrom(stage.next + 1, freed) \/ task' = task)
    BY <1>7 DEF Join
  <2>2. freed \in [TaskNames -> 0 .. generation]
    <3>1. 0 \in 0 .. generation
      BY <1>1
    <3>2. QED  BY <1>1, <3>1
  <2>3. stage.next + 1 \in Nat \ {0}
    BY <1>1, <2>1, StageIs, TaskOrder DEF TypeInv, CallerOK
  <2> HIDE DEF freed
  <2>4. QED  BY <1>2, <2>1, <2>2, <2>3, CancelFromCalls
<1>8. CASE CancelCaller
  <2>1. CASE stage.at = "joining"
    <3> DEFINE n == Tasks[stage.next]
               g == slot[n]
               x == IF task[g][n] = "joining" THEN "cancelled" ELSE task[g][n]
    <3>1. task' = [task EXCEPT ![g] = [task[g] EXCEPT ![n] = x]]
      BY <1>8, <2>1 DEF CancelCaller
    <3>2. n \in TaskNames /\ g \in Generations
      BY <1>1, <2>1, StageIs, TaskOrder DEF TypeInv, CallerOK, Generations
    <3> HIDE DEF n, g
    <3>3. x \in Places /\ x \in {task[g][n], "cancelled"}
      BY <1>1, <3>2 DEF Places
    <3> HIDE DEF x
    <3>4. /\ task'[g][n] = x
          /\ \A h \in Generations, l \in TaskNames : h # g \/ l # n => task'[h][l] = task[h][l]
      BY <1>1, <3>1, <3>2, <3>3, OneTask
    <3>5. QED  BY <3>3, <3>4 DEF Called
  <2>2. QED  BY <1>2, <1>8, <2>1 DEF CancelCaller
<1>9. QED
  BY <1>2, <1>4, <1>5, <1>6, <1>7, <1>8 DEF CallerSteps, Ask, Halt, Reap, Restore

\* Where a step of stop that cancels what is left comes out.
LEMMA CancelFromStage ==
    ASSUME TypeInv, NEW i \in Nat \ {0}, NEW slots, CancelFrom(i, slots)
    PROVE  \/ stage'.at = "joining" /\ child' = child
           \/ /\ proc # 0 /\ stage' = [at |-> "reaping"]
              /\ \A h \in Generations :
                    /\ child'[h]["reader"] # child[h]["reader"] => child'[h]["reader"] = "told"
                    /\ h = proc => child'[h]["reader"] # "running"
                    /\ h # proc => child'[h]["reader"] = child[h]["reader"]
                    /\ child'[h]["reader"] # child[h]["reader"] => child[h]["reader"] = "running"
           \/ proc = 0 /\ stage' = RestoreOr("down") /\ child' = child
<1>1. /\ kind \in Kinds /\ "reader" \in Owners
      /\ child \in [Generations -> [Owners -> {"none", "running", "told", "exited"}]]
  BY DEF TypeInv, CallerOK, TasksOK, Owners
<1>2. CASE \E m \in i .. Len(Tasks) :
              stage' = [at |-> "joining", next |-> m] /\ child' = child
  BY <1>2
<1>3. CASE /\ stage' = IF proc # 0 THEN [at |-> "reaping"] ELSE RestoreOr("down")
           /\ child' = IF proc # 0 /\ child[proc]["reader"] = "running"
                       THEN [child EXCEPT ![proc]["reader"] = "told"] ELSE child
  <2>1. CASE proc # 0 /\ child[proc]["reader"] = "running"
    <3>1. child' = [child EXCEPT ![proc] = [child[proc] EXCEPT !["reader"] = "told"]]
      BY <1>3, <2>1
    <3>2. \A h \in Generations : child'[h]["reader"] =
             IF h = proc THEN "told" ELSE child[h]["reader"]
      BY <1>1, <3>1
    <3>3. QED  BY <1>3, <2>1, <3>2
  <2>2. CASE ~(proc # 0 /\ child[proc]["reader"] = "running")
    BY <1>3, <2>2
  <2>3. QED  BY <2>1, <2>2
<1>4. QED  BY <1>1, <1>2, <1>3, CancelFromCases

LEMMA ServiceInit == Init => ServiceInv
<1> SUFFICES ASSUME Init PROVE ServiceInv
  OBVIOUS
<1>1. stage.at = "down"
  BY DEF Init, Down
<1>2. TakeTurns
  BY <1>1 DEF Init, TakeTurns, OwnedBy, Owners
<1>3. Remembered
  BY <1>1 DEF Init, Remembered
<1>4. QED  BY <1>2, <1>3 DEF ServiceInv

\* What the tasks do is no concern of the service.
LEMMA TasksKeepService ==
    ASSUME TypeInv, ServiceInv, NEW g \in Generations, TaskMoves(g)
    PROVE  ServiceInv'
<1>1. /\ UNCHANGED <<kind, stage, service, found, wasActive>> /\ faults \subseteq faults'
      /\ profile' = profile
  BY DEF TaskMoves, serviceVars, profile
<1>2. Remembered'
  BY <1>1 DEF ServiceInv, Remembered
<1>3. ASSUME kind = "managed"
      PROVE  /\ \A h \in Generations, l \in TaskNames : task'[h][l] # "raised"
             /\ stage'.at = "spawning" => Halted'
             /\ \A h \in Generations : OwnedBy(h)'
  <2>1. PICK n \in TaskNames, x \in Goals :
           Moved(g, n, x) /\ (UNCHANGED <<child, proc>> \/ ChildStarted(g, n, x))
    BY DEF TaskMoves
  <2>2. /\ task \in [Generations -> [TaskNames -> Places]]
        /\ child \in [Generations -> [Owners -> {"none", "running", "told", "exited"}]]
        /\ kind \in Kinds
    BY DEF TypeInv, TasksOK, CallerOK
  <2>3. x \in Places /\ x # "raised"
    BY <1>3, <2>1 DEF Goals, Places, Moved
  <2>4. \A h \in Generations, l \in TaskNames : task'[h][l] # "raised"
    <3>1. task' = [task EXCEPT ![g] = [task[g] EXCEPT ![n] = x]]
      BY <2>1 DEF Moved
    <3>2. /\ task'[g][n] = x
          /\ \A h \in Generations, l \in TaskNames : h # g \/ l # n => task'[h][l] = task[h][l]
      BY <2>2, <2>3, <3>1, OneTask
    <3>3. QED  BY <1>3, <2>3, <3>2 DEF ServiceInv, TakeTurns
  <2>5. ~ChildStarted(g, n, x)
    <3>1. Tasks = <<"reader">> /\ profile.start.by = "start"
      BY <1>3, <2>2, ProfileFacts
    <3>2. n = "reader"
      <4>1. task[g][n] # "none"
        BY <2>1 DEF Moved, Alive
      <4>2. QED  BY <3>1, <4>1 DEF TypeInv, TasksOK, KnownTasks
    <3>3. QED  BY <3>1, <3>2 DEF ChildStarted
  <2>6. UNCHANGED <<child, proc>>
    BY <2>1, <2>5
  <2>7. Halted => Halted'
    BY <1>1 DEF Halted
  <2>8. \A h \in Generations : OwnedBy(h)'
    <3>1. TAKE h \in Generations
    <3>2. OwnedBy(h)
      BY <1>3 DEF ServiceInv, TakeTurns
    <3>3. QED  BY <1>1, <2>6, <2>7, <3>2 DEF OwnedBy
  <2>9. QED  BY <1>1, <1>3, <2>4, <2>7, <2>8 DEF ServiceInv, TakeTurns
<1>4. TakeTurns'
  BY <1>1, <1>3 DEF TakeTurns
<1>5. QED  BY <1>2, <1>4 DEF ServiceInv

LEMMA ChildrenKeepService ==
    ASSUME TypeInv, ServiceInv, NEW g \in Generations,
           Prints(g) \/ \E o \in Owners : Exits(g, o)
    PROVE  ServiceInv'
<1>1. /\ UNCHANGED <<kind, stage, task, selfVars, service, found, wasActive>>
      /\ faults \subseteq faults'
  BY DEF Prints, Exits, Fault, serviceVars
<1>2. \A h \in Generations : child'[h]["reader"] \in {child[h]["reader"], "exited"}
  <2>1. child \in [Generations -> [Owners -> {"none", "running", "told", "exited"}]]
    BY DEF TypeInv, TasksOK
  <2>2. CASE Prints(g)
    BY <2>2 DEF Prints
  <2>3. ASSUME NEW o \in Owners, Exits(g, o)
        PROVE  \A h \in Generations : child'[h]["reader"] \in {child[h]["reader"], "exited"}
    <3>1. child' = [child EXCEPT ![g] = [child[g] EXCEPT ![o] = "exited"]]
      BY <2>3 DEF Exits
    <3>2. "reader" \in Owners
      BY DEF Owners
    <3>3. QED  BY <2>1, <3>1, <3>2
  <2>4. QED  BY <2>2, <2>3
<1>3. TakeTurns'
  <2>1. Halted => Halted'
    BY <1>1 DEF Halted
  <2>2. \A h \in Generations : OwnedBy(h) => OwnedBy(h)'
    BY <1>1, <1>2, <2>1 DEF OwnedBy, selfVars
  <2>3. QED  BY <1>1, <2>1, <2>2 DEF ServiceInv, TakeTurns
<1>4. Remembered'
  BY <1>1 DEF ServiceInv, Remembered
<1>5. QED  BY <1>3, <1>4 DEF ServiceInv

LEMMA CallerTakesTurns ==
    ASSUME TypeInv, ServiceInv, Start \/ Stop \/ CancelCaller \/ CallerSteps
    PROVE  TakeTurns'
<1>1. /\ kind \in Kinds /\ generation \in Nat /\ proc \in 0 .. generation
      /\ slot \in [TaskNames -> 0 .. generation] /\ StageOK
      /\ child \in [Generations -> [Owners -> {"none", "running", "told", "exited"}]]
      /\ "reader" \in Owners /\ "reader" \in TaskNames
  BY ChildAssumption DEF TypeInv, CallerOK, TasksOK, Owners, TaskNames
<1>2. kind' = kind /\ faults \subseteq faults'
  BY DEF Start, Stop, CancelCaller, CallerSteps, Ask, Halt, Spawn, Join, Reap, Restore, Fault
<1>3. SUFFICES ASSUME kind = "managed"
               PROVE  /\ \A h \in Generations, l \in TaskNames : task'[h][l] # "raised"
                      /\ stage'.at = "spawning" => Halted'
                      /\ \A h \in Generations : OwnedBy(h)'
  BY <1>2 DEF TakeTurns
<1>4. /\ \A h \in Generations, l \in TaskNames : task[h][l] # "raised"
      /\ stage.at = "spawning" => Halted
      /\ \A h \in Generations : OwnedBy(h)
      /\ profile.start.by = "start" /\ Tasks = <<"reader">>
  BY <1>1, <1>3, ProfileFacts DEF ServiceInv, TakeTurns
<1>5. \A h \in Generations, l \in TaskNames : task'[h][l] # "raised"
  BY <1>4, CallerCalls DEF Called
<1> DEFINE Goal == /\ stage'.at = "spawning" => Halted'
                   /\ \A h \in Generations : OwnedBy(h)'
\* Steps between which nothing runs that is not stubborn.
<1>6. ASSUME stage.at \notin {"up", "joining", "reaping"}, child' = child,
             stage'.at = "spawning" => Halted'
      PROVE  Goal
  <2>1. ASSUME NEW h \in Generations PROVE OwnedBy(h)'
    BY <1>2, <1>4, <1>6 DEF OwnedBy
  <2>2. QED  BY <1>6, <2>1
\* Steps that leave the service, the child and what refers to it alone.
<1>18. ASSUME UNCHANGED <<service, child, proc>>,
              stage.at \in {"up", "joining", "reaping"} =>
                 stage'.at = stage.at \/ stage'.at = "up",
              stage'.at # "spawning"
       PROVE  Goal
  <2>1. Halted => Halted'
    BY <1>2, <1>18 DEF Halted
  <2>2. ASSUME NEW h \in Generations PROVE OwnedBy(h)'
    BY <1>2, <1>4, <1>18, <2>1 DEF OwnedBy
  <2>3. QED  BY <1>18, <2>2
<1>7. CASE Start
  <2>1. stage.at = "down" /\ child' = child /\ stage' = [at |-> "asking"]
    BY <1>3, <1>4, <1>7 DEF Start, Down
  <2>2. Goal
    BY <1>6, <2>1
  <2>3. QED  BY <1>5, <2>2
<1>8. CASE Ask
  <2>1. stage.at = "asking" /\ child' = child /\ service' = service
    BY <1>8 DEF Ask
  <2>2. stage'.at = "spawning" => Halted'
    <3>1. CASE stage' = Up
      BY <3>1 DEF Up
    <3>2. CASE "service" \in faults'
      BY <3>2 DEF Halted
    <3>3. CASE /\ service = "active" /\ wasActive' = (service = "active")
               /\ stage' = [at |-> IF wasActive' THEN "halting" ELSE "spawning"]
      <4>1. wasActive' = TRUE
        BY <3>3
      <4>2. stage' = [at |-> "halting"]
        BY <3>3, <4>1
      <4>3. QED  BY <4>2
    <3>4. CASE service # "active"
      BY <2>1, <3>4 DEF Halted
    <3>5. QED  BY <1>8, <3>1, <3>2, <3>3, <3>4 DEF Ask, Fault
  <2>3. Goal
    BY <1>6, <2>1, <2>2
  <2>4. QED  BY <1>5, <2>3
<1>9. CASE Halt
  <2>1. stage.at = "halting" /\ child' = child
    BY <1>9 DEF Halt
  <2>2. Halted'
    BY <1>9 DEF Halt, Halted, Fault
  <2>3. Goal
    BY <1>6, <2>1, <2>2
  <2>4. QED  BY <1>5, <2>3
<1>10. CASE Spawn
  <2>1. stage.at = "spawning" /\ service' = service
    BY <1>10 DEF Spawn, serviceVars
  <2>2. CASE /\ child' = [child EXCEPT ![generation]["reader"] = "running"]
             /\ proc' = generation /\ stage' = Up
    <3>1. child' = [child EXCEPT ![generation] = [child[generation] EXCEPT !["reader"] = "running"]]
      BY <2>2
    <3>2. \A h \in Generations :
             IF h = generation THEN child'[h]["reader"] = "running" ELSE child'[h] = child[h]
      BY <1>1, <3>1
    <3>3. stage'.at = "up"
      BY <2>2 DEF Up
    <3>4. Halted'
      BY <1>2, <1>4, <2>1 DEF Halted
    <3>5. ASSUME NEW h \in Generations PROVE OwnedBy(h)'
      <4>1. OwnedBy(h)
        BY <1>4
      <4>2. CASE h = generation
        BY <2>2, <3>2, <3>3, <3>4, <4>2 DEF OwnedBy
      <4>3. CASE h # generation
        BY <1>2, <2>1, <3>2, <4>1, <4>3 DEF OwnedBy
      <4>4. QED  BY <4>2, <4>3
    <3>6. QED  BY <1>5, <3>3, <3>5
  <2>3. CASE child' = child /\ stage'.at \in {"restoring", "up"}
    <3>1. Goal
      BY <1>6, <2>1, <2>3
    <3>2. QED  BY <1>5, <3>1
  <2>4. QED  BY <1>10, <2>2, <2>3 DEF Spawn, Launched, Up
\* A step of stop that goes on with the child.
<1>11. ASSUME NEW i \in Nat \ {0}, NEW slots, CancelFrom(i, slots),
              UNCHANGED <<proc, service>>, stage.at \in {"up", "down", "joining"}
       PROVE  Goal
  <2>0. Halted => Halted'
    BY <1>2, <1>11 DEF Halted
  <2>1. CASE stage'.at = "joining" /\ child' = child
    <3>1. ASSUME NEW h \in Generations PROVE OwnedBy(h)'
      BY <1>2, <1>4, <1>11, <2>0, <2>1 DEF OwnedBy
    <3>2. QED  BY <2>1, <3>1
  <2>2. CASE /\ proc # 0 /\ stage' = [at |-> "reaping"]
             /\ \A h \in Generations :
                   /\ child'[h]["reader"] # child[h]["reader"] => child'[h]["reader"] = "told"
                   /\ h = proc => child'[h]["reader"] # "running"
                   /\ h # proc => child'[h]["reader"] = child[h]["reader"]
                   /\ child'[h]["reader"] # child[h]["reader"] => child[h]["reader"] = "running"
    <3>1. stage'.at = "reaping"
      BY <2>2
    <3>2. ASSUME NEW h \in Generations PROVE OwnedBy(h)'
      <4>1. OwnedBy(h) /\ proc' = proc
        BY <1>4, <1>11
      <4>2. child'[h]["reader"] # "running"
        BY <2>2, <4>1 DEF OwnedBy
      <4>3. CASE child'[h]["reader"] = child[h]["reader"]
        BY <1>2, <2>0, <3>1, <4>1, <4>2, <4>3 DEF OwnedBy
      <4>4. CASE child[h]["reader"] = "running"
        BY <2>0, <3>1, <4>1, <4>2, <4>4 DEF OwnedBy
      <4>5. QED  BY <2>2, <4>3, <4>4
    <3>3. QED  BY <3>1, <3>2
  <2>3. CASE proc = 0 /\ stage' = RestoreOr("down") /\ child' = child
    <3>1. stage'.at # "spawning"
      BY <2>3 DEF RestoreOr
    <3>2. ASSUME NEW h \in Generations PROVE OwnedBy(h)'
      <4>1. h # proc
        BY <2>3 DEF Generations
      <4>2. QED  BY <1>2, <1>4, <2>3, <4>1 DEF OwnedBy
    <3>3. QED  BY <3>1, <3>2
  <2>4. QED  BY <1>11, <2>1, <2>2, <2>3, CancelFromStage
<1>12. CASE Stop
  <2>1. CancelFrom(1, slot) /\ UNCHANGED <<proc, service>> /\ stage \in {Up, Down}
    BY <1>12 DEF Stop, serviceVars
  <2>2. stage.at \in {"up", "down", "joining"}
    BY <2>1 DEF Up, Down
  <2>3. Goal
    BY <1>11, <2>1, <2>2
  <2>4. QED  BY <1>5, <2>3
<1>13. CASE Join
  <2> DEFINE freed == [slot EXCEPT ![Tasks[stage.next]] = 0]
  <2>1. /\ stage.at = "joining" /\ UNCHANGED <<proc, service>>
        /\ \/ CancelFrom(stage.next + 1, freed)
           \/ task[slot[Tasks[stage.next]]][Tasks[stage.next]] = "raised"
    BY <1>13 DEF Join, serviceVars
  <2>2. /\ stage.next \in Nat /\ slot[Tasks[stage.next]] \in Generations
        /\ Tasks[stage.next] \in TaskNames
    <3>1. stage.next \in DOMAIN Tasks /\ slot[Tasks[stage.next]] # 0
      BY <1>1, <2>1, StageIs DEF TypeInv, CallerOK
    <3>2. stage.next = 1 /\ Tasks[stage.next] = "reader"
      BY <1>4, <3>1
    <3>3. generation <= MaxStarts /\ MaxStarts \in Nat
      BY ChildAssumption DEF TypeInv, CallerOK
    <3>4. QED  BY <1>1, <3>1, <3>2, <3>3 DEF Generations
  <2> HIDE DEF freed
  <2>3. CancelFrom(stage.next + 1, freed)
    BY <1>4, <2>1, <2>2
  <2>4. Goal
    BY <1>11, <2>1, <2>2, <2>3
  <2>5. QED  BY <1>5, <2>4
<1>14. CASE Reap
  <2>1. /\ stage.at = "reaping" /\ child' = child /\ stage' = RestoreOr("down")
        /\ child[proc]["reader"] = "exited" \/ "stubborn" \in faults'
    BY <1>14 DEF Reap, Fault
  <2>2. stage'.at # "spawning"
    BY <2>1 DEF RestoreOr
  <2>3. ASSUME NEW h \in Generations PROVE OwnedBy(h)'
    <3>1. OwnedBy(h)
      BY <1>4
    <3>2. CASE "stubborn" \in faults'
      BY <2>1, <3>1, <3>2 DEF OwnedBy
    <3>3. CASE child[proc]["reader"] = "exited"
      BY <1>2, <2>1, <3>1, <3>3 DEF OwnedBy
    <3>4. QED  BY <2>1, <3>2, <3>3
  <2>4. QED  BY <1>5, <2>2, <2>3
<1>15. CASE Restore
  <2>1. /\ stage.at = "restoring" /\ child' = child /\ stage' = [at |-> stage.then]
        /\ stage.then \in {"up", "down"}
    BY <1>1, <1>15, StageIs DEF Restore
  <2>2. Goal
    BY <1>6, <2>1
  <2>3. QED  BY <1>5, <2>2
<1>16. CASE CancelCaller
  <2>1. CASE stage.at = "joining"
    <3>1. UNCHANGED <<stage, service, child, proc>>
      BY <1>16, <2>1 DEF CancelCaller, selfVars
    <3>2. Goal
      BY <1>18, <2>1, <3>1
    <3>3. QED  BY <1>5, <3>2
  <2>2. CASE stage.at # "joining"
    <3>1. stage' = Up /\ child' = child /\ stage \notin {Up, Down}
      BY <1>16, <2>2 DEF CancelCaller
    <3>2. stage.at \notin {"up", "joining"} /\ stage'.at = "up"
      BY <1>1, <2>2, <3>1, StageIs DEF Up
    <3>3. CASE stage.at = "reaping"
      <4>1. UNCHANGED <<service, child, proc>>
        BY <1>16, <2>2, <3>3 DEF CancelCaller, selfVars
      <4>2. Goal
        BY <1>18, <3>2, <3>3, <4>1
      <4>3. QED  BY <1>5, <4>2
    <3>4. CASE stage.at # "reaping"
      <4>1. Goal
        BY <1>6, <3>1, <3>2, <3>4
      <4>2. QED  BY <1>5, <4>1
    <3>5. QED  BY <3>3, <3>4
  <2>3. QED  BY <2>1, <2>2
<1>17. QED
  BY <1>7, <1>8, <1>9, <1>10, <1>12, <1>13, <1>14, <1>15, <1>16 DEF CallerSteps

LEMMA CallerRemembers ==
    ASSUME TypeInv, ServiceInv, Start \/ Stop \/ CancelCaller \/ CallerSteps
    PROVE  Remembered'
<1>1. /\ kind \in Kinds /\ StageOK /\ wasActive \in BOOLEAN
      /\ service \in {"active", "inactive", "none"}
  BY DEF TypeInv, CallerOK, FlagsOK
<1>2. kind' = kind /\ found' = found /\ faults \subseteq faults'
  BY DEF Start, Stop, CancelCaller, CallerSteps, Ask, Halt, Spawn, Join, Reap, Restore,
         serviceVars, Fault
<1>3. SUFFICES ASSUME "service" \notin faults'  PROVE Remembered'
  BY DEF Remembered
<1>4. /\ kind = "managed" => found \in {"active", "inactive"}
      /\ kind # "managed" => service = found /\ stage.at \notin {"asking", "halting", "restoring"}
      /\ wasActive => found = "active"
      /\ service = found \/ (found = "active" /\ service = "inactive" /\ wasActive)
      /\ stage.at \in {"down", "asking"} => service = found
      /\ stage.at \in {"halting", "restoring"} => wasActive
  BY <1>2, <1>3 DEF ServiceInv, Remembered
\* Steps that only change where the caller is.
<1>5. ASSUME UNCHANGED <<service, wasActive>>,
             kind # "managed" => stage'.at \notin {"asking", "halting", "restoring"},
             stage'.at \in {"down", "asking"} => service = found,
             stage'.at \in {"halting", "restoring"} => wasActive
      PROVE  Remembered'
  BY <1>2, <1>4, <1>5 DEF Remembered
\* What follows a stop's last await.
<1>6. /\ kind # "managed" => RestoreOr("down").at = "down"
      /\ RestoreOr("down").at \in {"down", "restoring"}
      /\ RestoreOr("down").at = "down" => service = found
      /\ RestoreOr("down").at = "restoring" => wasActive
  BY <1>1, <1>4 DEF RestoreOr
<1>7. CASE Start
  <2>1. UNCHANGED <<service, wasActive>> /\ service = found
    BY <1>4, <1>7 DEF Start, serviceVars, Down
  <2>2. /\ stage'.at \in {"asking", "spawning", "up"}
        /\ stage'.at = "asking" => kind = "managed"
    BY <1>7 DEF Start, Launched, Up
  <2>3. QED  BY <1>5, <2>1, <2>2
<1>8. CASE Ask
  <2>1. /\ stage.at = "asking" /\ service' = service /\ wasActive' = (service = "active")
        /\ stage' = [at |-> IF wasActive' THEN "halting" ELSE "spawning"]
    BY <1>3, <1>8 DEF Ask, Fault
  <2>2. stage'.at = IF wasActive' THEN "halting" ELSE "spawning"
    BY <2>1
  <2>3. QED  BY <1>2, <1>4, <2>1, <2>2 DEF Remembered
<1>9. CASE Halt
  <2>1. stage.at = "halting" /\ service' = "inactive" /\ wasActive' = wasActive
    BY <1>3, <1>9 DEF Halt, Fault
  <2>2. stage'.at = "spawning"
    BY <1>3, <1>9 DEF Halt, Fault
  <2>3. QED  BY <1>2, <1>4, <2>1, <2>2 DEF Remembered
<1>10. CASE Spawn
  <2>1. UNCHANGED <<service, wasActive>>
    BY <1>10 DEF Spawn, serviceVars
  <2>2. /\ stage'.at \in {"restoring", "up"}
        /\ stage'.at = "restoring" => kind = "managed" /\ wasActive
    BY <1>10 DEF Spawn, Launched, Up
  <2>3. QED  BY <1>5, <2>1, <2>2
<1>11. ASSUME NEW i \in Nat \ {0}, NEW slots, CancelFrom(i, slots),
              UNCHANGED <<service, wasActive>>
       PROVE  Remembered'
  <2>1. stage'.at \in {"joining", "reaping"} \/ stage' = RestoreOr("down")
    BY <1>11, CancelFromStage
  <2>2. QED  BY <1>5, <1>6, <1>11, <2>1
<1>12. CASE Stop
  BY <1>11, <1>12 DEF Stop, serviceVars
<1>13. CASE Join
  <2> DEFINE freed == [slot EXCEPT ![Tasks[stage.next]] = 0]
  <2>1. /\ stage.at = "joining" /\ UNCHANGED <<service, wasActive>>
        /\ \/ CancelFrom(stage.next + 1, freed)
           \/ stage' = Down /\ task[slot[Tasks[stage.next]]][Tasks[stage.next]] = "raised"
    BY <1>13 DEF Join, serviceVars
  <2> HIDE DEF freed
  <2>2. /\ stage.next \in Nat \ {0} /\ Tasks[stage.next] \in TaskNames
        /\ slot[Tasks[stage.next]] \in Generations
    BY <1>1, <2>1, StageIs, TaskOrder, ChildAssumption DEF TypeInv, CallerOK, Generations
  <2>3. CASE CancelFrom(stage.next + 1, freed)
    <3>1. stage.next + 1 \in Nat \ {0}
      BY <2>2
    <3>2. QED  BY <1>11, <2>1, <2>3, <3>1
  <2>4. CASE stage' = Down /\ task[slot[Tasks[stage.next]]][Tasks[stage.next]] = "raised"
    <3>1. kind # "managed"
      BY <2>2, <2>4 DEF ServiceInv, TakeTurns
    <3>2. stage'.at = "down"
      BY <2>4 DEF Down
    <3>3. QED  BY <1>4, <1>5, <2>1, <3>1, <3>2
  <2>5. QED  BY <2>1, <2>3, <2>4
<1>14. CASE Reap
  <2>1. UNCHANGED <<service, wasActive>> /\ stage' = RestoreOr("down")
    BY <1>14 DEF Reap, serviceVars
  <2>2. QED  BY <1>5, <1>6, <2>1
<1>15. CASE Restore
  <2>1. /\ stage.at = "restoring" /\ service' = "active" /\ wasActive' = wasActive
        /\ stage' = [at |-> stage.then] /\ stage.then \in {"up", "down"}
    BY <1>1, <1>3, <1>15, StageIs DEF Restore, Fault
  <2>2. stage'.at \in {"up", "down"}
    BY <2>1
  <2>3. QED  BY <1>2, <1>4, <2>1, <2>2 DEF Remembered
<1>16. CASE CancelCaller
  <2>1. wasActive' = wasActive
    BY <1>16 DEF CancelCaller
  <2>2. CASE stage.at = "joining"
    <3>1. UNCHANGED <<stage, service>>
      BY <1>16, <2>2 DEF CancelCaller
    <3>2. QED  BY <1>4, <1>5, <2>1, <3>1
  <2>3. CASE stage.at # "joining"
    <3>1. /\ stage' = Up
          /\ \/ stage.at = "halting" /\ service' = "inactive"
             \/ stage.at = "restoring" /\ service' = "active"
             \/ service' = service
      BY <1>16, <2>3 DEF CancelCaller
    <3>2. stage'.at = "up"
      BY <3>1 DEF Up
    <3>3. QED  BY <1>2, <1>4, <2>1, <3>1, <3>2 DEF Remembered
  <2>4. QED  BY <2>2, <2>3
<1>17. QED
  BY <1>7, <1>8, <1>9, <1>10, <1>12, <1>13, <1>14, <1>15, <1>16 DEF CallerSteps

LEMMA StepService == ASSUME TypeInv, ServiceInv, [Next]_vars PROVE ServiceInv'
<1>1. CASE Start \/ Stop \/ CancelCaller \/ CallerSteps
  BY <1>1, CallerTakesTurns, CallerRemembers DEF ServiceInv
<1>2. ASSUME NEW g \in Generations, ReaderSteps(g) \/ OtherSteps(g)
      PROVE  ServiceInv'
  BY <1>2, TaskSteps, TasksKeepService
<1>3. ASSUME NEW g \in Generations, Prints(g) \/ \E o \in Owners : Exits(g, o)
      PROVE  ServiceInv'
  BY <1>3, ChildrenKeepService
<1>4. CASE UNCHANGED vars
  <2>1. UNCHANGED <<kind, stage, proc, task, child, service, found, wasActive, faults>>
    BY <1>4 DEF vars, selfVars, serviceVars
  <2>2. TakeTurns'
    BY <2>1 DEF ServiceInv, TakeTurns, OwnedBy, Halted
  <2>3. Remembered'
    BY <2>1 DEF ServiceInv, Remembered
  <2>4. QED  BY <2>2, <2>3 DEF ServiceInv
<1>5. QED  BY <1>1, <1>2, <1>3, <1>4 DEF Next

\* The managed mode and the service take turns, but for a child that outlives the
\* patience of stop, and when the runtime has stopped the collector for good the
\* service is as it was found; both unless systemctl failed, and both for any number
\* of starts, stops, failed launches, exits and cancellations.
THEOREM ServiceIsGivenBack == Spec => []ServiceGivenBack
<1>1. TypeInv /\ ServiceInv /\ [Next]_vars => TypeInv' /\ ServiceInv'
  BY StepTypes, StepService
<1>2. TypeInv /\ ServiceInv => ServiceGivenBack
  <2>1. ASSUME TypeInv, ServiceInv PROVE ServiceGivenBack
    BY <2>1 DEF ServiceInv, TakeTurns, OwnedBy, Halted, Remembered, ServiceGivenBack, Down
  <2>2. QED  BY <2>1
<1>3. QED  BY <1>1, <1>2, InitTypes, ServiceInit, PTL DEF Spec

-----------------------------------------------------------------------------
(***************************************************************************)
(* What a stop leaves.  As long as no stop has raised: an attribute refers *)
(* to every task that is alive; the attributes are free but while the      *)
(* collector is up or a stop awaits a task, whose predecessors are over    *)
(* and which is cancelled; and a child that runs is the one _proc refers   *)
(* to, or the thread of a reader that is still there for it.               *)
(***************************************************************************)
HeldIn(slots) == \A g \in Generations, n \in TaskNames : Alive(g, n) => slots[n] = g

Settled == {"none", "ended", "raised", "cancelled", "joining"}

SlotsOK ==
    /\ \A n \in TaskNames : slot[n] # 0 => \E i \in DOMAIN Tasks : Tasks[i] = n
    /\ stage.at \notin {"up", "joining"} => \A n \in TaskNames : slot[n] = 0
    /\ stage.at = "joining" =>
          /\ \A j \in 1 .. stage.next - 1 : slot[Tasks[j]] = 0
          /\ task[slot[Tasks[stage.next]]][Tasks[stage.next]] \in Settled
    /\ stage.at = "up" => \A n \in TaskNames : slot[n] # 0 => running
    /\ stage.at \in {"asking", "halting", "spawning"} => profile.start.by = "start"

OwnChild ==
    kind # "bcc" => \A g \in Generations : child[g]["reader"] = "running" =>
       /\ g = proc /\ stage.at \in {"up", "joining"}
       /\ profile.start.by = "task" => \A h \in Generations : task[h]["reader"] # "created"

ThreadIn(slots) ==
    kind = "bcc" => \A g \in Generations : child[g]["reader"] = "running" =>
       \/ "cancel" \in faults
       \/ slots["reader"] = g /\ task[g]["reader"] \in {"reading", "joining"}

Tidy == HeldIn(slot) /\ SlotsOK /\ OwnChild /\ ThreadIn(slot)

CleanInv == /\ late => botched
            /\ ~botched => Tidy

\* A stop that goes on with the next task, or with the child.
LEMMA CancelFromTidy ==
    ASSUME TypeInv, NEW i \in Nat \ {0}, NEW slots \in [TaskNames -> 0 .. generation],
           CancelFrom(i, slots), slot' = slots, UNCHANGED <<kind, generation, proc>>,
           \A j \in 1 .. i - 1 : slots[Tasks[j]] = 0,
           \A n \in TaskNames : slots[n] # 0 => \E j \in DOMAIN Tasks : Tasks[j] = n,
           HeldIn(slots), OwnChild, ThreadIn(slots), faults \subseteq faults'
    PROVE  Tidy'
<1>1. /\ kind \in Kinds /\ generation \in Nat /\ generation <= MaxStarts
      /\ MaxStarts \in Nat /\ Tasks' = Tasks /\ profile' = profile
      /\ task \in [Generations -> [TaskNames -> Places]]
      /\ Len(Tasks) \in Nat /\ DOMAIN Tasks = 1 .. Len(Tasks) /\ "reader" \in TaskNames
  BY ChildAssumption, TaskOrder DEF TypeInv, CallerOK, TasksOK, Tasks, profile, TaskNames
<1>2. ASSUME NEW m \in i .. Len(Tasks), slots[Tasks[m]] # 0,
             \A j \in i .. m - 1 : slots[Tasks[j]] = 0,
             task' = [task EXCEPT ![slots[Tasks[m]]][Tasks[m]] = Cancelled(@)],
             stage' = [at |-> "joining", next |-> m], child' = child
      PROVE  Tidy'
  <2> DEFINE n == Tasks[m]
             g == slots[n]
             c == Cancelled(task[g][n])
  <2>1. n \in TaskNames /\ g \in Generations
    BY <1>1, <1>2, TaskOrder DEF Generations
  <2>2. task' = [task EXCEPT ![g] = [task[g] EXCEPT ![n] = c]]
    BY <1>2
  <2>3. /\ stage'.at = "joining" /\ stage'.next = m
        /\ \A j \in 1 .. m - 1 : slots[Tasks[j]] = 0
    BY <1>1, <1>2
  <2>4. g = slots[n] /\ n = Tasks[m]
    OBVIOUS
  <2> HIDE DEF n, g
  <2>5. task[g][n] \in Places
    BY <1>1, <2>1
  <2>6. c \in Settled /\ c \in Places
    BY <2>5, CancelledTypes DEF Settled, Places
  <2>7. kind = "bcc" /\ task[g][n] \in {"reading", "joining"} => c = "joining"
    BY DEF Cancelled
  <2> HIDE DEF c
  <2>8. /\ task'[g][n] = c
        /\ \A h \in Generations, l \in TaskNames : h # g \/ l # n => task'[h][l] = task[h][l]
    BY <1>1, <2>1, <2>2, <2>6, OneTask
  <2>9. (HeldIn(slot))'
    BY <1>2, <2>4, <2>8 DEF HeldIn, Alive
  <2>10. SlotsOK'
    <3>1. task'[slot'[Tasks'[stage'.next]]][Tasks'[stage'.next]] \in Settled
      BY <1>1, <2>3, <2>4, <2>6, <2>8
    <3>2. QED  BY <1>1, <2>3, <3>1 DEF SlotsOK
  <2>11. OwnChild'
    <3>1. \A h \in Generations : task'[h]["reader"] = "created" => task[h]["reader"] = "created"
      BY <1>1, <2>6, <2>8 DEF Settled
    <3>2. QED  BY <1>1, <1>2, <2>3, <3>1 DEF OwnChild
  <2>12. (ThreadIn(slot))'
    <3>1. kind = "bcc" => \A h \in Generations :
             task[h]["reader"] \in {"reading", "joining"}
                => task'[h]["reader"] \in {"reading", "joining"}
      BY <1>1, <2>7, <2>8
    <3>2. QED  BY <1>2, <3>1 DEF ThreadIn
  <2>13. QED  BY <2>9, <2>10, <2>11, <2>12 DEF Tidy
<1>3. ASSUME \A j \in i .. Len(Tasks) : slots[Tasks[j]] = 0,
             stage' = IF proc # 0 THEN [at |-> "reaping"] ELSE RestoreOr("down"),
             task' = task,
             \/ stage'.at = "joining" /\ child' = child
             \/ /\ proc # 0 /\ stage' = [at |-> "reaping"]
                /\ \A h \in Generations :
                      /\ child'[h]["reader"] # child[h]["reader"] => child'[h]["reader"] = "told"
                      /\ h = proc => child'[h]["reader"] # "running"
             \/ proc = 0 /\ stage' = RestoreOr("down") /\ child' = child
      PROVE  Tidy'
  <2>1. \A n \in TaskNames : slots[n] = 0
    BY <1>1, <1>3
  <2>2. stage'.at \in {"reaping", "restoring", "down"}
    BY <1>3 DEF RestoreOr
  <2>3. \A h \in Generations : child'[h]["reader"] = "running" =>
           child[h]["reader"] = "running" /\ h # proc
    BY <1>3, <2>2 DEF Generations
  <2>4. (HeldIn(slot))'
    BY <1>3 DEF HeldIn, Alive
  <2>5. SlotsOK'
    BY <2>1, <2>2 DEF SlotsOK
  <2>6. OwnChild'
    BY <1>3, <2>3 DEF OwnChild
  <2>7. (ThreadIn(slot))'
    BY <1>3, <2>3 DEF ThreadIn
  <2>8. QED  BY <2>4, <2>5, <2>6, <2>7 DEF Tidy
<1>4. CASE \E m \in i .. Len(Tasks) :
              /\ slots[Tasks[m]] # 0
              /\ \A j \in i .. m - 1 : slots[Tasks[j]] = 0
              /\ task' = [task EXCEPT ![slots[Tasks[m]]][Tasks[m]] = Cancelled(@)]
              /\ stage' = [at |-> "joining", next |-> m]
              /\ child' = child
  BY <1>2, <1>4
<1>5. CASE /\ \A j \in i .. Len(Tasks) : slots[Tasks[j]] = 0
           /\ stage' = IF proc # 0 THEN [at |-> "reaping"] ELSE RestoreOr("down")
           /\ child' = IF proc # 0 /\ child[proc]["reader"] = "running"
                       THEN [child EXCEPT ![proc]["reader"] = "told"] ELSE child
           /\ task' = task
  BY <1>3, <1>5, CancelFromStage
<1>6. kind \in Kinds /\ i \in Nat \ {0}
  BY <1>1
<1>7. \/ \E m \in i .. Len(Tasks) :
            /\ slots[Tasks[m]] # 0
            /\ \A j \in i .. m - 1 : slots[Tasks[j]] = 0
            /\ task' = [task EXCEPT ![slots[Tasks[m]]][Tasks[m]] = Cancelled(@)]
            /\ stage' = [at |-> "joining", next |-> m]
            /\ child' = child
      \/ /\ \A j \in i .. Len(Tasks) : slots[Tasks[j]] = 0
         /\ stage' = IF proc # 0 THEN [at |-> "reaping"] ELSE RestoreOr("down")
         /\ child' = IF proc # 0 /\ child[proc]["reader"] = "running"
                     THEN [child EXCEPT ![proc]["reader"] = "told"] ELSE child
         /\ task' = task
  BY <1>6, CancelFromCases
<1>8. QED
  BY <1>4, <1>5, <1>7

\* Steps of a caller that neither has a task nor awaits one.
LEMMA QuietTidy ==
    ASSUME TypeInv, Tidy, stage.at \notin {"up", "joining"},
           UNCHANGED <<kind, slot, task, child>>, faults \subseteq faults',
           stage'.at # "joining",
           stage'.at \in {"asking", "halting", "spawning"} => profile.start.by = "start"
    PROVE  Tidy'
<1>1. Tasks' = Tasks /\ profile' = profile
  BY DEF Tasks, profile
<1>2. \A n \in TaskNames : slot[n] = 0
  BY DEF Tidy, SlotsOK
<1>3. (HeldIn(slot))'
  BY DEF Tidy, HeldIn, Alive
<1>4. SlotsOK'
  BY <1>1, <1>2 DEF SlotsOK
<1>5. OwnChild'
  BY DEF Tidy, OwnChild
<1>6. (ThreadIn(slot))'
  BY DEF Tidy, ThreadIn
<1>7. QED  BY <1>3, <1>4, <1>5, <1>6 DEF Tidy

\* A start that creates its tasks, with or without its child.
LEMMA LaunchedTidy ==
    ASSUME TypeInv, Tidy, stage.at \notin {"up", "joining"}, NEW g \in Generations,
           Launched(g), kind' = kind, faults \subseteq faults',
           \/ child' = child
           \/ /\ child' = [child EXCEPT ![g]["reader"] = "running"] /\ proc' = g
              /\ profile.start.by = "start"
    PROVE  Tidy'
<1>1. /\ kind \in Kinds /\ task \in [Generations -> [TaskNames -> Places]]
      /\ child \in [Generations -> [Owners -> {"none", "running", "told", "exited"}]]
      /\ Tasks' = Tasks /\ profile' = profile /\ "reader" \in Owners /\ "reader" \in TaskNames
      /\ slot \in [TaskNames -> 0 .. generation]
  BY DEF TypeInv, CallerOK, TasksOK, Tasks, profile, Owners, TaskNames
<1>2. /\ \A n \in TaskNames : slot[n] = 0
      /\ \A h \in Generations, n \in TaskNames : ~Alive(h, n)
  BY DEF Tidy, SlotsOK, HeldIn, Generations
<1> DEFINE N == {n \in TaskNames : \E i \in DOMAIN Tasks : Tasks[i] = n}
<1>3. /\ running' = TRUE
      /\ slot' = [n \in TaskNames |-> IF n \in N THEN g ELSE slot[n]]
      /\ task' = [task EXCEPT ![g] = [n \in TaskNames |->
                      IF n \in N THEN "created" ELSE task[g][n]]]
      /\ stage'.at = "up"
  BY DEF Launched, Up
<1>4. \A n \in N : \E i \in DOMAIN Tasks : Tasks[i] = n
  OBVIOUS
<1> HIDE DEF N
<1>5. \A n \in TaskNames : slot'[n] = IF n \in N THEN g ELSE 0
  BY <1>2, <1>3
<1>6. /\ \A n \in TaskNames : task'[g][n] = IF n \in N THEN "created" ELSE task[g][n]
      /\ \A h \in Generations : h # g => task'[h] = task[h]
  BY <1>1, <1>3
<1>7. (HeldIn(slot))'
  <2>1. SUFFICES ASSUME NEW h \in Generations, NEW n \in TaskNames, Alive(h, n)'
                 PROVE  slot'[n] = h
    BY DEF HeldIn
  <2>2. h = g /\ n \in N
    BY <1>2, <1>6, <2>1 DEF Alive
  <2>3. QED  BY <1>5, <2>2
<1>8. SlotsOK'
  BY <1>1, <1>3, <1>4, <1>5 DEF SlotsOK
<1>9. kind = "bcc" => profile.start.by = "task"
  BY <1>1, ProfileFacts
<1>10. \/ child' = child
       \/ /\ \A h \in Generations : h # g => child'[h] = child[h]
          /\ proc' = g /\ profile.start.by = "start"
  BY <1>1
<1>11. OwnChild'
  BY <1>1, <1>3, <1>10 DEF Tidy, OwnChild
<1>12. (ThreadIn(slot))'
  <2>1. SUFFICES ASSUME kind = "bcc", NEW h \in Generations,
                        child'[h]["reader"] = "running"
                 PROVE  "cancel" \in faults'
    BY DEF ThreadIn
  <2>2. child[h]["reader"] = "running"
    BY <1>9, <1>10, <2>1
  <2>3. slot["reader"] # h
    BY <1>1, <1>2 DEF Generations
  <2>4. QED  BY <2>1, <2>2, <2>3 DEF Tidy, ThreadIn
<1>13. QED  BY <1>7, <1>8, <1>11, <1>12 DEF Tidy

LEMMA CallerKeepsTidy ==
    ASSUME TypeInv, Tidy, Start \/ Stop \/ CancelCaller \/ CallerSteps, ~botched'
    PROVE  Tidy'
<1>1. /\ kind \in Kinds /\ StageOK /\ generation \in Nat /\ MaxStarts \in Nat
      /\ generation <= MaxStarts /\ slot \in [TaskNames -> 0 .. generation]
      /\ task \in [Generations -> [TaskNames -> Places]]
      /\ \A n \in TaskNames : slot[n] # 0 => \E i \in DOMAIN Tasks : Tasks[i] = n
      /\ Len(Tasks) \in Nat /\ DOMAIN Tasks = 1 .. Len(Tasks)
      /\ \A i \in 1 .. Len(Tasks) : Tasks[i] \in TaskNames
  BY ChildAssumption, TaskOrder DEF TypeInv, CallerOK, TasksOK, Tidy, SlotsOK
<1>2. kind' = kind /\ faults \subseteq faults'
  BY DEF Start, Stop, CancelCaller, CallerSteps, Ask, Halt, Spawn, Join, Reap, Restore, Fault
<1>3. /\ stage.at \in {"asking", "halting", "spawning"} => profile.start.by = "start"
      /\ kind = "managed" => profile.start.by = "start"
  BY <1>1, ProfileFacts DEF Tidy, SlotsOK
<1>4. CASE Start
  <2>1. stage.at = "down" /\ generation < MaxStarts /\ child' = child
    BY <1>4 DEF Start, Down
  <2>2. CASE /\ stage'.at \in {"asking", "spawning"} /\ profile.start.by = "start"
             /\ UNCHANGED <<selfVars, task>>
    BY <1>2, <2>1, <2>2, QuietTidy DEF selfVars
  <2>3. CASE Launched(generation + 1)
    <3>1. generation + 1 \in Generations
      BY <1>1, <2>1 DEF Generations
    <3>2. QED  BY <1>2, <2>1, <2>3, <3>1, LaunchedTidy
  <2>4. QED  BY <1>3, <1>4, <2>2, <2>3 DEF Start
<1>5. CASE Ask
  <2>1. /\ stage.at = "asking" /\ UNCHANGED <<slot, task, child>>
        /\ stage' = Up \/ \E a \in {"halting", "spawning"} : stage' = [at |-> a]
    BY <1>5 DEF Ask, selfVars
  <2>2. stage'.at \in {"up", "halting", "spawning"}
    BY <2>1 DEF Up
  <2>3. QED  BY <1>2, <1>3, <2>1, <2>2, QuietTidy
<1>6. CASE Halt
  <2>1. /\ stage.at = "halting" /\ UNCHANGED <<slot, task, child>>
        /\ stage'.at \in {"up", "spawning"}
    BY <1>6 DEF Halt, selfVars, Up
  <2>2. QED  BY <1>2, <1>3, <2>1, QuietTidy
<1>7. CASE Spawn
  <2>1. stage.at = "spawning" /\ generation \in Generations
    BY <1>1, <1>7 DEF Spawn, TypeInv, CallerOK, Generations
  <2>2. CASE /\ child' = [child EXCEPT ![generation]["reader"] = "running"]
             /\ proc' = generation /\ Launched(generation)
    BY <1>2, <1>3, <2>1, <2>2, LaunchedTidy
  <2>3. CASE UNCHANGED <<slot, task, child>> /\ stage'.at \in {"restoring", "up"}
    BY <1>2, <2>1, <2>3, QuietTidy
  <2>4. QED  BY <1>7, <2>2, <2>3 DEF Spawn, Up, selfVars
<1>8. CASE Stop
  <2>1. CancelFrom(1, slot) /\ UNCHANGED <<kind, generation, slot, proc>>
    BY <1>8 DEF Stop
  <2>2. \A j \in 1 .. 1 - 1 : slot[Tasks[j]] = 0
    OBVIOUS
  <2>3. QED  BY <1>1, <1>2, <2>1, <2>2, CancelFromTidy DEF Tidy
<1>9. CASE Join
  <2> DEFINE name == Tasks[stage.next]
             g == slot[name]
             freed == [slot EXCEPT ![name] = 0]
  <2>1. /\ stage.at = "joining" /\ UNCHANGED <<kind, generation, proc>>
        /\ task[g][name] \in {"ended", "cancelled"}
        /\ slot' = freed /\ CancelFrom(stage.next + 1, freed)
    BY <1>9 DEF Join
  <2>2. /\ stage.next \in 1 .. Len(Tasks) /\ name \in TaskNames /\ g # 0
        /\ stage.next + 1 \in Nat \ {0}
    BY <1>1, <2>1, StageIs DEF TypeInv, CallerOK
  <2>3. /\ freed \in [TaskNames -> 0 .. generation] /\ freed[name] = 0
        /\ \A n \in TaskNames : freed[n] = slot[n] \/ n = name
        /\ \A n \in TaskNames : freed[n] # 0 => slot[n] # 0
    <3>1. 0 \in 0 .. generation
      BY <1>1
    <3> HIDE DEF name
    <3>2. QED  BY <1>1, <2>2, <3>1
  <2>4. \A j \in 1 .. stage.next - 1 : slot[Tasks[j]] = 0
    BY <2>1 DEF Tidy, SlotsOK
  <2>5. name = Tasks[stage.next]
    OBVIOUS
  <2> HIDE DEF freed, g, name
  <2>6. \A j \in 1 .. (stage.next + 1) - 1 : freed[Tasks[j]] = 0
    <3>1. TAKE j \in 1 .. (stage.next + 1) - 1
    <3>2. CASE j = stage.next
      BY <2>3, <2>5, <3>2
    <3>3. CASE j # stage.next
      <4>1. j \in 1 .. stage.next - 1 /\ Tasks[j] \in TaskNames
        BY <1>1, <2>2, <3>3
      <4>2. QED  BY <2>3, <2>4, <4>1
    <3>4. QED  BY <3>2, <3>3
  <2>7. HeldIn(freed)
    BY <2>1, <2>3 DEF Tidy, HeldIn, Alive, g
  <2>8. ThreadIn(freed)
    BY <2>1, <2>3 DEF Tidy, ThreadIn, g, TaskNames
  <2>9. QED  BY <1>1, <1>2, <2>1, <2>2, <2>3, <2>6, <2>7, <2>8, CancelFromTidy DEF Tidy
<1>11. CASE Reap
  <2>1. /\ stage.at = "reaping" /\ UNCHANGED <<slot, task, child>>
        /\ stage' = RestoreOr("down")
    BY <1>11 DEF Reap
  <2>2. stage'.at \in {"restoring", "down"}
    BY <2>1 DEF RestoreOr
  <2>3. QED  BY <1>2, <2>1, <2>2, QuietTidy
<1>12. CASE Restore
  <2>1. /\ stage.at = "restoring" /\ UNCHANGED <<slot, task, child>>
        /\ stage' = [at |-> stage.then] /\ stage.then \in {"up", "down"}
    BY <1>1, <1>12, StageIs DEF Restore, selfVars
  <2>2. stage'.at \in {"up", "down"}
    BY <2>1
  <2>3. QED  BY <1>2, <2>1, <2>2, QuietTidy
<1>13. CASE CancelCaller
  <2>1. "cancel" \in faults' /\ stage.at # "up" /\ UNCHANGED <<slot, child, proc, running>>
    BY <1>1, <1>13, StageIs DEF CancelCaller, Fault, selfVars
  <2>2. CASE stage.at # "joining"
    <3>1. stage'.at = "up" /\ task' = task
      BY <1>13, <2>2 DEF CancelCaller, Up
    <3>2. QED  BY <1>2, <2>1, <2>2, <3>1, QuietTidy
  <2>3. CASE stage.at = "joining"
    <3> DEFINE n == Tasks[stage.next]
               g == slot[n]
               x == IF task[g][n] = "joining" THEN "cancelled" ELSE task[g][n]
    <3>1. task' = [task EXCEPT ![g] = [task[g] EXCEPT ![n] = x]] /\ stage' = stage
      BY <1>13, <2>3 DEF CancelCaller
    <3>2. n \in TaskNames /\ g \in Generations /\ Tasks' = Tasks /\ profile' = profile
      BY <1>1, <1>2, <2>3, StageIs, TaskOrder DEF TypeInv, CallerOK, Generations, Tasks, profile
    <3>3. task[g][n] \in Settled
      BY <2>3 DEF Tidy, SlotsOK
    <3>4. n = Tasks[stage.next] /\ g = slot[n]
      OBVIOUS
    <3> HIDE DEF n, g
    <3>5. x \in Places /\ x \in Settled /\ (x = task[g][n] \/ x = "cancelled")
      BY <1>1, <3>2, <3>3 DEF Places, Settled
    <3> HIDE DEF x
    <3>6. /\ task'[g][n] = x
          /\ \A h \in Generations, l \in TaskNames : h # g \/ l # n => task'[h][l] = task[h][l]
      BY <1>1, <3>1, <3>2, <3>5, OneTask
    <3>7. (HeldIn(slot))'
      BY <2>1, <3>4, <3>5, <3>6 DEF Tidy, HeldIn, Alive
    <3>8. SlotsOK'
      <4>1. task'[slot'[Tasks'[stage'.next]]][Tasks'[stage'.next]] \in Settled
        BY <2>1, <3>1, <3>2, <3>4, <3>5, <3>6
      <4>2. QED  BY <2>1, <2>3, <3>1, <3>2, <4>1 DEF Tidy, SlotsOK
    <3>9. OwnChild'
      <4>1. \A h \in Generations : task'[h]["reader"] = "created" => task[h]["reader"] = "created"
        BY <3>5, <3>6 DEF TaskNames
      <4>2. QED  BY <1>2, <2>1, <3>1, <3>2, <4>1 DEF Tidy, OwnChild
    <3>10. (ThreadIn(slot))'
      BY <2>1 DEF ThreadIn
    <3>11. QED  BY <3>7, <3>8, <3>9, <3>10 DEF Tidy
  <2>4. QED  BY <2>2, <2>3
<1>14. QED
  BY <1>4, <1>5, <1>6, <1>7, <1>8, <1>9, <1>11, <1>12, <1>13 DEF CallerSteps

LEMMA TasksKeepTidy ==
    ASSUME TypeInv, Tidy, NEW g \in Generations, TaskMoves(g)
    PROVE  Tidy' /\ stage # Down
<1>1. /\ kind \in Kinds /\ StageOK /\ generation \in Nat /\ MaxStarts \in Nat
      /\ generation <= MaxStarts /\ slot \in [TaskNames -> 0 .. generation]
      /\ task \in [Generations -> [TaskNames -> Places]]
      /\ child \in [Generations -> [Owners -> {"none", "running", "told", "exited"}]]
      /\ Len(Tasks) \in Nat /\ DOMAIN Tasks = 1 .. Len(Tasks)
      /\ \A i \in 1 .. Len(Tasks) : Tasks[i] \in TaskNames
      /\ "reader" \in TaskNames /\ "reader" \in Owners /\ "ftrace" \in Owners
      /\ g # 0
  BY ChildAssumption, TaskOrder
  DEF TypeInv, CallerOK, TasksOK, Owners, TaskNames, Generations
<1>2. /\ UNCHANGED <<kind, stage, running, slot>> /\ faults \subseteq faults'
      /\ Tasks' = Tasks /\ profile' = profile
  BY DEF TaskMoves, Tasks, profile
<1>3. PICK n \in TaskNames, x \in Goals :
         Moved(g, n, x) /\ (UNCHANGED <<child, proc>> \/ ChildStarted(g, n, x))
  BY DEF TaskMoves
<1>4. /\ Alive(g, n) /\ slot[n] = g
      /\ x \in Places /\ x \notin {"none", "created", "joining"}
      /\ x \in Settled \/ x \in {"reading", "sleeping"}
  BY <1>3 DEF Tidy, HeldIn, Moved, Goals, Places, Settled
<1>5. stage.at \in {"up", "joining"} /\ stage # Down
  BY <1>1, <1>4 DEF Tidy, SlotsOK, Down
<1>6. /\ task'[g][n] = x
      /\ \A h \in Generations, l \in TaskNames : h # g \/ l # n => task'[h][l] = task[h][l]
  <2>1. task' = [task EXCEPT ![g] = [task[g] EXCEPT ![n] = x]]
    BY <1>3 DEF Moved
  <2>2. QED  BY <1>1, <1>4, <2>1, OneTask
<1>7. (HeldIn(slot))'
  BY <1>2, <1>4, <1>6 DEF Tidy, HeldIn, Alive
\* A task that stop awaits and that still moves is waiting for its thread.
<1>8. stage.at = "joining" /\ n = Tasks[stage.next] => task[g][n] = "joining" /\ x = "cancelled"
  <2>1. stage.at = "joining" /\ n = Tasks[stage.next] => task[g][n] \in Settled
    BY <1>4 DEF Tidy, SlotsOK
  <2>2. QED  BY <1>3, <1>4, <2>1 DEF Settled, Moved, Alive
<1>9. SlotsOK'
  <2>1. ASSUME stage.at = "joining"
        PROVE  task'[slot[Tasks[stage.next]]][Tasks[stage.next]] \in Settled
    <3>1. task[slot[Tasks[stage.next]]][Tasks[stage.next]] \in Settled
      BY <2>1 DEF Tidy, SlotsOK
    <3>2. Tasks[stage.next] \in TaskNames /\ slot[Tasks[stage.next]] \in Generations
      BY <1>1, <2>1, StageIs DEF TypeInv, CallerOK, Generations
    <3>3. CASE Tasks[stage.next] = n
      BY <1>4, <1>6, <1>8, <2>1, <3>3 DEF Settled
    <3>4. CASE Tasks[stage.next] # n
      BY <1>6, <3>1, <3>2, <3>4
    <3>5. QED  BY <3>3, <3>4
  <2>2. QED  BY <1>2, <2>1 DEF Tidy, SlotsOK
<1>10. OwnChild'
  <2>1. \A h \in Generations : task'[h]["reader"] = "created" =>
           task[h]["reader"] = "created" /\ (h # g \/ n # "reader")
    BY <1>1, <1>4, <1>6
  <2>2. CASE UNCHANGED <<child, proc>>
    BY <1>2, <2>1, <2>2 DEF Tidy, OwnChild
  <2>3. CASE ChildStarted(g, n, x) /\ n # "reader"
    <3>1. PICK to \in {"running", "told"} :
             child' = [child EXCEPT ![g] = [child[g] EXCEPT ![n] = to]]
      BY <2>3 DEF ChildStarted
    <3>2. n \in Owners /\ proc' = proc
      BY <2>3 DEF ChildStarted
    <3>3. \A h \in Generations : child'[h]["reader"] = child[h]["reader"]
      BY <1>1, <2>3, <3>1, <3>2
    <3>4. QED  BY <1>2, <2>1, <3>2, <3>3 DEF Tidy, OwnChild
  <2>4. CASE ChildStarted(g, n, x) /\ n = "reader"
    <3>1. PICK to \in {"running", "told"} :
             child' = [child EXCEPT ![g] = [child[g] EXCEPT ![n] = to]]
      BY <2>4 DEF ChildStarted
    <3>2. /\ task[g]["reader"] = "created" /\ profile.start.by = "task"
          /\ kind # "bcc" => proc' = g
      BY <2>4 DEF ChildStarted
    <3>3. \A h \in Generations : h # g => child'[h] = child[h]
      BY <1>1, <3>1
    <3>4. kind # "bcc" => \A h \in Generations : child[h]["reader"] # "running"
      BY <3>2 DEF Tidy, OwnChild
    <3>5. \A h \in Generations : task'[h]["reader"] # "created"
      <4>1. \A h \in Generations : task[h]["reader"] = "created" => slot["reader"] = h
        BY <1>1 DEF Tidy, HeldIn, Alive
      <4>2. QED  BY <1>4, <2>1, <2>4, <4>1
    <3>6. QED  BY <1>2, <1>5, <3>2, <3>3, <3>4, <3>5 DEF OwnChild
  <2>5. QED  BY <1>3, <2>2, <2>3, <2>4
<1>11. (ThreadIn(slot))'
  <2>1. SUFFICES ASSUME kind = "bcc", "cancel" \notin faults',
                        NEW h \in Generations, child'[h]["reader"] = "running"
                 PROVE  slot["reader"] = h /\ task'[h]["reader"] \in {"reading", "joining"}
    BY <1>2 DEF ThreadIn
  <2>2. Tasks = <<"reader">>
    BY <1>1, <2>1, ProfileFacts
  <2>3. n = "reader"
    <3>1. \E i \in DOMAIN Tasks : Tasks[i] = n
      BY <1>1, <1>4 DEF Tidy, SlotsOK
    <3>2. QED  BY <2>2, <3>1
  <2>4. stage.at = "joining" => n = Tasks[stage.next]
    <3>1. stage.at = "joining" => stage.next \in DOMAIN Tasks
      BY <1>1, StageIs
    <3>2. QED  BY <2>2, <2>3, <3>1
  <2>5. stage.at = "up" => running
    BY <1>1, <1>4 DEF Tidy, SlotsOK
  <2>6. h = g /\ task[g][n] # "joining" => x = "reading"
    <3>1. task[g][n] # "joining" => stage.at = "up"
      BY <1>5, <1>8, <2>4
    <3>2. CASE ChildStarted(g, n, x)
      BY <1>3, <2>1, <2>3, <2>5, <3>1, <3>2 DEF Moved, ChildStarted
    <3>3. CASE child' = child
      <4>1. h = g => task[g][n] \in {"reading", "joining"}
        BY <1>2, <2>1, <2>3, <3>3 DEF Tidy, ThreadIn
      <4>2. QED  BY <1>3, <2>1, <2>3, <2>5, <3>1, <4>1 DEF Moved, Goals
    <3>4. QED  BY <1>3, <3>2, <3>3
  <2>7. h # g => child'[h] = child[h]
    <3>1. CASE child' = child
      BY <3>1
    <3>2. CASE ChildStarted(g, n, x)
      <4>1. PICK to \in {"running", "told"} :
               child' = [child EXCEPT ![g] = [child[g] EXCEPT ![n] = to]]
        BY <3>2 DEF ChildStarted
      <4>2. QED  BY <1>1, <4>1
    <3>3. QED  BY <1>3, <3>1, <3>2
  <2>8. CASE h # g
    <3>1. child[h]["reader"] = "running"
      BY <2>1, <2>7, <2>8
    <3>2. slot["reader"] = h
      BY <1>2, <2>1, <3>1 DEF Tidy, ThreadIn
    <3>3. QED  BY <1>4, <2>3, <2>8, <3>2
  <2>9. CASE h = g
    <3>1. task[g][n] # "joining"
      <4>1. ASSUME task[g][n] = "joining" PROVE FALSE
        <5>1. child[g]["reader"] = "exited"
          BY <1>3, <4>1 DEF Moved
        <5>2. ~ChildStarted(g, n, x)
          BY <4>1 DEF ChildStarted
        <5>3. QED  BY <1>3, <2>1, <2>9, <5>1, <5>2
      <4>2. QED  BY <4>1
    <3>2. QED  BY <1>4, <1>6, <2>3, <2>6, <2>9, <3>1
  <2>10. QED  BY <2>8, <2>9
<1>12. QED  BY <1>5, <1>7, <1>9, <1>10, <1>11 DEF Tidy

LEMMA ChildrenKeepTidy ==
    ASSUME TypeInv, Tidy, NEW g \in Generations, Prints(g) \/ \E o \in Owners : Exits(g, o)
    PROVE  Tidy'
<1>1. /\ UNCHANGED <<kind, stage, task, running, slot, proc>> /\ faults \subseteq faults'
  BY DEF Prints, Exits, Fault, selfVars
<1>2. \A h \in Generations : child'[h]["reader"] = "running" => child[h]["reader"] = "running"
  <2>1. child \in [Generations -> [Owners -> {"none", "running", "told", "exited"}]]
    BY DEF TypeInv, TasksOK
  <2>2. CASE Prints(g)
    BY <2>2 DEF Prints
  <2>3. ASSUME NEW o \in Owners, Exits(g, o)
        PROVE  \A h \in Generations : child'[h]["reader"] = "running"
                                         => child[h]["reader"] = "running"
    <3>1. child' = [child EXCEPT ![g] = [child[g] EXCEPT ![o] = "exited"]]
      BY <2>3 DEF Exits
    <3>2. "reader" \in Owners
      BY DEF Owners
    <3>3. QED  BY <2>1, <3>1, <3>2
  <2>4. QED  BY <2>2, <2>3
<1>3. Tasks' = Tasks /\ profile' = profile
  BY <1>1 DEF Tasks, profile
<1>4. (HeldIn(slot))'
  BY <1>1 DEF Tidy, HeldIn, Alive
<1>5. SlotsOK'
  BY <1>1, <1>3 DEF Tidy, SlotsOK
<1>6. OwnChild'
  BY <1>1, <1>2, <1>3 DEF Tidy, OwnChild
<1>7. (ThreadIn(slot))'
  BY <1>1, <1>2 DEF Tidy, ThreadIn
<1>8. QED  BY <1>4, <1>5, <1>6, <1>7 DEF Tidy

LEMMA StepClean == ASSUME TypeInv, CleanInv, [Next]_vars PROVE CleanInv'
<1>1. CASE Start \/ Stop \/ CancelCaller \/ CallerSteps
  <2>1. late' = late /\ (botched => botched')
    BY <1>1 DEF Start, Stop, CancelCaller, CallerSteps, Ask, Halt, Spawn, Join, Reap,
                Restore, outputVars
  <2>2. ~botched' => Tidy'
    BY <1>1, <2>1, CallerKeepsTidy DEF CleanInv
  <2>3. QED  BY <2>1, <2>2 DEF CleanInv
<1>2. ASSUME NEW g \in Generations, ReaderSteps(g) \/ OtherSteps(g)
      PROVE  CleanInv'
  <2>1. TaskMoves(g)
    BY <1>2, TaskSteps
  <2>2. botched' = botched /\ late' \in {late, late \/ stage = Down}
    BY <2>1 DEF TaskMoves
  <2>3. CASE botched
    BY <2>2, <2>3 DEF CleanInv
  <2>4. CASE ~botched
    <3>1. Tidy' /\ stage # Down
      BY <2>1, <2>4, TasksKeepTidy DEF CleanInv
    <3>2. ~late /\ late \in BOOLEAN
      BY <2>4 DEF CleanInv, TypeInv, FlagsOK
    <3>3. QED  BY <2>2, <3>1, <3>2 DEF CleanInv
  <2>5. QED  BY <2>3, <2>4
<1>3. ASSUME NEW g \in Generations, Prints(g) \/ \E o \in Owners : Exits(g, o)
      PROVE  CleanInv'
  <2>1. UNCHANGED <<late, botched>>
    BY <1>3 DEF Prints, Exits, outputVars
  <2>2. QED  BY <1>3, <2>1, ChildrenKeepTidy DEF CleanInv
<1>4. CASE UNCHANGED vars
  <2>1. /\ UNCHANGED <<kind, stage, running, slot, proc, task, child, late, botched, faults>>
        /\ Tasks' = Tasks /\ profile' = profile
    BY <1>4 DEF vars, selfVars, outputVars, Tasks, profile
  <2>2. HeldIn(slot) => (HeldIn(slot))'
    BY <2>1 DEF HeldIn, Alive
  <2>3. SlotsOK => SlotsOK'
    BY <2>1 DEF SlotsOK
  <2>4. OwnChild => OwnChild'
    BY <2>1 DEF OwnChild
  <2>5. ThreadIn(slot) => (ThreadIn(slot))'
    BY <2>1 DEF ThreadIn
  <2>6. QED  BY <2>1, <2>2, <2>3, <2>4, <2>5 DEF CleanInv, Tidy
<1>5. QED  BY <1>1, <1>2, <1>3, <1>4 DEF Next

LEMMA CleanInit == Init => CleanInv
<1> SUFFICES ASSUME Init PROVE CleanInv
  OBVIOUS
<1>1. stage.at = "down"
  BY DEF Init, Down
<1>2. HeldIn(slot)
  BY DEF Init, HeldIn, Alive
<1>3. SlotsOK
  BY <1>1 DEF Init, SlotsOK
<1>4. OwnChild
  BY DEF Init, OwnChild, Owners
<1>5. ThreadIn(slot)
  BY DEF Init, ThreadIn, Owners
<1>6. QED  BY <1>2, <1>3, <1>4, <1>5 DEF CleanInv, Tidy, Init

-----------------------------------------------------------------------------
\* As long as no stop has raised, a cat of trace_pipe that runs has a reader, or its
\* reader was cancelled.
CatRead ==
    \A g \in Generations : child[g]["ftrace"] = "running" =>
       /\ \E i \in DOMAIN Tasks : Tasks[i] = "ftrace"
       /\ task[g]["ftrace"] \in {"reading", "joining", "cancelled"}

CatInv == ~botched => CatRead

LEMMA CatInit == Init => CatInv
BY DEF Init, CatInv, CatRead, Owners

LEMMA CallerKeepsCat ==
    ASSUME TypeInv, Tidy, CatRead, Start \/ Stop \/ CancelCaller \/ CallerSteps
    PROVE  CatRead'
<1>1. /\ kind \in Kinds /\ generation \in Nat /\ "ftrace" \in TaskNames
      /\ child \in [Generations -> [Owners -> {"none", "running", "told", "exited"}]]
      /\ "ftrace" \in Owners /\ "reader" \in Owners
  BY ChildAssumption DEF TypeInv, CallerOK, TasksOK, Owners, TaskNames
<1>2. Tasks' = Tasks
  BY DEF Start, Stop, CancelCaller, CallerSteps, Ask, Halt, Spawn, Join, Reap, Restore,
         Tasks, profile
<1>3. ASSUME NEW h \in Generations PROVE child'[h]["ftrace"] = child[h]["ftrace"]
  <2>1. CASE child' = child
    BY <2>1
  <2>2. ASSUME NEW g, NEW to, child' = [child EXCEPT ![g]["reader"] = to]
        PROVE  child'[h]["ftrace"] = child[h]["ftrace"]
    <3>1. child' = [child EXCEPT ![g] = [child[g] EXCEPT !["reader"] = to]]
      BY <2>2
    <3>2. QED  BY <1>1, <3>1
  <2>3. ASSUME NEW i, NEW slots, CancelFrom(i, slots)
        PROVE  child'[h]["ftrace"] = child[h]["ftrace"]
    BY <2>1, <2>2, <2>3 DEF CancelFrom
  <2>4. CASE Stop
    BY <2>3, <2>4 DEF Stop
  <2>5. CASE Join
    <3>1. child' = child \/ \E i, slots : CancelFrom(i, slots)
      BY <2>5 DEF Join
    <3>2. QED  BY <2>1, <2>3, <3>1
  <2>6. CASE Spawn
    BY <2>1, <2>2, <2>6 DEF Spawn
  <2>7. CASE Start \/ CancelCaller \/ Ask \/ Halt \/ Reap \/ Restore
    <3>1. child' = child
      BY <2>7 DEF Start, CancelCaller, Ask, Halt, Reap, Restore
    <3>2. QED  BY <2>1, <3>1
  <2>8. QED  BY <2>4, <2>5, <2>6, <2>7 DEF CallerSteps
<1>4. ASSUME NEW h \in Generations,
             task[h]["ftrace"] \in {"reading", "joining", "cancelled"}
      PROVE  task'[h]["ftrace"] \in {"reading", "joining", "cancelled"}
  <2>1. Called(h, "ftrace")
    BY <1>1, CallerCalls
  <2>2. h <= generation
    BY <1>1, <1>4 DEF TypeInv, TasksOK, KnownTasks
  <2>3. ~(h = generation + 1)
    BY <1>1, <2>2 DEF Generations
  <2>4. stage.at = "spawning" => ~\E i \in DOMAIN Tasks : Tasks[i] = "ftrace"
    <3>1. stage.at = "spawning" => Tasks = <<"reader">>
      BY <1>1, ProfileFacts DEF Tidy, SlotsOK
    <3>2. QED  BY <3>1
  <2>5. QED  BY <1>4, <2>1, <2>3, <2>4 DEF Called
<1>5. QED  BY <1>2, <1>3, <1>4 DEF CatRead

LEMMA TasksKeepCat ==
    ASSUME TypeInv, CatRead, NEW g \in Generations, ReaderSteps(g) \/ OtherSteps(g)
    PROVE  CatRead'
<1>1. /\ task \in [Generations -> [TaskNames -> Places]]
      /\ child \in [Generations -> [Owners -> {"none", "running", "told", "exited"}]]
      /\ "ftrace" \in TaskNames /\ "ftrace" \in Owners /\ "reader" \in Owners
      /\ KnownTasks /\ kind' = kind /\ Tasks' = Tasks
  BY TaskSteps DEF TypeInv, TasksOK, Owners, TaskNames, TaskMoves, Tasks, profile
\* A step that leaves the reader of trace_pipe and its cat alone.
<1>2. ASSUME \A h \in Generations : /\ task'[h]["ftrace"] = task[h]["ftrace"]
                                    /\ child'[h]["ftrace"] = child[h]["ftrace"]
      PROVE  CatRead'
  BY <1>1, <1>2 DEF CatRead
<1>3. ASSUME NEW n \in {"reader", "poller"}, NEW x, task' = [task EXCEPT ![g][n] = x]
      PROVE  \A h \in Generations : task'[h]["ftrace"] = task[h]["ftrace"]
  BY <1>1, <1>3
<1>4. CASE ReaderSteps(g)
  <2>1. ASSUME NEW x, child' = [child EXCEPT ![g]["reader"] = x] \/ child' = child
        PROVE  \A h \in Generations : child'[h]["ftrace"] = child[h]["ftrace"]
    BY <1>1, <2>1
  <2>2. CASE ReaderBegins(g)
    BY <1>2, <1>3, <2>2 DEF ReaderBegins
  <2>3. CASE ReadLine(g)
    <3>1. child' = child /\ \E x : task' = [task EXCEPT ![g]["reader"] = x]
      BY <2>3 DEF ReadLine, Leave
    <3>2. QED  BY <1>2, <1>3, <3>1
  <2>4. CASE ReadEnd(g)
    BY <1>2, <1>3, <2>4 DEF ReadEnd, Leave
  <2>5. CASE Joined(g)
    BY <1>2, <1>3, <2>5 DEF Joined
  <2>6. CASE ChildStarts(g, "reader")
    <3>1. /\ \E x : child' = [child EXCEPT ![g]["reader"] = x] \/ child' = child
          /\ \E x : task' = [task EXCEPT ![g]["reader"] = x]
      BY <2>6 DEF ChildStarts
    <3>2. QED  BY <1>2, <1>3, <2>1, <3>1
  <2>7. QED  BY <1>4, <2>2, <2>3, <2>4, <2>5, <2>6 DEF ReaderSteps
<1>5. CASE Poll(g)
  <2>1. child' = child /\ \E x : task' = [task EXCEPT ![g]["poller"] = x]
    BY <1>5 DEF Poll
  <2>2. QED  BY <1>2, <1>3, <2>1
<1>6. CASE FtraceEnds(g)
  <2>1. child' = child /\ child[g]["ftrace"] = "exited"
    BY <1>6 DEF FtraceEnds
  <2>2. \A h \in Generations : h # g => task'[h] = task[h]
    BY <1>1, <1>6 DEF FtraceEnds
  <2>3. QED  BY <1>1, <2>1, <2>2 DEF CatRead
<1>7. CASE ChildStarts(g, "ftrace")
  <2>1. \A h \in Generations : h # g => task'[h] = task[h] /\ child'[h] = child[h]
    BY <1>1, <1>7 DEF ChildStarts
  <2>2. /\ task[g]["ftrace"] = "created"
        /\ \E i \in DOMAIN Tasks : Tasks[i] = "ftrace"
    BY <1>1, <1>7 DEF ChildStarts, KnownTasks
  <2>3. child'[g]["ftrace"] = "running" => task'[g]["ftrace"] = "reading"
    <3>1. CASE /\ child' = [child EXCEPT ![g]["ftrace"] = IF ~running THEN "told" ELSE "running"]
               /\ task' = [task EXCEPT ![g]["ftrace"] = IF running THEN "reading" ELSE "ended"]
      BY <1>1, <3>1
    <3>2. CASE child' = child
      BY <2>2, <3>2 DEF CatRead
    <3>3. QED  BY <1>7, <3>1, <3>2 DEF ChildStarts
  <2>4. QED  BY <1>1, <2>1, <2>2, <2>3 DEF CatRead
<1>8. QED  BY <1>4, <1>5, <1>6, <1>7 DEF OtherSteps

LEMMA StepCat == ASSUME TypeInv, CleanInv, CatInv, [Next]_vars PROVE CatInv'
<1>1. botched => botched'
  BY DEF Next, Start, Stop, CancelCaller, CallerSteps, Ask, Halt, Spawn, Join, Reap,
         Restore, ReaderSteps, OtherSteps, ReaderBegins, ReadLine, ReadEnd, Joined,
         ChildStarts, FtraceEnds, Poll, Prints, Exits, vars
<1>2. SUFFICES ASSUME ~botched PROVE CatRead'
  BY <1>1 DEF CatInv
<1>3. Tidy /\ CatRead
  BY <1>2 DEF CleanInv, CatInv
<1>4. CASE Start \/ Stop \/ CancelCaller \/ CallerSteps
  BY <1>3, <1>4, CallerKeepsCat
<1>5. ASSUME NEW g \in Generations, ReaderSteps(g) \/ OtherSteps(g) PROVE CatRead'
  BY <1>3, <1>5, TasksKeepCat
<1>6. ASSUME NEW g \in Generations, Prints(g) \/ \E o \in Owners : Exits(g, o)
      PROVE  CatRead'
  <2>1. UNCHANGED <<kind, task>> /\ Tasks' = Tasks
    BY <1>6 DEF Prints, Exits, Tasks, profile
  <2>2. \A h \in Generations : child'[h]["ftrace"] \in {child[h]["ftrace"], "exited"}
    <3>1. /\ child \in [Generations -> [Owners -> {"none", "running", "told", "exited"}]]
          /\ "ftrace" \in Owners
      BY DEF TypeInv, TasksOK, Owners
    <3>2. child' = child \/ \E o \in Owners : child' = [child EXCEPT ![g][o] = "exited"]
      BY <1>6 DEF Prints, Exits
    <3>3. QED  BY <3>1, <3>2
  <2>3. QED  BY <1>3, <2>1, <2>2 DEF CatRead
<1>7. CASE UNCHANGED vars
  <2>1. UNCHANGED <<kind, task, child>> /\ Tasks' = Tasks
    BY <1>7 DEF vars, Tasks, profile
  <2>2. QED  BY <1>3, <2>1 DEF CatRead
<1>8. QED  BY <1>4, <1>5, <1>6, <1>7 DEF Next

LEMMA CleanLeavesNothing == TypeInv /\ CleanInv /\ CatInv => LeavesNothingBehind
<1> SUFFICES ASSUME TypeInv, CleanInv, CatInv PROVE LeavesNothingBehind
  OBVIOUS
<1>1. TypeOK
  BY TypeInvIsTypeOK
<1>2. late => botched
  BY DEF CleanInv
<1>3. ASSUME stage = Down, ~botched, NEW g \in Generations
      PROVE  /\ \A n \in TaskNames : ~Alive(g, n)
             /\ child[g]["reader"] = "running" => kind = "bcc" /\ "cancel" \in faults
             /\ child[g]["ftrace"] = "running" =>
                   kind = "kernel" /\ task[g]["ftrace"] = "cancelled"
  <2>1. Tidy /\ stage.at = "down"
    BY <1>3 DEF CleanInv, Down
  <2>2. \A n \in TaskNames : slot[n] = 0
    BY <2>1 DEF Tidy, SlotsOK
  <2>3. \A n \in TaskNames : ~Alive(g, n)
    BY <2>1, <2>2 DEF Tidy, HeldIn, Generations
  <2>4. child[g]["reader"] = "running" => kind = "bcc" /\ "cancel" \in faults
    BY <2>1, <2>2 DEF Tidy, OwnChild, ThreadIn, Generations, TaskNames
  <2>5. child[g]["ftrace"] = "running" => kind = "kernel" /\ task[g]["ftrace"] = "cancelled"
    <3>1. ASSUME child[g]["ftrace"] = "running"
          PROVE  /\ \E i \in DOMAIN Tasks : Tasks[i] = "ftrace"
                 /\ task[g]["ftrace"] \in {"reading", "joining", "cancelled"}
      BY <1>3, <3>1 DEF CatInv, CatRead
    <3>2. (\E i \in DOMAIN Tasks : Tasks[i] = "ftrace") => kind = "kernel"
      <4>1. kind \in Kinds
        BY DEF TypeInv, CallerOK
      <4>2. kind # "kernel" => Tasks \in {<<"reader">>, <<"poller">>, <<"reader", "poller">>}
        BY <4>1, ProfileFacts
      <4>3. QED  BY <4>2
    <3>3. ~Alive(g, "ftrace")
      BY <2>3 DEF TaskNames
    <3>4. QED  BY <3>1, <3>2, <3>3 DEF Alive
  <2>6. QED  BY <2>3, <2>4, <2>5
<1>4. QED  BY <1>1, <1>2, <1>3 DEF LeavesNothingBehind

\* A stop that returns leaves no task alive, publishes nothing more, and leaves no child
\* running that was not told to end, but for two: the cat of a trace_pipe reader that
\* was cancelled, and the thread of bcc where the caller was cancelled as well.  This
\* however the collector was started and stopped and whatever failed on the way, as
\* long as no stop has raised.
THEOREM NothingIsLeftBehind == Spec => []LeavesNothingBehind
<1>1. TypeInv /\ CleanInv /\ CatInv /\ [Next]_vars
      => TypeInv' /\ CleanInv' /\ CatInv'
  BY StepTypes, StepClean, StepCat
<1>2. QED  BY <1>1, InitTypes, CleanInit, CatInit, CleanLeavesNothing, PTL DEF Spec

-----------------------------------------------------------------------------
(***************************************************************************)
(* What is read and what is published.  c is the cut of the first r lines: *)
(* H are the headers among them, T those that belong to a header before.   *)
(***************************************************************************)
Elements(s) == {s[j] : j \in DOMAIN s}
BlockOf(n, T, r) == {n} \cup {m \in n + 1 .. r : \A k \in n + 1 .. m : k \in T}

CutOf(c, H, T, r) ==
    /\ Len(c) = Cardinality(H)
    /\ \A i \in DOMAIN c :
          /\ Elements(c[i]) = BlockOf(c[i][1], T, r)
          /\ c[i][1] \in H
          /\ i > 1 => c[i - 1][1] < c[i][1]

\* A line that neither is a header nor belongs to the last one.
LEMMA NothingNew ==
    ASSUME NEW c \in Seq(Seq(Nat)), NEW r \in Nat, NEW H, NEW T,
           H \subseteq 1 .. r, T \subseteq 1 .. r, H \cap T = {}, CutOf(c, H, T, r),
           NEW U \in {T, T \cup {r + 1}},
           r + 1 \in U => c = <<>> \/ \E k \in c[Len(c)][1] + 1 .. r : k \notin T
    PROVE  CutOf(c, H, U, r + 1)
<1>1. Len(c) \in Nat /\ DOMAIN c = 1 .. Len(c)
  OBVIOUS
<1>2. ASSUME NEW i \in 1 .. Len(c)
      PROVE  BlockOf(c[i][1], U, r + 1) = BlockOf(c[i][1], T, r)
  <2> DEFINE n == c[i][1]
  <2>1. n \in 1 .. r
    BY <1>1, <1>2 DEF CutOf
  <2> HIDE DEF n
  <2>2. r + 1 \in U => \E k \in n + 1 .. r : k \notin T
    <3>1. CASE i = Len(c)
      BY <1>1, <1>2, <3>1 DEF n
    <3>2. CASE i < Len(c)
      <4>1. i + 1 \in DOMAIN c /\ i + 1 > 1 /\ (i + 1) - 1 = i
        BY <1>1, <1>2, <3>2
      <4> DEFINE l == c[i + 1][1]
      <4>2. l \in H /\ n < l
        BY <4>1 DEF CutOf, n
      <4> HIDE DEF l
      <4>3. l \in n + 1 .. r /\ l \notin T
        BY <2>1, <4>2
      <4>4. QED  BY <4>3
    <3>3. i = Len(c) \/ i < Len(c)
      <4>1. \A l \in Nat : \A j \in 1 .. l : j = l \/ j < l
        OBVIOUS
      <4>2. QED  BY <1>1, <4>1, Zenon
    <3>4. QED  BY <3>1, <3>2, <3>3
  <2>3. \A k \in 1 .. r : k \in U <=> k \in T
    OBVIOUS
  <2>4. \A m \in n + 1 .. r + 1 : (\A k \in n + 1 .. m : k \in U) =>
           m \in n + 1 .. r /\ \A k \in n + 1 .. m : k \in T
    <3>1. TAKE m \in n + 1 .. r + 1
    <3>2. HAVE \A k \in n + 1 .. m : k \in U
    <3>3. m # r + 1
      <4>1. ASSUME m = r + 1 PROVE FALSE
        <5>1. r + 1 \in U
          BY <2>1, <3>2, <4>1
        <5>2. PICK k \in n + 1 .. r : k \notin T
          BY <2>2, <5>1
        <5>3. k \in U /\ k \in 1 .. r
          BY <2>1, <3>2, <4>1, <5>2
        <5>4. QED  BY <2>3, <5>2, <5>3
      <4>2. QED  BY <4>1
    <3>4. m \in n + 1 .. r
      BY <2>1, <3>1, <3>3
    <3>5. \A k \in n + 1 .. m : k \in 1 .. r
      BY <2>1, <3>4
    <3>6. QED  BY <2>3, <3>2, <3>4, <3>5
  <2>5. \A m \in n + 1 .. r : (\A k \in n + 1 .. m : k \in T) =>
           m \in n + 1 .. r + 1 /\ \A k \in n + 1 .. m : k \in U
    <3>1. TAKE m \in n + 1 .. r
    <3>2. m \in n + 1 .. r + 1 /\ \A k \in n + 1 .. m : k \in 1 .. r
      BY <2>1, <3>1
    <3>3. QED  BY <2>3, <3>2
  <2>6. BlockOf(n, U, r + 1) = BlockOf(n, T, r)
    BY <2>4, <2>5 DEF BlockOf
  <2>7. QED  BY <2>6 DEF n
<1>3. QED  BY <1>1, <1>2 DEF CutOf

LEMMA CutIs ==
    ASSUME NEW c, NEW H, NEW T, NEW r, Len(c) = Cardinality(H),
           \A i \in DOMAIN c : /\ Elements(c[i]) = BlockOf(c[i][1], T, r)
                               /\ c[i][1] \in H
                               /\ i > 1 => c[i - 1][1] < c[i][1]
    PROVE  CutOf(c, H, T, r)
BY DEF CutOf

\* A header begins a block of its own.
LEMMA NewBlock ==
    ASSUME NEW c \in Seq(Seq(Nat)), NEW r \in Nat, NEW H, NEW T,
           H \subseteq 1 .. r, T \subseteq 1 .. r, H \cap T = {}, CutOf(c, H, T, r)
    PROVE  CutOf(Append(c, <<r + 1>>), H \cup {r + 1}, T, r + 1)
<1> DEFINE d == Append(c, <<r + 1>>)
<1>1. CutOf(c, H, T, r + 1)
  <2>1. T \in {T, T \cup {r + 1}} /\ r + 1 \notin T
    OBVIOUS
  <2>2. QED  BY <2>1, NothingNew
<1>2. /\ Len(c) \in Nat /\ DOMAIN c = 1 .. Len(c)
      /\ Len(d) = Len(c) + 1 /\ DOMAIN d = 1 .. Len(c) + 1 /\ d[Len(c) + 1] = <<r + 1>>
      /\ \A i \in 1 .. Len(c) : d[i] = c[i]
  <2>1. <<r + 1>> \in Seq(Nat)
    OBVIOUS
  <2>2. QED  BY <2>1
<1> HIDE DEF d
<1>3. Len(d) = Cardinality(H \cup {r + 1})
  <2>1. IsFiniteSet(H) /\ r + 1 \notin H
    <3>1. IsFiniteSet(1 .. r)
      BY FS_Interval
    <3>2. IsFiniteSet(H)
      BY <3>1, FS_Subset
    <3>3. r + 1 \notin 1 .. r
      OBVIOUS
    <3>4. QED  BY <3>2, <3>3
  <2>2. Cardinality(H \cup {r + 1}) = Cardinality(H) + 1
    BY <2>1, FS_AddElement
  <2>3. QED  BY <1>2, <2>2 DEF CutOf
<1>4. ASSUME NEW i \in 1 .. Len(c)
      PROVE  /\ Elements(d[i]) = BlockOf(d[i][1], T, r + 1)
             /\ d[i][1] \in H \cup {r + 1}
             /\ i > 1 => d[i - 1][1] < d[i][1]
  <2>1. i > 1 => i - 1 \in 1 .. Len(c)
    BY <1>2, <1>4
  <2>2. QED  BY <1>1, <1>2, <1>4, <2>1 DEF CutOf
<1>5. ASSUME NEW i, i = Len(c) + 1
      PROVE  /\ Elements(d[i]) = BlockOf(d[i][1], T, r + 1)
             /\ d[i][1] \in H \cup {r + 1}
             /\ i > 1 => d[i - 1][1] < d[i][1]
  <2>1. d[i] = <<r + 1>> /\ d[i][1] = r + 1
    BY <1>2, <1>5
  <2>2. Elements(<<r + 1>>) = {r + 1}
    BY DEF Elements
  <2>3. BlockOf(r + 1, T, r + 1) = {r + 1}
    <3>1. (r + 1) + 1 .. r + 1 = {}
      OBVIOUS
    <3>2. QED  BY <3>1 DEF BlockOf
  <2>4. ASSUME i > 1 PROVE d[i - 1][1] < r + 1
    <3>1. i - 1 \in 1 .. Len(c)
      BY <1>2, <1>5, <2>4
    <3>2. d[i - 1] = c[i - 1] /\ c[i - 1][1] \in H
      BY <1>1, <1>2, <3>1 DEF CutOf
    <3>3. \A h \in H : h < r + 1
      OBVIOUS
    <3>4. QED  BY <3>2, <3>3
  <2>5. i > 1 => d[i - 1][1] < d[i][1]
    BY <2>1, <2>4
  <2>6. Elements(d[i]) = BlockOf(d[i][1], T, r + 1)
    BY <2>1, <2>2, <2>3
  <2>7. d[i][1] \in H \cup {r + 1}
    BY <2>1
  <2>8. QED  BY <2>5, <2>6, <2>7
<1>6. \A i \in DOMAIN d : i \in 1 .. Len(c) \/ i = Len(c) + 1
  BY <1>2
<1>7. CutOf(d, H \cup {r + 1}, T, r + 1)
  <2>1. \A i \in DOMAIN d : /\ Elements(d[i]) = BlockOf(d[i][1], T, r + 1)
                            /\ d[i][1] \in H \cup {r + 1}
                            /\ i > 1 => d[i - 1][1] < d[i][1]
    BY <1>4, <1>5, <1>6
  <2>2. QED  BY <1>3, <2>1, CutIs
<1>8. QED  BY <1>7 DEF d

\* Block b, which follows those of e, ends with line r.
EndsAt(e, b, H, T, r) ==
    /\ e \in Seq(Seq(Nat)) /\ b \in Seq(Nat) /\ b # <<>> /\ r \in Nat
    /\ H \subseteq 1 .. r /\ T \subseteq 1 .. r /\ H \cap T = {}
    /\ CutOf(Append(e, b), H, T, r)
    /\ Elements(b) = b[1] .. r /\ b[1] + 1 .. r \subseteq T

\* A line that belongs to the block in hand.
LEMMA LongerBlock ==
    ASSUME NEW e, NEW b, NEW H, NEW T, NEW r, EndsAt(e, b, H, T, r)
    PROVE  /\ Append(b, r + 1)[1] = b[1]
           /\ EndsAt(e, Append(b, r + 1), H, T \cup {r + 1}, r + 1)
<1> USE DEF EndsAt
<1> DEFINE a == Append(b, r + 1)
           c == Append(e, b)
           d == Append(e, a)
           U == T \cup {r + 1}
<1>1. /\ Len(b) \in Nat \ {0} /\ DOMAIN b = 1 .. Len(b) /\ a \in Seq(Nat)
      /\ Len(a) = Len(b) + 1 /\ DOMAIN a = 1 .. Len(b) + 1 /\ a[Len(b) + 1] = r + 1
      /\ \A j \in 1 .. Len(b) : a[j] = b[j]
  OBVIOUS
<1>2. /\ Len(e) \in Nat /\ DOMAIN e = 1 .. Len(e)
      /\ Len(c) = Len(e) + 1 /\ DOMAIN c = 1 .. Len(e) + 1 /\ c[Len(e) + 1] = b
      /\ Len(d) = Len(e) + 1 /\ DOMAIN d = 1 .. Len(e) + 1 /\ d[Len(e) + 1] = a
      /\ \A i \in 1 .. Len(e) : c[i] = e[i] /\ d[i] = e[i]
  BY <1>1
<1>3. CutOf(c, H, T, r)
  OBVIOUS
<1> HIDE DEF a, c, d, U
<1>4. /\ a[1] = b[1] /\ a # <<>>
  BY <1>1
<1>5. b[1] \in 1 .. r
  <2>1. c[Len(e) + 1][1] \in H
    BY <1>2, <1>3 DEF CutOf
  <2>2. QED  BY <1>2, <2>1
<1>6. Elements(a) = b[1] .. r + 1
  <2>1. \A x : x \in Elements(a) <=> x \in Elements(b) \/ x = r + 1
    <3>1. \A j : j \in DOMAIN a <=> j \in DOMAIN b \/ j = Len(b) + 1
      BY <1>1
    <3>2. \A j \in DOMAIN b : a[j] = b[j]
      BY <1>1
    <3>3. QED  BY <1>1, <3>1, <3>2 DEF Elements
  <2> DEFINE f == b[1]
  <2>2. f \in 1 .. r /\ \A x : x \in Elements(b) <=> x \in f .. r
    BY <1>5
  <2> HIDE DEF f
  <2>3. /\ \A x \in f .. r + 1 : x \in f .. r \/ x = r + 1
        /\ \A x \in f .. r : x \in f .. r + 1
        /\ r + 1 \in f .. r + 1
    BY <2>2
  <2>4. Elements(a) = f .. r + 1
    BY <2>1, <2>2, <2>3
  <2>5. QED  BY <2>4 DEF f
<1>7. b[1] + 1 .. r + 1 \subseteq U
  BY <1>5 DEF U
<1>8. \A k \in 1 .. r : k \in U <=> k \in T
  BY DEF U
<1>9. ASSUME NEW i \in 1 .. Len(e)
      PROVE  /\ Elements(d[i]) = BlockOf(d[i][1], U, r + 1)
             /\ d[i][1] \in H
             /\ i > 1 => d[i - 1][1] < d[i][1]
  <2> DEFINE n == c[i][1]
             l == c[i + 1][1]
  <2>1. /\ i \in DOMAIN c /\ i + 1 \in DOMAIN c /\ i + 1 > 1 /\ (i + 1) - 1 = i
        /\ i > 1 => i - 1 \in 1 .. Len(e)
    BY <1>2, <1>9
  <2>2. /\ n \in H /\ l \in H /\ n < l /\ Elements(c[i]) = BlockOf(n, T, r)
        /\ i > 1 => c[i - 1][1] < n
    BY <1>3, <2>1 DEF CutOf
  <2>3. d[i] = c[i] /\ (i > 1 => d[i - 1] = c[i - 1])
    BY <1>2, <2>1
  <2> HIDE DEF n, l
  <2>4. n \in 1 .. r /\ l \in n + 1 .. r /\ l \notin T /\ l \notin U
    BY <2>2, <1>8
  <2>5. BlockOf(n, U, r + 1) = BlockOf(n, T, r)
    <3>1. \A m \in n + 1 .. r + 1 : (\A k \in n + 1 .. m : k \in U) => m < l
      BY <2>4
    <3>2. \A m \in n + 1 .. r : (\A k \in n + 1 .. m : k \in T) => m < l
      BY <2>4
    <3>3. \A m \in n + 1 .. l - 1 : \A k \in n + 1 .. m : k \in 1 .. r
      BY <2>4
    <3>4. \A m \in n + 1 .. l - 1 :
             (\A k \in n + 1 .. m : k \in U) <=> (\A k \in n + 1 .. m : k \in T)
      BY <1>8, <3>3
    <3>5. /\ \A m \in n + 1 .. r + 1 : m < l => m \in n + 1 .. l - 1
          /\ \A m \in n + 1 .. l - 1 : m \in n + 1 .. r /\ m \in n + 1 .. r + 1
          /\ \A m \in n + 1 .. r : m \in n + 1 .. r + 1
      BY <2>4
    <3>6. QED  BY <3>1, <3>2, <3>4, <3>5 DEF BlockOf
  <2>6. QED  BY <2>2, <2>3, <2>5 DEF n
<1>10. ASSUME NEW i, i = Len(e) + 1
       PROVE  /\ Elements(d[i]) = BlockOf(d[i][1], U, r + 1)
              /\ d[i][1] \in H
              /\ i > 1 => d[i - 1][1] < d[i][1]
  <2>1. d[Len(e) + 1][1] = b[1] /\ c[Len(e) + 1][1] = b[1]
    BY <1>2, <1>4
  <2>2. BlockOf(b[1], U, r + 1) = b[1] .. r + 1
    <3>1. \A m \in b[1] + 1 .. r + 1 : \A k \in b[1] + 1 .. m : k \in b[1] + 1 .. r + 1
      BY <1>5
    <3>2. BlockOf(b[1], U, r + 1) = {b[1]} \cup b[1] + 1 .. r + 1
      BY <1>7, <3>1 DEF BlockOf
    <3>3. \A f \in 1 .. r : {f} \cup f + 1 .. r + 1 = f .. r + 1
      OBVIOUS
    <3>4. QED  BY <1>5, <3>2, <3>3
  <2>3. b[1] \in H
    BY <1>2, <1>3, <2>1 DEF CutOf
  <2>4. ASSUME Len(e) + 1 > 1 PROVE d[Len(e)][1] < b[1]
    <3>1. /\ Len(e) + 1 \in DOMAIN c /\ (Len(e) + 1) - 1 = Len(e)
          /\ Len(e) \in 1 .. Len(e)
      BY <1>2, <2>4
    <3>2. c[Len(e)][1] < b[1]
      BY <1>3, <2>1, <2>4, <3>1 DEF CutOf
    <3>3. QED  BY <1>2, <3>1, <3>2
  <2>5. d[i] = a /\ d[i][1] = b[1] /\ i - 1 = Len(e) /\ (i > 1 <=> Len(e) + 1 > 1)
    BY <1>2, <1>10, <2>1
  <2>6. Elements(d[i]) = BlockOf(d[i][1], U, r + 1)
    BY <1>6, <2>2, <2>5
  <2>7. i > 1 => d[i - 1][1] < d[i][1]
    BY <2>4, <2>5
  <2>8. QED  BY <2>3, <2>5, <2>6, <2>7
<1>11. Len(d) = Cardinality(H)
  BY <1>2, <1>3 DEF CutOf
<1>12. CutOf(d, H, U, r + 1)
  <2>1. \A i \in DOMAIN d : i \in 1 .. Len(e) \/ i = Len(e) + 1
    BY <1>2
  <2>2. \A i \in DOMAIN d : /\ Elements(d[i]) = BlockOf(d[i][1], U, r + 1)
                            /\ d[i][1] \in H
                            /\ i > 1 => d[i - 1][1] < d[i][1]
    BY <1>9, <1>10, <2>1
  <2>3. QED  BY <1>11, <2>2, CutIs
<1>13. /\ a # <<>> /\ a \in Seq(Nat) /\ a[1] = b[1]
       /\ Elements(a) = a[1] .. r + 1 /\ a[1] + 1 .. r + 1 \subseteq U
       /\ CutOf(Append(e, a), H, U, r + 1)
  BY <1>1, <1>4, <1>6, <1>7, <1>12 DEF d
<1>14. e \in Seq(Seq(Nat)) /\ r + 1 \in Nat
  OBVIOUS
<1>15. H \subseteq 1 .. r + 1 /\ U \subseteq 1 .. r + 1 /\ H \cap U = {}
  BY DEF U
<1>16. a[1] = b[1] /\ EndsAt(e, a, H, U, r + 1)
  BY <1>13, <1>14, <1>15
<1>17. QED  BY <1>16 DEF a, U

-----------------------------------------------------------------------------
(***************************************************************************)
(* A generation's output.  While it reads, the block in hand ends with the *)
(* line that was read last, or something that does not belong follows the  *)
(* last block; before that nothing is read.                                *)
(***************************************************************************)
Belongs(g, m) ==
    /\ profile.reads.blocks # "no"
    /\ \/ printed[g][m] = "more"
       \/ profile.reads.blocks = "loose" /\ printed[g][m] = "other"
Heads(g) == {n \in 1 .. read[g] : printed[g][n] = "head"}
Further(g) == {n \in 1 .. read[g] : Belongs(g, n)}

Whole(g) == CutOf(Flushed(g), Heads(g), Further(g), read[g])

InHand(g) ==
    /\ profile.reads.blocks = "no" => block[g] = <<>>
    /\ (task[g]["reader"] = "reading" /\ block[g] # <<>>) =>
          /\ Elements(block[g]) = block[g][1] .. read[g]
          /\ block[g][1] + 1 .. read[g] \subseteq Further(g)
    /\ (task[g]["reader"] = "reading" /\ block[g] = <<>> /\ profile.reads.blocks # "no") =>
          LET c == Flushed(g) IN
          c = <<>> \/ \E k \in c[Len(c)][1] + 1 .. read[g] : k \notin Further(g)

Unread(g) == read[g] = 0 /\ block[g] = <<>> /\ events[g] = <<>>

Good(g) == /\ Whole(g) /\ InHand(g)
           /\ task[g]["reader"] \in {"none", "created"} => Unread(g)

BlocksInv ==
    /\ \A g \in Generations : Good(g)
    /\ stage.at \in {"asking", "halting", "spawning"} => task[generation]["reader"] = "none"

\* What of a generation's output the step leaves alone.
Kept(h) ==
    /\ kind' = kind
    /\ read'[h] = read[h] /\ block'[h] = block[h] /\ events'[h] = events[h]
    /\ \A i \in 1 .. read[h] : printed'[h][i] = printed[h][i]
    /\ task'[h]["reader"] = "reading" => task[h]["reader"] \in {"reading", "none", "created"}
    /\ task'[h]["reader"] \in {"none", "created"} => task[h]["reader"] \in {"none", "created"}

LEMMA UnreadIsGood ==
    ASSUME NEW h, Unread(h)
    PROVE  Whole(h) /\ InHand(h)
<1>1. Heads(h) = {} /\ Further(h) = {} /\ Flushed(h) = <<>>
  BY DEF Unread, Heads, Further, Flushed
<1>2. CutOf(<<>>, {}, {}, 0)
  BY FS_EmptySet DEF CutOf
<1>3. Whole(h)
  BY <1>1, <1>2 DEF Whole, Unread
<1>4. InHand(h)
  BY <1>1 DEF InHand, Unread
<1>5. QED  BY <1>3, <1>4

LEMMA StillGood ==
    ASSUME NEW h \in Generations, Good(h), Kept(h)
    PROVE  Good(h)'
<1>1. /\ profile' = profile
      /\ read'[h] = read[h] /\ block'[h] = block[h] /\ events'[h] = events[h]
  BY DEF Kept, profile
<1>2. Heads(h)' = Heads(h)
  BY <1>1 DEF Kept, Heads
<1>3. Further(h)' = Further(h)
  BY <1>1 DEF Kept, Further, Belongs
<1>4. Flushed(h)' = Flushed(h)
  BY <1>1 DEF Flushed
<1>5. Whole(h)'
  BY <1>1, <1>2, <1>3, <1>4 DEF Good, Whole
<1>6. InHand(h)'
  <2>1. CASE task[h]["reader"] = "reading" \/ task'[h]["reader"] # "reading"
    BY <1>1, <1>3, <1>4, <2>1 DEF Good, InHand
  <2>2. CASE task[h]["reader"] # "reading" /\ task'[h]["reader"] = "reading"
    <3>1. Unread(h)
      BY <2>2 DEF Kept, Good
    <3>2. /\ block'[h] = <<>> /\ Flushed(h)' = <<>>
      BY <1>1, <1>4, <3>1 DEF Unread, Flushed
    <3>3. QED  BY <3>2 DEF InHand
  <2>3. QED  BY <2>1, <2>2
<1>7. task'[h]["reader"] \in {"none", "created"} => Unread(h)'
  BY <1>1 DEF Kept, Good, Unread
<1>8. QED  BY <1>5, <1>6, <1>7 DEF Good

\* The loop is left: what was in hand is published.
LEMMA LeaveKeepsCut ==
    ASSUME TypeInv, NEW g \in Generations, Leave(g)
    PROVE  /\ Flushed(g)' = Flushed(g) /\ block'[g] = <<>> /\ task'[g]["reader"] = "ended"
           /\ \A h \in Generations : h # g =>
                 block'[h] = block[h] /\ events'[h] = events[h] /\ task'[h] = task[h]
<1>1. /\ block \in [Generations -> Seq(Nat)] /\ events \in [Generations -> Seq(Seq(Nat))]
      /\ task \in [Generations -> [TaskNames -> Places]] /\ "reader" \in TaskNames
  BY DEF TypeInv, OutputOK, TasksOK, TaskNames
<1>2. /\ events' = [events EXCEPT ![g] = Flushed(g)]
      /\ block' = [block EXCEPT ![g] = <<>>]
      /\ task' = [task EXCEPT ![g] = [task[g] EXCEPT !["reader"] = "ended"]]
  BY DEF Leave
<1>3. block'[g] = <<>> /\ events'[g] = Flushed(g) /\ task'[g]["reader"] = "ended"
  BY <1>1, <1>2
<1>4. Flushed(g)' = Flushed(g)
  BY <1>3 DEF Flushed
<1>5. QED  BY <1>1, <1>2, <1>3, <1>4

\* A line is read.
LEMMA ReadLineIsGood ==
    ASSUME TypeInv, NEW g \in Generations, Good(g), ReadLine(g)
    PROVE  /\ Good(g)'
           /\ \A h \in Generations : h # g => Kept(h)
<1> DEFINE n == read[g] + 1
           line == printed[g][n]
           c == Flushed(g)
<1>1. /\ block \in [Generations -> Seq(Nat)] /\ events \in [Generations -> Seq(Seq(Nat))]
      /\ printed \in [Generations -> Seq(LineKinds)] /\ read \in [Generations -> Nat]
      /\ task \in [Generations -> [TaskNames -> Places]] /\ "reader" \in TaskNames
      /\ kind \in Kinds /\ LinesOK
  BY DEF TypeInv, OutputOK, TasksOK, TaskNames, CallerOK
<1>2. /\ task[g]["reader"] = "reading" /\ read[g] < Len(printed[g])
      /\ read' = [read EXCEPT ![g] = n]
      /\ UNCHANGED <<kind, printed>> /\ profile' = profile
      /\ \/ line = "long" /\ Leave(g)
         \/ /\ line = "bad" /\ UNCHANGED <<events, block>>
            /\ task' = [task EXCEPT ![g] = [task[g] EXCEPT !["reader"] = "raised"]]
         \/ /\ line \notin {"long", "bad"} /\ Take(g, n, line)
            /\ task' = [task EXCEPT ![g] = [task[g] EXCEPT !["reader"] =
                            IF running THEN task[g]["reader"] ELSE "ended"]]
  BY DEF ReadLine, profile
<1>3. /\ n \in 1 .. Len(printed[g]) /\ read[g] \in Nat /\ n = read[g] + 1
      /\ line \in LineKinds
      /\ profile.reads.blocks = "no" => line \in {"head", "long", "bad"}
      /\ c \in Seq(Seq(Nat))
  <2>1. printed[g] \in Seq(LineKinds) /\ read[g] \in Nat
    BY <1>1
  <2>2. n \in 1 .. Len(printed[g])
    BY <1>2, <2>1
  <2>3. events[g] \in Seq(Seq(Nat)) /\ block[g] \in Seq(Nat)
    BY <1>1
  <2>4. c \in Seq(Seq(Nat))
    BY <2>3 DEF Flushed
  <2>5. profile.reads.blocks = "no" => line \in {"head", "long", "bad"}
    BY <1>1, <2>2 DEF LinesOK
  <2>6. QED  BY <2>1, <2>2, <2>4, <2>5
<1> HIDE DEF n, line, c
<1>4. /\ \A h \in Generations : h # g => read'[h] = read[h]
      /\ read'[g] = n
  BY <1>1, <1>2
<1>5. /\ CutOf(c, Heads(g), Further(g), read[g])
      /\ Heads(g) \subseteq 1 .. read[g] /\ Further(g) \subseteq 1 .. read[g]
      /\ Heads(g) \cap Further(g) = {}
  BY DEF Good, Whole, c, Heads, Further, Belongs
<1>6. Belongs(g, n) => line \in {"more", "other"} /\ profile.reads.blocks # "no"
  BY DEF Belongs, line
<1>7. /\ Heads(g)' = IF line = "head" THEN Heads(g) \cup {n} ELSE Heads(g)
      /\ Further(g)' = IF Belongs(g, n) THEN Further(g) \cup {n} ELSE Further(g)
  <2>1. 1 .. n = (1 .. read[g]) \cup {n} /\ n \notin 1 .. read[g]
    BY <1>3
  <2>2. Heads(g)' = {m \in 1 .. n : printed[g][m] = "head"}
    BY <1>2, <1>4 DEF Heads
  <2>3. Further(g)' = {m \in 1 .. n : Belongs(g, m)}
    BY <1>2, <1>4 DEF Further, Belongs
  <2>4. printed[g][n] = line
    BY DEF line
  <2>5. QED  BY <2>1, <2>2, <2>3, <2>4 DEF Heads, Further
<1>8. Further(g)' \in {Further(g), Further(g) \cup {n}}
  BY <1>7
\* The cut does not change with a line that belongs to nothing.
<1>9. ASSUME Flushed(g)' = c, line # "head",
             Belongs(g, n) => c = <<>> \/ \E k \in c[Len(c)][1] + 1 .. read[g] : k \notin Further(g)
      PROVE  Whole(g)'
  <2>1. n \in Further(g)' => Belongs(g, n)
    <3>1. n \notin Further(g)
      BY <1>3, <1>5
    <3>2. QED  BY <1>7, <3>1
  <2>2. CutOf(c, Heads(g), Further(g)', n)
    BY <1>3, <1>5, <1>8, <1>9, <2>1, NothingNew
  <2>3. Heads(g)' = Heads(g)
    BY <1>7, <1>9
  <2>4. QED  BY <1>4, <1>9, <2>2, <2>3 DEF Whole
\* A new block.
<1>10. ASSUME Flushed(g)' = Append(c, <<n>>), line = "head"
       PROVE  Whole(g)'
  <2>1. CutOf(Append(c, <<n>>), Heads(g) \cup {n}, Further(g), n)
    BY <1>3, <1>5, NewBlock
  <2>2. Heads(g)' = Heads(g) \cup {n} /\ Further(g)' = Further(g)
    BY <1>6, <1>7, <1>10
  <2>3. QED  BY <1>4, <1>10, <2>1, <2>2 DEF Whole
\* Nothing of the others.
<1>11. ASSUME \A h \in Generations : h # g =>
                 block'[h] = block[h] /\ events'[h] = events[h] /\ task'[h] = task[h]
       PROVE  \A h \in Generations : h # g => Kept(h)
  BY <1>2, <1>4, <1>11 DEF Kept
<1>12. CASE line = "long" /\ Leave(g)
  <2>1. /\ Flushed(g)' = c /\ block'[g] = <<>> /\ task'[g]["reader"] = "ended"
        /\ \A h \in Generations : h # g =>
              block'[h] = block[h] /\ events'[h] = events[h] /\ task'[h] = task[h]
    BY <1>12, LeaveKeepsCut DEF c
  <2>2. Whole(g)'
    BY <1>6, <1>9, <1>12, <2>1
  <2>3. InHand(g)'
    BY <2>1 DEF InHand
  <2>4. QED  BY <1>11, <2>1, <2>2, <2>3 DEF Good
<1>13. CASE /\ line = "bad" /\ UNCHANGED <<events, block>>
            /\ task' = [task EXCEPT ![g] = [task[g] EXCEPT !["reader"] = "raised"]]
  <2>1. Flushed(g)' = c
    BY <1>13 DEF Flushed, c
  <2>2. task'[g]["reader"] = "raised" /\ \A h \in Generations : h # g => task'[h] = task[h]
    BY <1>1, <1>13
  <2>3. Whole(g)'
    BY <1>6, <1>9, <1>13, <2>1
  <2>4. InHand(g)'
    BY <1>2, <1>13, <2>2 DEF Good, InHand
  <2>5. QED  BY <1>11, <1>13, <2>2, <2>3, <2>4 DEF Good
<1>14. CASE /\ line \notin {"long", "bad"} /\ Take(g, n, line)
            /\ task' = [task EXCEPT ![g] = [task[g] EXCEPT !["reader"] =
                            IF running THEN task[g]["reader"] ELSE "ended"]]
  <2>1. /\ task'[g]["reader"] \in {"reading", "ended"}
        /\ \A h \in Generations : h # g => task'[h] = task[h]
    BY <1>1, <1>2, <1>14
  <2>2. line \in {"head", "more", "other"}
    BY <1>3, <1>14 DEF LineKinds
  <2>3. events[g] \in Seq(Seq(Nat)) /\ block[g] \in Seq(Nat) /\ <<n>> \in Seq(Nat) /\ <<n>> # <<>>
    BY <1>1, <1>3
  <2>4. CASE /\ profile.reads.blocks = "no"
             /\ events' = [events EXCEPT ![g] = Append(events[g], <<n>>)] /\ block' = block
    <3>1. block[g] = <<>> /\ line = "head"
      BY <1>3, <1>14, <2>4 DEF Good, InHand
    <3>2. /\ events'[g] = Append(events[g], <<n>>) /\ block'[g] = <<>>
          /\ \A h \in Generations : h # g => events'[h] = events[h] /\ block'[h] = block[h]
      BY <1>1, <2>4, <3>1
    <3>3. Flushed(g)' = Append(c, <<n>>)
      BY <3>1, <3>2 DEF Flushed, c
    <3>4. Whole(g)'
      BY <1>10, <3>1, <3>3
    <3>5. InHand(g)'
      BY <1>2, <2>4, <3>2 DEF InHand
    <3>6. QED  BY <1>11, <2>1, <3>2, <3>4, <3>5 DEF Good
  <2>5. CASE /\ profile.reads.blocks # "no" /\ line = "head"
             /\ events' = [events EXCEPT ![g] = c] /\ block' = [block EXCEPT ![g] = <<n>>]
    <3>1. /\ events'[g] = c /\ block'[g] = <<n>>
          /\ \A h \in Generations : h # g => events'[h] = events[h] /\ block'[h] = block[h]
      BY <1>1, <2>5
    <3>2. Flushed(g)' = Append(c, <<n>>)
      BY <2>3, <3>1 DEF Flushed
    <3>3. Whole(g)'
      BY <1>10, <2>5, <3>2
    <3>4. Elements(<<n>>) = n .. n /\ n + 1 .. n = {} /\ <<n>>[1] = n
      BY <1>3 DEF Elements
    <3>5. InHand(g)'
      BY <1>2, <1>4, <2>3, <2>5, <3>1, <3>4 DEF InHand
    <3>6. QED  BY <1>11, <2>1, <3>1, <3>3, <3>5 DEF Good
  <2>6. CASE /\ profile.reads.blocks # "no" /\ line # "head" /\ block[g] # <<>>
             /\ line = "more" \/ profile.reads.blocks = "loose"
             /\ block' = [block EXCEPT ![g] = Append(block[g], n)] /\ events' = events
    <3> DEFINE a == Append(block[g], n)
    <3>1. /\ block'[g] = a
          /\ \A h \in Generations : h # g => block'[h] = block[h]
      BY <1>1, <2>6
    <3>2. Belongs(g, n)
      BY <2>2, <2>6 DEF Belongs, line
    <3>3. /\ Elements(block[g]) = block[g][1] .. read[g]
          /\ block[g][1] + 1 .. read[g] \subseteq Further(g)
      BY <1>2, <2>6 DEF Good, InHand
    <3>4. c = Append(events[g], block[g])
      BY <2>6 DEF c, Flushed
    <3>5. /\ a # <<>> /\ a[1] = block[g][1]
          /\ Elements(a) = a[1] .. n /\ a[1] + 1 .. n \subseteq Further(g) \cup {n}
          /\ CutOf(Append(events[g], a), Heads(g), Further(g) \cup {n}, n)
      <4>1. /\ CutOf(Append(events[g], block[g]), Heads(g), Further(g), read[g])
            /\ read[g] \in Nat /\ block[g] # <<>>
        BY <1>3, <1>5, <2>6, <3>4
      <4>2. EndsAt(events[g], block[g], Heads(g), Further(g), read[g])
        BY <1>5, <2>3, <3>3, <4>1 DEF EndsAt
      <4>3. /\ Append(block[g], read[g] + 1)[1] = block[g][1]
            /\ EndsAt(events[g], Append(block[g], read[g] + 1), Heads(g),
                      Further(g) \cup {read[g] + 1}, read[g] + 1)
        BY <4>2, LongerBlock
      <4>4. n = read[g] + 1
        BY <1>3
      <4>5. a[1] = block[g][1] /\ EndsAt(events[g], a, Heads(g), Further(g) \cup {n}, n)
        BY <4>3, <4>4
      <4> HIDE DEF a
      <4>6. QED  BY <4>5 DEF EndsAt
    <3> HIDE DEF a
    <3>6. Flushed(g)' = Append(events[g], a)
      BY <2>6, <3>1, <3>5 DEF Flushed
    <3>7. Heads(g)' = Heads(g) /\ Further(g)' = Further(g) \cup {n}
      BY <1>7, <2>6, <3>2
    <3>8. Whole(g)'
      BY <1>4, <3>5, <3>6, <3>7 DEF Whole
    <3>9. InHand(g)'
      BY <1>2, <1>4, <2>6, <3>1, <3>5, <3>7 DEF InHand
    <3>10. QED  BY <1>11, <2>1, <2>6, <3>1, <3>8, <3>9 DEF Good
  <2>7. CASE /\ profile.reads.blocks # "no" /\ line # "head"
             /\ ~(block[g] # <<>> /\ (line = "more" \/ profile.reads.blocks = "loose"))
             /\ events' = [events EXCEPT ![g] = c] /\ block' = [block EXCEPT ![g] = <<>>]
    <3>1. /\ events'[g] = c /\ block'[g] = <<>>
          /\ \A h \in Generations : h # g => events'[h] = events[h] /\ block'[h] = block[h]
      BY <1>1, <2>7
    <3>2. Flushed(g)' = c
      BY <3>1 DEF Flushed
    <3>3. Belongs(g, n) => block[g] = <<>>
      BY <2>7 DEF Belongs, line
    <3>4. Belongs(g, n) =>
             c = <<>> \/ \E k \in c[Len(c)][1] + 1 .. read[g] : k \notin Further(g)
      BY <1>2, <2>7, <3>3 DEF Good, InHand, c
    <3>5. Whole(g)'
      BY <1>9, <2>7, <3>2, <3>4
    <3>6. c = <<>> \/ \E k \in c[Len(c)][1] + 1 .. n : k \notin Further(g)'
      <4>1. SUFFICES ASSUME c # <<>>
                     PROVE  \E k \in c[Len(c)][1] + 1 .. n : k \notin Further(g)'
        OBVIOUS
      <4> DEFINE l == c[Len(c)][1]
      <4>2. l \in 1 .. read[g]
        <5>1. Len(c) \in DOMAIN c
          BY <1>3, <4>1
        <5>2. l \in Heads(g)
          BY <1>5, <5>1 DEF CutOf
        <5>3. QED  BY <1>5, <5>2
      <4> HIDE DEF l
      <4>3. CASE Belongs(g, n)
        <5>1. PICK k \in l + 1 .. read[g] : k \notin Further(g)
          BY <3>4, <4>1, <4>3 DEF l
        <5>2. k \in l + 1 .. n /\ k # n
          BY <1>3, <4>2, <5>1
        <5>3. QED  BY <1>8, <5>1, <5>2 DEF l
      <4>4. CASE ~Belongs(g, n)
        <5>1. n \in l + 1 .. n /\ n \notin Further(g)'
          BY <1>3, <1>5, <1>7, <4>2, <4>4
        <5>2. QED  BY <5>1 DEF l
      <4>5. QED  BY <4>3, <4>4
    <3>7. InHand(g)'
      BY <1>2, <1>4, <2>7, <3>1, <3>2, <3>6 DEF InHand
    <3>8. QED  BY <1>11, <2>1, <3>1, <3>5, <3>7 DEF Good
  <2>8. CASE profile.reads.blocks = "no"
    BY <1>14, <2>4, <2>8 DEF Take
  <2>9. CASE profile.reads.blocks # "no" /\ line = "head"
    BY <1>14, <2>5, <2>9 DEF Take, c
  <2>10. CASE /\ profile.reads.blocks # "no" /\ line # "head" /\ block[g] # <<>>
              /\ line = "more" \/ profile.reads.blocks = "loose"
    BY <1>14, <2>6, <2>10 DEF Take
  <2>11. CASE /\ profile.reads.blocks # "no" /\ line # "head"
              /\ ~(block[g] # <<>> /\ (line = "more" \/ profile.reads.blocks = "loose"))
    BY <1>14, <2>7, <2>11 DEF Take, c
  <2>12. QED  BY <2>8, <2>9, <2>10, <2>11
<1>15. QED  BY <1>2, <1>12, <1>13, <1>14

LEMMA BlocksInit == Init => BlocksInv
<1> SUFFICES ASSUME Init PROVE BlocksInv
  OBVIOUS
<1>1. \A g \in Generations : Unread(g)
  BY DEF Init, Unread
<1>2. stage.at = "down"
  BY DEF Init, Down
<1>3. QED  BY <1>1, <1>2, UnreadIsGood DEF BlocksInv, Good

\* A start finds the tasks of its generation unborn.
LEMMA CallerKeepsBlocks ==
    ASSUME TypeInv, BlocksInv, Start \/ Stop \/ CancelCaller \/ CallerSteps
    PROVE  BlocksInv'
<1>1. /\ generation \in Nat /\ MaxStarts \in Nat /\ generation <= MaxStarts
      /\ "reader" \in TaskNames /\ kind \in Kinds /\ StageOK
      /\ slot \in [TaskNames -> 0 .. generation]
      /\ task \in [Generations -> [TaskNames -> Places]]
  BY ChildAssumption DEF TypeInv, CallerOK, TaskNames, TasksOK
<1>2. UNCHANGED <<kind, read, block, events, printed>>
  BY DEF Start, Stop, CancelCaller, CallerSteps, Ask, Halt, Spawn, Join, Reap, Restore,
         outputVars
<1>3. ASSUME NEW h \in Generations PROVE Kept(h)
  <2>1. Called(h, "reader")
    BY <1>1, CallerCalls
  <2>2. CASE task'[h]["reader"] = "created" /\ stage = Down /\ h = generation + 1
    <3>1. task[h]["reader"] = "none"
      <4>1. task[h]["reader"] # "none" => h <= generation
        BY <1>1 DEF TypeInv, TasksOK, KnownTasks
      <4>2. QED  BY <1>1, <2>2, <4>1
    <3>2. QED  BY <1>2, <2>2, <3>1 DEF Kept
  <2>3. CASE task'[h]["reader"] = "created" /\ stage.at = "spawning" /\ h = generation
    BY <1>2, <2>3 DEF Kept, BlocksInv
  <2>4. CASE task'[h]["reader"] = task[h]["reader"]
    BY <1>2, <2>4 DEF Kept
  <2>5. CASE task'[h]["reader"] \in {"cancelled", "joining"}
    BY <1>2, <2>5 DEF Kept
  <2>6. QED  BY <2>1, <2>2, <2>3, <2>4, <2>5 DEF Called
<1>4. \A h \in Generations : Good(h)'
  BY <1>3, StillGood DEF BlocksInv
<1>5. stage'.at \in {"asking", "halting", "spawning"} => task'[generation']["reader"] = "none"
  <2>1. CASE Start
    <3>1. /\ generation' = generation + 1 /\ generation < MaxStarts
          /\ task' = task \/ stage' = Up
      BY <2>1 DEF Start, Launched
    <3>2. generation + 1 \in Generations
      BY <1>1, <3>1 DEF Generations
    <3>3. task[generation + 1]["reader"] # "none" => generation + 1 <= generation
      BY <1>1, <3>2 DEF TypeInv, TasksOK, KnownTasks
    <3>4. task[generation + 1]["reader"] = "none"
      BY <1>1, <3>3
    <3>5. QED  BY <3>1, <3>4 DEF Up
  <2>2. CASE Ask \/ Halt
    <3>1. /\ stage.at \in {"asking", "halting"} /\ UNCHANGED <<generation, task>>
      BY <2>2 DEF Ask, Halt
    <3>2. QED  BY <3>1 DEF BlocksInv
  <2>3. CASE Spawn
    BY <2>3 DEF Spawn, Launched, Up
  <2>4. CASE Stop
    <3>1. CancelFrom(1, slot)
      BY <2>4 DEF Stop
    <3>2. stage'.at \in {"joining", "reaping"} \/ stage' = RestoreOr("down")
      BY <3>1, CancelFromStage
    <3>3. QED  BY <3>2 DEF RestoreOr
  <2>5. CASE Join
    <3> DEFINE freed == [slot EXCEPT ![Tasks[stage.next]] = 0]
    <3>1. stage.at = "joining" /\ (CancelFrom(stage.next + 1, freed) \/ stage' = Down)
      BY <2>5 DEF Join
    <3> HIDE DEF freed
    <3>2. stage.next + 1 \in Nat \ {0}
      BY <1>1, <3>1, StageIs, TaskOrder DEF TypeInv, CallerOK
    <3>3. stage'.at \in {"joining", "reaping"} \/ stage' = RestoreOr("down") \/ stage' = Down
      BY <3>1, <3>2, CancelFromStage
    <3>4. QED  BY <3>3 DEF RestoreOr, Down
  <2>6. CASE Reap
    BY <2>6 DEF Reap, RestoreOr
  <2>7. CASE Restore
    <3>1. stage' = [at |-> stage.then] /\ stage.then \in {"up", "down"}
      BY <1>1, <2>7, StageIs DEF Restore
    <3>2. stage'.at \in {"up", "down"}
      BY <3>1
    <3>3. QED  BY <3>2
  <2>8. CASE CancelCaller
    <3>1. (stage' = stage /\ stage.at = "joining") \/ stage' = Up
      BY <2>8 DEF CancelCaller
    <3>2. QED  BY <3>1 DEF Up
  <2>9. QED  BY <2>1, <2>2, <2>3, <2>4, <2>5, <2>6, <2>7, <2>8 DEF CallerSteps
<1>6. QED  BY <1>4, <1>5 DEF BlocksInv

LEMMA TasksKeepBlocks ==
    ASSUME TypeInv, BlocksInv, NEW g \in Generations, ReaderSteps(g) \/ OtherSteps(g)
    PROVE  BlocksInv'
<1>1. /\ TaskMoves(g) /\ "reader" \in TaskNames
      /\ task \in [Generations -> [TaskNames -> Places]]
  BY TaskSteps DEF TypeInv, TasksOK, TaskNames
<1>2. UNCHANGED <<kind, stage, generation, printed>>
  BY <1>1 DEF TaskMoves
<1>3. PICK n \in TaskNames, x \in Goals : Moved(g, n, x)
  BY <1>1 DEF TaskMoves
<1>4. /\ task'[g][n] = x /\ x \in Goals /\ Alive(g, n)
      /\ \A h \in Generations, l \in TaskNames : h # g \/ l # n => task'[h][l] = task[h][l]
  <2>1. task' = [task EXCEPT ![g] = [task[g] EXCEPT ![n] = x]]
    BY <1>3 DEF Moved
  <2>2. x \in Places
    BY DEF Goals, Places
  <2>3. QED  BY <1>1, <1>3, <2>1, <2>2, OneTask DEF Moved
<1>5. stage'.at \in {"asking", "halting", "spawning"} => task'[generation']["reader"] = "none"
  <2>1. SUFFICES ASSUME stage.at \in {"asking", "halting", "spawning"}
                 PROVE  task'[generation]["reader"] = "none"
    BY <1>2
  <2>2. generation \in Generations /\ task[generation]["reader"] = "none"
    BY <2>1, ChildAssumption DEF BlocksInv, TypeInv, CallerOK, Generations
  <2>3. generation # g \/ n # "reader"
    BY <1>4, <2>2 DEF Alive
  <2>4. QED  BY <1>1, <1>4, <2>2, <2>3
<1>6. Good(g)
  BY DEF BlocksInv
<1>7. (\A h \in Generations : Good(h)') => BlocksInv'
  BY <1>5 DEF BlocksInv
<1>8. (\A h \in Generations : h # g => Kept(h)) => \A h \in Generations : h # g => Good(h)'
  BY StillGood DEF BlocksInv
\* Steps that read nothing.
<1>9. ASSUME UNCHANGED <<read, block, events>>,
             task'[g]["reader"] \in {task[g]["reader"], "ended", "raised", "cancelled"}
                \/ task[g]["reader"] = "created"
      PROVE  BlocksInv'
  <2>1. ASSUME NEW h \in Generations PROVE Kept(h)
    <3>1. CASE task'[h]["reader"] = task[h]["reader"]
      BY <1>2, <1>9, <3>1 DEF Kept
    <3>2. CASE h = g /\ n = "reader"
      BY <1>2, <1>4, <1>9, <3>2 DEF Kept, Goals
    <3>3. QED  BY <1>1, <1>4, <3>1, <3>2
  <2>2. QED  BY <1>7, <2>1, StillGood DEF BlocksInv
<1>10. CASE ReadLine(g)
  BY <1>6, <1>7, <1>8, <1>10, ReadLineIsGood
<1>11. CASE ReadEnd(g)
  <2>1. Leave(g) /\ read' = read
    BY <1>11 DEF ReadEnd
  <2>2. /\ Flushed(g)' = Flushed(g) /\ block'[g] = <<>> /\ task'[g]["reader"] = "ended"
        /\ \A h \in Generations : h # g =>
              block'[h] = block[h] /\ events'[h] = events[h] /\ task'[h] = task[h]
    BY <2>1, LeaveKeepsCut
  <2>3. Heads(g)' = Heads(g) /\ Further(g)' = Further(g)
    BY <1>2, <2>1 DEF Heads, Further, Belongs, profile
  <2>4. Good(g)'
    BY <1>6, <2>1, <2>2, <2>3 DEF Good, Whole, InHand
  <2>5. \A h \in Generations : h # g => Kept(h)
    BY <1>2, <2>1, <2>2 DEF Kept
  <2>6. QED  BY <1>7, <1>8, <2>4, <2>5
<1>12. CASE ReaderBegins(g)
  BY <1>9, <1>12 DEF ReaderBegins, outputVars
<1>13. CASE ChildStarts(g, "reader")
  BY <1>9, <1>13 DEF ChildStarts
<1>14. CASE Joined(g)
  <2>1. task'[g]["reader"] = "cancelled"
    BY <1>1, <1>14 DEF Joined
  <2>2. QED  BY <1>9, <1>14, <2>1 DEF Joined, outputVars
<1>15. CASE OtherSteps(g)
  <2>1. UNCHANGED <<read, block, events>>
    BY <1>15 DEF OtherSteps, ChildStarts, FtraceEnds, Poll, outputVars
  <2>2. \E y : \E l \in {"ftrace", "poller"} : task' = [task EXCEPT ![g][l] = y]
    BY <1>15 DEF OtherSteps, ChildStarts, FtraceEnds, Poll
  <2>3. task'[g]["reader"] = task[g]["reader"]
    BY <1>1, <2>2
  <2>4. QED  BY <1>9, <2>1, <2>3
<1>16. QED
  BY <1>10, <1>11, <1>12, <1>13, <1>14, <1>15 DEF ReaderSteps

LEMMA ChildrenKeepBlocks ==
    ASSUME TypeInv, BlocksInv, NEW g \in Generations,
           Prints(g) \/ \E o \in Owners : Exits(g, o)
    PROVE  BlocksInv'
<1>1. UNCHANGED <<kind, stage, generation, task, read, block, events>>
  BY DEF Prints, Exits, outputVars
<1>2. \A h \in Generations : \A i \in 1 .. read[h] : printed'[h][i] = printed[h][i]
  <2>1. CASE Prints(g)
    <3>1. \E line : printed' = [printed EXCEPT ![g] = Append(printed[g], line)]
      BY <2>1 DEF Prints
    <3>2. PICK line : printed' = [printed EXCEPT ![g] = Append(printed[g], line)]
      BY <3>1
    <3>3. /\ printed \in [Generations -> Seq(LineKinds)] /\ read \in [Generations -> Nat]
          /\ \A h \in Generations : read[h] <= Len(printed[h])
      BY DEF TypeInv, OutputOK
    <3>4. TAKE h \in Generations
    <3>9. TAKE i \in 1 .. read[h]
    <3>5. i \in 1 .. Len(printed[h]) /\ printed[h] \in Seq(LineKinds)
      BY <3>3, <3>9
    <3>6. CASE h = g
      <4>1. printed'[g] = Append(printed[g], line)
        BY <3>2, <3>3
      <4>2. \A s \in Seq(LineKinds) : \A j \in 1 .. Len(s) : Append(s, line)[j] = s[j]
        OBVIOUS
      <4>3. QED  BY <3>5, <3>6, <4>1, <4>2
    <3>7. CASE h # g
      BY <3>2, <3>3, <3>7
    <3>8. QED  BY <3>6, <3>7
  <2>2. CASE \E o \in Owners : Exits(g, o)
    BY <2>2 DEF Exits, outputVars
  <2>3. QED  BY <2>1, <2>2
<1>3. \A h \in Generations : Kept(h)
  BY <1>1, <1>2 DEF Kept
<1>4. QED  BY <1>1, <1>3, StillGood DEF BlocksInv

LEMMA StepBlocks == ASSUME TypeInv, BlocksInv, [Next]_vars PROVE BlocksInv'
<1>1. CASE UNCHANGED vars
  <2>1. \A h \in Generations : Kept(h)
    BY <1>1 DEF Kept, vars, outputVars
  <2>2. UNCHANGED <<stage, generation, task>>
    BY <1>1 DEF vars
  <2>3. QED  BY <2>1, <2>2, StillGood DEF BlocksInv
<1>2. QED
  BY <1>1, CallerKeepsBlocks, TasksKeepBlocks, ChildrenKeepBlocks DEF Next

LEMMA GoodIsWhole == TypeInv /\ BlocksInv => BlocksAreWhole
<1> SUFFICES ASSUME TypeInv, BlocksInv, NEW g \in Generations
             PROVE  LET cut   == Flushed(g)
                        heads == Heads(g)
                    IN  /\ Len(cut) = Cardinality(heads)
                        /\ \A i \in DOMAIN cut :
                              /\ {cut[i][j] : j \in DOMAIN cut[i]} = BlockAt(g, cut[i][1])
                              /\ cut[i][1] \in heads
                              /\ i > 1 => cut[i - 1][1] < cut[i][1]
  BY DEF BlocksAreWhole, Flushed, Heads
<1>1. CutOf(Flushed(g), Heads(g), Further(g), read[g])
  BY DEF BlocksInv, Good, Whole
<1>2. read[g] \in Nat
  BY DEF TypeInv, OutputOK
<1>3. ASSUME NEW n \in Heads(g)
      PROVE  BlockOf(n, Further(g), read[g]) = BlockAt(g, n)
  <2>1. n \in 1 .. read[g]
    BY DEF Heads
  <2>2. \A m \in n + 1 .. read[g] : \A k \in n + 1 .. m : k \in 1 .. read[g]
    BY <1>2, <2>1
  <2>3. \A m \in n + 1 .. read[g] :
           (\A k \in n + 1 .. m : k \in Further(g)) <=> (\A k \in n + 1 .. m : Belongs(g, k))
    BY <2>2 DEF Further
  <2>4. QED  BY <2>3 DEF BlockOf, BlockAt, Belongs
<1>4. QED  BY <1>1, <1>3 DEF CutOf, Elements

\* What the reader publishes, with the block in its hand, is what the child printed
\* cut at its headers, each event whole, once and in order, for any output of any
\* length and however the reader ends.
THEOREM BlocksStayWhole == Spec => []BlocksAreWhole
<1>1. TypeInv /\ BlocksInv /\ [Next]_vars => TypeInv' /\ BlocksInv'
  BY StepTypes, StepBlocks
<1>2. QED  BY <1>1, InitTypes, BlocksInit, GoodIsWhole, PTL DEF Spec
===============================================================================
