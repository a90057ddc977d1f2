----------------------------- MODULE ChildCollector -----------------------------
(***************************************************************************)
(* One collector of those that read a child process (btmon, udevadm,       *)
(* journalctl, a bluetoothd of their own, btmgmt, dmesg and trace_pipe,    *)
(* pw-dump, pactl, bpftrace), a polling thread (bcc) or a timer (the mock  *)
(* sniffers): its start, its tasks, its stop, and the runtime that calls   *)
(* them (blutruth/collectors, blutruth/runtime.py).                        *)
(*                                                                         *)
(* A step is what one task does between two awaits.  A generation is what  *)
(* one start created; a stop that raises leaves tasks and a child of its   *)
(* generation behind.  The watcher of the configuration starts and stops   *)
(* the collector; Runtime.stop cancels the watcher, which may be in the    *)
(* middle of either, and stops the collector a last time.                  *)
(***************************************************************************)
EXTENDS Naturals, Sequences, FiniteSets, FiniteSetsExt, ChildProfiles

CONSTANTS Kinds,        \* the collectors to choose from
          MaxStarts,    \* how often the collector is started
          MaxLines,     \* lines the children print whose events have several, ...
          MaxSingles,   \* ... and those whose events are single lines
          FaultKinds,   \* what may go wrong, each any number of times, ...
          MaxFaults     \* ... but no more than so many kinds in one behaviour

ASSUME ChildAssumption ==
    /\ Kinds \subseteq AllKinds
    /\ {MaxStarts, MaxLines, MaxSingles, MaxFaults} \subseteq Nat
    /\ FaultKinds \subseteq {"exit", "spawn", "long", "bad", "stubborn",
                             "cancel", "service", "poll"}

VARIABLES kind,       \* which collector it is
          stage,      \* where the caller is in start or stop
          final,      \* Runtime.stop has reached this collector
          generation, \* how often it was started
          running,    \* _running
          slot,       \* the generation of the task an attribute refers to, or 0
          proc,       \* the generation of the child _proc refers to, or 0
          task,       \* where each task is
          child,      \* the children
          printed, read, block, \* a child's lines, those read, the block in hand
          events,     \* what was published of each generation's lines
          noticed,    \* generations whose child was reported to have exited
          service, found,     \* bluetooth.service now, and before the first start
          wasActive,  \* _managed_service_was_active
          botched,    \* history: a stop raised
          late,       \* history: something was published after a stop
          faults

selfVars    == <<running, slot, proc>>
outputVars  == <<printed, read, block, events, noticed, late>>
serviceVars == <<service, found, wasActive>>
vars == <<kind, stage, final, generation, selfVars, task, child, outputVars,
          serviceVars, botched, faults>>

Generations == 1 .. MaxStarts
TaskNames == {"reader", "ftrace", "poller"}
Owners == {"reader", "ftrace"}
profile == Profiles[kind]
Tasks == profile.tasks
Reads(o) == IF o = "ftrace" THEN FtraceReads ELSE profile.reads

Up == [at |-> "up"]
Down == [at |-> "down"]

Fault(f) == /\ f \in FaultKinds
            /\ Cardinality(faults \cup {f}) <= MaxFaults
            /\ faults' = faults \cup {f}

Init ==
    /\ kind \in Kinds
    /\ stage = Down /\ final = FALSE /\ generation = 0
    /\ running = FALSE
    /\ slot = [n \in TaskNames |-> 0]
    /\ proc = 0
    /\ task = [g \in Generations |-> [n \in TaskNames |-> "none"]]
    /\ child = [g \in Generations |-> [o \in Owners |-> "none"]]
    /\ printed = [g \in Generations |-> <<>>]
    /\ read = [g \in Generations |-> 0]
    /\ block = [g \in Generations |-> <<>>]
    /\ events = [g \in Generations |-> <<>>]
    /\ noticed = {}
    /\ service \in (IF kind = "managed" THEN {"active", "inactive"} ELSE {"none"})
    /\ found = service
    /\ wasActive = FALSE
    /\ botched = FALSE /\ late = FALSE
    /\ faults = {}

\* Something is published; after a stop it is late.
Publish == late' = (late \/ stage = Down)

-----------------------------------------------------------------------------
\* start.

\* What start leaves when its tasks are created and the flag is set.
Launched(g) ==
    /\ running' = TRUE
    /\ slot' = [n \in TaskNames |-> IF \E i \in DOMAIN Tasks : Tasks[i] = n
                                    THEN g ELSE slot[n]]
    /\ task' = [task EXCEPT ![g] = [n \in TaskNames |->
                    IF \E i \in DOMAIN Tasks : Tasks[i] = n THEN "created" ELSE @[n]]]
    /\ stage' = Up

Start ==
    /\ stage = Down /\ ~final /\ generation < MaxStarts
    /\ generation' = generation + 1
    /\ \/ /\ kind = "managed"
          /\ stage' = [at |-> "asking"]
          /\ UNCHANGED <<selfVars, task>>
       \/ /\ kind # "managed" /\ profile.start.by = "start"
          /\ stage' = [at |-> "spawning"]
          /\ UNCHANGED <<selfVars, task>>
       \/ /\ profile.start.by # "start"
          /\ Launched(generation + 1)
          /\ UNCHANGED proc
    /\ UNCHANGED <<kind, final, child, outputVars, serviceVars, botched, faults>>

\* The managed mode asks systemd, and stops the service if it is active.  That
\* systemctl cannot be run ends the start; that it could not tell counts as no.
Ask ==
    /\ stage.at = "asking"
    /\ \/ /\ wasActive' = (service = "active")
          /\ stage' = [at |-> IF wasActive' THEN "halting" ELSE "spawning"]
          /\ UNCHANGED faults
       \/ /\ Fault("service")
          /\ wasActive' = FALSE
          /\ stage' = [at |-> "spawning"]
       \/ /\ Fault("service")
          /\ stage' = Up /\ UNCHANGED wasActive
    /\ UNCHANGED <<kind, final, generation, selfVars, task, child, outputVars,
                   service, found, botched>>

\* What systemctl stop answers is not looked at: a service that would not stop goes
\* on beside the bluetoothd that is launched next.
Halt ==
    /\ stage.at = "halting"
    /\ \/ /\ service' = "inactive"
          /\ stage' = [at |-> "spawning"]
          /\ UNCHANGED faults
       \/ /\ Fault("service") /\ UNCHANGED service
          /\ stage' \in {[at |-> "spawning"], Up}
    /\ UNCHANGED <<kind, final, generation, selfVars, task, child, outputVars,
                   found, wasActive, botched>>

Spawn ==
    /\ stage.at = "spawning"
    /\ \/ /\ child' = [child EXCEPT ![generation]["reader"] = "running"]
          /\ proc' = generation
          /\ Launched(generation)
          /\ UNCHANGED faults
       \/ \* whether start reports it or raises, the caller goes on
          /\ Fault("spawn")
          /\ stage' = IF kind = "managed" /\ wasActive
                      THEN [at |-> "restoring", then |-> "up"] ELSE Up
          /\ UNCHANGED <<selfVars, task, child>>
    /\ UNCHANGED <<kind, final, generation, outputVars, serviceVars, botched>>

-----------------------------------------------------------------------------
\* stop.

\* Cancelled at its await, a task ends; the bcc reader first clears the flag and
\* waits for its thread.  A task that has not begun never does.
Cancelled(at) ==
    CASE at \in {"none", "ended", "raised", "cancelled", "joining"} -> at
      [] kind = "bcc" /\ at = "reading" -> "joining"
      [] OTHER -> "cancelled"

\* Mutant: the service is restored by a collector that runs.
RestoreIfRunning(end) == IF kind = "managed" /\ wasActive /\ running
                         THEN [at |-> "restoring", then |-> end] ELSE [at |-> end]

\* In managed mode the service comes last.
RestoreOr(end) == IF kind = "managed" /\ wasActive
                  THEN [at |-> "restoring", then |-> end] ELSE [at |-> end]

\* Mutant: the first task is cancelled, the others are forgotten.
CancelOne(i, slots) ==
    IF i = 1 /\ slots[Tasks[1]] # 0
    THEN /\ task' = [task EXCEPT ![slots[Tasks[1]]][Tasks[1]] = Cancelled(@)]
         /\ stage' = [at |-> "joining", next |-> 1]
         /\ UNCHANGED child
    ELSE stage' = Down /\ UNCHANGED <<task, child>>

\* stop goes on with the first task from the i-th that it has, or else with the
\* child, or else with the service.
CancelFrom(i, slots) ==
    LET left == {j \in i .. Len(Tasks) : slots[Tasks[j]] # 0}
        next == CHOOSE j \in left : \A k \in left : j <= k
        name == Tasks[next]
        g    == slots[name]
    IN  IF left # {}
        THEN /\ task' = [task EXCEPT ![g][name] = Cancelled(@)]
             /\ stage' = [at |-> "joining", next |-> next]
             /\ UNCHANGED child
        ELSE /\ stage' = IF proc # 0 THEN [at |-> "reaping"] ELSE RestoreOr("down")
             /\ child' = IF proc # 0 /\ child[proc]["reader"] = "running"
                         THEN [child EXCEPT ![proc]["reader"] = "told"] ELSE child
             /\ UNCHANGED task

Stop ==
    /\ \/ stage = Up /\ final' = final
       \/ stage \in {Up, Down} /\ ~final /\ final' = TRUE
    /\ running' = FALSE
    /\ CancelFrom(1, slot)
    /\ UNCHANGED <<kind, generation, slot, proc, outputVars, serviceVars, botched,
                   faults>>

\* Awaiting a task that died of an exception, stop raises it: nothing that
\* follows is done, and the attributes keep what they refer to.
Join ==
    /\ stage.at = "joining"
    /\ LET name  == Tasks[stage.next]
           g     == slot[name]
           freed == [slot EXCEPT ![name] = 0]
       IN  \/ /\ task[g][name] \in {"ended", "cancelled"}
              /\ slot' = freed
              /\ CancelFrom(stage.next + 1, freed)
              /\ UNCHANGED botched
           \/ /\ task[g][name] = "raised"
              /\ stage' = Down
              /\ botched' = TRUE
              /\ UNCHANGED <<slot, task, child>>
    /\ UNCHANGED <<kind, final, generation, running, proc, outputVars, serviceVars,
                   faults>>

\* The child has exited, or three (five) seconds are over and it is left alone.
Reap ==
    /\ stage.at = "reaping"
    /\ \/ child[proc]["reader"] = "exited" /\ UNCHANGED faults
       \/ Fault("stubborn")
    /\ proc' = 0
    /\ stage' = RestoreOr("down")
    /\ UNCHANGED <<kind, final, generation, running, slot, task, child, outputVars,
                   serviceVars, botched>>

Restore ==
    /\ stage.at = "restoring"
    /\ \/ service' = "active" /\ UNCHANGED faults
       \/ Fault("service") /\ UNCHANGED service
    /\ stage' = [at |-> stage.then]
    /\ UNCHANGED <<kind, final, generation, selfVars, task, child, outputVars,
                   found, wasActive, botched>>

\* Runtime.stop cancels the watcher while it awaits in start or stop.  A stop
\* that awaits a task cancels that task once more and swallows its own
\* cancellation; anywhere else it leaves, and systemctl, if it was begun, finishes
\* what it was told.
CancelCaller ==
    /\ ~final /\ stage \notin {Up, Down}
    /\ Fault("cancel")
    /\ \/ /\ stage.at = "joining"
          /\ LET name == Tasks[stage.next] IN
                task' = [task EXCEPT ![slot[name]][name] =
                            IF @ = "joining" THEN "cancelled" ELSE @]
          /\ UNCHANGED <<stage, final, service>>
       \/ /\ stage.at # "joining"
          /\ stage' = Up /\ final' = TRUE
          /\ \/ UNCHANGED service
             \/ stage.at = "halting"   /\ service' = "inactive"
             \/ stage.at = "restoring" /\ service' = "active"
          /\ UNCHANGED task
    /\ UNCHANGED <<kind, generation, selfVars, child, outputVars, found, wasActive,
                   botched>>

-----------------------------------------------------------------------------
\* The tasks of a generation.

\* The task starts its child, or bcc's opens the perf buffer and starts its thread.
\* trace_pipe is read by a child that only a local variable knows, told to end when
\* the loop is left but not on a cancellation.
ChildStarts(g, o) ==
    /\ task[g][o] = "created" /\ (o = "ftrace" \/ profile.start.by = "task")
    /\ \/ /\ child' = [child EXCEPT ![g][o] =
                         IF o = "ftrace" /\ ~running THEN "told" ELSE "running"]
          /\ proc' = IF o = "reader" /\ kind # "bcc" THEN g ELSE proc
          /\ task' = [task EXCEPT ![g][o] = IF running THEN "reading" ELSE "ended"]
          /\ UNCHANGED <<late, faults>>
       \/ /\ Fault("spawn")
          /\ \E why \in Failures :
                LET caught == o = "ftrace" \/ why \in profile.start.caught IN
                  /\ task' = [task EXCEPT ![g][o] = IF caught THEN "ended" ELSE "raised"]
                  /\ IF caught THEN Publish ELSE UNCHANGED late
          /\ UNCHANGED <<child, proc>>
    /\ UNCHANGED <<kind, stage, final, generation, running, slot, printed, read,
                   block, events, noticed, serviceVars, botched>>

ReaderBegins(g) ==
    /\ task[g]["reader"] = "created" /\ profile.start.by = "start"
    /\ task' = [task EXCEPT ![g]["reader"] = IF running THEN "reading" ELSE "ended"]
    /\ UNCHANGED <<kind, stage, final, generation, selfVars, child, outputVars,
                   serviceVars, botched, faults>>

\* The block in hand becomes an event.
Flushed(g) == IF block[g] = <<>> THEN events[g] ELSE Append(events[g], block[g])

\* One line, by what it is: the header of an event, a further line of it, or
\* something else, which ends a block of btmon and belongs to one of btmgmt.
Take(g, n, line) ==
    CASE profile.reads.blocks = "no" ->
            /\ events' = [events EXCEPT ![g] = Append(@, <<n>>)]
            /\ UNCHANGED block
      [] profile.reads.blocks # "no" /\ line = "head" ->
            /\ events' = [events EXCEPT ![g] = Flushed(g)]
            /\ block' = [block EXCEPT ![g] = <<n>>]
      [] profile.reads.blocks # "no" /\ line # "head" /\ block[g] # <<>> /\
            (line = "more" \/ profile.reads.blocks = "loose") ->
            /\ block' = [block EXCEPT ![g] = Append(@, n)]
            /\ UNCHANGED events
      [] OTHER ->
            /\ events' = [events EXCEPT ![g] = Flushed(g)]
            /\ block' = [block EXCEPT ![g] = <<>>]

\* Mutant: what is in hand is forgotten.
LeaveAtOnce(g) ==
    /\ block' = [block EXCEPT ![g] = <<>>]
    /\ task' = [task EXCEPT ![g]["reader"] = "ended"]
    /\ UNCHANGED events

\* The loop is left: what is in hand is flushed.
Leave(g) ==
    /\ events' = [events EXCEPT ![g] = Flushed(g)]
    /\ block' = [block EXCEPT ![g] = <<>>]
    /\ task' = [task EXCEPT ![g]["reader"] = "ended"]

ReadLine(g) ==
    /\ task[g]["reader"] = "reading" /\ read[g] < Len(printed[g])
    /\ LET n == read[g] + 1
           line == printed[g][n]
       IN  /\ read' = [read EXCEPT ![g] = n]
           /\ \/ /\ line = "long"        \* readline raises, the loop is left
                 /\ Leave(g)
              \/ /\ line = "bad"         \* the parser raises, the task dies
                 /\ task' = [task EXCEPT ![g]["reader"] = "raised"]
                 /\ UNCHANGED <<events, block>>
              \/ /\ line \notin {"long", "bad"}
                 /\ Take(g, n, line)
                 /\ task' = [task EXCEPT ![g]["reader"] = IF running THEN @ ELSE "ended"]
    /\ IF events' # events THEN Publish ELSE UNCHANGED late
    /\ UNCHANGED <<kind, stage, final, generation, selfVars, child, printed, noticed,
                   serviceVars, botched, faults>>

\* Mutant: the collector clears its flag before it looks at it.
ReadEndSilently(g) ==
    /\ task[g]["reader"] = "reading" /\ read[g] = Len(printed[g])
    /\ child[g]["reader"] = "exited" /\ profile.reads.eof = "report"
    /\ running' = FALSE
    /\ Leave(g)
    /\ UNCHANGED <<kind, stage, final, generation, slot, proc, child, printed, read,
                   noticed, late, serviceVars, botched, faults>>

\* The end of the output; journalctl's reader pauses and tries again.
ReadEnd(g) ==
    /\ task[g]["reader"] = "reading" /\ read[g] = Len(printed[g])
    /\ child[g]["reader"] = "exited" /\ profile.reads.eof = "report"
    /\ noticed' = IF running THEN noticed \cup {g} ELSE noticed
    /\ Leave(g)
    /\ Publish
    /\ UNCHANGED <<kind, stage, final, generation, selfVars, child, printed, read,
                   serviceVars, botched, faults>>

FtraceEnds(g) ==
    /\ task[g]["ftrace"] = "reading" /\ child[g]["ftrace"] = "exited"
    /\ task' = [task EXCEPT ![g]["ftrace"] = "ended"]
    /\ UNCHANGED <<kind, stage, final, generation, selfVars, child, outputVars,
                   serviceVars, botched, faults>>

\* The bcc reader has its thread's end.
Joined(g) ==
    /\ task[g]["reader"] = "joining" /\ child[g]["reader"] = "exited"
    /\ task' = [task EXCEPT ![g]["reader"] = "cancelled"]
    /\ UNCHANGED <<kind, stage, final, generation, selfVars, child, outputVars,
                   serviceVars, botched, faults>>

\* A timer: the first round, and one after each sleep.  The mock sniffers look at
\* the flag when they wake, the snapshots of mgmt and kernel_trace do not, and
\* their first snapshot may raise.
Poll(g) ==
    /\ task[g]["poller"] \in {"created", "sleeping"}
    /\ LET first == task[g]["poller"] = "created"
           mock  == profile.start.by = "nobody"
       IN  \/ /\ task' = [task EXCEPT ![g]["poller"] =
                             IF running THEN "sleeping" ELSE "ended"]
              /\ IF mock /\ (first \/ ~running) THEN UNCHANGED late ELSE Publish
              /\ UNCHANGED faults
           \/ /\ first /\ ~mock /\ Fault("poll")
              /\ task' = [task EXCEPT ![g]["poller"] = "raised"]
              /\ UNCHANGED late
    /\ UNCHANGED <<kind, stage, final, generation, selfVars, child, printed, read,
                   block, events, noticed, serviceVars, botched>>

-----------------------------------------------------------------------------
\* The children.

LinesOf(g) == Len(printed[g])

\* A line that is no event is left out where events are single lines.
Prints(g) ==
    /\ child[g]["reader"] = "running" 
    /\ MapThenSumSet(LinesOf, Generations) <
          IF profile.reads.blocks = "no" THEN MaxSingles ELSE MaxLines
    /\ profile.reads.eof # "never" \/ kind = "bcc"
    /\ \/ \E line \in (IF profile.reads.blocks = "no" THEN {"head"}
                      ELSE {"head", "more", "other"}) :
             printed' = [printed EXCEPT ![g] = Append(@, line)]
          /\ UNCHANGED faults
       \/ /\ Fault("long") /\ kind # "bcc"
          /\ printed' = [printed EXCEPT ![g] = Append(@, "long")]
       \/ /\ Fault("bad") /\ profile.reads.fragile
          /\ printed' = [printed EXCEPT ![g] = Append(@, "bad")]
    /\ UNCHANGED <<kind, stage, final, generation, selfVars, task, child, read, block,
                   events, noticed, late, serviceVars, botched>>

\* Mutant: the thread polls for ever.
ExitsUnlessThread(g, o) ==
    /\ \/ child[g][o] = "told" /\ UNCHANGED faults
       \/ kind # "bcc" /\ child[g][o] = "running" /\ Fault("exit")
    /\ child' = [child EXCEPT ![g][o] = "exited"]
    /\ UNCHANGED <<kind, stage, final, generation, selfVars, task, outputVars,
                   serviceVars, botched>>

\* A child exits when told to, or of its own; the thread when the flag is clear.
Exits(g, o) ==
    /\ \/ child[g][o] = "told" /\ UNCHANGED faults
       \/ kind # "bcc" /\ child[g][o] = "running" /\ Fault("exit")
       \/ kind = "bcc" /\ child[g][o] = "running" /\ ~running /\ UNCHANGED faults
    /\ child' = [child EXCEPT ![g][o] = "exited"]
    /\ UNCHANGED <<kind, stage, final, generation, selfVars, task, outputVars,
                   serviceVars, botched>>

-----------------------------------------------------------------------------
CallerSteps == Ask \/ Halt \/ Spawn \/ Join \/ Reap \/ Restore
ReaderSteps(g) == ReaderBegins(g) \/ ReadLine(g) \/ ReadEnd(g) \/ Joined(g)
                    \/ ChildStarts(g, "reader")
OtherSteps(g) == ChildStarts(g, "ftrace") \/ FtraceEnds(g) \/ Poll(g)

Next ==
    \/ Start \/ Stop \/ CancelCaller \/ CallerSteps
    \/ \E g \in Generations :
          ReaderSteps(g) \/ OtherSteps(g) \/ Prints(g) \/ \E o \in Owners : Exits(g, o)

Spec == Init /\ [][Next]_vars

\* The event loop runs every task that is ready; systemctl and the calls of the
\* system return; a child told to terminate does (or Reap gives it up), and the
\* thread sees the flag within one poll of half a second.  A Runtime.stop that has
\* begun goes on to stop the collector.  Nobody has to start or
\* to stop the collector, to print, or to fail.
FairSpec ==
    /\ Spec
    /\ WF_vars(CallerSteps)
    /\ WF_vars(final /\ Stop)
    /\ \A g \in Generations :
          /\ WF_vars(ReaderSteps(g))
          /\ WF_vars(OtherSteps(g))
          /\ WF_vars(child[g]["reader"] = "told" /\ Exits(g, "reader"))
          /\ WF_vars(kind = "bcc" /\ Exits(g, "reader"))

-----------------------------------------------------------------------------
TypeOK ==
    /\ kind \in Kinds
    /\ stage.at \in {"up", "down", "asking", "halting", "spawning", "joining",
                     "reaping", "restoring"}
    /\ stage.at = "joining" => stage.next \in DOMAIN Tasks /\ slot[Tasks[stage.next]] # 0
    /\ stage.at = "reaping" => proc # 0
    /\ generation \in 0 .. MaxStarts /\ proc \in 0 .. generation
    /\ slot \in [TaskNames -> 0 .. generation]
    /\ task \in [Generations -> [TaskNames -> {"none", "created", "reading", "sleeping",
                                "joining", "ended", "raised", "cancelled"}]]
    /\ child \in [Generations -> [Owners -> {"none", "running", "told", "exited"}]]
    /\ \A g \in Generations : read[g] \in 0 .. Len(printed[g]) 
    /\ noticed \subseteq 1 .. generation
    /\ {running, final, wasActive, botched, late} \subseteq BOOLEAN
    /\ service \in {"active", "inactive", "none"}
    /\ faults \subseteq FaultKinds

Alive(g, n) == task[g][n] \in {"created", "reading", "sleeping", "joining"}

\* A stop that returns leaves no task and no child that was not told to end
\* (base.py, "stop collecting and clean up resources"), and nothing is published
\* after it.  Two may run on: the cat of a trace_pipe reader that was cancelled,
\* which nobody tells to end, and the thread of bcc if its reader was cancelled
\* once more while it waited for it.
LeavesNothingBehind ==
    /\ TypeOK
    /\ late => botched
    /\ stage = Down /\ ~botched =>
          \A g \in Generations :
              /\ \A n \in TaskNames : ~Alive(g, n)
              /\ child[g]["reader"] = "running" => kind = "bcc" /\ "cancel" \in faults
              /\ child[g]["ftrace"] = "running" =>
                    kind = "kernel" /\ task[g]["ftrace"] = "cancelled"

\* The service and the bluetoothds of the managed mode take turns, the one that a stop
\* told to end and still waits for included: both run only if systemctl failed, or if
\* the child outlived the five seconds that stop gives it.  However the managed mode
\* ends (a launch that fails, a cancelled start or stop, an exit of its bluetoothd),
\* at the end the service is as it was found, unless systemctl failed.
ServiceGivenBack ==
    /\ \A g \in Generations : kind = "managed" /\ service = "active" =>
          /\ child[g]["reader"] = "running" => "service" \in faults
          /\ child[g]["reader"] = "told" => {"service", "stubborn"} \cap faults # {}
    /\ final /\ stage = Down => service = found \/ "service" \in faults

\* The lines that belong to the header in line n, of those read.
BlockAt(g, n) ==
    LET belongs(m) == /\ profile.reads.blocks # "no"
                      /\ \/ printed[g][m] = "more"
                         \/ profile.reads.blocks = "loose" /\ printed[g][m] = "other"
    IN  {n} \cup {m \in n + 1 .. read[g] : \A k \in n + 1 .. m : belongs(k)}

\* What is published, with the block in hand, is the child's output cut at its
\* headers: each event whole, once, in order.
BlocksAreWhole ==
    \A g \in Generations :
        LET cut   == IF block[g] = <<>> THEN events[g] ELSE Append(events[g], block[g])
            heads == {n \in 1 .. read[g] : printed[g][n] = "head"}
        IN  /\ Len(cut) = Cardinality(heads)
            /\ \A i \in DOMAIN cut :
                  /\ {cut[i][j] : j \in DOMAIN cut[i]} = BlockAt(g, cut[i][1])
                  /\ cut[i][1] \in heads
                  /\ i > 1 => cut[i - 1][1] < cut[i][1]

\* A stop ends, whatever the tasks, the child and the thread were doing.
StopEnds == final ~> (stage = Down)

\* If the child exits while the collector runs, that is reported or a stop has
\* cancelled the reader, unless a line ended it before it got there; journalctl's reader never reports it.
ExitIsReported ==
    \A g \in Generations :
        (slot["reader"] = g /\ running /\ child[g]["reader"] = "exited"
            /\ profile.reads.eof = "report")
        ~> (g \in noticed \/ slot["reader"] # g \/ {"long", "bad"} \cap faults # {})
=============================================================================
