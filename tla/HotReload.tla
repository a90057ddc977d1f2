------------------------------- MODULE HotReload -------------------------------
(***************************************************************************)
(* The configuration file, the task of the runtime that watches it, and    *)
(* the collectors that task restarts, until the runtime is stopped:        *)
(* Config.load (blutruth/config.py) and _config_watch_loop,                *)
(* _on_config_changed, the collector parts of start and stop               *)
(* (blutruth/runtime.py).                                                  *)
(*                                                                         *)
(* Somebody edits the file at any moment, also between load's look at the  *)
(* modification time and its read.  Restarting a collector awaits, so a    *)
(* shutdown may come in the middle of a restart; a collector's own stop    *)
(* may swallow the cancellation that shutdown sends (most of them catch    *)
(* CancelledError while they wait for their task).                         *)
(***************************************************************************)
EXTENDS Integers, Sequences

CONSTANTS Collectors,     \* the collectors, in the order they are registered
          ForceDisabled,  \* those switched off on the command line
          NeedsRoot,      \* those whose capabilities() require root
          IsRoot,         \* whether the program runs as root
          Off, Settings,  \* a collector's section: Off, or enabled with options
          OlderFiles,     \* whether an edit may carry an old modification time
          Flaws,          \* what may be wrong with a file: "unreadable" (load
                          \* raises before it takes anything from it) or
                          \* "rejected" (validate raises, at the end of load)
          MaxEdits, MaxFailures   \* bounds

Last == Len(Collectors)
Names == {Collectors[i] : i \in 1 .. Last}
Section == [Names -> {Off} \cup Settings]

ASSUME ReloadAssumption ==
    /\ Collectors \in Seq(Names)
    /\ \A i, j \in 1 .. Last : Collectors[i] = Collectors[j] => i = j
    /\ ForceDisabled \subseteq Names /\ NeedsRoot \subseteq Names
    /\ {IsRoot, OlderFiles} \subseteq BOOLEAN
    /\ Off \notin Settings
    /\ Flaws \subseteq {"unreadable", "rejected"}
    /\ MaxEdits \in Nat /\ MaxFailures \in Nat

VARIABLES file,       \* what the file says, its flaw and modification time
          notified,   \* the file system has news for awatch
          config,     \* Config: data, _prev_collectors and _mtime
          watcher,    \* where the watching task is
          notifier,   \* whether it still waits for awatch, or polls
          instances,  \* how many times each collector is running
          shutdown,   \* where Runtime.stop is
          edits, failures   \* counted for the bounds

fileVars == <<file, notified, edits>>
vars == <<fileVars, config, watcher, notifier, instances, shutdown, failures>>

-----------------------------------------------------------------------------
\* Runtime.start skips a collector for one of three reasons.
StartsAtBoot(section, c) ==
    /\ c \notin ForceDisabled
    /\ section[c] # Off
    /\ c \in NeedsRoot => IsRoot

Idle == [at |-> "idle"]

Init ==
    /\ \E section \in Section :
          /\ file = [says |-> section, flaw |-> "none", mtime |-> 1]
          /\ config = [data |-> section, previous |-> section, mtime |-> 1]
          /\ instances = [c \in Names |-> IF StartsAtBoot(section, c) THEN 1 ELSE 0]
    /\ notified = FALSE
    /\ watcher = Idle
    /\ notifier \in BOOLEAN
    /\ shutdown = [at |-> "running"]
    /\ edits = 0 /\ failures = 0

-----------------------------------------------------------------------------
\* Somebody replaces the file, by a newer one or (a restored backup) by one that
\* keeps its old time.
Edit ==
    /\ edits < MaxEdits
    /\ \E says \in Section, flaw \in {"none"} \cup Flaws,
          mtime \in (IF OlderFiles THEN 1 ELSE edits + 2) .. edits + 2 :
             file' = [says |-> says, flaw |-> flaw, mtime |-> mtime]
    /\ notified' = TRUE
    /\ edits' = edits + 1
    /\ UNCHANGED <<config, watcher, notifier, instances, shutdown, failures>>

\* Mutant: two edits within a tick of the clock look alike.
LookAtFileCoarsely ==
    /\ watcher = Idle /\ shutdown.at = "running"
    /\ notifier => notified
    /\ notified' = FALSE
    /\ watcher' = IF file.mtime > config.mtime + 1
                  THEN [at |-> "reading", mtime |-> file.mtime] ELSE Idle
    /\ UNCHANGED <<file, edits, config, notifier, instances, shutdown, failures>>

\* awatch delivers what happened, or one second of the polling loop is over:
\* load looks at the modification time and returns unless it is newer.
LookAtFile ==
    /\ watcher = Idle /\ shutdown.at = "running"
    /\ notifier => notified
    /\ notified' = FALSE
    /\ watcher' = IF file.mtime > config.mtime
                  THEN [at |-> "reading", mtime |-> file.mtime] ELSE Idle
    /\ UNCHANGED <<file, edits, config, notifier, instances, shutdown, failures>>

\* What load leaves in Config.
Loaded == [data |-> file.says, previous |-> config.data, mtime |-> watcher.mtime]

\* Mutant: the new sections are compared with those before the last load.
ReadFileAgainstOlder ==
    /\ watcher.at = "reading" /\ file.flaw = "none"
    /\ config' = Loaded
    /\ watcher' = IF file.says # config.previous
                  THEN [at |-> "stopping", next |-> 1]
                  ELSE Idle
    /\ UNCHANGED <<fileVars, notifier, instances, shutdown, failures>>

\* The rest of load, and _on_config_changed up to its first await.
ReadFile ==
    /\ watcher.at = "reading" /\ file.flaw = "none"
    /\ config' = Loaded
    /\ watcher' = IF file.says # config.data
                  THEN [at |-> "stopping", next |-> 1]
                  ELSE Idle
    /\ UNCHANGED <<fileVars, notifier, instances, shutdown, failures>>

\* load raises: the YAML parser (or _expand_paths) on a file it cannot read, or
\* validate on a section that is no mapping, when data and _mtime are already
\* set.  Under awatch the task falls back to polling; in the polling loop nothing
\* catches it.
LoadRaises ==
    /\ watcher.at = "reading" /\ file.flaw # "none"
    /\ config' = IF file.flaw = "rejected" THEN Loaded ELSE config
    /\ watcher' = IF notifier THEN Idle ELSE [at |-> "dead"]
    /\ notifier' = FALSE
    /\ UNCHANGED <<fileVars, instances, shutdown, failures>>

-----------------------------------------------------------------------------
\* A collector's stop ends it, or raises and leaves it running; its start runs
\* it once more, or raises.
Fails == /\ failures < MaxFailures
         /\ failures' = failures + 1
         /\ UNCHANGED instances
StopCollector(c) ==
    \/ instances' = [instances EXCEPT ![c] = 0] /\ UNCHANGED failures
    \/ instances[c] > 0 /\ Fails
StartCollector(c) ==
    \/ instances' = [instances EXCEPT ![c] = @ + 1] /\ UNCHANGED failures
    \/ Fails

\* _on_config_changed stops every collector there is ...
StopNext ==
    /\ watcher.at = "stopping"
    /\ StopCollector(Collectors[watcher.next])
    /\ watcher' = IF watcher.next = Last
                  THEN [watcher EXCEPT !.at = "starting", !.next = 1]
                  ELSE [watcher EXCEPT !.next = @ + 1]
    /\ UNCHANGED <<fileVars, config, notifier, shutdown>>

\* Mutant: the stop event is not looked at.
AfterRestartIdle == Idle

\* The watcher then waits for the next change, unless the stop event is set.
AfterRestart == IF shutdown.at = "running" THEN Idle ELSE [at |-> "done"]

\* ... and starts every one the new configuration enables.
StartNext ==
    /\ watcher.at = "starting"
    /\ LET c == Collectors[watcher.next]
       IN  IF config.data[c] # Off THEN StartCollector(c)
           ELSE UNCHANGED <<instances, failures>>
    /\ watcher' = IF watcher.next < Last THEN [watcher EXCEPT !.next = @ + 1]
                  ELSE AfterRestart
    /\ UNCHANGED <<fileVars, config, notifier, shutdown>>

-----------------------------------------------------------------------------
\* Runtime.stop sets the stop event and cancels the watcher.
Stop ==
    /\ shutdown.at = "running" /\ watcher.at # "reading"
    /\ shutdown' = [at |-> "awaiting"]
    /\ UNCHANGED <<fileVars, config, watcher, notifier, instances, failures>>

\* The cancellation ends a watcher that sleeps, or that awaits a collector: a
\* start cut off may have started the collector already.
CancelTakesEffect ==
    /\ shutdown.at = "awaiting" /\ watcher.at \in {"idle", "stopping", "starting"}
    /\ \/ UNCHANGED instances
       \/ /\ watcher.at = "starting"
          /\ config.data[Collectors[watcher.next]] # Off
          /\ instances' = [instances EXCEPT ![Collectors[watcher.next]] = @ + 1]
    /\ watcher' = [at |-> "done"]
    /\ UNCHANGED <<fileVars, config, notifier, shutdown, failures>>

\* Or the collector being stopped swallows it, and the restart goes on.
CancelIsSwallowed ==
    /\ shutdown.at = "awaiting" /\ watcher.at = "stopping"
    /\ shutdown' = [at |-> "swallowed"]
    /\ UNCHANGED <<fileVars, config, watcher, notifier, instances, failures>>

\* Mutant: stop cancels the watcher and does not wait for it.
WatcherIgnored ==
    /\ shutdown.at \in {"awaiting", "swallowed"}
    /\ shutdown' = [at |-> "collectors", next |-> Last]
    /\ UNCHANGED <<fileVars, config, watcher, notifier, instances, failures>>

\* stop has awaited the watcher: it goes on, unless the watcher had raised.
\* The collectors are stopped in reverse order.
WatcherAwaited ==
    /\ shutdown.at \in {"awaiting", "swallowed"}
    /\ watcher.at \in {"done", "dead"}
    /\ shutdown' = IF watcher.at = "dead" THEN [at |-> "raised"]
                   ELSE [at |-> "collectors", next |-> Last]
    /\ UNCHANGED <<fileVars, config, watcher, notifier, instances, failures>>

ShutDownNext ==
    /\ shutdown.at = "collectors" /\ shutdown.next > 0
    /\ StopCollector(Collectors[shutdown.next])
    /\ shutdown' = [shutdown EXCEPT !.next = @ - 1]
    /\ UNCHANGED <<fileVars, config, watcher, notifier>>

\* Nothing is left but the writer, the session and the sinks.
CloseStorage ==
    /\ shutdown.at = "collectors" /\ shutdown.next = 0
    /\ shutdown' = [at |-> "stopped"]
    /\ UNCHANGED <<fileVars, config, watcher, notifier, instances, failures>>

Watcher == LookAtFile \/ ReadFile \/ LoadRaises \/ StopNext \/ StartNext
Shutdown == CancelTakesEffect \/ CancelIsSwallowed \/ WatcherAwaited
            \/ ShutDownNext \/ CloseStorage

Next == Edit \/ Watcher \/ Stop \/ Shutdown

Spec == Init /\ [][Next]_vars

\* The event loop runs its tasks; nobody has to edit the file or stop.
FairSpec == Spec /\ WF_vars(Watcher) /\ WF_vars(Shutdown)

-----------------------------------------------------------------------------
Watching == [at : {"idle", "done", "dead"}]
            \cup [at : {"reading"}, mtime : 1 .. MaxEdits + 1]
            \cup [at : {"stopping", "starting"}, next : 1 .. Last]
Stopping == [at : {"running", "awaiting", "swallowed", "stopped", "raised"}]
            \cup [at : {"collectors"}, next : 0 .. Last]

\* Types of the state.
TypeOK ==
    /\ file \in [says : Section, flaw : {"none"} \cup Flaws,
               mtime : 1 .. MaxEdits + 1]
    /\ config \in [data : Section, previous : Section, mtime : 1 .. MaxEdits + 1]
    /\ notified \in BOOLEAN /\ notifier \in BOOLEAN
    /\ watcher \in Watching /\ shutdown \in Stopping
    /\ instances \in [Names -> Nat]
    /\ edits \in 0 .. MaxEdits /\ failures \in 0 .. MaxFailures

\* When the watcher waits for the next change and no collector has refused to
\* stop or to start, exactly the collectors its configuration enables are
\* running, each once, whatever was edited while it worked; nothing being
\* switched off or missing root when it started, and no file being rejected
\* when it was loaded (runtime.py:363-398).
ReloadTakesEffect ==
    /\ ForceDisabled = {} /\ (IsRoot \/ NeedsRoot = {}) /\ "rejected" \notin Flaws
    /\ watcher = Idle /\ shutdown.at = "running" /\ failures = 0
    => \A c \in Names : instances[c] = IF config.data[c] = Off THEN 0 ELSE 1

\* A runtime that has stopped leaves no collector running, also when it was
\* stopped in the middle of a restart whose cancellation a collector swallowed
\* (runtime.py:252-276).
NothingRunsAfterStop ==
    shutdown.at = "stopped" /\ failures = 0 => \A c \in Names : instances[c] = 0

\* A change of the file is not missed: unless the runtime is stopped or an
\* unreadable file has ended the watcher, the configuration in force is in the
\* end what the file says, if it can be read at all (config.py:158 "subsequent
\* calls return True if changed").
FileIsLoaded ==
    \/ <>(shutdown.at # "running" \/ watcher.at = "dead")
    \/ <>[](file.flaw = "unreadable" \/ config.data = file.says)

\* A stop that was called comes to an end.
StopEnds == shutdown.at = "awaiting" ~> shutdown.at \in {"stopped", "raised"}

=============================================================================
