----------------------------- MODULE ConnectionProbes -----------------------------
(***************************************************************************)
(* The two collectors that ask connected devices something again and       *)
(* again, l2ping and battery (blutruth/collectors/l2ping.py, battery.py).  *)
(* Which devices are connected they learn from the events of a third, the  *)
(* D-Bus collector (dbus_monitor.py), out of a queue of the event bus.     *)
(*                                                                         *)
(* Each has a task that watches the queue and one that goes round the      *)
(* devices; battery has a third that should be told of new levels.  An     *)
(* answer is in flight while devices come and go and while the collector   *)
(* is stopped.  A publication never suspends, so what a task does between  *)
(* two awaits is one step.                                                 *)
(*                                                                         *)
(* What battery calls D-Bus with, MessageBus.call_method, dbus-next does   *)
(* not have: once connected it is answered by an AttributeError, which is  *)
(* caught, so it reads no level and is told of none.                       *)
(***************************************************************************)
EXTENDS BlueZ, Sequences, FiniteSets

CONSTANTS QueueSize,    \* max_queue of subscribe
          MaxStarts,    \* how often the probe is started, ...
          MaxMonitors   \* ... and the D-Bus collector

ASSUME ProbesAssumption == {QueueSize, MaxStarts, MaxMonitors} \subseteq Nat

VARIABLES kind,         \* "l2ping" or "battery"
          monitor, monitors,  \* the D-Bus collector; its starts
          stage, starts,      \* the probe's start and stop
          watcher,      \* _watch_connections is there
          queue,        \* _queue: devices and what became of them
          tracked,      \* _connected_devices
          loop,         \* where _poll_loop is
          notifier,     \* _watch_battery_props is there
          doubts,       \* history: devices of whose last change the probe knows nothing
          late          \* history: something was published after a stop

taskVars == <<watcher, loop, notifier>>
probeVars == <<kind, monitor, monitors, stage, starts, taskVars, queue, tracked, doubts,
               late>>

running == stage = "up"
Ended == [at |-> "ended"]
Waiting == [at |-> "waiting"]

ProbesInit ==
    /\ monitor = "off" /\ monitors = 0
    /\ stage = "down" /\ starts = 0
    /\ watcher = FALSE /\ loop = Ended /\ notifier = FALSE
    /\ queue = <<>> /\ tracked = {}
    /\ doubts = connected
    /\ late = FALSE

-----------------------------------------------------------------------------
\* The D-Bus collector: its task connects, adds the match rules and then its
\* handler.  It does not ask what is connected already.
MonitorStarts ==
    /\ monitor = "off" /\ monitors < MaxMonitors
    /\ monitor' = "connecting" /\ monitors' = monitors + 1
    /\ UNCHANGED <<bluezVars, kind, stage, starts, taskVars, queue, tracked,
                   doubts, late>>

\* Without a connection, or without the first rule, it hears nothing.
MonitorListens ==
    /\ monitor = "connecting"
    /\ monitor' \in {"listening", "deaf"}
    /\ UNCHANGED <<bluezVars, kind, monitors, stage, starts, taskVars, queue, tracked,
                   doubts, late>>

MonitorStops ==
    /\ monitor # "off" /\ monitor' = "off"
    /\ UNCHANGED <<bluezVars, kind, monitors, stage, starts, taskVars, queue, tracked,
                   doubts, late>>

\* What it publishes reaches the queue, unless there is none or it is full.
HandleSignal(d, to) ==
    IF monitor = "listening" /\ stage # "down" /\ Len(queue) < QueueSize
    THEN /\ queue' = Append(queue, [device |-> d, connected |-> to])
         /\ doubts' = doubts \ {d}
    ELSE /\ doubts' = doubts \cup {d}
         /\ UNCHANGED queue

-----------------------------------------------------------------------------
\* start and stop.

StartProbe ==
    /\ stage = "down" /\ starts < MaxStarts
    /\ stage' = "up" /\ starts' = starts + 1
    /\ queue' = <<>>
    /\ watcher' = TRUE /\ loop' = Waiting
    /\ notifier' = (kind = "battery")
    /\ UNCHANGED <<bluezVars, kind, monitor, monitors, tracked, doubts, late>>

\* The poll task is cancelled.  An answer that has just come may win: wait_for
\* returns it then (Python before 3.12) and the cancellation is lost.
StopProbe ==
    /\ stage = "up" /\ stage' = "stopping"
    /\ \/ loop' = Ended
       \/ loop.at = "answered" /\ UNCHANGED loop
    /\ UNCHANGED <<bluezVars, kind, monitor, monitors, starts, watcher, notifier, queue,
                   tracked, doubts, late>>

\* Mutant: the task is cancelled and not waited for.
UnsubscribeAtOnce ==
    /\ stage = "stopping" /\ stage' = "down"
    /\ watcher' = FALSE /\ notifier' = FALSE
    /\ queue' = <<>>
    /\ doubts' = doubts \cup {queue[i].device : i \in DOMAIN queue}
    /\ UNCHANGED <<bluezVars, kind, monitor, monitors, starts, loop, tracked, late>>

\* When it has ended the other tasks are cancelled and the queue is given up; what
\* was known of the devices is kept.
Unsubscribe ==
    /\ stage = "stopping" /\ loop = Ended /\ stage' = "down"
    /\ watcher' = FALSE /\ notifier' = FALSE
    /\ queue' = <<>>
    /\ doubts' = doubts \cup {queue[i].device : i \in DOMAIN queue}
    /\ UNCHANGED <<bluezVars, kind, monitor, monitors, starts, loop, tracked, late>>

-----------------------------------------------------------------------------
\* _watch_connections; it ends after an event if the collector is being stopped.
Watch ==
    /\ watcher /\ queue # <<>>
    /\ LET change == Head(queue)
           d == change.device
       IN  tracked' = IF change.connected THEN tracked \cup {d} ELSE tracked \ {d}
    /\ queue' = Tail(queue)
    /\ watcher' = running
    /\ UNCHANGED <<bluezVars, kind, monitor, monitors, stage, starts, loop, notifier,
                   doubts, late>>

-----------------------------------------------------------------------------
\* _poll_loop.

Probing(d, rest) == [at |-> "probing", device |-> d, rest |-> rest]

\* The next device of the round, if the collector still runs.
Visit(rest) ==
    IF rest = {} \/ ~running THEN loop' = Waiting
    ELSE \E d \in rest : loop' = Probing(d, rest \ {d})

\* Mutant: the loop waits for nothing but its cancellation.
WhileTrue == TRUE

LoopGoesOn == running

\* A round begins with a copy of the set.
Wake ==
    /\ loop.at = "waiting" /\ LoopGoesOn
    /\ tracked # {} /\ Visit(tracked)
    /\ UNCHANGED <<bluezVars, kind, monitor, monitors, stage, starts, watcher, notifier,
                   queue, tracked, doubts, late>>

LeaveLoop ==
    /\ loop.at = "waiting" /\ ~LoopGoesOn
    /\ loop' = Ended
    /\ UNCHANGED <<bluezVars, kind, monitor, monitors, stage, starts, watcher, notifier,
                   queue, tracked, doubts, late>>

NextDevice ==
    /\ loop.at = "gap" /\ Visit(loop.rest)
    /\ UNCHANGED <<bluezVars, kind, monitor, monitors, stage, starts, watcher, notifier,
                   queue, tracked, doubts, late>>

Answered(a) ==
    /\ loop.at = "probing"
    /\ loop' = [at |-> "answered", device |-> loop.device, rest |-> loop.rest, answer |-> a]
    /\ UNCHANGED <<bluezVars, kind, monitor, monitors, stage, starts, watcher, notifier,
                   queue, tracked, doubts, late>>

\* l2ping's process answers (or does not, in time; a process that is given up is left
\* to end by itself).  The ping of a device that is gone may find it, fail to
\* connect, or have no reply in time ("failed").
PingAnswered ==
    /\ kind = "l2ping" /\ loop.at = "probing"
    /\ \/ \E a \in {"rtt", "failed"} : Answered(a)
       \/ loop.device \notin connected /\ Answered("cannot connect")

\* _poll_device connects, or not, and has no level either way.
LevelNotRead ==
    /\ kind = "battery" /\ loop.at = "probing"
    /\ loop' = [at |-> "gap", rest |-> loop.rest]
    /\ UNCHANGED <<bluezVars, kind, monitor, monitors, stage, starts, watcher, notifier,
                   queue, tracked, doubts, late>>

Publish == late' = (late \/ stage = "down")

\* Mutant: whatever fails is given up.
DiscardedOnFailure(d, answer) == IF answer # "rtt" THEN tracked \ {d} ELSE tracked

\* _ping_device: a device that cannot be connected to is not pinged again, whether
\* or not it has connected since.
Discarded(d, answer) == IF answer = "cannot connect" THEN tracked \ {d} ELSE tracked

Pinged ==
    /\ kind = "l2ping" /\ loop.at = "answered"
    /\ tracked' = Discarded(loop.device, loop.answer)
    /\ doubts' = IF loop.answer = "cannot connect" THEN doubts \cup {loop.device} ELSE doubts
    /\ loop' = [at |-> "gap", rest |-> loop.rest]
    /\ Publish
    /\ UNCHANGED <<bluezVars, kind, monitor, monitors, stage, starts, watcher, notifier, queue>>

\* _watch_battery_props: it connects, or not, and gives up for good.
NotifierEnds ==
    /\ notifier /\ notifier' = FALSE
    /\ UNCHANGED <<bluezVars, kind, monitor, monitors, stage, starts, watcher, loop, queue,
                   tracked, doubts, late>>

-----------------------------------------------------------------------------
ConnectionChanges(d) ==
    /\ \/ Connects(d) /\ HandleSignal(d, TRUE)
       \/ Disconnects(d) /\ HandleSignal(d, FALSE)
    /\ UNCHANGED <<kind, monitor, monitors, stage, starts, taskVars, tracked, late>>

LoopStep == Wake \/ LeaveLoop \/ NextDevice \/ PingAnswered \/ LevelNotRead \/ Pinged

ProbesNext ==
    \/ MonitorStarts \/ MonitorListens \/ MonitorStops
    \/ StartProbe \/ StopProbe \/ Unsubscribe
    \/ Watch \/ NotifierEnds \/ LoopStep
    \/ \E d \in Devices : ConnectionChanges(d)

\* The tasks go on, an answer or a timeout comes, and a stop goes on when its task
\* has ended.
ProbesFairness ==
    /\ WF_<<bluezVars, probeVars>>(LoopStep)
    /\ WF_<<bluezVars, probeVars>>(Unsubscribe)

-----------------------------------------------------------------------------
ProbesTypeOK ==
    /\ BlueZTypeOK
    /\ kind \in {"l2ping", "battery", "gatt"}
    /\ monitor \in {"off", "connecting", "listening", "deaf"}
    /\ stage \in {"down", "up", "stopping"}
    /\ Len(queue) <= QueueSize
    /\ tracked \subseteq Devices /\ doubts \subseteq Devices
    /\ loop.at \in {"ended", "waiting", "gap", "probing", "answered"}

\* When the queue is empty a probe takes exactly those devices for connected that
\* are, of those whose last change reached it (published by a D-Bus collector that
\* listened, into a queue that had room and was read) and that no ping has struck
\* from the list since (l2ping's _connected_devices.discard).
TracksConnections ==
    /\ ProbesTypeOK
    /\ (stage = "up" /\ queue = <<>>) =>
        \A d \in Devices \ doubts : d \in tracked <=> d \in connected

\* What a stopped probe had asked is not answered on the bus any more: stop waits
\* for the task that may be about to publish an answer.
ProbesQuietAfterStop == ~late

\* A stop ends, even if the cancellation it sent was lost to an answer.
ProbeStopEnds == (stage = "stopping") ~> (stage = "down")
=============================================================================
