----------------------------- MODULE SnapshotWatchers -----------------------------
(***************************************************************************)
(* The collectors that read files of the kernel again and again and        *)
(* publish how they differ from what they read before: adapters, rfkill    *)
(* switches and USB power (blutruth/collectors/sysfs.py), the controllers' *)
(* attributes (mgmt_api.py) and the modules (kernel_driver.py).            *)
(*                                                                         *)
(* The kernel changes between two polls, several times perhaps, and also   *)
(* between a poll's listing of a directory and its reading of the files    *)
(* (no task runs in between, but the kernel does).  What was read outlives *)
(* a stop.  Each of the five compares in its own way.                      *)
(***************************************************************************)
EXTENDS Naturals, FiniteSets

CONSTANTS Things,       \* adapters, rfkill nodes or modules
          Kinds,        \* the watchers to choose from
          Absent,       \* there is no such thing
          Unread,       \* a file that could not be read
          MaxLaunches, MaxShifts    \* bounds

AllKinds == {"adapters", "rfkill", "usb", "mgmt", "modules"}
States == {"0", "1"}    \* a switch that is "1" is blocked

ASSUME WatchersAssumption ==
    /\ Kinds \subseteq AllKinds
    /\ {Absent, Unread} \cap States = {} /\ Absent # Unread
    /\ {MaxLaunches, MaxShifts} \subseteq Nat

VARIABLES which,        \* which watcher it is
          world,        \* what the kernel shows
          class,        \* /sys/class/bluetooth exists
          poller, launches,   \* where the polling task is
          names,        \* what the poll found in the directory
          prev,         \* what was read before
          view,         \* history: what the events say, told one after the other
          odd,          \* history: an event began what had begun, or ended what had not
          unsure,       \* history: things whose state a poll could not read or tell
          shifts
worldVars == <<world, class, shifts>>
watchVars == <<which, worldVars, poller, launches, names, prev, view, odd, unsure>>

Listed(s) == {t \in Things : s[t] # Absent}
InClass == which \in {"adapters", "usb", "mgmt"}

WatchInit ==
    /\ which \in Kinds
    /\ world \in [Things -> States \cup {Absent}]
    /\ class \in BOOLEAN /\ (~class => InClass /\ Listed(world) = {})
    /\ poller = "stopped" /\ launches = 0 /\ names = {}
    /\ prev = [t \in Things |-> Absent]
    /\ view = [t \in Things |-> IF which = "rfkill" THEN "0" ELSE Absent]
    /\ odd = FALSE /\ unsure = {}
    /\ shifts = 0

-----------------------------------------------------------------------------
\* The kernel.
Shift == shifts < MaxShifts /\ shifts' = shifts + 1

Becomes(t, s) ==
    /\ Shift /\ class
    /\ s # world[t] /\ world' = [world EXCEPT ![t] = s]
    /\ UNCHANGED <<which, class, poller, launches, names, prev, view, odd, unsure>>

\* The Bluetooth modules go with all adapters, or come back.
ClassChanges ==
    /\ Shift /\ InClass
    /\ class' = ~class
    /\ world' = [t \in Things |-> Absent]
    /\ UNCHANGED <<which, poller, launches, names, prev, view, odd, unsure>>

-----------------------------------------------------------------------------
\* The five comparisons: what is published, and what is kept for the next.

Told(t, what, state) == [thing |-> t, what |-> what, state |-> state]
Added(read) == {Told(t, "added", read[t]) : t \in Listed(read) \ Listed(prev)}
Removed(read) == {Told(t, "removed", Absent) : t \in Listed(prev) \ Listed(read)}
Changed(read) == {Told(t, "changed", read[t]) :
                    t \in {k \in Listed(read) \cap Listed(prev) : read[k] # prev[k]}}

PollAdapters(read) ==
    [told |-> Added(read) \cup Removed(read) \cup Changed(read),
     kept |-> read, doubtful |-> {}]

\* A switch that cannot be read passes for not blocked.
Switch(state) == IF state = "1" THEN "1" ELSE "0"

\* A switch is published when it is first seen if it is blocked, and not at all when
\* it goes: blocked then, it would stay so for a reader.
PollRfkill(read) ==
    [told |-> {Told(e.thing, e.what, Switch(e.state)) :
                 e \in {k \in Added(read) : k.state = "1"} \cup Changed(read)},
     kept |-> read,
     doubtful |-> {t \in Listed(prev) \ Listed(read) : view[t] = "1"}]

\* Mutant: what was read first is kept.
PollUsbFirst(read) ==
    [told |-> Added(read) \cup {e \in Changed(read) : e.state # Unread},
     kept |-> [t \in Things |-> IF prev[t] = Absent THEN read[t] ELSE prev[t]],
     doubtful |-> {}]

\* An adapter that is gone is never forgotten, and a status that cannot be read is
\* not told but kept.
PollUsb(read) ==
    [told |-> Added(read) \cup {e \in Changed(read) : e.state # Unread},
     kept |-> [t \in Things |-> IF read[t] = Absent THEN prev[t] ELSE read[t]],
     doubtful |-> {}]

\* Mutant: the first poll after a start tells nothing that was read before it.
PollMgmtQuietly(read) ==
    [told |-> (IF poller = "first" THEN Added(read)
               ELSE {Told(t, "added", read[t]) :
                       t \in {k \in Listed(read) : prev[k] \in {Absent, Unread}
                                                   /\ read[k] # Unread}}
                    \cup {e \in Changed(read) : prev[e.thing] # Unread /\ e.state # Unread})
              \cup Removed(read),
     kept |-> read, doubtful |-> {}]

\* The first poll after a start tells everything.  Then an adapter of which nothing
\* could be read is not told, and is new when something can.
PollMgmt(read) ==
    [told |-> (IF poller = "first"
               THEN {Told(t, "dumped", read[t]) : t \in Listed(read)}
               ELSE {Told(t, "added", read[t]) :
                       t \in {k \in Listed(read) : prev[k] \in {Absent, Unread}
                                                   /\ read[k] # Unread}}
                    \cup {e \in Changed(read) : prev[e.thing] # Unread /\ e.state # Unread})
              \cup Removed(read),
     kept |-> read, doubtful |-> {}]

\* The first poll tells everything, in one event.  Then a reference count is told if
\* it can be read now and could before; what came in between is lost.
PollModules(read) ==
    [told |-> IF poller = "first" THEN {Told(t, "dumped", read[t]) : t \in Things}
              ELSE Added(read) \cup Removed(read)
                   \cup {e \in Changed(read) : prev[e.thing] # Unread /\ e.state # Unread},
     kept |-> read,
     doubtful |-> {t \in Things : read[t] = Unread}]

Poll(read) ==
    CASE which = "adapters" -> PollAdapters(read)
      [] which = "rfkill"   -> PollRfkill(read)
      [] which = "usb"      -> PollUsb(read)
      [] which = "mgmt"     -> PollMgmt(read)
      [] which = "modules"  -> PollModules(read)

\* What the events make a reader believe.
PublishAll(told) ==
    /\ view' = [t \in Things |-> IF \E e \in told : e.thing = t
                                 THEN (CHOOSE e \in told : e.thing = t).state ELSE view[t]]
    /\ odd' = (odd \/ \E e \in told : \/ e.what = "added" /\ view[e.thing] # Absent
                                      \/ e.what = "removed" /\ view[e.thing] = Absent)

-----------------------------------------------------------------------------
\* The polling task.

\* sysfs does not start without /sys/class/bluetooth.
StartPolling ==
    /\ poller = "stopped" /\ launches < MaxLaunches
    /\ which \in {"adapters", "rfkill", "usb"} => class
    /\ poller' = "first" /\ launches' = launches + 1
    /\ UNCHANGED <<which, worldVars, names, prev, view, odd, unsure>>

\* The task is cancelled while it sleeps, or before its first poll.
StopPolling ==
    /\ poller \in {"first", "sleeping"} /\ names = {}
    /\ poller' = "stopped"
    /\ UNCHANGED <<which, worldVars, launches, names, prev, view, odd, unsure>>

\* Without its directory sysfs does not compare, and mgmt finds it empty.
Comparable == which \in {"adapters", "usb"} => class

\* The directory is listed ...
List ==
    /\ poller \in {"first", "sleeping"}
    /\ names = {} /\ names' = {Listed(world)}
    /\ Comparable
    /\ UNCHANGED <<which, worldVars, poller, launches, prev, view, odd, unsure>>

\* ... and then the files are read.
ReadFiles(t) == IF world[t] = Absent THEN Unread ELSE world[t]

Read ==
    /\ names # {}
    /\ \E listed \in names :
          LET read == [t \in Things |-> IF t \in listed THEN ReadFiles(t) ELSE Absent]
              poll == Poll(read)
          IN  /\ PublishAll(poll.told)
              /\ prev' = poll.kept
              /\ unsure' = (unsure \ {e.thing : e \in poll.told}) \cup poll.doubtful
    /\ names' = {} /\ poller' = "sleeping"
    /\ UNCHANGED <<which, worldVars, launches>>

WatchNext ==
    \/ \E t \in Things, s \in States \cup {Absent} : Becomes(t, s)
    \/ ClassChanges
    \/ StartPolling \/ StopPolling \/ List \/ Read

WatchSpec == WatchInit /\ [][WatchNext]_watchVars
\* The event loop runs the polling task again after every interval.
WatchFairness == WF_watchVars(List) /\ WF_watchVars(Read)

-----------------------------------------------------------------------------
WatchTypeOK ==
    /\ which \in Kinds
    /\ poller \in {"stopped", "first", "sleeping"}
    /\ prev \in [Things -> States \cup {Absent, Unread}]
    /\ view \in [Things -> IF which = "rfkill" THEN States
                           ELSE States \cup {Absent, Unread}]
    /\ unsure \subseteq Things
    /\ ~class => Listed(world) = {}

\* After a poll, whoever has followed the events since the program began knows what
\* the poll has read: also after a stop and a start, and when things have come, gone
\* and been replaced between two polls.  An adapter or a module that is reported to
\* have come is not one that was there, and one that is reported to have gone was.
EventsTellWhatWasRead ==
    /\ WatchTypeOK
    /\ which \in {"adapters", "modules"} => ~odd
    /\ poller = "sleeping" =>
        \A t \in Things \ unsure :
            \/ view[t] = prev[t]
            \/ which \in {"rfkill", "usb"} /\ prev[t] \in {Absent, Unread}
            \/ which = "mgmt" /\ prev[t] = Unread

\* What stays as it is while a watcher runs is what the events say in the end,
\* whatever a poll had half read.  Except what is in doubt: a module whose count was
\* unreadable for a moment, a switch that went away blocked.  rfkill and USB tell
\* nothing of what is gone.
ViewCatchesUp ==
    \A t \in Things :
        <>[](poller # "stopped" /\ class)
            => <>[](\/ t \in unsure
                    \/ view[t] = world[t]
                    \/ which \in {"rfkill", "usb"} /\ world[t] = Absent)
=============================================================================
