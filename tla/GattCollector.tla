------------------------------ MODULE GattCollector ------------------------------
(***************************************************************************)
(* The GATT collector (blutruth/collectors/gatt.py): when the services of  *)
(* a device are resolved it asks BlueZ for the objects below it, publishes *)
(* them and reads some of the values.                                      *)
(*                                                                         *)
(* It hears of devices in two ways, a signal and a scan at its start.      *)
(* Scans and discoveries are tasks that nobody keeps: stop cancels the     *)
(* collector's own task, closes the connection and forgets which devices   *)
(* were discovered, and a scan or a discovery whose answer was already     *)
(* there goes on after that.                                               *)
(***************************************************************************)
EXTENDS BlueZ, FiniteSets

CONSTANT MaxRuns    \* how often the collector is started

ASSUME GattAssumption == MaxRuns \in Nat

VARIABLES run,          \* how often it was started
          gattStage,    \* its start and stop
          dbus,         \* _dbus_bus is set
          listening,    \* its handler is added and the rule matches
          scans,        \* _scan_existing_devices in flight
          discovered,   \* _discovered
          jobs,         \* _discover_device in flight
          deaf,         \* history: the rule, or the scan, of this run failed
          tried,        \* history: devices whose objects were asked for in this run
          stale,        \* history: devices that were marked without a connection
          published     \* history: runs and devices with a GATT_DISCOVERY, counted
gattVars == <<run, gattStage, dbus, listening, scans, discovered, jobs, deaf, tried, stale,
              published>>

Runs == 1 .. MaxRuns

GattInit ==
    /\ run = 0 /\ gattStage = "down"
    /\ dbus = FALSE /\ listening = FALSE
    /\ scans = {} /\ discovered = {} /\ jobs = {}
    /\ deaf = FALSE /\ tried = {} /\ stale = {}
    /\ published = [r \in Runs |-> [d \in Devices |-> 0]]

-----------------------------------------------------------------------------
\* _discover_device up to its first await, for several devices.

\* Mutant: a device is not marked.
DiscoverUnmarked(ds) ==
    LET new == ds \ discovered
    IN  /\ UNCHANGED discovered
        /\ IF dbus THEN /\ jobs' = jobs \cup [device : new, run : {run}, at : {"asked"}]
                        /\ tried' = tried \cup new
                        /\ UNCHANGED stale
           ELSE stale' = stale \cup new /\ UNCHANGED <<jobs, tried>>

\* A device is marked first; without a connection the call fails at once
\* (GATT_ERROR), and the mark stays.
Discover(ds) ==
    LET new == ds \ discovered
    IN  /\ discovered' = discovered \cup ds
        /\ IF dbus THEN /\ jobs' = jobs \cup [device : new, run : {run}, at : {"asked"}]
                        /\ tried' = tried \cup new
                        /\ UNCHANGED stale
           ELSE stale' = stale \cup new /\ UNCHANGED <<jobs, tried>>

-----------------------------------------------------------------------------
\* start and stop.

GattStart ==
    /\ gattStage = "down" /\ run < MaxRuns
    /\ gattStage' = "connecting" /\ run' = run + 1
    /\ deaf' = FALSE /\ tried' = {}
    /\ UNCHANGED <<bluezVars, dbus, listening, scans, discovered, jobs, stale, published>>

Connected ==
    /\ gattStage = "connecting"
    /\ \/ gattStage' = "matching" /\ dbus' = TRUE
       \/ gattStage' = "failed" /\ UNCHANGED dbus
    /\ UNCHANGED <<bluezVars, run, listening, scans, discovered, jobs, deaf, tried, stale,
                   published>>

\* BlueZ and the bus have answered AddMatch: the scan's task is created and the
\* handler added without an await between them.
Matched ==
    /\ gattStage = "matching" /\ gattStage' = "up"
    /\ listening' \in BOOLEAN
    /\ deaf' = ~listening'
    /\ scans' = scans \cup {[run |-> run, at |-> "asked", found |-> {}]}
    /\ UNCHANGED <<bluezVars, run, dbus, discovered, jobs, tried, stale, published>>

\* stop sets the flag and cancels the task; the handler still hears.
GattStop ==
    /\ gattStage \in {"connecting", "matching", "up", "failed"}
    /\ gattStage' = "stopping"
    /\ UNCHANGED <<bluezVars, run, dbus, listening, scans, discovered, jobs, deaf, tried,
                   stale, published>>

\* A call in flight whose reply has not come fails with the connection, or has none.
Survivors(calls) == {c \in calls : c.at # "asked"}

\* Mutant: what was discovered is remembered.
DisconnectOnly ==
    /\ gattStage = "stopping" /\ gattStage' = "down"
    /\ dbus' = FALSE /\ listening' = FALSE
    /\ scans' = Survivors(scans) /\ jobs' = Survivors(jobs)
    /\ stale' = {}
    /\ UNCHANGED <<bluezVars, run, discovered, deaf, tried, published>>

Disconnected ==
    /\ gattStage = "stopping" /\ gattStage' = "down"
    /\ dbus' = FALSE /\ listening' = FALSE
    /\ scans' = Survivors(scans) /\ jobs' = Survivors(jobs)
    /\ discovered' = {} /\ stale' = {}
    /\ UNCHANGED <<bluezVars, run, deaf, tried, published>>

-----------------------------------------------------------------------------
\* _scan_existing_devices.

\* BlueZ answers with the devices as they are now, or with an error.
ScanAnswered(s) ==
    /\ s.at = "asked"
    /\ \/ /\ scans' = (scans \ {s}) \cup {[s EXCEPT !.at = "answered", !.found = connected]}
          /\ UNCHANGED deaf
       \/ /\ scans' = scans \ {s}
          /\ deaf' = (deaf \/ s.run = run)
    /\ UNCHANGED <<bluezVars, run, gattStage, dbus, listening, discovered, jobs, tried,
                   stale, published>>

Scanned(s) ==
    /\ s.at = "answered"
    /\ scans' = scans \ {s}
    /\ Discover(s.found)
    /\ UNCHANGED <<bluezVars, run, gattStage, dbus, listening, deaf, published>>

-----------------------------------------------------------------------------
\* _discover_device from its first await on.

\* The objects, or an error (GATT_ERROR).
ObjectsAnswered(j) ==
    /\ j.at = "asked"
    /\ \/ jobs' = (jobs \ {j}) \cup {[j EXCEPT !.at = "answered"]}
       \/ jobs' = jobs \ {j}
    /\ UNCHANGED <<bluezVars, run, gattStage, dbus, listening, scans, discovered, deaf, tried,
                   stale, published>>

\* The tree is published (GATT_DISCOVERY and one GATT_SERVICE each); then come the
\* values, if there are any to read.
Discovered(j) ==
    /\ j.at = "answered"
    /\ published' = [published EXCEPT ![j.run][j.device] = @ + 1]
    /\ \/ jobs' = (jobs \ {j}) \cup {[j EXCEPT !.at = "reading"]}
       \/ jobs' = jobs \ {j}
    /\ UNCHANGED <<bluezVars, run, gattStage, dbus, listening, scans, discovered, deaf, tried,
                   stale>>

\* _read_safe_characteristics: GATT_READ or nothing, then the next or the end.
ValueRead(j) ==
    /\ j.at = "reading"
    /\ jobs' = jobs \ {j}
    /\ UNCHANGED <<bluezVars, run, gattStage, dbus, listening, scans, discovered, deaf, tried,
                   stale, published>>

-----------------------------------------------------------------------------
\* Services are resolved: the handler starts a discovery.
ServicesResolved(d) ==
    /\ Connects(d)
    /\ IF listening THEN Discover({d}) ELSE UNCHANGED <<discovered, jobs, tried, stale>>
    /\ UNCHANGED <<run, gattStage, dbus, listening, scans, deaf, published>>

\* A device that goes keeps its mark.
DeviceGone(d) == Disconnects(d) /\ UNCHANGED gattVars

GattNext ==
    \/ GattStart \/ Connected \/ Matched \/ GattStop \/ Disconnected
    \/ \E s \in scans : ScanAnswered(s) \/ Scanned(s)
    \/ \E j \in jobs : ObjectsAnswered(j) \/ Discovered(j) \/ ValueRead(j)
    \/ \E d \in Devices : ServicesResolved(d) \/ DeviceGone(d)

-----------------------------------------------------------------------------
GattTypeOK ==
    /\ run \in 0 .. MaxRuns
    /\ gattStage \in {"down", "connecting", "matching", "up", "failed", "stopping"}
    /\ gattStage \in {"matching", "up"} => dbus
    /\ dbus => gattStage \in {"matching", "up", "stopping"}
    /\ discovered \subseteq Devices
    /\ \A j \in jobs : j.device \in Devices /\ j.run \in Runs

\* A device is discovered once in a run, however often it comes and goes and by
\* whichever of the scan and the signals it is heard of, also by those of an earlier
\* run that go on.
DiscoveredOnce ==
    /\ GattTypeOK
    /\ \A r \in Runs, d \in Devices : published[r][d] <= 1

\* When the scan of a run is through, every device with resolved services was asked
\* about in this run: none falls between the scan and the signals, and none is taken
\* for known from a run before.  Except when the rule or the scan failed, or a
\* straggler of the run before marked the device after it had been forgotten.
NoneMissed ==
    (gattStage = "up" /\ ~deaf /\ \A s \in scans : s.run # run)
        => connected \subseteq tried \cup stale
=============================================================================
