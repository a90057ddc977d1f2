----------------------------- MODULE Collectors_proofs -----------------------------
(***************************************************************************)
(* Proofs about the collectors that have a specification of their own:     *)
(* DeviceProbes, which asks BlueZ about connected devices, HciCollector,   *)
(* which reads btmon's blocks, and SnapshotWatchers, which reads files of  *)
(* the kernel.  They share no state.                                       *)
(***************************************************************************)
EXTENDS DeviceProbes, HciCollector, SnapshotWatchers, FiniteSetTheorems, TLAPS

-----------------------------------------------------------------------------
\* The GATT collector.

Scan == [run : Nat, at : {"asked", "answered"}, found : SUBSET Devices]
Job == [device : Devices, run : Runs, at : {"asked", "answered", "reading"}]

GattTypes ==
    /\ connected \subseteq Devices
    /\ run \in 0 .. MaxRuns
    /\ gattStage \in {"down", "connecting", "matching", "up", "failed", "stopping"}
    /\ gattStage # "down" => run \in Runs
    /\ kind # "gatt" => gattStage = "down"
    /\ gattStage \in {"matching", "up"} => dbus
    /\ dbus => gattStage \in {"matching", "up", "stopping"}
    /\ discovered \subseteq Devices
    /\ scans \subseteq Scan
    /\ jobs \subseteq Job
    /\ published \in [Runs -> [Devices -> Nat]]

\* A run that has not begun, or a device of this run that is not marked, has no
\* discovery in flight and none published.
Fresh(r, d) ==
    \/ r > run
    \/ r = run /\ gattStage = "connecting"
    \/ r = run /\ dbus /\ d \notin discovered

\* A device has one discovery in a run at the most, and until that has its answer
\* nothing is published.
OnceInv ==
    /\ \A j, k \in jobs : j.run = k.run /\ j.device = k.device => j = k
    /\ \A j \in jobs : j.at # "reading" => published[j.run][j.device] = 0
    /\ \A r \in Runs, d \in Devices : published[r][d] <= 1
    /\ \A r \in Runs, d \in Devices :
          Fresh(r, d) => /\ published[r][d] = 0
                         /\ \A j \in jobs : ~(j.run = r /\ j.device = d)

\* Marked devices are accounted for, and a connected device is marked, or the scan
\* will find it.
MissInv ==
    /\ discovered \subseteq tried \cup stale
    /\ gattStage = "down" => discovered \subseteq stale
    /\ gattStage = "up" => listening \/ deaf
    /\ gattStage = "up" /\ ~deaf =>
          \/ connected \subseteq discovered
          \/ \E s \in scans : /\ s.run = run
                              /\ \/ s.at = "asked"
                                 \/ connected \subseteq discovered \cup s.found

\* What the probes leave alone, and what they do to the devices.
LEMMA ProbesLeaveGatt ==
    ASSUME ProbesNext
    PROVE  \/ UNCHANGED connected
           \/ \E d \in Devices : connected' \in {connected \cup {d}, connected \ {d}}
<1>1. CASE \E d \in Devices : ConnectionChanges(d)
  BY <1>1 DEF ConnectionChanges, Connects, Disconnects
<1>3. CASE LoopStep
  BY <1>3 DEF LoopStep, Wake, LeaveLoop, NextDevice, PingAnswered, LevelNotRead, Pinged,
              Answered, bluezVars
<1>4. CASE MonitorStarts \/ MonitorListens \/ MonitorStops \/ StartProbe \/ StopProbe
           \/ Unsubscribe \/ Watch \/ NotifierEnds
  BY <1>4 DEF MonitorStarts, MonitorListens, MonitorStops, StartProbe, StopProbe,
              Unsubscribe, Watch, NotifierEnds, bluezVars
<1>5. QED  BY <1>1, <1>3, <1>4 DEF ProbesNext

\* A discovery begins: the marks, the tasks and the history stay well formed.
LEMMA DiscoverTypes ==
    ASSUME GattTypes, NEW ds \in SUBSET Devices, Discover(ds)
    PROVE  discovered' \subseteq Devices /\ jobs' \subseteq Job
<1>1. discovered' = discovered \cup ds  BY DEF Discover
<1>2. CASE dbus
  <2>1. run \in Runs  BY <1>2 DEF GattTypes
  <2>2. jobs' = jobs \cup [device : ds \ discovered, run : {run}, at : {"asked"}]
    BY <1>2 DEF Discover
  <2>3. [device : ds \ discovered, run : {run}, at : {"asked"}] \subseteq Job
    BY <2>1 DEF Job
  <2>4. QED  BY <1>1, <2>2, <2>3 DEF GattTypes
<1>3. CASE ~dbus
  BY <1>1, <1>3 DEF Discover, GattTypes
<1>4. QED  BY <1>2, <1>3

\* A step of the GATT collector keeps the types.
LEMMA GattTypesStep ==
    ASSUME GattTypes, kind = "gatt", GattNext, UNCHANGED probeVars
    PROVE  GattTypes'
<1> USE GattAssumption
<1>k. kind' = "gatt"
  BY DEF probeVars
<1>1. CASE GattStart
  BY <1>1, <1>k DEF GattStart, GattTypes, bluezVars, Runs, Job
<1>2. CASE Connected
  BY <1>2, <1>k DEF Connected, GattTypes, bluezVars, Runs, Job
<1>3. CASE Matched
  <2>1. scans' \subseteq Scan
    BY <1>3 DEF Matched, GattTypes, Scan
  <2>2. QED  BY <1>3, <1>k, <2>1 DEF Matched, GattTypes, bluezVars, Runs, Job
<1>4. CASE GattStop
  BY <1>4, <1>k DEF GattStop, GattTypes, bluezVars, Runs, Job
<1>5. CASE Disconnected
  BY <1>5, <1>k DEF Disconnected, Survivors, GattTypes, bluezVars, Runs, Job
<1>6. ASSUME NEW s \in scans, ScanAnswered(s)  PROVE GattTypes'
  <2>1. s \in Scan /\ connected \subseteq Devices
    BY DEF GattTypes
  <2>2. [s EXCEPT !.at = "answered", !.found = connected] \in Scan
    BY <2>1 DEF Scan
  <2>3. scans' \subseteq Scan
    BY <1>6, <2>2 DEF ScanAnswered, GattTypes
  <2>4. QED  BY <1>6, <1>k, <2>3 DEF ScanAnswered, GattTypes, bluezVars, Runs, Job
<1>7. ASSUME NEW s \in scans, Scanned(s)  PROVE GattTypes'
  <2>1. s.found \in SUBSET Devices
    BY DEF GattTypes, Scan
  <2>2. discovered' \subseteq Devices /\ jobs' \subseteq Job
    BY <1>7, <2>1, DiscoverTypes DEF Scanned
  <2>3. QED  BY <1>7, <1>k, <2>2 DEF Scanned, GattTypes, bluezVars, Runs, Job
<1>8. ASSUME NEW j \in jobs, ObjectsAnswered(j) \/ ValueRead(j)  PROVE GattTypes'
  <2>0. j \in Job
    BY DEF GattTypes
  <2>a. [j EXCEPT !.at = "answered"] \in Job
    BY <2>0 DEF Job
  <2>1. jobs' \subseteq Job
    BY <1>8, <2>a DEF ObjectsAnswered, ValueRead, GattTypes
  <2>2. QED
    BY <1>8, <1>k, <2>1 DEF ObjectsAnswered, ValueRead, GattTypes, bluezVars, Runs, Job
<1>9. ASSUME NEW j \in jobs, Discovered(j)  PROVE GattTypes'
  <2>1. j \in Job
    BY DEF GattTypes
  <2>a. [j EXCEPT !.at = "reading"] \in Job
    BY <2>1 DEF Job
  <2>2. jobs' \subseteq Job
    BY <1>9, <2>a DEF Discovered, GattTypes
  <2>3. published' \in [Runs -> [Devices -> Nat]]
    BY <1>9, <2>1 DEF Discovered, GattTypes, Job
  <2>4. QED  BY <1>9, <1>k, <2>2, <2>3 DEF Discovered, GattTypes, bluezVars, Runs, Job
<1>10. ASSUME NEW d \in Devices, ServicesResolved(d)  PROVE GattTypes'
  <2>1. discovered' \subseteq Devices /\ jobs' \subseteq Job
    <3>1. CASE listening
      BY <1>10, <3>1, DiscoverTypes DEF ServicesResolved
    <3>2. CASE ~listening
      BY <1>10, <3>2 DEF ServicesResolved, GattTypes
    <3>3. QED  BY <3>1, <3>2
  <2>2. QED
    BY <1>10, <1>k, <2>1 DEF ServicesResolved, Connects, GattTypes, bluezVars, Runs, Job
<1>11. ASSUME NEW d \in Devices, DeviceGone(d)  PROVE GattTypes'
  BY <1>11, <1>k DEF DeviceGone, Disconnects, gattVars, GattTypes, Runs, Job
<1>12. QED
  BY <1>1, <1>2, <1>3, <1>4, <1>5, <1>6, <1>7, <1>8, <1>9, <1>10, <1>11 DEF GattNext

\* A discovery that begins is the first of its run and device.
LEMMA DiscoverOnce ==
    ASSUME GattTypes, OnceInv, NEW ds \in SUBSET Devices, Discover(ds),
           UNCHANGED <<run, gattStage, dbus, published>>
    PROVE  OnceInv'
<1>0. discovered' = discovered \cup ds  BY DEF Discover
<1>1. CASE ~dbus
  <2>1. UNCHANGED jobs  BY <1>1 DEF Discover
  <2>2. QED  BY <1>0, <1>1, <2>1 DEF OnceInv, Fresh
<1>2. CASE dbus
  <2> DEFINE new == [device : ds \ discovered, run : {run}, at : {"asked"}]
  <2>1. run \in Runs /\ run \in Nat /\ jobs \subseteq Job /\ gattStage # "connecting"
    BY <1>2, GattAssumption DEF GattTypes, Runs
  <2>2. jobs' = jobs \cup new
    BY <1>2 DEF Discover
  <2>3. \A d \in ds \ discovered : Fresh(run, d)
    BY <1>2 DEF Fresh
  <2>4. \A n \in new : /\ n \in Job /\ n.run = run /\ n.at = "asked"
                       /\ n.device \in ds \ discovered
    BY <2>1 DEF Job
  <2>5. \A n \in new, j \in jobs : ~(j.run = n.run /\ j.device = n.device)
    BY <2>1, <2>3, <2>4 DEF OnceInv
  <2>6. \A m, n \in new : m.device = n.device => m = n
    OBVIOUS
  <2>7. \A j, k \in jobs' : j.run = k.run /\ j.device = k.device => j = k
    BY <2>2, <2>5, <2>6 DEF OnceInv
  <2>8. \A j \in jobs' : j.at # "reading" => published[j.run][j.device] = 0
    BY <2>1, <2>2, <2>3, <2>4 DEF OnceInv
  <2>9. ASSUME NEW r \in Runs, NEW d \in Devices, Fresh(r, d)'
        PROVE  /\ published[r][d] = 0
               /\ \A j \in jobs' : ~(j.run = r /\ j.device = d)
    <3>1. Fresh(r, d) /\ (r = run => d \notin discovered \cup ds)
      BY <1>0, <2>1, <2>9, GattAssumption DEF Fresh, Runs
    <3>2. QED  BY <2>2, <2>4, <3>1 DEF OnceInv
  <2>10. QED  BY <2>7, <2>8, <2>9 DEF OnceInv
<1>3. QED  BY <1>1, <1>2

\* A step of the GATT collector discovers no device twice in a run.
LEMMA OnceStep ==
    ASSUME GattTypes, OnceInv, GattNext
    PROVE  OnceInv'
<1> USE GattAssumption
<1>0. run \in Nat /\ jobs \subseteq Job  BY DEF GattTypes
<1>1. CASE GattStart
  BY <1>0, <1>1 DEF GattStart, OnceInv, Fresh, GattTypes, Runs
<1>2. CASE Connected
  BY <1>2 DEF Connected, OnceInv, Fresh
<1>3. CASE Matched \/ GattStop
  BY <1>3 DEF Matched, GattStop, OnceInv, Fresh, GattTypes
<1>4. CASE Disconnected
  <2>1. jobs' \subseteq jobs  BY <1>4 DEF Disconnected, Survivors
  <2>2. QED  BY <1>4, <2>1 DEF Disconnected, OnceInv, Fresh
<1>5. ASSUME NEW s \in scans, ScanAnswered(s)  PROVE OnceInv'
  BY <1>5 DEF ScanAnswered, OnceInv, Fresh
<1>6. ASSUME NEW s \in scans, Scanned(s)  PROVE OnceInv'
  <2>1. s.found \in SUBSET Devices  BY DEF GattTypes, Scan
  <2>2. QED  BY <1>6, <2>1, DiscoverOnce DEF Scanned
<1>7. ASSUME NEW j \in jobs, ObjectsAnswered(j) \/ ValueRead(j)  PROVE OnceInv'
  <2>1. j \in Job  BY <1>0
  <2> DEFINE k == [j EXCEPT !.at = "answered"]
  <2>2. k.run = j.run /\ k.device = j.device /\ k.at = "answered"
    BY <2>1 DEF Job
  <2> HIDE DEF k
  <2>3. UNCHANGED <<run, gattStage, dbus, discovered, published>>
    BY <1>7 DEF ObjectsAnswered, ValueRead
  <2>4. CASE jobs' = jobs \ {j}
    BY <2>3, <2>4 DEF OnceInv, Fresh
  <2>5. CASE j.at = "asked" /\ jobs' = (jobs \ {j}) \cup {k}
    <3>1. \A m, n \in jobs' : m.run = n.run /\ m.device = n.device => m = n
      BY <2>2, <2>5 DEF OnceInv
    <3>2. \A m \in jobs' : m.at # "reading" => published'[m.run][m.device] = 0
      BY <2>2, <2>3, <2>5 DEF OnceInv
    <3>3. \A r \in Runs, d \in Devices : Fresh(r, d)' => Fresh(r, d)
      BY <2>3 DEF Fresh
    <3>4. \A r \in Runs, d \in Devices : Fresh(r, d)' =>
              /\ published'[r][d] = 0
              /\ \A m \in jobs' : ~(m.run = r /\ m.device = d)
      BY <2>2, <2>3, <2>5, <3>3 DEF OnceInv
    <3>5. QED  BY <2>3, <3>1, <3>2, <3>4 DEF OnceInv
  <2>6. QED  BY <1>7, <2>4, <2>5 DEF ObjectsAnswered, ValueRead, k
<1>8. ASSUME NEW j \in jobs, Discovered(j)  PROVE OnceInv'
  <2>1. j \in Job  BY <1>0
  <2> DEFINE k == [j EXCEPT !.at = "reading"]
  <2>2. k.run = j.run /\ k.device = j.device /\ k.at = "reading"
    BY <2>1 DEF Job
  <2> HIDE DEF k
  <2>3. /\ j.run \in Runs /\ j.device \in Devices
        /\ published[j.run][j.device] = 0
    BY <1>8, <2>1 DEF Discovered, OnceInv, Job
  <2>4. /\ UNCHANGED <<run, gattStage, dbus, discovered>>
        /\ jobs' \in {jobs \ {j}, (jobs \ {j}) \cup {k}}
    BY <1>8 DEF Discovered, k
  <2>5. \A r \in Runs, d \in Devices :
            published'[r][d] = IF r = j.run /\ d = j.device THEN 1 ELSE published[r][d]
    BY <1>8, <2>3 DEF Discovered, GattTypes
  <2>6. \A m, n \in jobs' : m.run = n.run /\ m.device = n.device => m = n
    BY <2>2, <2>4 DEF OnceInv
  <2>7. \A m \in jobs' : m.at # "reading" =>
            /\ m \in jobs /\ ~(m.run = j.run /\ m.device = j.device)
    BY <2>2, <2>4 DEF OnceInv
  <2>8. \A m \in jobs' : m.at # "reading" => published'[m.run][m.device] = 0
    BY <1>0, <2>5, <2>7 DEF OnceInv, Job
  <2>9. \A r \in Runs, d \in Devices : published'[r][d] <= 1
    BY <2>5 DEF OnceInv
  <2>10. \A r \in Runs, d \in Devices : Fresh(r, d)' =>
             /\ Fresh(r, d) /\ ~(r = j.run /\ d = j.device)
    BY <2>4 DEF OnceInv, Fresh
  <2>11. \A r \in Runs, d \in Devices : Fresh(r, d)' =>
             /\ published'[r][d] = 0
             /\ \A m \in jobs' : ~(m.run = r /\ m.device = d)
    BY <2>2, <2>4, <2>5, <2>10 DEF OnceInv
  <2>12. QED  BY <2>6, <2>8, <2>9, <2>11 DEF OnceInv
<1>9. ASSUME NEW d \in Devices, ServicesResolved(d)  PROVE OnceInv'
  <2>1. CASE listening
    BY <1>9, <2>1, DiscoverOnce DEF ServicesResolved
  <2>2. CASE ~listening
    BY <1>9, <2>2 DEF ServicesResolved, OnceInv, Fresh
  <2>3. QED  BY <2>1, <2>2
<1>10. ASSUME NEW d \in Devices, DeviceGone(d)  PROVE OnceInv'
  BY <1>10 DEF DeviceGone, gattVars, OnceInv, Fresh
<1>11. QED
  BY <1>1, <1>2, <1>3, <1>4, <1>5, <1>6, <1>7, <1>8, <1>9, <1>10 DEF GattNext

\* What a discovery marks is accounted for.
LEMMA DiscoverAccounted ==
    ASSUME GattTypes, MissInv, NEW ds \in SUBSET Devices, Discover(ds)
    PROVE  /\ discovered' = discovered \cup ds
           /\ discovered' \subseteq tried' \cup stale'
           /\ gattStage = "down" => discovered' \subseteq stale'
<1>1. CASE dbus
  BY <1>1 DEF Discover, MissInv, GattTypes
<1>2. CASE ~dbus
  BY <1>2 DEF Discover, MissInv
<1>3. QED  BY <1>1, <1>2

\* A step of the GATT collector misses no device.
LEMMA MissStep ==
    ASSUME GattTypes, MissInv, GattNext
    PROVE  MissInv'
<1>1. CASE GattStart
  BY <1>1 DEF GattStart, MissInv
<1>2. CASE Connected
  BY <1>2 DEF Connected, MissInv
<1>3. CASE Matched
  <2> DEFINE s == [run |-> run, at |-> "asked", found |-> {}]
  <2>1. s \in scans' /\ s.run = run' /\ s.at = "asked"
    BY <1>3 DEF Matched
  <2> HIDE DEF s
  <2>2. QED  BY <1>3, <2>1 DEF Matched, MissInv
<1>4. CASE GattStop
  BY <1>4 DEF GattStop, MissInv
<1>5. CASE Disconnected
  BY <1>5 DEF Disconnected, MissInv
<1>6. ASSUME NEW s \in scans, ScanAnswered(s)  PROVE MissInv'
  <2> DEFINE t == [s EXCEPT !.at = "answered", !.found = connected]
  <2>1. t.run = s.run /\ t.found = connected
    BY DEF GattTypes, Scan
  <2>2. CASE scans' = (scans \ {s}) \cup {t} /\ UNCHANGED deaf
    <3> HIDE DEF t
    <3>1. t \in scans' /\ \A u \in scans : u # s => u \in scans'
      BY <2>2
    <3>2. QED  BY <1>6, <2>1, <2>2, <3>1 DEF ScanAnswered, MissInv, bluezVars
  <2>3. CASE scans' = scans \ {s} /\ deaf' = (deaf \/ s.run = run)
    BY <1>6, <2>3 DEF ScanAnswered, MissInv, bluezVars
  <2>4. QED  BY <1>6, <2>2, <2>3 DEF ScanAnswered
<1>7. ASSUME NEW s \in scans, Scanned(s)  PROVE MissInv'
  <2>1. s.found \in SUBSET Devices /\ s.at = "answered" /\ scans' = scans \ {s}
    BY <1>7 DEF Scanned, GattTypes, Scan
  <2>2. /\ discovered' = discovered \cup s.found
        /\ discovered' \subseteq tried' \cup stale'
        /\ gattStage = "down" => discovered' \subseteq stale'
    BY <1>7, <2>1, DiscoverAccounted DEF Scanned
  <2>3. UNCHANGED <<connected, run, gattStage, listening, deaf>>
    BY <1>7 DEF Scanned, bluezVars
  <2>4. QED  BY <2>1, <2>2, <2>3 DEF MissInv
<1>8. ASSUME NEW j \in jobs, ObjectsAnswered(j) \/ Discovered(j) \/ ValueRead(j)
      PROVE MissInv'
  BY <1>8 DEF ObjectsAnswered, Discovered, ValueRead, MissInv, bluezVars
<1>9. ASSUME NEW d \in Devices, ServicesResolved(d)  PROVE MissInv'
  <2>1. /\ connected' = connected \cup {d}
        /\ UNCHANGED <<run, gattStage, listening, scans, deaf>>
    BY <1>9 DEF ServicesResolved, Connects
  <2>2. CASE listening
    <3>1. /\ discovered' = discovered \cup {d}
          /\ discovered' \subseteq tried' \cup stale'
          /\ gattStage = "down" => discovered' \subseteq stale'
      BY <1>9, <2>2, DiscoverAccounted DEF ServicesResolved
    <3>2. QED  BY <2>1, <3>1 DEF MissInv
  <2>3. CASE ~listening
    BY <1>9, <2>1, <2>3 DEF ServicesResolved, MissInv
  <2>4. QED  BY <2>2, <2>3
<1>10. ASSUME NEW d \in Devices, DeviceGone(d)  PROVE MissInv'
  BY <1>10 DEF DeviceGone, Disconnects, gattVars, MissInv
<1>11. QED
  BY <1>1, <1>2, <1>3, <1>4, <1>5, <1>6, <1>7, <1>8, <1>9, <1>10 DEF GattNext

-----------------------------------------------------------------------------
\* All three invariants.
GattInv == GattTypes /\ OnceInv /\ MissInv

LEMMA GattInitially == Init => GattInv
<1> SUFFICES ASSUME Init PROVE GattInv
  OBVIOUS
<1> USE GattAssumption
<1>1. GattTypes
  BY DEF Init, BlueZInit, GattInit, GattTypes, Runs
<1>2. OnceInv
  BY DEF Init, GattInit, OnceInv, Fresh
<1>3. MissInv
  BY DEF Init, GattInit, MissInv
<1>4. QED  BY <1>1, <1>2, <1>3 DEF GattInv

\* When another collector is at work the GATT collector is down.
LEMMA GattInductive == GattInv /\ [Next]_vars => GattInv'
<1> SUFFICES ASSUME GattInv, [Next]_vars PROVE GattInv'
  OBVIOUS
<1>1. CASE kind = "gatt" /\ GattNext /\ UNCHANGED probeVars
  BY <1>1, GattTypesStep, OnceStep, MissStep DEF GattInv
<1>2. CASE kind # "gatt" /\ ProbesNext /\ UNCHANGED gattVars
  <2>1. gattStage = "down"
    BY <1>2 DEF GattInv, GattTypes
  <2>2. connected' \subseteq Devices
    BY <1>2, ProbesLeaveGatt DEF GattInv, GattTypes
  <2>3. GattTypes'
    BY <1>2, <2>1, <2>2 DEF GattInv, GattTypes, gattVars, Runs, Job, Scan
  <2>4. OnceInv'
    BY <1>2 DEF GattInv, OnceInv, Fresh, gattVars
  <2>5. MissInv'
    BY <1>2, <2>1 DEF GattInv, MissInv, gattVars
  <2>6. QED  BY <2>3, <2>4, <2>5 DEF GattInv
<1>3. CASE UNCHANGED vars
  BY <1>3 DEF vars, bluezVars, probeVars, gattVars, GattInv, GattTypes, OnceInv, MissInv,
              Fresh
<1>4. QED  BY <1>1, <1>2, <1>3 DEF Next

\* What the invariants say of the collector.
LEMMA GattPromises == GattInv => DiscoveredOnce /\ NoneMissed
<1> SUFFICES ASSUME GattInv PROVE DiscoveredOnce /\ NoneMissed
  OBVIOUS
<1>1. DiscoveredOnce
  BY DEF GattInv, GattTypes, OnceInv, DiscoveredOnce, GattTypeOK, Job
<1>2. NoneMissed
  BY DEF GattInv, MissInv, NoneMissed
<1>3. QED  BY <1>1, <1>2

\* A device is discovered once in a run, whatever the scan, the signals and the
\* stragglers of earlier runs do (gatt.py, _discovered), for any number of devices
\* and of runs.
THEOREM DiscoveriesAreOnce == Spec => []DiscoveredOnce
<1>1. QED  BY GattInitially, GattInductive, GattPromises, PTL DEF Spec

\* When the scan of a run is through, no connected device has been passed over, but
\* for the exceptions NoneMissed names.
THEOREM NobodyIsMissed == Spec => []NoneMissed
<1>1. QED  BY GattInitially, GattInductive, GattPromises, PTL DEF Spec

-----------------------------------------------------------------------------
\* l2ping and battery.

Change == [device : Devices, connected : BOOLEAN]

ProbeTypes ==
    /\ connected \subseteq Devices
    /\ changes \in 0 .. MaxChanges
    /\ kind \in {"l2ping", "battery", "gatt"}
    /\ monitor \in {"off", "connecting", "listening", "deaf"}
    /\ stage \in {"down", "up", "stopping"}
    /\ queue \in Seq(Change) /\ Len(queue) <= QueueSize
    /\ tracked \subseteq Devices /\ doubts \subseteq Devices

\* What the poll task holds in its hands.
LoopTypes ==
    /\ loop.at \in {"ended", "waiting", "gap", "probing", "answered"}
    /\ loop.at \in {"gap", "probing", "answered"} => loop.rest \subseteq Devices
    /\ loop.at \in {"probing", "answered"} => loop.device \in Devices

\* The probe is down only when its poll task has ended.
QuietInv ==
    /\ ~late
    /\ stage = "down" => loop = Ended
    /\ kind = "gatt" => stage = "down"

\* The i-th entry of the queue is the last about a device; for 0, there is none.
LastWord(d, i) ==
    /\ i > 0 => queue[i].device = d
    /\ \A k \in 1 .. Len(queue) : k > i => queue[k].device # d

\* The last the queue has of a device, or what is tracked if it has nothing of it,
\* is so.
TrackInv ==
    /\ stage = "down" => queue = <<>>
    /\ kind # "gatt" =>
          \A d \in Devices \ doubts, i \in 0 .. Len(queue) :
              LastWord(d, i) =>
                  (d \in connected <=> IF i = 0 THEN d \in tracked ELSE queue[i].connected)

\* A signal keeps the types.
LEMMA SignalTypes ==
    ASSUME ProbeTypes, NEW d \in Devices, NEW to \in BOOLEAN, HandleSignal(d, to)
    PROVE  /\ queue' \in Seq(Change) /\ Len(queue') <= QueueSize
           /\ doubts' \subseteq Devices
<1> DEFINE c == [device |-> d, connected |-> to]
<1>1. c \in Change
  BY DEF Change
<1> HIDE DEF c
<1>2. Append(queue, c) \in Seq(Change) /\ Len(Append(queue, c)) = Len(queue) + 1
  BY <1>1 DEF ProbeTypes
<1>3. CASE queue' = Append(queue, c) /\ Len(queue) < QueueSize /\ doubts' = doubts \ {d}
  BY <1>2, <1>3, ProbesAssumption DEF ProbeTypes
<1>4. CASE UNCHANGED queue /\ doubts' = doubts \cup {d}
  BY <1>4 DEF ProbeTypes
<1>5. QED  BY <1>3, <1>4 DEF HandleSignal, c

\* A step of the two probes keeps the types.
LEMMA ProbeTypesStep ==
    ASSUME ProbeTypes, LoopTypes, ProbesNext
    PROVE  ProbeTypes' /\ UNCHANGED kind
<1> USE BlueZAssumption, ProbesAssumption
<1>1. CASE MonitorStarts \/ MonitorListens \/ MonitorStops
  BY <1>1 DEF MonitorStarts, MonitorListens, MonitorStops, ProbeTypes, bluezVars
<1>2. CASE StartProbe \/ StopProbe
  <2>1. <<>> \in Seq(Change) /\ Len(<<>>) <= QueueSize
    OBVIOUS
  <2>2. queue' \in {queue, <<>>}
    BY <1>2 DEF StartProbe, StopProbe
  <2>3. QED  BY <1>2, <2>1, <2>2 DEF StartProbe, StopProbe, ProbeTypes, bluezVars
<1>3. CASE Unsubscribe
  <2>1. \A i \in DOMAIN queue : queue[i].device \in Devices
    <3>1. \A i \in DOMAIN queue : queue[i] \in Change
      BY DEF ProbeTypes
    <3>2. QED  BY <3>1 DEF Change
  <2>a. <<>> \in Seq(Change) /\ Len(<<>>) <= QueueSize
    OBVIOUS
  <2>2. QED  BY <1>3, <2>1, <2>a DEF Unsubscribe, ProbeTypes, bluezVars
<1>4. CASE Watch
  <2>1. /\ Head(queue) \in Change /\ Tail(queue) \in Seq(Change)
        /\ Len(Tail(queue)) <= QueueSize
    BY <1>4 DEF Watch, ProbeTypes
  <2>2. Head(queue).device \in Devices
    BY <2>1 DEF Change
  <2>3. tracked' \subseteq Devices
    BY <1>4, <2>2 DEF Watch, ProbeTypes
  <2>4. QED  BY <1>4, <2>1, <2>3 DEF Watch, ProbeTypes, bluezVars
<1>5. CASE NotifierEnds
  BY <1>5 DEF NotifierEnds, ProbeTypes, bluezVars
<1>6. CASE LoopStep
  <2>1. CASE Wake \/ LeaveLoop \/ NextDevice
    BY <1>6, <2>1 DEF Wake, LeaveLoop, NextDevice, ProbeTypes, bluezVars
  <2>2. CASE PingAnswered \/ LevelNotRead
    BY <1>6, <2>2 DEF PingAnswered, LevelNotRead, Answered, ProbeTypes, bluezVars
  <2>3. CASE Pinged
    BY <2>3 DEF Pinged, Discarded, ProbeTypes, LoopTypes, bluezVars
  <2>4. QED  BY <1>6, <2>1, <2>2, <2>3 DEF LoopStep
<1>7. ASSUME NEW d \in Devices, ConnectionChanges(d)
      PROVE  ProbeTypes' /\ UNCHANGED kind
  <2>1. /\ queue' \in Seq(Change) /\ Len(queue') <= QueueSize
        /\ doubts' \subseteq Devices
    BY <1>7, SignalTypes DEF ConnectionChanges
  <2>2. /\ connected' \subseteq Devices /\ changes' \in 0 .. MaxChanges
    <3>1. Connects(d) \/ Disconnects(d)
      BY <1>7 DEF ConnectionChanges
    <3>2. QED  BY <3>1 DEF Connects, Disconnects, Changes, ProbeTypes
  <2>3. QED  BY <1>7, <2>1, <2>2 DEF ConnectionChanges, ProbeTypes
<1>8. QED
  BY <1>1, <1>2, <1>3, <1>4, <1>5, <1>6, <1>7 DEF ProbesNext

\* Where the round goes next.
LEMMA VisitTypes ==
    ASSUME NEW rest \in SUBSET Devices, Visit(rest)
    PROVE  LoopTypes'
<1>1. CASE loop' = Waiting
  BY <1>1 DEF Waiting, LoopTypes
<1>2. ASSUME NEW d \in rest, loop' = Probing(d, rest \ {d})  PROVE LoopTypes'
  BY <1>2 DEF Probing, LoopTypes
<1>3. QED  BY <1>1, <1>2 DEF Visit

\* What the poll task holds stays well formed.
LEMMA LoopTypesStep ==
    ASSUME ProbeTypes, LoopTypes, ProbesNext
    PROVE  LoopTypes'
<1>0. UNCHANGED kind
  BY ProbeTypesStep
<1>1. CASE UNCHANGED loop
  BY <1>0, <1>1 DEF LoopTypes
<1>2. CASE loop' \in {Ended, Waiting}
  BY <1>2 DEF Ended, Waiting, LoopTypes
<1>3. CASE Wake
  BY <1>3, VisitTypes DEF Wake, ProbeTypes
<1>4. CASE NextDevice
  BY <1>4, VisitTypes DEF NextDevice, LoopTypes
<1>5. ASSUME NEW a, Answered(a)  PROVE LoopTypes'
  BY <1>5 DEF Answered, LoopTypes
<1>6. CASE PingAnswered
  BY <1>5, <1>6 DEF PingAnswered
<1>9. CASE Pinged \/ LevelNotRead
  <2>1. loop' = [at |-> "gap", rest |-> loop.rest] /\ loop.rest \subseteq Devices
    BY <1>9 DEF Pinged, LevelNotRead, LoopTypes
  <2>2. QED  BY <2>1 DEF LoopTypes
<1>10. CASE LeaveLoop
  BY <1>2, <1>10 DEF LeaveLoop
<1>11. CASE LoopStep
  BY <1>3, <1>4, <1>6, <1>9, <1>10, <1>11 DEF LoopStep
<1>12. CASE MonitorStarts \/ MonitorListens \/ MonitorStops \/ Unsubscribe \/ Watch
            \/ NotifierEnds
  BY <1>1, <1>12 DEF MonitorStarts, MonitorListens, MonitorStops, Unsubscribe, Watch,
                     NotifierEnds, taskVars
<1>13. CASE StartProbe \/ StopProbe
  <2>1. UNCHANGED loop \/ loop' \in {Ended, Waiting}
    BY <1>13 DEF StartProbe, StopProbe
  <2>2. QED  BY <1>1, <1>2, <2>1
<1>14. CASE \E d \in Devices : ConnectionChanges(d)
  BY <1>1, <1>14 DEF ConnectionChanges, taskVars
<1>15. QED
  BY <1>11, <1>12, <1>13, <1>14 DEF ProbesNext

\* A step of the two probes publishes nothing after a stop.
LEMMA QuietStep ==
    ASSUME ProbeTypes, LoopTypes, QuietInv, kind # "gatt", ProbesNext
    PROVE  QuietInv'
<1>0. UNCHANGED kind
  BY ProbeTypesStep
<1>1. CASE MonitorStarts \/ MonitorListens \/ MonitorStops \/ Watch \/ NotifierEnds
  BY <1>0, <1>1 DEF MonitorStarts, MonitorListens, MonitorStops, Watch, NotifierEnds,
                    taskVars, QuietInv
<1>2. CASE StartProbe \/ StopProbe \/ Unsubscribe
  BY <1>0, <1>2 DEF StartProbe, StopProbe, Unsubscribe, QuietInv
<1>3. CASE LoopStep
  <2>1. CASE stage = "down"
    <3>1. loop.at = "ended"
      BY <2>1 DEF QuietInv, Ended
    <3>2. QED
      BY <1>3, <3>1 DEF LoopStep, Wake, LeaveLoop, NextDevice, PingAnswered, LevelNotRead,
                        Pinged
  <2>2. CASE stage # "down"
    <3>1. UNCHANGED stage
      BY <1>3 DEF LoopStep, Wake, LeaveLoop, NextDevice, PingAnswered, LevelNotRead, Pinged,
                  Answered
    <3>2. ~late'
      <4>1. CASE Pinged
        BY <2>2, <4>1 DEF Pinged, Publish, QuietInv
      <4>2. CASE ~Pinged
        BY <1>3, <4>2 DEF LoopStep, Wake, LeaveLoop, NextDevice, PingAnswered,
                          LevelNotRead, Answered, QuietInv
      <4>3. QED  BY <4>1, <4>2
    <3>3. QED  BY <1>0, <2>2, <3>1, <3>2 DEF QuietInv
  <2>3. QED  BY <2>1, <2>2
<1>4. ASSUME NEW d \in Devices, ConnectionChanges(d)  PROVE QuietInv'
  BY <1>4 DEF ConnectionChanges, taskVars, QuietInv
<1>5. QED  BY <1>1, <1>2, <1>3, <1>4 DEF ProbesNext

\* A signal is the last word about its device, and of no other.
LEMMA SignalTracks ==
    ASSUME ProbeTypes, TrackInv, kind # "gatt", UNCHANGED <<kind, stage, tracked>>,
           NEW d \in Devices, NEW to \in BOOLEAN, HandleSignal(d, to),
           connected' = IF to THEN connected \cup {d} ELSE connected \ {d}
    PROVE  TrackInv'
<1> DEFINE c == [device |-> d, connected |-> to]
<1>1. c \in Change /\ c.device = d /\ c.connected = to
  BY DEF Change
<1> HIDE DEF c
<1>2. CASE UNCHANGED queue /\ doubts' = doubts \cup {d}
  BY <1>2 DEF TrackInv, LastWord
<1>3. CASE stage # "down" /\ queue' = Append(queue, c) /\ doubts' = doubts \ {d}
  <2>1. /\ Len(queue) \in Nat /\ Len(queue') = Len(queue) + 1
        /\ queue'[Len(queue) + 1] = c
        /\ \A i \in 1 .. Len(queue) : queue'[i] = queue[i]
    BY <1>1, <1>3 DEF ProbeTypes
  <2>2. ASSUME NEW e \in Devices \ doubts', NEW i \in 0 .. Len(queue'), LastWord(e, i)'
        PROVE  e \in connected' <=> IF i = 0 THEN e \in tracked ELSE queue'[i].connected
    <3>1. CASE e = d
      <4>1. i = Len(queue) + 1
        BY <1>1, <2>1, <2>2, <3>1 DEF LastWord
      <4>2. QED  BY <1>1, <2>1, <3>1, <4>1
    <3>2. CASE e # d
      <4>1. i \in 0 .. Len(queue)
        BY <1>1, <2>1, <2>2, <3>2 DEF LastWord
      <4>2. LastWord(e, i)
        BY <2>1, <2>2, <4>1 DEF LastWord
      <4>3. e \in connected <=> IF i = 0 THEN e \in tracked ELSE queue[i].connected
        BY <1>3, <3>2, <4>1, <4>2 DEF TrackInv
      <4>4. QED  BY <2>1, <3>2, <4>1, <4>3
    <3>3. QED  BY <3>1, <3>2
  <2>3. QED  BY <1>3, <2>2 DEF TrackInv
<1>4. QED  BY <1>2, <1>3 DEF HandleSignal, c

\* What is watched out of the queue is tracked.
LEMMA WatchTracks ==
    ASSUME ProbeTypes, TrackInv, kind # "gatt", Watch
    PROVE  TrackInv'
<1> DEFINE c == Head(queue)
<1>1. /\ queue # <<>> /\ queue' = Tail(queue) /\ c \in Change
      /\ Len(queue) \in Nat \ {0} /\ Len(queue') = Len(queue) - 1
      /\ c = queue[1]
      /\ \A i \in 1 .. Len(queue') : queue'[i] = queue[i + 1]
  BY DEF Watch, ProbeTypes
<1>2. tracked' = IF c.connected THEN tracked \cup {c.device} ELSE tracked \ {c.device}
  BY DEF Watch
<1> HIDE DEF c
<1>3. UNCHANGED <<kind, stage, connected, doubts>>
  BY DEF Watch, bluezVars
<1>4. c.connected \in BOOLEAN
  BY <1>1 DEF Change
<1>5. ASSUME NEW d \in Devices \ doubts, NEW i \in 0 .. Len(queue'), LastWord(d, i)'
      PROVE  d \in connected <=> IF i = 0 THEN d \in tracked' ELSE queue'[i].connected
  <2>0. \A k \in 2 .. Len(queue) : k - 1 \in 1 .. Len(queue') /\ queue'[k - 1] = queue[k]
    BY <1>1
  <2>1. \A k \in 2 .. Len(queue) : k > i + 1 => queue[k].device # d
    <3> SUFFICES ASSUME NEW k \in 2 .. Len(queue), k > i + 1
                 PROVE  queue[k].device # d
      OBVIOUS
    <3>1. k - 1 \in 1 .. Len(queue') /\ k - 1 > i /\ queue'[k - 1] = queue[k]
      BY <1>1, <2>0
    <3>2. \A m \in 1 .. Len(queue') : m > i => queue'[m].device # d
      BY <1>5 DEF LastWord
    <3>3. QED  BY <3>1, <3>2
  <2>2. CASE i > 0 \/ c.device = d
    <3>1. i + 1 \in 1 .. Len(queue) /\ LastWord(d, i + 1)
      BY <1>1, <1>5, <2>1, <2>2 DEF LastWord
    <3>2. d \in connected <=> queue[i + 1].connected
      BY <1>1, <3>1 DEF TrackInv
    <3>3. CASE i > 0
      BY <1>1, <3>2, <3>3
    <3>4. CASE i = 0 /\ c.device = d
      BY <1>1, <1>2, <1>4, <3>2, <3>4
    <3>5. QED  BY <2>2, <3>3, <3>4
  <2>3. CASE i = 0 /\ c.device # d
    <3>1. LastWord(d, 0)
      BY <1>1, <2>1, <2>3 DEF LastWord
    <3>2. d \in connected <=> d \in tracked
      BY <1>1, <3>1 DEF TrackInv
    <3>3. QED  BY <1>2, <2>3, <3>2
  <2>4. QED  BY <2>2, <2>3
<1>6. stage # "down"
  BY <1>1 DEF TrackInv
<1>7. QED  BY <1>3, <1>5, <1>6 DEF TrackInv

\* A step of the two probes keeps what is tracked, and what waits in the queue, so.
LEMMA TrackStep ==
    ASSUME ProbeTypes, LoopTypes, TrackInv, kind # "gatt", ProbesNext
    PROVE  TrackInv'
<1>0. UNCHANGED kind
  BY ProbeTypesStep
<1>1. CASE UNCHANGED <<stage, connected, queue, tracked, doubts>>
  BY <1>0, <1>1 DEF TrackInv, LastWord
<1>2. CASE StartProbe \/ StopProbe
  <2>1. /\ stage' # "down" /\ queue' \in {queue, <<>>}
        /\ stage = "down" \/ queue' = queue
        /\ UNCHANGED <<connected, tracked, doubts>>
    BY <1>2 DEF StartProbe, StopProbe, bluezVars
  <2>2. UNCHANGED queue
    BY <2>1 DEF TrackInv
  <2>3. QED  BY <1>0, <2>1, <2>2 DEF TrackInv, LastWord
<1>3. CASE Unsubscribe
  <2>1. /\ queue' = <<>> /\ UNCHANGED <<connected, tracked>>
        /\ doubts' = doubts \cup {queue[i].device : i \in DOMAIN queue}
    BY <1>3 DEF Unsubscribe, bluezVars
  <2>2. ASSUME NEW d \in Devices \ doubts'
        PROVE  d \in connected <=> d \in tracked
    <3>1. LastWord(d, 0) /\ 0 \in 0 .. Len(queue)
      BY <2>1 DEF LastWord, ProbeTypes
    <3>2. QED  BY <2>1, <3>1 DEF TrackInv
  <2>3. QED  BY <1>0, <2>1, <2>2 DEF TrackInv
<1>4. CASE Watch
  BY <1>4, WatchTracks
<1>5. CASE Pinged
  <2>1. UNCHANGED <<stage, connected, queue>>
    BY <1>5 DEF Pinged, bluezVars
  <2>2. doubts \subseteq doubts' /\ \A d \in Devices \ doubts' : d \in tracked' <=> d \in tracked
    BY <1>5 DEF Pinged, Discarded
  <2>3. QED  BY <1>0, <2>1, <2>2 DEF TrackInv, LastWord
<1>6. CASE LoopStep /\ ~Pinged
  <2>1. UNCHANGED <<stage, connected, queue, tracked, doubts>>
    BY <1>6 DEF LoopStep, Wake, LeaveLoop, NextDevice, PingAnswered, LevelNotRead,
                Answered, bluezVars
  <2>2. QED  BY <1>1, <2>1
<1>7. CASE MonitorStarts \/ MonitorListens \/ MonitorStops \/ NotifierEnds
  <2>1. UNCHANGED <<stage, connected, queue, tracked, doubts>>
    BY <1>7 DEF MonitorStarts, MonitorListens, MonitorStops, NotifierEnds, bluezVars
  <2>2. QED  BY <1>1, <2>1
<1>8. ASSUME NEW d \in Devices, ConnectionChanges(d)  PROVE TrackInv'
  <2>1. UNCHANGED <<kind, stage, tracked>>
    BY <1>8 DEF ConnectionChanges
  <2>2. CASE Connects(d) /\ HandleSignal(d, TRUE)
    BY <2>1, <2>2, SignalTracks DEF Connects
  <2>3. CASE Disconnects(d) /\ HandleSignal(d, FALSE)
    BY <2>1, <2>3, SignalTracks DEF Disconnects
  <2>4. QED  BY <1>8, <2>2, <2>3 DEF ConnectionChanges
<1>9. QED
  BY <1>2, <1>3, <1>4, <1>5, <1>6, <1>7, <1>8 DEF ProbesNext

-----------------------------------------------------------------------------
ProbesInv == ProbeTypes /\ LoopTypes /\ QuietInv /\ TrackInv

LEMMA ProbesInitially == Init => ProbesInv
<1> SUFFICES ASSUME Init PROVE ProbesInv
  OBVIOUS
<1> USE BlueZAssumption, ProbesAssumption
<1>1. ProbeTypes
  <2>2. <<>> \in Seq(Change) /\ Len(<<>>) <= QueueSize
    OBVIOUS
  <2>3. connected \subseteq Devices /\ changes \in 0 .. MaxChanges
    BY DEF Init, BlueZInit
  <2>4. QED  BY <2>2, <2>3 DEF Init, ProbesInit, ProbeTypes
<1>2. LoopTypes /\ QuietInv
  BY DEF Init, ProbesInit, LoopTypes, QuietInv, Ended
<1>3. TrackInv
  BY DEF Init, ProbesInit, TrackInv
<1>4. QED  BY <1>1, <1>2, <1>3 DEF ProbesInv

\* While the GATT collector is at work the probes are down and hear nothing.
LEMMA ProbesInductive == ProbesInv /\ GattInv /\ [Next]_vars => ProbesInv'
<1> SUFFICES ASSUME ProbesInv, GattInv, [Next]_vars PROVE ProbesInv'
  OBVIOUS
<1>1. CASE kind # "gatt" /\ ProbesNext /\ UNCHANGED gattVars
  BY <1>1, ProbeTypesStep, LoopTypesStep, QuietStep, TrackStep DEF ProbesInv
<1>2. CASE kind = "gatt" /\ GattNext /\ UNCHANGED probeVars
  <2>1. GattTypes'
    BY <1>2, GattTypesStep DEF GattInv
  <2>2. /\ connected' \subseteq Devices
        /\ changes' \in 0 .. MaxChanges
    <3>1. UNCHANGED changes \/ Changes
      BY <1>2 DEF GattNext, GattStart, Connected, Matched, GattStop, Disconnected,
                  ScanAnswered, Scanned, ObjectsAnswered, Discovered, ValueRead,
                  ServicesResolved, DeviceGone, Connects, Disconnects, bluezVars
    <3>2. changes' \in 0 .. MaxChanges
      BY <3>1, BlueZAssumption DEF Changes, ProbesInv, ProbeTypes
    <3>3. QED  BY <2>1, <3>2 DEF GattTypes
  <2>3. UNCHANGED <<kind, monitor, stage, loop, queue, tracked, doubts, late>>
    BY <1>2 DEF probeVars, taskVars
  <2>4. ProbeTypes' /\ LoopTypes' /\ QuietInv'
    BY <2>2, <2>3 DEF ProbesInv, ProbeTypes, LoopTypes, QuietInv
  <2>5. TrackInv'
    BY <1>2, <2>3 DEF ProbesInv, TrackInv
  <2>6. QED  BY <2>4, <2>5 DEF ProbesInv
<1>3. CASE UNCHANGED vars
  BY <1>3 DEF vars, bluezVars, probeVars, taskVars, ProbesInv, ProbeTypes, LoopTypes,
              QuietInv, TrackInv, LastWord
<1>4. QED  BY <1>1, <1>2, <1>3 DEF Next

\* What the invariants say of the probes.
LEMMA ProbesPromises == ProbesInv => TracksConnections /\ ProbesQuietAfterStop
<1> SUFFICES ASSUME ProbesInv PROVE TracksConnections /\ ProbesQuietAfterStop
  OBVIOUS
<1>1. ProbesTypeOK
  BY DEF ProbesInv, ProbeTypes, LoopTypes, ProbesTypeOK, BlueZTypeOK
<1>2. ASSUME stage = "up", queue = <<>>, NEW d \in Devices \ doubts
      PROVE  d \in tracked <=> d \in connected
  <2>1. kind # "gatt"
    BY <1>2 DEF ProbesInv, QuietInv
  <2>2. LastWord(d, 0) /\ 0 \in 0 .. Len(queue)
    BY <1>2 DEF LastWord
  <2>3. QED  BY <2>1, <2>2 DEF ProbesInv, TrackInv
<1>3. QED  BY <1>1, <1>2 DEF TracksConnections, ProbesQuietAfterStop, ProbesInv, QuietInv

\* With an empty queue a probe takes those devices for connected that are, but for
\* those it cannot know of (l2ping.py, battery.py, _watch_connections).
THEOREM ProbesTrack == Spec => []TracksConnections
<1>1. Spec => [](GattInv /\ ProbesInv)
  BY GattInitially, GattInductive, ProbesInitially, ProbesInductive, PTL DEF Spec
<1>2. QED  BY <1>1, ProbesPromises, PTL

\* A stopped probe publishes nothing more, whatever it had asked and even when the
\* cancellation is lost (l2ping.py, battery.py, stop).
THEOREM ProbesAreQuiet == Spec => []ProbesQuietAfterStop
<1>1. Spec => [](GattInv /\ ProbesInv)
  BY GattInitially, GattInductive, ProbesInitially, ProbesInductive, PTL DEF Spec
<1>2. QED  BY <1>1, ProbesPromises, PTL

-----------------------------------------------------------------------------
\* What the controllers' blocks are made of.
Headers == {"Connection_Complete", "Synchronous_Connection_Complete", "LE_Meta_Event",
            "Disconnection_Complete", "Authentication_Complete", "Encryption_Change",
            "Command_Complete", "Read_RSSI"}
Links == {None} \cup [kind : {"classic", "le"}, device : Peers]
Blocks == [handle : Handles, header : Headers, names : Peers \cup {NoDevice},
           link : Links, status : {"fine", "failed"},
           lines : SUBSET {"status_number", "reason_number", "error_line"},
           rssi : {"fine", "weak", "unusable"}, key : {"fine", "short", "tiny"}]

\* The device that a classic link leads to; an LE link's is not remembered.
Leads(link) == IF link.kind = "le" THEN NoDevice ELSE link.device

\* _handle_addr once the block in hand is published, too.
Ahead == IF held = {} THEN handleAddr ELSE Remembered(CHOOSE b \in held : TRUE)

\* A handle has at most one link, and stands for its device, or for none.
Single(h) == \A a, o \in Adapters :
                links[<<a, h>>] # None /\ links[<<o, h>>] # None => a = o
Stands(h) == /\ \A a \in Adapters : links[<<a, h>>] # None
                                       => Ahead[h] = Leads(links[<<a, h>>])
             /\ (\A a \in Adapters : links[<<a, h>>] = None) => Ahead[h] = NoDevice

Types ==
    /\ links \in [Adapters \X Handles -> Links]
    /\ handleAddr \in [Handles -> Peers \cup {NoDevice}]
    /\ up \in BOOLEAN
    /\ held = {} \/ \E b \in Blocks : held = {b}
    /\ unclear \subseteq Handles
    /\ ~up => held = {}

\* The block in hand is the last that the controllers sent: a connection it tells
\* of still stands, and what it has no name for is known if its handle is sure.
HandInv == \A b \in held :
    /\ "Connection_Complete" \in Texts(b.header) /\ b.status = "fine"
          => /\ b.names # NoDevice
             /\ \E a \in Adapters : /\ links[<<a, b.handle>>] # None
                                    /\ Leads(links[<<a, b.handle>>]) = b.names
    /\ b.handle \notin unclear /\ b.names = NoDevice
          => handleAddr[b.handle] = Leads(b.link)

\* Each handle that is not in doubt.
SureInv == \A h \in Handles \ unclear : Single(h) /\ Stands(h)

\* The event published last says what its block says.
LastInv ==
    last = {} \/ \E e \in last :
        /\ last = {e} /\ e.block \in Blocks
        /\ e.type = EventType(e.block) /\ e.severity = Severity(e.block)
        /\ e.device \in Peers \cup {NoDevice}
        /\ e.sure => e.device = IF e.block.names # NoDevice THEN e.block.names
                                ELSE Leads(e.block.link)

HciInv == Types /\ HandInv /\ SureInv /\ LastInv

-----------------------------------------------------------------------------
\* What an event's type and severity are: the first entry that the header contains.

LEMMA LeastIsMin ==
    ASSUME NEW n \in Nat, NEW I \in SUBSET (1 .. n), NEW m \in I, \A y \in I : m <= y
    PROVE  Min(I) = m
<1>1. \A x \in I : (\A y \in I : x <= y) => x = m
  OBVIOUS
<1>2. Min(I) \in I /\ \A y \in I : Min(I) <= y
  BY DEF Min
<1>3. QED BY <1>1, <1>2

\* The test that decides is the first of those that hold.
LEMMA FirstTest ==
    ASSUME NEW b, NEW m \in 1 .. 7, TypeTests[m][1] \in LowerTexts(b.header),
           \A i \in 1 .. 7 : i < m => TypeTests[i][1] \notin LowerTexts(b.header)
    PROVE  EventType(b) = IF TypeTests[m][2] = "AUTH_COMPLETE" /\ b.status = "failed"
                          THEN "AUTH_FAILURE" ELSE TypeTests[m][2]
<1> DEFINE I == {i \in 1 .. 7 : TypeTests[i][1] \in LowerTexts(b.header)}
<1>1. Len(TypeTests) = 7
  BY DEF TypeTests
<1>2. m \in I /\ \A y \in I : m <= y
  OBVIOUS
<1>3. Min(I) = m
  BY <1>2, LeastIsMin, 7 \in Nat, I \in SUBSET (1 .. 7)
<1>4. SelectInSeq(TypeTests, LAMBDA t : t[1] \in LowerTexts(b.header)) = m
  BY <1>1, <1>2, <1>3 DEF SelectInSeq
<1>5. QED BY <1>4 DEF EventType

LEMMA NoTest ==
    ASSUME NEW b, \A i \in 1 .. 7 : TypeTests[i][1] \notin LowerTexts(b.header)
    PROVE  EventType(b) = "HCI_EVT"
<1>1. Len(TypeTests) = 7
  BY DEF TypeTests
<1>2. SelectInSeq(TypeTests, LAMBDA t : t[1] \in LowerTexts(b.header)) = 0
  BY <1>1 DEF SelectInSeq
<1>3. QED BY <1>2 DEF EventType

LEMMA HeaderTexts ==
    ASSUME NEW h \in Headers
    PROVE  /\ LowerTexts(h) = {h}
                 \cup (IF h = "Disconnection_Complete"
                       THEN {"Disconnect", "Connection_Complete"} ELSE {})
                 \cup (IF h = "Synchronous_Connection_Complete"
                       THEN {"Connection_Complete"} ELSE {})
           /\ "Connection_Complete" \in Texts(h)
                 <=> h \in {"Connection_Complete", "Synchronous_Connection_Complete"}
BY DEF Headers, Texts, LowerTexts

LEMMA TypeOfHeader ==
    ASSUME NEW b \in Blocks
    PROVE  EventType(b) =
             IF b.header = "Disconnection_Complete" THEN "DISCONNECT"
             ELSE IF b.header \in {"Connection_Complete", "Synchronous_Connection_Complete"}
             THEN "CONNECT"
             ELSE IF b.header = "Encryption_Change" THEN "ENCRYPT_CHANGE"
             ELSE IF b.header # "Authentication_Complete" THEN "HCI_EVT"
             ELSE IF b.status = "failed" THEN "AUTH_FAILURE" ELSE "AUTH_COMPLETE"
<1> DEFINE h == b.header
<1>1. h \in Headers
  BY DEF Blocks
<1>2. /\ TypeTests[1] = <<"Disconnection_Complete", "DISCONNECT">>
      /\ TypeTests[2] = <<"Authentication_Complete", "AUTH_COMPLETE">>
      /\ TypeTests[3] = <<"Encryption_Change", "ENCRYPT_CHANGE">>
      /\ TypeTests[4] = <<"Connection_Complete", "CONNECT">>
      /\ TypeTests[5] = <<"Hardware_Error", "HCI_HARDWARE_ERROR">>
      /\ TypeTests[6] = <<"Synchronous_Connection_Complete", "SCO_CONNECT">>
      /\ TypeTests[7] = <<"Device_Disconnected", "HCI_MGMT">>
  BY DEF TypeTests
<1>3. \A i \in 1 .. 7 : i \in {1, 2, 3, 4, 5, 6, 7}
  OBVIOUS
<1> DEFINE Holds(i) == TypeTests[i][1] \in LowerTexts(h)
<1>4. /\ Holds(1) <=> h = "Disconnection_Complete"
      /\ Holds(2) <=> h = "Authentication_Complete"
      /\ Holds(3) <=> h = "Encryption_Change"
      /\ Holds(4) <=> h \in {"Disconnection_Complete", "Connection_Complete",
                             "Synchronous_Connection_Complete"}
      /\ ~Holds(5)
      /\ Holds(6) <=> h = "Synchronous_Connection_Complete"
      /\ ~Holds(7)
  BY <1>1, <1>2, HeaderTexts DEF Headers
<1>5. CASE h = "Disconnection_Complete"
  BY <1>5, <1>2, <1>3, <1>4, FirstTest, 1 \in 1 .. 7
<1>6. CASE h = "Authentication_Complete"
  BY <1>6, <1>2, <1>3, <1>4, FirstTest, 2 \in 1 .. 7
<1>7. CASE h = "Encryption_Change"
  BY <1>7, <1>2, <1>3, <1>4, FirstTest, 3 \in 1 .. 7
<1>8. CASE h \in {"Connection_Complete", "Synchronous_Connection_Complete"}
  BY <1>8, <1>2, <1>3, <1>4, FirstTest, 4 \in 1 .. 7
<1>9. CASE h \in {"LE_Meta_Event", "Command_Complete", "Read_RSSI"}
  BY <1>9, <1>3, <1>4, NoTest
<1>10. QED BY <1>1, <1>5, <1>6, <1>7, <1>8, <1>9 DEF Headers

\* The entry that classifies is the first whose text the header contains.
LEMMA FirstClass ==
    ASSUME NEW b, NEW m \in 1 .. 9, Classification[m].text \in Texts(b.header),
           \A i \in 1 .. 9 : i < m => Classification[i].text \notin Texts(b.header)
    PROVE  Classify(b).severity = Classification[m].severity
<1> DEFINE I == {i \in 1 .. 9 : Classification[i].text \in Texts(b.header)}
<1>1. Len(Classification) = 9
  BY DEF Classification
<1>2. m \in I /\ \A y \in I : m <= y
  OBVIOUS
<1>3. Min(I) = m
  BY <1>2, LeastIsMin, 9 \in Nat, I \in SUBSET (1 .. 9)
<1>4. SelectInSeq(Classification, LAMBDA c : c.text \in Texts(b.header)) = m
  BY <1>1, <1>2, <1>3 DEF SelectInSeq
<1>5. QED BY <1>4 DEF Classify

LEMMA NoClass ==
    ASSUME NEW b, \A i \in 1 .. 9 : Classification[i].text \notin Texts(b.header)
    PROVE  Classify(b).severity = IF "error_line" \in b.lines THEN "ERROR" ELSE "INFO"
<1>1. Len(Classification) = 9
  BY DEF Classification
<1>2. SelectInSeq(Classification, LAMBDA c : c.text \in Texts(b.header)) = 0
  BY <1>1 DEF SelectInSeq
<1>3. QED BY <1>2 DEF Classify

\* What a header is classified as: a listed one as it usually is, another by its text.
LEMMA ClassOfHeader ==
    ASSUME NEW b \in Blocks
    PROVE  Classify(b).severity =
             IF ~InTable(b.header)
             THEN IF "error_line" \in b.lines THEN "ERROR" ELSE "INFO"
             ELSE IF b.header = "Command_Complete" THEN "DEBUG" ELSE "INFO"
<1> DEFINE h == b.header
           Has(i) == Classification[i].text \in Texts(h)
<1>1. h \in Headers
  BY DEF Blocks
<1>2. /\ Classification[1].text = "Disconnect" /\ Classification[1].severity = "INFO"
      /\ Classification[2].text = "Connection_Complete" /\ Classification[2].severity = "INFO"
      /\ Classification[3].text = "Disconnection_Complete"
      /\ Classification[4].text = "Authentication_Complete"
      /\ Classification[4].severity = "INFO"
      /\ Classification[5].text = "Encryption_Change" /\ Classification[5].severity = "INFO"
      /\ Classification[6].text = "Command_Complete" /\ Classification[6].severity = "DEBUG"
      /\ Classification[7].text = "Synchronous_Connection_Complete"
      /\ Classification[8].text = "Device_Disconnected"
      /\ Classification[9].text = "Hardware_Error"
  BY DEF Classification
<1>3. \A i \in 1 .. 9 : i \in {1, 2, 3, 4, 5, 6, 7, 8, 9}
  OBVIOUS
<1>4. Texts(h) = {h} \cup (IF h = "Disconnection_Complete" THEN {"Disconnect"} ELSE {})
                     \cup (IF h = "Synchronous_Connection_Complete"
                           THEN {"Connection_Complete"} ELSE {})
  BY <1>1 DEF Headers, Texts
<1>5. /\ Has(1) <=> h = "Disconnection_Complete"
      /\ Has(2) <=> h \in {"Connection_Complete", "Synchronous_Connection_Complete"}
      /\ Has(3) <=> h = "Disconnection_Complete"
      /\ Has(4) <=> h = "Authentication_Complete"
      /\ Has(5) <=> h = "Encryption_Change"
      /\ Has(6) <=> h = "Command_Complete"
      /\ Has(7) <=> h = "Synchronous_Connection_Complete"
      /\ ~Has(8) /\ ~Has(9)
  BY <1>1, <1>2, <1>4 DEF Headers
<1>6. ASSUME NEW m \in 1 .. 9, Has(m), \A i \in 1 .. 9 : i < m => ~Has(i)
      PROVE  Classify(b).severity = Classification[m].severity
  BY <1>6, FirstClass
<1> HIDE DEF Has, h
<1>7. CASE h = "Disconnection_Complete"
  <2>1. Has(1) /\ \A i \in 1 .. 9 : ~(i < 1)
    BY <1>3, <1>5, <1>7
  <2>2. Classify(b).severity = "INFO"
    BY <1>2, <1>6, <2>1, 1 \in 1 .. 9
  <2>3. InTable(b.header) /\ (b.header = "Command_Complete" <=> FALSE)
    BY <1>7 DEF InTable, h
  <2>4. QED BY <2>2, <2>3
<1>8. CASE h \in {"Connection_Complete", "Synchronous_Connection_Complete"}
  <2>1. Has(2) /\ \A i \in 1 .. 9 : i < 2 => ~Has(i)
    BY <1>3, <1>5, <1>8
  <2>2. Classify(b).severity = "INFO"
    BY <1>2, <1>6, <2>1, 2 \in 1 .. 9
  <2>3. InTable(b.header) /\ (b.header = "Command_Complete" <=> FALSE)
    BY <1>8 DEF InTable, h
  <2>4. QED BY <2>2, <2>3
<1>9. CASE h = "Authentication_Complete"
  <2>1. Has(4) /\ \A i \in 1 .. 9 : i < 4 => ~Has(i)
    BY <1>3, <1>5, <1>9
  <2>2. Classify(b).severity = "INFO"
    BY <1>2, <1>6, <2>1, 4 \in 1 .. 9
  <2>3. InTable(b.header) /\ (b.header = "Command_Complete" <=> FALSE)
    BY <1>9 DEF InTable, h
  <2>4. QED BY <2>2, <2>3
<1>10. CASE h = "Encryption_Change"
  <2>1. Has(5) /\ \A i \in 1 .. 9 : i < 5 => ~Has(i)
    BY <1>3, <1>5, <1>10
  <2>2. Classify(b).severity = "INFO"
    BY <1>2, <1>6, <2>1, 5 \in 1 .. 9
  <2>3. InTable(b.header) /\ (b.header = "Command_Complete" <=> FALSE)
    BY <1>10 DEF InTable, h
  <2>4. QED BY <2>2, <2>3
<1>11. CASE h = "Command_Complete"
  <2>1. Has(6) /\ \A i \in 1 .. 9 : i < 6 => ~Has(i)
    BY <1>3, <1>5, <1>11
  <2>2. Classify(b).severity = "DEBUG"
    BY <1>2, <1>6, <2>1, 6 \in 1 .. 9
  <2>3. InTable(b.header) /\ (b.header = "Command_Complete" <=> TRUE)
    BY <1>11 DEF InTable, h
  <2>4. QED BY <2>2, <2>3
<1>12. CASE h \in {"LE_Meta_Event", "Read_RSSI"}
  <2>1. \A i \in 1 .. 9 : ~Has(i)
    BY <1>3, <1>5, <1>12
  <2>2. Classify(b).severity = IF "error_line" \in b.lines THEN "ERROR" ELSE "INFO"
    BY <2>1, NoClass DEF Has, h
  <2>3. ~InTable(b.header)
    BY <1>12 DEF InTable, h
  <2>4. QED BY <2>2, <2>3
<1>13. QED BY <1>1, <1>7, <1>8, <1>9, <1>10, <1>11, <1>12 DEF Headers

-----------------------------------------------------------------------------
\* Severity.  Raising is taking the worse of two, so the order of the tests does
\* not matter.
Severities == {"DEBUG", "INFO", "WARN", "ERROR"}

LEMMA OrderIsNatural ==
    ASSUME NEW s \in Severities
    PROVE  Order(s) \in Nat
BY DEF Severities, Order

LEMMA RaiseIsWorse ==
    ASSUME NEW s \in Severities, NEW t \in Severities
    PROVE  /\ Raise(s, t) \in {s, t}
           /\ Raise(s, t) \in Severities
           /\ Order(s) <= Order(Raise(s, t)) /\ Order(t) <= Order(Raise(s, t))
BY OrderIsNatural DEF Raise

\* Of the error patterns the first that the block contains counts.
LEMMA PatternOfLines ==
    ASSUME NEW b, NEW s
    PROVE  AfterStatus(s, b) = IF "status_number" \in b.lines THEN Raise(s, "ERROR")
                               ELSE IF "reason_number" \in b.lines THEN Raise(s, "WARN")
                               ELSE IF "error_line" \in b.lines THEN Raise(s, "ERROR")
                               ELSE s
<1> DEFINE Has(i) == ErrorPatterns[i].line \in b.lines
           I == {i \in 1 .. 3 : Has(i)}
           n == SelectInSeq(ErrorPatterns, LAMBDA p : p.line \in b.lines)
<1>1. /\ Len(ErrorPatterns) = 3
      /\ ErrorPatterns[1] = [line |-> "status_number", severity |-> "ERROR"]
      /\ ErrorPatterns[2] = [line |-> "reason_number", severity |-> "WARN"]
      /\ ErrorPatterns[3] = [line |-> "error_line", severity |-> "ERROR"]
  BY DEF ErrorPatterns
<1>2. \A i \in 1 .. 3 : i \in {1, 2, 3}
  OBVIOUS
<1>3. ASSUME NEW m \in 1 .. 3, Has(m), \A i \in 1 .. 3 : i < m => ~Has(i)
      PROVE  AfterStatus(s, b) = Raise(s, ErrorPatterns[m].severity)
  <2>1. m \in I /\ \A y \in I : m <= y
    BY <1>3
  <2>2. Min(I) = m
    BY <2>1, LeastIsMin, 3 \in Nat, I \in SUBSET (1 .. 3)
  <2>3. n = m
    BY <1>1, <2>1, <2>2 DEF SelectInSeq
  <2>4. QED BY <2>3 DEF AfterStatus
<1>4. CASE Has(1)
  BY <1>1, <1>3, <1>4, 1 \in 1 .. 3
<1>5. CASE ~Has(1) /\ Has(2)
  BY <1>1, <1>2, <1>3, <1>5, 2 \in 1 .. 3
<1>6. CASE ~Has(1) /\ ~Has(2) /\ Has(3)
  BY <1>1, <1>2, <1>3, <1>6, 3 \in 1 .. 3
<1>7. CASE ~Has(1) /\ ~Has(2) /\ ~Has(3)
  <2>1. n = 0
    BY <1>1, <1>2, <1>7 DEF SelectInSeq
  <2>2. QED BY <1>1, <1>7, <2>1 DEF AfterStatus
<1>8. QED BY <1>4, <1>5, <1>6, <1>7

\* Each test keeps the severity or raises it to what it found.
LEMMA TestsRaise ==
    ASSUME NEW b \in Blocks, NEW s \in Severities
    PROVE  /\ AfterRssi(s, b) =
                IF b.header # "Read_RSSI" THEN s
                ELSE IF b.rssi = "unusable" THEN Raise(s, "ERROR")
                ELSE IF b.rssi = "weak" THEN Raise(s, "WARN") ELSE s
           /\ AfterKey(s, b) = IF b.key = "tiny" THEN Raise(s, "ERROR")
                               ELSE IF b.key = "short" THEN Raise(s, "WARN") ELSE s
           /\ {"WARN", "ERROR"} \subseteq Severities
<1>1. b.header \in Headers
  BY DEF Blocks
<1>2. "Read_RSSI" \in Texts(b.header) <=> b.header = "Read_RSSI"
  BY <1>1 DEF Headers, Texts
<1>3. AfterRssi(s, b) = IF b.header # "Read_RSSI" THEN s
                        ELSE IF b.rssi = "unusable" THEN Raise(s, "ERROR")
                        ELSE IF b.rssi = "weak" THEN Raise(s, "WARN") ELSE s
  BY <1>2 DEF AfterRssi
<1>4. QED BY <1>3 DEF AfterKey, Severities

\* From what the header is worth every test raises to what it finds.
LEMMA SeverityBounds ==
    ASSUME NEW b \in Blocks
    PROVE  \E usual \in Usual(b.header) :
              LET shown == Shown(b, usual)
              IN  Severity(b) \in shown /\ \A s \in shown : Order(s) <= Order(Severity(b))
<1> DEFINE usual == IF b.header = "Command_Complete" THEN "DEBUG" ELSE "INFO"
           s0 == Classify(b).severity
           s1 == AfterStatus(s0, b)
           s2 == AfterRssi(s1, b)
           s3 == AfterKey(s2, b)
           Worse(s, t) == s \in Severities /\ t \in Severities /\ Order(s) <= Order(t)
           shouts == \/ "status_number" \in b.lines
                     \/ "error_line" \in b.lines
                           /\ ("reason_number" \in b.lines => ~InTable(b.header))
           poor == b.header = "Read_RSSI" /\ b.rssi = "unusable"
           weak == b.header = "Read_RSSI" /\ b.rssi = "weak"
<1>1. /\ usual \in Usual(b.header) /\ usual \in Severities
      /\ {"WARN", "ERROR"} \subseteq Severities
  BY DEF Usual, Severities
<1>2. \A s \in Severities : Worse(s, "ERROR")
  BY DEF Severities, Order
<1>3. \A s, t, u : Worse(s, t) /\ Worse(t, u) => Worse(s, u)
  BY OrderIsNatural
<1>4. /\ Worse(usual, s1)
      /\ shouts => Worse("ERROR", s1)
      /\ "reason_number" \in b.lines => Worse("WARN", s1)
      /\ \/ s1 = usual
         \/ s1 = "ERROR" /\ shouts
         \/ s1 = "WARN" /\ "reason_number" \in b.lines
  <2>1. CASE InTable(b.header) \/ "error_line" \notin b.lines
    <3>1. s0 = usual
      <4>1. ~InTable(b.header) => b.header # "Command_Complete"
        BY DEF InTable
      <4>2. s0 = IF ~InTable(b.header)
                 THEN IF "error_line" \in b.lines THEN "ERROR" ELSE "INFO"
                 ELSE IF b.header = "Command_Complete" THEN "DEBUG" ELSE "INFO"
        BY ClassOfHeader
      <4> HIDE DEF s0
      <4>3. QED BY <2>1, <4>1, <4>2
    <3> HIDE DEF s0, usual
    <3>2. /\ s1 = IF "status_number" \in b.lines THEN Raise(s0, "ERROR")
                  ELSE IF "reason_number" \in b.lines THEN Raise(s0, "WARN")
                  ELSE IF "error_line" \in b.lines THEN Raise(s0, "ERROR") ELSE s0
      BY PatternOfLines
    <3>3. /\ Worse(s0, Raise(s0, "ERROR")) /\ Worse("ERROR", Raise(s0, "ERROR"))
          /\ Worse(s0, Raise(s0, "WARN")) /\ Worse("WARN", Raise(s0, "WARN"))
          /\ Worse("WARN", Raise(s0, "ERROR")) /\ Worse(s0, s0)
          /\ Raise(s0, "ERROR") \in {s0, "ERROR"} /\ Raise(s0, "WARN") \in {s0, "WARN"}
      BY <1>1, <1>2, <1>3, <3>1, RaiseIsWorse, OrderIsNatural
    <3> HIDE DEF Worse, s1
    <3>4. QED BY <2>1, <3>1, <3>2, <3>3
  <2>2. CASE ~InTable(b.header) /\ "error_line" \in b.lines
    <3>1. s0 = "ERROR"
      BY <2>2, ClassOfHeader
    <3>2. s1 = "ERROR"
      <4>1. Raise("ERROR", "ERROR") = "ERROR" /\ Raise("ERROR", "WARN") = "ERROR"
        BY DEF Raise, Order
      <4> HIDE DEF s0
      <4>2. QED BY <3>1, <4>1, PatternOfLines
    <3>3. QED BY <1>1, <1>2, <2>2, <3>2
  <2>3. QED BY <2>1, <2>2
<1> HIDE DEF s1
<1>5. /\ Worse(s1, s2)
      /\ poor => Worse("ERROR", s2) /\ s2 \in {s1, "ERROR"}
      /\ weak => Worse("WARN", s2) /\ s2 \in {s1, "WARN"}
      /\ ~poor /\ ~weak => s2 = s1
  BY <1>4, TestsRaise, RaiseIsWorse, OrderIsNatural
<1> HIDE DEF s2
<1>6. /\ Worse(s2, s3)
      /\ b.key = "tiny" => Worse("ERROR", s3) /\ s3 \in {s2, "ERROR"}
      /\ b.key = "short" => Worse("WARN", s3) /\ s3 \in {s2, "WARN"}
      /\ b.key \notin {"tiny", "short"} => s3 = s2
  BY <1>5, TestsRaise, RaiseIsWorse, OrderIsNatural
<1>7. Severity(b) = s3
  BY DEF Severity, s1, s2
<1> HIDE DEF s3, usual, shouts, poor, weak
<1>8. /\ Worse(usual, s3)
      /\ shouts \/ poor \/ b.key = "tiny" => Worse("ERROR", s3)
      /\ "reason_number" \in b.lines \/ weak \/ b.key = "short" => Worse("WARN", s3)
  <2> HIDE DEF Worse
  <2>1. QED BY <1>3, <1>4, <1>5, <1>6
<1>9. \/ s3 = usual
      \/ s3 = "ERROR" /\ (shouts \/ poor \/ b.key = "tiny")
      \/ s3 = "WARN" /\ ("reason_number" \in b.lines \/ weak \/ b.key = "short")
  BY <1>4, <1>5, <1>6
<1>10. /\ ShowsError(b) <=> shouts \/ poor \/ b.key = "tiny"
       /\ ShowsWarning(b) <=> "reason_number" \in b.lines \/ weak \/ b.key = "short"
  BY DEF ShowsError, ShowsWarning, shouts, poor, weak
<1>11. s3 \in Shown(b, usual) /\ \A s \in Shown(b, usual) : Order(s) <= Order(s3)
  BY <1>8, <1>9, <1>10 DEF Shown
<1>12. QED BY <1>1, <1>7, <1>11

LEMMA TypeIsListed ==
    ASSUME NEW b \in Blocks
    PROVE  EventType(b) \in EventTypes
BY TypeOfHeader DEF EventTypes

LEMMA LastIsRight ==
    ASSUME LastInv
    PROVE  EndsAreNotBeginnings /\ SeverityIsWorst
<1>1. \A e \in last : /\ e.block \in Blocks
                      /\ e.type = EventType(e.block) /\ e.severity = Severity(e.block)
  BY DEF LastInv
<1>2. EndsAreNotBeginnings
  <2>1. ASSUME NEW e \in last
        PROVE  /\ e.type = "CONNECT" <=>
                      e.block.header \in {"Connection_Complete",
                                         "Synchronous_Connection_Complete"}
               /\ e.type # "SCO_CONNECT"
               /\ e.type = "DISCONNECT" <=> e.block.header = "Disconnection_Complete"
    BY <1>1, TypeOfHeader
  <2>2. QED BY <2>1 DEF EndsAreNotBeginnings
<1>3. SeverityIsWorst
  BY <1>1, SeverityBounds DEF SeverityIsWorst
<1>4. QED BY <1>2, <1>3

-----------------------------------------------------------------------------
\* Attribution.  First what the map holds, now and once the block in hand is out.
LEMMA RememberedIs ==
    ASSUME NEW b \in Blocks
    PROVE  Remembered(b) =
             IF b.header = "Disconnection_Complete"
             THEN [handleAddr EXCEPT ![b.handle] = NoDevice]
             ELSE IF "Connection_Complete" \in Texts(b.header) /\ b.names # NoDevice
             THEN [handleAddr EXCEPT ![b.handle] = b.names]
             ELSE handleAddr
<1>1. b.header \in Headers
  BY DEF Blocks
<1>2. b.header = "Disconnection_Complete" => "Connection_Complete" \notin Texts(b.header)
  BY <1>1, HeaderTexts
<1>3. QED BY <1>2 DEF Remembered

LEMMA AheadIs ==
    /\ held = {} => Ahead = handleAddr
    /\ \A b : held = {b} => Ahead = Remembered(b)
BY DEF Ahead

LEMMA AheadType ==
    ASSUME Types
    PROVE  Ahead \in [Handles -> Peers \cup {NoDevice}]
<1>1. CASE held = {}
  BY <1>1, AheadIs DEF Types
<1>2. ASSUME NEW b \in Blocks, held = {b}
      PROVE  Ahead \in [Handles -> Peers \cup {NoDevice}]
  <2>1. b.handle \in Handles /\ b.names \in Peers \cup {NoDevice}
    BY DEF Blocks
  <2>2. QED BY <2>1, <1>2, AheadIs, RememberedIs DEF Types
<1>3. QED BY <1>1, <1>2 DEF Types

\* Whatever handle a block has, the map after it differs in that handle only.
LEMMA AheadNext ==
    ASSUME Types, NEW b \in Blocks, handleAddr' = Ahead, held' = {b}, NEW h \in Handles
    PROVE  Ahead'[h] = IF h # b.handle THEN Ahead[h]
                       ELSE IF b.header = "Disconnection_Complete" THEN NoDevice
                       ELSE IF "Connection_Complete" \in Texts(b.header)
                               /\ b.names # NoDevice THEN b.names
                       ELSE Ahead[h]
<1>1. Ahead' = Remembered(b)'
  BY DEF Ahead
<1>2. Remembered(b)' =
             IF b.header = "Disconnection_Complete"
             THEN [handleAddr' EXCEPT ![b.handle] = NoDevice]
             ELSE IF "Connection_Complete" \in Texts(b.header) /\ b.names # NoDevice
             THEN [handleAddr' EXCEPT ![b.handle] = b.names]
             ELSE handleAddr'
  <2>1. b.header \in Headers
    BY DEF Blocks
  <2>2. b.header = "Disconnection_Complete" => "Connection_Complete" \notin Texts(b.header)
    BY <2>1, HeaderTexts
  <2>3. QED BY <2>2 DEF Remembered
<1>3. QED BY <1>1, <1>2, AheadType

\* Publishing the block in hand attributes it as its handle stands.
LEMMA EmitIsRight ==
    ASSUME Types, HandInv, NEW b \in held, EmitEvent(b)
    PROVE  LastInv' /\ handleAddr' = Ahead
<1>1. held = {b} /\ b \in Blocks
  BY DEF Types
<1>2. handleAddr' = Ahead
  BY <1>1, AheadIs DEF EmitEvent
<1>3. /\ b.handle \in Handles /\ b.names \in Peers \cup {NoDevice}
      /\ handleAddr[b.handle] \in Peers \cup {NoDevice}
  BY <1>1 DEF Blocks, Types
<1>4. Device(b) \in Peers \cup {NoDevice}
  BY <1>3 DEF Device
<1>5. b.handle \notin unclear => Device(b) = IF b.names # NoDevice THEN b.names
                                            ELSE Leads(b.link)
  BY DEF HandInv, Device
<1> DEFINE e == [type |-> EventType(b), severity |-> Severity(b), device |-> Device(b),
                 sure |-> b.handle \notin unclear, block |-> b]
<1>6. last' = {e}
  BY DEF EmitEvent
<1>7. /\ e.block = b /\ e.type = EventType(b) /\ e.severity = Severity(b)
      /\ e.device = Device(b) /\ e.sure = (b.handle \notin unclear)
  OBVIOUS
<1> HIDE DEF e
<1>8. LastInv'
  BY <1>1, <1>4, <1>5, <1>6, <1>7 DEF LastInv
<1>9. QED BY <1>2, <1>8

\* Fewer than two controllers have a link if counting them says so.
LEMMA CountedSingle ==
    ASSUME NEW h \in Handles,
           Cardinality({a \in Adapters : links[<<a, h>>] # None}) < 2
    PROVE  Single(h)
<1> DEFINE L == {a \in Adapters : links[<<a, h>>] # None}
<1> SUFFICES ASSUME NEW a \in L, NEW o \in L, a # o PROVE FALSE
  BY DEF Single
<1>1. IsFiniteSet(L)
  BY HciAssumption, FS_Subset
<1>2. IsFiniteSet({a}) /\ Cardinality({a}) = 1
  BY FS_Singleton
<1>3. Cardinality({a} \cup {o}) = Cardinality({a}) + 1
  BY <1>2, o \notin {a}, FS_AddElement
<1>4. Cardinality({a} \cup {o}) <= Cardinality(L)
  BY <1>1, FS_Subset, {a} \cup {o} \subseteq L
<1>5. Cardinality(L) \in Nat
  BY <1>1, FS_CardinalityType
<1>6. QED BY <1>2, <1>3, <1>4, <1>5

\* A connection in hand that nobody shares settles its handle.
LEMMA SettledIsSure ==
    ASSUME Types, HandInv, NEW b \in held, NEW h \in Settled(b)
    PROVE  h \in Handles /\ Single(h) /\ Stands(h)
<1>1. held = {b} /\ b \in Blocks
  BY DEF Types
<1>2. /\ h = b.handle /\ "Connection_Complete" \in Texts(b.header) /\ b.status = "fine"
      /\ Cardinality({a \in Adapters : links[<<a, h>>] # None}) < 2
  BY DEF Settled
<1>3. h \in Handles /\ b.header \in Headers
  BY <1>1, <1>2 DEF Blocks
<1>4. Single(h)
  BY <1>2, <1>3, CountedSingle
<1>5. PICK a \in Adapters : links[<<a, h>>] # None /\ Leads(links[<<a, h>>]) = b.names
  BY <1>2 DEF HandInv
<1>6. b.names # NoDevice
  BY <1>2 DEF HandInv
<1>7. Ahead[h] = b.names
  BY <1>1, <1>2, <1>3, <1>6, AheadIs, RememberedIs, HeaderTexts DEF Types
<1>8. Stands(h)
  BY <1>4, <1>5, <1>7 DEF Single, Stands
<1>9. QED BY <1>3, <1>4, <1>8

LEMMA SureSoon ==
    ASSUME HciInv,
           NEW h \in Handles \ (unclear \ UNION {Settled(b) : b \in held})
    PROVE  Single(h) /\ Stands(h)
BY SettledIsSure DEF HciInv, SureInv

-----------------------------------------------------------------------------
\* What a block must say of the links it finds and leaves, for its handle to stay
\* sure unless it is put in doubt.
After(b) == IF b.header = "Disconnection_Complete" THEN NoDevice
            ELSE IF "Connection_Complete" \in Texts(b.header) /\ b.names # NoDevice
            THEN b.names ELSE Ahead[b.handle]

\* What a handle stands for depends on its links and its place in the map only.
LEMMA StandsNext ==
    ASSUME NEW h \in Handles, \A a \in Adapters : links'[<<a, h>>] = links[<<a, h>>],
           Ahead'[h] = Ahead[h], Single(h), Stands(h)
    PROVE  Single(h)' /\ Stands(h)'
BY DEF Single, Stands

\* A block that tells of a change of its handle's links keeps the invariant.
LEMMA BlockKeeps ==
    ASSUME HciInv, NEW b \in Blocks, NEW D \in SUBSET Handles, Arrives(b, D), up' = up,
           links' \in [Adapters \X Handles -> Links],
           \A a \in Adapters, o \in Handles \ {b.handle} : links'[<<a, o>>] = links[<<a, o>>],
           "Connection_Complete" \in Texts(b.header) /\ b.status = "fine"
              => /\ b.names # NoDevice
                 /\ \E a \in Adapters : /\ links'[<<a, b.handle>>] # None
                                        /\ Leads(links'[<<a, b.handle>>]) = b.names,
           b.handle \notin D /\ Single(b.handle) /\ Stands(b.handle)
              => /\ \A a, o \in Adapters :
                      links'[<<a, b.handle>>] # None /\ links'[<<o, b.handle>>] # None => a = o
                 /\ \A a \in Adapters : links'[<<a, b.handle>>] # None
                                           => After(b) = Leads(links'[<<a, b.handle>>])
                 /\ (\A a \in Adapters : links'[<<a, b.handle>>] = None) => After(b) = NoDevice
                 /\ b.names = NoDevice => Ahead[b.handle] = Leads(b.link)
    PROVE  HciInv'
<1>1. b.handle \in Handles
  BY DEF Blocks
<1>2. Types /\ HandInv /\ SureInv /\ LastInv
  BY DEF HciInv
<1>3. CASE up
  <2>1. /\ held' = {b}
        /\ unclear' = (unclear \ UNION {Settled(c) : c \in held}) \cup D
        /\ IF held = {} THEN UNCHANGED <<last, handleAddr>> ELSE \A c \in held : EmitEvent(c)
    BY <1>3 DEF Arrives
  <2>2. handleAddr' = Ahead /\ LastInv'
    <3>1. CASE held = {}
      BY <3>1, <2>1, <1>2, AheadIs DEF LastInv
    <3>2. ASSUME NEW c \in held PROVE handleAddr' = Ahead /\ LastInv'
      BY <2>1, <1>2, EmitIsRight
    <3>3. QED BY <3>1, <3>2
  <2>3. Ahead \in [Handles -> Peers \cup {NoDevice}]
    BY <1>2, AheadType
  <2>4. Types'
    BY <2>1, <2>2, <2>3, <1>3, <1>2 DEF Types
  <2>5. \A h \in Handles \ unclear' : h \notin D /\ Single(h) /\ Stands(h)
    BY <2>1, SureSoon
  <2>6. \A h \in Handles : Ahead'[h] = IF h = b.handle THEN After(b) ELSE Ahead[h]
    BY <2>1, <2>2, <1>2, AheadNext DEF After
  <2>7. ASSUME NEW h \in Handles \ unclear' PROVE Single(h)' /\ Stands(h)'
    <3>1. CASE h = b.handle
      <4>1. Single(h)'
        BY <3>1, <2>5 DEF Single
      <4>2. Stands(h)'
        BY <3>1, <2>5, <2>6 DEF Stands
      <4>3. QED BY <4>1, <4>2
    <3>2. CASE h # b.handle
      BY <3>2, <2>5, <2>6, StandsNext
    <3>3. QED BY <3>1, <3>2
  <2>8. SureInv'
    BY <2>7 DEF SureInv
  <2>9. HandInv'
    <3>1. b.handle \notin unclear' /\ b.names = NoDevice
             => handleAddr'[b.handle] = Leads(b.link)
      BY <2>2, <2>5, <1>1
    <3>2. QED BY <3>1, <2>1 DEF HandInv
  <2>10. QED BY <2>2, <2>4, <2>8, <2>9 DEF HciInv
<1>4. CASE ~up
  <2>1. held = {} /\ UNCHANGED <<last, handleAddr, held>> /\ unclear' = unclear \cup {b.handle}
    BY <1>4, <1>2 DEF Arrives, Types
  <2>2. Types' /\ HandInv' /\ LastInv'
    BY <2>1, <1>1, <1>2, <1>4 DEF Types, HandInv, LastInv
  <2>3. Ahead' = Ahead
    BY <2>1 DEF Ahead
  <2>4. \A h \in Handles \ unclear' : h # b.handle /\ Single(h) /\ Stands(h)
    BY <2>1, <1>2 DEF SureInv
  <2>5. SureInv'
    BY <2>3, <2>4, StandsNext DEF SureInv
  <2>6. QED BY <2>2, <2>5 DEF HciInv
<1>5. QED BY <1>3, <1>4

-----------------------------------------------------------------------------
\* The controllers' blocks, one after the other.
LEMMA LinkTypes ==
    /\ None \in Links /\ None.kind = "none" /\ None.device = NoDevice
    /\ \A d \in Peers, k \in {"classic", "le"} :
          /\ [kind |-> k, device |-> d] \in Links
          /\ [kind |-> k, device |-> d] # None
          /\ d # NoDevice
<1>1. \A d \in Peers : d # NoDevice
  BY HciAssumption
<1>2. \A d \in Peers, k \in {"classic", "le"} :
          [kind |-> k, device |-> d].device = d /\ None.device = NoDevice
  BY DEF None
<1>3. QED BY <1>1, <1>2 DEF Links, None

LEMMA ConnectKeeps ==
    ASSUME HciInv, NEW a \in Adapters, NEW h \in Handles, NEW d \in Peers, Connect(a, h, d)
    PROVE  HciInv'
<1>1. PICK header \in {"Connection_Complete", "Synchronous_Connection_Complete",
                       "LE_Meta_Event"} :
        LET link == [kind |-> IF header = "LE_Meta_Event" THEN "le" ELSE "classic",
                     device |-> d]
        IN  /\ links' = [links EXCEPT ![<<a, h>>] = link]
            /\ Arrives([Block(a, h, header, d) EXCEPT !.link = link],
                       IF Shared(a, h) THEN {h} ELSE {})
  BY DEF Connect
<1> DEFINE link == [kind |-> IF header = "LE_Meta_Event" THEN "le" ELSE "classic",
                    device |-> d]
           b == [Block(a, h, header, d) EXCEPT !.link = link]
           D == IF Shared(a, h) THEN {h} ELSE {}
<1>2. /\ link \in Links /\ link # None /\ d # NoDevice
      /\ Leads(link) = IF header = "LE_Meta_Event" THEN NoDevice ELSE d
  BY LinkTypes DEF Leads
<1>3. /\ b.handle = h /\ b.header = header /\ b.names = d /\ b.status = "fine"
      /\ b.link = link
  BY DEF Block
<1>4. b \in Blocks
  BY <1>2 DEF Block, Blocks, Headers
<1>5. /\ links' = [links EXCEPT ![<<a, h>>] = link] /\ up' = up
      /\ Arrives(b, D) /\ D \in SUBSET Handles /\ links[<<a, h>>] = None
  BY <1>1 DEF Connect
<1>6. links \in [Adapters \X Handles -> Links]
  BY DEF HciInv, Types
<1> HIDE DEF link, b, D
<1>7. /\ links' \in [Adapters \X Handles -> Links]
      /\ links'[<<a, h>>] = link
      /\ \A o \in Adapters \ {a} : links'[<<o, h>>] = links[<<o, h>>]
      /\ \A o \in Adapters, k \in Handles \ {h} : links'[<<o, k>>] = links[<<o, k>>]
  BY <1>2, <1>5, <1>6
<1>8. "Connection_Complete" \in Texts(b.header) /\ b.status = "fine"
              => /\ b.names # NoDevice
                 /\ \E o \in Adapters : /\ links'[<<o, b.handle>>] # None
                                        /\ Leads(links'[<<o, b.handle>>]) = b.names
  <2>1. header # "LE_Meta_Event" => Leads(link) = d
    BY <1>2
  <2>2. "Connection_Complete" \in Texts(b.header) => header # "LE_Meta_Event"
    BY <1>3, HeaderTexts DEF Headers
  <2>3. QED BY <2>1, <2>2, <1>2, <1>3, <1>7
<1>9. ASSUME b.handle \notin D, Single(b.handle), Stands(b.handle)
      PROVE  /\ \A m, o \in Adapters :
                      links'[<<m, b.handle>>] # None /\ links'[<<o, b.handle>>] # None => m = o
             /\ \A o \in Adapters : links'[<<o, b.handle>>] # None
                                           => After(b) = Leads(links'[<<o, b.handle>>])
             /\ (\A o \in Adapters : links'[<<o, b.handle>>] = None) => After(b) = NoDevice
             /\ b.names = NoDevice => Ahead[b.handle] = Leads(b.link)
  <2>1. \A o \in Adapters : links[<<o, h>>] = None
    BY <1>3, <1>5, <1>9 DEF D, Shared
  <2>2. Ahead[h] = NoDevice
    BY <2>1, <1>3, <1>9 DEF Stands
  <2>3. After(b) = Leads(link)
    BY <2>2, <1>2, <1>3, HeaderTexts DEF After, Headers
  <2>4. QED BY <2>1, <2>3, <1>2, <1>3, <1>7
<1>10. \A o \in Adapters, k \in Handles \ {b.handle} : links'[<<o, k>>] = links[<<o, k>>]
  BY <1>3, <1>7, Zenon
<1>11. QED BY <1>4, <1>5, <1>7, <1>8, <1>9, <1>10, BlockKeeps

LEMMA FailureKeeps ==
    ASSUME HciInv, NEW a \in Adapters, NEW h \in Handles, NEW d \in Peers,
           ConnectFails(a, h, d)
    PROVE  HciInv'
<1> DEFINE b == [Block(a, h, "Connection_Complete", d) EXCEPT !.status = "failed"]
<1>1. links \in [Adapters \X Handles -> Links]
  BY DEF HciInv, Types
<1>2. links[<<a, h>>] \in Links
  BY <1>1
<1>3. b \in Blocks /\ b.handle = h /\ b.status = "failed"
  BY <1>2 DEF Block, Blocks, Headers
<1>4. Arrives(b, {h}) /\ UNCHANGED <<links, up>> /\ {h} \in SUBSET Handles
  BY DEF ConnectFails
<1> HIDE DEF b
<1>5. b.handle \in {h} /\ b.status # "fine"
  BY <1>3
<1>6. QED BY <1>1, <1>3, <1>4, <1>5, BlockKeeps

LEMMA DisconnectKeeps ==
    ASSUME HciInv, NEW a \in Adapters, NEW h \in Handles, Disconnect(a, h)
    PROVE  HciInv'
<1>1. links \in [Adapters \X Handles -> Links]
  BY DEF HciInv, Types
<1>2. links[<<a, h>>] \in Links /\ links[<<a, h>>] # None
  BY <1>1 DEF Disconnect
<1>3. CASE /\ links' = [links EXCEPT ![<<a, h>>] = None]
           /\ Arrives(Block(a, h, "Disconnection_Complete", NoDevice), {})
  <2> DEFINE b == Block(a, h, "Disconnection_Complete", NoDevice)
  <2>1. /\ b \in Blocks /\ b.handle = h /\ b.header = "Disconnection_Complete"
        /\ b.names = NoDevice /\ b.link = links[<<a, h>>]
    BY <1>2 DEF Block, Blocks, Headers
  <2>2. /\ Arrives(b, {}) /\ up' = up /\ {} \in SUBSET Handles
        /\ links' = [links EXCEPT ![<<a, h>>] = None]
    BY <1>3 DEF Disconnect
  <2> HIDE DEF b
  <2>3. /\ links' \in [Adapters \X Handles -> Links]
        /\ links'[<<a, h>>] = None
        /\ \A o \in Adapters \ {a} : links'[<<o, h>>] = links[<<o, h>>]
        /\ \A o \in Adapters, k \in Handles \ {h} : links'[<<o, k>>] = links[<<o, k>>]
    BY <1>1, <2>2, LinkTypes
  <2>4. ~("Connection_Complete" \in Texts(b.header))
    BY <2>1, HeaderTexts DEF Headers
  <2>5. After(b) = NoDevice
    BY <2>1 DEF After
  <2>6. ASSUME Single(b.handle), Stands(b.handle)
        PROVE  /\ \A o \in Adapters : links'[<<o, b.handle>>] = None
               /\ Ahead[b.handle] = Leads(b.link)
    BY <2>1, <2>3, <2>6, <1>2 DEF Single, Stands
  <2>7. \A o \in Adapters, k \in Handles \ {b.handle} : links'[<<o, k>>] = links[<<o, k>>]
    BY <2>1, <2>3, Zenon
  <2>8. QED BY <2>1, <2>2, <2>3, <2>4, <2>5, <2>6, <2>7, BlockKeeps
<1>4. CASE /\ UNCHANGED links
           /\ Arrives([Block(a, h, "Disconnection_Complete", NoDevice)
                         EXCEPT !.status = "failed"], {h})
  <2> DEFINE b == [Block(a, h, "Disconnection_Complete", NoDevice) EXCEPT !.status = "failed"]
  <2>1. b \in Blocks /\ b.handle = h /\ b.status = "failed"
    BY <1>2 DEF Block, Blocks, Headers
  <2>2. Arrives(b, {h}) /\ UNCHANGED <<links, up>> /\ {h} \in SUBSET Handles
    BY <1>4 DEF Disconnect
  <2> HIDE DEF b
  <2>3. b.handle \in {h} /\ b.status # "fine"
    BY <2>1
  <2>4. QED BY <1>1, <2>1, <2>2, <2>3, BlockKeeps
<1>5. QED BY <1>3, <1>4 DEF Disconnect

LEMMA TrafficKeeps ==
    ASSUME HciInv, NEW a \in Adapters, NEW h \in Handles, Traffic(a, h)
    PROVE  HciInv'
<1>1. links \in [Adapters \X Handles -> Links]
  BY DEF HciInv, Types
<1>2. links[<<a, h>>] \in Links /\ links[<<a, h>>] # None /\ UNCHANGED <<links, up>>
  BY <1>1 DEF Traffic
<1>3. PICK c \in Contents(links[<<a, h>>]) :
        Arrives([Block(a, h, c[1], NoDevice)
                   EXCEPT !.status = c[2], !.lines = c[3], !.rssi = c[4], !.key = c[5]], {})
  BY DEF Traffic
<1> DEFINE b == [Block(a, h, c[1], NoDevice)
                   EXCEPT !.status = c[2], !.lines = c[3], !.rssi = c[4], !.key = c[5]]
<1>4. /\ c[1] \in {"Authentication_Complete", "Encryption_Change", "Command_Complete",
                   "Read_RSSI", "LE_Meta_Event"}
      /\ c[2] \in {"fine", "failed"}
      /\ c[3] \in SUBSET {"status_number", "reason_number", "error_line"}
      /\ c[4] \in {"fine", "weak", "unusable"} /\ c[5] \in {"fine", "short", "tiny"}
  BY DEF Contents
<1>5. /\ b \in Blocks /\ b.handle = h /\ b.header = c[1]
      /\ b.names = NoDevice /\ b.link = links[<<a, h>>]
  BY <1>2, <1>4 DEF Block, Blocks, Headers
<1>6. Arrives(b, {}) /\ {} \in SUBSET Handles
  BY <1>3
<1> HIDE DEF b
<1>7. "Connection_Complete" \notin Texts(b.header) /\ b.header # "Disconnection_Complete"
  BY <1>4, <1>5, HeaderTexts DEF Headers
<1>8. After(b) = Ahead[h]
  BY <1>5, <1>7 DEF After
<1>9. ASSUME Single(b.handle), Stands(b.handle)
      PROVE  /\ \A m, o \in Adapters :
                      links'[<<m, b.handle>>] # None /\ links'[<<o, b.handle>>] # None => m = o
             /\ \A o \in Adapters : links'[<<o, b.handle>>] # None
                                           => After(b) = Leads(links'[<<o, b.handle>>])
             /\ (\A o \in Adapters : links'[<<o, b.handle>>] = None) => After(b) = NoDevice
             /\ Ahead[b.handle] = Leads(b.link)
  BY <1>2, <1>5, <1>8, <1>9 DEF Single, Stands
<1>10. QED BY <1>1, <1>2, <1>5, <1>6, <1>7, <1>9, BlockKeeps

-----------------------------------------------------------------------------
\* btmon comes and goes.
LEMMA StartKeeps ==
    ASSUME HciInv, Start
    PROVE  HciInv'
<1>1. Types /\ HandInv /\ SureInv /\ LastInv
  BY DEF HciInv
<1>2. Ahead' = Ahead
  BY DEF Start, Ahead, Remembered
<1>3. Types' /\ HandInv' /\ LastInv'
  BY <1>1 DEF Start, Types, HandInv, LastInv
<1>4. SureInv'
  BY <1>1, <1>2 DEF Start, SureInv, Single, Stands
<1>5. QED BY <1>3, <1>4 DEF HciInv

LEMMA StopKeeps ==
    ASSUME HciInv, Stop
    PROVE  HciInv'
<1>1. Types /\ HandInv /\ SureInv /\ LastInv
  BY DEF HciInv
<1>2. /\ held' = {} /\ unclear' = unclear \cup {b.handle : b \in held} /\ up' = FALSE
      /\ UNCHANGED <<links, handleAddr, last>>
  BY DEF Stop
<1>3. unclear' \subseteq Handles
  BY <1>1, <1>2 DEF Types, Blocks
<1>4. Types' /\ HandInv' /\ LastInv'
  BY <1>1, <1>2, <1>3 DEF Types, HandInv, LastInv
<1>5. Ahead' = handleAddr
  BY <1>2 DEF Ahead
<1>6. ASSUME NEW h \in Handles \ unclear'
      PROVE  Ahead'[h] = Ahead[h]
  <2>1. CASE held = {}
    BY <2>1, <1>5, AheadIs
  <2>2. ASSUME NEW b \in Blocks, held = {b}
        PROVE  Ahead[h] = handleAddr[h]
    <3>1. h # b.handle
      BY <2>2, <1>2
    <3>2. Ahead = Remembered(b)
      BY <2>2, AheadIs
    <3>3. QED BY <3>1, <3>2, <1>1, RememberedIs DEF Types
  <2>3. QED BY <2>1, <2>2, <1>1, <1>5 DEF Types
<1>7. SureInv'
  BY <1>1, <1>2, <1>6 DEF SureInv, Single, Stands
<1>8. QED BY <1>4, <1>7 DEF HciInv

LEMMA ExitKeeps ==
    ASSUME HciInv, BtmonExits
    PROVE  HciInv'
<1>1. Types /\ HandInv /\ SureInv /\ LastInv
  BY DEF HciInv
<1>2. /\ held' = {} /\ unclear' = unclear \ UNION {Settled(b) : b \in held} /\ up' = FALSE
      /\ held # {} /\ links' = links /\ \A b \in held : EmitEvent(b)
  BY DEF BtmonExits
<1>3. LastInv' /\ handleAddr' = Ahead
  BY <1>1, <1>2, EmitIsRight
<1>4. Ahead' = Ahead
  BY <1>2, <1>3 DEF Ahead
<1>5. Types' /\ HandInv'
  BY <1>1, <1>2, <1>3, AheadType DEF Types, HandInv
<1>6. \A h \in Handles \ unclear' : Single(h) /\ Stands(h)
  BY <1>2, SureSoon
<1>7. SureInv'
  BY <1>2, <1>4, <1>6 DEF SureInv, Single, Stands
<1>8. QED BY <1>3, <1>5, <1>7 DEF HciInv

LEMMA HciInvInit == HciInit => HciInv
<1> SUFFICES ASSUME HciInit PROVE HciInv
  OBVIOUS
<1>1. Types
  BY LinkTypes DEF HciInit, Types
<1>2. HandInv /\ LastInv
  BY DEF HciInit, HandInv, LastInv
<1>3. \A a \in Adapters, h \in Handles : links[<<a, h>>] = None
  BY DEF HciInit
<1>4. \A h \in Handles : Ahead[h] = NoDevice
  BY DEF HciInit, Ahead
<1>5. SureInv
  BY <1>3, <1>4 DEF SureInv, Single, Stands
<1>6. QED BY <1>1, <1>2, <1>5 DEF HciInv

LEMMA HciInvStep == HciInv /\ [HciNext]_hciVars => HciInv'
<1> SUFFICES ASSUME HciInv, [HciNext]_hciVars PROVE HciInv'
  OBVIOUS
<1>1. ASSUME NEW a \in Adapters, NEW h \in Handles,
             \/ \E d \in Peers : Connect(a, h, d) \/ ConnectFails(a, h, d)
             \/ Disconnect(a, h) \/ Traffic(a, h)
      PROVE  HciInv'
  BY <1>1, ConnectKeeps, FailureKeeps, DisconnectKeeps, TrafficKeeps
<1>2. CASE UNCHANGED hciVars
  <2>1. UNCHANGED <<links, handleAddr, up, held, last, unclear>>
    BY <1>2 DEF hciVars
  <2>2. Ahead' = Ahead
    BY <2>1 DEF Ahead, Remembered
  <2>3. Types' /\ HandInv' /\ LastInv'
    BY <2>1 DEF HciInv, Types, HandInv, LastInv
  <2>4. SureInv'
    BY <2>1, <2>2 DEF HciInv, SureInv, Single, Stands
  <2>5. QED BY <2>3, <2>4 DEF HciInv
<1>3. QED BY <1>1, <1>2, StartKeeps, StopKeeps, ExitKeeps DEF HciNext

LEMMA HciInvAlways == HciSpec => []HciInv
BY HciInvInit, HciInvStep, PTL DEF HciSpec

LEMMA HciInvImplies ==
    ASSUME HciInv
    PROVE  AttributionIsExact /\ EndsAreNotBeginnings /\ SeverityIsWorst
<1>1. Types /\ LastInv
  BY DEF HciInv
<1>2. TypeOK
  <2>1. Cardinality({}) = 0
    BY FS_EmptySet
  <2>2. ASSUME NEW S, S = {} \/ \E x : S = {x}
        PROVE  Cardinality(S) <= 1
    <3>1. CASE S = {}
      BY <3>1, <2>1
    <3>2. ASSUME NEW x, S = {x}
          PROVE  Cardinality(S) = 1
      BY <3>2, FS_Singleton
    <3>3. QED BY <3>1, <3>2, <2>2
  <2>3. held = {} \/ \E x : held = {x}
    BY <1>1 DEF Types
  <2>4. last = {} \/ \E x : last = {x}
    BY <1>1 DEF LastInv
  <2>5. Cardinality(held) <= 1 /\ Cardinality(last) <= 1
    BY <2>2, <2>3, <2>4
  <2>6. \A e \in last : e.type \in EventTypes /\ e.device \in Peers \cup {NoDevice}
    BY <1>1, TypeIsListed DEF LastInv
  <2>7. QED BY <1>1, <2>5, <2>6 DEF Types, TypeOK
<1>3. AttributionIsExact
  BY <1>1, <1>2 DEF LastInv, AttributionIsExact, Leads
<1>4. QED BY <1>1, <1>3, LastIsRight

\* However many controllers share the handles, whatever comes while the collector is
\* down and whatever fails: an event whose handle is not in doubt is attributed to the
\* device that was at the other end when its block was sent (hci.py, _emit_event).
THEOREM AttributionsAreExact == HciSpec => []AttributionIsExact
<1>1. HciInv => AttributionIsExact
  BY HciInvImplies
<1>2. QED BY <1>1, HciInvAlways, PTL

\* The first test that a header passes is the right one, for every header: the end of
\* a connection is not published as its beginning (hci.py, _event_type).
THEOREM EndsAreTold == HciSpec => []EndsAreNotBeginnings
<1>1. HciInv => EndsAreNotBeginnings
  BY HciInvImplies
<1>2. QED BY <1>1, HciInvAlways, PTL

\* The published severity is the worst that anything in the block calls for
\* (hci.py, _emit_event).
THEOREM SeverityIsMaximal == HciSpec => []SeverityIsWorst
<1>1. HciInv => SeverityIsWorst
  BY HciInvImplies
<1>2. QED BY <1>1, HciInvAlways, PTL

-----------------------------------------------------------------------------
\* The watchers of the kernel's files.

Reading == [Things -> States \cup {Absent, Unread}]
WatchTypes ==
    /\ which \in Kinds /\ poller \in {"stopped", "first", "sleeping"}
    /\ class \in BOOLEAN /\ (~class => Listed(world) = {})
    /\ world \in [Things -> States \cup {Absent}]
    /\ names \in SUBSET SUBSET Things
    /\ prev \in Reading
    /\ view \in [Things -> IF which = "rfkill" THEN States
                           ELSE States \cup {Absent, Unread}]
    /\ unsure \in SUBSET Things /\ odd \in BOOLEAN

\* What the events have told of t, by what was read of it.  A USB adapter is never
\* forgotten; of a module that is in doubt they still say whether it is there.
Known(t) ==
    /\ which = "adapters" => view[t] = prev[t]
    /\ which = "rfkill" => t \in unsure \/ view[t] = Switch(prev[t])
    /\ which = "usb" => view[t] = prev[t] \/ prev[t] \in {Absent, Unread}
    /\ which = "mgmt" => view[t] = prev[t] \/ prev[t] = Unread
    /\ which = "modules" => /\ view[t] = Absent <=> prev[t] = Absent
                            /\ prev[t] = Unread => t \in unsure
                            /\ t \in unsure \/ view[t] = prev[t]

WatchInv ==
    /\ WatchTypes
    /\ \A t \in Things : Known(t)
    /\ which \in {"adapters", "modules"} => ~odd

\* Absent, Unread and the two states are four things.
LEMMA StatesApart == Absent \notin States /\ Unread \notin States /\ Absent # Unread
                     /\ "0" \in States /\ "1" \in States /\ "0" # "1"
BY WatchersAssumption DEF States

\* After a poll the events have told of a thing what its event says, if it has one.
LEMMA PublishedIs ==
    ASSUME NEW told, NEW f, \A e \in told : e.thing \in Things /\ e.state = f[e.thing],
           PublishAll(told)
    PROVE  \A t \in Things :
              view'[t] = IF \E e \in told : e.thing = t THEN f[t] ELSE view[t]
<1> SUFFICES ASSUME NEW t \in Things
             PROVE  view'[t] = IF \E e \in told : e.thing = t THEN f[t] ELSE view[t]
  OBVIOUS
<1>1. view'[t] = IF \E e \in told : e.thing = t
                 THEN (CHOOSE e \in told : e.thing = t).state ELSE view[t]
  BY DEF PublishAll
<1>2. CASE \E e \in told : e.thing = t
  <2> DEFINE e == CHOOSE e \in told : e.thing = t
  <2>1. e \in told /\ e.thing = t
    BY <1>2
  <2>2. view'[t] = e.state
    BY <1>1, <1>2
  <2> HIDE DEF e
  <2>3. QED BY <2>1, <2>2, <1>2
<1>3. CASE ~ \E e \in told : e.thing = t
  BY <1>1, <1>3
<1>4. QED BY <1>2, <1>3

\* What has come, gone and changed.
LEMMA ComparedIs ==
    ASSUME NEW read
    PROVE  /\ \A e \in Added(read) : /\ e.thing \in Things /\ e.what = "added"
                                     /\ e.state = read[e.thing]
                                     /\ read[e.thing] # Absent /\ prev[e.thing] = Absent
           /\ \A e \in Removed(read) : /\ e.thing \in Things /\ e.what = "removed"
                                       /\ e.state = Absent
                                       /\ read[e.thing] = Absent /\ prev[e.thing] # Absent
           /\ \A e \in Changed(read) : /\ e.thing \in Things /\ e.what = "changed"
                                       /\ e.state = read[e.thing]
                                       /\ read[e.thing] # Absent /\ prev[e.thing] # Absent
                                       /\ read[e.thing] # prev[e.thing]
           /\ \A t \in Things : /\ read[t] # Absent /\ prev[t] = Absent =>
                                      \E e \in Added(read) : e.thing = t
                                /\ read[t] = Absent /\ prev[t] # Absent =>
                                      \E e \in Removed(read) : e.thing = t
                                /\ read[t] # Absent /\ prev[t] # Absent /\ read[t] # prev[t] =>
                                      \E e \in Changed(read) : e.thing = t
<1>1. \A t, w, s : Told(t, w, s).thing = t /\ Told(t, w, s).what = w /\ Told(t, w, s).state = s
  BY DEF Told
<1>2. \A e \in Added(read) : /\ e.thing \in Things /\ e.what = "added"
                             /\ e.state = read[e.thing]
                             /\ read[e.thing] # Absent /\ prev[e.thing] = Absent
  BY <1>1 DEF Added, Listed
<1>3. \A e \in Removed(read) : /\ e.thing \in Things /\ e.what = "removed"
                               /\ e.state = Absent
                               /\ read[e.thing] = Absent /\ prev[e.thing] # Absent
  BY <1>1 DEF Removed, Listed
<1>4. \A e \in Changed(read) : /\ e.thing \in Things /\ e.what = "changed"
                               /\ e.state = read[e.thing]
                               /\ read[e.thing] # Absent /\ prev[e.thing] # Absent
                               /\ read[e.thing] # prev[e.thing]
  BY <1>1 DEF Changed, Listed
<1>5. ASSUME NEW t \in Things, read[t] # Absent, prev[t] = Absent
      PROVE  \E e \in Added(read) : e.thing = t
  <2>1. Told(t, "added", read[t]) \in Added(read)
    BY <1>5 DEF Added, Listed
  <2>2. QED BY <2>1, <1>1
<1>6. ASSUME NEW t \in Things, read[t] = Absent, prev[t] # Absent
      PROVE  \E e \in Removed(read) : e.thing = t
  <2>1. Told(t, "removed", Absent) \in Removed(read)
    BY <1>6 DEF Removed, Listed
  <2>2. QED BY <2>1, <1>1
<1>7. ASSUME NEW t \in Things, read[t] # Absent, prev[t] # Absent, read[t] # prev[t]
      PROVE  \E e \in Changed(read) : e.thing = t
  <2>1. Told(t, "changed", read[t]) \in Changed(read)
    BY <1>7 DEF Changed, Listed
  <2>2. QED BY <2>1, <1>1
<1>8. QED BY <1>2, <1>3, <1>4, <1>5, <1>6, <1>7

\* What every poll does with its result.
Compares(p) ==
    /\ PublishAll(p.told) /\ prev' = p.kept
    /\ unsure' = (unsure \ {e.thing : e \in p.told}) \cup p.doubtful
    /\ which' = which

LEMMA AdaptersKnown ==
    ASSUME WatchInv, which = "adapters", NEW read \in Reading, Compares(PollAdapters(read))
    PROVE  ~odd' /\ prev' = read /\ \A t \in Things : view'[t] = read[t]
<1> DEFINE told == Added(read) \cup Removed(read) \cup Changed(read)
<1>1. PublishAll(told) /\ prev' = read
  BY DEF Compares, PollAdapters
<1>2. \A e \in told : e.thing \in Things /\ e.state = read[e.thing]
  BY ComparedIs
<1>3. \A t \in Things : view'[t] = IF \E e \in told : e.thing = t THEN read[t] ELSE view[t]
  <2> HIDE DEF told
  <2>1. QED BY <1>1, <1>2, PublishedIs
<1>4. ~odd /\ \A t \in Things : view[t] = prev[t]
  BY DEF WatchInv, Known
<1>5. \A t \in Things : (\E e \in told : e.thing = t) \/ read[t] = prev[t]
  BY ComparedIs
<1>6. ~odd'
  <2>1. \A e \in told : e.what = "added" => prev[e.thing] = Absent
    BY ComparedIs
  <2>2. \A e \in told : e.what = "removed" => prev[e.thing] # Absent
    BY ComparedIs
  <2>3. odd' = (odd \/ \E e \in told : \/ e.what = "added" /\ view[e.thing] # Absent
                                       \/ e.what = "removed" /\ view[e.thing] = Absent)
    BY <1>1 DEF PublishAll
  <2> HIDE DEF told
  <2>4. QED BY <2>1, <2>2, <2>3, <1>2, <1>4
<1>7. QED BY <1>1, <1>3, <1>4, <1>5, <1>6

LEMMA RfkillKnown ==
    ASSUME WatchInv, which = "rfkill", NEW read \in Reading, Compares(PollRfkill(read))
    PROVE  /\ prev' = read
           /\ \A t \in Things : /\ view'[t] \in States
                                /\ t \in unsure' \/ view'[t] = Switch(read[t])
<1> DEFINE base == {k \in Added(read) : k.state = "1"} \cup Changed(read)
           told == {Told(e.thing, e.what, Switch(e.state)) : e \in base}
           f == [t \in Things |-> Switch(read[t])]
<1>1. /\ PublishAll(told) /\ prev' = read
      /\ unsure' = (unsure \ {e.thing : e \in told})
                   \cup {t \in Listed(prev) \ Listed(read) : view[t] = "1"}
  BY DEF Compares, PollRfkill
<1>2. \A e \in base : e.thing \in Things /\ e.state = read[e.thing]
  BY ComparedIs
<1> HIDE DEF base
<1>3. /\ \A e \in told : e.thing \in Things /\ e.state = f[e.thing]
      /\ \A e \in told : \E k \in base : k.thing = e.thing
      /\ \A k \in base : \E e \in told : e.thing = k.thing
  <2>1. ASSUME NEW e \in told
        PROVE  /\ e.thing \in Things /\ e.state = f[e.thing]
               /\ \E k \in base : k.thing = e.thing
    <3>1. PICK k \in base : e = Told(k.thing, e.what, Switch(k.state))
      BY DEF Told
    <3>2. e.thing = k.thing /\ e.state = Switch(k.state)
      BY <3>1 DEF Told
    <3>3. QED BY <3>2, <1>2
  <2>2. ASSUME NEW k \in base  PROVE \E e \in told : e.thing = k.thing
    <3>1. Told(k.thing, k.what, Switch(k.state)) \in told
      OBVIOUS
    <3>2. QED BY <3>1 DEF Told
  <2>3. QED BY <2>1, <2>2
<1> HIDE DEF told
<1>4. \A t \in Things : view'[t] = IF \E e \in told : e.thing = t THEN Switch(read[t]) ELSE view[t]
  <2>1. \A t \in Things : view'[t] = IF \E e \in told : e.thing = t THEN f[t] ELSE view[t]
    <3> HIDE DEF f
    <3>1. PublishAll(told) /\ \A e \in told : e.thing \in Things /\ e.state = f[e.thing]
      BY <1>1, <1>3
    <3>2. QED BY ONLY <3>1, PublishedIs
  <2>2. QED BY <2>1
<1>5. \A t \in Things : view[t] \in States /\ (t \in unsure \/ view[t] = Switch(prev[t]))
  BY DEF WatchInv, WatchTypes, Known
<1>6. \A s : Switch(s) \in States /\ (s # "1" => Switch(s) = "0") /\ Switch("1") = "1"
  BY DEF Switch, States
<1>7. \A t \in Things : ~(\E e \in told : e.thing = t) =>
         \/ read[t] = prev[t]
         \/ prev[t] = Absent /\ read[t] # "1"
         \/ read[t] = Absent /\ prev[t] # Absent
  <2> SUFFICES ASSUME NEW t \in Things, ~(\E e \in told : e.thing = t)
               PROVE  \/ read[t] = prev[t]
                      \/ prev[t] = Absent /\ read[t] # "1"
                      \/ read[t] = Absent /\ prev[t] # Absent
    OBVIOUS
  <2>1. ~ \E k \in base : k.thing = t
    BY <1>3
  <2>2. ASSUME prev[t] = Absent, read[t] = "1"  PROVE FALSE
    <3>1. PICK k \in Added(read) : k.thing = t
      BY <2>2, StatesApart, ComparedIs
    <3>2. k.state = "1"
      BY <3>1, <2>2, ComparedIs
    <3>3. QED BY <2>1, <3>1, <3>2 DEF base
  <2>3. ASSUME prev[t] # Absent, read[t] # Absent, read[t] # prev[t]  PROVE FALSE
    <3>1. PICK k \in Changed(read) : k.thing = t
      BY <2>3, ComparedIs
    <3>2. QED BY <2>1, <3>1 DEF base
  <2>4. QED BY <2>2, <2>3
<1>8. ASSUME NEW t \in Things
      PROVE  view'[t] \in States /\ (t \in unsure' \/ view'[t] = Switch(read[t]))
  <2>1. CASE \E e \in told : e.thing = t
    BY <2>1, <1>4, <1>6
  <2>2. CASE ~ \E e \in told : e.thing = t
    <3>1. view'[t] = view[t] /\ view'[t] \in States
      BY <2>2, <1>4, <1>5
    <3>2. t \in unsure => t \in unsure'
      BY <2>2, <1>1
    <3>3. CASE read[t] = prev[t]
      BY <3>1, <3>2, <3>3, <1>5
    <3>4. CASE prev[t] = Absent /\ read[t] # "1"
      <4>1. Switch(prev[t]) = "0" /\ Switch(read[t]) = "0"
        BY <3>4, <1>6, StatesApart
      <4>2. QED BY <4>1, <3>1, <3>2, <1>5
    <3>5. CASE read[t] = Absent /\ prev[t] # Absent
      <4>1. Switch(read[t]) = "0"
        BY <3>5, <1>6, StatesApart
      <4>2. view[t] = "1" => t \in unsure'
        BY <3>5, <1>1 DEF Listed
      <4>3. view[t] = "1" \/ view[t] = "0"
        BY <1>5 DEF States
      <4>4. QED BY <4>1, <4>2, <4>3, <3>1
    <3>6. QED BY <3>3, <3>4, <3>5, <2>2, <1>7
  <2>3. QED BY <2>1, <2>2
<1>9. QED BY <1>1, <1>8

LEMMA UsbKnown ==
    ASSUME WatchInv, which = "usb", NEW read \in Reading, Compares(PollUsb(read))
    PROVE  \A t \in Things :
              /\ view'[t] \in {view[t], read[t]}
              /\ prev'[t] = IF read[t] = Absent THEN prev[t] ELSE read[t]
              /\ view'[t] = prev'[t] \/ prev'[t] \in {Absent, Unread}
<1> DEFINE told == Added(read) \cup {e \in Changed(read) : e.state # Unread}
<1>1. /\ PublishAll(told)
      /\ \A t \in Things : prev'[t] = IF read[t] = Absent THEN prev[t] ELSE read[t]
  BY DEF Compares, PollUsb
<1>2. \A e \in told : e.thing \in Things /\ e.state = read[e.thing] /\ read[e.thing] # Absent
  BY ComparedIs
<1>3. \A t \in Things : view'[t] = IF \E e \in told : e.thing = t THEN read[t] ELSE view[t]
  <2> HIDE DEF told
  <2>1. QED BY <1>1, <1>2, PublishedIs
<1>4. \A t \in Things : view[t] = prev[t] \/ prev[t] \in {Absent, Unread}
  BY DEF WatchInv, Known
<1>5. ASSUME NEW t \in Things, ~ \E e \in told : e.thing = t
      PROVE  read[t] = prev[t] \/ read[t] \in {Absent, Unread}
  <2>1. ASSUME read[t] # Absent, prev[t] = Absent  PROVE FALSE
    BY <2>1, <1>5, ComparedIs
  <2>2. ASSUME read[t] # Absent, prev[t] # Absent, read[t] # prev[t], read[t] # Unread
        PROVE  FALSE
    <3>1. PICK e \in Changed(read) : e.thing = t
      BY <2>2, ComparedIs
    <3>2. e.state # Unread
      BY <3>1, <2>2, ComparedIs
    <3>3. QED BY <3>1, <3>2, <1>5
  <2>3. QED BY <2>1, <2>2
<1>6. \A t \in Things : (\E e \in told : e.thing = t) => read[t] # Absent
  BY <1>2
<1> HIDE DEF told
<1>7. QED BY <1>1, <1>3, <1>4, <1>5, <1>6

LEMMA MgmtKnown ==
    ASSUME WatchInv, which = "mgmt", NEW read \in Reading, Compares(PollMgmt(read))
    PROVE  /\ prev' = read
           /\ \A t \in Things : /\ view'[t] \in {view[t], read[t]}
                                /\ view'[t] = read[t] \/ read[t] = Unread
<1> DEFINE dumped == {Told(t, "dumped", read[t]) : t \in Listed(read)}
           fresh == {Told(t, "added", read[t]) :
                        t \in {k \in Listed(read) : prev[k] \in {Absent, Unread}
                                                    /\ read[k] # Unread}}
           other == {e \in Changed(read) : prev[e.thing] # Unread /\ e.state # Unread}
           told == (IF poller = "first" THEN dumped ELSE fresh \cup other) \cup Removed(read)
<1>1. PublishAll(told) /\ prev' = read
  BY DEF Compares, PollMgmt
<1>2. /\ \A e \in dumped : e.thing \in Things /\ e.state = read[e.thing]
      /\ \A t \in Things : read[t] # Absent => \E e \in dumped : e.thing = t
  <2>1. ASSUME NEW t \in Things, read[t] # Absent  PROVE \E e \in dumped : e.thing = t
    <3>1. Told(t, "dumped", read[t]) \in dumped
      BY <2>1 DEF Listed
    <3>2. QED BY <3>1 DEF Told
  <2>2. \A e \in dumped : e.thing \in Things /\ e.state = read[e.thing]
    BY DEF Told, Listed
  <2>3. QED BY <2>1, <2>2
<1>3. /\ \A e \in fresh : e.thing \in Things /\ e.state = read[e.thing]
      /\ \A t \in Things : read[t] # Absent /\ prev[t] \in {Absent, Unread} /\ read[t] # Unread
                              => \E e \in fresh : e.thing = t
  <2>1. ASSUME NEW t \in Things, read[t] # Absent, prev[t] \in {Absent, Unread},
               read[t] # Unread
        PROVE  \E e \in fresh : e.thing = t
    <3>1. Told(t, "added", read[t]) \in fresh
      BY <2>1 DEF Listed
    <3>2. QED BY <3>1 DEF Told
  <2>2. \A e \in fresh : e.thing \in Things /\ e.state = read[e.thing]
    BY DEF Told, Listed
  <2>3. QED BY <2>1, <2>2
<1>4. /\ \A e \in other : e.thing \in Things /\ e.state = read[e.thing]
      /\ \A t \in Things : read[t] \notin {Absent, Unread} /\ prev[t] \notin {Absent, Unread}
                           /\ read[t] # prev[t] => \E e \in other : e.thing = t
  <2>1. \A e \in other : e.thing \in Things /\ e.state = read[e.thing]
    BY ComparedIs
  <2>2. ASSUME NEW t \in Things, read[t] # Absent, prev[t] # Absent, read[t] # prev[t],
               prev[t] # Unread, read[t] # Unread
        PROVE  \E e \in other : e.thing = t
    <3>1. PICK e \in Changed(read) : e.thing = t
      BY <2>2, ComparedIs
    <3>2. e.state # Unread
      BY <3>1, <2>2, ComparedIs
    <3>3. prev[e.thing] # Unread
      BY <3>1, <2>2
    <3>4. e \in other
      BY <3>2, <3>3
    <3>5. QED BY <3>1, <3>4
  <2>3. QED BY <2>1, <2>2
<1>5. /\ \A e \in Removed(read) : e.thing \in Things /\ e.state = read[e.thing]
      /\ \A t \in Things : read[t] = Absent /\ prev[t] # Absent
                              => \E e \in Removed(read) : e.thing = t
  BY ComparedIs
<1> HIDE DEF dumped, fresh, other
<1>6. \A e \in told : e.thing \in Things /\ e.state = read[e.thing]
  BY <1>2, <1>3, <1>4, <1>5
<1>7. \A t \in Things : ~(\E e \in told : e.thing = t) => read[t] \in {prev[t], Unread}
  <2> SUFFICES ASSUME NEW t \in Things, ~(\E e \in told : e.thing = t), read[t] # prev[t],
                      read[t] # Unread
               PROVE  FALSE
    OBVIOUS
  <2>1. CASE poller = "first"
    BY <2>1, <1>2, <1>5
  <2>2. CASE poller # "first"
    <3>1. CASE read[t] = Absent
      BY <3>1, <1>5
    <3>2. CASE read[t] # Absent /\ prev[t] \in {Absent, Unread}
      BY <3>2, <2>2, <1>3
    <3>3. CASE read[t] # Absent /\ prev[t] \notin {Absent, Unread}
      BY <3>3, <2>2, <1>4
    <3>4. QED BY <3>1, <3>2, <3>3
  <2>3. QED BY <2>1, <2>2
<1> HIDE DEF told
<1>8. \A t \in Things : view'[t] = IF \E e \in told : e.thing = t THEN read[t] ELSE view[t]
  BY <1>1, <1>6, PublishedIs
<1>9. \A t \in Things : view[t] = prev[t] \/ prev[t] = Unread
  BY DEF WatchInv, Known
<1>10. QED BY <1>1, <1>7, <1>8, <1>9

LEMMA ModulesKnown ==
    ASSUME WatchInv, which = "modules", NEW read \in Reading, Compares(PollModules(read))
    PROVE  /\ prev' = read /\ ~odd'
           /\ \A t \in Things : /\ view'[t] \in {view[t], read[t]}
                                /\ view'[t] = Absent <=> read[t] = Absent
                                /\ read[t] = Unread => t \in unsure'
                                /\ t \in unsure' \/ view'[t] = read[t]
<1> DEFINE dumped == {Told(t, "dumped", read[t]) : t \in Things}
           other == {e \in Changed(read) : prev[e.thing] # Unread /\ e.state # Unread}
           told == IF poller = "first" THEN dumped
                   ELSE Added(read) \cup Removed(read) \cup other
<1>1. /\ PublishAll(told) /\ prev' = read
      /\ unsure' = (unsure \ {e.thing : e \in told}) \cup {t \in Things : read[t] = Unread}
  BY DEF Compares, PollModules
<1>2. /\ \A e \in dumped : e.thing \in Things /\ e.state = read[e.thing] /\ e.what = "dumped"
      /\ \A t \in Things : \E e \in dumped : e.thing = t
  <2>1. ASSUME NEW t \in Things  PROVE \E e \in dumped : e.thing = t
    <3>1. Told(t, "dumped", read[t]) \in dumped
      OBVIOUS
    <3>2. QED BY <3>1 DEF Told
  <2>2. \A e \in dumped : e.thing \in Things /\ e.state = read[e.thing] /\ e.what = "dumped"
    BY DEF Told
  <2>3. QED BY <2>1, <2>2
<1>3. /\ \A e \in other : e.thing \in Things /\ e.state = read[e.thing] /\ e.what = "changed"
      /\ \A t \in Things : read[t] \notin {Absent, Unread} /\ prev[t] \notin {Absent, Unread}
                           /\ read[t] # prev[t] => \E e \in other : e.thing = t
  <2>1. \A e \in other : e.thing \in Things /\ e.state = read[e.thing] /\ e.what = "changed"
    BY ComparedIs
  <2>2. ASSUME NEW t \in Things, read[t] # Absent, prev[t] # Absent, read[t] # prev[t],
               prev[t] # Unread, read[t] # Unread
        PROVE  \E e \in other : e.thing = t
    <3>1. PICK e \in Changed(read) : e.thing = t
      BY <2>2, ComparedIs
    <3>2. e.state # Unread
      BY <3>1, <2>2, ComparedIs
    <3>3. prev[e.thing] # Unread
      BY <3>1, <2>2
    <3>4. e \in other
      BY <3>2, <3>3
    <3>5. QED BY <3>1, <3>4
  <2>3. QED BY <2>1, <2>2
<1> HIDE DEF dumped, other
<1>4. /\ \A e \in Removed(read) : /\ e.thing \in Things /\ e.state = read[e.thing]
                                  /\ e.what = "removed" /\ prev[e.thing] # Absent
      /\ \A e \in Added(read) : /\ e.thing \in Things /\ e.state = read[e.thing]
                                /\ e.what = "added" /\ prev[e.thing] = Absent
      /\ \A t \in Things : read[t] = Absent /\ prev[t] # Absent
                              => \E e \in Removed(read) : e.thing = t
      /\ \A t \in Things : read[t] # Absent /\ prev[t] = Absent
                              => \E e \in Added(read) : e.thing = t
  BY ComparedIs
<1>5. \A e \in told : /\ e.thing \in Things /\ e.state = read[e.thing]
                      /\ e.what = "added" => prev[e.thing] = Absent
                      /\ e.what = "removed" => prev[e.thing] # Absent
  BY <1>2, <1>3, <1>4
<1>6. \A t \in Things : ~(\E e \in told : e.thing = t) =>
         \/ read[t] = prev[t]
         \/ read[t] # Absent /\ prev[t] # Absent /\ (prev[t] = Unread \/ read[t] = Unread)
  <2> SUFFICES ASSUME NEW t \in Things, ~(\E e \in told : e.thing = t), read[t] # prev[t]
               PROVE  read[t] # Absent /\ prev[t] # Absent /\ (prev[t] = Unread \/ read[t] = Unread)
    OBVIOUS
  <2>1. poller # "first"
    BY <1>2
  <2>2. read[t] # Absent /\ prev[t] # Absent
    BY <2>1, <1>4
  <2>3. QED BY <2>1, <2>2, <1>3
<1> HIDE DEF told
<1>7. \A t \in Things : view'[t] = IF \E e \in told : e.thing = t THEN read[t] ELSE view[t]
  <2>1. PublishAll(told) /\ \A e \in told : e.thing \in Things /\ e.state = read[e.thing]
    BY <1>1, <1>5
  <2>2. QED BY ONLY <2>1, PublishedIs
<1>8. /\ ~odd
      /\ \A t \in Things : /\ view[t] = Absent <=> prev[t] = Absent
                           /\ prev[t] = Unread => t \in unsure
                           /\ t \in unsure \/ view[t] = prev[t]
  BY DEF WatchInv, Known
<1>9. ~odd'
  <2>1. odd' = (odd \/ \E e \in told : \/ e.what = "added" /\ view[e.thing] # Absent
                                       \/ e.what = "removed" /\ view[e.thing] = Absent)
    BY <1>1 DEF PublishAll
  <2>2. QED BY <2>1, <1>5, <1>8
<1>10. \A t \in Things : (read[t] = Unread => t \in unsure')
                         /\ (~(\E e \in told : e.thing = t) /\ t \in unsure => t \in unsure')
  BY <1>1
<1>11. QED BY <1>1, <1>6, <1>7, <1>8, <1>9, <1>10, StatesApart

\* What a poll leaves in doubt are things it knows.
LEMMA DoubtfulAreThings ==
    ASSUME WatchTypes, NEW read
    PROVE  Poll(read).doubtful \in SUBSET Things
<1>1. which \in {"adapters", "rfkill", "usb", "mgmt", "modules"}
  BY WatchersAssumption DEF WatchTypes, AllKinds
<1>2. /\ PollAdapters(read).doubtful \in SUBSET Things
      /\ PollRfkill(read).doubtful \in SUBSET Things
      /\ PollUsb(read).doubtful \in SUBSET Things
      /\ PollMgmt(read).doubtful \in SUBSET Things
      /\ PollModules(read).doubtful \in SUBSET Things
  BY DEF PollAdapters, PollRfkill, PollUsb, PollMgmt, PollModules, Listed
<1>3. \/ Poll(read) = PollAdapters(read)
      \/ Poll(read) = PollRfkill(read)
      \/ Poll(read) = PollUsb(read)
      \/ Poll(read) = PollMgmt(read)
      \/ Poll(read) = PollModules(read)
  BY <1>1 DEF Poll
<1>4. QED BY <1>2, <1>3

\* A poll, of whichever watcher, keeps what the events have told in step.
LEMMA PollKeepsWatch ==
    ASSUME WatchInv, NEW read \in Reading, Compares(Poll(read)), odd' \in BOOLEAN,
           poller' \in {"stopped", "first", "sleeping"}, names' \in SUBSET SUBSET Things,
           UNCHANGED worldVars
    PROVE  WatchInv'
<1> DEFINE Seen == IF which = "rfkill" THEN States ELSE States \cup {Absent, Unread}
<1>1. which \in {"adapters", "rfkill", "usb", "mgmt", "modules"} /\ which \in Kinds
  BY WatchersAssumption DEF WatchInv, WatchTypes, AllKinds
<1>2. /\ prev \in Reading /\ which' = which /\ world' = world /\ class' = class
      /\ view \in [Things -> Seen]
  BY DEF WatchInv, WatchTypes, Compares, worldVars
<1>3. \A t \in Things : read[t] \in States \cup {Absent, Unread}
  BY DEF Reading
<1>4. unsure' \in SUBSET Things
  <2>1. unsure \in SUBSET Things /\ Poll(read).doubtful \in SUBSET Things
    BY DoubtfulAreThings DEF WatchInv, WatchTypes
  <2>2. QED BY <2>1 DEF Compares
<1>5. ASSUME prev' \in Reading, \A t \in Things : Known(t)',
             \A t \in Things : view'[t] \in Seen,
             which \in {"adapters", "modules"} => ~odd'
      PROVE  WatchInv'
  <2>1. view' \in [Things -> Seen]
    <3>1. PublishAll(Poll(read).told)
      BY DEF Compares
    <3>2. view' = [t \in Things |-> view'[t]]
      BY <3>1 DEF PublishAll
    <3> HIDE DEF Seen
    <3>3. QED BY ONLY <3>2, <1>5
  <2>2. world' \in [Things -> States \cup {Absent}] /\ class' \in BOOLEAN
        /\ (~class' => Listed(world') = {})
    BY <1>2 DEF WatchInv, WatchTypes
  <2>3. WatchTypes'
    BY <2>1, <2>2, <1>1, <1>2, <1>4, <1>5 DEF WatchTypes
  <2>4. QED BY <2>3, <1>2, <1>5 DEF WatchInv
<1>6. CASE which = "adapters"
  <2>1. Poll(read) = PollAdapters(read)
    BY <1>6 DEF Poll
  <2>2. ~odd' /\ prev' = read /\ \A t \in Things : view'[t] = read[t]
    BY <2>1, <1>6, AdaptersKnown
  <2>3. \A t \in Things : Known(t)' /\ view'[t] \in Seen
    BY <2>2, <1>2, <1>3, <1>6 DEF Known
  <2>4. QED BY <2>2, <2>3, <1>5
<1>7. CASE which = "rfkill"
  <2>1. Poll(read) = PollRfkill(read)
    BY <1>7 DEF Poll
  <2>2. /\ prev' = read
        /\ \A t \in Things : view'[t] \in States /\ (t \in unsure' \/ view'[t] = Switch(read[t]))
    BY <2>1, <1>7, RfkillKnown
  <2>3. \A t \in Things : Known(t)' /\ view'[t] \in Seen
    BY <2>2, <1>2, <1>7 DEF Known
  <2>4. QED BY <2>2, <2>3, <1>5, <1>7
<1>8. CASE which = "usb"
  <2>1. Poll(read) = PollUsb(read)
    BY <1>8 DEF Poll
  <2>2. \A t \in Things :
           /\ view'[t] \in {view[t], read[t]}
           /\ prev'[t] = IF read[t] = Absent THEN prev[t] ELSE read[t]
           /\ view'[t] = prev'[t] \/ prev'[t] \in {Absent, Unread}
    BY <2>1, <1>8, UsbKnown
  <2>3. \A t \in Things : Known(t)' /\ view'[t] \in Seen
    BY <2>2, <1>2, <1>3, <1>8 DEF Known
  <2>4. prev' \in Reading
    <3>1. prev' = [t \in Things |-> IF read[t] = Absent THEN prev[t] ELSE read[t]]
      BY <2>1 DEF Compares, PollUsb
    <3>2. QED BY <3>1, <1>2 DEF Reading
  <2>5. QED BY <2>3, <2>4, <1>5, <1>8
<1>9. CASE which = "mgmt"
  <2>1. Poll(read) = PollMgmt(read)
    BY <1>9 DEF Poll
  <2>2. /\ prev' = read
        /\ \A t \in Things : /\ view'[t] \in {view[t], read[t]}
                             /\ view'[t] = read[t] \/ read[t] = Unread
    BY <2>1, <1>9, MgmtKnown
  <2>3. \A t \in Things : Known(t)' /\ view'[t] \in Seen
    BY <2>2, <1>2, <1>3, <1>9 DEF Known
  <2>4. QED BY <2>2, <2>3, <1>5, <1>9
<1>10. CASE which = "modules"
  <2>1. Poll(read) = PollModules(read)
    BY <1>10 DEF Poll
  <2>2. /\ prev' = read /\ ~odd'
        /\ \A t \in Things : /\ view'[t] \in {view[t], read[t]}
                             /\ view'[t] = Absent <=> read[t] = Absent
                             /\ read[t] = Unread => t \in unsure'
                             /\ t \in unsure' \/ view'[t] = read[t]
    BY <2>1, <1>10, ModulesKnown
  <2>3. \A t \in Things : Known(t)' /\ view'[t] \in Seen
    BY <2>2, <1>2, <1>3, <1>10 DEF Known
  <2>4. QED BY <2>2, <2>3, <1>5
<1>11. QED BY <1>1, <1>6, <1>7, <1>8, <1>9, <1>10

\* Nothing has been read or told before the first poll.
LEMMA WatchInvInit == WatchInit => WatchInv
<1> SUFFICES ASSUME WatchInit  PROVE WatchInv
  OBVIOUS
<1>1. /\ which \in Kinds /\ world \in [Things -> States \cup {Absent}] /\ class \in BOOLEAN
      /\ (~class => Listed(world) = {}) /\ poller = "stopped" /\ names = {}
      /\ prev = [t \in Things |-> Absent] /\ odd = FALSE /\ unsure = {}
      /\ view = [t \in Things |-> IF which = "rfkill" THEN "0" ELSE Absent]
  BY DEF WatchInit
<1>2. prev \in Reading
  BY <1>1 DEF Reading
<1>3. view \in [Things -> IF which = "rfkill" THEN States ELSE States \cup {Absent, Unread}]
  BY <1>1, StatesApart
<1>4. WatchTypes
  BY <1>1, <1>2, <1>3 DEF WatchTypes
<1>5. \A t \in Things : Known(t)
  BY <1>1, StatesApart DEF Known, Switch
<1>6. QED BY <1>1, <1>4, <1>5 DEF WatchInv

\* The kernel, starts and stops leave alone what was read and told.
LEMMA OthersKeepWatch ==
    ASSUME WatchInv, WatchTypes', UNCHANGED <<which, prev, view, odd, unsure>>
    PROVE  WatchInv'
BY DEF WatchInv, Known

LEMMA WatchInvStep ==
    ASSUME WatchInv, [WatchNext]_watchVars
    PROVE  WatchInv'
<1>1. WatchTypes
  BY DEF WatchInv
<1>2. ASSUME NEW t \in Things, NEW s \in States \cup {Absent}, Becomes(t, s)
      PROVE  WatchInv'
  <2>1. WatchTypes' /\ UNCHANGED <<which, prev, view, odd, unsure>>
    BY <1>1, <1>2 DEF WatchTypes, Becomes
  <2>2. QED BY <2>1, OthersKeepWatch
<1>3. CASE ClassChanges
  <2>1. Listed(world') = {} /\ world' \in [Things -> States \cup {Absent}]
    BY <1>3 DEF ClassChanges, Listed
  <2>2. class' \in BOOLEAN /\ UNCHANGED <<which, poller, names, prev, view, odd, unsure>>
    BY <1>1, <1>3 DEF WatchTypes, ClassChanges
  <2>3. WatchTypes'
    BY <1>1, <2>1, <2>2 DEF WatchTypes
  <2>4. QED BY <2>2, <2>3, OthersKeepWatch
<1>4. CASE StartPolling
  <2>1. WatchTypes' /\ UNCHANGED <<which, prev, view, odd, unsure>>
    BY <1>1, <1>4 DEF WatchTypes, StartPolling, worldVars, Listed
  <2>2. QED BY <2>1, OthersKeepWatch
<1>5. CASE StopPolling
  <2>1. WatchTypes' /\ UNCHANGED <<which, prev, view, odd, unsure>>
    BY <1>1, <1>5 DEF WatchTypes, StopPolling, worldVars, Listed
  <2>2. QED BY <2>1, OthersKeepWatch
<1>6. CASE List
  <2>1. Listed(world) \in SUBSET Things
    BY DEF Listed
  <2>2. WatchTypes' /\ UNCHANGED <<which, prev, view, odd, unsure>>
    BY <1>1, <1>6, <2>1 DEF WatchTypes, List, worldVars, Listed
  <2>3. QED BY <2>2, OthersKeepWatch
<1>7. CASE Read
  <2>1. PICK listed \in names :
           LET read == [t \in Things |-> IF t \in listed THEN ReadFiles(t) ELSE Absent]
               poll == Poll(read)
           IN  /\ PublishAll(poll.told)
               /\ prev' = poll.kept
               /\ unsure' = (unsure \ {e.thing : e \in poll.told}) \cup poll.doubtful
    BY <1>7 DEF Read
  <2> DEFINE read == [t \in Things |-> IF t \in listed THEN ReadFiles(t) ELSE Absent]
  <2>2. read \in Reading
    BY <1>1 DEF WatchTypes, Reading, ReadFiles
  <2>3. which' = which /\ UNCHANGED worldVars /\ poller' = "sleeping" /\ names' = {}
    BY <1>7 DEF Read
  <2>4. Compares(Poll(read))
    BY <2>1, <2>3 DEF Compares
  <2> HIDE DEF read
  <2>5. odd' \in BOOLEAN
    <3>1. PublishAll(Poll(read).told)
      BY <2>4 DEF Compares
    <3> HIDE <2>1
    <3>2. QED BY <3>1 DEF PublishAll
  <2>6. QED BY <2>2, <2>3, <2>4, <2>5, PollKeepsWatch
<1>8. CASE UNCHANGED watchVars
  <2>1. WatchTypes' /\ UNCHANGED <<which, prev, view, odd, unsure>>
    BY <1>1, <1>8 DEF WatchTypes, watchVars, worldVars, Listed
  <2>2. QED BY <2>1, OthersKeepWatch
<1>9. QED BY <1>2, <1>3, <1>4, <1>5, <1>6, <1>7, <1>8 DEF WatchNext

\* Whoever has followed the events of a watcher of the kernel's files since the program
\* began knows what the last poll read, through stops and starts, and whatever has come,
\* gone and been replaced between two polls (the _poll_* and _snapshot methods of
\* sysfs.py, mgmt_api.py and kernel_driver.py).
THEOREM WatchersTellWhatTheyRead == WatchSpec => []EventsTellWhatWasRead
<1>1. WatchInv => EventsTellWhatWasRead
  <2> SUFFICES ASSUME WatchInv  PROVE EventsTellWhatWasRead
    OBVIOUS
  <2>1. WatchTypeOK
    BY DEF WatchInv, WatchTypes, WatchTypeOK, Reading
  <2>2. which \in {"adapters", "rfkill", "usb", "mgmt", "modules"}
    BY WatchersAssumption DEF WatchInv, WatchTypes, AllKinds
  <2>3. ASSUME NEW t \in Things \ unsure
        PROVE  \/ view[t] = prev[t]
               \/ which \in {"rfkill", "usb"} /\ prev[t] \in {Absent, Unread}
               \/ which = "mgmt" /\ prev[t] = Unread
    <3>1. Known(t) /\ t \notin unsure
      BY DEF WatchInv
    <3>2. CASE which = "rfkill"
      <4>1. view[t] = Switch(prev[t]) /\ prev[t] \in {"0", "1", Absent, Unread}
        BY <3>1, <3>2 DEF Known, WatchInv, WatchTypes, Reading, States
      <4>2. QED BY <4>1, <3>2 DEF Switch
    <3>3. CASE which # "rfkill"
      BY <3>1, <3>3, <2>2 DEF Known
    <3>4. QED BY <3>2, <3>3
  <2>4. QED BY <2>1, <2>3 DEF EventsTellWhatWasRead, WatchInv
<1>2. WatchInit => WatchInv
  BY WatchInvInit
<1>3. WatchInv /\ [WatchNext]_watchVars => WatchInv'
  BY WatchInvStep
<1>4. QED BY <1>1, <1>2, <1>3, PTL DEF WatchSpec
===============================================================================
