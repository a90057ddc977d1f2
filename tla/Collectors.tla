-------------------------------- MODULE Collectors --------------------------------
(***************************************************************************)
(* The collectors that only look: those that ask BlueZ about connected     *)
(* devices, the one that reads btmon's blocks and those that read the      *)
(* kernel's files (blutruth/collectors).  The runtime starts them side by  *)
(* side, but the one's state is nothing to the other and what they publish *)
(* meets on the event bus only (EventBus), so a behaviour has one family   *)
(* of them at work and the others down.                                    *)
(***************************************************************************)
EXTENDS DeviceProbes, HciCollector, SnapshotWatchers

VARIABLE family         \* "bluez", "btmon" or "files"

collectorVars == <<vars, hciVars, watchVars, family>>

\* Where nobody looks it does not matter what there is to be seen.
CollectorsInit ==
    /\ family \in {"bluez", "btmon", "files"}
    /\ Init /\ HciInit /\ WatchInit
    /\ family # "bluez" => connected = {} /\ kind = "gatt"
    /\ family # "files" => /\ which = CHOOSE k \in Kinds : TRUE
                           /\ class /\ Listed(world) = {}

CollectorsNext ==
    /\ UNCHANGED family
    /\ \/ family = "bluez" /\ Next /\ UNCHANGED <<hciVars, watchVars>>
       \/ family = "btmon" /\ HciNext /\ UNCHANGED <<vars, watchVars>>
       \/ family = "files" /\ WatchNext /\ UNCHANGED <<vars, hciVars>>

\* Of a family that is down no fair action is enabled.
CollectorsSpec ==
    /\ CollectorsInit /\ [][CollectorsNext]_collectorVars
    /\ ProbesFairness /\ WatchFairness
=============================================================================
