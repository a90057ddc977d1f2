------------------------------- MODULE DeviceProbes -------------------------------
(***************************************************************************)
(* The collectors that ask BlueZ about connected devices, each with the    *)
(* same devices coming and going: l2ping and battery by way of the D-Bus   *)
(* collector, and gatt with a connection of its own.  They share nothing   *)
(* but the devices, so a behaviour has one of them.                        *)
(***************************************************************************)
EXTENDS ConnectionProbes, GattCollector

vars == <<bluezVars, probeVars, gattVars>>

Init ==
    /\ BlueZInit /\ ProbesInit /\ GattInit
    /\ kind \in {"l2ping", "battery", "gatt"}

Next ==
    \/ kind # "gatt" /\ ProbesNext /\ UNCHANGED gattVars
    \/ kind = "gatt" /\ GattNext /\ UNCHANGED probeVars

Spec == Init /\ [][Next]_vars
=============================================================================
