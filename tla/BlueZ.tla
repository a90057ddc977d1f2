---------------------------------- MODULE BlueZ ----------------------------------
(***************************************************************************)
(* BlueZ and the devices as the collectors see them over D-Bus: which      *)
(* devices are connected (with their services resolved).  External:        *)
(* modelled from what the collectors ask and from the signals they wait    *)
(* for.                                                                    *)
(***************************************************************************)
EXTENDS Naturals

CONSTANTS Devices,
          MaxChanges    \* bound on what happens to the devices

ASSUME BlueZAssumption == MaxChanges \in Nat

VARIABLES connected,    \* the devices that are
          changes       \* counted for the bound
bluezVars == <<connected, changes>>

BlueZInit == connected \in SUBSET Devices /\ changes = 0

Changes == changes < MaxChanges /\ changes' = changes + 1

Connects(d) ==
    /\ Changes
    /\ d \notin connected /\ connected' = connected \cup {d}

Disconnects(d) ==
    /\ Changes
    /\ d \in connected /\ connected' = connected \ {d}

BlueZTypeOK ==
    /\ connected \subseteq Devices
    /\ changes \in 0 .. MaxChanges
=============================================================================
