------------------------------ MODULE MCHotReload ------------------------------
\* Two collectors; a collector's section is Off or one of the settings.
EXTENDS HotReload

CONSTANTS hci, mgmt

MCCollectors == <<hci, mgmt>>
=============================================================================
