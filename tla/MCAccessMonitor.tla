--------------------------- MODULE MCAccessMonitor ---------------------------
(* Settings for TLC.                                                       *)
EXTENDS AccessMonitor

\* Everything switched on.
On == {[enable |-> TRUE, enable_removable_media |-> TRUE, autoscan_removable_media |-> TRUE]}

\* On-access protection switched off, or on.
Both == On \cup {[enable |-> FALSE, enable_removable_media |-> TRUE, autoscan_removable_media |-> FALSE]}
==============================================================================
