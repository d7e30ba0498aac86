---------------------------- MODULE MCPodWatcher ----------------------------
(***************************************************************************)
(* Instances of PodWatcher for TLC.                                        *)
(***************************************************************************)
EXTENDS PodWatcher

\* Everything outside the handler that may go wrong, and each of its calls.
AllFaults == {"crash", "watch"} \cup {"secret", "patch", "update", "delete"}
=============================================================================
