--------------------------- MODULE MCHostMonitor ---------------------------
(* Small instances of HostMonitor.                                          *)
EXTENDS HostMonitor

Reading(reachable, disk) == [reachable |-> reachable, disk |-> disk, mem |-> FALSE, load |-> FALSE]
Fine == Reading(TRUE, "fine")
FewReadings == {Fine, Reading(TRUE, "full"), Reading(FALSE, "fine")}
Quiet == {Fine}

(* Every section holds its first value. *)
Hooked == {[s \in Sections |-> [rest |-> CHOOSE v \in Values : TRUE, secret |-> Blank]]}
=============================================================================
