------------------------ MODULE MCCommandLifecycle ------------------------
(* Small instances of CommandLifecycle for TLC. *)
EXTENDS CommandLifecycle

CONSTANTS c1

\* A device that acknowledges, then reports its failure.
MCReport == {[word |-> "ack", error |-> ""],
             [word |-> "failed", error |-> "device"]}

\* A device that succeeds; "busy" is not in status_map and counts as an ack.
MCReportDone == {[word |-> "busy", error |-> ""], [word |-> "done", error |-> ""]}
===========================================================================
