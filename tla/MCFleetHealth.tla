--------------------------- MODULE MCFleetHealth ---------------------------
(* A small instance of FleetHealth for TLC. *)
EXTENDS FleetHealth, TLC

CONSTANTS rover, drone, acme, city, low, ill, t1

MCOrgOf == rover :> acme @@ drone :> city

\* A good report, and one whose battery gauge reads below zero.
MCPayload == {[battery |-> 80, signal |-> -50], [battery |-> -15, signal |-> -95]}

MCRow(org, source, n) ==
    [organization |-> org, is_active |-> TRUE, source |-> source, device |-> None,
     sensor |-> None, sensor_type |-> "", operator |-> "lt", threshold |-> n]

MCRuleRow == low :> MCRow(acme, "battery", 20) @@ ill :> MCRow(city, "health", 50)
=============================================================================
