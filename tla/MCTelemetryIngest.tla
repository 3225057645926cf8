------------------------- MODULE MCTelemetryIngest -------------------------
(* A small instance of TelemetryIngest for TLC. *)
EXTENDS TelemetryIngest, MqttTopics, TLC

CONSTANTS w1, w2, engine, hot, org1, dev1

\* _guess_type takes "temp" before "hr".
MCNeedles == [k \in Key |-> {"temp", "hr"}]

\* A hot sample and one at the threshold, a number and a string that reads as one.
MCSample == << engine :> [kind |-> "number", num |-> 9],
               engine :> [kind |-> "numeral", num |-> 5] >>

\* A rule on a type of sensor across the organization.
MCRuleRow == hot :> [organization |-> org1, is_active |-> TRUE, source |-> "sensor",
                     device |-> None, sensor |-> None, sensor_type |-> "temperature",
                     operator |-> "gt", threshold |-> 5]

\* A base topic of two levels, and topics that try to look like it.
MCBase == <<"robogrid", "eu">>
MCLevel == {"robogrid", "eu", "devices", "R1", "telemetry", "results", "commands"}
MCTopics == {<<"robogrid", "eu">> \o rest : rest \in UNION {[1..n -> MCLevel] : n \in 1..4}}

\* MessagesAreAttributed on these topics.
ASSUME SmallTopics ==
    \A leaf \in Inbound, topic \in MCTopics :
      Covers(subscription(leaf), topic) => Attributed(topic, leaf)
=============================================================================
