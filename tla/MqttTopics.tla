----------------------------- MODULE MqttTopics -----------------------------
(***************************************************************************)
(* The topic scheme that ties a message to a device: the topics devices and  *)
(* backend publish on, the bridge's subscriptions, the leaf that selects the *)
(* handler and the serial it works for.  A topic is the sequence of its       *)
(* levels, so MQTT_BASE_TOPIC, which may contain slashes, is a sequence too.  *)
(***************************************************************************)
EXTENDS Sequences, Naturals

CONSTANTS
    base,    \* settings.MQTT["BASE_TOPIC"], level by level
    Level,   \* the levels a topic may have
    NoMatch  \* Python's None

\* The base topic, robogrid unless configured, has no wildcard and no level named
\* like the scheme's own first one.
ASSUME BaseAssumption == base \in Seq(Level) /\ \A i \in DOMAIN base : base[i] \notin {"devices", "+"}

Inbound == {"telemetry", "status", "results"}

device_topic(serial, leaf) == base \o <<"devices", serial, leaf>>

command_topic(serial) == device_topic(serial, "commands")

\* telemetry_sub, status_sub, results_sub
subscription(leaf) == device_topic("+", leaf)

\* The broker's rule: + stands for any one level.
Covers(filter, topic) ==
    /\ Len(filter) = Len(topic)
    /\ \A i \in DOMAIN filter : filter[i] = "+" \/ filter[i] = topic[i]

\* The level behind the first one called devices.
serial_from_topic(topic) ==
    LET found == {i \in DOMAIN topic : topic[i] = "devices"}
        first == CHOOSE i \in found : \A j \in found : i <= j
    IN  IF found # {} /\ first + 1 \in DOMAIN topic THEN topic[first + 1] ELSE NoMatch

\* dispatch: the leaf of the topic that selects a handler.
dispatch(topic) ==
    IF Len(topic) > 1 /\ topic[Len(topic)] \in Inbound THEN topic[Len(topic)] ELSE NoMatch

-----------------------------------------------------------------------------
\* A message on this topic reaches the handler of this leaf, and serial_from_topic
\* gives the device on whose topic it was published.
Attributed(topic, leaf) ==
    /\ dispatch(topic) = leaf
    /\ topic = device_topic(serial_from_topic(topic), leaf)
=============================================================================
