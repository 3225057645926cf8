-------------------------- MODULE MqttTopicsProofs --------------------------
(***************************************************************************)
(* Every message the broker hands to the bridge is attributed to the device   *)
(* on whose topic it was published, for any base topic and any serial, and    *)
(* commands do not come back.                                                *)
(***************************************************************************)
EXTENDS MqttTopics, SequenceTheorems, TLAPS

\* A device's topic is a sequence.
LEMMA DeviceTopicSeq ==
    ASSUME NEW serial, NEW leaf
    PROVE  device_topic(serial, leaf) \in Seq(Level \union {"devices", serial, leaf})
<1> DEFINE L == Level \union {"devices", serial, leaf}
           tail == <<"devices", serial, leaf>>
<1>1. base \in Seq(Level) /\ Level \subseteq L
  BY BaseAssumption
<1>2. base \in Seq(L) /\ tail \in Seq(L)
  BY <1>1
<1> HIDE DEF tail, L
<1>3. base \o tail \in Seq(L)
  BY <1>2, ConcatProperties
<1> QED BY <1>3 DEF device_topic, tail, L

\* The levels of a device's topic, one by one.
LEMMA DeviceTopicLevels ==
    ASSUME NEW serial, NEW leaf
    PROVE  /\ Len(device_topic(serial, leaf)) = Len(base) + 3
           /\ DOMAIN device_topic(serial, leaf) = 1..(Len(base) + 3)
           /\ \A i \in 1..Len(base) : device_topic(serial, leaf)[i] = base[i]
           /\ device_topic(serial, leaf)[Len(base) + 1] = "devices"
           /\ device_topic(serial, leaf)[Len(base) + 2] = serial
           /\ device_topic(serial, leaf)[Len(base) + 3] = leaf
<1> DEFINE L == Level \union {"devices", serial, leaf}
           tail == <<"devices", serial, leaf>>
<1>1. base \in Seq(Level) /\ Level \subseteq L
  BY BaseAssumption
<1>2. base \in Seq(L) /\ Len(base) \in Nat
  BY <1>1
<1>3. tail \in Seq(L)
  OBVIOUS
<1>4. Len(tail) = 3 /\ tail[1] = "devices" /\ tail[2] = serial /\ tail[3] = leaf
  OBVIOUS
<1>5. device_topic(serial, leaf) = base \o tail
  BY DEF device_topic
<1> HIDE DEF tail, L
<1>6. /\ base \o tail \in Seq(L)
      /\ Len(base \o tail) = Len(base) + Len(tail)
      /\ \A i \in 1..(Len(base) + Len(tail)) :
           (base \o tail)[i] = IF i <= Len(base) THEN base[i] ELSE tail[i - Len(base)]
  BY <1>2, <1>3, ConcatProperties
<1>7. DOMAIN (base \o tail) = 1..(Len(base) + 3)
  BY <1>2, <1>4, <1>6
<1>8. \A i \in 1..Len(base) : (base \o tail)[i] = base[i]
  BY <1>2, <1>4, <1>6
<1>9. /\ (base \o tail)[Len(base) + 1] = tail[1]
      /\ (base \o tail)[Len(base) + 2] = tail[2]
      /\ (base \o tail)[Len(base) + 3] = tail[3]
  BY <1>2, <1>4, <1>6
<1> QED BY <1>4, <1>5, <1>6, <1>7, <1>8, <1>9 DEF L

\* The level called devices that serial_from_topic finds is the scheme's own.
LEMMA SerialOfDeviceTopic ==
    ASSUME NEW serial, NEW leaf
    PROVE  serial_from_topic(device_topic(serial, leaf)) = serial
<1> DEFINE topic == device_topic(serial, leaf)
           found == {i \in DOMAIN topic : topic[i] = "devices"}
           first == CHOOSE i \in found : \A j \in found : i <= j
<1>1. Len(base) \in Nat /\ DOMAIN base = 1..Len(base) /\ \A i \in DOMAIN base : base[i] # "devices"
  BY BaseAssumption
<1>2. /\ DOMAIN topic = 1..(Len(base) + 3)
      /\ \A i \in 1..Len(base) : topic[i] = base[i]
      /\ topic[Len(base) + 1] = "devices"
      /\ topic[Len(base) + 2] = serial
  BY DeviceTopicLevels
<1> HIDE DEF topic
<1>3. Len(base) + 1 \in found /\ \A j \in found : Len(base) + 1 <= j
  <2>1. Len(base) + 1 \in 1..(Len(base) + 3)
    BY <1>1
  <2>2. ASSUME NEW j \in found PROVE Len(base) + 1 <= j
    <3>1. j \in 1..(Len(base) + 3) /\ topic[j] = "devices"
      BY <1>2
    <3>2. j \notin 1..Len(base)
      BY <1>1, <1>2, <3>1
    <3> QED BY <1>1, <3>1, <3>2
  <2> QED BY <1>2, <2>1, <2>2
<1>4. first \in found /\ \A j \in found : first <= j
  BY <1>3
<1>5. first \in 1..(Len(base) + 3) /\ first <= Len(base) + 1 /\ Len(base) + 1 <= first
  BY <1>2, <1>3, <1>4
<1>6. first + 1 = Len(base) + 2 /\ first + 1 \in DOMAIN topic
  <2> HIDE DEF first
  <2> QED BY <1>1, <1>2, <1>5
<1>7. serial_from_topic(topic) = IF found # {} /\ first + 1 \in DOMAIN topic
                                 THEN topic[first + 1] ELSE NoMatch
  BY DEF serial_from_topic
<1>8. serial_from_topic(topic) = serial
  <2>1. found # {}
    BY <1>3
  <2> QED BY <1>2, <1>6, <1>7, <2>1
<1> QED BY <1>8 DEF topic

\* What one of the bridge's subscriptions covers was published by a device on
\* its own topic, is routed to the handler of that subscription and attributed
\* to that device: a deeper base topic or an unusual serial never makes the
\* bridge work for another device.  (topics.serial_from_topic, handlers.dispatch)
THEOREM MessagesAreAttributed ==
    ASSUME NEW topic \in Seq(Level), NEW leaf \in Inbound, Covers(subscription(leaf), topic)
    PROVE  Attributed(topic, leaf)
<1> DEFINE n == Len(base)
           serial == topic[n + 2]
<1>1. n \in Nat /\ DOMAIN base = 1..n /\ \A i \in 1..n : base[i] # "+"
  BY BaseAssumption
<1>2. Len(topic) = n + 3 /\ DOMAIN topic = 1..(n + 3)
  BY <1>1, DeviceTopicLevels DEF Covers, subscription
<1>3. \A i \in 1..n : topic[i] = base[i]
  <2> TAKE i \in 1..n
  <2>1. subscription(leaf)[i] = base[i] /\ i \in DOMAIN subscription(leaf)
    BY <1>1, DeviceTopicLevels DEF subscription
  <2> QED BY <1>1, <2>1 DEF Covers
<1>4. leaf # "+" /\ "devices" # "+"
  BY DEF Inbound
<1>5. n + 1 \in 1..(n + 3) /\ n + 3 \in 1..(n + 3)
  BY <1>1
<1>6. topic[n + 1] = "devices" /\ topic[n + 3] = leaf
  BY <1>4, <1>5, DeviceTopicLevels DEF Covers, subscription
<1> DEFINE same == device_topic(serial, leaf)
<1>7. /\ Len(same) = n + 3
      /\ \A i \in 1..n : same[i] = base[i]
      /\ same[n + 1] = "devices" /\ same[n + 2] = serial /\ same[n + 3] = leaf
  BY DeviceTopicLevels
<1> HIDE DEF same
<1>8. \A i \in 1..(n + 3) : topic[i] = same[i]
  <2> TAKE i \in 1..(n + 3)
  <2>1. i \in 1..n \/ i = n + 1 \/ i = n + 2 \/ i = n + 3
    BY <1>1
  <2> QED BY <1>3, <1>6, <1>7, <2>1
<1>9. topic = same
  <2>1. same \in Seq(Level \union {"devices", serial, leaf})
    BY DeviceTopicSeq DEF same
  <2> QED BY <1>1, <1>2, <1>7, <1>8, <2>1
<1>10. serial_from_topic(topic) = serial
  BY <1>9, SerialOfDeviceTopic DEF same
<1>11. dispatch(topic) = leaf
  BY <1>1, <1>2, <1>6 DEF dispatch
<1> QED BY <1>9, <1>10, <1>11 DEF Attributed, same

\* No subscription of the bridge covers a topic commands are published on: the
\* backend does not hear itself.  (topics.command_topic)
THEOREM CommandsDoNotEcho ==
    ASSUME NEW serial, NEW leaf \in Inbound
    PROVE  ~ Covers(subscription(leaf), command_topic(serial))
<1>1. Len(base) \in Nat /\ Len(base) + 3 \in 1..(Len(base) + 3)
  BY BaseAssumption
<1>2. leaf # "+" /\ leaf # "commands"
  BY DEF Inbound
<1> QED BY <1>1, <1>2, DeviceTopicLevels DEF Covers, subscription, command_topic
=============================================================================
