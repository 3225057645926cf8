-------------------------- MODULE TelemetryIngest --------------------------
(***************************************************************************)
(* ingest_payload, run by the MQTT bridge and by HTTP requests at once, on   *)
(* the sensors, readings and alerts of one device; the retention job that    *)
(* purges readings; operators who close alerts and delete sensors.  Every    *)
(* statement is a step and nothing is rolled back.  What ingest does to the   *)
(* Device row is DeviceLiveness, what raise_alert does inside is AlertEngine. *)
(*                                                                         *)
(* A payload is known by its time; payloads come in any order and more than  *)
(* once.  Rows of one key and time are told apart by nothing here, so a      *)
(* reading is a <<key, time>> pair.                                          *)
(***************************************************************************)
EXTENDS AlertRules, FiniteSets

CONSTANTS
    Worker,    \* threads that run ingest_payload
    Key,       \* payload keys; a sensor is its key here
    Needles,   \* Needles[k]: the substrings of _guess_type's table in key k
    MaxTime,   \* payload times are 1..MaxTime
    Sample,    \* Sample[t]: the raw values of the payload of time t, by key
    Rule,      \* sensor rules
    RuleRow,   \* RuleRow[r]: the columns of rule r
    Org,       \* the device's organization
    Dev,       \* the device
    Batch,     \* rows one round of the purge deletes
    MaxFaults  \* bound: exceptions and crashes in one behaviour

Time == 1..MaxTime
Raw == [kind : {"bool", "number", "json", "numeral", "text"}, num : Int]

ASSUME KeyAssumption == None \notin Key /\ Needles \in [Key -> SUBSET STRING]
ASSUME TimeAssumption == MaxTime \in Nat /\ Batch \in Nat \ {0} /\ MaxFaults \in Nat
ASSUME SampleAssumption ==
    \A t \in Time : /\ DOMAIN Sample[t] \subseteq Key
                   /\ \A k \in DOMAIN Sample[t] : Sample[t][k] \in Raw

VARIABLES
    sensor,   \* the sensors: absent, live or soft-deleted; last_reading_at
    reading,  \* the readings table
    open,     \* rules with an OPEN alert on this device
    wk,       \* each worker: its statement and its local variables
    horizon,  \* readings before it are past the retention period
    purge,    \* purge_old_telemetry: its statement, cutoff and ids
    torn,     \* history: samples whose ingest stopped before bulk_create
    gone,     \* history: readings the purge deleted
    faults    \* exceptions and crashes so far (bounded)

vars == <<sensor, reading, open, wk, horizon, purge, torn, gone, faults>>

\* at = 0 is a NULL last_reading_at.
Sensor == [state : {"absent", "live", "deleted"}, at : 0..MaxTime]

\* known: what the loop still looks up in the sensors dict; key: the one just created; todo, done: the payload's
\* keys before and behind the loop; pairs: the evaluations still to make.
Judgement == [rule : Rule, key : Key, at : 0..MaxTime]
Local == [pc : {"idle", "load", "loop", "made", "cast", "evaluate", "judge"},
          time : 0..MaxTime, known : SUBSET Key, key : Key \union {None},
          todo : SUBSET Key, done : SUBSET Key, pairs : SUBSET Judgement]
Purge == [pc : {"idle", "select", "delete"}, cutoff : 0..(MaxTime + 1),
          ids : SUBSET (Key \X Time)]

Rest == [pc |-> "idle", time |-> 0, known |-> {}, key |-> None, todo |-> {}, done |-> {},
         pairs |-> {}]
NoPurge == [pc |-> "idle", cutoff |-> 0, ids |-> {}]

-----------------------------------------------------------------------------
(* Conversions *)

\* _coerce: booleans, numbers and numerals have a numeric value; the rest is
\* kept as JSON or as text.
Coerce(raw) == IF raw.kind \in {"bool", "number", "numeral"} THEN raw.num ELSE None

\* _guess_type: the first needle that occurs in the key decides.
Guess == << <<"temp", "temperature">>, <<"humid", "humidity">>, <<"motion", "motion">>,
            <<"gps", "gps">>, <<"batt", "battery">>, <<"press", "pressure">>,
            <<"light", "light">>, <<"lux", "light">>, <<"gas", "gas">>, <<"co2", "gas">>,
            <<"heart", "heart_rate">>, <<"hr", "heart_rate">>, <<"vib", "vibration">> >>

GuessType(k) ==
    LET hits == {i \in 1..13 : Guess[i][1] \in Needles[k]}
    IN  IF hits = {} THEN "custom"
        ELSE Guess[CHOOSE i \in hits : \A j \in hits : i <= j][2]

\* sensor.last_value as of the payload of time t (0: never reported).
LastValue(k, t) == IF t = 0 THEN None ELSE Coerce(Sample[t][k])

Live(k) == sensor[k].state = "live"

-----------------------------------------------------------------------------
\* Sensors may have been registered by hand before the first payload.
Init ==
    /\ sensor \in [Key -> {[state |-> "absent", at |-> 0], [state |-> "live", at |-> 0]}]
    /\ reading = {}
    /\ open = {}
    /\ wk = [w \in Worker |-> Rest]
    /\ horizon = 1
    /\ purge = NoPurge
    /\ torn = {}
    /\ gone = {}
    /\ faults = 0

-----------------------------------------------------------------------------
(* ingest_payload *)

\* The device was found and saved.
Begin(w, t) ==
    /\ wk[w].pc = "idle"
    /\ wk' = [wk EXCEPT ![w] = [Rest EXCEPT !.pc = "load", !.time = t]]
    /\ UNCHANGED <<sensor, reading, open, horizon, purge, torn, gone, faults>>

\* device.sensors.all(), without the soft-deleted ones.
LoadSensors(w) ==
    /\ wk[w].pc = "load"
    /\ wk' = [wk EXCEPT ![w].pc = "loop", ![w].todo = DOMAIN Sample[wk[w].time],
                        ![w].known = {k \in DOMAIN Sample[wk[w].time] : Live(k)}]
    /\ UNCHANGED <<sensor, reading, open, horizon, purge, torn, gone, faults>>

\* Sensor.objects.create for a key the dict does not have.
CreateSensor(w, k) ==
    /\ wk[w].pc = "loop"
    /\ k \in wk[w].todo \ wk[w].known
    /\ sensor[k].state = "absent"
    /\ sensor' = [sensor EXCEPT ![k].state = "live"]
    /\ wk' = [wk EXCEPT ![w].pc = "made", ![w].key = k]
    /\ UNCHANGED <<reading, open, horizon, purge, torn, gone, faults>>

\* The rows collected so far.
Samples(w) == {<<k, wk[w].time>> : k \in wk[w].done}

\* The ingest ends in an exception: what was saved stays.
Leave(w) ==
    /\ torn' = IF wk[w].pc \in {"loop", "made"} THEN torn \union Samples(w) ELSE torn
    /\ wk' = [wk EXCEPT ![w] = Rest]
    /\ UNCHANGED <<sensor, reading, open, horizon, purge, gone>>

\* The row exists by now, or is soft-deleted: uq_sensor_device_key.
CreateConflict(w, k) ==
    /\ wk[w].pc = "loop"
    /\ k \in wk[w].todo \ wk[w].known
    /\ sensor[k].state # "absent"
    /\ Leave(w)
    /\ UNCHANGED faults

\* Faulty form: no fallback for a payload without a time.
StampMissing(w) == None

\* ts: the payload's time, or the time of its arrival.
Stamp(w) == wk[w].time

\* sensor.save(update_fields=[last_value, ...]): an UPDATE by primary key,
\* which deleted_at does not stop and no older last_reading_at either.
UpdateSensor(w, k) ==
    /\ k \in wk[w].todo
    /\ \/ wk[w].pc = "loop" /\ k \in wk[w].known
       \/ wk[w].pc = "made" /\ k = wk[w].key
    /\ sensor' = [sensor EXCEPT ![k].at = Stamp(w)]
    /\ wk' = [wk EXCEPT ![w].pc = "loop", ![w].key = None, ![w].todo = @ \ {k},
                        ![w].known = @ \ {k}, ![w].done = @ \union {k}]
    /\ UNCHANGED <<reading, open, horizon, purge, torn, gone, faults>>

\* Reading.objects.bulk_create
Store(w) ==
    /\ wk[w].pc = "loop"
    /\ wk[w].todo = {}
    /\ reading' = reading \union Samples(w)
    /\ wk' = [wk EXCEPT ![w].pc = "cast"]
    /\ UNCHANGED <<sensor, open, horizon, purge, torn, gone, faults>>

\* The telemetry broadcast; it is outside the try block.
Cast(w) ==
    /\ wk[w].pc = "cast"
    /\ wk' = [wk EXCEPT ![w].pc = "evaluate"]
    /\ UNCHANGED <<sensor, reading, open, horizon, purge, torn, gone, faults>>

\* The rows evaluate_device_readings reads again: the live ones it was told of.
Fresh(w) == {[id |-> k, sensor_type |-> GuessType(k)] : k \in {j \in wk[w].done : Live(j)}}

Pairs(w) ==
    {[rule |-> q[1], key |-> q[2].id, at |-> sensor[q[2].id].at] :
        q \in {p \in Rule \X Fresh(w) :
                  p[2] \in Evaluated(RuleRow[p[1]], Org, Dev, Fresh(w))}}

Evaluate(w) ==
    /\ wk[w].pc = "evaluate"
    /\ wk' = [wk EXCEPT ![w] = [Rest EXCEPT !.pc = "judge", !.pairs = Pairs(w)]]
    /\ UNCHANGED <<sensor, reading, open, horizon, purge, torn, gone, faults>>

\* Faulty form: nothing resolves the alert.
VerdictRaisesOnly(j) ==
    IF Matches(RuleRow[j.rule], LastValue(j.key, j.at)) THEN open \union {j.rule} ELSE open

\* Faulty form: any number raises.
VerdictAlways(j) ==
    IF LastValue(j.key, j.at) = None THEN open ELSE open \union {j.rule}

\* raise_alert when the value read matches, _auto_resolve when it does not,
\* nothing when it is not a number.
Verdict(j) ==
    LET value == LastValue(j.key, j.at)
    IN  IF value = None THEN open
        ELSE IF Matches(RuleRow[j.rule], value) THEN open \union {j.rule} ELSE open \ {j.rule}

Judge(w, j) ==
    /\ wk[w].pc = "judge"
    /\ j \in wk[w].pairs
    /\ open' = Verdict(j)
    /\ wk' = [wk EXCEPT ![w].pairs = @ \ {j}]
    /\ UNCHANGED <<sensor, reading, horizon, purge, torn, gone, faults>>

Return(w) ==
    /\ wk[w].pc = "judge"
    /\ wk[w].pairs = {}
    /\ wk' = [wk EXCEPT ![w] = Rest]
    /\ UNCHANGED <<sensor, reading, open, horizon, purge, torn, gone, faults>>

Fault == faults < MaxFaults /\ faults' = faults + 1

\* An exception before the try block, or the process dies.
Stop(w) ==
    /\ wk[w].pc \in {"load", "loop", "made", "cast", "evaluate"}
    /\ Leave(w)
    /\ Fault

\* An exception inside the evaluation: logged, the other pairs are dropped.
EvaluationSwallowed(w) ==
    /\ wk[w].pc = "judge"
    /\ wk[w].pairs # {}
    /\ Fault
    /\ wk' = [wk EXCEPT ![w] = Rest]
    /\ UNCHANGED <<sensor, reading, open, horizon, purge, torn, gone>>

-----------------------------------------------------------------------------
(* Everyone else *)

\* acknowledge_alert, resolve_alert
CloseAlert(r) ==
    /\ r \in open
    /\ open' = open \ {r}
    /\ UNCHANGED <<sensor, reading, wk, horizon, purge, torn, gone, faults>>

\* SensorViewSet.destroy and the admin site: SoftDeleteModel.delete.
DeleteSensor(k) ==
    /\ Live(k)
    /\ sensor' = [sensor EXCEPT ![k].state = "deleted"]
    /\ UNCHANGED <<reading, open, wk, horizon, purge, torn, gone, faults>>

\* The retention period moves on.
Age ==
    /\ horizon <= MaxTime
    /\ horizon' = horizon + 1
    /\ UNCHANGED <<sensor, reading, open, wk, purge, torn, gone, faults>>

-----------------------------------------------------------------------------
(* purge_old_telemetry *)

PurgeBegin ==
    /\ purge.pc = "idle"
    /\ purge' = [NoPurge EXCEPT !.pc = "select", !.cutoff = horizon]
    /\ UNCHANGED <<sensor, reading, open, wk, horizon, torn, gone, faults>>

\* Faulty form: time__lte.
ExpiredLte(t) == t <= purge.cutoff

Expired(t) == t < purge.cutoff

\* Faulty form: the rows of deleted sensors are out of sight.
OldLive == {s \in reading : Expired(s[2]) /\ Live(s[1])}

Old == {s \in reading : Expired(s[2])}

\* The SELECT of at most Batch ids, newest first (Reading's default ordering).
PurgeSelect(ids) ==
    /\ purge.pc = "select"
    /\ ids \subseteq Old
    /\ ids # {}
    /\ Cardinality(ids) = Batch \/ ids = Old
    /\ Cardinality(ids) <= Batch
    /\ \A s \in ids, u \in Old \ ids : s[2] >= u[2]
    /\ purge' = [purge EXCEPT !.pc = "delete", !.ids = ids]
    /\ UNCHANGED <<sensor, reading, open, wk, horizon, torn, gone, faults>>

PurgeDone ==
    /\ purge.pc = "select"
    /\ Old = {}
    /\ purge' = NoPurge
    /\ UNCHANGED <<sensor, reading, open, wk, horizon, torn, gone, faults>>

PurgeDelete ==
    /\ purge.pc = "delete"
    /\ reading' = reading \ purge.ids
    /\ gone' = gone \union (reading \intersect purge.ids)
    /\ purge' = [purge EXCEPT !.pc = "select", !.ids = {}]
    /\ UNCHANGED <<sensor, open, wk, horizon, torn, faults>>

\* The task's time limit, or the worker stops, between two rounds.
PurgeKilled ==
    /\ purge.pc # "idle"
    /\ Fault
    /\ purge' = NoPurge
    /\ UNCHANGED <<sensor, reading, open, wk, horizon, torn, gone>>

-----------------------------------------------------------------------------
\* One statement of an ingest that is under way.
Step(w) ==
    \/ LoadSensors(w)
    \/ \E k \in Key : CreateSensor(w, k) \/ CreateConflict(w, k) \/ UpdateSensor(w, k)
    \/ Store(w)
    \/ Cast(w)
    \/ Evaluate(w)
    \/ \E j \in wk[w].pairs : Judge(w, j)
    \/ Return(w)

PurgeStep == (\E ids \in SUBSET Old : PurgeSelect(ids)) \/ PurgeDone \/ PurgeDelete

Next ==
    \/ \E w \in Worker, t \in Time : Begin(w, t)
    \/ \E w \in Worker : Step(w)
    \/ \E w \in Worker : Stop(w)
    \/ \E w \in Worker : EvaluationSwallowed(w)
    \/ \E r \in Rule : CloseAlert(r)
    \/ \E k \in Key : DeleteSensor(k)
    \/ Age
    \/ PurgeBegin
    \/ PurgeStep
    \/ PurgeKilled

Spec == Init /\ [][Next]_vars

\* A request or a handler that has begun goes on, beat keeps starting the purge,
\* and the device keeps sending: a worker that is free infinitely often takes a
\* payload infinitely often.
Fairness ==
    /\ \A w \in Worker : WF_vars(Step(w))
    /\ SF_vars(\E w \in Worker, t \in Time : Begin(w, t))
    /\ WF_vars(PurgeBegin)
    /\ WF_vars(PurgeStep)

FairSpec == Spec /\ Fairness

-----------------------------------------------------------------------------
(* Properties *)

\* Every variable has its type.
TypeOK ==
    /\ sensor \in [Key -> Sensor]
    /\ reading \subseteq Key \X Time
    /\ open \subseteq Rule
    /\ wk \in [Worker -> Local]
    /\ horizon \in 1..(MaxTime + 1)
    /\ purge \in Purge
    /\ torn \subseteq Key \X Time
    /\ gone \subseteq Key \X Time
    /\ faults \in 0..MaxFaults

\* The latest sample a sensor shows is in the time series too, whatever order
\* payloads and the purge come in: it is stored, is about to be, was purged when
\* past the retention period, or its ingest stopped between sensor.save and
\* bulk_create.  (ingest_payload, purge_old_telemetry)
Backed(k, t) ==
    \/ <<k, t>> \in reading \union torn
    \/ <<k, t>> \in gone /\ t < horizon
    \/ \E w \in Worker : wk[w].pc \in {"loop", "made"} /\ <<k, t>> \in Samples(w)

LatestBacked == \A k \in Key : sensor[k].at # 0 => Backed(k, sensor[k].at)

\* An open alert has a cause in the time series, although its verdict may come
\* long after the sensor was read and other workers, operators and the purge go
\* on: a sample of a sensor in the rule's scope that breached, and that is
\* backed.  (evaluate_device_readings, _rule_scope_q, _sensors_for_rule)
Cause(r, k, t) ==
    /\ Backed(k, t)
    /\ InScope(RuleRow[r], Dev, [id |-> k, sensor_type |-> GuessType(k)])
    /\ Matches(RuleRow[r], LastValue(k, t))

AlertsHaveCause ==
    \A r \in open : /\ RuleRow[r].organization = Org /\ RuleRow[r].is_active
                    /\ \E k \in Key, t \in Time : Cause(r, k, t)

\* No reading inside the retention period is ever deleted, although the ids are
\* picked in one statement and deleted in another while ingest goes on and the
\* period moves.  (purge_old_telemetry)
PurgeSparesFresh == [][\A s \in reading : s \notin reading' => s[2] < horizon]_vars

\* r watches exactly the sensor k of this device.
Watches(r, k) ==
    /\ RuleRow[r].organization = Org /\ RuleRow[r].is_active /\ RuleRow[r].source = "sensor"
    /\ \A j \in Key : InScope(RuleRow[r], Dev, [id |-> j, sensor_type |-> GuessType(j)]) <=> j = k

\* No key of the device is blocked by a soft-deleted sensor.
Unblocked == \A k \in Key : sensor[k].state # "deleted"

Value(k) == LastValue(k, sensor[k].at)

\* An alert does not outlive its breach: once the sensor a rule watches stays
\* below the threshold, the alert ends up closed, even if a worker that read an
\* older value opens it once more.  (evaluate_device_readings, _auto_resolve)
AlertClears ==
    \A r \in Rule, k \in Key : Watches(r, k) =>
        (<>[](Unblocked /\ Value(k) # None /\ ~ Matches(RuleRow[r], Value(k)))
         => <>[](r \notin open))

\* A breach that lasts is alerted, again and again if operators close it, even
\* if a worker that read an older value resolves it.  (evaluate_device_readings)
AlertRaised ==
    \A r \in Rule, k \in Key : Watches(r, k) =>
        (<>[](Unblocked /\ Matches(RuleRow[r], Value(k))) => []<>(r \in open))

\* Once no late payload is being ingested, every reading past the retention
\* period goes, also those stored while a purge was running or killed, and
\* those of deleted sensors.  (purge_old_telemetry)
PurgeCatchesUp ==
    <>[](\A w \in Worker : wk[w].time = 0 \/ wk[w].time >= horizon)
    => <>[](\A s \in reading : s[2] >= horizon)
=============================================================================
