----------------------- MODULE TelemetryIngestProofs -----------------------
(***************************************************************************)
(* Theorems about TelemetryIngest for any number of workers, keys, payloads  *)
(* and rules, any batch size and any number of faults.                       *)
(***************************************************************************)
EXTENDS TelemetryIngest, TLAPS

\* A worker inside ingest_payload has a payload.
Carries ==
    \A w \in Worker : wk[w].pc \in {"load", "loop", "made", "cast", "evaluate"} => wk[w].time \in Time

\* The purge holds ids of rows that were past the retention period when it began.
PurgeSound ==
    /\ purge.cutoff <= horizon
    /\ \A s \in purge.ids : s[2] < purge.cutoff


-----------------------------------------------------------------------------
(* Helpers *)

\* A resting worker and a resting purge are well-formed.
LEMMA RestType == Rest \in Local /\ NoPurge \in Purge
BY TimeAssumption DEF Rest, Local, NoPurge, Purge

\* The rows a worker has collected are readings.
LEMMA SamplesType ==
    ASSUME TypeOK, Carries, NEW w \in Worker, wk[w].pc \in {"loop", "made"}
    PROVE  Samples(w) \subseteq Key \X Time
<1>1. wk[w].time \in Time /\ wk[w].done \subseteq Key
  BY DEF TypeOK, Carries, Local
<1> QED BY <1>1 DEF Samples

\* evaluate_device_readings judges sensors of this device by its rules.
LEMMA PairsType ==
    ASSUME TypeOK, NEW w \in Worker
    PROVE  Pairs(w) \subseteq Judgement
<1>1. wk[w].done \subseteq Key
  BY DEF TypeOK, Local
<1>2. \A s \in Fresh(w) : s.id \in Key /\ sensor[s.id].at \in 0..MaxTime
  BY <1>1 DEF Fresh, TypeOK, Sensor
<1> QED BY <1>2 DEF Pairs, Judgement

-----------------------------------------------------------------------------
(* Type correctness *)

\* A worker that leaves with an exception leaves everything well-formed.
LEMMA LeaveType ==
    ASSUME TypeOK, Carries, NEW w \in Worker, Leave(w), faults' \in 0..MaxFaults
    PROVE  TypeOK' /\ Carries'
<1>1. wk' = [wk EXCEPT ![w] = Rest] /\ wk' \in [Worker -> Local]
  BY RestType DEF Leave, TypeOK
<1>2. torn' \subseteq Key \X Time
  BY SamplesType DEF Leave, TypeOK
<1>3. TypeOK'
  BY <1>1, <1>2 DEF Leave, TypeOK
<1>4. Carries'
  BY <1>1 DEF Carries, Rest, TypeOK
<1> QED BY <1>3, <1>4

\* Every statement of ingest_payload keeps the types and its payload.
LEMMA StepType ==
    ASSUME TypeOK, Carries, NEW w \in Worker, Step(w)
    PROVE  TypeOK' /\ Carries'
<1>0. wk[w] \in Local
  BY DEF TypeOK
<1>1. CASE LoadSensors(w)
  <2>1. DOMAIN Sample[wk[w].time] \subseteq Key
    BY <1>1, SampleAssumption DEF LoadSensors, Carries
  <2>2. [wk[w] EXCEPT !.pc = "loop", !.todo = DOMAIN Sample[wk[w].time],
                      !.known = {k \in DOMAIN Sample[wk[w].time] : Live(k)}] \in Local
    BY <1>0, <2>1 DEF Local
  <2>3. wk' \in [Worker -> Local]
    BY <1>1, <2>2 DEF LoadSensors, TypeOK
  <2>4. Carries'
    BY <1>0, <1>1 DEF LoadSensors, Carries, TypeOK, Local
  <2> QED BY <1>1, <2>3, <2>4 DEF LoadSensors, TypeOK
<1>2. ASSUME NEW k \in Key, CreateSensor(w, k) PROVE TypeOK' /\ Carries'
  <2>1. [wk[w] EXCEPT !.pc = "made", !.key = k] \in Local
    BY <1>0 DEF Local
  <2>2. wk' \in [Worker -> Local]
    BY <1>2, <2>1 DEF CreateSensor, TypeOK
  <2>3. [sensor[k] EXCEPT !.state = "live"] \in Sensor
    BY DEF TypeOK, Sensor
  <2>4. sensor' \in [Key -> Sensor]
    BY <1>2, <2>3 DEF CreateSensor, TypeOK
  <2>5. Carries'
    BY <1>0, <1>2 DEF CreateSensor, Carries, TypeOK, Local
  <2> QED BY <1>2, <2>2, <2>4, <2>5 DEF CreateSensor, TypeOK
<1>3. ASSUME NEW k \in Key, CreateConflict(w, k) PROVE TypeOK' /\ Carries'
  BY <1>3, LeaveType DEF CreateConflict, TypeOK
<1>4. ASSUME NEW k \in Key, UpdateSensor(w, k) PROVE TypeOK' /\ Carries'
  <2>1. [wk[w] EXCEPT !.pc = "loop", !.key = None, !.todo = @ \ {k}, !.known = @ \ {k},
                      !.done = @ \union {k}] \in Local
    BY <1>0 DEF Local
  <2>2. wk' \in [Worker -> Local]
    BY <1>4, <2>1 DEF UpdateSensor, TypeOK
  <2>3. [sensor[k] EXCEPT !.at = wk[w].time] \in Sensor
    BY <1>0 DEF TypeOK, Sensor, Local
  <2>4. sensor' \in [Key -> Sensor]
    BY <1>4, <2>3 DEF UpdateSensor, Stamp, TypeOK
  <2>5. Carries'
    BY <1>0, <1>4 DEF UpdateSensor, Carries, TypeOK, Local
  <2> QED BY <1>4, <2>2, <2>4, <2>5 DEF UpdateSensor, TypeOK
<1>5. CASE Store(w)
  <2>1. reading' \subseteq Key \X Time
    BY <1>5, SamplesType DEF Store, TypeOK
  <2>2. [wk[w] EXCEPT !.pc = "cast"] \in Local
    BY <1>0 DEF Local
  <2>3. wk' \in [Worker -> Local]
    BY <1>5, <2>2 DEF Store, TypeOK
  <2>4. Carries'
    BY <1>0, <1>5 DEF Store, Carries, TypeOK, Local
  <2> QED BY <1>5, <2>1, <2>3, <2>4 DEF Store, TypeOK
<1>6. CASE Cast(w)
  <2>1. [wk[w] EXCEPT !.pc = "evaluate"] \in Local
    BY <1>0 DEF Local
  <2>2. wk' \in [Worker -> Local]
    BY <1>6, <2>1 DEF Cast, TypeOK
  <2>3. Carries'
    BY <1>0, <1>6 DEF Cast, Carries, TypeOK, Local
  <2> QED BY <1>6, <2>2, <2>3 DEF Cast, TypeOK
<1>7. CASE Evaluate(w)
  <2>1. [Rest EXCEPT !.pc = "judge", !.pairs = Pairs(w)] \in Local
    BY RestType, PairsType DEF Local
  <2>2. wk' = [wk EXCEPT ![w] = [Rest EXCEPT !.pc = "judge", !.pairs = Pairs(w)]]
    BY <1>7 DEF Evaluate
  <2>3. wk' \in [Worker -> Local]
    BY <2>1, <2>2 DEF TypeOK
  <2>4. [Rest EXCEPT !.pc = "judge", !.pairs = Pairs(w)].pc = "judge"
    BY DEF Rest
  <2>5. Carries'
    BY <2>2, <2>4 DEF Carries, TypeOK
  <2> QED BY <1>7, <2>3, <2>5 DEF Evaluate, TypeOK
<1>8. ASSUME NEW j \in wk[w].pairs, Judge(w, j) PROVE TypeOK' /\ Carries'
  <2>1. [wk[w] EXCEPT !.pairs = @ \ {j}] \in Local
    BY <1>0 DEF Local
  <2>2. wk' \in [Worker -> Local]
    BY <1>8, <2>1 DEF Judge, TypeOK
  <2>3. j \in Judgement
    BY <1>0 DEF Local
  <2>4. j.rule \in Rule
    BY <2>3 DEF Judgement
  <2>5. open' \subseteq Rule
    BY <1>8, <2>4 DEF Judge, Verdict, TypeOK
  <2>6. Carries'
    BY <1>0, <1>8 DEF Judge, Carries, TypeOK, Local
  <2> QED BY <1>8, <2>2, <2>5, <2>6 DEF Judge, TypeOK
<1>9. CASE Return(w)
  <2>1. wk' = [wk EXCEPT ![w] = Rest] /\ wk' \in [Worker -> Local]
    BY <1>9, RestType DEF Return, TypeOK
  <2>2. Carries'
    BY <2>1 DEF Carries, Rest, TypeOK
  <2> QED BY <1>9, <2>1, <2>2 DEF Return, TypeOK
<1> QED BY <1>1, <1>2, <1>3, <1>4, <1>5, <1>6, <1>7, <1>8, <1>9 DEF Step

\* The purge, one statement at a time, keeps the types and its ids.
LEMMA PurgeKeeps ==
    ASSUME TypeOK, PurgeSound, PurgeBegin \/ PurgeStep \/ PurgeKilled
    PROVE  TypeOK' /\ PurgeSound'
<1>0. purge \in Purge /\ horizon \in 1..(MaxTime + 1) /\ MaxTime \in Nat
  BY TimeAssumption DEF TypeOK
<1>1. CASE PurgeBegin
  <2>1. purge' = [pc |-> "select", cutoff |-> horizon, ids |-> {}]
    BY <1>1 DEF PurgeBegin, NoPurge
  <2>2. purge' \in Purge
    BY <1>0, <2>1 DEF Purge
  <2>3. purge'.cutoff = horizon /\ purge'.ids = {}
    BY <2>1
  <2>4. horizon' = horizon
    BY <1>1 DEF PurgeBegin
  <2>5. purge'.cutoff = horizon' /\ purge'.ids = {} /\ horizon' \in Int
    BY <1>0, <2>3, <2>4
  <2>6. PurgeSound'
    BY <2>5 DEF PurgeSound
  <2> QED BY <1>1, <2>2, <2>6 DEF PurgeBegin, TypeOK
<1>2. ASSUME NEW ids \in SUBSET Old, PurgeSelect(ids) PROVE TypeOK' /\ PurgeSound'
  <2>1. ids \subseteq Key \X Time /\ \A s \in ids : s[2] < purge.cutoff
    BY DEF Old, Expired, TypeOK
  <2>2. purge' = [purge EXCEPT !.pc = "delete", !.ids = ids]
    BY <1>2 DEF PurgeSelect
  <2>3. purge' \in Purge /\ purge'.cutoff = purge.cutoff /\ purge'.ids = ids
    BY <1>0, <2>1, <2>2 DEF Purge
  <2>4. PurgeSound'
    BY <1>2, <2>1, <2>3 DEF PurgeSound, PurgeSelect
  <2> QED BY <1>2, <2>3, <2>4 DEF PurgeSelect, TypeOK
<1>3. CASE PurgeDone
  <2>1. PurgeSound'
    BY <1>0, <1>3 DEF PurgeSound, PurgeDone, NoPurge
  <2> QED BY <1>3, <2>1, RestType DEF PurgeDone, TypeOK
<1>4. CASE PurgeDelete
  <2>1. purge' \in Purge /\ purge'.cutoff = purge.cutoff /\ purge'.ids = {}
    BY <1>0, <1>4 DEF PurgeDelete, Purge
  <2>2. PurgeSound'
    BY <1>4, <2>1 DEF PurgeSound, PurgeDelete
  <2> QED BY <1>4, <2>1, <2>2 DEF PurgeDelete, TypeOK
<1>5. CASE PurgeKilled
  <2>1. PurgeSound'
    BY <1>0, <1>5 DEF PurgeSound, PurgeKilled, NoPurge
  <2>2. faults' \in 0..MaxFaults
    BY <1>5, TimeAssumption DEF PurgeKilled, Fault, TypeOK
  <2> QED BY <1>5, <2>1, <2>2, RestType DEF PurgeKilled, TypeOK
<1> QED BY <1>1, <1>2, <1>3, <1>4, <1>5 DEF PurgeStep

\* Every step keeps the types, the workers' payloads and the purge's ids.
LEMMA NextType ==
    ASSUME TypeOK, Carries, PurgeSound, [Next]_vars
    PROVE  TypeOK' /\ Carries' /\ PurgeSound'
<1>1. ASSUME NEW w \in Worker, NEW t \in Time, Begin(w, t)
      PROVE  TypeOK' /\ Carries' /\ PurgeSound'
  <2>1. [Rest EXCEPT !.pc = "load", !.time = t] \in Local
    <3>1. t \in 0..MaxTime
      BY TimeAssumption DEF Time
    <3> QED BY <3>1, RestType DEF Local
  <2>2. wk' = [wk EXCEPT ![w] = [Rest EXCEPT !.pc = "load", !.time = t]]
    BY <1>1 DEF Begin
  <2>3. wk' \in [Worker -> Local]
    BY <2>1, <2>2 DEF TypeOK
  <2>4. [Rest EXCEPT !.pc = "load", !.time = t].time = t
    BY DEF Rest
  <2>5. Carries'
    BY <2>2, <2>4 DEF Carries, TypeOK
  <2>6. PurgeSound'
    BY <1>1 DEF Begin, PurgeSound
  <2> QED BY <1>1, <2>3, <2>5, <2>6 DEF Begin, TypeOK
<1>2. ASSUME NEW w \in Worker, Step(w) PROVE TypeOK' /\ Carries' /\ PurgeSound'
  <2>1. purge' = purge /\ horizon' = horizon
    BY <1>2 DEF Step, LoadSensors, CreateSensor, CreateConflict, Leave, UpdateSensor, Store,
       Cast, Evaluate, Judge, Return
  <2> QED BY <1>2, <2>1, StepType DEF PurgeSound
<1>3. ASSUME NEW w \in Worker, Stop(w) PROVE TypeOK' /\ Carries' /\ PurgeSound'
  <2>1. faults' \in 0..MaxFaults
    BY <1>3, TimeAssumption DEF Stop, Fault, TypeOK
  <2>2. Leave(w)
    BY <1>3 DEF Stop
  <2>3. PurgeSound'
    BY <2>2 DEF Leave, PurgeSound
  <2> QED BY <2>1, <2>2, <2>3, LeaveType
<1>4. ASSUME NEW w \in Worker, EvaluationSwallowed(w) PROVE TypeOK' /\ Carries' /\ PurgeSound'
  <2>1. wk' = [wk EXCEPT ![w] = Rest] /\ wk' \in [Worker -> Local]
    BY <1>4, RestType DEF EvaluationSwallowed, TypeOK
  <2>2. Carries'
    BY <2>1 DEF Carries, Rest, TypeOK
  <2>3. faults' \in 0..MaxFaults
    BY <1>4, TimeAssumption DEF EvaluationSwallowed, Fault, TypeOK
  <2> QED BY <1>4, <2>1, <2>2, <2>3 DEF EvaluationSwallowed, TypeOK, PurgeSound
<1>5. ASSUME NEW r \in Rule, CloseAlert(r) PROVE TypeOK' /\ Carries' /\ PurgeSound'
  BY <1>5 DEF CloseAlert, TypeOK, Carries, PurgeSound
<1>6. ASSUME NEW k \in Key, DeleteSensor(k) PROVE TypeOK' /\ Carries' /\ PurgeSound'
  <2>1. [sensor[k] EXCEPT !.state = "deleted"] \in Sensor
    BY DEF TypeOK, Sensor
  <2>2. sensor' \in [Key -> Sensor]
    BY <1>6, <2>1 DEF DeleteSensor, TypeOK
  <2> QED BY <1>6, <2>2 DEF DeleteSensor, TypeOK, Carries, PurgeSound
<1>7. CASE Age
  <2>1. horizon \in 1..(MaxTime + 1) /\ MaxTime \in Nat /\ purge.cutoff \in 0..(MaxTime + 1)
    BY TimeAssumption DEF TypeOK, Purge
  <2>2. PurgeSound'
    BY <1>7, <2>1 DEF Age, PurgeSound
  <2>3. horizon' \in 1..(MaxTime + 1)
    BY <1>7, <2>1 DEF Age
  <2> QED BY <1>7, <2>2, <2>3 DEF Age, TypeOK, Carries
<1>8. CASE PurgeBegin \/ PurgeStep \/ PurgeKilled
  <2>1. wk' = wk
    BY <1>8 DEF PurgeBegin, PurgeStep, PurgeSelect, PurgeDone, PurgeDelete, PurgeKilled
  <2> QED BY <1>8, <2>1, PurgeKeeps DEF Carries
<1>9. CASE UNCHANGED vars
  BY <1>9 DEF vars, TypeOK, Carries, PurgeSound
<1> QED BY <1>1, <1>2, <1>3, <1>4, <1>5, <1>6, <1>7, <1>8, <1>9 DEF Next

-----------------------------------------------------------------------------
(* The latest sample stays backed *)

\* A worker before bulk_create with a sample of key k and time t.
Holder(w, k, t) == wk[w].pc \in {"loop", "made"} /\ <<k, t>> \in Samples(w)

\* Only bulk_create and an exception take a sample from its worker, and each
\* leaves it where Backed looks for it.
LEMMA HolderStays ==
    ASSUME TypeOK, [Next]_vars, NEW w \in Worker, NEW k \in Key, NEW t \in Time, Holder(w, k, t)
    PROVE  Holder(w, k, t)' \/ <<k, t>> \in reading' \/ <<k, t>> \in torn'
<1> DEFINE Goal == Holder(w, k, t)' \/ <<k, t>> \in reading' \/ <<k, t>> \in torn'
<1>0. wk[w] \in Local
  BY DEF TypeOK
<1>1. ASSUME wk'[w] = wk[w] PROVE Goal
  BY <1>1 DEF Holder, Samples
<1>2. ASSUME NEW v \in Worker, v # w, wk' = [wk EXCEPT ![v] = wk'[v]] PROVE Goal
  <2>1. wk'[w] = wk[w]
    BY <1>2 DEF TypeOK
  <2> QED BY <2>1, <1>1
<1>3. ASSUME Leave(w) PROVE Goal
  BY <1>3 DEF Leave, Holder
<1>4. CASE LoadSensors(w) \/ Cast(w) \/ Evaluate(w) \/ Return(w) \/ \E j \in wk[w].pairs : Judge(w, j)
  BY <1>4 DEF LoadSensors, Cast, Evaluate, Return, Judge, Holder
<1>5. ASSUME NEW j \in Key, CreateSensor(w, j) PROVE Goal
  BY <1>0, <1>5 DEF CreateSensor, Holder, Samples, TypeOK, Local
<1>6. ASSUME NEW j \in Key, UpdateSensor(w, j) PROVE Goal
  BY <1>0, <1>6 DEF UpdateSensor, Holder, Samples, TypeOK, Local
<1>7. CASE Store(w)
  BY <1>7 DEF Store, Holder
<1>8. ASSUME Step(w) PROVE Goal
  BY <1>8, <1>3, <1>4, <1>5, <1>6, <1>7 DEF Step, CreateConflict
<1>9. ASSUME NEW v \in Worker, v # w, Step(v) \/ Stop(v) \/ EvaluationSwallowed(v) PROVE Goal
  <2>1. wk' = [wk EXCEPT ![v] = wk'[v]]
    BY <1>9 DEF Step, LoadSensors, CreateSensor, CreateConflict, Leave, UpdateSensor, Store,
       Cast, Evaluate, Judge, Return, Stop, EvaluationSwallowed, TypeOK
  <2> QED BY <1>9, <2>1, <1>2
<1>10. ASSUME NEW v \in Worker, NEW s \in Time, Begin(v, s) PROVE Goal
  <2>1. v # w
    BY <1>10 DEF Begin, Holder
  <2>2. wk'[w] = wk[w]
    BY <1>10, <2>1 DEF Begin, TypeOK
  <2> QED BY <2>2, <1>1
<1>11. CASE Stop(w) \/ EvaluationSwallowed(w)
  BY <1>11, <1>3 DEF Stop, EvaluationSwallowed, Holder
<1>12. CASE \/ (\E r \in Rule : CloseAlert(r)) \/ (\E j \in Key : DeleteSensor(j)) \/ Age
            \/ PurgeBegin \/ PurgeStep \/ PurgeKilled \/ UNCHANGED vars
  <2>1. wk' = wk
    BY <1>12 DEF CloseAlert, DeleteSensor, Age, PurgeBegin, PurgeStep, PurgeSelect, PurgeDone,
       PurgeDelete, PurgeKilled, vars
  <2> QED BY <2>1, <1>1
<1> QED BY <1>8, <1>9, <1>10, <1>11, <1>12 DEF Next

\* Nothing but PurgeDelete takes readings away, and nothing but Age moves the
\* retention period.
LEMMA TablesEffect ==
    ASSUME [Next]_vars
    PROVE  /\ reading \subseteq reading' \/ PurgeDelete
           /\ torn \subseteq torn' /\ gone \subseteq gone'
           /\ horizon' = horizon \/ Age
<1> DEFINE Goal == /\ reading \subseteq reading' \/ PurgeDelete
                   /\ torn \subseteq torn' /\ gone \subseteq gone'
                   /\ horizon' = horizon \/ Age
<1>1. ASSUME NEW w \in Worker, Leave(w) PROVE Goal
  <2>1. torn \subseteq torn'
    BY <1>1 DEF Leave
  <2> QED BY <1>1, <2>1 DEF Leave
<1>2. ASSUME NEW w \in Worker, Step(w) PROVE Goal
  <2>1. ASSUME NEW k \in Key, CreateConflict(w, k) PROVE Goal
    BY <1>1, <2>1 DEF CreateConflict
  <2>2. ASSUME NEW k \in Key, CreateSensor(w, k) \/ UpdateSensor(w, k) PROVE Goal
    BY <2>2 DEF CreateSensor, UpdateSensor
  <2>3. CASE LoadSensors(w) \/ Cast(w) \/ Evaluate(w) \/ Return(w)
    BY <2>3 DEF LoadSensors, Cast, Evaluate, Return
  <2>4. CASE Store(w)
    BY <2>4 DEF Store
  <2>5. ASSUME NEW j \in wk[w].pairs, Judge(w, j) PROVE Goal
    BY <2>5 DEF Judge
  <2> QED BY <1>2, <2>1, <2>2, <2>3, <2>4, <2>5 DEF Step
<1>3. ASSUME NEW w \in Worker, Stop(w) \/ EvaluationSwallowed(w) PROVE Goal
  BY <1>1, <1>3 DEF Stop, EvaluationSwallowed
<1>4. ASSUME NEW w \in Worker, NEW t \in Time, Begin(w, t) PROVE Goal
  BY <1>4 DEF Begin
<1>5. CASE (\E r \in Rule : CloseAlert(r)) \/ (\E k \in Key : DeleteSensor(k)) \/ Age
  BY <1>5 DEF CloseAlert, DeleteSensor, Age
<1>6. CASE PurgeBegin \/ PurgeStep \/ PurgeKilled
  BY <1>6 DEF PurgeBegin, PurgeStep, PurgeSelect, PurgeDone, PurgeDelete, PurgeKilled
<1>7. CASE UNCHANGED vars
  BY <1>7 DEF vars
<1> QED BY <1>2, <1>3, <1>4, <1>5, <1>6, <1>7 DEF Next

\* Readings go only when they are past the retention period, and into the
\* history of what the purge deleted; histories and period only grow.
LEMMA TablesGrow ==
    ASSUME TypeOK, PurgeSound, [Next]_vars
    PROVE  /\ \A s \in reading : s \in reading' \/ (s \in gone' /\ s[2] < horizon)
           /\ torn \subseteq torn' /\ gone \subseteq gone'
           /\ horizon \in Nat /\ horizon' \in Nat /\ horizon <= horizon'
<1>0. horizon \in Nat /\ purge.cutoff \in Nat /\ \A s \in purge.ids : s[2] \in Nat
  BY TimeAssumption DEF TypeOK, Purge, Time
<1>1. horizon' = horizon \/ horizon' = horizon + 1
  BY TablesEffect DEF Age
<1>2. CASE PurgeDelete
  <2>1. \A s \in purge.ids : s[2] < horizon
    BY <1>0 DEF PurgeSound
  <2>2. \A s \in reading : s \in reading' \/ (s \in gone' /\ s[2] < horizon)
    BY <1>2, <2>1 DEF PurgeDelete
  <2> QED BY <1>0, <1>1, <2>2, TablesEffect
<1>3. CASE reading \subseteq reading'
  BY <1>0, <1>1, <1>3, TablesEffect
<1> QED BY <1>2, <1>3, TablesEffect

\* A sample that is backed stays backed.
LEMMA BackedStays ==
    ASSUME TypeOK, PurgeSound, [Next]_vars, NEW k \in Key, NEW t \in Time, Backed(k, t)
    PROVE  Backed(k, t)'
<1>0. horizon \in Nat /\ horizon' \in Nat /\ t \in Nat
  BY TablesGrow DEF Time
<1>1. CASE <<k, t>> \in gone /\ t < horizon
  <2>1. t < horizon'
    BY <1>0, <1>1, TablesGrow
  <2> QED BY <1>1, <2>1, TablesGrow DEF Backed
<1>2. CASE <<k, t>> \in torn
  BY <1>2, TablesGrow DEF Backed
<1>3. CASE <<k, t>> \in reading
  <2>1. <<k, t>> \in reading' \/ (<<k, t>> \in gone' /\ t < horizon)
    BY <1>3, TablesGrow
  <2>2. t < horizon => t < horizon'
    BY <1>0, TablesGrow
  <2> QED BY <2>1, <2>2 DEF Backed
<1>4. ASSUME NEW w \in Worker, Holder(w, k, t) PROVE Backed(k, t)'
  BY <1>4, HolderStays DEF Backed, Holder
<1> QED BY <1>1, <1>2, <1>3, <1>4 DEF Backed, Holder

\* Only UpdateSensor moves last_reading_at, and its worker holds the sample.
LEMMA LatestBackedStep ==
    ASSUME TypeOK, Carries, PurgeSound, LatestBacked, [Next]_vars
    PROVE  LatestBacked'
<1> SUFFICES ASSUME NEW k \in Key, sensor'[k].at # 0 PROVE Backed(k, sensor[k].at)'
  BY DEF LatestBacked
<1>1. CASE sensor'[k].at = sensor[k].at
  <2>1. sensor[k].at \in Time /\ Backed(k, sensor[k].at)
    BY <1>1, TimeAssumption DEF TypeOK, Sensor, LatestBacked, Time
  <2>2. ASSUME NEW t \in Time, Backed(k, t) PROVE Backed(k, t)'
    BY <2>2, BackedStays
  <2> QED BY <1>1, <2>1, <2>2 DEF Backed
<1>2. ASSUME NEW w \in Worker, UpdateSensor(w, k) PROVE Backed(k, sensor[k].at)'
  <2>1. sensor'[k].at = wk[w].time
    BY <1>2 DEF UpdateSensor, Stamp, TypeOK, Sensor
  <2>2. wk'[w].pc = "loop" /\ wk'[w].time = wk[w].time /\ k \in wk'[w].done
    BY <1>2 DEF UpdateSensor, TypeOK, Local
  <2>3. <<k, wk[w].time>> \in Samples(w)'
    BY <2>2 DEF Samples
  <2> QED BY <2>1, <2>2, <2>3 DEF Backed
<1>3. ASSUME \A w \in Worker : ~ UpdateSensor(w, k) PROVE sensor'[k].at = sensor[k].at
  <2>1. ASSUME NEW w \in Worker, NEW j \in Key, UpdateSensor(w, j) PROVE sensor'[k].at = sensor[k].at
    BY <1>3, <2>1 DEF UpdateSensor, TypeOK
  <2>2. ASSUME NEW w \in Worker, NEW j \in Key, CreateSensor(w, j) PROVE sensor'[k].at = sensor[k].at
    BY <2>2 DEF CreateSensor, TypeOK, Sensor
  <2>3. ASSUME NEW j \in Key, DeleteSensor(j) PROVE sensor'[k].at = sensor[k].at
    BY <2>3 DEF DeleteSensor, TypeOK, Sensor
  <2> QED BY <2>1, <2>2, <2>3 DEF Next, Begin, Step, LoadSensors, CreateConflict, Leave, Store,
        Cast, Evaluate, Judge, Return, Stop, EvaluationSwallowed, CloseAlert, Age, PurgeBegin,
        PurgeStep, PurgeSelect, PurgeDone, PurgeDelete, PurgeKilled, vars
<1> QED BY <1>1, <1>2, <1>3

-----------------------------------------------------------------------------
(* Which sensors a rule is evaluated on *)

\* The filters of _rule_scope_q and _sensors_for_rule let a sensor through
\* exactly if the rule's scope has it.
LEMMA ScopeMember ==
    ASSUME NEW rule, NEW org, NEW d, NEW sensors, NEW s \in sensors,
           \A t \in sensors : t.id # None /\ t.sensor_type # "",
           rule.organization = org, rule.is_active, rule.source = "sensor"
    PROVE  s \in Evaluated(rule, org, d, sensors) <=> InScope(rule, d, s)
<1> DEFINE ids == {t.id : t \in sensors}
<1>1. Selected(rule, org, d, ids) <=> RuleScope(rule, d, ids)
  BY DEF Selected
<1>2. s.id \in ids
  OBVIOUS
<1>3. CASE rule.sensor # None
  <2>1. s.id = rule.sensor => RuleScope(rule, d, ids)
    BY <1>2 DEF RuleScope
  <2> QED BY <1>1, <1>3, <2>1 DEF Evaluated, SensorsForRule, InScope
<1>4. CASE rule.sensor = None
  <2>1. None \notin ids
    OBVIOUS
  <2>2. RuleScope(rule, d, ids) <=> rule.device \in {None, d}
    BY <1>4, <2>1 DEF RuleScope
  <2> QED BY <1>1, <1>4, <2>2 DEF Evaluated, SensorsForRule, InScope
<1> QED BY <1>3, <1>4

\* For every rule, device and set of sensors (each with a type), the filters of
\* _rule_scope_q and _sensors_for_rule together evaluate a rule on exactly the
\* sensors in its scope.
THEOREM ScopeCorrect ==
    ASSUME NEW rule, NEW org, NEW d, NEW sensors,
           \A s \in sensors : s.id # None /\ s.sensor_type # "",
           rule.organization = org, rule.is_active, rule.source = "sensor"
    PROVE  Evaluated(rule, org, d, sensors) = {s \in sensors : InScope(rule, d, s)}
<1>1. \A s \in sensors : s \in Evaluated(rule, org, d, sensors) <=> InScope(rule, d, s)
  BY ScopeMember
<1>2. Evaluated(rule, org, d, sensors) \subseteq sensors
  BY DEF Evaluated, SensorsForRule
<1> QED BY <1>1, <1>2

-----------------------------------------------------------------------------
(* Open alerts have a cause *)

\* Rule r is in force on sensor k of this device.
InForce(r, k) ==
    /\ RuleRow[r].organization = Org /\ RuleRow[r].is_active
    /\ InScope(RuleRow[r], Dev, [id |-> k, sensor_type |-> GuessType(k)])

\* What a worker has still to judge are sensors in the scope of their rule,
\* each as of a sample that is backed.
PairsCaused ==
    \A w \in Worker : \A j \in wk[w].pairs :
        InForce(j.rule, j.key) /\ (j.at # 0 => Backed(j.key, j.at))

\* Every sensor has a type.
LEMMA GuessNamed == ASSUME NEW k \in Key PROVE GuessType(k) # ""
<1> DEFINE hits == {i \in 1..13 : Guess[i][1] \in Needles[k]}
           first == CHOOSE i \in hits : \A j \in hits : i <= j
<1>1. CASE hits = {}
  BY <1>1 DEF GuessType
<1>2. CASE hits # {}
  <2>1. \E i \in hits : \A j \in hits : i <= j
    BY <1>2
  <2>2. first \in 1..13
    BY <2>1
  <2>3. \A i \in 1..13 : Guess[i][2] # ""
    <3>1. /\ Guess[1][2] # "" /\ Guess[2][2] # "" /\ Guess[3][2] # "" /\ Guess[4][2] # ""
          /\ Guess[5][2] # "" /\ Guess[6][2] # "" /\ Guess[7][2] # "" /\ Guess[8][2] # ""
          /\ Guess[9][2] # "" /\ Guess[10][2] # "" /\ Guess[11][2] # "" /\ Guess[12][2] # ""
          /\ Guess[13][2] # ""
      BY DEF Guess
    <3>2. \A i \in 1..13 : i \in {1, 2, 3, 4, 5, 6, 7, 8, 9, 10, 11, 12, 13}
      OBVIOUS
    <3> HIDE DEF Guess
    <3> QED BY <3>1, <3>2
  <2>4. GuessType(k) = Guess[first][2]
    BY <1>2 DEF GuessType
  <2> QED BY <2>2, <2>3, <2>4
<1> QED BY <1>1, <1>2

\* The filters pick sensors in scope, and each pair takes the sensor as it is.
LEMMA PairsInForce ==
    ASSUME TypeOK, NEW w \in Worker, NEW j \in Pairs(w)
    PROVE  /\ InForce(j.rule, j.key)
           /\ j.key \in Key /\ j.at = sensor[j.key].at
<1>1. PICK q \in Rule \X Fresh(w) :
        /\ q[2] \in Evaluated(RuleRow[q[1]], Org, Dev, Fresh(w))
        /\ j = [rule |-> q[1], key |-> q[2].id, at |-> sensor[q[2].id].at]
  BY DEF Pairs
<1> DEFINE r == q[1]  f == q[2]
<1>2. ASSUME NEW g \in Fresh(w) 
      PROVE  /\ g.id \in Key /\ g = [id |-> g.id, sensor_type |-> GuessType(g.id)]
             /\ g.sensor_type = GuessType(g.id)
  <2>1. wk[w].done \subseteq Key
    BY DEF TypeOK, Local
  <2>2. PICK k \in wk[w].done : g = [id |-> k, sensor_type |-> GuessType(k)]
    BY DEF Fresh
  <2> HIDE DEF GuessType
  <2> QED BY <2>1, <2>2
<1>3. \A g \in Fresh(w) : g.id # None /\ g.sensor_type # ""
  <2> TAKE g \in Fresh(w)
  <2>1. g.id \in Key /\ g.sensor_type = GuessType(g.id)
    BY <1>2
  <2> QED BY <2>1, GuessNamed, KeyAssumption
<1>4. RuleRow[r].organization = Org /\ RuleRow[r].is_active /\ RuleRow[r].source = "sensor"
  BY <1>1 DEF Evaluated, Selected
<1>5. InScope(RuleRow[r], Dev, f)
  <2>1. f \in Fresh(w)
    BY <1>1
  <2>2. f \in Evaluated(RuleRow[r], Org, Dev, Fresh(w)) <=> InScope(RuleRow[r], Dev, f)
    BY <1>3, <1>4, <2>1, ScopeMember
  <2> QED BY <1>1, <2>2
<1>6. f \in Fresh(w) /\ j.rule = r /\ j.key = f.id /\ j.at = sensor[f.id].at
  BY <1>1
<1>7. f = [id |-> f.id, sensor_type |-> GuessType(f.id)] /\ f.id \in Key
  BY <1>2, <1>6
<1> QED BY <1>4, <1>5, <1>6, <1>7 DEF InForce

\* Judgements are made by Evaluate and only used up afterwards.
LEMMA PairsEffect ==
    ASSUME TypeOK, [Next]_vars, NEW w \in Worker
    PROVE  wk'[w].pairs \subseteq wk[w].pairs \/ (wk'[w].pairs = Pairs(w) /\ sensor' = sensor)
<1> DEFINE Goal == wk'[w].pairs \subseteq wk[w].pairs \/ (wk'[w].pairs = Pairs(w) /\ sensor' = sensor)
<1>0. wk[w] \in Local /\ Rest.pairs = {}
  BY DEF TypeOK, Rest
<1>1. ASSUME wk'[w] = Rest PROVE Goal
  BY <1>0, <1>1
<1>2. ASSUME NEW v \in Worker, v # w, wk' = [wk EXCEPT ![v] = wk'[v]] PROVE Goal
  BY <1>2 DEF TypeOK
<1>3. ASSUME Step(w) PROVE Goal
  <2>1. CASE LoadSensors(w) \/ Store(w) \/ Cast(w)
    BY <1>0, <2>1 DEF LoadSensors, Store, Cast, TypeOK, Local
  <2>2. ASSUME NEW k \in Key, CreateSensor(w, k) \/ UpdateSensor(w, k) PROVE Goal
    BY <1>0, <2>2 DEF CreateSensor, UpdateSensor, TypeOK, Local
  <2>3. ASSUME NEW k \in Key, CreateConflict(w, k) PROVE Goal
    BY <1>1, <2>3 DEF CreateConflict, Leave, TypeOK
  <2>4. CASE Evaluate(w)
    <3>1. wk'[w] = [Rest EXCEPT !.pc = "judge", !.pairs = Pairs(w)] /\ sensor' = sensor
      BY <2>4 DEF Evaluate, TypeOK
    <3> QED BY <3>1 DEF Rest
  <2>5. ASSUME NEW j \in wk[w].pairs, Judge(w, j) PROVE Goal
    BY <1>0, <2>5 DEF Judge, TypeOK, Local
  <2>6. CASE Return(w)
    BY <1>1, <2>6 DEF Return, TypeOK
  <2> QED BY <1>3, <2>1, <2>2, <2>3, <2>4, <2>5, <2>6 DEF Step
<1>4. ASSUME NEW v \in Worker, v # w, Step(v) \/ Stop(v) \/ EvaluationSwallowed(v) PROVE Goal
  <2>1. wk' = [wk EXCEPT ![v] = wk'[v]]
    BY <1>4 DEF Step, LoadSensors, CreateSensor, CreateConflict, Leave, UpdateSensor, Store,
       Cast, Evaluate, Judge, Return, Stop, EvaluationSwallowed, TypeOK
  <2> QED BY <1>4, <2>1, <1>2
<1>5. CASE Stop(w) \/ EvaluationSwallowed(w)
  BY <1>1, <1>5 DEF Stop, Leave, EvaluationSwallowed, TypeOK
<1>6. ASSUME NEW v \in Worker, NEW t \in Time, Begin(v, t) PROVE Goal
  <2>1. CASE v = w
    BY <1>0, <1>6, <2>1 DEF Begin, TypeOK, Rest
  <2>2. CASE v # w
    BY <1>6, <2>2 DEF Begin, TypeOK
  <2> QED BY <2>1, <2>2
<1>7. CASE \/ (\E r \in Rule : CloseAlert(r)) \/ (\E k \in Key : DeleteSensor(k)) \/ Age
           \/ PurgeBegin \/ PurgeStep \/ PurgeKilled \/ UNCHANGED vars
  <2>1. wk' = wk
    BY <1>7 DEF CloseAlert, DeleteSensor, Age, PurgeBegin, PurgeStep, PurgeSelect, PurgeDone,
       PurgeDelete, PurgeKilled, vars
  <2> QED BY <2>1
<1> QED BY <1>3, <1>4, <1>5, <1>6, <1>7 DEF Next

\* Evaluate reads sensors whose samples are backed, and samples stay backed.
LEMMA PairsCausedStep ==
    ASSUME TypeOK, PurgeSound, LatestBacked, PairsCaused, [Next]_vars
    PROVE  PairsCaused'
<1> SUFFICES ASSUME NEW w \in Worker, NEW j \in wk'[w].pairs
             PROVE  InForce(j.rule, j.key) /\ (j.at # 0 => Backed(j.key, j.at)')
  BY DEF PairsCaused, InForce
<1>1. ASSUME NEW k \in Key, NEW t \in 0..MaxTime, t # 0, Backed(k, t) PROVE Backed(k, t)'
  <2>1. t \in Time
    BY <1>1, TimeAssumption DEF Time
  <2> QED BY <1>1, <2>1, BackedStays
<1>2. CASE j \in wk[w].pairs
  <2>1. j.key \in Key /\ j.at \in 0..MaxTime
    BY <1>2 DEF TypeOK, Local, Judgement
  <2>2. InForce(j.rule, j.key) /\ (j.at # 0 => Backed(j.key, j.at))
    BY <1>2 DEF PairsCaused
  <2> QED BY <1>1, <2>1, <2>2
<1>3. CASE j \in Pairs(w)
  <2>1. InForce(j.rule, j.key) /\ j.key \in Key /\ j.at = sensor[j.key].at
    BY <1>3, PairsInForce
  <2>2. j.at \in 0..MaxTime
    BY <2>1 DEF TypeOK, Sensor
  <2>3. j.at # 0 => Backed(j.key, j.at)
    BY <2>1 DEF LatestBacked
  <2> QED BY <1>1, <2>1, <2>2, <2>3
<1> QED BY <1>2, <1>3, PairsEffect

\* Only a judgement opens an alert.
LEMMA OpenEffect ==
    ASSUME [Next]_vars
    PROVE  open' \subseteq open \/ \E w \in Worker : \E j \in wk[w].pairs : Judge(w, j)
<1> DEFINE Goal == open' \subseteq open \/ \E w \in Worker : \E j \in wk[w].pairs : Judge(w, j)
<1>1. ASSUME NEW w \in Worker, Step(w) \/ Stop(w) \/ EvaluationSwallowed(w) PROVE Goal
  BY <1>1 DEF Step, LoadSensors, CreateSensor, CreateConflict, Leave, UpdateSensor, Store,
     Cast, Evaluate, Return, Stop, EvaluationSwallowed
<1>2. ASSUME NEW w \in Worker, NEW t \in Time, Begin(w, t) PROVE Goal
  BY <1>2 DEF Begin
<1>3. CASE (\E r \in Rule : CloseAlert(r)) \/ (\E k \in Key : DeleteSensor(k)) \/ Age
  BY <1>3 DEF CloseAlert, DeleteSensor, Age
<1>4. CASE PurgeBegin \/ PurgeStep \/ PurgeKilled \/ UNCHANGED vars
  BY <1>4 DEF PurgeBegin, PurgeStep, PurgeSelect, PurgeDone, PurgeDelete, PurgeKilled, vars
<1> QED BY <1>1, <1>2, <1>3, <1>4 DEF Next

\* The verdict on a pair that has a cause opens an alert that has one.
LEMMA AlertsHaveCauseStep ==
    ASSUME TypeOK, PurgeSound, PairsCaused, AlertsHaveCause, [Next]_vars
    PROVE  AlertsHaveCause'
<1> SUFFICES ASSUME NEW r \in open'
             PROVE  /\ RuleRow[r].organization = Org /\ RuleRow[r].is_active
                    /\ \E k \in Key, t \in Time : Cause(r, k, t)'
  BY DEF AlertsHaveCause
<1>1. CASE r \in open
  <2>1. PICK k \in Key, t \in Time : Cause(r, k, t)
    BY <1>1 DEF AlertsHaveCause
  <2>2. Cause(r, k, t)'
    BY <2>1, BackedStays DEF Cause
  <2> QED BY <1>1, <2>2 DEF AlertsHaveCause
<1>2. ASSUME NEW w \in Worker, NEW j \in wk[w].pairs, Judge(w, j), r \notin open
      PROVE  /\ RuleRow[r].organization = Org /\ RuleRow[r].is_active
             /\ \E k \in Key, t \in Time : Cause(r, k, t)'
  <2>1. r = j.rule /\ Matches(RuleRow[r], LastValue(j.key, j.at)) /\ LastValue(j.key, j.at) # None
    BY <1>2 DEF Judge, Verdict
  <2>2. j.key \in Key /\ j.at \in 0..MaxTime /\ j.at # 0
    BY <2>1 DEF TypeOK, Local, Judgement, LastValue
  <2>3. j.at \in Time
    BY <2>2, TimeAssumption DEF Time
  <2>4. InForce(r, j.key) /\ Backed(j.key, j.at)
    BY <2>1, <2>2 DEF PairsCaused
  <2>5. Cause(r, j.key, j.at)'
    BY <2>1, <2>2, <2>3, <2>4, BackedStays DEF Cause, InForce
  <2> QED BY <2>2, <2>3, <2>4, <2>5 DEF InForce
<1> QED BY <1>1, <1>2, OpenEffect

-----------------------------------------------------------------------------
(* The theorems *)

\* The inductive invariant.
IInv == TypeOK /\ Carries /\ PurgeSound /\ LatestBacked /\ PairsCaused /\ AlertsHaveCause

\* Before the first payload.
LEMMA InitIInv == Init => IInv
<1> SUFFICES ASSUME Init PROVE IInv
  OBVIOUS
<1>1. sensor \in [Key -> Sensor] /\ \A k \in Key : sensor[k].at = 0
  BY TimeAssumption DEF Init, Sensor
<1>2. wk \in [Worker -> Local] /\ \A w \in Worker : wk[w].pc = "idle" /\ wk[w].pairs = {}
  BY RestType DEF Init, Rest
<1>3. purge \in Purge /\ purge.cutoff = 0 /\ purge.ids = {}
  BY RestType DEF Init, NoPurge
<1>4. TypeOK
  BY <1>1, <1>2, <1>3, TimeAssumption DEF Init, TypeOK
<1> QED BY <1>1, <1>2, <1>3, <1>4 DEF Init, IInv, Carries, PurgeSound, LatestBacked, PairsCaused,
      AlertsHaveCause

\* IInv is an inductive invariant of ingest and retention together.
THEOREM Inductive == Spec => []IInv
<1>1. IInv /\ [Next]_vars => IInv'
  BY NextType, LatestBackedStep, PairsCausedStep, AlertsHaveCauseStep DEF IInv
<1> QED BY <1>1, InitIInv, PTL DEF Spec

\* Every variable keeps its type.
THEOREM TypeCorrect == Spec => []TypeOK
<1>1. IInv => TypeOK
  BY DEF IInv
<1> QED BY <1>1, Inductive, PTL

\* The latest sample of a sensor is backed by a reading, whatever workers,
\* faults and purges do (ingest_payload, purge_old_telemetry).
THEOREM LatestIsBacked == Spec => []LatestBacked
<1>1. IInv => LatestBacked
  BY DEF IInv
<1> QED BY <1>1, Inductive, PTL

\* Every open alert has a backed sample in its rule's scope that breached,
\* whatever happened between reading the sensor and the verdict
\* (evaluate_device_readings).
THEOREM AlertsAreCaused == Spec => []AlertsHaveCause
<1>1. IInv => AlertsHaveCause
  BY DEF IInv
<1> QED BY <1>1, Inductive, PTL

\* No reading inside the retention period is deleted (purge_old_telemetry).
THEOREM RetentionKept == Spec => PurgeSparesFresh
<1> DEFINE Kept == \A s \in reading : s \notin reading' => s[2] < horizon
<1>1. ASSUME IInv, [Next]_vars PROVE [Kept]_vars
  BY <1>1, TablesGrow DEF IInv
<1> HIDE DEF Kept
<1>2. Spec => [][Kept]_vars
  BY <1>1, Inductive, PTL DEF Spec
<1> QED BY <1>2 DEF PurgeSparesFresh, Kept
=============================================================================
