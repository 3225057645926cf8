---------------------------- MODULE FleetHealth ----------------------------
(***************************************************************************)
(* The periodic jobs that walk the fleet: rollup_device_health, which keeps   *)
(* health_score and the trend table, and evaluate_threshold_alerts, the       *)
(* backstop for battery and health rules.  Each reads its rows once, through  *)
(* a cursor, and works on the instances while everyone else goes on saving.   *)
(* How the status of a device comes about is DeviceLiveness; what raise_alert *)
(* does inside is AlertEngine.                                               *)
(***************************************************************************)
EXTENDS AlertRules

CONSTANTS
    Device,     \* the devices
    OrgOf,      \* OrgOf[d]: the organization of device d
    Payload,    \* [battery, signal] pairs devices report
    Status,     \* the statuses devices take
    Runner,     \* Celery workers that run rollup_device_health
    Rule,       \* battery and health rules
    RuleRow,    \* RuleRow[r]: the columns of rule r
    MaxWrites,  \* bound: reports, status changes and edits in one behaviour
    MaxFaults   \* bound: jobs that die in one behaviour

DeviceStatus == {"provisioning", "online", "offline", "degraded", "maintenance", "error",
                 "decommissioned"}

ASSUME StatusAssumption == Status \subseteq DeviceStatus
ASSUME PayloadAssumption == Payload \subseteq [battery : Int, signal : Int]
ASSUME NoneAssumption == None \notin Int
ASSUME BoundAssumption == MaxWrites \in Nat /\ MaxFaults \in Nat

VARIABLES
    dev,     \* the Device rows
    trend,   \* DeviceHealthSnapshot: the latest point of each device
    open,    \* <<rule, device>> pairs with an OPEN alert
    run,     \* each rollup: its statement, the instances ahead, its snapshots
    back,    \* the backstop: its statement and the raise_alert calls ahead
    edit,    \* an edit form or PATCH request: the instance it loaded
    had,     \* history: what each row's status, battery and signal have been
    writes,  \* reports, status changes and edits so far (bounded)
    faults   \* jobs that died so far (bounded)

vars == <<dev, trend, open, run, back, edit, had, writes, faults>>

Score == 0..100
Gauge == {p.battery : p \in Payload} \union {None}
Radio == {p.signal : p \in Payload} \union {None}
Vitals == [status : DeviceStatus, battery : Gauge, signal : Radio]
Row == [vitals : Vitals, score : Score]
Snapshot == [score : Score, battery : Gauge, signal : Radio]
Pass == [busy : BOOLEAN, ahead : SUBSET Device, row : [Device -> Row],
         snaps : [Device -> Snapshot \union {None}]]
Sweep == [busy : BOOLEAN, calls : SUBSET (Rule \X Device)]
Edit == [device : Device \union {None}, row : Row]

New == [vitals |-> [status |-> "provisioning", battery |-> None, signal |-> None],
        score |-> 100]
NoPass == [busy |-> FALSE, ahead |-> {}, row |-> [d \in Device |-> New],
           snaps |-> [d \in Device |-> None]]
NoSweep == [busy |-> FALSE, calls |-> {}]
NoEdit == [device |-> None, row |-> New]

-----------------------------------------------------------------------------
(* _compute_health_score *)

Penalty(v) ==
    (CASE v.status = "offline" -> 60
       [] v.status \in {"degraded", "error"} -> 35
       [] v.status = "maintenance" -> 15
       [] OTHER -> 0)
    + (IF v.battery # None /\ v.battery < 20 THEN 20 - v.battery ELSE 0)
    + (IF v.signal # None /\ v.signal < -90 THEN 10 ELSE 0)

\* Faulty form: no max(0, ...); batteries are not validated.
HealthScoreUnclamped(v) == 100 - Penalty(v)

\* max(0.0, min(100.0, score)); no penalty is negative.
HealthScore(v) == IF Penalty(v) > 100 THEN 0 ELSE 100 - Penalty(v)

-----------------------------------------------------------------------------
Init ==
    /\ dev = [d \in Device |-> New]
    /\ trend = [d \in Device |-> None]
    /\ open = {}
    /\ run = [t \in Runner |-> NoPass]
    /\ back = NoSweep
    /\ edit = NoEdit
    /\ had = [d \in Device |-> {New.vitals}]
    /\ writes = 0
    /\ faults = 0

-----------------------------------------------------------------------------
(* The rows change *)

Put(d, row) ==
    /\ dev' = [dev EXCEPT ![d] = row]
    /\ had' = [had EXCEPT ![d] = @ \union {row.vitals}]

Write == writes < MaxWrites /\ writes' = writes + 1

\* ingest_payload: battery, signal and the status it leaves.
Reported(v, p) ==
    [status |-> IF v.status \in {"offline", "provisioning"} THEN "online" ELSE v.status,
     battery |-> p.battery, signal |-> p.signal]

Report(d, p) ==
    /\ Write
    /\ Put(d, [dev[d] EXCEPT !.vitals = Reported(dev[d].vitals, p)])
    /\ UNCHANGED <<trend, open, run, back, edit, faults>>

\* The watchdog, a heartbeat, the admin site.
SetStatus(d, s) ==
    /\ s # dev[d].vitals.status
    /\ Write
    /\ Put(d, [dev[d] EXCEPT !.vitals = [@ EXCEPT !.status = s]])
    /\ UNCHANGED <<trend, open, run, back, edit, faults>>

\* PATCH: the serializer's instance is loaded, and saved with all its columns.
EditLoad(d) ==
    /\ edit.device = None
    /\ Write
    /\ edit' = [device |-> d, row |-> dev[d]]
    /\ UNCHANGED <<dev, trend, open, run, back, had, faults>>

EditSave ==
    /\ edit.device # None
    /\ Put(edit.device, edit.row)
    /\ edit' = NoEdit
    /\ UNCHANGED <<trend, open, run, back, writes, faults>>

-----------------------------------------------------------------------------
(* rollup_device_health *)

\* Faulty form: only devices that are online.
FleetOnline == {d \in Device : dev[d].vitals.status = "online"}

\* Device.objects.exclude(status=DECOMMISSIONED)
Fleet == {d \in Device : dev[d].vitals.status # "decommissioned"}

RollupBegin(t) ==
    /\ ~ run[t].busy
    /\ run' = [run EXCEPT ![t] = [NoPass EXCEPT !.busy = TRUE, !.ahead = Fleet,
                                                  !.row = dev]]
    /\ UNCHANGED <<dev, trend, open, back, edit, had, writes, faults>>

\* Faulty form: the status is read again, the rest is not.
InstanceMixed(t, d) ==
    [run[t].row[d] EXCEPT !.vitals = [run[t].row[d].vitals EXCEPT !.status = dev[d].vitals.status]]

Instance(t, d) == run[t].row[d]

\* Faulty form: only a falling score is saved.
ScoreMovedDown(row) == HealthScore(row.vitals) < row.score

\* "if score != device.health_score"
ScoreMoved(row) == HealthScore(row.vitals) # row.score

\* One turn of the loop: save the score alone, remember a snapshot.
RollupDevice(t, d) ==
    LET row == Instance(t, d)
        score == HealthScore(row.vitals)
    IN  /\ d \in run[t].ahead
        /\ dev' = IF ScoreMoved(row) THEN [dev EXCEPT ![d].score = score] ELSE dev
        /\ run' = [run EXCEPT ![t].ahead = @ \ {d}, ![t].row[d] = New,
                     ![t].snaps[d] = [score |-> score, battery |-> row.vitals.battery,
                                      signal |-> row.vitals.signal]]
        /\ UNCHANGED <<trend, open, back, edit, had, writes, faults>>

\* bulk_create of all of them
RollupStore(t) ==
    /\ run[t].busy
    /\ run[t].ahead = {}
    /\ trend' = [d \in Device |-> IF run[t].snaps[d] = None THEN trend[d] ELSE run[t].snaps[d]]
    /\ run' = [run EXCEPT ![t] = NoPass]
    /\ UNCHANGED <<dev, open, back, edit, had, writes, faults>>

Fault == faults < MaxFaults /\ faults' = faults + 1

\* An exception, the time limit or a lost worker: the snapshots are gone, the
\* scores saved so far stay.
RollupDies(t) ==
    /\ run[t].busy
    /\ Fault
    /\ run' = [run EXCEPT ![t] = NoPass]
    /\ UNCHANGED <<dev, trend, open, back, edit, had, writes>>

-----------------------------------------------------------------------------
(* evaluate_threshold_alerts *)

\* A rule is evaluated on its organization's devices; None never matches.
Breach(r, d, row) ==
    \/ BackstopApplies(RuleRow[r], "battery", OrgOf[d]) /\ Matches(RuleRow[r], row.vitals.battery)
    \/ BackstopApplies(RuleRow[r], "health", OrgOf[d]) /\ Matches(RuleRow[r], row.score)

\* Rules and devices are read up front; which calls follow is settled then.
BackstopBegin ==
    /\ ~ back.busy
    /\ back' = [busy |-> TRUE,
                calls |-> {c \in Rule \X Fleet : Breach(c[1], c[2], dev[c[2]])}]
    /\ UNCHANGED <<dev, trend, open, run, edit, had, writes, faults>>

\* raise_alert, idempotent per (rule, device); nothing here resolves an alert.
BackstopRaise(c) ==
    /\ c \in back.calls
    /\ open' = open \union {c}
    /\ back' = [back EXCEPT !.calls = @ \ {c}]
    /\ UNCHANGED <<dev, trend, run, edit, had, writes, faults>>

BackstopEnd ==
    /\ back.busy
    /\ back.calls = {}
    /\ back' = NoSweep
    /\ UNCHANGED <<dev, trend, open, run, edit, had, writes, faults>>

\* One failing call ends the pass for all devices behind it.
BackstopDies ==
    /\ back.busy
    /\ Fault
    /\ back' = NoSweep
    /\ UNCHANGED <<dev, trend, open, run, edit, had, writes>>

\* An operator acknowledges or resolves.
CloseAlert(c) ==
    /\ c \in open
    /\ open' = open \ {c}
    /\ UNCHANGED <<dev, trend, run, back, edit, had, writes, faults>>

-----------------------------------------------------------------------------
RollupStep(t) == (\E d \in Device : RollupDevice(t, d)) \/ RollupStore(t)

BackstopStep == (\E c \in Rule \X Device : BackstopRaise(c)) \/ BackstopEnd

Next ==
    \/ \E d \in Device, p \in Payload : Report(d, p)
    \/ \E d \in Device, s \in Status : SetStatus(d, s)
    \/ \E d \in Device : EditLoad(d)
    \/ EditSave
    \/ \E t \in Runner : RollupBegin(t)
    \/ \E t \in Runner : RollupStep(t)
    \/ \E t \in Runner : RollupDies(t)
    \/ BackstopBegin
    \/ BackstopStep
    \/ BackstopDies
    \/ \E c \in Rule \X Device : CloseAlert(c)

Spec == Init /\ [][Next]_vars

\* Beat keeps starting both jobs, a job that is running goes on unless it dies,
\* and a request that loaded a device saves it.
Fairness ==
    /\ \A t \in Runner : WF_vars(RollupBegin(t)) /\ WF_vars(RollupStep(t))
    /\ WF_vars(BackstopBegin)
    /\ WF_vars(BackstopStep)
    /\ WF_vars(EditSave)

FairSpec == Spec /\ Fairness

-----------------------------------------------------------------------------
(* Properties *)

\* Every variable has its type; in particular every score is within 0..100.
TypeOK ==
    /\ dev \in [Device -> Row]
    /\ trend \in [Device -> Snapshot \union {None}]
    /\ open \subseteq Rule \X Device
    /\ run \in [Runner -> Pass]
    /\ back \in Sweep
    /\ edit \in Edit
    /\ had \in [Device -> SUBSET Vitals]
    /\ writes \in 0..MaxWrites
    /\ faults \in 0..MaxFaults

\* A score is never put together from two versions of a row: the stored score,
\* and each point of the trend with its battery and signal, belong to a status,
\* battery and signal the device had at one time, whatever rollups and edits
\* overwrite each other.  (rollup_device_health, serializer.save)
Explained(d, score) == score = 100 \/ \E v \in had[d] : HealthScore(v) = score

Witnessed(d, s) ==
    \E v \in had[d] : HealthScore(v) = s.score /\ v.battery = s.battery /\ v.signal = s.signal

ScoresExplained ==
    /\ \A d \in Device : Explained(d, dev[d].score)
    /\ \A d \in Device : trend[d] # None => Witnessed(d, trend[d])

\* An open alert is about something the device once had, although rollups and
\* edit forms write from stale instances, and the backstop raises long after it
\* read: its rule is an active one of the device's own organization, on a battery
\* or on a score that one version of the row had.  (evaluate_threshold_alerts)
Caused(r, d) ==
    /\ RuleRow[r].organization = OrgOf[d] /\ RuleRow[r].is_active
    /\ \E v \in had[d] :
         \/ RuleRow[r].source = "battery" /\ Matches(RuleRow[r], v.battery)
         \/ RuleRow[r].source = "health" /\ Matches(RuleRow[r], HealthScore(v))

AlertsCaused == \A c \in open : Caused(c[1], c[2])

\* Once a device's vitals stay as they are and no edit form writes back old
\* columns, its score becomes the score of those vitals for good, even after
\* rollups that died or saved from stale instances.  (rollup_device_health)
ScoreSettles ==
    \A d \in Device :
        <>[][dev'[d].vitals = dev[d].vitals /\ edit' = edit]_vars
        => <>[](d \in Fleet => dev[d].score = HealthScore(dev[d].vitals))

\* A battery below its threshold, or vitals whose score is below it, are alerted
\* while they last, again and again if operators close the alert.  A health
\* alert needs both jobs: the rollup to bring the score, the backstop to see
\* it.  (rollup_device_health, evaluate_threshold_alerts)
Ails(r, d) ==
    /\ dev[d].vitals.status # "decommissioned"
    /\ Breach(r, d, [dev[d] EXCEPT !.score = HealthScore(dev[d].vitals)])

AilingAlerted ==
    \A r \in Rule, d \in Device :
        <>[](Ails(r, d) /\ edit.device = None) => []<>(<<r, d>> \in open)
=============================================================================
