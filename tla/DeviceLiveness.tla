--------------------------- MODULE DeviceLiveness ---------------------------
(***************************************************************************)
(* One Device row and every process that loads it, changes the instance and *)
(* saves it: telemetry ingest, status heartbeats, the offline watchdog, the *)
(* health rollup, REST edits and the admin form.  Each of them runs the     *)
(* pre_save and post_save signals, statement by statement.  Devices do not  *)
(* share state here, so one stands for all.                                 *)
(***************************************************************************)
EXTENDS Integers

CONSTANTS
    Writer,    \* processes and threads that save the device
    Window,    \* OFFLINE_AFTER, in ticks
    Lag,       \* how old the "time" of a telemetry payload can be, in ticks
    Reported,  \* the statuses the device puts in its heartbeats
    Edited     \* the statuses an administrator sets

DeviceStatus == {"provisioning", "online", "offline", "degraded", "maintenance",
                 "error", "decommissioned"}

ASSUME WindowAssumption == Window \in Nat
ASSUME LagAssumption == Lag \subseteq 0..(Window + 1)
ASSUME StatusAssumption == Reported \subseteq DeviceStatus /\ Edited \subseteq DeviceStatus

VARIABLES
    dev,      \* the row: status and the age of last_seen
    wr,       \* each writer: its statement, its job, its instance
    trail,    \* the status according to the audit trail
    shown,    \* the status the dashboard received last
    alerted,  \* history: no device the watchdog took offline waits for its alert
    alone,    \* history: no other save overlapped the one that was loaded last,
              \* and none has failed since
    traced    \* history: every such save since the last audited transition of one

vars == <<dev, wr, trail, shown, alerted, alone, traced>>

\* silent: age of last_seen, saturating just past the window; -1 is NULL.
Silence == -1..(Window + 1)
Device == [status : DeviceStatus, silent : Silence]

\* Jobs that save both status and last_seen go on alike: "full"; "seen" among
\* them is a heartbeat without a status.
Job == {"full", "seen", "watchdog", "rollup"}

Save == [pc : {"idle", "pre", "write", "audit", "cast", "alert"}, job : Job,
         status : DeviceStatus, silent : Silence, prev : DeviceStatus]

\* A field nobody will read again goes back to its value here.
Resting == [pc |-> "idle", job |-> "full", status |-> "provisioning", silent |-> -1,
            prev |-> "provisioning"]

Init ==
    /\ dev = [status |-> "provisioning", silent |-> -1]
    /\ wr = [w \in Writer |-> Resting]
    /\ trail = "provisioning"
    /\ shown = "provisioning"
    /\ alerted = TRUE
    /\ alone = TRUE
    /\ traced = TRUE

-----------------------------------------------------------------------------
(* Loading the row and changing the instance *)

\* Faulty: only a new device is set online.
WakeNewOnly(status) == IF status = "provisioning" THEN "online" ELSE status

\* Faulty: the label of the choice instead of its value.
WakeLabel(status) == IF status \in {"offline", "provisioning"} THEN "Online" ELSE status

\* mark_seen, and the same lines in ingest_payload.
Wake(status) == IF status \in {"offline", "provisioning"} THEN "online" ELSE status

Load(w, job, status, silent) ==
    /\ wr[w].pc = "idle"
    /\ wr' = [wr EXCEPT ![w] = [pc |-> "pre", job |-> job, status |-> status,
                                silent |-> silent, prev |-> Resting.prev]]
    /\ alone' = \A v \in Writer : wr[v].pc = "idle"
    /\ traced' = (traced /\ alone')
    /\ UNCHANGED <<dev, trail, shown, alerted>>

\* last_seen is the payload's own time when it has one.
Ingest(w, lag) == Load(w, "full", Wake(dev.status), lag)

\* handle_status with a status it knows, and without.
ReportStatus(w, status) == Load(w, "full", status, 0)
ReportSeen(w) == Load(w, "seen", Wake(dev.status), 0)

\* last_seen__lt = cutoff (never true of NULL) and status ONLINE or DEGRADED.
Overdue(d) == d.silent > Window /\ d.status \in {"online", "degraded"}

Detect(w) == Overdue(dev) /\ Load(w, "watchdog", "offline", Resting.silent)

\* A score that changed; health_score itself is not modelled.
Rollup(w) == dev.status # "decommissioned" /\ Load(w, "rollup", dev.status, Resting.silent)

\* The serializer keeps status read-only; serializer.save() saves every column.
Patch(w) == Load(w, "full", dev.status, dev.silent)

\* The admin form also offers status.
AdminEdit(w, status) == Load(w, "full", status, dev.silent)

-----------------------------------------------------------------------------
(* instance.save() with its signals *)

\* Faulty: the instance's own status, already changed, is remembered.
PreSaveOwn(w) ==
    /\ wr[w].pc = "pre"
    /\ wr' = [wr EXCEPT ![w].pc = "write", ![w].prev = wr[w].status]
    /\ UNCHANGED <<dev, trail, shown, alerted, alone, traced>>

\* remember_previous_status: its own SELECT.
PreSave(w) ==
    /\ wr[w].pc = "pre"
    /\ wr' = [wr EXCEPT ![w].pc = "write", ![w].prev = dev.status]
    /\ UNCHANGED <<dev, trail, shown, alerted, alone, traced>>

\* Faulty: the watchdog's update_fields without "status".
WritesStatusNotOffline(job) == job \notin {"rollup", "watchdog"}

\* The columns of update_fields; patch and admin name none and write them all.
WritesStatus(job) == job # "rollup"
WritesLastSeen(job) == job \notin {"rollup", "watchdog"}

Saved(d, s) == [status |-> IF WritesStatus(s.job) THEN s.status ELSE d.status,
                silent |-> IF WritesLastSeen(s.job) THEN s.silent ELSE d.silent]

Write(w) ==
    /\ wr[w].pc = "write"
    /\ dev' = Saved(dev, wr[w])
    /\ wr' = [wr EXCEPT ![w].pc = "audit", ![w].silent = Resting.silent]
    /\ alerted' = (dev'.status # "offline" \/ (alerted /\ wr[w].job # "watchdog"))
    /\ UNCHANGED <<trail, shown, alone, traced>>

\* Faulty: the broadcast is left out too when the save is no transition.
AuditOrRest(w) ==
    /\ wr[w].pc = "audit"
    /\ trail' = IF wr[w].prev # wr[w].status THEN wr[w].status ELSE trail
    /\ wr' = [wr EXCEPT ![w] = IF wr[w].prev # wr[w].status
                               THEN [wr[w] EXCEPT !.pc = "cast", !.prev = Resting.prev]
                               ELSE Resting]
    /\ traced' = (traced \/ (alone /\ wr[w].prev # wr[w].status))
    /\ UNCHANGED <<dev, shown, alerted, alone>>

\* on_device_saved: the audit record of a transition.
Audit(w) ==
    /\ wr[w].pc = "audit"
    /\ trail' = IF wr[w].prev # wr[w].status THEN wr[w].status ELSE trail
    /\ wr' = [wr EXCEPT ![w].pc = "cast", ![w].prev = Resting.prev]
    /\ traced' = (traced \/ (alone /\ wr[w].prev # wr[w].status))
    /\ UNCHANGED <<dev, shown, alerted, alone>>

\* ... and the device.state broadcast, from the instance.
Cast(w) ==
    /\ wr[w].pc = "cast"
    /\ shown' = wr[w].status
    /\ wr' = [wr EXCEPT ![w] = IF wr[w].job = "watchdog" THEN [wr[w] EXCEPT !.pc = "alert"]
                                     ELSE Resting]
    /\ UNCHANGED <<dev, trail, alerted, alone, traced>>

\* The watchdog's call of raise_device_offline_alert.
RaiseAlert(w) ==
    /\ wr[w].pc = "alert"
    /\ alerted' = TRUE
    /\ wr' = [wr EXCEPT ![w] = Resting]
    /\ UNCHANGED <<dev, trail, shown, alone, traced>>

\* A statement or a broadcast raises (the watchdog's loop ends), or the process
\* dies; what was saved stays saved.
Fail(w) ==
    /\ wr[w].pc # "idle"
    /\ wr' = [wr EXCEPT ![w] = Resting]
    /\ alone' = FALSE
    /\ traced' = FALSE
    /\ UNCHANGED <<dev, trail, shown, alerted>>

SaveStep(w) == PreSave(w) \/ Write(w) \/ Audit(w) \/ Cast(w) \/ RaiseAlert(w)

Older(n) == IF n = -1 \/ n > Window THEN n ELSE n + 1

Tick ==
    /\ dev' = [dev EXCEPT !.silent = Older(@)]
    /\ wr' = [w \in Writer |-> [wr[w] EXCEPT !.silent = Older(@)]]
    /\ dev' # dev \/ wr' # wr
    /\ UNCHANGED <<trail, shown, alerted, alone, traced>>

-----------------------------------------------------------------------------
Begin(w) ==
    \/ \E lag \in Lag : Ingest(w, lag)
    \/ \E status \in Reported : ReportStatus(w, status)
    \/ ReportSeen(w)
    \/ Detect(w)
    \/ Rollup(w)
    \/ Patch(w)
    \/ \E status \in Edited : AdminEdit(w, status)

\* Everything that can happen while no exception does.
Work == (\E w \in Writer : Begin(w) \/ SaveStep(w)) \/ Tick

Next == Work \/ \E w \in Writer : Fail(w)

Spec == Init /\ [][Next]_vars

\* The same without exceptions and crashes.
CalmSpec == Init /\ [][Work]_vars

\* A save ends, well or badly.
SavesEnd == \A w \in Writer : WF_vars(SaveStep(w) \/ Fail(w))

\* Time passes, beat runs the watchdog every minute, and a save that is tried
\* over and over gets past each of its statements in the end.
Fairness ==
    /\ WF_vars(Tick)
    /\ SF_vars(\E w \in Writer : Detect(w))
    /\ SF_vars(\E w \in Writer : wr[w].job = "watchdog" /\ PreSave(w))
    /\ SF_vars(\E w \in Writer : wr[w].job = "watchdog" /\ Write(w))
    /\ SavesEnd

FairSpec == Spec /\ Fairness

\* The device keeps sending heartbeats, and their saves get through.
Heartbeats ==
    /\ SF_vars(\E w \in Writer : ReportSeen(w))
    /\ SF_vars(\E w \in Writer : wr[w].job = "seen" /\ PreSave(w))
    /\ SF_vars(\E w \in Writer : wr[w].job = "seen" /\ Write(w))

-----------------------------------------------------------------------------
(* Properties *)

\* Every variable has its type.
TypeOK ==
    /\ dev \in Device
    /\ wr \in [Writer -> Save]
    /\ trail \in DeviceStatus
    /\ shown \in DeviceStatus
    /\ alerted \in BOOLEAN
    /\ alone \in BOOLEAN
    /\ traced \in BOOLEAN

\* When no save is under way, the audit trail and the dashboard both end with
\* the status in the database: what on_device_saved is for.  It takes a whole
\* load, pre_save, UPDATE, post_save sequence to establish again.
InSync ==
    (\A w \in Writer : wr[w].pc = "idle") => trail = dev.status /\ shown = dev.status

\* A dashboard that overlapping saves or an exception have left with a wrong
\* status is right again after the next save that has the row to itself, whoever
\* makes it and whichever columns it writes.  (on_device_saved)
ShownRecovers ==
    (\A w \in Writer : wr[w].pc = "idle") /\ alone => shown = dev.status

\* An audit trail left wrong that way ends with the stored status again after the
\* next such save that is a transition, and from then on as long as no save
\* overlaps another or fails; one that changes no status repairs nothing.
\* (remember_previous_status, on_device_saved)
TrailRecovers ==
    (\A w \in Writer : wr[w].pc = "idle") /\ traced => trail = dev.status

\* An overdue device does not stay overdue: the watchdog, which may be
\* overtaken by stale saves and may crash, flips it or it is heard again.
WatchdogCatches == Overdue(dev) ~> ~Overdue(dev)

\* A device whose heartbeats get through does not stay offline, even when the
\* watchdog's stale saves keep flipping it.
HeardNotOffline == Heartbeats => []<>(dev.status \notin {"offline", "provisioning"})

\* "any device that has missed its heartbeat window is flipped to OFFLINE, which
\* fans out an alert" (devices/tasks.py): after a flip the alert is raised,
\* unless the device is back first.
OfflineAlerted ==
    (dev.status = "offline" /\ ~alerted) ~> (alerted \/ dev.status # "offline")
=============================================================================
