# RoboGrid: a TLA+ verification project

RoboGrid (`src/`) is a Django application that manages a fleet of robots and IoT
devices: REST and WebSocket front ends, an MQTT bridge process, Celery workers with a
beat schedule, PostgreSQL, Redis and a Mosquitto broker. Several processes write the
same rows without locks and without transactions that span statements; messages are
delivered at least once; processes may stop anywhere. This project models those parts
at the granularity of one SQL statement, publish, broadcast or consumer step, checks
them with TLC on small instances and proves the safety properties with TLAPS for every
value of the constants.

## 1. Inventory

| Component | State | Operations | Interacts through |
|---|---|---|---|
| Command lifecycle (`devices/services.py`, `devices/tasks.py`) | `DeviceCommand`: status, `sent_at`, `acked_at`, `completed_at`, `expires_at`, `error` | `dispatch_command`, `transition_command`, `expire_stale_commands` | shared row; MQTT; broadcast; audit |
| MQTT client (`mqtt/client.py`, `mqtt/handlers.py`) | publisher singleton and paho's queue; the bridge's durable session | `publish_command`, `_on_message`, `handle_telemetry`, `handle_status`, `handle_result` | broker; calls the services |
| Device liveness (`devices/models.py`, `devices/tasks.py`, `devices/signals.py`) | `Device`: status, `last_seen`, battery, score, position | `mark_seen`, `handle_status`, `ingest_payload`, watchdog, rollup, REST and admin edits; pre/post-save signals | shared row; broadcast; audit; alert engine |
| Alert engine (`alerts/services.py`, `alerts/models.py`) | `Alert`: status, `last_notified_at`, `deleted_at`; partial unique index | `raise_alert`, `_emit`, `_auto_resolve`, `acknowledge_alert`, `resolve_alert` | shared table; called by ingest, watchdog, backstop, REST |
| Alert rules (`alerts/models.py`, `alerts/services.py`, `alerts/tasks.py`) | `AlertRule`: scope, operator, threshold, cooldown | `matches`, `_rule_scope_q`, `_sensors_for_rule`, `evaluate_device_readings`, `evaluate_threshold_alerts` | pure decisions, then `raise_alert` |
| Notifications (`alerts/services.py`, `alerts/tasks.py`) | `Notification` inbox; channels; Celery queue | `_fan_out`, `deliver_notification` (three retries), read, read_all | Celery; mail, webhooks |
| Health score (`devices/tasks.py`) | `health_score`, `DeviceHealthSnapshot` | `_compute_health_score`, `rollup_device_health` | device row; backstop |
| Telemetry (`telemetry/services.py`, `telemetry/tasks.py`) | `Sensor`: last value and time; `Reading` | `ingest_payload`, `purge_old_telemetry` | device row; alert engine; broadcast |
| Real time (`core/realtime.py`, `realtime/consumers.py`) | connections; channel groups; mailboxes of the layer | `broadcast`, connect, join, disconnect | Redis; the accounts at the handshake |
| Access (`accounts/models.py`, `core/permissions.py`) | roles, organizations, per-device grants | `can_access_device`, organization scoping, registration, edits of users and grants | consulted by views and consumers |
| Soft deletion, audit (`core/models.py`, `core/services.py`) | `deleted_at`; `AuditLog` | `delete`, `restore`, `record_audit` | every model |

What is hard: writers that save instances loaded earlier (the request against the
bridge, the watchdog against heartbeats, evaluators against each other); QoS 1
redelivery and a durable session; a publish whose outcome the caller does not learn; a
process stopping between two statements; cursors that work on rows read long ago; a
consumer whose connect is still joining groups while the layer already queues for it;
exceptions of one step that end, or are
swallowed by, another; bulk UPDATEs that bypass signals; unique indexes against NULL
and against soft-deleted rows; periodic jobs as the only source of progress.
`PROJECT.json` lists each at its line under `hazards`.

## 2. Modules

| Module | Models | Proofs | Instances |
|---|---|---|---|
| `CommandSpec` | what the command path promises of a status, without broker and crashes | | |
| `CommandLifecycle` | a command's row and its writers: request, publisher, bridge, expiry job | `CommandLifecycleProofs`, `CommandRefinementProofs` | `MCCommandLifecycle` |
| `AlertSpec` | what raise_alert and the operators promise of alerts: opened once per key, closed for good, told of only when raised | | |
| `AlertEngine` | the alerts table: evaluators inside `raise_alert`, operators, soft deletion | `AlertEngineProofs` | `MCAlertEngine` |
| `DeviceLiveness` | one device row and everyone who saves it, with the signals | `DeviceLivenessProofs` | `MCDeviceLiveness` |
| `AlertRules` | which rules apply to what, and when one matches (pure operators) | with ingest | |
| `MqttTopics` | topics, subscriptions, routing, serials (pure operators) | `MqttTopicsProofs` | `MCTelemetryIngest` |
| `TelemetryIngest` | `ingest_payload` over sensors, readings and evaluation; the purge | `TelemetryIngestProofs` | `MCTelemetryIngest` |
| `FleetHealth` | the health rollup and the threshold backstop over the fleet | `FleetHealthProofs` | `MCFleetHealth` |
| `DeviceAccess` | accounts, grants, the access matrix, the views' scoping | with notifications | |
| `Realtime` | the WebSocket consumers and the channel layer | with notifications | |
| `NotificationCenter` | `_emit`, `_fan_out`, inbox, `deliver_notification`, composed with the two above | `NotificationCenterProofs` | `MCNotificationCenter` |

`TelemetryIngest` and `FleetHealth` extend `AlertRules`; `NotificationCenter` extends
`Realtime`, which extends `DeviceAccess`: their next-state relations are disjoined, each
leaving the others' variables alone.

Conventions. An actor that runs several statements has a program counter (`pc`, `bpc`,
`wk[w].pc`, `wr[w].pc`); each statement that reads or writes shared state is an action,
and what an actor has read is kept in its own record (`held`, `wk[w].elapsed`,
`wr[w].status`), so stale copies are explicit. Autocommit is on and `ATOMIC_REQUESTS`
is not set, so no transaction joins two actions. An action that can raise has a
sibling for the exception (`SaveSentFails`, `RequestFails`, `BridgeSwallows`, `Abort`,
`Fail`); a stopped process is the same action or `WebRestart`. Times are ages that
saturate where the code stops telling them apart. Definitions marked faulty are
plausible bugs; each property is shown to notice one of them (`mutants`).

### CommandLifecycle

`row[c]` is the row; its `stamps` are the `*_at` columns that are set. `pc[c]` and
`mem[c]` are the request inside `dispatch_command` and the status of its instance:
`Create` (INSERT), one of four outcomes of `publish_command`, `SaveSent` or
`SaveError`, `Announce`, `Audit`. The four outcomes are what paho 2 does: the PUBACK
arrives; `wait_for_publish` runs into its timeout and returns; the first `connect`
raises; or the client exists but is offline, where `wait_for_publish` raises although
the message stays in the client's queue (`outbox`) and is sent later (`PublisherFlush`).
`results` is everything devices ever published on results topics; the bridge handles it
in order at position `nxt` (`BridgeLoad` reads the row, `BridgeSave` writes all its
columns, `BridgeBroadcast` pushes). `confirmed` is how far the broker has seen PUBACKs:
after a lost link or a restart (`BridgeResume`) everything later is delivered again.
`_on_message` swallows exceptions (`BridgeSwallows`); `lost` remembers whose answer went
that way, `late` whose SENT save came after an answer. A device answers only commands it
received, says nothing after an outcome and may publish results without a command id.
The broker, paho, the device and the clock are external.

`CommandSpec` is the abstract command: issued, marked SENT at most once and only while its
request is open, answered only with what the device reported, expired only while pending,
never pending for ever. `CommandLifecycle` implements it under the mapping `absStatus`,
`absPhase`, `absReported`: the copies of the request and of the bridge, the paho queue,
the session and the crashes disappear.

### AlertEngine

A key is a (rule, device) pair; keys in `NullRuleKey` have no rule. An evaluator walks
through `raise_alert`: the SELECT of `get_or_create` (`Get`, `GetMultiple`), its INSERT
(`Insert`, or `InsertConflict` with the partial unique index), Django's second SELECT
(`Reget`), the except branch (`First`, `ReturnNone`), the refresh and the cooldown check
on the copy read earlier (`Refresh`), the save of `last_notified_at` (`Stamp`) and the
rest of `_emit` (`FanOut`). `own` is a history variable: how long ago each evaluator last
stamped each alert. `Visible` is what `SoftDeleteManager` shows; the index sees
hidden rows too. That a rule matches is an input. An operator's load and blind UPDATE
are one action. Free edits of alerts in the admin form are not modelled.

`AlertSpec` is the abstract alert: raised for a key only while no other alert of that key
is open (any number of them for a key without a rule), closed once and for ever, told to
people only after it was raised. `AlertEngine` implements it under `absLife`, `absKey` and
`notified`: the losers of the INSERT race, the stale copies, the hidden rows, the cooldown
and the failures disappear. `NotificationCenter` implements it as well, with a raise that
is one step and with people who are told by their inbox, so that the two modules,
which abstract from each other, meet the same promise.

### DeviceLiveness

`dev` is the row (status and age of `last_seen`); `trail` and `shown` are the status
according to the audit trail and to the dashboard. A writer loads the row and changes
its instance in one of seven jobs, then runs `save()`: `PreSave` (the SELECT of
`remember_previous_status`), `Write` (the columns of `update_fields`; REST and admin
saves write all), `Audit` and `Cast` (`on_device_saved`), and for the watchdog
`RaiseAlert`. `alone` is a history variable: the save loaded last was overlapped by no other
and none has failed since; `traced` another: a transition was saved that way, and every save
since. `CalmSpec` is the same system without exceptions. Payload times in the
future, registration and deletion of the device are left out.

### AlertRules and MqttTopics

Pure operators, named after the functions they translate. `Evaluated` is the composition
of the SQL scope filter (`RuleScope` for `_rule_scope_q`) with the Python filter
(`SensorsForRule`); `InScope` is what a rule's columns say, and `ScopeCorrect` proves the
two equal. A topic is the sequence of its levels; `Covers` is MQTT's `+`.
`serial_from_topic` looks for the first level called `devices`, so the theorem needs the
assumption that the base topic has none (`BaseAssumption`). A telemetry payload that
carries a serial of its own is ingested for that serial (`setdefault`), which the
theorem does not speak of.

### TelemetryIngest

`wk[w]` is a thread inside `ingest_payload`: it loads the live sensors (`LoadSensors`),
walks the payload's keys in any order (`CreateSensor`, `CreateConflict` when
`uq_sensor_device_key` refuses because the row exists by now or is soft-deleted,
`UpdateSensor`), stores the readings (`Store`), broadcasts (`Cast`) and evaluates:
`Evaluate` reads the sensors again, `Judge` takes one (rule, sensor) verdict to
`raise_alert` or `_auto_resolve`. `Stop` is an exception or a death before the try block,
`EvaluationSwallowed` one inside it. Payloads are known by their time and come in any
order and repeatedly (QoS 1 redelivery stores duplicates, which nothing here tells apart).
`purge` is `purge_old_telemetry` between its SELECT and its DELETE; `horizon` is the
retention limit; `torn` remembers samples whose ingest stopped after their sensor was
saved and before `bulk_create`, `gone` the readings the purge deleted.

### FleetHealth

`dev` has status, battery, signal and score of each device. `run[t]` is a rollup: the
instances its cursor holds and the snapshots collected, `RollupDevice` one turn of the
loop, `RollupStore` the `bulk_create`; `back` is a backstop pass; `edit` is a PATCH
between loading its instance and saving all columns of it, score included. `had` is the history
of vitals, which lets `ScoresExplained` say that a stored score belongs to a version of
the row. Batteries and scores are integers, where the code has floats. The cursor fetches
all rows at once, as it does for a fleet below the 2000 rows of a chunk.

### DeviceAccess, Realtime, NotificationCenter

`DeviceAccess` has the rows of users and grants, the role helpers, the permission classes
and the requests that change them. `Realtime` has one record per connection (`sock`): the
progress of its handler, the User row of the handshake, the groups still to join and those
in `groups_joined`, and as history the grants its user has had since the handshake
(`granted`, kept up by `RememberGrants` in every step that changes accounts or grants). A
consumer handles one message at a time, so nothing is relayed while connect is joining
(`Join`, one `group_add` each), but the layer queues (`mail`), drops beyond `capacity` and
expires. `MembershipExpires` is the layer's `group_expiry`, after which an open socket hears
nothing (`lapsed`). `SocketDies` is a handler that raises or a process that ends: no
disconnect handler runs.

`NotificationCenter` walks through `_emit`: `Stamp`, `Cast` (the two `group_send`s of
`_broadcast_alert`), `PickTargets`, then per channel `FanSkip`, `FanInApp` with its `Push`
per recipient, or `FanOutside` to a Celery task (`task`), which is taken, delivered,
retried at most `max_retries` times or lost. `EmitFails` breaks an emission off anywhere.
Abstractions: acknowledged and resolved alerts are one status; the three `alert.*` events
are one; the race of several evaluators is left to `AlertEngine`; each further alert takes
a fresh id. `Slot` bounds queued deliveries, and a worker waits for a free one.

## 3. Runs

| Run | Expect | Checks | Instance |
|---|---|---|---|
| `CommandOne` | pass | `TypeOK`, `OutcomeReported`, `RecordedBeforeShown`, `FailureExcludesSent`, `ConvergesToLastAnswer`, `OutcomeLossHasCause`, `ImplementsCommandSpec`, `Settles`, `AnswersLand` | 1 command, 2 results, 1 lost link, TTL 1, fair |
| `CommandRedelivery` | violation | `RedeliveryIdempotent` | 1 command |
| `AlertDedup` | pass | `TypeOK`, `OneOpenPerRule`, `ImplementsAlertSpec` | 2 evaluators, a rule and a rule-less key, 3 alerts, cooldown 0 |
| `AlertCooldown` | pass | `CooldownPerEvaluator`, `OpenGetsNotified` | 2 evaluators, 1 rule, 2 alerts, cooldown 1, fair |
| `AlertNullRule` | violation | `SingleOpenAlert` | 2 evaluators |
| `DeviceLive` | pass | `TypeOK`, `ShownRecovers`, `TrailRecovers`, `WatchdogCatches`, `HeardNotOffline` | 2 writers, window 0, payloads already overdue, exceptions, fair |
| `DeviceRaceSync` | violation | `InSync` | 2 writers, no exceptions |
| `DeviceUnalerted` | violation | `OfflineAlerted` | 1 writer, fair |
| `Ingest` | pass | `TypeOK`, `LatestBacked`, `AlertsHaveCause`, `PurgeSparesFresh`, `AlertClears`, `AlertRaised`, `PurgeCatchesUp` | 2 workers, 1 key, 2 payload times, 1 type rule, 1 failure, fair |
| `Fleet` | pass | `TypeOK`, `ScoresExplained`, `AlertsCaused`, `ScoreSettles`, `AilingAlerted` | 2 devices of 2 organizations, 2 rules, 1 rollup, 3 changes, 1 failure, fair |
| `Notify` | pass | `TypeOK`, `CleanExit`, `ConnectedIsJoined`, `DeviceFeedsGranted`, `PushedIsStored`, `ImplementsAlertSpec`, `EventuallyNotified`, `DeliveryEnds` | 2 users, 2 organizations with a device each, 1 connection, 3 channels, 1 alert, 1 delivery, 1 edit, 1 failure, fair |
| `Tenancy` | violation | `AlertsStayInTenant` | the instance of `Notify`, with a viewer of the other organization |

What the passing runs show:

* *Commands.* A row never claims an answer the device did not give. What a dashboard
  shows as answered is recorded. `publish failed` and `sent_at` never meet in a row
  although the bridge writes whole rows from stale reads. Once the session is drained
  the status is the device's last answer, except when the handler's exception was
  swallowed or the request saved SENT too late; a recorded outcome is never overwritten
  otherwise, in particular not by expiry. No command stays queued or sent. On its status the
  whole path implements `CommandSpec`.
* *Alerts.* At most one OPEN alert per real rule and device under every race of evaluators,
  operators and deletions, and no stale copy of an evaluator reopens an alert that was
  closed: the alerts table does what `AlertSpec` says. The cooldown is checked on a stale
  copy, so evaluators that race can all notify at once; but none notifies twice of an alert
  within a cooldown, so a burst has at most one notification from each. An OPEN alert whose
  creator died before or during the fan-out is still notified.
* *Devices.* Saves overlap and crash, and then dashboard and audit trail can be wrong
  (`DeviceRaceSync`). They do not stay so: a dashboard left wrong is right after the next
  save that has the row to itself, and an audit trail after the next such save that is a
  transition; later saves keep them right until one overlaps or fails again. In spite of
  stale saves the watchdog gets an overdue device out of online/degraded and heartbeats get
  a device out of offline.
* *Telemetry.* What a sensor shows last is in the time series, unless an ingest broke off
  between the two writes or retention removed it. An alert follows the sensor its rule
  watches in the end: it clears when the value stays in range and is raised when it stays
  out of it, although workers judge values they read earlier and operators close alerts; and
  an open alert always has a cause: a breaching sample of a sensor in its rule's scope that
  is in the time series, left it by retention, or was lost when its ingest broke off. The
  purge deletes no reading inside the retention period and catches up after kills and late
  inserts, deleted sensors included.
* *Health.* Scores stay in 0..100 for unvalidated batteries, belong to one version of
  the row, and settle once the vitals and the edits rest; an ailing device is alerted, and only
  by active rules of its own organization, for a battery or score that it once had.
* *Notifications.* A connection is in all groups of its feed when it is greeted and in none
  after its disconnect. Into the group of a device, with its commands and telemetry, come
  only platform admins, engineers and operators of the device's organization by the row of
  the handshake, and others of it by a grant they had at some time since the handshake,
  however the check, the join and edits of accounts and grants interleave. That is what the
  code enforces, not that a socket sees only what its user may see *now*: a revoked grant, a
  changed role or a deactivated account leaves the socket joined until it closes, and the
  group of all alerts is open to everyone (`Tenancy`). No mailbox overflows; what is pushed
  is stored; everyone an open alert is meant for gets a row in the end; every delivery ends,
  because each step leaves it fewer.

What the violations show, each against a sentence of the repository quoted in `findings`: a
redelivered acknowledgement reopens a completed command; without an OFFLINE rule two OPEN
alerts for one device can exist, after which `get_or_create` raises; overlapping saves leave
trail or dashboard wrong; a watchdog that stops between its save and its alert never alerts;
every tenant's alerts are queued for every connected dashboard, as `_broadcast_alert` sends
all of them to `GROUP_ALERTS`.

Seen while modelling, and not given a run: a command that was answered before its request
saved SENT can end EXPIRED; `for_seconds` of a rule, documented as a debounce
(`alerts/models.py:66`), is read by no code; battery and health rules ignore the device they
name, and the backstop never resolves; the status of a webhook's answer is not looked at, so
a refused post counts as delivered; a key whose sensor was soft-deleted makes every payload
with it fail; a late payload turns `last_value` back; a reading of `nan` is above and below
no threshold and so resolves the alert; `_auto_resolve` reaches no dashboard; audit entries
of JWT requests have no actor unless the caller passes one, as the middleware looks before
the view authenticates; two evaluators that read the same `last_notified_at` both notify,
although the cooldown is "Min seconds between re-notifications for the same alert"
(`alerts/models.py:69`); `acknowledge_alert` turns a resolved alert into an acknowledged
one; a soft-deleted OPEN alert makes every later `raise_alert` of its key return None; an
expired command is announced to nobody; a broadcast that raises in `dispatch_command` skips
the audit record; a device that goes silent in status error is never taken offline; the
watchdog can override a heartbeat saved after its query, so that a device being heard is
shown, and alerted, as offline until its next report (`HeardNotOffline` says that it comes
back); the `expires_at` of a `DevicePermission` and its `is_expired`
(`accounts/models.py:167`, `:182`) are read by no access check, so a grant, "time-boundable"
in `README.md:172`, lasts until its row is removed; an `org_admin` has "full control within
an org" (`models.py:44`, `README.md:165`), but `is_platform_admin` lets one view and control
the devices of every tenant, and a test expects it (`accounts/tests.py:75`);
`DeviceFeedsGranted` therefore states the code's rule.

*Bounds.* One command is enough for the command path because rows share nothing but the
session's order and the publisher (which may be connected from the start, as earlier
commands leave it), and the theorems hold for any set of commands; two results allow an
acknowledgement before an outcome, or a message without an id beside either, and one lost
link allows a redelivery of each (with three results the safety properties were checked as
well; the state space of liveness and refinement keeps the run at two). TTL 1 separates not
yet expired, at the limit and expired. Two evaluators make every race of `get_or_create`;
three alerts allow two open ones beside a closed one. A device has two writers because every
race is between a stale save and another one; window 0 and payloads one tick old make heard
and overdue the same step apart as any larger window would (with window 1, fresh and late
payloads, three statuses and 2.7 million states the safety properties were checked as well).
`AlertDedup` has cooldown 0, where every copy passes the check and most emissions overlap;
`AlertCooldown` has one tick, the least that separates a burst from a repetition. `Ingest`:
two workers make every race on a sensor and on an alert, two payload times an older and a
newer value, one beyond and one at the threshold; keys meet only in the same loop and in the
rule query, for which `ScopeCorrect` holds for any number of them; `MaxFaults` 1 is one
torn, swallowed or killed step (the fault properties speak of what comes after the last
one). `Fleet`: two devices of two organizations separate the rules' scopes; three changes
let a report, a status and an edit overtake one rollup. `Notify`: one worker, as the races
of several are `AlertEngine`'s; one user outside and one inside the organization, who
registers while an emission is under way; one device in the viewer's organization and one
outside it, so that an access check can refuse, and a grant that is there or not from the
start and may be given or taken in the one edit; one alert, since `AlertSpec` relates alerts
of one key and `AlertDedup` has three; one place in the mailbox, so that the second message
meets a full one; one retry, so that the last attempt and an earlier one differ. `Tenancy`
needs no fairness and stops after a few steps. `MCSpec` lets clients connect only while the
rule notifies in-app channels: clients and outside deliveries share no variable, and every
interleaving of the two would only multiply the states.

`Id` bounds the alert table: an evaluator that finds no free id stops at its INSERT; in the
command and device runs all actors may be done, or the bounded session exhausted. There the
system rightly stops and deadlock is not checked; it is in `Ingest`, `Fleet` and `Notify`.

*Fairness.* `CommandOne`: the clock, the beat job (every minute, `config/celery.py`) and
`loop_forever` go on; nothing is assumed of requests, publisher and devices.
`AlertCooldown`: a breach that lasts is evaluated again (telemetry and beat repeat), and an
evaluation repeated for ever gets past each statement of the emitting path some time (strong
fairness: failures do not hit the same statement every single time). `DeviceLive`: the same
for the watchdog; a save ends, well or badly. `HeardNotOffline` assumes in addition, inside
the property, that heartbeats keep coming and some get through. `Ingest`: an ingest that has
begun goes on, the device keeps sending (strong: a worker is not free all the time), beat
starts the purge and the purge goes on. That one value lasts is a premise inside
`AlertClears` and `AlertRaised`. `Fleet`: beat starts both jobs, a job and a PATCH that are
under way go on. `Notify`: a worker inside `_emit` goes on, the device keeps breaching so
that `raise_alert` runs again, the cooldown elapses, Celery runs what is queued or due;
nothing is assumed of clients, operators and administrators.

## 4. Proofs

All theorems hold for arbitrary constants subject to the `ASSUME`s of the module.

* `CommandLifecycleProofs`. The inductive invariant `IInv` adds to the properties:
  messages exist only for inserted rows (`RowsFirst`); what a row says of its request
  the request has done (`RequestsClaimed`); the bridge's copy is stale only in the columns
  the request writes (`HeldSound`), which is why a full-row save cannot erase a stamp;
  nothing follows an outcome in the session (`OutcomeIsLast`); and the row reflects an
  answer at least as recent as every handled one (`HandledReflected`), which makes
  convergence inductive across redelivery. Proved: `TypeCorrect`, `OutcomesAreReported`,
  `ShownIsRecorded`, `FailedIsNotSent`, `Converges`, `LossHasCause`.
* `AlertEngineProofs`. `IInv` adds that an evaluator past the SELECT holds an existing row.
  Proved: `TypeCorrect`, `Deduplicated`, and `CooldownHolds` for any number of evaluators:
  the row was stamped no longer ago than by any one of them, and a copy read since is at
  most as old (`CopyBounded`), so a stale copy passes the cooldown check only where the
  evaluator's own last stamp is a cooldown old as well. `Refinement`: `Spec =>
  ImplementsAlertSpec`. Three kinds of step do not stutter: the INSERT that wins (its guard,
  the unique index over hidden rows too, is the abstract one), a close by an operator or
  `_auto_resolve`, and the fan-out, where `HoldsRow` shows that what is told of exists.
* `DeviceLivenessProofs`. Proved: `TypeCorrect` for any writers; `SequentialSync` for one
  writer, from what each statement has established so far (`Progress`). `DashboardRecovers`
  and `TrailIsRepaired` hold for any number of writers, with exceptions: while `alone` is
  true one writer at most is busy (`OneBusy`) and its instance carries the status it has
  written (`Restored`), so its broadcast tells the truth.

* `CommandRefinementProofs`. `Refinement`: initial states map to initial states of
  `CommandSpec`, and under the invariant of `CommandLifecycleProofs` every action maps to one of
  its steps or to a stutter, so `Spec => Abs!Spec` for any commands, results and
  link losses. A save from a stale instance is a step of the abstract command because
  `HeldSound` bounds what is stale.
* `AlertEngineProofs!ClosedStaysClosed`: no step turns a closed alert OPEN, because no save
  after the SELECT lists the status column (for TLC part of `ImplementsAlertSpec`: `Close`
  is final).
* `TelemetryIngestProofs`. `IInv` adds that a worker inside `ingest_payload` has a payload
  (`Carries`) and that the purge's cutoff is never ahead of the horizon (`PurgeSound`), so
  what it deletes is expired. For the alerts it adds that every verdict a worker still has
  to take rests on a backed sample of a sensor in the rule's scope (`PairsCaused`): the
  verdict may be late, its evidence is never invented. Proved: `TypeCorrect`,
  `LatestIsBacked`, `AlertsAreCaused`, `RetentionKept`, and `ScopeCorrect` about the two
  scope filters, from the lemma `ScopeMember` that `AlertsAreCaused` uses too.
* `FleetHealthProofs`. `IInv` adds that every instance a rollup or an edit holds is a
  version the row has had (`RowsHad`) and every snapshot collected is witnessed
  (`SnapsWitnessed`), and that every call of `raise_alert` the backstop still has to make is
  about such a version (`CallsCaused`). Proved: `TypeCorrect`, `ScoresAreExplained`,
  `AlertsAreCaused`, and of the formula `ScoreBounded`, `ScoreMonotone`.
* `NotificationCenterProofs`. `IInv` adds for each connection what it has joined so far
  (`SockOK`: the groups joined and those to be joined are the feed's; membership is what was
  joined, until it lapses, and while leaving at most what is still to be discarded) and for
  each emission that the recipients left have their row (`StoreOK`, with private groups
  joined by their own user only). Proved: `TypeCorrect`, `ConnectionsLeave`,
  `ConnectionsJoin`, `PushesAreStored`. `DeviceFeedsAreGranted` needs that not only for the
  groups a connection is in but also for those it has joined and those still on its list its
  user was entitled (`HeldGranted`), as grants may go between the check and the join, and
  that a connection remembers the grants of the moment (`GrantsKnown`), as the check reads
  those. `DeliveriesShrink` rests on `RetriesBounded`. `Refinement`: raising, closing and
  `FanInApp` are steps of `AlertSpec`, all else stutters, as an emission that is not idle
  has a raised alert. Of the access rules `AccessMatrix` (view and control by role, tenant
  and grant), `ControlImpliesView`, `CommandCheckedOnce`.
* `MqttTopicsProofs`: `MessagesAreAttributed` and `CommandsDoNotEcho`, for any base topic that
  satisfies `BaseAssumption` and any serial; the run `Ingest` evaluates the first one on a small
  set of topics.

The invariants were checked with TLC first, as properties of the runs or in scratch
configurations on the same instances (`DeliveryShrinks`, which `NotificationCenterProofs`
states, on that of `Notify`).

Only model-checked: the liveness properties (`Settles`, `AnswersLand`,
`OpenGetsNotified`, `WatchdogCatches`, `HeardNotOffline`, `AlertClears`, `AlertRaised`,
`PurgeCatchesUp`, `ScoreSettles`, `AilingAlerted`, `EventuallyNotified`, `DeliveryEnds`),
since the prover does not handle fairness. `DeliveriesShrink` proves the part of `DeliveryEnds`
that needs none. The properties of the violation runs are refuted.

## 5. Not modelled, and what could follow

* Serialisation, filtering, pagination, dashboard statistics and chart queries, health
  checks, request throttling: request-local, no state that outlives the request.
* Accounts: passwords, token issue and refresh, profiles, editing of organizations.
* Inbox reads (`read`, `read_all`): they write columns nothing else looks at.
* Registration and deletion of devices, positions, camera feeds, edits of sensors, rules and
  alerts by hand (a rule that is switched off while its alert is open leaves it open).
* Audit actors and texts; settings, containers, migrations and demo data.
* Floating point and `nan`: thresholds, batteries and scores are integers here.

Worth adding next: rules edited while their alerts are open; devices that are
registered and soft-deleted under running jobs; several evaluators inside
`NotificationCenter`, where two emissions of one alert interleave.
