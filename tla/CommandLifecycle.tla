------------------------- MODULE CommandLifecycle -------------------------
(***************************************************************************)
(* The remote-control path: a DeviceCommand row and everyone who writes it. *)
(*                                                                         *)
(*   web request   dispatch_command: INSERT, MQTT publish, UPDATE,          *)
(*                 WebSocket broadcast, audit record                        *)
(*   publisher     the process-wide paho client behind publish_command      *)
(*   bridge        run_mqtt_bridge: handle_result -> transition_command     *)
(*   Celery beat   expire_stale_commands                                    *)
(*                                                                         *)
(* No transaction spans two statements (autocommit, no ATOMIC_REQUESTS), so *)
(* every database statement is a step of its own.  The broker, the device   *)
(* and paho's queues are external and modelled as the code uses them.       *)
(***************************************************************************)
EXTENDS Naturals, Integers, Sequences, FiniteSets

CONSTANTS
    Command,      \* the rows of devices_devicecommand
    NoCommand,    \* a result message that carries no command_id
    Report,       \* what a device can answer: [word, error] records
    TTL,          \* DEFAULT_COMMAND_TTL, in ticks
    MaxResults,   \* bound: messages the devices publish on results topics
    MaxLinkLoss   \* bound: times the bridge loses its link or is restarted

ASSUME CommandAssumption == NoCommand \notin Command
ASSUME ReportAssumption == Report \subseteq [word : STRING, error : {"", "device"}]
ASSUME BoundAssumption ==
    /\ TTL \in Nat
    /\ MaxResults \in Nat
    /\ MaxLinkLoss \in Nat

VARIABLES
    row,       \* the table: status, which of the *_at columns are set, error
    left,      \* expires_at - now per row, saturating at -1 (in the past)
    pc,        \* where the web request that issued the command stands
    mem,       \* the status of the request's in-memory cmd object
    pub,       \* the publisher singleton: never connected, connected, or not
    outbox,    \* messages paho keeps to send when the link is back
    atBroker,  \* commands whose message reached the broker
    results,   \* every message published on a results topic, in order
    nxt,       \* the next index of results the broker hands to the bridge
    confirmed, \* messages 1..confirmed have a PUBACK the broker has seen
    linkLoss,  \* how often the bridge's link was lost (bounded)
    bpc,       \* the bridge's on_message: idle, row loaded, row saved
    held,      \* the DeviceCommand instance the handler holds
    shown,     \* the last device.command status the dashboard received
    audited,   \* commands with an AuditLog entry
    late,      \* history: a SENT save came after an answer was handled
    lost       \* history: an answer was swallowed with its exception

webVars == <<pc, mem, audited>>
linkVars == <<pub, outbox, atBroker>>
queueVars == <<results, nxt, confirmed, linkLoss>>
bridgeVars == <<bpc, held>>
histVars == <<late, lost>>
vars == <<row, left, webVars, linkVars, queueVars, bridgeVars, shown, histVars>>

-----------------------------------------------------------------------------
(* Data *)

Status == {"queued", "sent", "acked", "completed", "failed", "expired"}
Answered == {"acked", "completed", "failed"}
Pending == {"queued", "sent"}

Row == [status : Status \union {"absent"},
        stamps : SUBSET {"sent", "acked", "completed"},
        error  : {"", "publish failed", "device"}]

NewRow == [status |-> "queued", stamps |-> {}, error |-> ""]

NoRow == [status |-> "absent", stamps |-> {}, error |-> ""]

Message == [cmd : Command \union {NoCommand}, rep : Report]

\* handle_result's status_map; a word it does not list counts as an ack.
DoneWords == {"ok", "completed", "done"}
ErrorWords == {"error", "failed"}
StatusOf(rep) == IF rep.word \in DoneWords THEN "completed"
                 ELSE IF rep.word \in ErrorWords THEN "failed"
                 ELSE "acked"

StampOf(status) == IF status = "acked" THEN "acked" ELSE "completed"

\* Faulty forms of Transition: the device's word stored as it came; acked_at set
\* on every answer; an expired command that refuses its late answer.
TransitionRawWord(r, rep) ==
    [r EXCEPT !.status = rep.word, !.stamps = @ \union {StampOf(StatusOf(rep))}]

TransitionAlwaysAcked(r, rep) ==
    [r EXCEPT !.status = StatusOf(rep), !.stamps = @ \union {"acked", StampOf(StatusOf(rep))}]

TransitionKeepsExpired(r, rep) ==
    [r EXCEPT !.status = IF @ = "expired" THEN @ ELSE StatusOf(rep),
              !.stamps = @ \union {StampOf(StatusOf(rep))}]

\* The row transition_command saves, computed from the instance it was given.
Transition(r, rep) ==
    [status |-> StatusOf(rep),
     stamps |-> r.stamps \union {StampOf(StatusOf(rep))},
     error  |-> IF rep.error # "" THEN rep.error ELSE r.error]

Exists(c) == c \in Command /\ row[c].status # "absent"

Current == results[nxt]

\* Positions whose handler has saved its row (or decided not to).
Handled(i) == i < nxt \/ (i = nxt /\ bpc = "saved")

IsAnswer(i, c) == i \in DOMAIN results /\ results[i].cmd = c

Finished(c) == \E i \in DOMAIN results :
                  results[i].cmd = c /\ StatusOf(results[i].rep) # "acked"

\* Faulty forms of the expiry filter: it includes acked commands; it forgets
\* queued ones.
StaleAcked(c) == left[c] < 0 /\ row[c].status \in {"queued", "sent", "acked"}
StaleSentOnly(c) == left[c] < 0 /\ row[c].status = "sent"

Stale(c) == left[c] < 0 /\ row[c].status \in Pending

-----------------------------------------------------------------------------
Init ==
    /\ row = [c \in Command |-> NoRow]
    /\ left = [c \in Command |-> TTL]
    /\ pc = [c \in Command |-> "idle"]
    /\ mem = [c \in Command |-> "queued"]
    /\ pub \in {"none", "up"}   \* earlier commands may have connected it
    /\ outbox = {}
    /\ atBroker = {}
    /\ results = <<>>
    /\ nxt = 1
    /\ confirmed = 0
    /\ linkLoss = 0
    /\ bpc = "idle"
    /\ held = NoRow
    /\ shown = [c \in Command |-> "none"]
    /\ audited = {}
    /\ late = {}
    /\ lost = {}

-----------------------------------------------------------------------------
(* The web request: dispatch_command *)

Create(c) ==
    /\ pc[c] = "idle"
    /\ row' = [row EXCEPT ![c] = NewRow]
    /\ pc' = [pc EXCEPT ![c] = "created"]
    /\ UNCHANGED <<left, mem, audited, linkVars, queueVars, bridgeVars, shown, histVars>>

\* publish_command returned: line 46 has set cmd.status in memory.
Handed(c) ==
    /\ pc' = [pc EXCEPT ![c] = "handed"]
    /\ mem' = [mem EXCEPT ![c] = "sent"]

\* publish_command raised: control is in the except block.
Raised(c) ==
    /\ pc' = [pc EXCEPT ![c] = "raised"]
    /\ mem' = mem

\* The message gets its PUBACK within the five seconds.
PublishDelivered(c) ==
    /\ pc[c] = "created"
    /\ pub' = "up"
    /\ pub \in {"none", "up"}
    /\ atBroker' = atBroker \union {c}
    /\ Handed(c)
    /\ UNCHANGED <<row, left, audited, outbox, queueVars, bridgeVars, shown, histVars>>

\* wait_for_publish(timeout=5) gives up silently; paho keeps the message.
PublishTimesOut(c) ==
    /\ pc[c] = "created"
    /\ pub' = "up"
    /\ pub \in {"none", "up"}
    /\ outbox' = outbox \union {c}
    /\ Handed(c)
    /\ UNCHANGED <<row, left, audited, atBroker, queueVars, bridgeVars, shown, histVars>>

\* The first connect() raises: there is no client yet, nothing is queued.
PublishNoClient(c) ==
    /\ pc[c] = "created"
    /\ pub = "none"
    /\ Raised(c)
    /\ UNCHANGED <<row, left, audited, linkVars, queueVars, bridgeVars, shown, histVars>>

\* The client exists but is offline: wait_for_publish raises, yet the QoS 1
\* message stays in paho's queue.
PublishOffline(c) ==
    /\ pc[c] = "created"
    /\ pub = "down"
    /\ outbox' = outbox \union {c}
    /\ Raised(c)
    /\ UNCHANGED <<row, left, audited, pub, atBroker, queueVars, bridgeVars, shown, histVars>>

\* Faulty form: a full save of the instance, which never had acked_at.
SentRowFull(r) == [r EXCEPT !.status = "sent", !.stamps = {"sent"}]

\* save(update_fields=["status", "sent_at", ...]): whatever the row held by now.
SentRow(r) == [r EXCEPT !.status = "sent", !.stamps = @ \union {"sent"}]

SaveSent(c) ==
    /\ pc[c] = "handed"
    /\ row' = [row EXCEPT ![c] = SentRow(row[c])]
    /\ pc' = [pc EXCEPT ![c] = "saved"]
    /\ late' = IF \E i \in DOMAIN results : IsAnswer(i, c) /\ Handled(i)
               THEN late \union {c} ELSE late
    /\ UNCHANGED <<left, mem, audited, linkVars, queueVars, bridgeVars, shown, lost>>

\* The save itself raises inside the try block: the command was published, but
\* control goes where a failed publish goes.
SaveSentFails(c) ==
    /\ pc[c] = "handed"
    /\ Raised(c)
    /\ UNCHANGED <<row, left, audited, linkVars, queueVars, bridgeVars, shown, histVars>>

\* Faulty forms of SaveError: a full save of the instance; a save that also
\* resets the status.
SaveErrorFull(c) ==
    /\ pc[c] = "raised"
    /\ row' = [row EXCEPT ![c] = [status |-> mem[c], error |-> "publish failed",
                                  stamps |-> IF mem[c] = "sent" THEN {"sent"} ELSE {}]]
    /\ pc' = [pc EXCEPT ![c] = "saved"]
    /\ UNCHANGED <<left, mem, audited, linkVars, queueVars, bridgeVars, shown, histVars>>

SaveErrorResets(c) ==
    /\ pc[c] = "raised"
    /\ row' = [row EXCEPT ![c].error = "publish failed", ![c].status = "queued"]
    /\ pc' = [pc EXCEPT ![c] = "saved"]
    /\ UNCHANGED <<left, mem, audited, linkVars, queueVars, bridgeVars, shown, histVars>>

SaveError(c) ==
    /\ pc[c] = "raised"
    /\ row' = [row EXCEPT ![c].error = "publish failed"]
    /\ pc' = [pc EXCEPT ![c] = "saved"]
    /\ UNCHANGED <<left, mem, audited, linkVars, queueVars, bridgeVars, shown, histVars>>

Announce(c) ==
    /\ pc[c] = "saved"
    /\ shown' = [shown EXCEPT ![c] = mem[c]]
    /\ pc' = [pc EXCEPT ![c] = "announced"]
    /\ UNCHANGED <<row, left, mem, audited, linkVars, queueVars, bridgeVars, histVars>>

Audit(c) ==
    /\ pc[c] = "announced"
    /\ audited' = audited \union {c}
    /\ pc' = [pc EXCEPT ![c] = "done"]
    /\ UNCHANGED <<row, left, mem, linkVars, queueVars, bridgeVars, shown, histVars>>

\* An exception outside the try block (SaveError, broadcast, record_audit)
\* ends the request with a 500; what it had already done stays.
RequestFails(c) ==
    /\ pc[c] \in {"raised", "saved", "announced"}
    /\ pc' = [pc EXCEPT ![c] = "errored"]
    /\ UNCHANGED <<row, left, mem, audited, linkVars, queueVars, bridgeVars, shown, histVars>>

\* Requests that are not running.
Closed == {"idle", "done", "errored", "died"}

\* The process dies: its requests with it, and the publisher and its queue.
WebRestart ==
    /\ pub # "none" \/ \E c \in Command : pc[c] \notin Closed
    /\ pc' = [c \in Command |-> IF pc[c] \in Closed THEN pc[c] ELSE "died"]
    /\ pub' = "none"
    /\ outbox' = {}
    /\ UNCHANGED <<row, left, mem, audited, atBroker, queueVars, bridgeVars, shown, histVars>>

Request(c) ==
    \/ Create(c)
    \/ PublishDelivered(c)
    \/ PublishTimesOut(c)
    \/ PublishNoClient(c)
    \/ PublishOffline(c)
    \/ SaveSent(c)
    \/ SaveSentFails(c)
    \/ SaveError(c)
    \/ Announce(c)
    \/ Audit(c)
    \/ RequestFails(c)

-----------------------------------------------------------------------------
(* The publisher's network thread (external: paho and the broker) *)

\* A network failure, or the broker evicting this client because another
\* process connected with the same "-pub" client id.
PublisherDrop ==
    /\ pub = "up"
    /\ pub' = "down"
    /\ UNCHANGED <<row, left, webVars, outbox, atBroker, queueVars, bridgeVars, shown, histVars>>

PublisherReconnect ==
    /\ pub = "down"
    /\ pub' = "up"
    /\ UNCHANGED <<row, left, webVars, outbox, atBroker, queueVars, bridgeVars, shown, histVars>>

PublisherFlush(c) ==
    /\ pub = "up"
    /\ c \in outbox
    /\ outbox' = outbox \ {c}
    /\ atBroker' = atBroker \union {c}
    /\ UNCHANGED <<row, left, webVars, pub, queueVars, bridgeVars, shown, histVars>>

-----------------------------------------------------------------------------
(* The devices (external) *)

\* A device answers a command it received and has not finished yet, in any
\* words, or publishes a result without a command_id.
DeviceReport(c, rep) ==
    /\ Len(results) < MaxResults
    /\ c = NoCommand \/ (c \in atBroker /\ ~ Finished(c))
    /\ results' = Append(results, [cmd |-> c, rep |-> rep])
    /\ UNCHANGED <<row, left, webVars, linkVars, nxt, confirmed, linkLoss,
                   bridgeVars, shown, histVars>>

-----------------------------------------------------------------------------
(* The bridge: on_message runs on one thread, in the order of the session *)

Advance == nxt' = nxt + 1

\* No command_id, or no such row: the handler returns.
BridgeSkip ==
    /\ bpc = "idle"
    /\ nxt \in DOMAIN results
    /\ ~ Exists(Current.cmd)
    /\ Advance
    /\ UNCHANGED <<row, left, webVars, linkVars, results, confirmed, linkLoss,
                   bridgeVars, shown, histVars>>

\* filter(id=command_id).first()
BridgeLoad ==
    /\ bpc = "idle"
    /\ nxt \in DOMAIN results
    /\ Exists(Current.cmd)
    /\ held' = row[Current.cmd]
    /\ bpc' = "loaded"
    /\ UNCHANGED <<row, left, webVars, linkVars, queueVars, shown, histVars>>

\* cmd.save() with no update_fields: every column, as read by BridgeLoad.
BridgeSave ==
    /\ bpc = "loaded"
    /\ row' = [row EXCEPT ![Current.cmd] = Transition(held, Current.rep)]
    /\ bpc' = "saved"
    /\ held' = NoRow
    /\ UNCHANGED <<left, webVars, linkVars, queueVars, shown, histVars>>

BridgeBroadcast ==
    /\ bpc = "saved"
    /\ shown' = [shown EXCEPT ![Current.cmd] = StatusOf(Current.rep)]
    /\ bpc' = "idle"
    /\ Advance
    /\ UNCHANGED <<row, left, webVars, linkVars, results, confirmed, linkLoss, held, histVars>>

\* The read or the save raises; _on_message logs it and paho acknowledges the
\* message all the same.
BridgeSwallows ==
    /\ nxt \in DOMAIN results
    /\ bpc = "loaded" \/ (bpc = "idle" /\ Current.cmd \in Command)
    /\ lost' = lost \union {Current.cmd}
    /\ bpc' = "idle"
    /\ held' = NoRow
    /\ Advance
    /\ UNCHANGED <<row, left, webVars, linkVars, results, confirmed, linkLoss, shown, late>>

\* The broadcast raises after the save: swallowed the same way.
BridgeBroadcastSwallowed ==
    /\ bpc = "saved"
    /\ bpc' = "idle"
    /\ Advance
    /\ UNCHANGED <<row, left, webVars, linkVars, results, confirmed, linkLoss,
                   held, shown, histVars>>

\* The broker sees the PUBACK of the oldest message that lacks one.
Puback ==
    /\ confirmed + 1 < nxt
    /\ confirmed' = confirmed + 1
    /\ UNCHANGED <<row, left, webVars, linkVars, results, nxt, linkLoss,
                   bridgeVars, shown, histVars>>

\* The durable session is resumed after a lost link or a restart of the
\* bridge: everything without a PUBACK is delivered again, in order.
BridgeResume ==
    /\ linkLoss < MaxLinkLoss
    /\ linkLoss' = linkLoss + 1
    /\ confirmed + 1 < nxt \/ bpc # "idle"
    /\ nxt' = confirmed + 1
    /\ bpc' = "idle"
    /\ held' = NoRow
    /\ UNCHANGED <<row, left, webVars, linkVars, results, confirmed, shown, histVars>>

Bridge ==
    \/ BridgeSkip
    \/ BridgeLoad
    \/ BridgeSave
    \/ BridgeBroadcast
    \/ BridgeSwallows
    \/ BridgeBroadcastSwallowed

-----------------------------------------------------------------------------
(* Celery beat *)

\* One UPDATE; nothing is broadcast or audited.
ExpireStale ==
    /\ \E c \in Command : Stale(c)
    /\ row' = [c \in Command |->
                 IF Stale(c) THEN [row[c] EXCEPT !.status = "expired"] ELSE row[c]]
    /\ UNCHANGED <<left, webVars, linkVars, queueVars, bridgeVars, shown, histVars>>

Lapse(n) == IF n < 0 THEN n ELSE n - 1

Tick ==
    /\ \E c \in Command : row[c].status # "absent" /\ left[c] >= 0
    /\ left' = [c \in Command |->
                  IF row[c].status = "absent" THEN left[c] ELSE Lapse(left[c])]
    /\ UNCHANGED <<row, webVars, linkVars, queueVars, bridgeVars, shown, histVars>>

-----------------------------------------------------------------------------
Next ==
    \/ \E c \in Command : Request(c)
    \/ WebRestart
    \/ PublisherDrop
    \/ PublisherReconnect
    \/ \E c \in Command : PublisherFlush(c)
    \/ \E c \in Command \union {NoCommand}, rep \in Report : DeviceReport(c, rep)
    \/ Bridge
    \/ Puback
    \/ BridgeResume
    \/ ExpireStale
    \/ Tick

Spec == Init /\ [][Next]_vars

\* What the deployment guarantees: time passes, beat keeps firing the expiry
\* job, and the bridge's loop_forever keeps taking messages off the session.
\* Web requests, the publisher and the devices are free to stop anywhere.
Fairness ==
    /\ WF_vars(Tick)
    /\ WF_vars(ExpireStale)
    /\ WF_vars(Bridge)

FairSpec == Spec /\ Fairness

-----------------------------------------------------------------------------
(* Properties that hold *)

TypeOK ==
    /\ row \in [Command -> Row]
    /\ left \in [Command -> -1..TTL]
    /\ pc \in [Command -> {"idle", "created", "handed", "raised", "saved",
                            "announced", "done", "errored", "died"}]
    /\ mem \in [Command -> {"queued", "sent"}]
    /\ pub \in {"none", "up", "down"}
    /\ outbox \subseteq Command
    /\ atBroker \subseteq Command
    /\ results \in Seq(Message)
    /\ nxt \in 1..(Len(results) + 1)
    /\ confirmed \in 0..(nxt - 1)
    /\ linkLoss \in 0..MaxLinkLoss
    /\ bpc \in {"idle", "loaded", "saved"}
    /\ held \in Row
    /\ shown \in [Command -> Status \union {"none"}]
    /\ audited \subseteq Command
    /\ late \subseteq Command
    /\ lost \subseteq Command

\* Whatever the interleaving of stale copies, late saves and redeliveries, a
\* row never claims an answer (status, acked_at, completed_at) that the device
\* did not publish for that very command.  (transition_command)
ClaimsAnswer(r, c) ==
    /\ r.status \in Answered =>
         \E i \in DOMAIN results : IsAnswer(i, c) /\ StatusOf(results[i].rep) = r.status
    /\ \A s \in r.stamps \ {"sent"} :
         \E i \in DOMAIN results : IsAnswer(i, c) /\ StampOf(StatusOf(results[i].rep)) = s

OutcomeReported == \A c \in Command : ClaimsAnswer(row[c], c)

\* The dashboard never shows an answer the database has not recorded, even
\* after crashes of the bridge and overwrites of the row: transition_command
\* saves before it broadcasts and no writer erases acked_at or completed_at.
RecordedBeforeShown ==
    \A c \in Command : shown[c] \in Answered => StampOf(shown[c]) \in row[c].stamps

\* "publish failed" and sent_at exclude each other in one row, although the
\* bridge writes whole rows from stale reads: dispatch_command takes one of
\* its two branches, and a copy read before it never mixes them.
FailureExcludesSent ==
    \A c \in Command : row[c].error = "publish failed" => "sent" \notin row[c].stamps

\* The last answer of the device for c, when the bridge has taken all of them.
LastAnswer(i, c) == IsAnswer(i, c) /\ \A j \in DOMAIN results : j > i => ~ IsAnswer(j, c)

\* Once the bridge has worked through the session, the row's status is the
\* device's last answer, whatever was redelivered, expired or rewritten from a
\* stale copy on the way; the two exceptions are a swallowed answer and the
\* request's own SENT save coming after an answer.  (transition_command)
ConvergesToLastAnswer ==
    nxt > Len(results) =>
        \A c \in Command \ (late \union lost) : \A i \in DOMAIN results :
            LastAnswer(i, c) => row[c].status = StatusOf(results[i].rep)

\* A recorded outcome (completed, failed) is overwritten only by the request's
\* late SENT save or while an older answer is delivered a second time; in
\* particular never by expire_stale_commands, nor by the failure branch.
OutcomeLossHasCause ==
    [][\A c \in Command :
          (row[c].status \in {"completed", "failed"} /\ row'[c].status # row[c].status)
          => \/ pc[c] = "handed" /\ pc'[c] = "saved"
             \/ /\ bpc = "loaded"
                /\ IsAnswer(nxt, c)
                /\ \E i \in DOMAIN results : i > nxt /\ IsAnswer(i, c)
      ]_vars

\* No command stays QUEUED or SENT for ever, whatever requests, publisher and
\* devices do: expire_stale_commands catches it, and catches it again if the
\* request's save puts it back to SENT after it had expired.
Settles == <>[](\A c \in Command : row[c].status \notin Pending)

\* Every answer that is neither swallowed nor overwritten by the late save ends
\* up in its row for good: loop_forever drains the durable session.
AnswersLand ==
    <>[](\A c \in Command \ (late \union lost) : \A i \in DOMAIN results :
            LastAnswer(i, c) => row[c].status = StatusOf(results[i].rep))

-----------------------------------------------------------------------------
(* The abstract specification this one implements *)

absStatus == [c \in Command |-> row[c].status]

\* Whether the request may still mark its command SENT.
absPhase == [c \in Command |->
                IF pc[c] = "idle" THEN "new"
                ELSE IF pc[c] \in {"created", "handed"} THEN "open" ELSE "closed"]

absReported == [c \in Command |->
                   {StatusOf(results[i].rep) : i \in {j \in DOMAIN results : IsAnswer(j, c)}}]

Abs == INSTANCE CommandSpec WITH status <- absStatus, phase <- absPhase, reported <- absReported

\* Every step of the request, the bridge with its stale copies and replays, the
\* crashes and the expiry job is, on the statuses, a step of CommandSpec: the
\* status is written SENT once per command, set to an answer only if the device
\* gave it, and expired only while pending.
ImplementsCommandSpec == Abs!Spec

-----------------------------------------------------------------------------
(* What the repository says and the code does not do *)

\* mqtt/client.py:59: "QoS 1 - at-least-once; handlers are idempotent on
\* command_id / time."  A device says nothing after its outcome, so a handler
\* that changes a recorded outcome is handling a message a second time.
RedeliveryIdempotent ==
    [][\A c \in Command \ lost :
          (row[c].status \in {"completed", "failed"} /\ bpc = "loaded" /\ bpc' = "saved")
          => row'[c].status = row[c].status]_vars
===========================================================================
