-------------------------- MODULE NotificationCenter --------------------------
(***************************************************************************)
(* From a raised alert to the people: _emit and _fan_out step by step, the    *)
(* inbox (Notification rows) and its push over the user's private group, the  *)
(* Celery task that delivers to outside channels with its retries, and what   *)
(* operators and administrators do meanwhile, composed with the WebSocket     *)
(* layer (Realtime) and the accounts (DeviceAccess).  One rule on one device; *)
(* when its alert has been closed, the next breach opens another.             *)
(***************************************************************************)
EXTENDS Realtime, FiniteSets

CONSTANTS
    Worker,      \* processes that evaluate the rule (bridge, web, Celery)
    AlertOrg,    \* the organization of the device and its alerts
    Rank,        \* severity of the rule: info 0, warning 1, critical 2, emergency 3
    Channel,     \* NotificationChannel rows
    ChannelRow,  \* ChannelRow[c]: kind, organization, rank of min_severity
    NotifySets,  \* what the rule's notify_channels may be
    Slot,        \* bound: deliveries queued, running or waiting at a time
    max_retries  \* of deliver_notification

Kind == {"in_app", "email", "webhook", "sms"}
ASSUME ChannelAssumption ==
    /\ ChannelRow \in [Channel -> [kind : Kind, org : Organization, min : 0..3]]
    /\ NotifySets \subseteq SUBSET Channel
ASSUME AlertAssumption ==
    /\ AlertOrg \in Organization /\ Rank \in 0..3 /\ max_retries \in Nat
    /\ Alerts \subseteq Nat

VARIABLES
    alert,    \* the Alert rows: status, and whether the cooldown is running
    work,     \* each worker: the statement of _emit it is at, and its locals
    inbox,    \* inbox[u]: the alerts user u has Notification rows of
    task,     \* deliver_notification calls
    enabled,  \* channels with is_active
    notify    \* the rule's notify_channels

centerVars == <<alert, work, inbox, task, enabled, notify>>
vars == <<accessVars, socketVars, faults, centerVars>>

\* closed: ACKNOWLEDGED or RESOLVED.
Status == {"none", "open", "closed"}
Alert == [status : Status, muted : BOOLEAN]
Emit == [pc : {"idle", "stamp", "cast", "targets", "fan", "push", "audit"},
         alert : Alerts \union {None}, channels : SUBSET Channel, recipients : SUBSET User]
Delivery == [pc : {"free", "queued", "sending", "waiting"}, alert : Alerts \union {None},
             channel : Channel \union {None}, retries : Nat]

Idle == [pc |-> "idle", alert |-> None, channels |-> {}, recipients |-> {}]
Free == [pc |-> "free", alert |-> None, channel |-> None, retries |-> 0]

Init ==
    /\ AccessInit
    /\ RealtimeInit
    /\ faults = 0
    /\ alert = [a \in Alerts |-> [status |-> "none", muted |-> FALSE]]
    /\ work = [w \in Worker |-> Idle]
    /\ inbox = [u \in User |-> {}]
    /\ task = [t \in Slot |-> Free]
    /\ enabled = Channel
    /\ notify \in NotifySets

-----------------------------------------------------------------------------
(* raise_alert and _emit *)

At(w, pc) == work[w].pc = pc
Message(e, a) == [event |-> e, alert |-> a]
IsOpen(a) == alert[a].status = "open"

\* Faulty form: the last alert of the rule is opened again.
RaiseNewReopens(w, a) ==
    /\ At(w, "idle")
    /\ ~ \E b \in Alerts : IsOpen(b)
    /\ \A b \in Alerts : b < a => alert[b].status # "none"
    /\ alert' = [alert EXCEPT ![a] = [status |-> "open", muted |-> FALSE]]
    /\ work' = [work EXCEPT ![w] = [Idle EXCEPT !.pc = "stamp", !.alert = a]]
    /\ UNCHANGED <<accessVars, socketVars, faults, inbox, task, enabled, notify>>

\* get_or_create found no OPEN row: the new row has no last_notified_at.
RaiseNew(w, a) ==
    /\ At(w, "idle")
    /\ ~ \E b \in Alerts : IsOpen(b)
    /\ alert[a].status = "none"
    /\ \A b \in Alerts : b < a => alert[b].status # "none"
    /\ alert' = [alert EXCEPT ![a] = [status |-> "open", muted |-> FALSE]]
    /\ work' = [work EXCEPT ![w] = [Idle EXCEPT !.pc = "stamp", !.alert = a]]
    /\ UNCHANGED <<accessVars, socketVars, faults, inbox, task, enabled, notify>>

\* Faulty form: an alert that was notified once is never notified again.
_cooldown_elapsedNever(a) == FALSE

_cooldown_elapsed(a) == ~ alert[a].muted

\* It found one: notify again only after the rule's cooldown.
RaiseAgain(w, a) ==
    /\ At(w, "idle")
    /\ IsOpen(a)
    /\ _cooldown_elapsed(a)
    /\ work' = [work EXCEPT ![w] = [Idle EXCEPT !.pc = "stamp", !.alert = a]]
    /\ UNCHANGED <<accessVars, socketVars, faults, alert, inbox, task, enabled, notify>>

\* cooldown_seconds have passed since last_notified_at.
CooldownElapses(a) ==
    /\ alert[a].muted
    /\ alert' = [alert EXCEPT ![a].muted = FALSE]
    /\ UNCHANGED <<accessVars, socketVars, faults, work, inbox, task, enabled, notify>>

\* The value is in range again: _auto_resolve, one UPDATE and no broadcast.
AutoResolve(w, a) ==
    /\ At(w, "idle")
    /\ IsOpen(a)
    /\ alert' = [alert EXCEPT ![a].status = "closed"]
    /\ UNCHANGED <<accessVars, socketVars, faults, work, inbox, task, enabled, notify>>

Stamp(w) ==
    /\ At(w, "stamp")
    /\ alert' = [alert EXCEPT ![work[w].alert].muted = TRUE]
    /\ work' = [work EXCEPT ![w].pc = "cast"]
    /\ UNCHANGED <<accessVars, socketVars, faults, inbox, task, enabled, notify>>

\* _broadcast_alert: m after its two group_sends.
BroadcastAlert(m, a) ==
    LET e == Message("alert", a) IN group_send(group_send(m, GROUP_ALERTS, e), group_for_org(AlertOrg), e)

Cast(w) ==
    /\ At(w, "cast")
    /\ mail' = BroadcastAlert(mail, work[w].alert)
    /\ work' = [work EXCEPT ![w].pc = "targets"]
    /\ UNCHANGED <<accessVars, sock, member, faults, alert, inbox, task, enabled, notify>>

\* The rule's channels, active or not; without any, the active in-app channels
\* of the organization.
Targets ==
    IF notify # {} THEN notify
    ELSE {c \in enabled : ChannelRow[c].kind = "in_app" /\ ChannelRow[c].org = AlertOrg}

PickTargets(w) ==
    /\ At(w, "targets")
    /\ work' = [work EXCEPT ![w] = [@ EXCEPT !.pc = "fan", !.channels = Targets]]
    /\ UNCHANGED <<accessVars, socketVars, faults, alert, inbox, task, enabled, notify>>

-----------------------------------------------------------------------------
(* _fan_out *)

LoudEnough(c) == Rank >= ChannelRow[c].min

Recipient(u) ==
    /\ u \in accounts
    /\ user[u].org = AlertOrg
    /\ user[u].is_active
    /\ ~ user[u].is_service_account

FanSkip(w, c) ==
    /\ At(w, "fan")
    /\ c \in work[w].channels
    /\ ~ LoudEnough(c)
    /\ work' = [work EXCEPT ![w].channels = @ \ {c}]
    /\ UNCHANGED <<accessVars, socketVars, faults, alert, inbox, task, enabled, notify>>

\* recipients is evaluated once, by bulk_create's loop, and kept for the pushes.
FanInApp(w, c) ==
    /\ At(w, "fan")
    /\ c \in work[w].channels
    /\ LoudEnough(c)
    /\ ChannelRow[c].kind = "in_app"
    /\ LET recipients == {u \in User : Recipient(u)} IN
       /\ inbox' = [u \in User |-> IF u \in recipients THEN inbox[u] \union {work[w].alert}
                                                       ELSE inbox[u]]
       /\ work' = [work EXCEPT ![w] = [@ EXCEPT !.pc = "push",
                                                !.channels = work[w].channels \ {c},
                                                !.recipients = recipients]]
    /\ UNCHANGED <<accessVars, socketVars, faults, alert, task, enabled, notify>>

\* deliver_notification.delay
FanOutside(w, c, t) ==
    /\ At(w, "fan")
    /\ c \in work[w].channels
    /\ LoudEnough(c)
    /\ ChannelRow[c].kind # "in_app"
    /\ task[t].pc = "free"
    /\ task' = [task EXCEPT ![t] = [pc |-> "queued", alert |-> work[w].alert, channel |-> c,
                                    retries |-> 0]]
    /\ work' = [work EXCEPT ![w].channels = @ \ {c}]
    /\ UNCHANGED <<accessVars, socketVars, faults, alert, inbox, enabled, notify>>

\* Faulty form: the query is evaluated again for the pushes.
ToPushAgain(w) == {u \in User : Recipient(u)}

ToPush(w) == work[w].recipients

Push(w, u) ==
    /\ At(w, "push")
    /\ u \in ToPush(w)
    /\ mail' = group_send(mail, group_for_user(u), Message("notification", work[w].alert))
    /\ work' = [work EXCEPT ![w].recipients = @ \ {u}]
    /\ UNCHANGED <<accessVars, sock, member, faults, alert, inbox, task, enabled, notify>>

Pushed(w) ==
    /\ At(w, "push")
    /\ work[w].recipients = {}
    /\ work' = [work EXCEPT ![w].pc = "fan"]
    /\ UNCHANGED <<accessVars, socketVars, faults, alert, inbox, task, enabled, notify>>

\* All channels done; record_audit, and raise_alert returns.
Audit(w) ==
    /\ At(w, "fan")
    /\ work[w].channels = {}
    /\ work' = [work EXCEPT ![w] = Idle]
    /\ UNCHANGED <<accessVars, socketVars, faults, alert, inbox, task, enabled, notify>>

\* Redis, the broker or the database raises, or the process ends: what was done
\* stays done, the rest is not.
EmitFails(w) ==
    /\ ~ At(w, "idle")
    /\ faults < MaxFaults
    /\ faults' = faults + 1
    /\ work' = [work EXCEPT ![w] = Idle]
    /\ UNCHANGED <<accessVars, socketVars, alert, inbox, task, enabled, notify>>

EmitStep(w) ==
    \/ Stamp(w) \/ Cast(w) \/ PickTargets(w) \/ Pushed(w) \/ Audit(w)
    \/ \E c \in Channel : FanSkip(w, c) \/ FanInApp(w, c) \/ \E t \in Slot : FanOutside(w, c, t)
    \/ \E u \in User : Push(w, u)

-----------------------------------------------------------------------------
(* deliver_notification *)

\* A worker takes the task; a channel switched off meanwhile is skipped.
Take(t) ==
    /\ task[t].pc = "queued"
    /\ task' = [task EXCEPT ![t] = IF task[t].channel \in enabled
                                   THEN [@ EXCEPT !.pc = "sending"] ELSE Free]
    /\ UNCHANGED <<accessVars, socketVars, faults, alert, work, inbox, enabled, notify>>

\* Sent; for a webhook, whatever the status of the answer.
Delivered(t) ==
    /\ task[t].pc = "sending"
    /\ task' = [task EXCEPT ![t] = Free]
    /\ UNCHANGED <<accessVars, socketVars, faults, alert, work, inbox, enabled, notify>>

\* Faulty form: no retry is the last one.
RetryForever(t) == [task[t] EXCEPT !.pc = "waiting"]

\* self.retry: wait, or give up after max_retries.
Retry(t) ==
    IF task[t].retries < max_retries
    THEN [task[t] EXCEPT !.pc = "waiting", !.retries = task[t].retries + 1]
    ELSE Free

\* Sending raises: SMTP, connection or timeout errors, a missing url.
DeliveryFails(t) ==
    /\ task[t].pc = "sending"
    /\ ChannelRow[task[t].channel].kind \in {"email", "webhook"}
    /\ task' = [task EXCEPT ![t] = Retry(t)]
    /\ UNCHANGED <<accessVars, socketVars, faults, alert, work, inbox, enabled, notify>>

\* default_retry_delay is over.
RetryDue(t) ==
    /\ task[t].pc = "waiting"
    /\ task' = [task EXCEPT ![t].pc = "queued"]
    /\ UNCHANGED <<accessVars, socketVars, faults, alert, work, inbox, enabled, notify>>

\* The worker is lost with a task it has acknowledged, or the time limit strikes.
DeliveryLost(t) ==
    /\ task[t].pc = "sending"
    /\ faults < MaxFaults
    /\ faults' = faults + 1
    /\ task' = [task EXCEPT ![t] = Free]
    /\ UNCHANGED <<accessVars, socketVars, alert, work, inbox, enabled, notify>>

DeliveryStep(t) == Take(t) \/ Delivered(t) \/ DeliveryFails(t) \/ RetryDue(t)

-----------------------------------------------------------------------------
(* People *)

\* acknowledge_alert or resolve_alert: one UPDATE, then the two broadcasts.
Close(a, n) ==
    /\ is_authenticated(a)
    /\ InScope(user[a], AlertOrg)
    /\ alert[n].status # "none"
    /\ alert' = [alert EXCEPT ![n].status = "closed"]
    /\ mail' = BroadcastAlert(mail, n)
    /\ UNCHANGED <<accessVars, sock, member, faults, work, inbox, task, enabled, notify>>

\* NotificationChannelViewSet, PATCH is_active.
EditChannel(a, c) ==
    /\ is_authenticated(a)
    /\ InScope(user[a], ChannelRow[c].org)
    /\ CountEdit
    /\ enabled' = IF c \in enabled THEN enabled \ {c} ELSE enabled \union {c}
    /\ UNCHANGED <<accounts, user, grant, socketVars, faults, alert, work, inbox, task, notify>>

-----------------------------------------------------------------------------
Next ==
    \/ AccessNext /\ RememberGrants /\ UNCHANGED <<member, mail, faults, centerVars>>
    \/ RealtimeNext /\ UNCHANGED <<accessVars, centerVars>>
    \/ \E w \in Worker :
         \/ \E a \in Alerts : RaiseNew(w, a) \/ RaiseAgain(w, a) \/ AutoResolve(w, a)
         \/ EmitStep(w)
         \/ EmitFails(w)
    \/ \E a \in Alerts : CooldownElapses(a)
    \/ \E t \in Slot : DeliveryStep(t) \/ DeliveryLost(t)
    \/ \E u \in User, n \in Alerts : Close(u, n)
    \/ \E u \in User, c \in Channel : EditChannel(u, c)

Spec == Init /\ [][Next]_vars

\* A worker in _emit goes on, the device keeps breaching so that raise_alert is
\* called again, time passes, and Celery runs what is queued or due.
Fairness ==
    /\ \A w \in Worker : WF_vars(EmitStep(w) \/ \E a \in Alerts : RaiseAgain(w, a))
    /\ \A a \in Alerts : WF_vars(CooldownElapses(a))
    /\ \A t \in Slot : WF_vars(DeliveryStep(t))

FairSpec == Spec /\ Fairness

-----------------------------------------------------------------------------
(* Properties *)

CenterTypeOK ==
    /\ alert \in [Alerts -> Alert]
    /\ work \in [Worker -> Emit]
    /\ inbox \in [User -> SUBSET Alerts]
    /\ task \in [Slot -> Delivery]
    /\ enabled \subseteq Channel
    /\ notify \subseteq Channel

\* The variables stay in their sets; in particular no mailbox of the channel
\* layer exceeds its capacity, whatever the producers send.  (CHANNEL_LAYERS)
TypeOK == AccessTypeOK /\ SocketTypeOK /\ CenterTypeOK

\* A notification pushed to a browser is in the inbox of the user who is behind
\* that connection, although accounts change between the rows and the pushes:
\* the client that opens the notification center finds what it was told about.
PushedIsStored ==
    \A s \in Socket : \A i \in DOMAIN mail[s] :
      sock[s].uid # None /\ mail[s][i].event = "notification" => mail[s][i].alert \in inbox[sock[s].uid]

\* An open alert is in the inbox of everyone it is meant for, sooner or later:
\* an emission that breaks off after last_notified_at was stamped is made up
\* for after the cooldown.
InAppDue(u, a) ==
    /\ IsOpen(a)
    /\ Recipient(u)
    /\ \E c \in Targets : LoudEnough(c) /\ ChannelRow[c].kind = "in_app"

EventuallyNotified ==
    \A u \in User, a \in Alerts : InAppDue(u, a) ~> (a \in inbox[u] \/ ~ InAppDue(u, a))

\* A delivery that has been queued comes to an end, delivered, skipped or given
\* up, even if every attempt fails.
DeliveryEnds == \A t \in Slot : task[t].pc # "free" ~> task[t].pc = "free"

\* What the repository says and the code does not do.  "Organization is the tenant
\* boundary" (accounts/models.py:6) and "every group a socket joins is one it's
\* allowed to see" (realtime/consumers.py:8): an alert is queued for connections
\* whose user would find it in the REST queryset of alerts only.
AlertsStayInTenant ==
    \A s \in Socket : \A i \in DOMAIN mail[s] :
      sock[s].uid # None /\ mail[s][i].event = "alert" => InScope(sock[s].row, AlertOrg)

\* The alerts as AlertSpec sees them: people are told by their inbox.
absLife == [a \in Alerts |-> alert[a].status]
absKey == [a \in Alerts |-> IF alert[a].status = "none" THEN None ELSE "rule"]
absTold == UNION {inbox[u] : u \in User}

Abs == INSTANCE AlertSpec WITH Alert <- Alerts, Key <- {"rule"}, NullRuleKey <- {},
                               life <- absLife, key <- absKey, told <- absTold

\* Raising an alert is one step here and a race of many statements in AlertEngine;
\* both do what AlertSpec says, so that nobody finds an alert in the inbox that
\* was not raised, whatever operators close while _fan_out is under way.
ImplementsAlertSpec == Abs!Spec
=============================================================================
