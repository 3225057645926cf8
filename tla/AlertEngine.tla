---------------------------- MODULE AlertEngine ----------------------------
(***************************************************************************)
(* raise_alert and everyone who touches the alerts table: evaluators (the   *)
(* bridge thread, ingest requests, the watchdog and the Celery backstop all *)
(* call raise_alert), operators who acknowledge and resolve, and the admin  *)
(* who soft-deletes.                                                        *)
(*                                                                         *)
(* A key stands for a (rule, device) pair.  For a key in NullRuleKey the    *)
(* rule is NULL (raise_device_offline_alert without an OFFLINE rule), and a *)
(* unique index never finds two NULLs equal.  Each SQL statement is a step. *)
(***************************************************************************)
EXTENDS Naturals, FiniteSets

CONSTANTS
    Key,          \* (rule, device) pairs that breach
    NullRuleKey,  \* the keys whose rule is NULL
    Worker,       \* processes and threads that evaluate rules
    Id,           \* alert ids (UUIDs, hence a plain set); bounds the table
    Cooldown,     \* rule.cooldown_seconds, in ticks
    None          \* no key, no alert

ASSUME KeyAssumption == NullRuleKey \subseteq Key /\ None \notin Key \union Id
ASSUME CooldownAssumption == Cooldown \in Nat

VARIABLES
    alert,     \* the table
    wk,        \* each evaluator: its statement and the instance it holds
    notified,  \* history: alerts whose notifications went out
    own        \* history: ticks since each evaluator itself last notified of an alert

vars == <<alert, wk, notified, own>>

\* elapsed: ticks since last_notified_at, saturating at Cooldown.  An alert that
\* was never notified counts as elapsed, which is how _cooldown_elapsed reads a
\* NULL last_notified_at.
Alert == [key : Key \union {None}, status : {"absent", "open", "acknowledged", "resolved"},
          deleted : BOOLEAN, elapsed : 0..Cooldown]

Evaluator == [pc : {"idle", "get", "insert", "reget", "first", "refresh", "stamp", "fanout", "none"},
              key : Key \union {None}, id : Id \union {None}, elapsed : 0..Cooldown]

NoAlert == [key |-> None, status |-> "absent", deleted |-> FALSE, elapsed |-> Cooldown]
Idle == [pc |-> "idle", key |-> None, id |-> None, elapsed |-> Cooldown]

Open(k) == {i \in Id : alert[i].key = k /\ alert[i].status = "open"}

\* What Alert.objects (SoftDeleteManager) returns of them.
Visible(k) == {i \in Open(k) : ~ alert[i].deleted}

-----------------------------------------------------------------------------
Init ==
    /\ alert = [i \in Id |-> NoAlert]
    /\ wk = [w \in Worker |-> Idle]
    /\ notified = {}
    /\ own = [w \in Worker |-> [i \in Id |-> Cooldown]]

-----------------------------------------------------------------------------
(* raise_alert, one statement at a time *)

Goto(w, pc) == wk' = [wk EXCEPT ![w].pc = pc]

\* The evaluator has read row i: its copy keeps the last_notified_at it saw.
Found(w, i) ==
    wk' = [wk EXCEPT ![w] = [pc |-> "refresh", key |-> wk[w].key, id |-> i,
                             elapsed |-> alert[i].elapsed]]

\* A rule matches (or the device is offline): raise_alert is called.
Raise(w, k) ==
    /\ wk[w].pc = "idle"
    /\ wk' = [wk EXCEPT ![w] = [Idle EXCEPT !.pc = "get", !.key = k]]
    /\ UNCHANGED <<alert, notified, own>>

\* get_or_create's SELECT.
Get(w) ==
    /\ wk[w].pc = "get"
    /\ \/ Visible(wk[w].key) = {} /\ Goto(w, "insert")
       \/ \E i \in Visible(wk[w].key) : Visible(wk[w].key) = {i} /\ Found(w, i)
    /\ UNCHANGED <<alert, notified, own>>

\* ... and MultipleObjectsReturned, which nothing catches before the caller.
GetMultiple(w) ==
    /\ wk[w].pc \in {"get", "reget"}
    /\ \E i, j \in Visible(wk[w].key) : i # j
    /\ wk' = [wk EXCEPT ![w] = Idle]
    /\ UNCHANGED <<alert, notified, own>>

\* Faulty form: the constraint is missing.
ConflictNever(k) == FALSE

\* uq_open_alert_per_rule_device: sees deleted rows, never matches a NULL rule.
Conflict(k) == k \notin NullRuleKey /\ Open(k) # {}

Insert(w) ==
    /\ wk[w].pc = "insert"
    /\ ~ Conflict(wk[w].key)
    /\ \E i \in Id :
         /\ alert[i].status = "absent"
         /\ alert' = [alert EXCEPT ![i] = [NoAlert EXCEPT !.key = wk[w].key, !.status = "open"]]
         /\ wk' = [wk EXCEPT ![w].pc = "stamp", ![w].id = i]
    /\ UNCHANGED <<notified, own>>

InsertConflict(w) ==
    /\ wk[w].pc = "insert"
    /\ Conflict(wk[w].key)
    /\ Goto(w, "reget")
    /\ UNCHANGED <<alert, notified, own>>

\* Django's second get(); without a row the IntegrityError reaches raise_alert.
Reget(w) ==
    /\ wk[w].pc = "reget"
    /\ \/ Visible(wk[w].key) = {} /\ Goto(w, "first")
       \/ \E i \in Visible(wk[w].key) : Visible(wk[w].key) = {i} /\ Found(w, i)
    /\ UNCHANGED <<alert, notified, own>>

\* The except branch: filter(...).first().
First(w) ==
    /\ wk[w].pc = "first"
    /\ \/ Visible(wk[w].key) = {} /\ Goto(w, "none")
       \/ \E i \in Visible(wk[w].key) : Found(w, i)
    /\ UNCHANGED <<alert, notified, own>>

\* "if alert is None: return None"
ReturnNone(w) ==
    /\ wk[w].pc = "none"
    /\ wk' = [wk EXCEPT ![w] = Idle]
    /\ UNCHANGED <<alert, notified, own>>

CooldownElapsed(w) == wk[w].key \in NullRuleKey \/ wk[w].elapsed >= Cooldown

\* Faulty form: only the evaluator that created the alert emits.
RefreshSilent(w) ==
    /\ wk[w].pc = "refresh"
    /\ wk' = [wk EXCEPT ![w] = Idle]
    /\ UNCHANGED <<alert, notified, own>>

\* Faulty form: the refresh saves the last_notified_at it has read, too.
RefreshStale(w) ==
    /\ wk[w].pc = "refresh"
    /\ alert' = [alert EXCEPT ![wk[w].id].elapsed = wk[w].elapsed]
    /\ wk' = IF CooldownElapsed(w) THEN [wk EXCEPT ![w].pc = "stamp"]
             ELSE [wk EXCEPT ![w] = Idle]
    /\ UNCHANGED <<notified, own>>

\* Faulty form: the refresh saves every column of the row it read while OPEN.
RefreshFull(w) ==
    /\ wk[w].pc = "refresh"
    /\ alert' = [alert EXCEPT ![wk[w].id].status = "open"]
    /\ wk' = IF CooldownElapsed(w) THEN [wk EXCEPT ![w].pc = "stamp"]
             ELSE [wk EXCEPT ![w] = Idle]
    /\ UNCHANGED <<notified, own>>

\* Refresh value and message, then look at the clock.
Refresh(w) ==
    /\ wk[w].pc = "refresh"
    /\ wk' = IF CooldownElapsed(w) THEN [wk EXCEPT ![w].pc = "stamp"]
             ELSE [wk EXCEPT ![w] = Idle]
    /\ UNCHANGED <<alert, notified, own>>

\* _emit: last_notified_at is saved first, whatever became of the alert.
Stamp(w) ==
    /\ wk[w].pc = "stamp"
    /\ alert' = [alert EXCEPT ![wk[w].id].elapsed = 0]
    /\ own' = [own EXCEPT ![w][wk[w].id] = 0]
    /\ Goto(w, "fanout")
    /\ UNCHANGED notified

\* Broadcast, notifications, audit record.
FanOut(w) ==
    /\ wk[w].pc = "fanout"
    /\ notified' = notified \union {wk[w].id}
    /\ wk' = [wk EXCEPT ![w] = Idle]
    /\ UNCHANGED <<alert, own>>

\* Any statement or broadcast raises, or the process dies: nothing is undone.
Abort(w) ==
    /\ wk[w].pc # "idle"
    /\ wk' = [wk EXCEPT ![w] = Idle]
    /\ UNCHANGED <<alert, notified, own>>

Step(w) ==
    \/ Get(w)
    \/ GetMultiple(w)
    \/ Insert(w)
    \/ InsertConflict(w)
    \/ Reget(w)
    \/ First(w)
    \/ ReturnNone(w)
    \/ Refresh(w)
    \/ Stamp(w)
    \/ FanOut(w)

-----------------------------------------------------------------------------
(* Everyone else *)

\* One UPDATE of the visible OPEN rows, when a sensor rule stops matching.
AutoResolve(k) ==
    /\ k \notin NullRuleKey
    /\ Visible(k) # {}
    /\ alert' = [i \in Id |-> IF i \in Visible(k) THEN [alert[i] EXCEPT !.status = "resolved"]
                              ELSE alert[i]]
    /\ UNCHANGED <<wk, notified, own>>

\* acknowledge_alert and resolve_alert look at no status.
SetStatus(i, status) ==
    /\ alert[i].status # "absent"
    /\ ~ alert[i].deleted
    /\ alert' = [alert EXCEPT ![i].status = status]
    /\ UNCHANGED <<wk, notified, own>>

\* Faulty form: the label of the choice instead of its value.
AcknowledgeLabel(i) == SetStatus(i, "Acknowledged")

Acknowledge(i) == SetStatus(i, "acknowledged")
Resolve(i) == SetStatus(i, "resolved")

\* SoftDeleteModel.delete, reached from the admin site.
SoftDelete(i) ==
    /\ alert[i].status # "absent"
    /\ ~ alert[i].deleted
    /\ alert' = [alert EXCEPT ![i].deleted = TRUE]
    /\ UNCHANGED <<wk, notified, own>>

Later(n) == IF n < Cooldown THEN n + 1 ELSE n

\* Time moves for rows and for the copies evaluators hold.
Tick ==
    /\ alert' = [i \in Id |-> [alert[i] EXCEPT !.elapsed = Later(@)]]
    /\ wk' = [w \in Worker |-> [wk[w] EXCEPT !.elapsed = Later(@)]]
    /\ own' = [w \in Worker |-> [i \in Id |-> Later(own[w][i])]]
    /\ alert' # alert \/ wk' # wk
    /\ UNCHANGED notified

-----------------------------------------------------------------------------
Next ==
    \/ \E w \in Worker, k \in Key : Raise(w, k)
    \/ \E w \in Worker : Step(w)
    \/ \E w \in Worker : Abort(w)
    \/ \E k \in Key : AutoResolve(k)
    \/ \E i \in Id : Acknowledge(i)
    \/ \E i \in Id : Resolve(i)
    \/ \E i \in Id : SoftDelete(i)
    \/ Tick

Spec == Init /\ [][Next]_vars

\* A breach that lasts is evaluated again and again (telemetry keeps coming,
\* beat keeps firing), and an attempt that is made over and over gets past each
\* statement of the emitting path in the end: the database and Redis are not
\* down exactly then every single time.
Fairness ==
    /\ WF_vars(Tick)
    /\ \A k \in Key :
         /\ SF_vars(\E w \in Worker : Raise(w, k))
         /\ SF_vars(\E w \in Worker : wk[w].key = k /\ Get(w))
         /\ SF_vars(\E w \in Worker : wk[w].key = k /\ Refresh(w))
         /\ SF_vars(\E w \in Worker : wk[w].key = k /\ Stamp(w))
         /\ SF_vars(\E w \in Worker : wk[w].key = k /\ FanOut(w))
    /\ WF_vars(\E w \in Worker : Step(w))

FairSpec == Spec /\ Fairness

-----------------------------------------------------------------------------
(* Properties that hold *)

TypeOK ==
    /\ alert \in [Id -> Alert]
    /\ wk \in [Worker -> Evaluator]
    /\ notified \subseteq Id
    /\ own \in [Worker -> [Id -> 0..Cooldown]]

\* However many evaluators race through get_or_create, and whatever operators
\* resolve, acknowledge or delete meanwhile, a real rule has at most one OPEN
\* alert per device, hidden rows included.  (raise_alert and the constraint)
OneOpenPerRule == \A k \in Key \ NullRuleKey : \A i, j \in Open(k) : i = j

\* Two evaluators that have read the same last_notified_at both notify, so the
\* cooldown does not keep two notifications of one alert apart.  But no evaluator
\* notifies twice of an alert of a rule within a cooldown, whatever the others
\* stamp meanwhile from copies of any age: a burst has at most one notification
\* from each.  (_cooldown_elapsed, the update_fields of raise_alert and _emit)
CooldownPerEvaluator ==
    [][\A w \in Worker :
          (wk[w].pc = "stamp" /\ wk'[w].pc = "fanout" /\ wk[w].key \notin NullRuleKey)
          => own[w][wk[w].id] >= Cooldown]_vars

\* An OPEN alert of a rule is notified or stops being open, even if its
\* creator dies before _emit, or between the stamp and the fan-out: a lasting
\* breach finds it again once the cooldown is over.  (raise_alert, _emit)
Unnotified(i) ==
    /\ alert[i].status = "open" /\ ~ alert[i].deleted /\ alert[i].key \notin NullRuleKey
    /\ i \notin notified

OpenGetsNotified == \A i \in Id : Unnotified(i) ~> ~ Unnotified(i)

\* The rows as AlertSpec sees them: ACKNOWLEDGED and RESOLVED are one.
absLife == [i \in Id |-> CASE alert[i].status = "absent" -> "none"
                           [] alert[i].status = "open" -> "open"
                           [] OTHER -> "closed"]
absKey == [i \in Id |-> alert[i].key]

Abs == INSTANCE AlertSpec WITH Alert <- Id, life <- absLife, key <- absKey, told <- notified

\* However its statements interleave, race for the INSERT, fail or work on stale
\* copies, raise_alert with the operators around it does no more than open,
\* close and tell of alerts as AlertSpec says.  (raise_alert, _emit)
ImplementsAlertSpec == Abs!Spec

-----------------------------------------------------------------------------
(* What the repository says and the code does not do *)

\* alerts/models.py:8: "De-duplication keeps a single open alert per (rule,
\* device)" - the pairs with a NULL rule included.
SingleOpenAlert == \A k \in Key : \A i, j \in Visible(k) : i = j
=============================================================================
