---------------------- MODULE CommandLifecycleProofs ----------------------
(***************************************************************************)
(* Theorems about CommandLifecycle for any set of commands, any vocabulary  *)
(* of reports and any bounds.                                              *)
(***************************************************************************)
EXTENDS CommandLifecycle, TLAPS

\* Requests whose database write is behind them.
PastSave == {"saved", "announced", "done", "errored", "died"}

\* A message can only exist for a command whose row was inserted first.
RowsFirst ==
    /\ \A c \in Command : IF pc[c] = "idle" THEN row[c] = NoRow ELSE row[c].status # "absent"
    /\ \A c \in outbox \union atBroker : pc[c] # "idle"
    /\ \A i \in DOMAIN results : results[i].cmd \in Command => results[i].cmd \in atBroker

\* What a row (or a copy of it) may say of the request that wrote it.
ClaimsRequest(r, c) ==
    /\ r.error = "publish failed" => "sent" \notin r.stamps /\ pc[c] \in PastSave
    /\ "sent" \in r.stamps => pc[c] \in PastSave

RequestsClaimed == \A c \in Command : ClaimsRequest(row[c], c)

\* The bridge's copy is stale only in the columns the web request writes.
HeldSound ==
    /\ bpc # "idle" => nxt \in DOMAIN results /\ Current.cmd \in Command
    /\ bpc = "loaded" =>
         /\ ClaimsAnswer(held, Current.cmd)
         /\ ClaimsRequest(held, Current.cmd)
         /\ row[Current.cmd].stamps \ {"sent"} = held.stamps \ {"sent"}
    /\ bpc = "saved" => StampOf(StatusOf(Current.rep)) \in row[Current.cmd].stamps

\* Nothing follows the outcome of a command.
OutcomeIsLast ==
    \A i, j \in DOMAIN results :
        (i < j /\ results[i].cmd = results[j].cmd /\ results[i].cmd \in Command)
        => StatusOf(results[i].rep) = "acked"

\* The row reflects an answer at least as recent as every handled one.
Reflects(c, k) ==
    /\ IsAnswer(k, c)
    /\ row[c].status = StatusOf(results[k].rep)
    /\ \A j \in DOMAIN results : IsAnswer(j, c) /\ Handled(j) => j <= k

HandledReflected ==
    \A c \in Command \ (late \union lost) :
        (\E i \in DOMAIN results : IsAnswer(i, c) /\ Handled(i))
        => \E k \in DOMAIN results : Reflects(c, k)

IInv ==
    /\ TypeOK
    /\ RowsFirst
    /\ RequestsClaimed
    /\ HeldSound
    /\ OutcomeReported
    /\ RecordedBeforeShown
    /\ OutcomeIsLast
    /\ HandledReflected

-----------------------------------------------------------------------------
(* What the helper operators return *)

\* status_map yields an answered status, and a stamp to go with it.
LEMMA StatusOfType ==
    \A rep : /\ StatusOf(rep) \in Answered
            /\ StampOf(StatusOf(rep)) \in {"acked", "completed"}
BY DEF StatusOf, StampOf, Answered

\* transition_command turns a row into a row.
LEMMA TransitionType ==
    ASSUME NEW r \in Row, NEW rep \in Report
    PROVE  Transition(r, rep) \in Row
<1>1. rep.error \in {"", "device"}
  BY ReportAssumption
<1>2. StatusOf(rep) \in Status /\ StampOf(StatusOf(rep)) \in {"sent", "acked", "completed"}
  BY StatusOfType DEF Answered, Status
<1> QED BY <1>1, <1>2 DEF Transition, Row

-----------------------------------------------------------------------------
(* Type correctness *)

\* What each writer of a row puts into its columns.
LEMMA TransitionFields ==
    ASSUME NEW r, NEW rep
    PROVE  /\ Transition(r, rep).status = StatusOf(rep)
           /\ Transition(r, rep).stamps = r.stamps \union {StampOf(StatusOf(rep))}
           /\ Transition(r, rep).error = IF rep.error # "" THEN rep.error ELSE r.error
BY DEF Transition

\* The dispatcher's SENT save changes status and sent_at only.
LEMMA SentRowFields ==
    ASSUME NEW r \in Row
    PROVE  /\ SentRow(r) \in Row
           /\ SentRow(r).status = "sent"
           /\ SentRow(r).stamps = r.stamps \union {"sent"}
           /\ SentRow(r).error = r.error
BY DEF SentRow, Row, Status

\* The expiry UPDATE changes the status only.
LEMMA ExpiredFields ==
    ASSUME NEW r \in Row
    PROVE  /\ [r EXCEPT !.status = "expired"] \in Row
           /\ [r EXCEPT !.status = "expired"].status = "expired"
           /\ [r EXCEPT !.status = "expired"].stamps = r.stamps
           /\ [r EXCEPT !.status = "expired"].error = r.error
BY DEF Row, Status

\* The absent row is a row.
LEMMA NoRowType == NoRow \in Row
BY DEF NoRow, Row

\* What an absent row holds.
LEMMA NoRowFields == NoRow.status = "absent" /\ NoRow.stamps = {}
BY DEF NoRow

\* The row dispatch_command creates is a row.
LEMMA NewRowType == NewRow \in Row
BY DEF NewRow, Row, Status

\* What a new row holds.
LEMMA NewRowFields == NewRow.status = "queued" /\ NewRow.stamps = {} /\ NewRow.error = ""
BY DEF NewRow

\* The message being handled is one of the topic's messages.
LEMMA CurrentType ==
    ASSUME TypeOK, nxt \in DOMAIN results
    PROVE  Current \in Message /\ Current.rep \in Report
<1>1. Current \in Message
  BY DEF TypeOK, Current
<1> QED BY <1>1 DEF Message

\* The initial state has the right types.
LEMMA InitType == Init => TypeOK
<1> SUFFICES ASSUME Init PROVE TypeOK
  OBVIOUS
<1>1. row \in [Command -> Row] /\ held \in Row
  BY NoRowType DEF Init
<1>2. results \in Seq(Message) /\ nxt \in 1..(Len(results) + 1) /\ confirmed \in 0..(nxt - 1)
  BY DEF Init
<1> QED BY <1>1, <1>2, BoundAssumption DEF Init, TypeOK

\* Every statement of dispatch_command keeps the types.
LEMMA RequestType ==
    ASSUME TypeOK, NEW c \in Command, Request(c)
    PROVE  TypeOK'
<1> USE DEF webVars, linkVars, queueVars, bridgeVars, histVars, Handed, Raised
<1>1. CASE Create(c)
  BY <1>1, NewRowType DEF Create, TypeOK
<1>2. CASE PublishDelivered(c)
  BY <1>2 DEF PublishDelivered, TypeOK
<1>3. CASE PublishTimesOut(c)
  BY <1>3 DEF PublishTimesOut, TypeOK
<1>4. CASE PublishNoClient(c)
  BY <1>4 DEF PublishNoClient, TypeOK
<1>5. CASE PublishOffline(c)
  BY <1>5 DEF PublishOffline, TypeOK
<1>6. CASE SaveSent(c)
  <2>1. SentRow(row[c]) \in Row
    BY SentRowFields DEF TypeOK
  <2>2. row' \in [Command -> Row]
    BY <1>6, <2>1 DEF SaveSent, TypeOK
  <2> QED BY <1>6, <2>2 DEF SaveSent, TypeOK
<1>7. CASE SaveSentFails(c)
  BY <1>7 DEF SaveSentFails, TypeOK
<1>8. CASE SaveError(c)
  <2>1. [row[c] EXCEPT !.error = "publish failed"] \in Row
    BY DEF TypeOK, Row, Status
  <2>2. row' \in [Command -> Row]
    BY <1>8, <2>1 DEF SaveError, TypeOK
  <2> QED BY <1>8, <2>2 DEF SaveError, TypeOK
<1>9. CASE Announce(c)
  BY <1>9 DEF Announce, TypeOK, Status
<1>10. CASE Audit(c)
  BY <1>10 DEF Audit, TypeOK
<1>11. CASE RequestFails(c)
  BY <1>11 DEF RequestFails, TypeOK
<1> QED BY <1>1, <1>2, <1>3, <1>4, <1>5, <1>6, <1>7, <1>8, <1>9, <1>10, <1>11 DEF Request

\* Every statement of handle_result keeps the types.
LEMMA BridgeType ==
    ASSUME TypeOK, HeldSound, Bridge \/ Puback \/ BridgeResume
    PROVE  TypeOK'
<1> USE DEF webVars, linkVars, queueVars, bridgeVars, histVars, Advance
<1>1. CASE BridgeSkip
  BY <1>1 DEF BridgeSkip, TypeOK
<1>2. CASE BridgeLoad
  BY <1>2 DEF BridgeLoad, TypeOK, Exists
<1>3. CASE BridgeSave
  <2>1. nxt \in DOMAIN results /\ Current.cmd \in Command /\ Current.rep \in Report
    BY <1>3, CurrentType DEF BridgeSave, HeldSound
  <2>2. Transition(held, Current.rep) \in Row
    BY <2>1, TransitionType DEF TypeOK
  <2> QED BY <1>3, <2>1, <2>2, NoRowType DEF BridgeSave, TypeOK
<1>4. CASE BridgeBroadcast
  <2>1. StatusOf(Current.rep) \in Status
    BY StatusOfType DEF Answered, Status
  <2> QED BY <1>4, <2>1 DEF BridgeBroadcast, TypeOK, HeldSound
<1>5. CASE BridgeSwallows
  <2>1. Current.cmd \in Command
    BY <1>5 DEF BridgeSwallows, HeldSound
  <2> QED BY <1>5, <2>1, NoRowType DEF BridgeSwallows, TypeOK
<1>6. CASE BridgeBroadcastSwallowed
  BY <1>6 DEF BridgeBroadcastSwallowed, TypeOK, HeldSound
<1>7. CASE Puback
  BY <1>7 DEF Puback, TypeOK
<1>8. CASE BridgeResume
  BY <1>8, BoundAssumption, NoRowType DEF BridgeResume, TypeOK
<1> QED BY <1>1, <1>2, <1>3, <1>4, <1>5, <1>6, <1>7, <1>8 DEF Bridge

\* Every step of the command path keeps the types.
LEMMA NextType ==
    ASSUME TypeOK, HeldSound, [Next]_vars
    PROVE  TypeOK'
<1> USE DEF webVars, linkVars, queueVars, bridgeVars, histVars
<1>1. CASE \E c \in Command : Request(c)
  BY <1>1, RequestType
<1>2. CASE WebRestart
  BY <1>2 DEF WebRestart, TypeOK, Closed
<1>3. CASE PublisherDrop \/ PublisherReconnect \/ \E c \in Command : PublisherFlush(c)
  BY <1>3 DEF PublisherDrop, PublisherReconnect, PublisherFlush, TypeOK
<1>4. CASE \E c \in Command \union {NoCommand}, rep \in Report : DeviceReport(c, rep)
  BY <1>4 DEF DeviceReport, TypeOK, Message
<1>5. CASE Bridge \/ Puback \/ BridgeResume
  BY <1>5, BridgeType
<1>6. CASE ExpireStale
  <2>1. \A c \in Command : [row[c] EXCEPT !.status = "expired"] \in Row
    BY DEF TypeOK, Row, Status
  <2> QED BY <1>6, <2>1 DEF ExpireStale, TypeOK
<1>7. CASE Tick
  BY <1>7, BoundAssumption DEF Tick, TypeOK, Lapse
<1>8. CASE UNCHANGED vars
  BY <1>8 DEF vars, TypeOK
<1> QED BY <1>1, <1>2, <1>3, <1>4, <1>5, <1>6, <1>7, <1>8 DEF Next

-----------------------------------------------------------------------------
(* What one step does to a row and to the topic *)

\* Publishing a result leaves the earlier messages where they are.
LEMMA ReportGrows ==
    ASSUME TypeOK, NEW d, NEW rep, DeviceReport(d, rep)
    PROVE  /\ DOMAIN results' = DOMAIN results \union {Len(results) + 1}
           /\ Len(results) + 1 \notin DOMAIN results
           /\ \A i \in DOMAIN results : results'[i] = results[i]
           /\ results'[Len(results) + 1] = [cmd |-> d, rep |-> rep]
           /\ Len(results') = Len(results) + 1
BY DEF DeviceReport, TypeOK

\* Every step but DeviceReport leaves the topic alone.
LEMMA TopicEffect ==
    ASSUME [Next]_vars
    PROVE  \/ results' = results
           \/ \E d \in Command \union {NoCommand}, rep \in Report : DeviceReport(d, rep)
<1> USE DEF webVars, linkVars, queueVars, bridgeVars, histVars
<1>1. ASSUME NEW c \in Command, Request(c) PROVE results' = results
  BY <1>1 DEF Request, Create, PublishDelivered, PublishTimesOut, PublishNoClient,
     PublishOffline, SaveSent, SaveSentFails, SaveError, Announce, Audit, RequestFails
<1>2. ASSUME Bridge PROVE results' = results
  BY <1>2 DEF Bridge, BridgeSkip, BridgeLoad, BridgeSave, BridgeBroadcast, BridgeSwallows,
     BridgeBroadcastSwallowed
<1> QED BY <1>1, <1>2 DEF Next, WebRestart, PublisherDrop, PublisherReconnect,
      PublisherFlush, Puback, BridgeResume, ExpireStale, Tick, vars

\* transition_command is the only code that enters an answered status or
\* touches acked_at and completed_at.
LEMMA RowEffect ==
    ASSUME TypeOK, RowsFirst, HeldSound, [Next]_vars, NEW c \in Command
    PROVE  \/ /\ row'[c].stamps \ {"sent"} = row[c].stamps \ {"sent"}
              /\ row'[c].status \in Answered => row'[c].status = row[c].status
           \/ BridgeSave /\ c = Current.cmd /\ row'[c] = Transition(held, Current.rep)
<1> USE DEF webVars, linkVars, queueVars, bridgeVars, histVars
<1>1. ASSUME NEW d \in Command, Request(d)
      PROVE  /\ row'[c].stamps \ {"sent"} = row[c].stamps \ {"sent"}
             /\ row'[c].status \in Answered => row'[c].status = row[c].status
  <2>1. CASE Create(d)
    <3>1. CASE c = d
      <4>1. row[c] = NoRow /\ row'[c] = NewRow
        BY <2>1, <3>1 DEF Create, TypeOK, RowsFirst
      <4>2. row'[c].stamps = {} /\ row'[c].status = "queued"
        BY <4>1, NewRowFields
      <4>3. row[c].stamps = {}
        BY <4>1, NoRowFields
      <4> QED BY <4>2, <4>3 DEF Answered
    <3>2. CASE c # d
      BY <2>1, <3>2 DEF Create, TypeOK
    <3> QED BY <3>1, <3>2
  <2>2. CASE SaveSent(d)
    BY <2>2, SentRowFields DEF SaveSent, TypeOK, Answered
  <2>3. CASE SaveError(d)
    BY <2>3 DEF SaveError, TypeOK, Row
  <2> QED BY <1>1, <2>1, <2>2, <2>3 DEF Request, PublishDelivered, PublishTimesOut,
        PublishNoClient, PublishOffline, SaveSentFails, Announce, Audit, RequestFails
<1>2. CASE Bridge
  <2>1. CASE BridgeSave
    BY <2>1 DEF BridgeSave, TypeOK
  <2> QED BY <1>2, <2>1 DEF Bridge, BridgeSkip, BridgeLoad, BridgeBroadcast,
        BridgeSwallows, BridgeBroadcastSwallowed
<1>3. CASE ExpireStale
  BY <1>3 DEF ExpireStale, TypeOK, Row, Answered
<1> QED BY <1>1, <1>2, <1>3 DEF Next, WebRestart, PublisherDrop, PublisherReconnect,
      PublisherFlush, DeviceReport, Puback, BridgeResume, Tick, vars

-----------------------------------------------------------------------------
(* The conjuncts of IInv, one lemma each *)

\* Nothing is published, reported or shown of a command with no row.
LEMMA RowsFirstStep ==
    ASSUME TypeOK, RowsFirst, HeldSound, [Next]_vars
    PROVE  RowsFirst'
<1> USE DEF webVars, linkVars, queueVars, bridgeVars, histVars
<1>1. ASSUME NEW d \in Command, Request(d) PROVE RowsFirst'
  <2>1. CASE Create(d)
    BY <2>1, NewRowFields DEF Create, TypeOK, RowsFirst
  <2>2. CASE PublishDelivered(d) \/ PublishTimesOut(d) \/ PublishNoClient(d) \/ PublishOffline(d)
    <3>1. CASE PublishDelivered(d) \/ PublishTimesOut(d)
      BY <3>1 DEF PublishDelivered, PublishTimesOut, Handed, TypeOK, RowsFirst
    <3>2. CASE PublishNoClient(d) \/ PublishOffline(d)
      BY <3>2 DEF PublishNoClient, PublishOffline, Raised, TypeOK, RowsFirst
    <3> QED BY <2>2, <3>1, <3>2
  <2>3. CASE SaveSent(d) \/ SaveError(d)
    <3>1. CASE SaveSent(d)
      BY <3>1, SentRowFields DEF SaveSent, TypeOK, RowsFirst
    <3>2. CASE SaveError(d)
      <4>1. row[d].status # "absent"
        BY <3>2 DEF SaveError, RowsFirst
      <4>2. row'[d].status = row[d].status /\ \A c \in Command \ {d} : row'[c] = row[c]
        BY <3>2 DEF SaveError, TypeOK, Row
      <4>3. pc'[d] # "idle" /\ \A c \in Command \ {d} : pc'[c] = pc[c]
        BY <3>2 DEF SaveError, TypeOK
      <4>4. \A c \in Command : IF pc'[c] = "idle" THEN row'[c] = NoRow ELSE row'[c].status # "absent"
        <5> TAKE c \in Command
        <5>1. CASE c = d
          BY <4>1, <4>2, <4>3, <5>1
        <5>2. CASE c # d
          BY <4>2, <4>3, <5>2 DEF RowsFirst
        <5> QED BY <5>1, <5>2
      <4>5. UNCHANGED <<outbox, atBroker, results>>
        BY <3>2 DEF SaveError
      <4>6. \A c \in outbox' \union atBroker' : c \in Command /\ pc[c] # "idle"
        BY <4>5 DEF RowsFirst, TypeOK
      <4> QED BY <4>3, <4>4, <4>5, <4>6 DEF RowsFirst
    <3> QED BY <2>3, <3>1, <3>2
  <2>4. CASE SaveSentFails(d) \/ Announce(d) \/ Audit(d) \/ RequestFails(d)
    <3>1. CASE SaveSentFails(d) \/ RequestFails(d)
      BY <3>1 DEF SaveSentFails, Raised, RequestFails, TypeOK, RowsFirst
    <3>2. CASE Announce(d)
      BY <3>2 DEF Announce, TypeOK, RowsFirst
    <3>3. CASE Audit(d)
      BY <3>3 DEF Audit, TypeOK, RowsFirst
    <3> QED BY <2>4, <3>1, <3>2, <3>3
  <2> QED BY <1>1, <2>1, <2>2, <2>3, <2>4 DEF Request
<1>2. CASE WebRestart
  BY <1>2 DEF WebRestart, Closed, TypeOK, RowsFirst
<1>3. CASE PublisherDrop \/ PublisherReconnect \/ \E c \in Command : PublisherFlush(c)
  BY <1>3 DEF PublisherDrop, PublisherReconnect, PublisherFlush, TypeOK, RowsFirst
<1>4. ASSUME NEW d \in Command \union {NoCommand}, NEW rep \in Report, DeviceReport(d, rep)
      PROVE  RowsFirst'
  <2>1. d \in Command => d \in atBroker
    BY <1>4, CommandAssumption DEF DeviceReport
  <2> QED BY <1>4, <2>1, ReportGrows DEF DeviceReport, RowsFirst
<1>5. CASE Bridge \/ Puback \/ BridgeResume
  <2>1. CASE BridgeSave
    <3>1. Current.cmd \in Command /\ nxt \in DOMAIN results
      BY <2>1 DEF BridgeSave, HeldSound
    <3>2. pc[Current.cmd] # "idle"
      BY <3>1 DEF RowsFirst, Current
    <3>3. Transition(held, Current.rep).status # "absent"
      BY StatusOfType DEF Transition, Answered
    <3> QED BY <2>1, <3>1, <3>2, <3>3 DEF BridgeSave, TypeOK, RowsFirst
  <2> QED BY <1>5, <2>1 DEF Bridge, BridgeSkip, BridgeLoad, BridgeBroadcast, BridgeSwallows,
        BridgeBroadcastSwallowed, Puback, BridgeResume, RowsFirst
<1>6. CASE ExpireStale
  <2>1. \A c \in Command : row'[c] = row[c] \/ (row[c].status \in Pending /\ row'[c].status = "expired")
    <3> TAKE c \in Command
    <3>1. row[c] \in Row
      BY DEF TypeOK
    <3>2. row'[c] = IF Stale(c) THEN [row[c] EXCEPT !.status = "expired"] ELSE row[c]
      BY <1>6 DEF ExpireStale
    <3> QED BY <3>1, <3>2, ExpiredFields DEF Stale
  <2>2. \A c \in Command : row[c] = NoRow => row[c].status \notin Pending
    BY NoRowFields DEF Pending
  <2> QED BY <1>6, <2>1, <2>2 DEF ExpireStale, RowsFirst
<1>7. CASE Tick \/ UNCHANGED vars
  BY <1>7 DEF Tick, vars, RowsFirst
<1> QED BY <1>1, <1>2, <1>3, <1>4, <1>5, <1>6, <1>7 DEF Next

\* Only an answer of the device puts an answered status in a row.
LEMMA OutcomeReportedStep ==
    ASSUME TypeOK, RowsFirst, HeldSound, OutcomeReported, [Next]_vars
    PROVE  OutcomeReported'
<1>1. \A i \in DOMAIN results : i \in DOMAIN results' /\ results'[i] = results[i]
  BY TopicEffect, ReportGrows
<1>2. SUFFICES ASSUME NEW c \in Command PROVE ClaimsAnswer(row[c], c)'
  BY DEF OutcomeReported
<1>3. CASE /\ row'[c].stamps \ {"sent"} = row[c].stamps \ {"sent"}
           /\ row'[c].status \in Answered => row'[c].status = row[c].status
  BY <1>1, <1>3 DEF OutcomeReported, ClaimsAnswer, IsAnswer
<1>4. CASE BridgeSave /\ c = Current.cmd /\ row'[c] = Transition(held, Current.rep)
  <2>1. nxt \in DOMAIN results /\ ClaimsAnswer(held, c)
    BY <1>4 DEF BridgeSave, HeldSound
  <2>2. /\ Transition(held, Current.rep).status = StatusOf(Current.rep)
        /\ Transition(held, Current.rep).stamps = held.stamps \union {StampOf(StatusOf(Current.rep))}
    BY DEF Transition
  <2>3. /\ row'[c].status = StatusOf(Current.rep)
        /\ row'[c].stamps = held.stamps \union {StampOf(StatusOf(Current.rep))}
    BY <1>4, <2>2
  <2> QED BY <1>1, <1>4, <2>1, <2>3 DEF ClaimsAnswer, IsAnswer, Current
<1> QED BY <1>3, <1>4, RowEffect

\* A request never goes back before its database write.
LEMMA PastSaveStays ==
    ASSUME TypeOK, [Next]_vars, NEW c \in Command, pc[c] \in PastSave
    PROVE  pc'[c] \in PastSave
<1> USE DEF webVars, linkVars, queueVars, bridgeVars, histVars, PastSave
<1>1. ASSUME NEW d \in Command, Request(d) PROVE pc'[c] \in PastSave
  <2>1. pc' = [pc EXCEPT ![d] = pc'[d]]
    BY <1>1 DEF Request, Create, PublishDelivered, PublishTimesOut, PublishNoClient,
       PublishOffline, Handed, Raised, SaveSent, SaveSentFails, SaveError, Announce, Audit,
       RequestFails, TypeOK
  <2>2. c # d => pc'[c] = pc[c]
    BY <2>1 DEF TypeOK
  <2>3. CASE c = d
    BY <1>1, <2>3 DEF Request, Create, PublishDelivered, PublishTimesOut, PublishNoClient,
       PublishOffline, Handed, Raised, SaveSent, SaveSentFails, SaveError, Announce, Audit,
       RequestFails, TypeOK
  <2> QED BY <2>2, <2>3
<1>2. CASE WebRestart
  BY <1>2 DEF WebRestart
<1>3. CASE Bridge
  BY <1>3 DEF Bridge, BridgeSkip, BridgeLoad, BridgeSave, BridgeBroadcast, BridgeSwallows,
     BridgeBroadcastSwallowed
<1> QED BY <1>1, <1>2, <1>3 DEF Next, PublisherDrop, PublisherReconnect,
      PublisherFlush, DeviceReport, Puback, BridgeResume, ExpireStale, Tick, vars

\* Only the bridge moves its own position and its copy.
LEMMA BridgeFrame ==
    ASSUME [Next]_vars, ~ Bridge, ~ BridgeResume
    PROVE  nxt' = nxt /\ bpc' = bpc /\ held' = held /\ lost' = lost
<1> USE DEF webVars, linkVars, queueVars, bridgeVars, histVars
<1>1. ASSUME NEW c \in Command, Request(c)
      PROVE  nxt' = nxt /\ bpc' = bpc /\ held' = held /\ lost' = lost
  BY <1>1 DEF Request, Create, PublishDelivered, PublishTimesOut, PublishNoClient,
     PublishOffline, SaveSent, SaveSentFails, SaveError, Announce, Audit, RequestFails
<1> QED BY <1>1 DEF Next, WebRestart, PublisherDrop, PublisherReconnect,
      PublisherFlush, DeviceReport, Puback, ExpireStale, Tick, vars

\* The writers of a row.
LEMMA RowWriters ==
    ASSUME TypeOK, [Next]_vars, NEW c \in Command
    PROVE  \/ row'[c] = row[c]
           \/ Create(c) \/ SaveSent(c) \/ SaveError(c) \/ ExpireStale
           \/ BridgeSave /\ c = Current.cmd
<1> USE DEF webVars, linkVars, queueVars, bridgeVars, histVars
<1>1. ASSUME NEW d \in Command, Request(d), ~ Create(c), ~ SaveSent(c), ~ SaveError(c)
      PROVE  row'[c] = row[c]
  BY <1>1 DEF Request, Create, PublishDelivered, PublishTimesOut, PublishNoClient,
     PublishOffline, SaveSent, SaveSentFails, SaveError, Announce, Audit, RequestFails, TypeOK
<1>2. ASSUME Bridge, ~ (BridgeSave /\ c = Current.cmd) PROVE row'[c] = row[c]
  BY <1>2 DEF Bridge, BridgeSkip, BridgeLoad, BridgeSave, BridgeBroadcast, BridgeSwallows,
     BridgeBroadcastSwallowed, TypeOK
<1> QED BY <1>1, <1>2 DEF Next, WebRestart, PublisherDrop, PublisherReconnect,
     PublisherFlush, DeviceReport, Puback, BridgeResume, Tick, vars

\* What a row claims of its web request, the request has really done.
LEMMA RequestsClaimedStep ==
    ASSUME TypeOK, RowsFirst, HeldSound, RequestsClaimed, [Next]_vars
    PROVE  RequestsClaimed'
<1> SUFFICES ASSUME NEW c \in Command PROVE ClaimsRequest(row[c], c)'
  BY DEF RequestsClaimed
<1> USE DEF webVars, linkVars, queueVars, bridgeVars, histVars
<1>0. row[c] \in Row /\ ClaimsRequest(row[c], c)
  BY DEF TypeOK, RequestsClaimed
<1>1. ASSUME row'[c] = row[c] PROVE ClaimsRequest(row[c], c)'
  BY <1>0, <1>1, PastSaveStays DEF ClaimsRequest
<1>2. CASE Create(c)
  <2>1. row'[c] = NewRow
    BY <1>2 DEF Create, TypeOK
  <2>2. row'[c].error = "" /\ "sent" \notin row'[c].stamps
    BY <2>1, NewRowFields
  <2> QED BY <2>2 DEF ClaimsRequest
<1>3. CASE SaveSent(c)
  <2>1. row'[c] = SentRow(row[c]) /\ pc'[c] = "saved" /\ pc[c] = "handed"
    BY <1>3 DEF SaveSent, TypeOK
  <2>2. row'[c].error = row[c].error
    BY <1>0, <2>1, SentRowFields
  <2>3. row[c].error # "publish failed"
    BY <1>0, <2>1 DEF ClaimsRequest, PastSave
  <2> QED BY <2>1, <2>2, <2>3 DEF ClaimsRequest, PastSave
<1>4. CASE SaveError(c)
  <2>1. row'[c] = [row[c] EXCEPT !.error = "publish failed"] /\ pc'[c] = "saved" /\ pc[c] = "raised"
    BY <1>4 DEF SaveError, TypeOK
  <2>2. row'[c].stamps = row[c].stamps
    BY <1>0, <2>1 DEF Row
  <2>3. "sent" \notin row[c].stamps
    BY <1>0, <2>1 DEF ClaimsRequest, PastSave
  <2> QED BY <2>1, <2>2, <2>3 DEF ClaimsRequest, PastSave
<1>5. CASE BridgeSave /\ c = Current.cmd
  <2>1. ClaimsRequest(held, c) /\ held \in Row /\ Current.rep \in Report
    BY <1>5, CurrentType DEF BridgeSave, HeldSound, TypeOK
  <2>2. row'[c] = Transition(held, Current.rep) /\ pc' = pc
    BY <1>5 DEF BridgeSave, TypeOK
  <2>3. Current.rep.error \in {"", "device"}
    BY <2>1, ReportAssumption
  <2>4. /\ Transition(held, Current.rep).error = "publish failed" => held.error = "publish failed"
        /\ "sent" \in Transition(held, Current.rep).stamps => "sent" \in held.stamps
    BY <2>3, StatusOfType DEF Transition
  <2> QED BY <2>1, <2>2, <2>4 DEF ClaimsRequest
<1>6. CASE ExpireStale
  <2>1. row'[c].stamps = row[c].stamps /\ row'[c].error = row[c].error
    <3>1. row'[c] = row[c] \/ row'[c] = [row[c] EXCEPT !.status = "expired"]
      BY <1>6 DEF ExpireStale
    <3> QED BY <1>0, <3>1, ExpiredFields
  <2> QED BY <1>0, <1>6, <2>1 DEF ExpireStale, ClaimsRequest
<1> QED BY <1>1, <1>2, <1>3, <1>4, <1>5, <1>6, RowWriters

\* The device reports nothing about a command after its outcome.
LEMMA OutcomeIsLastStep ==
    ASSUME TypeOK, OutcomeIsLast, [Next]_vars
    PROVE  OutcomeIsLast'
<1>1. CASE results' = results
  BY <1>1 DEF OutcomeIsLast
<1>2. ASSUME NEW d \in Command \union {NoCommand}, NEW rep \in Report, DeviceReport(d, rep)
      PROVE  OutcomeIsLast'
  <2>1. SUFFICES ASSUME NEW i \in DOMAIN results', NEW j \in DOMAIN results', i < j,
                        results'[i].cmd = results'[j].cmd, results'[i].cmd \in Command
                 PROVE  StatusOf(results'[i].rep) = "acked"
    BY DEF OutcomeIsLast
  <2> DEFINE n == Len(results) + 1
  <2>2. /\ DOMAIN results' = DOMAIN results \union {n}
        /\ \A k \in DOMAIN results : results'[k] = results[k]
        /\ results'[n] = [cmd |-> d, rep |-> rep]
    BY <1>2, ReportGrows
  <2>3. DOMAIN results = 1..(n - 1) /\ n \in Nat
    BY DEF TypeOK
  <2>4. i \in DOMAIN results
    BY <2>1, <2>2, <2>3
  <2>5. results'[i] = results[i]
    BY <2>2, <2>4
  <2>6. CASE j \in DOMAIN results
    <3>1. results'[j] = results[j]
      BY <2>2, <2>6
    <3> QED BY <2>1, <2>4, <2>5, <2>6, <3>1 DEF OutcomeIsLast
  <2>7. CASE j = n
    <3>1. results'[j].cmd = d
      BY <2>2, <2>7
    <3>2. results[i].cmd = d /\ d \in Command
      BY <2>1, <2>5, <3>1
    <3>3. ~ Finished(d)
      BY <1>2, <3>2, CommandAssumption DEF DeviceReport
    <3> QED BY <2>4, <2>5, <3>2, <3>3 DEF Finished
  <2> QED BY <2>1, <2>2, <2>6, <2>7
<1> QED BY <1>1, <1>2, TopicEffect

\* Messages are never changed, so what a copy claims stays claimed.
LEMMA TopicKeeps ==
    ASSUME TypeOK, [Next]_vars
    PROVE  \A i \in DOMAIN results : i \in DOMAIN results' /\ results'[i] = results[i]
BY TopicEffect, ReportGrows

\* The instance the bridge holds comes from an answer of the device.
LEMMA HeldSoundStep ==
    ASSUME TypeOK, RowsFirst, HeldSound, RequestsClaimed, OutcomeReported, [Next]_vars
    PROVE  HeldSound'
<1> USE DEF webVars, linkVars, queueVars, bridgeVars, histVars
<1>1. CASE Bridge
  <2>1. CASE BridgeLoad
    <3>1. /\ nxt \in DOMAIN results /\ Current.cmd \in Command
          /\ held' = row[Current.cmd] /\ row' = row /\ pc' = pc /\ results' = results
          /\ nxt' = nxt /\ bpc' = "loaded"
      BY <2>1 DEF BridgeLoad, Exists
    <3>2. ClaimsAnswer(row[Current.cmd], Current.cmd) /\ ClaimsRequest(row[Current.cmd], Current.cmd)
      BY <3>1 DEF OutcomeReported, RequestsClaimed
    <3> QED BY <3>1, <3>2 DEF HeldSound, ClaimsAnswer, ClaimsRequest, IsAnswer, Current
  <2>2. CASE BridgeSave
    <3>1. nxt \in DOMAIN results /\ Current.cmd \in Command
      BY <2>2 DEF BridgeSave, HeldSound
    <3>2. row'[Current.cmd] = Transition(held, Current.rep)
      BY <2>2, <3>1 DEF BridgeSave, TypeOK
    <3>3. StampOf(StatusOf(Current.rep)) \in Transition(held, Current.rep).stamps
      BY DEF Transition
    <3>4. bpc' = "saved" /\ nxt' = nxt /\ results' = results
      BY <2>2 DEF BridgeSave
    <3> QED BY <3>1, <3>2, <3>3, <3>4 DEF HeldSound, Current
  <2>3. CASE bpc' = "idle"
    BY <2>3 DEF HeldSound
  <2>4. ASSUME BridgeSkip \/ BridgeBroadcast \/ BridgeSwallows \/ BridgeBroadcastSwallowed
        PROVE  bpc' = "idle"
    BY <2>4 DEF BridgeSkip, BridgeBroadcast, BridgeSwallows, BridgeBroadcastSwallowed
  <2> QED BY <1>1, <2>1, <2>2, <2>3, <2>4 DEF Bridge
<1>2. CASE BridgeResume
  BY <1>2 DEF BridgeResume, HeldSound
<1>3. CASE ~ Bridge /\ ~ BridgeResume
  <2>1. nxt' = nxt /\ bpc' = bpc /\ held' = held
    BY <1>3, BridgeFrame
  <2>2. SUFFICES ASSUME bpc # "idle" PROVE HeldSound'
    BY <2>1 DEF HeldSound
  <2>3. nxt \in DOMAIN results /\ Current.cmd \in Command
    BY <2>2 DEF HeldSound
  <2>4. nxt \in DOMAIN results' /\ Current' = Current
    BY <2>1, <2>3, TopicKeeps DEF Current
  <2>5. row'[Current.cmd].stamps \ {"sent"} = row[Current.cmd].stamps \ {"sent"}
    BY <1>3, <2>3, RowEffect DEF Bridge
  <2>6. CASE bpc = "loaded"
    <3>1. ClaimsAnswer(held, Current.cmd)'
      <4>1. ClaimsAnswer(held, Current.cmd)
        BY <2>6 DEF HeldSound
      <4> QED BY <2>1, <2>4, <4>1, TopicKeeps DEF ClaimsAnswer, IsAnswer
    <3>2. ClaimsRequest(held, Current.cmd)'
      <4>1. ClaimsRequest(held, Current.cmd)
        BY <2>6 DEF HeldSound
      <4> QED BY <2>1, <2>3, <2>4, <4>1, PastSaveStays DEF ClaimsRequest
    <3>3. row[Current.cmd].stamps \ {"sent"} = held.stamps \ {"sent"}
      BY <2>6 DEF HeldSound
    <3> QED BY <2>1, <2>3, <2>4, <2>5, <2>6, <3>1, <3>2, <3>3 DEF HeldSound
  <2>7. CASE bpc = "saved"
    <3>1. StampOf(StatusOf(Current.rep)) \in row[Current.cmd].stamps \ {"sent"}
      BY <2>7, StatusOfType DEF HeldSound
    <3> QED BY <2>1, <2>3, <2>4, <2>5, <2>7, <3>1 DEF HeldSound
  <2> QED BY <2>2, <2>6, <2>7 DEF TypeOK
<1> QED BY <1>1, <1>2, <1>3

\* Every broadcast follows the save of what it shows.
LEMMA RecordedBeforeShownStep ==
    ASSUME TypeOK, RowsFirst, HeldSound, RecordedBeforeShown, [Next]_vars
    PROVE  RecordedBeforeShown'
<1> USE DEF webVars, linkVars, queueVars, bridgeVars, histVars
<1>1. SUFFICES ASSUME NEW c \in Command, shown'[c] \in Answered
               PROVE  StampOf(shown'[c]) \in row'[c].stamps
  BY DEF RecordedBeforeShown
<1>2. StampOf(shown'[c]) # "sent"
  BY DEF StampOf
<1>3. CASE shown'[c] = shown[c]
  <2>1. StampOf(shown'[c]) \in row[c].stamps \ {"sent"}
    BY <1>1, <1>2, <1>3 DEF RecordedBeforeShown
  <2>2. CASE row'[c].stamps \ {"sent"} = row[c].stamps \ {"sent"}
    BY <2>1, <2>2
  <2>3. CASE BridgeSave /\ c = Current.cmd /\ row'[c] = Transition(held, Current.rep)
    <3>1. row[c].stamps \ {"sent"} = held.stamps \ {"sent"}
      BY <2>3 DEF BridgeSave, HeldSound
    <3>2. held.stamps \subseteq Transition(held, Current.rep).stamps
      BY DEF Transition
    <3> QED BY <2>1, <2>3, <3>1, <3>2
  <2> QED BY <2>2, <2>3, RowEffect
<1>4. CASE BridgeBroadcast
  <2>1. shown' = [shown EXCEPT ![Current.cmd] = StatusOf(Current.rep)] /\ row' = row
    BY <1>4 DEF BridgeBroadcast
  <2>2. StampOf(StatusOf(Current.rep)) \in row[Current.cmd].stamps
    BY <1>4 DEF BridgeBroadcast, HeldSound
  <2>3. CASE c = Current.cmd
    BY <2>1, <2>2, <2>3 DEF TypeOK
  <2>4. CASE c # Current.cmd
    BY <1>3, <2>1, <2>4 DEF TypeOK
  <2> QED BY <2>3, <2>4
<1>5. ASSUME NEW d \in Command, Request(d) PROVE shown'[c] = shown[c]
  <2>1. CASE Announce(d)
    BY <1>1, <2>1 DEF Announce, TypeOK, Answered
  <2> QED BY <1>5, <2>1 DEF Request, Create, PublishDelivered, PublishTimesOut, PublishNoClient,
     PublishOffline, SaveSent, SaveSentFails, SaveError, Audit, RequestFails
<1>6. BridgeBroadcast \/ shown'[c] = shown[c]
  BY <1>5 DEF Next, Bridge, BridgeSkip, BridgeLoad, BridgeSave, BridgeSwallows,
     BridgeBroadcastSwallowed, WebRestart, PublisherDrop, PublisherReconnect,
     PublisherFlush, DeviceReport, Puback, BridgeResume, ExpireStale, Tick, vars
<1> QED BY <1>3, <1>4, <1>6

\* Apart from a save for c itself, no step makes an answer of c handled that
\* was not: a skipped message has no row, a swallowed one is in lost.
LEMMA HandledEffect ==
    ASSUME TypeOK, RowsFirst, HeldSound, [Next]_vars,
           NEW c \in Command, c \notin lost', ~ (BridgeSave /\ c = Current.cmd),
           NEW j \in DOMAIN results', IsAnswer(j, c)', Handled(j)'
    PROVE  j \in DOMAIN results /\ IsAnswer(j, c) /\ Handled(j)
<1> USE DEF webVars, linkVars, queueVars, bridgeVars, histVars
<1>1. CASE ~ Bridge /\ ~ BridgeResume
  <2>1. nxt' = nxt /\ bpc' = bpc
    BY <1>1, BridgeFrame
  <2>2. Handled(j)
    BY <2>1 DEF Handled
  <2>3. j \in DOMAIN results
    <3>1. DOMAIN results = 1..Len(results) /\ Len(results) \in Nat /\ nxt \in 1..(Len(results) + 1)
      BY DEF TypeOK
    <3>2. bpc = "saved" => nxt \in DOMAIN results
      BY DEF HeldSound
    <3>3. results' = results \/ DOMAIN results' = DOMAIN results \union {Len(results) + 1}
      BY TopicEffect, ReportGrows
    <3> QED BY <2>2, <3>1, <3>2, <3>3 DEF Handled
  <2> QED BY <2>2, <2>3, TopicKeeps DEF IsAnswer
<1>2. CASE BridgeResume
  <2>1. results' = results /\ nxt' = confirmed + 1 /\ bpc' = "idle"
    BY <1>2 DEF BridgeResume
  <2>2. j < nxt
    BY <2>1 DEF Handled, TypeOK
  <2> QED BY <2>1, <2>2 DEF Handled, IsAnswer
<1>3. CASE Bridge
  <2>1. results' = results
    BY <1>3 DEF Bridge, BridgeSkip, BridgeLoad, BridgeSave, BridgeBroadcast, BridgeSwallows,
       BridgeBroadcastSwallowed
  <2>2. IsAnswer(j, c) /\ j \in DOMAIN results
    BY <2>1 DEF IsAnswer
  <2>3. j \in Nat /\ nxt \in Nat
    BY <2>2 DEF TypeOK
  <2>4. CASE BridgeSkip
    <3>1. Current.cmd # c
      BY <2>4 DEF BridgeSkip, RowsFirst, Current, Exists
    <3>2. nxt' = nxt + 1 /\ bpc' = bpc /\ bpc = "idle"
      BY <2>4 DEF BridgeSkip, Advance
    <3> QED BY <2>2, <2>3, <3>1, <3>2 DEF Handled, IsAnswer, Current
  <2>5. CASE BridgeLoad
    BY <2>2, <2>3, <2>5 DEF BridgeLoad, Handled
  <2>6. CASE BridgeSave
    BY <2>2, <2>3, <2>6 DEF BridgeSave, Handled, IsAnswer, Current
  <2>7. CASE BridgeBroadcast \/ BridgeBroadcastSwallowed
    BY <2>2, <2>3, <2>7 DEF BridgeBroadcast, BridgeBroadcastSwallowed, Advance, Handled
  <2>8. CASE BridgeSwallows
    <3>1. Current.cmd # c
      BY <2>8 DEF BridgeSwallows
    <3>2. nxt' = nxt + 1 /\ bpc' = "idle"
      BY <2>8 DEF BridgeSwallows, Advance
    <3> QED BY <2>2, <2>3, <3>1, <3>2 DEF Handled, IsAnswer, Current
  <2> QED BY <1>3, <2>4, <2>5, <2>6, <2>7, <2>8 DEF Bridge
<1> QED BY <1>1, <1>2, <1>3

\* The history sets only grow.
LEMMA HistoryGrows ==
    ASSUME [Next]_vars
    PROVE  late \subseteq late' /\ lost \subseteq lost'
<1> USE DEF webVars, linkVars, queueVars, bridgeVars, histVars
<1>1. ASSUME NEW c \in Command, Request(c) PROVE late \subseteq late' /\ lost \subseteq lost'
  BY <1>1 DEF Request, Create, PublishDelivered, PublishTimesOut, PublishNoClient,
     PublishOffline, SaveSent, SaveSentFails, SaveError, Announce, Audit, RequestFails
<1>2. ASSUME Bridge PROVE late \subseteq late' /\ lost \subseteq lost'
  BY <1>2 DEF Bridge, BridgeSkip, BridgeLoad, BridgeSave, BridgeBroadcast, BridgeSwallows,
     BridgeBroadcastSwallowed
<1> QED BY <1>1, <1>2 DEF Next, WebRestart, PublisherDrop, PublisherReconnect,
      PublisherFlush, DeviceReport, Puback, BridgeResume, ExpireStale, Tick, vars

\* Every answer handled is reflected in the row.
LEMMA HandledReflectedStep ==
    ASSUME TypeOK, RowsFirst, HeldSound, HandledReflected, [Next]_vars
    PROVE  HandledReflected'
<1>1. SUFFICES ASSUME NEW c \in Command, c \notin late', c \notin lost',
                      NEW i \in DOMAIN results', IsAnswer(i, c)', Handled(i)'
               PROVE  \E k \in DOMAIN results' : Reflects(c, k)'
  BY DEF HandledReflected
<1>2. CASE BridgeSave /\ c = Current.cmd
  <2>1. nxt \in DOMAIN results /\ nxt \in Nat
    BY <1>2 DEF BridgeSave, HeldSound, TypeOK
  <2>2. results' = results /\ nxt' = nxt /\ row'[c] = Transition(held, Current.rep)
    BY <1>2 DEF BridgeSave, queueVars, TypeOK
  <2>3. Transition(held, Current.rep).status = StatusOf(Current.rep)
    BY DEF Transition
  <2>4. IsAnswer(nxt, c)' /\ row'[c].status = StatusOf(results'[nxt].rep)
    BY <1>2, <2>1, <2>2, <2>3 DEF IsAnswer, Current
  <2>5. \A j \in DOMAIN results' : Handled(j)' => j <= nxt
    BY <2>1, <2>2 DEF Handled, TypeOK
  <2> QED BY <2>1, <2>2, <2>4, <2>5 DEF Reflects
<1>3. CASE ~ (BridgeSave /\ c = Current.cmd)
  <2>1. i \in DOMAIN results /\ IsAnswer(i, c) /\ Handled(i)
    BY <1>1, <1>3, HandledEffect
  <2>2. c \notin late /\ c \notin lost
    BY <1>1, HistoryGrows
  <2>3. PICK k \in DOMAIN results : Reflects(c, k)
    BY <1>1, <2>1, <2>2 DEF HandledReflected
  <2>4. row[c].status \in Answered
    BY <2>3, StatusOfType DEF Reflects
  <2>5. row'[c].status = row[c].status
    <3>1. ~ Create(c)
      BY <2>4, NoRowFields DEF Create, RowsFirst, Answered
    <3>2. ~ SaveSent(c)
      BY <1>1, <2>1 DEF SaveSent
    <3>3. CASE SaveError(c)
      BY <3>3 DEF SaveError, TypeOK, Row
    <3>4. CASE ExpireStale
      <4>1. ~ Stale(c)
        BY <2>4 DEF Stale, Answered, Pending
      <4> QED BY <3>4, <4>1 DEF ExpireStale
    <3> QED BY <1>3, <3>1, <3>2, <3>3, <3>4, RowWriters
  <2>6. k \in DOMAIN results' /\ results'[k] = results[k]
    BY <2>3, TopicKeeps
  <2>7. IsAnswer(k, c)' /\ row'[c].status = StatusOf(results'[k].rep)
    BY <2>3, <2>5, <2>6 DEF Reflects, IsAnswer
  <2>8. ASSUME NEW j \in DOMAIN results', IsAnswer(j, c)', Handled(j)'
        PROVE  j <= k
    <3>1. j \in DOMAIN results /\ IsAnswer(j, c) /\ Handled(j)
      BY <1>1, <1>3, <2>8, HandledEffect
    <3> QED BY <2>3, <3>1 DEF Reflects
  <2> QED BY <2>6, <2>7, <2>8 DEF Reflects
<1> QED BY <1>2, <1>3

-----------------------------------------------------------------------------
(* The theorems *)

\* The inductive invariant holds initially.
LEMMA InitIInv == Init => IInv
<1> SUFFICES ASSUME Init PROVE IInv
  OBVIOUS
<1>1. TypeOK
  BY InitType
<1>2. \A c \in Command : row[c] = NoRow /\ shown[c] = "none" /\ pc[c] = "idle"
  BY DEF Init
<1>3. results = <<>> /\ DOMAIN results = {} /\ bpc = "idle" /\ outbox = {} /\ atBroker = {}
  BY DEF Init
<1>4. NoRow.error = ""
  BY DEF NoRow
<1>5. RowsFirst /\ HeldSound /\ OutcomeIsLast /\ HandledReflected
  BY <1>2, <1>3 DEF RowsFirst, HeldSound, OutcomeIsLast, HandledReflected
<1>6. RequestsClaimed
  BY <1>2, <1>4, NoRowFields DEF RequestsClaimed, ClaimsRequest
<1>7. OutcomeReported
  BY <1>2, NoRowFields DEF OutcomeReported, ClaimsAnswer, Answered
<1>8. RecordedBeforeShown
  BY <1>2 DEF RecordedBeforeShown, Answered
<1> QED BY <1>1, <1>5, <1>6, <1>7, <1>8 DEF IInv

\* Every step keeps the inductive invariant.
LEMMA NextIInv == IInv /\ [Next]_vars => IInv'
BY NextType, RowsFirstStep, RequestsClaimedStep, HeldSoundStep, OutcomeReportedStep,
   RecordedBeforeShownStep, OutcomeIsLastStep, HandledReflectedStep DEF IInv

\* IInv is an inductive invariant of the whole remote-control path.
THEOREM Inductive == Spec => []IInv
BY InitIInv, NextIInv, PTL DEF Spec

\* Every variable keeps its type.
THEOREM TypeCorrect == Spec => []TypeOK
<1>1. IInv => TypeOK
  BY DEF IInv
<1> QED BY <1>1, Inductive, PTL

\* A row never claims an answer the device did not give (transition_command).
THEOREM OutcomesAreReported == Spec => []OutcomeReported
<1>1. IInv => OutcomeReported
  BY DEF IInv
<1> QED BY <1>1, Inductive, PTL

\* The dashboard never runs ahead of the database (transition_command saves
\* before it broadcasts).
THEOREM ShownIsRecorded == Spec => []RecordedBeforeShown
<1>1. IInv => RecordedBeforeShown
  BY DEF IInv
<1> QED BY <1>1, Inductive, PTL

\* No row has both sent_at and "publish failed" (dispatch_command).
THEOREM FailedIsNotSent == Spec => []FailureExcludesSent
<1>1. IInv => FailureExcludesSent
  BY DEF IInv, RequestsClaimed, ClaimsRequest, FailureExcludesSent
<1> QED BY <1>1, Inductive, PTL

\* With the session drained, the row holds the device's last answer unless an
\* answer was swallowed or the request's SENT save came late.
THEOREM Converges == Spec => []ConvergesToLastAnswer
<1>1. IInv => ConvergesToLastAnswer
  <2>1. SUFFICES ASSUME IInv, nxt > Len(results), NEW c \in Command, c \notin late, c \notin lost,
                        NEW i \in DOMAIN results, LastAnswer(i, c)
                 PROVE  row[c].status = StatusOf(results[i].rep)
    BY DEF ConvergesToLastAnswer
  <2>2. DOMAIN results = 1..Len(results) /\ Len(results) \in Nat /\ nxt \in Nat
    BY <2>1 DEF IInv, TypeOK
  <2>3. IsAnswer(i, c) /\ Handled(i)
    BY <2>1, <2>2 DEF LastAnswer, Handled
  <2>4. PICK k \in DOMAIN results : Reflects(c, k)
    BY <2>1, <2>3 DEF IInv, HandledReflected
  <2>5. k = i
    BY <2>1, <2>2, <2>3, <2>4 DEF Reflects, LastAnswer
  <2> QED BY <2>4, <2>5 DEF Reflects
<1> QED BY <1>1, Inductive, PTL

\* A recorded outcome is lost only to the late SENT save or to an older answer
\* that is delivered again.
THEOREM LossHasCause == Spec => OutcomeLossHasCause
<1> DEFINE Lost(c) == row[c].status \in {"completed", "failed"} /\ row'[c].status # row[c].status
<1> DEFINE Cause(c) ==
      \/ pc[c] = "handed" /\ pc'[c] = "saved"
      \/ /\ bpc = "loaded"
         /\ IsAnswer(nxt, c)
         /\ \E i \in DOMAIN results : i > nxt /\ IsAnswer(i, c)
<1>1. ASSUME IInv, [Next]_vars, NEW c \in Command, Lost(c) PROVE Cause(c)
  <2>0. TypeOK /\ RowsFirst /\ HeldSound
    BY <1>1 DEF IInv
  <2>1. row[c].status \in Answered /\ row[c].status # "acked"
    BY <1>1 DEF Answered
  <2>2. ~ Create(c)
    BY <2>0, <2>1, NoRowFields DEF Create, RowsFirst, Answered
  <2>3. ~ SaveError(c)
    <3>1. ASSUME SaveError(c) PROVE row'[c].status = row[c].status
      BY <2>0, <3>1 DEF SaveError, TypeOK, Row
    <3> QED BY <1>1, <3>1
  <2>4. ~ ExpireStale
    <3>1. ~ Stale(c)
      BY <2>1 DEF Stale, Answered, Pending
    <3> QED BY <1>1, <3>1 DEF ExpireStale
  <2>5. CASE SaveSent(c)
    BY <2>0, <2>5 DEF SaveSent, TypeOK
  <2>6. CASE BridgeSave /\ c = Current.cmd
    <3>1. nxt \in DOMAIN results /\ IsAnswer(nxt, c) /\ bpc = "loaded"
      BY <2>0, <2>6 DEF BridgeSave, HeldSound, IsAnswer, Current
    <3>2. row'[c] = Transition(held, Current.rep)
      BY <2>0, <2>6 DEF BridgeSave, TypeOK
    <3>3. Transition(held, Current.rep).status = StatusOf(Current.rep)
      BY DEF Transition
    <3>4. PICK k \in DOMAIN results : IsAnswer(k, c) /\ StatusOf(results[k].rep) = row[c].status
      BY <1>1, <2>1 DEF IInv, OutcomeReported, ClaimsAnswer
    <3>5. k # nxt
      BY <1>1, <3>2, <3>3, <3>4 DEF Current
    <3>6. ~ (k < nxt)
      BY <1>1, <2>1, <3>1, <3>4 DEF IInv, OutcomeIsLast, IsAnswer
    <3>7. k > nxt
      BY <2>0, <3>5, <3>6 DEF TypeOK
    <3> QED BY <3>1, <3>4, <3>7
  <2> QED BY <1>1, <2>0, <2>2, <2>3, <2>4, <2>5, <2>6, RowWriters
<1>2. IInv /\ [Next]_vars => [\A c \in Command : Lost(c) => Cause(c)]_vars
  BY <1>1
<1> QED BY <1>2, Inductive, PTL DEF Spec, OutcomeLossHasCause
=============================================================================
