---------------------- MODULE CommandRefinementProofs ----------------------
(***************************************************************************)
(* CommandLifecycle implements CommandSpec, for any set of commands, any     *)
(* vocabulary of reports and any bounds: every step of IInv's states is, on  *)
(* the abstract variables, a step of CommandSpec or changes nothing.         *)
(***************************************************************************)
EXTENDS CommandLifecycleProofs

\* The steps that touch neither a row, nor a request, nor the topic.
LEMMA Stutter ==
    ASSUME row' = row, pc' = pc, results' = results
    PROVE  UNCHANGED Abs!vars
<1>1. absStatus' = absStatus
  BY DEF absStatus
<1>2. absPhase' = absPhase
  BY DEF absPhase
<1>3. absReported' = absReported
  BY DEF absReported, IsAnswer
<1> QED BY <1>1, <1>2, <1>3 DEF Abs!vars

\* The INSERT of dispatch_command is Issue.
LEMMA CreateRefines ==
    ASSUME TypeOK, NEW c \in Command, Create(c)
    PROVE  Abs!Issue(c)
<1>1. absStatus' = [absStatus EXCEPT ![c] = "queued"]
  BY NewRowFields DEF Create, absStatus, TypeOK
<1>2. absPhase[c] = "new" /\ absPhase' = [absPhase EXCEPT ![c] = "open"]
  BY DEF Create, absPhase, TypeOK
<1>3. absReported' = absReported
  BY DEF Create, absReported, IsAnswer, queueVars
<1> QED BY <1>1, <1>2, <1>3 DEF Abs!Issue

\* The SENT save is MarkSent.
LEMMA SaveSentRefines ==
    ASSUME TypeOK, NEW c \in Command, SaveSent(c)
    PROVE  Abs!MarkSent(c)
<1>1. absStatus' = [absStatus EXCEPT ![c] = "sent"]
  BY SentRowFields DEF SaveSent, absStatus, TypeOK
<1>2. absPhase[c] = "open" /\ absPhase' = [absPhase EXCEPT ![c] = "closed"]
  BY DEF SaveSent, absPhase, TypeOK
<1>3. absReported' = absReported
  BY DEF SaveSent, absReported, IsAnswer, queueVars
<1> QED BY <1>1, <1>2, <1>3 DEF Abs!MarkSent

\* A failed publish, a failed SENT save and a dying process close requests.
LEMMA CloseRefines ==
    ASSUME TypeOK, row' = row, results' = results,
           NEW S \in SUBSET Command, \A c \in S : pc[c] \in {"created", "handed"},
           \A c \in S : pc'[c] \in {"raised", "died"},
           \A c \in Command \ S : absPhase'[c] = absPhase[c]
    PROVE  Abs!Close(S)
<1>1. absStatus' = absStatus
  BY DEF absStatus
<1>2. \A c \in S : absPhase[c] = "open" /\ absPhase'[c] = "closed"
  BY DEF absPhase
<1>3. absPhase' = [c \in Command |-> IF c \in S THEN "closed" ELSE absPhase[c]]
  BY <1>2 DEF absPhase
<1>4. absReported' = absReported
  BY DEF absReported, IsAnswer
<1> QED BY <1>1, <1>2, <1>3, <1>4 DEF Abs!Close

\* A result of a device is Answer: an outcome stays its last word.
LEMMA ReportRefines ==
    ASSUME TypeOK, RowsFirst, NEW c \in Command, NEW rep \in Report, DeviceReport(c, rep)
    PROVE  Abs!Answer(c, StatusOf(rep)) /\ StatusOf(rep) \in Abs!Answered
<1>0. /\ DOMAIN results' = DOMAIN results \union {Len(results) + 1}
      /\ Len(results) + 1 \notin DOMAIN results
      /\ \A i \in DOMAIN results : results'[i] = results[i]
      /\ results'[Len(results) + 1] = [cmd |-> c, rep |-> rep]
  BY ReportGrows
<1>1. absStatus' = absStatus /\ absPhase' = absPhase
  BY DEF DeviceReport, webVars, absStatus, absPhase
<1>2. c \in atBroker /\ ~ Finished(c)
  BY CommandAssumption DEF DeviceReport
<1>3. absPhase[c] # "new"
  BY <1>2 DEF RowsFirst, absPhase
<1>4. absReported[c] \intersect Abs!Outcome = {}
  BY <1>2 DEF Finished, absReported, IsAnswer, Abs!Outcome
<1>5. absReported' = [absReported EXCEPT ![c] = @ \union {StatusOf(rep)}]
  <2>1. ASSUME NEW d \in Command
        PROVE  absReported'[d] = IF d = c THEN absReported[d] \union {StatusOf(rep)}
                                 ELSE absReported[d]
    <3>1. \A i : IsAnswer(i, d)' <=> IsAnswer(i, d) \/ (i = Len(results) + 1 /\ d = c)
      BY <1>0 DEF IsAnswer
    <3>2. absReported'[d] =
            {StatusOf(results'[i].rep) : i \in {j \in DOMAIN results' : IsAnswer(j, d)'}}
      BY DEF absReported
    <3>3. absReported[d] = {StatusOf(results[i].rep) : i \in {j \in DOMAIN results : IsAnswer(j, d)}}
      BY DEF absReported
    <3>4. ~ IsAnswer(Len(results) + 1, d)
      BY <1>0 DEF IsAnswer
    <3>5. \A i \in DOMAIN results : results'[i] = results[i]
      BY <1>0
    <3>6. results'[Len(results) + 1].rep = rep /\ DOMAIN results' = DOMAIN results \union {Len(results) + 1}
      BY <1>0
    <3> QED BY <3>1, <3>2, <3>3, <3>4, <3>5, <3>6
  <2> QED BY <2>1 DEF absReported
<1>6. StatusOf(rep) \in Abs!Answered
  BY StatusOfType DEF Answered, Abs!Answered, Abs!Outcome
<1> QED BY <1>1, <1>3, <1>4, <1>5, <1>6 DEF Abs!Answer

\* A result without a command_id changes nothing the specification speaks of.
LEMMA AnonymousReportRefines ==
    ASSUME TypeOK, NEW rep \in Report, DeviceReport(NoCommand, rep)
    PROVE  UNCHANGED Abs!vars
<1>0. /\ DOMAIN results' = DOMAIN results \union {Len(results) + 1}
      /\ Len(results) + 1 \notin DOMAIN results
      /\ \A i \in DOMAIN results : results'[i] = results[i]
      /\ results'[Len(results) + 1] = [cmd |-> NoCommand, rep |-> rep]
  BY ReportGrows
<1>1. absStatus' = absStatus /\ absPhase' = absPhase
  BY DEF DeviceReport, webVars, absStatus, absPhase
<1>2. ASSUME NEW d \in Command PROVE absReported'[d] = absReported[d]
  <2>1. \A i : IsAnswer(i, d)' <=> IsAnswer(i, d)
    BY <1>0, CommandAssumption DEF IsAnswer
  <2>2. \A i \in DOMAIN results : results'[i] = results[i]
    BY <1>0
  <2>3. \A i \in DOMAIN results' : IsAnswer(i, d)' => i \in DOMAIN results
    BY <2>1 DEF IsAnswer
  <2>4. absReported'[d] =
          {StatusOf(results'[i].rep) : i \in {j \in DOMAIN results' : IsAnswer(j, d)'}}
    BY DEF absReported
  <2>5. absReported[d] = {StatusOf(results[i].rep) : i \in {j \in DOMAIN results : IsAnswer(j, d)}}
    BY DEF absReported
  <2>6. \A i \in DOMAIN results : i \in DOMAIN results'
    BY <1>0
  <2> QED BY <2>1, <2>2, <2>3, <2>4, <2>5, <2>6
<1>3. absReported' = absReported
  BY <1>2 DEF absReported
<1> QED BY <1>1, <1>3 DEF Abs!vars

\* The bridge's save, from however stale a copy, is Record of an answer given.
LEMMA BridgeSaveRefines ==
    ASSUME TypeOK, RowsFirst, HeldSound, BridgeSave
    PROVE  \E c \in Command, s \in Abs!Answered : Abs!Record(c, s)
<1> DEFINE c == Current.cmd
<1> DEFINE s == StatusOf(Current.rep)
<1>1. nxt \in DOMAIN results /\ c \in Command
  BY DEF BridgeSave, HeldSound
<1>2. s \in Abs!Answered
  BY StatusOfType DEF Answered, Abs!Answered, Abs!Outcome
<1>3. s \in absReported[c]
  BY <1>1 DEF absReported, IsAnswer, Current
<1>4. absStatus[c] # "absent"
  BY <1>1 DEF RowsFirst, absStatus, Current
<1>5. absStatus' = [absStatus EXCEPT ![c] = s]
  <2>1. row' = [row EXCEPT ![c] = Transition(held, Current.rep)]
    BY DEF BridgeSave
  <2>2. Transition(held, Current.rep).status = s
    BY TransitionFields
  <2>3. \A d \in Command : row'[d].status = IF d = c THEN s ELSE row[d].status
    BY <1>1, <2>1, <2>2 DEF TypeOK
  <2> HIDE DEF c, s
  <2> QED BY <1>1, <2>3 DEF absStatus
<1>6. absPhase' = absPhase /\ absReported' = absReported
  BY DEF BridgeSave, webVars, queueVars, absPhase, absReported, IsAnswer
<1>7. Abs!Record(c, s)
  BY <1>3, <1>4, <1>5, <1>6 DEF Abs!Record
<1> QED BY <1>1, <1>2, <1>7

\* The expiry job's UPDATE is Expire of the rows it selects.
LEMMA ExpireRefines ==
    ASSUME TypeOK, ExpireStale
    PROVE  \E S \in SUBSET Command : Abs!Expire(S)
<1> DEFINE S == {c \in Command : Stale(c)}
<1>1. \A c \in S : absStatus[c] \in Abs!Pending
  BY DEF Stale, Pending, Abs!Pending, absStatus
<1>2. absStatus' = [c \in Command |-> IF c \in S THEN "expired" ELSE absStatus[c]]
  <2>1. \A c \in Command : row'[c].status = IF Stale(c) THEN "expired" ELSE row[c].status
    BY ExpiredFields DEF ExpireStale, TypeOK
  <2> QED BY <2>1 DEF absStatus
<1>3. absPhase' = absPhase /\ absReported' = absReported
  BY DEF ExpireStale, webVars, queueVars, absPhase, absReported, IsAnswer
<1>4. Abs!Expire(S)
  BY <1>1, <1>2, <1>3 DEF Abs!Expire
<1> QED BY <1>4

\* Every statement of dispatch_command maps to a step of CommandSpec.
LEMMA RequestRefines ==
    ASSUME TypeOK, NEW c \in Command, Request(c)
    PROVE  Abs!Next \/ UNCHANGED Abs!vars
<1> USE DEF webVars, linkVars, queueVars, bridgeVars, histVars
<1>1. CASE Create(c)
  BY <1>1, CreateRefines DEF Abs!Next
<1>2. CASE PublishDelivered(c) \/ PublishTimesOut(c)
  <2>1. row' = row /\ results' = results /\ pc[c] = "created" /\ pc' = [pc EXCEPT ![c] = "handed"]
    BY <1>2 DEF PublishDelivered, PublishTimesOut, Handed
  <2>2. absStatus' = absStatus /\ absReported' = absReported
    BY <2>1 DEF absStatus, absReported, IsAnswer
  <2>3. absPhase' = absPhase
    BY <2>1 DEF absPhase, TypeOK
  <2> QED BY <2>2, <2>3 DEF Abs!vars
<1>3. CASE PublishNoClient(c) \/ PublishOffline(c) \/ SaveSentFails(c)
  <2>1. /\ row' = row /\ results' = results
        /\ pc[c] \in {"created", "handed"} /\ pc' = [pc EXCEPT ![c] = "raised"]
    BY <1>3 DEF PublishNoClient, PublishOffline, SaveSentFails, Raised
  <2>2. \A d \in Command \ {c} : absPhase'[d] = absPhase[d]
    BY <2>1 DEF absPhase, TypeOK
  <2>3. pc'[c] = "raised"
    BY <2>1 DEF TypeOK
  <2>4. Abs!Close({c})
    BY <2>1, <2>2, <2>3, CloseRefines
  <2> QED BY <2>4 DEF Abs!Next
<1>4. CASE SaveSent(c)
  BY <1>4, SaveSentRefines DEF Abs!Next
<1>5. CASE SaveError(c) \/ Announce(c) \/ Audit(c) \/ RequestFails(c)
  <2>1. /\ results' = results
        /\ pc[c] \in {"raised", "saved", "announced"}
        /\ \E p \in {"saved", "announced", "done", "errored"} : pc' = [pc EXCEPT ![c] = p]
    BY <1>5 DEF SaveError, Announce, Audit, RequestFails
  <2>2. \A d \in Command : row'[d].status = row[d].status
    <3>1. CASE SaveError(c)
      BY <3>1 DEF SaveError, TypeOK, Row
    <3>2. CASE row' = row
      BY <3>2
    <3> QED BY <1>5, <3>1, <3>2 DEF Announce, Audit, RequestFails
  <2>3. absStatus' = absStatus /\ absReported' = absReported
    BY <2>1, <2>2 DEF absStatus, absReported, IsAnswer
  <2>4. absPhase' = absPhase
    BY <2>1 DEF absPhase, TypeOK
  <2> QED BY <2>3, <2>4 DEF Abs!vars
<1> QED BY <1>1, <1>2, <1>3, <1>4, <1>5 DEF Request

\* Every step of the whole path maps to a step of CommandSpec or a stutter.
LEMMA StepRefines ==
    ASSUME IInv, [Next]_vars
    PROVE  [Abs!Next]_(Abs!vars)
<1> USE DEF webVars, linkVars, queueVars, bridgeVars, histVars
<1>0. TypeOK /\ RowsFirst /\ HeldSound
  BY DEF IInv
<1>1. CASE \E c \in Command : Request(c)
  BY <1>0, <1>1, RequestRefines
<1>2. CASE WebRestart
  <2> DEFINE S == {c \in Command : pc[c] \in {"created", "handed"}}
  <2>1. /\ row' = row /\ results' = results
        /\ pc' = [c \in Command |-> IF pc[c] \in Closed THEN pc[c] ELSE "died"]
    BY <1>2 DEF WebRestart
  <2>2. \A c \in S : pc'[c] = "died"
    BY <2>1 DEF Closed
  <2>3. \A c \in Command \ S : absPhase'[c] = absPhase[c]
    BY <2>1 DEF absPhase, Closed
  <2>4. Abs!Close(S)
    BY <1>0, <2>1, <2>2, <2>3, CloseRefines
  <2> QED BY <2>4 DEF Abs!Next
<1>3. CASE \E c \in Command \union {NoCommand}, rep \in Report : DeviceReport(c, rep)
  BY <1>0, <1>3, ReportRefines, AnonymousReportRefines DEF Abs!Next
<1>4. CASE Bridge
  <2>1. CASE BridgeSave
    BY <1>0, <2>1, BridgeSaveRefines DEF Abs!Next
  <2>2. CASE ~ BridgeSave
    BY <1>4, <2>2, Stutter DEF Bridge, BridgeSkip, BridgeLoad, BridgeBroadcast,
       BridgeSwallows, BridgeBroadcastSwallowed
  <2> QED BY <2>1, <2>2
<1>5. CASE ExpireStale
  BY <1>0, <1>5, ExpireRefines DEF Abs!Next
<1>6. CASE \/ PublisherDrop \/ PublisherReconnect \/ Puback \/ BridgeResume \/ Tick
           \/ (\E c \in Command : PublisherFlush(c)) \/ UNCHANGED vars
  BY <1>6, Stutter DEF PublisherDrop, PublisherReconnect, Puback, BridgeResume, Tick,
     PublisherFlush, vars
<1> QED BY <1>1, <1>2, <1>3, <1>4, <1>5, <1>6 DEF Next

\* An empty table is one of CommandSpec's initial states.
LEMMA InitRefines == Init => Abs!Init
<1> SUFFICES ASSUME Init PROVE Abs!Init
  OBVIOUS
<1>1. absStatus = [c \in Command |-> "absent"]
  BY NoRowFields DEF Init, absStatus
<1>2. absPhase = [c \in Command |-> "new"]
  BY DEF Init, absPhase
<1>3. absReported = [c \in Command |-> {}]
  BY DEF Init, absReported
<1> QED BY <1>1, <1>2, <1>3 DEF Abs!Init

\* The request, the bridge, the expiry job and all their crashes implement the
\* abstract command: SENT is written once, answers are the device's, only
\* pending commands expire.
THEOREM Refinement == Spec => ImplementsCommandSpec
<1>1. Spec => []IInv
  BY Inductive
<1> QED BY <1>1, InitRefines, StepRefines, PTL DEF Spec, ImplementsCommandSpec, Abs!Spec
=============================================================================
