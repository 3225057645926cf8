------------------------- MODULE FleetHealthProofs -------------------------
(***************************************************************************)
(* Theorems about FleetHealth for any fleet, any number of rollups, any      *)
(* payloads and rules, and any number of writes and failures.                *)
(***************************************************************************)
EXTENDS FleetHealth, TLAPS

\* Every instance a job or a form holds is a version of its row.
RowsHad ==
    /\ \A d \in Device : New.vitals \in had[d] /\ dev[d].vitals \in had[d]
    /\ \A t \in Runner, d \in Device : run[t].row[d].vitals \in had[d]
    /\ edit.device # None =>
           edit.row.vitals \in had[edit.device] /\ Explained(edit.device, edit.row.score)

\* Every point a rollup will store belongs to a version of its row.
SnapsWitnessed ==
    \A t \in Runner, d \in Device : run[t].snaps[d] # None => Witnessed(d, run[t].snaps[d])

\* Every call the backstop has still to make has a cause.
CallsCaused == \A c \in back.calls : Caused(c[1], c[2])

IInv == TypeOK /\ RowsHad /\ SnapsWitnessed /\ ScoresExplained /\ CallsCaused /\ AlertsCaused

-----------------------------------------------------------------------------
(* _compute_health_score *)

\* The penalties add up to a natural number, also for a battery below zero.
LEMMA PenaltyType ==
    ASSUME NEW v, v.battery \in Int \union {None}, v.signal \in Int \union {None}
    PROVE  Penalty(v) \in Nat
<1> DEFINE a == CASE v.status = "offline" -> 60
                  [] v.status \in {"degraded", "error"} -> 35
                  [] v.status = "maintenance" -> 15
                  [] OTHER -> 0
           b == IF v.battery # None /\ v.battery < 20 THEN 20 - v.battery ELSE 0
           c == IF v.signal # None /\ v.signal < -90 THEN 10 ELSE 0
<1>1. a \in Nat
  <2>1. CASE v.status \in {"offline", "degraded", "error", "maintenance"}
    BY <2>1
  <2>2. CASE v.status \notin {"offline", "degraded", "error", "maintenance"}
    BY <2>2
  <2> QED BY <2>1, <2>2
<1>2. b \in Nat
  OBVIOUS
<1>3. c \in Nat
  OBVIOUS
<1>4. Penalty(v) = a + b + c
  BY DEF Penalty
<1> HIDE DEF a, b, c
<1> QED BY <1>1, <1>2, <1>3, <1>4

\* _compute_health_score stays within 0..100 for every status, battery level
\* and signal strength, the ones no gauge should report included.
THEOREM ScoreBounded ==
    ASSUME NEW v, v.battery \in Int \union {None}, v.signal \in Int \union {None}
    PROVE  HealthScore(v) \in Score
BY PenaltyType DEF HealthScore, Score

\* A fuller battery, all else equal, never lowers the score
\* (_compute_health_score).
THEOREM ScoreMonotone ==
    ASSUME NEW v, NEW w, v.status = w.status, v.signal = w.signal,
           v.signal \in Int \union {None}, v.battery \in Int, w.battery \in Int,
           v.battery <= w.battery
    PROVE  HealthScore(v) <= HealthScore(w)
<1> DEFINE a(u) == CASE u.status = "offline" -> 60
                  [] u.status \in {"degraded", "error"} -> 35
                  [] u.status = "maintenance" -> 15
                  [] OTHER -> 0
           b(u) == IF u.battery # None /\ u.battery < 20 THEN 20 - u.battery ELSE 0
           c(u) == IF u.signal # None /\ u.signal < -90 THEN 10 ELSE 0
<1>1. a(v) = a(w) /\ c(v) = c(w)
  OBVIOUS
<1>2. b(w) <= b(v) /\ b(v) \in Int /\ b(w) \in Int
  BY NoneAssumption
<1>3. a(v) \in Int
  <2>1. CASE v.status \in {"offline", "degraded", "error", "maintenance"}
    BY <2>1
  <2>2. CASE v.status \notin {"offline", "degraded", "error", "maintenance"}
    BY <2>2
  <2> QED BY <2>1, <2>2
<1>4. c(v) \in Int
  OBVIOUS
<1>5. Penalty(v) = a(v) + b(v) + c(v) /\ Penalty(w) = a(w) + b(w) + c(w)
  BY DEF Penalty
<1> HIDE DEF a, b, c
<1>6. Penalty(w) <= Penalty(v) /\ Penalty(v) \in Int /\ Penalty(w) \in Int
  BY <1>1, <1>2, <1>3, <1>4, <1>5
<1> QED BY <1>6 DEF HealthScore

\* ... so it is a score for every row of the fleet.
LEMMA ScoreType == ASSUME NEW v \in Vitals PROVE HealthScore(v) \in Score
<1>1. v.battery \in Gauge /\ v.signal \in Radio
  BY DEF Vitals
<1>2. v.battery \in Int \union {None} /\ v.signal \in Int \union {None}
  BY <1>1, PayloadAssumption DEF Gauge, Radio
<1> QED BY <1>2, ScoreBounded

-----------------------------------------------------------------------------
(* Types *)

\* The initial values are well-formed.
LEMMA RestTypes == New \in Row /\ NoPass \in Pass /\ NoSweep \in Sweep /\ NoEdit \in Edit
<1>1. New.vitals \in Vitals /\ New \in Row
  <2>1. [status |-> "provisioning", battery |-> None, signal |-> None] \in Vitals
    BY DEF Vitals, Gauge, Radio, DeviceStatus
  <2>2. 100 \in Score
    BY DEF Score
  <2> QED BY <2>1, <2>2 DEF New, Row
<1>2. NoPass \in Pass
  BY <1>1 DEF NoPass, Pass
<1> QED BY <1>1, <1>2 DEF NoSweep, Sweep, NoEdit, Edit

\* What Put writes is a row and a version.
LEMMA PutType ==
    ASSUME TypeOK, NEW d \in Device, NEW row \in Row, Put(d, row)
    PROVE  dev' \in [Device -> Row] /\ had' \in [Device -> SUBSET Vitals]
<1>1. row.vitals \in Vitals
  BY DEF Row
<1> QED BY <1>1 DEF Put, TypeOK

\* Every step keeps the types.
LEMMA NextType == ASSUME TypeOK, [Next]_vars PROVE TypeOK'
<1>0. \A d \in Device : dev[d] \in Row /\ dev[d].vitals \in Vitals
  BY DEF TypeOK, Row
<1>1. ASSUME Write PROVE writes' \in 0..MaxWrites
  BY <1>1, BoundAssumption DEF Write, TypeOK
<1>2. ASSUME Fault PROVE faults' \in 0..MaxFaults
  BY <1>2, BoundAssumption DEF Fault, TypeOK
<1>3. ASSUME NEW d \in Device, NEW v \in Vitals PROVE [dev[d] EXCEPT !.vitals = v] \in Row
  BY <1>0 DEF Row
<1>4. ASSUME NEW d \in Device, NEW p \in Payload, Report(d, p) PROVE TypeOK'
  <2>1. Reported(dev[d].vitals, p) \in Vitals
    BY <1>0 DEF Reported, Vitals, DeviceStatus, Gauge, Radio
  <2>2. dev' \in [Device -> Row] /\ had' \in [Device -> SUBSET Vitals]
    BY <1>3, <1>4, <2>1, PutType DEF Report
  <2> QED BY <1>1, <1>4, <2>2 DEF Report, TypeOK
<1>5. ASSUME NEW d \in Device, NEW s \in Status, SetStatus(d, s) PROVE TypeOK'
  <2>1. [dev[d].vitals EXCEPT !.status = s] \in Vitals
    BY <1>0, StatusAssumption DEF Vitals
  <2>2. dev' \in [Device -> Row] /\ had' \in [Device -> SUBSET Vitals]
    BY <1>3, <1>5, <2>1, PutType DEF SetStatus
  <2> QED BY <1>1, <1>5, <2>2 DEF SetStatus, TypeOK
<1>6. ASSUME NEW d \in Device, EditLoad(d) PROVE TypeOK'
  <2>1. edit' \in Edit
    BY <1>0, <1>6 DEF EditLoad, Edit
  <2> QED BY <1>1, <1>6, <2>1 DEF EditLoad, TypeOK
<1>7. CASE EditSave
  <2>1. edit.device \in Device /\ edit.row \in Row
    BY <1>7 DEF EditSave, TypeOK, Edit
  <2>2. dev' \in [Device -> Row] /\ had' \in [Device -> SUBSET Vitals]
    BY <1>7, <2>1, PutType DEF EditSave
  <2> QED BY <1>7, <2>2, RestTypes DEF EditSave, TypeOK
<1>8. ASSUME NEW t \in Runner, RollupBegin(t) PROVE TypeOK'
  <2>1. [NoPass EXCEPT !.busy = TRUE, !.ahead = Fleet, !.row = dev] \in Pass
    BY RestTypes DEF Pass, Fleet, TypeOK
  <2>2. run' \in [Runner -> Pass]
    BY <1>8, <2>1 DEF RollupBegin, TypeOK
  <2> QED BY <1>8, <2>2 DEF RollupBegin, TypeOK
<1>9. ASSUME NEW t \in Runner, NEW d \in Device, RollupDevice(t, d) PROVE TypeOK'
  <2> DEFINE row == Instance(t, d)
             score == HealthScore(row.vitals)
             snap == [score |-> score, battery |-> row.vitals.battery,
                      signal |-> row.vitals.signal]
  <2>1. run[t] \in Pass /\ row \in Row
    BY DEF TypeOK, Pass, Instance
  <2>2. row.vitals \in Vitals
    BY <2>1 DEF Row
  <2>3. score \in Score /\ snap \in Snapshot
    BY <2>2, ScoreType DEF Snapshot, Vitals
  <2>4. run' = [run EXCEPT ![t].ahead = @ \ {d}, ![t].row[d] = New, ![t].snaps[d] = snap]
    BY <1>9 DEF RollupDevice
  <2>5. dev' = dev \/ dev' = [dev EXCEPT ![d].score = score]
    BY <1>9 DEF RollupDevice
  <2> HIDE DEF row, score, snap
  <2>6. [dev[d] EXCEPT !.score = score] \in Row
    BY <1>0, <2>3 DEF Row
  <2>7. dev' \in [Device -> Row]
    BY <2>5, <2>6 DEF TypeOK
  <2>8. [run[t] EXCEPT !.ahead = @ \ {d}, !.row[d] = New, !.snaps[d] = snap] \in Pass
    <3>1. [run[t].row EXCEPT ![d] = New] \in [Device -> Row]
      BY <2>1, RestTypes DEF Pass
    <3>2. [run[t].snaps EXCEPT ![d] = snap] \in [Device -> Snapshot \union {None}]
      BY <2>1, <2>3 DEF Pass
    <3> QED BY <2>1, <3>1, <3>2 DEF Pass
  <2>9. run' \in [Runner -> Pass]
    BY <2>4, <2>8 DEF TypeOK
  <2> QED BY <1>9, <2>7, <2>9 DEF RollupDevice, TypeOK
<1>10. ASSUME NEW t \in Runner, RollupStore(t) PROVE TypeOK'
  <2>1. run[t].snaps \in [Device -> Snapshot \union {None}]
    BY DEF TypeOK, Pass
  <2>2. trend' \in [Device -> Snapshot \union {None}]
    BY <1>10, <2>1 DEF RollupStore, TypeOK
  <2>3. run' \in [Runner -> Pass]
    BY <1>10, RestTypes DEF RollupStore, TypeOK
  <2> QED BY <1>10, <2>2, <2>3 DEF RollupStore, TypeOK
<1>11. ASSUME NEW t \in Runner, RollupDies(t) PROVE TypeOK'
  BY <1>2, <1>11, RestTypes DEF RollupDies, TypeOK
<1>12. CASE BackstopBegin
  <2>1. back' \in Sweep
    BY <1>12 DEF BackstopBegin, Sweep, Fleet
  <2> QED BY <1>12, <2>1 DEF BackstopBegin, TypeOK
<1>13. ASSUME NEW c \in Rule \X Device, BackstopRaise(c) PROVE TypeOK'
  <2>1. back' \in Sweep
    BY <1>13 DEF BackstopRaise, Sweep, TypeOK
  <2> QED BY <1>13, <2>1 DEF BackstopRaise, TypeOK
<1>14. CASE BackstopEnd
  BY <1>14, RestTypes DEF BackstopEnd, TypeOK
<1>15. CASE BackstopDies
  BY <1>2, <1>15, RestTypes DEF BackstopDies, TypeOK
<1>16. ASSUME NEW c \in Rule \X Device, CloseAlert(c) PROVE TypeOK'
  BY <1>16 DEF CloseAlert, TypeOK
<1>17. CASE UNCHANGED vars
  BY <1>17 DEF vars, TypeOK
<1> QED BY <1>4, <1>5, <1>6, <1>7, <1>8, <1>9, <1>10, <1>11, <1>12, <1>13, <1>14, <1>15, <1>16,
       <1>17 DEF Next, RollupStep, BackstopStep

-----------------------------------------------------------------------------
(* Scores are explained *)

\* A version of a row stays in the history.
LEMMA HadGrows == ASSUME TypeOK, [Next]_vars PROVE \A d \in Device : had[d] \subseteq had'[d]
<1>1. ASSUME NEW d \in Device, NEW row, Put(d, row) PROVE \A e \in Device : had[e] \subseteq had'[e]
  BY <1>1 DEF Put, TypeOK
<1>2. CASE \/ \E d \in Device, p \in Payload : Report(d, p)
           \/ \E d \in Device, s \in Status : SetStatus(d, s)
  BY <1>1, <1>2 DEF Report, SetStatus
<1>3. CASE EditSave
  <2>1. edit.device \in Device
    BY <1>3 DEF EditSave, TypeOK, Edit
  <2> QED BY <1>1, <1>3, <2>1 DEF EditSave
<1>4. CASE had' = had
  BY <1>4
<1> QED BY <1>2, <1>3, <1>4 DEF Next, EditLoad, RollupBegin, RollupStep, RollupDevice, RollupStore,
       RollupDies, BackstopBegin, BackstopStep, BackstopRaise, BackstopEnd, BackstopDies,
       CloseAlert, vars

\* An explanation remains one.
LEMMA ExplainedStays ==
    ASSUME TypeOK, [Next]_vars, NEW d \in Device
    PROVE  /\ \A n : Explained(d, n) => (n = 100 \/ \E v \in had'[d] : HealthScore(v) = n)
           /\ \A s : Witnessed(d, s) =>
                 \E v \in had'[d] : /\ HealthScore(v) = s.score
                                    /\ v.battery = s.battery /\ v.signal = s.signal
BY HadGrows DEF Explained, Witnessed

\* Only Put and a rollup write a row; what a rollup saves is the score of a
\* version, what a form writes back is a version with its score.
LEMMA ScoreKept ==
    ASSUME IInv, [Next]_vars, NEW d \in Device
    PROVE  \/ dev'[d].score = dev[d].score
           \/ Explained(d, dev'[d].score)
<1>0. TypeOK /\ RowsHad
  BY DEF IInv
<1>1. ASSUME NEW e \in Device, NEW row, Put(e, row), row.score = dev[e].score
      PROVE  dev'[d].score = dev[d].score
  BY <1>0, <1>1 DEF Put, TypeOK
<1>2. ASSUME NEW e \in Device, NEW p \in Payload, Report(e, p) PROVE dev'[d].score = dev[d].score
  <2>1. [dev[e] EXCEPT !.vitals = Reported(dev[e].vitals, p)].score = dev[e].score
    BY <1>0 DEF TypeOK, Row
  <2> QED BY <1>1, <1>2, <2>1 DEF Report
<1>3. ASSUME NEW e \in Device, NEW s \in Status, SetStatus(e, s) PROVE dev'[d].score = dev[d].score
  <2>1. [dev[e] EXCEPT !.vitals = [dev[e].vitals EXCEPT !.status = s]].score = dev[e].score
    BY <1>0 DEF TypeOK, Row
  <2> QED BY <1>1, <1>3, <2>1 DEF SetStatus
<1>4. CASE EditSave
  <2>1. edit.device \in Device /\ Explained(edit.device, edit.row.score)
    BY <1>0, <1>4 DEF EditSave, TypeOK, Edit, RowsHad
  <2> QED BY <1>0, <1>4, <2>1 DEF EditSave, Put, TypeOK
<1>5. ASSUME NEW t \in Runner, NEW e \in Device, RollupDevice(t, e)
      PROVE  dev'[d].score = dev[d].score \/ Explained(d, dev'[d].score)
  <2>1. run[t].row[e].vitals \in had[e]
    BY <1>0 DEF RowsHad
  <2>2. Explained(e, HealthScore(run[t].row[e].vitals))
    BY <2>1 DEF Explained
  <2>3. dev' = dev \/ dev' = [dev EXCEPT ![e].score = HealthScore(run[t].row[e].vitals)]
    BY <1>5 DEF RollupDevice, Instance
  <2>4. CASE e = d
    BY <1>0, <2>2, <2>3, <2>4 DEF TypeOK, Row
  <2>5. CASE e # d
    BY <1>0, <2>3, <2>5 DEF TypeOK
  <2> QED BY <2>4, <2>5
<1>6. CASE dev' = dev
  BY <1>6
<1> QED BY <1>2, <1>3, <1>4, <1>5, <1>6 DEF Next, EditLoad, RollupBegin, RollupStep, RollupStore,
       RollupDies, BackstopBegin, BackstopStep, BackstopRaise, BackstopEnd, BackstopDies,
       CloseAlert, vars

\* The trend keeps its points or takes those of a rollup.
LEMMA TrendKept ==
    ASSUME TypeOK, [Next]_vars, NEW d \in Device
    PROVE  trend'[d] = trend[d] \/ \E t \in Runner : trend'[d] = run[t].snaps[d] /\ trend'[d] # None
<1>1. ASSUME NEW t \in Runner, RollupStore(t)
      PROVE  trend'[d] = trend[d] \/ (trend'[d] = run[t].snaps[d] /\ trend'[d] # None)
  BY <1>1 DEF RollupStore
<1>2. CASE trend' = trend
  BY <1>2
<1> QED BY <1>1, <1>2 DEF Next, Report, SetStatus, EditLoad, EditSave, RollupBegin, RollupStep,
       RollupDevice, RollupDies, BackstopBegin, BackstopStep, BackstopRaise, BackstopEnd,
       BackstopDies, CloseAlert, vars

\* What a rollup holds afterwards: what it held, the rows, or nothing; and the
\* points it had, one more, or none.
LEMMA PassKept ==
    ASSUME TypeOK, [Next]_vars, NEW t \in Runner, NEW d \in Device
    PROVE  /\ run'[t].row[d] \in {run[t].row[d], dev[d], New}
           /\ \/ run'[t].snaps[d] \in {run[t].snaps[d], None}
              \/ run'[t].snaps[d] = [score |-> HealthScore(run[t].row[d].vitals),
                                     battery |-> run[t].row[d].vitals.battery,
                                     signal |-> run[t].row[d].vitals.signal]
<1>0. run[t] \in Pass
  BY DEF TypeOK
<1>1. ASSUME NEW r \in Runner, run' = [run EXCEPT ![r] = NoPass]
      PROVE  /\ run'[t].row[d] \in {run[t].row[d], New}
             /\ run'[t].snaps[d] \in {run[t].snaps[d], None}
  BY <1>0, <1>1 DEF NoPass, TypeOK
<1>2. ASSUME NEW r \in Runner, RollupBegin(r)
      PROVE  /\ run'[t].row[d] \in {run[t].row[d], dev[d]}
             /\ run'[t].snaps[d] \in {run[t].snaps[d], None}
  BY <1>0, <1>2 DEF RollupBegin, NoPass, TypeOK
<1>3. ASSUME NEW r \in Runner, NEW e \in Device, RollupDevice(r, e)
      PROVE  /\ run'[t].row[d] \in {run[t].row[d], New}
             /\ \/ run'[t].snaps[d] = run[t].snaps[d]
                \/ run'[t].snaps[d] = [score |-> HealthScore(run[t].row[d].vitals),
                                       battery |-> run[t].row[d].vitals.battery,
                                       signal |-> run[t].row[d].vitals.signal]
  <2> DEFINE row == run[r].row[e]
             snap == [score |-> HealthScore(row.vitals), battery |-> row.vitals.battery,
                      signal |-> row.vitals.signal]
  <2>1. run' = [run EXCEPT ![r].ahead = @ \ {e}, ![r].row[e] = New, ![r].snaps[e] = snap]
    BY <1>3 DEF RollupDevice, Instance
  <2> HIDE DEF snap
  <2>2. CASE r = t /\ e = d
    <3>1. run'[t].row[d] = New /\ run'[t].snaps[d] = snap
      BY <1>0, <2>1, <2>2 DEF TypeOK, Pass
    <3> QED BY <2>2, <3>1 DEF snap
  <2>3. CASE r # t
    BY <2>1, <2>3 DEF TypeOK
  <2>4. CASE r = t /\ e # d
    BY <1>0, <2>1, <2>4 DEF TypeOK, Pass
  <2> QED BY <2>2, <2>3, <2>4
<1>4. CASE run' = run
  BY <1>4
<1>5. ASSUME NEW r \in Runner, RollupStore(r) \/ RollupDies(r) PROVE run' = [run EXCEPT ![r] = NoPass]
  BY <1>5 DEF RollupStore, RollupDies
<1> QED BY <1>1, <1>2, <1>3, <1>4, <1>5 DEF Next, Report, SetStatus, EditLoad, EditSave, RollupStep,
       BackstopBegin, BackstopStep, BackstopRaise, BackstopEnd, BackstopDies, CloseAlert, vars

\* Every step keeps scores and trend explained.
LEMMA ExplainedStep == ASSUME IInv, [Next]_vars PROVE ScoresExplained' /\ SnapsWitnessed'
<1>0. TypeOK /\ RowsHad /\ SnapsWitnessed /\ ScoresExplained
  BY DEF IInv
<1>1. ASSUME NEW d \in Device PROVE Explained(d, dev[d].score)'
  <2>1. Explained(d, dev'[d].score)
    BY <1>0, ScoreKept DEF ScoresExplained
  <2> QED BY <1>0, <2>1, ExplainedStays DEF Explained
<1>2. ASSUME NEW d \in Device, trend'[d] # None PROVE Witnessed(d, trend[d])'
  <2>1. Witnessed(d, trend'[d])
    BY <1>0, <1>2, TrendKept DEF ScoresExplained, SnapsWitnessed
  <2> QED BY <1>0, <2>1, ExplainedStays DEF Witnessed
<1>3. ASSUME NEW t \in Runner, NEW d \in Device, run'[t].snaps[d] # None
      PROVE  Witnessed(d, run[t].snaps[d])'
  <2>1. CASE run'[t].snaps[d] = run[t].snaps[d]
    <3>1. Witnessed(d, run'[t].snaps[d])
      BY <1>0, <1>3, <2>1 DEF SnapsWitnessed
    <3> QED BY <1>0, <3>1, ExplainedStays DEF Witnessed
  <2>2. CASE run'[t].snaps[d] = [score |-> HealthScore(run[t].row[d].vitals),
                                 battery |-> run[t].row[d].vitals.battery,
                                 signal |-> run[t].row[d].vitals.signal]
    <3>1. run[t].row[d].vitals \in had[d]
      BY <1>0 DEF RowsHad
    <3>2. Witnessed(d, run'[t].snaps[d])
      BY <2>2, <3>1 DEF Witnessed
    <3> QED BY <1>0, <3>2, ExplainedStays DEF Witnessed
  <2> QED BY <1>0, <1>3, <2>1, <2>2, PassKept
<1> QED BY <1>1, <1>2, <1>3 DEF ScoresExplained, SnapsWitnessed

\* Every step leaves jobs and forms with versions of their rows.
LEMMA RowsHadStep == ASSUME IInv, [Next]_vars PROVE RowsHad'
<1>0. TypeOK /\ RowsHad /\ ScoresExplained
  BY DEF IInv
<1>1. \A d \in Device : New.vitals \in had'[d]
  BY <1>0, HadGrows DEF RowsHad
<1>2. ASSUME NEW d \in Device PROVE dev'[d].vitals \in had'[d]
  <2>1. ASSUME NEW e \in Device, NEW row, Put(e, row) PROVE dev'[d].vitals \in had'[d]
    BY <1>0, <2>1 DEF Put, TypeOK, RowsHad
  <2>2. CASE EditSave
    <3>1. edit.device \in Device
      BY <1>0, <2>2 DEF EditSave, TypeOK, Edit
    <3> QED BY <2>1, <2>2, <3>1 DEF EditSave
  <2>3. ASSUME dev'[d].vitals = dev[d].vitals PROVE dev'[d].vitals \in had'[d]
    BY <1>0, <2>3, HadGrows DEF RowsHad
  <2>4. ASSUME NEW t \in Runner, NEW e \in Device, RollupDevice(t, e)
        PROVE  dev'[d].vitals = dev[d].vitals
    <3>1. dev' = dev \/ dev' = [dev EXCEPT ![e].score = HealthScore(Instance(t, e).vitals)]
      BY <2>4 DEF RollupDevice
    <3> QED BY <1>0, <3>1 DEF TypeOK, Row
  <2> QED BY <2>1, <2>2, <2>3, <2>4 DEF Next, Report, SetStatus, EditLoad, RollupBegin, RollupStep,
        RollupStore, RollupDies, BackstopBegin, BackstopStep, BackstopRaise, BackstopEnd,
        BackstopDies, CloseAlert, vars
<1>3. ASSUME NEW t \in Runner, NEW d \in Device PROVE run'[t].row[d].vitals \in had'[d]
  <2>1. run'[t].row[d] \in {run[t].row[d], dev[d], New}
    BY <1>0, PassKept
  <2> QED BY <1>0, <2>1, HadGrows DEF RowsHad
<1>4. ASSUME edit'.device # None
      PROVE  edit'.row.vitals \in had'[edit'.device] /\ Explained(edit.device, edit.row.score)'
  <2>1. ASSUME NEW d \in Device, EditLoad(d)
        PROVE  edit'.row.vitals \in had'[edit'.device] /\ Explained(edit.device, edit.row.score)'
    <3>1. edit'.device = d /\ edit'.row = dev[d] /\ had' = had
      BY <2>1 DEF EditLoad
    <3> QED BY <1>0, <3>1 DEF RowsHad, ScoresExplained, Explained
  <2>2. CASE edit' = edit
    <3>1. edit.device \in Device
      BY <1>0, <1>4, <2>2 DEF TypeOK, Edit
    <3>2. edit.row.vitals \in had[edit.device] /\ Explained(edit.device, edit.row.score)
      BY <1>0, <1>4, <2>2 DEF RowsHad
    <3>3. edit.row.vitals \in had'[edit.device]
      BY <1>0, <3>1, <3>2, HadGrows
    <3> QED BY <1>0, <2>2, <3>1, <3>2, <3>3, ExplainedStays DEF Explained
  <2>3. CASE EditSave
    BY <1>4, <2>3 DEF EditSave, NoEdit
  <2> QED BY <2>1, <2>2, <2>3 DEF Next, Report, SetStatus, RollupBegin, RollupStep, RollupDevice,
        RollupStore, RollupDies, BackstopBegin, BackstopStep, BackstopRaise, BackstopEnd,
        BackstopDies, CloseAlert, vars
<1> QED BY <1>1, <1>2, <1>3, <1>4 DEF RowsHad

-----------------------------------------------------------------------------
(* Alerts have a cause *)

\* A cause remains one.
LEMMA CausedStays ==
    ASSUME TypeOK, [Next]_vars, NEW r \in Rule, NEW d \in Device, Caused(r, d)
    PROVE  Caused(r, d)'
<1>1. had[d] \subseteq had'[d]
  BY HadGrows
<1> QED BY <1>1 DEF Caused

\* What the backstop calls raise_alert for is caused by the row it has read: its
\* score is that of a version, the 100 of a new row included.
LEMMA BreachCaused ==
    ASSUME IInv, NEW r \in Rule, NEW d \in Device, Breach(r, d, dev[d])
    PROVE  Caused(r, d)
<1>1. New.vitals \in had[d] /\ dev[d].vitals \in had[d] /\ Explained(d, dev[d].score)
  BY DEF IInv, RowsHad, ScoresExplained
<1>2. HealthScore(New.vitals) = 100
  <2>1. Penalty(New.vitals) = 0
    BY DEF Penalty, New
  <2> QED BY <2>1 DEF HealthScore
<1>3. PICK v \in had[d] : HealthScore(v) = dev[d].score
  BY <1>1, <1>2 DEF Explained
<1>4. CASE BackstopApplies(RuleRow[r], "battery", OrgOf[d]) /\ Matches(RuleRow[r], dev[d].vitals.battery)
  BY <1>1, <1>4 DEF BackstopApplies, Caused
<1>5. CASE BackstopApplies(RuleRow[r], "health", OrgOf[d]) /\ Matches(RuleRow[r], dev[d].score)
  BY <1>3, <1>5 DEF BackstopApplies, Caused
<1> QED BY <1>4, <1>5 DEF Breach

\* Calls are made by BackstopBegin and only used up afterwards; alerts are
\* opened by calls.
LEMMA CallsEffect ==
    ASSUME TypeOK, [Next]_vars
    PROVE  /\ back'.calls \subseteq back.calls
                \/ \A c \in back'.calls : c \in Rule \X Device /\ Breach(c[1], c[2], dev[c[2]])
           /\ open' \subseteq open \union back.calls
<1>1. CASE BackstopBegin
  <2>1. \A c \in back'.calls : c \in Rule \X Device /\ Breach(c[1], c[2], dev[c[2]])
    BY <1>1 DEF BackstopBegin, Fleet
  <2>2. open' = open
    BY <1>1 DEF BackstopBegin
  <2> QED BY <2>1, <2>2
<1>2. ASSUME NEW c \in Rule \X Device, BackstopRaise(c)
      PROVE  back'.calls \subseteq back.calls /\ open' \subseteq open \union back.calls
  <2>1. back'.calls = back.calls \ {c}
    BY <1>2 DEF BackstopRaise, TypeOK, Sweep
  <2> QED BY <1>2, <2>1 DEF BackstopRaise
<1>3. CASE BackstopEnd \/ BackstopDies
  <2>1. back'.calls = {} /\ open' = open
    BY <1>3 DEF BackstopEnd, BackstopDies, NoSweep
  <2> QED BY <2>1
<1>4. ASSUME NEW c \in Rule \X Device, CloseAlert(c) PROVE back' = back /\ open' \subseteq open
  BY <1>4 DEF CloseAlert
<1>5. CASE back' = back /\ open' = open
  BY <1>5
<1> QED BY <1>1, <1>2, <1>3, <1>4, <1>5 DEF Next, Report, SetStatus, EditLoad, EditSave, RollupBegin,
       RollupStep, RollupDevice, RollupStore, RollupDies, BackstopStep, vars

\* Every step leaves calls and alerts with a cause.
LEMMA AlertsCausedStep == ASSUME IInv, [Next]_vars PROVE CallsCaused' /\ AlertsCaused'
<1>0. TypeOK /\ CallsCaused /\ AlertsCaused
  BY DEF IInv
<1>1. ASSUME NEW c \in Rule \X Device, Caused(c[1], c[2]) PROVE Caused(c[1], c[2])'
  BY <1>0, <1>1, CausedStays
<1>2. back.calls \subseteq Rule \X Device /\ open \subseteq Rule \X Device
  BY <1>0 DEF TypeOK, Sweep
<1>3. \A c \in back'.calls : c \in Rule \X Device /\ Caused(c[1], c[2])
  BY <1>0, <1>2, CallsEffect, BreachCaused DEF CallsCaused
<1>4. \A c \in open' : c \in Rule \X Device /\ Caused(c[1], c[2])
  BY <1>0, <1>2, CallsEffect DEF CallsCaused, AlertsCaused
<1>5. CallsCaused'
  BY <1>1, <1>3 DEF CallsCaused
<1>6. AlertsCaused'
  BY <1>1, <1>4 DEF AlertsCaused
<1> QED BY <1>5, <1>6

-----------------------------------------------------------------------------
\* A new fleet.
LEMMA InitIInv == Init => IInv
<1> SUFFICES ASSUME Init PROVE IInv
  OBVIOUS
<1>1. New \in Row /\ New.vitals \in Vitals /\ New.score = 100
  BY RestTypes DEF Row, New
<1>2. TypeOK
  BY <1>1, RestTypes, BoundAssumption DEF Init, TypeOK
<1>3. \A t \in Runner, d \in Device : run[t].row[d] = New /\ run[t].snaps[d] = None
  BY DEF Init, NoPass
<1>4. RowsHad
  BY <1>3 DEF Init, RowsHad, NoEdit
<1>5. SnapsWitnessed /\ ScoresExplained
  BY <1>1, <1>3 DEF Init, SnapsWitnessed, ScoresExplained, Explained
<1>6. CallsCaused /\ AlertsCaused
  BY DEF Init, CallsCaused, AlertsCaused, NoSweep
<1> QED BY <1>2, <1>4, <1>5, <1>6 DEF IInv

\* IInv is an inductive invariant of the fleet jobs.
THEOREM Inductive == Spec => []IInv
<1>1. IInv /\ [Next]_vars => IInv'
  BY NextType, ExplainedStep, RowsHadStep, AlertsCausedStep DEF IInv
<1> QED BY <1>1, InitIInv, PTL DEF Spec

\* Every variable keeps its type; every stored score is within 0..100.
THEOREM TypeCorrect == Spec => []TypeOK
<1>1. IInv => TypeOK
  BY DEF IInv
<1> QED BY <1>1, Inductive, PTL

\* Stored scores and trend points each belong to one version of their device's
\* row (rollup_device_health, serializer.save).
THEOREM ScoresAreExplained == Spec => []ScoresExplained
<1>1. IInv => ScoresExplained
  BY DEF IInv
<1> QED BY <1>1, Inductive, PTL

\* Every open alert goes back to a version of its device's row that breached an
\* active rule of the device's organization (evaluate_threshold_alerts).
THEOREM AlertsAreCaused == Spec => []AlertsCaused
<1>1. IInv => AlertsCaused
  BY DEF IInv
<1> QED BY <1>1, Inductive, PTL
=============================================================================
