------------------------- MODULE AlertEngineProofs -------------------------
(***************************************************************************)
(* Theorems about AlertEngine for any number of rules, evaluators and       *)
(* alerts and any cooldown.                                                 *)
(***************************************************************************)
EXTENDS AlertEngine, TLAPS

\* An evaluator inside raise_alert has a key, and past the SELECT or the INSERT
\* it holds an existing row.
HoldsRow ==
    \A w \in Worker :
        /\ wk[w].pc # "idle" => wk[w].key \in Key
        /\ wk[w].pc \in {"refresh", "stamp", "fanout"} =>
             wk[w].id \in Id /\ alert[wk[w].id].status # "absent"

IInv == TypeOK /\ HoldsRow /\ OneOpenPerRule

\* The row is stamped by everybody, so it never looks older than an evaluator's own
\* last stamp, and neither does any copy of it.
Stamped ==
    \A i \in Id :
        /\ alert[i].status = "absent" => alert[i].elapsed = Cooldown
        /\ \A w \in Worker : alert[i].elapsed <= own[w][i]
CopyBounded(w) ==
    /\ wk[w].pc = "refresh" => wk[w].elapsed <= own[w][wk[w].id]
    /\ wk[w].pc = "stamp" => wk[w].key \in NullRuleKey \/ own[w][wk[w].id] = Cooldown

OwnInv == IInv /\ Stamped /\ \A w \in Worker : CopyBounded(w)

-----------------------------------------------------------------------------
(* Helpers *)

\* An evaluator that has found a row is a well-formed evaluator.
LEMMA FoundType ==
    ASSUME TypeOK, NEW w \in Worker, NEW i \in Id, Found(w, i)
    PROVE  wk' \in [Worker -> Evaluator]
<1>1. alert[i] \in Alert /\ wk[w] \in Evaluator
  BY DEF TypeOK
<1>2. [pc |-> "refresh", key |-> wk[w].key, id |-> i, elapsed |-> alert[i].elapsed] \in Evaluator
  BY <1>1 DEF Alert, Evaluator
<1> QED BY <1>2 DEF Found, TypeOK

\* Idle is a well-formed evaluator and NoAlert a well-formed row.
LEMMA BlankType == Idle \in Evaluator /\ NoAlert \in Alert
BY CooldownAssumption DEF Idle, Evaluator, NoAlert, Alert

\* Moving an evaluator to another statement keeps the types.
LEMMA GotoType ==
    ASSUME TypeOK, NEW w \in Worker, NEW p, Goto(w, p),
           p \in {"insert", "reget", "first", "none", "fanout"}
    PROVE  wk' \in [Worker -> Evaluator]
<1>1. wk[w] \in Evaluator
  BY DEF TypeOK
<1>2. [wk[w] EXCEPT !.pc = p] \in Evaluator
  BY <1>1 DEF Evaluator
<1> QED BY <1>2 DEF Goto, TypeOK

\* Time only moves towards the cooldown.
LEMMA LaterType ==
    ASSUME NEW n \in 0..Cooldown
    PROVE  /\ Later(n) \in 0..Cooldown /\ (n = Cooldown => Later(n) = Cooldown)
           /\ \A m \in 0..Cooldown : m <= n => Later(m) <= Later(n)
BY CooldownAssumption DEF Later

-----------------------------------------------------------------------------
(* Type correctness *)

\* Every statement of raise_alert keeps the types.
LEMMA StepType ==
    ASSUME TypeOK, HoldsRow, NEW w \in Worker, Step(w)
    PROVE  TypeOK'
<1>0. wk[w] \in Evaluator /\ Visible(wk[w].key) \subseteq Id
  BY DEF TypeOK, Visible, Open
<1>1. CASE Get(w) \/ Reget(w) \/ First(w)
  BY <1>0, <1>1, FoundType, GotoType DEF Get, Reget, First, TypeOK
<1>2. CASE GetMultiple(w) \/ ReturnNone(w)
  BY <1>2, BlankType DEF GetMultiple, ReturnNone, TypeOK
<1>3. CASE Insert(w)
  <2>1. PICK i \in Id :
          /\ alert' = [alert EXCEPT ![i] = [NoAlert EXCEPT !.key = wk[w].key, !.status = "open"]]
          /\ wk' = [wk EXCEPT ![w].pc = "stamp", ![w].id = i]
    BY <1>3 DEF Insert
  <2>2. wk[w].key \in Key
    BY <1>3 DEF Insert, HoldsRow
  <2>3. [NoAlert EXCEPT !.key = wk[w].key, !.status = "open"] \in Alert
    BY <2>2, BlankType DEF Alert
  <2>4. wk' \in [Worker -> Evaluator]
    BY <1>0, <2>1 DEF Evaluator, TypeOK
  <2> QED BY <1>3, <2>1, <2>3, <2>4 DEF Insert, TypeOK
<1>4. CASE InsertConflict(w)
  BY <1>4, GotoType DEF InsertConflict, TypeOK
<1>5. CASE Refresh(w)
  <2>1. [wk[w] EXCEPT !.pc = "stamp"] \in Evaluator
    BY <1>0 DEF Evaluator
  <2> QED BY <1>5, <2>1, BlankType DEF Refresh, TypeOK
<1>6. CASE Stamp(w)
  <2>1. wk[w].id \in Id
    BY <1>6 DEF Stamp, HoldsRow
  <2>2. [alert[wk[w].id] EXCEPT !.elapsed = 0] \in Alert
    <3>1. alert[wk[w].id] \in Alert
      BY <2>1 DEF TypeOK
    <3> QED BY <3>1, CooldownAssumption DEF Alert
  <2>3. wk' \in [Worker -> Evaluator]
    BY <1>6, GotoType DEF Stamp
  <2>4. own' \in [Worker -> [Id -> 0..Cooldown]]
    BY <1>6, <2>1, CooldownAssumption DEF Stamp, TypeOK
  <2> QED BY <1>6, <2>1, <2>2, <2>3, <2>4 DEF Stamp, TypeOK
<1>7. CASE FanOut(w)
  BY <1>7, BlankType DEF FanOut, HoldsRow, TypeOK
<1> QED BY <1>1, <1>2, <1>3, <1>4, <1>5, <1>6, <1>7 DEF Step

\* Every step of the alert engine keeps the types.
LEMMA NextType ==
    ASSUME TypeOK, HoldsRow, [Next]_vars
    PROVE  TypeOK'
<1>1. ASSUME NEW w \in Worker, NEW k \in Key, Raise(w, k) PROVE TypeOK'
  <2>1. [Idle EXCEPT !.pc = "get", !.key = k] \in Evaluator
    BY BlankType DEF Evaluator
  <2> QED BY <1>1, <2>1 DEF Raise, TypeOK
<1>2. ASSUME NEW w \in Worker, Step(w) PROVE TypeOK'
  BY <1>2, StepType
<1>3. ASSUME NEW w \in Worker, Abort(w) PROVE TypeOK'
  BY <1>3, BlankType DEF Abort, TypeOK
<1>4. ASSUME NEW k \in Key, AutoResolve(k) PROVE TypeOK'
  <2>1. \A i \in Id : [alert[i] EXCEPT !.status = "resolved"] \in Alert
    BY DEF TypeOK, Alert
  <2> QED BY <1>4, <2>1 DEF AutoResolve, TypeOK
<1>5. ASSUME NEW i \in Id, Acknowledge(i) \/ Resolve(i) \/ SoftDelete(i) PROVE TypeOK'
  <2>1. /\ [alert[i] EXCEPT !.status = "acknowledged"] \in Alert
        /\ [alert[i] EXCEPT !.status = "resolved"] \in Alert
        /\ [alert[i] EXCEPT !.deleted = TRUE] \in Alert
    BY DEF TypeOK, Alert
  <2> QED BY <1>5, <2>1 DEF Acknowledge, Resolve, SetStatus, SoftDelete, TypeOK
<1>6. CASE Tick
  <2>1. \A i \in Id : [alert[i] EXCEPT !.elapsed = Later(@)] \in Alert
    BY LaterType DEF TypeOK, Alert
  <2>2. \A w \in Worker : [wk[w] EXCEPT !.elapsed = Later(@)] \in Evaluator
    BY LaterType DEF TypeOK, Evaluator
  <2>3. \A w \in Worker, i \in Id : Later(own[w][i]) \in 0..Cooldown
    BY LaterType DEF TypeOK
  <2> QED BY <1>6, <2>1, <2>2, <2>3 DEF Tick, TypeOK
<1>7. CASE UNCHANGED vars
  BY <1>7 DEF vars, TypeOK
<1> QED BY <1>1, <1>2, <1>3, <1>4, <1>5, <1>6, <1>7 DEF Next

-----------------------------------------------------------------------------
(* What a step does to the table *)

\* Inserting an alert changes one row, which did not exist.
LEMMA InsertEffect ==
    ASSUME TypeOK, NEW w \in Worker, Insert(w)
    PROVE  \E n \in Id :
             /\ alert[n].status = "absent"
             /\ alert'[n].status = "open" /\ alert'[n].key = wk[w].key
             /\ alert'[n].elapsed = Cooldown
             /\ \A i \in Id \ {n} : alert'[i] = alert[i]
             /\ wk'[w].pc = "stamp" /\ wk'[w].id = n /\ wk'[w].key = wk[w].key
             /\ \A v \in Worker \ {w} : wk'[v] = wk[v]
<1>1. PICK n \in Id :
        /\ alert[n].status = "absent"
        /\ alert' = [alert EXCEPT ![n] = [NoAlert EXCEPT !.key = wk[w].key, !.status = "open"]]
        /\ wk' = [wk EXCEPT ![w].pc = "stamp", ![w].id = n]
  BY DEF Insert
<1>2. alert'[n] = [NoAlert EXCEPT !.key = wk[w].key, !.status = "open"]
  BY <1>1 DEF TypeOK
<1>3. alert'[n].status = "open" /\ alert'[n].key = wk[w].key /\ alert'[n].elapsed = Cooldown
  BY <1>2 DEF NoAlert
<1>4. wk[w] \in Evaluator
  BY DEF TypeOK
<1>5. wk'[w].pc = "stamp" /\ wk'[w].id = n /\ wk'[w].key = wk[w].key
  BY <1>1, <1>4 DEF Evaluator, TypeOK
<1> QED BY <1>1, <1>3, <1>5 DEF TypeOK

\* No other step opens an alert, changes its key or makes it disappear.
LEMMA TableEffect ==
    ASSUME TypeOK, HoldsRow, [Next]_vars, NEW i \in Id,
           \A w \in Worker : ~ Insert(w)
    PROVE  /\ alert'[i].key = alert[i].key
           /\ alert'[i].status = "open" => alert[i].status = "open"
           /\ alert[i].status # "absent" => alert'[i].status # "absent"
<1> DEFINE Goal == /\ alert'[i].key = alert[i].key
                   /\ alert'[i].status = "open" => alert[i].status = "open"
                   /\ alert[i].status # "absent" => alert'[i].status # "absent"
<1>0. alert[i] \in Alert
  BY DEF TypeOK
<1>1. ASSUME NEW w \in Worker, Step(w) PROVE Goal
  <2>1. CASE Stamp(w)
    <3>1. alert'[i] = alert[i] \/ alert'[i] = [alert[i] EXCEPT !.elapsed = 0]
      BY <2>1 DEF Stamp, TypeOK
    <3> QED BY <1>0, <3>1 DEF Alert
  <2> QED BY <1>1, <2>1 DEF Step, Get, GetMultiple, InsertConflict, Reget, First, ReturnNone,
        Refresh, FanOut
<1>2. ASSUME NEW k \in Key, AutoResolve(k) PROVE Goal
  <2>1. alert'[i] = alert[i] \/ alert'[i] = [alert[i] EXCEPT !.status = "resolved"]
    BY <1>2 DEF AutoResolve
  <2> QED BY <1>0, <2>1 DEF Alert
<1>3. ASSUME NEW j \in Id, Acknowledge(j) \/ Resolve(j) \/ SoftDelete(j) PROVE Goal
  <2>1. \/ alert'[i] = alert[i]
        \/ alert'[i] = [alert[i] EXCEPT !.status = "acknowledged"]
        \/ alert'[i] = [alert[i] EXCEPT !.status = "resolved"]
        \/ alert'[i] = [alert[i] EXCEPT !.deleted = TRUE]
    BY <1>3 DEF Acknowledge, Resolve, SetStatus, SoftDelete, TypeOK
  <2> QED BY <1>0, <2>1 DEF Alert
<1>4. CASE Tick
  <2>1. alert'[i] = [alert[i] EXCEPT !.elapsed = Later(alert[i].elapsed)]
    BY <1>4 DEF Tick
  <2> QED BY <1>0, <2>1 DEF Alert
<1> QED BY <1>1, <1>2, <1>3, <1>4 DEF Next, Raise, Abort, vars

-----------------------------------------------------------------------------
(* One OPEN alert per rule and device *)

\* Only Insert opens an alert, and the unique constraint guards it.
LEMMA OneOpenStep ==
    ASSUME TypeOK, HoldsRow, OneOpenPerRule, [Next]_vars
    PROVE  OneOpenPerRule'
<1>1. CASE \A w \in Worker : ~ Insert(w)
  BY <1>1, TableEffect DEF OneOpenPerRule, Open
<1>2. ASSUME NEW w \in Worker, Insert(w) PROVE OneOpenPerRule'
  <2>1. PICK n \in Id :
             /\ alert'[n].status = "open" /\ alert'[n].key = wk[w].key
             /\ \A i \in Id \ {n} : alert'[i] = alert[i]
    BY <1>2, InsertEffect
  <2>2. wk[w].key \notin NullRuleKey => Open(wk[w].key) = {}
    BY <1>2 DEF Insert, Conflict
  <2> QED BY <2>1, <2>2 DEF OneOpenPerRule, Open
<1> QED BY <1>1, <1>2

\* Steps of an evaluator other than w leave w alone.
LEMMA OthersStay ==
    ASSUME TypeOK, NEW w \in Worker, NEW v \in Worker, v # w,
           Step(v) \/ Abort(v) \/ \E k \in Key : Raise(v, k)
    PROVE  wk'[w] = wk[w] /\ own'[w] = own[w]
<1>1. wk'[w] = wk[w]
  BY InsertEffect DEF Step, Get, GetMultiple, InsertConflict, Reget, First, ReturnNone, Refresh,
     Stamp, FanOut, Abort, Raise, Goto, Found, TypeOK
<1>2. own'[w] = own[w]
  BY DEF Step, Get, GetMultiple, Insert, InsertConflict, Reget, First, ReturnNone, Refresh,
     Stamp, FanOut, Abort, Raise, TypeOK
<1> QED BY <1>1, <1>2

\* An evaluator that has read or written a row goes on holding it.
LEMMA HoldsRowStep ==
    ASSUME TypeOK, HoldsRow, [Next]_vars
    PROVE  HoldsRow'
<1> DEFINE Holds(e) == /\ e.pc # "idle" => e.key \in Key
                       /\ e.pc \in {"refresh", "stamp", "fanout"} =>
                            e.id \in Id /\ alert'[e.id].status # "absent"
<1>0. \A i \in Id : alert[i].status # "absent" => alert'[i].status # "absent"
  BY TableEffect, InsertEffect
<1>1. SUFFICES ASSUME NEW w \in Worker PROVE Holds(wk'[w])
  BY DEF HoldsRow
<1>2. wk[w] \in Evaluator
  BY DEF TypeOK
<1>3. ASSUME wk'[w] = wk[w] PROVE Holds(wk'[w])
  BY <1>0, <1>3 DEF HoldsRow
<1>4. ASSUME wk'[w] = Idle PROVE Holds(wk'[w])
  BY <1>4 DEF Idle
<1>5. ASSUME NEW k \in Key, Raise(w, k) PROVE Holds(wk'[w])
  <2>1. wk'[w] = [Idle EXCEPT !.pc = "get", !.key = k]
    BY <1>5 DEF Raise, TypeOK
  <2>2. wk'[w].pc = "get" /\ wk'[w].key = k
    BY <2>1 DEF Idle
  <2> QED BY <2>2
<1>6. ASSUME NEW i \in Visible(wk[w].key), Found(w, i), wk[w].pc # "idle" PROVE Holds(wk'[w])
  <2>1. i \in Id /\ alert[i].status # "absent"
    BY <1>6 DEF Visible, Open
  <2>2. wk'[w] = [pc |-> "refresh", key |-> wk[w].key, id |-> i, elapsed |-> alert[i].elapsed]
    BY <1>6 DEF Found, TypeOK
  <2>3. wk'[w].key = wk[w].key /\ wk'[w].id = i
    BY <2>2
  <2> QED BY <1>0, <1>6, <2>1, <2>3 DEF HoldsRow
<1>7. ASSUME NEW p \in {"insert", "reget", "first", "none"}, Goto(w, p), wk[w].pc # "idle"
      PROVE  Holds(wk'[w])
  <2>1. wk'[w] = [wk[w] EXCEPT !.pc = p]
    BY <1>7 DEF Goto, TypeOK
  <2>2. wk'[w].pc = p /\ wk'[w].key = wk[w].key
    BY <1>2, <2>1 DEF Evaluator
  <2> QED BY <1>7, <2>2 DEF HoldsRow
<1>8. CASE Get(w) \/ Reget(w) \/ First(w) \/ InsertConflict(w)
  BY <1>6, <1>7, <1>8 DEF Get, Reget, First, InsertConflict
<1>9. CASE Insert(w)
  BY <1>9, InsertEffect DEF Insert, HoldsRow
<1>10. CASE Refresh(w)
  <2>1. wk'[w] = Idle \/ wk'[w] = [wk[w] EXCEPT !.pc = "stamp"]
    BY <1>10 DEF Refresh, TypeOK
  <2>2. wk'[w] = [wk[w] EXCEPT !.pc = "stamp"] => wk'[w].key = wk[w].key /\ wk'[w].id = wk[w].id
    BY <1>2 DEF Evaluator
  <2> QED BY <1>0, <1>4, <1>10, <2>1, <2>2 DEF Refresh, HoldsRow
<1>11. CASE Stamp(w)
  <2>1. wk'[w] = [wk[w] EXCEPT !.pc = "fanout"]
    BY <1>11 DEF Stamp, Goto, TypeOK
  <2>2. wk'[w].key = wk[w].key /\ wk'[w].id = wk[w].id
    BY <1>2, <2>1 DEF Evaluator
  <2> QED BY <1>0, <1>11, <2>2 DEF Stamp, HoldsRow
<1>12. CASE GetMultiple(w) \/ ReturnNone(w) \/ FanOut(w) \/ Abort(w)
  <2>1. wk'[w] = Idle
    BY <1>12 DEF GetMultiple, ReturnNone, FanOut, Abort, TypeOK
  <2> QED BY <1>4, <2>1
<1>13. CASE Tick
  <2>1. wk'[w] = [wk[w] EXCEPT !.elapsed = Later(wk[w].elapsed)]
    BY <1>13 DEF Tick
  <2>2. wk'[w].pc = wk[w].pc /\ wk'[w].key = wk[w].key /\ wk'[w].id = wk[w].id
    BY <1>2, <2>1 DEF Evaluator
  <2> QED BY <1>0, <2>2 DEF HoldsRow
<1>14. ASSUME NEW v \in Worker, v # w, Step(v) \/ Abort(v) \/ \E k \in Key : Raise(v, k)
       PROVE  wk'[w] = wk[w]
  BY <1>14, OthersStay
<1>15. CASE \E v \in Worker : Step(v) \/ Abort(v) \/ \E k \in Key : Raise(v, k)
  <2>1. PICK v \in Worker : Step(v) \/ Abort(v) \/ \E k \in Key : Raise(v, k)
    BY <1>15
  <2>2. CASE v = w
    BY <1>5, <1>8, <1>9, <1>10, <1>11, <1>12, <2>1, <2>2 DEF Step
  <2> QED BY <1>3, <1>14, <2>1, <2>2
<1>16. CASE UNCHANGED wk
  BY <1>3, <1>16
<1> QED BY <1>13, <1>15, <1>16 DEF Next, AutoResolve, Acknowledge, Resolve, SetStatus, SoftDelete, vars

-----------------------------------------------------------------------------
(* The theorems *)

\* The inductive invariant holds in an empty table.
LEMMA InitIInv == Init => IInv
<1> SUFFICES ASSUME Init PROVE IInv
  OBVIOUS
<1>1. TypeOK
  <2>1. own \in [Worker -> [Id -> 0..Cooldown]]
    BY CooldownAssumption DEF Init
  <2>2. alert \in [Id -> Alert] /\ wk \in [Worker -> Evaluator] /\ notified \subseteq Id
    BY BlankType DEF Init
  <2> QED BY <2>1, <2>2 DEF TypeOK
<1>2. HoldsRow
  BY DEF Init, HoldsRow, Idle
<1>3. OneOpenPerRule
  BY DEF Init, OneOpenPerRule, Open, NoAlert
<1> QED BY <1>1, <1>2, <1>3 DEF IInv

\* Every step keeps the inductive invariant.
LEMMA NextIInv == IInv /\ [Next]_vars => IInv'
BY NextType, HoldsRowStep, OneOpenStep DEF IInv

\* The inductive invariant of raise_alert, the reviewers and the clock holds.
THEOREM Inductive == Spec => []IInv
BY InitIInv, NextIInv, PTL DEF Spec

\* The table and the evaluators keep their types.
THEOREM TypeCorrect == Spec => []TypeOK
<1>1. IInv => TypeOK
  BY DEF IInv
<1> QED BY <1>1, Inductive, PTL

\* De-duplication: a rule has at most one OPEN alert per device, for any number
\* of concurrent evaluators.
THEOREM Deduplicated == Spec => []OneOpenPerRule
<1>1. IInv => OneOpenPerRule
  BY DEF IInv
<1> QED BY <1>1, Inductive, PTL

\* An alert somebody acknowledged or resolved is never OPEN again, although
\* evaluators that read it while it was OPEN still save their copies, and
\* operators act on stale pages in any order: a lasting breach opens a new one.
\* (update_fields in raise_alert and _emit; acknowledge_alert, resolve_alert)
NeverReopens ==
    [][\A i \in Id : alert[i].status \in {"acknowledged", "resolved"}
                    => alert'[i].status # "open"]_vars

\* Only an INSERT makes an alert OPEN: no stale copy and no operator reopens one.
THEOREM ClosedStaysClosed == Spec => NeverReopens
<1> DEFINE Step1 == \A i \in Id : alert[i].status \in {"acknowledged", "resolved"}
                                => alert'[i].status # "open"
<1>1. ASSUME IInv, [Next]_vars PROVE Step1
  <2>1. TypeOK /\ HoldsRow
    BY <1>1 DEF IInv
  <2>2. CASE \A w \in Worker : ~ Insert(w)
    BY <1>1, <2>1, <2>2, TableEffect
  <2>3. ASSUME NEW w \in Worker, Insert(w) PROVE Step1
    BY <2>1, <2>3 DEF Insert, TypeOK
  <2> QED BY <2>2, <2>3
<1>2. IInv /\ [Next]_vars => [Step1]_vars
  BY <1>1
<1> HIDE DEF Step1
<1>3. Spec => [][Step1]_vars
  BY <1>2, Inductive, PTL DEF Spec
<1> QED BY <1>3 DEF NeverReopens, Step1

-----------------------------------------------------------------------------
(* The cooldown, with any number of evaluators *)

\* Only Stamp and the clock change an age, in the table or in the history.
LEMMA AgesStay ==
    ASSUME IInv, Stamped, [Next]_vars, ~ Tick, \A w \in Worker : ~ Stamp(w)
    PROVE  own' = own /\ \A i \in Id : alert'[i].elapsed = alert[i].elapsed
<1>0. TypeOK
  BY DEF IInv
<1>1. own' = own
  BY DEF Next, Step, Get, GetMultiple, Insert, InsertConflict, Reget, First, ReturnNone, Refresh,
     FanOut, Raise, Abort, AutoResolve, Acknowledge, Resolve, SetStatus, SoftDelete, vars
<1> DEFINE Same == \A i \in Id : alert'[i].elapsed = alert[i].elapsed
<1>2. ASSUME NEW w \in Worker, Insert(w) PROVE Same
  BY <1>0, <1>2, InsertEffect DEF Stamped
<1>3. ASSUME NEW k \in Key, AutoResolve(k) PROVE Same
  <2> TAKE i \in Id
  <2>1. alert'[i] = alert[i] \/ alert'[i] = [alert[i] EXCEPT !.status = "resolved"]
    BY <1>3 DEF AutoResolve
  <2> QED BY <1>0, <2>1 DEF TypeOK, Alert
<1>4. ASSUME NEW j \in Id, Acknowledge(j) \/ Resolve(j) \/ SoftDelete(j) PROVE Same
  <2> TAKE i \in Id
  <2>1. \/ alert'[i] = alert[i]
        \/ alert'[i] = [alert[i] EXCEPT !.status = "acknowledged"]
        \/ alert'[i] = [alert[i] EXCEPT !.status = "resolved"]
        \/ alert'[i] = [alert[i] EXCEPT !.deleted = TRUE]
    BY <1>0, <1>4 DEF Acknowledge, Resolve, SetStatus, SoftDelete, TypeOK
  <2> QED BY <1>0, <2>1 DEF TypeOK, Alert
<1>5. ASSUME alert' = alert PROVE Same
  BY <1>5
<1>6. Same
  BY <1>2, <1>3, <1>4, <1>5 DEF Next, Step, Get, GetMultiple, InsertConflict, Reget, First,
     ReturnNone, Refresh, FanOut, Raise, Abort, vars
<1> QED BY <1>1, <1>6

\* A stamp sets the row's age and its author's to zero.
LEMMA StampEffect ==
    ASSUME IInv, NEW w \in Worker, Stamp(w)
    PROVE  \A i \in Id : /\ i = wk[w].id => alert'[i].elapsed = 0
                         /\ i # wk[w].id => alert'[i].elapsed = alert[i].elapsed
                         /\ alert'[i].status = alert[i].status
                         /\ \A v \in Worker : own'[v][i] = own[v][i] \/ (i = wk[w].id /\ v = w /\ own'[v][i] = 0)
<1>0. TypeOK /\ wk[w].id \in Id /\ alert[wk[w].id].status # "absent"
  BY DEF IInv, HoldsRow, Stamp
<1>1. alert' = [alert EXCEPT ![wk[w].id].elapsed = 0] /\ own' = [own EXCEPT ![w][wk[w].id] = 0]
  BY DEF Stamp
<1> TAKE i \in Id
<1>2. alert[i] \in Alert
  BY <1>0 DEF TypeOK
<1>3. /\ i = wk[w].id => alert'[i] = [alert[i] EXCEPT !.elapsed = 0]
      /\ i # wk[w].id => alert'[i] = alert[i]
  BY <1>0, <1>1 DEF TypeOK
<1>4. \A v \in Worker : own'[v][i] = own[v][i] \/ (i = wk[w].id /\ v = w /\ own'[v][i] = 0)
  BY <1>0, <1>1 DEF TypeOK
<1> QED BY <1>2, <1>3, <1>4 DEF Alert

\* The clock ages rows, copies and the history alike.
LEMMA TickEffect ==
    ASSUME TypeOK, Tick
    PROVE  /\ \A i \in Id : /\ alert'[i].elapsed = Later(alert[i].elapsed)
                            /\ alert'[i].status = alert[i].status
           /\ \A w \in Worker : /\ wk'[w].elapsed = Later(wk[w].elapsed)
                                /\ wk'[w].pc = wk[w].pc
                                /\ wk'[w].key = wk[w].key
                                /\ wk'[w].id = wk[w].id
           /\ \A w \in Worker, i \in Id : own'[w][i] = Later(own[w][i])
<1>1. \A i \in Id : /\ alert[i] \in Alert
                    /\ alert'[i] = [alert[i] EXCEPT !.elapsed = Later(alert[i].elapsed)]
  BY DEF Tick, TypeOK
<1>2. \A w \in Worker : /\ wk[w] \in Evaluator
                        /\ wk'[w] = [wk[w] EXCEPT !.elapsed = Later(wk[w].elapsed)]
  BY DEF Tick, TypeOK
<1>3. \A w \in Worker, i \in Id : own'[w][i] = Later(own[w][i])
  BY DEF Tick
<1>4. \A i \in Id : /\ alert'[i].elapsed = Later(alert[i].elapsed)
                    /\ alert'[i].status = alert[i].status
  BY <1>1 DEF Alert
<1>5. \A w \in Worker : /\ wk'[w].elapsed = Later(wk[w].elapsed)
                        /\ wk'[w].pc = wk[w].pc
                        /\ wk'[w].key = wk[w].key
                        /\ wk'[w].id = wk[w].id
  BY <1>2 DEF Evaluator
<1> QED BY <1>3, <1>4, <1>5

\* No row looks older than anybody's own last stamp of it.
LEMMA StampedStep ==
    ASSUME OwnInv, [Next]_vars
    PROVE  Stamped'
<1>0. TypeOK /\ IInv /\ Stamped
  BY DEF OwnInv, IInv
<1>1. \A i \in Id : alert[i].elapsed \in 0..Cooldown /\ \A w \in Worker : own[w][i] \in 0..Cooldown
  BY <1>0 DEF TypeOK, Alert
<1>2. ASSUME NEW w \in Worker, Stamp(w) PROVE Stamped'
  <2>1. alert[wk[w].id].status # "absent"
    BY <1>0, <1>2 DEF IInv, HoldsRow, Stamp
  <2> QED BY <1>0, <1>1, <1>2, <2>1, StampEffect DEF Stamped
<1>3. CASE Tick
  <2> SUFFICES ASSUME NEW i \in Id
               PROVE  /\ alert'[i].status = "absent" => alert'[i].elapsed = Cooldown
                      /\ \A w \in Worker : alert'[i].elapsed <= own'[w][i]
    BY DEF Stamped
  <2>1. alert'[i].elapsed = Later(alert[i].elapsed) /\ alert'[i].status = alert[i].status
    BY <1>0, <1>3, TickEffect
  <2>2. alert'[i].status = "absent" => alert'[i].elapsed = Cooldown
    <3>1. alert[i].status = "absent" => alert[i].elapsed = Cooldown
      BY <1>0 DEF Stamped
    <3>2. alert[i].elapsed = Cooldown => Later(alert[i].elapsed) = Cooldown
      BY <1>1, LaterType
    <3> QED BY <2>1, <3>1, <3>2
  <2>3. ASSUME NEW w \in Worker PROVE alert'[i].elapsed <= own'[w][i]
    <3>1. own'[w][i] = Later(own[w][i])
      BY <1>0, <1>3, TickEffect
    <3>2. /\ alert[i].elapsed <= own[w][i]
          /\ alert[i].elapsed \in 0..Cooldown /\ own[w][i] \in 0..Cooldown
      BY <1>0, <1>1 DEF Stamped
    <3>3. Later(alert[i].elapsed) <= Later(own[w][i])
      BY <3>2, LaterType
    <3> QED BY <2>1, <3>1, <3>3
  <2> QED BY <2>2, <2>3
<1>4. CASE ~ Tick /\ \A w \in Worker : ~ Stamp(w)
  <2>1. own' = own /\ \A i \in Id : alert'[i].elapsed = alert[i].elapsed
    BY <1>0, <1>4, AgesStay
  <2>2. \A i \in Id : alert'[i].status = "absent" => alert[i].status = "absent"
    BY <1>0, TableEffect, InsertEffect DEF IInv
  <2> QED BY <1>0, <2>1, <2>2 DEF Stamped
<1> QED BY <1>2, <1>3, <1>4

\* An evaluator's copy is never older than its own last stamp, and it stamps only
\* when the copy says that the cooldown is over.
LEMMA CopyBoundedStep ==
    ASSUME OwnInv, [Next]_vars, NEW w \in Worker
    PROVE  CopyBounded(w)'
<1>0. TypeOK /\ HoldsRow /\ IInv /\ Stamped /\ CopyBounded(w)
  BY DEF OwnInv, IInv
<1>1. wk[w] \in Evaluator /\ \A i \in Id : own[w][i] \in 0..Cooldown /\ alert[i].elapsed \in 0..Cooldown
  BY <1>0 DEF TypeOK, Alert
<1>2. ASSUME wk'[w].pc \notin {"refresh", "stamp"} PROVE CopyBounded(w)'
  BY <1>2 DEF CopyBounded
<1>3. ASSUME wk'[w] = wk[w], own'[w] = own[w] PROVE CopyBounded(w)'
  BY <1>0, <1>3 DEF CopyBounded
<1>4. CASE Get(w) \/ Reget(w) \/ First(w)
  <2>1. CASE \E p \in {"insert", "first", "none"} : Goto(w, p)
    <3>1. wk'[w].pc \in {"insert", "first", "none"}
      BY <1>0, <1>1, <2>1 DEF Goto, Evaluator, TypeOK
    <3> QED BY <1>2, <3>1
  <2>2. ASSUME NEW i \in Visible(wk[w].key), Found(w, i) PROVE CopyBounded(w)'
    <3>1. wk'[w] = [pc |-> "refresh", key |-> wk[w].key, id |-> i, elapsed |-> alert[i].elapsed]
      BY <1>0, <2>2 DEF Found, TypeOK
    <3>2. wk'[w].pc = "refresh" /\ wk'[w].id = i /\ wk'[w].elapsed = alert[i].elapsed
      BY <3>1
    <3>3. own' = own /\ i \in Id
      BY <1>4, <2>2 DEF Get, Reget, First, Visible, Open
    <3> QED BY <1>0, <3>2, <3>3 DEF CopyBounded, Stamped
  <2> QED BY <1>4, <2>1, <2>2 DEF Get, Reget, First
<1>5. CASE Insert(w)
  <2>1. PICK n \in Id : /\ alert[n].status = "absent"
                        /\ wk'[w].pc = "stamp" /\ wk'[w].id = n
    BY <1>0, <1>5, InsertEffect
  <2>2. own' = own /\ Cooldown <= own[w][n] /\ own[w][n] \in 0..Cooldown
    BY <1>0, <1>1, <1>5, <2>1 DEF Insert, Stamped
  <2>3. own[w][n] = Cooldown
    BY <2>2, CooldownAssumption
  <2> QED BY <2>1, <2>2, <2>3 DEF CopyBounded
<1>6. CASE Refresh(w)
  <2>1. CASE CooldownElapsed(w)
    <3>1. wk'[w] = [wk[w] EXCEPT !.pc = "stamp"] /\ own' = own
      BY <1>0, <1>6, <2>1 DEF Refresh, TypeOK
    <3>2. wk'[w].pc = "stamp" /\ wk'[w].key = wk[w].key /\ wk'[w].id = wk[w].id
      BY <1>1, <3>1 DEF Evaluator
    <3>3. wk[w].id \in Id /\ wk[w].elapsed <= own[w][wk[w].id] /\ wk[w].elapsed \in 0..Cooldown
      BY <1>0, <1>1, <1>6 DEF Refresh, CopyBounded, HoldsRow, Evaluator
    <3>4. wk[w].key \in NullRuleKey \/ own[w][wk[w].id] = Cooldown
      BY <1>1, <2>1, <3>3, CooldownAssumption DEF CooldownElapsed
    <3> QED BY <3>1, <3>2, <3>4 DEF CopyBounded
  <2>2. CASE ~ CooldownElapsed(w)
    <3>1. wk'[w] = Idle
      BY <1>0, <1>6, <2>2 DEF Refresh, TypeOK
    <3> QED BY <1>2, <3>1 DEF Idle
  <2> QED BY <2>1, <2>2
<1>7. CASE InsertConflict(w) \/ Stamp(w)
  <2>1. wk'[w].pc \in {"reget", "fanout"}
    BY <1>0, <1>1, <1>7 DEF InsertConflict, Stamp, Goto, Evaluator, TypeOK
  <2> QED BY <1>2, <2>1
<1>8. CASE GetMultiple(w) \/ ReturnNone(w) \/ FanOut(w) \/ Abort(w)
  <2>1. wk'[w] = Idle
    BY <1>0, <1>8 DEF GetMultiple, ReturnNone, FanOut, Abort, TypeOK
  <2> QED BY <1>2, <2>1 DEF Idle
<1>9. ASSUME NEW k \in Key, Raise(w, k) PROVE CopyBounded(w)'
  <2>1. wk'[w] = [Idle EXCEPT !.pc = "get", !.key = k]
    BY <1>0, <1>9 DEF Raise, TypeOK
  <2>2. wk'[w].pc = "get"
    BY <2>1 DEF Idle
  <2> QED BY <1>2, <2>2
<1>10. CASE Tick
  <2>1. CASE wk[w].pc \in {"refresh", "stamp"}
    <3>1. wk[w].id \in Id
      BY <1>0, <2>1 DEF HoldsRow
    <3>2. own'[w][wk[w].id] = Later(own[w][wk[w].id]) /\ own[w][wk[w].id] \in 0..Cooldown
      BY <1>0, <1>1, <1>10, <3>1, TickEffect
    <3>3. wk[w].elapsed \in 0..Cooldown
      BY <1>1 DEF Evaluator
    <3> QED BY <1>0, <1>10, <3>2, <3>3, TickEffect, LaterType DEF CopyBounded
  <2>2. wk'[w].pc = wk[w].pc
    BY <1>0, <1>10, TickEffect
  <2> QED BY <1>2, <2>1, <2>2
<1>11. CASE \E v \in Worker : Step(v) \/ Abort(v) \/ \E k \in Key : Raise(v, k)
  <2>1. PICK v \in Worker : Step(v) \/ Abort(v) \/ \E k \in Key : Raise(v, k)
    BY <1>11
  <2>2. CASE v = w
    BY <1>4, <1>5, <1>6, <1>7, <1>8, <1>9, <2>1, <2>2 DEF Step
  <2>3. CASE v # w
    BY <1>0, <1>3, <2>1, <2>3, OthersStay
  <2> QED BY <2>2, <2>3
<1>12. CASE UNCHANGED <<wk, own>>
  BY <1>3, <1>12
<1> QED BY <1>10, <1>11, <1>12 DEF Next, AutoResolve, Acknowledge, Resolve, SetStatus, SoftDelete, vars

\* Although the copies of last_notified_at that evaluators decide on are stale, none
\* of them notifies twice of one alert of a rule within the cooldown, for any
\* number of evaluators and any cooldown.
THEOREM CooldownHolds == Spec => CooldownPerEvaluator
<1> DEFINE Emits(w) == wk[w].pc = "stamp" /\ wk'[w].pc = "fanout" /\ wk[w].key \notin NullRuleKey
<1>1. Init => OwnInv
  <2> SUFFICES ASSUME Init PROVE OwnInv
    OBVIOUS
  <2>1. Stamped
    BY CooldownAssumption DEF Init, Stamped, NoAlert
  <2>2. \A w \in Worker : CopyBounded(w)
    BY DEF Init, CopyBounded, Idle
  <2> QED BY <2>1, <2>2, InitIInv DEF OwnInv
<1>2. OwnInv /\ [Next]_vars => OwnInv'
  BY NextIInv, StampedStep, CopyBoundedStep DEF OwnInv
<1>3. OwnInv => [\A w \in Worker : Emits(w) => own[w][wk[w].id] >= Cooldown]_vars
  BY CooldownAssumption DEF OwnInv, CopyBounded
<1> QED BY <1>1, <1>2, <1>3, PTL DEF Spec, CooldownPerEvaluator

-----------------------------------------------------------------------------
(* AlertEngine implements AlertSpec *)

\* Steps that leave the table and the history alone change nothing abstract.
LEMMA Stutter == ASSUME alert' = alert, notified' = notified PROVE UNCHANGED Abs!vars
<1>1. absLife' = absLife /\ absKey' = absKey
  BY DEF absLife, absKey
<1> QED BY <1>1 DEF Abs!vars

\* A step that closes alerts, whichever way, and opens none.
LEMMA CloseRefines ==
    ASSUME notified' = notified,
           \A i \in Id : /\ alert'[i].key = alert[i].key
                         /\ alert'[i].status = "absent" <=> alert[i].status = "absent"
                         /\ alert'[i].status = "open" => alert[i].status = "open"
    PROVE  Abs!Next
<1> DEFINE S == {i \in Id : alert[i].status = "open" /\ alert'[i].status # "open"}
<1>1. \A i \in S : absLife[i] = "open" /\ absLife'[i] = "closed"
  BY DEF absLife
<1>2. \A i \in Id \ S : absLife'[i] = absLife[i]
  BY DEF absLife
<1>3. absLife' = [i \in Id |-> IF i \in S THEN "closed" ELSE absLife[i]]
  BY <1>1, <1>2 DEF absLife
<1>4. absKey' = absKey
  BY DEF absKey
<1> HIDE DEF S
<1>5. Abs!Close(S)
  BY <1>1, <1>3, <1>4 DEF Abs!Close
<1>6. S \in SUBSET Id
  BY DEF S
<1> QED BY <1>5, <1>6 DEF Abs!Next

\* The INSERT is Raise: the unique constraint sees every row that is open for
\* AlertSpec.
LEMMA InsertRefines ==
    ASSUME TypeOK, HoldsRow, NEW w \in Worker, Insert(w)
    PROVE  \E i \in Id, k \in Key : Abs!Raise(i, k)
<1> DEFINE k == wk[w].key
<1>1. k \in Key
  BY DEF Insert, HoldsRow
<1>2. PICK n \in Id :
        /\ alert[n].status = "absent"
        /\ alert'[n].status = "open" /\ alert'[n].key = k
        /\ \A i \in Id \ {n} : alert'[i] = alert[i]
  BY InsertEffect
<1>3. k \in NullRuleKey \/ Abs!OpenFor(k) = {}
  BY DEF Insert, Conflict, Open, Abs!OpenFor, absLife, absKey
<1> HIDE DEF k
<1>4. absLife[n] = "none" /\ absLife' = [absLife EXCEPT ![n] = "open"]
  BY <1>2 DEF absLife
<1>5. absKey' = [absKey EXCEPT ![n] = k]
  BY <1>2 DEF absKey
<1>6. notified' = notified
  BY DEF Insert
<1>7. Abs!Raise(n, k)
  BY <1>3, <1>4, <1>5, <1>6 DEF Abs!Raise
<1> QED BY <1>1, <1>7

\* The end of _fan_out is Tell.
LEMMA FanOutRefines ==
    ASSUME TypeOK, HoldsRow, NEW w \in Worker, FanOut(w)
    PROVE  \E i \in Id : Abs!Tell(i)
<1>1. wk[w].id \in Id /\ alert[wk[w].id].status # "absent"
  BY DEF FanOut, HoldsRow
<1>2. absLife[wk[w].id] # "none"
  BY <1>1 DEF absLife
<1>3. absLife' = absLife /\ absKey' = absKey
  BY DEF FanOut, absLife, absKey
<1>4. Abs!Tell(wk[w].id)
  BY <1>2, <1>3 DEF FanOut, Abs!Tell
<1> QED BY <1>1, <1>4

\* Every step is one of AlertSpec or changes nothing it knows of.
LEMMA StepRefines == ASSUME IInv, [Next]_vars PROVE [Abs!Next]_(Abs!vars)
<1>0. TypeOK /\ HoldsRow
  BY DEF IInv
<1>1. ASSUME NEW w \in Worker, Insert(w) PROVE Abs!Next
  BY <1>0, <1>1, InsertRefines DEF Abs!Next
<1>2. ASSUME NEW w \in Worker, FanOut(w) PROVE Abs!Next
  BY <1>0, <1>2, FanOutRefines DEF Abs!Next
<1>3. ASSUME alert' = alert, notified' = notified PROVE UNCHANGED Abs!vars
  BY <1>3, Stutter
<1>4. ASSUME NEW w \in Worker, Stamp(w), ~ Insert(w) PROVE Abs!Next
  <2>1. wk[w].id \in Id /\ alert' = [alert EXCEPT ![wk[w].id].elapsed = 0]
    BY <1>0, <1>4 DEF Stamp, HoldsRow
  <2>2. \A i \in Id : alert'[i].status = alert[i].status /\ alert'[i].key = alert[i].key
    BY <1>0, <2>1 DEF TypeOK, Alert
  <2> QED BY <1>4, <2>2, CloseRefines DEF Stamp
<1>5. ASSUME NEW k \in Key, AutoResolve(k) PROVE Abs!Next
  <2>1. \A i \in Id : alert'[i] = alert[i] \/ alert'[i] = [alert[i] EXCEPT !.status = "resolved"]
    BY <1>5 DEF AutoResolve
  <2>2. \A i \in Id : alert[i].status = "open" \/ alert'[i] = alert[i]
    BY <1>5 DEF AutoResolve, Visible, Open
  <2>3. \A i \in Id : /\ alert'[i].key = alert[i].key
                      /\ alert'[i].status = "absent" <=> alert[i].status = "absent"
                      /\ alert'[i].status = "open" => alert[i].status = "open"
    BY <1>0, <2>1, <2>2 DEF TypeOK, Alert
  <2> QED BY <1>5, <2>3, CloseRefines DEF AutoResolve
<1>6. ASSUME NEW j \in Id, Acknowledge(j) \/ Resolve(j) \/ SoftDelete(j) PROVE Abs!Next
  <2>1. /\ alert[j].status # "absent"
        /\ \/ alert' = [alert EXCEPT ![j].status = "acknowledged"]
           \/ alert' = [alert EXCEPT ![j].status = "resolved"]
           \/ alert' = [alert EXCEPT ![j].deleted = TRUE]
    BY <1>6 DEF Acknowledge, Resolve, SetStatus, SoftDelete
  <2>2. \A i \in Id : /\ alert'[i].key = alert[i].key
                      /\ alert'[i].status = "absent" <=> alert[i].status = "absent"
                      /\ alert'[i].status = "open" => alert[i].status = "open"
    BY <1>0, <2>1 DEF TypeOK, Alert
  <2> QED BY <1>6, <2>2, CloseRefines DEF Acknowledge, Resolve, SetStatus, SoftDelete
<1>7. ASSUME Tick PROVE Abs!Next
  <2>1. \A i \in Id : alert'[i] = [alert[i] EXCEPT !.elapsed = Later(alert[i].elapsed)]
    BY <1>7 DEF Tick
  <2>2. \A i \in Id : alert[i] \in Alert
    BY <1>0 DEF TypeOK
  <2>3. \A i \in Id : alert'[i].status = alert[i].status /\ alert'[i].key = alert[i].key
    BY <2>1, <2>2 DEF Alert
  <2>4. notified' = notified
    BY <1>7 DEF Tick
  <2> QED BY <2>3, <2>4, CloseRefines
<1> DEFINE Goal == [Abs!Next]_(Abs!vars)
<1>8. (Abs!Next => Goal) /\ (UNCHANGED Abs!vars => Goal)
  OBVIOUS
<1> HIDE DEF Goal
<1>9. ASSUME NEW w \in Worker, Step(w) PROVE Goal
  <2>1. CASE Insert(w)
    BY <1>1, <1>8, <2>1
  <2>2. CASE FanOut(w)
    BY <1>2, <1>8, <2>2
  <2>3. CASE Stamp(w) /\ ~ Insert(w)
    BY <1>4, <1>8, <2>3
  <2>4. CASE ~ (Insert(w) \/ FanOut(w) \/ Stamp(w))
    <3>1. alert' = alert /\ notified' = notified
      BY <1>9, <2>4 DEF Step, Get, GetMultiple, InsertConflict, Reget, First, ReturnNone, Refresh
    <3> QED BY <1>3, <1>8, <3>1
  <2> QED BY <2>1, <2>2, <2>3, <2>4
<1>10. ASSUME \/ \E w \in Worker, k \in Key : Raise(w, k)
              \/ \E w \in Worker : Abort(w)
              \/ UNCHANGED vars
       PROVE  Goal
  <2>1. alert' = alert /\ notified' = notified
    BY <1>10 DEF Raise, Abort, vars
  <2> QED BY <1>3, <1>8, <2>1
<1>11. Goal
  BY <1>5, <1>6, <1>7, <1>8, <1>9, <1>10 DEF Next
<1> QED BY <1>11 DEF Goal

\* An empty table is AlertSpec's initial state.
LEMMA InitRefines == Init => Abs!Init
<1> SUFFICES ASSUME Init PROVE Abs!Init
  OBVIOUS
<1>1. absLife = [i \in Id |-> "none"] /\ absKey = [i \in Id |-> None]
  BY DEF Init, NoAlert, absLife, absKey
<1> QED BY <1>1 DEF Init, Abs!Init

\* raise_alert with all its races, the reviewers, the admin and the clock
\* implement the abstract alerts.
THEOREM Refinement == Spec => ImplementsAlertSpec
BY Inductive, InitRefines, StepRefines, PTL DEF Spec, ImplementsAlertSpec, Abs!Spec
=============================================================================
