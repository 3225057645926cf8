------------------------ MODULE DeviceLivenessProofs ------------------------
(***************************************************************************)
(* Proofs about DeviceLiveness: type correctness and a dashboard and an audit *)
(* trail that recover, for any number of writers, and agreement of both with *)
(* the row when saves do not overlap and none fails.                         *)
(***************************************************************************)
EXTENDS DeviceLiveness, TLAPS

USE DEF DeviceStatus

\* The saturating age stays in its range.
LEMMA OlderType == ASSUME NEW n \in Silence PROVE Older(n) \in Silence
  BY WindowAssumption DEF Silence, Older

\* Starting a save keeps the types.
LEMMA LoadType ==
  ASSUME NEW w \in Writer, NEW job \in Job, NEW status \in DeviceStatus,
         NEW silent \in Silence, TypeOK, Load(w, job, status, silent)
  PROVE  TypeOK'
  BY WindowAssumption DEF TypeOK, Load, Save, Job, Resting, Silence

\* Each way to start a save keeps the types.
LEMMA BeginType ==
  ASSUME NEW w \in Writer, TypeOK, Begin(w)
  PROVE  TypeOK'
  <1>d. dev.status \in DeviceStatus /\ dev.silent \in Silence
    BY DEF TypeOK, Device
  <1>z. 0 \in Silence
    BY WindowAssumption DEF Silence
  <1>r. Resting.silent \in Silence
    BY WindowAssumption DEF Silence, Resting
  <1>1. ASSUME NEW lag \in Lag, Ingest(w, lag) PROVE TypeOK'
    <2>1. lag \in Silence
      BY LagAssumption, WindowAssumption DEF Silence
    <2> QED BY <1>1, <1>d, <2>1, LoadType DEF Ingest, Wake, Job
  <1>2. ASSUME NEW status \in Reported, ReportStatus(w, status) PROVE TypeOK'
    BY <1>2, <1>z, StatusAssumption, LoadType DEF ReportStatus, Job
  <1>3. CASE ReportSeen(w)
    BY <1>3, <1>d, <1>z, LoadType DEF ReportSeen, Wake, Job
  <1>4. CASE Detect(w)
    BY <1>4, <1>r, LoadType DEF Detect, Job
  <1>5. CASE Rollup(w)
    BY <1>5, <1>d, <1>r, LoadType DEF Rollup, Job
  <1>6. CASE Patch(w)
    BY <1>6, <1>d, LoadType DEF Patch, Job
  <1>7. ASSUME NEW status \in Edited, AdminEdit(w, status) PROVE TypeOK'
    BY <1>7, <1>d, StatusAssumption, LoadType DEF AdminEdit, Job
  <1> QED BY <1>1, <1>2, <1>3, <1>4, <1>5, <1>6, <1>7 DEF Begin

\* Each statement of a save keeps the types.
LEMMA SaveType ==
  ASSUME NEW w \in Writer, TypeOK, SaveStep(w) \/ Fail(w)
  PROVE  TypeOK'
  <1>r. Resting \in Save
    BY WindowAssumption DEF Resting, Save, Job, Silence
  <1>w. wr[w] \in Save
    BY DEF TypeOK
  <1>1. CASE PreSave(w)
    BY <1>1, <1>w DEF TypeOK, PreSave, Save, Device
  <1>2. CASE Write(w)
    <2>1. Saved(dev, wr[w]) \in Device
      BY <1>w DEF TypeOK, Saved, Save, Device
    <2>2. Resting.silent \in Silence
      BY <1>r DEF Save
    <2>3. wr' \in [Writer -> Save]
      BY <1>2, <1>w, <2>2 DEF TypeOK, Write, Save
    <2>4. alerted' \in BOOLEAN
      BY <1>2 DEF Write
    <2> QED BY <1>2, <2>1, <2>3, <2>4 DEF TypeOK, Write
  <1>3. CASE Audit(w)
    BY <1>3, <1>w DEF TypeOK, Audit, Save, Resting
  <1>4. CASE Cast(w)
    BY <1>4, <1>w, <1>r DEF TypeOK, Cast, Save
  <1>5. CASE RaiseAlert(w)
    BY <1>5, <1>w, <1>r DEF TypeOK, RaiseAlert
  <1>6. CASE Fail(w)
    BY <1>6, <1>w, <1>r DEF TypeOK, Fail
  <1> QED BY <1>1, <1>2, <1>3, <1>4, <1>5, <1>6 DEF SaveStep

\* Time keeps the types.
LEMMA TickType == ASSUME TypeOK, Tick PROVE TypeOK'
  <1>1. dev' \in Device
    BY OlderType DEF TypeOK, Tick, Device
  <1>2. wr' \in [Writer -> Save]
    BY OlderType DEF TypeOK, Tick, Save
  <1> QED BY <1>1, <1>2 DEF TypeOK, Tick

\* The initial state and every step have the right types.
LEMMA TypeSteps ==
  /\ Init => TypeOK
  /\ TypeOK /\ [Next]_vars => TypeOK'
  <1>1. Init => TypeOK
    BY WindowAssumption DEF Init, TypeOK, Device, Save, Job, Silence, Resting
  <1>2. TypeOK /\ Next => TypeOK'
    BY BeginType, SaveType, TickType DEF Next, Work
  <1>3. TypeOK /\ UNCHANGED vars => TypeOK'
    BY DEF TypeOK, vars
  <1> QED BY <1>1, <1>2, <1>3

\* The writers, whatever their number and wherever they fail, keep the row and
\* the trail well typed.
THEOREM TypeCorrect == Spec => []TypeOK
  BY TypeSteps, PTL DEF Spec

-----------------------------------------------------------------------------
\* One process saves the device at a time.
Sequential == \E v : Writer = {v}

\* What the statements already run have established.
Progress(w) ==
    /\ wr[w].pc \in {"idle", "pre", "write", "alert"} =>
           trail = dev.status /\ shown = dev.status
    /\ wr[w].pc \in {"pre", "write"} /\ wr[w].job = "rollup" => wr[w].status = dev.status
    /\ wr[w].pc = "write" => wr[w].prev = dev.status
    /\ wr[w].pc = "audit" => wr[w].status = dev.status /\ trail = wr[w].prev
    /\ wr[w].pc = "cast" => wr[w].status = dev.status /\ trail = dev.status

SyncInv == TypeOK /\ \A w \in Writer : Progress(w)

\* A save that starts from agreement keeps it.
LEMMA LoadProgress ==
  ASSUME NEW w \in Writer, NEW job \in Job, NEW status \in DeviceStatus,
         NEW silent \in Silence, TypeOK, Progress(w), Load(w, job, status, silent),
         job = "rollup" => status = dev.status
  PROVE  Progress(w)'
  BY DEF TypeOK, Save, Progress, Load

\* Each way to start a save keeps Progress.
LEMMA BeginProgress ==
  ASSUME NEW w \in Writer, TypeOK, Progress(w), Begin(w)
  PROVE  Progress(w)'
  <1>d. dev.status \in DeviceStatus /\ dev.silent \in Silence
    BY DEF TypeOK, Device
  <1>z. 0 \in Silence
    BY WindowAssumption DEF Silence
  <1>r. Resting.silent \in Silence
    BY WindowAssumption DEF Silence, Resting
  <1>1. ASSUME NEW lag \in Lag, Ingest(w, lag) PROVE Progress(w)'
    <2>1. lag \in Silence
      BY LagAssumption, WindowAssumption DEF Silence
    <2> QED BY <1>1, <1>d, <2>1, LoadProgress DEF Ingest, Wake, Job
  <1>2. ASSUME NEW status \in Reported, ReportStatus(w, status) PROVE Progress(w)'
    BY <1>2, <1>z, StatusAssumption, LoadProgress DEF ReportStatus, Job
  <1>3. CASE ReportSeen(w)
    BY <1>3, <1>d, <1>z, LoadProgress DEF ReportSeen, Wake, Job
  <1>4. CASE Detect(w)
    BY <1>4, <1>r, LoadProgress DEF Detect, Job
  <1>5. CASE Rollup(w)
    BY <1>5, <1>d, <1>r, LoadProgress DEF Rollup, Job
  <1>6. CASE Patch(w)
    BY <1>6, <1>d, LoadProgress DEF Patch, Job
  <1>7. ASSUME NEW status \in Edited, AdminEdit(w, status) PROVE Progress(w)'
    BY <1>7, <1>d, StatusAssumption, LoadProgress DEF AdminEdit, Job
  <1> QED BY <1>1, <1>2, <1>3, <1>4, <1>5, <1>6, <1>7 DEF Begin

\* Each statement of a save establishes the next part of Progress.
LEMMA SaveProgress ==
  ASSUME NEW w \in Writer, TypeOK, Progress(w), SaveStep(w)
  PROVE  Progress(w)'
  <1>w. wr[w] \in Save /\ wr \in [Writer -> Save] /\ dev \in Device
    BY DEF TypeOK
  <1>1. CASE PreSave(w)
    BY <1>1, <1>w DEF PreSave, Save, Progress
  <1>2. CASE Write(w)
    <2>1. dev'.status = wr[w].status
      BY <1>2, <1>w DEF Write, Saved, WritesStatus, Progress
    <2> QED BY <1>2, <1>w, <2>1 DEF Write, Save, Progress
  <1>3. CASE Audit(w)
    BY <1>3, <1>w DEF Audit, Save, Progress
  <1>4. CASE Cast(w)
    BY <1>4, <1>w DEF Cast, Save, Progress, Resting
  <1>5. CASE RaiseAlert(w)
    BY <1>5, <1>w DEF RaiseAlert, Progress, Resting
  <1> QED BY <1>1, <1>2, <1>3, <1>4, <1>5 DEF SaveStep

\* Time changes no status.
LEMMA TickProgress ==
  ASSUME NEW w \in Writer, TypeOK, Progress(w), Tick
  PROVE  Progress(w)'
  <1>1. /\ wr'[w].pc = wr[w].pc /\ wr'[w].job = wr[w].job
        /\ wr'[w].status = wr[w].status /\ wr'[w].prev = wr[w].prev
        /\ dev'.status = dev.status
    BY DEF TypeOK, Tick, Save, Device
  <1> QED BY <1>1 DEF Progress, Tick

\* With one process saving at a time and no exception, the audit trail and the
\* dashboard agree with the row whenever no save is under way, for every window,
\* payload age, reported status and edit.
THEOREM SequentialSync == Sequential /\ CalmSpec => []InSync
  <1>1. Init => SyncInv
    BY TypeSteps DEF Init, SyncInv, Progress, Resting
  <1>2. Sequential /\ SyncInv /\ [Work]_vars => SyncInv'
    <2> SUFFICES ASSUME Sequential, SyncInv, [Work]_vars PROVE SyncInv'
      OBVIOUS
    <2>1. TypeOK'
      BY TypeSteps DEF SyncInv, Next
    <2>2. ASSUME NEW w \in Writer PROVE Progress(w)'
      <3>1. CASE Tick
        BY <3>1, TickProgress DEF SyncInv
      <3>2. CASE UNCHANGED vars
        BY <3>2 DEF SyncInv, vars, Progress
      <3>3. CASE \E u \in Writer : Begin(u) \/ SaveStep(u)
        BY <3>3, BeginProgress, SaveProgress DEF SyncInv, Sequential
      <3> QED BY <3>1, <3>2, <3>3 DEF Work
    <2> QED BY <2>1, <2>2 DEF SyncInv
  <1>3. Sequential /\ SyncInv => InSync
    BY DEF Sequential, SyncInv, Progress, InSync
  <1>4. Sequential => Sequential'
    BY DEF Sequential
  <1> QED BY <1>1, <1>2, <1>3, <1>4, PTL DEF CalmSpec

-----------------------------------------------------------------------------
\* What a save that has the row to itself has established so far.
Restored(w) ==
    /\ wr[w].pc \in {"pre", "write"} /\ wr[w].job = "rollup" => wr[w].status = dev.status
    /\ wr[w].pc \in {"audit", "cast"} => wr[w].status = dev.status
    /\ wr[w].pc = "alert" => shown = dev.status

Idle == \A w \in Writer : wr[w].pc = "idle"
OneBusy == \A v, w \in Writer : wr[v].pc # "idle" /\ wr[w].pc # "idle" => v = w

RecoverInv ==
    /\ TypeOK
    /\ alone => OneBusy /\ (\A w \in Writer : Restored(w)) /\ (Idle => shown = dev.status)

\* A save that starts while nobody else saves has the row to itself.
LEMMA LoadRestored ==
  ASSUME NEW w \in Writer, NEW job \in Job, NEW status, NEW silent,
         TypeOK, Load(w, job, status, silent), job = "rollup" => status = dev.status, alone'
  PROVE  OneBusy' /\ (\A v \in Writer : Restored(v)') /\ ~ Idle'
  <1>1. /\ wr'[w].pc = "pre" /\ wr'[w].job = job /\ wr'[w].status = status
        /\ \A v \in Writer : v # w => wr'[v].pc = "idle"
        /\ dev' = dev
    BY DEF TypeOK, Load
  <1>2. OneBusy' /\ ~ Idle'
    BY <1>1 DEF OneBusy, Idle
  <1>3. ASSUME NEW v \in Writer PROVE Restored(v)'
    BY <1>1 DEF Restored
  <1> QED BY <1>2, <1>3

\* Each way to start a save.
LEMMA BeginRestored ==
  ASSUME NEW w \in Writer, TypeOK, Begin(w), alone'
  PROVE  OneBusy' /\ (\A v \in Writer : Restored(v)') /\ ~ Idle'
  <1>1. \E job \in Job : \E status, silent :
           Load(w, job, status, silent) /\ (job = "rollup" => status = dev.status)
    <2>1. CASE Rollup(w)
      BY <2>1 DEF Rollup, Job
    <2>2. CASE ~ Rollup(w)
      BY <2>2 DEF Begin, Ingest, ReportStatus, ReportSeen, Detect, Patch, AdminEdit, Job
    <2> QED BY <2>1, <2>2
  <1> QED BY <1>1, LoadRestored

\* What a save that has the row to itself does next.
LEMMA SaveRestored ==
  ASSUME NEW w \in Writer, RecoverInv, SaveStep(w), alone'
  PROVE  OneBusy' /\ (\A v \in Writer : Restored(v)') /\ (Idle' => shown' = dev'.status)
  <1>w. wr[w] \in Save /\ wr \in [Writer -> Save] /\ dev \in Device
    BY DEF RecoverInv, TypeOK
  <1>1. alone /\ wr[w].pc # "idle"
    BY DEF SaveStep, PreSave, Write, Audit, Cast, RaiseAlert
  <1>2. Restored(w) /\ \A v \in Writer : v # w => wr[v].pc = "idle"
    BY <1>1 DEF RecoverInv, OneBusy
  <1>3. ASSUME NEW v \in Writer, v # w PROVE wr'[v] = wr[v]
    BY <1>3, <1>w DEF SaveStep, PreSave, Write, Audit, Cast, RaiseAlert
  <1>4. Restored(w)' /\ (wr'[w].pc = "idle" => shown' = dev'.status)
    <2>1. CASE PreSave(w)
      BY <2>1, <1>w, <1>2 DEF PreSave, Save, Restored
    <2>2. CASE Write(w)
      <3>1. dev'.status = wr[w].status
        BY <2>2, <1>w, <1>2 DEF Write, Saved, WritesStatus, Restored
      <3>2. wr'[w].status = wr[w].status /\ wr'[w].pc = "audit"
        BY <2>2, <1>w DEF Write, Save
      <3> QED BY <3>1, <3>2 DEF Restored
    <2>3. CASE Audit(w)
      BY <2>3, <1>w, <1>2 DEF Audit, Save, Restored
    <2>4. CASE Cast(w)
      <3>1. wr[w].status = dev.status /\ dev' = dev /\ shown' = wr[w].status
        BY <2>4, <1>2 DEF Cast, Restored
      <3>2. wr'[w].pc \in {"alert", "idle"}
        BY <2>4, <1>w DEF Cast, Save, Resting
      <3> QED BY <3>1, <3>2 DEF Restored
    <2>5. CASE RaiseAlert(w)
      <3>1. wr'[w].pc = "idle" /\ shown' = shown /\ dev' = dev /\ shown = dev.status
        BY <2>5, <1>w, <1>2 DEF RaiseAlert, Resting, Restored
      <3> QED BY <3>1 DEF Restored
    <2> QED BY <2>1, <2>2, <2>3, <2>4, <2>5 DEF SaveStep
  <1>5. ASSUME NEW v \in Writer, v # w PROVE Restored(v)'
    BY <1>2, <1>3, <1>5 DEF Restored
  <1>6. OneBusy'
    BY <1>2, <1>3 DEF OneBusy
  <1> QED BY <1>4, <1>5, <1>6 DEF Idle

\* Time changes no status.
LEMMA TickRestored ==
  ASSUME RecoverInv, Tick, alone'
  PROVE  OneBusy' /\ (\A v \in Writer : Restored(v)') /\ (Idle' => shown' = dev'.status)
  <1>1. dev'.status = dev.status /\ shown' = shown /\ alone
    BY DEF Tick, RecoverInv, TypeOK, Device
  <1>2. ASSUME NEW v \in Writer
        PROVE  wr'[v].pc = wr[v].pc /\ wr'[v].job = wr[v].job /\ wr'[v].status = wr[v].status
    BY DEF Tick, RecoverInv, TypeOK, Save
  <1>3. OneBusy'
    BY <1>1, <1>2 DEF RecoverInv, OneBusy
  <1>4. ASSUME NEW v \in Writer PROVE Restored(v)'
    BY <1>1, <1>2 DEF RecoverInv, Restored
  <1>5. Idle' => Idle
    BY <1>2 DEF Idle
  <1> QED BY <1>1, <1>3, <1>4, <1>5 DEF RecoverInv

\* The invariant about the dashboard is inductive.
LEMMA RecoverSteps ==
  /\ Init => RecoverInv
  /\ RecoverInv /\ [Next]_vars => RecoverInv'
  <1>1. Init => RecoverInv
    BY TypeSteps DEF Init, RecoverInv, OneBusy, Restored, Idle, Resting
  <1>2. RecoverInv /\ [Next]_vars => RecoverInv'
    <2> SUFFICES ASSUME RecoverInv, [Next]_vars PROVE RecoverInv'
      OBVIOUS
    <2>1. TypeOK'
      BY TypeSteps DEF RecoverInv
    <2>2. SUFFICES ASSUME alone'
                   PROVE  OneBusy' /\ (\A v \in Writer : Restored(v)') /\ (Idle' => shown' = dev'.status)
      BY <2>1 DEF RecoverInv
    <2>3. ASSUME NEW w \in Writer, Begin(w) \/ SaveStep(w)
          PROVE  OneBusy' /\ (\A v \in Writer : Restored(v)') /\ (Idle' => shown' = dev'.status)
      BY <2>2, <2>3, BeginRestored, SaveRestored DEF RecoverInv
    <2>4. \A w \in Writer : ~ Fail(w)
      BY <2>2 DEF Fail
    <2>5. CASE UNCHANGED vars
      BY <2>2, <2>5 DEF RecoverInv, vars, OneBusy, Restored, Idle
    <2> QED BY <2>2, <2>3, <2>4, <2>5, TickRestored DEF Next, Work
  <1> QED BY <1>1, <1>2

\* For any number of processes that save the device, with exceptions and
\* crashes: the dashboard is right after each save nobody overlapped.
THEOREM DashboardRecovers == Spec => []ShownRecovers
  <1>1. RecoverInv => ShownRecovers
    BY DEF RecoverInv, ShownRecovers, Idle
  <1> QED BY <1>1, RecoverSteps, PTL DEF Spec

-----------------------------------------------------------------------------
\* What the trail has to do with the save that has the row to itself: until the
\* audit record is written it ends with the status before the save.
Remembered(w) == wr[w].pc = "write" => wr[w].prev = dev.status
Trailed ==
    /\ \A w \in Writer : wr[w].pc = "audit" => trail = wr[w].prev
    /\ (\A w \in Writer : wr[w].pc # "audit") => trail = dev.status

TrailInv ==
    /\ RecoverInv
    /\ alone => \A w \in Writer : Remembered(w)
    /\ traced => alone /\ Trailed

\* A save that starts touches neither the trail nor the row.
LEMMA BeginTrailed ==
  ASSUME NEW w \in Writer, TrailInv, Begin(w), alone'
  PROVE  (\A v \in Writer : Remembered(v)') /\ (traced' => Trailed')
  <1>1. PICK job, status, silent : Load(w, job, status, silent)
    BY DEF Begin, Ingest, ReportStatus, ReportSeen, Rollup, Detect, Patch, AdminEdit
  <1>2. \A v \in Writer : wr[v].pc = "idle"
    BY <1>1 DEF Load
  <1>3. wr'[w].pc = "pre" /\ \A v \in Writer : v # w => wr'[v].pc = "idle"
    BY <1>1, <1>2 DEF Load, TrailInv, RecoverInv, TypeOK
  <1>4. dev' = dev /\ trail' = trail /\ (traced' => traced)
    BY <1>1 DEF Load
  <1>5. traced => trail = dev.status
    BY <1>2 DEF TrailInv, Trailed
  <1>6. \A v \in Writer : wr'[v].pc \notin {"write", "audit"}
    BY <1>3
  <1> QED BY <1>4, <1>5, <1>6 DEF Remembered, Trailed

\* The statements of a save: remember, write, audit.
LEMMA SaveTrailed ==
  ASSUME NEW w \in Writer, TrailInv, SaveStep(w), alone'
  PROVE  (\A v \in Writer : Remembered(v)') /\ (traced' => Trailed')
  <1>w. wr[w] \in Save /\ wr \in [Writer -> Save] /\ dev \in Device
    BY DEF TrailInv, RecoverInv, TypeOK
  <1>1. alone /\ wr[w].pc # "idle"
    BY DEF SaveStep, PreSave, Write, Audit, Cast, RaiseAlert
  <1>2. Restored(w) /\ Remembered(w) /\ \A v \in Writer : v # w => wr[v].pc = "idle"
    BY <1>1 DEF TrailInv, RecoverInv, OneBusy
  <1>3. \A v \in Writer : v # w => wr'[v].pc = "idle"
    BY <1>2, <1>w DEF SaveStep, PreSave, Write, Audit, Cast, RaiseAlert
  <1>4. CASE PreSave(w)
    <2>1. wr'[w].pc = "write" /\ wr'[w].prev = dev.status /\ dev' = dev /\ trail' = trail /\ traced' = traced
      BY <1>4, <1>w DEF PreSave, Save
    <2>2. wr[w].pc = "pre"
      BY <1>4 DEF PreSave
    <2>3. traced => trail = dev.status
      BY <1>2, <2>2 DEF TrailInv, Trailed
    <2> QED BY <1>3, <2>1, <2>3 DEF Remembered, Trailed
  <1>5. CASE Write(w)
    <2>1. wr'[w].pc = "audit" /\ wr'[w].prev = wr[w].prev /\ trail' = trail /\ traced' = traced
      BY <1>5, <1>w DEF Write, Save
    <2>2. wr[w].pc = "write" /\ wr[w].prev = dev.status
      BY <1>2, <1>5 DEF Write, Remembered
    <2>3. traced => trail = dev.status
      BY <1>2, <2>2 DEF TrailInv, Trailed
    <2> QED BY <1>3, <2>1, <2>2, <2>3 DEF Remembered, Trailed
  <1>6. CASE Audit(w)
    <2>1. /\ wr'[w].pc = "cast" /\ dev' = dev
          /\ trail' = IF wr[w].prev # wr[w].status THEN wr[w].status ELSE trail
          /\ traced' => traced \/ wr[w].prev # wr[w].status
      BY <1>6, <1>w DEF Audit, Save
    <2>2. wr[w].pc = "audit" /\ wr[w].status = dev.status
      BY <1>2, <1>6 DEF Audit, Restored
    <2>3. traced => trail = wr[w].prev
      BY <2>2 DEF TrailInv, Trailed
    <2>4. traced' => trail' = dev'.status
      BY <2>1, <2>2, <2>3
    <2> QED BY <1>3, <2>1, <2>4 DEF Remembered, Trailed
  <1>7. CASE Cast(w) \/ RaiseAlert(w)
    <2>1. dev' = dev /\ trail' = trail /\ traced' = traced
      BY <1>7 DEF Cast, RaiseAlert
    <2>2. wr'[w].pc \in {"alert", "idle"}
      <3>1. CASE Cast(w)
        BY <3>1, <1>w DEF Cast, Save, Resting
      <3>2. CASE RaiseAlert(w)
        BY <3>2, <1>w DEF RaiseAlert, Save, Resting
      <3> QED BY <1>7, <3>1, <3>2
    <2>3. wr[w].pc \in {"cast", "alert"}
      BY <1>7 DEF Cast, RaiseAlert
    <2>4. traced => trail = dev.status
      BY <1>2, <2>3 DEF TrailInv, Trailed
    <2> QED BY <1>3, <2>1, <2>2, <2>4 DEF Remembered, Trailed
  <1> QED BY <1>4, <1>5, <1>6, <1>7 DEF SaveStep

\* Time changes no status.
LEMMA TickTrailed ==
  ASSUME TrailInv, Tick, alone'
  PROVE  (\A v \in Writer : Remembered(v)') /\ (traced' => Trailed')
  <1>1. dev'.status = dev.status /\ trail' = trail /\ traced' = traced /\ alone
    BY DEF Tick, TrailInv, RecoverInv, TypeOK, Device
  <1>2. ASSUME NEW v \in Writer PROVE wr'[v].pc = wr[v].pc /\ wr'[v].prev = wr[v].prev
    BY DEF Tick, TrailInv, RecoverInv, TypeOK, Save
  <1> QED BY <1>1, <1>2 DEF TrailInv, Remembered, Trailed

\* A trail is only trusted while saves have the row to themselves.
LEMMA TracedAlone ==
  ASSUME TrailInv, [Next]_vars
  PROVE  traced' => alone'
  <1>1. CASE \E w \in Writer : Begin(w)
    BY <1>1 DEF Begin, Ingest, ReportStatus, ReportSeen, Rollup, Detect, Patch, AdminEdit, Load
  <1>2. ASSUME NEW w \in Writer, SaveStep(w) PROVE traced' => alone'
    <2>1. CASE Audit(w)
      BY <2>1 DEF TrailInv, Audit
    <2>2. CASE PreSave(w) \/ Write(w) \/ Cast(w) \/ RaiseAlert(w)
      <3>1. traced' = traced /\ alone' = alone
        BY <2>2 DEF PreSave, Write, Cast, RaiseAlert
      <3> QED BY <3>1 DEF TrailInv
    <2> QED BY <1>2, <2>1, <2>2 DEF SaveStep
  <1>3. CASE \E w \in Writer : Fail(w)
    BY <1>3 DEF Fail
  <1>4. CASE Tick \/ UNCHANGED vars
    BY <1>4 DEF TrailInv, Tick, vars
  <1> QED BY <1>1, <1>2, <1>3, <1>4 DEF Next, Work

\* For any number of processes that save the device, with exceptions and
\* crashes: the first transition nobody overlaps puts the audit trail right, and
\* it stays right until saves overlap or fail again.
THEOREM TrailIsRepaired == Spec => []TrailRecovers
  <1>1. Init => TrailInv
    BY RecoverSteps DEF Init, TrailInv, Remembered, Trailed, Resting
  <1>2. TrailInv /\ [Next]_vars => TrailInv'
    <2> SUFFICES ASSUME TrailInv, [Next]_vars PROVE TrailInv'
      OBVIOUS
    <2>1. RecoverInv' /\ (traced' => alone')
      BY RecoverSteps, TracedAlone DEF TrailInv
    <2>2. ASSUME alone' PROVE (\A v \in Writer : Remembered(v)') /\ (traced' => Trailed')
      <3>1. \A w \in Writer : ~ Fail(w)
        BY <2>2 DEF Fail
      <3>2. CASE UNCHANGED vars
        BY <2>2, <3>2 DEF TrailInv, vars, Remembered, Trailed
      <3> QED BY <2>2, <3>1, <3>2, BeginTrailed, SaveTrailed, TickTrailed DEF Next, Work
    <2> QED BY <2>1, <2>2 DEF TrailInv
  <1>3. TrailInv => TrailRecovers
    BY DEF TrailInv, Trailed, TrailRecovers
  <1> QED BY <1>1, <1>2, <1>3, PTL DEF Spec
=============================================================================
