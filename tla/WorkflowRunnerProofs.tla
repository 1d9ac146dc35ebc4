------------------------ MODULE WorkflowRunnerProofs ------------------------
(***************************************************************************)
(* Proofs about the workflow runner, for any number of steps, gates,       *)
(* drivers and operators, whatever drivers overlap, die or lose a store    *)
(* call, and for any bound on how often.                                   *)
(*                                                                         *)
(* A driver works from a snapshot of the rows.  What it concluded from it  *)
(* stays true, for gates are only appended and decided once, and a turn    *)
(* that ended stays ended (Grown).  While nobody overlaps, the snapshot    *)
(* also agrees with the table but for the step the driver stands at        *)
(* (Agrees), so that what a gate showed is still what the rows hold; what  *)
(* was sent stands on completed rows, and each step is sent and asked      *)
(* about once but for the troubles (WholeInv).                             *)
(***************************************************************************)
EXTENDS WorkflowRunner, FiniteSetTheorems, WellFoundedInduction, TLAPS

LEMMA NatMin ==
  ASSUME NEW T \in SUBSET Nat, T # {}
  PROVE  \E x \in T : \A y \in T : x <= y
<1>1. PICK x \in T : \A y \in T : <<y, x>> \notin OpToRel(<, Nat)
  BY WFMin, NatLessThanWellFounded, Zenon
<1>2. \A y \in T : ~ (y < x)
  BY <1>1, Zenon DEF OpToRel
<1> QED
  BY <1>2

GateType == [step : Step, status : Choice \cup {"pending"}, shown : Seq(Nat)]
TurnType == [step : Step, gate : Nat, quotes : Seq(Nat), pauses : Nat,
             phase : {"open", "paused", "answered", "broken"}]
DriverType == [pc : Pc, done : [Step -> Row], at : Nat]

(* A row, or a snapshot of one: what it names is there, and is its step's. *)
RecFine(rec, i, gs, ts) ==
    /\ rec.awaiting # "none" <=> rec.status = "awaiting_approval"
    /\ rec.gate # 0 => rec.gate \in 1..Len(gs) /\ gs[rec.gate].step = i
    /\ rec.turn # 0 => rec.turn \in 1..Len(ts) /\ ts[rec.turn].step = i
    /\ rec.output # 0 => /\ rec.output \in 1..Len(ts) /\ ts[rec.output].step = i
                         /\ ts[rec.output].phase # "open"
    /\ rec.status = "completed" => rec.output # 0
    /\ rec.awaiting = "tool" => rec.turn # 0

RowsFine(rows, gs, ts) == \A i \in Step : RecFine(rows[i], i, gs, ts)

(* Gate g let step i through, and showed what is quoted. *)
LetThrough(g, i, quotes, gs, o) ==
    /\ g \in 1..Len(gs) /\ gs[g].step = i
    /\ gs[g].status = "approved" \/ ChangesIgnored(gs[g])
    /\ o = 0 => gs[g].shown = quotes

(* Every turn quotes an ended turn of each step before it, and passed its gate. *)
TurnsFine(gs, ts, o) ==
    \A t \in 1..Len(ts) :
      /\ \A j \in 1..(ts[t].step - 1) :
           /\ ts[t].quotes[j] \in 1..Len(ts)
           /\ ts[ts[t].quotes[j]].step = j /\ ts[ts[t].quotes[j]].phase # "open"
      /\ ts[t].gate # 0 => ts[t].gate \in 1..Len(gs)
      /\ ts[t].step \in GatedSteps =>
           LetThrough(ts[t].gate, ts[t].step, ts[t].quotes, gs, o)

OnStep == {"gating", "asking", "noting", "sending", "running", "resuming", "continuing",
           "recording", "pausing", "skipping", "failing"}

(* What a driver's stage says of what it holds. *)
DriverFine(me, gs, ts, o) ==
    /\ RowsFine(me.done, gs, ts)
    /\ me.pc \in OnStep => Left(me.done) # {}
    /\ me.pc = "gating" => me.done[At(me.done)].gate # 0
    /\ me.pc = "resuming" => me.done[At(me.done)].turn # 0
    /\ me.pc = "noting" => /\ me.at \in 1..Len(gs) /\ gs[me.at].step = At(me.done)
                           /\ gs[me.at].shown = Quotes(me.done, At(me.done))
    /\ me.pc \in {"running", "continuing", "recording", "pausing"} =>
         me.at \in 1..Len(ts) /\ ts[me.at].step = At(me.done)
    /\ me.pc = "recording" => ts[me.at].phase # "open"
    /\ me.pc = "sending" /\ At(me.done) \in GatedSteps =>
         LetThrough(me.done[At(me.done)].gate, At(me.done), Quotes(me.done, At(me.done)), gs, o)
    /\ o = 0 /\ me.pc \notin {"idle", "reading"} =>
         \A i \in Step : me.done[i].gate # 0 =>
           gs[me.done[i].gate].shown = Quotes(me.done, i)

(* While nobody overlaps, a driver's snapshot is the table, but for its step. *)
Agrees(me, rows, o) ==
    o = 0 /\ me.pc \notin {"idle", "reading"} =>
      \A j \in Step :
        \/ rows[j] = me.done[j]
        \/ Left(me.done) # {} /\ j = At(me.done) /\ rows[j].status # "completed"

(* And a gate that is waited for showed what the table holds. *)
RowsShown(rows, gs, o) ==
    o = 0 => \A i \in Step : rows[i].gate # 0 =>
      /\ \A j \in 1..(i - 1) : rows[j].status = "completed"
      /\ gs[rows[i].gate].shown = Quotes(rows, i)

Solo ==
    /\ overlaps = 0 => \A d, e \in Driver :
         driver[d].pc # "idle" /\ driver[e].pc # "idle" => d = e
    /\ run = "absent" => \A d \in Driver : driver[d].pc = "idle"
    /\ overlaps = 0 /\ run \in Terminal => \A d \in Driver : driver[d].pc = "idle"

RunInv ==
    /\ TypeOK
    /\ RowsFine(row, gates, turns)
    /\ TurnsFine(gates, turns, overlaps)
    /\ RowsShown(row, gates, overlaps)
    /\ \A d \in Driver : /\ DriverFine(driver[d], gates, turns, overlaps)
                         /\ Agrees(driver[d], row, overlaps)
    /\ Solo

-----------------------------------------------------------------------------
(* The step a driver stands at: the first that is not completed. *)
LEMMA AtIsFirst ==
  ASSUME NEW done \in [Step -> Row], Left(done) # {}
  PROVE  /\ At(done) \in Step /\ done[At(done)].status # "completed"
         /\ \A j \in Step : j < At(done) => done[j].status = "completed"
<1>1. Left(done) \in SUBSET Nat
  BY DEF Left, Step
<1>2. \E i \in Left(done) : \A j \in Left(done) : i <= j
  BY <1>1, NatMin
<1>3. At(done) \in Left(done) /\ \A j \in Left(done) : At(done) <= j
  BY <1>2 DEF At
<1>4. \A j \in Step : j < At(done) => j \notin Left(done)
  BY <1>1, <1>3
<1> QED
  BY <1>3, <1>4 DEF Left, Over

LEMMA QuotesType ==
  ASSUME NEW done \in [Step -> Row], NEW i \in Step
  PROVE  /\ Quotes(done, i) \in Seq(Nat)
         /\ \A j \in 1..(i - 1) : Quotes(done, i)[j] = done[j].output /\ j \in Step
<1>1. \A j \in 1..(i - 1) : j \in Step /\ done[j].output \in Nat
  BY StepsAssumption DEF Step, Row
<1>2. Quotes(done, i) \in [1..(i - 1) -> Nat] /\ (i - 1) \in Nat
  BY <1>1, StepsAssumption DEF Quotes, Step
<1>3. Quotes(done, i) \in Seq(Nat)
  BY <1>2
<1> QED
  BY <1>1, <1>3 DEF Quotes

LEMMA NoRowIsFine ==
  ASSUME NEW i \in Step, NEW gs, NEW ts
  PROVE  NoRow \in Row /\ RecFine(NoRow, i, gs, ts) /\ NoRow.gate = 0 /\ NoRow.status = "absent"
BY DEF NoRow, Row, RecFine, StepStatus

LEMMA IdleIsFine ==
  ASSUME NEW gs, NEW ts, NEW o, NEW rows
  PROVE  Idle \in DriverType /\ Idle.pc = "idle" /\ DriverFine(Idle, gs, ts, o)
         /\ Agrees(Idle, rows, o)
<1>1. Idle \in DriverType /\ Idle.pc = "idle" /\ \A i \in Step : Idle.done[i] = NoRow
  BY NoRowIsFine DEF Idle, DriverType, Pc
<1> HIDE DEF Idle
<1>2. RowsFine(Idle.done, gs, ts)
  BY <1>1, NoRowIsFine DEF RowsFine
<1> QED
  BY <1>1, <1>2 DEF DriverFine, Agrees, OnStep

LEMMA InitHolds == Init => RunInv
<1> SUFFICES ASSUME Init PROVE RunInv
  OBVIOUS
<1>1. /\ gates = <<>> /\ gates \in Seq(GateType) /\ Len(gates) = 0
      /\ turns = <<>> /\ turns \in Seq(TurnType) /\ Len(turns) = 0
      /\ overlaps = 0 /\ overlaps \in 0..MaxOverlaps /\ troubles \in 0..MaxTroubles
      /\ run = "absent"
  BY BoundsAssumption DEF Init
<1>2. row \in [Step -> Row] /\ \A i \in Step : row[i] = NoRow
  BY NoRowIsFine DEF Init
<1>3. driver \in [Driver -> DriverType] /\ \A d \in Driver : driver[d] = Idle
  BY IdleIsFine DEF Init
<1>4. RowsFine(row, gates, turns)
  BY <1>2, NoRowIsFine DEF RowsFine
<1>5. TypeOK
  BY <1>1, <1>2, <1>3, <1>4
     DEF TypeOK, GateType, TurnType, DriverType, RunStatus, RowsFine, RecFine
<1>6. TurnsFine(gates, turns, overlaps)
  BY <1>1 DEF TurnsFine
<1>7. RowsShown(row, gates, overlaps)
  BY <1>2, NoRowIsFine DEF RowsShown
<1>8. Solo
  BY <1>1, <1>3, IdleIsFine DEF Solo, Terminal
<1>9. \A d \in Driver : /\ DriverFine(driver[d], gates, turns, overlaps)
                        /\ Agrees(driver[d], row, overlaps)
  BY <1>3, IdleIsFine, Zenon
<1> QED
  BY <1>4, <1>5, <1>6, <1>7, <1>8, <1>9 DEF RunInv

-----------------------------------------------------------------------------
(* Gates are appended, and decided once; a turn that ended stays ended. *)
GatesGrown(gs, hs) ==
    /\ gs \in Seq(GateType) /\ hs \in Seq(GateType) /\ Len(gs) <= Len(hs)
    /\ \A g \in 1..Len(gs) : /\ hs[g].step = gs[g].step /\ hs[g].shown = gs[g].shown
                             /\ gs[g].status # "pending" => hs[g].status = gs[g].status

TurnsGrown(ts, us) ==
    /\ ts \in Seq(TurnType) /\ us \in Seq(TurnType) /\ Len(ts) <= Len(us)
    /\ \A t \in 1..Len(ts) : /\ us[t].step = ts[t].step /\ us[t].quotes = ts[t].quotes
                             /\ us[t].gate = ts[t].gate
                             /\ ts[t].phase # "open" => us[t].phase # "open"

LEMMA SameGrown ==
  /\ \A gs \in Seq(GateType) : GatesGrown(gs, gs)
  /\ \A ts \in Seq(TurnType) : TurnsGrown(ts, ts)
BY DEF GatesGrown, TurnsGrown

LEMMA LetThroughStays ==
  ASSUME NEW gs, NEW hs, GatesGrown(gs, hs), NEW o \in Nat, NEW n \in Nat, o <= n,
         NEW g, NEW i, NEW quotes, LetThrough(g, i, quotes, gs, o)
  PROVE  LetThrough(g, i, quotes, hs, n)
<1>1. /\ g \in 1..Len(gs) /\ gs[g].step = i /\ gs[g].status # "pending"
      /\ gs[g].status = "approved" \/ ChangesIgnored(gs[g])
      /\ o = 0 => gs[g].shown = quotes
  BY DEF LetThrough, ChangesIgnored
<1>2. /\ g \in 1..Len(hs) /\ hs[g].step = i /\ hs[g].status = gs[g].status
      /\ hs[g].shown = gs[g].shown
  BY <1>1 DEF GatesGrown
<1>3. n = 0 => o = 0
  OBVIOUS
<1> QED
  BY <1>1, <1>2, <1>3 DEF LetThrough, ChangesIgnored

LEMMA RecStays ==
  ASSUME NEW gs, NEW hs, GatesGrown(gs, hs), NEW ts, NEW us, TurnsGrown(ts, us),
         NEW rec, NEW i, RecFine(rec, i, gs, ts)
  PROVE  RecFine(rec, i, hs, us)
<1>1. 1..Len(gs) \subseteq 1..Len(hs) /\ 1..Len(ts) \subseteq 1..Len(us)
  BY DEF GatesGrown, TurnsGrown
<1> QED
  BY <1>1 DEF RecFine, GatesGrown, TurnsGrown

LEMMA RowsStay ==
  ASSUME NEW gs, NEW hs, GatesGrown(gs, hs), NEW ts, NEW us, TurnsGrown(ts, us),
         NEW rows, RowsFine(rows, gs, ts)
  PROVE  RowsFine(rows, hs, us)
BY RecStays DEF RowsFine

LEMMA DriverStays ==
  ASSUME NEW gs, NEW hs, GatesGrown(gs, hs), NEW ts, NEW us, TurnsGrown(ts, us),
         NEW o \in Nat, NEW n \in Nat, o <= n, NEW me \in DriverType,
         DriverFine(me, gs, ts, o)
  PROVE  DriverFine(me, hs, us, n)
<1>1. 1..Len(gs) \subseteq 1..Len(hs) /\ 1..Len(ts) \subseteq 1..Len(us)
  BY DEF GatesGrown, TurnsGrown
<1>2. RowsFine(me.done, hs, us)
  BY RowsStay DEF DriverFine
<1>3. me.pc = "sending" /\ At(me.done) \in GatedSteps =>
         LetThrough(me.done[At(me.done)].gate, At(me.done), Quotes(me.done, At(me.done)), hs, n)
  BY LetThroughStays DEF DriverFine
<1>4. me.pc = "noting" => /\ me.at \in 1..Len(hs) /\ hs[me.at].step = At(me.done)
                          /\ hs[me.at].shown = Quotes(me.done, At(me.done))
  BY <1>1 DEF DriverFine, GatesGrown
<1>5. me.pc \in {"running", "continuing", "recording", "pausing"} =>
        me.at \in 1..Len(us) /\ us[me.at].step = At(me.done)
  BY <1>1 DEF DriverFine, TurnsGrown
<1>6. me.pc = "recording" => us[me.at].phase # "open"
  <2>1. me.pc = "recording" => me.at \in 1..Len(ts) /\ ts[me.at].phase # "open"
    BY DEF DriverFine
  <2> QED
    BY <2>1 DEF TurnsGrown
<1>7. n = 0 /\ me.pc \notin {"idle", "reading"} =>
        \A i \in Step : me.done[i].gate # 0 => hs[me.done[i].gate].shown = Quotes(me.done, i)
  <2>1. \A i \in Step : me.done[i].gate # 0 => me.done[i].gate \in 1..Len(gs)
    BY DEF DriverFine, RowsFine, RecFine
  <2>2. n = 0 => o = 0
    OBVIOUS
  <2> QED
    BY <2>1, <2>2 DEF DriverFine, GatesGrown
<1> QED
  BY <1>2, <1>3, <1>4, <1>5, <1>6, <1>7 DEF DriverFine

LEMMA TurnsStay ==
  ASSUME NEW gs, NEW hs, GatesGrown(gs, hs), NEW o \in Nat, NEW n \in Nat, o <= n,
         NEW ts, TurnsFine(gs, ts, o)
  PROVE  TurnsFine(hs, ts, n)
<1>1. 1..Len(gs) \subseteq 1..Len(hs)
  BY DEF GatesGrown
<1> QED
  BY <1>1, LetThroughStays DEF TurnsFine

(* What is known whenever a driver moves. *)
LEMMA Known ==
  ASSUME RunInv
  PROVE  /\ run \in RunStatus /\ row \in [Step -> Row] /\ gates \in Seq(GateType)
         /\ turns \in Seq(TurnType) /\ driver \in [Driver -> DriverType]
         /\ overlaps \in Nat /\ overlaps \in 0..MaxOverlaps
         /\ troubles \in Nat /\ troubles \in 0..MaxTroubles
         /\ GatesGrown(gates, gates) /\ TurnsGrown(turns, turns)
         /\ RowsFine(row, gates, turns) /\ RowsShown(row, gates, overlaps)
         /\ TurnsFine(gates, turns, overlaps)
<1>1. gates \in Seq(GateType) /\ turns \in Seq(TurnType) /\ driver \in [Driver -> DriverType]
  BY DEF RunInv, TypeOK, GateType, TurnType, DriverType
<1> QED
  BY <1>1, SameGrown, BoundsAssumption DEF RunInv, TypeOK

LEMMA DriverKnown ==
  ASSUME RunInv, NEW d \in Driver
  PROVE  /\ driver[d] \in DriverType /\ driver[d].done \in [Step -> Row] /\ driver[d].at \in Nat
         /\ DriverFine(driver[d], gates, turns, overlaps) /\ Agrees(driver[d], row, overlaps)
         /\ RowsFine(driver[d].done, gates, turns)
         /\ driver[d].pc \in OnStep => /\ Left(driver[d].done) # {}
                                       /\ At(driver[d].done) \in Step
                                       /\ driver[d].done[At(driver[d].done)].status # "completed"
<1>1. driver[d] \in DriverType /\ driver[d].done \in [Step -> Row] /\ driver[d].at \in Nat
  BY Known DEF DriverType
<1> QED
  BY <1>1, AtIsFirst DEF RunInv, DriverFine

(* A driver that is being served moves: the parts put together. *)
LEMMA DriverMoves ==
  ASSUME RunInv, NEW d \in Driver, driver[d].pc # "idle", NEW me, me \in DriverType,
         driver' = [driver EXCEPT ![d] = me],
         UNCHANGED <<run, overlaps>>, troubles' \in 0..MaxTroubles,
         GatesGrown(gates, gates'), TurnsGrown(turns, turns'), row' \in [Step -> Row],
         RowsFine(row', gates', turns'), TurnsFine(gates', turns', overlaps'),
         RowsShown(row', gates', overlaps'),
         DriverFine(me, gates', turns', overlaps'), Agrees(me, row', overlaps')
  PROVE  RunInv'
<1>1. /\ driver' \in [Driver -> DriverType]
      /\ \A e \in Driver : driver'[e] = IF e = d THEN me ELSE driver[e]
  BY Known
<1>2. TypeOK'
  <2>1. \A i \in Step : row'[i].awaiting # "none" <=> row'[i].status = "awaiting_approval"
    BY DEF RowsFine, RecFine
  <2> QED
    BY <1>1, <2>1, Known DEF TypeOK, GatesGrown, TurnsGrown, GateType, TurnType, DriverType
<1>3. ASSUME NEW e \in Driver
      PROVE  DriverFine(driver'[e], gates', turns', overlaps') /\ Agrees(driver'[e], row', overlaps')
  <2>1. CASE e = d
    BY <1>1, <2>1
  <2>2. CASE e # d
    <3>1. driver'[e] = driver[e] /\ driver[e] \in DriverType /\ overlaps' = overlaps
      BY <1>1, <2>2, DriverKnown
    <3>2. DriverFine(driver[e], gates', turns', overlaps)
      BY DriverStays, DriverKnown, Known
    <3>3. overlaps = 0 => driver[e].pc = "idle"
      BY <2>2 DEF RunInv, Solo
    <3> QED
      BY <3>1, <3>2, <3>3 DEF Agrees
  <2> QED
    BY <2>1, <2>2
<1>4. Solo'
  BY <1>1 DEF RunInv, Solo
<1> QED
  BY <1>2, <1>3, <1>4 DEF RunInv

-----------------------------------------------------------------------------
LEMMA QuotesSame ==
  ASSUME NEW rows, NEW olds, NEW k, \A j \in 1..(k - 1) : rows[j].output = olds[j].output
  PROVE  Quotes(rows, k) = Quotes(olds, k)
BY DEF Quotes

LEMMA UpsertIsFine ==
  ASSUME NEW old \in Row, NEW rec \in Row, NEW i, NEW gs, NEW ts,
         RecFine(old, i, gs, ts), RecFine(rec, i, gs, ts)
  PROVE  /\ Upsert(old, rec) \in Row /\ RecFine(Upsert(old, rec), i, gs, ts)
         /\ Upsert(old, rec).status = rec.status /\ Upsert(old, rec).gate = rec.gate
         /\ old.output # 0 \/ rec.output # 0 => Upsert(old, rec).output # 0
<1> DEFINE new == Upsert(old, rec)
<1>1. /\ new \in Row /\ new.status = rec.status /\ new.gate = rec.gate
      /\ new.awaiting = rec.awaiting
      /\ new.turn = IF rec.turn = 0 THEN old.turn ELSE rec.turn
      /\ new.output = IF rec.output = 0 THEN old.output ELSE rec.output
  BY DEF Upsert, Row
<1> HIDE DEF new
<1>2. RecFine(new, i, gs, ts)
  BY <1>1 DEF RecFine
<1>3. old.output # 0 \/ rec.output # 0 => new.output # 0
  BY <1>1
<1> QED
  BY <1>1, <1>2, <1>3 DEF new

(* A driver writes the row of the step it stands at. *)
LEMMA Recorded ==
  ASSUME RunInv, NEW d \in Driver, driver[d].pc \in OnStep, NEW rec, rec \in Row,
         GatesGrown(gates, gates'), TurnsGrown(turns, turns'), overlaps' = overlaps,
         RecFine(rec, At(driver[d].done), gates', turns'), Record(d, rec),
         overlaps = 0 /\ rec.gate # 0 =>
            gates'[rec.gate].shown = Quotes(driver[d].done, At(driver[d].done))
  PROVE  /\ row' \in [Step -> Row] /\ RowsFine(row', gates', turns')
         /\ RowsShown(row', gates', overlaps')
         /\ \A j \in Step : row'[j] = IF j = At(driver[d].done)
              THEN Upsert(row[At(driver[d].done)], rec) ELSE row[j]
         /\ row'[At(driver[d].done)].status = rec.status
         /\ overlaps = 0 => \A j \in Step : j # At(driver[d].done) => row'[j] = driver[d].done[j]
<1> DEFINE done == driver[d].done
           i == At(done)
           new == Upsert(row[i], rec)
<1>1. /\ done \in [Step -> Row] /\ Left(done) # {} /\ i \in Step /\ done[i].status # "completed"
      /\ \A j \in Step : j < i => done[j].status = "completed"
      /\ row \in [Step -> Row] /\ driver[d].pc \notin {"idle", "reading"}
  BY DriverKnown, Known, AtIsFirst DEF OnStep
<1>2. RowsFine(row, gates', turns')
  BY Known, RowsStay
<1>3. row[i] \in Row /\ RecFine(row[i], i, gates', turns')
  BY <1>1, <1>2 DEF RowsFine
<1>4. new \in Row /\ RecFine(new, i, gates', turns') /\ new.status = rec.status /\ new.gate = rec.gate
  BY <1>3, UpsertIsFine
<1>5. row' = [row EXCEPT ![i] = new]
  BY DEF Record
<1>12. rec \in Row /\ (overlaps = 0 /\ rec.gate # 0 => gates'[rec.gate].shown = Quotes(done, i))
  OBVIOUS
<1>11. Agrees(driver[d], row, overlaps)
  BY DriverKnown
<1>13. overlaps = 0 => \A j \in Step : row[j] = done[j] \/ (j = i /\ row[j].status # "completed")
  BY <1>1, <1>11 DEF Agrees
<1> HIDE DEF new, i, done
<1>6. row' \in [Step -> Row] /\ \A j \in Step : row'[j] = IF j = i THEN new ELSE row[j]
  BY <1>1, <1>4, <1>5
<1>7. RowsFine(row', gates', turns')
  BY <1>2, <1>4, <1>6 DEF RowsFine
<1>8. overlaps = 0 => /\ \A j \in Step : j # i => row[j] = done[j]
                      /\ row[i].status # "completed"
  BY <1>1, <1>13
<1>9. RowsShown(row', gates', overlaps')
  <2> SUFFICES ASSUME overlaps = 0, NEW k \in Step, row'[k].gate # 0
               PROVE  /\ \A j \in 1..(k - 1) : row'[j].status = "completed"
                      /\ gates'[row'[k].gate].shown = Quotes(row', k)
    BY DEF RowsShown
  <2>1. \A j \in 1..(k - 1) : j \in Step /\ j < k
    BY StepsAssumption DEF Step
  <2>2. CASE k = i
    <3>1. \A j \in 1..(k - 1) : row'[j] = done[j] /\ done[j].status = "completed"
      BY <1>1, <1>6, <1>8, <2>1, <2>2
    <3>2. Quotes(row', k) = Quotes(done, k)
      BY <3>1, QuotesSame
    <3>3. row'[k].gate = rec.gate
      BY <1>4, <1>6, <2>2
    <3> QED
      BY <1>12, <2>2, <3>1, <3>2, <3>3
  <2>3. CASE k # i
    <3>1. row'[k] = row[k] /\ row[k].gate # 0
      BY <1>6, <2>3
    <3>2. /\ \A j \in 1..(k - 1) : row[j].status = "completed"
          /\ gates[row[k].gate].shown = Quotes(row, k)
      BY <3>1, Known DEF RowsShown
    <3>3. \A j \in 1..(k - 1) : row'[j] = row[j]
      BY <1>6, <1>8, <2>1, <3>2
    <3>4. Quotes(row', k) = Quotes(row, k)
      BY <3>3, QuotesSame
    <3>5. gates'[row[k].gate].shown = gates[row[k].gate].shown
      BY <3>1, Known DEF RowsFine, RecFine, GatesGrown
    <3> QED
      BY <3>1, <3>2, <3>3, <3>4, <3>5
  <2> QED
    BY <2>2, <2>3
<1>10. /\ row'[i].status = rec.status
       /\ overlaps = 0 => \A j \in Step : j # i => row'[j] = done[j]
  BY <1>1, <1>4, <1>6, <1>8
<1> QED
  BY <1>6, <1>7, <1>9, <1>10 DEF new, i, done

(* Where a driver goes next, from the rows it knows. *)
LEMMA EnterFine ==
  ASSUME NEW done \in [Step -> Row], NEW gs, NEW ts, NEW o, RowsFine(done, gs, ts),
         o = 0 => \A i \in Step : done[i].gate # 0 => gs[done[i].gate].shown = Quotes(done, i),
         NEW me, me.done = done, me.pc = Enter(done)
  PROVE  /\ DriverFine(me, gs, ts, o)
         /\ me.pc \in {"completing", "resuming", "sending", "gating", "asking"}
<1>1. CASE Left(done) = {}
  <2>1. me.pc = "completing"
    BY <1>1 DEF Enter
  <2> QED
    BY <2>1 DEF DriverFine, OnStep
<1>2. CASE Left(done) # {}
  <2> DEFINE i == At(done)
  <2>1. i \in Step /\ RecFine(done[i], i, gs, ts)
    BY <1>2, AtIsFirst DEF RowsFine
  <2>2. /\ me.pc \in {"resuming", "sending", "gating", "asking"}
        /\ me.pc = "resuming" => done[i].awaiting = "tool"
        /\ me.pc = "sending" => i \notin GatedSteps
        /\ me.pc = "gating" => done[i].gate # 0
    BY <1>2 DEF Enter
  <2>3. me.pc = "resuming" => done[i].turn # 0
    BY <2>1, <2>2 DEF RecFine
  <2> QED
    BY <1>2, <2>2, <2>3 DEF DriverFine, OnStep
<1> QED
  BY <1>1, <1>2

-----------------------------------------------------------------------------
(* A driver that gives its step up, or is done with it. *)
LEMMA LeavesStep ==
  ASSUME RunInv, NEW d \in Driver, driver[d].pc \notin {"idle", "reading"},
         NEW pc \in {"waiting", "declined", "broken", "failing"},
         pc = "failing" => driver[d].pc \in OnStep,
         GatesGrown(gates, gates'), TurnsGrown(turns, turns'), overlaps' = overlaps
  PROVE  LET me == [driver[d] EXCEPT !.pc = pc] IN
         /\ me \in DriverType /\ me.done = driver[d].done /\ me.pc = pc
         /\ DriverFine(me, gates', turns', overlaps')
<1> DEFINE me == [driver[d] EXCEPT !.pc = pc]
<1>1. me \in DriverType /\ me.pc = pc /\ me.done = driver[d].done
  BY DriverKnown DEF DriverType, Pc
<1>2. DriverFine(driver[d], gates', turns', overlaps')
  BY DriverKnown, DriverStays, Known
<1> HIDE DEF me
<1>3. DriverFine(me, gates', turns', overlaps')
  BY <1>1, <1>2, DriverKnown DEF DriverFine, OnStep
<1> QED
  BY <1>1, <1>3 DEF me

(* One that leaves the tables as they are. *)
LEMMA LeavesTables ==
  ASSUME RunInv, NEW d \in Driver, driver[d].pc \notin {"idle", "reading"},
         NEW pc \in {"waiting", "declined", "broken", "failing"},
         pc = "failing" => driver[d].pc \in OnStep, Goto(d, pc),
         UNCHANGED <<run, row, gates, turns, overlaps>>, troubles' \in 0..MaxTroubles
  PROVE  RunInv'
<1> DEFINE me == [driver[d] EXCEPT !.pc = pc]
<1>1. GatesGrown(gates, gates') /\ TurnsGrown(turns, turns')
  BY Known
<1>2. /\ me \in DriverType /\ me.done = driver[d].done /\ me.pc = pc
      /\ DriverFine(me, gates', turns', overlaps')
  BY <1>1, LeavesStep
<1>3. driver' = [driver EXCEPT ![d] = me]
  BY DEF Goto
<1> HIDE DEF me
<1>4. Agrees(me, row', overlaps')
  BY <1>2, DriverKnown DEF Agrees
<1>5. /\ RowsFine(row', gates', turns') /\ TurnsFine(gates', turns', overlaps')
      /\ RowsShown(row', gates', overlaps') /\ row' \in [Step -> Row]
  BY Known
<1> QED
  BY <1>1, <1>2, <1>3, <1>4, <1>5, DriverMoves

(* One that writes its step's row, with anything but an answer. *)
LEMMA LeavesRow ==
  ASSUME RunInv, NEW d \in Driver, driver[d].pc \in OnStep,
         NEW pc \in {"waiting", "declined", "broken", "failing"}, Goto(d, pc),
         UNCHANGED <<run, gates, turns, counters>>,
         NEW rec, rec \in Row, rec.status # "completed", Record(d, rec),
         RecFine(rec, At(driver[d].done), gates, turns),
         overlaps = 0 /\ rec.gate # 0 =>
            gates[rec.gate].shown = Quotes(driver[d].done, At(driver[d].done))
  PROVE  RunInv'
<1> DEFINE me == [driver[d] EXCEPT !.pc = pc]
<1>1. GatesGrown(gates, gates') /\ TurnsGrown(turns, turns') /\ troubles' \in 0..MaxTroubles
      /\ UNCHANGED <<run, overlaps, gates, turns>> /\ driver[d].pc \notin {"idle", "reading"}
  BY Known DEF counters, OnStep
<1>2. /\ me \in DriverType /\ me.done = driver[d].done /\ me.pc = pc
      /\ DriverFine(me, gates', turns', overlaps')
  BY <1>1, LeavesStep
<1>3. driver' = [driver EXCEPT ![d] = me]
  BY DEF Goto
<1> HIDE DEF me
<1>4. RecFine(rec, At(driver[d].done), gates', turns')
      /\ (overlaps = 0 /\ rec.gate # 0 =>
            gates'[rec.gate].shown = Quotes(driver[d].done, At(driver[d].done)))
  BY <1>1
<1>5. /\ row' \in [Step -> Row] /\ RowsFine(row', gates', turns')
      /\ RowsShown(row', gates', overlaps')
      /\ row'[At(driver[d].done)].status = rec.status
      /\ overlaps = 0 => \A j \in Step : j # At(driver[d].done) => row'[j] = driver[d].done[j]
  BY <1>1, <1>4, Recorded
<1>6. Agrees(me, row', overlaps')
  BY <1>1, <1>2, <1>5, DriverKnown DEF Agrees
<1>7. TurnsFine(gates', turns', overlaps')
  BY <1>1, Known
<1> QED
  BY <1>1, <1>2, <1>3, <1>5, <1>6, <1>7, DriverMoves

LEMMA NoteGateKeeps ==
  ASSUME RunInv, NEW d \in Driver, NoteGate(d)
  PROVE  RunInv'
<1> DEFINE rec == GateRow(driver[d].at)
<1>1. /\ driver[d].pc = "noting" /\ driver[d].at \in 1..Len(gates)
      /\ gates[driver[d].at].step = At(driver[d].done)
      /\ gates[driver[d].at].shown = Quotes(driver[d].done, At(driver[d].done))
      /\ driver[d].at \in Nat
  BY DriverKnown DEF NoteGate, DriverFine
<1>2. /\ rec \in Row /\ rec.status = "awaiting_approval" /\ rec.awaiting = "step"
      /\ rec.gate = driver[d].at /\ rec.turn = 0 /\ rec.output = 0
  BY <1>1 DEF GateRow, NoRow, Row, StepStatus
<1>3. Record(d, rec) /\ Goto(d, "waiting") /\ UNCHANGED <<run, gates, turns, counters>>
  BY DEF NoteGate
<1> HIDE DEF rec
<1>4. RecFine(rec, At(driver[d].done), gates, turns)
  BY <1>1, <1>2 DEF RecFine
<1> QED
  BY <1>1, <1>2, <1>3, <1>4, LeavesRow DEF OnStep

LEMMA RecordPauseKeeps ==
  ASSUME RunInv, NEW d \in Driver, RecordPause(d)
  PROVE  RunInv'
<1> DEFINE rec == [NoRow EXCEPT !.status = "awaiting_approval", !.awaiting = "tool",
                               !.turn = driver[d].at]
<1>1. /\ driver[d].pc = "pausing" /\ driver[d].at \in 1..Len(turns) /\ driver[d].at \in Nat
      /\ turns[driver[d].at].step = At(driver[d].done) /\ driver[d].at # 0
  BY DriverKnown DEF RecordPause, DriverFine
<1>2. /\ rec \in Row /\ rec.status = "awaiting_approval" /\ rec.awaiting = "tool"
      /\ rec.gate = 0 /\ rec.turn = driver[d].at /\ rec.output = 0
  BY <1>1 DEF NoRow, Row, StepStatus
<1>3. Record(d, rec) /\ Goto(d, "waiting") /\ UNCHANGED <<run, gates, turns, counters>>
  BY DEF RecordPause
<1> HIDE DEF rec
<1>4. RecFine(rec, At(driver[d].done), gates, turns)
  BY <1>1, <1>2 DEF RecFine
<1> QED
  BY <1>1, <1>2, <1>3, <1>4, LeavesRow DEF OnStep

LEMMA RecordSkipKeeps ==
  ASSUME RunInv, NEW d \in Driver, RecordSkip(d)
  PROVE  RunInv'
<1> DEFINE old == driver[d].done[At(driver[d].done)]
           rec == [NoRow EXCEPT !.status = "skipped", !.gate = old.gate]
<1>1. /\ driver[d].pc = "skipping" /\ old \in Row /\ old.gate \in Nat
      /\ RecFine(old, At(driver[d].done), gates, turns)
      /\ overlaps = 0 /\ old.gate # 0 =>
           gates[old.gate].shown = Quotes(driver[d].done, At(driver[d].done))
  BY DriverKnown DEF RecordSkip, DriverFine, RowsFine, OnStep, Row
<1>2. /\ rec \in Row /\ rec.status = "skipped" /\ rec.awaiting = "none"
      /\ rec.gate = old.gate /\ rec.turn = 0 /\ rec.output = 0
  BY <1>1 DEF NoRow, Row, StepStatus
<1>3. Record(d, rec) /\ Goto(d, "declined") /\ UNCHANGED <<run, gates, turns, counters>>
  BY DEF RecordSkip
<1> HIDE DEF rec, old
<1>4. RecFine(rec, At(driver[d].done), gates, turns)
  BY <1>1, <1>2 DEF RecFine
<1> QED
  BY <1>1, <1>2, <1>3, <1>4, LeavesRow DEF OnStep

LEMMA RecordFailureKeeps ==
  ASSUME RunInv, NEW d \in Driver, RecordFailure(d)
  PROVE  RunInv'
<1> DEFINE rec == [NoRow EXCEPT !.status = "failed"]
<1>1. /\ rec \in Row /\ rec.status = "failed" /\ rec.awaiting = "none"
      /\ rec.gate = 0 /\ rec.turn = 0 /\ rec.output = 0
  BY DEF NoRow, Row, StepStatus
<1>2. /\ Record(d, rec) /\ Goto(d, "broken") /\ UNCHANGED <<run, gates, turns, counters>>
      /\ driver[d].pc = "failing"
  BY DEF RecordFailure
<1> HIDE DEF rec
<1>3. RecFine(rec, At(driver[d].done), gates, turns)
  BY <1>1 DEF RecFine
<1> QED
  BY <1>1, <1>2, <1>3, LeavesRow DEF OnStep

-----------------------------------------------------------------------------
(* What gates and turns do as they grow, to rows nobody writes. *)
LEMMA TablesStay ==
  ASSUME RunInv, GatesGrown(gates, gates'), TurnsGrown(turns, turns'),
         UNCHANGED <<row, overlaps>>
  PROVE  /\ RowsFine(row', gates', turns') /\ RowsShown(row', gates', overlaps')
         /\ row' \in [Step -> Row]
         /\ TurnsFine(gates', turns, overlaps')
<1>1. RowsFine(row', gates', turns') /\ TurnsFine(gates', turns, overlaps')
  BY Known, RowsStay, TurnsStay
<1>2. RowsShown(row', gates', overlaps')
  <2>1. \A i \in Step : row[i].gate # 0 => row[i].gate \in 1..Len(gates)
    BY Known DEF RowsFine, RecFine
  <2> QED
    BY <2>1, Known DEF RowsShown, GatesGrown
<1> QED
  BY <1>1, <1>2, Known

(* The end of a turn changes nothing of what the others quote. *)
LEMMA PhasesMove ==
  ASSUME NEW ts, NEW us, TurnsGrown(ts, us), Len(us) = Len(ts), NEW gs, NEW o,
         TurnsFine(gs, ts, o)
  PROVE  TurnsFine(gs, us, o)
<1> SUFFICES ASSUME NEW t \in 1..Len(us)
             PROVE  /\ \A j \in 1..(us[t].step - 1) :
                         /\ us[t].quotes[j] \in 1..Len(us)
                         /\ us[us[t].quotes[j]].step = j
                         /\ us[us[t].quotes[j]].phase # "open"
                    /\ us[t].gate # 0 => us[t].gate \in 1..Len(gs)
                    /\ us[t].step \in GatedSteps =>
                         LetThrough(us[t].gate, us[t].step, us[t].quotes, gs, o)
  BY DEF TurnsFine
<1>1. /\ t \in 1..Len(ts) /\ us[t].step = ts[t].step /\ us[t].quotes = ts[t].quotes
      /\ us[t].gate = ts[t].gate
  BY DEF TurnsGrown
<1>2. \A j \in 1..(ts[t].step - 1) :
        /\ ts[t].quotes[j] \in 1..Len(ts)
        /\ ts[ts[t].quotes[j]].step = j /\ ts[ts[t].quotes[j]].phase # "open"
  BY <1>1 DEF TurnsFine
<1>3. \A j \in 1..(ts[t].step - 1) :
        /\ us[ts[t].quotes[j]].step = j /\ us[ts[t].quotes[j]].phase # "open"
  BY <1>2 DEF TurnsGrown
<1>4. /\ ts[t].gate # 0 => ts[t].gate \in 1..Len(gs)
      /\ ts[t].step \in GatedSteps =>
           LetThrough(ts[t].gate, ts[t].step, ts[t].quotes, gs, o)
  BY <1>1 DEF TurnsFine
<1> QED
  BY <1>1, <1>2, <1>3, <1>4

LEMMA ReadStepsKeeps ==
  ASSUME RunInv, NEW d \in Driver, ReadSteps(d)
  PROVE  RunInv'
<1> DEFINE me == [driver[d] EXCEPT !.done = row, !.pc = Enter(row)]
<1>1. /\ driver[d].pc = "reading" /\ driver' = [driver EXCEPT ![d] = me]
      /\ UNCHANGED <<run, row, gates, turns, overlaps>> /\ troubles' \in 0..MaxTroubles
  BY Known DEF ReadSteps, counters
<1>2. overlaps = 0 => \A i \in Step : row[i].gate # 0 => gates[row[i].gate].shown = Quotes(row, i)
  BY Known DEF RowsShown
<1>3. me.done = row /\ me.pc = Enter(row) /\ me.at = driver[d].at
  BY DriverKnown DEF DriverType
<1>4. /\ DriverFine(me, gates, turns, overlaps)
      /\ me.pc \in {"completing", "resuming", "sending", "gating", "asking"}
  BY <1>2, <1>3, Known, EnterFine
<1>5. me \in DriverType
  BY <1>3, <1>4, DriverKnown, Known DEF DriverType, Pc
<1> HIDE DEF me
<1>6. Agrees(me, row', overlaps')
  BY <1>1, <1>3 DEF Agrees
<1>7. GatesGrown(gates, gates') /\ TurnsGrown(turns, turns')
      /\ DriverFine(me, gates', turns', overlaps') /\ TurnsFine(gates', turns', overlaps')
  BY <1>1, <1>4, Known
<1> QED
  BY <1>1, <1>5, <1>6, <1>7, TablesStay, DriverMoves

LEMMA ReadGateKeeps ==
  ASSUME RunInv, NEW d \in Driver, ReadGate(d)
  PROVE  RunInv'
<1> DEFINE done == driver[d].done
           i == At(done)
           g == done[i].gate
           pc == IF Waits(gates[g].status) THEN "waiting"
                 ELSE IF gates[g].status = "rejected" THEN "skipping" ELSE "sending"
           me == [driver[d] EXCEPT !.pc = pc]
<1>1. /\ driver[d].pc = "gating" /\ driver' = [driver EXCEPT ![d] = me]
      /\ UNCHANGED <<run, row, gates, turns, overlaps>> /\ troubles' \in 0..MaxTroubles
  BY Known DEF ReadGate, Goto, counters
<1>2. /\ Left(done) # {} /\ i \in Step /\ RowsFine(done, gates, turns) /\ g # 0
      /\ g \in 1..Len(gates) /\ gates[g].step = i
      /\ overlaps = 0 => \A k \in Step : done[k].gate # 0 =>
           gates[done[k].gate].shown = Quotes(done, k)
  BY <1>1, DriverKnown DEF DriverFine, OnStep, RowsFine, RecFine
<1>3. gates[g].status \in Choice \cup {"pending"}
  <2> HIDE DEF g
  <2>1. gates[g] \in GateType
    BY <1>2, Known
  <2> QED
    BY <2>1 DEF GateType
<1>4. pc = "sending" => LetThrough(g, i, Quotes(done, i), gates, overlaps)
  <2> HIDE DEF g, i, done
  <2>1. pc = "sending" => gates[g].status \in {"approved", "changes_requested"}
    BY <1>3 DEF Waits, Choice
  <2>2. overlaps = 0 => gates[g].shown = Quotes(done, i)
    BY <1>2 DEF g
  <2> QED
    BY <1>2, <2>1, <2>2 DEF LetThrough, ChangesIgnored
<1>5. me \in DriverType /\ me.pc = pc /\ me.done = done /\ pc \in {"waiting", "skipping", "sending"}
  BY DriverKnown DEF DriverType, Pc
<1> HIDE DEF me, pc
<1>6. DriverFine(me, gates, turns, overlaps)
  BY <1>2, <1>4, <1>5 DEF DriverFine
<1>7. Agrees(me, row', overlaps')
  BY <1>1, <1>5, DriverKnown DEF Agrees
<1>8. GatesGrown(gates, gates') /\ TurnsGrown(turns, turns')
      /\ DriverFine(me, gates', turns', overlaps') /\ TurnsFine(gates', turns', overlaps')
  BY <1>1, <1>6, Known
<1> QED
  BY <1>1, <1>5, <1>7, <1>8, TablesStay, DriverMoves

(* What a driver knew before it moved, it still knows. *)
LEMMA StillFine ==
  ASSUME RunInv, NEW d \in Driver, GatesGrown(gates, gates'), TurnsGrown(turns, turns'),
         overlaps' = overlaps
  PROVE  DriverFine(driver[d], gates', turns', overlaps')
BY DriverKnown, DriverStays, Known

LEMMA AskKeeps ==
  ASSUME RunInv, NEW d \in Driver, Ask(d)
  PROVE  RunInv'
<1> DEFINE done == driver[d].done
           i == At(done)
           new == [step |-> i, status |-> "pending", shown |-> Shown(done, i)]
           me == [driver[d] EXCEPT !.pc = "noting", !.at = Len(gates) + 1]
<1>1. /\ driver[d].pc = "asking" /\ driver' = [driver EXCEPT ![d] = me]
      /\ gates' = Append(gates, new)
      /\ UNCHANGED <<run, row, turns, overlaps>> /\ troubles' \in 0..MaxTroubles
  BY Known DEF Ask, counters
<1>2. Left(done) # {} /\ i \in Step /\ done \in [Step -> Row]
  BY <1>1, DriverKnown DEF OnStep
<1>3. new \in GateType /\ new.step = i /\ new.shown = Quotes(done, i) /\ new.status = "pending"
  BY <1>2, QuotesType DEF Shown, GateType
<1>4. /\ gates' \in Seq(GateType) /\ Len(gates') = Len(gates) + 1 /\ Len(gates) \in Nat
      /\ gates'[Len(gates) + 1] = new /\ \A g \in 1..Len(gates) : gates'[g] = gates[g]
  BY <1>1, <1>3, Known
<1>5. GatesGrown(gates, gates') /\ TurnsGrown(turns, turns')
  BY <1>1, <1>4, Known DEF GatesGrown
<1>6. /\ me \in DriverType /\ me.pc = "noting" /\ me.done = done /\ me.at = Len(gates) + 1
  <2>1. Len(gates) + 1 \in Nat
    BY <1>4
  <2> QED
    BY <2>1, DriverKnown DEF DriverType, Pc
<1>7. DriverFine(driver[d], gates', turns', overlaps')
  BY <1>1, <1>5, StillFine
<1>8. me.at \in 1..Len(gates') /\ gates'[me.at] = new
  BY <1>4, <1>6
<1> HIDE DEF me, new, done
<1>9. DriverFine(me, gates', turns', overlaps')
  BY <1>1, <1>2, <1>3, <1>6, <1>7, <1>8 DEF DriverFine, done
<1>10. Agrees(me, row', overlaps')
  BY <1>1, <1>6, DriverKnown DEF Agrees, done
<1> QED
  BY <1>1, <1>5, <1>6, <1>9, <1>10, TablesStay, DriverMoves

(* A turn quotes what the rows hold, and its gate let it through. *)
LEMMA SendKeeps ==
  ASSUME RunInv, NEW d \in Driver, Send(d)
  PROVE  RunInv'
<1> DEFINE done == driver[d].done
           i == At(done)
           n == Len(turns) + 1
           new == [step |-> i, gate |-> done[i].gate, quotes |-> Quotes(done, i),
                   pauses |-> 0, phase |-> "open"]
           rec == [NoRow EXCEPT !.status = "running", !.turn = n]
           me == [driver[d] EXCEPT !.pc = "running", !.at = n]
<1>1. /\ driver[d].pc = "sending" /\ driver' = [driver EXCEPT ![d] = me]
      /\ turns' = Append(turns, new) /\ Record(d, rec)
      /\ UNCHANGED <<run, gates, overlaps>> /\ troubles' \in 0..MaxTroubles
  BY Known DEF Send, counters
<1>2. /\ Left(done) # {} /\ i \in Step /\ done \in [Step -> Row]
      /\ \A j \in Step : j < i => done[j].status = "completed"
      /\ RowsFine(done, gates, turns)
      /\ i \in GatedSteps => LetThrough(done[i].gate, i, Quotes(done, i), gates, overlaps)
  BY <1>1, DriverKnown, AtIsFirst DEF OnStep, DriverFine
<1>16. done[i].gate \in Nat /\ (done[i].gate # 0 => done[i].gate \in 1..Len(gates))
  BY <1>2 DEF RowsFine, RecFine, Row
<1>3. /\ new \in TurnType /\ new.step = i /\ new.quotes = Quotes(done, i)
      /\ new.gate = done[i].gate
  BY <1>2, <1>16, QuotesType DEF TurnType
<1>4. /\ turns' \in Seq(TurnType) /\ Len(turns') = n /\ Len(turns) \in Nat /\ n \in Nat /\ n # 0
      /\ turns'[n] = new /\ \A t \in 1..Len(turns) : turns'[t] = turns[t]
  BY <1>1, <1>3, Known
<1>5. GatesGrown(gates, gates') /\ TurnsGrown(turns, turns')
  BY <1>1, <1>4, Known DEF TurnsGrown
<1>6. /\ me \in DriverType /\ me.pc = "running" /\ me.done = done /\ me.at = n
  BY <1>4, DriverKnown DEF DriverType, Pc
<1>7. /\ rec \in Row /\ rec.status = "running" /\ rec.awaiting = "none" /\ rec.gate = 0
      /\ rec.turn = n /\ rec.output = 0
  BY <1>4 DEF NoRow, Row, StepStatus
<1>8. DriverFine(driver[d], gates', turns', overlaps')
  BY <1>1, <1>5, StillFine
<1>15. n \in 1..Len(turns') /\ turns'[n] = new /\ \A t \in 1..Len(turns') : t # n => t \in 1..Len(turns)
  BY <1>4
<1> HIDE DEF me, new, rec, n
<1>9. RecFine(rec, i, gates', turns')
  BY <1>3, <1>7, <1>15 DEF RecFine
<1>10. /\ row' \in [Step -> Row] /\ RowsFine(row', gates', turns')
       /\ RowsShown(row', gates', overlaps') /\ row'[i].status = rec.status
       /\ overlaps = 0 => \A j \in Step : j # i => row'[j] = done[j]
  BY <1>1, <1>5, <1>7, <1>9, Recorded DEF OnStep
<1>11. DriverFine(me, gates', turns', overlaps')
  BY <1>1, <1>2, <1>3, <1>6, <1>8, <1>15 DEF DriverFine
<1>12. Agrees(me, row', overlaps')
  BY <1>1, <1>2, <1>6, <1>7, <1>10 DEF Agrees
<1>13. \A j \in 1..(i - 1) : /\ Quotes(done, i)[j] \in 1..Len(turns)
                             /\ turns[Quotes(done, i)[j]].step = j
                             /\ turns[Quotes(done, i)[j]].phase # "open"
  <2> SUFFICES ASSUME NEW j \in 1..(i - 1)
               PROVE  /\ Quotes(done, i)[j] \in 1..Len(turns)
                      /\ turns[Quotes(done, i)[j]].step = j
                      /\ turns[Quotes(done, i)[j]].phase # "open"
    OBVIOUS
  <2> HIDE DEF i, done
  <2>3. i \in Step /\ done \in [Step -> Row]
    BY <1>2
  <2>1. j \in Step /\ j < i /\ Quotes(done, i)[j] = done[j].output
    BY <2>3, QuotesType, StepsAssumption DEF Step
  <2>2. RecFine(done[j], j, gates, turns) /\ done[j].status = "completed"
    BY <1>2, <2>1 DEF RowsFine
  <2> QED
    BY <2>1, <2>2 DEF RecFine
<1>14. TurnsFine(gates', turns', overlaps')
  <2> SUFFICES ASSUME NEW t \in 1..Len(turns')
               PROVE  /\ \A j \in 1..(turns'[t].step - 1) :
                           /\ turns'[t].quotes[j] \in 1..Len(turns')
                           /\ turns'[turns'[t].quotes[j]].step = j
                           /\ turns'[turns'[t].quotes[j]].phase # "open"
                      /\ turns'[t].gate # 0 => turns'[t].gate \in 1..Len(gates')
                      /\ turns'[t].step \in GatedSteps =>
                           LetThrough(turns'[t].gate, turns'[t].step, turns'[t].quotes,
                                      gates', overlaps')
    BY DEF TurnsFine
  <2>1. 1..Len(turns) \subseteq 1..Len(turns')
    BY <1>5 DEF TurnsGrown
  <2>2. CASE t = n
    <3>1. turns'[t].step = i /\ turns'[t].quotes = Quotes(done, i) /\ turns'[t].gate = done[i].gate
      BY <1>3, <1>15, <2>2
    <3> HIDE DEF i, done
    <3> QED
      BY <1>1, <1>2, <1>4, <1>13, <1>16, <2>1, <3>1
  <2>3. CASE t # n
    <3>1. t \in 1..Len(turns) /\ turns'[t] = turns[t]
      BY <1>4, <1>15, <2>3
    <3>2. /\ \A j \in 1..(turns[t].step - 1) :
               /\ turns[t].quotes[j] \in 1..Len(turns)
               /\ turns[turns[t].quotes[j]].step = j /\ turns[turns[t].quotes[j]].phase # "open"
          /\ turns[t].gate # 0 => turns[t].gate \in 1..Len(gates)
          /\ turns[t].step \in GatedSteps =>
               LetThrough(turns[t].gate, turns[t].step, turns[t].quotes, gates, overlaps)
      BY <3>1, Known DEF TurnsFine
    <3> QED
      BY <1>1, <1>4, <2>1, <3>1, <3>2
  <2> QED
    BY <2>2, <2>3
<1> QED
  BY <1>1, <1>5, <1>6, <1>10, <1>11, <1>12, <1>14, DriverMoves

(* A held turn is continued, or found gone. *)
LEMMA ResumeTurnKeeps ==
  ASSUME RunInv, NEW d \in Driver, ResumeTurn(d)
  PROVE  RunInv'
<1> DEFINE done == driver[d].done
           i == At(done)
           t == done[i].turn
           pc == IF turns[t].phase = "paused" THEN "continuing" ELSE "failing"
           me == [driver[d] EXCEPT !.at = t, !.pc = pc]
<1>1. /\ driver[d].pc = "resuming" /\ driver' = [driver EXCEPT ![d] = me]
      /\ UNCHANGED <<run, row, gates, turns, overlaps>> /\ troubles' \in 0..MaxTroubles
  BY Known DEF ResumeTurn, counters
<1>2. /\ Left(done) # {} /\ i \in Step /\ RowsFine(done, gates, turns) /\ t # 0
      /\ t \in 1..Len(turns) /\ turns[t].step = i /\ t \in Nat
  BY <1>1, DriverKnown DEF DriverFine, OnStep, RowsFine, RecFine, Row
<1>3. DriverFine(driver[d], gates, turns, overlaps) /\ driver[d].pc \notin {"idle", "reading"}
  BY <1>1, DriverKnown
<1>4. /\ me \in DriverType /\ me.pc = pc /\ me.done = done /\ me.at = t
      /\ pc \in {"continuing", "failing"}
  BY <1>2, DriverKnown DEF DriverType, Pc
<1> HIDE DEF me, pc, t
<1>5. DriverFine(me, gates, turns, overlaps)
  BY <1>2, <1>3, <1>4 DEF DriverFine
<1>6. Agrees(me, row', overlaps')
  BY <1>1, <1>3, <1>4, DriverKnown DEF Agrees
<1>7. GatesGrown(gates, gates') /\ TurnsGrown(turns, turns')
      /\ DriverFine(me, gates', turns', overlaps') /\ TurnsFine(gates', turns', overlaps')
  BY <1>1, <1>5, Known
<1> QED
  BY <1>1, <1>4, <1>6, <1>7, TablesStay, DriverMoves

(* A turn that ends, in whichever way, is one more that ended. *)
Ended(turn, new) == /\ new \in TurnType /\ new.phase # "open"
                    /\ new.step = turn.step /\ new.quotes = turn.quotes
                    /\ new.gate = turn.gate

LEMMA EndGrows ==
  ASSUME NEW ts \in Seq(TurnType), NEW t \in 1..Len(ts), NEW new, Ended(ts[t], new)
  PROVE  LET us == [ts EXCEPT ![t] = new]
         IN  TurnsGrown(ts, us) /\ Len(us) = Len(ts) /\ us[t].phase # "open"
<1> DEFINE us == [ts EXCEPT ![t] = new]
<1>1. /\ us \in Seq(TurnType) /\ Len(us) = Len(ts) /\ us[t] = new
      /\ \A u \in 1..Len(ts) : us[u] = IF u = t THEN new ELSE ts[u]
  BY DEF Ended
<1> HIDE DEF us
<1>2. TurnsGrown(ts, us)
  BY <1>1 DEF TurnsGrown, Ended
<1> QED
  BY <1>1, <1>2 DEF us, Ended

LEMMA EndingIsAnEnd ==
  ASSUME NEW turn \in TurnType
  PROVE  /\ Ended(turn, [turn EXCEPT !.phase = "answered"])
         /\ Ended(turn, [turn EXCEPT !.phase = "broken"])
         /\ Ended(turn, [turn EXCEPT !.phase = "paused", !.pauses = @ + 1])
<1>1. turn.pauses \in Nat /\ turn.pauses + 1 \in Nat
  BY DEF TurnType
<1> QED
  BY <1>1 DEF Ended, TurnType

LEMMA TurnEndsKeeps ==
  ASSUME RunInv, NEW d \in Driver, TurnEnds(d)
  PROVE  RunInv'
<1> DEFINE t == driver[d].at
<1>1. /\ driver[d].pc \in {"running", "continuing"} /\ t \in 1..Len(turns)
      /\ turns[t].step = At(driver[d].done) /\ turns[t] \in TurnType /\ turns \in Seq(TurnType)
  BY DriverKnown, Known DEF TurnEnds, DriverFine
<1>2. PICK new \in TurnType, pc \in {"recording", "pausing", "failing"} :
        Ended(turns[t], new) /\ turns' = [turns EXCEPT ![t] = new] /\ Goto(d, pc)
  <2>1. \/ turns' = [turns EXCEPT ![t] = [turns[t] EXCEPT !.phase = "answered"]]
           /\ Goto(d, "recording")
        \/ turns' = [turns EXCEPT ![t] = [turns[t] EXCEPT !.phase = "paused", !.pauses = @ + 1]]
           /\ Goto(d, "pausing")
        \/ turns' = [turns EXCEPT ![t] = [turns[t] EXCEPT !.phase = "broken"]]
           /\ Goto(d, "failing")
    BY <1>1 DEF TurnEnds
  <2>2. /\ Ended(turns[t], [turns[t] EXCEPT !.phase = "answered"])
        /\ Ended(turns[t], [turns[t] EXCEPT !.phase = "broken"])
        /\ Ended(turns[t], [turns[t] EXCEPT !.phase = "paused", !.pauses = @ + 1])
    BY <1>1, EndingIsAnEnd
  <2> HIDE DEF t
  <2> QED
    BY <2>1, <2>2 DEF Ended
<1>4. UNCHANGED <<run, row, gates, overlaps>> /\ troubles' \in 0..MaxTroubles
  BY Known DEF TurnEnds, counters
<1>5. TurnsGrown(turns, turns') /\ Len(turns') = Len(turns) /\ turns'[t].phase # "open"
  <2> HIDE DEF t
  <2> QED
    BY <1>1, <1>2, EndGrows, Zenon
<1> DEFINE me == [driver[d] EXCEPT !.pc = pc]
<1>6. driver' = [driver EXCEPT ![d] = me]
  BY <1>2 DEF Goto
<1>7. me \in DriverType /\ me.pc = pc /\ me.done = driver[d].done /\ me.at = t
  BY DriverKnown DEF DriverType, Pc
<1>8. GatesGrown(gates, gates') /\ TurnsFine(gates', turns', overlaps')
  BY <1>4, <1>5, Known, PhasesMove
<1>9. DriverFine(driver[d], gates', turns', overlaps')
  BY <1>4, <1>5, <1>8, StillFine
<1> HIDE DEF me
<1>10. DriverFine(me, gates', turns', overlaps')
  BY <1>1, <1>5, <1>7, <1>9 DEF DriverFine, OnStep
<1>11. Agrees(me, row', overlaps')
  BY <1>1, <1>4, <1>7, DriverKnown DEF Agrees
<1> QED
  BY <1>1, <1>4, <1>5, <1>6, <1>7, <1>8, <1>10, <1>11, TablesStay, DriverMoves

(* An answer is recorded, and the walk goes on from the row as it is now. *)
LEMMA RecordAnswerKeeps ==
  ASSUME RunInv, NEW d \in Driver, RecordAnswer(d)
  PROVE  RunInv'
<1> DEFINE done == driver[d].done
           i == At(done)
           t == driver[d].at
           rec == [NoRow EXCEPT !.status = "completed", !.turn = t, !.output = t]
           now == [done EXCEPT ![i] = Upsert(row[i], rec)]
           me == [driver[d] EXCEPT !.done = now, !.pc = Enter(now)]
<1>1. /\ driver[d].pc = "recording" /\ driver' = [driver EXCEPT ![d] = me] /\ Record(d, rec)
      /\ UNCHANGED <<run, gates, turns, overlaps>> /\ troubles' \in 0..MaxTroubles
  BY Known DEF RecordAnswer, counters
<1>2. /\ t \in 1..Len(turns) /\ turns[t].step = i /\ turns[t].phase # "open" /\ t # 0 /\ t \in Nat
      /\ Left(done) # {} /\ i \in Step /\ done \in [Step -> Row]
      /\ \A j \in Step : j < i => done[j].status = "completed"
      /\ RowsFine(done, gates, turns)
      /\ overlaps = 0 => \A k \in Step : done[k].gate # 0 =>
           gates[done[k].gate].shown = Quotes(done, k)
  BY <1>1, DriverKnown, AtIsFirst DEF DriverFine, OnStep
<1>3. /\ rec \in Row /\ rec.status = "completed" /\ rec.awaiting = "none" /\ rec.gate = 0
      /\ rec.turn = t /\ rec.output = t
  BY <1>2 DEF NoRow, Row, StepStatus
<1> HIDE DEF rec
<1>4. RecFine(rec, i, gates, turns)
  BY <1>2, <1>3 DEF RecFine
<1>5. GatesGrown(gates, gates') /\ TurnsGrown(turns, turns')
      /\ RecFine(rec, i, gates', turns')
  BY <1>1, <1>4, Known
<1>6. /\ row' \in [Step -> Row] /\ RowsFine(row', gates', turns')
      /\ RowsShown(row', gates', overlaps')
      /\ \A j \in Step : row'[j] = IF j = i THEN Upsert(row[i], rec) ELSE row[j]
      /\ overlaps = 0 => \A j \in Step : j # i => row'[j] = done[j]
  BY <1>1, <1>3, <1>5, Recorded DEF OnStep
<1>7. /\ row[i] \in Row /\ RecFine(row[i], i, gates, turns)
  BY <1>2, Known DEF RowsFine
<1>8. /\ Upsert(row[i], rec) \in Row /\ RecFine(Upsert(row[i], rec), i, gates, turns)
      /\ Upsert(row[i], rec).gate = 0
  BY <1>3, <1>4, <1>7, UpsertIsFine
<1>9. /\ now \in [Step -> Row]
      /\ \A j \in Step : now[j] = IF j = i THEN Upsert(row[i], rec) ELSE done[j]
  BY <1>2, <1>8
<1> HIDE DEF now
<1>10. RowsFine(now, gates, turns)
  BY <1>2, <1>8, <1>9 DEF RowsFine
<1>11. overlaps = 0 => \A j \in Step : row'[j] = now[j]
  BY <1>6, <1>9
<1>12. ASSUME overlaps = 0, NEW k \in Step, now[k].gate # 0
       PROVE  gates[now[k].gate].shown = Quotes(now, k)
  <2>1. /\ row'[k].gate # 0 /\ gates'[row'[k].gate].shown = Quotes(row', k)
    BY <1>1, <1>6, <1>11, <1>12 DEF RowsShown
  <2>2. \A j \in 1..(k - 1) : row'[j].output = now[j].output
    BY <1>11, <1>12, StepsAssumption DEF Step
  <2>3. Quotes(row', k) = Quotes(now, k)
    BY <2>2, QuotesSame
  <2> QED
    BY <1>1, <1>11, <1>12, <2>1, <2>3
<1>13. me.done = now /\ me.pc = Enter(now) /\ me.at = driver[d].at
  BY DriverKnown DEF DriverType
<1>14. /\ DriverFine(me, gates, turns, overlaps)
       /\ me.pc \in {"completing", "resuming", "sending", "gating", "asking"}
  BY <1>9, <1>10, <1>12, <1>13, EnterFine
<1>15. me \in DriverType
  BY <1>9, <1>13, <1>14, DriverKnown DEF DriverType, Pc
<1> HIDE DEF me
<1>16. Agrees(me, row', overlaps')
  BY <1>1, <1>11, <1>13 DEF Agrees
<1>17. DriverFine(me, gates', turns', overlaps') /\ TurnsFine(gates', turns', overlaps')
  BY <1>1, <1>14, Known
<1> QED
  BY <1>1, <1>5, <1>6, <1>15, <1>16, <1>17, DriverMoves

LEMMA StoreRejectsKeeps ==
  ASSUME RunInv, NEW d \in Driver, StoreRejects(d)
  PROVE  RunInv'
<1>1. /\ driver[d].pc \in OnStep /\ driver[d].pc \notin {"idle", "reading"} /\ Goto(d, "failing")
      /\ UNCHANGED <<run, row, gates, turns, overlaps>>
      /\ troubles < MaxTroubles /\ troubles' = troubles + 1
  BY DEF StoreRejects, OnStep
<1>2. troubles' \in 0..MaxTroubles
  BY <1>1, Known, BoundsAssumption
<1> QED
  BY <1>1, <1>2, LeavesTables

-----------------------------------------------------------------------------
(* The ways in and out: who drives changes, the tables hardly. *)
LEMMA OthersStay ==
  ASSUME RunInv, NEW d \in Driver, NEW me, me \in DriverType,
         driver' = [driver EXCEPT ![d] = me], me.pc \in {"idle", "reading"},
         me.done = driver[d].done \/ me = Idle,
         run' \in RunStatus, overlaps' \in 0..MaxOverlaps, overlaps <= overlaps',
         troubles' \in 0..MaxTroubles, UNCHANGED <<row, gates>>,
         TurnsGrown(turns, turns'), Len(turns') = Len(turns), Solo'
  PROVE  RunInv'
<1>1. /\ driver' \in [Driver -> DriverType]
      /\ \A e \in Driver : driver'[e] = IF e = d THEN me ELSE driver[e]
  BY Known
<1>2. overlaps' \in Nat /\ (overlaps' = 0 => overlaps = 0)
  BY Known, BoundsAssumption
<1>3. GatesGrown(gates, gates')
  BY Known
<1>4. RowsFine(row', gates', turns') /\ row' \in [Step -> Row]
  BY <1>3, Known, RowsStay
<1>5. RowsShown(row', gates', overlaps')
  BY <1>2, Known DEF RowsShown
<1>6. TurnsFine(gates, turns', overlaps)
  BY Known, PhasesMove
<1>7. TurnsFine(gates', turns', overlaps')
  BY <1>2, <1>3, <1>6, Known, TurnsStay
<1>8. TypeOK'
  <2>1. \A i \in Step : row'[i].awaiting # "none" <=> row'[i].status = "awaiting_approval"
    BY <1>4 DEF RowsFine, RecFine
  <2> QED
    BY <1>1, <1>4, <2>1, Known DEF TypeOK, TurnsGrown, GateType, TurnType, DriverType
<1>9. RowsFine(me.done, gates', turns')
  <2>1. RowsFine(driver[d].done, gates', turns')
    BY <1>3, DriverKnown, RowsStay
  <2>2. RowsFine(Idle.done, gates', turns')
    BY IdleIsFine DEF DriverFine
  <2> QED
    BY <2>1, <2>2
<1>10. DriverFine(me, gates', turns', overlaps') /\ Agrees(me, row', overlaps')
  BY <1>9 DEF DriverFine, Agrees, OnStep
<1>11. ASSUME NEW e \in Driver
       PROVE  DriverFine(driver'[e], gates', turns', overlaps') /\ Agrees(driver'[e], row', overlaps')
  <2>1. CASE e = d
    BY <1>1, <1>10, <2>1
  <2>2. CASE e # d
    <3>1. driver'[e] = driver[e] /\ driver[e] \in DriverType
      BY <1>1, <2>2, DriverKnown
    <3>2. DriverFine(driver[e], gates', turns', overlaps')
      BY <1>2, <1>3, <3>1, DriverStays, DriverKnown, Known
    <3>3. Agrees(driver[e], row', overlaps')
      BY <1>2, DriverKnown DEF Agrees
    <3> QED
      BY <3>1, <3>2, <3>3
  <2> QED
    BY <2>1, <2>2
<1> QED
  BY <1>4, <1>5, <1>7, <1>8, <1>11 DEF RunInv

LEMMA StartKeeps ==
  ASSUME RunInv, NEW d \in Driver, Start(d)
  PROVE  RunInv'
<1> DEFINE me == [driver[d] EXCEPT !.pc = "reading"]
<1>1. /\ run = "absent" /\ run' = "running" /\ driver' = [driver EXCEPT ![d] = me]
      /\ UNCHANGED <<row, gates, turns, overlaps, troubles>>
  BY DEF Start, Goto, counters
<1>2. me \in DriverType /\ me.pc = "reading" /\ me.done = driver[d].done
  BY DriverKnown DEF DriverType, Pc
<1> HIDE DEF me
<1>3. \A e \in Driver : driver'[e] = IF e = d THEN me ELSE driver[e]
  BY <1>1, Known
<1>4. Solo'
  BY <1>1, <1>2, <1>3 DEF RunInv, Solo, Terminal
<1>5. run' \in RunStatus /\ TurnsGrown(turns, turns') /\ Len(turns') = Len(turns)
      /\ overlaps' \in 0..MaxOverlaps /\ overlaps <= overlaps' /\ troubles' \in 0..MaxTroubles
  BY <1>1, Known DEF RunStatus
<1> QED
  BY <1>1, <1>2, <1>4, <1>5, OthersStay

LEMMA ResumeKeeps ==
  ASSUME RunInv, NEW d \in Driver, Resume(d)
  PROVE  RunInv'
<1> DEFINE me == [driver[d] EXCEPT !.pc = "reading"]
<1>1. /\ driver[d].pc = "idle" /\ run \notin Terminal \cup {"absent"}
      /\ driver' = [driver EXCEPT ![d] = me]
      /\ UNCHANGED <<run, row, gates, turns, troubles>>
  BY DEF Resume, Goto, Resumable
<1>2. \/ (\A e \in Driver : driver[e].pc = "idle") /\ overlaps' = overlaps
      \/ overlaps < MaxOverlaps /\ overlaps' = overlaps + 1
  BY DEF Resume
<1>3. overlaps' \in 0..MaxOverlaps /\ overlaps <= overlaps'
  BY <1>2, Known, BoundsAssumption
<1>4. me \in DriverType /\ me.pc = "reading" /\ me.done = driver[d].done
  BY DriverKnown DEF DriverType, Pc
<1> HIDE DEF me
<1>5. \A e \in Driver : driver'[e] = IF e = d THEN me ELSE driver[e]
  BY <1>1, Known
<1>6. overlaps' = 0 => \A e \in Driver : driver[e].pc = "idle"
  BY <1>2, Known
<1>7. Solo'
  BY <1>1, <1>4, <1>5, <1>6 DEF Solo
<1>8. run' \in RunStatus /\ TurnsGrown(turns, turns') /\ Len(turns') = Len(turns)
      /\ troubles' \in 0..MaxTroubles
  BY <1>1, Known
<1> QED
  BY <1>1, <1>3, <1>4, <1>7, <1>8, OthersStay

LEMMA EndDriveKeeps ==
  ASSUME RunInv, NEW d \in Driver, EndDrive(d)
  PROVE  RunInv'
<1>1. /\ driver[d].pc # "idle" /\ driver' = [driver EXCEPT ![d] = Idle]
      /\ run' \in {"awaiting_approval", "completed", "failed"}
      /\ UNCHANGED <<row, gates, turns, overlaps, troubles>>
  BY DEF EndDrive, counters
<1>2. Idle \in DriverType /\ Idle.pc = "idle"
  BY IdleIsFine
<1>3. \A e \in Driver : driver'[e] = IF e = d THEN Idle ELSE driver[e]
  BY <1>1, <1>2, Known
<1> HIDE DEF Idle
<1>4. Solo'
  BY <1>1, <1>2, <1>3 DEF RunInv, Solo, Terminal
<1>5. run' \in RunStatus /\ TurnsGrown(turns, turns') /\ Len(turns') = Len(turns)
      /\ overlaps' \in 0..MaxOverlaps /\ overlaps <= overlaps' /\ troubles' \in 0..MaxTroubles
  BY <1>1, Known DEF RunStatus
<1> QED
  BY <1>1, <1>2, <1>4, <1>5, OthersStay

LEMMA CrashKeeps ==
  ASSUME RunInv, NEW d \in Driver, Crash(d)
  PROVE  RunInv'
<1>1. /\ driver[d].pc # "idle" /\ driver' = [driver EXCEPT ![d] = Idle]
      /\ UNCHANGED <<run, row, gates, overlaps>>
      /\ troubles < MaxTroubles /\ troubles' = troubles + 1
      /\ \/ turns' = turns
         \/ /\ driver[d].pc = "continuing"
            /\ turns' = [turns EXCEPT ![driver[d].at].phase = "broken"]
  BY DEF Crash
<1>2. Idle \in DriverType /\ Idle.pc = "idle"
  BY IdleIsFine
<1>3. \A e \in Driver : driver'[e] = IF e = d THEN Idle ELSE driver[e]
  BY <1>1, <1>2, Known
<1>4. Solo'
  BY <1>1, <1>2, <1>3 DEF RunInv, Solo
<1>5. TurnsGrown(turns, turns') /\ Len(turns') = Len(turns)
  <2>1. CASE turns' = turns
    BY <2>1, Known
  <2>2. CASE /\ driver[d].pc = "continuing"
             /\ turns' = [turns EXCEPT ![driver[d].at].phase = "broken"]
    <3> DEFINE t == driver[d].at
    <3>1. t \in 1..Len(turns) /\ turns[t] \in TurnType
      BY <2>2, DriverKnown, Known DEF DriverFine
    <3>2. Ended(turns[t], [turns[t] EXCEPT !.phase = "broken"])
      BY <3>1, EndingIsAnEnd
    <3>3. turns' = [turns EXCEPT ![t] = [turns[t] EXCEPT !.phase = "broken"]]
      BY <2>2, <3>1, Known
    <3>4. turns \in Seq(TurnType)
      BY Known
    <3> HIDE DEF t
    <3> QED
      BY <3>1, <3>2, <3>3, <3>4, EndGrows, Zenon
  <2> QED
    BY <1>1, <2>1, <2>2
<1>6. overlaps' \in 0..MaxOverlaps /\ overlaps <= overlaps' /\ troubles' \in 0..MaxTroubles
      /\ run' \in RunStatus
  BY <1>1, Known, BoundsAssumption
<1> QED
  BY <1>1, <1>2, <1>4, <1>5, <1>6, OthersStay

(* A person decides: nobody's stage depended on that gate being open. *)
LEMMA OperatorKeeps ==
  ASSUME RunInv, NEW g \in DOMAIN gates, NEW c \in Choice, Operator(g, c)
  PROVE  RunInv'
<1> DEFINE new == [gates[g] EXCEPT !.status = c]
<1>1. /\ g \in 1..Len(gates) /\ gates[g] \in GateType /\ gates[g].status = "pending"
      /\ gates' = [gates EXCEPT ![g] = new]
      /\ UNCHANGED <<run, row, turns, driver, overlaps, troubles>>
  BY Known DEF Operator, counters
<1>2. new \in GateType /\ new.step = gates[g].step /\ new.shown = gates[g].shown
  BY <1>1 DEF GateType
<1> HIDE DEF new
<1>3. /\ gates' \in Seq(GateType) /\ Len(gates') = Len(gates)
      /\ \A h \in 1..Len(gates) : gates'[h] = IF h = g THEN new ELSE gates[h]
  BY <1>1, <1>2, Known
<1>4. GatesGrown(gates, gates') /\ TurnsGrown(turns, turns')
  BY <1>1, <1>2, <1>3, Known DEF GatesGrown
<1>5. /\ RowsFine(row', gates', turns') /\ RowsShown(row', gates', overlaps')
      /\ TurnsFine(gates', turns', overlaps')
  BY <1>1, <1>4, TablesStay
<1>6. TypeOK'
  BY <1>1, <1>3 DEF RunInv, TypeOK, GateType
<1>7. ASSUME NEW e \in Driver
      PROVE  DriverFine(driver'[e], gates', turns', overlaps') /\ Agrees(driver'[e], row', overlaps')
  <2>1. DriverFine(driver[e], gates', turns', overlaps')
    BY <1>1, <1>4, StillFine
  <2> QED
    BY <1>1, <2>1, DriverKnown
<1>8. Solo'
  BY <1>1 DEF RunInv, Solo
<1> QED
  BY <1>5, <1>6, <1>7, <1>8 DEF RunInv

LEMMA NextKeeps == RunInv /\ [Next]_vars => RunInv'
<1> SUFFICES ASSUME RunInv, [Next]_vars PROVE RunInv'
  OBVIOUS
<1>1. ASSUME NEW d \in Driver, Drive(d) PROVE RunInv'
  BY <1>1, ReadStepsKeeps, ReadGateKeeps, AskKeeps, NoteGateKeeps, SendKeeps, ResumeTurnKeeps,
     TurnEndsKeeps, RecordAnswerKeeps, RecordPauseKeeps, RecordSkipKeeps, RecordFailureKeeps,
     EndDriveKeeps, Zenon DEF Drive
<1>2. ASSUME NEW d \in Driver, Start(d) \/ Resume(d) \/ StoreRejects(d) \/ Crash(d)
      PROVE  RunInv'
  BY <1>2, StartKeeps, ResumeKeeps, StoreRejectsKeeps, CrashKeeps, Zenon
<1>3. ASSUME NEW g \in DOMAIN gates, NEW c \in Choice, Operator(g, c) PROVE RunInv'
  BY <1>3, OperatorKeeps
<1>4. CASE UNCHANGED vars
  <2>1. UNCHANGED <<run, row, gates, turns, driver, overlaps, troubles>>
    BY <1>4 DEF vars, counters
  <2>2. TypeOK' /\ Solo'
    BY <2>1 DEF RunInv, TypeOK, Solo
  <2>3. /\ RowsFine(row', gates', turns') /\ TurnsFine(gates', turns', overlaps')
        /\ RowsShown(row', gates', overlaps')
        /\ \A d \in Driver : /\ DriverFine(driver'[d], gates', turns', overlaps')
                             /\ Agrees(driver'[d], row', overlaps')
    BY <2>1 DEF RunInv
  <2> QED
    BY <2>2, <2>3 DEF RunInv
<1> QED
  BY <1>1, <1>2, <1>3, <1>4, Zenon DEF Next

LEMMA Inductive == Spec => []RunInv
BY InitHolds, NextKeeps, PTL DEF Spec

-----------------------------------------------------------------------------
(* No turn rests on gate g. *)
Fresh(ts, g) == \A t \in 1..Len(ts) : ts[t].gate # g

(* What a driver is about to rest a turn on, no turn rests on yet. *)
HoldsFresh(me, ts) ==
    /\ me.pc = "noting" => Fresh(ts, me.at)
    /\ me.pc \in {"gating", "sending", "skipping"} /\ me.done[At(me.done)].gate # 0 =>
         Fresh(ts, me.done[At(me.done)].gate)

(* While nobody overlaps, a gate a row or a driver still names is unspent, *)
(* and no two turns rest on the same one.                                  *)
SpentInv ==
    overlaps = 0 =>
      /\ \A t, u \in 1..Len(turns) :
           turns[t].gate # 0 /\ turns[t].gate = turns[u].gate => t = u
      /\ \A i \in Step : row[i].gate # 0 => Fresh(turns, row[i].gate)
      /\ \A d \in Driver : HoldsFresh(driver[d], turns)

LEMMA SpentAtFirst == Init => SpentInv
<1> SUFFICES ASSUME Init PROVE SpentInv
  OBVIOUS
<1>1. turns = <<>> /\ Len(turns) = 0
  BY DEF Init
<1>2. \A g : Fresh(turns, g)
  BY <1>1 DEF Fresh
<1> QED
  BY <1>1, <1>2 DEF SpentInv, HoldsFresh

(* A driver moves and sends nothing. *)
LEMMA NothingSpent ==
  ASSUME RunInv, SpentInv, NEW d \in Driver, NEW me, driver' = [driver EXCEPT ![d] = me],
         overlaps' = 0 => overlaps = 0, TurnsGrown(turns, turns'), Len(turns') = Len(turns),
         overlaps = 0 => \A i \in Step : row'[i].gate # 0 => Fresh(turns, row'[i].gate),
         overlaps = 0 => HoldsFresh(me, turns)
  PROVE  SpentInv'
<1> SUFFICES ASSUME overlaps' = 0
             PROVE  /\ \A t, u \in 1..Len(turns') :
                         turns'[t].gate # 0 /\ turns'[t].gate = turns'[u].gate => t = u
                    /\ \A i \in Step : row'[i].gate # 0 => Fresh(turns', row'[i].gate)
                    /\ \A e \in Driver : HoldsFresh(driver'[e], turns')
  BY DEF SpentInv
<1>1. \A t \in 1..Len(turns) : turns'[t].gate = turns[t].gate
  BY DEF TurnsGrown
<1>2. \A g : Fresh(turns, g) => Fresh(turns', g)
  BY <1>1 DEF Fresh
<1>3. \A e \in Driver : driver'[e] = IF e = d THEN me ELSE driver[e]
  BY Known
<1>4. \A x : HoldsFresh(x, turns) => HoldsFresh(x, turns')
  BY <1>2 DEF HoldsFresh
<1>5. \A e \in Driver : HoldsFresh(driver'[e], turns)
  BY <1>3 DEF SpentInv
<1> QED
  BY <1>1, <1>2, <1>4, <1>5 DEF SpentInv

(* What a write leaves in the column of the approval. *)
LEMMA GateWritten ==
  ASSUME RunInv, NEW d \in Driver, driver[d].pc \in OnStep, NEW rec \in Row, Record(d, rec)
  PROVE  \A j \in Step :
           row'[j].gate = IF j = At(driver[d].done) THEN rec.gate ELSE row[j].gate
<1>1. row \in [Step -> Row] /\ At(driver[d].done) \in Step
  BY Known, DriverKnown
<1>2. Upsert(row[At(driver[d].done)], rec).gate = rec.gate
  BY DEF Upsert, Row
<1>3. row' = [row EXCEPT ![At(driver[d].done)] = Upsert(row[At(driver[d].done)], rec)]
  BY DEF Record
<1> QED
  BY <1>1, <1>2, <1>3

(* A driver that leaves its step, its row with a fresh gate or none. *)
LEMMA WriteSpends ==
  ASSUME RunInv, SpentInv, NEW d \in Driver, driver[d].pc \in OnStep,
         NEW rec \in Row, Record(d, rec), NEW pc, pc \in {"waiting", "declined", "broken"},
         Goto(d, pc), UNCHANGED <<gates, turns, counters>>,
         overlaps = 0 /\ rec.gate # 0 => Fresh(turns, rec.gate)
  PROVE  SpentInv'
<1> DEFINE me == [driver[d] EXCEPT !.pc = pc]
<1>1. driver' = [driver EXCEPT ![d] = me]
  BY DEF Goto
<1>2. me.pc = pc
  BY DriverKnown DEF DriverType
<1> HIDE DEF me
<1>3. HoldsFresh(me, turns)
  BY <1>2 DEF HoldsFresh
<1>4. overlaps = 0 => \A i \in Step : row'[i].gate # 0 => Fresh(turns, row'[i].gate)
  BY GateWritten DEF SpentInv
<1>5. TurnsGrown(turns, turns') /\ Len(turns') = Len(turns) /\ overlaps' = overlaps
  BY Known DEF counters
<1> QED
  BY <1>1, <1>3, <1>4, <1>5, NothingSpent

LEMMA WritesSpendNothing ==
  ASSUME RunInv, SpentInv, NEW d \in Driver,
         NoteGate(d) \/ RecordPause(d) \/ RecordSkip(d) \/ RecordFailure(d)
  PROVE  SpentInv'
<1>1. CASE NoteGate(d)
  <2> DEFINE rec == GateRow(driver[d].at)
  <2>1. driver[d].pc = "noting" /\ driver[d].pc \in OnStep
    BY <1>1 DEF NoteGate, OnStep
  <2>2. rec \in Row /\ rec.gate = driver[d].at
    BY DriverKnown DEF GateRow, NoRow, Row, StepStatus
  <2>3. overlaps = 0 => Fresh(turns, rec.gate)
    BY <2>1, <2>2 DEF SpentInv, HoldsFresh
  <2>4. Record(d, rec) /\ Goto(d, "waiting") /\ UNCHANGED <<gates, turns, counters>>
    BY <1>1 DEF NoteGate
  <2> HIDE DEF rec
  <2> QED
    BY <2>1, <2>2, <2>3, <2>4, WriteSpends
<1>2. CASE RecordPause(d)
  <2> DEFINE rec == [NoRow EXCEPT !.status = "awaiting_approval", !.awaiting = "tool",
                                 !.turn = driver[d].at]
  <2>1. driver[d].pc \in OnStep
    BY <1>2 DEF RecordPause, OnStep
  <2>2. rec \in Row /\ rec.gate = 0
    BY DriverKnown DEF NoRow, Row, StepStatus
  <2>3. Record(d, rec) /\ Goto(d, "waiting") /\ UNCHANGED <<gates, turns, counters>>
    BY <1>2 DEF RecordPause
  <2> HIDE DEF rec
  <2> QED
    BY <2>1, <2>2, <2>3, WriteSpends
<1>3. CASE RecordSkip(d)
  <2> DEFINE g == driver[d].done[At(driver[d].done)].gate
             rec == [NoRow EXCEPT !.status = "skipped", !.gate = g]
  <2>1. driver[d].pc = "skipping" /\ driver[d].pc \in OnStep
    BY <1>3 DEF RecordSkip, OnStep
  <2>2. g \in Nat
    BY <2>1, DriverKnown DEF Row
  <2>3. overlaps = 0 /\ g # 0 => Fresh(turns, g)
    BY <2>1 DEF SpentInv, HoldsFresh
  <2>4. Record(d, rec) /\ Goto(d, "declined") /\ UNCHANGED <<gates, turns, counters>>
    BY <1>3 DEF RecordSkip
  <2> HIDE DEF g
  <2>5. rec \in Row /\ rec.gate = g
    BY <2>2 DEF NoRow, Row, StepStatus
  <2> HIDE DEF rec
  <2> QED
    BY <2>1, <2>3, <2>4, <2>5, WriteSpends
<1>4. CASE RecordFailure(d)
  <2> DEFINE rec == [NoRow EXCEPT !.status = "failed"]
  <2>1. rec \in Row /\ rec.gate = 0
    BY DEF NoRow, Row, StepStatus
  <2>2. /\ Record(d, rec) /\ Goto(d, "broken") /\ UNCHANGED <<gates, turns, counters>>
        /\ driver[d].pc \in OnStep
    BY <1>4 DEF RecordFailure, OnStep
  <2> HIDE DEF rec
  <2> QED
    BY <2>1, <2>2, WriteSpends
<1> QED
  BY <1>1, <1>2, <1>3, <1>4

(* A driver that enters a step, from rows that name unspent gates only. *)
LEMMA EntersFresh ==
  ASSUME NEW done \in [Step -> Row], NEW ts, NEW me, me.done = done, me.pc = Enter(done),
         \A i \in Left(done) : done[i].gate # 0 => Fresh(ts, done[i].gate)
  PROVE  HoldsFresh(me, ts)
<1>1. me.pc \in {"completing", "resuming", "sending", "gating", "asking"}
  BY DEF Enter
<1>2. me.pc # "completing" => Left(done) # {}
  BY DEF Enter
<1>3. me.pc # "completing" => At(done) \in Left(done)
  BY <1>2, AtIsFirst DEF Left, Over
<1> QED
  BY <1>1, <1>3 DEF HoldsFresh

LEMMA ReadStepsSpendsNothing ==
  ASSUME RunInv, SpentInv, NEW d \in Driver, ReadSteps(d)
  PROVE  SpentInv'
<1> DEFINE me == [driver[d] EXCEPT !.done = row, !.pc = Enter(row)]
<1>1. driver' = [driver EXCEPT ![d] = me] /\ UNCHANGED <<row, turns, overlaps>>
  BY DEF ReadSteps, counters
<1>2. me.done = row /\ me.pc = Enter(row)
  BY DriverKnown DEF DriverType
<1> HIDE DEF me
<1>3. overlaps = 0 => \A i \in Left(row) : row[i].gate # 0 => Fresh(turns, row[i].gate)
  BY DEF SpentInv, Left
<1>4. row \in [Step -> Row]
  BY Known
<1>5. overlaps = 0 => HoldsFresh(me, turns)
  BY <1>2, <1>3, <1>4, EntersFresh
<1>6. TurnsGrown(turns, turns') /\ Len(turns') = Len(turns)
  BY <1>1, Known
<1>7. overlaps = 0 => \A i \in Step : row'[i].gate # 0 => Fresh(turns, row'[i].gate)
  BY <1>1 DEF SpentInv
<1> QED
  BY <1>1, <1>5, <1>6, <1>7, NothingSpent

LEMMA RecordAnswerSpendsNothing ==
  ASSUME RunInv, SpentInv, NEW d \in Driver, RecordAnswer(d)
  PROVE  SpentInv'
<1> DEFINE done == driver[d].done
           i == At(done)
           rec == [NoRow EXCEPT !.status = "completed", !.turn = driver[d].at,
                                !.output = driver[d].at]
           now == [done EXCEPT ![i] = Upsert(row[i], rec)]
           me == [driver[d] EXCEPT !.done = now, !.pc = Enter(now)]
<1>1. /\ driver[d].pc = "recording" /\ driver' = [driver EXCEPT ![d] = me] /\ Record(d, rec)
      /\ UNCHANGED <<turns, overlaps>>
  BY DEF RecordAnswer, counters
<1>2. /\ i \in Step /\ done \in [Step -> Row] /\ row \in [Step -> Row] /\ driver[d].at \in Nat
      /\ Left(done) # {}
  BY <1>1, DriverKnown, Known DEF OnStep
<1>3. rec \in Row /\ rec.gate = 0 /\ rec.status = "completed"
  BY <1>2 DEF NoRow, Row, StepStatus
<1>4. me.done = now /\ me.pc = Enter(now)
  BY DriverKnown DEF DriverType
<1> HIDE DEF me, rec
<1>5. Upsert(row[i], rec) \in Row /\ Upsert(row[i], rec).status = "completed"
  BY <1>2, <1>3 DEF Upsert, Row
<1>6. now \in [Step -> Row] /\ \A k \in Step : now[k] = IF k = i THEN Upsert(row[i], rec) ELSE done[k]
  BY <1>2, <1>5
<1>7. overlaps = 0 => \A k \in Step : k # i => row[k] = done[k]
  BY <1>1, DriverKnown DEF Agrees
<1>8. overlaps = 0 => \A k \in Left(now) : now[k].gate # 0 => Fresh(turns, now[k].gate)
  <2> SUFFICES ASSUME overlaps = 0, NEW k \in Left(now), now[k].gate # 0
               PROVE  Fresh(turns, now[k].gate)
    OBVIOUS
  <2>1. k \in Step /\ now[k].status # "completed"
    BY DEF Left, Over
  <2> HIDE DEF now, i, done
  <2>2. now[k] = row[k]
    BY <1>5, <1>6, <1>7, <2>1
  <2> QED
    BY <2>1, <2>2 DEF SpentInv
<1> HIDE DEF now
<1>9. overlaps = 0 => HoldsFresh(me, turns)
  BY <1>4, <1>6, <1>8, EntersFresh
<1>10. overlaps = 0 => \A k \in Step : row'[k].gate # 0 => Fresh(turns, row'[k].gate)
  BY <1>1, <1>3, GateWritten DEF SpentInv, OnStep
<1>11. TurnsGrown(turns, turns') /\ Len(turns') = Len(turns)
  BY <1>1, Known
<1> QED
  BY <1>1, <1>9, <1>10, <1>11, NothingSpent

LEMMA ReadGateSpendsNothing ==
  ASSUME RunInv, SpentInv, NEW d \in Driver, ReadGate(d)
  PROVE  SpentInv'
<1> DEFINE status == gates[driver[d].done[At(driver[d].done)].gate].status
           pc == IF Waits(status) THEN "waiting"
                 ELSE IF status = "rejected" THEN "skipping" ELSE "sending"
           me == [driver[d] EXCEPT !.pc = pc]
<1>1. /\ driver[d].pc = "gating" /\ driver' = [driver EXCEPT ![d] = me]
      /\ UNCHANGED <<row, turns, overlaps>>
  BY DEF ReadGate, Goto, counters
<1>2. me.pc \in {"waiting", "skipping", "sending"} /\ me.done = driver[d].done
  BY DriverKnown DEF DriverType
<1> HIDE DEF me
<1>3. overlaps = 0 => HoldsFresh(me, turns)
  BY <1>1, <1>2 DEF SpentInv, HoldsFresh
<1>4. TurnsGrown(turns, turns') /\ Len(turns') = Len(turns)
  BY <1>1, Known
<1>5. overlaps = 0 => \A k \in Step : row'[k].gate # 0 => Fresh(turns, row'[k].gate)
  BY <1>1 DEF SpentInv
<1> QED
  BY <1>1, <1>3, <1>4, <1>5, NothingSpent

LEMMA AskSpendsNothing ==
  ASSUME RunInv, SpentInv, NEW d \in Driver, Ask(d)
  PROVE  SpentInv'
<1> DEFINE n == Len(gates) + 1
           me == [driver[d] EXCEPT !.pc = "noting", !.at = n]
<1>1. driver' = [driver EXCEPT ![d] = me] /\ UNCHANGED <<row, turns, overlaps>>
  BY DEF Ask, counters
<1>2. me.pc = "noting" /\ me.at = n
  BY DriverKnown DEF DriverType
<1> HIDE DEF me
<1>3. Len(gates) \in Nat /\ \A t \in 1..Len(turns) : turns[t].gate # 0 => turns[t].gate \in 1..Len(gates)
  BY Known DEF TurnsFine
<1>4. Fresh(turns, n)
  BY <1>3 DEF Fresh
<1>5. HoldsFresh(me, turns)
  BY <1>2, <1>4 DEF HoldsFresh
<1>6. TurnsGrown(turns, turns') /\ Len(turns') = Len(turns)
  BY <1>1, Known
<1>7. overlaps = 0 => \A k \in Step : row'[k].gate # 0 => Fresh(turns, row'[k].gate)
  BY <1>1 DEF SpentInv
<1> QED
  BY <1>1, <1>5, <1>6, <1>7, NothingSpent

(* The turn takes the approval its row had, and the row names none. *)
LEMMA SendSpendsOne ==
  ASSUME RunInv, SpentInv, NEW d \in Driver, Send(d)
  PROVE  SpentInv'
<1> SUFFICES ASSUME overlaps = 0
             PROVE  /\ \A t, u \in 1..Len(turns') :
                         turns'[t].gate # 0 /\ turns'[t].gate = turns'[u].gate => t = u
                    /\ \A k \in Step : row'[k].gate # 0 => Fresh(turns', row'[k].gate)
                    /\ \A e \in Driver : HoldsFresh(driver'[e], turns')
  BY DEF SpentInv, Send, counters
<1> DEFINE done == driver[d].done
           i == At(done)
           g == done[i].gate
           n == Len(turns) + 1
           new == [step |-> i, gate |-> g, quotes |-> Quotes(done, i),
                   pauses |-> 0, phase |-> "open"]
           rec == [NoRow EXCEPT !.status = "running", !.turn = n]
           me == [driver[d] EXCEPT !.pc = "running", !.at = n]
<1>1. /\ driver[d].pc = "sending" /\ driver' = [driver EXCEPT ![d] = me]
      /\ turns' = Append(turns, new) /\ Record(d, rec)
  BY DEF Send
<1>2. /\ i \in Step /\ RowsFine(done, gates, turns) /\ RowsFine(row, gates, turns)
      /\ turns \in Seq(TurnType)
  BY <1>1, DriverKnown, Known DEF OnStep
<1>3. /\ Len(turns') = n /\ n \in Nat /\ turns'[n].gate = g
      /\ \A t \in 1..Len(turns) : turns'[t] = turns[t]
      /\ \A t \in 1..Len(turns') : t = n \/ t \in 1..Len(turns)
  BY <1>1, <1>2
<1>4. rec \in Row /\ rec.gate = 0
  BY <1>3 DEF NoRow, Row, StepStatus
<1>5. me.pc = "running"
  BY DriverKnown DEF DriverType
<1>6. g # 0 => Fresh(turns, g)
  BY <1>1 DEF SpentInv, HoldsFresh
<1> HIDE DEF me, new, rec, n
<1>7. \A k \in Step : row'[k].gate = IF k = i THEN 0 ELSE row[k].gate
  BY <1>1, <1>4, GateWritten DEF OnStep
<1>8. ASSUME NEW k \in Step, row'[k].gate # 0
      PROVE  Fresh(turns', row'[k].gate)
  <2>1. k # i /\ row'[k].gate = row[k].gate
    BY <1>7, <1>8
  <2>2. Fresh(turns, row[k].gate)
    BY <1>8, <2>1 DEF SpentInv
  <2>3. g # row[k].gate
    <3>1. gates[row[k].gate].step = k
      BY <1>2, <1>8, <2>1 DEF RowsFine, RecFine
    <3>2. g # 0 => gates[g].step = i
      BY <1>2 DEF RowsFine, RecFine
    <3> HIDE DEF g, i
    <3> QED
      BY <1>8, <2>1, <3>1, <3>2
  <2> HIDE DEF g, i
  <2> QED
    BY <1>3, <2>1, <2>2, <2>3 DEF Fresh
<1>9. ASSUME NEW t \in 1..Len(turns'), NEW u \in 1..Len(turns'),
             turns'[t].gate # 0, turns'[t].gate = turns'[u].gate
      PROVE  t = u
  <2> HIDE DEF g
  <2>1. CASE t \in 1..Len(turns) /\ u \in 1..Len(turns)
    BY <1>3, <1>9, <2>1 DEF SpentInv
  <2>2. CASE t = n /\ u \in 1..Len(turns)
    BY <1>3, <1>6, <1>9, <2>2 DEF Fresh
  <2>3. CASE u = n /\ t \in 1..Len(turns)
    BY <1>3, <1>6, <1>9, <2>3 DEF Fresh
  <2> QED
    BY <1>3, <2>1, <2>2, <2>3
<1>10. ASSUME NEW e \in Driver PROVE HoldsFresh(driver'[e], turns')
  <2>1. driver'[e].pc = "running" \/ driver'[e].pc = "idle"
    BY <1>1, <1>5, Known DEF RunInv, Solo
  <2> QED
    BY <2>1 DEF HoldsFresh
<1> QED
  BY <1>8, <1>9, <1>10

(* A crash, or the end of a turn, changes no turn but in its phase. *)
LEMMA TurnsOnlyEnd ==
  ASSUME RunInv, NEW d \in Driver,
         \/ Start(d) \/ Resume(d) \/ StoreRejects(d) \/ Crash(d)
         \/ ResumeTurn(d) \/ TurnEnds(d) \/ EndDrive(d)
  PROVE  TurnsGrown(turns, turns') /\ Len(turns') = Len(turns)
<1> DEFINE t == driver[d].at
<1>1. CASE turns' = turns
  BY <1>1, Known
<1>2. CASE turns' # turns
  <2>1. /\ driver[d].pc \in {"running", "continuing"}
        /\ \/ turns' = [turns EXCEPT ![t].phase = "answered"]
           \/ turns' = [turns EXCEPT ![t].phase = "paused", ![t].pauses = @ + 1]
           \/ turns' = [turns EXCEPT ![t].phase = "broken"]
    BY <1>2 DEF Start, Resume, StoreRejects, Crash, ResumeTurn, TurnEnds, EndDrive
  <2>2. t \in 1..Len(turns) /\ turns \in Seq(TurnType) /\ turns[t] \in TurnType
    BY <2>1, DriverKnown, Known DEF DriverFine
  <2>3. PICK new \in TurnType : Ended(turns[t], new) /\ turns' = [turns EXCEPT ![t] = new]
    <3>1. \/ turns' = [turns EXCEPT ![t] = [turns[t] EXCEPT !.phase = "answered"]]
          \/ turns' = [turns EXCEPT ![t] = [turns[t] EXCEPT !.phase = "paused", !.pauses = @ + 1]]
          \/ turns' = [turns EXCEPT ![t] = [turns[t] EXCEPT !.phase = "broken"]]
      BY <2>1, <2>2
    <3>2. /\ Ended(turns[t], [turns[t] EXCEPT !.phase = "answered"])
          /\ Ended(turns[t], [turns[t] EXCEPT !.phase = "broken"])
          /\ Ended(turns[t], [turns[t] EXCEPT !.phase = "paused", !.pauses = @ + 1])
      BY <2>2, EndingIsAnEnd
    <3> HIDE DEF t
    <3> QED
      BY <3>1, <3>2 DEF Ended
  <2> HIDE DEF t
  <2> QED
    BY <2>2, <2>3, EndGrows, Zenon
<1> QED
  BY <1>1, <1>2

(* A driver that comes, goes or fails, or is at its agent. *)
LEMMA PassesBy ==
  ASSUME RunInv, SpentInv, RunInv', NEW d \in Driver,
         \/ Start(d) \/ Resume(d) \/ StoreRejects(d) \/ Crash(d)
         \/ ResumeTurn(d) \/ TurnEnds(d) \/ EndDrive(d)
  PROVE  SpentInv'
<1>1. \E me : /\ driver' = [driver EXCEPT ![d] = me]
              /\ me.pc \in {"reading", "failing", "idle", "continuing", "recording", "pausing"}
  <2>1. driver[d] \in DriverType /\ Idle.pc = "idle"
    BY DriverKnown, IdleIsFine
  <2>2. \A pc : [driver[d] EXCEPT !.pc = pc].pc = pc
    BY <2>1 DEF DriverType
  <2>3. \A t, pc : [driver[d] EXCEPT !.at = t, !.pc = pc].pc = pc
    BY <2>1 DEF DriverType
  <2>4. CASE Start(d) \/ Resume(d) \/ StoreRejects(d)
    BY <2>2, <2>4 DEF Start, Resume, StoreRejects, Goto
  <2>5. CASE Crash(d) \/ EndDrive(d)
    BY <2>1, <2>5 DEF Crash, EndDrive
  <2>6. CASE ResumeTurn(d)
    <3> DEFINE t == driver[d].done[At(driver[d].done)].turn
    <3>1. PICK pc \in {"continuing", "failing"} :
            driver' = [driver EXCEPT ![d] = [driver[d] EXCEPT !.at = t, !.pc = pc]]
      BY <2>1, <2>6 DEF ResumeTurn
    <3>2. [driver[d] EXCEPT !.at = t, !.pc = pc].pc = pc
      BY <2>3
    <3> HIDE DEF t
    <3> WITNESS [driver[d] EXCEPT !.at = t, !.pc = pc]
    <3> QED
      BY <3>1, <3>2
  <2>7. CASE TurnEnds(d)
    BY <2>2, <2>7 DEF TurnEnds, Goto
  <2> QED
    BY <2>4, <2>5, <2>6, <2>7
<1>2. PICK me : /\ driver' = [driver EXCEPT ![d] = me]
                /\ me.pc \in {"reading", "failing", "idle", "continuing", "recording", "pausing"}
  BY <1>1
<1>3. HoldsFresh(me, turns)
  BY <1>2 DEF HoldsFresh
<1>4. row' = row /\ (overlaps' = 0 => overlaps = 0)
  BY Known DEF Start, Resume, StoreRejects, Crash, ResumeTurn, TurnEnds, EndDrive, counters
<1>5. TurnsGrown(turns, turns') /\ Len(turns') = Len(turns)
  BY TurnsOnlyEnd
<1>6. overlaps = 0 => \A k \in Step : row'[k].gate # 0 => Fresh(turns, row'[k].gate)
  BY <1>4 DEF SpentInv
<1> QED
  BY <1>2, <1>3, <1>4, <1>5, <1>6, NothingSpent

LEMMA NextSpends == RunInv /\ SpentInv /\ [Next]_vars => SpentInv'
<1> SUFFICES ASSUME RunInv, SpentInv, [Next]_vars PROVE SpentInv'
  OBVIOUS
<1>1. RunInv'
  BY NextKeeps
<1>2. ASSUME NEW d \in Driver, Drive(d) PROVE SpentInv'
  BY <1>1, <1>2, ReadStepsSpendsNothing, ReadGateSpendsNothing, AskSpendsNothing,
     WritesSpendNothing, SendSpendsOne, RecordAnswerSpendsNothing, PassesBy, Zenon DEF Drive
<1>3. ASSUME NEW d \in Driver, Start(d) \/ Resume(d) \/ StoreRejects(d) \/ Crash(d)
      PROVE  SpentInv'
  BY <1>1, <1>3, PassesBy, Zenon
<1>4. ASSUME NEW g \in DOMAIN gates, NEW c \in Choice, Operator(g, c) PROVE SpentInv'
  BY <1>4 DEF Operator, counters, SpentInv
<1>5. CASE UNCHANGED vars
  BY <1>5 DEF vars, counters, SpentInv
<1> QED
  BY <1>2, <1>3, <1>4, <1>5, Zenon DEF Next

LEMMA ApprovalsAreSpent == Spec => []SpentInv
BY SpentAtFirst, NextSpends, Inductive, PTL DEF Spec

-----------------------------------------------------------------------------
(* What reaches an agent is what the gates let through, whoever overlaps:   *)
(* a gated step on a gate of its own that was approved (or, the exception,  *)
(* answered with a request for changes), every step after an answer of each *)
(* one before it; and while one driver walks at a time, as it was shown and *)
(* one turn to an approval (#drive, #step, #gate).                          *)
THEOREM SendsAreGated == Spec => []SendingIsGated
<1>1. RunInv /\ SpentInv => SendingIsGated
  <2> SUFFICES ASSUME RunInv, SpentInv PROVE SendingIsGated
    OBVIOUS
  <2>1. DOMAIN gates = 1..Len(gates) /\ DOMAIN turns = 1..Len(turns)
    BY Known
  <2>2. ASSUME NEW t \in DOMAIN turns
        PROVE  /\ \A j \in 1..(turns[t].step - 1) :
                    /\ turns[t].quotes[j] # 0
                    /\ turns[turns[t].quotes[j]].step = j
                    /\ turns[turns[t].quotes[j]].phase # "open"
               /\ turns[t].step \in GatedSteps =>
                    LetThrough(turns[t].gate, turns[t].step, turns[t].quotes, gates, overlaps)
    <3>1. t \in 1..Len(turns)
      BY <2>1
    <3>2. /\ \A j \in 1..(turns[t].step - 1) :
               /\ turns[t].quotes[j] \in 1..Len(turns)
               /\ turns[turns[t].quotes[j]].step = j
               /\ turns[turns[t].quotes[j]].phase # "open"
          /\ turns[t].step \in GatedSteps =>
               LetThrough(turns[t].gate, turns[t].step, turns[t].quotes, gates, overlaps)
      BY <3>1, Known DEF TurnsFine
    <3>3. \A j \in 1..(turns[t].step - 1) : turns[t].quotes[j] # 0
      BY <3>2
    <3> QED
      BY <3>2, <3>3
  <2>3. SentOnApproval
    BY <2>1, <2>2 DEF SentOnApproval, LetThrough, AskedFor
  <2>4. ApprovalIsSpent
    <3>1. ASSUME overlaps = 0, NEW t \in DOMAIN turns, NEW u \in DOMAIN turns,
                 turns[t].step \in GatedSteps, turns[t].gate = turns[u].gate
          PROVE  t = u
      <4>1. turns[t].gate # 0
        BY <2>2, <3>1 DEF LetThrough
      <4> QED
        BY <2>1, <3>1, <4>1 DEF SpentInv
    <3> QED
      BY <3>1 DEF ApprovalIsSpent
  <2>5. SentInOrder
    BY <2>2 DEF SentInOrder
  <2>6. SentIsWhatWasShown
    BY <2>2 DEF SentIsWhatWasShown, LetThrough
  <2> QED
    BY <2>3, <2>4, <2>5, <2>6 DEF SendingIsGated, RunInv
<1> QED
  BY <1>1, Inductive, ApprovalsAreSpent, PTL

(* What was recorded stays: an output is never lost, whichever driver       *)
(* writes the row next, and a finished run stays finished while nobody      *)
(* resumed it as it was driven (recordStep's coalesce, resume).             *)
THEOREM RecordsAreKept == Spec => RecordsStand
<1>1. RunInv /\ [Next]_vars =>
        [/\ \A i \in Step : row[i].output # 0 => row'[i].output # 0
         /\ (run \in Terminal /\ overlaps = 0) => run' = run]_vars
  <2> SUFFICES ASSUME RunInv, Next
               PROVE  /\ \A i \in Step : row[i].output # 0 => row'[i].output # 0
                      /\ (run \in Terminal /\ overlaps = 0) => run' = run
    BY Zenon
  <2>1. ASSUME NEW d \in Driver, NEW rec \in Row, Record(d, rec), NEW i \in Step,
               row[i].output # 0
        PROVE  row'[i].output # 0
    <3>1. row[i] \in Row /\ (row'[i] = row[i] \/ row'[i] = Upsert(row[i], rec))
      BY <2>1, Known DEF Record
    <3>2. Upsert(row[i], rec).output = IF rec.output = 0 THEN row[i].output ELSE rec.output
      BY <3>1 DEF Upsert, Row
    <3> QED
      BY <2>1, <3>1, <3>2
  <2>2. ASSUME NEW d \in Driver
        PROVE  /\ GateRow(driver[d].at) \in Row
               /\ [NoRow EXCEPT !.status = "running", !.turn = Len(turns) + 1] \in Row
               /\ [NoRow EXCEPT !.status = "completed", !.turn = driver[d].at,
                                !.output = driver[d].at] \in Row
               /\ [NoRow EXCEPT !.status = "awaiting_approval", !.awaiting = "tool",
                                !.turn = driver[d].at] \in Row
               /\ [NoRow EXCEPT !.status = "failed"] \in Row
    <3>1. driver[d].at \in Nat /\ Len(turns) + 1 \in Nat
      BY DriverKnown, Known
    <3> QED
      BY <3>1 DEF GateRow, NoRow, Row, StepStatus
  <2>3. ASSUME NEW d \in Driver, RecordSkip(d)
        PROVE  [NoRow EXCEPT !.status = "skipped",
                  !.gate = driver[d].done[At(driver[d].done)].gate] \in Row
    <3>1. driver[d].done[At(driver[d].done)].gate \in Nat
      BY <2>3, DriverKnown DEF RecordSkip, OnStep, Row
    <3> QED
      BY <3>1 DEF NoRow, Row, StepStatus
  <2>4. \/ UNCHANGED row
        \/ \E d \in Driver, rec \in Row : Record(d, rec)
    BY <2>2, <2>3, Zenon DEF Next, Drive, Start, Resume, ReadSteps, ReadGate, Ask, NoteGate, Send,
       ResumeTurn, TurnEnds, RecordAnswer, RecordPause, RecordSkip, RecordFailure, EndDrive,
       StoreRejects, Crash, Operator
  <2>5. run \in Terminal /\ overlaps = 0 => run' = run
    <3> SUFFICES ASSUME run \in Terminal, overlaps = 0 PROVE run' = run
      OBVIOUS
    <3>1. /\ \A d \in Driver : driver[d].pc = "idle"
          /\ run # "absent"
      BY DEF RunInv, Solo, Terminal
    <3> QED
      BY <3>1 DEF Next, Drive, Start, Resume, ReadSteps, ReadGate, Ask, NoteGate, Send,
         ResumeTurn, TurnEnds, RecordAnswer, RecordPause, RecordSkip, RecordFailure, EndDrive,
         StoreRejects, Crash, Operator
  <2> QED
    BY <2>1, <2>4, <2>5
<1> QED
  BY <1>1, Inductive, PTL DEF Spec, RecordsStand

(* A crash may end the turn it interrupts; a decision decides one gate. *)
LEMMA CrashGrows ==
  ASSUME RunInv, NEW d \in Driver,
         \/ turns' = turns
         \/ /\ driver[d].pc = "continuing"
            /\ turns' = [turns EXCEPT ![driver[d].at].phase = "broken"]
  PROVE  TurnsGrown(turns, turns') /\ Len(turns') = Len(turns)
<1>1. CASE turns' = turns
  BY <1>1, Known
<1>2. CASE /\ driver[d].pc = "continuing"
           /\ turns' = [turns EXCEPT ![driver[d].at].phase = "broken"]
  <2> DEFINE t == driver[d].at
  <2>1. t \in 1..Len(turns) /\ turns[t] \in TurnType
    BY <1>2, DriverKnown, Known DEF DriverFine
  <2>2. Ended(turns[t], [turns[t] EXCEPT !.phase = "broken"])
    BY <2>1, EndingIsAnEnd
  <2>3. turns' = [turns EXCEPT ![t] = [turns[t] EXCEPT !.phase = "broken"]]
    BY <1>2, <2>1, Known
  <2>4. turns \in Seq(TurnType)
    BY Known
  <2> HIDE DEF t
  <2> QED
    BY <2>1, <2>2, <2>3, <2>4, EndGrows, Zenon
<1> QED
  BY <1>1, <1>2

LEMMA DecisionGrows ==
  ASSUME RunInv, NEW g \in 1..Len(gates), NEW c \in Choice, gates[g].status = "pending",
         gates' = [gates EXCEPT ![g] = [gates[g] EXCEPT !.status = c]]
  PROVE  GatesGrown(gates, gates') /\ Len(gates') = Len(gates)
<1> DEFINE new == [gates[g] EXCEPT !.status = c]
<1>1. gates[g] \in GateType /\ gates \in Seq(GateType)
  BY Known
<1>2. new \in GateType /\ new.step = gates[g].step /\ new.shown = gates[g].shown
  BY <1>1 DEF GateType
<1>3. gates' = [gates EXCEPT ![g] = new]
  OBVIOUS
<1> HIDE DEF new
<1>4. /\ gates' \in Seq(GateType) /\ Len(gates') = Len(gates)
      /\ \A h \in 1..Len(gates) : gates'[h] = IF h = g THEN new ELSE gates[h]
  BY <1>1, <1>2, <1>3
<1> QED
  BY <1>1, <1>2, <1>4 DEF GatesGrown

-----------------------------------------------------------------------------
(* How often a step was sent, or asked about. *)
OfStep(s, i) == {k \in 1..Len(s) : s[k].step = i}
CountOf(s, i) == Cardinality(OfStep(s, i))

LEMMA CountIsNat ==
  ASSUME NEW s, Len(s) \in Nat, NEW i
  PROVE  IsFiniteSet(OfStep(s, i)) /\ CountOf(s, i) \in Nat
<1>1. IsFiniteSet(1..Len(s))
  BY FS_Interval
<1>2. IsFiniteSet(OfStep(s, i))
  BY <1>1, FS_Subset DEF OfStep
<1> QED
  BY <1>2, FS_CardinalityType DEF CountOf

LEMMA CountStays ==
  ASSUME NEW s, NEW u, Len(u) = Len(s), \A k \in 1..Len(s) : u[k].step = s[k].step, NEW i
  PROVE  CountOf(u, i) = CountOf(s, i)
<1>1. OfStep(u, i) = OfStep(s, i)
  BY DEF OfStep
<1> QED
  BY <1>1 DEF CountOf

LEMMA CountGrows ==
  ASSUME NEW s, NEW u, Len(s) \in Nat, Len(u) = Len(s) + 1,
         \A k \in 1..Len(s) : u[k].step = s[k].step, NEW i
  PROVE  CountOf(u, i) = CountOf(s, i) + IF u[Len(s) + 1].step = i THEN 1 ELSE 0
<1>1. IsFiniteSet(OfStep(s, i)) /\ CountOf(s, i) \in Nat
  BY CountIsNat
<1>2. CASE u[Len(s) + 1].step = i
  <2>1. OfStep(u, i) = OfStep(s, i) \cup {Len(s) + 1} /\ Len(s) + 1 \notin OfStep(s, i)
    BY <1>2 DEF OfStep
  <2> QED
    BY <1>1, <1>2, <2>1, FS_AddElement DEF CountOf
<1>3. CASE u[Len(s) + 1].step # i
  <2>1. OfStep(u, i) = OfStep(s, i)
    BY <1>3 DEF OfStep
  <2> QED
    BY <1>1, <1>3, <2>1 DEF CountOf
<1> QED
  BY <1>2, <1>3

-----------------------------------------------------------------------------
(* While nobody overlaps, what was sent or asked stands on completed rows  *)
(* and quotes them, and each step is sent once and asked about once but    *)
(* for the troubles.                                                       *)
TablesWhole(r, rows, gs, ts) ==
    /\ \A t \in 1..Len(ts) : \A j \in 1..(ts[t].step - 1) :
         rows[j].status = "completed" /\ ts[t].quotes[j] = rows[j].output
    /\ \A g \in 1..Len(gs) : \A j \in 1..(gs[g].step - 1) : rows[j].status = "completed"
    /\ \A i \in Step : rows[i].awaiting = "step" => rows[i].gate # 0
    /\ r = "completed" => \A i \in Step : rows[i].status = "completed"

Counted(gs, ts, n) ==
    \A i \in Step : CountOf(ts, i) <= 1 + n /\ CountOf(gs, i) <= 1 + n

(* Stages that follow the sending, or the asking, of the driver's step while *)
(* its row need not say so.                                                 *)
Sent == {"running", "resuming", "continuing", "recording", "pausing", "failing", "broken"}
Asked == Sent \cup {"gating", "noting", "sending", "skipping", "declined"}

(* A step whose row lets it be sent, or asked about, and that the driver is *)
(* not past, was sent or asked about only because of a trouble.             *)
Spare(me, r, rows, gs, ts, n) ==
    \A i \in Step : r \notin Terminal /\ rows[i].status # "completed" =>
      /\ rows[i].awaiting # "tool" /\ ~ (me.pc \in Sent /\ At(me.done) = i) =>
           CountOf(ts, i) <= n
      /\ rows[i].awaiting = "none" /\ ~ (me.pc \in Asked /\ At(me.done) = i) =>
           CountOf(gs, i) <= n

StageWhole(me, rows, gs, ts, n) ==
    /\ me.pc \in {"gating", "asking", "noting", "sending", "skipping"} =>
         CountOf(ts, At(me.done)) <= n
    /\ me.pc = "asking" => CountOf(gs, At(me.done)) <= n
    /\ me.pc = "gating" => rows[At(me.done)].awaiting # "none"
    /\ me.pc = "completing" => \A i \in Step : rows[i].status = "completed"

DriverWhole(me, r, rows, gs, ts, n) ==
    Spare(me, r, rows, gs, ts, n) /\ StageWhole(me, rows, gs, ts, n)

Alone(d) == \A e \in Driver : e # d => driver[e].pc = "idle"

WholeInv ==
    overlaps = 0 =>
      /\ TablesWhole(run, row, gates, turns)
      /\ Counted(gates, turns, troubles)
      /\ \A d \in Driver :
           Alone(d) => DriverWhole(driver[d], run, row, gates, turns, troubles)

LEMMA InitIsWhole == Init => WholeInv
<1> SUFFICES ASSUME Init PROVE WholeInv
  OBVIOUS
<1>1. RunInv
  BY InitHolds
<1>2. /\ gates = <<>> /\ Len(gates) = 0 /\ turns = <<>> /\ Len(turns) = 0 /\ troubles = 0
      /\ run = "absent" /\ \A i \in Step : row[i].gate = 0 /\ row[i].awaiting = "none"
  BY NoRowIsFine DEF Init, NoRow
<1>3. \A i \in Step : CountOf(turns, i) = 0 /\ CountOf(gates, i) = 0
  <2>1. \A i \in Step : OfStep(turns, i) = {} /\ OfStep(gates, i) = {}
    BY <1>2 DEF OfStep
  <2> QED
    BY <2>1, FS_EmptySet DEF CountOf
<1>4. \A d \in Driver : driver[d].pc = "idle"
  BY <1>1, <1>2 DEF RunInv, Solo
<1>5. TablesWhole(run, row, gates, turns) /\ Counted(gates, turns, troubles)
  BY <1>2, <1>3 DEF TablesWhole, Counted
<1>6. \A d \in Driver : DriverWhole(driver[d], run, row, gates, turns, troubles)
  BY <1>2, <1>3, <1>4 DEF DriverWhole, Spare, StageWhole
<1> QED
  BY <1>5, <1>6 DEF WholeInv

(* Where a lone driver stands: what comes before is completed, as it knows. *)
LEMMA Stands ==
  ASSUME RunInv, overlaps = 0, NEW d \in Driver, driver[d].pc # "idle"
  PROVE  /\ Alone(d) /\ run \notin Terminal
         /\ driver[d].pc \in OnStep =>
              /\ At(driver[d].done) \in Step /\ row[At(driver[d].done)].status # "completed"
              /\ \A j \in 1..(At(driver[d].done) - 1) :
                   /\ j \in Step /\ row[j].status = "completed"
                   /\ Quotes(driver[d].done, At(driver[d].done))[j] = row[j].output
<1>1. Alone(d) /\ run \notin Terminal
  BY DEF Alone, RunInv, Solo
<1> SUFFICES ASSUME driver[d].pc \in OnStep
             PROVE  /\ At(driver[d].done) \in Step /\ row[At(driver[d].done)].status # "completed"
                    /\ \A j \in 1..(At(driver[d].done) - 1) :
                         /\ j \in Step /\ row[j].status = "completed"
                         /\ Quotes(driver[d].done, At(driver[d].done))[j] = row[j].output
  BY <1>1
<1> DEFINE done == driver[d].done
           i == At(done)
<1>2. /\ done \in [Step -> Row] /\ i \in Step /\ done[i].status # "completed"
      /\ \A j \in Step : j < i => done[j].status = "completed"
      /\ Left(done) # {} /\ driver[d].pc \notin {"idle", "reading"}
      /\ Agrees(driver[d], row, overlaps)
  BY DriverKnown, AtIsFirst DEF OnStep
<1> HIDE DEF done
<1>3. \A j \in Step : row[j] = done[j] \/ (j = i /\ row[j].status # "completed")
  BY <1>2 DEF Agrees, done
<1>4. row[i].status # "completed"
  BY <1>2, <1>3
<1>5. \A j \in 1..(i - 1) : j \in Step /\ j < i /\ j # i
  BY <1>2, StepsAssumption DEF Step
<1>6. \A j \in 1..(i - 1) : row[j] = done[j] /\ done[j].status = "completed"
  BY <1>2, <1>3, <1>5
<1>7. \A j \in 1..(i - 1) : Quotes(done, i)[j] = done[j].output
  BY <1>2, QuotesType
<1> QED
  BY <1>2, <1>4, <1>5, <1>6, <1>7 DEF done

(* The parts put together, when one driver moves alone. *)
LEMMA WholeMoves ==
  ASSUME RunInv, NEW d \in Driver, Alone(d), NEW me, driver' = [driver EXCEPT ![d] = me],
         overlaps' = 0 =>
           /\ TablesWhole(run', row', gates', turns') /\ Counted(gates', turns', troubles')
           /\ DriverWhole(me, run', row', gates', turns', troubles')
  PROVE  WholeInv'
<1>1. \A e \in Driver : driver'[e] = IF e = d THEN me ELSE driver[e]
  BY Known
<1> SUFFICES ASSUME overlaps' = 0, NEW e \in Driver, Alone(e)'
             PROVE  DriverWhole(driver'[e], run', row', gates', turns', troubles')
  BY DEF WholeInv
<1>2. CASE e = d
  BY <1>1, <1>2
<1>3. CASE e # d
  <2>1. driver'[e].pc = "idle" /\ me.pc = "idle"
    BY <1>1, <1>3 DEF Alone
  <2> QED
    BY <2>1 DEF DriverWhole, Spare, StageWhole, Sent, Asked
<1> QED
  BY <1>2, <1>3

(* A row that was not completed is written: nothing stood on it. *)
LEMMA TablesKept ==
  ASSUME NEW gs \in Seq(GateType), NEW ts \in Seq(TurnType), NEW r, r \notin Terminal,
         NEW olds, NEW rows, NEW i \in Step, olds[i].status # "completed",
         \A j \in Step : j # i => rows[j] = olds[j],
         rows[i].awaiting = "step" => rows[i].gate # 0, TablesWhole(r, olds, gs, ts)
  PROVE  TablesWhole(r, rows, gs, ts)
<1>1. ASSUME NEW t \in 1..Len(ts), NEW j \in 1..(ts[t].step - 1)
      PROVE  rows[j].status = "completed" /\ ts[t].quotes[j] = rows[j].output
  <2>4. ts[t] \in TurnType
    OBVIOUS
  <2>1. ts[t].step \in Step
    BY <2>4 DEF TurnType
  <2>2. j \in Step
    BY <2>1, StepsAssumption DEF Step
  <2>3. olds[j].status = "completed" /\ ts[t].quotes[j] = olds[j].output
    BY DEF TablesWhole
  <2> QED
    BY <2>2, <2>3
<1>2. ASSUME NEW g \in 1..Len(gs), NEW j \in 1..(gs[g].step - 1)
      PROVE  rows[j].status = "completed"
  <2>4. gs[g] \in GateType
    OBVIOUS
  <2>1. gs[g].step \in Step
    BY <2>4 DEF GateType
  <2>2. j \in Step
    BY <2>1, StepsAssumption DEF Step
  <2>3. olds[j].status = "completed"
    BY DEF TablesWhole
  <2> QED
    BY <2>2, <2>3
<1>3. \A j \in Step : rows[j].awaiting = "step" => rows[j].gate # 0
  BY DEF TablesWhole
<1>4. r = "completed" => \A j \in Step : rows[j].status = "completed"
  BY DEF Terminal
<1> QED
  BY <1>1, <1>2, <1>3, <1>4 DEF TablesWhole

LEMMA WholeKnown ==
  ASSUME RunInv, WholeInv, overlaps = 0, NEW d \in Driver, driver[d].pc # "idle"
  PROVE  /\ TablesWhole(run, row, gates, turns) /\ Counted(gates, turns, troubles)
         /\ Spare(driver[d], run, row, gates, turns, troubles)
         /\ StageWhole(driver[d], row, gates, turns, troubles)
BY Stands DEF WholeInv, DriverWhole

LEMMA CountsKnown ==
  ASSUME RunInv, NEW i
  PROVE  CountOf(gates, i) \in Nat /\ CountOf(turns, i) \in Nat /\ troubles \in Nat
         /\ Len(gates) \in Nat /\ Len(turns) \in Nat
<1>1. Len(gates) \in Nat /\ Len(turns) \in Nat /\ troubles \in Nat
  BY Known
<1> QED
  BY <1>1, CountIsNat

(* Decisions and the ends of turns change none of it. *)
LEMMA WholeGrown ==
  ASSUME NEW gs, NEW hs, GatesGrown(gs, hs), Len(hs) = Len(gs),
         NEW ts, NEW us, TurnsGrown(ts, us), Len(us) = Len(ts),
         NEW r, NEW rows, NEW n, TablesWhole(r, rows, gs, ts), Counted(gs, ts, n)
  PROVE  /\ TablesWhole(r, rows, hs, us) /\ Counted(hs, us, n)
         /\ \A me : DriverWhole(me, r, rows, gs, ts, n) => DriverWhole(me, r, rows, hs, us, n)
<1>1. /\ \A g \in 1..Len(gs) : hs[g].step = gs[g].step
      /\ \A t \in 1..Len(ts) : us[t].step = ts[t].step /\ us[t].quotes = ts[t].quotes
  BY DEF GatesGrown, TurnsGrown
<1>2. ASSUME NEW i
      PROVE  CountOf(hs, i) = CountOf(gs, i) /\ CountOf(us, i) = CountOf(ts, i)
  <2>1. CountOf(hs, i) = CountOf(gs, i)
    BY <1>1, CountStays, Zenon
  <2>2. CountOf(us, i) = CountOf(ts, i)
    <3>1. \A t \in 1..Len(ts) : us[t].step = ts[t].step
      BY <1>1
    <3> QED
      BY <3>1, CountStays, Zenon
  <2> QED
    BY <2>1, <2>2
<1>3. TablesWhole(r, rows, hs, us)
  <2>1. \A t \in 1..Len(us) : \A j \in 1..(us[t].step - 1) :
          rows[j].status = "completed" /\ us[t].quotes[j] = rows[j].output
    BY <1>1 DEF TablesWhole
  <2>2. \A g \in 1..Len(hs) : \A j \in 1..(hs[g].step - 1) : rows[j].status = "completed"
    BY <1>1 DEF TablesWhole
  <2> QED
    BY <2>1, <2>2 DEF TablesWhole
<1>4. Counted(hs, us, n)
  BY <1>2 DEF Counted
<1>5. \A me : DriverWhole(me, r, rows, gs, ts, n) => DriverWhole(me, r, rows, hs, us, n)
  BY <1>2 DEF DriverWhole, Spare, StageWhole
<1> QED
  BY <1>3, <1>4, <1>5

(* From one stage of a step to the next, when no row is written. *)
LEMMA StageMoves ==
  ASSUME NEW he, NEW me, me.done = he.done, NEW r, NEW rows, NEW gs, NEW ts, NEW n,
         DriverWhole(he, r, rows, gs, ts, n),
         \/ he.pc = "idle" /\ me.pc = "reading"
         \/ he.pc = "gating" /\ me.pc \in {"waiting", "skipping", "sending"}
         \/ he.pc = "resuming" /\ me.pc \in {"continuing", "failing"}
         \/ he.pc \in {"running", "continuing"} /\ me.pc \in {"recording", "pausing", "failing"}
  PROVE  DriverWhole(me, r, rows, gs, ts, n)
<1>1. Spare(me, r, rows, gs, ts, n)
  BY DEF DriverWhole, Spare, StageWhole, Sent, Asked
<1>2. StageWhole(me, rows, gs, ts, n)
  BY DEF DriverWhole, StageWhole
<1> QED
  BY <1>1, <1>2 DEF DriverWhole

(* A driver that enters a step it knows the row of. *)
LEMMA EnterWhole ==
  ASSUME NEW rows \in [Step -> Row], NEW gs, NEW ts, NEW r, NEW n, RowsFine(rows, gs, ts),
         \A i \in Step : rows[i].awaiting = "step" => rows[i].gate # 0,
         \A i \in Step : rows[i].status # "completed" =>
           /\ rows[i].awaiting # "tool" => CountOf(ts, i) <= n
           /\ rows[i].awaiting = "none" => CountOf(gs, i) <= n,
         NEW me, me.done = rows, me.pc = Enter(rows)
  PROVE  DriverWhole(me, r, rows, gs, ts, n)
<1>1. Spare(me, r, rows, gs, ts, n)
  BY DEF Spare
<1>2. CASE Left(rows) = {}
  <2>1. me.pc = "completing" /\ \A i \in Step : rows[i].status = "completed"
    BY <1>2 DEF Enter, Left, Over
  <2> QED
    BY <1>1, <2>1 DEF DriverWhole, StageWhole
<1>3. CASE Left(rows) # {}
  <2> DEFINE i == At(rows)
  <2>1. /\ i \in Step /\ rows[i] \in Row /\ rows[i].status # "completed"
        /\ rows[i].awaiting # "none" <=> rows[i].status = "awaiting_approval"
    BY <1>3, AtIsFirst DEF RowsFine, RecFine
  <2>2. /\ me.pc \in {"resuming", "sending", "gating", "asking"}
        /\ me.pc = "sending" =>
             ~ (rows[i].status = "awaiting_approval" /\ rows[i].awaiting = "tool")
        /\ me.pc = "gating" => rows[i].status = "awaiting_approval" /\ rows[i].awaiting # "tool"
        /\ me.pc = "asking" =>
             /\ ~ (rows[i].status = "awaiting_approval" /\ rows[i].awaiting = "tool")
             /\ ~ (rows[i].status = "awaiting_approval" /\ rows[i].gate # 0)
    BY <1>3 DEF Enter
  <2>3. rows[i].awaiting \in {"none", "step", "tool"}
    BY <2>1 DEF Row
  <2>4. me.pc \in {"sending", "gating", "asking"} => CountOf(ts, i) <= n
    BY <2>1, <2>2
  <2>5. me.pc = "asking" => CountOf(gs, i) <= n
    BY <2>1, <2>2, <2>3
  <2> HIDE DEF i
  <2>6. StageWhole(me, rows, gs, ts, n)
    BY <2>1, <2>2, <2>4, <2>5 DEF StageWhole, i
  <2> QED
    BY <1>1, <2>6 DEF DriverWhole
<1> QED
  BY <1>2, <1>3

(* What a driver writes of its step. *)
LEMMA Wrote ==
  ASSUME RunInv, NEW d \in Driver, At(driver[d].done) \in Step, NEW rec \in Row, Record(d, rec)
  PROVE  /\ \A j \in Step : j # At(driver[d].done) => row'[j] = row[j]
         /\ row'[At(driver[d].done)].status = rec.status
         /\ row'[At(driver[d].done)].awaiting = rec.awaiting
         /\ row'[At(driver[d].done)].gate = rec.gate
<1> DEFINE i == At(driver[d].done)
           new == Upsert(row[i], rec)
<1>1. row \in [Step -> Row] /\ i \in Step
  BY Known
<1>2. new.status = rec.status /\ new.awaiting = rec.awaiting /\ new.gate = rec.gate
  BY DEF Upsert, Row
<1>3. row' = [row EXCEPT ![i] = new]
  BY DEF Record
<1> HIDE DEF new, i
<1>4. row'[i] = new /\ \A j \in Step : j # i => row'[j] = row[j]
  BY <1>1, <1>3
<1> QED
  BY <1>2, <1>4 DEF i

-----------------------------------------------------------------------------
(* A driver between two writes. *)
LEMMA StartIsWhole ==
  ASSUME RunInv, WholeInv, NEW d \in Driver, Start(d)
  PROVE  WholeInv'
<1> DEFINE me == [driver[d] EXCEPT !.pc = "reading"]
<1>1. /\ driver[d].pc = "idle" /\ run = "absent" /\ run' = "running"
      /\ driver' = [driver EXCEPT ![d] = me]
      /\ UNCHANGED <<row, gates, turns, overlaps, troubles>>
  BY DEF Start, Goto, counters
<1>2. me.pc = "reading" /\ me.done = driver[d].done
  BY DriverKnown DEF DriverType
<1> HIDE DEF me
<1>3. Alone(d)
  BY <1>1 DEF Alone, RunInv, Solo
<1>4. ASSUME overlaps' = 0
      PROVE  /\ TablesWhole(run', row', gates', turns') /\ Counted(gates', turns', troubles')
             /\ DriverWhole(me, run', row', gates', turns', troubles')
  <2>1. /\ TablesWhole(run, row, gates, turns) /\ Counted(gates, turns, troubles)
        /\ DriverWhole(driver[d], run, row, gates, turns, troubles)
    BY <1>1, <1>3, <1>4 DEF WholeInv
  <2>2. DriverWhole(me, run, row, gates, turns, troubles)
    BY <1>1, <1>2, <2>1, StageMoves
  <2>3. DriverWhole(me, run', row, gates, turns, troubles)
    BY <1>1, <2>2 DEF DriverWhole, Spare, Terminal
  <2>4. TablesWhole(run', row, gates, turns)
    BY <1>1, <2>1 DEF TablesWhole
  <2> QED
    BY <1>1, <2>1, <2>3, <2>4
<1> QED
  BY <1>1, <1>3, <1>4, WholeMoves

LEMMA ResumeIsWhole ==
  ASSUME RunInv, WholeInv, NEW d \in Driver, Resume(d)
  PROVE  WholeInv'
<1> DEFINE me == [driver[d] EXCEPT !.pc = "reading"]
<1>1. /\ driver[d].pc = "idle" /\ driver' = [driver EXCEPT ![d] = me]
      /\ UNCHANGED <<run, row, gates, turns, troubles>>
  BY DEF Resume, Goto
<1>2. \/ (\A e \in Driver : driver[e].pc = "idle") /\ overlaps' = overlaps
      \/ overlaps' = overlaps + 1
  BY DEF Resume
<1>3. me.pc = "reading" /\ me.done = driver[d].done
  BY DriverKnown DEF DriverType
<1> HIDE DEF me
<1>4. CASE overlaps' = 0
  <2>1. overlaps = 0 /\ Alone(d)
    BY <1>2, <1>4, Known DEF Alone
  <2>2. /\ TablesWhole(run, row, gates, turns) /\ Counted(gates, turns, troubles)
        /\ DriverWhole(driver[d], run, row, gates, turns, troubles)
    BY <2>1 DEF WholeInv
  <2>3. DriverWhole(me, run, row, gates, turns, troubles)
    BY <1>1, <1>3, <2>2, StageMoves
  <2> QED
    BY <1>1, <2>1, <2>2, <2>3, WholeMoves
<1>5. CASE overlaps' # 0
  BY <1>5 DEF WholeInv
<1> QED
  BY <1>4, <1>5

LEMMA ReadStepsIsWhole ==
  ASSUME RunInv, WholeInv, NEW d \in Driver, ReadSteps(d)
  PROVE  WholeInv'
<1> DEFINE me == [driver[d] EXCEPT !.done = row, !.pc = Enter(row)]
<1>1. /\ driver[d].pc = "reading" /\ driver' = [driver EXCEPT ![d] = me]
      /\ UNCHANGED <<run, row, gates, turns, overlaps, troubles>>
  BY DEF ReadSteps, counters
<1>2. me.done = row /\ me.pc = Enter(row)
  BY DriverKnown DEF DriverType
<1> HIDE DEF me
<1>3. CASE overlaps = 0
  <2>1. /\ TablesWhole(run, row, gates, turns) /\ Counted(gates, turns, troubles)
        /\ Spare(driver[d], run, row, gates, turns, troubles)
        /\ Alone(d) /\ run \notin Terminal
    BY <1>1, <1>3, WholeKnown, Stands
  <2>2. \A i \in Step : row[i].awaiting = "step" => row[i].gate # 0
    BY <2>1 DEF TablesWhole
  <2>3. \A i \in Step : row[i].status # "completed" =>
          /\ row[i].awaiting # "tool" => CountOf(turns, i) <= troubles
          /\ row[i].awaiting = "none" => CountOf(gates, i) <= troubles
    BY <1>1, <2>1 DEF Spare, Sent, Asked
  <2>4. DriverWhole(me, run, row, gates, turns, troubles)
    BY <1>2, <2>2, <2>3, Known, EnterWhole
  <2> QED
    BY <1>1, <2>1, <2>4, WholeMoves
<1>4. CASE overlaps # 0
  BY <1>1, <1>4 DEF WholeInv
<1> QED
  BY <1>3, <1>4

(* Stages that write no row, whatever gates and turns went through. *)
LEMMA StageIsWhole ==
  ASSUME RunInv, WholeInv, NEW d \in Driver, driver[d].pc # "idle",
         NEW me, me.done = driver[d].done, driver' = [driver EXCEPT ![d] = me],
         \/ driver[d].pc = "gating" /\ me.pc \in {"waiting", "skipping", "sending"}
         \/ driver[d].pc = "resuming" /\ me.pc \in {"continuing", "failing"}
         \/ driver[d].pc \in {"running", "continuing"}
            /\ me.pc \in {"recording", "pausing", "failing"},
         TurnsGrown(turns, turns'), Len(turns') = Len(turns),
         UNCHANGED <<run, row, gates, overlaps, troubles>>
  PROVE  WholeInv'
<1>1. CASE overlaps = 0
  <2>1. /\ TablesWhole(run, row, gates, turns) /\ Counted(gates, turns, troubles)
        /\ DriverWhole(driver[d], run, row, gates, turns, troubles) /\ Alone(d)
    BY <1>1, WholeKnown, Stands DEF DriverWhole
  <2>2. DriverWhole(me, run, row, gates, turns, troubles)
    BY <2>1, StageMoves
  <2>3. /\ TablesWhole(run, row, gates, turns') /\ Counted(gates, turns', troubles)
        /\ DriverWhole(me, run, row, gates, turns', troubles)
    BY <2>1, <2>2, Known, WholeGrown
  <2> QED
    BY <2>1, <2>3, WholeMoves
<1>2. CASE overlaps # 0
  BY <1>2 DEF WholeInv
<1> QED
  BY <1>1, <1>2

LEMMA ReadGateIsWhole ==
  ASSUME RunInv, WholeInv, NEW d \in Driver, ReadGate(d)
  PROVE  WholeInv'
<1> DEFINE g == driver[d].done[At(driver[d].done)].gate
           pc == IF Waits(gates[g].status) THEN "waiting"
                 ELSE IF gates[g].status = "rejected" THEN "skipping" ELSE "sending"
           me == [driver[d] EXCEPT !.pc = pc]
<1>1. /\ driver[d].pc = "gating" /\ driver' = [driver EXCEPT ![d] = me]
      /\ UNCHANGED <<run, row, gates, turns, overlaps, troubles>>
  BY DEF ReadGate, Goto, counters
<1>2. me.pc \in {"waiting", "skipping", "sending"} /\ me.done = driver[d].done
  BY DriverKnown DEF DriverType
<1>3. TurnsGrown(turns, turns') /\ Len(turns') = Len(turns)
  BY <1>1, Known
<1> HIDE DEF me
<1> QED
  BY <1>1, <1>2, <1>3, StageIsWhole

LEMMA ResumeTurnIsWhole ==
  ASSUME RunInv, WholeInv, NEW d \in Driver, ResumeTurn(d)
  PROVE  WholeInv'
<1> DEFINE t == driver[d].done[At(driver[d].done)].turn
           pc == IF turns[t].phase = "paused" THEN "continuing" ELSE "failing"
           me == [driver[d] EXCEPT !.at = t, !.pc = pc]
<1>1. /\ driver[d].pc = "resuming" /\ driver' = [driver EXCEPT ![d] = me]
      /\ UNCHANGED <<run, row, gates, turns, overlaps, troubles>>
  BY DEF ResumeTurn, counters
<1>2. me.pc \in {"continuing", "failing"} /\ me.done = driver[d].done
  BY DriverKnown DEF DriverType
<1>3. TurnsGrown(turns, turns') /\ Len(turns') = Len(turns)
  BY <1>1, Known
<1> HIDE DEF me
<1> QED
  BY <1>1, <1>2, <1>3, StageIsWhole

LEMMA TurnEndsIsWhole ==
  ASSUME RunInv, WholeInv, NEW d \in Driver, TurnEnds(d)
  PROVE  WholeInv'
<1> DEFINE t == driver[d].at
<1>1. /\ driver[d].pc \in {"running", "continuing"} /\ t \in 1..Len(turns)
      /\ turns[t] \in TurnType /\ turns \in Seq(TurnType)
      /\ UNCHANGED <<run, row, gates, overlaps, troubles>>
  BY DriverKnown, Known DEF TurnEnds, DriverFine, counters
<1>2. PICK new \in TurnType, pc \in {"recording", "pausing", "failing"} :
        Ended(turns[t], new) /\ turns' = [turns EXCEPT ![t] = new] /\ Goto(d, pc)
  <2>1. \/ turns' = [turns EXCEPT ![t] = [turns[t] EXCEPT !.phase = "answered"]]
           /\ Goto(d, "recording")
        \/ turns' = [turns EXCEPT ![t] = [turns[t] EXCEPT !.phase = "paused", !.pauses = @ + 1]]
           /\ Goto(d, "pausing")
        \/ turns' = [turns EXCEPT ![t] = [turns[t] EXCEPT !.phase = "broken"]]
           /\ Goto(d, "failing")
    BY <1>1 DEF TurnEnds
  <2>2. /\ Ended(turns[t], [turns[t] EXCEPT !.phase = "answered"])
        /\ Ended(turns[t], [turns[t] EXCEPT !.phase = "broken"])
        /\ Ended(turns[t], [turns[t] EXCEPT !.phase = "paused", !.pauses = @ + 1])
    BY <1>1, EndingIsAnEnd
  <2> HIDE DEF t
  <2>3. "recording" \in {"recording", "pausing", "failing"}
        /\ "pausing" \in {"recording", "pausing", "failing"}
        /\ "failing" \in {"recording", "pausing", "failing"}
    OBVIOUS
  <2> QED
    BY <2>1, <2>2, <2>3 DEF Ended
<1>3. TurnsGrown(turns, turns') /\ Len(turns') = Len(turns)
  <2> HIDE DEF t
  <2> QED
    BY <1>1, <1>2, EndGrows, Zenon
<1> DEFINE me == [driver[d] EXCEPT !.pc = pc]
<1>4. driver' = [driver EXCEPT ![d] = me] /\ me.pc = pc /\ me.done = driver[d].done
  BY <1>2, DriverKnown DEF Goto, DriverType
<1> HIDE DEF me
<1>5. driver[d].pc # "idle" /\ me.pc \in {"recording", "pausing", "failing"}
  BY <1>1, <1>4
<1> QED
  BY <1>1, <1>3, <1>4, <1>5, StageIsWhole, Zenon

(* The end of a drive: a finished run is finished. *)
LEMMA EndDriveIsWhole ==
  ASSUME RunInv, WholeInv, NEW d \in Driver, EndDrive(d)
  PROVE  WholeInv'
<1>1. /\ driver[d].pc \in {"waiting", "declined", "broken", "completing"}
      /\ run' = IF driver[d].pc = "waiting" THEN "awaiting_approval"
                ELSE IF driver[d].pc = "completing" THEN "completed" ELSE "failed"
      /\ driver' = [driver EXCEPT ![d] = Idle]
      /\ UNCHANGED <<row, gates, turns, overlaps, troubles>>
  BY DEF EndDrive, counters
<1>2. Idle.pc = "idle"
  BY IdleIsFine
<1> HIDE DEF Idle
<1>3. CASE overlaps = 0
  <2>1. /\ TablesWhole(run, row, gates, turns) /\ Counted(gates, turns, troubles)
        /\ Spare(driver[d], run, row, gates, turns, troubles)
        /\ StageWhole(driver[d], row, gates, turns, troubles)
        /\ Alone(d) /\ run \notin Terminal
    BY <1>1, <1>3, WholeKnown, Stands
  <2>2. TablesWhole(run', row, gates, turns)
    BY <1>1, <2>1 DEF TablesWhole, StageWhole
  <2>3. StageWhole(Idle, row, gates, turns, troubles)
    BY <1>2 DEF StageWhole
  <2>4. Spare(Idle, run', row, gates, turns, troubles)
    <3>1. CASE driver[d].pc = "waiting"
      BY <1>2, <2>1, <3>1 DEF Spare, Sent, Asked
    <3>2. CASE driver[d].pc # "waiting"
      BY <1>1, <3>2 DEF Spare, Terminal
    <3> QED
      BY <3>1, <3>2
  <2> QED
    BY <1>1, <2>1, <2>2, <2>3, <2>4, WholeMoves DEF DriverWhole
<1>4. CASE overlaps # 0
  BY <1>1, <1>4 DEF WholeInv
<1> QED
  BY <1>3, <1>4

(* A trouble allows one more of everything. *)
LEMMA TroubleIsWhole ==
  ASSUME RunInv, WholeInv, NEW d \in Driver, driver[d].pc # "idle",
         NEW me, me.pc = "idle" \/ me.pc = "failing", driver' = [driver EXCEPT ![d] = me],
         troubles' = troubles + 1,
         TurnsGrown(turns, turns'), Len(turns') = Len(turns),
         UNCHANGED <<run, row, gates, overlaps>>
  PROVE  WholeInv'
<1>1. CASE overlaps = 0
  <2>1. /\ TablesWhole(run, row, gates, turns) /\ Counted(gates, turns, troubles) /\ Alone(d)
    BY <1>1, WholeKnown, Stands
  <2>2. TablesWhole(run, row, gates, turns') /\ Counted(gates, turns', troubles)
    BY <2>1, Known, WholeGrown
  <2>3. troubles \in Nat /\ Len(turns') \in Nat
    BY Known
  <2>4. \A i \in Step : /\ CountOf(turns', i) <= troubles' /\ CountOf(gates, i) <= troubles'
                        /\ CountOf(turns', i) <= 1 + troubles' /\ CountOf(gates, i) <= 1 + troubles'
    <3> SUFFICES ASSUME NEW i \in Step
                 PROVE  /\ CountOf(turns', i) <= troubles' /\ CountOf(gates, i) <= troubles'
                        /\ CountOf(turns', i) <= 1 + troubles' /\ CountOf(gates, i) <= 1 + troubles'
      OBVIOUS
    <3>1. CountOf(turns', i) \in Nat /\ CountOf(gates, i) \in Nat
      BY <2>3, CountIsNat, CountsKnown
    <3>2. CountOf(turns', i) <= 1 + troubles /\ CountOf(gates, i) <= 1 + troubles
      BY <2>2 DEF Counted
    <3> QED
      BY <2>3, <3>1, <3>2
  <2>5. Counted(gates, turns', troubles')
    BY <2>4 DEF Counted
  <2>6. DriverWhole(me, run, row, gates, turns', troubles')
    BY <2>4 DEF DriverWhole, Spare, StageWhole
  <2> QED
    BY <2>1, <2>2, <2>5, <2>6, WholeMoves
<1>2. CASE overlaps # 0
  BY <1>2 DEF WholeInv
<1> QED
  BY <1>1, <1>2

LEMMA StoreRejectsIsWhole ==
  ASSUME RunInv, WholeInv, NEW d \in Driver, StoreRejects(d)
  PROVE  WholeInv'
<1> DEFINE me == [driver[d] EXCEPT !.pc = "failing"]
<1>1. /\ driver[d].pc # "idle" /\ driver' = [driver EXCEPT ![d] = me]
      /\ UNCHANGED <<run, row, gates, turns, overlaps>> /\ troubles' = troubles + 1
  BY DEF StoreRejects, Goto
<1>2. (me.pc = "idle" \/ me.pc = "failing") /\ TurnsGrown(turns, turns') /\ Len(turns') = Len(turns)
  BY <1>1, DriverKnown, Known DEF DriverType
<1> HIDE DEF me
<1>3. UNCHANGED <<run, row, gates, overlaps>>
  BY <1>1
<1> QED
  BY <1>1, <1>2, <1>3, TroubleIsWhole, Zenon

LEMMA CrashIsWhole ==
  ASSUME RunInv, WholeInv, NEW d \in Driver, Crash(d)
  PROVE  WholeInv'
<1>1. /\ driver[d].pc # "idle" /\ driver' = [driver EXCEPT ![d] = Idle]
      /\ UNCHANGED <<run, row, gates, overlaps>> /\ troubles' = troubles + 1
      /\ \/ turns' = turns
         \/ /\ driver[d].pc = "continuing"
            /\ turns' = [turns EXCEPT ![driver[d].at].phase = "broken"]
  BY DEF Crash
<1>2. TurnsGrown(turns, turns') /\ Len(turns') = Len(turns)
  BY <1>1, CrashGrows
<1>3. Idle.pc = "idle" \/ Idle.pc = "failing"
  BY IdleIsFine
<1>4. UNCHANGED <<run, row, gates, overlaps>>
  BY <1>1
<1>5. driver[d].pc # "idle" /\ driver' = [driver EXCEPT ![d] = Idle] /\ troubles' = troubles + 1
  BY <1>1
<1> HIDE DEF Idle
<1> QED
  BY <1>2, <1>3, <1>4, <1>5, TroubleIsWhole, Zenon

LEMMA OperatorIsWhole ==
  ASSUME RunInv, WholeInv, NEW g \in DOMAIN gates, NEW c \in Choice, Operator(g, c)
  PROVE  WholeInv'
<1>1. /\ g \in 1..Len(gates) /\ gates[g] \in GateType /\ gates[g].status = "pending"
      /\ gates' = [gates EXCEPT ![g] = [gates[g] EXCEPT !.status = c]]
      /\ UNCHANGED <<run, row, turns, driver, overlaps, troubles>>
  BY Known DEF Operator, counters
<1>2. GatesGrown(gates, gates') /\ Len(gates') = Len(gates)
  BY <1>1, DecisionGrows
<1>3. TurnsGrown(turns, turns)
  BY Known
<1> SUFFICES ASSUME overlaps = 0
             PROVE  /\ TablesWhole(run, row, gates', turns) /\ Counted(gates', turns, troubles)
                    /\ \A d \in Driver : Alone(d) =>
                         DriverWhole(driver[d], run, row, gates', turns, troubles)
  BY <1>1 DEF WholeInv, Alone
<1>4. /\ TablesWhole(run, row, gates, turns) /\ Counted(gates, turns, troubles)
      /\ \A d \in Driver : Alone(d) => DriverWhole(driver[d], run, row, gates, turns, troubles)
  BY DEF WholeInv
<1>5. /\ TablesWhole(run, row, gates', turns) /\ Counted(gates', turns, troubles)
      /\ \A me : DriverWhole(me, run, row, gates, turns, troubles) =>
                   DriverWhole(me, run, row, gates', turns, troubles)
  BY <1>2, <1>3, <1>4, WholeGrown
<1> QED
  BY <1>4, <1>5

-----------------------------------------------------------------------------
(* The steps that ask, send and write. *)
LEMMA AskIsWhole ==
  ASSUME RunInv, WholeInv, NEW d \in Driver, Ask(d)
  PROVE  WholeInv'
<1> DEFINE i == At(driver[d].done)
           new == [step |-> i, status |-> "pending", shown |-> Shown(driver[d].done, i)]
           me == [driver[d] EXCEPT !.pc = "noting", !.at = Len(gates) + 1]
<1>1. /\ driver[d].pc = "asking" /\ driver' = [driver EXCEPT ![d] = me]
      /\ gates' = Append(gates, new)
      /\ UNCHANGED <<run, row, turns, overlaps, troubles>>
  BY DEF Ask, counters
<1>2. me.pc = "noting" /\ me.done = driver[d].done /\ new.step = i
  BY DriverKnown DEF DriverType
<1> HIDE DEF me, new
<1>3. /\ Len(gates') = Len(gates) + 1 /\ gates'[Len(gates) + 1].step = i
      /\ \A g \in 1..Len(gates) : gates'[g].step = gates[g].step
  BY <1>1, <1>2, Known
<1> SUFFICES ASSUME overlaps = 0 PROVE WholeInv'
  BY <1>1 DEF WholeInv
<1>4. /\ TablesWhole(run, row, gates, turns) /\ Counted(gates, turns, troubles)
      /\ Spare(driver[d], run, row, gates, turns, troubles)
      /\ StageWhole(driver[d], row, gates, turns, troubles) /\ Alone(d)
      /\ i \in Step /\ \A j \in 1..(i - 1) : row[j].status = "completed"
  BY <1>1, WholeKnown, Stands DEF OnStep
<1>5. ASSUME NEW k \in Step
      PROVE  CountOf(gates', k) = IF k = i THEN CountOf(gates, k) + 1 ELSE CountOf(gates, k)
  <2>1. Len(gates) \in Nat /\ CountOf(gates, k) \in Nat
    BY CountsKnown
  <2>2. CountOf(gates', k) =
          CountOf(gates, k) + IF gates'[Len(gates) + 1].step = k THEN 1 ELSE 0
    BY <1>3, <2>1, CountGrows, Zenon
  <2> QED
    BY <1>3, <2>1, <2>2
<1>6. TablesWhole(run, row, gates', turns)
  <2>1. \A g \in 1..Len(gates') : g \in 1..Len(gates) \/ g = Len(gates) + 1
    BY <1>3, CountsKnown
  <2>2. \A g \in 1..Len(gates') : \A j \in 1..(gates'[g].step - 1) : row[j].status = "completed"
    BY <1>3, <1>4, <2>1 DEF TablesWhole
  <2> QED
    BY <1>4, <2>2 DEF TablesWhole
<1>7. CountOf(gates, i) <= troubles /\ CountOf(turns, i) <= troubles
  BY <1>1, <1>4 DEF StageWhole
<1>8. Counted(gates', turns, troubles)
  <2> SUFFICES ASSUME NEW k \in Step
               PROVE  CountOf(turns, k) <= 1 + troubles /\ CountOf(gates', k) <= 1 + troubles
    BY DEF Counted
  <2> QED
    BY <1>4, <1>5, <1>7, CountsKnown DEF Counted
<1>9. Spare(me, run, row, gates', turns, troubles)
  BY <1>1, <1>2, <1>4, <1>5 DEF Spare, Sent, Asked
<1>10. StageWhole(me, row, gates', turns, troubles)
  BY <1>2, <1>7 DEF StageWhole
<1> QED
  BY <1>1, <1>4, <1>6, <1>8, <1>9, <1>10, WholeMoves DEF DriverWhole

LEMMA SendIsWhole ==
  ASSUME RunInv, WholeInv, NEW d \in Driver, Send(d)
  PROVE  WholeInv'
<1> DEFINE i == At(driver[d].done)
           n == Len(turns) + 1
           new == [step |-> i, gate |-> driver[d].done[i].gate,
                   quotes |-> Quotes(driver[d].done, i), pauses |-> 0, phase |-> "open"]
           rec == [NoRow EXCEPT !.status = "running", !.turn = n]
           me == [driver[d] EXCEPT !.pc = "running", !.at = n]
<1>1. /\ driver[d].pc = "sending" /\ driver' = [driver EXCEPT ![d] = me]
      /\ turns' = Append(turns, new) /\ Record(d, rec)
      /\ UNCHANGED <<run, gates, overlaps, troubles>>
  BY DEF Send, counters
<1>2. me.pc = "running" /\ me.done = driver[d].done
      /\ new.step = i /\ new.quotes = Quotes(driver[d].done, i)
  BY DriverKnown DEF DriverType
<1>3. rec \in Row /\ rec.status = "running" /\ rec.awaiting = "none"
  <2>1. n \in Nat
    BY Known
  <2> QED
    BY <2>1 DEF NoRow, Row, StepStatus
<1> HIDE DEF me, new, rec
<1>4. /\ Len(turns') = n /\ turns'[n] = new /\ \A t \in 1..Len(turns) : turns'[t] = turns[t]
  BY <1>1, Known
<1> SUFFICES ASSUME overlaps = 0 PROVE WholeInv'
  BY <1>1 DEF WholeInv
<1>5. /\ TablesWhole(run, row, gates, turns) /\ Counted(gates, turns, troubles)
      /\ Spare(driver[d], run, row, gates, turns, troubles)
      /\ StageWhole(driver[d], row, gates, turns, troubles) /\ Alone(d) /\ run \notin Terminal
      /\ i \in Step /\ row[i].status # "completed"
      /\ \A j \in 1..(i - 1) : /\ j \in Step /\ row[j].status = "completed"
                               /\ Quotes(driver[d].done, i)[j] = row[j].output
  BY <1>1, WholeKnown, Stands DEF OnStep
<1>6. /\ \A j \in Step : j # i => row'[j] = row[j]
      /\ row'[i].status = "running" /\ row'[i].awaiting = "none"
  BY <1>1, <1>3, <1>5, Wrote
<1>7. TablesWhole(run, row', gates, turns)
  <2>1. row'[i].awaiting = "step" => row'[i].gate # 0
    BY <1>6
  <2>2. gates \in Seq(GateType) /\ turns \in Seq(TurnType)
    BY Known
  <2> HIDE DEF i
  <2> QED
    BY <1>5, <1>6, <2>1, <2>2, TablesKept
<1>8. TablesWhole(run, row', gates, turns')
  <2>1. \A t \in 1..Len(turns') : t \in 1..Len(turns) \/ t = n
    BY <1>4, CountsKnown
  <2>2. \A j \in 1..(i - 1) : row'[j] = row[j] /\ new.quotes[j] = row[j].output
    <3>1. \A j \in 1..(i - 1) : j # i
      BY <1>5, StepsAssumption DEF Step
    <3> QED
      BY <1>2, <1>5, <1>6, <3>1
  <2>3. ASSUME NEW t \in 1..Len(turns'), NEW j \in 1..(turns'[t].step - 1)
        PROVE  row'[j].status = "completed" /\ turns'[t].quotes[j] = row'[j].output
    <3>1. CASE t = n
      <4>1. j \in 1..(i - 1) /\ turns'[t] = new
        BY <1>2, <1>4, <3>1
      <4> HIDE DEF n, i
      <4> QED
        BY <1>5, <2>2, <4>1
    <3>2. CASE t \in 1..Len(turns)
      BY <1>4, <1>7, <3>2 DEF TablesWhole
    <3> QED
      BY <2>1, <3>1, <3>2
  <2> QED
    BY <1>7, <2>3 DEF TablesWhole
<1>9. ASSUME NEW k \in Step
      PROVE  CountOf(turns', k) = IF k = i THEN CountOf(turns, k) + 1 ELSE CountOf(turns, k)
  <2>1. turns'[Len(turns) + 1].step = i /\ \A t \in 1..Len(turns) : turns'[t].step = turns[t].step
    BY <1>2, <1>4
  <2>2. Len(turns) \in Nat /\ Len(turns') = Len(turns) + 1 /\ CountOf(turns, k) \in Nat
    BY <1>4, CountsKnown
  <2>3. CountOf(turns', k) =
          CountOf(turns, k) + IF turns'[Len(turns) + 1].step = k THEN 1 ELSE 0
    BY <2>1, <2>2, CountGrows, Zenon
  <2> QED
    BY <2>1, <2>2, <2>3
<1>10. CountOf(turns, i) <= troubles
  BY <1>1, <1>5 DEF StageWhole
<1>11. Counted(gates, turns', troubles)
  <2> SUFFICES ASSUME NEW k \in Step
               PROVE  CountOf(turns', k) <= 1 + troubles /\ CountOf(gates, k) <= 1 + troubles
    BY DEF Counted
  <2> QED
    BY <1>5, <1>9, <1>10, CountsKnown DEF Counted
<1>12. Spare(me, run, row', gates, turns', troubles)
  <2> HIDE DEF i
  <2>1. \A k \in Step : k # i => row'[k] = row[k] /\ CountOf(turns', k) = CountOf(turns, k)
    BY <1>6, <1>9
  <2> QED
    BY <1>1, <1>2, <1>5, <2>1 DEF Spare, Sent, Asked, i
<1>13. StageWhole(me, row', gates, turns', troubles)
  BY <1>2 DEF StageWhole
<1> QED
  BY <1>1, <1>5, <1>8, <1>11, <1>12, <1>13, WholeMoves DEF DriverWhole

(* A row that holds its step, or gives it up. *)
LEMMA WriteIsWhole ==
  ASSUME RunInv, WholeInv, NEW d \in Driver,
         NEW pc, Goto(d, pc), UNCHANGED <<run, gates, turns, counters>>,
         NEW rec \in Row, Record(d, rec),
         \/ /\ driver[d].pc = "noting" /\ pc = "waiting"
            /\ rec.awaiting = "step" /\ rec.gate # 0
         \/ driver[d].pc = "pausing" /\ pc = "waiting" /\ rec.awaiting = "tool"
         \/ driver[d].pc = "skipping" /\ pc = "declined" /\ rec.awaiting = "none"
         \/ driver[d].pc = "failing" /\ pc = "broken" /\ rec.awaiting = "none"
  PROVE  WholeInv'
<1> DEFINE i == At(driver[d].done)
           me == [driver[d] EXCEPT !.pc = pc]
<1>1. /\ driver[d].pc \in OnStep /\ driver[d].pc # "idle" /\ driver' = [driver EXCEPT ![d] = me]
      /\ UNCHANGED <<run, gates, turns, overlaps, troubles>>
  BY DEF OnStep, Goto, counters
<1>2. me.pc = pc /\ me.done = driver[d].done
  BY DriverKnown DEF DriverType
<1> HIDE DEF me
<1> SUFFICES ASSUME overlaps = 0 PROVE WholeInv'
  BY <1>1 DEF WholeInv
<1>3. /\ TablesWhole(run, row, gates, turns) /\ Counted(gates, turns, troubles)
      /\ Spare(driver[d], run, row, gates, turns, troubles)
      /\ StageWhole(driver[d], row, gates, turns, troubles) /\ Alone(d) /\ run \notin Terminal
      /\ i \in Step /\ row[i].status # "completed"
  BY <1>1, WholeKnown, Stands
<1>4. /\ \A j \in Step : j # i => row'[j] = row[j]
      /\ row'[i].awaiting = rec.awaiting /\ row'[i].gate = rec.gate
  BY <1>3, Wrote
<1>5. TablesWhole(run, row', gates, turns)
  <2>1. row'[i].awaiting = "step" => row'[i].gate # 0
    BY <1>4
  <2>2. gates \in Seq(GateType) /\ turns \in Seq(TurnType)
    BY Known
  <2> HIDE DEF i
  <2> QED
    BY <1>3, <1>4, <2>1, <2>2, TablesKept
<1>6. driver[d].pc \in {"noting", "skipping"} => CountOf(turns, i) <= troubles
  BY <1>3 DEF StageWhole
<1>7. Spare(me, run, row', gates, turns, troubles)
  <2> SUFFICES ASSUME NEW k \in Step, row'[k].status # "completed"
               PROVE  /\ row'[k].awaiting # "tool" /\ ~ (me.pc \in Sent /\ At(me.done) = k) =>
                           CountOf(turns, k) <= troubles
                      /\ row'[k].awaiting = "none" /\ ~ (me.pc \in Asked /\ At(me.done) = k) =>
                           CountOf(gates, k) <= troubles
    BY DEF Spare
  <2>1. CASE k = i
    BY <1>2, <1>4, <1>6, <2>1 DEF Sent, Asked
  <2>2. CASE k # i
    <3>1. row'[k] = row[k]
      BY <1>4, <2>2
    <3> QED
      BY <1>2, <1>3, <2>2, <3>1 DEF Spare
  <2> QED
    BY <2>1, <2>2
<1>8. StageWhole(me, row', gates, turns, troubles)
  BY <1>2 DEF StageWhole
<1> QED
  BY <1>1, <1>3, <1>5, <1>7, <1>8, WholeMoves DEF DriverWhole

LEMMA WritesAreWhole ==
  ASSUME RunInv, WholeInv, NEW d \in Driver,
         NoteGate(d) \/ RecordPause(d) \/ RecordSkip(d) \/ RecordFailure(d)
  PROVE  WholeInv'
<1>1. CASE NoteGate(d)
  <2> DEFINE rec == GateRow(driver[d].at)
  <2>1. driver[d].pc = "noting" /\ driver[d].at \in Nat /\ driver[d].at # 0
    BY <1>1, DriverKnown DEF NoteGate, DriverFine
  <2>2. rec \in Row /\ rec.awaiting = "step" /\ rec.gate # 0
    BY <2>1 DEF GateRow, NoRow, Row, StepStatus
  <2>3. Record(d, rec) /\ Goto(d, "waiting") /\ UNCHANGED <<run, gates, turns, counters>>
    BY <1>1 DEF NoteGate
  <2> HIDE DEF rec
  <2> QED
    BY <2>1, <2>2, <2>3, WriteIsWhole
<1>2. CASE RecordPause(d)
  <2> DEFINE rec == [NoRow EXCEPT !.status = "awaiting_approval", !.awaiting = "tool",
                                 !.turn = driver[d].at]
  <2>1. driver[d].pc = "pausing" /\ driver[d].at \in Nat
    BY <1>2, DriverKnown DEF RecordPause
  <2>2. rec \in Row /\ rec.awaiting = "tool"
    BY <2>1 DEF NoRow, Row, StepStatus
  <2>3. Record(d, rec) /\ Goto(d, "waiting") /\ UNCHANGED <<run, gates, turns, counters>>
    BY <1>2 DEF RecordPause
  <2> HIDE DEF rec
  <2> QED
    BY <2>1, <2>2, <2>3, WriteIsWhole
<1>3. CASE RecordSkip(d)
  <2> DEFINE g == driver[d].done[At(driver[d].done)].gate
             rec == [NoRow EXCEPT !.status = "skipped", !.gate = g]
  <2>1. driver[d].pc = "skipping"
    BY <1>3 DEF RecordSkip
  <2>2. g \in Nat
    BY <2>1, DriverKnown DEF OnStep, Row
  <2>3. rec \in Row /\ rec.awaiting = "none"
    <3> HIDE DEF g
    <3> QED
      BY <2>2 DEF NoRow, Row, StepStatus
  <2>4. Record(d, rec) /\ Goto(d, "declined") /\ UNCHANGED <<run, gates, turns, counters>>
    BY <1>3 DEF RecordSkip
  <2> HIDE DEF rec
  <2> QED
    BY <2>1, <2>3, <2>4, WriteIsWhole
<1>4. CASE RecordFailure(d)
  <2> DEFINE rec == [NoRow EXCEPT !.status = "failed"]
  <2>1. rec \in Row /\ rec.awaiting = "none"
    BY DEF NoRow, Row, StepStatus
  <2>2. /\ Record(d, rec) /\ Goto(d, "broken") /\ UNCHANGED <<run, gates, turns, counters>>
        /\ driver[d].pc = "failing"
    BY <1>4 DEF RecordFailure
  <2> HIDE DEF rec
  <2> QED
    BY <2>1, <2>2, WriteIsWhole
<1> QED
  BY <1>1, <1>2, <1>3, <1>4

(* An answer is recorded, and the driver enters the next step. *)
LEMMA RecordAnswerIsWhole ==
  ASSUME RunInv, WholeInv, NEW d \in Driver, RecordAnswer(d)
  PROVE  WholeInv'
<1> DEFINE done == driver[d].done
           i == At(done)
           t == driver[d].at
           rec == [NoRow EXCEPT !.status = "completed", !.turn = t, !.output = t]
           now == [done EXCEPT ![i] = Upsert(row[i], rec)]
           me == [driver[d] EXCEPT !.done = now, !.pc = Enter(now)]
<1>1. /\ driver[d].pc = "recording" /\ driver' = [driver EXCEPT ![d] = me] /\ Record(d, rec)
      /\ UNCHANGED <<run, gates, turns, overlaps, troubles>>
  BY DEF RecordAnswer, counters
<1>2. t \in Nat /\ i \in Step /\ done \in [Step -> Row] /\ row \in [Step -> Row]
  BY <1>1, DriverKnown, Known DEF OnStep
<1>3. rec \in Row /\ rec.status = "completed" /\ rec.awaiting = "none"
  BY <1>2 DEF NoRow, Row, StepStatus
<1>4. me.done = now /\ me.pc = Enter(now)
  BY DriverKnown DEF DriverType
<1> HIDE DEF me, rec
<1> SUFFICES ASSUME overlaps = 0 PROVE WholeInv'
  BY <1>1 DEF WholeInv
<1>5. /\ TablesWhole(run, row, gates, turns) /\ Counted(gates, turns, troubles)
      /\ Spare(driver[d], run, row, gates, turns, troubles)
      /\ Alone(d) /\ run \notin Terminal /\ row[i].status # "completed"
  BY <1>1, WholeKnown, Stands DEF OnStep
<1>6. /\ \A j \in Step : j # i => row'[j] = row[j]
      /\ row'[i].status = "completed" /\ row'[i].awaiting = "none"
  BY <1>1, <1>2, <1>3, Wrote
<1>7. RunInv'
  BY RecordAnswerKeeps
<1>8. /\ row' \in [Step -> Row] /\ RowsFine(row', gates, turns)
  BY <1>1, <1>7 DEF RunInv, TypeOK
<1>9. now = row'
  <2>1. \A j \in Step : j # i => done[j] = row[j]
    <3>1. Agrees(driver[d], row, overlaps) /\ Left(done) # {}
      BY <1>1, DriverKnown DEF OnStep
    <3> QED
      BY <1>1, <3>1 DEF Agrees
  <2>2. row' = [row EXCEPT ![i] = Upsert(row[i], rec)]
    BY <1>1 DEF Record
  <2> HIDE DEF i, done
  <2>3. row'[i] = Upsert(row[i], rec)
    BY <1>2, <2>2
  <2>4. \A j \in Step : now[j] = row'[j]
    BY <1>2, <1>6, <2>1, <2>3
  <2>5. now \in [Step -> Row]
    BY <1>2, <1>8, <2>3
  <2> HIDE DEF now
  <2> QED
    BY <1>8, <2>4, <2>5
<1>10. TablesWhole(run, row', gates, turns)
  <2>1. row'[i].awaiting = "step" => row'[i].gate # 0
    BY <1>6
  <2>2. gates \in Seq(GateType) /\ turns \in Seq(TurnType)
    BY Known
  <2> HIDE DEF i, done
  <2> QED
    BY <1>2, <1>5, <1>6, <2>1, <2>2, TablesKept
<1>11. ASSUME NEW k \in Step, row'[k].status # "completed"
       PROVE  /\ row'[k].awaiting # "tool" => CountOf(turns, k) <= troubles
              /\ row'[k].awaiting = "none" => CountOf(gates, k) <= troubles
  BY <1>5, <1>6, <1>11 DEF Spare
<1> HIDE DEF now, done, i
<1>12. me.done = row' /\ me.pc = Enter(row')
  BY <1>4, <1>9
<1>13. \A k \in Step : row'[k].awaiting = "step" => row'[k].gate # 0
  BY <1>10 DEF TablesWhole
<1>14. PICK rows \in [Step -> Row] : rows = row'
  BY <1>8
<1>15. DriverWhole(me, run, rows, gates, turns, troubles)
  <2>1. /\ RowsFine(rows, gates, turns) /\ me.done = rows /\ me.pc = Enter(rows)
        /\ \A k \in Step : rows[k].awaiting = "step" => rows[k].gate # 0
        /\ \A k \in Step : rows[k].status # "completed" =>
             /\ rows[k].awaiting # "tool" => CountOf(turns, k) <= troubles
             /\ rows[k].awaiting = "none" => CountOf(gates, k) <= troubles
    BY <1>8, <1>11, <1>12, <1>13, <1>14
  <2> QED
    BY <2>1, EnterWhole
<1> QED
  BY <1>1, <1>5, <1>10, <1>14, <1>15, WholeMoves

LEMMA NextIsWhole == RunInv /\ WholeInv /\ [Next]_vars => WholeInv'
<1> SUFFICES ASSUME RunInv, WholeInv, [Next]_vars PROVE WholeInv'
  OBVIOUS
<1>1. ASSUME NEW d \in Driver, Drive(d) PROVE WholeInv'
  BY <1>1, ReadStepsIsWhole, ReadGateIsWhole, AskIsWhole, SendIsWhole, ResumeTurnIsWhole,
     TurnEndsIsWhole, RecordAnswerIsWhole, WritesAreWhole, EndDriveIsWhole, Zenon DEF Drive
<1>2. ASSUME NEW d \in Driver, Start(d) \/ Resume(d) \/ StoreRejects(d) \/ Crash(d)
      PROVE  WholeInv'
  BY <1>2, StartIsWhole, ResumeIsWhole, StoreRejectsIsWhole, CrashIsWhole, Zenon
<1>3. ASSUME NEW g \in DOMAIN gates, NEW c \in Choice, Operator(g, c) PROVE WholeInv'
  BY <1>3, OperatorIsWhole
<1>4. CASE UNCHANGED vars
  BY <1>4 DEF vars, counters, WholeInv, Alone
<1> QED
  BY <1>1, <1>2, <1>3, <1>4, Zenon DEF Next

(* What a run records adds up while one driver walks at a time: complete    *)
(* and quoting its own answers when it completed, stopped where it failed   *)
(* or was declined, and nothing sent or asked twice but for a crash or a    *)
(* store call that rejected (#drive, #gate, #record).                       *)
THEOREM RecordsAddUp == Spec => []RunsAreWhole
<1>1. RunInv /\ WholeInv => RunsAreWhole
  <2> SUFFICES ASSUME RunInv, WholeInv, overlaps = 0 PROVE RunsAreWhole
    BY DEF RunsAreWhole, CompletedIsWhole, FailureStopsRun, OnceUnlessInterrupted
  <2>1. /\ TablesWhole(run, row, gates, turns) /\ Counted(gates, turns, troubles)
        /\ DOMAIN gates = 1..Len(gates) /\ DOMAIN turns = 1..Len(turns)
        /\ RowsFine(row, gates, turns)
    BY Known DEF WholeInv
  <2>2. ASSUME run = "completed", NEW i \in Step
        PROVE  /\ row[i].status = "completed" /\ row[i].output # 0
               /\ \A j \in 1..(i - 1) : turns[row[i].output].quotes[j] = row[j].output
    <3>1. row[i].status = "completed" /\ RecFine(row[i], i, gates, turns)
      BY <2>1, <2>2 DEF TablesWhole, RowsFine
    <3>2. /\ row[i].output # 0 /\ row[i].output \in 1..Len(turns)
          /\ turns[row[i].output].step = i
      BY <3>1 DEF RecFine
    <3> QED
      BY <2>1, <3>1, <3>2 DEF TablesWhole
  <2>3. CompletedIsWhole
    BY <2>2 DEF CompletedIsWhole
  <2>4. ASSUME NEW i \in Step, row[i].status # "completed", NEW j \in Step, j > i
        PROVE  SentFor(j) = {} /\ AskedFor(j) = {}
    <3>1. i \in 1..(j - 1)
      BY <2>4, StepsAssumption DEF Step
    <3>2. ASSUME NEW t \in DOMAIN turns, turns[t].step = j PROVE FALSE
      BY <2>1, <2>4, <3>1, <3>2 DEF TablesWhole
    <3>3. ASSUME NEW g \in DOMAIN gates, gates[g].step = j PROVE FALSE
      BY <2>1, <2>4, <3>1, <3>3 DEF TablesWhole
    <3> QED
      BY <3>2, <3>3 DEF SentFor, AskedFor
  <2>5. FailureStopsRun
    BY <2>4 DEF FailureStopsRun
  <2>6. \A i \in Step : SentFor(i) = OfStep(turns, i) /\ AskedFor(i) = OfStep(gates, i)
    BY <2>1 DEF SentFor, AskedFor, OfStep
  <2>7. OnceUnlessInterrupted
    BY <2>1, <2>6 DEF OnceUnlessInterrupted, Counted, CountOf
  <2> QED
    BY <2>3, <2>5, <2>7 DEF RunsAreWhole
<1>2. Init => WholeInv
  BY InitIsWhole
<1>3. Spec => []WholeInv
  BY <1>2, Inductive, NextIsWhole, PTL DEF Spec
<1> QED
  BY <1>1, <1>3, Inductive, PTL

=============================================================================
