--------------------------- MODULE WorkflowRunner ---------------------------
(***************************************************************************)
(* One workflow run: its steps in order, the gates in front of some of     *)
(* them, and the drivers that carry it.                                    *)
(*                                                                         *)
(* A Driver is one call of `start` or `resume` being served.  Its only     *)
(* memory is the snapshot of the step rows it read on the way in; all the  *)
(* rest is in the tables, and every await of a store or of the agent lets  *)
(* another driver, an operator or a crash come between.  The agent is      *)
(* modelled from outside (AgentTurns models it from inside): a turn ends   *)
(* in an answer, in a pause of its own, or in an error, and only a paused  *)
(* turn can be resumed.                                                    *)
(***************************************************************************)
EXTENDS Naturals, Sequences, FiniteSets

CONSTANTS
    Driver,         \* calls of start or resume that can be in flight together
    N,              \* how many steps the workflow has
    GatedSteps,     \* the steps marked `approve`
    MaxGates,       \* bound: approvals asked for
    MaxTurns,       \* bound: turns sent to an agent
    MaxPauses,      \* bound: pauses of one turn
    MaxOverlaps,    \* bound: resumes of a run somebody is driving
    MaxTroubles     \* bound: drivers that die, and store calls that reject

ASSUME StepsAssumption == N \in Nat \ {0} /\ GatedSteps \subseteq 1..N
ASSUME BoundsAssumption == {MaxGates, MaxTurns, MaxPauses, MaxOverlaps, MaxTroubles} \subseteq Nat

VARIABLES
    run,        \* the status of the run's row
    row,        \* row[i]: the row of step i
    gates,      \* the approvals asked for, in order: step, decision, what was shown
    turns,      \* the turns sent, in order: step, the gate that let it go (0 if
                \* the step has none), what the prompt quoted, phase
    driver,     \* driver[d]: the locals of one call
    overlaps,   \* resumes of a run somebody was driving, so far
    troubles    \* deaths and rejected store calls so far

counters == <<overlaps, troubles>>
vars == <<run, row, gates, turns, driver, counters>>

-----------------------------------------------------------------------------
Step == 1..N

RunStatus == {"absent", "running", "awaiting_approval", "completed", "failed"}
Terminal == {"completed", "failed"}
StepStatus == {"absent", "running", "awaiting_approval", "completed", "failed", "skipped"}
Choice == {"approved", "rejected", "changes_requested"}

Row == [status : StepStatus, awaiting : {"none", "step", "tool"},
        gate : Nat, turn : Nat, output : Nat]

NoRow == [status |-> "absent", awaiting |-> "none", gate |-> 0, turn |-> 0, output |-> 0]

Pc == {"idle", "reading", "gating", "asking", "noting", "sending", "running",
       "resuming", "continuing", "recording", "pausing", "skipping", "failing",
       "waiting", "declined", "broken", "completing"}

Idle == [pc |-> "idle", done |-> [i \in Step |-> NoRow], at |-> 0]

TypeOK ==
    /\ run \in RunStatus
    /\ row \in [Step -> Row]
    /\ \A i \in Step : row[i].awaiting # "none" <=> row[i].status = "awaiting_approval"
    /\ gates \in Seq([step : Step, status : Choice \cup {"pending"}, shown : Seq(Nat)])
    /\ turns \in Seq([step : Step, gate : Nat, quotes : Seq(Nat), pauses : Nat,
                      phase : {"open", "paused", "answered", "broken"}])
    /\ driver \in [Driver -> [pc : Pc, done : [Step -> Row], at : Nat]]
    /\ overlaps \in 0..MaxOverlaps
    /\ troubles \in 0..MaxTroubles

Init ==
    /\ run = "absent"
    /\ row = [i \in Step |-> NoRow]
    /\ gates = <<>>
    /\ turns = <<>>
    /\ driver = [d \in Driver |-> Idle]
    /\ overlaps = 0
    /\ troubles = 0

-----------------------------------------------------------------------------
(* The run store. *)

(* Bug: what an update does not carry is kept, what it waits for included. *)
UpsertKeepsAwaiting(old, new) ==
    [new EXCEPT !.turn = IF @ = 0 THEN old.turn ELSE @,
                !.output = IF @ = 0 THEN old.output ELSE @,
                !.awaiting = IF @ = "none" THEN old.awaiting ELSE @]

(* Bug: an update that carries no output clears it. *)
UpsertClearsOutput(old, new) == [new EXCEPT !.turn = IF @ = 0 THEN old.turn ELSE @]

(* recordStep: the session and the output stay when the update has none. *)
Upsert(old, new) ==
    [new EXCEPT !.turn = IF @ = 0 THEN old.turn ELSE @,
                !.output = IF @ = 0 THEN old.output ELSE @]

(* Bugs: a step that failed, or one that was only started, is passed over. *)
OverFinished(rec) == rec.status \in {"completed", "skipped", "failed"}
OverStarted(rec) == rec.status \in {"completed", "running"}

(* The rows the walk passes over. *)
Over(rec) == rec.status = "completed"

Left(done) == {i \in Step : ~ Over(done[i])}

(* Where a driver with this snapshot stands. *)
At(done) == CHOOSE i \in Left(done) : \A j \in Left(done) : i <= j

Quotes(done, i) == [j \in 1..(i - 1) |-> done[j].output]

(* Bug: the person is shown the template. *)
ShownTemplate(done, i) == <<>>

(* The prompt is rendered before the gate. *)
Shown(done, i) == Quotes(done, i)

(* What #step does first with step i, as its snapshot shows it. *)
Enter(done) ==
    IF Left(done) = {} THEN "completing"
    ELSE LET p == done[At(done)]
             held == p.status = "awaiting_approval"
         IN  IF held /\ p.awaiting = "tool" THEN "resuming"
             ELSE IF At(done) \notin GatedSteps THEN "sending"
             ELSE IF held /\ p.gate # 0 THEN "gating" ELSE "asking"

Goto(d, pc) == driver' = [driver EXCEPT ![d].pc = pc]

Record(d, rec) ==
    LET i == At(driver[d].done) IN row' = [row EXCEPT ![i] = Upsert(@, rec)]

-----------------------------------------------------------------------------
(* start: the run is recorded, then driven. *)
Start(d) ==
    /\ driver[d].pc = "idle"
    /\ run = "absent"
    /\ run' = "running"
    /\ Goto(d, "reading")
    /\ UNCHANGED <<row, gates, turns, counters>>

(* Bug: resume drives a run whatever became of it. *)
ResumableAlways == run # "absent"

(* resume hands a finished run back unchanged. *)
Resumable == run \in RunStatus \ (Terminal \cup {"absent"})

Resume(d) ==
    /\ driver[d].pc = "idle"
    /\ Resumable
    /\ IF \A e \in Driver : driver[e].pc = "idle" THEN UNCHANGED overlaps
       ELSE overlaps < MaxOverlaps /\ overlaps' = overlaps + 1
    /\ Goto(d, "reading")
    /\ UNCHANGED <<run, row, gates, turns, troubles>>

(* #drive reads the rows once and works from that. *)
ReadSteps(d) ==
    /\ driver[d].pc = "reading"
    /\ driver' = [driver EXCEPT ![d].done = row, ![d].pc = Enter(row)]
    /\ UNCHANGED <<run, row, gates, turns, counters>>

(* Bugs: nobody is waited for; a request for changes is still waited for. *)
WaitsForNobody(status) == FALSE
WaitsForApproval(status) == status \notin {"approved", "rejected"}

Waits(status) == status = "pending"

(* #gate: whatever is neither pending nor rejected is a go. *)
ReadGate(d) ==
    LET status == gates[driver[d].done[At(driver[d].done)].gate].status IN
    /\ driver[d].pc = "gating"
    /\ Goto(d, IF Waits(status) THEN "waiting"
               ELSE IF status = "rejected" THEN "skipping" ELSE "sending")
    /\ UNCHANGED <<run, row, gates, turns, counters>>

Ask(d) ==
    LET done == driver[d].done
        i == At(done)
    IN  /\ driver[d].pc = "asking"
        /\ Len(gates) < MaxGates
        /\ gates' = Append(gates, [step |-> i, status |-> "pending",
                                   shown |-> Shown(done, i)])
        /\ driver' = [driver EXCEPT ![d].pc = "noting", ![d].at = Len(gates) + 1]
        /\ UNCHANGED <<run, row, turns, counters>>

(* Bug: the row does not name the approval it waits for. *)
UnnamedGateRow(g) == [NoRow EXCEPT !.status = "awaiting_approval", !.awaiting = "step"]

GateRow(g) ==
    [NoRow EXCEPT !.status = "awaiting_approval", !.awaiting = "step", !.gate = g]

NoteGate(d) ==
    /\ driver[d].pc = "noting"
    /\ Record(d, GateRow(driver[d].at))
    /\ Goto(d, "waiting")
    /\ UNCHANGED <<run, gates, turns, counters>>

(* Bug: the agent is asked before the row says so. *)
SendUnrecorded(d) ==
    LET done == driver[d].done
        i == At(done)
    IN  /\ driver[d].pc = "sending"
        /\ Len(turns) < MaxTurns
        /\ turns' = Append(turns, [step |-> i, gate |-> done[i].gate,
                                   quotes |-> Quotes(done, i),
                                   pauses |-> 0, phase |-> "open"])
        /\ driver' = [driver EXCEPT ![d].pc = "running", ![d].at = Len(turns) + 1]
        /\ UNCHANGED <<run, row, gates, counters>>

(* A fresh session, the row that says so, and then the agent. *)
Send(d) ==
    LET done == driver[d].done
        i == At(done)
    IN  /\ driver[d].pc = "sending"
        /\ Len(turns) < MaxTurns
        /\ turns' = Append(turns, [step |-> i, gate |-> done[i].gate,
                                   quotes |-> Quotes(done, i),
                                   pauses |-> 0, phase |-> "open"])
        /\ Record(d, [NoRow EXCEPT !.status = "running", !.turn = Len(turns) + 1])
        /\ driver' = [driver EXCEPT ![d].pc = "running", ![d].at = Len(turns) + 1]
        /\ UNCHANGED <<run, gates, counters>>

(* agent.resume on the session of the held turn: it throws unless that turn *)
(* is still paused.                                                         *)
ResumeTurn(d) ==
    LET t == driver[d].done[At(driver[d].done)].turn IN
    /\ driver[d].pc = "resuming"
    /\ driver' = [driver EXCEPT ![d].at = t, ![d].pc =
                    IF turns[t].phase = "paused" THEN "continuing" ELSE "failing"]
    /\ UNCHANGED <<run, row, gates, turns, counters>>

(* The agent answers, pauses for one of its own tools, or throws. *)
TurnEnds(d) ==
    LET t == driver[d].at IN
    /\ driver[d].pc \in {"running", "continuing"}
    /\ \/ turns' = [turns EXCEPT ![t].phase = "answered"] /\ Goto(d, "recording")
       \/ /\ turns[t].pauses < MaxPauses
          /\ turns' = [turns EXCEPT ![t].phase = "paused", ![t].pauses = @ + 1]
          /\ Goto(d, "pausing")
       \/ turns' = [turns EXCEPT ![t].phase = "broken"] /\ Goto(d, "failing")
    /\ UNCHANGED <<run, row, gates, counters>>

(* #record, and the walk goes on from the row it wrote. *)
RecordAnswer(d) ==
    LET done == driver[d].done
        i == At(done)
        rec == [NoRow EXCEPT !.status = "completed", !.turn = driver[d].at,
                             !.output = driver[d].at]
        now == [done EXCEPT ![i] = Upsert(row[i], rec)]
    IN  /\ driver[d].pc = "recording"
        /\ Record(d, rec)
        /\ driver' = [driver EXCEPT ![d].done = now, ![d].pc = Enter(now)]
        /\ UNCHANGED <<run, gates, turns, counters>>

RecordPause(d) ==
    /\ driver[d].pc = "pausing"
    /\ Record(d, [NoRow EXCEPT !.status = "awaiting_approval", !.awaiting = "tool",
                               !.turn = driver[d].at])
    /\ Goto(d, "waiting")
    /\ UNCHANGED <<run, gates, turns, counters>>

(* A declined step is skipped and ends the run. *)
RecordSkip(d) ==
    /\ driver[d].pc = "skipping"
    /\ Record(d, [NoRow EXCEPT !.status = "skipped",
                               !.gate = driver[d].done[At(driver[d].done)].gate])
    /\ Goto(d, "declined")
    /\ UNCHANGED <<run, gates, turns, counters>>

(* The catch of #drive: the step failed, and with it the run. *)
RecordFailure(d) ==
    /\ driver[d].pc = "failing"
    /\ Record(d, [NoRow EXCEPT !.status = "failed"])
    /\ Goto(d, "broken")
    /\ UNCHANGED <<run, gates, turns, counters>>

(* setStatus: unconditional, whatever the run's row says by now. *)
EndDrive(d) ==
    /\ driver[d].pc \in {"waiting", "declined", "broken", "completing"}
    /\ run' = CASE driver[d].pc = "waiting" -> "awaiting_approval"
                [] driver[d].pc = "completing" -> "completed"
                [] OTHER -> "failed"
    /\ driver' = [driver EXCEPT ![d] = Idle]
    /\ UNCHANGED <<row, gates, turns, counters>>

-----------------------------------------------------------------------------
(* A person decides a gate. *)
Operator(g, c) ==
    /\ gates[g].status = "pending"
    /\ gates' = [gates EXCEPT ![g].status = c]
    /\ UNCHANGED <<run, row, turns, driver, counters>>

(* A store call inside a step rejects: the catch records the step as failed. *)
StoreRejects(d) ==
    /\ driver[d].pc \in {"gating", "asking", "noting", "sending", "recording",
                         "pausing", "skipping"}
    /\ troubles < MaxTroubles
    /\ troubles' = troubles + 1
    /\ Goto(d, "failing")
    /\ UNCHANGED <<run, row, gates, turns, overlaps>>

(* The process stops, or a store call outside the catch rejects.  A turn   *)
(* being continued may have got past the point where it can be again.      *)
Crash(d) ==
    /\ driver[d].pc # "idle"
    /\ troubles < MaxTroubles
    /\ troubles' = troubles + 1
    /\ driver' = [driver EXCEPT ![d] = Idle]
    /\ \/ UNCHANGED turns
       \/ /\ driver[d].pc = "continuing"
          /\ turns' = [turns EXCEPT ![driver[d].at].phase = "broken"]
    /\ UNCHANGED <<run, row, gates, overlaps>>

Drive(d) ==
    \/ ReadSteps(d) \/ ReadGate(d) \/ Ask(d) \/ NoteGate(d) \/ Send(d)
    \/ ResumeTurn(d) \/ TurnEnds(d) \/ RecordAnswer(d) \/ RecordPause(d)
    \/ RecordSkip(d) \/ RecordFailure(d) \/ EndDrive(d)

Next ==
    \/ \E d \in Driver : Start(d) \/ Resume(d) \/ Drive(d) \/ StoreRejects(d) \/ Crash(d)
    \/ \E g \in DOMAIN gates, c \in Choice : Operator(g, c)

Spec == Init /\ [][Next]_vars

(* A call being served goes on, people decide, and an unfinished run is    *)
(* resumed; nothing makes a store reject or a process stop.                *)
FairSpec ==
    /\ Spec
    /\ \A d \in Driver : WF_vars(Drive(d))
    /\ \A g \in 1..MaxGates :
         WF_vars(g \in DOMAIN gates /\ \E c \in Choice : Operator(g, c))
    /\ WF_vars(\E d \in Driver : Resume(d))

-----------------------------------------------------------------------------
SentFor(i) == {t \in DOMAIN turns : turns[t].step = i}
AskedFor(i) == {g \in DOMAIN gates : gates[g].step = i}

(* The one exception to what follows.  A request for changes lets the step  *)
(* go as it is (workflow-runner.ts:312), although the schema says that      *)
(* nothing is sent until somebody approves (workflow-config.ts:47-49).      *)
ChangesIgnored(gate) == gate.status = "changes_requested"

(* Every turn of a gated step rests on a gate of that step, and a person    *)
(* approved it, or asked for changes nobody then makes: it is never one     *)
(* that is pending or was declined, whichever driver sends (#gate).         *)
SentOnApproval ==
    \A t \in DOMAIN turns : turns[t].step \in GatedSteps =>
      /\ turns[t].gate \in AskedFor(turns[t].step)
      /\ gates[turns[t].gate].status = "approved" \/ ChangesIgnored(gates[turns[t].gate])

(* An approval is for one turn: what a crash or a rejected call makes the   *)
(* run send again is asked about again, as long as one driver walks at a    *)
(* time (#step writes the row without its approval before it sends).        *)
ApprovalIsSpent ==
    overlaps = 0 => \A t, u \in DOMAIN turns :
      turns[t].step \in GatedSteps /\ turns[t].gate = turns[u].gate => t = u

(* No step is sent before every earlier one has an answer to quote: order   *)
(* holds even when two drivers walk the same run (#drive, #values).         *)
SentInOrder ==
    \A t \in DOMAIN turns : \A j \in 1..(turns[t].step - 1) :
      /\ turns[t].quotes[j] # 0
      /\ turns[turns[t].quotes[j]].step = j
      /\ turns[turns[t].quotes[j]].phase # "open"

(* What a person was shown is what the agent is then asked, as long as one  *)
(* driver walks at a time: the prompt is rendered before the gate (#step).  *)
SentIsWhatWasShown ==
    overlaps = 0 => \A t \in DOMAIN turns :
      turns[t].step \in GatedSteps => gates[turns[t].gate].shown = turns[t].quotes

(* A run that one driver at a time completed is whole: every step completed, *)
(* every answer quotes the answers the run records for the steps before it.  *)
CompletedIsWhole ==
    overlaps = 0 /\ run = "completed" => \A i \in Step :
      /\ row[i].status = "completed" /\ row[i].output # 0
      /\ \A j \in 1..(i - 1) : turns[row[i].output].quotes[j] = row[j].output

(* A step that failed or was declined stops the run: nothing after it is    *)
(* asked or sent, unless a second driver passed it before (#drive).         *)
FailureStopsRun ==
    overlaps = 0 => \A i \in Step : row[i].status \in {"failed", "skipped"} =>
      \A j \in Step : j > i => SentFor(j) = {} /\ AskedFor(j) = {}

(* A step is sent once, and its gate is asked once, except for what a crash *)
(* or a rejected store call made the run forget, or a second driver does.   *)
OnceUnlessInterrupted ==
    overlaps = 0 =>
      \A i \in Step : /\ Cardinality(SentFor(i)) <= 1 + troubles
                      /\ Cardinality(AskedFor(i)) <= 1 + troubles

(* What reaches an agent is what the gates let through: rows and drivers    *)
(* stay what they are, a gated step is sent on an approval of its own that  *)
(* no other turn used, or on an ignored request for changes, in order, and  *)
(* as it was shown (#drive, #step, #gate).                                  *)
SendingIsGated ==
    TypeOK /\ SentOnApproval /\ ApprovalIsSpent /\ SentInOrder /\ SentIsWhatWasShown

(* What a run records adds up: whole when it completed, stopped where it    *)
(* failed, and nothing of it done twice without a reason (#drive, #record). *)
RunsAreWhole == CompletedIsWhole /\ FailureStopsRun /\ OnceUnlessInterrupted

(* What was recorded stays.  The audit trail: an output that was recorded   *)
(* is never lost, whichever driver writes the row next (recordStep's        *)
(* coalesce).  And a finished run stays finished, if nobody resumed it      *)
(* while it was driven (resume, and TERMINAL in the run store).             *)
RecordsStand ==
    [][/\ \A i \in Step : row[i].output # 0 => row'[i].output # 0
       /\ (run \in Terminal /\ overlaps = 0) => run' = run]_vars

(* A run that was started ends, when people decide and somebody resumes it, *)
(* whatever became of a driver or a second one did on the way.              *)
RunsEnd == run = "running" ~> run \in Terminal

=============================================================================
