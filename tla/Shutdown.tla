----------------------------- MODULE Shutdown ------------------------------
(***************************************************************************)
(* A process that stops: turns in flight, the drain, and the harness that  *)
(* closes the exporter and then the pool, while turns the drain gave up on *)
(* go on writing.                                                          *)
(***************************************************************************)
EXTENDS TraceExport, FiniteSets

VARIABLES
    turn,       \* turn[t]: where turn t is
    accepting,  \* #accepting
    handler,    \* where the signal handler is
    timedOut,   \* the drain's result: its deadline passed
    abandoned,  \* the drain's result: the turns it gave up on
    ended,      \* was pool.end called?
    exitCode,   \* process.exitCode, "none" until it is set
    health      \* the last answer of readiness, or that it is being worked out

lifecycleVars == <<turn, accepting, handler, timedOut, abandoned, ended, exitCode, health>>

shutdownVars == <<limits, steps, stored, counts, faults, queue, timer, flights, closing,
                  delivered, dropped, discarded, turn, accepting, handler, timedOut,
                  abandoned, ended, exitCode, health>>

InFlight == {t \in Turn : turn[t] \in {"working", "recording"}}

ShutdownTypeOK ==
    /\ ExportTypeOK
    /\ turn \in [Turn -> {"new", "refused", "working", "recording", "over"}]
    /\ accepting \in BOOLEAN
    /\ handler \in {"none", "draining", "closing", "ending", "over"}
    /\ timedOut \in BOOLEAN
    /\ abandoned \subseteq Turn
    /\ ended \in BOOLEAN
    /\ exitCode \in {"none", "0", "1"}
    /\ health \in {"unready", "probing", "ready"}

ShutdownInit ==
    /\ ExportInit
    /\ turn = [t \in Turn |-> "new"]
    /\ accepting = TRUE
    /\ handler = "none"
    /\ timedOut = FALSE /\ abandoned = {}
    /\ ended = FALSE
    /\ exitCode = "none"
    /\ health = "unready"

-----------------------------------------------------------------------------
(* Lifecycle.run: counted while it runs, refused once draining has begun. *)
RunTurn(t) ==
    /\ turn[t] = "new"
    /\ turn' = [turn EXCEPT ![t] = IF accepting THEN "working" ELSE "refused"]
    /\ UNCHANGED exportVars
    /\ UNCHANGED <<accepting, handler, timedOut, abandoned, ended, exitCode, health>>

(* However the turn finished, it is no longer in flight. *)
TurnEnds(t) ==
    /\ turn[t] = "working"
    /\ turn' = [turn EXCEPT ![t] = "over"]
    /\ UNCHANGED exportVars
    /\ UNCHANGED <<accepting, handler, timedOut, abandoned, ended, exitCode, health>>

RecordStep(t) ==
    /\ turn[t] = "working"
    /\ StartStep(t)
    /\ turn' = [turn EXCEPT ![t] = "recording"]
    /\ UNCHANGED <<accepting, handler, timedOut, abandoned, ended, exitCode, health>>

(* A pool that was ended takes no query; one that is not may still fail. *)
Recorded(t) ==
    /\ turn[t] = "recording"
    /\ \/ ~ ended /\ StepStored(t)
       \/ ~ ended /\ faults < MaxFaults /\ faults' = faults + 1 /\ StepRefused(t)
       \/ ended /\ StepRefused(t) /\ UNCHANGED faults
    /\ turn' = [turn EXCEPT ![t] = "working"]
    /\ UNCHANGED <<accepting, handler, timedOut, abandoned, ended, exitCode, health>>

-----------------------------------------------------------------------------
(* SIGTERM: the second one is noted and ignored. *)
Signal ==
    /\ handler = "none"
    /\ accepting' = FALSE
    /\ handler' = IF InFlight = {} THEN "closing" ELSE "draining"
    /\ UNCHANGED exportVars
    /\ UNCHANGED <<turn, timedOut, abandoned, ended, exitCode, health>>

(* Bug: the drain does not wait. *)
DrainedAtOnce == TRUE

Drained == InFlight = {}

(* Bug: the drain has no deadline. *)
DeadlineNever == FALSE

(* The timer of the drain fires whatever is still running. *)
Deadline == TRUE

(* drain: what was running finished, or the deadline passed. *)
DrainEnds(expired) ==
    /\ handler = "draining"
    /\ IF expired THEN Deadline ELSE Drained
    /\ timedOut' = expired
    /\ abandoned' = InFlight
    /\ handler' = "closing"
    /\ UNCHANGED exportVars
    /\ UNCHANGED <<turn, accepting, ended, exitCode, health>>

(* onShutdown is Harness.close: first the spans, ... *)
CloseExporter ==
    /\ handler = "closing"
    /\ \/ Close
       \/ \E taken \in BOOLEAN : CloseGoesOn(taken)
    /\ UNCHANGED lifecycleVars

PoolMayEnd == closing.pc = "closed"

(* ... then the pool, which waits for the queries it is serving. *)
EndPool ==
    /\ handler = "closing"
    /\ PoolMayEnd
    /\ ended' = TRUE
    /\ handler' = "ending"
    /\ UNCHANGED exportVars
    /\ UNCHANGED <<turn, accepting, timedOut, abandoned, exitCode, health>>

(* exit, non-zero when turns were given up on or closing failed. *)
Exit(failed) ==
    /\ handler = "ending"
    /\ failed \/ \A t \in Turn : turn[t] # "recording"
    /\ exitCode' = IF failed \/ timedOut THEN "1" ELSE "0"
    /\ handler' = "over"
    /\ UNCHANGED exportVars
    /\ UNCHANGED <<turn, accepting, timedOut, abandoned, ended, health>>

-----------------------------------------------------------------------------
(* readiness: a draining process is not asked any further. *)
AskReadiness ==
    /\ health # "probing"
    /\ health' = IF accepting THEN "probing" ELSE "unready"
    /\ UNCHANGED exportVars
    /\ UNCHANGED <<turn, accepting, handler, timedOut, abandoned, ended, exitCode>>

(* runProbe: the database answers, fails, or does not answer in time. *)
ProbeAnswers(healthy) ==
    /\ health = "probing"
    /\ healthy => ~ ended
    /\ health' = IF healthy THEN "ready" ELSE "unready"
    /\ UNCHANGED exportVars
    /\ UNCHANGED <<turn, accepting, handler, timedOut, abandoned, ended, exitCode>>

Export == Exporting /\ UNCHANGED lifecycleVars

Stopping ==
    \/ \E expired \in BOOLEAN : DrainEnds(expired)
    \/ CloseExporter
    \/ EndPool
    \/ \E failed \in BOOLEAN : Exit(failed)

ShutdownNext ==
    \/ \E t \in Turn : RunTurn(t) \/ TurnEnds(t) \/ RecordStep(t) \/ Recorded(t)
    \/ Signal
    \/ Stopping
    \/ Export
    \/ AskReadiness
    \/ \E healthy \in BOOLEAN : ProbeAnswers(healthy)

ShutdownSpec == ShutdownInit /\ [][ShutdownNext]_shutdownVars

(* A query and a send end (the pool answers, the send has a timeout), and   *)
(* so does the drain, at its deadline; a turn need not.                     *)
ShutdownFairSpec ==
    /\ ShutdownSpec
    /\ WF_shutdownVars(Stopping)
    /\ \A t \in Turn : WF_shutdownVars(Recorded(t))

-----------------------------------------------------------------------------
(* Nothing is closed under a turn that was waited for: when the exporter   *)
(* refuses spans, or the pool queries, only turns that outlived the drain's *)
(* deadline are still running, and the exit code says so.  A clean exit     *)
(* refused no span and left none in the queue (shutdown.ts, create-harness *)
(* close); what another flush took out is still on its way.                *)
ClosedAfterTurns ==
    /\ ShutdownTypeOK
    /\ closing.pc = "closed" \/ ended => ~ accepting /\ InFlight \subseteq abandoned
    /\ ended => closing.pc = "closed"
    /\ abandoned # {} => timedOut
    /\ exitCode = "0" => abandoned = {} /\ discarded = {} /\ queue = <<>>

(* A signal is answered: the process exits though turns, or the collector, *)
(* hang.                                                                   *)
ShutdownEnds == handler # "none" ~> exitCode # "none"

=============================================================================
