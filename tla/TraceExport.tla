---------------------------- MODULE TraceExport ----------------------------
(***************************************************************************)
(* Where a turn's steps go: the table that numbers them, and the exporter  *)
(* that ships each as a span.                                              *)
(*                                                                         *)
(* A flush takes a batch out of the queue and awaits the collector, so     *)
(* several batches may be on their way at once; what a flush does between  *)
(* two awaits is one step.  A span carries the turn's step as a history of *)
(* what it stands for: its id is made of the trace and the sequence only.  *)
(***************************************************************************)
EXTENDS Naturals, Sequences, SequencesExt

CONSTANTS
    Turn,           \* turns, each with a trace of its own
    MaxSteps,       \* bound: steps a turn records
    Limits,         \* the [batch, queue] sizes an exporter may be given
    MaxFaults       \* bound: writes of the table that fail

ASSUME LimitAssumption ==
    /\ MaxSteps \in Nat /\ MaxFaults \in Nat
    /\ Limits \subseteq [batch : Nat \ {0}, queue : Nat \ {0}]

VARIABLES
    limits,     \* the sizes this exporter was given
    steps,      \* steps[t]: how many steps turn t recorded, or is recording
    stored,     \* stored[t]: the positions the table gave out so far
    counts,     \* counts[t]: the positions the exporter gave out itself
    faults,
    queue,      \* #queue
    timer,      \* is a flush scheduled?
    flights,    \* the batches of background flushes, on their way
    closing,    \* close: [pc, batch]
    delivered,  \* spans the collector took
    dropped,    \* spans reported to onError
    discarded   \* spans refused after close, which nobody is told of

exportVars == <<limits, steps, stored, counts, faults, queue, timer, flights, closing,
                delivered, dropped, discarded>>

Span == [turn : Turn, step : 1..MaxSteps, sequence : 0..MaxSteps]

(* toSpanId *)
SpanId(span) == <<span.turn, span.sequence>>

ExportTypeOK ==
    /\ limits \in Limits
    /\ steps \in [Turn -> 0..MaxSteps]
    /\ stored \in [Turn -> 0..MaxSteps]
    /\ counts \in [Turn -> 0..MaxSteps]
    /\ faults \in 0..MaxFaults
    /\ queue \in Seq(Span) /\ Len(queue) <= limits.queue
    /\ timer \in BOOLEAN
    /\ \A batch \in flights : batch \in Seq(Span) /\ Len(batch) \in 1..limits.batch
    /\ closing.pc \in {"open", "flushing", "closed"} /\ closing.batch \in Seq(Span)
    /\ delivered \cup dropped \cup discarded \subseteq Span

ExportInit ==
    /\ limits \in Limits
    /\ steps = [t \in Turn |-> 0]
    /\ stored = [t \in Turn |-> 0]
    /\ counts = [t \in Turn |-> 0]
    /\ faults = 0
    /\ queue = <<>> /\ timer = FALSE /\ flights = {}
    /\ closing = [pc |-> "open", batch |-> <<>>]
    /\ delivered = {} /\ dropped = {} /\ discarded = {}

-----------------------------------------------------------------------------
First(q, n) == SubSeq(q, 1, IF Len(q) < n THEN Len(q) ELSE n)
Rest(q, n) == SubSeq(q, n + 1, Len(q))

(* Bug: the newest give way, and nobody is told. *)
KeptSilently(q) == [queue |-> First(q, limits.queue), dropped |-> {}]

(* Bug: off by one. *)
KeptOneMore(q) ==
    LET over == IF Len(q) > limits.queue + 1 THEN 1 ELSE 0
    IN  [queue |-> Rest(q, over), dropped |-> ToSet(First(q, over))]

(* #enqueue keeps the newest, and reports what gave way. *)
Kept(q) ==
    LET over == IF Len(q) > limits.queue THEN Len(q) - limits.queue ELSE 0
    IN  [queue |-> Rest(q, over), dropped |-> ToSet(First(q, over))]

(* #enqueue: nothing after close; a full batch leaves at once, a smaller one *)
(* waits for the timer.                                                      *)
Enqueue(span) ==
    IF closing.pc = "closed"
      THEN /\ discarded' = discarded \cup {span}
           /\ UNCHANGED <<queue, timer, flights, dropped>>
      ELSE LET kept == Kept(Append(queue, span)) IN
           /\ dropped' = dropped \cup kept.dropped
           /\ IF Len(kept.queue) >= limits.batch
                THEN /\ flights' = flights \cup {First(kept.queue, limits.batch)}
                     /\ queue' = Rest(kept.queue, limits.batch)
                     /\ timer' = FALSE
                ELSE /\ queue' = kept.queue
                     /\ timer' = TRUE
                     /\ UNCHANGED flights
           /\ UNCHANGED discarded

(* record, up to the await of the inner recorder. *)
StartStep(t) ==
    /\ steps[t] < MaxSteps
    /\ steps' = [steps EXCEPT ![t] = @ + 1]
    /\ UNCHANGED <<limits, stored, counts, faults, queue, timer, flights, closing,
                   delivered, dropped, discarded>>

(* The table answers with the next position of the trace. *)
StepStored(t) ==
    /\ stored' = [stored EXCEPT ![t] = @ + 1]
    /\ Enqueue([turn |-> t, step |-> steps[t], sequence |-> stored[t]])
    /\ UNCHANGED <<limits, steps, counts, faults, closing, delivered>>

(* The table refused: the span goes out numbered from the exporter's own    *)
(* count, and the failure is swallowed by the turn's trace.                 *)
StepRefused(t) ==
    /\ counts' = [counts EXCEPT ![t] = @ + 1]
    /\ Enqueue([turn |-> t, step |-> steps[t], sequence |-> counts[t]])
    /\ UNCHANGED <<limits, steps, stored, closing, delivered>>

-----------------------------------------------------------------------------
(* The timer starts a flush of its own. *)
TimerFires ==
    /\ timer
    /\ timer' = FALSE
    /\ IF queue = <<>>
         THEN UNCHANGED <<queue, flights>>
         ELSE /\ flights' = flights \cup {First(queue, limits.batch)}
              /\ queue' = Rest(queue, limits.batch)
    /\ UNCHANGED <<limits, steps, stored, counts, faults, closing, delivered, dropped,
                   discarded>>

(* #send: one attempt; what was not taken is reported, never sent again. *)
Sent(batch, taken) ==
    /\ delivered' = IF taken THEN delivered \cup ToSet(batch) ELSE delivered
    /\ dropped' = IF taken THEN dropped ELSE dropped \cup ToSet(batch)

(* A background flush is answered, or times out, and goes on with what has *)
(* come since.                                                             *)
FlightEnds(batch, taken) ==
    /\ batch \in flights
    /\ Sent(batch, taken)
    /\ flights' = (flights \ {batch}) \cup
                    (IF queue = <<>> THEN {} ELSE {First(queue, limits.batch)})
    /\ queue' = Rest(queue, limits.batch)
    /\ UNCHANGED <<limits, steps, stored, counts, faults, timer, closing, discarded>>

(* close flushes what is queued, itself; it does not wait for the others. *)
Close ==
    /\ closing.pc = "open"
    /\ timer' = FALSE
    /\ closing' = IF queue = <<>> THEN [pc |-> "closed", batch |-> <<>>]
                  ELSE [pc |-> "flushing", batch |-> First(queue, limits.batch)]
    /\ queue' = Rest(queue, limits.batch)
    /\ UNCHANGED <<limits, steps, stored, counts, faults, flights, delivered, dropped,
                   discarded>>

CloseGoesOn(taken) ==
    /\ closing.pc = "flushing"
    /\ Sent(closing.batch, taken)
    /\ closing' = IF queue = <<>> THEN [pc |-> "closed", batch |-> <<>>]
                  ELSE [pc |-> "flushing", batch |-> First(queue, limits.batch)]
    /\ queue' = Rest(queue, limits.batch)
    /\ UNCHANGED <<limits, steps, stored, counts, faults, timer, flights, discarded>>

Exporting ==
    \/ TimerFires
    \/ \E batch \in flights, taken \in BOOLEAN : FlightEnds(batch, taken)

-----------------------------------------------------------------------------
Undelivered == ToSet(queue) \cup ToSet(closing.batch) \cup UNION {ToSet(b) : b \in flights}

Places == <<Undelivered, delivered, dropped, discarded>>

(* Dropping is counted rather than silent: every step a turn handed over   *)
(* is waiting, or delivered, or reported, in exactly one of these places,  *)
(* and only a closed exporter lets one go unreported (otlp-trace-recorder, *)
(* #enqueue and #send).  While the table numbers every step, spans that    *)
(* share an id are the same step (otlp.ts toSpanId).                       *)
SpansAreAccounted ==
    /\ \A t \in Turn : \A n \in 1..(stored[t] + counts[t]) :
         \E i \in 1..4 : \A j \in 1..4 :
           (j = i) <=> (\E span \in Places[j] : span.turn = t /\ span.step = n)
    /\ discarded # {} => closing.pc = "closed"
    /\ LET numbered == {span \in Undelivered \cup delivered \cup dropped \cup discarded : counts[span.turn] = 0}
       IN  Cardinality({SpanId(span) : span \in numbered}) = Cardinality(numbered)

=============================================================================
