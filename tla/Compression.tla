----------------------------- MODULE Compression -----------------------------
(***************************************************************************)
(* Shrinking a model request: the engines, the sensitivity gate, and the   *)
(* pipeline that runs the one under the other.                             *)
(*                                                                         *)
(* A text is a sequence of lines.  What a line says, the values in it that *)
(* must stay exact, and whether noise (trailing spaces, colour codes) ends *)
(* it is all the engines and the gate tell apart.                          *)
(***************************************************************************)
EXTENDS Integers, SequencesExt

CONSTANTS
    Word,               \* what lines say, and the values in them
    MaxBlank,           \* blank lines kept of a run
    MinRows,            \* rows worth a table
    HeadLines,          \* lines kept of a long tool result
    TailLines

ASSUME CompressionAssumption ==
    /\ MaxBlank \in Nat /\ MinRows \in Nat \ {0, 1} /\ HeadLines \in Nat /\ TailLines \in Nat
    /\ {"", "unparsed", "1.5"} \subseteq Word

Noise == {"none", "spaces", "colour"}
Line(kind, says, values, noise) ==
    [kind |-> kind, says |-> says, values |-> values, noise |-> noise]
Blank == Line("blank", "", <<>>, "none")
Elided == Line("elided", "", <<>>, "none")

(* The lines there are: a blank one holds nothing that must be exact. *)
Kind == {"plain", "row", "fence", "error", "blank", "table", "elided"}
TextLine == {line \in [kind : Kind, says : Word, values : Seq(Word), noise : Noise] :
                line.kind = "blank" => line.values = <<>>}
Text == Seq(TextLine)

(* The parts of a message, and a message. *)
TextPart(lines) == [type |-> "text", lines |-> lines, id |-> "", error |-> FALSE]
CallPart(id, lines) == [type |-> "tool_call", lines |-> lines, id |-> id, error |-> FALSE]
ResultPart(id, lines, error) ==
    [type |-> "tool_result", lines |-> lines, id |-> id, error |-> error]
Message(role, content) == [role |-> role, content |-> content]

(* A request; stable is the declared length of its cacheable prefix. *)
Undeclared == 0 - 1
CachePrefixLength(request) ==
    IF request.stable = Undeclared THEN Undeclared
    ELSE IF request.stable > Len(request.messages) THEN Len(request.messages) ELSE request.stable

RenderMessage(message) ==
    FlattenSeq([k \in DOMAIN message.content |-> message.content[k].lines])
Rendered(request) ==
    request.system \o FlattenSeq([k \in DOMAIN request.messages |->
                                    RenderMessage(request.messages[k])])

(* Characters: what a line says, its values, its noise, and a newline. *)
LineSize(line) ==
    (CASE line.kind = "blank" -> 0 [] line.kind = "row" -> 5
       [] line.kind = "table" -> 6 [] OTHER -> 3)
        + 2 * Len(line.values) + (IF line.noise = "none" THEN 1 ELSE 2)
Size(lines) == FoldSeq(LAMBDA line, n : n + LineSize(line), 0, lines)

-----------------------------------------------------------------------------
(* The sensitivity gate.  A value is a token by itself, and what stands     *)
(* between two fences is one, to the last space.                            *)
Fences(lines) == {k \in DOMAIN lines : lines[k].kind = "fence"}
Before(lines, k) == Cardinality({f \in Fences(lines) : f < k})

ProtectedTokens(lines) ==
    FlattenSeq([k \in DOMAIN lines |->
                 [v \in DOMAIN lines[k].values |-> [value |-> lines[k].values[v], code |-> <<>>]]])
    \o FlattenSeq([k \in DOMAIN lines |->
                 IF k \in Fences(lines) /\ Before(lines, k) % 2 = 0
                      /\ \E f \in Fences(lines) : f > k
                 THEN LET close == CHOOSE f \in Fences(lines) : Before(lines, f) = Before(lines, k) + 1
                      IN  <<[value |-> "", code |-> SubSeq(lines, k, close)]>>
                 ELSE <<>>])

Count(tokens, t) == Cardinality({k \in DOMAIN tokens : tokens[k] = t})

PreservesSensitive(before, after) ==
    LET wanted == ProtectedTokens(before)
        have   == ProtectedTokens(after)
    IN  \A t \in Range(wanted) : Count(have, t) >= Count(wanted, t)

IntroducesNoSensitive(before, after) ==
    LET had == ProtectedTokens(before)
        got == ProtectedTokens(after)
    IN  \A t \in Range(got) : Count(had, t) >= Count(got, t)

-----------------------------------------------------------------------------
(* Whitespace: trailing spaces go, and what a run of blank lines exceeds.   *)
TrimTrailing(line) == IF line.noise = "spaces" THEN [line EXCEPT !.noise = "none"] ELSE line

Collapse(lines) ==
    LET trimmed == [k \in DOMAIN lines |-> TrimTrailing(lines[k])]
        Surplus(k) == /\ k > MaxBlank
                      /\ \A j \in (k - MaxBlank)..k : trimmed[j] = Blank
        kept == [k \in DOMAIN trimmed |-> IF Surplus(k) THEN <<>> ELSE <<trimmed[k]>>]
    IN  FlattenSeq(kept)

(* Tables: a text that is a JSON array of like records, and nothing else.   *)
(* Its numbers are written anew.                                            *)
Reserialised(value) == IF value = "1.50" THEN "1.5" ELSE value

Tabulate(lines) ==
    LET rows == FlattenSeq([k \in DOMAIN lines |->
                    IF lines[k].kind = "blank" THEN <<>> ELSE <<lines[k]>>])
        keys == {rows[k].says : k \in DOMAIN rows}
    IN  IF /\ \A k \in DOMAIN rows : rows[k].kind = "row" /\ rows[k].noise # "colour"
           /\ Len(rows) >= MinRows
           /\ Cardinality(keys) = 1
        THEN <<Line("table", rows[1].says,
                    FlattenSeq([k \in DOMAIN rows |->
                        [v \in DOMAIN rows[k].values |-> Reserialised(rows[k].values[v])]]),
                    "none")>>
        ELSE lines

(* Tool results: colour goes, then repetitions, then the middle of a long   *)
(* one, but for the lines that look like an error.                          *)
StripAnsi(line) == IF line.noise = "colour" THEN [line EXCEPT !.noise = "none"] ELSE line

DedupeConsecutive(lines) ==
    FlattenSeq([k \in DOMAIN lines |->
        IF k > 1 /\ lines[k] = lines[k - 1] THEN <<>> ELSE <<lines[k]>>])

Truncate(lines) ==
    LET n == Len(lines)
        Keep(k) == k <= HeadLines \/ k > n - TailLines \/ lines[k].kind = "error"
    IN  IF n <= HeadLines + TailLines THEN lines
        ELSE FlattenSeq([k \in DOMAIN lines |->
                CASE Keep(k) -> <<lines[k]>>
                  [] ~Keep(k) /\ (k = 1 \/ Keep(k - 1)) -> <<Elided>>
                  [] OTHER -> <<>>])

ShortenResult(part) ==
    LET deduped == DedupeConsecutive([k \in DOMAIN part.lines |-> StripAnsi(part.lines[k])])
    IN  [part EXCEPT !.lines = IF part.error THEN deduped ELSE Truncate(deduped)]

(* What an engine makes of a request. *)
Engine == {"whitespace", "table", "results"}
Lossy(engine) == engine = "results"

Shrunk(engine, part) ==
    CASE part.type = "tool_call" -> part
      [] part.type # "tool_call" /\ engine = "whitespace" ->
            [part EXCEPT !.lines = Collapse(part.lines)]
      [] part.type # "tool_call" /\ engine = "table" ->
            [part EXCEPT !.lines = Tabulate(part.lines)]
      [] part.type = "text" /\ engine = "results" -> part
      [] part.type = "tool_result" /\ engine = "results" -> ShortenResult(part)

ShrunkMessage(engine, message) ==
    [message EXCEPT !.content = [p \in DOMAIN @ |-> Shrunk(engine, @[p])]]

Candidate(engine, request) ==
    [request EXCEPT
        !.system = IF engine = "whitespace" THEN Collapse(@) ELSE @,
        !.messages = [k \in DOMAIN @ |-> ShrunkMessage(engine, @[k])]]

-----------------------------------------------------------------------------
(* The pipeline: the engines a profile enables, in their order. *)
Profiles ==
    [none |-> {}, light |-> {"whitespace"}, medium |-> {"whitespace", "table"},
     aggressive |-> Engine]

(* Bug: the gate is asked about the text it started from. *)
SafeUnchecked(engine, before, after) == PreservesSensitive(before, before)

Safe(engine, before, after) ==
    IF Lossy(engine) THEN IntroducesNoSensitive(before, after)
    ELSE PreservesSensitive(before, after)

RunEngine(request, engine) ==
    LET candidate == Candidate(engine, request)
        before == Rendered(request)
        after  == Rendered(candidate)
    IN  IF Size(after) < Size(before) /\ Safe(engine, before, after)
        THEN candidate ELSE request

Pass(profile, engine, request) ==
    IF engine \in Profiles[profile] THEN RunEngine(request, engine) ELSE request

Run(profile, request) ==
    LET trimmed == Pass(profile, "whitespace", request)
        tabled  == Pass(profile, "table", trimmed)
    IN  Pass(profile, "results", tabled)

(* Bug: the prefix is compressed with the rest. *)
CompressAll(profile, request) == Run(profile, request)

(* What a declared prefix leaves to compress: all the engines and the gate see. *)
Region(request) ==
    LET n == CachePrefixLength(request)
    IN  IF n = Undeclared THEN request
        ELSE [request EXCEPT !.system = <<>>, !.stable = Undeclared,
                             !.messages = SubSeq(@, n + 1, Len(@))]

Compress(profile, request) ==
    LET n == CachePrefixLength(request)
        rest == Run(profile, Region(request))
    IN  IF n = Undeclared THEN rest
        ELSE [request EXCEPT !.messages = SubSeq(@, 1, n) \o rest.messages]
=============================================================================
