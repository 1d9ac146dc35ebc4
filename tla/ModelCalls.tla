------------------------------ MODULE ModelCalls ------------------------------
(***************************************************************************)
(* A conversation as the models see it.  A message is routed to a module;  *)
(* every call of the turn is compressed, translated and sent, and what     *)
(* comes back is translated and kept, so that the next call sends it       *)
(* again.  The same pipeline and gateway are judged by the evaluations:    *)
(* routing cases, and cases answered with and without compression.         *)
(***************************************************************************)
EXTENDS Providers, Deployment

CONSTANTS
    Startups,       \* Startups[m]: the deployments a mode is looked at in
    Asks,           \* what users write
    Outputs,        \* what tools return
    System,         \* the system prompts an agent may have
    Profile,        \* the compression profiles considered
    Case,           \* compression cases: question, results and what to expect
    MaxMessages,    \* bound: messages of a conversation
    MaxCases,       \* bound: routings, and cases evaluated
    MaxFailures     \* bound: failed calls

ASSUME ModelCallsAssumption ==
    /\ Profile \subseteq DOMAIN Profiles
    /\ MaxMessages \in Nat /\ MaxCases \in Nat /\ MaxFailures \in Nat
    /\ Asks \subseteq Text /\ System \subseteq Text
    /\ \A output \in Outputs : output.lines \in Text /\ output.error \in BOOLEAN

VARIABLES
    mode,           \* "serve", "evaluate" or "administer": what is done with it
    set,            \* how models are called: profile, provider, tools, system prompt
    phase,          \* where the conversation is
    routes,         \* the decisions made, in order
    traced,         \* the route steps recorded
    history,        \* the messages of the conversation
    sent,           \* the last request: as asked for, compressed, and on the wire
    cut,            \* an answer with calls in it ended for another reason
    failure,        \* how the last call failed
    outcomes,       \* the cases evaluated
    failures

conversation == <<mode, set, phase, routes, traced, history, sent, cut, failure, outcomes,
                  failures>>
vars == <<conversation, deployment>>

NoFailure == [cause |-> "none", retryable |-> FALSE, kind |-> "none", retryAfter |-> FALSE]
Request(messages, stable) == [system |-> set.system, messages |-> messages, stable |-> stable]
NothingSent == [asked |-> [system |-> <<>>, messages |-> <<>>, stable |-> Undeclared],
                compressed |-> [system |-> <<>>, messages |-> <<>>, stable |-> Undeclared],
                wire |-> [messages |-> <<>>, system |-> <<>>, marked |-> "none", through |-> 0]]

Mode == {"serve", "evaluate", "administer"}

Init ==
    /\ DeploymentInit
    /\ mode \in Mode
    /\ [files |-> files, build |-> build] \in Startups[mode]
    /\ set \in [profile : Profile, provider : {"anthropic", "openai"}, tools : BOOLEAN,
                system : System]
    /\ ~set.tools => set.system = <<>>         \* the others differ in nothing
    /\ mode = "administer" => set.profile = "none" /\ set.provider = "openai" /\ ~set.tools
    /\ phase = "idle"
    /\ routes = <<>> /\ traced = <<>> /\ history = <<>>
    /\ sent = NothingSent /\ cut = FALSE /\ failure = NoFailure
    /\ outcomes = <<>> /\ failures = 0

(* No conversation before the deployment is up; what happens to it, and what  *)
(* its agents do, is looked at without one.                                 *)
Serves == process.pc = "up" /\ mode # "administer"

Deploy ==
    /\ Start \/ (mode = "administer" /\ (Administer \/ Work))
    /\ UNCHANGED conversation

-----------------------------------------------------------------------------
(* What the routing model may reply: no object, one that does not parse or  *)
(* has another shape, or one that names something.                          *)
Reply == {"prose", "broken", "shapeless", "stranger"} \cup Ids

Parsed(reply) == reply \notin {"prose", "broken", "shapeless"}

Decided(id, modelCall) == [module |-> id, modelCall |-> modelCall]
Refused == Decided("none", FALSE)

Chosen(reply) == IF Parsed(reply) /\ reply \in Ids THEN Decided(reply, TRUE) ELSE Refused

Decision(reply) ==
    IF process.registry = <<>> THEN Refused
    ELSE IF Len(process.registry) = 1 THEN Decided(process.registry[1].id, FALSE)
    ELSE Chosen(reply)

(* A refusal is traced as a decision is; a routing case goes no further.    *)
Route ==
    /\ Serves /\ phase = "idle" /\ Len(history) < MaxMessages /\ Len(routes) < MaxCases
    /\ \A k \in DOMAIN routes : mode = "serve" => routes[k] # Refused
    /\ \E reply \in Reply :
        LET decision == Decision(reply)
        IN  /\ routes' = Append(routes, decision)
            /\ traced' = Append(traced, [label |-> decision.module, succeeded |-> decision # Refused])
            /\ phase' = IF mode = "serve" /\ decision # Refused THEN "routed" ELSE "idle"
    /\ UNCHANGED <<deployment, mode, set, history, sent, cut, failure, outcomes, failures>>

-----------------------------------------------------------------------------
(* A turn. *)
Say(text) ==
    /\ phase = "routed"
    /\ history' = Append(history, Message("user", <<TextPart(text)>>))
    /\ phase' = "calling"
    /\ UNCHANGED <<deployment, mode, set, routes, traced, sent, cut, failure, outcomes, failures>>

(* The gateway compresses once and sends the same request to whatever it    *)
(* tries; a caller may declare how much of it will not change.              *)
Prepared(messages, stable) ==
    LET asked == Request(messages, stable)
        compressed == Compress(set.profile, asked)
    IN  [asked |-> asked, compressed |-> compressed,
         wire |-> Sent(set.provider, compressed, set.tools)]

Answer(blocks, lines) ==
    /\ Readable(set.provider, blocks)
    /\ history' = Append(history, Message("assistant", ToResponseParts(blocks, lines)))
    /\ failure' = NoFailure
    /\ UNCHANGED failures

Fail(cause) ==
    /\ failures < MaxFailures
    /\ cause = "nothing" => set.provider = "openai"
    /\ LET error == Failure(set.provider, cause)
       IN  failure' = [cause |-> cause, retryable |-> error.retryable, kind |-> error.kind,
                       retryAfter |-> error.retryAfter]
    /\ failures' = failures + 1
    /\ UNCHANGED history

Calls(message) == Parts(message, "tool_call")

(* The calls of an answer are run if it stopped to have them run: one cut    *)
(* short is kept with calls that nobody runs, unless the turn is resumed.   *)
Goes(calls, finish) ==
    /\ phase' = IF ToStopReason(finish) = "tool_call" /\ calls # <<>> THEN "tools" ELSE "idle"
    /\ cut' = (cut \/ (calls # <<>> /\ phase' = "idle"))

Call ==
    /\ phase = "calling" /\ Len(history) < MaxMessages
    /\ \E stable \in {Undeclared, Len(history) - 1, Len(history) + 1} :
        sent' = Prepared(history, stable)
    /\ \/ /\ \E blocks \in {<<"text">>, <<"text", "call">>, <<"call", "call">>,
                            <<"garbled">>, <<"thinking", "text">>} :
               Answer(blocks, history[1].content[1].lines)
          /\ \E finish \in Finish : Goes(Calls(Last(history')), finish)
       \/ /\ \E cause \in Cause : Fail(cause)
          /\ UNCHANGED cut
          /\ phase' \in {"calling", "idle"}         \* tried again, or given up
    /\ UNCHANGED <<deployment, mode, set, routes, traced, outcomes>>

(* One message answers all the calls of the one before, in their order.     *)
RunTools ==
    /\ phase = "tools" /\ Len(history) < MaxMessages
    /\ LET calls == Calls(Last(history))
       IN  \E output \in Outputs :
            history' = Append(history, Message("user",
                [k \in DOMAIN calls |-> ResultPart(calls[k].id, output.lines, output.error)]))
    /\ phase' = "calling"
    /\ UNCHANGED <<deployment, mode, set, routes, traced, sent, cut, failure, outcomes, failures>>

-----------------------------------------------------------------------------
(* Judging compression: every case is answered twice, as it is and          *)
(* compressed; a call that throws is recorded.                              *)
ToModelRequest(case) ==
    Request(IF case.results = <<>> THEN <<Message("user", <<TextPart(case.input)>>)>>
            ELSE <<Message("user", <<TextPart(case.input)>>),
                   Message("assistant", [k \in DOMAIN case.results |-> CallPart(case.ids[k], <<>>)]),
                   Message("user", [k \in DOMAIN case.results |->
                       ResultPart(case.ids[k], case.results[k].lines, case.results[k].error)])>>,
            Undeclared)

Values(lines) == UNION {Range(lines[k].values) : k \in DOMAIN lines}

(* A model that answers with every value it was shown, or does not answer.  *)
Throws == {"no answer"}
MissingFrom(answer, expected) == expected \ answer
Passed(answer, expected) == answer # Throws /\ MissingFrom(answer, expected) = {}

(* Bug: what the compressed run answered is looked for in the other one.    *)
JudgedTwice(case, baseline, compressed) ==
    [case |-> case, baselinePassed |-> Passed(baseline, case.expect),
     compressedPassed |-> Passed(baseline, case.expect), threw |-> compressed = Throws]

Judged(case, baseline, compressed) ==
    [case |-> case, baselinePassed |-> Passed(baseline, case.expect),
     compressedPassed |-> Passed(compressed, case.expect), threw |-> compressed = Throws]

Evaluate(case) ==
    LET request == ToModelRequest(case)
        shown   == Values(Rendered(request))
        left    == Values(Rendered(Compress(set.profile, request)))
    IN  /\ Serves /\ mode = "evaluate" /\ phase = "idle" /\ Len(outcomes) < MaxCases
        /\ \E baseline \in {shown, Throws}, compressed \in {left, Throws} :
            outcomes' = Append(outcomes, Judged(case, baseline, compressed))
        /\ UNCHANGED <<deployment, mode, set, phase, routes, traced, history, sent, cut, failure,
                       failures>>

Regressed(outcome) == outcome.baselinePassed /\ ~outcome.compressedPassed
PassesGate == \A k \in DOMAIN outcomes : ~Regressed(outcomes[k])

Next ==
    \/ Deploy \/ Route \/ Call \/ RunTools
    \/ \E text \in Asks : Say(text)
    \/ \E case \in Case : Evaluate(case)

Spec == Init /\ [][Next]_vars

-----------------------------------------------------------------------------
(* The types of what a conversation keeps; a prefix is never longer than its *)
(* request.                                                                 *)
TypeOK ==
    /\ mode \in Mode /\ set.profile \in Profile
    /\ phase \in {"idle", "routed", "calling", "tools"} /\ cut \in BOOLEAN
    /\ \A k \in DOMAIN history :
        /\ history[k].role \in {"user", "assistant"}
        /\ \A p \in DOMAIN history[k].content :
            history[k].content[p].type \in {"text", "tool_call", "tool_result"}
    /\ sent.wire.through <= Len(sent.wire.messages)
    /\ failure.kind \in {"none", "credential", "provider", "request"}

(* A call is answered where a provider looks for the answer: nothing but    *)
(* the other calls and their answers comes between.                         *)
Adjoins(parts, a, b) ==
    /\ parts[a].id = parts[b].id
    /\ \A k \in a..b : parts[k].type \in {"tool_call", "tool_result"}

ExchangesAreWhole(parts) ==
    \A k \in DOMAIN parts :
        /\ parts[k].type = "tool_call" =>
            \E j \in DOMAIN parts : j > k /\ parts[j].type = "tool_result" /\ Adjoins(parts, k, j)
        /\ parts[k].type = "tool_result" =>
            \E j \in DOMAIN parts : j < k /\ parts[j].type = "tool_call" /\ Adjoins(parts, j, k)

(* What is left of the values that must be exact: nothing moves in a declared *)
(* prefix, and the rest is a text of its own, as the gate judged it.        *)
ValuesAreExact(asked, compressed) ==
    LET before == Rendered(Region(asked))
        after  == Rendered(Region(compressed))
    IN  /\ IntroducesNoSensitive(before, after)
        /\ set.profile # "aggressive" => PreservesSensitive(before, after)
        /\ asked.stable # Undeclared => compressed.system = asked.system
        /\ \A k \in 1..CachePrefixLength(asked) : compressed.messages[k] = asked.messages[k]

(* An error is what was needed: no line of one is lost.                     *)
ErrorsAreKept(asked, compressed) ==
    \A m \in DOMAIN asked.messages : \A p \in DOMAIN asked.messages[m].content :
        LET part == asked.messages[m].content[p]
            left == compressed.messages[m].content[p]
        IN  part.type = "tool_result" =>
            \A k \in DOMAIN part.lines :
                part.lines[k].kind = "error" \/ (part.error /\ part.lines[k].kind = "plain") =>
                    \E j \in DOMAIN left.lines : left.lines[j].says = part.lines[k].says

(* Whatever the profile and the provider, the request on the wire is the    *)
(* conversation: every call with its answers, except in one where an answer *)
(* was cut short with calls in it; no value that must be exact altered, none *)
(* lost without a lossy engine, no line of an error lost; and what is marked *)
(* for a cache is no more than what is sent.                                *)
RequestsStayTrue ==
    /\ TypeOK
    /\ ~cut => ExchangesAreWhole(SentParts(sent.wire))
    /\ ValuesAreExact(sent.asked, sent.compressed)
    /\ ErrorsAreKept(sent.asked, sent.compressed)

(* What a provider has cached is what it is sent again: the region before   *)
(* the breakpoint of one call begins the next, when that declares one too   *)
(* of no less, whatever was compressed in either.                           *)
PrefixNeverMoves ==
    [][(/\ sent' # sent /\ sent.wire.marked # "none" /\ sent'.wire.marked # "none"
        /\ sent'.wire.through >= sent.wire.through)
       => /\ sent'.wire.system = sent.wire.system
          /\ SubSeq(sent'.wire.messages, 1, sent.wire.through)
                = SubSeq(sent.wire.messages, 1, sent.wire.through)]_vars

(* The one exception to what follows.  A timeout of the gateway aborts the  *)
(* call, and the Anthropic adapter takes the abort for a request that was   *)
(* refused and is not to be tried again (anthropic-provider.ts:246-249),    *)
(* against model-gateway.ts:158 and :171, its own comment at :236 and       *)
(* routed-gateway.ts:410, where timeouts are the provider's and retryable.  *)
AbortLaidAtTheRequest == set.provider = "anthropic" /\ failure.cause = "timedOut"

(* Whose a failure is: a limit is the key's, what the provider refuses for  *)
(* itself is the request's, and whatever else kept an answer from coming, a *)
(* deadline that passed included, is the provider's.  What is the key's or  *)
(* the provider's is tried again, and only a limit says when.               *)
FailuresAreLaid ==
    /\ failure.cause \in {"limited", "limitedUntil"} => failure.kind = "credential"
    /\ failure.cause \in {"outage", "unreachable", "timedOut", "nothing"} =>
        failure.kind = "provider" \/ AbortLaidAtTheRequest
    /\ failure.cause = "rejected" => failure.kind = "request"
    /\ failure.retryable <=> failure.kind \in {"credential", "provider"}
    /\ failure.retryAfter => failure.cause = "limitedUntil"

(* What is decided and reported is so: every routing left one step, under   *)
(* the module it chose, and chose one that is registered; a failure is laid *)
(* at the key, the provider or the request it belongs to, by both adapters, *)
(* timeouts of one of them excepted by name; and a set of cases passes only *)
(* if compression kept every value they expect of an answer that came, that *)
(* was there before.                                                        *)
OutcomesAreTrue ==
    /\ Len(traced) = Len(routes)
    /\ \A k \in DOMAIN routes :
        /\ traced[k].succeeded <=> routes[k] # Refused
        /\ routes[k] # Refused => traced[k].label = routes[k].module /\ routes[k].module \in Ids
    /\ FailuresAreLaid
    /\ PassesGate => \A k \in DOMAIN outcomes :
        LET request == ToModelRequest(outcomes[k].case)
        IN  outcomes[k].baselinePassed =>
                /\ outcomes[k].case.expect \subseteq
                        Values(Rendered(Compress(set.profile, request)))
                /\ ~outcomes[k].threw
=============================================================================
