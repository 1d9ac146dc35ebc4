------------------------------ MODULE Providers ------------------------------
(***************************************************************************)
(* What the two model adapters make of a request, of an answer, and of a   *)
(* failure: the Anthropic messages API, and chat completions.              *)
(***************************************************************************)
EXTENDS Compression

(* A sent request is a sequence of messages: its parts, and for chat the    *)
(* calls a message carries or the call a "tool" message answers.            *)
Wire(role, parts) == [role |-> role, parts |-> parts]

(* Anthropic: tools, system and messages in this order, with a breakpoint  *)
(* at the end of the last block of the declared prefix.                     *)
ToAnthropicMessage(message) == Wire(message.role, message.content)

MarkMessage(message) == message.content # <<>>

ToCreateParams(request, tools) ==
    LET n == CachePrefixLength(request)
    IN  [tools    |-> tools,
         system   |-> request.system,
         messages |-> [k \in DOMAIN request.messages |->
                         ToAnthropicMessage(request.messages[k])],
         marked   |->
            IF n = Undeclared THEN "none"
            ELSE IF n > 0 THEN (IF MarkMessage(request.messages[n]) THEN "message" ELSE "none")
            ELSE IF request.system # <<>> THEN "system"
            ELSE IF tools THEN "tool" ELSE "none",
         through  |-> IF n = Undeclared THEN 0 ELSE n]

(* Chat: results first, one message each; then the calls with the text, or  *)
(* the text alone.                                                          *)
Parts(message, type) ==
    LET content == message.content
    IN  FlattenSeq([k \in DOMAIN content |->
            IF content[k].type = type THEN <<content[k]>> ELSE <<>>])

ToChat(message) ==
    LET text    == Parts(message, "text")
        calls   == Parts(message, "tool_call")
        results == Parts(message, "tool_result")
    IN  [k \in DOMAIN results |-> Wire("tool", <<results[k]>>)]
        \o (IF calls # <<>> THEN <<Wire("assistant", text \o calls)>>
            ELSE IF text # <<>> \/ results = <<>> THEN <<Wire(message.role, text)>>
            ELSE <<>>)

ToChatMessages(request) ==
    (IF request.system = <<>> THEN <<>> ELSE <<Wire("system", <<TextPart(request.system)>>)>>)
    \o FlattenSeq([k \in DOMAIN request.messages |-> ToChat(request.messages[k])])

(* Both send their parts in this order. *)
Sent(provider, request, tools) ==
    IF provider = "anthropic"
    THEN LET params == ToCreateParams(request, tools)
         IN  [messages |-> params.messages, system |-> params.system,
              marked |-> params.marked, through |-> params.through]
    ELSE [messages |-> ToChatMessages(request), system |-> <<>>,
          marked |-> "none", through |-> 0]

SentParts(sent) ==
    FlattenSeq([k \in DOMAIN sent.messages |-> sent.messages[k].parts])

-----------------------------------------------------------------------------
(* Answers: blocks of text, calls, and what the port has no word for.       *)
Block == {"text", "call", "garbled", "thinking"}

ToResponsePart(block, id, lines) ==
    CASE block = "text" -> <<TextPart(lines)>>
      [] block = "call" -> <<CallPart(id, <<>>)>>
      [] block = "garbled" -> <<CallPart(id, <<Line("plain", "unparsed", <<>>, "none")>>)>>
      [] block = "thinking" -> <<>>

(* Chat has one text, before the calls; and none when it is empty.          *)
ToResponseParts(blocks, lines) ==
    FlattenSeq([k \in DOMAIN blocks |->
        ToResponsePart(blocks[k], IF k = 1 THEN "one" ELSE "two", lines)])

Readable(provider, blocks) ==
    \/ provider = "anthropic" /\ \A k \in DOMAIN blocks : blocks[k] # "garbled"
    \/ provider = "openai" /\ \A k \in DOMAIN blocks :
            /\ blocks[k] # "thinking"
            /\ blocks[k] = "text" => k = 1

(* Why it stopped, as the provider says it: each has its own words.         *)
Finish == {"tool_calls", "length", "stop"}

ToStopReason(finish) ==
    CASE finish = "tool_calls" -> "tool_call"
      [] finish = "length" -> "max_tokens"
      [] OTHER -> "end_turn"

(* Failures: whose they are decides what is benched for them.               *)
Cause == {"limited", "limitedUntil", "outage", "unreachable", "timedOut", "rejected", "nothing"}

(* The gateway's own deadline aborts the call, and the SDK's error for an   *)
(* abort is none of the three this one tries again.                         *)
ToGatewayError(cause) ==
    [retryable |-> cause \in {"limited", "limitedUntil", "outage", "unreachable"},
     kind |-> CASE cause \in {"limited", "limitedUntil"} -> "credential"
                [] cause \in {"outage", "unreachable"} -> "provider"
                [] OTHER -> "request",
     retryAfter |-> cause = "limitedUntil"]

(* Bug: only what came back with a status of its own is tried again.        *)
ToHttpErrorByStatus(cause) ==
    [retryable |-> cause \in {"limited", "limitedUntil", "outage"},
     kind |-> CASE cause \in {"limited", "limitedUntil"} -> "credential"
                [] cause = "outage" -> "provider"
                [] OTHER -> "request",
     retryAfter |-> cause = "limitedUntil"]

ToHttpError(cause) ==
    [retryable |-> cause # "rejected",
     kind |-> CASE cause \in {"limited", "limitedUntil"} -> "credential"
                [] cause = "rejected" -> "request"
                [] OTHER -> "provider",
     retryAfter |-> cause = "limitedUntil"]

Failure(provider, cause) ==
    IF provider = "anthropic" THEN ToGatewayError(cause) ELSE ToHttpError(cause)
=============================================================================
