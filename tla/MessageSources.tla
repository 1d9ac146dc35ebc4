--------------------------- MODULE MessageSources ---------------------------
(***************************************************************************)
(* The connectors of chat services: Slack and Microsoft Teams.  Channels   *)
(* (and teams) are containers that can only be listed and read; messages   *)
(* are what is written.                                                    *)
(***************************************************************************)
EXTENDS SourceRequests

-----------------------------------------------------------------------------
(* Slack. *)
SlackChannel(n) == [id |-> <<"channel:">> \o n.channel, parent |-> Nowhere]

SlackMessage(n) == [id |-> <<"message:">> \o n.channel \o <<":">> \o n.ts,
                    parent |-> <<"channel:">> \o n.channel]

SlackResource(n) == IF n.kind = "channel" THEN SlackChannel(n) ELSE SlackMessage(n)

SlackRef(id) ==
    LET rest == Tail(id)
        colon == FirstOf(rest, ":")
    IN  IF Starts(id, "channel:") /\ rest # <<>>
        THEN [kind |-> "channel", channel |-> rest]
        ELSE IF Starts(id, "message:") /\ Places(rest, ":") # {} /\ Inside(rest, colon)
        THEN [kind |-> "message", channel |-> Upto(rest, colon), ts |-> From(rest, colon)]
        ELSE Invalid

(* A parent may be the channel's id or its bare name. *)
SlackContainer(parent) ==
    [kind |-> "channel", channel |-> IF Starts(parent, "channel:") THEN Tail(parent) ELSE parent]

SlackListMessages(c) == Only(c.parent # Nowhere, <<"page">>)
SlackList(c) == IF c.inside THEN SlackListMessages(c) ELSE <<"page">>

(* Slack signals the end with an empty token. *)
SlackNext(reply) == IF reply.token = Empty THEN Nowhere ELSE reply.token

(* Bug: the page the source has just given is the last only when it is past *)
(* the last.                                                                *)
SlackSearchNextTwice(cursor, reply) ==
    IF PageNumber(cursor) <= reply.pages THEN Cursor(PageNumber(cursor)) ELSE Nowhere

SlackSearchNext(cursor, reply) ==
    IF PageNumber(cursor) < reply.pages THEN Cursor(PageNumber(cursor) + 1) ELSE Nowhere

SlackPost(c) == Only(c.parent # Nowhere \/ c.meta, <<"post">>)
SlackUpdate(c) == Only(c.ref.kind = "message" /\ "body" \in c.patch, <<"put">>)
SlackDelete(c) == Only(c.ref.kind = "message", <<"remove">>)
SlackReadChannel == <<"get">>
SlackReadMessage == <<"get">>    \* the history between ts and ts

SlackScript(c) ==
    CASE c.op = "list" -> SlackList(c)
      [] c.op = "search" -> <<"page">>
      [] c.op = "read" -> IF c.ref.kind = "channel" THEN SlackReadChannel ELSE SlackReadMessage
      [] c.op = "create" -> SlackPost(c)
      [] c.op = "update" -> SlackUpdate(c)
      [] c.op = "delete" -> SlackDelete(c)

SlackWrites(patch) == {"body"}

(* #unwrap: a logical failure comes with status 200, and some are 404s. *)
SlackTransport == [ok |-> "answered", empty |-> "failed",
                   missing |-> "missing", refused |-> "failed"]

-----------------------------------------------------------------------------
(* Teams.  A team's id and a message's hold no colon; a channel's does. *)
TeamsTeam(n) == [id |-> <<"team:">> \o n.team, parent |-> Nowhere]

TeamsChannel(n) == [id |-> <<"channel:">> \o n.team \o <<":">> \o n.channel,
                    parent |-> <<"team:">> \o n.team]

TeamsMessage(n) == [id |-> <<"message:">> \o n.team \o <<":">> \o n.channel
                              \o <<":">> \o n.message,
                    parent |-> <<"channel:">> \o n.team \o <<":">> \o n.channel]

TeamsResource(n) ==
    CASE n.kind = "team" -> TeamsTeam(n)
      [] n.kind = "channel" -> TeamsChannel(n)
      [] n.kind = "message" -> TeamsMessage(n)

TeamsRef(id) ==
    LET rest == Tail(id)
        first == FirstOf(rest, ":")
        last == LastOf(rest, ":")
        split == Places(rest, ":") # {}
    IN  IF Starts(id, "team:") /\ rest # <<>>
        THEN [kind |-> "team", team |-> rest]
        ELSE IF Starts(id, "channel:") /\ split /\ Inside(rest, first)
        THEN [kind |-> "channel", team |-> Upto(rest, first), channel |-> From(rest, first)]
        ELSE IF Starts(id, "message:") /\ split /\ Inside(rest, first) /\ Inside(rest, last)
                  /\ first < last
        THEN [kind |-> "message", team |-> Upto(rest, first),
              channel |-> SubSeq(rest, first + 1, last - 1), message |-> From(rest, last)]
        ELSE Invalid

IsChannel(parent) == parent # Nowhere /\ TeamsRef(parent).kind = "channel"

(* The messages of a channel are asked for; teams are listed otherwise. *)
TeamsList(c) == IF c.inside THEN Only(IsChannel(c.parent), <<"page">>) ELSE <<"page">>

(* The source gives a link; without one, or with none of its own, no more. *)
TeamsNext(reply) == reply.token

TeamsPost(c) == Only(IsChannel(c.parent), <<"post">>)

TeamsScript(c) ==
    CASE c.op = "list" -> TeamsList(c)
      [] c.op = "read" -> <<"get">>
      [] c.op = "create" -> TeamsPost(c)
      [] OTHER -> Refused

TeamsTransport == [ok |-> "answered", empty |-> "answered",
                   missing |-> "missing", refused |-> "failed"]

=============================================================================
