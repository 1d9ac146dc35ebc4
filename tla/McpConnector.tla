---------------------------- MODULE McpConnector ----------------------------
(***************************************************************************)
(* The other side of MCP: reading somebody else's server as a source.      *)
(*                                                                         *)
(* A Caller is one `list` or `read` in flight.  The connector keeps one    *)
(* session per tenant and connection in an insertion-ordered map; opening  *)
(* one takes two requests (initialize, then the notification), so two      *)
(* callers may open the same one, and the map may have changed meanwhile.  *)
(* The server is external: it answers in every way HTTP allows, and may    *)
(* forget any session it handed out.                                       *)
(***************************************************************************)
EXTENDS Naturals, Sequences

CONSTANTS
    Caller,         \* list and read calls that can be in flight together
    Tenant,
    Connection,     \* connections whose connector is an MCP server
    MaxSessions,    \* maxSessions
    MaxOpened       \* bound: sessions the server hands out

ASSUME SessionsAssumption ==
    /\ MaxSessions \in Nat \ {0} /\ MaxOpened \in Nat
    /\ Tenant # {} /\ Connection # {}

VARIABLES
    sessions,   \* the map: a sequence of [key, handle], oldest first
    opened,     \* opened[h]: whose credential opened the server's session h
    alive,      \* the handles the server still knows
    link        \* link[w]: the locals of one call

linkVars == <<sessions, opened, alive, link>>

(* Bug: the map is keyed by the server alone. *)
SessionKeyShared(t, c) ==
    <<CHOOSE u \in Tenant : TRUE, CHOOSE d \in Connection : TRUE>>

SessionKey(t, c) == <<t, c>>

(* A server may hand out no session id at all: handle 0. *)
NoHandle == 0

Idle == [pc |-> "idle", tenant |-> CHOOSE t \in Tenant : TRUE,
         connection |-> CHOOSE c \in Connection : TRUE,
         handle |-> NoHandle, resources |-> FALSE]

(* The map is a map and keeps its bound, though callers open sessions together. *)
LinkTypeOK ==
    /\ sessions \in Seq([key : Tenant \X Connection, handle : Nat])
    /\ Len(sessions) <= MaxSessions
    /\ \A i, j \in DOMAIN sessions : sessions[i].key = sessions[j].key => i = j
    /\ opened \in Seq(Tenant \X Connection)
    /\ alive \subseteq DOMAIN opened
    /\ link \in [Caller -> [pc : {"idle", "initializing", "notifying", "calling"},
                            tenant : Tenant, connection : Connection,
                            handle : Nat, resources : BOOLEAN]]

LinkInit ==
    /\ sessions = <<>>
    /\ opened = <<>>
    /\ alive = {}
    /\ link = [w \in Caller |-> Idle]

-----------------------------------------------------------------------------
(* What comes back over HTTP. *)
Reply == {"json", "event_stream", "rpc_error", "not_json", "http_error", "too_big",
          "no_answer", "empty"}

(* send: an HTTP failure and an unreadable frame become JSON-RPC errors, an *)
(* oversized or missing answer throws.                                      *)
Carried(reply) ==
    IF reply \in {"too_big", "no_answer"} THEN "throws"
    ELSE IF reply \in {"rpc_error", "not_json", "http_error"} THEN "error"
    ELSE "result"

(* unwrap: for the caller of the client both are a failed call. *)
Succeeds(reply) == Carried(reply) = "result"

(* A list may be empty; a resource without contents is a failed read. *)
Usable(reply, tool) == Succeeds(reply) /\ ~ (tool = "read" /\ reply = "empty")

Known(key) == \E i \in DOMAIN sessions : sessions[i].key = key

HandleOf(key) == sessions[CHOOSE i \in DOMAIN sessions : sessions[i].key = key].handle

(* Map.set keeps the place of a key that is there. *)
Stored(map, key, handle) ==
    IF \E i \in DOMAIN map : map[i].key = key
      THEN [i \in DOMAIN map |-> IF map[i].key = key THEN [key |-> key, handle |-> handle]
                                 ELSE map[i]]
      ELSE Append(map, [key |-> key, handle |-> handle])

(* Bug: the map is full one entry later. *)
RoomAfterTwice(map) == IF Len(map) > MaxSessions THEN Tail(map) ELSE map

(* Oldest out when the map is full, whether or not the key is already in it. *)
RoomAfter(map) == IF Len(map) >= MaxSessions THEN Tail(map) ELSE map

-----------------------------------------------------------------------------
(* #session: a session that is kept is used, otherwise one is opened. *)
Begin(w, t, c) ==
    LET key == SessionKey(t, c)
        me == [Idle EXCEPT !.tenant = t, !.connection = c]
    IN  /\ link[w].pc = "idle"
        /\ link' = [link EXCEPT ![w] =
                      IF Known(key)
                        THEN [me EXCEPT !.pc = "calling", !.handle = HandleOf(key)]
                        ELSE [me EXCEPT !.pc = "initializing"]]
        /\ UNCHANGED <<sessions, opened, alive>>

End(w) == link' = [link EXCEPT ![w] = Idle]

(* The server opens a session for whoever's credential came with the request. *)
Initialize(w, hands, resources) ==
    LET me == link[w] IN
    /\ me.pc = "initializing"
    /\ IF hands
         THEN /\ Len(opened) < MaxOpened
              /\ opened' = Append(opened, <<me.tenant, me.connection>>)
              /\ alive' = alive \cup {Len(opened')}
         ELSE UNCHANGED <<opened, alive>>
    /\ link' = [link EXCEPT ![w].pc = "notifying", ![w].resources = resources,
                            ![w].handle = IF hands THEN Len(opened') ELSE NoHandle]
    /\ UNCHANGED sessions

InitializeFails(w, reply) ==
    /\ link[w].pc = "initializing"
    /\ ~ Succeeds(reply)
    /\ End(w)
    /\ UNCHANGED <<sessions, opened, alive>>

(* notifications/initialized is awaited; its reply is discarded.  Then the *)
(* session is refused (no resources) or kept.                              *)
Notified(w) ==
    LET me == link[w] IN
    /\ me.pc = "notifying"
    /\ IF me.resources
         THEN /\ sessions' = Stored(RoomAfter(sessions),
                                    SessionKey(me.tenant, me.connection), me.handle)
              /\ link' = [link EXCEPT ![w].pc = "calling"]
         ELSE End(w) /\ UNCHANGED sessions
    /\ UNCHANGED <<opened, alive>>

NotifyFails(w) ==
    /\ link[w].pc = "notifying"
    /\ End(w)
    /\ UNCHANGED <<sessions, opened, alive>>

(* resources/list or resources/read; a session the server forgot is an HTTP *)
(* error like any other, and the map keeps it.                              *)
Answers(w, reply) ==
    /\ link[w].pc = "calling"
    /\ link[w].handle # NoHandle /\ link[w].handle \notin alive => reply = "http_error"
    /\ End(w)
    /\ UNCHANGED <<sessions, opened, alive>>

Served(w) ==
    \/ \E hands, resources \in BOOLEAN : Initialize(w, hands, resources)
    \/ \E reply \in Reply : InitializeFails(w, reply)
    \/ Notified(w)
    \/ NotifyFails(w)

(* The server restarts, or lets a session expire. *)
Forget(h) ==
    /\ alive' = alive \ {h}
    /\ UNCHANGED <<sessions, opened, link>>

-----------------------------------------------------------------------------
(* A session is one tenant's: whoever raced whom in opening it, and        *)
(* whatever was evicted, the handle a call goes out with, or that is kept, *)
(* was opened with the credential of that very tenant and connection.      *)
SessionsStayHome ==
    /\ \A w \in Caller : link[w].pc = "calling" /\ link[w].handle # NoHandle =>
          opened[link[w].handle] = <<link[w].tenant, link[w].connection>>
    /\ \A i \in DOMAIN sessions : sessions[i].handle # NoHandle =>
          opened[sessions[i].handle] = sessions[i].key

=============================================================================
