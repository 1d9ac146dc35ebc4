----------------------------- MODULE McpServer -----------------------------
(***************************************************************************)
(* The connectors exposed as MCP tools, with the refuse-and-record gate.   *)
(*                                                                         *)
(* A Caller is one JSON-RPC message being handled.  A gated call is read   *)
(* from the queue, requested, refused, and made again by the client once a *)
(* person decided; nothing but the identity of tool and arguments ties the *)
(* two calls together.  A connection whose connector is an MCP server is   *)
(* read through McpConnector; every other source answers in one step, and  *)
(* its answer may be lost after the write happened.                        *)
(***************************************************************************)
EXTENDS McpConnector, FiniteSets

CONSTANTS
    Native,         \* connections of the other connectors
    OwnerOf,        \* OwnerOf[c]: the tenant a connection belongs to
    Body,           \* what the arguments say beside the connection
    Malformed,      \* the bodies a tool's schema refuses
    ToolCall,       \* tool calls: a tool and its arguments
    Asks,           \* who may make which of them
    Deployments,    \* how the product may construct the server
    MaxFaults,      \* bound: rejected store calls, and restarts
    MaxRuns         \* bound: how often one call may reach its source

ASSUME OwnerAssumption == OwnerOf \in [Connection \cup Native -> Tenant]
ASSUME BoundsAssumption == MaxFaults \in Nat /\ MaxRuns \in Nat

ReadOnly == {"list", "read", "search"}
Write == {"create", "update", "delete"}
Capability == ReadOnly \cup Write

(* One tool per capability, so a request is a capability and its arguments. *)
ASSUME RequestAssumption ==
    /\ ToolCall \subseteq [tool : Capability, connection : Connection \cup Native, body : Body]
    /\ Asks \subseteq Tenant \X ToolCall
    /\ ToolCall # {}

ASSUME DeploymentAssumption ==
    Deployments \subseteq [allow : SUBSET Capability, approvals : BOOLEAN,
                           gate : SUBSET Capability, ungated : BOOLEAN]

VARIABLES
    server,     \* the options this server was constructed with
    approval,   \* the queue: a row per tenant's anchor session and request id
    caller,     \* caller[w]: the locals of one message being handled; `stood` is
                \* history, what the queue said of the call when it came in
    performed,  \* performed[t][r]: how often request r reached its source for t
    faults      \* rejected store calls and restarts so far

vars == <<sessions, opened, alive, link, server, approval, caller, performed, faults>>

(* Bug: approving one call of a tool approves them all. *)
RequestIdOfTool(r) == CHOOSE q \in ToolCall : q.tool = r.tool

(* requestId: the hash of the tool and its canonical arguments. *)
RequestId(r) == r

Approvals == INSTANCE ApprovalStore WITH Session <- Tenant, Call <- ToolCall

-----------------------------------------------------------------------------
(* The constructor. *)
Gates(s, capability) == s.approvals /\ capability \in s.gate

Unasked(s) == {c \in s.allow \ ReadOnly : ~ Gates(s, c)}

(* Bug: a server with a queue is not checked any further. *)
AcceptsQueue(s) == Unasked(s) # {} => s.ungated \/ s.approvals

Accepts(s) == Unasked(s) # {} => s.ungated

Waiting == [pc |-> "idle", tenant |-> CHOOSE t \in Tenant : TRUE,
            request |-> CHOOSE r \in ToolCall : TRUE, reply |-> "none", stood |-> "none"]

ReplyKind == {"none", "protocol", "invalid", "awaiting", "rejected", "threw", "result",
              "error"}

TypeOK ==
    /\ LinkTypeOK
    /\ Approvals!StoreTypeOK
    /\ server \in Deployments
    /\ caller \in [Caller -> [pc : {"idle", "checking", "requesting", "running", "reading"},
                              tenant : Tenant, request : ToolCall, reply : ReplyKind,
                              stood : Approvals!Status]]
    /\ performed \in [Tenant -> [ToolCall -> 0..MaxRuns]]
    /\ faults \in 0..MaxFaults

Init ==
    /\ LinkInit
    /\ Approvals!StoreInit
    /\ server \in {s \in Deployments : Accepts(s)}
    /\ caller = [w \in Caller |-> Waiting]
    /\ performed = [t \in Tenant |-> [r \in ToolCall |-> 0]]
    /\ faults = 0

-----------------------------------------------------------------------------
Set(w, locals) == caller' = [caller EXCEPT ![w] = locals]

Answer(w, reply) == Set(w, [caller[w] EXCEPT !.pc = "idle", !.reply = reply])

Untouched == UNCHANGED <<sessions, opened, alive, link, server, performed>>

(* handle: every message but a tool call is answered on the spot by the     *)
(* protocol (initialize, ping, tools/list, an error for anything unknown);  *)
(* one with no id is not answered at all.                                   *)
Message(w, notification) ==
    /\ caller[w].pc = "idle"
    /\ Set(w, [Waiting EXCEPT !.reply = IF notification THEN "none" ELSE "protocol"])
    /\ UNCHANGED <<approval, faults>> /\ Untouched

(* #callTool, up to its first await. *)
CallTool(w, t, r) ==
    LET me == [Waiting EXCEPT !.tenant = t, !.request = r, !.stood = approval[t][r]] IN
    /\ caller[w].pc = "idle"
    /\ <<t, r>> \in Asks
    /\ Set(w, IF r.tool \notin server.allow \/ r.body \in Malformed
                THEN [me EXCEPT !.reply = "invalid"]
              ELSE IF Gates(server, r.tool) THEN [me EXCEPT !.pc = "checking"]
              ELSE [me EXCEPT !.pc = "running"])
    /\ UNCHANGED <<approval, faults>> /\ Untouched

(* Bugs: a request for changes is told as a rejection; a rejection is still *)
(* waited for.                                                              *)
VerdictRejects(status) ==
    IF status = "approved" THEN "run" ELSE IF status = "pending" THEN "awaiting" ELSE "rejected"
VerdictPatient(status) == IF status = "approved" THEN "run" ELSE "awaiting"

(* #decide *)
Verdict(status) ==
    IF status = "approved" THEN "run"
    ELSE IF status = "rejected" THEN "rejected"
    ELSE "awaiting"

(* check: look for the row of these very arguments. *)
Check(w) ==
    LET me == caller[w]
        id == RequestId(me.request)
        status == Approvals!ForToolCalls(me.tenant, {id})[id]
    IN  /\ me.pc = "checking"
        /\ IF status = "none" THEN Set(w, [me EXCEPT !.pc = "requesting"])
           ELSE IF Verdict(status) = "run" THEN Set(w, [me EXCEPT !.pc = "running"])
           ELSE Answer(w, Verdict(status))
        /\ UNCHANGED <<approval, faults>> /\ Untouched

(* No row: record and refuse.  Of two first calls the second collides, and *)
(* the rejection leaves handle as it is.                                   *)
Record(w) ==
    LET me == caller[w]
        id == RequestId(me.request)
    IN  /\ me.pc = "requesting"
        /\ \/ Approvals!Request(me.tenant, {id}) /\ Answer(w, "awaiting")
           \/ Approvals!Collides(me.tenant, {id}) /\ UNCHANGED approval /\ Answer(w, "threw")
        /\ UNCHANGED faults /\ Untouched

(* The queue, or the product's anchor, does not answer. *)
StoreFails(w) ==
    /\ caller[w].pc \in {"checking", "requesting"}
    /\ faults < MaxFaults
    /\ faults' = faults + 1
    /\ Answer(w, "threw")
    /\ UNCHANGED approval /\ Untouched

(* Bug: the connection is looked up without the tenant. *)
ReachesAnyone(t, r) == r.connection \in Native

(* The connection manager finds only the tenant's own, and a connector of  *)
(* somebody else's MCP server writes nothing and searches nothing.         *)
Reaches(t, r) == r.connection \in Native /\ OwnerOf[r.connection] = t

(* What goes through McpConnector: a list or a read of the tenant's own. *)
ReadsRemotely(t, r) ==
    r.connection \in Connection /\ r.tool \in {"list", "read"} /\ OwnerOf[r.connection] = t

(* tool.run on a source that answers in one step, or on nothing at all. *)
RunTool(w, answered) ==
    LET me == caller[w]
        there == Reaches(me.tenant, me.request)
    IN  /\ me.pc = "running"
        /\ ~ ReadsRemotely(me.tenant, me.request)
        /\ performed' = IF there
                          THEN [performed EXCEPT ![me.tenant][me.request] =
                                  IF @ < MaxRuns THEN @ + 1 ELSE @]
                          ELSE performed
        /\ Answer(w, IF there /\ answered THEN "result" ELSE "error")
        /\ UNCHANGED <<sessions, opened, alive, link, server, approval, faults>>

(* The source refuses, and nothing happened there. *)
SourceRefuses(w) ==
    /\ caller[w].pc = "running"
    /\ caller[w].request.connection \in Native
    /\ Answer(w, "error")
    /\ UNCHANGED <<approval, faults>> /\ Untouched

(* tool.run on an MCP connection: the connector finds or opens a session. *)
ReadRemote(w) ==
    LET me == caller[w] IN
    /\ me.pc = "running"
    /\ ReadsRemotely(me.tenant, me.request)
    /\ Begin(w, me.tenant, me.request.connection)
    /\ Set(w, [me EXCEPT !.pc = "reading"])
    /\ UNCHANGED <<server, approval, performed, faults>>

(* The handshake goes on; when it fails the tool call comes back as an error. *)
Handshake(w) ==
    /\ caller[w].pc = "reading"
    /\ Served(w)
    /\ IF link'[w].pc = "idle" THEN Answer(w, "error") ELSE UNCHANGED caller
    /\ UNCHANGED <<server, approval, performed, faults>>

RemoteAnswers(w, reply) ==
    /\ caller[w].pc = "reading"
    /\ Answers(w, reply)
    /\ Answer(w, IF Usable(reply, caller[w].request.tool) THEN "result" ELSE "error")
    /\ UNCHANGED <<server, approval, performed, faults>>

-----------------------------------------------------------------------------
Operator(t, r, d) ==
    /\ Approvals!Decide(t, r, d)
    /\ UNCHANGED <<sessions, opened, alive, link, server, caller, performed, faults>>

Expire(h) ==
    /\ h \in alive
    /\ Forget(h)
    /\ UNCHANGED <<server, approval, caller, performed, faults>>

(* The process stops: the map and every call in flight are gone. *)
Restart ==
    /\ faults < MaxFaults
    /\ faults' = faults + 1
    /\ sessions' = <<>>
    /\ link' = [w \in Caller |-> Idle]
    /\ caller' = [w \in Caller |-> Waiting]
    /\ UNCHANGED <<opened, alive, server, approval, performed>>

Serve(w) ==
    \/ Check(w) \/ Record(w)
    \/ \E answered \in BOOLEAN : RunTool(w, answered)
    \/ SourceRefuses(w)
    \/ ReadRemote(w) \/ Handshake(w)
    \/ \E reply \in Reply : RemoteAnswers(w, reply)

Next ==
    \/ \E w \in Caller, notification \in BOOLEAN : Message(w, notification)
    \/ \E w \in Caller, t \in Tenant, r \in ToolCall : CallTool(w, t, r)
    \/ \E w \in Caller : Serve(w)
    \/ \E w \in Caller : StoreFails(w)
    \/ \E t \in Tenant, r \in ToolCall, d \in Approvals!Decision : Operator(t, r, d)
    \/ \E h \in alive : Expire(h)
    \/ Restart

Spec == Init /\ [][Next]_vars

(* The clients that make a write again are those it belongs to. *)
Persistent == {a \in Asks : a[2].tool \in Write /\ OwnerOf[a[2].connection] = a[1]}

(* A message being handled goes on: every await is a store, a source or a  *)
(* server that answers or fails.  The client makes its calls again.        *)
FairSpec ==
    /\ Spec
    /\ \A w \in Caller : WF_vars(Serve(w))
    /\ \A a \in Persistent :
          SF_vars(\E w \in Caller : CallTool(w, a[1], a[2]))

-----------------------------------------------------------------------------
Ran(t, r) == performed[t][r] > 0

(* No write without its answerable decision: what reached a source was     *)
(* enabled and of the caller's own tenant, and if it is a write, either    *)
(* that tenant's reviewer approved these very arguments, or the product    *)
(* declared the server ungated (McpServer constructor, mcp-approval.ts).   *)
(* Nor does a read go out in a session of somebody else's.                 *)
WritesWereApproved ==
    /\ SessionsStayHome
    /\ \A t \in Tenant, r \in ToolCall : Ran(t, r) =>
         /\ r.tool \in server.allow
         /\ OwnerOf[r.connection] = t
         /\ Gates(server, r.tool) => approval[t][r] = "approved"
         /\ r.tool \in Write /\ ~ Gates(server, r.tool) => server.ungated

(* What the client is told is what the queue holds.  It is told to wait only *)
(* for a call that has a row a person can see, and never about one that had  *)
(* been decided when it asked: that it was approved or rejected it learns    *)
(* with that very call.  A request for changes is the one decision that is   *)
(* not told: such a call is answered as awaited, now and for ever (#decide). *)
(* A rejection was a rejection of these arguments, an answer of a gated call *)
(* was approved, and a call throws only when the queue failed, or when it    *)
(* had no row and somebody else's first call got there before (check).       *)
RepliesReflectTheQueue ==
    /\ TypeOK
    /\ \A w \in Caller :
         LET me == caller[w]
             row == approval[me.tenant][me.request]
         IN
         /\ me.reply = "awaiting" =>
              /\ row # "none"
              /\ me.stood \in Approvals!Decision => me.stood = "changes_requested"
         /\ me.reply = "rejected" => row = "rejected"
         /\ me.reply \in {"result", "error"} /\ Gates(server, me.request.tool) => row = "approved"
         /\ me.reply = "threw" => faults > 0 \/ (me.stood = "none" /\ row # "none")

Told(t, r) ==
    \E w \in Caller :
      /\ caller[w].tenant = t /\ caller[w].request = r
      /\ caller[w].reply \in (IF approval[t][r] = "approved" THEN {"result", "error"}
                              ELSE {"rejected"})

(* Refusing is the mechanism: a client that makes an approved call again   *)
(* gets past the gate, and one that was rejected is told so, however often *)
(* it collides with others (mcp-approval.ts).                              *)
DecisionsReachTheClient ==
    \A a \in Persistent :
      approval[a[1]][a[2]] \in {"approved", "rejected"} ~> Told(a[1], a[2])

=============================================================================
