----------------------------- MODULE Connectors -----------------------------
(***************************************************************************)
(* Calls through a connector to the source behind it.                      *)
(*                                                                         *)
(* A behaviour is about one source.  Callers, the tool calls of several    *)
(* turns, each run one operation: a script of requests (see the modules of *)
(* the sources), each answered before the next is sent, with people and    *)
(* other callers at work in between.  A source may refuse a request, and   *)
(* an answer may be lost: the deadline then ends the call although the     *)
(* request took effect.  A caller follows a listing to its end, one call   *)
(* after the other.                                                        *)
(*                                                                         *)
(* The source holds a container ("top"), what is in it ("a" and "b"), and  *)
(* what a caller creates there, which is named by the caller.              *)
(***************************************************************************)
EXTENDS MessageSources, ScheduleSources, DocumentSources, IssueSources, SequencesExt

CONSTANTS
    Caller,
    Source,         \* the connectors considered
    Asks,           \* Asks[c]: the operations caller c may ask for
    Targets,        \* Targets[c]: the resources, by item, it asks them on
    Patches,        \* Patches[c]: the sets of fields it patches
    NameOf,         \* NameOf[s][i]: what source s calls item i
    KindOf,         \* KindOf[i]: what item i is to Google Drive
    Order,          \* Order[i]: the place of item i in the listings
    BlockPages,     \* MAX_BLOCK_PAGES
    MaxTroubles     \* bounds the refusals, the lost answers and what people change

Item == {"top", "a", "b"} \cup Caller

ASSUME SourceAssumption ==
    /\ Source \subseteq {"memory", "notion", "drive", "confluence", "slack", "teams",
                         "calendar", "calcom", "calendly", "jira", "issue",
                         "discussion", "project", "code"}
    /\ Caller \cap {"top", "a", "b", "none", "stray", "first", "second", "person"} = {}
    /\ IsFiniteSet(Caller) /\ \A c \in Caller : Patches[c] \subseteq SUBSET Field
    /\ Order \in [Item -> Nat] /\ IsInjective(Order)
    /\ BlockPages \in Nat \ {0} /\ MaxTroubles \in Nat

VARIABLES
    source,     \* the source of this behaviour
    remote,     \* remote[i]: item i as the source has it
    site,       \* is the Atlassian site of the connection known?
    call,       \* call[c]: the call of caller c
    troubles

connectors == <<source, remote, site, call, troubles>>

Value == {"first", "second", "person"} \cup Caller
Thing(title, body) ==
    [state |-> "live", title |-> title, body |-> body, other |-> title, version |-> 1]
Absent == [Thing("first", <<>>) EXCEPT !.state = "absent"]

Operation == {"list", "search", "read", "create", "update", "delete"}
OnOne == {"read", "update", "delete"}     \* of one resource, by its id
Ended == {"done", "missing", "failed"}

-----------------------------------------------------------------------------
(* The connectors, by source. *)
MemoryResource(n) == [id |-> n.id, parent |-> n.parent]
MemoryScript(c) ==
    CASE c.op \in {"list", "search"} -> <<"page">>
      [] c.op = "read" -> <<"get">>
      [] c.op = "create" -> <<"post">>
      [] c.op = "update" -> <<"put">>
      [] c.op = "delete" -> <<"remove">>

MemoryNext(cursor, limit, reply) ==
    IF StartOffset(cursor) + limit < reply.total
    THEN Cursor(StartOffset(cursor) + limit) ELSE Nowhere


GitHub == {"issue", "discussion", "project", "code"}

(* What a connector declares: the manager lets nothing else through. *)
Can(s) ==
    CASE s \in {"calcom"} -> Operation \ {"search"}
      [] s = "calendly" -> {"list", "read", "delete"}
      [] s = "teams" -> {"list", "read", "create"}
      [] s \in GitHub -> GitHubCan
      [] OTHER -> Operation

Resource(s, n) ==
    CASE s = "memory" -> MemoryResource(n)
      [] s = "notion" -> NotionResource(n)
      [] s = "drive" -> DriveResource(n)
      [] s = "confluence" -> ConfluenceResource(n)
      [] s = "slack" -> SlackResource(n)
      [] s = "teams" -> TeamsResource(n)
      [] s = "calendar" -> CalendarResource(n)
      [] s = "calcom" -> CalcomResource(n)
      [] s = "calendly" -> CalendlyResource(n)
      [] s = "jira" -> JiraResource(n)
      [] s = "issue" -> IssueResource(n)
      [] s = "discussion" -> DiscussionResource(n)
      [] s = "project" -> ProjectResource(n)
      [] s = "code" -> CodeResource(n)

Ref(s, id) ==
    CASE s \in {"memory", "drive", "confluence", "jira"} -> id
      [] s = "notion" -> NotionRef(id)
      [] s = "slack" -> SlackRef(id)
      [] s = "teams" -> TeamsRef(id)
      [] s = "calendar" -> CalendarRef(id)
      [] s = "calcom" -> CalcomRef(id)
      [] s = "calendly" -> CalendlyRef(id)
      [] s \in GitHub -> CASE Addressed(id) = "issue" -> IssueRef(id)
                           [] Addressed(id) = "discussion" -> DiscussionRef(id)
                           [] Addressed(id) = "project" -> ProjectRef(id)
                           [] Addressed(id) = "code" -> CodeRef(id)

(* A reference to item i: the part of its name its id carries. *)
Denotes(s, ref, i) ==
    LET n == NameOf[s][i]
    IN  CASE s \in {"memory", "drive", "confluence"} -> ref = n.id
          [] s = "jira" -> ref = n.key
          [] s = "notion" -> ref.kind = n.kind /\ ref.id = n.id
          [] s = "calcom" -> /\ ref.kind = n.kind
                             /\ ref.name = IF n.kind = "booking" THEN n.uid ELSE n.type
          [] s = "calendly" -> ref.kind = n.kind /\ ref.name = UuidOf(n.uri)
          [] OTHER -> ref = n

(* Is the container a parent names the one the source holds? *)
NamesTop(s, parent) ==
    LET n == NameOf[s]["top"]
    IN  CASE s \in {"memory", "drive", "confluence"} -> parent = n.id
          [] s = "jira" -> parent = n.key
          [] s = "notion" -> NotionRef(parent).id = n.id /\ n.kind = "database"
                             /\ NotionRef(parent).kind = "database"
          [] s = "slack" -> SlackContainer(parent) = n
          [] s = "teams" -> TeamsRef(parent) = n
          [] s = "calendar" -> CalendarContainer(parent) = n
          [] s = "calcom" -> CalcomContainer(parent) = n
          [] s = "calendly" -> TRUE         \* its parents narrow nothing
          [] s \in {"issue", "discussion"} -> parent = n.repo
          [] s = "project" -> parent = n.owner
          [] s = "code" -> CodeContainer(parent) = n

(* How the source names its container, and a thing in it: an id the source *)
(* gives holds no colon where the connector looks for one.                 *)
IsName(n) == n # <<>> /\ n \in Seq(Range(n))

Encloses(s, top, thing) ==
    CASE s \in {"memory", "drive", "confluence"} -> thing.parent \in {Nowhere, top.id}
      [] s = "jira" -> thing.parent \in {Nowhere, top.key}
      [] s = "notion" -> /\ thing.kind = "page" /\ IsName(thing.parent)
                         /\ top.kind = "database" /\ top.id = thing.parent
      [] s = "slack" -> /\ thing.kind = "message" /\ IsName(thing.channel)
                        /\ top = [kind |-> "channel", channel |-> thing.channel]
      [] s = "teams" -> /\ thing.kind = "message" /\ IsName(thing.channel)
                        /\ IsName(thing.team) /\ ":" \notin Range(thing.team)
                        /\ top = [kind |-> "channel", team |-> thing.team,
                                  channel |-> thing.channel]
      [] s = "calendar" -> /\ thing.kind = "event" /\ IsName(thing.calendar)
                           /\ top = [kind |-> "calendar", calendar |-> thing.calendar]
      [] s = "calcom" -> /\ thing.kind = "booking" /\ IsName(thing.type)
                         /\ top = [kind |-> "event-type", type |-> thing.type]
      [] s \in {"issue", "discussion"} -> thing.repo = top.repo
      [] s = "project" -> thing.owner = top.owner
      [] s = "code" ->
           /\ IsName(thing.repo) /\ IsRepo(thing.repo) /\ IsName(thing.path)
           /\ Range(thing.repo) \cap {":", "code:"} = {}
           /\ LET slash == Places(thing.path, "/")
              IN  top = [repo |-> thing.repo,
                         path |-> IF slash = {} THEN <<>>
                                  ELSE Upto(thing.path, LastOf(thing.path, "/"))]
      [] OTHER -> TRUE

ASSUME NamesAssumption ==
    \A s \in Source :
      /\ Encloses(s, NameOf[s]["top"], NameOf[s]["a"])
      /\ s = "discussion" => \A i \in Item : IsName(NameOf[s][i].repo)

Script(s, c) ==
    CASE s = "memory" -> MemoryScript(c)
      [] s = "notion" -> NotionScript(c)
      [] s = "drive" -> DriveScript(c)
      [] s = "confluence" -> ConfluenceScript(c)
      [] s = "slack" -> SlackScript(c)
      [] s = "teams" -> TeamsScript(c)
      [] s = "calendar" -> CalendarScript(c)
      [] s = "calcom" -> CalcomScript(c)
      [] s = "calendly" -> CalendlyScript(c)
      [] s = "jira" -> JiraScript(c)
      [] s \in GitHub -> GitHubScript(IF c.op \in {"list", "search", "create"} THEN s
                                      ELSE Addressed(c.id), c)

Writes(s, patch) ==
    CASE s = "memory" -> patch
      [] s = "notion" -> NotionWrites(patch)
      [] s = "drive" -> DriveWrites(patch)
      [] s = "confluence" -> ConfluenceWrites(patch)
      [] s = "slack" -> SlackWrites(patch)
      [] s = "calendar" -> CalendarWrites(patch)
      [] s = "calcom" -> CalcomWrites(patch)
      [] s = "jira" -> JiraWrites(patch)
      [] s = "issue" -> IssueWrites(patch)
      [] s = "discussion" -> DiscussionWrites(patch)
      [] s = "project" -> ProjectWrites(patch)
      [] OTHER -> {}

Transport(s, request) ==
    CASE s \in {"jira", "confluence"} -> AtlassianTransport
      [] s = "notion" -> NotionTransport
      [] s = "drive" -> DriveTransport(request)
      [] s = "slack" -> SlackTransport
      [] s = "teams" -> TeamsTransport
      [] s = "calendar" -> CalendarTransport
      [] s = "calcom" -> CalcomTransport
      [] s = "calendly" -> CalendlyTransport
      [] s \in {"issue", "code"} -> GitHubRest
      [] s \in {"discussion", "project"} -> GitHubGraphql
      [] s = "memory" -> [ok |-> "answered", missing |-> "missing", refused |-> "failed"]

NextCursor(s, c, reply) ==
    CASE s = "memory" -> MemoryNext(c.cursor, c.limit, reply)
      [] s = "notion" -> IF c.op = "list" /\ c.inside THEN NotionQueryDatabaseNext(reply)
                         ELSE NotionSearchAllNext(reply)
      [] s = "drive" -> DriveNext(reply)
      [] s = "confluence" -> ConfluenceNext(reply)
      [] s = "slack" -> IF c.op = "search" THEN SlackSearchNext(c.cursor, reply)
                        ELSE SlackNext(reply)
      [] s = "teams" -> TeamsNext(reply)
      [] s = "calendar" -> CalendarNext(reply)
      [] s = "calcom" -> CalcomNext(c.cursor, c.limit, reply)
      [] s = "calendly" -> CalendlyNext(reply)
      [] s = "jira" -> JiraNext(c.cursor, c.limit, reply)
      [] s = "issue" -> IF c.op = "search" THEN IssueSearchNext(c.cursor, c.limit, reply)
                        ELSE IssueListNext(c.cursor, c.limit, reply)
      [] s = "discussion" -> DiscussionNext(reply)
      [] s = "project" -> ProjectNext(reply)
      [] s = "code" -> Nowhere


(* What of a patch the source has. *)
Takes(s) ==
    CASE s = "slack" -> {"body"}
      [] s = "calcom" -> {"other"}
      [] s \in {"notion", "drive", "confluence", "jira", "discussion"} -> {"title", "body"}
      [] OTHER -> Field

-----------------------------------------------------------------------------
(* What the source makes of a request. *)
Live(i) == i \in Item /\ remote[i].state = "live"
There(i) == i \in Item /\ remote[i].state # "absent"

(* What of its containers a source lists: those are all there is when no   *)
(* container is named.                                                     *)
Containers == {"slack", "teams", "calendar", "calcom", "calendly"}
Unlisted == {"jira", "issue", "discussion", "project"}     \* not a resource there

Scope(c) ==
    IF c.op = "list" /\ ~ c.inside
    THEN IF source \in Containers THEN {"top"}
         ELSE IF source \in Unlisted THEN Item \ {"top"} ELSE Item
    ELSE Item \ {"top"}

Listed(c) == {i \in Scope(c) : Live(i)}

Earlier(c, i) == {j \in Listed(c) : Order[j] < Order[i]}

(* A listing of GitHub issues has pull requests among them. *)
Resources(c) == {i \in Listed(c) : source = "issue" /\ c.op = "list" => i # "b"}

(* Pages are numbered by some sources, and start anywhere in the others. *)
Numbered(c) == source = "issue" \/ (source = "slack" /\ c.op = "search")

Skip(c) == IF Numbered(c) THEN (PageNumber(c.cursor) - 1) * c.limit ELSE StartOffset(c.cursor)

(* The listing of a directory comes whole. *)
Page(c) ==
    {i \in Listed(c) :
       source = "code" \/ Cardinality(Earlier(c, i)) \in Skip(c)..(Skip(c) + c.limit - 1)}

PageReply(c) ==
    LET page == Page(c)
        end == Skip(c) + Cardinality(page)
        total == Cardinality(Listed(c))
    IN  [count |-> Cardinality(page), kept |-> Cardinality(page \cap Resources(c)),
         total |-> total, pages |-> (total + c.limit - 1) \div c.limit, more |-> end < total,
         token |-> IF end < total \/ source \in {"discussion", "project"} THEN Cursor(end)
                   ELSE IF source = "slack" THEN Empty ELSE Nowhere]

(* Answers that have no body. *)
NoContent(request) ==
    \/ source \in {"jira", "confluence", "drive", "calendar"} /\ request = "remove"
    \/ source = "jira" /\ request = "put"

Opens == {"post", "postTitle", "lookup", "site", "page"}

Status(c, request) ==
    IF request \in {"lookup", "site"} THEN "ok"
    ELSE IF request \in Opens
    THEN IF c.inside /\ ~ (c.names /\ Live("top")) THEN "missing" ELSE "ok"
    ELSE IF ~ There(c.item) THEN "missing"
    ELSE IF request = "drop" /\ Head(c.blocks) \notin Range(remote[c.item].body) THEN "missing"
    ELSE IF request = "putNext"
            /\ ConfluenceVersion(c.held.version, remote[c.item].version)
                 # remote[c.item].version + 1 THEN "refused"
    ELSE IF ~ Live(c.item) /\ request \notin {"get", "export", "blocks", "archive", "remove"}
    THEN "refused"
    ELSE "ok"

(* What a patched field is set to. *)
New(c, f) == IF f = "body" THEN <<c>> ELSE c

Patched(thing, c, ask) ==
    LET sets == Writes(source, ask.patch)
        value(f) == IF f \in ask.patch THEN New(c, f) ELSE ask.held[f]
    IN  [thing EXCEPT !.title = IF "title" \in sets THEN value("title") ELSE @,
                      !.body = IF "body" \in sets THEN value("body") ELSE @,
                      !.other = IF "other" \in sets THEN value("other") ELSE @,
                      !.version = @ + 1]

Effect(c, ask, request) ==
    LET i == ask.item IN
    CASE request \in {"post", "postTitle"} ->
           [remote EXCEPT ![c] = Thing(c, IF request = "post" /\ ask.body THEN <<c>> ELSE <<>>)]
      [] request \in {"put", "putNext"} -> [remote EXCEPT ![i] = Patched(@, c, ask)]
      [] request = "rename" -> [remote EXCEPT ![i].title = c]
      [] request = "upload" -> [remote EXCEPT ![i].body = <<c>>]
      [] request = "append" -> [remote EXCEPT ![i].body = Append(@, c)]
      [] request = "drop" -> [remote EXCEPT ![i].body = RemoveFirst(@, Head(ask.blocks))]
      [] request = "remove" -> [remote EXCEPT ![i] = Absent]
      [] request \in {"cancel", "archive"} -> [remote EXCEPT ![i].state = "archived"]
      [] OTHER -> remote

-----------------------------------------------------------------------------
(* A call. *)
Nothing == [pc |-> "idle", op |-> "read", item |-> "none", inside |-> FALSE, names |-> FALSE,
            patch |-> {}, body |-> FALSE, script |-> <<>>, todo |-> <<>>, held |-> Absent,
            blocks |-> <<>>, pages |-> 0, cursor |-> Nowhere, limit |-> 1, seen |-> {},
            before |-> Absent, calm |-> TRUE, faulted |-> FALSE, sent |-> FALSE]

ConnectorsInit ==
    /\ source \in Source
    /\ remote = [i \in Item |->
                   IF i = "top" THEN Thing("first", <<>>)
                   ELSE IF i \in Caller THEN Absent
                   ELSE Thing("first", IF source = "notion" /\ i = "a" THEN <<"first", "second">>
                                       ELSE <<"first">>)]
    /\ site = FALSE
    /\ call = [c \in Caller |-> Nothing]
    /\ troubles = 0

(* The other calls, as a step of c finds them and leaves them: what was     *)
(* answered is with its caller, and what changed, changed under the rest.   *)
Meanwhile(c) ==
    [d \in Caller |->
       IF d = c \/ call[d].pc \in {"idle", "over"} THEN call[d]
       ELSE IF call[d].pc \in Ended THEN [Nothing EXCEPT !.pc = "over"]
       ELSE [call[d] EXCEPT !.calm = @ /\ remote' = remote]]

RawIds == {"memory", "drive", "confluence", "jira"}
Refers(id) == source \in RawIds \/ Ref(source, id) # Invalid

(* A resource's own id, as a listing gave it, or what was never one. *)
IdOf(i) == IF i = "stray" THEN <<"stray">> ELSE Resource(source, NameOf[source][i]).id

Named(id) ==
    IF \E i \in Item : Denotes(source, Ref(source, id), i)
    THEN CHOOSE i \in Item : Denotes(source, Ref(source, id), i) ELSE "none"

Starting(c, op, script) ==
    [Nothing EXCEPT !.op = op, !.script = script, !.todo = script,
                    !.pc = IF script = Refused THEN "failed" ELSE "running"]

(* An operation on a resource: the id is parsed before anything is sent. *)
Address(c, op, i, patch) ==
    LET id == IdOf(i)
        item == Named(id)
        script == IF Refers(id)
                  THEN Script(source, [op |-> op, id |-> id, ref |-> Ref(source, id),
                                       patch |-> patch,
                                       kind |-> IF item = "none" THEN "text" ELSE KindOf[item]])
                  ELSE Refused
    IN  /\ call[c].pc = "idle"
        /\ op \in Asks[c] \cap Can(source)
        /\ i \in Targets[c]
        /\ i = "top" => source \notin Unlisted
        /\ UNCHANGED <<source, remote, site, troubles>>
        /\ call' = [Meanwhile(c) EXCEPT ![c] =
             [Starting(c, op, script) EXCEPT
                !.item = IF Refers(id) THEN item ELSE "none", !.patch = patch,
                !.before = IF Refers(id) /\ item # "none" THEN remote[item] ELSE Absent]]

(* The top container, as what is in it names it. *)
Parent(there) == IF there THEN Resource(source, NameOf[source]["a"]).parent ELSE Nowhere

(* A listing or a search, of the top container or of none. *)
Walk(c, op, inside, there, limit) ==
    LET parent == Parent(there)
        script == Script(source, [op |-> op, inside |-> inside, parent |-> parent])
    IN  /\ call[c].pc = "idle"
        /\ op \in Asks[c] \cap Can(source)
        /\ UNCHANGED <<source, remote, site, troubles>>
        /\ call' = [Meanwhile(c) EXCEPT ![c] =
             [Starting(c, op, script) EXCEPT
                !.inside = inside /\ parent # Nowhere, !.limit = limit,
                !.names = parent # Nowhere /\ NamesTop(source, parent)]]

(* A creation: with a body or none, and what the source needs to be told, *)
(* in the draft's metadata, or not.                                        *)
CreateIn(c, there, body, meta) ==
    LET parent == Parent(there)
        script == Script(source, [op |-> "create", parent |-> parent, body |-> body,
                                  meta |-> meta])
    IN  /\ call[c].pc = "idle"
        /\ "create" \in Asks[c] \cap Can(source)
        /\ UNCHANGED <<source, remote, site, troubles>>
        /\ call' = [Meanwhile(c) EXCEPT ![c] =
             [Starting(c, "create", script) EXCEPT
                !.inside = parent # Nowhere, !.body = body /\ ~ (source = "drive" /\ meta),
                !.names = parent # Nowhere /\ NamesTop(source, parent)]]

-----------------------------------------------------------------------------
(* The answer of a request, as the call goes on. *)
Finished(ask, pc) == [ask EXCEPT !.pc = pc, !.todo = <<>>]

Done(ask) == IF Len(ask.todo) = 1 THEN Finished(ask, "done")
             ELSE [ask EXCEPT !.todo = Tail(@)]

Hold(ask) ==
    LET thing == remote[ask.item]
    IN  [ask EXCEPT !.held = IF source = "drive" \/ (source = "notion" /\ Tail(ask.todo) # <<>>)
                             THEN [thing EXCEPT !.body = <<>>] ELSE thing]

(* One page of a page's blocks. *)
TakeBlocks(ask) ==
    LET n == ask.pages + 1
        body == remote[ask.item].body
        reply == [more |-> n < Len(body)]
        got == [ask EXCEPT !.blocks = IF n <= Len(body) THEN Append(@, body[n]) ELSE @,
                           !.pages = n]
    IN  IF ChildBlocksGoOn(reply, n, BlockPages) THEN got
        ELSE LET whole == [got EXCEPT !.held.body = got.blocks, !.pages = 0]
             IN  IF Len(ask.todo) > 1 /\ ask.todo[2] = "drop" /\ got.blocks = <<>>
                 THEN Done([whole EXCEPT !.todo = Tail(@)])
                 ELSE Done(IF Len(ask.todo) > 1 THEN whole ELSE [whole EXCEPT !.blocks = <<>>])

DropBlock(ask) ==
    LET rest == [ask EXCEPT !.blocks = Tail(@)]
    IN  IF rest.blocks = <<>> THEN Done(rest) ELSE rest

(* A page is answered, and the caller asks for the next. *)
TakePage(ask) ==
    LET reply == PageReply(ask)
        next == NextCursor(source, ask, reply)
        got == [ask EXCEPT !.seen = @ \cup (Page(ask) \cap Resources(ask)),
                           !.cursor = next]
    IN  IF next = Nowhere THEN Finished(got, "done") ELSE [got EXCEPT !.todo = got.script]

Answered(c, ask, request) ==
    CASE request = "get" -> Done(Hold(ask))
      [] request = "export" -> Done([ask EXCEPT !.held.body = remote[ask.item].body])
      [] request = "blocks" -> TakeBlocks(ask)
      [] request = "drop" -> DropBlock(ask)
      [] request = "page" -> TakePage(ask)
      [] request \in {"post", "postTitle"} -> Done([ask EXCEPT !.item = c])
      [] OTHER -> Done(ask)

(* An Atlassian connector asks for its site first. *)
Waiting(c) ==
    IF source \in {"jira", "confluence"} THEN SiteRequests(site, call[c].todo)
    ELSE call[c].todo

(* One request is sent, and its answer handled. *)
Send(c) ==
    LET request == Head(Waiting(c))
        ask == [call[c] EXCEPT !.sent = TRUE]
        status == Status(ask, request)
        made == Transport(source, request)[IF status = "ok" /\ NoContent(request) THEN "empty"
                                           ELSE status]
    IN  /\ call[c].pc = "running"
        /\ remote' = IF status = "ok" THEN Effect(c, ask, request) ELSE remote
        /\ site' = (site \/ request = "site")
        /\ call' = [Meanwhile(c) EXCEPT ![c] =
             IF request = "site" THEN ask
             ELSE IF made = "answered" THEN Answered(c, ask, request)
             ELSE Finished(ask, made)]
        /\ UNCHANGED <<source, troubles>>

(* The source refuses the request, or its answer comes after the deadline: *)
(* then it may have taken effect.                                          *)
Fault(c, lost) ==
    LET request == Head(Waiting(c))
        ask == [call[c] EXCEPT !.sent = TRUE, !.faulted = TRUE]
    IN  /\ call[c].pc = "running"
        /\ troubles < MaxTroubles
        /\ troubles' = troubles + 1
        /\ remote' = IF lost /\ Status(ask, request) = "ok" THEN Effect(c, ask, request)
                     ELSE remote
        /\ call' = [Meanwhile(c) EXCEPT ![c] =
             Finished(ask, Transport(source, request)["refused"])]
        /\ UNCHANGED <<source, site>>

(* Somebody changes the source in its own application. *)
Edited(thing, f) ==
    [thing EXCEPT !.title = IF f = "title" THEN "person" ELSE @,
                  !.body = IF f # "body" THEN @
                           ELSE IF source = "notion" THEN Append(@, "person") ELSE <<"person">>,
                  !.version = @ + 1]

Edit(f) ==
    /\ troubles < MaxTroubles
    /\ troubles' = troubles + 1
    /\ Live("a")
    /\ remote' = [remote EXCEPT !["a"] = IF f = "gone" THEN Absent ELSE Edited(@, f)]
    /\ call' = Meanwhile("person")
    /\ UNCHANGED <<source, site>>

ConnectorsNext ==
    \/ \E c \in Caller, op \in {"read", "delete"}, i \in {"top", "a", "b", "stray"} :
          Address(c, op, i, {})
    \/ \E c \in Caller, i \in {"top", "a", "stray"} :
          \E patch \in Patches[c] : Address(c, "update", i, patch)
    \/ \E c \in Caller, op \in {"list", "search"}, inside, there \in BOOLEAN, limit \in 1..2 :
          Walk(c, op, inside, there, limit)
    \/ \E c \in Caller, there, body, meta \in BOOLEAN : CreateIn(c, there, body, meta)
    \/ \E c \in Caller : Send(c)
    \/ \E c \in Caller, lost \in BOOLEAN : Fault(c, lost)
    \/ \E f \in {"title", "body", "gone"} : Edit(f)

ConnectorsSpec == ConnectorsInit /\ [][ConnectorsNext]_connectors

(* Every request is answered, or its deadline passes. *)
ConnectorsFairSpec ==
    ConnectorsSpec /\ \A c \in Caller : WF_connectors(Send(c) \/ \E lost \in BOOLEAN : Fault(c, lost))

-----------------------------------------------------------------------------
ConnectorsTypeOK ==
    /\ source \in Source
    /\ \A i \in Item :
         /\ remote[i].state \in {"live", "archived", "absent"}
         /\ remote[i].title \in Value /\ remote[i].other \in Value
         /\ Range(remote[i].body) \subseteq Value
         /\ remote[i].version \in Nat
    /\ site \in BOOLEAN
    /\ \A c \in Caller :
         /\ call[c].pc \in {"idle", "running", "over"} \cup Ended
         /\ call[c].op \in Operation
         /\ call[c].item \in Item \cup {"none"}
         /\ call[c].patch \subseteq Field
         /\ call[c].seen \subseteq Item
         /\ call[c].limit \in 1..2
         /\ call[c].pages \in 0..BlockPages /\ Len(call[c].blocks) <= BlockPages
    /\ troubles \in 0..MaxTroubles

(* A step of caller c. *)
Moved(c) == call'[c] # [call[c] EXCEPT !.calm = call'[c].calm]

Changed(i) == {f \in Field : remote'[i][f] # remote[i][f]}

MayChange(ask, c, i) ==
    CASE ask.op = "create" -> i = c
      [] ask.op = "delete" -> i = ask.item /\ ~ Live(i)'
      [] ask.op = "update" -> /\ i = ask.item
                              /\ Changed(i) \subseteq ask.patch \cup
                                   (IF source = "discussion" THEN {"title", "body"} ELSE {})
      [] OTHER -> FALSE

(* A request touches the resource the call is about, and of it only the    *)
(* fields the patch names, whatever others did to it since it was read;    *)
(* and a call ends in "not found" only while the resource, or the          *)
(* container, is gone (connector.ts ResourcePatch, ResourceNotFoundError). *)
(* A discussion's update sends both its fields, and a Notion page may miss *)
(* one of its blocks: see the README.                                      *)
OnlyNamedFieldsChange ==
    [][\A c \in Caller : call[c].pc = "running" /\ Moved(c) =>
         /\ \A i \in Item : remote'[i] # remote[i] => MayChange(call[c], c, i)
         /\ call'[c].pc = "missing" /\ source # "notion" =>
              ~ Live(call[c].item) \/ (call[c].inside /\ ~ Live("top"))]_connectors

Shows(c) ==
    LET ask == call[c]
        thing == remote[ask.item]
    IN  /\ ask.held.title = thing.title
        /\ \/ ask.held.body = thing.body
           \/ source = "drive" /\ KindOf[ask.item] # "text"
           \/ Len(thing.body) > BlockPages

Whole(c) ==
    LET ask == call[c]
        thing == remote[ask.item]
    IN  \A f \in Field :
          \/ thing[f] = IF f \in ask.patch \cap Takes(source) THEN New(c, f) ELSE ask.before[f]
          \/ f = "body" /\ Len(ask.before.body) > BlockPages

(* A call nobody came between answers the truth: a read shows the          *)
(* resource, an update or a creation was made whole, a deletion left       *)
(* nothing alive, a listing followed to its end saw every resource of its  *)
(* container; what was refused was refused before anything was sent, and   *)
(* what was not found was not there (connector.ts Connector).              *)
AnswersAreTrue ==
  /\ ConnectorsTypeOK
  /\ \A c \in Caller :
      LET ask == call[c]
          alone == ask.calm /\ ~ ask.faulted
      IN  /\ alone /\ ask.pc = "done" =>
               CASE ask.op = "read" -> Shows(c)
                 [] ask.op = "update" -> Whole(c)
                 [] ask.op = "create" -> /\ remote[c].title = c
                                         /\ remote[c].body = IF ask.body THEN <<c>> ELSE <<>>
                 [] ask.op = "delete" -> ~ Live(ask.item)
                 [] OTHER -> ask.seen = Resources(ask)
          /\ alone /\ ask.pc = "failed" =>
               ~ ask.sent \/ (ask.op \in OnOne /\ ask.before.state # "live")
          /\ alone /\ ask.pc = "missing" =>
               IF ask.op \in OnOne THEN ask.before.state # "live"
               ELSE ask.inside /\ ~ Live("top")

(* Every call ends, and so does every listing followed to its end.         *)
CallsEnd == \A c \in Caller : call[c].pc = "running" ~> call[c].pc \in Ended

=============================================================================
