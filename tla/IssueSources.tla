---------------------------- MODULE IssueSources ----------------------------
(***************************************************************************)
(* The connectors of work trackers: Jira, and GitHub with its four kinds.  *)
(***************************************************************************)
EXTENDS SourceRequests

-----------------------------------------------------------------------------
(* An Atlassian site: its cloud id is looked up once for a connection, and *)
(* kept only when it was found.                                            *)
SiteRequests(known, script) == When(~ known /\ script # Refused, <<"site">>) \o script

AtlassianTransport == [ok |-> "answered", empty |-> "answered",
                       missing |-> "missing", refused |-> "failed"]

-----------------------------------------------------------------------------
(* Jira: an id is an issue's key. *)
JiraResource(n) == [id |-> n.key, parent |-> n.parent]
JiraRef(id) == id

JiraList == <<"page">>
JiraSearch == <<"page">>

JiraNext(cursor, limit, reply) ==
    LET next == StartOffset(cursor) + reply.count
    IN  IF next < reply.total /\ reply.count > 0 THEN Cursor(next) ELSE Nowhere

JiraRead == <<"get">>
JiraCreate(c) == Only(c.meta, <<"post">> \o JiraRead)     \* in which project: metadata
JiraUpdate == <<"put">> \o JiraRead
JiraDelete == <<"remove">>

JiraScript(c) ==
    CASE c.op = "list" -> JiraList
      [] c.op = "search" -> JiraSearch
      [] c.op = "read" -> JiraRead
      [] c.op = "create" -> JiraCreate(c)
      [] c.op = "update" -> JiraUpdate
      [] c.op = "delete" -> JiraDelete

JiraWrites(patch) == patch \cap {"title", "body"}

-----------------------------------------------------------------------------
(* GitHub.  A kind is named by the prefix of an id, or by the type of a    *)
(* listing or a creation.                                                  *)
Prefix == [issue |-> <<>>, discussion |-> <<"discussion:">>,
           project |-> <<"project:">>, code |-> <<"code:">>]

Addressed(id) ==
    IF \E k \in {"discussion", "project", "code"} : Prefix[k] = SubSeq(id, 1, 1)
    THEN CHOOSE k \in DOMAIN Prefix : Prefix[k] = SubSeq(id, 1, 1)
    ELSE "issue"

KindCan == [issue |-> {"list", "read", "search", "create", "update"},
            discussion |-> {"list", "read", "create", "update"},
            project |-> {"list", "read", "create", "update"},
            code |-> {"list", "read"}]

(* What any kind can do, the connector declares. *)
GitHubCan == UNION {KindCan[k] : k \in DOMAIN KindCan}

(* owner/repo#number. *)
RepoNumber(s) ==
    IF Len(s) = 5 /\ s[2] = "/" /\ s[4] = "#"
    THEN [repo |-> SubSeq(s, 1, 3), number |-> s[5]]
    ELSE Invalid

RepoNumberId(n) == n.repo \o <<"#", n.number>>

IsRepo(repo) == Len(repo) = 3 /\ repo[2] = "/"

(* splitRepo keeps the first two halves of any number. *)
SplitRepo(repo) == Len(repo) >= 3 /\ repo[2] = "/"

GitHubRest == [ok |-> "answered", empty |-> "failed",
               missing |-> "missing", refused |-> "failed"]

(* NOT_FOUND among the errors is a 404; no data is an error. *)
GitHubGraphql == [ok |-> "answered", empty |-> "failed",
                  missing |-> "missing", refused |-> "failed"]

(* Issues. *)
IssueResource(n) == [id |-> RepoNumberId(n), parent |-> n.repo]
IssueRef(id) == RepoNumber(id)

IssueList(c) == Only(c.parent = Nowhere \/ IsRepo(c.parent), <<"page">>)

(* Bug: the pull requests are dropped before a full page is recognised. *)
IssueListNextFiltered(cursor, limit, reply) ==
    IF reply.kept = limit THEN Cursor(PageNumber(cursor) + 1) ELSE Nowhere

(* The listing has pull requests too: they are dropped, but they count. *)
IssueListNext(cursor, limit, reply) ==
    IF reply.count = limit THEN Cursor(PageNumber(cursor) + 1) ELSE Nowhere

IssueSearchNext(cursor, limit, reply) ==
    IF PageNumber(cursor) * limit < reply.total /\ reply.count > 0
    THEN Cursor(PageNumber(cursor) + 1) ELSE Nowhere

IssueCreate(c) == Only(c.meta, <<"post">>)      \* in which repository: metadata
IssueUpdate == <<"put">>
IssueRead == <<"get">>
IssueSearch == <<"page">>

IssueWrites(patch) == patch

(* Discussions. *)
DiscussionResource(n) == [id |-> <<"discussion:">> \o RepoNumberId(n), parent |-> n.repo]
DiscussionRef(id) == RepoNumber(Tail(id))

DiscussionList(c) == Only(c.parent # Nowhere /\ SplitRepo(c.parent), <<"page">>)
DiscussionNext(reply) == IF reply.more THEN reply.token ELSE Nowhere

(* The repository's id and its categories are looked up by name. *)
DiscussionCreate(c) == Only(c.meta, <<"lookup", "post">>)

(* GraphQL updates by node id: the discussion is read for it, and for what *)
(* is not named.                                                           *)
DiscussionFind == <<"get">>
DiscussionUpdate == DiscussionFind \o <<"put">>
DiscussionWrites(patch) == {"title", "body"}

(* Projects. *)
ProjectResource(n) == [id |-> <<"project:">> \o n.owner \o <<"/", n.number>>,
                       parent |-> n.owner]

ProjectRef(id) ==
    IF Len(id) = 4 /\ id[3] = "/"
    THEN [owner |-> <<id[2]>>, number |-> id[4]]
    ELSE Invalid

ProjectList(c) == Only(c.parent # Nowhere, <<"page">>)
ProjectNext(reply) == IF reply.more THEN reply.token ELSE Nowhere

(* Only a title is taken at creation; the body is a second mutation. *)
ProjectCreate(c) ==
    Only(c.meta, <<"lookup", "postTitle">> \o When(c.body, <<"upload">>))

ProjectFind == <<"get">>
ProjectUpdate == ProjectFind \o <<"put">>

ProjectWrites(patch) == patch

(* Code: a directory is the container of what it holds. *)
CodeResource(n) ==
    [id |-> <<"code:">> \o n.repo \o <<":">> \o n.path,
     parent |-> LET slash == Places(n.path, "/")
                IN  IF slash = {} THEN n.repo
                    ELSE <<"code:">> \o n.repo \o <<":">> \o Upto(n.path, LastOf(n.path, "/"))]

CodeRef(id) ==
    LET rest == Tail(id)
        colon == IF Places(rest, ":") = {} THEN Len(rest) + 1 ELSE FirstOf(rest, ":")
    IN  IF SplitRepo(Upto(rest, colon))
        THEN [repo |-> SubSeq(rest, 1, 3), path |-> From(rest, colon)]
        ELSE Invalid

CodeContainer(parent) ==
    IF Starts(parent, "code:") THEN CodeRef(parent) ELSE [repo |-> parent, path |-> <<>>]

CodeList(c) ==
    Only(c.parent # Nowhere /\ (Starts(c.parent, "code:") \/ SplitRepo(c.parent)), <<"page">>)
CodeRead == <<"get">>

IssueScript(c) ==
    CASE c.op = "list" -> IssueList(c)
      [] c.op = "read" -> IssueRead
      [] c.op = "search" -> IssueSearch
      [] c.op = "create" -> IssueCreate(c)
      [] c.op = "update" -> IssueUpdate

DiscussionScript(c) ==
    CASE c.op = "list" -> DiscussionList(c)
      [] c.op = "read" -> DiscussionFind
      [] c.op = "create" -> DiscussionCreate(c)
      [] c.op = "update" -> DiscussionUpdate

ProjectScript(c) ==
    CASE c.op = "list" -> ProjectList(c)
      [] c.op = "read" -> ProjectFind
      [] c.op = "create" -> ProjectCreate(c)
      [] c.op = "update" -> ProjectUpdate

KindScript(k, c) ==
    CASE k = "issue" -> IssueScript(c)
      [] k = "discussion" -> DiscussionScript(c)
      [] k = "project" -> ProjectScript(c)
      [] k = "code" -> IF c.op = "list" THEN CodeList(c) ELSE CodeRead

(* #require: what a kind does not do is refused. *)
GitHubScript(k, c) == Only(c.op \in KindCan[k], KindScript(k, c))

=============================================================================
