-------------------------- MODULE DocumentSources --------------------------
(***************************************************************************)
(* The connectors of document stores: Notion, Google Drive and Confluence. *)
(* A Notion page's body is a sequence of blocks the connector reads page   *)
(* by page and replaces one by one.                                        *)
(***************************************************************************)
EXTENDS SourceRequests

-----------------------------------------------------------------------------
(* Notion. *)
NotionPage(n) == [id |-> <<"page:">> \o n.id, parent |-> <<"database:">> \o n.parent]
NotionDatabase(n) == [id |-> <<"database:">> \o n.id, parent |-> Nowhere]
NotionResource(n) == IF n.kind = "page" THEN NotionPage(n) ELSE NotionDatabase(n)

NotionRef(id) ==
    IF id # <<>> /\ Tail(id) # <<>> /\ Head(id) \in {"database:", "page:"}
    THEN [kind |-> IF Head(id) = "page:" THEN "page" ELSE "database", id |-> Tail(id)]
    ELSE Invalid

(* A parent is queried as a database, whatever it is; a search with no     *)
(* query lists everything.                                                 *)
NotionList(c) == Only(~ c.inside \/ NotionRef(c.parent) # Invalid, <<"page">>)

NotionQueryDatabaseNext(reply) == IF reply.more THEN reply.token ELSE Nowhere
NotionSearchAllNext(reply) == IF reply.more THEN reply.token ELSE Nowhere

NotionReadPage == <<"get", "blocks">>
NotionRead(c) == IF c.ref.kind = "database" THEN <<"get">> ELSE NotionReadPage

(* A page in a database is keyed by the database's own title property. *)
NotionCreatePage(c) ==
    LET parent == NotionRef(c.parent)
    IN  Only(c.parent # Nowhere /\ parent # Invalid,
             When(parent.kind = "database", <<"lookup">>) \o <<"post">>)

NotionCreate(c) == NotionCreatePage(c)     \* a database is never created

(* Every block listed is deleted, then the new ones are appended. *)
NotionReplaceContent == <<"blocks", "drop", "append">>

NotionUpdatePage(patch) ==
    When("title" \in patch, <<"get", "rename">>)
        \o When("body" \in patch, NotionReplaceContent)
        \o NotionReadPage

NotionUpdateDatabase == <<"put">>

NotionUpdate(c) ==
    IF c.ref.kind = "database" THEN NotionUpdateDatabase ELSE NotionUpdatePage(c.patch)

NotionDelete == <<"archive">>

NotionScript(c) ==
    CASE c.op = "list" -> NotionList(c)
      [] c.op = "search" -> <<"page">>
      [] c.op = "read" -> NotionRead(c)
      [] c.op = "create" -> NotionCreate(c)
      [] c.op = "update" -> NotionUpdate(c)
      [] c.op = "delete" -> NotionDelete

NotionWrites(patch) == patch \cap {"title", "body"}    \* a database's body: its description

(* Bug: no cap. *)
ChildBlocksGoOnUncapped(reply, pages, cap) == reply.more

(* #childBlocks: pages of blocks until there are no more, or the cap. *)
ChildBlocksGoOn(reply, pages, cap) == reply.more /\ pages < cap

NotionTransport == [ok |-> "answered", empty |-> "answered",
                    missing |-> "missing", refused |-> "failed"]

-----------------------------------------------------------------------------
(* Google Drive: ids and parents are the source's own. *)
DriveResource(n) == [id |-> n.id, parent |-> n.parent]
DriveRef(id) == id

DriveList == <<"page">>
DriveSearch == <<"page">>
DriveNext(reply) == reply.token

(* A folder has no text, nor has a binary file. *)
DriveContent(kind) == When(kind = "text", <<"export">>)
DriveRead(kind) == <<"get">> \o DriveContent(kind)

(* The metadata first, then the body, against the same id; metadata may     *)
(* say the file is a folder.                                                *)
DriveCreate(c) == <<"postTitle">> \o When(c.body /\ ~ c.meta, <<"upload">>)

DriveUpdate(c) ==
    (IF "title" \in c.patch THEN <<"rename">> ELSE <<"get">>)
        \o When("body" \in c.patch, <<"upload">>)

DriveDelete == <<"remove">>

DriveScript(c) ==
    CASE c.op = "list" -> DriveList
      [] c.op = "search" -> DriveSearch
      [] c.op = "read" -> DriveRead(c.kind)
      [] c.op = "create" -> DriveCreate(c)
      [] c.op = "update" -> DriveUpdate(c)
      [] c.op = "delete" -> DriveDelete

DriveWrites(patch) == patch \cap {"title", "body"}

(* Only a removal does not read the answer's body. *)
DriveTransport(request) == [ok |-> "answered",
                            empty |-> IF request = "remove" THEN "answered" ELSE "failed",
                            missing |-> "missing", refused |-> "failed"]

-----------------------------------------------------------------------------
(* Confluence: ids are the source's own. *)
ConfluenceResource(n) == [id |-> n.id, parent |-> n.parent]
ConfluenceRef(id) == id

ConfluenceList == <<"page">>
ConfluenceSearch == <<"page">>

(* cursorFromNext: the cursor of the link to the next page. *)
ConfluenceNext(reply) == reply.token

ConfluenceCreate(c) == Only(c.meta, <<"post">>)     \* in which space: metadata

(* The page is read for what is not named and for its version. *)
ConfluenceUpdate == <<"get", "putNext">>
ConfluenceDelete == <<"remove">>
ConfluenceRead == <<"get">>

ConfluenceScript(c) ==
    CASE c.op = "list" -> ConfluenceList
      [] c.op = "search" -> ConfluenceSearch
      [] c.op = "read" -> ConfluenceRead
      [] c.op = "create" -> ConfluenceCreate(c)
      [] c.op = "update" -> ConfluenceUpdate
      [] c.op = "delete" -> ConfluenceDelete

(* Title and body go out together, and the version after the one read. *)
ConfluenceWrites(patch) == {"title", "body"}

(* Bug: the version sent is whichever the page has. *)
ConfluenceVersionAny(held, current) == current + 1

ConfluenceVersion(held, current) == held + 1

=============================================================================
