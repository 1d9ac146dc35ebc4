------------------------------ MODULE Knowledge ------------------------------
(***************************************************************************)
(* The calls that read and write the memory corpus, running side by side:  *)
(* an agent's memory_search and memory_remember, a document typed into the *)
(* console, and a source filled from a connection, one resource at a time. *)
(*                                                                         *)
(* Every call resolves its source first and uses the id to the end, while  *)
(* people make and delete sources and documents, change what the connected *)
(* service holds, and paste or remove the tenant's embedding key.  An      *)
(* import lists and reads through the connection's cache.                  *)
(***************************************************************************)
EXTENDS Corpus

CONSTANTS
    Caller,
    Tasks,          \* Tasks[c]: what caller c may be asked to do
    Says,           \* Says[c]: the bodies it writes or looks for
    Worth,          \* the importances an agent may give
    Opening,        \* what the connected service holds at first
    Granted,        \* the slugs an agent's file lets it search
    Remembers,      \* the slug its file lets it write to
    Listing,        \* what the connection lists, in order
    WithContent,    \* the resources whose entry in a listing has their content
    Others,         \* the snapshots that other users of the cache store
    SearchLimit,    \* DEFAULT_SEARCH_LIMIT
    Platform,       \* is the deployment's embedding key set?
    Quota,          \* Quota[c]: bound on the calls c makes
    MaxTroubles     \* bound: failures, and what people do besides

Task == {"search", "remember", "add", "import"}

(* A snapshot: no row, a listing's entry without content, or content. *)
Snapshot == [has : {"nothing", "entry", "content"}, body : Body]

Absent == [has |-> "nothing", body |-> CHOOSE b \in Body : TRUE]
Stub == [Absent EXCEPT !.has = "entry"]
Full(b) == [has |-> "content", body |-> b]

ASSUME KnowledgeAssumption ==
    /\ Tasks \in [Caller -> SUBSET Task] /\ Says \in [Caller -> SUBSET Body]
    /\ Worth \subseteq Importance /\ Opening \in [External -> Body]
    /\ Quota \in [Caller -> Nat]
    /\ Granted \subseteq Slug /\ Remembers \in Slug
    /\ Listing \in Seq(External) /\ "none" \notin External 
    /\ WithContent \subseteq External /\ Others \subseteq Snapshot
    /\ SearchLimit \in Nat \ {0} /\ Platform \in BOOLEAN

VARIABLES
    remote,     \* remote[x]: what the connected service says in resource x
    cached,     \* cached[x]: the connection's snapshot of resource x
    key,        \* the tenant's own embedding key
    call,       \* call[c]: the locals of the call caller c makes
    calls, troubles

knowledge == <<corpus, remote, cached, key, call, calls, troubles>>


Idle == [task |-> "search", at |-> "idle", ids |-> {}, purpose |-> "document",
         body |-> CHOOSE b \in Body : TRUE,
         external |-> "none", importance |-> DefaultImportance, todo |-> <<>>,
         vectors |-> <<>>, hits |-> {}, failed |-> {}, bare |-> {}, outcome |-> "none",
         quiet |-> TRUE]

KnowledgeInit ==
    /\ sources = [s \in Slug |-> 0] /\ documents = {} /\ made = 0
    /\ remote = Opening /\ cached = [x \in External |-> Absent]
    /\ key \in {"none", "own"}
    /\ call = [c \in Caller |-> Idle]
    /\ calls = [c \in Caller |-> 0] /\ troubles = 0

-----------------------------------------------------------------------------
Active(c) == call[c].at \notin {"idle", "done"}

(* The call goes on; when the corpus changed, no other was left undisturbed. *)
Goes(c, next) == call' = [call EXCEPT ![c] = next]
GoesWriting(c, next) ==
    call' = [d \in Caller |-> IF d = c THEN next ELSE [call[d] EXCEPT !.quiet = FALSE]]
Disturbed == call' = [d \in Caller |-> [call[d] EXCEPT !.quiet = FALSE]]
Untouched == UNCHANGED <<corpus, remote, cached, key, calls>>

Ends(ask, outcome) == [ask EXCEPT !.at = "done", !.outcome = outcome]

Begin(c) ==
    /\ calls[c] < Quota[c] /\ ~Active(c)
    /\ \E task \in Tasks[c], b \in Says[c], i \in Worth \cup {DefaultImportance} :
        /\ i \in IF task = "remember" THEN Worth ELSE {DefaultImportance}
        /\ call' = [call EXCEPT ![c] =
               [Idle EXCEPT !.task = task, !.at = "source", !.body = b, !.importance = i]]
    /\ calls' = [calls EXCEPT ![c] = @ + 1]
    /\ UNCHANGED <<corpus, remote, cached, key, troubles>>

(* Slugs become ids when a call is made; one that names nothing is skipped. *)
Named(task) == IF task = "search" THEN Granted ELSE {Remembers}

Resolved(names) == {sources[s] : s \in names} \ {0}

FindSource(c) ==
    /\ call[c].at = "source"
    /\ LET ask == call[c]
           ids == Resolved(Named(ask.task))
       IN  Goes(c, IF ids = {} THEN Ends(ask, "nowhere")
                   ELSE [ask EXCEPT
                           !.ids = ids,
                           !.at = CASE ask.task = "import" -> "list"
                                    [] ask.task = "add" -> "existing"
                                    [] OTHER -> "embedder",
                           !.purpose = IF ask.task \in {"search", "remember"}
                                       THEN "query" ELSE "document"])
    /\ Untouched /\ UNCHANGED troubles

-----------------------------------------------------------------------------
(* Bug: a resource that failed is tried again. *)
RestAgain(todo) == todo

(* Filling a source: a resource that fails, or has no text, is passed over. *)
Rest(todo) == Tail(todo)

(* Bug: a listing's entries are stored without what came with them. *)
WarmedBare ==
    [x \in External |-> IF \E k \in DOMAIN Listing : Listing[k] = x THEN Stub ELSE cached[x]]

(* What CachedConnections keeps of a listing.  Asking the source and storing *)
(* its answer are one step here; a write-back that comes after somebody's   *)
(* edit is among what others do (Meanwhile).                                *)
Warmed ==
    [x \in External |->
       IF \E k \in DOMAIN Listing : Listing[k] = x
       THEN IF x \in WithContent THEN Full(remote[x]) ELSE Stub
       ELSE cached[x]]

(* What a read serves, and leaves in the cache: a snapshot that is fresh, or *)
(* past its time while the source cannot be read; else what the source has. *)
(* Time is left out: any snapshot may be either.                            *)
Served(x) == {s \in {Full(remote[x]), cached[x]} : s.has # "nothing"}

(* What has no content, or only spacing, is passed over and not counted.    *)
Takes(ask, snapshot) ==
    IF snapshot.has = "entry" THEN [ask EXCEPT !.todo = Tail(@), !.bare = @ \cup {Head(ask.todo)}]
    ELSE IF Text[snapshot.body] = <<>> THEN [ask EXCEPT !.todo = Tail(@)]
    ELSE [ask EXCEPT !.at = "existing", !.body = snapshot.body, !.external = Head(ask.todo)]

List(c) ==
    /\ call[c].at = "list"
    /\ Goes(c, [call[c] EXCEPT !.at = "read", !.todo = Listing])
    /\ cached' = Warmed
    /\ UNCHANGED <<corpus, remote, key, calls, troubles>>

Read(c) ==
    /\ call[c].at = "read" /\ call[c].todo # <<>>
    /\ \E snapshot \in Served(Head(call[c].todo)) :
        /\ Goes(c, Takes(call[c], snapshot))
        /\ cached' = [cached EXCEPT ![Head(call[c].todo)] = snapshot]
    /\ UNCHANGED <<corpus, remote, key, calls, troubles>>

Imported(c) ==
    /\ call[c].at = "read" /\ call[c].todo = <<>>
    /\ Goes(c, Ends(call[c], "imported"))
    /\ Untouched /\ UNCHANGED troubles

(* What a failure makes of a call: an import counts it and goes on. *)
Failing(ask) ==
    IF ask.task = "import"
    THEN [ask EXCEPT !.at = "read", !.todo = Rest(@), !.vectors = <<>>,
                     !.failed = @ \cup {Head(ask.todo)}]
    ELSE Ends(ask, "failed")

Succeeding(ask, outcome) ==
    IF ask.task = "import"
    THEN [ask EXCEPT !.at = "read", !.todo = Tail(@), !.vectors = <<>>]
    ELSE Ends(ask, outcome)

(* A read, an embedding or a transaction fails. *)
Fails(c) ==
    /\ \/ call[c].at \in {"embed", "commit", "search"}
       \/ call[c].at = "read" /\ call[c].todo # <<>>
    /\ Goes(c, Failing(call[c]))
    /\ UNCHANGED cached

(* The listing fails, perhaps after it was stored: the import ends. *)
Unlisted(c) ==
    /\ call[c].at = "list"
    /\ Goes(c, Ends(call[c], "failed"))
    /\ cached' \in {cached, Warmed}

Trouble(c) ==
    /\ troubles < MaxTroubles /\ troubles' = troubles + 1
    /\ Fails(c) \/ Unlisted(c)
    /\ UNCHANGED <<corpus, remote, key, calls>>

-----------------------------------------------------------------------------
(* Ingesting: what is there already is not embedded again. *)
Source(c) == CHOOSE id \in call[c].ids : TRUE

Check(c) ==
    /\ call[c].at = "existing"
    /\ Goes(c, IF Text[call[c].body] = <<>> THEN Failing(call[c])
               ELSE IF Existing(Source(c), call[c].external, call[c].body) # {}
               THEN Succeeding(call[c], "unchanged")
               ELSE [call[c] EXCEPT !.at = "embedder", !.purpose = "document", !.vectors = <<>>])
    /\ Untouched /\ UNCHANGED troubles

(* Whose key pays is asked once per ingest or search. *)
Payer(c) ==
    /\ call[c].at = "embedder"
    /\ Goes(c, IF key = "unsealable" \/ (key = "none" /\ ~Platform)
               THEN Failing(call[c]) ELSE [call[c] EXCEPT !.at = "embed"])
    /\ Untouched /\ UNCHANGED troubles

Wanted(c) == IF call[c].purpose = "query" THEN Query(call[c].body) ELSE Pieces(call[c].body)

(* One request to the embedding endpoint, a batch of the texts. *)
Embed(c) ==
    /\ call[c].at = "embed"
    /\ LET batch == Batch(Wanted(c), Len(call[c].vectors))
       IN  \E answer \in Answers(batch) :
            IF Complete(batch, answer)
            THEN /\ LET vectors == call[c].vectors \o Ordered(answer)
                    IN  Goes(c, [call[c] EXCEPT
                                   !.vectors = vectors,
                                   !.at = IF Len(vectors) < Len(Wanted(c)) THEN "embed"
                                          ELSE IF call[c].purpose = "query"
                                          THEN "search" ELSE "commit"])
                 /\ UNCHANGED troubles
            ELSE /\ troubles < MaxTroubles
                 /\ Goes(c, Failing(call[c]))
                 /\ troubles' = troubles + 1
    /\ Untouched

(* The transaction: it fails when the source is gone, and its answer may be *)
(* lost after it took effect.                                               *)
Provenance == [remember |-> "agent", add |-> "owner", import |-> "untrusted"]

Commit(c) ==
    /\ call[c].at = "commit"
    /\ IF Source(c) \notin Live
       THEN Goes(c, Failing(call[c])) /\ UNCHANGED <<corpus, troubles>>
       ELSE /\ Upsert([source |-> Source(c), external |-> call[c].external,
                       body |-> call[c].body, importance |-> call[c].importance,
                       provenance |-> Provenance[call[c].task]], call[c].vectors)
            /\ \/ GoesWriting(c, Succeeding(call[c], "written")) /\ UNCHANGED troubles
               \/ /\ troubles < MaxTroubles /\ troubles' = troubles + 1
                  /\ GoesWriting(c, Failing(call[c]))
    /\ UNCHANGED <<remote, cached, key, calls>>

-----------------------------------------------------------------------------
(* Searching.  The ids were resolved before; the rows are what they are now. *)
SearchMemory(c) ==
    /\ call[c].at = "search" /\ call[c].task = "search"
    /\ \E page \in Page(Found(call[c].ids, call[c].body), SearchLimit) :
        Goes(c, Ends([call[c] EXCEPT !.hits = page], "answered"))
    /\ Untouched /\ UNCHANGED troubles

(* memory_remember looks at the first hit, and writes unless that is near.  *)
SearchFirst(c) ==
    /\ call[c].at = "search" /\ call[c].task = "remember"
    /\ \E page \in Page(Found(call[c].ids, call[c].body), 1) :
        LET ask == [call[c] EXCEPT !.hits = page]
        IN  Goes(c, IF \E h \in page : Near(ask.body, h.vector)
                    THEN Ends(ask, "already") ELSE [ask EXCEPT !.at = "existing"])
    /\ Untouched /\ UNCHANGED troubles

-----------------------------------------------------------------------------
(* People, and the connected service. *)
MakeSource(s) ==
    /\ sources[s] = 0
    /\ CreateSource(s) /\ Disturbed
    /\ UNCHANGED <<remote, cached, key, calls, troubles>>

Meanwhile ==
    /\ troubles < MaxTroubles /\ troubles' = troubles + 1
    /\ \/ /\ \E id \in Live : DeleteSource(id)
          /\ Disturbed /\ UNCHANGED <<remote, cached, key>>
       \/ /\ \E d \in documents : DeleteDocument(d.id)
          /\ Disturbed /\ UNCHANGED <<remote, cached, key>>
       \/ /\ \E x \in External, b \in Body : b # remote[x] /\ remote' = [remote EXCEPT ![x] = b]
          /\ Disturbed /\ UNCHANGED <<corpus, cached, key>>
       \/ /\ \E x \in External, snapshot \in Others : cached' = [cached EXCEPT ![x] = snapshot]
          /\ Disturbed /\ UNCHANGED <<corpus, remote, key>>
       \/ /\ key' \in {"none", "own", "unsealable"} \ {key}
          /\ UNCHANGED <<corpus, remote, cached, call>>
    /\ UNCHANGED calls

Step(c) ==
    \/ FindSource(c) \/ List(c) \/ Read(c) \/ Imported(c) \/ Check(c)
    \/ Payer(c) \/ Embed(c) \/ Commit(c) \/ SearchMemory(c) \/ SearchFirst(c)

KnowledgeNext ==
    \/ \E c \in Caller : Begin(c) \/ Step(c) \/ Trouble(c)
    \/ \E s \in Slug : MakeSource(s)
    \/ Meanwhile

KnowledgeSpec == KnowledgeInit /\ [][KnowledgeNext]_knowledge

(* The database and the embedding endpoint answer, and a call goes on. *)
KnowledgeFairSpec == KnowledgeSpec /\ \A c \in Caller : WF_knowledge(Step(c))

-----------------------------------------------------------------------------
(* Ids are handed out once; a call never holds more vectors than texts.     *)
KnowledgeTypeOK ==
    /\ sources \in [Slug -> 0..made] /\ key \in {"none", "own", "unsealable"}
    /\ remote \in [External -> Body] /\ cached \in [External -> Snapshot]
    /\ \A d \in documents :
        /\ d.id \in 1..made /\ d.body \in Body /\ d.importance \in Importance
        /\ d.provenance \in Range(Provenance) /\ d.external \in External \cup {"none"}
    /\ \A c \in Caller :
        /\ call[c].task \in Task /\ call[c].ids \subseteq 1..made
        /\ Len(call[c].vectors) <= Len(Wanted(c))
        /\ call[c].failed \subseteq External /\ call[c].bare \subseteq External

(* The corpus is whole: a document belongs to a source that exists, a       *)
(* resource is in a source once, and a document's chunks are those of the   *)
(* body it has, each with its own vector, whoever else was writing it; the  *)
(* chunks are of the size asked for but for what is repeated, and leave out *)
(* nothing that is not spacing.                                             *)
CorpusIsWhole ==
    /\ KnowledgeTypeOK
    /\ \A d \in documents :
        /\ d.source \in Live
        /\ d.chunks = [k \in DOMAIN Pieces(d.body) |->
                         [text |-> <<d.body, k>>, vector |-> <<d.body, k>>]]
        /\ LET chunks == ChunksOf[d.body]
           IN  /\ \A k \in DOMAIN chunks : ChunkLength(chunks[k]) <= ChunkSize + Overlap + 2
               /\ Total([k \in DOMAIN chunks |->
                           Total([p \in DOMAIN chunks[k].pieces |-> chunks[k].pieces[p].chars])])
                    = Chars(Text[d.body])
    /\ \A d, e \in documents :
        d.id = e.id \/ (d.source = e.source /\ d.external = e.external
                          /\ d.external # "none") => d = e

(* An import lists before it reads, and the listing of a service that gives *)
(* no content with it is stored as fresh snapshots without one: those are   *)
(* what is read, and passed over as if the resource had no text, uncounted  *)
(* (memory/actions.ts:97, :107-110, cached-connections.ts:101-104, :120).   *)
ListedBare(c, x) == x \in call'[c].bare \ WithContent

(* What an undisturbed call may say when it ends.                           *)
FilledTruly(c) ==       \* every listed resource not counted as failed is there as it reads
    \A k \in DOMAIN Listing :
        LET x == Listing[k]
        IN  x \in call'[c].failed \/ Text[remote[x]] = <<>> \/ ListedBare(c, x)
              \/ \E d \in documents' : d.source = Source(c) /\ d.external = x /\ d.body = remote[x]

FoundTruly(c) ==        \* hits are of the granted sources, and a short page hides nothing
    LET all == Found(Resolved(Granted), call[c].body)
    IN  /\ call'[c].hits \subseteq all
        /\ Cardinality(call'[c].hits) < SearchLimit => call'[c].hits = all

Duplicates(c) == {h \in Found(call[c].ids, call[c].body) : Near(call[c].body, h.vector)}

RememberedTruly(c) ==   \* a duplicate is written only past a passage worth more
    /\ call'[c].outcome = "already" => Duplicates(c) # {}
    /\ call'[c].outcome = "written" =>
        \A h \in Duplicates(c) : \E g \in call[c].hits \ Duplicates(c) : ~Outranks(h, g, 1)

(* The answer of a call nobody disturbed is true of the corpus: an import   *)
(* leaves every readable resource in the source as the service has it, but  *)
(* for those its own listing stored without content (ListedBare), a         *)
(* search returns passages of the sources its grant names now and withholds *)
(* none while there is room, and a remember writes a second copy of a fact  *)
(* only when its search ranked another passage above the first.             *)
AnswersAreTrue ==
    [][\A c \in Caller :
        Active(c) /\ call'[c].at = "done" /\ call'[c].quiet =>
            CASE call'[c].outcome = "imported" -> FilledTruly(c)
              [] call'[c].outcome = "answered" -> FoundTruly(c)
              [] call'[c].task = "remember" -> RememberedTruly(c)
              [] OTHER -> TRUE]_knowledge

(* Every call ends, an import too: nothing is tried again for ever.         *)
CallsEnd == \A c \in Caller : Active(c) ~> ~Active(c)
=============================================================================
