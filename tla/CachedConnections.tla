------------------------- MODULE CachedConnections -------------------------
(***************************************************************************)
(* The cache in front of one connection: reads, listings, edits, refreshes *)
(* and webhooks of several callers, over a source that others change too.  *)
(*                                                                         *)
(* The source is outside.  A version is the number of the write that made  *)
(* it.  A source without hierarchy lists everything when no parent is      *)
(* named; one with it lists its top level.  A snapshot of a listing has no *)
(* content; one of a read has.                                             *)
(***************************************************************************)
EXTENDS Naturals

CONSTANTS
    Caller,             \* calls being served
    Resource,
    Top,                \* the resources at the top level; the others share a parent
    None,
    Answers,            \* the source answers an edit with the content: \subseteq BOOLEAN
    MaxRefreshPages,
    MaxWrites           \* bounds the changes of the source

Snapshot == [version : 0..MaxWrites, full : BOOLEAN]
Entry == [version : 0..MaxWrites, full : BOOLEAN, fresh : BOOLEAN]

ASSUME TopAssumption == Top \subseteq Resource
ASSUME NoneAssumption == None \notin Snapshot \cup Entry \cup Resource
ASSUME AnswersAssumption == Answers \subseteq BOOLEAN
ASSUME BoundAssumption == MaxRefreshPages \in Nat \ {0} /\ MaxWrites \in Nat

VARIABLES
    flat,       \* source: does a listing without a parent list everything?
    source,     \* source: each resource, its last write and whether it is there
    writes,     \* source: how many writes there were
    cache,      \* the cached snapshot of each resource
    caller,     \* caller[c]: the locals of one call
    floor,      \* history: the write the product was told the cache knows of
    straggles,  \* history: was an older snapshot in flight when it was told?
    missed,     \* history: what was away at some time during c's refresh
    quiet       \* history: has the refresh under way had everything to itself?

history == <<floor, straggles, missed, quiet>>
vars == <<flat, source, writes, cache, caller, history>>

-----------------------------------------------------------------------------
Locals == [pc : {"idle", "fetching", "putting", "dropping", "paging", "pruning"},
           doing : {"nothing", "read", "list", "edit", "remove", "refresh"},
           id : Resource \cup {None},
           got : [Resource -> Snapshot \cup {None}],
           scope : {"all", "top", "folder"},
           todo : SUBSET Resource,      \* what the cursor has not passed
           pages : 0..MaxRefreshPages]

Nothing == [i \in Resource |-> None]

Idle == [pc |-> "idle", doing |-> "nothing", id |-> None, got |-> Nothing,
         scope |-> "all", todo |-> {}, pages |-> 0]

TypeOK ==
    /\ flat \in BOOLEAN
    /\ source \in [Resource -> [version : 0..MaxWrites, there : BOOLEAN]]
    /\ writes \in 0..MaxWrites
    /\ cache \in [Resource -> Entry \cup {None}]
    /\ caller \in [Caller -> Locals]
    /\ floor \in [Resource -> 0..MaxWrites]
    /\ straggles \in [Resource -> BOOLEAN]
    /\ missed \in [Caller -> SUBSET Resource]
    /\ quiet \in BOOLEAN

Init ==
    /\ flat \in BOOLEAN
    /\ source \in [Resource -> [version : {0}, there : BOOLEAN]]
    /\ writes = 0
    /\ cache = [i \in Resource |-> None]
    /\ caller = [c \in Caller |-> Idle]
    /\ floor = [i \in Resource |-> 0]
    /\ straggles = [i \in Resource |-> FALSE]
    /\ missed = [c \in Caller |-> {}]
    /\ quiet = FALSE

Alone(c) == \A d \in Caller \ {c} : caller[d].pc = "idle"

Set(c, locals) == caller' = [caller EXCEPT ![c] = locals]

(* A call that starts ends the quiet of a refresh it runs beside. *)
Begin(c, locals) ==
    /\ caller[c].pc = "idle"
    /\ Set(c, locals)
    /\ quiet' = (locals.doing = "refresh" /\ Alone(c))

Return(c) ==
    /\ Set(c, Idle)
    /\ missed' = [missed EXCEPT ![c] = {}]
    /\ quiet' = (quiet /\ caller[c].doing # "refresh")

One(i, snapshot) == [Nothing EXCEPT ![i] = snapshot]

-----------------------------------------------------------------------------
(* The store. *)

(* putMany: each row replaced, and stamped with the time of the write. *)
Stored(got) ==
    [i \in Resource |->
       IF got[i] = None THEN cache[i]
       ELSE [version |-> got[i].version, full |-> got[i].full, fresh |-> TRUE]]

(* prune: what is in the scope and was not listed. *)
Without(gone) == [i \in Resource |-> IF i \in gone THEN None ELSE cache[i]]

Fresh(i) == cache[i] # None /\ cache[i].fresh

(* The source. *)
Write(i, there) ==
    /\ writes < MaxWrites
    /\ writes' = writes + 1
    /\ source' = [source EXCEPT ![i] = [version |-> writes + 1, there |-> there]]
    /\ missed' = [c \in Caller |-> IF there \/ caller[c].doing # "refresh" THEN missed[c] ELSE missed[c] \cup {i}]

There == {i \in Resource : source[i].there}

Fetched(page, full) ==
    [i \in Resource |->
       IF i \in page \cap There THEN [version |-> source[i].version, full |-> full] ELSE None]

-----------------------------------------------------------------------------
(* read: a fresh snapshot is served as it is. *)
Read(c, i) ==
    /\ ~ Fresh(i)
    /\ Begin(c, [Idle EXCEPT !.pc = "fetching", !.doing = "read", !.id = i])
    /\ UNCHANGED <<flat, source, writes, cache, floor, straggles, missed>>

ReadSource(c) ==
    LET i == caller[c].id IN
    /\ caller[c].pc = "fetching"
    /\ i \in There
    /\ Set(c, [caller[c] EXCEPT !.pc = "putting", !.got = Fetched({i}, TRUE)])
    /\ UNCHANGED <<flat, source, writes, cache, history>>

(* list and search: live, one page of whatever is there. *)
List(c, page) ==
    /\ Begin(c, [Idle EXCEPT !.pc = "putting", !.doing = "list",
                             !.got = Fetched(page, FALSE)])
    /\ UNCHANGED <<flat, source, writes, cache, floor, straggles, missed>>

(* create and update: the source answers with the resource, some with no    *)
(* content.                                                                 *)
Edit(c, i, full) ==
    /\ Write(i, TRUE)
    /\ Begin(c, [Idle EXCEPT !.pc = "putting", !.doing = "edit", !.id = i,
                   !.got = One(i, [version |-> writes + 1, full |-> full])])
    /\ UNCHANGED <<flat, cache, floor, straggles>>

Delete(c, i) ==
    /\ i \in There
    /\ Write(i, FALSE)
    /\ Begin(c, [Idle EXCEPT !.pc = "dropping", !.doing = "remove", !.id = i,
                   !.got = One(i, [version |-> writes + 1, full |-> FALSE])])
    /\ UNCHANGED <<flat, cache, floor, straggles>>

(* The product is told that the cache knows of the write of i that made a   *)
(* version: an edit or a delete returned, or a webhook was answered.        *)
Told(i, version) ==
    IF version < floor[i] THEN UNCHANGED <<floor, straggles>>
    ELSE /\ floor' = [floor EXCEPT ![i] = version]
         /\ straggles' = [straggles EXCEPT ![i] =
              \E d \in Caller : /\ caller[d].doing # "remove"
                                /\ caller[d].got[i] # None
                                /\ caller[d].got[i].version < version]

(* Bug: a listing that was cut short is pruned against. *)
TruncatedNever(me) == FALSE

(* The page cap was hit: what the cursor has not passed was not seen. *)
Truncated(me) == me.todo # {}

Put(c) ==
    LET me == caller[c] IN
    /\ me.pc = "putting"
    /\ cache' = Stored(me.got)
    /\ IF me.doing = "edit" THEN Told(me.id, me.got[me.id].version)
       ELSE UNCHANGED <<floor, straggles>>
    /\ IF me.doing = "refresh" /\ ~ Truncated(me)
       THEN Set(c, [me EXCEPT !.pc = "pruning"]) /\ UNCHANGED <<missed, quiet>>
       ELSE Return(c)
    /\ UNCHANGED <<flat, source, writes>>

(* Bug: the snapshot of a deleted resource stays. *)
DroppedNever(i) == cache

Dropped(i) == Without({i})

Drop(c) ==
    LET i == caller[c].id IN
    /\ caller[c].pc = "dropping"
    /\ cache' = Dropped(i)
    /\ Told(i, caller[c].got[i].version)
    /\ Return(c)
    /\ UNCHANGED <<flat, source, writes>>

(* invalidate: the webhook of a change. *)
Invalidate(i) ==
    /\ cache' = Dropped(i)
    /\ Told(i, source[i].version)
    /\ quiet' = FALSE
    /\ UNCHANGED <<flat, source, writes, caller, missed>>

-----------------------------------------------------------------------------
(* refresh *)

(* What the source lists for a scope; no parent is named for the top level. *)
Listed(scope) ==
    IF scope = "folder" THEN Resource \ Top ELSE IF flat THEN Resource ELSE Top

(* Whose snapshots a refresh of a scope may prune. *)
Pruned(scope) ==
    IF scope = "all" THEN Resource ELSE IF scope = "top" THEN Top ELSE Resource \ Top

Refresh(c, scope) ==
    /\ Begin(c, [Idle EXCEPT !.pc = "paging", !.doing = "refresh", !.scope = scope,
                             !.todo = Listed(scope)])
    /\ missed' = [missed EXCEPT ![c] = Resource \ There]
    /\ UNCHANGED <<flat, source, writes, cache, floor, straggles>>

(* Bug: the page cap is never reached. *)
MoreAlways(todo, pages) == todo # {}

More(todo, pages) == todo # {} /\ pages < MaxRefreshPages

(* One page; the cursor passes some of what is left, gone or not. *)
Page(c, page) ==
    LET me == caller[c]
        todo == me.todo \ page
        pages == me.pages + 1
    IN  /\ me.pc = "paging"
        /\ page \subseteq me.todo
        /\ Set(c, [me EXCEPT
             !.got = [i \in Resource |-> IF i \in page THEN Fetched(page, FALSE)[i] ELSE @[i]],
             !.todo = todo, !.pages = pages,
             !.pc = IF More(todo, pages) THEN "paging" ELSE "putting"])
        /\ UNCHANGED <<flat, source, writes, cache, history>>

Seen(me) == {i \in Resource : me.got[i] # None}

(* Bug: nothing is pruned. *)
VanishedNone(me) == {}

Vanished(me) == Pruned(me.scope) \ Seen(me)

Prune(c) ==
    /\ caller[c].pc = "pruning"
    /\ cache' = Without(Vanished(caller[c]))
    /\ Return(c)
    /\ UNCHANGED <<flat, source, writes, floor, straggles>>

-----------------------------------------------------------------------------
(* A call ends early: the source fails or has no such resource, in which    *)
(* case a read serves the snapshot it found, the store rejects, or the      *)
(* process stops.                                                           *)
EndEarly(c) ==
    /\ caller[c].pc # "idle"
    /\ Return(c)
    /\ UNCHANGED <<flat, source, writes, cache, floor, straggles>>

(* The snapshot of i grows older than the TTL. *)
Age(i) ==
    /\ Fresh(i)
    /\ cache' = [cache EXCEPT ![i].fresh = FALSE]
    /\ UNCHANGED <<flat, source, writes, caller, history>>

(* Somebody else changes the source. *)
Outside(i, there) ==
    /\ there \/ i \in There
    /\ Write(i, there)
    /\ quiet' = FALSE
    /\ UNCHANGED <<flat, cache, caller, floor, straggles>>

Serve(c) ==
    \/ \E i \in Resource : Read(c, i) \/ Delete(c, i)
    \/ \E i \in Resource, full \in Answers : Edit(c, i, full)
    \/ \E page \in SUBSET Resource : List(c, page) \/ Page(c, page)
    \/ \E scope \in {"all", "top", "folder"} : Refresh(c, scope)
    \/ ReadSource(c) \/ Put(c) \/ Drop(c) \/ Prune(c) \/ EndEarly(c)

Next ==
    \/ \E c \in Caller : Serve(c)
    \/ \E i \in Resource : Invalidate(i) \/ Age(i) \/ \E there \in BOOLEAN : Outside(i, there)

Spec == Init /\ [][Next]_vars

-----------------------------------------------------------------------------
(* The cache keeps up with what the product was told: after an edit, a      *)
(* delete or a webhook it holds nothing older, except what a call that had  *)
(* already fetched the older one brings back (cached-connections.ts).       *)
CacheKeepsUp ==
    \A i \in Resource :
      cache[i] # None /\ ~ straggles[i] => cache[i].version >= floor[i]

(* A refresh is an honest picture of what it could see.  It prunes only     *)
(* what was away at some time while it listed, unless it listed the top     *)
(* level of a hierarchy and prunes all of it; and one that saw everything   *)
(* and had everything to itself leaves the cache as the source is, for what *)
(* it listed and may prune (refresh).                                       *)
RefreshIsHonest ==
    [][\A c \in Caller : Prune(c) =>
         /\ \A i \in Resource :
              cache[i] # None /\ cache'[i] = None =>
              i \in missed[c] \/ (caller[c].scope = "all" /\ i \notin Listed("all"))
         /\ quiet =>
              \A i \in Listed(caller[c].scope) \cap Pruned(caller[c].scope) :
                IF i \in There
                THEN cache'[i] # None /\ cache'[i].version = source[i].version
                ELSE cache'[i] = None]_vars

(* What a read is served has its content: listings leave it out and a read  *)
(* populates it (connector.ts).                                             *)
ReadPopulated == \A i \in Resource : Fresh(i) => cache[i].full

=============================================================================
