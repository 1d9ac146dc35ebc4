---------------------- MODULE CachedConnectionsProofs ----------------------
(***************************************************************************)
(* Proofs about the connection cache, for any number of callers and        *)
(* resources, any hierarchy, any cap on the pages of a refresh and any     *)
(* number of writes of the source.                                         *)
(*                                                                         *)
(* Part one: a snapshot under way is never newer than the source, and is   *)
(* older than what the product was told only where `straggles` says so.    *)
(* Part two: what a refresh has not seen, of what the cursor passed, was   *)
(* away at some time; and while it has everything to itself, what it has   *)
(* seen is what the source holds.                                          *)
(***************************************************************************)
EXTENDS CachedConnections, TLAPS

USE DEF history

LEMMA NoneIsNothing ==
  /\ \A s \in Snapshot : s # None
  /\ \A e \in Entry : e # None
  /\ \A i \in Resource : i # None
BY NoneAssumption

(* What a call's stage says of the rest of its locals. *)
Shape(me) ==
    /\ me.pc = "idle" => me = Idle
    /\ me.doing = "nothing" => me.pc = "idle"
    /\ me.pc = "fetching" => me.doing = "read" /\ me.id \in Resource
    /\ me.pc = "putting" => me.doing \in {"read", "list", "edit", "refresh"}
    /\ me.doing = "remove" <=> me.pc = "dropping"
    /\ me.doing \in {"edit", "remove"} => me.id \in Resource /\ me.got[me.id] # None
    /\ me.doing = "edit" => me.pc = "putting"
    /\ me.pc \in {"paging", "pruning"} => me.doing = "refresh"
    /\ me.pc = "paging" => me.pages < MaxRefreshPages

(* A snapshot under way, against the source and what the product was told. *)
Carries(me, src, told, old) ==
    \A i \in Resource : me.got[i] # None =>
      /\ me.got[i].version <= src[i].version
      /\ me.doing # "remove" => me.got[i].version >= told[i] \/ old[i]

Ordered == \A i \in Resource : floor[i] <= source[i].version /\ source[i].version <= writes

CacheInv ==
    /\ TypeOK /\ Ordered /\ CacheKeepsUp
    /\ \A c \in Caller : Shape(caller[c]) /\ Carries(caller[c], source, floor, straggles)

LEMMA IdleIsFine ==
  /\ Idle \in Locals /\ Shape(Idle) /\ Idle.pc = "idle" /\ Idle.doing = "nothing"
  /\ Idle.id = None /\ Idle.todo = {} /\ Idle.pages = 0
  /\ Idle.got = Nothing /\ \A i \in Resource : Idle.got[i] = None
BY BoundAssumption DEF Idle, Locals, Nothing, Shape

LEMMA InitHolds == Init => CacheInv
<1> SUFFICES ASSUME Init PROVE CacheInv
  OBVIOUS
<1>1. \A c \in Caller : caller[c] = Idle
  BY DEF Init
<1>2. TypeOK
  <2>1. 0 \in 0..MaxWrites
    BY BoundAssumption
  <2>2. source \in [Resource -> [version : 0..MaxWrites, there : BOOLEAN]]
    BY <2>1 DEF Init
  <2>3. caller \in [Caller -> Locals]
    BY IdleIsFine DEF Init
  <2> QED
    BY <2>1, <2>2, <2>3 DEF Init, TypeOK
<1>3. Ordered /\ CacheKeepsUp
  BY BoundAssumption DEF Init, Ordered, CacheKeepsUp
<1>4. \A c \in Caller : Shape(caller[c]) /\ Carries(caller[c], source, floor, straggles)
  BY <1>1, IdleIsFine DEF Carries
<1> QED
  BY <1>2, <1>3, <1>4 DEF CacheInv

(* What is known of one call. *)
LEMMA Mine ==
  ASSUME CacheInv, NEW c \in Caller
  PROVE  /\ caller[c] \in Locals /\ Shape(caller[c])
         /\ Carries(caller[c], source, floor, straggles)
         /\ \A i \in Resource : /\ caller[c].got[i] \in Snapshot \cup {None}
                                /\ caller[c].got[i] # None => caller[c].got[i] \in Snapshot
BY DEF CacheInv, TypeOK, Locals

LEMMA VersionsAreNumbers ==
  /\ \A s \in Snapshot : s.version \in 0..MaxWrites /\ s.version \in Nat /\ s.full \in BOOLEAN
  /\ \A e \in Entry : e.version \in 0..MaxWrites /\ e.version \in Nat
BY BoundAssumption DEF Snapshot, Entry

-----------------------------------------------------------------------------
(* The parts of the invariant, put together again after one call moved. *)
LEMMA CallerMoves ==
  ASSUME CacheInv, NEW c \in Caller, NEW me, me \in Locals, Shape(me), Set(c, me),
         Carries(me, source', floor', straggles'),
         \A d \in Caller : Carries(caller[d], source', floor', straggles'),
         flat' \in BOOLEAN, writes' \in 0..MaxWrites, quiet' \in BOOLEAN,
         missed' \in [Caller -> SUBSET Resource],
         source' \in [Resource -> [version : 0..MaxWrites, there : BOOLEAN]],
         cache' \in [Resource -> Entry \cup {None}],
         floor' \in [Resource -> 0..MaxWrites], straggles' \in [Resource -> BOOLEAN],
         Ordered', CacheKeepsUp'
  PROVE  CacheInv'
<1>1. caller \in [Caller -> Locals] /\ caller' = [caller EXCEPT ![c] = me]
  BY DEF CacheInv, TypeOK, Set
<1>2. caller' \in [Caller -> Locals]
      /\ \A d \in Caller : caller'[d] = IF d = c THEN me ELSE caller[d]
  BY <1>1
<1>3. TypeOK'
  BY <1>2 DEF TypeOK
<1>4. \A d \in Caller : Shape(caller'[d]) /\ Carries(caller'[d], source', floor', straggles')
  BY <1>2, Mine
<1> QED
  BY <1>3, <1>4 DEF CacheInv

(* A call that only changes its own locals, and the history of refreshes. *)
LEMMA CallerAlone ==
  ASSUME CacheInv, NEW c \in Caller, NEW me, me \in Locals, Shape(me), Set(c, me),
         Carries(me, source, floor, straggles),
         UNCHANGED <<flat, source, writes, cache, floor, straggles>>,
         quiet' \in BOOLEAN, missed' \in [Caller -> SUBSET Resource]
  PROVE  CacheInv'
<1>1. /\ flat' \in BOOLEAN /\ writes' \in 0..MaxWrites
      /\ source' \in [Resource -> [version : 0..MaxWrites, there : BOOLEAN]]
      /\ cache' \in [Resource -> Entry \cup {None}]
      /\ floor' \in [Resource -> 0..MaxWrites] /\ straggles' \in [Resource -> BOOLEAN]
  BY DEF CacheInv, TypeOK
<1>2. Ordered' /\ CacheKeepsUp'
  BY DEF CacheInv, Ordered, CacheKeepsUp
<1>3. Carries(me, source', floor', straggles')
      /\ \A d \in Caller : Carries(caller[d], source', floor', straggles')
  BY DEF CacheInv
<1> QED
  BY <1>1, <1>2, <1>3, CallerMoves

LEMMA ReturnKeeps ==
  ASSUME CacheInv, NEW c \in Caller, Return(c),
         UNCHANGED <<flat, source, writes, cache, floor, straggles>>
  PROVE  CacheInv'
<1>1. Set(c, Idle) /\ quiet' \in BOOLEAN /\ missed' \in [Caller -> SUBSET Resource]
  BY DEF Return, CacheInv, TypeOK
<1>2. Carries(Idle, source, floor, straggles)
  BY IdleIsFine DEF Carries
<1> HIDE DEF Idle
<1> QED
  BY <1>1, <1>2, IdleIsFine, CallerAlone

-----------------------------------------------------------------------------
(* What a source is asked for is as new as the source, and so is a write's  *)
(* own answer.                                                              *)
LEMMA FetchedIsCurrent ==
  ASSUME CacheInv, NEW page \in SUBSET Resource, NEW full \in BOOLEAN
  PROVE  /\ Fetched(page, full) \in [Resource -> Snapshot \cup {None}]
         /\ \A i \in Resource : Fetched(page, full)[i] # None =>
              /\ i \in page \cap There
              /\ Fetched(page, full)[i].version = source[i].version
              /\ Fetched(page, full)[i].version >= floor[i]
         /\ \A i \in page \cap There : Fetched(page, full)[i] # None
<1>1. \A i \in Resource : /\ source[i].version \in 0..MaxWrites /\ source[i].version \in Nat
                          /\ floor[i] \in Nat /\ floor[i] <= source[i].version
  BY BoundAssumption DEF CacheInv, TypeOK, Ordered
<1>2. \A i \in Resource : [version |-> source[i].version, full |-> full] \in Snapshot
  BY <1>1 DEF Snapshot
<1>3. \A i \in Resource : Fetched(page, full)[i] =
        IF i \in page \cap There THEN [version |-> source[i].version, full |-> full] ELSE None
  BY DEF Fetched
<1>4. Fetched(page, full) \in [Resource -> Snapshot \cup {None}]
  BY <1>2 DEF Fetched
<1> QED
  BY <1>1, <1>2, <1>3, <1>4, NoneIsNothing

LEMMA ReadKeeps ==
  ASSUME CacheInv, NEW c \in Caller, NEW i \in Resource, Read(c, i)
  PROVE  CacheInv'
<1> DEFINE me == [Idle EXCEPT !.pc = "fetching", !.doing = "read", !.id = i]
<1>1. /\ me \in Locals /\ me.pc = "fetching" /\ me.doing = "read" /\ me.id = i
      /\ me.got = Nothing
  BY IdleIsFine DEF Locals
<1>2. /\ Set(c, me) /\ quiet' \in BOOLEAN
      /\ UNCHANGED <<flat, source, writes, cache, floor, straggles, missed>>
  BY DEF Read, Begin
<1>3. missed' \in [Caller -> SUBSET Resource]
  BY <1>2 DEF CacheInv, TypeOK
<1> HIDE DEF me
<1>4. Shape(me) /\ Carries(me, source, floor, straggles)
  BY <1>1, IdleIsFine DEF Shape, Carries
<1> QED
  BY <1>1, <1>2, <1>3, <1>4, CallerAlone

LEMMA ReadSourceKeeps ==
  ASSUME CacheInv, NEW c \in Caller, ReadSource(c)
  PROVE  CacheInv'
<1> DEFINE got == Fetched({caller[c].id}, TRUE)
           me == [caller[c] EXCEPT !.pc = "putting", !.got = got]
<1>1. caller[c].pc = "fetching" /\ caller[c].doing = "read" /\ caller[c].id \in Resource
  BY Mine DEF ReadSource, Shape
<1>2. /\ got \in [Resource -> Snapshot \cup {None}]
      /\ \A i \in Resource : got[i] # None => /\ got[i].version = source[i].version
                                              /\ got[i].version >= floor[i]
  BY <1>1, FetchedIsCurrent
<1>3. Set(c, me) /\ UNCHANGED <<flat, source, writes, cache, floor, straggles, missed, quiet>>
  BY DEF ReadSource
<1> HIDE DEF got
<1>4. me \in Locals /\ me.pc = "putting" /\ me.doing = "read" /\ me.got = got
  BY <1>1, <1>2, Mine DEF Locals
<1>5. quiet' \in BOOLEAN /\ missed' \in [Caller -> SUBSET Resource]
      /\ \A i \in Resource : source[i].version \in Nat
  BY <1>3, BoundAssumption DEF CacheInv, TypeOK
<1> HIDE DEF me
<1>6. Shape(me) /\ Carries(me, source, floor, straggles)
  BY <1>2, <1>4, <1>5 DEF Shape, Carries
<1> QED
  BY <1>3, <1>4, <1>5, <1>6, CallerAlone

LEMMA ListKeeps ==
  ASSUME CacheInv, NEW c \in Caller, NEW page \in SUBSET Resource, List(c, page)
  PROVE  CacheInv'
<1> DEFINE got == Fetched(page, FALSE)
           me == [Idle EXCEPT !.pc = "putting", !.doing = "list", !.got = got]
<1>2. /\ got \in [Resource -> Snapshot \cup {None}]
      /\ \A i \in Resource : got[i] # None => /\ got[i].version = source[i].version
                                              /\ got[i].version >= floor[i]
  BY FetchedIsCurrent
<1>3. /\ Set(c, me) /\ quiet' \in BOOLEAN
      /\ UNCHANGED <<flat, source, writes, cache, floor, straggles, missed>>
  BY DEF List, Begin
<1> HIDE DEF got
<1>4. me \in Locals /\ me.pc = "putting" /\ me.doing = "list" /\ me.got = got
  BY <1>2, IdleIsFine DEF Locals
<1>5. missed' \in [Caller -> SUBSET Resource] /\ \A i \in Resource : source[i].version \in Nat
  BY <1>3, BoundAssumption DEF CacheInv, TypeOK
<1> HIDE DEF me
<1>6. Shape(me) /\ Carries(me, source, floor, straggles)
  BY <1>2, <1>4, <1>5 DEF Shape, Carries
<1> QED
  BY <1>3, <1>4, <1>5, <1>6, CallerAlone

LEMMA RefreshKeeps ==
  ASSUME CacheInv, NEW c \in Caller, NEW scope \in {"all", "top", "folder"}, Refresh(c, scope)
  PROVE  CacheInv'
<1> DEFINE me == [Idle EXCEPT !.pc = "paging", !.doing = "refresh", !.scope = scope,
                              !.todo = Listed(scope)]
<1>1. /\ me \in Locals /\ me.pc = "paging" /\ me.doing = "refresh" /\ me.got = Nothing
      /\ me.pages = 0
  BY IdleIsFine, TopAssumption DEF Locals, Listed
<1>2. /\ Set(c, me) /\ quiet' \in BOOLEAN
      /\ missed' = [missed EXCEPT ![c] = Resource \ There]
      /\ UNCHANGED <<flat, source, writes, cache, floor, straggles>>
  BY DEF Refresh, Begin
<1>3. missed' \in [Caller -> SUBSET Resource]
  BY <1>2 DEF CacheInv, TypeOK
<1> HIDE DEF me
<1>4. Shape(me) /\ Carries(me, source, floor, straggles)
  BY <1>1, IdleIsFine, BoundAssumption DEF Shape, Carries
<1> QED
  BY <1>1, <1>2, <1>3, <1>4, CallerAlone

LEMMA PageKeeps ==
  ASSUME CacheInv, NEW c \in Caller, NEW page \in SUBSET Resource, Page(c, page)
  PROVE  CacheInv'
<1> DEFINE old == caller[c]
           seen == Fetched(page, FALSE)
           got == [i \in Resource |-> IF i \in page THEN seen[i] ELSE old.got[i]]
           todo == old.todo \ page
           pages == old.pages + 1
           me == [old EXCEPT !.got = got, !.todo = todo, !.pages = pages,
                             !.pc = IF More(todo, pages) THEN "paging" ELSE "putting"]
<1>1. /\ old.pc = "paging" /\ old.doing = "refresh" /\ old.pages < MaxRefreshPages
      /\ old \in Locals /\ Carries(old, source, floor, straggles)
  BY Mine DEF Page, Shape
<1>2. /\ seen \in [Resource -> Snapshot \cup {None}]
      /\ \A i \in Resource : seen[i] # None => /\ seen[i].version = source[i].version
                                               /\ seen[i].version >= floor[i]
  BY FetchedIsCurrent
<1>3. Set(c, me) /\ UNCHANGED <<flat, source, writes, cache, floor, straggles, missed, quiet>>
  BY DEF Page
<1> HIDE DEF seen
<1>4. got \in [Resource -> Snapshot \cup {None}]
  BY <1>1, <1>2 DEF Locals
<1>5. pages \in 0..MaxRefreshPages /\ todo \in SUBSET Resource
  BY <1>1, BoundAssumption DEF Locals
<1>6. \A i \in Resource : got[i] = IF i \in page THEN seen[i] ELSE old.got[i]
  OBVIOUS
<1> HIDE DEF old, got, todo, pages
<1>7. /\ me \in Locals /\ me.doing = "refresh" /\ me.got = got /\ me.pages = pages
      /\ me.pc \in {"paging", "putting"} /\ (me.pc = "paging" => More(todo, pages))
  BY <1>1, <1>4, <1>5 DEF Locals
<1>8. quiet' \in BOOLEAN /\ missed' \in [Caller -> SUBSET Resource]
      /\ \A i \in Resource : source[i].version \in Nat
  BY <1>3, BoundAssumption DEF CacheInv, TypeOK
<1> HIDE DEF me
<1>9. Shape(me)
  BY <1>7 DEF Shape, More
<1>10. Carries(me, source, floor, straggles)
  BY <1>1, <1>2, <1>6, <1>7, <1>8 DEF Carries
<1> QED
  BY <1>3, <1>7, <1>8, <1>9, <1>10, CallerAlone

-----------------------------------------------------------------------------
(* The source moves on; what is under way and what was told fall behind it. *)
LEMMA WriteMoves ==
  ASSUME CacheInv, NEW i \in Resource, NEW there \in BOOLEAN, Write(i, there),
         UNCHANGED <<floor, straggles>>
  PROVE  /\ writes' \in 0..MaxWrites /\ writes' = writes + 1 /\ writes \in Nat
         /\ source' \in [Resource -> [version : 0..MaxWrites, there : BOOLEAN]]
         /\ source'[i].version = writes + 1 /\ floor[i] <= writes
         /\ missed' \in [Caller -> SUBSET Resource]
         /\ Ordered'
         /\ \A d \in Caller : Carries(caller[d], source', floor', straggles')
<1>1. /\ writes \in Nat /\ writes < MaxWrites /\ writes' = writes + 1
      /\ source' = [source EXCEPT ![i] = [version |-> writes + 1, there |-> there]]
      /\ \A j \in Resource : /\ source[j].version \in Nat /\ floor[j] \in Nat
                             /\ floor[j] <= source[j].version /\ source[j].version <= writes
  BY BoundAssumption DEF CacheInv, TypeOK, Ordered, Write
<1>2. writes' \in 0..MaxWrites /\ [version |-> writes + 1, there |-> there] \in
        [version : 0..MaxWrites, there : BOOLEAN]
  BY <1>1, BoundAssumption
<1>3. source' \in [Resource -> [version : 0..MaxWrites, there : BOOLEAN]]
  BY <1>1, <1>2 DEF CacheInv, TypeOK
<1>4. \A j \in Resource : /\ source'[j].version = IF j = i THEN writes + 1 ELSE source[j].version
                          /\ source'[j].version >= source[j].version
  BY <1>1 DEF CacheInv, TypeOK
<1>5. Ordered'
  BY <1>1, <1>4 DEF Ordered
<1>6. missed' \in [Caller -> SUBSET Resource]
  BY DEF CacheInv, TypeOK, Write
<1>7. ASSUME NEW d \in Caller PROVE Carries(caller[d], source', floor', straggles')
  <2>1. Carries(caller[d], source, floor, straggles)
        /\ \A j \in Resource : caller[d].got[j] # None => caller[d].got[j].version \in Nat
    BY Mine, VersionsAreNumbers
  <2> QED
    BY <1>1, <1>3, <1>4, <2>1, BoundAssumption DEF Carries
<1>8. source'[i].version = writes + 1 /\ floor[i] <= writes
  BY <1>1, <1>4
<1> QED
  BY <1>1, <1>2, <1>3, <1>5, <1>6, <1>7, <1>8, Zenon

LEMMA OneIsOne ==
  ASSUME NEW i \in Resource, NEW s \in Snapshot
  PROVE  /\ One(i, s) \in [Resource -> Snapshot \cup {None}] /\ One(i, s)[i] = s
         /\ s # None /\ \A j \in Resource : One(i, s)[j] # None => j = i
BY NoneIsNothing DEF One, Nothing

(* An edit or a delete: the write happened, and its answer is on the way. *)
LEMMA WrittenKeeps ==
  ASSUME CacheInv, NEW c \in Caller, NEW i \in Resource, NEW there \in BOOLEAN,
         NEW full \in BOOLEAN, Write(i, there), NEW pc, NEW doing,
         (pc = "putting" /\ doing = "edit") \/ (pc = "dropping" /\ doing = "remove"),
         Begin(c, [Idle EXCEPT !.pc = pc, !.doing = doing, !.id = i,
                     !.got = One(i, [version |-> writes + 1, full |-> full])]),
         UNCHANGED <<flat, cache, floor, straggles>>
  PROVE  CacheInv'
<1> DEFINE s == [version |-> writes + 1, full |-> full]
           me == [Idle EXCEPT !.pc = pc, !.doing = doing, !.id = i, !.got = One(i, s)]
<1>1. /\ writes' \in 0..MaxWrites /\ writes' = writes + 1 /\ writes \in Nat
      /\ source' \in [Resource -> [version : 0..MaxWrites, there : BOOLEAN]]
      /\ source'[i].version = writes + 1 /\ floor[i] <= writes
      /\ missed' \in [Caller -> SUBSET Resource]
      /\ Ordered'
      /\ \A d \in Caller : Carries(caller[d], source', floor', straggles')
  BY WriteMoves
<1>2. s \in Snapshot /\ s.version = writes + 1
  BY <1>1 DEF Snapshot
<1>3. Set(c, me) /\ quiet' \in BOOLEAN
  BY DEF Begin
<1> HIDE DEF s
<1>4. /\ One(i, s) \in [Resource -> Snapshot \cup {None}] /\ One(i, s)[i] = s
      /\ s # None /\ \A j \in Resource : One(i, s)[j] # None => j = i
  BY <1>2, OneIsOne
<1>5. me \in Locals /\ me.pc = pc /\ me.doing = doing /\ me.id = i /\ me.got = One(i, s)
  BY <1>4, IdleIsFine DEF Locals
<1>6. /\ flat' \in BOOLEAN /\ cache' \in [Resource -> Entry \cup {None}]
      /\ floor' \in [Resource -> 0..MaxWrites] /\ straggles' \in [Resource -> BOOLEAN]
      /\ floor[i] \in Nat /\ floor' = floor
  BY BoundAssumption DEF CacheInv, TypeOK
<1>7. CacheKeepsUp'
  BY DEF CacheInv, CacheKeepsUp
<1> HIDE DEF me
<1>8. Shape(me)
  BY <1>4, <1>5 DEF Shape
<1>9. Carries(me, source', floor', straggles')
  BY <1>1, <1>2, <1>4, <1>5, <1>6 DEF Carries
<1> QED
  BY <1>1, <1>3, <1>5, <1>6, <1>7, <1>8, <1>9, CallerMoves

LEMMA EditKeeps ==
  ASSUME CacheInv, NEW c \in Caller, NEW i \in Resource, NEW full \in BOOLEAN, Edit(c, i, full)
  PROVE  CacheInv'
BY WrittenKeeps DEF Edit

LEMMA DeleteKeeps ==
  ASSUME CacheInv, NEW c \in Caller, NEW i \in Resource, Delete(c, i)
  PROVE  CacheInv'
BY WrittenKeeps DEF Delete

LEMMA OutsideKeeps ==
  ASSUME CacheInv, NEW i \in Resource, NEW there \in BOOLEAN, Outside(i, there)
  PROVE  CacheInv'
<1>1. /\ writes' \in 0..MaxWrites /\ missed' \in [Caller -> SUBSET Resource] /\ Ordered'
      /\ source' \in [Resource -> [version : 0..MaxWrites, there : BOOLEAN]]
      /\ \A d \in Caller : Carries(caller[d], source', floor', straggles')
  BY WriteMoves DEF Outside
<1>2. quiet' = FALSE /\ UNCHANGED <<flat, cache, caller, floor, straggles>>
  BY DEF Outside
<1>3. TypeOK' /\ CacheKeepsUp'
  BY <1>1, <1>2 DEF CacheInv, TypeOK, CacheKeepsUp
<1> QED
  BY <1>1, <1>2, <1>3 DEF CacheInv

-----------------------------------------------------------------------------
(* The product is told; what is still under way and older is a straggler. *)
LEMMA ToldMoves ==
  ASSUME CacheInv, NEW i \in Resource, NEW version \in 0..MaxWrites, Told(i, version),
         version <= source[i].version, source' = source, writes' = writes
  PROVE  /\ floor' \in [Resource -> 0..MaxWrites] /\ straggles' \in [Resource -> BOOLEAN]
         /\ Ordered'
         /\ \A j \in Resource : j # i => floor'[j] = floor[j] /\ straggles'[j] = straggles[j]
         /\ \A d \in Caller : Carries(caller[d], source', floor', straggles')
<1>0. version \in Nat /\ \A j \in Resource : floor[j] \in Nat /\ source[j].version \in Nat
  BY BoundAssumption DEF CacheInv, TypeOK
<1>1. CASE version < floor[i]
  BY <1>1 DEF Told, CacheInv, TypeOK, Ordered
<1>2. CASE ~ (version < floor[i])
  <2> DEFINE late == \E d \in Caller : /\ caller[d].doing # "remove"
                                       /\ caller[d].got[i] # None
                                       /\ caller[d].got[i].version < version
  <2>1. floor' = [floor EXCEPT ![i] = version] /\ straggles' = [straggles EXCEPT ![i] = late]
    BY <1>2 DEF Told
  <2>2. late \in BOOLEAN
    OBVIOUS
  <2>3. /\ floor' \in [Resource -> 0..MaxWrites] /\ straggles' \in [Resource -> BOOLEAN]
        /\ \A j \in Resource : floor'[j] = IF j = i THEN version ELSE floor[j]
        /\ \A j \in Resource : j # i => straggles'[j] = straggles[j]
        /\ straggles'[i] = late
    <3> HIDE DEF late
    <3> QED
      BY <2>1, <2>2 DEF CacheInv, TypeOK
  <2>4. Ordered'
    BY <2>3 DEF CacheInv, Ordered
  <2>5. ASSUME NEW d \in Caller PROVE Carries(caller[d], source', floor', straggles')
    <3>1. Carries(caller[d], source, floor, straggles)
          /\ \A j \in Resource : caller[d].got[j] # None => caller[d].got[j].version \in Nat
      BY Mine, VersionsAreNumbers
    <3>2. caller[d].got[i] # None /\ caller[d].doing # "remove" =>
            caller[d].got[i].version >= version \/ late
      BY <1>0, <3>1
    <3> HIDE DEF late
    <3> QED
      BY <2>3, <3>1, <3>2 DEF Carries
  <2> QED
    BY <2>3, <2>4, <2>5
<1> QED
  BY <1>1, <1>2

(* A snapshot is forgotten, and the product told of the change. *)
LEMMA DroppedKeepsUp ==
  ASSUME CacheInv, NEW i \in Resource, cache' = Dropped(i),
         \A j \in Resource : j # i => floor'[j] = floor[j] /\ straggles'[j] = straggles[j]
  PROVE  cache' \in [Resource -> Entry \cup {None}] /\ CacheKeepsUp'
<1>1. cache' = [j \in Resource |-> IF j = i THEN None ELSE cache[j]]
  BY DEF Dropped, Without
<1> QED
  BY <1>1 DEF CacheInv, TypeOK, CacheKeepsUp

LEMMA InvalidateKeeps ==
  ASSUME CacheInv, NEW i \in Resource, Invalidate(i)
  PROVE  CacheInv'
<1>1. /\ cache' = Dropped(i) /\ Told(i, source[i].version) /\ quiet' = FALSE
      /\ UNCHANGED <<flat, source, writes, caller, missed>>
  BY DEF Invalidate
<1>2. source[i].version \in 0..MaxWrites /\ source[i].version <= source[i].version
  BY BoundAssumption DEF CacheInv, TypeOK
<1> DEFINE version == source[i].version
<1>3. /\ floor' \in [Resource -> 0..MaxWrites] /\ straggles' \in [Resource -> BOOLEAN]
      /\ Ordered'
      /\ \A j \in Resource : j # i => floor'[j] = floor[j] /\ straggles'[j] = straggles[j]
      /\ \A d \in Caller : Carries(caller[d], source', floor', straggles')
  <2>1. version \in 0..MaxWrites /\ version <= source[i].version /\ Told(i, version)
    BY <1>1, <1>2
  <2> HIDE DEF version
  <2> QED
    BY <1>1, <2>1, ToldMoves
<1>4. cache' \in [Resource -> Entry \cup {None}] /\ CacheKeepsUp'
  BY <1>1, <1>3, DroppedKeepsUp
<1>5. TypeOK'
  BY <1>1, <1>3, <1>4 DEF CacheInv, TypeOK
<1> QED
  BY <1>1, <1>3, <1>4, <1>5 DEF CacheInv

(* A call that ends with a change of the cache. *)
LEMMA EndsKeeping ==
  ASSUME CacheInv, NEW c \in Caller, Return(c), UNCHANGED <<flat, source, writes>>,
         cache' \in [Resource -> Entry \cup {None}], CacheKeepsUp', Ordered',
         floor' \in [Resource -> 0..MaxWrites], straggles' \in [Resource -> BOOLEAN],
         \A d \in Caller : Carries(caller[d], source', floor', straggles')
  PROVE  CacheInv'
<1>1. Set(c, Idle) /\ quiet' \in BOOLEAN /\ missed' \in [Caller -> SUBSET Resource]
  BY DEF Return, CacheInv, TypeOK
<1>2. Carries(Idle, source', floor', straggles')
  BY IdleIsFine DEF Carries
<1>3. /\ flat' \in BOOLEAN /\ writes' \in 0..MaxWrites
      /\ source' \in [Resource -> [version : 0..MaxWrites, there : BOOLEAN]]
  BY DEF CacheInv, TypeOK
<1> HIDE DEF Idle
<1> QED
  BY <1>1, <1>2, <1>3, IdleIsFine, CallerMoves

LEMMA DropKeeps ==
  ASSUME CacheInv, NEW c \in Caller, Drop(c)
  PROVE  CacheInv'
<1> DEFINE i == caller[c].id
           version == caller[c].got[i].version
<1>1. /\ i \in Resource /\ version \in 0..MaxWrites /\ version <= source[i].version
      /\ Told(i, version) /\ cache' = Dropped(i) /\ Return(c)
      /\ UNCHANGED <<flat, source, writes>>
  BY Mine, VersionsAreNumbers DEF Drop, Shape, Carries
<1> HIDE DEF i, version
<1>2. /\ floor' \in [Resource -> 0..MaxWrites] /\ straggles' \in [Resource -> BOOLEAN]
      /\ Ordered'
      /\ \A j \in Resource : j # i => floor'[j] = floor[j] /\ straggles'[j] = straggles[j]
      /\ \A d \in Caller : Carries(caller[d], source', floor', straggles')
  BY <1>1, ToldMoves
<1>3. cache' \in [Resource -> Entry \cup {None}] /\ CacheKeepsUp'
  BY <1>1, <1>2, DroppedKeepsUp
<1> QED
  BY <1>1, <1>2, <1>3, EndsKeeping

LEMMA PruneKeeps ==
  ASSUME CacheInv, NEW c \in Caller, Prune(c)
  PROVE  CacheInv'
<1>1. /\ cache' = Without(Vanished(caller[c])) /\ Return(c)
      /\ UNCHANGED <<flat, source, writes, floor, straggles>>
  BY DEF Prune
<1>2. cache' \in [Resource -> Entry \cup {None}] /\ CacheKeepsUp'
  BY <1>1 DEF Without, CacheInv, TypeOK, CacheKeepsUp
<1>3. /\ Ordered' /\ floor' \in [Resource -> 0..MaxWrites] /\ straggles' \in [Resource -> BOOLEAN]
      /\ \A d \in Caller : Carries(caller[d], source', floor', straggles')
  BY <1>1 DEF CacheInv, TypeOK, Ordered
<1> QED
  BY <1>1, <1>2, <1>3, EndsKeeping

LEMMA AgeKeeps ==
  ASSUME CacheInv, NEW i \in Resource, Age(i)
  PROVE  CacheInv'
<1>1. /\ cache[i] \in Entry /\ cache' = [cache EXCEPT ![i] = [cache[i] EXCEPT !.fresh = FALSE]]
      /\ UNCHANGED <<flat, source, writes, caller, history>>
  BY DEF Age, Fresh, CacheInv, TypeOK
<1> DEFINE aged == [cache[i] EXCEPT !.fresh = FALSE]
<1>2. aged \in Entry /\ aged.version = cache[i].version
  BY <1>1 DEF Entry
<1> HIDE DEF aged
<1>3. cache' \in [Resource -> Entry \cup {None}]
      /\ \A j \in Resource : cache'[j] = IF j = i THEN aged ELSE cache[j]
  BY <1>1, <1>2 DEF aged, CacheInv, TypeOK
<1>4. cache[i] # None
  BY <1>1, NoneIsNothing
<1>5. CacheKeepsUp' /\ TypeOK' /\ Ordered'
  BY <1>1, <1>2, <1>3, <1>4 DEF CacheInv, CacheKeepsUp, TypeOK, Ordered
<1> QED
  BY <1>1, <1>5 DEF CacheInv

(* What is put is no older than what was told, unless it straggles. *)
LEMMA PutKeeps ==
  ASSUME CacheInv, NEW c \in Caller, Put(c)
  PROVE  CacheInv'
<1> DEFINE me == caller[c]
           next == [me EXCEPT !.pc = "pruning"]
<1>1. /\ me.pc = "putting" /\ me.doing \in {"read", "list", "edit", "refresh"}
      /\ me \in Locals /\ cache' = Stored(me.got) /\ UNCHANGED <<flat, source, writes>>
      /\ \A i \in Resource : me.got[i] # None => /\ me.got[i] \in Snapshot
                                                 /\ me.got[i].version \in 0..MaxWrites
                                                 /\ me.got[i].version \in Nat
  BY Mine, VersionsAreNumbers DEF Put, Shape
<1>2. /\ floor' \in [Resource -> 0..MaxWrites] /\ straggles' \in [Resource -> BOOLEAN]
      /\ Ordered'
      /\ \A j \in Resource : me.got[j] = None => floor'[j] = floor[j] /\ straggles'[j] = straggles[j]
      /\ \A d \in Caller : Carries(caller[d], source', floor', straggles')
  <2>1. CASE me.doing = "edit"
    <3> DEFINE i == me.id
               version == me.got[i].version
    <3>1. /\ i \in Resource /\ me.got[i] # None /\ version \in 0..MaxWrites
          /\ version <= source[i].version /\ Told(i, version)
      BY <1>1, <2>1, Mine DEF Put, Shape, Carries
    <3> HIDE DEF i, version
    <3>2. /\ floor' \in [Resource -> 0..MaxWrites] /\ straggles' \in [Resource -> BOOLEAN]
          /\ Ordered'
          /\ \A j \in Resource : j # i => floor'[j] = floor[j] /\ straggles'[j] = straggles[j]
          /\ \A d \in Caller : Carries(caller[d], source', floor', straggles')
      BY <1>1, <3>1, ToldMoves
    <3> QED
      BY <3>1, <3>2
  <2>2. CASE me.doing # "edit"
    <3>1. UNCHANGED <<floor, straggles, source, writes>>
      BY <2>2 DEF Put
    <3> QED
      BY <3>1 DEF CacheInv, TypeOK, Ordered
  <2> QED
    BY <2>1, <2>2
<1>3. \A i \in Resource : cache'[i] = IF me.got[i] = None THEN cache[i]
        ELSE [version |-> me.got[i].version, full |-> me.got[i].full, fresh |-> TRUE]
  BY <1>1 DEF Stored
<1>4. \A i \in Resource : me.got[i] # None =>
        [version |-> me.got[i].version, full |-> me.got[i].full, fresh |-> TRUE] \in Entry
  BY <1>1, VersionsAreNumbers DEF Entry
<1>5. cache' \in [Resource -> Entry \cup {None}]
  BY <1>1, <1>4 DEF Stored, CacheInv, TypeOK
<1>6. CacheKeepsUp'
  <2> SUFFICES ASSUME NEW i \in Resource, cache'[i] # None, ~ straggles'[i]
               PROVE  cache'[i].version >= floor'[i]
    BY DEF CacheKeepsUp
  <2>1. CASE me.got[i] = None
    BY <1>2, <1>3, <2>1 DEF CacheInv, CacheKeepsUp
  <2>2. CASE me.got[i] # None
    <3>1. cache'[i].version = me.got[i].version
      <4> HIDE DEF me
      <4>1. cache'[i] = [version |-> me.got[i].version, full |-> me.got[i].full, fresh |-> TRUE]
        BY <1>3, <2>2, Zenon
      <4>2. \A v, f : [version |-> v, full |-> f, fresh |-> TRUE].version = v
        OBVIOUS
      <4> QED
        BY <4>1, <4>2, Zenon
    <3>2. me.got[i].version >= floor'[i]
      BY <1>1, <1>2, <2>2 DEF Carries
    <3> QED
      BY <3>1, <3>2
  <2> QED
    BY <2>1, <2>2
<1>7. CASE Return(c)
  BY <1>1, <1>2, <1>5, <1>6, <1>7, EndsKeeping
<1>8. CASE me.doing = "refresh" /\ Set(c, next) /\ UNCHANGED <<missed, quiet>>
  <2>1. next \in Locals /\ next.pc = "pruning" /\ next.doing = "refresh" /\ next.got = me.got
    BY <1>1, <1>8 DEF Locals
  <2>2. Carries(me, source', floor', straggles')
    BY <1>2
  <2>3. /\ flat' \in BOOLEAN /\ writes' \in 0..MaxWrites /\ quiet' \in BOOLEAN
        /\ missed' \in [Caller -> SUBSET Resource]
        /\ source' \in [Resource -> [version : 0..MaxWrites, there : BOOLEAN]]
    BY <1>1, <1>8 DEF CacheInv, TypeOK
  <2>4. me.doing = "refresh" /\ Set(c, next)
    BY <1>8
  <2> HIDE DEF next, me
  <2>5. Shape(next) /\ Carries(next, source', floor', straggles')
    BY <2>1, <2>2, <2>4 DEF Shape, Carries
  <2> QED
    BY <1>2, <1>5, <1>6, <2>1, <2>3, <2>4, <2>5, CallerMoves
<1> QED
  BY <1>7, <1>8 DEF Put

LEMMA CacheNextKeeps ==
  ASSUME CacheInv, [Next]_vars
  PROVE  CacheInv'
<1>1. ASSUME NEW c \in Caller, EndEarly(c) PROVE CacheInv'
  BY <1>1, ReturnKeeps DEF EndEarly
<1>2. ASSUME NEW c \in Caller, Serve(c) PROVE CacheInv'
  <2>1. \A i \in Resource, full \in Answers : Edit(c, i, full) => CacheInv'
    BY EditKeeps, AnswersAssumption
  <2> QED
    BY <1>1, <1>2, <2>1, ReadKeeps, DeleteKeeps, ListKeeps, PageKeeps, RefreshKeeps,
       ReadSourceKeeps, PutKeeps, DropKeeps, PruneKeeps DEF Serve
<1>3. CASE UNCHANGED vars
  BY <1>3 DEF vars, CacheInv, TypeOK, Ordered, CacheKeepsUp
<1> QED
  BY <1>2, <1>3, InvalidateKeeps, AgeKeeps, OutsideKeeps DEF Next

LEMMA CacheInvHolds == Spec => []CacheInv
<1>1. CacheInv /\ [Next]_vars => CacheInv'
  BY CacheNextKeeps
<1> QED
  BY <1>1, InitHolds, PTL DEF Spec

(* Every variable keeps its type, whatever call meets whatever other. *)
THEOREM TypeCorrect == Spec => []TypeOK
<1>1. CacheInv => TypeOK
  BY DEF CacheInv
<1> QED
  BY <1>1, CacheInvHolds, PTL

(* After an edit, a delete or a webhook the cache holds nothing older than *)
(* the write it is about, unless a call that had fetched the older one     *)
(* before puts it back (cached-connections.ts).                            *)
THEOREM CacheStaysCurrent == Spec => []CacheKeepsUp
<1>1. CacheInv => CacheKeepsUp
  BY DEF CacheInv
<1> QED
  BY <1>1, CacheInvHolds, PTL

-----------------------------------------------------------------------------
(* What a refresh under way has seen, and what it missed. *)
Watches(c) ==
    LET me == caller[c] IN
    me.doing = "refresh" =>
      /\ me.todo \subseteq Listed(me.scope)
      /\ me.pc = "pruning" => me.todo = {}
      /\ \A i \in Resource : ~ source[i].there => i \in missed[c]
      /\ \A i \in Listed(me.scope) \ me.todo : me.got[i] = None => i \in missed[c]

(* What it has seen is what is there, while nothing runs beside it. *)
Undisturbed(c) ==
    LET me == caller[c] IN
    quiet /\ me.doing = "refresh" =>
      /\ Alone(c)
      /\ \A i \in Listed(me.scope) \ me.todo :
           IF source[i].there THEN me.got[i] # None /\ me.got[i].version = source[i].version
           ELSE me.got[i] = None
      /\ me.pc = "pruning" => \A i \in Resource : me.got[i] # None =>
           cache[i] # None /\ cache[i].version = me.got[i].version

WatchInv == \A c \in Caller : Watches(c) /\ Undisturbed(c)

LEMMA ListedIsKnown ==
  ASSUME NEW scope
  PROVE  Listed(scope) \subseteq Resource
BY TopAssumption DEF Listed

(* A refresh beside which somebody moves keeps what it saw, and is no longer *)
(* undisturbed.                                                              *)
LEMMA OthersWatch ==
  ASSUME WatchInv, NEW d \in Caller, caller'[d] = caller[d], flat' = flat,
         missed[d] \subseteq missed'[d],
         caller[d].doing = "refresh" => ~ quiet',
         \A i \in Resource : caller[d].doing = "refresh" /\ ~ source'[i].there =>
              ~ source[i].there \/ i \in missed'[d]
  PROVE  Watches(d)' /\ Undisturbed(d)'
<1>1. Undisturbed(d)'
  BY DEF Undisturbed
<1>2. Watches(d)'
  BY DEF WatchInv, Watches, Listed
<1> QED
  BY <1>1, <1>2

(* Nobody refreshes undisturbed while somebody else is being served. *)
LEMMA QuietIsAlone ==
  ASSUME CacheInv, WatchInv, NEW c \in Caller, NEW d \in Caller, d # c,
         caller[d].doing = "refresh", caller[c].pc # "idle"
  PROVE  ~ quiet
BY DEF WatchInv, Undisturbed, Alone

LEMMA RefresherIsBusy ==
  ASSUME CacheInv, NEW d \in Caller, caller[d].doing = "refresh"
  PROVE  caller[d].pc # "idle"
BY Mine, IdleIsFine DEF Shape

(* A call that is being served moves, and is not, or no longer, a refresh. *)
LEMMA ServedWatch ==
  ASSUME CacheInv, WatchInv, NEW c \in Caller, NEW me, Set(c, me), me.doing # "refresh",
         caller[c].pc # "idle", flat' = flat, source' = source, quiet' => quiet,
         \A d \in Caller : d # c => missed'[d] = missed[d]
  PROVE  WatchInv'
<1>1. \A d \in Caller : caller'[d] = IF d = c THEN me ELSE caller[d]
  BY DEF Set, CacheInv, TypeOK
<1>2. ASSUME NEW d \in Caller, d # c PROVE Watches(d)' /\ Undisturbed(d)'
  <2>1. caller'[d] = caller[d] /\ missed[d] \subseteq missed'[d]
        /\ (caller[d].doing = "refresh" => ~ quiet')
    BY <1>1, <1>2, QuietIsAlone
  <2> QED
    BY <2>1, OthersWatch
<1>3. Watches(c)' /\ Undisturbed(c)'
  BY <1>1 DEF Watches, Undisturbed
<1> QED
  BY <1>2, <1>3 DEF WatchInv

LEMMA ReturnWatch ==
  ASSUME CacheInv, WatchInv, NEW c \in Caller, Return(c), caller[c].pc # "idle",
         UNCHANGED <<flat, source>>
  PROVE  WatchInv'
<1>1. Set(c, Idle) /\ (quiet' => quiet) /\ \A d \in Caller : d # c => missed'[d] = missed[d]
  BY DEF Return, CacheInv, TypeOK
<1> HIDE DEF Idle
<1> QED
  BY <1>1, IdleIsFine, ServedWatch

(* A call that begins, and is no refresh. *)
LEMMA BeginWatch ==
  ASSUME CacheInv, WatchInv, NEW c \in Caller, NEW me, Begin(c, me),
         me.doing \in {"read", "list", "edit", "remove"}, flat' = flat,
         \A d \in Caller : missed[d] \subseteq missed'[d],
         \A d \in Caller, i \in Resource : caller[d].doing = "refresh" /\ ~ source'[i].there =>
              ~ source[i].there \/ i \in missed'[d]
  PROVE  WatchInv'
<1>1. \A d \in Caller : caller'[d] = IF d = c THEN me ELSE caller[d]
  BY DEF Begin, Set, CacheInv, TypeOK
<1>2. ~ quiet'
  BY DEF Begin
<1>3. ASSUME NEW d \in Caller, d # c PROVE Watches(d)' /\ Undisturbed(d)'
  BY <1>1, <1>2, <1>3, OthersWatch
<1>4. Watches(c)' /\ Undisturbed(c)'
  BY <1>1, <1>2 DEF Watches, Undisturbed
<1> QED
  BY <1>3, <1>4 DEF WatchInv

(* What a write takes away, every refresh under way is noted to have missed. *)
LEMMA WriteNoted ==
  ASSUME CacheInv, NEW i \in Resource, NEW there \in BOOLEAN, Write(i, there)
  PROVE  /\ \A d \in Caller : missed[d] \subseteq missed'[d]
         /\ \A d \in Caller, j \in Resource : caller[d].doing = "refresh" /\ ~ source'[j].there =>
              ~ source[j].there \/ j \in missed'[d]
<1>1. \A j \in Resource : source'[j].there = IF j = i THEN there ELSE source[j].there
  BY DEF Write, CacheInv, TypeOK
<1>2. \A d \in Caller : missed'[d] = IF there \/ caller[d].doing # "refresh" THEN missed[d]
                                     ELSE missed[d] \cup {i}
  BY DEF Write
<1> QED
  BY <1>1, <1>2

-----------------------------------------------------------------------------
LEMMA RefreshWatch ==
  ASSUME CacheInv, WatchInv, NEW c \in Caller, NEW scope \in {"all", "top", "folder"},
         Refresh(c, scope)
  PROVE  WatchInv'
<1> DEFINE me == [Idle EXCEPT !.pc = "paging", !.doing = "refresh", !.scope = scope,
                              !.todo = Listed(scope)]
<1>1. /\ me.pc = "paging" /\ me.doing = "refresh" /\ me.scope = scope
      /\ me.todo = Listed(scope)
  BY IdleIsFine DEF Locals
<1>2. /\ Begin(c, me) /\ missed' = [missed EXCEPT ![c] = Resource \ There]
      /\ UNCHANGED <<flat, source, writes, cache, floor, straggles>>
  BY DEF Refresh
<1> HIDE DEF me
<1>0. Set(c, me) /\ (quiet' => Alone(c))
  BY <1>2 DEF Begin
<1>3. \A d \in Caller : caller'[d] = IF d = c THEN me ELSE caller[d]
  BY <1>0 DEF Set, CacheInv, TypeOK
<1>4. \A d \in Caller : missed'[d] = IF d = c THEN Resource \ There ELSE missed[d]
  BY <1>2 DEF CacheInv, TypeOK
<1>5. ASSUME NEW d \in Caller, d # c PROVE Watches(d)' /\ Undisturbed(d)'
  <2>1. caller[d].doing = "refresh" => ~ quiet'
    BY <1>0, <1>5, RefresherIsBusy DEF Alone
  <2> QED
    BY <1>2, <1>3, <1>4, <1>5, <2>1, OthersWatch
<1>6. Watches(c)'
  <2>1. caller'[c] = me /\ missed'[c] = Resource \ There /\ flat' = flat /\ source' = source
    BY <1>2, <1>3, <1>4
  <2>2. \A i \in Resource : ~ source'[i].there => i \in missed'[c]
    BY <2>1 DEF There
  <2> QED
    BY <1>1, <2>1, <2>2 DEF Watches, Listed
<1>7. Undisturbed(c)'
  <2>1. caller'[c] = me /\ flat' = flat
    BY <1>2, <1>3
  <2>2. quiet' => Alone(c)'
    BY <1>0, <1>3 DEF Alone
  <2> QED
    BY <1>1, <2>1, <2>2 DEF Undisturbed, Listed
<1> QED
  BY <1>5, <1>6, <1>7 DEF WatchInv

LEMMA PageWatch ==
  ASSUME CacheInv, WatchInv, NEW c \in Caller, NEW page \in SUBSET Resource, Page(c, page)
  PROVE  WatchInv'
<1> DEFINE old == caller[c]
           seen == Fetched(page, FALSE)
           got == [i \in Resource |-> IF i \in page THEN seen[i] ELSE old.got[i]]
           todo == old.todo \ page
           pages == old.pages + 1
           me == [old EXCEPT !.got = got, !.todo = todo, !.pages = pages,
                             !.pc = IF More(todo, pages) THEN "paging" ELSE "putting"]
<1>1. /\ old.pc = "paging" /\ old.doing = "refresh" /\ old \in Locals /\ page \subseteq old.todo
      /\ old.todo \subseteq Listed(old.scope) /\ Listed(old.scope) \subseteq Resource
  BY Mine, ListedIsKnown DEF Page, Shape, WatchInv, Watches
<1>2. \A i \in page : IF source[i].there
                      THEN seen[i] # None /\ seen[i].version = source[i].version
                      ELSE seen[i] = None
  BY FetchedIsCurrent DEF There
<1>3. Set(c, me) /\ UNCHANGED <<flat, source, writes, cache, floor, straggles, missed, quiet>>
  BY DEF Page
<1>4. \A i \in Resource : got[i] = IF i \in page THEN seen[i] ELSE old.got[i]
  OBVIOUS
<1> HIDE DEF got, todo, pages, seen
<1>5. /\ me.doing = "refresh" /\ me.got = got /\ me.todo = todo /\ me.scope = old.scope
      /\ me.pc \in {"paging", "putting"}
  BY <1>1 DEF Locals
<1> HIDE DEF me
<1>6. \A d \in Caller : caller'[d] = IF d = c THEN me ELSE caller[d]
  BY <1>3 DEF Set, CacheInv, TypeOK
<1>7. ASSUME NEW d \in Caller, d # c PROVE Watches(d)' /\ Undisturbed(d)'
  <2>1. caller[d].doing = "refresh" => ~ quiet'
    BY <1>1, <1>3, <1>7, QuietIsAlone
  <2> QED
    BY <1>3, <1>6, <1>7, <2>1, OthersWatch
<1>8. \A i \in Listed(old.scope) \ todo : (i \in page) \/ (i \in Listed(old.scope) \ old.todo /\ i \notin page)
  BY <1>1 DEF todo
<1>9. Watches(c)'
  <2>1. missed' = missed /\ flat' = flat
    BY <1>3
  <2>2. todo \subseteq Listed(old.scope)
    BY <1>1 DEF todo
  <2>3. \A i \in Resource : ~ source'[i].there => i \in missed'[c]
    BY <1>1, <1>3 DEF WatchInv, Watches
  <2>4. ASSUME NEW i \in Listed(old.scope) \ todo, got[i] = None PROVE i \in missed[c]
    <3>1. CASE i \in page
      BY <1>1, <1>2, <1>3, <1>4, <2>3, <2>4, <3>1
    <3>2. CASE i \in Listed(old.scope) \ old.todo /\ i \notin page
      BY <1>1, <1>4, <2>4, <3>2 DEF WatchInv, Watches
    <3> QED
      BY <1>8, <3>1, <3>2
  <2>5. caller'[c] = me /\ me.pc # "pruning"
    BY <1>5, <1>6
  <2> QED
    BY <1>5, <2>1, <2>2, <2>3, <2>4, <2>5 DEF Watches, Listed
<1>10. Undisturbed(c)'
  <2> SUFFICES ASSUME quiet'
               PROVE  /\ Alone(c)'
                      /\ \A i \in Listed(old.scope) \ todo :
                           IF source[i].there
                           THEN got[i] # None /\ got[i].version = source[i].version
                           ELSE got[i] = None
    BY <1>3, <1>5, <1>6 DEF Undisturbed, Listed
  <2>1. Alone(c)'
    BY <1>1, <1>3, <1>6 DEF WatchInv, Undisturbed, Alone
  <2>2. ASSUME NEW i \in Listed(old.scope) \ todo
        PROVE  IF source[i].there THEN got[i] # None /\ got[i].version = source[i].version
               ELSE got[i] = None
    <3>1. CASE i \in page
      BY <1>1, <1>2, <1>4, <3>1
    <3>2. CASE i \in Listed(old.scope) \ old.todo /\ i \notin page
      BY <1>1, <1>3, <1>4, <3>2 DEF WatchInv, Undisturbed
    <3> QED
      BY <1>8, <3>1, <3>2
  <2> QED
    BY <2>1, <2>2
<1> QED
  BY <1>7, <1>9, <1>10 DEF WatchInv

LEMMA PutWatch ==
  ASSUME CacheInv, WatchInv, NEW c \in Caller, Put(c)
  PROVE  WatchInv'
<1>1. caller[c].pc = "putting" /\ UNCHANGED <<flat, source, writes>>
  BY DEF Put
<1>2. CASE Return(c)
  BY <1>1, <1>2, ReturnWatch
<1>3. CASE ~ Return(c)
  <2> DEFINE old == caller[c]
             me == [old EXCEPT !.pc = "pruning"]
  <2>1. /\ old.doing = "refresh" /\ old.todo = {} /\ cache' = Stored(old.got)
        /\ Set(c, me) /\ UNCHANGED <<missed, quiet>> /\ old \in Locals
    BY <1>3, Mine DEF Put, Truncated
  <2>2. /\ me.pc = "pruning" /\ me.doing = "refresh" /\ me.todo = {} /\ me.scope = old.scope
        /\ me.got = old.got
    BY <2>1 DEF Locals
  <2> HIDE DEF me
  <2>3. \A d \in Caller : caller'[d] = IF d = c THEN me ELSE caller[d]
    BY <2>1 DEF Set, CacheInv, TypeOK
  <2>4. ASSUME NEW d \in Caller, d # c PROVE Watches(d)' /\ Undisturbed(d)'
    <3>1. caller[d].doing = "refresh" => ~ quiet'
      BY <1>1, <2>1, <2>4, QuietIsAlone
    <3> QED
      BY <1>1, <2>1, <2>3, <2>4, <3>1, OthersWatch
  <2>5. Watches(c)'
    BY <1>1, <2>1, <2>2, <2>3 DEF WatchInv, Watches, Listed
  <2>6. \A i \in Resource : old.got[i] # None =>
          cache'[i] # None /\ cache'[i].version = old.got[i].version
    <3> SUFFICES ASSUME NEW i \in Resource, old.got[i] # None
                 PROVE  cache'[i] # None /\ cache'[i].version = old.got[i].version
      OBVIOUS
    <3> DEFINE new == [version |-> old.got[i].version, full |-> old.got[i].full, fresh |-> TRUE]
    <3>1. old.got[i] \in Snapshot
      BY Mine
    <3>2. new \in Entry /\ new.version = old.got[i].version
      BY <3>1, VersionsAreNumbers DEF Entry
    <3>3. cache'[i] = new
      BY <2>1 DEF Stored
    <3> HIDE DEF new
    <3> QED
      BY <3>2, <3>3, NoneIsNothing
  <2>7. Undisturbed(c)'
    BY <1>1, <2>1, <2>2, <2>3, <2>6 DEF WatchInv, Undisturbed, Alone, Listed
  <2> QED
    BY <2>4, <2>5, <2>7 DEF WatchInv
<1> QED
  BY <1>2, <1>3

LEMMA ReadSourceWatch ==
  ASSUME CacheInv, WatchInv, NEW c \in Caller, ReadSource(c)
  PROVE  WatchInv'
<1> DEFINE me == [caller[c] EXCEPT !.pc = "putting", !.got = Fetched({caller[c].id}, TRUE)]
<1>1. /\ Set(c, me) /\ UNCHANGED <<flat, source, missed, quiet>> /\ caller[c].pc = "fetching"
      /\ caller[c].doing = "read" /\ caller[c] \in Locals
  BY Mine DEF ReadSource, Shape
<1>2. me.doing = "read"
  BY <1>1 DEF Locals
<1> HIDE DEF me
<1> QED
  BY <1>1, <1>2, ServedWatch

LEMMA WrittenWatch ==
  ASSUME CacheInv, WatchInv, NEW c \in Caller, NEW i \in Resource, NEW there \in BOOLEAN,
         Write(i, there), NEW me, Begin(c, me), me.doing \in {"edit", "remove"}, flat' = flat
  PROVE  WatchInv'
BY WriteNoted, BeginWatch

(* Calls that begin and change nothing but themselves, and the writes. *)
LEMMA BeginnersWatch ==
  ASSUME CacheInv, WatchInv, NEW c \in Caller,
         \/ \E i \in Resource : Read(c, i) \/ Delete(c, i)
         \/ \E i \in Resource, full \in BOOLEAN : Edit(c, i, full)
         \/ \E page \in SUBSET Resource : List(c, page)
  PROVE  WatchInv'
<1>1. ASSUME NEW i \in Resource, Read(c, i) PROVE WatchInv'
  <2> DEFINE me == [Idle EXCEPT !.pc = "fetching", !.doing = "read", !.id = i]
  <2>1. me.doing = "read"
    BY IdleIsFine DEF Locals
  <2>2. Begin(c, me) /\ UNCHANGED <<flat, source, missed>>
    BY <1>1 DEF Read
  <2> HIDE DEF me
  <2> QED
    BY <2>1, <2>2, BeginWatch
<1>2. ASSUME NEW page \in SUBSET Resource, List(c, page) PROVE WatchInv'
  <2> DEFINE me == [Idle EXCEPT !.pc = "putting", !.doing = "list", !.got = Fetched(page, FALSE)]
  <2>1. me.doing = "list"
    BY IdleIsFine DEF Locals
  <2>2. Begin(c, me) /\ UNCHANGED <<flat, source, missed>>
    BY <1>2 DEF List
  <2> HIDE DEF me
  <2> QED
    BY <2>1, <2>2, BeginWatch
<1>3. ASSUME NEW i \in Resource, Delete(c, i) PROVE WatchInv'
  <2> DEFINE me == [Idle EXCEPT !.pc = "dropping", !.doing = "remove", !.id = i,
                      !.got = One(i, [version |-> writes + 1, full |-> FALSE])]
  <2>1. me.doing = "remove"
    BY IdleIsFine DEF Locals
  <2>2. Begin(c, me) /\ flat' = flat /\ Write(i, FALSE)
    BY <1>3 DEF Delete
  <2> HIDE DEF me
  <2> QED
    BY <2>1, <2>2, WrittenWatch
<1>4. ASSUME NEW i \in Resource, NEW full \in BOOLEAN, Edit(c, i, full) PROVE WatchInv'
  <2> DEFINE me == [Idle EXCEPT !.pc = "putting", !.doing = "edit", !.id = i,
                      !.got = One(i, [version |-> writes + 1, full |-> full])]
  <2>1. me.doing = "edit"
    BY IdleIsFine DEF Locals
  <2>2. Begin(c, me) /\ flat' = flat /\ Write(i, TRUE)
    BY <1>4 DEF Edit
  <2> HIDE DEF me
  <2> QED
    BY <2>1, <2>2, WrittenWatch
<1> QED
  BY <1>1, <1>2, <1>3, <1>4

LEMMA AgeWatch ==
  ASSUME CacheInv, WatchInv, NEW i \in Resource, Age(i)
  PROVE  WatchInv'
<1>1. /\ cache[i] \in Entry /\ cache' = [cache EXCEPT ![i] = [cache[i] EXCEPT !.fresh = FALSE]]
      /\ UNCHANGED <<flat, source, caller, missed, quiet>>
  BY DEF Age, Fresh, CacheInv, TypeOK
<1> DEFINE aged == [cache[i] EXCEPT !.fresh = FALSE]
<1>2. aged \in Entry /\ aged.version = cache[i].version
  BY <1>1 DEF Entry
<1> HIDE DEF aged
<1>3. \A j \in Resource : cache'[j] = IF j = i THEN aged ELSE cache[j]
  BY <1>1 DEF aged, CacheInv, TypeOK
<1>4. \A j \in Resource : cache[j] # None => cache'[j] # None /\ cache'[j].version = cache[j].version
  BY <1>2, <1>3, NoneIsNothing
<1>5. ASSUME NEW c \in Caller PROVE Watches(c)' /\ Undisturbed(c)'
  <2>1. Watches(c)'
    BY <1>1 DEF WatchInv, Watches, Listed
  <2>2. Undisturbed(c)'
    BY <1>1, <1>4 DEF WatchInv, Undisturbed, Listed, Alone
  <2> QED
    BY <2>1, <2>2
<1> QED
  BY <1>5 DEF WatchInv

LEMMA OutsidersWatch ==
  ASSUME CacheInv, WatchInv, NEW i \in Resource,
         Invalidate(i) \/ \E there \in BOOLEAN : Outside(i, there)
  PROVE  WatchInv'
<1>1. CASE Invalidate(i)
  BY <1>1, OthersWatch DEF Invalidate, WatchInv
<1>2. ASSUME NEW there \in BOOLEAN, Outside(i, there) PROVE WatchInv'
  BY <1>2, WriteNoted, OthersWatch DEF Outside, WatchInv
<1> QED
  BY <1>1, <1>2

LEMMA WatchNextKeeps ==
  ASSUME CacheInv, WatchInv, [Next]_vars
  PROVE  WatchInv'
<1>1. ASSUME NEW c \in Caller, Drop(c) \/ Prune(c) \/ EndEarly(c) PROVE WatchInv'
  <2>1. Return(c) /\ UNCHANGED <<flat, source>> /\ caller[c].pc # "idle"
    BY <1>1 DEF Drop, Prune, EndEarly
  <2> QED
    BY <2>1, ReturnWatch
<1>2. ASSUME NEW c \in Caller, Serve(c) PROVE WatchInv'
  <2>1. \A i \in Resource, full \in Answers : Edit(c, i, full) => WatchInv'
    BY BeginnersWatch, AnswersAssumption
  <2> QED
    BY <1>1, <1>2, <2>1, BeginnersWatch, PageWatch, RefreshWatch, ReadSourceWatch, PutWatch
       DEF Serve
<1>3. CASE UNCHANGED vars
  BY <1>3 DEF vars, WatchInv, Watches, Undisturbed, Alone, Listed
<1> QED
  BY <1>2, <1>3, OutsidersWatch, AgeWatch DEF Next

(* A refresh prunes only what was away at some time while it listed, but   *)
(* for the top level of a hierarchy; and one that saw everything and had   *)
(* everything to itself leaves the cache as the source is (refresh).       *)
THEOREM RefreshesAreHonest == Spec => RefreshIsHonest
<1>1. Init => WatchInv
  BY IdleIsFine DEF Init, WatchInv, Watches, Undisturbed
<1>2. CacheInv /\ WatchInv /\ [Next]_vars => WatchInv'
  BY WatchNextKeeps
<1>3. ASSUME CacheInv, WatchInv, NEW c \in Caller, Prune(c)
      PROVE  /\ \A i \in Resource :
                  cache[i] # None /\ cache'[i] = None =>
                  i \in missed[c] \/ (caller[c].scope = "all" /\ i \notin Listed("all"))
             /\ quiet =>
                  \A i \in Listed(caller[c].scope) \cap Pruned(caller[c].scope) :
                    IF i \in There
                    THEN cache'[i] # None /\ cache'[i].version = source[i].version
                    ELSE cache'[i] = None
  <2> DEFINE me == caller[c]
  <2>1. /\ me.pc = "pruning" /\ me.doing = "refresh" /\ me.todo = {} /\ me \in Locals
        /\ Listed(me.scope) \subseteq Resource
    BY <1>3, Mine, ListedIsKnown DEF Prune, Shape, WatchInv, Watches
  <2>2. \A i \in Resource : cache'[i] = IF i \in Pruned(me.scope) /\ me.got[i] = None THEN None
                                        ELSE cache[i]
    BY <1>3 DEF Prune, Without, Vanished, Seen
  <2>3. \A i \in Listed(me.scope) : me.got[i] = None => i \in missed[c]
    BY <1>3, <2>1 DEF WatchInv, Watches
  <2>4. ASSUME NEW i \in Pruned(me.scope), i \notin Listed(me.scope)
        PROVE  me.scope = "all" /\ i \notin Listed("all")
    BY <2>1, <2>4, TopAssumption DEF Pruned, Listed, Locals
  <2>5. ASSUME quiet, NEW i \in Listed(me.scope) \cap Pruned(me.scope)
        PROVE  IF i \in There THEN cache'[i] # None /\ cache'[i].version = source[i].version
               ELSE cache'[i] = None
    <3>1. IF source[i].there THEN me.got[i] # None /\ me.got[i].version = source[i].version
          ELSE me.got[i] = None
      BY <1>3, <2>1, <2>5 DEF WatchInv, Undisturbed
    <3>2. me.got[i] # None => cache[i] # None /\ cache[i].version = me.got[i].version
      BY <1>3, <2>1, <2>5 DEF WatchInv, Undisturbed
    <3> QED
      BY <2>1, <2>2, <3>1, <3>2 DEF There
  <2> QED
    BY <2>2, <2>3, <2>4, <2>5
<1>4. CacheInv /\ WatchInv =>
        [\A c \in Caller : Prune(c) =>
         /\ \A i \in Resource :
              cache[i] # None /\ cache'[i] = None =>
              i \in missed[c] \/ (caller[c].scope = "all" /\ i \notin Listed("all"))
         /\ quiet =>
              \A i \in Listed(caller[c].scope) \cap Pruned(caller[c].scope) :
                IF i \in There
                THEN cache'[i] # None /\ cache'[i].version = source[i].version
                ELSE cache'[i] = None]_vars
  BY <1>3
<1> QED
  BY <1>1, <1>2, <1>4, CacheInvHolds, PTL DEF Spec, RefreshIsHonest

=============================================================================
