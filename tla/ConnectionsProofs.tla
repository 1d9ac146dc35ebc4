------------------------- MODULE ConnectionsProofs -------------------------
(***************************************************************************)
(* Proofs about a connection, for any number of workers and processes and  *)
(* any bounds; and about the calls made through its connector, for every   *)
(* source, any number of callers, and any names the source gives.          *)
(***************************************************************************)
EXTENDS Connections, Connectors, SequenceTheorems, FiniteSetTheorems, NaturalsInduction, TLAPS


-----------------------------------------------------------------------------
(* The inductive invariant: a key a worker opened is the tenant's, and it   *)
(* holds one wherever it may seal.                                          *)

Holds(me) ==
    /\ me.key \in {None, dek}
    /\ me.pc \in {"sealing", "refreshing"} => me.key # None
    /\ me.doing = "connect" /\ me.pc # "idle" => me.token # None
    /\ me.doing = "call" /\ me.pc \in {"keying", "ensuring", "sealing", "refreshing"}
         => me.token # None
    /\ me.pc = "creating" => me.doing = "connect"
    /\ me.pc = "reading" => me.doing = "call"
    /\ me.pc \in {"keying", "ensuring"} => me.doing \in {"connect", "call", "bring"}
    /\ me.pc = "refreshing" => me.doing = "call"
    /\ me.pc = "sealing" => me.doing \in {"connect", "call", "bring"}

KeysHeld == \A w \in Worker : Holds(worker[w])

IInv == TypeOK /\ OneDataKey /\ SecretGoesWithRow /\ KeysHeld

LEMMA IdleIsFine == Idle \in Locals /\ Holds(Idle) /\ Idle.pc = "idle"
BY DEF Idle, Locals, Holds

(* The locals of a worker, field by field. *)
LEMMA LocalsOf ==
  ASSUME TypeOK, NEW w \in Worker
  PROVE  /\ worker[w] \in Locals
         /\ worker[w].token \in Token \cup {None}
         /\ worker[w].key \in Worker \cup {None}
         /\ worker[w].under \in Worker \cup {None}
BY DEF TypeOK, Locals

(* Replacing the locals of one worker while the data key stays. *)
LEMMA SetKeeps ==
  ASSUME TypeOK, KeysHeld, NEW w \in Worker, NEW me \in Locals, Holds(me), Set(w, me),
         dek' = dek
  PROVE  worker' \in [Worker -> Locals] /\ KeysHeld'
<1>1. worker' = [worker EXCEPT ![w] = me]
  BY DEF Set
<1>2. worker' \in [Worker -> Locals]
  BY <1>1 DEF TypeOK
<1>3. \A v \in Worker : worker'[v] = IF v = w THEN me ELSE worker[v]
  BY <1>1 DEF TypeOK
<1>4. ASSUME NEW v \in Worker PROVE Holds(worker'[v])
  BY <1>3, Zenon DEF KeysHeld
<1>5. QED
  BY <1>2, <1>4 DEF KeysHeld, Holds

LEMMA ReturnKeeps ==
  ASSUME TypeOK, KeysHeld, NEW w \in Worker, Return(w), dek' = dek
  PROVE  worker' \in [Worker -> Locals] /\ KeysHeld'
BY IdleIsFine, SetKeeps DEF Return

(* Going somewhere that asks for nothing more than the worker has. *)
LEMMA GotoKeeps ==
  ASSUME TypeOK, KeysHeld, NEW w \in Worker, dek' = dek,
         NEW pc \in {"keying", "ensuring", "undoing", "downgrading", "calling"},
         worker[w].pc # "idle", pc = "keying" => worker[w].pc = "creating",
         pc = "ensuring" => worker[w].pc = "keying",
         Goto(w, pc)
  PROVE  worker' \in [Worker -> Locals] /\ KeysHeld'
<1> DEFINE me == [worker[w] EXCEPT !.pc = pc]
<1>1. worker[w] \in Locals /\ Holds(worker[w])
  BY LocalsOf DEF KeysHeld
<1>2. /\ me \in Locals /\ me.pc = pc /\ me.key = worker[w].key
      /\ me.doing = worker[w].doing /\ me.token = worker[w].token
  BY <1>1, Zenon DEF Locals
<1>3. Set(w, me)
  BY Zenon DEF Goto
<1> HIDE DEF me
<1>4. Holds(me)
  BY <1>1, <1>2 DEF Holds
<1>5. QED
  BY <1>2, <1>3, <1>4, SetKeeps

(* A worker that starts. *)
LEMMA BeginKeeps ==
  ASSUME TypeOK, KeysHeld, NEW w \in Worker, dek' = dek,
         NEW doing \in {"connect", "call", "bring", "disconnect"},
         NEW pc \in {"creating", "keying", "reading", "removing"},
         NEW token \in Token \cup {None},
         doing = "connect" => token # None,
         pc = "keying" => doing = "bring", pc = "creating" => doing = "connect",
         pc = "reading" => doing = "call", Begin(w, doing, pc, token)
  PROVE  worker' \in [Worker -> Locals] /\ KeysHeld'
<1> DEFINE me == [Idle EXCEPT !.pc = pc, !.doing = doing, !.token = token]
<1>1. Idle \in Locals /\ Idle.key = None
  BY IdleIsFine DEF Idle
<1>2. /\ me \in Locals /\ me.pc = pc /\ me.doing = doing /\ me.token = token
      /\ me.key = None
  BY <1>1, Zenon DEF Locals
<1>3. Set(w, me)
  BY Zenon DEF Begin
<1> HIDE DEF me
<1>4. Holds(me)
  BY <1>2 DEF Holds
<1>5. QED
  BY <1>2, <1>3, <1>4, SetKeeps

-----------------------------------------------------------------------------
(* Onboarding and the data key *)

LEMMA ConnectKeeps ==
  ASSUME IInv, NEW w \in Worker, NEW refreshable \in BOOLEAN, Connect(w, refreshable)
  PROVE  IInv'
<1> DEFINE n == issued + 1
           r == IF refreshable THEN n ELSE 0
           token == [access |-> n, refresh |-> r]
<1>1. n \in 1..MaxTokens /\ r \in 0..MaxTokens
  BY BoundAssumption DEF IInv, TypeOK, Connect
<1> HIDE DEF n, r
<1>2. token \in Token /\ token # None
  BY <1>1, NoneAssumption DEF Token
<1>3. token.access = n /\ token.refresh = r
  OBVIOUS
<1> HIDE DEF token
<1>4. /\ Begin(w, "connect", "creating", token)
      /\ issued' = n /\ live' = live \cup {token.access} /\ honoured' = token.refresh
      /\ UNCHANGED <<row, sealed, tenant, rotates, counters>>
  BY Zenon DEF Connect, token, n, r
<1>5. worker' \in [Worker -> Locals] /\ KeysHeld'
  BY <1>2, <1>4, BeginKeeps DEF IInv, tenant
<1>6. live' \subseteq 1..MaxTokens /\ honoured' \in 0..MaxTokens /\ issued' \in 0..MaxTokens
  BY <1>1, <1>3, <1>4 DEF IInv, TypeOK
<1>7. QED
  BY <1>4, <1>5, <1>6 DEF IInv, TypeOK, OneDataKey, SecretGoesWithRow, RowExists,
     tenant, counters

(* A step that touches only a worker. *)
LEMMA WorkerOnlyKeeps ==
  ASSUME IInv, worker' \in [Worker -> Locals], KeysHeld',
         UNCHANGED <<row, sealed, tenant, provider, counters>>
  PROVE  IInv'
BY DEF IInv, TypeOK, OneDataKey, SecretGoesWithRow, RowExists, tenant, provider, counters

LEMMA CreateRowKeeps ==
  ASSUME IInv, NEW w \in Worker, CreateRow(w)
  PROVE  IInv'
<1>1. worker' \in [Worker -> Locals] /\ KeysHeld'
  BY GotoKeeps DEF CreateRow, IInv, tenant
<1>2. QED
  BY <1>1 DEF CreateRow, IInv, TypeOK, OneDataKey, SecretGoesWithRow, RowExists,
     tenant, provider, counters

LEMMA BringKeeps ==
  ASSUME IInv, NEW w \in Worker, Bring(w)
  PROVE  IInv'
BY BeginKeeps, WorkerOnlyKeeps DEF Bring, IInv, tenant

LEMMA CallKeeps ==
  ASSUME IInv, NEW w \in Worker, Call(w)
  PROVE  IInv'
<1>1. worker' \in [Worker -> Locals] /\ KeysHeld'
  BY BeginKeeps DEF Call, IInv, tenant
<1>2. raced' \in BOOLEAN
  BY DEF Call, IInv, TypeOK
<1>3. QED
  BY <1>1, <1>2 DEF Call, IInv, TypeOK, OneDataKey, SecretGoesWithRow, RowExists,
     tenant, provider

LEMMA ReadSealedKeeps ==
  ASSUME IInv, NEW w \in Worker, ReadSealed(w)
  PROVE  IInv'
<1> DEFINE me == [worker[w] EXCEPT !.pc = "keying", !.token = sealed.token,
                                   !.under = sealed.key]
<1>1. worker[w] \in Locals /\ Holds(worker[w]) /\ worker[w].pc = "reading"
  BY LocalsOf DEF IInv, KeysHeld, ReadSealed
<1>2. Return(w) \/ (sealed # None /\ Set(w, me))
  BY Zenon DEF ReadSealed
<1>3. CASE Return(w)
  BY <1>3, ReturnKeeps, WorkerOnlyKeeps DEF ReadSealed, IInv, tenant
<1>4. CASE sealed # None /\ Set(w, me)
  <2>1. sealed.token \in Token /\ sealed.key \in Worker
    BY <1>4 DEF IInv, TypeOK, Credential
  <2>2. /\ me \in Locals /\ me.pc = "keying" /\ me.token = sealed.token
        /\ me.key = worker[w].key /\ me.doing = worker[w].doing
    BY <1>1, <2>1, Zenon DEF Locals
  <2> HIDE DEF me
  <2>3. Holds(me)
    BY <1>1, <2>1, <2>2, NoneAssumption DEF Holds
  <2>4. QED
    BY <1>4, <2>2, <2>3, SetKeeps, WorkerOnlyKeeps DEF ReadSealed, IInv, tenant
<1>5. QED
  BY <1>2, <1>3, <1>4

(* A worker that holds the tenant's data key, and the key it now is. *)
LEMMA KeyedIsFine ==
  ASSUME IInv, NEW w \in Worker, worker[w].pc \in {"keying", "ensuring"},
         NEW key \in Worker
  PROVE  /\ Keyed(w, key) \in Locals
         /\ Keyed(w, key).key \in {None, key}
         /\ Keyed(w, key).pc \in {"sealing", "refreshing"} => Keyed(w, key).key # None
         /\ Keyed(w, key).pc \notin {"creating", "reading", "keying", "ensuring"}
         /\ Keyed(w, key).pc = "refreshing" => Keyed(w, key).doing = "call"
         /\ Keyed(w, key).pc = "sealing" => Keyed(w, key).doing \in {"connect", "call", "bring"}
         /\ Keyed(w, key).doing \in {"connect", "call"} /\ Keyed(w, key).pc # "idle" =>
              Keyed(w, key).token # None
<1> DEFINE me == worker[w]
           To(pc) == [me EXCEPT !.pc = pc, !.key = key]
<1>1. me \in Locals /\ Holds(me)
  BY LocalsOf DEF IInv, KeysHeld
<1>2. ASSUME NEW pc \in {"sealing", "calling", "downgrading", "refreshing"}
      PROVE  /\ To(pc) \in Locals /\ To(pc).pc = pc /\ To(pc).key = key
             /\ To(pc).doing = me.doing /\ To(pc).token = me.token
  BY <1>1, Zenon DEF Locals
<1>3. key # None
  BY NoneAssumption
<1>4. /\ me.doing \in {"connect", "call", "bring"}
      /\ me.doing \in {"connect", "call"} => me.token # None
  BY <1>1 DEF Holds
<1>5. \/ me.doing # "call" /\ Keyed(w, key) = To("sealing")
      \/ Keyed(w, key) = Idle
      \/ \E pc \in {"calling", "downgrading", "refreshing"} :
           me.doing = "call" /\ Keyed(w, key) = To(pc)
  BY Zenon DEF Keyed
<1>6. CASE Keyed(w, key) = Idle
  BY <1>6, IdleIsFine DEF Idle
<1> HIDE DEF To, me
<1>7. CASE me.doing # "call" /\ Keyed(w, key) = To("sealing")
  BY <1>2, <1>3, <1>4, <1>7
<1>8. ASSUME NEW pc \in {"calling", "downgrading", "refreshing"}, me.doing = "call",
             Keyed(w, key) = To(pc)
      PROVE  /\ Keyed(w, key) \in Locals /\ Keyed(w, key).key = key
             /\ Keyed(w, key).pc = pc /\ Keyed(w, key).doing = "call"
             /\ Keyed(w, key).token # None
  BY <1>2, <1>4, <1>8
<1>9. QED
  BY <1>3, <1>5, <1>6, <1>7, <1>8

LEMMA FindKeyKeeps ==
  ASSUME IInv, NEW w \in Worker, FindKey(w)
  PROVE  IInv'
<1> DEFINE p == VaultOf(w)
           me == Keyed(w, Known(w))
<1>1. p \in Vault /\ cache[p] \in Worker \cup {None} /\ cache[p] \in {None, dek}
  BY ProcessAssumption DEF IInv, TypeOK, OneDataKey, Vault, VaultOf
<1>2. CASE NeedsKey(w)
  <2>1. Goto(w, "ensuring") /\ UNCHANGED <<row, sealed, tenant, provider, counters>>
    BY <1>2 DEF FindKey, tenant
  <2>2. QED
    BY <2>1, GotoKeeps, WorkerOnlyKeeps DEF FindKey, IInv, tenant
<1>3. CASE ~ NeedsKey(w)
  <2>1. Known(w) = dek /\ dek \in Worker
    BY <1>1, <1>3 DEF NeedsKey, Known, IInv, TypeOK
  <2>2. /\ cache' = [cache EXCEPT ![p] = dek] /\ Set(w, me)
        /\ UNCHANGED <<row, sealed, modelKey, dek, provider, counters>>
    BY <1>3, <2>1 DEF FindKey
  <2>3. me \in Locals /\ Holds(me)
    BY <2>1, KeyedIsFine DEF FindKey, Holds
  <2> HIDE DEF me
  <2>4. worker' \in [Worker -> Locals] /\ KeysHeld'
    BY <2>2, <2>3, SetKeeps DEF IInv
  <2>5. cache' \in [Vault -> Worker \cup {None}] /\ \A q \in Vault : cache'[q] \in {None, dek}
    BY <2>1, <2>2 DEF IInv, TypeOK, OneDataKey
  <2>6. QED
    BY <2>2, <2>4, <2>5 DEF IInv, TypeOK, OneDataKey, SecretGoesWithRow, RowExists,
       provider, counters
<1>4. QED
  BY <1>2, <1>3

(* Whoever mints a key at the same time, only the first is stored, and that *)
(* is the one everybody opens; nobody can hold one before.                  *)
LEMMA EnsureKeyKeeps ==
  ASSUME IInv, NEW w \in Worker, EnsureKey(w)
  PROVE  IInv'
<1> DEFINE p == VaultOf(w)
           me == Keyed(w, dek')
<1>1. dek' = Ensured(w) /\ dek' \in Worker
  BY DEF EnsureKey, Ensured, IInv, TypeOK
<1>2. dek # None => dek' = dek
  BY <1>1 DEF Ensured
<1>3. /\ cache' = [cache EXCEPT ![p] = dek'] /\ Set(w, me)
      /\ UNCHANGED <<row, sealed, modelKey, provider, counters>>
  BY <1>1 DEF EnsureKey, Effective
<1>4. /\ me \in Locals /\ me.key \in {None, dek'}
      /\ me.pc \in {"sealing", "refreshing"} => me.key # None
      /\ me.pc \notin {"creating", "reading", "keying", "ensuring"}
      /\ me.pc = "refreshing" => me.doing = "call"
      /\ me.pc = "sealing" => me.doing \in {"connect", "call", "bring"}
      /\ me.doing \in {"connect", "call"} /\ me.pc # "idle" => me.token # None
  BY <1>1, KeyedIsFine DEF EnsureKey
<1> HIDE DEF me
<1>5. \A v \in Worker : worker'[v] = IF v = w THEN me ELSE worker[v]
  BY <1>3 DEF Set, IInv, TypeOK
<1>6. worker' \in [Worker -> Locals]
  BY <1>3, <1>4 DEF Set, IInv, TypeOK
<1>7. KeysHeld'
  <2>1. ASSUME NEW v \in Worker PROVE Holds(worker[v])'
    <3>1. CASE v = w
      BY <1>4, <1>5, <3>1 DEF Holds
    <3>2. CASE v # w
      <4>1. worker'[v] = worker[v] /\ Holds(worker[v])
        BY <1>5, <3>2 DEF IInv, KeysHeld
      <4>2. QED
        BY <1>2, <4>1 DEF Holds
    <3>3. QED
      BY <3>1, <3>2
  <2>2. QED
    BY <2>1 DEF KeysHeld
<1>8. cache' \in [Vault -> Worker \cup {None}] /\ \A q \in Vault : cache'[q] \in {None, dek'}
  BY <1>1, <1>2, <1>3 DEF IInv, TypeOK, OneDataKey
<1>9. /\ sealed' # None => sealed'.key = dek'
      /\ modelKey' # None => modelKey' = dek'
  BY <1>2, <1>3, NoneAssumption DEF IInv, OneDataKey, TypeOK, Credential
<1>10. QED
  BY <1>1, <1>3, <1>6, <1>7, <1>8, <1>9
     DEF IInv, TypeOK, OneDataKey, SecretGoesWithRow, RowExists, provider, counters

-----------------------------------------------------------------------------
(* The sealed secret, the row and the calls *)

LEMMA SealKeeps ==
  ASSUME IInv, NEW w \in Worker, Seal(w)
  PROVE  IInv'
<1>1. /\ worker[w] \in Locals /\ Holds(worker[w]) /\ worker[w].pc = "sealing"
      /\ worker[w].key \in Worker /\ worker[w].key = dek
  BY LocalsOf DEF IInv, KeysHeld, Seal, Holds
<1>2. \/ Return(w) \/ Goto(w, "calling") \/ Goto(w, "undoing")
  BY Zenon DEF Seal
<1>3. worker' \in [Worker -> Locals] /\ KeysHeld'
  BY <1>1, <1>2, ReturnKeeps, GotoKeeps DEF IInv, Seal
<1>4. UNCHANGED <<row, dek, cache, provider, counters>>
  BY DEF Seal
<1>5. CASE worker[w].doing = "bring"
  <2>1. modelKey' = worker[w].key /\ UNCHANGED sealed
    BY <1>5 DEF Seal
  <2>2. QED
    BY <1>1, <1>3, <1>4, <2>1 DEF IInv, TypeOK, OneDataKey, SecretGoesWithRow, RowExists,
       provider, counters
<1>6. CASE worker[w].doing # "bring" /\ RowExists
  <2>1. sealed' = [token |-> worker[w].token, key |-> worker[w].key] /\ UNCHANGED modelKey
    BY <1>6 DEF Seal
  <2>2. worker[w].token \in Token
    BY <1>1, <1>6, LocalsOf DEF IInv, Holds
  <2>3. sealed' \in Credential /\ sealed'.key = dek
    BY <1>1, <2>1, <2>2 DEF Credential
  <2>4. QED
    BY <1>3, <1>4, <1>6, <2>1, <2>3 DEF IInv, TypeOK, OneDataKey, SecretGoesWithRow,
       RowExists, provider, counters
<1>7. CASE worker[w].doing # "bring" /\ ~ RowExists
  <2>1. UNCHANGED <<sealed, modelKey>>
    BY <1>7 DEF Seal
  <2>2. QED
    BY <1>3, <1>4, <2>1, WorkerOnlyKeeps DEF IInv, tenant
<1>8. QED
  BY <1>5, <1>6, <1>7

(* Undoing and disconnecting delete the row and what hangs on it. *)
LEMMA DeleteKeeps ==
  ASSUME IInv, NEW w \in Worker, Delete, Return(w), UNCHANGED <<tenant, provider, counters>>
  PROVE  IInv'
<1>1. worker' \in [Worker -> Locals] /\ KeysHeld'
  BY ReturnKeeps DEF IInv, tenant
<1>2. row' \in {"absent", "gone"} /\ sealed' = None
  BY DEF Delete, RowExists, IInv, TypeOK
<1>3. QED
  BY <1>1, <1>2 DEF IInv, TypeOK, OneDataKey, SecretGoesWithRow, RowExists,
     tenant, provider, counters

LEMMA RefreshKeeps ==
  ASSUME IInv, NEW w \in Worker, Refresh(w)
  PROVE  IInv'
<1> DEFINE me == worker[w]
           new == Refreshed(me.token, issued + 1)
           to == [me EXCEPT !.pc = "sealing", !.token = new]
<1>1. /\ me \in Locals /\ Holds(me) /\ me.pc = "refreshing"
      /\ me.token \in Token
  BY LocalsOf DEF IInv, KeysHeld, Refresh, Holds
<1>2. issued + 1 \in 1..MaxTokens
  BY BoundAssumption DEF Refresh, Issue, IInv, TypeOK
<1>3. new \in Token /\ new # None
  BY <1>1, <1>2, NoneAssumption DEF Refreshed, Token
<1>4. Set(w, to)
  BY Zenon DEF Refresh
<1> HIDE DEF new
<1>5. /\ to \in Locals /\ to.pc = "sealing" /\ to.token = new
      /\ to.key = me.key /\ to.doing = me.doing
  BY <1>1, <1>3, Zenon DEF Locals
<1> HIDE DEF to
<1>6. Holds(to)
  BY <1>1, <1>3, <1>5 DEF Holds
<1>7. worker' \in [Worker -> Locals] /\ KeysHeld'
  BY <1>4, <1>5, <1>6, SetKeeps DEF IInv, Refresh, tenant
<1>8. QED
  BY <1>2, <1>7 DEF Refresh, Issue, IInv, TypeOK, OneDataKey, SecretGoesWithRow,
     RowExists, tenant, counters

LEMMA RefreshUnansweredKeeps ==
  ASSUME IInv, NEW w \in Worker, RefreshUnanswered(w)
  PROVE  IInv'
<1>1. worker' \in [Worker -> Locals] /\ KeysHeld'
  BY GotoKeeps DEF RefreshUnanswered, IInv, tenant
<1>2. /\ live' \subseteq 1..MaxTokens /\ honoured' \in 0..MaxTokens
      /\ issued' \in 0..MaxTokens /\ rotates' \in BOOLEAN
  <2>1. CASE UNCHANGED provider
    BY <2>1 DEF provider, IInv, TypeOK
  <2>2. CASE Issue
    <3>1. issued + 1 \in 1..MaxTokens
      BY <2>2, BoundAssumption DEF Issue, IInv, TypeOK
    <3>2. QED
      BY <2>2, <3>1 DEF Issue, IInv, TypeOK
  <2>3. QED
    BY <2>1, <2>2 DEF RefreshUnanswered
<1>3. rejections' \in 0..MaxRejections
  BY BoundAssumption DEF RefreshUnanswered, IInv, TypeOK
<1>4. QED
  BY <1>1, <1>2, <1>3 DEF RefreshUnanswered, IInv, TypeOK, OneDataKey, SecretGoesWithRow,
     RowExists, tenant

LEMMA DowngradeKeeps ==
  ASSUME IInv, NEW w \in Worker, Downgrade(w)
  PROVE  IInv'
<1>1. worker' \in [Worker -> Locals] /\ KeysHeld'
  BY ReturnKeeps DEF Downgrade, IInv, tenant
<1>2. QED
  BY <1>1 DEF Downgrade, IInv, TypeOK, OneDataKey, SecretGoesWithRow, RowExists,
     tenant, provider, counters

LEMMA DisconnectKeeps ==
  ASSUME IInv, NEW w \in Worker, Disconnect(w)
  PROVE  IInv'
<1>1. worker' \in [Worker -> Locals] /\ KeysHeld'
  BY BeginKeeps DEF Disconnect, IInv, tenant
<1>2. QED
  BY <1>1 DEF Disconnect, IInv, TypeOK, OneDataKey, SecretGoesWithRow, RowExists,
     tenant, provider

LEMMA StoreRejectsKeeps ==
  ASSUME IInv, NEW w \in Worker, StoreRejects(w)
  PROVE  IInv'
<1>1. Return(w) \/ Goto(w, "undoing")
  BY Zenon DEF StoreRejects, Rejected, Return, Goto
<1>2. worker' \in [Worker -> Locals] /\ KeysHeld'
  BY <1>1, ReturnKeeps, GotoKeeps DEF IInv, StoreRejects, tenant
<1>3. rejections' \in 0..MaxRejections
  BY BoundAssumption DEF StoreRejects, IInv, TypeOK
<1>4. QED
  BY <1>2, <1>3 DEF StoreRejects, IInv, TypeOK, OneDataKey, SecretGoesWithRow,
     RowExists, tenant, provider

LEMMA CrashKeeps ==
  ASSUME IInv, NEW p \in Process, Crash(p)
  PROVE  IInv'
<1>1. \A w \in Worker : worker'[w] \in {Idle, worker[w]}
  BY DEF Crash
<1>2. worker' \in [Worker -> Locals]
  BY IdleIsFine DEF Crash, IInv, TypeOK
<1>3. KeysHeld'
  <2>1. ASSUME NEW w \in Worker PROVE Holds(worker[w])'
    <3>1. Holds(Idle) /\ Holds(worker[w]) /\ dek' = dek
      BY IdleIsFine DEF IInv, KeysHeld, Crash
    <3>2. Holds(worker'[w])
      BY <1>1, <3>1
    <3>3. QED
      BY <3>1, <3>2 DEF Holds
  <2>2. QED
    BY <2>1 DEF KeysHeld
<1>4. crashes' \in 0..MaxCrashes
  BY BoundAssumption DEF Crash, IInv, TypeOK
<1>5. cache' \in [Vault -> Worker \cup {None}] /\ \A q \in Vault : cache'[q] \in {None, dek}
  BY DEF Crash, IInv, TypeOK, OneDataKey
<1>6. QED
  BY <1>2, <1>3, <1>4, <1>5 DEF Crash, IInv, TypeOK, OneDataKey, SecretGoesWithRow,
     RowExists, provider

-----------------------------------------------------------------------------
LEMMA InitInv == Init => IInv
<1> SUFFICES ASSUME Init PROVE IInv
  OBVIOUS
<1>1. TypeOK
  <2>1. worker \in [Worker -> Locals] /\ cache \in [Vault -> Worker \cup {None}]
    BY IdleIsFine DEF Init
  <2>2. 0 \in 0..MaxTokens /\ 0 \in 0..MaxRejections /\ 0 \in 0..MaxCrashes
    BY BoundAssumption
  <2>3. QED
    BY <2>1, <2>2 DEF Init, TypeOK
<1>2. KeysHeld
  BY IdleIsFine DEF Init, KeysHeld
<1>3. QED
  BY <1>1, <1>2 DEF Init, IInv, OneDataKey, SecretGoesWithRow, RowExists

LEMMA ServeKeeps ==
  ASSUME IInv, NEW w \in Worker, Serve(w)
  PROVE  IInv'
<1>1. CASE \E refreshable \in BOOLEAN : Connect(w, refreshable)
  BY <1>1, ConnectKeeps
<1>2. CASE CreateRow(w) \/ Bring(w) \/ Call(w) \/ ReadSealed(w)
  BY <1>2, CreateRowKeeps, BringKeeps, CallKeeps, ReadSealedKeeps
<1>3. CASE FindKey(w) \/ EnsureKey(w) \/ Seal(w)
  BY <1>3, FindKeyKeeps, EnsureKeyKeeps, SealKeeps
<1>4. CASE Undo(w) \/ RemoveRow(w)
  BY <1>4, DeleteKeeps DEF Undo, RemoveRow
<1>5. CASE Refresh(w) \/ RefreshUnanswered(w) \/ Downgrade(w)
  BY <1>5, RefreshKeeps, RefreshUnansweredKeeps, DowngradeKeeps
<1>6. CASE RefreshRefused(w)
  BY <1>6, GotoKeeps, WorkerOnlyKeeps DEF RefreshRefused, IInv, tenant
<1>7. CASE CallSource(w)
  BY <1>7, ReturnKeeps, WorkerOnlyKeeps DEF CallSource, IInv, tenant
<1>8. CASE Disconnect(w) \/ StoreRejects(w)
  BY <1>8, DisconnectKeeps, StoreRejectsKeeps
<1>9. QED
  BY <1>1, <1>2, <1>3, <1>4, <1>5, <1>6, <1>7, <1>8 DEF Serve

LEMMA NextInv == IInv /\ [Next]_vars => IInv'
<1> SUFFICES ASSUME IInv, [Next]_vars PROVE IInv'
  OBVIOUS
<1>1. CASE \E w \in Worker : Serve(w)
  BY <1>1, ServeKeeps
<1>2. CASE Withdraw \/ \E t \in 1..MaxTokens : Expire(t)
  <2>1. /\ UNCHANGED <<row, sealed, tenant, issued, rotates, worker, counters>>
        /\ live' \subseteq live /\ honoured' \in {0, honoured}
    BY <1>2 DEF Withdraw, Expire
  <2>2. 0 \in 0..MaxTokens
    BY BoundAssumption
  <2>3. TypeOK'
    BY <2>1, <2>2 DEF IInv, TypeOK, tenant, counters
  <2>4. KeysHeld'
    BY <2>1 DEF IInv, KeysHeld, Holds, tenant
  <2>5. QED
    BY <2>1, <2>3, <2>4 DEF IInv, OneDataKey, SecretGoesWithRow, RowExists, tenant
<1>3. CASE \E p \in Process : Crash(p)
  BY <1>3, CrashKeeps
<1>4. CASE UNCHANGED vars
  BY <1>4 DEF vars, IInv, TypeOK, OneDataKey, SecretGoesWithRow, RowExists, KeysHeld,
     Holds, tenant, provider, counters
<1>5. QED
  BY <1>1, <1>2, <1>3, <1>4 DEF Next

LEMMA Invariance == Spec => []IInv
BY InitInv, NextInv, PTL DEF Spec

(* Type correctness, for any number of calls and processes. *)
THEOREM TypeCorrect == Spec => []TypeOK
<1>1. IInv => TypeOK
  BY DEF IInv
<1>2. QED
  BY <1>1, Invariance, PTL

(* One data key per tenant: however many processes mint one at the same     *)
(* time, every stored secret can be opened with the key that is stored.     *)
THEOREM SecretsAreReadable == Spec => []OneDataKey
<1>1. IInv => OneDataKey
  BY DEF IInv
<1>2. QED
  BY <1>1, Invariance, PTL

(* A secret never outlives its connection, whatever was under way when it   *)
(* was disconnected.                                                        *)
THEOREM SecretsGoWithRows == Spec => []SecretGoesWithRow
<1>1. IInv => SecretGoesWithRow
  BY DEF IInv
<1>2. QED
  BY <1>1, Invariance, PTL


-----------------------------------------------------------------------------
(* A connection can do what it looks like it can.  A worker that connects   *)
(* is alone with its token until that is stored; a worker that refreshed    *)
(* holds what the provider honours, and with a provider that rotates nobody *)
(* else does until that is stored.                                          *)

StagesMatch(me) ==
    /\ me.pc = "idle" => me.doing = "nothing"
    /\ me.doing = "connect" => me.pc \in {"creating", "keying", "ensuring", "sealing", "undoing"}
    /\ me.pc = "undoing" => me.doing = "connect"
    /\ me.pc = "creating" => row = "absent"
    /\ me.pc = "undoing" => rejections > 0 \/ ~ RowExists
    /\ me.doing = "call" => row # "absent"
    /\ me.pc = "refreshing" => me.token.refresh # 0

ConnectsAlone ==
    \A w \in Worker : worker[w].doing = "connect" =>
      /\ sealed = None
      /\ \A u \in Worker : /\ worker[u].doing = "connect" => u = w
                           /\ worker[u].doing = "call" => worker[u].pc = "reading"

TokensIssued ==
    /\ sealed # None => sealed.token.refresh <= issued
    /\ \A w \in Worker : worker[w].token # None => worker[w].token.refresh <= issued

Stores(me) == me.doing = "call" /\ me.pc = "sealing"

HonouredIsHeld ==
    rejections = 0 /\ crashes = 0 /\ honoured # 0 =>
      /\ \A w \in Worker : worker[w].doing = "connect" \/ Stores(worker[w]) =>
           worker[w].token.refresh = honoured
      /\ sealed # None /\ sealed.token.refresh # honoured =>
           \E w \in Worker : Stores(worker[w])
      /\ \A w \in Worker : rotates /\ Stores(worker[w]) =>
           /\ sealed # None => sealed.token.refresh # honoured
           /\ \A u \in Worker : u # w /\ worker[u].doing = "call" /\ worker[u].token # None =>
                worker[u].token.refresh # honoured

WorkInv ==
    /\ \A w \in Worker : StagesMatch(worker[w])
    /\ ConnectsAlone /\ TokensIssued /\ ConnectedHasCredential /\ HonouredIsHeld

-----------------------------------------------------------------------------
LEMMA InNat ==
  ASSUME IInv
  PROVE  issued \in Nat /\ honoured \in Nat /\ rejections \in Nat /\ crashes \in Nat
BY BoundAssumption DEF IInv, TypeOK

(* What a secret and a held token say. *)
LEMMA TokensOf ==
  ASSUME IInv
  PROVE  /\ sealed # None => sealed.token \in Token
         /\ \A w \in Worker : worker[w].token # None => worker[w].token \in Token
<1>1. ASSUME sealed # None PROVE sealed.token \in Token
  <2>1. sealed \in Credential
    BY <1>1 DEF IInv, TypeOK
  <2>2. QED
    BY <2>1 DEF Credential
<1>2. ASSUME NEW w \in Worker, worker[w].token # None PROVE worker[w].token \in Token
  BY <1>2, LocalsOf DEF IInv
<1>3. QED
  BY <1>1, <1>2

(* One worker moves on and takes on no new duty: nobody stores a refreshed  *)
(* token who did not, and nobody stops doing so unseen.                     *)
LEMMA QuietKeeps ==
  ASSUME IInv, IInv', WorkInv, NEW w \in Worker, NEW me \in Locals, Set(w, me),
         row = "absent" <=> row' = "absent", RowExists' => RowExists,
         sealed' = sealed \/ (sealed' = None /\ (~ RowExists' \/ forgotten')),
         \/ UNCHANGED provider
         \/ rejections' > 0 /\ issued <= issued',
         forgotten => forgotten', rejections <= rejections', crashes' = crashes,
         StagesMatch(me)',
         me.doing = "connect" => worker[w].doing = "connect" /\ me.token = worker[w].token,
         me.doing = "call" =>
           \/ me.pc = "reading" /\ me.token = None
           \/ /\ worker[w].doing = "call" /\ worker[w].pc # "reading"
              /\ me.token = worker[w].token
           \/ sealed # None /\ sealed' = sealed /\ me.token = sealed.token,
         \/ me.token = None \/ me.token = worker[w].token
         \/ sealed # None /\ me.token = sealed.token,
         ~ Stores(me), Stores(worker[w]) => rejections' > 0 \/ sealed' = None,
         worker[w].doing = "connect" /\ me.doing # "connect" =>
           ~ RowExists' \/ rejections' > 1
  PROVE  WorkInv'
<1> USE DEF WorkInv
<1>1. \A u \in Worker : worker'[u] = IF u = w THEN me ELSE worker[u]
  BY DEF Set, IInv, TypeOK
<1>2. /\ issued \in Nat /\ honoured \in Nat /\ rejections \in Nat /\ crashes \in Nat
      /\ rejections' \in Nat /\ issued' \in Nat
  <2>1. rejections' \in Nat /\ issued' \in Nat
    BY BoundAssumption DEF IInv, TypeOK
  <2>2. QED
    BY <2>1, InNat
<1>3. issued <= issued'
  BY <1>2 DEF provider
<1>4. \A u \in Worker : StagesMatch(worker[u])'
  <2>1. ASSUME NEW u \in Worker PROVE StagesMatch(worker[u])'
    <3>1. CASE u = w
      <4>1. worker'[u] = me
        BY <1>1, <3>1
      <4>2. QED
        BY <4>1 DEF StagesMatch
    <3>2. CASE u # w
      <4>1. worker'[u] = worker[u] /\ StagesMatch(worker[u])
        BY <1>1, <3>2
      <4>2. QED
        BY <1>2, <4>1 DEF StagesMatch
    <3>3. QED
      BY <3>1, <3>2
  <2>2. QED
    BY <2>1
<1>5. ConnectsAlone'
  <2>1. ASSUME NEW v \in Worker, worker'[v].doing = "connect"
        PROVE  /\ sealed' = None
               /\ \A u \in Worker : /\ worker'[u].doing = "connect" => u = v
                                    /\ worker'[u].doing = "call" => worker'[u].pc = "reading"
    <3>1. worker[v].doing = "connect"
      BY <1>1, <2>1
    <3>2. /\ sealed = None
          /\ \A u \in Worker : /\ worker[u].doing = "connect" => u = v
                               /\ worker[u].doing = "call" => worker[u].pc = "reading"
      BY <3>1, Zenon DEF ConnectsAlone
    <3>3. QED
      BY <1>1, <3>2
  <2>2. QED
    BY <2>1, Zenon DEF ConnectsAlone
<1>6. TokensIssued'
  <2>1. /\ sealed # None => sealed.token \in Token
        /\ \A u \in Worker : worker[u].token # None => worker[u].token \in Token
    BY TokensOf
  <2>2. \A t \in Token : t.refresh \in Nat
    BY BoundAssumption DEF Token
  <2>3. sealed' # None => sealed'.token.refresh <= issued'
    BY <1>2, <1>3, <2>1, <2>2 DEF TokensIssued
  <2>4. ASSUME NEW u \in Worker, worker'[u].token # None
        PROVE  worker'[u].token.refresh <= issued'
    <3>1. \/ sealed # None /\ worker'[u].token = sealed.token
          \/ worker[u].token # None /\ worker'[u].token = worker[u].token
      BY <1>1, <2>4
    <3>2. worker'[u].token \in Token /\ worker'[u].token.refresh <= issued
      BY <2>1, <3>1 DEF TokensIssued
    <3>3. QED
      BY <1>2, <1>3, <2>2, <3>2
  <2>5. QED
    BY <2>3, <2>4 DEF TokensIssued
<1>7. ConnectedHasCredential'
  <2>1. SUFFICES ASSUME RowExists', sealed' = None, ~ forgotten', ~ (crashes' > 0),
                        ~ (rejections' > 1)
                 PROVE  \E u \in Worker : worker'[u].doing = "connect"
    BY Zenon DEF ConnectedHasCredential
  <2>2. RowExists /\ sealed = None /\ ~ forgotten /\ ~ (crashes > 0) /\ ~ (rejections > 1)
    BY <1>2, <2>1
  <2>3. PICK u \in Worker : worker[u].doing = "connect"
    BY <2>2, Zenon DEF ConnectedHasCredential
  <2>4. worker'[u].doing = "connect"
    BY <1>1, <2>1, <2>3
  <2>5. QED
    BY <2>4
<1>8. HonouredIsHeld'
  <2>1. SUFFICES ASSUME rejections' = 0, crashes' = 0, honoured' # 0
                 PROVE  HonouredIsHeld'
    BY Zenon DEF HonouredIsHeld
  <2>2. /\ rejections = 0 /\ crashes = 0 /\ honoured # 0
        /\ honoured' = honoured /\ rotates' = rotates
    BY <1>2, <2>1 DEF provider
  <2>3. \A u \in Worker : Stores(worker'[u]) =>
          u # w /\ Stores(worker[u]) /\ worker'[u] = worker[u]
    BY <1>1
  <2>4. ASSUME NEW u \in Worker, worker'[u].doing = "connect" \/ Stores(worker'[u])
        PROVE  worker'[u].token.refresh = honoured'
    <3>1. worker[u].doing = "connect" \/ Stores(worker[u])
      BY <1>1, <2>3, <2>4
    <3>2. worker'[u].token = worker[u].token
      BY <1>1, <2>3, <2>4
    <3>3. worker[u].token.refresh = honoured
      BY <2>2, <3>1, Zenon DEF HonouredIsHeld
    <3>4. QED
      BY <2>2, <3>2, <3>3
  <2>5. ASSUME sealed' # None, sealed'.token.refresh # honoured'
        PROVE  \E u \in Worker : Stores(worker'[u])
    <3>1. sealed' = sealed
      BY <2>5
    <3>2. PICK u \in Worker : Stores(worker[u])
      BY <2>2, <2>5, <3>1, Zenon DEF HonouredIsHeld
    <3>3. u # w
      BY <2>1, <2>5, <3>2
    <3>4. worker'[u] = worker[u]
      BY <1>1, <3>3
    <3>5. QED
      BY <3>2, <3>4, Zenon
  <2>6. ASSUME NEW v \in Worker, rotates', Stores(worker'[v])
        PROVE  /\ sealed' # None => sealed'.token.refresh # honoured'
               /\ \A u \in Worker : u # v /\ worker'[u].doing = "call" /\ worker'[u].token # None =>
                    worker'[u].token.refresh # honoured'
    <3>1. /\ v # w /\ Stores(worker[v]) /\ rotates
      BY <2>2, <2>3, <2>6
    <3>2. /\ sealed # None => sealed.token.refresh # honoured
          /\ \A u \in Worker : u # v /\ worker[u].doing = "call" /\ worker[u].token # None =>
               worker[u].token.refresh # honoured
      BY <2>2, <3>1, Zenon DEF HonouredIsHeld
    <3>3. sealed' # None => sealed'.token.refresh # honoured'
      BY <2>2, <3>2
    <3>4. ASSUME NEW u \in Worker, u # v, worker'[u].doing = "call", worker'[u].token # None
          PROVE  worker'[u].token.refresh # honoured'
      BY <1>1, <2>2, <3>2, <3>4
    <3>5. QED
      BY <3>3, <3>4
  <2>7. QED
    BY <2>4, <2>5, <2>6, Zenon DEF HonouredIsHeld, Stores
<1>9. QED
  BY <1>4, <1>5, <1>6, <1>7, <1>8

(* A step of a worker, as the locals it leaves behind. *)
LEMMA GotoSets ==
  ASSUME NEW w \in Worker, worker[w] \in Locals, 
         NEW pc \in {"keying", "ensuring", "undoing", "downgrading", "calling"}, Goto(w, pc)
  PROVE  \E me \in Locals : /\ me.pc = pc /\ me.doing = worker[w].doing
                             /\ me.token = worker[w].token /\ Set(w, me)
<1> DEFINE to == [worker[w] EXCEPT !.pc = pc]
<1>1. /\ to \in Locals /\ to.pc = pc /\ to.doing = worker[w].doing
      /\ to.token = worker[w].token
  BY Zenon DEF Locals
<1>2. Set(w, to)
  BY Zenon DEF Goto
<1> HIDE DEF to
<1>3. QED
  BY <1>1, <1>2

LEMMA BeginSets ==
  ASSUME NEW w \in Worker, NEW doing \in {"connect", "call", "bring", "disconnect"},
         NEW pc \in {"creating", "keying", "reading", "removing"},
         NEW token \in Token \cup {None}, Begin(w, doing, pc, token)
  PROVE  \E me \in Locals : /\ me.pc = pc /\ me.doing = doing /\ me.token = token
                             /\ Set(w, me)
<1> DEFINE to == [Idle EXCEPT !.pc = pc, !.doing = doing, !.token = token]
<1>1. Idle \in Locals
  BY IdleIsFine
<1>2. to \in Locals /\ to.pc = pc /\ to.doing = doing /\ to.token = token
  BY <1>1, ZenonT(60) DEF Locals
<1>3. Set(w, to)
  BY Zenon DEF Begin
<1> HIDE DEF to
<1>4. QED
  BY <1>2, <1>3

(* Where a worker may go without taking on a duty: home, or one pc on.      *)
LEMMA GoesQuietly ==
  ASSUME IInv, IInv', WorkInv, NEW w \in Worker,
         NEW pc \in {"ensuring", "undoing", "downgrading", "calling"},
         worker[w].pc \notin {"idle", "creating", "reading"},
         worker[w].pc # "sealing" \/ rejections' > 0 \/ ~ RowExists,
         worker[w].pc = "undoing" => worker[w].doing = "connect",
         worker[w].doing = "connect" => pc \in {"ensuring", "undoing"},
         pc = "undoing" => worker[w].doing = "connect" /\ (rejections' > 0 \/ ~ RowExists),
         Goto(w, pc), UNCHANGED <<row, sealed>>,
         UNCHANGED provider \/ (rejections' > 0 /\ issued <= issued'),
         forgotten' = forgotten, rejections <= rejections', crashes' = crashes
  PROVE  WorkInv'
<1>1. worker[w] \in Locals /\ StagesMatch(worker[w])
  BY LocalsOf DEF IInv, WorkInv
<1>2. PICK me \in Locals : /\ me.pc = pc /\ me.doing = worker[w].doing
                           /\ me.token = worker[w].token /\ Set(w, me)
  BY <1>1, GotoSets
<1>3. Set(w, me)
  BY <1>2
<1>4. RowExists' <=> RowExists
  BY DEF RowExists
<1>5. StagesMatch(me)'
  BY <1>1, <1>2, <1>4 DEF StagesMatch
<1>6. ~ Stores(me)
  BY <1>2 DEF Stores
<1>7. ~ RowExists => sealed = None
  BY DEF IInv, SecretGoesWithRow
<1>8. Stores(worker[w]) => rejections' > 0 \/ sealed' = None
  BY <1>7 DEF Stores
<1>9. /\ row = "absent" <=> row' = "absent"
      /\ sealed' = sealed
      /\ forgotten => forgotten'
      /\ me.doing = "connect" => worker[w].doing = "connect" /\ me.token = worker[w].token
      /\ me.doing = "call" => /\ worker[w].doing = "call" /\ worker[w].pc # "reading"
                              /\ me.token = worker[w].token
      /\ worker[w].doing = "connect" => me.doing = "connect"
  BY <1>2
<1>10. QED
  BY <1>2, <1>3, <1>4, <1>5, <1>6, <1>8, <1>9, QuietKeeps, Zenon

LEMMA ReturnsQuietly ==
  ASSUME IInv, IInv', WorkInv, NEW w \in Worker, Return(w),
         row = "absent" <=> row' = "absent", RowExists' => RowExists,
         sealed' = sealed \/ (sealed' = None /\ (~ RowExists' \/ forgotten')),
         UNCHANGED provider, forgotten => forgotten', rejections <= rejections',
         crashes' = crashes, Stores(worker[w]) => rejections' > 0 \/ sealed' = None,
         worker[w].doing = "connect" => ~ RowExists' \/ rejections' > 1
  PROVE  WorkInv'
<1>1. /\ Idle \in Locals /\ Idle.pc = "idle" /\ Idle.doing = "nothing" /\ Idle.token = None
  BY IdleIsFine DEF Idle
<1>2. Set(w, Idle)
  BY DEF Return
<1>3. StagesMatch(Idle)' /\ ~ Stores(Idle)
  BY <1>1 DEF StagesMatch, Stores
<1>4. QED
  BY <1>1, <1>2, <1>3, QuietKeeps

LEMMA BeginsQuietly ==
  ASSUME IInv, IInv', WorkInv, NEW w \in Worker,
         NEW doing \in {"call", "bring", "disconnect"},
         NEW pc \in {"keying", "reading", "removing"},
         doing = "call" => pc = "reading" /\ row' # "absent",
         Begin(w, doing, pc, None),
         row' = row, sealed' = sealed \/ (sealed' = None /\ forgotten'),
         forgotten => forgotten', UNCHANGED provider, UNCHANGED <<rejections, crashes>>
  PROVE  WorkInv'
<1>1. PICK me \in Locals : /\ me.pc = pc /\ me.doing = doing /\ me.token = None
                           /\ Set(w, me)
  BY BeginSets
<1>2. me \in Locals /\ me.pc = pc /\ me.doing = doing /\ me.token = None
  BY <1>1
<1>3. Set(w, me) /\ worker[w].pc = "idle"
  BY <1>1 DEF Begin
<1>4. StagesMatch(worker[w])
  BY DEF WorkInv
<1>5. worker[w].doing = "nothing" /\ ~ Stores(worker[w])
  BY <1>3, <1>4 DEF StagesMatch, Stores
<1>6. StagesMatch(me)' /\ ~ Stores(me)
  BY <1>2 DEF StagesMatch, Stores
<1>7. (RowExists' <=> RowExists) /\ rejections <= rejections'
  BY InNat DEF RowExists
<1>8. QED
  BY <1>2, <1>3, <1>5, <1>6, <1>7, QuietKeeps

LEMMA ReadSealedWorks ==
  ASSUME IInv, IInv', WorkInv, NEW w \in Worker, ReadSealed(w)
  PROVE  WorkInv'
<1> DEFINE to == [worker[w] EXCEPT !.pc = "keying", !.token = sealed.token,
                                   !.under = sealed.key]
<1>1. /\ worker[w] \in Locals /\ worker[w].pc = "reading" /\ worker[w].doing = "call"
      /\ StagesMatch(worker[w])
  BY LocalsOf DEF IInv, KeysHeld, Holds, WorkInv, ReadSealed
<1>2. Return(w) \/ (sealed # None /\ Set(w, to))
  BY Zenon DEF ReadSealed
<1>3. /\ (RowExists' <=> RowExists) /\ rejections <= rejections'
      /\ row' = row /\ sealed' = sealed /\ UNCHANGED provider
      /\ forgotten' = forgotten /\ crashes' = crashes
  BY InNat DEF RowExists, ReadSealed, counters
<1>4. CASE Return(w)
  <2>1. ~ Stores(worker[w]) /\ worker[w].doing # "connect"
    BY <1>1 DEF Stores
  <2>2. QED
    BY <1>3, <1>4, <2>1, ReturnsQuietly, Zenon
<1>5. CASE sealed # None /\ Set(w, to)
  <2>1. sealed.token \in Token /\ sealed.key \in Worker
    BY <1>5 DEF IInv, TypeOK, Credential
  <2>2. /\ to \in Locals /\ to.pc = "keying" /\ to.token = sealed.token
        /\ to.doing = "call" /\ Set(w, to)
    BY <1>1, <1>5, <2>1, Zenon DEF Locals
  <2> HIDE DEF to
  <2>3. PICK me \in Locals : /\ me.pc = "keying" /\ me.token = sealed.token
                              /\ me.doing = "call" /\ Set(w, me)
    BY <2>2
  <2>4. StagesMatch(me)' /\ ~ Stores(me) /\ ~ Stores(worker[w])
    BY <1>1, <2>3 DEF StagesMatch, Stores, ReadSealed
  <2>5. me.doing # "connect" /\ worker[w].doing # "connect"
    BY <1>1, <2>3
  <2>6. QED
    BY <1>3, <1>5, <2>3, <2>4, <2>5, QuietKeeps, Zenon
<1>6. QED
  BY <1>2, <1>4, <1>5

(* A worker that holds the data key. *)
LEMMA KeyedGoes ==
  ASSUME IInv, WorkInv, NEW w \in Worker, worker[w].pc \in {"keying", "ensuring"},
         NEW key \in Worker
  PROVE  \/ Keyed(w, key) = Idle /\ worker[w].doing = "call"
         \/ /\ Keyed(w, key).doing = worker[w].doing
            /\ Keyed(w, key).token = worker[w].token
            /\ \/ worker[w].doing # "call" /\ Keyed(w, key).pc = "sealing"
               \/ /\ worker[w].doing = "call"
                  /\ Keyed(w, key).pc \in {"calling", "downgrading", "refreshing"}
                  /\ Keyed(w, key).pc = "refreshing" => worker[w].token.refresh # 0
<1> DEFINE me == worker[w]
           To(pc) == [me EXCEPT !.pc = pc, !.key = key]
<1>1. me \in Locals
  BY LocalsOf DEF IInv
<1>2. ASSUME NEW pc \in {"sealing", "calling", "downgrading", "refreshing"}
      PROVE  To(pc).pc = pc /\ To(pc).doing = me.doing /\ To(pc).token = me.token
  BY <1>1, Zenon DEF Locals
<1>3. \/ me.doing # "call" /\ Keyed(w, key) = To("sealing")
      \/ me.doing = "call" /\ Keyed(w, key) = Idle
      \/ me.doing = "call" /\ Keyed(w, key) = To("calling")
      \/ me.doing = "call" /\ Keyed(w, key) = To("downgrading")
      \/ me.doing = "call" /\ me.token.refresh # 0 /\ Keyed(w, key) = To("refreshing")
  BY Zenon DEF Keyed
<1> HIDE DEF To, me
<1>4. QED
  BY <1>2, <1>3 DEF me

LEMMA KeyedWorks ==
  ASSUME IInv, IInv', WorkInv, NEW w \in Worker, worker[w].pc \in {"keying", "ensuring"},
         NEW key \in Worker, Set(w, Keyed(w, key)),
         UNCHANGED <<row, sealed, provider, counters>>
  PROVE  WorkInv'
<1>1. PICK me \in Locals : me = Keyed(w, key)
  BY KeyedIsFine
<1>2. /\ \/ me = Idle /\ worker[w].doing = "call"
         \/ /\ me.doing = worker[w].doing /\ me.token = worker[w].token
            /\ \/ worker[w].doing # "call" /\ me.pc = "sealing"
               \/ /\ worker[w].doing = "call"
                  /\ me.pc \in {"calling", "downgrading", "refreshing"}
                  /\ me.pc = "refreshing" => worker[w].token.refresh # 0
      /\ Set(w, me)
  BY <1>1, KeyedGoes, Zenon
<1>3. StagesMatch(worker[w]) /\ ~ Stores(worker[w])
  BY DEF WorkInv, Stores
<1>4. Idle.pc = "idle" /\ Idle.doing = "nothing" /\ Idle.token = None
  BY DEF Idle
<1>5. /\ (RowExists' <=> RowExists) /\ rejections <= rejections'
      /\ forgotten' = forgotten /\ crashes' = crashes /\ row' = row /\ sealed' = sealed
  BY InNat DEF RowExists, counters
<1>6. StagesMatch(me)' /\ ~ Stores(me)
  BY <1>2, <1>3, <1>4, <1>5 DEF StagesMatch, Stores
<1>7. /\ me.doing = "connect" => worker[w].doing = "connect" /\ me.token = worker[w].token
      /\ me.doing = "call" => /\ worker[w].doing = "call" /\ worker[w].pc # "reading"
                              /\ me.token = worker[w].token
      /\ me.token = None \/ me.token = worker[w].token
      /\ worker[w].doing = "connect" => me.doing = "connect"
  BY <1>2, <1>4
<1>8. QED
  BY <1>1, <1>2, <1>3, <1>5, <1>6, <1>7, QuietKeeps, Zenon

-----------------------------------------------------------------------------
(* Connecting, storing and refreshing *)

LEMMA ConnectWorks ==
  ASSUME IInv, IInv', WorkInv, NEW w \in Worker, NEW refreshable \in BOOLEAN,
         Connect(w, refreshable)
  PROVE  WorkInv'
<1> DEFINE r == IF refreshable THEN issued + 1 ELSE 0
           made == [access |-> issued + 1, refresh |-> r]
<1>1. /\ Begin(w, "connect", "creating", made) /\ row = "absent"
      /\ issued' = issued + 1 /\ honoured' = made.refresh
      /\ UNCHANGED <<row, sealed>> /\ UNCHANGED <<rejections, crashes>>
      /\ \A v \in Worker : worker[v].doing # "connect"
  BY Zenon DEF Connect, counters
<1>2. made.refresh = r /\ made \in Token
  BY BoundAssumption DEF Token, Connect, IInv, TypeOK
<1> HIDE DEF made
<1>3. PICK token \in Token : token = made
  BY <1>2
<1>4. PICK me \in Locals : /\ me.pc = "creating" /\ me.doing = "connect" /\ me.token = token
                           /\ Set(w, me)
  BY <1>1, <1>3, BeginSets
<1>5. \A u \in Worker : worker'[u] = IF u = w THEN me ELSE worker[u]
  BY <1>4 DEF Set, IInv, TypeOK
<1>6. sealed = None /\ sealed' = None /\ row' = "absent"
  BY <1>1 DEF IInv, SecretGoesWithRow, RowExists
<1>7. \A u \in Worker : StagesMatch(worker[u]) /\ worker[u].doing # "call"
  BY <1>1, Zenon DEF WorkInv, StagesMatch
<1>8. \A u \in Worker : StagesMatch(worker[u])'
  <2>1. ASSUME NEW u \in Worker PROVE StagesMatch(worker[u])'
    <3>1. CASE u = w
      <4>1. worker'[u] = me
        BY <1>5, <3>1
      <4>2. QED
        BY <1>4, <1>6, <4>1 DEF StagesMatch
    <3>2. CASE u # w
      <4>1. worker'[u] = worker[u]
        BY <1>5, <3>2
      <4>2. QED
        BY <1>1, <1>7, <4>1 DEF StagesMatch, RowExists
    <3>3. QED
      BY <3>1, <3>2
  <2>2. QED
    BY <2>1
<1>9. ConnectsAlone'
  BY <1>1, <1>4, <1>5, <1>6, <1>7 DEF ConnectsAlone
<1>10. TokensIssued'
  <2>1. ASSUME NEW u \in Worker, worker'[u].token # None
        PROVE  worker'[u].token.refresh <= issued'
    <3>1. CASE u = w
      BY <1>1, <1>2, <1>3, <1>4, <1>5, <3>1, InNat
    <3>2. CASE u # w
      <4>1. /\ worker'[u].token = worker[u].token /\ worker[u].token \in Token
            /\ worker[u].token.refresh <= issued
        BY <1>5, <2>1, <3>2, TokensOf DEF WorkInv, TokensIssued
      <4>2. worker[u].token.refresh \in Nat
        BY <4>1, BoundAssumption DEF Token
      <4>3. QED
        BY <1>1, <4>1, <4>2, InNat
    <3>3. QED
      BY <3>1, <3>2
  <2>2. QED
    BY <1>6, <2>1 DEF TokensIssued
<1>11. ConnectedHasCredential'
  BY <1>6 DEF ConnectedHasCredential, RowExists
<1>12. HonouredIsHeld'
  <2>1. \A u \in Worker : ~ Stores(worker'[u]) /\ (worker'[u].doing = "connect" => u = w)
    BY <1>1, <1>4, <1>5, <1>7 DEF Stores
  <2>2. worker'[w].token.refresh = honoured'
    BY <1>1, <1>3, <1>4, <1>5
  <2>3. QED
    BY <1>6, <2>1, <2>2 DEF HonouredIsHeld, Stores
<1>13. QED
  BY <1>8, <1>9, <1>10, <1>11, <1>12 DEF WorkInv

LEMMA CreateRowWorks ==
  ASSUME IInv, IInv', WorkInv, NEW w \in Worker, CreateRow(w)
  PROVE  WorkInv'
<1>1. /\ Goto(w, "keying") /\ worker[w].pc = "creating" /\ row' = "active"
      /\ UNCHANGED <<sealed, issued, honoured, rotates, forgotten, rejections, crashes>>
  BY DEF CreateRow, provider, counters
<1>2. worker[w] \in Locals /\ worker[w].doing = "connect"
  BY <1>1, LocalsOf DEF IInv, KeysHeld, Holds
<1>3. PICK me \in Locals : /\ me.pc = "keying" /\ me.doing = worker[w].doing
                           /\ me.token = worker[w].token /\ Set(w, me)
  BY <1>1, <1>2, GotoSets
<1>4. \A u \in Worker : worker'[u] = IF u = w THEN me ELSE worker[u]
  BY <1>3 DEF Set, IInv, TypeOK
<1>5. \A u \in Worker : u # w => worker[u].doing # "connect" /\ worker[u].pc # "creating"
  <2>1. \A u \in Worker : u # w => worker[u].doing # "connect"
    BY <1>2, Zenon DEF WorkInv, ConnectsAlone
  <2>2. QED
    BY <2>1 DEF IInv, KeysHeld, Holds
<1>6. \A u \in Worker : StagesMatch(worker[u])'
  <2>1. ASSUME NEW u \in Worker PROVE StagesMatch(worker[u])'
    <3>1. CASE u = w
      <4>1. worker'[u] = me
        BY <1>4, <3>1
      <4>2. QED
        BY <1>1, <1>2, <1>3, <4>1 DEF StagesMatch
    <3>2. CASE u # w
      <4>1. worker'[u] = worker[u] /\ StagesMatch(worker[u])
        BY <1>4, <3>2 DEF WorkInv
      <4>2. QED
        BY <1>1, <1>5, <3>2, <4>1 DEF StagesMatch
    <3>3. QED
      BY <3>1, <3>2
  <2>2. QED
    BY <2>1
<1>7. ConnectsAlone'
  BY <1>1, <1>2, <1>3, <1>4, <1>5 DEF WorkInv, ConnectsAlone
<1>8. TokensIssued'
  BY <1>1, <1>3, <1>4 DEF WorkInv, TokensIssued
<1>9. ConnectedHasCredential'
  <2>1. worker'[w].doing = "connect"
    BY <1>2, <1>3, <1>4
  <2>2. QED
    BY <2>1, Zenon DEF ConnectedHasCredential
<1>10. HonouredIsHeld'
  <2>1. \A u \in Worker : (Stores(worker'[u]) <=> Stores(worker[u]))
                         /\ worker'[u].doing = worker[u].doing
                         /\ worker'[u].token = worker[u].token
    BY <1>2, <1>3, <1>4 DEF Stores
  <2>2. HonouredIsHeld
    BY DEF WorkInv
  <2>3. QED
    BY <1>1, <2>1, <2>2 DEF HonouredIsHeld, Stores
<1>11. QED
  BY <1>6, <1>7, <1>8, <1>9, <1>10 DEF WorkInv

(* A worker stores what it holds. *)
LEMMA StoreWorks ==
  ASSUME IInv, IInv', WorkInv, NEW w \in Worker, Seal(w), worker[w].doing # "bring", RowExists
  PROVE  WorkInv'
<1>1. /\ worker[w].pc = "sealing" /\ row' = row
      /\ sealed' = [token |-> worker[w].token, key |-> worker[w].key]
      /\ UNCHANGED <<issued, honoured, rotates, forgotten, rejections, crashes>>
  BY DEF Seal, provider, counters
<1>2. \/ worker[w].doing = "connect" /\ Return(w)
      \/ worker[w].doing # "connect" /\ Goto(w, "calling")
  BY Zenon DEF Seal
<1>3. /\ worker[w] \in Locals /\ worker[w].doing \in {"connect", "call"}
      /\ worker[w].token # None
  BY <1>1, LocalsOf DEF IInv, KeysHeld, Holds
<1>4. sealed' # None /\ sealed'.token = worker[w].token
  <2>1. worker[w].token \in Token /\ worker[w].key \in Worker
    BY <1>1, <1>3, LocalsOf, TokensOf DEF IInv, KeysHeld, Holds
  <2>2. sealed' \in Credential
    BY <1>1, <2>1 DEF Credential
  <2>3. QED
    BY <1>1, <2>2, NoneAssumption
<1>5. PICK to \in Locals : /\ \/ worker[w].doing = "connect" /\ to = Idle
                              \/ /\ worker[w].doing = "call" /\ to.pc = "calling"
                                 /\ to.doing = "call" /\ to.token = worker[w].token
                           /\ Set(w, to)
  <2>1. CASE worker[w].doing = "connect" /\ Return(w)
    BY <2>1, IdleIsFine DEF Return
  <2>2. CASE worker[w].doing # "connect" /\ Goto(w, "calling")
    BY <1>3, <2>2, GotoSets
  <2>3. QED
    BY <1>2, <2>1, <2>2
<1>6. \A u \in Worker : worker'[u] = IF u = w THEN to ELSE worker[u]
  BY <1>5 DEF Set, IInv, TypeOK
<1>7. Idle.pc = "idle" /\ Idle.doing = "nothing" /\ Idle.token = None
  BY DEF Idle
<1>8. \A u \in Worker : u # w => worker[u].doing # "connect"
  <2>1. CASE worker[w].doing = "connect"
    BY <2>1, Zenon DEF WorkInv, ConnectsAlone
  <2>2. CASE worker[w].doing = "call"
    BY <1>1, <2>2 DEF WorkInv, ConnectsAlone
  <2>3. QED
    BY <1>3, <2>1, <2>2
<1>9. \A u \in Worker : worker'[u].doing # "connect" /\ (Stores(worker'[u]) => u # w)
  BY <1>5, <1>6, <1>7, <1>8 DEF Stores
<1>10. \A u \in Worker : StagesMatch(worker[u])'
  <2>1. ASSUME NEW u \in Worker PROVE StagesMatch(worker[u])'
    <3>1. CASE u = w
      <4>1. worker'[u] = to /\ StagesMatch(worker[w])
        BY <1>6, <3>1 DEF WorkInv
      <4>2. QED
        BY <1>1, <1>5, <1>7, <4>1 DEF StagesMatch
    <3>2. CASE u # w
      <4>1. worker'[u] = worker[u] /\ StagesMatch(worker[u])
        BY <1>6, <3>2 DEF WorkInv
      <4>2. QED
        BY <1>1, <4>1 DEF StagesMatch, RowExists
    <3>3. QED
      BY <3>1, <3>2
  <2>2. QED
    BY <2>1
<1>11. ConnectsAlone'
  BY <1>9, Zenon DEF ConnectsAlone
<1>12. TokensIssued'
  BY <1>1, <1>3, <1>4, <1>5, <1>6, <1>7 DEF WorkInv, TokensIssued
<1>13. ConnectedHasCredential'
  BY <1>4 DEF ConnectedHasCredential
<1>14. HonouredIsHeld'
  <2>1. SUFFICES ASSUME rejections' = 0, crashes' = 0, honoured' # 0
                 PROVE  HonouredIsHeld'
    BY Zenon DEF HonouredIsHeld
  <2>2. /\ \A u \in Worker : worker[u].doing = "connect" \/ Stores(worker[u]) =>
              worker[u].token.refresh = honoured
        /\ \A u \in Worker : rotates /\ Stores(worker[u]) =>
              \A v \in Worker : v # u /\ worker[v].doing = "call" /\ worker[v].token # None =>
                worker[v].token.refresh # honoured
    BY <1>1, <2>1, Zenon DEF WorkInv, HonouredIsHeld
  <2>3. worker[w].doing = "connect" \/ Stores(worker[w])
    BY <1>1, <1>3 DEF Stores
  <2>4. worker[w].token.refresh = honoured
    BY <2>2, <2>3
  <2>5. \A u \in Worker : Stores(worker'[u]) => u # w /\ Stores(worker[u])
    BY <1>6, <1>9
  <2>6. \A u \in Worker : rotates => ~ Stores(worker'[u])
    <3>1. ASSUME NEW u \in Worker, rotates, Stores(worker'[u]) PROVE FALSE
      <4>1. u # w /\ Stores(worker[u])
        BY <2>5, <3>1
      <4>2. CASE worker[w].doing = "connect"
        BY <4>1, <4>2 DEF WorkInv, ConnectsAlone, Stores
      <4>3. CASE worker[w].doing = "call"
        BY <1>3, <2>2, <2>4, <3>1, <4>1, <4>3
      <4>4. QED
        BY <1>3, <4>2, <4>3
    <3>2. QED
      BY <3>1
  <2>7. \A u \in Worker : Stores(worker'[u]) => worker'[u].token.refresh = honoured'
    BY <1>1, <1>6, <2>2, <2>5
  <2>8. sealed'.token.refresh = honoured' /\ rotates' = rotates
    BY <1>1, <1>4, <2>4
  <2>9. QED
    BY <1>9, <2>6, <2>7, <2>8 DEF HonouredIsHeld, Stores
<1>15. QED
  BY <1>10, <1>11, <1>12, <1>13, <1>14 DEF WorkInv

(* A worker refreshes: what it holds now is what the provider honours, and  *)
(* with a provider that rotates nobody else holds it.                       *)
LEMMA RefreshWorks ==
  ASSUME IInv, IInv', WorkInv, NEW w \in Worker, Refresh(w)
  PROVE  WorkInv'
<1> DEFINE new == Refreshed(worker[w].token, issued + 1)
           next == [worker[w] EXCEPT !.pc = "sealing", !.token = new]
<1>1. /\ worker[w] \in Locals /\ worker[w].pc = "refreshing" /\ worker[w].doing = "call"
      /\ worker[w].token \in Token /\ worker[w].token.refresh = honoured
      /\ StagesMatch(worker[w])
  BY LocalsOf DEF IInv, KeysHeld, Refresh, Holds, WorkInv
<1>2. /\ issued' = issued + 1 /\ honoured' = (IF rotates THEN issued + 1 ELSE honoured)
      /\ UNCHANGED <<row, sealed, rotates, forgotten, rejections, crashes>>
      /\ issued + 1 \in 1..MaxTokens
  BY BoundAssumption DEF Refresh, Issue, counters, IInv, TypeOK
<1>3. Set(w, next)
  BY Zenon DEF Refresh
<1>4. new \in Token /\ new.refresh = honoured'
  BY <1>1, <1>2 DEF Refreshed, Token
<1> HIDE DEF new
<1>5. /\ next \in Locals /\ next.pc = "sealing" /\ next.token = new /\ next.doing = "call"
  BY <1>1, <1>4, Zenon DEF Locals
<1> HIDE DEF next
<1>6. PICK to \in Locals : /\ to.pc = "sealing" /\ to.doing = "call"
                           /\ to.token.refresh = honoured' /\ Set(w, to)
  BY <1>3, <1>4, <1>5
<1>7. \A u \in Worker : worker'[u] = IF u = w THEN to ELSE worker[u]
  BY <1>6 DEF Set, IInv, TypeOK
<1>8. \A u \in Worker : worker[u].doing # "connect"
  BY <1>1 DEF WorkInv, ConnectsAlone
<1>9. \A u \in Worker : worker'[u].doing # "connect"
  BY <1>6, <1>7, <1>8
<1>10. \A u \in Worker : StagesMatch(worker[u])'
  <2>1. ASSUME NEW u \in Worker PROVE StagesMatch(worker[u])'
    <3>1. CASE u = w
      <4>1. worker'[u] = to
        BY <1>7, <3>1
      <4>2. QED
        BY <1>1, <1>2, <1>6, <4>1 DEF StagesMatch
    <3>2. CASE u # w
      <4>1. worker'[u] = worker[u] /\ StagesMatch(worker[u])
        BY <1>7, <3>2 DEF WorkInv
      <4>2. QED
        BY <1>2, <4>1 DEF StagesMatch, RowExists
    <3>3. QED
      BY <3>1, <3>2
  <2>2. QED
    BY <2>1
<1>11. ConnectsAlone'
  BY <1>9, Zenon DEF ConnectsAlone
<1>12. /\ issued \in Nat /\ honoured \in Nat /\ \A t \in Token : t.refresh \in Nat
      /\ worker[w].token # None
  BY <1>1, InNat, BoundAssumption, NoneAssumption DEF Token
<1>13. /\ sealed # None => /\ sealed.token.refresh \in Nat
                           /\ sealed.token.refresh <= issued
      /\ \A u \in Worker : worker[u].token # None =>
           worker[u].token.refresh \in Nat /\ worker[u].token.refresh <= issued
  BY <1>12, TokensOf DEF WorkInv, TokensIssued
<1>14. honoured <= issued /\ honoured' <= issued'
  BY <1>1, <1>2, <1>12, <1>13
<1>15. TokensIssued'
  <2>1. sealed' # None => sealed'.token.refresh <= issued'
    BY <1>2, <1>12, <1>13
  <2>2. ASSUME NEW u \in Worker, worker'[u].token # None
        PROVE  worker'[u].token.refresh <= issued'
    <3>1. CASE u = w
      BY <1>6, <1>7, <1>14, <3>1
    <3>2. CASE u # w
      BY <1>2, <1>7, <1>12, <1>13, <2>2, <3>2
    <3>3. QED
      BY <3>1, <3>2
  <2>3. QED
    BY <2>1, <2>2 DEF TokensIssued
<1>16. ConnectedHasCredential'
  BY <1>2, <1>8 DEF WorkInv, ConnectedHasCredential, RowExists
<1>17. HonouredIsHeld'
  <2>1. SUFFICES ASSUME rejections' = 0, crashes' = 0, honoured' # 0
                 PROVE  HonouredIsHeld'
    BY Zenon DEF HonouredIsHeld
  <2>2. honoured # 0
    BY <1>1 DEF StagesMatch
  <2>3. /\ \A u \in Worker : Stores(worker[u]) => worker[u].token.refresh = honoured
        /\ \A u \in Worker : rotates /\ Stores(worker[u]) =>
              \A v \in Worker : v # u /\ worker[v].doing = "call" /\ worker[v].token # None =>
                worker[v].token.refresh # honoured
    BY <1>2, <2>1, <2>2, Zenon DEF WorkInv, HonouredIsHeld
  <2>4. ASSUME NEW u \in Worker, u # w, Stores(worker'[u])
        PROVE  ~ rotates /\ worker'[u].token.refresh = honoured'
    <3>1. Stores(worker[u]) /\ worker'[u] = worker[u]
      BY <1>7, <2>4
    <3>2. ~ rotates
      BY <1>1, <1>12, <2>3, <2>4, <3>1
    <3>3. QED
      BY <1>2, <2>3, <3>1, <3>2
  <2>5. Stores(worker'[w]) /\ worker'[w].token.refresh = honoured'
    BY <1>6, <1>7 DEF Stores
  <2>6. \A u \in Worker : worker'[u].doing = "connect" \/ Stores(worker'[u]) =>
          worker'[u].token.refresh = honoured'
    BY <1>9, <2>4, <2>5
  <2>7. ASSUME rotates'
        PROVE  /\ sealed' # None => sealed'.token.refresh # honoured'
               /\ \A u \in Worker : u # w /\ worker'[u].token # None =>
                    worker'[u].token.refresh # honoured'
    <3>1. honoured' = issued + 1 /\ sealed' = sealed
      BY <1>2, <2>7
    <3>2. QED
      BY <1>7, <1>12, <1>13, <3>1
  <2>8. \A u \in Worker : rotates' /\ Stores(worker'[u]) => u = w
    BY <1>2, <2>4
  <2>9. QED
    BY <2>5, <2>6, <2>7, <2>8 DEF HonouredIsHeld, Stores
<1>18. QED
  BY <1>10, <1>11, <1>15, <1>16, <1>17 DEF WorkInv

-----------------------------------------------------------------------------
(* A step of the provider, a crash, or nothing at all: workers stay as they *)
(* are or are gone.                                                         *)
LEMMA AwayWorks ==
  ASSUME IInv, IInv', WorkInv, \A u \in Worker : worker'[u] = worker[u] \/ worker'[u] = Idle,
         \/ crashes' > 0
         \/ crashes' = crashes /\ worker' = worker /\ (honoured' = honoured \/ honoured' = 0),
         UNCHANGED <<row, sealed, issued, rotates, forgotten, rejections>>
  PROVE  WorkInv'
<1>1. Idle.pc = "idle" /\ Idle.doing = "nothing" /\ Idle.token = None
  BY DEF Idle
<1>2. \A u \in Worker : StagesMatch(worker[u])'
  <2>1. ASSUME NEW u \in Worker PROVE StagesMatch(worker[u])'
    <3>1. StagesMatch(worker[u])
      BY DEF WorkInv
    <3>2. CASE worker'[u] = Idle
      BY <1>1, <3>2 DEF StagesMatch
    <3>3. CASE worker'[u] = worker[u]
      BY <3>1, <3>3 DEF StagesMatch, RowExists
    <3>4. QED
      BY <3>2, <3>3
  <2>2. QED
    BY <2>1
<1>3. ConnectsAlone'
  <2>1. ASSUME NEW v \in Worker, worker'[v].doing = "connect"
        PROVE  /\ sealed' = None
               /\ \A u \in Worker : /\ worker'[u].doing = "connect" => u = v
                                    /\ worker'[u].doing = "call" => worker'[u].pc = "reading"
    <3>1. worker[v].doing = "connect"
      BY <1>1, <2>1
    <3>2. /\ sealed = None
          /\ \A u \in Worker : /\ worker[u].doing = "connect" => u = v
                               /\ worker[u].doing = "call" => worker[u].pc = "reading"
      BY <3>1, Zenon DEF WorkInv, ConnectsAlone
    <3>3. QED
      BY <1>1, <3>2
  <2>2. QED
    BY <2>1, Zenon DEF ConnectsAlone
<1>4. TokensIssued'
  BY <1>1 DEF WorkInv, TokensIssued
<1>5. ConnectedHasCredential'
  BY DEF WorkInv, ConnectedHasCredential, RowExists
<1>6. HonouredIsHeld'
  <2>1. SUFFICES ASSUME rejections' = 0, crashes' = 0, honoured' # 0
                 PROVE  HonouredIsHeld'
    BY Zenon DEF HonouredIsHeld
  <2>2. crashes' = crashes /\ worker' = worker /\ honoured' = honoured
    BY <2>1
  <2>3. QED
    BY <2>2 DEF WorkInv, HonouredIsHeld, Stores
<1>7. QED
  BY <1>2, <1>3, <1>4, <1>5, <1>6 DEF WorkInv

LEMMA SealWorks ==
  ASSUME IInv, IInv', WorkInv, NEW w \in Worker, Seal(w)
  PROVE  WorkInv'
<1>1. /\ worker[w].pc = "sealing" /\ UNCHANGED <<row, provider>>
      /\ forgotten' = forgotten /\ rejections' = rejections /\ crashes' = crashes
      /\ rejections \in Nat /\ (RowExists' <=> RowExists) /\ rejections <= rejections'
  BY InNat DEF Seal, counters, RowExists
<1>2. CASE worker[w].doing = "bring"
  <2>1. Return(w) /\ sealed' = sealed
    BY <1>2, Zenon DEF Seal
  <2>2. ~ Stores(worker[w]) /\ worker[w].doing # "connect"
    BY <1>2 DEF Stores
  <2>3. QED
    BY <1>1, <2>1, <2>2, ReturnsQuietly
<1>3. CASE worker[w].doing # "bring" /\ RowExists
  BY <1>3, StoreWorks
<1>4. CASE worker[w].doing # "bring" /\ ~ RowExists
  <2>1. sealed' = sealed /\ sealed = None
    BY <1>4 DEF Seal, IInv, SecretGoesWithRow
  <2>2. CASE worker[w].doing = "connect"
    <3>1. Goto(w, "undoing")
      BY <1>4, <2>2 DEF Seal
    <3>2. QED
      BY <1>1, <1>4, <2>1, <2>2, <3>1, GoesQuietly
  <2>3. CASE worker[w].doing # "connect"
    <3>1. Return(w)
      BY <1>4, <2>3 DEF Seal
    <3>2. QED
      BY <1>1, <1>4, <2>1, <2>3, <3>1, ReturnsQuietly
  <2>4. QED
    BY <2>2, <2>3
<1>5. QED
  BY <1>2, <1>3, <1>4

(* A worker looks for the key: it goes to make one, or holds one. *)
LEMMA KeyOpens ==
  ASSUME IInv, NEW w \in Worker, FindKey(w) \/ EnsureKey(w)
  PROVE  Goto(w, "ensuring") \/ \E key \in Worker : Set(w, Keyed(w, key))
<1>1. VaultOf(w) \in Vault
  BY ProcessAssumption DEF Vault, VaultOf
<1>2. CASE FindKey(w)
  <2>1. CASE NeedsKey(w)
    BY <1>2, <2>1 DEF FindKey
  <2>2. CASE ~ NeedsKey(w)
    <3>1. Known(w) \in Worker
      BY <1>1, <2>2 DEF NeedsKey, Known, IInv, TypeOK
    <3>2. QED
      BY <1>2, <2>2, <3>1 DEF FindKey
  <2>3. QED
    BY <2>1, <2>2
<1>3. CASE EnsureKey(w)
  <2>1. Effective(w) \in Worker
    BY DEF Effective, Ensured, IInv, TypeOK
  <2>2. QED
    BY <1>3, <2>1 DEF EnsureKey
<1>4. QED
  BY <1>2, <1>3

LEMMA KeyWorks ==
  ASSUME IInv, IInv', WorkInv, NEW w \in Worker, FindKey(w) \/ EnsureKey(w)
  PROVE  WorkInv'
<1>1. /\ worker[w].pc = "keying" \/ worker[w].pc = "ensuring"
      /\ UNCHANGED <<row, sealed, provider, counters>>
  BY DEF FindKey, EnsureKey
<1>2. Goto(w, "ensuring") \/ \E key \in Worker : Set(w, Keyed(w, key))
  BY KeyOpens
<1>3. CASE \E key \in Worker : Set(w, Keyed(w, key))
  BY <1>1, <1>3, KeyedWorks
<1>4. CASE Goto(w, "ensuring")
  <2>1. rejections <= rejections'
    BY <1>1, InNat DEF counters
  <2>2. QED
    BY <1>1, <1>4, <2>1, GoesQuietly DEF counters
<1>5. QED
  BY <1>2, <1>3, <1>4

(* The row and all that hangs on it goes. *)
LEMMA DeleteWorks ==
  ASSUME IInv, IInv', WorkInv, NEW w \in Worker, Delete, Return(w),
         UNCHANGED <<tenant, provider, counters>>
  PROVE  WorkInv'
<1>1. /\ (row = "absent" <=> row' = "absent") /\ ~ RowExists' /\ sealed' = None
      /\ UNCHANGED provider /\ forgotten' = forgotten /\ rejections <= rejections'
      /\ crashes' = crashes
  BY InNat DEF Delete, RowExists, IInv, TypeOK, counters
<1>2. QED
  BY <1>1, ReturnsQuietly

LEMMA DowngradeWorks ==
  ASSUME IInv, IInv', WorkInv, NEW w \in Worker, Downgrade(w)
  PROVE  WorkInv'
<1>1. /\ (row = "absent" <=> row' = "absent") /\ (RowExists' <=> RowExists) /\ sealed' = sealed
      /\ UNCHANGED provider /\ forgotten' = forgotten /\ rejections <= rejections'
      /\ crashes' = crashes /\ Return(w)
  BY InNat DEF Downgrade, RowExists, counters
<1>2. ~ Stores(worker[w]) /\ worker[w].doing # "connect"
  BY DEF Downgrade, Stores, WorkInv, StagesMatch
<1>3. QED
  BY <1>1, <1>2, ReturnsQuietly

LEMMA CallSourceWorks ==
  ASSUME IInv, IInv', WorkInv, NEW w \in Worker, CallSource(w)
  PROVE  WorkInv'
<1>1. /\ row' = row /\ (RowExists' <=> RowExists) /\ sealed' = sealed
      /\ UNCHANGED provider /\ forgotten' = forgotten /\ rejections <= rejections'
      /\ crashes' = crashes /\ Return(w)
  BY InNat DEF CallSource, RowExists, counters
<1>2. ~ Stores(worker[w]) /\ worker[w].doing # "connect"
  BY DEF CallSource, Stores, WorkInv, StagesMatch
<1>3. QED
  BY <1>1, <1>2, ReturnsQuietly

LEMMA RefreshFailsQuietly ==
  ASSUME IInv, IInv', WorkInv, NEW w \in Worker, RefreshRefused(w) \/ RefreshUnanswered(w)
  PROVE  WorkInv'
<1>1. /\ worker[w].pc = "refreshing" /\ Goto(w, "downgrading") /\ UNCHANGED <<row, sealed>>
      /\ forgotten' = forgotten /\ crashes' = crashes
  BY DEF RefreshRefused, RefreshUnanswered, counters
<1>2. worker[w].doing # "connect"
  BY <1>1 DEF WorkInv, StagesMatch
<1>3. rejections <= rejections' /\ (UNCHANGED provider \/ (rejections' > 0 /\ issued <= issued'))
  <2>1. CASE RefreshRefused(w)
    BY <2>1, InNat DEF RefreshRefused, counters
  <2>2. CASE RefreshUnanswered(w)
    BY <2>2, InNat DEF RefreshUnanswered, Issue
  <2>3. QED
    BY <2>1, <2>2
<1>4. QED
  BY <1>1, <1>2, <1>3, GoesQuietly

LEMMA StoreRejectsWorks ==
  ASSUME IInv, IInv', WorkInv, NEW w \in Worker, StoreRejects(w)
  PROVE  WorkInv'
<1>1. /\ UNCHANGED <<row, sealed>> /\ UNCHANGED provider /\ (RowExists' <=> RowExists)
      /\ forgotten' = forgotten /\ crashes' = crashes
      /\ rejections <= rejections' /\ rejections' > 0
      /\ rejections > 0 => rejections' > 1
      /\ worker[w].pc # "idle"
  BY InNat DEF StoreRejects, RowExists
<1>2. StagesMatch(worker[w])
  BY DEF WorkInv
<1>3. \/ /\ worker[w].doing = "connect" /\ Goto(w, "undoing")
         /\ worker[w].pc = "keying" \/ worker[w].pc = "ensuring" \/ worker[w].pc = "sealing"
      \/ /\ Return(w)
         /\ ~ (/\ worker[w].doing = "connect"
               /\ worker[w].pc = "keying" \/ worker[w].pc = "ensuring"
                  \/ worker[w].pc = "sealing")
  BY Zenon DEF StoreRejects, Rejected, Return, Goto
<1>4. CASE /\ worker[w].doing = "connect" /\ Goto(w, "undoing")
           /\ worker[w].pc = "keying" \/ worker[w].pc = "ensuring" \/ worker[w].pc = "sealing"
  BY <1>1, <1>4, GoesQuietly
<1>5. CASE /\ Return(w)
           /\ ~ (/\ worker[w].doing = "connect"
                 /\ worker[w].pc = "keying" \/ worker[w].pc = "ensuring"
                    \/ worker[w].pc = "sealing")
  <2>1. worker[w].doing = "connect" => ~ RowExists' \/ rejections' > 1
    BY <1>1, <1>2, <1>5 DEF StagesMatch, RowExists
  <2>2. QED
    BY <1>1, <1>5, <2>1, ReturnsQuietly
<1>6. QED
  BY <1>3, <1>4, <1>5

LEMMA BeginWorks ==
  ASSUME IInv, IInv', WorkInv, NEW w \in Worker, Bring(w) \/ Call(w) \/ Disconnect(w)
  PROVE  WorkInv'
<1>1. /\ row' = row /\ UNCHANGED provider /\ UNCHANGED <<rejections, crashes>>
      /\ forgotten => forgotten'
  BY DEF Bring, Call, Disconnect, counters
<1>2. CASE Bring(w)
  BY <1>1, <1>2, BeginsQuietly DEF Bring
<1>3. CASE Call(w)
  BY <1>1, <1>3, BeginsQuietly DEF Call
<1>4. CASE Disconnect(w)
  BY <1>1, <1>4, BeginsQuietly DEF Disconnect
<1>5. QED
  BY <1>2, <1>3, <1>4

LEMMA ServeWorks ==
  ASSUME IInv, IInv', WorkInv, NEW w \in Worker, Serve(w)
  PROVE  WorkInv'
<1>1. CASE \E refreshable \in BOOLEAN : Connect(w, refreshable)
  BY <1>1, ConnectWorks
<1>2. CASE CreateRow(w) \/ ReadSealed(w) \/ Refresh(w)
  BY <1>2, CreateRowWorks, ReadSealedWorks, RefreshWorks
<1>3. CASE Bring(w) \/ Call(w) \/ Disconnect(w)
  BY <1>3, BeginWorks
<1>4. CASE FindKey(w) \/ EnsureKey(w)
  BY <1>4, KeyWorks
<1>5. CASE Undo(w) \/ RemoveRow(w)
  BY <1>5, DeleteWorks DEF Undo, RemoveRow
<1>6. CASE RefreshRefused(w) \/ RefreshUnanswered(w)
  BY <1>6, RefreshFailsQuietly
<1>7. CASE Seal(w) \/ Downgrade(w) \/ CallSource(w) \/ StoreRejects(w)
  BY <1>7, SealWorks, DowngradeWorks, CallSourceWorks, StoreRejectsWorks
<1>8. QED
  BY <1>1, <1>2, <1>3, <1>4, <1>5, <1>6, <1>7 DEF Serve

LEMMA NextWorks == IInv /\ IInv' /\ WorkInv /\ [Next]_vars => WorkInv'
<1> SUFFICES ASSUME IInv, IInv', WorkInv, [Next]_vars PROVE WorkInv'
  OBVIOUS
<1>1. CASE \E w \in Worker : Serve(w)
  BY <1>1, ServeWorks
<1>2. CASE Withdraw \/ (\E t \in 1..MaxTokens : Expire(t)) \/ UNCHANGED vars
  <2>1. /\ UNCHANGED <<row, sealed, issued, rotates, forgotten, rejections>>
        /\ worker' = worker /\ crashes' = crashes /\ (honoured' = honoured \/ honoured' = 0)
    BY <1>2 DEF Withdraw, Expire, vars, counters, provider
  <2>2. QED
    BY <2>1, AwayWorks
<1>3. CASE \E p \in Process : Crash(p)
  <2>1. UNCHANGED <<row, sealed, issued, rotates, forgotten, rejections>>
    BY <1>3 DEF Crash, provider
  <2>2. \A u \in Worker : worker'[u] = worker[u] \/ worker'[u] = Idle
    BY <1>3 DEF Crash
  <2>3. crashes' > 0
    BY <1>3, InNat DEF Crash
  <2>4. QED
    BY <2>1, <2>2, <2>3, AwayWorks
<1>4. QED
  BY <1>1, <1>2, <1>3 DEF Next

LEMMA InitWorks == Init => WorkInv
<1> SUFFICES ASSUME Init PROVE WorkInv
  OBVIOUS
<1>1. \A w \in Worker : /\ worker[w] = Idle /\ Idle.pc = "idle" /\ Idle.doing = "nothing"
                        /\ Idle.token = None
  BY DEF Init, Idle
<1>2. QED
  BY <1>1 DEF Init, WorkInv, StagesMatch, ConnectsAlone, TokensIssued,
     ConnectedHasCredential, HonouredIsHeld, Stores, RowExists

-----------------------------------------------------------------------------
(* A connection is expired only when it has to be.  A provider that does not *)
(* rotate honours one refresh token, the one everybody holds, so whoever is  *)
(* refused it knows that nobody can use it.  At one that rotates a caller    *)
(* that is alone holds what is stored, so a refusal is of what is stored.    *)

HeldMatch ==
    \A u \in Worker :
      /\ worker[u].token # None => worker[u].doing \in {"call", "connect"}
      /\ worker[u].pc = "downgrading" => worker[u].doing = "call" /\ worker[u].token # None
      /\ worker[u].pc = "reading" => worker[u].token = None
      /\ worker[u].doing = "connect" => row # "expired"

OneGrant ==
    ~ rotates => \A u \in Worker : worker[u].token # None =>
      /\ \A v \in Worker : worker[v].token # None =>
           worker[u].token.refresh = worker[v].token.refresh
      /\ sealed # None => worker[u].token.refresh = sealed.token.refresh

GrantIsSpent ==
    ~ rotates /\ rejections = 0
      /\ (row = "expired" \/ \E w \in Worker : worker[w].pc = "downgrading")
    => /\ \A u \in Worker : worker[u].token # None => Spent(worker[u].token)
       /\ sealed # None => Spent(sealed.token)

OneCaller ==
    ~ raced => \A u, v \in Worker :
      worker[u].doing = "call" /\ worker[v].doing = "call" => u = v

LoneCaller ==
    ~ raced /\ rejections = 0 =>
      /\ \A u \in Worker : worker[u].doing = "call" =>
           /\ row # "expired"
           /\ worker[u].token # None /\ worker[u].pc # "sealing" /\ sealed # None =>
                worker[u].token.refresh = sealed.token.refresh
           /\ worker[u].pc = "downgrading" => Spent(worker[u].token)
      /\ row = "expired" /\ sealed # None => Spent(sealed.token)

ExpiredInv == HeldMatch /\ OneGrant /\ GrantIsSpent /\ OneCaller /\ LoneCaller

(* A worker moves on while the provider stays as it is: what it holds then   *)
(* it held before or has just read, and what is stored was stored before or  *)
(* held by it.                                                               *)
LEMMA MovesOn ==
  ASSUME IInv, WorkInv, ExpiredInv, NEW w \in Worker, NEW me \in Locals, Set(w, me),
         UNCHANGED <<honoured, rotates, raced>>, rejections' = 0 => rejections = 0,
         row' = "expired" => row = "expired",
         \/ sealed' = sealed
         \/ sealed' = None
         \/ /\ sealed' # None /\ sealed'.token = worker[w].token
            /\ worker[w].pc = "sealing" /\ worker[w].token # None,
         \/ me.token = None
         \/ me.token = worker[w].token
         \/ sealed # None /\ sealed' = sealed /\ me.token = sealed.token,
         me.doing = "call" => worker[w].doing = "call",
         me.doing = "connect" => worker[w].doing = "connect",
         me.token # None => me.doing \in {"call", "connect"},
         me.pc = "reading" => me.token = None,
         me.pc = "downgrading" =>
           /\ me.doing = "call" /\ me.token # None /\ me.token = worker[w].token
           /\ worker[w].pc = "downgrading" \/ Spent(me.token) \/ rejections' # 0,
         me.doing = "call" /\ me.pc # "sealing" /\ me.token # None =>
           \/ worker[w].pc # "sealing" /\ me.token = worker[w].token /\ sealed' \in {sealed, None}
           \/ rejections' # 0 \/ sealed' = None
           \/ sealed' # None /\ sealed'.token = me.token
  PROVE  ExpiredInv'
<1>1. \A u \in Worker : worker'[u] = IF u = w THEN me ELSE worker[u]
  BY DEF Set, IInv, TypeOK
<1>2. HeldMatch /\ OneGrant /\ GrantIsSpent /\ OneCaller /\ LoneCaller
  BY DEF ExpiredInv
<1>3. HeldMatch'
  BY <1>1, <1>2 DEF HeldMatch
<1>4. OneCaller'
  BY <1>1, <1>2 DEF OneCaller
<1>5. OneGrant'
  <2>1. SUFFICES ASSUME ~ rotates PROVE OneGrant'
    BY Zenon DEF OneGrant
  <2>2. /\ \A u, v \in Worker : worker[u].token # None /\ worker[v].token # None =>
              worker[u].token.refresh = worker[v].token.refresh
        /\ \A u \in Worker : worker[u].token # None /\ sealed # None =>
              worker[u].token.refresh = sealed.token.refresh
    BY <1>2, <2>1 DEF OneGrant
  <2>3. QED
    BY <1>1, <2>2 DEF OneGrant
<1>6. GrantIsSpent'
  <2>1. SUFFICES ASSUME ~ rotates, rejections' = 0,
                        row' = "expired" \/ \E v \in Worker : worker'[v].pc = "downgrading"
                 PROVE  /\ \A u \in Worker : worker'[u].token # None => Spent(worker'[u].token)
                        /\ sealed' # None => Spent(sealed'.token)
    BY DEF GrantIsSpent, Spent
  <2>2. /\ \A u, v \in Worker : worker[u].token # None /\ worker[v].token # None =>
              worker[u].token.refresh = worker[v].token.refresh
        /\ \A u \in Worker : worker[u].token # None /\ sealed # None =>
              worker[u].token.refresh = sealed.token.refresh
    BY <1>2, <2>1 DEF OneGrant
  <2>3. /\ \A u \in Worker : worker[u].token # None => Spent(worker[u].token)
        /\ sealed # None => Spent(sealed.token)
    <3>1. CASE row = "expired" \/ \E v \in Worker : worker[v].pc = "downgrading"
      BY <1>2, <2>1, <3>1 DEF GrantIsSpent
    <3>2. CASE ~ (row = "expired" \/ \E v \in Worker : worker[v].pc = "downgrading")
      <4>1. me.pc = "downgrading"
        BY <1>1, <2>1, <3>2
      <4>2. worker[w].token # None /\ Spent(worker[w].token)
        BY <2>1, <3>2, <4>1
      <4>3. QED
        BY <2>2, <4>2 DEF Spent
    <3>3. QED
      BY <3>1, <3>2
  <2>4. QED
    BY <1>1, <2>3
<1>7. LoneCaller'
  <2>1. SUFFICES ASSUME ~ raced, rejections' = 0 PROVE LoneCaller'
    BY Zenon DEF LoneCaller
  <2>2. /\ \A u \in Worker : worker[u].doing = "call" =>
           /\ row # "expired"
           /\ worker[u].token # None /\ worker[u].pc # "sealing" /\ sealed # None =>
                worker[u].token.refresh = sealed.token.refresh
           /\ worker[u].pc = "downgrading" => Spent(worker[u].token)
        /\ row = "expired" /\ sealed # None => Spent(sealed.token)
        /\ \A u, v \in Worker : worker[u].doing = "call" /\ worker[v].doing = "call" => u = v
    BY <1>2, <2>1 DEF LoneCaller, OneCaller
  <2>3. ASSUME NEW u \in Worker, worker'[u].doing = "call"
        PROVE  /\ row' # "expired"
               /\ worker'[u].token # None /\ worker'[u].pc # "sealing" /\ sealed' # None =>
                    worker'[u].token.refresh = sealed'.token.refresh
               /\ worker'[u].pc = "downgrading" => Spent(worker'[u].token)
    <3>1. worker[u].doing = "call"
      BY <1>1, <2>3
    <3>2. row' # "expired"
      BY <2>2, <3>1
    <3>3. CASE u = w
      <4>1. worker'[u] = me
        BY <1>1, <3>3
      <4>2. me.pc = "downgrading" => Spent(me.token)
        BY <2>1, <2>2, <3>1, <3>3
      <4>3. ASSUME me.token # None, me.pc # "sealing", sealed' # None
            PROVE  me.token.refresh = sealed'.token.refresh
        BY <2>1, <2>2, <2>3, <3>1, <3>3, <4>1, <4>3
      <4>4. QED
        BY <3>2, <4>1, <4>2, <4>3
    <3>4. CASE u # w
      <4>1. worker'[u] = worker[u] /\ worker[w].doing # "call"
        BY <1>1, <2>2, <3>1, <3>4
      <4>2. worker[w].token # None => worker[w].doing = "connect"
        BY <1>2, <4>1 DEF HeldMatch
      <4>3. worker[w].doing = "connect" => worker[u].token = None
        BY <1>2, <3>1, Zenon DEF WorkInv, ConnectsAlone, HeldMatch
      <4>4. QED
        BY <2>2, <3>1, <3>2, <4>1, <4>2, <4>3
    <3>5. QED
      BY <3>3, <3>4
  <2>4. ASSUME row' = "expired", sealed' # None PROVE Spent(sealed'.token)
    <3>1. \A u \in Worker : worker[u].token = None
      BY <1>2, <2>2, <2>4 DEF HeldMatch
    <3>2. sealed' = sealed
      BY <2>4, <3>1
    <3>3. QED
      BY <2>2, <2>4, <3>2
  <2>5. QED
    BY <2>3, <2>4 DEF LoneCaller, Spent
<1>8. QED
  BY <1>3, <1>4, <1>5, <1>6, <1>7 DEF ExpiredInv

(* The three ways a worker moves on. *)
LEMMA ReturnsOn ==
  ASSUME IInv, WorkInv, ExpiredInv, NEW w \in Worker, Return(w),
         UNCHANGED <<honoured, rotates, raced>>, rejections' = 0 => rejections = 0,
         row' = "expired" => row = "expired",
         \/ sealed' = sealed
         \/ sealed' = None
         \/ /\ sealed' # None /\ sealed'.token = worker[w].token
            /\ worker[w].pc = "sealing" /\ worker[w].token # None
  PROVE  ExpiredInv'
<1>1. /\ Idle \in Locals /\ Idle.pc = "idle" /\ Idle.doing = "nothing" /\ Idle.token = None
  BY IdleIsFine DEF Idle
<1>2. Set(w, Idle)
  BY DEF Return
<1> HIDE DEF Idle
<1>3. QED
  BY <1>1, <1>2, MovesOn

LEMMA StepsOn ==
  ASSUME IInv, WorkInv, ExpiredInv, NEW w \in Worker,
         NEW pc \in {"keying", "ensuring", "undoing", "downgrading", "calling"}, Goto(w, pc),
         UNCHANGED <<honoured, rotates, raced>>, rejections' = 0 => rejections = 0,
         row' = "expired" => row = "expired",
         pc = "downgrading" =>
           /\ worker[w].doing = "call" /\ worker[w].token # None
           /\ Spent(worker[w].token) \/ rejections' # 0,
         \/ sealed' = sealed /\ worker[w].pc # "sealing"
         \/ sealed' = sealed /\ worker[w].doing # "call"
         \/ /\ sealed' # None /\ sealed'.token = worker[w].token
            /\ worker[w].pc = "sealing" /\ worker[w].token # None
  PROVE  ExpiredInv'
<1>1. worker[w] \in Locals /\ (worker[w].token # None => worker[w].doing \in {"call", "connect"})
  BY LocalsOf DEF IInv, ExpiredInv, HeldMatch
<1>2. PICK me \in Locals : /\ me.pc = pc /\ me.doing = worker[w].doing
                           /\ me.token = worker[w].token /\ Set(w, me)
  BY <1>1, GotoSets
<1>3. Set(w, me)
  BY <1>2
<1>4. QED
  BY <1>1, <1>2, <1>3, MovesOn

LEMMA ReadSealedOn ==
  ASSUME IInv, WorkInv, ExpiredInv, NEW w \in Worker, ReadSealed(w)
  PROVE  ExpiredInv'
<1> DEFINE to == [worker[w] EXCEPT !.pc = "keying", !.token = sealed.token,
                                   !.under = sealed.key]
<1>1. /\ worker[w] \in Locals /\ worker[w].pc = "reading" /\ worker[w].doing = "call"
  BY LocalsOf DEF IInv, KeysHeld, Holds, ReadSealed
<1>2. Return(w) \/ (sealed # None /\ Set(w, to))
  BY Zenon DEF ReadSealed
<1>3. UNCHANGED <<row, sealed, honoured, rotates, raced, rejections>>
  BY DEF ReadSealed, provider, counters
<1>4. CASE Return(w)
  BY <1>3, <1>4, ReturnsOn
<1>5. CASE sealed # None /\ Set(w, to)
  <2>1. sealed.token \in Token /\ sealed.key \in Worker
    BY <1>5 DEF IInv, TypeOK, Credential
  <2>2. /\ to \in Locals /\ to.pc = "keying" /\ to.token = sealed.token
        /\ to.doing = "call" /\ Set(w, to)
    BY <1>1, <1>5, <2>1, Zenon DEF Locals
  <2> HIDE DEF to
  <2>3. PICK me \in Locals : /\ me.pc = "keying" /\ me.token = sealed.token
                              /\ me.doing = "call" /\ Set(w, me)
    BY <2>2
  <2>4. Set(w, me)
    BY <2>3
  <2>5. QED
    BY <1>1, <1>3, <1>5, <2>3, <2>4, MovesOn
<1>6. QED
  BY <1>2, <1>4, <1>5

(* A token that is past its time and cannot be refreshed. *)
LEMMA KeyedDowngrades ==
  ASSUME IInv, NEW w \in Worker, NEW key \in Worker, Keyed(w, key).pc = "downgrading",
         worker[w].pc \in {"keying", "ensuring"}
  PROVE  worker[w].doing = "call" /\ worker[w].token.refresh = 0
<1> DEFINE me == worker[w]
           To(pc) == [me EXCEPT !.pc = pc, !.key = key]
<1>1. me \in Locals
  BY LocalsOf DEF IInv
<1>2. ASSUME NEW pc \in {"sealing", "calling", "downgrading", "refreshing"}
      PROVE  To(pc).pc = pc
  BY <1>1, Zenon DEF Locals
<1>3. \/ me.doing # "call" /\ Keyed(w, key) = To("sealing")
      \/ Keyed(w, key) = Idle
      \/ Keyed(w, key) = To("calling")
      \/ me.doing = "call" /\ me.token.refresh = 0
      \/ Keyed(w, key) = To("refreshing")
  BY Zenon DEF Keyed
<1>4. Idle.pc = "idle"
  BY DEF Idle
<1> HIDE DEF To, me
<1>5. QED
  BY <1>2, <1>3, <1>4 DEF me

LEMMA KeyedOn ==
  ASSUME IInv, WorkInv, ExpiredInv, NEW w \in Worker, worker[w].pc \in {"keying", "ensuring"},
         NEW key \in Worker, Set(w, Keyed(w, key)),
         UNCHANGED <<row, sealed, provider, counters>>
  PROVE  ExpiredInv'
<1>1. PICK me \in Locals : me = Keyed(w, key)
  BY KeyedIsFine
<1>2. /\ \/ me = Idle /\ worker[w].doing = "call"
         \/ /\ me.doing = worker[w].doing /\ me.token = worker[w].token
            /\ \/ worker[w].doing # "call" /\ me.pc = "sealing"
               \/ /\ worker[w].doing = "call"
                  /\ me.pc \in {"calling", "downgrading", "refreshing"}
      /\ Set(w, me)
  BY <1>1, KeyedGoes, Zenon
<1>3. me.pc = "downgrading" => worker[w].doing = "call" /\ worker[w].token.refresh = 0
  BY <1>1, KeyedDowngrades, Zenon
<1>4. /\ worker[w].doing = "call" => worker[w].token # None
      /\ worker[w].token # None => worker[w].doing \in {"call", "connect"}
  BY DEF IInv, KeysHeld, Holds, ExpiredInv, HeldMatch
<1>5. Idle.pc = "idle" /\ Idle.doing = "nothing" /\ Idle.token = None
  BY DEF Idle
<1>6. UNCHANGED <<row, sealed, honoured, rotates, raced, rejections>>
  BY DEF provider, counters
<1>7. Set(w, me)
  BY <1>2
<1>8. CASE me = Idle
  BY <1>5, <1>6, <1>7, <1>8, ReturnsOn DEF Return
<1>9. CASE me # Idle
  BY <1>2, <1>3, <1>4, <1>6, <1>7, <1>9, MovesOn DEF Spent
<1>10. QED
  BY <1>8, <1>9

LEMMA KeyOn ==
  ASSUME IInv, WorkInv, ExpiredInv, NEW w \in Worker, FindKey(w) \/ EnsureKey(w)
  PROVE  ExpiredInv'
<1>1. /\ worker[w].pc = "keying" \/ worker[w].pc = "ensuring"
      /\ UNCHANGED <<row, sealed, provider, counters>>
  BY DEF FindKey, EnsureKey
<1>2. Goto(w, "ensuring") \/ \E key \in Worker : Set(w, Keyed(w, key))
  BY KeyOpens
<1>3. CASE \E key \in Worker : Set(w, Keyed(w, key))
  BY <1>1, <1>3, KeyedOn
<1>4. CASE Goto(w, "ensuring")
  BY <1>1, <1>4, StepsOn DEF provider, counters
<1>5. QED
  BY <1>2, <1>3, <1>4

(* The steps that change what the provider honours, or how many call. *)
LEMMA ConnectOn ==
  ASSUME IInv, WorkInv, ExpiredInv, NEW w \in Worker, NEW refreshable \in BOOLEAN,
         Connect(w, refreshable)
  PROVE  ExpiredInv'
<1> DEFINE r == IF refreshable THEN issued + 1 ELSE 0
           made == [access |-> issued + 1, refresh |-> r]
<1>1. /\ Begin(w, "connect", "creating", made) /\ row = "absent"
      /\ UNCHANGED <<row, sealed, rotates, raced, rejections>>
      /\ \A v \in Worker : worker[v].doing # "connect"
  BY Zenon DEF Connect, counters
<1>2. made \in Token
  BY BoundAssumption DEF Token, Connect, IInv, TypeOK
<1> HIDE DEF made
<1>3. PICK token \in Token : token = made
  BY <1>2
<1>4. PICK me \in Locals : /\ me.pc = "creating" /\ me.doing = "connect" /\ me.token = token
                           /\ Set(w, me)
  BY <1>1, <1>3, BeginSets
<1>5. \A u \in Worker : worker'[u] = IF u = w THEN me ELSE worker[u]
  BY <1>4 DEF Set, IInv, TypeOK
<1>6. sealed = None /\ sealed' = None /\ row' = "absent"
  BY <1>1 DEF IInv, SecretGoesWithRow, RowExists
<1>7. \A u \in Worker : worker[u].doing # "call"
  BY <1>1, Zenon DEF WorkInv, StagesMatch
<1>8. \A u \in Worker : worker[u].token = None /\ worker[u].pc # "downgrading"
  BY <1>1, <1>7 DEF ExpiredInv, HeldMatch
<1>9. QED
  BY <1>4, <1>5, <1>6, <1>7, <1>8
     DEF ExpiredInv, HeldMatch, OneGrant, GrantIsSpent, OneCaller, LoneCaller

LEMMA CallOn ==
  ASSUME IInv, WorkInv, ExpiredInv, NEW w \in Worker, Call(w)
  PROVE  ExpiredInv'
<1>1. /\ row = "active" /\ Begin(w, "call", "reading", None)
      /\ UNCHANGED <<row, sealed, honoured, rotates, rejections>>
      /\ ~ raced' => ~ raced /\ \A v \in Worker : worker[v].doing # "call"
  BY DEF Call, provider
<1>2. PICK me \in Locals : /\ me.pc = "reading" /\ me.doing = "call" /\ me.token = None
                           /\ Set(w, me)
  BY <1>1, BeginSets
<1>3. \A u \in Worker : worker'[u] = IF u = w THEN me ELSE worker[u]
  BY <1>2 DEF Set, IInv, TypeOK
<1>4. HeldMatch /\ OneGrant /\ GrantIsSpent /\ LoneCaller
  BY DEF ExpiredInv
<1>5. HeldMatch' /\ OneCaller'
  BY <1>1, <1>2, <1>3, <1>4 DEF HeldMatch, OneCaller
<1>6. OneGrant'
  BY <1>1, <1>2, <1>3, <1>4 DEF OneGrant
<1>7. GrantIsSpent'
  BY <1>1, <1>2, <1>3, <1>4 DEF GrantIsSpent, Spent
<1>8. LoneCaller'
  BY <1>1, <1>2, <1>3, <1>4 DEF LoneCaller, Spent
<1>9. QED
  BY <1>5, <1>6, <1>7, <1>8 DEF ExpiredInv

LEMMA RefreshOn ==
  ASSUME IInv, WorkInv, ExpiredInv, NEW w \in Worker, Refresh(w)
  PROVE  ExpiredInv'
<1> DEFINE new == Refreshed(worker[w].token, issued + 1)
           next == [worker[w] EXCEPT !.pc = "sealing", !.token = new]
<1>1. /\ worker[w] \in Locals /\ worker[w].pc = "refreshing" /\ worker[w].doing = "call"
      /\ worker[w].token \in Token /\ worker[w].token.refresh = honoured
      /\ worker[w].token # None /\ honoured # 0
  BY LocalsOf, NoneAssumption DEF IInv, KeysHeld, Refresh, Holds, WorkInv, StagesMatch
<1>2. /\ honoured' = (IF rotates THEN issued + 1 ELSE honoured)
      /\ UNCHANGED <<row, sealed, rotates, raced, rejections>>
      /\ issued + 1 \in 1..MaxTokens
  BY BoundAssumption DEF Refresh, Issue, counters, IInv, TypeOK
<1>3. Set(w, next)
  BY Zenon DEF Refresh
<1>4. new \in Token /\ (~ rotates => new.refresh = worker[w].token.refresh)
  BY <1>1, <1>2 DEF Refreshed, Token
<1> HIDE DEF new
<1>5. next \in Locals /\ next.pc = "sealing" /\ next.token = new /\ next.doing = "call"
  BY <1>1, <1>4, Zenon DEF Locals
<1> HIDE DEF next
<1>6. PICK to \in Locals : /\ to.pc = "sealing" /\ to.doing = "call" /\ to.token \in Token
                           /\ ~ rotates => to.token.refresh = worker[w].token.refresh
                           /\ Set(w, to)
  BY <1>3, <1>4, <1>5
<1>7. \A u \in Worker : worker'[u] = IF u = w THEN to ELSE worker[u]
  BY <1>6 DEF Set, IInv, TypeOK
<1>8. HeldMatch /\ OneGrant /\ GrantIsSpent /\ OneCaller /\ LoneCaller
  BY DEF ExpiredInv
<1>9. HeldMatch'
  BY <1>1, <1>2, <1>6, <1>7, <1>8 DEF HeldMatch
<1>10. OneCaller'
  BY <1>1, <1>2, <1>6, <1>7, <1>8 DEF OneCaller
<1>11. OneGrant'
  <2>1. SUFFICES ASSUME ~ rotates PROVE OneGrant'
    BY <1>2, Zenon DEF OneGrant
  <2>2. /\ \A u, v \in Worker : worker[u].token # None /\ worker[v].token # None =>
              worker[u].token.refresh = worker[v].token.refresh
        /\ \A u \in Worker : worker[u].token # None /\ sealed # None =>
              worker[u].token.refresh = sealed.token.refresh
    BY <1>8, <2>1 DEF OneGrant
  <2>3. QED
    BY <1>1, <1>2, <1>6, <1>7, <2>1, <2>2 DEF OneGrant
<1>12. GrantIsSpent'
  <2>1. SUFFICES ASSUME ~ rotates, rejections = 0,
                        row = "expired" \/ \E v \in Worker : worker'[v].pc = "downgrading"
                 PROVE  FALSE
    BY <1>2, Zenon DEF GrantIsSpent
  <2>2. row = "expired" \/ \E v \in Worker : worker[v].pc = "downgrading"
    BY <1>6, <1>7, <2>1
  <2>3. Spent(worker[w].token)
    BY <1>1, <1>8, <2>1, <2>2 DEF GrantIsSpent
  <2>4. QED
    BY <1>1, <2>3 DEF Spent
<1>13. LoneCaller'
  <2>1. SUFFICES ASSUME ~ raced, rejections = 0 PROVE LoneCaller'
    BY <1>2, Zenon DEF LoneCaller
  <2>2. row # "expired" /\ \A u \in Worker : worker[u].doing = "call" => u = w
    BY <1>1, <1>8, <2>1 DEF LoneCaller, OneCaller
  <2>3. QED
    BY <1>2, <1>6, <1>7, <2>2 DEF LoneCaller
<1>14. QED
  BY <1>9, <1>10, <1>11, <1>12, <1>13 DEF ExpiredInv

(* The loser of a race at a provider that rotates apart, who is refused or   *)
(* has nothing to refresh with speaks for all.                               *)
LEMMA DowngradeOn ==
  ASSUME IInv, WorkInv, ExpiredInv, NEW w \in Worker, Downgrade(w)
  PROVE  ExpiredInv'
<1>1. /\ worker[w].pc = "downgrading" /\ Set(w, Idle)
      /\ UNCHANGED <<sealed, honoured, rotates, raced, rejections>>
  BY DEF Downgrade, Return, provider, counters
<1>2. /\ Idle.pc = "idle" /\ Idle.doing = "nothing" /\ Idle.token = None
  BY DEF Idle
<1>3. \A u \in Worker : worker'[u] = IF u = w THEN Idle ELSE worker[u]
  BY <1>1 DEF Set, IInv, TypeOK
<1> HIDE DEF Idle
<1>4. HeldMatch /\ OneGrant /\ GrantIsSpent /\ OneCaller /\ LoneCaller
  BY DEF ExpiredInv
<1>5. worker[w].doing = "call" /\ worker[w].token # None
  BY <1>1, <1>4 DEF HeldMatch
<1>6. \A u \in Worker : worker[u].doing = "connect" => worker[w].pc = "reading"
  BY <1>5, Zenon DEF WorkInv, ConnectsAlone
<1>7. HeldMatch'
  BY <1>1, <1>2, <1>3, <1>4, <1>6 DEF HeldMatch
<1>8. OneCaller' /\ OneGrant'
  BY <1>1, <1>2, <1>3, <1>4 DEF OneCaller, OneGrant
<1>9. GrantIsSpent'
  <2>1. SUFFICES ASSUME ~ rotates, rejections = 0 PROVE GrantIsSpent'
    BY <1>1, Zenon DEF GrantIsSpent
  <2>2. /\ \A u \in Worker : worker[u].token # None => Spent(worker[u].token)
        /\ sealed # None => Spent(sealed.token)
    BY <1>1, <1>4, <2>1 DEF GrantIsSpent
  <2>3. QED
    BY <1>1, <1>2, <1>3, <2>2 DEF GrantIsSpent, Spent
<1>10. LoneCaller'
  <2>1. SUFFICES ASSUME ~ raced, rejections = 0 PROVE LoneCaller'
    BY <1>1, Zenon DEF LoneCaller
  <2>2. \A u \in Worker : worker[u].doing = "call" => u = w
    BY <1>4, <1>5, <2>1 DEF OneCaller
  <2>3. \A u \in Worker : worker'[u].doing # "call"
    BY <1>2, <1>3, <2>2
  <2>4. sealed # None => Spent(sealed.token)
    BY <1>1, <1>4, <1>5, <2>1 DEF LoneCaller, Spent
  <2>5. QED
    BY <1>1, <2>3, <2>4 DEF LoneCaller, Spent
<1>11. QED
  BY <1>7, <1>8, <1>9, <1>10 DEF ExpiredInv

LEMMA SealedIs ==
  ASSUME NEW w \in Worker, TypeOK, worker[w].token # None, worker[w].key # None
  PROVE  [token |-> worker[w].token, key |-> worker[w].key] # None
BY LocalsOf, NoneAssumption DEF Credential

LEMMA SealOn ==
  ASSUME IInv, WorkInv, ExpiredInv, NEW w \in Worker, Seal(w)
  PROVE  ExpiredInv'
<1>1. /\ worker[w].pc = "sealing"
      /\ UNCHANGED <<row, honoured, rotates, raced, rejections>>
  BY DEF Seal, provider, counters
<1>2. CASE sealed' = sealed
  <2>1. \/ Return(w)
        \/ Goto(w, "undoing") /\ worker[w].doing = "connect"
        \/ Goto(w, "calling") /\ sealed' = [token |-> worker[w].token, key |-> worker[w].key]
           /\ worker[w].doing # "bring"
    BY DEF Seal
  <2>2. CASE Return(w)
    BY <1>1, <1>2, <2>2, ReturnsOn
  <2>3. CASE Goto(w, "undoing") /\ worker[w].doing = "connect"
    BY <1>1, <1>2, <2>3, StepsOn
  <2>4. CASE /\ Goto(w, "calling") /\ worker[w].doing # "bring"
             /\ sealed' = [token |-> worker[w].token, key |-> worker[w].key]
    <3>1. worker[w].token # None /\ sealed' # None
      BY <1>1, <2>4, SealedIs DEF IInv, KeysHeld, Holds
    <3>2. QED
      BY <1>1, <2>4, <3>1, StepsOn
  <2>5. QED
    BY <2>1, <2>2, <2>3, <2>4
<1>3. CASE sealed' # sealed
  <2>1. /\ worker[w].doing # "bring"
        /\ sealed' = [token |-> worker[w].token, key |-> worker[w].key]
        /\ Return(w) \/ Goto(w, "calling")
    BY <1>3 DEF Seal
  <2>2. worker[w].token # None /\ sealed' # None
    BY <1>1, <2>1, SealedIs DEF IInv, KeysHeld, Holds
  <2>3. QED
    BY <1>1, <2>1, <2>2, StepsOn, ReturnsOn
<1>4. QED
  BY <1>2, <1>3

LEMMA RefusedOn ==
  ASSUME IInv, WorkInv, ExpiredInv, NEW w \in Worker, RefreshRefused(w)
  PROVE  ExpiredInv'
<1>1. /\ worker[w].pc = "refreshing" /\ Goto(w, "downgrading") /\ Spent(worker[w].token)
      /\ UNCHANGED <<row, sealed, honoured, rotates, raced, rejections>>
  BY DEF RefreshRefused, Spent, provider, counters
<1>2. worker[w].doing = "call" /\ worker[w].token # None
  BY <1>1 DEF IInv, KeysHeld, Holds
<1>3. QED
  BY <1>1, <1>2, StepsOn

(* No answer, which leaves the provider where it may; from here on it is the *)
(* rejections that excuse.                                                   *)
LEMMA UnansweredOn ==
  ASSUME IInv, WorkInv, ExpiredInv, NEW w \in Worker, RefreshUnanswered(w)
  PROVE  ExpiredInv'
<1>1. /\ worker[w].pc = "refreshing" /\ Goto(w, "downgrading")
      /\ UNCHANGED <<row, sealed, rotates, raced>> /\ rejections' # 0
  BY InNat DEF RefreshUnanswered, provider, Issue
<1>2. /\ worker[w] \in Locals /\ worker[w].doing = "call" /\ worker[w].token # None
  BY <1>1, LocalsOf DEF IInv, KeysHeld, Holds
<1>3. PICK me \in Locals : /\ me.pc = "downgrading" /\ me.doing = "call"
                           /\ me.token = worker[w].token /\ Set(w, me)
  BY <1>1, <1>2, GotoSets
<1>4. \A u \in Worker : worker'[u] = IF u = w THEN me ELSE worker[u]
  BY <1>3 DEF Set, IInv, TypeOK
<1>5. HeldMatch /\ OneGrant /\ OneCaller
  BY DEF ExpiredInv
<1>6. HeldMatch' /\ OneCaller'
  BY <1>1, <1>2, <1>3, <1>4, <1>5 DEF HeldMatch, OneCaller
<1>7. OneGrant'
  BY <1>1, <1>2, <1>3, <1>4, <1>5 DEF OneGrant
<1>8. GrantIsSpent' /\ LoneCaller'
  BY <1>1 DEF GrantIsSpent, LoneCaller
<1>9. QED
  BY <1>6, <1>7, <1>8 DEF ExpiredInv

LEMMA RejectsOn ==
  ASSUME IInv, WorkInv, ExpiredInv, NEW w \in Worker, StoreRejects(w)
  PROVE  ExpiredInv'
<1>1. /\ UNCHANGED <<row, sealed, honoured, rotates, raced>>
      /\ rejections' = 0 => rejections = 0
  BY InNat DEF StoreRejects, provider
<1>2. \/ worker[w].doing = "connect" /\ Goto(w, "undoing")
      \/ Return(w)
  BY Zenon DEF StoreRejects, Rejected, Return, Goto
<1>3. QED
  BY <1>1, <1>2, StepsOn, ReturnsOn

(* A worker that starts without a token, and is no call. *)
LEMMA BeginsOn ==
  ASSUME IInv, WorkInv, ExpiredInv, NEW w \in Worker, Bring(w) \/ Disconnect(w)
  PROVE  ExpiredInv'
<1>1. /\ UNCHANGED <<row, honoured, rotates, raced, rejections>>
      /\ sealed' = sealed \/ sealed' = None
  BY DEF Bring, Disconnect, provider, counters
<1>2. \/ Begin(w, "bring", "keying", None)
      \/ Begin(w, "disconnect", "removing", None)
  BY DEF Bring, Disconnect
<1>3. PICK me \in Locals : /\ me.pc \in {"keying", "removing"}
                           /\ me.doing \in {"bring", "disconnect"}
                           /\ me.token = None /\ Set(w, me)
  BY <1>2, BeginSets
<1>4. Set(w, me)
  BY <1>3
<1>5. QED
  BY <1>1, <1>3, <1>4, MovesOn

LEMMA ServeOn ==
  ASSUME IInv, WorkInv, ExpiredInv, NEW w \in Worker, Serve(w)
  PROVE  ExpiredInv'
<1>1. CASE \E refreshable \in BOOLEAN : Connect(w, refreshable)
  BY <1>1, ConnectOn
<1>2. CASE CreateRow(w)
  <2>1. /\ Goto(w, "keying") /\ worker[w].pc = "creating" /\ row' # "expired"
        /\ UNCHANGED <<sealed, honoured, rotates, raced, rejections>>
    BY <1>2 DEF CreateRow, provider, counters
  <2>2. QED
    BY <2>1, StepsOn
<1>3. CASE Bring(w) \/ Disconnect(w) \/ Call(w) \/ ReadSealed(w)
  BY <1>3, BeginsOn, CallOn, ReadSealedOn
<1>4. CASE FindKey(w) \/ EnsureKey(w) \/ Seal(w)
  BY <1>4, KeyOn, SealOn
<1>5. CASE Undo(w) \/ RemoveRow(w)
  <2>1. /\ Return(w) /\ sealed' = None /\ (row' = "expired" => row = "expired")
        /\ UNCHANGED <<honoured, rotates, raced, rejections>>
    BY <1>5 DEF Undo, RemoveRow, Delete, RowExists, provider, counters
  <2>2. QED
    BY <1>5, <2>1, ReturnsOn DEF Undo, RemoveRow
<1>6. CASE Refresh(w) \/ RefreshRefused(w) \/ RefreshUnanswered(w) \/ Downgrade(w)
  BY <1>6, RefreshOn, RefusedOn, UnansweredOn, DowngradeOn
<1>7. CASE CallSource(w)
  <2>1. Return(w) /\ UNCHANGED <<row, sealed, honoured, rotates, raced, rejections>>
    BY <1>7 DEF CallSource, provider, counters
  <2>2. QED
    BY <2>1, ReturnsOn
<1>8. CASE StoreRejects(w)
  BY <1>8, RejectsOn
<1>9. QED
  BY <1>1, <1>2, <1>3, <1>4, <1>5, <1>6, <1>7, <1>8 DEF Serve

(* The provider withdraws what it honours, a crash, or nothing at all. *)
LEMMA AwayOn ==
  ASSUME IInv, WorkInv, ExpiredInv,
         \A u \in Worker : worker'[u] = worker[u] \/ worker'[u] = Idle,
         honoured' = honoured \/ honoured' = 0,
         UNCHANGED <<row, sealed, rotates, raced, rejections>>
  PROVE  ExpiredInv'
<1>1. Idle.pc = "idle" /\ Idle.doing = "nothing" /\ Idle.token = None
  BY DEF Idle
<1> HIDE DEF Idle
<1>2. HeldMatch /\ OneGrant /\ GrantIsSpent /\ OneCaller /\ LoneCaller
  BY DEF ExpiredInv
<1>3. HeldMatch' /\ OneCaller'
  BY <1>1, <1>2 DEF HeldMatch, OneCaller
<1>4. OneGrant'
  BY <1>1, <1>2 DEF OneGrant
<1>5. \A token : Spent(token) => token.refresh = 0 \/ token.refresh # honoured'
  BY DEF Spent
<1>6. GrantIsSpent'
  BY <1>1, <1>2, <1>5 DEF GrantIsSpent, Spent
<1>7. LoneCaller'
  BY <1>1, <1>2, <1>5 DEF LoneCaller, Spent
<1>8. QED
  BY <1>3, <1>4, <1>6, <1>7 DEF ExpiredInv

LEMMA NextOn == IInv /\ WorkInv /\ ExpiredInv /\ [Next]_vars => ExpiredInv'
<1> SUFFICES ASSUME IInv, WorkInv, ExpiredInv, [Next]_vars PROVE ExpiredInv'
  OBVIOUS
<1>1. CASE \E w \in Worker : Serve(w)
  BY <1>1, ServeOn
<1>2. CASE Withdraw \/ (\E t \in 1..MaxTokens : Expire(t)) \/ UNCHANGED vars
  <2>1. /\ UNCHANGED <<row, sealed, rotates, raced, rejections>>
        /\ worker' = worker /\ (honoured' = honoured \/ honoured' = 0)
    BY <1>2 DEF Withdraw, Expire, vars, counters, provider
  <2>2. QED
    BY <2>1, AwayOn
<1>3. CASE \E p \in Process : Crash(p)
  <2>1. /\ UNCHANGED <<row, sealed, honoured, rotates, raced, rejections>>
        /\ \A u \in Worker : worker'[u] = worker[u] \/ worker'[u] = Idle
    BY <1>3 DEF Crash, provider
  <2>2. QED
    BY <2>1, AwayOn
<1>4. QED
  BY <1>1, <1>2, <1>3 DEF Next

LEMMA InitOn == Init => ExpiredInv
<1> SUFFICES ASSUME Init PROVE ExpiredInv
  OBVIOUS
<1>1. \A w \in Worker : /\ worker[w] = Idle /\ Idle.pc = "idle" /\ Idle.doing = "nothing"
                        /\ Idle.token = None
  BY DEF Init, Idle
<1>2. QED
  BY <1>1 DEF Init, ExpiredInv, HeldMatch, OneGrant, GrantIsSpent, OneCaller, LoneCaller

(* A connection can do what it looks like it can: one whose onboarding is   *)
(* over has a credential; one nobody is working on holds a token that can   *)
(* be refreshed for as long as its provider honours anything, however many  *)
(* workers of how many processes refresh it at the same time and whether or *)
(* not the provider rotates; and one that is expired, and refused from then *)
(* on, holds one that cannot, unless a refresh got no answer or two calls   *)
(* raced at a provider that rotates.                                        *)
THEOREM ConnectedWorks == Spec => []ConnectionsWork
<1>1. WorkInv => ConnectedHasCredential /\ StaysRefreshable
  <2>1. ASSUME WorkInv PROVE StaysRefreshable
    <3>1. SUFFICES ASSUME sealed # None, honoured # 0, rejections = 0, crashes = 0,
                          \A w \in Worker : worker[w].pc = "idle"
                   PROVE  sealed.token.refresh = honoured
      BY DEF StaysRefreshable
    <3>2. \A w \in Worker : ~ Stores(worker[w])
      BY <3>1 DEF Stores
    <3>3. QED
      BY <2>1, <3>1, <3>2, Zenon DEF WorkInv, HonouredIsHeld
  <2>2. QED
    BY <2>1 DEF WorkInv
<1>2. ExpiredInv => ExpiredNeedsReauthorising
  BY DEF ExpiredInv, GrantIsSpent, LoneCaller, ExpiredNeedsReauthorising
<1>3. WorkInv /\ ExpiredInv => ConnectionsWork
  BY <1>1, <1>2 DEF ConnectionsWork
<1>4. QED
  BY <1>3, InitWorks, NextWorks, InitOn, NextOn, Invariance, PTL DEF Spec

-----------------------------------------------------------------------------
(***************************************************************************)
(* The connectors.  First their scripts: what an operation may send to     *)
(* which source, and that every script a connector builds sends no more.   *)
(***************************************************************************)

Requests == {"get", "put", "putNext", "post", "postTitle", "upload", "rename", "remove", "cancel",
             "archive", "export", "blocks", "drop", "append", "lookup", "page"}

(* What an operation may send to a source. *)
MaySend(s, op, patch, request) ==
    CASE op \in {"list", "search"} -> request \in {"lookup", "page"}
      [] op = "read" -> request \in {"get", "export", "blocks"}
      [] op = "create" -> \/ request \in {"lookup", "post", "get"}
                          \/ request \in {"postTitle", "upload"} /\ s \in {"drive", "project"}
      [] op = "delete" -> \/ request = "remove"
                          \/ request = "archive" /\ s = "notion"
                          \/ request = "cancel" /\ s \in {"calcom", "calendly"}
      [] op = "update" ->
           \/ request = "get"
           \/ request = "blocks" /\ s = "notion"
           \/ /\ request = "put" /\ s # "confluence"
              /\ (s = "slack" => "body" \in patch) /\ (s = "calcom" => "other" \in patch)
           \/ request = "putNext" /\ s = "confluence"
           \/ request = "rename" /\ "title" \in patch /\ s \in {"notion", "drive"}
           \/ request \in {"drop", "append"} /\ "body" \in patch /\ s = "notion"
           \/ request = "upload" /\ "body" \in patch /\ s = "drive"

Sent(s, op, patch) == {request \in Requests : MaySend(s, op, patch, request)}

(* A script refuses, or sends what it may. *)
Sendable(s, op, patch, script) ==
    /\ script \in Seq(Sent(s, op, patch)) /\ script # <<>>
    /\ s = "confluence" /\ op = "create" => Len(script) = 1

Scripted(s, op, patch, script) == script = Refused \/ Sendable(s, op, patch, script)

(* Scripts of one request, and of two. *)
LEMMA OneRequest ==
  ASSUME NEW s, NEW op, NEW patch, NEW r \in Sent(s, op, patch)
  PROVE  Scripted(s, op, patch, <<r>>)
BY DEF Scripted, Sendable

LEMMA TwoRequests ==
  ASSUME NEW s, NEW op, NEW patch, NEW q \in Sent(s, op, patch), NEW r \in Sent(s, op, patch),
         s # "confluence" \/ op # "create"
  PROVE  Scripted(s, op, patch, <<q, r>>)
<1>1. <<q, r>> \in Seq(Sent(s, op, patch)) /\ <<q, r>> # <<>>
  OBVIOUS
<1>2. QED
  BY <1>1 DEF Scripted, Sendable

(* A script that is only sent on a condition. *)
LEMMA OnlyIf ==
  ASSUME NEW s, NEW op, NEW patch, NEW condition, NEW script,
         condition => Scripted(s, op, patch, script)
  PROVE  Scripted(s, op, patch, Only(condition, script))
BY DEF Only, Scripted

(* A script and what may follow it. *)
LEMMA Followed ==
  ASSUME NEW s, NEW op, NEW patch, s # "confluence" \/ op # "create",
         NEW first \in Seq(Sent(s, op, patch)), NEW second \in Seq(Sent(s, op, patch)),
         first # <<>> \/ second # <<>>
  PROVE  Scripted(s, op, patch, first \o second)
<1>1. first \o second \in Seq(Sent(s, op, patch)) /\ Len(first \o second) = Len(first) + Len(second)
  OBVIOUS
<1>2. Len(first \o second) # 0
  <2>1. Len(first) # 0 \/ Len(second) # 0
    OBVIOUS
  <2>2. Len(first) \in Nat /\ Len(second) \in Nat
    OBVIOUS
  <2>3. QED
    BY <1>1, <2>1, <2>2
<1>3. first \o second # <<>>
  BY <1>2
<1>4. QED
  BY <1>1, <1>3 DEF Scripted, Sendable

(* A part that is only sent on a condition. *)
LEMMA WhenSent ==
  ASSUME NEW S, NEW condition, NEW script, condition => script \in Seq(S)
  PROVE  When(condition, script) \in Seq(S)
BY DEF When

(* The scripts, connector by connector. *)
LEMMA MemoryScripts ==
  ASSUME NEW c, c.op \in Operation
  PROVE  Scripted("memory", c.op, c.patch, MemoryScript(c))
<1>1. \E r \in Sent("memory", c.op, c.patch) : MemoryScript(c) = <<r>>
  BY DEF MemoryScript, Operation, Sent, MaySend, Requests
<1>2. QED
  BY <1>1, OneRequest

LEMMA SlackScripts ==
  ASSUME NEW c, c.op \in Operation
  PROVE  Scripted("slack", c.op, c.patch, SlackScript(c))
<1>1. \/ SlackScript(c) = Refused
      \/ \E r \in Sent("slack", c.op, c.patch) : SlackScript(c) = <<r>>
  BY DEF SlackScript, SlackList, SlackListMessages, SlackReadChannel, SlackReadMessage, SlackPost,
         SlackUpdate, SlackDelete, Only, Operation, Sent, MaySend, Requests
<1>2. QED
  BY <1>1, OneRequest DEF Scripted

LEMMA TeamsScripts ==
  ASSUME NEW c, c.op \in Operation
  PROVE  Scripted("teams", c.op, c.patch, TeamsScript(c))
<1>1. \/ TeamsScript(c) = Refused
      \/ \E r \in Sent("teams", c.op, c.patch) : TeamsScript(c) = <<r>>
  BY DEF TeamsScript, TeamsList, TeamsPost, Only, Operation, Sent, MaySend, Requests
<1>2. QED
  BY <1>1, OneRequest DEF Scripted

LEMMA CalendarScripts ==
  ASSUME NEW c, c.op \in Operation
  PROVE  Scripted("calendar", c.op, c.patch, CalendarScript(c))
<1>1. \/ CalendarScript(c) = Refused
      \/ \E r \in Sent("calendar", c.op, c.patch) : CalendarScript(c) = <<r>>
  BY DEF CalendarScript, CalendarList, CalendarListEvents, CalendarCreate, CalendarUpdate,
         CalendarDelete, Only, Operation, Sent, MaySend, Requests
<1>2. QED
  BY <1>1, OneRequest DEF Scripted

LEMMA CalcomScripts ==
  ASSUME NEW c, c.op \in Operation
  PROVE  Scripted("calcom", c.op, c.patch, CalcomScript(c))
<1>1. \/ CalcomScript(c) = Refused
      \/ \E r \in Sent("calcom", c.op, c.patch) : CalcomScript(c) = <<r>>
  BY DEF CalcomScript, CalcomListBookings, CalcomListEventTypes, CalcomCreate, CalcomUpdate,
         CalcomDelete, Only, Operation, Sent, MaySend, Requests
<1>2. QED
  BY <1>1, OneRequest DEF Scripted

LEMMA CalendlyScripts ==
  ASSUME NEW c, c.op \in Operation
  PROVE  Scripted("calendly", c.op, c.patch, CalendlyScript(c))
<1>1. CASE c.op = "list"
  <2>1. CalendlyScript(c) = <<"lookup">> \o <<"page">>
    BY <1>1 DEF CalendlyScript, CalendlyList, CalendlyScopedParams
  <2>2. "lookup" \in Sent("calendly", c.op, c.patch) /\ "page" \in Sent("calendly", c.op, c.patch)
    BY <1>1 DEF Sent, MaySend, Requests
  <2>3. /\ <<"lookup">> \in Seq(Sent("calendly", c.op, c.patch))
        /\ <<"page">> \in Seq(Sent("calendly", c.op, c.patch)) /\ <<"lookup">> # <<>>
    BY <2>2
  <2>4. Scripted("calendly", c.op, c.patch, <<"lookup">> \o <<"page">>)
    BY <2>3, Followed
  <2>5. QED
    BY <2>1, <2>4
<1>2. CASE c.op # "list"
  <2>1. \/ CalendlyScript(c) = Refused
        \/ \E r \in Sent("calendly", c.op, c.patch) : CalendlyScript(c) = <<r>>
    BY <1>2 DEF CalendlyScript, CalendlyDelete, Only, Operation, Sent, MaySend, Requests
  <2>2. QED
    BY <2>1, OneRequest DEF Scripted
<1>3. QED
  BY <1>1, <1>2

LEMMA JiraScripts ==
  ASSUME NEW c, c.op \in Operation
  PROVE  Scripted("jira", c.op, c.patch, JiraScript(c))
<1> DEFINE S == Sent("jira", c.op, c.patch)
<1>1. CASE c.op \in {"create", "update"}
  <2>1. \/ JiraScript(c) = Refused
        \/ \E r \in {"post", "put"} : r \in S /\ JiraScript(c) = <<r>> \o <<"get">>
    BY <1>1 DEF JiraScript, JiraCreate, JiraUpdate, JiraRead, Only, Sent, MaySend, Requests
  <2>2. "get" \in S
    BY <1>1 DEF Sent, MaySend, Requests
  <2>3. ASSUME NEW r \in S
        PROVE  Scripted("jira", c.op, c.patch, <<r>> \o <<"get">>)
    <3>1. <<r>> \in Seq(S) /\ <<"get">> \in Seq(S) /\ <<r>> # <<>>
      BY <2>2
    <3>2. QED
      BY <3>1, Followed
  <2>4. QED
    BY <2>1, <2>3 DEF Scripted
<1>2. CASE c.op \notin {"create", "update"}
  <2>1. \E r \in S : JiraScript(c) = <<r>>
    BY <1>2 DEF JiraScript, JiraList, JiraSearch, JiraRead, JiraDelete, Operation, Sent, MaySend, Requests
  <2>2. QED
    BY <2>1, OneRequest
<1>3. QED
  BY <1>1, <1>2

LEMMA ConfluenceScripts ==
  ASSUME NEW c, c.op \in Operation
  PROVE  Scripted("confluence", c.op, c.patch, ConfluenceScript(c))
<1> DEFINE S == Sent("confluence", c.op, c.patch)
<1>1. CASE c.op = "update"
  <2>1. ConfluenceScript(c) = <<"get", "putNext">>
    BY <1>1 DEF ConfluenceScript, ConfluenceUpdate
  <2>2. "get" \in S /\ "putNext" \in S
    BY <1>1 DEF Sent, MaySend, Requests
  <2>3. Scripted("confluence", c.op, c.patch, <<"get", "putNext">>)
    BY <1>1, <2>2, TwoRequests
  <2>4. QED
    BY <2>1, <2>3
<1>2. CASE c.op # "update"
  <2>1. \/ ConfluenceScript(c) = Refused
        \/ \E r \in S : ConfluenceScript(c) = <<r>>
    BY <1>2 DEF ConfluenceScript, ConfluenceList, ConfluenceSearch, ConfluenceRead, ConfluenceCreate,
                ConfluenceDelete, Only, Operation, Sent, MaySend, Requests
  <2>2. QED
    BY <2>1, OneRequest DEF Scripted
<1>3. QED
  BY <1>1, <1>2

LEMMA DriveScripts ==
  ASSUME NEW c, c.op \in Operation
  PROVE  Scripted("drive", c.op, c.patch, DriveScript(c))
<1> DEFINE S == Sent("drive", c.op, c.patch)
<1>1. CASE c.op \in {"list", "search", "delete"}
  <2>1. \E r \in S : DriveScript(c) = <<r>>
    BY <1>1 DEF DriveScript, DriveList, DriveSearch, DriveDelete, Sent, MaySend, Requests
  <2>2. QED
    BY <2>1, OneRequest
<1>2. CASE c.op \in {"read", "create", "update"}
  <2> DEFINE r == CASE c.op = "read" -> "get" [] c.op = "create" -> "postTitle"
                    [] c.op = "update" -> IF "title" \in c.patch THEN "rename" ELSE "get"
             q == IF c.op = "read" THEN "export" ELSE "upload"
             wanted == CASE c.op = "read" -> c.kind = "text" [] c.op = "create" -> c.body /\ ~c.meta
                         [] c.op = "update" -> "body" \in c.patch
  <2>1. DriveScript(c) = <<r>> \o When(wanted, <<q>>)
    <3>1. CASE c.op = "read"
      BY <3>1 DEF DriveScript, DriveRead, DriveContent
    <3>2. CASE c.op = "create"
      BY <3>2 DEF DriveScript, DriveCreate
    <3>3. CASE c.op = "update"
      BY <3>3 DEF DriveScript, DriveUpdate
    <3>4. QED
      BY <1>2, <3>1, <3>2, <3>3
  <2>2. r \in S /\ (wanted => q \in S)
    BY <1>2 DEF Sent, MaySend, Requests
  <2> HIDE DEF r, q, wanted, S
  <2>3. <<r>> \in Seq(S) /\ <<r>> # <<>> /\ When(wanted, <<q>>) \in Seq(S)
    <3>1. <<r>> \in Seq(S) /\ <<r>> # <<>> /\ (wanted => <<q>> \in Seq(S))
      BY <2>2
    <3>2. When(wanted, <<q>>) \in Seq(S)
      BY <3>1, WhenSent
    <3>3. QED
      BY <3>1, <3>2
  <2>4. Scripted("drive", c.op, c.patch, <<r>> \o When(wanted, <<q>>))
    BY <2>3, Followed DEF S
  <2>5. QED
    BY <2>1, <2>4
<1>3. QED
  BY <1>1, <1>2 DEF Operation

LEMMA NotionScripts ==
  ASSUME NEW c, c.op \in Operation
  PROVE  Scripted("notion", c.op, c.patch, NotionScript(c))
<1> DEFINE S == Sent("notion", c.op, c.patch)
<1>1. CASE c.op \in {"list", "search", "delete"}
  <2>1. \/ NotionScript(c) = Refused \/ \E r \in S : NotionScript(c) = <<r>>
    BY <1>1 DEF NotionScript, NotionList, NotionDelete, Only, Sent, MaySend, Requests
  <2>2. QED
    BY <2>1, OneRequest DEF Scripted
<1>2. CASE c.op = "read"
  <2>1. NotionScript(c) = <<"get">> \/ NotionScript(c) = <<"get", "blocks">>
    BY <1>2 DEF NotionScript, NotionRead, NotionReadPage
  <2>2. "get" \in S /\ "blocks" \in S
    BY <1>2 DEF Sent, MaySend, Requests
  <2>3. Scripted("notion", c.op, c.patch, <<"get">>) /\ Scripted("notion", c.op, c.patch, <<"get", "blocks">>)
    BY <2>2, OneRequest, TwoRequests
  <2>4. QED
    BY <2>1, <2>3
<1>3. CASE c.op = "create"
  <2> DEFINE inside == NotionRef(c.parent).kind = "database"
  <2>1. \/ NotionScript(c) = Refused
        \/ NotionScript(c) = When(inside, <<"lookup">>) \o <<"post">>
    BY <1>3 DEF NotionScript, NotionCreate, NotionCreatePage, Only
  <2>2. <<"lookup">> \in Seq(S) /\ <<"post">> \in Seq(S) /\ <<"post">> # <<>>
    BY <1>3 DEF Sent, MaySend, Requests
  <2> HIDE DEF inside, S
  <2>3. When(inside, <<"lookup">>) \in Seq(S)
    BY <2>2, WhenSent
  <2>4. Scripted("notion", c.op, c.patch, When(inside, <<"lookup">>) \o <<"post">>)
    BY <2>2, <2>3, Followed DEF S
  <2>5. QED
    BY <2>1, <2>4 DEF Scripted
<1>4. CASE c.op = "update"
  <2> DEFINE first == When("title" \in c.patch, <<"get", "rename">>)
             second == When("body" \in c.patch, <<"blocks", "drop", "append">>)
             third == <<"get", "blocks">>
  <2>1. NotionScript(c) = <<"put">> \/ NotionScript(c) = first \o second \o third
    BY <1>4 DEF NotionScript, NotionUpdate, NotionUpdateDatabase, NotionUpdatePage,
                NotionReplaceContent, NotionReadPage
  <2>2. /\ "get" \in S /\ "blocks" \in S /\ "put" \in S
        /\ "title" \in c.patch => "rename" \in S
        /\ "body" \in c.patch => "drop" \in S /\ "append" \in S
    BY <1>4 DEF Sent, MaySend, Requests
  <2>3. /\ "title" \in c.patch => <<"get", "rename">> \in Seq(S)
        /\ "body" \in c.patch => <<"blocks", "drop", "append">> \in Seq(S)
        /\ third \in Seq(S) /\ third # <<>>
    BY <2>2
  <2>4. first \in Seq(S) /\ second \in Seq(S)
    <3> HIDE DEF S
    <3>1. QED
      BY <2>3, WhenSent
  <2> HIDE DEF first, second, third
  <2>5. first \o second \in Seq(S)
    BY <2>4
  <2>6. Scripted("notion", c.op, c.patch, (first \o second) \o third)
    BY <2>3, <2>5, Followed
  <2>7. Scripted("notion", c.op, c.patch, <<"put">>)
    BY <2>2, OneRequest
  <2>8. QED
    BY <2>1, <2>6, <2>7
<1>5. QED
  BY <1>1, <1>2, <1>3, <1>4 DEF Operation

(* The four kinds of GitHub. *)
LEMMA KindScripts ==
  ASSUME NEW k \in {"issue", "discussion", "project", "code"}, NEW s, s \notin {"confluence", "slack", "calcom"},
         NEW c, c.op \in Operation, c.op = "create" => s = k
  PROVE  Scripted(s, c.op, c.patch, GitHubScript(k, c))
<1> DEFINE S == Sent(s, c.op, c.patch)
<1>1. /\ c.op = "create" => "post" \in S /\ "lookup" \in S
      /\ c.op = "create" /\ k = "project" => "postTitle" \in S /\ "upload" \in S
      /\ c.op \in {"list", "search"} => "page" \in S
      /\ c.op \in {"read", "update"} => "get" \in S
      /\ c.op = "update" => "put" \in S
  BY DEF Sent, MaySend, Requests
<1>2. /\ k = "issue" => c.op \in {"list", "read", "search", "create", "update"}
      /\ k \in {"discussion", "project"} => c.op \in {"list", "read", "create", "update"}
      /\ k = "code" => c.op \in {"list", "read"}
      => Scripted(s, c.op, c.patch, KindScript(k, c))
  <2> SUFFICES ASSUME /\ k = "issue" => c.op \in {"list", "read", "search", "create", "update"}
                      /\ k \in {"discussion", "project"} => c.op \in {"list", "read", "create", "update"}
                      /\ k = "code" => c.op \in {"list", "read"}
               PROVE  Scripted(s, c.op, c.patch, KindScript(k, c))
    OBVIOUS
  <2>1. CASE k = "issue"
    <3>1. KindScript(k, c) = Refused \/ \E r \in S : KindScript(k, c) = <<r>>
      <4> HIDE DEF S
      <4>1. KindScript(k, c) = IssueScript(c)
        BY <2>1 DEF KindScript
      <4>2. QED
        BY <1>1, <2>1, <4>1 DEF IssueScript, IssueList, IssueRead, IssueSearch, IssueCreate, IssueUpdate, Only
    <3>2. QED
      BY <3>1, OneRequest DEF Scripted
  <2>2. CASE k = "discussion"
    <3> HIDE DEF S
    <3>1. KindScript(k, c) = DiscussionScript(c)
      BY <2>2 DEF KindScript
    <3>2. CASE c.op \in {"list", "read"}
      <4>1. KindScript(k, c) = Refused \/ \E r \in S : KindScript(k, c) = <<r>>
        BY <1>1, <3>1, <3>2 DEF DiscussionScript, DiscussionList, DiscussionFind, Only
      <4>2. QED
        BY <4>1, OneRequest DEF Scripted, S
    <3>3. CASE c.op = "create"
      <4>1. KindScript(k, c) = Refused \/ KindScript(k, c) = <<"lookup", "post">>
        BY <3>1, <3>3 DEF DiscussionScript, DiscussionCreate, Only
      <4>2. Scripted(s, c.op, c.patch, <<"lookup", "post">>)
        BY <1>1, <3>3, TwoRequests DEF S
      <4>3. QED
        BY <4>1, <4>2 DEF Scripted
    <3>4. CASE c.op = "update"
      <4>1. KindScript(k, c) = <<"get">> \o <<"put">>
        BY <3>1, <3>4 DEF DiscussionScript, DiscussionUpdate, DiscussionFind
      <4>2. <<"get">> \in Seq(S) /\ <<"put">> \in Seq(S) /\ <<"put">> # <<>>
        BY <1>1, <3>4
      <4>3. Scripted(s, c.op, c.patch, <<"get">> \o <<"put">>)
        BY <4>2, Followed DEF S
      <4>4. QED
        BY <4>1, <4>3
    <3>5. QED
      BY <2>2, <3>2, <3>3, <3>4
  <2>3. CASE k = "project"
    <3> HIDE DEF S
    <3>1. KindScript(k, c) = ProjectScript(c)
      BY <2>3 DEF KindScript
    <3>2. CASE c.op \in {"list", "read"}
      <4>1. KindScript(k, c) = Refused \/ \E r \in S : KindScript(k, c) = <<r>>
        BY <1>1, <3>1, <3>2 DEF ProjectScript, ProjectList, ProjectFind, Only
      <4>2. QED
        BY <4>1, OneRequest DEF Scripted, S
    <3>3. CASE c.op = "create"
      <4>1. \/ KindScript(k, c) = Refused
            \/ KindScript(k, c) = <<"lookup", "postTitle">> \o When(c.body, <<"upload">>)
        BY <3>1, <3>3 DEF ProjectScript, ProjectCreate, Only
      <4>2. <<"lookup", "postTitle">> \in Seq(S) /\ <<"upload">> \in Seq(S) /\ <<"lookup", "postTitle">> # <<>>
        BY <1>1, <2>3, <3>3
      <4>3. When(c.body, <<"upload">>) \in Seq(S)
        BY <4>2, WhenSent
      <4>4. Scripted(s, c.op, c.patch, <<"lookup", "postTitle">> \o When(c.body, <<"upload">>))
        BY <4>2, <4>3, Followed DEF S
      <4>5. QED
        BY <4>1, <4>4 DEF Scripted
    <3>4. CASE c.op = "update"
      <4>1. KindScript(k, c) = <<"get">> \o <<"put">>
        BY <3>1, <3>4 DEF ProjectScript, ProjectUpdate, ProjectFind
      <4>2. <<"get">> \in Seq(S) /\ <<"put">> \in Seq(S) /\ <<"put">> # <<>>
        BY <1>1, <3>4
      <4>3. Scripted(s, c.op, c.patch, <<"get">> \o <<"put">>)
        BY <4>2, Followed DEF S
      <4>4. QED
        BY <4>1, <4>3
    <3>5. QED
      BY <2>3, <3>2, <3>3, <3>4
  <2>4. CASE k = "code"
    <3>1. KindScript(k, c) = Refused \/ \E r \in S : KindScript(k, c) = <<r>>
      <4> HIDE DEF S
      <4>1. QED
        BY <1>1, <2>4 DEF KindScript, CodeList, CodeRead, Only
    <3>2. QED
      BY <3>1, OneRequest DEF Scripted
  <2>5. QED
    BY <2>1, <2>2, <2>3, <2>4
<1>3. c.op \in KindCan[k] =>
      /\ k = "issue" => c.op \in {"list", "read", "search", "create", "update"}
      /\ k \in {"discussion", "project"} => c.op \in {"list", "read", "create", "update"}
      /\ k = "code" => c.op \in {"list", "read"}
  BY DEF KindCan
<1>4. c.op \in KindCan[k] => Scripted(s, c.op, c.patch, KindScript(k, c))
  BY <1>2, <1>3
<1>5. QED
  BY <1>4, OnlyIf DEF GitHubScript

Sources == {"memory", "notion", "drive", "confluence", "slack", "teams", "calendar", "calcom",
            "calendly", "jira", "issue", "discussion", "project", "code"}

(* Every script of every connector. *)
LEMMA Scripts ==
  ASSUME NEW s \in Sources, NEW c, c.op \in Operation
  PROVE  Scripted(s, c.op, c.patch, Script(s, c))
<1>1. CASE s \in {"memory", "notion", "drive", "confluence", "slack", "teams", "calendar", "calcom",
                  "calendly", "jira"}
  <2>1. Script("memory", c) = MemoryScript(c)
    BY DEF Script, GitHub
  <2>2. Script("notion", c) = NotionScript(c)
    BY DEF Script, GitHub
  <2>3. Script("drive", c) = DriveScript(c)
    BY DEF Script, GitHub
  <2>4. Script("confluence", c) = ConfluenceScript(c)
    BY DEF Script, GitHub
  <2>5. Script("slack", c) = SlackScript(c)
    BY DEF Script, GitHub
  <2>6. Script("teams", c) = TeamsScript(c)
    BY DEF Script, GitHub
  <2>7. Script("calendar", c) = CalendarScript(c)
    BY DEF Script, GitHub
  <2>8. Script("calcom", c) = CalcomScript(c)
    BY DEF Script, GitHub
  <2>9. Script("calendly", c) = CalendlyScript(c)
    BY DEF Script, GitHub
  <2>10. Script("jira", c) = JiraScript(c)
    BY DEF Script, GitHub
  <2>11. QED
    BY <1>1, <2>1, <2>2, <2>3, <2>4, <2>5, <2>6, <2>7, <2>8, <2>9, <2>10,
       MemoryScripts, NotionScripts, DriveScripts, ConfluenceScripts, SlackScripts, TeamsScripts,
       CalendarScripts, CalcomScripts, CalendlyScripts, JiraScripts, Zenon
<1>2. CASE s \in {"issue", "discussion", "project", "code"}
  <2> DEFINE k == IF c.op \in {"list", "search", "create"} THEN s ELSE Addressed(c.id)
  <2>1. Addressed(c.id) \in {"issue", "discussion", "project", "code"}
    BY DEF Addressed, Prefix
  <2>2. Script(s, c) = GitHubScript(k, c)
    BY <1>2 DEF Script, GitHub
  <2>3. k \in {"issue", "discussion", "project", "code"} /\ (c.op = "create" => s = k)
    BY <1>2, <2>1
  <2> HIDE DEF k
  <2>4. Scripted(s, c.op, c.patch, GitHubScript(k, c))
    BY <1>2, <2>3, KindScripts
  <2>5. QED
    BY <2>2, <2>4
<1>3. QED
  BY <1>1, <1>2 DEF Sources

-----------------------------------------------------------------------------
(***************************************************************************)
(* Ids and parents: what an id was joined from is what it is split into,   *)
(* so that the container a resource names is the one it is in.             *)
(***************************************************************************)

(* What is before a mark, and after it. *)
LEMMA MarkedAt ==
  ASSUME NEW S, NEW s \in Seq(S), NEW T, NEW u \in Seq(T), NEW mark, mark \notin Range(s)
  PROVE  LET w == s \o <<mark>> \o u
         IN  /\ w \in Seq(S \cup T \cup {mark}) /\ Len(w) = Len(s) + 1 + Len(u)
             /\ w[Len(s) + 1] = mark
             /\ \A k \in 1..Len(s) : w[k] = s[k] /\ w[k] # mark
             /\ \A k \in 1..Len(u) : w[Len(s) + 1 + k] = u[k]
<1> DEFINE A == S \cup T \cup {mark}
           w == s \o <<mark>> \o u
<1>1. s \in Seq(A) /\ <<mark>> \in Seq(A) /\ u \in Seq(A) /\ Len(s) \in Nat /\ Len(u) \in Nat
  OBVIOUS
<1> HIDE DEF A
<1>2. /\ s \o <<mark>> \in Seq(A) /\ Len(s \o <<mark>>) = Len(s) + 1
      /\ (s \o <<mark>>)[Len(s) + 1] = mark
      /\ \A k \in 1..Len(s) : (s \o <<mark>>)[k] = s[k]
  BY <1>1
<1> DEFINE v == s \o <<mark>>
<1> HIDE DEF v
<1>3. v \in Seq(A) /\ Len(v) = Len(s) + 1 /\ v[Len(s) + 1] = mark /\ \A k \in 1..Len(s) : v[k] = s[k]
  BY <1>2 DEF v
<1>4. /\ v \o u \in Seq(A) /\ Len(v \o u) = Len(v) + Len(u)
      /\ \A k \in 1..Len(v) : (v \o u)[k] = v[k]
      /\ \A k \in 1..Len(u) : (v \o u)[Len(v) + k] = u[k]
  BY <1>1, <1>3, SMTT(60)
<1>5. \A k \in 1..Len(s) : s[k] # mark
  <2>1. DOMAIN s = 1..Len(s)
    OBVIOUS
  <2>2. QED
    BY <2>1 DEF Range
<1>6. w = v \o u
  BY DEF v
<1>7. /\ w \in Seq(A) /\ Len(w) = Len(s) + 1 + Len(u)
      /\ w[Len(s) + 1] = mark
      /\ \A k \in 1..Len(s) : w[k] = s[k] /\ w[k] # mark
      /\ \A k \in 1..Len(u) : w[Len(s) + 1 + k] = u[k]
  BY <1>1, <1>3, <1>4, <1>5, <1>6
<1>8. QED
  BY <1>7 DEF A

(* Text split at its first mark, and at its last. *)
LEMMA SplitAtMark ==
  ASSUME NEW S, NEW s \in Seq(S), NEW T, NEW u \in Seq(T), NEW mark, mark \notin Range(s)
  PROVE  LET w == s \o <<mark>> \o u
         IN  /\ Places(w, mark) # {} /\ FirstOf(w, mark) = Len(s) + 1
             /\ Upto(w, Len(s) + 1) = s /\ From(w, Len(s) + 1) = u
             /\ Len(w) = Len(s) + 1 + Len(u) /\ w \in Seq(S \cup T \cup {mark})
<1> DEFINE w == s \o <<mark>> \o u
           n == Len(s)
<1>1. /\ w \in Seq(S \cup T \cup {mark}) /\ Len(w) = n + 1 + Len(u)
      /\ w[n + 1] = mark
      /\ \A k \in 1..n : w[k] = s[k] /\ w[k] # mark
      /\ \A k \in 1..Len(u) : w[n + 1 + k] = u[k]
  BY MarkedAt
<1> HIDE DEF w
<1>2. n \in Nat /\ Len(u) \in Nat /\ Len(w) \in Nat
  BY <1>1
<1>3. n + 1 \in Places(w, mark)
  BY <1>1, <1>2 DEF Places
<1>4. \A j \in Places(w, mark) : n + 1 <= j
  <2> SUFFICES ASSUME NEW j \in Places(w, mark), ~ (n + 1 <= j)
               PROVE  FALSE
    OBVIOUS
  <2>1. j \in 1..n /\ w[j] = mark
    BY <1>2 DEF Places
  <2>2. QED
    BY <1>1, <2>1
<1>5. \A i \in Places(w, mark) : i \in Nat
  BY <1>2 DEF Places
<1>6. FirstOf(w, mark) = n + 1
  <2> DEFINE least(i) == i \in Places(w, mark) /\ \A j \in Places(w, mark) : i <= j
  <2>1. \A i \in Places(w, mark) : (\A j \in Places(w, mark) : i <= j) => i = n + 1
    BY <1>2, <1>3, <1>4, <1>5
  <2>2. QED
    BY <1>3, <1>4, <2>1 DEF FirstOf
<1>7. Upto(w, n + 1) = s
  <2>1. Upto(w, n + 1) = [k \in 1..n |-> w[k]]
    BY <1>1, <1>2 DEF Upto
  <2>2. s = [k \in 1..n |-> s[k]]
    BY <1>2
  <2>3. QED
    BY <1>1, <2>1, <2>2
<1>8. From(w, n + 1) = u
  <2>1. From(w, n + 1) = [k \in 1..Len(u) |-> w[n + 1 + k]]
    <3>1. From(w, n + 1) = SubSeq(w, n + 2, n + 1 + Len(u))
      BY <1>1, <1>2 DEF From
    <3>2. SubSeq(w, n + 2, n + 1 + Len(u)) = [k \in 1..((n + 1 + Len(u)) - (n + 2) + 1) |-> w[n + 2 + k - 1]]
      BY <1>1, <1>2
    <3>3. (n + 1 + Len(u)) - (n + 2) + 1 = Len(u) /\ \A k \in 1..Len(u) : n + 2 + k - 1 = n + 1 + k
      BY <1>2
    <3>4. QED
      BY <3>1, <3>2, <3>3
  <2>2. u = [k \in 1..Len(u) |-> u[k]]
    BY <1>2
  <2>3. QED
    BY <1>1, <2>1, <2>2
<1>9. QED
  BY <1>1, <1>3, <1>6, <1>7, <1>8 DEF w

(* A prefix is taken off again. *)
LEMMA AfterFirst ==
  ASSUME NEW S, NEW s \in Seq(S), NEW e
  PROVE  LET w == <<e>> \o s IN w # <<>> /\ Head(w) = e /\ Tail(w) = s
<1> DEFINE A == S \cup {e}
           w == <<e>> \o s
<1>1. s \in Seq(A) /\ <<e>> \in Seq(A) /\ Len(<<e>>) = 1 /\ <<e>>[1] = e
  OBVIOUS
<1> HIDE DEF A
<1>2. /\ w \in Seq(A) /\ Len(w) = 1 + Len(s) /\ w[1] = e
      /\ \A k \in 1..Len(s) : w[1 + k] = s[k]
  BY <1>1
<1> HIDE DEF w
<1>3. w # <<>> /\ Head(w) = e
  BY <1>2
<1>4. /\ Tail(w) \in Seq(A) /\ Len(Tail(w)) = Len(w) - 1
      /\ \A k \in 1..Len(Tail(w)) : Tail(w)[k] = w[k + 1]
  BY <1>2, <1>3, HeadTailProperties
<1>5. Len(s) \in Nat /\ Len(Tail(w)) = Len(s)
  BY <1>1, <1>2, <1>4
<1>6. Tail(w) = s
  <2>1. \A k \in 1..Len(s) : Tail(w)[k] = s[k]
    BY <1>2, <1>4, <1>5
  <2>2. QED
    BY <1>1, <1>4, <1>5, <2>1, SeqEqual
<1>7. QED
  BY <1>3, <1>6 DEF w

(* The least and the greatest of a set of numbers. *)
LEMMA FirstNumber ==
  ASSUME NEW T \in SUBSET Nat, T # {}
  PROVE  \E x \in T : \A y \in T : x <= y
<1>1. PICK x \in T : \A y \in T : <<y, x>> \notin OpToRel(<, Nat)
  BY WFMin, NatLessThanWellFounded, Zenon
<1>2. \A y \in T : ~ (y < x)
  BY <1>1, Zenon DEF OpToRel
<1>3. QED
  BY <1>2

LEMMA LastNumber ==
  ASSUME NEW n \in Nat, NEW T, T \subseteq 1..n, T # {}
  PROVE  \E i \in T : \A j \in T : i >= j
<1> DEFINE U == {k \in 0..n : n - k \in T}
<1>1. U \in SUBSET Nat
  OBVIOUS
<1>2. U # {}
  <2>1. PICK i \in T : TRUE
    OBVIOUS
  <2>2. n - i \in 0..n /\ n - (n - i) = i
    BY <2>1
  <2>3. QED
    BY <2>2
<1>3. PICK k \in U : \A m \in U : k <= m
  <2> HIDE DEF U
  <2>1. QED
    BY <1>1, <1>2, FirstNumber, Zenon
<1>4. ASSUME NEW j \in T
      PROVE  n - k >= j
  <2>1. n - j \in 0..n /\ n - (n - j) = j /\ k \in 0..n
    BY <1>3
  <2>2. n - j \in U
    BY <2>1
  <2>3. k <= n - j
    BY <1>3, <2>2
  <2>4. QED
    BY <2>1, <2>3
<1>5. QED
  BY <1>3, <1>4

(* Parents, connector by connector. *)
LEMMA ChatParents ==
  ASSUME NEW top, NEW thing
  PROVE  /\ Encloses("slack", top, thing) => SlackContainer(SlackResource(thing).parent) = top
         /\ Encloses("teams", top, thing) => TeamsRef(TeamsResource(thing).parent) = top
<1>1. ASSUME Encloses("slack", top, thing)
      PROVE  SlackContainer(SlackResource(thing).parent) = top
  <2>1. /\ thing.kind = "message" /\ thing.channel \in Seq(Range(thing.channel))
        /\ top = [kind |-> "channel", channel |-> thing.channel]
    BY <1>1 DEF Encloses, IsName
  <2>2. SlackResource(thing).parent = <<"channel:">> \o thing.channel
    BY <2>1 DEF SlackResource, SlackMessage
  <2> DEFINE p == <<"channel:">> \o thing.channel
  <2>3. p # <<>> /\ Head(p) = "channel:" /\ Tail(p) = thing.channel
    BY <2>1, AfterFirst
  <2> HIDE DEF p
  <2>4. SlackContainer(p) = top
    BY <2>1, <2>3 DEF SlackContainer, Starts
  <2>5. QED
    BY <2>2, <2>4 DEF p
<1>2. ASSUME Encloses("teams", top, thing)
      PROVE  TeamsRef(TeamsResource(thing).parent) = top
  <2> DEFINE team == thing.team
             channel == thing.channel
             rest == team \o <<":">> \o channel
             p == <<"channel:">> \o rest
  <2>1. /\ thing.kind = "message" /\ team \in Seq(Range(team)) /\ channel \in Seq(Range(channel))
        /\ team # <<>> /\ channel # <<>> /\ ":" \notin Range(team)
        /\ top = [kind |-> "channel", team |-> team, channel |-> channel]
    BY <1>2 DEF Encloses, IsName
  <2>2. TeamsResource(thing).parent = <<"channel:">> \o team \o <<":">> \o channel
    BY <2>1 DEF TeamsResource, TeamsMessage
  <2> HIDE DEF team, channel
  <2>3. <<"channel:">> \o team \o <<":">> \o channel = p
    BY <2>1
  <2>4. /\ Places(rest, ":") # {} /\ FirstOf(rest, ":") = Len(team) + 1
        /\ Upto(rest, Len(team) + 1) = team /\ From(rest, Len(team) + 1) = channel
        /\ Len(rest) = Len(team) + 1 + Len(channel)
        /\ rest \in Seq(Range(team) \cup Range(channel) \cup {":"})
    BY <2>1, SplitAtMark
  <2> HIDE DEF rest
  <2>5. p # <<>> /\ Head(p) = "channel:" /\ Tail(p) = rest
    BY <2>4, AfterFirst
  <2> HIDE DEF p
  <2>6. Inside(rest, Len(team) + 1)
    <3>1. Len(team) \in Nat \ {0} /\ Len(channel) \in Nat \ {0}
      BY <2>1
    <3>2. QED
      BY <2>4, <3>1 DEF Inside
  <2>7. ~ Starts(p, "team:") /\ Starts(p, "channel:")
    BY <2>5 DEF Starts
  <2>8. TeamsRef(p) = [kind |-> "channel", team |-> Upto(Tail(p), FirstOf(Tail(p), ":")),
                       channel |-> From(Tail(p), FirstOf(Tail(p), ":"))]
    BY <2>4, <2>5, <2>6, <2>7 DEF TeamsRef
  <2>9. QED
    BY <2>1, <2>2, <2>3, <2>4, <2>5, <2>8
<1>3. QED
  BY <1>1, <1>2

LEMMA ScheduleParents ==
  ASSUME NEW top, NEW thing
  PROVE  /\ Encloses("calendar", top, thing) =>
              CalendarContainer(CalendarResource(thing).parent) = top
         /\ Encloses("calcom", top, thing) => CalcomContainer(CalcomResource(thing).parent) = top
<1>1. ASSUME Encloses("calendar", top, thing)
      PROVE  CalendarContainer(CalendarResource(thing).parent) = top
  <2>1. /\ thing.kind = "event" /\ thing.calendar \in Seq(Range(thing.calendar))
        /\ top = [kind |-> "calendar", calendar |-> thing.calendar]
    BY <1>1 DEF Encloses, IsName
  <2>2. CalendarResource(thing).parent = <<"calendar:">> \o thing.calendar
    BY <2>1 DEF CalendarResource
  <2> DEFINE p == <<"calendar:">> \o thing.calendar
  <2>3. p # <<>> /\ Head(p) = "calendar:" /\ Tail(p) = thing.calendar
    BY <2>1, AfterFirst
  <2> HIDE DEF p
  <2>4. CalendarContainer(p) = top
    BY <2>1, <2>3 DEF CalendarContainer, Bare, Starts
  <2>5. QED
    BY <2>2, <2>4 DEF p
<1>2. ASSUME Encloses("calcom", top, thing)
      PROVE  CalcomContainer(CalcomResource(thing).parent) = top
  <2>1. /\ thing.kind = "booking" /\ thing.type \in Seq(Range(thing.type))
        /\ top = [kind |-> "event-type", type |-> thing.type]
    BY <1>2 DEF Encloses, IsName
  <2>2. CalcomResource(thing).parent = <<"event-type:">> \o thing.type
    BY <2>1 DEF CalcomResource, CalcomBooking
  <2> DEFINE p == <<"event-type:">> \o thing.type
  <2>3. p # <<>> /\ Head(p) = "event-type:" /\ Tail(p) = thing.type
    BY <2>1, AfterFirst
  <2> HIDE DEF p
  <2>4. CalcomContainer(p) = top
    BY <2>1, <2>3 DEF CalcomContainer, Bare, Starts
  <2>5. QED
    BY <2>2, <2>4 DEF p
<1>3. QED
  BY <1>1, <1>2

LEMMA CodeParent ==
  ASSUME NEW top, NEW thing, Encloses("code", top, thing)
  PROVE  CodeContainer(CodeResource(thing).parent) = top
<1> DEFINE repo == thing.repo
           slash == Places(thing.path, "/")
           dir == Upto(thing.path, LastOf(thing.path, "/"))
           rest == repo \o <<":">> \o dir
           p == <<"code:">> \o rest
<1>1. /\ repo \in Seq(Range(repo)) /\ Len(repo) = 3 /\ repo[2] = "/"
      /\ thing.path \in Seq(Range(thing.path)) /\ Range(repo) \cap {":", "code:"} = {}
      /\ top = [repo |-> repo, path |-> IF slash = {} THEN <<>> ELSE dir]
  BY DEF Encloses, IsName, IsRepo
<1>2. CodeResource(thing).parent = IF slash = {} THEN repo ELSE <<"code:">> \o repo \o <<":">> \o dir
  BY DEF CodeResource
<1>3. CASE slash = {}
  <2>1. repo # <<>> /\ Head(repo) # "code:"
    <3>1. Head(repo) = repo[1] /\ repo[1] \in Range(repo)
      BY <1>1
    <3>2. QED
      BY <1>1, <3>1
  <2> HIDE DEF repo, slash, dir
  <2>2. CodeContainer(repo) = top
    BY <1>1, <1>3, <2>1 DEF CodeContainer, Starts
  <2>3. QED
    BY <1>2, <1>3, <2>2
<1>4. CASE slash # {}
  <2>1. dir \in Seq(Range(thing.path))
    <3>1. \A i \in slash : i \in 1..Len(thing.path)
      BY DEF Places
    <3>2. \E i \in slash : \A j \in slash : i >= j
      <4>1. Len(thing.path) \in Nat /\ slash \subseteq 1..Len(thing.path)
        BY <1>1, <3>1
      <4> HIDE DEF slash
      <4>2. QED
        BY <1>4, <4>1, LastNumber
    <3>3. LastOf(thing.path, "/") \in slash
      BY <3>2 DEF LastOf
    <3>4. QED
      BY <1>1, <3>1, <3>3 DEF Upto
  <2> HIDE DEF repo, slash, dir
  <2>2. <<"code:">> \o repo \o <<":">> \o dir = p
    BY <1>1, <2>1, SMTT(60)
  <2>3. ":" \notin Range(repo)
    BY <1>1
  <2>4. /\ Places(rest, ":") # {} /\ FirstOf(rest, ":") = Len(repo) + 1
        /\ Upto(rest, Len(repo) + 1) = repo /\ From(rest, Len(repo) + 1) = dir
        /\ Len(rest) = Len(repo) + 1 + Len(dir)
        /\ rest \in Seq(Range(repo) \cup Range(thing.path) \cup {":"})
    BY <1>1, <2>1, <2>3, SplitAtMark
  <2> HIDE DEF rest
  <2>5. p # <<>> /\ Head(p) = "code:" /\ Tail(p) = rest
    BY <2>4, AfterFirst
  <2> HIDE DEF p
  <2>6. CodeContainer(p) = CodeRef(p)
    BY <2>5 DEF CodeContainer, Starts
  <2>7. SubSeq(rest, 1, 3) = repo
    BY <1>1, <2>4 DEF Upto
  <2>8. CodeRef(p) = [repo |-> SubSeq(rest, 1, 3), path |-> From(rest, FirstOf(rest, ":"))]
    <3>1. SplitRepo(repo)
      BY <1>1 DEF SplitRepo
    <3>2. SplitRepo(Upto(rest, FirstOf(rest, ":")))
      BY <2>4, <3>1
    <3>3. CodeRef(p) = IF SplitRepo(Upto(rest, FirstOf(rest, ":")))
                       THEN [repo |-> SubSeq(rest, 1, 3), path |-> From(rest, FirstOf(rest, ":"))]
                       ELSE Invalid
      BY <2>4, <2>5, Zenon DEF CodeRef
    <3>4. QED
      BY <3>2, <3>3
  <2>9. QED
    BY <1>1, <1>2, <1>4, <2>2, <2>4, <2>6, <2>7, <2>8
<1>5. QED
  BY <1>3, <1>4

(* The container a caller names is the one the source holds. *)
LEMMA ParentIsTop ==
  ASSUME NEW s \in Source, Resource(s, NameOf[s]["a"]).parent # Nowhere
  PROVE  NamesTop(s, Resource(s, NameOf[s]["a"]).parent)
<1> DEFINE top == NameOf[s]["top"]
           thing == NameOf[s]["a"]
<1>1. Encloses(s, top, thing)
  BY NamesAssumption
<1>2. Resource(s, thing).parent # Nowhere
  OBVIOUS
<1> HIDE DEF thing
<1>3. CASE s \in {"memory", "drive", "confluence"}
  <2>1. thing.parent \in {Nowhere, top.id}
    BY <1>1, <1>3 DEF Encloses
  <2>2. Resource(s, thing).parent = thing.parent
    BY <1>3 DEF Resource, MemoryResource, DriveResource, ConfluenceResource
  <2>3. QED
    BY <1>2, <1>3, <2>1, <2>2 DEF NamesTop, thing
<1>4. CASE s = "jira"
  <2>1. thing.parent \in {Nowhere, top.key}
    BY <1>1, <1>4 DEF Encloses
  <2>2. Resource(s, thing).parent = thing.parent
    BY <1>4 DEF Resource, JiraResource
  <2>3. QED
    BY <1>2, <1>4, <2>1, <2>2 DEF NamesTop, thing
<1>14. CASE s = "notion"
  <2>1. /\ thing.kind = "page" /\ thing.parent \in Seq(Range(thing.parent)) /\ thing.parent # <<>>
        /\ top.kind = "database" /\ top.id = thing.parent
    BY <1>1, <1>14 DEF Encloses, IsName
  <2> DEFINE p == <<"database:">> \o thing.parent
  <2>2. Resource(s, thing).parent = p
    BY <1>14, <2>1 DEF Resource, NotionResource, NotionPage
  <2>3. p # <<>> /\ Head(p) = "database:" /\ Tail(p) = thing.parent
    BY <2>1, AfterFirst
  <2> HIDE DEF p
  <2>4. NotionRef(p) = [kind |-> "database", id |-> thing.parent]
    BY <2>1, <2>3 DEF NotionRef
  <2>5. NamesTop(s, p)
    BY <1>14, <2>1, <2>4 DEF NamesTop
  <2>6. QED
    BY <2>2, <2>5 DEF thing
<1>5. CASE s = "slack"
  <2>1. SlackContainer(SlackResource(thing).parent) = top
    BY <1>1, <1>5, ChatParents
  <2>2. Resource(s, thing) = SlackResource(thing)
    BY <1>5 DEF Resource
  <2>3. QED
    BY <1>5, <2>1, <2>2 DEF NamesTop, thing
<1>6. CASE s = "teams"
  <2>1. TeamsRef(TeamsResource(thing).parent) = top
    BY <1>1, <1>6, ChatParents
  <2>2. Resource(s, thing) = TeamsResource(thing)
    BY <1>6 DEF Resource
  <2>3. QED
    BY <1>6, <2>1, <2>2 DEF NamesTop, thing
<1>7. CASE s = "calendar"
  <2>1. CalendarContainer(CalendarResource(thing).parent) = top
    BY <1>1, <1>7, ScheduleParents
  <2>2. Resource(s, thing) = CalendarResource(thing)
    BY <1>7 DEF Resource
  <2>3. QED
    BY <1>7, <2>1, <2>2 DEF NamesTop, thing
<1>8. CASE s = "calcom"
  <2>1. CalcomContainer(CalcomResource(thing).parent) = top
    BY <1>1, <1>8, ScheduleParents
  <2>2. Resource(s, thing) = CalcomResource(thing)
    BY <1>8 DEF Resource
  <2>3. QED
    BY <1>8, <2>1, <2>2 DEF NamesTop, thing
<1>9. CASE s = "calendly"
  BY <1>9 DEF NamesTop
<1>10. CASE s \in {"issue", "discussion"}
  <2>1. thing.repo = top.repo
    BY <1>1, <1>10 DEF Encloses
  <2>2. Resource(s, thing).parent = thing.repo
    BY <1>10 DEF Resource, IssueResource, DiscussionResource
  <2>3. QED
    BY <1>10, <2>1, <2>2 DEF NamesTop, thing
<1>11. CASE s = "project"
  <2>1. thing.owner = top.owner
    BY <1>1, <1>11 DEF Encloses
  <2>2. Resource(s, thing).parent = thing.owner
    BY <1>11 DEF Resource, ProjectResource
  <2>3. QED
    BY <1>11, <2>1, <2>2 DEF NamesTop, thing
<1>12. CASE s = "code"
  <2>1. CodeContainer(CodeResource(thing).parent) = top
    BY <1>1, <1>12, CodeParent
  <2>2. Resource(s, thing) = CodeResource(thing)
    BY <1>12 DEF Resource
  <2>3. QED
    BY <1>12, <2>1, <2>2 DEF NamesTop, thing
<1>13. QED
  BY <1>3, <1>4, <1>5, <1>6, <1>7, <1>8, <1>9, <1>10, <1>11, <1>12, <1>14, SourceAssumption

-----------------------------------------------------------------------------
CallFields == {"pc", "op", "item", "inside", "names", "patch", "body", "script", "todo", "held",
               "blocks", "pages", "cursor", "limit", "seen", "before", "calm", "faulted", "sent"}

IsCall(r) == DOMAIN r = CallFields /\ r = [f \in CallFields |-> r[f]]

(* Setting one field of a call leaves the others. *)
LEMMA CallSet ==
  ASSUME NEW r, IsCall(r), NEW f \in CallFields, NEW v
  PROVE  /\ IsCall([r EXCEPT ![f] = v]) /\ [r EXCEPT ![f] = v][f] = v
         /\ \A g \in CallFields : g # f => [r EXCEPT ![f] = v][g] = r[g]
<1>1. [r EXCEPT ![f] = v] = [g \in CallFields |-> IF g = f THEN v ELSE r[g]]
  BY DEF IsCall
<1>2. QED
  BY <1>1 DEF IsCall

LEMMA NothingIsCall == IsCall(Nothing)
BY DEF IsCall, Nothing, CallFields

(* What an answer leaves of a call that goes on, or is over. *)
GoesOn(r, s, i) ==
    /\ IsCall(s)
    /\ s["op"] = r["op"] /\ s["inside"] = r["inside"] /\ s["names"] = r["names"]
    /\ s["patch"] = r["patch"] /\ s["script"] = r["script"]
    /\ s["item"] = i

(* What each kind of answer leaves of its call. *)
LEMMA FinishedGoesOn ==
  ASSUME NEW r, IsCall(r), NEW pc
  PROVE  GoesOn(r, Finished(r, pc), r.item) /\ Finished(r, pc).pc = pc
BY DEF IsCall, CallFields, GoesOn, Finished

(* What is left to send is a sequence, and not empty. *)
LEMMA ShorterTodo ==
  ASSUME NEW S, NEW todo \in Seq(S), todo # <<>>, Len(todo) # 1
  PROVE  Tail(todo) \in Seq(S) /\ Tail(todo) # <<>>
<1>1. Tail(todo) \in Seq(S) /\ Len(Tail(todo)) = Len(todo) - 1
  BY HeadTailProperties
<1>2. Len(todo) \in Nat /\ Len(todo) # 0
  OBVIOUS
<1>3. Len(Tail(todo)) # 0
  BY <1>1, <1>2
<1> DEFINE rest == Tail(todo)
<1>4. rest \in Seq(S) /\ Len(rest) # 0
  BY <1>1, <1>3
<1> HIDE DEF rest
<1>5. rest # <<>>
  BY <1>4
<1>6. QED
  BY <1>4, <1>5 DEF rest

(* A call that still has something to send. *)
Busy(S, r) == r["todo"] \in Seq(S) /\ r["todo"] # <<>>

(* What a request leaves of a call: it is over, or has more to send. *)
Proceeds(S, r, s) == s["pc"] = "done" \/ (s["pc"] = r["pc"] /\ Busy(S, s))

LEMMA DoneGoesOn ==
  ASSUME NEW S, NEW r, IsCall(r), Busy(S, r)
  PROVE  /\ GoesOn(r, Done(r), r.item) /\ Proceeds(S, r, Done(r))
         /\ Len(r.todo) = 1 => Done(r).pc = "done"
         /\ Len(r.todo) # 1 => Done(r).todo = Tail(r.todo) /\ Done(r).held = r.held
<1>1. CASE Len(r.todo) = 1
  BY <1>1, FinishedGoesOn DEF Done, Proceeds
<1>2. CASE Len(r.todo) # 1
  <2>1. Done(r) = [r EXCEPT !.todo = Tail(r.todo)]
    BY <1>2 DEF Done
  <2>2. Tail(r.todo) \in Seq(S) /\ Tail(r.todo) # <<>>
    BY <1>2, ShorterTodo DEF Busy
  <2>3. /\ GoesOn(r, Done(r), r.item) /\ Done(r).pc = r.pc
        /\ Done(r).todo = Tail(r.todo) /\ Done(r).held = r.held
    BY <2>1 DEF IsCall, CallFields, GoesOn
  <2>4. QED
    BY <1>2, <2>2, <2>3 DEF Proceeds, Busy
<1>3. QED
  BY <1>1, <1>2

(* Two steps of a call are one. *)
LEMMA GoesFurtherOn ==
  ASSUME NEW r, NEW s, NEW t, NEW i, NEW j, GoesOn(r, s, i), GoesOn(s, t, j)
  PROVE  GoesOn(r, t, j)
BY DEF GoesOn

LEMMA HoldGoesOn ==
  ASSUME NEW S, NEW r, IsCall(r), Busy(S, r)
  PROVE  /\ GoesOn(r, Hold(r), r.item) /\ Busy(S, Hold(r)) /\ Hold(r).pc = r.pc
         /\ Hold(r).todo = r.todo
         /\ source = "confluence" => Hold(r).held = remote[r.item]
<1>1. \E held : /\ Hold(r) = [r EXCEPT !.held = held]
                /\ source = "confluence" => held = remote[r.item]
  BY DEF Hold
<1>2. PICK held : /\ Hold(r) = [r EXCEPT !.held = held]
                  /\ source = "confluence" => held = remote[r.item]
  BY <1>1
<1>3. QED
  BY <1>2, ZenonT(60) DEF IsCall, CallFields, GoesOn, Busy

LEMMA DropBlockGoesOn ==
  ASSUME NEW S, NEW r, IsCall(r), Busy(S, r)
  PROVE  GoesOn(r, DropBlock(r), r.item) /\ Proceeds(S, r, DropBlock(r))
<1> DEFINE rest == [r EXCEPT !.blocks = Tail(r.blocks)]
<1>1. /\ IsCall(rest) /\ Busy(S, rest) /\ rest.item = r.item /\ rest.pc = r.pc
      /\ GoesOn(r, rest, r.item)
  BY DEF IsCall, CallFields, GoesOn, Busy
<1>2. DropBlock(r) = IF rest.blocks = <<>> THEN Done(rest) ELSE rest
  BY DEF DropBlock
<1> HIDE DEF rest
<1>3. GoesOn(rest, Done(rest), rest.item) /\ Proceeds(S, rest, Done(rest))
  BY <1>1, DoneGoesOn
<1>4. GoesOn(r, Done(rest), r.item)
  BY <1>1, <1>3, GoesFurtherOn
<1>5. QED
  BY <1>1, <1>2, <1>3, <1>4 DEF Proceeds

LEMMA TakeBlocksGoesOn ==
  ASSUME NEW S, NEW r, IsCall(r), Busy(S, r)
  PROVE  GoesOn(r, TakeBlocks(r), r.item) /\ Proceeds(S, r, TakeBlocks(r))
<1> DEFINE n == r.pages + 1
           body == remote[r.item].body
           got == [r EXCEPT !.blocks = IF n <= Len(body) THEN Append(r.blocks, body[n]) ELSE r.blocks,
                            !.pages = n]
           whole == [got EXCEPT !.held.body = got.blocks, !.pages = 0]
           skipped == [whole EXCEPT !.todo = Tail(whole.todo)]
           last == [whole EXCEPT !.blocks = <<>>]
           Fine(s) == IsCall(s) /\ s.item = r.item /\ s.pc = r.pc /\ GoesOn(r, s, r.item)
<1>1. Fine(got) /\ got.todo = r.todo
  <2> DEFINE blocks == IF n <= Len(body) THEN Append(r.blocks, body[n]) ELSE r.blocks
  <2> HIDE DEF blocks, n
  <2>1. got = [r EXCEPT !.blocks = blocks, !.pages = n]
    BY DEF blocks
  <2>2. QED
    BY <2>1, ZenonT(60) DEF IsCall, CallFields, GoesOn
<1> HIDE DEF got
<1>2. Fine(whole) /\ whole.todo = r.todo
  <2>1. \E held : whole = [got EXCEPT !.held = held, !.pages = 0]
    OBVIOUS
  <2>2. QED
    BY <1>1, <2>1 DEF IsCall, CallFields, GoesOn
<1> HIDE DEF whole
<1>3. Fine(skipped) /\ skipped.todo = Tail(r.todo)
  BY <1>2 DEF IsCall, CallFields, GoesOn
<1>4. Fine(last) /\ last.todo = r.todo
  BY <1>2 DEF IsCall, CallFields, GoesOn
<1> HIDE DEF skipped, last
<1>5. \/ TakeBlocks(r) = got
      \/ Len(r.todo) > 1 /\ TakeBlocks(r) = Done(skipped)
      \/ TakeBlocks(r) = Done(whole)
      \/ TakeBlocks(r) = Done(last)
  BY <1>1, <1>2 DEF TakeBlocks, got, whole, skipped, last
<1>6. ASSUME NEW s, Fine(s), Busy(S, s)
      PROVE  GoesOn(r, Done(s), r.item) /\ Proceeds(S, r, Done(s))
  <2>1. GoesOn(s, Done(s), s.item) /\ Proceeds(S, s, Done(s))
    BY <1>6, DoneGoesOn
  <2>2. GoesOn(r, Done(s), r.item)
    BY <1>6, <2>1, GoesFurtherOn
  <2>3. QED
    BY <1>6, <2>1, <2>2 DEF Proceeds
<1>7. Busy(S, got) /\ Busy(S, whole) /\ Busy(S, last)
  BY <1>1, <1>2, <1>4 DEF Busy
<1>8. Len(r.todo) > 1 => Busy(S, skipped)
  <2> SUFFICES ASSUME Len(r.todo) > 1 PROVE Busy(S, skipped)
    OBVIOUS
  <2>1. r.todo \in Seq(S) /\ r.todo # <<>>
    BY DEF Busy
  <2> DEFINE todo == r.todo
  <2>0. Len(todo) \in Nat
    BY <2>1
  <2>2. Tail(r.todo) \in Seq(S) /\ Tail(r.todo) # <<>>
    BY <2>0, <2>1, ShorterTodo
  <2>3. QED
    BY <1>3, <2>2 DEF Busy
<1> HIDE DEF Fine
<1>9. GoesOn(r, got, r.item) /\ Proceeds(S, r, got)
  BY <1>1, <1>7 DEF Fine, Proceeds
<1>10. QED
  BY <1>2, <1>3, <1>4, <1>5, <1>6, <1>7, <1>8, <1>9

LEMMA TakePageGoesOn ==
  ASSUME NEW S, NEW r, IsCall(r), Busy(S, r), r.script \in Seq(S), r.script # <<>>
  PROVE  GoesOn(r, TakePage(r), r.item) /\ Proceeds(S, r, TakePage(r))
<1> DEFINE seen == r.seen \cup (Page(r) \cap Resources(r))
           next == NextCursor(source, r, PageReply(r))
           got == [r EXCEPT !.seen = seen, !.cursor = next]
<1>1. TakePage(r) = IF next = Nowhere THEN Finished(got, "done") ELSE [got EXCEPT !.todo = got.script]
  BY DEF TakePage
<1> HIDE DEF seen, next
<1>2. IsCall(got) /\ got.item = r.item /\ got.pc = r.pc /\ GoesOn(r, got, r.item) /\ got.script = r.script
  BY DEF IsCall, CallFields, GoesOn
<1> HIDE DEF got
<1>3. GoesOn(got, Finished(got, "done"), got.item) /\ Finished(got, "done").pc = "done"
  BY <1>2, FinishedGoesOn
<1>4. GoesOn(r, Finished(got, "done"), r.item)
  BY <1>2, <1>3, GoesFurtherOn
<1> DEFINE more == [got EXCEPT !.todo = got.script]
<1>5. GoesOn(r, more, r.item) /\ more.pc = r.pc /\ Busy(S, more)
  BY <1>2 DEF IsCall, CallFields, GoesOn, Busy
<1>6. QED
  BY <1>1, <1>3, <1>4, <1>5 DEF Proceeds

(* Every answer. *)
LEMMA AnsweredGoesOn ==
  ASSUME NEW S, NEW r, IsCall(r), Busy(S, r), r.script \in Seq(S), r.script # <<>>,
         NEW c, NEW request
  PROVE  LET s == Answered(c, r, request)
         IN  /\ GoesOn(r, s, IF request \in {"post", "postTitle"} THEN c ELSE r.item)
             /\ Proceeds(S, r, s)
             /\ Len(r.todo) = 1 /\ request \notin {"blocks", "drop", "page"} => s.pc = "done"
             /\ source = "confluence" /\ request = "get" /\ Len(r.todo) # 1 =>
                  s.todo = Tail(r.todo) /\ s.held = remote[r.item]
<1> DEFINE Fine(s) == IsCall(s) /\ Busy(S, s) /\ s.pc = r.pc /\ s.todo = r.todo
<1>1. CASE request = "get"
  <2> DEFINE s == Hold(r)
  <2>1. /\ GoesOn(r, s, r.item) /\ Busy(S, s) /\ s.pc = r.pc /\ s.todo = r.todo
        /\ source = "confluence" => s.held = remote[r.item]
    BY HoldGoesOn
  <2>2. Answered(c, r, request) = Done(s)
    BY <1>1 DEF Answered
  <2> HIDE DEF s
  <2>3. IsCall(s) /\ s.item = r.item
    BY <2>1 DEF GoesOn
  <2>4. /\ GoesOn(s, Done(s), s.item) /\ Proceeds(S, s, Done(s))
        /\ Len(s.todo) = 1 => Done(s).pc = "done"
        /\ Len(s.todo) # 1 => Done(s).todo = Tail(s.todo) /\ Done(s).held = s.held
    BY <2>1, <2>3, DoneGoesOn
  <2>5. GoesOn(r, Done(s), r.item)
    BY <2>1, <2>3, <2>4, GoesFurtherOn
  <2>6. Proceeds(S, r, Done(s))
    BY <2>1, <2>4 DEF Proceeds
  <2>7. QED
    BY <1>1, <2>1, <2>2, <2>4, <2>5, <2>6
<1>2. CASE request = "export"
  <2> DEFINE s == [r EXCEPT !.held.body = remote[r.item].body]
  <2>1. Answered(c, r, request) = Done(s)
    BY <1>2 DEF Answered
  <2>2. GoesOn(r, s, r.item) /\ Busy(S, s) /\ s.pc = r.pc /\ s.todo = r.todo
    <3>1. \E held : s = [r EXCEPT !.held = held]
      OBVIOUS
    <3>2. QED
      BY <3>1 DEF IsCall, CallFields, GoesOn, Busy
  <2> HIDE DEF s
  <2>3. IsCall(s) /\ s.item = r.item
    BY <2>2 DEF GoesOn
  <2>4. /\ GoesOn(s, Done(s), s.item) /\ Proceeds(S, s, Done(s))
        /\ Len(s.todo) = 1 => Done(s).pc = "done"
    BY <2>2, <2>3, DoneGoesOn
  <2>5. GoesOn(r, Done(s), r.item)
    BY <2>2, <2>3, <2>4, GoesFurtherOn
  <2>6. Proceeds(S, r, Done(s))
    BY <2>2, <2>4 DEF Proceeds
  <2>7. QED
    BY <1>2, <2>1, <2>2, <2>4, <2>5, <2>6
<1>3. CASE request \in {"post", "postTitle"}
  <2> DEFINE s == [r EXCEPT !.item = c]
  <2>1. Answered(c, r, request) = Done(s)
    BY <1>3 DEF Answered
  <2>2. GoesOn(r, s, c) /\ Busy(S, s) /\ s.pc = r.pc /\ s.todo = r.todo
    BY DEF IsCall, CallFields, GoesOn, Busy
  <2> HIDE DEF s
  <2>3. IsCall(s) /\ s.item = c
    BY <2>2 DEF GoesOn
  <2>4. /\ GoesOn(s, Done(s), s.item) /\ Proceeds(S, s, Done(s))
        /\ Len(s.todo) = 1 => Done(s).pc = "done"
    BY <2>2, <2>3, DoneGoesOn
  <2>5. GoesOn(r, Done(s), c)
    BY <2>2, <2>3, <2>4, GoesFurtherOn
  <2>6. Proceeds(S, r, Done(s))
    BY <2>2, <2>4 DEF Proceeds
  <2>7. QED
    BY <1>3, <2>1, <2>2, <2>4, <2>5, <2>6
<1>4. CASE request = "blocks"
  BY <1>4, TakeBlocksGoesOn DEF Answered
<1>5. CASE request = "drop"
  BY <1>5, DropBlockGoesOn DEF Answered
<1>6. CASE request = "page"
  BY <1>6, TakePageGoesOn DEF Answered
<1>7. CASE request \notin {"get", "export", "post", "postTitle", "blocks", "drop", "page"}
  <2>1. Answered(c, r, request) = Done(r)
    BY <1>7 DEF Answered
  <2>2. QED
    BY <1>7, <2>1, DoneGoesOn
<1>8. QED
  BY <1>1, <1>2, <1>3, <1>4, <1>5, <1>6, <1>7

-----------------------------------------------------------------------------
ThingFields == {"state", "title", "body", "other", "version"}

IsThing(t) ==
    /\ DOMAIN t = ThingFields /\ t = [f \in ThingFields |-> t[f]]
    /\ t["state"] \in {"live", "archived", "absent"} /\ t["version"] \in Nat

Stocked(rem) == rem = [i \in Item |-> rem[i]] /\ \A i \in Item : IsThing(rem[i])

(* What of thing t differs in u. *)
Differs(t, u) == {f \in Field : u[f] # t[f]}

(* What the source holds at first, and what is made in it. *)
LEMMA ThingsAre ==
  /\ IsThing(Absent) /\ Absent["state"] = "absent" /\ Absent["version"] = 1
  /\ \A title, body : IsThing(Thing(title, body)) /\ Thing(title, body)["version"] = 1
BY DEF IsThing, ThingFields, Absent, Thing

(* Setting one thing leaves the others. *)
LEMMA OneSet ==
  ASSUME NEW rem, Stocked(rem), NEW i, NEW t, i \in Item => IsThing(t)
  PROVE  /\ Stocked([rem EXCEPT ![i] = t])
         /\ \A j \in Item : j # i => [rem EXCEPT ![i] = t][j] = rem[j]
         /\ i \in Item => [rem EXCEPT ![i] = t][i] = t
<1> DEFINE now == [rem EXCEPT ![i] = t]
<1>1. now = [j \in Item |-> IF j = i THEN t ELSE rem[j]]
  BY DEF Stocked
<1> HIDE DEF now
<1>2. QED
  BY <1>1 DEF Stocked, now

-----------------------------------------------------------------------------
(***************************************************************************)
(* What a request does to the source.                                      *)
(***************************************************************************)

(* A connector writes the fields of the patch. *)
LEMMA WritesNamed ==
  ASSUME NEW s \in Source, NEW patch, s # "confluence",
         s = "slack" => "body" \in patch, s = "calcom" => "other" \in patch
  PROVE  Writes(s, patch) \subseteq patch \cup (IF s = "discussion" THEN {"title", "body"} ELSE {})
<1>1. CASE s \in {"memory", "notion", "drive", "slack", "calendar", "calcom"}
  BY <1>1 DEF Writes, NotionWrites, DriveWrites, SlackWrites, CalendarWrites, CalcomWrites
<1>2. CASE s \in {"jira", "issue", "discussion", "project"}
  BY <1>2 DEF Writes, JiraWrites, IssueWrites, DiscussionWrites, ProjectWrites
<1>3. CASE s \in {"teams", "calendly", "code"}
  BY <1>3 DEF Writes
<1>4. QED
  BY <1>1, <1>2, <1>3, SourceAssumption

(* A field that is not of the patch is set to what was read of it. *)
LEMMA PatchedThing ==
  ASSUME NEW t, IsThing(t), NEW c, NEW ask
  PROVE  /\ IsThing(Patched(t, c, ask)) /\ Patched(t, c, ask)["version"] = t["version"] + 1
         /\ \A f \in Differs(t, Patched(t, c, ask)) :
              f \in Writes(source, ask.patch) /\ (f \in ask.patch \/ ask.held[f] # t[f])
<1> DEFINE sets == Writes(source, ask.patch)
           value(f) == IF f \in ask.patch THEN New(c, f) ELSE ask.held[f]
           title == IF "title" \in sets THEN value("title") ELSE t.title
           body == IF "body" \in sets THEN value("body") ELSE t.body
           other == IF "other" \in sets THEN value("other") ELSE t.other
           version == t.version + 1
           u == [t EXCEPT !.title = title, !.body = body, !.other = other, !.version = version]
<1>1. Patched(t, c, ask) = u
  BY DEF Patched
<1>2. /\ title # t["title"] => "title" \in sets /\ ("title" \in ask.patch \/ ask.held["title"] # t["title"])
      /\ body # t["body"] => "body" \in sets /\ ("body" \in ask.patch \/ ask.held["body"] # t["body"])
      /\ other # t["other"] => "other" \in sets /\ ("other" \in ask.patch \/ ask.held["other"] # t["other"])
  OBVIOUS
<1> HIDE DEF title, body, other, value
<1>0. version \in Nat
  BY DEF IsThing
<1> HIDE DEF version
<1>3. /\ IsThing(u) /\ u["version"] = version
      /\ u["title"] = title /\ u["body"] = body /\ u["other"] = other
  <2>1. u = [f \in ThingFields |-> IF f = "title" THEN title ELSE IF f = "body" THEN body
                                   ELSE IF f = "other" THEN other
                                   ELSE IF f = "version" THEN version ELSE t[f]]
    BY DEF IsThing, ThingFields
  <2> HIDE DEF u
  <2>2. QED
    BY <1>0, <2>1 DEF IsThing, ThingFields
<1> HIDE DEF sets, u
<1>4. \A f \in Differs(t, u) : f \in sets /\ (f \in ask.patch \/ ask.held[f] # t[f])
  BY <1>2, <1>3 DEF Differs, Field
<1>5. QED
  BY <1>1, <1>3, <1>4 DEF sets, version

(* What a request of a call may do to the things of the source. *)
Touches(rem, now, ask, c, i) ==
    CASE ask["op"] = "create" -> i = c
      [] ask["op"] = "delete" -> i = ask["item"] /\ now[i]["state"] # "live"
      [] ask["op"] = "update" ->
           /\ i = ask["item"]
           /\ Differs(rem[i], now[i]) \subseteq
                ask["patch"] \cup (IF source = "discussion" THEN {"title", "body"} ELSE {})
      [] OTHER -> FALSE

(* How the versions of Confluence's pages go, and which pages come to be. *)
Ages(rem, now, ask, c, i) ==
    \/ now[i] = rem[i]
    \/ ask["op"] # "create" /\ now[i]["state"] = "absent"
    \/ ask["op"] # "create" /\ rem[i]["state"] # "absent" /\ now[i]["version"] = rem[i]["version"] + 1
    \/ ask["op"] = "create" /\ i = c

Fitting(rem, now, ask, c) ==
    /\ Stocked(now)
    /\ \A i \in Item : now[i] # rem[i] => Touches(rem, now, ask, c, i)
    /\ source = "confluence" => \A i \in Item : Ages(rem, now, ask, c, i)

(* What has no effect is fitting. *)
LEMMA NoEffect ==
  ASSUME NEW rem, Stocked(rem), NEW ask, NEW c
  PROVE  Fitting(rem, rem, ask, c)
BY DEF Fitting, Ages

(* A request sets one thing. *)
LEMMA OneEffect ==
  ASSUME NEW rem, Stocked(rem), NEW ask, NEW c, NEW i, NEW t, i \in Item => IsThing(t),
         i \in Item => Touches(rem, [rem EXCEPT ![i] = t], ask, c, i),
         i \in Item /\ source = "confluence" => Ages(rem, [rem EXCEPT ![i] = t], ask, c, i)
  PROVE  Fitting(rem, [rem EXCEPT ![i] = t], ask, c)
<1> DEFINE now == [rem EXCEPT ![i] = t]
<1>1. Stocked(now) /\ \A j \in Item : j # i => now[j] = rem[j]
  BY OneSet
<1>2. ASSUME NEW j \in Item, now[j] # rem[j]
      PROVE  Touches(rem, now, ask, c, j)
  <2>1. j = i
    BY <1>1, <1>2
  <2>2. QED
    BY <2>1
<1>3. ASSUME source = "confluence", NEW j \in Item
      PROVE  Ages(rem, now, ask, c, j)
  <2>1. CASE j = i
    BY <1>3, <2>1
  <2>2. CASE j # i
    <3>1. now[j] = rem[j]
      BY <1>1, <2>2
    <3> HIDE DEF now
    <3>2. QED
      BY <3>1 DEF Ages
  <2>3. QED
    BY <2>1, <2>2
<1> HIDE DEF now
<1>4. Fitting(rem, now, ask, c)
  BY <1>1, <1>2, <1>3 DEF Fitting
<1>5. QED
  BY <1>4 DEF now

(* A request on a resource is answered only while the resource is there. *)
LEMMA AnsweredOk ==
  ASSUME NEW ask, NEW request, request \notin Opens, Status(ask, request) = "ok"
  PROVE  /\ There(ask.item)
         /\ request = "putNext" =>
              ConfluenceVersion(ask.held.version, remote[ask.item].version) =
                remote[ask.item].version + 1
<1>1. request \notin {"lookup", "site"}
  BY DEF Opens
<1>2. QED
  BY <1>1 DEF Status

(* An update, a deletion and a creation set one thing. *)
LEMMA WrittenSet ==
  ASSUME Stocked(remote), source \in Source, NEW c \in Caller, NEW ask, NEW i \in Item,
         ask.op = "update", i = ask.item, NEW t, IsThing(t),
         Differs(remote[i], t) \subseteq
           ask.patch \cup (IF source = "discussion" THEN {"title", "body"} ELSE {}),
         source = "confluence" => /\ t["version"] = remote[i]["version"] + 1
                                  /\ remote[i]["state"] # "absent"
  PROVE  Fitting(remote, [remote EXCEPT ![i] = t], ask, c)
<1> DEFINE now == [remote EXCEPT ![i] = t]
<1>1. now[i] = t
  BY DEF Stocked
<1> HIDE DEF now
<1>2. Touches(remote, now, ask, c, i)
  BY <1>1 DEF Touches
<1>3. source = "confluence" => Ages(remote, now, ask, c, i)
  BY <1>1 DEF Ages
<1>4. QED
  BY <1>2, <1>3, OneEffect DEF now

LEMMA EndedSet ==
  ASSUME Stocked(remote), NEW c \in Caller, NEW ask, NEW i \in Item,
         ask.op = "delete", i = ask.item, NEW t, IsThing(t), t["state"] # "live",
         source = "confluence" => t["state"] = "absent"
  PROVE  Fitting(remote, [remote EXCEPT ![i] = t], ask, c)
<1> DEFINE now == [remote EXCEPT ![i] = t]
<1>1. now[i] = t
  BY DEF Stocked
<1> HIDE DEF now
<1>2. Touches(remote, now, ask, c, i)
  BY <1>1 DEF Touches
<1>3. source = "confluence" => Ages(remote, now, ask, c, i)
  BY <1>1 DEF Ages
<1>4. QED
  BY <1>2, <1>3, OneEffect DEF now

LEMMA MadeSet ==
  ASSUME Stocked(remote), NEW c \in Caller, NEW ask, ask.op = "create", NEW t, IsThing(t)
  PROVE  Fitting(remote, [remote EXCEPT ![c] = t], ask, c)
<1> DEFINE now == [remote EXCEPT ![c] = t]
<1>1. Touches(remote, now, ask, c, c) /\ Ages(remote, now, ask, c, c)
  BY DEF Touches, Ages
<1>2. QED
  BY <1>1, OneEffect

(* One field is written. *)
LEMMA FieldSet ==
  ASSUME NEW t, IsThing(t), NEW f \in Field, NEW v
  PROVE  LET u == [t EXCEPT ![f] = v]
         IN  IsThing(u) /\ u["version"] = t["version"] /\ Differs(t, u) \subseteq {f}
<1>1. [t EXCEPT ![f] = v] = [g \in ThingFields |-> IF g = f THEN v ELSE t[g]]
  BY DEF IsThing, ThingFields
<1>2. QED
  BY <1>1 DEF IsThing, ThingFields, Field, Differs

(* Whatever an operation may send has a fitting effect. *)
LEMMA EffectIsDue ==
  ASSUME Stocked(remote), source \in Source, NEW c \in Caller, NEW ask, ask.op \in Operation,
         NEW request \in Sent(source, ask.op, ask.patch), Status(ask, request) = "ok",
         ask.op = "create" => ask.item \in {"none", c},
         request = "putNext" => ask.held.version \in Nat,
         request = "putNext" /\ ask.held.version = remote[ask.item].version =>
           /\ ask.held.title = remote[ask.item].title
           /\ ask.held.body = remote[ask.item].body
  PROVE  Fitting(remote, Effect(c, ask, request), ask, c)
<1> DEFINE i == ask.item
           t == remote[i]
<1>1. CASE request \in {"post", "postTitle"}
  <2>1. ask.op = "create"
    BY <1>1 DEF Sent, MaySend, Operation
  <2>2. \E title, body : Effect(c, ask, request) = [remote EXCEPT ![c] = Thing(title, body)]
    BY <1>1 DEF Effect
  <2>3. PICK title, body : Effect(c, ask, request) = [remote EXCEPT ![c] = Thing(title, body)]
    BY <2>2
  <2>4. IsThing(Thing(title, body))
    BY ThingsAre
  <2>5. Fitting(remote, [remote EXCEPT ![c] = Thing(title, body)], ask, c)
    BY <2>1, <2>4, MadeSet
  <2>6. QED
    BY <2>3, <2>5
<1>2. CASE request = "put"
  <2>1. /\ ask.op = "update" /\ source # "confluence"
        /\ source = "slack" => "body" \in ask.patch
        /\ source = "calcom" => "other" \in ask.patch
    BY <1>2 DEF Sent, MaySend, Operation
  <2>2. i \in Item /\ IsThing(t)
    BY <1>2, AnsweredOk DEF Opens, There, Stocked
  <2> DEFINE u == Patched(t, c, ask)
  <2>3. Effect(c, ask, request) = [remote EXCEPT ![i] = u]
    BY <1>2 DEF Effect
  <2>4. IsThing(u) /\ \A f \in Differs(t, u) : f \in Writes(source, ask.patch)
    BY <2>2, PatchedThing
  <2>5. Writes(source, ask.patch) \subseteq
          ask.patch \cup (IF source = "discussion" THEN {"title", "body"} ELSE {})
    BY <2>1, WritesNamed
  <2> HIDE DEF u, t
  <2>6. Differs(t, u) \subseteq ask.patch \cup (IF source = "discussion" THEN {"title", "body"} ELSE {})
    BY <2>4, <2>5
  <2>7. Fitting(remote, [remote EXCEPT ![i] = u], ask, c)
    <3> HIDE DEF i
    <3>1. ask.op = "update" /\ i = ask.item
      BY <2>1 DEF i
    <3>2. QED
      BY <2>1, <2>2, <2>4, <2>6, <3>1, WrittenSet DEF t
  <2>8. QED
    BY <2>3, <2>7
<1>3. CASE request = "putNext"
  <2>1. ask.op = "update" /\ source = "confluence"
    BY <1>3 DEF Sent, MaySend, Operation
  <2>2. /\ i \in Item /\ IsThing(t) /\ t["state"] # "absent"
        /\ ask.held.version + 1 = t.version + 1
    BY <1>3, AnsweredOk DEF Opens, There, Stocked, ConfluenceVersion
  <2> DEFINE u == Patched(t, c, ask)
  <2>3. Effect(c, ask, request) = [remote EXCEPT ![i] = u]
    BY <1>3 DEF Effect
  <2>4. IsThing(u) /\ u["version"] = t["version"] + 1
    BY <2>2, PatchedThing
  <2>5. \A f \in Differs(t, u) : f \in {"title", "body"} /\ (f \in ask.patch \/ ask.held[f] # t[f])
    <3>1. Writes(source, ask.patch) = {"title", "body"}
      BY <2>1 DEF Writes, ConfluenceWrites
    <3>2. QED
      BY <2>2, <3>1, PatchedThing
  <2>6. ask.held.title = t.title /\ ask.held.body = t.body
    <3>1. ask.held.version = t.version
      BY <1>3, <2>2 DEF IsThing
    <3>2. QED
      BY <1>3, <3>1
  <2> HIDE DEF u, t
  <2>7. Differs(t, u) \subseteq ask.patch \cup (IF source = "discussion" THEN {"title", "body"} ELSE {})
    BY <2>5, <2>6
  <2>8. Fitting(remote, [remote EXCEPT ![i] = u], ask, c)
    <3> HIDE DEF i
    <3>1. ask.op = "update" /\ i = ask.item
      BY <2>1 DEF i
    <3>2. QED
      BY <2>1, <2>2, <2>4, <2>7, <3>1, WrittenSet DEF t
  <2>9. QED
    BY <2>3, <2>8
<1>4. CASE request \in {"rename", "upload", "append", "drop"} /\ ask.op = "update"
  <2>1. i \in Item /\ IsThing(t)
    BY <1>4, AnsweredOk DEF Opens, There, Stocked
  <2> DEFINE f == IF request = "rename" THEN "title" ELSE "body"
  <2>2. f \in ask.patch /\ f \in Field /\ source # "confluence"
    BY <1>4 DEF Sent, MaySend, Field
  <2>3. \E v : Effect(c, ask, request) = [remote EXCEPT ![i] = [t EXCEPT ![f] = v]]
    BY <1>4 DEF Effect
  <2>4. PICK v : Effect(c, ask, request) = [remote EXCEPT ![i] = [t EXCEPT ![f] = v]]
    BY <2>3
  <2> DEFINE u == [t EXCEPT ![f] = v]
  <2> HIDE DEF t, f
  <2>5. IsThing(u) /\ Differs(t, u) \subseteq {f}
    BY <2>1, <2>2, FieldSet
  <2>6. Effect(c, ask, request) = [remote EXCEPT ![i] = u]
    BY <2>4
  <2> HIDE DEF u
  <2>7. Differs(t, u) \subseteq ask.patch \cup (IF source = "discussion" THEN {"title", "body"} ELSE {})
    BY <2>2, <2>5
  <2>8. Fitting(remote, [remote EXCEPT ![i] = u], ask, c)
    <3> HIDE DEF i
    <3>1. ask.op = "update" /\ i = ask.item
      BY <1>4 DEF i
    <3>2. QED
      BY <2>1, <2>2, <2>5, <2>7, <3>1, WrittenSet DEF t
  <2>9. QED
    BY <2>6, <2>8
<1>5. CASE request \in {"rename", "upload", "append", "drop"} /\ ask.op # "update"
  <2>1. request = "upload" /\ ask.op = "create"
    BY <1>5 DEF Sent, MaySend, Operation
  <2>2. i \in Item /\ IsThing(t)
    BY <1>5, AnsweredOk DEF Opens, There, Stocked
  <2>3. i = c
    BY <2>1, <2>2, SourceAssumption DEF Item
  <2> DEFINE u == [t EXCEPT !["body"] = <<c>>]
  <2>4. Effect(c, ask, request) = [remote EXCEPT ![c] = u]
    BY <2>1, <2>3 DEF Effect
  <2>5. IsThing(u)
    BY <2>2, FieldSet DEF Field
  <2> HIDE DEF u
  <2>6. QED
    BY <2>1, <2>4, <2>5, MadeSet
<1>6. CASE request \in {"remove", "cancel", "archive"}
  <2>1. i \in Item /\ IsThing(t)
    BY <1>6, AnsweredOk DEF Opens, There, Stocked
  <2>2. ask.op = "delete" /\ (source = "confluence" => request = "remove")
    BY <1>6 DEF Sent, MaySend, Operation
  <2> DEFINE u == IF request = "remove" THEN Absent ELSE [t EXCEPT !.state = "archived"]
  <2>3. Effect(c, ask, request) = [remote EXCEPT ![i] = u]
    BY <1>6 DEF Effect
  <2>4. IsThing(u) /\ u["state"] # "live" /\ (source = "confluence" => u["state"] = "absent")
    <3>1. CASE request = "remove"
      BY <3>1, ThingsAre
    <3>2. CASE request # "remove"
      BY <2>1, <2>2, <3>2 DEF IsThing, ThingFields
    <3>3. QED
      BY <3>1, <3>2
  <2> HIDE DEF u
  <2>5. Fitting(remote, [remote EXCEPT ![i] = u], ask, c)
    <3> HIDE DEF i
    <3>1. ask.op = "delete" /\ i = ask.item
      BY <2>2 DEF i
    <3>2. QED
      BY <2>1, <2>4, <3>1, EndedSet
  <2>6. QED
    BY <2>3, <2>5
<1>7. CASE request \notin {"post", "postTitle", "put", "putNext", "rename", "upload", "append", "drop",
                          "remove", "cancel", "archive"}
  <2>1. Effect(c, ask, request) = remote
    BY <1>7 DEF Effect
  <2>2. QED
    BY <2>1, NoEffect
<1>8. QED
  BY <1>1, <1>2, <1>3, <1>4, <1>5, <1>6, <1>7

-----------------------------------------------------------------------------
(***************************************************************************)
(* The inductive invariant: what a running call still has to send, and, on *)
(* Confluence, what it has read of the page it will write.                 *)
(***************************************************************************)

(* A running call sends only what its operation may, about its own resource, *)
(* in the container it names; Confluence reads a page before it writes it.   *)
CallFine(src, c, r) ==
    /\ IsCall(r) /\ r["op"] \in Operation
    /\ r["pc"] = "running" =>
         /\ Busy(Sent(src, r["op"], r["patch"]), r)
         /\ r["script"] \in Seq(Sent(src, r["op"], r["patch"])) /\ r["script"] # <<>>
         /\ r["op"] = "create" => r["item"] \in {"none", c}
         /\ r["inside"] => r["names"]
         /\ src = "confluence" /\ r["op"] = "create" => Len(r["todo"]) = 1
         /\ src = "confluence" /\ r["op"] = "update" =>
              r["todo"] \in {<<"get", "putNext">>, <<"putNext">>}

Unmade(r) == r["pc"] = "idle" \/ (r["pc"] = "running" /\ r["op"] = "create")

Holding(r) == r["pc"] = "running" /\ r["op"] = "update" /\ r["todo"] = <<"putNext">>

(* What was read of a page, the page still is, or it is newer, or gone. *)
Recent(t, h) ==
    \/ t["state"] = "absent"
    \/ t["version"] > h["version"]
    \/ t["version"] = h["version"] /\ t["title"] = h["title"] /\ t["body"] = h["body"]

ReadTrue(rem, calls, r) ==
    /\ r["item"] \in Item /\ (r["item"] \in Caller => ~ Unmade(calls[r["item"]]))
    /\ r["held"]["version"] \in Nat /\ Recent(rem[r["item"]], r["held"])

PagesTrue(rem, calls) ==
    \A c \in Caller : /\ Unmade(calls[c]) => rem[c]["state"] = "absent"
                      /\ Holding(calls[c]) => ReadTrue(rem, calls, calls[c])

AllFine(src, rem, calls) ==
    /\ src \in Source /\ Stocked(rem)
    /\ calls = [c \in Caller |-> calls[c]]
    /\ \A c \in Caller : CallFine(src, c, calls[c])
    /\ src = "confluence" => PagesTrue(rem, calls)

ConnectorsInv == AllFine(source, remote, call)

(* How a step of another leaves a call: as it was but for its calm, or over. *)
Aside(r, s) ==
    /\ IsCall(s) /\ s["op"] \in Operation
    /\ s["pc"] = r["pc"] \/ (r["pc"] \in Ended /\ s["pc"] = "over")
    /\ r["pc"] \in {"running", "idle"} =>
         s["pc"] = r["pc"] /\ \A f \in CallFields \ {"calm", "sent"} : s[f] = r[f]

(* What others do leaves a call fine. *)
LEMMA AsideKeeps ==
  ASSUME NEW src, NEW c, NEW r, CallFine(src, c, r), NEW s, Aside(r, s)
  PROVE  /\ CallFine(src, c, s) /\ (Unmade(s) <=> Unmade(r)) /\ (Holding(s) => Holding(r))
         /\ Holding(s) => s["item"] = r["item"] /\ s["held"] = r["held"]
<1>1. CASE r["pc"] \in {"running", "idle"}
  <2>1. /\ s["pc"] = r["pc"] /\ s["op"] = r["op"] /\ s["patch"] = r["patch"] /\ s["todo"] = r["todo"]
        /\ s["script"] = r["script"] /\ s["item"] = r["item"] /\ s["inside"] = r["inside"]
        /\ s["names"] = r["names"] /\ s["held"] = r["held"]
    BY <1>1 DEF Aside, CallFields
  <2>2. QED
    BY <2>1 DEF Aside, CallFine, Unmade, Holding, Busy
<1>2. CASE r["pc"] \notin {"running", "idle"}
  <2>1. s["pc"] \notin {"running", "idle"}
    BY <1>2 DEF Aside, Ended
  <2>2. QED
    BY <1>2, <2>1 DEF Aside, CallFine, Unmade, Holding
<1>3. QED
  BY <1>1, <1>2

(* A page somebody works on is still what was read, or newer, or gone. *)
LEMMA StaysRecent ==
  ASSUME NEW t, NEW u, IsThing(t), IsThing(u), NEW h, h["version"] \in Nat, Recent(t, h),
         \/ u = t
         \/ u["state"] = "absent"
         \/ t["state"] # "absent" /\ u["version"] = t["version"] + 1
  PROVE  Recent(u, h)
<1>1. t["version"] \in Nat
  BY DEF IsThing
<1>2. QED
  BY <1>1 DEF Recent

(* A step that ages the pages as it should keeps the invariant. *)
LEMMA StepKeeps ==
  ASSUME AllFine(source, remote, call), NEW c, NEW now, Stocked(now),
         NEW calls, calls = [d \in Caller |-> calls[d]],
         \A d \in Caller : d # c => Aside(call[d], calls[d]),
         c \in Caller => /\ CallFine(source, c, calls[c])
                         /\ Unmade(calls[c]) => Unmade(call[c]),
         NEW ask,
         source = "confluence" => \A i \in Item : Ages(remote, now, ask, c, i),
         source = "confluence" /\ ask["op"] = "create" /\ now # remote =>
            c \in Caller /\ Unmade(call[c]) /\ ~ Unmade(calls[c]),
         source = "confluence" /\ c \in Caller /\ Holding(calls[c]) => ReadTrue(now, calls, calls[c])
  PROVE  AllFine(source, now, calls)
<1>1. \A d \in Caller : CallFine(source, d, calls[d])
  <2> SUFFICES ASSUME NEW d \in Caller PROVE CallFine(source, d, calls[d])
    OBVIOUS
  <2>1. CallFine(source, d, call[d])
    BY DEF AllFine
  <2>2. QED
    BY <2>1, AsideKeeps
<1>2. ASSUME source = "confluence"
      PROVE  PagesTrue(now, calls)
  <2>1. \A d \in Caller : Unmade(calls[d]) => Unmade(call[d])
    <3> SUFFICES ASSUME NEW d \in Caller, d # c PROVE Unmade(calls[d]) => Unmade(call[d])
      OBVIOUS
    <3>1. CallFine(source, d, call[d])
      BY DEF AllFine
    <3>2. QED
      BY <3>1, AsideKeeps
  <2>2. Stocked(remote) /\ PagesTrue(remote, call)
    BY <1>2 DEF AllFine
  (* Nothing comes to be but what its caller made. *)
  <2>3. \A i \in Item : \/ now[i] = remote[i]
                        \/ now[i]["state"] = "absent"
                        \/ remote[i]["state"] # "absent" /\ now[i]["version"] = remote[i]["version"] + 1
                        \/ i = c /\ c \in Caller /\ Unmade(call[c]) /\ ~ Unmade(calls[c])
    BY <1>2 DEF Ages
  <2>4. ASSUME NEW d \in Caller, Unmade(calls[d])
        PROVE  now[d]["state"] = "absent"
    <3>1. remote[d]["state"] = "absent" /\ d \in Item
      BY <2>1, <2>2, <2>4 DEF PagesTrue, Item
    <3>2. QED
      BY <2>3, <2>4, <3>1
  <2>5. ASSUME NEW d \in Caller, Holding(calls[d])
        PROVE  ReadTrue(now, calls, calls[d])
    <3>1. CASE d = c
      BY <1>2, <2>5, <3>1
    <3>2. CASE d # c
      <4>1. CallFine(source, d, call[d]) /\ Aside(call[d], calls[d])
        BY <3>2 DEF AllFine
      <4>2. /\ Holding(call[d]) /\ calls[d]["item"] = call[d]["item"]
            /\ calls[d]["held"] = call[d]["held"]
        BY <2>5, <4>1, AsideKeeps
      <4>3. ReadTrue(remote, call, call[d])
        BY <2>2, <4>2 DEF PagesTrue
      <4> DEFINE i == call[d]["item"]
                 h == call[d]["held"]
      <4>4. /\ i \in Item /\ (i \in Caller => ~ Unmade(call[i])) /\ h["version"] \in Nat
            /\ Recent(remote[i], h)
        BY <4>3 DEF ReadTrue
      <4> HIDE DEF i, h
      <4>5. IsThing(remote[i]) /\ IsThing(now[i])
        BY <2>2, <4>4 DEF Stocked
      <4>6. \/ now[i] = remote[i]
            \/ now[i]["state"] = "absent"
            \/ remote[i]["state"] # "absent" /\ now[i]["version"] = remote[i]["version"] + 1
        BY <2>3, <4>4
      <4>7. Recent(now[i], h)
        BY <4>4, <4>5, <4>6, StaysRecent
      <4>8. i \in Caller => ~ Unmade(calls[i])
        BY <2>1, <4>4
      <4>9. QED
        BY <4>2, <4>4, <4>7, <4>8 DEF ReadTrue, i, h
    <3>3. QED
      BY <3>1, <3>2
  <2>6. QED
    BY <2>4, <2>5 DEF PagesTrue
<1>3. QED
  BY <1>1, <1>2 DEF AllFine

(* The initial states. *)
LEMMA StartsFine == ConnectorsInit => ConnectorsInv
<1> SUFFICES ASSUME ConnectorsInit PROVE AllFine(source, remote, call)
  BY DEF ConnectorsInv
<1>1. source \in Source /\ call = [c \in Caller |-> Nothing]
  BY DEF ConnectorsInit
<1>2. Nothing["pc"] = "idle" /\ Nothing["op"] = "read"
  BY DEF Nothing
<1>3. \A c \in Caller : CallFine(source, c, call[c]) /\ ~ Holding(call[c])
  BY <1>1, <1>2, NothingIsCall DEF CallFine, Operation, Holding
<1>4. /\ remote = [i \in Item |-> remote[i]]
      /\ \A i \in Item : \/ i \in Caller /\ remote[i] = Absent
                         \/ i \notin Caller /\ \E title, body : remote[i] = Thing(title, body)
  BY SourceAssumption DEF ConnectorsInit, Item
<1>5. Stocked(remote) /\ \A c \in Caller : remote[c]["state"] = "absent"
  <2>1. \A i \in Item : IsThing(remote[i])
    BY <1>4, ThingsAre
  <2>2. QED
    BY <1>4, <2>1, ThingsAre DEF Stocked, Item
<1>6. PagesTrue(remote, call)
  BY <1>3, <1>5 DEF PagesTrue
<1>7. call = [c \in Caller |-> call[c]]
  BY <1>1
<1>8. QED
  BY <1>1, <1>3, <1>5, <1>6, <1>7 DEF AllFine

(* The others, in a step of one. *)
LEMMA MeanwhileAside ==
  ASSUME NEW c, NEW d \in Caller, d # c, CallFine(source, d, call[d])
  PROVE  /\ Aside(call[d], Meanwhile(c)[d])
         /\ call[d]["pc"] = "running" =>
              Meanwhile(c)[d] = [call[d] EXCEPT !.calm = Meanwhile(c)[d].calm]
<1> DEFINE r == call[d]
           s == Meanwhile(c)[d]
<1>1. IsCall(r) /\ r["op"] \in Operation
  BY DEF CallFine
<1>2. CASE r["pc"] \in {"idle", "over"}
  <2>1. s = r
    BY <1>2 DEF Meanwhile
  <2>2. QED
    BY <1>1, <1>2, <2>1 DEF Aside
<1>3. CASE r["pc"] \in Ended
  <2>1. s = [Nothing EXCEPT !.pc = "over"]
    BY <1>3 DEF Meanwhile, Ended
  <2>2. IsCall(s) /\ s["pc"] = "over" /\ s["op"] = "read"
    BY <2>1, ZenonT(60) DEF Nothing, IsCall, CallFields
  <2>3. QED
    BY <1>3, <2>2 DEF Aside, Ended, Operation
<1>4. CASE r["pc"] \notin {"idle", "over"} \cup Ended
  <2>1. PICK calm : s = [r EXCEPT !.calm = calm]
    BY <1>4 DEF Meanwhile
  <2>2. IsCall(s) /\ s["calm"] = calm /\ \A f \in CallFields \ {"calm", "sent"} : s[f] = r[f]
    BY <1>1, <2>1 DEF IsCall, CallFields
  <2>3. s["pc"] = r["pc"] /\ s["op"] = r["op"]
    BY <2>2 DEF CallFields
  <2>4. QED
    BY <1>1, <2>1, <2>2, <2>3 DEF Aside
<1>5. QED
  BY <1>2, <1>3, <1>4

(* A step of caller c. *)
Stepped(c, next) == call' = [Meanwhile(c) EXCEPT ![c] = next]

(* The calls after a step. *)
LEMMA StepIs ==
  ASSUME AllFine(source, remote, call), NEW c \in Caller, NEW next, Stepped(c, next)
  PROVE  /\ call' = [d \in Caller |-> call'[d]] /\ call'[c] = next
         /\ \A d \in Caller : d # c => /\ Aside(call[d], call'[d])
                                       /\ call[d]["pc"] = "running" => ~ Moved(d)
<1>1. \A d \in Caller : CallFine(source, d, call[d])
  BY DEF AllFine
<1>2. /\ call' = [d \in Caller |-> call'[d]] /\ call'[c] = next
      /\ \A d \in Caller : d # c => call'[d] = Meanwhile(c)[d]
  BY DEF Stepped, Meanwhile
<1>3. ASSUME NEW d \in Caller, d # c
      PROVE  /\ Aside(call[d], call'[d])
             /\ call[d]["pc"] = "running" => ~ Moved(d)
  <2>1. call'[d] = Meanwhile(c)[d]
    BY <1>2, <1>3
  <2>2. /\ Aside(call[d], Meanwhile(c)[d])
        /\ call[d]["pc"] = "running" =>
             Meanwhile(c)[d] = [call[d] EXCEPT !.calm = Meanwhile(c)[d].calm]
    BY <1>1, <1>3, MeanwhileAside
  <2>3. QED
    BY <2>1, <2>2 DEF Moved
<1>4. QED
  BY <1>2, <1>3

(* Nobody is in the middle of what it was not in the middle of. *)
Calm == \A c \in Caller : call[c].pc = "running" => ~ Moved(c)

(* The start of a call changes nothing of the source. *)
LEMMA StartKeeps ==
  ASSUME ConnectorsInv, NEW c \in Caller, call[c].pc = "idle", NEW next, Stepped(c, next),
         CallFine(source, c, next), ~ Holding(next), UNCHANGED <<source, remote>>
  PROVE  ConnectorsInv' /\ Calm
<1>1. AllFine(source, remote, call)
  BY DEF ConnectorsInv
<1>2. /\ call' = [d \in Caller |-> call'[d]] /\ call'[c] = next
      /\ \A d \in Caller : d # c => /\ Aside(call[d], call'[d])
                                    /\ call[d]["pc"] = "running" => ~ Moved(d)
  BY <1>1, StepIs
<1>3. Calm
  BY <1>2 DEF Calm
<1>4. Stocked(remote) /\ \A i \in Item : Ages(remote, remote, next, c, i)
  BY <1>1 DEF AllFine, Ages
<1>5. Unmade(call[c])
  BY DEF Unmade
<1> DEFINE calls == call'
<1>6. /\ calls = [d \in Caller |-> calls[d]] /\ calls[c] = next
      /\ \A d \in Caller : d # c => Aside(call[d], calls[d])
  BY <1>2
<1> HIDE DEF calls
<1>7. AllFine(source, remote, calls)
  BY <1>1, <1>4, <1>5, <1>6, StepKeeps
<1>8. source' = source /\ remote' = remote /\ call' = calls
  BY DEF calls
<1>9. AllFine(source', remote', call')
  BY <1>7, <1>8, Zenon
<1>10. QED
  BY <1>3, <1>9 DEF ConnectorsInv

(* A call as it starts. *)
LEMMA StartIsFine ==
  ASSUME source \in Source, NEW c, NEW op \in Operation, NEW patch, NEW script,
         Scripted(source, op, patch, script),
         source = "confluence" /\ op = "update" => script = <<"get", "putNext">>,
         NEW next, IsCall(next), next["op"] = op, next["script"] = script, next["todo"] = script,
         next["pc"] = IF script = Refused THEN "failed" ELSE "running",
         Sent(source, op, next["patch"]) = Sent(source, op, patch),
         op = "create" => next["item"] = "none",
         next["inside"] => next["names"]
  PROVE  CallFine(source, c, next) /\ ~ Holding(next)
<1>1. CASE script = Refused
  BY <1>1 DEF CallFine, Holding
<1>2. CASE script # Refused
  <2>1. /\ script \in Seq(Sent(source, op, patch)) /\ script # <<>>
        /\ source = "confluence" /\ op = "create" => Len(script) = 1
    BY <1>2 DEF Scripted, Sendable
  <2>2. CallFine(source, c, next)
    BY <1>2, <2>1 DEF CallFine, Busy
  <2>3. ~ Holding(next)
    <3>1. op = "update" /\ script = <<"putNext">> => source = "confluence"
      <4> SUFFICES ASSUME op = "update", script = <<"putNext">> PROVE source = "confluence"
        OBVIOUS
      <4>1. "putNext" \in Sent(source, op, patch)
        BY <2>1
      <4>2. QED
        BY <4>1 DEF Sent, MaySend
    <3>2. <<"get", "putNext">> # <<"putNext">>
      <4>1. Len(<<"get", "putNext">>) = 2 /\ Len(<<"putNext">>) = 1
        OBVIOUS
      <4>2. QED
        BY <4>1
    <3>3. QED
      BY <3>1, <3>2 DEF Holding
  <2>4. QED
    BY <2>2, <2>3
<1>3. QED
  BY <1>1, <1>2

(* A call as it is built. *)
LEMMA StartingIs ==
  ASSUME NEW c, NEW op, NEW script
  PROVE  LET r == Starting(c, op, script)
         IN  /\ IsCall(r) /\ r["op"] = op /\ r["script"] = script /\ r["todo"] = script
             /\ r["pc"] = IF script = Refused THEN "failed" ELSE "running"
             /\ r["patch"] = {} /\ r["item"] = "none" /\ ~ r["inside"] /\ ~ r["names"]
BY ZenonT(60) DEF Starting, Nothing, IsCall, CallFields

(* Confluence reads a page before it writes it. *)
LEMMA ConfluenceReadsFirst ==
  ASSUME NEW c, c.op = "update"
  PROVE  Script("confluence", c) = <<"get", "putNext">>
BY DEF Script, GitHub, ConfluenceScript, ConfluenceUpdate

LEMMA SourcesAre == Source \subseteq Sources
BY SourceAssumption DEF Sources

(* Read, update, delete. *)
LEMMA AddressKeeps ==
  ASSUME ConnectorsInv, NEW c \in Caller, NEW op \in {"read", "delete", "update"}, NEW i, NEW patch,
         Address(c, op, i, patch)
  PROVE  ConnectorsInv' /\ Calm
<1> DEFINE id == IdOf(i)
           kind == IF Named(id) = "none" THEN "text" ELSE KindOf[Named(id)]
           about == [op |-> op, id |-> id, ref |-> Ref(source, id), patch |-> patch, kind |-> kind]
           script == IF Refers(id) THEN Script(source, about) ELSE Refused
           item == IF Refers(id) THEN Named(id) ELSE "none"
           before == IF Refers(id) /\ Named(id) # "none" THEN remote[Named(id)] ELSE Absent
           next == [Starting(c, op, script) EXCEPT !.item = item, !.patch = patch, !.before = before]
<1>1. /\ call[c].pc = "idle" /\ UNCHANGED <<source, remote>> /\ Stepped(c, next)
  BY DEF Address, Stepped
<1>2. source \in Source /\ source \in Sources /\ op \in Operation
  BY SourcesAre DEF ConnectorsInv, AllFine, Operation
<1>3. about.op = op /\ about.patch = patch
  OBVIOUS
<1> HIDE DEF about, id, item, before
<1>4. Scripted(source, op, patch, script)
  <2>1. Scripted(source, about.op, about.patch, Script(source, about))
    BY <1>2, <1>3, Scripts
  <2>2. QED
    BY <1>3, <2>1 DEF Scripted
<1>5. source = "confluence" /\ op = "update" => script = <<"get", "putNext">>
  <2> SUFFICES ASSUME source = "confluence", op = "update" PROVE script = <<"get", "putNext">>
    OBVIOUS
  <2>1. Refers(id)
    BY DEF Refers, RawIds
  <2>2. QED
    BY <1>3, <2>1, ConfluenceReadsFirst
<1> HIDE DEF script
<1>6. /\ IsCall(next) /\ next["op"] = op /\ next["script"] = script /\ next["todo"] = script
      /\ next["pc"] = IF script = Refused THEN "failed" ELSE "running"
      /\ next["patch"] = patch /\ ~ next["inside"]
  <2> DEFINE r == Starting(c, op, script)
  <2>1. /\ IsCall(r) /\ r["op"] = op /\ r["script"] = script /\ r["todo"] = script
        /\ r["pc"] = IF script = Refused THEN "failed" ELSE "running"
        /\ ~ r["inside"]
    BY StartingIs
  <2> HIDE DEF r
  <2>2. next = [r EXCEPT !.item = item, !.patch = patch, !.before = before]
    BY DEF r
  <2>3. QED
    BY <2>1, <2>2, ZenonT(60) DEF IsCall, CallFields
<1> HIDE DEF next
<1>7. CallFine(source, c, next) /\ ~ Holding(next)
  BY <1>2, <1>4, <1>5, <1>6, StartIsFine
<1>8. QED
  BY <1>1, <1>7, StartKeeps

(* The container a call names is the one the source holds. *)
LEMMA ParentNamed ==
  ASSUME source \in Source, NEW there, Parent(there) # Nowhere
  PROVE  NamesTop(source, Parent(there))
<1>1. Parent(there) = Resource(source, NameOf[source]["a"]).parent
  BY DEF Parent
<1>2. QED
  BY <1>1, ParentIsTop

(* List and search. *)
LEMMA WalkKeeps ==
  ASSUME ConnectorsInv, NEW c \in Caller, NEW op \in {"list", "search"}, NEW inside, NEW there,
         NEW limit, Walk(c, op, inside, there, limit)
  PROVE  ConnectorsInv' /\ Calm
<1> DEFINE parent == Parent(there)
           about == [op |-> op, inside |-> inside, parent |-> parent]
           script == Script(source, about)
           within == inside /\ parent # Nowhere
           names == parent # Nowhere /\ NamesTop(source, parent)
           next == [Starting(c, op, script) EXCEPT !.inside = within, !.limit = limit, !.names = names]
<1>1. /\ call[c].pc = "idle" /\ UNCHANGED <<source, remote>> /\ Stepped(c, next)
  BY DEF Walk, Stepped
<1>2. source \in Source /\ source \in Sources /\ op \in Operation
  BY SourcesAre DEF ConnectorsInv, AllFine, Operation
<1>3. about.op = op
  OBVIOUS
<1>4. within => names
  BY <1>2, ParentNamed
<1> HIDE DEF about, within, names
<1>5. Scripted(source, op, about.patch, script)
  <2>1. Scripted(source, about.op, about.patch, Script(source, about))
    BY <1>2, <1>3, Scripts
  <2>2. QED
    BY <1>3, <2>1
<1> HIDE DEF script
<1>6. /\ IsCall(next) /\ next["op"] = op /\ next["script"] = script /\ next["todo"] = script
      /\ next["pc"] = IF script = Refused THEN "failed" ELSE "running"
      /\ next["inside"] = within /\ next["names"] = names
  <2> DEFINE r == Starting(c, op, script)
  <2>1. /\ IsCall(r) /\ r["op"] = op /\ r["script"] = script /\ r["todo"] = script
        /\ r["pc"] = IF script = Refused THEN "failed" ELSE "running"
    BY StartingIs
  <2> HIDE DEF r
  <2>2. next = [r EXCEPT !.inside = within, !.limit = limit, !.names = names]
    BY DEF r
  <2>3. QED
    BY <2>1, <2>2, ZenonT(60) DEF IsCall, CallFields
<1> HIDE DEF next
<1>7. Sent(source, op, next["patch"]) = Sent(source, op, about.patch)
  BY DEF Sent, MaySend
<1>8. CallFine(source, c, next) /\ ~ Holding(next)
  BY <1>2, <1>4, <1>5, <1>6, <1>7, StartIsFine
<1>9. QED
  BY <1>1, <1>8, StartKeeps

(* Create. *)
LEMMA CreateInKeeps ==
  ASSUME ConnectorsInv, NEW c \in Caller, NEW there, NEW body, NEW meta,
         CreateIn(c, there, body, meta)
  PROVE  ConnectorsInv' /\ Calm
<1> DEFINE op == "create"
           parent == Parent(there)
           about == [op |-> "create", parent |-> parent, body |-> body, meta |-> meta]
           script == Script(source, about)
           within == parent # Nowhere
           whole == body /\ ~ (source = "drive" /\ meta)
           names == parent # Nowhere /\ NamesTop(source, parent)
           next == [Starting(c, op, script) EXCEPT !.inside = within, !.body = whole, !.names = names]
<1>1. /\ call[c].pc = "idle" /\ UNCHANGED <<source, remote>> /\ Stepped(c, next)
  BY DEF CreateIn, Stepped
<1>2. source \in Source /\ source \in Sources /\ op \in Operation
  BY SourcesAre DEF ConnectorsInv, AllFine, Operation
<1>3. about.op = op
  OBVIOUS
<1>4. within => names
  BY <1>2, ParentNamed
<1> HIDE DEF about, within, names, whole
<1>5. Scripted(source, op, about.patch, script)
  <2>1. Scripted(source, about.op, about.patch, Script(source, about))
    BY <1>2, <1>3, Scripts
  <2>2. QED
    BY <1>3, <2>1
<1> HIDE DEF script
<1>6. /\ IsCall(next) /\ next["op"] = op /\ next["script"] = script /\ next["todo"] = script
      /\ next["pc"] = IF script = Refused THEN "failed" ELSE "running"
      /\ next["inside"] = within /\ next["names"] = names /\ next["item"] = "none"
  <2> DEFINE r == Starting(c, op, script)
  <2>1. /\ IsCall(r) /\ r["op"] = op /\ r["script"] = script /\ r["todo"] = script
        /\ r["pc"] = IF script = Refused THEN "failed" ELSE "running"
        /\ r["item"] = "none"
    BY StartingIs
  <2> HIDE DEF r
  <2>2. next = [r EXCEPT !.inside = within, !.body = whole, !.names = names]
    BY DEF r
  <2>3. QED
    BY <2>1, <2>2, ZenonT(60) DEF IsCall, CallFields
<1> HIDE DEF next
<1>7. Sent(source, op, next["patch"]) = Sent(source, op, about.patch)
  BY DEF Sent, MaySend
<1>8. CallFine(source, c, next) /\ ~ Holding(next)
  BY <1>2, <1>4, <1>5, <1>6, <1>7, StartIsFine
<1>9. QED
  BY <1>1, <1>8, StartKeeps

(* People at work in the source. *)
LEMMA EditKeeps ==
  ASSUME ConnectorsInv, NEW f, Edit(f)
  PROVE  ConnectorsInv' /\ Calm
<1> DEFINE t == remote["a"]
           ask == [op |-> "update"]
           now == remote'
           calls == call'
<1>1. /\ AllFine(source, remote, call) /\ Stocked(remote) /\ \A d \in Caller : CallFine(source, d, call[d])
  BY DEF ConnectorsInv, AllFine
<1>2. "a" \in Item /\ "person" \notin Caller /\ IsThing(t)
  BY <1>1, SourceAssumption DEF Item, Stocked
<1> DEFINE u == Edited(t, f)
           w == IF f = "gone" THEN Absent ELSE u
<1>3. /\ t["state"] = "live" /\ calls = Meanwhile("person") /\ source' = source
      /\ now = [remote EXCEPT !["a"] = w]
  BY DEF Edit, Live
<1>4. \E title, body : u = [t EXCEPT !.title = title, !.body = body, !.version = t.version + 1]
  BY DEF Edited
<1>5. IsThing(u) /\ u["version"] = t["version"] + 1
  <2> DEFINE version == t.version + 1
  <2>1. version \in Nat /\ version = t["version"] + 1
    BY <1>2 DEF IsThing
  <2>2. PICK title, body : u = [t EXCEPT !.title = title, !.body = body, !.version = version]
    BY <1>4
  <2> HIDE DEF version, t, u
  <2>3. u = [g \in ThingFields |-> IF g = "title" THEN title ELSE IF g = "body" THEN body
                                   ELSE IF g = "version" THEN version ELSE t[g]]
    BY <1>2, <2>2 DEF IsThing, ThingFields
  <2>4. QED
    BY <1>2, <2>1, <2>3 DEF IsThing, ThingFields
<1>6. now = [remote EXCEPT !["a"] = w]
  BY <1>3
<1>7. IsThing(w) /\ (w["state"] = "absent" \/ w["version"] = t["version"] + 1)
  BY <1>5, ThingsAre
<1> HIDE DEF w, u, now, calls
<1>8. Stocked(now) /\ now["a"] = w /\ \A i \in Item : i # "a" => now[i] = remote[i]
  <2>1. Stocked([remote EXCEPT !["a"] = w])
    BY <1>1, <1>7, OneSet
  <2>2. QED
    BY <1>1, <1>2, <1>6, <2>1 DEF Stocked
<1>9. \A i \in Item : Ages(remote, now, ask, "person", i)
  BY <1>3, <1>7, <1>8 DEF Ages
<1>10. /\ calls = [d \in Caller |-> calls[d]]
       /\ \A d \in Caller : calls[d] = Meanwhile("person")[d]
  BY <1>3 DEF Meanwhile
<1>11. ASSUME NEW d \in Caller
       PROVE  /\ Aside(call[d], calls[d])
              /\ call[d]["pc"] = "running" => calls[d] = [call[d] EXCEPT !.calm = calls[d].calm]
  <2>1. d # "person" /\ calls[d] = Meanwhile("person")[d] /\ CallFine(source, d, call[d])
    BY <1>1, <1>2, <1>10
  <2>2. /\ Aside(call[d], Meanwhile("person")[d])
        /\ call[d]["pc"] = "running" =>
             Meanwhile("person")[d] = [call[d] EXCEPT !.calm = Meanwhile("person")[d].calm]
    BY <2>1, MeanwhileAside
  <2>3. QED
    BY <2>1, <2>2
<1>12. Calm
  BY <1>11 DEF Calm, Moved, calls
<1>13. AllFine(source, now, calls)
  <2>1. ask["op"] # "create"
    OBVIOUS
  <2> HIDE DEF ask
  <2>2. QED
    BY <1>1, <1>2, <1>8, <1>9, <1>10, <1>11, <2>1, StepKeeps
<1>14. QED
  BY <1>3, <1>12, <1>13 DEF ConnectorsInv, now, calls

-----------------------------------------------------------------------------
(* A call as it is while one of its requests is sent. *)
Asking(r, ask) == IsCall(ask) /\ \A f \in CallFields \ {"sent", "faulted"} : ask[f] = r[f]

(* What a running call sends next. *)
LEMMA WaitingIs ==
  ASSUME NEW c \in Caller, NEW S, Busy(S, call[c])
  PROVE  \/ Head(Waiting(c)) = "site" /\ source \in {"jira", "confluence"}
         \/ Head(Waiting(c)) = Head(call[c].todo) /\ Head(call[c].todo) \in S
<1> DEFINE todo == call[c].todo
<1>1. todo \in Seq(S) /\ todo # <<>> /\ Head(todo) \in S
  BY HeadTailProperties DEF Busy
<1> HIDE DEF todo
<1>2. \/ Waiting(c) = todo
      \/ source \in {"jira", "confluence"} /\ Waiting(c) = <<"site">> \o todo
      \/ source \in {"jira", "confluence"} /\ Waiting(c) = <<>> \o todo
  BY DEF Waiting, SiteRequests, When, todo
<1>3. <<>> \o todo = todo
  BY <1>1
<1>4. Head(<<"site">> \o todo) = "site"
  BY <1>1, AfterFirst
<1>5. QED
  BY <1>1, <1>2, <1>3, <1>4 DEF todo

(* What a transport makes of a status. *)
LEMMA TransportIs ==
  ASSUME NEW s \in Source, NEW request
  PROVE  /\ Transport(s, request)["ok"] = "answered"
         /\ s # "memory" => Transport(s, request)["empty"] \in {"answered", "failed"}
         /\ Transport(s, request)["missing"] = "missing"
         /\ Transport(s, request)["refused"] = "failed"
<1>1. CASE s \in {"memory", "notion", "drive", "jira", "confluence"}
  BY <1>1 DEF Transport, AtlassianTransport, NotionTransport, DriveTransport
<1>2. CASE s \in {"slack", "teams", "calendar", "calcom", "calendly"}
  BY <1>2 DEF Transport, SlackTransport, TeamsTransport, CalendarTransport, CalcomTransport,
              CalendlyTransport
<1>3. CASE s \in {"issue", "discussion", "project", "code"}
  BY <1>3 DEF Transport, GitHubRest, GitHubGraphql
<1>4. QED
  BY <1>1, <1>2, <1>3, SourceAssumption

(* When a source answers that something is not there. *)
LEMMA StatusIs ==
  ASSUME NEW ask, NEW request
  PROVE  /\ Status(ask, request) \in {"ok", "missing", "refused"}
         /\ Status(ask, request) = "missing" /\ request # "drop" =>
              \/ ~ There(ask.item)
              \/ ask.inside /\ ~ (ask.names /\ Live("top"))
BY DEF Status

(* The requests of a running call, all but the one for the site. *)
LEMMA RequestIsDue ==
  ASSUME ConnectorsInv, NEW c \in Caller, call[c].pc = "running", NEW ask, Asking(call[c], ask),
         NEW request, request = Head(call[c].todo), request \in Sent(source, ask.op, ask.patch),
         Status(ask, request) = "ok"
  PROVE  Fitting(remote, Effect(c, ask, request), ask, c)
<1> DEFINE r == call[c]
<1>1. /\ Stocked(remote) /\ source \in Source /\ CallFine(source, c, r)
      /\ source = "confluence" => PagesTrue(remote, call)
  BY DEF ConnectorsInv, AllFine
<1>2. /\ ask["op"] = r["op"] /\ ask["item"] = r["item"] /\ ask["held"] = r["held"]
      /\ ask["patch"] = r["patch"] /\ ask["todo"] = r["todo"]
  BY DEF Asking, CallFields
<1>3. /\ r["pc"] = "running" /\ ask.op \in Operation
      /\ ask.op = "create" => ask.item \in {"none", c}
  BY <1>1, <1>2 DEF CallFine
<1>4. ASSUME request = "putNext"
      PROVE  /\ ask.held.version \in Nat
             /\ ask.held.version = remote[ask.item].version =>
                  /\ ask.held.title = remote[ask.item].title
                  /\ ask.held.body = remote[ask.item].body
  <2>1. source = "confluence" /\ ask.op = "update"
    BY <1>3, <1>4 DEF Sent, MaySend, Operation
  <2>2. r["todo"] = <<"putNext">>
    <3>1. r["todo"] \in {<<"get", "putNext">>, <<"putNext">>}
      BY <1>1, <1>2, <1>3, <2>1 DEF CallFine
    <3>2. Head(<<"get", "putNext">>) = "get"
      OBVIOUS
    <3>3. Head(r["todo"]) = "putNext"
      BY <1>4
    <3>4. QED
      BY <3>1, <3>2, <3>3
  <2>3. Holding(r)
    BY <1>2, <1>3, <2>1, <2>2 DEF Holding
  <2>4. ReadTrue(remote, call, r)
    BY <1>1, <2>1, <2>3 DEF PagesTrue
  <2> DEFINE t == remote[ask.item]
             h == ask.held
  <2>5. There(ask.item)
    BY <1>4, AnsweredOk DEF Opens
  <2>6. h["version"] \in Nat /\ Recent(t, h) /\ t["state"] # "absent"
    BY <1>2, <2>4, <2>5 DEF ReadTrue, There
  <2>7. IsThing(t)
    BY <1>1, <2>5 DEF There, Stocked
  <2> HIDE DEF t, h
  <2>8. h["version"] = t["version"] => t["title"] = h["title"] /\ t["body"] = h["body"]
    BY <2>6, <2>7 DEF Recent, IsThing
  <2>9. QED
    BY <2>6, <2>8 DEF t, h
<1> HIDE DEF r
<1>5. QED
  BY <1>1, <1>3, <1>4, EffectIsDue

(* What a call whose request had its effect leaves. *)
LEMMA SentKeeps ==
  ASSUME ConnectorsInv, NEW c \in Caller, call[c].pc = "running", NEW ask, Asking(call[c], ask),
         NEW next, Stepped(c, next), source' = source,
         Fitting(remote, remote', ask, c), CallFine(source, c, next),
         Unmade(next) => Unmade(call[c]),
         source = "confluence" /\ ask.op = "create" /\ remote' # remote => ~ Unmade(next),
         source = "confluence" /\ Holding(next) => ReadTrue(remote', call', next)
  PROVE  /\ ConnectorsInv'
         /\ \A d \in Caller : d # c /\ call[d].pc = "running" => ~ Moved(d)
         /\ \A i \in Item : remote'[i] # remote[i] => MayChange(call[c], c, i)
<1>1. AllFine(source, remote, call)
  BY DEF ConnectorsInv
<1>2. /\ call' = [d \in Caller |-> call'[d]] /\ call'[c] = next
      /\ \A d \in Caller : d # c => /\ Aside(call[d], call'[d])
                                    /\ call[d]["pc"] = "running" => ~ Moved(d)
  BY <1>1, StepIs
<1> DEFINE now == remote'
           calls == call'
<1>3. /\ Stocked(now) /\ (\A i \in Item : now[i] # remote[i] => Touches(remote, now, ask, c, i))
      /\ source = "confluence" => \A i \in Item : Ages(remote, now, ask, c, i)
  BY DEF Fitting
<1>4. /\ ask["op"] = call[c]["op"] /\ ask["item"] = call[c]["item"] /\ ask["patch"] = call[c]["patch"]
  BY DEF Asking, CallFields
<1>5. source = "confluence" /\ ask["op"] = "create" /\ now # remote =>
        Unmade(call[c]) /\ ~ Unmade(calls[c])
  BY <1>2, <1>4 DEF Unmade
<1>6. /\ calls = [d \in Caller |-> calls[d]] /\ calls[c] = next
      /\ \A d \in Caller : d # c => Aside(call[d], calls[d])
  BY <1>2
<1>7. source = "confluence" /\ Holding(calls[c]) => ReadTrue(now, calls, calls[c])
  BY <1>2
<1> HIDE DEF now, calls
<1>8. AllFine(source, now, calls)
  BY <1>1, <1>3, <1>5, <1>6, <1>7, StepKeeps
<1>9. ConnectorsInv'
  <2>1. source' = source /\ remote' = now /\ call' = calls
    BY DEF now, calls
  <2>2. AllFine(source', remote', call')
    BY <1>8, <2>1, Zenon
  <2>3. QED
    BY <2>2 DEF ConnectorsInv
<1>10. ASSUME NEW i \in Item, remote'[i] # remote[i]
       PROVE  MayChange(call[c], c, i)
  <2>1. Touches(remote, now, ask, c, i)
    BY <1>3, <1>10 DEF now
  <2>2. Changed(i) = Differs(remote[i], now[i]) /\ (Live(i)' <=> now[i]["state"] = "live")
    BY DEF Changed, Differs, Live, now, Item
  <2>3. QED
    BY <1>4, <2>1, <2>2 DEF Touches, MayChange
<1>11. QED
  BY <1>2, <1>9, <1>10

(* A call that asks is the call it was. *)
LEMMA AskIs ==
  ASSUME NEW r, NEW ask, Asking(r, ask)
  PROVE  /\ IsCall(ask) /\ ask["pc"] = r["pc"] /\ ask["op"] = r["op"] /\ ask["item"] = r["item"]
         /\ ask["inside"] = r["inside"] /\ ask["names"] = r["names"] /\ ask["patch"] = r["patch"]
         /\ ask["script"] = r["script"] /\ ask["todo"] = r["todo"] /\ ask["held"] = r["held"]
BY DEF Asking, CallFields

LEMMA AskStaysFine ==
  ASSUME NEW src, NEW c, NEW r, CallFine(src, c, r), NEW ask, Asking(r, ask)
  PROVE  CallFine(src, c, ask) /\ (Unmade(ask) <=> Unmade(r)) /\ (Holding(ask) => Holding(r))
<1>1. /\ IsCall(ask) /\ ask["pc"] = r["pc"] /\ ask["op"] = r["op"] /\ ask["item"] = r["item"]
      /\ ask["inside"] = r["inside"] /\ ask["names"] = r["names"] /\ ask["patch"] = r["patch"]
      /\ ask["script"] = r["script"] /\ ask["todo"] = r["todo"]
  BY AskIs
<1>2. QED
  BY <1>1 DEF CallFine, Unmade, Holding, Busy

(* What a caller has made stays made. *)
LEMMA NoneUnmade ==
  ASSUME AllFine(source, remote, call), NEW c \in Caller, NEW next, Stepped(c, next),
         Unmade(next) => Unmade(call[c])
  PROVE  \A d \in Caller : Unmade(call'[d]) => Unmade(call[d])
<1>1. /\ call'[c] = next
      /\ \A d \in Caller : d # c => Aside(call[d], call'[d])
  BY StepIs
<1> DEFINE calls == call'
<1>2. /\ calls[c] = next
      /\ \A d \in Caller : d # c => Aside(call[d], calls[d])
  BY <1>1
<1> HIDE DEF calls
<1>3. ASSUME NEW d \in Caller
      PROVE  Unmade(calls[d]) => Unmade(call[d])
  <2>1. CASE d = c
    BY <1>2, <2>1
  <2>2. CASE d # c
    <3>1. CallFine(source, d, call[d]) /\ Aside(call[d], calls[d])
      BY <1>2, <2>2 DEF AllFine
    <3>2. QED
      BY <3>1, AsideKeeps
  <2>3. QED
    BY <2>1, <2>2
<1>4. QED
  BY <1>3 DEF calls

(* What a step of a running call may do. *)
Orderly(c) ==
    /\ ConnectorsInv'
    /\ \A d \in Caller : d # c /\ call[d].pc = "running" => ~ Moved(d)
    /\ \A i \in Item : remote'[i] # remote[i] => MayChange(call[c], c, i)

(* A request that ends its call. *)
LEMMA FinishedKeeps ==
  ASSUME ConnectorsInv, NEW c \in Caller, call[c].pc = "running", NEW ask, Asking(call[c], ask),
         NEW pc \in Ended, Stepped(c, Finished(ask, pc)), source' = source,
         Fitting(remote, remote', ask, c)
  PROVE  Orderly(c) /\ call'[c].pc = pc
<1> DEFINE next == Finished(ask, pc)
<1>1. AllFine(source, remote, call) /\ CallFine(source, c, call[c])
  BY DEF ConnectorsInv, AllFine
<1>2. IsCall(ask) /\ ask["op"] = call[c]["op"]
  BY AskIs
<1>3. GoesOn(ask, next, ask.item) /\ next.pc = pc
  BY <1>2, FinishedGoesOn
<1> HIDE DEF next
<1>4. next["pc"] \notin {"running", "idle"} /\ IsCall(next) /\ next["op"] = call[c]["op"]
  BY <1>2, <1>3 DEF GoesOn, Ended
<1>5. CallFine(source, c, next) /\ ~ Unmade(next) /\ ~ Holding(next)
  BY <1>1, <1>4 DEF CallFine, Unmade, Holding
<1>6. Stepped(c, next)
  BY DEF next
<1>7. Orderly(c)
  BY <1>5, <1>6, SentKeeps DEF Orderly
<1>8. call'[c] = next
  BY <1>1, <1>6, StepIs
<1>9. QED
  BY <1>3, <1>7, <1>8

(* The site is asked for. *)
LEMMA SiteKeeps ==
  ASSUME ConnectorsInv, NEW c \in Caller, call[c].pc = "running", NEW ask, Asking(call[c], ask),
         Stepped(c, ask), UNCHANGED <<source, remote>>
  PROVE  Orderly(c) /\ call'[c].pc = "running"
<1>1. /\ AllFine(source, remote, call) /\ CallFine(source, c, call[c]) /\ Stocked(remote)
      /\ source = "confluence" => PagesTrue(remote, call)
  BY DEF ConnectorsInv, AllFine
<1>2. CallFine(source, c, ask) /\ (Unmade(ask) <=> Unmade(call[c])) /\ (Holding(ask) => Holding(call[c]))
  BY <1>1, AskStaysFine
<1>3. ask["pc"] = "running" /\ ask["item"] = call[c]["item"] /\ ask["held"] = call[c]["held"]
  BY AskIs
<1>4. Fitting(remote, remote', ask, c)
  <2>1. Fitting(remote, remote, ask, c)
    BY <1>1, NoEffect
  <2>2. QED
    BY <2>1
<1>5. \A d \in Caller : Unmade(call'[d]) => Unmade(call[d])
  BY <1>1, <1>2, NoneUnmade
<1>6. ASSUME source = "confluence", Holding(ask)
      PROVE  ReadTrue(remote', call', ask)
  <2>1. ReadTrue(remote, call, call[c])
    BY <1>1, <1>2, <1>6 DEF PagesTrue
  <2> DEFINE calls == call'
             r == call[c]
  <2>2. \A d \in Caller : Unmade(calls[d]) => Unmade(call[d])
    BY <1>5
  <2>3. ask["item"] = r["item"] /\ ask["held"] = r["held"] /\ ReadTrue(remote, call, r)
    BY <1>3, <2>1
  <2> HIDE DEF calls, r
  <2>4. ReadTrue(remote, calls, ask)
    BY <2>2, <2>3 DEF ReadTrue
  <2>5. remote' = remote /\ call' = calls
    BY DEF calls
  <2>6. QED
    BY <2>4, <2>5, Zenon
<1>7. Orderly(c)
  BY <1>2, <1>4, <1>6, SentKeeps DEF Orderly
<1>8. call'[c] = ask
  BY <1>1, StepIs
<1>9. QED
  BY <1>3, <1>7, <1>8

LEMMA ReadIsPut == Tail(<<"get", "putNext">>) = <<"putNext">>
OBVIOUS

(* A request that was answered. *)
LEMMA AnsweredKeeps ==
  ASSUME ConnectorsInv, NEW c \in Caller, call[c].pc = "running", NEW ask, Asking(call[c], ask),
         NEW request, request = Head(call[c].todo), request \in Sent(source, ask.op, ask.patch),
         Status(ask, request) = "ok", Stepped(c, Answered(c, ask, request)),
         source' = source, remote' = Effect(c, ask, request)
  PROVE  Orderly(c) /\ call'[c].pc # "missing"
<1> DEFINE next == Answered(c, ask, request)
           r == call[c]
           S == Sent(source, ask.op, ask.patch)
<1>1. /\ AllFine(source, remote, call) /\ CallFine(source, c, r) /\ Stocked(remote)
      /\ source = "confluence" => PagesTrue(remote, call)
  BY DEF ConnectorsInv, AllFine
<1>2. /\ CallFine(source, c, ask) /\ IsCall(ask) /\ ask["pc"] = "running" /\ ask["op"] = r["op"]
      /\ ask["item"] = r["item"] /\ ask["todo"] = r["todo"] /\ request = Head(ask["todo"])
  BY <1>1, AskStaysFine, AskIs
<1>3. /\ Busy(S, ask) /\ ask["script"] \in Seq(S) /\ ask["script"] # <<>>
  BY <1>2 DEF CallFine
<1>4. /\ GoesOn(ask, next, IF request \in {"post", "postTitle"} THEN c ELSE ask.item)
      /\ Proceeds(S, ask, next)
      /\ Len(ask.todo) = 1 /\ request \notin {"blocks", "drop", "page"} => next.pc = "done"
      /\ source = "confluence" /\ request = "get" /\ Len(ask.todo) # 1 =>
           next.todo = Tail(ask.todo) /\ next.held = remote[ask.item]
  BY <1>2, <1>3, AnsweredGoesOn
<1>5. Fitting(remote, remote', ask, c)
  <2>1. Fitting(remote, Effect(c, ask, request), ask, c)
    BY <1>2, RequestIsDue
  <2>2. QED
    BY <2>1
<1> HIDE DEF next
<1>6. /\ IsCall(next) /\ next["op"] = ask["op"] /\ next["patch"] = ask["patch"]
      /\ next["inside"] = ask["inside"] /\ next["names"] = ask["names"]
      /\ next["script"] = ask["script"]
      /\ next["pc"] \in {"done", "running"} /\ (next["pc"] = "running" => Busy(S, next))
  BY <1>2, <1>4 DEF GoesOn, Proceeds
(* A creation on Confluence is one request, an update a reading and a writing. *)
<1>7. source = "confluence" /\ ask["op"] = "create" => next["pc"] = "done"
  <2> SUFFICES ASSUME source = "confluence", ask["op"] = "create" PROVE next["pc"] = "done"
    OBVIOUS
  <2>1. Len(ask["todo"]) = 1
    BY <1>2 DEF CallFine
  <2>2. request \notin {"blocks", "drop", "page"}
    BY DEF Sent, MaySend
  <2>3. QED
    BY <1>4, <2>1, <2>2
<1>8. source = "confluence" /\ ask["op"] = "update" /\ next["pc"] = "running" =>
        /\ request = "get" /\ next["todo"] = <<"putNext">> /\ next["held"] = remote[ask.item]
  <2> SUFFICES ASSUME source = "confluence", ask["op"] = "update", next["pc"] = "running"
               PROVE  /\ request = "get" /\ next["todo"] = <<"putNext">>
                      /\ next["held"] = remote[ask.item]
    OBVIOUS
  <2>1. ask["todo"] \in {<<"get", "putNext">>, <<"putNext">>}
    BY <1>2 DEF CallFine
  <2>2. ask["todo"] # <<"putNext">>
    <3> SUFFICES ASSUME ask["todo"] = <<"putNext">> PROVE FALSE
      OBVIOUS
    <3>1. Len(ask["todo"]) = 1 /\ request = "putNext"
      BY <1>2
    <3>2. QED
      BY <1>4, <3>1
  <2>3. Len(ask["todo"]) # 1 /\ request = "get"
    BY <1>2, <2>1, <2>2
  <2>4. Tail(ask["todo"]) = <<"putNext">>
    BY <2>1, <2>2, ReadIsPut
  <2>5. QED
    BY <1>4, <2>3, <2>4
<1>9. next["op"] = "create" => next["item"] \in {"none", c}
  <2>1. ask["op"] = "create" => ask["item"] \in {"none", c}
    BY <1>2 DEF CallFine
  <2>2. next["item"] = IF request \in {"post", "postTitle"} THEN c ELSE ask.item
    BY <1>4 DEF GoesOn
  <2>3. QED
    BY <1>6, <2>1, <2>2
<1>10. CallFine(source, c, next)
  <2>1. Sent(source, next["op"], next["patch"]) = S
    BY <1>6
  <2>2. next["op"] \in Operation
    BY <1>2, <1>6 DEF CallFine
  <2>3. next["inside"] => next["names"]
    BY <1>2, <1>6 DEF CallFine
  <2> HIDE DEF S
  <2>4. QED
    BY <1>3, <1>6, <1>7, <1>8, <1>9, <2>1, <2>2, <2>3 DEF CallFine
<1>11. /\ Unmade(next) => Unmade(r)
       /\ source = "confluence" /\ ask.op = "create" /\ remote' # remote => ~ Unmade(next)
  BY <1>2, <1>6, <1>7 DEF Unmade
<1>12. Stepped(c, next)
  BY DEF next
<1>13. call'[c] = next /\ \A d \in Caller : Unmade(call'[d]) => Unmade(call[d])
  BY <1>1, <1>11, <1>12, StepIs, NoneUnmade
<1>14. ASSUME source = "confluence", Holding(next)
       PROVE  ReadTrue(remote', call', next)
  <2>1. /\ next["pc"] = "running" /\ ask["op"] = "update"
    BY <1>6, <1>14 DEF Holding
  <2> DEFINE i == ask.item
             t == remote[i]
             calls == call'
  <2>2. request = "get" /\ next["held"] = t
    BY <1>8, <1>14, <2>1
  <2>3. There(i)
    BY <2>2, AnsweredOk DEF Opens
  <2>4. i \in Item /\ t["state"] # "absent" /\ IsThing(t)
    BY <1>1, <2>3 DEF There, Stocked
  <2>5. next["item"] = i
    BY <1>4, <2>2, SMTT(60) DEF GoesOn
  <2>6. remote' = remote
    BY <2>2 DEF Effect
  <2>7. i \in Caller => ~ Unmade(calls[i])
    BY <1>1, <1>13, <1>14, <2>4 DEF PagesTrue
  <2> HIDE DEF i, calls
  <2>8. ReadTrue(remote, calls, next)
    BY <2>2, <2>4, <2>5, <2>7 DEF ReadTrue, Recent, IsThing
  <2>9. call' = calls
    BY DEF calls
  <2>10. QED
    BY <2>6, <2>8, <2>9, Zenon
<1>15. Orderly(c)
  BY <1>5, <1>10, <1>11, <1>12, <1>14, SentKeeps DEF Orderly
<1>16. QED
  BY <1>6, <1>13, <1>15

(* A call ends in "not found" only while what it is about is gone. *)
NotThere(c) ==
    call'[c].pc = "missing" /\ source # "notion" =>
      ~ Live(call[c].item) \/ (call[c].inside /\ ~ Live("top"))

(* A request is sent and answered. *)
LEMMA SendKeeps ==
  ASSUME ConnectorsInv, NEW c \in Caller, Send(c)
  PROVE  Orderly(c) /\ NotThere(c)
<1> DEFINE r == call[c]
           ask == [r EXCEPT !.sent = TRUE]
           request == Head(Waiting(c))
           status == Status(ask, request)
           body == IF status = "ok" /\ NoContent(request) THEN "empty" ELSE status
           made == Transport(source, request)[body]
           answered == Answered(c, ask, request)
           failed == Finished(ask, made)
           next == IF request = "site" THEN ask ELSE IF made = "answered" THEN answered ELSE failed
<1>1. /\ AllFine(source, remote, call) /\ CallFine(source, c, r) /\ Stocked(remote)
      /\ source \in Source /\ IsCall(r)
  BY DEF ConnectorsInv, AllFine, CallFine
<1>2. /\ call[c].pc = "running" /\ source' = source /\ Stepped(c, next)
      /\ remote' = IF status = "ok" THEN Effect(c, ask, request) ELSE remote
  BY DEF Send, Stepped
<1>3. Asking(r, ask)
  BY <1>1 DEF Asking, IsCall, CallFields
<1>4. /\ ask["op"] = r["op"] /\ ask["patch"] = r["patch"] /\ ask["item"] = r["item"]
      /\ ask["inside"] = r["inside"] /\ ask["names"] = r["names"]
  BY <1>3, AskIs
<1>5. Busy(Sent(source, r["op"], r["patch"]), r)
  BY <1>1, <1>2 DEF CallFine
<1>6. \/ request = "site" /\ source \in {"jira", "confluence"}
      \/ request = Head(r.todo) /\ request \in Sent(source, r["op"], r["patch"])
  BY <1>5, WaitingIs
<1>7. status \in {"ok", "missing", "refused"}
  BY StatusIs
<1> HIDE DEF ask, request, answered, failed
<1>8. CASE request = "site" /\ source \in {"jira", "confluence"}
  <2>1. status = "ok" /\ Effect(c, ask, request) = remote
    BY <1>8 DEF Status, Effect
  <2>2. UNCHANGED <<source, remote>> /\ Stepped(c, ask)
    BY <1>2, <1>8, <2>1
  <2>3. Orderly(c) /\ call'[c].pc = "running"
    BY <1>2, <1>3, <2>2, SiteKeeps
  <2>4. QED
    BY <2>3 DEF NotThere
<1>9. CASE request = Head(r.todo) /\ request \in Sent(source, r["op"], r["patch"])
  <2>0. request # "site"
    BY <1>9 DEF Sent, Requests
  <2>1. request \in Sent(source, ask.op, ask.patch)
    BY <1>4, <1>9
  <2>2. /\ Transport(source, request)["ok"] = "answered"
        /\ source # "memory" => Transport(source, request)["empty"] \in {"answered", "failed"}
        /\ Transport(source, request)["missing"] = "missing"
        /\ Transport(source, request)["refused"] = "failed"
    BY <1>1, TransportIs
  <2>3. /\ status = "ok" => made \in {"answered", "failed"}
        /\ status # "ok" => made = IF status = "missing" THEN "missing" ELSE "failed"
    <3>1. NoContent(request) => source # "memory"
      BY DEF NoContent
    <3> HIDE DEF status
    <3>2. QED
      BY <1>7, <2>2, <3>1
  <2> HIDE DEF made
  <2>4. CASE made = "answered"
    <3>1. status = "ok"
      BY <2>3, <2>4
    <3>2. Stepped(c, answered) /\ remote' = Effect(c, ask, request)
      BY <1>2, <2>0, <2>4, <3>1
    <3>3. Stepped(c, Answered(c, ask, request))
      BY <3>2 DEF answered
    <3>4. Orderly(c) /\ call'[c].pc # "missing"
      BY <1>2, <1>3, <1>9, <2>1, <3>1, <3>2, <3>3, AnsweredKeeps
    <3>5. QED
      BY <3>4 DEF NotThere
  <2>5. CASE made # "answered"
    <3>1. Fitting(remote, remote', ask, c)
      <4>1. CASE status = "ok"
        <5>1. Fitting(remote, Effect(c, ask, request), ask, c)
          BY <1>2, <1>3, <1>9, <2>1, <4>1, RequestIsDue
        <5>2. QED
          BY <1>2, <4>1, <5>1
      <4>2. CASE status # "ok"
        <5>1. Fitting(remote, remote, ask, c)
          BY <1>1, NoEffect
        <5>2. QED
          BY <1>2, <4>2, <5>1
      <4>3. QED
        BY <4>1, <4>2
    <3>2. made \in Ended
      BY <2>3, <2>5 DEF Ended
    <3>3. Stepped(c, failed)
      BY <1>2, <2>0, <2>5
    <3>4. Stepped(c, Finished(ask, made))
      BY <3>3 DEF failed
    <3>5. Orderly(c) /\ call'[c].pc = made
      BY <1>2, <1>3, <3>1, <3>2, <3>4, FinishedKeeps
    <3>6. ASSUME made = "missing", source # "notion"
          PROVE  ~ Live(call[c].item) \/ (call[c].inside /\ ~ Live("top"))
      <4>1. status = "missing"
        BY <1>7, <2>3, <3>6
      <4>2. request # "drop"
        <5>1. ask.op \in Operation
          BY <1>1, <1>4 DEF CallFine
        <5>2. MaySend(source, ask.op, ask.patch, request)
          BY <2>1 DEF Sent
        <5>3. QED
          BY <3>6, <5>1, <5>2 DEF MaySend, Operation
      <4>3. ~ There(ask.item) \/ (ask.inside /\ ~ (ask.names /\ Live("top")))
        BY <4>1, <4>2, StatusIs
      <4>4. r["inside"] => r["names"]
        BY <1>1, <1>2, <3>6 DEF CallFine
      <4>5. ~ There(r.item) => ~ Live(r.item)
        BY DEF There, Live
      <4>6. QED
        BY <1>4, <4>3, <4>4, <4>5
    <3>7. QED
      BY <3>5, <3>6 DEF NotThere
  <2>6. QED
    BY <2>4, <2>5
<1>10. QED
  BY <1>6, <1>8, <1>9

(* A request is refused, or its answer lost. *)
LEMMA FaultKeeps ==
  ASSUME ConnectorsInv, NEW c \in Caller, NEW lost, Fault(c, lost)
  PROVE  Orderly(c) /\ NotThere(c)
<1> DEFINE r == call[c]
           ask == [r EXCEPT !.sent = TRUE, !.faulted = TRUE]
           request == Head(Waiting(c))
           made == Transport(source, request)["refused"]
<1>1. /\ AllFine(source, remote, call) /\ CallFine(source, c, r) /\ Stocked(remote)
      /\ source \in Source /\ IsCall(r)
  BY DEF ConnectorsInv, AllFine, CallFine
<1>2. made = "failed"
  BY <1>1, TransportIs
<1>3. /\ call[c].pc = "running" /\ source' = source /\ Stepped(c, Finished(ask, made))
      /\ \/ remote' = remote
         \/ remote' = Effect(c, ask, request) /\ Status(ask, request) = "ok"
  BY DEF Fault, Stepped
<1>4. Asking(r, ask)
  BY <1>1 DEF Asking, IsCall, CallFields
<1>5. ask["op"] = r["op"] /\ ask["patch"] = r["patch"]
  BY <1>4, AskIs
<1>6. Busy(Sent(source, r["op"], r["patch"]), r)
  BY <1>1, <1>3 DEF CallFine
<1>7. \/ request = "site" /\ source \in {"jira", "confluence"}
      \/ request = Head(r.todo) /\ request \in Sent(source, r["op"], r["patch"])
  BY <1>6, WaitingIs
<1> HIDE DEF ask, request, made
<1>8. Fitting(remote, remote, ask, c)
  BY <1>1, NoEffect
<1>9. Fitting(remote, remote', ask, c)
  <2>1. CASE remote' = remote
    BY <1>8, <2>1
  <2>2. CASE remote' = Effect(c, ask, request) /\ Status(ask, request) = "ok"
    <3>1. CASE request = "site"
      <4>1. Effect(c, ask, request) = remote
        BY <3>1 DEF Effect
      <4>2. QED
        BY <1>8, <2>2, <4>1
    <3>2. CASE request # "site"
      <4>1. request = Head(r.todo) /\ request \in Sent(source, ask.op, ask.patch)
        BY <1>5, <1>7, <3>2
      <4>2. Fitting(remote, Effect(c, ask, request), ask, c)
        BY <1>3, <1>4, <2>2, <4>1, RequestIsDue
      <4>3. QED
        BY <2>2, <4>2
    <3>3. QED
      BY <3>1, <3>2
  <2>3. QED
    BY <1>3, <2>1, <2>2
<1>10. Orderly(c) /\ call'[c].pc = made
  BY <1>2, <1>3, <1>4, <1>9, FinishedKeeps DEF Ended
<1>11. QED
  BY <1>2, <1>10 DEF NotThere

(* What every step keeps, and what none may do. *)
LEMMA EveryStep ==
  ASSUME ConnectorsInv, [ConnectorsNext]_connectors
  PROVE  /\ ConnectorsInv'
         /\ \A c \in Caller : call[c].pc = "running" /\ Moved(c) =>
              /\ \A i \in Item : remote'[i] # remote[i] => MayChange(call[c], c, i)
              /\ call'[c].pc = "missing" /\ source # "notion" =>
                   ~ Live(call[c].item) \/ (call[c].inside /\ ~ Live("top"))
<1> DEFINE Due == \A c \in Caller : call[c].pc = "running" /\ Moved(c) =>
              /\ \A i \in Item : remote'[i] # remote[i] => MayChange(call[c], c, i)
              /\ call'[c].pc = "missing" /\ source # "notion" =>
                   ~ Live(call[c].item) \/ (call[c].inside /\ ~ Live("top"))
<1>1. Calm => Due
  BY DEF Calm
<1>2. ASSUME NEW c \in Caller, Orderly(c), NotThere(c) PROVE Due
  BY <1>2 DEF Orderly, NotThere
<1>3. ASSUME UNCHANGED connectors PROVE ConnectorsInv' /\ Due
  <2>1. ConnectorsInv'
    BY <1>3 DEF ConnectorsInv, connectors
  <2>2. ASSUME NEW c \in Caller, call[c].pc = "running" PROVE ~ Moved(c)
    <3>1. IsCall(call[c]) /\ call'[c] = call[c]
      BY <1>3, <2>2 DEF ConnectorsInv, AllFine, CallFine, connectors
    <3> DEFINE r == call[c]
    <3>2. r = [r EXCEPT !.calm = r.calm]
      BY <3>1 DEF IsCall, CallFields
    <3>3. QED
      BY <3>1, <3>2 DEF Moved
  <2>3. QED
    BY <1>1, <2>1, <2>2 DEF Calm
<1> HIDE DEF Due
<1>4. ASSUME NEW c \in Caller, NEW op \in {"read", "delete"}, NEW i, Address(c, op, i, {})
      PROVE  ConnectorsInv' /\ Due
  BY <1>1, <1>4, AddressKeeps
<1>5. ASSUME NEW c \in Caller, NEW i, NEW patch, Address(c, "update", i, patch)
      PROVE  ConnectorsInv' /\ Due
  BY <1>1, <1>5, AddressKeeps
<1>6. ASSUME NEW c \in Caller, NEW op \in {"list", "search"}, NEW inside, NEW there, NEW limit,
             Walk(c, op, inside, there, limit)
      PROVE  ConnectorsInv' /\ Due
  BY <1>1, <1>6, WalkKeeps
<1>7. ASSUME NEW c \in Caller, NEW there, NEW body, NEW meta, CreateIn(c, there, body, meta)
      PROVE  ConnectorsInv' /\ Due
  BY <1>1, <1>7, CreateInKeeps
<1>8. ASSUME NEW c \in Caller, Send(c)
      PROVE  ConnectorsInv' /\ Due
  BY <1>2, <1>8, SendKeeps DEF Orderly
<1>9. ASSUME NEW c \in Caller, NEW lost, Fault(c, lost)
      PROVE  ConnectorsInv' /\ Due
  BY <1>2, <1>9, FaultKeeps DEF Orderly
<1>10. ASSUME NEW f, Edit(f)
       PROVE  ConnectorsInv' /\ Due
  BY <1>1, <1>10, EditKeeps
<1> DEFINE Both == ConnectorsInv' /\ Due
<1> HIDE DEF Both
<1>11. Both
  <2>1. CASE \E c \in Caller, op \in {"read", "delete"}, i \in {"top", "a", "b", "stray"} :
               Address(c, op, i, {})
    BY <1>4, <2>1 DEF Both
  <2>2. CASE \E c \in Caller, i \in {"top", "a", "stray"} :
               \E patch \in Patches[c] : Address(c, "update", i, patch)
    BY <1>5, <2>2 DEF Both
  <2>3. CASE \E c \in Caller, op \in {"list", "search"}, inside, there \in BOOLEAN, limit \in 1..2 :
               Walk(c, op, inside, there, limit)
    BY <1>6, <2>3 DEF Both
  <2>4. CASE \E c \in Caller, there, body, meta \in BOOLEAN : CreateIn(c, there, body, meta)
    BY <1>7, <2>4 DEF Both
  <2>5. CASE \E c \in Caller : Send(c)
    BY <1>8, <2>5 DEF Both
  <2>6. CASE \E c \in Caller, lost \in BOOLEAN : Fault(c, lost)
    BY <1>9, <2>6 DEF Both
  <2>7. CASE \E f \in {"title", "body", "gone"} : Edit(f)
    BY <1>10, <2>7 DEF Both
  <2>8. CASE UNCHANGED connectors
    BY <1>3, <2>8 DEF Both
  <2>9. QED
    BY <2>1, <2>2, <2>3, <2>4, <2>5, <2>6, <2>7, <2>8 DEF ConnectorsNext
<1>12. QED
  BY <1>11 DEF Due, Both

(* No request touches what its call is not about ... *)
THEOREM CallsKeepToTheirFields == ConnectorsSpec => OnlyNamedFieldsChange
<1>1. ConnectorsInit => ConnectorsInv
  BY StartsFine
<1>2. ConnectorsInv /\ [ConnectorsNext]_connectors => ConnectorsInv'
  BY EveryStep
<1>3. ConnectorsInv /\ [ConnectorsNext]_connectors =>
        [\A c \in Caller : call[c].pc = "running" /\ Moved(c) =>
         /\ \A i \in Item : remote'[i] # remote[i] => MayChange(call[c], c, i)
         /\ call'[c].pc = "missing" /\ source # "notion" =>
              ~ Live(call[c].item) \/ (call[c].inside /\ ~ Live("top"))]_connectors
  BY EveryStep
<1>4. QED
  BY <1>1, <1>2, <1>3, PTL DEF ConnectorsSpec, OnlyNamedFieldsChange

=============================================================================
