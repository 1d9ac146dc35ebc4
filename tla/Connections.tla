---------------------------- MODULE Connections ----------------------------
(***************************************************************************)
(* One connection of one tenant to an OAuth source: onboarding, the sealed *)
(* credential, calls through the manager with the token refreshed on the   *)
(* way, and disconnecting.                                                 *)
(*                                                                         *)
(* Workers of several processes share the database; each process has a     *)
(* vault of credentials and one of model keys, and each of these caches    *)
(* the tenant's data key.  The provider of the tokens is outside: it lets  *)
(* them expire, honours one refresh token, may rotate it at every refresh, *)
(* and may withdraw the grant.  A data key is named by the worker that     *)
(* minted it, a token by the number of its access token.                   *)
(***************************************************************************)
EXTENDS Naturals

CONSTANTS
    Worker,         \* calls being served
    Process,
    ProcessOf,      \* ProcessOf[w]: the process that serves w
    None,
    MaxTokens,      \* bounds the tokens the provider issues
    MaxRejections,  \* bounds the stores' rejections and the lost answers
    MaxCrashes

Token == [access : 1..MaxTokens, refresh : 0..MaxTokens]
Credential == [token : Token, key : Worker]

(* A process has one vault for credentials and one for model keys. *)
Vault == Process \X {"credentials", "model keys"}

ASSUME NoneAssumption == None \notin Worker \cup Token \cup Credential
ASSUME ProcessAssumption == ProcessOf \in [Worker -> Process]
ASSUME BoundAssumption ==
    MaxTokens \in Nat /\ MaxRejections \in Nat /\ MaxCrashes \in Nat

VARIABLES
    row,        \* the connection's record
    sealed,     \* its credential, and the data key that sealed it
    modelKey,   \* the data key that sealed a model key of the same tenant
    dek,        \* the tenant's stored data key
    cache,      \* cache[v]: the data key vault v holds in memory
    live,       \* provider: the access tokens that have not expired
    honoured,   \* provider: the refresh token it honours, 0 for none
    issued,     \* provider: the tokens issued so far
    rotates,    \* provider: does a refresh replace the refresh token?
    worker,     \* worker[w]: the locals of one call
    forgotten,  \* history: somebody asked to disconnect
    raced,      \* history: two calls were under way at the same time
    rejections, crashes

provider == <<live, honoured, issued, rotates>>
tenant == <<modelKey, dek, cache>>
counters == <<forgotten, raced, rejections, crashes>>
vars == <<row, sealed, tenant, provider, worker, counters>>

-----------------------------------------------------------------------------
Locals == [pc : {"idle", "creating", "reading", "keying", "ensuring", "sealing",
                 "undoing", "refreshing", "downgrading", "calling", "removing"},
           doing : {"nothing", "connect", "call", "bring", "disconnect"},
           token : Token \cup {None},
           under : Worker \cup {None},      \* the data key that sealed the token
           key : Worker \cup {None}]        \* the data key the worker opened

Idle == [pc |-> "idle", doing |-> "nothing", token |-> None, under |-> None, key |-> None]

TypeOK ==
    /\ row \in {"absent", "active", "expired", "gone"}
    /\ sealed \in Credential \cup {None}
    /\ modelKey \in Worker \cup {None}
    /\ dek \in Worker \cup {None}
    /\ cache \in [Vault -> Worker \cup {None}]
    /\ live \subseteq 1..MaxTokens
    /\ honoured \in 0..MaxTokens
    /\ issued \in 0..MaxTokens
    /\ rotates \in BOOLEAN
    /\ worker \in [Worker -> Locals]
    /\ forgotten \in BOOLEAN /\ raced \in BOOLEAN
    /\ rejections \in 0..MaxRejections
    /\ crashes \in 0..MaxCrashes

Init ==
    /\ row = "absent" /\ sealed = None /\ modelKey = None /\ dek = None
    /\ cache = [v \in Vault |-> None]
    /\ live = {} /\ honoured = 0 /\ issued = 0 /\ rotates \in BOOLEAN
    /\ worker = [w \in Worker |-> Idle]
    /\ forgotten = FALSE /\ raced = FALSE /\ rejections = 0 /\ crashes = 0

Set(w, locals) == worker' = [worker EXCEPT ![w] = locals]
Goto(w, pc) == Set(w, [worker[w] EXCEPT !.pc = pc])
Return(w) == Set(w, Idle)

Begin(w, doing, pc, token) ==
    /\ worker[w].pc = "idle"
    /\ Set(w, [Idle EXCEPT !.pc = pc, !.doing = doing, !.token = token])

RowExists == row \in {"active", "expired"}

(* Bug: the schema does not cascade. *)
DeleteRowOnly == row' = (IF RowExists THEN "gone" ELSE row) /\ UNCHANGED sealed

(* credentials (connection_id) REFERENCES connections ON DELETE CASCADE *)
Delete == row' = (IF RowExists THEN "gone" ELSE row) /\ sealed' = None

-----------------------------------------------------------------------------
(* Onboarding: the code is traded for a token before the row is written. *)
Connect(w, refreshable) ==
    LET token == [access |-> issued + 1, refresh |-> IF refreshable THEN issued + 1 ELSE 0]
    IN  /\ row = "absent"
        /\ \A v \in Worker : worker[v].doing # "connect"
        /\ issued < MaxTokens
        /\ Begin(w, "connect", "creating", token)
        /\ issued' = issued + 1
        /\ live' = live \cup {token.access}
        /\ honoured' = token.refresh
        /\ UNCHANGED <<row, sealed, tenant, rotates, counters>>

CreateRow(w) ==
    /\ worker[w].pc = "creating"
    /\ row' = "active"
    /\ Goto(w, "keying")
    /\ UNCHANGED <<sealed, tenant, provider, counters>>

(* A tenant stores a model key: the same data key seals it. *)
Bring(w) ==
    /\ modelKey = None
    /\ Begin(w, "bring", "keying", None)
    /\ UNCHANGED <<row, sealed, tenant, provider, counters>>

(* ConnectionManager.#run: the connection must be active. *)
Call(w) ==
    /\ row = "active"
    /\ Begin(w, "call", "reading", None)
    /\ raced' = (raced \/ \E v \in Worker : worker[v].doing = "call")
    /\ UNCHANGED <<row, sealed, tenant, provider, forgotten, rejections, crashes>>

(* CredentialVault.resolve reads the sealed secret; none is an error. *)
ReadSealed(w) ==
    /\ worker[w].pc = "reading"
    /\ IF sealed = None THEN Return(w)
       ELSE Set(w, [worker[w] EXCEPT !.pc = "keying", !.token = sealed.token,
                                     !.under = sealed.key])
    /\ UNCHANGED <<row, sealed, tenant, provider, counters>>

(* Bug: a token past its time expires the connection. *)
KeyedStaleExpires(w, key) ==
    LET me == worker[w] IN
    IF me.doing # "call" THEN [me EXCEPT !.pc = "sealing", !.key = key]
    ELSE IF me.under # key THEN Idle
    ELSE [me EXCEPT !.pc = IF me.token.access \in live THEN "calling" ELSE "downgrading",
                    !.key = key]

(* What a worker does once it holds the data key: a token is opened with it *)
(* and judged, a secret is sealed with it.                                  *)
Keyed(w, key) ==
    LET me == worker[w] IN
    IF me.doing # "call" THEN [me EXCEPT !.pc = "sealing", !.key = key]
    ELSE IF me.under # key THEN Idle
    ELSE IF me.token.access \in live THEN [me EXCEPT !.pc = "calling", !.key = key]
    ELSE IF me.token.refresh = 0 THEN [me EXCEPT !.pc = "downgrading", !.key = key]
    ELSE [me EXCEPT !.pc = "refreshing", !.key = key]

VaultOf(w) ==
    <<ProcessOf[w], IF worker[w].doing = "bring" THEN "model keys" ELSE "credentials">>

Known(w) == IF cache[VaultOf(w)] # None THEN cache[VaultOf(w)] ELSE dek

(* Bug: the key is taken to be there. *)
NeedsKeyNever(w) == FALSE
NeedsKey(w) == Known(w) = None

(* #dataKey: from the cache, else from the store, else it must be made. *)
FindKey(w) ==
    /\ worker[w].pc = "keying"
    /\ IF NeedsKey(w) THEN Goto(w, "ensuring") /\ UNCHANGED cache
       ELSE /\ cache' = [cache EXCEPT ![VaultOf(w)] = Known(w)]
            /\ Set(w, Keyed(w, Known(w)))
    /\ UNCHANGED <<row, sealed, modelKey, dek, provider, counters>>

(* TenantKeyStore.ensure: the first key stored stays. *)
Ensured(w) == IF dek = None THEN w ELSE dek

(* Bug: whoever minted a key uses it, though another was stored first. *)
EffectiveMinted(w) == w
Effective(w) == Ensured(w)

EnsureKey(w) ==
    /\ worker[w].pc = "ensuring"
    /\ dek' = Ensured(w)
    /\ cache' = [cache EXCEPT ![VaultOf(w)] = Effective(w)]
    /\ Set(w, Keyed(w, Effective(w)))
    /\ UNCHANGED <<row, sealed, modelKey, provider, counters>>

(* The secret is stored under its key; the row must still be there. *)
Seal(w) ==
    LET me == worker[w] IN
    /\ me.pc = "sealing"
    /\ IF me.doing = "bring"
         THEN modelKey' = me.key /\ Return(w) /\ UNCHANGED sealed
       ELSE IF RowExists
         THEN /\ sealed' = [token |-> me.token, key |-> me.key]
              /\ IF me.doing = "connect" THEN Return(w) ELSE Goto(w, "calling")
              /\ UNCHANGED modelKey
       ELSE /\ IF me.doing = "connect" THEN Goto(w, "undoing") ELSE Return(w)
            /\ UNCHANGED <<sealed, modelKey>>
    /\ UNCHANGED <<row, dek, cache, provider, counters>>

(* A credential that could not be stored takes its row with it. *)
Undo(w) ==
    /\ worker[w].pc = "undoing"
    /\ Delete
    /\ Return(w)
    /\ UNCHANGED <<tenant, provider, counters>>

(* Bug: the answer replaces the token as it is. *)
RefreshedAsAnswered(old, new) ==
    [access |-> new, refresh |-> IF rotates THEN new ELSE 0]

(* Providers often omit a new refresh token; the old one is kept. *)
Refreshed(old, new) ==
    [access |-> new, refresh |-> IF rotates THEN new ELSE old.refresh]

(* The provider issues a token for a refresh token it honours. *)
Issue ==
    /\ issued < MaxTokens
    /\ issued' = issued + 1
    /\ live' = live \cup {issued + 1}
    /\ honoured' = IF rotates THEN issued + 1 ELSE honoured
    /\ UNCHANGED rotates

Refresh(w) ==
    LET me == worker[w] IN
    /\ me.pc = "refreshing"
    /\ me.token.refresh = honoured
    /\ Issue
    /\ Set(w, [me EXCEPT !.pc = "sealing", !.token = Refreshed(@, issued + 1)])
    /\ UNCHANGED <<row, sealed, tenant, counters>>

RefreshRefused(w) ==
    /\ worker[w].pc = "refreshing"
    /\ worker[w].token.refresh # honoured
    /\ Goto(w, "downgrading")
    /\ UNCHANGED <<row, sealed, tenant, provider, counters>>

(* No answer in time, whether or not the provider had issued a token; it is *)
(* marked retryable, and nothing reads the mark.                            *)
RefreshUnanswered(w) ==
    /\ worker[w].pc = "refreshing"
    /\ rejections < MaxRejections
    /\ rejections' = rejections + 1
    /\ \/ UNCHANGED provider
       \/ worker[w].token.refresh = honoured /\ Issue
    /\ Goto(w, "downgrading")
    /\ UNCHANGED <<row, sealed, tenant, forgotten, raced, crashes>>

(* #resolve: a refresh that failed expires the connection. *)
Downgrade(w) ==
    /\ worker[w].pc = "downgrading"
    /\ row' = IF RowExists THEN "expired" ELSE row
    /\ Return(w)
    /\ UNCHANGED <<sealed, tenant, provider, counters>>

(* The connector's own operation, whatever becomes of it. *)
CallSource(w) ==
    /\ worker[w].pc = "calling"
    /\ Return(w)
    /\ UNCHANGED <<row, sealed, tenant, provider, counters>>

(* The console's disconnect: the credential first, then the row. *)
Disconnect(w) ==
    /\ RowExists
    /\ Begin(w, "disconnect", "removing", None)
    /\ sealed' = None
    /\ forgotten' = TRUE
    /\ UNCHANGED <<row, tenant, provider, raced, rejections, crashes>>

RemoveRow(w) ==
    /\ worker[w].pc = "removing"
    /\ Delete
    /\ Return(w)
    /\ UNCHANGED <<tenant, provider, counters>>

(* Bug: a credential that could not be stored leaves its row. *)
RejectedLeavesRow(me) == Idle

(* Where a rejected store call leaves its worker: #complete undoes the row. *)
Rejected(me) ==
    IF me.doing = "connect" /\ me.pc \in {"keying", "ensuring", "sealing"}
    THEN [me EXCEPT !.pc = "undoing"] ELSE Idle

StoreRejects(w) ==
    /\ worker[w].pc \notin {"idle", "refreshing", "calling"}
    /\ rejections < MaxRejections
    /\ rejections' = rejections + 1
    /\ Set(w, Rejected(worker[w]))
    /\ UNCHANGED <<row, sealed, tenant, provider, forgotten, raced, crashes>>

-----------------------------------------------------------------------------
Expire(t) ==
    /\ t \in live
    /\ live' = live \ {t}
    /\ UNCHANGED <<row, sealed, tenant, honoured, issued, rotates, worker, counters>>

Withdraw ==
    /\ honoured # 0
    /\ honoured' = 0
    /\ UNCHANGED <<row, sealed, tenant, live, issued, rotates, worker, counters>>

Crash(p) ==
    /\ crashes < MaxCrashes
    /\ crashes' = crashes + 1
    /\ worker' = [w \in Worker |-> IF ProcessOf[w] = p THEN Idle ELSE worker[w]]
    /\ cache' = [v \in Vault |-> IF v[1] = p THEN None ELSE cache[v]]
    /\ UNCHANGED <<row, sealed, modelKey, dek, provider, forgotten, raced, rejections>>

Serve(w) ==
    \/ \E refreshable \in BOOLEAN : Connect(w, refreshable)
    \/ CreateRow(w) \/ Bring(w) \/ Call(w) \/ ReadSealed(w)
    \/ FindKey(w) \/ EnsureKey(w) \/ Seal(w) \/ Undo(w)
    \/ Refresh(w) \/ RefreshRefused(w) \/ RefreshUnanswered(w) \/ Downgrade(w)
    \/ CallSource(w) \/ Disconnect(w) \/ RemoveRow(w) \/ StoreRejects(w)

Next ==
    \/ \E w \in Worker : Serve(w)
    \/ \E t \in 1..MaxTokens : Expire(t)
    \/ Withdraw
    \/ \E p \in Process : Crash(p)

Spec == Init /\ [][Next]_vars

-----------------------------------------------------------------------------
(* One data key per tenant, whoever mints one at the same time: every secret *)
(* was sealed with the key that is stored, and every vault holds that one    *)
(* (#dataKey and TenantKeyStore.ensure).                                     *)
OneDataKey ==
    /\ sealed # None => sealed.key = dek
    /\ modelKey # None => modelKey = dek
    /\ \A v \in Vault : cache[v] \in {None, dek}

(* A connection with no credential must not exist: one whose onboarding is   *)
(* over has one, though storing it may fail once (ConnectionOnboarding).     *)
ConnectedHasCredential ==
    RowExists /\ sealed = None =>
      \/ forgotten \/ crashes > 0 \/ rejections > 1
      \/ \E w \in Worker : worker[w].doing = "connect"

(* A secret never outlives its connection, though a refresh that was under   *)
(* way stores a token after the credential was forgotten (disconnect).       *)
SecretGoesWithRow == ~ RowExists => sealed = None

(* The credential stays refreshable: what is stored can be refreshed for as  *)
(* long as the provider honours anything, though callers refresh at the same *)
(* time (OAuthClient.refresh keeps an omitted refresh token).                *)
StaysRefreshable ==
    /\ RowExists /\ sealed # None /\ honoured # 0
    /\ rejections = 0 /\ crashes = 0
    /\ \A w \in Worker : worker[w].pc = "idle"
    => sealed.token.refresh = honoured

(* A token its provider refreshes no more. *)
Spent(token) == token.refresh = 0 \/ token.refresh # honoured

(* A connection is expired, and every call refused from then on, only when a *)
(* refresh has failed and re-authorisation is needed (ConnectionManager.#run *)
(* says so): what it stores is refreshed no more.  It happens to a usable    *)
(* connection in two cases.  A refresh got no answer (`rejections`); and, at *)
(* a provider that rotates, one of two callers was refused the refresh token *)
(* the other had just replaced: it marks expired the row that holds, or is   *)
(* about to hold, a good token.                                              *)
ExpiredNeedsReauthorising ==
    row = "expired" /\ sealed # None /\ rejections = 0 /\ ~ (rotates /\ raced)
      => Spent(sealed.token)

(* A connection can do what it looks like it can, but for a crash, a store   *)
(* that fails twice, a refresh nobody answers, and the race at a provider    *)
(* that rotates.                                                             *)
ConnectionsWork ==
    ConnectedHasCredential /\ StaysRefreshable /\ ExpiredNeedsReauthorising

=============================================================================
