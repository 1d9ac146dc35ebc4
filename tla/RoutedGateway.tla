--------------------------- MODULE RoutedGateway ---------------------------
(***************************************************************************)
(* The model gateway: requests of several tenants, served concurrently by  *)
(* one process, share the memory of what is broken.                        *)
(*                                                                         *)
(* A Worker serves one request at a time: it reads which providers the     *)
(* tenant brought a key for, walks the candidates of the task, skips what  *)
(* is in cooldown, unseals the key, calls, and remembers what failed.  The *)
(* provider answers as it likes.  A tenant may store or forget a key at    *)
(* any moment.  Candidates are considered one per step although the code   *)
(* does not yield between two it skips: the model has more interleavings.  *)
(* The filtered list of candidates is the route with the others passed by. *)
(***************************************************************************)
EXTENDS Availability, Sequences

CONSTANTS
    Worker,         \* requests in flight together
    Tenant,
    Provider,       \* completion providers
    Model,          \* model references
    ProviderOf,     \* ProviderOf[m]: the provider of model m
    Route,          \* the candidates of the task, in order
    Embedding,      \* the embedding provider's name
    Keyable,        \* the providers a tenant may store a key for
    Attempts,       \* attemptsPerModel
    Moving          \* those of them whose keys come and go while requests are served

ASSUME RouteAssumption ==
    /\ ProviderOf \in [Model -> Provider]
    /\ Route \in Seq(Model)
    /\ Attempts \in Nat \ {0}
    /\ Embedding \notin Provider
    /\ Keyable \subseteq Provider \cup {Embedding}
    /\ Moving \subseteq Keyable
    /\ Provider \cap (Tenant \X Model) = {}

VARIABLES
    memory,     \* memory[x]: what is remembered of scope x
    keys,       \* keys[t]: the providers tenant t has a key for
    worker,     \* worker[w]: the locals of one request
    held        \* history: the completion keys its tenant held while it was served

vars == <<memory, keys, worker, held>>

-----------------------------------------------------------------------------
(* Bug: a credential is one model's, whoever holds it. *)
CredentialScopeShared(t, m) == <<CHOOSE u \in Tenant : TRUE, m>>

CredentialScope(t, m) == <<t, m>>

(* providerScope is the provider itself. *)
Scope == Provider \cup (Tenant \X Model)

Failure == Fault \cup {"request"}

Locals == [pc : {"idle", "reading", "choosing", "unsealing", "calling", "failed",
                 "sleeping"},
           tenant : Tenant, own : SUBSET Provider, at : 1..(Len(Route) + 1),
           attempt : 0..Attempts, key : {"none", "platform", "tenant"},
           kind : Failure, wait : {0} \cup RetryAfters,
           tried : Seq(Model \X Failure)]

Fresh(t) == [pc |-> "reading", tenant |-> t, own |-> {}, at |-> 1, attempt |-> 0,
             key |-> "none", kind |-> "request", wait |-> 0, tried |-> <<>>]

(* Of one request: the providers its tenant had a key for all the while, and *)
(* those it had one for at some time.                                       *)
HeldKeys == [throughout : SUBSET Provider, ever : SUBSET Provider]
Nothing == [throughout |-> {}, ever |-> {}]

TypeOK ==
    /\ memory \in [Scope -> Memory]
    /\ keys \in [Tenant -> SUBSET Keyable]
    /\ worker \in [Worker -> Locals]
    /\ held \in [Worker -> HeldKeys]

Init ==
    /\ memory = [x \in Scope |-> Unknown]
    /\ keys \in [Tenant -> SUBSET Keyable]
    /\ worker \in [Worker -> {[Fresh(t) EXCEPT !.pc = "idle"] : t \in Tenant}]
    /\ held = [w \in Worker |-> Nothing]

Completions(t) == keys[t] \ {Embedding}

(* Bug: a tenant that brought keys is routed to every candidate. *)
EligibleAlways(own, m) == TRUE

(* Bringing a key is opting out of the platform's. *)
Eligible(own, m) == own = {} \/ ProviderOf[m] \in own

Candidate(w) == Route[worker[w].at]

Scopes(w) == {ProviderOf[Candidate(w)], CredentialScope(worker[w].tenant, Candidate(w))}

(* #unavailable over memory m: the provider is asked first, the credential *)
(* only if the provider is not in cooldown.                                *)
Unavailable(m, w) == \E x \in Scopes(w) : Blocked(m[x])

AfterAsking(m, w) ==
    LET p == ProviderOf[Candidate(w)]
        asked == IF Blocked(m[p]) THEN {p} ELSE Scopes(w)
    IN  [x \in Scope |-> IF x \in asked THEN Asked(m[x]) ELSE m[x]]

(* Bug: what is passed by is asked again. *)
NextCandidateSame(w) == [worker[w] EXCEPT !.pc = "choosing", !.attempt = 0]

NextCandidate(w) == [worker[w] EXCEPT !.pc = "choosing", !.at = @ + 1, !.attempt = 0]

Return(w) == [Fresh(worker[w].tenant) EXCEPT !.pc = "idle"]

Set(w, locals) ==
    /\ worker' = [worker EXCEPT ![w] = locals]
    /\ held' = [held EXCEPT ![w] = IF locals.pc = "idle" THEN Nothing ELSE @]

-----------------------------------------------------------------------------
Ask(w, t) ==
    /\ worker[w].pc = "idle"
    /\ worker' = [worker EXCEPT ![w] = Fresh(t)]
    /\ held' = [held EXCEPT ![w] = [throughout |-> Completions(t), ever |-> Completions(t)]]
    /\ UNCHANGED <<memory, keys>>

(* #ownProviders: a resolver that cannot be read is raised. *)
ReadKeys(w) ==
    /\ worker[w].pc = "reading"
    /\ \/ Set(w, [worker[w] EXCEPT !.pc = "choosing",
                                   !.own = Completions(worker[w].tenant)])
       \/ Set(w, Return(w))
    /\ UNCHANGED <<memory, keys>>

(* One candidate is passed by, skipped in cooldown, or taken; or the list ends. *)
Choose(w) ==
    /\ worker[w].pc = "choosing"
    /\ IF worker[w].at > Len(Route)
         THEN Set(w, Return(w)) /\ UNCHANGED memory
         ELSE IF ~ Eligible(worker[w].own, Candidate(w))
         THEN Set(w, NextCandidate(w)) /\ UNCHANGED memory
         ELSE /\ memory' = AfterAsking(memory, w)
              /\ Set(w, IF Unavailable(memory, w) THEN NextCandidate(w)
                        ELSE [worker[w] EXCEPT !.pc = "unsealing", !.attempt = 1])
    /\ UNCHANGED keys

(* Bug: the key is the one that was there when the set was read. *)
UnsealAsRead(w) ==
    LET me == worker[w]
        own == ProviderOf[Candidate(w)] \in me.own
    IN  /\ me.pc = "unsealing"
        /\ \/ Set(w, [me EXCEPT !.pc = "calling",
                                !.key = IF own THEN "tenant" ELSE "platform"])
           \/ me.own # {} /\ Set(w, Return(w))
        /\ UNCHANGED <<memory, keys>>

(* #tenantKey, then the call goes out; a key that cannot be unsealed throws. *)
Unseal(w) ==
    LET me == worker[w]
        own == me.own # {} /\ ProviderOf[Candidate(w)] \in keys[me.tenant]
    IN  /\ me.pc = "unsealing"
        /\ \/ Set(w, [me EXCEPT !.pc = "calling",
                                !.key = IF own THEN "tenant" ELSE "platform"])
           \/ me.own # {} /\ Set(w, Return(w))
        /\ UNCHANGED <<memory, keys>>

Answered(w) ==
    /\ worker[w].pc = "calling"
    /\ memory' = [x \in Scope |-> IF x \in Scopes(w) THEN Unknown ELSE memory[x]]
    /\ Set(w, Return(w))
    /\ UNCHANGED keys

(* The call failed; the usage row is written before anything is remembered. *)
(* `tried` is a history of the failed calls, its last Attempts + 1.         *)
CallFails(w, kind, wait) ==
    /\ worker[w].pc = "calling"
    /\ Set(w, [worker[w] EXCEPT !.pc = "failed", !.kind = kind, !.wait = wait,
                 !.tried = Append(IF Len(@) > Attempts THEN Tail(@) ELSE @,
                                  <<Candidate(w), kind>>)])
    /\ UNCHANGED <<memory, keys>>

(* Bug: the attempts are spent on one model, whatever it answered. *)
MovesOnNever(kind, unavailable) == FALSE

(* A rate-limited key stays so; a provider past its threshold is left alone. *)
MovesOn(kind, unavailable) == kind = "credential" \/ unavailable

(* #remember charges the failure, and the request goes on to its next call. *)
Remember(w) ==
    LET me == worker[w]
        scope == IF me.kind = "credential" THEN CredentialScope(me.tenant, Candidate(w))
                 ELSE ProviderOf[Candidate(w)]
        now == [memory EXCEPT ![scope] = Faulted(@, me.kind, me.wait)]
    IN  /\ me.pc = "failed"
        /\ me.kind # "request"
        /\ memory' = IF me.kind = "credential" THEN now ELSE AfterAsking(now, w)
        /\ Set(w, IF MovesOn(me.kind, Unavailable(now, w)) THEN NextCandidate(w)
                  ELSE IF me.attempt < Attempts THEN [me EXCEPT !.pc = "sleeping"]
                  ELSE NextCandidate(w))
        /\ UNCHANGED keys

(* A refused request fails the same way everywhere: it is thrown. *)
Refused(w) ==
    /\ worker[w].pc = "failed"
    /\ worker[w].kind = "request"
    /\ Set(w, Return(w))
    /\ UNCHANGED <<memory, keys>>

Attempted(me) == [me EXCEPT !.attempt = @ + 1]

(* Backoff is over; the memory is not asked again before the next attempt. *)
Wake(w) ==
    /\ worker[w].pc = "sleeping"
    /\ Set(w, [Attempted(worker[w]) EXCEPT !.pc = "unsealing"])
    /\ UNCHANGED <<memory, keys>>

-----------------------------------------------------------------------------
Tick ==
    /\ \E x \in Scope : memory[x].left > 0
    /\ memory' = [x \in Scope |-> Aged(memory[x])]
    /\ UNCHANGED <<keys, worker, held>>

(* A tenant stores a key, or forgets one. *)
ChangeKey(t, p) ==
    /\ keys' = [keys EXCEPT ![t] = IF p \in @ THEN @ \ {p} ELSE @ \cup {p}]
    /\ held' = [w \in Worker |->
                  IF worker[w].pc = "idle" \/ worker[w].tenant # t \/ p = Embedding THEN held[w]
                  ELSE [throughout |-> held[w].throughout \ {p}, ever |-> held[w].ever \cup {p}]]
    /\ UNCHANGED <<memory, worker>>

Serve(w) ==
    \/ ReadKeys(w) \/ Choose(w) \/ Unseal(w) \/ Answered(w)
    \/ \E kind \in Failure, wait \in RetryAfters : CallFails(w, kind, wait)
    \/ Remember(w) \/ Refused(w) \/ Wake(w)

Next ==
    \/ \E w \in Worker, t \in Tenant : Ask(w, t)
    \/ \E w \in Worker : Serve(w)
    \/ Tick
    \/ \E t \in Tenant, p \in Moving : ChangeKey(t, p)

Spec == Init /\ [][Next]_vars

(* A request being served goes on (a call ends, at the latest by its own   *)
(* timeout), and time passes.                                              *)
FairSpec == Spec /\ (\A w \in Worker : WF_vars(Serve(w))) /\ WF_vars(Tick)

-----------------------------------------------------------------------------
(* A cooldown never exceeds its ceiling, or what the provider itself asked  *)
(* for, however many probes failed and whoever reported them.               *)
CooldownBounded == \A x \in Scope : Sane(memory[x])

(* A rate limit belongs to one tenant's credential: a scope that starts to  *)
(* be skipped was reported by a request of that tenant for that model       *)
(* (#remember, credentialScope).                                            *)
NeighboursUnaffected ==
    [][\A t \in Tenant, m \in Model :
         ~ Blocked(memory[<<t, m>>]) /\ Blocked(memory'[<<t, m>>]) =>
           \E w \in Worker : /\ worker[w].tenant = t
                             /\ worker[w].pc = "failed"
                             /\ worker[w].kind = "credential"
                             /\ Candidate(w) = m]_vars

(* The keys are read once and unsealed later, so the rule of model-keys.ts:15 *)
(* ("any key" means only covered providers, and failing rather than falling *)
(* back to the platform's) is broken when they move under a request: a key  *)
(* that was forgotten since leaves its provider's calls on the platform's   *)
(* key, and the first key that is stored is not seen at all                 *)
(* (routed-gateway.ts:124, :147).                                           *)
KeyForgotten(w) ==
    ProviderOf[Candidate(w)] \in held[w].ever \ Completions(worker[w].tenant)
FirstKeyUnseen(w) == worker[w].own = {} /\ held[w].throughout = {}

(* Bringing a key is opting out of the platform's, whatever moves meanwhile: *)
(* a call for a tenant that held a key at any time of its request is on its  *)
(* key of that provider, but for the two above; a key that was there all    *)
(* along is used; one key that was, and the call goes nowhere the tenant    *)
(* never had one; and what is unsealed is there (complete, #tenantKey).     *)
OwnKeysOnly ==
    [][\A w \in Worker :
         worker[w].pc = "unsealing" /\ worker'[w].pc = "calling" =>
           LET p == ProviderOf[Candidate(w)]
               mine == Completions(worker[w].tenant)
               billed == worker'[w].key
           IN  /\ held[w].ever # {} => \/ billed = "tenant" /\ p \in mine
                                       \/ billed = "platform" /\ (KeyForgotten(w) \/ FirstKeyUnseen(w))
               /\ p \in held[w].throughout => billed = "tenant"
               /\ held[w].throughout # {} => p \in held[w].ever
               /\ billed = "tenant" => p \in mine]_vars

(* Fallback is orderly: models are tried in the order of the route, each at *)
(* most Attempts times, never again after a rate limit, and nothing at all  *)
(* after a refusal (complete).                                              *)
Place(m) == CHOOSE i \in DOMAIN Route : Route[i] = m

FallbackIsOrderly ==
    \A w \in Worker :
      LET tried == worker[w].tried IN
      \A i, j \in DOMAIN tried : i < j =>
        /\ Place(tried[i][1]) <= Place(tried[j][1])
        /\ tried[i][2] # "request"
        /\ tried[i][2] = "credential" => tried[i][1] # tried[j][1]
        /\ tried[i][1] = tried[j][1] => j - i < Attempts

(* Trying again comes to an end and giving up does not last: every request  *)
(* ends, with an answer or an error, and what is skipped is asked again,    *)
(* whatever became of the probe that was let through (complete, blocked).   *)
RequestsEnd ==
    /\ \A w \in Worker : worker[w].pc # "idle" ~> worker[w].pc = "idle"
    /\ \A x \in Scope : []<>(~ Blocked(memory[x]))

=============================================================================
