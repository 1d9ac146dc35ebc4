---------------------- MODULE GatewayAndMemoryProofs ----------------------
(***************************************************************************)
(* Proofs about the gateway, for any number of requests, tenants, models   *)
(* and providers, any policy and any waits a provider may ask for; and     *)
(* about the memory the gateway embeds texts for, for any texts, sources,  *)
(* tasks and importances.                                                  *)
(*                                                                         *)
(* The memory's proof goes bottom up: what the chunker makes of a text,    *)
(* whatever it is; what a batch of vectors holds; the corpus and the       *)
(* locals of the calls (MemoryInv); and what an undisturbed call may rely  *)
(* on (TruthInv).  What a recursive function computes for every text is    *)
(* shown by looking at the least number where it would go wrong.           *)
(***************************************************************************)
EXTENDS RoutedGateway, Knowledge, SequenceTheorems, FiniteSetTheorems, NaturalsInduction, TLAPS

-----------------------------------------------------------------------------
(* One scope's memory *)

(* Nothing is known of a scope at first, and that is a sane memory. *)
LEMMA UnknownIsSane == Unknown \in Memory /\ Sane(Unknown)
BY PolicyAssumption DEF Unknown, Memory, Sane

(* Asking whether a scope is blocked changes only that a probe is out. *)
LEMMA AskedIsSane ==
  ASSUME NEW m \in Memory, Sane(m)
  PROVE  Asked(m) \in Memory /\ Sane(Asked(m)) /\ Blocked(Asked(m)) = Blocked(m)
<1>1. (m.probing \/ (m.set /\ m.left = 0)) \in BOOLEAN
  OBVIOUS
<1>2. Asked(m) \in Memory
  BY <1>1 DEF Asked, Memory
<1>3. Asked(m).left = m.left /\ Asked(m).set = m.set /\ Asked(m).faults = m.faults
  BY Zenon DEF Asked
<1>4. m = Unknown => Asked(m) = Unknown
  <2>1. SUFFICES ASSUME m = Unknown PROVE Asked(m) = Unknown
    OBVIOUS
  <2>2. /\ m.faults = 0 /\ m.cooldown = Cooldown /\ m.left = 0
        /\ m.set = FALSE /\ m.probing = FALSE
    BY <2>1 DEF Unknown
  <2>3. (m.probing \/ (m.set /\ m.left = 0)) = FALSE
    BY <2>2
  <2>4. QED
    BY <2>2, <2>3, Zenon DEF Asked, Unknown
<1>5. Sane(Asked(m))
  BY <1>3, <1>4, Zenon DEF Sane
<1>6. QED
  BY <1>2, <1>3, <1>5, Zenon DEF Blocked

(* A tick of the clock only shortens a wait. *)
LEMMA AgedIsSane ==
  ASSUME NEW m \in Memory, Sane(m)
  PROVE  Aged(m) \in Memory /\ Sane(Aged(m)) /\ (Blocked(Aged(m)) => Blocked(m))
<1>1. Aged(m) \in Memory
  BY DEF Aged, Memory
<1>2. Aged(m).left <= m.left /\ (Aged(m).left > 0 => m.left > 0)
  BY DEF Aged, Memory
<1>3. ASSUME NEW r \in Nat, m.left <= r PROVE Aged(m).left <= r
  BY <1>1, <1>2, <1>3 DEF Memory
<1>4. Aged(m).left <= MaxCooldown \/ \E r \in RetryAfters : Aged(m).left <= r
  BY <1>3, PolicyAssumption DEF Sane
<1>5. m = Unknown => Aged(m) = Unknown
  BY DEF Aged, Unknown
<1>6. Sane(Aged(m))
  BY <1>1, <1>2, <1>4, <1>5 DEF Sane, Aged
<1>7. Blocked(Aged(m)) => Blocked(m)
  BY <1>2 DEF Blocked, Aged
<1>8. QED
  BY <1>1, <1>6, <1>7

(* A fault leaves a wait within the ceiling, or the one it came with. *)
LEMMA FaultedIsSane ==
  ASSUME NEW m \in Memory, Sane(m), NEW kind, NEW wait \in {0} \cup RetryAfters
  PROVE  Faulted(m, kind, wait) \in Memory /\ Sane(Faulted(m, kind, wait))
<1> DEFINE f == Faulted(m, kind, wait)
<1>1. NextCooldown(m) \in Cooldown..MaxCooldown
  BY PolicyAssumption DEF Memory, NextCooldown, Lesser
<1>2. wait \in Nat
  BY PolicyAssumption
<1>3. Lesser(m.faults + 1, Threshold) \in 1..Threshold
  BY PolicyAssumption DEF Memory, Lesser
<1>4. m.set \in BOOLEAN /\ m.left \in Nat
  BY DEF Memory
<1>5. f \in Memory /\ f.faults # 0
  BY <1>1, <1>2, <1>3, <1>4, PolicyAssumption DEF Faulted, Memory
<1>6. \/ f.left = m.left /\ (m.set => f.set)
      \/ f.set /\ f.left = wait /\ wait > 0
      \/ f.set /\ f.left = NextCooldown(m)
  BY DEF Faulted
<1>7. f.left <= MaxCooldown \/ \E r \in RetryAfters : f.left <= r
  BY <1>1, <1>2, <1>6, PolicyAssumption DEF Sane
<1>8. f.left > 0 => f.set
  BY <1>6 DEF Sane
<1>9. QED
  BY <1>5, <1>7, <1>8 DEF Sane

-----------------------------------------------------------------------------
(* The inductive invariant.  A request that works on a candidate is at one  *)
(* of the route, and of its tenant's; one that sleeps has an attempt left.  *)

Placed(me) ==
    /\ me.pc \in {"unsealing", "calling", "failed", "sleeping"} =>
         me.at <= Len(Route) /\ Eligible(me.own, Route[me.at])
    /\ me.pc = "sleeping" => me.attempt < Attempts

Underway == \A w \in Worker : Placed(worker[w])

IInv == TypeOK /\ CooldownBounded /\ Underway

(* The route is a sequence of models, each of one provider. *)
LEMMA RouteFacts ==
  /\ Len(Route) \in Nat
  /\ \A i \in 1..(Len(Route) + 1) : i <= Len(Route) =>
        Route[i] \in Model /\ ProviderOf[Route[i]] \in Provider
BY RouteAssumption

(* A request that was just asked, or has just returned, is well typed. *)
LEMMA FreshIsPlaced ==
  ASSUME NEW t \in Tenant
  PROVE  /\ Fresh(t) \in Locals /\ Placed(Fresh(t))
         /\ [Fresh(t) EXCEPT !.pc = "idle"] \in Locals
         /\ Placed([Fresh(t) EXCEPT !.pc = "idle"])
<1>1. 1 \in 1..(Len(Route) + 1) /\ 0 \in 0..Attempts
  BY RouteFacts, RouteAssumption
<1>2. "request" \in Failure
  BY DEF Failure
<1>3. <<>> \in Seq(Model \X Failure)
  OBVIOUS
<1>4. Fresh(t) \in Locals
  BY <1>1, <1>2, <1>3 DEF Fresh, Locals
<1>5. [Fresh(t) EXCEPT !.pc = "idle"] \in Locals
  BY <1>4, Zenon DEF Locals
<1>6. Fresh(t).pc = "reading"
  BY DEF Fresh
<1>7. [Fresh(t) EXCEPT !.pc = "idle"].pc = "idle"
  BY <1>4, Zenon DEF Locals
<1>8. QED
  BY <1>4, <1>5, <1>6, <1>7 DEF Placed

(* Replacing the locals of one request keeps the table. *)
LEMMA SetKeeps ==
  ASSUME worker \in [Worker -> Locals], Underway, NEW w \in Worker,
         NEW me \in Locals, Placed(me), Set(w, me)
  PROVE  worker' \in [Worker -> Locals] /\ Underway'
<1>1. worker' = [worker EXCEPT ![w] = me]
  BY DEF Set
<1>2. worker' \in [Worker -> Locals]
  BY <1>1
<1>3. \A v \in Worker : worker'[v] = IF v = w THEN me ELSE worker[v]
  BY <1>1
<1>4. QED
  BY <1>2, <1>3, Zenon DEF Underway

(* Going on to the next candidate. *)
LEMMA NextCandidateIsPlaced ==
  ASSUME worker \in [Worker -> Locals], NEW w \in Worker, worker[w].at <= Len(Route)
  PROVE  NextCandidate(w) \in Locals /\ Placed(NextCandidate(w))
<1> DEFINE me == NextCandidate(w)
<1>1. worker[w] \in Locals
  OBVIOUS
<1>2. worker[w].at + 1 \in 1..(Len(Route) + 1) /\ 0 \in 0..Attempts
  BY <1>1, RouteFacts, RouteAssumption DEF Locals
<1>3. me \in Locals
  BY <1>1, <1>2, Zenon DEF NextCandidate, Locals
<1>4. me.pc = "choosing"
  BY <1>1, Zenon DEF NextCandidate, Locals
<1>5. QED
  BY <1>3, <1>4 DEF Placed

-----------------------------------------------------------------------------
(* Each step keeps the locals of the requests *)

(* What a request works on, and whose candidate it is. *)
LEMMA LocalsOf ==
  ASSUME worker \in [Worker -> Locals], NEW w \in Worker
  PROVE  /\ worker[w] \in Locals /\ worker[w].tenant \in Tenant
         /\ worker[w].own \in SUBSET Provider
         /\ worker[w].at \in 1..(Len(Route) + 1) /\ worker[w].attempt \in 0..Attempts
         /\ worker[w].wait \in {0} \cup RetryAfters
         /\ worker[w].at <= Len(Route) =>
              /\ Candidate(w) \in Model
              /\ ProviderOf[Candidate(w)] \in Provider
              /\ Scopes(w) \subseteq Scope
<1>1. worker[w] \in Locals
  OBVIOUS
<1>2. /\ worker[w].tenant \in Tenant /\ worker[w].own \in SUBSET Provider
      /\ worker[w].at \in 1..(Len(Route) + 1) /\ worker[w].attempt \in 0..Attempts
      /\ worker[w].wait \in {0} \cup RetryAfters
  BY <1>1 DEF Locals
<1>3. QED
  BY <1>1, <1>2, RouteFacts DEF Candidate, Scopes, Scope, CredentialScope

LEMMA ReturnKeeps ==
  ASSUME worker \in [Worker -> Locals], Underway, NEW w \in Worker, Set(w, Return(w))
  PROVE  worker' \in [Worker -> Locals] /\ Underway'
BY LocalsOf, FreshIsPlaced, SetKeeps DEF Return

LEMMA NextCandidateKeeps ==
  ASSUME worker \in [Worker -> Locals], Underway, NEW w \in Worker,
         worker[w].at <= Len(Route), Set(w, NextCandidate(w))
  PROVE  worker' \in [Worker -> Locals] /\ Underway'
BY NextCandidateIsPlaced, SetKeeps

LEMMA ReadKeysKeeps ==
  ASSUME TypeOK, Underway, NEW w \in Worker, ReadKeys(w)
  PROVE  worker' \in [Worker -> Locals] /\ Underway'
<1> DEFINE own == Completions(worker[w].tenant)
           me == [worker[w] EXCEPT !.pc = "choosing", !.own = own]
<1>1. worker \in [Worker -> Locals] /\ worker[w] \in Locals
  BY DEF TypeOK
<1>2. own \in SUBSET Provider
  BY <1>1, LocalsOf, RouteAssumption DEF TypeOK, Completions
<1>3. me \in Locals /\ me.pc = "choosing"
  <2> HIDE DEF own
  <2>1. QED
    BY <1>1, <1>2, Zenon DEF Locals
<1>4. CASE Set(w, me)
  <2>1. Placed(me)
    BY <1>3 DEF Placed
  <2> HIDE DEF me
  <2>2. QED
    BY <1>1, <1>3, <1>4, <2>1, SetKeeps
<1>5. CASE Set(w, Return(w))
  BY <1>1, <1>5, ReturnKeeps
<1>6. QED
  BY <1>4, <1>5 DEF ReadKeys

LEMMA ChooseKeeps ==
  ASSUME TypeOK, Underway, NEW w \in Worker, Choose(w)
  PROVE  worker' \in [Worker -> Locals] /\ Underway'
<1> DEFINE me == [worker[w] EXCEPT !.pc = "unsealing", !.attempt = 1]
<1>1. worker \in [Worker -> Locals] /\ worker[w] \in Locals
  BY DEF TypeOK
<1>2. worker[w].at <= Len(Route) \/ worker[w].at > Len(Route)
  BY <1>1, LocalsOf, RouteFacts
<1>3. 1 \in 0..Attempts
  BY RouteAssumption
<1>4. me \in Locals /\ me.pc = "unsealing" /\ me.at = worker[w].at /\ me.own = worker[w].own
  BY <1>1, <1>3, Zenon DEF Locals
<1>5. \/ Set(w, Return(w))
      \/ worker[w].at <= Len(Route) /\ Set(w, NextCandidate(w))
      \/ /\ worker[w].at <= Len(Route) /\ Eligible(worker[w].own, Candidate(w))
         /\ Set(w, me)
  BY <1>2, Zenon DEF Choose
<1>6. CASE Set(w, Return(w))
  BY <1>1, <1>6, ReturnKeeps
<1>7. CASE worker[w].at <= Len(Route) /\ Set(w, NextCandidate(w))
  BY <1>1, <1>7, NextCandidateKeeps
<1>8. CASE /\ worker[w].at <= Len(Route) /\ Eligible(worker[w].own, Candidate(w))
           /\ Set(w, me)
  <2>1. Placed(me)
    BY <1>4, <1>8 DEF Placed, Candidate
  <2> HIDE DEF me
  <2>2. QED
    BY <1>1, <1>4, <1>8, <2>1, SetKeeps
<1>9. QED
  BY <1>5, <1>6, <1>7, <1>8

(* A step that changes neither the place nor the candidates. *)
LEMMA SamePlaceKeeps ==
  ASSUME worker \in [Worker -> Locals], Underway, NEW w \in Worker, NEW me \in Locals,
         worker[w].pc \in {"unsealing", "calling", "failed", "sleeping"},
         me.pc \in {"unsealing", "calling", "failed", "sleeping"},
         me.at = worker[w].at, me.own = worker[w].own,
         me.pc = "sleeping" => me.attempt < Attempts, Set(w, me)
  PROVE  worker' \in [Worker -> Locals] /\ Underway'
<1>1. Placed(worker[w])
  BY DEF Underway
<1>2. Placed(me)
  BY <1>1 DEF Placed
<1>3. QED
  BY <1>2, SetKeeps

LEMMA UnsealKeeps ==
  ASSUME TypeOK, Underway, NEW w \in Worker, Unseal(w)
  PROVE  worker' \in [Worker -> Locals] /\ Underway'
<1> DEFINE mine == worker[w].own # {} /\ ProviderOf[Candidate(w)] \in keys[worker[w].tenant]
           whose == IF mine THEN "tenant" ELSE "platform"
           me == [worker[w] EXCEPT !.pc = "calling", !.key = whose]
<1>1. worker \in [Worker -> Locals] /\ worker[w] \in Locals
  BY DEF TypeOK
<1>2. whose \in {"none", "platform", "tenant"}
  OBVIOUS
<1>3. /\ me \in Locals /\ me.pc = "calling"
      /\ me.at = worker[w].at /\ me.own = worker[w].own
  <2> HIDE DEF whose
  <2>1. QED
    BY <1>1, <1>2, Zenon DEF Locals
<1>4. Set(w, me) \/ Set(w, Return(w))
  BY Zenon DEF Unseal
<1>5. CASE Set(w, me)
  <2> HIDE DEF me
  <2>1. QED
    BY <1>1, <1>3, <1>5, SamePlaceKeeps DEF Unseal
<1>6. CASE Set(w, Return(w))
  BY <1>1, <1>6, ReturnKeeps
<1>7. QED
  BY <1>4, <1>5, <1>6

LEMMA CallFailsKeeps ==
  ASSUME TypeOK, Underway, NEW w \in Worker, NEW kind \in Failure,
         NEW wait \in RetryAfters, CallFails(w, kind, wait)
  PROVE  worker' \in [Worker -> Locals] /\ Underway'
<1> DEFINE old == worker[w].tried
           tried == Append(IF Len(old) > Attempts THEN Tail(old) ELSE old,
                           <<Candidate(w), kind>>)
           me == [worker[w] EXCEPT !.pc = "failed", !.kind = kind, !.wait = wait,
                                   !.tried = tried]
<1>1. worker \in [Worker -> Locals] /\ worker[w] \in Locals
  BY DEF TypeOK
<1>2. <<Candidate(w), kind>> \in Model \X Failure
  <2>1. worker[w].at <= Len(Route)
    BY DEF Underway, Placed, CallFails
  <2>2. QED
    BY <1>1, <2>1, LocalsOf
<1>3. tried \in Seq(Model \X Failure)
  <2>1. old \in Seq(Model \X Failure)
    BY <1>1 DEF Locals
  <2>2. Len(old) > Attempts => old # <<>>
    BY <2>1, RouteAssumption
  <2> HIDE DEF old
  <2>3. (IF Len(old) > Attempts THEN Tail(old) ELSE old) \in Seq(Model \X Failure)
    BY <2>1, <2>2
  <2>4. QED
    BY <1>2, <2>3
<1>4. /\ me \in Locals /\ me.pc = "failed"
      /\ me.at = worker[w].at /\ me.own = worker[w].own
  <2>1. wait \in {0} \cup RetryAfters
    OBVIOUS
  <2> HIDE DEF tried
  <2>2. QED
    BY <1>1, <1>3, <2>1, Zenon DEF Locals
<1>5. Set(w, me)
  BY Zenon DEF CallFails
<1> HIDE DEF me
<1>6. QED
  BY <1>1, <1>4, <1>5, SamePlaceKeeps DEF CallFails

LEMMA RememberKeeps ==
  ASSUME TypeOK, Underway, NEW w \in Worker, Remember(w)
  PROVE  worker' \in [Worker -> Locals] /\ Underway'
<1> DEFINE me == [worker[w] EXCEPT !.pc = "sleeping"]
<1>1. worker \in [Worker -> Locals] /\ worker[w] \in Locals
  BY DEF TypeOK
<1>2. /\ me \in Locals /\ me.pc = "sleeping" /\ me.at = worker[w].at
      /\ me.own = worker[w].own /\ me.attempt = worker[w].attempt
  BY <1>1, Zenon DEF Locals
<1>3. \/ Set(w, NextCandidate(w))
      \/ worker[w].attempt < Attempts /\ Set(w, me)
  BY Zenon DEF Remember
<1>4. worker[w].pc = "failed" /\ worker[w].at <= Len(Route)
  BY DEF Remember, Underway, Placed
<1>5. CASE Set(w, NextCandidate(w))
  BY <1>1, <1>4, <1>5, NextCandidateKeeps
<1>6. CASE worker[w].attempt < Attempts /\ Set(w, me)
  <2> HIDE DEF me
  <2>1. QED
    BY <1>1, <1>2, <1>4, <1>6, SamePlaceKeeps
<1>7. QED
  BY <1>3, <1>5, <1>6

LEMMA WakeKeeps ==
  ASSUME TypeOK, Underway, NEW w \in Worker, Wake(w)
  PROVE  worker' \in [Worker -> Locals] /\ Underway'
<1> DEFINE me == [Attempted(worker[w]) EXCEPT !.pc = "unsealing"]
<1>1. worker \in [Worker -> Locals] /\ worker[w] \in Locals
  BY DEF TypeOK
<1>2. worker[w].attempt + 1 \in 0..Attempts
  BY <1>1, LocalsOf, RouteAssumption DEF Wake, Underway, Placed
<1>3. /\ Attempted(worker[w]) \in Locals
      /\ Attempted(worker[w]).at = worker[w].at
      /\ Attempted(worker[w]).own = worker[w].own
  BY <1>1, <1>2, Zenon DEF Locals, Attempted
<1>4. /\ me \in Locals /\ me.pc = "unsealing"
      /\ me.at = worker[w].at /\ me.own = worker[w].own
  BY <1>3, Zenon DEF Locals
<1>5. Set(w, me)
  BY Zenon DEF Wake
<1> HIDE DEF me
<1>6. QED
  BY <1>1, <1>4, <1>5, SamePlaceKeeps DEF Wake

(* Every step of the gateway keeps them. *)
LEMMA WorkerKeeps ==
  ASSUME TypeOK, Underway, [Next]_vars
  PROVE  worker' \in [Worker -> Locals] /\ Underway'
<1>1. worker \in [Worker -> Locals]
  BY DEF TypeOK
<1>2. CASE UNCHANGED worker
  BY <1>1, <1>2 DEF Underway
<1>3. ASSUME NEW w \in Worker, NEW t \in Tenant, Ask(w, t)
      PROVE  worker' \in [Worker -> Locals] /\ Underway'
  <2>1. worker' = [worker EXCEPT ![w] = Fresh(t)]
    BY <1>3 DEF Ask
  <2>2. \A v \in Worker : worker'[v] = IF v = w THEN Fresh(t) ELSE worker[v]
    BY <1>1, <2>1
  <2>3. Fresh(t) \in Locals /\ Placed(Fresh(t))
    BY FreshIsPlaced
  <2>4. worker' \in [Worker -> Locals]
    BY <1>1, <2>1, <2>3
  <2>5. QED
    BY <2>2, <2>3, <2>4, Zenon DEF Underway
<1>4. ASSUME NEW w \in Worker, Serve(w)
      PROVE  worker' \in [Worker -> Locals] /\ Underway'
  <2>1. CASE Answered(w) \/ Refused(w)
    BY <1>1, <2>1, ReturnKeeps DEF Answered, Refused
  <2>2. QED
    BY <1>4, <2>1, ReadKeysKeeps, ChooseKeeps, UnsealKeeps, CallFailsKeeps,
       RememberKeeps, WakeKeeps DEF Serve
<1>5. \/ UNCHANGED worker
      \/ \E w \in Worker, t \in Tenant : Ask(w, t)
      \/ \E w \in Worker : Serve(w)
  BY DEF Next, Tick, ChangeKey, vars
<1>6. QED
  BY <1>2, <1>3, <1>4, <1>5

-----------------------------------------------------------------------------
(* Each step keeps the memory sane, and says what it blocks *)

(* Asking about a candidate leaves sane memories and blocks nothing. *)
LEMMA AfterAskingIsSane ==
  ASSUME NEW m \in [Scope -> Memory], \A x \in Scope : Sane(m[x]), NEW w \in Worker
  PROVE  /\ AfterAsking(m, w) \in [Scope -> Memory]
         /\ \A x \in Scope : Sane(AfterAsking(m, w)[x])
         /\ \A x \in Scope : Blocked(AfterAsking(m, w)[x]) = Blocked(m[x])
<1>1. \A x \in Scope : AfterAsking(m, w)[x] \in {m[x], Asked(m[x])}
  BY DEF AfterAsking
<1>2. AfterAsking(m, w) = [x \in Scope |-> AfterAsking(m, w)[x]]
  BY DEF AfterAsking
<1>3. ASSUME NEW x \in Scope
      PROVE  /\ AfterAsking(m, w)[x] \in Memory /\ Sane(AfterAsking(m, w)[x])
             /\ Blocked(AfterAsking(m, w)[x]) = Blocked(m[x])
  BY <1>1, AskedIsSane
<1>4. QED
  BY <1>2, <1>3

(* Remembering a fault changes the memory of its scope alone. *)
LEMMA FaultIsSane ==
  ASSUME memory \in [Scope -> Memory], CooldownBounded, NEW scope, NEW kind,
         NEW wait \in {0} \cup RetryAfters, NEW now,
         now = [memory EXCEPT ![scope] = Faulted(@, kind, wait)]
  PROVE  /\ now \in [Scope -> Memory]
         /\ \A x \in Scope : Sane(now[x])
         /\ \A x \in Scope : x # scope => now[x] = memory[x]
<1>1. \A x \in Scope : now[x] = IF x = scope THEN Faulted(memory[x], kind, wait)
                                ELSE memory[x]
  OBVIOUS
<1>2. now = [x \in Scope |-> now[x]]
  OBVIOUS
<1>3. ASSUME NEW x \in Scope
      PROVE  now[x] \in Memory /\ Sane(now[x]) /\ (x # scope => now[x] = memory[x])
  BY <1>1, FaultedIsSane DEF CooldownBounded
<1>4. QED
  BY <1>2, <1>3

(* Every step leaves sane memories; only Remember makes a scope blocked, and *)
(* only the scope that it charges.                                           *)
ChargedScope(w) ==
    IF worker[w].kind = "credential" THEN CredentialScope(worker[w].tenant, Candidate(w))
    ELSE ProviderOf[Candidate(w)]

LEMMA MemoryKeeps ==
  ASSUME TypeOK, CooldownBounded, Underway, [Next]_vars
  PROVE  /\ memory' \in [Scope -> Memory] /\ CooldownBounded'
         /\ \A x \in Scope : ~ Blocked(memory[x]) /\ Blocked(memory'[x]) =>
               \E w \in Worker : Remember(w) /\ x = ChargedScope(w)
<1> DEFINE Kept == /\ memory' \in [Scope -> Memory] /\ CooldownBounded'
                   /\ \A x \in Scope : Blocked(memory'[x]) => Blocked(memory[x])
<1>1. memory \in [Scope -> Memory] /\ worker \in [Worker -> Locals]
  BY DEF TypeOK
<1>2. CASE UNCHANGED memory
  BY <1>1, <1>2 DEF CooldownBounded
<1>3. ASSUME NEW w \in Worker, memory' = AfterAsking(memory, w) PROVE Kept
  BY <1>1, <1>3, AfterAskingIsSane DEF CooldownBounded
<1>4. ASSUME NEW w \in Worker, Answered(w) PROVE Kept
  <2>1. \A x \in Scope : memory'[x] = IF x \in Scopes(w) THEN Unknown ELSE memory[x]
    BY <1>4 DEF Answered
  <2>2. memory' = [x \in Scope |-> memory'[x]]
    BY <1>4 DEF Answered
  <2>3. ~ Blocked(Unknown)
    BY DEF Blocked, Unknown
  <2>4. ASSUME NEW x \in Scope
        PROVE  /\ memory'[x] \in Memory /\ Sane(memory'[x])
               /\ (Blocked(memory'[x]) => Blocked(memory[x]))
    BY <1>1, <2>1, <2>3, UnknownIsSane DEF CooldownBounded
  <2>5. QED
    BY <2>2, <2>4 DEF CooldownBounded
<1>5. ASSUME Tick PROVE Kept
  <2>1. \A x \in Scope : memory'[x] = Aged(memory[x])
    BY <1>5 DEF Tick
  <2>2. memory' = [x \in Scope |-> memory'[x]]
    BY <1>5 DEF Tick
  <2>3. ASSUME NEW x \in Scope
        PROVE  /\ memory'[x] \in Memory /\ Sane(memory'[x])
               /\ (Blocked(memory'[x]) => Blocked(memory[x]))
    BY <1>1, <2>1, AgedIsSane DEF CooldownBounded
  <2>4. QED
    BY <2>2, <2>3 DEF CooldownBounded
<1>6. ASSUME NEW w \in Worker, Remember(w)
      PROVE  /\ memory' \in [Scope -> Memory] /\ CooldownBounded'
             /\ \A x \in Scope : x # ChargedScope(w) /\ Blocked(memory'[x]) => Blocked(memory[x])
  <2> DEFINE now == [memory EXCEPT ![ChargedScope(w)] =
                       Faulted(@, worker[w].kind, worker[w].wait)]
  <2>1. worker[w].wait \in {0} \cup RetryAfters
    BY <1>1, LocalsOf
  <2>2. /\ now \in [Scope -> Memory] /\ \A x \in Scope : Sane(now[x])
        /\ \A x \in Scope : x # ChargedScope(w) => now[x] = memory[x]
    <3> HIDE DEF ChargedScope
    <3>1. QED
      BY <1>1, <2>1, FaultIsSane
  <2>3. memory' = now \/ memory' = AfterAsking(now, w)
    BY <1>6, Zenon DEF Remember, ChargedScope
  <2> HIDE DEF now
  <2>4. CASE memory' = now
    BY <2>2, <2>4 DEF CooldownBounded
  <2>5. CASE memory' = AfterAsking(now, w)
    BY <2>2, <2>5, AfterAskingIsSane DEF CooldownBounded
  <2>6. QED
    BY <2>3, <2>4, <2>5
<1>7. \/ UNCHANGED memory
      \/ \E w \in Worker : memory' = AfterAsking(memory, w)
      \/ \E w \in Worker : Answered(w)
      \/ Tick
      \/ \E w \in Worker : Remember(w)
  BY Zenon DEF Next, Serve, Ask, ReadKeys, Choose, Unseal, CallFails, Refused, Wake,
     ChangeKey, vars
<1>8. QED
  BY <1>2, <1>3, <1>4, <1>5, <1>6, <1>7

-----------------------------------------------------------------------------
(* The history of the tenant's keys, and what a request read of them: all    *)
(* that it held throughout, and nothing it never held.                      *)

Bounds(me, h, mine) ==
    /\ me.pc # "idle" => h.throughout \subseteq mine /\ mine \subseteq h.ever
    /\ me.pc \notin {"idle", "reading"} =>
         h.throughout \subseteq me.own /\ me.own \subseteq h.ever

HeldInv == \A w \in Worker : Bounds(worker[w], held[w], Completions(worker[w].tenant))

(* A step leaves a request not serving, or with what it had read, or with   *)
(* what it has just read.                                                   *)
Carries(me, next) ==
    \/ next.pc = "idle"
    \/ /\ me.pc \notin {"idle", "reading"}
       /\ next.tenant = me.tenant /\ next.own = me.own
    \/ /\ me.pc = "reading"
       /\ next.tenant = me.tenant /\ next.own = Completions(me.tenant)

LEMMA ServeCarries ==
  ASSUME TypeOK, NEW w \in Worker, Serve(w)
  PROVE  \E next : Carries(worker[w], next) /\ Set(w, next)
<1> DEFINE me == worker[w]
           Serving(next) == next.tenant = me.tenant /\ next.own = me.own
<1>1. me \in Locals
  BY DEF TypeOK
<1>2. ASSUME Set(w, Return(w)) PROVE \E next : Carries(me, next) /\ Set(w, next)
  <2>1. Return(w).pc = "idle"
    <3>1. Fresh(me.tenant) \in Locals
      BY <1>1, FreshIsPlaced DEF Locals
    <3>2. QED
      BY <3>1, Zenon DEF Return, Locals
  <2>2. Carries(me, Return(w))
    BY <2>1 DEF Carries
  <2>3. QED
    BY <1>2, <2>2
<1>3. ASSUME NEW next, Serving(next), me.pc \notin {"idle", "reading"}, Set(w, next)
      PROVE  \E n : Carries(me, n) /\ Set(w, n)
  BY <1>3, Zenon DEF Carries
<1>4. ASSUME ReadKeys(w) PROVE \E next : Carries(me, next) /\ Set(w, next)
  <2> DEFINE own == Completions(me.tenant)
             next == [me EXCEPT !.pc = "choosing", !.own = own]
  <2>1. next.tenant = me.tenant /\ next.own = own
    <3> HIDE DEF own
    <3>1. QED
      BY <1>1, Zenon DEF Locals
  <2>2. Set(w, next) \/ Set(w, Return(w))
    BY <1>4, Zenon DEF ReadKeys
  <2>3. me.pc = "reading"
    BY <1>4 DEF ReadKeys
  <2>4. Carries(me, next)
    BY <2>1, <2>3, Zenon DEF Carries
  <2>5. QED
    BY <1>2, <2>2, <2>4, Zenon
<1>5. Serving(NextCandidate(w))
  BY <1>1, Zenon DEF NextCandidate, Locals
<1>6. ASSUME Choose(w) PROVE \E next : Carries(me, next) /\ Set(w, next)
  <2> DEFINE next == [me EXCEPT !.pc = "unsealing", !.attempt = 1]
  <2>1. Serving(next)
    BY <1>1, Zenon DEF Locals
  <2>2. me.pc = "choosing"
    BY <1>6 DEF Choose
  <2>3. Set(w, Return(w)) \/ Set(w, NextCandidate(w)) \/ Set(w, next)
    BY <1>6, Zenon DEF Choose
  <2> HIDE DEF next, Serving, me
  <2>4. me.pc \notin {"idle", "reading"}
    BY <2>2
  <2>5. QED
    BY <1>2, <1>3, <1>5, <2>1, <2>3, <2>4
<1>7. ASSUME Unseal(w) PROVE \E next : Carries(me, next) /\ Set(w, next)
  <2> DEFINE mine == me.own # {} /\ ProviderOf[Candidate(w)] \in keys[me.tenant]
             next == [me EXCEPT !.pc = "calling",
                                !.key = IF mine THEN "tenant" ELSE "platform"]
  <2>1. Serving(next)
    BY <1>1, Zenon DEF Locals
  <2>2. me.pc = "unsealing"
    BY <1>7 DEF Unseal
  <2>3. Set(w, Return(w)) \/ Set(w, next)
    BY <1>7, Zenon DEF Unseal
  <2> HIDE DEF next, Serving, me
  <2>4. me.pc \notin {"idle", "reading"}
    BY <2>2
  <2>5. QED
    BY <1>2, <1>3, <2>1, <2>3, <2>4
<1>8. ASSUME NEW kind \in Failure, NEW wait \in RetryAfters, CallFails(w, kind, wait)
      PROVE  \E next : Carries(me, next) /\ Set(w, next)
  <2> DEFINE tried == Append(IF Len(me.tried) > Attempts THEN Tail(me.tried) ELSE me.tried,
                             <<Candidate(w), kind>>)
             next == [me EXCEPT !.pc = "failed", !.kind = kind, !.wait = wait,
                                !.tried = tried]
  <2>1. Serving(next)
    <3> HIDE DEF tried
    <3>1. QED
      BY <1>1, Zenon DEF Locals
  <2>2. me.pc = "calling"
    BY <1>8 DEF CallFails
  <2>3. Set(w, next)
    BY <1>8, Zenon DEF CallFails
  <2> HIDE DEF next, Serving, me
  <2>4. me.pc \notin {"idle", "reading"}
    BY <2>2
  <2>5. QED
    BY <1>3, <2>1, <2>3, <2>4
<1>9. ASSUME Remember(w) PROVE \E next : Carries(me, next) /\ Set(w, next)
  <2> DEFINE next == [me EXCEPT !.pc = "sleeping"]
  <2>1. Serving(next)
    BY <1>1, Zenon DEF Locals
  <2>2. me.pc = "failed"
    BY <1>9 DEF Remember
  <2>3. Set(w, NextCandidate(w)) \/ Set(w, next)
    BY <1>9, Zenon DEF Remember
  <2> HIDE DEF next, Serving, me
  <2>4. me.pc \notin {"idle", "reading"}
    BY <2>2
  <2>5. QED
    BY <1>3, <1>5, <2>1, <2>3, <2>4
<1>10. ASSUME Wake(w) PROVE \E next : Carries(me, next) /\ Set(w, next)
  <2> DEFINE next == [Attempted(me) EXCEPT !.pc = "unsealing"]
  <2>1. DOMAIN Attempted(me) = DOMAIN me /\ Serving(Attempted(me))
    BY <1>1, Zenon DEF Locals, Attempted
  <2>2. Serving(next)
    BY <1>1, <2>1, Zenon DEF Locals, Attempted
  <2>3. me.pc = "sleeping"
    BY <1>10 DEF Wake
  <2>4. Set(w, next)
    BY <1>10, Zenon DEF Wake
  <2> HIDE DEF next, Serving, me
  <2>5. me.pc \notin {"idle", "reading"}
    BY <2>3
  <2>6. QED
    BY <1>3, <2>2, <2>4, <2>5
<1>11. ASSUME Answered(w) \/ Refused(w)
       PROVE  \E next : Carries(me, next) /\ Set(w, next)
  BY <1>2, <1>11 DEF Answered, Refused
<1>12. QED
  BY <1>4, <1>6, <1>7, <1>8, <1>9, <1>10, <1>11, Zenon DEF Serve

LEMMA HeldKeeps ==
  ASSUME TypeOK, [Next]_vars
  PROVE  held' \in [Worker -> HeldKeys] /\ (HeldInv => HeldInv')
<1>1. /\ worker \in [Worker -> Locals] /\ held \in [Worker -> HeldKeys]
      /\ keys \in [Tenant -> SUBSET Keyable] /\ Nothing \in HeldKeys
      /\ \A w \in Worker : worker[w].tenant \in Tenant
  BY LocalsOf DEF TypeOK, Nothing, HeldKeys
<1>2. \A t \in Tenant : Completions(t) \in SUBSET Provider
  BY <1>1, RouteAssumption DEF Completions
<1>3. CASE UNCHANGED <<keys, worker, held>>
  <2>1. \A t \in Tenant : Completions(t)' = Completions(t)
    BY <1>3 DEF Completions
  <2>2. QED
    BY <1>1, <1>3, <2>1 DEF HeldInv
<1>4. ASSUME NEW w \in Worker, NEW t \in Tenant, Ask(w, t)
      PROVE  held' \in [Worker -> HeldKeys] /\ (HeldInv => HeldInv')
  <2> DEFINE h == [throughout |-> Completions(t), ever |-> Completions(t)]
  <2>1. /\ worker' = [worker EXCEPT ![w] = Fresh(t)] /\ held' = [held EXCEPT ![w] = h]
        /\ keys' = keys
    BY <1>4 DEF Ask
  <2>2. h \in HeldKeys
    BY <1>2 DEF HeldKeys
  <2>3. \A u \in Tenant : Completions(u)' = Completions(u)
    BY <2>1 DEF Completions
  <2>4. Fresh(t).pc = "reading" /\ Fresh(t).tenant = t
    BY DEF Fresh
  <2>5. Bounds(Fresh(t), h, Completions(t))
    BY <2>4 DEF Bounds
  <2> HIDE DEF h
  <2>6. \A v \in Worker : /\ worker'[v] = IF v = w THEN Fresh(t) ELSE worker[v]
                          /\ held'[v] = IF v = w THEN h ELSE held[v]
    BY <1>1, <2>1
  <2>7. QED
    BY <1>1, <2>1, <2>2, <2>3, <2>4, <2>5, <2>6 DEF HeldInv
<1>5. ASSUME NEW w \in Worker, Serve(w)
      PROVE  held' \in [Worker -> HeldKeys] /\ (HeldInv => HeldInv')
  <2>1. PICK next : Carries(worker[w], next) /\ Set(w, next)
    BY <1>5, ServeCarries
  <2> DEFINE h == IF next.pc = "idle" THEN Nothing ELSE held[w]
  <2>2. worker' = [worker EXCEPT ![w] = next] /\ held' = [held EXCEPT ![w] = h]
    BY <2>1 DEF Set
  <2>3. keys' = keys
    BY <1>5 DEF Serve, ReadKeys, Choose, Unseal, Answered, CallFails, Remember, Refused, Wake
  <2>4. \A u \in Tenant : Completions(u)' = Completions(u)
    BY <2>3 DEF Completions
  <2>5. h \in HeldKeys
    BY <1>1
  <2>6. HeldInv => Bounds(next, h, Completions(next.tenant))
    BY <2>1 DEF HeldInv, Bounds, Carries
  <2> HIDE DEF h
  <2>7. \A v \in Worker : /\ worker'[v] = IF v = w THEN next ELSE worker[v]
                          /\ held'[v] = IF v = w THEN h ELSE held[v]
    BY <1>1, <2>2
  <2>8. next.pc # "idle" => next.tenant \in Tenant
    BY <1>1, <2>1 DEF Carries
  <2>9. ASSUME HeldInv, NEW v \in Worker
        PROVE  Bounds(worker'[v], held'[v], keys'[worker'[v].tenant] \ {Embedding})
    <3>0. \A u \in Tenant : keys'[u] \ {Embedding} = Completions(u)
      BY <2>3 DEF Completions
    <3>1. CASE v # w
      BY <1>1, <3>0, <2>7, <2>9, <3>1 DEF HeldInv
    <3>2. CASE v = w /\ next.pc = "idle"
      BY <2>7, <3>2 DEF Bounds
    <3>3. CASE v = w /\ next.pc # "idle"
      BY <3>0, <2>6, <2>7, <2>8, <2>9, <3>3
    <3>4. QED
      BY <3>1, <3>2, <3>3
  <2>10. QED
    BY <1>1, <2>2, <2>5, <2>9 DEF HeldInv, Completions
<1>6. ASSUME NEW t \in Tenant, NEW p \in Moving, ChangeKey(t, p)
      PROVE  held' \in [Worker -> HeldKeys] /\ (HeldInv => HeldInv')
  <2>1. UNCHANGED worker
    BY <1>6 DEF ChangeKey
  <2>2. \A v \in Worker : held'[v] =
          IF worker[v].pc = "idle" \/ worker[v].tenant # t \/ p = Embedding THEN held[v]
          ELSE [throughout |-> held[v].throughout \ {p}, ever |-> held[v].ever \cup {p}]
    BY <1>6 DEF ChangeKey
  <2>3. p = Embedding \/ p \in Provider
    BY RouteAssumption
  <2>4. \A v \in Worker : held'[v] \in HeldKeys
    <3>1. TAKE v \in Worker
    <3>2. /\ held[v].throughout \in SUBSET Provider /\ held[v].ever \in SUBSET Provider
          /\ held[v] \in HeldKeys
      BY <1>1 DEF HeldKeys
    <3>3. CASE p = Embedding
      BY <2>2, <3>2, <3>3
    <3>4. CASE p \in Provider
      <4>1. [throughout |-> held[v].throughout \ {p}, ever |-> held[v].ever \cup {p}] \in HeldKeys
        BY <3>2, <3>4 DEF HeldKeys
      <4>2. QED
        BY <2>2, <3>2, <4>1
    <3>5. QED
      BY <2>3, <3>3, <3>4
  <2>5. held' = [v \in Worker |-> held'[v]]
    BY <1>6 DEF ChangeKey
  <2> DEFINE after(u) == keys'[u] \ {Embedding}
  <2>6. \A u \in Tenant : /\ u # t \/ p = Embedding => after(u) = Completions(u)
                          /\ Completions(u) \ {p} \subseteq after(u)
                          /\ after(u) \subseteq Completions(u) \cup {p}
    <3> DEFINE new == IF p \in keys[t] THEN keys[t] \ {p} ELSE keys[t] \cup {p}
    <3>1. keys' = [keys EXCEPT ![t] = new] /\ new \ {p} = keys[t] \ {p}
      BY <1>1, <1>6 DEF ChangeKey
    <3> HIDE DEF new
    <3>2. \A u \in Tenant : keys'[u] = IF u = t THEN new ELSE keys[u]
      BY <1>1, <3>1
    <3>3. QED
      BY <3>1, <3>2 DEF Completions
  <2>7. ASSUME HeldInv, NEW v \in Worker
        PROVE  Bounds(worker[v], held'[v], after(worker[v].tenant))
    <3>1. Bounds(worker[v], held[v], Completions(worker[v].tenant)) /\ worker[v].tenant \in Tenant
      BY <1>1, <2>7 DEF HeldInv
    <3>2. CASE worker[v].pc = "idle" \/ worker[v].tenant # t \/ p = Embedding
      BY <2>2, <2>6, <3>1, <3>2 DEF Bounds
    <3>3. CASE ~ (worker[v].pc = "idle" \/ worker[v].tenant # t \/ p = Embedding)
      <4>1. held'[v] = [throughout |-> held[v].throughout \ {p}, ever |-> held[v].ever \cup {p}]
        BY <2>2, <3>3
      <4>2. /\ Completions(worker[v].tenant) \ {p} \subseteq after(worker[v].tenant)
            /\ after(worker[v].tenant) \subseteq Completions(worker[v].tenant) \cup {p}
        BY <2>6, <3>1
      <4>3. QED
        BY <3>1, <4>1, <4>2 DEF Bounds
    <3>4. QED
      BY <3>2, <3>3
  <2>8. QED
    BY <2>1, <2>4, <2>5, <2>7 DEF HeldInv, Completions
<1>7. \/ UNCHANGED <<keys, worker, held>>
      \/ \E w \in Worker, t \in Tenant : Ask(w, t)
      \/ \E w \in Worker : Serve(w)
      \/ \E t \in Tenant, p \in Moving : ChangeKey(t, p)
  BY DEF Next, Tick, vars
<1>8. QED
  BY <1>3, <1>4, <1>5, <1>6, <1>7

-----------------------------------------------------------------------------
(* Safety *)

LEMMA InitIInv == Init => IInv
<1>1. SUFFICES ASSUME Init PROVE IInv
  OBVIOUS
<1>2. memory \in [Scope -> Memory] /\ CooldownBounded
  BY <1>1, UnknownIsSane DEF Init, CooldownBounded
<1>3. worker \in [Worker -> Locals] /\ Underway
  <2>1. worker \in [Worker -> {[Fresh(t) EXCEPT !.pc = "idle"] : t \in Tenant}]
    BY <1>1 DEF Init
  <2>2. \A me \in {[Fresh(t) EXCEPT !.pc = "idle"] : t \in Tenant} :
           me \in Locals /\ Placed(me)
    BY FreshIsPlaced
  <2>3. QED
    BY <2>1, <2>2 DEF Underway
<1>4. held \in [Worker -> HeldKeys]
  BY <1>1 DEF Init, Nothing, HeldKeys
<1>5. QED
  BY <1>1, <1>2, <1>3, <1>4 DEF Init, IInv, TypeOK

LEMMA NextIInv == IInv /\ [Next]_vars => IInv'
<1>1. SUFFICES ASSUME IInv, [Next]_vars PROVE IInv'
  OBVIOUS
<1>2. memory' \in [Scope -> Memory] /\ CooldownBounded'
  BY <1>1, MemoryKeeps DEF IInv
<1>3. worker' \in [Worker -> Locals] /\ Underway'
  BY <1>1, WorkerKeeps DEF IInv
<1>4. keys' \in [Tenant -> SUBSET Keyable]
  <2>1. ASSUME NEW t \in Tenant, NEW p \in Moving, ChangeKey(t, p)
        PROVE  keys' \in [Tenant -> SUBSET Keyable]
    <3>0. p \in Keyable
      BY RouteAssumption
    <3>1. \A S \in SUBSET Keyable : (IF p \in S THEN S \ {p} ELSE S \cup {p}) \in SUBSET Keyable
      BY <3>0
    <3>2. QED
      BY <1>1, <2>1, <3>1 DEF ChangeKey, IInv, TypeOK
  <2>2. UNCHANGED keys \/ \E t \in Tenant, p \in Moving : ChangeKey(t, p)
    BY <1>1 DEF Next, Serve, Ask, ReadKeys, Choose, Unseal, Answered, CallFails,
       Remember, Refused, Wake, Tick, vars
  <2>3. QED
    BY <1>1, <2>1, <2>2 DEF IInv, TypeOK
<1>5. held' \in [Worker -> HeldKeys]
  BY <1>1, HeldKeeps DEF IInv
<1>6. QED
  BY <1>2, <1>3, <1>4, <1>5 DEF IInv, TypeOK

(* What every reachable state of the gateway satisfies. *)
THEOREM GatewayInvariant == Spec => []IInv
BY InitIInv, NextIInv, PTL DEF Spec

(* Memory, keys and the locals of the requests keep their types. *)
THEOREM TypeCorrect == Spec => []TypeOK
<1>1. IInv => TypeOK
  BY DEF IInv
<1>2. QED
  BY <1>1, GatewayInvariant, PTL

(* However many probes fail, whoever reports them and in whatever order, a  *)
(* cooldown stays within its ceiling or what the provider asked for.        *)
THEOREM CooldownsAreBounded == Spec => []CooldownBounded
<1>1. IInv => CooldownBounded
  BY DEF IInv
<1>2. QED
  BY <1>1, GatewayInvariant, PTL

(* A tenant's rate limit is nobody else's: only a request of that tenant,   *)
(* for that model, that a provider rate-limited, makes its scope skipped.   *)
THEOREM RateLimitsAreTheTenantsOwn == Spec => NeighboursUnaffected
<1> DEFINE Own(t, m) ==
      ~ Blocked(memory[<<t, m>>]) /\ Blocked(memory'[<<t, m>>]) =>
         \E w \in Worker : /\ worker[w].tenant = t
                           /\ worker[w].pc = "failed"
                           /\ worker[w].kind = "credential"
                           /\ Candidate(w) = m
<1>1. IInv /\ [Next]_vars => \A t \in Tenant, m \in Model : Own(t, m)
  <2>1. SUFFICES ASSUME IInv, [Next]_vars, NEW t \in Tenant, NEW m \in Model,
                        ~ Blocked(memory[<<t, m>>]), Blocked(memory'[<<t, m>>])
                 PROVE  \E w \in Worker : /\ worker[w].tenant = t
                                          /\ worker[w].pc = "failed"
                                          /\ worker[w].kind = "credential"
                                          /\ Candidate(w) = m
    OBVIOUS
  <2>2. <<t, m>> \in Scope
    BY DEF Scope
  <2>3. PICK w \in Worker : Remember(w) /\ <<t, m>> = ChargedScope(w)
    BY <2>1, <2>2, MemoryKeeps DEF IInv
  <2>4. worker[w].pc = "failed" /\ ProviderOf[Candidate(w)] \in Provider
    BY <2>1, <2>3, LocalsOf DEF Remember, IInv, TypeOK, Underway, Placed
  <2>5. <<t, m>> \notin Provider
    BY RouteAssumption
  <2>6. worker[w].kind = "credential"
    BY <2>3, <2>4, <2>5 DEF ChargedScope
  <2>7. <<t, m>> = <<worker[w].tenant, Candidate(w)>>
    BY <2>3, <2>6 DEF ChargedScope, CredentialScope
  <2>8. worker[w].tenant = t /\ Candidate(w) = m
    BY <2>7
  <2>9. QED
    BY <2>4, <2>6, <2>8
<1>2. QED
  BY <1>1, GatewayInvariant, PTL DEF Spec, NeighboursUnaffected

-----------------------------------------------------------------------------
(* Keys that come and go under a request *)

(* Bringing a key is opting out of the platform's, whatever is stored and    *)
(* forgotten while a request is served: a key that was there all along is   *)
(* used, nobody with keys is sent where they never had one, and a call on   *)
(* the platform's key for a tenant that holds keys is one whose own key was *)
(* forgotten meanwhile or whose first was not seen.                         *)
THEOREM OwnKeysAreUsed == Spec => OwnKeysOnly
<1> DEFINE Own(w) ==
      worker[w].pc = "unsealing" /\ worker'[w].pc = "calling" =>
         LET p == ProviderOf[Candidate(w)]
             mine == Completions(worker[w].tenant)
             billed == worker'[w].key
         IN  /\ held[w].ever # {} => \/ billed = "tenant" /\ p \in mine
                                     \/ billed = "platform" /\ (KeyForgotten(w) \/ FirstKeyUnseen(w))
             /\ p \in held[w].throughout => billed = "tenant"
             /\ held[w].throughout # {} => p \in held[w].ever
             /\ billed = "tenant" => p \in mine
<1>1. IInv /\ HeldInv /\ [Next]_vars => \A w \in Worker : Own(w)
  <2>1. SUFFICES ASSUME IInv, HeldInv, [Next]_vars, NEW w \in Worker,
                        worker[w].pc = "unsealing", worker'[w].pc = "calling"
                 PROVE  Own(w)
    OBVIOUS
  <2>2. worker \in [Worker -> Locals] /\ worker[w] \in Locals
    BY <2>1 DEF IInv, TypeOK
  <2> DEFINE p == ProviderOf[Candidate(w)]
             mine == Completions(worker[w].tenant)
  <2>3. /\ p \in Provider /\ p # Embedding
        /\ worker[w].own = {} \/ p \in worker[w].own
    <3>1. worker[w].at <= Len(Route) /\ Eligible(worker[w].own, Candidate(w))
      BY <2>1 DEF IInv, Underway, Placed, Candidate
    <3>2. QED
      BY <2>2, <3>1, LocalsOf, RouteAssumption DEF Eligible
  <2>4. p \in mine <=> p \in keys[worker[w].tenant]
    BY <2>3 DEF Completions
  <2>5. /\ held[w].throughout \subseteq mine /\ mine \subseteq held[w].ever
        /\ held[w].throughout \subseteq worker[w].own /\ worker[w].own \subseteq held[w].ever
    BY <2>1 DEF HeldInv, Bounds
  <2>6. ASSUME NEW v \in Worker, NEW next, Set(v, next), v # w
        PROVE  worker'[w] = worker[w]
    BY <2>2, <2>6 DEF Set
  <2>7. ASSUME NEW v \in Worker, Serve(v), v # w PROVE worker'[w] = worker[w]
    BY <2>1, <2>6, <2>7, ServeCarries DEF IInv
  <2>8. Serve(w)
    <3>1. worker'[w] # worker[w]
      BY <2>1
    <3>2. ~ \E v \in Worker, t \in Tenant : Ask(v, t)
      <4>1. SUFFICES ASSUME NEW v \in Worker, NEW t \in Tenant, Ask(v, t) PROVE FALSE
        OBVIOUS
      <4>2. v # w
        BY <2>1, <4>1 DEF Ask
      <4>3. QED
        BY <2>2, <3>1, <4>1, <4>2 DEF Ask
    <3>3. QED
      BY <2>1, <2>7, <3>1, <3>2 DEF Next, Tick, ChangeKey, vars
  <2>9. Unseal(w)
    BY <2>1, <2>8 DEF Serve, ReadKeys, Choose, Answered, CallFails, Remember, Refused, Wake
  <2> DEFINE unsealed == worker[w].own # {} /\ p \in keys[worker[w].tenant]
             whose == IF unsealed THEN "tenant" ELSE "platform"
             next == [worker[w] EXCEPT !.pc = "calling", !.key = whose]
  <2>10. next.key = whose
    <3> HIDE DEF whose
    <3>1. QED
      BY <2>2, Zenon DEF Locals
  <2>11. worker'[w] = next
    <3>1. Return(w).pc = "idle"
      <4>1. Fresh(worker[w].tenant) \in Locals
        BY <2>2, FreshIsPlaced DEF Locals
      <4>2. QED
        BY <4>1, Zenon DEF Return, Locals
    <3>2. Set(w, next) \/ Set(w, Return(w))
      BY <2>9, Zenon DEF Unseal
    <3> HIDE DEF next
    <3>3. worker'[w] = next \/ worker'[w] = Return(w)
      BY <2>2, <3>2 DEF Set
    <3>4. QED
      BY <2>1, <3>1, <3>3
  <2>12. worker'[w].key = IF worker[w].own # {} /\ p \in mine THEN "tenant" ELSE "platform"
    <3> HIDE DEF next
    <3>1. QED
      BY <2>4, <2>10, <2>11
  <2> HIDE DEF p, mine
  <2>13. QED
    BY <2>3, <2>5, <2>12 DEF KeyForgotten, FirstKeyUnseen, p, mine
<1>2. Spec => []HeldInv
  <2>1. Init => HeldInv
    <3>1. SUFFICES ASSUME Init, NEW w \in Worker PROVE worker[w].pc = "idle"
      BY DEF HeldInv, Bounds
    <3>2. PICK t \in Tenant : worker[w] = [Fresh(t) EXCEPT !.pc = "idle"]
      BY <3>1 DEF Init
    <3>3. Fresh(t) \in Locals
      BY FreshIsPlaced
    <3>4. QED
      BY <3>2, <3>3, Zenon DEF Locals
  <2>2. IInv /\ HeldInv /\ [Next]_vars => HeldInv'
    BY HeldKeeps DEF IInv
  <2>3. QED
    BY <2>1, <2>2, GatewayInvariant, PTL DEF Spec
<1>3. QED
  BY <1>1, <1>2, GatewayInvariant, PTL DEF Spec, OwnKeysOnly

-----------------------------------------------------------------------------
(* Fallback is orderly.  A route that names no model twice is assumed; the  *)
(* configuration does not check it.                                         *)
OnceEach == \A i, j \in DOMAIN Route : Route[i] = Route[j] => i = j

(* What the failed calls of a request are to each other ... *)
Orderly(tried) ==
    \A i, j \in 1..Len(tried) : i < j =>
      /\ Place(tried[i][1]) <= Place(tried[j][1])
      /\ tried[i][2] # "request"
      /\ tried[i][2] = "credential" => tried[i][1] # tried[j][1]
      /\ tried[i][1] = tried[j][1] => j - i < Attempts

(* ... to the candidates up to place k ... *)
UpTo(tried, k) ==
    \A i \in 1..Len(tried) : /\ Place(tried[i][1]) \in DOMAIN Route
                             /\ Route[Place(tried[i][1])] = tried[i][1]
                             /\ Place(tried[i][1]) <= k

(* ... and to model m, of which the last n calls were. *)
LastOf(tried, m, n) ==
    \A i \in 1..Len(tried) : tried[i][1] = m => Len(tried) - i < n

NoneOf(tried, m, kind) == \A i \in 1..Len(tried) : tried[i][1] = m => tried[i][2] # kind

Unrefused(tried) == \A i \in 1..Len(tried) : tried[i][2] # "request"

TriedFine(me) ==
    /\ Orderly(me.tried)
    /\ me.pc \in {"idle", "reading"} => Len(me.tried) = 0
    /\ me.pc = "choosing" => UpTo(me.tried, me.at - 1) /\ Unrefused(me.tried)
    /\ me.pc \in {"unsealing", "calling", "failed", "sleeping"} =>
         UpTo(me.tried, me.at) /\ me.attempt >= 1
    /\ me.pc \in {"unsealing", "calling", "sleeping"} =>
         /\ Unrefused(me.tried) /\ NoneOf(me.tried, Route[me.at], "credential")
         /\ LastOf(me.tried, Route[me.at],
                   IF me.pc = "sleeping" THEN me.attempt ELSE me.attempt - 1)
    /\ me.pc = "failed" =>
         /\ LastOf(me.tried, Route[me.at], me.attempt)
         /\ me.kind # "request" => Unrefused(me.tried)
         /\ me.kind # "credential" => NoneOf(me.tried, Route[me.at], "credential")

AllTriedFine == \A w \in Worker : TriedFine(worker[w])

LEMMA PlaceOf ==
  ASSUME OnceEach, NEW k \in 1..Len(Route)
  PROVE  k \in DOMAIN Route /\ Place(Route[k]) = k /\ k \in Nat
<1>1. k \in DOMAIN Route /\ k \in Nat
  BY RouteAssumption
<1>2. Place(Route[k]) \in DOMAIN Route /\ Route[Place(Route[k])] = Route[k]
  BY <1>1, Zenon DEF Place
<1> QED
  BY <1>1, <1>2 DEF OnceEach

(* The history keeps the last calls of what it was. *)
LEMMA Shortened ==
  ASSUME NEW old \in Seq(Model \X Failure), NEW new,
         new = IF Len(old) > Attempts THEN Tail(old) ELSE old
  PROVE  /\ new \in Seq(Model \X Failure)
         /\ Orderly(old) => Orderly(new)
         /\ Unrefused(old) => Unrefused(new)
         /\ \A k : UpTo(old, k) => UpTo(new, k)
         /\ \A m, n : LastOf(old, m, n) => LastOf(new, m, n)
         /\ \A m, kind : NoneOf(old, m, kind) => NoneOf(new, m, kind)
<1>1. CASE Len(old) > Attempts
  <2>1. old # <<>> /\ new = Tail(old)
    BY <1>1, RouteAssumption
  <2>2. /\ new \in Seq(Model \X Failure) /\ Len(new) = Len(old) - 1 /\ Len(old) \in Nat
        /\ \A i \in 1..Len(new) : new[i] = old[i + 1] /\ i + 1 \in 1..Len(old)
    BY <2>1
  <2>3. Orderly(old) => Orderly(new)
    <3> SUFFICES ASSUME Orderly(old), NEW i \in 1..Len(new), NEW j \in 1..Len(new), i < j
                 PROVE  /\ Place(new[i][1]) <= Place(new[j][1])
                        /\ new[i][2] # "request"
                        /\ new[i][2] = "credential" => new[i][1] # new[j][1]
                        /\ new[i][1] = new[j][1] => j - i < Attempts
      BY DEF Orderly
    <3>1. /\ i + 1 \in 1..Len(old) /\ j + 1 \in 1..Len(old) /\ i + 1 < j + 1
          /\ new[i] = old[i + 1] /\ new[j] = old[j + 1]
          /\ (j + 1) - (i + 1) = j - i
      BY <2>2
    <3>2. /\ Place(old[i + 1][1]) <= Place(old[j + 1][1])
          /\ old[i + 1][2] # "request"
          /\ old[i + 1][2] = "credential" => old[i + 1][1] # old[j + 1][1]
          /\ old[i + 1][1] = old[j + 1][1] => (j + 1) - (i + 1) < Attempts
      BY <3>1 DEF Orderly
    <3> QED
      BY <3>1, <3>2
  <2>4. /\ Unrefused(old) => Unrefused(new)
        /\ \A k : UpTo(old, k) => UpTo(new, k)
        /\ \A m, kind : NoneOf(old, m, kind) => NoneOf(new, m, kind)
    BY <2>2 DEF Unrefused, UpTo, NoneOf
  <2>5. \A m, n : LastOf(old, m, n) => LastOf(new, m, n)
    <3> SUFFICES ASSUME NEW m, NEW n, LastOf(old, m, n), NEW i \in 1..Len(new), new[i][1] = m
                 PROVE  Len(new) - i < n
      BY DEF LastOf
    <3>1. i + 1 \in 1..Len(old) /\ old[i + 1][1] = m /\ Len(old) - (i + 1) = Len(new) - i
      BY <2>2
    <3>2. Len(old) - (i + 1) < n
      BY <3>1 DEF LastOf
    <3> QED
      BY <3>1, <3>2
  <2> QED
    BY <2>2, <2>3, <2>4, <2>5
<1>2. CASE ~ Len(old) > Attempts
  BY <1>2
<1> QED
  BY <1>1, <1>2

(* One more failed call, on the candidate the request is at. *)
LEMMA OneMore ==
  ASSUME OnceEach, NEW s \in Seq(Model \X Failure), NEW k \in 1..Len(Route),
         NEW kind \in Failure, NEW a \in 1..Attempts,
         Orderly(s), UpTo(s, k), Unrefused(s), NoneOf(s, Route[k], "credential"),
         LastOf(s, Route[k], a - 1)
  PROVE  LET new == Append(s, <<Route[k], kind>>) IN
         /\ Orderly(new) /\ UpTo(new, k) /\ LastOf(new, Route[k], a)
         /\ kind # "request" => Unrefused(new)
         /\ kind # "credential" => NoneOf(new, Route[k], "credential")
<1> DEFINE e == <<Route[k], kind>>
           new == Append(s, e)
           L == Len(s)
<1>1. /\ Place(Route[k]) = k /\ k \in Nat /\ k \in DOMAIN Route /\ Route[k] \in Model
      /\ a \in Nat /\ Attempts \in Nat /\ L \in Nat
  BY PlaceOf, RouteAssumption
<1>2. /\ Len(new) = L + 1 /\ new[L + 1] = e /\ e[1] = Route[k] /\ e[2] = kind
      /\ \A i \in 1..L : new[i] = s[i]
      /\ \A i \in 1..Len(new) : i \in 1..L \/ i = L + 1
  BY <1>1
<1> HIDE DEF e, new, L
<1>3. Orderly(new)
  <2> SUFFICES ASSUME NEW i \in 1..Len(new), NEW j \in 1..Len(new), i < j
               PROVE  /\ Place(new[i][1]) <= Place(new[j][1])
                      /\ new[i][2] # "request"
                      /\ new[i][2] = "credential" => new[i][1] # new[j][1]
                      /\ new[i][1] = new[j][1] => j - i < Attempts
    BY DEF Orderly
  <2>1. i \in 1..L /\ new[i] = s[i]
    BY <1>1, <1>2
  <2>2. CASE j \in 1..L
    <3>1. new[j] = s[j]
      BY <1>2, <2>2
    <3> QED
      BY <2>1, <2>2, <3>1 DEF Orderly, L
  <2>3. CASE j = L + 1
    <3>1. new[j][1] = Route[k]
      BY <1>2, <2>3
    <3>2. /\ Place(s[i][1]) <= k /\ s[i][2] # "request"
          /\ s[i][1] = Route[k] => s[i][2] # "credential"
          /\ s[i][1] = Route[k] => L - i < a - 1
      BY <2>1 DEF UpTo, Unrefused, NoneOf, LastOf, L
    <3>3. s[i][1] = Route[k] => j - i < Attempts
      BY <1>1, <2>1, <2>3, <3>2
    <3> QED
      BY <1>1, <2>1, <3>1, <3>2, <3>3
  <2> QED
    BY <1>2, <2>2, <2>3
<1>4. UpTo(new, k)
  <2> SUFFICES ASSUME NEW i \in 1..Len(new)
               PROVE  /\ Place(new[i][1]) \in DOMAIN Route
                      /\ Route[Place(new[i][1])] = new[i][1]
                      /\ Place(new[i][1]) <= k
    BY DEF UpTo
  <2>1. CASE i \in 1..L
    BY <1>2, <2>1 DEF UpTo, L
  <2>2. CASE i = L + 1
    BY <1>1, <1>2, <2>2
  <2> QED
    BY <1>2, <2>1, <2>2
<1>5. LastOf(new, Route[k], a)
  <2> SUFFICES ASSUME NEW i \in 1..Len(new), new[i][1] = Route[k]
               PROVE  Len(new) - i < a
    BY DEF LastOf
  <2>1. CASE i \in 1..L
    <3>1. L - i < a - 1
      BY <1>2, <2>1 DEF LastOf, L
    <3> QED
      BY <1>1, <1>2, <2>1, <3>1
  <2>2. CASE i = L + 1
    BY <1>1, <1>2, <2>2
  <2> QED
    BY <1>2, <2>1, <2>2
<1>6. kind # "request" => Unrefused(new)
  BY <1>2 DEF Unrefused, L
<1>7. kind # "credential" => NoneOf(new, Route[k], "credential")
  BY <1>2 DEF NoneOf, L
<1> QED
  BY <1>3, <1>4, <1>5, <1>6, <1>7 DEF new, e

(* Nothing was tried of a candidate that comes after all that was. *)
LEMMA NextIsUntried ==
  ASSUME OnceEach, NEW s, NEW k \in 1..Len(Route), UpTo(s, k - 1)
  PROVE  /\ UpTo(s, k) /\ NoneOf(s, Route[k], "credential") /\ LastOf(s, Route[k], 0)
<1>1. Place(Route[k]) = k /\ k \in Nat
  BY PlaceOf
<1>2. \A i \in 1..Len(s) : Place(s[i][1]) \in Nat /\ Place(s[i][1]) <= k - 1
  BY RouteAssumption DEF UpTo
<1>3. \A i \in 1..Len(s) : s[i][1] # Route[k]
  BY <1>1, <1>2
<1>4. UpTo(s, k)
  BY <1>1, <1>2 DEF UpTo
<1> QED
  BY <1>3, <1>4 DEF NoneOf, LastOf

-----------------------------------------------------------------------------
(* Each step of a request keeps its history so. *)
LEMMA SetIsFine ==
  ASSUME TypeOK, AllTriedFine, NEW w \in Worker, NEW me, TriedFine(me), Set(w, me)
  PROVE  AllTriedFine'
<1>1. \A v \in Worker : worker'[v] = IF v = w THEN me ELSE worker[v]
  BY DEF Set, TypeOK
<1> QED
  BY <1>1, Zenon DEF AllTriedFine

LEMMA FreshIsFine ==
  ASSUME NEW t \in Tenant
  PROVE  TriedFine(Fresh(t)) /\ TriedFine([Fresh(t) EXCEPT !.pc = "idle"])
<1>1. /\ Fresh(t).pc = "reading" /\ Fresh(t).tried = <<>>
      /\ [Fresh(t) EXCEPT !.pc = "idle"].pc = "idle"
      /\ [Fresh(t) EXCEPT !.pc = "idle"].tried = <<>>
  BY DEF Fresh
<1>2. Len(<<>>) = 0
  OBVIOUS
<1>3. Orderly(<<>>)
  BY <1>2 DEF Orderly
<1> QED
  BY <1>1, <1>2, <1>3 DEF TriedFine

LEMMA ReturnIsFine ==
  ASSUME TypeOK, AllTriedFine, NEW w \in Worker, Set(w, Return(w))
  PROVE  AllTriedFine'
<1>1. TriedFine(Return(w))
  BY LocalsOf, FreshIsFine DEF TypeOK, Return
<1> QED
  BY <1>1, SetIsFine

LEMMA ReadKeysIsFine ==
  ASSUME IInv, AllTriedFine, NEW w \in Worker, ReadKeys(w)
  PROVE  AllTriedFine'
<1> DEFINE me == [worker[w] EXCEPT !.pc = "choosing",
                                   !.own = Completions(worker[w].tenant)]
<1>1. TypeOK /\ worker[w] \in Locals
  BY DEF IInv, TypeOK
<1>2. me.pc = "choosing" /\ me.tried = worker[w].tried
  BY <1>1 DEF Locals
<1>3. Orderly(worker[w].tried) /\ Len(worker[w].tried) = 0
  BY DEF AllTriedFine, TriedFine, ReadKeys
<1>4. Set(w, me) \/ Set(w, Return(w))
  BY Zenon DEF ReadKeys
<1> HIDE DEF me
<1>5. TriedFine(me)
  BY <1>2, <1>3 DEF TriedFine, UpTo, Unrefused
<1> QED
  BY <1>1, <1>4, <1>5, SetIsFine, ReturnIsFine

(* Going on leaves behind what was tried. *)
LEMMA NextCandidateIsFine ==
  ASSUME IInv, AllTriedFine, NEW w \in Worker, Set(w, NextCandidate(w)),
         Unrefused(worker[w].tried),
         UpTo(worker[w].tried, worker[w].at - 1) \/ UpTo(worker[w].tried, worker[w].at)
  PROVE  AllTriedFine'
<1> DEFINE me == NextCandidate(w)
<1>1. TypeOK /\ worker[w] \in Locals /\ worker[w].at \in Nat
  BY LocalsOf, RouteFacts DEF IInv, TypeOK
<1>2. me.pc = "choosing" /\ me.tried = worker[w].tried /\ me.at = worker[w].at + 1
  BY <1>1 DEF NextCandidate, Locals
<1>3. Orderly(worker[w].tried)
  BY DEF AllTriedFine, TriedFine
<1> HIDE DEF me
<1>4. UpTo(me.tried, me.at - 1)
  <2>1. ASSUME NEW i \in 1..Len(worker[w].tried)
        PROVE  /\ Place(worker[w].tried[i][1]) \in DOMAIN Route
               /\ Route[Place(worker[w].tried[i][1])] = worker[w].tried[i][1]
               /\ Place(worker[w].tried[i][1]) <= worker[w].at
    <3> DEFINE p == Place(worker[w].tried[i][1])
    <3>1. /\ p \in DOMAIN Route /\ Route[p] = worker[w].tried[i][1]
          /\ p <= worker[w].at - 1 \/ p <= worker[w].at
      BY DEF UpTo
    <3>2. p \in Nat
      BY <3>1, RouteAssumption
    <3> QED
      BY <1>1, <3>1, <3>2
  <2>2. me.at - 1 = worker[w].at
    BY <1>1, <1>2
  <2> QED
    BY <1>2, <2>1, <2>2 DEF UpTo
<1>5. TriedFine(me)
  BY <1>2, <1>3, <1>4 DEF TriedFine
<1> QED
  BY <1>1, <1>5, SetIsFine DEF me

LEMMA ChooseIsFine ==
  ASSUME IInv, OnceEach, AllTriedFine, NEW w \in Worker, Choose(w)
  PROVE  AllTriedFine'
<1> DEFINE me == [worker[w] EXCEPT !.pc = "unsealing", !.attempt = 1]
<1>1. /\ TypeOK /\ worker[w] \in Locals
      /\ worker[w].at \in 1..(Len(Route) + 1) /\ Len(Route) \in Nat
  BY LocalsOf, RouteFacts DEF IInv, TypeOK
<1>2. /\ Orderly(worker[w].tried) /\ UpTo(worker[w].tried, worker[w].at - 1)
      /\ Unrefused(worker[w].tried)
  BY DEF AllTriedFine, TriedFine, Choose
<1>3. \/ Set(w, Return(w))
      \/ Set(w, NextCandidate(w))
      \/ ~ worker[w].at > Len(Route) /\ Set(w, me)
  BY Zenon DEF Choose
<1>4. /\ me.pc = "unsealing" /\ me.attempt = 1 /\ me.at = worker[w].at
      /\ me.tried = worker[w].tried
  BY <1>1, Zenon DEF Locals
<1> HIDE DEF me
<1>5. CASE ~ worker[w].at > Len(Route) /\ Set(w, me)
  <2>1. worker[w].at \in 1..Len(Route)
    BY <1>1, <1>5
  <2>2. /\ UpTo(me.tried, me.at) /\ NoneOf(me.tried, Route[me.at], "credential")
        /\ LastOf(me.tried, Route[me.at], 0)
    BY <1>2, <1>4, <2>1, NextIsUntried
  <2>3. TriedFine(me)
    BY <1>2, <1>4, <2>2 DEF TriedFine
  <2> QED
    BY <1>1, <1>5, <2>3, SetIsFine
<1> QED
  BY <1>1, <1>2, <1>3, <1>5, ReturnIsFine, NextCandidateIsFine

LEMMA UnsealIsFine ==
  ASSUME IInv, AllTriedFine, NEW w \in Worker, Unseal(w)
  PROVE  AllTriedFine'
<1> DEFINE mine == worker[w].own # {} /\ ProviderOf[Candidate(w)] \in keys[worker[w].tenant]
           whose == IF mine THEN "tenant" ELSE "platform"
           me == [worker[w] EXCEPT !.pc = "calling", !.key = whose]
<1>1. TypeOK /\ worker[w] \in Locals /\ worker[w].pc = "unsealing" /\ TriedFine(worker[w])
  BY DEF IInv, TypeOK, Unseal, AllTriedFine
<1>2. Set(w, me) \/ Set(w, Return(w))
  BY Zenon DEF Unseal
<1>3. /\ me.pc = "calling" /\ me.attempt = worker[w].attempt /\ me.at = worker[w].at
      /\ me.tried = worker[w].tried
  <2> HIDE DEF whose
  <2> QED
    BY <1>1, Zenon DEF Locals
<1> HIDE DEF me
<1>4. TriedFine(me)
  BY <1>1, <1>3 DEF TriedFine
<1> QED
  BY <1>1, <1>2, <1>4, SetIsFine, ReturnIsFine

LEMMA CallFailsIsFine ==
  ASSUME IInv, OnceEach, AllTriedFine, NEW w \in Worker, NEW kind \in Failure,
         NEW wait \in RetryAfters, CallFails(w, kind, wait)
  PROVE  AllTriedFine'
<1> DEFINE old == worker[w].tried
           kept == IF Len(old) > Attempts THEN Tail(old) ELSE old
           new == Append(kept, <<Candidate(w), kind>>)
           me == [worker[w] EXCEPT !.pc = "failed", !.kind = kind, !.wait = wait, !.tried = new]
           k == worker[w].at
           a == worker[w].attempt
<1>1. /\ TypeOK /\ worker[w] \in Locals /\ worker[w].pc = "calling"
      /\ k \in 1..(Len(Route) + 1) /\ Len(Route) \in Nat /\ k <= Len(Route)
      /\ a \in 0..Attempts /\ Attempts \in Nat
  BY LocalsOf, RouteFacts, RouteAssumption DEF IInv, TypeOK, CallFails, Underway, Placed
<1>2. old \in Seq(Model \X Failure)
  BY <1>1 DEF Locals
<1>3. /\ Orderly(old) /\ UpTo(old, k) /\ Unrefused(old) /\ a >= 1
      /\ NoneOf(old, Route[k], "credential") /\ LastOf(old, Route[k], a - 1)
  BY <1>1 DEF AllTriedFine, TriedFine
<1>4. Set(w, me)
  BY Zenon DEF CallFails
<1>5. /\ me.pc = "failed" /\ me.kind = kind /\ me.tried = new /\ me.at = k /\ me.attempt = a
  <2> HIDE DEF new
  <2> QED
    BY <1>1, Zenon DEF Locals
<1>6. k \in 1..Len(Route) /\ a \in 1..Attempts
  BY <1>1, <1>3
<1>7. Candidate(w) = Route[k]
  BY DEF Candidate
<1> HIDE DEF me, old, k, a
<1>8. /\ kept \in Seq(Model \X Failure) /\ Orderly(kept) /\ UpTo(kept, k) /\ Unrefused(kept)
      /\ NoneOf(kept, Route[k], "credential") /\ LastOf(kept, Route[k], a - 1)
  <2>1. kept = IF Len(old) > Attempts THEN Tail(old) ELSE old
    OBVIOUS
  <2> HIDE DEF kept
  <2> QED
    BY <1>2, <1>3, <2>1, Shortened
<1> HIDE DEF kept
<1>9. /\ Orderly(new) /\ UpTo(new, k) /\ LastOf(new, Route[k], a)
      /\ kind # "request" => Unrefused(new)
      /\ kind # "credential" => NoneOf(new, Route[k], "credential")
  BY <1>6, <1>7, <1>8, OneMore
<1> HIDE DEF new
<1>10. TriedFine(me)
  BY <1>5, <1>6, <1>9 DEF TriedFine
<1> QED
  BY <1>1, <1>4, <1>10, SetIsFine

LEMMA RememberIsFine ==
  ASSUME IInv, AllTriedFine, NEW w \in Worker, Remember(w)
  PROVE  AllTriedFine'
<1> DEFINE me == [worker[w] EXCEPT !.pc = "sleeping"]
<1>1. /\ TypeOK /\ worker[w] \in Locals /\ TriedFine(worker[w])
      /\ worker[w].pc = "failed" /\ worker[w].kind # "request"
  BY DEF IInv, TypeOK, Remember, AllTriedFine
<1>2. \/ Set(w, NextCandidate(w))
      \/ worker[w].kind # "credential" /\ Set(w, me)
  BY Zenon DEF Remember, MovesOn
<1>3. /\ me.pc = "sleeping" /\ me.attempt = worker[w].attempt /\ me.at = worker[w].at
      /\ me.tried = worker[w].tried
  BY <1>1, Zenon DEF Locals
<1> HIDE DEF me
<1>4. Unrefused(worker[w].tried) /\ UpTo(worker[w].tried, worker[w].at)
  BY <1>1 DEF TriedFine
<1>5. worker[w].kind # "credential" => TriedFine(me)
  BY <1>1, <1>3 DEF TriedFine
<1> QED
  BY <1>1, <1>2, <1>4, <1>5, SetIsFine, NextCandidateIsFine

LEMMA WakeIsFine ==
  ASSUME IInv, AllTriedFine, NEW w \in Worker, Wake(w)
  PROVE  AllTriedFine'
<1> DEFINE me == [Attempted(worker[w]) EXCEPT !.pc = "unsealing"]
<1>1. /\ TypeOK /\ worker[w] \in Locals /\ TriedFine(worker[w]) /\ worker[w].pc = "sleeping"
      /\ worker[w].attempt \in 0..Attempts /\ Attempts \in Nat
  BY RouteAssumption, LocalsOf DEF IInv, TypeOK, Wake, AllTriedFine
<1>2. Set(w, me)
  BY Zenon DEF Wake
<1>3. /\ me.pc = "unsealing" /\ me.attempt = worker[w].attempt + 1 /\ me.at = worker[w].at
      /\ me.tried = worker[w].tried
  BY <1>1, Zenon DEF Locals, Attempted
<1> HIDE DEF me
<1>4. me.attempt >= 1 /\ me.attempt - 1 = worker[w].attempt
  BY <1>1, <1>3
<1>5. TriedFine(me)
  BY <1>1, <1>3, <1>4 DEF TriedFine
<1> QED
  BY <1>1, <1>2, <1>5, SetIsFine

LEMMA NextIsFine == IInv /\ OnceEach /\ AllTriedFine /\ [Next]_vars => AllTriedFine'
<1> SUFFICES ASSUME IInv, OnceEach, AllTriedFine, [Next]_vars PROVE AllTriedFine'
  OBVIOUS
<1>1. CASE UNCHANGED worker
  BY <1>1 DEF AllTriedFine
<1>2. ASSUME NEW w \in Worker, NEW t \in Tenant, Ask(w, t) PROVE AllTriedFine'
  <2>1. worker' = [worker EXCEPT ![w] = Fresh(t)] /\ worker \in [Worker -> Locals]
    BY <1>2 DEF Ask, IInv, TypeOK
  <2>2. \A v \in Worker : worker'[v] = IF v = w THEN Fresh(t) ELSE worker[v]
    BY <2>1
  <2>3. QED
    BY <2>2, FreshIsFine DEF AllTriedFine
<1>3. ASSUME NEW w \in Worker, Serve(w) PROVE AllTriedFine'
  <2>1. CASE Answered(w) \/ Refused(w)
    BY <2>1, ReturnIsFine DEF Answered, Refused, IInv
  <2> QED
    BY <1>3, <2>1, ReadKeysIsFine, ChooseIsFine, UnsealIsFine, CallFailsIsFine,
       RememberIsFine, WakeIsFine, Zenon DEF Serve
<1>4. \/ UNCHANGED worker
      \/ \E w \in Worker, t \in Tenant : Ask(w, t)
      \/ \E w \in Worker : Serve(w)
  BY DEF Next, Tick, ChangeKey, vars
<1> QED
  BY <1>1, <1>2, <1>3, <1>4

(* Fallback is orderly, on a route that names no model twice: models are    *)
(* tried in its order, each at most so often, never again after a rate      *)
(* limit, and nothing at all after a refusal (complete).                    *)
THEOREM FallsBackInOrder ==
  ASSUME OnceEach
  PROVE  Spec => []FallbackIsOrderly
<1>1. Init => AllTriedFine
  <2> SUFFICES ASSUME Init, NEW w \in Worker PROVE TriedFine(worker[w])
    BY DEF AllTriedFine
  <2>1. \E t \in Tenant : worker[w] = [Fresh(t) EXCEPT !.pc = "idle"]
    BY DEF Init
  <2> QED
    BY <2>1, FreshIsFine
<1>2. OnceEach
  OBVIOUS
<1>3. IInv /\ AllTriedFine /\ [Next]_vars => AllTriedFine'
  BY <1>2, NextIsFine
<1>4. IInv /\ AllTriedFine => FallbackIsOrderly
  <2> SUFFICES ASSUME IInv, AllTriedFine, NEW w \in Worker,
                      NEW i \in DOMAIN worker[w].tried, NEW j \in DOMAIN worker[w].tried, i < j
               PROVE  LET tried == worker[w].tried IN
                      /\ Place(tried[i][1]) <= Place(tried[j][1])
                      /\ tried[i][2] # "request"
                      /\ tried[i][2] = "credential" => tried[i][1] # tried[j][1]
                      /\ tried[i][1] = tried[j][1] => j - i < Attempts
    BY DEF FallbackIsOrderly
  <2>1. worker[w].tried \in Seq(Model \X Failure)
    BY DEF IInv, TypeOK, Locals
  <2>2. Orderly(worker[w].tried)
    BY DEF AllTriedFine, TriedFine
  <2> DEFINE tried == worker[w].tried
  <2>3. i \in 1..Len(tried) /\ j \in 1..Len(tried)
    BY <2>1
  <2> HIDE DEF tried
  <2>4. /\ Place(tried[i][1]) <= Place(tried[j][1])
        /\ tried[i][2] # "request"
        /\ tried[i][2] = "credential" => tried[i][1] # tried[j][1]
        /\ tried[i][1] = tried[j][1] => j - i < Attempts
    <3>1. Orderly(tried)
      BY <2>2 DEF tried
    <3>2. QED
      BY <2>3, <3>1, i < j DEF Orderly
  <2> QED
    BY <2>4 DEF tried
<1> QED
  BY <1>1, <1>3, <1>4, GatewayInvariant, PTL DEF Spec

-----------------------------------------------------------------------------
(***************************************************************************)
(* The memory. First numbers: functions defined step by step, and running  *)
(* totals.                                                                 *)
(***************************************************************************)

(* The least of a set of numbers. *)
LEMMA LeastNumber ==
  ASSUME NEW T \in SUBSET Nat, T # {}
  PROVE  \E x \in T : \A y \in T : x <= y
<1>1. PICK x \in T : \A y \in T : <<y, x>> \notin OpToRel(<, Nat)
  BY WFMin, NatLessThanWellFounded, Zenon
<1>2. \A y \in T : ~ (y < x)
  BY <1>1, Zenon DEF OpToRel
<1> QED
  BY <1>2

(* Induction up to a number, over the set of those something holds of.      *)
LEMMA Climbs ==
  ASSUME NEW m \in Nat, NEW T, 0 \in T, \A n \in 1..m : n - 1 \in T => n \in T
  PROVE  \A n \in 0..m : n \in T
<1> DEFINE Bad == {n \in 0..m : n \notin T}
<1>1. CASE Bad = {}
  BY <1>1
<1>2. CASE Bad # {}
  <2>0. Bad \in SUBSET Nat
    OBVIOUS
  <2>1. PICK x \in Bad : \A y \in Bad : x <= y
    <3> HIDE DEF Bad
    <3>1. QED
      BY <1>2, <2>0, LeastNumber, Zenon
  <2>2. x \in 1..m /\ x - 1 \in 0..m
    BY <2>1
  <2>3. x - 1 \in T
    BY <2>1, <2>2
  <2>4. QED
    BY <2>1, <2>2, <2>3
<1>3. QED
  BY <1>1, <1>2

(* A function that is defined step by step, and that there is one. *)
Builds(g, m, X, base, step) ==
    /\ g \in [0..m -> X] /\ g[0] = base
    /\ \A n \in 1..m : g[n] = step[g[n - 1]][n]

(* There is one such function, whatever its steps are. *)
LEMMA StepByStep ==
  ASSUME NEW m \in Nat, NEW X, NEW base \in X, NEW step,
         \A a \in X : \A n \in 1..m : step[a][n] \in X
  PROVE  \E g : Builds(g, m, X, base, step)
<1> DEFINE T == {k \in 0..m : \E g \in [0..k -> X] :
                   g[0] = base /\ \A n \in 1..k : g[n] = step[g[n - 1]][n]}
<1>1. 0 \in T
  <2> DEFINE g == [n \in 0..0 |-> base]
  <2>1. g \in [0..0 -> X] /\ g[0] = base /\ \A n \in 1..0 : g[n] = step[g[n - 1]][n]
    OBVIOUS
  <2>2. 0 \in 0..m
    OBVIOUS
  <2> HIDE DEF g
  <2>3. QED
    BY <2>1, <2>2, Zenon
<1>2. ASSUME NEW k \in 1..m, k - 1 \in T
      PROVE  k \in T
  <2>1. PICK g \in [0..(k - 1) -> X] :
          g[0] = base /\ \A n \in 1..(k - 1) : g[n] = step[g[n - 1]][n]
    BY <1>2
  <2> DEFINE h == [n \in 0..k |-> IF n = k THEN step[g[k - 1]][k] ELSE g[n]]
  <2>2. k - 1 \in 0..(k - 1) /\ 0 \in 0..(k - 1)
    OBVIOUS
  <2>3. step[g[k - 1]][k] \in X
    BY <2>1, <2>2
  <2>4. h \in [0..k -> X]
    BY <2>3
  <2>5. h[0] = base
    BY <2>1, <2>2
  <2>6. ASSUME NEW n \in 1..k
        PROVE  h[n] = step[h[n - 1]][n]
    <3>1. CASE n = k
      <4>1. k \in 0..k /\ k - 1 \in 0..k /\ k - 1 # k
        OBVIOUS
      <4>2. h[k] = step[g[k - 1]][k] /\ h[k - 1] = g[k - 1]
        BY <4>1
      <4> HIDE DEF h
      <4>3. QED
        BY <3>1, <4>2
    <3>2. CASE n # k
      <4>1. n \in 1..(k - 1) /\ n - 1 \in 0..(k - 1) /\ n \in 0..k /\ n - 1 \in 0..k /\ n - 1 # k
        BY <3>2
      <4>2. h[n] = g[n] /\ h[n - 1] = g[n - 1]
        BY <3>2, <4>1
      <4>3. QED
        BY <2>1, <4>1, <4>2
    <3>3. QED
      BY <3>1, <3>2
  <2>7. k \in 0..m
    OBVIOUS
  <2> HIDE DEF h
  <2>8. QED
    BY <2>4, <2>5, <2>6, <2>7, Zenon
<1>3. m \in T
  <2>1. m \in 0..m
    OBVIOUS
  <2>2. \A n \in 0..m : n \in T
    <3> HIDE DEF T
    <3>1. QED
      BY <1>1, <1>2, Climbs
  <2>3. QED
    BY <2>1, <2>2, Zenon
<1>4. QED
  BY <1>3 DEF Builds

(* The running totals of a sequence of numbers. *)
Sums(g, s) == g = [n \in 0..Len(s) |-> IF n = 0 THEN 0 ELSE g[n - 1] + s[n]]

(* Running totals exist, and Total is the last of them. *)
LEMMA SumsExist ==
  ASSUME NEW s \in Seq(Int)
  PROVE  \E g : Sums(g, s)
<1> DEFINE m == Len(s)
           step == [a \in Int |-> [n \in 1..m |-> a + s[n]]]
<1>1. m \in Nat /\ \A n \in 1..m : s[n] \in Int
  OBVIOUS
<1>3. PICK g : Builds(g, m, Int, 0, step)
  <2> DEFINE zero == 0
             I == Int
  <2>1. m \in Nat /\ zero \in I
    OBVIOUS
  <2>2. \A a \in I : \A n \in 1..m : step[a][n] \in I
    BY <1>1
  <2> HIDE DEF m, step, zero, I
  <2>3. \E g : Builds(g, m, I, zero, step)
    BY <2>1, <2>2, StepByStep, Zenon
  <2>4. QED
    BY <2>3 DEF zero, I
<1>7. /\ g \in [0..m -> Int] /\ g[0] = 0
      /\ \A n \in 1..m : g[n] = step[g[n - 1]][n]
  BY <1>3 DEF Builds
<1>4. ASSUME NEW n \in 1..m
      PROVE  g[n] = g[n - 1] + s[n]
  <2>1. g[n - 1] \in Int
    BY <1>1, <1>7
  <2>2. QED
    BY <2>1, <1>1, <1>7
<1>5. g = [n \in 0..m |-> IF n = 0 THEN 0 ELSE g[n - 1] + s[n]]
  BY <1>1, <1>7, <1>4
<1>6. QED
  BY <1>5 DEF Sums

(* Totals are integers. *)
LEMMA SumsType ==
  ASSUME NEW s \in Seq(Int), NEW g, Sums(g, s)
  PROVE  /\ g[0] = 0
         /\ \A n \in 1..Len(s) : g[n] = g[n - 1] + s[n]
         /\ \A n \in 0..Len(s) : g[n] \in Int
<1>1. Len(s) \in Nat /\ \A n \in 1..Len(s) : s[n] \in Int
  OBVIOUS
<1> DEFINE f == [n \in 0..Len(s) |-> IF n = 0 THEN 0 ELSE g[n - 1] + s[n]]
<1>2. g[0] = 0 /\ \A n \in 1..Len(s) : g[n] = g[n - 1] + s[n]
  <2>1. f[0] = 0 /\ \A n \in 1..Len(s) : f[n] = g[n - 1] + s[n]
    BY <1>1
  <2>2. g = f
    BY DEF Sums
  <2> HIDE DEF f
  <2>3. QED
    BY <2>1, <2>2, Zenon
<1> DEFINE T == {n \in 0..Len(s) : g[n] \in Int}
<1>3. 0 \in T /\ \A n \in 1..Len(s) : n - 1 \in T => n \in T
  BY <1>1, <1>2
<1>4. \A n \in 0..Len(s) : n \in T
  <2> HIDE DEF T
  <2>1. QED
    BY <1>1, <1>3, Climbs
<1>5. QED
  BY <1>2, <1>4

(* Running totals of sequences that begin alike are alike. *)
LEMMA SumsAgree ==
  ASSUME NEW s \in Seq(Int), NEW u \in Seq(Int), NEW g, Sums(g, s), NEW h, Sums(h, u),
         NEW m \in 0..Len(s), m <= Len(u), \A n \in 1..m : s[n] = u[n]
  PROVE  g[m] = h[m]
<1> DEFINE T == {n \in 0..m : g[n] = h[n]}
<1>1. Len(s) \in Nat /\ Len(u) \in Nat /\ m \in Nat
  OBVIOUS
<1>2. 0 \in T
  BY SumsType
<1>3. ASSUME NEW n \in 1..m, n - 1 \in T
      PROVE  n \in T
  <2>1. n \in 1..Len(s) /\ n \in 1..Len(u) /\ n \in 0..m
    BY <1>1
  <2>2. g[n] = g[n - 1] + s[n] /\ h[n] = h[n - 1] + u[n]
    BY <2>1, SumsType
  <2>3. QED
    BY <1>3, <2>1, <2>2
<1>4. \A n \in 0..m : n \in T
  <2> HIDE DEF T
  <2>1. QED
    BY <1>1, <1>2, <1>3, Climbs
<1>5. QED
  BY <1>1, <1>4

(* The total, by any running totals. *)
LEMMA TotalIs ==
  ASSUME NEW s \in Seq(Int)
  PROVE  \E g : Sums(g, s) /\ Total(s) = g[Len(s)]
<1> DEFINE sum == CHOOSE g : g = [n \in 0..Len(s) |-> IF n = 0 THEN 0 ELSE g[n - 1] + s[n]]
<1>1. Sums(sum, s)
  BY SumsExist DEF Sums
<1>2. Total(s) = sum[Len(s)]
  BY DEF Total
<1>3. QED
  BY <1>1, <1>2

(* Total, of any sequence. *)
LEMMA TotalOf ==
  ASSUME NEW s \in Seq(Int), NEW g, Sums(g, s)
  PROVE  Total(s) = g[Len(s)]
<1>1. PICK h : Sums(h, s) /\ Total(s) = h[Len(s)]
  BY TotalIs
<1>2. Len(s) \in 0..Len(s) /\ Len(s) <= Len(s)
  OBVIOUS
<1>3. g[Len(s)] = h[Len(s)]
  BY <1>1, <1>2, SumsAgree
<1>4. QED
  BY <1>1, <1>3

LEMMA TotalType ==
  ASSUME NEW s \in Seq(Int)
  PROVE  Total(s) \in Int /\ (Len(s) = 0 => Total(s) = 0) /\ (Len(s) = 1 => Total(s) = s[1])
<1>1. PICK g : Sums(g, s) /\ Total(s) = g[Len(s)]
  BY TotalIs
<1>2. /\ g[0] = 0 /\ \A n \in 0..Len(s) : g[n] \in Int
      /\ \A n \in 1..Len(s) : g[n] = g[n - 1] + s[n]
  BY <1>1, SumsType
<1>3. Len(s) \in 0..Len(s)
  OBVIOUS
<1>4. Total(s) \in Int /\ (Len(s) = 0 => Total(s) = 0)
  BY <1>1, <1>2, <1>3
<1>5. CASE Len(s) = 1
  <2>1. g[1] = g[1 - 1] + s[1] /\ s[1] \in Int
    BY <1>2, <1>5
  <2>2. g[1] = s[1]
    BY <2>1, <1>2
  <2>3. QED
    BY <1>1, <1>4, <1>5, <2>2
<1>6. QED
  BY <1>4, <1>5

(* The total of a sequence, and of another after it. *)
LEMMA TotalJoined ==
  ASSUME NEW s \in Seq(Int), NEW u \in Seq(Int), NEW w \in Seq(Int),
         Len(w) = Len(s) + Len(u),
         \A k \in 1..Len(s) : w[k] = s[k],
         \A k \in 1..Len(u) : w[Len(s) + k] = u[k]
  PROVE  Total(w) = Total(s) + Total(u)
<1>1. Len(s) \in Nat /\ Len(u) \in Nat /\ \A k \in 1..Len(u) : u[k] \in Int
  OBVIOUS
<1>2. PICK g : Sums(g, s) /\ Total(s) = g[Len(s)]
  BY TotalIs
<1>3. PICK h : Sums(h, u) /\ Total(u) = h[Len(u)]
  BY TotalIs
<1>4. PICK f : Sums(f, w) /\ Total(w) = f[Len(w)]
  BY TotalIs
<1>5. /\ h[0] = 0 /\ \A n \in 1..Len(u) : h[n] = h[n - 1] + u[n]
      /\ \A n \in 0..Len(u) : h[n] \in Int
  BY <1>3, SumsType
<1>6. \A n \in 1..Len(w) : f[n] = f[n - 1] + w[n]
  BY <1>4, SumsType
<1>7. f[Len(s)] = g[Len(s)] /\ g[Len(s)] \in Int
  <2> DEFINE m == Len(s)
  <2>1. /\ m \in 0..Len(s) /\ m <= Len(w)
        /\ \A k \in 1..m : s[k] = w[k]
    BY <1>1
  <2>2. g[m] = f[m]
    <3> HIDE DEF m
    <3>1. Sums(g, s) /\ Sums(f, w)
      BY <1>2, <1>4
    <3>2. \A n \in 1..m : s[n] = w[n]
      BY <2>1
    <3>3. m \in 0..Len(s) /\ m <= Len(w)
      BY <2>1
    <3>4. QED
      BY <3>1, <3>2, <3>3, SumsAgree, SMTT(60)
  <2>3. g[Len(s)] \in Int
    BY <1>2, <2>1, SumsType
  <2>4. QED
    BY <2>2, <2>3
<1> DEFINE T == {n \in 0..Len(u) : f[Len(s) + n] = g[Len(s)] + h[n]}
<1>8. 0 \in T
  BY <1>1, <1>5, <1>7
<1>9. ASSUME NEW n \in 1..Len(u), n - 1 \in T
      PROVE  n \in T
  <2>1. Len(s) + n \in 1..Len(w) /\ (Len(s) + n) - 1 = Len(s) + (n - 1)
    BY <1>1
  <2>2. f[Len(s) + n] = f[Len(s) + (n - 1)] + u[n]
    BY <1>6, <2>1
  <2>3. f[Len(s) + (n - 1)] = g[Len(s)] + h[n - 1] /\ h[n] = h[n - 1] + u[n]
    BY <1>5, <1>9
  <2>4. h[n - 1] \in Int /\ u[n] \in Int /\ n \in 0..Len(u)
    <3>1. n - 1 \in 0..Len(u) /\ n \in 0..Len(u)
      BY <1>1
    <3>2. QED
      BY <1>1, <1>5, <3>1
  <2>5. f[Len(s) + n] = g[Len(s)] + h[n]
    <3> DEFINE a == f[Len(s) + n]
               b == f[Len(s) + (n - 1)]
               c == g[Len(s)]
               d == h[n - 1]
               e == h[n]
               x == u[n]
    <3>1. a = b + x /\ b = c + d /\ e = d + x /\ c \in Int /\ d \in Int /\ x \in Int
      BY <1>7, <2>2, <2>3, <2>4
    <3> HIDE DEF a, b, c, d, e, x
    <3>2. a = c + e
      BY <3>1
    <3>3. QED
      BY <3>2 DEF a, c, e
  <2>6. QED
    BY <2>4, <2>5
<1>10. \A n \in 0..Len(u) : n \in T
  <2> HIDE DEF T
  <2>1. QED
    BY <1>1, <1>8, <1>9, Climbs
<1>11. f[Len(s) + Len(u)] = g[Len(s)] + h[Len(u)]
  BY <1>1, <1>10
<1>12. QED
  BY <1>2, <1>3, <1>4, <1>11

(* One more number. *)
LEMMA TotalGrown ==
  ASSUME NEW s \in Seq(Int), NEW w \in Seq(Int), Len(w) = Len(s) + 1,
         \A k \in 1..Len(s) : w[k] = s[k]
  PROVE  Total(w) = Total(s) + w[Len(s) + 1]
<1>1. Len(s) \in Nat
  OBVIOUS
<1>2. w[Len(s) + 1] \in Int
  BY <1>1
<1> DEFINE u == <<w[Len(s) + 1]>>
<1>3. /\ u \in Seq(Int) /\ Len(u) = 1 /\ u[1] = w[Len(s) + 1]
      /\ \A k \in 1..Len(u) : w[Len(s) + k] = u[k]
  BY <1>2
<1> HIDE DEF u
<1>4. Total(u) = u[1]
  BY <1>3, TotalType
<1>5. Len(w) = Len(s) + Len(u)
  BY <1>3
<1>6. Total(w) = Total(s) + Total(u)
  BY <1>3, <1>5, TotalJoined
<1>7. QED
  BY <1>3, <1>4, <1>6

-----------------------------------------------------------------------------
(* Pieces, and what a sequence of them amounts to. *)
Fitting == {p \in [length : Int, chars : Int] : p.length <= ChunkSize}
Lengths(pieces) == [k \in DOMAIN pieces |-> pieces[k].length]
CharsIn(pieces) == [k \in DOMAIN pieces |-> pieces[k].chars]

(* What is measured of pieces. *)
LEMMA Measured ==
  ASSUME NEW s \in Seq(Fitting)
  PROVE  /\ Lengths(s) \in Seq(Int) /\ Len(Lengths(s)) = Len(s)
         /\ CharsIn(s) \in Seq(Int) /\ Len(CharsIn(s)) = Len(s)
         /\ \A k \in 1..Len(s) : Lengths(s)[k] = s[k].length /\ CharsIn(s)[k] = s[k].chars
<1>1. /\ Len(s) \in Nat /\ DOMAIN s = 1..Len(s)
      /\ \A k \in 1..Len(s) : s[k] \in Fitting
  OBVIOUS
<1>2. \A k \in 1..Len(s) : s[k].length \in Int /\ s[k].chars \in Int
  BY <1>1 DEF Fitting
<1>3. Lengths(s) \in [1..Len(s) -> Int] /\ CharsIn(s) \in [1..Len(s) -> Int]
  BY <1>1, <1>2 DEF Lengths, CharsIn
<1>4. QED
  BY <1>1, <1>3 DEF Lengths, CharsIn

LEMMA MeasuredAppend ==
  ASSUME NEW s \in Seq(Fitting), NEW p \in Fitting
  PROVE  /\ Total(Lengths(Append(s, p))) = Total(Lengths(s)) + p.length
         /\ Total(CharsIn(Append(s, p))) = Total(CharsIn(s)) + p.chars
<1> DEFINE w == Append(s, p)
<1>1. /\ w \in Seq(Fitting) /\ Len(w) = Len(s) + 1 /\ Len(s) \in Nat
      /\ \A k \in 1..Len(s) : w[k] = s[k]
      /\ w[Len(s) + 1] = p
  BY AppendProperties
<1> HIDE DEF w
<1>2. /\ Lengths(s) \in Seq(Int) /\ Len(Lengths(s)) = Len(s)
      /\ CharsIn(s) \in Seq(Int) /\ Len(CharsIn(s)) = Len(s)
      /\ \A k \in 1..Len(s) : Lengths(s)[k] = s[k].length /\ CharsIn(s)[k] = s[k].chars
  BY Measured
<1>3. /\ Lengths(w) \in Seq(Int) /\ Len(Lengths(w)) = Len(w)
      /\ CharsIn(w) \in Seq(Int) /\ Len(CharsIn(w)) = Len(w)
      /\ \A k \in 1..Len(w) : Lengths(w)[k] = w[k].length /\ CharsIn(w)[k] = w[k].chars
  BY <1>1, Measured
<1>4. /\ \A k \in 1..Len(s) : k \in 1..Len(w)
      /\ Len(s) + 1 \in 1..Len(w)
  BY <1>1
<1>5. Lengths(w)[Len(s) + 1] = p.length /\ CharsIn(w)[Len(s) + 1] = p.chars
  BY <1>1, <1>3, <1>4
<1>6. \A k \in 1..Len(s) : Lengths(w)[k] = Lengths(s)[k] /\ CharsIn(w)[k] = CharsIn(s)[k]
  BY <1>1, <1>2, <1>3, <1>4
<1>7. Total(Lengths(w)) = Total(Lengths(s)) + Lengths(w)[Len(Lengths(s)) + 1]
  BY <1>1, <1>2, <1>3, <1>6, TotalGrown
<1>8. Total(CharsIn(w)) = Total(CharsIn(s)) + CharsIn(w)[Len(CharsIn(s)) + 1]
  BY <1>1, <1>2, <1>3, <1>6, TotalGrown
<1>9. QED
  BY <1>2, <1>5, <1>7, <1>8 DEF w

(* What two sequences of pieces hold. *)
LEMMA CharsConcat ==
  ASSUME NEW s \in Seq(Fitting), NEW u \in Seq(Fitting)
  PROVE  /\ s \o u \in Seq(Fitting)
         /\ Total(CharsIn(s \o u)) = Total(CharsIn(s)) + Total(CharsIn(u))
<1> DEFINE w == s \o u
<1>1. /\ w \in Seq(Fitting) /\ Len(w) = Len(s) + Len(u)
      /\ Len(s) \in Nat /\ Len(u) \in Nat
  BY ConcatProperties
<1>2. /\ \A k \in 1..Len(s) : w[k] = s[k]
      /\ \A k \in 1..Len(u) : w[Len(s) + k] = u[k]
  <2>1. \A k \in 1..(Len(s) + Len(u)) : w[k] = IF k <= Len(s) THEN s[k] ELSE u[k - Len(s)]
    BY ConcatProperties
  <2> HIDE DEF w
  <2>2. \A k \in 1..Len(s) : w[k] = s[k]
    BY <1>1, <2>1
  <2>3. ASSUME NEW k \in 1..Len(u)
        PROVE  w[Len(s) + k] = u[k]
    <3>1. /\ Len(s) + k \in 1..(Len(s) + Len(u)) /\ ~ (Len(s) + k <= Len(s))
          /\ (Len(s) + k) - Len(s) = k
      BY <1>1
    <3>2. QED
      BY <2>1, <3>1
  <2>4. QED
    BY <2>2, <2>3
<1> HIDE DEF w
<1>3. /\ CharsIn(s) \in Seq(Int) /\ Len(CharsIn(s)) = Len(s)
      /\ \A k \in 1..Len(s) : CharsIn(s)[k] = s[k].chars
  BY Measured
<1>4. /\ CharsIn(u) \in Seq(Int) /\ Len(CharsIn(u)) = Len(u)
      /\ \A k \in 1..Len(u) : CharsIn(u)[k] = u[k].chars
  BY Measured
<1>5. /\ CharsIn(w) \in Seq(Int) /\ Len(CharsIn(w)) = Len(w)
      /\ \A k \in 1..Len(w) : CharsIn(w)[k] = w[k].chars
  BY <1>1, Measured
<1>6. \A k \in 1..Len(s) : CharsIn(w)[k] = CharsIn(s)[k]
  <2>1. \A k \in 1..Len(s) : k \in 1..Len(w)
    BY <1>1
  <2>2. QED
    BY <1>2, <1>3, <1>5, <2>1
<1>7. \A k \in 1..Len(u) : CharsIn(w)[Len(s) + k] = CharsIn(u)[k]
  <2>1. \A k \in 1..Len(u) : Len(s) + k \in 1..Len(w)
    BY <1>1
  <2>2. QED
    BY <1>2, <1>4, <1>5, <2>1
<1>8. Total(CharsIn(w)) = Total(CharsIn(s)) + Total(CharsIn(u))
  <2> DEFINE cs == CharsIn(s)
             cu == CharsIn(u)
             cw == CharsIn(w)
  <2>1. /\ cs \in Seq(Int) /\ cu \in Seq(Int) /\ cw \in Seq(Int)
        /\ Len(cw) = Len(cs) + Len(cu)
        /\ \A k \in 1..Len(cs) : cw[k] = cs[k]
        /\ \A k \in 1..Len(cu) : cw[Len(cs) + k] = cu[k]
    BY <1>1, <1>3, <1>4, <1>5, <1>6, <1>7
  <2> HIDE DEF cs, cu, cw
  <2>2. Total(cw) = Total(cs) + Total(cu)
    BY <2>1, TotalJoined
  <2>3. QED
    BY <2>2 DEF cs, cu, cw
<1>9. QED
  BY <1>1, <1>8 DEF w

-----------------------------------------------------------------------------
(***************************************************************************)
(* Flattening.                                                             *)
(***************************************************************************)

(* What flattening a sequence of sequences goes through. *)
Flattens(f, seqs) ==
    /\ \A k \in 1..Len(seqs) : f[k] \in Seq(Fitting)
    /\ f[1] = seqs[1]
    /\ \A k \in 2..Len(seqs) : f[k] = f[k - 1] \o seqs[k]

(* FlattenSeq does so. *)
LEMMA Flattening ==
  ASSUME NEW seqs \in Seq(Seq(Fitting)), Len(seqs) > 0
  PROVE  \E f : Flattens(f, seqs) /\ FlattenSeq(seqs) = f[Len(seqs)]
<1> DEFINE n == Len(seqs)
           m == n - 1
           X == Seq(Fitting)
           base == seqs[1]
           step == [a \in X |-> [k \in 1..m |-> a \o seqs[k + 1]]]
           Is(f) == f = [k \in 1..n |-> IF k = 1 THEN seqs[k] ELSE f[k - 1] \o seqs[k]]
<1>1. n \in Nat /\ m \in Nat /\ \A k \in 1..n : seqs[k] \in X
  OBVIOUS
<1>2. base \in X /\ \A a \in X : \A k \in 1..m : step[a][k] \in X
  <2>1. base \in X
    BY <1>1
  <2>2. ASSUME NEW a \in X, NEW k \in 1..m
        PROVE  step[a][k] \in X
    <3>1. seqs[k + 1] \in X
      BY <1>1
    <3>2. a \o seqs[k + 1] \in X
      BY <3>1, ConcatProperties
    <3>3. step[a][k] = a \o seqs[k + 1]
      OBVIOUS
    <3>4. QED
      BY <3>2, <3>3
  <2>3. QED
    BY <2>1, <2>2
<1>3. PICK g : Builds(g, m, X, base, step)
  <2> HIDE DEF m, X, base, step
  <2>1. QED
    BY <1>1, <1>2, StepByStep, Zenon
<1>4. /\ g \in [0..m -> X] /\ g[0] = seqs[1]
      /\ \A k \in 1..m : g[k] = g[k - 1] \o seqs[k + 1]
  <2>1. /\ g \in [0..m -> X] /\ g[0] = base
        /\ \A k \in 1..m : g[k] = step[g[k - 1]][k]
    BY <1>3 DEF Builds
  <2>2. ASSUME NEW k \in 1..m
        PROVE  g[k] = g[k - 1] \o seqs[k + 1]
    <3>1. k - 1 \in 0..m
      BY <1>1
    <3>2. g[k - 1] \in X
      BY <2>1, <3>1
    <3>3. step[g[k - 1]][k] = g[k - 1] \o seqs[k + 1]
      BY <3>2
    <3>4. QED
      BY <2>1, <3>3
  <2>3. QED
    BY <2>1, <2>2
<1> DEFINE f == [k \in 1..n |-> g[k - 1]]
<1>5. \A k \in 1..n : f[k] = (IF k = 1 THEN seqs[k] ELSE f[k - 1] \o seqs[k])
  <2> SUFFICES ASSUME NEW k \in 1..n
               PROVE  f[k] = (IF k = 1 THEN seqs[k] ELSE f[k - 1] \o seqs[k])
    OBVIOUS
  <2>1. CASE k = 1
    BY <1>1, <1>4, <2>1
  <2>2. CASE k # 1
    <3>1. k - 1 \in 1..m /\ k - 1 \in 1..n /\ (k - 1) + 1 = k
      BY <1>1, <2>2
    <3>2. f[k] = g[k - 1] /\ f[k - 1] = g[(k - 1) - 1]
      BY <3>1
    <3>3. g[k - 1] = g[(k - 1) - 1] \o seqs[k]
      BY <1>4, <3>1
    <3> HIDE DEF f
    <3>4. QED
      BY <2>2, <3>2, <3>3
  <2>3. QED
    BY <2>1, <2>2
<1>6. Is(f)
  <2>1. f = [k \in 1..n |-> f[k]]
    OBVIOUS
  <2> HIDE DEF f
  <2>2. [k \in 1..n |-> f[k]] = [k \in 1..n |-> IF k = 1 THEN seqs[k] ELSE f[k - 1] \o seqs[k]]
    BY <1>5
  <2>3. QED
    BY <2>1, <2>2
<1> DEFINE flat == CHOOSE h : Is(h)
<1>7. Is(flat)
  <2> HIDE DEF f, Is
  <2>1. QED
    BY <1>6
<1>8. FlattenSeq(seqs) = flat[n]
  BY <1>1 DEF FlattenSeq
<1> HIDE DEF flat
<1>9. \A k \in 1..n : flat[k] = (IF k = 1 THEN seqs[k] ELSE flat[k - 1] \o seqs[k])
  <2> DEFINE rest == [k \in 1..n |-> IF k = 1 THEN seqs[k] ELSE flat[k - 1] \o seqs[k]]
  <2>1. flat = rest
    BY <1>7
  <2>2. \A k \in 1..n : rest[k] = (IF k = 1 THEN seqs[k] ELSE flat[k - 1] \o seqs[k])
    OBVIOUS
  <2> HIDE DEF rest
  <2>3. QED
    BY <2>1, <2>2, Zenon
<1> DEFINE T == {k \in 0..m : flat[k + 1] \in X}
<1>10. 0 \in T
  <2>1. 1 \in 1..n /\ 0 \in 0..m /\ 0 + 1 = 1
    BY <1>1
  <2>2. flat[1] = seqs[1]
    BY <1>9, <2>1
  <2> HIDE DEF X
  <2>3. QED
    BY <1>1, <2>1, <2>2
<1>11. ASSUME NEW k \in 1..m, k - 1 \in T
       PROVE  k \in T
  <2>1. k + 1 \in 1..n /\ k + 1 # 1 /\ (k + 1) - 1 = k /\ k \in 0..m /\ (k - 1) + 1 = k
    BY <1>1
  <2>2. flat[k + 1] = flat[k] \o seqs[k + 1]
    BY <1>9, <2>1
  <2>3. flat[k] \in X /\ seqs[k + 1] \in X
    BY <1>1, <1>11, <2>1
  <2>4. flat[k] \o seqs[k + 1] \in X
    BY <2>3, ConcatProperties
  <2>5. QED
    BY <2>1, <2>2, <2>4
<1>12. \A k \in 0..m : k \in T
  <2>1. m \in Nat
    BY <1>1
  <2> HIDE DEF T, m
  <2>2. QED
    BY <2>1, <1>10, <1>11, Climbs
<1>13. \A k \in 1..n : flat[k] \in X
  <2> SUFFICES ASSUME NEW k \in 1..n
               PROVE  flat[k] \in X
    OBVIOUS
  <2>1. k - 1 \in 0..m /\ (k - 1) + 1 = k
    BY <1>1
  <2>2. k - 1 \in T
    BY <1>12, <2>1
  <2> HIDE DEF X
  <2>3. QED
    BY <2>1, <2>2
<1>14. Flattens(flat, seqs)
  <2>1. flat[1] = seqs[1]
    BY <1>1, <1>9
  <2>2. \A k \in 2..n : flat[k] = flat[k - 1] \o seqs[k]
    <3>1. \A k \in 2..n : k \in 1..n /\ k # 1
      BY <1>1
    <3> HIDE DEF n
    <3>2. QED
      BY <1>9, <3>1
  <2>3. QED
    BY <1>13, <2>1, <2>2 DEF Flattens
<1>15. QED
  BY <1>8, <1>14

(* Flattening keeps what is in the sequences. *)
Amounts(seqs) == [k \in DOMAIN seqs |-> Total(CharsIn(seqs[k]))]

LEMMA FlattenChars ==
  ASSUME NEW seqs \in Seq(Seq(Fitting)), Len(seqs) > 0
  PROVE  /\ FlattenSeq(seqs) \in Seq(Fitting)
         /\ Amounts(seqs) \in Seq(Int) /\ Len(Amounts(seqs)) = Len(seqs)
         /\ Total(CharsIn(FlattenSeq(seqs))) = Total(Amounts(seqs))
<1> DEFINE n == Len(seqs)
           amounts == Amounts(seqs)
<1>1. n \in Nat /\ n > 0 /\ DOMAIN seqs = 1..n /\ \A k \in 1..n : seqs[k] \in Seq(Fitting)
  OBVIOUS
<1>2. \A k \in 1..n : Total(CharsIn(seqs[k])) \in Int
  BY <1>1, Measured, TotalType
<1>3. amounts \in Seq(Int) /\ Len(amounts) = n /\ \A k \in 1..n : amounts[k] = Total(CharsIn(seqs[k]))
  <2>1. amounts \in [1..n -> Int] /\ \A k \in 1..n : amounts[k] = Total(CharsIn(seqs[k]))
    BY <1>1, <1>2 DEF Amounts
  <2> HIDE DEF amounts
  <2>2. QED
    BY <1>1, <2>1
<1>4. PICK f : Flattens(f, seqs) /\ FlattenSeq(seqs) = f[n]
  BY <1>1, Flattening
<1>5. PICK g : Sums(g, amounts) /\ Total(amounts) = g[Len(amounts)]
  BY <1>3, TotalIs
<1>6. g[0] = 0 /\ \A k \in 1..n : g[k] = g[k - 1] + amounts[k]
  <2> HIDE DEF amounts
  <2>1. QED
    BY <1>3, <1>5, SumsType
<1> HIDE DEF amounts
<1> DEFINE T == {k \in 0..n : k = 0 \/ Total(CharsIn(f[k])) = g[k]}
<1>7. 0 \in T
  BY <1>1
<1>8. ASSUME NEW k \in 1..n, k - 1 \in T
      PROVE  k \in T
  <2>1. f[k] \in Seq(Fitting) /\ seqs[k] \in Seq(Fitting) /\ k \in 0..n
    BY <1>1, <1>4 DEF Flattens
  <2>2. g[k] = g[k - 1] + Total(CharsIn(seqs[k])) /\ Total(CharsIn(seqs[k])) \in Int
    BY <1>2, <1>3, <1>6
  <2>3. CASE k = 1
    <3>1. f[1] = seqs[1]
      BY <1>4 DEF Flattens
    <3>2. g[1 - 1] = 0
      BY <1>6
    <3>3. Total(CharsIn(f[k])) = g[k]
      BY <2>2, <2>3, <3>1, <3>2
    <3>4. QED
      BY <2>1, <3>3
  <2>4. CASE k # 1
    <3>1. k \in 2..n /\ k - 1 \in 1..n /\ k - 1 # 0
      BY <1>1, <2>4
    <3>2. f[k] = f[k - 1] \o seqs[k] /\ f[k - 1] \in Seq(Fitting)
      BY <1>4, <3>1 DEF Flattens
    <3>3. Total(CharsIn(f[k])) = Total(CharsIn(f[k - 1])) + Total(CharsIn(seqs[k]))
      BY <2>1, <3>2, CharsConcat
    <3>4. Total(CharsIn(f[k - 1])) = g[k - 1]
      BY <1>8, <3>1
    <3>5. Total(CharsIn(f[k])) = g[k]
      BY <2>2, <3>3, <3>4
    <3>6. QED
      BY <2>1, <3>5
  <2>5. QED
    BY <2>3, <2>4
<1>9. \A k \in 0..n : k \in T
  <2>1. n \in Nat
    BY <1>1
  <2> HIDE DEF T, n
  <2>2. QED
    BY <2>1, <1>7, <1>8, Climbs
<1>10. Total(CharsIn(f[n])) = g[n] /\ f[n] \in Seq(Fitting)
  <2>1. n \in 1..n /\ n \in 0..n /\ n # 0
    BY <1>1
  <2>2. n \in T
    BY <1>9, <2>1
  <2>3. QED
    BY <1>4, <2>1, <2>2 DEF Flattens
<1>11. QED
  BY <1>3, <1>4, <1>5, <1>10 DEF amounts

-----------------------------------------------------------------------------
(***************************************************************************)
(* The chunker: pieces of a text, and chunks of its pieces.                *)
(***************************************************************************)

(* The constants of a text. *)
LEMMA TextFacts ==
  /\ ChunkSize \in Nat /\ ChunkSize > 0 /\ ChunkOverlap \in Nat
  /\ BatchSize \in Nat /\ BatchSize > 0
  /\ Overlap \in Nat /\ Overlap <= ChunkSize
  /\ \A b \in Body : Text[b] \in Seq(Seq(Nat \ {0}))
<1>1. /\ ChunkSize \in Nat /\ ChunkSize > 0 /\ ChunkOverlap \in Nat
      /\ BatchSize \in Nat /\ BatchSize > 0
      /\ \A b \in Body : Text[b] \in Seq(Seq(Nat \ {0}))
  BY TextAssumption
<1>2. ChunkSize \div 2 \in Nat /\ ChunkSize \div 2 <= ChunkSize
  BY <1>1
<1>3. Overlap \in Nat /\ Overlap <= ChunkSize
  BY <1>1, <1>2 DEF Overlap, Least
<1>4. QED
  BY <1>1, <1>3

LEMMA SequenceIs ==
  ASSUME NEW S, NEW n \in Nat, NEW s \in [1..n -> S]
  PROVE  s \in Seq(S) /\ Len(s) = n /\ DOMAIN s = 1..n
OBVIOUS

(* How often a size goes into a length. *)
LEMMA Ceiling ==
  ASSUME NEW n \in Nat, n > 0, NEW c \in Nat, c > 0
  PROVE  /\ (n + c - 1) \div c \in Nat
         /\ (n + c - 1) \div c > 0
         /\ n <= ((n + c - 1) \div c) * c
         /\ (((n + c - 1) \div c) - 1) * c < n
<1> DEFINE a == n + c - 1
           q == a \div c
           r == a % c
<1>1. a \in Nat /\ a >= c
  OBVIOUS
<1>2. q \in Int /\ r \in 0..(c - 1) /\ a = q * c + r
  <2> HIDE DEF a
  <2>1. QED
    BY <1>1
<1>3. n + c - 1 = q * c + r /\ r \in Int /\ r >= 0 /\ r <= c - 1
  BY <1>2
<1>4. q * c \in Int /\ (q - 1) * c = q * c - c
  BY <1>2
<1>5. n <= q * c /\ (q - 1) * c < n
  <2> DEFINE x == q * c
  <2>1. x \in Int /\ n + c - 1 = x + r /\ (q - 1) * c = x - c
    BY <1>3, <1>4
  <2> HIDE DEF x
  <2>2. n <= x /\ x - c < n
    BY <1>3, <2>1
  <2>3. QED
    BY <2>1, <2>2 DEF x
<1>6. q > 0
  <2>1. CASE q <= 0
    <3>1. q * c <= 0
      BY <1>2, <2>1
    <3>2. QED
      BY <1>5, <1>4, <3>1
  <2>2. QED
    BY <1>2, <2>1
<1>7. QED
  BY <1>2, <1>5, <1>6

(* The lesser of two numbers. *)
LEMMA LeastFacts ==
  ASSUME NEW a \in Int, NEW b \in Int
  PROVE  /\ Least(a, b) \in Int /\ Least(a, b) <= a /\ Least(a, b) <= b
         /\ (a <= b => Least(a, b) = a) /\ (b <= a => Least(a, b) = b)
BY DEF Least

(* A sentence, cut by its length. *)
LEMMA SentenceIsCut ==
  ASSUME NEW n \in Nat, n > 0
  PROVE  CutSentence(n) \in Seq(Fitting) /\ Total(CharsIn(CutSentence(n))) = n
<1> DEFINE C == ChunkSize
           m == (n + C - 1) \div C
           cut == CutSentence(n)
           size == [k \in 1..m |-> Least(C, n - (k - 1) * C)]
<1>1. C \in Nat /\ C > 0
  BY TextFacts
<1>2. m \in Nat /\ m > 0 /\ n <= m * C /\ (m - 1) * C < n
  BY <1>1, Ceiling
<1>3. cut = [k \in 1..m |-> [length |-> size[k], chars |-> size[k]]]
  <2>1. cut = [k \in 1..m |-> [length |-> Least(C, n - (k - 1) * C), chars |-> Least(C, n - (k - 1) * C)]]
    BY DEF CutSentence, Piece
  <2> HIDE DEF cut, m
  <2>2. QED
    BY <2>1
<1> HIDE DEF m, cut, C
<1>4. \A k \in 1..m : n - (k - 1) * C \in Int /\ size[k] \in Int /\ size[k] <= C
  <2> SUFFICES ASSUME NEW k \in 1..m
               PROVE  n - (k - 1) * C \in Int /\ size[k] \in Int /\ size[k] <= C
    OBVIOUS
  <2>1. n - (k - 1) * C \in Int
    BY <1>1, <1>2
  <2>2. QED
    BY <1>1, <2>1, LeastFacts
<1>5. \A k \in 1..m : cut[k] = [length |-> size[k], chars |-> size[k]]
  BY <1>3
<1> HIDE DEF size
<1>6. cut \in Seq(Fitting) /\ Len(cut) = m
  <2>1. ASSUME NEW k \in 1..m
        PROVE  cut[k] \in Fitting
    <3>1. size[k] \in Int /\ size[k] <= ChunkSize
      BY <1>4 DEF C
    <3>2. [length |-> size[k], chars |-> size[k]] \in Fitting
      BY <3>1 DEF Fitting
    <3>3. QED
      BY <1>5, <3>2
  <2>2. cut \in [1..m -> Fitting]
    BY <1>3, <2>1
  <2>3. QED
    BY <1>2, <2>2
<1>7. /\ CharsIn(cut) \in Seq(Int) /\ Len(CharsIn(cut)) = m
      /\ \A k \in 1..m : CharsIn(cut)[k] = size[k]
  <2>1. /\ CharsIn(cut) \in Seq(Int) /\ Len(CharsIn(cut)) = Len(cut)
        /\ \A k \in 1..Len(cut) : CharsIn(cut)[k] = cut[k].chars
    BY <1>6, Measured
  <2>2. ASSUME NEW k \in 1..m
        PROVE  cut[k].chars = size[k]
    <3>1. cut[k] = [length |-> size[k], chars |-> size[k]]
      BY <1>5
    <3>2. QED
      BY <3>1
  <2>3. QED
    BY <1>6, <2>1, <2>2
<1>8. PICK g : Sums(g, CharsIn(cut)) /\ Total(CharsIn(cut)) = g[m]
  BY <1>7, TotalIs
<1>9. g[0] = 0 /\ \A k \in 1..m : g[k] = g[k - 1] + size[k]
  BY <1>7, <1>8, SumsType
<1> DEFINE T == {k \in 0..m : g[k] = Least(n, k * C)}
<1>10. 0 \in T
  <2>1. 0 * C = 0 /\ 0 <= n /\ 0 \in 0..m
    BY <1>1, <1>2
  <2>2. Least(n, 0) = 0
    BY <2>1, LeastFacts
  <2>3. QED
    BY <1>9, <2>1, <2>2
<1>11. ASSUME NEW k \in 1..m, k - 1 \in T
       PROVE  k \in T
  <2> DEFINE x == (k - 1) * C
  <2>1. x \in Int /\ k * C = x + C /\ k \in 0..m
    BY <1>1, <1>2
  <2>2. x < n
    <3>1. k - 1 <= m - 1 /\ k - 1 \in Int /\ m - 1 \in Int
      BY <1>2
    <3>2. (k - 1) * C <= (m - 1) * C /\ (m - 1) * C \in Int
      BY <1>1, <3>1
    <3>3. QED
      BY <1>2, <2>1, <3>2
  <2>3. g[k - 1] = Least(n, x)
    BY <1>11
  <2>4. g[k] = g[k - 1] + Least(C, n - x)
    <3>1. size[k] = Least(C, n - x)
      BY DEF size
    <3> HIDE DEF x, size
    <3>2. QED
      BY <1>9, <3>1
  <2> HIDE DEF x
  <2>5. g[k - 1] = x
    BY <2>1, <2>2, <2>3, LeastFacts
  <2>6. g[k] = Least(n, x + C)
    BY <1>1, <2>1, <2>2, <2>4, <2>5 DEF Least
  <2>7. QED
    BY <2>1, <2>6
<1>12. \A k \in 0..m : k \in T
  <2> HIDE DEF T
  <2>1. QED
    BY <1>2, <1>10, <1>11, Climbs
<1>13. g[m] = Least(n, m * C)
  <2>1. m \in 0..m
    BY <1>2
  <2>2. m \in T
    BY <1>12, <2>1
  <2>3. QED
    BY <2>2
<1>14. g[m] = n
  <2>1. m * C \in Int
    BY <1>1, <1>2
  <2>2. QED
    BY <1>2, <1>13, <2>1, LeastFacts
<1>15. QED
  BY <1>6, <1>8, <1>14 DEF cut

LEMMA OnePiece ==
  ASSUME NEW length \in Int, NEW chars \in Int, length <= ChunkSize
  PROVE  /\ <<Piece(length, chars)>> \in Seq(Fitting)
         /\ Total(Lengths(<<Piece(length, chars)>>)) = length
         /\ Total(CharsIn(<<Piece(length, chars)>>)) = chars
<1> DEFINE p == Piece(length, chars)
           s == <<p>>
<1>1. p \in Fitting /\ p.length = length /\ p.chars = chars
  BY DEF Piece, Fitting
<1>2. s \in Seq(Fitting) /\ Len(s) = 1 /\ s[1] = p
  BY <1>1
<1> HIDE DEF s, p
<1>3. /\ Lengths(s) \in Seq(Int) /\ Len(Lengths(s)) = 1 /\ Lengths(s)[1] = length
      /\ CharsIn(s) \in Seq(Int) /\ Len(CharsIn(s)) = 1 /\ CharsIn(s)[1] = chars
  BY <1>1, <1>2, Measured
<1>4. Total(Lengths(s)) = length /\ Total(CharsIn(s)) = chars
  BY <1>3, TotalType
<1>5. QED
  BY <1>2, <1>4 DEF s, p

(* A paragraph. *)
LEMMA ParagraphIsSplit ==
  ASSUME NEW p \in Seq(Nat \ {0})
  PROVE  SplitParagraph(p) \in Seq(Fitting) /\ Total(CharsIn(SplitParagraph(p))) = Total(p)
<1>1. /\ p \in Seq(Int) /\ Len(p) \in Nat /\ DOMAIN p = 1..Len(p)
      /\ \A k \in 1..Len(p) : p[k] \in Nat /\ p[k] > 0
  OBVIOUS
<1>2. Total(p) \in Int /\ (Len(p) = 0 => Total(p) = 0)
  BY <1>1, TotalType
<1>3. ParagraphLength(p) \in Int
  BY <1>1, <1>2 DEF ParagraphLength
<1>4. CASE ParagraphLength(p) <= ChunkSize
  BY <1>2, <1>3, <1>4, OnePiece DEF SplitParagraph
<1>5. CASE ~ (ParagraphLength(p) <= ChunkSize)
  <2> DEFINE seqs == [k \in DOMAIN p |-> CutSentence(p[k])]
  <2>1. SplitParagraph(p) = FlattenSeq(seqs)
    BY <1>5 DEF SplitParagraph
  <2>2. Len(p) > 0
    <3>1. CASE Len(p) = 0
      <4>1. ParagraphLength(p) = -1
        BY <1>2, <3>1 DEF ParagraphLength
      <4>2. QED
        BY <1>5, <4>1, TextFacts
    <3>2. QED
      BY <1>1, <3>1
  <2>3. \A k \in 1..Len(p) : CutSentence(p[k]) \in Seq(Fitting) /\ Total(CharsIn(CutSentence(p[k]))) = p[k]
    BY <1>1, SentenceIsCut
  <2>4. /\ seqs \in Seq(Seq(Fitting)) /\ Len(seqs) = Len(p)
        /\ \A k \in 1..Len(p) : seqs[k] = CutSentence(p[k])
    <3>1. seqs \in [1..Len(p) -> Seq(Fitting)] /\ \A k \in 1..Len(p) : seqs[k] = CutSentence(p[k])
      BY <1>1, <2>3
    <3> HIDE DEF seqs
    <3>2. QED
      BY <1>1, <3>1
  <2> HIDE DEF seqs
  <2>5. /\ FlattenSeq(seqs) \in Seq(Fitting)
        /\ Amounts(seqs) \in Seq(Int) /\ Len(Amounts(seqs)) = Len(seqs)
        /\ Total(CharsIn(FlattenSeq(seqs))) = Total(Amounts(seqs))
    BY <2>2, <2>4, FlattenChars
  <2>6. Amounts(seqs) = p
    <3>1. DOMAIN seqs = 1..Len(p)
      BY <1>1, <2>4
    <3>2. \A k \in 1..Len(p) : Amounts(seqs)[k] = p[k]
      BY <2>3, <2>4, <3>1 DEF Amounts
    <3>3. QED
      BY <1>1, <2>4, <2>5, <3>2, SeqEqual
  <2>7. QED
    BY <2>1, <2>5, <2>6
<1>6. QED
  BY <1>4, <1>5

(* Splitting a text leaves out nothing but spacing, and no piece is too long. *)
LEMMA TextIsSplit ==
  ASSUME NEW text \in Seq(Seq(Nat \ {0})), text # <<>>
  PROVE  /\ Split(text) \in Seq(Fitting)
         /\ Total(CharsIn(Split(text))) = Chars(text) /\ Chars(text) \in Int
<1> DEFINE seqs == [k \in DOMAIN text |-> SplitParagraph(text[k])]
           totals == [k \in DOMAIN text |-> Total(text[k])]
<1>1. /\ Len(text) \in Nat /\ Len(text) > 0 /\ DOMAIN text = 1..Len(text)
      /\ \A k \in 1..Len(text) : text[k] \in Seq(Nat \ {0})
  OBVIOUS
<1>2. Split(text) = FlattenSeq(seqs) /\ Chars(text) = Total(totals)
  BY DEF Split, Chars
<1>3. \A k \in 1..Len(text) : /\ SplitParagraph(text[k]) \in Seq(Fitting)
                              /\ Total(CharsIn(SplitParagraph(text[k]))) = Total(text[k])
  BY <1>1, ParagraphIsSplit
<1>4. /\ seqs \in Seq(Seq(Fitting)) /\ Len(seqs) = Len(text)
      /\ \A k \in 1..Len(text) : seqs[k] = SplitParagraph(text[k])
  <2>1. seqs \in [1..Len(text) -> Seq(Fitting)]
        /\ \A k \in 1..Len(text) : seqs[k] = SplitParagraph(text[k])
    BY <1>1, <1>3
  <2> HIDE DEF seqs
  <2>2. QED
    BY <1>1, <2>1, SequenceIs
<1>5. \A k \in 1..Len(text) : Total(text[k]) \in Int
  <2> SUFFICES ASSUME NEW k \in 1..Len(text)
               PROVE  Total(text[k]) \in Int
    OBVIOUS
  <2>1. text[k] \in Seq(Int)
    BY <1>1
  <2>2. QED
    BY <2>1, TotalType
<1>6. /\ totals \in Seq(Int) /\ Len(totals) = Len(text)
      /\ \A k \in 1..Len(text) : totals[k] = Total(text[k])
  <2>1. totals \in [1..Len(text) -> Int]
        /\ \A k \in 1..Len(text) : totals[k] = Total(text[k])
    BY <1>1, <1>5
  <2> HIDE DEF totals
  <2>2. QED
    BY <1>1, <2>1, SequenceIs
<1> HIDE DEF seqs, totals
<1>7. /\ FlattenSeq(seqs) \in Seq(Fitting)
      /\ Amounts(seqs) \in Seq(Int) /\ Len(Amounts(seqs)) = Len(seqs)
      /\ Total(CharsIn(FlattenSeq(seqs))) = Total(Amounts(seqs))
  BY <1>1, <1>4, FlattenChars
<1>8. Amounts(seqs) = totals
  <2>1. DOMAIN seqs = 1..Len(text)
    BY <1>1, <1>4
  <2>2. \A k \in 1..Len(text) : Amounts(seqs)[k] = totals[k]
    BY <1>3, <1>4, <1>6, <2>1 DEF Amounts
  <2>3. QED
    BY <1>4, <1>6, <1>7, <2>2, SeqEqual
<1>9. QED
  BY <1>2, <1>6, <1>7, <1>8, TotalType

(* Chunks of the size asked for but for what is repeated, and what they hold. *)
Fine == {c \in [pieces : Seq(Fitting), tail : Int] : ChunkLength(c) <= ChunkSize + Overlap + 2}
Held(chunks) == [k \in DOMAIN chunks |-> Total(CharsIn(chunks[k].pieces))]
Packing == [chunks : Seq(Fine), current : Fine]
Amount(packed) == Total(Held(packed.chunks)) + Total(CharsIn(packed.current.pieces))

(* The length of a chunk. *)
LEMMA LengthOfChunk ==
  ASSUME NEW pieces \in Seq(Fitting), NEW tail \in Int
  PROVE  /\ ChunkLength(Chunk(pieces, tail)) \in Int
         /\ ChunkLength(Chunk(pieces, tail)) =
              Total(Lengths(pieces)) + 2 * (Len(pieces) - 1) + (IF tail = 0 THEN 0 ELSE tail + 2)
<1> DEFINE c == Chunk(pieces, tail)
<1>1. c.pieces = pieces /\ c.tail = tail
  BY DEF Chunk
<1> HIDE DEF c
<1>2. ChunkLength(c) = Total(Lengths(pieces)) + 2 * (Len(pieces) - 1) + (IF tail = 0 THEN 0 ELSE tail + 2)
  BY <1>1 DEF ChunkLength, Lengths
<1>3. Total(Lengths(pieces)) \in Int /\ Len(pieces) \in Nat
  BY Measured, TotalType
<1>4. ChunkLength(c) \in Int
  BY <1>2, <1>3
<1>5. QED
  BY <1>2, <1>4 DEF c

LEMMA ChunkIsFine ==
  ASSUME NEW pieces \in Seq(Fitting), NEW tail \in Int,
         ChunkLength(Chunk(pieces, tail)) <= ChunkSize + Overlap + 2
  PROVE  Chunk(pieces, tail) \in Fine
<1>1. Chunk(pieces, tail) \in [pieces : Seq(Fitting), tail : Int]
  BY DEF Chunk
<1>2. QED
  BY <1>1 DEF Fine

LEMMA FineIsChunk ==
  ASSUME NEW c \in Fine
  PROVE  /\ c.pieces \in Seq(Fitting) /\ c.tail \in Int /\ c = Chunk(c.pieces, c.tail)
         /\ ChunkLength(c) \in Int /\ ChunkLength(c) <= ChunkSize + Overlap + 2
<1>1. c \in [pieces : Seq(Fitting), tail : Int] /\ ChunkLength(c) <= ChunkSize + Overlap + 2
  BY DEF Fine
<1>2. c.pieces \in Seq(Fitting) /\ c.tail \in Int /\ c = Chunk(c.pieces, c.tail)
  BY <1>1 DEF Chunk
<1>3. ChunkLength(Chunk(c.pieces, c.tail)) \in Int
  BY <1>2, LengthOfChunk
<1>4. ChunkLength(c) \in Int
  BY <1>2, <1>3
<1>5. QED
  BY <1>1, <1>2, <1>4

LEMMA HeldType ==
  ASSUME NEW chunks \in Seq(Fine)
  PROVE  /\ Held(chunks) \in Seq(Int) /\ Len(Held(chunks)) = Len(chunks)
         /\ \A k \in 1..Len(chunks) : Held(chunks)[k] = Total(CharsIn(chunks[k].pieces))
<1>1. /\ Len(chunks) \in Nat /\ DOMAIN chunks = 1..Len(chunks)
      /\ \A k \in 1..Len(chunks) : chunks[k] \in Fine
  OBVIOUS
<1>2. \A k \in 1..Len(chunks) : Total(CharsIn(chunks[k].pieces)) \in Int
  <2> SUFFICES ASSUME NEW k \in 1..Len(chunks)
               PROVE  Total(CharsIn(chunks[k].pieces)) \in Int
    OBVIOUS
  <2>1. chunks[k].pieces \in Seq(Fitting)
    BY <1>1, FineIsChunk
  <2>2. QED
    BY <2>1, Measured, TotalType
<1>3. /\ Held(chunks) \in [1..Len(chunks) -> Int]
      /\ \A k \in 1..Len(chunks) : Held(chunks)[k] = Total(CharsIn(chunks[k].pieces))
  BY <1>1, <1>2 DEF Held
<1>4. QED
  BY <1>1, <1>3, SequenceIs

LEMMA HeldAppend ==
  ASSUME NEW chunks \in Seq(Fine), NEW c \in Fine
  PROVE  /\ Append(chunks, c) \in Seq(Fine)
         /\ Total(Held(Append(chunks, c))) = Total(Held(chunks)) + Total(CharsIn(c.pieces))
<1> DEFINE w == Append(chunks, c)
           hs == Held(chunks)
           hw == Held(w)
<1>1. /\ w \in Seq(Fine) /\ Len(w) = Len(chunks) + 1 /\ Len(chunks) \in Nat
      /\ \A k \in 1..Len(chunks) : w[k] = chunks[k]
      /\ w[Len(chunks) + 1] = c
  BY AppendProperties
<1> HIDE DEF w
<1>2. /\ hs \in Seq(Int) /\ Len(hs) = Len(chunks)
      /\ \A k \in 1..Len(chunks) : hs[k] = Total(CharsIn(chunks[k].pieces))
  BY HeldType
<1>3. /\ hw \in Seq(Int) /\ Len(hw) = Len(w)
      /\ \A k \in 1..Len(w) : hw[k] = Total(CharsIn(w[k].pieces))
  BY <1>1, HeldType
<1> HIDE DEF hs, hw
<1>4. /\ \A k \in 1..Len(chunks) : k \in 1..Len(w)
      /\ Len(chunks) + 1 \in 1..Len(w)
  BY <1>1
<1>5. \A k \in 1..Len(hs) : hw[k] = hs[k]
  BY <1>1, <1>2, <1>3, <1>4
<1>6. hw[Len(hs) + 1] = Total(CharsIn(c.pieces))
  BY <1>1, <1>2, <1>3, <1>4
<1>7. Len(hw) = Len(hs) + 1
  BY <1>1, <1>2, <1>3
<1>8. Total(hw) = Total(hs) + hw[Len(hs) + 1]
  BY <1>2, <1>3, <1>5, <1>7, TotalGrown
<1>9. QED
  BY <1>1, <1>6, <1>8 DEF w, hs, hw

LEMMA NewChunk ==
  ASSUME NEW p \in Fitting, NEW tail \in Int, tail <= Overlap
  PROVE  /\ Chunk(<<p>>, tail) \in Fine
         /\ Total(CharsIn(Chunk(<<p>>, tail).pieces)) = p.chars /\ p.chars \in Int
<1>1. p.length \in Int /\ p.chars \in Int /\ p.length <= ChunkSize /\ p = Piece(p.length, p.chars)
  BY DEF Fitting, Piece
<1> DEFINE s == <<p>>
<1>2. s \in Seq(Fitting) /\ Len(s) = 1
  OBVIOUS
<1>3. Total(Lengths(s)) = p.length /\ Total(CharsIn(s)) = p.chars
  <2>1. s = <<Piece(p.length, p.chars)>>
    BY <1>1
  <2> HIDE DEF s
  <2>2. QED
    BY <1>1, <2>1, OnePiece
<1> HIDE DEF s
<1>4. ChunkLength(Chunk(s, tail)) = p.length + 2 * (Len(s) - 1) + (IF tail = 0 THEN 0 ELSE tail + 2)
  BY <1>2, <1>3, LengthOfChunk
<1>5. ChunkLength(Chunk(s, tail)) <= ChunkSize + Overlap + 2
  BY <1>1, <1>2, <1>4, TextFacts
<1>6. Chunk(s, tail) \in Fine
  BY <1>2, <1>5, ChunkIsFine
<1>7. Chunk(s, tail).pieces = s
  BY DEF Chunk
<1>8. QED
  BY <1>1, <1>3, <1>6, <1>7 DEF s

(* Packing a piece keeps the chunks fine, and what they hold. *)
LEMMA PackKeeps ==
  ASSUME NEW packed \in Packing, NEW p \in Fitting
  PROVE  Pack(packed, p) \in Packing /\ Amount(Pack(packed, p)) = Amount(packed) + p.chars
<1> DEFINE current == packed.current
           chunks == packed.chunks
           packs == Pack(packed, p)
<1>1. /\ current \in Fine /\ chunks \in Seq(Fine)
      /\ packed = [chunks |-> chunks, current |-> current]
  BY DEF Packing
<1>2. /\ current.pieces \in Seq(Fitting) /\ current.tail \in Int
      /\ current = Chunk(current.pieces, current.tail)
      /\ ChunkLength(current) \in Int
  BY <1>1, FineIsChunk
<1>3. Total(Held(chunks)) \in Int /\ Total(CharsIn(current.pieces)) \in Int
  BY <1>1, <1>2, HeldType, Measured, TotalType
<1>4. p.length \in Int /\ p.chars \in Int
  BY DEF Fitting
<1>5. Amount(packed) = Total(Held(chunks)) + Total(CharsIn(current.pieces))
  BY DEF Amount
<1> DEFINE ahead == Total(Held(chunks))
           here == Total(CharsIn(current.pieces))
<1>6. CASE current.pieces = <<>>
  <2> DEFINE new == Chunk(<<p>>, 0)
  <2>1. packs = [chunks |-> chunks, current |-> new]
    BY <1>1, <1>6 DEF Pack
  <2>2. new \in Fine /\ Total(CharsIn(new.pieces)) = p.chars
    BY NewChunk, TextFacts
  <2>3. here = 0
    <3>1. Len(current.pieces) = 0
      BY <1>6
    <3>2. CharsIn(current.pieces) \in Seq(Int) /\ Len(CharsIn(current.pieces)) = 0
      BY <1>2, <3>1, Measured
    <3>3. QED
      BY <3>2, TotalType
  <2> HIDE DEF new, packs, ahead, here, chunks, current
  <2>4. packs \in Packing
    BY <1>1, <2>1, <2>2 DEF Packing
  <2>5. Amount(packs) = Total(Held(chunks)) + Total(CharsIn(new.pieces))
    BY <2>1 DEF Amount
  <2>6. Amount(packs) = Amount(packed) + p.chars
    BY <1>3, <1>4, <1>5, <2>2, <2>3, <2>5 DEF here
  <2>7. QED
    BY <2>4, <2>6 DEF packs
<1>7. CASE current.pieces # <<>> /\ ChunkLength(current) + p.length + 2 <= ChunkSize
  <2> DEFINE pieces == Append(current.pieces, p)
             new == Chunk(pieces, current.tail)
  <2>1. packs = [chunks |-> chunks, current |-> new]
    <3>1. packs = [packed EXCEPT !.current.pieces = Append(@, p)]
      BY <1>7 DEF Pack
    <3>2. packs = [chunks |-> chunks, current |-> [current EXCEPT !.pieces = pieces]]
      BY <1>1, <3>1
    <3>3. [current EXCEPT !.pieces = pieces] = new
      <4> HIDE DEF current, pieces
      <4>1. current = [pieces |-> current.pieces, tail |-> current.tail]
        BY <1>2 DEF Chunk
      <4>2. QED
        BY <4>1 DEF Chunk
    <3>4. QED
      BY <3>2, <3>3
  <2>2. pieces \in Seq(Fitting) /\ Len(pieces) = Len(current.pieces) + 1 /\ Len(current.pieces) \in Nat
    BY <1>2, AppendProperties
  <2>3. /\ Total(Lengths(pieces)) = Total(Lengths(current.pieces)) + p.length
        /\ Total(CharsIn(pieces)) = here + p.chars
    BY <1>2, MeasuredAppend
  <2>4. new.pieces = pieces
    BY DEF Chunk
  <2>5. new \in Fine
    <3> HIDE DEF pieces, current
    <3> DEFINE t == IF current.tail = 0 THEN 0 ELSE current.tail + 2
               a == Total(Lengths(current.pieces))
               n == Len(current.pieces)
    <3>1. ChunkLength(current) = a + 2 * (n - 1) + t
      <4>1. ChunkLength(Chunk(current.pieces, current.tail)) = a + 2 * (n - 1) + t
        BY <1>2, LengthOfChunk
      <4>2. QED
        BY <1>2, <4>1
    <3>2. ChunkLength(new) = (a + p.length) + 2 * ((n + 1) - 1) + t
      <4>1. ChunkLength(new) = Total(Lengths(pieces)) + 2 * (Len(pieces) - 1) + t
        BY <1>2, <2>2, LengthOfChunk
      <4>2. QED
        BY <2>2, <2>3, <4>1
    <3>3. a \in Int /\ n \in Nat /\ t \in Int
      BY <1>2, Measured, TotalType
    <3> HIDE DEF a, n, t, new
    <3>4. ChunkLength(new) <= ChunkSize + Overlap + 2
      BY <1>4, <1>7, <3>1, <3>2, <3>3, TextFacts
    <3>5. QED
      BY <1>2, <2>2, <3>4, ChunkIsFine DEF new
  <2> HIDE DEF new, packs, ahead, here, chunks, current, pieces
  <2>6. packs \in Packing
    BY <1>1, <2>1, <2>5 DEF Packing
  <2>7. Amount(packs) = Total(Held(chunks)) + Total(CharsIn(new.pieces))
    BY <2>1 DEF Amount
  <2>8. Amount(packs) = Amount(packed) + p.chars
    BY <1>3, <1>4, <1>5, <2>3, <2>4, <2>7 DEF here
  <2>9. QED
    BY <2>6, <2>8 DEF packs
<1>8. CASE current.pieces # <<>> /\ ~ (ChunkLength(current) + p.length + 2 <= ChunkSize)
  <2> DEFINE tail == Least(Overlap, ChunkLength(current))
             new == Chunk(<<p>>, tail)
             done == Append(chunks, current)
  <2>1. packs = [chunks |-> done, current |-> new]
    BY <1>8 DEF Pack
  <2>2. tail \in Int /\ tail <= Overlap
    <3>1. Overlap \in Int /\ ChunkLength(current) \in Int
      BY <1>2, TextFacts
    <3>2. QED
      BY <3>1, LeastFacts
  <2>3. new \in Fine /\ Total(CharsIn(new.pieces)) = p.chars
    <3> HIDE DEF tail
    <3>1. QED
      BY <2>2, NewChunk
  <2>4. done \in Seq(Fine) /\ Total(Held(done)) = ahead + here
    BY <1>1, HeldAppend
  <2> HIDE DEF new, packs, ahead, here, chunks, current, tail, done
  <2>5. packs \in Packing
    BY <2>1, <2>3, <2>4 DEF Packing
  <2>6. Amount(packs) = Total(Held(done)) + Total(CharsIn(new.pieces))
    BY <2>1 DEF Amount
  <2>7. Amount(packs) = Amount(packed) + p.chars
    BY <1>3, <1>4, <1>5, <2>3, <2>4, <2>6 DEF here, ahead
  <2>8. QED
    BY <2>5, <2>7 DEF packs
<1>9. QED
  BY <1>6, <1>7, <1>8

(* What packing the pieces of a text goes through. *)
LEMMA PackedIs ==
  ASSUME NEW text \in Seq(Seq(Nat \ {0})), text # <<>>
  PROVE  Packed(text) \in Seq(Fine) /\ Total(Held(Packed(text))) = Chars(text)
<1> DEFINE pieces == Split(text)
           n == Len(pieces)
           X == Packing
           base == [chunks |-> <<>>, current |-> Chunk(<<>>, 0)]
           step == [a \in X |-> [k \in 1..n |-> Pack(a, pieces[k])]]
           Is(f) == f = [k \in 0..n |-> IF k = 0 THEN base ELSE Pack(f[k - 1], pieces[k])]
           chars == CharsIn(pieces)
<1>1. /\ pieces \in Seq(Fitting) /\ n \in Nat /\ \A k \in 1..n : pieces[k] \in Fitting
      /\ Total(chars) = Chars(text) /\ Chars(text) \in Int
  <2>1. pieces \in Seq(Fitting) /\ Total(chars) = Chars(text) /\ Chars(text) \in Int
    BY TextIsSplit
  <2> HIDE DEF pieces
  <2>2. QED
    BY <2>1
<1> HIDE DEF pieces
<1>2. base \in X /\ Amount(base) = 0
  <2> DEFINE e == <<>>
             zero == 0
             none == Chunk(e, zero)
  <2>1. e \in Seq(Fitting) /\ e \in Seq(Fine) /\ Len(e) = 0 /\ zero \in Int
    OBVIOUS
  <2> HIDE DEF e, zero
  <2>2. Total(Lengths(e)) = 0 /\ Total(CharsIn(e)) = 0 /\ Total(Held(e)) = 0
    BY <2>1, Measured, HeldType, TotalType
  <2>3. ChunkLength(none) = Total(Lengths(e)) + 2 * (Len(e) - 1) + (IF zero = 0 THEN 0 ELSE zero + 2)
    BY <2>1, LengthOfChunk
  <2>4. none \in Fine
    <3>1. ChunkLength(none) <= ChunkSize + Overlap + 2
      BY <2>1, <2>2, <2>3, TextFacts DEF zero
    <3>2. QED
      BY <2>1, <3>1, ChunkIsFine
  <2>5. none.pieces = e
    BY DEF Chunk
  <2> HIDE DEF none
  <2>6. base = [chunks |-> e, current |-> none]
    BY DEF none, e, zero
  <2> HIDE DEF base
  <2>7. base \in X
    BY <2>1, <2>4, <2>6 DEF Packing
  <2>8. Amount(base) = 0
    BY <2>2, <2>5, <2>6 DEF Amount
  <2>9. QED
    BY <2>7, <2>8
<1> HIDE DEF base
<1>3. \A a \in X : \A k \in 1..n : Pack(a, pieces[k]) \in X /\ step[a][k] = Pack(a, pieces[k])
  <2> SUFFICES ASSUME NEW a \in X, NEW k \in 1..n
               PROVE  Pack(a, pieces[k]) \in X /\ step[a][k] = Pack(a, pieces[k])
    OBVIOUS
  <2>1. Pack(a, pieces[k]) \in X
    BY <1>1, PackKeeps
  <2>2. step[a][k] = Pack(a, pieces[k])
    OBVIOUS
  <2>3. QED
    BY <2>1, <2>2
<1>4. \E g : Builds(g, n, X, base, step)
  <2>1. \A a \in X : \A k \in 1..n : step[a][k] \in X
    BY <1>3
  <2> HIDE DEF n, X, step
  <2>2. QED
    BY <1>1, <1>2, <2>1, StepByStep, Zenon
<1>5. PICK g : Builds(g, n, X, base, step)
  BY <1>4
<1>6. /\ g \in [0..n -> X] /\ g[0] = base
      /\ \A k \in 1..n : g[k] = Pack(g[k - 1], pieces[k])
  <2>1. /\ g \in [0..n -> X] /\ g[0] = base
        /\ \A k \in 1..n : g[k] = step[g[k - 1]][k]
    BY <1>5 DEF Builds
  <2>2. ASSUME NEW k \in 1..n
        PROVE  g[k] = Pack(g[k - 1], pieces[k])
    <3>1. k - 1 \in 0..n
      BY <1>1
    <3>2. g[k - 1] \in X
      BY <2>1, <3>1
    <3>3. step[g[k - 1]][k] = Pack(g[k - 1], pieces[k])
      BY <1>3, <3>2
    <3>4. QED
      BY <2>1, <3>3
  <2>3. QED
    BY <2>1, <2>2
<1> HIDE DEF step
<1>7. Is(g)
  <2>1. g = [k \in 0..n |-> g[k]]
    BY <1>6
  <2>2. \A k \in 0..n : g[k] = (IF k = 0 THEN base ELSE Pack(g[k - 1], pieces[k]))
    <3>1. \A k \in 0..n : k = 0 \/ k \in 1..n
      BY <1>1
    <3>2. QED
      BY <1>6, <3>1
  <2>3. [k \in 0..n |-> g[k]] = [k \in 0..n |-> IF k = 0 THEN base ELSE Pack(g[k - 1], pieces[k])]
    BY <2>2
  <2>4. QED
    BY <2>1, <2>3
<1> DEFINE packed == CHOOSE f : Is(f)
<1>8. Is(packed)
  <2> HIDE DEF Is
  <2>1. QED
    BY <1>7
<1>9. Packed(text) = Append(packed[n].chunks, packed[n].current)
  BY DEF Packed, pieces, base
<1> HIDE DEF packed
<1>10. \A k \in 0..n : packed[k] = (IF k = 0 THEN base ELSE Pack(packed[k - 1], pieces[k]))
  <2> DEFINE rest == [k \in 0..n |-> IF k = 0 THEN base ELSE Pack(packed[k - 1], pieces[k])]
  <2>1. packed = rest
    BY <1>8
  <2>2. \A k \in 0..n : rest[k] = (IF k = 0 THEN base ELSE Pack(packed[k - 1], pieces[k]))
    OBVIOUS
  <2> HIDE DEF rest
  <2>3. QED
    BY <2>1, <2>2, Zenon
<1> HIDE DEF Is
<1>11. /\ chars \in Seq(Int) /\ Len(chars) = n
       /\ \A k \in 1..n : chars[k] = pieces[k].chars
  BY <1>1, Measured
<1> HIDE DEF chars
<1>12. PICK s : Sums(s, chars) /\ Total(chars) = s[n]
  BY <1>11, TotalIs
<1>13. s[0] = 0 /\ \A k \in 1..n : s[k] = s[k - 1] + chars[k]
  BY <1>11, <1>12, SumsType
<1> HIDE DEF n, X
<1> DEFINE T == {k \in 0..n : packed[k] \in X /\ Amount(packed[k]) = s[k]}
<1>14. 0 \in T
  <2>1. 0 \in 0..n
    BY <1>1
  <2>2. packed[0] = base
    BY <1>10, <2>1
  <2>3. QED
    BY <1>2, <1>13, <2>1, <2>2
<1>15. ASSUME NEW k \in 1..n, k - 1 \in T
       PROVE  k \in T
  <2>1. k \in 0..n /\ k # 0
    BY <1>1
  <2>2. packed[k] = Pack(packed[k - 1], pieces[k])
    BY <1>10, <2>1
  <2>3. packed[k - 1] \in X /\ Amount(packed[k - 1]) = s[k - 1]
    BY <1>15
  <2>4. /\ Pack(packed[k - 1], pieces[k]) \in X
        /\ Amount(Pack(packed[k - 1], pieces[k])) = Amount(packed[k - 1]) + pieces[k].chars
    BY <1>1, <2>3, PackKeeps DEF X
  <2>5. Amount(packed[k]) = s[k]
    BY <1>11, <1>13, <2>2, <2>3, <2>4
  <2>6. QED
    BY <2>1, <2>2, <2>4, <2>5
<1>16. \A k \in 0..n : k \in T
  <2> HIDE DEF T
  <2>1. QED
    BY <1>1, <1>14, <1>15, Climbs
<1>17. packed[n] \in X /\ Amount(packed[n]) = s[n]
  <2>1. n \in 0..n
    BY <1>1
  <2>2. n \in T
    BY <1>16, <2>1
  <2>3. QED
    BY <2>2
<1>18. packed[n].chunks \in Seq(Fine) /\ packed[n].current \in Fine
  BY <1>17 DEF X, Packing
<1>19. /\ Packed(text) \in Seq(Fine)
       /\ Total(Held(Packed(text))) =
            Total(Held(packed[n].chunks)) + Total(CharsIn(packed[n].current.pieces))
  BY <1>9, <1>18, HeldAppend
<1>20. QED
  BY <1>1, <1>12, <1>17, <1>19 DEF Amount

LEMMA TextLengthType ==
  ASSUME NEW text \in Seq(Seq(Nat \ {0}))
  PROVE  TextLength(text) \in Int
<1> DEFINE s == [k \in DOMAIN text |-> ParagraphLength(text[k])]
<1>1. /\ Len(text) \in Nat /\ DOMAIN text = 1..Len(text)
      /\ \A k \in 1..Len(text) : text[k] \in Seq(Int) /\ Len(text[k]) \in Nat
  OBVIOUS
<1>2. \A k \in 1..Len(text) : ParagraphLength(text[k]) \in Int
  <2> SUFFICES ASSUME NEW k \in 1..Len(text)
               PROVE  ParagraphLength(text[k]) \in Int
    OBVIOUS
  <2>1. text[k] \in Seq(Int) /\ Len(text[k]) \in Nat
    BY <1>1
  <2>2. Total(text[k]) \in Int
    BY <2>1, TotalType
  <2>3. QED
    BY <2>1, <2>2 DEF ParagraphLength
<1>3. s \in [1..Len(text) -> Int]
  BY <1>1, <1>2
<1> HIDE DEF s
<1>4. Total(s) \in Int
  BY <1>1, <1>3, SequenceIs, TotalType
<1>5. QED
  BY <1>1, <1>4 DEF TextLength, s

(* Every text is cut into fine chunks that hold all of it. *)
LEMMA BodyIsCut ==
  ASSUME NEW b \in Body
  PROVE  /\ ChunksOf[b] \in Seq(Fine)
         /\ Total(Held(ChunksOf[b])) = Chars(Text[b])
<1> DEFINE text == Text[b]
<1>1. text \in Seq(Seq(Nat \ {0}))
  BY TextFacts
<1>2. ChunksOf[b] = IF text = <<>> THEN <<>>
                    ELSE IF TextLength(text) <= ChunkSize
                    THEN <<Chunk(<<Piece(TextLength(text), Chars(text))>>, 0)>>
                    ELSE Packed(text)
  BY DEF ChunksOf
<1> HIDE DEF text
<1>3. CASE text = <<>>
  <2>1. <<>> \in Seq(Fine) /\ Len(<<>>) = 0
    OBVIOUS
  <2>2. Total(Held(<<>>)) = 0
    BY <2>1, HeldType, TotalType
  <2>3. Chars(text) = 0
    <3> DEFINE s == [k \in DOMAIN text |-> Total(text[k])]
    <3>1. s \in [1..0 -> Int]
      BY <1>3
    <3>2. Chars(text) = Total(s)
      BY DEF Chars
    <3> HIDE DEF s
    <3>3. s \in Seq(Int) /\ Len(s) = 0
      BY <3>1, SequenceIs
    <3>4. QED
      BY <3>2, <3>3, TotalType
  <2>4. QED
    BY <1>2, <1>3, <2>1, <2>2, <2>3 DEF text
<1>4. CASE text # <<>> /\ TextLength(text) <= ChunkSize
  <2> DEFINE p == Piece(TextLength(text), Chars(text))
             c == Chunk(<<p>>, 0)
  <2>1. TextLength(text) \in Int /\ Chars(text) \in Int
    BY <1>1, <1>4, TextLengthType, TextIsSplit
  <2>2. p \in Fitting /\ p.chars = Chars(text)
    BY <1>4, <2>1 DEF Piece, Fitting
  <2> HIDE DEF p
  <2>3. c \in Fine /\ Total(CharsIn(c.pieces)) = Chars(text)
    BY <2>2, NewChunk, TextFacts
  <2> HIDE DEF c
  <2>4. <<c>> \in Seq(Fine) /\ Len(<<c>>) = 1 /\ <<c>>[1] = c
    BY <2>3
  <2>5. Total(Held(<<c>>)) = Chars(text)
    <3> DEFINE cs == <<c>>
    <3>1. cs \in Seq(Fine) /\ Len(cs) = 1 /\ cs[1] = c
      BY <2>4
    <3> HIDE DEF cs
    <3>2. Held(cs) \in Seq(Int) /\ Len(Held(cs)) = 1 /\ Held(cs)[1] = Total(CharsIn(c.pieces))
      BY <3>1, HeldType
    <3>3. Total(Held(cs)) = Held(cs)[1]
      BY <3>2, TotalType
    <3>4. QED
      BY <2>3, <3>2, <3>3 DEF cs
  <2>6. ChunksOf[b] = <<c>>
    BY <1>2, <1>4 DEF c, p
  <2>7. QED
    BY <2>4, <2>5, <2>6 DEF text
<1>5. CASE text # <<>> /\ ~ (TextLength(text) <= ChunkSize)
  <2>1. ChunksOf[b] = Packed(text)
    BY <1>2, <1>5
  <2>2. QED
    BY <1>1, <1>5, <2>1, PackedIs DEF text
<1>6. QED
  BY <1>3, <1>4, <1>5

-----------------------------------------------------------------------------
(***************************************************************************)
(* Batches: the vectors of an answer are put in the order of the texts.    *)
(***************************************************************************)

(* Every complete answer puts the vectors in the order of the texts. *)
Spot(answer, p) == IF answer[p].index = 0 THEN p ELSE answer[p].index

(* Every text has one vector. *)
LEMMA PlacedOnce ==
  ASSUME NEW V, NEW batch \in Seq(V), NEW answer, NEW n \in Nat, n = Len(batch),
         DOMAIN answer = 1..n,
         NEW at \in [1..n -> 1..n],
         \A k \in 1..n : Spot(answer, at[k]) = k /\ answer[at[k]].vector = batch[k],
         \A p \in 1..n : p = at[Spot(answer, p)]
  PROVE  Ordered(answer) = batch
<1> DEFINE ordered == Ordered(answer)
<1>1. /\ DOMAIN batch = 1..n
      /\ batch = [k \in 1..n |-> batch[k]]
  OBVIOUS
<1>2. ASSUME NEW k \in 1..n
      PROVE  answer[CHOOSE p \in 1..n : Spot(answer, p) = k].vector = batch[k]
  <2> DEFINE q == CHOOSE p \in 1..n : Spot(answer, p) = k
  <2>1. at[k] \in 1..n /\ Spot(answer, at[k]) = k
    OBVIOUS
  <2>2. q \in 1..n /\ Spot(answer, q) = k
    <3>1. \E p \in 1..n : Spot(answer, p) = k
      BY <2>1, Zenon
    <3>2. QED
      BY <3>1, Zenon
  <2> HIDE DEF q
  <2>3. q = at[k]
    BY <2>2
  <2>4. answer[q].vector = batch[k]
    BY <2>3
  <2>5. QED
    BY <2>4 DEF q
<1>3. ordered = [k \in 1..n |-> answer[CHOOSE p \in 1..n : Spot(answer, p) = k].vector]
  BY DEF Ordered, Spot
<1>4. [k \in 1..n |-> answer[CHOOSE p \in 1..n : Spot(answer, p) = k].vector] = [k \in 1..n |-> batch[k]]
  BY <1>2
<1>5. QED
  BY <1>1, <1>3, <1>4

LEMMA OrderedIs ==
  ASSUME NEW V, NEW batch \in Seq(V), NEW answer \in Answers(batch), Complete(batch, answer)
  PROVE  Ordered(answer) = batch
<1> DEFINE n == Len(batch)
<1>1. n \in Nat /\ DOMAIN batch = 1..n
  OBVIOUS
<1> HIDE DEF n
<1>2. CASE answer = [k \in DOMAIN batch |-> Entry(0, batch[k])]
  <2> DEFINE at == [k \in 1..n |-> k]
  <2>1. DOMAIN answer = 1..n /\ at \in [1..n -> 1..n]
    BY <1>1, <1>2
  <2>2. ASSUME NEW k \in 1..n
        PROVE  Spot(answer, k) = k /\ answer[k].vector = batch[k] /\ at[k] = k
    <3>1. answer[k] = Entry(0, batch[k])
      BY <1>1, <1>2
    <3>2. answer[k].index = 0 /\ answer[k].vector = batch[k]
      BY <3>1 DEF Entry
    <3>3. QED
      BY <3>2 DEF Spot
  <2>3. /\ \A k \in 1..n : Spot(answer, at[k]) = k /\ answer[at[k]].vector = batch[k]
        /\ \A p \in 1..n : p = at[Spot(answer, p)]
    BY <2>2
  <2> HIDE DEF at
  <2>4. QED
    BY <1>1, <2>1, <2>3, PlacedOnce, Zenon DEF n
<1>3. CASE answer = [k \in DOMAIN batch |-> Entry(Len(batch) + 1 - k, Reverse(batch)[k])]
  <2> DEFINE at == [k \in 1..n |-> n + 1 - k]
  <2>1. DOMAIN answer = 1..n /\ at \in [1..n -> 1..n]
    <3>1. \A k \in 1..n : n + 1 - k \in 1..n
      BY <1>1
    <3>2. QED
      BY <1>1, <1>3, <3>1
  <2>2. ASSUME NEW k \in 1..n
        PROVE  /\ Spot(answer, k) = n + 1 - k /\ answer[k].vector = batch[n + 1 - k]
               /\ at[k] = n + 1 - k /\ n + 1 - k \in 1..n /\ n + 1 - (n + 1 - k) = k
    <3>1. answer[k] = Entry(n + 1 - k, Reverse(batch)[k])
      BY <1>1, <1>3 DEF n
    <3>2. Reverse(batch)[k] = batch[n + 1 - k]
      <4>1. Reverse(batch) = [i \in 1..n |-> batch[(n - i) + 1]]
        BY DEF Reverse, n
      <4>2. (n - k) + 1 = n + 1 - k
        BY <1>1
      <4>3. QED
        BY <4>1, <4>2
    <3>3. n + 1 - k \in 1..n /\ n + 1 - k # 0 /\ n + 1 - (n + 1 - k) = k
      BY <1>1
    <3>4. answer[k].index = n + 1 - k /\ answer[k].vector = batch[n + 1 - k]
      BY <3>1, <3>2 DEF Entry
    <3>5. Spot(answer, k) = n + 1 - k
      BY <3>3, <3>4 DEF Spot
    <3>6. QED
      BY <3>3, <3>4, <3>5
  <2>3. \A k \in 1..n : Spot(answer, at[k]) = k /\ answer[at[k]].vector = batch[k]
    BY <2>2
  <2>4. \A p \in 1..n : p = at[Spot(answer, p)]
    BY <2>2
  <2> HIDE DEF at
  <2>5. QED
    BY <1>1, <2>1, <2>3, <2>4, PlacedOnce, Zenon DEF n
<1>4. CASE answer = [k \in 1..(Len(batch) - 1) |-> Entry(k, batch[k])]
  <2>1. Len(answer) = n
    BY DEF Complete, n
  <2>2. n = 0
    <3>1. CASE n > 0
      <4>1. n - 1 \in Nat /\ answer = [k \in 1..(n - 1) |-> Entry(k, batch[k])]
        BY <1>1, <1>4, <3>1 DEF n
      <4>2. Len(answer) = n - 1
        BY <4>1
      <4>3. QED
        BY <1>1, <2>1, <4>2
    <3>2. QED
      BY <1>1, <3>1
  <2>3. DOMAIN answer = 1..n /\ [k \in 1..0 |-> k] \in [1..n -> 1..n]
    BY <1>4, <2>2 DEF n
  <2>4. QED
    <3> DEFINE at == [k \in 1..0 |-> k]
    <3>1. /\ at \in [1..n -> 1..n]
          /\ \A k \in 1..n : Spot(answer, at[k]) = k /\ answer[at[k]].vector = batch[k]
          /\ \A p \in 1..n : p = at[Spot(answer, p)]
      BY <2>2, <2>3
    <3> HIDE DEF at
    <3>2. QED
      BY <1>1, <2>3, <3>1, PlacedOnce, Zenon DEF n
<1>5. QED
  BY <1>2, <1>3, <1>4 DEF Answers

(* The vectors there are: those of the first texts, in order. *)
Begins(vectors, texts) ==
    /\ Len(vectors) \in Nat /\ Len(vectors) <= Len(texts)
    /\ vectors = SubSeq(texts, 1, Len(vectors))

LEMMA BatchContinues ==
  ASSUME NEW V, NEW texts \in Seq(V), NEW vectors, Begins(vectors, texts),
         NEW answer \in Answers(Batch(texts, Len(vectors))),
         Complete(Batch(texts, Len(vectors)), answer)
  PROVE  Begins(vectors \o Ordered(answer), texts)
<1> DEFINE d == Len(vectors)
           batch == Batch(texts, d)
           e == Least(Len(texts), d + BatchSize)
<1>1. /\ Len(texts) \in Nat /\ d \in Nat /\ d <= Len(texts)
      /\ \A k \in 1..Len(texts) : texts[k] \in V
  BY DEF Begins
<1>2. e \in Nat /\ d <= e /\ e <= Len(texts)
  BY <1>1, TextFacts DEF Least
<1>3. batch = SubSeq(texts, d + 1, e)
  BY DEF Batch
<1>4. vectors = SubSeq(texts, 1, d)
  BY DEF Begins
<1> HIDE DEF e, d
<1>5. /\ batch \in Seq(V) /\ Len(batch) = e - d
      /\ \A k \in 1..(e - d) : batch[k] = texts[d + k]
  <2>1. \A k \in (d + 1)..e : texts[k] \in V
    BY <1>1, <1>2
  <2>2. /\ SubSeq(texts, d + 1, e) \in Seq(V)
        /\ Len(SubSeq(texts, d + 1, e)) = (IF d + 1 <= e THEN e - (d + 1) + 1 ELSE 0)
        /\ \A k \in 1..(e - (d + 1) + 1) : SubSeq(texts, d + 1, e)[k] = texts[(d + 1) + k - 1]
    BY <1>1, <1>2, <2>1, SubSeqProperties
  <2>3. e - (d + 1) + 1 = e - d /\ \A k \in 1..(e - d) : (d + 1) + k - 1 = d + k
    BY <1>1, <1>2
  <2> HIDE DEF batch
  <2>4. QED
    BY <1>1, <1>2, <1>3, <2>2, <2>3
<1>6. Ordered(answer) = batch
  BY <1>5, OrderedIs DEF d
<1> HIDE DEF batch
<1>7. /\ vectors \in Seq(V) /\ Len(vectors) = d
      /\ \A k \in 1..d : vectors[k] = texts[k]
  <2>1. \A k \in 1..d : texts[k] \in V
    BY <1>1
  <2>2. /\ SubSeq(texts, 1, d) \in Seq(V)
        /\ \A k \in 1..(d - 1 + 1) : SubSeq(texts, 1, d)[k] = texts[1 + k - 1]
    BY <1>1, <2>1, SubSeqProperties
  <2>3. d - 1 + 1 = d /\ \A k \in 1..d : 1 + k - 1 = k
    BY <1>1
  <2>4. Len(vectors) = d
    BY DEF d
  <2>5. QED
    BY <1>4, <2>2, <2>3, <2>4
<1> DEFINE w == vectors \o batch
           x == SubSeq(texts, 1, e)
<1>8. /\ w \in Seq(V) /\ Len(w) = e
      /\ \A k \in 1..e : w[k] = IF k <= d THEN vectors[k] ELSE batch[k - d]
  <2>1. /\ w \in Seq(V) /\ Len(w) = Len(vectors) + Len(batch)
        /\ \A k \in 1..(Len(vectors) + Len(batch)) :
             w[k] = IF k <= Len(vectors) THEN vectors[k] ELSE batch[k - Len(vectors)]
    BY <1>5, <1>7, ConcatProperties
  <2>2. Len(vectors) + Len(batch) = e
    BY <1>1, <1>2, <1>5, <1>7
  <2> HIDE DEF w
  <2>3. QED
    BY <1>7, <2>1, <2>2
<1>9. /\ x \in Seq(V) /\ Len(x) = e
      /\ \A k \in 1..e : x[k] = texts[k]
  <2>1. \A k \in 1..e : texts[k] \in V
    BY <1>1, <1>2
  <2>2. /\ x \in Seq(V) /\ Len(x) = (IF 1 <= e THEN e - 1 + 1 ELSE 0)
        /\ \A k \in 1..(e - 1 + 1) : x[k] = texts[1 + k - 1]
    BY <1>1, <1>2, <2>1, SubSeqProperties
  <2>3. e - 1 + 1 = e /\ \A k \in 1..e : 1 + k - 1 = k
    BY <1>2
  <2> HIDE DEF x
  <2>4. QED
    BY <1>2, <2>2, <2>3
<1> HIDE DEF w, x
<1>10. \A k \in 1..e : w[k] = x[k]
  <2> SUFFICES ASSUME NEW k \in 1..e
               PROVE  w[k] = x[k]
    OBVIOUS
  <2>1. CASE k <= d
    <3>1. k \in 1..d
      BY <1>1, <2>1
    <3>2. QED
      BY <1>7, <1>8, <1>9, <2>1, <3>1
  <2>2. CASE ~ (k <= d)
    <3>1. k - d \in 1..(e - d) /\ d + (k - d) = k
      BY <1>1, <1>2, <2>2
    <3>2. QED
      BY <1>5, <1>8, <1>9, <2>2, <3>1
  <2>3. QED
    BY <2>1, <2>2
<1>11. w = x
  BY <1>8, <1>9, <1>10, SeqEqual
<1>12. Begins(w, texts)
  BY <1>2, <1>8, <1>11 DEF Begins, x
<1>13. QED
  BY <1>6, <1>12 DEF w

-----------------------------------------------------------------------------
(***************************************************************************)
(* The inductive invariant: the store, the world, and the calls in         *)
(* between.                                                                *)
(***************************************************************************)

Stages == {"idle", "source", "list", "read", "existing", "embedder", "embed", "commit", "search", "done"}

Outcomes == {"none", "nowhere", "imported", "failed", "unchanged", "written", "answered", "already"}

Vector == Body \X Nat

HitSet == [document : Nat, source : Nat, importance : Importance, vector : Vector]

Asks == [task : Task, at : Stages, ids : SUBSET Nat, purpose : {"query", "document"},
         body : Body, external : External \cup {"none"}, importance : Importance,
         todo : Seq(External), vectors : Seq(Vector), hits : SUBSET HitSet,
         failed : SUBSET External, bare : SUBSET External, outcome : Outcomes, quiet : BOOLEAN]

Texts(ask) == IF ask.purpose = "query" THEN Query(ask.body) ELSE Pieces(ask.body)

(* A call's locals, when n rows were inserted so far. *)
AskFine(ask, n) ==
    /\ ask \in Asks /\ ask.ids \subseteq 1..n
    /\ Begins(ask.vectors, Texts(ask))
    /\ ask.task = "import" => ask.purpose = "document"
    /\ ask.task = "search" /\ ask.at \in {"embedder", "embed"} => ask.purpose = "query"
    /\ ask.at \in {"list", "read"} => ask.task = "import"
    /\ ask.at \in {"existing", "commit"} => ask.task # "search"
    /\ ask.at \in {"source", "list", "read"} => ask.vectors = <<>>
    /\ ask.at = "search" => ask.purpose = "query"
    /\ ask.task = "import" /\ ask.at \in {"existing", "embedder", "embed", "commit"} => ask.todo # <<>>
    /\ ask.at = "commit" => ask.purpose = "document" /\ Len(ask.vectors) = Len(Texts(ask))

Whole(b) == [k \in DOMAIN Pieces(b) |-> [text |-> <<b, k>>, vector |-> <<b, k>>]]

DocumentFine(d) ==
    /\ d.id \in 1..made /\ d.body \in Body /\ d.importance \in Importance
    /\ d.provenance \in Range(Provenance) /\ d.external \in External \cup {"none"}
    /\ d.source \in Live /\ d.chunks = Whole(d.body)

OncePerResource ==
    \A d, e \in documents :
        d.id = e.id \/ (d.source = e.source /\ d.external = e.external
                          /\ d.external # "none") => d = e

StoreInv ==
    /\ made \in Nat /\ sources \in [Slug -> 0..made]
    /\ IsFiniteSet(documents)
    /\ \A d \in documents : DocumentFine(d)
    /\ OncePerResource

WorldInv ==
    /\ key \in {"none", "own", "unsealable"}
    /\ remote \in [External -> Body] /\ cached \in [External -> Snapshot]

AsksInv == call \in [Caller -> Asks] /\ \A c \in Caller : AskFine(call[c], made)

MemoryInv == StoreInv /\ WorldInv /\ AsksInv

(* The constants. *)
LEMMA KnowledgeFacts ==
  /\ Tasks \in [Caller -> SUBSET Task] /\ Says \in [Caller -> SUBSET Body]
  /\ Worth \subseteq Importance /\ Opening \in [External -> Body]
  /\ Granted \subseteq Slug /\ Remembers \in Slug
  /\ Listing \in Seq(External) /\ "none" \notin External /\ Others \subseteq Snapshot
  /\ SearchLimit \in Nat /\ SearchLimit > 0 /\ Body # {}
BY KnowledgeAssumption, TextAssumption

(* The texts a call has embedded. *)
LEMMA TextsOf ==
  ASSUME NEW b \in Body
  PROVE  /\ Pieces(b) \in Seq(Vector) /\ Len(Pieces(b)) = Len(ChunksOf[b])
         /\ DOMAIN Pieces(b) = 1..Len(ChunksOf[b]) /\ Len(ChunksOf[b]) \in Nat
         /\ \A k \in 1..Len(ChunksOf[b]) : Pieces(b)[k] = <<b, k>>
         /\ Query(b) \in Seq(Vector) /\ Len(Query(b)) = 1 /\ Query(b)[1] = <<b, 0>>
<1>1. ChunksOf[b] \in Seq(Fine)
  BY BodyIsCut
<1> DEFINE n == Len(ChunksOf[b])
<1>2. n \in Nat /\ DOMAIN ChunksOf[b] = 1..n
  BY <1>1
<1> HIDE DEF n
<1>3. /\ Pieces(b) \in [1..n -> Vector]
      /\ \A k \in 1..n : Pieces(b)[k] = <<b, k>>
  <2>1. \A k \in 1..n : <<b, k>> \in Vector
    BY <1>2 DEF Vector
  <2>2. Pieces(b) = [k \in 1..n |-> <<b, k>>]
    BY <1>2 DEF Pieces
  <2>3. QED
    BY <2>1, <2>2
<1>4. Pieces(b) \in Seq(Vector) /\ Len(Pieces(b)) = n /\ DOMAIN Pieces(b) = 1..n
  BY <1>2, <1>3, SequenceIs
<1>5. <<b, 0>> \in Vector
  BY DEF Vector
<1>6. Query(b) \in Seq(Vector) /\ Len(Query(b)) = 1 /\ Query(b)[1] = <<b, 0>>
  BY <1>5 DEF Query
<1>7. QED
  BY <1>2, <1>3, <1>4, <1>6 DEF n

LEMMA TextsType ==
  ASSUME NEW ask \in Asks
  PROVE  Texts(ask) \in Seq(Vector) /\ Len(Texts(ask)) \in Nat
<1>1. ask.body \in Body
  BY DEF Asks
<1>2. Texts(ask) \in Seq(Vector)
  BY <1>1, TextsOf DEF Texts
<1>3. QED
  BY <1>2

LEMMA NothingBegins ==
  ASSUME NEW texts \in Seq(Vector)
  PROVE  Begins(<<>>, texts)
<1>1. Len(<<>>) = 0 /\ Len(texts) \in Nat
  OBVIOUS
<1>2. SubSeq(texts, 1, 0) = <<>>
  BY SubSeqEmpty
<1>3. QED
  BY <1>1, <1>2 DEF Begins

LEMMA AllBegun ==
  ASSUME NEW texts \in Seq(Vector), NEW vectors, Begins(vectors, texts), Len(vectors) = Len(texts)
  PROVE  vectors = texts
<1>1. vectors = SubSeq(texts, 1, Len(texts))
  BY DEF Begins
<1>2. SubSeq(texts, 1, Len(texts)) = texts
  BY SubSeqFull
<1>3. QED
  BY <1>1, <1>2

LEMMA AskGrows ==
  ASSUME NEW n \in Nat, NEW m \in Nat, n <= m, NEW ask, AskFine(ask, n)
  PROVE  AskFine(ask, m)
<1>1. \A i \in 1..n : i \in 1..m
  OBVIOUS
<1>2. ask.ids \subseteq 1..m
  BY <1>1 DEF AskFine
<1>3. QED
  BY <1>2 DEF AskFine

LEMMA UnquietIsFine ==
  ASSUME NEW n, NEW ask, AskFine(ask, n)
  PROVE  AskFine([ask EXCEPT !.quiet = FALSE], n)
<1> DEFINE next == [ask EXCEPT !.quiet = FALSE]
<1>1. ask \in Asks
  BY DEF AskFine
<1>2. next \in Asks
  BY <1>1 DEF Asks
<1>3. /\ next.task = ask.task /\ next.at = ask.at /\ next.ids = ask.ids /\ next.purpose = ask.purpose
      /\ next.body = ask.body /\ next.todo = ask.todo /\ next.vectors = ask.vectors
  BY <1>1 DEF Asks
<1> HIDE DEF next
<1>4. Texts(next) = Texts(ask)
  BY <1>3 DEF Texts
<1>5. QED
  BY <1>2, <1>3, <1>4 DEF AskFine, next

LEMMA EndsFine ==
  ASSUME NEW n, NEW ask, AskFine(ask, n), NEW outcome \in Outcomes
  PROVE  AskFine(Ends(ask, outcome), n)
<1> DEFINE next == Ends(ask, outcome)
<1>1. ask \in Asks
  BY DEF AskFine
<1>2. next \in Asks
  BY <1>1 DEF Asks, Ends, Stages
<1>3. /\ next.task = ask.task /\ next.at = "done" /\ next.ids = ask.ids /\ next.purpose = ask.purpose
      /\ next.body = ask.body /\ next.todo = ask.todo /\ next.vectors = ask.vectors
  BY <1>1 DEF Asks, Ends
<1> HIDE DEF next
<1>4. Texts(next) = Texts(ask)
  BY <1>3 DEF Texts
<1>5. QED
  BY <1>2, <1>3, <1>4 DEF AskFine, next

LEMMA BackToReading ==
  ASSUME NEW n, NEW ask, AskFine(ask, n), ask.task = "import", ask.todo # <<>>,
         NEW failed \in SUBSET External,
         NEW next, next = [ask EXCEPT !.at = "read", !.todo = Tail(ask.todo), !.vectors = <<>>,
                                      !.failed = failed]
  PROVE  AskFine(next, n)
<1>1. ask \in Asks /\ ask.todo \in Seq(External)
  BY DEF AskFine, Asks
<1>2. Tail(ask.todo) \in Seq(External) /\ <<>> \in Seq(Vector)
  BY <1>1
<1>3. next \in Asks
  BY <1>1, <1>2 DEF Asks, Stages
<1>4. /\ next.task = "import" /\ next.at = "read" /\ next.ids = ask.ids /\ next.purpose = ask.purpose
      /\ next.body = ask.body /\ next.vectors = <<>>
  BY <1>1 DEF Asks
<1>5. Begins(next.vectors, Texts(next))
  BY <1>3, <1>4, TextsType, NothingBegins
<1>6. QED
  BY <1>3, <1>4, <1>5 DEF AskFine

LEMMA FailingFine ==
  ASSUME NEW n, NEW ask, AskFine(ask, n), ask.task = "import" => ask.todo # <<>>
  PROVE  AskFine(Failing(ask), n)
<1>1. ask \in Asks
  BY DEF AskFine
<1>2. CASE ask.task = "import"
  <2>1. Head(ask.todo) \in External /\ ask.failed \in SUBSET External
    BY <1>1, <1>2 DEF Asks
  <2> DEFINE failed == ask.failed \cup {Head(ask.todo)}
  <2>2. failed \in SUBSET External
    BY <2>1
  <2>3. Failing(ask) = [ask EXCEPT !.at = "read", !.todo = Tail(ask.todo), !.vectors = <<>>, !.failed = failed]
    BY <1>1, <1>2 DEF Failing, Rest, Asks
  <2> HIDE DEF failed
  <2>4. QED
    BY <1>2, <2>2, <2>3, BackToReading
<1>3. CASE ask.task # "import"
  <2>1. Failing(ask) = Ends(ask, "failed")
    BY <1>3 DEF Failing
  <2>2. "failed" \in Outcomes
    BY DEF Outcomes
  <2>3. QED
    BY <2>1, <2>2, EndsFine
<1>4. QED
  BY <1>2, <1>3

LEMMA SucceedingFine ==
  ASSUME NEW n, NEW ask, AskFine(ask, n), ask.task = "import" => ask.todo # <<>>,
         NEW outcome \in Outcomes
  PROVE  AskFine(Succeeding(ask, outcome), n)
<1>1. ask \in Asks
  BY DEF AskFine
<1>2. CASE ask.task = "import"
  <2>1. ask.failed \in SUBSET External
    BY <1>1, <1>2 DEF Asks
  <2>2. Succeeding(ask, outcome) = [ask EXCEPT !.at = "read", !.todo = Tail(ask.todo), !.vectors = <<>>, !.failed = ask.failed]
    BY <1>1, <1>2 DEF Succeeding, Asks
  <2>3. QED
    BY <1>2, <2>1, <2>2, BackToReading
<1>3. CASE ask.task # "import"
  BY <1>3, EndsFine DEF Succeeding
<1>4. QED
  BY <1>2, <1>3

(* A call that goes on over a corpus that stays as it is. *)
LEMMA GoesOver ==
  ASSUME MemoryInv, NEW c \in Caller, NEW next, Goes(c, next), AskFine(next, made),
         UNCHANGED <<corpus, remote, key>>, cached' \in [External -> Snapshot]
  PROVE  MemoryInv'
<1>1. /\ sources' = sources /\ documents' = documents /\ made' = made
      /\ remote' = remote /\ key' = key
  BY DEF corpus
<1>2. StoreInv' /\ WorldInv'
  BY <1>1 DEF MemoryInv, StoreInv, WorldInv, DocumentFine, OncePerResource, Live
<1>3. next \in Asks
  BY DEF AskFine
<1>4. call' = [call EXCEPT ![c] = next] /\ call \in [Caller -> Asks]
  BY DEF Goes, MemoryInv, AsksInv
<1>5. call' \in [Caller -> Asks]
  BY <1>3, <1>4
<1>6. ASSUME NEW d \in Caller
      PROVE  AskFine(call'[d], made')
  <2>1. call'[d] = (IF d = c THEN next ELSE call[d])
    BY <1>4
  <2>2. AskFine(call[d], made)
    BY DEF MemoryInv, AsksInv
  <2>3. QED
    BY <1>1, <2>1, <2>2
<1>7. AsksInv'
  BY <1>5, <1>6 DEF AsksInv
<1>8. QED
  BY <1>2, <1>7 DEF MemoryInv

LEMMA GoesOn ==
  ASSUME MemoryInv, NEW c \in Caller, NEW next, Goes(c, next), AskFine(next, made), Untouched
  PROVE  MemoryInv'
<1>1. UNCHANGED <<corpus, remote, key>> /\ cached' \in [External -> Snapshot]
  BY DEF Untouched, MemoryInv, WorldInv
<1>2. QED
  BY <1>1, GoesOver

LEMMA AskOf ==
  ASSUME MemoryInv, NEW c \in Caller
  PROVE  AskFine(call[c], made) /\ call[c] \in Asks /\ call[c].body \in Body
<1>1. AskFine(call[c], made)
  BY DEF MemoryInv, AsksInv
<1>2. call[c] \in Asks
  BY <1>1 DEF AskFine
<1>3. QED
  BY <1>1, <1>2 DEF Asks

LEMMA OutcomesAre ==
  /\ "nowhere" \in Outcomes /\ "imported" \in Outcomes /\ "failed" \in Outcomes
  /\ "unchanged" \in Outcomes /\ "written" \in Outcomes /\ "answered" \in Outcomes
  /\ "already" \in Outcomes
BY DEF Outcomes

(* A call that has not begun. *)
LEMMA IdleIsFine ==
  ASSUME NEW n
  PROVE  AskFine(Idle, n)
<1> DEFINE b == CHOOSE x \in Body : TRUE
<1>1. b \in Body
  BY KnowledgeFacts
<1> HIDE DEF b
<1>2. Idle = [task |-> "search", at |-> "idle", ids |-> {}, purpose |-> "document", body |-> b,
              external |-> "none", importance |-> 5, todo |-> <<>>, vectors |-> <<>>,
              hits |-> {}, failed |-> {}, bare |-> {}, outcome |-> "none", quiet |-> TRUE]
  BY DEF Idle, b, DefaultImportance
<1>3. Idle \in Asks
  BY <1>1, <1>2 DEF Asks, Task, Stages, Importance, Outcomes
<1>4. /\ Idle.task = "search" /\ Idle.at = "idle" /\ Idle.ids = {} /\ Idle.vectors = <<>>
  BY <1>2
<1>5. Begins(Idle.vectors, Texts(Idle))
  BY <1>3, <1>4, TextsType, NothingBegins
<1>6. QED
  BY <1>3, <1>4, <1>5 DEF AskFine

LEMMA AnyBody == (CHOOSE b \in Body : TRUE) \in Body
<1>1. \E b \in Body : TRUE
  BY KnowledgeFacts
<1>2. QED
  BY <1>1

LEMMA SnapshotsAre ==
  /\ Absent \in Snapshot /\ Stub \in Snapshot /\ Stub.has = "entry"
  /\ \A b \in Body : Full(b) \in Snapshot /\ Full(b).has = "content" /\ Full(b).body = b
<1> DEFINE b == CHOOSE x \in Body : TRUE
<1>1. b \in Body
  BY AnyBody
<1>2. Absent = [has |-> "nothing", body |-> b]
  BY DEF Absent
<1> HIDE DEF b
<1>3. QED
  BY <1>1, <1>2 DEF Stub, Full, Snapshot

(* What a listing and a read leave in the cache. *)
LEMMA CacheKeepsType ==
  ASSUME MemoryInv
  PROVE  /\ Warmed \in [External -> Snapshot]
         /\ \A x \in External : \A snapshot \in Served(x) :
              /\ snapshot \in Snapshot /\ snapshot.has # "nothing"
              /\ [cached EXCEPT ![x] = snapshot] \in [External -> Snapshot]
<1>1. remote \in [External -> Body] /\ cached \in [External -> Snapshot]
  BY DEF MemoryInv, WorldInv
<1>2. Warmed \in [External -> Snapshot]
  BY <1>1, SnapshotsAre DEF Warmed
<1>3. ASSUME NEW x \in External, NEW snapshot \in Served(x)
      PROVE  /\ snapshot \in Snapshot /\ snapshot.has # "nothing"
             /\ [cached EXCEPT ![x] = snapshot] \in [External -> Snapshot]
  <2>1. snapshot \in {Full(remote[x]), cached[x]} /\ snapshot.has # "nothing"
    BY <1>3 DEF Served
  <2>2. snapshot \in Snapshot
    BY <1>1, <2>1, SnapshotsAre
  <2>3. QED
    BY <1>1, <2>1, <2>2
<1>4. QED
  BY <1>2, <1>3

(* What becomes of an import that reads. *)
LEMMA TakesIs ==
  ASSUME NEW ask \in Asks, ask.at = "read", ask.todo # <<>>, NEW snapshot \in Snapshot,
         NEW next, next = Takes(ask, snapshot)
  PROVE  /\ next \in Asks
         /\ next.task = ask.task /\ next.ids = ask.ids /\ next.purpose = ask.purpose
         /\ next.vectors = ask.vectors /\ next.failed = ask.failed /\ next.quiet = ask.quiet
         /\ \/ /\ next.at = "read" /\ next.todo = Tail(ask.todo)
               /\ \/ snapshot.has = "entry" /\ next.bare = ask.bare \cup {Head(ask.todo)}
                  \/ snapshot.has # "entry" /\ Text[snapshot.body] = <<>> /\ next.bare = ask.bare
            \/ /\ next.at = "existing" /\ next.todo = ask.todo /\ next.bare = ask.bare
               /\ next.body = snapshot.body /\ next.external = Head(ask.todo)
               /\ snapshot.has # "entry"
<1>1. ask.todo \in Seq(External) /\ ask.bare \in SUBSET External /\ snapshot.body \in Body
  BY DEF Asks, Snapshot
<1>2. Head(ask.todo) \in External /\ Tail(ask.todo) \in Seq(External)
  BY <1>1
<1> DEFINE over(bare) == [ask EXCEPT !.todo = Tail(ask.todo), !.bare = bare]
           taken == [ask EXCEPT !.at = "existing", !.body = snapshot.body, !.external = Head(ask.todo)]
<1>3. CASE snapshot.has = "entry"
  <2> DEFINE bare == ask.bare \cup {Head(ask.todo)}
  <2>1. bare \in SUBSET External
    BY <1>1, <1>2
  <2>2. next = over(bare)
    BY <1>3 DEF Takes, Asks
  <2> HIDE DEF bare
  <2>3. next \in Asks
    BY <1>2, <2>1, <2>2 DEF Asks
  <2>4. QED
    BY <1>3, <2>2, <2>3 DEF Asks, bare
<1>4. CASE snapshot.has # "entry" /\ Text[snapshot.body] = <<>>
  <2>1. next = over(ask.bare)
    BY <1>4 DEF Takes, Asks
  <2>2. next \in Asks
    BY <1>1, <1>2, <2>1 DEF Asks
  <2>3. QED
    BY <1>4, <2>1, <2>2 DEF Asks
<1>5. CASE snapshot.has # "entry" /\ Text[snapshot.body] # <<>>
  <2>1. next = taken
    BY <1>5 DEF Takes
  <2>2. next \in Asks
    BY <1>1, <1>2, <2>1 DEF Asks, Stages
  <2>3. QED
    BY <1>5, <2>1, <2>2 DEF Asks
<1>6. QED
  BY <1>3, <1>4, <1>5

(* The initial states; then every action. *)
LEMMA MemoryInit == KnowledgeInit => MemoryInv
<1> SUFFICES ASSUME KnowledgeInit
             PROVE  MemoryInv
  OBVIOUS
<1>1. StoreInv
  <2>1. IsFiniteSet({})
    BY FS_EmptySet
  <2>2. QED
    BY <2>1 DEF KnowledgeInit, StoreInv, OncePerResource
<1>2. WorldInv
  <2>1. Absent \in Snapshot
    BY SnapshotsAre
  <2>2. QED
    BY <2>1, KnowledgeFacts DEF KnowledgeInit, WorldInv
<1>3. AsksInv
  <2>1. AskFine(Idle, made)
    BY IdleIsFine
  <2>2. Idle \in Asks
    BY <2>1 DEF AskFine
  <2>3. QED
    BY <2>1, <2>2 DEF KnowledgeInit, AsksInv
<1>4. QED
  BY <1>1, <1>2, <1>3 DEF MemoryInv

(* The actions of a caller, in the order of a call. *)
LEMMA BeginKeeps ==
  ASSUME MemoryInv, NEW c \in Caller, Begin(c)
  PROVE  MemoryInv'
<1>1. PICK task \in Tasks[c], b \in Says[c], i \in Worth \cup {DefaultImportance} :
        call' = [call EXCEPT ![c] =
           [Idle EXCEPT !.task = task, !.at = "source", !.body = b, !.importance = i]]
  BY DEF Begin
<1> DEFINE next == [Idle EXCEPT !.task = task, !.at = "source", !.body = b, !.importance = i]
<1>2. task \in Task /\ b \in Body /\ i \in Importance
  BY KnowledgeFacts DEF DefaultImportance, Importance
<1>3. AskFine(Idle, made) /\ Idle \in Asks
  BY IdleIsFine DEF AskFine
<1>4. next \in Asks
  BY <1>2, <1>3 DEF Asks, Stages
<1>5. /\ next.task = task /\ next.at = "source" /\ next.ids = {} /\ next.vectors = <<>>
      /\ next.purpose = "document"
  BY <1>3 DEF Asks, Idle
<1> HIDE DEF next
<1>6. Begins(next.vectors, Texts(next))
  BY <1>4, <1>5, TextsType, NothingBegins
<1>7. AskFine(next, made)
  BY <1>4, <1>5, <1>6 DEF AskFine
<1>8. /\ UNCHANGED corpus /\ remote' = remote /\ cached' = cached /\ key' = key
      /\ call' = [call EXCEPT ![c] = next]
  BY <1>1 DEF Begin, next
<1>9. /\ sources' = sources /\ documents' = documents /\ made' = made
  BY <1>8 DEF corpus
<1>10. StoreInv' /\ WorldInv'
  BY <1>8, <1>9 DEF MemoryInv, StoreInv, WorldInv, DocumentFine, OncePerResource, Live
<1>11. AsksInv'
  <2>1. call \in [Caller -> Asks]
    BY DEF MemoryInv, AsksInv
  <2>2. call' \in [Caller -> Asks]
    BY <1>4, <1>8, <2>1
  <2>3. ASSUME NEW d \in Caller
        PROVE  AskFine(call'[d], made')
    <3>1. call'[d] = (IF d = c THEN next ELSE call[d])
      BY <1>8, <2>1
    <3>2. AskFine(call[d], made)
      BY DEF MemoryInv, AsksInv
    <3>3. QED
      BY <1>7, <1>9, <3>1, <3>2
  <2>4. QED
    BY <2>2, <2>3 DEF AsksInv
<1>12. QED
  BY <1>10, <1>11 DEF MemoryInv

LEMMA FindSourceKeeps ==
  ASSUME MemoryInv, NEW c \in Caller, FindSource(c)
  PROVE  MemoryInv'
<1> DEFINE ask == call[c]
           ids == Resolved(Named(ask.task))
           at == CASE ask.task = "import" -> "list"
                   [] ask.task = "add" -> "existing"
                   [] OTHER -> "embedder"
           purpose == IF ask.task \in {"search", "remember"} THEN "query" ELSE "document"
           going == [ask EXCEPT !.ids = ids, !.at = at, !.purpose = purpose]
           next == IF ids = {} THEN Ends(ask, "nowhere") ELSE going
<1>1. AskFine(ask, made) /\ ask \in Asks
  BY AskOf
<1>2. ask.at = "source" /\ Goes(c, next) /\ Untouched
  BY DEF FindSource
<1>3. ids \subseteq 1..made /\ ids \subseteq Nat
  <2>1. Named(ask.task) \subseteq Slug
    BY KnowledgeFacts DEF Named
  <2>2. made \in Nat /\ sources \in [Slug -> 0..made]
    BY DEF MemoryInv, StoreInv
  <2>3. QED
    BY <2>1, <2>2 DEF Resolved
<1>4. /\ ask.task \in {"search", "remember", "add", "import"}
      /\ at \in {"list", "existing", "embedder"} /\ at \in Stages /\ purpose \in {"query", "document"}
      /\ (at = "list" => ask.task = "import") /\ (ask.task = "import" => at = "list")
      /\ (ask.task = "import" => purpose = "document")
      /\ (ask.task = "search" => purpose = "query" /\ at = "embedder")
  BY <1>1 DEF Asks, Task, Stages
<1>5. ask.vectors = <<>>
  BY <1>1, <1>2 DEF AskFine
<1> HIDE DEF ask, ids, at, purpose
<1>6. going \in Asks
  BY <1>1, <1>3, <1>4 DEF Asks
<1>7. /\ going.task = ask.task /\ going.at = at /\ going.ids = ids /\ going.purpose = purpose
      /\ going.vectors = <<>> /\ going.todo = ask.todo
  BY <1>1, <1>5 DEF Asks
<1> HIDE DEF going
<1>8. Begins(going.vectors, Texts(going))
  BY <1>6, <1>7, TextsType, NothingBegins
<1>9. AskFine(going, made)
  BY <1>3, <1>4, <1>6, <1>7, <1>8 DEF AskFine
<1>10. AskFine(next, made)
  BY <1>1, <1>9, EndsFine, OutcomesAre
<1> HIDE DEF next
<1>11. QED
  BY <1>2, <1>10, GoesOn

LEMMA ListKeeps ==
  ASSUME MemoryInv, NEW c \in Caller, List(c)
  PROVE  MemoryInv'
<1> DEFINE ask == call[c]
           next == [ask EXCEPT !.at = "read", !.todo = Listing]
<1>1. AskFine(ask, made) /\ ask \in Asks
  BY AskOf
<1>2. /\ ask.at = "list" /\ Goes(c, next) /\ UNCHANGED <<corpus, remote, key>>
      /\ cached' = Warmed
  BY DEF List
<1> HIDE DEF ask
<1>3. next \in Asks
  BY <1>1, KnowledgeFacts DEF Asks, Stages
<1>4. /\ next.task = ask.task /\ next.at = "read" /\ next.ids = ask.ids /\ next.purpose = ask.purpose
      /\ next.vectors = ask.vectors /\ next.body = ask.body
  BY <1>1 DEF Asks
<1> HIDE DEF next
<1>5. Texts(next) = Texts(ask)
  BY <1>4 DEF Texts
<1>6. AskFine(next, made)
  BY <1>1, <1>2, <1>3, <1>4, <1>5 DEF AskFine
<1>7. QED
  BY <1>2, <1>6, GoesOver, CacheKeepsType

LEMMA ReadKeeps ==
  ASSUME MemoryInv, NEW c \in Caller, Read(c)
  PROVE  MemoryInv'
<1> DEFINE ask == call[c]
           x == Head(ask.todo)
<1>1. AskFine(ask, made) /\ ask \in Asks
  BY AskOf
<1>2. PICK snapshot \in Served(x) :
        Goes(c, Takes(ask, snapshot)) /\ cached' = [cached EXCEPT ![x] = snapshot]
  BY DEF Read
<1>3. ask.at = "read" /\ ask.todo # <<>> /\ UNCHANGED <<corpus, remote, key>>
  BY DEF Read
<1>4. x \in External
  BY <1>1, <1>3 DEF Asks
<1>5. snapshot \in Snapshot /\ cached' \in [External -> Snapshot]
  BY <1>2, <1>4, CacheKeepsType
<1> HIDE DEF ask, x
<1> DEFINE next == Takes(ask, snapshot)
<1>6. /\ next \in Asks
      /\ next.task = ask.task /\ next.ids = ask.ids /\ next.purpose = ask.purpose
      /\ next.vectors = ask.vectors
      /\ next.at = "read" \/ (next.at = "existing" /\ next.todo = ask.todo)
  BY <1>1, <1>3, <1>5, TakesIs
<1>7. ask.vectors = <<>> /\ ask.task = "import" /\ ask.purpose = "document" /\ ask.ids \subseteq 1..made
  BY <1>1, <1>3 DEF AskFine
<1> HIDE DEF next
<1>8. Begins(next.vectors, Texts(next))
  BY <1>6, <1>7, TextsType, NothingBegins
<1>9. AskFine(next, made)
  BY <1>3, <1>6, <1>7, <1>8 DEF AskFine
<1>10. QED
  BY <1>2, <1>3, <1>5, <1>9, GoesOver DEF next

LEMMA ImportedKeeps ==
  ASSUME MemoryInv, NEW c \in Caller, Imported(c)
  PROVE  MemoryInv'
<1>1. Goes(c, Ends(call[c], "imported")) /\ Untouched
  BY DEF Imported
<1>2. AskFine(Ends(call[c], "imported"), made)
  BY AskOf, EndsFine, OutcomesAre
<1>3. QED
  BY <1>1, <1>2, GoesOn

LEMMA TroubleKeeps ==
  ASSUME MemoryInv, NEW c \in Caller, Trouble(c)
  PROVE  MemoryInv'
<1>1. AskFine(call[c], made) /\ UNCHANGED <<corpus, remote, key>>
  BY AskOf DEF Trouble
<1>2. cached \in [External -> Snapshot]
  BY DEF MemoryInv, WorldInv
<1>3. CASE Fails(c)
  <2>1. Goes(c, Failing(call[c])) /\ cached' = cached
    BY <1>3 DEF Fails
  <2>2. call[c].task = "import" => call[c].todo # <<>>
    BY <1>1, <1>3 DEF Fails, AskFine
  <2>3. AskFine(Failing(call[c]), made)
    BY <1>1, <2>2, FailingFine
  <2>4. QED
    BY <1>1, <1>2, <2>1, <2>3, GoesOver
<1>4. CASE Unlisted(c)
  <2>1. Goes(c, Ends(call[c], "failed")) /\ cached' \in {cached, Warmed}
    BY <1>4 DEF Unlisted
  <2>2. AskFine(Ends(call[c], "failed"), made) /\ cached' \in [External -> Snapshot]
    BY <1>1, <1>2, <2>1, EndsFine, OutcomesAre, CacheKeepsType
  <2>3. QED
    BY <1>1, <2>1, <2>2, GoesOver
<1>5. QED
  BY <1>3, <1>4 DEF Trouble

LEMMA CheckKeeps ==
  ASSUME MemoryInv, NEW c \in Caller, Check(c)
  PROVE  MemoryInv'
<1> DEFINE ask == call[c]
           going == [ask EXCEPT !.at = "embedder", !.purpose = "document", !.vectors = <<>>]
           next == IF Text[ask.body] = <<>> THEN Failing(ask)
                   ELSE IF Existing(Source(c), ask.external, ask.body) # {}
                   THEN Succeeding(ask, "unchanged") ELSE going
<1>1. AskFine(ask, made) /\ ask \in Asks
  BY AskOf
<1>2. ask.at = "existing" /\ Goes(c, next) /\ Untouched
  BY DEF Check
<1>3. /\ ask.task = "import" => ask.todo # <<>>
      /\ ask.task # "search" /\ ask.ids \subseteq 1..made
  BY <1>1, <1>2 DEF AskFine
<1> HIDE DEF ask
<1>4. AskFine(going, made)
  <2>1. <<>> \in Seq(Vector)
    OBVIOUS
  <2>2. going \in Asks
    BY <1>1, <2>1 DEF Asks, Stages
  <2>3. /\ going.task = ask.task /\ going.at = "embedder" /\ going.ids = ask.ids
        /\ going.purpose = "document" /\ going.vectors = <<>> /\ going.todo = ask.todo
    BY <1>1 DEF Asks
  <2> HIDE DEF going
  <2>4. Begins(going.vectors, Texts(going))
    BY <2>2, <2>3, TextsType, NothingBegins
  <2>5. QED
    BY <1>3, <2>2, <2>3, <2>4 DEF AskFine
<1>5. AskFine(Failing(ask), made) /\ AskFine(Succeeding(ask, "unchanged"), made)
  BY <1>1, <1>3, FailingFine, SucceedingFine, OutcomesAre
<1> HIDE DEF going
<1>6. AskFine(next, made)
  BY <1>4, <1>5
<1> HIDE DEF next
<1>7. QED
  BY <1>2, <1>6, GoesOn

LEMMA PayerKeeps ==
  ASSUME MemoryInv, NEW c \in Caller, Payer(c)
  PROVE  MemoryInv'
<1> DEFINE ask == call[c]
           going == [ask EXCEPT !.at = "embed"]
           next == IF key = "unsealable" \/ (key = "none" /\ ~Platform) THEN Failing(ask) ELSE going
<1>1. AskFine(ask, made) /\ ask \in Asks
  BY AskOf
<1>2. ask.at = "embedder" /\ Goes(c, next) /\ Untouched
  BY DEF Payer
<1>3. /\ ask.task = "import" => ask.todo # <<>> /\ ask.purpose = "document"
      /\ ask.task = "search" => ask.purpose = "query"
      /\ ask.ids \subseteq 1..made /\ Begins(ask.vectors, Texts(ask))
  BY <1>1, <1>2 DEF AskFine
<1> HIDE DEF ask
<1>4. AskFine(going, made)
  <2>1. going \in Asks
    BY <1>1 DEF Asks, Stages
  <2>2. /\ going.task = ask.task /\ going.at = "embed" /\ going.ids = ask.ids /\ going.body = ask.body
        /\ going.purpose = ask.purpose /\ going.vectors = ask.vectors /\ going.todo = ask.todo
    BY <1>1 DEF Asks
  <2> HIDE DEF going
  <2>3. Texts(going) = Texts(ask)
    BY <2>2 DEF Texts
  <2>4. QED
    BY <1>3, <2>1, <2>2, <2>3 DEF AskFine
<1>5. AskFine(Failing(ask), made)
  BY <1>1, <1>3, FailingFine
<1> HIDE DEF going
<1>6. AskFine(next, made)
  BY <1>4, <1>5
<1> HIDE DEF next
<1>7. QED
  BY <1>2, <1>6, GoesOn

LEMMA EmbedKeeps ==
  ASSUME MemoryInv, NEW c \in Caller, Embed(c)
  PROVE  MemoryInv'
<1> DEFINE ask == call[c]
           texts == Texts(ask)
           batch == Batch(texts, Len(ask.vectors))
<1>1. AskFine(ask, made) /\ ask \in Asks
  BY AskOf
<1>2. Wanted(c) = texts
  BY DEF Wanted, Texts
<1>3. ask.at = "embed" /\ Untouched
  BY DEF Embed
<1>4. /\ ask.task = "import" => ask.todo # <<>> /\ ask.purpose = "document"
      /\ ask.task = "search" => ask.purpose = "query"
      /\ ask.ids \subseteq 1..made
  BY <1>1, <1>3 DEF AskFine
<1>5. PICK answer \in Answers(batch) :
        IF Complete(batch, answer)
        THEN LET vectors == ask.vectors \o Ordered(answer)
             IN  Goes(c, [ask EXCEPT !.vectors = vectors,
                            !.at = IF Len(vectors) < Len(texts) THEN "embed"
                                   ELSE IF ask.purpose = "query" THEN "search" ELSE "commit"])
        ELSE Goes(c, Failing(ask))
  BY <1>2, Zenon DEF Embed
<1>6. CASE ~ Complete(batch, answer)
  <2>1. Goes(c, Failing(ask))
    BY <1>5, <1>6
  <2>2. AskFine(Failing(ask), made)
    BY <1>1, <1>4, FailingFine
  <2>3. QED
    BY <1>3, <2>1, <2>2, GoesOn
<1>7. CASE Complete(batch, answer)
  <2> DEFINE vectors == ask.vectors \o Ordered(answer)
             at == IF Len(vectors) < Len(texts) THEN "embed"
                   ELSE IF ask.purpose = "query" THEN "search" ELSE "commit"
             next == [ask EXCEPT !.vectors = vectors, !.at = at]
  <2>1. Goes(c, next)
    BY <1>5, <1>7
  <2>2. texts \in Seq(Vector) /\ Len(texts) \in Nat
    BY <1>1, TextsType
  <2>3. Begins(ask.vectors, texts)
    BY <1>1 DEF AskFine
  <2>4. Begins(vectors, texts)
    <3> HIDE DEF texts, ask
    <3>1. QED
      BY <1>7, <2>2, <2>3, BatchContinues
  <2> HIDE DEF vectors
  <2>5. Len(vectors) \in Nat /\ Len(vectors) <= Len(texts) /\ vectors = SubSeq(texts, 1, Len(vectors))
    BY <2>4 DEF Begins
  <2>6. vectors \in Seq(Vector)
    <3>1. \A k \in 1..Len(vectors) : texts[k] \in Vector
      BY <2>2, <2>5
    <3>2. SubSeq(texts, 1, Len(vectors)) \in Seq(Vector)
      BY <2>2, <2>5, <3>1, SubSeqProperties
    <3>3. QED
      BY <2>5, <3>2
  <2>7. /\ at \in {"embed", "search", "commit"} /\ at \in Stages
        /\ (at = "search" => ask.purpose = "query")
        /\ (at = "commit" => ask.purpose = "document" /\ Len(vectors) = Len(texts))
    <3>1. ask.purpose \in {"query", "document"}
      BY <1>1 DEF Asks
    <3>2. QED
      BY <2>2, <2>5, <3>1 DEF Stages
  <2> HIDE DEF ask, at
  <2>8. next \in Asks
    BY <1>1, <2>6, <2>7 DEF Asks
  <2>9. /\ next.task = ask.task /\ next.at = at /\ next.ids = ask.ids /\ next.body = ask.body
        /\ next.purpose = ask.purpose /\ next.vectors = vectors /\ next.todo = ask.todo
    BY <1>1 DEF Asks
  <2> HIDE DEF next
  <2>10. Texts(next) = texts
    BY <2>9 DEF Texts
  <2> HIDE DEF texts
  <2>11. AskFine(next, made)
    BY <1>4, <2>4, <2>7, <2>8, <2>9, <2>10 DEF AskFine
  <2>12. QED
    BY <1>3, <2>1, <2>11, GoesOn
<1>8. QED
  BY <1>6, <1>7

(* What the store and a search hold. *)
LEMMA WholeIs ==
  ASSUME NEW b \in Body
  PROVE  /\ DOMAIN Whole(b) = 1..Len(ChunksOf[b]) /\ Len(ChunksOf[b]) \in Nat
         /\ \A k \in DOMAIN Whole(b) : Whole(b)[k] = [text |-> <<b, k>>, vector |-> <<b, k>>]
         /\ Rows(b, Pieces(b)) = Whole(b)
<1>1. /\ DOMAIN Pieces(b) = 1..Len(ChunksOf[b]) /\ Len(ChunksOf[b]) \in Nat
      /\ \A k \in 1..Len(ChunksOf[b]) : Pieces(b)[k] = <<b, k>>
  BY TextsOf
<1>2. /\ DOMAIN Whole(b) = 1..Len(ChunksOf[b])
      /\ \A k \in DOMAIN Whole(b) : Whole(b)[k] = [text |-> <<b, k>>, vector |-> <<b, k>>]
  BY <1>1 DEF Whole
<1>3. Rows(b, Pieces(b)) = Whole(b)
  BY <1>1 DEF Rows, Whole
<1>4. QED
  BY <1>1, <1>2, <1>3

LEMMA FoundIs ==
  ASSUME MemoryInv, NEW ids, NEW query
  PROVE  Found(ids, query) \subseteq HitSet
<1> SUFFICES ASSUME NEW h \in Found(ids, query)
             PROVE  h \in HitSet
  OBVIOUS
<1>1. PICK d \in documents : d.source \in ids /\ \E k \in DOMAIN d.chunks : h = Hit(d, k)
  BY DEF Found
<1>2. PICK k \in DOMAIN d.chunks : h = Hit(d, k)
  BY <1>1
<1>3. DocumentFine(d) /\ made \in Nat /\ sources \in [Slug -> 0..made]
  BY DEF MemoryInv, StoreInv
<1>4. d.id \in Nat /\ d.importance \in Importance /\ d.source \in Nat /\ d.body \in Body /\ d.chunks = Whole(d.body)
  BY <1>3 DEF DocumentFine, Live
<1>5. d.chunks[k].vector \in Vector
  <2>1. k \in Nat /\ d.chunks[k] = [text |-> <<d.body, k>>, vector |-> <<d.body, k>>]
    BY <1>2, <1>4, WholeIs
  <2>2. QED
    BY <1>4, <2>1 DEF Vector
<1>6. QED
  BY <1>2, <1>4, <1>5 DEF Hit, HitSet

LEMMA SearchMemoryKeeps ==
  ASSUME MemoryInv, NEW c \in Caller, SearchMemory(c)
  PROVE  MemoryInv'
<1> DEFINE ask == call[c]
           all == Found(ask.ids, ask.body)
<1>1. AskFine(ask, made) /\ ask \in Asks
  BY AskOf
<1>2. PICK page \in Page(all, SearchLimit) : Goes(c, Ends([ask EXCEPT !.hits = page], "answered"))
  BY DEF SearchMemory
<1>3. Untouched
  BY DEF SearchMemory
<1>4. page \in SUBSET HitSet
  <2>1. all \subseteq HitSet
    BY FoundIs
  <2>2. page \subseteq all
    BY <1>2 DEF Page
  <2>3. QED
    BY <2>1, <2>2
<1> HIDE DEF ask, all
<1> DEFINE next == [ask EXCEPT !.hits = page]
<1>5. AskFine(next, made)
  <2>1. next \in Asks
    BY <1>1, <1>4 DEF Asks
  <2>2. /\ next.task = ask.task /\ next.at = ask.at /\ next.ids = ask.ids /\ next.body = ask.body
        /\ next.purpose = ask.purpose /\ next.vectors = ask.vectors /\ next.todo = ask.todo
    BY <1>1 DEF Asks
  <2> HIDE DEF next
  <2>3. Texts(next) = Texts(ask)
    BY <2>2 DEF Texts
  <2>4. QED
    BY <1>1, <2>1, <2>2, <2>3 DEF AskFine
<1> HIDE DEF next
<1>6. AskFine(Ends(next, "answered"), made)
  BY <1>5, EndsFine, OutcomesAre
<1>7. Goes(c, Ends(next, "answered"))
  BY <1>2 DEF next
<1>8. QED
  BY <1>3, <1>6, <1>7, GoesOn

LEMMA SearchFirstKeeps ==
  ASSUME MemoryInv, NEW c \in Caller, SearchFirst(c)
  PROVE  MemoryInv'
<1> DEFINE ask == call[c]
           all == Found(ask.ids, ask.body)
<1>1. AskFine(ask, made) /\ ask \in Asks
  BY AskOf
<1>2. ask.task = "remember" /\ Untouched
  BY DEF SearchFirst
<1>3. PICK page \in Page(all, 1) :
        LET next == [ask EXCEPT !.hits = page]
        IN  Goes(c, IF \E h \in page : Near(next.body, h.vector)
                    THEN Ends(next, "already") ELSE [next EXCEPT !.at = "existing"])
  BY Zenon DEF SearchFirst
<1>4. page \in SUBSET HitSet
  <2>1. all \subseteq HitSet
    BY FoundIs
  <2>2. page \subseteq all
    BY <1>3 DEF Page
  <2>3. QED
    BY <2>1, <2>2
<1> HIDE DEF ask, all
<1> DEFINE next == [ask EXCEPT !.hits = page]
           going == [next EXCEPT !.at = "existing"]
<1>5. /\ next \in Asks /\ next.task = ask.task /\ next.at = ask.at /\ next.ids = ask.ids
      /\ next.body = ask.body /\ next.purpose = ask.purpose /\ next.vectors = ask.vectors
      /\ next.todo = ask.todo
  BY <1>1, <1>4 DEF Asks
<1>6. Goes(c, IF \E h \in page : Near(next.body, h.vector) THEN Ends(next, "already") ELSE going)
  BY <1>3
<1> HIDE DEF next
<1>7. AskFine(next, made)
  <2>1. Texts(next) = Texts(ask)
    BY <1>5 DEF Texts
  <2>2. QED
    BY <1>1, <1>5, <2>1 DEF AskFine
<1>8. AskFine(Ends(next, "already"), made)
  BY <1>7, EndsFine, OutcomesAre
<1>9. AskFine(going, made)
  <2>1. going \in Asks
    BY <1>5 DEF Asks, Stages
  <2>2. /\ going.task = next.task /\ going.at = "existing" /\ going.ids = next.ids
        /\ going.body = next.body /\ going.purpose = next.purpose /\ going.vectors = next.vectors
        /\ going.todo = next.todo
    BY <1>5 DEF Asks
  <2> HIDE DEF going
  <2>3. Texts(going) = Texts(next)
    BY <2>2 DEF Texts
  <2>4. QED
    BY <1>2, <1>5, <1>7, <2>1, <2>2, <2>3 DEF AskFine
<1>10. CASE \E h \in page : Near(next.body, h.vector)
  BY <1>2, <1>6, <1>8, <1>10, GoesOn
<1>11. CASE ~ \E h \in page : Near(next.body, h.vector)
  <2>1. Goes(c, going)
    BY <1>6, <1>11
  <2> HIDE DEF going
  <2>2. QED
    BY <1>2, <1>9, <2>1, GoesOn
<1>12. QED
  BY <1>10, <1>11

(* The calls of the others, when one of them or a person changed the corpus. *)
LEMMA AsksDisturbed ==
  ASSUME MemoryInv, NEW c \in Caller, NEW next, GoesWriting(c, next),
         AskFine(next, made), made' \in Nat, made <= made'
  PROVE  AsksInv'
<1>1. made \in Nat /\ call \in [Caller -> Asks] /\ \A d \in Caller : AskFine(call[d], made)
  BY DEF MemoryInv, StoreInv, AsksInv
<1>2. \A d \in Caller : call'[d] = (IF d = c THEN next ELSE [call[d] EXCEPT !.quiet = FALSE])
  BY DEF GoesWriting
<1>3. ASSUME NEW d \in Caller
      PROVE  AskFine(call'[d], made')
  <2>1. AskFine([call[d] EXCEPT !.quiet = FALSE], made)
    BY <1>1, UnquietIsFine
  <2>2. AskFine(call'[d], made)
    BY <1>2, <2>1
  <2>3. QED
    BY <1>1, <2>2, AskGrows
<1>4. call' \in [Caller -> Asks]
  <2>1. \A d \in Caller : call'[d] \in Asks
    BY <1>3 DEF AskFine
  <2>2. call' = [d \in Caller |-> IF d = c THEN next ELSE [call[d] EXCEPT !.quiet = FALSE]]
    BY DEF GoesWriting
  <2>3. QED
    BY <1>2, <2>1, <2>2
<1>5. QED
  BY <1>3, <1>4 DEF AsksInv

LEMMA AllDisturbed ==
  ASSUME MemoryInv, Disturbed, made' \in Nat, made <= made'
  PROVE  AsksInv'
<1>1. made \in Nat /\ call \in [Caller -> Asks] /\ \A d \in Caller : AskFine(call[d], made)
  BY DEF MemoryInv, StoreInv, AsksInv
<1>2. \A d \in Caller : call'[d] = [call[d] EXCEPT !.quiet = FALSE]
  BY DEF Disturbed
<1>3. ASSUME NEW d \in Caller
      PROVE  AskFine(call'[d], made')
  <2>1. AskFine([call[d] EXCEPT !.quiet = FALSE], made)
    BY <1>1, UnquietIsFine
  <2>2. AskFine(call'[d], made)
    BY <1>2, <2>1
  <2>3. QED
    BY <1>1, <2>2, AskGrows
<1>4. call' \in [Caller -> Asks]
  <2>1. \A d \in Caller : call'[d] \in Asks
    BY <1>3 DEF AskFine
  <2>2. call' = [d \in Caller |-> [call[d] EXCEPT !.quiet = FALSE]]
    BY DEF Disturbed
  <2>3. QED
    BY <1>2, <2>1, <2>2
<1>5. QED
  BY <1>3, <1>4 DEF AsksInv

(* Writing a document keeps the corpus whole. *)
LEMMA UpsertKeeps ==
  ASSUME StoreInv, NEW input, NEW vectors,
         input.source \in Live, input.external \in External \cup {"none"}, input.body \in Body,
         input.importance \in Importance, input.provenance \in Range(Provenance),
         vectors = Pieces(input.body), Upsert(input, vectors)
  PROVE  StoreInv' /\ made <= made' /\ Live' = Live
<1> DEFINE old == Stored(input.source, input.external)
           id == IF old = {} THEN made + 1 ELSE (CHOOSE d \in old : TRUE).id
           new == [id |-> id, source |-> input.source, external |-> input.external,
                   body |-> input.body, provenance |-> input.provenance,
                   importance |-> input.importance, chunks |-> Rows(input.body, vectors)]
<1>1. /\ documents' = (documents \ old) \cup {new}
      /\ made' = (IF old = {} THEN made + 1 ELSE made)
      /\ sources' = sources
  BY Zenon DEF Upsert
<1>2. /\ made \in Nat /\ sources \in [Slug -> 0..made] /\ IsFiniteSet(documents)
      /\ \A d \in documents : DocumentFine(d)
      /\ OncePerResource
  BY DEF StoreInv
<1>3. /\ old \subseteq documents
      /\ \A d \in old : d.source = input.source /\ d.external = input.external /\ d.external # "none"
      /\ \A d \in documents : d.source = input.source /\ d.external = input.external
                                /\ d.external # "none" => d \in old
  BY DEF Stored
<1>4. made' \in Nat /\ made <= made' /\ Live' = Live
  BY <1>1, <1>2 DEF Live
<1>5. /\ id \in 1..made'
      /\ (old = {} => \A d \in documents : d.id # id)
      /\ \A d \in documents \ old : d.id # id
  <2>1. CASE old = {}
    <3>1. id = made + 1 /\ made' = made + 1
      BY <1>1, <2>1
    <3>2. \A d \in documents : d.id \in 1..made
      BY <1>2 DEF DocumentFine
    <3> HIDE DEF id, old, new
    <3>3. QED
      BY <1>2, <3>1, <3>2
  <2>2. CASE old # {}
    <3>1. PICK o \in old : id = o.id
      BY <2>2
    <3>2. o \in documents /\ o.id \in 1..made /\ made' = made
      BY <1>1, <1>2, <1>3, <2>2, <3>1 DEF DocumentFine
    <3>3. \A d \in documents \ old : d.id # id
      BY <1>2, <3>1, <3>2 DEF OncePerResource
    <3> HIDE DEF id, old, new
    <3>4. QED
      BY <1>2, <2>2, <3>1, <3>2, <3>3
  <2>3. QED
    BY <2>1, <2>2
<1>6. /\ new.id = id /\ new.source = input.source /\ new.external = input.external
      /\ new.body = input.body /\ new.provenance = input.provenance
      /\ new.importance = input.importance /\ new.chunks = Whole(input.body)
  BY WholeIs
<1> HIDE DEF id, old, new
<1>7. IsFiniteSet(documents')
  <2>1. IsFiniteSet(documents \ old) /\ IsFiniteSet({new})
    BY <1>2, FS_Difference, FS_Singleton
  <2>2. QED
    BY <1>1, <2>1, FS_Union
<1>8. \A d \in documents' : DocumentFine(d)'
  <2> SUFFICES ASSUME NEW d \in documents'
               PROVE  DocumentFine(d)'
    OBVIOUS
  <2>1. CASE d \in documents
    <3>1. DocumentFine(d) /\ \A i \in 1..made : i \in 1..made'
      BY <1>2, <1>4, <2>1
    <3>2. QED
      BY <1>4, <3>1 DEF DocumentFine
  <2>2. CASE d = new
    BY <1>4, <1>5, <1>6, <2>2 DEF DocumentFine
  <2>3. QED
    BY <1>1, <2>1, <2>2
<1>9. OncePerResource'
  <2>1. ASSUME NEW d \in documents \ old
        PROVE  d.id # new.id /\ ~ (d.source = new.source /\ d.external = new.external /\ d.external # "none")
    BY <1>3, <1>5, <1>6
  <2>2. \A d, e \in documents \ old :
          d.id = e.id \/ (d.source = e.source /\ d.external = e.external /\ d.external # "none") => d = e
    BY <1>2 DEF OncePerResource
  <2>3. ASSUME NEW d \in documents', NEW e \in documents',
               d.id = e.id \/ (d.source = e.source /\ d.external = e.external /\ d.external # "none")
        PROVE  d = e
    BY <1>1, <2>1, <2>2, <2>3
  <2>4. QED
    BY <2>3 DEF OncePerResource
<1>10. StoreInv'
  <2>1. sources' \in [Slug -> 0..made']
    <3>1. \A i \in 0..made : i \in 0..made'
      BY <1>2, <1>4
    <3>2. QED
      BY <1>1, <1>2, <3>1
  <2>2. QED
    BY <1>4, <1>7, <1>8, <1>9, <2>1 DEF StoreInv
<1>11. QED
  BY <1>4, <1>10

LEMMA CommitKeeps ==
  ASSUME MemoryInv, NEW c \in Caller, Commit(c)
  PROVE  MemoryInv'
<1> DEFINE ask == call[c]
           input == [source |-> Source(c), external |-> ask.external, body |-> ask.body,
                     importance |-> ask.importance, provenance |-> Provenance[ask.task]]
<1>1. AskFine(ask, made) /\ ask \in Asks
  BY AskOf
<1>2. ask.at = "commit" /\ remote' = remote /\ cached' = cached /\ key' = key /\ calls' = calls
  BY DEF Commit
<1>3. ask.task = "import" => ask.todo # <<>>
  BY <1>1, <1>2 DEF AskFine
<1>4. /\ AskFine(Failing(ask), made) /\ AskFine(Succeeding(ask, "written"), made)
  BY <1>1, <1>3, FailingFine, SucceedingFine, OutcomesAre
<1>5. CASE Source(c) \notin Live
  <2>1. Goes(c, Failing(ask)) /\ UNCHANGED corpus
    BY <1>5 DEF Commit
  <2>2. Untouched
    BY <1>2, <2>1 DEF Untouched
  <2>3. QED
    BY <1>4, <2>1, <2>2, GoesOn
<1>6. CASE Source(c) \in Live
  <2>1. /\ Upsert(input, ask.vectors)
        /\ GoesWriting(c, Succeeding(ask, "written")) \/ GoesWriting(c, Failing(ask))
    BY <1>6 DEF Commit
  <2>2. ask.vectors = Pieces(ask.body)
    <3>1. ask.purpose = "document" /\ Len(ask.vectors) = Len(Texts(ask)) /\ Begins(ask.vectors, Texts(ask))
      BY <1>1, <1>2 DEF AskFine
    <3>2. Texts(ask) = Pieces(ask.body)
      BY <3>1 DEF Texts
    <3>3. Texts(ask) \in Seq(Vector)
      BY <1>1, TextsType
    <3> HIDE DEF ask
    <3>4. QED
      BY <3>1, <3>2, <3>3, AllBegun
  <2>3. /\ input.source \in Live /\ input.external \in External \cup {"none"} /\ input.body \in Body
        /\ input.importance \in Importance /\ input.body = ask.body
    BY <1>1, <1>6 DEF Asks
  <2>4. input.provenance \in Range(Provenance)
    <3>1. ask.task # "search"
      BY <1>1, <1>2 DEF AskFine
    <3>2. QED
      BY <1>1, <3>1 DEF Asks, Task, Provenance, Range
  <2> HIDE DEF input
  <2>5. StoreInv' /\ made <= made' /\ Live' = Live
    BY <2>1, <2>2, <2>3, <2>4, UpsertKeeps DEF MemoryInv
  <2>6. made' \in Nat
    BY <2>5 DEF StoreInv
  <2> HIDE DEF ask
  <2>7. AsksInv'
    BY <1>4, <2>1, <2>5, <2>6, AsksDisturbed
  <2>8. WorldInv'
    BY <1>2 DEF MemoryInv, WorldInv
  <2>9. QED
    BY <2>5, <2>7, <2>8 DEF MemoryInv
<1>7. QED
  BY <1>5, <1>6

(* What goes on meanwhile. *)
LEMMA MakeSourceKeeps ==
  ASSUME MemoryInv, NEW s \in Slug, MakeSource(s)
  PROVE  MemoryInv'
<1>1. /\ made \in Nat /\ sources \in [Slug -> 0..made] /\ IsFiniteSet(documents)
      /\ \A d \in documents : DocumentFine(d)
      /\ OncePerResource
  BY DEF MemoryInv, StoreInv
<1>2. /\ sources[s] = 0 /\ sources' = [sources EXCEPT ![s] = made + 1] /\ made' = made + 1
      /\ documents' = documents /\ Disturbed /\ remote' = remote /\ cached' = cached /\ key' = key
  BY DEF MakeSource, CreateSource
<1>3. made' \in Nat /\ made <= made' /\ \A i \in 0..made : i \in 0..made'
  BY <1>1, <1>2
<1>4. Live \subseteq Live'
  BY <1>1, <1>2 DEF Live
<1>5. sources' \in [Slug -> 0..made']
  BY <1>1, <1>2, <1>3
<1>6. ASSUME NEW d \in documents'
      PROVE  DocumentFine(d)'
  <2>1. DocumentFine(d) /\ \A i \in 1..made : i \in 1..made'
    BY <1>1, <1>2, <1>3
  <2>2. QED
    BY <1>2, <1>4, <2>1 DEF DocumentFine
<1>7. StoreInv'
  BY <1>1, <1>2, <1>3, <1>5, <1>6 DEF StoreInv, OncePerResource
<1>8. AsksInv'
  BY <1>2, <1>3, AllDisturbed
<1>9. WorldInv'
  BY <1>2 DEF MemoryInv, WorldInv
<1>10. QED
  BY <1>7, <1>8, <1>9 DEF MemoryInv

(* What was deleted was a source that lived, or a document. *)
LEMMA DeletesKeep ==
  ASSUME MemoryInv, Disturbed, remote' = remote, cached' = cached, key' = key,
         (\E id \in Live : DeleteSource(id)) \/ (\E d \in documents : DeleteDocument(d.id))
  PROVE  MemoryInv'
<1>1. /\ made \in Nat /\ sources \in [Slug -> 0..made] /\ IsFiniteSet(documents)
      /\ \A d \in documents : DocumentFine(d)
      /\ OncePerResource
  BY DEF MemoryInv, StoreInv
<1>2. /\ made' = made /\ sources' \in [Slug -> 0..made]
      /\ documents' \subseteq documents
      /\ \A d \in documents' : d.source \in Live'
  <2>1. CASE \E id \in Live : DeleteSource(id)
    <3>1. PICK id \in Live : DeleteSource(id)
      BY <2>1
    <3>2. /\ sources' = [s \in Slug |-> IF sources[s] = id THEN 0 ELSE sources[s]]
          /\ documents' = {d \in documents : d.source # id} /\ made' = made
      BY <3>1 DEF DeleteSource
    <3>3. \A i \in Live : i # id => i \in Live'
      BY <1>1, <3>2 DEF Live
    <3>4. \A d \in documents : d.source \in Live
      BY <1>1 DEF DocumentFine
    <3>5. sources' \in [Slug -> 0..made]
      BY <1>1, <3>2
    <3>6. QED
      BY <3>2, <3>3, <3>4, <3>5
  <2>2. CASE \E d \in documents : DeleteDocument(d.id)
    <3>1. PICK d \in documents : DeleteDocument(d.id)
      BY <2>2
    <3>2. sources' = sources /\ made' = made /\ documents' \subseteq documents
      BY <3>1 DEF DeleteDocument
    <3>3. \A e \in documents : e.source \in Live
      BY <1>1 DEF DocumentFine
    <3>4. Live' = Live
      BY <3>2 DEF Live
    <3>5. QED
      BY <1>1, <3>2, <3>3, <3>4
  <2>3. QED
    BY <2>1, <2>2
<1>3. IsFiniteSet(documents')
  BY <1>1, <1>2, FS_Subset
<1>4. ASSUME NEW d \in documents'
      PROVE  DocumentFine(d)'
  BY <1>1, <1>2 DEF DocumentFine
<1>5. OncePerResource'
  BY <1>1, <1>2 DEF OncePerResource
<1>6. StoreInv'
  BY <1>1, <1>2, <1>3, <1>4, <1>5 DEF StoreInv
<1>7. AsksInv'
  BY <1>1, <1>2, AllDisturbed
<1>8. WorldInv'
  BY DEF MemoryInv, WorldInv
<1>9. QED
  BY <1>6, <1>7, <1>8 DEF MemoryInv

LEMMA CorpusStays ==
  ASSUME StoreInv, UNCHANGED corpus
  PROVE  StoreInv'
<1>1. sources' = sources /\ documents' = documents /\ made' = made
  BY DEF corpus
<1>2. QED
  BY <1>1 DEF StoreInv, DocumentFine, OncePerResource, Live

LEMMA MeanwhileKeeps ==
  ASSUME MemoryInv, Meanwhile
  PROVE  MemoryInv'
<1>0. StoreInv /\ WorldInv /\ AsksInv /\ made \in Nat
  BY DEF MemoryInv, StoreInv
<1>1. CASE /\ (\E id \in Live : DeleteSource(id)) \/ (\E d \in documents : DeleteDocument(d.id))
           /\ Disturbed /\ UNCHANGED <<remote, cached, key>>
  BY <1>1, DeletesKeep
<1>2. CASE /\ \E x \in External, b \in Body : b # remote[x] /\ remote' = [remote EXCEPT ![x] = b]
           /\ Disturbed /\ UNCHANGED <<corpus, cached, key>>
  <2>1. StoreInv' /\ made' = made
    BY <1>0, <1>2, CorpusStays DEF corpus
  <2>2. WorldInv'
    BY <1>0, <1>2 DEF WorldInv
  <2>3. AsksInv'
    BY <1>0, <1>2, <2>1, AllDisturbed
  <2>4. QED
    BY <2>1, <2>2, <2>3 DEF MemoryInv
<1>3. CASE /\ \E x \in External, snapshot \in Others : cached' = [cached EXCEPT ![x] = snapshot]
           /\ Disturbed /\ UNCHANGED <<corpus, remote, key>>
  <2>1. StoreInv' /\ made' = made
    BY <1>0, <1>3, CorpusStays DEF corpus
  <2>2. WorldInv'
    BY <1>0, <1>3, KnowledgeFacts DEF WorldInv
  <2>3. AsksInv'
    BY <1>0, <1>3, <2>1, AllDisturbed
  <2>4. QED
    BY <2>1, <2>2, <2>3 DEF MemoryInv
<1>4. CASE /\ key' \in {"none", "own", "unsealable"} \ {key}
           /\ UNCHANGED <<corpus, remote, cached, call>>
  <2>1. StoreInv' /\ made' = made
    BY <1>0, <1>4, CorpusStays DEF corpus
  <2>2. WorldInv'
    BY <1>0, <1>4 DEF WorldInv
  <2>3. AsksInv'
    BY <1>0, <1>4, <2>1 DEF AsksInv
  <2>4. QED
    BY <2>1, <2>2, <2>3 DEF MemoryInv
<1>5. QED
  BY <1>1, <1>2, <1>3, <1>4 DEF Meanwhile

LEMMA MemoryStutters ==
  ASSUME MemoryInv, UNCHANGED knowledge
  PROVE  MemoryInv'
<1>1. UNCHANGED corpus /\ remote' = remote /\ cached' = cached /\ key' = key /\ call' = call
  BY DEF knowledge
<1>2. StoreInv' /\ made' = made
  BY <1>1, CorpusStays DEF MemoryInv, corpus
<1>3. QED
  BY <1>1, <1>2 DEF MemoryInv, WorldInv, AsksInv

(* Every step keeps the invariant. *)
LEMMA MemoryNext == MemoryInv /\ [KnowledgeNext]_knowledge => MemoryInv'
<1> SUFFICES ASSUME MemoryInv, [KnowledgeNext]_knowledge
             PROVE  MemoryInv'
  OBVIOUS
<1>1. ASSUME NEW c \in Caller, Begin(c)
      PROVE  MemoryInv'
  BY <1>1, BeginKeeps
<1>2. ASSUME NEW c \in Caller, Step(c)
      PROVE  MemoryInv'
  <2>1. CASE FindSource(c)
    BY <2>1, FindSourceKeeps
  <2>2. CASE List(c)
    BY <2>2, ListKeeps
  <2>3. CASE Read(c)
    BY <2>3, ReadKeeps
  <2>4. CASE Imported(c)
    BY <2>4, ImportedKeeps
  <2>5. CASE Check(c)
    BY <2>5, CheckKeeps
  <2>6. CASE Payer(c)
    BY <2>6, PayerKeeps
  <2>7. CASE Embed(c)
    BY <2>7, EmbedKeeps
  <2>8. CASE Commit(c)
    BY <2>8, CommitKeeps
  <2>9. CASE SearchMemory(c)
    BY <2>9, SearchMemoryKeeps
  <2>10. CASE SearchFirst(c)
    BY <2>10, SearchFirstKeeps
  <2>11. QED
    BY <1>2, <2>1, <2>2, <2>3, <2>4, <2>5, <2>6, <2>7, <2>8, <2>9, <2>10 DEF Step
<1>3. ASSUME NEW c \in Caller, Trouble(c)
      PROVE  MemoryInv'
  BY <1>3, TroubleKeeps
<1>4. ASSUME NEW s \in Slug, MakeSource(s)
      PROVE  MemoryInv'
  BY <1>4, MakeSourceKeeps
<1>5. CASE Meanwhile
  BY <1>5, MeanwhileKeeps
<1>6. CASE UNCHANGED knowledge
  BY <1>6, MemoryStutters
<1>7. QED
  BY <1>1, <1>2, <1>3, <1>4, <1>5, <1>6 DEF KnowledgeNext

LEMMA MemoryHolds == KnowledgeSpec => []MemoryInv
<1>1. QED
  BY MemoryInit, MemoryNext, PTL DEF KnowledgeSpec

(* The invariant has the corpus whole. *)
LEMMA WholeCorpus == MemoryInv => CorpusIsWhole
<1> SUFFICES ASSUME MemoryInv
             PROVE  CorpusIsWhole
  OBVIOUS
<1>1. StoreInv /\ WorldInv /\ AsksInv
  BY DEF MemoryInv
<1>2. KnowledgeTypeOK
  <2>1. ASSUME NEW c \in Caller
        PROVE  /\ call[c].task \in Task /\ call[c].ids \subseteq 1..made
               /\ Len(call[c].vectors) <= Len(Wanted(c))
               /\ call[c].failed \subseteq External /\ call[c].bare \subseteq External
    <3>1. AskFine(call[c], made) /\ call[c] \in Asks
      BY AskOf
    <3>2. Wanted(c) = Texts(call[c])
      BY DEF Wanted, Texts
    <3>3. Begins(call[c].vectors, Texts(call[c])) /\ call[c].ids \subseteq 1..made
      BY <3>1 DEF AskFine
    <3>4. QED
      BY <3>1, <3>2, <3>3 DEF Asks, Begins
  <2>2. QED
    BY <1>1, <2>1 DEF KnowledgeTypeOK, StoreInv, WorldInv, DocumentFine
<1>3. ASSUME NEW d \in documents
      PROVE  /\ d.source \in Live
             /\ d.chunks = [k \in DOMAIN Pieces(d.body) |->
                              [text |-> <<d.body, k>>, vector |-> <<d.body, k>>]]
             /\ LET chunks == ChunksOf[d.body]
                IN  /\ \A k \in DOMAIN chunks : ChunkLength(chunks[k]) <= ChunkSize + Overlap + 2
                    /\ Total([k \in DOMAIN chunks |->
                                Total([p \in DOMAIN chunks[k].pieces |-> chunks[k].pieces[p].chars])])
                         = Chars(Text[d.body])
  <2>1. DocumentFine(d)
    BY <1>1 DEF StoreInv
  <2>2. d.source \in Live /\ d.chunks = Whole(d.body) /\ d.body \in Body
    BY <2>1 DEF DocumentFine
  <2> DEFINE chunks == ChunksOf[d.body]
  <2>3. chunks \in Seq(Fine) /\ Total(Held(chunks)) = Chars(Text[d.body])
    BY <2>2, BodyIsCut
  <2> HIDE DEF chunks
  <2>4. \A k \in DOMAIN chunks : ChunkLength(chunks[k]) <= ChunkSize + Overlap + 2
    <3>1. \A k \in DOMAIN chunks : chunks[k] \in Fine
      BY <2>3
    <3>2. QED
      BY <3>1, FineIsChunk
  <2>5. Held(chunks) = [k \in DOMAIN chunks |->
                          Total([p \in DOMAIN chunks[k].pieces |-> chunks[k].pieces[p].chars])]
    BY DEF Held, CharsIn
  <2>6. QED
    BY <2>2, <2>3, <2>4, <2>5 DEF Whole, chunks
<1>4. \A d, e \in documents :
        d.id = e.id \/ (d.source = e.source /\ d.external = e.external
                          /\ d.external # "none") => d = e
  BY <1>1 DEF StoreInv, OncePerResource
<1>5. QED
  BY <1>2, <1>3, <1>4, Zenon DEF CorpusIsWhole

(* In every state, whatever is written and by whomever, the corpus is      *)
(* whole: a document belongs to a source that exists, a resource is in a   *)
(* source once, and a document's chunks are those of its body, of the size *)
(* asked for, and leave out nothing but spacing.                           *)
THEOREM CorpusStaysWhole == KnowledgeSpec => []CorpusIsWhole
<1>1. QED
  BY MemoryHolds, WholeCorpus, PTL

-----------------------------------------------------------------------------
(***************************************************************************)
(* What an undisturbed call may rely on.                                   *)
(***************************************************************************)

(* The hits there are to a query are finitely many. *)
LEMMA ImageIsFinite ==
  ASSUME NEW S, IsFiniteSet(S), NEW R, NEW f, f \in [S -> R], \A y \in R : \E x \in S : f[x] = y
  PROVE  IsFiniteSet(R)
<1>1. f \in Surjection(S, R)
  BY DEF Surjection
<1>2. QED
  BY <1>1, FS_Surjection

HitsIn(d, query) == {Hit(d, k) : k \in {j \in DOMAIN d.chunks : Related(query, d.chunks[j].vector)}}

LEMMA FoundIsFinite ==
  ASSUME MemoryInv, NEW ids, NEW query
  PROVE  IsFiniteSet(Found(ids, query))
<1> DEFINE D == {e \in documents : e.source \in ids}
           f == [d \in D |-> HitsIn(d, query)]
           T == {HitsIn(d, query) : d \in D}
<1>1. IsFiniteSet(documents) /\ \A d \in documents : DocumentFine(d)
  BY DEF MemoryInv, StoreInv
<1>2. IsFiniteSet(D)
  BY <1>1, FS_Subset
<1>3. ASSUME NEW d \in D
      PROVE  IsFiniteSet(HitsIn(d, query))
  <2>1. d.body \in Body /\ d.chunks = Whole(d.body)
    BY <1>1 DEF DocumentFine
  <2>2. DOMAIN d.chunks = 1..Len(ChunksOf[d.body]) /\ Len(ChunksOf[d.body]) \in Nat
    BY <2>1, WholeIs
  <2> DEFINE K == {j \in DOMAIN d.chunks : Related(query, d.chunks[j].vector)}
             n == Len(ChunksOf[d.body])
             g == [k \in K |-> Hit(d, k)]
             G == {Hit(d, k) : k \in K}
  <2>3. IsFiniteSet(K)
    <3>1. IsFiniteSet(1..n)
      BY <2>2, FS_Interval
    <3>2. K \in SUBSET (1..n)
      BY <2>2
    <3> HIDE DEF K, n
    <3>3. QED
      BY <3>1, <3>2, FS_Subset
  <2> HIDE DEF K
  <2>4. g \in [K -> G] /\ \A y \in G : \E k \in K : g[k] = y
    OBVIOUS
  <2> HIDE DEF g, G
  <2>5. IsFiniteSet(G)
    BY <2>3, <2>4, ImageIsFinite
  <2>6. QED
    BY <2>5 DEF HitsIn, G, K
<1> HIDE DEF D
<1>4. f \in [D -> T] /\ \A y \in T : \E d \in D : f[d] = y
  OBVIOUS
<1>5. \A S \in T : IsFiniteSet(S)
  BY <1>3
<1> HIDE DEF f, T
<1>6. IsFiniteSet(T)
  BY <1>2, <1>4, ImageIsFinite
<1>7. IsFiniteSet(UNION T)
  BY <1>5, <1>6, FS_UNION
<1>8. Found(ids, query) = UNION T
  BY DEF Found, T, D, HitsIn
<1>9. QED
  BY <1>7, <1>8

-----------------------------------------------------------------------------
(* What the locals of an undisturbed call are true of. *)
Target(ask) == CHOOSE id \in ask.ids : TRUE

Settled(ask, x) ==
    x \in ask.failed \/ Text[remote[x]] = <<>> \/ x \in ask.bare \ WithContent
      \/ \E d \in documents : d.source = Target(ask) /\ d.external = x /\ d.body = remote[x]

FilledSoFar(ask) ==
    \E n \in 0..Len(Listing) :
        /\ ask.todo = SubSeq(Listing, n + 1, Len(Listing))
        /\ \A k \in 1..n : Settled(ask, Listing[k])

AsItReads(ask) == ask.external = Head(ask.todo) /\ ask.body = remote[ask.external]

Copies(ask) == {h \in Found(ask.ids, ask.body) : Near(ask.body, h.vector)}

Surpassed(ask) ==
    \A h \in Copies(ask) : \E g \in ask.hits \ Copies(ask) : ~Outranks(h, g, 1)

AskTrue(ask) ==
    ask.quiet =>
      /\ ask.task = "import" /\ ask.at \in {"read", "existing", "embedder", "embed", "commit"}
           => FilledSoFar(ask)
      /\ ask.task = "import" /\ ask.at \in {"existing", "embedder", "embed", "commit"}
           => AsItReads(ask)
      /\ ask.task = "search" /\ ask.at \in {"embedder", "embed", "search"}
           => ask.ids = Resolved(Granted)
      /\ ask.task = "remember" /\ ask.at \in {"existing", "embedder", "embed", "commit"}
           /\ (ask.purpose = "document" \/ ask.at \in {"existing", "commit"})
           => Surpassed(ask)

TruthInv == \A c \in Caller : AskTrue(call[c])

(* Between its listing and its end, an undisturbed import finds in the cache *)
(* what its service has, or an entry of the listing that came without.      *)
Reading(ask) ==
    /\ ask.task = "import" /\ ask.quiet
    /\ ask.at \in {"read", "existing", "embedder", "embed", "commit"}

WarmFor(x) ==
    /\ cached[x].has = "content" => cached[x].body = remote[x]
    /\ cached[x].has = "entry" => x \notin WithContent

WarmInv == \A c \in Caller : Reading(call[c]) => \A k \in DOMAIN Listing : WarmFor(Listing[k])

LEMMA CopiesFound ==
  ASSUME NEW c \in Caller
  PROVE  Duplicates(c) = Copies(call[c]) /\ Source(c) = Target(call[c])
BY DEF Duplicates, Copies, Source, Target

LEMMA TruthStays ==
  ASSUME NEW ask, AskTrue(ask), NEW c \in Caller, call'[c] = ask,
         sources' = sources, documents' = documents, remote' = remote
  PROVE  AskTrue(call[c])'
<1>1. \A ids, query : Found(ids, query)' = Found(ids, query)
  BY DEF Found
<1>2. Resolved(Granted)' = Resolved(Granted)
  BY DEF Resolved
<1>3. FilledSoFar(call[c])' <=> FilledSoFar(ask)
  BY DEF FilledSoFar, Settled, Target
<1>4. AsItReads(call[c])' <=> AsItReads(ask)
  BY DEF AsItReads
<1>5. Copies(call[c])' = Copies(ask)
  <2>1. Found(call[c].ids, call[c].body)' = Found(ask.ids, ask.body)
    BY DEF Found
  <2>2. QED
    BY <2>1 DEF Copies
<1>6. Surpassed(call[c])' <=> Surpassed(ask)
  BY <1>5 DEF Surpassed
<1>7. QED
  BY <1>2, <1>3, <1>4, <1>6 DEF AskTrue

LEMMA GoesOnTrue ==
  ASSUME MemoryInv, TruthInv, NEW c \in Caller, NEW next, Goes(c, next), AskTrue(next), UNCHANGED <<corpus, remote>>
  PROVE  TruthInv'
<1>1. sources' = sources /\ documents' = documents /\ remote' = remote
  BY DEF corpus
<1>2. call' = [call EXCEPT ![c] = next] /\ call \in [Caller -> Asks]
  BY DEF Goes, MemoryInv, AsksInv
<1>3. ASSUME NEW d \in Caller
      PROVE  AskTrue(call[d])'
  <2>1. CASE d = c
    <3>1. call'[d] = next
      BY <1>2, <2>1
    <3>2. QED
      BY <1>1, <3>1, TruthStays
  <2>2. CASE d # c
    <3>1. call'[d] = call[d] /\ AskTrue(call[d])
      BY <1>2, <2>2 DEF TruthInv
    <3>2. QED
      BY <1>1, <3>1, TruthStays
  <2>3. QED
    BY <2>1, <2>2
<1>4. QED
  BY <1>3 DEF TruthInv

LEMMA UnquietIsTrue ==
  ASSUME NEW c \in Caller, NEW ask \in Asks, call'[c] = [ask EXCEPT !.quiet = FALSE]
  PROVE  AskTrue(call[c])'
<1>1. call'[c].quiet = FALSE
  BY DEF Asks
<1>2. QED
  BY <1>1 DEF AskTrue

LEMMA DisturbedTrue ==
  ASSUME MemoryInv, Disturbed
  PROVE  TruthInv'
<1>1. ASSUME NEW c \in Caller
      PROVE  AskTrue(call[c])'
  <2>1. call'[c] = [call[c] EXCEPT !.quiet = FALSE] /\ call[c] \in Asks
    BY AskOf DEF Disturbed
  <2>2. QED
    BY <2>1, UnquietIsTrue
<1>2. QED
  BY <1>1 DEF TruthInv

(* A call that is over. *)
LEMMA EndedIsTrue ==
  ASSUME NEW ask \in Asks, NEW outcome
  PROVE  AskTrue(Ends(ask, outcome))
<1>1. Ends(ask, outcome).at = "done"
  BY DEF Ends, Asks
<1>2. QED
  BY <1>1 DEF AskTrue

(* A call goes on from where it is, with what its claim is about unchanged. *)
LEMMA StaysTrue ==
  ASSUME NEW ask, AskTrue(ask), NEW next,
         next.task = ask.task, next.ids = ask.ids, next.body = ask.body,
         next.external = ask.external, next.todo = ask.todo, next.failed = ask.failed,
         next.bare = ask.bare, next.hits = ask.hits, next.quiet = ask.quiet,
         ask.task = "import" => ask.at \in {"existing", "embedder", "embed", "commit"},
         ask.task = "search" => ask.at \in {"embedder", "embed", "search"},
         ask.task = "remember" /\ next.at \in {"existing", "embedder", "embed", "commit"}
             /\ (next.purpose = "document" \/ next.at \in {"existing", "commit"})
           => /\ ask.at \in {"existing", "embedder", "embed", "commit"}
              /\ ask.purpose = "document" \/ ask.at \in {"existing", "commit"}
  PROVE  AskTrue(next)
<1>1. FilledSoFar(ask) => FilledSoFar(next)
  BY DEF FilledSoFar, Settled, Target
<1>2. AsItReads(ask) => AsItReads(next)
  BY DEF AsItReads
<1>3. Copies(ask) = Copies(next)
  BY DEF Copies
<1>4. Surpassed(ask) => Surpassed(next)
  BY <1>3 DEF Surpassed
<1>5. QED
  BY <1>1, <1>2, <1>4 DEF AskTrue

(* The listing, one resource further. *)
LEMMA RestOfListing ==
  ASSUME NEW n \in 0..Len(Listing), NEW todo, todo = SubSeq(Listing, n + 1, Len(Listing))
  PROVE  /\ todo = <<>> => n = Len(Listing)
         /\ todo # <<>> => /\ n + 1 \in 0..Len(Listing) /\ Head(todo) = Listing[n + 1]
                           /\ Tail(todo) = SubSeq(Listing, n + 2, Len(Listing))
<1> DEFINE m == Len(Listing)
<1>1. Listing \in Seq(External) /\ m \in Nat
  BY KnowledgeFacts
<1>2. n \in Nat /\ n <= m /\ todo = SubSeq(Listing, n + 1, m)
  BY <1>1
<1>3. CASE n = m
  <2>1. todo = <<>>
    BY <1>1, <1>2, <1>3, SubSeqEmpty
  <2>2. QED
    BY <1>3, <2>1
<1>4. CASE n # m
  <2>1. n + 1 <= m /\ n + 1 \in 1..m /\ m \in 1..m
    BY <1>1, <1>2, <1>4
  <2>2. Len(todo) = m - n /\ todo[1] = Listing[n + 1]
    BY <1>1, <1>2, <2>1
  <2>3. todo # <<>> /\ Head(todo) = Listing[n + 1]
    <3>1. \A k \in (n + 1)..m : Listing[k] \in External
      BY <1>1, <1>2
    <3>2. todo \in Seq(External)
      BY <1>1, <1>2, <2>1, <3>1, SubSeqProperties
    <3> HIDE DEF m
    <3>3. Len(todo) # 0
      BY <1>1, <1>2, <2>1, <2>2
    <3>4. todo # <<>>
      BY <3>3
    <3>5. QED
      BY <2>2, <3>2, <3>4
  <2>4. Tail(todo) = SubSeq(Listing, n + 2, m)
    BY <1>1, <1>2, <2>1, <2>2
  <2>5. QED
    BY <2>1, <2>3, <2>4
<1>5. QED
  BY <1>3, <1>4

LEMMA GoesFurther ==
  ASSUME NEW ask, FilledSoFar(ask), ask.todo # <<>>, NEW next, next.ids = ask.ids,
         next.todo = Tail(ask.todo), ask.failed \subseteq next.failed,
         ask.bare \subseteq next.bare, Settled(next, Head(ask.todo))
  PROVE  FilledSoFar(next)
<1>1. PICK n \in 0..Len(Listing) :
        /\ ask.todo = SubSeq(Listing, n + 1, Len(Listing))
        /\ \A k \in 1..n : Settled(ask, Listing[k])
  BY DEF FilledSoFar
<1>2. /\ n + 1 \in 0..Len(Listing) /\ Head(ask.todo) = Listing[n + 1]
      /\ Tail(ask.todo) = SubSeq(Listing, n + 2, Len(Listing))
  BY <1>1, RestOfListing
<1>3. n + 2 = (n + 1) + 1 /\ \A k \in 1..(n + 1) : k \in 1..n \/ k = n + 1
  OBVIOUS
<1>4. ASSUME NEW k \in 1..(n + 1)
      PROVE  Settled(next, Listing[k])
  <2>1. CASE k \in 1..n
    <3>1. Settled(ask, Listing[k])
      BY <1>1, <2>1
    <3>2. QED
      BY <3>1 DEF Settled, Target
  <2>2. CASE k = n + 1
    BY <1>2, <2>2
  <2>3. QED
    BY <1>3, <2>1, <2>2
<1>5. next.todo = SubSeq(Listing, (n + 1) + 1, Len(Listing))
  BY <1>2, <1>3
<1>6. QED
  BY <1>2, <1>4, <1>5 DEF FilledSoFar

(* Passing over a resource: it failed, or it is settled. *)
LEMMA FailingTrue ==
  ASSUME NEW ask \in Asks, AskTrue(ask), ask.todo # <<>>, ask.task = "import",
         ask.at \in {"read", "existing", "embedder", "embed", "commit"}
  PROVE  AskTrue(Failing(ask))
<1> DEFINE next == Failing(ask)
<1>1. /\ next.task = "import" /\ next.at = "read" /\ next.quiet = ask.quiet /\ next.ids = ask.ids
      /\ next.todo = Tail(ask.todo) /\ next.failed = ask.failed \cup {Head(ask.todo)}
      /\ next.bare = ask.bare
  BY DEF Failing, Rest, Asks
<1> HIDE DEF next
<1>2. Settled(next, Head(ask.todo))
  BY <1>1 DEF Settled
<1>3. FilledSoFar(ask) => FilledSoFar(next)
  BY <1>1, <1>2, GoesFurther
<1>4. QED
  BY <1>1, <1>3 DEF AskTrue, next

LEMMA FailsTrue ==
  ASSUME NEW n, NEW ask, AskFine(ask, n), AskTrue(ask), ask.task = "import" => ask.todo # <<>>,
         ask.at \in {"read", "existing", "embedder", "embed", "commit", "search"}
  PROVE  AskTrue(Failing(ask))
<1>1. ask \in Asks
  BY DEF AskFine
<1>2. CASE ask.task = "import"
  <2>1. ask.at # "search"
    BY <1>2 DEF AskFine
  <2>2. QED
    BY <1>1, <1>2, <2>1, FailingTrue
<1>3. CASE ask.task # "import"
  BY <1>1, <1>3, EndedIsTrue DEF Failing
<1>4. QED
  BY <1>2, <1>3

LEMMA AsksTrue ==
  ASSUME MemoryInv, TruthInv, NEW c \in Caller
  PROVE  AskTrue(call[c]) /\ AskFine(call[c], made) /\ call[c] \in Asks
BY AskOf DEF TruthInv

(* The actions of a caller, in the order of a call. *)
LEMMA BeginTrue ==
  ASSUME MemoryInv, TruthInv, NEW c \in Caller, Begin(c)
  PROVE  TruthInv'
<1>1. PICK task \in Tasks[c], b \in Says[c], i \in Worth \cup {DefaultImportance} :
        call' = [call EXCEPT ![c] =
           [Idle EXCEPT !.task = task, !.at = "source", !.body = b, !.importance = i]]
  BY DEF Begin
<1> DEFINE next == [Idle EXCEPT !.task = task, !.at = "source", !.body = b, !.importance = i]
<1>2. next.at = "source"
  BY DEF Idle
<1>3. Goes(c, next) /\ UNCHANGED <<corpus, remote>>
  BY <1>1 DEF Begin, Goes
<1> HIDE DEF next
<1>4. AskTrue(next)
  BY <1>2 DEF AskTrue
<1>5. QED
  BY <1>3, <1>4, GoesOnTrue

LEMMA FindSourceTrue ==
  ASSUME MemoryInv, TruthInv, NEW c \in Caller, FindSource(c)
  PROVE  TruthInv'
<1> DEFINE ask == call[c]
           ids == Resolved(Named(ask.task))
           at == CASE ask.task = "import" -> "list"
                   [] ask.task = "add" -> "existing"
                   [] OTHER -> "embedder"
           purpose == IF ask.task \in {"search", "remember"} THEN "query" ELSE "document"
           going == [ask EXCEPT !.ids = ids, !.at = at, !.purpose = purpose]
           next == IF ids = {} THEN Ends(ask, "nowhere") ELSE going
<1>1. ask \in Asks
  BY AsksTrue
<1>2. Goes(c, next) /\ UNCHANGED <<corpus, remote>>
  BY DEF FindSource, Untouched
<1>3. /\ ask.task = "search" => ids = Resolved(Granted)
      /\ ask.task = "import" => at = "list"
      /\ ask.task = "remember" => at = "embedder" /\ purpose = "query"
  BY DEF Named
<1> HIDE DEF ask, ids, at, purpose
<1>4. going.task = ask.task /\ going.at = at /\ going.ids = ids /\ going.purpose = purpose
  BY <1>1 DEF Asks
<1> HIDE DEF going
<1>5. AskTrue(going)
  BY <1>3, <1>4 DEF AskTrue
<1>6. AskTrue(Ends(ask, "nowhere"))
  BY <1>1, EndedIsTrue
<1>7. AskTrue(next)
  BY <1>5, <1>6
<1> HIDE DEF next
<1>8. QED
  BY <1>2, <1>7, GoesOnTrue

LEMMA ListTrue ==
  ASSUME MemoryInv, TruthInv, NEW c \in Caller, List(c)
  PROVE  TruthInv'
<1> DEFINE ask == call[c]
           next == [ask EXCEPT !.at = "read", !.todo = Listing]
<1>1. ask \in Asks /\ AskFine(ask, made)
  BY AsksTrue
<1>2. ask.at = "list" /\ Goes(c, next) /\ UNCHANGED <<corpus, remote>>
  BY DEF List
<1>3. ask.task = "import"
  BY <1>1, <1>2 DEF AskFine
<1> HIDE DEF ask
<1>4. next.task = "import" /\ next.at = "read" /\ next.todo = Listing
  BY <1>1, <1>3 DEF Asks
<1> HIDE DEF next
<1>5. SubSeq(Listing, 0 + 1, Len(Listing)) = Listing /\ 0 \in 0..Len(Listing)
  BY KnowledgeFacts, SubSeqFull
<1>6. FilledSoFar(next)
  BY <1>4, <1>5 DEF FilledSoFar
<1>7. AskTrue(next)
  BY <1>4, <1>6 DEF AskTrue
<1>8. QED
  BY <1>2, <1>7, GoesOnTrue

LEMMA ReadTrue ==
  ASSUME MemoryInv, TruthInv, WarmInv, NEW c \in Caller, Read(c)
  PROVE  TruthInv'
<1> DEFINE ask == call[c]
           x == Head(ask.todo)
<1>1. AskTrue(ask) /\ AskFine(ask, made) /\ ask \in Asks
  BY AsksTrue
<1>2. PICK snapshot \in Served(x) : Goes(c, Takes(ask, snapshot))
  BY DEF Read
<1>3. ask.at = "read" /\ ask.todo # <<>> /\ UNCHANGED <<corpus, remote>>
  BY DEF Read
<1>4. ask.task = "import" /\ x \in External
  BY <1>1, <1>3 DEF AskFine, Asks
<1>5. snapshot \in Snapshot /\ snapshot.has # "nothing"
  BY <1>2, <1>4, CacheKeepsType
<1>6. ask.quiet => FilledSoFar(ask)
  BY <1>1, <1>3, <1>4 DEF AskTrue
<1>7. ASSUME ask.quiet
      PROVE  /\ snapshot.has # "entry" => snapshot.body = remote[x]
             /\ snapshot.has = "entry" => x \notin WithContent
  <2>1. PICK n \in 0..Len(Listing) : ask.todo = SubSeq(Listing, n + 1, Len(Listing))
    BY <1>6, <1>7 DEF FilledSoFar
  <2>2. n + 1 \in DOMAIN Listing /\ x = Listing[n + 1]
    BY <1>3, <2>1, RestOfListing, KnowledgeFacts
  <2>3. Reading(call[c])
    BY <1>3, <1>4, <1>7 DEF Reading
  <2>4. WarmFor(x)
    BY <2>2, <2>3 DEF WarmInv
  <2>5. CASE snapshot = cached[x]
    BY <1>5, <2>4, <2>5 DEF WarmFor, Snapshot
  <2>6. CASE snapshot = Full(remote[x])
    BY <2>6 DEF Full
  <2>7. QED
    BY <2>5, <2>6 DEF Served
<1> HIDE DEF ask
<1> DEFINE next == Takes(ask, snapshot)
<1>8. /\ next.task = "import" /\ next.ids = ask.ids /\ next.failed = ask.failed /\ next.quiet = ask.quiet
      /\ \/ /\ next.at = "read" /\ next.todo = Tail(ask.todo)
            /\ \/ snapshot.has = "entry" /\ next.bare = ask.bare \cup {x}
               \/ snapshot.has # "entry" /\ Text[snapshot.body] = <<>> /\ next.bare = ask.bare
         \/ /\ next.at = "existing" /\ next.todo = ask.todo /\ next.bare = ask.bare
            /\ next.body = snapshot.body /\ next.external = x /\ snapshot.has # "entry"
  BY <1>1, <1>3, <1>4, <1>5, TakesIs
<1> HIDE DEF next
<1>9. CASE next.at = "read"
  <2>1. next.todo = Tail(ask.todo) /\ ask.bare \subseteq next.bare
    BY <1>8, <1>9
  <2>2. ask.quiet => Settled(next, x)
    BY <1>7, <1>8, <1>9 DEF Settled
  <2>3. ask.quiet => FilledSoFar(next)
    BY <1>3, <1>6, <1>8, <2>1, <2>2, GoesFurther
  <2>4. AskTrue(next)
    BY <1>8, <1>9, <2>3 DEF AskTrue
  <2>5. QED
    BY <1>2, <1>3, <2>4, GoesOnTrue DEF next
<1>10. CASE next.at = "existing"
  <2>1. FilledSoFar(ask) => FilledSoFar(next)
    BY <1>8, <1>10 DEF FilledSoFar, Settled, Target
  <2>2. ask.quiet => AsItReads(next)
    BY <1>7, <1>8, <1>10 DEF AsItReads
  <2>3. AskTrue(next)
    BY <1>6, <1>8, <1>10, <2>1, <2>2 DEF AskTrue
  <2>4. QED
    BY <1>2, <1>3, <2>3, GoesOnTrue DEF next
<1>11. QED
  BY <1>8, <1>9, <1>10

LEMMA ImportedTrue ==
  ASSUME MemoryInv, TruthInv, NEW c \in Caller, Imported(c)
  PROVE  TruthInv'
<1>1. Goes(c, Ends(call[c], "imported")) /\ UNCHANGED <<corpus, remote>>
  BY DEF Imported, Untouched
<1>2. AskTrue(Ends(call[c], "imported"))
  BY AsksTrue, EndedIsTrue
<1>3. QED
  BY <1>1, <1>2, GoesOnTrue

LEMMA TroubleTrue ==
  ASSUME MemoryInv, TruthInv, NEW c \in Caller, Trouble(c)
  PROVE  TruthInv'
<1>1. AskTrue(call[c]) /\ AskFine(call[c], made) /\ call[c] \in Asks /\ UNCHANGED <<corpus, remote>>
  BY AsksTrue DEF Trouble
<1>2. CASE Fails(c)
  <2>1. Goes(c, Failing(call[c]))
    BY <1>2 DEF Fails
  <2>2. /\ call[c].task = "import" => call[c].todo # <<>>
        /\ call[c].at \in {"read", "existing", "embedder", "embed", "commit", "search"}
    BY <1>1, <1>2 DEF Fails, AskFine
  <2>3. AskTrue(Failing(call[c]))
    BY <1>1, <2>2, FailsTrue
  <2>4. QED
    BY <1>1, <2>1, <2>3, GoesOnTrue
<1>3. CASE Unlisted(c)
  <2>1. Goes(c, Ends(call[c], "failed"))
    BY <1>3 DEF Unlisted
  <2>2. QED
    BY <1>1, <2>1, EndedIsTrue, GoesOnTrue
<1>4. QED
  BY <1>2, <1>3 DEF Trouble

LEMMA CheckTrue ==
  ASSUME MemoryInv, TruthInv, NEW c \in Caller, Check(c)
  PROVE  TruthInv'
<1> DEFINE ask == call[c]
           going == [ask EXCEPT !.at = "embedder", !.purpose = "document", !.vectors = <<>>]
           next == IF Text[ask.body] = <<>> THEN Failing(ask)
                   ELSE IF Existing(Source(c), ask.external, ask.body) # {}
                   THEN Succeeding(ask, "unchanged") ELSE going
<1>1. AskTrue(ask) /\ AskFine(ask, made) /\ ask \in Asks
  BY AsksTrue
<1>2. ask.at = "existing" /\ Goes(c, next) /\ UNCHANGED <<corpus, remote>>
  BY DEF Check, Untouched
<1>3. ask.task = "import" => ask.todo # <<>>
  BY <1>1, <1>2 DEF AskFine
<1>4. Source(c) = Target(ask)
  BY CopiesFound
<1> HIDE DEF ask
<1>5. AskTrue(going)
  <2>1. /\ going.task = ask.task /\ going.at = "embedder" /\ going.ids = ask.ids /\ going.body = ask.body
        /\ going.external = ask.external /\ going.todo = ask.todo /\ going.failed = ask.failed
        /\ going.bare = ask.bare
        /\ going.hits = ask.hits /\ going.quiet = ask.quiet
    BY <1>1 DEF Asks
  <2>2. ask.task # "search"
    BY <1>1, <1>2 DEF AskFine
  <2> HIDE DEF going
  <2>3. QED
    BY <1>1, <1>2, <2>1, <2>2, StaysTrue
<1>6. AskTrue(Failing(ask))
  BY <1>1, <1>2, <1>3, FailsTrue
<1>7. ASSUME Existing(Source(c), ask.external, ask.body) # {}
      PROVE  AskTrue(Succeeding(ask, "unchanged"))
  <2>1. PICK d \in documents : d.source = Target(ask) /\ d.external = ask.external /\ d.body = ask.body
    BY <1>4, <1>7 DEF Existing, Stored
  <2>2. CASE ask.task # "import"
    BY <1>1, <2>2, EndedIsTrue DEF Succeeding
  <2>3. CASE ask.task = "import"
    <3> DEFINE done == Succeeding(ask, "unchanged")
    <3>1. /\ done.task = "import" /\ done.at = "read" /\ done.ids = ask.ids /\ done.failed = ask.failed
          /\ done.bare = ask.bare
          /\ done.todo = Tail(ask.todo) /\ done.quiet = ask.quiet
      BY <1>1, <2>3 DEF Succeeding, Asks
    <3> HIDE DEF done
    <3>2. ask.quiet => FilledSoFar(ask) /\ AsItReads(ask)
      BY <1>1, <1>2, <2>3 DEF AskTrue
    <3>3. ask.quiet => Settled(done, Head(ask.todo))
      BY <2>1, <3>1, <3>2 DEF AsItReads, Settled, Target
    <3>4. ask.quiet => FilledSoFar(done)
      BY <1>3, <2>3, <3>1, <3>2, <3>3, GoesFurther
    <3>5. QED
      BY <3>1, <3>4 DEF AskTrue, done
  <2>4. QED
    BY <2>2, <2>3
<1> HIDE DEF going
<1>8. AskTrue(next)
  BY <1>5, <1>6, <1>7
<1> HIDE DEF next
<1>9. QED
  BY <1>2, <1>8, GoesOnTrue

(* The actions of a caller, in the order of a call. *)
LEMMA PayerTrue ==
  ASSUME MemoryInv, TruthInv, NEW c \in Caller, Payer(c)
  PROVE  TruthInv'
<1> DEFINE ask == call[c]
           going == [ask EXCEPT !.at = "embed"]
           next == IF key = "unsealable" \/ (key = "none" /\ ~Platform) THEN Failing(ask) ELSE going
<1>1. AskTrue(ask) /\ AskFine(ask, made) /\ ask \in Asks
  BY AsksTrue
<1>2. ask.at = "embedder" /\ Goes(c, next) /\ UNCHANGED <<corpus, remote>>
  BY DEF Payer, Untouched
<1>3. ask.task = "import" => ask.todo # <<>>
  BY <1>1, <1>2 DEF AskFine
<1> HIDE DEF ask
<1>4. AskTrue(going)
  <2>1. /\ going.task = ask.task /\ going.at = "embed" /\ going.ids = ask.ids /\ going.body = ask.body
        /\ going.external = ask.external /\ going.todo = ask.todo /\ going.failed = ask.failed
        /\ going.bare = ask.bare
        /\ going.hits = ask.hits /\ going.quiet = ask.quiet /\ going.purpose = ask.purpose
    BY <1>1 DEF Asks
  <2> HIDE DEF going
  <2>2. QED
    BY <1>1, <1>2, <2>1, StaysTrue
<1>5. AskTrue(Failing(ask))
  BY <1>1, <1>2, <1>3, FailsTrue
<1> HIDE DEF going
<1>6. AskTrue(next)
  BY <1>4, <1>5
<1> HIDE DEF next
<1>7. QED
  BY <1>2, <1>6, GoesOnTrue

LEMMA EmbedTrue ==
  ASSUME MemoryInv, TruthInv, NEW c \in Caller, Embed(c)
  PROVE  TruthInv'
<1> DEFINE ask == call[c]
           texts == Wanted(c)
           batch == Batch(texts, Len(ask.vectors))
<1>1. AskTrue(ask) /\ AskFine(ask, made) /\ ask \in Asks
  BY AsksTrue
<1>2. ask.at = "embed" /\ UNCHANGED <<corpus, remote>>
  BY DEF Embed, Untouched
<1>3. /\ ask.task = "import" => ask.todo # <<>> /\ ask.purpose = "document"
      /\ ask.task = "search" => ask.purpose = "query"
  BY <1>1, <1>2 DEF AskFine
<1>4. PICK answer \in Answers(batch) :
        IF Complete(batch, answer)
        THEN LET vectors == ask.vectors \o Ordered(answer)
             IN  Goes(c, [ask EXCEPT !.vectors = vectors,
                            !.at = IF Len(vectors) < Len(texts) THEN "embed"
                                   ELSE IF ask.purpose = "query" THEN "search" ELSE "commit"])
        ELSE Goes(c, Failing(ask))
  BY Zenon DEF Embed
<1>5. CASE ~ Complete(batch, answer)
  <2>1. Goes(c, Failing(ask))
    BY <1>4, <1>5
  <2>2. AskTrue(Failing(ask))
    BY <1>1, <1>2, <1>3, FailsTrue
  <2>3. QED
    BY <1>2, <2>1, <2>2, GoesOnTrue
<1>6. CASE Complete(batch, answer)
  <2> DEFINE vectors == ask.vectors \o Ordered(answer)
             at == IF Len(vectors) < Len(texts) THEN "embed"
                   ELSE IF ask.purpose = "query" THEN "search" ELSE "commit"
             next == [ask EXCEPT !.vectors = vectors, !.at = at]
  <2>1. Goes(c, next)
    BY <1>4, <1>6
  <2>2. /\ at \in {"embed", "search", "commit"}
        /\ at = "commit" => ask.purpose # "query"
        /\ at = "search" => ask.purpose = "query"
    OBVIOUS
  <2>3. ask.purpose \in {"query", "document"}
    BY <1>1 DEF Asks
  <2> HIDE DEF ask, at, vectors
  <2>4. /\ next.task = ask.task /\ next.at = at /\ next.ids = ask.ids /\ next.body = ask.body
        /\ next.bare = ask.bare
        /\ next.external = ask.external /\ next.todo = ask.todo /\ next.failed = ask.failed
        /\ next.hits = ask.hits /\ next.quiet = ask.quiet /\ next.purpose = ask.purpose
    BY <1>1 DEF Asks
  <2> HIDE DEF next
  <2>5. AskTrue(next)
    BY <1>1, <1>2, <2>2, <2>3, <2>4, StaysTrue
  <2>6. QED
    BY <1>2, <2>1, <2>5, GoesOnTrue
<1>7. QED
  BY <1>5, <1>6

LEMMA SearchMemoryTrue ==
  ASSUME MemoryInv, TruthInv, NEW c \in Caller, SearchMemory(c)
  PROVE  TruthInv'
<1> DEFINE ask == call[c]
           all == Found(ask.ids, ask.body)
<1>1. PICK page \in Page(all, SearchLimit) : Goes(c, Ends([ask EXCEPT !.hits = page], "answered"))
  BY DEF SearchMemory
<1>2. UNCHANGED <<corpus, remote>>
  BY DEF SearchMemory, Untouched
<1>3. ask \in Asks
  BY AsksTrue
<1> DEFINE next == Ends([ask EXCEPT !.hits = page], "answered")
<1>4. next.at = "done"
  BY <1>3 DEF Ends, Asks
<1>5. AskTrue(next)
  BY <1>4 DEF AskTrue
<1> HIDE DEF next
<1>6. Goes(c, next)
  BY <1>1 DEF next
<1>7. QED
  BY <1>2, <1>5, <1>6, GoesOnTrue

(* A page of one that has no copy of the fact outranks every copy there is. *)
LEMMA PageOfOne ==
  ASSUME NEW all, IsFiniteSet(all), NEW page \in Page(all, 1), NEW h \in all, h \notin page
  PROVE  \E g \in page : ~Outranks(h, g, 1)
<1>1. /\ page \subseteq all /\ Cardinality(page) = Least(1, Cardinality(all))
      /\ \A x \in all \ page, y \in page : ~Outranks(x, y, 1)
  BY DEF Page
<1>2. Cardinality(all) \in Nat /\ Cardinality(all) # 0
  BY FS_CardinalityType, FS_EmptySet
<1>3. Cardinality(page) # 0
  BY <1>1, <1>2 DEF Least
<1>4. page # {}
  BY <1>3, FS_EmptySet
<1>5. QED
  BY <1>1, <1>4

LEMMA SearchFirstTrue ==
  ASSUME MemoryInv, TruthInv, NEW c \in Caller, SearchFirst(c)
  PROVE  TruthInv'
<1> DEFINE ask == call[c]
           all == Found(ask.ids, ask.body)
<1>1. ask \in Asks
  BY AsksTrue
<1>2. ask.task = "remember" /\ UNCHANGED <<corpus, remote>>
  BY DEF SearchFirst, Untouched
<1>3. PICK page \in Page(all, 1) :
        LET next == [ask EXCEPT !.hits = page]
        IN  Goes(c, IF \E h \in page : Near(next.body, h.vector)
                    THEN Ends(next, "already") ELSE [next EXCEPT !.at = "existing"])
  BY Zenon DEF SearchFirst
<1>4. IsFiniteSet(all) /\ page \subseteq all
  BY FoundIsFinite DEF Page
<1> HIDE DEF ask
<1> DEFINE next == [ask EXCEPT !.hits = page]
           going == [next EXCEPT !.at = "existing"]
<1>5. Goes(c, IF \E h \in page : Near(next.body, h.vector) THEN Ends(next, "already") ELSE going)
  BY <1>3
<1>6. CASE \E h \in page : Near(next.body, h.vector)
  <2>1. Ends(next, "already").at = "done"
    BY <1>1 DEF Ends, Asks
  <2>2. AskTrue(Ends(next, "already"))
    BY <2>1 DEF AskTrue
  <2>3. Goes(c, Ends(next, "already"))
    BY <1>5, <1>6
  <2> HIDE DEF next
  <2>4. QED
    BY <1>2, <2>2, <2>3, GoesOnTrue
<1>7. CASE ~ \E h \in page : Near(next.body, h.vector)
  <2>1. /\ going.task = "remember" /\ going.at = "existing" /\ going.ids = ask.ids /\ next.body = ask.body
        /\ going.body = ask.body /\ going.hits = page
    BY <1>1, <1>2 DEF Asks
  <2>2. Goes(c, going)
    BY <1>5, <1>7
  <2> HIDE DEF going, next, all
  <2>3. Copies(going) = {h \in all : Near(ask.body, h.vector)}
    BY <2>1 DEF Copies, all
  <2>4. \A h \in page : h \notin Copies(going)
    BY <1>7, <2>1, <2>3
  <2>5. ASSUME NEW h \in Copies(going)
        PROVE  \E g \in going.hits \ Copies(going) : ~Outranks(h, g, 1)
    <3>1. h \in all /\ h \notin page
      BY <2>3, <2>4
    <3>2. PICK g \in page : ~Outranks(h, g, 1)
      BY <1>4, <3>1, PageOfOne
    <3>3. QED
      BY <2>1, <2>4, <3>2
  <2>6. AskTrue(going)
    BY <2>1, <2>5 DEF AskTrue, Surpassed
  <2>7. QED
    BY <1>2, <2>2, <2>6, GoesOnTrue
<1>8. QED
  BY <1>6, <1>7

(* What a call writes replaces nothing an import before it had settled. *)
LEMMA StaysSettled ==
  ASSUME NEW ask, NEW input, input.source = Target(ask), input.external = ask.external,
         input.body = ask.body, NEW vectors, Upsert(input, vectors), remote' = remote,
         AsItReads(ask), NEW next, next.ids = ask.ids, ask.failed \subseteq next.failed,
         ask.bare \subseteq next.bare,
         NEW x, Settled(ask, x) \/ x = ask.external
  PROVE  \/ x \in next.failed \/ Text[remote[x]] = <<>> \/ x \in next.bare \ WithContent
         \/ \E d \in documents' : d.source = Target(next) /\ d.external = x /\ d.body = remote[x]
<1> DEFINE old == Stored(input.source, input.external)
           id == IF old = {} THEN made + 1 ELSE (CHOOSE d \in old : TRUE).id
           new == [id |-> id, source |-> input.source, external |-> input.external,
                   body |-> input.body, provenance |-> input.provenance,
                   importance |-> input.importance, chunks |-> Rows(input.body, vectors)]
<1>1. documents' = (documents \ old) \cup {new}
  BY Zenon DEF Upsert
<1>2. new \in documents' /\ new.source = input.source /\ new.external = input.external /\ new.body = input.body
  BY <1>1
<1>3. \A d \in old : d.external = input.external
  BY DEF Stored
<1> HIDE DEF id, old, new
<1>4. Target(next) = Target(ask) /\ ask.body = remote[ask.external]
  BY DEF Target, AsItReads
<1>5. CASE x = ask.external
  BY <1>2, <1>4, <1>5
<1>6. CASE x # ask.external /\ Settled(ask, x)
  <2>1. ASSUME NEW d \in documents, d.source = Target(ask), d.external = x, d.body = remote[x]
        PROVE  d \in documents'
    BY <1>1, <1>3, <1>6, <2>1
  <2>2. QED
    BY <1>4, <1>6, <2>1 DEF Settled
<1>7. QED
  BY <1>5, <1>6

LEMMA CommittedTrue ==
  ASSUME NEW c \in Caller, NEW ask \in Asks, AskTrue(ask), ask.at = "commit",
         ask.task = "import" => ask.todo # <<>>,
         NEW input, input.source = Target(ask), input.external = ask.external,
         input.body = ask.body, NEW vectors, Upsert(input, vectors), remote' = remote,
         call'[c] = Succeeding(ask, "written") \/ call'[c] = Failing(ask)
  PROVE  AskTrue(call[c])'
<1>1. CASE ask.task # "import"
  <2>1. call'[c].at = "done"
    BY <1>1 DEF Succeeding, Failing, Ends, Asks
  <2>2. QED
    BY <2>1 DEF AskTrue
<1>2. CASE ask.task = "import"
  <2> DEFINE next == call'[c]
  <2>1. /\ next.task = "import" /\ next.at = "read" /\ next.quiet = ask.quiet /\ next.ids = ask.ids
        /\ next.todo = Tail(ask.todo) /\ ask.failed \subseteq next.failed /\ ask.bare = next.bare
    BY <1>2 DEF Succeeding, Failing, Rest, Asks
  <2>2. ASSUME ask.quiet
        PROVE  FilledSoFar(call[c])'
    <3>1. FilledSoFar(ask) /\ AsItReads(ask)
      BY <1>2, <2>2 DEF AskTrue
    <3>2. PICK n \in 0..Len(Listing) :
            /\ ask.todo = SubSeq(Listing, n + 1, Len(Listing))
            /\ \A k \in 1..n : Settled(ask, Listing[k])
      BY <3>1 DEF FilledSoFar
    <3>3. /\ n + 1 \in 0..Len(Listing) /\ Head(ask.todo) = Listing[n + 1]
          /\ Tail(ask.todo) = SubSeq(Listing, n + 2, Len(Listing))
      BY <1>2, <3>2, RestOfListing
    <3>4. n + 2 = (n + 1) + 1 /\ \A k \in 1..(n + 1) : k \in 1..n \/ k = n + 1
      OBVIOUS
    <3>5. ASSUME NEW k \in 1..(n + 1)
          PROVE  Settled(call[c], Listing[k])'
      <4> DEFINE x == Listing[k]
      <4>1. Settled(ask, x) \/ x = ask.external
        <5>1. ask.external = Listing[n + 1]
          BY <3>1, <3>3 DEF AsItReads
        <5>2. QED
          BY <3>2, <3>4, <5>1
      <4> HIDE DEF x, next
      <4>2. \/ x \in next.failed \/ Text[remote[x]] = <<>> \/ x \in next.bare \ WithContent
            \/ \E d \in documents' : d.source = Target(next) /\ d.external = x /\ d.body = remote[x]
        BY <2>1, <3>1, <4>1, StaysSettled
      <4>3. QED
        BY <4>2 DEF Settled, Target, x, next
    <3>6. next.todo = SubSeq(Listing, (n + 1) + 1, Len(Listing))
      BY <2>1, <3>3, <3>4
    <3>7. QED
      BY <3>3, <3>5, <3>6 DEF FilledSoFar
  <2>3. QED
    BY <2>1, <2>2 DEF AskTrue
<1>3. QED
  BY <1>1, <1>2

LEMMA CommitTrue ==
  ASSUME MemoryInv, TruthInv, NEW c \in Caller, Commit(c)
  PROVE  TruthInv'
<1> DEFINE ask == call[c]
           input == [source |-> Source(c), external |-> ask.external, body |-> ask.body,
                     importance |-> ask.importance, provenance |-> Provenance[ask.task]]
<1>1. AskTrue(ask) /\ AskFine(ask, made) /\ ask \in Asks
  BY AsksTrue
<1>2. ask.at = "commit" /\ remote' = remote
  BY DEF Commit
<1>3. ask.task = "import" => ask.todo # <<>>
  BY <1>1, <1>2 DEF AskFine
<1>4. CASE Source(c) \notin Live
  <2>1. Goes(c, Failing(ask)) /\ UNCHANGED corpus
    BY <1>4 DEF Commit
  <2>2. AskTrue(Failing(ask))
    BY <1>1, <1>2, <1>3, FailsTrue
  <2>3. QED
    BY <1>2, <2>1, <2>2, GoesOnTrue
<1>5. CASE Source(c) \in Live
  <2>1. /\ Upsert(input, ask.vectors)
        /\ GoesWriting(c, Succeeding(ask, "written")) \/ GoesWriting(c, Failing(ask))
    BY <1>5 DEF Commit
  <2>2. /\ call'[c] = Succeeding(ask, "written") \/ call'[c] = Failing(ask)
        /\ \A d \in Caller \ {c} : call'[d] = [call[d] EXCEPT !.quiet = FALSE]
    BY <2>1 DEF GoesWriting
  <2>3. input.source = Target(ask) /\ input.external = ask.external /\ input.body = ask.body
    BY CopiesFound
  <2> HIDE DEF input, ask
  <2>4. AskTrue(call[c])'
    BY <1>1, <1>2, <1>3, <2>1, <2>2, <2>3, CommittedTrue
  <2>5. ASSUME NEW d \in Caller, d # c
        PROVE  AskTrue(call[d])'
    BY <2>2, <2>5, AsksTrue, UnquietIsTrue
  <2>6. QED
    BY <2>4, <2>5 DEF TruthInv
<1>6. QED
  BY <1>4, <1>5

LEMMA MeanwhileTrue ==
  ASSUME MemoryInv, TruthInv, Meanwhile
  PROVE  TruthInv'
<1>1. CASE Disturbed
  BY <1>1, DisturbedTrue
<1>2. CASE UNCHANGED <<corpus, remote, call>>
  <2>1. ASSUME NEW c \in Caller
        PROVE  AskTrue(call[c])'
    <3>1. /\ call'[c] = call[c] /\ sources' = sources /\ documents' = documents /\ remote' = remote
          /\ AskTrue(call[c])
      BY <1>2 DEF TruthInv, corpus
    <3>2. QED
      BY <3>1, TruthStays
  <2>2. QED
    BY <2>1 DEF TruthInv
<1>3. QED
  BY <1>1, <1>2 DEF Meanwhile

(* Every step keeps it. *)
LEMMA TruthNext == MemoryInv /\ TruthInv /\ WarmInv /\ [KnowledgeNext]_knowledge => TruthInv'
<1> SUFFICES ASSUME MemoryInv, TruthInv, WarmInv, [KnowledgeNext]_knowledge
             PROVE  TruthInv'
  OBVIOUS
<1>1. ASSUME NEW c \in Caller, Step(c)
      PROVE  TruthInv'
  <2>1. CASE FindSource(c)
    BY <2>1, FindSourceTrue
  <2>2. CASE List(c)
    BY <2>2, ListTrue
  <2>3. CASE Read(c)
    BY <2>3, ReadTrue
  <2>4. CASE Imported(c)
    BY <2>4, ImportedTrue
  <2>5. CASE Check(c)
    BY <2>5, CheckTrue
  <2>6. CASE Payer(c)
    BY <2>6, PayerTrue
  <2>7. CASE Embed(c)
    BY <2>7, EmbedTrue
  <2>8. CASE Commit(c)
    BY <2>8, CommitTrue
  <2>9. CASE SearchMemory(c)
    BY <2>9, SearchMemoryTrue
  <2>10. CASE SearchFirst(c)
    BY <2>10, SearchFirstTrue
  <2>11. QED
    BY <1>1, <2>1, <2>2, <2>3, <2>4, <2>5, <2>6, <2>7, <2>8, <2>9, <2>10 DEF Step
<1>2. ASSUME NEW s \in Slug, MakeSource(s)
      PROVE  TruthInv'
  BY <1>2, DisturbedTrue DEF MakeSource
<1>3. CASE UNCHANGED knowledge
  <2>1. ASSUME NEW c \in Caller
        PROVE  AskTrue(call[c])'
    <3>1. /\ call'[c] = call[c] /\ sources' = sources /\ documents' = documents /\ remote' = remote
          /\ AskTrue(call[c])
      BY <1>3 DEF TruthInv, corpus, knowledge
    <3>2. QED
      BY <3>1, TruthStays
  <2>2. QED
    BY <2>1 DEF TruthInv
<1>4. QED
  BY <1>1, <1>2, <1>3, BeginTrue, TroubleTrue, MeanwhileTrue DEF KnowledgeNext

LEMMA TruthInit == KnowledgeInit => TruthInv
<1> SUFFICES ASSUME KnowledgeInit, NEW c \in Caller
             PROVE  AskTrue(call[c])
  BY DEF TruthInv
<1>1. call[c].at = "idle"
  BY DEF KnowledgeInit, Idle
<1>2. QED
  BY <1>1 DEF AskTrue

(* A listing leaves the cache warm, and only its import comes to read by it. *)
LEMMA ListWarms ==
  ASSUME MemoryInv, WarmInv, NEW c \in Caller, List(c)
  PROVE  WarmInv'
<1>1. cached' = Warmed /\ remote' = remote /\ remote \in [External -> Body]
  BY DEF List, MemoryInv, WorldInv
<1>2. ASSUME NEW k \in DOMAIN Listing
      PROVE  WarmFor(Listing[k])'
  <2> DEFINE x == Listing[k]
  <2>1. x \in External
    BY KnowledgeFacts
  <2>2. cached'[x] = IF x \in WithContent THEN Full(remote[x]) ELSE Stub
    BY <1>1, <2>1 DEF Warmed
  <2>3. remote[x] \in Body
    BY <1>1, <2>1
  <2> HIDE DEF x
  <2>4. WarmFor(x)'
    BY <1>1, <2>2, <2>3, SnapshotsAre DEF WarmFor
  <2>5. QED
    BY <2>4 DEF x
<1>3. QED
  BY <1>2 DEF WarmInv

LEMMA ReadWarms ==
  ASSUME MemoryInv, WarmInv, NEW c \in Caller, Read(c)
  PROVE  /\ \A x \in External : WarmFor(x) => WarmFor(x)'
         /\ \A d \in Caller : Reading(call'[d]) => Reading(call[d])
<1> DEFINE ask == call[c]
           y == Head(ask.todo)
<1>1. AskFine(ask, made) /\ ask \in Asks /\ call \in [Caller -> Asks]
  BY AskOf DEF MemoryInv, AsksInv
<1>2. PICK snapshot \in Served(y) :
        Goes(c, Takes(ask, snapshot)) /\ cached' = [cached EXCEPT ![y] = snapshot]
  BY DEF Read
<1>3. ask.at = "read" /\ ask.todo # <<>> /\ remote' = remote
  BY DEF Read
<1>4. y \in External /\ ask.task = "import"
  BY <1>1, <1>3 DEF Asks, AskFine
<1>5. snapshot \in Snapshot
  BY <1>2, <1>4, CacheKeepsType
<1>6. cached \in [External -> Snapshot] /\ snapshot \in {Full(remote[y]), cached[y]}
  BY <1>2 DEF MemoryInv, WorldInv, Served
<1>7. Takes(ask, snapshot).task = ask.task /\ Takes(ask, snapshot).quiet = ask.quiet
  BY <1>1, <1>3, <1>5, TakesIs
<1> HIDE DEF ask, y
<1>8. ASSUME NEW x \in External, WarmFor(x)
      PROVE  WarmFor(x)'
  <2>1. cached'[x] = IF x = y THEN snapshot ELSE cached[x]
    BY <1>2, <1>6
  <2>2. CASE x = y /\ snapshot = Full(remote[y])
    BY <1>3, <2>1, <2>2 DEF WarmFor, Full
  <2>3. CASE ~ (x = y /\ snapshot = Full(remote[y]))
    <3>1. cached'[x] = cached[x]
      BY <1>6, <2>1, <2>3
    <3>2. QED
      BY <1>3, <1>8, <3>1 DEF WarmFor
  <2>4. QED
    BY <2>2, <2>3
<1>9. ASSUME NEW d \in Caller, Reading(call'[d])
      PROVE  Reading(call[d])
  <2>1. call'[d] = IF d = c THEN Takes(ask, snapshot) ELSE call[d]
    BY <1>1, <1>2 DEF Goes
  <2>2. QED
    BY <1>3, <1>7, <1>9, <2>1 DEF Reading, ask
<1>10. QED
  BY <1>8, <1>9

(* Nobody else comes to read. *)
LEMMA NoneComes ==
  ASSUME MemoryInv, NEW c \in Caller, NEW next, Goes(c, next) \/ GoesWriting(c, next),
         Reading(next) => Reading(call[c])
  PROVE  \A d \in Caller : Reading(call'[d]) => Reading(call[d])
<1>1. call \in [Caller -> Asks] /\ \A d \in Caller : call[d] \in Asks
  BY DEF MemoryInv, AsksInv
<1>2. ASSUME NEW d \in Caller, d # c, Reading(call'[d])
      PROVE  Reading(call[d])
  <2>1. call'[d] = call[d] \/ call'[d] = [call[d] EXCEPT !.quiet = FALSE]
    BY <1>1, <1>2 DEF Goes, GoesWriting
  <2>2. [call[d] EXCEPT !.quiet = FALSE].quiet = FALSE
    BY <1>1 DEF Asks
  <2>3. QED
    BY <1>2, <2>1, <2>2 DEF Reading
<1>3. call'[c] = next
  BY <1>1 DEF Goes, GoesWriting
<1>4. QED
  BY <1>2, <1>3

LEMMA OutcomesRead ==
  ASSUME NEW ask \in Asks
  PROVE  /\ \A o : ~ Reading(Ends(ask, o))
         /\ Failing(ask).task = ask.task /\ Failing(ask).quiet = ask.quiet
         /\ \A o : Succeeding(ask, o).task = ask.task /\ Succeeding(ask, o).quiet = ask.quiet
<1>1. \A o : Ends(ask, o).task = ask.task /\ Ends(ask, o).quiet = ask.quiet /\ Ends(ask, o).at = "done"
  BY DEF Ends, Asks
<1>2. CASE ask.task = "import"
  BY <1>1, <1>2 DEF Failing, Succeeding, Asks, Reading
<1>3. CASE ask.task # "import"
  BY <1>1, <1>3 DEF Failing, Succeeding, Reading
<1>4. QED
  BY <1>2, <1>3

(* What a call becomes is an import that reads only if it was one.           *)
LEMMA StepComes ==
  ASSUME MemoryInv, NEW c \in Caller,
         \/ Begin(c) \/ FindSource(c) \/ Imported(c) \/ Check(c) \/ Payer(c) \/ Embed(c)
         \/ Commit(c) \/ SearchMemory(c) \/ SearchFirst(c) \/ Trouble(c)
  PROVE  \A d \in Caller : Reading(call'[d]) => Reading(call[d])
<1> DEFINE ask == call[c]
<1>1. AskFine(ask, made) /\ ask \in Asks
  BY AskOf
<1> SUFFICES \E next : (Goes(c, next) \/ GoesWriting(c, next)) /\ (Reading(next) => Reading(ask))
  BY NoneComes, Zenon
<1>2. \A next : next.task = ask.task /\ next.quiet = ask.quiet
                 /\ ask.at \in {"read", "existing", "embedder", "embed", "commit"}
                 => (Reading(next) => Reading(ask))
  BY DEF Reading
<1>3. CASE Begin(c)
  <2>1. PICK task, b, i :
          call' = [call EXCEPT ![c] =
             [Idle EXCEPT !.task = task, !.at = "source", !.body = b, !.importance = i]]
    BY <1>3, Zenon DEF Begin
  <2> DEFINE next == [Idle EXCEPT !.task = task, !.at = "source", !.body = b, !.importance = i]
  <2>2. next.at = "source"
    BY DEF Idle
  <2>3. Goes(c, next) /\ ~ Reading(next)
    BY <2>1, <2>2 DEF Goes, Reading
  <2> HIDE DEF next
  <2>4. QED
    BY <2>3
<1>4. CASE FindSource(c)
  <2> DEFINE ids == Resolved(Named(ask.task))
             at == CASE ask.task = "import" -> "list"
                     [] ask.task = "add" -> "existing"
                     [] OTHER -> "embedder"
             purpose == IF ask.task \in {"search", "remember"} THEN "query" ELSE "document"
             going == [ask EXCEPT !.ids = ids, !.at = at, !.purpose = purpose]
             next == IF ids = {} THEN Ends(ask, "nowhere") ELSE going
  <2>1. Goes(c, next)
    BY <1>4 DEF FindSource
  <2>2. ask.task = "import" => at = "list"
    OBVIOUS
  <2> HIDE DEF ask, ids, at, purpose
  <2>3. going.task = ask.task /\ going.at = at
    BY <1>1 DEF Asks
  <2>4. ~ Reading(going)
    BY <2>2, <2>3 DEF Reading
  <2> HIDE DEF going
  <2>5. ~ Reading(next)
    BY <1>1, <2>4, OutcomesRead
  <2> HIDE DEF next
  <2>6. QED
    BY <2>1, <2>5
<1>5. CASE Imported(c)
  BY <1>1, <1>5, OutcomesRead DEF Imported
<1>6. CASE Check(c)
  <2> DEFINE going == [ask EXCEPT !.at = "embedder", !.purpose = "document", !.vectors = <<>>]
  <2>1. /\ ask.at = "existing"
        /\ Goes(c, Failing(ask)) \/ Goes(c, Succeeding(ask, "unchanged")) \/ Goes(c, going)
    BY <1>6 DEF Check
  <2>2. going.task = ask.task /\ going.quiet = ask.quiet
    BY <1>1 DEF Asks
  <2> HIDE DEF ask, going
  <2>3. QED
    BY <1>1, <1>2, <2>1, <2>2, OutcomesRead
<1>7. CASE Payer(c)
  <2> DEFINE going == [ask EXCEPT !.at = "embed"]
  <2>1. ask.at = "embedder" /\ (Goes(c, Failing(ask)) \/ Goes(c, going))
    BY <1>7 DEF Payer
  <2>2. going.task = ask.task /\ going.quiet = ask.quiet
    BY <1>1 DEF Asks
  <2> HIDE DEF ask, going
  <2>3. QED
    BY <1>1, <1>2, <2>1, <2>2, OutcomesRead
<1>8. CASE Embed(c)
  <2>1. ask.at = "embed"
    BY <1>8 DEF Embed
  <2>2. \/ Goes(c, Failing(ask))
        \/ \E vectors, at : Goes(c, [ask EXCEPT !.vectors = vectors, !.at = at])
    BY <1>8, Zenon DEF Embed
  <2>3. \A vectors, at : LET going == [ask EXCEPT !.vectors = vectors, !.at = at]
                         IN  going.task = ask.task /\ going.quiet = ask.quiet
    BY <1>1 DEF Asks
  <2> HIDE DEF ask
  <2>4. CASE Goes(c, Failing(ask))
    BY <1>1, <1>2, <2>1, <2>4, OutcomesRead
  <2>5. CASE \E vectors, at : Goes(c, [ask EXCEPT !.vectors = vectors, !.at = at])
    BY <1>2, <2>1, <2>3, <2>5
  <2>6. QED
    BY <2>2, <2>4, <2>5
<1>9. CASE Commit(c)
  <2>1. /\ ask.at = "commit"
        /\ \/ Goes(c, Failing(ask)) \/ GoesWriting(c, Failing(ask))
           \/ GoesWriting(c, Succeeding(ask, "written"))
    BY <1>9 DEF Commit
  <2> HIDE DEF ask
  <2>2. QED
    BY <1>1, <1>2, <2>1, OutcomesRead
<1>10. CASE SearchMemory(c)
  <2>1. PICK page : Goes(c, Ends([ask EXCEPT !.hits = page], "answered"))
    BY <1>10 DEF SearchMemory
  <2>2. Ends([ask EXCEPT !.hits = page], "answered").at = "done"
    BY <1>1 DEF Ends, Asks
  <2>3. QED
    BY <2>1, <2>2 DEF Reading
<1>11. CASE SearchFirst(c)
  <2>1. PICK page : \/ Goes(c, Ends([ask EXCEPT !.hits = page], "already"))
                    \/ Goes(c, [[ask EXCEPT !.hits = page] EXCEPT !.at = "existing"])
    BY <1>11, Zenon DEF SearchFirst
  <2>2. ask.task = "remember"
    BY <1>11 DEF SearchFirst
  <2>3. /\ Ends([ask EXCEPT !.hits = page], "already").at = "done"
        /\ [[ask EXCEPT !.hits = page] EXCEPT !.at = "existing"].task = "remember"
    BY <1>1, <2>2 DEF Ends, Asks
  <2>4. QED
    BY <2>1, <2>3 DEF Reading
<1>12. CASE Trouble(c)
  <2>1. CASE Fails(c)
    <3>1. Goes(c, Failing(ask)) /\ ask.at \in {"embed", "commit", "search", "read"}
      BY <2>1 DEF Fails
    <3>2. ask.at = "search" => ask.task # "import"
      BY <1>1 DEF AskFine
    <3> HIDE DEF ask
    <3>3. Reading(Failing(ask)) => Reading(ask)
      BY <1>1, <3>1, <3>2, OutcomesRead DEF Reading
    <3>4. QED
      BY <3>1, <3>3
  <2>2. CASE Unlisted(c)
    BY <1>1, <2>2, OutcomesRead DEF Unlisted
  <2>3. QED
    BY <1>12, <2>1, <2>2 DEF Trouble
<1>13. QED
  BY <1>3, <1>4, <1>5, <1>6, <1>7, <1>8, <1>9, <1>10, <1>11, <1>12

(* A listing that failed may have been stored: what it stores is warm.       *)
LEMMA UnlistedWarms ==
  ASSUME MemoryInv, NEW x \in External, WarmFor(x), remote' = remote, cached' \in {cached, Warmed}
  PROVE  WarmFor(x)'
<1>1. remote \in [External -> Body]
  BY DEF MemoryInv, WorldInv
<1>2. CASE cached'[x] = cached[x]
  BY <1>2 DEF WarmFor
<1>3. CASE cached'[x] = IF x \in WithContent THEN Full(remote[x]) ELSE Stub
  <2>1. remote[x] \in Body
    BY <1>1
  <2>2. QED
    BY <1>3, <2>1, SnapshotsAre DEF WarmFor
<1>4. QED
  BY <1>2, <1>3 DEF Warmed

LEMMA WarmStays ==
  ASSUME WarmInv, \A x \in External : WarmFor(x) => WarmFor(x)',
         \A d \in Caller : Reading(call'[d]) => Reading(call[d])
  PROVE  WarmInv'
<1>1. \A k \in DOMAIN Listing : Listing[k] \in External
  BY KnowledgeFacts
<1>2. ASSUME NEW d \in Caller, Reading(call'[d]), NEW k \in DOMAIN Listing
      PROVE  WarmFor(Listing[k])'
  BY <1>1, <1>2 DEF WarmInv
<1>3. QED
  BY <1>2 DEF WarmInv, Reading

LEMMA DisturbedReadsNothing ==
  ASSUME MemoryInv, Disturbed
  PROVE  WarmInv'
<1>1. ASSUME NEW d \in Caller
      PROVE  ~ Reading(call'[d])
  <2>1. call'[d] = [call[d] EXCEPT !.quiet = FALSE] /\ call[d] \in Asks
    BY AskOf DEF Disturbed
  <2>2. call'[d].quiet = FALSE
    BY <2>1 DEF Asks
  <2>3. QED
    BY <2>2 DEF Reading
<1>2. QED
  BY <1>1 DEF WarmInv, Reading

LEMMA WarmNext == MemoryInv /\ WarmInv /\ [KnowledgeNext]_knowledge => WarmInv'
<1> SUFFICES ASSUME MemoryInv, WarmInv, [KnowledgeNext]_knowledge
             PROVE  WarmInv'
  OBVIOUS
<1>1. ASSUME NEW c \in Caller, List(c)
      PROVE  WarmInv'
  BY <1>1, ListWarms
<1>2. ASSUME NEW c \in Caller, Read(c)
      PROVE  WarmInv'
  BY <1>2, ReadWarms, WarmStays
<1>3. ASSUME NEW c \in Caller,
             \/ Begin(c) \/ FindSource(c) \/ Imported(c) \/ Check(c) \/ Payer(c) \/ Embed(c)
             \/ Commit(c) \/ SearchMemory(c) \/ SearchFirst(c) \/ Trouble(c)
      PROVE  WarmInv'
  <2>1. remote' = remote /\ cached' \in {cached, Warmed}
    BY <1>3 DEF Begin, FindSource, Imported, Check, Payer, Embed, Commit, SearchMemory, SearchFirst,
                Trouble, Fails, Unlisted, Untouched
  <2>2. \A x \in External : WarmFor(x) => WarmFor(x)'
    BY <2>1, UnlistedWarms
  <2>3. \A d \in Caller : Reading(call'[d]) => Reading(call[d])
    BY <1>3, StepComes
  <2>4. QED
    BY <2>2, <2>3, WarmStays
<1>4. CASE Disturbed
  BY <1>4, DisturbedReadsNothing
<1>5. CASE UNCHANGED <<remote, cached, call>>
  BY <1>5 DEF WarmInv, WarmFor, Reading
<1>6. \/ \E c \in Caller : List(c)
      \/ \E c \in Caller : Read(c)
      \/ \E c \in Caller :
           \/ Begin(c) \/ FindSource(c) \/ Imported(c) \/ Check(c) \/ Payer(c) \/ Embed(c)
           \/ Commit(c) \/ SearchMemory(c) \/ SearchFirst(c) \/ Trouble(c)
      \/ Disturbed
      \/ UNCHANGED <<remote, cached, call>>
  BY Zenon DEF KnowledgeNext, Step, MakeSource, Meanwhile, knowledge
<1>7. QED
  BY <1>1, <1>2, <1>3, <1>4, <1>5, <1>6

LEMMA WarmInit == KnowledgeInit => WarmInv
<1> SUFFICES ASSUME KnowledgeInit, NEW c \in Caller
             PROVE  ~ Reading(call[c])
  BY DEF WarmInv
<1>1. call[c].at = "idle"
  BY DEF KnowledgeInit, Idle
<1>2. QED
  BY <1>1 DEF Reading

LEMMA TruthHolds == KnowledgeSpec => [](MemoryInv /\ TruthInv)
<1>1. QED
  BY MemoryInit, MemoryNext, TruthInit, TruthNext, WarmInit, WarmNext, PTL DEF KnowledgeSpec

-----------------------------------------------------------------------------
(***************************************************************************)
(* What a call tells its caller when it ends undisturbed.                  *)
(***************************************************************************)

(* What caller c is told, in a step that ends its call undisturbed. *)
Told(c) ==
    Active(c) /\ call'[c].at = "done" /\ call'[c].quiet =>
        CASE call'[c].outcome = "imported" -> FilledTruly(c)
          [] call'[c].outcome = "answered" -> FoundTruly(c)
          [] call'[c].task = "remember" -> RememberedTruly(c)
          [] OTHER -> TRUE

(* What ends with another outcome says nothing of the corpus. *)
LEMMA SaysNothing ==
  ASSUME NEW c \in Caller,
         call'[c].at = "done" => call'[c].outcome \in {"nowhere", "failed", "unchanged"}
  PROVE  Told(c)
BY DEF Told, RememberedTruly

LEMMA EndedAs ==
  ASSUME NEW ask \in Asks
  PROVE  /\ \A o : Ends(ask, o).at = "done" /\ Ends(ask, o).outcome = o
         /\ Failing(ask).at = "done" => Failing(ask).outcome = "failed"
         /\ \A o : Succeeding(ask, o).at = "done" => ask.task # "import" /\ Succeeding(ask, o).outcome = o
<1>1. \A o : Ends(ask, o).at = "done" /\ Ends(ask, o).outcome = o
  BY DEF Ends, Asks
<1>2. ask.task = "import" => Failing(ask).at = "read" /\ \A o : Succeeding(ask, o).at = "read"
  BY DEF Failing, Succeeding, Asks
<1>3. ask.task # "import" => Failing(ask) = Ends(ask, "failed") /\ \A o : Succeeding(ask, o) = Ends(ask, o)
  BY DEF Failing, Succeeding
<1>4. QED
  BY <1>1, <1>2, <1>3

(* What each step that ends a call tells. *)
LEMMA StepSays ==
  ASSUME MemoryInv, NEW c \in Caller, FindSource(c) \/ List(c) \/ Read(c) \/ Check(c) \/ Payer(c)
  PROVE  Told(c)
<1> DEFINE ask == call[c]
<1>1. ask \in Asks /\ call \in [Caller -> Asks] /\ ask.at \in Stages
  BY AskOf DEF MemoryInv, AsksInv, Asks
<1>2. \A next : Goes(c, next) => call'[c] = next
  BY <1>1 DEF Goes
<1>3. CASE FindSource(c)
  <2> DEFINE ids == Resolved(Named(ask.task))
             at == CASE ask.task = "import" -> "list"
                     [] ask.task = "add" -> "existing"
                     [] OTHER -> "embedder"
             purpose == IF ask.task \in {"search", "remember"} THEN "query" ELSE "document"
             going == [ask EXCEPT !.ids = ids, !.at = at, !.purpose = purpose]
             next == IF ids = {} THEN Ends(ask, "nowhere") ELSE going
  <2>1. Goes(c, next)
    BY <1>3 DEF FindSource
  <2>2. at # "done"
    OBVIOUS
  <2> HIDE DEF ids, at, purpose
  <2>3. going.at # "done"
    BY <1>1, <2>2 DEF Asks
  <2> HIDE DEF going, ask
  <2>4. next.at = "done" => next.outcome = "nowhere"
    BY <1>1, <2>3, EndedAs
  <2> HIDE DEF next
  <2>5. call'[c] = next
    BY <1>2, <2>1
  <2>6. QED
    BY <2>4, <2>5, SaysNothing
<1>4. CASE List(c)
  <2>1. call'[c] = [ask EXCEPT !.at = "read", !.todo = Listing]
    BY <1>2, <1>4 DEF List
  <2>2. call'[c].at # "done"
    BY <1>1, <2>1 DEF Asks
  <2>3. QED
    BY <2>2, SaysNothing
<1>5. CASE Read(c)
  <2>1. PICK snapshot \in Served(Head(ask.todo)) : Goes(c, Takes(ask, snapshot))
    BY <1>5 DEF Read
  <2>2. ask.at = "read" /\ ask.todo # <<>> /\ Head(ask.todo) \in External
    BY <1>1, <1>5 DEF Read, Asks
  <2>3. snapshot \in Snapshot
    BY <2>2, CacheKeepsType
  <2> HIDE DEF ask
  <2>4. Takes(ask, snapshot).at \in {"read", "existing"}
    BY <1>1, <2>2, <2>3, TakesIs
  <2>5. call'[c].at # "done"
    BY <1>2, <2>1, <2>4
  <2>6. QED
    BY <2>5, SaysNothing
<1>6. CASE Check(c)
  <2>1. \/ call'[c] = Failing(ask) \/ call'[c] = Succeeding(ask, "unchanged")
        \/ call'[c] = [ask EXCEPT !.at = "embedder", !.purpose = "document", !.vectors = <<>>]
    BY <1>2, <1>6 DEF Check
  <2> DEFINE going == [ask EXCEPT !.at = "embedder", !.purpose = "document", !.vectors = <<>>]
  <2>2. going.at # "done"
    BY <1>1 DEF Asks
  <2>3. \/ call'[c] = Failing(ask) \/ call'[c] = Succeeding(ask, "unchanged")
        \/ call'[c] = going
    BY <2>1
  <2> HIDE DEF ask, going
  <2>4. /\ Failing(ask).at = "done" => Failing(ask).outcome = "failed"
        /\ Succeeding(ask, "unchanged").at = "done" => Succeeding(ask, "unchanged").outcome = "unchanged"
    BY <1>1, EndedAs
  <2>5. call'[c].at = "done" => call'[c].outcome \in {"failed", "unchanged"}
    BY <2>2, <2>3, <2>4
  <2>6. QED
    BY <2>5, SaysNothing
<1>7. CASE Payer(c)
  <2>1. call'[c] = Failing(ask) \/ call'[c] = [ask EXCEPT !.at = "embed"]
    BY <1>2, <1>7 DEF Payer
  <2>2. [ask EXCEPT !.at = "embed"].at # "done"
    BY <1>1 DEF Asks
  <2> HIDE DEF ask
  <2>3. call'[c].at = "done" => call'[c].outcome = "failed"
    BY <1>1, <2>1, <2>2, EndedAs
  <2>4. QED
    BY <2>3, SaysNothing
<1>8. QED
  BY <1>3, <1>4, <1>5, <1>6, <1>7

LEMMA EmbedSays ==
  ASSUME MemoryInv, NEW c \in Caller, Embed(c)
  PROVE  Told(c)
<1> DEFINE ask == call[c]
           batch == Batch(Wanted(c), Len(ask.vectors))
<1>1. ask \in Asks /\ call \in [Caller -> Asks]
  BY AskOf DEF MemoryInv, AsksInv
<1>2. \A next : Goes(c, next) => call'[c] = next
  BY <1>1 DEF Goes
<1>3. PICK answer \in Answers(batch) :
        IF Complete(batch, answer)
        THEN LET vectors == ask.vectors \o Ordered(answer)
             IN  Goes(c, [ask EXCEPT !.vectors = vectors,
                            !.at = IF Len(vectors) < Len(Wanted(c)) THEN "embed"
                                   ELSE IF ask.purpose = "query" THEN "search" ELSE "commit"])
        ELSE Goes(c, Failing(ask))
  BY Zenon DEF Embed
<1>4. CASE ~ Complete(batch, answer)
  <2>1. call'[c] = Failing(ask)
    BY <1>2, <1>3, <1>4
  <2>2. Failing(ask).at = "done" => Failing(ask).outcome = "failed"
    BY <1>1, EndedAs
  <2>3. QED
    BY <2>1, <2>2, SaysNothing
<1>5. CASE Complete(batch, answer)
  <2> DEFINE vectors == ask.vectors \o Ordered(answer)
             at == IF Len(vectors) < Len(Wanted(c)) THEN "embed"
                   ELSE IF ask.purpose = "query" THEN "search" ELSE "commit"
  <2>1. call'[c] = [ask EXCEPT !.vectors = vectors, !.at = at]
    BY <1>2, <1>3, <1>5
  <2>2. at # "done"
    OBVIOUS
  <2> HIDE DEF at, vectors
  <2>3. call'[c].at # "done"
    BY <1>1, <2>1, <2>2 DEF Asks
  <2>4. QED
    BY <2>3, SaysNothing
<1>6. QED
  BY <1>4, <1>5

LEMMA ImportedSays ==
  ASSUME MemoryInv, TruthInv, NEW c \in Caller, Imported(c)
  PROVE  Told(c)
<1> DEFINE ask == call[c]
<1>1. ask \in Asks /\ call \in [Caller -> Asks] /\ AskTrue(ask) /\ AskFine(ask, made)
  BY AsksTrue DEF MemoryInv, AsksInv
<1>2. /\ call'[c] = Ends(ask, "imported") /\ ask.at = "read" /\ ask.todo = <<>>
      /\ documents' = documents
  BY <1>1 DEF Imported, Goes, Untouched, corpus
<1>3. /\ call'[c].outcome = "imported" /\ call'[c].failed = ask.failed /\ call'[c].quiet = ask.quiet
      /\ call'[c].task = ask.task /\ call'[c].bare = ask.bare
  BY <1>1, <1>2 DEF Ends, Asks
<1>4. Source(c) = Target(ask) /\ ask.task = "import"
  BY <1>1, <1>2, CopiesFound DEF AskFine
<1>5. ASSUME ask.quiet
      PROVE  FilledTruly(c)
  <2>1. FilledSoFar(ask)
    BY <1>1, <1>2, <1>4, <1>5 DEF AskTrue
  <2>2. PICK n \in 0..Len(Listing) :
          /\ ask.todo = SubSeq(Listing, n + 1, Len(Listing))
          /\ \A k \in 1..n : Settled(ask, Listing[k])
    BY <2>1 DEF FilledSoFar
  <2>3. n = Len(Listing)
    BY <1>2, <2>2, RestOfListing
  <2>4. DOMAIN Listing = 1..n
    BY <2>3, KnowledgeFacts
  <2>5. QED
    BY <1>2, <1>3, <1>4, <2>2, <2>4 DEF FilledTruly, Settled, ListedBare
<1>6. call'[c].quiet => FilledTruly(c)
  BY <1>3, <1>5
<1>7. call'[c].outcome = "imported" /\ call'[c].task # "remember"
  BY <1>3, <1>4
<1>8. QED
  BY <1>6, <1>7 DEF Told

LEMMA SearchMemorySays ==
  ASSUME MemoryInv, TruthInv, NEW c \in Caller, SearchMemory(c)
  PROVE  Told(c)
<1> DEFINE ask == call[c]
           all == Found(ask.ids, ask.body)
<1>1. ask \in Asks /\ call \in [Caller -> Asks] /\ AskTrue(ask)
  BY AsksTrue DEF MemoryInv, AsksInv
<1>2. PICK page \in Page(all, SearchLimit) : Goes(c, Ends([ask EXCEPT !.hits = page], "answered"))
  BY DEF SearchMemory
<1>3. call'[c] = Ends([ask EXCEPT !.hits = page], "answered") /\ ask.at = "search" /\ ask.task = "search"
  BY <1>1, <1>2 DEF Goes, SearchMemory
<1>4. /\ call'[c].outcome = "answered" /\ call'[c].hits = page /\ call'[c].quiet = ask.quiet
      /\ call'[c].task = ask.task
  BY <1>1, <1>3 DEF Ends, Asks
<1>5. ASSUME ask.quiet
      PROVE  FoundTruly(c)
  <2>1. all = Found(Resolved(Granted), call[c].body)
    BY <1>1, <1>3, <1>5 DEF AskTrue
  <2>2. IsFiniteSet(all)
    BY FoundIsFinite
  <2>3. page \subseteq all /\ Cardinality(page) = Least(SearchLimit, Cardinality(all))
    BY <1>2 DEF Page
  <2> HIDE DEF all
  <2>4. Cardinality(page) < SearchLimit => page = all
    <3>1. Cardinality(all) \in Nat /\ SearchLimit \in Nat
      BY <2>2, FS_CardinalityType, KnowledgeFacts
    <3>2. Cardinality(page) < SearchLimit => Cardinality(all) = Cardinality(page)
      BY <2>3, <3>1 DEF Least
    <3>3. Cardinality(all) = Cardinality(page) => all = page
      BY <2>2, <2>3, FS_Subset
    <3>4. QED
      BY <3>2, <3>3
  <2>5. QED
    BY <1>4, <2>1, <2>3, <2>4 DEF FoundTruly
<1>6. call'[c].quiet => FoundTruly(c)
  BY <1>4, <1>5
<1>7. call'[c].outcome = "answered" /\ call'[c].task # "remember"
  BY <1>3, <1>4
<1>8. QED
  BY <1>6, <1>7 DEF Told

LEMMA SearchFirstSays ==
  ASSUME MemoryInv, NEW c \in Caller, SearchFirst(c)
  PROVE  Told(c)
<1> DEFINE ask == call[c]
           all == Found(ask.ids, ask.body)
<1>1. ask \in Asks /\ call \in [Caller -> Asks]
  BY AskOf DEF MemoryInv, AsksInv
<1>2. PICK page \in Page(all, 1) :
        LET next == [ask EXCEPT !.hits = page]
        IN  Goes(c, IF \E h \in page : Near(next.body, h.vector)
                    THEN Ends(next, "already") ELSE [next EXCEPT !.at = "existing"])
  BY Zenon DEF SearchFirst
<1> DEFINE next == [ask EXCEPT !.hits = page]
           going == [next EXCEPT !.at = "existing"]
<1>3. Goes(c, IF \E h \in page : Near(next.body, h.vector) THEN Ends(next, "already") ELSE going)
  BY <1>2
<1>4. next.body = ask.body /\ going.at = "existing"
  BY <1>1 DEF Asks
<1>5. page \subseteq all
  BY <1>2 DEF Page
<1>6. CASE \E h \in page : Near(next.body, h.vector)
  <2>1. call'[c] = Ends(next, "already")
    BY <1>1, <1>3, <1>6 DEF Goes
  <2>2. call'[c].outcome = "already"
    BY <1>1, <2>1 DEF Ends, Asks
  <2>3. Duplicates(c) # {}
    BY <1>4, <1>5, <1>6 DEF Duplicates
  <2>4. QED
    BY <2>2, <2>3 DEF Told, RememberedTruly
<1>7. CASE ~ \E h \in page : Near(next.body, h.vector)
  <2>1. call'[c] = going
    BY <1>1, <1>3, <1>7 DEF Goes
  <2>2. call'[c].at # "done"
    BY <1>4, <2>1
  <2>3. QED
    BY <2>2, SaysNothing
<1>8. QED
  BY <1>6, <1>7

LEMMA CommitSays ==
  ASSUME MemoryInv, TruthInv, NEW c \in Caller, Commit(c)
  PROVE  Told(c)
<1> DEFINE ask == call[c]
<1>1. ask \in Asks /\ call \in [Caller -> Asks] /\ AskTrue(ask) /\ AskFine(ask, made)
  BY AsksTrue DEF MemoryInv, AsksInv
<1>2. ask.at = "commit" /\ (call'[c] = Failing(ask) \/ call'[c] = Succeeding(ask, "written"))
  BY <1>1 DEF Commit, Goes, GoesWriting
<1>3. ask.purpose = "document"
  BY <1>1, <1>2 DEF AskFine
<1>4. CASE call'[c] = Failing(ask)
  <2> HIDE DEF ask
  <2>1. call'[c].at = "done" => call'[c].outcome = "failed"
    BY <1>1, <1>4, EndedAs
  <2>2. QED
    BY <2>1, SaysNothing
<1>5. CASE call'[c] = Succeeding(ask, "written") /\ ask.task # "import"
  <2>1. call'[c].outcome = "written" /\ call'[c].task = ask.task /\ call'[c].quiet = ask.quiet
    BY <1>1, <1>5 DEF Succeeding, Ends, Asks
  <2>2. ask.task = "remember" /\ ask.quiet => Surpassed(ask)
    BY <1>1, <1>2, <1>3 DEF AskTrue
  <2>3. ask.task = "remember" /\ ask.quiet => RememberedTruly(c)
    BY <2>1, <2>2, CopiesFound DEF RememberedTruly, Surpassed
  <2>4. QED
    BY <2>1, <2>3 DEF Told
<1>6. CASE call'[c] = Succeeding(ask, "written") /\ ask.task = "import"
  <2>1. call'[c].at = "read"
    BY <1>1, <1>6 DEF Succeeding, Asks
  <2>2. QED
    BY <2>1, SaysNothing
<1>7. QED
  BY <1>2, <1>4, <1>5, <1>6

LEMMA TroubleSays ==
  ASSUME MemoryInv, NEW c \in Caller, Trouble(c)
  PROVE  Told(c)
<1>1. call[c] \in Asks /\ call \in [Caller -> Asks]
  BY AskOf DEF MemoryInv, AsksInv
<1>2. call'[c] = Failing(call[c]) \/ call'[c] = Ends(call[c], "failed")
  BY <1>1 DEF Trouble, Fails, Unlisted, Goes
<1>3. call'[c].at = "done" => call'[c].outcome = "failed"
  BY <1>1, <1>2, EndedAs
<1>4. QED
  BY <1>3, SaysNothing

(* What another caller or a person does ends nobody's call. *)
LEMMA OthersSayNothing ==
  ASSUME NEW c \in Caller, call'[c].at = call[c].at
  PROVE  Told(c)
BY DEF Told, Active

(* Every step of a caller. *)
LEMMA StepTells ==
  ASSUME MemoryInv, TruthInv, NEW c \in Caller, NEW d \in Caller,
         Begin(d) \/ Step(d) \/ Trouble(d)
  PROVE  Told(c)
<1>1. CASE d = c
  <2>1. CASE Begin(c)
    <3>1. call[c].at \in {"idle", "done"}
      BY <2>1 DEF Begin, Active
    <3>2. QED
      BY <3>1 DEF Told, Active
  <2>2. CASE Step(c)
    BY <2>2, StepSays, EmbedSays, ImportedSays, SearchMemorySays, SearchFirstSays, CommitSays DEF Step
  <2>3. QED
    BY <1>1, <2>1, <2>2, TroubleSays
<1>2. CASE d # c
  <2>1. call \in [Caller -> Asks] /\ call[c] \in Asks
    BY AskOf DEF MemoryInv, AsksInv
  <2>2. \/ \E next : call' = [call EXCEPT ![d] = next]
        \/ \E next : GoesWriting(d, next)
    BY Zenon DEF Begin, Step, Trouble, Fails, Unlisted, FindSource, List, Read, Imported, Check, Payer, Embed,
                 Commit, SearchMemory, SearchFirst, Goes
  <2>3. CASE \E next : call' = [call EXCEPT ![d] = next]
    <3>1. call'[c] = call[c]
      BY <1>2, <2>1, <2>3
    <3>2. QED
      BY <3>1, OthersSayNothing
  <2>4. CASE \E next : GoesWriting(d, next)
    <3>1. call'[c] = [call[c] EXCEPT !.quiet = FALSE]
      BY <1>2, <2>4 DEF GoesWriting
    <3>2. call'[c].at = call[c].at
      BY <2>1, <3>1 DEF Asks
    <3>3. QED
      BY <3>2, OthersSayNothing
  <2>5. QED
    BY <2>2, <2>3, <2>4
<1>3. QED
  BY <1>1, <1>2

(* Every step. *)
LEMMA AllTold ==
  ASSUME MemoryInv, TruthInv, KnowledgeNext, NEW c \in Caller
  PROVE  Told(c)
<1>1. call[c] \in Asks
  BY AskOf
<1>2. CASE Disturbed
  <2>1. call'[c].at = call[c].at
    BY <1>1, <1>2 DEF Disturbed, Asks
  <2>2. QED
    BY <2>1, OthersSayNothing
<1>3. CASE call' = call
  BY <1>3, OthersSayNothing
<1>4. CASE \E s \in Slug : MakeSource(s)
  BY <1>2, <1>4 DEF MakeSource
<1>5. CASE Meanwhile
  BY <1>2, <1>3, <1>5 DEF Meanwhile
<1>6. QED
  BY <1>4, <1>5, StepTells DEF KnowledgeNext

(* The answer of a call nobody disturbed is true of the corpus: an import  *)
(* leaves every readable resource as the service has it, a search shows    *)
(* passages of the sources it was granted and withholds none while there   *)
(* is room, and a fact is written again only if another passage outranked  *)
(* the copy there was.                                                     *)
THEOREM AnswersStayTrue == KnowledgeSpec => AnswersAreTrue
<1>1. MemoryInv /\ TruthInv /\ [KnowledgeNext]_knowledge
        => [\A c \in Caller : Told(c)]_knowledge
  BY AllTold
<1>2. KnowledgeSpec => [][\A c \in Caller : Told(c)]_knowledge
  BY <1>1, TruthHolds, PTL DEF KnowledgeSpec
<1>3. QED
  BY <1>2, Zenon DEF AnswersAreTrue, Told

=============================================================================
