----------------------------- MODULE AgentTurns -----------------------------
(***************************************************************************)
(* The agent loop: `run` and `resume`, interleaved over shared sessions.   *)
(*                                                                         *)
(* A Worker is one call into the agent that is being served.  Between two  *)
(* of its actions the code awaits something (the model, the session store, *)
(* the approval queue, a tool), so anything may happen to the tables in    *)
(* between.  What survives a crash is what is stored: the conversation and *)
(* the queue.  What the model says is free: any batch of fresh tool calls, *)
(* an answer, or a failure.                                                *)
(***************************************************************************)
EXTENDS ApprovalStore, Sequences, FiniteSets

CONSTANTS
    Worker,         \* calls into the agent that can be in flight together
    Scope,          \* the agent's own registry and those of the modules
    Kind,           \* Kind[k][c]: how registry k treats the tool call c asks for
    Invalid,        \* calls whose arguments their tool's schema refuses
    Batches,        \* the sequences of tool calls the model may answer with
    HasQueue,       \* is an approval store wired?
    KeepsScope,     \* does every caller resume a turn as the module that ran it?
    MaxIterations,  \* maxToolIterations
    MaxMessages,    \* bound: user messages per session
    MaxCrashes,     \* bound: calls that die part-way
    None

ASSUME KindAssumption == Kind \in [Scope -> [Call -> {"open", "gated", "unknown"}]]
ASSUME BatchAssumption == Batches \subseteq Seq(Call)
ASSUME SwitchAssumption == {HasQueue, KeepsScope} \subseteq BOOLEAN
ASSUME BoundAssumption == /\ MaxIterations \in Nat \ {0}
                          /\ MaxMessages \in Nat
                          /\ MaxCrashes \in Nat
ASSUME NoneAssumption == None \notin Scope \cup Session

VARIABLES
    log,        \* log[s]: the stored conversation of session s
    issued,     \* issued[s][c]: the registry c was offered from, None before that
    ran,        \* ran[s][c]: how often the tool behind c was really executed
    worker,     \* worker[w]: the locals of one call into the agent
    crashes,    \* how many calls died so far
    disciplined \* do callers keep one call per session, and leave a pause alone?

vars == <<approval, log, issued, ran, worker, crashes, disciplined>>

-----------------------------------------------------------------------------
Outcome == {"ran", "invalid", "unknown", "unconfigured",
            "rejected", "changes_requested", "not_approved"}

Message == [kind : {"user", "assistant", "results"}, scope : Scope \cup {None},
            calls : Seq(Call), outcomes : Seq(Outcome)]

Stage == {"idle", "asking", "storing", "checking", "requesting", "running"}

Locals == [pc : Stage, s : Session \cup {None}, scope : Scope \cup {None},
           calls : Seq(Call), settle : BOOLEAN, decisions : [Call -> Status],
           outcomes : Seq(Outcome), left : Nat]

Unread == [c \in Call |-> "none"]

Idle == [pc |-> "idle", s |-> None, scope |-> None, calls |-> <<>>,
         settle |-> FALSE, decisions |-> Unread, outcomes |-> <<>>, left |-> 0]

TypeOK ==
    /\ StoreTypeOK
    /\ log \in [Session -> Seq(Message)]
    /\ issued \in [Session -> [Call -> Scope \cup {None}]]
    /\ ran \in [Session -> [Call -> Nat]]
    /\ worker \in [Worker -> Locals]
    /\ \A w \in Worker : worker[w].pc # "idle" =>
          worker[w].s \in Session /\ worker[w].scope \in Scope
    /\ \A w \in Worker : worker[w].pc = "asking" => worker[w].left > 0
    /\ crashes \in 0..MaxCrashes
    /\ disciplined \in BOOLEAN

Said(m) == {m.calls[j] : j \in DOMAIN m.calls}

UserTurn == [kind |-> "user", scope |-> None, calls |-> <<>>, outcomes |-> <<>>]

(* Bug: the turn is stored with its text only. *)
TextOnlyTurn(k, calls) ==
    [kind |-> "assistant", scope |-> k, calls |-> <<>>, outcomes |-> <<>>]

AssistantTurn(k, calls) ==
    [kind |-> "assistant", scope |-> k, calls |-> calls, outcomes |-> <<>>]

(* Bug: a turn of which a call was refused is answered without its calls. *)
ResultTurnOfRefused(k, calls, outcomes) ==
    [kind |-> "results", scope |-> k, outcomes |-> outcomes,
     calls |-> IF \A j \in DOMAIN outcomes : outcomes[j] = "ran" THEN calls ELSE <<>>]

ResultTurn(k, calls, outcomes) ==
    [kind |-> "results", scope |-> k, calls |-> calls, outcomes |-> outcomes]

(* Bug: a turn that has its results is taken for a paused one. *)
CanContinueAnswered(s) ==
    /\ log[s] # <<>>
    /\ log[s][Len(log[s])].kind # "user"
    /\ log[s][Len(log[s])].calls # <<>>

(* The turn `resume` finds to continue: the last message, if it called tools. *)
CanContinue(s) ==
    /\ log[s] # <<>>
    /\ log[s][Len(log[s])].kind = "assistant"
    /\ log[s][Len(log[s])].calls # <<>>

LastTurn(s) == log[s][Len(log[s])]

Paused(s) == CanContinue(s) /\ \E c \in Said(LastTurn(s)) : approval[s][c] # "none"

Free(s) == \A w \in Worker : worker[w].s # s

UserTurns(s) == {i \in DOMAIN log[s] : log[s][i].kind = "user"}

Init ==
    /\ StoreInit
    /\ log = [s \in Session |-> <<>>]
    /\ issued = [s \in Session |-> [c \in Call |-> None]]
    /\ ran = [s \in Session |-> [c \in Call |-> 0]]
    /\ worker = [w \in Worker |-> Idle]
    /\ crashes = 0
    /\ disciplined \in BOOLEAN

-----------------------------------------------------------------------------
(* run: store the user's words, then drive the loop. *)
Run(w, s, k) ==
    /\ worker[w].pc = "idle"
    /\ Cardinality(UserTurns(s)) < MaxMessages
    /\ disciplined => Free(s) /\ ~ Paused(s)
    /\ log' = [log EXCEPT ![s] = Append(@, UserTurn)]
    /\ worker' = [worker EXCEPT ![w] = [Idle EXCEPT !.pc = "asking", !.s = s,
                                          !.scope = k, !.left = MaxIterations]]
    /\ UNCHANGED <<approval, issued, ran, crashes, disciplined>>

(* resume: re-derive the paused calls from the last message, or refuse. *)
Resume(w, s, k) ==
    /\ worker[w].pc = "idle"
    /\ CanContinue(s)
    /\ disciplined => Free(s)
    /\ KeepsScope => k = LastTurn(s).scope
    /\ worker' = [worker EXCEPT ![w] = [Idle EXCEPT !.pc = "checking", !.s = s,
                                          !.scope = k, !.calls = LastTurn(s).calls,
                                          !.left = MaxIterations]]
    /\ UNCHANGED <<approval, log, issued, ran, crashes, disciplined>>

Goto(w, pc) == worker' = [worker EXCEPT ![w].pc = pc]

Return(w) == worker' = [worker EXCEPT ![w] = Idle]

(* The gateway answers with calls it has not used before in this session.  *)
(* An answer cut short (max_tokens, a refusal) may carry calls nobody runs. *)
ModelAnswers(w, batch, wantsTools) ==
    LET s == worker[w].s
        C == {batch[j] : j \in DOMAIN batch}
    IN  /\ worker[w].pc = "asking"
        /\ \A c \in C : issued[s][c] = None
        /\ wantsTools => batch # <<>>
        /\ issued' = [issued EXCEPT ![s] =
                        [c \in Call |-> IF c \in C THEN worker[w].scope ELSE @[c]]]
        /\ worker' = [worker EXCEPT ![w].pc = "storing", ![w].calls = batch,
                                    ![w].settle = wantsTools, ![w].left = @ - 1]
        /\ UNCHANGED <<approval, log, ran, crashes, disciplined>>

ModelFails(w) ==
    /\ worker[w].pc = "asking"
    /\ Return(w)
    /\ UNCHANGED <<approval, log, issued, ran, crashes, disciplined>>

StoreAnswer(w) ==
    LET me == worker[w] IN
    /\ me.pc = "storing"
    /\ log' = [log EXCEPT ![me.s] = Append(@, AssistantTurn(me.scope, me.calls))]
    /\ IF me.settle THEN Goto(w, "checking") ELSE Return(w)
    /\ UNCHANGED <<approval, issued, ran, crashes, disciplined>>

-----------------------------------------------------------------------------
(* #settle *)

Gated(k, C) == {c \in C : Kind[k][c] = "gated"}

(* Bug: an unrecorded decision is taken for one that needs no request. *)
MissingNone(C, seen) == {}

Missing(C, seen) == {c \in C : seen[c] = "none"}

(* Bugs: nobody is waited for; a request for changes is still waited for. *)
UndecidedNone(C, seen) == {}
UndecidedChanges(C, seen) == {c \in C : seen[c] \in {"pending", "changes_requested"}}

Undecided(C, seen) == {c \in C : seen[c] = "pending"}

(* Read the decisions once; go on only when no held call is undecided. *)
CheckDecisions(w) ==
    LET me == worker[w]
        held == Gated(me.scope, Said(me))
        seen == ForToolCalls(me.s, held)
        running == [me EXCEPT !.pc = "running", !.decisions = seen]
    IN  /\ me.pc = "checking"
        /\ \/ /\ held = {} \/ ~ HasQueue
              /\ worker' = [worker EXCEPT ![w] = [running EXCEPT !.decisions = Unread]]
           \/ /\ held # {} /\ HasQueue
              /\ Missing(held, seen) # {}
              /\ worker' = [worker EXCEPT ![w] = [running EXCEPT !.pc = "requesting"]]
           \/ /\ held # {} /\ HasQueue
              /\ Missing(held, seen) = {}
              /\ IF Undecided(held, seen) # {}
                   THEN Return(w)
                   ELSE worker' = [worker EXCEPT ![w] = running]
        /\ UNCHANGED <<approval, log, issued, ran, crashes, disciplined>>

(* Queue what nobody was asked about and pause; a collision throws instead. *)
RequestApprovals(w) ==
    LET me == worker[w]
        missing == Missing(Gated(me.scope, Said(me)), me.decisions)
    IN  /\ me.pc = "requesting"
        /\ \/ Request(me.s, missing)
           \/ Collides(me.s, missing) /\ UNCHANGED approval
        /\ Return(w)
        /\ UNCHANGED <<log, issued, ran, crashes, disciplined>>

(* Bugs: whatever is not rejected passes; without a queue everything passes. *)
PassesUnlessRejected(k, c, decision) ==
    Kind[k][c] = "gated" => HasQueue /\ decision # "rejected"

(* #runCall: the gate, then the registry's own refusals. *)
Passes(k, c, decision) ==
    Kind[k][c] = "gated" => HasQueue /\ decision = "approved"

(* Bug: a request for changes is reported as a rejection. *)
RefusalRejects(decision) ==
    IF ~ HasQueue THEN "unconfigured"
    ELSE IF decision \in {"rejected", "changes_requested"} THEN "rejected"
    ELSE "not_approved"

Refusal(decision) ==
    IF ~ HasQueue THEN "unconfigured"
    ELSE IF decision \in {"rejected", "changes_requested"} THEN decision
    ELSE "not_approved"

Executed(k, c) ==
    IF Kind[k][c] = "unknown" THEN "unknown"
    ELSE IF c \in Invalid THEN "invalid" ELSE "ran"

OutcomeOf(k, c, decision) ==
    IF Passes(k, c, decision) THEN Executed(k, c) ELSE Refusal(decision)

RunCall(w) ==
    LET me == worker[w]
        c == me.calls[Len(me.outcomes) + 1]
        outcome == OutcomeOf(me.scope, c, me.decisions[c])
    IN  /\ me.pc = "running"
        /\ Len(me.outcomes) < Len(me.calls)
        /\ ran' = IF outcome = "ran" THEN [ran EXCEPT ![me.s][c] = @ + 1] ELSE ran
        /\ worker' = [worker EXCEPT ![w].outcomes = Append(@, outcome)]
        /\ UNCHANGED <<approval, log, issued, crashes, disciplined>>

(* Bug: the loop does not count its iterations. *)
HasBudgetAlways(me) == TRUE

HasBudget(me) == me.left > 0

(* Back in run or resume: one message with every result, then the loop. *)
StoreResults(w) ==
    LET me == worker[w] IN
    /\ me.pc = "running"
    /\ Len(me.outcomes) = Len(me.calls)
    /\ log' = [log EXCEPT ![me.s] =
                 Append(@, ResultTurn(me.scope, me.calls, me.outcomes))]
    /\ IF HasBudget(me)
         THEN worker' = [worker EXCEPT ![w] = [Idle EXCEPT !.pc = "asking",
                           !.s = me.s, !.scope = me.scope, !.left = me.left]]
         ELSE Return(w)
    /\ UNCHANGED <<approval, issued, ran, crashes, disciplined>>

-----------------------------------------------------------------------------
(* A person decides, whatever the agent is doing. *)
Operator(s, c, d) ==
    /\ Decide(s, c, d)
    /\ UNCHANGED <<log, issued, ran, worker, crashes, disciplined>>

(* The process stops, or an await of this call rejects: the locals are gone. *)
Crash(w) ==
    /\ worker[w].pc # "idle"
    /\ crashes < MaxCrashes
    /\ crashes' = crashes + 1
    /\ Return(w)
    /\ UNCHANGED <<approval, log, issued, ran, disciplined>>

Serve(w) ==
    \/ \E batch \in Batches, wantsTools \in BOOLEAN : ModelAnswers(w, batch, wantsTools)
    \/ ModelFails(w)
    \/ StoreAnswer(w)
    \/ CheckDecisions(w)
    \/ RequestApprovals(w)
    \/ RunCall(w)
    \/ StoreResults(w)

Next ==
    \/ \E w \in Worker, s \in Session, k \in Scope : Run(w, s, k) \/ Resume(w, s, k)
    \/ \E w \in Worker : Serve(w)
    \/ \E s \in Session, c \in Call, d \in Decision : Operator(s, c, d)
    \/ \E w \in Worker : Crash(w)

Spec == Init /\ [][Next]_vars

(* A call being served goes on; operators answer; the product resumes what   *)
(* they answered.  Nobody has to send a new message.                         *)
FairSpec ==
    /\ Spec
    /\ \A w \in Worker : WF_vars(Serve(w))
    /\ \A s \in Session : WF_vars(\E c \in Call, d \in Decision : Operator(s, c, d))
    /\ \A s \in Session : WF_vars(\E w \in Worker, k \in Scope : Resume(w, s, k))

-----------------------------------------------------------------------------
(* The call was offered by a registry that holds it for a person. *)
Held(s, c) == issued[s][c] # None /\ Kind[issued[s][c]][c] = "gated"

Turns(s, kind) == {i \in DOMAIN log[s] : log[s][i].kind = kind}

(* Nobody resumes c with a registry that runs it freely: callers name the   *)
(* module that paused, or no registry of the product offers c ungated.       *)
GateAgrees(c) == KeepsScope \/ \A k \in Scope : Kind[k][c] # "open"

(* Whatever two workers, an operator and a crash do to each other, a held  *)
(* tool that was executed had been approved, and one nobody can approve    *)
(* (no queue) is never executed (agent.ts #runCall, ADR 0004).             *)
GatedNeedsApproval ==
    \A s \in Session, c \in Call :
      Held(s, c) /\ GateAgrees(c) /\ ran[s][c] > 0 => approval[s][c] = "approved"

(* All-or-nothing: once one call of a turn was executed, every held call   *)
(* of that turn has been decided (agent.ts #settle).                       *)
SettledBeforeRun ==
    KeepsScope /\ HasQueue =>
      \A s \in Session : \A i \in Turns(s, "assistant") :
        (\E c \in Said(log[s][i]) : ran[s][c] > 0)
          => \A c \in Said(log[s][i]) : Held(s, c) => approval[s][c] \in Decision

(* What the model is told about a held call is what the person decided:    *)
(* an executed or refused-as-malformed call was approved, a rejection or a *)
(* request for changes comes back as itself (agent.ts #runCall).           *)
AnswersReflectDecisions ==
    KeepsScope /\ HasQueue =>
      \A s \in Session : \A i \in Turns(s, "results") :
        LET m == log[s][i] IN
        \A j \in DOMAIN m.calls :
          /\ m.outcomes[j] = "ran" => ran[s][m.calls[j]] > 0
          /\ Held(s, m.calls[j]) =>
               IF m.outcomes[j] \in {"ran", "invalid"}
                 THEN approval[s][m.calls[j]] = "approved"
                 ELSE m.outcomes[j] = approval[s][m.calls[j]]

(* The pause lives in two tables (ADR 0004): a row in the queue always has *)
(* its assistant turn in the conversation, so what a person approves is    *)
(* something `resume` can find.                                            *)
ApprovalsHaveTheirTurn ==
    \A s \in Session, c \in Call : approval[s][c] # "none" =>
      \E i \in Turns(s, "assistant") : c \in Said(log[s][i])

(* A turn goes all at once and by the queue: it runs when it is settled,   *)
(* its answers are the decisions, and nobody was asked about anything else *)
(* (agent.ts #settle, ADR 0004): the three above.                          *)
TurnsFollowTheQueue ==
    SettledBeforeRun /\ AnswersReflectDecisions /\ ApprovalsHaveTheirTurn

(* A decision is taken once: no later step of anybody changes it, or takes *)
(* the row back (approval stores, #decide).                                *)
DecisionsAreFinal ==
    [][\A s \in Session, c \in Call :
         approval[s][c] \in Decision => approval'[s][c] = approval[s][c]]_vars

Answered(s, c) == \E i \in Turns(s, "results") : c \in Said(log[s][i])

(* `resume` assembles one tool-result turn (ADR 0004): no call of the      *)
(* conversation is answered twice.                                         *)
AnsweredOnce ==
    disciplined => \A s \in Session : \A i, j \in Turns(s, "results") :
      Said(log[s][i]) \cap Said(log[s][j]) # {} => i = j

(* A turn somebody was asked about stays the last message of its session   *)
(* until it is answered, so `resume` can continue it (agent.ts resume).    *)
PauseStaysResumable ==
    disciplined => \A s \in Session, c \in Call :
      approval[s][c] # "none" /\ ~ Answered(s, c) =>
        CanContinue(s) /\ c \in Said(LastTurn(s))

(* A call is executed once, and once more for every call into the agent    *)
(* that died before it stored the results.                                 *)
OnceUnlessInterrupted ==
    disciplined => \A s \in Session, c \in Call : ran[s][c] <= 1 + crashes

(* With one call into the agent at a time and nobody talking over a pause,  *)
(* a paused turn waits, is resumed and is answered, once: the three above. *)
PausesAreServedOnce == AnsweredOnce /\ PauseStaysResumable /\ OnceUnlessInterrupted

Waiting(s) == \E c \in Call : approval[s][c] # "none" /\ ~ Answered(s, c)

(* A pause ends: all that was put in front of a person is answered to the  *)
(* model, when operators decide and the product resumes.                   *)
PausesEnd == \A s \in Session : disciplined /\ Waiting(s) ~> ~ Waiting(s)

-----------------------------------------------------------------------------
(* The inductive invariant behind GatedNeedsApproval. *)

(* The call was issued, and by registry k when callers keep their scope. *)
IssuedBy(s, c, k) == issued[s][c] # None /\ (KeepsScope => issued[s][c] = k)

StoredCallsIssued ==
    \A s \in Session : \A i \in DOMAIN log[s] : log[s][i].kind = "assistant" =>
      \A c \in Said(log[s][i]) : IssuedBy(s, c, log[s][i].scope)

ServedCallsIssued ==
    \A w \in Worker : worker[w].pc # "idle" =>
      \A c \in Said(worker[w]) : IssuedBy(worker[w].s, c, worker[w].scope)

(* The one read of the queue a turn takes cannot go stale: what it holds   *)
(* is decided.                                                             *)
SnapshotsCurrent ==
    \A w \in Worker : worker[w].pc = "running" /\ HasQueue =>
      \A c \in Gated(worker[w].scope, Said(worker[w])) :
        /\ worker[w].decisions[c] \in Decision
        /\ approval[worker[w].s][c] = worker[w].decisions[c]

UnissuedUntouched ==
    \A s \in Session, c \in Call :
      issued[s][c] = None => ran[s][c] = 0 /\ approval[s][c] = "none"

(* Every call in flight or stored was issued by the registry it is run     *)
(* with, every decision a running turn acts on is the one in the queue,    *)
(* nothing happens to a call before the model made it, and the gate holds. *)
GateInv ==
    /\ StoredCallsIssued
    /\ ServedCallsIssued
    /\ SnapshotsCurrent
    /\ UnissuedUntouched
    /\ GatedNeedsApproval

-----------------------------------------------------------------------------
(* The loop implements the gate: a call is held or open as the registry it *)
(* was issued by treats it.                                                *)
GateOf == [s \in Session |-> [c \in Call |->
             IF issued[s][c] = None THEN "unissued"
             ELSE IF Kind[issued[s][c]][c] = "gated" THEN "held" ELSE "open"]]

Gate == INSTANCE ApprovalGate WITH gate <- GateOf

(* Every step of the loop is a step of the gate, or none of its business:  *)
(* calls are made, a person is asked and answers, a call is performed      *)
(* (agent.ts and the approval stores against ADR 0004).                    *)
ImplementsGate == Gate!GateSpec

=============================================================================
