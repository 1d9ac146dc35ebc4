---------------------- MODULE TurnsAndShutdownProofs -----------------------
(***************************************************************************)
(* Part one: proofs about the agent loop, for every number of workers,     *)
(* sessions and calls, every classification of the tools, and with or      *)
(* without a queue.                                                        *)
(*                                                                         *)
(* Part two: proofs about a process that stops and the spans it exports,   *)
(* for any number of turns and steps, any sizes of the batches and of the  *)
(* queue.                                                                  *)
(***************************************************************************)
EXTENDS AgentTurns, Shutdown, SequenceTheorems, FiniteSetTheorems, TLAPS

-----------------------------------------------------------------------------
(* The approval queue *)

(* request stores rows of the table's type. *)
LEMMA RequestKeepsType ==
  ASSUME StoreTypeOK, NEW s \in Session, NEW C, Request(s, C)
  PROVE  StoreTypeOK'
<1> DEFINE row == [c \in Call |-> IF c \in C THEN "pending" ELSE approval[s][c]]
<1>1. row \in [Call -> Status]
  BY DEF StoreTypeOK, Status
<1>2. approval' = [approval EXCEPT ![s] = row]
  BY DEF Request
<1>3. QED
  BY <1>1, <1>2 DEF StoreTypeOK

(* approve, reject and requestChanges keep the table's type. *)
LEMMA DecideKeepsType ==
  ASSUME StoreTypeOK, NEW s \in Session, NEW c \in Call, NEW d \in Decision,
         Decide(s, c, d)
  PROVE  StoreTypeOK'
BY DEF StoreTypeOK, Decide, Status

(* The rows request writes were absent before, so no decision is touched. *)
LEMMA RequestRows ==
  ASSUME StoreTypeOK, NEW s \in Session, NEW C, Request(s, C),
         NEW t \in Session, NEW c \in Call
  PROVE  \/ t = s /\ c \in C /\ approval[t][c] = "none" /\ approval'[t][c] = "pending"
         \/ approval'[t][c] = approval[t][c]
BY DEF StoreTypeOK, Request, Collides

(* A decision touches one row, which was pending. *)
LEMMA DecideRows ==
  ASSUME StoreTypeOK, NEW s \in Session, NEW c \in Call, NEW d \in Decision,
         Decide(s, c, d), NEW t \in Session, NEW e \in Call
  PROVE  \/ t = s /\ e = c /\ approval[t][e] = "pending" /\ approval'[t][e] = d
         \/ approval'[t][e] = approval[t][e]
BY DEF StoreTypeOK, Decide

-----------------------------------------------------------------------------
(* The locals of a call and the conversation *)

(* The parts of a call's locals an action hands over stay locals. *)
LEMMA IdleIsLocals == Idle \in Locals
<1>1. Unread \in [Call -> Status]
  BY DEF Unread, Status
<1>2. <<>> \in Seq(Call) /\ <<>> \in Seq(Outcome)
  OBVIOUS
<1>3. QED
  BY <1>1, <1>2 DEF Idle, Locals, Stage

LEMMA ForToolCallsType ==
  ASSUME StoreTypeOK, NEW s \in Session, NEW C
  PROVE  ForToolCalls(s, C) \in [Call -> Status]
BY DEF StoreTypeOK, ForToolCalls, Status

LEMMA OutcomeType ==
  ASSUME NEW k \in Scope, NEW c \in Call, NEW d \in Status
  PROVE  OutcomeOf(k, c, d) \in Outcome
BY DEF OutcomeOf, Executed, Refusal, Outcome

LEMMA MessageTypes ==
  ASSUME NEW k \in Scope, NEW calls \in Seq(Call), NEW outcomes \in Seq(Outcome)
  PROVE  /\ UserTurn \in Message
         /\ AssistantTurn(k, calls) \in Message
         /\ ResultTurn(k, calls, outcomes) \in Message
<1>1. <<>> \in Seq(Call) /\ <<>> \in Seq(Outcome)
  OBVIOUS
<1>2. QED
  BY <1>1 DEF UserTurn, AssistantTurn, ResultTurn, Message

(* Storing one more message keeps the conversation a conversation. *)
LEMMA LogGrows ==
  ASSUME log \in [Session -> Seq(Message)], NEW s \in Session, NEW m \in Message,
         log' = [log EXCEPT ![s] = Append(@, m)]
  PROVE  log' \in [Session -> Seq(Message)]
<1>1. Append(log[s], m) \in Seq(Message)
  BY AppendProperties
<1>2. QED
  BY <1>1

(* A call that goes idle leaves the table of calls well typed. *)
LEMMA ReturnType ==
  ASSUME TypeOK, NEW w \in Worker, Return(w)
  PROVE  /\ worker' \in [Worker -> Locals]
         /\ \A v \in Worker : worker'[v].pc # "idle" =>
               worker'[v].s \in Session /\ worker'[v].scope \in Scope
         /\ \A v \in Worker : worker'[v].pc = "asking" => worker'[v].left > 0
<1>1. worker' = [worker EXCEPT ![w] = Idle] /\ Idle.pc = "idle"
  BY DEF Return, Idle
<1>2. worker' \in [Worker -> Locals]
  BY <1>1, IdleIsLocals DEF TypeOK
<1>3. QED
  BY <1>1, <1>2 DEF TypeOK

(* Replacing the locals of one busy call keeps the table well typed. *)
LEMMA UpdateType ==
  ASSUME TypeOK, NEW w \in Worker, NEW me \in Locals,
         me.s \in Session, me.scope \in Scope, me.pc = "asking" => me.left > 0,
         worker' = [worker EXCEPT ![w] = me]
  PROVE  /\ worker' \in [Worker -> Locals]
         /\ \A v \in Worker : worker'[v].pc # "idle" =>
               worker'[v].s \in Session /\ worker'[v].scope \in Scope
         /\ \A v \in Worker : worker'[v].pc = "asking" => worker'[v].left > 0
BY DEF TypeOK

-----------------------------------------------------------------------------
(* Type correctness *)

LEMMA InitType == Init => TypeOK
<1>1. SUFFICES ASSUME Init PROVE TypeOK
  OBVIOUS
<1>2. <<>> \in Seq(Message)
  OBVIOUS
<1>3. worker \in [Worker -> Locals] /\ \A w \in Worker : worker[w].pc = "idle"
  BY <1>1, IdleIsLocals DEF Init, Idle
<1>4. crashes \in 0..MaxCrashes
  BY <1>1, BoundAssumption DEF Init
<1>5. QED
  BY <1>1, <1>2, <1>3, <1>4
     DEF Init, StoreInit, TypeOK, StoreTypeOK, Status

LEMMA RunType ==
  ASSUME TypeOK, NEW w \in Worker, NEW s \in Session, NEW k \in Scope, Run(w, s, k)
  PROVE  TypeOK'
<1>1. UserTurn \in Message
  BY MessageTypes, EmptySeq DEF TypeOK
<1>2. log' \in [Session -> Seq(Message)]
  BY <1>1, LogGrows DEF Run, TypeOK
<1>3. [Idle EXCEPT !.pc = "asking", !.s = s, !.scope = k, !.left = MaxIterations]
        \in Locals
  BY IdleIsLocals, BoundAssumption DEF Idle, Locals, Stage
<1>4. QED
  BY <1>2, <1>3, UpdateType, BoundAssumption DEF Run, TypeOK, StoreTypeOK, Idle

LEMMA ResumeType ==
  ASSUME TypeOK, NEW w \in Worker, NEW s \in Session, NEW k \in Scope, Resume(w, s, k)
  PROVE  TypeOK'
<1>1. LastTurn(s) \in Message
  BY DEF Resume, CanContinue, LastTurn, TypeOK
<1>2. [Idle EXCEPT !.pc = "checking", !.s = s, !.scope = k,
                   !.calls = LastTurn(s).calls, !.left = MaxIterations] \in Locals
  BY <1>1, IdleIsLocals, BoundAssumption DEF Idle, Locals, Stage, Message
<1>3. QED
  BY <1>2, UpdateType DEF Resume, TypeOK, StoreTypeOK, Idle

LEMMA ModelAnswersType ==
  ASSUME TypeOK, NEW w \in Worker, NEW batch \in Batches, NEW wants \in BOOLEAN,
         ModelAnswers(w, batch, wants)
  PROVE  TypeOK'
<1>1. worker[w] \in Locals /\ worker[w].s \in Session /\ worker[w].scope \in Scope
  BY DEF TypeOK, ModelAnswers
<1>2. issued' \in [Session -> [Call -> Scope \cup {None}]]
  BY <1>1 DEF TypeOK, ModelAnswers
<1> DEFINE me == [worker[w] EXCEPT !.pc = "storing", !.calls = batch,
                                   !.settle = wants, !.left = @ - 1]
<1>3. worker[w].left - 1 \in Nat
  <2>1. worker[w].left \in Nat /\ worker[w].left > 0
    BY <1>1 DEF TypeOK, ModelAnswers, Locals
  <2>2. QED
    BY <2>1
<1>4. batch \in Seq(Call) /\ "storing" \in Stage
  BY BatchAssumption DEF Stage
<1>5. me \in Locals /\ me.pc = "storing" /\ me.s \in Session /\ me.scope \in Scope
  BY <1>1, <1>3, <1>4 DEF Locals
<1>6. worker' = [worker EXCEPT ![w] = me]
  BY DEF ModelAnswers, TypeOK
<1>7. QED
  BY <1>2, <1>5, <1>6, UpdateType DEF ModelAnswers, TypeOK, StoreTypeOK

LEMMA StoreAnswerType ==
  ASSUME TypeOK, NEW w \in Worker, StoreAnswer(w)
  PROVE  TypeOK'
<1>1. worker[w] \in Locals /\ worker[w].s \in Session /\ worker[w].scope \in Scope
  BY DEF TypeOK, StoreAnswer
<1>2. AssistantTurn(worker[w].scope, worker[w].calls) \in Message
  BY <1>1, MessageTypes, EmptySeq DEF Locals
<1>3. log' \in [Session -> Seq(Message)]
  BY <1>1, <1>2, LogGrows DEF StoreAnswer, TypeOK
<1>4. CASE worker[w].settle
  <2> DEFINE me == [worker[w] EXCEPT !.pc = "checking"]
  <2>1. me \in Locals /\ me.pc = "checking" /\ me.s \in Session /\ me.scope \in Scope
    BY <1>1 DEF Locals, Stage
  <2>2. worker' = [worker EXCEPT ![w] = me]
    BY <1>4 DEF StoreAnswer, Goto, TypeOK
  <2>3. QED
    BY <1>3, <2>1, <2>2, UpdateType DEF StoreAnswer, TypeOK, StoreTypeOK
<1>5. CASE ~ worker[w].settle
  BY <1>3, <1>5, ReturnType DEF StoreAnswer, TypeOK, StoreTypeOK
<1>6. QED
  BY <1>4, <1>5

LEMMA CheckDecisionsType ==
  ASSUME TypeOK, NEW w \in Worker, CheckDecisions(w)
  PROVE  TypeOK'
<1>1. worker[w] \in Locals /\ worker[w].s \in Session /\ worker[w].scope \in Scope
  BY DEF TypeOK, CheckDecisions
<1> DEFINE held == Gated(worker[w].scope, Said(worker[w]))
           seen == ForToolCalls(worker[w].s, held)
           running == [worker[w] EXCEPT !.pc = "running", !.decisions = seen]
<1>2. seen \in [Call -> Status] /\ Unread \in [Call -> Status]
  BY <1>1, ForToolCallsType DEF TypeOK, Unread, Status
<1>3. /\ running \in Locals
      /\ [running EXCEPT !.decisions = Unread] \in Locals
      /\ [running EXCEPT !.pc = "requesting"] \in Locals
  BY <1>1, <1>2 DEF Locals, Stage
<1>4. \/ \E me \in {running, [running EXCEPT !.decisions = Unread],
                    [running EXCEPT !.pc = "requesting"]} :
             worker' = [worker EXCEPT ![w] = me]
      \/ Return(w)
  BY DEF CheckDecisions
<1>5. CASE Return(w)
  BY <1>5, ReturnType DEF CheckDecisions, TypeOK, StoreTypeOK
<1>6. ASSUME NEW me \in {running, [running EXCEPT !.decisions = Unread],
                         [running EXCEPT !.pc = "requesting"]},
             worker' = [worker EXCEPT ![w] = me]
      PROVE  TypeOK'
  <2>1. /\ me \in Locals /\ me.s \in Session /\ me.scope \in Scope
        /\ me.pc # "asking"
    BY <1>1, <1>3, <1>6 DEF Locals
  <2>2. QED
    BY <1>6, <2>1, UpdateType DEF CheckDecisions, TypeOK, StoreTypeOK
<1>7. QED
  BY <1>4, <1>5, <1>6

LEMMA RequestApprovalsType ==
  ASSUME TypeOK, NEW w \in Worker, RequestApprovals(w)
  PROVE  TypeOK'
<1>1. worker[w].s \in Session
  BY DEF TypeOK, RequestApprovals
<1>2. StoreTypeOK'
  <2>1. StoreTypeOK
    BY DEF TypeOK
  <2>2. CASE UNCHANGED approval
    BY <2>1, <2>2 DEF StoreTypeOK
  <2>3. QED
    BY <1>1, <2>1, <2>2, RequestKeepsType DEF RequestApprovals
<1>3. QED
  BY <1>2, ReturnType DEF RequestApprovals, TypeOK

(* Executing one more call adds one to its counter and to no other. *)
LEMMA CountRun ==
  ASSUME ran \in [Session -> [Call -> Nat]], NEW s \in Session, NEW c \in Call,
         ran' = [ran EXCEPT ![s][c] = @ + 1]
  PROVE  /\ ran' \in [Session -> [Call -> Nat]]
         /\ ran'[s][c] = ran[s][c] + 1
         /\ \A t \in Session, e \in Call :
               t # s \/ e # c => ran'[t][e] = ran[t][e]
<1>1. ran[s][c] + 1 \in Nat
  OBVIOUS
<1>2. [ran[s] EXCEPT ![c] = ran[s][c] + 1] \in [Call -> Nat]
  BY <1>1
<1>3. ran' = [ran EXCEPT ![s] = [ran[s] EXCEPT ![c] = ran[s][c] + 1]]
  OBVIOUS
<1>4. QED
  BY <1>2, <1>3

LEMMA RunCallType ==
  ASSUME TypeOK, NEW w \in Worker, RunCall(w)
  PROVE  TypeOK'
<1>1. worker[w] \in Locals /\ worker[w].s \in Session /\ worker[w].scope \in Scope
  BY DEF TypeOK, RunCall
<1> DEFINE c == worker[w].calls[Len(worker[w].outcomes) + 1]
           outcome == OutcomeOf(worker[w].scope, c, worker[w].decisions[c])
           me == [worker[w] EXCEPT !.outcomes = Append(@, outcome)]
<1>2. c \in Call
  <2>1. /\ worker[w].calls \in Seq(Call) /\ worker[w].outcomes \in Seq(Outcome)
        /\ Len(worker[w].outcomes) < Len(worker[w].calls)
    BY <1>1 DEF RunCall, Locals
  <2>2. QED
    BY <2>1
<1>3. outcome \in Outcome
  BY <1>1, <1>2, OutcomeType DEF Locals
<1>4. Append(worker[w].outcomes, outcome) \in Seq(Outcome)
  BY <1>1, <1>3, AppendProperties DEF Locals
<1>5. me \in Locals /\ me.s \in Session /\ me.scope \in Scope /\ me.pc = "running"
  BY <1>1, <1>4 DEF Locals, RunCall
<1>6. worker' = [worker EXCEPT ![w] = me]
  BY DEF RunCall, TypeOK
<1>7. ran' \in [Session -> [Call -> Nat]]
  <2>1. ran \in [Session -> [Call -> Nat]]
    BY DEF TypeOK
  <2>2. CASE outcome = "ran"
    <3>1. ran' = [ran EXCEPT ![worker[w].s][c] = @ + 1]
      BY <2>2 DEF RunCall
    <3> HIDE DEF c
    <3>2. QED
      BY <1>1, <1>2, <2>1, <3>1, CountRun
  <2>3. CASE outcome # "ran"
    BY <2>1, <2>3 DEF RunCall
  <2>4. QED
    BY <2>2, <2>3
<1>8. QED
  BY <1>5, <1>6, <1>7, UpdateType DEF RunCall, TypeOK, StoreTypeOK

LEMMA StoreResultsType ==
  ASSUME TypeOK, NEW w \in Worker, StoreResults(w)
  PROVE  TypeOK'
<1>1. worker[w] \in Locals /\ worker[w].s \in Session /\ worker[w].scope \in Scope
  BY DEF TypeOK, StoreResults
<1>2. ResultTurn(worker[w].scope, worker[w].calls, worker[w].outcomes) \in Message
  BY <1>1, MessageTypes DEF Locals
<1>3. log' \in [Session -> Seq(Message)]
  BY <1>1, <1>2, LogGrows DEF StoreResults, TypeOK
<1>4. CASE worker[w].left > 0
  <2> DEFINE me == [Idle EXCEPT !.pc = "asking", !.s = worker[w].s,
                                !.scope = worker[w].scope, !.left = worker[w].left]
  <2>1. me \in Locals /\ me.s \in Session /\ me.scope \in Scope /\ me.left > 0
    BY <1>1, <1>4, IdleIsLocals DEF Locals, Stage, Idle
  <2>2. worker' = [worker EXCEPT ![w] = me]
    BY <1>4 DEF StoreResults, HasBudget
  <2>3. QED
    BY <1>3, <2>1, <2>2, UpdateType DEF StoreResults, TypeOK, StoreTypeOK
<1>5. CASE ~ (worker[w].left > 0)
  BY <1>3, <1>5, ReturnType DEF StoreResults, HasBudget, TypeOK, StoreTypeOK
<1>6. QED
  BY <1>4, <1>5

LEMMA OperatorType ==
  ASSUME TypeOK, NEW s \in Session, NEW c \in Call, NEW d \in Decision,
         Operator(s, c, d)
  PROVE  TypeOK'
BY DecideKeepsType DEF Operator, TypeOK

LEMMA CrashType ==
  ASSUME TypeOK, NEW w \in Worker, Crash(w)
  PROVE  TypeOK'
<1>1. crashes' \in 0..MaxCrashes
  BY BoundAssumption DEF Crash, TypeOK
<1>2. QED
  BY <1>1, ReturnType DEF Crash, TypeOK, StoreTypeOK

LEMMA NextType == TypeOK /\ [Next]_vars => TypeOK'
<1>1. SUFFICES ASSUME TypeOK, [Next]_vars PROVE TypeOK'
  OBVIOUS
<1>2. ASSUME NEW w \in Worker, NEW s \in Session, NEW k \in Scope,
             Run(w, s, k) \/ Resume(w, s, k)
      PROVE  TypeOK'
  BY <1>1, <1>2, RunType, ResumeType
<1>3. ASSUME NEW w \in Worker, Serve(w)
      PROVE  TypeOK'
  <2>1. ASSUME NEW batch \in Batches, NEW wants \in BOOLEAN,
               ModelAnswers(w, batch, wants)
        PROVE  TypeOK'
    BY <1>1, <2>1, ModelAnswersType
  <2>2. CASE ModelFails(w)
    BY <1>1, <2>2, ReturnType DEF ModelFails, TypeOK, StoreTypeOK
  <2>3. CASE StoreAnswer(w)
    BY <1>1, <2>3, StoreAnswerType
  <2>4. CASE CheckDecisions(w)
    BY <1>1, <2>4, CheckDecisionsType
  <2>5. CASE RequestApprovals(w)
    BY <1>1, <2>5, RequestApprovalsType
  <2>6. CASE RunCall(w)
    BY <1>1, <2>6, RunCallType
  <2>7. CASE StoreResults(w)
    BY <1>1, <2>7, StoreResultsType
  <2>8. QED
    BY <1>3, <2>1, <2>2, <2>3, <2>4, <2>5, <2>6, <2>7 DEF Serve
<1>4. ASSUME NEW s \in Session, NEW c \in Call, NEW d \in Decision, Operator(s, c, d)
      PROVE  TypeOK'
  BY <1>1, <1>4, OperatorType
<1>5. ASSUME NEW w \in Worker, Crash(w)
      PROVE  TypeOK'
  BY <1>1, <1>5, CrashType
<1>6. CASE UNCHANGED vars
  BY <1>1, <1>6 DEF TypeOK, StoreTypeOK, vars
<1>7. QED
  BY <1>1, <1>2, <1>3, <1>4, <1>5, <1>6 DEF Next

(* The tables and the locals of every call into the agent keep their types *)
(* (agent.ts and the two stores), whatever runs concurrently.              *)
THEOREM TypeCorrect == Spec => []TypeOK
BY InitType, NextType, PTL DEF Spec

-----------------------------------------------------------------------------
(* Decisions are final *)

(* Who changes the queue, and how: a request adds pending rows for the     *)
(* calls of one turn being served, an operator decides one pending row.    *)
LEMMA QueueStep ==
  ASSUME TypeOK, [Next]_vars, NEW s \in Session, NEW c \in Call
  PROVE  \/ approval'[s][c] = approval[s][c]
         \/ /\ approval[s][c] = "none" /\ approval'[s][c] = "pending"
            /\ \E w \in Worker : /\ worker[w].pc = "requesting"
                                 /\ worker[w].s = s /\ c \in Said(worker[w])
         \/ approval[s][c] = "pending" /\ approval'[s][c] \in Decision
<1> DEFINE Goal == \/ approval'[s][c] = approval[s][c]
                   \/ /\ approval[s][c] = "none" /\ approval'[s][c] = "pending"
                      /\ \E w \in Worker : /\ worker[w].pc = "requesting"
                                           /\ worker[w].s = s /\ c \in Said(worker[w])
                   \/ approval[s][c] = "pending" /\ approval'[s][c] \in Decision
<1>1. StoreTypeOK
  BY DEF TypeOK
<1>2. ASSUME NEW w \in Worker, RequestApprovals(w)
      PROVE  Goal
  <2>1. worker[w].pc = "requesting" /\ worker[w].s \in Session
    BY <1>2 DEF RequestApprovals, TypeOK
  <2>2. PICK C \in SUBSET Said(worker[w]) :
             Request(worker[w].s, C) \/ UNCHANGED approval
    BY <1>2 DEF RequestApprovals, Missing, Gated
  <2>3. CASE UNCHANGED approval
    BY <2>3
  <2>4. CASE Request(worker[w].s, C)
    BY <1>1, <2>1, <2>4, RequestRows
  <2>5. QED
    BY <2>2, <2>3, <2>4
<1>3. ASSUME NEW t \in Session, NEW e \in Call, NEW d \in Decision, Operator(t, e, d)
      PROVE  Goal
  BY <1>1, <1>3, DecideRows DEF Operator
<1>4. ASSUME NEW w \in Worker, Serve(w), ~ RequestApprovals(w)
      PROVE  UNCHANGED approval
  BY <1>4 DEF Serve, ModelAnswers, ModelFails, StoreAnswer, CheckDecisions,
              RunCall, StoreResults
<1>5. CASE UNCHANGED approval
  BY <1>5
<1>6. QED
  BY <1>2, <1>3, <1>4, <1>5 DEF Next, Run, Resume, Crash, vars

LEMMA DecisionStep ==
  ASSUME TypeOK, [Next]_vars, NEW s \in Session, NEW c \in Call,
         approval[s][c] \in Decision
  PROVE  approval'[s][c] = approval[s][c]
BY QueueStep DEF Decision

(* A decision is taken once: whoever races with whom, no later step changes *)
(* it or takes the row back (approval stores, #decide).                     *)
THEOREM DecisionsFinal == Spec => DecisionsAreFinal
<1>1. TypeOK /\ [Next]_vars =>
        [\A s \in Session, c \in Call :
           approval[s][c] \in Decision => approval'[s][c] = approval[s][c]]_vars
  BY DecisionStep
<1>2. QED
  BY <1>1, TypeCorrect, PTL DEF Spec, DecisionsAreFinal

-----------------------------------------------------------------------------
(* The gate holds: the steps of the invariant *)

(* A stored message is an old one, or the one just appended. *)
LEMMA LogEntries ==
  ASSUME log \in [Session -> Seq(Message)], NEW s \in Session, NEW m \in Message,
         log' = [log EXCEPT ![s] = Append(@, m)],
         NEW t \in Session, NEW i \in DOMAIN log'[t]
  PROVE  \/ log'[t][i] = m /\ t = s
         \/ i \in DOMAIN log[t] /\ log'[t][i] = log[t][i]
<1>1. log[s] \in Seq(Message) /\ log[t] \in Seq(Message)
  OBVIOUS
<1>2. CASE t # s
  BY <1>2
<1>3. CASE t = s
  <2>1. log'[t] = Append(log[s], m)
    BY <1>3
  <2>2. /\ Len(Append(log[s], m)) = Len(log[s]) + 1
        /\ Append(log[s], m) \in Seq(Message)
        /\ \A j \in 1..Len(log[s]) : Append(log[s], m)[j] = log[s][j]
        /\ Append(log[s], m)[Len(log[s]) + 1] = m
    BY <1>1, AppendProperties
  <2>3. i \in 1..(Len(log[s]) + 1)
    BY <2>1, <2>2
  <2>4. QED
    BY <1>1, <1>3, <2>1, <2>2, <2>3
<1>4. QED
  BY <1>2, <1>3

(* A call once issued keeps its registry. *)
LEMMA IssuedStable ==
  ASSUME TypeOK, [Next]_vars, NEW s \in Session, NEW c \in Call, issued[s][c] # None
  PROVE  issued'[s][c] = issued[s][c]
<1>1. ASSUME NEW w \in Worker, NEW batch \in Batches, NEW wants \in BOOLEAN,
             ModelAnswers(w, batch, wants)
      PROVE  issued'[s][c] = issued[s][c]
  <2> DEFINE C == {batch[j] : j \in DOMAIN batch}
  <2>1. \A e \in C : issued[worker[w].s][e] = None
    BY <1>1 DEF ModelAnswers
  <2>2. issued' = [issued EXCEPT ![worker[w].s] =
                     [e \in Call |-> IF e \in C THEN worker[w].scope
                                     ELSE issued[worker[w].s][e]]]
    BY <1>1 DEF ModelAnswers
  <2> HIDE DEF C
  <2>3. QED
    BY <2>1, <2>2 DEF TypeOK
<1>2. ASSUME NEW w \in Worker, Serve(w),
             ~ \E batch \in Batches, wants \in BOOLEAN : ModelAnswers(w, batch, wants)
      PROVE  UNCHANGED issued
  BY <1>2 DEF Serve, ModelFails, StoreAnswer, CheckDecisions, RequestApprovals,
              RunCall, StoreResults
<1>3. CASE UNCHANGED issued
  BY <1>3
<1>4. QED
  BY <1>1, <1>2, <1>3 DEF Next, Run, Resume, Operator, Crash, vars

(* Taking over one call of the table leaves the other calls alone. *)
LEMMA OthersKeepLocals ==
  ASSUME TypeOK, NEW w \in Worker, NEW v \in Worker, v # w,
         \/ \E s \in Session, k \in Scope : Run(w, s, k) \/ Resume(w, s, k)
         \/ Serve(w)
         \/ Crash(w)
  PROVE  worker'[v] = worker[v]
<1>1. worker \in [Worker -> Locals]
  BY DEF TypeOK
<1>2. CASE \E s \in Session, k \in Scope : Run(w, s, k) \/ Resume(w, s, k)
  BY <1>1, <1>2 DEF Run, Resume
<1>3. CASE Serve(w)
  <2>1. CASE \E batch \in Batches, wants \in BOOLEAN : ModelAnswers(w, batch, wants)
    BY <1>1, <2>1 DEF ModelAnswers, Goto, Return
  <2>2. CASE ModelFails(w)
    BY <1>1, <2>2 DEF ModelFails, Return
  <2>3. CASE StoreAnswer(w) \/ RunCall(w)
    BY <1>1, <2>3 DEF StoreAnswer, RunCall, Goto, Return
  <2>4. CASE CheckDecisions(w)
    BY <1>1, <2>4 DEF CheckDecisions, Goto, Return
  <2>5. CASE RequestApprovals(w) \/ StoreResults(w)
    BY <1>1, <2>5 DEF RequestApprovals, StoreResults, Goto, Return
  <2>6. QED
    BY <1>3, <2>1, <2>2, <2>3, <2>4, <2>5 DEF Serve
<1>4. CASE Crash(w)
  BY <1>1, <1>4 DEF Crash, Return
<1>5. QED
  BY <1>2, <1>3, <1>4

(* Where the calls a worker serves come from. *)
LEMMA CallsStep ==
  ASSUME TypeOK, [Next]_vars, NEW v \in Worker, worker'[v].pc # "idle"
  PROVE  \/ worker'[v].calls = <<>>
         \/ /\ worker[v].pc # "idle"
            /\ worker'[v].s = worker[v].s
            /\ worker'[v].scope = worker[v].scope
            /\ worker'[v].calls = worker[v].calls
         \/ \E s \in Session, k \in Scope : Resume(v, s, k)
         \/ \E batch \in Batches, wants \in BOOLEAN : ModelAnswers(v, batch, wants)
<1>1. worker \in [Worker -> Locals] /\ Idle.pc = "idle"
  BY DEF TypeOK, Idle
<1> DEFINE Same == /\ worker[v].pc # "idle"
                   /\ worker'[v].s = worker[v].s
                   /\ worker'[v].scope = worker[v].scope
                   /\ worker'[v].calls = worker[v].calls
<1>2. ASSUME NEW w \in Worker, v # w,
             \/ \E s \in Session, k \in Scope : Run(w, s, k) \/ Resume(w, s, k)
             \/ Serve(w)
             \/ Crash(w)
      PROVE  Same
  <2>1. worker'[v] = worker[v]
    BY <1>2, OthersKeepLocals
  <2>2. QED
    BY <2>1
<1>3. ASSUME NEW s \in Session, NEW k \in Scope, Run(v, s, k)
      PROVE  worker'[v].calls = <<>>
  BY <1>1, <1>3 DEF Run, Idle
<1>4. ASSUME Return(v)
      PROVE  FALSE
  BY <1>1, <1>4 DEF Return
<1>5. CASE StoreAnswer(v)
  BY <1>1, <1>4, <1>5 DEF StoreAnswer, Goto, Locals
<1>6. CASE CheckDecisions(v)
  <2> DEFINE seen == ForToolCalls(worker[v].s, Gated(worker[v].scope, Said(worker[v])))
             running == [worker[v] EXCEPT !.pc = "running", !.decisions = seen]
             Next3 == {running, [running EXCEPT !.decisions = Unread],
                       [running EXCEPT !.pc = "requesting"]}
  <2>1. worker[v] \in Locals /\ worker[v].pc = "checking"
    BY <1>1, <1>6 DEF CheckDecisions
  <2>2. \A me \in Next3 : /\ me.s = worker[v].s /\ me.scope = worker[v].scope
                          /\ me.calls = worker[v].calls
    BY <2>1 DEF Locals
  <2>3. (\E me \in Next3 : worker' = [worker EXCEPT ![v] = me]) \/ Return(v)
    BY <1>6 DEF CheckDecisions
  <2> HIDE DEF Next3
  <2>4. QED
    BY <1>1, <1>4, <2>1, <2>2, <2>3
<1>7. CASE RunCall(v)
  BY <1>1, <1>7 DEF RunCall, Locals
<1>8. CASE StoreResults(v)
  BY <1>1, <1>4, <1>8 DEF StoreResults, Idle
<1>9. CASE UNCHANGED worker
  BY <1>9
<1>10. QED
  BY <1>2, <1>3, <1>4, <1>5, <1>6, <1>7, <1>8, <1>9
     DEF Next, Serve, ModelFails, RequestApprovals, Crash, Operator, vars

LEMMA StoredStep ==
  ASSUME TypeOK, [Next]_vars, StoredCallsIssued, ServedCallsIssued
  PROVE  StoredCallsIssued'
<1> SUFFICES ASSUME NEW s \in Session, NEW i \in DOMAIN log'[s],
                    log'[s][i].kind = "assistant", NEW c \in Said(log'[s][i])
             PROVE  /\ issued'[s][c] # None
                    /\ KeepsScope => issued'[s][c] = log'[s][i].scope
  BY DEF StoredCallsIssued, IssuedBy, Said
<1>1. c \in Call /\ log \in [Session -> Seq(Message)]
  <2>1. log \in [Session -> Seq(Message)] /\ log'[s] \in Seq(Message)
    BY NextType DEF TypeOK
  <2>2. log'[s][i] \in Message
    BY <2>1
  <2>3. log'[s][i].calls \in Seq(Call)
    BY <2>2 DEF Message
  <2>4. QED
    BY <2>1, <2>3 DEF Said
<1>2. SUFFICES IssuedBy(s, c, log'[s][i].scope)
  <2>1. ASSUME issued[s][c] # None
        PROVE  issued'[s][c] = issued[s][c]
    BY <1>1, <2>1, IssuedStable
  <2>2. QED
    BY <2>1 DEF IssuedBy
<1>3. CASE i \in DOMAIN log[s] /\ log'[s][i] = log[s][i]
  BY <1>3 DEF StoredCallsIssued
<1>4. ASSUME NEW w \in Worker, StoreAnswer(w)
      PROVE  IssuedBy(s, c, log'[s][i].scope)
  <2>1. worker[w] \in Locals /\ worker[w].s \in Session /\ worker[w].scope \in Scope
    BY <1>4 DEF TypeOK, StoreAnswer
  <2> DEFINE m == AssistantTurn(worker[w].scope, worker[w].calls)
  <2>2. m \in Message
    BY <2>1, MessageTypes, EmptySeq DEF Locals
  <2>3. log' = [log EXCEPT ![worker[w].s] = Append(@, m)]
    BY <1>4 DEF StoreAnswer
  <2>4. CASE log'[s][i] = m /\ s = worker[w].s
    <3>1. Said(m) = Said(worker[w]) /\ m.scope = worker[w].scope
      BY DEF AssistantTurn, Said
    <3>2. worker[w].pc # "idle"
      BY <1>4 DEF StoreAnswer
    <3>3. QED
      BY <2>4, <3>1, <3>2 DEF ServedCallsIssued
  <2> HIDE DEF m
  <2>5. QED
    BY <1>1, <1>3, <2>1, <2>2, <2>3, <2>4, LogEntries
<1>5. ASSUME NEW t \in Session, NEW m \in Message, m.kind # "assistant",
             log' = [log EXCEPT ![t] = Append(@, m)]
      PROVE  IssuedBy(s, c, log'[s][i].scope)
  BY <1>1, <1>3, <1>5, LogEntries
<1>6. ASSUME NEW w \in Worker, StoreResults(w)
      PROVE  IssuedBy(s, c, log'[s][i].scope)
  <2>1. worker[w] \in Locals /\ worker[w].s \in Session /\ worker[w].scope \in Scope
    BY <1>6 DEF TypeOK, StoreResults
  <2>2. ResultTurn(worker[w].scope, worker[w].calls, worker[w].outcomes) \in Message
    BY <2>1, MessageTypes DEF Locals
  <2>3. QED
    BY <1>5, <1>6, <2>1, <2>2 DEF StoreResults, ResultTurn
<1>7. ASSUME NEW w \in Worker, NEW t \in Session, NEW k \in Scope, Run(w, t, k)
      PROVE  IssuedBy(s, c, log'[s][i].scope)
  <2>1. UserTurn \in Message /\ UserTurn.kind # "assistant"
    BY MessageTypes, EmptySeq DEF UserTurn
  <2>2. QED
    BY <1>5, <1>7, <2>1 DEF Run
<1>8. CASE UNCHANGED log
  BY <1>3, <1>8
<1>9. ASSUME NEW w \in Worker, Serve(w), ~ StoreAnswer(w), ~ StoreResults(w)
      PROVE  UNCHANGED log
  BY <1>9 DEF Serve, ModelAnswers, ModelFails, CheckDecisions, RequestApprovals,
              RunCall
<1>10. QED
  BY <1>4, <1>6, <1>7, <1>8, <1>9 DEF Next, Resume, Operator, Crash, vars

LEMMA ServedStep ==
  ASSUME TypeOK, [Next]_vars, StoredCallsIssued, ServedCallsIssued
  PROVE  ServedCallsIssued'
<1> SUFFICES ASSUME NEW v \in Worker, worker'[v].pc # "idle",
                    NEW c \in Said(worker'[v])
             PROVE  /\ issued'[worker'[v].s][c] # None
                    /\ KeepsScope => issued'[worker'[v].s][c] = worker'[v].scope
  BY DEF ServedCallsIssued, IssuedBy, Said
<1>1. worker'[v] \in Locals /\ worker'[v].s \in Session
  BY NextType DEF TypeOK
<1>2. c \in Call /\ worker'[v].calls # <<>>
  <2>1. worker'[v].calls \in Seq(Call)
    BY <1>1 DEF Locals
  <2>2. QED
    BY <2>1 DEF Said
<1>3. CASE /\ worker[v].pc # "idle"
           /\ worker'[v].s = worker[v].s
           /\ worker'[v].scope = worker[v].scope
           /\ worker'[v].calls = worker[v].calls
  <2>1. IssuedBy(worker[v].s, c, worker[v].scope)
    BY <1>3 DEF ServedCallsIssued, Said
  <2>2. QED
    BY <1>1, <1>2, <1>3, <2>1, IssuedStable DEF IssuedBy
<1>4. ASSUME NEW s \in Session, NEW k \in Scope, Resume(v, s, k)
      PROVE  /\ issued'[worker'[v].s][c] # None
             /\ KeepsScope => issued'[worker'[v].s][c] = worker'[v].scope
  <2>1. /\ worker'[v].s = s /\ worker'[v].scope = k
        /\ worker'[v].calls = LastTurn(s).calls
    BY <1>4 DEF Resume, Idle, TypeOK
  <2>2. /\ log[s] \in Seq(Message) /\ log[s] # <<>>
        /\ LastTurn(s).kind = "assistant"
        /\ KeepsScope => k = LastTurn(s).scope
    BY <1>4 DEF Resume, CanContinue, LastTurn, TypeOK
  <2>3. Len(log[s]) \in DOMAIN log[s]
    BY <2>2
  <2>4. c \in Said(LastTurn(s))
    BY <2>1 DEF Said
  <2>5. IssuedBy(s, c, LastTurn(s).scope)
    BY <2>2, <2>3, <2>4 DEF StoredCallsIssued, LastTurn
  <2>6. QED
    BY <1>2, <2>1, <2>2, <2>5, IssuedStable DEF IssuedBy
<1>5. ASSUME NEW batch \in Batches, NEW wants \in BOOLEAN, ModelAnswers(v, batch, wants)
      PROVE  /\ issued'[worker'[v].s][c] # None
             /\ KeepsScope => issued'[worker'[v].s][c] = worker'[v].scope
  <2>1. worker[v] \in Locals /\ worker[v].s \in Session /\ worker[v].scope \in Scope
    BY <1>5 DEF TypeOK, ModelAnswers
  <2> DEFINE me == [worker[v] EXCEPT !.pc = "storing", !.calls = batch,
                                     !.settle = wants, !.left = @ - 1]
             C == {batch[j] : j \in DOMAIN batch}
  <2>2. worker' = [worker EXCEPT ![v] = me]
    BY <1>5 DEF ModelAnswers, TypeOK
  <2>3. me.s = worker[v].s /\ me.scope = worker[v].scope /\ me.calls = batch
    BY <2>1 DEF Locals
  <2> HIDE DEF me
  <2>4. worker'[v] = me
    BY <2>2 DEF TypeOK
  <2>5. c \in C
    BY <2>3, <2>4 DEF Said
  <2>6. issued' = [issued EXCEPT ![worker[v].s] =
                     [e \in Call |-> IF e \in C THEN worker[v].scope
                                     ELSE issued[worker[v].s][e]]]
    BY <1>5 DEF ModelAnswers
  <2> HIDE DEF C
  <2>7. issued'[worker[v].s][c] = worker[v].scope
    BY <1>2, <2>1, <2>5, <2>6 DEF TypeOK
  <2>8. QED
    BY <2>1, <2>3, <2>4, <2>7, NoneAssumption
<1>6. QED
  BY <1>2, <1>3, <1>4, <1>5, CallsStep

(* How a turn comes to run: it goes on, or it has just read the queue. *)
LEMMA RunningStep ==
  ASSUME TypeOK, [Next]_vars, NEW v \in Worker, worker'[v].pc = "running"
  PROVE  \/ /\ worker[v].pc = "running"
            /\ worker'[v].s = worker[v].s
            /\ worker'[v].scope = worker[v].scope
            /\ worker'[v].calls = worker[v].calls
            /\ worker'[v].decisions = worker[v].decisions
         \/ CheckDecisions(v)
<1> DEFINE Same == /\ worker[v].pc = "running"
                   /\ worker'[v].s = worker[v].s
                   /\ worker'[v].scope = worker[v].scope
                   /\ worker'[v].calls = worker[v].calls
                   /\ worker'[v].decisions = worker[v].decisions
<1>1. worker \in [Worker -> Locals] /\ Idle.pc = "idle"
  BY DEF TypeOK, Idle
<1>2. ASSUME NEW w \in Worker, v # w,
             \/ \E s \in Session, k \in Scope : Run(w, s, k) \/ Resume(w, s, k)
             \/ Serve(w)
             \/ Crash(w)
      PROVE  Same
  <2>1. worker'[v] = worker[v]
    BY <1>2, OthersKeepLocals
  <2>2. QED
    BY <2>1
<1>3. ASSUME NEW s \in Session, NEW k \in Scope, Run(v, s, k) \/ Resume(v, s, k)
      PROVE  FALSE
  BY <1>1, <1>3 DEF Run, Resume, Idle
<1>4. ASSUME Return(v)
      PROVE  FALSE
  BY <1>1, <1>4 DEF Return
<1>5. ASSUME NEW batch \in Batches, NEW wants \in BOOLEAN, ModelAnswers(v, batch, wants)
      PROVE  FALSE
  <2>1. worker'[v].pc = "storing"
    BY <1>1, <1>5 DEF ModelAnswers, Locals
  <2>2. QED
    BY <2>1
<1>6. CASE StoreAnswer(v)
  BY <1>1, <1>4, <1>6 DEF StoreAnswer, Goto, Locals
<1>7. CASE RunCall(v)
  BY <1>1, <1>7 DEF RunCall, Locals
<1>8. CASE StoreResults(v)
  BY <1>1, <1>4, <1>8 DEF StoreResults, Idle
<1>9. CASE UNCHANGED worker
  BY <1>9
<1>10. QED
  BY <1>2, <1>3, <1>4, <1>5, <1>6, <1>7, <1>8, <1>9
     DEF Next, Serve, ModelFails, RequestApprovals, Crash, Operator, vars

LEMMA SnapshotStep ==
  ASSUME TypeOK, [Next]_vars, SnapshotsCurrent
  PROVE  SnapshotsCurrent'
<1> SUFFICES ASSUME NEW v \in Worker, worker'[v].pc = "running", HasQueue,
                    NEW c \in Gated(worker'[v].scope, Said(worker'[v]))
             PROVE  /\ worker'[v].decisions[c] \in Decision
                    /\ approval'[worker'[v].s][c] = worker'[v].decisions[c]
  BY DEF SnapshotsCurrent
<1>1. /\ worker'[v] \in Locals /\ worker'[v].s \in Session
      /\ c \in Call
  <2>1. worker'[v] \in Locals /\ worker'[v].s \in Session
    BY NextType DEF TypeOK
  <2>2. worker'[v].calls \in Seq(Call)
    BY <2>1 DEF Locals
  <2>3. QED
    BY <2>1, <2>2 DEF Gated, Said
<1>2. CASE /\ worker[v].pc = "running"
           /\ worker'[v].s = worker[v].s
           /\ worker'[v].scope = worker[v].scope
           /\ worker'[v].calls = worker[v].calls
           /\ worker'[v].decisions = worker[v].decisions
  <2>1. /\ worker[v].decisions[c] \in Decision
        /\ approval[worker[v].s][c] = worker[v].decisions[c]
    BY <1>2 DEF SnapshotsCurrent, Gated, Said
  <2>2. QED
    BY <1>1, <1>2, <2>1, DecisionStep
<1>3. CASE CheckDecisions(v)
  <2> DEFINE held == Gated(worker[v].scope, Said(worker[v]))
             seen == ForToolCalls(worker[v].s, held)
             running == [worker[v] EXCEPT !.pc = "running", !.decisions = seen]
             free == [running EXCEPT !.decisions = Unread]
             asking == [running EXCEPT !.pc = "requesting"]
  <2>1. worker[v] \in Locals /\ worker[v].s \in Session /\ worker \in [Worker -> Locals]
    BY <1>3 DEF CheckDecisions, TypeOK
  <2>2. /\ running.s = worker[v].s /\ running.scope = worker[v].scope
        /\ running.calls = worker[v].calls /\ running.decisions = seen
        /\ free.scope = worker[v].scope /\ free.calls = worker[v].calls
        /\ asking.pc = "requesting"
    BY <2>1 DEF Locals
  <2>3. \/ held = {} /\ worker' = [worker EXCEPT ![v] = free]
        \/ worker' = [worker EXCEPT ![v] = asking]
        \/ Return(v)
        \/ /\ Missing(held, seen) = {}
           /\ \A e \in held : seen[e] # "pending"
           /\ worker' = [worker EXCEPT ![v] = running]
    BY <1>3 DEF CheckDecisions, Undecided
  <2> HIDE DEF free, asking, running
  <2>4. CASE held = {} /\ worker' = [worker EXCEPT ![v] = free]
    BY <2>1, <2>2, <2>4 DEF Gated, Said
  <2>5. CASE worker' = [worker EXCEPT ![v] = asking]
    BY <2>1, <2>2, <2>5
  <2>6. CASE Return(v)
    BY <2>1, <2>6 DEF Return, Idle
  <2>7. CASE /\ Missing(held, seen) = {}
             /\ \A e \in held : seen[e] # "pending"
             /\ worker' = [worker EXCEPT ![v] = running]
    <3>1. worker'[v] = running
      BY <2>1, <2>7
    <3>2. c \in held
      BY <2>2, <3>1 DEF Gated, Said
    <3>3. seen[c] = approval[worker[v].s][c] /\ seen[c] \in Status
      BY <1>1, <2>1, <3>2 DEF ForToolCalls, TypeOK, StoreTypeOK
    <3>4. seen[c] # "none" /\ seen[c] # "pending"
      BY <2>7, <3>2 DEF Missing
    <3>5. approval' = approval
      BY <1>3 DEF CheckDecisions
    <3> HIDE DEF seen
    <3>6. QED
      BY <2>2, <3>1, <3>3, <3>4, <3>5 DEF Status
  <2>8. QED
    BY <2>3, <2>4, <2>5, <2>6, <2>7
<1>4. QED
  BY <1>2, <1>3, RunningStep

(* A tool is executed only by a running turn, for a call of that turn, and *)
(* past the gate.                                                          *)
LEMMA RunStep ==
  ASSUME TypeOK, [Next]_vars, NEW s \in Session, NEW c \in Call,
         ran'[s][c] # ran[s][c]
  PROVE  \E w \in Worker :
           /\ worker[w].pc = "running" /\ worker[w].s = s
           /\ c \in Said(worker[w])
           /\ worker[w].scope \in Scope
           /\ Passes(worker[w].scope, c, worker[w].decisions[c])
           /\ Kind[worker[w].scope][c] # "unknown"
           /\ ran' = [ran EXCEPT ![s][c] = @ + 1]
<1>1. ASSUME NEW w \in Worker, RunCall(w)
      PROVE  /\ worker[w].pc = "running" /\ worker[w].s = s
             /\ c \in Said(worker[w])
             /\ worker[w].scope \in Scope
             /\ Passes(worker[w].scope, c, worker[w].decisions[c])
             /\ Kind[worker[w].scope][c] # "unknown"
             /\ ran' = [ran EXCEPT ![s][c] = @ + 1]
  <2> DEFINE e == worker[w].calls[Len(worker[w].outcomes) + 1]
             outcome == OutcomeOf(worker[w].scope, e, worker[w].decisions[e])
  <2>1. /\ worker[w] \in Locals /\ worker[w].s \in Session /\ worker[w].scope \in Scope
        /\ worker[w].pc = "running" /\ ran \in [Session -> [Call -> Nat]]
    BY <1>1 DEF RunCall, TypeOK
  <2>2. e \in Said(worker[w]) /\ e \in Call
    <3>1. /\ worker[w].calls \in Seq(Call) /\ worker[w].outcomes \in Seq(Outcome)
          /\ Len(worker[w].outcomes) < Len(worker[w].calls)
      BY <1>1, <2>1 DEF RunCall, Locals
    <3>2. Len(worker[w].outcomes) + 1 \in DOMAIN worker[w].calls
      BY <3>1
    <3>3. QED
      BY <3>1, <3>2 DEF Said
  <2>3. outcome = "ran" /\ ran' = [ran EXCEPT ![worker[w].s][e] = @ + 1]
    BY <1>1 DEF RunCall
  <2>4. /\ Passes(worker[w].scope, e, worker[w].decisions[e])
        /\ Kind[worker[w].scope][e] # "unknown"
    BY <2>3 DEF OutcomeOf, Refusal, Executed
  <2> HIDE DEF e
  <2>5. worker[w].s = s /\ e = c
    BY <2>1, <2>2, <2>3, CountRun
  <2>6. QED
    BY <2>1, <2>2, <2>3, <2>4, <2>5
<1>2. ASSUME NEW w \in Worker, Serve(w), ~ RunCall(w)
      PROVE  UNCHANGED ran
  BY <1>2 DEF Serve, ModelAnswers, ModelFails, StoreAnswer, CheckDecisions,
              RequestApprovals, StoreResults
<1>3. ~ UNCHANGED ran
  OBVIOUS
<1>4. QED
  BY <1>1, <1>2, <1>3 DEF Next, Run, Resume, Operator, Crash, vars

LEMMA UntouchedStep ==
  ASSUME TypeOK, [Next]_vars, ServedCallsIssued, UnissuedUntouched
  PROVE  UnissuedUntouched'
<1> SUFFICES ASSUME NEW s \in Session, NEW c \in Call, issued'[s][c] = None
             PROVE  ran'[s][c] = 0 /\ approval'[s][c] = "none"
  BY DEF UnissuedUntouched
<1>1. issued[s][c] = None
  BY IssuedStable
<1>2. ran[s][c] = 0 /\ approval[s][c] = "none"
  BY <1>1 DEF UnissuedUntouched
<1>3. \A w \in Worker : worker[w].pc # "idle" /\ worker[w].s = s => c \notin Said(worker[w])
  BY <1>1 DEF ServedCallsIssued, IssuedBy
<1>4. ran'[s][c] = ran[s][c]
  <2>1. SUFFICES ASSUME ran'[s][c] # ran[s][c] PROVE FALSE
    OBVIOUS
  <2>2. PICK w \in Worker : /\ worker[w].pc = "running" /\ worker[w].s = s
                            /\ c \in Said(worker[w])
    BY <2>1, RunStep
  <2>3. QED
    BY <1>3, <2>2
<1>5. approval'[s][c] = approval[s][c]
  BY <1>2, <1>3, QueueStep
<1>6. QED
  BY <1>2, <1>4, <1>5

(* The turn that executes a held call runs it through a registry that holds *)
(* it too, and acts on the decision that is in the queue.                   *)
LEMMA HeldRunIsApproved ==
  ASSUME TypeOK, ServedCallsIssued, SnapshotsCurrent,
         NEW w \in Worker, NEW s \in Session, NEW c \in Call,
         worker[w].pc = "running", worker[w].s = s, c \in Said(worker[w]),
         worker[w].scope \in Scope,
         Passes(worker[w].scope, c, worker[w].decisions[c]),
         Kind[worker[w].scope][c] # "unknown",
         Held(s, c), GateAgrees(c)
  PROVE  approval[s][c] = "approved"
<1> DEFINE k == worker[w].scope
<1>1. Kind[k][c] \in {"open", "gated", "unknown"}
  BY KindAssumption
<1>2. KeepsScope => issued[s][c] = k
  BY DEF ServedCallsIssued, IssuedBy
<1>3. Kind[k][c] = "gated"
  BY <1>1, <1>2 DEF Held, GateAgrees
<1>4. HasQueue /\ worker[w].decisions[c] = "approved"
  BY <1>3 DEF Passes
<1>5. c \in Gated(k, Said(worker[w]))
  BY <1>3 DEF Gated
<1>6. QED
  BY <1>4, <1>5 DEF SnapshotsCurrent

LEMMA GateStep ==
  ASSUME TypeOK, [Next]_vars, GateInv
  PROVE  GatedNeedsApproval'
<1> USE DEF GateInv
<1> SUFFICES ASSUME NEW s \in Session, NEW c \in Call,
                    Held(s, c)', GateAgrees(c), ran'[s][c] > 0
             PROVE  approval'[s][c] = "approved"
  BY DEF GatedNeedsApproval, GateAgrees
<1>1. issued[s][c] # None
  <2>1. SUFFICES ASSUME issued[s][c] = None PROVE FALSE
    OBVIOUS
  <2>2. ran[s][c] = 0
    BY <2>1 DEF UnissuedUntouched
  <2>3. PICK w \in Worker : /\ worker[w].pc = "running" /\ worker[w].s = s
                            /\ c \in Said(worker[w])
    BY <2>2, RunStep
  <2>4. QED
    BY <2>1, <2>3 DEF ServedCallsIssued, IssuedBy
<1>2. Held(s, c)
  BY <1>1, IssuedStable DEF Held
<1>3. approval[s][c] = "approved"
  <2>1. CASE ran[s][c] > 0
    BY <1>2, <2>1 DEF GatedNeedsApproval
  <2>2. CASE ~ (ran[s][c] > 0)
    BY <1>2, <2>2, RunStep, HeldRunIsApproved
  <2>3. QED
    BY <2>1, <2>2
<1>4. QED
  BY <1>3, DecisionStep DEF Decision

LEMMA InitGateInv == Init => GateInv
<1> SUFFICES ASSUME Init PROVE GateInv
  OBVIOUS
<1>1. StoredCallsIssued
  BY DEF Init, StoredCallsIssued
<1>2. ServedCallsIssued /\ SnapshotsCurrent
  <2>1. \A w \in Worker : worker[w].pc = "idle"
    BY DEF Init, Idle
  <2>2. QED
    BY <2>1 DEF ServedCallsIssued, SnapshotsCurrent
<1>3. UnissuedUntouched /\ GatedNeedsApproval
  BY DEF Init, StoreInit, UnissuedUntouched, GatedNeedsApproval, Held
<1>4. QED
  BY <1>1, <1>2, <1>3 DEF GateInv

LEMMA NextGateInv == TypeOK /\ GateInv /\ [Next]_vars => GateInv'
BY StoredStep, ServedStep, SnapshotStep, UntouchedStep, GateStep DEF GateInv

(* Whatever two workers, an operator and a crash do to each other, a held  *)
(* tool that was executed had been approved, and without a queue it is     *)
(* never executed (agent.ts #settle, #runCall).                            *)
THEOREM GateHolds == Spec => []GatedNeedsApproval
<1>1. GateInv => GatedNeedsApproval
  BY DEF GateInv
<1>2. QED
  BY <1>1, InitGateInv, NextGateInv, TypeCorrect, PTL DEF Spec

-----------------------------------------------------------------------------
(* Refinement: the loop implements the gate *)

(* A batch of calls is issued as one step of the gate. *)
LEMMA AnswersIssue ==
  ASSUME TypeOK, NEW w \in Worker, NEW batch \in Batches, NEW wants \in BOOLEAN,
         ModelAnswers(w, batch, wants)
  PROVE  Gate!GateNext
<1> DEFINE s == worker[w].s
           k == worker[w].scope
           C == {batch[j] : j \in DOMAIN batch}
           H == {c \in C : Kind[k][c] = "gated"}
<1>1. s \in Session /\ k \in Scope /\ k # None
  BY NoneAssumption DEF ModelAnswers, TypeOK
<1>2. C \in SUBSET Call /\ H \in SUBSET C
  <2>1. batch \in Seq(Call)
    BY BatchAssumption
  <2>2. QED
    BY <2>1
<1>3. /\ \A c \in C : issued[s][c] = None
      /\ issued' = [issued EXCEPT ![s] =
                      [c \in Call |-> IF c \in C THEN k ELSE issued[s][c]]]
      /\ UNCHANGED <<approval, ran>>
  BY DEF ModelAnswers
<1> HIDE DEF s, k, C
<1>4. issued \in [Session -> [Call -> Scope \cup {None}]]
  BY DEF TypeOK
<1>5. GateOf' = [GateOf EXCEPT ![s] =
                   [c \in Call |-> IF c \notin C THEN @[c]
                                   ELSE IF c \in H THEN "held" ELSE "open"]]
  <2>1. \A t \in Session, c \in Call :
          issued'[t][c] = IF t = s /\ c \in C THEN k ELSE issued[t][c]
    BY <1>1, <1>3, <1>4
  <2>2. GateOf' = [t \in Session |-> [c \in Call |->
                     IF issued'[t][c] = None THEN "unissued"
                     ELSE IF Kind[issued'[t][c]][c] = "gated" THEN "held" ELSE "open"]]
    BY DEF GateOf
  <2>3. \A t \in Session, c \in Call :
          GateOf'[t][c] = IF t = s /\ c \in C
                            THEN IF c \in H THEN "held" ELSE "open"
                            ELSE GateOf[t][c]
    <3>1. SUFFICES ASSUME NEW t \in Session, NEW c \in Call
                   PROVE  GateOf'[t][c] = IF t = s /\ c \in C
                                            THEN IF c \in H THEN "held" ELSE "open"
                                            ELSE GateOf[t][c]
      OBVIOUS
    <3>2. GateOf'[t][c] = IF issued'[t][c] = None THEN "unissued"
                          ELSE IF Kind[issued'[t][c]][c] = "gated" THEN "held" ELSE "open"
      BY <2>2
    <3>3. GateOf[t][c] = IF issued[t][c] = None THEN "unissued"
                         ELSE IF Kind[issued[t][c]][c] = "gated" THEN "held" ELSE "open"
      BY DEF GateOf
    <3>4. CASE t = s /\ c \in C
      BY <1>1, <2>1, <3>2, <3>4
    <3>5. CASE ~ (t = s /\ c \in C)
      BY <2>1, <3>2, <3>3, <3>5
    <3>6. QED
      BY <3>4, <3>5
  <2>4. GateOf' = [t \in Session |-> [c \in Call |-> GateOf'[t][c]]]
    BY <2>2
  <2>5. GateOf = [t \in Session |-> [c \in Call |-> GateOf[t][c]]]
    BY DEF GateOf
  <2> HIDE DEF H
  <2>6. QED
    BY <1>1, <2>3, <2>4, <2>5
<1>6. \A c \in C : GateOf[s][c] = "unissued"
  BY <1>1, <1>2, <1>3 DEF GateOf
<1>7. Gate!Issue(s, C, H)
  BY <1>3, <1>5, <1>6 DEF Gate!Issue
<1>8. QED
  BY <1>1, <1>2, <1>7 DEF Gate!GateNext

(* The calls a turn puts in front of a person are held by the gate. *)
LEMMA RequestsAsk ==
  ASSUME KeepsScope, TypeOK, GateInv, NEW w \in Worker, RequestApprovals(w)
  PROVE  Gate!GateNext \/ UNCHANGED Gate!gateVars
<1> DEFINE s == worker[w].s
           missing == Missing(Gated(worker[w].scope, Said(worker[w])),
                              worker[w].decisions)
<1>1. worker[w] \in Locals /\ s \in Session /\ worker[w].pc # "idle"
  BY DEF RequestApprovals, TypeOK
<1>2. \A c \in missing : c \in Call /\ GateOf[s][c] = "held"
  <2>1. worker[w].calls \in Seq(Call)
    BY <1>1 DEF Locals
  <2>2. \A c \in missing : /\ c \in Call /\ c \in Said(worker[w])
                           /\ Kind[worker[w].scope][c] = "gated"
    BY <2>1 DEF Missing, Gated, Said
  <2>3. \A c \in missing : issued[s][c] # None /\ issued[s][c] = worker[w].scope
    BY <1>1, <2>2 DEF GateInv, ServedCallsIssued, IssuedBy
  <2>4. QED
    BY <1>1, <2>2, <2>3 DEF GateOf
<1>3. GateOf' = GateOf /\ ran' = ran
  BY DEF RequestApprovals, GateOf
<1>4. Request(s, missing) \/ UNCHANGED approval
  BY DEF RequestApprovals
<1> HIDE DEF s, missing
<1>5. CASE Request(s, missing)
  <2>1. Gate!Request(s, missing)
    BY <1>5 DEF Request, Collides, Gate!Request, Gate!Collides
  <2>2. Gate!Ask(s, missing)
    BY <1>2, <1>3, <2>1 DEF Gate!Ask
  <2>3. missing \in SUBSET Call
    BY <1>2
  <2>4. QED
    BY <1>1, <2>2, <2>3 DEF Gate!GateNext
<1>6. CASE UNCHANGED approval
  BY <1>3, <1>6 DEF Gate!gateVars
<1>7. QED
  BY <1>4, <1>5, <1>6

(* A tool is executed past the gate, for a call the gate lets through. *)
LEMMA RunsPerform ==
  ASSUME KeepsScope, TypeOK, GateInv, [Next]_vars, NEW w \in Worker, RunCall(w)
  PROVE  Gate!GateNext \/ UNCHANGED Gate!gateVars
<1>1. GateOf' = GateOf /\ approval' = approval
  BY DEF RunCall, GateOf
<1>2. CASE ran' = ran
  BY <1>1, <1>2 DEF Gate!gateVars
<1>3. ASSUME NEW s \in Session, NEW c \in Call, ran'[s][c] # ran[s][c]
      PROVE  Gate!GateNext
  <2>1. PICK v \in Worker :
          /\ worker[v].pc = "running" /\ worker[v].s = s
          /\ c \in Said(worker[v])
          /\ worker[v].scope \in Scope
          /\ Passes(worker[v].scope, c, worker[v].decisions[c])
          /\ Kind[worker[v].scope][c] # "unknown"
          /\ ran' = [ran EXCEPT ![s][c] = @ + 1]
    BY <1>3, RunStep
  <2>2. issued[s][c] = worker[v].scope /\ issued[s][c] # None
    BY <2>1 DEF GateInv, ServedCallsIssued, IssuedBy
  <2>3. \/ GateOf[s][c] = "open"
        \/ GateOf[s][c] = "held" /\ approval[s][c] = "approved"
    <3>1. CASE Held(s, c)
      BY <2>1, <3>1, HeldRunIsApproved DEF GateInv, GateAgrees, GateOf, Held
    <3>2. CASE ~ Held(s, c)
      BY <2>2, <3>2 DEF Held, GateOf
    <3>3. QED
      BY <3>1, <3>2
  <2>4. Gate!Perform(s, c)
    BY <1>1, <2>1, <2>3 DEF Gate!Perform
  <2>5. QED
    BY <2>4 DEF Gate!GateNext
<1>4. ran \in [Session -> [Call -> Nat]] /\ ran' \in [Session -> [Call -> Nat]]
  BY NextType DEF TypeOK
<1>5. QED
  BY <1>2, <1>3, <1>4

LEMMA StepImplementsGate ==
  ASSUME KeepsScope, TypeOK, GateInv, [Next]_vars
  PROVE  Gate!GateNext \/ UNCHANGED Gate!gateVars
<1>1. ASSUME UNCHANGED <<approval, issued, ran>>
      PROVE  UNCHANGED Gate!gateVars
  BY <1>1 DEF GateOf, Gate!gateVars
<1>2. ASSUME NEW w \in Worker, Serve(w)
      PROVE  Gate!GateNext \/ UNCHANGED Gate!gateVars
  <2>1. CASE ModelFails(w) \/ StoreAnswer(w) \/ CheckDecisions(w) \/ StoreResults(w)
    BY <1>1, <2>1 DEF ModelFails, StoreAnswer, CheckDecisions, StoreResults
  <2>2. QED
    BY <1>2, <2>1, AnswersIssue, RequestsAsk, RunsPerform DEF Serve
<1>3. ASSUME NEW s \in Session, NEW c \in Call, NEW d \in Decision, Operator(s, c, d)
      PROVE  Gate!GateNext
  <2>1. GateOf' = GateOf /\ ran' = ran
    BY <1>3 DEF Operator, GateOf
  <2>2. Gate!Answer(s, c, d)
    BY <1>3, <2>1 DEF Operator, Decide, Gate!Answer, Gate!Decide
  <2>3. d \in Gate!Decision
    BY DEF Decision, Gate!Decision
  <2>4. QED
    BY <2>2, <2>3 DEF Gate!GateNext
<1>4. QED
  BY <1>1, <1>2, <1>3 DEF Next, Run, Resume, Crash, vars

LEMMA InitImplementsGate == Init => Gate!GateInit
BY DEF Init, StoreInit, GateOf, Gate!GateInit, Gate!StoreInit

(* When every paused turn is resumed by the module that ran it, each step  *)
(* of the loop is a step of the gate: what ADR 0004 promises holds of the  *)
(* stores and of the tools executed, not only of the loop's own locals.    *)
THEOREM LoopImplementsGate ==
  ASSUME KeepsScope
  PROVE  Spec => ImplementsGate
<1>1. TypeOK /\ GateInv /\ [Next]_vars => [Gate!GateNext]_(Gate!gateVars)
  BY StepImplementsGate
<1>2. Spec => []GateInv
  BY InitGateInv, NextGateInv, TypeCorrect, PTL DEF Spec
<1>3. QED
  BY <1>1, <1>2, InitImplementsGate, TypeCorrect, PTL
     DEF Spec, ImplementsGate, Gate!GateSpec

-----------------------------------------------------------------------------
(* Turns follow the queue *)

(* The calls are those of an assistant turn of the conversation. *)
Stored(s, calls) == \E i \in Turns(s, "assistant") : log[s][i].calls = calls

Shares(m, n) == Said(m) \cap Said(n) # {}

(* No call belongs to two turns: not to two stored ones, nor to a stored   *)
(* one and one that is about to be stored, nor to two of those.            *)
TurnsApart ==
    \A s \in Session : \A i, j \in Turns(s, "assistant") :
      Shares(log[s][i], log[s][j]) => i = j

FreshApart ==
    \A w \in Worker : worker[w].pc = "storing" =>
      /\ \A i \in Turns(worker[w].s, "assistant") :
           ~ Shares(log[worker[w].s][i], worker[w])
      /\ \A v \in Worker : v # w /\ worker[v].pc = "storing" /\ worker[v].s = worker[w].s
           => ~ Shares(worker[v], worker[w])

(* The turn w serves is past being stored. *)
Settling(w) == worker[w].pc \in {"checking", "requesting", "running"}

(* A turn that is settled or run is one of the conversation, so is every    *)
(* call that was executed.                                                  *)
SettledStored ==
    \A w \in Worker : Settling(w) => Stored(worker[w].s, worker[w].calls)

RanStored ==
    \A s \in Session, c \in Call : ran[s][c] > 0 =>
      \E i \in Turns(s, "assistant") : c \in Said(log[s][i])

(* Stored results answer every call of a stored turn. *)
ResultsWhole ==
    \A s \in Session : \A i \in Turns(s, "results") :
      /\ Len(log[s][i].outcomes) = Len(log[s][i].calls)
      /\ Stored(s, log[s][i].calls)

(* What a running turn has found out is what the gate and the registry say, *)
(* and what it reports as executed was.                                     *)
OutcomesTrue ==
    \A w \in Worker :
      /\ worker[w].pc # "running" => worker[w].outcomes = <<>>
      /\ Len(worker[w].outcomes) <= Len(worker[w].calls)
      /\ \A j \in DOMAIN worker[w].outcomes :
           LET c == worker[w].calls[j] IN
           /\ worker[w].outcomes[j] = OutcomeOf(worker[w].scope, c, worker[w].decisions[c])
           /\ worker[w].outcomes[j] = "ran" => ran[worker[w].s][c] > 0

(* The inductive invariant behind TurnsFollowTheQueue: with GateInv it ties *)
(* the locals of each call into the agent to the conversation.              *)
TurnInv ==
    /\ TurnsApart /\ FreshApart /\ SettledStored /\ RanStored
    /\ ResultsWhole /\ OutcomesTrue
    /\ ApprovalsHaveTheirTurn /\ SettledBeforeRun /\ AnswersReflectDecisions

(* What a step does to a conversation: it stays, or one message is added,  *)
(* and every message already stored keeps its place.                       *)
LEMMA LogStep ==
  ASSUME TypeOK, [Next]_vars, NEW s \in Session
  PROVE  \/ log'[s] = log[s]
         \/ \E w \in Worker, k \in Scope :
              Run(w, s, k) /\ log'[s] = Append(log[s], UserTurn)
         \/ \E w \in Worker :
              /\ StoreAnswer(w) /\ worker[w].s = s
              /\ log'[s] = Append(log[s], AssistantTurn(worker[w].scope, worker[w].calls))
         \/ \E w \in Worker :
              /\ StoreResults(w) /\ worker[w].s = s
              /\ log'[s] = Append(log[s], ResultTurn(worker[w].scope, worker[w].calls,
                                                     worker[w].outcomes))
<1>1. log \in [Session -> Seq(Message)]
  BY DEF TypeOK
<1>2. ASSUME NEW w \in Worker, NEW t \in Session, NEW k \in Scope, Run(w, t, k)
      PROVE  \/ log'[s] = log[s]
             \/ Run(w, s, k) /\ log'[s] = Append(log[s], UserTurn)
  BY <1>1, <1>2 DEF Run
<1>3. ASSUME NEW w \in Worker, StoreAnswer(w)
      PROVE  \/ log'[s] = log[s]
             \/ /\ worker[w].s = s
                /\ log'[s] = Append(log[s], AssistantTurn(worker[w].scope, worker[w].calls))
  BY <1>1, <1>3 DEF StoreAnswer
<1>4. ASSUME NEW w \in Worker, StoreResults(w)
      PROVE  \/ log'[s] = log[s]
             \/ /\ worker[w].s = s
                /\ log'[s] = Append(log[s], ResultTurn(worker[w].scope, worker[w].calls,
                                                       worker[w].outcomes))
  BY <1>1, <1>4 DEF StoreResults
<1>5. ASSUME NEW w \in Worker, Serve(w), ~ StoreAnswer(w), ~ StoreResults(w)
      PROVE  log' = log
  BY <1>5 DEF Serve, ModelAnswers, ModelFails, CheckDecisions, RequestApprovals,
              RunCall
<1>6. CASE log' = log
  BY <1>6
<1>7. CASE \E w \in Worker, t \in Session, k \in Scope : Run(w, t, k)
  BY <1>2, <1>7
<1>8. CASE \E w \in Worker : StoreAnswer(w)
  BY <1>3, <1>8
<1>9. CASE \E w \in Worker : StoreResults(w)
  BY <1>4, <1>9
<1>10. QED
  BY <1>5, <1>6, <1>7, <1>8, <1>9 DEF Next, Resume, Operator, Crash, vars

LEMMA AppendEntries ==
  ASSUME NEW S, NEW q \in Seq(S), NEW m, NEW r, r = Append(q, m)
  PROVE  /\ DOMAIN q = 1..Len(q) /\ Len(q) \in Nat
         /\ DOMAIN r = 1..(Len(q) + 1)
         /\ Len(r) = Len(q) + 1
         /\ r # <<>>
         /\ \A i \in DOMAIN q : i \in DOMAIN r /\ r[i] = q[i]
         /\ r[Len(q) + 1] = m
         /\ \A i \in DOMAIN r : i \in DOMAIN q \/ i = Len(q) + 1
<1>1. q \in Seq(S \cup {m}) /\ m \in S \cup {m}
  OBVIOUS
<1>2. /\ Len(Append(q, m)) = Len(q) + 1
      /\ Append(q, m) \in Seq(S \cup {m})
      /\ \A j \in 1..Len(q) : Append(q, m)[j] = q[j]
      /\ Append(q, m)[Len(q) + 1] = m
  BY <1>1, AppendProperties
<1>3. QED
  BY <1>1, <1>2

(* A stored message stays where it is; a new one is the user's words, an   *)
(* answer of the model, or the results of a turn, and it comes last.       *)
LEMMA EntriesStep ==
  ASSUME TypeOK, [Next]_vars, NEW s \in Session
  PROVE  /\ \A i \in DOMAIN log[s] : i \in DOMAIN log'[s] /\ log'[s][i] = log[s][i]
         /\ \A i \in DOMAIN log'[s] : i \notin DOMAIN log[s] =>
              /\ i = Len(log[s]) + 1
              /\ \/ log'[s][i] = UserTurn
                 \/ \E w \in Worker :
                      /\ StoreAnswer(w) /\ worker[w].s = s
                      /\ log'[s][i] = AssistantTurn(worker[w].scope, worker[w].calls)
                 \/ \E w \in Worker :
                      /\ StoreResults(w) /\ worker[w].s = s
                      /\ log'[s][i] = ResultTurn(worker[w].scope, worker[w].calls,
                                                 worker[w].outcomes)
<1>1. log[s] \in Seq(Message)
  BY DEF TypeOK
<1>2. CASE log'[s] = log[s]
  BY <1>2
<1>3. ASSUME NEW m, log'[s] = Append(log[s], m)
      PROVE  /\ \A i \in DOMAIN log[s] : i \in DOMAIN log'[s] /\ log'[s][i] = log[s][i]
             /\ \A i \in DOMAIN log'[s] : i \notin DOMAIN log[s] =>
                  i = Len(log[s]) + 1 /\ log'[s][i] = m
  BY <1>1, <1>3, AppendEntries
<1>4. CASE \E w \in Worker, k \in Scope :
             Run(w, s, k) /\ log'[s] = Append(log[s], UserTurn)
  BY <1>3, <1>4
<1>5. CASE \E w \in Worker :
             /\ StoreAnswer(w) /\ worker[w].s = s
             /\ log'[s] = Append(log[s], AssistantTurn(worker[w].scope, worker[w].calls))
  BY <1>3, <1>5
<1>6. CASE \E w \in Worker :
             /\ StoreResults(w) /\ worker[w].s = s
             /\ log'[s] = Append(log[s], ResultTurn(worker[w].scope, worker[w].calls,
                                                    worker[w].outcomes))
  BY <1>3, <1>6
<1>7. QED
  BY <1>2, <1>4, <1>5, <1>6, LogStep

(* What the next call of a turn will come to. *)
NextCall(me) == me.calls[Len(me.outcomes) + 1]

NextOutcome(me) == OutcomeOf(me.scope, NextCall(me), me.decisions[NextCall(me)])

(* What a step may do to the locals of one call into the agent. *)
Moves(v) ==
    \/ worker'[v] = worker[v]
    \/ worker'[v] = Idle
    \/ \E s \in Session, k \in Scope :
         /\ Run(v, s, k)
         /\ worker'[v] = [Idle EXCEPT !.pc = "asking", !.s = s, !.scope = k,
                                      !.left = MaxIterations]
    \/ \E s \in Session, k \in Scope :
         /\ Resume(v, s, k)
         /\ worker'[v] = [Idle EXCEPT !.pc = "checking", !.s = s, !.scope = k,
                            !.calls = LastTurn(s).calls, !.left = MaxIterations]
    \/ \E batch \in Batches, wants \in BOOLEAN :
         /\ ModelAnswers(v, batch, wants)
         /\ worker'[v] = [worker[v] EXCEPT !.pc = "storing", !.calls = batch,
                            !.settle = wants, !.left = @ - 1]
    \/ /\ StoreAnswer(v) /\ worker[v].settle
       /\ worker'[v] = [worker[v] EXCEPT !.pc = "checking"]
    \/ /\ CheckDecisions(v)
       /\ \E pc \in {"requesting", "running"}, seen \in [Call -> Status] :
            worker'[v] = [worker[v] EXCEPT !.pc = pc, !.decisions = seen]
    \/ /\ RunCall(v)
       /\ worker'[v] = [worker[v] EXCEPT !.outcomes = Append(@, NextOutcome(worker[v]))]
    \/ /\ StoreResults(v)
       /\ worker'[v] = [Idle EXCEPT !.pc = "asking", !.s = worker[v].s,
                          !.scope = worker[v].scope, !.left = worker[v].left]

LEMMA WorkerStep ==
  ASSUME TypeOK, [Next]_vars, NEW v \in Worker
  PROVE  Moves(v)
<1>1. worker \in [Worker -> Locals]
  BY DEF TypeOK
<1>2. ASSUME NEW w \in Worker, v # w,
             \/ \E s \in Session, k \in Scope : Run(w, s, k) \/ Resume(w, s, k)
             \/ Serve(w)
             \/ Crash(w)
      PROVE  worker'[v] = worker[v]
  BY <1>2, OthersKeepLocals
<1>3. ASSUME Return(v)
      PROVE  worker'[v] = Idle
  BY <1>1, <1>3 DEF Return
<1>4. ASSUME NEW s \in Session, NEW k \in Scope, Run(v, s, k)
      PROVE  worker'[v] = [Idle EXCEPT !.pc = "asking", !.s = s, !.scope = k,
                                       !.left = MaxIterations]
  BY <1>1, <1>4 DEF Run
<1>5. ASSUME NEW s \in Session, NEW k \in Scope, Resume(v, s, k)
      PROVE  worker'[v] = [Idle EXCEPT !.pc = "checking", !.s = s, !.scope = k,
                             !.calls = LastTurn(s).calls, !.left = MaxIterations]
  BY <1>1, <1>5 DEF Resume
<1>6. ASSUME NEW batch \in Batches, NEW wants \in BOOLEAN, ModelAnswers(v, batch, wants)
      PROVE  worker'[v] = [worker[v] EXCEPT !.pc = "storing", !.calls = batch,
                             !.settle = wants, !.left = @ - 1]
  <2>1. worker' = [worker EXCEPT ![v].pc = "storing", ![v].calls = batch,
                                 ![v].settle = wants, ![v].left = @ - 1]
    BY <1>6 DEF ModelAnswers
  <2>2. QED
    BY <1>1, <2>1
<1>7. ASSUME StoreAnswer(v)
      PROVE  \/ worker'[v] = Idle
             \/ worker[v].settle /\ worker'[v] = [worker[v] EXCEPT !.pc = "checking"]
  <2>1. CASE worker[v].settle
    BY <1>1, <1>7, <2>1 DEF StoreAnswer, Goto
  <2>2. CASE ~ worker[v].settle
    BY <1>3, <1>7, <2>2 DEF StoreAnswer
  <2>3. QED
    BY <2>1, <2>2
<1>8. ASSUME CheckDecisions(v)
      PROVE  \/ worker'[v] = Idle
             \/ \E pc \in {"requesting", "running"}, seen \in [Call -> Status] :
                  worker'[v] = [worker[v] EXCEPT !.pc = pc, !.decisions = seen]
  <2> DEFINE seen == ForToolCalls(worker[v].s, Gated(worker[v].scope, Said(worker[v])))
             running == [worker[v] EXCEPT !.pc = "running", !.decisions = seen]
  <2>1. worker[v] \in Locals /\ worker[v].s \in Session
    BY <1>1, <1>8 DEF CheckDecisions, TypeOK
  <2>2. seen \in [Call -> Status] /\ Unread \in [Call -> Status]
    BY <2>1, ForToolCallsType DEF TypeOK, Unread, Status
  <2>3. \/ worker' = [worker EXCEPT ![v] = [running EXCEPT !.decisions = Unread]]
        \/ worker' = [worker EXCEPT ![v] = [running EXCEPT !.pc = "requesting"]]
        \/ worker' = [worker EXCEPT ![v] = running]
        \/ Return(v)
    BY <1>8 DEF CheckDecisions
  <2> HIDE DEF seen
  <2>4. /\ [running EXCEPT !.decisions = Unread]
             = [worker[v] EXCEPT !.pc = "running", !.decisions = Unread]
        /\ [running EXCEPT !.pc = "requesting"]
             = [worker[v] EXCEPT !.pc = "requesting", !.decisions = seen]
    BY <2>1 DEF Locals
  <2>5. CASE worker' = [worker EXCEPT ![v] = [running EXCEPT !.decisions = Unread]]
    BY <1>1, <2>2, <2>4, <2>5
  <2>6. CASE worker' = [worker EXCEPT ![v] = [running EXCEPT !.pc = "requesting"]]
    BY <1>1, <2>2, <2>4, <2>6
  <2>7. CASE worker' = [worker EXCEPT ![v] = running]
    BY <1>1, <2>2, <2>7
  <2>8. QED
    BY <1>3, <2>3, <2>5, <2>6, <2>7
<1>9. ASSUME RunCall(v)
      PROVE  worker'[v] = [worker[v] EXCEPT !.outcomes = Append(@, NextOutcome(worker[v]))]
  BY <1>1, <1>9 DEF RunCall, NextOutcome, NextCall
<1>10. ASSUME StoreResults(v)
       PROVE  \/ worker'[v] = Idle
              \/ worker'[v] = [Idle EXCEPT !.pc = "asking", !.s = worker[v].s,
                                 !.scope = worker[v].scope, !.left = worker[v].left]
  <2>1. CASE HasBudget(worker[v])
    BY <1>1, <1>10, <2>1 DEF StoreResults
  <2>2. CASE ~ HasBudget(worker[v])
    BY <1>3, <1>10, <2>2 DEF StoreResults
  <2>3. QED
    BY <2>1, <2>2
<1>11. ASSUME worker'[v] = worker[v] \/ worker'[v] = Idle
       PROVE  Moves(v)
  BY <1>11 DEF Moves
<1>12. ASSUME NEW w \in Worker, NEW s \in Session, NEW k \in Scope,
              Run(w, s, k) \/ Resume(w, s, k)
       PROVE  Moves(v)
  <2>1. CASE w # v
    BY <1>2, <1>11, <1>12, <2>1
  <2>2. CASE w = v /\ Run(v, s, k)
    BY <1>4, <2>2 DEF Moves
  <2>3. CASE w = v /\ Resume(v, s, k)
    BY <1>5, <2>3 DEF Moves
  <2>4. QED
    BY <1>12, <2>1, <2>2, <2>3
<1>13. ASSUME Serve(v)
       PROVE  Moves(v)
  <2>1. ASSUME NEW batch \in Batches, NEW wants \in BOOLEAN, ModelAnswers(v, batch, wants)
        PROVE  Moves(v)
    <3> DEFINE me == [worker[v] EXCEPT !.pc = "storing", !.calls = batch,
                                       !.settle = wants, !.left = @ - 1]
    <3>1. worker'[v] = me
      BY <1>6, <2>1
    <3>2. ModelAnswers(v, batch, wants) /\ worker'[v] = me
      BY <2>1, <3>1
    <3>3. QED
      BY <3>2, Zenon DEF Moves
  <2>2. CASE ModelFails(v) \/ RequestApprovals(v)
    BY <1>3, <1>11, <2>2 DEF ModelFails, RequestApprovals
  <2>3. CASE StoreAnswer(v)
    BY <1>7, <1>11, <2>3, Zenon DEF Moves
  <2>4. CASE CheckDecisions(v)
    BY <1>8, <1>11, <2>4, Zenon DEF Moves
  <2>5. CASE RunCall(v)
    BY <1>9, <2>5, Zenon DEF Moves
  <2>6. CASE StoreResults(v)
    BY <1>10, <1>11, <2>6, Zenon DEF Moves
  <2>7. QED
    BY <1>13, <2>1, <2>2, <2>3, <2>4, <2>5, <2>6 DEF Serve
<1>14. ASSUME NEW w \in Worker, Serve(w) \/ Crash(w)
       PROVE  Moves(v)
  <2>1. CASE w # v
    BY <1>2, <1>11, <1>14, <2>1
  <2>2. CASE w = v
    BY <1>3, <1>11, <1>13, <1>14, <2>2 DEF Crash
  <2>3. QED
    BY <2>1, <2>2
<1>15. CASE worker' = worker
  BY <1>11, <1>15
<1>16. QED
  BY <1>12, <1>14, <1>15 DEF Next, Operator, vars

(* How an answer comes to be stored: it still is, or the model just gave it. *)
LEMMA StoringStep ==
  ASSUME TypeOK, [Next]_vars, NEW v \in Worker, worker'[v].pc = "storing"
  PROVE  \/ worker'[v] = worker[v]
         \/ \E batch \in Batches, wants \in BOOLEAN :
              /\ ModelAnswers(v, batch, wants)
              /\ worker'[v].s = worker[v].s
              /\ worker'[v].calls = batch /\ worker'[v].settle = wants
<1>1. worker[v] \in Locals /\ Moves(v) /\ Idle.pc = "idle"
  BY WorkerStep DEF TypeOK, Idle
<1>2. CASE \E batch \in Batches, wants \in BOOLEAN :
             /\ ModelAnswers(v, batch, wants)
             /\ worker'[v] = [worker[v] EXCEPT !.pc = "storing", !.calls = batch,
                                !.settle = wants, !.left = @ - 1]
  BY <1>1, <1>2 DEF Locals
<1>3. CASE \E s \in Session, k \in Scope :
             \/ worker'[v] = [Idle EXCEPT !.pc = "asking", !.s = s, !.scope = k,
                                          !.left = MaxIterations]
             \/ worker'[v] = [Idle EXCEPT !.pc = "checking", !.s = s, !.scope = k,
                                !.calls = LastTurn(s).calls, !.left = MaxIterations]
  BY <1>3 DEF Idle
<1>4. CASE \E pc \in {"requesting", "running"}, seen \in [Call -> Status] :
             worker'[v] = [worker[v] EXCEPT !.pc = pc, !.decisions = seen]
  BY <1>1, <1>4 DEF Locals
<1>5. CASE /\ RunCall(v)
           /\ worker'[v] = [worker[v] EXCEPT !.outcomes = Append(@, NextOutcome(worker[v]))]
  <2>1. worker'[v].pc = "running"
    BY <1>1, <1>5 DEF Locals, RunCall
  <2>2. QED
    BY <2>1
<1>6. CASE \/ worker'[v] = [worker[v] EXCEPT !.pc = "checking"]
           \/ worker'[v] = [Idle EXCEPT !.pc = "asking", !.s = worker[v].s,
                              !.scope = worker[v].scope, !.left = worker[v].left]
  BY <1>1, <1>6 DEF Idle, Locals
<1>7. worker'[v] # Idle
  BY <1>1
<1>8. QED
  BY <1>1, <1>2, <1>3, <1>4, <1>5, <1>6, <1>7, Zenon DEF Moves

(* How a turn comes to be settled or run: it goes on, it was just stored, or *)
(* a paused one is resumed.                                                   *)
LEMMA SettlingStep ==
  ASSUME TypeOK, [Next]_vars, NEW v \in Worker, Settling(v)'
  PROVE  \/ /\ Settling(v)
            /\ worker'[v].s = worker[v].s /\ worker'[v].calls = worker[v].calls
         \/ /\ StoreAnswer(v) /\ worker[v].settle
            /\ worker'[v].s = worker[v].s /\ worker'[v].calls = worker[v].calls
         \/ \E s \in Session, k \in Scope :
              /\ Resume(v, s, k)
              /\ worker'[v].s = s /\ worker'[v].calls = LastTurn(s).calls
<1>1. worker[v] \in Locals /\ Moves(v) /\ Idle.pc = "idle"
  BY WorkerStep DEF TypeOK, Idle
<1>2. worker'[v].pc \in {"checking", "requesting", "running"}
  BY DEF Settling
<1>3. CASE worker'[v] = worker[v]
  BY <1>2, <1>3 DEF Settling
<1>4. CASE \E s \in Session, k \in Scope :
             /\ Resume(v, s, k)
             /\ worker'[v] = [Idle EXCEPT !.pc = "checking", !.s = s, !.scope = k,
                                !.calls = LastTurn(s).calls, !.left = MaxIterations]
  BY <1>4 DEF Idle
<1>5. CASE /\ StoreAnswer(v) /\ worker[v].settle
           /\ worker'[v] = [worker[v] EXCEPT !.pc = "checking"]
  BY <1>1, <1>5 DEF Locals
<1>6. CASE /\ CheckDecisions(v)
           /\ \E pc \in {"requesting", "running"}, seen \in [Call -> Status] :
                worker'[v] = [worker[v] EXCEPT !.pc = pc, !.decisions = seen]
  BY <1>1, <1>6 DEF CheckDecisions, Settling, Locals
<1>7. CASE /\ RunCall(v)
           /\ worker'[v] = [worker[v] EXCEPT !.outcomes = Append(@, NextOutcome(worker[v]))]
  <2>1. /\ worker'[v].s = worker[v].s /\ worker'[v].calls = worker[v].calls
        /\ worker[v].pc = "running"
    BY <1>1, <1>7 DEF Locals, RunCall
  <2>2. QED
    BY <2>1 DEF Settling
<1>8. CASE \E s \in Session, k \in Scope :
             worker'[v] = [Idle EXCEPT !.pc = "asking", !.s = s, !.scope = k,
                                       !.left = MaxIterations]
  BY <1>2, <1>8 DEF Idle
<1>9. CASE \E batch \in Batches, wants \in BOOLEAN :
             worker'[v] = [worker[v] EXCEPT !.pc = "storing", !.calls = batch,
                             !.settle = wants, !.left = @ - 1]
  BY <1>1, <1>2, <1>9 DEF Locals
<1>10. CASE worker'[v] = [Idle EXCEPT !.pc = "asking", !.s = worker[v].s,
                            !.scope = worker[v].scope, !.left = worker[v].left]
  BY <1>2, <1>10 DEF Idle
<1>11. QED
  BY <1>1, <1>2, <1>3, <1>4, <1>5, <1>6, <1>7, <1>8, <1>9, <1>10, Zenon DEF Moves

(* A stored turn stays stored. *)
LEMMA StoredStays ==
  ASSUME TypeOK, [Next]_vars, NEW s \in Session, NEW calls, Stored(s, calls)
  PROVE  \E i \in DOMAIN log'[s] : /\ log'[s][i].kind = "assistant"
                                   /\ log'[s][i].calls = calls
BY EntriesStep DEF Stored, Turns

(* The assistant turns after a step: the old ones, and the one just stored. *)
LEMMA AssistantStep ==
  ASSUME TypeOK, [Next]_vars, NEW s \in Session, NEW i \in Turns(s, "assistant")'
  PROVE  \/ i \in Turns(s, "assistant") /\ log'[s][i] = log[s][i]
         \/ /\ i = Len(log[s]) + 1
            /\ \E w \in Worker : /\ StoreAnswer(w) /\ worker[w].s = s
                                 /\ log'[s][i].calls = worker[w].calls
                                 /\ Said(log'[s][i]) = Said(worker[w])
<1>1. i \in DOMAIN log'[s] /\ log'[s][i].kind = "assistant"
  BY DEF Turns
<1>2. /\ UserTurn.kind # "assistant"
      /\ \A k, calls, outcomes : ResultTurn(k, calls, outcomes).kind # "assistant"
      /\ \A k, calls : AssistantTurn(k, calls).calls = calls
  BY DEF UserTurn, ResultTurn, AssistantTurn
<1>0. ASSUME NEW m, NEW n, m.calls = n.calls PROVE Said(m) = Said(n)
  BY <1>0 DEF Said
<1>3. CASE i \in DOMAIN log[s]
  BY <1>1, <1>3, EntriesStep DEF Turns
<1>4. CASE i \notin DOMAIN log[s]
  <2>1. /\ i = Len(log[s]) + 1
        /\ \/ log'[s][i] = UserTurn
           \/ \E w \in Worker :
                /\ StoreAnswer(w) /\ worker[w].s = s
                /\ log'[s][i] = AssistantTurn(worker[w].scope, worker[w].calls)
           \/ \E w \in Worker :
                /\ StoreResults(w) /\ worker[w].s = s
                /\ log'[s][i] = ResultTurn(worker[w].scope, worker[w].calls,
                                           worker[w].outcomes)
    BY <1>1, <1>4, EntriesStep, Zenon
  <2>2. QED
    BY <1>1, <1>2, <1>0, <2>1
<1>5. QED
  BY <1>3, <1>4

(* The result turns after a step: the old ones, and the one just stored. *)
LEMMA ResultsStep ==
  ASSUME TypeOK, [Next]_vars, NEW s \in Session, NEW i \in Turns(s, "results")'
  PROVE  \/ i \in Turns(s, "results") /\ log'[s][i] = log[s][i]
         \/ /\ i = Len(log[s]) + 1
            /\ \E w \in Worker : /\ StoreResults(w) /\ worker[w].s = s
                                 /\ log'[s][i].calls = worker[w].calls
                                 /\ log'[s][i].outcomes = worker[w].outcomes
<1>1. i \in DOMAIN log'[s] /\ log'[s][i].kind = "results"
  BY DEF Turns
<1>2. /\ UserTurn.kind # "results"
      /\ \A k, calls : AssistantTurn(k, calls).kind # "results"
      /\ \A k, calls, outcomes : /\ ResultTurn(k, calls, outcomes).calls = calls
                                 /\ ResultTurn(k, calls, outcomes).outcomes = outcomes
  BY DEF UserTurn, ResultTurn, AssistantTurn
<1>3. CASE i \in DOMAIN log[s]
  BY <1>1, <1>3, EntriesStep DEF Turns
<1>4. CASE i \notin DOMAIN log[s]
  <2>1. /\ i = Len(log[s]) + 1
        /\ \/ log'[s][i] = UserTurn
           \/ \E w \in Worker :
                /\ StoreAnswer(w) /\ worker[w].s = s
                /\ log'[s][i] = AssistantTurn(worker[w].scope, worker[w].calls)
           \/ \E w \in Worker :
                /\ StoreResults(w) /\ worker[w].s = s
                /\ log'[s][i] = ResultTurn(worker[w].scope, worker[w].calls,
                                           worker[w].outcomes)
    BY <1>1, <1>4, EntriesStep, Zenon
  <2>2. QED
    BY <1>1, <1>2, <2>1
<1>5. QED
  BY <1>3, <1>4

(* The calls a stored turn asked for were issued. *)
LEMMA StoredIssued ==
  ASSUME StoredCallsIssued, NEW s \in Session, NEW i \in Turns(s, "assistant"),
         NEW c \in Said(log[s][i])
  PROVE  IssuedBy(s, c, log[s][i].scope)
BY DEF StoredCallsIssued, Turns

LEMMA TurnsApartStep ==
  ASSUME TypeOK, [Next]_vars, TurnsApart, FreshApart
  PROVE  TurnsApart'
<1> SUFFICES ASSUME NEW s \in Session,
                    NEW i \in Turns(s, "assistant")', NEW j \in Turns(s, "assistant")',
                    Shares(log[s][i], log[s][j])'
             PROVE  i = j
  BY DEF TurnsApart
<1>1. PICK c : c \in Said(log'[s][i]) /\ c \in Said(log'[s][j])
  BY DEF Shares, Said
<1>2. ASSUME NEW w \in Worker, StoreAnswer(w), worker[w].s = s,
             c \in Said(worker[w]), NEW e \in Turns(s, "assistant")
      PROVE  c \notin Said(log[s][e])
  BY <1>2 DEF FreshApart, StoreAnswer, Shares
<1>3. CASE /\ i \in Turns(s, "assistant") /\ log'[s][i] = log[s][i]
           /\ j \in Turns(s, "assistant") /\ log'[s][j] = log[s][j]
  BY <1>1, <1>3 DEF TurnsApart, Shares
<1>4. QED
  BY <1>1, <1>2, <1>3, AssistantStep

(* A fresh batch asks for nothing the conversation or another call has.    *)
LEMMA FreshBatch ==
  ASSUME TypeOK, GateInv, NEW v \in Worker, NEW batch \in Batches, NEW wants \in BOOLEAN,
         ModelAnswers(v, batch, wants), NEW c, c \in {batch[j] : j \in DOMAIN batch}
  PROVE  /\ \A i \in Turns(worker[v].s, "assistant") : c \notin Said(log[worker[v].s][i])
         /\ \A w \in Worker : worker[w].pc # "idle" /\ worker[w].s = worker[v].s
              => c \notin Said(worker[w])
<1>1. issued[worker[v].s][c] = None /\ worker[v].s \in Session
  BY DEF ModelAnswers, TypeOK
<1>2. QED
  BY <1>1, StoredIssued DEF GateInv, ServedCallsIssued, IssuedBy

LEMMA FreshApartStep ==
  ASSUME TypeOK, [Next]_vars, GateInv, FreshApart
  PROVE  FreshApart'
<1>1. ASSUME NEW s \in Session, NEW w \in Worker,
             worker'[w].pc = "storing", worker'[w].s = s,
             NEW i \in Turns(s, "assistant")', Shares(log[s][i], worker[w])'
      PROVE  FALSE
  <2>1. PICK c : c \in Said(log'[s][i]) /\ c \in Said(worker'[w])
    BY <1>1 DEF Shares, Said
  <2>2. CASE worker'[w] = worker[w]
    <3>1. \A j \in Turns(s, "assistant") : c \notin Said(log[s][j])
      BY <1>1, <2>1, <2>2 DEF FreshApart, Shares
    <3>2. \A v \in Worker : StoreAnswer(v) /\ worker[v].s = s => c \notin Said(worker[v])
      <4>1. SUFFICES ASSUME NEW v \in Worker, StoreAnswer(v), worker[v].s = s,
                            c \in Said(worker[v])
                     PROVE  FALSE
        OBVIOUS
      <4>2. CASE v = w
        <5>1. worker[w] \in Locals /\ worker \in [Worker -> Locals]
          BY DEF TypeOK
        <5>2. worker'[w].pc \in {"checking", "idle"}
          BY <4>1, <4>2, <5>1 DEF StoreAnswer, Goto, Return, Idle, Locals
        <5>3. QED
          BY <1>1, <5>2
      <4>3. CASE v # w
        BY <1>1, <2>1, <2>2, <4>1, <4>3 DEF FreshApart, Shares, StoreAnswer
      <4>4. QED
        BY <4>2, <4>3
    <3>3. QED
      BY <2>1, <3>1, <3>2, AssistantStep
  <2>3. ASSUME NEW batch \in Batches, NEW wants \in BOOLEAN, ModelAnswers(w, batch, wants),
               worker'[w].s = worker[w].s, worker'[w].calls = batch
        PROVE  FALSE
    <3>1. log' = log /\ i \in Turns(s, "assistant")
      BY <1>1, <2>3 DEF ModelAnswers, Turns
    <3>2. c \in {batch[j] : j \in DOMAIN batch}
      BY <2>1, <2>3 DEF Said
    <3>3. QED
      BY <1>1, <2>1, <2>3, <3>1, <3>2, FreshBatch
  <2>4. QED
    BY <1>1, <2>2, <2>3, StoringStep
<1>2. ASSUME NEW v \in Worker, NEW w \in Worker, v # w,
             worker'[v].pc = "storing", worker'[w].pc = "storing",
             worker'[v].s = worker'[w].s,
             NEW batch \in Batches, NEW wants \in BOOLEAN, ModelAnswers(v, batch, wants),
             worker'[v].s = worker[v].s, worker'[v].calls = batch,
             NEW c, c \in Said(worker'[v]), c \in Said(worker'[w])
      PROVE  FALSE
  <2>1. worker'[w] = worker[w]
    BY <1>2, OthersKeepLocals DEF Serve
  <2>2. c \in {batch[j] : j \in DOMAIN batch}
    BY <1>2 DEF Said
  <2>3. worker[w].pc # "idle" /\ worker[w].s = worker[v].s /\ c \in Said(worker[w])
    BY <1>2, <2>1
  <2>4. QED
    BY <1>2, <2>2, <2>3, FreshBatch
<1>3. ASSUME NEW v \in Worker, NEW w \in Worker, v # w,
             worker'[v].pc = "storing", worker'[w].pc = "storing",
             worker'[v].s = worker'[w].s, Shares(worker[v], worker[w])'
      PROVE  FALSE
  <2>1. PICK c : c \in Said(worker'[v]) /\ c \in Said(worker'[w])
    BY <1>3 DEF Shares, Said
  <2>2. CASE worker'[v] = worker[v] /\ worker'[w] = worker[w]
    BY <1>3, <2>1, <2>2 DEF FreshApart, Shares
  <2>3. QED
    BY <1>2, <1>3, <2>1, <2>2, StoringStep
<1>4. \A w \in Worker : worker'[w].pc = "storing" => worker'[w].s \in Session
  BY NextType DEF TypeOK
<1>5. QED
  BY <1>1, <1>3, <1>4 DEF FreshApart

LEMMA SettledStoredStep ==
  ASSUME TypeOK, [Next]_vars, SettledStored
  PROVE  SettledStored'
<1> SUFFICES ASSUME NEW v \in Worker, Settling(v)'
             PROVE  Stored(worker[v].s, worker[v].calls)'
  BY DEF SettledStored
<1> DEFINE s == worker'[v].s
           calls == worker'[v].calls
<1>1. s \in Session
  BY NextType DEF TypeOK, Settling
<1>2. SUFFICES \E i \in DOMAIN log'[s] : log'[s][i].kind = "assistant"
                                         /\ log'[s][i].calls = calls
  BY DEF Stored, Turns
<1>3. CASE Settling(v) /\ s = worker[v].s /\ calls = worker[v].calls
  <2>1. Stored(s, calls)
    BY <1>3 DEF SettledStored
  <2> HIDE DEF s, calls
  <2>2. QED
    BY <1>1, <2>1, StoredStays
<1>4. CASE StoreAnswer(v) /\ s = worker[v].s /\ calls = worker[v].calls
  <2> DEFINE m == AssistantTurn(worker[v].scope, worker[v].calls)
  <2>1. log[s] \in Seq(Message) /\ log'[s] = Append(log[s], m)
    BY <1>1, <1>4 DEF StoreAnswer, TypeOK
  <2>2. m.kind = "assistant" /\ m.calls = calls
    BY <1>4 DEF AssistantTurn
  <2> HIDE DEF m
  <2>3. Len(log[s]) + 1 \in DOMAIN log'[s] /\ log'[s][Len(log[s]) + 1] = m
    BY <2>1, AppendEntries
  <2>4. QED
    BY <2>2, <2>3
<1>5. CASE \E t \in Session, k \in Scope :
             Resume(v, t, k) /\ s = t /\ calls = LastTurn(t).calls
  <2>1. CanContinue(s) /\ calls = LastTurn(s).calls /\ log' = log
    BY <1>5 DEF Resume
  <2>2. log[s] \in Seq(Message) /\ log[s] # <<>>
    BY <1>1, <2>1 DEF TypeOK, CanContinue
  <2>3. Len(log[s]) \in DOMAIN log[s]
    BY <2>2
  <2>4. QED
    BY <2>1, <2>3 DEF CanContinue, LastTurn
<1>6. QED
  BY <1>3, <1>4, <1>5, SettlingStep

(* What a turn being settled asked for, the conversation holds. *)
LEMMA SettlingSaid ==
  ASSUME SettledStored, NEW w \in Worker, Settling(w), NEW c \in Said(worker[w])
  PROVE  \E i \in Turns(worker[w].s, "assistant") : c \in Said(log[worker[w].s][i])
BY DEF SettledStored, Stored, Said

(* A call a stored turn asked for stays asked for. *)
LEMMA SaidStays ==
  ASSUME TypeOK, [Next]_vars, NEW s \in Session, NEW c,
         \E i \in Turns(s, "assistant") : c \in Said(log[s][i])
  PROVE  (\E i \in Turns(s, "assistant") : c \in Said(log[s][i]))'
BY EntriesStep DEF Turns, Said

LEMMA RanStoredStep ==
  ASSUME TypeOK, [Next]_vars, SettledStored, RanStored
  PROVE  RanStored'
<1> SUFFICES ASSUME NEW s \in Session, NEW c \in Call, ran'[s][c] > 0
             PROVE  \E i \in Turns(s, "assistant") : c \in Said(log[s][i])
  BY SaidStays DEF RanStored
<1>1. CASE ran'[s][c] = ran[s][c]
  BY <1>1 DEF RanStored
<1>2. CASE ran'[s][c] # ran[s][c]
  BY <1>2, RunStep, SettlingSaid DEF Settling
<1>3. QED
  BY <1>1, <1>2

LEMMA ApprovalsTurnStep ==
  ASSUME TypeOK, [Next]_vars, SettledStored, ApprovalsHaveTheirTurn
  PROVE  ApprovalsHaveTheirTurn'
<1> SUFFICES ASSUME NEW s \in Session, NEW c \in Call, approval'[s][c] # "none"
             PROVE  \E i \in Turns(s, "assistant") : c \in Said(log[s][i])
  BY SaidStays DEF ApprovalsHaveTheirTurn
<1>1. CASE approval[s][c] # "none"
  BY <1>1 DEF ApprovalsHaveTheirTurn
<1>2. CASE approval[s][c] = "none"
  BY <1>2, QueueStep, SettlingSaid DEF Settling
<1>3. QED
  BY <1>1, <1>2

LEMMA ResultsWholeStep ==
  ASSUME TypeOK, [Next]_vars, SettledStored, ResultsWhole
  PROVE  ResultsWhole'
<1> SUFFICES ASSUME NEW s \in Session, NEW i \in Turns(s, "results")'
             PROVE  /\ Len(log'[s][i].outcomes) = Len(log'[s][i].calls)
                    /\ Stored(s, log'[s][i].calls)
  <2>1. ASSUME NEW s \in Session, NEW calls, Stored(s, calls)
        PROVE  \E i \in Turns(s, "assistant")' : log'[s][i].calls = calls
    BY <2>1, StoredStays DEF Turns
  <2>2. QED
    BY <2>1 DEF ResultsWhole, Stored
<1>1. CASE i \in Turns(s, "results") /\ log'[s][i] = log[s][i]
  BY <1>1 DEF ResultsWhole
<1>2. ASSUME NEW w \in Worker, StoreResults(w), worker[w].s = s,
             log'[s][i].calls = worker[w].calls, log'[s][i].outcomes = worker[w].outcomes
      PROVE  /\ Len(log'[s][i].outcomes) = Len(log'[s][i].calls)
             /\ Stored(s, log'[s][i].calls)
  BY <1>2 DEF StoreResults, SettledStored, Settling
<1>3. QED
  BY <1>1, <1>2, ResultsStep

(* What a turn has found out so far: as before, nothing, or one call more. *)
LEMMA FoundStep ==
  ASSUME TypeOK, [Next]_vars, OutcomesTrue, NEW v \in Worker
  PROVE  \/ worker'[v] = worker[v]
         \/ worker'[v].outcomes = <<>>
         \/ /\ RunCall(v)
            /\ worker'[v] = [worker[v] EXCEPT !.outcomes = Append(@, NextOutcome(worker[v]))]
<1>1. worker[v] \in Locals /\ Moves(v) /\ Idle.outcomes = <<>>
  BY WorkerStep DEF TypeOK, Idle
<1>2. CASE \E batch \in Batches, wants \in BOOLEAN :
             /\ ModelAnswers(v, batch, wants)
             /\ worker'[v] = [worker[v] EXCEPT !.pc = "storing", !.calls = batch,
                                !.settle = wants, !.left = @ - 1]
  BY <1>1, <1>2 DEF Locals, OutcomesTrue, ModelAnswers
<1>3. CASE \E s \in Session, k \in Scope :
             \/ worker'[v] = [Idle EXCEPT !.pc = "asking", !.s = s, !.scope = k,
                                          !.left = MaxIterations]
             \/ worker'[v] = [Idle EXCEPT !.pc = "checking", !.s = s, !.scope = k,
                                !.calls = LastTurn(s).calls, !.left = MaxIterations]
  BY <1>3 DEF Idle
<1>4. CASE /\ CheckDecisions(v)
           /\ \E pc \in {"requesting", "running"}, seen \in [Call -> Status] :
                worker'[v] = [worker[v] EXCEPT !.pc = pc, !.decisions = seen]
  BY <1>1, <1>4 DEF Locals, OutcomesTrue, CheckDecisions
<1>5. CASE StoreAnswer(v) /\ worker'[v] = [worker[v] EXCEPT !.pc = "checking"]
  BY <1>1, <1>5 DEF Locals, OutcomesTrue, StoreAnswer
<1>6. CASE worker'[v] = [Idle EXCEPT !.pc = "asking", !.s = worker[v].s,
                           !.scope = worker[v].scope, !.left = worker[v].left]
  BY <1>6 DEF Idle
<1>7. CASE worker'[v] = Idle
  BY <1>1, <1>7
<1>8. QED
  BY <1>1, <1>2, <1>3, <1>4, <1>5, <1>6, <1>7, Zenon DEF Moves

(* The locals of a turn that has just run one call more. *)
LEMMA RunLocals ==
  ASSUME TypeOK, NEW w \in Worker, RunCall(w),
         worker'[w] = [worker[w] EXCEPT !.outcomes = Append(@, NextOutcome(worker[w]))]
  PROVE  /\ worker[w].pc = "running" /\ worker'[w].pc = "running"
         /\ worker'[w].s = worker[w].s /\ worker'[w].s \in Session
         /\ worker'[w].scope = worker[w].scope /\ worker'[w].scope \in Scope
         /\ worker'[w].calls = worker[w].calls /\ worker[w].calls \in Seq(Call)
         /\ worker'[w].decisions = worker[w].decisions
         /\ Len(worker[w].outcomes) + 1 \in DOMAIN worker[w].calls
         /\ NextCall(worker[w]) \in Call /\ NextCall(worker[w]) \in Said(worker[w])
         /\ Len(worker'[w].outcomes) = Len(worker[w].outcomes) + 1
         /\ \A j \in DOMAIN worker[w].outcomes :
              worker'[w].outcomes[j] = worker[w].outcomes[j]
         /\ worker'[w].outcomes[Len(worker[w].outcomes) + 1] = NextOutcome(worker[w])
         /\ \A j \in DOMAIN worker'[w].outcomes :
              j \in DOMAIN worker[w].outcomes \/ j = Len(worker[w].outcomes) + 1
<1>1. /\ worker[w] \in Locals /\ worker[w].pc = "running"
      /\ worker[w].s \in Session /\ worker[w].scope \in Scope
      /\ Len(worker[w].outcomes) < Len(worker[w].calls)
  BY DEF RunCall, TypeOK
<1>2. worker[w].calls \in Seq(Call) /\ worker[w].outcomes \in Seq(Outcome)
  BY <1>1 DEF Locals
<1>3. /\ worker'[w].pc = "running" /\ worker'[w].s = worker[w].s
      /\ worker'[w].scope = worker[w].scope /\ worker'[w].calls = worker[w].calls
      /\ worker'[w].decisions = worker[w].decisions
      /\ worker'[w].outcomes = Append(worker[w].outcomes, NextOutcome(worker[w]))
  BY <1>1 DEF Locals
<1>4. /\ Len(worker'[w].outcomes) = Len(worker[w].outcomes) + 1
      /\ DOMAIN worker[w].outcomes = 1..Len(worker[w].outcomes)
      /\ \A j \in DOMAIN worker[w].outcomes :
           worker'[w].outcomes[j] = worker[w].outcomes[j]
      /\ worker'[w].outcomes[Len(worker[w].outcomes) + 1] = NextOutcome(worker[w])
      /\ \A j \in DOMAIN worker'[w].outcomes :
           j \in DOMAIN worker[w].outcomes \/ j = Len(worker[w].outcomes) + 1
  BY <1>2, <1>3, AppendEntries
<1>5. Len(worker[w].outcomes) + 1 \in DOMAIN worker[w].calls
  BY <1>1, <1>2
<1>6. NextCall(worker[w]) \in Call /\ NextCall(worker[w]) \in Said(worker[w])
  BY <1>2, <1>5 DEF NextCall, Said
<1>7. QED
  BY <1>1, <1>2, <1>3, <1>4, <1>5, <1>6

(* Tools are executed, never un-executed. *)
LEMMA RanGrows ==
  ASSUME TypeOK, [Next]_vars, NEW s \in Session, NEW c \in Call
  PROVE  /\ ran[s][c] \in Nat /\ ran'[s][c] \in Nat
         /\ ran'[s][c] = ran[s][c] \/ ran'[s][c] = ran[s][c] + 1
<1>1. ran \in [Session -> [Call -> Nat]] /\ ran' \in [Session -> [Call -> Nat]]
  BY NextType DEF TypeOK
<1>2. CASE ran'[s][c] = ran[s][c]
  BY <1>1, <1>2
<1>3. CASE ran'[s][c] # ran[s][c]
  <2>1. ran' = [ran EXCEPT ![s][c] = @ + 1]
    BY <1>3, RunStep
  <2>2. QED
    BY <1>1, <2>1, CountRun
<1>4. QED
  BY <1>2, <1>3

LEMMA OutcomesStep ==
  ASSUME TypeOK, [Next]_vars, OutcomesTrue
  PROVE  OutcomesTrue'
<1>1. ASSUME NEW v \in Worker
      PROVE  /\ worker'[v].pc # "running" => worker'[v].outcomes = <<>>
             /\ Len(worker'[v].outcomes) <= Len(worker'[v].calls)
             /\ \A j \in DOMAIN worker'[v].outcomes :
                  LET c == worker'[v].calls[j] IN
                  /\ worker'[v].outcomes[j]
                       = OutcomeOf(worker'[v].scope, c, worker'[v].decisions[c])
                  /\ worker'[v].outcomes[j] = "ran" => ran'[worker'[v].s][c] > 0
  <2>0. worker[v] \in Locals /\ worker'[v] \in Locals
    BY NextType DEF TypeOK
  <2>1. CASE worker'[v] = worker[v]
    <3>1. SUFFICES ASSUME NEW j \in DOMAIN worker[v].outcomes, worker[v].outcomes[j] = "ran"
                   PROVE  ran'[worker[v].s][worker[v].calls[j]] > 0
      BY <2>1 DEF OutcomesTrue
    <3>2. worker[v].pc = "running" /\ worker[v].s \in Session
      <4>1. worker[v].outcomes # <<>>
        BY <2>0, <3>1 DEF Locals
      <4>2. QED
        BY <4>1 DEF OutcomesTrue, TypeOK
    <3>3. worker[v].calls[j] \in Call
      <4>1. /\ worker[v].calls \in Seq(Call) /\ worker[v].outcomes \in Seq(Outcome)
            /\ Len(worker[v].outcomes) <= Len(worker[v].calls)
        BY <2>0 DEF Locals, OutcomesTrue
      <4>2. QED
        BY <3>1, <4>1
    <3>4. ran[worker[v].s][worker[v].calls[j]] > 0
      BY <3>1 DEF OutcomesTrue
    <3>5. QED
      BY <3>2, <3>3, <3>4, RanGrows
  <2>2. CASE worker'[v].outcomes = <<>>
    <3>1. Len(worker'[v].calls) \in Nat /\ Len(<<>>) = 0 /\ DOMAIN <<>> = {}
      BY <2>0 DEF Locals
    <3>2. QED
      BY <2>2, <3>1
  <2>3. CASE /\ RunCall(v)
             /\ worker'[v] = [worker[v] EXCEPT !.outcomes = Append(@, NextOutcome(worker[v]))]
    <3> DEFINE s == worker[v].s
               c == NextCall(worker[v])
               n == Len(worker[v].outcomes) + 1
    <3>1. /\ worker[v].pc = "running" /\ worker'[v].pc = "running"
          /\ worker'[v].s = s /\ s \in Session
          /\ worker'[v].scope = worker[v].scope
          /\ worker'[v].calls = worker[v].calls /\ worker[v].calls \in Seq(Call)
          /\ worker'[v].decisions = worker[v].decisions
          /\ n \in DOMAIN worker[v].calls
          /\ c \in Call
          /\ Len(worker'[v].outcomes) = n
          /\ \A j \in DOMAIN worker[v].outcomes :
               worker'[v].outcomes[j] = worker[v].outcomes[j]
          /\ worker'[v].outcomes[n] = NextOutcome(worker[v])
          /\ \A j \in DOMAIN worker'[v].outcomes : j \in DOMAIN worker[v].outcomes \/ j = n
      BY <2>3, RunLocals
    <3>2. n <= Len(worker[v].calls)
      BY <3>1
    <3>3. NextOutcome(worker[v]) = "ran" => ran'[s][c] > 0
      <4>1. SUFFICES ASSUME NextOutcome(worker[v]) = "ran" PROVE ran'[s][c] > 0
        OBVIOUS
      <4>2. ran' = [ran EXCEPT ![s][c] = @ + 1]
        BY <2>3, <4>1 DEF RunCall, NextOutcome, NextCall
      <4>3. ran \in [Session -> [Call -> Nat]]
        BY DEF TypeOK
      <4> HIDE DEF s, c
      <4>4. ran'[s][c] = ran[s][c] + 1 /\ ran[s][c] \in Nat
        BY <3>1, <4>2, <4>3, CountRun
      <4>5. QED
        BY <4>4
    <3>4. ASSUME NEW j \in DOMAIN worker[v].outcomes
          PROVE  /\ worker[v].calls[j] \in Call
                 /\ worker[v].outcomes[j]
                      = OutcomeOf(worker[v].scope, worker[v].calls[j],
                                  worker[v].decisions[worker[v].calls[j]])
                 /\ worker[v].outcomes[j] = "ran" => ran'[s][worker[v].calls[j]] > 0
      <4>1. worker[v].calls[j] \in Call
        <5>1. worker[v].outcomes \in Seq(Outcome) /\ Len(worker[v].outcomes) \in Nat
          BY <2>0 DEF Locals
        <5>2. QED
          BY <3>1, <3>2, <5>1
      <4>2. worker[v].outcomes[j] = "ran" => ran[s][worker[v].calls[j]] > 0
        BY DEF OutcomesTrue
      <4>3. ASSUME NEW e \in Call, ran[s][e] > 0
            PROVE  ran'[s][e] > 0
        <5>1. s \in Session
          BY <3>1
        <5>2. QED
          BY <4>3, <5>1, RanGrows
      <4>4. QED
        BY <4>1, <4>2, <4>3 DEF OutcomesTrue
    <3>5. /\ worker[v].calls[n] = c
          /\ NextOutcome(worker[v]) = OutcomeOf(worker[v].scope, c, worker[v].decisions[c])
      BY DEF NextOutcome, NextCall
    <3> HIDE DEF s, c, n
    <3>6. QED
      BY <3>1, <3>2, <3>3, <3>4, <3>5
  <2>4. QED
    BY <2>1, <2>2, <2>3, FoundStep
<1>2. QED
  BY <1>1 DEF OutcomesTrue

(* A held call of a stored turn is held before and after a step. *)
LEMMA HeldBefore ==
  ASSUME TypeOK, [Next]_vars, NEW s \in Session, NEW c \in Call, issued[s][c] # None
  PROVE  Held(s, c)' <=> Held(s, c)
BY IssuedStable DEF Held

(* A turn that runs holds only decided calls, and acts on the decisions.   *)
LEMMA RunningDecided ==
  ASSUME KeepsScope, HasQueue, TypeOK, GateInv, NEW w \in Worker,
         worker[w].pc = "running", NEW c \in Said(worker[w]), Held(worker[w].s, c)
  PROVE  /\ Kind[worker[w].scope][c] = "gated"
         /\ worker[w].decisions[c] \in Decision
         /\ approval[worker[w].s][c] = worker[w].decisions[c]
<1>1. issued[worker[w].s][c] = worker[w].scope
  BY DEF GateInv, ServedCallsIssued, IssuedBy
<1>2. c \in Gated(worker[w].scope, Said(worker[w]))
  BY <1>1 DEF Held, Gated
<1>3. QED
  BY <1>1, <1>2 DEF Held, GateInv, SnapshotsCurrent

LEMMA SaidType ==
  ASSUME TypeOK, NEW s \in Session, NEW i \in DOMAIN log[s]
  PROVE  /\ log[s][i].calls \in Seq(Call) /\ log[s][i].outcomes \in Seq(Outcome)
         /\ Said(log[s][i]) \subseteq Call
<1>1. log[s][i] \in Message
  BY DEF TypeOK
<1>2. log[s][i].calls \in Seq(Call) /\ log[s][i].outcomes \in Seq(Outcome)
  BY <1>1 DEF Message
<1>3. QED
  BY <1>2 DEF Said

LEMMA SettledStep ==
  ASSUME TypeOK, [Next]_vars, GateInv, TurnInv
  PROVE  SettledBeforeRun'
<1> SUFFICES ASSUME KeepsScope, HasQueue, NEW s \in Session,
                    NEW i \in Turns(s, "assistant")',
                    NEW c, c \in Said(log'[s][i]), ran'[s][c] > 0,
                    NEW e, e \in Said(log'[s][i]), Held(s, e)'
             PROVE  approval'[s][e] \in Decision
  BY DEF SettledBeforeRun, Said
<1>1. c \in Call /\ e \in Call
  <2>1. log' \in [Session -> Seq(Message)] /\ i \in DOMAIN log'[s]
    BY NextType DEF TypeOK, Turns
  <2>2. log'[s][i] \in Message
    BY <2>1
  <2>3. log'[s][i].calls \in Seq(Call)
    BY <2>2 DEF Message
  <2>4. QED
    BY <2>3 DEF Said
<1>2. PICK t \in Turns(s, "assistant") : c \in Said(log[s][t])
  <2>1. CASE ran'[s][c] = ran[s][c]
    BY <1>1, <2>1 DEF TurnInv, RanStored
  <2>2. CASE ran'[s][c] # ran[s][c]
    BY <1>1, <2>2, RunStep, SettlingSaid DEF TurnInv, Settling
  <2>3. QED
    BY <2>1, <2>2
<1>3. i = t /\ log'[s][i] = log[s][i]
  <2>1. t \in Turns(s, "assistant")' /\ log'[s][t] = log[s][t]
    BY EntriesStep DEF Turns
  <2>2. Shares(log[s][i], log[s][t])'
    BY <1>2, <2>1 DEF Shares, Said
  <2>3. i = t
    BY <2>1, <2>2, TurnsApartStep DEF TurnInv, TurnsApart
  <2>4. QED
    BY <2>1, <2>3
<1>4. c \in Said(log[s][i]) /\ e \in Said(log[s][i]) /\ i \in Turns(s, "assistant")
  BY <1>2, <1>3 DEF Said
<1>5. Held(s, e)
  BY <1>1, <1>4, StoredIssued, HeldBefore DEF GateInv, IssuedBy
<1>6. approval[s][e] \in Decision
  <2>1. CASE ran[s][c] > 0
    BY <1>4, <1>5, <2>1 DEF TurnInv, SettledBeforeRun
  <2>2. CASE ~ (ran[s][c] > 0)
    <3>1. PICK w \in Worker : /\ worker[w].pc = "running" /\ worker[w].s = s
                              /\ c \in Said(worker[w])
      BY <1>1, <2>2, RunStep
    <3>2. PICK j \in Turns(s, "assistant") : log[s][j].calls = worker[w].calls
      BY <3>1 DEF TurnInv, SettledStored, Settling, Stored
    <3>3. c \in Said(log[s][j])
      BY <3>1, <3>2 DEF Said
    <3>4. j = i
      BY <1>4, <3>3 DEF TurnInv, TurnsApart, Shares
    <3>5. e \in Said(worker[w])
      BY <1>4, <3>2, <3>4 DEF Said
    <3>6. QED
      BY <1>5, <3>1, <3>5, RunningDecided
  <2>3. QED
    BY <2>1, <2>2
<1>7. QED
  BY <1>1, <1>6, DecisionStep

(* The outcome of a held call whose decision is in the queue says what was *)
(* decided.                                                                *)
LEMMA OutcomeTellsDecision ==
  ASSUME HasQueue, NEW k, NEW c, NEW d \in Decision, Kind[k][c] = "gated"
  PROVE  IF OutcomeOf(k, c, d) \in {"ran", "invalid"} THEN d = "approved"
         ELSE OutcomeOf(k, c, d) = d
BY DEF OutcomeOf, Passes, Executed, Refusal, Decision

LEMMA AnswersStep ==
  ASSUME TypeOK, [Next]_vars, GateInv, TurnInv
  PROVE  AnswersReflectDecisions'
<1> DEFINE Says(o, s, c) ==
             /\ o = "ran" => ran[s][c] > 0
             /\ Held(s, c) => IF o \in {"ran", "invalid"} THEN approval[s][c] = "approved"
                              ELSE o = approval[s][c]
<1> SUFFICES ASSUME KeepsScope, HasQueue, NEW s \in Session,
                    NEW i \in Turns(s, "results")', NEW j \in DOMAIN log'[s][i].calls
             PROVE  Says(log[s][i].outcomes[j], s, log[s][i].calls[j])'
  BY DEF AnswersReflectDecisions
<1>1. ASSUME NEW c \in Call, NEW o \in Outcome, issued[s][c] # None, Says(o, s, c)
      PROVE  Says(o, s, c)'
  <2>1. o = "ran" => ran'[s][c] > 0
    BY <1>1, RanGrows
  <2>2. ASSUME Held(s, c)'
        PROVE  IF o \in {"ran", "invalid"} THEN approval'[s][c] = "approved"
               ELSE o = approval'[s][c]
    <3>1. Held(s, c)
      BY <1>1, <2>2, HeldBefore
    <3>2. approval[s][c] \in Decision
      BY <1>1, <3>1 DEF Outcome, Decision, TypeOK, StoreTypeOK, Status
    <3>3. approval'[s][c] = approval[s][c]
      BY <3>2, DecisionStep
    <3>4. QED
      BY <1>1, <3>1, <3>3
  <2>3. QED
    BY <2>1, <2>2
<1> HIDE DEF Says
<1>2. CASE i \in Turns(s, "results") /\ log'[s][i] = log[s][i]
  <2> DEFINE m == log[s][i]
  <2>1. m.calls \in Seq(Call) /\ m.outcomes \in Seq(Outcome) /\ Len(m.outcomes) = Len(m.calls)
    BY <1>2, SaidType DEF Turns, TurnInv, ResultsWhole
  <2>2. j \in DOMAIN m.calls /\ m.calls[j] \in Call /\ m.outcomes[j] \in Outcome
    BY <1>2, <2>1
  <2>3. Says(m.outcomes[j], s, m.calls[j])
    BY <1>2, <2>2 DEF TurnInv, AnswersReflectDecisions, Says
  <2>4. issued[s][m.calls[j]] # None
    <3>1. PICK t \in Turns(s, "assistant") : log[s][t].calls = m.calls
      BY <1>2 DEF TurnInv, ResultsWhole, Stored
    <3>2. m.calls[j] \in Said(log[s][t])
      BY <2>2, <3>1 DEF Said
    <3>3. QED
      BY <3>2, StoredIssued DEF GateInv, IssuedBy
  <2>5. PICK o \in Outcome, c \in Call : o = m.outcomes[j] /\ c = m.calls[j]
    BY <2>2
  <2>6. issued[s][c] # None /\ Says(o, s, c)
    BY <2>3, <2>4, <2>5
  <2>7. log'[s][i].outcomes[j] = o /\ log'[s][i].calls[j] = c
    BY <1>2, <2>5
  <2>8. Says(o, s, c)'
    BY <1>1, <2>6
  <2>9. QED
    BY <2>7, <2>8 DEF Says
<1>3. ASSUME NEW w \in Worker, StoreResults(w), worker[w].s = s,
             log'[s][i].calls = worker[w].calls, log'[s][i].outcomes = worker[w].outcomes
      PROVE  Says(log[s][i].outcomes[j], s, log[s][i].calls[j])'
  <2>1. /\ worker[w].pc = "running" /\ Len(worker[w].outcomes) = Len(worker[w].calls)
        /\ worker[w].calls \in Seq(Call) /\ worker[w].outcomes \in Seq(Outcome)
        /\ worker[w].scope \in Scope
        /\ worker[w].decisions \in [Call -> Status]
    BY <1>3 DEF StoreResults, TypeOK, Locals
  <2>2. PICK o \in Outcome, c \in Call :
          o = worker[w].outcomes[j] /\ c = worker[w].calls[j]
    BY <1>3, <2>1
  <2>3. /\ o = OutcomeOf(worker[w].scope, c, worker[w].decisions[c])
        /\ o = "ran" => ran[s][c] > 0
    BY <1>3, <2>1, <2>2 DEF TurnInv, OutcomesTrue
  <2>4. c \in Said(worker[w]) /\ issued[s][c] # None
    BY <1>3, <2>1, <2>2 DEF GateInv, ServedCallsIssued, IssuedBy, Said
  <2>5. ASSUME Held(s, c)
        PROVE  IF o \in {"ran", "invalid"} THEN approval[s][c] = "approved"
               ELSE o = approval[s][c]
    <3>1. /\ Kind[worker[w].scope][c] = "gated" /\ worker[w].decisions[c] \in Decision
          /\ approval[s][c] = worker[w].decisions[c]
      BY <1>3, <2>1, <2>4, <2>5, RunningDecided
    <3>2. QED
      BY <2>3, <3>1, OutcomeTellsDecision
  <2>6. Says(o, s, c)
    BY <2>3, <2>5 DEF Says
  <2>7. Says(o, s, c)'
    BY <1>1, <2>4, <2>6
  <2>8. log'[s][i].outcomes[j] = o /\ log'[s][i].calls[j] = c
    BY <1>3, <2>2
  <2>9. QED
    BY <2>7, <2>8 DEF Says
<1>4. QED
  BY <1>2, <1>3, ResultsStep

LEMMA InitTurnInv == Init => TurnInv
<1> SUFFICES ASSUME Init PROVE TurnInv
  OBVIOUS
<1>1. \A s \in Session : Turns(s, "assistant") = {} /\ Turns(s, "results") = {}
  <2>1. <<>> \in Seq(Message) /\ Len(<<>>) = 0
    OBVIOUS
  <2>2. DOMAIN <<>> = {}
    BY <2>1
  <2>3. \A s \in Session : DOMAIN log[s] = {}
    BY <2>2 DEF Init
  <2>4. QED
    BY <2>3 DEF Turns
<1>2. \A w \in Worker : /\ worker[w].pc = "idle" /\ worker[w].outcomes = <<>>
                        /\ worker[w].calls = <<>>
  BY DEF Init, Idle
<1>3. /\ \A s \in Session, c \in Call : ran[s][c] = 0
      /\ \A s \in Session, c \in Call : approval[s][c] = "none"
  BY DEF Init, StoreInit
<1>4. TurnsApart /\ FreshApart /\ SettledStored /\ RanStored
  BY <1>1, <1>2, <1>3 DEF TurnsApart, FreshApart, SettledStored, Settling, RanStored
<1>5. ResultsWhole /\ ApprovalsHaveTheirTurn /\ SettledBeforeRun /\ AnswersReflectDecisions
  BY <1>1, <1>3 DEF ResultsWhole, ApprovalsHaveTheirTurn, SettledBeforeRun,
                    AnswersReflectDecisions
<1>6. OutcomesTrue
  BY <1>2 DEF OutcomesTrue
<1>7. QED
  BY <1>4, <1>5, <1>6 DEF TurnInv

LEMMA NextTurnInv == TypeOK /\ GateInv /\ TurnInv /\ [Next]_vars => TurnInv'
<1> SUFFICES ASSUME TypeOK, GateInv, TurnInv, [Next]_vars PROVE TurnInv'
  OBVIOUS
<1>1. TurnsApart' /\ FreshApart' /\ SettledStored'
  BY TurnsApartStep, FreshApartStep, SettledStoredStep DEF TurnInv
<1>2. RanStored' /\ ResultsWhole' /\ OutcomesTrue' /\ ApprovalsHaveTheirTurn'
  BY RanStoredStep, ResultsWholeStep, OutcomesStep, ApprovalsTurnStep DEF TurnInv
<1>3. SettledBeforeRun' /\ AnswersReflectDecisions'
  BY SettledStep, AnswersStep
<1>4. QED
  BY <1>1, <1>2, <1>3 DEF TurnInv

LEMMA TurnsInductive == Spec => [](TypeOK /\ GateInv /\ TurnInv)
BY InitType, NextType, InitGateInv, NextGateInv, InitTurnInv, NextTurnInv, PTL DEF Spec

(* A turn goes all at once and by the queue: no call of it is executed     *)
(* before every held call is decided, the model is told what was decided,  *)
(* and nobody is asked about a call `resume` could not find (agent.ts      *)
(* #settle, #runCall; ADR 0004).                                           *)
THEOREM TurnsFollow == Spec => []TurnsFollowTheQueue
<1>1. TurnInv => TurnsFollowTheQueue
  BY DEF TurnInv, TurnsFollowTheQueue
<1>2. QED
  BY <1>1, TurnsInductive, PTL

-----------------------------------------------------------------------------
(* Pauses are served once *)

(* No call twice in one answer of the model. *)
Distinct(calls) == \A i, j \in DOMAIN calls : calls[i] = calls[j] => i = j
DistinctBatches == \A b \in Batches : Distinct(b)

OneCallPerSession ==
    \A v, w \in Worker : worker[v].s \in Session /\ worker[v].s = worker[w].s => v = w

SettlesTheLast ==
    \A w \in Worker :
      /\ worker[w].pc = "storing" /\ worker[w].settle => worker[w].calls # <<>>
      /\ Settling(w) => CanContinue(worker[w].s)
                        /\ LastTurn(worker[w].s).calls = worker[w].calls

AllAnswered(s) == \A c \in Call : approval[s][c] # "none" => Answered(s, c)

TalksWhenAnswered ==
    \A w \in Worker : worker[w].pc \in {"asking", "storing"} => AllAnswered(worker[w].s)

ResultsFollowTheirTurn ==
    \A s \in Session : \A i \in Turns(s, "results") :
      /\ i - 1 \in Turns(s, "assistant")
      /\ log[s][i - 1].calls = log[s][i].calls

CallsDistinct ==
    DistinctBatches =>
      /\ \A s \in Session : \A i \in Turns(s, "assistant") : Distinct(log[s][i].calls)
      /\ \A w \in Worker : Distinct(worker[w].calls)

(* Some running turn has come past c. *)
Underway(s, c) ==
    \E w \in Worker : /\ worker[w].pc = "running" /\ worker[w].s = s
                      /\ \E j \in DOMAIN worker[w].outcomes : worker[w].calls[j] = c

RunsCounted ==
    DistinctBatches => \A s \in Session, c \in Call :
      ran[s][c] <= crashes + (IF Answered(s, c) \/ Underway(s, c) THEN 1 ELSE 0)

(* A turn being settled or run is the last message, a turn being asked for  *)
(* or stored has no pause behind it, and results come right after the turn  *)
(* they answer.                                                             *)
Orderly ==
    /\ OneCallPerSession /\ SettlesTheLast /\ TalksWhenAnswered
    /\ ResultsFollowTheirTurn /\ PauseStaysResumable

PauseInv ==
    /\ CallsDistinct
    /\ disciplined => Orderly /\ RunsCounted

LEMMA DisciplineKept ==
  ASSUME [Next]_vars
  PROVE  disciplined' = disciplined
<1>1. ASSUME NEW w \in Worker, Serve(w)
      PROVE  disciplined' = disciplined
  BY <1>1 DEF Serve, ModelAnswers, ModelFails, StoreAnswer, CheckDecisions,
              RequestApprovals, RunCall, StoreResults
<1>2. QED
  BY <1>1 DEF Next, Run, Resume, Operator, Crash, vars

(* One call into the agent moves at a time. *)
LEMMA OneMoves ==
  ASSUME TypeOK, [Next]_vars, NEW v \in Worker, NEW w \in Worker, v # w
  PROVE  worker'[v] = worker[v] \/ worker'[w] = worker[w]
<1>1. ASSUME NEW u \in Worker,
             \/ \E s \in Session, k \in Scope : Run(u, s, k) \/ Resume(u, s, k)
             \/ Serve(u)
             \/ Crash(u)
      PROVE  worker'[v] = worker[v] \/ worker'[w] = worker[w]
  BY <1>1, OthersKeepLocals
<1>2. CASE worker' = worker
  BY <1>2
<1>3. QED
  BY <1>1, <1>2 DEF Next, Operator, vars

(* A call into the agent keeps its session until it returns. *)
LEMMA SessionStep ==
  ASSUME TypeOK, [Next]_vars, NEW v \in Worker
  PROVE  \/ worker'[v].s = worker[v].s
         \/ worker'[v].s = None
         \/ \E s \in Session, k \in Scope :
              (Run(v, s, k) \/ Resume(v, s, k)) /\ worker'[v].s = s
<1>1. worker[v] \in Locals /\ Moves(v) /\ Idle.s = None
  BY WorkerStep DEF TypeOK, Idle
<1>2. CASE \E s \in Session, k \in Scope :
             /\ Run(v, s, k)
             /\ worker'[v] = [Idle EXCEPT !.pc = "asking", !.s = s, !.scope = k,
                                          !.left = MaxIterations]
  BY <1>2 DEF Idle
<1>3. CASE \E s \in Session, k \in Scope :
             /\ Resume(v, s, k)
             /\ worker'[v] = [Idle EXCEPT !.pc = "checking", !.s = s, !.scope = k,
                                !.calls = LastTurn(s).calls, !.left = MaxIterations]
  BY <1>3 DEF Idle
<1>4. CASE \E batch \in Batches, wants \in BOOLEAN :
             worker'[v] = [worker[v] EXCEPT !.pc = "storing", !.calls = batch,
                             !.settle = wants, !.left = @ - 1]
  BY <1>1, <1>4 DEF Locals
<1>5. CASE \E pc \in {"requesting", "running"}, seen \in [Call -> Status] :
             worker'[v] = [worker[v] EXCEPT !.pc = pc, !.decisions = seen]
  BY <1>1, <1>5 DEF Locals
<1>6. CASE \/ worker'[v] = [worker[v] EXCEPT !.pc = "checking"]
           \/ worker'[v] = [worker[v] EXCEPT !.outcomes = Append(@, NextOutcome(worker[v]))]
  BY <1>1, <1>6 DEF Locals
<1>7. CASE worker'[v] = [Idle EXCEPT !.pc = "asking", !.s = worker[v].s,
                           !.scope = worker[v].scope, !.left = worker[v].left]
  BY <1>7 DEF Idle
<1>8. CASE worker'[v] = worker[v] \/ worker'[v] = Idle
  BY <1>1, <1>8
<1>9. QED
  BY <1>1, <1>2, <1>3, <1>4, <1>5, <1>6, <1>7, <1>8, Zenon DEF Moves

LEMMA OneCallStep ==
  ASSUME TypeOK, [Next]_vars, disciplined, OneCallPerSession
  PROVE  OneCallPerSession'
<1>1. ASSUME NEW v \in Worker, NEW w \in Worker, v # w, worker'[w] = worker[w],
             worker'[v].s \in Session, worker'[v].s = worker'[w].s
      PROVE  FALSE
  <2>1. CASE worker'[v].s = worker[v].s
    BY <1>1, <2>1 DEF OneCallPerSession
  <2>2. CASE worker'[v].s = None
    BY <1>1, <2>2, NoneAssumption
  <2>3. ASSUME NEW s \in Session, NEW k \in Scope,
               Run(v, s, k) \/ Resume(v, s, k), worker'[v].s = s
        PROVE  FALSE
    BY <1>1, <2>3 DEF Run, Resume, Free
  <2>4. QED
    BY <2>1, <2>2, <2>3, SessionStep
<1>2. QED
  BY <1>1, OneMoves DEF OneCallPerSession

(* While a call into the agent serves a session, nobody else writes its     *)
(* conversation.                                                            *)
LEMMA QuietSession ==
  ASSUME TypeOK, [Next]_vars, disciplined, OneCallPerSession,
         NEW v \in Worker, worker[v].pc # "idle", log'[worker[v].s] # log[worker[v].s]
  PROVE  StoreAnswer(v) \/ StoreResults(v)
<1>1. worker[v].s \in Session
  BY DEF TypeOK
<1>2. ~ \E w \in Worker, k \in Scope : Run(w, worker[v].s, k)
  BY DEF Run, Free
<1>3. QED
  BY <1>1, <1>2, LogStep DEF OneCallPerSession

(* A call that was answered stays answered, and storing its results answers it. *)
LEMMA AnsweredStep ==
  ASSUME TypeOK, [Next]_vars, NEW s \in Session, NEW c
  PROVE  /\ Answered(s, c) => Answered(s, c)'
         /\ \A w \in Worker :
              StoreResults(w) /\ worker[w].s = s /\ c \in Said(worker[w])
                => Answered(s, c)'
<1>1. Answered(s, c) => Answered(s, c)'
  BY EntriesStep DEF Answered, Turns, Said
<1>2. ASSUME NEW w \in Worker, StoreResults(w), worker[w].s = s, c \in Said(worker[w])
      PROVE  Answered(s, c)'
  <2> DEFINE m == ResultTurn(worker[w].scope, worker[w].calls, worker[w].outcomes)
  <2>1. log[s] \in Seq(Message) /\ log'[s] = Append(log[s], m)
    BY <1>2 DEF StoreResults, TypeOK
  <2>2. m.kind = "results" /\ Said(m) = Said(worker[w])
    BY DEF ResultTurn, Said
  <2> HIDE DEF m
  <2>3. Len(log[s]) + 1 \in DOMAIN log'[s] /\ log'[s][Len(log[s]) + 1] = m
    BY <2>1, AppendEntries
  <2>4. PICK i \in DOMAIN log'[s] : log'[s][i] = m
    BY <2>3
  <2>5. log'[s][i].kind = "results" /\ c \in Said(log'[s][i])
    BY <1>2, <2>2, <2>4
  <2>6. QED
    BY <2>5 DEF Answered, Turns, Said
<1>3. QED
  BY <1>1, <1>2

LEMMA SettlesTheLastStep ==
  ASSUME TypeOK, [Next]_vars, disciplined, Orderly
  PROVE  SettlesTheLast'
<1> USE DEF Orderly
<1>1. ASSUME NEW v \in Worker, worker'[v].pc = "storing", worker'[v].settle
      PROVE  worker'[v].calls # <<>>
  <2>1. CASE worker'[v] = worker[v]
    BY <1>1, <2>1 DEF SettlesTheLast
  <2>2. CASE worker'[v] # worker[v]
    BY <1>1, <2>2, StoringStep DEF ModelAnswers
  <2>3. QED
    BY <2>1, <2>2
<1>2. ASSUME NEW v \in Worker, Settling(v)', NEW s \in Session, worker'[v].s = s
      PROVE  CanContinue(s)' /\ LastTurn(s)'.calls = worker'[v].calls
  <2>1. CASE Settling(v) /\ s = worker[v].s /\ worker'[v].calls = worker[v].calls
    <3>1. CanContinue(s) /\ LastTurn(s).calls = worker[v].calls
      BY <2>1 DEF SettlesTheLast
    <3>2. log'[s] = log[s]
      <4>1. SUFFICES ASSUME log'[s] # log[s] PROVE FALSE
        OBVIOUS
      <4>2. StoreAnswer(v) \/ StoreResults(v)
        BY <2>1, <4>1, QuietSession DEF Settling
      <4>3. StoreResults(v)
        BY <2>1, <4>2 DEF Settling, StoreAnswer
      <4>4. worker'[v].pc \in {"idle", "asking"}
        <5>1. worker \in [Worker -> Locals]
          BY DEF TypeOK
        <5>2. CASE HasBudget(worker[v])
          BY <4>3, <5>1, <5>2 DEF StoreResults, Idle
        <5>3. CASE ~ HasBudget(worker[v])
          BY <4>3, <5>1, <5>3 DEF StoreResults, Return, Idle
        <5>4. QED
          BY <5>2, <5>3
      <4>5. QED
        BY <1>2, <4>4 DEF Settling
    <3>3. QED
      BY <2>1, <3>1, <3>2 DEF CanContinue, LastTurn
  <2>2. CASE /\ StoreAnswer(v) /\ worker[v].settle
             /\ s = worker[v].s /\ worker'[v].calls = worker[v].calls
    <3> DEFINE m == AssistantTurn(worker[v].scope, worker[v].calls)
    <3>1. log[s] \in Seq(Message) /\ log'[s] = Append(log[s], m)
      BY <2>2 DEF StoreAnswer, TypeOK
    <3>2. m.kind = "assistant" /\ m.calls = worker[v].calls
      BY DEF AssistantTurn
    <3>3. worker[v].calls # <<>>
      BY <2>2 DEF SettlesTheLast, StoreAnswer
    <3> HIDE DEF m
    <3>4. log'[s][Len(log'[s])] = m /\ log'[s] # <<>>
      BY <3>1, AppendEntries
    <3>5. QED
      BY <2>2, <3>2, <3>3, <3>4 DEF CanContinue, LastTurn
  <2>3. CASE \E t \in Session, k \in Scope :
               Resume(v, t, k) /\ s = t /\ worker'[v].calls = LastTurn(t).calls
    BY <2>3 DEF Resume, CanContinue, LastTurn
  <2>4. QED
    BY <1>2, <2>1, <2>2, <2>3, SettlingStep
<1>3. \A v \in Worker : Settling(v)' => worker'[v].s \in Session
  BY NextType DEF TypeOK, Settling
<1>4. QED
  BY <1>1, <1>2, <1>3 DEF SettlesTheLast

(* How a call comes to talk to the model: it does, or it begins a turn. *)
LEMMA TalkingStep ==
  ASSUME TypeOK, [Next]_vars, NEW v \in Worker, worker'[v].pc \in {"asking", "storing"}
  PROVE  \/ worker[v].pc \in {"asking", "storing"} /\ worker'[v].s = worker[v].s
         \/ \E s \in Session, k \in Scope : Run(v, s, k) /\ worker'[v].s = s
         \/ StoreResults(v) /\ worker'[v].s = worker[v].s
<1>1. worker[v] \in Locals /\ Moves(v) /\ Idle.pc = "idle"
  BY WorkerStep DEF TypeOK, Idle
<1>2. CASE worker'[v].pc = "storing"
  BY <1>2, StoringStep DEF ModelAnswers
<1>3. ASSUME worker'[v].pc = "asking"
      PROVE  \/ worker'[v] = worker[v]
             \/ \E s \in Session, k \in Scope : Run(v, s, k) /\ worker'[v].s = s
             \/ StoreResults(v) /\ worker'[v].s = worker[v].s
  <2>1. CASE \E s \in Session, k \in Scope :
               /\ Run(v, s, k)
               /\ worker'[v] = [Idle EXCEPT !.pc = "asking", !.s = s, !.scope = k,
                                            !.left = MaxIterations]
    BY <2>1 DEF Idle
  <2>2. CASE \E s \in Session, k \in Scope :
               worker'[v] = [Idle EXCEPT !.pc = "checking", !.s = s, !.scope = k,
                               !.calls = LastTurn(s).calls, !.left = MaxIterations]
    BY <1>3, <2>2 DEF Idle
  <2>3. CASE \E batch \in Batches, wants \in BOOLEAN :
               worker'[v] = [worker[v] EXCEPT !.pc = "storing", !.calls = batch,
                               !.settle = wants, !.left = @ - 1]
    BY <1>1, <1>3, <2>3 DEF Locals
  <2>4. CASE \E pc \in {"requesting", "running"}, seen \in [Call -> Status] :
               worker'[v] = [worker[v] EXCEPT !.pc = pc, !.decisions = seen]
    BY <1>1, <1>3, <2>4 DEF Locals
  <2>5. CASE worker'[v] = [worker[v] EXCEPT !.pc = "checking"]
    BY <1>1, <1>3, <2>5 DEF Locals
  <2>6. CASE /\ RunCall(v)
             /\ worker'[v] = [worker[v] EXCEPT !.outcomes = Append(@, NextOutcome(worker[v]))]
    <3>1. worker'[v].pc = "running"
      BY <1>1, <2>6 DEF Locals, RunCall
    <3>2. QED
      BY <1>3, <3>1
  <2>7. CASE /\ StoreResults(v)
             /\ worker'[v] = [Idle EXCEPT !.pc = "asking", !.s = worker[v].s,
                                !.scope = worker[v].scope, !.left = worker[v].left]
    BY <2>7 DEF Idle
  <2>8. worker'[v] # Idle
    BY <1>1, <1>3
  <2>9. QED
    BY <1>1, <2>1, <2>2, <2>3, <2>4, <2>5, <2>6, <2>7, <2>8, Zenon DEF Moves
<1>4. QED
  BY <1>2, <1>3

(* Nobody talks over a pause: where a new message is taken, nothing waits. *)
LEMMA RunFindsNoPause ==
  ASSUME disciplined, Orderly, NEW w \in Worker, NEW s \in Session, NEW k \in Scope,
         Run(w, s, k), NEW c \in Call, approval[s][c] # "none"
  PROVE  Answered(s, c)
BY DEF Orderly, PauseStaysResumable, Run, Paused

(* The turn whose results are stored is the last message. *)
LEMMA ResultsOfTheLast ==
  ASSUME disciplined, Orderly, NEW w \in Worker, Settling(w)
  PROVE  /\ CanContinue(worker[w].s)
         /\ LastTurn(worker[w].s).calls = worker[w].calls
         /\ Said(LastTurn(worker[w].s)) = Said(worker[w])
BY DEF Orderly, SettlesTheLast, Said

LEMMA TalksStep ==
  ASSUME TypeOK, [Next]_vars, disciplined, Orderly
  PROVE  TalksWhenAnswered'
<1> SUFFICES ASSUME NEW v \in Worker, worker'[v].pc \in {"asking", "storing"},
                    NEW s \in Session, worker'[v].s = s,
                    NEW c \in Call, approval'[s][c] # "none"
             PROVE  Answered(s, c)'
  <2>1. \A v \in Worker : worker'[v].pc \in {"asking", "storing"} => worker'[v].s \in Session
    BY NextType DEF TypeOK
  <2>2. QED
    BY <2>1 DEF TalksWhenAnswered, AllAnswered
<1>1. CASE worker[v].pc \in {"asking", "storing"} /\ worker[v].s = s
  <2>1. approval[s][c] # "none"
    <3>1. SUFFICES ASSUME approval[s][c] = "none" PROVE FALSE
      OBVIOUS
    <3>2. PICK w \in Worker : worker[w].pc = "requesting" /\ worker[w].s = s
      BY <3>1, QueueStep
    <3>3. QED
      BY <1>1, <3>2 DEF Orderly, OneCallPerSession
  <2>2. Answered(s, c)
    BY <1>1, <2>1 DEF Orderly, TalksWhenAnswered, AllAnswered
  <2>3. QED
    BY <2>2, AnsweredStep
<1>2. CASE \E k \in Scope : Run(v, s, k)
  <2>1. approval[s][c] # "none"
    BY <1>2 DEF Run
  <2>2. QED
    BY <1>2, <2>1, RunFindsNoPause, AnsweredStep
<1>3. CASE StoreResults(v) /\ worker[v].s = s
  <2>1. approval[s][c] # "none" /\ Settling(v)
    BY <1>3 DEF StoreResults, Settling
  <2>2. CASE Answered(s, c)
    BY <2>2, AnsweredStep
  <2>3. CASE ~ Answered(s, c)
    <3>1. c \in Said(LastTurn(s))
      BY <2>1, <2>3 DEF Orderly, PauseStaysResumable
    <3>2. c \in Said(worker[v])
      BY <1>3, <2>1, <3>1, ResultsOfTheLast
    <3>3. QED
      BY <1>3, <3>2, AnsweredStep
  <2>4. QED
    BY <2>2, <2>3
<1>4. QED
  BY <1>1, <1>2, <1>3, TalkingStep

LEMMA ResultsFollowStep ==
  ASSUME TypeOK, [Next]_vars, disciplined, Orderly
  PROVE  ResultsFollowTheirTurn'
<1> SUFFICES ASSUME NEW s \in Session, NEW i \in Turns(s, "results")'
             PROVE  /\ i - 1 \in Turns(s, "assistant")'
                    /\ log'[s][i - 1].calls = log'[s][i].calls
  BY DEF ResultsFollowTheirTurn
<1>1. SUFFICES /\ i - 1 \in Turns(s, "assistant")
               /\ log[s][i - 1].calls = log'[s][i].calls
  BY EntriesStep DEF Turns
<1>2. CASE i \in Turns(s, "results") /\ log'[s][i] = log[s][i]
  BY <1>2 DEF Orderly, ResultsFollowTheirTurn
<1>3. ASSUME i = Len(log[s]) + 1,
             NEW w \in Worker, StoreResults(w), worker[w].s = s,
             log'[s][i].calls = worker[w].calls
      PROVE  /\ i - 1 \in Turns(s, "assistant")
             /\ log[s][i - 1].calls = log'[s][i].calls
  <2>1. CanContinue(s) /\ LastTurn(s).calls = worker[w].calls
    BY <1>3, ResultsOfTheLast DEF Settling, StoreResults
  <2>2. log[s] \in Seq(Message) /\ log[s] # <<>>
    BY <2>1 DEF CanContinue, TypeOK
  <2>3. i - 1 = Len(log[s]) /\ Len(log[s]) \in DOMAIN log[s]
    BY <1>3, <2>2
  <2>4. QED
    BY <1>3, <2>1, <2>3 DEF CanContinue, LastTurn, Turns
<1>4. QED
  BY <1>2, <1>3, ResultsStep

LEMMA ResumableStep ==
  ASSUME TypeOK, [Next]_vars, disciplined, Orderly
  PROVE  PauseStaysResumable'
<1> SUFFICES ASSUME NEW s \in Session, NEW c \in Call,
                    approval'[s][c] # "none", ~ Answered(s, c)'
             PROVE  (CanContinue(s) /\ c \in Said(LastTurn(s)))'
  BY DEF PauseStaysResumable
<1>1. ~ Answered(s, c)
  BY AnsweredStep
<1>2. CASE approval[s][c] = "none"
  <2>1. PICK w \in Worker : /\ worker[w].pc = "requesting" /\ worker[w].s = s
                            /\ c \in Said(worker[w])
    BY <1>2, QueueStep
  <2>2. CanContinue(s) /\ c \in Said(LastTurn(s))
    BY <2>1, ResultsOfTheLast DEF Settling
  <2>3. log'[s] = log[s]
    BY <2>1, QuietSession DEF Orderly, StoreAnswer, StoreResults
  <2>4. QED
    BY <2>2, <2>3 DEF CanContinue, LastTurn, Said
<1>3. CASE approval[s][c] # "none"
  <2>1. CanContinue(s) /\ c \in Said(LastTurn(s))
    BY <1>1, <1>3 DEF Orderly, PauseStaysResumable
  <2>2. log'[s] = log[s]
    <3>1. ASSUME NEW w \in Worker, NEW k \in Scope, Run(w, s, k)
          PROVE  FALSE
      BY <1>1, <1>3, <3>1, RunFindsNoPause
    <3>2. ASSUME NEW w \in Worker, StoreAnswer(w), worker[w].s = s
          PROVE  FALSE
      BY <1>1, <1>3, <3>2 DEF Orderly, TalksWhenAnswered, AllAnswered, StoreAnswer
    <3>3. ASSUME NEW w \in Worker, StoreResults(w), worker[w].s = s
          PROVE  FALSE
      <4>1. c \in Said(worker[w])
        BY <2>1, <3>3, ResultsOfTheLast DEF Settling, StoreResults
      <4>2. QED
        BY <3>3, <4>1, AnsweredStep
    <3>4. QED
      BY <3>1, <3>2, <3>3, LogStep
  <2>3. QED
    BY <2>1, <2>2 DEF CanContinue, LastTurn, Said
<1>4. QED
  BY <1>2, <1>3

LEMMA OrderlyStep ==
  ASSUME TypeOK, [Next]_vars, disciplined, Orderly
  PROVE  Orderly'
<1>1. OneCallPerSession'
  BY OneCallStep DEF Orderly
<1>2. QED
  BY <1>1, SettlesTheLastStep, TalksStep, ResultsFollowStep, ResumableStep DEF Orderly

-----------------------------------------------------------------------------
(* Where the calls a worker holds come from. *)
LEMMA CallsFrom ==
  ASSUME TypeOK, [Next]_vars, NEW v \in Worker
  PROVE  \/ worker'[v].calls = worker[v].calls
         \/ worker'[v].calls = <<>>
         \/ worker'[v].calls \in Batches
         \/ \E s \in Session : CanContinue(s) /\ worker'[v].calls = LastTurn(s).calls
<1>1. worker[v] \in Locals /\ Moves(v) /\ Idle.calls = <<>>
  BY WorkerStep DEF TypeOK, Idle
<1>2. CASE \E s \in Session, k \in Scope :
             worker'[v] = [Idle EXCEPT !.pc = "asking", !.s = s, !.scope = k,
                                       !.left = MaxIterations]
  BY <1>2 DEF Idle
<1>3. CASE \E s \in Session, k \in Scope :
             /\ Resume(v, s, k)
             /\ worker'[v] = [Idle EXCEPT !.pc = "checking", !.s = s, !.scope = k,
                                !.calls = LastTurn(s).calls, !.left = MaxIterations]
  BY <1>3 DEF Idle, Resume
<1>4. CASE \E batch \in Batches, wants \in BOOLEAN :
             worker'[v] = [worker[v] EXCEPT !.pc = "storing", !.calls = batch,
                             !.settle = wants, !.left = @ - 1]
  BY <1>1, <1>4 DEF Locals
<1>5. CASE \E pc \in {"requesting", "running"}, seen \in [Call -> Status] :
             worker'[v] = [worker[v] EXCEPT !.pc = pc, !.decisions = seen]
  BY <1>1, <1>5 DEF Locals
<1>6. CASE \/ worker'[v] = [worker[v] EXCEPT !.pc = "checking"]
           \/ worker'[v] = [worker[v] EXCEPT !.outcomes = Append(@, NextOutcome(worker[v]))]
  BY <1>1, <1>6 DEF Locals
<1>7. CASE worker'[v] = [Idle EXCEPT !.pc = "asking", !.s = worker[v].s,
                           !.scope = worker[v].scope, !.left = worker[v].left]
  BY <1>7 DEF Idle
<1>8. CASE worker'[v] = worker[v] \/ worker'[v] = Idle
  BY <1>1, <1>8
<1>9. QED
  BY <1>1, <1>2, <1>3, <1>4, <1>5, <1>6, <1>7, <1>8, Zenon DEF Moves

LEMMA CallsDistinctStep ==
  ASSUME TypeOK, [Next]_vars, CallsDistinct
  PROVE  CallsDistinct'
<1> SUFFICES ASSUME DistinctBatches
             PROVE  /\ \A s \in Session : \A i \in Turns(s, "assistant")' :
                         Distinct(log'[s][i].calls)
                    /\ \A v \in Worker : Distinct(worker'[v].calls)
  BY DEF CallsDistinct, Distinct, DistinctBatches
<1>1. /\ \A s \in Session : \A i \in Turns(s, "assistant") : Distinct(log[s][i].calls)
      /\ \A v \in Worker : Distinct(worker[v].calls)
  BY DEF CallsDistinct
<1>2. ASSUME NEW s \in Session, NEW i \in Turns(s, "assistant")'
      PROVE  Distinct(log'[s][i].calls)
  <2>1. CASE i \in Turns(s, "assistant") /\ log'[s][i] = log[s][i]
    BY <1>1, <2>1
  <2>2. ASSUME NEW w \in Worker, log'[s][i].calls = worker[w].calls
        PROVE  Distinct(log'[s][i].calls)
    BY <1>1, <2>2
  <2>3. QED
    BY <2>1, <2>2, AssistantStep
<1>3. ASSUME NEW v \in Worker
      PROVE  Distinct(worker'[v].calls)
  <2>1. Distinct(<<>>)
    BY DEF Distinct
  <2>2. CASE worker'[v].calls \in Batches
    BY <2>2 DEF DistinctBatches
  <2>3. ASSUME NEW s \in Session, CanContinue(s), worker'[v].calls = LastTurn(s).calls
        PROVE  Distinct(worker'[v].calls)
    <3>1. log[s] \in Seq(Message) /\ log[s] # <<>>
      BY <2>3 DEF CanContinue, TypeOK
    <3>2. Len(log[s]) \in DOMAIN log[s]
      BY <3>1
    <3>3. Len(log[s]) \in Turns(s, "assistant")
      BY <2>3, <3>2 DEF CanContinue, Turns
    <3>4. Distinct(LastTurn(s).calls)
      BY <1>1, <3>3 DEF LastTurn
    <3>5. QED
      BY <2>3, <3>4
  <2>4. QED
    BY <1>1, <2>1, <2>2, <2>3, CallsFrom
<1>4. QED
  BY <1>2, <1>3

(* What is executed is the next call of one running turn, once. *)
LEMMA RunnerStep ==
  ASSUME TypeOK, [Next]_vars, NEW s \in Session, NEW c \in Call,
         ran'[s][c] # ran[s][c]
  PROVE  /\ \E w \in Worker : RunCall(w) /\ worker[w].s = s /\ NextCall(worker[w]) = c
         /\ ran'[s][c] = ran[s][c] + 1
<1>1. ASSUME NEW w \in Worker, RunCall(w)
      PROVE  /\ worker[w].s = s /\ NextCall(worker[w]) = c
             /\ ran'[s][c] = ran[s][c] + 1
  <2>1. /\ worker[w] \in Locals /\ worker[w].s \in Session
        /\ Len(worker[w].outcomes) < Len(worker[w].calls)
    BY <1>1 DEF RunCall, TypeOK
  <2>2. worker[w].calls \in Seq(Call) /\ worker[w].outcomes \in Seq(Outcome)
    BY <2>1 DEF Locals
  <2>3. NextCall(worker[w]) \in Call
    BY <2>1, <2>2 DEF NextCall
  <2>4. ran' = [ran EXCEPT ![worker[w].s][NextCall(worker[w])] = @ + 1]
    BY <1>1 DEF RunCall, NextCall
  <2>5. ran \in [Session -> [Call -> Nat]]
    BY DEF TypeOK
  <2>6. QED
    BY <2>1, <2>3, <2>4, <2>5, CountRun
<1>2. ASSUME NEW w \in Worker, Serve(w), ~ RunCall(w)
      PROVE  UNCHANGED ran
  BY <1>2 DEF Serve, ModelAnswers, ModelFails, StoreAnswer, CheckDecisions,
              RequestApprovals, StoreResults
<1>3. ~ UNCHANGED ran
  OBVIOUS
<1>4. QED
  BY <1>1, <1>2, <1>3 DEF Next, Run, Resume, Operator, Crash, vars

(* A turn that runs goes on, runs one call more, is answered, or dies. *)
LEMMA RunningGoesOn ==
  ASSUME TypeOK, [Next]_vars, NEW w \in Worker, worker[w].pc = "running"
  PROVE  worker'[w] = worker[w] \/ RunCall(w) \/ StoreResults(w) \/ Crash(w)
<1>1. ASSUME NEW v \in Worker, v # w,
             \/ \E s \in Session, k \in Scope : Run(v, s, k) \/ Resume(v, s, k)
             \/ Serve(v)
             \/ Crash(v)
      PROVE  worker'[w] = worker[w]
  BY <1>1, OthersKeepLocals
<1>2. CASE worker' = worker
  BY <1>2
<1>3. ASSUME Serve(w)
      PROVE  RunCall(w) \/ StoreResults(w)
  BY <1>3 DEF Serve, ModelAnswers, ModelFails, StoreAnswer, CheckDecisions,
              RequestApprovals
<1>4. ~ \E s \in Session, k \in Scope : Run(w, s, k) \/ Resume(w, s, k)
  BY DEF Run, Resume
<1>5. QED
  BY <1>1, <1>2, <1>3, <1>4 DEF Next, Operator, vars

(* A call underway stays so, is answered, or its turn dies. *)
LEMMA UnderwayStep ==
  ASSUME TypeOK, [Next]_vars, OutcomesTrue, NEW s \in Session, NEW c, Underway(s, c),
         ~ \E w \in Worker : Crash(w)
  PROVE  Answered(s, c)' \/ Underway(s, c)'
<1>0. PICK w \in Worker : /\ worker[w].pc = "running" /\ worker[w].s = s
                          /\ \E j \in DOMAIN worker[w].outcomes : worker[w].calls[j] = c
  BY DEF Underway
<1>1. PICK j \in DOMAIN worker[w].outcomes : worker[w].calls[j] = c
  BY <1>0
<1>2. CASE worker'[w] = worker[w]
  BY <1>0, <1>1, <1>2 DEF Underway
<1>3. CASE RunCall(w)
  <2>1. worker'[w] = [worker[w] EXCEPT !.outcomes = Append(@, NextOutcome(worker[w]))]
    BY <1>3 DEF RunCall, NextOutcome, NextCall, TypeOK
  <2>2. /\ worker'[w].pc = "running" /\ worker'[w].s = s
        /\ worker'[w].calls = worker[w].calls
        /\ Len(worker'[w].outcomes) = Len(worker[w].outcomes) + 1
    BY <1>0, <1>1, <1>3, <2>1, RunLocals
  <2>3. worker[w].outcomes \in Seq(Outcome) /\ worker'[w].outcomes \in Seq(Outcome)
    BY NextType DEF TypeOK, Locals
  <2>4. j \in DOMAIN worker'[w].outcomes
    BY <1>0, <1>1, <2>2, <2>3
  <2>5. QED
    BY <1>0, <1>1, <2>2, <2>4 DEF Underway
<1>4. CASE StoreResults(w)
  <2>1. worker[w].calls \in Seq(Call) /\ worker[w].outcomes \in Seq(Outcome)
        /\ Len(worker[w].outcomes) = Len(worker[w].calls)
    BY <1>4 DEF StoreResults, TypeOK, Locals
  <2>2. c \in Said(worker[w])
    BY <1>0, <1>1, <2>1 DEF Said
  <2>3. QED
    BY <1>0, <1>1, <1>4, <2>2, AnsweredStep
<1>5. QED
  BY <1>0, <1>1, <1>2, <1>3, <1>4, RunningGoesOn

(* A call is executed when it was neither answered nor underway. *)
LEMMA RunIsFirst ==
  ASSUME DistinctBatches, disciplined, TypeOK, TurnInv, CallsDistinct, Orderly,
         NEW w \in Worker, RunCall(w)
  PROVE  /\ ~ Answered(worker[w].s, NextCall(worker[w]))
         /\ ~ Underway(worker[w].s, NextCall(worker[w]))
<1> DEFINE s == worker[w].s
           c == NextCall(worker[w])
           n == Len(worker[w].outcomes) + 1
<1>1. /\ worker[w] \in Locals /\ s \in Session /\ worker[w].pc = "running"
      /\ Len(worker[w].outcomes) < Len(worker[w].calls)
  BY DEF RunCall, TypeOK
<1>2. worker[w].calls \in Seq(Call) /\ worker[w].outcomes \in Seq(Outcome)
  BY <1>1 DEF Locals
<1>3. n \in DOMAIN worker[w].calls /\ worker[w].calls[n] = c
      /\ n \notin DOMAIN worker[w].outcomes
  BY <1>1, <1>2 DEF NextCall
<1>4. CanContinue(s) /\ LastTurn(s).calls = worker[w].calls
  BY <1>1, ResultsOfTheLast DEF Settling
<1>5. log[s] \in Seq(Message) /\ log[s] # <<>>
  BY <1>1, <1>4 DEF CanContinue, TypeOK
<1>6. Len(log[s]) \in DOMAIN log[s] /\ \A i \in DOMAIN log[s] : i \in Int /\ i <= Len(log[s])
  BY <1>5
<1>7. Len(log[s]) \in Turns(s, "assistant")
  BY <1>4, <1>6 DEF CanContinue, LastTurn, Turns
<1>8. c \in Said(log[s][Len(log[s])])
  BY <1>3, <1>4 DEF LastTurn, Said
<1> HIDE DEF s, c, n
<1>9. ASSUME NEW i \in Turns(s, "results"), c \in Said(log[s][i])
      PROVE  FALSE
  <2>1. i - 1 \in Turns(s, "assistant") /\ log[s][i - 1].calls = log[s][i].calls
    BY <1>1, <1>9 DEF Orderly, ResultsFollowTheirTurn
  <2>2. c \in Said(log[s][i - 1])
    BY <1>9, <2>1 DEF Said
  <2>3. i - 1 = Len(log[s])
    BY <1>1, <1>7, <1>8, <2>1, <2>2 DEF TurnInv, TurnsApart, Shares
  <2>4. i \in DOMAIN log[s]
    BY DEF Turns
  <2>5. QED
    BY <1>6, <2>3, <2>4
<1>10. ASSUME NEW v \in Worker, worker[v].pc = "running", worker[v].s = s,
              NEW j \in DOMAIN worker[v].outcomes, worker[v].calls[j] = c
       PROVE  FALSE
  <2>1. v = w
    BY <1>1, <1>10 DEF Orderly, OneCallPerSession, s
  <2>2. j \in DOMAIN worker[w].calls
    <3>1. j \in DOMAIN worker[w].outcomes
      BY <1>10, <2>1
    <3>2. QED
      BY <1>1, <1>2, <3>1
  <2>3. Distinct(worker[w].calls)
    BY DEF CallsDistinct
  <2>4. j = n
    BY <1>3, <1>10, <2>1, <2>2, <2>3 DEF Distinct
  <2>5. QED
    BY <1>3, <1>10, <2>1, <2>4
<1>11. ~ Answered(s, c) /\ ~ Underway(s, c)
  BY <1>9, <1>10 DEF Answered, Underway
<1>12. QED
  BY <1>11 DEF s, c

(* The call just executed is underway. *)
LEMMA RunIsUnderway ==
  ASSUME TypeOK, NEW w \in Worker, RunCall(w), NEW s \in Session, NEW c \in Call,
         worker[w].s = s, NextCall(worker[w]) = c
  PROVE  Underway(s, c)'
<1> DEFINE n == Len(worker[w].outcomes) + 1
<1>1. worker'[w] = [worker[w] EXCEPT !.outcomes = Append(@, NextOutcome(worker[w]))]
  BY DEF RunCall, NextOutcome, NextCall, TypeOK
<1>2. /\ worker'[w].pc = "running" /\ worker'[w].s = s
      /\ worker'[w].calls = worker[w].calls
      /\ Len(worker'[w].outcomes) = n
  BY <1>1, RunLocals
<1>3. n \in DOMAIN worker'[w].outcomes
  <2>1. worker[w].outcomes \in Seq(Outcome)
    BY DEF TypeOK, Locals
  <2>2. worker'[w].outcomes = Append(worker[w].outcomes, NextOutcome(worker[w]))
    BY <1>1 DEF TypeOK, Locals
  <2>3. QED
    BY <2>1, <2>2, AppendEntries
<1>4. worker'[w].calls[n] = c
  BY <1>2 DEF NextCall
<1>5. QED
  BY <1>2, <1>3, <1>4 DEF Underway

LEMMA RunsCountedStep ==
  ASSUME TypeOK, [Next]_vars, disciplined, TurnInv, CallsDistinct, Orderly, RunsCounted
  PROVE  RunsCounted'
<1> SUFFICES ASSUME DistinctBatches, NEW s \in Session, NEW c \in Call
             PROVE  ran'[s][c] <= crashes'
                      + (IF Answered(s, c)' \/ Underway(s, c)' THEN 1 ELSE 0)
  BY DEF RunsCounted, DistinctBatches, Distinct
<1>1. /\ ran[s][c] \in Nat /\ ran'[s][c] \in Nat
      /\ crashes \in Nat /\ crashes' \in Nat
  BY RanGrows, NextType, BoundAssumption DEF TypeOK
<1>2. ran[s][c] <= crashes + (IF Answered(s, c) \/ Underway(s, c) THEN 1 ELSE 0)
  BY DEF RunsCounted
<1>3. CASE \E w \in Worker : Crash(w)
  <2>1. crashes' = crashes + 1 /\ ran' = ran
    BY <1>3 DEF Crash
  <2>2. QED
    BY <1>1, <1>2, <2>1
<1>4. CASE ~ \E w \in Worker : Crash(w)
  <2>1. crashes' = crashes
    <3>1. ASSUME NEW w \in Worker, Serve(w)
          PROVE  crashes' = crashes
      BY <3>1 DEF Serve, ModelAnswers, ModelFails, StoreAnswer, CheckDecisions,
                  RequestApprovals, RunCall, StoreResults
    <3>2. QED
      BY <1>4, <3>1 DEF Next, Run, Resume, Operator, vars
  <2>2. CASE ran'[s][c] = ran[s][c]
    <3>1. Answered(s, c) \/ Underway(s, c) => Answered(s, c)' \/ Underway(s, c)'
      BY <1>4, AnsweredStep, UnderwayStep DEF TurnInv
    <3>2. QED
      BY <1>1, <1>2, <2>1, <2>2, <3>1
  <2>3. CASE ran'[s][c] # ran[s][c]
    <3>1. PICK w \in Worker : RunCall(w) /\ worker[w].s = s /\ NextCall(worker[w]) = c
      BY <2>3, RunnerStep
    <3>2. ran'[s][c] = ran[s][c] + 1
      BY <2>3, RunnerStep
    <3>3. ~ Answered(s, c) /\ ~ Underway(s, c)
      BY <3>1, RunIsFirst
    <3>4. Underway(s, c)'
      BY <3>1, RunIsUnderway
    <3>5. QED
      BY <1>1, <1>2, <2>1, <3>2, <3>3, <3>4
  <2>4. QED
    BY <2>2, <2>3
<1>5. QED
  BY <1>3, <1>4

LEMMA InitPauseInv == Init => PauseInv
<1> SUFFICES ASSUME Init PROVE PauseInv
  OBVIOUS
<1>1. \A s \in Session : Turns(s, "assistant") = {} /\ Turns(s, "results") = {}
  <2>1. <<>> \in Seq(Message) /\ Len(<<>>) = 0
    OBVIOUS
  <2>2. DOMAIN <<>> = {}
    BY <2>1
  <2>3. \A s \in Session : DOMAIN log[s] = {}
    BY <2>2 DEF Init
  <2>4. QED
    BY <2>3 DEF Turns
<1>2. \A w \in Worker : /\ worker[w].pc = "idle" /\ worker[w].s = None
                        /\ worker[w].calls = <<>>
  BY DEF Init, Idle
<1>3. /\ \A s \in Session, c \in Call : ran[s][c] = 0
      /\ \A s \in Session, c \in Call : approval[s][c] = "none"
      /\ crashes = 0
  BY DEF Init, StoreInit
<1>4. CallsDistinct
  BY <1>1, <1>2 DEF CallsDistinct, Distinct
<1>5. OneCallPerSession /\ SettlesTheLast /\ TalksWhenAnswered
  BY <1>2, NoneAssumption DEF OneCallPerSession, SettlesTheLast, Settling, TalksWhenAnswered
<1>6. ResultsFollowTheirTurn /\ PauseStaysResumable
  BY <1>1, <1>3 DEF ResultsFollowTheirTurn, PauseStaysResumable
<1>7. RunsCounted
  BY <1>3 DEF RunsCounted
<1>8. QED
  BY <1>4, <1>5, <1>6, <1>7 DEF PauseInv, Orderly

LEMMA NextPauseInv == TypeOK /\ TurnInv /\ PauseInv /\ [Next]_vars => PauseInv'
<1> SUFFICES ASSUME TypeOK, TurnInv, PauseInv, [Next]_vars PROVE PauseInv'
  OBVIOUS
<1>1. CallsDistinct'
  BY CallsDistinctStep DEF PauseInv
<1>2. ASSUME disciplined
      PROVE  Orderly' /\ RunsCounted'
  BY <1>2, OrderlyStep, RunsCountedStep DEF PauseInv
<1>3. QED
  BY <1>1, <1>2, DisciplineKept DEF PauseInv

(* No two result turns answer the same call: each follows its own turn.    *)
LEMMA OrderlyAnswersOnce ==
  ASSUME TypeOK, TurnInv, PauseInv
  PROVE  AnsweredOnce
<1> SUFFICES ASSUME disciplined, NEW s \in Session,
                    NEW i \in Turns(s, "results"), NEW j \in Turns(s, "results"),
                    NEW c, c \in Said(log[s][i]), c \in Said(log[s][j])
             PROVE  i = j
  BY DEF AnsweredOnce
<1>1. /\ i - 1 \in Turns(s, "assistant") /\ log[s][i - 1].calls = log[s][i].calls
      /\ j - 1 \in Turns(s, "assistant") /\ log[s][j - 1].calls = log[s][j].calls
  BY DEF PauseInv, Orderly, ResultsFollowTheirTurn
<1>2. c \in Said(log[s][i - 1]) /\ c \in Said(log[s][j - 1])
  BY <1>1 DEF Said
<1>3. i - 1 = j - 1
  BY <1>1, <1>2 DEF TurnInv, TurnsApart, Shares
<1>4. i \in Int /\ j \in Int
  BY DEF Turns, TypeOK
<1>5. QED
  BY <1>3, <1>4

LEMMA CountedRunsOnce ==
  ASSUME DistinctBatches, TypeOK, PauseInv
  PROVE  OnceUnlessInterrupted
<1> SUFFICES ASSUME disciplined, NEW s \in Session, NEW c \in Call
             PROVE  ran[s][c] <= 1 + crashes
  BY DEF OnceUnlessInterrupted
<1>1. ran[s][c] \in Nat /\ crashes \in Nat
  BY BoundAssumption DEF TypeOK
<1>2. ran[s][c] <= crashes + (IF Answered(s, c) \/ Underway(s, c) THEN 1 ELSE 0)
  BY DEF PauseInv, RunsCounted
<1>3. QED
  BY <1>1, <1>2

LEMMA PausesInductive == Spec => [](TypeOK /\ TurnInv /\ PauseInv)
BY TurnsInductive, InitPauseInv, NextPauseInv, PTL DEF Spec

(* With one call into the agent per session and nobody talking over a       *)
(* pause, a paused turn stays what `resume` finds, and no call of the       *)
(* conversation is answered twice (agent.ts run, resume; ADR 0004).         *)
THEOREM PausesStay == Spec => [](AnsweredOnce /\ PauseStaysResumable)
<1>1. PauseInv => PauseStaysResumable
  BY DEF PauseInv, Orderly, PauseStaysResumable
<1>2. TypeOK /\ TurnInv /\ PauseInv => AnsweredOnce /\ PauseStaysResumable
  BY <1>1, OrderlyAnswersOnce
<1>3. QED
  BY <1>2, PausesInductive, PTL

(* When, besides, no answer of the model names one call twice, a call is   *)
(* executed once, and once more at most for every call into the agent that *)
(* died: a pause is served once (agent.ts #runCall, resume).               *)
THEOREM ServedOnce ==
  ASSUME DistinctBatches
  PROVE  Spec => []PausesAreServedOnce
<1>1. TypeOK /\ PauseInv => OnceUnlessInterrupted
  BY CountedRunsOnce
<1>2. QED
  BY <1>1, PausesStay, PausesInductive, PTL DEF PausesAreServedOnce

-----------------------------------------------------------------------------
(***************************************************************************)
(* Part two: the spans of turns, and the process that stops under them.    *)
(***************************************************************************)

-----------------------------------------------------------------------------
(* Taking spans out of the front of the queue, and adding one at its end *)

Once(q) == \A i, j \in 1..Len(q) : q[i] = q[j] => i = j

LEMMA SetOf ==
  ASSUME NEW q \in Seq(Span), NEW s
  PROVE  s \in ToSet(q) <=> \E i \in 1..Len(q) : q[i] = s
BY DEF ToSet

LEMMA FirstIs ==
  ASSUME NEW q \in Seq(Span), NEW n \in Nat
  PROVE  /\ First(q, n) \in Seq(Span)
         /\ Len(First(q, n)) = (IF Len(q) < n THEN Len(q) ELSE n)
         /\ \A i \in 1..Len(First(q, n)) : First(q, n)[i] = q[i]
<1> DEFINE m == IF Len(q) < n THEN Len(q) ELSE n
<1>1. Len(q) \in Nat /\ m \in Nat /\ m <= Len(q)
  OBVIOUS
<1> HIDE DEF m
<1>2. \A i \in 1..m : q[i] \in Span
  BY <1>1
<1>3. /\ SubSeq(q, 1, m) \in Seq(Span) /\ Len(SubSeq(q, 1, m)) = m
      /\ \A i \in 1..m : SubSeq(q, 1, m)[i] = q[i]
  BY <1>1, <1>2, SubSeqProperties
<1>4. First(q, n) = SubSeq(q, 1, m)
  BY DEF First, m
<1>5. QED
  BY <1>3, <1>4 DEF m

LEMMA RestIs ==
  ASSUME NEW q \in Seq(Span), NEW n \in Nat
  PROVE  /\ Rest(q, n) \in Seq(Span)
         /\ Len(Rest(q, n)) = (IF n < Len(q) THEN Len(q) - n ELSE 0)
         /\ \A i \in 1..Len(Rest(q, n)) : i + n \in 1..Len(q) /\ Rest(q, n)[i] = q[i + n]
<1> DEFINE k == Len(q)
<1>1. k \in Nat
  OBVIOUS
<1>2. \A i \in (n + 1)..k : q[i] \in Span
  OBVIOUS
<1>3. /\ SubSeq(q, n + 1, k) \in Seq(Span)
      /\ Len(SubSeq(q, n + 1, k)) = (IF n + 1 <= k THEN k - (n + 1) + 1 ELSE 0)
      /\ \A i \in 1..(k - (n + 1) + 1) : SubSeq(q, n + 1, k)[i] = q[n + 1 + i - 1]
  <2>1. n + 1 \in Int /\ k \in Int
    BY <1>1
  <2> HIDE DEF k
  <2>2. QED
    BY <1>2, <2>1, SubSeqProperties
<1>4. Rest(q, n) = SubSeq(q, n + 1, k)
  BY DEF Rest
<1> HIDE DEF k
<1>5. Len(Rest(q, n)) = (IF n < k THEN k - n ELSE 0)
  BY <1>1, <1>3, <1>4
<1>6. ASSUME NEW i \in 1..Len(Rest(q, n))
      PROVE  i + n \in 1..k /\ Rest(q, n)[i] = q[i + n]
  <2>1. i \in 1..(k - (n + 1) + 1) /\ n + 1 + i - 1 = i + n /\ i + n \in 1..k
    BY <1>1, <1>5
  <2>2. QED
    BY <1>3, <1>4, <2>1
<1>7. QED
  BY <1>3, <1>4, <1>5, <1>6 DEF k

(* A queue is what is taken out and what is left, and with no span twice    *)
(* nothing is in both.                                                      *)
LEMMA Splits ==
  ASSUME NEW q \in Seq(Span), NEW n \in Nat, Once(q)
  PROVE  /\ First(q, n) \in Seq(Span) /\ Rest(q, n) \in Seq(Span) /\ Once(Rest(q, n))
         /\ \A s : s \in ToSet(q) <=> s \in ToSet(First(q, n)) \/ s \in ToSet(Rest(q, n))
         /\ \A s : ~ (s \in ToSet(First(q, n)) /\ s \in ToSet(Rest(q, n)))
<1> DEFINE a == First(q, n)
           b == Rest(q, n)
<1>1. /\ a \in Seq(Span) /\ Len(a) = (IF Len(q) < n THEN Len(q) ELSE n)
      /\ \A i \in 1..Len(a) : a[i] = q[i]
  BY FirstIs
<1>2. /\ b \in Seq(Span) /\ Len(b) = (IF n < Len(q) THEN Len(q) - n ELSE 0)
      /\ \A i \in 1..Len(b) : i + n \in 1..Len(q) /\ b[i] = q[i + n]
  BY RestIs
<1> HIDE DEF a, b
<1>3. Len(q) \in Nat
  OBVIOUS
<1>4. Once(b)
  <2>1. SUFFICES ASSUME NEW i \in 1..Len(b), NEW j \in 1..Len(b), b[i] = b[j] PROVE i = j
    BY DEF Once
  <2>2. i + n = j + n
    BY <1>2, <2>1 DEF Once
  <2>3. QED
    BY <1>2, <2>2
<1>5. ASSUME NEW s PROVE s \in ToSet(q) <=> s \in ToSet(a) \/ s \in ToSet(b)
  <2>1. ASSUME s \in ToSet(q) PROVE s \in ToSet(a) \/ s \in ToSet(b)
    <3>1. PICK i \in 1..Len(q) : q[i] = s
      BY <2>1, SetOf
    <3>2. CASE i <= n
      <4>1. i \in 1..Len(a) /\ a[i] = s
        BY <1>1, <1>3, <3>1, <3>2
      <4>2. QED
        BY <1>1, <4>1, SetOf
    <3>3. CASE ~ (i <= n)
      <4>1. i - n \in 1..Len(b)
        BY <1>2, <1>3, <3>3
      <4>2. (i - n) + n = i /\ b[i - n] = q[(i - n) + n]
        BY <1>2, <1>3, <4>1
      <4>3. b[i - n] = s
        BY <3>1, <4>2
      <4>4. QED
        BY <1>2, <4>1, <4>3, SetOf
    <3>4. QED
      BY <3>2, <3>3
  <2>2. ASSUME s \in ToSet(a) PROVE s \in ToSet(q)
    <3>1. PICK i \in 1..Len(a) : a[i] = s
      BY <1>1, <2>2, SetOf
    <3>2. i \in 1..Len(q) /\ q[i] = s
      BY <1>1, <1>3, <3>1
    <3>3. QED
      BY <3>2, SetOf
  <2>3. ASSUME s \in ToSet(b) PROVE s \in ToSet(q)
    <3>1. PICK i \in 1..Len(b) : b[i] = s
      BY <1>2, <2>3, SetOf
    <3>2. i + n \in 1..Len(q) /\ q[i + n] = s
      BY <1>2, <3>1
    <3>3. QED
      BY <3>2, SetOf
  <2>4. QED
    BY <2>1, <2>2, <2>3
<1>6. ASSUME NEW s, s \in ToSet(a), s \in ToSet(b) PROVE FALSE
  <2>1. PICK i \in 1..Len(a) : a[i] = s
    BY <1>1, <1>6, SetOf
  <2>2. PICK j \in 1..Len(b) : b[j] = s
    BY <1>2, <1>6, SetOf
  <2>3. i \in 1..Len(q) /\ i <= n /\ q[i] = s
    BY <1>1, <1>3, <2>1
  <2>4. j + n \in 1..Len(q) /\ q[j + n] = s /\ j > 0
    BY <1>2, <2>2
  <2>5. i = j + n
    BY <2>3, <2>4 DEF Once
  <2>6. QED
    BY <1>2, <2>3, <2>4, <2>5
<1>7. QED
  BY <1>1, <1>2, <1>4, <1>5, <1>6 DEF a, b

LEMMA Appends ==
  ASSUME NEW q \in Seq(Span), NEW s \in Span, Once(q), s \notin ToSet(q)
  PROVE  /\ Append(q, s) \in Seq(Span) /\ Len(Append(q, s)) = Len(q) + 1 /\ Once(Append(q, s))
         /\ \A u : u \in ToSet(Append(q, s)) <=> u \in ToSet(q) \/ u = s
<1> DEFINE a == Append(q, s)
<1>1. /\ a \in Seq(Span) /\ Len(a) = Len(q) + 1 /\ Len(q) \in Nat
      /\ \A i \in 1..Len(q) : a[i] = q[i]
      /\ a[Len(q) + 1] = s
  OBVIOUS
<1> HIDE DEF a
<1>2. \A i \in 1..Len(q) : q[i] # s
  BY SetOf
<1>3. Once(a)
  <2>1. SUFFICES ASSUME NEW i \in 1..Len(a), NEW j \in 1..Len(a), a[i] = a[j] PROVE i = j
    BY DEF Once
  <2>2. \A k \in 1..Len(a) : k \in 1..Len(q) \/ k = Len(q) + 1
    BY <1>1
  <2>3. CASE i \in 1..Len(q) /\ j \in 1..Len(q)
    BY <1>1, <2>1, <2>3 DEF Once
  <2>4. QED
    BY <1>1, <1>2, <2>1, <2>2, <2>3
<1>4. ASSUME NEW u PROVE u \in ToSet(a) <=> u \in ToSet(q) \/ u = s
  <2>1. u \in ToSet(a) <=> \E i \in 1..Len(a) : a[i] = u
    BY <1>1, SetOf
  <2>2. u \in ToSet(q) <=> \E i \in 1..Len(q) : q[i] = u
    BY SetOf
  <2>3. \A k : k \in 1..Len(a) <=> k \in 1..Len(q) \/ k = Len(q) + 1
    BY <1>1
  <2>4. QED
    BY <1>1, <2>1, <2>2, <2>3
<1>5. QED
  BY <1>1, <1>3, <1>4 DEF a

LEMMA Empties ==
  ASSUME NEW n \in Nat
  PROVE  /\ Rest(<<>>, n) = <<>> /\ First(<<>>, n) = <<>> /\ ToSet(<<>>) = {}
         /\ Once(<<>>) /\ <<>> \in Seq(Span) /\ Len(<<>>) = 0
<1>1. PICK e \in Seq(Span) : e = <<>> /\ Len(e) = 0
  BY EmptySeq, Zenon
<1>2. /\ Rest(e, n) \in Seq(Span) /\ Len(Rest(e, n)) = 0
      /\ First(e, n) \in Seq(Span) /\ Len(First(e, n)) = 0
  <2>1. /\ Rest(e, n) \in Seq(Span)
        /\ Len(Rest(e, n)) = (IF n < Len(e) THEN Len(e) - n ELSE 0)
    BY RestIs, Zenon
  <2>2. /\ First(e, n) \in Seq(Span)
        /\ Len(First(e, n)) = (IF Len(e) < n THEN Len(e) ELSE n)
    BY FirstIs, Zenon
  <2>3. Len(e) = 0
    BY <1>1
  <2>4. QED
    BY <2>1, <2>2, <2>3
<1>3. \A q \in Seq(Span) : Len(q) = 0 => q = <<>>
  OBVIOUS
<1>4. Rest(e, n) = e /\ First(e, n) = e
  BY <1>1, <1>2, <1>3
<1>5. ASSUME NEW s PROVE s \notin ToSet(e)
  <2>1. s \in ToSet(e) <=> \E i \in 1..Len(e) : e[i] = s
    BY SetOf
  <2>2. Len(e) = 0
    BY <1>1
  <2>3. QED
    BY <2>1, <2>2
<1>6. Once(e)
  BY <1>1 DEF Once
<1>7. ToSet(e) = {}
  BY <1>5
<1>8. QED
  BY <1>1, <1>4, <1>6, <1>7, Zenon

-----------------------------------------------------------------------------
(* The places a span can be: the queue, a batch of a background flush, the  *)
(* batch of close, delivered, reported, discarded.  It is in one of them.   *)

Within(s, q, F, b, d, p, x) ==
    \/ s \in ToSet(q) \/ (\E f \in F : s \in ToSet(f)) \/ s \in ToSet(b)
    \/ s \in d \/ s \in p \/ s \in x

Parts(q, F, b, d, p, x) ==
    /\ q \in Seq(Span) /\ Once(q) /\ b \in Seq(Span) /\ F \subseteq Seq(Span)
    /\ \A s :
         /\ s \in ToSet(q) => /\ s \notin ToSet(b) /\ (\A f \in F : s \notin ToSet(f))
                             /\ s \notin d /\ s \notin p /\ s \notin x
         /\ s \in ToSet(b) => /\ (\A f \in F : s \notin ToSet(f))
                             /\ s \notin d /\ s \notin p /\ s \notin x
         /\ \A f \in F : s \in ToSet(f) =>
              /\ \A g \in F : s \in ToSet(g) => g = f
              /\ s \notin d /\ s \notin p /\ s \notin x
         /\ s \in d => s \notin p /\ s \notin x
         /\ s \in p => s \notin x

(* A flush takes a batch out of the queue. *)
LEMMA Takes ==
  ASSUME NEW q, NEW F, NEW b, NEW d, NEW p, NEW x, Parts(q, F, b, d, p, x), NEW n \in Nat
  PROVE  /\ Parts(Rest(q, n), F \cup {First(q, n)}, b, d, p, x)
         /\ \A s : Within(s, Rest(q, n), F \cup {First(q, n)}, b, d, p, x) <=>
                   Within(s, q, F, b, d, p, x)
<1>1. /\ First(q, n) \in Seq(Span) /\ Rest(q, n) \in Seq(Span) /\ Once(Rest(q, n))
      /\ \A s : s \in ToSet(q) <=> s \in ToSet(First(q, n)) \/ s \in ToSet(Rest(q, n))
      /\ \A s : ~ (s \in ToSet(First(q, n)) /\ s \in ToSet(Rest(q, n)))
  BY Splits DEF Parts
<1> DEFINE a == First(q, n)
           r == Rest(q, n)
<1> HIDE DEF a, r
<1>2. /\ a \in Seq(Span) /\ r \in Seq(Span) /\ Once(r)
      /\ \A s : s \in ToSet(q) <=> s \in ToSet(a) \/ s \in ToSet(r)
      /\ \A s : ~ (s \in ToSet(a) /\ s \in ToSet(r))
  BY <1>1 DEF a, r
<1>3. Parts(r, F \cup {a}, b, d, p, x)
  BY <1>2 DEF Parts
<1>4. \A s : Within(s, r, F \cup {a}, b, d, p, x) <=> Within(s, q, F, b, d, p, x)
  BY <1>2 DEF Within
<1>5. QED
  BY <1>3, <1>4 DEF a, r

(* close takes a batch out of the queue. *)
LEMMA TakesToClose ==
  ASSUME NEW q, NEW F, NEW b, NEW d, NEW p, NEW x, Parts(q, F, b, d, p, x), NEW n \in Nat,
         ToSet(b) = {}
  PROVE  /\ Parts(Rest(q, n), F, First(q, n), d, p, x)
         /\ \A s : Within(s, Rest(q, n), F, First(q, n), d, p, x) <=>
                   Within(s, q, F, b, d, p, x)
<1>1. /\ First(q, n) \in Seq(Span) /\ Rest(q, n) \in Seq(Span) /\ Once(Rest(q, n))
      /\ \A s : s \in ToSet(q) <=> s \in ToSet(First(q, n)) \/ s \in ToSet(Rest(q, n))
      /\ \A s : ~ (s \in ToSet(First(q, n)) /\ s \in ToSet(Rest(q, n)))
  BY Splits DEF Parts
<1> DEFINE a == First(q, n)
           r == Rest(q, n)
<1> HIDE DEF a, r
<1>2. /\ a \in Seq(Span) /\ r \in Seq(Span) /\ Once(r)
      /\ \A s : s \in ToSet(q) <=> s \in ToSet(a) \/ s \in ToSet(r)
      /\ \A s : ~ (s \in ToSet(a) /\ s \in ToSet(r))
  BY <1>1 DEF a, r
<1>3. Parts(r, F, a, d, p, x)
  BY <1>2 DEF Parts
<1>4. \A s : Within(s, r, F, a, d, p, x) <=> Within(s, q, F, b, d, p, x)
  BY <1>2 DEF Within
<1>5. QED
  BY <1>3, <1>4 DEF a, r

(* What gives way is reported. *)
LEMMA Drops ==
  ASSUME NEW q, NEW F, NEW b, NEW d, NEW p, NEW x, Parts(q, F, b, d, p, x), NEW n \in Nat
  PROVE  /\ Parts(Rest(q, n), F, b, d, p \cup ToSet(First(q, n)), x)
         /\ \A s : Within(s, Rest(q, n), F, b, d, p \cup ToSet(First(q, n)), x) <=>
                   Within(s, q, F, b, d, p, x)
<1>1. /\ First(q, n) \in Seq(Span) /\ Rest(q, n) \in Seq(Span) /\ Once(Rest(q, n))
      /\ \A s : s \in ToSet(q) <=> s \in ToSet(First(q, n)) \/ s \in ToSet(Rest(q, n))
      /\ \A s : ~ (s \in ToSet(First(q, n)) /\ s \in ToSet(Rest(q, n)))
  BY Splits DEF Parts
<1> DEFINE a == ToSet(First(q, n))
           r == Rest(q, n)
<1> HIDE DEF a, r
<1>2. /\ r \in Seq(Span) /\ Once(r)
      /\ \A s : s \in ToSet(q) <=> s \in a \/ s \in ToSet(r)
      /\ \A s : ~ (s \in a /\ s \in ToSet(r))
  BY <1>1 DEF a, r
<1>3. Parts(r, F, b, d, p \cup a, x)
  BY <1>2 DEF Parts
<1>4. \A s : Within(s, r, F, b, d, p \cup a, x) <=> Within(s, q, F, b, d, p, x)
  BY <1>2 DEF Within
<1>5. QED
  BY <1>3, <1>4 DEF a, r

(* A new span joins the queue, or comes too late. *)
LEMMA Joins ==
  ASSUME NEW q, NEW F, NEW b, NEW d, NEW p, NEW x, Parts(q, F, b, d, p, x), NEW u \in Span,
         ~ Within(u, q, F, b, d, p, x)
  PROVE  /\ Parts(Append(q, u), F, b, d, p, x)
         /\ \A s : Within(s, Append(q, u), F, b, d, p, x) <=>
                   Within(s, q, F, b, d, p, x) \/ s = u
         /\ Parts(q, F, b, d, p, x \cup {u})
         /\ \A s : Within(s, q, F, b, d, p, x \cup {u}) <=>
                   Within(s, q, F, b, d, p, x) \/ s = u
<1> DEFINE a == Append(q, u)
<1>1. /\ a \in Seq(Span) /\ Once(a)
      /\ \A s : s \in ToSet(a) <=> s \in ToSet(q) \/ s = u
  BY Appends DEF Parts, Within
<1> HIDE DEF a
<1>2. Parts(a, F, b, d, p, x)
  BY <1>1 DEF Parts, Within
<1>3. \A s : Within(s, a, F, b, d, p, x) <=> Within(s, q, F, b, d, p, x) \/ s = u
  BY <1>1 DEF Within
<1>4. Parts(q, F, b, d, p, x \cup {u})
  BY DEF Parts, Within
<1>5. \A s : Within(s, q, F, b, d, p, x \cup {u}) <=> Within(s, q, F, b, d, p, x) \/ s = u
  BY DEF Within
<1>6. QED
  BY <1>2, <1>3, <1>4, <1>5 DEF a

(* A batch of a background flush is answered. *)
LEMMA Lands ==
  ASSUME NEW q, NEW F, NEW b, NEW d, NEW p, NEW x, Parts(q, F, b, d, p, x), NEW f \in F
  PROVE  /\ Parts(q, F \ {f}, b, d \cup ToSet(f), p, x)
         /\ \A s : Within(s, q, F \ {f}, b, d \cup ToSet(f), p, x) <=>
                   Within(s, q, F, b, d, p, x)
         /\ Parts(q, F \ {f}, b, d, p \cup ToSet(f), x)
         /\ \A s : Within(s, q, F \ {f}, b, d, p \cup ToSet(f), x) <=>
                   Within(s, q, F, b, d, p, x)
BY DEF Parts, Within

(* The batch of close is answered. *)
LEMMA LandsLast ==
  ASSUME NEW q, NEW F, NEW b, NEW d, NEW p, NEW x, Parts(q, F, b, d, p, x),
         NEW e \in Seq(Span), ToSet(e) = {}
  PROVE  /\ Parts(q, F, e, d \cup ToSet(b), p, x)
         /\ \A s : Within(s, q, F, e, d \cup ToSet(b), p, x) <=> Within(s, q, F, b, d, p, x)
         /\ Parts(q, F, e, d, p \cup ToSet(b), x)
         /\ \A s : Within(s, q, F, e, d, p \cup ToSet(b), x) <=> Within(s, q, F, b, d, p, x)
BY DEF Parts, Within

-----------------------------------------------------------------------------
(* The exporter's inductive invariant: there is one span for every step     *)
(* that was handed over, numbered by the table as long as the table does,   *)
(* and it is in one place.                                                  *)

Present(s) == Within(s, queue, flights, closing.batch, delivered, dropped, discarded)

Placed == Parts(queue, flights, closing.batch, delivered, dropped, discarded)

Told ==
    /\ \A s : Present(s) => /\ s \in Span /\ s.step <= stored[s.turn] + counts[s.turn]
                            /\ counts[s.turn] = 0 => s.sequence = s.step - 1
    /\ \A s, u : Present(s) /\ Present(u) /\ s.turn = u.turn /\ s.step = u.step => s = u
    /\ \A t \in Turn : \A n \in 1..(stored[t] + counts[t]) :
         \E s : Present(s) /\ s.turn = t /\ s.step = n
    /\ IsFiniteSet({s \in Span : Present(s)})

Tidy ==
    /\ closing.pc # "flushing" => closing.batch = <<>>
    /\ discarded # {} => closing.pc = "closed"
    /\ closing.pc = "closed" => queue = <<>>

ExportInv == ExportTypeOK /\ Placed /\ Told /\ Tidy

LEMMA Numbers ==
  ASSUME ExportTypeOK
  PROVE  /\ limits.batch \in Nat /\ limits.batch >= 1 /\ limits.queue \in Nat /\ limits.queue >= 1
         /\ Len(queue) \in Nat /\ Len(queue) <= limits.queue /\ queue \in Seq(Span)
         /\ \A t \in Turn : /\ steps[t] \in Nat /\ stored[t] \in Nat /\ counts[t] \in Nat
                             /\ steps[t] <= MaxSteps
         /\ MaxSteps \in Nat
<1>1. limits \in [batch : Nat \ {0}, queue : Nat \ {0}] /\ MaxSteps \in Nat
  BY LimitAssumption DEF ExportTypeOK
<1>2. /\ limits.batch \in Nat \ {0} /\ limits.queue \in Nat \ {0}
  BY <1>1
<1>3. /\ Len(queue) \in Nat /\ Len(queue) <= limits.queue /\ queue \in Seq(Span)
  BY DEF ExportTypeOK
<1>4. \A t \in Turn : /\ steps[t] \in Nat /\ stored[t] \in Nat /\ counts[t] \in Nat
                      /\ steps[t] <= MaxSteps
  BY <1>1 DEF ExportTypeOK
<1>5. QED
  BY <1>1, <1>2, <1>3, <1>4

(* The sizes of what is taken out and of what is left. *)
LEMMA Sizes ==
  ASSUME NEW q \in Seq(Span), NEW n \in Nat, n >= 1
  PROVE  /\ q # <<>> => Len(First(q, n)) \in 1..n
         /\ Len(Rest(q, n)) \in Nat /\ Len(Rest(q, n)) <= Len(q)
<1>1. Len(q) \in Nat /\ (q # <<>> => Len(q) # 0)
  BY EmptySeq
<1>2. Len(First(q, n)) = (IF Len(q) < n THEN Len(q) ELSE n)
  BY FirstIs
<1>3. Len(Rest(q, n)) = (IF n < Len(q) THEN Len(q) - n ELSE 0)
  BY RestIs
<1>4. QED
  BY <1>1, <1>2, <1>3

LEMMA ToldStays ==
  ASSUME Told, \A s : Present(s)' <=> Present(s), UNCHANGED <<stored, counts>>
  PROVE  Told'
<1>1. {s \in Span : Present(s)'} = {s \in Span : Present(s)}
  OBVIOUS
<1>2. IsFiniteSet({s \in Span : Present(s)'})
  BY <1>1 DEF Told
<1>3. /\ \A s : Present(s)' => /\ s \in Span /\ s.step <= stored'[s.turn] + counts'[s.turn]
                               /\ counts'[s.turn] = 0 => s.sequence = s.step - 1
      /\ \A s, u : Present(s)' /\ Present(u)' /\ s.turn = u.turn /\ s.step = u.step => s = u
      /\ \A t \in Turn : \A n \in 1..(stored'[t] + counts'[t]) :
           \E s : Present(s)' /\ s.turn = t /\ s.step = n
  BY DEF Told
<1>4. QED
  BY <1>2, <1>3, Zenon DEF Told

LEMMA ToldOneMore ==
  ASSUME ExportTypeOK, Told, NEW t \in Turn, NEW u \in Span, u.turn = t,
         u.step = stored[t] + counts[t] + 1, \A s : Present(s)' <=> Present(s) \/ s = u,
         \/ /\ stored' = [stored EXCEPT ![t] = @ + 1] /\ counts' = counts
            /\ u.sequence = stored[t]
         \/ counts' = [counts EXCEPT ![t] = @ + 1] /\ stored' = stored
  PROVE  Told'
<1>1. /\ \A v \in Turn : stored[v] \in Nat /\ counts[v] \in Nat
      /\ stored[t] + counts[t] \in Nat
  BY Numbers
<1>2. /\ \A v \in Turn : v # t => stored'[v] = stored[v] /\ counts'[v] = counts[v]
      /\ stored'[t] + counts'[t] = stored[t] + counts[t] + 1
      /\ counts'[t] = 0 => counts[t] = 0 /\ u.sequence = stored[t]
  BY <1>1 DEF ExportTypeOK
<1>3. \A s \in Span : s.turn \in Turn /\ s.step \in Nat
  BY LimitAssumption DEF Span
<1>4. ASSUME NEW s, Present(s)'
      PROVE  /\ s \in Span /\ s.step <= stored'[s.turn] + counts'[s.turn]
             /\ counts'[s.turn] = 0 => s.sequence = s.step - 1
  <2>1. CASE Present(s)
    <3>1. /\ s \in Span /\ s.step <= stored[s.turn] + counts[s.turn]
          /\ counts[s.turn] = 0 => s.sequence = s.step - 1
      BY <2>1 DEF Told
    <3>2. s.turn \in Turn /\ s.step \in Nat
      BY <1>3, <3>1
    <3>3. CASE s.turn = t
      BY <1>1, <1>2, <3>1, <3>2, <3>3
    <3>4. CASE s.turn # t
      BY <1>1, <1>2, <3>1, <3>2, <3>4
    <3>5. QED
      BY <3>3, <3>4
  <2>2. CASE s = u
    BY <1>1, <1>2, <2>2
  <2>3. QED
    BY <1>4, <2>1, <2>2
<1>5. ASSUME NEW s, NEW v, Present(s)', Present(v)', s.turn = v.turn, s.step = v.step PROVE s = v
  <2>1. \A y : Present(y) /\ y.turn = t => y.step # u.step
    <3>1. SUFFICES ASSUME NEW y, Present(y), y.turn = t PROVE y.step # u.step
      OBVIOUS
    <3>2. y \in Span /\ y.step <= stored[t] + counts[t]
      BY <3>1, Zenon DEF Told
    <3>3. y.step \in Nat
      BY <1>3, <3>2
    <3>4. QED
      BY <1>1, <3>2, <3>3
  <2>2. CASE Present(s) /\ Present(v)
    BY <1>5, <2>2, Zenon DEF Told
  <2>3. CASE s = u \/ v = u
    <3>1. s = u \/ Present(s)
      BY <1>5
    <3>2. v = u \/ Present(v)
      BY <1>5
    <3>3. QED
      BY <1>5, <2>1, <2>3, <3>1, <3>2, Zenon
  <2>4. QED
    BY <1>5, <2>2, <2>3
<1>6. ASSUME NEW v \in Turn, NEW n \in 1..(stored'[v] + counts'[v])
      PROVE  \E s : Present(s)' /\ s.turn = v /\ s.step = n
  <2>1. CASE n \in 1..(stored[v] + counts[v])
    <3>1. PICK s : Present(s) /\ s.turn = v /\ s.step = n
      BY <2>1, Zenon DEF Told
    <3>2. Present(s)'
      BY <3>1
    <3>3. QED
      BY <3>1, <3>2, Zenon
  <2>2. CASE n \notin 1..(stored[v] + counts[v])
    <3>1. v = t /\ n = u.step
      BY <1>1, <1>2, <2>2
    <3>2. Present(u)'
      OBVIOUS
    <3>3. QED
      BY <3>1, <3>2
  <2>3. QED
    BY <2>1, <2>2
<1>7. IsFiniteSet({s \in Span : Present(s)'})
  <2>1. {s \in Span : Present(s)'} = {s \in Span : Present(s)} \cup {u}
    OBVIOUS
  <2>2. IsFiniteSet({s \in Span : Present(s)})
    BY DEF Told
  <2>3. QED
    BY <2>1, <2>2, FS_AddElement
<1>8. QED
  BY <1>4, <1>5, <1>6, <1>7, Zenon DEF Told

-----------------------------------------------------------------------------
(* The exporter's steps *)

BatchesFit(F, most) == \A batch \in F : Len(batch) \in 1..most

LEMMA EnqueueKeeps ==
  ASSUME ExportInv, NEW u \in Span, ~ Present(u), Enqueue(u), UNCHANGED <<limits, closing, delivered>>
  PROVE  /\ Placed' /\ Tidy' /\ \A s : Present(s)' <=> Present(s) \/ s = u
         /\ Len(queue') <= limits.queue /\ BatchesFit(flights', limits.batch)
<1>1. /\ Placed /\ Tidy /\ BatchesFit(flights, limits.batch)
      /\ queue \in Seq(Span) /\ Len(queue) \in Nat /\ Len(queue) <= limits.queue
      /\ limits.batch \in Nat /\ limits.batch >= 1 /\ limits.queue \in Nat /\ limits.queue >= 1
  BY Numbers DEF ExportInv, ExportTypeOK, BatchesFit
<1>2. /\ Parts(queue, flights, closing.batch, delivered, dropped, discarded)
      /\ ~ Within(u, queue, flights, closing.batch, delivered, dropped, discarded)
  BY <1>1 DEF Placed, Present
<1>3. CASE closing.pc = "closed"
  <2>1. /\ discarded' = discarded \cup {u}
        /\ queue' = queue /\ flights' = flights /\ dropped' = dropped
        /\ delivered' = delivered /\ closing' = closing
    BY <1>3 DEF Enqueue
  <2>2. /\ Parts(queue, flights, closing.batch, delivered, dropped, discarded \cup {u})
        /\ \A s : Within(s, queue, flights, closing.batch, delivered, dropped, discarded \cup {u})
             <=> Within(s, queue, flights, closing.batch, delivered, dropped, discarded) \/ s = u
    BY <1>2, Joins, Zenon
  <2>3. Placed' /\ \A s : Present(s)' <=> Present(s) \/ s = u
    BY <2>1, <2>2 DEF Placed, Present
  <2>4. Tidy'
    BY <1>1, <1>3, <2>1 DEF Tidy
  <2>5. QED
    BY <1>1, <2>1, <2>3, <2>4
<1>4. CASE closing.pc # "closed"
  <2> DEFINE q1 == Append(queue, u)
             over == IF Len(q1) > limits.queue THEN Len(q1) - limits.queue ELSE 0
             q2 == Rest(q1, over)
             p2 == dropped \cup ToSet(First(q1, over))
  <2>1. /\ dropped' = p2 /\ discarded' = discarded
        /\ \/ /\ Len(q2) >= limits.batch
              /\ flights' = flights \cup {First(q2, limits.batch)}
              /\ queue' = Rest(q2, limits.batch)
           \/ queue' = q2 /\ flights' = flights
        /\ delivered' = delivered /\ closing' = closing
    BY <1>4 DEF Enqueue, Kept
  <2>2. Once(queue) /\ u \notin ToSet(queue)
    BY <1>2 DEF Parts, Within
  <2>3. q1 \in Seq(Span) /\ Len(q1) = Len(queue) + 1
    BY <1>1, <2>2, Appends
  <2>4. /\ Parts(q1, flights, closing.batch, delivered, dropped, discarded)
        /\ \A s : Within(s, q1, flights, closing.batch, delivered, dropped, discarded) <=>
                  Within(s, queue, flights, closing.batch, delivered, dropped, discarded) \/ s = u
    BY <1>2, Joins, Zenon
  <2> HIDE DEF q1
  <2>5. over \in Nat /\ Len(q1) - over <= limits.queue /\ over <= Len(q1)
    BY <1>1, <2>3
  <2> HIDE DEF over
  <2>6. /\ Parts(q2, flights, closing.batch, delivered, p2, discarded)
        /\ \A s : Within(s, q2, flights, closing.batch, delivered, p2, discarded) <=>
                  Within(s, q1, flights, closing.batch, delivered, dropped, discarded)
    BY <2>4, <2>5, Drops, Zenon
  <2>7. q2 \in Seq(Span) /\ Len(q2) \in Nat /\ Len(q2) <= limits.queue
    BY <1>1, <2>3, <2>5, RestIs
  <2> HIDE DEF q2, p2
  <2>8. CASE queue' = q2 /\ flights' = flights
    <3>1. Placed' /\ \A s : Present(s)' <=> Present(s) \/ s = u
      BY <2>1, <2>4, <2>6, <2>8 DEF Placed, Present
    <3>2. Tidy'
      BY <1>1, <1>4, <2>1 DEF Tidy
    <3>3. QED
      BY <1>1, <2>7, <2>8, <3>1, <3>2
  <2>9. CASE /\ Len(q2) >= limits.batch
             /\ flights' = flights \cup {First(q2, limits.batch)}
             /\ queue' = Rest(q2, limits.batch)
    <3>1. /\ Parts(Rest(q2, limits.batch), flights \cup {First(q2, limits.batch)},
                   closing.batch, delivered, p2, discarded)
          /\ \A s : Within(s, Rest(q2, limits.batch), flights \cup {First(q2, limits.batch)},
                           closing.batch, delivered, p2, discarded) <=>
                    Within(s, q2, flights, closing.batch, delivered, p2, discarded)
      BY <1>1, <2>6, Takes, Zenon
    <3>2. Placed' /\ \A s : Present(s)' <=> Present(s) \/ s = u
      BY <2>1, <2>4, <2>6, <2>9, <3>1 DEF Placed, Present
    <3>3. Tidy'
      BY <1>1, <1>4, <2>1 DEF Tidy
    <3>4. Len(q2) # 0 /\ q2 # <<>>
      BY <1>1, <2>7, <2>9, EmptySeq
    <3>5. Len(First(q2, limits.batch)) \in 1..limits.batch /\ Len(Rest(q2, limits.batch)) <= Len(q2)
          /\ Len(Rest(q2, limits.batch)) \in Nat
      BY <1>1, <2>7, <3>4, Sizes
    <3>6. Len(queue') <= limits.queue /\ BatchesFit(flights', limits.batch)
      BY <1>1, <2>7, <2>9, <3>5 DEF BatchesFit
    <3>7. QED
      BY <3>2, <3>3, <3>6
  <2>10. QED
    BY <2>1, <2>8, <2>9
<1>5. QED
  BY <1>3, <1>4

(* What the export types amount to once every span is placed. *)
LEMMA TypesFollow ==
  ASSUME ExportTypeOK, Placed', Told', Len(queue') <= limits.queue,
         BatchesFit(flights', limits.batch), limits' = limits,
         steps' \in [Turn -> 0..MaxSteps], stored' \in [Turn -> 0..MaxSteps],
         counts' \in [Turn -> 0..MaxSteps], faults' \in 0..MaxFaults, timer' \in BOOLEAN,
         closing'.pc \in {"open", "flushing", "closed"}
  PROVE  ExportTypeOK'
<1>1. /\ queue' \in Seq(Span) /\ closing'.batch \in Seq(Span) /\ flights' \subseteq Seq(Span)
  BY DEF Placed, Parts
<1>2. delivered' \cup dropped' \cup discarded' \subseteq Span
  <2>1. \A s : s \in delivered' \/ s \in dropped' \/ s \in discarded' => Present(s)'
    BY DEF Present, Within
  <2>2. \A s : Present(s)' => s \in Span
    BY Zenon DEF Told
  <2>3. QED
    BY <2>1, <2>2
<1>3. QED
  BY <1>1, <1>2 DEF ExportTypeOK, BatchesFit

(* Handing a step over, numbered by the table or by the exporter. *)
LEMMA HandOver ==
  ASSUME ExportInv, NEW t \in Turn, steps[t] = stored[t] + counts[t] + 1,
         StepStored(t) \/ StepRefused(t), faults' \in 0..MaxFaults
  PROVE  /\ ExportInv' /\ steps' = steps /\ closing' = closing /\ limits' = limits
         /\ stored'[t] + counts'[t] = steps[t]
         /\ \A v \in Turn : v # t => stored'[v] = stored[v] /\ counts'[v] = counts[v]
<1>1. /\ \A v \in Turn : /\ stored[v] \in Nat /\ counts[v] \in Nat /\ steps[v] \in Nat
                         /\ steps[v] <= MaxSteps
      /\ MaxSteps \in Nat /\ limits.batch \in Nat /\ limits.queue \in Nat
  BY Numbers DEF ExportInv
<1>2. PICK n \in 0..MaxSteps :
        /\ n = stored[t] \/ n = counts[t]
        /\ Enqueue([turn |-> t, step |-> steps[t], sequence |-> n])
        /\ UNCHANGED <<limits, steps, closing, delivered>>
        /\ \/ /\ stored' = [stored EXCEPT ![t] = @ + 1] /\ counts' = counts /\ n = stored[t]
           \/ counts' = [counts EXCEPT ![t] = @ + 1] /\ stored' = stored
  <2>1. CASE StepStored(t)
    BY <2>1 DEF StepStored, ExportInv, ExportTypeOK
  <2>2. CASE StepRefused(t)
    BY <2>2 DEF StepRefused, ExportInv, ExportTypeOK
  <2>3. QED
    BY <2>1, <2>2
<1> DEFINE u == [turn |-> t, step |-> steps[t], sequence |-> n]
<1>3. u \in Span /\ u.turn = t /\ u.step = stored[t] + counts[t] + 1 /\ u.sequence = n
  BY <1>1 DEF Span
<1>4. PICK span \in Span : span = u
  BY <1>3
<1> HIDE DEF u
<1>5. /\ span.turn = t /\ span.step = stored[t] + counts[t] + 1 /\ span.sequence = n
      /\ Enqueue(span)
  BY <1>2, <1>3, <1>4 DEF u
<1>6. ~ Present(span)
  <2>1. SUFFICES ASSUME Present(span) PROVE FALSE
    OBVIOUS
  <2>2. span.step <= stored[span.turn] + counts[span.turn]
    BY <2>1 DEF ExportInv, Told
  <2>3. QED
    BY <1>1, <1>5, <2>2
<1>7. /\ Placed' /\ Tidy' /\ (\A s : Present(s)' <=> Present(s) \/ s = span)
      /\ Len(queue') <= limits.queue /\ BatchesFit(flights', limits.batch)
  BY <1>2, <1>5, <1>6, EnqueueKeeps
<1>8. Told'
  BY <1>2, <1>5, <1>7, ToldOneMore DEF ExportInv
<1>9. /\ stored' \in [Turn -> 0..MaxSteps] /\ counts' \in [Turn -> 0..MaxSteps]
      /\ stored'[t] + counts'[t] = steps[t]
      /\ \A v \in Turn : v # t => stored'[v] = stored[v] /\ counts'[v] = counts[v]
  <2>1. stored[t] + 1 \in 0..MaxSteps /\ counts[t] + 1 \in 0..MaxSteps
    BY <1>1
  <2>2. stored \in [Turn -> 0..MaxSteps] /\ counts \in [Turn -> 0..MaxSteps]
    BY DEF ExportInv, ExportTypeOK
  <2>3. QED
    BY <1>1, <1>2, <2>1, <2>2
<1>10. timer' \in BOOLEAN /\ closing'.pc \in {"open", "flushing", "closed"}
       /\ steps' \in [Turn -> 0..MaxSteps]
  BY <1>2, <1>5 DEF Enqueue, ExportInv, ExportTypeOK
<1>11. ExportTypeOK'
  BY <1>2, <1>7, <1>8, <1>9, <1>10, TypesFollow DEF ExportInv
<1>12. QED
  BY <1>2, <1>7, <1>8, <1>9, <1>11 DEF ExportInv

(* Nothing moves: a step begins. *)
LEMMA StartStepKeeps ==
  ASSUME ExportInv, NEW t \in Turn, StartStep(t)
  PROVE  ExportInv'
<1>1. steps' \in [Turn -> 0..MaxSteps]
  <2>1. steps[t] + 1 \in 0..MaxSteps
    BY Numbers DEF ExportInv, StartStep
  <2>2. QED
    BY <2>1 DEF StartStep, ExportInv, ExportTypeOK
<1>2. UNCHANGED <<limits, stored, counts, faults, queue, timer, flights, closing,
                  delivered, dropped, discarded>>
  BY DEF StartStep
<1>3. ExportTypeOK' /\ Placed' /\ Tidy'
  BY <1>1, <1>2 DEF ExportInv, ExportTypeOK, Placed, Tidy
<1>4. Told'
  <2>1. \A s : Present(s)' <=> Present(s)
    BY <1>2 DEF Present
  <2>2. QED
    BY <1>2, <2>1, ToldStays DEF ExportInv
<1>5. QED
  BY <1>3, <1>4 DEF ExportInv

(* Spans move from one place to another. *)
LEMMA MovesKeep ==
  ASSUME ExportInv, Placed', \A s : Present(s)' <=> Present(s), Tidy',
         Len(queue') <= limits.queue, BatchesFit(flights', limits.batch),
         UNCHANGED <<limits, steps, stored, counts, faults>>, timer' \in BOOLEAN,
         closing'.pc \in {"open", "flushing", "closed"}
  PROVE  ExportInv'
<1>1. Told'
  BY ToldStays DEF ExportInv
<1>2. ExportTypeOK'
  <2>1. /\ limits' = limits /\ steps' \in [Turn -> 0..MaxSteps]
        /\ stored' \in [Turn -> 0..MaxSteps] /\ counts' \in [Turn -> 0..MaxSteps]
        /\ faults' \in 0..MaxFaults
    BY DEF ExportInv, ExportTypeOK
  <2>2. QED
    BY <1>1, <2>1, TypesFollow DEF ExportInv
<1>3. QED
  BY <1>1, <1>2 DEF ExportInv

(* A batch a flush takes out of the queue, and the queue it leaves. *)
LEMMA TakesFits ==
  ASSUME ExportInv
  PROVE  /\ queue \in Seq(Span) /\ limits.batch \in Nat /\ limits.queue \in Nat
         /\ BatchesFit(flights, limits.batch) /\ Len(queue) <= limits.queue
         /\ Len(Rest(queue, limits.batch)) <= limits.queue
         /\ queue # <<>> => Len(First(queue, limits.batch)) \in 1..limits.batch
         /\ queue = <<>> => /\ Rest(queue, limits.batch) = <<>> /\ First(queue, limits.batch) = <<>>
         /\ ToSet(<<>>) = {} /\ <<>> \in Seq(Span)
<1>1. /\ queue \in Seq(Span) /\ Len(queue) \in Nat /\ Len(queue) <= limits.queue
      /\ limits.batch \in Nat /\ limits.batch >= 1 /\ limits.queue \in Nat
  BY Numbers DEF ExportInv
<1>2. /\ Len(Rest(queue, limits.batch)) \in Nat /\ Len(Rest(queue, limits.batch)) <= Len(queue)
      /\ queue # <<>> => Len(First(queue, limits.batch)) \in 1..limits.batch
  BY <1>1, Sizes
<1>3. Len(Rest(queue, limits.batch)) <= limits.queue
  BY <1>1, <1>2
<1>4. /\ Rest(<<>>, limits.batch) = <<>> /\ First(<<>>, limits.batch) = <<>>
      /\ ToSet(<<>>) = {} /\ <<>> \in Seq(Span)
  BY <1>1, Empties, Zenon
<1>5. BatchesFit(flights, limits.batch)
  BY DEF ExportInv, ExportTypeOK, BatchesFit
<1>6. QED
  BY <1>1, <1>2, <1>3, <1>4, <1>5, Zenon

LEMMA TimerFiresKeeps ==
  ASSUME ExportInv, TimerFires
  PROVE  ExportInv' /\ steps' = steps /\ stored' = stored /\ counts' = counts /\ closing' = closing
         /\ discarded' = discarded
<1>1. UNCHANGED <<limits, steps, stored, counts, faults, closing, delivered, dropped, discarded>>
      /\ timer' = FALSE
  BY DEF TimerFires
<1>2. /\ Placed /\ Tidy /\ closing.pc \in {"open", "flushing", "closed"}
  BY DEF ExportInv, ExportTypeOK
<1>3. Parts(queue, flights, closing.batch, delivered, dropped, discarded)
  BY <1>2 DEF Placed
<1>4. CASE queue = <<>>
  <2>1. queue' = queue /\ flights' = flights
    BY <1>4 DEF TimerFires
  <2>2. Placed' /\ Tidy' /\ \A s : Present(s)' <=> Present(s)
    BY <1>1, <1>2, <2>1 DEF Placed, Present, Tidy
  <2>3. QED
    BY <1>1, <1>2, <2>1, <2>2, TakesFits, MovesKeep
<1>5. CASE queue # <<>>
  <2>1. /\ flights' = flights \cup {First(queue, limits.batch)}
        /\ queue' = Rest(queue, limits.batch)
    BY <1>5 DEF TimerFires
  <2>2. /\ Parts(Rest(queue, limits.batch), flights \cup {First(queue, limits.batch)},
                 closing.batch, delivered, dropped, discarded)
        /\ \A s : Within(s, Rest(queue, limits.batch), flights \cup {First(queue, limits.batch)},
                         closing.batch, delivered, dropped, discarded) <=>
                  Within(s, queue, flights, closing.batch, delivered, dropped, discarded)
    BY <1>3, TakesFits, Takes, Zenon
  <2>3. Placed' /\ \A s : Present(s)' <=> Present(s)
    BY <1>1, <2>1, <2>2 DEF Placed, Present
  <2>4. Tidy'
    BY <1>1, <1>2, <1>5 DEF Tidy
  <2>5. Len(queue') <= limits.queue /\ BatchesFit(flights', limits.batch)
    BY <1>5, <2>1, TakesFits DEF BatchesFit
  <2>6. QED
    BY <1>1, <1>2, <2>3, <2>4, <2>5, MovesKeep
<1>6. QED
  BY <1>4, <1>5

LEMMA FlightEndsKeeps ==
  ASSUME ExportInv, NEW batch \in flights, NEW taken \in BOOLEAN, FlightEnds(batch, taken)
  PROVE  ExportInv' /\ steps' = steps /\ stored' = stored /\ counts' = counts /\ closing' = closing
         /\ discarded' = discarded
<1> DEFINE F == flights \ {batch}
           n == limits.batch
<1>1. /\ UNCHANGED <<limits, steps, stored, counts, faults, timer, closing, discarded>>
      /\ flights' = F \cup (IF queue = <<>> THEN {} ELSE {First(queue, n)})
      /\ queue' = Rest(queue, n)
      /\ \/ delivered' = delivered \cup ToSet(batch) /\ dropped' = dropped
         \/ delivered' = delivered /\ dropped' = dropped \cup ToSet(batch)
  BY DEF FlightEnds, Sent
<1>2. /\ Placed /\ Tidy /\ closing.pc \in {"open", "flushing", "closed"} /\ timer \in BOOLEAN
  BY DEF ExportInv, ExportTypeOK
<1>3. Parts(queue, flights, closing.batch, delivered, dropped, discarded)
  BY <1>2 DEF Placed
<1>4. /\ Parts(queue, F, closing.batch, delivered', dropped', discarded)
      /\ \A s : Within(s, queue, F, closing.batch, delivered', dropped', discarded) <=>
                Within(s, queue, flights, closing.batch, delivered, dropped, discarded)
  <2>1. CASE delivered' = delivered \cup ToSet(batch) /\ dropped' = dropped
    BY <1>3, <2>1, Lands
  <2>2. CASE delivered' = delivered /\ dropped' = dropped \cup ToSet(batch)
    BY <1>3, <2>2, Lands
  <2>3. QED
    BY <1>1, <2>1, <2>2
<1>5. BatchesFit(F, n)
  BY TakesFits DEF BatchesFit
<1> HIDE DEF F
<1>6. CASE queue = <<>>
  <2>1. queue' = queue /\ flights' = F
    BY <1>1, <1>6, TakesFits
  <2>2. Placed' /\ \A s : Present(s)' <=> Present(s)
    BY <1>1, <1>4, <2>1 DEF Placed, Present
  <2>3. Tidy'
    BY <1>1, <1>2, <2>1 DEF Tidy
  <2>4. QED
    BY <1>1, <1>2, <1>5, <2>1, <2>2, <2>3, TakesFits, MovesKeep
<1>7. CASE queue # <<>>
  <2>1. /\ Parts(Rest(queue, n), F \cup {First(queue, n)},
                 closing.batch, delivered', dropped', discarded)
        /\ \A s : Within(s, Rest(queue, n), F \cup {First(queue, n)},
                         closing.batch, delivered', dropped', discarded) <=>
                  Within(s, queue, F, closing.batch, delivered', dropped', discarded)
    BY <1>4, TakesFits, Takes, Zenon
  <2>2. Placed' /\ \A s : Present(s)' <=> Present(s)
    BY <1>1, <1>4, <1>7, <2>1 DEF Placed, Present
  <2>3. Tidy'
    BY <1>1, <1>2, <1>7 DEF Tidy
  <2>4. Len(queue') <= limits.queue /\ BatchesFit(flights', n)
    BY <1>1, <1>5, <1>7, TakesFits DEF BatchesFit
  <2>5. QED
    BY <1>1, <1>2, <2>2, <2>3, <2>4, MovesKeep
<1>8. QED
  BY <1>6, <1>7

(* close, its first step and the later ones: what it awaited is answered,   *)
(* the next batch goes out, and an empty queue closes the exporter.         *)
LEMMA ClosingKeeps ==
  ASSUME ExportInv, Close \/ \E taken \in BOOLEAN : CloseGoesOn(taken)
  PROVE  ExportInv' /\ steps' = steps /\ stored' = stored /\ counts' = counts
         /\ discarded' = discarded /\ closing.pc # "closed" /\ closing'.pc # "open"
<1> DEFINE n == limits.batch
<1>1. /\ UNCHANGED <<limits, steps, stored, counts, faults, flights, discarded>>
      /\ queue' = Rest(queue, n) /\ timer' \in BOOLEAN /\ closing.pc # "closed"
      /\ closing' = IF queue = <<>> THEN [pc |-> "closed", batch |-> <<>>]
                    ELSE [pc |-> "flushing", batch |-> First(queue, n)]
  BY DEF Close, CloseGoesOn, ExportInv, ExportTypeOK
<1>2. /\ Placed /\ Tidy
  BY DEF ExportInv
<1>3. Parts(queue, flights, closing.batch, delivered, dropped, discarded)
  BY <1>2 DEF Placed
<1>4. PICK e \in Seq(Span) : e = <<>> /\ ToSet(e) = {}
  BY TakesFits, Zenon
<1>5. /\ Parts(queue, flights, e, delivered', dropped', discarded)
      /\ \A s : Within(s, queue, flights, e, delivered', dropped', discarded) <=>
                Within(s, queue, flights, closing.batch, delivered, dropped, discarded)
  <2>1. CASE Close
    BY <1>2, <1>3, <1>4, <2>1 DEF Close, Tidy
  <2>2. CASE \E taken \in BOOLEAN : CloseGoesOn(taken)
    <3>1. \/ delivered' = delivered \cup ToSet(closing.batch) /\ dropped' = dropped
          \/ delivered' = delivered /\ dropped' = dropped \cup ToSet(closing.batch)
      BY <2>2 DEF CloseGoesOn, Sent
    <3>2. CASE delivered' = delivered \cup ToSet(closing.batch) /\ dropped' = dropped
      BY <1>3, <1>4, <3>2, LandsLast
    <3>3. CASE delivered' = delivered /\ dropped' = dropped \cup ToSet(closing.batch)
      BY <1>3, <1>4, <3>3, LandsLast
    <3>4. QED
      BY <3>1, <3>2, <3>3
  <2>3. QED
    BY <2>1, <2>2
<1>6. /\ Parts(Rest(queue, n), flights, First(queue, n), delivered', dropped', discarded)
      /\ \A s : Within(s, Rest(queue, n), flights, First(queue, n), delivered', dropped', discarded)
                <=> Within(s, queue, flights, e, delivered', dropped', discarded)
  BY <1>4, <1>5, TakesFits, TakesToClose, Zenon
<1>7. /\ closing'.batch = First(queue, n) /\ closing'.pc \in {"flushing", "closed"}
      /\ closing'.pc = "closed" => queue = <<>>
  BY <1>1, TakesFits
<1>8. Placed' /\ \A s : Present(s)' <=> Present(s)
  BY <1>1, <1>5, <1>6, <1>7 DEF Placed, Present
<1>9. Tidy'
  BY <1>1, <1>2, <1>7, TakesFits DEF Tidy
<1>10. Len(queue') <= limits.queue /\ BatchesFit(flights', n)
  BY <1>1, TakesFits DEF BatchesFit
<1>11. QED
  BY <1>1, <1>7, <1>8, <1>9, <1>10, MovesKeep

-----------------------------------------------------------------------------
(* The inductive invariant of the process: what is closed is closed after   *)
(* the drain, and whoever still runs then was given up on.                  *)

StepsCounted ==
    \A t \in Turn : steps[t] = stored[t] + counts[t] + (IF turn[t] = "recording" THEN 1 ELSE 0)

Stops ==
    /\ handler # "none" => ~ accepting
    /\ handler \in {"closing", "ending", "over"} => InFlight \subseteq abandoned
    /\ closing.pc # "open" => handler \in {"closing", "ending", "over"}
    /\ ended => handler \in {"ending", "over"}
    /\ handler \in {"ending", "over"} => closing.pc = "closed"
    /\ abandoned # {} => timedOut
    /\ closing.pc = "closed" /\ ~ timedOut => discarded = {}
    /\ exitCode # "none" => handler = "over"
    /\ exitCode = "0" => ~ timedOut

ShutInv == ShutdownTypeOK /\ ExportInv /\ StepsCounted /\ Stops

LEMMA ExportStays ==
  ASSUME ExportInv, UNCHANGED exportVars
  PROVE  ExportInv'
<1>1. ExportTypeOK' /\ Placed' /\ Tidy'
  BY DEF exportVars, ExportInv, ExportTypeOK, Placed, Tidy
<1>2. \A s : Present(s)' <=> Present(s)
  BY DEF exportVars, Present
<1>3. Told'
  BY <1>2, ToldStays DEF exportVars, ExportInv
<1>4. QED
  BY <1>1, <1>3 DEF ExportInv

(* A turn begins, is refused, or ends. *)
LEMMA TurnKeeps ==
  ASSUME ShutInv, NEW t \in Turn, RunTurn(t) \/ TurnEnds(t)
  PROVE  ShutInv'
<1>1. PICK place \in {"refused", "working", "over"} :
        /\ turn' = [turn EXCEPT ![t] = place] /\ turn[t] # "recording"
        /\ place = "working" => accepting
        /\ UNCHANGED exportVars
        /\ UNCHANGED <<accepting, handler, timedOut, abandoned, ended, exitCode, health>>
  BY DEF RunTurn, TurnEnds
<1>2. ExportInv'
  BY <1>1, ExportStays DEF ShutInv
<1>3. ShutdownTypeOK'
  BY <1>1, <1>2 DEF ShutInv, ShutdownTypeOK, ExportInv
<1>4. StepsCounted'
  BY <1>1 DEF ShutInv, StepsCounted, exportVars, ShutdownTypeOK
<1>5. Stops'
  BY <1>1 DEF ShutInv, Stops, exportVars, ShutdownTypeOK, InFlight
<1>6. QED
  BY <1>2, <1>3, <1>4, <1>5 DEF ShutInv

LEMMA RecordStepKeeps ==
  ASSUME ShutInv, NEW t \in Turn, RecordStep(t)
  PROVE  ShutInv'
<1>1. /\ turn' = [turn EXCEPT ![t] = "recording"] /\ turn[t] = "working" /\ StartStep(t)
      /\ UNCHANGED <<accepting, handler, timedOut, abandoned, ended, exitCode, health>>
  BY DEF RecordStep
<1>2. ExportInv'
  BY <1>1, StartStepKeeps DEF ShutInv
<1>3. ShutdownTypeOK'
  BY <1>1, <1>2 DEF ShutInv, ShutdownTypeOK, ExportInv
<1>4. StepsCounted'
  <2>1. \A v \in Turn : /\ steps[v] \in Nat /\ stored[v] \in Nat /\ counts[v] \in Nat
                       /\ steps'[v] = IF v = t THEN steps[v] + 1 ELSE steps[v]
    BY <1>1, Numbers DEF StartStep, ShutInv, ExportInv, ExportTypeOK
  <2>2. stored' = stored /\ counts' = counts
    BY <1>1 DEF StartStep
  <2>3. \A v \in Turn : turn'[v] = IF v = t THEN "recording" ELSE turn[v]
    BY <1>1 DEF ShutInv, ShutdownTypeOK
  <2>4. QED
    BY <1>1, <2>1, <2>2, <2>3 DEF ShutInv, StepsCounted
<1>5. Stops'
  BY <1>1 DEF ShutInv, Stops, StartStep, ShutdownTypeOK, InFlight
<1>6. QED
  BY <1>2, <1>3, <1>4, <1>5 DEF ShutInv

LEMMA RecordedKeeps ==
  ASSUME ShutInv, NEW t \in Turn, Recorded(t)
  PROVE  ShutInv'
<1>1. /\ turn' = [turn EXCEPT ![t] = "working"] /\ turn[t] = "recording"
      /\ StepStored(t) \/ StepRefused(t)
      /\ UNCHANGED <<accepting, handler, timedOut, abandoned, ended, exitCode, health>>
  BY DEF Recorded
<1>2. faults' \in 0..MaxFaults
  <2>1. faults \in 0..MaxFaults /\ MaxFaults \in Nat
    BY LimitAssumption DEF ShutInv, ExportInv, ExportTypeOK
  <2>2. faults' = faults \/ (faults < MaxFaults /\ faults' = faults + 1)
    BY DEF Recorded, StepStored
  <2>3. QED
    BY <2>1, <2>2
<1>3. \A v \in Turn : stored[v] \in Nat /\ counts[v] \in Nat /\ steps[v] \in Nat
  BY Numbers DEF ShutInv, ExportInv
<1>4. steps[t] = stored[t] + counts[t] + 1
  BY <1>1 DEF ShutInv, StepsCounted
<1>5. /\ ExportInv' /\ steps' = steps /\ closing' = closing /\ limits' = limits
      /\ stored'[t] + counts'[t] = steps[t]
      /\ \A v \in Turn : v # t => stored'[v] = stored[v] /\ counts'[v] = counts[v]
  BY <1>1, <1>2, <1>4, HandOver DEF ShutInv
<1>6. ShutdownTypeOK'
  BY <1>1, <1>5 DEF ShutInv, ShutdownTypeOK, ExportInv
<1>7. \A v \in Turn : turn'[v] = IF v = t THEN "working" ELSE turn[v]
  BY <1>1 DEF ShutInv, ShutdownTypeOK
<1>8. StepsCounted'
  <2>1. ASSUME NEW v \in Turn
        PROVE  steps'[v] = stored'[v] + counts'[v] + (IF turn'[v] = "recording" THEN 1 ELSE 0)
    <3>1. CASE v = t
      BY <1>3, <1>5, <1>7, <3>1
    <3>2. CASE v # t
      BY <1>5, <1>7, <3>2 DEF ShutInv, StepsCounted
    <3>3. QED
      BY <3>1, <3>2
  <2>2. QED
    BY <2>1 DEF StepsCounted
<1>9. Stops'
  <2>1. t \in InFlight /\ InFlight' \subseteq InFlight
    BY <1>1, <1>7 DEF InFlight
  <2>2. closing.pc = "closed" => timedOut
    BY <2>1 DEF ShutInv, Stops
  <2>3. QED
    BY <1>1, <1>5, <2>1, <2>2 DEF ShutInv, Stops
<1>10. QED
  BY <1>5, <1>6, <1>8, <1>9 DEF ShutInv

(* The handler's own steps, and the readiness probe, leave the turns alone. *)
LEMMA LifecycleKeeps ==
  ASSUME ShutInv, UNCHANGED exportVars, turn' = turn,
         accepting' \in BOOLEAN, handler' \in {"none", "draining", "closing", "ending", "over"},
         timedOut' \in BOOLEAN, abandoned' \subseteq Turn, ended' \in BOOLEAN,
         exitCode' \in {"none", "0", "1"}, health' \in {"unready", "probing", "ready"},
         Stops'
  PROVE  ShutInv'
<1>1. ExportInv'
  BY ExportStays DEF ShutInv
<1>2. ShutdownTypeOK'
  BY <1>1 DEF ShutInv, ShutdownTypeOK, ExportInv
<1>3. StepsCounted'
  BY DEF ShutInv, StepsCounted, exportVars
<1>4. QED
  BY <1>1, <1>2, <1>3 DEF ShutInv

LEMMA SignalKeeps ==
  ASSUME ShutInv, Signal
  PROVE  ShutInv'
<1>1. Stops'
  BY DEF Signal, ShutInv, Stops, exportVars, InFlight
<1>2. QED
  BY <1>1, LifecycleKeeps DEF Signal, ShutInv, ShutdownTypeOK

LEMMA DrainEndsKeeps ==
  ASSUME ShutInv, NEW expired \in BOOLEAN, DrainEnds(expired)
  PROVE  ShutInv'
<1>1. /\ handler = "draining" /\ handler' = "closing" /\ timedOut' = expired /\ abandoned' = InFlight
      /\ UNCHANGED exportVars /\ UNCHANGED <<turn, accepting, ended, exitCode, health>>
      /\ ~ expired => InFlight = {}
  BY DEF DrainEnds, Drained
<1>2. InFlight \subseteq Turn /\ InFlight' = InFlight
  BY <1>1 DEF InFlight
<1>3. Stops'
  BY <1>1, <1>2 DEF ShutInv, Stops, exportVars
<1>4. QED
  BY <1>1, <1>2, <1>3, LifecycleKeeps DEF ShutInv, ShutdownTypeOK

LEMMA CloseExporterKeeps ==
  ASSUME ShutInv, CloseExporter
  PROVE  ShutInv'
<1>1. /\ UNCHANGED lifecycleVars /\ handler = "closing"
      /\ Close \/ \E taken \in BOOLEAN : CloseGoesOn(taken)
  BY DEF CloseExporter
<1>2. /\ ExportInv' /\ steps' = steps /\ stored' = stored /\ counts' = counts
      /\ discarded' = discarded /\ closing.pc # "closed" /\ closing'.pc # "open"
  BY <1>1, ClosingKeeps DEF ShutInv
<1>3. ShutdownTypeOK' /\ StepsCounted'
  BY <1>1, <1>2 DEF ShutInv, ShutdownTypeOK, ExportInv, StepsCounted, lifecycleVars
<1>4. Stops'
  BY <1>1, <1>2 DEF ShutInv, Stops, lifecycleVars, ExportInv, Tidy, InFlight
<1>5. QED
  BY <1>2, <1>3, <1>4 DEF ShutInv

LEMMA ExportKeeps ==
  ASSUME ShutInv, Export
  PROVE  ShutInv'
<1>1. /\ ExportInv' /\ steps' = steps /\ stored' = stored /\ counts' = counts
      /\ closing' = closing /\ discarded' = discarded /\ UNCHANGED lifecycleVars
  BY TimerFiresKeeps, FlightEndsKeeps DEF Export, Exporting, ShutInv
<1>2. ShutdownTypeOK' /\ StepsCounted'
  BY <1>1 DEF ShutInv, ShutdownTypeOK, ExportInv, StepsCounted, lifecycleVars
<1>3. Stops'
  BY <1>1 DEF ShutInv, Stops, lifecycleVars, InFlight
<1>4. QED
  BY <1>1, <1>2, <1>3 DEF ShutInv

LEMMA EndsKeep ==
  ASSUME ShutInv, EndPool \/ \E failed \in BOOLEAN : Exit(failed)
  PROVE  ShutInv'
<1>1. Stops'
  BY DEF EndPool, PoolMayEnd, Exit, ShutInv, Stops, exportVars, InFlight
<1>2. QED
  BY <1>1, LifecycleKeeps DEF EndPool, Exit, ShutInv, ShutdownTypeOK

LEMMA ProbeKeeps ==
  ASSUME ShutInv, AskReadiness \/ \E healthy \in BOOLEAN : ProbeAnswers(healthy)
  PROVE  ShutInv'
<1>1. Stops'
  BY DEF AskReadiness, ProbeAnswers, ShutInv, Stops, exportVars, InFlight
<1>2. QED
  BY <1>1, LifecycleKeeps DEF AskReadiness, ProbeAnswers, ShutInv, ShutdownTypeOK

LEMMA ShutNext == ShutInv /\ [ShutdownNext]_shutdownVars => ShutInv'
<1> SUFFICES ASSUME ShutInv, [ShutdownNext]_shutdownVars PROVE ShutInv'
  OBVIOUS
<1>1. CASE \E t \in Turn : RunTurn(t) \/ TurnEnds(t) \/ RecordStep(t) \/ Recorded(t)
  BY <1>1, TurnKeeps, RecordStepKeeps, RecordedKeeps
<1>2. CASE Signal
  BY <1>2, SignalKeeps
<1>3. CASE Stopping
  BY <1>3, DrainEndsKeeps, CloseExporterKeeps, EndsKeep DEF Stopping
<1>4. CASE Export
  BY <1>4, ExportKeeps
<1>5. CASE AskReadiness \/ \E healthy \in BOOLEAN : ProbeAnswers(healthy)
  BY <1>5, ProbeKeeps
<1>6. CASE UNCHANGED shutdownVars
  <2>1. UNCHANGED exportVars /\ UNCHANGED lifecycleVars
    BY <1>6 DEF shutdownVars, exportVars, lifecycleVars
  <2>2. Stops'
    BY <2>1 DEF ShutInv, Stops, exportVars, lifecycleVars, InFlight
  <2>3. QED
    BY <2>1, <2>2, LifecycleKeeps DEF lifecycleVars, ShutInv, ShutdownTypeOK
<1>7. QED
  BY <1>1, <1>2, <1>3, <1>4, <1>5, <1>6 DEF ShutdownNext

LEMMA ShutInit == ShutdownInit => ShutInv
<1> SUFFICES ASSUME ShutdownInit PROVE ShutInv
  OBVIOUS
<1>1. PICK e \in Seq(Span) : e = <<>> /\ ToSet(e) = {} /\ Once(e) /\ Len(e) = 0
  <2>1. 1 \in Nat
    OBVIOUS
  <2>2. QED
    BY <2>1, Empties, Zenon
<1>2. /\ limits \in Limits /\ queue = e /\ flights = {}
      /\ steps = [t \in Turn |-> 0] /\ stored = [t \in Turn |-> 0] /\ counts = [t \in Turn |-> 0]
      /\ faults = 0 /\ timer = FALSE /\ closing.pc = "open" /\ closing.batch = e
      /\ delivered = {} /\ dropped = {} /\ discarded = {}
  BY <1>1 DEF ShutdownInit, ExportInit
<1>3. \A s : ~ Present(s)
  BY <1>1, <1>2 DEF Present, Within
<1>4. Placed
  BY <1>1, <1>2 DEF Placed, Parts
<1>5. Told
  <2>1. {s \in Span : Present(s)} = {}
    BY <1>3
  <2>2. IsFiniteSet({s \in Span : Present(s)})
    BY <2>1, FS_EmptySet
  <2>3. \A t \in Turn : \A n \in 1..(stored[t] + counts[t]) : FALSE
    BY <1>2
  <2>4. QED
    BY <1>3, <2>2, <2>3, Zenon DEF Told
<1>6. Tidy
  BY <1>1, <1>2 DEF Tidy
<1>7. ExportTypeOK
  <2>1. limits.queue \in Nat /\ 0 \in 0..MaxSteps /\ 0 \in 0..MaxFaults
    BY <1>2, LimitAssumption
  <2>2. /\ steps \in [Turn -> 0..MaxSteps] /\ stored \in [Turn -> 0..MaxSteps]
        /\ counts \in [Turn -> 0..MaxSteps] /\ faults \in 0..MaxFaults
    BY <1>2, <2>1
  <2>3. /\ queue \in Seq(Span) /\ Len(queue) <= limits.queue
        /\ closing.pc \in {"open", "flushing", "closed"} /\ closing.batch \in Seq(Span)
    BY <1>1, <1>2, <2>1
  <2>4. /\ delivered \cup dropped \cup discarded \subseteq Span /\ timer \in BOOLEAN
        /\ \A batch \in flights : batch \in Seq(Span) /\ Len(batch) \in 1..limits.batch
    BY <1>2
  <2>5. QED
    BY <1>2, <2>2, <2>3, <2>4, Zenon DEF ExportTypeOK
<1>8. Stops /\ StepsCounted
  BY <1>2 DEF ShutdownInit, Stops, StepsCounted
<1>9. ShutdownTypeOK
  BY <1>7 DEF ShutdownInit, ShutdownTypeOK
<1>10. QED
  BY <1>4, <1>5, <1>6, <1>7, <1>8, <1>9 DEF ShutInv, ExportInv

LEMMA ShutInvariance == ShutdownSpec => []ShutInv
BY ShutInit, ShutNext, PTL DEF ShutdownSpec

-----------------------------------------------------------------------------
(* Type correctness, for any number of turns and any sizes. *)
THEOREM ShutdownTypeCorrect == ShutdownSpec => []ShutdownTypeOK
<1>1. ShutInv => ShutdownTypeOK
  BY DEF ShutInv
<1>2. QED
  BY <1>1, ShutInvariance, PTL

(* Nothing is closed under a turn that was waited for, and a clean exit     *)
(* neither refused a span nor left one in the queue.                        *)
THEOREM TurnsGoFirst == ShutdownSpec => []ClosedAfterTurns
<1>1. ASSUME ShutInv PROVE ClosedAfterTurns
  <2>1. ShutdownTypeOK /\ Stops /\ Tidy
    BY <1>1 DEF ShutInv, ExportInv
  <2>2. handler \in {"none", "draining", "closing", "ending", "over"}
    BY <2>1 DEF ShutdownTypeOK
  <2>3. /\ closing.pc = "closed" \/ ended => ~ accepting /\ InFlight \subseteq abandoned
        /\ ended => closing.pc = "closed"
    BY <2>1, <2>2 DEF Stops
  <2>4. exitCode = "0" => abandoned = {} /\ discarded = {} /\ queue = <<>>
    BY <2>1 DEF Stops, Tidy
  <2>5. abandoned # {} => timedOut
    BY <2>1 DEF Stops
  <2>6. QED
    BY <2>1, <2>3, <2>4, <2>5 DEF ClosedAfterTurns
<1>2. QED
  BY <1>1, ShutInvariance, PTL

LEMMA WaitingIs ==
  ASSUME NEW s
  PROVE  s \in Undelivered <=> \/ s \in ToSet(queue) \/ s \in ToSet(closing.batch)
                             \/ \E f \in flights : s \in ToSet(f)
BY DEF Undelivered

(* A span that was handed over is in one of the four places. *)
LEMMA OnePlace ==
  ASSUME Placed, NEW s, Present(s)
  PROVE  \E i \in 1..4 : \A j \in 1..4 : (j = i) <=> s \in Places[j]
<1>1. /\ Places[1] = Undelivered /\ Places[2] = delivered /\ Places[3] = dropped
      /\ Places[4] = discarded
  BY DEF Places
<1>2. \A j : j \in 1..4 <=> j = 1 \/ j = 2 \/ j = 3 \/ j = 4
  OBVIOUS
<1>3. /\ s \in Undelivered => s \notin delivered /\ s \notin dropped /\ s \notin discarded
      /\ s \in delivered => s \notin dropped /\ s \notin discarded
      /\ s \in dropped => s \notin discarded
      /\ s \in Undelivered \/ s \in delivered \/ s \in dropped \/ s \in discarded
  BY WaitingIs DEF Placed, Parts, Present, Within
<1>4. CASE s \in Undelivered
  <2>1. \A j \in 1..4 : (j = 1) <=> s \in Places[j]
    BY <1>1, <1>2, <1>3, <1>4
  <2>2. QED
    BY <1>2, <2>1
<1>5. CASE s \in delivered
  <2>1. \A j \in 1..4 : (j = 2) <=> s \in Places[j]
    BY <1>1, <1>2, <1>3, <1>5
  <2>2. QED
    BY <1>2, <2>1
<1>6. CASE s \in dropped
  <2>1. \A j \in 1..4 : (j = 3) <=> s \in Places[j]
    BY <1>1, <1>2, <1>3, <1>6
  <2>2. QED
    BY <1>2, <2>1
<1>7. CASE s \in discarded
  <2>1. \A j \in 1..4 : (j = 4) <=> s \in Places[j]
    BY <1>1, <1>2, <1>3, <1>7
  <2>2. QED
    BY <1>2, <2>1
<1>8. QED
  BY <1>3, <1>4, <1>5, <1>6, <1>7

LEMMA PlacesHold ==
  ASSUME NEW j \in 1..4, NEW s \in Places[j]
  PROVE  Present(s)
<1>1. s \in Undelivered \/ s \in delivered \/ s \in dropped \/ s \in discarded
  BY DEF Places
<1>2. QED
  BY <1>1, WaitingIs DEF Present, Within

(* Spans that share an id are the same step while the table numbers it. *)
LEMMA IdsDiffer ==
  ASSUME ExportInv, NEW N, N \subseteq {s \in Span : Present(s)},
         \A s \in N : counts[s.turn] = 0
  PROVE  Cardinality({SpanId(s) : s \in N}) = Cardinality(N)
<1> DEFINE I == {SpanId(s) : s \in N}
           f == [s \in N |-> SpanId(s)]
<1>1. IsFiniteSet(N)
  BY FS_Subset DEF ExportInv, Told
<1>2. ASSUME NEW s \in N, NEW u \in N, SpanId(s) = SpanId(u) PROVE s = u
  <2>1. s.turn = u.turn /\ s.sequence = u.sequence
    BY <1>2 DEF SpanId
  <2>2. /\ s \in Span /\ u \in Span /\ s.sequence = s.step - 1 /\ u.sequence = u.step - 1
    BY DEF ExportInv, Told
  <2>3. s.step \in Nat /\ u.step \in Nat
    BY <2>2, LimitAssumption DEF Span
  <2>4. \A m, n \in Nat : m - 1 = n - 1 => m = n
    OBVIOUS
  <2>5. s.step - 1 = u.step - 1
    BY <2>1, <2>2, Zenon
  <2>6. s.step = u.step
    BY <2>3, <2>4, <2>5, Zenon
  <2>7. QED
    BY <2>1, <2>6, Zenon DEF ExportInv, Told
<1>3. f \in Bijection(N, I)
  <2>1. f \in [N -> I] /\ \A i \in I : \E s \in N : f[s] = i
    OBVIOUS
  <2>2. \A s, u \in N : f[s] = f[u] => s = u
    BY <1>2
  <2>3. QED
    BY <2>1, <2>2 DEF Bijection, Injection, Surjection, IsInjective
<1>4. ExistsBijection(N, I)
  BY <1>3 DEF ExistsBijection
<1> HIDE DEF I
<1>5. QED
  BY <1>1, <1>4, FS_Bijection DEF I

(* Dropping is counted rather than silent: every step a turn handed over is *)
(* waiting, delivered or reported, in one of these places only, unless the  *)
(* exporter was closed; and no two steps the table numbered share an id.    *)
THEOREM SpansCounted == ShutdownSpec => []SpansAreAccounted
<1>1. ASSUME ShutInv PROVE SpansAreAccounted
  <2>1. ExportInv /\ Placed /\ Told /\ Tidy
    BY <1>1 DEF ShutInv, ExportInv
  <2>2. ASSUME NEW t \in Turn, NEW n \in 1..(stored[t] + counts[t])
        PROVE  \E i \in 1..4 : \A j \in 1..4 :
                 (j = i) <=> (\E span \in Places[j] : span.turn = t /\ span.step = n)
    <3>1. PICK s : Present(s) /\ s.turn = t /\ s.step = n
      BY <2>1, Zenon DEF Told
    <3>2. \A j \in 1..4 : s \in Places[j] <=>
            (\E span \in Places[j] : span.turn = t /\ span.step = n)
      <4>1. SUFFICES ASSUME NEW j \in 1..4, NEW span \in Places[j], span.turn = t, span.step = n
                     PROVE  s \in Places[j]
        BY <3>1
      <4>2. Present(span)
        BY PlacesHold
      <4>3. span = s
        BY <2>1, <3>1, <4>1, <4>2, Zenon DEF Told
      <4>4. QED
        BY <4>3
    <3>3. PICK i \in 1..4 : \A j \in 1..4 : (j = i) <=> s \in Places[j]
      BY <2>1, <3>1, OnePlace
    <3>4. QED
      BY <3>2, <3>3
  <2>3. discarded # {} => closing.pc = "closed"
    BY <2>1 DEF Tidy
  <2> DEFINE numbered == {span \in Undelivered \cup delivered \cup dropped \cup discarded :
                            counts[span.turn] = 0}
  <2>4. Cardinality({SpanId(span) : span \in numbered}) = Cardinality(numbered)
    <3>1. numbered \subseteq {s \in Span : Present(s)}
      <4>1. ASSUME NEW s \in numbered PROVE s \in Span /\ Present(s)
        <5>1. Present(s)
          BY WaitingIs DEF Present, Within
        <5>2. QED
          BY <2>1, <5>1 DEF Told
      <4>2. QED
        BY <4>1
    <3>2. \A s \in numbered : counts[s.turn] = 0
      OBVIOUS
    <3> HIDE DEF numbered
    <3>3. QED
      BY <2>1, <3>1, <3>2, IdsDiffer
  <2>5. QED
    BY <2>2, <2>3, <2>4, Zenon DEF SpansAreAccounted
<1>2. QED
  BY <1>1, ShutInvariance, PTL

=============================================================================
