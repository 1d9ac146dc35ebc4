---------------------------- MODULE ApprovalGate ----------------------------
(***************************************************************************)
(* What every gate of the harness promises, whoever enforces it: a call    *)
(* that a person has to approve is performed only after that person        *)
(* approved it, a decision is taken once, and nobody is asked about a call *)
(* that was never made.  The agent loop is shown to implement it           *)
(* (AgentTurns!Gate).  How often an approved call is performed is not      *)
(* promised: the queue records a decision and nothing consumes it.         *)
(***************************************************************************)
EXTENDS ApprovalStore

VARIABLES
    gate,       \* gate[s][c]: does the call need a person?
    ran         \* ran[s][c]: how many times the call was performed

gateVars == <<approval, gate, ran>>

GateKind == {"unissued", "open", "held"}

GateTypeOK ==
    /\ StoreTypeOK
    /\ gate \in [Session -> [Call -> GateKind]]
    /\ ran \in [Session -> [Call -> Nat]]

GateInit ==
    /\ StoreInit
    /\ gate = [s \in Session |-> [c \in Call |-> "unissued"]]
    /\ ran = [s \in Session |-> [c \in Call |-> 0]]

(* Calls are made, some of them held. *)
Issue(s, C, H) ==
    /\ \A c \in C : gate[s][c] = "unissued"
    /\ gate' = [gate EXCEPT ![s] =
                  [c \in Call |-> IF c \notin C THEN @[c]
                                  ELSE IF c \in H THEN "held" ELSE "open"]]
    /\ UNCHANGED <<approval, ran>>

(* A person is asked about calls that are held. *)
Ask(s, C) ==
    /\ \A c \in C : gate[s][c] = "held"
    /\ Request(s, C)
    /\ UNCHANGED <<gate, ran>>

Answer(s, c, d) ==
    /\ Decide(s, c, d)
    /\ UNCHANGED <<gate, ran>>

Perform(s, c) ==
    /\ \/ gate[s][c] = "open"
       \/ gate[s][c] = "held" /\ approval[s][c] = "approved"
    /\ ran' = [ran EXCEPT ![s][c] = @ + 1]
    /\ UNCHANGED <<approval, gate>>

GateNext ==
    \E s \in Session :
      \/ \E C \in SUBSET Call : \E H \in SUBSET C : Issue(s, C, H)
      \/ \E C \in SUBSET Call : Ask(s, C)
      \/ \E c \in Call, d \in Decision : Answer(s, c, d)
      \/ \E c \in Call : Perform(s, c)

GateSpec == GateInit /\ [][GateNext]_gateVars

-----------------------------------------------------------------------------
(* A held call that was performed had been approved, and an unissued call  *)
(* was neither performed nor put in front of a person.                     *)
OnlyApprovedRuns ==
    \A s \in Session, c \in Call :
      /\ gate[s][c] = "held" /\ ran[s][c] > 0 => approval[s][c] = "approved"
      /\ gate[s][c] # "held" => approval[s][c] = "none"
      /\ gate[s][c] = "unissued" => ran[s][c] = 0

=============================================================================
