--------------------------- MODULE ApprovalStore ---------------------------
(***************************************************************************)
(* The human approval queue: one row per held tool call, and the one       *)
(* decision a person takes about it.  Translated from the PostgreSQL       *)
(* adapter; the in-memory adapter refuses the same calls.                  *)
(*                                                                         *)
(* A Session stands for a (tenant, session) pair: every statement of the   *)
(* adapter carries both, and the foreign key of the table ties them.  The  *)
(* row id is not modelled: UNIQUE (session_id, tool_call_id) makes the     *)
(* pair (session, call) a key of the table.                                *)
(***************************************************************************)
EXTENDS Naturals

CONSTANTS
    Session,    \* (tenant, session) pairs
    Call        \* tool-call ids

VARIABLE
    approval    \* the table: approval[s][c] is the status of the row, or "none"

Decision == {"approved", "rejected", "changes_requested"}

Status == Decision \cup {"none", "pending"}

StoreTypeOK == approval \in [Session -> [Call -> Status]]

StoreInit == approval = [s \in Session |-> [c \in Call |-> "none"]]

-----------------------------------------------------------------------------
(* request: one transaction, so a collision with a stored row stores none. *)

Collides(s, C) == \E c \in C : approval[s][c] # "none"

(* Bug: a row that is already there is written over. *)
RequestAgain(s, C) ==
    approval' = [approval EXCEPT ![s] =
                   [c \in Call |-> IF c \in C THEN "pending" ELSE @[c]]]

Request(s, C) ==
    /\ ~ Collides(s, C)
    /\ approval' = [approval EXCEPT ![s] =
                      [c \in Call |-> IF c \in C THEN "pending" ELSE @[c]]]

(* Bug: a second operator changes the decision of the first. *)
DecideAgain(s, c, d) ==
    /\ approval[s][c] # "none"
    /\ approval' = [approval EXCEPT ![s][c] = d]

(* approve, reject, requestChanges: the UPDATE carries the guard, so of    *)
(* two operators exactly one changes the row and the other is refused.     *)

Decide(s, c, d) ==
    /\ approval[s][c] = "pending"
    /\ approval' = [approval EXCEPT ![s][c] = d]

(* forToolCalls: what a caller sees of the calls it asks about. *)

ForToolCalls(s, C) == [c \in Call |-> IF c \in C THEN approval[s][c] ELSE "none"]

=============================================================================
