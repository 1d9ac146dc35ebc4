-------------------------- MODULE MCWorkflowRunner --------------------------
(* A small instance of the workflow runner for TLC. *)
EXTENDS WorkflowRunner, TLC

CONSTANTS d1, d2

=============================================================================
