---------------------------- MODULE MCMcpServer ----------------------------
(* A small instance of the MCP server for TLC. *)
EXTENDS McpServer

CONSTANTS w1, w2, t1, t2, n1, x1, x2, b1, b2

Owners == [c \in {n1, x1, x2} |-> IF c = x2 THEN t2 ELSE t1]

Create(b) == [tool |-> "create", connection |-> n1, body |-> b]
Read(c) == [tool |-> "read", connection |-> c, body |-> b1]

Update == [tool |-> "update", connection |-> n1, body |-> b1]

SomeRequests == {Create(b1), Create(b2), Read(x1), Read(x2), Update}

(* Each tenant reads its own server, and tries what is the other's. *)
SomeAsks == {<<t1, Create(b1)>>, <<t1, Create(b2)>>, <<t1, Read(x1)>>, <<t2, Read(x2)>>,
             <<t2, Update>>}

(* The default, a gated server, one with a queue that gates another write, *)
(* and one declared ungated; those that write do not read.                 *)
Options(allow, approvals, gate, ungated) ==
    [allow |-> allow, approvals |-> approvals, gate |-> gate, ungated |-> ungated]

SomeDeployments ==
    {Options(ReadOnly, FALSE, {}, FALSE), Options({"create"}, TRUE, Write, FALSE),
     Options({"create"}, TRUE, {"delete"}, FALSE), Options({"create", "update"}, FALSE, {}, TRUE)}

=============================================================================
