---------------------------- MODULE MCConnectors ----------------------------
(* A small instance of the connectors for TLC: every source, a caller that *)
(* asks for anything and one that competes for the same resources.         *)
EXTENDS Connectors

CONSTANTS c1, c2

SomeAsks == [c \in Caller |-> IF c = c1 THEN Operation ELSE {"update", "delete"}]

SomeTargets == [c \in Caller |-> IF c = c1 THEN {"top", "a", "b", "stray"} ELSE {"a"}]

SomePatches == [c \in Caller |-> {{"title"}, {"body"}} \cup
                  IF c = c1 THEN {{"title", "body"}, {"other"}} ELSE {}]

SomeKinds == [i \in Item |-> IF i = "top" THEN "folder" ELSE IF i = "b" THEN "binary" ELSE "text"]

(* A pull request comes before an issue. *)
SomeOrder == [i \in Item |-> CASE i = "top" -> 0 [] i = "b" -> 1 [] i = "a" -> 2
                               [] i = c1 -> 3 [] i = c2 -> 4]

Named4(name(_)) == [i \in Item |-> name(i)]

(* A Teams channel's id holds a colon, a calendar's event none; a Calendly *)
(* URI may end in a slash.                                                 *)
Names ==
    [memory |-> Named4(LAMBDA i : [id |-> <<i>>, parent |-> IF i = "top" THEN <<>> ELSE <<"top">>]),
     drive |-> Named4(LAMBDA i : [id |-> <<i>>, parent |-> IF i = "top" THEN <<>> ELSE <<"top">>]),
     confluence |-> Named4(LAMBDA i : [id |-> <<i>>, parent |-> IF i = "top" THEN <<>> ELSE <<"top">>]),
     jira |-> Named4(LAMBDA i : [key |-> <<i>>, parent |-> <<"top">>]),
     notion |-> Named4(LAMBDA i : [kind |-> IF i = "top" THEN "database" ELSE "page",
                                   id |-> <<i>>, parent |-> <<"top">>]),
     slack |-> Named4(LAMBDA i : IF i = "top" THEN [kind |-> "channel", channel |-> <<"top">>]
                                 ELSE [kind |-> "message", channel |-> <<"top">>, ts |-> <<i>>]),
     teams |-> Named4(LAMBDA i : IF i = "top"
                                 THEN [kind |-> "channel", team |-> <<"w">>,
                                       channel |-> <<"19", ":", "top">>]
                                 ELSE [kind |-> "message", team |-> <<"w">>,
                                       channel |-> <<"19", ":", "top">>, message |-> <<i>>]),
     calendar |-> Named4(LAMBDA i : IF i = "top" THEN [kind |-> "calendar", calendar |-> <<"top">>]
                                    ELSE [kind |-> "event", calendar |-> <<"top">>,
                                          event |-> <<i>>]),
     calcom |-> Named4(LAMBDA i : IF i = "top" THEN [kind |-> "event-type", type |-> <<"top">>]
                                  ELSE [kind |-> "booking", type |-> <<"top">>, uid |-> <<i>>]),
     calendly |-> Named4(LAMBDA i : IF i = "top"
                                    THEN [kind |-> "event-type", uri |-> <<"t", "/", "top", "/">>]
                                    ELSE [kind |-> "event", uri |-> <<"e", "/", i>>,
                                          type |-> <<"t", "/", "top", "/">>]),
     issue |-> Named4(LAMBDA i : [repo |-> <<"acme", "/", "w">>, number |-> i]),
     discussion |-> Named4(LAMBDA i : [repo |-> <<"acme", "/", "w">>, number |-> i]),
     project |-> Named4(LAMBDA i : [owner |-> <<"acme">>, number |-> i]),
     code |-> Named4(LAMBDA i : [repo |-> <<"acme", "/", "w">>,
                                 path |-> IF i = "top" THEN <<"src">> ELSE <<"src", "/", i>>])]

=============================================================================
