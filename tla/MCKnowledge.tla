----------------------------- MODULE MCKnowledge -----------------------------
EXTENDS Knowledge

(* Chunks of ten characters, two repeated: a short text, another way to say *)
(* it, one of several paragraphs with a wall in it, and a blank one.        *)
SomeText == [short |-> <<<<6>>>>, again |-> <<<<7>>>>,
             long  |-> <<<<4, 3>>, <<2>>, <<23>>>>, blank |-> <<>>]
SomeFact == [short |-> "one", again |-> "one", long |-> "two", blank |-> "none"]
SomeTopic == [short |-> "here", again |-> "here", long |-> "here", blank |-> "none"]

SomeTasks == "agent" :> {"search", "remember"} @@ "console" :> {"import", "add"}
SomeSays == "agent" :> {"again"} @@ "console" :> {"long"}
SomeQuota == "agent" :> 1 @@ "console" :> 2
SomeListing == <<"r1", "r2">>
SomeOthers == {Full("short")}
SomeOpening == "r1" :> "again" @@ "r2" :> "short"
=============================================================================
