---------------------------- MODULE MCModelCalls ----------------------------
EXTENDS ModelCalls

Words == {"", "unparsed", "hello", "and", "price", "start", "count", "total", "end", "x",
          "it failed", "you are", "how many", "what price", "repeat",
          "1.5", "1.50", "2", "3", "4", "5", "6", "7", "12", "90"}
Plain(says) == Line("plain", says, <<>>, "none")
Valued(says, value) == Line("plain", says, <<value>>, "none")
Row(value) == Line("row", "price", <<value>>, "none")
Fence == Line("fence", "", <<>>, "none")
Failed == Line("error", "it failed", <<>>, "colour")

Module(id, wellFormed, description, discloses) ==
    [id |-> id, wellFormed |-> wellFormed, description |-> description, tools |-> {},
     discloses |-> discloses]
Notes == Module("notes", TRUE, "keeps notes", TRUE)
Mail == Module("mail", TRUE, "writes mail", FALSE)

OpenAi(baseUrl) == [kind |-> "openai-compatible", baseUrl |-> baseUrl]
Anthropic == [kind |-> "anthropic", baseUrl |-> FALSE]
Priced(provider, tier) == [provider |-> provider, tier |-> tier]
Models(providers, models, simple, sensitive, embedding) ==
    [json |-> TRUE, shaped |-> TRUE, providers |-> providers, models |-> models,
     routes |-> [simple |-> simple, sensitive |-> sensitive], embedding |-> embedding]
Two == [fast |-> OpenAi(TRUE), good |-> Anthropic]
Both == [small |-> Priced("fast", "cheap"), large |-> Priced("good", "premium")]
Usual == Models(Two, Both, <<"small", "large">>, <<"large">>, "none")
Searchable == Models(Two, Both, <<"small", "large">>, <<"large">>, "vectors")
SomeModelFiles ==
    {Usual, Searchable,
     Models(Two, Both, <<"small", "tiny">>, <<"large">>, "none"),
     Models(Two, Both, <<"large">>, <<"large", "small">>, "none"),
     Models([fast |-> OpenAi(FALSE), good |-> Anthropic], Both, <<"large", "small">>, <<"large">>, "none"),
     Models(Two, Both, <<"small">>, <<"large">>, "fast"),
     [Usual EXCEPT !.json = FALSE]}

Granted(c, can) == [connectorId |-> c, can |-> can]
Agent(id, grants, memory, approveWrites) ==
    [json |-> TRUE, shaped |-> TRUE, id |-> id, grants |-> grants, memory |-> memory,
     remembers |-> FALSE, approveWrites |-> approveWrites]
Reader == Agent("reader", <<Granted("drive", <<"read">>)>>, FALSE, TRUE)
Scribe == Agent("scribe", <<Granted("drive", <<"read", "update">>)>>, FALSE, TRUE)
Keeper == [Agent("reader", <<Granted("drive", <<"read">>)>>, TRUE, TRUE) EXCEPT !.remembers = TRUE]
Unasked == [Scribe EXCEPT !.approveWrites = FALSE]
Doubled == Agent("reader", <<Granted("drive", <<"read">>), Granted("drive", <<"list">>)>>, FALSE, TRUE)
SomeAgentFiles == {Keeper, Unasked, Doubled, [Reader EXCEPT !.json = FALSE]}
Filled(file) == [id |-> file.id, shaped |-> TRUE, grants |-> file.grants, memory |-> file.memory,
                 approveWrites |-> file.approveWrites]
SomeForms ==
    {Filled(Reader), Filled(Unasked), Filled(Doubled),
     Filled(Agent("reader", <<Granted("memory", <<"search">>), Granted("drive", <<>>)>>, TRUE, TRUE)),
     Filled(Agent("notes", <<Granted("mail", <<"read", "delete">>)>>, FALSE, TRUE))}

Step(id, agent, quotes, approve) == [id |-> id, agent |-> agent, quotes |-> quotes, approve |-> approve]
Flow(steps) == [json |-> TRUE, shaped |-> TRUE, id |-> "weekly", steps |-> steps]
Weekly == Flow(<<Step("draft", "reader", {Input}, FALSE),
                 Step("post", "scribe", {Input, Answered("draft")}, TRUE)>>)
Reordered == Flow(<<Step("post", "scribe", {Answered("draft")}, TRUE), Step("draft", "reader", {}, FALSE)>>)
Extended == Flow(<<Step("read", "reader", {Input}, FALSE),
                   Step("post", "scribe", {Answered("read")}, FALSE)>>)
SomeWorkflowFiles == {Reordered, Extended}

Persona(shaped, id) == [json |-> TRUE, shaped |-> shaped, id |-> id]
SomePersonaFiles == {Persona(TRUE, "default"), Persona(TRUE, "copied"), Persona(FALSE, "default")}
OAuth(shaped, wellFormed, secretsSet) ==
    [json |-> TRUE, shaped |-> shaped, wellFormed |-> wellFormed, secretsSet |-> secretsSet]
SomeConnectorFiles ==
    {OAuth(TRUE, TRUE, TRUE), OAuth(TRUE, TRUE, FALSE), OAuth(TRUE, FALSE, TRUE),
     OAuth(FALSE, FALSE, TRUE), OAuth(FALSE, TRUE, TRUE)}
Files(models, agents, workflows) ==
    [persona |-> Persona(TRUE, "default"), models |-> models,
     connectors |-> OAuth(TRUE, TRUE, TRUE), agents |-> agents, workflows |-> workflows]
Deployed(fs, product, vault) == [files |-> fs, build |-> [product |-> product, vault |-> vault]]
NoFiles == Files(Usual, <<>>, <<>>)
Staffed == Files(Searchable, [reader |-> Reader, scribe |-> Scribe], [weekly |-> Weekly])
SomeStartups ==
    [serve |-> {Deployed(NoFiles, <<Notes>>, TRUE)},
     evaluate |-> {Deployed(NoFiles, product, TRUE) :
                     product \in {<<>>, <<Notes>>, <<Notes, Mail>>, <<Notes, Notes>>,
                                  <<Module("Bad Name", FALSE, "any", FALSE)>>,
                                  <<Mail, Module("mute", TRUE, "", FALSE)>>}},
     administer |-> {Deployed(Staffed, <<Notes>>, TRUE), Deployed(Staffed, <<Notes, Mail>>, FALSE)}]
AllStartups == UNION {SomeStartups[m] : m \in DOMAIN SomeStartups}

FileOrder == <<"notes", "reader", "scribe">>
Sources == [d1 |-> "drive", d2 |-> "drive", e1 |-> "mail"]
Owners == [d1 |-> "t1", d2 |-> "t2", e1 |-> "t1"]
ToolPrefix == [drive |-> "drive", mail |-> "mail", memory |-> "memory"]

SomeAsks == {<<Line("plain", "hello", <<>>, "spaces"), Blank, Blank, Plain("and")>>,
             <<Row("5"), Row("6"), Row("7")>>}

Log == <<Plain("start"), Plain("start"), Valued("count", "12"), Valued("total", "90"),
         Failed, Plain("end")>>
Code == <<Fence, Blank, Blank, Valued("x", "3"), Fence>>
Prices == <<Row("1.50"), Row("2")>>
Output(lines, error) == [lines |-> lines, error |-> error]
SomeOutputs == {Output(Log, FALSE), Output(Log, TRUE), Output(Code \o Prices, FALSE)}
SomeSystems == {<<>>, <<Line("plain", "you are", <<>>, "spaces")>>}

SomeCases ==
    {[input |-> <<Plain("how many")>>, results |-> <<Output(Log, FALSE)>>, ids |-> <<"one">>,
      expect |-> {"12"}],
     [input |-> <<Plain("what price")>>, results |-> <<Output(Prices, FALSE), Output(Log, TRUE)>>,
      ids |-> <<"one", "two">>, expect |-> {"1.50", "90"}],
     [input |-> <<Valued("repeat", "4")>>, results |-> <<>>, ids |-> <<>>, expect |-> {"4"}]}
=============================================================================
