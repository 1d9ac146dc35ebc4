----------------------------- MODULE Deployment -----------------------------
(***************************************************************************)
(* What a deployment is made of, and what its agents may do with it.       *)
(*                                                                         *)
(* Configuration is files: the console saves some of them, after the same  *)
(* parsers a start uses, and anybody may edit them by hand.  A process     *)
(* reads them once, when it starts, and works from what it read: the       *)
(* modules of the code, the declared agents with the tools their grants    *)
(* generate, the workflows.  At most one piece of work is in flight: a     *)
(* tool call of an agent, a module asking another for context, or a run of *)
(* a workflow; what waits for a person survives a restart.                 *)
(***************************************************************************)
EXTENDS Integers, SequencesExt

CONSTANTS
    AgentId, Order,     \* file names of agents, and the order they sort in
    WorkflowId,
    Tenant,
    Connection, ConnectorOf, OwnerOf,
    Prefix,             \* Prefix[c]: connector c's id as a tool name writes it
    PersonaFiles, ModelFiles, ConnectorFiles,               \* contents considered
    AgentFiles, WorkflowFiles,
    Forms,              \* what the console's agent form may submit
    Deployments,        \* [files, build]: what a deployment may begin as
    Key,                \* keys of a module's pool
    MaxEdits            \* bound: saves, edits, connections and pool entries changed

Capability == {"list", "read", "search", "create", "update", "delete"}
Writes == {"create", "update", "delete"}

ProviderEntry == [kind : {"openai-compatible", "anthropic"}, baseUrl : BOOLEAN]
Tier == {"cheap", "premium"}
ModelEntry(names) == [provider : names, tier : Tier]
TaskKind == {"routing", "simple", "reasoning", "sensitive"}
Grant(connectors) == [connectorId : connectors, can : Seq(Capability)]
Input == <<"input">>
Answered(step) == <<"steps", step>>
PersonaId == "default"

ASSUME DeploymentAssumption ==
    /\ MaxEdits \in Nat
    /\ Range(Order) = AgentId
    /\ ConnectorOf \in [Connection -> DOMAIN Prefix] /\ OwnerOf \in [Connection -> Tenant]
    /\ "none" \notin DOMAIN Prefix
    /\ \A m \in ModelFiles : Range(m.providers) \subseteq ProviderEntry
    /\ \A m \in ModelFiles : DOMAIN m.routes \subseteq TaskKind
    /\ \A m \in ModelFiles : \A entry \in Range(m.models) :
            entry \in ModelEntry({entry.provider})
    /\ \A a \in AgentFiles : Range(a.grants) \subseteq Grant(DOMAIN Prefix)

VARIABLES
    files,      \* the persona, models, connectors, directories of agents and workflows
    byHand,     \* somebody edited a file without the console
    build,      \* the code it runs, and whether credentials can be kept
    process,    \* what it read, and how far it got
    connected,  \* the rows of the connections
    pools,      \* the entries kept: [tenant, module, key]
    work,       \* what is in flight, if anything
    edits

deployment == <<files, byHand, build, process, connected, pools, work, edits>>

-----------------------------------------------------------------------------
(* The parsers. *)

(* parsePersona *)
PersonaParses(p) == p.json /\ p.shaped

(* loadPersona: a file copied and not renamed is refused. *)
PersonaAccepted(p) == PersonaParses(p) /\ p.id = PersonaId

(* parseModelConfig *)
ModelsAccepted(m) ==
    /\ m.json /\ m.shaped
    /\ \A entry \in Range(m.models) :
        /\ entry.provider \in DOMAIN m.providers
        /\ m.providers[entry.provider].kind = "openai-compatible" =>
                m.providers[entry.provider].baseUrl
    /\ m.embedding \notin DOMAIN m.providers
    /\ \A t \in DOMAIN m.routes : \A reference \in Range(m.routes[t]) :
        /\ reference \in DOMAIN m.models
        /\ t = "sensitive" => m.models[reference].tier # "cheap"

CandidatesFor(m, t) == [k \in DOMAIN m.routes[t] |-> m.models[m.routes[t][k]]]

(* routedProvidersFor: only what a model names is ever built. *)
Built(m) == {entry.provider : entry \in Range(m.models)}

Connectors(config) == [k \in DOMAIN config.grants |-> config.grants[k].connectorId]

(* parseAgentConfig, and what it makes of what is left out. *)
AgentParses(config) == config.shaped /\ IsInjective(Connectors(config))

(* loadAgents *)
AgentAccepted(name, file) == file.json /\ AgentParses(file) /\ file.id = name

Earlier(w, k) == {w.steps[j].id : j \in 1..(k - 1)}

(* parseWorkflowConfig *)
WorkflowParses(w) ==
    /\ w.shaped
    /\ \A k \in DOMAIN w.steps :
        /\ w.steps[k].id \notin Earlier(w, k)
        /\ \A name \in w.steps[k].quotes :
            name = Input \/ \E step \in Earlier(w, k) : name = Answered(step)

(* loadWorkflows *)
WorkflowAccepted(name, w) == w.json /\ WorkflowParses(w) /\ w.id = name

(* shapeOfConnectors: four strings each, and no secret beside them. *)
ConnectorsShaped(c) == c.json /\ c.shaped

(* loadConnectorsConfig: addresses, ids, names of variables and scopes are   *)
(* checked too, and every variable named must be set.                       *)
ConnectorsAccepted(c) == c.json /\ c.wellFormed /\ c.secretsSet

IsList(seq) == seq \in Seq(Range(seq))

(* What the console saved before: files that pass what it checks.           *)
FilesAccepted(fs) ==
    /\ PersonaParses(fs.persona) /\ ModelsAccepted(fs.models) /\ ConnectorsShaped(fs.connectors)
    /\ \A name \in DOMAIN fs.agents : AgentAccepted(name, fs.agents[name])
    /\ \A name \in DOMAIN fs.workflows : WorkflowAccepted(name, fs.workflows[name])

ASSUME FilesAssumption ==
    /\ \A w \in WorkflowFiles : IsList(w.steps)
    /\ \A d \in Deployments :
        /\ FilesAccepted(d.files) /\ d.files.models \in ModelFiles
        /\ d.files = [persona |-> d.files.persona, models |-> d.files.models,
                      connectors |-> d.files.connectors,
                      agents |-> d.files.agents, workflows |-> d.files.workflows]
        /\ \A name \in DOMAIN d.files.workflows : IsList(d.files.workflows[name].steps)

(* The modules of the code bring registries of their own, with no two tools *)
(* of one name.  What their tools reach is the code's business: a tool that *)
(* names a connector is one a grant generated.                              *)
ASSUME ProductAssumption ==
    \A d \in Deployments :
        /\ IsList(d.build.product)
        /\ \A module \in Range(d.build.product) :
            /\ \A tool \in module.tools : tool.connectorId = "none"
            /\ \A one, other \in module.tools : one.name = other.name => one = other

-----------------------------------------------------------------------------
(* A declared agent's tools: what it was granted, and nothing else. *)
ToolName(connectorId, capability) == <<Prefix[connectorId], capability>>

Tool(name, connectorId, capability, gated) ==
    [name |-> name, connectorId |-> connectorId, capability |-> capability, gated |-> gated]

GrantsWrites(config) ==
    \E grant \in Range(config.grants) : Range(grant.can) \cap Writes # {}

Gated(config, capability) ==
    capability \in Writes /\ GrantsWrites(config) /\ config.approveWrites

(* toolFor, for every capability of every grant. *)
Offered(config) ==
    UNION {{<<g, k>> : k \in DOMAIN config.grants[g].can} : g \in DOMAIN config.grants}

ToolFor(config, at) ==
    LET connectorId == config.grants[at[1]].connectorId
        capability  == config.grants[at[1]].can[at[2]]
    IN  Tool(ToolName(connectorId, capability), connectorId, capability, Gated(config, capability))

MemoryTools(config) ==
    (IF config.memory THEN {Tool(<<"memory", "search">>, "none", "search", FALSE)} ELSE {})
    \cup (IF config.remembers
          THEN {Tool(<<"memory", "remember">>, "none", "remember", FALSE)} ELSE {})

(* What every agent has, and what it has of the memory if there is one.     *)
OwnTools(config, embeds) ==
    {Tool(<<"my", "connections">>, "none", "connections", FALSE)}
    \cup (IF embeds THEN MemoryTools(config) ELSE {})

Toolset(config, embeds) ==
    OwnTools(config, embeds) \cup {ToolFor(config, at) : at \in Offered(config)}

(* Two tools of one name, and ToolRegistry.register throws. *)
Clashes(config, embeds) ==
    \E at \in Offered(config) :
        \/ \E other \in Offered(config) \ {at} : ToolFor(config, other).name = ToolFor(config, at).name
        \/ \E tool \in OwnTools(config, embeds) : tool.name = ToolFor(config, at).name

(* A module the router can name. *)
DeclaredModule(config, embeds) ==
    [id |-> config.id, wellFormed |-> ~Clashes(config, embeds), description |-> "declared",
     tools |-> Toolset(config, embeds), discloses |-> FALSE]

Ids == {process.registry[k].id : k \in DOMAIN process.registry}

(* ModuleRegistry.register *)
Acceptable(module) == module.wellFormed /\ module.description # "" /\ module.id \notin Ids

ModuleOf(id) == CHOOSE module \in Range(process.registry) : module.id = id

-----------------------------------------------------------------------------
(* A start: everything is read once, in this order, and the first thing     *)
(* that does not parse ends it.                                             *)
(* A file that was not read yet stands in nobody's way. *)
Unread == [json |-> TRUE, shaped |-> TRUE, wellFormed |-> TRUE, secretsSet |-> TRUE, id |-> PersonaId]
Down == [pc |-> "down", persona |-> Unread, models |-> <<>>, declared |-> <<>>,
         connectors |-> Unread, registry |-> <<>>, workflows |-> <<>>]
NoWork == [kind |-> "none"]

DeploymentInit ==
    /\ \E d \in Deployments : files = d.files /\ build = d.build
    /\ byHand = FALSE
    /\ process = Down /\ connected = Connection /\ pools = {}
    /\ work = NoWork /\ edits = 0

Reads(next) == process' = next /\ UNCHANGED <<files, byHand, build, connected, pools, work, edits>>

ReadsIf(accepted, next) ==
    Reads(IF accepted THEN next ELSE [process EXCEPT !.pc = "refused"])

(* The first request for the harness builds it; the code's modules go first. *)
Boot == process.pc = "down" /\ Reads([process EXCEPT !.pc = "code"])

RegisterProduct ==
    /\ process.pc = "code"
    /\ IF Len(process.registry) = Len(build.product)
       THEN Reads([process EXCEPT !.pc = "persona"])
       ELSE LET module == build.product[Len(process.registry) + 1]
            IN  ReadsIf(Acceptable(module), [process EXCEPT !.registry = Append(@, module)])

LoadPersona ==
    /\ process.pc = "persona"
    /\ Reads([process EXCEPT !.persona = files.persona,
              !.pc = IF PersonaAccepted(files.persona) THEN "models" ELSE "refused"])

LoadModels ==
    /\ process.pc = "models"
    /\ ReadsIf(ModelsAccepted(files.models),
               [process EXCEPT !.models = files.models, !.pc = "agents"])

LoadAgents ==
    /\ process.pc = "agents"
    /\ ReadsIf(\A name \in DOMAIN files.agents : AgentAccepted(name, files.agents[name]),
               [process EXCEPT !.declared = files.agents, !.pc = "connectors"])

(* With nowhere to keep a credential there is no connection layer, and no   *)
(* declared agent, and the file is not read.                                *)
LoadConnectors ==
    /\ process.pc = "connectors"
    /\ IF build.vault
       THEN Reads([process EXCEPT !.connectors = files.connectors,
                !.pc = IF ConnectorsAccepted(files.connectors) THEN "declaring" ELSE "refused"])
       ELSE Reads([process EXCEPT !.pc = "workflows"])

(* The names a directory holds are read in their order.                     *)
DeclaredIds == {process.registry[k].id : k \in (Len(build.product) + 1)..Len(process.registry)}
Unregistered(k) == Order[k] \in DOMAIN process.declared \ DeclaredIds

RegisterDeclared ==
    /\ process.pc = "declaring"
    /\ \/ /\ DOMAIN process.declared \subseteq DeclaredIds
          /\ Reads([process EXCEPT !.pc = "workflows"])
       \/ \E k \in DOMAIN Order :
            /\ Unregistered(k) /\ \A j \in 1..(k - 1) : ~Unregistered(j)
            /\ LET module == DeclaredModule(process.declared[Order[k]],
                                            process.models.embedding # "none")
               IN  ReadsIf(Acceptable(module), [process EXCEPT !.registry = Append(@, module)])

LoadWorkflows ==
    /\ process.pc = "workflows"
    /\ ReadsIf(\A name \in DOMAIN files.workflows : WorkflowAccepted(name, files.workflows[name]),
               [process EXCEPT !.workflows = files.workflows, !.pc = "up"])

Start ==
    \/ Boot \/ RegisterProduct \/ LoadPersona \/ LoadModels \/ LoadAgents
    \/ LoadConnectors \/ RegisterDeclared \/ LoadWorkflows

(* The process is replaced.  A start that was refused stays refused in its  *)
(* process: the promise of it is what the console keeps.                    *)
Restart ==
    /\ process.pc \in {"up", "refused"}
    /\ process' = Down
    /\ work' = IF work.kind = "tool" /\ work.pc = "held" THEN work
               ELSE IF work.kind = "run" /\ work.pc = "waiting" THEN work ELSE NoWork
    /\ UNCHANGED <<files, byHand, build, connected, pools, edits>>

-----------------------------------------------------------------------------
(* The files change. *)
Edits == edits < MaxEdits /\ edits' = edits + 1

(* saveAgentAction: a connector with nothing ticked is not granted, and what *)
(* the form does not ask for (remembersTo, the limit of iterations) is gone. *)
FromForm(form) ==
    [json |-> TRUE, shaped |-> form.shaped, id |-> form.id,
     grants |-> SelectSeq(form.grants, LAMBDA grant : grant.can # <<>>),
     memory |-> form.memory, remembers |-> FALSE, approveWrites |-> form.approveWrites]

(* Bug: a form is written as it was filled in. *)
SavesAnything(config) == TRUE

(* saveAgent: validated first; the file is named after the id. *)
Saves(config) == AgentParses(config)

Write(directory, name, file) ==
    [n \in DOMAIN directory \cup {name} |-> IF n = name THEN file ELSE directory[n]]

Without(directory, name) == [n \in DOMAIN directory \ {name} |-> directory[n]]

Kept == UNCHANGED <<build, process, connected, pools, work>>

SaveAgent(form) ==
    /\ Edits /\ Saves(FromForm(form))
    /\ files' = [files EXCEPT !.agents = Write(@, form.id, FromForm(form))]
    /\ UNCHANGED byHand /\ Kept

DeleteAgent(name) ==
    /\ Edits /\ name \in DOMAIN files.agents
    /\ files' = [files EXCEPT !.agents = Without(@, name)]
    /\ UNCHANGED byHand /\ Kept

(* save: the persona and the models by their parsers, with the persona's id  *)
(* left alone; the connectors by their shape.                               *)
SavePersona(p) ==
    /\ Edits /\ PersonaParses(p) /\ p # files.persona
    /\ files' = [files EXCEPT !.persona = p]
    /\ UNCHANGED byHand /\ Kept

SaveModels(m) ==
    /\ Edits /\ ModelsAccepted(m) /\ m # files.models
    /\ files' = [files EXCEPT !.models = m]
    /\ UNCHANGED byHand /\ Kept

(* Bug: whatever is JSON is written. *)
SaveConnectorsUnchecked(c) ==
    /\ Edits /\ c.json /\ c # files.connectors
    /\ files' = [files EXCEPT !.connectors = c]
    /\ UNCHANGED byHand /\ Kept

SaveConnectors(c) ==
    /\ Edits /\ ConnectorsShaped(c) /\ c # files.connectors
    /\ files' = [files EXCEPT !.connectors = c]
    /\ UNCHANGED byHand /\ Kept

(* Whoever prefers vim. *)
EditByHand ==
    /\ Edits /\ byHand' = TRUE
    /\ \/ \E p \in PersonaFiles : files' = [files EXCEPT !.persona = p]
       \/ \E m \in ModelFiles : files' = [files EXCEPT !.models = m]
       \/ \E c \in ConnectorFiles : files' = [files EXCEPT !.connectors = c]
       \/ \E name \in AgentId, file \in AgentFiles :
            files' = [files EXCEPT !.agents = Write(@, name, file)]
       \/ \E name \in WorkflowId, file \in WorkflowFiles :
            files' = [files EXCEPT !.workflows = Write(@, name, file)]
    /\ Kept

Reconnect(c) ==
    /\ Edits /\ process.pc = "up"
    /\ connected' = (connected \ {c}) \cup ({c} \ connected)
    /\ UNCHANGED <<files, byHand, build, process, pools, work>>

-----------------------------------------------------------------------------
(* A tool call, in a turn of one module, with the connection the model names. *)
Works(next) == work' = next /\ UNCHANGED <<files, byHand, build, process, connected, pools, edits>>

Has(id, name) == id \in Ids /\ \E tool \in ModuleOf(id).tools : tool.name = name

ToolOf(id, name) == CHOOSE tool \in ModuleOf(id).tools : tool.name = name

(* #settle: a gated call is held for a person, any other goes ahead.        *)
CallTool(id, tenant, name, c) ==
    /\ process.pc = "up" /\ work = NoWork /\ Has(id, name)
    /\ ToolOf(id, name).connectorId # "none"
    /\ Works([kind |-> "tool", pc |-> IF ToolOf(id, name).gated THEN "held" ELSE "guarding",
              module |-> id, tenant |-> tenant, name |-> name, connection |-> c,
              decision |-> IF ToolOf(id, name).gated THEN "pending" ELSE "none"])

Decide(decision) ==
    /\ work.kind = "tool" /\ work.pc = "held" /\ work.decision = "pending"
    /\ Works([work EXCEPT !.decision = decision])

(* The turn goes on under the module it is resumed with: a decision is only  *)
(* looked for when that module's tool of this name is gated.                *)
Settled(tool) ==
    IF ~tool.gated \/ work.decision = "approved" THEN "guarding"
    ELSE IF work.decision = "rejected" THEN "refused" ELSE "held"

Resume(id) ==
    /\ process.pc = "up" /\ id \in Ids
    /\ work.kind = "tool" /\ work.pc = "held"
    /\ Works([work EXCEPT !.module = id,
                !.pc = IF Has(id, work.name) THEN Settled(ToolOf(id, work.name)) ELSE "refused"])

(* Bug: the connection is the tenant's, of whatever connector. *)
GuardedByTenant(tool) == work.connection \in connected /\ OwnerOf[work.connection] = work.tenant

(* guard: the argument is the model's, so the row is looked up again.       *)
Guarded(tool) ==
    /\ work.connection \in connected /\ OwnerOf[work.connection] = work.tenant
    /\ ConnectorOf[work.connection] = tool.connectorId

Guard ==
    /\ work.kind = "tool" /\ work.pc = "guarding"
    /\ Works([work EXCEPT !.pc = IF Guarded(ToolOf(work.module, work.name))
                                 THEN "reaching" ELSE "refused"])

(* The manager finds the row once more, and the connector is asked.         *)
Reach ==
    /\ work.kind = "tool" /\ work.pc = "reaching"
    /\ Works([work EXCEPT !.pc = IF /\ work.connection \in connected
                                    /\ OwnerOf[work.connection] = work.tenant
                                 THEN "reached" ELSE "refused"])

-----------------------------------------------------------------------------
(* A module's pool, and another module asking about it. *)
Scope(tenant, id) == {entry \in pools : entry.tenant = tenant /\ entry.module = id}

Entry(tenant, id, key) == [tenant |-> tenant, module |-> id, key |-> key]

(* set and delete *)
KeepEntry(tenant, id, key) ==
    /\ process.pc = "up" /\ id \in Ids /\ Edits
    /\ pools' = pools \cup {Entry(tenant, id, key)} /\ pools' # pools
    /\ UNCHANGED <<files, byHand, build, process, connected, work>>

DropEntry(tenant, id, key) ==
    /\ process.pc = "up" /\ id \in Ids /\ Edits
    /\ Entry(tenant, id, key) \in pools /\ pools' = pools \ {Entry(tenant, id, key)}
    /\ UNCHANGED <<files, byHand, build, process, connected, work>>

(* #validate and the lookup of the owner: what cannot be honoured throws.   *)
RequestContext(requester, owner, tenant, purpose) ==
    /\ process.pc = "up" /\ work = NoWork
    /\ Works([kind |-> "context", requester |-> requester, owner |-> owner, tenant |-> tenant,
              purpose |-> purpose, shown |-> {}, traced |-> FALSE,
              pc |-> IF purpose # "" /\ requester # owner /\ {requester, owner} \subseteq Ids
                     THEN "asking" ELSE "threw"])

Discloses(id) == ModuleOf(id).discloses

(* The owner's own code decides what of its own pool it shows, or throws.   *)
Disclose ==
    /\ work.kind = "context" /\ work.pc = "asking"
    /\ IF Discloses(work.owner)
       THEN \/ \E shown \in SUBSET Scope(work.tenant, work.owner) :
                    Works([work EXCEPT !.pc = "granted", !.shown = shown])
            \/ \E pc \in {"denied", "threw"} : Works([work EXCEPT !.pc = pc])
       ELSE Works([work EXCEPT !.pc = "denied"])

(* The exchange is recorded, whatever the answer was.                       *)
TraceExchange ==
    /\ work.kind = "context" /\ work.pc \in {"granted", "denied"} /\ ~work.traced
    /\ Works([work EXCEPT !.traced = TRUE])

-----------------------------------------------------------------------------
(* A run of a workflow: the prompts are filled from what earlier steps said. *)
MissingAgents(w) == {w.steps[k].agent : k \in DOMAIN w.steps} \ Ids

StartRun(name) ==
    /\ process.pc = "up" /\ work = NoWork
    /\ name \in DOMAIN process.workflows /\ MissingAgents(process.workflows[name]) = {}
    /\ Works([kind |-> "run", pc |-> "running", workflow |-> name, done |-> {}, cause |-> "none",
              agents |-> Ids, config |-> process.workflows[name]])

(* render *)
Fills(quotes, done) == quotes \subseteq {Input} \cup {Answered(step) : step \in done}

(* The walk goes over what is done: the first step that is not is filled in, *)
(* and the agent it names is asked; a gate waits for a person.              *)
RunStep(waits) ==
    /\ process.pc = "up" /\ work.kind = "run" /\ work.pc = "running"
    /\ IF work.workflow \notin DOMAIN process.workflows
       THEN Works([work EXCEPT !.pc = "failed", !.cause = "no workflow"])
       ELSE LET steps == process.workflows[work.workflow].steps
                left == {k \in DOMAIN steps : steps[k].id \notin work.done}
                step == steps[CHOOSE k \in left : \A j \in left : k <= j]
            IN  IF left = {} THEN Works([work EXCEPT !.pc = "completed"])
                ELSE IF ~Fills(step.quotes, work.done)
                THEN Works([work EXCEPT !.pc = "failed", !.cause = "hole"])
                ELSE IF step.approve /\ waits THEN Works([work EXCEPT !.pc = "waiting"])
                ELSE IF step.agent \notin Ids
                THEN Works([work EXCEPT !.pc = "failed", !.cause = "no agent"])
                ELSE Works([work EXCEPT !.done = @ \cup {step.id}])

(* Resuming reads the workflow this process loaded, not the one it began as. *)
ResumeRun ==
    /\ process.pc = "up" /\ work.kind = "run" /\ work.pc = "waiting"
    /\ Works([work EXCEPT !.pc = "running"])

Finished ==
    /\ \/ work.kind = "tool" /\ work.pc \in {"reached", "refused"}
       \/ work.kind = "context" /\ (work.traced \/ work.pc = "threw")
       \/ work.kind = "run" /\ work.pc \in {"completed", "failed"}
    /\ Works(NoWork)

-----------------------------------------------------------------------------
Administer ==
    \/ Restart \/ EditByHand
    \/ \E form \in Forms : SaveAgent(form)
    \/ \E name \in AgentId : DeleteAgent(name)
    \/ \E p \in PersonaFiles : SavePersona(p)
    \/ \E m \in ModelFiles : SaveModels(m)
    \/ \E c \in ConnectorFiles : SaveConnectors(c)
    \/ \E c \in Connection : Reconnect(c)

ToolNames == {tool.name : tool \in UNION {module.tools : module \in Range(process.registry)}}

Work ==
    \/ \E id \in Ids, tenant \in Tenant, name \in ToolNames, c \in Connection :
            CallTool(id, tenant, name, c)
    \/ \E decision \in {"approved", "rejected"} : Decide(decision)
    \/ \E id \in Ids : Resume(id)
    \/ Guard \/ Reach
    \/ \E tenant \in Tenant, id \in Ids, key \in Key :
            KeepEntry(tenant, id, key) \/ DropEntry(tenant, id, key)
    \/ \E requester, owner \in Ids \cup {"stranger"}, tenant \in Tenant, purpose \in {"", "help"} :
            RequestContext(requester, owner, tenant, purpose)
    \/ Disclose \/ TraceExchange
    \/ \E name \in WorkflowId : StartRun(name)
    \/ \E waits \in BOOLEAN : RunStep(waits)
    \/ ResumeRun \/ Finished

-----------------------------------------------------------------------------
(* What a start accepts holds together: every candidate of every task has a  *)
(* provider that was built and can be reached, sensitive work never reaches  *)
(* a cheap model, a key for embeddings is never taken for a completion key,  *)
(* and no name stands for two modules or two tools.                         *)
ReferencesResolve ==
    process.pc = "up" =>
        /\ \A t \in DOMAIN process.models.routes :
            \A k \in DOMAIN CandidatesFor(process.models, t) :
                LET candidate == CandidatesFor(process.models, t)[k]
                    provider == process.models.providers[candidate.provider]
                IN  /\ candidate.provider \in Built(process.models)
                    /\ provider.kind = "anthropic" \/ provider.baseUrl
                    /\ t = "sensitive" => candidate.tier = "premium"
        /\ process.models.embedding \notin Built(process.models)
        /\ Cardinality(Ids) = Len(process.registry)
        /\ \A module \in Range(process.registry) : \A one, other \in module.tools :
                one.name = other.name => one = other

(* What stands in the way of a start although every file loads: a name of    *)
(* the code's, two tools of one name.                                       *)
Clash ==
    \/ \E k \in DOMAIN build.product : ~build.product[k].wellFormed
    \/ ~IsInjective([k \in DOMAIN build.product |-> build.product[k].id])
    \/ \E k \in DOMAIN build.product : build.product[k].description = ""
    \/ build.vault /\ \E config \in Range(process.declared) :
            \/ \E k \in DOMAIN build.product : build.product[k].id = config.id
            \/ Clashes(config, process.models.embedding # "none")

(* The secret lives elsewhere, and the console does not ask whether it does  *)
(* (config-files.ts, validate).                                             *)
SecretUnset == ~process.connectors.secretsSet

(* What the console writes although no start will have it, against what it   *)
(* says of itself ("a file that would not load never reaches the disk",     *)
(* config-files.ts:110): a persona copied and not renamed, whose id only    *)
(* loadPersona compares, and connectors of the right shape with an address, *)
(* a name or scopes that only the loader's schema looks at.                 *)
SavedUnloadable ==
    \/ PersonaParses(process.persona) /\ process.persona.id # PersonaId
    \/ ConnectorsShaped(process.connectors) /\ ~process.connectors.wellFormed

(* Whatever is saved in the console, in any order and while whatever runs,   *)
(* a start that no file was edited by hand for is refused for a clash, for a *)
(* secret that is not set, or for one of the two faults the console does not *)
(* look for, and for no other: models, agents and workflows it saved load   *)
(* (agent-files.ts saveAgent, config-files.ts save).                        *)
SavedStarts ==
    process.pc = "refused" /\ ~byHand => Clash \/ SecretUnset \/ SavedUnloadable

(* A run fails of what its files say only when they changed under it: the    *)
(* check at its start holds to its end (workflow-config.ts).                *)
RunsStayWhole ==
    work.kind = "run" /\ work.pc = "failed" =>
        \/ work.workflow \notin DOMAIN process.workflows
        \/ process.workflows[work.workflow] # work.config
        \/ ~(work.agents \subseteq Ids)

(* Only the owner answers for its context, of its own entries and of that    *)
(* tenant, and only one that opted in; what came of it left a step.         *)
DisclosedByItsOwner ==
    work.kind = "context" /\ work.shown # {} =>
        /\ ModuleOf(work.owner).discloses
        /\ work.purpose # "" /\ work.requester \in Ids \ {work.owner}
        /\ \A entry \in work.shown : entry.tenant = work.tenant /\ entry.module = work.owner

(* What was checked when a file was saved, a process started or an exchange  *)
(* began still holds where it is relied on: the four above.                 *)
Sound == ReferencesResolve /\ SavedStarts /\ RunsStayWhole /\ DisclosedByItsOwner

(* A call reaches a source only under a grant the running process read for   *)
(* that very connector and capability, on the tenant's own connection; and   *)
(* if the agent's writes wait for a person, one approved it.                *)
OnlyWhatWasGranted ==
    [][work'.kind = "tool" /\ work'.pc = "reached" /\ work' # work =>
        /\ OwnerOf[work.connection] = work.tenant
        /\ \E config \in Range(process.declared) :
            /\ config.id = work.module
            /\ \E grant \in Range(config.grants) :
                /\ grant.connectorId = ConnectorOf[work.connection]
                /\ \E capability \in Range(grant.can) :
                    /\ work.name = ToolName(grant.connectorId, capability)
                    /\ capability \in Writes /\ config.approveWrites => work.decision = "approved"]_deployment
=============================================================================
