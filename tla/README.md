# Verification of yas-harness

TLA+ models of the harness in `src/src` (and of what the console in
`src/console` changes), the TLC runs that check them on small instances, and
TLAPS proofs for every value of the constants. Paths below are relative to
`src/src` unless they start with `src/`.

1. [The system](#1-the-system): components, state, operations, what is hard
2. [The modules](#2-the-modules): what each models, state by state and action by action
3. [The runs](#3-the-runs): bounds, fairness, what each shows
4. [The proofs](#4-the-proofs): theorems, assumptions, the inductive invariants
5. [Divergences](#5-divergences): what the code does that its text does not say
6. [Not modelled](#6-not-modelled) and [what could come next](#7-what-could-come-next)

## 1. The system

yas-harness is a multi-tenant library for running language-model agents. A
product composes it in one process (`create-harness.ts`). Several such processes
share one PostgreSQL database, and inside a process JavaScript runs one callback
at a time, so two requests affect each other only between two `await`s, through
a table or through an object in memory that both hold. That is the grain of
every model here: **one action is what the code does from one await to the
next**, and anything may happen between two actions.

There are no transactions across components: a crash, or a rejected store call,
between two statements leaves the first one done.

### Inventory

| Component | State it keeps | Operations | Hard because | Correct when |
|---|---|---|---|---|
| Agent loop `core/agent.ts` | locals of one call; the conversation, in the session store | `run`, `resume`, the model/tool loop, the gate | the process may stop and a person may decide at any await; a pause is a return, and resume re-derives everything from the log | a held tool runs only when approved; a turn is settled as a whole; the model hears what was decided; a pause ends |
| Approval queue `approval/` | one row per held tool call | `request`, `forToolCalls`, `approve`, `reject`, `requestChanges` | two operators, a late retry, two workers asking at once | a decision is final; rows belong to a turn that exists |
| Workflow runner `workflows/workflow-runner.ts` | a row per run and per step | `start`, `resume`, `#drive`, `#gate`, `#step` | two drivers on one run from stale snapshots; three kinds of pause; a crash between sending and recording | a gate precedes its step; steps go in order; what was shown is what is sent; a finished run stays finished |
| Model gateway `models/routed-gateway.ts` | locals of one request | `complete`: keys, route, attempts, backoff, fallback | nested retries; keys that change under a request | candidates in order; the tenant's own keys used; every request ends |
| Provider availability `models/availability.ts` | per process: faults and cooldown of each provider and each tenant's credential | `blocked`, `recordFault`, `recordSuccess` | reports arrive late and in any order, shared by all tenants | a tenant's rate limit is its own; cooldowns are bounded; nothing is skipped for ever |
| Model keys `models/model-keys.ts` | sealed rows; a cached data key | `store`, `resolve`, `forget` | shares the tenant's data key with the credential vault | one data key |
| Connections `connections/connection-manager.ts`, `connection-onboarding.ts`, `oauth-token-refresher.ts` | a row with a status; the provider's tokens | connect, call, refresh, expire, disconnect | refreshes race each other and the disconnect; the provider rotates | a connection has its credential and no secret outlives it; callers that race keep its token refreshable; it is expired only when it must be |
| Credential vault `connections/credential-vault.ts` | the tenant's wrapped data key, cached per process; sealed secrets | `store`, `resolve`, `#dataKey` | two processes mint the key at once | every secret opens with the stored key |
| Connection cache `connections/cached-connections.ts` | snapshots with a fetch time | read, list, search, edits, `refresh`, `invalidate` | a snapshot fetched earlier is stored later; refresh prunes by a listing taken over many awaits | never behind what the product was told; prunes only what vanished |
| Connectors `connections/connectors/` | none but one cached site id | list, search, read, create, update, delete of 14 sources | an operation is several requests and people work in between; ids are parsed and built; cursors | a call nobody came between is answered truly and whole; a request touches only what the call names |
| MCP server `mcp/mcp-server.ts`, `mcp-approval.ts` | its options; the approval queue | `handle`, `tools/call`, `check` | clients repeat a call; the same arguments are the same request | a gated capability runs only when approved; one row per call; a decision reaches the client |
| MCP client `mcp/mcp-client.ts`, `http-mcp-transport.ts`, `connectors/mcp-connector.ts` | a bounded map of sessions | `initialize`, `listResources`, `readResource` | a session the server forgot; the oldest dropped under a call | a session is used by its tenant and connection only |
| Lifecycle `lifecycle/` | accepting flag, in-flight set | `run`, `drain`, signals, readiness | deadline against running turns | nothing admitted after draining began; closed after drained; the process exits |
| Trace and exporter `telemetry/` | the trace table; export queue, timer, closed flag | `record`, `flush`, `close` | two flushes at once; a full queue; close while another batch is on its way | a span is in exactly one place; one id is one step |
| Memory corpus `memory/postgres-memory-store.ts` | sources, documents, chunks | `ingest`, `search`, deletes, chunking, embedding | check, embed, replace: three awaits; embeddings answered out of order | chunks belong to the stored body; a search is true |
| Compression `compression/` | none | pipeline of engines behind a sensitivity gate | engines rewrite what the model sees, a cached prefix must not move | protected values survive; a call keeps its answers |
| Model providers `models/anthropic-*`, `openai-*` | none | translate a request, an answer, a failure | two wire formats, partial answers | the request on the wire is the conversation |
| Router `router/router.ts` | none | `route` | the model answers with anything | an answer names a registered module |
| Modules and agents `modules/`, `agents/` | registries, grants | registration, the tools of a grant, their guard | a tool call names a connection it was not granted; agents' ids and tools clash | only granted connections are reached |
| Context pools `pools/` | a row per value | `request` | a request may ask for what it has no grant for | only the owner discloses, and of that tenant |
| Workflow files, routing configuration, composition root, console actions | files | parse, save, load, start | a file accepted when saved is loaded later, beside others | what a start accepts holds together |
| Session stores, redaction, usage, tenants, envelope cipher, OAuth configuration, migrations and scripts | | | | see section 6 |

How they interact: a **turn** is `Agent.run`, which calls the gateway (keys,
route, availability; the request compressed and translated), stores in the
session store, asks the approval queue, and executes tools, most of which are
connection operations: cache, then manager, then refresher, then vault, then the
connector and its source. A **workflow step** is a turn of an agent with a gate
of its own in the same approval queue. The **MCP server** offers the connection
operations to outside clients and may gate them through the approval queue too;
an MCP server elsewhere is one more source, through the **MCP client**. Agents
and workflows are **files** the console edits and a start loads. Everything
writes telemetry and nothing waits for it; a **shutdown** drains turns and
closes the exporter and the pool under them.

## 2. The modules

One module per component; `MC*` modules hold only model values and definitions
for TLC; `*Proofs` modules hold the theorems. Three of them are about two components
that meet: a connection and the calls through its connector, the gateway and the
memory whose texts it embeds, turns and the shutdown that drains them. So
`Connectors`, `Knowledge` and `Shutdown` call their initial predicate, next-state
relation and specification `ConnectorsInit`, `KnowledgeNext`, `ShutdownSpec` and so
on. `ConnectorAnswersProofs` continues `ConnectionsProofs` with the answers of calls.

```
ApprovalStore ──► AgentTurns ──► MCAgentTurns, TurnsAndShutdownProofs
      │               └──(refines)──► ApprovalGate
      └─(INSTANCE)─► McpServer ◄── McpConnector        ──► MCMcpServer, McpServerProofs
WorkflowRunner ──► MCWorkflowRunner, WorkflowRunnerProofs
Availability ──► RoutedGateway ──► MCRoutedGateway, GatewayAndMemoryProofs
Connections ──► MCConnections, ConnectionsProofs
CachedConnections ──► MCCachedConnections, CachedConnectionsProofs
SourceRequests ──► Issue-, Document-, Message-, ScheduleSources ──► Connectors ──► MCConnectors, ConnectionsProofs ──► ConnectorAnswersProofs
Corpus ──► Knowledge ──► MCKnowledge, GatewayAndMemoryProofs
TraceExport ──► Shutdown ──► MCShutdown, TurnsAndShutdownProofs
Compression ──► Providers ──► ModelCalls ◄── Deployment     ModelCalls ──► MCModelCalls, ModelCallsProofs
```

Where a module holds a definition that says "Bug:", it is a plausible mistake in
the definition after it, kept so that a property can be shown to notice it
(`mutants` in `PROJECT.json`).

### ApprovalStore, ApprovalGate, AgentTurns

`ApprovalStore` is the table: `approval[s][c]` is the status of the row for call
`c` of session `s`. `Request` inserts rows and is disabled when one exists (the
UNIQUE constraint); `Decide` is the `WHERE status = 'pending'` update of the
three decisions.

`AgentTurns` adds the conversations (`log`), the locals of every call into the
agent (`worker[w]`) and history: `issued` (which registry offered a call), `ran`
(how often its tool was really executed), `disciplined` (nobody has talked over
a pause or overlapped a call so far).

| Action | Code |
|---|---|
| `Run`, `Resume` | `agent.ts` `run` and `resume`, up to the first await after the turn is stored or found |
| `ModelAnswers`, `ModelFails`, `StoreAnswer` | the gateway's reply, the stop reason, the stored assistant turn |
| `CheckDecisions` | `#settle`: read the rows, ask for missing ones, pause, or go on with that snapshot |
| `RequestApprovals` | the insert; a row in the way rejects the whole call |
| `RunCall` | one tool of the turn: executed, refused, or answered with an error |
| `StoreResults` | the result turn and the budget |
| `Operator`, `Crash` | a decision; a call that dies |

`ApprovalGate` is the promise: calls are issued open or held, people are asked
about held ones and answer, and a held call is performed only when approved.
`AgentTurns` refines it (`ImplementsGate`) under `gate <- GateOf`.

### WorkflowRunner

`run` and `row[i]` are the rows of the run and its steps, `gates` the approvals
the runner itself asked for, `turns` the messages it sent to agents (with what
the prompt quoted), `driver[d]` the locals of one call of `start` or `resume`
with the snapshot of the rows it read. Actions follow `#drive` await by await:
`ReadSteps`, `ReadGate`, `Ask`, `NoteGate`, `Send`/`ResumeTurn`, `TurnEnds`,
`RecordAnswer`/`RecordPause`/`RecordSkip`/`RecordFailure`, `EndDrive`. `Upsert`
is the ON CONFLICT clause, column by column. A turn keeps the gate it was let
through by, which is what `SentOnApproval` and `ApprovalIsSpent` speak of; a request
for changes lets a step go in the code, and is the one exception, `ChangesIgnored`.
`overlaps` counts the resumes
started while somebody else was driving: properties that hold only for one
driver at a time say `overlaps = 0`, the others do not.

### Availability, RoutedGateway

`Availability` is `availability.ts` as operators on one scope's memory: faults,
cooldown and what is left of it; time is counted in ticks. `RoutedGateway` has
`memory[x]` for every scope (a provider, or a tenant's credential for a model),
`keys[t]`, and the locals of each request; `Choose`, `Unseal`, `Answered`,
`CallFails`, `Remember`, `Wake` follow the three nested loops of `complete`.
`held[w]` is history: the keys the tenant had all the while a request was served,
and those it had at some time; `ChangeKey` updates it, so that `OwnKeysOnly` can
speak of keys that come and go between the read and the call.

### Connections

One connection of one tenant, several processes. `row`, `sealed`, `dek` and
`modelKey` are tables; `cache[v]` is the data key each vault object holds in
memory (each process has two, for credentials and for model keys); `live`,
`honoured`, `issued`, `rotates` are the OAuth provider. The data key is the
interesting part: `FindKey`, `EnsureKey` (INSERT ... ON CONFLICT DO NOTHING, then
the re-read) and `Seal` are three awaits that processes interleave.
`Disconnect` and `RemoveRow` are the console's action with the cascade.

### CachedConnections

One connection's cache over a source that others write. A version is the number
of the write that made it. `cache[i]` holds version, whether the snapshot has its
content, and whether it is younger than the TTL. `Put` is the write-back of
every operation: it comes after the answer of the source, so it may store
something older than what is there. `Page` takes any part of what the cursor has
not passed: sources reorder, and list what is there at that moment. `floor`,
`straggles`, `missed` and `quiet` are history: what the product was told, whether
an older snapshot was then in flight, what was away at some time during a
refresh, and whether the refresh had everything to itself.

### SourceRequests, the sources, Connectors

The fourteen connectors do the same thing in fourteen dialects: an operation is
a **script**, a sequence of HTTP requests, each answered before the next is
sent. `SourceRequests` names the requests and what the transports make of an
answer; `IssueSources` (Jira, GitHub's four), `DocumentSources` (Notion, Drive,
Confluence), `MessageSources` (Slack, Teams) and `ScheduleSources` (Google
Calendar, Cal.com, Calendly) translate each connector: how an id is built and
parsed back, what is refused before anything is sent, the script of every
operation, the cursor. `Connectors` has one source (chosen in `Init`), the items
in it, their place in its listings (`Order`), and the calls: `Address`, `Walk` and `CreateIn` start one, `Send` has the
source answer its next request (`Effect`, `Status`), `Fault` is a refusal or a
lost answer, with the request done or not, `Edit` is what people do meanwhile.
`calm`, `before` and `seen` are history. A block of a Notion page is what it says;
dropping one drops one, also where two say the same.

### McpConnector, McpServer

`McpConnector` is the client's side: `sessions` is the insertion-ordered map,
`RoomAfter` its bound, `link[w]` one `list` or `read` in flight. `Initialize`,
`Notified` and `Answers` are its three kinds of request; `alive` and `opened` are
the external server, which may hand out no session id and may forget any
(`Forget`). `McpServer` extends it with the server's side: `Init` takes every
deployment the constructor `Accepts`; `Message` is a JSON-RPC message that is no
tool call; `CallTool` parses and hands over to `Check`, `Record` (the insert,
which fails on a row in the way), `RunTool`/`SourceRefuses`, or to the connector
(`ReadRemote`, `Handshake`, `RemoteAnswers`). The queue is the `ApprovalStore` of
the agent loop, instantiated with tenants for sessions and calls for tool calls.

### TraceExport, Shutdown

`TraceExport` composes the table that numbers a turn's steps with the exporter:
`StartStep`/`StepStored`/`StepRefused` are `record`, `Enqueue` the queue and its
bound, `TimerFires`, `Sent` and `FlightEnds` the flushes (several batches may be
on their way), `Close` and `CloseGoesOn` the final one. `Shutdown` adds turns,
the drain with its deadline, the handler from signal to exit code, the closing
of the exporter and then of the pool, and readiness with its probe.

### Corpus, Knowledge

`Corpus` is the store: the chunker on texts that are paragraphs of sentence
lengths (`Split`, `Pack`), batches of embeddings with the order their answers
come in, the transaction (`Upsert`), the deletes with their cascade, the two
rankers as far as their weights decide (`Found`, `Outranks`, `Page`).
`Knowledge` runs the calls that use it side by side: `memory_search`,
`memory_remember`, a document added in the console and an import of a
connection's resources (`Begin`, `FindSource`, `List`, `Read`, `Check`, `Embed`,
`Commit`, `SearchMemory`, `SearchFirst`), while people make, delete, edit and
paste or remove a key (`Meanwhile`) and a read, an embedding or a commit fails
(`Trouble`). An import lists and reads through the connection's cache, `cached`: its
listing stores what it lists (`Warmed`), and a read serves a snapshot or asks the
source (`Served`), of which `Takes` passes over what has no text. Asking and storing
are one step; the write-back of somebody else that comes late, an older content or
none, is one of the things others do. How old a snapshot is is left out: any may be
served or not (`CachedConnections` has the freshness, and one resource's races).

### Compression, Providers, Deployment, ModelCalls

`Compression` is the pipeline as pure functions on lines: three engines, the
multisets of protected values the gate compares (`Safe`), and `Compress` with the
declared prefix left alone. `Providers` is what the two adapters make of a
request, of an answer and of a failure. `Deployment` is the configuration: the
persona, the models, the connectors, the agents and the workflows; for each what the
loader of a start asks (`PersonaAccepted`, `ConnectorsAccepted`, ...) and what the
console asks before it saves (`PersonaParses`, `ConnectorsShaped`: less, for those two);
edits by hand; the start as its sequence of reads (`Boot`, `LoadPersona` ... `Start`); and one piece of work at a time done with what was
read: a tool call through its guard, a request for context, a run of a workflow
that may outlive the file it was started from. `ModelCalls` composes them into
conversations: `Route`, `Say`, `Call` (compress, translate, send, translate back),
`Answer`, `Fail`, `RunTools`, and `Evaluate`, which judges the same pipeline.


## 3. The runs

`TypeOK` is checked of the modules whose type invariant the proofs rest on.
No run needs state constraints: every bound is a constant that a guard names.
Messages, edits, overlaps and writes bound what callers start; crashes, faults,
troubles and rejections bound what goes wrong. Four bounds are inside a call:
`MaxTokens` disables the provider's answer to a refresh (which may then still be
refused or lost); `MaxOpened` is the number of sessions an outside MCP server
ever opens; `MaxGates` and `MaxTurns` of the workflow runner are large enough
that no driver waits at them: `RunsEnd`, checked in the same run, would fail; and
`MaxPauses` bounds how often one turn pauses for its own tools before it answers.

| Run | Instance | Shows |
|---|---|---|
| `AgentTurns_open` | 1 session, 2 workers, 3 calls (one held, one open, one with invalid arguments), 2 messages, 1 crash; fairness | `GatedNeedsApproval`; `TurnsFollowTheQueue`: all-or-nothing settling, refusals reach the model, rows belong to a turn; `PausesAreServedOnce` and `PausesEnd` while callers are disciplined; refinement of `ApprovalGate` |
| `WorkflowRunner_shared` | 2 steps, the second gated, 2 drivers, 1 overlap, 1 crash or rejected store call, 1 agent pause; fairness | `SendingIsGated`: a gated step goes on an approval of its own, which no other turn used (an ignored request for changes named), in order, as it was shown; `RunsAreWhole`: complete, stopped at a failure, nothing twice without a reason; `RecordsStand`; `RunsEnd` |
| `RoutedGateway_shared` | 2 requests, 2 tenants, 1 provider | `NeighboursUnaffected`: a rate limit stays its tenant's; `CooldownBounded`: waits are bounded |
| `RoutedGateway_fallback` | 1 request at a time, 2 models of 2 providers, every set of keys, one completion provider's coming and going; no Retry-After; fairness | `FallbackIsOrderly`: models in the order of the route, nothing after a refusal; `OwnKeysOnly`: the tenant's own keys are used, whatever moves meanwhile, but for two named cases; `RequestsEnd`: requests end, and what is skipped is asked again |
| `Connections_shared` | 2 callers in 2 processes, 3 tokens, 1 rejected write, 1 crash | `OneDataKey`; `SecretGoesWithRow`; `ConnectionsWork`: a connected row has its credential, stored tokens stay refreshable under races, and a row is expired only when its token cannot be refreshed (one race and unanswered refreshes named) |
| `CachedConnections_shared` | 2 callers, a top-level resource and a nested one, flat and hierarchical sources, 2 pages per refresh, 1 write | `CacheKeepsUp`; `RefreshIsHonest`: prunes only what vanished, converges |
| `CachedConnections_listed` | 1 caller | **violated**: `ReadPopulated`, a read is served its content |
| `Connectors_sources` | 14 sources, a caller that asks anything and one that competes for a resource, 2 pages of blocks, 1 trouble; fairness | `AnswersAreTrue`, `OnlyNamedFieldsChange`, `CallsEnd` |
| `McpServer_gated` | 2 messages at a time, 2 tenants, 5 different calls, 4 deployments, 1 fault, a map of 1 session, 2 sessions opened; fairness | `WritesWereApproved` (and are the right tenant's); `RepliesReflectTheQueue`: who is told to wait had no approval or rejection when it asked; `DecisionsReachTheClient` |
| `Shutdown_drain` | 2 turns of 2 steps, batch/queue 2/3 and 3/1, 1 fault; fairness | `SpansAreAccounted`; `ClosedAfterTurns`: nothing is closed under a turn that was waited for; `ShutdownEnds`: the process exits |
| `Knowledge_shared` | an agent with 1 call and the console with 2, 4 texts, 2 resources, chunks of 10 with overlap 3, batches of 2, 2 results, 1 trouble; one resource listed with its content and one without, one snapshot others may store; fairness | `CorpusIsWhole`; `AnswersAreTrue`: undisturbed calls tell the truth (an import passes over, uncounted, only what its own listing stored without content); `CallsEnd` |
| `ModelCalls_translated` | 3 profiles × 2 providers, 4 messages, 2 cases, 1 failure, 2 edits; serving, evaluating or administering | `RequestsStayTrue`; `PrefixNeverMoves`; `OutcomesAreTrue`; `Sound`: what was checked at a save, a start or an exchange still holds where it is relied on; `OnlyWhatWasGranted` |

Why the bounds are enough. Two workers, drivers, requests, messages or callers
is where every race named in the hazards starts, and each of them is between
two. Two calls in a turn are needed for "all or nothing" and for a crash *between*
calls; the third, with invalid arguments, reaches the refusal that is not a
decision. Two messages (in `AgentTurns_open`) let a pause be buried by a new
one. Two workflow steps, the second gated, let a prompt quote an earlier answer
that changes after the approval. A fault threshold of 2 with cooldown 1 and
ceiling 2 reaches the doubling and the ceiling, and a Retry-After of 3 exceeds
it. Three tokens are the first, one refresh, and a refresh by a caller who lost
the race. One write separates "before" from "after", which is all `CacheKeepsUp`
compares. A container, two items and what each caller creates, with limits 1 and
2, give every listing a last full page and one that is short; 2 pages of blocks
reach the cap. A map of one session is full with the first. A queue shorter than
a batch never fills one; one longer than a batch leaves a rest. Texts of less
than a chunk, of several, with a sentence longer than a chunk, and of nothing
are the four shapes the chunker tells apart; two that state one fact are the
duplicate. Four messages are a question, an answer with calls, their results and
the answer after them. Every instance but `CachedConnections_listed` fires every
disjunct of the next-state relation it checks or leaves it to a sibling run.

Deadlock is not checked where the system really may stop: nobody has to send a
message, and the bounds end what callers start. `CachedConnections` never stops
(webhooks keep coming), and there it is checked.

**Fairness.** Safety assumes none. `AgentTurns!FairSpec`: a call in progress
goes on (promises resolve: the gateway and the stores have timeouts or fail), an
undecided approval is decided by somebody, and a session that can continue is
resumed, which is the product's part of the contract (ADR-0004).
`WorkflowRunner!FairSpec` is the same with the runner's gates and `resume`.
`RoutedGateway!FairSpec`: a request goes on and time passes. `ConnectorsFairSpec` and
`KnowledgeFairSpec`: a call goes on. `ShutdownFairSpec`: the handler goes on, its deadline
included, and a step that is being written comes back; no turn is fair, since
the point is that turns may hang. `McpServer!FairSpec` alone has strong
fairness, on a client that keeps making the same call (`SF`, for the call is
possible again and again but not always: other messages are in the way). A
crash, a fault or a person's edit is never fair.

## 4. The proofs

| Theorem | Says, for every value of the constants |
|---|---|
| `TurnsAndShutdownProofs!TypeCorrect` | the type invariant |
| `TurnsAndShutdownProofs!GateHolds` | a held tool that was executed had been approved |
| `TurnsAndShutdownProofs!DecisionsFinal` | no step changes a decision |
| `TurnsAndShutdownProofs!LoopImplementsGate` | the loop refines `ApprovalGate` when turns are resumed as the module that ran them |
| `TurnsAndShutdownProofs!TurnsFollow` | turns of a session follow its queue, and what the model is told of a call is what was decided and done |
| `TurnsAndShutdownProofs!ServedOnce`, `PausesStay` | a call is answered once, a paused turn stays one that can be resumed, and no call runs twice but for a crash |
| `WorkflowRunnerProofs!SendsAreGated`, `RecordsAreKept` | every turn of a gated step rests on a gate of that step that was approved, or answered with a request for changes; order, what was shown, and one turn to an approval while nobody overlaps; recorded outputs and finished runs stay |
| `WorkflowRunnerProofs!RecordsAddUp` | a finished run is whole, and no step was sent or asked about more often than something went wrong |
| `ConnectionsProofs!TypeCorrect`, `SecretsAreReadable`, `SecretsGoWithRows` | types; one data key; no secret without its row |
| `ConnectionsProofs!ConnectedWorks` | a connected connection has a credential; one nobody works on can be refreshed while its provider honours anything; an expired one cannot, unless a refresh got no answer or calls raced at a provider that rotates |
| `ConnectionsProofs!CallsKeepToTheirFields` | through every connector, a call touches its own resource only, of it only the fields it names, and says "not found" of nothing that is there |
| `ConnectorAnswersProofs!ConnectorAnswersTrue` | a call nobody came between is answered truly and whole: what was read is what is there, what was written is written, a listing saw all there is |
| `CachedConnectionsProofs!TypeCorrect`, `CacheStaysCurrent`, `RefreshesAreHonest` | types; the cache keeps up; a refresh prunes only what was away, and converges |
| `McpServerProofs!WritesAreApproved`, `RepliesAreTrue` | no write without its decision; a reply says what the queue says, and tells an approval or a rejection that stood when the call came in; sessions stay with their tenant and within their bound |
| `GatewayAndMemoryProofs!TypeCorrect`, `CooldownsAreBounded`, `RateLimitsAreTheTenantsOwn`, `OwnKeysAreUsed` | types; bounded waits; isolation of rate limits; a tenant's own keys are used, whichever come and go |
| `GatewayAndMemoryProofs!FallsBackInOrder` | models are tried in the route's order, each at most so often, none after a refusal |
| `GatewayAndMemoryProofs!CorpusStaysWhole` | every document has the chunks of its body, cut as asked and leaving out nothing but spacing, with their own vectors; no resource twice |
| `GatewayAndMemoryProofs!AnswersStayTrue` | an import, a search or a remember nobody came between answers what is true of the corpus; an import passes over, uncounted, only a resource without text or one its own listing stored without content |
| `TurnsAndShutdownProofs!ShutdownTypeCorrect`, `TurnsGoFirst`, `SpansCounted` | types; nothing is closed under a turn that was waited for; every span is in one place or reported |
| `ModelCallsProofs!DeploymentIsSound` | what a start accepted holds together; saved files start, but for a clash, an unset secret and two faults the console does not look for; runs and exchanges keep to what was checked |
| `ModelCallsProofs!GrantsAreTheLimit` | a source is reached under a grant only, on the tenant's own connection, approved if it waits |
| `ModelCallsProofs!OutcomesTrue` | routings, failures and the gate of the evaluations are what is reported of them |
| `ModelCallsProofs!PrefixStays` | a cached prefix begins every later request that declares no less |
| `ModelCallsProofs!RequestsTrue` | what is sent is the conversation: calls with their answers, protected values as they were, errors whole |

They rest on the ASSUMEs of the modules, all of which TLC evaluates. Of those,
`KindAssumption` and its like give types, `FilesAssumption` and `ProductAssumption`
say what a deployment begins as (*Deployments* below), `TextAssumption` and `NamesAssumption`
what texts and names are (*The memory*, *Connectors*); four restrict behaviour, and the
theorem that needs one says so: `KeepsScope` (a turn is resumed as the module
that ran it), `GateAgrees` (or no registry offers the call ungated),
`DistinctBatches` for `ServedOnce` (no answer of the model names one call twice)
and `OnceEach` for `FallsBackInOrder` (no route names a model twice). The code
checks neither of the last two: an answer with one id twice would have its tool
executed twice under one decision, a route with one model twice would try it
twice over. `PausesStay` is what remains of `ServedOnce` without the first.

*The gate.* `GatedNeedsApproval` is not inductive: that a tool was executed says
nothing of the next one. What makes it inductive is that the loop acts on a
**snapshot** of decisions. `GateInv` adds: calls stored in a conversation or held
by a worker were issued by a registry that agrees on whether they are held
(`StoredCallsIssued`, `ServedCallsIssued`); a snapshot, where it says decided, is
what the row says still (`SnapshotsCurrent`, which needs that decisions are
final); and a call nobody issued has no row and never ran (`UnissuedUntouched`).
The step lemma has one case per action. Since nothing is assumed of `HasQueue`,
the theorem covers the harness without an approval store: a held tool is never
run there.

*Turns.* `TurnsFollowTheQueue` and `PausesAreServedOnce` speak of conversations,
and the proof ties each call's locals to them. `TurnInv`: no call belongs to two
turns, stored or about to be (`TurnsApart`, `FreshApart`, which need that calls
in flight have no turn yet); what is settled or run is stored; and what a running
turn has found out is what the gate says of its snapshot (`OutcomesTrue`).
`PauseInv` is for callers that neither talk over a pause nor overlap: then the
turn that is settled is the session's last message, a turn being asked for has no
pause behind it, results come right after their turn, and a call ran at most once
for every crash, and once more if it is answered or some running turn has come
past it (`RunsCounted`).

*Refinement.* Every action of `AgentTurns` is one of `ApprovalGate` or a stutter:
`StoreAnswer` is `Issue`, `RequestApprovals` is `Ask`, `Operator` is `Answer`,
`RunCall` is `Perform` or a stutter. `GateInv` supplies the guards.

*The workflow runner.* A driver acts on a snapshot too, and other drivers write
the same rows. `RunInv` separates what survives that from what does not. Gates
are appended and decided once, turns are appended and end once (`GatesGrown`,
`TurnsGrown`): so what a row or a snapshot names is there, of its step, and ended
(`RecFine`), and what a driver's stage concluded stays true whatever happens
(`DriverFine`, `DriverStays`). Only what was *shown* needs more: while nobody
overlaps, one driver at a time is active (`Solo`), its snapshot is the table but
for the step it stands at (`Agrees`), and a gate that is waited for showed what
the rows before it hold (`RowsShown`), for those are completed and a completed
row is not written again. That the step a driver stands at is the *first* that
is not completed (`AtIsFirst`) rests on the library's theorem that a relation
that is well-founded has minimal elements (`NatMin`).
That an approval is spent by one turn is `SpentInv`: a gate that a row or a
driver still names has no turn, for `Send` writes the row without its gate.
`RecordsAddUp` counts: each step is sent once and asked about once but for the
troubles, by where its row and the driver that stands at it are (`WholeInv`). A
driver says something only while it is alone, so it is stated of one that is, and
the step lemma of each action shows what the tables need, then what the driver
needs, then that a driver that begins finds it (`Spare`).

*Data keys.* `OneDataKey` is strengthened with `KeysHeld`: what a vault caches,
and what a call is about to seal under, is the stored key. The INSERT that loses
re-reads, which is what makes it hold for the loser too.

*Refresh tokens.* With a provider that rotates, the stored token is not the
honoured one while a refresh is under way, so `ConnectionsWork` says nothing of
that time and is not inductive. `WorkInv` says who holds it then: if the stored
token is stale, some call is about to store the honoured one, it is the only one,
and nobody else has read it (`HonouredIsHeld`); a call that connects is alone
with its token until it is stored (`ConnectsAlone`); a token that was read was
issued (`TokensIssued`), so that the next one is not among them. A token is lost
only by a failure the model counts. That a row is expired only for a token that cannot
be refreshed has two reasons (`ExpiredInv`): a provider that does not rotate honours one
refresh token, which everybody holds, so whoever is refused it speaks for all
(`GrantIsSpent`); at one that rotates, a caller that is alone holds what is stored
(`LoneCaller`). Two that raced are the exception the property names (section 5).

*The cache.* Two parts. `CacheInv`: a snapshot under way is never newer than the
source, and is older than what the product was told only where `straggles` says
so (`Carries`), by the stage of the call (`Shape`). `WatchInv`: what a refresh has
not seen of what its cursor passed was away at some time, and while it has
everything to itself, what it has seen is what the source holds; with it the step
that prunes does only what `RefreshIsHonest` allows.

*The MCP server.* A row only ever moves from none to pending to a decision
(`RowsStand`), so what a message concluded from the row it read (`Proper`) stays
true until it acts, whatever others do; so does what the queue had said when its call came
in (`stood`); `RunsAllowed` is then kept by the step
that reaches the source. The first lemmas are the client's half: every session
in the map, and every handle a call is about to use, was opened with that
tenant's credential for that connection (`LinkInv`), also when the map drops or
overwrites entries and the server forgets sessions.

*The gateway.* `CooldownsAreBounded` is by cases on what a report does to one
scope; `RateLimitsAreTheTenantsOwn` is an action property from the type
invariant; `Underway` places the locals of every request on its route; for
`OwnKeysAreUsed`, `HeldInv` holds what a request read, and what its tenant has now,
between the keys it had all along and those it ever had (`Bounds`), through every
change of a key; a request carries what it read unchanged to its end (`Carries`). `FallsBackInOrder`
keeps the calls a request made next to where it stands (`TriedFine`): they are of
candidates up to the present one, those of the present one are the last, no more
than its attempts, and none of them was refused for the key or the request.

*Shutdown.* `ShutInv` places every span: the queue, the batches in flight, the
batch `close` holds, the collector, what was given up and what was refused are
apart, and together hold what was recorded (`Placed`). `Told` says what that is:
finitely many spans, and for every step that was handed over exactly one held
span, numbered by the table as long as no write failed. `Tidy` says what `close`
has at each of its stages. Lemmas on the places alone say what taking a batch out
of the queue, putting a span in and a batch's end do to them, with the library's
facts on finite sets for the counts. `StepsCounted` ties each turn's steps to the
spans of it that were numbered, and `Stops` orders the handler's stages: what is
closed is closed after the drain, and who still runs then was given up on.
Nothing is assumed.

*Deployments.* None of the four parts of `Sound` is inductive: they speak of a
process that is up, and of work that relies on something read long before.
`StartInv` follows the start: at every stage, what the process has read so far is
what its own parser accepted (`ReadAt`), and its registry is the code's modules,
in order, followed by declared agents, no id among them twice (`Registry`). Of
the files on disk it says only that they pass what the console checks while nobody
edited one by hand (`SavedFilesLoad`), so a start that refuses one all the same does so
for what the console does not look at; the process keeps what it *read*, so an edit disturbs nothing
that is up. `WorkInv` is what a piece of work in flight relies on: a call that goes
to its guard is of a tool its module has now, approved if that tool is gated, and
one past the guard was granted (`WasGranted`), also when it was held across a
restart under another registry, for the resume looks the tool up again; an
exchange has both its modules registered; a run has no step whose agent was
missing when it began. That the first step left to do quotes only what is done is
no invariant but a lemma on what the parser accepts (`NoHoles`). A restart keeps
only what waits, and that relies on nothing read. Three assumptions state
what the code promises of what is outside this model: a deployment begins with
files the console would save (`FilesAssumption`; nothing else is ever saved, and
edits by hand are actions); a module of the code brings a registry without two
tools of a name, for `ToolRegistry.register` throws on the second, and the tools
of its own name no connector (`ProductAssumption`); `"none"` is no connector's id.

*Model calls.* `ToldInv` for `OutcomesAreTrue`: every decision that chose, chose
an id of the registry, which no step of a serving process changes; what a failure
became is what the adapter makes of its cause; a case judged as passed was left
what it expects. The converse needs no induction over text: a case whose baseline
passed and that did not regress passed compressed. `PrefixNeverMoves` relates two
requests, so `SentInv` remembers how the last one was made: of a beginning of the
conversation, with some number declared (`Remembered`), and a conversation only
grows. Compression leaves the declared messages alone whatever the profile does
to the rest (`DeclaredStays`), and an adapter marks no more than that
(`MarkedIsDeclared`): so both requests begin with the same messages, translated
one by one. That one needs nothing about what compression does to the others.

`RequestsStayTrue` needs all of it, for every text. *Values.* The gate compares
multisets: that no token has become rarer, or none more frequent. What has to be
shown is that the first check excludes new values where a lossless engine passed
only that one: such an engine leaves as many values and as many fences as there were
(`Becomes`), so the counts have one total, and where nothing is missing
nothing is new. A lossy engine passes the second check itself, and runs under
"aggressive" only. *Errors* are followed line by line through each engine.
*Exchanges.* `ConversationInv` says of every message of a conversation that its
calls come last and that, unless an answer was cut short, the next message
answers each of them and nothing else (`HistoryInv`); compression leaves the kinds,
ids and order of parts alone, and each translation moves them by message only
(`Resembles`), so on the wire only calls and answers stand between a call and its
answer. Flattening, and the sums behind the counting, are shown step by step over
sets of numbers, as for the chunker below.

*Connectors.* `OnlyNamedFieldsChange` holds for what a *script* may send, whatever
the connector. The first half of the proof is about the connectors alone: every
script of every operation sends only requests of its operation (`Scripts`: a read
never writes, an update puts only what the patch names or what it has read), and
the container a resource names as its parent is the one it is in (`ParentIsTop`),
for any text the source uses as a name, provided that what the connector joins
with a separator does not hold it (`NamesAssumption`: what the sources document of
their ids; a Notion page's container is a database there, for section 5 says what
becomes of the other kind). `ConnectorsInv` is what a running call has left to send. It does not
suffice for Confluence, which sends a title and a body back that it read before:
there the invariant says that what was read of the page is what the page still is,
or the page has moved on to a higher version, or is gone (`Recent`), and the
version that goes with the write then has it refused. For that, versions may only
grow (`Ages`), so nothing that was deleted may come to be again: what a caller
has not made yet is absent, and nobody reads it (`Unmade`). Each step is of one
call; what it leaves of the others is one lemma (`MeanwhileAside`).

`AnswersAreTrue` says something of a call that ends only. `Truth` says of every
call that is still alone (nobody changed the source since it began, and nothing of
it was refused or lost) how far it has got (`OnItsWay`). A reading has the title of
the resource and the first pages of its body, and is not past its end (`Leaf`). In
an update, each field is as it was before or as the patch says, by what is left to
send (`Left`, `Written`); in the rewriting of a Notion page, the blocks still to
drop are the first of those the page still has, so that nothing of the old body is
left when the new one is appended, unless it was longer than the cap
(`Rewriting`). A creation has made its thing, or has the request that makes it
still to send (`Creates`). A listing has seen exactly the resources whose place in
it is before its cursor (`Lists`), whatever the cursor is made of: an offset, a
page number, or a token. That one is where the fourteen sources differ most, and
what is shown of each is that its cursor is the end of the page, or none where the
page was the last (`Follows`, `NextPage`); that something is at every place below the
length of a listing (`PlacesAre`, `PageCount`) is by the library's facts on finite
sets. The proof has a lemma for each operation on what one answer does to a call
(`ReadGoes`, `ListGoes`, `CreateGoes`, `UpdateGoes`, `DeleteGoes`) and one on what a
call that is refused may say (`RefusedIsHonest`): its resource was not alive when
it began, for it has not changed since; the container it was given is gone; or it
sent nothing. Anybody else's step ends that a call is alone, or leaves the source as
it was (`OthersTrue`).

*The memory.* `CorpusIsWhole` has a half about the chunker and one about the store.
The chunker's is about what recursive functions give for every text. The library's
induction theorems take an operator and cannot be used here; the proofs take the
set of numbers where the claim fails, and its least member (`Climbs`). In this way
functions defined step by step exist (`StepByStep`), totals add up (`TotalJoined`),
flattening keeps what is in the parts (`FlattenChars`); then a sentence, a
paragraph and a text lose nothing but spacing when they are split (`TextIsSplit`),
and packing keeps chunks within their size and all of the pieces (`BodyIsCut`). The
store's half is `MemoryInv`: the vectors a call holds are those of the first texts
of what it embeds, in order, in whatever order each batch was answered
(`BatchContinues`); what is inserted is a fresh row; and replacing rows, deleting a
document and deleting a source with its documents keep the rest. `AnswersAreTrue`
needs `TruthInv` besides: what an undisturbed call has concluded so far (which
resources of the listing are settled, what a search could have found) is still so;
and `WarmInv`: from its listing to its end, an undisturbed import finds in the cache
what the service has, or, of a resource whose content is not listed, an entry without
one. So what it takes is what the service has, and what it passes over without
counting has no text, or is named by `ListedBare`.

Only model-checked: liveness (`PausesEnd`, `RunsEnd`, `RequestsEnd`, `CallsEnd` of the
connectors and of the memory, `DecisionsReachTheClient`, `ShutdownEnds`). For it the
prover has neither ENABLED nor fairness. Every invariant the runs check, and every
action property, is a theorem. No module declares a recursive operator.

## 5. Divergences

One is a run that TLC refutes, listed under "findings" in `PROJECT.json`: a fresh
snapshot that `read` serves may have been stored without its content
(`connections/cached-connections.ts:102`). The others were met while modelling.
They follow from guards the modules state, and have no run of their own.

Agents, approvals and workflows:

- A new message on a paused session buries the pause (`core/agent.ts:304`); ADR-0004
  says "the pause survives a restart and costs nothing while it waits". Two
  overlapping resumes of one approved turn both execute it (`core/agent.ts:313`).
  `PausesAreServedOnce` is about callers that do neither.
- A crash between two tools of a turn leaves it half run, and the resume runs the
  first again (`core/agent.ts:444-445` calls a half-run turn what must not happen;
  the results are stored at `:504`).
- An answer that stops at `max_tokens` with tool calls in it is stored with calls
  nobody runs (`core/agent.ts:379`).
- On resume, decisions are read only for calls that the module *resumed as* holds
  (`core/agent.ts:294`); see `KeepsScope`.
- The in-memory approval store may insert part of a request before it throws; the
  PostgreSQL one inserts all or nothing.
- A step goes out after "request changes" (`workflows/workflow-runner.ts:312`, against
  `workflows/workflow-config.ts:48-49`, "nothing is sent to a model ... until somebody
  approves"). `SentOnApproval` names it as the one decision but an approval that lets a
  step go.
- `WorkflowRunner.resume` checks that the run is unfinished before an await and writes
  its status after it (`workflows/workflow-runner.ts:147`): pressed twice it can take
  a finished run out of its end. `RecordsStand` says `overlaps = 0`.
- A resumed run walks the workflow as loaded *now*, not as it was started.

Models:

- A key forgotten while a request is under way puts that call on the platform's key,
  and the first key a tenant stores is not seen by a request that is under way: the
  set is read once (`models/routed-gateway.ts:124`), the keys one by one later
  (`:147`), and a key that is missing then counts as none, against
  `models/model-keys.ts:15-20` ("then fails rather than falling back to the platform's
  keys"). `OwnKeysOnly` lets keys come and go, and names these two
  (`KeyForgotten`, `FirstKeyUnseen`) as the only calls on the platform's key.
- A timeout of the gateway's own is laid at the *request* by the Anthropic adapter and
  not tried again: the abort it causes is neither of the SDK's errors listed at
  `models/anthropic-provider.ts:246-249`, against its comment at `:236`, against
  `models/model-gateway.ts:158` and `:171`, and against `models/routed-gateway.ts:410`, whose
  branch for timeouts no adapter reaches. `FailuresAreLaid` names it as the one failure
  that is not laid where it belongs.
- After a cooldown every request is let through, not one probe
  (`models/availability.ts:117-121`, against `:27-28`).
- The OpenAI-compatible adapter takes 408 and 409 for faults to retry, the Anthropic
  one for faults of the request; `isError` of a tool result is dropped for chat; an
  answer whose blocks are all dropped becomes an empty assistant message.
- The gate judges what follows a declared prefix as a text of its own
  (`compression/compression-pipeline.ts:67`): a code block that opens in the prefix and
  closes after it is no block to the gate, and the text of its second half is held
  to the values in it only. `ValuesAreExact` speaks of the text the gate judged.

Connections, cache and sources:

- A refresh that fails for any reason marks the connection expired, and every call is
  refused from then on (`connections/connection-manager.ts:181`, against `:131-135`: only
  when "re-authorisation is needed"). So does a refresh that got no answer; and, of two
  callers at a provider that rotates, the one that is refused because the other has just
  replaced the refresh token, although the row then stores a good one.
  `ExpiredNeedsReauthorising` names these two cases and shows there is no third.
- A refresh of a whole hierarchical connection prunes nested snapshots that still
  exist: the listing without a parent names the top level only
  (`connections/cached-connections.ts:229-231`, against its comment at 186-190).
  `RefreshIsHonest` excepts that case by name.
- A read or listing under way may put back an older snapshot after an edit, a delete
  or an invalidation returned (`connections/cached-connections.ts:107`, against
  "never lags an edit the agent just made", lines 9-10). `CacheKeepsUp` excepts what was in flight.
- A refresh whose pages overlap passes one id twice to `putMany`; PostgreSQL refuses
  such an upsert, and the in-memory store does not
  (`connections/postgres-resource-cache-store.ts:68-83`).
- A Notion update that finds one of the page's blocks deleted answers that the *page*
  was not found; a listing by a page (not a database) as parent asks the databases
  endpoint; blocks past `MAX_BLOCK_PAGES` stay.
- A Slack search match without a channel becomes an id that cannot be read back; a
  repository `a/b/c` is not refused.
- A create of several requests that fails after the first leaves the half it made
  (Drive, Jira, GitHub projects) and reports a failure; a Cal.com answer without data
  is reported as a failure after it took effect.
- The Atlassian site id is cached for ever; a limit above a source's own cap ends a
  GitHub or Cal.com walk early.
- A declared agent's create passes no metadata, so creating in the sources that need
  some (calendars, bookings, issues, pages of a space) never succeeds.
- The update of a GitHub discussion sends both its fields, so it may undo what another
  changed meanwhile.

MCP:

- A request answered with "changes requested" is told to wait, for ever
  (`mcp/mcp-approval.ts:137`, against "never throws a decision away", `:102`):
  `RepliesReflectTheQueue` names it as the one decision that is not told. Of two first calls at once one throws on the unique
  constraint (`:110`, against `:102-105`).
- A session the server forgot stays in the map, and every call with it fails until it
  is the oldest; a list slices the page but hands out the server's next cursor.

Memory:

- A document ingested again with the same body keeps its old provenance, importance
  and title (`memory/postgres-memory-store.ts:380-383`); two `memory_remember` calls at
  once both write; of two ingests of one resource the slower wins (`:149`).
- An import skips, uncounted, what its own listing cached. It lists first
  (`src/console/app/memory/actions.ts:97`); `CachedConnections.list` stores the entries,
  those of Drive or Notion without content, as fresh (`connections/cached-connections.ts:118-121`);
  the read that follows is served those (`:101-104`); and `actions.ts:108-110` passes over
  a resource without content, against its comment at 81-84 ("a resource that fails is
  counted and skipped"). From a source that lists no content, an import that starts
  within the cache's freshness of its listing brings nothing in and reports no failure.
  `AnswersAreTrue` names it as `ListedBare`; its root is that of the finding above.
- Resources that are gone from a connection are never pruned from the source; the
  embedder's fetch has no timeout; a key that cannot be unsealed fails every call.

Configuration:

- `src/console/lib/config-files.ts:110` says a file that would not load never reaches the
  disk, and `:24-27` that it is the harness's own parsers which see to it. Two files are
  checked by less. The persona goes through `parsePersona` (`:95-96`), which does not
  compare its id with the file's name; `loadPersona` does (`src/core/persona.ts:75-77`),
  and a start reads it first (`src/create-harness.ts:173`). The connectors go through
  `shapeOfConnectors` (`:128-150`), four strings each; the loader
  (`src/connections/oauth-config.ts:20-52`, `:122`) also wants addresses, a client id, the
  name of a variable, scopes and a connector id of its form. Either saved from the
  console refuses the next start: `SavedUnloadable`, named apart in `SavedStarts`.
- A configuration whose files all load may still refuse the start: an agent with the id
  of a module of the code, two tools of one name (a connector called `memory` with search
  beside a memory grant, a capability named twice, ids `x-y` and `x_y`): `Clash`, against
  `src/console/lib/agent-files.ts:95`; or a named secret that is not set, which the
  console leaves out on purpose (`config-files.ts:98-101`): `SecretUnset`. The console
  keeps a refused start for as long as its process lives.
- Saving an agent's form drops `remembersTo` and `maxToolIterations`; `writeFile` is not
  atomic; a discloser that throws leaves no trace step.

Telemetry and shutdown:

- A failed write of a step makes two spans share an id (`telemetry/otlp.ts:175`);
  `close` does not wait for batches other flushes took out, whose number nothing
  bounds; readiness may answer "ready" after the drain began, when its probe was
  already under way.

## 6. Not modelled

Abstracted on purpose: texts, prompts and arguments are identities or what a
property tells apart; cryptography is "only the key that sealed opens"; a source or
a provider may answer anything its interface allows; one tenant, connection or run
at a time where the code shares nothing between two (the gateway and the MCP
server, which do, have two tenants). In-memory stores are modelled by the same
actions as the PostgreSQL ones, but for what only the database enforces (below).
Redaction in front of the stores changes texts only.

Details left out inside operations that are modelled:

- `Compression`: the pattern of inline code (`compression/sensitivity-gate.ts:44`), and
  values that two neighbouring tokens make together.
- `ModelCalls`: a gateway that fails while routing, and calls without attribution, which
  leave no trace (`router/router.ts:73-80`, `:105`).
- `AgentTurns`: two calls of one id in one request, which the table's UNIQUE refuses
  (`approval/postgres-approval-store.ts:49-68`); `DistinctBatches` is about such turns.
- `WorkflowRunner`: making the session, recording the row and asking the agent are one
  step, `Send` (`workflows/workflow-runner.ts:256-268`), so a crash or a rejection that comes
  between them counts as a turn sent; a gate whose approval is missing waits, as a pending
  one (`:294`): nothing deletes an approval.
- `Connections`: that a credential needs its row and goes with it is the database's
  foreign key and cascade. The in-memory stores have neither
  (`connections/in-memory-connection-store.ts:77-110`), so `SecretGoesWithRow` is about
  PostgreSQL.
- `DocumentSources`: a Notion listing by an empty parent, which searches everything
  (`connections/connectors/notion-connector.ts:132`); a parent given in the metadata of a
  draft (`:186`).
- `CachedConnections`: listings carry no content there, as those of Drive or Notion; those of
  Slack, Confluence and GitHub do. `Knowledge` has both kinds (`WithContent`).

- *Envelope cipher*: cryptography; `Connections` takes what it promises.
- *OAuth configuration*: a lookup of a provider's settings; when its file refuses a start
  is in `Deployment`, the schema's rules (addresses, names, scopes) as one bit of the file.
- *Usage accounting*, *token counts*: an insert per call, and reports; nothing reads
  them to decide.
- *Redaction*: regular expressions over texts.
- *Tenants*: single statements; isolation is a WHERE clause in each query.
- *Migrations, scripts, examples, test doubles*: the constraints the code relies on
  are in the models of the stores.

Partly modelled: the *session stores* (a conversation's turns and its listing, but
not titles and listings of sessions), the *composition root* (the order of a start,
its refusals and `close`; not the choice of stores), the *console* (what its actions
change; not pages, texts and the OAuth callback).

## 7. What could come next

*Larger instances*: two writes in `CachedConnections` (write-backs of two writers in the
opposite order) and two sessions in `AgentTurns` are beyond the time a run is given
here. *Composition*: a workflow step is a turn seen from outside in `WorkflowRunner`;
putting `AgentTurns` in its place would check that the two gates of one approval queue
do not meet. *Proofs*: what remains is
liveness, for which a measure that every fair step lowers could be proved as an action
property, and the fairness argument left to TLC.
