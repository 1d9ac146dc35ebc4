-------------------------- MODULE ModelCallsProofs --------------------------
(***************************************************************************)
(* Proofs about conversations and the deployment they run in, for any      *)
(* files, modules, connections, profiles and cases.                        *)
(*                                                                         *)
(* Two facts carry the deployment.  What a process works from is what its  *)
(* parsers accepted when it started, whatever became of the files since    *)
(* (StartInv); and what is in flight relies on nothing else, as a process  *)
(* that is up reads no more (WorkInv).  A conversation needs less: what    *)
(* was sent was made of its beginning, and it only grows (SentInv).        *)
(*                                                                         *)
(* That a request stays true takes the texts apart.  A provider is sent    *)
(* what is flattened of the conversation, so what flattening, reordering   *)
(* and translating keep comes first; then what each engine does to the     *)
(* values of a text, which the gate counts: an engine that is not lossy    *)
(* leaves as many as there were, so when the gate finds none missing none  *)
(* is new.  The conversation itself keeps every call before its answers    *)
(* (ConversationInv).                                                      *)
(***************************************************************************)
EXTENDS ModelCalls, SequenceTheorems, FiniteSetTheorems, FunctionTheorems,
        WellFoundedInduction, TLAPS

-----------------------------------------------------------------------------
(* Lists, whatever is in them. *)

LEMMA ListEntries ==
  ASSUME NEW s, IsList(s)
  PROVE  /\ Len(s) \in Nat /\ DOMAIN s = 1..Len(s)
         /\ \A k \in 1..Len(s) : s[k] \in Range(s)
BY DEF IsList, Range

LEMMA ListIn ==
  ASSUME NEW S, NEW s \in Seq(S)
  PROVE  IsList(s)
<1>1. DOMAIN s = 1..Len(s) /\ Len(s) \in Nat
  BY LenProperties
<1>2. s \in [1..Len(s) -> Range(s)]
  BY <1>1, LenProperties DEF Range
<1>3. QED
  BY <1>1, <1>2, SeqDef DEF IsList

LEMMA ListGrows ==
  ASSUME NEW s, IsList(s), NEW e
  PROVE  /\ IsList(Append(s, e)) /\ Len(Append(s, e)) = Len(s) + 1
         /\ Append(s, e)[Len(s) + 1] = e
         /\ \A k \in 1..Len(s) : Append(s, e)[k] = s[k]
<1>1. s \in Seq(Range(s) \cup {e}) /\ e \in Range(s) \cup {e}
  BY DEF IsList
<1>2. /\ Append(s, e) \in Seq(Range(s) \cup {e})
      /\ Len(Append(s, e)) = Len(s) + 1 /\ Append(s, e)[Len(s) + 1] = e
      /\ \A k \in 1..Len(s) : Append(s, e)[k] = s[k]
  BY <1>1
<1>3. QED
  BY <1>2, ListIn

LEMMA NoEntries == IsList(<<>>) /\ Len(<<>>) = 0 /\ DOMAIN <<>> = {}
BY DEF IsList

LEMMA ListOf ==
  ASSUME NEW n \in Nat, NEW s, DOMAIN s = 1..n, s = [k \in 1..n |-> s[k]]
  PROVE  IsList(s) /\ Len(s) = n
<1>1. s \in [1..n -> Range(s)]
  BY DEF Range
<1>2. s \in Seq(Range(s))
  BY <1>1, SeqDef
<1>3. Len(s) = n
  BY <1>2, LenProperties
<1>4. QED
  BY <1>2, <1>3 DEF IsList

LEMMA Beginning ==
  ASSUME NEW s, IsList(s), NEW m \in 0..Len(s)
  PROVE  /\ IsList(SubSeq(s, 1, m)) /\ Len(SubSeq(s, 1, m)) = m
         /\ \A k \in 1..m : SubSeq(s, 1, m)[k] = s[k]
<1>1. Len(s) \in Nat /\ \A k \in 1..Len(s) : s[k] \in Range(s)
  BY ListEntries
<1>2. \A k \in 1..m : s[k] \in Range(s)
  BY <1>1
<1>3. /\ SubSeq(s, 1, m) \in Seq(Range(s)) /\ Len(SubSeq(s, 1, m)) = m
      /\ \A k \in 1..m : SubSeq(s, 1, m)[k] = s[k]
  BY <1>1, <1>2, SubSeqProperties
<1>4. QED
  BY <1>3, ListIn

LEMMA SameBeginning ==
  ASSUME NEW s, IsList(s), NEW u, IsList(u), NEW m \in Nat, m <= Len(s), m <= Len(u),
         \A k \in 1..m : s[k] = u[k]
  PROVE  SubSeq(s, 1, m) = SubSeq(u, 1, m)
<1>1. Len(s) \in Nat /\ Len(u) \in Nat
  BY ListEntries
<1>2. m \in 0..Len(s) /\ m \in 0..Len(u)
  BY <1>1
<1>3. /\ IsList(SubSeq(s, 1, m)) /\ Len(SubSeq(s, 1, m)) = m
      /\ \A k \in 1..m : SubSeq(s, 1, m)[k] = s[k]
  BY <1>2, Beginning
<1>4. /\ IsList(SubSeq(u, 1, m)) /\ Len(SubSeq(u, 1, m)) = m
      /\ \A k \in 1..m : SubSeq(u, 1, m)[k] = u[k]
  BY <1>2, Beginning
<1>5. \A k \in 1..m : SubSeq(s, 1, m)[k] = SubSeq(u, 1, m)[k]
  BY <1>3, <1>4
<1> DEFINE S == Range(SubSeq(s, 1, m)) \cup Range(SubSeq(u, 1, m))
<1>6. SubSeq(s, 1, m) \in Seq(S) /\ SubSeq(u, 1, m) \in Seq(S)
  BY <1>3, <1>4 DEF IsList
<1> HIDE DEF S
<1>7. QED
  BY <1>3, <1>4, <1>5, <1>6, SeqEqual

LEMMA Joined ==
  ASSUME NEW s, IsList(s), NEW u, IsList(u)
  PROVE  /\ IsList(s \o u) /\ Len(s \o u) = Len(s) + Len(u)
         /\ \A k \in 1..Len(s) : (s \o u)[k] = s[k]
<1> DEFINE S == Range(s) \cup Range(u)
<1>1. s \in Seq(S) /\ u \in Seq(S) /\ Len(s) \in Nat /\ Len(u) \in Nat
  BY ListEntries DEF IsList
<1> HIDE DEF S
<1>2. /\ s \o u \in Seq(S) /\ Len(s \o u) = Len(s) + Len(u)
      /\ \A k \in 1..Len(s) : (s \o u)[k] = s[k]
  BY <1>1, ConcatProperties
<1>3. QED
  BY <1>2, ListIn

LEMMA NatMin ==
  ASSUME NEW T \in SUBSET Nat, T # {}
  PROVE  \E x \in T : \A y \in T : x <= y
<1>1. PICK x \in T : \A y \in T : <<y, x>> \notin OpToRel(<, Nat)
  BY WFMin, NatLessThanWellFounded, Zenon
<1>2. \A y \in T : ~ (y < x)
  BY <1>1, Zenon DEF OpToRel
<1> QED
  BY <1>2

-----------------------------------------------------------------------------
(* What a start has read.  Everything that a process relies on later is what *)
(* a parser accepted, whatever became of the files since.                    *)

Pcs == {"down", "code", "persona", "models", "agents", "connectors", "declaring", "workflows", "up",
        "refused"}

(* The process is a record of these fields. *)
ProcessShape ==
    /\ process.pc \in Pcs
    /\ process = [pc |-> process.pc, persona |-> process.persona,
                  models |-> process.models, declared |-> process.declared,
                  connectors |-> process.connectors, registry |-> process.registry,
                  workflows |-> process.workflows]

BuildShape == \E d \in Deployments : build = d.build

FilesShape ==
    /\ files = [persona |-> files.persona, models |-> files.models,
                connectors |-> files.connectors, agents |-> files.agents, workflows |-> files.workflows]
    /\ files.models \in ModelFiles
    /\ \A name \in DOMAIN files.workflows : IsList(files.workflows[name].steps)
    /\ byHand \in BOOLEAN

Embeds == process.models.embedding # "none"
Products == Len(build.product)

(* The k-th module registered is the code's, or a declared agent. *)
Product(k) == k <= Products /\ process.registry[k] = build.product[k]

Agent(k) ==
    /\ k > Products
    /\ \E name \in DOMAIN process.declared :
         process.registry[k] = DeclaredModule(process.declared[name], Embeds)

Registry ==
    /\ IsList(process.registry)
    /\ \A k \in 1..Len(process.registry) : Product(k) \/ Agent(k)
    /\ \A k \in 1..Len(process.registry) : process.registry[k].wellFormed
    /\ \A j, k \in 1..Len(process.registry) :
         process.registry[j].id = process.registry[k].id => j = k
    /\ \A name \in DOMAIN process.declared : AgentAccepted(name, process.declared[name])

(* How far it got. *)
ReadAt(pc) ==
    /\ pc \in {"down", "code"} => Len(process.registry) <= Products
    /\ pc \in {"persona", "models", "agents", "connectors"} => Len(process.registry) = Products
    /\ pc \in {"declaring", "workflows", "up"} => Len(process.registry) >= Products
    /\ pc \in {"down", "code", "persona", "models", "agents"} => DOMAIN process.declared = {}
    /\ pc = "declaring" => build.vault
    /\ pc \in {"agents", "connectors", "declaring", "workflows", "up"} =>
         process.models \in ModelFiles /\ ModelsAccepted(process.models)
    /\ pc = "up" => \A name \in DOMAIN process.workflows :
         /\ WorkflowAccepted(name, process.workflows[name])
         /\ IsList(process.workflows[name].steps)

SavedFilesLoad == ~byHand => FilesAccepted(files)

StartInv ==
    /\ ProcessShape /\ BuildShape /\ FilesShape /\ Registry /\ ReadAt(process.pc)
    /\ SavedFilesLoad /\ SavedStarts

StartVars == <<files, byHand, build, process>>

LEMMA StartInvStays ==
  ASSUME StartInv, UNCHANGED StartVars
  PROVE  StartInv'
BY ZenonT(60) DEF StartInv, StartVars, ProcessShape, BuildShape, FilesShape, Registry, ReadAt,
   SavedFilesLoad, SavedStarts, Embeds, Products, Product, Agent, Clash, SecretUnset, SavedUnloadable

LEMMA StartInit ==
  ASSUME DeploymentInit
  PROVE  StartInv
<1>1. PICK d \in Deployments : files = d.files /\ build = d.build
  BY DEF DeploymentInit
<1>2. process = Down /\ byHand = FALSE
  BY DEF DeploymentInit
<1>3. /\ FilesAccepted(d.files) /\ d.files.models \in ModelFiles
      /\ \A name \in DOMAIN d.files.workflows : IsList(d.files.workflows[name].steps)
      /\ d.files = [persona |-> d.files.persona, models |-> d.files.models,
                    connectors |-> d.files.connectors, agents |-> d.files.agents, workflows |-> d.files.workflows]
      /\ IsList(d.build.product)
  BY FilesAssumption, ProductAssumption
<1>4. ProcessShape /\ BuildShape
  BY <1>1, <1>2 DEF ProcessShape, BuildShape, Down, Pcs
<1>5. FilesShape /\ SavedFilesLoad
  BY <1>1, <1>2, <1>3 DEF FilesShape, SavedFilesLoad
<1>6. process.registry = <<>> /\ process.declared = <<>> /\ process.pc = "down"
  BY <1>2 DEF Down
<1>7. Registry /\ ReadAt(process.pc)
  <2>1. Len(build.product) \in Nat
    BY <1>1, <1>3, ListEntries
  <2>2. QED
    BY <1>6, <2>1, NoEntries DEF Registry, ReadAt, Products
<1>8. SavedStarts
  BY <1>6 DEF SavedStarts
<1>9. QED
  BY <1>4, <1>5, <1>7, <1>8 DEF StartInv

(* What the process read stays, and it goes on to another stage.            *)
LEMMA PcStep ==
  ASSUME StartInv, NEW pc \in Pcs, Reads([process EXCEPT !.pc = pc]), ReadAt(pc),
         pc = "refused" /\ ~byHand => Clash \/ SecretUnset \/ SavedUnloadable
  PROVE  StartInv'
<1>1. /\ process' = [process EXCEPT !.pc = pc]
      /\ UNCHANGED <<files, byHand, build>>
  BY DEF Reads
<1>2. /\ process'.pc = pc /\ process'.models = process.models
      /\ process'.declared = process.declared /\ process'.connectors = process.connectors
      /\ process'.registry = process.registry /\ process'.workflows = process.workflows
      /\ process'.persona = process.persona /\ ProcessShape'
  BY <1>1 DEF StartInv, ProcessShape
<1>3. Registry'
  BY <1>1, <1>2 DEF StartInv, Registry, Product, Agent, Products, Embeds
<1>4. ReadAt(process.pc)'
  BY <1>1, <1>2 DEF ReadAt, Products
<1>5. SavedStarts'
  <2>1. (Clash = Clash') /\ (SecretUnset = SecretUnset') /\ (SavedUnloadable = SavedUnloadable')
    BY <1>1, <1>2 DEF Clash, SecretUnset, SavedUnloadable, Embeds
  <2>2. QED
    BY <1>1, <1>2, <2>1 DEF SavedStarts
<1>6. (BuildShape /\ FilesShape /\ SavedFilesLoad)'
  BY <1>1 DEF StartInv, BuildShape, FilesShape, SavedFilesLoad
<1>7. QED
  BY <1>2, <1>3, <1>4, <1>5, <1>6 DEF StartInv

LEMMA BootStep ==
  ASSUME StartInv, Boot
  PROVE  StartInv'
<1>1. process.pc = "down" /\ Reads([process EXCEPT !.pc = "code"])
  BY DEF Boot
<1>2. ReadAt("code")
  BY <1>1 DEF StartInv, ReadAt
<1>3. QED
  BY <1>1, <1>2, PcStep DEF Pcs

(* A module that is acceptable is registered: it is the next of the code's, *)
(* or a declared agent of those that were read.                             *)
LEMMA Registers ==
  ASSUME StartInv, NEW module, Acceptable(module),
         Reads([process EXCEPT !.registry = Append(@, module)]),
         \/ process.pc = "code" /\ Len(process.registry) < Products
            /\ module = build.product[Len(process.registry) + 1]
         \/ process.pc = "declaring" /\ \E name \in DOMAIN process.declared :
              module = DeclaredModule(process.declared[name], Embeds)
  PROVE  StartInv'
<1>1. /\ IsList(process.registry)
      /\ Len(process.registry) \in Nat /\ DOMAIN process.registry = 1..Len(process.registry)
  BY ListEntries DEF StartInv, Registry
<1>2. PICK n \in Nat : n = Len(process.registry)
  BY <1>1
<1>3. /\ process' = [process EXCEPT !.registry = Append(@, module)]
      /\ UNCHANGED <<files, byHand, build>>
  BY DEF Reads
<1>4. /\ process'.pc = process.pc /\ process'.models = process.models
      /\ process'.declared = process.declared /\ process'.connectors = process.connectors
      /\ process'.registry = Append(process.registry, module) /\ process'.workflows = process.workflows
      /\ ProcessShape'
  BY <1>3 DEF StartInv, ProcessShape
<1>5. IsList(process.registry) /\ DOMAIN process.registry = 1..n
  BY <1>1, <1>2
<1>6. /\ IsList(Append(process.registry, module)) /\ Len(Append(process.registry, module)) = n + 1
      /\ Append(process.registry, module)[n + 1] = module
      /\ \A k \in 1..n : Append(process.registry, module)[k] = process.registry[k]
  BY <1>5, <1>2, ListGrows
<1>7. Products \in Nat
  BY ListEntries, ProductAssumption DEF StartInv, BuildShape, Products
<1>8. \A k \in 1..n : process.registry[k].id # module.id
  BY <1>5 DEF Acceptable, Ids
<1>9. module.wellFormed
  BY DEF Acceptable
<1>10. Registry'
  <2>1. \A k \in 1..(n + 1) : k \in 1..n \/ k = n + 1
    BY <1>5
  <2>2. \A k \in 1..n : (Product(k) \/ Agent(k))'
    BY <1>3, <1>4, <1>6 DEF StartInv, Registry, Product, Agent, Products, Embeds
  <2>3. PICK m \in Nat : m = n + 1
    OBVIOUS
  <2>4. (Product(m) \/ Agent(m))'
    <3>1. CASE process.pc = "code"
      BY <1>3, <1>4, <1>5, <1>6, <1>7, <1>2, <2>3, <3>1 DEF Product, Products
    <3>2. CASE process.pc = "declaring"
      <4>1. n >= Products
        BY <1>2, <3>2 DEF StartInv, ReadAt
      <4>2. QED
        BY <1>3, <1>4, <1>5, <1>6, <1>7, <2>3, <3>2, <4>1 DEF Agent, Products, Embeds
    <3>3. QED
      BY <3>1, <3>2
  <2>5. \A k \in 1..(n + 1) : process'.registry[k].wellFormed
    BY <1>4, <1>6, <1>9, <2>1 DEF StartInv, Registry
  <2>6. \A j, k \in 1..(n + 1) :
          process'.registry[j].id = process'.registry[k].id => j = k
    BY <1>4, <1>6, <1>8, <2>1 DEF StartInv, Registry
  <2>7. QED
    BY <1>4, <1>6, <2>1, <2>2, <2>3, <2>5, <2>6, <2>4 DEF StartInv, Registry
<1>11. ReadAt(process.pc)'
  BY <1>3, <1>4, <1>5, <1>6, <1>7, <1>2 DEF StartInv, ReadAt, Products
<1>12. SavedStarts'
  BY <1>4 DEF SavedStarts
<1>13. (BuildShape /\ FilesShape /\ SavedFilesLoad)'
  BY <1>3 DEF StartInv, BuildShape, FilesShape, SavedFilesLoad
<1>14. QED
  BY <1>4, <1>10, <1>11, <1>12, <1>13 DEF StartInv

LEMMA RegisterProductStep ==
  ASSUME StartInv, RegisterProduct
  PROVE  StartInv'
<1>1. process.pc = "code" /\ Len(process.registry) <= Products /\ SavedStarts
  BY DEF RegisterProduct, StartInv, ReadAt
<1>2. /\ Len(process.registry) \in Nat /\ Products \in Nat
      /\ DOMAIN build.product = 1..Products /\ DOMAIN process.registry = 1..Len(process.registry)
      /\ \A k \in 1..Products : build.product[k] \in Range(build.product)
  BY ListEntries, ProductAssumption DEF StartInv, BuildShape, Products, Registry
<1>3. CASE Len(process.registry) = Products
  <2>1. Reads([process EXCEPT !.pc = "persona"])
    BY <1>3 DEF RegisterProduct, Products
  <2>2. ReadAt("persona")
    BY <1>1, <1>3 DEF StartInv, ReadAt
  <2>3. QED
    BY <2>1, <2>2, PcStep DEF Pcs
<1>4. CASE Len(process.registry) # Products
  <2> DEFINE module == build.product[Len(process.registry) + 1]
  <2>1. Len(process.registry) < Products /\ Len(process.registry) + 1 \in 1..Products
    BY <1>1, <1>2, <1>4
  <2>2. ReadsIf(Acceptable(module), [process EXCEPT !.registry = Append(@, module)])
    BY <1>4 DEF RegisterProduct, Products
  <2>3. CASE Acceptable(module)
    <3>1. Reads([process EXCEPT !.registry = Append(@, module)])
      BY <2>2, <2>3 DEF ReadsIf
    <3> HIDE DEF module
    <3>2. module = build.product[Len(process.registry) + 1]
      BY DEF module
    <3>3. QED
      BY <1>1, <2>1, <2>3, <3>1, <3>2, Registers
  <2>4. CASE ~ Acceptable(module)
    <3>1. Reads([process EXCEPT !.pc = "refused"])
      BY <2>2, <2>4 DEF ReadsIf
    <3>2. Clash
      <4>1. CASE module.id \notin Ids
        BY <1>2, <2>1, <2>4, <4>1 DEF Acceptable, Clash
      <4>2. CASE module.id \in Ids
        <5>1. PICK k \in 1..Len(process.registry) : process.registry[k].id = module.id
          BY <1>2, <4>2 DEF Ids
        <5>2. k \in 1..Products /\ k # Len(process.registry) + 1
          BY <1>1, <1>2
        <5>3. process.registry[k] = build.product[k]
          BY <1>2, <5>1, <5>2 DEF StartInv, Registry, Product, Agent
        <5> DEFINE f == [j \in DOMAIN build.product |-> build.product[j].id]
        <5>4. f[k] = f[Len(process.registry) + 1]
          BY <1>2, <2>1, <5>1, <5>2, <5>3
        <5>5. ~ IsInjective(f)
          BY <1>2, <2>1, <5>2, <5>4 DEF IsInjective
        <5>6. QED
          BY <5>5 DEF Clash
      <4>3. QED
        BY <4>1, <4>2
    <3>3. ReadAt("refused")
      BY DEF ReadAt
    <3>4. QED
      BY <3>1, <3>2, <3>3, PcStep DEF Pcs
  <2>5. QED
    BY <2>3, <2>4
<1>5. QED
  BY <1>3, <1>4

(* A process that refuses to start, for a file that does not load.          *)
LEMMA FileRefused ==
  ASSUME StartInv, Reads([process EXCEPT !.pc = "refused"]), ~ FilesAccepted(files)
  PROVE  StartInv'
<1>1. byHand
  BY DEF StartInv, SavedFilesLoad, FilesShape
<1>2. ReadAt("refused")
  BY DEF ReadAt
<1>3. QED
  BY <1>1, <1>2, PcStep DEF Pcs

(* What the console saved parses, so only its id can be in the way. *)
LEMMA LoadPersonaStep ==
  ASSUME StartInv, LoadPersona
  PROVE  StartInv'
<1> DEFINE pc == IF PersonaAccepted(files.persona) THEN "models" ELSE "refused"
<1>1. /\ process.pc = "persona" /\ process' = [process EXCEPT !.persona = files.persona, !.pc = pc]
      /\ UNCHANGED <<files, byHand, build>>
  BY DEF LoadPersona, Reads
<1>2. /\ process'.pc = pc /\ process'.models = process.models
      /\ process'.declared = process.declared /\ process'.registry = process.registry
      /\ process'.persona = files.persona
      /\ process'.workflows = process.workflows /\ ProcessShape'
  BY <1>1 DEF StartInv, ProcessShape, Pcs
<1>3. Len(process.registry) = Products /\ DOMAIN process.declared = {}
  BY <1>1 DEF StartInv, ReadAt
<1>4. Registry'
  BY <1>1, <1>2, <1>3 DEF StartInv, Registry, Product, Agent, Products
<1>5. ReadAt(process.pc)'
  BY <1>1, <1>2, <1>3 DEF ReadAt, Products
<1>6. SavedStarts'
  BY <1>1, <1>2 DEF StartInv, SavedFilesLoad, FilesAccepted, SavedStarts, SavedUnloadable,
     PersonaAccepted
<1>7. (BuildShape /\ FilesShape /\ SavedFilesLoad)'
  BY <1>1 DEF StartInv, BuildShape, FilesShape, SavedFilesLoad
<1>8. QED
  BY <1>2, <1>4, <1>5, <1>6, <1>7 DEF StartInv

LEMMA LoadModelsStep ==
  ASSUME StartInv, LoadModels
  PROVE  StartInv'
<1>1. CASE ~ ModelsAccepted(files.models)
  <2>1. Reads([process EXCEPT !.pc = "refused"]) /\ ~ FilesAccepted(files)
    BY <1>1 DEF LoadModels, ReadsIf, FilesAccepted
  <2>2. QED
    BY <2>1, FileRefused
<1>2. CASE ModelsAccepted(files.models)
  <2>1. /\ process.pc = "models"
        /\ process' = [process EXCEPT !.models = files.models, !.pc = "agents"]
        /\ UNCHANGED <<files, byHand, build>>
    BY <1>2 DEF LoadModels, ReadsIf, Reads
  <2>2. /\ process'.pc = "agents" /\ process'.models = files.models
        /\ process'.declared = process.declared /\ process'.registry = process.registry
        /\ process'.workflows = process.workflows /\ ProcessShape'
    BY <2>1 DEF StartInv, ProcessShape, Pcs
  <2>3. DOMAIN process.declared = {} /\ Len(process.registry) = Products
    BY <2>1 DEF StartInv, ReadAt
  <2>4. Registry'
    BY <2>1, <2>2, <2>3 DEF StartInv, Registry, Product, Agent, Products
  <2>5. files.models \in ModelFiles
    BY DEF StartInv, FilesShape
  <2>6. ReadAt(process.pc)'
    BY <1>2, <2>1, <2>2, <2>3, <2>5 DEF ReadAt, Products
  <2>7. (SavedStarts /\ BuildShape /\ FilesShape /\ SavedFilesLoad)'
    BY <2>1, <2>2 DEF StartInv, SavedStarts, BuildShape, FilesShape, SavedFilesLoad
  <2>8. QED
    BY <2>2, <2>4, <2>6, <2>7 DEF StartInv
<1>3. QED
  BY <1>1, <1>2

LEMMA LoadAgentsStep ==
  ASSUME StartInv, LoadAgents
  PROVE  StartInv'
<1>1. CASE ~ \A name \in DOMAIN files.agents : AgentAccepted(name, files.agents[name])
  <2>1. Reads([process EXCEPT !.pc = "refused"]) /\ ~ FilesAccepted(files)
    BY <1>1 DEF LoadAgents, ReadsIf, FilesAccepted
  <2>2. QED
    BY <2>1, FileRefused
<1>2. CASE \A name \in DOMAIN files.agents : AgentAccepted(name, files.agents[name])
  <2>1. /\ process.pc = "agents"
        /\ process' = [process EXCEPT !.declared = files.agents, !.pc = "connectors"]
        /\ UNCHANGED <<files, byHand, build>>
    BY <1>2 DEF LoadAgents, ReadsIf, Reads
  <2>2. /\ process'.pc = "connectors" /\ process'.models = process.models
        /\ process'.declared = files.agents /\ process'.registry = process.registry
        /\ process'.workflows = process.workflows /\ ProcessShape'
    BY <2>1 DEF StartInv, ProcessShape, Pcs
  <2>3. /\ DOMAIN process.declared = {} /\ Len(process.registry) = Products
        /\ process.models \in ModelFiles /\ ModelsAccepted(process.models)
    BY <2>1 DEF StartInv, ReadAt
  <2>4. Registry'
    BY <1>2, <2>1, <2>2, <2>3 DEF StartInv, Registry, Product, Agent, Products
  <2>5. ReadAt(process.pc)'
    BY <2>1, <2>2, <2>3 DEF ReadAt, Products
  <2>6. (SavedStarts /\ BuildShape /\ FilesShape /\ SavedFilesLoad)'
    BY <2>1, <2>2 DEF StartInv, SavedStarts, BuildShape, FilesShape, SavedFilesLoad
  <2>7. QED
    BY <2>2, <2>4, <2>5, <2>6 DEF StartInv
<1>3. QED
  BY <1>1, <1>2

LEMMA LoadConnectorsStep ==
  ASSUME StartInv, LoadConnectors
  PROVE  StartInv'
<1>1. /\ process.pc = "connectors" /\ Len(process.registry) = Products
      /\ process.models \in ModelFiles /\ ModelsAccepted(process.models)
  BY DEF LoadConnectors, StartInv, ReadAt
<1>2. Products \in Nat
  BY ListEntries, ProductAssumption DEF StartInv, BuildShape, Products
<1>3. CASE ~ build.vault
  <2>1. Reads([process EXCEPT !.pc = "workflows"])
    BY <1>3 DEF LoadConnectors
  <2>2. ReadAt("workflows")
    BY <1>1, <1>2 DEF ReadAt
  <2>3. QED
    BY <2>1, <2>2, PcStep DEF Pcs
<1>4. CASE build.vault
  <2> DEFINE pc == IF ConnectorsAccepted(files.connectors) THEN "declaring" ELSE "refused"
  <2>1. /\ process' = [process EXCEPT !.connectors = files.connectors, !.pc = pc]
        /\ UNCHANGED <<files, byHand, build>>
    BY <1>4 DEF LoadConnectors, Reads
  <2>2. /\ process'.pc = pc /\ process'.models = process.models
        /\ process'.declared = process.declared /\ process'.registry = process.registry
        /\ process'.connectors = files.connectors
        /\ process'.workflows = process.workflows /\ ProcessShape'
    BY <2>1 DEF StartInv, ProcessShape, Pcs
  <2>3. Registry'
    BY <2>1, <2>2 DEF StartInv, Registry, Product, Agent, Products, Embeds
  <2>4. ReadAt(process.pc)'
    BY <1>1, <1>2, <1>4, <2>1, <2>2 DEF ReadAt, Products
  <2>5. SavedStarts'
    <3>1. ~ byHand => ConnectorsShaped(files.connectors)
      BY DEF StartInv, SavedFilesLoad, FilesAccepted
    <3>2. QED
      BY <2>1, <2>2, <3>1 DEF SavedStarts, SecretUnset, SavedUnloadable, ConnectorsAccepted,
         ConnectorsShaped
  <2>6. (BuildShape /\ FilesShape /\ SavedFilesLoad)'
    BY <2>1 DEF StartInv, BuildShape, FilesShape, SavedFilesLoad
  <2>7. QED
    BY <2>2, <2>3, <2>4, <2>5, <2>6 DEF StartInv
<1>5. QED
  BY <1>3, <1>4

LEMMA RegisterDeclaredStep ==
  ASSUME StartInv, RegisterDeclared
  PROVE  StartInv'
<1>1. /\ process.pc = "declaring" /\ Len(process.registry) >= Products
      /\ process.models \in ModelFiles /\ ModelsAccepted(process.models) /\ build.vault
  BY DEF RegisterDeclared, StartInv, ReadAt
<1>2. /\ Len(process.registry) \in Nat /\ Products \in Nat
      /\ DOMAIN build.product = 1..Products /\ DOMAIN process.registry = 1..Len(process.registry)
  BY ListEntries, ProductAssumption DEF StartInv, BuildShape, Products, Registry
<1>3. CASE Reads([process EXCEPT !.pc = "workflows"])
  <2>1. ReadAt("workflows")
    BY <1>1 DEF ReadAt
  <2>2. QED
    BY <1>3, <2>1, PcStep DEF Pcs
<1>4. ASSUME NEW k \in DOMAIN Order, Unregistered(k),
             LET module == DeclaredModule(process.declared[Order[k]],
                                          process.models.embedding # "none")
             IN  ReadsIf(Acceptable(module), [process EXCEPT !.registry = Append(@, module)])
      PROVE  StartInv'
  <2> DEFINE name == Order[k]  module == DeclaredModule(process.declared[name], Embeds)
  <2>1. name \in DOMAIN process.declared /\ name \notin DeclaredIds
    BY <1>4 DEF Unregistered
  <2>2. ReadsIf(Acceptable(module), [process EXCEPT !.registry = Append(@, module)])
    BY <1>4 DEF Embeds
  <2>3. CASE Acceptable(module)
    <3>1. Reads([process EXCEPT !.registry = Append(@, module)])
      BY <2>2, <2>3 DEF ReadsIf
    <3>2. \E n \in DOMAIN process.declared :
            module = DeclaredModule(process.declared[n], Embeds)
      BY <2>1
    <3> HIDE DEF module
    <3>3. QED
      BY <1>1, <2>3, <3>1, <3>2, Registers
  <2>4. CASE ~ Acceptable(module)
    <3>1. Reads([process EXCEPT !.pc = "refused"])
      BY <2>2, <2>4 DEF ReadsIf
    <3>2. AgentAccepted(name, process.declared[name]) /\ process.declared[name].id = name
      BY <2>1 DEF StartInv, Registry, AgentAccepted
    <3>3. process.declared[name] \in Range(process.declared)
      BY <2>1 DEF Range
    <3>4. /\ module.id = name /\ module.description # ""
          /\ module.wellFormed <=> ~ Clashes(process.declared[name], Embeds)
      BY <3>2 DEF DeclaredModule
    <3>5. Clash
      <4>1. CASE Clashes(process.declared[name], Embeds)
        BY <1>1, <3>3, <4>1 DEF Clash, Embeds
      <4>2. CASE module.id \in Ids
        <5>1. PICK j \in 1..Len(process.registry) : process.registry[j].id = name
          BY <1>2, <3>4, <4>2 DEF Ids
        <5>2. j <= Products
          BY <1>2, <2>1, <5>1 DEF DeclaredIds, Products
        <5>3. process.registry[j] = build.product[j] /\ j \in DOMAIN build.product
          BY <1>2, <5>1, <5>2 DEF StartInv, Registry, Product, Agent
        <5>4. build.product[j].id = process.declared[name].id
          BY <3>2, <5>1, <5>3
        <5>5. QED
          BY <1>1, <3>3, <5>3, <5>4 DEF Clash
      <4>3. QED
        BY <2>4, <3>4, <4>1, <4>2 DEF Acceptable
    <3>6. ReadAt("refused")
      BY DEF ReadAt
    <3>7. QED
      BY <3>1, <3>5, <3>6, PcStep DEF Pcs
  <2>5. QED
    BY <2>3, <2>4
<1>5. QED
  BY <1>3, <1>4 DEF RegisterDeclared

LEMMA LoadWorkflowsStep ==
  ASSUME StartInv, LoadWorkflows
  PROVE  StartInv'
<1>1. CASE ~ \A name \in DOMAIN files.workflows : WorkflowAccepted(name, files.workflows[name])
  <2>1. Reads([process EXCEPT !.pc = "refused"]) /\ ~ FilesAccepted(files)
    BY <1>1 DEF LoadWorkflows, ReadsIf, FilesAccepted
  <2>2. QED
    BY <2>1, FileRefused
<1>2. CASE \A name \in DOMAIN files.workflows : WorkflowAccepted(name, files.workflows[name])
  <2>1. /\ process.pc = "workflows"
        /\ process' = [process EXCEPT !.workflows = files.workflows, !.pc = "up"]
        /\ UNCHANGED <<files, byHand, build>>
    BY <1>2 DEF LoadWorkflows, ReadsIf, Reads
  <2>2. /\ process'.pc = "up" /\ process'.models = process.models
        /\ process'.declared = process.declared /\ process'.registry = process.registry
        /\ process'.workflows = files.workflows /\ ProcessShape'
    BY <2>1 DEF StartInv, ProcessShape, Pcs
  <2>3. /\ Len(process.registry) >= Products
        /\ process.models \in ModelFiles /\ ModelsAccepted(process.models)
    BY <2>1 DEF StartInv, ReadAt
  <2>4. Registry'
    BY <2>1, <2>2 DEF StartInv, Registry, Product, Agent, Products, Embeds
  <2>5. \A name \in DOMAIN files.workflows : IsList(files.workflows[name].steps)
    BY DEF StartInv, FilesShape
  <2>6. ReadAt(process.pc)'
    BY <1>2, <2>1, <2>2, <2>3, <2>5 DEF ReadAt, Products
  <2>7. (SavedStarts /\ BuildShape /\ FilesShape /\ SavedFilesLoad)'
    BY <2>1, <2>2 DEF StartInv, SavedStarts, BuildShape, FilesShape, SavedFilesLoad
  <2>8. QED
    BY <2>2, <2>4, <2>6, <2>7 DEF StartInv
<1>3. QED
  BY <1>1, <1>2

LEMMA StartKeeps ==
  ASSUME StartInv, Start
  PROVE  StartInv'
BY BootStep, RegisterProductStep, LoadPersonaStep, LoadModelsStep, LoadAgentsStep, LoadConnectorsStep,
   RegisterDeclaredStep, LoadWorkflowsStep DEF Start

-----------------------------------------------------------------------------
(* What happens to the files and the process afterwards. *)

LEMMA RestartStep ==
  ASSUME StartInv, Restart
  PROVE  StartInv'
<1>1. process' = Down /\ UNCHANGED <<files, byHand, build>>
  BY DEF Restart
<1>2. ProcessShape' /\ process'.registry = <<>> /\ process'.declared = <<>> /\ process'.pc = "down"
  BY <1>1 DEF Down, ProcessShape, Pcs
<1>3. Len(build.product) \in Nat
  BY ListEntries, ProductAssumption DEF StartInv, BuildShape
<1>4. Registry' /\ ReadAt(process.pc)'
  BY <1>1, <1>2, <1>3, NoEntries DEF Registry, ReadAt, Products
<1>5. (SavedStarts /\ BuildShape /\ FilesShape /\ SavedFilesLoad)'
  BY <1>1, <1>2 DEF StartInv, SavedStarts, BuildShape, FilesShape, SavedFilesLoad
<1>6. QED
  BY <1>2, <1>4, <1>5 DEF StartInv

(* The files change, and what was read does not. *)
LEMMA FilesStep ==
  ASSUME StartInv, UNCHANGED <<build, process>>, FilesShape', SavedFilesLoad',
         byHand => byHand'
  PROVE  StartInv'
BY ZenonT(60) DEF StartInv, ProcessShape, BuildShape, Registry, ReadAt, SavedStarts, Embeds,
   Products, Product, Agent, Clash, SecretUnset, SavedUnloadable

LEMMA SaveAgentStep ==
  ASSUME StartInv, NEW form, SaveAgent(form)
  PROVE  StartInv'
<1> DEFINE file == FromForm(form)
<1>1. /\ files' = [files EXCEPT !.agents = Write(@, form.id, file)]
      /\ AgentParses(file) /\ UNCHANGED <<byHand, build, process>>
  BY DEF SaveAgent, Saves, Kept
<1>2. file.json /\ file.id = form.id
  BY DEF FromForm
<1>3. AgentAccepted(form.id, file)
  BY <1>1, <1>2 DEF AgentAccepted
<1> HIDE DEF file
<1>4. /\ files'.persona = files.persona
      /\ files'.models = files.models /\ files'.connectors = files.connectors
      /\ files'.agents = Write(files.agents, form.id, file)
      /\ files'.workflows = files.workflows
  BY <1>1 DEF StartInv, FilesShape
<1>5. FilesShape'
  BY <1>1, <1>4 DEF StartInv, FilesShape
<1>6. SavedFilesLoad'
  <2>1. \A name \in DOMAIN files'.agents :
          \/ name = form.id /\ files'.agents[name] = file
          \/ name \in DOMAIN files.agents /\ files'.agents[name] = files.agents[name]
    BY <1>4 DEF Write
  <2>2. QED
    BY <1>1, <1>3, <1>4, <2>1 DEF StartInv, SavedFilesLoad, FilesAccepted
<1>7. QED
  BY <1>1, <1>5, <1>6, FilesStep

LEMMA DeleteAgentStep ==
  ASSUME StartInv, NEW name, DeleteAgent(name)
  PROVE  StartInv'
<1>1. /\ files' = [files EXCEPT !.agents = Without(@, name)]
      /\ UNCHANGED <<byHand, build, process>>
  BY DEF DeleteAgent, Kept
<1>2. /\ files'.persona = files.persona
      /\ files'.models = files.models /\ files'.connectors = files.connectors
      /\ files'.agents = Without(files.agents, name)
      /\ files'.workflows = files.workflows
  BY <1>1 DEF StartInv, FilesShape
<1>3. FilesShape'
  BY <1>1, <1>2 DEF StartInv, FilesShape
<1>4. SavedFilesLoad'
  <2>1. \A n \in DOMAIN files'.agents :
          n \in DOMAIN files.agents /\ files'.agents[n] = files.agents[n]
    BY <1>2 DEF Without
  <2>2. QED
    BY <1>1, <1>2, <2>1 DEF StartInv, SavedFilesLoad, FilesAccepted
<1>5. QED
  BY <1>1, <1>3, <1>4, FilesStep

LEMMA SaveConfigurationStep ==
  ASSUME StartInv,
         \/ \E p \in PersonaFiles : SavePersona(p)
         \/ \E m \in ModelFiles : SaveModels(m)
         \/ \E c \in ConnectorFiles : SaveConnectors(c)
  PROVE  StartInv'
<1>1. CASE \E m \in ModelFiles : SaveModels(m)
  <2>1. PICK m \in ModelFiles :
          /\ files' = [files EXCEPT !.models = m] /\ ModelsAccepted(m)
          /\ UNCHANGED <<byHand, build, process>>
    BY <1>1 DEF SaveModels, Kept
  <2>2. /\ files'.persona = files.persona
        /\ files'.models = m /\ files'.connectors = files.connectors
        /\ files'.agents = files.agents /\ files'.workflows = files.workflows
    BY <2>1 DEF StartInv, FilesShape
  <2>3. FilesShape' /\ SavedFilesLoad'
    BY <2>1, <2>2 DEF StartInv, FilesShape, SavedFilesLoad, FilesAccepted
  <2>4. QED
    BY <2>1, <2>3, FilesStep
<1>2. CASE \E c \in ConnectorFiles : SaveConnectors(c)
  <2>1. PICK c \in ConnectorFiles :
          /\ files' = [files EXCEPT !.connectors = c] /\ ConnectorsShaped(c)
          /\ UNCHANGED <<byHand, build, process>>
    BY <1>2 DEF SaveConnectors, Kept
  <2>2. /\ files'.persona = files.persona
        /\ files'.models = files.models /\ files'.connectors = c
        /\ files'.agents = files.agents /\ files'.workflows = files.workflows
    BY <2>1 DEF StartInv, FilesShape
  <2>3. FilesShape' /\ SavedFilesLoad'
    BY <2>1, <2>2 DEF StartInv, FilesShape, SavedFilesLoad, FilesAccepted
  <2>4. QED
    BY <2>1, <2>3, FilesStep
<1>3. CASE \E p \in PersonaFiles : SavePersona(p)
  <2>1. PICK p \in PersonaFiles :
          /\ files' = [files EXCEPT !.persona = p] /\ PersonaParses(p)
          /\ UNCHANGED <<byHand, build, process>>
    BY <1>3 DEF SavePersona, Kept
  <2>2. /\ files'.persona = p
        /\ files'.models = files.models /\ files'.connectors = files.connectors
        /\ files'.agents = files.agents /\ files'.workflows = files.workflows
    BY <2>1 DEF StartInv, FilesShape
  <2>3. FilesShape' /\ SavedFilesLoad'
    BY <2>1, <2>2 DEF StartInv, FilesShape, SavedFilesLoad, FilesAccepted
  <2>4. QED
    BY <2>1, <2>3, FilesStep
<1>4. QED
  BY <1>1, <1>2, <1>3

LEMMA EditByHandStep ==
  ASSUME StartInv, EditByHand
  PROVE  StartInv'
<1>1. byHand' = TRUE /\ UNCHANGED <<build, process>>
  BY DEF EditByHand, Kept
<1>2. FilesShape'
  <2>1. ASSUME NEW m \in ModelFiles, files' = [files EXCEPT !.models = m]
        PROVE  FilesShape'
    BY <1>1, <2>1 DEF StartInv, FilesShape
  <2>2. ASSUME NEW c, files' = [files EXCEPT !.connectors = c]
        PROVE  FilesShape'
    BY <1>1, <2>2 DEF StartInv, FilesShape
  <2>3. ASSUME NEW agents, files' = [files EXCEPT !.agents = agents]
        PROVE  FilesShape'
    BY <1>1, <2>3 DEF StartInv, FilesShape
  <2>4. ASSUME NEW name, NEW w \in WorkflowFiles,
               files' = [files EXCEPT !.workflows = Write(@, name, w)]
        PROVE  FilesShape'
    <3>1. /\ files'.persona = files.persona
      /\ files'.models = files.models /\ files'.connectors = files.connectors
          /\ files'.agents = files.agents
          /\ files'.workflows = Write(files.workflows, name, w)
          /\ files' = [persona |-> files'.persona, models |-> files'.models,
                       connectors |-> files'.connectors, agents |-> files'.agents, workflows |-> files'.workflows]
      BY <2>4 DEF StartInv, FilesShape
    <3>2. \A n \in DOMAIN files'.workflows :
            \/ files'.workflows[n] = w
            \/ n \in DOMAIN files.workflows /\ files'.workflows[n] = files.workflows[n]
      BY <3>1 DEF Write
    <3>3. IsList(w.steps)
      BY FilesAssumption
    <3>4. QED
      BY <1>1, <3>1, <3>2, <3>3 DEF StartInv, FilesShape
  <2>5. ASSUME NEW p, files' = [files EXCEPT !.persona = p]
        PROVE  FilesShape'
    BY <1>1, <2>5 DEF StartInv, FilesShape
  <2>6. QED
    BY <2>1, <2>2, <2>3, <2>4, <2>5 DEF EditByHand
<1>3. SavedFilesLoad'
  BY <1>1 DEF SavedFilesLoad
<1>4. QED
  BY <1>1, <1>2, <1>3, FilesStep

-----------------------------------------------------------------------------
(* What is in flight.  It relies on what this process read, which nothing   *)
(* changes while it is up; only what waits for a person outlives it.        *)

(* The module of work's tool call is an agent that was granted it. *)
WasGranted ==
    \E config \in Range(process.declared) :
        /\ config.id = work.module
        /\ \E grant \in Range(config.grants) :
            /\ grant.connectorId = ConnectorOf[work.connection]
            /\ \E capability \in Range(grant.can) :
                /\ work.name = ToolName(grant.connectorId, capability)
                /\ capability \in Writes /\ config.approveWrites => work.decision = "approved"

ToolCall ==
    work.kind = "tool" =>
      /\ work = [kind |-> "tool", pc |-> work.pc, module |-> work.module,
                 tenant |-> work.tenant, name |-> work.name, connection |-> work.connection,
                 decision |-> work.decision]
      /\ work.connection \in Connection
      /\ work.pc # "held" => process.pc = "up"
      /\ work.pc = "guarding" =>
           /\ Has(work.module, work.name)
           /\ ToolOf(work.module, work.name).gated => work.decision = "approved"
      /\ work.pc = "reaching" => WasGranted

Exchange ==
    work.kind = "context" =>
      /\ work = [kind |-> "context", requester |-> work.requester, owner |-> work.owner,
                 tenant |-> work.tenant, purpose |-> work.purpose, shown |-> work.shown,
                 traced |-> work.traced, pc |-> work.pc]
      /\ process.pc = "up"
      /\ work.pc = "asking" =>
           /\ work.purpose # "" /\ work.requester # work.owner /\ work.shown = {}
           /\ {work.requester, work.owner} \subseteq Ids

Walk ==
    work.kind = "run" =>
      /\ work = [kind |-> "run", pc |-> work.pc, workflow |-> work.workflow,
                 done |-> work.done, cause |-> work.cause, agents |-> work.agents,
                 config |-> work.config]
      /\ work.pc # "waiting" => process.pc = "up"
      /\ \A k \in DOMAIN work.config.steps : work.config.steps[k].agent \in work.agents

WorkInv ==
    /\ work.kind \in {"none", "tool", "context", "run"}
    /\ ToolCall /\ Exchange /\ Walk /\ RunsStayWhole /\ DisclosedByItsOwner

(* While the process stays, only what is in flight matters. *)
LEMMA WorkInvStays ==
  ASSUME WorkInv, UNCHANGED <<process, work>>
  PROVE  WorkInv'
BY ZenonT(60) DEF WorkInv, ToolCall, Exchange, Walk, RunsStayWhole, DisclosedByItsOwner, WasGranted,
   Has, ToolOf, ModuleOf, Ids

LEMMA WorkInit ==
  ASSUME DeploymentInit
  PROVE  WorkInv
BY DEF DeploymentInit, NoWork, WorkInv, ToolCall, Exchange, Walk, RunsStayWhole,
   DisclosedByItsOwner

LEMMA NothingInFlight ==
  ASSUME work' = NoWork
  PROVE  WorkInv'
BY DEF NoWork, WorkInv, ToolCall, Exchange, Walk, RunsStayWhole, DisclosedByItsOwner

(* What waits for a person. *)
Waits ==
    \/ work.kind = "none"
    \/ work.kind = "tool" /\ work.pc = "held"
    \/ work.kind = "run" /\ work.pc = "waiting"

LEMMA WaitingStays ==
  ASSUME WorkInv, Waits, UNCHANGED work
  PROVE  WorkInv'
BY DEF Waits, WorkInv, ToolCall, Exchange, Walk, RunsStayWhole, DisclosedByItsOwner

LEMMA CallToolWork ==
  ASSUME StartInv, WorkInv, NEW id, NEW tenant, NEW name, NEW c \in Connection,
         CallTool(id, tenant, name, c)
  PROVE  WorkInv'
<1> DEFINE gated == ToolOf(id, name).gated
<1>1. /\ work' = [kind |-> "tool", pc |-> IF gated THEN "held" ELSE "guarding",
                  module |-> id, tenant |-> tenant, name |-> name, connection |-> c,
                  decision |-> IF gated THEN "pending" ELSE "none"]
      /\ process.pc = "up" /\ Has(id, name) /\ UNCHANGED process
  BY DEF CallTool, Works
<1>2. Has(id, name)' /\ gated' = gated
  BY <1>1 DEF Has, ToolOf, ModuleOf, Ids
<1> HIDE DEF gated
<1>3. ToolCall'
  BY <1>1, <1>2 DEF ToolCall, gated
<1>4. QED
  BY <1>1, <1>3 DEF WorkInv, Exchange, Walk, RunsStayWhole, DisclosedByItsOwner

LEMMA DecideWork ==
  ASSUME WorkInv, NEW decision, Decide(decision)
  PROVE  WorkInv'
<1>1. /\ work.kind = "tool" /\ work.pc = "held"
      /\ work' = [work EXCEPT !.decision = decision]
  BY DEF Decide, Works
<1>2. work' = [kind |-> "tool", pc |-> "held", module |-> work.module, tenant |-> work.tenant,
               name |-> work.name, connection |-> work.connection, decision |-> decision]
  BY <1>1 DEF WorkInv, ToolCall
<1>3. work.connection \in Connection
  BY <1>1 DEF WorkInv, ToolCall
<1>4. QED
  BY <1>2, <1>3 DEF WorkInv, ToolCall, Exchange, Walk, RunsStayWhole, DisclosedByItsOwner

LEMMA ResumeWork ==
  ASSUME StartInv, WorkInv, NEW id, Resume(id)
  PROVE  WorkInv'
<1> DEFINE pc == IF Has(id, work.name) THEN Settled(ToolOf(id, work.name)) ELSE "refused"
<1>1. /\ work.kind = "tool" /\ work.pc = "held" /\ process.pc = "up" /\ UNCHANGED process
      /\ work' = [work EXCEPT !.module = id, !.pc = pc]
  BY DEF Resume, Works
<1>2. work' = [kind |-> "tool", pc |-> pc, module |-> id, tenant |-> work.tenant,
               name |-> work.name, connection |-> work.connection, decision |-> work.decision]
  BY <1>1 DEF WorkInv, ToolCall
<1>3. work.connection \in Connection
  BY <1>1 DEF WorkInv, ToolCall
<1>4. /\ pc \in {"guarding", "held", "refused"}
      /\ pc = "guarding" => /\ Has(id, work.name)
                            /\ ToolOf(id, work.name).gated => work.decision = "approved"
  BY DEF Settled
<1> HIDE DEF pc
<1>5. work'.module = id /\ work'.name = work.name /\ work'.decision = work.decision
  BY <1>2
<1>6. pc = "guarding" =>
        (Has(work.module, work.name)
         /\ (ToolOf(work.module, work.name).gated => work.decision = "approved"))'
  BY <1>1, <1>4, <1>5 DEF Has, ToolOf, ModuleOf, Ids
<1>7. ToolCall'
  BY <1>1, <1>2, <1>3, <1>4, <1>6 DEF ToolCall
<1>8. QED
  BY <1>2, <1>7 DEF WorkInv, Exchange, Walk, RunsStayWhole, DisclosedByItsOwner

(* A module that can be named is one that was registered. *)
LEMMA RegisteredModule ==
  ASSUME StartInv, NEW id \in Ids
  PROVE  \E k \in 1..Len(process.registry) :
           process.registry[k] = ModuleOf(id) /\ ModuleOf(id).id = id
<1>1. DOMAIN process.registry = 1..Len(process.registry)
  BY ListEntries DEF StartInv, Registry
<1>2. \E module \in Range(process.registry) : module.id = id
  BY DEF Ids, Range
<1>3. ModuleOf(id) \in Range(process.registry) /\ ModuleOf(id).id = id
  BY <1>2 DEF ModuleOf
<1>4. QED
  BY <1>1, <1>3 DEF Range

(* A tool that names a connector was generated by a grant for it.           *)
LEMMA GrantsGenerate ==
  ASSUME StartInv, NEW id \in Ids, NEW tool \in ModuleOf(id).tools, tool.connectorId # "none"
  PROVE  \E config \in Range(process.declared) : \E at \in Offered(config) :
           config.id = id /\ tool = ToolFor(config, at)
<1>1. PICK k \in 1..Len(process.registry) :
        process.registry[k] = ModuleOf(id) /\ ModuleOf(id).id = id
  BY RegisteredModule
<1>2. ~ Product(k)
  <2>1. SUFFICES ASSUME Product(k) PROVE FALSE
    OBVIOUS
  <2>2. PICK d \in Deployments : build = d.build
    BY DEF StartInv, BuildShape
  <2>3. Products \in Nat /\ \A j \in 1..Products : build.product[j] \in Range(build.product)
    BY <2>2, ListEntries, ProductAssumption DEF Products
  <2>4. Len(process.registry) \in Nat
    BY ListEntries DEF StartInv, Registry
  <2>5. ModuleOf(id) \in Range(build.product)
    BY <1>1, <2>1, <2>3, <2>4 DEF Product
  <2>6. QED
    BY <2>2, <2>5, ProductAssumption
<1>3. PICK name \in DOMAIN process.declared :
        ModuleOf(id) = DeclaredModule(process.declared[name], Embeds)
  BY <1>1, <1>2 DEF StartInv, Registry, Agent
<1> DEFINE config == process.declared[name]
<1>4. config \in Range(process.declared)
  BY DEF Range
<1>5. config.id = id /\ ModuleOf(id).tools = Toolset(config, Embeds)
  BY <1>1, <1>3 DEF DeclaredModule
<1>6. tool \notin OwnTools(config, Embeds)
  BY DEF OwnTools, MemoryTools, Tool
<1>7. \E at \in Offered(config) : tool = ToolFor(config, at)
  BY <1>5, <1>6 DEF Toolset
<1>8. QED
  BY <1>4, <1>5, <1>7

LEMMA GuardWork ==
  ASSUME StartInv, WorkInv, Guard
  PROVE  WorkInv'
<1> DEFINE tool == ToolOf(work.module, work.name)
           pc == IF Guarded(tool) THEN "reaching" ELSE "refused"
<1>1. /\ work.kind = "tool" /\ work.pc = "guarding" /\ UNCHANGED process
      /\ work' = [work EXCEPT !.pc = pc]
  BY DEF Guard, Works
<1>2. /\ work' = [kind |-> "tool", pc |-> pc, module |-> work.module, tenant |-> work.tenant,
                  name |-> work.name, connection |-> work.connection,
                  decision |-> work.decision]
      /\ work.connection \in Connection /\ process.pc = "up"
      /\ Has(work.module, work.name) /\ tool.gated => work.decision = "approved"
      /\ Has(work.module, work.name)
  BY <1>1 DEF WorkInv, ToolCall
<1>3. tool \in ModuleOf(work.module).tools /\ tool.name = work.name /\ work.module \in Ids
  BY <1>2 DEF Has, ToolOf
<1>4. ASSUME Guarded(tool)
      PROVE  WasGranted
  <2>1. ConnectorOf[work.connection] = tool.connectorId
    BY <1>4 DEF Guarded
  <2>2. tool.connectorId # "none"
    BY <1>2, <2>1, DeploymentAssumption
  <2> HIDE DEF tool
  <2>3. PICK config \in Range(process.declared) : \E at \in Offered(config) :
          config.id = work.module /\ tool = ToolFor(config, at)
    BY <1>3, <2>2, GrantsGenerate
  <2>4. PICK at \in Offered(config) : config.id = work.module /\ tool = ToolFor(config, at)
    BY <2>3
  <2>5. PICK g \in DOMAIN config.grants : \E k \in DOMAIN config.grants[g].can : at = <<g, k>>
    BY DEF Offered
  <2>6. PICK k \in DOMAIN config.grants[g].can : at = <<g, k>>
    BY <2>5
  <2> DEFINE grant == config.grants[g]  capability == grant.can[k]
  <2>7. grant \in Range(config.grants) /\ capability \in Range(grant.can)
    BY DEF Range
  <2>8. tool = Tool(ToolName(grant.connectorId, capability), grant.connectorId, capability,
                    Gated(config, capability))
    BY <2>4, <2>6 DEF ToolFor
  <2>9. /\ tool.name = ToolName(grant.connectorId, capability)
        /\ tool.connectorId = grant.connectorId /\ tool.gated = Gated(config, capability)
    BY <2>8 DEF Tool
  <2>10. capability \in Writes /\ config.approveWrites => Gated(config, capability)
    BY <2>7 DEF Gated, GrantsWrites
  <2>11. capability \in Writes /\ config.approveWrites => work.decision = "approved"
    BY <1>2, <2>9, <2>10
  <2>12. grant.connectorId = ConnectorOf[work.connection] /\ config.id = work.module
         /\ work.name = ToolName(grant.connectorId, capability)
    BY <1>3, <2>1, <2>4, <2>9
  <2> HIDE DEF grant, capability
  <2>13. QED
    BY <2>7, <2>11, <2>12 DEF WasGranted
<1>5. pc \in {"reaching", "refused"} /\ (pc = "reaching" => WasGranted)
  BY <1>4
<1> HIDE DEF pc, tool
<1>6. pc = "reaching" => WasGranted'
  BY <1>1, <1>2, <1>5 DEF WasGranted
<1>7. ToolCall'
  BY <1>1, <1>2, <1>5, <1>6 DEF ToolCall
<1>8. QED
  BY <1>2, <1>7 DEF WorkInv, Exchange, Walk, RunsStayWhole, DisclosedByItsOwner

LEMMA ReachWork ==
  ASSUME WorkInv, Reach
  PROVE  WorkInv'
<1>1. PICK pc \in {"reached", "refused"} :
        /\ work.kind = "tool" /\ work.pc = "reaching" /\ work' = [work EXCEPT !.pc = pc]
  BY DEF Reach, Works
<1>2. /\ work' = [kind |-> "tool", pc |-> pc, module |-> work.module, tenant |-> work.tenant,
                  name |-> work.name, connection |-> work.connection,
                  decision |-> work.decision]
      /\ work.connection \in Connection /\ process.pc = "up" /\ UNCHANGED process
  BY <1>1 DEF Reach, Works, WorkInv, ToolCall
<1>3. QED
  BY <1>2 DEF WorkInv, ToolCall, Exchange, Walk, RunsStayWhole, DisclosedByItsOwner

LEMMA RequestContextWork ==
  ASSUME NEW requester, NEW owner, NEW tenant, NEW purpose,
         RequestContext(requester, owner, tenant, purpose)
  PROVE  WorkInv'
<1> DEFINE pc == IF purpose # "" /\ requester # owner /\ {requester, owner} \subseteq Ids
                 THEN "asking" ELSE "threw"
<1>1. /\ work' = [kind |-> "context", requester |-> requester, owner |-> owner,
                  tenant |-> tenant, purpose |-> purpose, shown |-> {}, traced |-> FALSE,
                  pc |-> pc]
      /\ process.pc = "up" /\ UNCHANGED process
  BY DEF RequestContext, Works
<1>2. Ids' = Ids
  BY <1>1 DEF Ids
<1>3. pc = "asking" => purpose # "" /\ requester # owner /\ {requester, owner} \subseteq Ids
  OBVIOUS
<1> HIDE DEF pc
<1>4. Exchange'
  BY <1>1, <1>2, <1>3 DEF Exchange
<1>5. QED
  BY <1>1, <1>4 DEF WorkInv, ToolCall, Walk, RunsStayWhole, DisclosedByItsOwner

(* An answer shows entries of the owner, or nothing. *)
LEMMA AnswerWork ==
  ASSUME WorkInv, work.kind = "context", work.pc = "asking", UNCHANGED process,
         NEW pc \in {"granted", "denied", "threw"}, NEW shown,
         work' = [work EXCEPT !.pc = pc, !.shown = shown],
         shown # {} => /\ Discloses(work.owner)
                       /\ shown \in SUBSET Scope(work.tenant, work.owner)
  PROVE  WorkInv'
<1>1. /\ work.purpose # "" /\ work.requester # work.owner /\ process.pc = "up"
      /\ {work.requester, work.owner} \subseteq Ids
  BY DEF WorkInv, Exchange
<1>2. work' = [kind |-> "context", requester |-> work.requester, owner |-> work.owner,
               tenant |-> work.tenant, purpose |-> work.purpose, shown |-> shown,
               traced |-> work.traced, pc |-> pc]
  BY DEF WorkInv, Exchange
<1>3. Exchange'
  BY <1>1, <1>2 DEF Exchange
<1>4. /\ work'.shown = shown /\ work'.owner = work.owner /\ work'.tenant = work.tenant
      /\ work'.requester = work.requester /\ work'.purpose = work.purpose
  BY <1>2
<1>5. Ids' = Ids /\ ModuleOf(work.owner)' = ModuleOf(work.owner)
  BY <1>4 DEF Ids, ModuleOf
<1>6. \A entry \in shown : entry.tenant = work.tenant /\ entry.module = work.owner
  BY DEF Scope
<1>7. shown # {} => ModuleOf(work.owner).discloses
  BY DEF Discloses
<1>8. work.requester \in Ids \ {work.owner}
  BY <1>1
<1>9. shown # {} =>
        /\ ModuleOf(work.owner)'.discloses /\ work'.purpose # ""
        /\ work'.requester \in Ids' \ {work'.owner}
        /\ \A entry \in shown : entry.tenant = work'.tenant /\ entry.module = work'.owner
  BY <1>1, <1>4, <1>5, <1>6, <1>7, <1>8
<1>10. DisclosedByItsOwner'
  BY <1>4, <1>9, Zenon DEF DisclosedByItsOwner
<1>11. QED
  BY <1>2, <1>3, <1>10 DEF WorkInv, ToolCall, Walk, RunsStayWhole

LEMMA DiscloseWork ==
  ASSUME WorkInv, Disclose
  PROVE  WorkInv'
<1>1. work.kind = "context" /\ work.pc = "asking" /\ UNCHANGED process /\ work.shown = {}
  BY DEF Disclose, WorkInv, Exchange, Works
<1>2. ASSUME NEW shown \in SUBSET Scope(work.tenant, work.owner), Discloses(work.owner),
             work' = [work EXCEPT !.pc = "granted", !.shown = shown]
      PROVE  WorkInv'
  BY <1>1, <1>2, AnswerWork
<1>3. ASSUME NEW pc \in {"denied", "threw"}, work' = [work EXCEPT !.pc = pc]
      PROVE  WorkInv'
  <2>1. work' = [work EXCEPT !.pc = pc, !.shown = {}]
    BY <1>1, <1>3 DEF WorkInv, Exchange
  <2>2. QED
    BY <1>1, <2>1, AnswerWork
<1>4. QED
  BY <1>2, <1>3 DEF Disclose, Works

LEMMA TraceWork ==
  ASSUME WorkInv, TraceExchange
  PROVE  WorkInv'
<1>1. /\ work.kind = "context" /\ UNCHANGED process /\ work.pc \in {"granted", "denied"}
      /\ work' = [work EXCEPT !.traced = TRUE]
  BY DEF TraceExchange, Works
<1>2. work' = [kind |-> "context", requester |-> work.requester, owner |-> work.owner,
               tenant |-> work.tenant, purpose |-> work.purpose, shown |-> work.shown,
               traced |-> TRUE, pc |-> work.pc]
  BY <1>1 DEF WorkInv, Exchange
<1>3. Exchange'
  BY <1>1, <1>2 DEF WorkInv, Exchange
<1>4. /\ work'.shown = work.shown /\ work'.owner = work.owner /\ work'.tenant = work.tenant
      /\ work'.requester = work.requester /\ work'.purpose = work.purpose
  BY <1>2
<1>5. Ids' = Ids /\ ModuleOf(work.owner)' = ModuleOf(work.owner)
  BY <1>1, <1>4 DEF Ids, ModuleOf
<1>6. DisclosedByItsOwner'
  BY <1>1, <1>4, <1>5 DEF WorkInv, DisclosedByItsOwner
<1>7. QED
  BY <1>2, <1>3, <1>6 DEF WorkInv, ToolCall, Walk, RunsStayWhole

(* What a run began with is not what this process has. *)
Changed ==
    \/ work.workflow \notin DOMAIN process.workflows
    \/ process.workflows[work.workflow] # work.config
    \/ ~ (work.agents \subseteq Ids)

(* A run that changes its stage, and nothing else of note.                  *)
LEMMA RunGoes ==
  ASSUME WorkInv, work.kind = "run", UNCHANGED process, process.pc = "up",
         NEW pc, NEW cause, NEW done,
         work' = [work EXCEPT !.pc = pc, !.cause = cause, !.done = done],
         pc = "failed" => Changed
  PROVE  WorkInv'
<1>1. work' = [kind |-> "run", pc |-> pc, workflow |-> work.workflow, done |-> done,
               cause |-> cause, agents |-> work.agents, config |-> work.config]
  BY DEF WorkInv, Walk
<1>2. Walk'
  BY <1>1 DEF WorkInv, Walk
<1>3. Ids' = Ids
  BY DEF Ids
<1>4. RunsStayWhole'
  BY <1>1, <1>3 DEF RunsStayWhole, Changed
<1>5. QED
  BY <1>1, <1>2, <1>4 DEF WorkInv, ToolCall, Exchange, DisclosedByItsOwner

LEMMA StartRunWork ==
  ASSUME NEW name, StartRun(name)
  PROVE  WorkInv'
<1>1. /\ work' = [kind |-> "run", pc |-> "running", workflow |-> name, done |-> {},
                  cause |-> "none", agents |-> Ids, config |-> process.workflows[name]]
      /\ process.pc = "up" /\ UNCHANGED process
      /\ MissingAgents(process.workflows[name]) = {}
  BY DEF StartRun, Works
<1>2. \A k \in DOMAIN process.workflows[name].steps :
         process.workflows[name].steps[k].agent \in Ids
  BY <1>1 DEF MissingAgents
<1>3. Walk'
  BY <1>1, <1>2, SMTT(60) DEF Walk
<1>4. QED
  BY <1>1, <1>3 DEF WorkInv, ToolCall, Exchange, RunsStayWhole, DisclosedByItsOwner

(* The first step left can be filled in: what it quotes comes before it.    *)
LEMMA NoHoles ==
  ASSUME NEW w, WorkflowParses(w), IsList(w.steps), NEW done,
         NEW left, left = {k \in DOMAIN w.steps : w.steps[k].id \notin done}, left # {}
  PROVE  LET first == CHOOSE k \in left : \A j \in left : k <= j
         IN  first \in DOMAIN w.steps /\ Fills(w.steps[first].quotes, done)
<1> DEFINE first == CHOOSE k \in left : \A j \in left : k <= j
<1>1. DOMAIN w.steps = 1..Len(w.steps) /\ Len(w.steps) \in Nat
  BY ListEntries
<1>2. left \in SUBSET Nat
  BY <1>1
<1>3. \E k \in left : \A j \in left : k <= j
  BY <1>2, NatMin
<1>4. first \in left /\ \A j \in left : first <= j
  BY <1>3
<1> HIDE DEF first
<1>5. first \in 1..Len(w.steps)
  BY <1>1, <1>4
<1>6. \A j \in 1..(first - 1) : w.steps[j].id \in done
  BY <1>1, <1>4, <1>5
<1>7. Earlier(w, first) \subseteq done
  BY <1>6 DEF Earlier
<1>8. \A name \in w.steps[first].quotes :
        name = Input \/ \E step \in Earlier(w, first) : name = Answered(step)
  BY <1>1, <1>5 DEF WorkflowParses
<1>9. Fills(w.steps[first].quotes, done)
  BY <1>7, <1>8 DEF Fills
<1>10. QED
  BY <1>1, <1>5, <1>9 DEF first

LEMMA RunStepWork ==
  ASSUME StartInv, WorkInv, NEW waits, RunStep(waits)
  PROVE  WorkInv'
<1>1. /\ work.kind = "run" /\ process.pc = "up" /\ UNCHANGED process
      /\ work = [kind |-> "run", pc |-> work.pc, workflow |-> work.workflow,
                 done |-> work.done, cause |-> work.cause, agents |-> work.agents,
                 config |-> work.config]
  BY DEF RunStep, Works, WorkInv, Walk
<1>2. work.kind = "run" /\ process.pc = "up" /\ UNCHANGED process
  BY <1>1
<1>3. ASSUME NEW pc, work' = [work EXCEPT !.pc = pc], pc # "failed"
      PROVE  WorkInv'
  <2>1. work' = [work EXCEPT !.pc = pc, !.cause = work.cause, !.done = work.done]
    BY <1>1, <1>3
  <2>2. QED
    BY <1>2, <1>3, <2>1, RunGoes, ZenonT(60)
<1>4. ASSUME NEW pc, NEW cause, work' = [work EXCEPT !.pc = pc, !.cause = cause], Changed
      PROVE  WorkInv'
  <2>1. work' = [work EXCEPT !.pc = pc, !.cause = cause, !.done = work.done]
    BY <1>1, <1>4
  <2>2. pc = "failed" => Changed
    BY <1>4, SMTT(60)
  <2>3. QED
    BY <1>2, <2>1, <2>2, RunGoes, Zenon
<1>5. CASE work.workflow \notin DOMAIN process.workflows
  BY <1>4, <1>5, ZenonT(60) DEF RunStep, Works, Changed
<1>6. CASE work.workflow \in DOMAIN process.workflows
  <2> DEFINE w == process.workflows[work.workflow]
             left == {k \in DOMAIN w.steps : w.steps[k].id \notin work.done}
             first == CHOOSE k \in left : \A j \in left : k <= j
             step == w.steps[first]
  <2>1. WorkflowParses(w) /\ IsList(w.steps)
    BY <1>1, <1>6 DEF StartInv, ReadAt, WorkflowAccepted
  <2>2. Works(IF left = {} THEN [work EXCEPT !.pc = "completed"]
              ELSE IF ~ Fills(step.quotes, work.done)
              THEN [work EXCEPT !.pc = "failed", !.cause = "hole"]
              ELSE IF step.approve /\ waits THEN [work EXCEPT !.pc = "waiting"]
              ELSE IF step.agent \notin Ids
              THEN [work EXCEPT !.pc = "failed", !.cause = "no agent"]
              ELSE [work EXCEPT !.done = @ \cup {step.id}])
    BY <1>6, ZenonT(60) DEF RunStep
  <2>3. CASE left = {}
    BY <1>3, <2>2, <2>3 DEF Works
  <2>4. CASE left # {}
    <3>1. first \in DOMAIN w.steps /\ Fills(step.quotes, work.done)
      BY <2>1, <2>4, NoHoles, ZenonT(60)
    <3> HIDE DEF first, left
    <3>2. CASE step.approve /\ waits
      BY <1>3, <2>2, <2>4, <3>1, <3>2 DEF Works
    <3>3. CASE ~ (step.approve /\ waits) /\ step.agent \notin Ids
      <4>1. work' = [work EXCEPT !.pc = "failed", !.cause = "no agent"]
        BY <2>2, <2>4, <3>1, <3>3 DEF Works
      <4>2. w = work.config => step.agent \in work.agents
        BY <1>1, <3>1 DEF WorkInv, Walk
      <4>3. Changed
        BY <3>3, <4>2 DEF Changed
      <4>4. QED
        BY <1>4, <4>1, <4>3, ZenonT(60)
    <3>4. CASE ~ (step.approve /\ waits) /\ step.agent \in Ids
      <4>1. work' = [work EXCEPT !.done = @ \cup {step.id}]
        BY <2>2, <2>4, <3>1, <3>4 DEF Works
      <4>2. PICK done : work' = [work EXCEPT !.done = done]
        BY <4>1
      <4>3. work' = [work EXCEPT !.pc = work.pc, !.cause = work.cause, !.done = done]
        BY <1>1, <4>2
      <4>4. work.pc # "failed"
        BY DEF RunStep
      <4>5. QED
        BY <1>1, <4>3, <4>4, RunGoes, ZenonT(60)
    <3>5. QED
      BY <3>2, <3>3, <3>4, SMTT(60)
  <2>5. QED
    BY <2>3, <2>4
<1>7. QED
  BY <1>5, <1>6, SMTT(60)

LEMMA ResumeRunWork ==
  ASSUME WorkInv, ResumeRun
  PROVE  WorkInv'
<1>1. /\ work.kind = "run" /\ process.pc = "up" /\ UNCHANGED process
      /\ work' = [work EXCEPT !.pc = "running"]
  BY DEF ResumeRun, Works
<1>2. work' = [work EXCEPT !.pc = "running", !.cause = work.cause, !.done = work.done]
  BY <1>1 DEF WorkInv, Walk
<1>3. "running" # "failed"
  OBVIOUS
<1>4. QED
  BY <1>1, <1>2, <1>3, RunGoes, Zenon

LEMMA FinishedWork ==
  ASSUME Finished
  PROVE  WorkInv'
BY NothingInFlight DEF Finished, Works

(* Whatever the process does, it is one that is up that changes what is in  *)
(* flight, and one that is not up has nothing but what waits.               *)
LEMMA WorkKeeps ==
  ASSUME StartInv, WorkInv, Work
  PROVE  WorkInv'
<1>1. ASSUME NEW tenant, NEW id, NEW key, KeepEntry(tenant, id, key) \/ DropEntry(tenant, id, key)
      PROVE  WorkInv'
  BY <1>1, WorkInvStays DEF KeepEntry, DropEntry
<1>2. QED
  BY <1>1, CallToolWork, DecideWork, ResumeWork, GuardWork, ReachWork, RequestContextWork,
     DiscloseWork, TraceWork, StartRunWork, RunStepWork, ResumeRunWork, FinishedWork
     DEF Work

LEMMA StartWork ==
  ASSUME WorkInv, Start
  PROVE  WorkInv'
<1>1. process.pc # "up" /\ UNCHANGED work
  BY DEF Start, Boot, RegisterProduct, LoadPersona, LoadModels, LoadAgents, LoadConnectors,
     RegisterDeclared, LoadWorkflows, Reads, ReadsIf
<1>2. Waits
  BY <1>1 DEF WorkInv, ToolCall, Exchange, Walk, Waits
<1>3. QED
  BY <1>1, <1>2, WaitingStays

LEMMA AdministerWork ==
  ASSUME WorkInv, Administer
  PROVE  WorkInv'
<1>1. CASE Restart
  <2>1. CASE work' = NoWork
    BY <2>1, NothingInFlight
  <2>2. CASE Waits /\ UNCHANGED work
    BY <2>2, WaitingStays
  <2>3. QED
    BY <1>1, <2>1, <2>2 DEF Restart, Waits
<1>2. CASE UNCHANGED <<process, work>>
  BY <1>2, WorkInvStays, SMTT(60)
<1>3. QED
  BY <1>1, <1>2
     DEF Administer, EditByHand, SaveAgent, DeleteAgent, SavePersona, SaveModels, SaveConnectors, Reconnect,
         Kept

(* Work leaves what was read and the files as they are. *)
LEMMA WorkReads ==
  ASSUME Work
  PROVE  UNCHANGED StartVars
BY DEF Work, StartVars, CallTool, Decide, Resume, Guard, Reach, KeepEntry, DropEntry,
   RequestContext, Disclose, TraceExchange, StartRun, RunStep, ResumeRun, Finished, Works

LEMMA AdministerKeeps ==
  ASSUME StartInv, Administer
  PROVE  StartInv'
<1>1. ASSUME NEW c, Reconnect(c)
      PROVE  StartInv'
  BY <1>1, StartInvStays DEF Reconnect, StartVars
<1>2. QED
  BY <1>1, RestartStep, EditByHandStep, SaveAgentStep, DeleteAgentStep, SaveConfigurationStep
     DEF Administer

DeploymentInv == StartInv /\ WorkInv

LEMMA DeploymentInvInit ==
  ASSUME Init
  PROVE  DeploymentInv
BY StartInit, WorkInit DEF Init, DeploymentInv

LEMMA DeploymentInvStep ==
  ASSUME DeploymentInv, [Next]_vars
  PROVE  DeploymentInv'
<1>1. StartInv /\ WorkInv
  BY DEF DeploymentInv
<1>2. CASE Start
  BY <1>1, <1>2, StartKeeps, StartWork DEF DeploymentInv
<1>3. CASE Administer
  BY <1>1, <1>3, AdministerKeeps, AdministerWork DEF DeploymentInv
<1>4. CASE Work
  BY <1>1, <1>4, WorkReads, StartInvStays, WorkKeeps DEF DeploymentInv
<1>5. CASE UNCHANGED deployment
  <2>1. UNCHANGED StartVars /\ UNCHANGED <<process, work>>
    BY <1>5 DEF deployment, StartVars
  <2>2. QED
    BY <1>1, <2>1, StartInvStays, WorkInvStays DEF DeploymentInv
<1>6. QED
  BY <1>2, <1>3, <1>4, <1>5
     DEF Next, Deploy, Route, Say, Call, RunTools, Evaluate, vars

(* Starts, restarts, edits, calls, exchanges and runs, in whatever order:   *)
(* what was read and what is in flight are as they are said to be above.    *)
THEOREM DeploymentHolds == Spec => []DeploymentInv
<1>1. Init => DeploymentInv
  BY DeploymentInvInit
<1>2. DeploymentInv /\ [Next]_vars => DeploymentInv'
  BY DeploymentInvStep, SMTT(60)
<1>3. QED
  BY <1>1, <1>2, PTL DEF Spec

-----------------------------------------------------------------------------
(* What a start accepts holds together. *)

LEMMA CandidatesResolve ==
  ASSUME NEW m \in ModelFiles, ModelsAccepted(m), NEW t \in DOMAIN m.routes,
         NEW k \in DOMAIN CandidatesFor(m, t)
  PROVE  LET candidate == CandidatesFor(m, t)[k]
             provider == m.providers[candidate.provider]
         IN  /\ candidate.provider \in Built(m)
             /\ provider.kind = "anthropic" \/ provider.baseUrl
             /\ t = "sensitive" => candidate.tier = "premium"
<1> DEFINE reference == m.routes[t][k]  candidate == m.models[reference]
<1>1. k \in DOMAIN m.routes[t] /\ CandidatesFor(m, t)[k] = candidate
  BY DEF CandidatesFor
<1>2. reference \in Range(m.routes[t])
  BY <1>1 DEF Range
<1>3. reference \in DOMAIN m.models /\ (t = "sensitive" => candidate.tier # "cheap")
  BY <1>2 DEF ModelsAccepted
<1>4. candidate \in Range(m.models)
  BY <1>3, SMTT(60) DEF Range
<1>5. /\ candidate.provider \in DOMAIN m.providers
      /\ m.providers[candidate.provider].kind = "openai-compatible"
            => m.providers[candidate.provider].baseUrl
  BY <1>4, SMTT(60) DEF ModelsAccepted
<1>6. m.providers[candidate.provider] \in ProviderEntry
  BY <1>5, DeploymentAssumption, ZenonT(60) DEF Range
<1>7. m.providers[candidate.provider].kind \in {"openai-compatible", "anthropic"}
  BY <1>6 DEF ProviderEntry
<1>8. candidate.tier \in {"cheap", "premium"}
  BY <1>4, DeploymentAssumption DEF ModelEntry, Tier
<1>9. candidate.provider \in Built(m)
  BY <1>4 DEF Built
<1>10. QED
  BY <1>1, <1>3, <1>5, <1>7, <1>8, <1>9

LEMMA EmbeddingsApart ==
  ASSUME NEW m, ModelsAccepted(m)
  PROVE  m.embedding \notin Built(m)
BY DEF ModelsAccepted, Built

(* Names tell the tools of a module apart. *)
NamesApart(tools) == \A one, other \in tools : one.name = other.name => one = other

LEMMA ToolsApart ==
  ASSUME NEW config, NEW embeds, ~ Clashes(config, embeds)
  PROVE  NamesApart(Toolset(config, embeds))
<1>1. \A one, other \in OwnTools(config, embeds) : one.name = other.name => one = other
  <2> DEFINE mine == Tool(<<"my", "connections">>, "none", "connections", FALSE)
             search == Tool(<<"memory", "search">>, "none", "search", FALSE)
             remember == Tool(<<"memory", "remember">>, "none", "remember", FALSE)
  <2>1. mine.name # search.name /\ mine.name # remember.name /\ search.name # remember.name
    BY DEF Tool
  <2>2. \A tool \in OwnTools(config, embeds) : tool = mine \/ tool = search \/ tool = remember
    BY DEF OwnTools, MemoryTools
  <2> HIDE DEF mine, search, remember
  <2>3. QED
    BY <2>1, <2>2
<1>2. \A at, other \in Offered(config) :
        ToolFor(config, at).name = ToolFor(config, other).name => at = other
  BY DEF Clashes
<1>3. \A at \in Offered(config) : \A tool \in OwnTools(config, embeds) :
        ToolFor(config, at).name # tool.name
  BY DEF Clashes
<1>4. QED
  BY <1>1, <1>2, <1>3 DEF NamesApart, Toolset

LEMMA ModulesApart ==
  ASSUME StartInv, NEW module \in Range(process.registry)
  PROVE  NamesApart(module.tools)
<1>1. DOMAIN process.registry = 1..Len(process.registry) /\ Len(process.registry) \in Nat
  BY ListEntries DEF StartInv, Registry
<1>2. PICK k \in 1..Len(process.registry) : process.registry[k] = module
  BY <1>1 DEF Range
<1>3. (Product(k) \/ Agent(k)) /\ module.wellFormed
  BY <1>2 DEF StartInv, Registry
<1>4. CASE Product(k)
  <2>1. PICK d \in Deployments : build = d.build
    BY DEF StartInv, BuildShape
  <2>2. Products \in Nat /\ \A j \in 1..Products : build.product[j] \in Range(build.product)
    BY <2>1, ListEntries, ProductAssumption DEF Products
  <2>3. module \in Range(build.product)
    BY <1>1, <1>2, <1>4, <2>2 DEF Product
  <2>4. QED
    BY <2>1, <2>3, ProductAssumption DEF NamesApart
<1>5. CASE Agent(k)
  <2>1. PICK name \in DOMAIN process.declared :
          module = DeclaredModule(process.declared[name], Embeds)
    BY <1>2, <1>5 DEF Agent
  <2>2. /\ module.tools = Toolset(process.declared[name], Embeds)
        /\ ~ Clashes(process.declared[name], Embeds)
    BY <1>3, <2>1 DEF DeclaredModule
  <2>3. QED
    BY <2>2, ToolsApart
<1>6. QED
  BY <1>3, <1>4, <1>5

LEMMA IdsApart ==
  ASSUME StartInv
  PROVE  Cardinality(Ids) = Len(process.registry)
<1>1. DOMAIN process.registry = 1..Len(process.registry) /\ Len(process.registry) \in Nat
  BY ListEntries DEF StartInv, Registry
<1>2. PICK n \in Nat : n = Len(process.registry)
  BY <1>1
<1> DEFINE f == [k \in 1..n |-> process.registry[k].id]
<1>3. f \in Bijection(1..n, Ids)
  <2>1. f \in [1..n -> Ids]
    BY <1>1, <1>2 DEF Ids
  <2>2. \A j, k \in 1..n : f[j] = f[k] => j = k
    BY <1>2 DEF StartInv, Registry
  <2>3. \A id \in Ids : \E k \in 1..n : f[k] = id
    BY <1>1, <1>2 DEF Ids
  <2> HIDE DEF f
  <2>4. QED
    BY <2>1, <2>2, <2>3 DEF Bijection, Injection, Surjection, IsInjective
<1>4. IsFiniteSet(1..n) /\ Cardinality(1..n) = n
  BY FS_Interval
<1>5. ExistsBijection(1..n, Ids)
  BY <1>3 DEF ExistsBijection
<1>6. Cardinality(Ids) = Cardinality(1..n)
  BY <1>4, <1>5, FS_Bijection
<1>7. QED
  BY <1>2, <1>4, <1>6

LEMMA StartsResolve ==
  ASSUME StartInv
  PROVE  ReferencesResolve
<1> SUFFICES ASSUME process.pc = "up"
             PROVE  ReferencesResolve
  BY DEF ReferencesResolve
<1>1. process.models \in ModelFiles /\ ModelsAccepted(process.models)
  BY DEF StartInv, ReadAt
<1>2. \A module \in Range(process.registry) : \A one, other \in module.tools :
        one.name = other.name => one = other
  BY ModulesApart DEF NamesApart
<1>3. \A t \in DOMAIN process.models.routes :
        \A k \in DOMAIN CandidatesFor(process.models, t) :
          LET candidate == CandidatesFor(process.models, t)[k]
              provider == process.models.providers[candidate.provider]
          IN  /\ candidate.provider \in Built(process.models)
              /\ provider.kind = "anthropic" \/ provider.baseUrl
              /\ t = "sensitive" => candidate.tier = "premium"
  BY <1>1, CandidatesResolve
<1>4. process.models.embedding \notin Built(process.models)
  BY <1>1, EmbeddingsApart
<1>5. QED
  BY <1>2, <1>3, <1>4, IdsApart DEF ReferencesResolve

(* Whatever the files, the code and the order of what is done: what a start  *)
(* accepted holds together, saved files start, a run fails of its files only *)
(* when they changed under it, and context is disclosed by its owner alone.  *)
THEOREM DeploymentIsSound == Spec => []Sound
<1>1. DeploymentInv => Sound
  BY StartsResolve DEF DeploymentInv, StartInv, WorkInv, Sound
<1>2. QED
  BY <1>1, DeploymentHolds, PTL

(* Nothing but Reach has a call reach its source, and it keeps to what the  *)
(* guard found.                                                             *)
LEMMA ReachedUnderAGrant ==
  ASSUME WorkInv, Next
  PROVE  work'.kind = "tool" /\ work'.pc = "reached" /\ work' # work =>
           OwnerOf[work.connection] = work.tenant /\ WasGranted
<1> SUFFICES ASSUME work'.kind = "tool", work'.pc = "reached", work' # work
             PROVE  OwnerOf[work.connection] = work.tenant /\ WasGranted
  OBVIOUS
<1>1. CASE Reach
  <2>1. work.pc = "reaching" /\ work.kind = "tool"
    BY <1>1 DEF Reach
  <2>2. OwnerOf[work.connection] = work.tenant
    <3>1. PICK pc : /\ pc = "reached" => OwnerOf[work.connection] = work.tenant
                    /\ work' = [work EXCEPT !.pc = pc]
      BY <1>1 DEF Reach, Works
    <3>2. work'.pc = pc
      BY <2>1, <3>1 DEF WorkInv, ToolCall
    <3>3. QED
      BY <3>1, <3>2
  <2>3. QED
    BY <2>1, <2>2 DEF WorkInv, ToolCall
<1>2. ASSUME NEW id, NEW tenant, NEW name, NEW c, CallTool(id, tenant, name, c)
      PROVE  FALSE
  BY <1>2 DEF CallTool, Works
<1>3. ASSUME NEW decision, Decide(decision)
      PROVE  FALSE
  BY <1>3 DEF Decide, Works, WorkInv, ToolCall
<1>4. ASSUME NEW id, Resume(id)
      PROVE  FALSE
  <2>1. PICK pc \in {"guarding", "refused", "held"} :
          work' = [work EXCEPT !.module = id, !.pc = pc] /\ work.kind = "tool"
    BY <1>4 DEF Resume, Works, Settled
  <2>2. work'.pc = pc
    BY <2>1 DEF WorkInv, ToolCall
  <2>3. QED
    BY <2>1, <2>2
<1>5. CASE Guard
  <2>1. PICK pc \in {"reaching", "refused"} :
          work' = [work EXCEPT !.pc = pc] /\ work.kind = "tool"
    BY <1>5 DEF Guard, Works
  <2>2. work'.pc = pc
    BY <2>1 DEF WorkInv, ToolCall
  <2>3. QED
    BY <2>1, <2>2
<1>6. ASSUME NEW requester, NEW owner, NEW tenant, NEW purpose,
             RequestContext(requester, owner, tenant, purpose)
      PROVE  FALSE
  BY <1>6 DEF RequestContext, Works
<1>7. CASE Disclose \/ TraceExchange
  <2>1. work.kind = "context"
    BY <1>7 DEF Disclose, TraceExchange
  <2>2. work'.kind = "context"
    BY <1>7, <2>1 DEF Disclose, TraceExchange, Works, WorkInv, Exchange
  <2>3. QED
    BY <2>2
<1>8. ASSUME NEW name, StartRun(name)
      PROVE  FALSE
  BY <1>8 DEF StartRun, Works
<1>9. CASE ResumeRun \/ \E waits \in BOOLEAN : RunStep(waits)
  <2>1. work.kind = "run"
    BY <1>9, ZenonT(60) DEF ResumeRun, RunStep
  <2>2. work'.kind = "run"
    BY <1>9, <2>1 DEF ResumeRun, RunStep, Works, WorkInv, Walk
  <2>3. QED
    BY <2>2, SMTT(60)
<1>10. CASE Finished
  BY <1>10 DEF Finished, Works, NoWork
<1>11. CASE Restart
  BY <1>11 DEF Restart, NoWork
<1>12. CASE UNCHANGED work
  BY <1>12
<1>13. CASE Work
  BY <1>1, <1>2, <1>3, <1>4, <1>5, <1>6, <1>7, <1>8, <1>9, <1>10, <1>12, <1>13
     DEF Work, KeepEntry, DropEntry
<1>14. Start => UNCHANGED work
  BY DEF Start, Boot, RegisterProduct, LoadPersona, LoadModels, LoadAgents, LoadConnectors,
     RegisterDeclared, LoadWorkflows, Reads, ReadsIf
<1>15. Administer => Restart \/ UNCHANGED work
  BY SMTT(60) DEF Administer, EditByHand, SaveAgent, DeleteAgent, SavePersona, SaveModels, SaveConnectors, Reconnect,
     Kept
<1>16. Next => Start \/ Administer \/ Work \/ UNCHANGED work
  BY DEF Next, Deploy, Route, Say, Call, RunTools, Evaluate, deployment
<1>17. QED
  BY <1>11, <1>12, <1>13, <1>14, <1>15, <1>16

(* Whoever a tool call acts for, a source is reached under a grant that the  *)
(* process read, on the tenant's own connection, and approved if it waits.   *)
THEOREM GrantsAreTheLimit == Spec => OnlyWhatWasGranted
<1> DEFINE Granted ==
      work'.kind = "tool" /\ work'.pc = "reached" /\ work' # work =>
        /\ OwnerOf[work.connection] = work.tenant
        /\ \E config \in Range(process.declared) :
            /\ config.id = work.module
            /\ \E grant \in Range(config.grants) :
                /\ grant.connectorId = ConnectorOf[work.connection]
                /\ \E capability \in Range(grant.can) :
                    /\ work.name = ToolName(grant.connectorId, capability)
                    /\ capability \in Writes /\ config.approveWrites => work.decision = "approved"
<1>1. DeploymentInv /\ [Next]_vars => [Granted]_deployment
  <2>1. ASSUME DeploymentInv, Next PROVE Granted
    BY <2>1, ReachedUnderAGrant DEF DeploymentInv, WasGranted
  <2>2. UNCHANGED vars => UNCHANGED deployment
    BY DEF vars
  <2> HIDE DEF Granted
  <2>3. QED
    BY <2>1, <2>2
<1>2. Spec => [][Granted]_deployment
  BY <1>1, DeploymentHolds, PTL DEF Spec
<1>3. QED
  BY <1>2 DEF OnlyWhatWasGranted

-----------------------------------------------------------------------------
(* Routings, failures and cases: what is recorded of them is so.            *)

RoutesTold ==
    /\ IsList(routes) /\ IsList(traced) /\ Len(traced) = Len(routes)
    /\ Len(routes) > 0 => Serves
    /\ \A k \in 1..Len(routes) :
        /\ traced[k].succeeded <=> routes[k] # Refused
        /\ routes[k] # Refused => traced[k].label = routes[k].module /\ routes[k].module \in Ids

(* A case that is said to have passed compressed was left what it expects.  *)
TrueOf(outcome) ==
    outcome.compressedPassed =>
        /\ outcome.case.expect \subseteq
               Values(Rendered(Compress(set.profile, ToModelRequest(outcome.case))))
        /\ ~outcome.threw

OutcomesTold == IsList(outcomes) /\ \A k \in 1..Len(outcomes) : TrueOf(outcomes[k])

ToldInv == RoutesTold /\ FailuresAreLaid /\ OutcomesTold

LEMMA ToldInit ==
  ASSUME Init
  PROVE  ToldInv
<1>1. routes = <<>> /\ traced = <<>> /\ outcomes = <<>> /\ failure = NoFailure
  BY DEF Init
<1>2. FailuresAreLaid
  BY <1>1 DEF FailuresAreLaid, NoFailure
<1>3. RoutesTold /\ OutcomesTold
  BY <1>1, NoEntries DEF RoutesTold, OutcomesTold
<1>4. QED
  BY <1>2, <1>3 DEF ToldInv

LEMMA DecisionTold ==
  ASSUME NEW reply \in Reply, StartInv
  PROVE  Decision(reply) # Refused => Decision(reply).module \in Ids
<1>1. DOMAIN process.registry = 1..Len(process.registry)
  BY ListEntries DEF StartInv, Registry
<1>2. CASE Len(process.registry) = 1 /\ process.registry # <<>>
  BY <1>1, <1>2 DEF Decision, Decided, Ids
<1>3. CASE process.registry # <<>> /\ Len(process.registry) # 1
  BY <1>3 DEF Decision, Chosen, Decided
<1>4. QED
  BY <1>2, <1>3 DEF Decision

LEMMA RouteTold ==
  ASSUME StartInv, RoutesTold, Route
  PROVE  RoutesTold'
<1>1. PICK reply \in Reply :
        /\ routes' = Append(routes, Decision(reply))
        /\ traced' = Append(traced, [label |-> Decision(reply).module,
                                     succeeded |-> Decision(reply) # Refused])
  BY DEF Route
<1> DEFINE decision == Decision(reply)
           step == [label |-> decision.module, succeeded |-> decision # Refused]
<1>2. Serves /\ UNCHANGED <<process, mode>>
  BY DEF Route, deployment
<1>3. decision # Refused => decision.module \in Ids
  BY DecisionTold
<1>4. /\ step.label = decision.module
      /\ step.succeeded <=> decision # Refused
  OBVIOUS
<1> HIDE DEF decision, step
<1>5. /\ IsList(routes) /\ IsList(traced) /\ Len(traced) = Len(routes) /\ Len(routes) \in Nat
  BY ListEntries DEF RoutesTold
<1>6. PICK n \in Nat : n = Len(routes)
  BY <1>5
<1>7. routes' = Append(routes, decision) /\ traced' = Append(traced, step)
  BY <1>1 DEF decision, step
<1>8. /\ IsList(routes') /\ Len(routes') = n + 1 /\ routes'[n + 1] = decision
      /\ \A k \in 1..n : routes'[k] = routes[k]
  BY <1>5, <1>6, <1>7, ListGrows
<1>9. /\ IsList(traced') /\ Len(traced') = n + 1 /\ traced'[n + 1] = step
      /\ \A k \in 1..n : traced'[k] = traced[k]
  BY <1>5, <1>6, <1>7, ListGrows
<1>10. Serves' /\ Ids' = Ids
  BY <1>2 DEF Serves, Ids
<1>11. \A k \in 1..n :
         /\ traced'[k].succeeded <=> routes'[k] # Refused
         /\ routes'[k] # Refused => traced'[k].label = routes'[k].module /\ routes'[k].module \in Ids
  BY <1>6, <1>8, <1>9, ZenonT(60) DEF RoutesTold
<1>12. /\ traced'[n + 1].succeeded <=> routes'[n + 1] # Refused
       /\ routes'[n + 1] # Refused =>
            traced'[n + 1].label = routes'[n + 1].module /\ routes'[n + 1].module \in Ids
  BY <1>3, <1>4, <1>8, <1>9, Zenon
<1>13. \A k \in 1..(n + 1) : k \in 1..n \/ k = n + 1
  OBVIOUS
<1>14. \A k \in 1..(n + 1) :
         /\ traced'[k].succeeded <=> routes'[k] # Refused
         /\ routes'[k] # Refused =>
              traced'[k].label = routes'[k].module /\ routes'[k].module \in Ids'
  BY <1>10, <1>11, <1>12, <1>13, Zenon
<1>15. Refused' = Refused
  BY DEF Refused, Decided
<1>16. QED
  BY <1>8, <1>9, <1>10, <1>14, <1>15, Zenon DEF RoutesTold

(* Nothing is routed before the deployment is up, and then it stays.        *)
LEMMA RoutesStay ==
  ASSUME RoutesTold, UNCHANGED <<routes, traced, mode>>, UNCHANGED process \/ Deploy
  PROVE  RoutesTold'
<1>1. CASE UNCHANGED process
  BY <1>1 DEF RoutesTold, Serves, Ids
<1>2. CASE Deploy
  <2>1. ~ Serves
    BY <1>2 DEF Deploy, Start, Boot, RegisterProduct, LoadPersona, LoadModels, LoadAgents, LoadConnectors,
       RegisterDeclared, LoadWorkflows, Serves
  <2>2. IsList(routes) /\ Len(routes) \in Nat /\ ~ (Len(routes) > 0)
    BY <2>1, ListEntries DEF RoutesTold
  <2>3. QED
    BY <2>2 DEF RoutesTold
<1>3. QED
  BY <1>1, <1>2

LEMMA FailTold ==
  ASSUME NEW cause, Fail(cause), UNCHANGED set
  PROVE  FailuresAreLaid'
<1>1. failure' = [cause |-> cause, retryable |-> Failure(set.provider, cause).retryable,
                  kind |-> Failure(set.provider, cause).kind,
                  retryAfter |-> Failure(set.provider, cause).retryAfter]
  BY DEF Fail
<1>2. CASE set.provider = "anthropic"
  <2>1. /\ failure'.cause = cause
        /\ failure'.retryable = (cause \in {"limited", "limitedUntil", "outage", "unreachable"})
        /\ failure'.retryAfter = (cause = "limitedUntil")
        /\ failure'.kind = CASE cause \in {"limited", "limitedUntil"} -> "credential"
                              [] cause \in {"outage", "unreachable"} -> "provider"
                              [] OTHER -> "request"
    BY <1>1, <1>2 DEF Failure, ToGatewayError
  <2>2. failure'.kind = IF cause \in {"limited", "limitedUntil"} THEN "credential"
                        ELSE IF cause \in {"outage", "unreachable"} THEN "provider"
                        ELSE "request"
    BY <2>1
  <2>3. cause = "nothing" => FALSE
    BY <1>2 DEF Fail
  <2>4. QED
    BY <1>2, <2>1, <2>2, <2>3 DEF FailuresAreLaid, AbortLaidAtTheRequest
<1>3. CASE set.provider # "anthropic"
  <2>1. /\ failure'.cause = cause /\ failure'.retryable = (cause # "rejected")
        /\ failure'.retryAfter = (cause = "limitedUntil")
        /\ failure'.kind = CASE cause \in {"limited", "limitedUntil"} -> "credential"
                              [] cause = "rejected" -> "request"
                              [] OTHER -> "provider"
    BY <1>1, <1>3 DEF Failure, ToHttpError
  <2>2. failure'.kind = IF cause \in {"limited", "limitedUntil"} THEN "credential"
                        ELSE IF cause = "rejected" THEN "request" ELSE "provider"
    BY <2>1
  <2>3. QED
    BY <2>1, <2>2 DEF FailuresAreLaid
<1>4. QED
  BY <1>2, <1>3

LEMMA CallTold ==
  ASSUME Call
  PROVE  FailuresAreLaid'
<1>1. ASSUME NEW blocks, NEW lines, Answer(blocks, lines)
      PROVE  FailuresAreLaid'
  BY <1>1 DEF Answer, FailuresAreLaid, NoFailure
<1>2. QED
  BY <1>1, FailTold DEF Call

LEMMA JudgedTrue ==
  ASSUME NEW case, NEW baseline, NEW left, NEW compressed \in {left, Throws},
         left = Values(Rendered(Compress(set.profile, ToModelRequest(case))))
  PROVE  TrueOf(Judged(case, baseline, compressed))
<1> DEFINE outcome == Judged(case, baseline, compressed)
<1>1. /\ outcome.case = case /\ outcome.compressedPassed = Passed(compressed, case.expect)
      /\ outcome.threw = (compressed = Throws)
  BY DEF Judged
<1> HIDE DEF outcome
<1>2. SUFFICES ASSUME outcome.compressedPassed
               PROVE  case.expect \subseteq left /\ ~ outcome.threw
  BY <1>1 DEF TrueOf, outcome
<1>3. compressed # Throws /\ case.expect \ compressed = {}
  BY <1>1, <1>2 DEF Passed, MissingFrom
<1>4. QED
  BY <1>1, <1>3

LEMMA EvaluateTold ==
  ASSUME OutcomesTold, NEW case, Evaluate(case)
  PROVE  OutcomesTold'
<1> DEFINE left == Values(Rendered(Compress(set.profile, ToModelRequest(case))))
<1>1. PICK baseline \in {Values(Rendered(ToModelRequest(case))), Throws},
           compressed \in {left, Throws} :
        outcomes' = Append(outcomes, Judged(case, baseline, compressed))
  BY Zenon DEF Evaluate
<1>2. UNCHANGED set
  BY DEF Evaluate
<1> DEFINE outcome == Judged(case, baseline, compressed)
<1>3. TrueOf(outcome)
  BY JudgedTrue
<1> HIDE DEF outcome, left
<1>4. IsList(outcomes) /\ Len(outcomes) \in Nat
  BY ListEntries DEF OutcomesTold
<1>5. PICK n \in Nat : n = Len(outcomes)
  BY <1>4
<1>6. /\ IsList(outcomes') /\ Len(outcomes') = n + 1 /\ outcomes'[n + 1] = outcome
      /\ \A k \in 1..n : outcomes'[k] = outcomes[k]
  BY <1>1, <1>4, <1>5, ListGrows DEF outcome
<1>7. ASSUME NEW k \in 1..(n + 1)
      PROVE  TrueOf(outcomes[k])'
  <2>1. \E o : outcomes'[k] = o /\ TrueOf(o)
    BY <1>3, <1>5, <1>6 DEF OutcomesTold
  <2>2. QED
    BY <1>2, <2>1 DEF TrueOf, ToModelRequest, Request
<1>8. QED
  BY <1>6, <1>7 DEF OutcomesTold

LEMMA OutcomesStay ==
  ASSUME OutcomesTold, UNCHANGED <<set, outcomes>>
  PROVE  OutcomesTold'
BY DEF OutcomesTold, TrueOf, ToModelRequest, Request

LEMMA ToldStep ==
  ASSUME StartInv, ToldInv, [Next]_vars
  PROVE  ToldInv'
<1>1. RoutesTold /\ FailuresAreLaid /\ OutcomesTold
  BY DEF ToldInv
<1>2. FailuresAreLaid'
  <2>1. CASE Call
    BY <2>1, CallTold
  <2>2. CASE UNCHANGED <<set, failure>>
    BY <1>1, <2>2 DEF FailuresAreLaid, AbortLaidAtTheRequest
  <2>3. QED
    BY <2>1, <2>2
       DEF Next, Deploy, Route, Say, RunTools, Evaluate, vars, conversation
<1>3. OutcomesTold'
  <2>1. ASSUME NEW case, Evaluate(case)
        PROVE  OutcomesTold'
    BY <1>1, <2>1, EvaluateTold
  <2>2. CASE UNCHANGED <<set, outcomes>>
    BY <1>1, <2>2, OutcomesStay
  <2>3. QED
    BY <2>1, <2>2 DEF Next, Deploy, Route, Call, Say, RunTools, vars, conversation
<1>4. RoutesTold'
  <2>1. CASE Route
    BY <1>1, <2>1, RouteTold
  <2>2. CASE UNCHANGED <<routes, traced, mode>> /\ (UNCHANGED process \/ Deploy)
    BY <1>1, <2>2, RoutesStay
  <2>3. QED
    BY <2>1, <2>2
       DEF Next, Deploy, Call, Say, RunTools, Evaluate, vars, conversation, deployment
<1>5. QED
  BY <1>2, <1>3, <1>4 DEF ToldInv

(* Whatever models reply and however they fail, under any profile: every     *)
(* routing left a step of its own and chose a registered module, a failure is *)
(* laid where it belongs, and a set of cases that passes lost nothing.      *)
THEOREM OutcomesTrue == Spec => []OutcomesAreTrue
<1>1. Init => DeploymentInv /\ ToldInv
  BY DeploymentInvInit, ToldInit
<1>2. DeploymentInv /\ ToldInv /\ [Next]_vars => (DeploymentInv /\ ToldInv)'
  BY DeploymentInvStep, ToldStep DEF DeploymentInv
<1>3. ToldInv => OutcomesAreTrue
  <2>1. SUFFICES ASSUME ToldInv PROVE OutcomesAreTrue
    OBVIOUS
  <2>2. /\ DOMAIN routes = 1..Len(routes) /\ DOMAIN outcomes = 1..Len(outcomes)
        /\ RoutesTold /\ FailuresAreLaid /\ OutcomesTold
    BY <2>1, ListEntries DEF ToldInv, RoutesTold, OutcomesTold
  <2>3. ASSUME PassesGate, NEW k \in DOMAIN outcomes, outcomes[k].baselinePassed
        PROVE  /\ outcomes[k].case.expect \subseteq
                     Values(Rendered(Compress(set.profile, ToModelRequest(outcomes[k].case))))
               /\ ~ outcomes[k].threw
    BY <2>2, <2>3 DEF PassesGate, Regressed, OutcomesTold, TrueOf
  <2>4. QED
    BY <2>2, <2>3, Zenon DEF OutcomesAreTrue, RoutesTold
<1>4. QED
  BY <1>1, <1>2, <1>3, PTL DEF Spec

-----------------------------------------------------------------------------
(* What is sent.  A declared prefix goes out as it is, whatever becomes of   *)
(* the rest, and a conversation only grows.                                 *)

(* A request of n messages. *)
Asking(request, n) ==
    /\ request = [system |-> request.system, messages |-> request.messages,
                  stable |-> request.stable]
    /\ IsList(request.messages) /\ Len(request.messages) = n

(* No engine adds a message or drops one, or touches what was declared.     *)
LEMMA PassKeeps ==
  ASSUME NEW n \in Nat, NEW request, Asking(request, n), NEW profile, NEW engine
  PROVE  Asking(Pass(profile, engine, request), n)
         /\ Pass(profile, engine, request).stable = request.stable
<1> DEFINE shrunk == [k \in DOMAIN request.messages |->
                       ShrunkMessage(engine, request.messages[k])]
           candidate == Candidate(engine, request)
<1>1. DOMAIN request.messages = 1..n
  BY ListEntries DEF Asking
<1>2. IsList(shrunk) /\ Len(shrunk) = n
  <2>1. DOMAIN shrunk = 1..n /\ shrunk = [k \in 1..n |-> shrunk[k]]
    BY <1>1
  <2> HIDE DEF shrunk
  <2>2. QED
    BY <2>1, ListOf
<1> DEFINE system == IF engine = "whitespace" THEN Collapse(request.system) ELSE request.system
<1>3. /\ candidate.messages = shrunk /\ candidate.stable = request.stable
      /\ candidate = [system |-> candidate.system, messages |-> candidate.messages,
                      stable |-> candidate.stable]
  <2>1. candidate = [request EXCEPT !.system = system, !.messages = shrunk]
    BY DEF Candidate, Asking
  <2> HIDE DEF candidate, shrunk, system
  <2>2. QED
    BY <2>1 DEF Asking
<1>4. Asking(candidate, n)
  BY <1>2, <1>3 DEF Asking
<1>5. Pass(profile, engine, request) \in {request, candidate}
  BY DEF Pass, RunEngine
<1> HIDE DEF candidate, shrunk
<1>6. QED
  BY <1>3, <1>4, <1>5

LEMMA RunKeeps ==
  ASSUME NEW n \in Nat, NEW request, Asking(request, n), NEW profile
  PROVE  Asking(Run(profile, request), n) /\ Run(profile, request).stable = request.stable
<1> DEFINE trimmed == Pass(profile, "whitespace", request)
           tabled == Pass(profile, "table", trimmed)
<1>1. Asking(trimmed, n) /\ trimmed.stable = request.stable
  BY PassKeeps
<1> HIDE DEF trimmed
<1>2. Asking(tabled, n) /\ tabled.stable = request.stable
  BY <1>1, PassKeeps
<1> HIDE DEF tabled
<1>3. Asking(Pass(profile, "results", tabled), n)
      /\ Pass(profile, "results", tabled).stable = request.stable
  BY <1>2, PassKeeps
<1>4. QED
  BY <1>3 DEF Run, trimmed, tabled

(* Without a declared prefix there is none after compression either.        *)
LEMMA NothingDeclared ==
  ASSUME NEW n \in Nat, NEW request, Asking(request, n), NEW profile,
         request.stable = Undeclared
  PROVE  CachePrefixLength(Compress(profile, request)) = Undeclared
<1>1. CachePrefixLength(request) = Undeclared
  BY DEF CachePrefixLength
<1>2. Compress(profile, request) = Run(profile, request)
  BY <1>1 DEF Compress, Region
<1>3. QED
  BY <1>2, RunKeeps DEF CachePrefixLength

(* A declared one is the beginning of what was asked.                       *)
LEMMA DeclaredStays ==
  ASSUME NEW n \in Nat, NEW request, Asking(request, n), NEW profile,
         request.stable \in Nat
  PROVE  LET compressed == Compress(profile, request)
             m == IF request.stable > n THEN n ELSE request.stable
         IN  /\ CachePrefixLength(compressed) = m
             /\ compressed.system = request.system
             /\ IsList(compressed.messages) /\ Len(compressed.messages) = n
             /\ \A k \in 1..m : compressed.messages[k] = request.messages[k]
<1>1. PICK m \in 0..n : m = IF request.stable > n THEN n ELSE request.stable
  OBVIOUS
<1>2. CachePrefixLength(request) = m /\ m # Undeclared
  BY <1>1 DEF CachePrefixLength, Asking, Undeclared
<1> DEFINE region == [request EXCEPT !.system = <<>>, !.stable = Undeclared,
                                     !.messages = SubSeq(@, m + 1, Len(@))]
           beginning == SubSeq(request.messages, 1, m)
           compressed == Compress(profile, request)
<1>3. IsList(beginning) /\ Len(beginning) = m
      /\ \A k \in 1..m : beginning[k] = request.messages[k]
  BY Beginning DEF Asking
<1>4. Asking(region, n - m)
  <2> DEFINE rest == SubSeq(request.messages, m + 1, n)
  <2>1. Len(request.messages) = n /\ \A k \in (m + 1)..n : request.messages[k] \in Range(request.messages)
    BY ListEntries DEF Asking
  <2>2. rest \in Seq(Range(request.messages)) /\ Len(rest) = n - m
    BY <2>1, SubSeqProperties
  <2>3. region = [request EXCEPT !.system = <<>>, !.stable = Undeclared, !.messages = rest]
    BY <2>1
  <2> HIDE DEF rest, region
  <2>4. region = [system |-> <<>>, messages |-> rest, stable |-> Undeclared]
    BY <2>3 DEF Asking
  <2>5. QED
    BY <2>2, <2>4, ListIn DEF Asking
<1>5. compressed = [request EXCEPT !.messages = beginning \o Run(profile, region).messages]
  <2>1. Region(request) = region
    BY <1>2 DEF Region
  <2>2. QED
    BY <1>2, <2>1 DEF Compress
<1>6. compressed.messages = beginning \o Run(profile, region).messages
      /\ compressed.system = request.system /\ compressed.stable = request.stable
  BY <1>5 DEF Asking
<1>7. n - m \in Nat
  OBVIOUS
<1> HIDE DEF region, beginning, compressed
<1>8. IsList(Run(profile, region).messages) /\ Len(Run(profile, region).messages) = n - m
  BY <1>4, <1>7, RunKeeps DEF Asking
<1>9. /\ IsList(compressed.messages) /\ Len(compressed.messages) = n
      /\ \A k \in 1..m : compressed.messages[k] = beginning[k]
  <2>1. \A u : IsList(u) => /\ IsList(beginning \o u) /\ Len(beginning \o u) = Len(beginning) + Len(u)
                             /\ \A k \in 1..Len(beginning) : (beginning \o u)[k] = beginning[k]
    BY <1>3, Joined
  <2>2. PICK u : u = Run(profile, region).messages
    OBVIOUS
  <2>3. /\ IsList(beginning \o u) /\ Len(beginning \o u) = m + (n - m)
        /\ \A k \in 1..m : (beginning \o u)[k] = beginning[k]
    BY <1>3, <1>8, <2>1, <2>2
  <2>4. m + (n - m) = n
    OBVIOUS
  <2>5. compressed.messages = beginning \o u
    BY <1>6, <2>2
  <2>6. QED
    BY <2>3, <2>4, <2>5
<1>10. CachePrefixLength(compressed) = m
  <2>1. Len(compressed.messages) = n /\ compressed.stable = request.stable
    BY <1>6, <1>9
  <2>2. request.stable # Undeclared
    BY DEF Undeclared
  <2>3. QED
    BY <1>1, <2>1, <2>2 DEF CachePrefixLength
<1>11. QED
  BY <1>1, <1>3, <1>6, <1>9, <1>10 DEF compressed

Declarable == Nat \cup {Undeclared}

(* What is marked for a cache is the beginning of the conversation.         *)
LEMMA MarkedIsDeclared ==
  ASSUME NEW messages, IsList(messages), NEW stable \in Declarable,
         Prepared(messages, stable).wire.marked # "none"
  PROVE  LET wire == Prepared(messages, stable).wire
         IN  /\ wire.system = set.system
             /\ wire.through \in 0..Len(messages)
             /\ IsList(wire.messages) /\ Len(wire.messages) = Len(messages)
             /\ \A k \in 1..wire.through : wire.messages[k] = ToAnthropicMessage(messages[k])
<1> DEFINE request == Request(messages, stable)
           compressed == Compress(set.profile, request)
           wire == Prepared(messages, stable).wire
<1>1. Len(messages) \in Nat
  BY ListEntries
<1>2. PICK n \in Nat : n = Len(messages)
  BY <1>1
<1>3. /\ Asking(request, n) /\ request.stable = stable /\ request.system = set.system
      /\ request.messages = messages
  BY <1>2 DEF Asking, Request
<1>4. wire = Sent(set.provider, compressed, set.tools)
  BY DEF Prepared
<1> HIDE DEF request
<1> DEFINE params == ToCreateParams(compressed, set.tools)
<1>5. set.provider = "anthropic"
  BY <1>4 DEF Sent
<1>6. /\ wire.marked = params.marked /\ wire.system = params.system
      /\ wire.messages = params.messages /\ wire.through = params.through
  BY <1>4, <1>5 DEF Sent
<1>7. CachePrefixLength(compressed) # Undeclared
  BY <1>6 DEF ToCreateParams
<1>8. stable \in Nat
  BY <1>3, <1>7, NothingDeclared DEF Declarable
<1>9. PICK m \in 0..n : m = IF request.stable > n THEN n ELSE request.stable
  BY <1>3, <1>8
<1>10. /\ CachePrefixLength(compressed) = m /\ compressed.system = set.system
       /\ IsList(compressed.messages) /\ Len(compressed.messages) = n
       /\ \A k \in 1..m : compressed.messages[k] = messages[k]
  BY <1>3, <1>8, <1>9, DeclaredStays
<1>11. DOMAIN compressed.messages = 1..n
  BY <1>10, ListEntries
<1> HIDE DEF compressed
<1>12. /\ params.messages = [k \in 1..n |-> ToAnthropicMessage(compressed.messages[k])]
       /\ params.system = compressed.system /\ params.through = m
  BY <1>7, <1>10, <1>11 DEF ToCreateParams
<1> HIDE DEF params, wire
<1>13. IsList(wire.messages) /\ Len(wire.messages) = n
  <2>1. DOMAIN wire.messages = 1..n /\ wire.messages = [k \in 1..n |-> wire.messages[k]]
    BY <1>6, <1>12
  <2>2. QED
    BY <2>1, ListOf
<1>14. \A k \in 1..m : wire.messages[k] = ToAnthropicMessage(messages[k])
  BY <1>6, <1>10, <1>12
<1>15. wire.system = set.system /\ wire.through = m
  BY <1>6, <1>10, <1>12
<1>16. QED
  BY <1>2, <1>13, <1>14, <1>15 DEF wire

(* The last request was made of the conversation as far as it was then.     *)
Remembered(asked) ==
    \E n \in 0..Len(history), stable \in Declarable :
        asked = Prepared(SubSeq(history, 1, n), stable)

SentInv == IsList(history) /\ (sent = NothingSent \/ Remembered(sent))

(* A conversation grows by one message, or stays. *)
Grows == history' = history \/ \E message : history' = Append(history, message)

LEMMA StillRemembered ==
  ASSUME IsList(history), Grows, UNCHANGED set, NEW asked, Remembered(asked)
  PROVE  Remembered(asked)'
<1>1. PICK n \in 0..Len(history), stable \in Declarable :
        asked = Prepared(SubSeq(history, 1, n), stable)
  BY Zenon DEF Remembered
<1>2. Len(history) \in Nat
  BY ListEntries
<1>3. n \in 0..Len(history') /\ SubSeq(history', 1, n) = SubSeq(history, 1, n)
  <2>1. CASE history' = history
    BY <2>1
  <2>2. ASSUME NEW message, history' = Append(history, message)
        PROVE  n \in 0..Len(history') /\ SubSeq(history', 1, n) = SubSeq(history, 1, n)
    <3>1. /\ IsList(history') /\ Len(history') = Len(history) + 1
          /\ \A k \in 1..Len(history) : history'[k] = history[k]
      BY <2>2, ListGrows
    <3>2. n \in Nat /\ n <= Len(history) /\ n <= Len(history') /\ n \in 0..Len(history')
          /\ \A k \in 1..n : history'[k] = history[k]
      BY <1>2, <3>1
    <3>3. QED
      BY <3>1, <3>2, SameBeginning
  <2>3. QED
    BY <2>1, <2>2 DEF Grows
<1>4. PICK beginning : beginning = SubSeq(history, 1, n)
  OBVIOUS
<1>5. asked = Prepared(beginning, stable) /\ asked = Prepared(beginning, stable)'
  BY <1>1, <1>4 DEF Prepared, Request
<1>6. QED
  BY <1>3, <1>4, <1>5, ZenonT(60) DEF Remembered, Prepared, Request

LEMMA SentInit ==
  ASSUME Init
  PROVE  SentInv
BY NoEntries DEF Init, SentInv

LEMMA HistoryGrows ==
  ASSUME [Next]_vars
  PROVE  Grows /\ UNCHANGED set
BY DEF Next, Deploy, Route, Say, Call, Answer, Fail, RunTools, Evaluate, vars, conversation, Grows

(* Only a call sends, and it sends the whole conversation. *)
LEMMA CallSends ==
  ASSUME IsList(history), Call
  PROVE  \E stable \in Declarable : sent' = Prepared(history, stable)
<1>1. PICK stable \in {Undeclared, Len(history) - 1, Len(history) + 1} :
        sent' = Prepared(history, stable)
  BY Zenon DEF Call
<1>2. Len(history) \in Nat
  BY ListEntries
<1>3. stable \in Declarable
  BY <1>2 DEF Declarable, Undeclared
<1>4. QED
  BY <1>1, <1>3

LEMMA SentStep ==
  ASSUME SentInv, [Next]_vars
  PROVE  SentInv'
<1>1. IsList(history) /\ Grows /\ UNCHANGED set
  BY HistoryGrows DEF SentInv
<1>2. IsList(history')
  BY <1>1, ListGrows, ZenonT(60) DEF Grows
<1>3. CASE Call
  <2>1. PICK stable \in Declarable : sent' = Prepared(history, stable)
    BY <1>1, <1>3, CallSends
  <2>2. Len(history) \in Nat /\ Len(history) \in 0..Len(history)
    BY <1>1, ListEntries
  <2>3. SubSeq(history, 1, Len(history)) = history
    BY <1>1, SubSeqFull DEF IsList
  <2>4. PICK asked : asked = sent'
    OBVIOUS
  <2>5. Remembered(asked)
    BY <2>1, <2>2, <2>3, <2>4 DEF Remembered
  <2>6. Remembered(asked)'
    BY <1>1, <2>5, StillRemembered
  <2>7. QED
    BY <1>2, <2>4, <2>6 DEF SentInv
<1>4. CASE UNCHANGED sent
  <2>1. CASE sent = NothingSent
    BY <1>2, <1>4, <2>1 DEF SentInv, NothingSent
  <2>2. CASE Remembered(sent)
    <3>1. PICK asked : asked = sent
      OBVIOUS
    <3>2. Remembered(asked)'
      BY <1>1, <2>2, <3>1, StillRemembered
    <3>3. QED
      BY <1>2, <1>4, <3>1, <3>2 DEF SentInv
  <2>3. QED
    BY <2>1, <2>2 DEF SentInv
<1>5. QED
  BY <1>3, <1>4 DEF Next, Deploy, Route, Say, RunTools, Evaluate, vars, conversation

(* Two marked requests of one conversation begin alike. *)
LEMMA MarkedAlike ==
  ASSUME SentInv, Call, UNCHANGED set,
         sent.wire.marked # "none", sent'.wire.marked # "none",
         sent'.wire.through >= sent.wire.through
  PROVE  /\ sent'.wire.system = sent.wire.system
         /\ SubSeq(sent'.wire.messages, 1, sent.wire.through)
                = SubSeq(sent.wire.messages, 1, sent.wire.through)
<1>1. IsList(history) /\ Len(history) \in Nat
  BY ListEntries DEF SentInv
<1>2. PICK n \in 0..Len(history), earlier \in Declarable :
        sent = Prepared(SubSeq(history, 1, n), earlier)
  <2>1. sent # NothingSent
    BY DEF NothingSent
  <2>2. QED
    BY <2>1, Zenon DEF SentInv, Remembered
<1>3. PICK later \in Declarable : sent' = Prepared(history, later)
  BY <1>1, CallSends
<1> DEFINE before == SubSeq(history, 1, n)
<1>4. IsList(before) /\ Len(before) = n /\ \A k \in 1..n : before[k] = history[k]
  BY <1>1, Beginning
<1> HIDE DEF before
<1>5. sent = Prepared(before, earlier)
  BY <1>2 DEF before
<1>6. /\ sent.wire.system = set.system /\ sent.wire.through \in 0..n
      /\ IsList(sent.wire.messages) /\ Len(sent.wire.messages) = n
      /\ \A k \in 1..sent.wire.through :
           sent.wire.messages[k] = ToAnthropicMessage(before[k])
  BY <1>4, <1>5, MarkedIsDeclared
<1>7. PICK now : now = sent'
  OBVIOUS
<1>8. /\ now.wire.system = set.system /\ now.wire.through \in 0..Len(history)
      /\ IsList(now.wire.messages) /\ Len(now.wire.messages) = Len(history)
      /\ \A k \in 1..now.wire.through :
           now.wire.messages[k] = ToAnthropicMessage(history[k])
  BY <1>1, <1>3, <1>7, MarkedIsDeclared
<1>9. PICK m \in 0..n : m = sent.wire.through
  BY <1>6
<1>10. m \in Nat /\ m <= n /\ m <= Len(history) /\ m <= now.wire.through
  BY <1>1, <1>7, <1>9
<1>11. \A k \in 1..m : now.wire.messages[k] = sent.wire.messages[k]
  <2>1. ASSUME NEW k \in 1..m
        PROVE  now.wire.messages[k] = sent.wire.messages[k]
    <3>1. k \in 1..now.wire.through /\ k \in 1..sent.wire.through /\ k \in 1..n
      BY <1>8, <1>9, <1>10
    <3>2. QED
      BY <1>4, <1>6, <1>8, <3>1
  <2>2. QED
    BY <2>1
<1>12. SubSeq(now.wire.messages, 1, m) = SubSeq(sent.wire.messages, 1, m)
  BY <1>6, <1>8, <1>10, <1>11, SameBeginning
<1>13. QED
  BY <1>6, <1>7, <1>8, <1>9, <1>12

(* Whatever the profile does to the rest: what one request had a provider    *)
(* cache begins the next, when that declares one too of no less.            *)
THEOREM PrefixStays == Spec => PrefixNeverMoves
<1> DEFINE Alike ==
      (/\ sent' # sent /\ sent.wire.marked # "none" /\ sent'.wire.marked # "none"
       /\ sent'.wire.through >= sent.wire.through)
      => /\ sent'.wire.system = sent.wire.system
         /\ SubSeq(sent'.wire.messages, 1, sent.wire.through)
               = SubSeq(sent.wire.messages, 1, sent.wire.through)
<1>1. Init => SentInv
  BY SentInit
<1>2. SentInv /\ [Next]_vars => SentInv'
  BY SentStep
<1>3. SentInv /\ [Next]_vars => [Alike]_vars
  <2>1. ASSUME SentInv, Next PROVE Alike
    <3>1. CASE Call
      BY <2>1, <3>1, MarkedAlike DEF Call
    <3>2. CASE UNCHANGED sent
      BY <3>2
    <3>3. QED
      BY <2>1, <3>1, <3>2 DEF Next, Deploy, Route, Say, RunTools, Evaluate, conversation
  <2> HIDE DEF Alike
  <2>2. QED
    BY <2>1
<1>4. Spec => [][Alike]_vars
  BY <1>1, <1>2, <1>3, PTL DEF Spec
<1>5. QED
  BY <1>4 DEF PrefixNeverMoves

-----------------------------------------------------------------------------
(* Flattening.  What is shown of it step by step is shown over the set of   *)
(* those beginnings it holds of.                                            *)

(* Induction up to a number, over the set of those something holds of.      *)
LEMMA Climbs ==
  ASSUME NEW m \in Nat, NEW T, 0 \in T, \A n \in 1..m : n - 1 \in T => n \in T
  PROVE  \A n \in 0..m : n \in T
<1> DEFINE Bad == {n \in 0..m : n \notin T}
<1>1. CASE Bad = {}
  BY <1>1
<1>2. CASE Bad # {}
  <2>1. PICK x \in Bad : \A y \in Bad : x <= y
    <3>1. Bad \in SUBSET Nat
      OBVIOUS
    <3> HIDE DEF Bad
    <3>2. QED
      BY <1>2, <3>1, NatMin, Zenon
  <2>2. x \in 1..m /\ x - 1 \in 0..m
    BY <2>1
  <2>3. x - 1 \in T
    BY <2>1, <2>2
  <2>4. QED
    BY <2>1, <2>2, <2>3
<1>3. QED
  BY <1>1, <1>2

(* A function that is defined step by step, and that there is one. *)
Builds(g, m, X, base, step) ==
    /\ g \in [0..m -> X] /\ g[0] = base
    /\ \A n \in 1..m : g[n] = step[g[n - 1]][n]

LEMMA StepByStep ==
  ASSUME NEW m \in Nat, NEW X, NEW base \in X, NEW step,
         \A a \in X : \A n \in 1..m : step[a][n] \in X
  PROVE  \E g : Builds(g, m, X, base, step)
<1> DEFINE T == {k \in 0..m : \E g \in [0..k -> X] :
                   g[0] = base /\ \A n \in 1..k : g[n] = step[g[n - 1]][n]}
<1>1. 0 \in T
  <2> DEFINE g == [n \in 0..0 |-> base]
  <2>1. g \in [0..0 -> X] /\ g[0] = base /\ \A n \in 1..0 : g[n] = step[g[n - 1]][n]
    OBVIOUS
  <2>2. 0 \in 0..m
    OBVIOUS
  <2> HIDE DEF g
  <2>3. QED
    BY <2>1, <2>2, Zenon
<1>2. ASSUME NEW k \in 1..m, k - 1 \in T
      PROVE  k \in T
  <2>1. PICK g \in [0..(k - 1) -> X] :
          g[0] = base /\ \A n \in 1..(k - 1) : g[n] = step[g[n - 1]][n]
    BY <1>2
  <2> DEFINE h == [n \in 0..k |-> IF n = k THEN step[g[k - 1]][k] ELSE g[n]]
  <2>2. k - 1 \in 0..(k - 1) /\ 0 \in 0..(k - 1)
    OBVIOUS
  <2>3. h \in [0..k -> X] /\ h[0] = base
    BY <2>1, <2>2
  <2>4. ASSUME NEW n \in 1..k
        PROVE  h[n] = step[h[n - 1]][n]
    <3>1. CASE n = k
      <4>1. k \in 0..k /\ k - 1 \in 0..k /\ k - 1 # k
        OBVIOUS
      <4>2. h[k] = step[g[k - 1]][k] /\ h[k - 1] = g[k - 1]
        BY <4>1
      <4> HIDE DEF h
      <4>3. QED
        BY <3>1, <4>2
    <3>2. CASE n # k
      <4>1. n \in 1..(k - 1) /\ n - 1 \in 0..(k - 1) /\ n \in 0..k /\ n - 1 \in 0..k /\ n - 1 # k
        BY <3>2
      <4>2. h[n] = g[n] /\ h[n - 1] = g[n - 1]
        BY <3>2, <4>1
      <4>3. QED
        BY <2>1, <4>1, <4>2
    <3>3. QED
      BY <3>1, <3>2
  <2>5. k \in 0..m
    OBVIOUS
  <2> HIDE DEF h
  <2>6. QED
    BY <2>3, <2>4, <2>5, Zenon
<1>3. m \in T
  <2>1. m \in 0..m
    OBVIOUS
  <2>2. \A n \in 0..m : n \in T
    <3> HIDE DEF T
    <3>1. QED
      BY <1>1, <1>2, Climbs
  <2>3. QED
    BY <2>1, <2>2
<1>4. QED
  BY <1>3 DEF Builds

(* The flattened beginnings of a sequence of sequences.                     *)
Flattens(f, seqs, S) ==
    /\ f \in [0..Len(seqs) -> Seq(S)] /\ f[0] = <<>>
    /\ \A k \in 1..Len(seqs) : f[k] = f[k - 1] \o seqs[k]

LEMMA Flattening ==
  ASSUME NEW S, NEW seqs \in Seq(Seq(S))
  PROVE  \E f : Flattens(f, seqs, S) /\ FlattenSeq(seqs) = f[Len(seqs)]
<1> DEFINE n == Len(seqs)
           X == Seq(S)
           step == [a \in X |-> [k \in 1..n |-> a \o seqs[k]]]
           Is(f) == f = [k \in 1..n |-> IF k = 1 THEN seqs[k] ELSE f[k - 1] \o seqs[k]]
<1>1. n \in Nat /\ \A k \in 1..n : seqs[k] \in X
  OBVIOUS
<1>2. <<>> \in X /\ \A a \in X : \A k \in 1..n : step[a][k] \in X
  <2>1. ASSUME NEW a \in X, NEW k \in 1..n
        PROVE  step[a][k] \in X
    <3>1. a \o seqs[k] \in X
      BY <1>1, ConcatProperties
    <3>2. step[a][k] = a \o seqs[k]
      OBVIOUS
    <3>3. QED
      BY <3>1, <3>2
  <2>2. QED
    BY <2>1
<1>3. PICK f \in [0..n -> X] : f[0] = <<>> /\ \A k \in 1..n : f[k] = step[f[k - 1]][k]
  <2> DEFINE base == <<>>
  <2>1. base \in X
    BY <1>2
  <2> HIDE DEF n, X, step, base
  <2>2. \E g : Builds(g, n, X, base, step)
    BY <1>1, <1>2, <2>1, StepByStep, Zenon
  <2>3. QED
    BY <2>2 DEF base, Builds
<1>4. \A k \in 1..n : f[k] = f[k - 1] \o seqs[k]
  <2> SUFFICES ASSUME NEW k \in 1..n PROVE f[k] = f[k - 1] \o seqs[k]
    OBVIOUS
  <2>1. k - 1 \in 0..n
    BY <1>1
  <2>2. f[k - 1] \in X
    BY <1>3, <2>1
  <2>3. step[f[k - 1]][k] = f[k - 1] \o seqs[k]
    BY <2>2
  <2>4. QED
    BY <1>3, <2>3
<1>5. Flattens(f, seqs, S)
  BY <1>3, <1>4 DEF Flattens
<1>6. CASE n = 0
  <2>1. seqs = <<>>
    BY <1>6
  <2>2. FlattenSeq(seqs) = f[n]
    BY <1>3, <1>6, <2>1 DEF FlattenSeq
  <2>3. QED
    BY <1>5, <2>2
<1>7. CASE n # 0
  <2>1. n > 0 /\ n \in Nat /\ n \in 1..n
    BY <1>1, <1>7
  <2> DEFINE h == [k \in 1..n |-> f[k]]
  <2>2. \A k \in 1..n : h[k] = (IF k = 1 THEN seqs[k] ELSE h[k - 1] \o seqs[k])
    <3> SUFFICES ASSUME NEW k \in 1..n
                 PROVE  h[k] = (IF k = 1 THEN seqs[k] ELSE h[k - 1] \o seqs[k])
      OBVIOUS
    <3>1. CASE k = 1
      <4>1. f[1] = f[0] \o seqs[1]
        <5>1. f[k] = f[k - 1] \o seqs[k]
          BY <1>4, Zenon
        <5>3. k - 1 = 0
          BY <3>1
        <5>2. QED
          BY <3>1, <5>1, <5>3, Zenon
      <4>2. seqs[1] \in X
        BY <1>1, <3>1
      <4>3. <<>> \o seqs[1] = seqs[1]
        BY <4>2
      <4>4. QED
        BY <1>3, <3>1, <4>1, <4>3
    <3>2. CASE k # 1
      <4>1. k - 1 \in 1..n
        BY <3>2
      <4>2. h[k - 1] = f[k - 1] /\ h[k] = f[k]
        BY <4>1
      <4> HIDE DEF h
      <4>3. QED
        BY <1>4, <3>2, <4>2
    <3>3. QED
      BY <3>1, <3>2
  <2>3. Is(h)
    <3>1. h = [k \in 1..n |-> h[k]]
      OBVIOUS
    <3> HIDE DEF h
    <3>2. [k \in 1..n |-> h[k]] = [k \in 1..n |-> IF k = 1 THEN seqs[k] ELSE h[k - 1] \o seqs[k]]
      BY <2>2
    <3>3. QED
      BY <3>1, <3>2
  <2> DEFINE flat == CHOOSE g : Is(g)
  <2>4. Is(flat)
    <3> HIDE DEF h, Is
    <3>1. QED
      BY <2>3
  <2>5. FlattenSeq(seqs) = flat[n]
    BY <1>7 DEF FlattenSeq
  <2> HIDE DEF flat
  <2>6. \A k \in 1..n : flat[k] = (IF k = 1 THEN seqs[k] ELSE flat[k - 1] \o seqs[k])
    <3> DEFINE rest == [k \in 1..n |-> IF k = 1 THEN seqs[k] ELSE flat[k - 1] \o seqs[k]]
    <3>1. flat = rest
      BY <2>4
    <3>2. \A k \in 1..n : rest[k] = (IF k = 1 THEN seqs[k] ELSE flat[k - 1] \o seqs[k])
      OBVIOUS
    <3> HIDE DEF rest
    <3>3. QED
      BY <3>1, <3>2, Zenon
  <2> DEFINE T == {k \in 0..n : k = 0 \/ flat[k] = f[k]}
  <2>7. 0 \in T
    BY <1>1
  <2>8. ASSUME NEW k \in 1..n, k - 1 \in T
        PROVE  k \in T
    <3>1. h[k] = (IF k = 1 THEN seqs[k] ELSE h[k - 1] \o seqs[k]) /\ h[k] = f[k]
      BY <2>2
    <3>2. k # 1 => k - 1 \in 1..n /\ k - 1 # 0
      OBVIOUS
    <3>3. k # 1 => h[k - 1] = f[k - 1] /\ flat[k - 1] = f[k - 1]
      BY <2>8, <3>2
    <3> HIDE DEF h
    <3>4. flat[k] = f[k]
      BY <2>6, <3>1, <3>3
    <3>5. QED
      BY <3>4
  <2>9. \A k \in 0..n : k \in T
    <3>1. n \in Nat
      BY <1>1
    <3> HIDE DEF T, n
    <3>2. QED
      BY <3>1, <2>7, <2>8, Climbs
  <2>10. n \in 0..n /\ n # 0
    BY <1>1, <1>7
  <2>11. flat[n] = f[n]
    BY <2>9, <2>10
  <2>12. QED
    BY <1>5, <2>5, <2>11
<1>8. QED
  BY <1>6, <1>7

(* Where everything is: what comes before the k-th sequence is off[k - 1] long. *)
Laid(off, seqs, flat) ==
    /\ off \in [0..Len(seqs) -> Nat] /\ off[0] = 0 /\ Len(flat) = off[Len(seqs)]
    /\ \A k \in 1..Len(seqs) : off[k] = off[k - 1] + Len(seqs[k])
    /\ \A j, k \in 0..Len(seqs) : j <= k => off[j] <= off[k]
    /\ \A k \in 1..Len(seqs) : \A p \in 1..Len(seqs[k]) : flat[off[k - 1] + p] = seqs[k][p]
    /\ \A i \in 1..Len(flat) : \E k \in 1..Len(seqs) : \E p \in 1..Len(seqs[k]) : i = off[k - 1] + p

LEMMA FlattenPlaces ==
  ASSUME NEW S, NEW seqs \in Seq(Seq(S))
  PROVE  /\ FlattenSeq(seqs) \in Seq(S)
         /\ \E off : Laid(off, seqs, FlattenSeq(seqs))
<1> DEFINE n == Len(seqs)
<1>1. n \in Nat /\ \A k \in 1..n : seqs[k] \in Seq(S)
  OBVIOUS
<1>2. PICK f : Flattens(f, seqs, S) /\ FlattenSeq(seqs) = f[n]
  BY Flattening
<1>3. /\ f \in [0..n -> Seq(S)] /\ f[0] = <<>>
      /\ \A k \in 1..n : f[k] = f[k - 1] \o seqs[k]
  BY <1>2 DEF Flattens
<1> DEFINE off == [k \in 0..n |-> Len(f[k])]
<1>4. off \in [0..n -> Nat] /\ off[0] = 0 /\ \A k \in 0..n : off[k] = Len(f[k])
  <2>1. \A k \in 0..n : Len(f[k]) \in Nat
    BY <1>3, LenProperties
  <2>2. off[0] = Len(<<>>)
    BY <1>1, <1>3
  <2>3. QED
    BY <2>1, <2>2
<1> HIDE DEF off
<1>5. ASSUME NEW k \in 1..n
      PROVE  /\ k - 1 \in 0..n /\ k \in 0..n
             /\ off[k] = off[k - 1] + Len(seqs[k]) /\ off[k - 1] \in Nat /\ Len(seqs[k]) \in Nat
             /\ \A i \in 1..off[k - 1] : f[k][i] = f[k - 1][i]
             /\ \A p \in 1..Len(seqs[k]) : f[k][off[k - 1] + p] = seqs[k][p]
  <2>1. k - 1 \in 0..n /\ k \in 0..n
    BY <1>1
  <2>2. f[k - 1] \in Seq(S) /\ seqs[k] \in Seq(S) /\ f[k] = f[k - 1] \o seqs[k]
        /\ off[k - 1] = Len(f[k - 1]) /\ off[k] = Len(f[k])
    BY <1>1, <1>3, <1>4, <2>1
  <2> DEFINE a == f[k - 1]
             b == seqs[k]
  <2>3. a \in Seq(S) /\ b \in Seq(S)
    BY <2>2
  <2>4. /\ Len(a \o b) = Len(a) + Len(b) /\ Len(a) \in Nat /\ Len(b) \in Nat
        /\ \A i \in 1..Len(a) : (a \o b)[i] = a[i]
        /\ \A p \in 1..Len(b) : (a \o b)[Len(a) + p] = b[p]
    <3> HIDE DEF a, b
    <3>1. QED
      BY <2>3
  <2>5. QED
    BY <2>1, <2>2, <2>4
<1> DEFINE T == {k \in 0..n :
                  /\ \A j \in 0..k : off[j] <= off[k]
                  /\ \A j \in 1..k : \A p \in 1..Len(seqs[j]) : f[k][off[j - 1] + p] = seqs[j][p]
                  /\ \A i \in 1..off[k] : \E j \in 1..k : \E p \in 1..Len(seqs[j]) : i = off[j - 1] + p}
<1>6. 0 \in T
  BY <1>1, <1>4
<1>7. ASSUME NEW k \in 1..n, k - 1 \in T
      PROVE  k \in T
  <2>1. /\ k - 1 \in 0..n /\ k \in 0..n
        /\ off[k] = off[k - 1] + Len(seqs[k]) /\ off[k - 1] \in Nat /\ Len(seqs[k]) \in Nat
        /\ \A i \in 1..off[k - 1] : f[k][i] = f[k - 1][i]
        /\ \A p \in 1..Len(seqs[k]) : f[k][off[k - 1] + p] = seqs[k][p]
    BY <1>5
  <2>2. ASSUME NEW j \in 0..k
        PROVE  off[j] <= off[k]
    <3>0. off[j] \in Nat /\ off[k - 1] <= off[k] /\ off[k] \in Nat
      BY <1>4, <2>1, SMTT(60)
    <3>1. CASE j = k
      BY <3>0, <3>1
    <3>2. CASE j # k
      <4>1. j \in 0..(k - 1)
        BY <3>2
      <4>2. off[j] <= off[k - 1]
        BY <1>7, <4>1
      <4>3. QED
        BY <2>1, <3>0, <4>2, SMTT(60)
    <3>3. QED
      BY <3>1, <3>2
  <2>3. ASSUME NEW j \in 1..k, NEW p \in 1..Len(seqs[j])
        PROVE  f[k][off[j - 1] + p] = seqs[j][p]
    <3>1. CASE j = k
      BY <2>1, <3>1
    <3>2. CASE j # k
      <4>1. j \in 1..(k - 1) /\ j \in 1..n /\ j \in 0..(k - 1)
        BY <3>2
      <4>2. f[k - 1][off[j - 1] + p] = seqs[j][p] /\ off[j] <= off[k - 1]
        BY <1>7, <4>1
      <4>3. off[j] = off[j - 1] + Len(seqs[j]) /\ off[j - 1] \in Nat /\ Len(seqs[j]) \in Nat
        BY <1>5, <4>1
      <4>4. off[j - 1] + p \in 1..off[k - 1]
        <5>1. PICK x, y, l, z : x = off[j - 1] /\ y = off[j] /\ l = Len(seqs[j]) /\ z = off[k - 1]
          OBVIOUS
        <5>2. x \in Nat /\ l \in Nat /\ z \in Nat /\ y = x + l /\ y <= z /\ p \in 1..l
          BY <2>1, <4>2, <4>3, <5>1
        <5>3. x + p \in 1..z
          BY <5>2
        <5>4. QED
          BY <5>1, <5>3
      <4>5. QED
        BY <2>1, <4>2, <4>4
    <3>3. QED
      BY <3>1, <3>2
  <2>4. ASSUME NEW i \in 1..off[k]
        PROVE  \E j \in 1..k : \E p \in 1..Len(seqs[j]) : i = off[j - 1] + p
    <3>1. CASE i <= off[k - 1]
      <4>1. i \in 1..off[k - 1]
        BY <2>1, <3>1
      <4>2. PICK j \in 1..(k - 1) : \E p \in 1..Len(seqs[j]) : i = off[j - 1] + p
        BY <1>7, <4>1
      <4>3. j \in 1..k
        OBVIOUS
      <4>4. QED
        BY <4>2, <4>3
    <3>2. CASE ~(i <= off[k - 1])
      <4>1. i - off[k - 1] \in 1..Len(seqs[k]) /\ i = off[k - 1] + (i - off[k - 1]) /\ k \in 1..k
        BY <2>1, <3>2, SMTT(60)
      <4>2. QED
        BY <4>1
    <3>3. QED
      BY <3>1, <3>2
  <2>5. QED
    BY <2>1, <2>2, <2>3, <2>4
<1>8. \A k \in 0..n : k \in T
  <2> HIDE DEF T, n
  <2>1. QED
    BY <1>1, <1>6, <1>7, Climbs
<1>9. n \in 0..n /\ n \in T
  <2>1. n \in 0..n
    BY <1>1
  <2> HIDE DEF T, n
  <2>2. QED
    BY <1>8, <2>1
<1>10. f[n] \in Seq(S) /\ Len(f[n]) = off[n]
  BY <1>3, <1>4, <1>9
<1>11. Laid(off, seqs, FlattenSeq(seqs))
  <2>1. \A j, k \in 0..n : j <= k => off[j] <= off[k]
    BY <1>8
  <2>2. \A k \in 1..n : off[k] = off[k - 1] + Len(seqs[k])
    BY <1>5
  <2>3. QED
    BY <1>2, <1>4, <1>9, <1>10, <2>1, <2>2 DEF Laid
<1>12. QED
  BY <1>2, <1>10, <1>11

-----------------------------------------------------------------------------
(* Counting.                                                                *)

LEMMA InjectionBetween ==
  ASSUME NEW A, IsFiniteSet(A), NEW B, IsFiniteSet(B), Cardinality(A) <= Cardinality(B)
  PROVE  \E f : f \in Injection(A, B)
<1> DEFINE a == Cardinality(A)
           b == Cardinality(B)
<1>1. a \in Nat /\ b \in Nat /\ ExistsBijection(1..a, A) /\ ExistsBijection(1..b, B)
  BY FS_CardinalityType
<1>2. ExistsInjection(A, 1..a) /\ ExistsInjection(1..b, B)
  BY <1>1, Fun_ExistsBijEquiv
<1>3. ExistsInjection(1..a, 1..b)
  <2> DEFINE f == [i \in 1..a |-> i]
  <2>1. f \in [1..a -> 1..b] /\ \A i, j \in 1..a : f[i] = f[j] => i = j
    BY <1>1
  <2>2. DOMAIN f = 1..a
    OBVIOUS
  <2> HIDE DEF f
  <2>3. f \in Injection(1..a, 1..b)
    BY <2>1, <2>2 DEF Injection, IsInjective
  <2>4. QED
    BY <2>3 DEF ExistsInjection
<1>4. ExistsInjection(A, B)
  BY <1>2, <1>3, Fun_ExistsInjTransitive
<1>5. QED
  BY <1>4 DEF ExistsInjection

(* How often t is among the tokens. *)
At(tokens, t) == {k \in DOMAIN tokens : tokens[k] = t}

LEMMA CountIs ==
  ASSUME NEW S, NEW tokens \in Seq(S), NEW t
  PROVE  /\ Count(tokens, t) = Cardinality(At(tokens, t))
         /\ IsFiniteSet(At(tokens, t)) /\ Count(tokens, t) \in Nat
         /\ t \notin Range(tokens) => Count(tokens, t) = 0
<1>1. Len(tokens) \in Nat /\ DOMAIN tokens = 1..Len(tokens)
  OBVIOUS
<1>2. IsFiniteSet(1..Len(tokens))
  BY <1>1, FS_Interval
<1>3. At(tokens, t) \in SUBSET (1..Len(tokens))
  BY <1>1 DEF At
<1>4. IsFiniteSet(At(tokens, t))
  BY <1>2, <1>3, FS_Subset
<1>5. Count(tokens, t) = Cardinality(At(tokens, t))
  BY DEF Count, At
<1>6. t \notin Range(tokens) => At(tokens, t) = {}
  BY DEF At, Range
<1>7. QED
  BY <1>4, <1>5, <1>6, FS_CardinalityType, FS_EmptySet

(* Tokens that all are there, among no more than there were, are the same.  *)
LEMMA NoneOver ==
  ASSUME NEW S, NEW had \in Seq(S), NEW got \in Seq(S), Len(got) = Len(had),
         \A t : Count(got, t) >= Count(had, t), NEW over
  PROVE  Count(got, over) = Count(had, over)
<1>1. \A t : Count(got, t) \in Nat /\ Count(had, t) \in Nat
  BY CountIs
<1>2. SUFFICES ASSUME Count(got, over) > Count(had, over)
               PROVE  FALSE
  BY <1>1
<1> DEFINE n == Len(had)
           M == [t \in S |-> CHOOSE f : f \in Injection(At(had, t), At(got, t))]
<1>3. n \in Nat /\ DOMAIN had = 1..n /\ DOMAIN got = 1..n
      /\ \A k \in 1..n : had[k] \in S /\ got[k] \in S
  OBVIOUS
<1>4. ASSUME NEW t \in S
      PROVE  M[t] \in Injection(At(had, t), At(got, t))
  <2>1. IsFiniteSet(At(had, t)) /\ IsFiniteSet(At(got, t))
        /\ Cardinality(At(had, t)) <= Cardinality(At(got, t))
    BY <1>1, CountIs
  <2>2. \E f : f \in Injection(At(had, t), At(got, t))
    BY <2>1, InjectionBetween
  <2>3. QED
    BY <2>2
<1> DEFINE f == [k \in 1..n |-> M[had[k]][k]]
<1> HIDE DEF M
<1>5. ASSUME NEW k \in 1..n
      PROVE  f[k] \in 1..n /\ got[f[k]] = had[k]
  <2>1. k \in At(had, had[k]) /\ had[k] \in S
    BY <1>3 DEF At
  <2>2. M[had[k]] \in [At(had, had[k]) -> At(got, had[k])]
    BY <1>4, <2>1 DEF Injection
  <2>3. M[had[k]][k] \in At(got, had[k])
    BY <2>1, <2>2
  <2>4. QED
    BY <1>3, <2>3 DEF At
<1>6. f \in [1..n -> 1..n]
  BY <1>5
<1>7. \A j, k \in 1..n : f[j] = f[k] => j = k
  <2> SUFFICES ASSUME NEW j \in 1..n, NEW k \in 1..n, f[j] = f[k] PROVE j = k
    OBVIOUS
  <2>1. had[j] = had[k]
    BY <1>5
  <2>2. j \in At(had, had[k]) /\ k \in At(had, had[k]) /\ had[k] \in S
    BY <1>3, <2>1 DEF At
  <2>3. M[had[k]] \in Injection(At(had, had[k]), At(got, had[k]))
    BY <1>4, <2>2
  <2>4. DOMAIN M[had[k]] = At(had, had[k])
    BY <2>3 DEF Injection
  <2>5. M[had[k]][j] = M[had[k]][k]
    BY <2>1
  <2>6. QED
    BY <2>2, <2>3, <2>4, <2>5 DEF Injection, IsInjective
<1>8. f \in Injection(1..n, 1..n)
  BY <1>6, <1>7 DEF Injection, IsInjective
<1>9. f \in Surjection(1..n, 1..n)
  <2>1. IsFiniteSet(1..n)
    BY <1>3, FS_Interval
  <2> HIDE DEF f
  <2>2. QED
    BY <1>8, <2>1, FS_Injection
<1>10. At(got, over) \subseteq {f[k] : k \in At(had, over)}
  <2> SUFFICES ASSUME NEW p \in At(got, over) PROVE \E k \in At(had, over) : p = f[k]
    OBVIOUS
  <2>1. p \in 1..n /\ got[p] = over
    BY <1>3 DEF At
  <2>2. PICK k \in 1..n : f[k] = p
    BY <1>9, <2>1 DEF Surjection
  <2>3. had[k] = over
    BY <1>5, <2>1, <2>2
  <2>4. QED
    BY <1>3, <2>2, <2>3 DEF At
<1>11. Cardinality(At(got, over)) <= Cardinality(At(had, over))
  <2> DEFINE H == At(had, over)
             G == At(got, over)
             g == [k \in H |-> f[k]]
             R == {f[k] : k \in H}
  <2>1. g \in Surjection(H, R)
    BY DEF Surjection
  <2>2. IsFiniteSet(H)
    BY CountIs
  <2> HIDE DEF H, G, f
  <2>3. IsFiniteSet(R) /\ Cardinality(R) <= Cardinality(H)
    <3> HIDE DEF g, R
    <3>1. QED
      BY <2>1, <2>2, FS_Surjection
  <2>4. G \in SUBSET R
    BY <1>10 DEF G, H
  <2>5. IsFiniteSet(G) /\ Cardinality(G) <= Cardinality(R)
    <3> HIDE DEF R
    <3>1. QED
      BY <2>3, <2>4, FS_Subset
  <2>6. Cardinality(H) \in Nat /\ Cardinality(R) \in Nat /\ Cardinality(G) \in Nat
    <3> HIDE DEF R
    <3>1. QED
      BY <2>2, <2>3, <2>5, FS_CardinalityType
  <2>7. QED
    BY <2>3, <2>5, <2>6 DEF G, H
<1>12. QED
  BY <1>1, <1>2, <1>11, CountIs

(* Flattening sequences of one or none leaves as many as are not empty.     *)
LEMMA OneOrNone ==
  ASSUME NEW S, NEW seqs \in Seq(Seq(S)), NEW C \in SUBSET (1..Len(seqs)),
         \A k \in 1..Len(seqs) : Len(seqs[k]) = IF k \in C THEN 1 ELSE 0
  PROVE  Len(FlattenSeq(seqs)) = Cardinality(C)
<1> DEFINE n == Len(seqs)
<1>1. n \in Nat
  OBVIOUS
<1>2. PICK off : Laid(off, seqs, FlattenSeq(seqs))
  BY FlattenPlaces
<1>3. /\ off \in [0..n -> Nat] /\ off[0] = 0 /\ Len(FlattenSeq(seqs)) = off[n]
      /\ \A k \in 1..n : off[k] = off[k - 1] + Len(seqs[k])
  BY <1>2 DEF Laid
<1> DEFINE B(k) == C \cap (1..k)
           T == {k \in 0..n : off[k] = Cardinality(B(k))}
<1>4. 0 \in T
  <2>1. B(0) = {}
    OBVIOUS
  <2>2. QED
    BY <1>1, <1>3, <2>1, FS_EmptySet
<1>5. ASSUME NEW k \in 1..n, k - 1 \in T
      PROVE  k \in T
  <2>0. k \in 0..n /\ \A x : x \in 1..k <=> x \in 1..(k - 1) \/ x = k
    OBVIOUS
  <2>1. IsFiniteSet(B(k - 1)) /\ Cardinality(B(k - 1)) \in Nat /\ k \notin B(k - 1)
    <3>1. IsFiniteSet(1..(k - 1))
      BY FS_Interval
    <3>2. IsFiniteSet(B(k - 1))
      BY <3>1, FS_Intersection
    <3>3. QED
      BY <3>2, FS_CardinalityType
  <2>2. off[k] = off[k - 1] + Len(seqs[k]) /\ off[k - 1] = Cardinality(B(k - 1))
    BY <1>3, <1>5
  <2>3. CASE k \in C
    <3>1. B(k) = B(k - 1) \cup {k} /\ Len(seqs[k]) = 1
      BY <2>0, <2>3
    <3> HIDE DEF B
    <3>2. Cardinality(B(k)) = Cardinality(B(k - 1)) + 1
      BY <2>1, <3>1, FS_AddElement
    <3>3. QED
      BY <2>0, <2>1, <2>2, <3>1, <3>2
  <2>4. CASE k \notin C
    <3>1. B(k) = B(k - 1) /\ Len(seqs[k]) = 0
      BY <2>0, <2>4
    <3> HIDE DEF B
    <3>2. QED
      BY <2>0, <2>1, <2>2, <3>1
  <2>5. QED
    BY <2>3, <2>4
<1>6. \A k \in 0..n : k \in T
  <2> HIDE DEF T, n
  <2>1. QED
    BY <1>1, <1>4, <1>5, Climbs
<1>7. n \in 0..n
  BY <1>1
<1>8. n \in T
  <2> HIDE DEF T, n
  <2>1. QED
    BY <1>6, <1>7
<1>9. B(n) = C
  OBVIOUS
<1>10. QED
  BY <1>3, <1>8, <1>9

(* Ranks: how many of a set of numbers are less. *)
Less(F, k) == {f \in F : f < k}

LEMMA Ranks ==
  ASSUME NEW n \in Nat, NEW F \in SUBSET (1..n)
  PROVE  LET r == [k \in F |-> Cardinality(Less(F, k))]
             c == Cardinality(F)
         IN  /\ c \in Nat /\ IsFiniteSet(F)
             /\ r \in Bijection(F, 0..(c - 1))
             /\ \A k \in F : (\E f \in F : f > k) <=> r[k] < c - 1
<1> DEFINE r == [k \in F |-> Cardinality(Less(F, k))]
           c == Cardinality(F)
<1>0. \A x \in F : x \in Int
  OBVIOUS
<1>1. IsFiniteSet(F) /\ c \in Nat
  <2>1. IsFiniteSet(1..n)
    BY FS_Interval
  <2>2. IsFiniteSet(F)
    BY <2>1, FS_Subset
  <2>3. QED
    BY <2>2, FS_CardinalityType
<1>2. ASSUME NEW k \in F
      PROVE  /\ IsFiniteSet(Less(F, k)) /\ Cardinality(Less(F, k)) \in 0..(c - 1)
             /\ (~ \E f \in F : f > k) => Cardinality(Less(F, k)) = c - 1
  <2>1. IsFiniteSet(F \ {k}) /\ Cardinality(F \ {k}) = c - 1
    BY <1>1, FS_RemoveElement
  <2>2. Less(F, k) \in SUBSET (F \ {k})
    BY DEF Less
  <2>3. IsFiniteSet(Less(F, k)) /\ Cardinality(Less(F, k)) <= c - 1
    BY <2>1, <2>2, FS_Subset
  <2>4. (~ \E f \in F : f > k) => Less(F, k) = F \ {k}
    <3>1. k \in Int /\ ~ (k < k) /\ \A x \in F : x > k \/ x = k \/ x < k
      BY <1>0
    <3> HIDE DEF r, c
    <3>2. QED
      BY <3>1, Zenon DEF Less
  <2>5. Cardinality(Less(F, k)) \in Nat
    BY <2>3, FS_CardinalityType
  <2>6. QED
    BY <1>1, <2>1, <2>3, <2>4, <2>5
<1>3. ASSUME NEW j \in F, NEW k \in F, j < k
      PROVE  Cardinality(Less(F, j)) < Cardinality(Less(F, k))
  <2>1. IsFiniteSet(Less(F, j)) /\ IsFiniteSet(Less(F, k))
        /\ Cardinality(Less(F, j)) \in Int /\ Cardinality(Less(F, k)) \in Int
    BY <1>2
  <2>2. j \notin Less(F, j) /\ Less(F, j) \cup {j} \in SUBSET Less(F, k)
    <3>1. j \in Int /\ k \in Int /\ ~ (j < j)
      BY <1>0
    <3>2. \A x \in F : x < j => x < k
      BY <1>0, <1>3, <3>1
    <3> HIDE DEF r, c
    <3>3. QED
      BY <1>3, <3>1, <3>2, Zenon DEF Less
  <2>3. Cardinality(Less(F, j) \cup {j}) = Cardinality(Less(F, j)) + 1
    BY <2>1, <2>2, FS_AddElement
  <2>4. Cardinality(Less(F, j) \cup {j}) <= Cardinality(Less(F, k))
    BY <2>1, <2>2, FS_Subset
  <2>5. QED
    BY <2>1, <2>3, <2>4
<1>4. r \in [F -> 0..(c - 1)]
  BY <1>2
<1>5. \A j, k \in F : r[j] = r[k] => j = k
  <2> SUFFICES ASSUME NEW j \in F, NEW k \in F, r[j] = r[k] PROVE j = k
    OBVIOUS
  <2>1. j \in Int /\ k \in Int
    OBVIOUS
  <2>2. r[j] \in Int /\ r[k] \in Int
    BY <1>4
  <2>3. ~(j < k) /\ ~(k < j)
    BY <1>3, <2>2
  <2>4. QED
    BY <2>1, <2>3
<1>6. r \in Injection(F, 0..(c - 1))
  BY <1>4, <1>5 DEF Injection, IsInjective
<1>7. r \in Surjection(F, 0..(c - 1))
  <2>1. IsFiniteSet(0..(c - 1)) /\ Cardinality(0..(c - 1)) = c
    BY <1>1, FS_Interval, SMTT(60)
  <2> HIDE DEF r
  <2>2. QED
    BY <1>6, <2>1, FS_Injection
<1>8. \A k \in F : (\E f \in F : f > k) <=> r[k] < c - 1
  <2> SUFFICES ASSUME NEW k \in F PROVE (\E f \in F : f > k) <=> r[k] < c - 1
    OBVIOUS
  <2>1. ASSUME NEW f \in F, f > k PROVE r[k] < c - 1
    <3>1. k < f
      BY <2>1
    <3>2. r[k] < r[f]
      BY <1>3, <3>1
    <3>3. r[f] \in 0..(c - 1) /\ r[k] \in 0..(c - 1)
      BY <1>4
    <3>4. QED
      BY <1>1, <3>2, <3>3
  <2>2. (~ \E f \in F : f > k) => r[k] = c - 1
    BY <1>2
  <2>3. QED
    BY <1>1, <2>1, <2>2
<1>9. QED
  BY <1>1, <1>6, <1>7, <1>8 DEF Bijection

(* Every other one, but the last. *)
Opening(F) == {k \in F : Cardinality(Less(F, k)) % 2 = 0 /\ \E f \in F : f > k}
OpeningRanks(c) == {i \in 0..(c - 1) : i % 2 = 0 /\ i < c - 1}

LEMMA OpeningsOf ==
  ASSUME NEW n \in Nat, NEW F \in SUBSET (1..n)
  PROVE  Cardinality(Opening(F)) = Cardinality(OpeningRanks(Cardinality(F)))
<1> DEFINE r == [k \in F |-> Cardinality(Less(F, k))]
           c == Cardinality(F)
           O == Opening(F)
           R == OpeningRanks(c)
           s == [k \in O |-> r[k]]
<1>1. /\ c \in Nat /\ IsFiniteSet(F) /\ r \in Bijection(F, 0..(c - 1))
      /\ \A k \in F : (\E f \in F : f > k) <=> r[k] < c - 1
  BY Ranks
<1>2. O = {k \in F : r[k] % 2 = 0 /\ r[k] < c - 1}
  BY <1>1 DEF Opening
<1> HIDE DEF r, c
<1>3. /\ r \in [F -> 0..(c - 1)] /\ \A j, k \in F : r[j] = r[k] => j = k
      /\ \A i \in 0..(c - 1) : \E k \in F : r[k] = i
  <2>1. r \in [F -> 0..(c - 1)] /\ \A i \in 0..(c - 1) : \E k \in F : r[k] = i
    BY <1>1 DEF Bijection, Surjection
  <2>2. DOMAIN r = F /\ \A j, k \in DOMAIN r : r[j] = r[k] => j = k
    BY <1>1, <2>1 DEF Bijection, Injection, IsInjective
  <2>3. QED
    BY <2>1, <2>2
<1>4. IsFiniteSet(O)
  <2>1. O \in SUBSET F
    BY <1>2
  <2> HIDE DEF O
  <2>2. QED
    BY <1>1, <2>1, FS_Subset
<1>5. s \in [O -> R] /\ \A j, k \in O : s[j] = s[k] => j = k
  BY <1>2, <1>3 DEF OpeningRanks
<1>6. \A i \in R : \E k \in O : s[k] = i
  <2> SUFFICES ASSUME NEW i \in R PROVE \E k \in O : s[k] = i
    OBVIOUS
  <2>1. i \in 0..(c - 1) /\ i % 2 = 0 /\ i < c - 1
    BY DEF OpeningRanks
  <2>2. PICK k \in F : r[k] = i
    BY <1>3, <2>1
  <2>3. k \in O
    BY <1>2, <2>1, <2>2
  <2>4. QED
    BY <2>2, <2>3
<1>7. DOMAIN s = O
  OBVIOUS
<1> HIDE DEF s, O, R
<1>8. s \in Bijection(O, R)
  BY <1>5, <1>6, <1>7 DEF Bijection, Injection, Surjection, IsInjective
<1>9. ExistsBijection(O, R)
  BY <1>8 DEF ExistsBijection
<1>10. Cardinality(R) = Cardinality(O)
  BY <1>4, <1>9, FS_Bijection
<1>11. QED
  BY <1>10 DEF O, R, c

LEMMA Associates ==
  ASSUME NEW S
  PROVE  \A x, y, z \in Seq(S) : (x \o y) \o z = x \o (y \o z)
BY ConcatAssociative, SMTT(60)

LEMMA FallsWithin ==
  ASSUME NEW x \in Nat, NEW l \in Nat, NEW z \in Nat, NEW p \in 1..l, x + l <= z
  PROVE  x + p \in 1..z
OBVIOUS

(* Flattening joins what is flattened of two. *)
LEMMA FlattenJoined ==
  ASSUME NEW S, NEW a \in Seq(Seq(S)), NEW b \in Seq(Seq(S))
  PROVE  FlattenSeq(a \o b) = FlattenSeq(a) \o FlattenSeq(b)
<1> DEFINE n == Len(a)
           m == Len(b)
           both == a \o b
<1>1. /\ both \in Seq(Seq(S)) /\ Len(both) = n + m /\ n \in Nat /\ m \in Nat
      /\ \A k \in 1..n : both[k] = a[k]
      /\ \A k \in 1..m : both[n + k] = b[k]
      /\ \A k \in 1..m : b[k] \in Seq(S)
  OBVIOUS
<1> HIDE DEF both
<1>2. PICK f : Flattens(f, a, S) /\ FlattenSeq(a) = f[n]
  BY Flattening
<1>3. PICK g : Flattens(g, b, S) /\ FlattenSeq(b) = g[m]
  BY Flattening
<1>4. PICK h : Flattens(h, both, S) /\ FlattenSeq(both) = h[n + m]
  BY <1>1, Flattening, ZenonT(60)
<1>5. /\ f \in [0..n -> Seq(S)] /\ f[0] = <<>> /\ \A k \in 1..n : f[k] = f[k - 1] \o a[k]
  BY <1>2 DEF Flattens
<1>6. /\ g \in [0..m -> Seq(S)] /\ g[0] = <<>> /\ \A k \in 1..m : g[k] = g[k - 1] \o b[k]
  BY <1>3 DEF Flattens
<1>7. /\ h \in [0..(n + m) -> Seq(S)] /\ h[0] = <<>>
      /\ \A k \in 1..(n + m) : h[k] = h[k - 1] \o both[k]
  BY <1>1, <1>4 DEF Flattens
<1> HIDE DEF n, m
<1> DEFINE T == {k \in 0..n : h[k] = f[k]}
<1>8. 0 \in T
  BY <1>1, <1>5, <1>7
<1>9. ASSUME NEW k \in 1..n, k - 1 \in T
      PROVE  k \in T
  <2>1. k \in 1..(n + m) /\ k \in 0..n /\ h[k - 1] = f[k - 1] /\ both[k] = a[k]
    BY <1>1, <1>9
  <2>2. h[k] = h[k - 1] \o both[k] /\ f[k] = f[k - 1] \o a[k]
    BY <1>5, <1>7, <2>1
  <2>3. QED
    BY <2>1, <2>2
<1>10. h[n] = f[n] /\ f[n] \in Seq(S)
  <2>1. n \in 0..n
    BY <1>1
  <2>2. \A k \in 0..n : k \in T
    <3> HIDE DEF T
    <3>1. QED
      BY <1>1, <1>8, <1>9, Climbs
  <2>3. QED
    BY <1>5, <2>1, <2>2
<1> DEFINE U == {k \in 0..m : h[n + k] = f[n] \o g[k]}
<1>11. 0 \in U
  <2>1. n + 0 = n /\ 0 \in 0..m
    BY <1>1
  <2>2. f[n] \o <<>> = f[n]
    BY <1>10, ConcatEmptySeq
  <2>3. QED
    BY <1>6, <1>10, <2>1, <2>2
<1>12. ASSUME NEW k \in 1..m, k - 1 \in U
       PROVE  k \in U
  <2>1. n + k \in 1..(n + m) /\ (n + k) - 1 = n + (k - 1) /\ k \in 0..m /\ k - 1 \in 0..m
    BY <1>1
  <2>2. h[n + k] = h[n + (k - 1)] \o b[k]
    BY <1>1, <1>7, <2>1
  <2>3. h[n + (k - 1)] = f[n] \o g[k - 1] /\ g[k] = g[k - 1] \o b[k]
    BY <1>6, <1>12
  <2>4. g[k - 1] \in Seq(S) /\ b[k] \in Seq(S)
    BY <1>1, <1>6, <2>1
  <2>5. (f[n] \o g[k - 1]) \o b[k] = f[n] \o (g[k - 1] \o b[k])
    <3>1. PICK x, y, z : x = f[n] /\ y = g[k - 1] /\ z = b[k]
      OBVIOUS
    <3>2. x \in Seq(S) /\ y \in Seq(S) /\ z \in Seq(S)
      BY <1>10, <2>4, <3>1
    <3>3. (x \o y) \o z = x \o (y \o z)
      <4>1. \A u, v, w \in Seq(S) : (u \o v) \o w = u \o (v \o w)
        BY Associates, SMTT(60)
      <4>2. QED
        BY <3>2, <4>1, Zenon
    <3>4. QED
      BY <3>1, <3>3
  <2>6. h[n + k] = f[n] \o g[k]
    BY <2>2, <2>3, <2>5
  <2>7. QED
    BY <2>1, <2>6
<1>13. h[n + m] = f[n] \o g[m]
  <2>1. m \in 0..m
    BY <1>1
  <2>2. \A k \in 0..m : k \in U
    <3> HIDE DEF U
    <3>1. QED
      BY <1>1, <1>11, <1>12, Climbs
  <2>3. QED
    BY <2>1, <2>2
<1>14. QED
  BY <1>2, <1>3, <1>4, <1>13 DEF both

LEMMA FlattenNone == FlattenSeq(<<>>) = <<>>
BY DEF FlattenSeq

LEMMA FlattenOne ==
  ASSUME NEW S, NEW s \in Seq(S)
  PROVE  FlattenSeq(<<s>>) = s
<1> DEFINE one == <<s>>
<1>1. one \in Seq(Seq(S)) /\ Len(one) = 1 /\ one[1] = s
  OBVIOUS
<1> HIDE DEF one
<1>2. PICK f : Flattens(f, one, S) /\ FlattenSeq(one) = f[1]
  BY <1>1, Flattening
<1>3. f[0] = <<>> /\ f[1] = f[1 - 1] \o one[1]
  BY <1>1, <1>2 DEF Flattens
<1>4. f[1] = <<>> \o s
  BY <1>1, <1>3
<1>5. <<>> \o s = s
  BY ConcatEmptySeq
<1>6. QED
  BY <1>2, <1>4, <1>5 DEF one

(* A sequence is what its entries, each by itself, are flattened to.        *)
Ones(s) == [k \in DOMAIN s |-> <<s[k]>>]

LEMMA FlattenOnes ==
  ASSUME NEW S, NEW s \in Seq(S)
  PROVE  Ones(s) \in Seq(Seq(S)) /\ Len(Ones(s)) = Len(s) /\ FlattenSeq(Ones(s)) = s
<1> DEFINE ones == Ones(s)
           n == Len(s)
<1>1. n \in Nat /\ DOMAIN s = 1..n /\ \A k \in 1..n : s[k] \in S
  OBVIOUS
<1>2. ones \in [1..n -> Seq(S)] /\ \A k \in 1..n : ones[k] = <<s[k]>>
  BY <1>1 DEF Ones
<1> HIDE DEF ones
<1>3. ones \in Seq(Seq(S)) /\ Len(ones) = n
  BY <1>1, <1>2
<1> DEFINE flat == FlattenSeq(ones)
<1>4. flat \in Seq(S)
  BY <1>3, FlattenPlaces
<1>5. PICK off : Laid(off, ones, flat)
  BY <1>3, FlattenPlaces
<1> HIDE DEF flat
<1>6. /\ off \in [0..n -> Nat] /\ off[0] = 0 /\ Len(flat) = off[n]
      /\ \A k \in 1..n : off[k] = off[k - 1] + 1
      /\ \A k \in 1..n : flat[off[k - 1] + 1] = s[k]
  <2>1. \A k \in 1..n : Len(ones[k]) = 1 /\ ones[k][1] = s[k] /\ 1 \in 1..Len(ones[k])
    <3>1. \A x : Len(<<x>>) = 1 /\ <<x>>[1] = x
      OBVIOUS
    <3>2. \A k \in 1..n : ones[k] = <<s[k]>>
      BY <1>2
    <3> HIDE DEF n
    <3>3. \A k \in 1..n : Len(ones[k]) = 1 /\ ones[k][1] = s[k]
      BY <3>1, <3>2, Zenon
    <3>4. 1 \in 1..1
      OBVIOUS
    <3>5. QED
      BY <3>3, <3>4
  <2>2. /\ off \in [0..n -> Nat] /\ off[0] = 0 /\ Len(flat) = off[n]
        /\ \A k \in 1..n : off[k] = off[k - 1] + Len(ones[k])
        /\ \A k \in 1..n : \A p \in 1..Len(ones[k]) : flat[off[k - 1] + p] = ones[k][p]
    BY <1>3, <1>5 DEF Laid
  <2>3. QED
    BY <2>1, <2>2
<1> HIDE DEF n
<1> DEFINE T == {k \in 0..n : off[k] = k}
<1>7. \A k \in 0..n : k \in T
  <2>1. 0 \in T
    BY <1>1, <1>6
  <2>2. ASSUME NEW k \in 1..n, k - 1 \in T
        PROVE  k \in T
    BY <1>6, <2>2
  <2> HIDE DEF T
  <2>3. QED
    BY <1>1, <2>1, <2>2, Climbs
<1>8. n \in 0..n
  BY <1>1
<1>9. Len(flat) = n
  BY <1>6, <1>7, <1>8
<1>10. \A k \in 1..n : flat[k] = s[k]
  <2> SUFFICES ASSUME NEW k \in 1..n PROVE flat[k] = s[k]
    OBVIOUS
  <2>1. k - 1 \in 0..n /\ (k - 1) + 1 = k
    BY <1>1
  <2>2. off[k - 1] = k - 1
    BY <1>7, <2>1
  <2>3. QED
    BY <1>6, <2>1, <2>2
<1>11. flat = s
  BY <1>4, <1>9, <1>10, SeqEqual DEF n
<1>12. QED
  BY <1>3, <1>11 DEF flat, ones, n

(* As much is flattened of two whose entries are as long.                   *)
LEMMA FlattenLengths ==
  ASSUME NEW S, NEW a \in Seq(Seq(S)), NEW R, NEW b \in Seq(Seq(R)), Len(a) = Len(b),
         \A k \in 1..Len(a) : Len(a[k]) = Len(b[k])
  PROVE  Len(FlattenSeq(a)) = Len(FlattenSeq(b))
<1> DEFINE n == Len(a)
<1>1. n \in Nat
  OBVIOUS
<1>2. PICK f : Laid(f, a, FlattenSeq(a))
  BY FlattenPlaces
<1>3. PICK g : Laid(g, b, FlattenSeq(b))
  BY FlattenPlaces
<1>4. /\ f[0] = 0 /\ Len(FlattenSeq(a)) = f[n] /\ g[0] = 0 /\ Len(FlattenSeq(b)) = g[n]
      /\ \A k \in 1..n : f[k] = f[k - 1] + Len(a[k]) /\ g[k] = g[k - 1] + Len(a[k])
  BY <1>2, <1>3 DEF Laid
<1> HIDE DEF n
<1> DEFINE T == {k \in 0..n : f[k] = g[k]}
<1>5. 0 \in T
  BY <1>1, <1>4
<1>6. ASSUME NEW k \in 1..n, k - 1 \in T
      PROVE  k \in T
  BY <1>4, <1>6
<1>7. \A k \in 0..n : k \in T
  <2> HIDE DEF T
  <2>1. QED
    BY <1>1, <1>5, <1>6, Climbs
<1>8. n \in 0..n
  BY <1>1
<1>9. QED
  BY <1>4, <1>7, <1>8

-----------------------------------------------------------------------------
(* The gate: how many tokens a text has, and which.                         *)

ValuesIn(lines) ==
    [k \in DOMAIN lines |-> [v \in DOMAIN lines[k].values |->
                               [value |-> lines[k].values[v], code |-> <<>>]]]

Closing(lines, k) ==
    CHOOSE f \in Fences(lines) : Before(lines, f) = Before(lines, k) + 1

Opens(lines, k) ==
    k \in Fences(lines) /\ Before(lines, k) % 2 = 0 /\ \E f \in Fences(lines) : f > k

CodeIn(lines) ==
    [k \in DOMAIN lines |->
        IF Opens(lines, k)
        THEN <<[value |-> "", code |-> SubSeq(lines, k, Closing(lines, k))]>>
        ELSE <<>>]

Amount(lines) == Len(FlattenSeq(ValuesIn(lines)))
FenceCount(lines) == Cardinality(Fences(lines))

ValueToken == [value : Word, code : {<<>>}]

LEMMA TokensAre ==
  ASSUME NEW lines
  PROVE  ProtectedTokens(lines) = FlattenSeq(ValuesIn(lines)) \o FlattenSeq(CodeIn(lines))
BY DEF ProtectedTokens, ValuesIn, CodeIn, Opens, Closing

LEMMA TextIs ==
  ASSUME NEW lines \in Text
  PROVE  /\ lines \in Seq(TextLine) /\ Len(lines) \in Nat /\ DOMAIN lines = 1..Len(lines)
         /\ \A k \in 1..Len(lines) : lines[k] \in TextLine
BY DEF Text

LEMMA LineIs ==
  ASSUME NEW line \in TextLine
  PROVE  /\ line = [kind |-> line.kind, says |-> line.says, values |-> line.values,
                    noise |-> line.noise]
         /\ line.kind \in Kind /\ line.says \in Word /\ line.values \in Seq(Word)
         /\ line.noise \in Noise /\ (line.kind = "blank" => line.values = <<>>)
BY DEF TextLine

LEMMA ValuesAre ==
  ASSUME NEW lines \in Text
  PROVE  /\ ValuesIn(lines) \in Seq(Seq(ValueToken)) /\ Len(ValuesIn(lines)) = Len(lines)
         /\ \A k \in 1..Len(lines) : Len(ValuesIn(lines)[k]) = Len(lines[k].values)
         /\ Amount(lines) \in Nat
<1> DEFINE n == Len(lines)
           all == ValuesIn(lines)
<1>1. n \in Nat /\ DOMAIN lines = 1..n /\ \A k \in 1..n : lines[k] \in TextLine
  BY TextIs
<1>2. ASSUME NEW k \in 1..n
      PROVE  all[k] \in Seq(ValueToken) /\ Len(all[k]) = Len(lines[k].values)
  <2> DEFINE values == lines[k].values
  <2>1. values \in Seq(Word)
    BY <1>1, LineIs
  <2>2. all[k] = [v \in DOMAIN values |-> [value |-> values[v], code |-> <<>>]]
    BY <1>1 DEF ValuesIn
  <2> HIDE DEF values, all
  <2>3. Len(values) \in Nat /\ DOMAIN values = 1..Len(values) /\ \A v \in 1..Len(values) : values[v] \in Word
    BY <2>1
  <2>4. all[k] \in [1..Len(values) -> ValueToken]
    BY <2>2, <2>3 DEF ValueToken
  <2>5. all[k] \in Seq(ValueToken) /\ Len(all[k]) = Len(values)
    BY <2>3, <2>4
  <2>6. QED
    BY <2>5 DEF values
<1>3. all \in [1..n -> Seq(ValueToken)]
  <2>1. DOMAIN all = 1..n /\ all = [k \in DOMAIN all |-> all[k]]
    BY <1>1 DEF ValuesIn
  <2> HIDE DEF all
  <2>2. QED
    BY <1>2, <2>1
<1> HIDE DEF all
<1>4. all \in Seq(Seq(ValueToken)) /\ Len(all) = n
  BY <1>1, <1>3
<1>5. FlattenSeq(all) \in Seq(ValueToken)
  BY <1>4, FlattenPlaces
<1>6. Len(FlattenSeq(all)) \in Nat
  BY <1>5, LenProperties
<1>7. QED
  BY <1>2, <1>4, <1>6 DEF Amount, all

LEMMA FencesAre ==
  ASSUME NEW lines \in Text
  PROVE  /\ Fences(lines) \in SUBSET (1..Len(lines)) /\ IsFiniteSet(Fences(lines))
         /\ FenceCount(lines) \in Nat
<1>1. Len(lines) \in Nat /\ DOMAIN lines = 1..Len(lines)
  BY TextIs
<1>2. Fences(lines) \in SUBSET (1..Len(lines))
  BY <1>1 DEF Fences
<1>3. IsFiniteSet(1..Len(lines))
  BY <1>1, FS_Interval
<1>4. IsFiniteSet(Fences(lines))
  BY <1>2, <1>3, FS_Subset
<1>5. QED
  BY <1>2, <1>4, FS_CardinalityType DEF FenceCount

(* A text has as many tokens as values, and as pairs of fences. *)
LEMMA TokensOf ==
  ASSUME NEW lines \in Text
  PROVE  \E S : /\ ProtectedTokens(lines) \in Seq(S)
                /\ Len(ProtectedTokens(lines))
                     = Amount(lines) + Cardinality(OpeningRanks(FenceCount(lines)))
<1> DEFINE n == Len(lines)
           code == CodeIn(lines)
           F == Fences(lines)
           Token(k) == [value |-> "", code |-> SubSeq(lines, k, Closing(lines, k))]
           C == {Token(k) : k \in 1..n}
           O == {k \in 1..n : Opens(lines, k)}
<1>1. n \in Nat /\ DOMAIN lines = 1..n /\ F \in SUBSET (1..n) /\ Amount(lines) \in Nat
  BY TextIs, FencesAre, ValuesAre
<1>2. ASSUME NEW k \in 1..n
      PROVE  code[k] \in Seq(C) /\ Len(code[k]) = IF k \in O THEN 1 ELSE 0
  <2>1. code[k] = IF Opens(lines, k) THEN <<Token(k)>> ELSE <<>>
    BY <1>1 DEF CodeIn
  <2>2. Token(k) \in C
    OBVIOUS
  <2> HIDE DEF code, Token, C
  <2>3. <<Token(k)>> \in Seq(C) /\ Len(<<Token(k)>>) = 1 /\ <<>> \in Seq(C) /\ Len(<<>>) = 0
    BY <2>2
  <2>4. QED
    BY <2>1, <2>3
<1>3. DOMAIN code = 1..n /\ code = [k \in DOMAIN code |-> code[k]]
  BY <1>1 DEF CodeIn
<1> HIDE DEF code, C
<1>4. code \in Seq(Seq(C)) /\ Len(code) = n
  <2>1. code \in [1..n -> Seq(C)]
    BY <1>2, <1>3
  <2>2. QED
    BY <1>1, <2>1
<1>5. O \in SUBSET (1..Len(code)) /\ \A k \in 1..Len(code) : Len(code[k]) = IF k \in O THEN 1 ELSE 0
  BY <1>2, <1>4
<1>6. Len(FlattenSeq(code)) = Cardinality(O)
  <2> HIDE DEF O
  <2>1. QED
    BY <1>4, <1>5, OneOrNone
<1>7. O = Opening(F)
  <2>1. \A k : k \in O <=> k \in Opening(F)
    <3> SUFFICES ASSUME NEW k PROVE k \in O <=> k \in Opening(F)
      OBVIOUS
    <3>1. Before(lines, k) = Cardinality(Less(F, k))
      BY DEF Before, Less
    <3>2. k \in F => k \in 1..n
      BY <1>1
    <3>3. QED
      BY <3>1, <3>2, Zenon DEF Opens, Opening
  <2>2. QED
    BY <2>1, Zenon
<1>8. Cardinality(O) = Cardinality(OpeningRanks(FenceCount(lines)))
  BY <1>1, <1>7, OpeningsOf DEF FenceCount
<1> HIDE DEF O
<1>9. FlattenSeq(code) \in Seq(C)
  BY <1>4, FlattenPlaces
<1>10. FlattenSeq(ValuesIn(lines)) \in Seq(ValueToken)
  BY ValuesAre, FlattenPlaces
<1> DEFINE S == C \cup ValueToken
           a == FlattenSeq(ValuesIn(lines))
           b == FlattenSeq(code)
<1>11. a \in Seq(S) /\ b \in Seq(S)
  BY <1>9, <1>10
<1> HIDE DEF S, a, b
<1>12. a \o b \in Seq(S) /\ Len(a \o b) = Len(a) + Len(b)
  BY <1>11, ConcatProperties
<1>13. ProtectedTokens(lines) = a \o b /\ Len(a) = Amount(lines)
  BY TokensAre DEF a, b, code, Amount
<1>14. QED
  BY <1>6, <1>8, <1>12, <1>13 DEF b

(* The gate compares how often every token is there. *)
Carries(before, after) ==
    \A t : Count(ProtectedTokens(after), t) >= Count(ProtectedTokens(before), t)

LEMMA GateIs ==
  ASSUME NEW before \in Text, NEW after \in Text
  PROVE  /\ PreservesSensitive(before, after) <=> Carries(before, after)
         /\ IntroducesNoSensitive(before, after) <=> Carries(after, before)
         /\ \A t : /\ Count(ProtectedTokens(before), t) \in Nat
                   /\ Count(ProtectedTokens(after), t) \in Nat
<1> DEFINE b == ProtectedTokens(before)
           a == ProtectedTokens(after)
<1>1. /\ \A t : Count(b, t) \in Nat /\ (t \notin Range(b) => Count(b, t) = 0)
      /\ \A t : Count(a, t) \in Nat /\ (t \notin Range(a) => Count(a, t) = 0)
  <2>1. PICK S : b \in Seq(S)
    BY TokensOf
  <2>2. PICK R : a \in Seq(R)
    BY TokensOf
  <2> HIDE DEF a, b
  <2>3. QED
    BY <2>1, <2>2, CountIs
<1>2. PreservesSensitive(before, after) <=> \A t \in Range(b) : Count(a, t) >= Count(b, t)
  BY DEF PreservesSensitive
<1>3. IntroducesNoSensitive(before, after) <=> \A t \in Range(a) : Count(b, t) >= Count(a, t)
  BY DEF IntroducesNoSensitive
<1>4. /\ Carries(before, after) <=> \A t : Count(a, t) >= Count(b, t)
      /\ Carries(after, before) <=> \A t : Count(b, t) >= Count(a, t)
  BY DEF Carries
<1> HIDE DEF a, b
<1>5. (\A t : Count(a, t) >= Count(b, t)) <=> \A t \in Range(b) : Count(a, t) >= Count(b, t)
  BY <1>1
<1>6. (\A t : Count(b, t) >= Count(a, t)) <=> \A t \in Range(a) : Count(b, t) >= Count(a, t)
  BY <1>1
<1>7. QED
  BY <1>1, <1>2, <1>3, <1>4, <1>5, <1>6 DEF a, b

(* As many values and fences. *)
Like(before, after) ==
    Amount(before) = Amount(after) /\ FenceCount(before) = FenceCount(after)

(* Where nothing is lost and there is no more, nothing is new. *)
LEMMA NothingNew ==
  ASSUME NEW before \in Text, NEW after \in Text, Like(before, after), Carries(before, after)
  PROVE  Carries(after, before)
<1> DEFINE b == ProtectedTokens(before)
           a == ProtectedTokens(after)
<1>1. PICK S : b \in Seq(S) /\ Len(b) = Amount(before) + Cardinality(OpeningRanks(FenceCount(before)))
  BY TokensOf
<1>2. PICK R : a \in Seq(R) /\ Len(a) = Amount(after) + Cardinality(OpeningRanks(FenceCount(after)))
  BY TokensOf
<1>3. Len(a) = Len(b) /\ \A t : Count(a, t) >= Count(b, t)
  BY <1>1, <1>2 DEF Like, Carries
<1> HIDE DEF a, b
<1> DEFINE U == S \cup R
<1>4. a \in Seq(U) /\ b \in Seq(U)
  BY <1>1, <1>2
<1> HIDE DEF U
<1>5. \A t : Count(a, t) = Count(b, t)
  BY <1>3, <1>4, NoneOver
<1>6. \A t : Count(a, t) \in Nat
  BY <1>4, CountIs
<1>7. \A t : Count(b, t) >= Count(a, t)
  BY <1>5, <1>6
<1>8. QED
  BY <1>7 DEF Carries, a, b

LEMMA TextsJoin ==
  ASSUME NEW a \in Text, NEW b \in Text
  PROVE  /\ a \o b \in Text /\ Len(a \o b) = Len(a) + Len(b)
         /\ \A k \in 1..Len(a) : (a \o b)[k] = a[k]
         /\ \A k \in 1..Len(b) : (a \o b)[Len(a) + k] = b[k]
BY DEF Text

LEMMA Concatenated ==
  ASSUME NEW S, NEW a \in Seq(S), NEW b \in Seq(S)
  PROVE  /\ a \o b \in Seq(S) /\ Len(a \o b) = Len(a) + Len(b)
         /\ \A k \in 1..Len(a) : (a \o b)[k] = a[k]
         /\ \A k \in 1..Len(b) : (a \o b)[Len(a) + k] = b[k]
OBVIOUS

LEMMA AmountJoined ==
  ASSUME NEW a \in Text, NEW b \in Text
  PROVE  Amount(a \o b) = Amount(a) + Amount(b)
<1> DEFINE n == Len(a)
           m == Len(b)
           both == a \o b
           va == ValuesIn(a)
           vb == ValuesIn(b)
           v == ValuesIn(both)
<1>1. /\ both \in Text /\ Len(both) = n + m /\ n \in Nat /\ m \in Nat
      /\ \A k \in 1..n : both[k] = a[k]
      /\ \A k \in 1..m : both[n + k] = b[k]
      /\ DOMAIN a = 1..n /\ DOMAIN b = 1..m
  BY TextsJoin, TextIs
<1> HIDE DEF both
<1>2. DOMAIN both = 1..(n + m)
  BY <1>1, TextIs
<1>3. /\ va \in Seq(Seq(ValueToken)) /\ Len(va) = n
      /\ vb \in Seq(Seq(ValueToken)) /\ Len(vb) = m
      /\ v \in Seq(Seq(ValueToken)) /\ Len(v) = n + m
  BY <1>1, ValuesAre
<1>4. \A k \in 1..n : v[k] = va[k]
  BY <1>1, <1>2 DEF ValuesIn
<1>5. \A k \in 1..m : v[n + k] = vb[k]
  BY <1>1, <1>2 DEF ValuesIn
<1> HIDE DEF va, vb, v, n, m
<1>6. v = va \o vb
  <2>1. /\ va \o vb \in Seq(Seq(ValueToken)) /\ Len(va \o vb) = n + m
        /\ \A k \in 1..n : (va \o vb)[k] = va[k]
        /\ \A k \in 1..m : (va \o vb)[n + k] = vb[k]
    <3> DEFINE Y == Seq(ValueToken)
    <3>1. va \in Seq(Y) /\ vb \in Seq(Y)
      BY <1>3
    <3> HIDE DEF Y
    <3>2. /\ va \o vb \in Seq(Y) /\ Len(va \o vb) = Len(va) + Len(vb)
          /\ \A k \in 1..Len(va) : (va \o vb)[k] = va[k]
          /\ \A k \in 1..Len(vb) : (va \o vb)[Len(va) + k] = vb[k]
      BY <3>1, Concatenated
    <3>3. QED
      BY <1>3, <3>2 DEF Y
  <2> DEFINE w == va \o vb
  <2> HIDE DEF w
  <2>2. \A k \in 1..(n + m) : v[k] = w[k]
    <3> SUFFICES ASSUME NEW k \in 1..(n + m) PROVE v[k] = w[k]
      OBVIOUS
    <3>1. CASE k \in 1..n
      BY <1>4, <2>1, <3>1 DEF w
    <3>2. CASE k \notin 1..n
      <4>1. k - n \in 1..m /\ k = n + (k - n)
        BY <1>1, <3>2
      <4>2. v[n + (k - n)] = vb[k - n] /\ w[n + (k - n)] = vb[k - n]
        BY <1>5, <2>1, <4>1 DEF w
      <4>3. QED
        BY <4>1, <4>2
    <3>3. QED
      BY <3>1, <3>2
  <2>3. QED
    BY <1>3, <2>1, <2>2, SeqEqual DEF w
<1>7. FlattenSeq(v) = FlattenSeq(va) \o FlattenSeq(vb)
  BY <1>3, <1>6, FlattenJoined
<1>8. FlattenSeq(va) \in Seq(ValueToken) /\ FlattenSeq(vb) \in Seq(ValueToken)
  BY <1>3, FlattenPlaces
<1>9. Len(FlattenSeq(v)) = Len(FlattenSeq(va)) + Len(FlattenSeq(vb))
  BY <1>7, <1>8, ConcatProperties
<1>10. QED
  BY <1>9 DEF Amount, v, va, vb, both

LEMMA FencesJoined ==
  ASSUME NEW a \in Text, NEW b \in Text
  PROVE  FenceCount(a \o b) = FenceCount(a) + FenceCount(b)
<1> DEFINE n == Len(a)
           m == Len(b)
           both == a \o b
           A == Fences(a)
           B == Fences(b)
           moved == [k \in B |-> n + k]
           M == {n + k : k \in B}
<1>1. /\ both \in Text /\ Len(both) = n + m /\ n \in Nat /\ m \in Nat
      /\ \A k \in 1..n : both[k] = a[k]
      /\ \A k \in 1..m : both[n + k] = b[k]
      /\ DOMAIN a = 1..n /\ DOMAIN b = 1..m
  BY TextsJoin, TextIs
<1> HIDE DEF both
<1>2. DOMAIN both = 1..(n + m)
  BY <1>1, TextIs
<1>3. /\ A \in SUBSET (1..n) /\ IsFiniteSet(A) /\ Cardinality(A) = FenceCount(a)
      /\ B \in SUBSET (1..m) /\ IsFiniteSet(B) /\ Cardinality(B) = FenceCount(b)
      /\ FenceCount(a) \in Nat /\ FenceCount(b) \in Nat
  BY FencesAre DEF FenceCount
<1>4. Fences(both) = A \cup M
  <2>1. \A k \in 1..n : k \in Fences(both) <=> k \in A
    BY <1>1, <1>2 DEF Fences
  <2>2. \A k \in 1..m : n + k \in Fences(both) <=> k \in B
    BY <1>1, <1>2 DEF Fences
  <2>3. \A k \in Fences(both) : k \in 1..(n + m)
    BY <1>2 DEF Fences
  <2> HIDE DEF A, B, n, m
  <2>4. \A k \in Fences(both) : k \in A \cup M
    <3> SUFFICES ASSUME NEW k \in Fences(both) PROVE k \in A \cup M
      OBVIOUS
    <3>1. CASE k \in 1..n
      BY <2>1, <3>1
    <3>2. CASE k \notin 1..n
      <4>1. k - n \in 1..m /\ n + (k - n) = k
        BY <1>1, <2>3, <3>2
      <4>2. k - n \in B
        BY <2>2, <4>1
      <4>3. QED
        BY <4>1, <4>2
    <3>3. QED
      BY <3>1, <3>2
  <2>5. \A k \in A \cup M : k \in Fences(both)
    BY <1>3, <2>1, <2>2
  <2>6. QED
    BY <2>4, <2>5
<1> HIDE DEF A, B, n, m
<1>5. IsFiniteSet(M) /\ Cardinality(M) = Cardinality(B)
  <2>1. moved \in [B -> M] /\ DOMAIN moved = B
    OBVIOUS
  <2>2. \A j, k \in B : moved[j] = moved[k] => j = k
    <3>1. \A j \in B : j \in Int
      BY <1>3
    <3>2. QED
      BY <1>1, <3>1
  <2>3. \A t \in M : \E k \in B : moved[k] = t
    OBVIOUS
  <2> HIDE DEF moved, M
  <2>4. moved \in Bijection(B, M)
    BY <2>1, <2>2, <2>3 DEF Bijection, Injection, Surjection, IsInjective
  <2>5. ExistsBijection(B, M)
    BY <2>4 DEF ExistsBijection
  <2>6. QED
    BY <1>3, <2>5, FS_Bijection
<1>6. A \cap M = {}
  <2>1. \A k \in A : k \in Int /\ k <= n
    BY <1>1, <1>3
  <2>2. \A k \in B : k \in Int /\ n + k > n
    BY <1>1, <1>3
  <2>3. \A k \in B : n + k \notin A
    <3> SUFFICES ASSUME NEW k \in B, n + k \in A PROVE FALSE
      OBVIOUS
    <3>1. n + k <= n /\ n + k > n /\ k \in Int
      BY <2>1, <2>2
    <3>2. QED
      BY <1>1, <3>1
  <2>4. QED
    BY <2>3, Zenon
<1> HIDE DEF M
<1>7. Cardinality(A \cup M) = Cardinality(A) + Cardinality(M) - Cardinality(A \cap M)
  BY <1>3, <1>5, FS_Union
<1>8. Cardinality(A \cap M) = 0
  BY <1>6, FS_EmptySet
<1>9. QED
  BY <1>3, <1>4, <1>5, <1>7, <1>8 DEF FenceCount, both

LEMMA LikeJoined ==
  ASSUME NEW a \in Text, NEW b \in Text, NEW c \in Text, NEW d \in Text, Like(a, b), Like(c, d)
  PROVE  Like(a \o c, b \o d)
BY AmountJoined, FencesJoined DEF Like

LEMMA NoLines == <<>> \in Text /\ Amount(<<>>) = 0 /\ FenceCount(<<>>) = 0
<1>1. <<>> \in Text
  BY DEF Text
<1>2. ValuesIn(<<>>) = <<>>
  BY DEF ValuesIn
<1>3. Amount(<<>>) = 0
  BY <1>2, FlattenNone DEF Amount
<1>4. Fences(<<>>) = {}
  BY DEF Fences
<1>5. QED
  BY <1>1, <1>3, <1>4, FS_EmptySet DEF FenceCount

LEMMA OneLine ==
  ASSUME NEW line \in TextLine
  PROVE  /\ <<line>> \in Text /\ Amount(<<line>>) = Len(line.values)
         /\ FenceCount(<<line>>) = IF line.kind = "fence" THEN 1 ELSE 0
<1> DEFINE one == <<line>>
           v == ValuesIn(one)
<1>1. one \in Text /\ Len(one) = 1 /\ one[1] = line /\ DOMAIN one = 1..1
  BY DEF Text
<1> HIDE DEF one
<1>2. v \in Seq(Seq(ValueToken)) /\ Len(v) = 1 /\ Len(v[1]) = Len(line.values)
  BY <1>1, ValuesAre
<1> HIDE DEF v
<1>3. v = <<v[1]>> /\ v[1] \in Seq(ValueToken)
  BY <1>2
<1>4. FlattenSeq(v) = v[1]
  BY <1>3, FlattenOne
<1>5. CASE line.kind = "fence"
  <2>1. Fences(one) = {1}
    BY <1>1, <1>5 DEF Fences
  <2>2. QED
    BY <1>1, <1>2, <1>4, <1>5, <2>1, FS_Singleton DEF FenceCount, Amount, v, one
<1>6. CASE line.kind # "fence"
  <2>1. Fences(one) = {}
    BY <1>1, <1>6 DEF Fences
  <2>2. QED
    BY <1>1, <1>2, <1>4, <1>6, <2>1, FS_EmptySet DEF FenceCount, Amount, v, one
<1>7. QED
  BY <1>5, <1>6

(* Texts put together of texts that are alike are alike. *)
LEMMA LikeFlattened ==
  ASSUME NEW a \in Seq(Text), NEW b \in Seq(Text), Len(a) = Len(b),
         \A k \in 1..Len(a) : Like(a[k], b[k])
  PROVE  FlattenSeq(a) \in Text /\ FlattenSeq(b) \in Text /\ Like(FlattenSeq(a), FlattenSeq(b))
<1> DEFINE n == Len(a)
<1>1. n \in Nat /\ \A k \in 1..n : a[k] \in Text /\ b[k] \in Text
  OBVIOUS
<1>2. a \in Seq(Seq(TextLine)) /\ b \in Seq(Seq(TextLine))
  BY DEF Text
<1>3. PICK f : Flattens(f, a, TextLine) /\ FlattenSeq(a) = f[n]
  BY <1>2, Flattening
<1>4. PICK g : Flattens(g, b, TextLine) /\ FlattenSeq(b) = g[n]
  BY <1>2, Flattening
<1>5. /\ f \in [0..n -> Text] /\ f[0] = <<>> /\ \A k \in 1..n : f[k] = f[k - 1] \o a[k]
      /\ g \in [0..n -> Text] /\ g[0] = <<>> /\ \A k \in 1..n : g[k] = g[k - 1] \o b[k]
  BY <1>3, <1>4 DEF Flattens, Text
<1> HIDE DEF n
<1> DEFINE T == {k \in 0..n : Like(f[k], g[k])}
<1>6. 0 \in T
  BY <1>1, <1>5 DEF Like
<1>7. ASSUME NEW k \in 1..n, k - 1 \in T
      PROVE  k \in T
  <2>1. k - 1 \in 0..n /\ k \in 0..n
    BY <1>1
  <2>2. f[k - 1] \in Text /\ g[k - 1] \in Text /\ a[k] \in Text /\ b[k] \in Text
    BY <1>1, <1>5, <2>1
  <2>3. Like(f[k - 1], g[k - 1]) /\ Like(a[k], b[k])
    BY <1>7 DEF n
  <2>4. Like(f[k - 1] \o a[k], g[k - 1] \o b[k])
    BY <2>2, <2>3, LikeJoined
  <2>5. QED
    BY <1>5, <2>1, <2>4
<1>8. n \in 0..n
  BY <1>1
<1>9. n \in T
  <2> HIDE DEF T
  <2>1. QED
    BY <1>1, <1>6, <1>7, <1>8, Climbs
<1>10. QED
  BY <1>3, <1>4, <1>5, <1>8, <1>9

-----------------------------------------------------------------------------
(* The engines.                                                             *)

LEMMA LikeItself ==
  ASSUME NEW a
  PROVE  Like(a, a)
BY DEF Like

LEMMA LikeLine ==
  ASSUME NEW x \in TextLine, NEW y \in TextLine, Len(x.values) = Len(y.values),
         x.kind = "fence" <=> y.kind = "fence"
  PROVE  Like(<<x>>, <<y>>)
BY OneLine DEF Like

LEMMA LikeNone ==
  ASSUME NEW x \in TextLine, x.values = <<>>, x.kind # "fence"
  PROVE  Like(<<x>>, <<>>)
BY OneLine, NoLines DEF Like

LEMMA TrimIs ==
  ASSUME NEW line \in TextLine
  PROVE  /\ TrimTrailing(line) \in TextLine
         /\ TrimTrailing(line).kind = line.kind /\ TrimTrailing(line).says = line.says
         /\ TrimTrailing(line).values = line.values
BY DEF TrimTrailing, TextLine, Noise

LEMMA StripIs ==
  ASSUME NEW line \in TextLine
  PROVE  /\ StripAnsi(line) \in TextLine
         /\ StripAnsi(line).kind = line.kind /\ StripAnsi(line).says = line.says
BY DEF StripAnsi, TextLine, Noise

LEMMA SomeLines ==
  /\ Blank \in TextLine /\ Blank.values = <<>> /\ Blank.kind = "blank"
  /\ Elided \in TextLine
<1>1. "" \in Word
  BY CompressionAssumption
<1>2. <<>> \in Seq(Word)
  OBVIOUS
<1>3. QED
  BY <1>1, <1>2 DEF Blank, Elided, Line, TextLine, Kind, Noise

(* Some of the lines of a text, as they are or changed, and in their place. *)
Picks(lines, kept) ==
    /\ kept \in Seq(Text) /\ Len(kept) = Len(lines)
    /\ \A k \in 1..Len(lines) :
        kept[k] = <<>> \/ \E line \in TextLine : kept[k] = <<line>>

(* What is left out has no values and is no fence, and what is changed keeps its own. *)
LEMMA LikePicked ==
  ASSUME NEW lines \in Text, NEW kept, Picks(lines, kept),
         \A k \in 1..Len(lines) :
            \/ kept[k] = <<>> /\ lines[k].values = <<>> /\ lines[k].kind # "fence"
            \/ \E line \in TextLine :
                 /\ kept[k] = <<line>> /\ Len(line.values) = Len(lines[k].values)
                 /\ line.kind = "fence" <=> lines[k].kind = "fence"
  PROVE  FlattenSeq(kept) \in Text /\ Like(lines, FlattenSeq(kept))
<1> DEFINE n == Len(lines)
           ones == Ones(lines)
<1>1. n \in Nat /\ DOMAIN lines = 1..n /\ \A k \in 1..n : lines[k] \in TextLine
  BY TextIs
<1>2. ones \in Seq(Text) /\ Len(ones) = n /\ FlattenSeq(ones) = lines
  BY FlattenOnes DEF Text
<1>3. \A k \in 1..n : ones[k] = <<lines[k]>>
  BY <1>1 DEF Ones
<1> HIDE DEF ones
<1>4. kept \in Seq(Text) /\ Len(kept) = n
  BY DEF Picks
<1>5. ASSUME NEW k \in 1..n
      PROVE  Like(ones[k], kept[k])
  <2>1. lines[k] \in TextLine /\ ones[k] = <<lines[k]>>
    BY <1>1, <1>3
  <2>2. CASE kept[k] = <<>> /\ lines[k].values = <<>> /\ lines[k].kind # "fence"
    BY <2>1, <2>2, LikeNone
  <2>3. ASSUME NEW line \in TextLine, kept[k] = <<line>>, Len(line.values) = Len(lines[k].values),
               line.kind = "fence" <=> lines[k].kind = "fence"
        PROVE  Like(ones[k], kept[k])
    <3>1. Like(<<lines[k]>>, <<line>>)
      BY <2>1, <2>3, LikeLine
    <3>2. QED
      BY <2>1, <2>3, <3>1
  <2>4. QED
    BY <2>2, <2>3
<1>6. QED
  BY <1>2, <1>4, <1>5, LikeFlattened

(* What is kept is there. *)
LEMMA FlattenHas ==
  ASSUME NEW S, NEW seqs \in Seq(Seq(S)), NEW k \in 1..Len(seqs), NEW p \in 1..Len(seqs[k])
  PROVE  \E j \in 1..Len(FlattenSeq(seqs)) : FlattenSeq(seqs)[j] = seqs[k][p]
<1> DEFINE n == Len(seqs)
           flat == FlattenSeq(seqs)
<1>1. n \in Nat /\ seqs[k] \in Seq(S) /\ Len(seqs[k]) \in Nat
  OBVIOUS
<1>2. PICK off : Laid(off, seqs, flat)
  BY FlattenPlaces
<1> HIDE DEF flat
<1>3. k \in 0..n /\ k - 1 \in 0..n /\ n \in 0..n /\ k <= n
  BY <1>1
<1>4. /\ off \in [0..n -> Nat] /\ Len(flat) = off[n]
      /\ off[k] = off[k - 1] + Len(seqs[k])
      /\ flat[off[k - 1] + p] = seqs[k][p]
      /\ \A i, j \in 0..n : i <= j => off[i] <= off[j]
  BY <1>2 DEF Laid
<1> HIDE DEF n
<1>5. off[k] <= off[n] /\ off[k] \in Nat /\ off[k - 1] \in Nat /\ off[n] \in Nat
  BY <1>3, <1>4
<1>6. off[k - 1] + p \in 1..Len(flat)
  <2>1. PICK x \in Nat, y \in Nat, z \in Nat, l \in Nat :
          x = off[k - 1] /\ y = off[k] /\ z = off[n] /\ l = Len(seqs[k])
    BY <1>1, <1>5
  <2>2. x + l = y /\ y <= z /\ p \in 1..l /\ Len(flat) = z
    BY <1>4, <1>5, <2>1
  <2>3. x + p \in 1..z
    <3>1. x + l <= z
      BY <2>2
    <3>2. QED
      BY <2>1, <2>2, <3>1, FallsWithin, Zenon
  <2>4. QED
    BY <2>1, <2>2, <2>3
<1>7. QED
  BY <1>4, <1>6 DEF flat

LEMMA PickedIsThere ==
  ASSUME NEW lines \in Text, NEW kept, Picks(lines, kept), NEW k \in 1..Len(lines),
         NEW line, kept[k] = <<line>>
  PROVE  \E j \in 1..Len(FlattenSeq(kept)) : FlattenSeq(kept)[j] = line
<1>1. kept \in Seq(Seq(TextLine)) /\ k \in 1..Len(kept)
  BY DEF Picks, Text
<1>2. Len(kept[k]) = 1 /\ kept[k][1] = line /\ 1 \in 1..1
  OBVIOUS
<1>3. 1 \in 1..Len(kept[k])
  BY <1>2
<1>4. \E j \in 1..Len(FlattenSeq(kept)) : FlattenSeq(kept)[j] = kept[k][1]
  <2>1. \A p \in 1..Len(kept[k]) :
          \E j \in 1..Len(FlattenSeq(kept)) : FlattenSeq(kept)[j] = kept[k][p]
    BY <1>1, FlattenHas
  <2>2. QED
    BY <1>3, <2>1, Zenon
<1>5. QED
  BY <1>2, <1>4

(* A text of lines, none or one for each. *)
LEMMA PicksIs ==
  ASSUME NEW lines \in Text, NEW kept, DOMAIN kept = 1..Len(lines),
         kept = [k \in DOMAIN kept |-> kept[k]],
         \A k \in 1..Len(lines) :
            kept[k] = <<>> \/ \E line \in TextLine : kept[k] = <<line>>
  PROVE  Picks(lines, kept) /\ FlattenSeq(kept) \in Text
<1> DEFINE n == Len(lines)
<1>1. n \in Nat
  BY TextIs
<1>2. \A k \in 1..n : kept[k] \in Text
  BY NoLines, OneLine
<1>3. kept \in [1..n -> Text]
  BY <1>2
<1>4. kept \in Seq(Text) /\ Len(kept) = n
  BY <1>1, <1>3
<1>5. FlattenSeq(kept) \in Text
  <2>1. kept \in Seq(Seq(TextLine))
    BY <1>4 DEF Text
  <2>2. QED
    BY <2>1, FlattenPlaces DEF Text
<1>6. QED
  BY <1>4, <1>5 DEF Picks

(* What Collapse keeps. *)
Trimmed(lines) == [k \in DOMAIN lines |-> TrimTrailing(lines[k])]
Surplus(lines, k) ==
    /\ k > MaxBlank
    /\ \A j \in (k - MaxBlank)..k : Trimmed(lines)[j] = Blank
Collapsed(lines) ==
    [k \in DOMAIN Trimmed(lines) |->
        IF Surplus(lines, k) THEN <<>> ELSE <<Trimmed(lines)[k]>>]

LEMMA CollapsedIs ==
  ASSUME NEW lines \in Text
  PROVE  /\ Collapse(lines) = FlattenSeq(Collapsed(lines))
         /\ Picks(lines, Collapsed(lines)) /\ Collapse(lines) \in Text
         /\ \A k \in 1..Len(lines) :
              \/ Collapsed(lines)[k] = <<>> /\ TrimTrailing(lines[k]) = Blank
              \/ Collapsed(lines)[k] = <<TrimTrailing(lines[k])>>
<1> DEFINE n == Len(lines)
           kept == Collapsed(lines)
<1>1. n \in Nat /\ DOMAIN lines = 1..n /\ \A k \in 1..n : lines[k] \in TextLine
  BY TextIs
<1>2. Collapse(lines) = FlattenSeq(kept)
  BY DEF Collapse, Collapsed, Surplus, Trimmed
<1>3. DOMAIN kept = 1..n /\ kept = [k \in DOMAIN kept |-> kept[k]]
  BY <1>1 DEF Collapsed, Trimmed
<1>4. ASSUME NEW k \in 1..n
      PROVE  \/ kept[k] = <<>> /\ TrimTrailing(lines[k]) = Blank
             \/ kept[k] = <<TrimTrailing(lines[k])>>
  <2>1. kept[k] = IF Surplus(lines, k) THEN <<>> ELSE <<TrimTrailing(lines[k])>>
    BY <1>1 DEF Collapsed, Trimmed
  <2>2. Surplus(lines, k) => TrimTrailing(lines[k]) = Blank
    <3> SUFFICES ASSUME Surplus(lines, k) PROVE TrimTrailing(lines[k]) = Blank
      OBVIOUS
    <3>0. MaxBlank \in Nat
      BY CompressionAssumption
    <3>1. k \in (k - MaxBlank)..k
      BY <1>1, <3>0
    <3>2. Trimmed(lines)[k] = Blank
      BY <3>1 DEF Surplus
    <3>3. QED
      BY <1>1, <3>2 DEF Trimmed
  <2> HIDE DEF kept
  <2>3. QED
    BY <2>1, <2>2
<1> HIDE DEF kept
<1>5. \A k \in 1..n : kept[k] = <<>> \/ \E line \in TextLine : kept[k] = <<line>>
  BY <1>1, <1>4, TrimIs
<1>6. Picks(lines, kept) /\ FlattenSeq(kept) \in Text
  BY <1>3, <1>5, PicksIs
<1>7. QED
  BY <1>2, <1>4, <1>6 DEF kept

LEMMA CollapseKeeps ==
  ASSUME NEW lines \in Text
  PROVE  Collapse(lines) \in Text /\ Like(lines, Collapse(lines))
<1> DEFINE kept == Collapsed(lines)
<1>1. /\ Collapse(lines) = FlattenSeq(kept) /\ Picks(lines, kept)
      /\ \A k \in 1..Len(lines) :
           \/ kept[k] = <<>> /\ TrimTrailing(lines[k]) = Blank
           \/ kept[k] = <<TrimTrailing(lines[k])>>
  BY CollapsedIs
<1> HIDE DEF kept
<1>2. ASSUME NEW k \in 1..Len(lines)
      PROVE  \/ kept[k] = <<>> /\ lines[k].values = <<>> /\ lines[k].kind # "fence"
             \/ \E line \in TextLine :
                  /\ kept[k] = <<line>> /\ Len(line.values) = Len(lines[k].values)
                  /\ line.kind = "fence" <=> lines[k].kind = "fence"
  <2>1. lines[k] \in TextLine
    BY TextIs
  <2>2. /\ TrimTrailing(lines[k]) \in TextLine
        /\ TrimTrailing(lines[k]).kind = lines[k].kind
        /\ TrimTrailing(lines[k]).values = lines[k].values
    BY <2>1, TrimIs
  <2>3. QED
    BY <1>1, <2>2, SomeLines
<1>3. QED
  BY <1>1, <1>2, LikePicked

(* Rows: the lines that are not blank. *)
Rows(lines) ==
    FlattenSeq([k \in DOMAIN lines |-> IF lines[k].kind = "blank" THEN <<>> ELSE <<lines[k]>>])
Renumbered(rows) ==
    [k \in DOMAIN rows |-> [v \in DOMAIN rows[k].values |-> Reserialised(rows[k].values[v])]]
TableOf(rows) == Line("table", rows[1].says, FlattenSeq(Renumbered(rows)), "none")

LEMMA RowsAre ==
  ASSUME NEW lines \in Text
  PROVE  /\ Rows(lines) \in Text /\ Like(lines, Rows(lines))
         /\ \A k \in 1..Len(lines) : lines[k].kind # "blank" =>
              \E j \in 1..Len(Rows(lines)) : Rows(lines)[j] = lines[k]
<1> DEFINE n == Len(lines)
           kept == [k \in DOMAIN lines |->
                      IF lines[k].kind = "blank" THEN <<>> ELSE <<lines[k]>>]
<1>1. n \in Nat /\ DOMAIN lines = 1..n /\ \A k \in 1..n : lines[k] \in TextLine
  BY TextIs
<1>2. /\ DOMAIN kept = 1..n /\ kept = [k \in DOMAIN kept |-> kept[k]]
      /\ \A k \in 1..n : kept[k] = IF lines[k].kind = "blank" THEN <<>> ELSE <<lines[k]>>
  BY <1>1
<1>3. Rows(lines) = FlattenSeq(kept)
  BY DEF Rows
<1> HIDE DEF kept
<1>4. \A k \in 1..n : kept[k] = <<>> \/ \E line \in TextLine : kept[k] = <<line>>
  BY <1>1, <1>2
<1>5. Picks(lines, kept) /\ FlattenSeq(kept) \in Text
  BY <1>2, <1>4, PicksIs
<1>6. \A k \in 1..n :
            \/ kept[k] = <<>> /\ lines[k].values = <<>> /\ lines[k].kind # "fence"
            \/ \E line \in TextLine :
                 /\ kept[k] = <<line>> /\ Len(line.values) = Len(lines[k].values)
                 /\ line.kind = "fence" <=> lines[k].kind = "fence"
  BY <1>1, <1>2, LineIs
<1>7. Like(lines, FlattenSeq(kept))
  BY <1>5, <1>6, LikePicked
<1>8. ASSUME NEW k \in 1..n, lines[k].kind # "blank"
      PROVE  \E j \in 1..Len(FlattenSeq(kept)) : FlattenSeq(kept)[j] = lines[k]
  <2>1. kept[k] = <<lines[k]>>
    BY <1>2, <1>8
  <2>2. QED
    BY <1>5, <2>1, PickedIsThere
<1>9. QED
  BY <1>3, <1>5, <1>7, <1>8

LEMMA TableIs ==
  ASSUME NEW rows \in Text, Len(rows) >= 1
  PROVE  TableOf(rows) \in TextLine /\ Len(TableOf(rows).values) = Amount(rows)
         /\ TableOf(rows).kind = "table"
<1> DEFINE n == Len(rows)
           new == Renumbered(rows)
<1>1. n \in Nat /\ DOMAIN rows = 1..n /\ \A k \in 1..n : rows[k] \in TextLine
  BY TextIs
<1>2. ASSUME NEW k \in 1..n
      PROVE  new[k] \in Seq(Word) /\ Len(new[k]) = Len(rows[k].values)
  <2> DEFINE values == rows[k].values
  <2>1. values \in Seq(Word)
    BY <1>1, LineIs
  <2>2. new[k] = [v \in DOMAIN values |-> Reserialised(values[v])]
    BY <1>1 DEF Renumbered
  <2> HIDE DEF values, new
  <2>3. Len(values) \in Nat /\ DOMAIN values = 1..Len(values) /\ \A v \in 1..Len(values) : values[v] \in Word
    BY <2>1
  <2>4. new[k] \in [1..Len(values) -> Word]
    <3>1. "1.5" \in Word
      BY CompressionAssumption
    <3>2. \A v \in 1..Len(values) : Reserialised(values[v]) \in Word
      BY <2>3, <3>1 DEF Reserialised
    <3>3. QED
      BY <2>2, <2>3, <3>2
  <2>5. new[k] \in Seq(Word) /\ Len(new[k]) = Len(values)
    BY <2>3, <2>4
  <2>6. QED
    BY <2>5 DEF values
<1>3. new \in [1..n -> Seq(Word)]
  <2>1. DOMAIN new = 1..n /\ new = [k \in DOMAIN new |-> new[k]]
    BY <1>1 DEF Renumbered
  <2> HIDE DEF new
  <2>2. QED
    BY <1>2, <2>1
<1> HIDE DEF new
<1>4. new \in Seq(Seq(Word)) /\ Len(new) = n
  BY <1>1, <1>3
<1>5. /\ ValuesIn(rows) \in Seq(Seq(ValueToken)) /\ Len(ValuesIn(rows)) = n
      /\ \A k \in 1..n : Len(ValuesIn(rows)[k]) = Len(rows[k].values)
  BY ValuesAre
<1>6. Len(FlattenSeq(new)) = Amount(rows)
  BY <1>2, <1>4, <1>5, FlattenLengths DEF Amount
<1>7. FlattenSeq(new) \in Seq(Word)
  BY <1>4, FlattenPlaces
<1>8. rows[1].says \in Word
  BY <1>1, LineIs
<1> DEFINE values == FlattenSeq(new)
<1>9. TableOf(rows) = [kind |-> "table", says |-> rows[1].says, values |-> values, noise |-> "none"]
  BY DEF TableOf, Line, new
<1> HIDE DEF values
<1>10. TableOf(rows) \in TextLine
  BY <1>7, <1>8, <1>9 DEF TextLine, Kind, Noise, values
<1>11. QED
  BY <1>6, <1>9, <1>10 DEF values

Tabulates(rows) ==
    /\ \A k \in DOMAIN rows : rows[k].kind = "row" /\ rows[k].noise # "colour"
    /\ Len(rows) >= MinRows
    /\ Cardinality({rows[k].says : k \in DOMAIN rows}) = 1

LEMMA TabulateIs ==
  ASSUME NEW lines \in Text
  PROVE  Tabulate(lines) = IF Tabulates(Rows(lines)) THEN <<TableOf(Rows(lines))>> ELSE lines
BY DEF Tabulate, Tabulates, Rows, TableOf, Renumbered

LEMMA TabulateKeeps ==
  ASSUME NEW lines \in Text
  PROVE  Tabulate(lines) \in Text /\ Like(lines, Tabulate(lines))
<1> DEFINE rows == Rows(lines)
<1>1. CASE ~ Tabulates(rows)
  <2>1. Tabulate(lines) = lines
    BY <1>1, TabulateIs
  <2>2. QED
    BY <2>1, LikeItself
<1>2. CASE Tabulates(rows)
  <2>1. Tabulate(lines) = <<TableOf(rows)>>
    BY <1>2, TabulateIs
  <2>2. rows \in Text /\ Like(lines, rows)
    BY RowsAre
  <2> HIDE DEF rows
  <2>3. Len(rows) >= 1 /\ \A k \in DOMAIN rows : rows[k].kind = "row"
    <3>1. MinRows \in Nat \ {0, 1} /\ Len(rows) \in Nat
      BY <2>2, TextIs, CompressionAssumption
    <3>2. Len(rows) >= MinRows /\ \A k \in DOMAIN rows : rows[k].kind = "row"
      BY <1>2 DEF Tabulates
    <3>3. QED
      BY <3>1, <3>2
  <2>4. TableOf(rows) \in TextLine /\ Len(TableOf(rows).values) = Amount(rows)
        /\ TableOf(rows).kind = "table"
    BY <2>2, <2>3, TableIs
  <2>5. <<TableOf(rows)>> \in Text /\ Amount(<<TableOf(rows)>>) = Amount(rows)
        /\ FenceCount(<<TableOf(rows)>>) = 0
    BY <2>4, OneLine
  <2>6. Fences(rows) = {}
    BY <2>3 DEF Fences
  <2>7. FenceCount(rows) = 0
    BY <2>6, FS_EmptySet DEF FenceCount
  <2>8. QED
    BY <2>1, <2>2, <2>5, <2>7 DEF Like
<1>3. QED
  BY <1>1, <1>2

-----------------------------------------------------------------------------
(* No line of an error is lost.                                             *)

Erring(error, line) == line.kind = "error" \/ (error /\ line.kind = "plain")

Same(x, y) == x.kind = y.kind /\ x.says = y.says

SparesErrors(error, before, after) ==
    \A k \in 1..Len(before) : Erring(error, before[k]) =>
        \E j \in 1..Len(after) : Same(after[j], before[k])

LEMMA SavesItself ==
  ASSUME NEW error, NEW a
  PROVE  SparesErrors(error, a, a)
BY DEF SparesErrors, Same

LEMMA SavesOn ==
  ASSUME NEW error, NEW a, NEW b, NEW c, SparesErrors(error, a, b), SparesErrors(error, b, c)
  PROVE  SparesErrors(error, a, c)
<1> SUFFICES ASSUME NEW k \in 1..Len(a), Erring(error, a[k])
             PROVE  \E j \in 1..Len(c) : Same(c[j], a[k])
  BY DEF SparesErrors
<1>1. PICK i \in 1..Len(b) : Same(b[i], a[k])
  BY DEF SparesErrors
<1>2. Erring(error, b[i])
  BY <1>1 DEF Same, Erring
<1>3. PICK j \in 1..Len(c) : Same(c[j], b[i])
  BY <1>2 DEF SparesErrors
<1>4. QED
  BY <1>1, <1>3 DEF Same

LEMMA CollapseSaves ==
  ASSUME NEW lines \in Text, NEW error
  PROVE  SparesErrors(error, lines, Collapse(lines))
<1> SUFFICES ASSUME NEW k \in 1..Len(lines), Erring(error, lines[k])
             PROVE  \E j \in 1..Len(Collapse(lines)) : Same(Collapse(lines)[j], lines[k])
  BY DEF SparesErrors
<1>1. /\ Collapse(lines) = FlattenSeq(Collapsed(lines)) /\ Picks(lines, Collapsed(lines))
      /\ \/ Collapsed(lines)[k] = <<>> /\ TrimTrailing(lines[k]) = Blank
         \/ Collapsed(lines)[k] = <<TrimTrailing(lines[k])>>
  BY CollapsedIs
<1>2. lines[k] \in TextLine
  BY TextIs
<1>3. Same(TrimTrailing(lines[k]), lines[k])
  BY <1>2, TrimIs DEF Same
<1>4. TrimTrailing(lines[k]) # Blank
  BY <1>3, SomeLines DEF Same, Erring
<1>5. Collapsed(lines)[k] = <<TrimTrailing(lines[k])>>
  BY <1>1, <1>4
<1>6. \E j \in 1..Len(Collapse(lines)) : Collapse(lines)[j] = TrimTrailing(lines[k])
  BY <1>1, <1>5, PickedIsThere
<1>7. QED
  BY <1>3, <1>6

LEMMA TabulateSaves ==
  ASSUME NEW lines \in Text, NEW error
  PROVE  SparesErrors(error, lines, Tabulate(lines))
<1> DEFINE rows == Rows(lines)
<1>1. CASE ~ Tabulates(rows)
  BY <1>1, TabulateIs, SavesItself
<1>2. CASE Tabulates(rows)
  <2> SUFFICES ASSUME NEW k \in 1..Len(lines), Erring(error, lines[k])
               PROVE  FALSE
    BY DEF SparesErrors
  <2>1. lines[k].kind # "blank" /\ lines[k].kind # "row"
    BY DEF Erring
  <2>2. rows \in Text /\ \E j \in 1..Len(rows) : rows[j] = lines[k]
    BY <2>1, RowsAre
  <2>3. DOMAIN rows = 1..Len(rows)
    BY <2>2, TextIs
  <2> HIDE DEF rows
  <2>4. QED
    BY <1>2, <2>1, <2>2, <2>3 DEF Tabulates
<1>3. QED
  BY <1>1, <1>2

Stripped(lines) == [k \in DOMAIN lines |-> StripAnsi(lines[k])]

LEMMA StrippedIs ==
  ASSUME NEW lines \in Text, NEW error
  PROVE  Stripped(lines) \in Text /\ SparesErrors(error, lines, Stripped(lines))
<1> DEFINE n == Len(lines)
           new == Stripped(lines)
<1>1. n \in Nat /\ DOMAIN lines = 1..n /\ \A k \in 1..n : lines[k] \in TextLine
  BY TextIs
<1>2. new \in [1..n -> TextLine] /\ \A k \in 1..n : new[k] = StripAnsi(lines[k])
  BY <1>1, StripIs DEF Stripped
<1> HIDE DEF new
<1>3. new \in Text /\ Len(new) = n
  BY <1>1, <1>2 DEF Text
<1>4. \A k \in 1..n : Same(new[k], lines[k])
  BY <1>1, <1>2, StripIs DEF Same
<1>5. QED
  BY <1>3, <1>4 DEF SparesErrors, new

Deduped(lines) ==
    [k \in DOMAIN lines |-> IF k > 1 /\ lines[k] = lines[k - 1] THEN <<>> ELSE <<lines[k]>>]

LEMMA DedupeIs ==
  ASSUME NEW lines \in Text, NEW error
  PROVE  DedupeConsecutive(lines) \in Text /\ SparesErrors(error, lines, DedupeConsecutive(lines))
<1> DEFINE n == Len(lines)
           kept == Deduped(lines)
           flat == FlattenSeq(kept)
<1>1. n \in Nat /\ DOMAIN lines = 1..n /\ \A k \in 1..n : lines[k] \in TextLine
  BY TextIs
<1>2. DedupeConsecutive(lines) = flat
  BY DEF DedupeConsecutive, Deduped
<1>3. /\ DOMAIN kept = 1..n /\ kept = [k \in DOMAIN kept |-> kept[k]]
      /\ \A k \in 1..n :
           kept[k] = IF k > 1 /\ lines[k] = lines[k - 1] THEN <<>> ELSE <<lines[k]>>
  BY <1>1 DEF Deduped
<1> HIDE DEF kept
<1>4. \A k \in 1..n : kept[k] = <<>> \/ \E line \in TextLine : kept[k] = <<line>>
  BY <1>1, <1>3
<1>5. Picks(lines, kept) /\ flat \in Text
  BY <1>3, <1>4, PicksIs
<1> HIDE DEF n
<1> DEFINE There(k) == \E j \in 1..Len(flat) : flat[j] = lines[k]
           T == {k \in 0..n : k = 0 \/ There(k)}
<1>6. 0 \in T
  BY <1>1
<1>7. ASSUME NEW k \in 1..n, k - 1 \in T
      PROVE  k \in T
  <2>0. k \in 0..n
    BY <1>1
  <2>1. CASE k > 1 /\ lines[k] = lines[k - 1]
    <3>1. k - 1 # 0
      BY <2>1
    <3>2. There(k - 1)
      BY <1>7, <3>1
    <3>3. There(k)
      BY <2>1, <3>2
    <3> HIDE DEF There
    <3>4. QED
      BY <2>0, <3>3
  <2>2. CASE ~(k > 1 /\ lines[k] = lines[k - 1])
    <3>1. kept[k] = <<lines[k]>>
      BY <1>3, <2>2
    <3>2. There(k)
      BY <1>5, <3>1, PickedIsThere DEF n
    <3> HIDE DEF There
    <3>3. QED
      BY <2>0, <3>2
  <2>3. QED
    BY <2>1, <2>2
<1>8. \A k \in 0..n : k \in T
  <2> HIDE DEF T
  <2>1. QED
    BY <1>1, <1>6, <1>7, Climbs
<1>9. \A k \in 1..n : There(k)
  <2> HIDE DEF There
  <2>1. \A k \in 1..n : k \in 0..n /\ k # 0
    BY <1>1
  <2>2. QED
    BY <1>8, <2>1
<1> HIDE DEF flat
<1>10. SparesErrors(error, lines, flat)
  BY <1>9 DEF SparesErrors, Same, n
<1>11. QED
  BY <1>2, <1>5, <1>10 DEF flat

Keep(lines, k) == k <= HeadLines \/ k > Len(lines) - TailLines \/ lines[k].kind = "error"
Truncated(lines) ==
    [k \in DOMAIN lines |->
        CASE Keep(lines, k) -> <<lines[k]>>
          [] ~Keep(lines, k) /\ (k = 1 \/ Keep(lines, k - 1)) -> <<Elided>>
          [] OTHER -> <<>>]

LEMMA TruncateIs ==
  ASSUME NEW lines \in Text
  PROVE  Truncate(lines) \in Text /\ SparesErrors(FALSE, lines, Truncate(lines))
<1> DEFINE n == Len(lines)
           kept == Truncated(lines)
           flat == FlattenSeq(kept)
<1>1. n \in Nat /\ DOMAIN lines = 1..n /\ \A k \in 1..n : lines[k] \in TextLine
  BY TextIs
<1>2. Truncate(lines) \in {lines, flat}
  BY DEF Truncate, Truncated, Keep
<1>3. /\ DOMAIN kept = 1..n /\ kept = [k \in DOMAIN kept |-> kept[k]]
      /\ \A k \in 1..n : /\ Keep(lines, k) => kept[k] = <<lines[k]>>
                         /\ kept[k] \in {<<lines[k]>>, <<Elided>>, <<>>}
  BY <1>1 DEF Truncated
<1> HIDE DEF kept
<1>4. \A k \in 1..n : kept[k] = <<>> \/ \E line \in TextLine : kept[k] = <<line>>
  BY <1>1, <1>3, SomeLines
<1>5. Picks(lines, kept) /\ flat \in Text
  BY <1>3, <1>4, PicksIs
<1>6. SparesErrors(FALSE, lines, flat)
  <2> SUFFICES ASSUME NEW k \in 1..n, Erring(FALSE, lines[k])
               PROVE  \E j \in 1..Len(flat) : Same(flat[j], lines[k])
    BY DEF SparesErrors
  <2>1. kept[k] = <<lines[k]>>
    BY <1>3 DEF Erring, Keep
  <2>2. \E j \in 1..Len(flat) : flat[j] = lines[k]
    BY <1>5, <2>1, PickedIsThere
  <2>3. QED
    BY <2>2 DEF Same
<1> HIDE DEF flat
<1>7. QED
  BY <1>2, <1>5, <1>6, SavesItself

(* The parts of requests. *)
AnyPart == [type : {"text", "tool_call", "tool_result"}, lines : Text,
            id : {"", "one", "two"}, error : BOOLEAN]

LEMMA ShortenIs ==
  ASSUME NEW part \in AnyPart
  PROVE  /\ ShortenResult(part) \in AnyPart
         /\ ShortenResult(part).type = part.type /\ ShortenResult(part).id = part.id
         /\ ShortenResult(part).error = part.error
         /\ SparesErrors(part.error, part.lines, ShortenResult(part).lines)
<1> DEFINE stripped == Stripped(part.lines)
           deduped == DedupeConsecutive(stripped)
           left == IF part.error THEN deduped ELSE Truncate(deduped)
<1>1. /\ part = [type |-> part.type, lines |-> part.lines, id |-> part.id, error |-> part.error]
      /\ part.lines \in Text /\ part.error \in BOOLEAN
  BY DEF AnyPart
<1>2. ShortenResult(part) = [part EXCEPT !.lines = left]
  BY DEF ShortenResult, Stripped
<1>3. stripped \in Text /\ SparesErrors(part.error, part.lines, stripped)
  BY <1>1, StrippedIs
<1> HIDE DEF stripped
<1>4. deduped \in Text /\ SparesErrors(part.error, stripped, deduped)
  BY <1>3, DedupeIs
<1> HIDE DEF deduped
<1>5. left \in Text /\ SparesErrors(part.error, deduped, left)
  <2>1. CASE part.error
    <3>1. left = deduped
      BY <2>1
    <3>2. QED
      BY <1>4, <3>1, SavesItself
  <2>2. CASE ~ part.error
    <3>1. left = Truncate(deduped) /\ part.error = FALSE
      BY <1>1, <2>2
    <3>2. Truncate(deduped) \in Text /\ SparesErrors(FALSE, deduped, Truncate(deduped))
      BY <1>4, TruncateIs
    <3> HIDE DEF left
    <3>3. QED
      BY <3>1, <3>2
  <2>3. QED
    BY <2>1, <2>2
<1> HIDE DEF left
<1>6. SparesErrors(part.error, part.lines, left)
  <2>1. SparesErrors(part.error, part.lines, deduped)
    BY <1>3, <1>4, SavesOn
  <2>2. QED
    BY <1>5, <2>1, SavesOn
<1>7. ShortenResult(part) = [type |-> part.type, lines |-> left, id |-> part.id, error |-> part.error]
  BY <1>1, <1>2
<1> DEFINE short == ShortenResult(part)
<1> HIDE DEF short
<1>8. /\ short = [type |-> part.type, lines |-> left, id |-> part.id, error |-> part.error]
      /\ short.type = part.type /\ short.id = part.id /\ short.error = part.error
      /\ short.lines = left
  BY <1>7 DEF short
<1>9. short \in AnyPart
  BY <1>1, <1>5, <1>8 DEF AnyPart
<1>10. QED
  BY <1>6, <1>8, <1>9 DEF short

LosslessEngine == {"whitespace", "table"}

(* What an engine makes of a part: the same part, with other lines.         *)
LEMMA ShrunkIs ==
  ASSUME NEW part \in AnyPart, NEW engine \in Engine
  PROVE  /\ Shrunk(engine, part) \in AnyPart
         /\ Shrunk(engine, part).type = part.type /\ Shrunk(engine, part).id = part.id
         /\ Shrunk(engine, part).error = part.error
         /\ SparesErrors(part.error, part.lines, Shrunk(engine, part).lines)
         /\ engine \in LosslessEngine => Like(part.lines, Shrunk(engine, part).lines)
<1>1. /\ part = [type |-> part.type, lines |-> part.lines, id |-> part.id, error |-> part.error]
      /\ part.lines \in Text /\ part.type \in {"text", "tool_call", "tool_result"}
  BY DEF AnyPart
<1>2. CASE Shrunk(engine, part) = part
  BY <1>2, SavesItself, LikeItself
<1>3. ASSUME NEW lines \in Text, SparesErrors(part.error, part.lines, lines), Like(part.lines, lines),
             Shrunk(engine, part) = [part EXCEPT !.lines = lines]
      PROVE  /\ Shrunk(engine, part) \in AnyPart
             /\ Shrunk(engine, part).type = part.type /\ Shrunk(engine, part).id = part.id
             /\ Shrunk(engine, part).error = part.error
             /\ SparesErrors(part.error, part.lines, Shrunk(engine, part).lines)
             /\ engine \in LosslessEngine => Like(part.lines, Shrunk(engine, part).lines)
  <2>1. Shrunk(engine, part) = [type |-> part.type, lines |-> lines, id |-> part.id, error |-> part.error]
    BY <1>1, <1>3
  <2>2. QED
    BY <1>3, <2>1 DEF AnyPart
<1>4. CASE engine = "whitespace" /\ part.type # "tool_call"
  <2>1. Shrunk(engine, part) = [part EXCEPT !.lines = Collapse(part.lines)]
    BY <1>4 DEF Shrunk
  <2>2. QED
    BY <1>1, <1>3, <2>1, CollapseKeeps, CollapseSaves
<1>5. CASE engine = "table" /\ part.type # "tool_call"
  <2>1. Shrunk(engine, part) = [part EXCEPT !.lines = Tabulate(part.lines)]
    BY <1>5 DEF Shrunk
  <2>2. QED
    BY <1>1, <1>3, <2>1, TabulateKeeps, TabulateSaves
<1>6. CASE engine = "results" /\ part.type = "tool_result"
  <2>1. Shrunk(engine, part) = ShortenResult(part)
    BY <1>6 DEF Shrunk
  <2>2. engine \notin LosslessEngine
    BY <1>6 DEF LosslessEngine
  <2>3. QED
    BY <2>1, <2>2, ShortenIs
<1>7. CASE part.type = "tool_call" \/ (engine = "results" /\ part.type = "text")
  <2>1. Shrunk(engine, part) = part
    BY <1>7 DEF Shrunk
  <2>2. QED
    BY <1>2, <2>1
<1>8. QED
  BY <1>1, <1>4, <1>5, <1>6, <1>7 DEF Engine

-----------------------------------------------------------------------------
(* Messages and requests, whatever is in them. *)
AnyMessage == [role : {"user", "assistant"}, content : Seq(AnyPart)]
AnyRequest == [system : Text, messages : Seq(AnyMessage), stable : Int]

LEMMA PartIs ==
  ASSUME NEW part \in AnyPart
  PROVE  /\ part.type \in {"text", "tool_call", "tool_result"} /\ part.lines \in Text
         /\ part.id \in {"", "one", "two"} /\ part.error \in BOOLEAN
BY DEF AnyPart

LEMMA MessageIs ==
  ASSUME NEW message \in AnyMessage
  PROVE  /\ message = [role |-> message.role, content |-> message.content]
         /\ message.role \in {"user", "assistant"} /\ message.content \in Seq(AnyPart)
         /\ Len(message.content) \in Nat /\ DOMAIN message.content = 1..Len(message.content)
         /\ \A p \in 1..Len(message.content) : message.content[p] \in AnyPart
<1>1. /\ message = [role |-> message.role, content |-> message.content]
      /\ message.role \in {"user", "assistant"} /\ message.content \in Seq(AnyPart)
  BY DEF AnyMessage
<1>2. PICK content : content = message.content
  OBVIOUS
<1>3. content \in Seq(AnyPart)
  BY <1>1, <1>2
<1>4. /\ Len(content) \in Nat /\ DOMAIN content = 1..Len(content)
      /\ \A p \in 1..Len(content) : content[p] \in AnyPart
  BY <1>3
<1>5. QED
  BY <1>1, <1>2, <1>4

LEMMA RequestIs ==
  ASSUME NEW request \in AnyRequest
  PROVE  /\ request = [system |-> request.system, messages |-> request.messages,
                       stable |-> request.stable]
         /\ request.system \in Text /\ request.messages \in Seq(AnyMessage)
         /\ request.stable \in Int
         /\ Len(request.messages) \in Nat /\ DOMAIN request.messages = 1..Len(request.messages)
         /\ \A k \in 1..Len(request.messages) : request.messages[k] \in AnyMessage
<1>1. /\ request = [system |-> request.system, messages |-> request.messages,
                    stable |-> request.stable]
      /\ request.system \in Text /\ request.messages \in Seq(AnyMessage)
      /\ request.stable \in Int
  BY DEF AnyRequest
<1>2. PICK messages : messages = request.messages
  OBVIOUS
<1>3. messages \in Seq(AnyMessage)
  BY <1>1, <1>2
<1>4. /\ Len(messages) \in Nat /\ DOMAIN messages = 1..Len(messages)
      /\ \A k \in 1..Len(messages) : messages[k] \in AnyMessage
  BY <1>3
<1>5. QED
  BY <1>1, <1>2, <1>4

(* What a message says, part by part, and a request, message by message. *)
LinesOf(content) == [k \in DOMAIN content |-> content[k].lines]
TextsOf(messages) == [k \in DOMAIN messages |-> RenderMessage(messages[k])]

LEMMA SequenceOf ==
  ASSUME NEW S, NEW n \in Nat, NEW s, DOMAIN s = 1..n, s = [k \in DOMAIN s |-> s[k]],
         \A k \in 1..n : s[k] \in S
  PROVE  s \in Seq(S) /\ Len(s) = n
<1>1. s \in [1..n -> S]
  OBVIOUS
<1>2. QED
  BY <1>1

LEMMA LinesAre ==
  ASSUME NEW content \in Seq(AnyPart)
  PROVE  /\ LinesOf(content) \in Seq(Text) /\ Len(LinesOf(content)) = Len(content)
         /\ \A k \in 1..Len(content) : LinesOf(content)[k] = content[k].lines
<1> DEFINE n == Len(content)
           lines == LinesOf(content)
<1>1. n \in Nat /\ DOMAIN content = 1..n /\ \A k \in 1..n : content[k] \in AnyPart
  OBVIOUS
<1>2. /\ DOMAIN lines = 1..n /\ lines = [k \in DOMAIN lines |-> lines[k]]
      /\ \A k \in 1..n : lines[k] = content[k].lines
  BY <1>1 DEF LinesOf
<1> HIDE DEF lines
<1>3. \A k \in 1..n : lines[k] \in Text
  BY <1>1, <1>2, PartIs
<1>4. lines \in Seq(Text) /\ Len(lines) = n
  BY <1>1, <1>2, <1>3, SequenceOf
<1>5. QED
  BY <1>2, <1>4 DEF lines

LEMMA RenderedPartsAre ==
  ASSUME NEW message \in AnyMessage
  PROVE  /\ RenderMessage(message) = FlattenSeq(LinesOf(message.content))
         /\ RenderMessage(message) \in Text
<1>1. RenderMessage(message) = FlattenSeq(LinesOf(message.content))
  BY DEF RenderMessage, LinesOf
<1>2. LinesOf(message.content) \in Seq(Text)
  BY MessageIs, LinesAre
<1>3. QED
  BY <1>1, <1>2, FlattenPlaces DEF Text

LEMMA TextsAre ==
  ASSUME NEW messages \in Seq(AnyMessage)
  PROVE  /\ TextsOf(messages) \in Seq(Text) /\ Len(TextsOf(messages)) = Len(messages)
         /\ \A k \in 1..Len(messages) : TextsOf(messages)[k] = RenderMessage(messages[k])
<1> DEFINE n == Len(messages)
           texts == TextsOf(messages)
<1>1. n \in Nat /\ DOMAIN messages = 1..n /\ \A k \in 1..n : messages[k] \in AnyMessage
  OBVIOUS
<1>2. /\ DOMAIN texts = 1..n /\ texts = [k \in DOMAIN texts |-> texts[k]]
      /\ \A k \in 1..n : texts[k] = RenderMessage(messages[k])
  BY <1>1 DEF TextsOf
<1> HIDE DEF texts
<1>3. \A k \in 1..n : texts[k] \in Text
  BY <1>1, <1>2, RenderedPartsAre
<1>4. texts \in Seq(Text) /\ Len(texts) = n
  BY <1>1, <1>2, <1>3, SequenceOf
<1>5. QED
  BY <1>2, <1>4 DEF texts

LEMMA RenderedIs ==
  ASSUME NEW request \in AnyRequest
  PROVE  /\ Rendered(request) = request.system \o FlattenSeq(TextsOf(request.messages))
         /\ FlattenSeq(TextsOf(request.messages)) \in Text
         /\ Rendered(request) \in Text
<1>1. Rendered(request) = request.system \o FlattenSeq(TextsOf(request.messages))
  BY DEF Rendered, TextsOf
<1>2. TextsOf(request.messages) \in Seq(Text)
  BY RequestIs, TextsAre
<1>3. FlattenSeq(TextsOf(request.messages)) \in Text
  BY <1>2, FlattenPlaces DEF Text
<1>4. QED
  BY <1>1, <1>3, RequestIs, TextsJoin

-----------------------------------------------------------------------------
(* What is left of a request: the same parts of the same messages, and of an *)
(* error every line.                                                        *)
PartLeft(before, after) ==
    /\ after.type = before.type /\ after.id = before.id /\ after.error = before.error
    /\ SparesErrors(before.error, before.lines, after.lines)

MessageLeft(before, after) ==
    /\ after.role = before.role /\ Len(after.content) = Len(before.content)
    /\ \A p \in 1..Len(before.content) : PartLeft(before.content[p], after.content[p])

MessagesLeft(before, after) ==
    /\ Len(after) = Len(before)
    /\ \A k \in 1..Len(before) : MessageLeft(before[k], after[k])

LEMMA LeftItself ==
  ASSUME NEW messages
  PROVE  MessagesLeft(messages, messages)
BY SavesItself DEF MessagesLeft, MessageLeft, PartLeft

LEMMA LeftOn ==
  ASSUME NEW a, NEW b, NEW c, MessagesLeft(a, b), MessagesLeft(b, c)
  PROVE  MessagesLeft(a, c)
<1>1. Len(c) = Len(a) /\ Len(b) = Len(a)
  BY DEF MessagesLeft
<1>2. ASSUME NEW k \in 1..Len(a)
      PROVE  MessageLeft(a[k], c[k])
  <2>1. MessageLeft(a[k], b[k]) /\ MessageLeft(b[k], c[k])
    BY <1>1 DEF MessagesLeft
  <2>2. ASSUME NEW p \in 1..Len(a[k].content)
        PROVE  PartLeft(a[k].content[p], c[k].content[p])
    <3>1. PartLeft(a[k].content[p], b[k].content[p]) /\ PartLeft(b[k].content[p], c[k].content[p])
      BY <2>1 DEF MessageLeft
    <3>2. QED
      BY <3>1, SavesOn, Zenon DEF PartLeft
  <2>3. QED
    BY <2>1, <2>2 DEF MessageLeft
<1>3. QED
  BY <1>1, <1>2 DEF MessagesLeft

LEMMA ShrunkMessageIs ==
  ASSUME NEW message \in AnyMessage, NEW engine \in Engine
  PROVE  /\ ShrunkMessage(engine, message) \in AnyMessage
         /\ MessageLeft(message, ShrunkMessage(engine, message))
         /\ engine \in LosslessEngine =>
              Like(RenderMessage(message), RenderMessage(ShrunkMessage(engine, message)))
<1> DEFINE content == message.content
           n == Len(content)
           left == [p \in DOMAIN content |-> Shrunk(engine, content[p])]
           shrunk == ShrunkMessage(engine, message)
<1>1. /\ message = [role |-> message.role, content |-> content]
      /\ message.role \in {"user", "assistant"} /\ content \in Seq(AnyPart)
      /\ n \in Nat /\ DOMAIN content = 1..n /\ \A p \in 1..n : content[p] \in AnyPart
  BY MessageIs
<1>2. /\ DOMAIN left = 1..n /\ left = [p \in DOMAIN left |-> left[p]]
      /\ \A p \in 1..n : left[p] = Shrunk(engine, content[p])
  BY <1>1
<1>3. shrunk = [message EXCEPT !.content = left]
  BY DEF ShrunkMessage
<1> HIDE DEF left, shrunk
<1>4. /\ shrunk = [role |-> message.role, content |-> left]
      /\ shrunk.role = message.role /\ shrunk.content = left
  BY <1>1, <1>3
<1>5. \A p \in 1..n : left[p] \in AnyPart /\ PartLeft(content[p], left[p])
  BY <1>1, <1>2, ShrunkIs DEF PartLeft
<1>6. left \in Seq(AnyPart) /\ Len(left) = n
  BY <1>1, <1>2, <1>5, SequenceOf
<1>7. shrunk \in AnyMessage
  BY <1>1, <1>4, <1>6 DEF AnyMessage
<1>8. MessageLeft(message, shrunk)
  BY <1>4, <1>5, <1>6 DEF MessageLeft
<1>9. ASSUME engine \in LosslessEngine
      PROVE  Like(RenderMessage(message), RenderMessage(shrunk))
  <2> DEFINE a == LinesOf(content)
             b == LinesOf(left)
  <2>1. /\ a \in Seq(Text) /\ Len(a) = n /\ \A k \in 1..n : a[k] = content[k].lines
        /\ b \in Seq(Text) /\ Len(b) = n /\ \A k \in 1..n : b[k] = left[k].lines
    BY <1>1, <1>6, LinesAre
  <2>2. \A k \in 1..n : Like(content[k].lines, left[k].lines)
    BY <1>1, <1>2, <1>9, ShrunkIs
  <2> HIDE DEF a, b
  <2>3. Like(FlattenSeq(a), FlattenSeq(b))
    <3>1. \A k \in 1..Len(a) : Like(a[k], b[k])
      BY <2>1, <2>2
    <3>2. QED
      BY <2>1, <3>1, LikeFlattened
  <2>4. QED
    BY <1>4, <1>7, <2>3, RenderedPartsAre DEF a, b
<1>10. QED
  BY <1>7, <1>8, <1>9 DEF shrunk

LEMMA CandidateIs ==
  ASSUME NEW request \in AnyRequest, NEW engine \in Engine
  PROVE  /\ Candidate(engine, request) \in AnyRequest
         /\ Candidate(engine, request).stable = request.stable
         /\ request.system = <<>> => Candidate(engine, request).system = <<>>
         /\ MessagesLeft(request.messages, Candidate(engine, request).messages)
         /\ engine \in LosslessEngine =>
              Like(Rendered(request), Rendered(Candidate(engine, request)))
<1> DEFINE messages == request.messages
           n == Len(messages)
           left == [k \in DOMAIN messages |-> ShrunkMessage(engine, messages[k])]
           system == IF engine = "whitespace" THEN Collapse(request.system) ELSE request.system
           candidate == Candidate(engine, request)
<1>1. /\ request = [system |-> request.system, messages |-> messages, stable |-> request.stable]
      /\ request.system \in Text /\ messages \in Seq(AnyMessage) /\ request.stable \in Int
      /\ n \in Nat /\ DOMAIN messages = 1..n /\ \A k \in 1..n : messages[k] \in AnyMessage
  BY RequestIs
<1>2. /\ DOMAIN left = 1..n /\ left = [k \in DOMAIN left |-> left[k]]
      /\ \A k \in 1..n : left[k] = ShrunkMessage(engine, messages[k])
  BY <1>1
<1>3. candidate = [request EXCEPT !.system = system, !.messages = left]
  BY DEF Candidate
<1>4. system \in Text /\ Like(request.system, system)
  <2>1. CASE engine = "whitespace"
    <3>1. system = Collapse(request.system)
      BY <2>1
    <3> HIDE DEF system
    <3>2. QED
      BY <1>1, <3>1, CollapseKeeps
  <2>2. CASE engine # "whitespace"
    <3>1. system = request.system
      BY <2>2
    <3> HIDE DEF system
    <3>2. QED
      BY <1>1, <3>1, LikeItself
  <2>3. QED
    BY <2>1, <2>2
<1>5. request.system = <<>> => system = <<>>
  <2>1. Collapse(<<>>) = <<>>
    <3>1. Collapse(<<>>) = FlattenSeq(Collapsed(<<>>))
      BY NoLines, CollapsedIs
    <3>2. Collapsed(<<>>) = <<>>
      BY DEF Collapsed, Trimmed
    <3>3. QED
      BY <3>1, <3>2, FlattenNone
  <2>2. QED
    BY <2>1
<1> HIDE DEF left, candidate, system
<1>6. /\ candidate = [system |-> system, messages |-> left, stable |-> request.stable]
      /\ candidate.system = system /\ candidate.messages = left
      /\ candidate.stable = request.stable
  BY <1>1, <1>3
<1>7. \A k \in 1..n : left[k] \in AnyMessage /\ MessageLeft(messages[k], left[k])
  BY <1>1, <1>2, ShrunkMessageIs
<1>8. left \in Seq(AnyMessage) /\ Len(left) = n
  BY <1>1, <1>2, <1>7, SequenceOf
<1>9. candidate \in AnyRequest
  BY <1>1, <1>4, <1>6, <1>8 DEF AnyRequest
<1>10. MessagesLeft(messages, left)
  BY <1>7, <1>8 DEF MessagesLeft
<1>11. ASSUME engine \in LosslessEngine
       PROVE  Like(Rendered(request), Rendered(candidate))
  <2> DEFINE a == TextsOf(messages)
             b == TextsOf(left)
  <2>1. /\ a \in Seq(Text) /\ Len(a) = n /\ \A k \in 1..n : a[k] = RenderMessage(messages[k])
        /\ b \in Seq(Text) /\ Len(b) = n /\ \A k \in 1..n : b[k] = RenderMessage(left[k])
    BY <1>1, <1>8, TextsAre
  <2>2. \A k \in 1..n : Like(RenderMessage(messages[k]), RenderMessage(left[k]))
    BY <1>1, <1>2, <1>11, ShrunkMessageIs
  <2> HIDE DEF a, b
  <2>3. FlattenSeq(a) \in Text /\ FlattenSeq(b) \in Text /\ Like(FlattenSeq(a), FlattenSeq(b))
    <3>1. \A k \in 1..Len(a) : Like(a[k], b[k])
      BY <2>1, <2>2
    <3>2. QED
      BY <2>1, <3>1, LikeFlattened
  <2>4. Like(request.system \o FlattenSeq(a), system \o FlattenSeq(b))
    BY <1>1, <1>4, <2>3, LikeJoined
  <2>5. Rendered(request) = request.system \o FlattenSeq(a)
        /\ Rendered(candidate) = candidate.system \o FlattenSeq(TextsOf(candidate.messages))
    BY <1>9, RenderedIs DEF a
  <2>6. QED
    BY <1>6, <2>4, <2>5 DEF b
<1>12. QED
  BY <1>5, <1>6, <1>9, <1>10, <1>11 DEF candidate

-----------------------------------------------------------------------------
(* What comes of a request, whatever ran on it: nothing is new in it, and   *)
(* nothing that must be exact is lost if no lossy engine ran.               *)
Becomes(before, after) ==
    /\ after \in AnyRequest /\ after.stable = before.stable
    /\ before.system = <<>> => after.system = <<>>
    /\ MessagesLeft(before.messages, after.messages)
    /\ Carries(Rendered(after), Rendered(before))

Exact(before, after) == Carries(Rendered(before), Rendered(after))

LEMMA CarriesItself ==
  ASSUME NEW text \in Text
  PROVE  Carries(text, text)
<1>1. \A t : Count(ProtectedTokens(text), t) \in Nat
  BY GateIs
<1>2. QED
  BY <1>1 DEF Carries

LEMMA CarriesOn ==
  ASSUME NEW a \in Text, NEW b \in Text, NEW c \in Text, Carries(a, b), Carries(b, c)
  PROVE  Carries(a, c)
<1> SUFFICES ASSUME NEW t
             PROVE  Count(ProtectedTokens(c), t) >= Count(ProtectedTokens(a), t)
  BY DEF Carries
<1>1. /\ Count(ProtectedTokens(a), t) \in Nat /\ Count(ProtectedTokens(b), t) \in Nat
      /\ Count(ProtectedTokens(c), t) \in Nat
  BY GateIs
<1>2. /\ Count(ProtectedTokens(b), t) >= Count(ProtectedTokens(a), t)
      /\ Count(ProtectedTokens(c), t) >= Count(ProtectedTokens(b), t)
  BY DEF Carries
<1>3. QED
  BY <1>1, <1>2

LEMMA BecomesItself ==
  ASSUME NEW request \in AnyRequest
  PROVE  Becomes(request, request) /\ Exact(request, request)
BY RenderedIs, CarriesItself, LeftItself DEF Becomes, Exact

LEMMA BecomesOn ==
  ASSUME NEW a \in AnyRequest, NEW b, NEW c, Becomes(a, b), Becomes(b, c)
  PROVE  Becomes(a, c) /\ (Exact(a, b) /\ Exact(b, c) => Exact(a, c))
<1>1. b \in AnyRequest /\ c \in AnyRequest
  BY DEF Becomes
<1>2. Rendered(a) \in Text /\ Rendered(b) \in Text /\ Rendered(c) \in Text
  BY <1>1, RenderedIs
<1>3. MessagesLeft(a.messages, c.messages)
  BY LeftOn DEF Becomes
<1>4. Carries(Rendered(c), Rendered(a))
  BY <1>2, CarriesOn DEF Becomes
<1>5. Exact(a, b) /\ Exact(b, c) => Exact(a, c)
  BY <1>2, CarriesOn DEF Exact
<1>6. QED
  BY <1>1, <1>3, <1>4, <1>5 DEF Becomes

LEMMA RunEngineIs ==
  ASSUME NEW request \in AnyRequest, NEW engine \in Engine
  PROVE  /\ Becomes(request, RunEngine(request, engine))
         /\ engine \in LosslessEngine => Exact(request, RunEngine(request, engine))
<1> DEFINE candidate == Candidate(engine, request)
           before == Rendered(request)
           after == Rendered(candidate)
<1>1. /\ candidate \in AnyRequest /\ candidate.stable = request.stable
      /\ request.system = <<>> => candidate.system = <<>>
      /\ MessagesLeft(request.messages, candidate.messages)
      /\ engine \in LosslessEngine => Like(before, after)
  BY CandidateIs
<1>2. RunEngine(request, engine) =
        IF Size(after) < Size(before) /\ Safe(engine, before, after) THEN candidate ELSE request
  BY DEF RunEngine
<1> HIDE DEF candidate
<1>3. before \in Text /\ after \in Text
  BY <1>1, RenderedIs
<1> HIDE DEF before, after
<1>4. CASE Size(after) < Size(before) /\ Safe(engine, before, after)
  <2>1. RunEngine(request, engine) = candidate
    BY <1>2, <1>4
  <2>2. CASE engine = "results"
    <3>1. IntroducesNoSensitive(before, after) /\ engine \notin LosslessEngine
      BY <1>4, <2>2 DEF Safe, Lossy, LosslessEngine
    <3>2. Carries(after, before)
      BY <1>3, <3>1, GateIs
    <3>3. QED
      BY <1>1, <2>1, <3>1, <3>2 DEF Becomes, before, after
  <2>3. CASE engine # "results"
    <3>1. PreservesSensitive(before, after) /\ engine \in LosslessEngine
      BY <1>4, <2>3 DEF Safe, Lossy, LosslessEngine, Engine
    <3>2. Carries(before, after)
      BY <1>3, <3>1, GateIs
    <3>3. Carries(after, before)
      BY <1>1, <1>3, <3>1, <3>2, NothingNew
    <3>4. QED
      BY <1>1, <2>1, <3>2, <3>3 DEF Becomes, Exact, before, after
  <2>4. QED
    BY <2>2, <2>3
<1>5. CASE ~ (Size(after) < Size(before) /\ Safe(engine, before, after))
  <2>1. RunEngine(request, engine) = request
    BY <1>2, <1>5
  <2>2. QED
    BY <2>1, BecomesItself
<1>6. QED
  BY <1>4, <1>5

LEMMA PassIs ==
  ASSUME NEW request \in AnyRequest, NEW engine \in Engine, NEW profile
  PROVE  /\ Becomes(request, Pass(profile, engine, request))
         /\ engine \in LosslessEngine \/ engine \notin Profiles[profile] =>
              Exact(request, Pass(profile, engine, request))
<1>1. CASE engine \in Profiles[profile]
  <2>1. Pass(profile, engine, request) = RunEngine(request, engine)
    BY <1>1 DEF Pass
  <2>2. QED
    BY <1>1, <2>1, RunEngineIs
<1>2. CASE engine \notin Profiles[profile]
  <2>1. Pass(profile, engine, request) = request
    BY <1>2 DEF Pass
  <2>2. QED
    BY <2>1, BecomesItself
<1>3. QED
  BY <1>1, <1>2

LEMMA RunIs ==
  ASSUME NEW request \in AnyRequest, NEW profile \in DOMAIN Profiles
  PROVE  /\ Becomes(request, Run(profile, request))
         /\ profile # "aggressive" => Exact(request, Run(profile, request))
<1> DEFINE trimmed == Pass(profile, "whitespace", request)
           tabled == Pass(profile, "table", trimmed)
           short == Pass(profile, "results", tabled)
<1>1. {"whitespace", "table", "results"} \subseteq Engine
      /\ {"whitespace", "table"} \subseteq LosslessEngine
  BY DEF Engine, LosslessEngine
<1>2. profile # "aggressive" => "results" \notin Profiles[profile]
  BY DEF Profiles
<1>3. Run(profile, request) = short
  BY DEF Run
<1>4. Becomes(request, trimmed) /\ Exact(request, trimmed)
  BY <1>1, PassIs
<1> HIDE DEF trimmed
<1>5. trimmed \in AnyRequest
  BY <1>4 DEF Becomes
<1>6. Becomes(trimmed, tabled) /\ Exact(trimmed, tabled)
  BY <1>1, <1>5, PassIs
<1> HIDE DEF tabled
<1>7. tabled \in AnyRequest
  BY <1>6 DEF Becomes
<1>8. Becomes(tabled, short) /\ (profile # "aggressive" => Exact(tabled, short))
  BY <1>1, <1>2, <1>7, PassIs
<1> HIDE DEF short
<1>9. Becomes(request, tabled) /\ Exact(request, tabled)
  BY <1>4, <1>6, BecomesOn
<1>10. Becomes(request, short) /\ (profile # "aggressive" => Exact(request, short))
  BY <1>8, <1>9, BecomesOn
<1>11. QED
  BY <1>3, <1>10

-----------------------------------------------------------------------------
(* A declared prefix, and what it leaves. *)
LEMMA PrefixIs ==
  ASSUME NEW request \in AnyRequest, request.stable \in Declarable
  PROVE  /\ CachePrefixLength(request) = Undeclared <=> request.stable = Undeclared
         /\ request.stable # Undeclared =>
              CachePrefixLength(request) \in 0..Len(request.messages)
<1>1. Len(request.messages) \in Nat
  BY RequestIs
<1>2. QED
  BY <1>1 DEF CachePrefixLength, Declarable, Undeclared

LEMMA RegionIs ==
  ASSUME NEW request \in AnyRequest, request.stable \in Declarable
  PROVE  LET n == CachePrefixLength(request)
             region == Region(request)
         IN  /\ region \in AnyRequest
             /\ n = Undeclared => region = request
             /\ n # Undeclared =>
                  /\ region.system = <<>> /\ region.stable = Undeclared
                  /\ region.messages = SubSeq(request.messages, n + 1, Len(request.messages))
                  /\ Len(region.messages) = Len(request.messages) - n
                  /\ \A k \in 1..(Len(request.messages) - n) :
                       region.messages[k] = request.messages[n + k]
<1> DEFINE n == CachePrefixLength(request)
           region == Region(request)
           messages == request.messages
           l == Len(messages)
           rest == SubSeq(messages, n + 1, l)
<1>1. /\ request = [system |-> request.system, messages |-> messages, stable |-> request.stable]
      /\ messages \in Seq(AnyMessage) /\ l \in Nat /\ \A k \in 1..l : messages[k] \in AnyMessage
  BY RequestIs
<1>2. CASE n = Undeclared
  <2>1. region = request
    BY <1>2 DEF Region
  <2>2. QED
    BY <1>2, <2>1
<1>3. CASE n # Undeclared
  <2>1. n \in 0..l
    BY <1>3, PrefixIs
  <2>2. region = [request EXCEPT !.system = <<>>, !.stable = Undeclared, !.messages = rest]
    BY <1>3 DEF Region
  <2> HIDE DEF n, region
  <2>3. rest \in Seq(AnyMessage) /\ Len(rest) = l - n /\ \A k \in 1..(l - n) : rest[k] = messages[n + k]
    <3>1. PICK a \in Int : a = n + 1
      BY <2>1
    <3>2. \A k \in a..l : messages[k] \in AnyMessage
      BY <1>1, <2>1, <3>1
    <3>3. l \in a - 1 .. l
      BY <1>1, <2>1, <3>1
    <3>4. /\ SubSeq(messages, a, l) \in Seq(AnyMessage)
          /\ Len(SubSeq(messages, a, l)) = IF a <= l THEN l - a + 1 ELSE 0
          /\ \A k \in 1..(l - a + 1) : SubSeq(messages, a, l)[k] = messages[a + k - 1]
      BY <1>1, <3>1, <3>2, SubSeqProperties
    <3>5. \A k \in 1..(l - n) : k \in 1..(l - a + 1) /\ a + k - 1 = n + k
      <4>1. l \in Nat /\ n \in Nat
        BY <1>1, <2>1
      <4> HIDE DEF l
      <4>2. QED
        BY <3>1, <4>1
    <3>6. rest = SubSeq(messages, a, l)
      BY <3>1
    <3>7. (IF a <= l THEN l - a + 1 ELSE 0) = l - n
      BY <1>1, <2>1, <3>1
    <3>8. QED
      BY <3>4, <3>5, <3>6, <3>7
  <2> HIDE DEF rest
  <2>4. region = [system |-> <<>>, messages |-> rest, stable |-> Undeclared]
    BY <1>1, <2>2
  <2>5. region.system = <<>> /\ region.messages = rest /\ region.stable = Undeclared
    BY <2>4
  <2>6. region \in AnyRequest
    BY <2>3, <2>4, NoLines DEF AnyRequest, Undeclared
  <2>7. QED
    BY <1>3, <2>3, <2>5, <2>6 DEF n, region, rest
<1>4. QED
  BY <1>2, <1>3

(* What a request is compressed to: what ran is seen by the gate alone, and *)
(* what a provider has cached stays.                                        *)
LEMMA CompressIs ==
  ASSUME NEW request \in AnyRequest, request.stable \in Declarable,
         NEW profile \in DOMAIN Profiles
  PROVE  LET compressed == Compress(profile, request)
             n == CachePrefixLength(request)
         IN  /\ compressed \in AnyRequest
             /\ CachePrefixLength(compressed) = n /\ compressed.stable = request.stable
             /\ MessagesLeft(request.messages, compressed.messages)
             /\ Becomes(Region(request), Region(compressed))
             /\ profile # "aggressive" => Exact(Region(request), Region(compressed))
             /\ n # Undeclared => compressed.system = request.system
             /\ \A k \in 1..n : compressed.messages[k] = request.messages[k]
<1> DEFINE compressed == Compress(profile, request)
           n == CachePrefixLength(request)
           region == Region(request)
           rest == Run(profile, region)
<1>1. region \in AnyRequest
  BY RegionIs
<1>2. Becomes(region, rest) /\ (profile # "aggressive" => Exact(region, rest))
  <2> HIDE DEF region
  <2>1. QED
    BY <1>1, RunIs
<1>3. CASE n = Undeclared
  <2>1. compressed = rest /\ region = request
    BY <1>3, RegionIs DEF Compress
  <2>2. request.stable = Undeclared
    BY <1>3, PrefixIs
  <2> HIDE DEF compressed, rest, region
  <2>3. compressed \in AnyRequest /\ compressed.stable = Undeclared
    BY <1>2, <2>1, <2>2 DEF Becomes
  <2>4. CachePrefixLength(compressed) = Undeclared
    BY <2>3 DEF CachePrefixLength
  <2>5. Region(compressed) = compressed
    BY <2>4 DEF Region
  <2>6. \A k \in 1..Undeclared : FALSE
    BY DEF Undeclared
  <2> HIDE DEF n
  <2>7. QED
    BY <1>2, <1>3, <2>1, <2>2, <2>3, <2>4, <2>5, <2>6 DEF Becomes, compressed, rest, region, n
<1>4. CASE n # Undeclared
  <2> DEFINE messages == request.messages
             l == Len(messages)
             beginning == SubSeq(messages, 1, n)
             together == beginning \o rest.messages
  <2>1. /\ request = [system |-> request.system, messages |-> messages, stable |-> request.stable]
        /\ request.system \in Text /\ messages \in Seq(AnyMessage) /\ l \in Nat
        /\ \A k \in 1..l : messages[k] \in AnyMessage
        /\ request.stable \in Int
    BY RequestIs
  <2>2. n \in 0..l /\ request.stable # Undeclared
    BY <1>4, PrefixIs
  <2>3. /\ region.system = <<>> /\ region.stable = Undeclared /\ Len(region.messages) = l - n
        /\ \A k \in 1..(l - n) : region.messages[k] = messages[n + k]
    BY <1>4, RegionIs
  <2>4. compressed = [request EXCEPT !.messages = together]
    BY <1>4 DEF Compress
  <2>4a. CachePrefixLength(request) = IF request.stable > l THEN l ELSE request.stable
    BY <2>2 DEF CachePrefixLength
  <2> HIDE DEF region, rest, compressed
  <2>5. /\ rest \in AnyRequest /\ rest.system = <<>> /\ rest.stable = Undeclared
        /\ MessagesLeft(region.messages, rest.messages)
    BY <1>2, <2>3 DEF Becomes
  <2>6. /\ rest = [system |-> <<>>, messages |-> rest.messages, stable |-> Undeclared]
        /\ rest.messages \in Seq(AnyMessage)
    BY <2>5, RequestIs
  <2>7. Len(rest.messages) = l - n
    BY <2>3, <2>5 DEF MessagesLeft
  <2>8. beginning \in Seq(AnyMessage) /\ Len(beginning) = n /\ \A k \in 1..n : beginning[k] = messages[k]
    <3> HIDE DEF n
    <3>1. \A k \in 1..n : messages[k] \in AnyMessage
      BY <2>1, <2>2
    <3> HIDE DEF messages
    <3>2. QED
      BY <2>1, <2>2, <3>1, SubSeqProperties
  <2> DEFINE left == rest.messages
  <2>9. left \in Seq(AnyMessage) /\ Len(left) = l - n
    BY <2>6, <2>7
  <2> HIDE DEF beginning, n, left
  <2>10. /\ beginning \o left \in Seq(AnyMessage) /\ Len(beginning \o left) = n + (l - n)
         /\ \A k \in 1..n : (beginning \o left)[k] = beginning[k]
         /\ \A k \in 1..(l - n) : (beginning \o left)[n + k] = left[k]
    <3>1. beginning \in Seq(AnyMessage) /\ left \in Seq(AnyMessage)
      BY <2>8, <2>9
    <3>2. /\ beginning \o left \in Seq(AnyMessage)
          /\ Len(beginning \o left) = Len(beginning) + Len(left)
          /\ \A k \in 1..Len(beginning) : (beginning \o left)[k] = beginning[k]
          /\ \A k \in 1..Len(left) : (beginning \o left)[Len(beginning) + k] = left[k]
      BY <3>1, Concatenated
    <3> DEFINE joint == beginning \o left
    <3> HIDE DEF joint, l
    <3>3. QED
      BY <2>8, <2>9, <3>2 DEF joint
  <2>11. together = beginning \o left
    BY DEF left
  <2> HIDE DEF together
  <2>12. n + (l - n) = l
    <3>1. n \in Nat
      BY <2>2
    <3> HIDE DEF l
    <3>2. QED
      BY <2>1, <3>1
  <2>13. /\ together \in Seq(AnyMessage) /\ Len(together) = l
         /\ \A k \in 1..n : together[k] = messages[k]
         /\ \A k \in 1..(l - n) : together[n + k] = left[k]
    BY <2>8, <2>10, <2>11, <2>12
  <2>14. /\ compressed = [system |-> request.system, messages |-> together, stable |-> request.stable]
         /\ compressed.system = request.system /\ compressed.messages = together
         /\ compressed.stable = request.stable
    BY <2>1, <2>4
  <2>15. compressed \in AnyRequest
    BY <2>1, <2>13, <2>14 DEF AnyRequest
  <2>16. CachePrefixLength(compressed) = n
    <3>1. CachePrefixLength(compressed) = IF request.stable > l THEN l ELSE request.stable
      BY <2>2, <2>13, <2>14 DEF CachePrefixLength
    <3>2. QED
      BY <2>4a, <3>1 DEF n
  <2>17. Region(compressed) = rest
    <3>1. Region(compressed) = [compressed EXCEPT !.system = <<>>, !.stable = Undeclared,
                                   !.messages = SubSeq(compressed.messages, n + 1, Len(compressed.messages))]
      BY <1>4, <2>16 DEF Region, n
    <3> DEFINE tail == SubSeq(together, n + 1, l)
    <3>2. tail = left
      <4>1. PICK a \in Int : a = n + 1
        BY <2>2
      <4>2. PICK e \in Nat : e = l
        BY <2>1
      <4>3. n \in Nat /\ n <= e /\ together \in Seq(AnyMessage) /\ Len(together) = e /\ Len(left) = e - n
        BY <2>2, <2>9, <2>13, <4>2
      <4>4. \A k \in a..e : together[k] \in AnyMessage
        BY <4>1, <4>3
      <4>5. /\ SubSeq(together, a, e) \in Seq(AnyMessage)
            /\ Len(SubSeq(together, a, e)) = IF a <= e THEN e - a + 1 ELSE 0
            /\ \A k \in 1..(e - a + 1) : SubSeq(together, a, e)[k] = together[a + k - 1]
        BY <4>1, <4>2, <4>3, <4>4, SubSeqProperties
      <4>6. Len(SubSeq(together, a, e)) = e - n
        BY <4>1, <4>2, <4>3, <4>5
      <4>7. \A k \in 1..(e - n) : SubSeq(together, a, e)[k] = left[k]
        <5>1. \A k \in 1..(e - n) : k \in 1..(e - a + 1) /\ a + k - 1 = n + k
          BY <4>1, <4>2, <4>3
        <5>2. \A k \in 1..(e - n) : together[n + k] = left[k]
          BY <2>13, <4>2
        <5>3. QED
          BY <4>5, <5>1, <5>2
      <4>8. SubSeq(together, a, e) = left
        <5> DEFINE s == SubSeq(together, a, e)
        <5>1. s \in Seq(AnyMessage) /\ Len(s) = Len(left) /\ \A k \in 1..Len(s) : s[k] = left[k]
          BY <4>3, <4>5, <4>6, <4>7
        <5> HIDE DEF s
        <5>2. s = left
          BY <2>9, <5>1, SeqEqual
        <5>3. QED
          BY <5>2 DEF s
      <4>9. QED
        BY <4>1, <4>2, <4>8
    <3>3. Region(compressed) = [compressed EXCEPT !.system = <<>>, !.stable = Undeclared, !.messages = tail]
      BY <2>13, <2>14, <3>1
    <3> HIDE DEF tail
    <3>4. Region(compressed) = [system |-> <<>>, messages |-> tail, stable |-> Undeclared]
      BY <2>14, <3>3
    <3>5. QED
      BY <2>6, <3>2, <3>4 DEF left
  <2>18. MessagesLeft(messages, together)
    <3>1. ASSUME NEW k \in 1..l
          PROVE  MessageLeft(messages[k], together[k])
      <4>1. CASE k \in 1..n
        <5>1. together[k] = messages[k]
          BY <2>13, <4>1
        <5>2. QED
          BY <5>1, SavesItself DEF MessageLeft, PartLeft
      <4>2. CASE k \notin 1..n
        <5>1. PICK i \in 1..(l - n) : k = n + i
          <6>1. PICK e \in Nat : e = l
            BY <2>1
          <6>2. k - n \in 1..(e - n) /\ k = n + (k - n)
            BY <2>2, <4>2, <6>1
          <6>3. QED
            BY <6>1, <6>2
        <5>2. together[k] = left[i] /\ messages[k] = region.messages[i]
          BY <2>3, <2>13, <5>1 DEF n
        <5>3. MessageLeft(region.messages[i], left[i])
          BY <2>3, <2>5, <5>1 DEF MessagesLeft, left, n
        <5>4. QED
          BY <5>2, <5>3
      <4>3. QED
        BY <4>1, <4>2
    <3>2. QED
      BY <2>13, <3>1 DEF MessagesLeft
  <2>19. QED
    BY <1>2, <2>13, <2>14, <2>15, <2>16, <2>17, <2>18 DEF compressed, rest, region, n
<1>5. QED
  BY <1>3, <1>4

-----------------------------------------------------------------------------
(* Calls and answers.                                                       *)
Calling(content) == \E p \in 1..Len(content) : content[p].type = "tool_call"
Answering(content) == \E p \in 1..Len(content) : content[p].type = "tool_result"

(* After a call there are only calls. *)
CallsLast(content) ==
    \A j, k \in 1..Len(content) :
        j <= k /\ content[j].type = "tool_call" => content[k].type = "tool_call"

(* The second has an answer to every call of the first, and nothing else.   *)
Answers(content, next) ==
    /\ \A k \in 1..Len(content) : content[k].type = "tool_call" =>
         \E j \in 1..Len(next) : next[j].id = content[k].id
    /\ \A j \in 1..Len(next) :
         /\ next[j].type = "tool_result"
         /\ \E k \in 1..Len(content) :
              content[k].type = "tool_call" /\ content[k].id = next[j].id

(* Contents, one after the other, the calls of all but perhaps the last answered. *)
Orderly(contents, n) ==
    \A m \in 1..n :
        /\ Calling(contents[m]) =>
             CallsLast(contents[m]) /\ (m < n => Answers(contents[m], contents[m + 1]))
        /\ Answering(contents[m]) => m > 1 /\ Calling(contents[m - 1])

AllAnswered(contents, n) == n > 0 => ~ Calling(contents[n])

(* Where the parts of two contents that follow each other are. *)
LEMMA ExchangeAdjoins ==
  ASSUME NEW S, NEW contents \in Seq(Seq(S)), NEW off, Laid(off, contents, FlattenSeq(contents)),
         NEW m \in 1..Len(contents), m + 1 \in 1..Len(contents),
         NEW p \in 1..Len(contents[m]), contents[m][p].type = "tool_call",
         CallsLast(contents[m]), Answers(contents[m], contents[m + 1]),
         NEW q \in 1..Len(contents[m + 1]), contents[m + 1][q].id = contents[m][p].id
  PROVE  LET flat == FlattenSeq(contents)
             a == off[m - 1] + p
             b == off[m] + q
         IN  /\ a \in 1..Len(flat) /\ b \in 1..Len(flat) /\ a < b
             /\ flat[a] = contents[m][p] /\ flat[b] = contents[m + 1][q]
             /\ Adjoins(flat, a, b)
<1> DEFINE n == Len(contents)
           flat == FlattenSeq(contents)
<1>1. n \in Nat /\ contents[m] \in Seq(S) /\ contents[m + 1] \in Seq(S)
  OBVIOUS
<1>2. PICK c, d : c = contents[m] /\ d = contents[m + 1]
  OBVIOUS
<1>3. c \in Seq(S) /\ d \in Seq(S) /\ Len(c) \in Nat /\ Len(d) \in Nat
  <2>1. c \in Seq(S) /\ d \in Seq(S)
    BY <1>1, <1>2
  <2>2. QED
    BY <2>1
<1>4. PICK l \in Nat, r \in Nat : l = Len(c) /\ r = Len(d)
  BY <1>3
<1>5. m - 1 \in 0..n /\ m \in 0..n /\ m + 1 \in 0..n /\ n \in 0..n /\ m + 1 <= n /\ (m + 1) - 1 = m
  BY <1>1, SMTT(60)
<1> HIDE DEF flat
<1>6. /\ off \in [0..n -> Nat] /\ Len(flat) = off[n]
      /\ \A k \in 1..n : off[k] = off[k - 1] + Len(contents[k])
      /\ \A j, k \in 0..n : j <= k => off[j] <= off[k]
      /\ \A k \in 1..n : \A i \in 1..Len(contents[k]) : flat[off[k - 1] + i] = contents[k][i]
  BY DEF Laid, flat
<1> HIDE DEF n
<1>7. PICK x \in Nat, y \in Nat, z \in Nat, w \in Nat :
        x = off[m - 1] /\ y = off[m] /\ z = off[m + 1] /\ w = off[n]
  BY <1>5, <1>6
<1>8. y = x + l /\ z = y + r /\ z <= w /\ Len(flat) = w
  <2>1. off[m] = off[m - 1] + Len(contents[m])
    BY <1>6 DEF n
  <2>2. off[m + 1] = off[(m + 1) - 1] + Len(contents[m + 1])
    BY <1>6 DEF n
  <2>3. off[m + 1] <= off[n]
    BY <1>5, <1>6
  <2>4. QED
    BY <1>2, <1>4, <1>5, <1>6, <1>7, <2>1, <2>2, <2>3
<1>9. /\ \A i \in 1..l : flat[x + i] = c[i]
      /\ \A i \in 1..r : flat[y + i] = d[i]
  <2>1. \A i \in 1..Len(contents[m]) : flat[off[m - 1] + i] = contents[m][i]
    BY <1>6 DEF n
  <2>2. \A i \in 1..Len(contents[m + 1]) : flat[off[(m + 1) - 1] + i] = contents[m + 1][i]
    BY <1>6 DEF n
  <2>3. QED
    BY <1>2, <1>4, <1>5, <1>7, <2>1, <2>2
<1>10. /\ p \in 1..l /\ q \in 1..r /\ c[p].type = "tool_call" /\ d[q].id = c[p].id
       /\ \A k \in 1..l : p <= k => c[k].type = "tool_call"
       /\ \A k \in 1..r : d[k].type = "tool_result"
  BY <1>2, <1>4 DEF CallsLast, Answers
<1>11. x + p \in 1..w /\ y + q \in 1..w /\ x + p < y + q
  BY <1>8, <1>10
<1>12. flat[x + p] = c[p] /\ flat[y + q] = d[q]
  BY <1>9, <1>10
<1>13. ASSUME NEW k \in (x + p)..(y + q)
       PROVE  flat[k].type \in {"tool_call", "tool_result"}
  <2>1. CASE k <= y
    <3>1. k - x \in 1..l /\ p <= k - x /\ x + (k - x) = k
      BY <1>8, <1>10, <2>1
    <3>2. flat[x + (k - x)] = c[k - x] /\ c[k - x].type = "tool_call"
      BY <1>9, <1>10, <3>1
    <3>3. QED
      BY <3>1, <3>2
  <2>2. CASE ~ (k <= y)
    <3>1. k - y \in 1..r /\ y + (k - y) = k
      BY <1>10, <2>2
    <3>2. flat[y + (k - y)] = d[k - y] /\ d[k - y].type = "tool_result"
      BY <1>9, <1>10, <3>1
    <3>3. QED
      BY <3>1, <3>2
  <2>3. QED
    BY <2>1, <2>2
<1>14. Adjoins(flat, x + p, y + q)
  BY <1>10, <1>12, <1>13 DEF Adjoins
<1>15. QED
  BY <1>2, <1>7, <1>8, <1>11, <1>12, <1>14 DEF flat

LEMMA OrderlyIsWhole ==
  ASSUME NEW S, NEW contents \in Seq(Seq(S)),
         Orderly(contents, Len(contents)), AllAnswered(contents, Len(contents))
  PROVE  ExchangesAreWhole(FlattenSeq(contents))
<1> DEFINE n == Len(contents)
           flat == FlattenSeq(contents)
<1>1. n \in Nat
  OBVIOUS
<1>2. flat \in Seq(S)
  BY FlattenPlaces
<1>3. PICK off : Laid(off, contents, flat)
  BY FlattenPlaces
<1> HIDE DEF flat
<1>4. DOMAIN flat = 1..Len(flat)
  BY <1>2
<1>5. /\ \A i \in 1..Len(flat) : \E k \in 1..n : \E p \in 1..Len(contents[k]) : i = off[k - 1] + p
      /\ \A k \in 1..n : \A p \in 1..Len(contents[k]) : flat[off[k - 1] + p] = contents[k][p]
  BY <1>3 DEF Laid
<1>6. ASSUME NEW k \in DOMAIN flat, flat[k].type = "tool_call"
      PROVE  \E j \in DOMAIN flat : j > k /\ flat[j].type = "tool_result" /\ Adjoins(flat, k, j)
  <2>1. PICK m \in 1..n : \E p \in 1..Len(contents[m]) : k = off[m - 1] + p
    BY <1>4, <1>5
  <2>2. PICK p \in 1..Len(contents[m]) : k = off[m - 1] + p
    BY <2>1
  <2>3. contents[m][p].type = "tool_call"
    BY <1>5, <1>6, <2>2
  <2>4. Calling(contents[m])
    BY <2>3 DEF Calling
  <2>5. m # n
    <3> SUFFICES ASSUME m = n PROVE FALSE
      OBVIOUS
    <3>1. n > 0
      BY <1>1
    <3>2. ~ Calling(contents[m])
      BY <3>1 DEF AllAnswered
    <3>3. QED
      BY <2>4, <3>2
  <2>6. m < n /\ m + 1 \in 1..n
    BY <1>1, <2>5
  <2>7. CallsLast(contents[m]) /\ Answers(contents[m], contents[m + 1])
    BY <2>4, <2>6 DEF Orderly
  <2>8. PICK q \in 1..Len(contents[m + 1]) : contents[m + 1][q].id = contents[m][p].id
    BY <2>3, <2>7 DEF Answers
  <2>9. contents[m + 1][q].type = "tool_result"
    BY <2>7 DEF Answers
  <2> DEFINE b == off[m] + q
  <2>10. b \in 1..Len(flat) /\ k < b /\ flat[b] = contents[m + 1][q] /\ Adjoins(flat, k, b)
    BY <1>3, <2>2, <2>3, <2>6, <2>7, <2>8, ExchangeAdjoins DEF flat
  <2>11. b > k
    BY <1>4, <2>10
  <2> HIDE DEF b
  <2>12. QED
    BY <1>4, <2>9, <2>10, <2>11
<1>7. ASSUME NEW k \in DOMAIN flat, flat[k].type = "tool_result"
      PROVE  \E j \in DOMAIN flat : j < k /\ flat[j].type = "tool_call" /\ Adjoins(flat, j, k)
  <2>1. PICK i \in 1..n : \E q \in 1..Len(contents[i]) : k = off[i - 1] + q
    BY <1>4, <1>5
  <2>2. PICK q \in 1..Len(contents[i]) : k = off[i - 1] + q
    BY <2>1
  <2>3. contents[i][q].type = "tool_result"
    BY <1>5, <1>7, <2>2
  <2>4. Answering(contents[i])
    BY <2>3 DEF Answering
  <2>5. i > 1 /\ Calling(contents[i - 1])
    BY <2>4 DEF Orderly
  <2>6. PICK m \in 1..n : m = i - 1
    BY <1>1, <2>5
  <2>7. m < n /\ m + 1 = i
    BY <1>1, <2>6
  <2>8. CallsLast(contents[m]) /\ Answers(contents[m], contents[i])
    <3>1. Calling(contents[m])
      BY <2>5, <2>6
    <3>2. CallsLast(contents[m]) /\ Answers(contents[m], contents[m + 1])
      BY <2>7, <3>1 DEF Orderly
    <3>3. QED
      BY <2>7, <3>2
  <2>9. PICK p \in 1..Len(contents[m]) :
          contents[m][p].type = "tool_call" /\ contents[m][p].id = contents[i][q].id
    BY <2>8 DEF Answers
  <2> DEFINE a == off[m - 1] + p
  <2>10. /\ m + 1 \in 1..n /\ contents[m + 1] = contents[i] /\ q \in 1..Len(contents[m + 1])
         /\ contents[m + 1][q].id = contents[m][p].id /\ Answers(contents[m], contents[m + 1])
         /\ k = off[m] + q
    BY <2>2, <2>6, <2>7, <2>8, <2>9
  <2>11. a \in 1..Len(flat) /\ a < k /\ flat[a] = contents[m][p] /\ Adjoins(flat, a, k)
    BY <1>3, <2>8, <2>9, <2>10, ExchangeAdjoins, SMTT(60) DEF flat
  <2> HIDE DEF a
  <2>12. QED
    BY <1>4, <2>9, <2>11
<1>8. QED
  BY <1>6, <1>7 DEF ExchangesAreWhole, flat

(* A text before it all changes nothing of that. *)
LEMMA WholeAfter ==
  ASSUME NEW S, NEW parts \in Seq(S), NEW first \in S, first.type = "text",
         ExchangesAreWhole(parts)
  PROVE  ExchangesAreWhole(<<first>> \o parts)
<1> DEFINE n == Len(parts)
           one == <<first>>
           all == one \o parts
<1>1. one \in Seq(S) /\ Len(one) = 1 /\ one[1] = first /\ n \in Nat /\ DOMAIN parts = 1..n
  OBVIOUS
<1> HIDE DEF one
<1>2. /\ all \in Seq(S) /\ Len(all) = Len(one) + n
      /\ \A k \in 1..Len(one) : all[k] = one[k]
      /\ \A k \in 1..n : all[Len(one) + k] = parts[k]
  <2>1. one \in Seq(S) /\ parts \in Seq(S)
    BY <1>1
  <2>2. /\ one \o parts \in Seq(S) /\ Len(one \o parts) = Len(one) + Len(parts)
        /\ \A k \in 1..Len(one) : (one \o parts)[k] = one[k]
        /\ \A k \in 1..Len(parts) : (one \o parts)[Len(one) + k] = parts[k]
    BY <2>1, Concatenated
  <2> HIDE DEF all, n
  <2>3. QED
    BY <2>2 DEF all, n
<1> HIDE DEF all
<1>3. /\ DOMAIN all = 1..(n + 1) /\ all[1] = first
      /\ \A k \in 1..n : all[k + 1] = parts[k]
  <2>1. Len(all) = n + 1 /\ 1 \in 1..Len(one)
    BY <1>1, <1>2
  <2>2. \A k \in 1..n : Len(one) + k = k + 1
    BY <1>1
  <2>3. DOMAIN all = 1..Len(all)
    BY <1>2
  <2>4. QED
    BY <1>1, <1>2, <2>1, <2>2, <2>3
<1> HIDE DEF n
<1>4. ASSUME NEW a \in 1..n, NEW b \in 1..n, Adjoins(parts, a, b)
      PROVE  Adjoins(all, a + 1, b + 1)
  <2>1. all[a + 1].id = all[b + 1].id
    BY <1>3, <1>4 DEF Adjoins
  <2>2. ASSUME NEW k \in (a + 1)..(b + 1)
        PROVE  all[k].type \in {"tool_call", "tool_result"}
    <3>1. k - 1 \in a..b /\ k - 1 \in 1..n /\ (k - 1) + 1 = k
      BY <1>1
    <3>2. all[(k - 1) + 1] = parts[k - 1] /\ parts[k - 1].type \in {"tool_call", "tool_result"}
      BY <1>3, <1>4, <3>1 DEF Adjoins
    <3>3. QED
      BY <3>1, <3>2
  <2>3. QED
    BY <2>1, <2>2 DEF Adjoins
<1>5. ASSUME NEW k \in DOMAIN all, k # 1
      PROVE  k - 1 \in 1..n /\ (k - 1) + 1 = k /\ all[k] = parts[k - 1]
  <2>1. k - 1 \in 1..n /\ (k - 1) + 1 = k
    BY <1>1, <1>3, <1>5
  <2>2. all[(k - 1) + 1] = parts[k - 1]
    BY <1>3, <2>1
  <2>3. QED
    BY <2>1, <2>2
<1>6. ASSUME NEW k \in DOMAIN all, all[k].type = "tool_call"
      PROVE  \E j \in DOMAIN all : j > k /\ all[j].type = "tool_result" /\ Adjoins(all, k, j)
  <2>1. k # 1
    BY <1>3, <1>6
  <2>2. k - 1 \in 1..n /\ (k - 1) + 1 = k /\ all[k] = parts[k - 1]
    BY <1>5, <2>1
  <2>3. PICK j \in DOMAIN parts : j > k - 1 /\ parts[j].type = "tool_result" /\ Adjoins(parts, k - 1, j)
    BY <1>1, <1>6, <2>2 DEF ExchangesAreWhole
  <2>4. j \in 1..n
    BY <1>1, <2>3
  <2>5. Adjoins(all, k, j + 1)
    <3>1. Adjoins(all, (k - 1) + 1, j + 1)
      BY <1>4, <2>2, <2>3, <2>4
    <3>2. QED
      BY <2>2, <3>1
  <2>6. j + 1 \in DOMAIN all /\ j + 1 > k /\ all[j + 1].type = "tool_result"
    <3>1. j + 1 \in 1..(n + 1) /\ j + 1 > k
      BY <1>1, <1>3, <2>2, <2>3, <2>4
    <3>2. QED
      BY <1>3, <2>3, <2>4, <3>1
  <2>7. QED
    BY <2>5, <2>6
<1>7. ASSUME NEW k \in DOMAIN all, all[k].type = "tool_result"
      PROVE  \E j \in DOMAIN all : j < k /\ all[j].type = "tool_call" /\ Adjoins(all, j, k)
  <2>1. k # 1
    BY <1>3, <1>7
  <2>2. k - 1 \in 1..n /\ (k - 1) + 1 = k /\ all[k] = parts[k - 1]
    BY <1>5, <2>1
  <2>3. PICK j \in DOMAIN parts : j < k - 1 /\ parts[j].type = "tool_call" /\ Adjoins(parts, j, k - 1)
    BY <1>1, <1>7, <2>2 DEF ExchangesAreWhole
  <2>4. j \in 1..n
    BY <1>1, <2>3
  <2>5. Adjoins(all, j + 1, k)
    <3>1. Adjoins(all, j + 1, (k - 1) + 1)
      BY <1>4, <2>2, <2>3, <2>4
    <3>2. QED
      BY <2>2, <3>1
  <2>6. j + 1 \in DOMAIN all /\ j + 1 < k /\ all[j + 1].type = "tool_call"
    <3>1. j + 1 \in 1..(n + 1) /\ j + 1 < k
      BY <1>1, <1>3, <2>2, <2>3, <2>4
    <3>2. QED
      BY <1>3, <2>3, <2>4, <3>1
  <2>7. QED
    BY <2>5, <2>6
<1>8. QED
  BY <1>6, <1>7 DEF ExchangesAreWhole, all, one

(* One content more. *)
LEMMA OrderlyOn ==
  ASSUME NEW n \in Nat, NEW contents, Orderly(contents, n), NEW longer,
         \A m \in 1..n : longer[m] = contents[m],
         n > 0 /\ Calling(contents[n]) => Answers(contents[n], longer[n + 1]),
         Calling(longer[n + 1]) => CallsLast(longer[n + 1]),
         Answering(longer[n + 1]) => n > 0 /\ Calling(contents[n])
  PROVE  Orderly(longer, n + 1)
<1> SUFFICES ASSUME NEW m \in 1..(n + 1)
             PROVE  /\ Calling(longer[m]) =>
                         CallsLast(longer[m]) /\ (m < n + 1 => Answers(longer[m], longer[m + 1]))
                    /\ Answering(longer[m]) => m > 1 /\ Calling(longer[m - 1])
  BY DEF Orderly
<1>1. CASE m = n + 1
  <2>1. ~ (m < n + 1) /\ m - 1 = n /\ (n > 0 => n \in 1..n /\ m > 1)
    BY <1>1
  <2>2. QED
    BY <1>1, <2>1
<1>2. CASE m # n + 1
  <2>1. m \in 1..n /\ (m > 1 => m - 1 \in 1..n) /\ (m < n => m + 1 \in 1..n) /\ (m < n \/ m = n)
    BY <1>2
  <2>2. /\ Calling(contents[m]) =>
             CallsLast(contents[m]) /\ (m < n => Answers(contents[m], contents[m + 1]))
        /\ Answering(contents[m]) => m > 1 /\ Calling(contents[m - 1])
    BY <2>1 DEF Orderly
  <2>3. longer[m] = contents[m]
    BY <2>1
  <2>4. Answering(longer[m]) => m > 1 /\ Calling(longer[m - 1])
    BY <2>1, <2>2, <2>3
  <2>5. Calling(longer[m]) => Answers(longer[m], longer[m + 1])
    <3>1. CASE m < n
      BY <2>1, <2>2, <2>3, <3>1
    <3>2. CASE m = n
      BY <2>1, <2>3, <3>2
    <3>3. QED
      BY <2>1, <3>1, <3>2
  <2>6. QED
    BY <2>2, <2>3, <2>4, <2>5
<1>3. QED
  BY <1>1, <1>2

(* Contents with the same parts, perhaps in another order, but for the calls. *)
Resembles(content, other) ==
    /\ \A p \in 1..Len(content) : \E q \in 1..Len(other) :
         other[q].type = content[p].type /\ other[q].id = content[p].id
    /\ \A q \in 1..Len(other) : \E p \in 1..Len(content) :
         content[p].type = other[q].type /\ content[p].id = other[q].id
    /\ CallsLast(content) => CallsLast(other)

LEMMA ResemblesIs ==
  ASSUME NEW content, NEW other, Resembles(content, other)
  PROVE  /\ Calling(content) <=> Calling(other)
         /\ Answering(content) <=> Answering(other)
<1>1. ASSUME NEW p \in 1..Len(content)
      PROVE  \E q \in 1..Len(other) : other[q].type = content[p].type
  BY DEF Resembles
<1>2. ASSUME NEW q \in 1..Len(other)
      PROVE  \E p \in 1..Len(content) : content[p].type = other[q].type
  BY DEF Resembles
<1>3. \A type : (\E p \in 1..Len(content) : content[p].type = type)
                <=> (\E q \in 1..Len(other) : other[q].type = type)
  BY <1>1, <1>2, ZenonT(60)
<1>4. QED
  BY <1>3 DEF Calling, Answering

LEMMA ResemblesAnswers ==
  ASSUME NEW c, NEW d, Resembles(c, d), NEW e, NEW f, Resembles(e, f), Answers(c, e)
  PROVE  Answers(d, f)
<1>1. ASSUME NEW k \in 1..Len(d), d[k].type = "tool_call"
      PROVE  \E j \in 1..Len(f) : f[j].id = d[k].id
  <2>1. PICK p \in 1..Len(c) : c[p].type = d[k].type /\ c[p].id = d[k].id
    BY DEF Resembles
  <2>2. PICK i \in 1..Len(e) : e[i].id = c[p].id
    BY <1>1, <2>1 DEF Answers
  <2>3. PICK j \in 1..Len(f) : f[j].type = e[i].type /\ f[j].id = e[i].id
    BY DEF Resembles
  <2>4. QED
    BY <2>1, <2>2, <2>3
<1>2. ASSUME NEW j \in 1..Len(f)
      PROVE  /\ f[j].type = "tool_result"
             /\ \E k \in 1..Len(d) : d[k].type = "tool_call" /\ d[k].id = f[j].id
  <2>1. PICK i \in 1..Len(e) : e[i].type = f[j].type /\ e[i].id = f[j].id
    BY DEF Resembles
  <2>2. e[i].type = "tool_result"
        /\ \E p \in 1..Len(c) : c[p].type = "tool_call" /\ c[p].id = e[i].id
    BY DEF Answers
  <2>3. PICK p \in 1..Len(c) : c[p].type = "tool_call" /\ c[p].id = e[i].id
    BY <2>2
  <2>4. PICK k \in 1..Len(d) : d[k].type = c[p].type /\ d[k].id = c[p].id
    BY DEF Resembles
  <2>5. QED
    BY <2>1, <2>2, <2>3, <2>4
<1>3. QED
  BY <1>1, <1>2 DEF Answers

LEMMA OrderlyAlike ==
  ASSUME NEW n \in Nat, NEW contents, NEW others,
         \A m \in 1..n : Resembles(contents[m], others[m]),
         Orderly(contents, n), AllAnswered(contents, n)
  PROVE  Orderly(others, n) /\ AllAnswered(others, n)
<1>1. ASSUME NEW m \in 1..n
      PROVE  /\ Calling(others[m]) =>
                  CallsLast(others[m]) /\ (m < n => Answers(others[m], others[m + 1]))
             /\ Answering(others[m]) => m > 1 /\ Calling(others[m - 1])
  <2>1. (m > 1 => m - 1 \in 1..n) /\ (m < n => m + 1 \in 1..n)
    OBVIOUS
  <2>2. /\ Calling(contents[m]) =>
             CallsLast(contents[m]) /\ (m < n => Answers(contents[m], contents[m + 1]))
        /\ Answering(contents[m]) => m > 1 /\ Calling(contents[m - 1])
    BY DEF Orderly
  <2>3. /\ Calling(contents[m]) <=> Calling(others[m])
        /\ Answering(contents[m]) <=> Answering(others[m])
    BY ResemblesIs
  <2>4. m > 1 => (Calling(contents[m - 1]) <=> Calling(others[m - 1]))
    BY <2>1, ResemblesIs
  <2>5. CallsLast(contents[m]) => CallsLast(others[m])
    BY DEF Resembles
  <2>6. m < n /\ Answers(contents[m], contents[m + 1]) => Answers(others[m], others[m + 1])
    BY <2>1, ResemblesAnswers
  <2>7. QED
    BY <2>2, <2>3, <2>4, <2>5, <2>6
<1>2. AllAnswered(others, n)
  <2>1. n > 0 => n \in 1..n
    OBVIOUS
  <2>2. n > 0 => (Calling(contents[n]) <=> Calling(others[n]))
    BY <2>1, ResemblesIs
  <2>3. QED
    BY <2>2 DEF AllAnswered
<1>3. QED
  BY <1>1, <1>2 DEF Orderly

Contents(messages) == [k \in DOMAIN messages |-> messages[k].content]

LEMMA ContentsAre ==
  ASSUME NEW messages \in Seq(AnyMessage)
  PROVE  /\ Contents(messages) \in Seq(Seq(AnyPart)) /\ Len(Contents(messages)) = Len(messages)
         /\ \A k \in 1..Len(messages) : Contents(messages)[k] = messages[k].content
<1> DEFINE n == Len(messages)
           contents == Contents(messages)
<1>1. n \in Nat /\ DOMAIN messages = 1..n /\ \A k \in 1..n : messages[k] \in AnyMessage
  OBVIOUS
<1>2. /\ DOMAIN contents = 1..n /\ contents = [k \in DOMAIN contents |-> contents[k]]
      /\ \A k \in 1..n : contents[k] = messages[k].content
  BY <1>1 DEF Contents
<1> HIDE DEF contents
<1>3. \A k \in 1..n : contents[k] \in Seq(AnyPart)
  BY <1>1, <1>2, MessageIs
<1>4. contents \in Seq(Seq(AnyPart)) /\ Len(contents) = n
  BY <1>1, <1>2, <1>3, SequenceOf
<1>5. QED
  BY <1>2, <1>4 DEF contents

(* What is compressed is as orderly as it was. *)
LEMMA LeftResembles ==
  ASSUME NEW message, NEW other, MessageLeft(message, other)
  PROVE  Resembles(message.content, other.content)
<1> DEFINE c == message.content
           d == other.content
<1>1. Len(d) = Len(c) /\ \A p \in 1..Len(c) : d[p].type = c[p].type /\ d[p].id = c[p].id
  BY DEF MessageLeft, PartLeft
<1> HIDE DEF c, d
<1>2. CallsLast(c) => CallsLast(d)
  BY <1>1 DEF CallsLast
<1>3. QED
  BY <1>1, <1>2 DEF Resembles, c, d

-----------------------------------------------------------------------------
(* Chat. *)
ChatParts(message) ==
    Parts(message, "tool_result") \o (Parts(message, "text") \o Parts(message, "tool_call"))

OnlyOf(content, type) ==
    [k \in DOMAIN content |-> IF content[k].type = type THEN <<content[k]>> ELSE <<>>]

LEMMA PartsAre ==
  ASSUME NEW message \in AnyMessage, NEW type
  PROVE  LET content == message.content
             parts == Parts(message, type)
         IN  /\ parts \in Seq(AnyPart)
             /\ \A i \in 1..Len(parts) : parts[i].type = type
                  /\ \E p \in 1..Len(content) : content[p] = parts[i]
             /\ \A p \in 1..Len(content) : content[p].type = type =>
                  \E i \in 1..Len(parts) : parts[i] = content[p]
<1> DEFINE content == message.content
           n == Len(content)
           some == OnlyOf(content, type)
           parts == FlattenSeq(some)
<1>1. n \in Nat /\ DOMAIN content = 1..n /\ \A p \in 1..n : content[p] \in AnyPart
  BY MessageIs
<1>2. Parts(message, type) = parts
  BY DEF Parts, OnlyOf
<1>3. /\ DOMAIN some = 1..n /\ some = [k \in DOMAIN some |-> some[k]]
      /\ \A k \in 1..n : some[k] = IF content[k].type = type THEN <<content[k]>> ELSE <<>>
  BY <1>1 DEF OnlyOf
<1> HIDE DEF some, content
<1>4. ASSUME NEW k \in 1..n
      PROVE  /\ some[k] \in Seq(AnyPart)
             /\ content[k].type = type =>
                  some[k] = <<content[k]>> /\ 1 \in 1..Len(some[k]) /\ some[k][1] = content[k]
             /\ \A p \in 1..Len(some[k]) : content[k].type = type /\ some[k][p] = content[k]
  <2>1. PICK part \in AnyPart : part = content[k]
    BY <1>1
  <2>2. <<part>> \in Seq(AnyPart) /\ Len(<<part>>) = 1 /\ <<part>>[1] = part
    BY <2>1
  <2>3. CASE content[k].type = type
    <3>1. some[k] = <<part>>
      BY <1>3, <2>1, <2>3
    <3>2. 1 \in 1..1 /\ \A p \in 1..1 : p = 1
      OBVIOUS
    <3>3. QED
      BY <2>1, <2>2, <2>3, <3>1, <3>2
  <2>4. CASE content[k].type # type
    <3>1. some[k] = <<>>
      BY <1>3, <2>4
    <3>2. QED
      BY <2>4, <3>1
  <2>5. QED
    BY <2>3, <2>4
<1>5. some \in Seq(Seq(AnyPart)) /\ Len(some) = n
  BY <1>1, <1>3, <1>4, SequenceOf
<1>6. parts \in Seq(AnyPart)
  BY <1>5, FlattenPlaces
<1>7. PICK off : Laid(off, some, parts)
  BY <1>5, FlattenPlaces
<1> HIDE DEF parts
<1>8. ASSUME NEW i \in 1..Len(parts)
      PROVE  parts[i].type = type /\ \E p \in 1..n : content[p] = parts[i]
  <2>1. PICK k \in 1..n : \E p \in 1..Len(some[k]) : i = off[k - 1] + p
    BY <1>5, <1>7 DEF Laid
  <2>2. PICK p \in 1..Len(some[k]) : i = off[k - 1] + p
    BY <2>1
  <2>3. parts[i] = some[k][p]
    BY <1>5, <1>7, <2>2 DEF Laid
  <2>4. QED
    BY <1>4, <2>3
<1>9. ASSUME NEW p \in 1..n, content[p].type = type
      PROVE  \E i \in 1..Len(parts) : parts[i] = content[p]
  <2>1. 1 \in 1..Len(some[p]) /\ some[p][1] = content[p] /\ p \in 1..Len(some)
    BY <1>4, <1>5, <1>9
  <2>2. \A q \in 1..Len(some[p]) :
          \E j \in 1..Len(FlattenSeq(some)) : FlattenSeq(some)[j] = some[p][q]
    BY <1>5, <2>1, FlattenHas
  <2>3. \E j \in 1..Len(FlattenSeq(some)) : FlattenSeq(some)[j] = some[p][1]
    BY <2>1, <2>2, Zenon
  <2>4. QED
    BY <2>1, <2>3 DEF parts
<1>10. QED
  BY <1>2, <1>6, <1>8, <1>9 DEF content

LEMMA ChatResembles ==
  ASSUME NEW message \in AnyMessage
  PROVE  ChatParts(message) \in Seq(AnyPart) /\ Resembles(message.content, ChatParts(message))
<1> DEFINE c == message.content
           r == Parts(message, "tool_result")
           t == Parts(message, "text")
           o == Parts(message, "tool_call")
<1>1. /\ r \in Seq(AnyPart)
      /\ \A i \in 1..Len(r) : r[i].type = "tool_result" /\ \E p \in 1..Len(c) : c[p] = r[i]
      /\ \A p \in 1..Len(c) : c[p].type = "tool_result" => \E i \in 1..Len(r) : r[i] = c[p]
  BY PartsAre
<1>2. /\ t \in Seq(AnyPart)
      /\ \A i \in 1..Len(t) : t[i].type = "text" /\ \E p \in 1..Len(c) : c[p] = t[i]
      /\ \A p \in 1..Len(c) : c[p].type = "text" => \E i \in 1..Len(t) : t[i] = c[p]
  BY PartsAre
<1>3. /\ o \in Seq(AnyPart)
      /\ \A i \in 1..Len(o) : o[i].type = "tool_call" /\ \E p \in 1..Len(c) : c[p] = o[i]
      /\ \A p \in 1..Len(c) : c[p].type = "tool_call" => \E i \in 1..Len(o) : o[i] = c[p]
  BY PartsAre
<1>4. \A p \in 1..Len(c) : c[p].type \in {"text", "tool_call", "tool_result"}
  BY MessageIs, PartIs
<1> HIDE DEF r, t, o, c
<1> DEFINE s == t \o o
           d == r \o s
<1>5. /\ s \in Seq(AnyPart) /\ Len(s) = Len(t) + Len(o)
      /\ \A k \in 1..Len(t) : s[k] = t[k]
      /\ \A k \in 1..Len(o) : s[Len(t) + k] = o[k]
  BY <1>2, <1>3, Concatenated
<1> HIDE DEF s
<1>6. /\ d \in Seq(AnyPart) /\ Len(d) = Len(r) + Len(s)
      /\ \A k \in 1..Len(r) : d[k] = r[k]
      /\ \A k \in 1..Len(s) : d[Len(r) + k] = s[k]
  BY <1>1, <1>5, Concatenated
<1> HIDE DEF d
<1>7. PICK a \in Nat, b \in Nat, e \in Nat : a = Len(r) /\ b = Len(t) /\ e = Len(o)
  BY <1>1, <1>2, <1>3
<1>8. /\ Len(d) = a + b + e
      /\ \A k \in 1..a : d[k] = r[k]
      /\ \A k \in 1..b : d[a + k] = t[k]
      /\ \A k \in 1..e : d[a + b + k] = o[k]
  <2>1. Len(s) = b + e /\ Len(d) = a + (b + e)
    BY <1>5, <1>6, <1>7
  <2>2. \A k \in 1..b : d[a + k] = t[k]
    <3>1. \A k \in 1..b : k \in 1..(b + e)
      OBVIOUS
    <3>2. QED
      BY <1>5, <1>6, <1>7, <2>1, <3>1
  <2>3. ASSUME NEW k \in 1..e
        PROVE  d[a + b + k] = o[k]
    <3>1. b + k \in 1..(b + e) /\ a + (b + k) = a + b + k
      OBVIOUS
    <3>2. d[a + (b + k)] = s[b + k] /\ s[b + k] = o[k]
      BY <1>5, <1>6, <1>7, <2>1, <3>1
    <3>3. QED
      BY <3>1, <3>2
  <2>4. QED
    BY <1>6, <1>7, <2>1, <2>2, <2>3
<1>9. \A k \in 1..Len(d) : \/ k \in 1..a \/ (k - a \in 1..b /\ a + (k - a) = k)
                           \/ (k - (a + b) \in 1..e /\ a + b + (k - (a + b)) = k)
  BY <1>8
<1>10. ASSUME NEW p \in 1..Len(c)
       PROVE  \E q \in 1..Len(d) : d[q] = c[p]
  <2>1. CASE c[p].type = "tool_result"
    <3>1. PICK i \in 1..a : r[i] = c[p]
      BY <1>1, <1>7, <2>1
    <3>2. i \in 1..Len(d)
      BY <1>8
    <3>3. QED
      BY <1>8, <3>1, <3>2
  <2>2. CASE c[p].type = "text"
    <3>1. PICK i \in 1..b : t[i] = c[p]
      BY <1>2, <1>7, <2>2
    <3>2. a + i \in 1..Len(d)
      BY <1>8
    <3>3. QED
      BY <1>8, <3>1, <3>2
  <2>3. CASE c[p].type = "tool_call"
    <3>1. PICK i \in 1..e : o[i] = c[p]
      BY <1>3, <1>7, <2>3
    <3>2. a + b + i \in 1..Len(d)
      BY <1>8
    <3>3. QED
      BY <1>8, <3>1, <3>2
  <2>4. QED
    BY <1>4, <2>1, <2>2, <2>3
<1>11. ASSUME NEW k \in 1..Len(d)
       PROVE  \E p \in 1..Len(c) : c[p] = d[k]
  <2>1. CASE k \in 1..a
    BY <1>1, <1>7, <1>8, <2>1
  <2>2. CASE k - a \in 1..b /\ a + (k - a) = k
    <3>1. d[a + (k - a)] = t[k - a]
      BY <1>8, <2>2
    <3>2. QED
      BY <1>2, <1>7, <2>2, <3>1
  <2>3. CASE k - (a + b) \in 1..e /\ a + b + (k - (a + b)) = k
    <3>1. d[a + b + (k - (a + b))] = o[k - (a + b)]
      BY <1>8, <2>3
    <3>2. QED
      BY <1>3, <1>7, <2>3, <3>1, SMTT(60)
  <2>4. QED
    BY <1>9, <2>1, <2>2, <2>3
<1>12. CallsLast(d)
  <2> SUFFICES ASSUME NEW j \in 1..Len(d), NEW k \in 1..Len(d), j <= k, d[j].type = "tool_call"
               PROVE  d[k].type = "tool_call"
    BY DEF CallsLast
  <2>1. j \notin 1..a
    BY <1>1, <1>7, <1>8
  <2>2. j - a \notin 1..b
    <3> SUFFICES ASSUME j - a \in 1..b PROVE FALSE
      OBVIOUS
    <3>1. a + (j - a) = j /\ d[a + (j - a)] = t[j - a]
      BY <1>8
    <3>2. t[j - a].type = "text"
      BY <1>2, <1>7
    <3>3. QED
      BY <3>1, <3>2
  <2>3. k - (a + b) \in 1..e /\ a + b + (k - (a + b)) = k
    BY <1>9, <2>1, <2>2
  <2>4. d[a + b + (k - (a + b))] = o[k - (a + b)]
    BY <1>8, <2>3
  <2>5. QED
    BY <1>3, <1>7, <2>3, <2>4, SMTT(60)
<1>13. ChatParts(message) = d
  BY DEF ChatParts, d, s, r, t, o
<1>14. Resembles(c, d)
  BY <1>10, <1>11, <1>12 DEF Resembles
<1>15. QED
  BY <1>6, <1>13, <1>14 DEF c

(* What is on the wire, message by message. *)
AnyWire == [role : {"user", "assistant", "tool", "system"}, parts : Seq(AnyPart)]
PartsOf(wires) == [k \in DOMAIN wires |-> wires[k].parts]
AllParts(wires) == FlattenSeq(PartsOf(wires))

LEMMA WireIs ==
  ASSUME NEW role \in {"user", "assistant", "tool", "system"}, NEW parts \in Seq(AnyPart)
  PROVE  Wire(role, parts) \in AnyWire /\ Wire(role, parts).parts = parts
BY DEF Wire, AnyWire

LEMMA PartsOfAre ==
  ASSUME NEW wires \in Seq(AnyWire)
  PROVE  /\ PartsOf(wires) \in Seq(Seq(AnyPart)) /\ Len(PartsOf(wires)) = Len(wires)
         /\ \A k \in 1..Len(wires) : PartsOf(wires)[k] = wires[k].parts
         /\ AllParts(wires) \in Seq(AnyPart)
<1> DEFINE n == Len(wires)
           parts == PartsOf(wires)
<1>1. n \in Nat /\ DOMAIN wires = 1..n /\ \A k \in 1..n : wires[k] \in AnyWire
  OBVIOUS
<1>2. /\ DOMAIN parts = 1..n /\ parts = [k \in DOMAIN parts |-> parts[k]]
      /\ \A k \in 1..n : parts[k] = wires[k].parts
  BY <1>1 DEF PartsOf
<1> HIDE DEF parts
<1>3. \A k \in 1..n : parts[k] \in Seq(AnyPart)
  BY <1>1, <1>2 DEF AnyWire
<1>4. parts \in Seq(Seq(AnyPart)) /\ Len(parts) = n
  BY <1>1, <1>2, <1>3, SequenceOf
<1>5. FlattenSeq(parts) \in Seq(AnyPart)
  BY <1>4, FlattenPlaces
<1>6. QED
  BY <1>2, <1>4, <1>5 DEF parts, AllParts

LEMMA AllJoined ==
  ASSUME NEW a \in Seq(AnyWire), NEW b \in Seq(AnyWire)
  PROVE  a \o b \in Seq(AnyWire) /\ AllParts(a \o b) = AllParts(a) \o AllParts(b)
<1> DEFINE n == Len(a)
           m == Len(b)
           both == a \o b
           pa == PartsOf(a)
           pb == PartsOf(b)
           p == PartsOf(both)
           Y == Seq(AnyPart)
<1>1. n \in Nat /\ m \in Nat
  OBVIOUS
<1>2. /\ a \o b \in Seq(AnyWire) /\ Len(a \o b) = Len(a) + Len(b)
      /\ \A k \in 1..Len(a) : (a \o b)[k] = a[k]
      /\ \A k \in 1..Len(b) : (a \o b)[Len(a) + k] = b[k]
  BY Concatenated
<1> HIDE DEF n, m, both
<1>3. /\ both \in Seq(AnyWire) /\ Len(both) = n + m
      /\ \A k \in 1..n : both[k] = a[k]
      /\ \A k \in 1..m : both[n + k] = b[k]
  BY <1>2 DEF n, m, both
<1>4. /\ pa \in Seq(Y) /\ Len(pa) = n /\ \A k \in 1..n : pa[k] = a[k].parts
      /\ pb \in Seq(Y) /\ Len(pb) = m /\ \A k \in 1..m : pb[k] = b[k].parts
      /\ p \in Seq(Y) /\ Len(p) = n + m /\ \A k \in 1..(n + m) : p[k] = both[k].parts
  BY <1>3, PartsOfAre DEF n, m
<1> HIDE DEF pa, pb, p, Y
<1> DEFINE w == pa \o pb
<1>5. /\ w \in Seq(Y) /\ Len(w) = n + m
      /\ \A k \in 1..n : w[k] = pa[k]
      /\ \A k \in 1..m : w[n + k] = pb[k]
  <2>1. /\ pa \o pb \in Seq(Y) /\ Len(pa \o pb) = Len(pa) + Len(pb)
        /\ \A k \in 1..Len(pa) : (pa \o pb)[k] = pa[k]
        /\ \A k \in 1..Len(pb) : (pa \o pb)[Len(pa) + k] = pb[k]
    BY <1>4, Concatenated, SMTT(60)
  <2> HIDE DEF w
  <2>2. QED
    BY <1>4, <2>1 DEF w
<1> HIDE DEF w
<1>6. \A k \in 1..(n + m) : p[k] = w[k]
  <2> SUFFICES ASSUME NEW k \in 1..(n + m) PROVE p[k] = w[k]
    OBVIOUS
  <2>1. CASE k \in 1..n
    <3>1. p[k] = both[k].parts /\ both[k] = a[k]
      BY <1>3, <1>4, <2>1
    <3>2. w[k] = pa[k] /\ pa[k] = a[k].parts
      BY <1>4, <1>5, <2>1
    <3>3. QED
      BY <3>1, <3>2
  <2>2. CASE k \notin 1..n
    <3>1. k - n \in 1..m /\ n + (k - n) = k
      BY <1>1, <2>2 DEF n, m
    <3>2. both[n + (k - n)] = b[k - n] /\ w[n + (k - n)] = pb[k - n]
      BY <1>3, <1>5, <3>1
    <3>3. QED
      BY <1>4, <3>1, <3>2, ZenonT(60)
  <2>3. QED
    BY <2>1, <2>2
<1>7. p = w
  BY <1>4, <1>5, <1>6, SeqEqual
<1>8. FlattenSeq(p) = FlattenSeq(pa) \o FlattenSeq(pb)
  <2>1. pa \in Seq(Seq(AnyPart)) /\ pb \in Seq(Seq(AnyPart))
    BY <1>4 DEF Y
  <2>2. FlattenSeq(pa \o pb) = FlattenSeq(pa) \o FlattenSeq(pb)
    BY <2>1, FlattenJoined
  <2>3. QED
    BY <1>7, <2>2 DEF w
<1>9. QED
  BY <1>3, <1>8 DEF AllParts, pa, pb, p, both

LEMMA AllOfNone == AllParts(<<>>) = <<>>
<1>1. PartsOf(<<>>) = <<>>
  BY DEF PartsOf
<1>2. QED
  BY <1>1, FlattenNone DEF AllParts

LEMMA AllOfOne ==
  ASSUME NEW wire \in AnyWire
  PROVE  <<wire>> \in Seq(AnyWire) /\ AllParts(<<wire>>) = wire.parts
<1> DEFINE one == <<wire>>
<1>1. one \in Seq(AnyWire) /\ Len(one) = 1 /\ one[1] = wire /\ 1 \in 1..1
  OBVIOUS
<1> HIDE DEF one
<1>2. /\ PartsOf(one) \in Seq(Seq(AnyPart)) /\ Len(PartsOf(one)) = 1
      /\ PartsOf(one)[1] = wire.parts
  BY <1>1, PartsOfAre
<1>3. PICK p : p = PartsOf(one)
  OBVIOUS
<1>4. p = <<p[1]>> /\ p[1] \in Seq(AnyPart)
  <2> DEFINE Y == Seq(AnyPart)
  <2>1. p \in Seq(Y) /\ Len(p) = 1
    BY <1>2, <1>3
  <2> HIDE DEF Y
  <2>2. p = <<p[1]>> /\ p[1] \in Y
    BY <2>1
  <2>3. QED
    BY <2>2 DEF Y
<1>5. FlattenSeq(p) = p[1]
  BY <1>4, FlattenOne
<1>6. QED
  BY <1>1, <1>2, <1>3, <1>5 DEF AllParts, one

(* What all of them carry is what each carries, one after the other.        *)
LEMMA AllFlattened ==
  ASSUME NEW groups \in Seq(Seq(AnyWire)), NEW carried \in Seq(Seq(AnyPart)),
         Len(carried) = Len(groups),
         \A k \in 1..Len(groups) : AllParts(groups[k]) = carried[k]
  PROVE  /\ FlattenSeq(groups) \in Seq(AnyWire)
         /\ AllParts(FlattenSeq(groups)) = FlattenSeq(carried)
<1> DEFINE n == Len(groups)
<1>0. n \in Nat /\ Len(carried) = n
  OBVIOUS
<1>1. PICK f : Flattens(f, groups, AnyWire) /\ FlattenSeq(groups) = f[n]
  BY Flattening
<1>2. PICK g : Flattens(g, carried, AnyPart) /\ FlattenSeq(carried) = g[n]
  BY Flattening
<1>3. /\ f \in [0..n -> Seq(AnyWire)] /\ f[0] = <<>> /\ \A k \in 1..n : f[k] = f[k - 1] \o groups[k]
      /\ g[0] = <<>> /\ \A k \in 1..n : g[k] = g[k - 1] \o carried[k]
  BY <1>1, <1>2 DEF Flattens
<1>4. \A k \in 1..n : groups[k] \in Seq(AnyWire) /\ AllParts(groups[k]) = carried[k]
  OBVIOUS
<1> HIDE DEF n
<1> DEFINE T == {k \in 0..n : AllParts(f[k]) = g[k]}
<1>5. 0 \in T
  BY <1>0, <1>3, AllOfNone
<1>6. ASSUME NEW k \in 1..n, k - 1 \in T
      PROVE  k \in T
  <2>1. k - 1 \in 0..n /\ k \in 0..n /\ AllParts(f[k - 1]) = g[k - 1]
    BY <1>6
  <2>2. f[k - 1] \in Seq(AnyWire) /\ groups[k] \in Seq(AnyWire)
    BY <1>3, <1>4, <2>1
  <2>3. AllParts(f[k - 1] \o groups[k]) = AllParts(f[k - 1]) \o AllParts(groups[k])
    BY <2>2, AllJoined
  <2>4. AllParts(f[k]) = g[k]
    BY <1>3, <1>4, <2>1, <2>3
  <2>5. QED
    BY <2>1, <2>4
<1>7. n \in 0..n /\ n \in T
  <2>1. n \in 0..n
    BY <1>0
  <2> HIDE DEF T
  <2>2. QED
    BY <1>0, <1>5, <1>6, <2>1, Climbs
<1>8. QED
  BY <1>1, <1>2, <1>3, <1>7

LEMMA ToChatIs ==
  ASSUME NEW message \in AnyMessage
  PROVE  ToChat(message) \in Seq(AnyWire) /\ AllParts(ToChat(message)) = ChatParts(message)
<1> DEFINE text == Parts(message, "text")
           calls == Parts(message, "tool_call")
           results == Parts(message, "tool_result")
           tools == [k \in DOMAIN results |-> Wire("tool", <<results[k]>>)]
           rest == IF calls # <<>> THEN <<Wire("assistant", text \o calls)>>
                   ELSE IF text # <<>> \/ results = <<>> THEN <<Wire(message.role, text)>>
                   ELSE <<>>
<1>1. text \in Seq(AnyPart) /\ calls \in Seq(AnyPart) /\ results \in Seq(AnyPart)
  BY PartsAre
<1>2. ToChat(message) = tools \o rest
  BY DEF ToChat
<1>3. ChatParts(message) = results \o (text \o calls)
  BY DEF ChatParts
<1>4. message.role \in {"user", "assistant"}
  BY MessageIs
<1> HIDE DEF text, calls, results
<1>5. tools \in Seq(AnyWire) /\ AllParts(tools) = results
  <2>1. /\ Len(results) \in Nat /\ DOMAIN results = 1..Len(results)
        /\ \A k \in 1..Len(results) : results[k] \in AnyPart
    BY <1>1
  <2>2. /\ DOMAIN tools = 1..Len(results) /\ tools = [k \in DOMAIN tools |-> tools[k]]
        /\ \A k \in 1..Len(results) : tools[k] = Wire("tool", <<results[k]>>)
    BY <2>1
  <2> HIDE DEF tools
  <2>3. \A k \in 1..Len(results) : tools[k] \in AnyWire /\ tools[k].parts = <<results[k]>>
    <3> SUFFICES ASSUME NEW k \in 1..Len(results)
                 PROVE  tools[k] \in AnyWire /\ tools[k].parts = <<results[k]>>
      OBVIOUS
    <3>1. <<results[k]>> \in Seq(AnyPart)
      BY <2>1
    <3>2. QED
      BY <2>2, <3>1, WireIs
  <2>4. tools \in Seq(AnyWire) /\ Len(tools) = Len(results)
    BY <2>1, <2>2, <2>3, SequenceOf
  <2>5. PartsOf(tools) = Ones(results)
    BY <2>1, <2>2, <2>3 DEF PartsOf, Ones
  <2>6. FlattenSeq(Ones(results)) = results
    BY <1>1, FlattenOnes
  <2>7. QED
    BY <2>4, <2>5, <2>6 DEF AllParts
<1> DEFINE both == text \o calls
<1>6. rest \in Seq(AnyWire) /\ AllParts(rest) = both
  <2>1. both \in Seq(AnyPart)
    BY <1>1, ConcatProperties
  <2>2. text \o <<>> = text
    BY <1>1, ConcatEmptySeq
  <2>3. CASE calls # <<>>
    <3>1. rest = <<Wire("assistant", both)>>
      BY <2>3
    <3> HIDE DEF rest, both
    <3>2. Wire("assistant", both) \in AnyWire /\ Wire("assistant", both).parts = both
      BY <2>1, WireIs
    <3> DEFINE w == Wire("assistant", both)
    <3> HIDE DEF w
    <3>3. <<w>> \in Seq(AnyWire) /\ AllParts(<<w>>) = w.parts
      BY <3>2, AllOfOne DEF w
    <3>4. QED
      BY <3>1, <3>2, <3>3 DEF w
  <2>4. CASE calls = <<>> /\ (text # <<>> \/ results = <<>>)
    <3>1. rest = <<Wire(message.role, text)>> /\ both = text
      BY <2>2, <2>4
    <3> HIDE DEF rest, both
    <3>2. Wire(message.role, text) \in AnyWire /\ Wire(message.role, text).parts = text
      BY <1>1, <1>4, WireIs
    <3> DEFINE w == Wire(message.role, text)
    <3> HIDE DEF w
    <3>3. <<w>> \in Seq(AnyWire) /\ AllParts(<<w>>) = w.parts
      BY <3>2, AllOfOne DEF w
    <3>4. QED
      BY <3>1, <3>2, <3>3 DEF w
  <2>5. CASE calls = <<>> /\ ~ (text # <<>> \/ results = <<>>)
    <3>1. rest = <<>> /\ both = <<>>
      BY <2>2, <2>5
    <3> HIDE DEF rest, both
    <3>2. <<>> \in Seq(AnyWire)
      OBVIOUS
    <3>3. QED
      BY <3>1, <3>2, AllOfNone
  <2>6. QED
    BY <2>3, <2>4, <2>5
<1> HIDE DEF tools, rest, both
<1>7. tools \o rest \in Seq(AnyWire) /\ AllParts(tools \o rest) = AllParts(tools) \o AllParts(rest)
  BY <1>5, <1>6, AllJoined
<1>8. QED
  BY <1>2, <1>3, <1>5, <1>6, <1>7 DEF both

LEMMA ChatIsWhole ==
  ASSUME NEW request \in AnyRequest
  PROVE  /\ ToChatMessages(request) \in Seq(AnyWire)
         /\ Orderly(Contents(request.messages), Len(request.messages))
            /\ AllAnswered(Contents(request.messages), Len(request.messages))
            => ExchangesAreWhole(AllParts(ToChatMessages(request)))
<1> DEFINE messages == request.messages
           n == Len(messages)
           chats == [k \in DOMAIN messages |-> ToChat(messages[k])]
           contents == [k \in DOMAIN messages |-> ChatParts(messages[k])]
           before == Contents(messages)
           system == IF request.system = <<>> THEN <<>>
                     ELSE <<Wire("system", <<TextPart(request.system)>>)>>
           body == FlattenSeq(chats)
           part == TextPart(request.system)
<1>1. /\ messages \in Seq(AnyMessage) /\ n \in Nat /\ DOMAIN messages = 1..n
      /\ \A k \in 1..n : messages[k] \in AnyMessage /\ request.system \in Text
  BY RequestIs
<1>2. /\ DOMAIN chats = 1..n /\ chats = [k \in DOMAIN chats |-> chats[k]]
      /\ \A k \in 1..n : chats[k] = ToChat(messages[k])
      /\ DOMAIN contents = 1..n /\ contents = [k \in DOMAIN contents |-> contents[k]]
      /\ \A k \in 1..n : contents[k] = ChatParts(messages[k])
  BY <1>1
<1>3. ToChatMessages(request) = system \o body
  BY DEF ToChatMessages
<1> HIDE DEF chats, contents
<1>4. \A k \in 1..n : /\ chats[k] \in Seq(AnyWire) /\ AllParts(chats[k]) = contents[k]
                      /\ contents[k] \in Seq(AnyPart)
                      /\ Resembles(messages[k].content, contents[k])
  BY <1>1, <1>2, ToChatIs, ChatResembles
<1>5. chats \in Seq(Seq(AnyWire)) /\ Len(chats) = n
  <2>1. /\ n \in Nat /\ DOMAIN chats = 1..n /\ chats = [k \in DOMAIN chats |-> chats[k]]
        /\ \A k \in 1..n : chats[k] \in Seq(AnyWire)
    BY <1>1, <1>2, <1>4, Zenon
  <2>2. QED
    BY <2>1, SequenceOf
<1>6. contents \in Seq(Seq(AnyPart)) /\ Len(contents) = n
  <2>1. /\ n \in Nat /\ DOMAIN contents = 1..n /\ contents = [k \in DOMAIN contents |-> contents[k]]
        /\ \A k \in 1..n : contents[k] \in Seq(AnyPart)
    BY <1>1, <1>2, <1>4, Zenon
  <2>2. QED
    BY <2>1, SequenceOf
<1>7. body \in Seq(AnyWire) /\ AllParts(body) = FlattenSeq(contents)
  <2>1. Len(contents) = Len(chats) /\ \A k \in 1..Len(chats) : AllParts(chats[k]) = contents[k]
    BY <1>4, <1>5, <1>6
  <2>2. QED
    BY <1>5, <1>6, <2>1, AllFlattened
<1>8. Orderly(before, n) /\ AllAnswered(before, n) => Orderly(contents, n) /\ AllAnswered(contents, n)
  <2>1. \A k \in 1..n : before[k] = messages[k].content
    BY <1>1, ContentsAre
  <2>2. \A k \in 1..n : Resembles(before[k], contents[k])
    BY <1>4, <2>1
  <2> HIDE DEF before
  <2>3. QED
    BY <1>1, <2>2, OrderlyAlike DEF before
<1>9. Orderly(before, n) /\ AllAnswered(before, n) => ExchangesAreWhole(FlattenSeq(contents))
  BY <1>6, <1>8, OrderlyIsWhole
<1> HIDE DEF body
<1>10. CASE request.system = <<>>
  <2>1. system = <<>>
    BY <1>10
  <2>2. <<>> \o body = body
    BY <1>7, ConcatEmptySeq
  <2> HIDE DEF system
  <2>3. QED
    BY <1>3, <1>7, <1>9, <2>1, <2>2
<1>11. CASE request.system # <<>>
  <2> DEFINE w == Wire("system", <<part>>)
  <2>1. system = <<w>>
    BY <1>11
  <2>2. part \in AnyPart /\ part.type = "text"
    <3>1. request.system \in Text
      BY RequestIs
    <3>2. QED
      BY <3>1 DEF TextPart, AnyPart
  <2> HIDE DEF part, system
  <2>3. <<part>> \in Seq(AnyPart)
    BY <2>2
  <2>4. w \in AnyWire /\ w.parts = <<part>>
    BY <2>3, WireIs
  <2> HIDE DEF w
  <2>5. <<w>> \in Seq(AnyWire) /\ AllParts(<<w>>) = <<part>>
    BY <2>4, AllOfOne
  <2>6. <<w>> \o body \in Seq(AnyWire) /\ AllParts(<<w>> \o body) = AllParts(<<w>>) \o AllParts(body)
    BY <1>7, <2>5, AllJoined
  <2>7. /\ AllParts(body) \in Seq(AnyPart)
        /\ Orderly(before, n) /\ AllAnswered(before, n) => ExchangesAreWhole(AllParts(body))
    BY <1>7, <1>9, PartsOfAre
  <2>8. Orderly(before, n) /\ AllAnswered(before, n) =>
          ExchangesAreWhole(<<part>> \o AllParts(body))
    BY <2>2, <2>7, WholeAfter, SMTT(60)
  <2>9. QED
    BY <1>3, <2>1, <2>5, <2>6, <2>8
<1>12. QED
  BY <1>10, <1>11

-----------------------------------------------------------------------------
(* A request that is prepared. *)
SentTrue(made) ==
    /\ made.wire.through <= Len(made.wire.messages)
    /\ ValuesAreExact(made.asked, made.compressed)
    /\ ErrorsAreKept(made.asked, made.compressed)

LEMMA ErrorsOfLeft ==
  ASSUME NEW asked \in AnyRequest, NEW compressed \in AnyRequest,
         MessagesLeft(asked.messages, compressed.messages)
  PROVE  ErrorsAreKept(asked, compressed)
<1> DEFINE n == Len(asked.messages)
<1>1. /\ DOMAIN asked.messages = 1..n /\ Len(compressed.messages) = n
      /\ \A m \in 1..n : asked.messages[m] \in AnyMessage /\ compressed.messages[m] \in AnyMessage
      /\ \A m \in 1..n : MessageLeft(asked.messages[m], compressed.messages[m])
  BY RequestIs DEF MessagesLeft
<1> SUFFICES ASSUME NEW m \in DOMAIN asked.messages, NEW p \in DOMAIN asked.messages[m].content
             PROVE  LET part == asked.messages[m].content[p]
                        left == compressed.messages[m].content[p]
                    IN  part.type = "tool_result" =>
                        \A k \in DOMAIN part.lines :
                          part.lines[k].kind = "error" \/ (part.error /\ part.lines[k].kind = "plain") =>
                            \E j \in DOMAIN left.lines : left.lines[j].says = part.lines[k].says
  BY Zenon DEF ErrorsAreKept
<1> DEFINE one == asked.messages[m]
           other == compressed.messages[m]
           part == one.content[p]
           left == other.content[p]
<1>2. one \in AnyMessage /\ other \in AnyMessage /\ MessageLeft(one, other)
  BY <1>1
<1> HIDE DEF one, other
<1>3. p \in 1..Len(one.content) /\ p \in 1..Len(other.content)
  <2>1. p \in DOMAIN one.content
    BY DEF one
  <2>2. QED
    BY <1>2, <2>1, MessageIs DEF MessageLeft
<1>4. part \in AnyPart /\ left \in AnyPart /\ PartLeft(part, left)
  BY <1>2, <1>3, MessageIs DEF MessageLeft
<1> HIDE DEF part, left
<1>5. part.lines \in Text /\ left.lines \in Text
  BY <1>4, PartIs
<1>6. DOMAIN part.lines = 1..Len(part.lines) /\ DOMAIN left.lines = 1..Len(left.lines)
  BY <1>5, TextIs
<1>7. ASSUME NEW k \in DOMAIN part.lines,
             part.lines[k].kind = "error" \/ (part.error /\ part.lines[k].kind = "plain")
      PROVE  \E j \in DOMAIN left.lines : left.lines[j].says = part.lines[k].says
  <2>1. Erring(part.error, part.lines[k]) /\ k \in 1..Len(part.lines)
    BY <1>6, <1>7 DEF Erring
  <2>2. PICK j \in 1..Len(left.lines) : Same(left.lines[j], part.lines[k])
    BY <1>4, <2>1 DEF PartLeft, SparesErrors
  <2>3. QED
    BY <1>6, <2>2 DEF Same
<1>8. QED
  BY <1>7 DEF part, left, one, other

LEMMA ValuesOfLeft ==
  ASSUME NEW asked \in AnyRequest, asked.stable \in Declarable, set.profile \in DOMAIN Profiles
  PROVE  ValuesAreExact(asked, Compress(set.profile, asked))
<1> DEFINE compressed == Compress(set.profile, asked)
           n == CachePrefixLength(asked)
           before == Rendered(Region(asked))
           after == Rendered(Region(compressed))
<1>1. /\ Becomes(Region(asked), Region(compressed))
      /\ set.profile # "aggressive" => Exact(Region(asked), Region(compressed))
      /\ n # Undeclared => compressed.system = asked.system
      /\ \A k \in 1..n : compressed.messages[k] = asked.messages[k]
  BY CompressIs
<1> HIDE DEF compressed
<1>2. Region(asked) \in AnyRequest /\ Region(compressed) \in AnyRequest
  BY <1>1, RegionIs DEF Becomes
<1>3. before \in Text /\ after \in Text
  BY <1>2, RenderedIs
<1>4. /\ Carries(after, before)
      /\ set.profile # "aggressive" => Carries(before, after)
  BY <1>1 DEF Becomes, Exact
<1> HIDE DEF before, after
<1>5. /\ IntroducesNoSensitive(before, after)
      /\ set.profile # "aggressive" => PreservesSensitive(before, after)
  BY <1>3, <1>4, GateIs
<1>6. asked.stable # Undeclared => n # Undeclared
  BY PrefixIs
<1>7. QED
  BY <1>1, <1>5, <1>6 DEF ValuesAreExact, before, after, compressed

LEMMA SentIsWhole ==
  ASSUME NEW provider \in {"anthropic", "openai"}, NEW request \in AnyRequest, NEW tools,
         request.stable \in Declarable
  PROVE  LET wire == Sent(provider, request, tools)
         IN  /\ wire.through <= Len(wire.messages)
             /\ Orderly(Contents(request.messages), Len(request.messages))
                /\ AllAnswered(Contents(request.messages), Len(request.messages))
                => ExchangesAreWhole(SentParts(wire))
<1> DEFINE messages == request.messages
           n == Len(messages)
           wire == Sent(provider, request, tools)
           contents == Contents(messages)
<1>1. messages \in Seq(AnyMessage) /\ n \in Nat /\ DOMAIN messages = 1..n
  BY RequestIs
<1>2. CASE provider = "anthropic"
  <2> DEFINE wires == [k \in DOMAIN messages |-> ToAnthropicMessage(messages[k])]
             m == CachePrefixLength(request)
             through == IF m = Undeclared THEN 0 ELSE m
  <2>1. wire.messages = wires /\ wire.through = through
    BY <1>2 DEF Sent, ToCreateParams
  <2>2. SentParts(wire) = FlattenSeq([k \in DOMAIN wire.messages |-> wire.messages[k].parts])
    BY DEF SentParts
  <2> HIDE DEF wire
  <2>3. through <= n
    <3>1. m = Undeclared \/ m \in 0..n
      BY PrefixIs
    <3> HIDE DEF m, n
    <3>2. QED
      BY <1>1, <3>1
  <2>4. Len(wires) = n
    <3>1. DOMAIN wires = 1..n /\ wires = [k \in 1..n |-> wires[k]]
      BY <1>1
    <3> HIDE DEF wires
    <3>2. QED
      BY <1>1, <3>1, ListOf
  <2>5. [k \in DOMAIN wires |-> wires[k].parts] = contents
    <3>1. DOMAIN wires = DOMAIN messages /\ \A k \in DOMAIN messages : wires[k].parts = messages[k].content
      BY DEF ToAnthropicMessage, Wire
    <3> HIDE DEF wires
    <3>2. QED
      BY <3>1 DEF Contents
  <2> HIDE DEF wires, contents
  <2>6. SentParts(wire) = FlattenSeq(contents)
    BY <2>1, <2>2, <2>5
  <2>7. contents \in Seq(Seq(AnyPart)) /\ Len(contents) = n
    BY <1>1, ContentsAre DEF contents
  <2>8. Orderly(contents, n) /\ AllAnswered(contents, n) => ExchangesAreWhole(FlattenSeq(contents))
    BY <2>7, OrderlyIsWhole
  <2> HIDE DEF through, n
  <2>9. QED
    BY <2>1, <2>3, <2>4, <2>6, <2>8 DEF contents, n, wire
<1>3. CASE provider = "openai"
  <2> DEFINE chat == ToChatMessages(request)
  <2>1. wire.messages = chat /\ wire.through = 0
    BY <1>3 DEF Sent
  <2>2. SentParts(wire) = AllParts(wire.messages)
    BY DEF SentParts, AllParts, PartsOf
  <2> HIDE DEF wire
  <2>3. Orderly(contents, n) /\ AllAnswered(contents, n) => ExchangesAreWhole(AllParts(chat))
    BY ChatIsWhole
  <2>4. chat \in Seq(AnyWire)
    BY ChatIsWhole
  <2>5. Len(chat) \in Nat
    BY <2>4, LenProperties
  <2> HIDE DEF chat
  <2>6. QED
    BY <2>1, <2>2, <2>3, <2>5 DEF wire
<1>4. QED
  BY <1>2, <1>3

LEMMA PreparedIsTrue ==
  ASSUME NEW messages \in Seq(AnyMessage), NEW stable \in Declarable,
         set.profile \in Profile, set.system \in System, set.provider \in {"anthropic", "openai"}
  PROVE  /\ SentTrue(Prepared(messages, stable))
         /\ Orderly(Contents(messages), Len(messages))
            /\ AllAnswered(Contents(messages), Len(messages))
            => ExchangesAreWhole(SentParts(Prepared(messages, stable).wire))
<1> DEFINE asked == Request(messages, stable)
           compressed == Compress(set.profile, asked)
           made == Prepared(messages, stable)
           n == Len(messages)
<1>1. /\ made.asked = asked /\ made.compressed = compressed
      /\ made.wire = Sent(set.provider, compressed, set.tools)
  BY DEF Prepared
<1>2. set.profile \in DOMAIN Profiles /\ set.system \in Text
  BY ModelCallsAssumption
<1>3. asked.messages = messages /\ asked.stable = stable
  BY DEF Request
<1>4. asked \in AnyRequest
  <2>1. stable \in Int
    BY DEF Declarable, Undeclared
  <2>2. QED
    BY <1>2, <2>1 DEF Request, AnyRequest
<1> HIDE DEF asked, made
<1>5. compressed \in AnyRequest /\ MessagesLeft(messages, compressed.messages)
      /\ CachePrefixLength(compressed) = CachePrefixLength(asked)
      /\ compressed.stable = asked.stable
  BY <1>2, <1>3, <1>4, CompressIs
<1>6. ValuesAreExact(asked, compressed)
  BY <1>2, <1>3, <1>4, ValuesOfLeft
<1> HIDE DEF compressed
<1>7. ErrorsAreKept(asked, compressed)
  BY <1>3, <1>4, <1>5, ErrorsOfLeft
<1>8. /\ made.wire.through <= Len(made.wire.messages)
      /\ Orderly(Contents(compressed.messages), Len(compressed.messages))
         /\ AllAnswered(Contents(compressed.messages), Len(compressed.messages))
         => ExchangesAreWhole(SentParts(made.wire))
  BY <1>1, <1>3, <1>5, SentIsWhole
<1>9. ASSUME Orderly(Contents(messages), n), AllAnswered(Contents(messages), n)
      PROVE  Orderly(Contents(compressed.messages), n) /\ AllAnswered(Contents(compressed.messages), n)
  <2> DEFINE before == Contents(messages)
             after == Contents(compressed.messages)
  <2>1. n \in Nat /\ Len(compressed.messages) = n /\ compressed.messages \in Seq(AnyMessage)
    BY <1>5, RequestIs DEF MessagesLeft
  <2>2. \A k \in 1..n : before[k] = messages[k].content /\ after[k] = compressed.messages[k].content
    BY <2>1, ContentsAre
  <2>3. \A k \in 1..n : Resembles(before[k], after[k])
    BY <1>5, <2>2, LeftResembles DEF MessagesLeft
  <2> HIDE DEF before, after
  <2>4. QED
    BY <1>9, <2>1, <2>3, OrderlyAlike DEF before, after
<1>10. Len(compressed.messages) = n
  BY <1>5 DEF MessagesLeft
<1>11. SentTrue(made)
  BY <1>1, <1>6, <1>7, <1>8 DEF SentTrue
<1>12. QED
  BY <1>8, <1>9, <1>10, <1>11 DEF made

-----------------------------------------------------------------------------
(* The conversation: every call in it has its answer in the next message,   *)
(* unless an answer was cut short, or its tools are about to run.           *)
SetShape ==
    /\ set.profile \in Profile /\ set.system \in System
    /\ set.provider \in {"anthropic", "openai"}

HistoryInv ==
    /\ history \in Seq(AnyMessage) /\ cut \in BOOLEAN
    /\ history # <<>> => history[1].content # <<>>
    /\ phase \in {"calling", "tools"} => history # <<>>
    /\ ~cut => /\ Orderly(Contents(history), Len(history))
               /\ phase # "tools" => AllAnswered(Contents(history), Len(history))

ConversationInv ==
    /\ mode \in Mode /\ SetShape
    /\ phase \in {"idle", "routed", "calling", "tools"}
    /\ failure.kind \in {"none", "credential", "provider", "request"}
    /\ HistoryInv
    /\ SentTrue(sent) /\ (~cut => ExchangesAreWhole(SentParts(sent.wire)))

LEMMA SaysSo == ConversationInv => RequestsStayTrue
<1> SUFFICES ASSUME ConversationInv PROVE RequestsStayTrue
  OBVIOUS
<1>1. \A k \in DOMAIN history :
        /\ history[k].role \in {"user", "assistant"}
        /\ \A p \in DOMAIN history[k].content :
            history[k].content[p].type \in {"text", "tool_call", "tool_result"}
  <2>1. history \in Seq(AnyMessage)
    BY DEF ConversationInv, HistoryInv
  <2>2. \A k \in DOMAIN history : history[k] \in AnyMessage
    BY <2>1
  <2>3. QED
    BY <2>2, MessageIs, PartIs
<1>2. TypeOK
  BY <1>1 DEF TypeOK, ConversationInv, SetShape, HistoryInv, SentTrue
<1>3. QED
  BY <1>2 DEF RequestsStayTrue, ConversationInv, SentTrue

(* Before anything is sent. *)
LEMMA NothingIsTrue ==
  ASSUME set.profile \in DOMAIN Profiles
  PROVE  SentTrue(NothingSent) /\ ExchangesAreWhole(SentParts(NothingSent.wire))
<1> DEFINE empty == [system |-> <<>>, messages |-> <<>>, stable |-> Undeclared]
<1>1. /\ NothingSent.asked = empty /\ NothingSent.compressed = empty
      /\ NothingSent.wire.messages = <<>> /\ NothingSent.wire.through = 0
  BY DEF NothingSent
<1>2. empty \in AnyRequest /\ empty.messages = <<>> /\ empty.system = <<>>
      /\ empty.stable = Undeclared
  BY NoLines DEF AnyRequest, Undeclared
<1> HIDE DEF empty
<1>3. CachePrefixLength(empty) = Undeclared
  BY <1>2 DEF CachePrefixLength
<1>4. Region(empty) = empty
  BY <1>3 DEF Region
<1>5. Rendered(empty) \in Text /\ Carries(Rendered(empty), Rendered(empty))
  BY <1>2, RenderedIs, CarriesItself
<1>6. IntroducesNoSensitive(Rendered(empty), Rendered(empty))
      /\ PreservesSensitive(Rendered(empty), Rendered(empty))
  BY <1>5, GateIs
<1>7. ValuesAreExact(empty, empty)
  BY <1>4, <1>6 DEF ValuesAreExact
<1>8. ErrorsAreKept(empty, empty)
  BY <1>2, LeftItself, ErrorsOfLeft
<1>9. SentParts(NothingSent.wire) = <<>>
  <2>1. SentParts(NothingSent.wire)
          = FlattenSeq([k \in DOMAIN NothingSent.wire.messages |-> NothingSent.wire.messages[k].parts])
    BY DEF SentParts
  <2>2. PICK none : none = NothingSent.wire.messages
    OBVIOUS
  <2>3. [k \in DOMAIN none |-> none[k].parts] = <<>>
    BY <1>1, <2>2
  <2>4. QED
    BY <2>1, <2>2, <2>3, FlattenNone
<1>10. ExchangesAreWhole(<<>>)
  BY DEF ExchangesAreWhole
<1>11. Len(NothingSent.wire.messages) = 0
  BY <1>1
<1>12. QED
  BY <1>1, <1>7, <1>8, <1>9, <1>10, <1>11 DEF SentTrue

LEMMA ConversationInit ==
  ASSUME Init
  PROVE  ConversationInv
<1>1. mode \in Mode /\ phase = "idle" /\ history = <<>> /\ sent = NothingSent /\ cut = FALSE
      /\ failure = NoFailure
  BY DEF Init
<1>2. SetShape
  BY DEF Init, SetShape
<1>3. set.profile \in DOMAIN Profiles
  BY <1>2, ModelCallsAssumption DEF SetShape
<1>4. SentTrue(sent) /\ ExchangesAreWhole(SentParts(sent.wire))
  BY <1>1, <1>3, NothingIsTrue
<1>5. HistoryInv
  <2>1. <<>> \in Seq(AnyMessage) /\ Len(<<>>) = 0
    OBVIOUS
  <2>2. \A contents : Orderly(contents, 0) /\ AllAnswered(contents, 0)
    BY DEF Orderly, AllAnswered
  <2>3. QED
    BY <1>1, <2>1, <2>2 DEF HistoryInv
<1>6. failure.kind = "none"
  BY <1>1 DEF NoFailure
<1>7. QED
  BY <1>1, <1>2, <1>4, <1>5, <1>6 DEF ConversationInv

-----------------------------------------------------------------------------
(* A message more. *)
LEMMA HistoryGrown ==
  ASSUME NEW h \in Seq(AnyMessage), NEW message \in AnyMessage
  PROVE  /\ Append(h, message) \in Seq(AnyMessage) /\ Len(Append(h, message)) = Len(h) + 1
         /\ Append(h, message) # <<>>
         /\ \A k \in 1..Len(h) : Contents(Append(h, message))[k] = Contents(h)[k]
         /\ Contents(Append(h, message))[Len(h) + 1] = message.content
         /\ (h # <<>> => h[1].content # <<>>) /\ (h = <<>> => message.content # <<>>)
              => Append(h, message)[1].content # <<>>
<1> DEFINE n == Len(h)
           longer == Append(h, message)
<1>1. /\ longer \in Seq(AnyMessage) /\ Len(longer) = n + 1 /\ n \in Nat
      /\ \A k \in 1..n : longer[k] = h[k]
      /\ longer[n + 1] = message
      /\ h # <<>> => n >= 1
      /\ h = <<>> => n = 0
  OBVIOUS
<1> HIDE DEF longer
<1>2. /\ \A k \in 1..n : Contents(h)[k] = h[k].content
      /\ \A k \in 1..Len(longer) : Contents(longer)[k] = longer[k].content
  BY <1>1, ContentsAre
<1> HIDE DEF n
<1>3. \A k \in 1..n : k \in 1..(n + 1)
  BY <1>1
<1>4. n + 1 \in 1..(n + 1) /\ (n >= 1 => 1 \in 1..n)
  BY <1>1
<1>5. longer # <<>>
  BY <1>1
<1>6. QED
  BY <1>1, <1>2, <1>3, <1>4, <1>5 DEF n, longer

LEMMA HistoryStep ==
  ASSUME HistoryInv, NEW message \in AnyMessage, history' = Append(history, message),
         cut' \in BOOLEAN, ~cut' => ~cut,
         history = <<>> => message.content # <<>>,
         LET content == message.content
             last == history[Len(history)].content
         IN  ~cut' =>
                /\ history # <<>> /\ Calling(last) => Answers(last, content)
                /\ Calling(content) => CallsLast(content)
                /\ Answering(content) => history # <<>> /\ Calling(last)
                /\ phase' # "tools" => ~ Calling(content)
  PROVE  HistoryInv'
<1> DEFINE n == Len(history)
           content == message.content
           last == history[n].content
           before == Contents(history)
           after == Contents(history')
<1>1. history \in Seq(AnyMessage) /\ n \in Nat
  BY DEF HistoryInv
<1>2. /\ history' \in Seq(AnyMessage) /\ Len(history') = n + 1 /\ history' # <<>>
      /\ \A k \in 1..n : after[k] = before[k]
      /\ after[n + 1] = content
      /\ history'[1].content # <<>>
  BY <1>1, HistoryGrown DEF HistoryInv
<1>3. (history # <<>> <=> n > 0) /\ (n > 0 => before[n] = last)
  <2>1. history # <<>> <=> n > 0
    BY <1>1
  <2>2. n > 0 => n \in 1..n
    BY <1>1
  <2>3. QED
    BY <1>1, <2>1, <2>2, ContentsAre
<1> HIDE DEF n, before, after, last, content
<1>4. ASSUME ~cut'
      PROVE  Orderly(after, n + 1) /\ (phase' # "tools" => AllAnswered(after, n + 1))
  <2>1. Orderly(before, n)
    BY <1>4 DEF HistoryInv, before, n
  <2>2. /\ n > 0 /\ Calling(before[n]) => Answers(before[n], after[n + 1])
        /\ Calling(after[n + 1]) => CallsLast(after[n + 1])
        /\ Answering(after[n + 1]) => n > 0 /\ Calling(before[n])
        /\ phase' # "tools" => ~ Calling(after[n + 1])
    BY <1>2, <1>3, <1>4 DEF last, content, n
  <2>3. Orderly(after, n + 1)
    BY <1>1, <1>2, <2>1, <2>2, OrderlyOn
  <2>4. QED
    BY <2>2, <2>3 DEF AllAnswered
<1>5. QED
  BY <1>2, <1>4 DEF HistoryInv, after

(* A step that leaves the conversation. *)
LEMMA HistoryStays ==
  ASSUME HistoryInv, UNCHANGED <<history, cut>>,
         phase' \in {"calling", "tools"} => phase \in {"calling", "tools"},
         phase = "tools" => phase' = "tools"
  PROVE  HistoryInv'
BY DEF HistoryInv

(* What a provider answers, as it is kept. *)
AnswerBlocks == {<<"text">>, <<"text", "call">>, <<"call", "call">>, <<"garbled">>,
              <<"thinking", "text">>}

LEMMA NoWords == <<>> \in Seq(Word)
OBVIOUS

LEMMA SomeParts ==
  ASSUME NEW lines \in Text, NEW id \in {"", "one", "two"}
  PROVE  /\ TextPart(lines) \in AnyPart /\ TextPart(lines).type = "text"
         /\ CallPart(id, <<>>) \in AnyPart /\ CallPart(id, <<>>).type = "tool_call"
         /\ CallPart(id, <<Line("plain", "unparsed", <<>>, "none")>>) \in AnyPart
         /\ CallPart(id, <<Line("plain", "unparsed", <<>>, "none")>>).type = "tool_call"
         /\ \A error \in BOOLEAN : /\ ResultPart(id, lines, error) \in AnyPart
                                   /\ ResultPart(id, lines, error).type = "tool_result"
                                   /\ ResultPart(id, lines, error).id = id
<1> DEFINE line == Line("plain", "unparsed", <<>>, "none")
<1>1. line \in TextLine
  <2>1. "unparsed" \in Word
    BY CompressionAssumption
  <2>3. QED
    BY <2>1, NoWords DEF Line, TextLine, Kind, Noise
<1> HIDE DEF line
<1>2. <<line>> \in Text /\ <<>> \in Text
  BY <1>1, NoLines, OneLine
<1>3. /\ CallPart(id, <<line>>) \in AnyPart /\ CallPart(id, <<line>>).type = "tool_call"
  BY <1>2 DEF CallPart, AnyPart
<1>4. /\ TextPart(lines) \in AnyPart /\ TextPart(lines).type = "text"
      /\ CallPart(id, <<>>) \in AnyPart /\ CallPart(id, <<>>).type = "tool_call"
  BY <1>2 DEF CallPart, TextPart, AnyPart
<1>5. ASSUME NEW error \in BOOLEAN
      PROVE  /\ ResultPart(id, lines, error) \in AnyPart
             /\ ResultPart(id, lines, error).type = "tool_result"
             /\ ResultPart(id, lines, error).id = id
  BY DEF ResultPart, AnyPart
<1>6. QED
  BY <1>3, <1>4, <1>5 DEF line

LEMMA OneAndOne ==
  ASSUME NEW S, NEW a \in S, NEW b \in S
  PROVE  <<a>> \o <<b>> = <<a, b>>
<1> DEFINE x == <<a>>
           y == <<b>>
           z == <<a, b>>
<1>1. /\ x \in Seq(S) /\ Len(x) = 1 /\ x[1] = a /\ y \in Seq(S) /\ Len(y) = 1 /\ y[1] = b
      /\ z \in Seq(S) /\ Len(z) = 2 /\ z[1] = a /\ z[2] = b
  OBVIOUS
<1> HIDE DEF x, y, z
<1>2. /\ x \o y \in Seq(S) /\ Len(x \o y) = Len(x) + Len(y)
      /\ \A k \in 1..Len(x) : (x \o y)[k] = x[k]
      /\ \A k \in 1..Len(y) : (x \o y)[Len(x) + k] = y[k]
  <2>1. x \in Seq(S) /\ y \in Seq(S)
    BY <1>1
  <2>2. QED
    BY <2>1, Concatenated
<1> DEFINE w == x \o y
<1> HIDE DEF w
<1>3. w \in Seq(S) /\ Len(w) = 2 /\ w[1] = a /\ w[1 + 1] = b
  <2>1. 1 \in 1..1 /\ 1 + 1 = 2
    OBVIOUS
  <2>2. QED
    BY <1>1, <1>2, <2>1 DEF w
<1>4. \A k \in 1..2 : w[k] = z[k]
  <2>1. \A k \in 1..2 : k = 1 \/ k = 2
    OBVIOUS
  <2>2. QED
    BY <1>1, <1>3, <2>1
<1>5. w = z
  BY <1>1, <1>3, <1>4, SeqEqual
<1>6. QED
  BY <1>5 DEF w, x, y, z

LEMMA FlattenTwo ==
  ASSUME NEW S, NEW a \in Seq(S), NEW b \in Seq(S)
  PROVE  FlattenSeq(<<a, b>>) = a \o b
<1>1. <<a>> \in Seq(Seq(S)) /\ <<b>> \in Seq(Seq(S))
  OBVIOUS
<1>2. <<a, b>> = <<a>> \o <<b>>
  BY OneAndOne
<1>3. FlattenSeq(<<a>> \o <<b>>) = FlattenSeq(<<a>>) \o FlattenSeq(<<b>>)
  BY <1>1, FlattenJoined
<1>4. FlattenSeq(<<a>>) = a /\ FlattenSeq(<<b>>) = b
  BY FlattenOne
<1>5. QED
  BY <1>2, <1>3, <1>4

(* A text, calls, or a text and then calls. *)
AnswerParts(parts) ==
    /\ parts \in Seq(AnyPart) /\ CallsLast(parts)
    /\ \A k \in 1..Len(parts) : parts[k].type \in {"text", "tool_call"}

LEMMA AnswerIs ==
  ASSUME NEW lines \in Text, NEW blocks \in AnswerBlocks
  PROVE  AnswerParts(ToResponseParts(blocks, lines))
<1> DEFINE Of(k) == ToResponsePart(blocks[k], IF k = 1 THEN "one" ELSE "two", lines)
           t == TextPart(lines)
           c == CallPart("one", <<>>)
           d == CallPart("two", <<>>)
           g == CallPart("one", <<Line("plain", "unparsed", <<>>, "none")>>)
<1>1. /\ t \in AnyPart /\ t.type = "text" /\ c \in AnyPart /\ c.type = "tool_call"
      /\ d \in AnyPart /\ d.type = "tool_call" /\ g \in AnyPart /\ g.type = "tool_call"
  BY SomeParts
<1>2. \A id : /\ ToResponsePart("text", id, lines) = <<t>>
              /\ ToResponsePart("call", id, lines) = <<CallPart(id, <<>>)>>
              /\ ToResponsePart("garbled", id, lines)
                   = <<CallPart(id, <<Line("plain", "unparsed", <<>>, "none")>>)>>
              /\ ToResponsePart("thinking", id, lines) = <<>>
  BY DEF ToResponsePart
<1>3. ToResponseParts(blocks, lines) = FlattenSeq([k \in DOMAIN blocks |-> Of(k)])
  BY DEF ToResponseParts
<1> HIDE DEF t, c, d, g
<1>4. ASSUME NEW p \in AnyPart, p.type \in {"text", "tool_call"}
      PROVE  AnswerParts(<<p>>)
  <2>1. <<p>> \in Seq(AnyPart) /\ Len(<<p>>) = 1 /\ <<p>>[1] = p /\ \A k \in 1..1 : k = 1
    OBVIOUS
  <2> DEFINE s == <<p>>
  <2> HIDE DEF s
  <2>2. AnswerParts(s)
    BY <1>4, <2>1 DEF AnswerParts, CallsLast, s
  <2>3. QED
    BY <2>2 DEF s
<1>5. ASSUME NEW p \in AnyPart, p.type \in {"text", "tool_call"}, NEW q \in AnyPart, q.type = "tool_call"
      PROVE  AnswerParts(<<p, q>>)
  <2>1. /\ <<p, q>> \in Seq(AnyPart) /\ Len(<<p, q>>) = 2 /\ <<p, q>>[1] = p /\ <<p, q>>[2] = q
        /\ \A k \in 1..2 : k = 1 \/ k = 2
    OBVIOUS
  <2> DEFINE s == <<p, q>>
  <2> HIDE DEF s
  <2>2. AnswerParts(s)
    BY <1>5, <2>1 DEF AnswerParts, CallsLast, s
  <2>3. QED
    BY <2>2 DEF s
<1>6. ASSUME NEW p
      PROVE  /\ blocks = <<p>> =>
                  [k \in DOMAIN blocks |-> Of(k)] = <<ToResponsePart(p, "one", lines)>>
             /\ \A q : blocks = <<p, q>> =>
                  [k \in DOMAIN blocks |-> Of(k)]
                    = <<ToResponsePart(p, "one", lines), ToResponsePart(q, "two", lines)>>
  <2>1. CASE blocks = <<p>>
    <3>1. Of(1) = ToResponsePart(p, "one", lines)
      BY <2>1
    <3>2. DOMAIN blocks = 1..1 /\ \A q : blocks # <<p, q>>
      BY <2>1
    <3> HIDE DEF Of
    <3>3. QED
      BY <3>1, <3>2
  <2>2. ASSUME NEW q, blocks = <<p, q>>
        PROVE  [k \in DOMAIN blocks |-> Of(k)]
                  = <<ToResponsePart(p, "one", lines), ToResponsePart(q, "two", lines)>>
    <3>1. Of(1) = ToResponsePart(p, "one", lines) /\ Of(2) = ToResponsePart(q, "two", lines)
      BY <2>2
    <3>2. DOMAIN blocks = 1..2
      BY <2>2
    <3> HIDE DEF Of
    <3>3. QED
      BY <3>1, <3>2
  <2>3. QED
    BY <2>1, <2>2
<1> HIDE DEF Of
<1>7. CASE blocks = <<"text">>
  <2>1. ToResponseParts(blocks, lines) = FlattenSeq(<<<<t>>>>)
    BY <1>2, <1>3, <1>6, <1>7
  <2>2. <<t>> \in Seq(AnyPart)
    BY <1>1
  <2>3. ToResponseParts(blocks, lines) = <<t>>
    BY <2>1, <2>2, FlattenOne
  <2>4. QED
    BY <1>1, <1>4, <2>3
<1>8. CASE blocks = <<"garbled">>
  <2>1. ToResponseParts(blocks, lines) = FlattenSeq(<<<<g>>>>)
    BY <1>2, <1>3, <1>6, <1>8 DEF g
  <2>2. <<g>> \in Seq(AnyPart)
    BY <1>1
  <2>3. ToResponseParts(blocks, lines) = <<g>>
    BY <2>1, <2>2, FlattenOne
  <2>4. QED
    BY <1>1, <1>4, <2>3
<1>9. CASE blocks = <<"text", "call">>
  <2>1. ToResponseParts(blocks, lines) = FlattenSeq(<<<<t>>, <<d>>>>)
    BY <1>2, <1>3, <1>6, <1>9 DEF d
  <2>2. <<t>> \in Seq(AnyPart) /\ <<d>> \in Seq(AnyPart) /\ <<t>> \o <<d>> = <<t, d>>
    BY <1>1, OneAndOne
  <2>3. ToResponseParts(blocks, lines) = <<t, d>>
    BY <2>1, <2>2, FlattenTwo
  <2>4. QED
    BY <1>1, <1>5, <2>3
<1>10. CASE blocks = <<"call", "call">>
  <2>1. ToResponseParts(blocks, lines) = FlattenSeq(<<<<c>>, <<d>>>>)
    BY <1>2, <1>3, <1>6, <1>10 DEF c, d
  <2>2. <<c>> \in Seq(AnyPart) /\ <<d>> \in Seq(AnyPart) /\ <<c>> \o <<d>> = <<c, d>>
    BY <1>1, OneAndOne
  <2>3. ToResponseParts(blocks, lines) = <<c, d>>
    BY <2>1, <2>2, FlattenTwo
  <2>4. QED
    BY <1>1, <1>5, <2>3
<1>11. CASE blocks = <<"thinking", "text">>
  <2>1. ToResponseParts(blocks, lines) = FlattenSeq(<<<<>>, <<t>>>>)
    BY <1>2, <1>3, <1>6, <1>11
  <2>2. <<>> \in Seq(AnyPart) /\ <<t>> \in Seq(AnyPart) /\ <<>> \o <<t>> = <<t>>
    BY <1>1
  <2>3. ToResponseParts(blocks, lines) = <<t>>
    BY <2>1, <2>2, FlattenTwo
  <2>4. QED
    BY <1>1, <1>4, <2>3
<1>12. QED
  BY <1>7, <1>8, <1>9, <1>10, <1>11 DEF AnswerBlocks

LEMMA SayStep ==
  ASSUME ConversationInv, NEW text \in Asks, Say(text)
  PROVE  HistoryInv'
<1> DEFINE part == TextPart(text)
           content == <<part>>
           message == Message("user", content)
<1>1. /\ phase = "routed" /\ history' = Append(history, message) /\ phase' = "calling"
      /\ UNCHANGED cut
  BY DEF Say
<1>2. part \in AnyPart /\ part.type = "text"
  BY ModelCallsAssumption, SomeParts
<1> HIDE DEF part
<1>3. content \in Seq(AnyPart) /\ Len(content) = 1 /\ content[1] = part /\ content # <<>>
      /\ \A k \in 1..1 : k = 1
  BY <1>2
<1> HIDE DEF content
<1>4. message \in AnyMessage /\ message.content = content
  BY <1>3 DEF Message, AnyMessage
<1> HIDE DEF message
<1>5. ~ Calling(content) /\ ~ Answering(content)
  BY <1>2, <1>3 DEF Calling, Answering
<1>6. HistoryInv /\ cut' \in BOOLEAN /\ (~cut' => ~cut)
  BY <1>1 DEF ConversationInv, HistoryInv
<1>7. ~cut /\ history # <<>> => ~ Calling(history[Len(history)].content)
  <2>1. history \in Seq(AnyMessage)
    BY <1>6 DEF HistoryInv
  <2>2. history # <<>> => Len(history) > 0 /\ Len(history) \in 1..Len(history)
    BY <2>1
  <2>3. ~cut => AllAnswered(Contents(history), Len(history))
    BY <1>1, <1>6 DEF HistoryInv
  <2>4. QED
    BY <2>1, <2>2, <2>3, ContentsAre DEF AllAnswered
<1>8. QED
  BY <1>1, <1>3, <1>4, <1>5, <1>6, <1>7, HistoryStep

LEMMA AnswerStep ==
  ASSUME ConversationInv, phase = "calling", NEW blocks \in AnswerBlocks,
         Answer(blocks, history[1].content[1].lines),
         NEW finish, Goes(Calls(Last(history')), finish)
  PROVE  HistoryInv' /\ phase' \in {"tools", "idle"} /\ (~cut' => ~cut)
<1> DEFINE lines == history[1].content[1].lines
           content == ToResponseParts(blocks, lines)
           message == Message("assistant", content)
           calls == Parts(message, "tool_call")
<1>1. HistoryInv /\ history \in Seq(AnyMessage) /\ history # <<>> /\ cut \in BOOLEAN
  BY DEF ConversationInv, HistoryInv
<1>2. lines \in Text
  <2>1. history[1] \in AnyMessage /\ history[1].content # <<>>
    BY <1>1 DEF HistoryInv
  <2>2. PICK first : first = history[1].content
    OBVIOUS
  <2>3. first \in Seq(AnyPart) /\ first # <<>>
    BY <2>1, <2>2, MessageIs
  <2>4. first[1] \in AnyPart
    BY <2>3
  <2>5. QED
    BY <2>2, <2>4, PartIs
<1>3. AnswerParts(content)
  BY <1>2, AnswerIs
<1>4. history' = Append(history, message)
  BY DEF Answer
<1> HIDE DEF lines, content
<1>5. message \in AnyMessage /\ message.content = content
  BY <1>3 DEF AnswerParts, AnyMessage, Message
<1> HIDE DEF message
<1>6. Last(history') = message
  <2>1. Append(history, message)[Len(Append(history, message))] = message
    BY <1>1, <1>5
  <2>2. QED
    BY <1>4, <2>1 DEF Last
<1>7. /\ phase' \in {"tools", "idle"}
      /\ cut' = (cut \/ (calls # <<>> /\ phase' = "idle"))
  BY <1>6 DEF Goes, Calls
<1>8. cut' \in BOOLEAN /\ (~cut' => ~cut)
  BY <1>1, <1>7
<1>9. ~cut' /\ phase' # "tools" => ~ Calling(content)
  <2>1. calls = <<>> => ~ Calling(content)
    <3>1. \A p \in 1..Len(content) : content[p].type = "tool_call" =>
             \E i \in 1..Len(calls) : calls[i] = content[p]
      BY <1>5, PartsAre
    <3> HIDE DEF calls
    <3>2. calls = <<>> => Len(calls) = 0
      OBVIOUS
    <3>3. 1..0 = {}
      OBVIOUS
    <3>4. QED
      BY <3>1, <3>2, <3>3 DEF Calling
  <2> HIDE DEF calls
  <2>2. QED
    BY <1>7, <2>1
<1>10. CallsLast(content) /\ ~ Answering(content)
  BY <1>3 DEF AnswerParts, Answering
<1>11. ~cut => ~ Calling(history[Len(history)].content)
  <2>1. Len(history) > 0 /\ Len(history) \in 1..Len(history)
    BY <1>1
  <2>2. ~cut => AllAnswered(Contents(history), Len(history))
    BY <1>1 DEF HistoryInv
  <2>3. QED
    BY <1>1, <2>1, <2>2, ContentsAre DEF AllAnswered
<1>12. HistoryInv'
  BY <1>1, <1>4, <1>5, <1>8, <1>9, <1>10, <1>11, HistoryStep
<1>13. QED
  BY <1>7, <1>8, <1>12

LEMMA ToolsStep ==
  ASSUME ConversationInv, RunTools
  PROVE  HistoryInv'
<1> DEFINE last == Last(history)
           calls == Parts(last, "tool_call")
<1>1. PICK output \in Outputs : history' = Append(history, Message("user",
        [k \in DOMAIN calls |-> ResultPart(calls[k].id, output.lines, output.error)]))
  BY DEF RunTools, Calls
<1> DEFINE content == [k \in DOMAIN calls |-> ResultPart(calls[k].id, output.lines, output.error)]
           message == Message("user", content)
<1>2. HistoryInv /\ history \in Seq(AnyMessage) /\ history # <<>> /\ cut \in BOOLEAN
      /\ phase = "tools" /\ phase' = "calling" /\ UNCHANGED cut
  BY DEF ConversationInv, HistoryInv, RunTools
<1>3. last \in AnyMessage /\ last = history[Len(history)]
  <2>1. history[Len(history)] \in AnyMessage
    BY <1>2
  <2>2. QED
    BY <2>1 DEF Last
<1>4. output.lines \in Text /\ output.error \in BOOLEAN
  BY ModelCallsAssumption
<1> HIDE DEF last
<1>5. /\ calls \in Seq(AnyPart)
      /\ \A i \in 1..Len(calls) : calls[i].type = "tool_call"
           /\ \E p \in 1..Len(last.content) : last.content[p] = calls[i]
      /\ \A p \in 1..Len(last.content) : last.content[p].type = "tool_call" =>
           \E i \in 1..Len(calls) : calls[i] = last.content[p]
  BY <1>3, PartsAre
<1> HIDE DEF calls
<1>6. /\ Len(calls) \in Nat /\ DOMAIN calls = 1..Len(calls)
      /\ \A i \in 1..Len(calls) : calls[i] \in AnyPart
  BY <1>5
<1>7. /\ DOMAIN content = 1..Len(calls) /\ content = [k \in DOMAIN content |-> content[k]]
      /\ \A k \in 1..Len(calls) :
           content[k] = ResultPart(calls[k].id, output.lines, output.error)
  BY <1>6
<1> HIDE DEF content
<1>8. \A k \in 1..Len(calls) :
        content[k] \in AnyPart /\ content[k].type = "tool_result" /\ content[k].id = calls[k].id
  <2>1. ASSUME NEW k \in 1..Len(calls)
        PROVE  /\ content[k] \in AnyPart /\ content[k].type = "tool_result"
               /\ content[k].id = calls[k].id
    <3>1. calls[k].id \in {"", "one", "two"}
      BY <1>6, <2>1, PartIs
    <3>2. PICK id \in {"", "one", "two"} : id = calls[k].id
      BY <3>1
    <3>3. /\ ResultPart(id, output.lines, output.error) \in AnyPart
          /\ ResultPart(id, output.lines, output.error).type = "tool_result"
          /\ ResultPart(id, output.lines, output.error).id = id
      BY <1>4, SomeParts, ZenonT(60)
    <3>4. content[k] = ResultPart(id, output.lines, output.error)
      BY <1>7, <2>1, <3>2
    <3>5. QED
      BY <3>2, <3>3, <3>4
  <2>2. QED
    BY <2>1
<1>9. content \in Seq(AnyPart) /\ Len(content) = Len(calls)
  BY <1>6, <1>7, <1>8, SequenceOf
<1>10. message \in AnyMessage /\ message.content = content
  BY <1>9 DEF AnyMessage, Message
<1>11. history' = Append(history, message)
  BY <1>1 DEF content
<1> HIDE DEF message
<1>12. Answers(last.content, content)
  <2>1. ASSUME NEW k \in 1..Len(last.content), last.content[k].type = "tool_call"
        PROVE  \E j \in 1..Len(content) : content[j].id = last.content[k].id
    <3>1. PICK i \in 1..Len(calls) : calls[i] = last.content[k]
      BY <1>5, <2>1
    <3>2. QED
      BY <1>8, <1>9, <3>1
  <2>2. ASSUME NEW j \in 1..Len(content)
        PROVE  /\ content[j].type = "tool_result"
               /\ \E k \in 1..Len(last.content) :
                    last.content[k].type = "tool_call" /\ last.content[k].id = content[j].id
    <3>0. /\ j \in 1..Len(calls) /\ calls[j].type = "tool_call"
          /\ content[j].type = "tool_result" /\ content[j].id = calls[j].id
      BY <1>5, <1>8, <1>9, <2>2
    <3>1. PICK p \in 1..Len(last.content) : last.content[p] = calls[j]
      BY <1>5, <3>0
    <3>2. last.content[p].type = "tool_call" /\ last.content[p].id = content[j].id
      BY <3>0, <3>1
    <3>3. QED
      BY <3>0, <3>2
  <2>3. QED
    BY <2>1, <2>2 DEF Answers
<1>13. ~ Calling(content)
  BY <1>8, <1>9 DEF Calling
<1>14. Answering(content) => Calling(last.content)
  <2>1. ASSUME NEW j \in 1..Len(content)
        PROVE  Calling(last.content)
    <3>1. PICK p \in 1..Len(last.content) : last.content[p] = calls[j]
      BY <1>5, <1>9
    <3>2. QED
      BY <1>5, <1>9, <3>1 DEF Calling
  <2>2. QED
    BY <2>1 DEF Answering
<1>15. QED
  BY <1>2, <1>3, <1>10, <1>11, <1>12, <1>13, <1>14, HistoryStep

(* A call: it sends what was said so far, and keeps what comes back. *)
LEMMA CallStep ==
  ASSUME ConversationInv, Call
  PROVE  ConversationInv'
<1>1. /\ phase = "calling" /\ UNCHANGED <<mode, set>>
      /\ history \in Seq(AnyMessage) /\ SetShape /\ HistoryInv
  BY DEF Call, ConversationInv, HistoryInv
<1>2. PICK stable \in Declarable : sent' = Prepared(history, stable)
  BY <1>1, ListIn, CallSends
<1>3. /\ SentTrue(Prepared(history, stable))
      /\ Orderly(Contents(history), Len(history)) /\ AllAnswered(Contents(history), Len(history))
         => ExchangesAreWhole(SentParts(Prepared(history, stable).wire))
  BY <1>1, PreparedIsTrue DEF SetShape
<1>4. PICK made : made = sent'
  BY SMTT(60)
<1>5. SentTrue(made)'
  <2>1. SentTrue(made)
    BY <1>2, <1>3, <1>4
  <2>2. QED
    BY <1>1, <2>1 DEF SentTrue, ValuesAreExact, ErrorsAreKept
<1>6. ~cut => ExchangesAreWhole(SentParts(made.wire))
  BY <1>1, <1>2, <1>3, <1>4 DEF HistoryInv
<1>7. /\ HistoryInv' /\ (~cut' => ~cut)
      /\ phase' \in {"idle", "routed", "calling", "tools"}
      /\ failure'.kind \in {"none", "credential", "provider", "request"}
  <2>1. ASSUME NEW blocks \in AnswerBlocks, Answer(blocks, history[1].content[1].lines),
               NEW finish, Goes(Calls(Last(history')), finish)
        PROVE  /\ HistoryInv' /\ (~cut' => ~cut)
               /\ phase' \in {"idle", "routed", "calling", "tools"}
               /\ failure'.kind \in {"none", "credential", "provider", "request"}
    <3>1. HistoryInv' /\ phase' \in {"tools", "idle"} /\ (~cut' => ~cut)
      BY <1>1, <2>1, AnswerStep
    <3>2. failure'.kind = "none"
      BY <2>1 DEF Answer, NoFailure
    <3>3. QED
      BY <3>1, <3>2
  <2>2. ASSUME NEW cause \in Cause, Fail(cause), UNCHANGED cut, phase' \in {"calling", "idle"}
        PROVE  /\ HistoryInv' /\ (~cut' => ~cut)
               /\ phase' \in {"idle", "routed", "calling", "tools"}
               /\ failure'.kind \in {"none", "credential", "provider", "request"}
    <3>1. UNCHANGED history
      BY <2>2 DEF Fail
    <3>2. HistoryInv'
      BY <1>1, <2>2, <3>1, HistoryStays
    <3>3. failure'.kind = Failure(set.provider, cause).kind
      BY <2>2 DEF Fail
    <3>4. Failure(set.provider, cause).kind \in {"credential", "provider", "request"}
      BY DEF Failure, ToGatewayError, ToHttpError
    <3>5. QED
      BY <2>2, <3>2, <3>3, <3>4
  <2>3. \/ \E blocks \in AnswerBlocks : \E finish \in Finish :
             Answer(blocks, history[1].content[1].lines) /\ Goes(Calls(Last(history')), finish)
        \/ \E cause \in Cause : Fail(cause) /\ UNCHANGED cut /\ phase' \in {"calling", "idle"}
    BY Zenon DEF Call, AnswerBlocks
  <2>4. QED
    BY <2>1, <2>2, <2>3
<1>8. SetShape' /\ (mode \in Mode)'
  BY <1>1 DEF ConversationInv, SetShape
<1>9. QED
  BY <1>4, <1>5, <1>6, <1>7, <1>8 DEF ConversationInv

LEMMA SentStays ==
  ASSUME ConversationInv, UNCHANGED <<mode, set, sent, cut, failure>>, HistoryInv',
         phase' \in {"idle", "routed", "calling", "tools"}
  PROVE  ConversationInv'
<1>1. PICK made : made = sent'
  BY SMTT(60)
<1>2. SentTrue(made)'
  <2>1. SentTrue(made) /\ set' = set
    BY <1>1 DEF ConversationInv
  <2>2. QED
    BY <2>1 DEF SentTrue, ValuesAreExact, ErrorsAreKept
<1>3. SetShape' /\ (mode \in Mode)' /\ (failure.kind \in {"none", "credential", "provider", "request"})'
  BY DEF ConversationInv, SetShape
<1>4. (~cut => ExchangesAreWhole(SentParts(sent.wire)))'
  BY DEF ConversationInv
<1>5. QED
  BY <1>1, <1>2, <1>3, <1>4 DEF ConversationInv

LEMMA ConversationStep ==
  ASSUME ConversationInv, [Next]_vars
  PROVE  ConversationInv'
<1>1. CASE Call
  BY <1>1, CallStep
<1>2. CASE RunTools
  <2>1. UNCHANGED <<mode, set, sent, cut, failure>> /\ phase' = "calling"
    BY <1>2 DEF RunTools
  <2>2. QED
    BY <1>2, <2>1, ToolsStep, SentStays
<1>3. ASSUME NEW text \in Asks, Say(text)
      PROVE  ConversationInv'
  <2>1. UNCHANGED <<mode, set, sent, cut, failure>> /\ phase' = "calling"
    BY <1>3 DEF Say
  <2>2. QED
    BY <1>3, <2>1, SayStep, SentStays
<1>4. CASE Route
  <2>1. UNCHANGED <<mode, set, sent, cut, failure, history>> /\ phase = "idle"
        /\ phase' \in {"idle", "routed"}
    BY <1>4 DEF Route
  <2>2. HistoryInv'
    BY <2>1, HistoryStays DEF ConversationInv
  <2>3. QED
    BY <2>1, <2>2, SentStays
<1>5. CASE UNCHANGED <<mode, set, sent, cut, failure, history, phase>>
  <2>1. HistoryInv'
    BY <1>5, HistoryStays DEF ConversationInv
  <2>2. phase' \in {"idle", "routed", "calling", "tools"}
    BY <1>5 DEF ConversationInv
  <2>3. QED
    BY <1>5, <2>1, <2>2, SentStays
<1>6. CASE Deploy \/ (\E case \in Case : Evaluate(case)) \/ UNCHANGED vars
  <2>1. UNCHANGED <<mode, set, sent, cut, failure, history, phase>>
    BY <1>6 DEF Deploy, Evaluate, vars, conversation
  <2>2. QED
    BY <1>5, <2>1
<1>7. QED
  BY <1>1, <1>2, <1>3, <1>4, <1>6 DEF Next

(* Whatever was said, answered and failed, and whatever the engines made of  *)
(* it: what a provider is sent is the conversation, every call with its      *)
(* answers, and every value that must be exact as it was.                    *)
THEOREM RequestsTrue == Spec => []RequestsStayTrue
<1>1. Init => ConversationInv
  BY ConversationInit
<1>2. ConversationInv /\ [Next]_vars => ConversationInv'
  BY ConversationStep
<1>3. ConversationInv => RequestsStayTrue
  BY SaysSo
<1>4. QED
  BY <1>1, <1>2, <1>3, PTL DEF Spec

=============================================================================
