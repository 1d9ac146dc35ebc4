SPECIFICATION Spec
CONSTANTS
    Word <- Words
    MaxBlank = 1
    MinRows = 2
    HeadLines = 1
    TailLines = 1
    Startups <- SomeStartups
    Deployments <- AllStartups
    AgentId = {"notes", "reader", "scribe"}
    Order <- FileOrder
    WorkflowId = {"weekly"}
    Tenant = {"t1", "t2"}
    Connection = {"d1", "d2", "e1"}
    ConnectorOf <- Sources
    OwnerOf <- Owners
    Prefix <- ToolPrefix
    ModelFiles <- SomeModelFiles
    PersonaFiles <- SomePersonaFiles
    ConnectorFiles <- SomeConnectorFiles
    AgentFiles <- SomeAgentFiles
    WorkflowFiles <- SomeWorkflowFiles
    Forms <- SomeForms
    Key = {"k"}
    MaxEdits = 2
    Asks <- SomeAsks
    Outputs <- SomeOutputs
    System <- SomeSystems
    Profile = {"none", "medium", "aggressive"}
    Case <- SomeCases
    MaxMessages = 4
    MaxCases = 2
    MaxFailures = 1
CHECK_DEADLOCK FALSE
INVARIANT RequestsStayTrue
 
INVARIANT Sound
PROPERTY PrefixNeverMoves
PROPERTY OnlyWhatWasGranted
