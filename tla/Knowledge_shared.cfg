SPECIFICATION KnowledgeFairSpec
CONSTANTS
    Slug = {"notes"}
    Body = {"short", "again", "long", "blank"}
    Text <- SomeText
    Fact <- SomeFact
    Topic <- SomeTopic
    External = {"r1", "r2"}
    ChunkSize = 10
    ChunkOverlap = 3
    BatchSize = 2
    Caller = {"agent", "console"}
    Tasks <- SomeTasks
    Granted = {"notes"}
    Remembers = "notes"
    Listing <- SomeListing
    WithContent = {"r2"}
    Others <- SomeOthers
    SearchLimit = 2
    Platform = FALSE
    Quota <- SomeQuota
    Says <- SomeSays
    Worth = {1}
    Opening <- SomeOpening
    MaxTroubles = 1
CHECK_DEADLOCK FALSE
INVARIANT CorpusIsWhole
PROPERTY AnswersAreTrue
PROPERTY CallsEnd
