SPECIFICATION ConnectorsFairSpec
CONSTANTS
    c1 = c1
    c2 = c2
    Caller = {c1, c2}
    Source = {"memory", "notion", "drive", "confluence", "slack", "teams", "calendar",
              "calcom", "calendly", "jira", "issue", "discussion", "project", "code"}
    Asks <- SomeAsks
    Targets <- SomeTargets
    Patches <- SomePatches
    NameOf <- Names
    KindOf <- SomeKinds
    Order <- SomeOrder
    BlockPages = 2
    MaxTroubles = 1
CHECK_DEADLOCK FALSE
INVARIANT AnswersAreTrue
PROPERTY OnlyNamedFieldsChange
PROPERTY CallsEnd
