\* Three providers that learn of each other while a request is on its way.
CONSTANTS
    Node <- MCNode
    Name = {"a", "b"}
    Endpoints <- MCEndpoints
    Manifests <- MCManifests
    MaxTTL = 2
    MaxLost = 1
SPECIFICATION FairSpec
INVARIANT TypeOK
INVARIANT ExecutedOnceUnlessLost
INVARIANT ForwardBudget
INVARIANT AnswersAreGenuine
INVARIANT OwnTargetsSigned
PROPERTY Resolved
CHECK_DEADLOCK FALSE
