\* A peer whose relay fails closes its stream with an empty body.
CONSTANTS
    Node <- MCNode
    Name = {"a", "b"}
    Endpoints <- MCEndpoints
    Manifests <- MCFewManifests
    MaxTTL = 1
    MaxLost = 0
SPECIFICATION Spec
INVARIANT SignaturePreserved
CHECK_DEADLOCK FALSE
