\* Two mnemonics, two endpoints, six network sections and every crash point.
CONSTANTS
    Mnemonic = {m1, m2}
    Endpoint = {e1, e2}
    Networks <- MCNetworks
    EnvText <- MCEnvText
    DhtNode = {"198.51.100.1:6881", "198.51.100.2:6881", "198.51.100.3:6881"}
    DhtBootMax = 2
SPECIFICATION Spec
INVARIANT TypeOK
INVARIANT IdentityKept
INVARIANT OneRoot
INVARIANT NetworkAsConfigured
INVARIANT PortIsBound
