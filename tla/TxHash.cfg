\* Two VAAs, each perhaps of an earlier version, and one of Pythnet, a channel of one,
\* observations with and without a usable hash, a failed call or a crash.
SPECIFICATION FairSpec
CONSTANTS
    v1 = v1
    v2 = v2
    v3 = v3
    f1 = f1
    p1 = p1
    Vaas <- MCVaas
    Pyth <- MCPyth
    Replicas <- MCReplicas
    Pipelines <- MCPipelines
    QueueSize = 1
    Retries = 2
    MaxObservations = 1
    MaxBackfills = 1
    MaxFaults = 1
INVARIANTS
    TypeOK
    HashesTruthful
    NoVaaForgotten
PROPERTIES
    HashKept
    VaaLeaves
CHECK_DEADLOCK FALSE
