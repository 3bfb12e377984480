\* Two messages of three VAAs of two emitters, one fault: order, and nothing is
\* stuck for ever.
SPECIFICATION FairSpec
CONSTANTS
    r1 = r1
    r2 = r2
    none = none
    Replicas <- MCReplicas
    Nobody <- none
    BatchSize = 2
    Vaas <- MCVaas
    MaxMessages = 2
    MaxFaults = 1
INVARIANTS
    EmitterInOrder
PROPERTIES
    EventuallyProcessed
