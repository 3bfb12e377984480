\* Two VAAs of one emitter, three messages, two faults of any kind.
SPECIFICATION Spec
CONSTANTS
    r1 = r1
    r2 = r2
    none = none
    Replicas <- MCReplicas
    Nobody <- none
    BatchSize = 2
    Vaas <- MCVaasOneEmitter
    MaxMessages = 3
    MaxFaults = 2
SYMMETRY Symmetry
INVARIANTS
    TypeOK
    NoLoss
    AnnouncedOnce
    CountsInserts
    LastSequenceStored
PROPERTIES
    LastSequenceMonotone
    LedgerSpec
