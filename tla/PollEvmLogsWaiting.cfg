\* A node that may answer one block behind an earlier answer.
SPECIFICATION MCSpec
CONSTANTS
    h1 = h1
    h2 = h2
    Sources = {"evm"}
    Handlers <- MCHandlers
    Jobs <- MCLaggingJobs
    MaxBlock = 5
    MaxFaults = 2
    Slots <- MCSlots
    BlockTime <- MCBlockTime
    OfProgram <- MCOfProgram
    Failed = {5}
    FromSlot = 1
    ToSlot = 7
    SlotBatchSize = 1
    SignaturesLimit = 2
    MaxSolanaFaults = 3
PROPERTIES
    WaitingMovesNothing
