\* Two jobs on an EVM chain of five blocks, one on eight slots of Solana, two faults each.
SPECIFICATION MCSpec
CONSTANTS
    h1 = h1
    h2 = h2
    Sources = {"evm", "solana"}
    Handlers <- MCHandlers
    Jobs <- MCJobs
    MaxBlock = 5
    MaxFaults = 2
    Slots <- MCSlots
    BlockTime <- MCBlockTime
    OfProgram <- MCOfProgram
    Failed = {5}
    FromSlot = 1
    ToSlot = 7
    SlotBatchSize = 1
    SignaturesLimit = 2
    MaxSolanaFaults = 2
INVARIANTS
    PollingTypeOK
    NothingSkipped
    NothingRepeated
PROPERTIES
    CursorNeverBack
    EverythingHandled
