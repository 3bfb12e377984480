\* Each kind of watcher: a chain of four blocks, two redeem transactions, one
\* before an input that kills an evm watcher, pages of two,
\* a backfiller inside the range of the service, two faults; four messages, two in one
\* block, batches of two blocks, pages of two messages, one fault.
SPECIFICATION MCSpec
CONSTANTS
    Watched <- MCWatched
    Redeemed <- MCRedeemed
    ShortInput <- MCShort
    BackfillRange <- MCBackfill
    InitialBlock = 1
    SizeBlocks = 2
    Attempts = 2
    MaxCwBlock = 4
    MaxCwFaults = 2
    Readers <- MCReaders
    Chain <- MCChain
    Redeems <- MCRedeems
    FilledSlots <- MCFilled
    EdgeMessages <- MCEdges
    FirstBlock = 1
    MaximumBatchSize = 2
    Limit = 2
    MaxEwBlock = 4
    MaxEwFaults = 1
INVARIANTS
    BlocksAccounted
    RedeemsRecorded
    
    OnlyFinalized
PROPERTIES
    StoredBlockNeverBack
    
CHECK_DEADLOCK FALSE
