----------------------------- MODULE PollSolana -----------------------------
(***************************************************************************)
(* The other job of blockchain-watcher: RunPollingJob.run driving            *)
(* PollSolanaTransactions.  A round turns the next range of slots into two   *)
(* signatures, that of the first transaction of its first block and that of  *)
(* the last of its last block, lists the signatures of the program between   *)
(* them from the newest down, page by page, fetches the transactions of each *)
(* page and hands all of them out.  Only finalized slots are read: a node    *)
(* may be slow or fail, and never tells of another history.                  *)
(***************************************************************************)
EXTENDS Integers, Sequences, FiniteSets

CONSTANTS
    Slots,           \* Slots[n]: transactions of slot n, in order; Skipped
    BlockTime,       \* BlockTime[n]: seconds; several slots of a chain share one
    OfProgram,       \* signatures of the program's transactions
    Failed,          \* transactions that failed on chain
    FromSlot,        \* cfg.fromSlot
    ToSlot,          \* cfg.toSlot, at the end of the chain
    SlotBatchSize, SignaturesLimit,
    MaxSolanaFaults  \* bound: failed calls, missing answers and crashes

Skipped == <<"skipped">>
NoSlot == 0 \* undefined, and falsy as a slot that is zero

Filled == {n \in DOMAIN Slots : Slots[n] # Skipped}
Signatures == UNION {{Slots[n][i] : i \in DOMAIN Slots[n]} : n \in Filled}

ASSUME SolanaAssumption ==
    /\ DOMAIN Slots = 1 .. Len(Slots) /\ Len(Slots) \in Nat
    \* Signatures are numbered in the order of the chain.
    /\ \A n \in Filled : Slots[n] \in Seq(Nat \ {0}) /\ BlockTime[n] \in Nat \ {0}
    /\ \A n \in Filled : \A i, j \in DOMAIN Slots[n] : i < j => Slots[n][i] < Slots[n][j]
    /\ \A m, n \in Filled : m < n =>
          \A i \in DOMAIN Slots[m], j \in DOMAIN Slots[n] : Slots[m][i] < Slots[n][j]
    /\ \A m, n \in Filled : m < n => BlockTime[m] <= BlockTime[n]
    /\ OfProgram \subseteq Signatures /\ Failed \subseteq Signatures
    /\ FromSlot \in Nat \ {0} /\ ToSlot \in Nat \ {0} /\ FromSlot <= ToSlot /\ ToSlot <= Len(Slots)
    /\ SlotBatchSize \in Nat /\ SignaturesLimit \in Nat \ {0} /\ MaxSolanaFaults \in Nat
    \* Never: a block with nothing in it, thousands of slots skipped.
    /\ \A n \in DOMAIN Slots : Slots[n] # <<>>
    /\ 1 \in Filled
    /\ \A n \in DOMAIN Slots : n + SlotBatchSize \in DOMAIN Slots =>
          \E m \in n .. n + SlotBatchSize : m \in Filled

VARIABLES
    latestSlot,   \* what getLatestSlot answers
    savedSlot,    \* lastSlot in the metadata file
    slotCursor,
    slotRange,    \* lastRange
    before,       \* beforeSignature; NoSignature
    after,        \* afterSignature
    results,      \* transactions of the pages read so far
    step,         \* where the job is
    taken,        \* transactions whose messages were published
    unknown,      \* transactions the node had no answer for
    edges,        \* first and last transactions of ranges
    solanaFaults

solanaVars == <<latestSlot, savedSlot, slotCursor, slotRange, before, after, results, step,
                taken, unknown, edges, solanaFaults>>
node == <<latestSlot>>
history == <<taken, unknown, edges>>

NoSignature == 0
NoSlotRange == [fromSlot |-> NoSlot, toSlot |-> NoSlot]

SolanaInit ==
    /\ latestSlot = 1
    /\ savedSlot = NoSlot /\ slotCursor = NoSlot /\ slotRange = NoSlotRange
    /\ before = NoSignature /\ after = NoSignature /\ results = {}
    /\ step = "preHook"
    /\ taken = {} /\ unknown = {} /\ edges = {}
    /\ solanaFaults = 0

SolanaFault == solanaFaults < MaxSolanaFaults /\ solanaFaults' = solanaFaults + 1

\* A finalized slot has a block.
NewSlot ==
    /\ \E n \in latestSlot + 1 .. Len(Slots) :
          /\ n \in Filled /\ \A m \in latestSlot + 1 .. n - 1 : m \notin Filled
          /\ latestSlot' = n
    /\ UNCHANGED <<savedSlot, slotCursor, slotRange, before, after, results, step, history, solanaFaults>>

SolanaPreHook ==
    /\ step = "preHook"
    /\ slotCursor' = IF savedSlot = NoSlot THEN slotCursor ELSE savedSlot
    /\ step' = "hasNext"
    /\ UNCHANGED <<node, savedSlot, slotRange, before, after, results, history, solanaFaults>>

SolanaHasNext ==
    /\ step = "hasNext"
    /\ step' = IF slotCursor # NoSlot /\ slotCursor >= ToSlot THEN "stopped" ELSE "range"
    /\ UNCHANGED <<node, savedSlot, slotCursor, slotRange, before, after, results, history, solanaFaults>>

GetSlotRange ==
    LET from == IF slotCursor = NoSlot \/ FromSlot > slotCursor THEN FromSlot ELSE slotCursor + 1
        full == from + SlotBatchSize
        known == IF full > latestSlot THEN latestSlot ELSE full
    IN [fromSlot |-> from, toSlot |-> IF known > ToSlot THEN ToSlot ELSE known]

\* The slot itself or the next one that has a block; NoSlot when there is none yet.
FindValidBlockUp(slot) ==
    LET up == Filled \intersect slot .. latestSlot
    IN IF up = {} THEN NoSlot ELSE CHOOSE n \in up : \A m \in up : n <= m

FindValidBlockDown(slot) ==
    LET down == Filled \intersect 1 .. slot
    IN IF down = {} THEN NoSlot ELSE CHOOSE n \in down : \A m \in down : n >= m

\* What is compared is the times of the two blocks, not their slots: of a range without
\* a block, between two blocks of the same second, the first is behind the last.
Usable(range) ==
    LET first == FindValidBlockUp(range.fromSlot)
        last == FindValidBlockDown(range.toSlot)
    IN /\ range.fromSlot <= range.toSlot /\ first # NoSlot /\ last # NoSlot
       /\ BlockTime[first] <= BlockTime[last]

GetSignatureRange ==
    LET range == GetSlotRange
        first == Slots[FindValidBlockUp(range.fromSlot)]
        last == Slots[FindValidBlockDown(range.toSlot)]
    IN
    /\ step = "range" /\ Usable(range)
    /\ after' = first[1] /\ before' = last[Len(last)]
    /\ slotRange' = range
    /\ results' = {}
    /\ step' = "page"
    /\ UNCHANGED <<node, savedSlot, slotCursor, history, solanaFaults>>

\* The next slots are not there yet, or, when the last slot is configured, have no
\* block: getSlotRange or the comparison of the block times throws.
InvalidSlotRange ==
    /\ step = "range" /\ ~Usable(GetSlotRange)
    /\ step' = "hasNext"
    /\ UNCHANGED <<node, savedSlot, slotCursor, slotRange, before, after, results, history, solanaFaults>>

\* Signatures of the program before the one and down to the other, which is never met
\* when it is the later of the two: the list then goes back to the start of the program.
Between == {t \in OfProgram : t < before /\ (after < t \/ before < after)}

\* The newest of them, as many as the limit.
GetSignaturesForAddress ==
    {t \in Between : Cardinality({u \in Between : u > t}) < SignaturesLimit}

GetPageOfTransactions(known) ==
    LET sigs == GetSignaturesForAddress IN
    /\ results' = results \union known
    /\ before' = IF sigs = {} THEN NoSignature ELSE CHOOSE t \in sigs : \A u \in sigs : t <= u
    /\ step' = IF Cardinality(sigs) = SignaturesLimit THEN "page" ELSE "handle"

GetTransactions ==
    /\ step = "page"
    /\ GetPageOfTransactions(GetSignaturesForAddress)
    /\ UNCHANGED <<node, savedSlot, slotCursor, slotRange, after, history, solanaFaults>>

\* The node answers null for a transaction it just listed: the length is as
\* expected, and it is left out.
GetTransactionsUnknown ==
    /\ step = "page" /\ SolanaFault
    /\ \E t \in GetSignaturesForAddress :
          /\ GetPageOfTransactions(GetSignaturesForAddress \ {t})
          /\ unknown' = unknown \union {t}
    /\ UNCHANGED <<node, savedSlot, slotCursor, slotRange, after, taken, edges>>

\* Any call of get fails: what was read of the range is forgotten.
SolanaGetFails ==
    /\ step \in {"range", "page"} /\ SolanaFault
    /\ step' = "hasNext"
    /\ UNCHANGED <<node, savedSlot, slotCursor, slotRange, before, after, results, history>>

\* HandleSolanaTransactions.handle: those that failed are filtered out.
SolanaHandle ==
    /\ step = "handle"
    /\ taken' = taken \union (results \ Failed)
    /\ edges' = edges \union {after, Slots[FindValidBlockDown(slotRange.toSlot)][Len(Slots[FindValidBlockDown(slotRange.toSlot)])]}
    /\ step' = "persist"
    /\ UNCHANGED <<node, savedSlot, slotCursor, slotRange, before, after, results, unknown, solanaFaults>>

\* Nothing is published when the mapper or the target throws.
SolanaHandleFails ==
    /\ step = "handle" /\ results \ Failed # {} /\ SolanaFault
    /\ step' = "hasNext"
    /\ UNCHANGED <<node, savedSlot, slotCursor, slotRange, before, after, results, history>>

SolanaPersist ==
    /\ step = "persist"
    /\ slotCursor' = slotRange.toSlot
    /\ savedSlot' = slotRange.toSlot
    /\ step' = "hasNext"
    /\ UNCHANGED <<node, slotRange, before, after, results, history, solanaFaults>>

SolanaCrash ==
    /\ step \notin {"preHook", "stopped"} /\ SolanaFault
    /\ slotCursor' = NoSlot /\ slotRange' = NoSlotRange
    /\ before' = NoSignature /\ after' = NoSignature /\ results' = {}
    /\ step' = "preHook"
    /\ savedSlot' = savedSlot \/ (step = "persist" /\ savedSlot' = NoSlot)
    /\ UNCHANGED <<node, history>>

SolanaRound ==
    \/ SolanaPreHook \/ SolanaHasNext \/ GetSignatureRange \/ InvalidSlotRange
    \/ GetTransactions \/ SolanaHandle \/ SolanaPersist

SolanaNext ==
    \/ NewSlot \/ SolanaRound
    \/ GetTransactionsUnknown \/ SolanaGetFails \/ SolanaHandleFails \/ SolanaCrash
    \/ step = "stopped" /\ UNCHANGED solanaVars

SolanaSpec == SolanaInit /\ [][SolanaNext]_solanaVars

------------------------------------------------------------------------------
(* What is checked.                                                         *)

SolanaTypeOK ==
    /\ latestSlot \in DOMAIN Slots
    /\ {savedSlot, slotCursor, slotRange.fromSlot, slotRange.toSlot} \subseteq DOMAIN Slots \union {NoSlot}
    /\ {before, after} \subseteq Signatures \union {NoSignature}
    /\ results \subseteq OfProgram /\ taken \subseteq OfProgram /\ unknown \subseteq OfProgram
    /\ edges \subseteq Signatures
    /\ step \in {"preHook", "hasNext", "range", "page", "handle", "persist", "stopped"}

InSlot(t, n) == n \in Filled /\ \E i \in DOMAIN Slots[n] : Slots[n][i] = t

Passed(t) == t \in taken \union Failed \union unknown \union edges

\* Skipped slots, full and partial pages, failures and restarts: the saved slot
\* never passes a successful transaction of the program that was not handed out,
\* except the first and last of a range and those the node had no answer for.
NoSlotGap ==
    \A n \in FromSlot .. savedSlot : \A t \in OfProgram : InSlot(t, n) => Passed(t)

\* A range no slot of which has a block, at a configured last slot: the blocks around
\* it share their second, or it is refused.
WithoutBlock(range) == \A n \in range.fromSlot .. range.toSlot : n \notin Filled

\* What is handed out is of a slot of the range that the file does not say is done: a
\* page never reaches into a slot before.  Except for a range without a block, for
\* which old transactions of the program are handed out again.
NoSlotRepeated ==
    step = "handle" /\ ~WithoutBlock(slotRange) =>
        \A t \in results : \E n \in slotRange.fromSlot .. slotRange.toSlot : n > savedSlot /\ InSlot(t, n)

\* A transaction of the program is in the end handed out or among the exceptions,
\* once the chain has a block behind it.
EveryTransactionPassed ==
    \A t \in OfProgram : (\E n \in FromSlot .. ToSlot : n <= latestSlot /\ InSlot(t, n)) ~> Passed(t)
=============================================================================
