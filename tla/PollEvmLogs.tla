---------------------------- MODULE PollEvmLogs ----------------------------
(***************************************************************************)
(* One job of blockchain-watcher: RunPollingJob.run driving PollEvmLogs.    *)
(* Each round asks the node for its height, reads the logs of the next      *)
(* range of blocks, hands them to every handler and, if all succeed, saves  *)
(* the end of the range as the cursor in a metadata file.  The process may  *)
(* die anywhere, also while it writes that file; calls may fail; the node   *)
(* behind the provider may lag behind one that answered before.             *)
(***************************************************************************)
EXTENDS Integers, FiniteSets

CONSTANTS
    Handlers,   \* handlers of the job
    Jobs,       \* configurations: fromBlock, toBlock (or NoBlock), blockBatchSize, and
                \* maxLag, how far an answer of the node may be behind an earlier one
    MaxBlock,   \* bound: height the chain reaches
    MaxFaults   \* bound: failed calls and crashes

NoBlock == -1 \* undefined

ASSUME ConfigAssumption ==
    \* The getters of the configuration make a zero undefined.
    /\ Jobs \subseteq [fromBlock : (Nat \ {0}) \union {NoBlock},
                       toBlock : (Nat \ {0}) \union {NoBlock},
                       blockBatchSize : Nat \ {0}, maxLag : Nat]
    /\ MaxBlock \in Nat /\ MaxFaults \in Nat
    \* the constructor of PollEvmLogsConfig
    /\ \A j \in Jobs : j.fromBlock > 0 /\ j.toBlock > 0 => j.fromBlock <= j.toBlock

VARIABLES
    cfg,       \* the configuration of the job
    top,       \* the highest block of the chain
    height,    \* what getBlockHeight answers
    file,      \* lastBlock in the metadata file; NoBlock if absent or unreadable
    cursor,    \* blockHeightCursor
    lastRange, \* lastRange, an empty one when undefined
    items,     \* blocks whose logs this round hands out
    pc,
    handled,   \* handled[h]: blocks whose logs handler h has taken
    faults

vars == <<cfg, top, height, file, cursor, lastRange, items, pc, handled, faults>>

Blocks == 0..MaxBlock
FromBlock == cfg.fromBlock
ToBlock == cfg.toBlock
BlockBatchSize == cfg.blockBatchSize
MaxLag == cfg.maxLag
NoRange == [fromBlock |-> NoBlock, toBlock |-> NoBlock]

\* A block number is falsy when undefined and when zero.
Truthy(b) == b > 0

Init ==
    /\ cfg \in Jobs
    /\ top \in Blocks /\ height = top
    /\ file = NoBlock
    /\ cursor = NoBlock
    /\ lastRange = NoRange
    /\ items = {}
    /\ pc = "preHook"
    /\ handled = [h \in Handlers |-> {}]
    /\ faults = 0

Fault == faults < MaxFaults /\ faults' = faults + 1

\* The chain grows and the node that answers next may lag.
NewHeight ==
    /\ \E t \in {top, top + 1} \intersect Blocks :
          /\ top' = t
          /\ height' \in {b \in Blocks : b <= t /\ b >= t - MaxLag}
    /\ <<top', height'>> # <<top, height>>
    /\ UNCHANGED <<cfg, file, cursor, lastRange, items, pc, handled, faults>>

PreHook ==
    /\ pc = "preHook"
    /\ cursor' = IF file = NoBlock THEN cursor ELSE file
    /\ pc' = "hasNext"
    /\ UNCHANGED <<cfg, top, height, file, lastRange, items, handled, faults>>

HasFinished == cursor # NoBlock /\ ToBlock # NoBlock /\ cursor >= ToBlock

HasNext ==
    /\ pc = "hasNext"
    /\ pc' = IF HasFinished THEN "stopped" ELSE "get"
    /\ UNCHANGED <<cfg, top, height, file, cursor, lastRange, items, handled, faults>>

\* Mutant: the cursor is taken for the next block to read.
NextBlockIsCursor(latest) ==
    IF Truthy(cursor) THEN cursor ELSE IF Truthy(FromBlock) THEN FromBlock ELSE latest

\* Mutant: one block between two ranges is skipped.
NextBlockSkips(latest) ==
    IF Truthy(cursor) THEN cursor + 2 ELSE IF Truthy(FromBlock) THEN FromBlock ELSE latest

NextBlock(latest) ==
    IF Truthy(FromBlock) /\ Truthy(cursor) /\ FromBlock > cursor THEN FromBlock
    ELSE IF Truthy(cursor) THEN cursor + 1
    ELSE IF Truthy(FromBlock) THEN FromBlock ELSE latest

\* Mutant: the range is not limited to the height of the chain.
GetBlockRangeUnlimited(latest) ==
    [fromBlock |-> NextBlock(latest), toBlock |-> NextBlock(latest) + BlockBatchSize]

GetBlockRange(latest) ==
    LET from == NextBlock(latest)
        full == from + BlockBatchSize
        known == IF full > latest THEN latest ELSE full
        to == IF Truthy(ToBlock) /\ known > ToBlock THEN ToBlock ELSE known
    IN [fromBlock |-> from, toBlock |-> to]

\* Mutant: lastRange is set before the range is looked at.
GetNothingSetsRange ==
    /\ pc = "get"
    /\ GetBlockRange(height).fromBlock > height
    /\ items' = {}
    /\ lastRange' = GetBlockRange(height)
    /\ pc' = "handle"
    /\ UNCHANGED <<cfg, top, height, file, cursor, handled, faults>>

\* The next block is not there yet: nothing to hand out, lastRange stays.
GetNothing ==
    /\ pc = "get"
    /\ GetBlockRange(height).fromBlock > height
    /\ items' = {}
    /\ pc' = "handle"
    /\ UNCHANGED <<cfg, top, height, file, cursor, lastRange, handled, faults>>

GetLogs ==
    LET range == GetBlockRange(height) IN
    /\ pc = "get"
    /\ range.fromBlock <= height
    /\ items' = range.fromBlock .. range.toBlock
    /\ lastRange' = range
    /\ pc' = "handle"
    /\ UNCHANGED <<cfg, top, height, file, cursor, handled, faults>>

\* A call to the node fails, before lastRange is set.
GetFails ==
    /\ pc = "get"
    /\ Fault
    /\ pc' = "hasNext"
    /\ UNCHANGED <<cfg, top, height, file, cursor, lastRange, items, handled>>

\* ok are the handlers that take the logs.  Promise.all fails if one fails; the
\* others have taken them all the same.
HandledBy(ok) ==
    handled' = [h \in Handlers |-> IF h \in ok THEN handled[h] \union items ELSE handled[h]]

Handle ==
    /\ pc = "handle"
    /\ HandledBy(Handlers)
    /\ pc' = "persist"
    /\ UNCHANGED <<cfg, top, height, file, cursor, lastRange, items, faults>>

\* Mutant: allSettled, a failing handler is only logged.
HandleFailsSettled ==
    /\ pc = "handle" /\ items # {}
    /\ \E ok \in SUBSET Handlers : ok # Handlers /\ HandledBy(ok)
    /\ Fault
    /\ pc' = "persist"
    /\ UNCHANGED <<cfg, top, height, file, cursor, lastRange, items>>

\* With no logs to hand out no handler can fail.
HandleFails ==
    /\ pc = "handle" /\ items # {}
    /\ \E ok \in SUBSET Handlers : ok # Handlers /\ HandledBy(ok)
    /\ Fault
    /\ pc' = "hasNext"
    /\ UNCHANGED <<cfg, top, height, file, cursor, lastRange, items>>

Persist ==
    /\ pc = "persist"
    /\ cursor' = IF lastRange = NoRange THEN cursor ELSE lastRange.toBlock
    /\ file' = IF Truthy(cursor') THEN cursor' ELSE file
    /\ pc' = "hasNext"
    /\ UNCHANGED <<cfg, top, height, lastRange, items, handled, faults>>

\* The process dies; while the file is being written, it may be left truncated,
\* which the next start reads as no metadata.
Crash ==
    /\ pc \notin {"preHook", "stopped"}
    /\ Fault
    /\ cursor' = NoBlock /\ lastRange' = NoRange /\ items' = {}
    /\ pc' = "preHook"
    /\ file' = file \/ (pc = "persist" /\ file' = NoBlock)
    /\ UNCHANGED <<cfg, top, height, handled>>

Round == PreHook \/ HasNext \/ GetNothing \/ GetLogs \/ Handle \/ Persist

Next == NewHeight \/ Round \/ GetFails \/ HandleFails \/ Crash \/ (pc = "stopped" /\ UNCHANGED vars)

Spec == Init /\ [][Next]_vars

\* The loop of the job keeps running; faults stop.
FairSpec == Spec /\ WF_vars(Round)

------------------------------------------------------------------------------
(* What is checked.                                                         *)

TypeOK ==
    /\ cfg \in Jobs
    /\ top \in Blocks /\ height \in Blocks
    /\ {file, cursor} \subseteq Blocks \union {NoBlock}
    /\ lastRange \in [fromBlock : Blocks \union {NoBlock}, toBlock : Blocks \union {NoBlock}]
    /\ items \subseteq Blocks
    /\ pc \in {"preHook", "hasNext", "get", "handle", "persist", "stopped"}
    /\ handled \in [Handlers -> SUBSET Blocks]
    /\ faults \in 0..MaxFaults

\* With a configured first block and a node whose answers do not go back, the
\* saved cursor never passes a block that some handler has not taken, whatever
\* failed or crashed: the next start misses nothing.
NoGap ==
    FromBlock # NoBlock /\ MaxLag = 0 =>
        \A b \in FromBlock .. file, h \in Handlers : b \in handled[h]

\* No round hands out a block the metadata file says is done.
NothingRepeatedBelowCursor == pc = "handle" /\ file # NoBlock => \A b \in items : b > file

\* The saved cursor never goes back; it can only be lost.
CursorNeverBack == [][file' # NoBlock => file <= file']_vars

\* Every block the chain has, up to the configured last one, is in the end taken
\* by every handler, if failures stop and answers do not go back.
EveryBlockHandled ==
    \A b \in Blocks :
        (MaxLag = 0 /\ FromBlock # NoBlock /\ b >= FromBlock /\ b <= top /\ (ToBlock = NoBlock \/ b <= ToBlock))
            ~> (\A h \in Handlers : b \in handled[h])

\* "Next range is after latest block height ..., waiting...": a round that only
\* waits moves no cursor.  False when the round before read a range and failed to
\* hand it out: its lastRange is still there, and is saved.
WaitingMovesNothing ==
    [][pc = "persist" /\ items = {} /\ pc' = "hasNext" => cursor' = cursor]_vars
=============================================================================
