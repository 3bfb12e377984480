-------------------------- MODULE ContractWatchers --------------------------
(***************************************************************************)
(* The watchers of contract-watcher: each follows one chain, looks in every *)
(* block for transactions that redeem a VAA, writes them to                 *)
(* globalTransactions and keeps the block it has come to in watcherBlocks.  *)
(* The service and a backfiller run the same code on the same document.     *)
(* They differ by chain in what they do when a block cannot be read.        *)
(***************************************************************************)
EXTENDS Integers, FiniteSets

CONSTANTS
    Watched,       \* the kinds of watcher: "evm", "aptos", "solana", "terra", "ankr"
    Redeemed,      \* Redeemed[b]: did the redeem transaction of block b succeed
    ShortInput,    \* blocks of an evm chain with a call of a redeem method whose input is too short
    InitialBlock,  \* initialBlock
    SizeBlocks,    \* blocks of a page
    Attempts,      \* evmMaxRetries, aptosMaxRetries, maxRetries
    BackfillRange, \* the blocks the backfiller is started for
    MaxCwBlock,    \* bound: height of the chain
    MaxCwFaults    \* bound: failed calls and crashes

ASSUME CwAssumption ==
    /\ MaxCwBlock \in Nat /\ MaxCwFaults \in Nat
    /\ InitialBlock \in 0..MaxCwBlock /\ SizeBlocks \in Nat \ {0} /\ Attempts \in Nat \ {0}
    /\ DOMAIN Redeemed \subseteq 0..MaxCwBlock /\ ShortInput \subseteq 0..MaxCwBlock

\* A range that is one; getTotalBlocks subtracts without a look.
ASSUME BackfillAssumption ==
    BackfillRange \in [from : Nat, to : Nat] /\ BackfillRange.from <= BackfillRange.to

VARIABLES
    watcherKind, \* the kind of this chain's watcher
    persistBlock, \* the flag of the backfiller
    cwTop,       \* height of the chain
    watcherBlock, \* blockNumber of the document in watcherBlocks, or NoWatcherBlock
    running,     \* running[p]: where process p is
    destination, \* destination[b]: status in globalTransactions of the VAA redeemed in b
    processed,   \* history: blocks read
    cwExcuse,    \* history: blocks passed over after a failure, or by a jump of watcherBlock
    cwFaults

cwVars == <<watcherKind, persistBlock, cwTop, watcherBlock, running, destination,
            processed, cwExcuse, cwFaults>>

CwBlocks == 0..MaxCwBlock
NoWatcherBlock == -1
Processes == {"service", "backfiller"}
Persists(p) == p = "service" \/ persistBlock
Down == [pc |-> "down", current |-> 0, last |-> 0, page |-> 0, block |-> 0, upto |-> 0, to |-> 0, tries |-> 0]

CwInit ==
    /\ watcherKind \in Watched
    /\ persistBlock \in BOOLEAN
    /\ cwTop = InitialBlock
    /\ watcherBlock = NoWatcherBlock
    /\ running = [p \in Processes |-> Down]
    /\ destination = [b \in DOMAIN Redeemed |-> "absent"]
    /\ processed = {} /\ cwExcuse = {}
    /\ cwFaults = 0

CwFault == cwFaults < MaxCwFaults /\ cwFaults' = cwFaults + 1

CwGrow ==
    /\ cwTop < MaxCwBlock /\ cwTop' = cwTop + 1
    /\ UNCHANGED <<watcherKind, persistBlock, watcherBlock, running, destination, processed, cwExcuse, cwFaults>>

------------------------------------------------------------------------------
(* Paging                                                                   *)

\* Mutant: no page for the rest.
GetTotalBlocksFull(last, current, size) == (last - current) \div size

GetTotalBlocks(last, current, size) == (last - current) \div size + 1

GetPage(current, index, size, last) ==
    LET from == current + index * size
        full == from + size - 1
    IN [from |-> from, to |-> IF full > last THEN last ELSE full]

------------------------------------------------------------------------------
(* Start and Backfill                                                       *)

GetCurrentBlock == IF watcherBlock = NoWatcherBlock THEN InitialBlock ELSE watcherBlock

\* The process is started and its watcher finds the block to go on from.
StartService ==
    /\ running["service"].pc = "down"
    /\ running' = [running EXCEPT !["service"] = [Down EXCEPT !.pc = "latest", !.current = GetCurrentBlock]]
    /\ UNCHANGED <<watcherKind, persistBlock, cwTop, watcherBlock, destination, processed, cwExcuse, cwFaults>>

\* watcherBlocks cannot be read: Start returns, nobody looks at its error, and the process
\* stays up without the watcher until something else brings it down.
StartServiceFails ==
    /\ running["service"].pc = "down" /\ CwFault
    /\ running' = [running EXCEPT !["service"] = [Down EXCEPT !.pc = "ended"]]
    /\ UNCHANGED <<watcherKind, persistBlock, cwTop, watcherBlock, destination, processed, cwExcuse>>

StartBackfiller ==
    /\ running["backfiller"].pc = "down"
    /\ running' = [running EXCEPT !["backfiller"] =
          [Down EXCEPT !.pc = "page", !.current = BackfillRange.from, !.last = BackfillRange.to]]
    /\ BackfillRange.to <= cwTop
    /\ UNCHANGED <<watcherKind, persistBlock, cwTop, watcherBlock, destination, processed, cwExcuse, cwFaults>>

\* A turn of the loop of Start: the height, and a range if it is above the current
\* block.  A height that cannot be read is taken for unread, and waited for like one
\* that has not grown.
GetLatestBlock(kind, unread) ==
    LET s == running["service"] IN
    /\ watcherKind = kind /\ s.pc = "latest"
    /\ \/ /\ s.current < cwTop
          /\ running' = [running EXCEPT !["service"].pc = "page", !["service"].last = cwTop, !["service"].page = 0]
          /\ UNCHANGED cwFaults
       \/ /\ CwFault
          /\ running' = [running EXCEPT !["service"].pc = "advance", !["service"].last = unread]
    /\ UNCHANGED <<watcherKind, persistBlock, cwTop, watcherBlock, destination, processed, cwExcuse>>

EvmStandardStart == GetLatestBlock("evm", 0)
AptosStart == GetLatestBlock("aptos", 0)
SolanaStart == GetLatestBlock("solana", 0)
TerraStart == GetLatestBlock("terra", 0)
AnkrStart == GetLatestBlock("ankr", running["service"].current)

\* Mutant: whatever the height was becomes the current block.
AdvanceAlways(s) == s.last

Advance(s) == IF s.last > s.current THEN s.last ELSE s.current

\* The service of terra walks the whole range as one page.
Pages(p) ==
    IF watcherKind = "terra" /\ p = "service" THEN 1
    ELSE GetTotalBlocks(running[p].last, running[p].current, SizeBlocks)

PageOf(p) ==
    LET s == running[p] IN
    IF watcherKind = "terra" /\ p = "service" THEN [from |-> s.current, to |-> s.last]
    ELSE GetPage(s.current, s.page, SizeBlocks, s.last)

NextPage(p) ==
    LET s == running[p] IN
    /\ s.pc = "page" /\ s.page < Pages(p)
    /\ running' = [running EXCEPT ![p].pc = "block", ![p].page = @ + 1, ![p].tries = 0,
                                  ![p].block = PageOf(p).from, ![p].to = PageOf(p).to]
    /\ UNCHANGED <<watcherKind, persistBlock, cwTop, watcherBlock, destination, processed, cwExcuse, cwFaults>>

\* The end of a round of the service, or of the backfiller.
EndRound(p) ==
    LET s == running[p] IN
    /\ s.pc = "advance" \/ (s.pc = "page" /\ s.page >= Pages(p))
    /\ running' = [running EXCEPT ![p] =
          IF p = "service" THEN [s EXCEPT !.pc = "latest", !.current = Advance(s)]
          ELSE [Down EXCEPT !.pc = "done"]]
    /\ UNCHANGED <<watcherKind, persistBlock, cwTop, watcherBlock, destination, processed, cwExcuse, cwFaults>>

------------------------------------------------------------------------------
(* processBlock                                                             *)

Truth(b) == IF Redeemed[b] THEN "completed" ELSE "failed"

\* checkTxShouldBeUpdated
ShouldBeUpdated(old, new) ==
    \/ new = "completed"
    \/ new = "failed" /\ old # "completed"
    \/ new = "unknown" /\ old \in {"absent", "unknown"}

\* updateGlobalTransaction with the status f[b] of each redeem transaction in bs.
UpdateGlobalTransactions(bs, f) ==
    destination' = [b \in DOMAIN Redeemed |->
        IF b \in bs /\ ShouldBeUpdated(destination[b], f[b]) THEN f[b] ELSE destination[b]]

Record(bs) ==
    UpdateGlobalTransactions(bs, [b \in DOMAIN Redeemed |-> Truth(b)]) /\ UNCHANGED <<cwExcuse, cwFaults>>

\* What is known of one transaction is wrong or cannot be written.
RecordBut(b, bs, status) ==
    /\ b \in bs \intersect DOMAIN Redeemed /\ CwFault
    /\ UpdateGlobalTransactions(bs, [c \in DOMAIN Redeemed |-> IF c = b THEN status ELSE Truth(c)])
    /\ cwExcuse' = IF status = "none" THEN cwExcuse \union {b} ELSE cwExcuse

\* Without a receipt the status is unknown; when the node limits the rate too often,
\* or the write fails, nothing is written.
EvmProcessTransaction(b) ==
    Record({b}) \/ (\E status \in {"none", "unknown"} : RecordBut(b, {b}, status))

\* The outcome is asked for.
AptosProcessTransaction(b) == Record({b}) \/ RecordBut(b, {b}, "none")

\* The outcome is in the block, the VAA in another transaction of an account.
SolanaProcessTransaction(b) == Record({b}) \/ RecordBut(b, {b}, "none")

\* All is in the transaction; only the write can fail.
TerraProcessTransactions(b) == Record({b}) \/ RecordBut(b, {b}, "none")
AnkrProcessTransactions(bs) == Record(bs) \/ (\E b \in bs : RecordBut(b, bs, "none"))

\* On to the next block, or the next page; s.upto is the last block dealt with.
Proceed(p, s) ==
    running' = [running EXCEPT ![p] =
        IF s.upto < s.to THEN [s EXCEPT !.pc = "block", !.block = s.upto + 1, !.tries = 0]
        ELSE [s EXCEPT !.pc = "page", !.tries = 0]]

\* Deal with the blocks up to upto and store block, if p is to.
Store(p, block, upto) ==
    LET s == [running[p] EXCEPT !.block = block, !.upto = upto] IN
    IF Persists(p) THEN running' = [running EXCEPT ![p] = [s EXCEPT !.pc = "store"]] ELSE Proceed(p, s)

\* Pass over a block without storing it.
PassOver(p) == Proceed(p, [running[p] EXCEPT !.upto = running[p].block])

ReadBlock(p, kind) ==
    LET block == running[p].block IN
    /\ running[p].pc = "block" /\ watcherKind = kind
    /\ processed' = processed \union {block}
    /\ Store(p, block, block)
    /\ UNCHANGED <<watcherKind, persistBlock, cwTop, watcherBlock>>

EvmProcessBlock(p) ==
    /\ running[p].block \notin ShortInput
    /\ ReadBlock(p, "evm") /\ EvmProcessTransaction(running[p].block)
AptosProcessBlock(p) == ReadBlock(p, "aptos") /\ AptosProcessTransaction(running[p].block)
SolanaProcessBlock(p) == ReadBlock(p, "solana") /\ SolanaProcessTransaction(running[p].block)
TerraProcessBlock(p) == ReadBlock(p, "terra") /\ TerraProcessTransactions(running[p].block)

\* parseInput cuts off a head the input does not have: the process dies, before or after
\* it has come to a redeem of the block, and dies again whenever it reads the block.
EvmPanics(p) ==
    LET block == running[p].block IN
    /\ running[p].pc = "block" /\ watcherKind = "evm" /\ block \in ShortInput
    /\ EvmProcessTransaction(block) \/ UNCHANGED <<destination, cwExcuse, cwFaults>>
    /\ running' = [running EXCEPT ![p] = IF p = "service" THEN Down ELSE [Down EXCEPT !.pc = "done"]]
    /\ UNCHANGED <<watcherKind, persistBlock, cwTop, watcherBlock, processed>>

Exhausted(s) == s.tries + 1 >= Attempts

Retry(p) == running' = [running EXCEPT ![p].tries = @ + 1] /\ UNCHANGED cwExcuse
Forget(bs) == cwExcuse' = cwExcuse \union bs

BlockUnread(p, kind) ==
    /\ running[p].pc = "block" /\ watcherKind = kind
    /\ CwFault
    /\ UNCHANGED <<watcherKind, persistBlock, cwTop, watcherBlock, destination, processed>>

\* A rate limit is tried again, any other error passes over the block.
EvmGetBlockFails(p, error) ==
    /\ BlockUnread(p, "evm")
    /\ IF error = "other" \/ Exhausted(running[p])
       THEN Forget({running[p].block}) /\ PassOver(p) ELSE Retry(p)

AptosGetBlockFails(p, error) ==
    /\ BlockUnread(p, "aptos")
    /\ IF error = "other" \/ Exhausted(running[p])
       THEN Forget({running[p].block}) /\ PassOver(p) ELSE Retry(p)

\* Any error, and a block not confirmed, is tried again; in the end the block is
\* stored as if it had been read.
SolanaGetBlockFails(p) ==
    /\ BlockUnread(p, "solana")
    /\ IF Exhausted(running[p])
       THEN Forget({running[p].block}) /\ Store(p, running[p].block, running[p].block) ELSE Retry(p)

\* Tried again for ever.
TerraGetBlockFails(p) == BlockUnread(p, "terra") /\ UNCHANGED <<running, cwExcuse>>

\* ankr: the transactions up to some block of the range, and a token for the
\* rest; an answer without transactions covers the range.
GetTransactionsByAddress(p) ==
    LET s == running[p] IN
    /\ s.pc = "block" /\ watcherKind = "ankr"
    /\ \E upto \in s.block .. s.to :
          LET bs == s.block .. upto
              redeems == bs \intersect DOMAIN Redeemed
              new == IF redeems = {} THEN s.to ELSE CHOOSE b \in redeems : \A c \in redeems : c <= b
          IN /\ upto < s.to => upto \in redeems
             /\ AnkrProcessTransactions(bs)
             /\ processed' = processed \union bs
             /\ Store(p, new, upto)
    /\ UNCHANGED <<watcherKind, persistBlock, cwTop, watcherBlock>>

\* ankr: an answer that is an error has no transactions and no token; it is
\* taken for an empty one.
GetTransactionsByAddressFails(p) ==
    LET s == running[p] IN
    /\ s.pc = "block" /\ watcherKind = "ankr"
    /\ CwFault
    /\ cwExcuse' = cwExcuse \union s.block .. s.to
    /\ Store(p, s.to, s.to)
    /\ UNCHANGED <<watcherKind, persistBlock, cwTop, watcherBlock, destination, processed>>

\* Blocks the document leaves behind unread when it moves to b.
JumpedOver(b) ==
    IF b <= GetCurrentBlock THEN {} ELSE (GetCurrentBlock .. b) \ processed

\* Mutant: the block stored is the one the page ends with.
StoredBlockOfPage(s) == s.to

StoredBlock(s) == s.block

\* A plain $set, which may also move the block back.  evm and aptos read the block
\* again when it fails, the others do not look at the error.
UpdateWatcherBlock(p) ==
    LET s == running[p] IN
    /\ s.pc = "store"
    /\ \/ /\ watcherBlock' = StoredBlock(s)
          /\ cwExcuse' = IF p = "backfiller" THEN cwExcuse \union JumpedOver(s.block) ELSE cwExcuse
          /\ Proceed(p, s) /\ UNCHANGED cwFaults
       \/ /\ CwFault /\ UNCHANGED <<watcherBlock, cwExcuse>>
          /\ IF watcherKind \in {"evm", "aptos"} /\ ~Exhausted(s)
             THEN running' = [running EXCEPT ![p].pc = "block", ![p].tries = @ + 1] ELSE Proceed(p, s)
    /\ UNCHANGED <<watcherKind, persistBlock, cwTop, destination, processed>>

\* The service dies, or a nil answer of ankr kills it.
CwCrash ==
    /\ running["service"].pc # "down"
    /\ CwFault
    /\ running' = [running EXCEPT !["service"] = Down]
    /\ UNCHANGED <<watcherKind, persistBlock, cwTop, watcherBlock, destination, processed, cwExcuse>>

CwStep(p) ==
    \/ NextPage(p) \/ EndRound(p) \/ UpdateWatcherBlock(p)
    \/ EvmProcessBlock(p) \/ AptosProcessBlock(p) \/ SolanaProcessBlock(p) \/ TerraProcessBlock(p)
    \/ GetTransactionsByAddress(p) \/ EvmPanics(p)

CwService ==
    \/ StartService \/ CwStep("service")
    \/ EvmStandardStart \/ AptosStart \/ SolanaStart \/ TerraStart \/ AnkrStart

CwNext ==
    \/ CwGrow \/ CwService \/ StartServiceFails \/ StartBackfiller \/ CwStep("backfiller") \/ CwCrash
    \/ \E p \in Processes :
          \/ \E error \in {"rate", "other"} : EvmGetBlockFails(p, error) \/ AptosGetBlockFails(p, error)
          \/ SolanaGetBlockFails(p) \/ TerraGetBlockFails(p)
          \/ GetTransactionsByAddressFails(p)

CwSpec == CwInit /\ [][CwNext]_cwVars

\* Failures are bounded, so only the steps that succeed need be fair: the goroutine of a
\* watcher is scheduled, the calls it makes return, a process that died is started again
\* by whatever runs it.  Nothing brings back a goroutine that has ended by itself.
CwFairness == WF_cwVars(CwService)

------------------------------------------------------------------------------
(* What is checked.                                                         *)

CwTypeOK ==
    /\ watcherBlock \in CwBlocks \union {NoWatcherBlock}
    /\ destination \in [DOMAIN Redeemed -> {"absent", "unknown", "failed", "completed"}]
    /\ processed \union cwExcuse \subseteq CwBlocks
    /\ \A p \in Processes :
          LET s == running[p] IN
          /\ s.pc \in {"down", "latest", "advance", "page", "block", "store", "done", "ended"}
          /\ s.pc \in {"block", "store"} => s.block <= s.to /\ s.upto <= s.to /\ s.to <= s.last /\ s.tries < Attempts

\* The stored block never leaves a block behind that was not read, except one that
\* could not be, or that a backfiller which stores its block jumped over.  terra, which
\* tries until it succeeds, reads every block.
NoBlockForgotten ==
    \A b \in CwBlocks : InitialBlock <= b /\ b <= watcherBlock =>
        /\ b \in processed \union cwExcuse
        /\ watcherKind = "terra" /\ ~persistBlock => b \in processed

\* Unless a backfiller stores its block, the stored block does not go back: not when the
\* height cannot be read, not after a restart, not over the pages of an answer.
WatcherBlockNeverBack == [][~persistBlock => watcherBlock' >= watcherBlock]_cwVars

\* What is read once is recorded: a redeem transaction of a block that was read has a
\* status, that of the chain unless its receipt could not be had, and reading the block
\* again, by either process, does not lose it.
StatusTruthful ==
    \A b \in DOMAIN Redeemed :
        /\ destination[b] \in {"absent", "unknown", Truth(b)}
        /\ b \in processed /\ b \notin cwExcuse => destination[b] # "absent"

\* Every block of the chain is in the end read, or passed over with a reason, unless the
\* watcher ended when it could not read where to start from, or an evm block up to it has
\* an input that kills whoever reads it.
EveryCwBlockRead ==
    \A b \in CwBlocks : (b >= InitialBlock /\ b <= cwTop /\ cwTop > InitialBlock) ~>
        \/ b \in processed \union cwExcuse
        \/ running["service"].pc = "ended"
        \/ watcherKind = "evm" /\ \E c \in ShortInput : c <= b
=============================================================================
