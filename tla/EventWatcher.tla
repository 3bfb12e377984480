----------------------------- MODULE EventWatcher -----------------------------
(***************************************************************************)
(* One watcher of event-watcher: the loop of BaseWatcher.watch over the     *)
(* readers of the different chains.  A round reads the messages of a range  *)
(* of blocks, stores them in wormholeTxs, publishes them, stores the        *)
(* redeemed transfers and the last block.  Whatever fails is logged and the *)
(* next round starts behind the range.  redeemed transfers go to            *)
(* globalTransactions, which tx-tracker and contract-watcher write as well. *)
(***************************************************************************)
EXTENDS Integers, Sequences, FiniteSets

CONSTANTS
    Readers,      \* the kinds of watcher
    Chain,        \* Chain[m]: the block of message m, in order
    Redeems,      \* blocks with a redeemed transfer (evm)
    FilledSlots,  \* solana: slots that were not skipped
    EdgeMessages, \* solana: messages first or last in their slot
    FirstBlock,   \* INITIAL_DEPLOYMENT_BLOCK_BY_CHAIN
    MaximumBatchSize,
    Limit,        \* messages of a page
    MaxEwBlock,   \* bound: height of the chain
    MaxEwFaults   \* bound: failed calls and crashes

ASSUME ChainAssumption ==
    /\ MaxEwBlock \in Nat /\ MaxEwFaults \in Nat
    /\ FirstBlock \in 1..MaxEwBlock /\ MaximumBatchSize \in Nat \ {0} /\ Limit \in Nat \ {0}
    /\ FilledSlots \union Redeems \subseteq FirstBlock .. MaxEwBlock
    /\ Chain \in Seq(FilledSlots)
    /\ \A m, n \in DOMAIN Chain : m <= n => Chain[m] <= Chain[n]

VARIABLES
    reader,      \* the kind of this chain's watcher
    ewTop,       \* its (final) height; of arbitrum the height of L2
    l1Final,     \* arbitrum: the L1 block that is final
    l1L2Map,     \* arbitrum: L1 block and the highest L2 block seen with it, in order of insertion
    latestL2Finalized, \* arbitrum
    ewPc, fromBlock, toBlock,
    got,         \* messages this round has read
    pos,         \* where the paging is
    wormholeTxs, \* messages in the collection
    sending,     \* messages handed to SNS and not yet sent
    snsMessages, \* messages sent
    todo,        \* redeemed transfers of this round still to be stored
    looked,      \* what the one at hand found in globalTransactions
    destinationTx, \* destinationTx[b]: the document of the transfer redeemed in b
    lastBlock,   \* the document in lastBlocksByChain
    unread,      \* history: the watcher was started without being able to read it
    ewExcuse, redeemExcuse, \* history: messages and transfers lost by a failure
    ewFaults

ewChain == <<reader, ewTop, l1Final>>
ewHeight == <<l1L2Map, latestL2Finalized>>
ewRange == <<fromBlock, toBlock>>
ewRead == <<got, pos>>
ewStore == <<wormholeTxs, sending, snsMessages, ewExcuse>>
ewRedeem == <<todo, looked, destinationTx, redeemExcuse>>
ewLast == <<lastBlock, unread>>
ewVars == <<ewChain, ewHeight, ewPc, ewRange, ewRead, ewStore, ewRedeem, ewLast, ewFaults>>

Null == -1
Messages == DOMAIN Chain
EwBlocks == FirstBlock .. MaxEwBlock
L1Of(b) == (b + 1) \div 2
MessagesIn(from, to) == {m \in Messages : from <= Chain[m] /\ Chain[m] <= to}
Highest(s) == CHOOSE x \in s : \A y \in s : y <= x
Lowest(s) == CHOOSE x \in s : \A y \in s : x <= y

EwInit ==
    /\ reader \in Readers
    /\ ewTop = FirstBlock /\ l1Final = 0
    /\ l1L2Map = <<>> /\ latestL2Finalized = 0
    /\ ewPc = "start" /\ fromBlock = Null /\ toBlock = Null
    /\ got = {} /\ pos = 0
    /\ wormholeTxs = {} /\ sending = {} /\ snsMessages = {} /\ ewExcuse = {}
    /\ todo = {} /\ looked = "not looked" /\ redeemExcuse = {}
    /\ destinationTx = [b \in Redeems |-> "none"]
    /\ lastBlock = Null /\ unread = FALSE
    /\ ewFaults = 0

EwFault == ewFaults < MaxEwFaults /\ ewFaults' = ewFaults + 1

EwGrow ==
    /\ \/ ewTop < MaxEwBlock /\ ewTop' = ewTop + 1 /\ UNCHANGED l1Final
       \/ /\ reader = "arbitrum" /\ l1Final < L1Of(ewTop)
          /\ l1Final' = l1Final + 1 /\ UNCHANGED ewTop
    /\ UNCHANGED <<reader, ewHeight, ewPc, ewRange, ewRead, ewStore, ewRedeem, ewLast, ewFaults>>

------------------------------------------------------------------------------
(* Starting, and the height                                                 *)

GetResumeBlockByChain(last) == IF last > 0 THEN last + 1 ELSE FirstBlock

\* The last blocks are read when the process starts; none if that fails.
EwStart ==
    /\ ewPc = "start"
    /\ \/ fromBlock' = GetResumeBlockByChain(lastBlock) /\ UNCHANGED <<unread, ewFaults>>
       \/ EwFault /\ fromBlock' = GetResumeBlockByChain(Null) /\ unread' = TRUE
    /\ toBlock' = Null
    /\ ewPc' = "loop"
    /\ UNCHANGED <<ewChain, ewHeight, ewRead, ewStore, ewRedeem, lastBlock>>

\* A range to read, or nothing to do but ask for the height.
Loop ==
    /\ ewPc = "loop"
    /\ IF toBlock # Null /\ fromBlock <= toBlock
       THEN /\ toBlock' = Lowest({fromBlock + MaximumBatchSize - 1, toBlock})
            /\ ewPc' = "read"
       ELSE ewPc' = "height" /\ UNCHANGED toBlock
    /\ got' = {} /\ pos' = 0
    /\ UNCHANGED <<ewChain, ewHeight, fromBlock, ewStore, ewRedeem, ewLast, ewFaults>>

\* ArbitrumWatcher: the block seen goes into the map if it is newer.
Seen(b) ==
    LET l1 == L1Of(b)
        at == {i \in DOMAIN l1L2Map : l1L2Map[i].l1 = l1}
    IN IF at = {} THEN Append(l1L2Map, [l1 |-> l1, l2 |-> b])
       ELSE [i \in DOMAIN l1L2Map |->
                IF i \in at /\ l1L2Map[i].l2 < b THEN [l1 |-> l1, l2 |-> b] ELSE l1L2Map[i]]

\* Mutant: the entry next to the last final one is taken.
IsFinalSoon(e) == e.l1 <= l1Final + 1

IsFinal(e) == e.l1 <= l1Final

\* The map is looked at every 30 seconds; the last final entry wins, all of them go.
ArbitrumFinalized(b) ==
    \/ /\ l1L2Map' = Seen(b) /\ UNCHANGED latestL2Finalized
    \/ LET map == Seen(b)
           final == {i \in DOMAIN map : IsFinal(map[i])}
           rest == 1 .. Cardinality(DOMAIN map \ final)
       IN /\ latestL2Finalized' = IF final = {} THEN latestL2Finalized ELSE map[Highest(final)].l2
          /\ \E at \in [rest -> DOMAIN map \ final] :
                /\ \A i, j \in rest : i < j => at[i] < at[j]
                /\ l1L2Map' = [i \in rest |-> map[at[i]]]

\* The node that answers may be a block behind one that answered before.
GetFinalizedBlockNumber ==
    /\ ewPc = "height"
    /\ \E b \in {ewTop, ewTop - 1} :
          /\ b >= FirstBlock
          /\ IF reader = "arbitrum"
             THEN ArbitrumFinalized(b) /\ toBlock' = latestL2Finalized'
             ELSE toBlock' = b /\ UNCHANGED ewHeight
          \* An answer that changes nothing is the one the loop waits through.
          /\ <<toBlock', l1L2Map'>> # <<toBlock, l1L2Map>> \/ fromBlock <= toBlock'
    /\ ewPc' = "loop"
    /\ UNCHANGED <<ewChain, fromBlock, ewRead, ewStore, ewRedeem, ewLast, ewFaults>>

\* No height: no reading until there is one.
GetFinalizedBlockNumberFails ==
    /\ ewPc = "height" /\ EwFault
    /\ toBlock' = Null
    /\ ewPc' = "loop"
    /\ UNCHANGED <<ewChain, ewHeight, fromBlock, ewRead, ewStore, ewRedeem, ewLast>>

------------------------------------------------------------------------------
(* The readers: getWhTxs of a range                                         *)

Reading(kinds) == ewPc = "read" /\ reader \in kinds

\* More pages to read, or all of them read.
Page(more, at) ==
    /\ ewPc' = IF more THEN "read" ELSE "store"
    /\ pos' = at
    /\ UNCHANGED <<ewChain, ewHeight, ewRange, ewRedeem, ewLast, wormholeTxs, sending, snsMessages>>

\* One answer for the range: the logs of the core contract,
EvmGetWhTxs ==
    /\ Reading({"evm", "arbitrum"})
    /\ got' = MessagesIn(fromBlock, toBlock)
    /\ Page(FALSE, 0)
    /\ UNCHANGED <<ewExcuse, ewFaults>>

\* or the events of aptos, by the sequence numbers between two blocks.
AptosGetWhTxs ==
    /\ Reading({"aptos"})
    /\ got' = MessagesIn(fromBlock, toBlock)
    /\ Page(FALSE, 0)
    /\ UNCHANGED <<ewExcuse, ewFaults>>

\* The messages of found, those of a transaction left out that cannot be fetched
\* or whose JSON the node cannot make.
Fetch(found) ==
    \/ got' = got \union found /\ UNCHANGED <<ewExcuse, ewFaults>>
    \/ /\ EwFault
       /\ \E m \in found : got' = got \union (found \ {m}) /\ ewExcuse' = ewExcuse \union {m}

\* Block after block.
CosmwasmGetWhTxs ==
    LET block == fromBlock + pos IN
    /\ Reading({"cosmwasm"})
    /\ Fetch(MessagesIn(block, block))
    /\ Page(block < toBlock, pos + 1)

WormchainGetWhTxs ==
    LET block == fromBlock + pos IN
    /\ Reading({"wormchain"})
    /\ Fetch(MessagesIn(block, block))
    /\ Page(block < toBlock, pos + 1)

\* Mutant: a transaction of the first block ends the paging.
BelowFirst(page) == \E m \in page : Chain[m] <= fromBlock

Below(page) == \E m \in page : Chain[m] < fromBlock

\* The explorers list the transactions of a contract, latest first, by offset,
\* until one is below the range or the page is not full.
ListPage == LET visible == Cardinality(MessagesIn(FirstBlock, ewTop))
            IN {m \in 1..visible - pos : m > visible - pos - Limit}
Listed == ListPage \intersect MessagesIn(fromBlock, toBlock)
TurnPage == Page(~Below(ListPage) /\ Cardinality(ListPage) = Limit, pos + Cardinality(ListPage))

\* Of injective those of the token bridge, of terra those of the core contract.
InjectiveGetWhTxs ==
    /\ Reading({"injective"})
    /\ got' = got \union Listed
    /\ TurnPage
    /\ UNCHANGED <<ewExcuse, ewFaults>>

TerraGetWhTxs ==
    /\ Reading({"terra"})
    /\ got' = got \union Listed
    /\ TurnPage
    /\ UNCHANGED <<ewExcuse, ewFaults>>

\* Of sei the list has hashes only, and an empty page is an error.
SeiGetWhTxs ==
    /\ Reading({"sei"})
    /\ ListPage # {}
    /\ Fetch(Listed)
    /\ TurnPage

\* The pages of sui go on from a cursor until one ends at or below the range:
\* messages of the first checkpoint may be on the next.
SuiGetWhTxs ==
    LET below == IF pos = 0 THEN Cardinality(MessagesIn(FirstBlock, ewTop)) ELSE pos - 1
        page == {m \in 1..below : m > below - Limit}
        found == page \intersect MessagesIn(fromBlock, toBlock)
        more == page # {} /\ Lowest(page) > 1 /\ fromBlock < Chain[Lowest(page)]
    IN /\ Reading({"sui"})
       /\ got' = got \union found
       /\ ewExcuse' = IF more THEN ewExcuse
                      ELSE ewExcuse \union {m \in Messages : Chain[m] = fromBlock /\ m \notin got'}
       /\ Page(more, IF page = {} THEN 0 ELSE Lowest(page))
       /\ UNCHANGED ewFaults

\* Back from the last block by the hash of the previous; the blocks the node has
\* no more are only logged.
NearGetWhTxs ==
    /\ Reading({"near"})
    /\ \/ got' = MessagesIn(fromBlock, toBlock) /\ UNCHANGED <<ewExcuse, ewFaults>>
       \/ /\ EwFault
          /\ \E b \in fromBlock .. toBlock :
                /\ got' = MessagesIn(b + 1, toBlock)
                /\ ewExcuse' = ewExcuse \union MessagesIn(fromBlock, b)
    /\ Page(FALSE, 0)

AlgorandMore(page) == Cardinality(page) = Limit

\* Page after page of the indexer, as long as they are full.
AlgorandGetWhTxs ==
    LET after == {m \in MessagesIn(fromBlock, toBlock) : m > pos}
        page == {m \in after : Cardinality({n \in after : n < m}) < Limit}
    IN /\ Reading({"algorand"})
       /\ got' = got \union page
       /\ Page(AlgorandMore(page), IF page = {} THEN pos ELSE Highest(page))
       /\ UNCHANGED <<ewExcuse, ewFaults>>

\* Between the first transaction of the first slot and the last of the last that
\* were not skipped, both excluded.
SolanaGetWhTxs ==
    LET slots == FilledSlots \intersect fromBlock .. toBlock
        edges == {m \in EdgeMessages : Chain[m] \in {Lowest(slots), Highest(slots)}}
    IN /\ Reading({"solana"})
       /\ slots # {}
       /\ got' = MessagesIn(fromBlock, toBlock) \ edges
       /\ ewExcuse' = ewExcuse \union edges
       /\ Page(FALSE, 0)
       /\ UNCHANGED ewFaults

\* A call of a reader fails; or all slots were skipped ("invalid block range"); or
\* the list of sei has ended.
NothingToRead ==
    \/ reader = "solana" /\ FilledSlots \intersect fromBlock .. toBlock = {}
    \/ reader = "sei" /\ pos >= Cardinality(MessagesIn(FirstBlock, ewTop))

GetWhTxsFails ==
    /\ ewPc = "read"
    /\ IF NothingToRead THEN UNCHANGED ewFaults ELSE EwFault
    /\ ewExcuse' = ewExcuse \union MessagesIn(fromBlock, toBlock)
    /\ redeemExcuse' = redeemExcuse \union (Redeems \intersect fromBlock .. toBlock)
    /\ ewPc' = "next"
    /\ UNCHANGED <<ewChain, ewHeight, ewRange, ewRead, wormholeTxs, sending, snsMessages,
                   todo, looked, destinationTx, ewLast>>

------------------------------------------------------------------------------
(* Storing                                                                  *)

\* storeWhTxs, one after the other; its errors are only logged.
StoreWhTxs ==
    /\ ewPc = "store"
    /\ \/ wormholeTxs' = wormholeTxs \union got /\ UNCHANGED <<ewExcuse, ewFaults>>
       \/ /\ got # {} /\ EwFault
          /\ \E n \in got : /\ wormholeTxs' = wormholeTxs \union {m \in got : m < n}
                            /\ ewExcuse' = ewExcuse \union {m \in got : m >= n}
    /\ ewPc' = "publish"
    /\ UNCHANGED <<ewChain, ewHeight, ewRange, ewRead, sending, snsMessages, ewRedeem, ewLast>>

\* createMessages does not wait for the publishing it starts.
CreateMessages ==
    /\ ewPc = "publish"
    /\ sending' = sending \union got
    /\ todo' = IF reader = "evm" THEN Redeems \intersect fromBlock .. toBlock ELSE {}
    /\ ewPc' = "redeem"
    /\ UNCHANGED <<ewChain, ewHeight, ewRange, ewRead, wormholeTxs, snsMessages, ewExcuse,
                   looked, destinationTx, redeemExcuse, ewLast, ewFaults>>

PublishMessages ==
    /\ sending # {} /\ sending' = {}
    /\ \/ snsMessages' = snsMessages \union sending /\ UNCHANGED ewFaults
       \/ EwFault /\ UNCHANGED snsMessages
    /\ UNCHANGED <<ewChain, ewHeight, ewPc, ewRange, ewRead, wormholeTxs, ewExcuse, ewRedeem, ewLast>>

\* storeRedeemedTxs: looks for the document ...
FindGlobalTx ==
    /\ ewPc = "redeem" /\ todo # {} /\ looked = "not looked"
    /\ looked' = destinationTx[Lowest(todo)]
    /\ UNCHANGED <<ewChain, ewHeight, ewPc, ewRange, ewRead, ewStore, todo, destinationTx, redeemExcuse, ewLast, ewFaults>>

\* Mutant: a document without destinationTx is taken for done.
SetsDestinationNever(found) == FALSE

SetsDestination(found) == found = "origin"

Stored(b) ==
    /\ todo' = todo \ {b} /\ UNCHANGED redeemExcuse

\* ... and inserts it, completes it or leaves it.  When another service has
\* inserted it in the meantime, or the call fails, the rest is given up.
WriteGlobalTx ==
    LET b == Lowest(todo) IN
    /\ ewPc = "redeem" /\ todo # {} /\ looked # "not looked"
    /\ looked' = "not looked"
    /\ \/ /\ UNCHANGED ewFaults
          /\ \/ /\ (looked = "none" /\ destinationTx[b] = "none") \/ SetsDestination(looked)
                /\ destinationTx' = [destinationTx EXCEPT ![b] = "event-watcher"]
                /\ Stored(b)
             \/ /\ looked # "none" /\ ~SetsDestination(looked)
                /\ UNCHANGED destinationTx /\ Stored(b)
             \/ /\ looked = "none" /\ destinationTx[b] # "none"
                /\ todo' = {} /\ redeemExcuse' = redeemExcuse \union todo
                /\ UNCHANGED destinationTx
       \/ /\ EwFault
          /\ todo' = {} /\ redeemExcuse' = redeemExcuse \union todo
          /\ UNCHANGED destinationTx
    /\ UNCHANGED <<ewChain, ewHeight, ewPc, ewRange, ewRead, ewStore, ewLast>>

\* tx-tracker makes the document, contract-watcher sets its destinationTx.
OtherServices ==
    /\ \E b \in Redeems :
          \/ destinationTx[b] = "none" /\ destinationTx' = [destinationTx EXCEPT ![b] = "origin"]
          \/ destinationTx[b] \in {"none", "origin"} /\ destinationTx' = [destinationTx EXCEPT ![b] = "contract-watcher"]
    /\ reader = "evm"
    /\ UNCHANGED <<ewChain, ewHeight, ewPc, ewRange, ewRead, ewStore, todo, looked, redeemExcuse, ewLast, ewFaults>>

\* storeLatestProcessBlock, whose error is only logged.
StoreLatestProcessBlock ==
    /\ ewPc = "redeem" /\ todo = {}
    /\ \/ lastBlock' = toBlock /\ UNCHANGED ewFaults
       \/ EwFault /\ UNCHANGED lastBlock
    /\ ewPc' = "next"
    /\ UNCHANGED <<ewChain, ewHeight, ewRange, ewRead, ewStore, ewRedeem, unread>>

\* Mutant: the range that was read last is the one the height ends.
NextFromTop == ewTop + 1

NextFrom == toBlock + 1

\* Behind the range, whether or not it failed.
NextRange ==
    /\ ewPc = "next"
    /\ fromBlock' = NextFrom
    /\ ewPc' = "height"
    /\ UNCHANGED <<ewChain, ewHeight, toBlock, ewRead, ewStore, ewRedeem, ewLast, ewFaults>>

EwCrash ==
    /\ ewPc # "start" /\ EwFault
    /\ ewPc' = "start" /\ fromBlock' = Null /\ toBlock' = Null
    /\ got' = {} /\ pos' = 0 /\ sending' = {} /\ todo' = {} /\ looked' = "not looked"
    /\ l1L2Map' = <<>> /\ latestL2Finalized' = 0
    /\ UNCHANGED <<ewChain, wormholeTxs, snsMessages, ewExcuse, destinationTx, redeemExcuse, ewLast>>

GetWhTxs ==
    \/ EvmGetWhTxs \/ AptosGetWhTxs \/ CosmwasmGetWhTxs \/ WormchainGetWhTxs
    \/ InjectiveGetWhTxs \/ TerraGetWhTxs \/ SeiGetWhTxs
    \/ SuiGetWhTxs \/ NearGetWhTxs \/ AlgorandGetWhTxs \/ SolanaGetWhTxs

Watch ==
    \/ EwStart \/ Loop \/ GetFinalizedBlockNumber \/ GetWhTxs \/ (NothingToRead /\ GetWhTxsFails)
    \/ StoreWhTxs \/ CreateMessages \/ FindGlobalTx \/ WriteGlobalTx \/ StoreLatestProcessBlock \/ NextRange

EwNext ==
    \/ EwGrow \/ Watch \/ GetFinalizedBlockNumberFails \/ GetWhTxsFails
    \/ PublishMessages \/ OtherServices \/ EwCrash

EwSpec == EwInit /\ [][EwNext]_ewVars

\* The loop runs on, the publishing it starts is worked off.
EwFairness == WF_ewVars(Watch) /\ WF_ewVars(PublishMessages)

------------------------------------------------------------------------------
(* What is checked.                                                         *)

EwTypeOK ==
    /\ {lastBlock, fromBlock, toBlock} \subseteq 0..MaxEwBlock + 1 \union {Null}
    /\ got \union wormholeTxs \union sending \union snsMessages \subseteq Messages
    /\ todo \union redeemExcuse \subseteq Redeems
    /\ ewPc \in {"read", "store", "publish", "redeem", "next"} => fromBlock # Null /\ toBlock # Null
    /\ ewPc \in {"read", "store", "publish", "redeem"} => fromBlock <= toBlock

\* Every message up to the stored last block is in wormholeTxs, or was lost in one of
\* the ways known: its range, its transaction or its write failed, near no longer had the
\* block, or the page of sui or the range of solana ended at its edge.  What is published
\* has been stored, or its write has failed.
NoMessageForgotten ==
    /\ \A m \in Messages :
          lastBlock # Null /\ Chain[m] <= lastBlock => m \in wormholeTxs \union ewExcuse
    /\ snsMessages \subseteq wormholeTxs \union ewExcuse

\* A redeemed transfer up to the last block has a destinationTx, whoever wrote it, unless
\* a call failed or another service inserted a document of the same round in between.
RedeemNotLost ==
    reader = "evm" => \A b \in Redeems :
        lastBlock # Null /\ b <= lastBlock =>
            destinationTx[b] \in {"event-watcher", "contract-watcher"} \/ b \in redeemExcuse

\* Of arbitrum only messages of L2 blocks whose L1 block is final are stored, although the
\* node that names the pair may lag and the map is only looked at now and then.
OnlyFinalized == reader = "arbitrum" => \A m \in wormholeTxs : L1Of(Chain[m]) <= l1Final

\* The last block goes back only if the watcher was started without it: not when
\* the height does, not when ranges fail.
LastBlockNeverBack == [][lastBlock' >= lastBlock \/ unread]_ewVars

\* Every message of the chain is in the end stored, or has been lost with a reason.
EveryMessageStored ==
    \A m \in Messages :
        (Chain[m] <= ewTop /\ (reader = "arbitrum" => L1Of(Chain[m]) < l1Final))
            ~> m \in wormholeTxs \union ewExcuse
=============================================================================
