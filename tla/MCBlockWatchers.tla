-------------------------- MODULE MCBlockWatchers --------------------------
(* Small instances of the services that follow a chain block by block and    *)
(* write what they find to mongo: a watcher of contract-watcher, or one of   *)
(* event-watcher.                                                            *)
EXTENDS ContractWatchers, EventWatcher

VARIABLE service \* the one that is deployed

MCWatched == {"evm", "aptos", "solana", "terra", "ankr"}
MCRedeemed == [b \in {2, 4} |-> b = 2]
MCShort == {4}
MCBackfill == [from |-> 3, to |-> 4]

MCReaders == {"evm", "arbitrum", "aptos", "cosmwasm", "wormchain", "injective", "terra", "sei",
              "sui", "near", "algorand", "solana"}
MCChain == <<1, 2, 2, 4>>
MCRedeems == {2, 3}
MCFilled == {1, 2, 4}
MCEdges == {2}

MCInit ==
    /\ service \in {"contract-watcher", "event-watcher"}
    /\ CwInit /\ EwInit
    \* The kind of the service that is not deployed does not matter.
    /\ service # "contract-watcher" => watcherKind = "evm" /\ persistBlock = FALSE
    /\ service # "event-watcher" => reader = "evm"

allVars == <<service, cwVars, ewVars>>

ContractWatcher(step) == service = "contract-watcher" /\ step /\ UNCHANGED <<service, ewVars>>
EventWatcherDoes(step) == service = "event-watcher" /\ step /\ UNCHANGED <<service, cwVars>>

\* CwFairness and EwFairness, of the one that is deployed.
MCSpec ==
    /\ MCInit /\ [][ContractWatcher(CwNext) \/ EventWatcherDoes(EwNext)]_allVars
    /\ WF_allVars(ContractWatcher(CwService))
    /\ WF_allVars(EventWatcherDoes(Watch)) /\ WF_allVars(EventWatcherDoes(PublishMessages))

------------------------------------------------------------------------------
\* Both modules are typed, and the stored block of contract-watcher leaves no block
\* behind unread: see NoBlockForgotten.
BlocksAccounted == CwTypeOK /\ EwTypeOK /\ NoBlockForgotten

\* The stored block of either service goes back only for the reasons the two name: a
\* backfiller that stores its block, a last block that could not be read at the start.
StoredBlockNeverBack == WatcherBlockNeverBack /\ LastBlockNeverBack

\* What redeem transactions there are in blocks that were read is on record, by whichever
\* of the services.
RedeemsRecorded == StatusTruthful /\ RedeemNotLost

\* Every block and every message is in the end read, or passed over with a reason, unless
\* the watcher has ended for good: see EveryCwBlockRead.
EverythingRead == EveryCwBlockRead /\ (service = "event-watcher" => EveryMessageStored)
=============================================================================
