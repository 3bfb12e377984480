------------------------------ MODULE MCPolling ------------------------------
(* Small instances of the jobs of blockchain-watcher: one that polls the     *)
(* logs of an EVM chain, or one that polls the transactions of Solana.       *)
EXTENDS PollEvmLogs, PollSolana

CONSTANTS h1, h2, Sources

VARIABLE source \* what the job polls

MCHandlers == {h1, h2}

\* A first and a last block, on a node that never goes back; neither of them, on
\* one that may be two blocks behind; a first block, on one that may be one behind.
MCJobs ==
    {[fromBlock |-> 1, toBlock |-> 4, blockBatchSize |-> 2, maxLag |-> 0],
     [fromBlock |-> NoBlock, toBlock |-> NoBlock, blockBatchSize |-> 1, maxLag |-> 2]}
MCLaggingJobs ==
    {[fromBlock |-> 1, toBlock |-> NoBlock, blockBatchSize |-> 1, maxLag |-> 1]}
MCConfigured == {[fromBlock |-> 1, toBlock |-> 4, blockBatchSize |-> 2, maxLag |-> 0]}

\* Slot 4 is skipped; slot 2 holds more of the program than a page; slot 7, the last to
\* be read, is skipped as well, between two blocks of the same second.
MCSlots == <<<<1, 2>>, <<3, 4, 5, 6, 7>>, <<8, 9>>, Skipped, <<10, 11, 12>>, <<13, 14>>,
             Skipped, <<15, 16>>>>
MCBlockTime == <<1, 1, 2, 2, 3, 3, 3, 3>>
MCOfProgram == {4, 5, 6, 7, 9, 11, 13}

MCInit ==
    /\ source \in Sources /\ Init /\ SolanaInit
    /\ source = "solana" => cfg = (CHOOSE j \in Jobs : TRUE) /\ top = 0

allVars == <<source, vars, solanaVars>>

Evm(action) == source = "evm" /\ action /\ UNCHANGED <<source, solanaVars>>
Solana(action) == source = "solana" /\ action /\ UNCHANGED <<source, vars>>

\* The loop of the job keeps running; faults stop.
MCSpec ==
    /\ MCInit /\ [][Evm(Next) \/ Solana(SolanaNext)]_allVars
    /\ WF_allVars(Evm(Round)) /\ WF_allVars(Solana(SolanaRound))

------------------------------------------------------------------------------

\* Both modules are typed.
PollingTypeOK == TypeOK /\ SolanaTypeOK

\* Whatever fails, crashes or is answered late, the saved cursor of either job never
\* passes what was not handed to every handler, for a reason other than those named.
NothingSkipped == NoGap /\ NoSlotGap

\* Neither job hands out what its saved cursor says is done; that of Solana with the
\* exception of a range without a block.
NothingRepeated == NothingRepeatedBelowCursor /\ NoSlotRepeated

\* Both jobs get to the end of the chain, if failures stop.
EverythingHandled == EveryBlockHandled /\ (source = "solana" => EveryTransactionPassed)
=============================================================================
