------------------------------ MODULE ChainTx ------------------------------
(***************************************************************************)
(* tx-tracker/chains: the transaction of a VAA is read from a node of its    *)
(* chain.  One or two calls make a fetch, each after a tick of the rate      *)
(* limiter of the node, and any call may fail.  A transaction of wormchain   *)
(* is only the end of a path: the packet in it is looked up on the chain     *)
(* that sent it.                                                             *)
(***************************************************************************)
EXTENDS Naturals, Sequences, FiniteSets

CONSTANTS
    Fetchers,    \* the goroutines that fetch, one fetch each
    Asked,       \* the transactions that may be asked for
    ChainOf,     \* Asked -> chain
    Received,    \* Asked -> the recv_packet events in a wormchain transaction
    Sent,        \* the packets that other chains sent, with their transactions
    Network      \* the p2p network: "mainnet" or "testnet"

\* The attributes of a recv_packet event: id is the sequence and the timeout,
\* data the sender and the receiver.  An event may lack some of them.
Attributes == {"src", "dst", "id", "data"}

Supported == {"algorand", "aptos", "solana", "sui", "evm", "cosmos", "wormchain", "sei"}
Relayers == {"osmosis", "kujira", "evmos"}

VARIABLES fetch,      \* what each fetcher is doing
          limiter,    \* the rate limiters: a tick to take, calls since the last one
          cancelled   \* the context is done

chainVars == <<fetch, limiter, cancelled>>

NoPacket == [a \in Attributes |-> "none"]
NoOrigin == [chain |-> "none", hash |-> "none", address |-> "none"]

------------------------------------------------------------------------------
\* Initialize: every chain has a ticker of its own.  The three chains behind
\* wormchain share that of osmosis, and sei asks wormchain at wormchain's.
LimiterOf(chain, call) ==
    IF chain = "wormchain" /\ call = 2 THEN "osmosis"
    ELSE IF chain = "sei" /\ call = 1 THEN "wormchain" ELSE chain

LimitersOf(t) == {LimiterOf(ChainOf[t], call) : call \in {1, 2}}

\* fetchWormchainDetail: of several packets every attribute of a later one
\* replaces that of an earlier one.
WormchainDetail(events) ==
    [a \in Attributes |->
        LET having == {i \in DOMAIN events : a \in DOMAIN events[i]}
        IN  IF having = {} THEN "none"
            ELSE events[CHOOSE i \in having : \A j \in having : j <= i][a]]

Channels(p, src, dst) == p.src = src /\ p.dst = dst

IsOsmosisTx(p) ==
    \/ Network = "mainnet" /\ Channels(p, "channel-2186", "channel-3")
    \/ Network = "testnet" /\ Channels(p, "channel-3086", "channel-5")

IsKujiraTx(p) == Network = "mainnet" /\ Channels(p, "channel-113", "channel-9")

IsEvmosTx(p) == Network = "mainnet" /\ Channels(p, "channel-94", "channel-5")

Relayer(p) ==
    CASE IsOsmosisTx(p) -> "osmosis" [] IsKujiraTx(p) -> "kujira"
      [] IsEvmosTx(p) -> "evmos" [] ~(IsOsmosisTx(p) \/ IsKujiraTx(p) \/ IsEvmosTx(p)) -> "none"

\* A transaction has a sequence of events, and packets are sent through channels:
\* those of the chains behind wormchain, on mainnet, through the ones above.
ASSUME ChainTxAssumption ==
    /\ \A t \in Asked : Received[t] \in Seq({Received[t][i] : i \in DOMAIN Received[t]})
    /\ \A s \in Sent : s.src # "none"
    /\ Network = "mainnet" => \A s \in Sent : s.chain \in Relayers => Relayer(s) # "none"

\* tx_search of fetchOsmosisDetail, fetchKujiraDetail, fetchEvmosDetail and
\* fetchTxSearch: the transactions of chain that sent the packet.
TxSearch(chain, p) ==
    {s \in Sent : s.chain = chain /\ s.id = p.id /\ s.src = p.src /\ s.dst = p.dst}

------------------------------------------------------------------------------
ChainInit ==
    /\ fetch \in [Fetchers -> {[tx |-> t, call |-> 1, at |-> "fetch", packet |-> NoPacket,
                                out |-> "none", origin |-> NoOrigin, from |-> "none", said |-> "none"] :
                               t \in Asked}]
    /\ limiter = [l \in UNION {LimitersOf(fetch[w].tx) : w \in Fetchers} |-> [tick |-> FALSE, passed |-> 0]]
    /\ cancelled = FALSE

Chain(w) == ChainOf[fetch[w].tx]

FailFetch(w, why) == fetch' = [fetch EXCEPT ![w].at = "done", ![w].out = why]

Succeed(w, from, origin) ==
    fetch' = [fetch EXCEPT ![w].at = "done", ![w].out = "detail", ![w].from = from, ![w].origin = origin]

\* FetchTx: the fetcher of the chain.
FetchTx(w) ==
    /\ fetch[w].at = "fetch"
    /\ IF Chain(w) \in Supported
       THEN \/ fetch' = [fetch EXCEPT ![w].at = "wait"]
            \* Aptos and Solana: the hash in the VAA has to be decoded first.
            \/ Chain(w) \in {"aptos", "solana"} /\ FailFetch(w, "error")
       ELSE FailFetch(w, "unsupported")
    /\ UNCHANGED <<limiter, cancelled>>

\* A ticker whose channel holds a tick drops the next.
LimiterTicks(l) ==
    /\ ~limiter[l].tick /\ \E w \in Fetchers : fetch[w].at = "wait"
    /\ limiter' = [limiter EXCEPT ![l] = [tick |-> TRUE, passed |-> 0]]
    /\ UNCHANGED <<fetch, cancelled>>

\* The tick a call waited for is taken out of the channel.
Taken(l) == [limiter[l] EXCEPT !.tick = FALSE, !.passed = @ + 1]

\* waitForRateLimiter: the select may take either of two that are ready.
WaitForRateLimiter(w) ==
    LET l == LimiterOf(Chain(w), fetch[w].call)
    IN  /\ fetch[w].at = "wait"
        /\ \/ /\ limiter[l].tick
              /\ limiter' = [limiter EXCEPT ![l] = Taken(l)]
              /\ fetch' = [fetch EXCEPT ![w].at = "call"]
           \/ cancelled /\ FailFetch(w, "error") /\ UNCHANGED limiter
        /\ UNCHANGED cancelled

------------------------------------------------------------------------------
\* httpGet, httpPost and CallContext: the call fails, on the way or with a
\* status other than 200, or its answer cannot be read.
CallFails(w) ==
    /\ fetch[w].at = "call"
    /\ FailFetch(w, "error")
    /\ UNCHANGED <<limiter, cancelled>>

\* What the n-th call of a fetch from a node of chain may end in.
Called(w, chain, n) == fetch[w].at = "call" /\ Chain(w) = chain /\ fetch[w].call = n

Call(w, chain, n, outcome) ==
    Called(w, chain, n) /\ outcome /\ UNCHANGED <<limiter, cancelled>>

\* The node does not know the transaction.
NotThere(w, why) ==
    fetch' = [fetch EXCEPT ![w].at = "done", ![w].said = "absent", ![w].out = why]

Found(w) == Succeed(w, fetch[w].tx, NoOrigin)

AskFor(w, packet) == fetch' = [fetch EXCEPT ![w].at = "wait", ![w].call = 2, ![w].packet = packet]

\* The indexer answers 404 like any other failure.
FetchAlgorandTx(w) == Call(w, "algorand", 1, Found(w) \/ NotThere(w, "error"))

FetchSuiTx(w) == Call(w, "sui", 1, Found(w) \/ NotThere(w, "notfound"))

\* A transaction without a block or a sender is none.
FetchEthTx(w) == Call(w, "evm", 1, Found(w) \/ NotThere(w, "notfound"))

\* No message of the transaction may execute a contract.
FetchCosmosTx(w) ==
    Call(w, "cosmos", 1, Found(w) \/ NotThere(w, "notfound") \/ FailFetch(w, "error"))

\* The signatures of the account, of which there may be none or several, and
\* the transaction of the only one, which may be without inner instructions
\* or signer.
FetchSolanaTx(w) ==
    \/ Call(w, "solana", 1, AskFor(w, NoPacket) \/ NotThere(w, "notfound") \/ FailFetch(w, "error"))
    \/ Call(w, "solana", 2, Found(w) \/ FailFetch(w, "error"))

\* The event with the sequence, and the transaction of its version.
FetchAptosTx(w) ==
    \/ Call(w, "aptos", 1, AskFor(w, NoPacket) \/ NotThere(w, "notfound") \/ FailFetch(w, "error"))
    \/ Call(w, "aptos", 2, Found(w))

\* The origin of the packet: the first of the transactions that are found.
\* When there is none, or not yet, the fetch fails.  The sender is the
\* packet's, on sei that of the transaction.
SearchOrigin(w, chain) ==
    LET p == fetch[w].packet
    IN  \/ \E s \in TxSearch(chain, p) :
              Succeed(w, p.data, [chain |-> chain, hash |-> s.tx,
                                     address |-> IF chain = "sei" THEN s.sender ELSE p.data])
        \/ FailFetch(w, "error")

\* A packet that came through none of the known channels ends the fetch.
FetchWormchainTx(w) ==
    LET p == WormchainDetail(Received[fetch[w].tx])
    IN  \/ Call(w, "wormchain", 1,
                \/ NotThere(w, "error")
                \/ IF Relayer(p) = "none" THEN Succeed(w, p.data, NoOrigin) ELSE AskFor(w, p))
        \/ Call(w, "wormchain", 2, SearchOrigin(w, Relayer(fetch[w].packet)))

FetchSeiTx(w) ==
    \/ Call(w, "sei", 1, NotThere(w, "error") \/ AskFor(w, WormchainDetail(Received[fetch[w].tx])))
    \/ Call(w, "sei", 2, SearchOrigin(w, "sei"))

\* The service is stopped.
CancelFetches ==
    /\ ~cancelled /\ cancelled' = TRUE
    /\ UNCHANGED <<fetch, limiter>>

Fetch(w) ==
    \/ FetchTx(w) \/ WaitForRateLimiter(w) \/ CallFails(w)
    \/ FetchAlgorandTx(w) \/ FetchSuiTx(w) \/ FetchEthTx(w) \/ FetchCosmosTx(w)
    \/ FetchSolanaTx(w) \/ FetchAptosTx(w) \/ FetchWormchainTx(w) \/ FetchSeiTx(w)

\* What goes on by itself: a call is answered or fails, and tickers tick.
ChainStep ==
    \/ \E w \in Fetchers : Fetch(w)
    \/ \E l \in DOMAIN limiter : LimiterTicks(l)

ChainNext == ChainStep \/ CancelFetches

------------------------------------------------------------------------------
SamePacket(s, e) == s.id = e.id /\ s.src = e.src /\ s.dst = e.dst

Whole(t) == \A i \in DOMAIN Received[t] : DOMAIN Received[t][i] = Attributes

\* However many packets a wormchain transaction received, the origin, its
\* address and the receiver stored for the VAA are those of one of them.  (Of
\* events without some attribute the code would mix two.)
OneOrigin ==
    \A w \in Fetchers : LET f == fetch[w] IN
        f.origin # NoOrigin /\ Whole(f.tx) =>
            \E i \in DOMAIN Received[f.tx], s \in Sent :
                LET e == Received[f.tx][i]
                IN  /\ SamePacket(s, e) /\ s.tx = f.origin.hash /\ s.chain = f.origin.chain
                    /\ f.from = e.data
                    /\ f.origin.address = IF Chain(w) = "sei" THEN s.sender ELSE e.data

\* On mainnet no detail of a gateway transfer is stored without its origin: if
\* the packet was sent by osmosis, kujira or evmos and cannot be found there,
\* the fetch fails, to be tried again, and stores nothing.
NoOriginOnlyWithoutGateway ==
    \A w \in Fetchers : LET f == fetch[w] events == Received[f.tx] IN
        f.out = "detail" /\ Chain(w) = "wormchain" /\ f.origin = NoOrigin /\ Whole(f.tx) /\ Network = "mainnet" =>
            events = <<>> \/ ~\E s \in Sent : s.chain \in Relayers /\ SamePacket(s, events[Len(events)])

\* A transaction is reported missing only if a node said so.
NotFoundTruthful == \A w \in Fetchers : fetch[w].out = "notfound" => fetch[w].said = "absent"

\* Between two ticks of a limiter one call passes, whoever shares it.
RateKept == \A l \in DOMAIN limiter : limiter[l].passed <= 1

FetchesRight == OneOrigin /\ NoOriginOnlyWithoutGateway /\ NotFoundTruthful /\ RateKept

\* Every fetch ends, with a detail or an error.
FetchesEnd == \A w \in Fetchers : <>(fetch[w].at = "done")
=============================================================================
