----------------------------- MODULE MCServices -----------------------------
(***************************************************************************)
(* Small instances of the services that read what fly stores: spy, the      *)
(* governor pages of the api, the consumers, the backfillers, the metrics,    *)
(* the prices, the nodes of the chains and the pages of the api.  They share *)
(* no state that their properties are about, so that a behaviour is one of   *)
(* one of them, picked at the start, and the others rest in their first      *)
(* state.                                                                    *)
(***************************************************************************)
EXTENDS Spy, Governor, Consumers, Backfillers, Metrics, PriceCache, ChainTx, ApiReads, CachedReads

CONSTANTS s1, s2, g1, g2, g3, g4, f1, f2,
    Parts  \* the services that may be picked

\* Spy: s1 lists a filter twice, s2 takes everything.
MCSubscriptions == {s1, s2}
MCLiveSubscriptions == {s1}
MCMatches == [s \in Subscriptions |-> [v \in SpyVaas |-> IF s = s1 /\ v = 1 THEN 2 ELSE 0]]
MCKindOf == [s \in Subscriptions |-> "signed"]
MCUnfiltered == {s2} \intersect Subscriptions

\* Governor: g1 is low, g4 may report anything.
MCGuardians == {g1, g2, g3, g4}
LimitOf(g) == IF g = g1 THEN 1 ELSE IF g = g4 THEN 9 ELSE 2
HeldBack(seq, time) == [sequence |-> seq, releaseTime |-> time]
MCStatuses == [g \in MCGuardians |->
    {[remainingAvailableNotional |-> LimitOf(g), enqueuedVaas |-> {}],
     [remainingAvailableNotional |-> 1, enqueuedVaas |-> {HeldBack(1, 5)}],
     [remainingAvailableNotional |-> 0, enqueuedVaas |-> {HeldBack(1, 6), HeldBack(2, 6)}]}]
MCConfigs == [g \in MCGuardians |->
    {[notionalLimit |-> LimitOf(g), bigTransactionSize |-> 1, price |-> 1],
     [notionalLimit |-> LimitOf(g), bigTransactionSize |-> 2, price |-> 2]}]

\* Consumers: VAA 2 is filtered, VAA 3 cannot be parsed.
MCContents == {<<1, "vaa">>, <<1, "signed">>, <<1, "log">>, <<2, "vaa">>, <<3, "log">>,
               <<0, "other">>, <<0, "garbage">>}

\* Backfillers: two VAAs of one timestamp.
MCStamp == <<1, 2, 2, 3>>
MCLiveStamp == <<1, 2, 3>>

\* Metrics: a VAA of the first day with a new token, and two of one second of the
\* second day, of two emitters of one chain.
Emission(tick, sequence, token) ==
    [tick |-> tick, second |-> 0, sequence |-> sequence, chain |-> "solana", token |-> token]
MCEmitted == <<Emission(0, 1, "new"), Emission(3, 7, "old"), Emission(3, 1000007, "old")>>

\* Transactions: of wormchain one with two packets of osmosis, one with packets
\* of two chains, one with half a packet, and one that came another way.
Packet(src, dst, id, data) == [src |-> src, dst |-> dst, id |-> id, data |-> data]
Osmosis(id) == Packet("channel-2186", "channel-3", id, <<"osmosis", id>>)
Kujira == Packet("channel-113", "channel-9", 1, <<"kujira", 1>>)
Evmos == Packet("channel-94", "channel-5", 1, <<"evmos", 1>>)
SeiPacket == Packet("channel-9", "channel-1", 1, <<"sei", 1>>)
MCReceived == [solana |-> <<>>, aptos |-> <<>>, algorand |-> <<>>, sui |-> <<>>, evm |-> <<>>,
    cosmos |-> <<>>, near |-> <<>>, two |-> <<Osmosis(1), Osmosis(2)>>,
    mixed |-> <<Osmosis(1), Kujira>>, evmos |-> <<Evmos>>,
    half |-> <<Osmosis(1), [a \in {"src", "dst", "id"} |-> Osmosis(2)[a]]>>,
    other |-> <<>>, sei |-> <<SeiPacket>>]
MCAsked == DOMAIN MCReceived
MCChainOf == [t \in MCAsked |->
    IF t \in {"two", "mixed", "evmos", "half", "other"} THEN "wormchain" ELSE t]
SentBy(chain, p, sender) ==
    [chain |-> chain, id |-> p.id, src |-> p.src, dst |-> p.dst, tx |-> <<chain, p.id>>, sender |-> sender]
MCSent == {SentBy("osmosis", Osmosis(1), "o1"), SentBy("osmosis", Osmosis(2), "o2"),
           SentBy("kujira", Kujira, "k"), SentBy("evmos", Evmos, "e"), SentBy("sei", SeiPacket, "s")}

\* The second fetcher shares a limiter with most of them.
MCFetchers == {f1, f2}

\* Pages: two VAAs of one timestamp.
MCStampOf == <<1, 2, 2>>

------------------------------------------------------------------------------
VARIABLE part

servicesVars == <<part, spyVars, governorVars, consumersVars, backfillVars, metricsVars,
                  priceVars, chainVars, readVars, cacheVars>>

ServicesInit ==
    /\ part \in Parts
    /\ SpyInit /\ GovernorInit
    /\ ConsumersInit /\ (part # "consumers" => service = "parser")
    /\ BackfillInit /\ (IF part = "backfill" THEN job # "none" ELSE job = "none" /\ ~up /\ vaas = {})
    /\ MetricsInit /\ (part # "metrics" => measure = "vaa_count")
    /\ PriceInit
    /\ ChainInit /\ (part # "nodes" => fetch[f1].tx = "near")
    /\ fetch[f2].tx \in IF part = "nodes" THEN {"two", "sei"} ELSE {"near"}
    /\ ReadsInit /\ (part # "pages" => kind = "list" /\ known = [v \in ReadVaas |-> {}])
    /\ CacheInit /\ (part # "cache" => entry = Missing /\ loads = "answers")

ServicesNext ==
    /\ UNCHANGED part
    /\ \/ /\ part = "spy" /\ SpyNext
          /\ UNCHANGED <<governorVars, consumersVars, backfillVars, metricsVars, priceVars,
                         chainVars, readVars, cacheVars>>
       \/ /\ part = "governor" /\ GovernorNext
          /\ UNCHANGED <<spyVars, consumersVars, backfillVars, metricsVars, priceVars,
                         chainVars, readVars, cacheVars>>
       \/ /\ part = "consumers" /\ ConsumersNext
          /\ UNCHANGED <<spyVars, governorVars, backfillVars, metricsVars, priceVars,
                         chainVars, readVars, cacheVars>>
       \/ /\ part = "backfill" /\ BackfillNext
          /\ UNCHANGED <<spyVars, governorVars, consumersVars, metricsVars, priceVars,
                         chainVars, readVars, cacheVars>>
       \/ /\ part = "metrics" /\ MetricsNext
          /\ UNCHANGED <<spyVars, governorVars, consumersVars, backfillVars, priceVars,
                         chainVars, readVars, cacheVars>>
       \/ /\ part = "prices" /\ PriceNext
          /\ UNCHANGED <<spyVars, governorVars, consumersVars, backfillVars, metricsVars,
                         chainVars, readVars, cacheVars>>
       \/ /\ part = "nodes" /\ ChainNext
          /\ UNCHANGED <<spyVars, governorVars, consumersVars, backfillVars, metricsVars, priceVars,
                         readVars, cacheVars>>
       \/ /\ part = "pages" /\ ReadsNext
          /\ UNCHANGED <<spyVars, governorVars, consumersVars, backfillVars, metricsVars, priceVars,
                         chainVars, cacheVars>>
       \/ /\ part = "cache" /\ CacheNext
          /\ UNCHANGED <<spyVars, governorVars, consumersVars, backfillVars, metricsVars, priceVars,
                         chainVars, readVars>>

\* The services at rest have nothing to do; a fetcher at rest would have.
ServicesSpec ==
    /\ ServicesInit /\ [][ServicesNext]_servicesVars
    /\ SpyFairness /\ ConsumersFairness /\ BackfillFairness
    /\ WF_chainVars(part = "nodes" /\ ChainStep)

------------------------------------------------------------------------------
\* The invariants of spy: see there.
SpySafe == part = "spy" => SpyTypeOK /\ NoPanic /\ ClientsInOrder /\ EmptyOnlyAtShutdown

\* The invariants of the governor's figures: see there.
GovernorAggregates ==
    part = "governor" => GovernorTypeOK /\ QuorumBacked /\ FaultyCannotMove /\ LimitsConsistent /\ EnqueuedAgree /\ MajorityPrice

\* No message leaves a queue unhandled, and no backfill passes anything over.
NothingLost == ConsumersTypeOK /\ GoneOnlyWhenHandled /\ NothingPassedOver

\* What is read from the chains is true, and what the api and the report show of
\* it is never taken back, left out or older than it may be: see ChainTx,
\* ApiReads, CachedReads.
AnswersRight ==
    /\ part = "nodes" => FetchesRight
    /\ part = "pages" => ReadsRight
    /\ part = "cache" => CachedRight

\* The figures of the api are right, and so are the prices they are made with.
FiguresRight == CountedOnce /\ PricesFresh

\* Spy's publisher is never kept waiting, every message is handled, every backfill
\* whose documents have their VAAs ends, and so does every fetch from a chain.
ServicesLive ==
    FeedNeverBlocked /\ EventuallyHandled /\ EndsWhenJoined /\ (part = "nodes" => FetchesEnd)
=============================================================================
