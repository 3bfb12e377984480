SPECIFICATION ServicesSpec
CONSTANTS
    Parts = {"spy", "consumers", "backfill", "nodes"}
    s1 = s1
    s2 = s2
    Subscriptions <- MCLiveSubscriptions
    KindOf <- MCKindOf
    Unfiltered <- MCUnfiltered
    Matches <- MCMatches
    SpyVaas = {1, 2, 3}
    Undecodable = {2}
    g1 = g1
    g2 = g2
    g3 = g3
    g4 = g4
    Guardians <- MCGuardians
    Faulty = {g4}
    MinGuardianNum = 3
    Statuses <- MCStatuses
    Configs <- MCConfigs
    Readers = {r1, r2}
    QueueVaas = {1, 2, 3}
    Filtered = {2}
    Unparsable = {3}
    Contents <- MCContents
    MaxMessages = 2
    ReadSize = 2
    MaxTrouble = 1
    Jobs = {"parser", "failed", "range", "none"}
    Docs = {1, 2, 3}
    Stamp <- MCLiveStamp
    Hashless = {3}
    From = 1
    To = 3
    PageSize = 2
    Workers = {w1, w2}
    Counted = {1, 2, 3}
    Emitted <- MCEmitted
    NewTokens = {"new"}
    Measures = {"vaa_count", "all_messages", "asset_volumes", "total_tx", "chain_activity"}
    DayLength = 2
    LastTick = 4
    MaxMissed = 1
    Tokens = {t1, t2}
    MaxRuns = 2
    PriceFaults = 1
    f1 = f1
    f2 = f2
    Fetchers <- MCFetchers
    Asked <- MCAsked
    ChainOf <- MCChainOf
    Received <- MCReceived
    Sent <- MCSent
    Network = "mainnet"
    ReadVaas = {1, 2, 3}
    StampOf <- MCStampOf
    Nontrusted = {3}
    Unpriced = {2}
    Pages = {"transaction", "list", "address", "operation", "operations", "hash", "emitter", "report"}
    PageLength = 2
    MaxAsked = 2
    Callers = {c1, c2}
    Expiration = 1
    MaxLoad = 1
PROPERTIES
    ServicesLive
CHECK_DEADLOCK FALSE
