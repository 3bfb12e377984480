----------------------------- MODULE PriceCache -----------------------------
(***************************************************************************)
(* The prices of tokens: the notional job writes them to Redis key by key  *)
(* and publishes that it has; analytics and api keep a copy, loaded when    *)
(* they start and whenever that message comes.                              *)
(***************************************************************************)
EXTENDS Integers, FiniteSets

CONSTANTS
    Tokens,
    MaxRuns,     \* bound: runs of the job
    PriceFaults  \* bound: failed calls and lost messages

ASSUME PriceCacheAssumption == MaxRuns \in Nat /\ PriceFaults \in Nat

VARIABLES
    redis,    \* redis[k]: the run that has written the price, 0 if none has
    local,    \* local[k]: the same, in the copy
    run,      \* runs of the job so far
    writing,  \* keys the job has still to write
    jobRuns,  \* the job is running
    client,   \* "none", "subscribed" or "listening"
    channel,  \* messages waiting for the client
    loading,  \* keys the load has still to read
    busy,     \* a load is running
    outdated, \* a call has failed, or a message was lost, since the last load began
    faults    \* faults so far

priceVars == <<redis, local, run, writing, jobRuns, client, channel, loading, busy, outdated, faults>>

Fault == faults < PriceFaults /\ faults' = faults + 1 /\ outdated' = TRUE

PriceInit ==
    /\ redis = [k \in Tokens |-> 0] /\ local = redis
    /\ run = 0 /\ writing = {} /\ jobRuns = FALSE
    /\ client = "none" /\ channel = 0 /\ loading = {} /\ busy = FALSE
    /\ outdated = FALSE /\ faults = 0

\* Run: coingecko has a price for some tokens.
JobRun ==
    /\ ~jobRuns /\ run < MaxRuns
    /\ run' = run + 1 /\ jobRuns' = TRUE
    /\ writing' \in SUBSET Tokens \ {{}}
    /\ UNCHANGED <<redis, local, client, channel, loading, busy, outdated, faults>>

UpdateNotionalCache(k) ==
    /\ jobRuns /\ k \in writing
    /\ redis' = [redis EXCEPT ![k] = run] /\ writing' = writing \ {k}
    /\ UNCHANGED <<local, run, jobRuns, client, channel, loading, busy, outdated, faults>>

\* After an error, or a crash, nothing is published.
JobFails ==
    /\ jobRuns /\ Fault
    /\ jobRuns' = FALSE /\ writing' = {}
    /\ UNCHANGED <<redis, local, run, client, channel, loading, busy>>

\* Whoever has not subscribed does not get it.
PublishUpdate ==
    /\ jobRuns /\ writing = {} /\ jobRuns' = FALSE
    /\ channel' = IF client = "none" THEN channel ELSE channel + 1
    /\ UNCHANGED <<redis, local, run, writing, client, loading, busy, outdated, faults>>

\* The subscription is lost for a moment.
LoseMessage ==
    /\ channel > 0 /\ Fault /\ channel' = channel - 1
    /\ UNCHANGED <<redis, local, run, writing, jobRuns, client, loading, busy>>

------------------------------------------------------------------------------
BeginLoad == busy' = TRUE /\ loading' = Tokens /\ outdated' = FALSE

\* NewNotionalCache subscribes, Init loads.
NewNotionalCache ==
    /\ client = "none" /\ ~busy /\ client' = "subscribed" /\ BeginLoad
    /\ UNCHANGED <<redis, local, run, writing, jobRuns, channel, faults>>

\* subscribe: one message after the other.
Listen ==
    /\ client = "listening" /\ ~busy /\ channel > 0
    /\ channel' = channel - 1 /\ BeginLoad
    /\ UNCHANGED <<redis, local, run, writing, jobRuns, client, faults>>

LoadKey(k) ==
    /\ busy /\ k \in loading
    /\ local' = IF redis[k] = 0 THEN local ELSE [local EXCEPT ![k] = redis[k]]
    /\ loading' = loading \ {k}
    /\ UNCHANGED <<redis, run, writing, jobRuns, client, channel, busy, outdated, faults>>

LoadCache ==
    /\ busy /\ loading = {} /\ busy' = FALSE
    /\ client' = "listening"
    /\ UNCHANGED <<redis, local, run, writing, jobRuns, channel, loading, outdated, faults>>

\* A key cannot be read: the keys after it keep their price. Init fails with it.
LoadFails ==
    /\ busy /\ Fault /\ busy' = FALSE /\ loading' = {}
    /\ IF client = "subscribed" THEN client' = "none" /\ channel' = 0 ELSE UNCHANGED <<client, channel>>
    /\ UNCHANGED <<redis, local, run, writing, jobRuns>>

PriceNext ==
    \/ JobRun \/ (\E k \in Tokens : UpdateNotionalCache(k)) \/ JobFails \/ PublishUpdate \/ LoseMessage
    \/ NewNotionalCache \/ Listen \/ (\E k \in Tokens : LoadKey(k)) \/ LoadCache \/ LoadFails

------------------------------------------------------------------------------
\* With no run, no message and no load on its way, the copy has the prices of
\* Redis, unless a call failed or a message was lost after the last load began:
\* no update falls between the first load and the subscription.
PricesFresh ==
    (client = "listening" /\ ~jobRuns /\ channel = 0 /\ ~busy /\ ~outdated) => local = redis
=============================================================================
