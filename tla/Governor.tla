------------------------------ MODULE Governor ------------------------------
(***************************************************************************)
(* The governor of one chain as the explorer shows it.  Each guardian        *)
(* gossips its configuration (limits, prices) and its status (what is left   *)
(* of the limit, the VAAs it holds back); fly keeps the last one it handles  *)
(* of each, and the api aggregates the documents of all guardians: figures   *)
(* are those a quorum of guardians vouches for.                              *)
(* Messages come in any order, from several replicas, late, twice or never,  *)
(* so that any message of a guardian may be the one that is stored.          *)
(***************************************************************************)
EXTENDS Integers, FiniteSets

CONSTANTS
    Guardians,
    Faulty,         \* guardians that may report anything
    MinGuardianNum, \* quorum, 13
    Statuses,       \* Statuses[g]: statuses g may send
    Configs         \* Configs[g]: configurations g may send

ASSUME GovernorAssumption ==
    /\ IsFiniteSet(Guardians) /\ Faulty \subseteq Guardians
    /\ MinGuardianNum \in Nat \ {0} /\ Cardinality(Faulty) < MinGuardianNum
    /\ \A g \in Guardians : \A s \in Statuses[g] :
          /\ s.remainingAvailableNotional \in Nat
          /\ IsFiniteSet(s.enqueuedVaas)
          /\ s.enqueuedVaas \subseteq [sequence : Nat, releaseTime : Nat]
    /\ \A g \in Guardians : \A c \in Configs[g] :
          c.notionalLimit \in Nat /\ c.bigTransactionSize \in Nat

VARIABLES
    governorStatus, \* governorStatus[g]: the document of g; NoDoc
    governorConfig  \* governorConfig[g]

governorVars == <<governorStatus, governorConfig>>

NoDoc == [doc |-> "none"]
NotFound == -1

GovernorInit ==
    /\ governorStatus = [g \in Guardians |-> NoDoc]
    /\ governorConfig = [g \in Guardians |-> NoDoc]

\* Decoded and stored whole, whichever was stored before; a message that cannot
\* be decoded changes nothing.
UpsertGovernorStatus(g) ==
    /\ \E s \in Statuses[g] : governorStatus' = [governorStatus EXCEPT ![g] = s]
    /\ UNCHANGED governorConfig

UpsertGovernorConfig(g) ==
    /\ \E c \in Configs[g] : governorConfig' = [governorConfig EXCEPT ![g] = c]
    /\ UNCHANGED governorStatus

GovernorNext == \E g \in Guardians : UpsertGovernorStatus(g) \/ UpsertGovernorConfig(g)

GovernorSpec == GovernorInit /\ [][GovernorNext]_governorVars

------------------------------------------------------------------------------
(* The queries of the api                                                   *)

WithStatus == {g \in Guardians : governorStatus[g] # NoDoc}
WithConfig == {g \in Guardians : governorConfig[g] # NoDoc}
Both == WithStatus \intersect WithConfig
Available == [g \in WithStatus |-> governorStatus[g].remainingAvailableNotional]
Limit == [g \in WithConfig |-> governorConfig[g].notionalLimit]
MaxSize == [g \in WithConfig |-> governorConfig[g].bigTransactionSize]

\* The order of $sort on one figure, the greatest first.
Downwards(S, figure) == {p \in S \X S : figure[p[1]] > figure[p[2]]}

\* The guardians $sort may put at index minGuardianNum - 1: fewer than a quorum
\* must come before, and a quorum may be at or before it; equal ones come in any order.
AtQuorum(S, order) ==
    {g \in S : /\ Cardinality({h \in S : <<h, g>> \in order}) < MinGuardianNum
               /\ Cardinality({h \in S : <<g, h>> \notin order}) >= MinGuardianNum}

\* $arrayElemAt finds nothing in an array that is too short.
QuorumFigure(S, figure) ==
    IF Cardinality(S) < MinGuardianNum THEN NotFound
    ELSE figure[CHOOSE g \in AtQuorum(S, Downwards(S, figure)) : TRUE]

\* Mutant: the greatest figure.
GetAvailableNotionalFirst ==
    IF WithStatus = {} THEN NotFound
    ELSE Available[CHOOSE g \in WithStatus : \A h \in WithStatus : Available[g] >= Available[h]]

GetAvailableNotional == QuorumFigure(WithStatus, Available)

\* What each guardian reports, whatever the others do.
GetAvailableNotionalByChainID == {[guardian |-> g, availableNotional |-> Available[g]] : g \in WithStatus}

\* The status of a guardian at the quorum: the possible answers.
GetMaxNotionalAvailableByChainID ==
    IF Cardinality(WithStatus) < MinGuardianNum THEN {NotFound}
    ELSE {governorStatus[g] : g \in AtQuorum(WithStatus, Downwards(WithStatus, Available))}

\* One record, sorted by limit and then by size.
FindNotionalLimit ==
    LET order == {p \in WithConfig \X WithConfig :
                    \/ Limit[p[1]] > Limit[p[2]]
                    \/ Limit[p[1]] = Limit[p[2]] /\ MaxSize[p[1]] > MaxSize[p[2]]}
        g == CHOOSE h \in AtQuorum(WithConfig, order) : TRUE
    IN IF Cardinality(WithConfig) < MinGuardianNum THEN NotFound
       ELSE [notionalLimit |-> Limit[g], maxTransactionSize |-> MaxSize[g]]

GetNotionalLimitByChainID ==
    {[guardian |-> g, notionalLimit |-> Limit[g], maxTransactionSize |-> MaxSize[g]] : g \in WithConfig}

\* Each figure sorted by itself, among guardians with both documents.
GetGovernorLimit ==
    [notionalLimit |-> QuorumFigure(Both, Limit),
     maxTransactionSize |-> QuorumFigure(Both, MaxSize),
     availableNotional |-> QuorumFigure(Both, Available)]

\* "returns the minimum value of the availableNotional per chainID"
GetAvailNotionByChain ==
    IF Both = {} THEN NotFound
    ELSE Available[CHOOSE g \in Both : \A h \in Both : Available[g] <= Available[h]]

\* The most frequent price of a token, any of them when there is a tie.
GetTokenList ==
    LET count(p) == Cardinality({g \in WithConfig : governorConfig[g].price = p})
        prices == {governorConfig[g].price : g \in WithConfig}
    IN {p \in prices : \A q \in prices : count(p) >= count(q)}

\* A guardian holds back VAAs of one emitter entry per chain.
Enqueued == UNION {governorStatus[g].enqueuedVaas : g \in WithStatus}

\* Distinct by emitter, sequence and transaction; the release time is left out.
GetEnqueueVass == {v.sequence : v \in Enqueued}

\* Distinct in the same way, with the release time of whichever guardian comes
\* first: the possible answers.
GetEnqueueVassByChainID ==
    {S \in SUBSET Enqueued :
        /\ \A v, w \in S : v.sequence = w.sequence => v = w
        /\ {v.sequence : v \in S} = {v.sequence : v \in Enqueued}}

\* The first of each sequence, sorted by release time downwards.
GetEnqueuedVaas ==
    {v \in Enqueued : \A w \in Enqueued : w.sequence = v.sequence => w.releaseTime <= v.releaseTime}

IsVaaEnqueued(seq) == \E g \in WithStatus : \E v \in governorStatus[g].enqueuedVaas : v.sequence = seq

------------------------------------------------------------------------------
(* What is checked.                                                         *)

GovernorTypeOK ==
    \A g \in Guardians :
        /\ governorStatus[g] \in Statuses[g] \union {NoDoc}
        /\ governorConfig[g] \in Configs[g] \union {NoDoc}

\* x is the greatest figure at least a quorum of S reports or exceeds.
VouchedFor(x, S, figure) ==
    /\ Cardinality({h \in S : figure[h] >= x}) >= MinGuardianNum
    /\ \A g \in S : Cardinality({h \in S : figure[h] >= figure[g]}) >= MinGuardianNum => figure[g] <= x

\* The figures the api shows are those a quorum vouches for, and are missing only
\* when no quorum has reported.
QuorumBacked ==
    /\ IF Cardinality(WithStatus) < MinGuardianNum THEN GetAvailableNotional = NotFound
       ELSE /\ VouchedFor(GetAvailableNotional, WithStatus, Available)
            /\ \A s \in GetMaxNotionalAvailableByChainID :
                  s.remainingAvailableNotional = GetAvailableNotional
            /\ \E r \in GetAvailableNotionalByChainID : r.availableNotional = GetAvailableNotional
    /\ IF Cardinality(WithConfig) < MinGuardianNum THEN FindNotionalLimit = NotFound
       ELSE /\ VouchedFor(FindNotionalLimit.notionalLimit, WithConfig, Limit)
            /\ \E r \in GetNotionalLimitByChainID :
                  /\ r.notionalLimit = FindNotionalLimit.notionalLimit
                  /\ r.maxTransactionSize = FindNotionalLimit.maxTransactionSize

\* x is within what the honest guardians of S report, if they are a quorum.
HeldByHonest(x, S, figure) ==
    LET honest == S \ Faulty IN
    Cardinality(honest) >= MinGuardianNum =>
        /\ \E g \in honest : figure[g] >= x
        /\ \E g \in honest : figure[g] <= x

\* Guardians that report nonsense, too few for a quorum, do not move a figure that
\* is taken at the quorum out of what the others report, once a quorum of the others
\* has reported.  (The least of GetAvailNotionByChain any one of them moves.)
FaultyCannotMove ==
    /\ HeldByHonest(GetAvailableNotional, WithStatus, Available)
    /\ HeldByHonest(FindNotionalLimit.notionalLimit, WithConfig, Limit)
    /\ HeldByHonest(GetGovernorLimit.notionalLimit, Both, Limit)
    /\ HeldByHonest(GetGovernorLimit.maxTransactionSize, Both, MaxSize)
    /\ HeldByHonest(GetGovernorLimit.availableNotional, Both, Available)

\* Sorting each figure by itself mixes guardians, and still, while no guardian has
\* more left than its limit, the pair shown is consistent; the minimum is below.
LimitsConsistent ==
    LET limit == GetGovernorLimit IN
    /\ (\A g \in Both : Available[g] <= Limit[g]) => limit.availableNotional <= limit.notionalLimit
    /\ limit.availableNotional # NotFound => GetAvailNotionByChain <= limit.availableNotional

\* The two lists and the question about one VAA agree, and the list has each VAA
\* once, with the last release time any guardian reports.
EnqueuedAgree ==
    /\ \A v \in Enqueued : IsVaaEnqueued(v.sequence)
    /\ {v.sequence : v \in GetEnqueuedVaas} = GetEnqueueVass
    /\ \E S \in GetEnqueueVassByChainID : S = GetEnqueuedVaas
    /\ \A v, w \in GetEnqueuedVaas : v.sequence = w.sequence => v = w
    /\ \A v \in GetEnqueuedVaas, w \in Enqueued : w.sequence = v.sequence => w.releaseTime <= v.releaseTime

\* A price most guardians agree on is the price shown.
MajorityPrice ==
    \A p \in {governorConfig[g].price : g \in WithConfig} :
        2 * Cardinality({g \in WithConfig : governorConfig[g].price = p}) > Cardinality(WithConfig)
            => GetTokenList = {p}
=============================================================================
