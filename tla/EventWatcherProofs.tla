-------------------------- MODULE EventWatcherProofs --------------------------
(***************************************************************************)
(* Theorems about a watcher of event-watcher, for every chain of messages,  *)
(* size of a batch and of a page, and number of failures.                   *)
(***************************************************************************)
EXTENDS EventWatcher, SequenceTheorems, FiniteSetTheorems, WellFoundedInduction, TLAPS

------------------------------------------------------------------------------
(* The operators.                                                           *)

LEMMA LeastOf ==
    ASSUME NEW S \in SUBSET Nat, S # {}
    PROVE  Lowest(S) \in S /\ \A y \in S : Lowest(S) <= y
<1>1. PICK n \in S : \A m \in S : ~(<<m, n>> \in OpToRel(<, Nat))
  <2>1. IsWellFoundedOn(OpToRel(<, Nat), Nat) BY NatLessThanWellFounded
  <2> QED BY <2>1, WFMin
<1>2. \A m \in S : n <= m
  <2> SUFFICES ASSUME NEW m \in S PROVE n <= m OBVIOUS
  <2>1. ~(m < n) BY <1>1 DEF OpToRel
  <2> QED BY <2>1
<1> QED BY <1>2 DEF Lowest

LEMMA GreatestOf ==
    ASSUME NEW top \in Nat, NEW S \in SUBSET (0 .. top), S # {}
    PROVE  Highest(S) \in S /\ \A y \in S : y <= Highest(S)
<1> DEFINE N == {n \in Nat : \E x \in S : n = top - x}
<1>1. \A x \in S : x \in Nat /\ top - x \in Nat OBVIOUS
<1>2. N # {} /\ N \in SUBSET Nat BY <1>1
<1>3. PICK x \in S : Lowest(N) = top - x
  <2> HIDE DEF N
  <2>1. Lowest(N) \in N BY <1>2, LeastOf
  <2> QED BY <2>1 DEF N
<1>4. ASSUME NEW y \in S PROVE y <= x
  <2>1. top - y \in N BY <1>1
  <2>2. Lowest(N) <= top - y
    <3> HIDE DEF N
    <3> QED BY <1>2, <2>1, LeastOf
  <2> HIDE DEF N
  <2>3. top - x <= top - y BY <1>3, <2>2
  <2> QED BY <1>1, <2>3
<1> QED BY <1>4 DEF Highest

LEMMA LowestOfTwo ==
    ASSUME NEW a \in Nat, NEW b \in Nat
    PROVE  Lowest({a, b}) = IF a <= b THEN a ELSE b
<1> DEFINE S == {a, b}
<1>1. S \in SUBSET Nat /\ S # {} /\ S = {a, b} OBVIOUS
<1> HIDE DEF S
<1>2. Lowest(S) \in S /\ \A y \in S : Lowest(S) <= y BY <1>1, LeastOf
<1>3. (Lowest(S) = a \/ Lowest(S) = b) /\ Lowest(S) <= a /\ Lowest(S) <= b BY <1>1, <1>2
<1>4. Lowest(S) = IF a <= b THEN a ELSE b BY <1>3
<1> QED BY <1>4 DEF S

\* What is known of the chain.
LEMMA ChainFacts ==
    /\ Len(Chain) \in Nat /\ Messages = 1 .. Len(Chain)
    /\ FirstBlock \in Nat /\ 1 <= FirstBlock /\ FirstBlock <= MaxEwBlock /\ MaxEwBlock \in Nat
    /\ MaximumBatchSize \in Nat /\ 1 <= MaximumBatchSize /\ Limit \in Nat /\ 1 <= Limit
    /\ \A m \in Messages : m \in Nat /\ 1 <= m /\ m <= Len(Chain) /\ Chain[m] \in Nat
                           /\ FirstBlock <= Chain[m] /\ Chain[m] <= MaxEwBlock
    /\ \A m, n \in Messages : m <= n => Chain[m] <= Chain[n]
    /\ \A b \in Redeems : b \in Nat /\ FirstBlock <= b /\ b <= MaxEwBlock
<1>1. Chain \in Seq(FilledSlots) /\ FilledSlots \subseteq FirstBlock .. MaxEwBlock
      /\ Redeems \subseteq FirstBlock .. MaxEwBlock
  BY ChainAssumption
<1>2. Messages = 1 .. Len(Chain) /\ Len(Chain) \in Nat BY <1>1 DEF Messages
<1>3. \A m \in Messages : Chain[m] \in FirstBlock .. MaxEwBlock
  <2>1. \A m \in 1 .. Len(Chain) : Chain[m] \in FilledSlots BY <1>1, ElementOfSeq
  <2> QED BY <1>1, <1>2, <2>1
<1>4. FirstBlock \in Nat /\ 1 <= FirstBlock /\ FirstBlock <= MaxEwBlock /\ MaxEwBlock \in Nat
  BY ChainAssumption
<1>5. \A m \in Messages : m \in Nat /\ 1 <= m /\ m <= Len(Chain) BY <1>2
<1>6. \A m, n \in Messages : m <= n => Chain[m] <= Chain[n] BY ChainAssumption DEF Messages
<1>7. /\ MaximumBatchSize \in Nat /\ 1 <= MaximumBatchSize /\ Limit \in Nat /\ 1 <= Limit
  BY ChainAssumption
<1>8. \A m \in Messages : Chain[m] \in Nat /\ FirstBlock <= Chain[m] /\ Chain[m] <= MaxEwBlock BY <1>3, <1>4
<1>9. \A b \in Redeems : b \in Nat /\ FirstBlock <= b /\ b <= MaxEwBlock BY <1>1, <1>4
<1> QED BY <1>2, <1>4, <1>5, <1>6, <1>7, <1>8, <1>9

LEMMA ChainBounds ==
    /\ FirstBlock \in Nat /\ 1 <= FirstBlock /\ FirstBlock <= MaxEwBlock /\ MaxEwBlock \in Nat
    /\ MaximumBatchSize \in Nat /\ 1 <= MaximumBatchSize /\ Limit \in Nat /\ 1 <= Limit
    /\ Null = -1 /\ FirstBlock .. MaxEwBlock \subseteq Nat
<1>1. FirstBlock \in Nat BY ChainFacts
<1> QED BY <1>1, ChainFacts DEF Null

\* The messages up to a block are the first so many.
LEMMA VisibleFirst ==
    ASSUME NEW top \in Nat
    PROVE  /\ Cardinality(MessagesIn(FirstBlock, top)) \in Nat
           /\ MessagesIn(FirstBlock, top) = 1 .. Cardinality(MessagesIn(FirstBlock, top))
<1> DEFINE S == MessagesIn(FirstBlock, top)
<1>1. S = {m \in Messages : Chain[m] <= top} BY ChainFacts DEF MessagesIn
<1>2. \E k \in Nat : S = 1 .. k
  <2>1. CASE S = {}
    <3>1. S = 1 .. 0 BY <2>1
    <3> QED BY <3>1
  <2>2. CASE S # {}
    <3>1. S \in SUBSET (0 .. Len(Chain)) BY <1>1, ChainFacts
    <3> DEFINE k == Highest(S)
    <3>2. k \in S /\ \A y \in S : y <= k BY <2>2, <3>1, ChainFacts, GreatestOf
    <3> HIDE DEF k
    <3>3. k \in Messages /\ Chain[k] <= top BY <1>1, <3>2
    <3>4. \A m \in 1 .. k : m \in Messages /\ Chain[m] <= Chain[k] BY <3>3, ChainFacts
    <3>5. \A m \in 1 .. k : m \in S BY <1>1, <3>3, <3>4, ChainFacts
    <3>6. k \in Nat /\ \A m \in S : m \in 1 .. k BY <1>1, <3>2, <3>3, ChainFacts
    <3> QED BY <3>5, <3>6
  <2> QED BY <2>1, <2>2
<1>3. PICK k \in Nat : S = 1 .. k BY <1>2
<1>4. Cardinality(1 .. k) = k
  <2>1. 1 \in Int /\ k \in Int OBVIOUS
  <2>2. Cardinality(1 .. k) = IF 1 > k THEN 0 ELSE k - 1 + 1 BY <2>1, FS_Interval
  <2> QED BY <2>2
<1> QED BY <1>3, <1>4

LEMMA L1Monotone ==
    ASSUME NEW a \in Nat, NEW b \in Nat, a <= b
    PROVE  L1Of(a) \in Nat /\ L1Of(b) \in Nat /\ L1Of(a) <= L1Of(b)
BY DEF L1Of


------------------------------------------------------------------------------
(* Types, and the heights of arbitrum.                                      *)

EwPlaces == {"start", "loop", "height", "read", "store", "publish", "redeem", "next"}
InRange == {"read", "store", "publish", "redeem", "next"}
Documents == {"none", "origin", "event-watcher", "contract-watcher"}

EwTyped ==
    /\ ewTop \in FirstBlock .. MaxEwBlock /\ l1Final \in Nat
    /\ ewPc \in EwPlaces
    /\ toBlock \in (0 .. ewTop) \union {Null}
    /\ lastBlock \in (FirstBlock .. ewTop) \union {Null}
    /\ IF ewPc = "start" THEN fromBlock = Null ELSE fromBlock \in FirstBlock .. MaxEwBlock + 1
    /\ ewPc \in InRange => fromBlock <= toBlock
    /\ pos \in Nat /\ unread \in BOOLEAN
    /\ got \subseteq Messages /\ wormholeTxs \subseteq Messages
    /\ sending \subseteq Messages /\ snsMessages \subseteq Messages
    /\ todo \subseteq Redeems /\ redeemExcuse \subseteq Redeems
    /\ destinationTx \in [Redeems -> Documents]
    /\ looked \in Documents \union {"not looked"}

Entry == [l1 : Nat, l2 : Nat]

\* The pairs of blocks that were seen, and a block of L2 whose L1 block is final.
HeightOK ==
    /\ l1L2Map \in Seq(Entry)
    /\ \A i \in DOMAIN l1L2Map : l1L2Map[i].l2 <= ewTop /\ l1L2Map[i].l1 = L1Of(l1L2Map[i].l2)
    /\ latestL2Finalized \in 0 .. ewTop /\ L1Of(latestL2Finalized) <= l1Final

\* What is read is final.
RangeFinal ==
    reader = "arbitrum" =>
        /\ toBlock # Null => L1Of(toBlock) <= l1Final
        /\ ewPc \in {"store", "publish"} => \A m \in got : L1Of(Chain[m]) <= l1Final

LEMMA EwInitTyped == EwInit => EwTyped /\ HeightOK /\ RangeFinal /\ OnlyFinalized
<1> SUFFICES ASSUME EwInit PROVE EwTyped /\ HeightOK /\ RangeFinal /\ OnlyFinalized OBVIOUS
<1>1. EwTyped
  <2>0. ewTop = FirstBlock /\ l1Final = 0 BY DEF EwInit
  <2>1. ewTop \in FirstBlock .. MaxEwBlock /\ l1Final \in Nat BY <2>0, ChainBounds
  <2>2. /\ ewPc = "start" /\ toBlock = Null /\ lastBlock = Null /\ fromBlock = Null /\ pos = 0 /\ unread = FALSE
        /\ got = {} /\ wormholeTxs = {} /\ sending = {} /\ snsMessages = {} /\ todo = {} /\ redeemExcuse = {}
        /\ looked = "not looked"
    BY DEF EwInit
  <2>3. destinationTx \in [Redeems -> Documents] BY DEF EwInit, Documents
  <2> QED BY <2>1, <2>2, <2>3 DEF EwTyped, EwPlaces, InRange
<1>2. L1Of(0) = 0 BY DEF L1Of
<1>3. HeightOK
  <2>1. l1L2Map = << >> /\ latestL2Finalized = 0 /\ l1Final = 0 /\ ewTop = FirstBlock BY DEF EwInit
  <2>2. << >> \in Seq(Entry) /\ DOMAIN << >> = {} OBVIOUS
  <2>3. 0 \in 0 .. FirstBlock BY ChainBounds
  <2>4. l1L2Map \in Seq(Entry) /\ DOMAIN l1L2Map = {} BY <2>1, <2>2
  <2>5. latestL2Finalized \in 0 .. ewTop BY <2>1, <2>3
  <2>6. L1Of(latestL2Finalized) <= l1Final
    <3>1. L1Of(latestL2Finalized) = l1Final BY <1>2, <2>1, Zenon
    <3> QED BY <2>1, <3>1
  <2> QED BY <2>4, <2>5, <2>6 DEF HeightOK
<1>4. RangeFinal /\ OnlyFinalized BY DEF EwInit, RangeFinal, OnlyFinalized
<1> QED BY <1>1, <1>3, <1>4

LEMMA SeenOK ==
    ASSUME EwTyped, HeightOK, NEW b \in Nat, b <= ewTop
    PROVE  /\ Seen(b) \in Seq(Entry)
           /\ \A i \in DOMAIN Seen(b) : Seen(b)[i].l2 <= ewTop /\ Seen(b)[i].l1 = L1Of(Seen(b)[i].l2)
<1> DEFINE l1 == L1Of(b)
           e == [l1 |-> l1, l2 |-> b]
           map == l1L2Map
           at == {i \in DOMAIN map : map[i].l1 = l1}
<1>1. l1 \in Nat /\ e \in Entry /\ e.l2 = b /\ e.l1 = L1Of(b) BY L1Monotone DEF Entry
<1>2. map \in Seq(Entry) /\ \A i \in DOMAIN map : map[i].l2 <= ewTop /\ map[i].l1 = L1Of(map[i].l2)
  BY DEF HeightOK
<1>3. Seen(b) = IF at = {} THEN Append(map, e)
                ELSE [i \in DOMAIN map |-> IF i \in at /\ map[i].l2 < b THEN e ELSE map[i]]
  BY Zenon DEF Seen
<1> HIDE DEF l1, e, at, map
<1>4. CASE at = {}
  <2>1. Seen(b) = Append(map, e) BY <1>3, <1>4
  <2>2. Append(map, e) \in Seq(Entry) /\ Len(Append(map, e)) = Len(map) + 1
        /\ \A i \in 1 .. Len(map) + 1 : Append(map, e)[i] = IF i \in 1 .. Len(map) THEN map[i] ELSE e
    BY <1>1, <1>2
  <2>3. DOMAIN Append(map, e) = 1 .. Len(map) + 1 /\ DOMAIN map = 1 .. Len(map) BY <1>2, <2>2
  <2> QED BY <1>1, <1>2, <2>1, <2>2, <2>3
<1>5. CASE at # {}
  <2> DEFINE f == [i \in DOMAIN map |-> IF i \in at /\ map[i].l2 < b THEN e ELSE map[i]]
  <2>1. Seen(b) = f BY <1>3, <1>5
  <2>2. DOMAIN f = DOMAIN map /\ \A i \in DOMAIN map : f[i] \in {e, map[i]} OBVIOUS
  <2>3. DOMAIN map = 1 .. Len(map) /\ Len(map) \in Nat /\ \A i \in 1 .. Len(map) : map[i] \in Entry
    BY <1>2, ElementOfSeq
  <2>4. f \in [1 .. Len(map) -> Entry] BY <1>1, <2>3
  <2>5. f \in Seq(Entry) BY <2>3, <2>4
  <2> HIDE DEF f
  <2>6. \A i \in DOMAIN f : f[i].l2 <= ewTop /\ f[i].l1 = L1Of(f[i].l2) BY <1>1, <1>2, <2>2
  <2> QED BY <2>1, <2>5, <2>6
<1> QED BY <1>4, <1>5

LEMMA ArbitrumOK ==
    ASSUME EwTyped, HeightOK, NEW b \in Nat, b <= ewTop, ArbitrumFinalized(b), UNCHANGED <<ewTop, l1Final>>
    PROVE  HeightOK'
<1> DEFINE map == Seen(b)
<1>1. map \in Seq(Entry) /\ \A i \in DOMAIN map : map[i].l2 <= ewTop /\ map[i].l1 = L1Of(map[i].l2)
  BY SeenOK
<1>2. CASE l1L2Map' = map /\ UNCHANGED latestL2Finalized
  BY <1>1, <1>2 DEF HeightOK, L1Of
<1> DEFINE final == {i \in DOMAIN map : IsFinal(map[i])}
           rest == 1 .. Cardinality(DOMAIN map \ final)
<1>3. ASSUME ~(l1L2Map' = map /\ UNCHANGED latestL2Finalized) PROVE HeightOK'
  <2>a. /\ latestL2Finalized' = IF final = {} THEN latestL2Finalized ELSE map[Highest(final)].l2
        /\ \E at \in [rest -> DOMAIN map \ final] : l1L2Map' = [i \in rest |-> map[at[i]]]
    BY <1>3, Zenon DEF ArbitrumFinalized
  <2>b. PICK at \in [rest -> DOMAIN map \ final] : l1L2Map' = [i \in rest |-> map[at[i]]] BY <2>a
  <2>c. final = {i \in DOMAIN map : IsFinal(map[i])} OBVIOUS
  <2>d. rest = 1 .. Cardinality(DOMAIN map \ final) OBVIOUS
  <2> HIDE DEF final, rest
  <2> HIDE DEF map
  <2>1. DOMAIN map = 1 .. Len(map) /\ Len(map) \in Nat /\ \A i \in 1 .. Len(map) : map[i] \in Entry
    BY <1>1, ElementOfSeq
  <2>2. Cardinality(DOMAIN map \ final) \in Nat
    <3>1. IsFiniteSet(1 .. Len(map)) BY <2>1, FS_Interval
    <3>2. IsFiniteSet(DOMAIN map \ final) BY <2>1, <3>1, FS_Subset
    <3> QED BY <3>2, FS_CardinalityType
  <2> DEFINE c == Cardinality(DOMAIN map \ final)
             new == [i \in rest |-> map[at[i]]]
  <2>3. c \in Nat /\ rest = 1 .. c BY <2>d, <2>2
  <2> HIDE DEF c
  <2>4. \A i \in rest : at[i] \in DOMAIN map BY <2>b
  <2>5. new \in [1 .. c -> Entry] BY <2>1, <2>3, <2>4
  <2>6. new \in Seq(Entry) BY <2>3, <2>5
  <2>7. \A i \in DOMAIN new : new[i].l2 <= ewTop /\ new[i].l1 = L1Of(new[i].l2) BY <1>1, <2>4
  <2>8. l1L2Map' = new BY <2>b
  <2>9. latestL2Finalized' \in 0 .. ewTop /\ L1Of(latestL2Finalized') <= l1Final
    <3>1. CASE final = {} BY <2>a, <3>1 DEF HeightOK
    <3>2. CASE final # {}
      <4>1. final \in SUBSET (0 .. Len(map)) BY <2>c, <2>1
      <4>2. Highest(final) \in final BY <2>1, <3>2, <4>1, GreatestOf
      <4> DEFINE h == map[Highest(final)]
      <4>3. h \in Entry /\ h.l2 <= ewTop /\ h.l1 = L1Of(h.l2) /\ h.l1 <= l1Final
        BY <1>1, <2>c, <2>1, <4>2 DEF IsFinal
      <4>4. latestL2Finalized' = h.l2 BY <2>a, <3>2
      <4> HIDE DEF h
      <4>5. h.l2 \in Nat /\ ewTop \in Nat BY <4>3, ChainBounds DEF Entry, EwTyped
      <4> QED BY <4>3, <4>4, <4>5
    <3> QED BY <3>1, <3>2
  <2> HIDE DEF new
  <2>10. \A i \in DOMAIN l1L2Map' : l1L2Map'[i].l2 <= ewTop /\ l1L2Map'[i].l1 = L1Of(l1L2Map'[i].l2)
    BY <2>7, <2>8
  <2> QED BY <2>6, <2>8, <2>9, <2>10 DEF HeightOK, L1Of
<1> QED BY <1>2, <1>3
------------------------------------------------------------------------------
(* The readers.                                                             *)

\* The messages the node has.
Visible == Cardinality(MessagesIn(FirstBlock, ewTop))

\* What is accounted for of the messages of the range, once the pages are read.
RangeRead == MessagesIn(fromBlock, toBlock) \subseteq got \union ewExcuse

\* And while they are.
Paged ==
    ewPc = "read" =>
        /\ reader \in {"cosmwasm", "wormchain"} =>
              /\ fromBlock + pos <= toBlock
              /\ MessagesIn(fromBlock, fromBlock + pos - 1) \subseteq got \union ewExcuse
        /\ reader \in {"injective", "terra", "sei"} =>
              \A m \in MessagesIn(fromBlock, toBlock) : m > Visible - pos => m \in got \union ewExcuse
        /\ reader = "sui" => pos <= Visible
        /\ reader = "sui" /\ pos # 0 =>
              \A m \in MessagesIn(fromBlock, toBlock) : m >= pos => m \in got \union ewExcuse
        /\ reader = "algorand" =>
              \A m \in MessagesIn(fromBlock, toBlock) : m <= pos => m \in got \union ewExcuse

\* What any reader does.
ReadStep ==
    /\ ewPc = "read" /\ ewPc' \in {"read", "store"}
    /\ pos' \in Nat /\ got' \subseteq Messages
    /\ reader = "arbitrum" => got' \subseteq MessagesIn(fromBlock, toBlock)
    /\ ewExcuse \subseteq ewExcuse'
    /\ UNCHANGED <<ewChain, ewHeight, ewRange, ewRedeem, ewLast, wormholeTxs, sending, snsMessages>>

LEMMA RangeFacts ==
    ASSUME EwTyped, ewPc \in InRange
    PROVE  /\ fromBlock \in Nat /\ toBlock \in Nat /\ ewTop \in Nat
           /\ FirstBlock <= fromBlock /\ fromBlock <= toBlock /\ toBlock <= ewTop /\ ewTop <= MaxEwBlock
           /\ MessagesIn(fromBlock, toBlock) \subseteq Messages
<1>1. ewPc # "start" BY DEF InRange
<1>2. fromBlock \in FirstBlock .. MaxEwBlock + 1 /\ fromBlock <= toBlock BY <1>1 DEF EwTyped
<1>3. ewTop \in FirstBlock .. MaxEwBlock /\ toBlock \in (0 .. ewTop) \union {Null} BY DEF EwTyped
<1>4. fromBlock \in Nat /\ FirstBlock <= fromBlock /\ 1 <= fromBlock BY <1>2, ChainBounds
<1>5. ewTop \in Nat /\ ewTop <= MaxEwBlock BY <1>3, ChainBounds
<1>6. toBlock # Null BY <1>2, <1>4, ChainBounds
<1>7. toBlock \in Nat /\ toBlock <= ewTop BY <1>3, <1>5, <1>6
<1> QED BY <1>2, <1>4, <1>5, <1>7 DEF MessagesIn

LEMMA VisibleFacts ==
    ASSUME EwTyped
    PROVE  /\ Visible \in Nat /\ MessagesIn(FirstBlock, ewTop) = 1 .. Visible
           /\ ewPc \in InRange => \A m \in MessagesIn(fromBlock, toBlock) : m \in 1 .. Visible
<1>1. ewTop \in Nat BY ChainBounds DEF EwTyped
<1>2. Visible \in Nat /\ MessagesIn(FirstBlock, ewTop) = 1 .. Visible BY <1>1, VisibleFirst DEF Visible
<1>3. ASSUME ewPc \in InRange, NEW m \in MessagesIn(fromBlock, toBlock)
      PROVE  m \in MessagesIn(FirstBlock, ewTop)
  BY <1>3, RangeFacts, ChainFacts DEF MessagesIn
<1> QED BY <1>2, <1>3

\* An interval of m's ending at n, Limit long if n is not less.
LEMMA PageFacts ==
    ASSUME NEW n \in Int, NEW page, page = {m \in 1 .. n : m > n - Limit}
    PROVE  /\ Cardinality(page) \in Nat
           /\ \A m \in page : m \in Nat /\ 1 <= m /\ m <= n /\ n - Limit < m
           /\ \A m \in Nat : 1 <= m /\ m <= n /\ n - Limit < m => m \in page
           /\ n >= Limit => Cardinality(page) = Limit
           /\ n < Limit => Cardinality(page) # Limit
<1> DEFINE L == Limit
<1>0. L \in Nat /\ 1 <= L BY ChainBounds
<1>1. page = {m \in 1 .. n : m > n - L} OBVIOUS
<1> HIDE DEF L
<1>2. \A m \in page : m \in Nat /\ 1 <= m /\ m <= n /\ n - L < m BY <1>0, <1>1
<1>3. \A m \in Nat : 1 <= m /\ m <= n /\ n - L < m => m \in page BY <1>0, <1>1
<1>4. CASE n >= L
  <2> DEFINE a == n - L + 1
  <2>1. a \in Int /\ 1 <= a /\ a <= n /\ a = n - L + 1 BY <1>0, <1>4
  <2> HIDE DEF a
  <2>2. page = a .. n BY <1>0, <1>1, <2>1
  <2>3. Cardinality(a .. n) = IF a > n THEN 0 ELSE n - a + 1 BY <2>1, FS_Interval
  <2>4. Cardinality(page) = L
    <3> DEFINE c == Cardinality(page)
    <3>1. c = IF a > n THEN 0 ELSE n - a + 1 BY <2>2, <2>3
    <3> HIDE DEF c
    <3>2. c = L BY <1>0, <2>1, <3>1
    <3> QED BY <3>2 DEF c
  <2> QED BY <1>0, <1>2, <1>3, <1>4, <2>4 DEF L
<1>5. CASE n < L
  <2>1. page = 1 .. n BY <1>0, <1>1, <1>5
  <2>2. 1 \in Int OBVIOUS
  <2>3. Cardinality(1 .. n) = IF 1 > n THEN 0 ELSE n - 1 + 1 BY <2>2, FS_Interval
  <2>4. Cardinality(page) \in Nat /\ Cardinality(page) # L
    <3> DEFINE c == Cardinality(page)
    <3>1. c = IF 1 > n THEN 0 ELSE n - 1 + 1 BY <2>1, <2>3
    <3> HIDE DEF c
    <3>2. c \in Nat /\ c # L BY <1>0, <1>5, <3>1
    <3> QED BY <3>2 DEF c
  <2> QED BY <1>0, <1>2, <1>3, <1>5, <2>4 DEF L
<1> QED BY <1>0, <1>4, <1>5

\* A page of the explorer's list.
LEMMA ListRead ==
    ASSUME EwTyped, Paged, ewPc = "read", reader \in {"injective", "terra", "sei"},
           TurnPage, UNCHANGED <<ewLast>>,
           Listed \subseteq got' \union ewExcuse', got \subseteq got', ewExcuse \subseteq ewExcuse',
           got' \subseteq got \union Listed
    PROVE  ReadStep /\ Paged' /\ (ewPc' = "store" => RangeRead')
<1> DEFINE v == Visible
           n == v - pos
           c == Cardinality(ListPage)
           range == MessagesIn(fromBlock, toBlock)
<1>1. v \in Nat /\ pos \in Nat /\ n \in Int /\ Limit \in Nat
  <2>1. pos \in Nat BY DEF EwTyped
  <2> QED BY <2>1, VisibleFacts, ChainBounds
<1>2. ListPage = {m \in 1 .. n : m > n - Limit} BY DEF ListPage, Visible
<1>3. /\ c \in Nat
      /\ \A m \in ListPage : m \in Nat /\ 1 <= m /\ m <= n /\ n - Limit < m
      /\ \A m \in Nat : 1 <= m /\ m <= n /\ n - Limit < m => m \in ListPage
      /\ n >= Limit => c = Limit
      /\ n < Limit => c # Limit
  <2> DEFINE pg == ListPage
  <2>1. pg = {m \in 1 .. n : m > n - Limit} BY <1>2
  <2> HIDE DEF pg, n
  <2>2. /\ Cardinality(pg) \in Nat
        /\ \A m \in pg : m \in Nat /\ 1 <= m /\ m <= n /\ n - Limit < m
        /\ \A m \in Nat : 1 <= m /\ m <= n /\ n - Limit < m => m \in pg
        /\ n >= Limit => Cardinality(pg) = Limit
        /\ n < Limit => Cardinality(pg) # Limit
    BY <1>1, <2>1, PageFacts
  <2> QED BY <2>2 DEF pg
<1>4. ewPc \in InRange BY DEF InRange
<1>5. \A m \in range : m \in Nat /\ 1 <= m /\ m <= v /\ m \in Messages
  <2>1. \A m \in range : m \in 1 .. v BY <1>4, VisibleFacts
  <2> QED BY <1>1, <1>4, <2>1, RangeFacts
<1>6. \A m \in range : m > n => m \in got \union ewExcuse
  BY DEF Paged
\* After the page everything above n - Limit is accounted for.
<1>7. \A m \in range : m > n - Limit => m \in got' \union ewExcuse'
  <2> SUFFICES ASSUME NEW m \in range, m > n - Limit PROVE m \in got' \union ewExcuse' OBVIOUS
  <2>1. CASE m > n BY <1>6, <2>1
  <2>2. CASE ~(m > n)
    <3>1. m \in ListPage BY <1>1, <1>3, <1>5, <2>2
    <3> QED BY <3>1 DEF Listed
  <2> QED BY <2>1, <2>2
<1>8. /\ pos' = pos + c
      /\ ewPc' = IF ~Below(ListPage) /\ c = Limit THEN "read" ELSE "store"
      /\ UNCHANGED <<ewChain, ewHeight, ewRange, ewRedeem, wormholeTxs, sending, snsMessages>>
  BY DEF TurnPage, Page
<1>9. ReadStep
  <2>1. pos + c \in Nat BY <1>1, <1>3
  <2>2. got' \subseteq Messages BY <1>4, RangeFacts DEF EwTyped, Listed
  <2> QED BY <1>8, <2>1, <2>2 DEF ReadStep
<1>10. Visible' = v /\ range' = range BY <1>8 DEF Visible, ewChain, ewRange
<1>11. Paged'
  <2> SUFFICES ASSUME ewPc' = "read" PROVE Paged' BY DEF Paged
  <2>1. c = Limit BY <1>8
  <2>2. \A m \in range : m > v - pos' => m \in got' \union ewExcuse'
    <3>1. v - pos' = n - Limit BY <1>1, <1>8, <2>1
    <3> QED BY <1>7, <3>1
  <2>3. reader' = reader BY <1>8 DEF ewChain
  <2> QED BY <1>10, <2>2, <2>3 DEF Paged
<1>12. ASSUME ewPc' = "store" PROVE RangeRead'
  <2>1. Below(ListPage) \/ c # Limit BY <1>8, <1>12
  <2>2. CASE c # Limit
    <3>1. n < Limit BY <1>1, <1>3, <2>2
    <3>2. \A m \in range : m > n - Limit BY <1>1, <1>5, <3>1
    <3> QED BY <1>7, <1>10, <3>2 DEF RangeRead
  <2>3. CASE Below(ListPage)
    <3>1. PICK k \in ListPage : Chain[k] < fromBlock BY <2>3 DEF Below
    <3>2. k \in Nat /\ 1 <= k /\ n - Limit < k /\ k <= v
      <4>1. k \in Nat /\ 1 <= k /\ k <= n /\ n - Limit < k BY <1>3, <3>1
      <4> QED BY <1>1, <4>1
    <3>3. k \in Messages
      <4>1. k \in 1 .. v BY <1>1, <3>2
      <4>2. 1 .. v \subseteq Messages BY VisibleFacts DEF MessagesIn
      <4> QED BY <4>1, <4>2
    <3>4. \A m \in range : m > k
      <4> SUFFICES ASSUME NEW m \in range, ~(m > k) PROVE FALSE OBVIOUS
      <4>1. m \in Messages /\ m <= k /\ fromBlock <= Chain[m] BY <1>5, <3>2 DEF MessagesIn
      <4>2. Chain[m] <= Chain[k] /\ Chain[m] \in Nat /\ Chain[k] \in Nat BY <3>3, <4>1, ChainFacts
      <4>3. fromBlock \in Nat BY <1>4, RangeFacts
      <4> QED BY <3>1, <4>1, <4>2, <4>3
    <3>5. \A m \in range : m > n - Limit BY <1>1, <1>5, <3>2, <3>4
    <3> QED BY <1>7, <1>10, <3>5 DEF RangeRead
  <2> QED BY <2>1, <2>2, <2>3
<1> QED BY <1>9, <1>11, <1>12

LEMMA FetchFacts ==
    ASSUME NEW found, Fetch(found)
    PROVE  /\ got \subseteq got' /\ ewExcuse \subseteq ewExcuse'
           /\ got' \subseteq got \union found /\ found \subseteq got' \union ewExcuse'
BY DEF Fetch

\* A block of cosmwasm or of wormchain.
LEMMA BlockRead ==
    ASSUME EwTyped, Paged, ewPc = "read", reader \in {"cosmwasm", "wormchain"}, UNCHANGED ewLast,
           NEW block, block = fromBlock + pos,
           Fetch(MessagesIn(block, block)), Page(block < toBlock, pos + 1)
    PROVE  ReadStep /\ Paged' /\ (ewPc' = "store" => RangeRead')
<1>1. ewPc \in InRange BY DEF InRange
<1>2. fromBlock \in Nat /\ toBlock \in Nat BY <1>1, RangeFacts
<1>3. pos \in Nat BY DEF EwTyped
<1>4. block <= toBlock /\ block \in Nat BY <1>2, <1>3 DEF Paged
<1>5. MessagesIn(fromBlock, block - 1) \subseteq got \union ewExcuse
  <2>1. MessagesIn(fromBlock, fromBlock + pos - 1) \subseteq got \union ewExcuse BY DEF Paged
  <2>2. block - 1 = fromBlock + pos - 1 BY <1>2, <1>3, <1>4
  <2> QED BY <2>1, <2>2
<1>6. /\ ewPc' = IF block < toBlock THEN "read" ELSE "store"
      /\ pos' = pos + 1
      /\ UNCHANGED <<ewChain, ewHeight, ewRange, ewRedeem, wormholeTxs, sending, snsMessages>>
  BY DEF Page
<1>7. /\ got \subseteq got' /\ ewExcuse \subseteq ewExcuse'
      /\ got' \subseteq got \union MessagesIn(block, block)
      /\ MessagesIn(block, block) \subseteq got' \union ewExcuse'
  BY FetchFacts
<1>8. ReadStep
  <2>1. pos + 1 \in Nat BY <1>3
  <2>2. MessagesIn(block, block) \subseteq Messages BY DEF MessagesIn
  <2>3. got' \subseteq Messages BY <1>7, <2>2 DEF EwTyped
  <2>4. ewPc' \in {"read", "store"} BY <1>6
  <2> QED BY <1>6, <1>7, <2>1, <2>3, <2>4 DEF ReadStep
<1>9. MessagesIn(fromBlock, block) \subseteq got' \union ewExcuse'
  <2> SUFFICES ASSUME NEW m \in MessagesIn(fromBlock, block) PROVE m \in got' \union ewExcuse' OBVIOUS
  <2>1. m \in Messages /\ fromBlock <= Chain[m] /\ Chain[m] <= block BY DEF MessagesIn
  <2>2. Chain[m] \in Nat BY <2>1, ChainFacts
  <2>3. CASE Chain[m] = block
    <3>1. block <= Chain[m] /\ Chain[m] <= block BY <1>4, <2>3
    <3>2. m \in MessagesIn(block, block) BY <2>1, <3>1 DEF MessagesIn
    <3> QED BY <1>7, <3>2
  <2>4. CASE Chain[m] # block
    <3>1. Chain[m] <= block - 1 BY <1>4, <2>1, <2>2, <2>4
    <3>2. m \in MessagesIn(fromBlock, block - 1) BY <2>1, <3>1 DEF MessagesIn
    <3> QED BY <1>5, <1>7, <3>2
  <2> QED BY <2>3, <2>4
<1>10. reader' = reader /\ fromBlock' = fromBlock /\ toBlock' = toBlock BY <1>6 DEF ewChain, ewRange
<1>11. Paged'
  <2> SUFFICES ASSUME ewPc' = "read" PROVE Paged' BY DEF Paged
  <2>1. block < toBlock BY <1>6
  <2>2. fromBlock + pos' <= toBlock BY <1>2, <1>3, <1>6, <2>1
  <2>3. fromBlock + pos' - 1 = block BY <1>2, <1>3, <1>6
  <2>4. MessagesIn(fromBlock, fromBlock + pos' - 1) \subseteq got' \union ewExcuse' BY <1>9, <2>3
  <2>5. MessagesIn(fromBlock, fromBlock + pos - 1)' = MessagesIn(fromBlock, fromBlock + pos' - 1)
    BY <1>10 DEF MessagesIn
  <2> QED BY <1>10, <2>2, <2>4, <2>5 DEF Paged
<1>12. ASSUME ewPc' = "store" PROVE RangeRead'
  <2>1. block = toBlock BY <1>2, <1>4, <1>6, <1>12
  <2> QED BY <1>9, <1>10, <2>1 DEF RangeRead, MessagesIn
<1> QED BY <1>8, <1>11, <1>12

\* A reader that has all in one answer.
LEMMA WholeRead ==
    ASSUME EwTyped, ewPc = "read", UNCHANGED ewLast, Page(FALSE, 0),
           got' \subseteq MessagesIn(fromBlock, toBlock),
           MessagesIn(fromBlock, toBlock) \subseteq got' \union ewExcuse', ewExcuse \subseteq ewExcuse'
    PROVE  ReadStep /\ Paged' /\ (ewPc' = "store" => RangeRead')
<1>1. /\ ewPc' = "store" /\ pos' = 0
      /\ UNCHANGED <<ewChain, ewHeight, ewRange, ewRedeem, wormholeTxs, sending, snsMessages>>
  BY DEF Page
<1>2. MessagesIn(fromBlock, toBlock) \subseteq Messages BY DEF MessagesIn
<1>3. RangeRead' BY <1>1 DEF RangeRead, ewRange
<1> QED BY <1>1, <1>2, <1>3 DEF ReadStep, Paged

\* A page of sui.
LEMMA SuiRead ==
    ASSUME EwTyped, Paged, SuiGetWhTxs, UNCHANGED ewLast
    PROVE  ReadStep /\ Paged' /\ (ewPc' = "store" => RangeRead')
<1> DEFINE below == IF pos = 0 THEN Cardinality(MessagesIn(FirstBlock, ewTop)) ELSE pos - 1
           page == {m \in 1..below : m > below - Limit}
           range == MessagesIn(fromBlock, toBlock)
           found == page \intersect range
           more == page # {} /\ Lowest(page) > 1 /\ fromBlock < Chain[Lowest(page)]
           at == IF page = {} THEN 0 ELSE Lowest(page)
<1>1. /\ ewPc = "read" /\ reader = "sui"
      /\ got' = got \union found
      /\ ewExcuse' = IF more THEN ewExcuse
                     ELSE ewExcuse \union {m \in Messages : Chain[m] = fromBlock /\ m \notin got'}
      /\ Page(more, at)
  BY Zenon DEF SuiGetWhTxs, Reading
<1>2. below = IF pos = 0 THEN Visible ELSE pos - 1 BY DEF Visible
<1>3. page = {m \in 1..below : m > below - Limit} OBVIOUS
<1>4. more <=> page # {} /\ Lowest(page) > 1 /\ fromBlock < Chain[Lowest(page)] OBVIOUS
<1>5. at = IF page = {} THEN 0 ELSE Lowest(page) OBVIOUS
<1>6. found = page \intersect range OBVIOUS
<1> HIDE DEF below, page, found, more, at
<1>7. Visible \in Nat /\ pos \in Nat /\ Limit \in Nat /\ 1 <= Limit
  <2>1. pos \in Nat BY DEF EwTyped
  <2> QED BY <2>1, VisibleFacts, ChainBounds
<1>8. below \in Int BY <1>2, <1>7
<1>9. /\ \A m \in page : m \in Nat /\ 1 <= m /\ m <= below /\ below - Limit < m
      /\ \A m \in Nat : 1 <= m /\ m <= below /\ below - Limit < m => m \in page
  BY <1>3, <1>8, PageFacts
<1>10. ewPc \in InRange BY <1>1 DEF InRange
<1>11. \A m \in range : m \in Nat /\ 1 <= m /\ m <= Visible /\ m \in Messages
  <2>1. \A m \in range : m \in 1 .. Visible BY <1>10, VisibleFacts
  <2> QED BY <1>7, <1>10, <2>1, RangeFacts
<1>12. \A m \in range : m > below => m \in got \union ewExcuse
  <2> SUFFICES ASSUME NEW m \in range, m > below PROVE m \in got \union ewExcuse OBVIOUS
  <2>1. CASE pos = 0 BY <1>2, <1>7, <1>11, <2>1
  <2>2. CASE pos # 0
    <3>1. m >= pos BY <1>2, <1>7, <1>11, <2>2
    <3> QED BY <1>1, <2>2, <3>1 DEF Paged
  <2> QED BY <2>1, <2>2
<1>13. got \subseteq got' /\ ewExcuse \subseteq ewExcuse' /\ found \subseteq got' BY <1>1
<1>14. \A m \in range : m > below - Limit => m \in got' \union ewExcuse'
  <2> SUFFICES ASSUME NEW m \in range, m > below - Limit PROVE m \in got' \union ewExcuse' OBVIOUS
  <2>1. CASE m > below BY <1>12, <1>13, <2>1
  <2>2. CASE ~(m > below)
    <3>1. m \in page BY <1>7, <1>8, <1>9, <1>11, <2>2
    <3> QED BY <1>6, <1>13, <3>1
  <2> QED BY <2>1, <2>2
<1> DEFINE k == Lowest(page)
<1>15. page # {} => /\ k \in page /\ k \in Nat /\ 1 <= k /\ k <= below
                    /\ \A m \in page : k <= m
  <2>1. page \in SUBSET Nat BY <1>9
  <2> QED BY <1>9, <2>1, LeastOf
<1>16. at = (IF page = {} THEN 0 ELSE k) /\ (more <=> page # {} /\ k > 1 /\ fromBlock < Chain[k])
  BY <1>4, <1>5
<1> HIDE DEF k
\* What is not below k is above below - Limit.
<1>17. ASSUME page # {}, NEW m \in range, m >= k PROVE m \in got' \union ewExcuse'
  <2>1. k > below - Limit BY <1>9, <1>15, <1>17
  <2>2. m > below - Limit BY <1>7, <1>8, <1>11, <1>15, <1>17, <2>1
  <2> QED BY <1>14, <2>2
<1>17a. below <= Visible
  <2>1. pos <= Visible BY <1>1 DEF Paged
  <2> QED BY <1>2, <1>7, <2>1
<1>18. /\ ewPc' = IF more THEN "read" ELSE "store"
       /\ pos' = at
       /\ UNCHANGED <<ewChain, ewHeight, ewRange, ewRedeem, wormholeTxs, sending, snsMessages>>
  BY <1>1 DEF Page
<1>19. ReadStep
  <2>1. at \in Nat BY <1>15, <1>16
  <2>2. found \subseteq Messages BY <1>6, <1>11
  <2>3. got' \subseteq Messages BY <1>1, <2>2 DEF EwTyped
  <2>4. ewPc' \in {"read", "store"} BY <1>18
  <2> QED BY <1>1, <1>13, <1>18, <2>1, <2>3, <2>4 DEF ReadStep
<1>20. reader' = reader /\ range' = range BY <1>18 DEF ewChain, ewRange
<1>21. Paged'
  <2> SUFFICES ASSUME ewPc' = "read" PROVE Paged' BY DEF Paged
  <2>1. page # {} /\ pos' = k BY <1>16, <1>18
  <2>2. \A m \in range : m >= pos' => m \in got' \union ewExcuse' BY <1>17, <2>1
  <2>3. pos' <= Visible BY <1>7, <1>8, <1>15, <1>17a, <2>1
  <2>4. Visible' = Visible BY <1>18 DEF Visible, ewChain
  <2> QED BY <1>1, <1>20, <2>2, <2>3, <2>4 DEF Paged
<1>22. ASSUME ewPc' = "store" PROVE RangeRead'
  <2> SUFFICES ASSUME NEW m \in range PROVE m \in got' \union ewExcuse'
    BY <1>20 DEF RangeRead
  <2>0. m \in Nat /\ 1 <= m /\ m \in Messages BY <1>11
  <2>1. ~more BY <1>18, <1>22
  <2>2. CASE page = {}
    <3>1. ~(1 <= below) \/ m > below - Limit
      <4> SUFFICES ASSUME 1 <= below, ~(m > below - Limit) PROVE FALSE OBVIOUS
      <4>1. below \in Nat /\ 1 <= below /\ below <= below /\ below - Limit < below BY <1>7, <1>8
      <4>2. below \in page BY <1>9, <4>1
      <4> QED BY <2>2, <4>2
    <3>2. m > below - Limit BY <1>7, <1>8, <2>0, <3>1
    <3> QED BY <1>14, <3>2
  <2>3. CASE page # {} /\ m >= k BY <1>17, <2>3
  <2>4. CASE page # {} /\ ~(m >= k)
    <3>1. k \in Nat /\ m <= k /\ ~(k <= 1) BY <1>15, <2>0, <2>4
    <3>2. ~(fromBlock < Chain[k]) BY <1>16, <2>1, <2>4, <3>1
    <3>3. k \in Messages
      <4>1. k <= Visible BY <1>7, <1>8, <1>15, <1>17a, <2>4
      <4>2. k \in 1 .. Visible BY <1>7, <1>15, <2>4, <4>1
      <4> QED BY <4>2, VisibleFacts DEF MessagesIn
    <3>4. Chain[m] <= Chain[k] /\ Chain[m] \in Nat /\ Chain[k] \in Nat BY <2>0, <3>1, <3>3, ChainFacts
    <3>5. fromBlock <= Chain[m] /\ fromBlock \in Nat BY <1>10, RangeFacts DEF MessagesIn
    <3>6. Chain[m] = fromBlock BY <3>2, <3>4, <3>5
    <3>7. ewExcuse' = ewExcuse \union {j \in Messages : Chain[j] = fromBlock /\ j \notin got'} BY <1>1, <2>1
    <3> QED BY <2>0, <3>6, <3>7
  <2> QED BY <2>2, <2>3, <2>4
<1> QED BY <1>19, <1>21, <1>22

\* A page of algorand: the first of those that are after pos.
LEMMA AlgorandRead ==
    ASSUME EwTyped, Paged, AlgorandGetWhTxs, UNCHANGED ewLast
    PROVE  ReadStep /\ Paged' /\ (ewPc' = "store" => RangeRead')
<1> DEFINE range == MessagesIn(fromBlock, toBlock)
           after == {m \in range : m > pos}
           before(m) == {n \in after : n < m}
           page == {m \in after : Cardinality(before(m)) < Limit}
           at == IF page = {} THEN pos ELSE Highest(page)
           more == Cardinality(page) = Limit
<1>1. /\ ewPc = "read" /\ reader = "algorand" /\ got' = got \union page /\ UNCHANGED ewExcuse
      /\ Page(more, at)
  BY Zenon DEF AlgorandGetWhTxs, Reading, AlgorandMore
<1>2. /\ page = {m \in after : Cardinality(before(m)) < Limit}
      /\ \A m \in after : before(m) = {n \in after : n < m} /\ before(m) \subseteq after
  OBVIOUS
<1>3. /\ at = IF page = {} THEN pos ELSE Highest(page)
      /\ more <=> Cardinality(page) = Limit
  OBVIOUS
<1>4. after = {m \in range : m > pos} OBVIOUS
<1>5. ewPc \in InRange BY <1>1 DEF InRange
<1>6. /\ \A m \in range : m \in Nat /\ 1 <= m /\ m <= Len(Chain) /\ m \in Messages
      /\ Len(Chain) \in Nat /\ Limit \in Nat /\ 1 <= Limit
  BY <1>5, RangeFacts, ChainFacts
<1>7. pos \in Nat BY DEF EwTyped
<1> HIDE DEF range, after, before, page, at, more
<1>8. after \in SUBSET (0 .. Len(Chain)) /\ after \in SUBSET Nat /\ after \subseteq range BY <1>4, <1>6
<1>9. \A S \in SUBSET after : IsFiniteSet(S) /\ Cardinality(S) \in Nat
  <2>1. IsFiniteSet(0 .. Len(Chain)) BY <1>6, FS_Interval
  <2>2. \A S \in SUBSET after : S \in SUBSET (0 .. Len(Chain)) BY <1>8
  <2> QED BY <2>1, <2>2, FS_Subset, FS_CardinalityType
\* The page has no gaps:
<1>10. ASSUME NEW m \in after, NEW h \in page, m <= h PROVE m \in page
  <2>1. h \in after /\ h \in Nat /\ m \in Nat BY <1>2, <1>8
  <2>2. before(m) \subseteq before(h)
    <3> SUFFICES ASSUME NEW n \in before(m) PROVE n \in before(h) OBVIOUS
    <3>1. before(m) = {i \in after : i < m} /\ before(h) = {i \in after : i < h} BY <1>2, <2>1
    <3>2. n \in after /\ n < m BY <3>1
    <3>3. n \in Nat BY <1>8, <3>2
    <3>4. n < h BY <1>10, <2>1, <3>2, <3>3
    <3> QED BY <3>1, <3>2, <3>4
  <2>3. before(h) \in SUBSET after /\ before(m) \in SUBSET after BY <1>2, <2>1
  <2>4. Cardinality(before(m)) <= Cardinality(before(h))
    <3>1. IsFiniteSet(before(h)) BY <1>9, <2>3
    <3> QED BY <2>2, <3>1, FS_Subset
  <2>5. Cardinality(before(h)) < Limit BY <1>2
  <2>6. Cardinality(before(m)) \in Nat /\ Cardinality(before(h)) \in Nat BY <1>9, <2>3
  <2>7. Cardinality(before(m)) < Limit BY <1>6, <2>4, <2>5, <2>6
  <2> QED BY <1>2, <2>7
<1>11. page # {} => /\ Highest(page) \in page
                    /\ \A y \in page : y <= Highest(page)
  <2>1. page \in SUBSET (0 .. Len(Chain)) BY <1>2, <1>8
  <2> QED BY <1>6, <2>1, GreatestOf
\* unless it is full it is all there is.
<1>12. ASSUME ~more PROVE page = after
  <2> SUFFICES ASSUME page # after PROVE FALSE OBVIOUS
  <2> DEFINE rest == after \ page
             m == Lowest(rest)
  <2>1. rest \in SUBSET Nat /\ rest # {} BY <1>2, <1>8
  <2> HIDE DEF rest
  <2>2. m \in rest /\ \A y \in rest : m <= y BY <2>1, LeastOf
  <2> HIDE DEF m
  <2>3. m \in after /\ m \notin page /\ m \in Nat BY <1>8, <2>2 DEF rest
  <2>4. before(m) \in SUBSET after /\ before(m) = {n \in after : n < m} BY <1>2, <2>3
  <2>5. Cardinality(before(m)) \in Nat /\ Cardinality(before(m)) >= Limit
    <3>1. ~(Cardinality(before(m)) < Limit) BY <1>2, <2>3
    <3> QED BY <1>6, <1>9, <2>4, <3>1
  <2>6. before(m) \subseteq page
    <3> SUFFICES ASSUME NEW n \in before(m), n \notin page PROVE FALSE OBVIOUS
    <3>1. n \in after /\ n < m /\ n \in Nat BY <1>8, <2>4
    <3>2. n \in rest BY <3>1 DEF rest
    <3> QED BY <2>2, <2>3, <3>1, <3>2
  <2>7. page \subseteq before(m)
    <3> SUFFICES ASSUME NEW n \in page PROVE n \in before(m) OBVIOUS
    <3>1. n \in after /\ n \in Nat BY <1>2, <1>8
    <3>2. ~(m <= n) BY <1>10, <2>3
    <3> QED BY <2>3, <2>4, <3>1, <3>2
  <2>8. page = before(m) BY <2>6, <2>7
  <2>9. page # {}
    <3>1. Cardinality({}) = 0 BY FS_EmptySet
    <3> QED BY <1>6, <2>5, <2>8, <3>1
  <2> DEFINE h == Highest(page)
  <2>10. h \in page /\ \A y \in page : y <= h BY <1>11, <2>9
  <2> HIDE DEF h
  <2>11. h \in after /\ h \in Nat /\ before(h) \in SUBSET after /\ before(h) = {n \in after : n < h}
    BY <1>2, <1>8, <2>10
  <2>12. page = before(h) \union {h}
    <3>1. page \subseteq before(h) \union {h}
      <4> SUFFICES ASSUME NEW n \in page, n # h PROVE n \in before(h) OBVIOUS
      <4>1. n \in after /\ n \in Nat /\ n <= h BY <1>2, <1>8, <2>10
      <4> QED BY <2>11, <4>1
    <3>2. before(h) \subseteq page
      <4> SUFFICES ASSUME NEW n \in before(h) PROVE n \in page OBVIOUS
      <4>0. n \in after /\ n < h BY <2>11
      <4>1. n \in after /\ n \in Nat /\ n <= h BY <1>8, <2>11, <4>0
      <4> QED BY <1>10, <2>10, <4>1
    <3> QED BY <2>10, <3>1, <3>2
  <2>13. h \notin before(h) BY <2>11
  <2>14. Cardinality(page) = Cardinality(before(h)) + 1
    <3>1. IsFiniteSet(before(h)) BY <1>9, <2>11
    <3> QED BY <2>12, <2>13, <3>1, FS_AddElement
  <2>15. Cardinality(before(h)) < Limit /\ Cardinality(before(h)) \in Nat BY <1>2, <1>9, <2>10, <2>11
  <2>16. Cardinality(page) = Cardinality(before(m)) BY <2>8
  <2>17. Cardinality(page) = Limit BY <1>6, <2>5, <2>14, <2>15, <2>16
  <2> QED BY <1>3, <1>12, <2>17
<1>13. /\ ewPc' = IF more THEN "read" ELSE "store"
       /\ pos' = at
       /\ UNCHANGED <<ewChain, ewHeight, ewRange, ewRedeem, wormholeTxs, sending, snsMessages>>
  BY <1>1 DEF Page
<1>14. ReadStep
  <2>1. at \in Nat BY <1>2, <1>3, <1>7, <1>8, <1>11
  <2>2. page \subseteq Messages BY <1>2, <1>6, <1>8
  <2>3. got' \subseteq Messages BY <1>1, <2>2 DEF EwTyped
  <2>4. ewPc' \in {"read", "store"} BY <1>13
  <2> QED BY <1>1, <1>13, <2>1, <2>3, <2>4 DEF ReadStep
<1>15. reader' = reader /\ range' = range BY <1>13 DEF ewChain, ewRange, range
<1>16. \A m \in range : m <= pos => m \in got \union ewExcuse BY <1>1 DEF Paged, range
<1>17. ASSUME NEW m \in range, m <= at PROVE m \in got' \union ewExcuse'
  <2>1. CASE m <= pos BY <1>1, <1>16, <2>1
  <2>2. CASE ~(m <= pos)
    <3>1. m \in after BY <1>4, <1>6, <1>7, <2>2
    <3>2. page # {} BY <1>3, <1>17, <2>2
    <3>3. m \in page BY <1>3, <1>10, <1>11, <1>17, <3>1, <3>2
    <3> QED BY <1>1, <3>3
  <2> QED BY <2>1, <2>2
<1>18. Paged'
  <2>1. \A m \in range : m <= pos' => m \in got' \union ewExcuse' BY <1>13, <1>17
  <2> QED BY <1>1, <1>15, <2>1 DEF Paged, range
<1>19. ASSUME ewPc' = "store" PROVE RangeRead'
  <2>1. page = after BY <1>12, <1>13, <1>19
  <2>2. ASSUME NEW m \in range PROVE m \in got' \union ewExcuse'
    <3>1. CASE m <= pos BY <1>1, <1>16, <3>1
    <3>2. CASE ~(m <= pos)
      <4>1. m \in after BY <1>4, <1>6, <1>7, <3>2
      <4> QED BY <1>1, <2>1, <4>1
    <3> QED BY <3>1, <3>2
  <2> QED BY <1>15, <2>2 DEF RangeRead, range
<1> QED BY <1>14, <1>18, <1>19

LEMMA ReaderStep ==
    ASSUME EwTyped, Paged, GetWhTxs
    PROVE  ReadStep /\ Paged' /\ (ewPc' = "store" => RangeRead')
<1> DEFINE range == MessagesIn(fromBlock, toBlock)
<1>1. CASE EvmGetWhTxs \/ AptosGetWhTxs
  <2>1. ewPc = "read" /\ got' = range /\ Page(FALSE, 0) /\ UNCHANGED <<ewLast, ewExcuse>>
    BY <1>1 DEF EvmGetWhTxs, AptosGetWhTxs, Reading, Page
  <2> QED BY <2>1, WholeRead
<1>2. CASE CosmwasmGetWhTxs \/ WormchainGetWhTxs
  <2> DEFINE block == fromBlock + pos
  <2>1. /\ ewPc = "read" /\ reader \in {"cosmwasm", "wormchain"} /\ UNCHANGED ewLast
        /\ Fetch(MessagesIn(block, block)) /\ Page(block < toBlock, pos + 1)
    BY <1>2 DEF CosmwasmGetWhTxs, WormchainGetWhTxs, Reading, Page
  <2>2. block = fromBlock + pos OBVIOUS
  <2> HIDE DEF block
  <2> QED BY <2>1, <2>2, BlockRead
<1>3. CASE InjectiveGetWhTxs \/ TerraGetWhTxs
  <2>1. /\ ewPc = "read" /\ reader \in {"injective", "terra", "sei"} /\ TurnPage /\ UNCHANGED <<ewLast, ewExcuse>>
        /\ got' = got \union Listed
    BY <1>3 DEF InjectiveGetWhTxs, TerraGetWhTxs, Reading, TurnPage, Page
  <2> QED BY <2>1, ListRead
<1>4. CASE SeiGetWhTxs
  <2>1. /\ ewPc = "read" /\ reader \in {"injective", "terra", "sei"} /\ TurnPage /\ UNCHANGED <<ewLast>>
        /\ Fetch(Listed)
    BY <1>4 DEF SeiGetWhTxs, Reading, TurnPage, Page
  <2>2. /\ got \subseteq got' /\ ewExcuse \subseteq ewExcuse'
        /\ got' \subseteq got \union Listed /\ Listed \subseteq got' \union ewExcuse'
    BY <2>1, FetchFacts
  <2> QED BY <2>1, <2>2, ListRead
<1>5. CASE SuiGetWhTxs
  <2>1. UNCHANGED ewLast BY <1>5, Zenon DEF SuiGetWhTxs, Page, ewLast
  <2> QED BY <1>5, <2>1, SuiRead
<1>6. CASE NearGetWhTxs
  <2>1. ewPc = "read" /\ Page(FALSE, 0) /\ UNCHANGED ewLast BY <1>6 DEF NearGetWhTxs, Reading, Page
  <2>2. CASE got' = range /\ UNCHANGED ewExcuse BY <2>1, <2>2, WholeRead
  <2>3. ASSUME NEW b \in fromBlock .. toBlock, got' = MessagesIn(b + 1, toBlock),
               ewExcuse' = ewExcuse \union MessagesIn(fromBlock, b)
        PROVE  ReadStep /\ Paged' /\ (ewPc' = "store" => RangeRead')
    <3>0. ewPc \in InRange BY <2>1 DEF InRange
    <3>1. fromBlock \in Nat /\ toBlock \in Nat /\ b \in Nat /\ fromBlock <= b BY <3>0, RangeFacts
    <3>2. MessagesIn(b + 1, toBlock) \subseteq range BY <3>1, ChainFacts DEF MessagesIn
    <3>3. range \subseteq MessagesIn(b + 1, toBlock) \union MessagesIn(fromBlock, b)
      BY <3>1, ChainFacts DEF MessagesIn
    <3>4. got' \subseteq range /\ range \subseteq got' \union ewExcuse' /\ ewExcuse \subseteq ewExcuse'
      BY <2>3, <3>2, <3>3
    <3> QED BY <2>1, <3>4, WholeRead
  <2> QED BY <1>6, <2>2, <2>3 DEF NearGetWhTxs
<1>7. CASE AlgorandGetWhTxs
  <2>1. UNCHANGED ewLast BY <1>7, Zenon DEF AlgorandGetWhTxs, Page, ewLast
  <2> QED BY <1>7, <2>1, AlgorandRead
<1>8. CASE SolanaGetWhTxs
  <2>1. /\ ewPc = "read" /\ Page(FALSE, 0) /\ UNCHANGED ewLast
        /\ \E edges : got' = range \ edges /\ ewExcuse' = ewExcuse \union edges
    BY <1>8, Zenon DEF SolanaGetWhTxs, Reading, Page, ewLast
  <2>2. got' \subseteq range /\ range \subseteq got' \union ewExcuse' /\ ewExcuse \subseteq ewExcuse'
    BY <2>1
  <2> QED BY <2>1, <2>2, WholeRead
<1> QED BY <1>1, <1>2, <1>3, <1>4, <1>5, <1>6, <1>7, <1>8 DEF GetWhTxs

------------------------------------------------------------------------------
(* Types.                                                                   *)

\* The steps that are not a reader's.
OtherStep ==
    \/ EwGrow \/ EwStart \/ Loop \/ GetFinalizedBlockNumber \/ GetFinalizedBlockNumberFails \/ GetWhTxsFails
    \/ StoreWhTxs \/ CreateMessages \/ FindGlobalTx \/ WriteGlobalTx \/ StoreLatestProcessBlock \/ NextRange
    \/ PublishMessages \/ OtherServices \/ EwCrash

LEMMA EwSteps == EwNext => OtherStep \/ GetWhTxs
BY DEF EwNext, Watch, OtherStep

\* What every step leaves alone.
LEMMA ReaderStays == EwNext => reader' = reader
<1>1. GetWhTxs => reader' = reader
  BY DEF GetWhTxs, EvmGetWhTxs, AptosGetWhTxs, CosmwasmGetWhTxs, WormchainGetWhTxs, InjectiveGetWhTxs,
         TerraGetWhTxs, SeiGetWhTxs, SuiGetWhTxs, NearGetWhTxs, AlgorandGetWhTxs, SolanaGetWhTxs,
         TurnPage, Page, ewChain
<1>2. OtherStep => reader' = reader
  BY DEF OtherStep, EwGrow, EwStart, Loop, GetFinalizedBlockNumber, GetFinalizedBlockNumberFails, GetWhTxsFails,
         StoreWhTxs, CreateMessages, FindGlobalTx, WriteGlobalTx, StoreLatestProcessBlock, NextRange,
         PublishMessages, OtherServices, EwCrash, ewChain
<1> QED BY <1>1, <1>2, EwSteps

LEMMA TypedFacts ==
    ASSUME EwTyped
    PROVE  /\ ewTop \in Nat /\ FirstBlock <= ewTop /\ ewTop <= MaxEwBlock /\ l1Final \in Nat /\ pos \in Nat
           /\ toBlock = Null \/ (toBlock \in Nat /\ toBlock <= ewTop)
           /\ lastBlock = Null \/ (lastBlock \in Nat /\ FirstBlock <= lastBlock /\ lastBlock <= ewTop)
           /\ ewPc # "start" => fromBlock \in Nat /\ FirstBlock <= fromBlock /\ fromBlock <= MaxEwBlock + 1
<1>1. ewTop \in FirstBlock .. MaxEwBlock /\ l1Final \in Nat /\ pos \in Nat BY DEF EwTyped
<1>2. ewTop \in Nat /\ FirstBlock <= ewTop /\ ewTop <= MaxEwBlock BY <1>1, ChainBounds
<1>3. toBlock \in (0 .. ewTop) \union {Null} /\ lastBlock \in (FirstBlock .. ewTop) \union {Null} BY DEF EwTyped
<1>4. ewPc # "start" => fromBlock \in FirstBlock .. MaxEwBlock + 1 BY DEF EwTyped
<1>5. toBlock = Null \/ (toBlock \in Nat /\ toBlock <= ewTop) BY <1>2, <1>3
<1>6. lastBlock = Null \/ (lastBlock \in Nat /\ FirstBlock <= lastBlock /\ lastBlock <= ewTop)
  BY <1>2, <1>3, ChainBounds
<1> QED BY <1>1, <1>2, <1>4, <1>5, <1>6, ChainBounds

LEMMA GrowTyped == ASSUME EwTyped, EwGrow PROVE EwTyped' /\ ewTop' >= ewTop /\ l1Final' >= l1Final
<1>1. /\ UNCHANGED <<reader, ewPc, toBlock, fromBlock, lastBlock, pos, unread, got, wormholeTxs, sending, snsMessages,
                     todo, redeemExcuse, destinationTx, looked>>
  BY DEF EwGrow, ewHeight, ewRange, ewRead, ewStore, ewRedeem, ewLast
<1>2. /\ (ewTop < MaxEwBlock /\ ewTop' = ewTop + 1) \/ ewTop' = ewTop
      /\ l1Final' = l1Final + 1 \/ l1Final' = l1Final
  BY DEF EwGrow
<1>3. ewTop \in Nat /\ l1Final \in Nat /\ ewTop' \in FirstBlock .. MaxEwBlock /\ l1Final' \in Nat
      /\ ewTop' >= ewTop /\ l1Final' >= l1Final /\ ewTop' \in Nat
  BY <1>2, TypedFacts, ChainBounds
<1>4. toBlock \in (0 .. ewTop') \union {Null} /\ lastBlock \in (FirstBlock .. ewTop') \union {Null}
  BY <1>3, TypedFacts, ChainBounds
<1> QED BY <1>1, <1>3, <1>4 DEF EwTyped

LEMMA StartTyped == ASSUME EwTyped, EwStart PROVE EwTyped' /\ ewPc' = "loop"
<1>1. UNCHANGED <<ewTop, l1Final, pos, got, wormholeTxs, sending, snsMessages, todo, redeemExcuse, destinationTx,
                  looked, lastBlock>> /\ toBlock' = Null /\ ewPc' = "loop" /\ ewPc = "start"
  BY DEF EwStart, ewChain, ewRead, ewStore, ewRedeem
<1>2. unread' \in BOOLEAN BY DEF EwStart, EwTyped
<1>3. fromBlock' \in FirstBlock .. MaxEwBlock + 1
  <2>1. fromBlock' = GetResumeBlockByChain(lastBlock) \/ fromBlock' = GetResumeBlockByChain(Null) BY DEF EwStart
  <2>2. GetResumeBlockByChain(Null) = FirstBlock BY ChainBounds DEF GetResumeBlockByChain
  <2>3. GetResumeBlockByChain(lastBlock) \in FirstBlock .. MaxEwBlock + 1
    BY TypedFacts, ChainBounds DEF GetResumeBlockByChain
  <2> QED BY <2>1, <2>2, <2>3, ChainBounds
<1> QED BY <1>1, <1>2, <1>3 DEF EwTyped, EwPlaces, InRange

LEMMA LoopTyped ==
    ASSUME EwTyped, Loop
    PROVE  /\ EwTyped' /\ got' = {} /\ pos' = 0 /\ ewPc' \in {"read", "height"} /\ ewPc = "loop"
           /\ toBlock' # Null => toBlock # Null /\ toBlock' <= toBlock
<1>1. UNCHANGED <<ewTop, l1Final, fromBlock, wormholeTxs, sending, snsMessages, todo, redeemExcuse, destinationTx,
                  looked, lastBlock, unread>> /\ got' = {} /\ pos' = 0 /\ ewPc = "loop"
  BY DEF Loop, ewChain, ewStore, ewRedeem, ewLast
<1>2. CASE toBlock # Null /\ fromBlock <= toBlock
  <2> DEFINE a == fromBlock + MaximumBatchSize - 1
  <2>1. toBlock' = Lowest({a, toBlock}) /\ ewPc' = "read" BY <1>2 DEF Loop
  <2>2. fromBlock \in Nat /\ toBlock \in Nat /\ toBlock <= ewTop /\ a \in Nat /\ fromBlock <= a
    BY <1>1, <1>2, TypedFacts, ChainBounds
  <2> HIDE DEF a
  <2>3. toBlock' = IF a <= toBlock THEN a ELSE toBlock BY <2>1, <2>2, LowestOfTwo
  <2>4. toBlock' \in Nat /\ toBlock' <= toBlock /\ fromBlock <= toBlock' BY <1>2, <2>2, <2>3
  <2>5. toBlock' \in (0 .. ewTop) \union {Null} BY <2>2, <2>4, TypedFacts
  <2>6. fromBlock' <= toBlock' BY <1>1, <2>4
  <2> QED BY <1>1, <1>2, <2>1, <2>4, <2>5, <2>6 DEF EwTyped, EwPlaces, InRange
<1>3. CASE ~(toBlock # Null /\ fromBlock <= toBlock)
  <2>1. toBlock' = toBlock /\ ewPc' = "height" BY <1>3 DEF Loop
  <2>2. toBlock # Null => toBlock <= toBlock BY TypedFacts
  <2> QED BY <1>1, <2>1, <2>2 DEF EwTyped, EwPlaces, InRange
<1> QED BY <1>2, <1>3

LEMMA HeightTyped ==
    ASSUME EwTyped, HeightOK, GetFinalizedBlockNumber \/ GetFinalizedBlockNumberFails
    PROVE  /\ EwTyped' /\ HeightOK' /\ ewPc = "height" /\ ewPc' = "loop"
           /\ reader = "arbitrum" /\ toBlock' # Null => L1Of(toBlock') <= l1Final
<1>1. UNCHANGED <<ewTop, l1Final, fromBlock, got, pos, wormholeTxs, sending, snsMessages, todo, redeemExcuse,
                  destinationTx, looked, lastBlock, unread>> /\ ewPc = "height" /\ ewPc' = "loop"
  BY DEF GetFinalizedBlockNumber, GetFinalizedBlockNumberFails, ewChain, ewRead, ewStore, ewRedeem, ewLast
<1>2. CASE GetFinalizedBlockNumberFails
  <2>1. UNCHANGED <<l1L2Map, latestL2Finalized>> /\ toBlock' = Null
    BY <1>2 DEF GetFinalizedBlockNumberFails, ewHeight
  <2>2. HeightOK' BY <1>1, <2>1 DEF HeightOK, L1Of
  <2> QED BY <1>1, <2>1, <2>2 DEF EwTyped, EwPlaces, InRange
<1>3. CASE GetFinalizedBlockNumber
  <2>1. PICK b \in {ewTop, ewTop - 1} :
           /\ b >= FirstBlock
           /\ IF reader = "arbitrum"
              THEN ArbitrumFinalized(b) /\ toBlock' = latestL2Finalized'
              ELSE toBlock' = b /\ UNCHANGED ewHeight
    BY <1>3 DEF GetFinalizedBlockNumber
  <2>2. b \in Nat /\ b <= ewTop BY <2>1, TypedFacts, ChainBounds
  <2>3. HeightOK'
    <3>1. CASE reader = "arbitrum" BY <1>1, <2>1, <2>2, <3>1, ArbitrumOK
    <3>2. CASE reader # "arbitrum"
      <4>1. UNCHANGED <<l1L2Map, latestL2Finalized>> BY <2>1, <3>2 DEF ewHeight
      <4> QED BY <1>1, <4>1 DEF HeightOK, L1Of
    <3> QED BY <3>1, <3>2
  <2>4. toBlock' \in 0 .. ewTop
    <3>1. CASE reader = "arbitrum" BY <1>1, <2>1, <2>3, <3>1 DEF HeightOK
    <3>2. CASE reader # "arbitrum" BY <2>1, <2>2, <3>2, TypedFacts
    <3> QED BY <3>1, <3>2
  <2>5. EwTyped' BY <1>1, <2>4 DEF EwTyped, EwPlaces, InRange
  <2>6. reader = "arbitrum" => L1Of(toBlock') <= l1Final BY <1>1, <2>1, <2>3 DEF HeightOK, L1Of
  <2> QED BY <1>1, <2>3, <2>5, <2>6
<1> QED BY <1>2, <1>3

LEMMA RestTyped ==
    ASSUME EwTyped,
           \/ GetWhTxsFails \/ StoreWhTxs \/ CreateMessages \/ FindGlobalTx \/ WriteGlobalTx
           \/ StoreLatestProcessBlock \/ NextRange \/ PublishMessages \/ OtherServices
    PROVE  EwTyped' /\ UNCHANGED <<ewTop, l1Final, l1L2Map, latestL2Finalized>>
<1> USE DEF ewChain, ewHeight, ewRange, ewRead, ewStore, ewRedeem, ewLast
<1>1. CASE GetWhTxsFails BY <1>1 DEF EwTyped, GetWhTxsFails, EwPlaces, InRange
<1>2. CASE StoreWhTxs BY <1>2 DEF EwTyped, StoreWhTxs, EwPlaces, InRange
<1>3. CASE CreateMessages BY <1>3 DEF EwTyped, CreateMessages, EwPlaces, InRange
<1>4. CASE FindGlobalTx
  <2>1. todo \in SUBSET Nat /\ todo # {} /\ todo \subseteq Redeems BY <1>4, ChainFacts DEF FindGlobalTx, EwTyped
  <2>2. Lowest(todo) \in Redeems BY <2>1, LeastOf
  <2>3. looked' \in Documents BY <1>4, <2>2 DEF FindGlobalTx, EwTyped
  <2> QED BY <1>4, <2>3 DEF FindGlobalTx, EwTyped
<1>5. CASE WriteGlobalTx
  <2>1. /\ UNCHANGED <<ewChain, ewHeight, ewPc, ewRange, ewRead, ewStore, ewLast>>
        /\ todo' \subseteq todo /\ redeemExcuse' \subseteq redeemExcuse \union todo /\ looked' = "not looked"
        /\ \/ destinationTx' = destinationTx
           \/ destinationTx' = [destinationTx EXCEPT ![Lowest(todo)] = "event-watcher"]
    BY <1>5 DEF WriteGlobalTx, Stored
  <2>2. destinationTx' \in [Redeems -> Documents] BY <2>1 DEF EwTyped, Documents
  <2> QED BY <2>1, <2>2 DEF EwTyped
<1>6. CASE StoreLatestProcessBlock
  <2>1. ewPc \in InRange /\ ewPc # "start" BY <1>6 DEF StoreLatestProcessBlock, InRange
  <2>2. toBlock \in FirstBlock .. ewTop BY <2>1, RangeFacts, ChainBounds
  <2> QED BY <1>6, <2>1, <2>2 DEF StoreLatestProcessBlock, EwTyped, EwPlaces, InRange
<1>7. CASE NextRange
  <2>1. ewPc \in InRange BY <1>7 DEF NextRange, InRange
  <2>2. toBlock + 1 \in FirstBlock .. MaxEwBlock + 1 BY <2>1, RangeFacts, ChainBounds
  <2> QED BY <1>7, <2>2 DEF NextRange, NextFrom, EwTyped, EwPlaces, InRange
<1>8. CASE PublishMessages BY <1>8 DEF PublishMessages, EwTyped
<1>9. CASE OtherServices
  <2>1. PICK b \in Redeems : \/ destinationTx' = [destinationTx EXCEPT ![b] = "origin"]
                             \/ destinationTx' = [destinationTx EXCEPT ![b] = "contract-watcher"]
    BY <1>9 DEF OtherServices
  <2>2. destinationTx' \in [Redeems -> Documents] BY <2>1 DEF EwTyped, Documents
  <2> QED BY <1>9, <2>2 DEF OtherServices, EwTyped
<1> QED BY <1>1, <1>2, <1>3, <1>4, <1>5, <1>6, <1>7, <1>8, <1>9

LEMMA CrashTyped == ASSUME EwTyped, EwCrash PROVE EwTyped'
BY DEF EwTyped, EwCrash, EwPlaces, InRange, ewChain, ewLast

LEMMA ReadTyped == ASSUME EwTyped, ReadStep PROVE EwTyped' /\ UNCHANGED <<ewTop, l1Final, l1L2Map, latestL2Finalized>>
BY DEF EwTyped, ReadStep, EwPlaces, InRange, ewChain, ewHeight, ewRange, ewRedeem, ewLast

LEMMA TypedInv ==
    ASSUME EwTyped, HeightOK, Paged, EwNext
    PROVE  EwTyped' /\ HeightOK'
<1>1. CASE UNCHANGED <<ewTop, l1Final, l1L2Map, latestL2Finalized>> /\ EwTyped'
  BY <1>1 DEF HeightOK, L1Of
<1>2. CASE GetWhTxs BY <1>1, <1>2, ReaderStep, ReadTyped
<1>3. CASE EwGrow
  <2>1. EwTyped' /\ ewTop' >= ewTop /\ l1Final' >= l1Final /\ UNCHANGED <<l1L2Map, latestL2Finalized>>
    BY <1>3, GrowTyped DEF EwGrow, ewHeight
  <2>2. ewTop \in Nat /\ ewTop' \in Nat /\ l1Final \in Nat /\ l1Final' \in Nat
    <3>1. ewTop' \in FirstBlock .. MaxEwBlock /\ l1Final' \in Nat BY <2>1 DEF EwTyped
    <3> QED BY <3>1, TypedFacts, ChainBounds
  <2>3. \A i \in DOMAIN l1L2Map : l1L2Map[i].l2 \in Nat /\ l1L2Map[i].l2 <= ewTop
                                  /\ l1L2Map[i].l1 = L1Of(l1L2Map[i].l2)
    <3>1. \A i \in 1 .. Len(l1L2Map) : l1L2Map[i] \in Entry BY ElementOfSeq DEF HeightOK
    <3>2. DOMAIN l1L2Map = 1 .. Len(l1L2Map) BY DEF HeightOK
    <3> QED BY <3>1, <3>2 DEF HeightOK, Entry
  <2>4. \A i \in DOMAIN l1L2Map : l1L2Map[i].l2 <= ewTop' /\ l1L2Map[i].l1 = L1Of(l1L2Map[i].l2)
    <3> SUFFICES ASSUME NEW i \in DOMAIN l1L2Map
                 PROVE l1L2Map[i].l2 <= ewTop' /\ l1L2Map[i].l1 = L1Of(l1L2Map[i].l2)
      OBVIOUS
    <3> DEFINE x == l1L2Map[i].l2
    <3>1. x \in Nat /\ x <= ewTop /\ l1L2Map[i].l1 = L1Of(x) BY <2>3
    <3> HIDE DEF x
    <3>2. x <= ewTop' BY <2>1, <2>2, <3>1
    <3> QED BY <3>1, <3>2 DEF x
  <2>5. latestL2Finalized \in 0 .. ewTop /\ L1Of(latestL2Finalized) <= l1Final BY DEF HeightOK
  <2>6. L1Of(latestL2Finalized) \in Nat BY <2>2, <2>5, L1Monotone
  <2>7. latestL2Finalized \in 0 .. ewTop' /\ L1Of(latestL2Finalized) <= l1Final'
    <3>1. latestL2Finalized \in 0 .. ewTop' BY <2>1, <2>2, <2>5
    <3> DEFINE x == L1Of(latestL2Finalized)
    <3>2. x \in Nat /\ x <= l1Final BY <2>5, <2>6
    <3> HIDE DEF x
    <3>3. x <= l1Final' BY <2>1, <2>2, <3>2
    <3> QED BY <3>1, <3>3 DEF x
  <2>8. l1L2Map \in Seq(Entry) BY DEF HeightOK
  <2> QED BY <2>1, <2>4, <2>7, <2>8 DEF HeightOK, L1Of
<1>4. CASE EwStart BY <1>1, <1>4, StartTyped DEF EwStart, ewChain, ewHeight
<1>5. CASE Loop BY <1>1, <1>5, LoopTyped DEF Loop, ewChain, ewHeight
<1>6. CASE GetFinalizedBlockNumber \/ GetFinalizedBlockNumberFails BY <1>6, HeightTyped
<1>7. CASE EwCrash
  <2>1. EwTyped' BY <1>7, CrashTyped
  <2>2. l1L2Map' = << >> /\ latestL2Finalized' = 0 /\ ewTop' = ewTop /\ l1Final' = l1Final
    BY <1>7 DEF EwCrash, ewChain
  <2>3. << >> \in Seq(Entry) /\ DOMAIN << >> = {} OBVIOUS
  <2>4. L1Of(0) = 0 BY DEF L1Of
  <2>5. 0 \in 0 .. ewTop /\ L1Of(0) <= l1Final BY <2>4, TypedFacts
  <2>6. l1L2Map' \in Seq(Entry) /\ DOMAIN (l1L2Map') = {} BY <2>2, <2>3
  <2>7. latestL2Finalized' \in 0 .. ewTop' /\ L1Of(latestL2Finalized)' <= l1Final' BY <2>2, <2>5 DEF L1Of
  <2> QED BY <2>1, <2>6, <2>7 DEF HeightOK
<1>8. CASE \/ GetWhTxsFails \/ StoreWhTxs \/ CreateMessages \/ FindGlobalTx \/ WriteGlobalTx
           \/ StoreLatestProcessBlock \/ NextRange \/ PublishMessages \/ OtherServices
  BY <1>1, <1>8, RestTyped
<1> QED BY <1>2, <1>3, <1>4, <1>5, <1>6, <1>7, <1>8, EwSteps DEF OtherStep
------------------------------------------------------------------------------
(* The messages.                                                            *)

Safe == wormholeTxs \union ewExcuse

\* What the watcher has behind it is stored, or lost with a reason.
Accounted ==
    /\ ewPc # "start" => \A m \in Messages : Chain[m] < fromBlock => m \in Safe
    /\ lastBlock # Null => \A m \in Messages : Chain[m] <= lastBlock => m \in Safe
    /\ ewPc = "store" => RangeRead
    /\ ewPc \in {"publish", "redeem", "next"} => MessagesIn(fromBlock, toBlock) \subseteq Safe
    /\ ewPc = "publish" => got \subseteq Safe
    /\ sending \subseteq Safe /\ snsMessages \subseteq Safe

LEMMA VisibleGrows ==
    ASSUME NEW a \in Nat, NEW b \in Nat, a <= b
    PROVE  Cardinality(MessagesIn(FirstBlock, a)) <= Cardinality(MessagesIn(FirstBlock, b))
<1> DEFINE c == Cardinality(MessagesIn(FirstBlock, a))
           d == Cardinality(MessagesIn(FirstBlock, b))
<1>1. c \in Nat /\ d \in Nat /\ MessagesIn(FirstBlock, a) = 1 .. c /\ MessagesIn(FirstBlock, b) = 1 .. d
  BY VisibleFirst
<1>2. MessagesIn(FirstBlock, a) \subseteq MessagesIn(FirstBlock, b) BY ChainFacts DEF MessagesIn
<1> HIDE DEF c, d
<1>3. 1 .. c \subseteq 1 .. d BY <1>1, <1>2
<1>4. c <= d BY <1>1, <1>3
<1> QED BY <1>4 DEF c, d

LEMMA PagedInv ==
    ASSUME EwTyped, Paged, HeightOK, EwNext
    PROVE  Paged'
<1>1. CASE GetWhTxs BY <1>1, ReaderStep
<1>2. CASE Loop
  <2> SUFFICES ASSUME ewPc' = "read" PROVE Paged' BY DEF Paged
  <2>1. EwTyped' /\ got' = {} /\ pos' = 0 BY <1>2, LoopTyped
  <2>2. reader' = reader BY ReaderStays
  <2>3. ewPc' \in InRange BY DEF InRange
  <2>4. /\ fromBlock' \in Nat /\ toBlock' \in Nat /\ ewTop' \in Nat
        /\ FirstBlock <= fromBlock' /\ fromBlock' <= toBlock' /\ toBlock' <= ewTop'
    <3>1. \A f, t, e : f = fromBlock' /\ t = toBlock' /\ e = ewTop' =>
             f \in FirstBlock .. MaxEwBlock + 1 /\ t \in (0 .. e) \union {Null} /\ f <= t
             /\ e \in FirstBlock .. MaxEwBlock
      BY <2>1, <2>3 DEF EwTyped
    <3> DEFINE f == fromBlock'
               t == toBlock'
               e == ewTop'
    <3>2. f \in FirstBlock .. MaxEwBlock + 1 /\ t \in (0 .. e) \union {Null} /\ f <= t /\ e \in FirstBlock .. MaxEwBlock
      BY <3>1
    <3> HIDE DEF f, t, e
    <3>3. f \in Nat /\ t \in Nat /\ e \in Nat /\ FirstBlock <= f /\ t <= e BY <3>2, ChainBounds
    <3> QED BY <3>2, <3>3 DEF f, t, e
  <2>5. \A m \in Messages : ~(fromBlock' <= Chain[m] /\ Chain[m] <= fromBlock' + 0 - 1)
    <3> DEFINE f == fromBlock'
    <3>1. f \in Nat BY <2>4
    <3> HIDE DEF f
    <3>2. \A x \in Nat : ~(f <= x /\ x <= f + 0 - 1) BY <3>1
    <3>3. \A m \in Messages : Chain[m] \in Nat BY ChainFacts
    <3>4. \A m \in Messages : ~(f <= Chain[m] /\ Chain[m] <= f + 0 - 1) BY <3>2, <3>3, Zenon
    <3> QED BY <3>4 DEF f
  <2>5a. \A m \in Messages : ~(fromBlock' <= Chain[m] /\ Chain[m] <= fromBlock' + pos' - 1)
    BY <2>1, <2>5, Zenon
  <2>6. MessagesIn(fromBlock, fromBlock + pos - 1)' = {} BY <2>5a DEF MessagesIn
  <2>7. fromBlock' + pos' <= toBlock'
    <3>1. \A f, q \in Nat : q = 0 => f + q = f OBVIOUS
    <3>2. fromBlock' + pos' = fromBlock' BY <2>1, <2>4, <3>1
    <3> QED BY <2>4, <3>2
  <2> DEFINE v == Cardinality(MessagesIn(FirstBlock, ewTop'))
  <2>8. v \in Nat /\ MessagesIn(FirstBlock, ewTop') = 1 .. v BY <2>4, VisibleFirst
  <2>9. Visible' = v BY DEF Visible
  <2>10. \A m \in MessagesIn(fromBlock', toBlock') : m \in MessagesIn(FirstBlock, ewTop')
    BY <2>4, ChainFacts, ChainBounds DEF MessagesIn
  <2> HIDE DEF v
  <2>11. \A m \in MessagesIn(fromBlock', toBlock') : ~(m > v - 0) /\ ~(m <= 0)
    <3>1. \A m \in 1 .. v : ~(m > v - 0) /\ ~(m <= 0) BY <2>8
    <3> QED BY <2>8, <2>10, <3>1
  <2>12. MessagesIn(fromBlock, toBlock)' = MessagesIn(fromBlock', toBlock') BY DEF MessagesIn
  <2>13. 0 <= v BY <2>8
  <2> QED BY <2>1, <2>2, <2>6, <2>7, <2>9, <2>11, <2>12, <2>13 DEF Paged
<1>3. CASE EwGrow
  <2>1. UNCHANGED <<ewPc, fromBlock, toBlock, got, pos, ewExcuse>>
    BY <1>3 DEF EwGrow, ewRange, ewRead, ewStore
  <2>2. EwTyped' /\ ewTop' >= ewTop BY <1>3, GrowTyped
  <2>3. reader' = reader BY ReaderStays
  <2> DEFINE v == Visible
             w == Cardinality(MessagesIn(FirstBlock, ewTop'))
  <2>4. Visible' = w BY DEF Visible
  <2>5. v \in Nat /\ w \in Nat /\ v <= w
    <3>1. ewTop' \in Nat
      <4>1. ewTop' \in FirstBlock .. MaxEwBlock BY <2>2 DEF EwTyped
      <4> QED BY <4>1, ChainBounds
    <3>2. ewTop \in Nat /\ ewTop <= ewTop' BY <2>2, <3>1, TypedFacts
    <3>3. v <= w BY <3>1, <3>2, VisibleGrows DEF Visible
    <3>4. v \in Nat /\ w \in Nat BY <3>1, <3>2, VisibleFirst DEF Visible
    <3> QED BY <3>3, <3>4
  <2>6. pos \in Nat BY DEF EwTyped
  <2> HIDE DEF v, w
  <2>7. \A m \in MessagesIn(fromBlock, toBlock) : m > w - pos => m > v - pos
    <3>1. \A m \in MessagesIn(fromBlock, toBlock) : m \in Nat BY ChainFacts DEF MessagesIn
    <3> QED BY <2>5, <2>6, <3>1
  <2>8. pos <= v => pos <= w BY <2>5, <2>6
  <2>9. MessagesIn(fromBlock, fromBlock + pos - 1)' = MessagesIn(fromBlock, fromBlock + pos - 1)
        /\ MessagesIn(fromBlock, toBlock)' = MessagesIn(fromBlock, toBlock)
    BY <2>1 DEF MessagesIn
  <2> SUFFICES ASSUME ewPc = "read" PROVE Paged' BY <2>1 DEF Paged
  <2>10. /\ reader \in {"cosmwasm", "wormchain"} =>
              /\ fromBlock + pos <= toBlock
              /\ MessagesIn(fromBlock, fromBlock + pos - 1) \subseteq got \union ewExcuse
         /\ reader \in {"injective", "terra", "sei"} =>
              \A m \in MessagesIn(fromBlock, toBlock) : m > v - pos => m \in got \union ewExcuse
         /\ reader = "sui" => pos <= v
         /\ reader = "sui" /\ pos # 0 =>
              \A m \in MessagesIn(fromBlock, toBlock) : m >= pos => m \in got \union ewExcuse
         /\ reader = "algorand" =>
              \A m \in MessagesIn(fromBlock, toBlock) : m <= pos => m \in got \union ewExcuse
    BY DEF Paged, v
  <2>11. /\ reader \in {"injective", "terra", "sei"} =>
              \A m \in MessagesIn(fromBlock, toBlock) : m > w - pos => m \in got \union ewExcuse
         /\ reader = "sui" => pos <= w
    BY <2>7, <2>8, <2>10
  <2> QED BY <2>1, <2>3, <2>4, <2>9, <2>10, <2>11 DEF Paged
\* The publishing that was started, and the other services, leave the reader alone.
<1>4. CASE PublishMessages \/ OtherServices
  <2>1. UNCHANGED <<ewPc, fromBlock, toBlock, got, pos, ewExcuse, reader, ewTop>>
    BY <1>4 DEF PublishMessages, OtherServices, ewChain, ewRange, ewRead, ewStore
  <2> QED BY <2>1 DEF Paged, Visible, MessagesIn
<1>5. CASE ewPc' # "read" BY <1>5 DEF Paged
<1>6. OtherStep /\ ~(Loop \/ EwGrow \/ PublishMessages \/ OtherServices) => ewPc' # "read"
  BY DEF OtherStep, EwStart, GetFinalizedBlockNumber, GetFinalizedBlockNumberFails, GetWhTxsFails,
         StoreWhTxs, CreateMessages, FindGlobalTx, WriteGlobalTx, StoreLatestProcessBlock, NextRange, EwCrash
<1> QED BY <1>1, <1>2, <1>3, <1>4, <1>5, <1>6, EwSteps

LEMMA AccountedInv ==
    ASSUME EwTyped, Paged, Accounted, HeightOK, EwNext
    PROVE  Accounted'
<1> USE DEF ewChain, ewRange, ewRead, ewStore, ewLast
\* Nothing that is accounted for is forgotten, and what is not touched stays as it is.
<1>1. ASSUME wormholeTxs \subseteq wormholeTxs', ewExcuse \subseteq ewExcuse',
             UNCHANGED <<fromBlock, lastBlock>>, ewPc # "start",
             sending' \subseteq Safe, snsMessages' \subseteq Safe,
             ewPc' = "store" => RangeRead',
             ewPc' \in {"publish", "redeem", "next"} =>
                 toBlock' = toBlock /\ MessagesIn(fromBlock, toBlock) \subseteq Safe',
             ewPc' = "publish" => got' \subseteq Safe'
      PROVE  Accounted'
  BY <1>1 DEF Accounted, Safe, MessagesIn
<1>2. CASE GetWhTxs
  <2>1. ReadStep /\ (ewPc' = "store" => RangeRead') BY <1>2, ReaderStep
  <2>2. ewPc' \in {"read", "store"} /\ ewPc = "read" /\ ewExcuse \subseteq ewExcuse'
        /\ UNCHANGED <<fromBlock, lastBlock, wormholeTxs, sending, snsMessages>>
    BY <2>1 DEF ReadStep
  <2> QED BY <1>1, <2>1, <2>2 DEF Accounted
<1>3. CASE EwGrow \/ OtherServices
  <2>1. UNCHANGED <<ewPc, fromBlock, toBlock, got, wormholeTxs, ewExcuse, sending, snsMessages, lastBlock>>
    BY <1>3 DEF EwGrow, OtherServices
  <2> QED BY <2>1 DEF Accounted, Safe, RangeRead, MessagesIn
<1>4. CASE EwStart
  <2>1. UNCHANGED <<wormholeTxs, ewExcuse, sending, snsMessages, lastBlock>> /\ ewPc' = "loop"
    BY <1>4 DEF EwStart
  <2>2. \A m \in Messages : Chain[m] < fromBlock' => m \in Safe
    <3> SUFFICES ASSUME NEW m \in Messages, Chain[m] < fromBlock' PROVE m \in Safe OBVIOUS
    <3>1. FirstBlock <= Chain[m] /\ Chain[m] \in Nat BY ChainFacts
    <3>2. fromBlock' = GetResumeBlockByChain(lastBlock) \/ fromBlock' = GetResumeBlockByChain(Null)
      BY <1>4 DEF EwStart
    <3>3. fromBlock' = FirstBlock \/ (lastBlock \in Nat /\ fromBlock' = lastBlock + 1)
      BY <3>2, TypedFacts, ChainBounds DEF GetResumeBlockByChain
    <3>4. lastBlock \in Nat /\ Chain[m] <= lastBlock BY <3>1, <3>3, ChainBounds
    <3>5. lastBlock # Null BY <3>4, ChainBounds
    <3> QED BY <3>4, <3>5 DEF Accounted
  <2> QED BY <2>1, <2>2 DEF Accounted, Safe
<1>5. CASE Loop
  <2>1. UNCHANGED <<wormholeTxs, ewExcuse, sending, snsMessages, lastBlock, fromBlock>>
        /\ ewPc' \in {"read", "height"} /\ ewPc = "loop"
    BY <1>5 DEF Loop
  <2> QED BY <1>1, <2>1 DEF Accounted
<1>6. CASE GetFinalizedBlockNumber \/ GetFinalizedBlockNumberFails
  <2>1. UNCHANGED <<wormholeTxs, ewExcuse, sending, snsMessages, lastBlock, fromBlock>>
        /\ ewPc' = "loop" /\ ewPc = "height"
    BY <1>6 DEF GetFinalizedBlockNumber, GetFinalizedBlockNumberFails
  <2> QED BY <1>1, <2>1 DEF Accounted
<1>7. CASE GetWhTxsFails
  <2>1. /\ UNCHANGED <<wormholeTxs, sending, snsMessages, lastBlock, fromBlock, toBlock>>
        /\ ewPc' = "next" /\ ewPc = "read"
        /\ ewExcuse' = ewExcuse \union MessagesIn(fromBlock, toBlock)
    BY <1>7 DEF GetWhTxsFails
  <2> QED BY <1>1, <2>1 DEF Accounted, Safe
<1>8. CASE StoreWhTxs
  <2>1. /\ UNCHANGED <<sending, snsMessages, lastBlock, fromBlock, toBlock, got>>
        /\ ewPc' = "publish" /\ ewPc = "store"
    BY <1>8 DEF StoreWhTxs
  <2>2. /\ wormholeTxs \subseteq wormholeTxs' /\ ewExcuse \subseteq ewExcuse'
        /\ got \subseteq wormholeTxs' \union ewExcuse'
    <3>1. CASE wormholeTxs' = wormholeTxs \union got /\ UNCHANGED ewExcuse BY <3>1
    <3>2. ASSUME NEW n \in got, wormholeTxs' = wormholeTxs \union {m \in got : m < n},
                 ewExcuse' = ewExcuse \union {m \in got : m >= n}
          PROVE  /\ wormholeTxs \subseteq wormholeTxs' /\ ewExcuse \subseteq ewExcuse'
                 /\ got \subseteq wormholeTxs' \union ewExcuse'
      <4>1. \A m \in got : m \in Nat BY ChainFacts DEF EwTyped
      <4>2. \A m \in got : m < n \/ m >= n BY <4>1
      <4> QED BY <3>2, <4>2
    <3> QED BY <1>8, <3>1, <3>2 DEF StoreWhTxs
  <2>3. MessagesIn(fromBlock, toBlock) \subseteq got \union ewExcuse BY <2>1 DEF Accounted, RangeRead
  <2>4. sending \subseteq Safe /\ snsMessages \subseteq Safe BY DEF Accounted
  <2>5. MessagesIn(fromBlock, toBlock) \subseteq Safe' /\ got' \subseteq Safe' BY <2>1, <2>2, <2>3 DEF Safe
  <2> QED BY <1>1, <2>1, <2>2, <2>4, <2>5
<1>9. CASE CreateMessages
  <2>1. /\ UNCHANGED <<wormholeTxs, ewExcuse, snsMessages, lastBlock, fromBlock, toBlock, got>>
        /\ ewPc' = "redeem" /\ ewPc = "publish" /\ sending' = sending \union got
    BY <1>9 DEF CreateMessages
  <2>2. sending' \subseteq Safe /\ MessagesIn(fromBlock, toBlock) \subseteq Safe' BY <2>1 DEF Accounted, Safe
  <2> QED BY <1>1, <2>1, <2>2 DEF Accounted
<1>10. CASE FindGlobalTx \/ WriteGlobalTx
  <2>1. UNCHANGED <<ewPc, fromBlock, toBlock, got, wormholeTxs, ewExcuse, sending, snsMessages, lastBlock>>
    BY <1>10 DEF FindGlobalTx, WriteGlobalTx
  <2> QED BY <2>1 DEF Accounted, Safe, RangeRead, MessagesIn
\* Up to the end of the range, that is behind it or within.
<1>11. ASSUME ewPc \in {"redeem", "next"}, NEW m \in Messages, Chain[m] <= toBlock PROVE m \in Safe
  <2>1. ewPc \in InRange /\ ewPc # "start" BY <1>11 DEF InRange
  <2>2. fromBlock \in Nat /\ toBlock \in Nat /\ Chain[m] \in Nat BY <2>1, RangeFacts, ChainFacts
  <2>3. CASE Chain[m] < fromBlock BY <2>1, <2>3 DEF Accounted
  <2>4. CASE ~(Chain[m] < fromBlock)
    <3>1. m \in MessagesIn(fromBlock, toBlock) BY <1>11, <2>2, <2>4 DEF MessagesIn
    <3> QED BY <1>11, <3>1 DEF Accounted
  <2> QED BY <2>3, <2>4
<1>12. CASE StoreLatestProcessBlock
  <2>1. /\ UNCHANGED <<wormholeTxs, ewExcuse, sending, snsMessages, fromBlock, toBlock>>
        /\ ewPc' = "next" /\ ewPc = "redeem" /\ (lastBlock' = toBlock \/ lastBlock' = lastBlock)
    BY <1>12 DEF StoreLatestProcessBlock
  <2>2. \A m \in Messages : Chain[m] <= toBlock => m \in Safe BY <1>11, <2>1
  <2>3. lastBlock' # Null => \A m \in Messages : Chain[m] <= lastBlock' => m \in Safe
    BY <2>1, <2>2 DEF Accounted
  <2> QED BY <2>1, <2>3 DEF Accounted, Safe, MessagesIn
<1>13. CASE NextRange
  <2>1. /\ UNCHANGED <<wormholeTxs, ewExcuse, sending, snsMessages, lastBlock>>
        /\ ewPc' = "height" /\ ewPc = "next" /\ fromBlock' = toBlock + 1
    BY <1>13 DEF NextRange, NextFrom
  <2>2. \A m \in Messages : Chain[m] < fromBlock' => m \in Safe
    <3>1. toBlock \in Nat BY <2>1, RangeFacts DEF InRange
    <3>2. \A m \in Messages : Chain[m] < toBlock + 1 => Chain[m] <= toBlock BY <3>1, ChainFacts
    <3> QED BY <1>11, <2>1, <3>2
  <2> QED BY <2>1, <2>2 DEF Accounted, Safe
<1>14. CASE PublishMessages
  <2>1. /\ UNCHANGED <<ewPc, fromBlock, toBlock, got, wormholeTxs, ewExcuse, lastBlock>>
        /\ sending' = {} /\ snsMessages' \subseteq snsMessages \union sending
    BY <1>14 DEF PublishMessages
  <2> QED BY <2>1 DEF Accounted, Safe, RangeRead, MessagesIn
<1>15. CASE EwCrash
  <2>1. UNCHANGED <<wormholeTxs, ewExcuse, snsMessages, lastBlock>> /\ ewPc' = "start" /\ sending' = {}
    BY <1>15 DEF EwCrash
  <2> QED BY <2>1 DEF Accounted, Safe
<1> QED
  BY <1>2, <1>3, <1>4, <1>5, <1>6, <1>7, <1>8, <1>9, <1>10, <1>12, <1>13, <1>14, <1>15, EwSteps DEF OtherStep

------------------------------------------------------------------------------
(* arbitrum                                                                 *)

LEMMA FinalInv ==
    ASSUME EwTyped, HeightOK, Paged, RangeFinal, OnlyFinalized, EwNext
    PROVE  RangeFinal' /\ OnlyFinalized'
<1> USE DEF ewChain, ewRange, ewRead, ewStore, ewLast
<1>0. reader' = reader BY ReaderStays
<1> SUFFICES ASSUME reader = "arbitrum" PROVE RangeFinal' /\ OnlyFinalized'
  BY <1>0 DEF RangeFinal, OnlyFinalized
<1> DEFINE Fin(S) == \A m \in S : L1Of(Chain[m]) <= l1Final
<1>1. /\ toBlock # Null => L1Of(toBlock) <= l1Final
      /\ ewPc \in {"store", "publish"} => Fin(got)
      /\ Fin(wormholeTxs)
  BY DEF RangeFinal, OnlyFinalized
<1>2. ASSUME l1Final' = l1Final, toBlock' = toBlock \/ (toBlock' # Null => L1Of(toBlock') <= l1Final),
             ewPc' \in {"store", "publish"} => Fin(got'), Fin(wormholeTxs')
      PROVE  RangeFinal' /\ OnlyFinalized'
  BY <1>0, <1>1, <1>2 DEF RangeFinal, OnlyFinalized, L1Of
<1>3. CASE GetWhTxs
  <2>1. ReadStep BY <1>3, ReaderStep
  <2>2. /\ UNCHANGED <<l1Final, toBlock, wormholeTxs>> /\ ewPc = "read"
        /\ got' \subseteq MessagesIn(fromBlock, toBlock)
    BY <2>1 DEF ReadStep
  <2>3. ewPc \in InRange BY <2>2 DEF InRange
  <2>4. toBlock \in Nat /\ toBlock # Null /\ l1Final \in Nat BY <2>3, RangeFacts, TypedFacts, ChainBounds
  <2>5. ASSUME NEW m \in got' PROVE L1Of(Chain[m]) <= l1Final
    <3>1. m \in Messages /\ Chain[m] <= toBlock BY <2>2 DEF MessagesIn
    <3>2. Chain[m] \in Nat BY <3>1, ChainFacts
    <3> DEFINE x == L1Of(Chain[m])
               y == L1Of(toBlock)
    <3>3. x \in Nat /\ y \in Nat /\ x <= y BY <2>4, <3>1, <3>2, L1Monotone
    <3>4. y <= l1Final BY <1>1, <2>4
    <3> HIDE DEF x, y
    <3>5. x <= l1Final BY <2>4, <3>3, <3>4
    <3> QED BY <3>5 DEF x
  <2> QED BY <1>1, <1>2, <2>2, <2>5
<1>4. CASE EwGrow
  <2>1. UNCHANGED <<ewPc, toBlock, got, wormholeTxs>> BY <1>4 DEF EwGrow
  <2>2. l1Final' >= l1Final /\ l1Final' \in Nat /\ l1Final \in Nat BY <1>4, GrowTyped, TypedFacts DEF EwTyped
  <2>3. \A x \in Nat : x <= l1Final => x <= l1Final' BY <2>2
  <2>4. \A S \in SUBSET Messages : \A m \in S : L1Of(Chain[m]) \in Nat
    <3>1. \A m \in Messages : Chain[m] \in Nat BY ChainFacts
    <3>2. \A x \in Nat : x <= x OBVIOUS
    <3> QED BY <3>1, <3>2, L1Monotone
  <2>5. toBlock # Null => L1Of(toBlock) \in Nat
    <3>1. toBlock # Null => toBlock \in Nat /\ toBlock <= toBlock BY TypedFacts
    <3> QED BY <3>1, L1Monotone
  <2>6. got \in SUBSET Messages /\ wormholeTxs \in SUBSET Messages BY DEF EwTyped
  <2>7. /\ toBlock # Null => L1Of(toBlock) <= l1Final'
        /\ ewPc \in {"store", "publish"} => \A m \in got : L1Of(Chain[m]) <= l1Final'
        /\ \A m \in wormholeTxs : L1Of(Chain[m]) <= l1Final'
    BY <1>1, <2>3, <2>4, <2>5, <2>6
  <2> QED BY <1>0, <2>1, <2>7 DEF RangeFinal, OnlyFinalized, L1Of
<1>5. CASE GetFinalizedBlockNumber \/ GetFinalizedBlockNumberFails
  <2>1. ewPc' = "loop" /\ (toBlock' # Null => L1Of(toBlock') <= l1Final) BY <1>5, HeightTyped
  <2>2. UNCHANGED <<l1Final, wormholeTxs>> BY <1>5 DEF GetFinalizedBlockNumber, GetFinalizedBlockNumberFails
  <2> QED BY <1>1, <1>2, <2>1, <2>2
<1>6. CASE Loop
  <2>1. /\ ewPc' \in {"read", "height"} /\ EwTyped'
        /\ toBlock' # Null => toBlock # Null /\ toBlock' <= toBlock
    BY <1>6, LoopTyped
  <2>2. UNCHANGED <<l1Final, wormholeTxs, ewTop>> BY <1>6 DEF Loop
  <2>3. toBlock' # Null => L1Of(toBlock') <= l1Final
    <3> SUFFICES ASSUME toBlock' # Null PROVE L1Of(toBlock') <= l1Final OBVIOUS
    <3>1. toBlock' \in 0 .. ewTop BY <2>1, <2>2 DEF EwTyped
    <3>2. toBlock' \in Nat /\ toBlock \in Nat /\ toBlock' <= toBlock /\ l1Final \in Nat
      BY <2>1, <3>1, TypedFacts
    <3> DEFINE x == L1Of(toBlock')
               y == L1Of(toBlock)
    <3>3. x \in Nat /\ y \in Nat /\ x <= y BY <3>2, L1Monotone
    <3>4. y <= l1Final BY <1>1, <2>1
    <3> HIDE DEF x, y
    <3>5. x <= l1Final BY <3>2, <3>3, <3>4
    <3> QED BY <3>5 DEF x
  <2> QED BY <1>1, <1>2, <2>1, <2>2, <2>3
<1>7. CASE StoreWhTxs
  <2>1. UNCHANGED <<l1Final, toBlock, got>> /\ ewPc = "store" /\ wormholeTxs' \subseteq wormholeTxs \union got
    BY <1>7 DEF StoreWhTxs
  <2> QED BY <1>1, <1>2, <2>1
<1>8. CASE \/ EwStart \/ GetWhTxsFails \/ CreateMessages \/ FindGlobalTx \/ WriteGlobalTx
           \/ StoreLatestProcessBlock \/ NextRange \/ PublishMessages \/ OtherServices \/ EwCrash
  <2>1. /\ UNCHANGED <<l1Final, wormholeTxs>> /\ (toBlock' = toBlock \/ toBlock' = Null)
        /\ ewPc' \notin {"store", "publish"} \/ (ewPc' = ewPc /\ got' = got)
    BY <1>8 DEF EwStart, GetWhTxsFails, CreateMessages, FindGlobalTx, WriteGlobalTx,
           StoreLatestProcessBlock, NextRange, PublishMessages, OtherServices, EwCrash
  <2> QED BY <1>1, <1>2, <2>1
<1> QED BY <1>3, <1>4, <1>5, <1>6, <1>7, <1>8, EwSteps DEF OtherStep
------------------------------------------------------------------------------
(* The redeemed transfers.                                                  *)

Set == {"event-watcher", "contract-watcher"}

\* On record, by whoever, or lost with a reason.
OnRecord(b) == destinationTx[b] \in Set \/ b \in redeemExcuse

\* What the watcher has behind it is on record; of the range at hand, what is not still
\* to be stored; and what was looked up still holds when it is a destinationTx.
RedeemsOK ==
    /\ looked # "not looked" => ewPc = "redeem" /\ todo # {}
    /\ looked \in Set => destinationTx[Lowest(todo)] \in Set
    /\ reader = "evm" =>
          /\ ewPc # "start" => \A b \in Redeems : b < fromBlock => OnRecord(b)
          /\ lastBlock # Null => \A b \in Redeems : b <= lastBlock => OnRecord(b)
          /\ ewPc \in {"redeem", "next"} =>
                \A b \in Redeems : fromBlock <= b /\ b <= toBlock =>
                    OnRecord(b) \/ (ewPc = "redeem" /\ b \in todo)

LEMMA RedeemsInv ==
    ASSUME EwTyped, HeightOK, Paged, RedeemsOK, EwNext
    PROVE  RedeemsOK'
<1> USE DEF ewChain, ewRange, ewLast, ewRedeem
<1>0. reader' = reader BY ReaderStays
\* A step that has nothing to do with them.
<1>1. ASSUME UNCHANGED ewRedeem, UNCHANGED <<fromBlock, lastBlock>>, ewPc # "start",
             (ewPc' \notin {"redeem", "next"} /\ ewPc # "redeem") \/ UNCHANGED <<ewPc, toBlock>>
      PROVE  RedeemsOK'
  BY <1>0, <1>1 DEF RedeemsOK, OnRecord, Set
<1>2. CASE GetWhTxs
  <2>1. ReadStep BY <1>2, ReaderStep
  <2> QED BY <1>1, <2>1 DEF ReadStep
<1>3. CASE EwGrow \/ PublishMessages
  <2>1. UNCHANGED <<ewPc, fromBlock, toBlock, todo, looked, destinationTx, redeemExcuse, lastBlock>>
    BY <1>3 DEF EwGrow, PublishMessages
  <2> QED BY <1>0, <2>1 DEF RedeemsOK, OnRecord, Set
<1>4. CASE Loop BY <1>1, <1>4 DEF Loop
<1>5. CASE GetFinalizedBlockNumber \/ GetFinalizedBlockNumberFails
  BY <1>1, <1>5 DEF GetFinalizedBlockNumber, GetFinalizedBlockNumberFails
<1>6. CASE StoreWhTxs BY <1>1, <1>6 DEF StoreWhTxs
<1>7. CASE EwStart
  <2>1. UNCHANGED <<todo, looked, destinationTx, redeemExcuse, lastBlock>> /\ ewPc' = "loop" /\ ewPc = "start"
    BY <1>7 DEF EwStart
  <2>2. looked = "not looked" BY <2>1 DEF RedeemsOK
  <2>3. reader = "evm" => \A b \in Redeems : b < fromBlock' => OnRecord(b)
    <3> SUFFICES ASSUME reader = "evm", NEW b \in Redeems, b < fromBlock' PROVE OnRecord(b) OBVIOUS
    <3>1. FirstBlock <= b /\ b \in Nat BY ChainFacts
    <3>2. fromBlock' = GetResumeBlockByChain(lastBlock) \/ fromBlock' = GetResumeBlockByChain(Null)
      BY <1>7 DEF EwStart
    <3>3. fromBlock' = FirstBlock \/ (lastBlock \in Nat /\ fromBlock' = lastBlock + 1)
      BY <3>2, TypedFacts, ChainBounds DEF GetResumeBlockByChain
    <3>4. lastBlock \in Nat /\ b <= lastBlock BY <3>1, <3>3, ChainBounds
    <3>5. lastBlock # Null BY <3>4, ChainBounds
    <3> QED BY <3>4, <3>5 DEF RedeemsOK
  <2> QED BY <1>0, <2>1, <2>2, <2>3 DEF RedeemsOK, OnRecord, Set
<1>8. CASE GetWhTxsFails
  <2>1. /\ UNCHANGED <<todo, looked, destinationTx, lastBlock, fromBlock, toBlock>> /\ ewPc' = "next" /\ ewPc = "read"
        /\ redeemExcuse' = redeemExcuse \union (Redeems \intersect fromBlock .. toBlock)
    BY <1>8 DEF GetWhTxsFails
  <2>2. looked = "not looked" BY <2>1 DEF RedeemsOK
  <2>3. fromBlock \in Nat /\ toBlock \in Nat BY <2>1, RangeFacts DEF InRange
  <2>4. \A b \in Redeems : fromBlock <= b /\ b <= toBlock => b \in redeemExcuse' BY <2>1, <2>3, ChainFacts
  <2>5. \A b \in Redeems : OnRecord(b) => OnRecord(b)' BY <2>1 DEF OnRecord
  <2>6. \A b \in Redeems : fromBlock <= b /\ b <= toBlock => OnRecord(b)' BY <2>4 DEF OnRecord
  <2> QED BY <1>0, <2>1, <2>2, <2>5, <2>6 DEF RedeemsOK, Set
<1>9. CASE CreateMessages
  <2>1. /\ UNCHANGED <<looked, destinationTx, redeemExcuse, lastBlock, fromBlock, toBlock>>
        /\ ewPc' = "redeem" /\ ewPc = "publish"
        /\ todo' = IF reader = "evm" THEN Redeems \intersect fromBlock .. toBlock ELSE {}
    BY <1>9 DEF CreateMessages
  <2>2. looked = "not looked" BY <2>1 DEF RedeemsOK
  <2>3. fromBlock \in Nat /\ toBlock \in Nat BY <2>1, RangeFacts DEF InRange
  <2>4. reader = "evm" => \A b \in Redeems : fromBlock <= b /\ b <= toBlock => b \in todo' BY <2>1, <2>3, ChainFacts
  <2>5. \A b \in Redeems : OnRecord(b) => OnRecord(b)' BY <2>1 DEF OnRecord
  <2> QED BY <1>0, <2>1, <2>2, <2>4, <2>5 DEF RedeemsOK, Set
\* The one at hand.
<1> DEFINE low == Lowest(todo)
<1>10. todo # {} => low \in todo /\ low \in Redeems
  <2>1. todo \in SUBSET Nat /\ todo \subseteq Redeems BY ChainFacts DEF EwTyped
  <2> QED BY <2>1, LeastOf
<1>11. CASE FindGlobalTx
  <2>1. /\ UNCHANGED <<ewPc, fromBlock, toBlock, todo, destinationTx, redeemExcuse, lastBlock>>
        /\ ewPc = "redeem" /\ todo # {} /\ looked' = destinationTx[low]
    BY <1>11 DEF FindGlobalTx
  <2>2. Lowest(todo)' = low BY <2>1 DEF Lowest
  <2>3. looked' \in Set => destinationTx'[Lowest(todo)'] \in Set BY <2>1, <2>2, Zenon
  <2>4. \A b \in Redeems : OnRecord(b) => OnRecord(b)' BY <2>1 DEF OnRecord
  <2> QED BY <1>0, <2>1, <2>3, <2>4 DEF RedeemsOK, Set
<1>12. CASE WriteGlobalTx
  <2>1. /\ UNCHANGED <<ewPc, fromBlock, toBlock, lastBlock>>
        /\ ewPc = "redeem" /\ todo # {} /\ looked # "not looked" /\ looked' = "not looked"
    BY <1>12 DEF WriteGlobalTx
  <2>2. low \in Redeems /\ DOMAIN destinationTx = Redeems BY <1>10, <2>1 DEF EwTyped
  <2>3. /\ todo' \subseteq todo
        /\ \A b \in Redeems : OnRecord(b) => OnRecord(b)'
        /\ \A b \in todo : OnRecord(b)' \/ b \in todo'
    <3>1. CASE destinationTx' = [destinationTx EXCEPT ![low] = "event-watcher"] /\ Stored(low)
      <4>1. todo' = todo \ {low} /\ redeemExcuse' = redeemExcuse BY <3>1 DEF Stored
      <4>2. \A b \in Redeems : destinationTx'[b] = IF b = low THEN "event-watcher" ELSE destinationTx[b]
        BY <2>2, <3>1
      <4>3. \A b \in Redeems : destinationTx[b] \in Set => destinationTx'[b] \in Set BY <4>2 DEF Set
      <4>4. destinationTx'[low] \in Set BY <2>2, <4>2 DEF Set
      <4>5. \A b \in todo : b = low => OnRecord(b)' BY <4>4 DEF OnRecord
      <4>6. \A b \in todo : b = low \/ b \in todo' BY <4>1
      <4>7. \A b \in Redeems : OnRecord(b) => OnRecord(b)' BY <4>1, <4>3 DEF OnRecord
      <4> QED BY <4>1, <4>5, <4>6, <4>7
    <3>2. CASE looked # "none" /\ ~SetsDestination(looked) /\ UNCHANGED destinationTx /\ Stored(low)
      <4>1. todo' = todo \ {low} /\ redeemExcuse' = redeemExcuse BY <3>2 DEF Stored
      <4>2. looked \in Set BY <2>1, <3>2 DEF SetsDestination, EwTyped, Documents, Set
      <4>3. destinationTx[low] \in Set BY <4>2 DEF RedeemsOK
      <4> QED BY <3>2, <4>1, <4>3 DEF OnRecord
    <3>3. CASE todo' = {} /\ redeemExcuse' = redeemExcuse \union todo /\ UNCHANGED destinationTx
      BY <3>3 DEF OnRecord
    <3> QED BY <1>12, <3>1, <3>2, <3>3, Zenon DEF WriteGlobalTx
  <2> QED BY <1>0, <2>1, <2>3 DEF RedeemsOK, Set
<1>13. CASE OtherServices
  <2>1. UNCHANGED <<ewPc, fromBlock, toBlock, lastBlock, todo, looked, redeemExcuse>>
    BY <1>13 DEF OtherServices
  <2>2. PICK c \in Redeems :
           /\ destinationTx[c] \in {"none", "origin"}
           /\ \/ destinationTx' = [destinationTx EXCEPT ![c] = "origin"]
              \/ destinationTx' = [destinationTx EXCEPT ![c] = "contract-watcher"]
    BY <1>13 DEF OtherServices
  <2>3. \A b \in Redeems : destinationTx[b] \in Set => destinationTx'[b] \in Set
    BY <2>2 DEF EwTyped, Set
  <2>4. \A b \in Redeems : OnRecord(b) => OnRecord(b)' BY <2>1, <2>3 DEF OnRecord
  <2>5. Lowest(todo)' = low BY <2>1 DEF Lowest
  <2>6. looked' \in Set => destinationTx'[low] \in Set
    BY <1>10, <2>1, <2>3 DEF RedeemsOK, Set
  <2>7. looked' \in Set => destinationTx'[Lowest(todo)'] \in Set BY <2>5, <2>6, Zenon
  <2> QED BY <1>0, <2>1, <2>4, <2>7 DEF RedeemsOK, Set
\* Up to the end of the range, that is behind it or within.
<1>14. ASSUME reader = "evm", ewPc \in {"redeem", "next"}, todo = {} \/ ewPc = "next", NEW b \in Redeems, b <= toBlock
       PROVE  OnRecord(b)
  <2>1. ewPc \in InRange /\ ewPc # "start" BY <1>14 DEF InRange
  <2>2. fromBlock \in Nat /\ toBlock \in Nat /\ b \in Nat BY <2>1, RangeFacts, ChainFacts
  <2>3. CASE b < fromBlock BY <1>14, <2>1, <2>3 DEF RedeemsOK
  <2>4. CASE ~(b < fromBlock)
    <3>1. fromBlock <= b BY <2>2, <2>4
    <3> QED BY <1>14, <3>1 DEF RedeemsOK
  <2> QED BY <2>3, <2>4
<1>15. CASE StoreLatestProcessBlock
  <2>1. /\ UNCHANGED <<fromBlock, toBlock, todo, looked, destinationTx, redeemExcuse>>
        /\ ewPc' = "next" /\ ewPc = "redeem" /\ (lastBlock' = toBlock \/ lastBlock' = lastBlock) /\ todo = {}
    BY <1>15 DEF StoreLatestProcessBlock
  <2>2. looked = "not looked" BY <2>1 DEF RedeemsOK
  <2>3. reader = "evm" => \A b \in Redeems : b <= toBlock => OnRecord(b) BY <1>14, <2>1
  <2>4. \A b \in Redeems : OnRecord(b) => OnRecord(b)' BY <2>1 DEF OnRecord
  <2>5. reader = "evm" /\ lastBlock' # Null => \A b \in Redeems : b <= lastBlock' => OnRecord(b)'
    BY <2>1, <2>3, <2>4 DEF RedeemsOK
  <2> QED BY <1>0, <2>1, <2>2, <2>3, <2>4, <2>5 DEF RedeemsOK, Set
<1>16. CASE NextRange
  <2>1. /\ UNCHANGED <<toBlock, todo, looked, destinationTx, redeemExcuse, lastBlock>>
        /\ ewPc' = "height" /\ ewPc = "next" /\ fromBlock' = toBlock + 1
    BY <1>16 DEF NextRange, NextFrom
  <2>2. looked = "not looked" BY <2>1 DEF RedeemsOK
  <2>3. toBlock \in Nat BY <2>1, RangeFacts DEF InRange
  <2>4. \A b \in Redeems : b < toBlock + 1 => b <= toBlock BY <2>3, ChainFacts
  <2>5. reader = "evm" => \A b \in Redeems : b < fromBlock' => OnRecord(b)' BY <1>14, <2>1, <2>4 DEF OnRecord
  <2>6. \A b \in Redeems : OnRecord(b) => OnRecord(b)' BY <2>1 DEF OnRecord
  <2> QED BY <1>0, <2>1, <2>2, <2>5, <2>6 DEF RedeemsOK, Set
<1>17. CASE EwCrash
  <2>1. UNCHANGED <<destinationTx, redeemExcuse, lastBlock>> /\ ewPc' = "start" /\ looked' = "not looked"
    BY <1>17 DEF EwCrash
  <2>2. \A b \in Redeems : OnRecord(b) => OnRecord(b)' BY <2>1 DEF OnRecord
  <2> QED BY <1>0, <2>1, <2>2 DEF RedeemsOK, Set
<1> QED
  BY <1>2, <1>3, <1>4, <1>5, <1>6, <1>7, <1>8, <1>9, <1>11, <1>12, <1>13, <1>15, <1>16, <1>17, EwSteps DEF OtherStep

------------------------------------------------------------------------------
(* The last block.                                                          *)

\* Unless it could not be read, it is behind what is read next.
LastBehind ==
    ~unread /\ ewPc # "start" =>
        lastBlock < fromBlock \/ (ewPc = "next" /\ lastBlock <= toBlock)

LEMMA LastInv ==
    ASSUME EwTyped, HeightOK, Paged, LastBehind, EwNext
    PROVE  LastBehind' /\ (lastBlock' >= lastBlock \/ unread)
<1> USE DEF ewChain, ewRange, ewLast
<1>0. lastBlock \in Int /\ (lastBlock \in Nat \/ lastBlock = Null) BY TypedFacts, ChainBounds
<1>1. ASSUME UNCHANGED <<fromBlock, lastBlock, unread>>, ewPc # "start",
             ewPc = "next" => UNCHANGED <<ewPc, toBlock>>
      PROVE  LastBehind' /\ (lastBlock' >= lastBlock \/ unread)
  BY <1>0, <1>1 DEF LastBehind
<1>2. CASE GetWhTxs
  <2>1. ReadStep BY <1>2, ReaderStep
  <2> QED BY <1>1, <2>1 DEF ReadStep
<1>3. CASE EwGrow \/ PublishMessages \/ OtherServices
  <2>1. UNCHANGED <<ewPc, fromBlock, toBlock, lastBlock, unread>>
    BY <1>3 DEF EwGrow, PublishMessages, OtherServices
  <2> QED BY <1>0, <2>1 DEF LastBehind
<1>4. CASE \/ Loop \/ GetFinalizedBlockNumber \/ GetFinalizedBlockNumberFails \/ GetWhTxsFails \/ StoreWhTxs
           \/ CreateMessages \/ FindGlobalTx \/ WriteGlobalTx
  BY <1>1, <1>4 DEF Loop, GetFinalizedBlockNumber, GetFinalizedBlockNumberFails, GetWhTxsFails, StoreWhTxs,
                    CreateMessages, FindGlobalTx, WriteGlobalTx
<1>5. CASE EwStart
  <2>1. UNCHANGED lastBlock /\ ewPc' = "loop"
        /\ (fromBlock' = GetResumeBlockByChain(lastBlock) \/ unread' = TRUE)
    BY <1>5 DEF EwStart
  <2>2. lastBlock < GetResumeBlockByChain(lastBlock)
    BY TypedFacts, ChainBounds DEF GetResumeBlockByChain
  <2>3. fromBlock' = GetResumeBlockByChain(lastBlock) => lastBlock < fromBlock' BY <2>2, Zenon
  <2> QED BY <1>0, <2>1, <2>3 DEF LastBehind
<1>6. CASE StoreLatestProcessBlock
  <2>1. /\ UNCHANGED <<fromBlock, toBlock, unread>> /\ ewPc' = "next" /\ ewPc = "redeem"
        /\ lastBlock' = toBlock \/ lastBlock' = lastBlock
    BY <1>6 DEF StoreLatestProcessBlock
  <2>2. fromBlock \in Nat /\ toBlock \in Nat /\ fromBlock <= toBlock BY <2>1, RangeFacts DEF InRange
  <2>3. ~unread => lastBlock < fromBlock BY <2>1 DEF LastBehind
  <2>4. ~unread => lastBlock <= toBlock BY <1>0, <2>2, <2>3
  <2>5. CASE lastBlock' = toBlock
    <3>1. toBlock <= toBlock /\ (~unread => toBlock >= lastBlock) BY <1>0, <2>2, <2>4
    <3> QED BY <2>1, <2>5, <3>1 DEF LastBehind
  <2>6. CASE lastBlock' = lastBlock
    <3>1. lastBlock >= lastBlock BY <1>0
    <3> QED BY <2>1, <2>4, <2>6, <3>1 DEF LastBehind
  <2> QED BY <2>1, <2>5, <2>6
<1>7. CASE NextRange
  <2>1. UNCHANGED <<toBlock, lastBlock, unread>> /\ ewPc' = "height" /\ ewPc = "next" /\ fromBlock' = toBlock + 1
    BY <1>7 DEF NextRange, NextFrom
  <2>2. fromBlock \in Nat /\ toBlock \in Nat /\ fromBlock <= toBlock BY <2>1, RangeFacts DEF InRange
  <2>3. ~unread => lastBlock < fromBlock \/ lastBlock <= toBlock BY <2>1 DEF LastBehind
  <2>4. ~unread => lastBlock < toBlock + 1 BY <1>0, <2>2, <2>3
  <2>5. lastBlock >= lastBlock BY <1>0
  <2> QED BY <2>1, <2>4, <2>5 DEF LastBehind
<1>8. CASE EwCrash
  <2>1. ewPc' = "start" /\ lastBlock' = lastBlock BY <1>8 DEF EwCrash
  <2> QED BY <1>0, <2>1 DEF LastBehind
<1> QED BY <1>2, <1>3, <1>4, <1>5, <1>6, <1>7, <1>8, EwSteps DEF OtherStep
------------------------------------------------------------------------------
(* All of it.                                                               *)

EwInv ==
    EwTyped /\ HeightOK /\ Paged /\ Accounted /\ RangeFinal /\ OnlyFinalized /\ RedeemsOK /\ LastBehind

LEMMA EwInitInv == EwInit => EwInv
<1> SUFFICES ASSUME EwInit PROVE EwInv OBVIOUS
<1>1. EwTyped /\ HeightOK /\ RangeFinal /\ OnlyFinalized BY EwInitTyped
<1>2. /\ ewPc = "start" /\ lastBlock = Null /\ looked = "not looked"
      /\ sending = {} /\ snsMessages = {}
  BY DEF EwInit
<1>3. Paged /\ LastBehind BY <1>2 DEF Paged, LastBehind
<1>4. Accounted BY <1>2 DEF Accounted
<1>5. RedeemsOK BY <1>2 DEF RedeemsOK, Set
<1> QED BY <1>1, <1>3, <1>4, <1>5 DEF EwInv

LEMMA EwNextInv ==
    ASSUME EwInv, EwNext
    PROVE  EwInv' /\ (lastBlock' >= lastBlock \/ unread)
<1> USE DEF EwInv
<1>1. EwTyped' /\ HeightOK' BY TypedInv
<1>2. Paged' BY PagedInv
<1>3. Accounted' BY AccountedInv
<1>4. RangeFinal' /\ OnlyFinalized' BY FinalInv
<1>5. RedeemsOK' BY RedeemsInv
<1>6. LastBehind' /\ (lastBlock' >= lastBlock \/ unread) BY LastInv
<1> QED BY <1>1, <1>2, <1>3, <1>4, <1>5, <1>6

LEMMA EwSame == ASSUME EwInv, UNCHANGED ewVars PROVE EwInv'
<1> USE DEF ewVars, ewChain, ewHeight, ewRange, ewRead, ewStore, ewRedeem, ewLast
<1>1. EwTyped' BY DEF EwInv, EwTyped
<1>2. HeightOK' /\ RangeFinal' /\ OnlyFinalized' BY DEF EwInv, HeightOK, RangeFinal, OnlyFinalized
<1>3. MessagesIn(fromBlock, toBlock)' = MessagesIn(fromBlock, toBlock) /\ Visible' = Visible
  BY DEF MessagesIn, Visible
<1>4. Paged'
  <2> HIDE DEF ewVars
  <2>1. /\ fromBlock' = fromBlock /\ toBlock' = toBlock /\ pos' = pos /\ got' = got /\ ewExcuse' = ewExcuse
        /\ reader' = reader /\ ewPc' = ewPc /\ ewTop' = ewTop
    BY DEF ewVars
  <2> QED BY <1>3, <2>1 DEF EwInv, Paged
<1>5. Accounted' BY <1>3 DEF EwInv, Accounted, RangeRead, Safe
<1>6. RedeemsOK'
  <2>1. Lowest(todo)' = Lowest(todo) BY DEF Lowest
  <2> QED BY <2>1 DEF EwInv, RedeemsOK, OnRecord
<1>7. LastBehind' BY DEF EwInv, LastBehind
<1> QED BY <1>1, <1>2, <1>4, <1>5, <1>6, <1>7 DEF EwInv

LEMMA EwInvImplies ==
    ASSUME EwInv
    PROVE  EwTypeOK /\ NoMessageForgotten /\ OnlyFinalized /\ RedeemNotLost
<1> USE DEF EwInv
<1>1. EwTypeOK
  <2>1. {lastBlock, fromBlock, toBlock} \subseteq 0 .. MaxEwBlock + 1 \union {Null}
    <3>1. fromBlock \in 0 .. MaxEwBlock + 1 \/ fromBlock = Null
      <4>1. FirstBlock .. MaxEwBlock + 1 \subseteq 0 .. MaxEwBlock + 1 BY ChainBounds
      <4> QED BY <4>1 DEF EwTyped
    <3>2. toBlock \in 0 .. MaxEwBlock + 1 \/ toBlock = Null BY TypedFacts, ChainBounds
    <3>3. lastBlock \in 0 .. MaxEwBlock + 1 \/ lastBlock = Null
      <4>1. lastBlock \in FirstBlock .. ewTop \/ lastBlock = Null BY DEF EwTyped
      <4> QED BY <4>1, TypedFacts, ChainBounds
    <3> QED BY <3>1, <3>2, <3>3
  <2>2. ewPc \in InRange => fromBlock # Null /\ toBlock # Null /\ fromBlock <= toBlock
    BY RangeFacts, ChainBounds
  <2> QED BY <2>1, <2>2 DEF EwTyped, EwTypeOK, InRange
<1>2. NoMessageForgotten BY DEF Accounted, Safe, NoMessageForgotten
<1>3. RedeemNotLost BY DEF RedeemsOK, OnRecord, Set, RedeemNotLost
<1> QED BY <1>1, <1>2, <1>3

=============================================================================
