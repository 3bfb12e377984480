---------------------------- MODULE PollingProofs ----------------------------
(***************************************************************************)
(* Theorems about the jobs of blockchain-watcher: PollEvmLogs, for every    *)
(* set of handlers, every configuration and every height of the chain, and  *)
(* PollSolana, for every chain, program, range and size of a page.          *)
(***************************************************************************)
EXTENDS MCPolling, FiniteSetTheorems, WellFoundedInduction, TLAPS

USE DEF NoBlock

------------------------------------------------------------------------------
(* The range of a round.                                                    *)

\* A range that begins at a block the node has, of a job that has not finished,
\* ends within what the node has and, of a job that has a first block or a
\* cursor, not before its begin; it begins behind the cursor.
LEMMA RangeWithin ==
    ASSUME ConfigAssumption, TypeOK, ~HasFinished,
           GetBlockRange(height).fromBlock <= height
    PROVE  /\ GetBlockRange(height).fromBlock \in Blocks
           /\ GetBlockRange(height).toBlock \in Blocks
           /\ GetBlockRange(height).toBlock <= height
           /\ Truthy(FromBlock) \/ Truthy(cursor) =>
                 GetBlockRange(height).fromBlock <= GetBlockRange(height).toBlock
           /\ Truthy(cursor) => cursor < GetBlockRange(height).fromBlock
           /\ GetBlockRange(height) = [fromBlock |-> GetBlockRange(height).fromBlock,
                                       toBlock |-> GetBlockRange(height).toBlock]
<1>1. /\ cfg.fromBlock \in (Nat \ {0}) \union {-1} /\ cfg.toBlock \in (Nat \ {0}) \union {-1}
      /\ cfg.blockBatchSize \in Nat \ {0}
      /\ cfg.fromBlock > 0 /\ cfg.toBlock > 0 => cfg.fromBlock <= cfg.toBlock
  BY DEF ConfigAssumption, TypeOK
<1>2. /\ height \in 0..MaxBlock /\ cursor \in 0..MaxBlock \union {-1} /\ MaxBlock \in Nat
  BY DEF ConfigAssumption, TypeOK, Blocks
<1>3. /\ NextBlock(height) \in Nat
      /\ Truthy(cursor) => cursor < NextBlock(height)
      /\ cfg.toBlock > 0 => NextBlock(height) <= cfg.toBlock \/ (~Truthy(FromBlock) /\ ~Truthy(cursor))
  BY <1>1, <1>2 DEF NextBlock, Truthy, FromBlock, HasFinished, ToBlock
<1> DEFINE r == GetBlockRange(height)
<1>4. r.fromBlock = NextBlock(height) BY DEF GetBlockRange
<1>5. r = [fromBlock |-> r.fromBlock, toBlock |-> r.toBlock] BY DEF GetBlockRange
<1> QED BY <1>1, <1>2, <1>3, <1>4, <1>5 DEF GetBlockRange, Blocks, Truthy, ToBlock, BlockBatchSize
------------------------------------------------------------------------------
(* Type correctness.                                                        *)

LEMMA InitTypeOK == ASSUME ConfigAssumption, Init PROVE TypeOK
  BY DEF ConfigAssumption, Init, TypeOK, Blocks, NoRange

\* A job that has finished asks for nothing.
AsksUnfinished == pc = "get" => ~HasFinished

LEMMA StepTypeOK ==
    ASSUME ConfigAssumption, TypeOK, AsksUnfinished, [Next]_vars
    PROVE  TypeOK' /\ AsksUnfinished'
<1> USE DEF TypeOK, AsksUnfinished, HasFinished, ToBlock
<1>1. CASE NewHeight BY <1>1 DEF NewHeight, Blocks
<1>2. CASE PreHook BY <1>2 DEF PreHook
<1>3. CASE HasNext BY <1>3 DEF HasNext
<1>4. CASE GetNothing BY <1>4 DEF GetNothing
<1>5. CASE GetLogs
  <2> DEFINE r == GetBlockRange(height)
  <2>1. /\ r.fromBlock \in Blocks /\ r.toBlock \in Blocks
        /\ r = [fromBlock |-> r.fromBlock, toBlock |-> r.toBlock]
    BY <1>5, RangeWithin DEF GetLogs
  <2>2. r \in [fromBlock : Blocks \union {NoBlock}, toBlock : Blocks \union {NoBlock}]
    BY <2>1
  <2>3. r.fromBlock .. r.toBlock \subseteq Blocks BY <2>1, ConfigAssumption DEF Blocks, ConfigAssumption
  <2> HIDE DEF r
  <2>4. /\ items' = r.fromBlock .. r.toBlock /\ lastRange' = r /\ pc' = "handle"
        /\ UNCHANGED <<cfg, top, height, file, cursor, handled, faults>>
    BY <1>5 DEF GetLogs, r
  <2> QED BY <2>2, <2>3, <2>4
<1>6. CASE Handle BY <1>6 DEF Handle, HandledBy
<1>7. CASE Persist
  <2>1. cursor' \in Blocks \union {NoBlock} BY <1>7 DEF Persist
  <2> QED BY <1>7, <2>1 DEF Persist
<1>8. CASE GetFails BY <1>8, ConfigAssumption DEF GetFails, Fault, ConfigAssumption
<1>9. CASE HandleFails BY <1>9, ConfigAssumption DEF HandleFails, HandledBy, Fault, ConfigAssumption
<1>10. CASE Crash BY <1>10, ConfigAssumption DEF Crash, NoRange, Fault, ConfigAssumption
<1>11. CASE UNCHANGED vars BY <1>11 DEF vars
<1> QED
  BY <1>1, <1>2, <1>3, <1>4, <1>5, <1>6, <1>7, <1>8, <1>9, <1>10, <1>11 DEF Next, Round

Typed == TypeOK /\ AsksUnfinished

LEMMA AlwaysTyped == Spec => []Typed
<1>1. Init => Typed BY InitTypeOK, ConfigAssumption DEF Typed, AsksUnfinished, Init
<1>2. Typed /\ [Next]_vars => Typed' BY StepTypeOK, ConfigAssumption DEF Typed
<1> QED BY <1>1, <1>2, PTL DEF Spec

\* Every variable of the job keeps its type: no range ends beyond the chain.
THEOREM TypeCorrect == Spec => []TypeOK
  BY AlwaysTyped, PTL DEF Typed

------------------------------------------------------------------------------
(* The cursor in memory, the one in the file and the last range.            *)

Resumes ==
    /\ file # 0
    /\ pc = "preHook" => cursor = NoBlock /\ lastRange = NoRange
    /\ pc # "preHook" => cursor = file \/ (file = NoBlock /\ ~Truthy(cursor))
    /\ lastRange # NoRange => file <= lastRange.toBlock
    /\ NothingRepeatedBelowCursor

LEMMA InitResumes == ASSUME Init PROVE Resumes
  BY DEF Init, Resumes, NothingRepeatedBelowCursor

LEMMA StepResumes ==
    ASSUME ConfigAssumption, Typed, Resumes, [Next]_vars
    PROVE  Resumes' /\ (file' # NoBlock => file <= file')
<1>0. /\ file \in 0..MaxBlock \union {-1} /\ cursor \in 0..MaxBlock \union {-1}
      /\ lastRange.toBlock \in 0..MaxBlock \union {-1} /\ MaxBlock \in Nat
      /\ TypeOK
  BY DEF Typed, TypeOK, Blocks, ConfigAssumption
<1> USE DEF Resumes, NothingRepeatedBelowCursor
<1>1. CASE NewHeight BY <1>0, <1>1 DEF NewHeight
<1>2. CASE PreHook BY <1>0, <1>2 DEF PreHook, Truthy
<1>3. CASE HasNext BY <1>0, <1>3 DEF HasNext
<1>4. CASE GetNothing BY <1>0, <1>4 DEF GetNothing
<1>5. CASE GetLogs
  <2> DEFINE r == GetBlockRange(height)
  <2>1. /\ r.fromBlock \in Nat /\ r.toBlock \in Nat
        /\ Truthy(cursor) => cursor < r.fromBlock /\ r.fromBlock <= r.toBlock
    BY <1>0, <1>5, RangeWithin DEF GetLogs, Typed, AsksUnfinished, Blocks
  <2> HIDE DEF r
  <2>2. /\ items' = r.fromBlock .. r.toBlock /\ lastRange' = r /\ pc' = "handle" /\ pc = "get"
        /\ file' = file /\ cursor' = cursor
    BY <1>5 DEF GetLogs, r
  <2> QED BY <1>0, <2>1, <2>2 DEF Truthy
<1>6. CASE Handle BY <1>0, <1>6 DEF Handle
<1>7. CASE Persist BY <1>0, <1>7 DEF Persist, Truthy
<1>8. CASE GetFails BY <1>0, <1>8 DEF GetFails
<1>9. CASE HandleFails BY <1>0, <1>9 DEF HandleFails
<1>10. CASE Crash BY <1>0, <1>10 DEF Crash
<1>11. CASE UNCHANGED vars BY <1>0, <1>11 DEF vars
<1> QED
  BY <1>1, <1>2, <1>3, <1>4, <1>5, <1>6, <1>7, <1>8, <1>9, <1>10, <1>11 DEF Next, Round

LEMMA AlwaysResumes == Spec => []Resumes
<1>1. Init => Resumes BY InitResumes
<1>2. Typed /\ Resumes /\ [Next]_vars => Resumes' BY StepResumes, ConfigAssumption
<1> QED BY <1>1, <1>2, AlwaysTyped, PTL DEF Spec

\* No round hands out a block that the metadata file says is done: the cursor in
\* memory is the one of the file, unless neither of them counts.
THEOREM NeverRepeats == Spec => []NothingRepeatedBelowCursor
  BY AlwaysResumes, PTL DEF Resumes

\* The saved cursor never goes back, whatever the node answers.
THEOREM SavedNeverBack == Spec => CursorNeverBack
<1>1. Typed /\ Resumes /\ [Next]_vars => [file' # NoBlock => file <= file']_vars
  BY StepResumes, ConfigAssumption
<1> QED BY <1>1, AlwaysTyped, AlwaysResumes, PTL DEF Spec, CursorNeverBack

------------------------------------------------------------------------------
(* Nothing is passed over.                                                  *)

\* Every handler has taken the blocks from first to last.
Taken(first, last, done) == \A b \in first .. last, h \in Handlers : b \in done[h]

Steady == FromBlock # NoBlock /\ MaxLag = 0

\* A range that failed keeps its lastRange, which the next round may save: so as
\* long as its blocks are not taken, the next round must find it again.
Unbroken ==
    Steady =>
        /\ height = top
        /\ Taken(FromBlock, file, handled)
        /\ lastRange # NoRange =>
              /\ pc \in {"hasNext", "get"} =>
                    \/ Taken(FromBlock, lastRange.toBlock, handled)
                    \/ NextBlock(height) <= height
              /\ pc = "handle" =>
                    \/ Taken(FromBlock, lastRange.toBlock, handled)
                    \/ /\ NextBlock(height) <= height
                       /\ items = NextBlock(height) .. lastRange.toBlock
              /\ pc = "persist" => Taken(FromBlock, lastRange.toBlock, handled)

LEMMA TakenStays ==
    ASSUME NEW first, NEW last, NEW done, NEW more, Taken(first, last, done),
           \A h \in Handlers : done[h] \subseteq more[h]
    PROVE  Taken(first, last, more)
  BY DEF Taken

LEMMA TakenJoins ==
    ASSUME NEW first \in Int, NEW next \in Int, NEW last \in Int, NEW done,
           NEW more, Taken(first, next - 1, done),
           \A h \in Handlers : more[h] = done[h] \union (next .. last)
    PROVE  Taken(first, last, more)
  BY DEF Taken

LEMMA TakenNothing ==
    ASSUME NEW first \in Int, NEW last \in Int, last < first, NEW done
    PROVE  Taken(first, last, done)
  BY DEF Taken

\* Where the next range begins, of a job that has a first block.
LEMMA NextFromFirst ==
    ASSUME ConfigAssumption, TypeOK, FromBlock # NoBlock, NEW latest
    PROVE  /\ FromBlock \in Nat \ {0}
           /\ NextBlock(latest) = IF cursor > 0 /\ FromBlock <= cursor THEN cursor + 1 ELSE FromBlock
           /\ NextBlock(latest) \in Nat
<1>1. /\ FromBlock \in Nat \ {0} /\ cursor \in 0..MaxBlock \union {-1} /\ MaxBlock \in Nat
  BY DEF ConfigAssumption, TypeOK, FromBlock, Blocks
<1>2. NextBlock(latest) = IF cursor > 0 /\ FromBlock <= cursor THEN cursor + 1 ELSE FromBlock
  <2>1. CASE cursor > 0 /\ FromBlock <= cursor BY <1>1, <2>1 DEF NextBlock, Truthy
  <2>2. CASE cursor > 0 /\ ~(FromBlock <= cursor) BY <1>1, <2>2 DEF NextBlock, Truthy
  <2>3. CASE ~(cursor > 0) BY <1>1, <2>3 DEF NextBlock, Truthy
  <2> QED BY <2>1, <2>2, <2>3
<1> QED BY <1>1, <1>2

LEMMA StepUnbroken ==
    ASSUME ConfigAssumption, Typed, Resumes, Unbroken, [Next]_vars
    PROVE  Unbroken'
<1> SUFFICES ASSUME Steady' PROVE Unbroken'
  BY DEF Unbroken
<1>1. UNCHANGED cfg /\ Steady
  <2>1. UNCHANGED cfg
    BY DEF Next, Round, vars, NewHeight, PreHook, HasNext, GetNothing, GetLogs, Handle,
           Persist, GetFails, HandleFails, Crash
  <2> QED BY <2>1 DEF Steady, FromBlock, MaxLag
<1>2. /\ height = top
      /\ Taken(FromBlock, file, handled)
      /\ FromBlock' = FromBlock
  BY <1>1 DEF Unbroken, FromBlock
<1>3. /\ TypeOK /\ AsksUnfinished
      /\ file \in 0..MaxBlock \union {-1} /\ cursor \in 0..MaxBlock \union {-1}
      /\ lastRange.toBlock \in 0..MaxBlock \union {-1} /\ MaxBlock \in Nat
      /\ height \in 0..MaxBlock
  BY DEF Typed, TypeOK, Blocks, ConfigAssumption
<1>4. /\ FromBlock \in Nat \ {0}
      /\ \A l : NextBlock(l) = IF cursor > 0 /\ FromBlock <= cursor THEN cursor + 1 ELSE FromBlock
      /\ \A l : NextBlock(l) \in Nat
  BY <1>1, <1>3, NextFromFirst DEF Steady
<1>5. CASE NewHeight
  <2>1. /\ height' = top' /\ height <= height'
        /\ UNCHANGED <<file, cursor, lastRange, items, pc, handled>>
    <3>1. height' = top' /\ top <= top'
      <4>1. MaxLag = 0 /\ top \in Nat BY <1>1, <1>3 DEF Steady, TypeOK, Blocks
      <4>2. PICK t \in {top, top + 1} \intersect Blocks :
              top' = t /\ height' \in {b \in Blocks : b <= t /\ b >= t - MaxLag}
        BY <1>5 DEF NewHeight
      <4> QED BY <4>1, <4>2 DEF Blocks
    <3> QED BY <1>2, <1>5, <3>1 DEF NewHeight
  <2>2. NextBlock(height)' = NextBlock(height)
    BY <1>2, <1>3, <1>4, <2>1 DEF NextBlock, Truthy
  <2>3. height' \in Nat BY <1>3, StepTypeOK DEF TypeOK, Blocks
  <2>4. NextBlock(height) <= height => NextBlock(height)' <= height'
    BY <1>3, <1>4, <2>1, <2>2, <2>3
  <2> QED BY <1>1, <1>2, <2>1, <2>2, <2>4 DEF Unbroken
<1>6. CASE PreHook
  BY <1>2, <1>6 DEF PreHook, Unbroken, Resumes
<1>7. CASE UNCHANGED <<top, height, file, cursor, lastRange, items, handled>>
           /\ pc \in {"hasNext", "get"} /\ pc' \in {"hasNext", "get", "stopped"}
  BY <1>1, <1>2, <1>7 DEF Unbroken, NextBlock, FromBlock
<1>8. CASE GetNothing
  <2>1. ~(NextBlock(height) <= height)
    BY <1>3, <1>4, <1>8 DEF GetNothing, GetBlockRange
  <2> QED BY <1>1, <1>2, <1>8, <2>1 DEF GetNothing, Unbroken
<1>9. CASE GetLogs
  <2>1. /\ NextBlock(height) <= height
        /\ lastRange'.toBlock = GetBlockRange(height).toBlock
        /\ items' = NextBlock(height) .. lastRange'.toBlock /\ pc' = "handle"
        /\ UNCHANGED <<top, height, file, cursor, handled>>
    BY <1>9 DEF GetLogs, GetBlockRange
  <2>2. NextBlock(height)' = NextBlock(height)
    BY <1>2, <2>1 DEF NextBlock, Truthy
  <2> QED BY <1>2, <2>1, <2>2 DEF Unbroken
<1>10. CASE Handle
  <2>1. /\ handled' = [h \in Handlers |-> handled[h] \union items] /\ pc' = "persist"
        /\ UNCHANGED <<top, height, file, cursor, lastRange>>
    BY <1>10, <1>3 DEF Handle, HandledBy
  <2>2. Taken(FromBlock, file, handled') BY <1>2, <2>1, TakenStays
  <2>3. Taken(FromBlock, lastRange.toBlock, handled) => Taken(FromBlock, lastRange.toBlock, handled')
    BY <2>1, TakenStays
  <2>4. ASSUME items = NextBlock(height) .. lastRange.toBlock
        PROVE  Taken(FromBlock, lastRange.toBlock, handled')
    <3>1. Taken(FromBlock, NextBlock(height) - 1, handled)
      <4>1. CASE cursor > 0 /\ FromBlock <= cursor
        <5>1. cursor = file
          BY <1>3, <1>10, <4>1 DEF Resumes, Handle, Truthy
        <5>2. NextBlock(height) - 1 = file
          BY <1>3, <1>4, <4>1, <5>1
        <5> QED BY <1>2, <5>2
      <4>2. CASE ~(cursor > 0 /\ FromBlock <= cursor)
        <5>1. NextBlock(height) - 1 \in Int /\ NextBlock(height) - 1 < FromBlock
          BY <1>4, <4>2
        <5> QED BY <1>4, <5>1, TakenNothing
      <4> QED BY <4>1, <4>2
    <3>2. \A h \in Handlers : handled'[h] = handled[h] \union (NextBlock(height) .. lastRange.toBlock)
      BY <2>1, <2>4
    <3>3. FromBlock \in Int /\ NextBlock(height) \in Int /\ lastRange.toBlock \in Int
      BY <1>3, <1>4
    <3> QED BY <3>1, <3>2, <3>3, TakenJoins
  <2>5. lastRange # NoRange => Taken(FromBlock, lastRange.toBlock, handled')
    BY <1>1, <1>10, <2>3, <2>4 DEF Unbroken, Handle
  <2> QED BY <1>2, <2>1, <2>2, <2>5 DEF Unbroken
<1>11. CASE HandleFails
  <2>1. /\ \A h \in Handlers : handled[h] \subseteq handled'[h]
        /\ pc = "handle" /\ pc' = "hasNext"
        /\ UNCHANGED <<top, height, file, cursor, lastRange>>
    BY <1>11 DEF HandleFails, HandledBy
  <2>2. NextBlock(height)' = NextBlock(height)
    BY <1>2, <2>1 DEF NextBlock, Truthy
  <2>3. Taken(FromBlock, file, handled') BY <1>2, <2>1, TakenStays
  <2>4. Taken(FromBlock, lastRange.toBlock, handled) => Taken(FromBlock, lastRange.toBlock, handled')
    BY <2>1, TakenStays
  <2> QED BY <1>1, <1>2, <2>1, <2>2, <2>3, <2>4 DEF Unbroken
<1>12. CASE Persist
  <2>1. /\ cursor' = (IF lastRange = NoRange THEN cursor ELSE lastRange.toBlock)
        /\ file' = (IF cursor' > 0 THEN cursor' ELSE file)
        /\ pc = "persist" /\ pc' = "hasNext"
        /\ UNCHANGED <<top, height, lastRange, handled>>
    BY <1>12 DEF Persist, Truthy
  <2>2. lastRange # NoRange => Taken(FromBlock, lastRange.toBlock, handled)
    BY <1>1, <2>1 DEF Unbroken
  <2>3. Taken(FromBlock, file', handled)
    BY <1>2, <2>1, <2>2 DEF Resumes, Truthy
  <2> QED BY <1>2, <2>1, <2>2, <2>3 DEF Unbroken
<1>13. CASE Crash
  <2>1. /\ file' = file \/ file' = -1
        /\ pc' = "preHook" /\ UNCHANGED <<top, height, handled>>
    BY <1>13 DEF Crash
  <2>2. Taken(FromBlock, -1, handled)
    BY <1>4, TakenNothing
  <2> QED BY <1>2, <2>1, <2>2 DEF Unbroken
<1>14. CASE UNCHANGED vars
  BY <1>1, <1>2, <1>14 DEF vars, Unbroken, NextBlock, FromBlock
<1>15. HasNext \/ GetFails =>
         /\ UNCHANGED <<top, height, file, cursor, lastRange, items, handled>>
         /\ pc \in {"hasNext", "get"} /\ pc' \in {"hasNext", "get", "stopped"}
  BY DEF HasNext, GetFails
<1> QED
  BY <1>5, <1>6, <1>7, <1>8, <1>9, <1>10, <1>11, <1>12, <1>13, <1>14, <1>15 DEF Next, Round

LEMMA InitUnbroken == ASSUME ConfigAssumption, Init PROVE Unbroken
<1>1. FromBlock # NoBlock => FromBlock \in Nat \ {0}
  BY InitTypeOK, NextFromFirst
<1>2. FromBlock # NoBlock => Taken(FromBlock, file, handled)
  BY <1>1, TakenNothing DEF Init
<1> QED BY <1>2 DEF Init, Unbroken, Steady

\* A job with a first block, at a node whose answers do not go back, never saves
\* a cursor beyond a block some handler has not taken: neither the retry after a
\* failure, nor the range kept from it, nor a restart passes over a block.
THEOREM NothingPassedOver == Spec => []NoGap
<1>1. Init => Unbroken
  BY InitUnbroken, ConfigAssumption
<1>2. Typed /\ Resumes /\ Unbroken /\ [Next]_vars => Unbroken'
  BY StepUnbroken, ConfigAssumption
<1>3. Unbroken => NoGap
  BY DEF Unbroken, Steady, Taken, NoGap
<1> QED BY <1>1, <1>2, <1>3, AlwaysTyped, AlwaysResumes, PTL DEF Spec
------------------------------------------------------------------------------
(* Solana: the least and the greatest of a set of numbers.                  *)

LEMMA LeastOf ==
    ASSUME NEW S \in SUBSET Nat, S # {}
    PROVE  \E n \in S : \A m \in S : n <= m
<1>1. PICK n \in S : \A m \in S : ~(<<m, n>> \in OpToRel(<, Nat))
  <2>1. IsWellFoundedOn(OpToRel(<, Nat), Nat) BY NatLessThanWellFounded
  <2> QED BY <2>1, WFMin
<1>2. \A m \in S : n <= m
  <2> SUFFICES ASSUME NEW m \in S PROVE n <= m OBVIOUS
  <2>1. ~(m < n) BY <1>1 DEF OpToRel
  <2> QED BY <2>1
<1> QED BY <1>2

LEMMA GreatestOf ==
    ASSUME NEW highest \in Nat, NEW S \in SUBSET (0 .. highest), S # {}
    PROVE  \E n \in S : \A m \in S : m <= n
<1> DEFINE N == {n \in Nat : \E x \in S : n = highest - x}
<1>1. \A x \in S : x \in Nat /\ highest - x \in Nat OBVIOUS
<1>2. N # {} /\ N \in SUBSET Nat BY <1>1
<1>3. PICK n \in N : \A m \in N : n <= m
  <2> HIDE DEF N
  <2> QED BY <1>2, LeastOf
<1>4. PICK x \in S : n = highest - x OBVIOUS
<1>5. ASSUME NEW y \in S PROVE y <= x
  <2>1. highest - y \in N BY <1>1
  <2>2. n <= highest - y BY <1>3, <2>1
  <2> QED BY <1>1, <1>4, <2>2
<1> QED BY <1>5

------------------------------------------------------------------------------
(* The chain.                                                               *)

FirstOf(n) == Slots[n][1]
LastOf(n) == Slots[n][Len(Slots[n])]

LEMMA SlotFacts ==
    /\ Len(Slots) \in Nat /\ Filled \subseteq 1 .. Len(Slots) /\ DOMAIN Slots = 1 .. Len(Slots)
    /\ FromSlot \in Nat /\ ToSlot \in Nat /\ 1 <= FromSlot /\ FromSlot <= ToSlot /\ ToSlot <= Len(Slots)
    /\ SlotBatchSize \in Nat /\ SignaturesLimit \in Nat /\ 1 <= SignaturesLimit
<1>1. Filled \subseteq DOMAIN Slots BY DEF Filled
<1> QED BY <1>1, SolanaAssumption

\* The transactions of a slot are between its first and its last.
LEMMA InOrder ==
    ASSUME NEW n \in Filled
    PROVE  /\ FirstOf(n) \in Signatures /\ LastOf(n) \in Signatures
           /\ InSlot(FirstOf(n), n) /\ InSlot(LastOf(n), n)
           /\ \A t : InSlot(t, n) => t \in Nat /\ 1 <= t /\ FirstOf(n) <= t /\ t <= LastOf(n)
<1>1. Slots[n] \in Seq(Nat \ {0}) /\ Slots[n] # << >> BY SolanaAssumption DEF Filled
<1> DEFINE s == Slots[n]
<1>2. \A i, j \in DOMAIN s : i < j => s[i] < s[j] BY SolanaAssumption
<1> HIDE DEF s
<1>3. s \in Seq(Nat \ {0}) /\ s # << >> BY <1>1 DEF s
<1>4. /\ Len(s) \in Nat /\ 1 <= Len(s) /\ DOMAIN s = 1 .. Len(s)
      /\ \A i \in DOMAIN s : s[i] \in Nat /\ 1 <= s[i]
  BY <1>3
<1>5. 1 \in DOMAIN s /\ Len(s) \in DOMAIN s BY <1>4
<1>6. ASSUME NEW t, InSlot(t, n) PROVE t \in Nat /\ 1 <= t /\ s[1] <= t /\ t <= s[Len(s)]
  <2>1. PICK i \in DOMAIN s : s[i] = t BY <1>6 DEF InSlot, s
  <2>2. i = 1 \/ 1 < i BY <1>4
  <2>3. i = Len(s) \/ i < Len(s) BY <1>4
  <2>4. s[1] <= s[i] BY <1>2, <1>4, <1>5, <2>2
  <2>5. s[i] <= s[Len(s)] BY <1>2, <1>4, <1>5, <2>3
  <2> QED BY <1>4, <2>1, <2>4, <2>5
<1>7. InSlot(s[1], n) /\ InSlot(s[Len(s)], n) BY <1>5 DEF InSlot, s
<1>8. s[1] \in Signatures /\ s[Len(s)] \in Signatures BY <1>5 DEF Signatures, s
<1> QED BY <1>6, <1>7, <1>8 DEF FirstOf, LastOf, s

\* Those of an earlier slot are before those of a later.
LEMMA SlotsInOrder ==
    ASSUME NEW m \in Filled, NEW n \in Filled, m < n, NEW t, NEW u, InSlot(t, m), InSlot(u, n)
    PROVE  t < u
BY SolanaAssumption DEF InSlot

LEMMA SignatureInSlot == ASSUME NEW t \in Signatures PROVE \E n \in Filled : InSlot(t, n)
BY DEF Signatures, InSlot

LEMMA SignatureFacts == Signatures \subseteq Nat \ {0} /\ OfProgram \subseteq Signatures
<1>1. ASSUME NEW t \in Signatures PROVE t \in Nat \ {0}
  <2>1. PICK n \in Filled : InSlot(t, n) BY SignatureInSlot
  <2> QED BY <2>1, InOrder
<1> QED BY <1>1, SolanaAssumption

\* The blocks next to a slot.
LEMMA BlockUp ==
    ASSUME NEW slot \in Nat, latestSlot \in Nat, FindValidBlockUp(slot) # NoSlot
    PROVE  /\ FindValidBlockUp(slot) \in Filled /\ slot <= FindValidBlockUp(slot)
           /\ FindValidBlockUp(slot) <= latestSlot
           /\ \A m \in Filled : slot <= m /\ m <= latestSlot => FindValidBlockUp(slot) <= m
<1> DEFINE up == Filled \intersect slot .. latestSlot
<1>1. up # {} BY DEF FindValidBlockUp
<1>2. up \in SUBSET Nat OBVIOUS
<1>3. \E n \in up : \A m \in up : n <= m
  <2> HIDE DEF up
  <2> QED BY <1>1, <1>2, LeastOf
<1>4. FindValidBlockUp(slot) = CHOOSE n \in up : \A m \in up : n <= m BY <1>1 DEF FindValidBlockUp
<1> DEFINE f == FindValidBlockUp(slot)
<1>5. f \in up /\ \A m \in up : f <= m
  <2> HIDE DEF up
  <2> QED BY <1>3, <1>4
<1> HIDE DEF f
<1>6. \A m \in Filled : slot <= m /\ m <= latestSlot => m \in up BY SlotFacts
<1>7. f \in Filled /\ slot <= f /\ f <= latestSlot BY <1>5
<1> QED BY <1>5, <1>6, <1>7 DEF f

LEMMA BlockDown ==
    ASSUME NEW slot \in Nat, FindValidBlockDown(slot) # NoSlot
    PROVE  /\ FindValidBlockDown(slot) \in Filled /\ FindValidBlockDown(slot) <= slot
           /\ \A m \in Filled : m <= slot => m <= FindValidBlockDown(slot)
<1> DEFINE down == Filled \intersect 1 .. slot
<1>1. down # {} BY DEF FindValidBlockDown
<1>2. down \in SUBSET (0 .. slot) OBVIOUS
<1>3. \E n \in down : \A m \in down : n >= m
  <2> HIDE DEF down
  <2>1. PICK n \in down : \A m \in down : m <= n BY <1>1, <1>2, GreatestOf
  <2>2. \A m \in down : m \in Int BY <1>2
  <2> QED BY <2>1, <2>2
<1>4. FindValidBlockDown(slot) = CHOOSE n \in down : \A m \in down : n >= m BY <1>1 DEF FindValidBlockDown
<1> DEFINE f == FindValidBlockDown(slot)
<1>5. f \in down /\ \A m \in down : f >= m
  <2> HIDE DEF down
  <2> QED BY <1>3, <1>4
<1> HIDE DEF f
<1>6. \A m \in Filled : m <= slot => m \in down BY SlotFacts
<1>7. f \in Filled /\ f <= slot BY <1>5
<1>8. \A m \in Filled : m <= slot => m <= f BY <1>5, <1>6, <1>7, SlotFacts
<1> QED BY <1>7, <1>8 DEF f

------------------------------------------------------------------------------
(* A page: the newest of a set, as many as the limit.                       *)

Newest(S, limit) == {t \in S : Cardinality({u \in S : u > t}) < limit}

LEMMA NewestFirst ==
    ASSUME NEW high \in Nat, NEW S \in SUBSET (0 .. high), NEW limit \in Nat, 1 <= limit
    PROVE  /\ Cardinality(Newest(S, limit)) # limit => Newest(S, limit) = S
           /\ \A p \in Newest(S, limit), t \in S : p <= t => t \in Newest(S, limit)
<1> DEFINE page == Newest(S, limit)
           Newer(t) == {u \in S : u > t}
<1>0. \A n \in S : n \in Nat OBVIOUS
<1>1. IsFiniteSet(S)
  <2>1. IsFiniteSet(0 .. high) BY FS_Interval
  <2> QED BY <2>1, FS_Subset
<1>2. \A t \in S : IsFiniteSet(Newer(t)) /\ Cardinality(Newer(t)) \in Nat
  <2> SUFFICES ASSUME NEW t \in S PROVE IsFiniteSet(Newer(t)) /\ Cardinality(Newer(t)) \in Nat OBVIOUS
  <2>1. Newer(t) \in SUBSET S OBVIOUS
  <2> HIDE DEF Newer
  <2> QED BY <1>1, <2>1, FS_Subset, FS_CardinalityType
<1>3. \A p \in S, t \in S : p <= t => Cardinality(Newer(t)) <= Cardinality(Newer(p))
  <2> SUFFICES ASSUME NEW p \in S, NEW t \in S, p <= t PROVE Cardinality(Newer(t)) <= Cardinality(Newer(p)) OBVIOUS
  <2>1. Newer(t) \in SUBSET Newer(p)
    <3>1. ASSUME NEW u \in S, u > t PROVE u > p BY <1>0, <3>1
    <3> QED BY <3>1
  <2> HIDE DEF Newer
  <2> QED BY <1>2, <2>1, FS_Subset
<1>4. \A t \in S : t \in page <=> Cardinality(Newer(t)) < limit BY DEF Newest
<1>5. page \subseteq S BY DEF Newest
<1> HIDE DEF Newer, page
<1>6. \A p \in page, t \in S : p <= t => t \in page BY <1>2, <1>3, <1>4, <1>5
<1>7. ASSUME page # S PROVE Cardinality(page) = limit
  <2> DEFINE old == S \ page
  <2>1. old \in SUBSET (0 .. high) /\ old # {} BY <1>5, <1>7
  <2>2. PICK t \in old : \A m \in old : m <= t
    <3> HIDE DEF old
    <3> QED BY <2>1, GreatestOf
  \* The page is what is newer than the newest that is not on it.
  <2>3. page = Newer(t)
    <3>1. ASSUME NEW u \in page PROVE u > t BY <1>0, <1>5, <1>6, <2>2, <3>1
    <3>2. ASSUME NEW u \in S, u > t PROVE u \in page BY <1>0, <2>2, <3>2
    <3> QED BY <1>5, <3>1, <3>2 DEF Newer
  <2>4. Cardinality(page) >= limit /\ Cardinality(page) \in Nat /\ IsFiniteSet(page)
    <3>1. t \in S /\ t \notin page OBVIOUS
    <3>2. ~(Cardinality(page) < limit) BY <1>4, <2>3, <3>1
    <3>3. Cardinality(page) \in Nat /\ IsFiniteSet(page) BY <1>2, <2>3, <3>1
    <3> HIDE DEF old
    <3> DEFINE c == Cardinality(page)
    <3>4. c \in Nat /\ ~(c < limit) BY <3>2, <3>3
    <3> HIDE DEF c
    <3>5. c >= limit BY <3>4
    <3> QED BY <3>3, <3>5 DEF c
  <2>5. page # {} /\ page \in SUBSET Nat
    <3>1. ~(0 >= limit) OBVIOUS
    <3>2. page # {} BY <2>4, <3>1, FS_EmptySet, Zenon
    <3> QED BY <1>0, <1>5, <3>2
  <2>6. PICK least \in page : \A m \in page : least <= m BY <2>5, LeastOf
  <2>7. Newer(least) = page \ {least}
    <3>1. \A u \in S : u > least => u \in page BY <1>0, <1>5, <1>6, <2>6
    <3>2. \A u \in page : u = least \/ u > least BY <1>0, <1>5, <2>6
    <3>3. ~(least > least) BY <1>0, <1>5
    <3> HIDE DEF old
    <3> QED BY <1>5, <3>1, <3>2, <3>3 DEF Newer
  <2>8. Cardinality(page \ {least}) = Cardinality(page) - 1 BY <2>4, <2>6, FS_RemoveElement
  <2>9. Cardinality(page \ {least}) < limit BY <1>4, <1>5, <2>6, <2>7
  <2> DEFINE c == Cardinality(page)
  <2>10. c \in Nat /\ c >= limit /\ c - 1 < limit
    <3>1. c - 1 < limit BY <2>8, <2>9
    <3> QED BY <2>4, <3>1
  <2> HIDE DEF c
  <2>11. c = limit BY <2>10
  <2> QED BY <2>11 DEF c
<1> QED BY <1>6, <1>7 DEF page

------------------------------------------------------------------------------
(* Where the job is.                                                        *)

\* The last transaction of the range.
Final == LastOf(FindValidBlockDown(slotRange.toSlot))

\* Only the process before its preHook has another cursor than the file.
CursorSaved == slotCursor = IF step = "preHook" THEN NoSlot ELSE savedSlot

\* The range begins at the first slot or behind the cursor, and its slots are what is
\* between the two signatures.
Ranged ==
    step \in {"page", "handle", "persist"} =>
        /\ 1 <= slotRange.fromSlot /\ slotRange.fromSlot <= slotRange.toSlot
        /\ slotRange.fromSlot = FromSlot \/ slotRange.fromSlot = savedSlot + 1
        /\ savedSlot < slotRange.fromSlot
        /\ after \in Signatures /\ Final \in Signatures
        /\ \A n \in slotRange.fromSlot .. slotRange.toSlot :
              \A t \in OfProgram : InSlot(t, n) => after <= t /\ t <= Final
        /\ \A t \in OfProgram : after < t /\ t < Final =>
              \E n \in slotRange.fromSlot .. slotRange.toSlot : InSlot(t, n)

\* What the pages have read is of the range, unless that has no block, and what they have
\* not is before the last page, or the node had no answer for it.
Pages ==
    /\ step = "page" =>
          /\ before \in Signatures /\ before <= Final
          /\ \A t \in OfProgram : after < t /\ t < Final => t < before \/ t \in results \union unknown
    /\ step = "handle" =>
          \A t \in OfProgram : after < t /\ t < Final => t \in results \union unknown
    /\ step \in {"page", "handle"} /\ ~WithoutBlock(slotRange) =>
          /\ step = "page" => after <= before
          /\ \A t \in results : after < t /\ t < Final
    /\ step = "persist" => \A t \in OfProgram : after <= t /\ t <= Final => Passed(t)

SolanaInv == SolanaTypeOK /\ CursorSaved /\ Ranged /\ Pages /\ NoSlotGap

LEMMA SolanaInitInv == SolanaInit => SolanaInv
<1> SUFFICES ASSUME SolanaInit PROVE SolanaInv OBVIOUS
<1>1. SolanaTypeOK BY SlotFacts DEF SolanaInit, SolanaTypeOK, NoSlotRange
<1>2. FromSlot .. savedSlot = {} BY SlotFacts DEF SolanaInit, NoSlot
<1>3. CursorSaved /\ Ranged /\ Pages BY DEF SolanaInit, CursorSaved, Ranged, Pages
<1> QED BY <1>1, <1>2, <1>3 DEF SolanaInv, NoSlotGap

\* Steps that read and hand out nothing.
LEMMA PassedStays ==
    ASSUME taken \subseteq taken', unknown \subseteq unknown', edges \subseteq edges', NEW t, Passed(t)
    PROVE  Passed(t)'
BY DEF Passed

LEMMA GapStays ==
    ASSUME NoSlotGap, taken \subseteq taken', unknown \subseteq unknown', edges \subseteq edges', savedSlot' = savedSlot
    PROVE  NoSlotGap'
<1>1. \A t : Passed(t) => Passed(t)' BY PassedStays
<1> QED BY <1>1 DEF NoSlotGap, InSlot

LEMMA LeavesRange ==
    ASSUME SolanaInv, SolanaTypeOK', CursorSaved', UNCHANGED <<savedSlot, history>>,
           step' \notin {"page", "handle", "persist"}
    PROVE  SolanaInv'
<1>1. Ranged' /\ Pages' BY DEF Ranged, Pages
<1>2. NoSlotGap' BY GapStays DEF SolanaInv, history
<1> QED BY <1>1, <1>2 DEF SolanaInv

\* The range the cursor asks for.
LEMMA SlotRangeFacts ==
    ASSUME SolanaInv, step = "range"
    PROVE  /\ GetSlotRange.fromSlot \in Nat /\ GetSlotRange.toSlot \in Nat /\ 1 <= GetSlotRange.fromSlot
           /\ GetSlotRange.fromSlot = FromSlot \/ GetSlotRange.fromSlot = savedSlot + 1
           /\ savedSlot < GetSlotRange.fromSlot
           /\ GetSlotRange.toSlot <= latestSlot /\ GetSlotRange.toSlot <= Len(Slots)
           /\ latestSlot \in Nat
<1>1. slotCursor = savedSlot BY DEF SolanaInv, CursorSaved
<1>2. slotCursor \in Nat /\ latestSlot \in Nat /\ latestSlot <= Len(Slots)
  BY SlotFacts DEF SolanaInv, SolanaTypeOK, NoSlot
<1> QED BY <1>1, <1>2, SlotFacts DEF GetSlotRange, NoSlot

LEMMA RangeInv == ASSUME SolanaInv, GetSignatureRange PROVE SolanaInv'
<1> DEFINE range == GetSlotRange
           first == FindValidBlockUp(range.fromSlot)
           last == FindValidBlockDown(range.toSlot)
<1>1. /\ step = "range" /\ range.fromSlot <= range.toSlot /\ first # NoSlot /\ last # NoSlot
      /\ after' = FirstOf(first) /\ before' = LastOf(last) /\ slotRange' = range /\ results' = {} /\ step' = "page"
      /\ UNCHANGED <<latestSlot, savedSlot, slotCursor, taken, unknown, edges>>
  BY DEF GetSignatureRange, Usable, FirstOf, LastOf, node, history
<1>2. /\ range.fromSlot \in Nat /\ range.toSlot \in Nat /\ 1 <= range.fromSlot
      /\ range.fromSlot = FromSlot \/ range.fromSlot = savedSlot + 1
      /\ savedSlot < range.fromSlot
      /\ range.toSlot <= latestSlot /\ range.toSlot <= Len(Slots) /\ latestSlot \in Nat
  BY <1>1, SlotRangeFacts
<1>3. /\ first \in Filled /\ range.fromSlot <= first
      /\ \A m \in Filled : range.fromSlot <= m /\ m <= latestSlot => first <= m
  BY <1>1, <1>2, BlockUp
<1>4. last \in Filled /\ last <= range.toSlot /\ \A m \in Filled : m <= range.toSlot => m <= last
  BY <1>1, <1>2, BlockDown
<1>5. slotRange'.fromSlot = range.fromSlot /\ slotRange'.toSlot = range.toSlot BY <1>1
<1> HIDE DEF range
<1>6. Final' = LastOf(last) BY <1>5 DEF Final, FindValidBlockDown, LastOf
<1> HIDE DEF first, last
<1>7. FirstOf(first) \in Signatures /\ LastOf(last) \in Signatures BY <1>3, <1>4, InOrder
<1>8. ASSUME NEW n \in range.fromSlot .. range.toSlot, NEW t, InSlot(t, n)
      PROVE  FirstOf(first) <= t /\ t <= LastOf(last)
  <2>1. n \in Filled /\ n \in Nat BY <1>8, SlotFacts DEF InSlot
  <2>2. first <= n /\ n <= last BY <1>2, <1>3, <1>4, <2>1
  <2>3. first \in Nat /\ last \in Nat /\ t \in Nat /\ FirstOf(first) \in Nat /\ LastOf(last) \in Nat
    <3>1. first \in Nat /\ last \in Nat BY <1>3, <1>4, SlotFacts
    <3>2. t \in Nat BY <1>8, <2>1, InOrder
    <3> QED BY <1>7, <3>1, <3>2, SignatureFacts
  <2>4. FirstOf(first) <= t
    <3>1. CASE first < n
      <4>1. FirstOf(first) < t BY <1>3, <1>8, <2>1, <3>1, InOrder, SlotsInOrder
      <4> QED BY <2>3, <4>1
    <3>2. CASE first = n BY <1>3, <1>8, <3>2, InOrder
    <3> QED BY <2>1, <2>2, <2>3, <3>1, <3>2
  <2>5. t <= LastOf(last)
    <3>1. CASE n < last
      <4>1. t < LastOf(last) BY <1>4, <1>8, <2>1, <3>1, InOrder, SlotsInOrder
      <4> QED BY <2>3, <4>1
    <3>2. CASE n = last BY <1>4, <1>8, <3>2, InOrder
    <3> QED BY <2>1, <2>2, <2>3, <3>1, <3>2
  <2> QED BY <2>4, <2>5
<1>9. ASSUME NEW t \in OfProgram, FirstOf(first) < t, t < LastOf(last)
      PROVE  \E n \in range.fromSlot .. range.toSlot : InSlot(t, n)
  <2>1. PICK n \in Filled : InSlot(t, n) BY SignatureFacts, SignatureInSlot
  <2>2. t \in Nat /\ FirstOf(first) \in Nat /\ LastOf(last) \in Nat BY <1>7, SignatureFacts
  <2>3. ~(n < first)
    <3>1. n < first => t < FirstOf(first) BY <1>3, <2>1, InOrder, SlotsInOrder
    <3> QED BY <1>9, <2>2, <3>1
  <2>4. ~(last < n)
    <3>1. last < n => LastOf(last) < t BY <1>4, <2>1, InOrder, SlotsInOrder
    <3> QED BY <1>9, <2>2, <3>1
  <2>5. n \in Nat /\ first \in Nat /\ last \in Nat BY <1>3, <1>4, SlotFacts
  <2>6. n \in range.fromSlot .. range.toSlot BY <1>2, <1>3, <1>4, <2>3, <2>4, <2>5
  <2> QED BY <2>1, <2>6
<1>10. Ranged'
  <2>1. \A n, t : InSlot(t, n)' = InSlot(t, n) BY DEF InSlot
  <2> QED BY <1>1, <1>2, <1>5, <1>6, <1>7, <1>8, <1>9, <2>1 DEF Ranged
<1>11. Pages'
  <2>1. LastOf(last) \in Nat /\ FirstOf(first) \in Nat BY <1>7, SignatureFacts
  <2>2. ASSUME ~WithoutBlock(slotRange)' PROVE FirstOf(first) <= LastOf(last)
    <3>1. PICK n \in range.fromSlot .. range.toSlot : n \in Filled BY <1>5, <2>2 DEF WithoutBlock
    <3>2. InSlot(FirstOf(n), n) /\ FirstOf(n) \in Nat BY <3>1, InOrder
    <3>3. FirstOf(first) <= FirstOf(n) /\ FirstOf(n) <= LastOf(last) BY <1>8, <3>2
    <3> QED BY <2>1, <3>2, <3>3
  <2>3. step' = "page" /\ before' = LastOf(last) /\ after' = FirstOf(first) /\ results' = {} BY <1>1
  <2> QED BY <1>6, <1>7, <2>1, <2>2, <2>3 DEF Pages
<1>12. SolanaTypeOK'
  <2>1. {slotRange'.fromSlot, slotRange'.toSlot} \subseteq DOMAIN Slots \union {NoSlot}
    BY <1>1, <1>2, <1>5, SlotFacts
  <2> QED BY <1>1, <1>7, <2>1 DEF SolanaInv, SolanaTypeOK
<1>13. CursorSaved' BY <1>1 DEF SolanaInv, CursorSaved
<1>14. NoSlotGap' BY <1>1, GapStays DEF SolanaInv
<1> QED BY <1>10, <1>11, <1>12, <1>13, <1>14 DEF SolanaInv

LEMMA PageInv ==
    ASSUME SolanaInv, step = "page", NEW known, known \subseteq GetSignaturesForAddress, GetPageOfTransactions(known),
           unknown \subseteq unknown', GetSignaturesForAddress \ known \subseteq unknown', unknown' \subseteq OfProgram,
           UNCHANGED <<latestSlot, savedSlot, slotCursor, slotRange, after, taken, edges>>
    PROVE  SolanaInv'
<1> DEFINE sigs == GetSignaturesForAddress
           S == Between
<1>1. /\ after \in Signatures /\ Final \in Signatures /\ before \in Signatures /\ before <= Final
      /\ \A t \in OfProgram : after < t /\ t < Final => t < before \/ t \in results \union unknown
      /\ ~WithoutBlock(slotRange) => after <= before /\ \A t \in results : after < t /\ t < Final
  BY DEF SolanaInv, Ranged, Pages
<1>2. before \in Nat /\ after \in Nat /\ Final \in Nat /\ OfProgram \subseteq Nat BY <1>1, SignatureFacts
<1>3. S \in SUBSET (0 .. before) /\ S \subseteq OfProgram /\ \A t \in S : t < before
  <2>1. S \subseteq OfProgram /\ \A t \in S : t < before BY DEF Between
  <2>2. \A t \in S : t \in Nat BY <1>2, <2>1
  <2> HIDE DEF S
  <2>3. \A t \in S : t \in 0 .. before BY <1>2, <2>1, <2>2
  <2> QED BY <2>1, <2>3
<1>4. sigs = {t \in S : Cardinality({u \in S : u > t}) < SignaturesLimit} BY DEF GetSignaturesForAddress
<1>5. /\ results' = results \union known
      /\ before' = IF sigs = {} THEN NoSignature ELSE CHOOSE t \in sigs : \A u \in sigs : t <= u
      /\ step' = IF Cardinality(sigs) = SignaturesLimit THEN "page" ELSE "handle"
  BY DEF GetPageOfTransactions
<1>6. known \subseteq sigs /\ sigs \ known \subseteq unknown' OBVIOUS
<1>7. Final' = Final BY DEF Final, FindValidBlockDown, LastOf
<1>8. \A t \in OfProgram : after < t /\ t < before => t \in S BY DEF Between
<1> HIDE DEF S, sigs
<1>9. /\ Cardinality(sigs) # SignaturesLimit => sigs = S
      /\ \A p \in sigs, t \in S : p <= t => t \in sigs
  <2>1. SignaturesLimit \in Nat /\ 1 <= SignaturesLimit BY SlotFacts
  <2>2. before \in Nat /\ S \in SUBSET (0 .. before) BY <1>2, <1>3
  <2>3. sigs = Newest(S, SignaturesLimit) BY <1>4 DEF Newest
  <2> QED BY <2>1, <2>2, <2>3, NewestFirst, Zenon
<1>10. sigs \subseteq S BY <1>4
<1>11. sigs # {} => before' \in sigs /\ \A u \in sigs : before' <= u
  <2>1. sigs \in SUBSET Nat BY <1>2, <1>3, <1>10
  <2>2. sigs # {} => \E n \in sigs : \A m \in sigs : n <= m BY <2>1, LeastOf
  <2> QED BY <1>5, <2>2
<1>12. ASSUME ~WithoutBlock(slotRange) PROVE \A t \in results' : after < t /\ t < Final
  <2>1. ASSUME NEW t \in S PROVE after < t /\ t < Final
    <3>1. t \in Nat /\ t < before BY <1>2, <1>3
    <3>2. ~(before < after) BY <1>1, <1>2, <1>12
    <3> QED BY <1>1, <1>2, <3>1, <3>2 DEF S, Between
  <2> QED BY <1>1, <1>5, <1>6, <1>10, <1>12, <2>1
<1>13. \A t \in sigs : t \in results' \union unknown' BY <1>5, <1>6
<1>14. ASSUME Cardinality(sigs) = SignaturesLimit
       PROVE  step' \in {"page", "handle"} /\ before' \in Signatures \union {NoSignature} /\ Pages'
  <2>1. sigs # {}
    <3>1. Cardinality(sigs) # 0 BY <1>14, SlotFacts
    <3> QED BY <3>1, FS_EmptySet, Zenon
  <2>2. step' = "page" /\ before' \in sigs /\ \A u \in sigs : before' <= u BY <1>5, <1>11, <1>14, <2>1
  <2> DEFINE b == before'
  <2>3. b \in S /\ b \in OfProgram /\ b \in Nat BY <1>2, <1>3, <1>10, <2>2
  <2>4. b \in Signatures /\ b <= Final
    <3>1. b < before BY <1>3, <2>3
    <3> HIDE DEF b
    <3> QED BY <1>1, <1>2, <2>3, <3>1, SignatureFacts
  <2>5. ASSUME NEW t \in OfProgram, after < t, t < Final PROVE t < b \/ t \in results' \union unknown'
    <3>1. t \in Nat BY <1>2
    <3>2. CASE t \in results \union unknown BY <1>5, <3>2
    <3>3. CASE t \in S
      <4>1. CASE t \in sigs BY <1>13, <4>1
      <4>2. CASE t \notin sigs
        <5>1. ~(b <= t) BY <1>9, <2>2, <3>3, <4>2
        <5> HIDE DEF b
        <5> QED BY <2>3, <3>1, <5>1
      <4> QED BY <4>1, <4>2
    <3> QED BY <1>1, <1>8, <2>5, <3>2, <3>3
  <2>6. Pages'
    <3>1. \A t \in OfProgram : after' < t /\ t < Final' => t < before' \/ t \in results' \union unknown'
      BY <1>7, <2>5
    <3>2. before' \in Signatures /\ before' <= Final' BY <1>7, <2>4
    <3>3. ASSUME ~WithoutBlock(slotRange) PROVE after <= b
      <4>1. ~(before < after) BY <1>1, <1>2, <3>3
      <4>2. after < b BY <2>3, <4>1 DEF S, Between
      <4> HIDE DEF b
      <4> QED BY <1>2, <2>3, <4>2
    <3>4. ~WithoutBlock(slotRange)' =>
             after' <= before' /\ \A t \in results' : after' < t /\ t < Final'
      BY <1>7, <1>12, <3>3 DEF WithoutBlock
    <3>5. step' # "handle" /\ step' # "persist" BY <2>2
    <3> QED BY <3>1, <3>2, <3>4, <3>5 DEF Pages
  <2> QED BY <2>2, <2>4, <2>6
<1>15. ASSUME Cardinality(sigs) # SignaturesLimit
       PROVE  step' \in {"page", "handle"} /\ before' \in Signatures \union {NoSignature} /\ Pages'
  <2>1. step' = "handle" /\ sigs = S BY <1>5, <1>9, <1>15
  <2>2. before' \in Signatures \union {NoSignature}
    BY <1>3, <1>5, <1>10, <1>11, SignatureFacts
  <2>3. \A t \in OfProgram : after < t /\ t < Final => t \in results' \union unknown'
    BY <1>1, <1>5, <1>8, <1>13, <2>1
  <2>4. Pages'
    <3>1. \A t \in OfProgram : after' < t /\ t < Final' => t \in results' \union unknown'
      BY <1>7, <2>3
    <3>2. ~WithoutBlock(slotRange)' => \A t \in results' : after' < t /\ t < Final'
      BY <1>7, <1>12 DEF WithoutBlock
    <3>3. step' # "page" /\ step' # "persist" BY <2>1
    <3> QED BY <3>1, <3>2, <3>3 DEF Pages
  <2> QED BY <2>1, <2>2, <2>4
<1>16. step' \in {"page", "handle"} /\ before' \in Signatures \union {NoSignature} /\ Pages'
  BY <1>14, <1>15
<1>17. results' \subseteq OfProgram
  BY <1>3, <1>5, <1>6, <1>10 DEF SolanaInv, SolanaTypeOK
<1>18. SolanaTypeOK' BY <1>16, <1>17 DEF SolanaInv, SolanaTypeOK
<1>19. CursorSaved' BY <1>16 DEF SolanaInv, CursorSaved
<1>20. Ranged' BY <1>7, <1>16 DEF SolanaInv, Ranged, InSlot
<1>21. NoSlotGap' BY GapStays DEF SolanaInv
<1> QED BY <1>16, <1>18, <1>19, <1>20, <1>21 DEF SolanaInv

LEMMA HandleInv == ASSUME SolanaInv, SolanaHandle PROVE SolanaInv'
<1>1. /\ step = "handle" /\ step' = "persist" /\ taken' = taken \union (results \ Failed)
      /\ edges' = edges \union {after, Final}
      /\ UNCHANGED <<latestSlot, savedSlot, slotCursor, slotRange, before, after, results, unknown>>
  BY DEF SolanaHandle, node, Final, LastOf
<1>2. /\ after \in Signatures /\ Final \in Signatures
      /\ \A t \in OfProgram : after < t /\ t < Final => t \in results \union unknown
  BY <1>1 DEF SolanaInv, Ranged, Pages
<1>3. Final' = Final BY <1>1 DEF Final, FindValidBlockDown, LastOf
<1>4. ASSUME NEW t \in OfProgram, after <= t, t <= Final PROVE Passed(t)'
  <2>1. t \in Nat /\ after \in Nat /\ Final \in Nat BY <1>2, SignatureFacts
  <2>2. t = after \/ t = Final \/ (after < t /\ t < Final) BY <1>4, <2>1
  <2> QED BY <1>1, <1>2, <2>2 DEF Passed
<1>5. Pages' BY <1>1, <1>3, <1>4 DEF Pages
<1>6. Ranged' BY <1>1, <1>3 DEF SolanaInv, Ranged, InSlot
<1>7. SolanaTypeOK' BY <1>1, <1>2 DEF SolanaInv, SolanaTypeOK
<1>8. CursorSaved' BY <1>1 DEF SolanaInv, CursorSaved
<1>9. NoSlotGap' BY <1>1, GapStays DEF SolanaInv
<1> QED BY <1>5, <1>6, <1>7, <1>8, <1>9 DEF SolanaInv

LEMMA PersistInv == ASSUME SolanaInv, SolanaPersist PROVE SolanaInv'
<1>1. /\ step = "persist" /\ step' = "hasNext" /\ slotCursor' = slotRange.toSlot /\ savedSlot' = slotRange.toSlot
      /\ UNCHANGED <<latestSlot, slotRange, before, after, results, taken, unknown, edges>>
  BY DEF SolanaPersist, node, history
<1>2. /\ slotRange.fromSlot = FromSlot \/ slotRange.fromSlot = savedSlot + 1
      /\ \A n \in slotRange.fromSlot .. slotRange.toSlot :
            \A t \in OfProgram : InSlot(t, n) => after <= t /\ t <= Final
      /\ \A t \in OfProgram : after <= t /\ t <= Final => Passed(t)
  BY <1>1 DEF SolanaInv, Ranged, Pages
<1>3. savedSlot \in Nat /\ slotRange.fromSlot \in Nat /\ slotRange.toSlot \in Nat
  BY SlotFacts DEF SolanaInv, SolanaTypeOK, NoSlot
<1> DEFINE from == slotRange.fromSlot
           to == slotRange.toSlot
<1> HIDE DEF from, to
<1>4. ASSUME NEW n \in FromSlot .. to, NEW t \in OfProgram, InSlot(t, n) PROVE Passed(t)
  <2>1. n \in FromSlot .. savedSlot \/ n \in from .. to BY <1>2, <1>3, <1>4, SlotFacts DEF from, to
  <2>2. CASE n \in FromSlot .. savedSlot BY <1>4, <2>2 DEF SolanaInv, NoSlotGap
  <2>3. CASE n \in from .. to BY <1>2, <1>4, <2>3 DEF from, to
  <2> QED BY <2>1, <2>2, <2>3
<1>5. NoSlotGap' BY <1>1, <1>4 DEF NoSlotGap, Passed, InSlot, to
<1>6. SolanaTypeOK' BY <1>1 DEF SolanaInv, SolanaTypeOK
<1>7. CursorSaved' /\ Ranged' /\ Pages' BY <1>1 DEF CursorSaved, Ranged, Pages
<1> QED BY <1>5, <1>6, <1>7 DEF SolanaInv

LEMMA CrashInv == ASSUME SolanaInv, SolanaCrash PROVE SolanaInv'
<1>1. /\ step' = "preHook" /\ slotCursor' = NoSlot /\ slotRange' = NoSlotRange
      /\ before' = NoSignature /\ after' = NoSignature /\ results' = {}
      /\ savedSlot' = savedSlot \/ savedSlot' = NoSlot
      /\ UNCHANGED <<latestSlot, taken, unknown, edges>>
  BY DEF SolanaCrash, node, history
<1>2. SolanaTypeOK' BY <1>1 DEF SolanaInv, SolanaTypeOK, NoSlotRange
<1>3. NoSlotGap'
  <2>1. CASE savedSlot' = savedSlot BY <1>1, <2>1, GapStays DEF SolanaInv
  <2>2. CASE savedSlot' = NoSlot
    <3>1. FromSlot .. savedSlot' = {} BY <2>2, SlotFacts DEF NoSlot
    <3> QED BY <3>1 DEF NoSlotGap
  <2> QED BY <1>1, <2>1, <2>2
<1>4. CursorSaved' /\ Ranged' /\ Pages' BY <1>1 DEF CursorSaved, Ranged, Pages
<1> QED BY <1>2, <1>3, <1>4 DEF SolanaInv

LEMMA SlotInv == ASSUME SolanaInv, NewSlot PROVE SolanaInv'
<1>1. /\ latestSlot' \in Filled
      /\ UNCHANGED <<savedSlot, slotCursor, slotRange, before, after, results, step, taken, unknown, edges>>
  BY DEF NewSlot, history
<1>2. Final' = Final BY <1>1 DEF Final, FindValidBlockDown, LastOf
<1>3. SolanaTypeOK' BY <1>1, SlotFacts DEF SolanaInv, SolanaTypeOK
<1>4. CursorSaved' BY <1>1 DEF SolanaInv, CursorSaved
<1>5. Ranged' BY <1>1, <1>2 DEF SolanaInv, Ranged, InSlot
<1>6. Pages' BY <1>1, <1>2 DEF SolanaInv, Pages, Passed, WithoutBlock
<1>7. NoSlotGap' BY <1>1, GapStays DEF SolanaInv
<1> QED BY <1>3, <1>4, <1>5, <1>6, <1>7 DEF SolanaInv

LEMMA SolanaSame == ASSUME SolanaInv, UNCHANGED solanaVars PROVE SolanaInv'
<1>1. UNCHANGED <<latestSlot, savedSlot, slotCursor, slotRange, before, after, results, step, taken, unknown, edges>>
  BY DEF solanaVars
<1>2. Final' = Final BY <1>1 DEF Final, FindValidBlockDown, LastOf
<1>3. SolanaTypeOK' BY <1>1 DEF SolanaInv, SolanaTypeOK
<1>4. CursorSaved' BY <1>1 DEF SolanaInv, CursorSaved
<1>5. Ranged' BY <1>1, <1>2 DEF SolanaInv, Ranged, InSlot
<1>6. Pages' BY <1>1, <1>2 DEF SolanaInv, Pages, Passed, WithoutBlock
<1>7. NoSlotGap' BY <1>1, GapStays DEF SolanaInv
<1> QED BY <1>3, <1>4, <1>5, <1>6, <1>7 DEF SolanaInv

LEMMA SolanaNextInv == ASSUME SolanaInv, SolanaNext PROVE SolanaInv'
<1>1. CASE NewSlot BY <1>1, SlotInv
<1>2. CASE SolanaPreHook
  <2>1. /\ step = "preHook" /\ step' = "hasNext" /\ slotCursor' = IF savedSlot = NoSlot THEN slotCursor ELSE savedSlot
        /\ UNCHANGED <<latestSlot, savedSlot, slotRange, before, after, results, history>>
    BY <1>2 DEF SolanaPreHook, node
  <2>2. slotCursor' = savedSlot BY <2>1 DEF SolanaInv, CursorSaved
  <2>3. SolanaTypeOK' BY <2>1, <2>2 DEF SolanaInv, SolanaTypeOK, history
  <2> QED BY <2>1, <2>2, <2>3, LeavesRange DEF CursorSaved
<1>3. CASE SolanaHasNext \/ InvalidSlotRange \/ SolanaGetFails \/ SolanaHandleFails
  <2>1. /\ UNCHANGED <<latestSlot, savedSlot, slotCursor, slotRange, before, after, results, history>>
        /\ step # "preHook" /\ step' \in {"hasNext", "range", "stopped"}
    BY <1>3 DEF SolanaHasNext, InvalidSlotRange, SolanaGetFails, SolanaHandleFails, node
  <2>2. SolanaTypeOK' BY <2>1 DEF SolanaInv, SolanaTypeOK, history
  <2>3. CursorSaved' BY <2>1 DEF SolanaInv, CursorSaved
  <2> QED BY <2>1, <2>2, <2>3, LeavesRange
<1>4. CASE GetSignatureRange BY <1>4, RangeInv
<1> DEFINE sigs == GetSignaturesForAddress
<1>5. CASE GetTransactions
  <2>1. /\ step = "page" /\ GetPageOfTransactions(sigs)
        /\ UNCHANGED <<latestSlot, savedSlot, slotCursor, slotRange, after, taken, unknown, edges>>
    BY <1>5 DEF GetTransactions, node, history
  <2>2. unknown' \subseteq OfProgram BY <2>1 DEF SolanaInv, SolanaTypeOK
  <2> QED BY <2>1, <2>2, PageInv
<1>6. CASE GetTransactionsUnknown
  <2>1. PICK t \in sigs : GetPageOfTransactions(sigs \ {t}) /\ unknown' = unknown \union {t}
    BY <1>6 DEF GetTransactionsUnknown
  <2>2. step = "page" /\ UNCHANGED <<latestSlot, savedSlot, slotCursor, slotRange, after, taken, edges>>
    BY <1>6 DEF GetTransactionsUnknown, node
  <2>3. t \in OfProgram BY DEF GetSignaturesForAddress, Between
  <2>4. unknown' \subseteq OfProgram BY <2>1, <2>3 DEF SolanaInv, SolanaTypeOK
  <2>5. sigs \ {t} \subseteq sigs /\ sigs \ (sigs \ {t}) \subseteq unknown' /\ unknown \subseteq unknown' BY <2>1
  <2> HIDE DEF sigs
  <2> DEFINE known == sigs \ {t}
  <2>6. known \subseteq sigs /\ GetPageOfTransactions(known) /\ sigs \ known \subseteq unknown' BY <2>1, <2>5
  <2> HIDE DEF known
  <2> QED BY <2>2, <2>4, <2>5, <2>6, PageInv DEF sigs
<1>7. CASE SolanaHandle BY <1>7, HandleInv
<1>8. CASE SolanaPersist BY <1>8, PersistInv
<1>9. CASE SolanaCrash BY <1>9, CrashInv
<1>10. CASE UNCHANGED solanaVars BY <1>10, SolanaSame
<1> QED BY <1>1, <1>2, <1>3, <1>4, <1>5, <1>6, <1>7, <1>8, <1>9, <1>10 DEF SolanaNext, SolanaRound

\* What was read is of the range at hand.
LEMMA SolanaInvImplies == SolanaInv => SolanaTypeOK /\ NoSlotGap /\ NoSlotRepeated
<1>1. SolanaInv => NoSlotRepeated
  <2> SUFFICES ASSUME SolanaInv, step = "handle", ~WithoutBlock(slotRange), NEW t \in results
               PROVE  \E n \in slotRange.fromSlot .. slotRange.toSlot : n > savedSlot /\ InSlot(t, n)
    BY DEF NoSlotRepeated
  <2>1. t \in OfProgram /\ after < t /\ t < Final BY DEF SolanaInv, SolanaTypeOK, Pages
  <2>2. /\ \E n \in slotRange.fromSlot .. slotRange.toSlot : InSlot(t, n)
        /\ savedSlot < slotRange.fromSlot
    BY <2>1 DEF SolanaInv, Ranged
  <2>3. {savedSlot, slotRange.fromSlot, slotRange.toSlot} \subseteq Nat
    BY SlotFacts DEF SolanaInv, SolanaTypeOK, NoSlot
  <2> QED BY <2>2, <2>3
<1> QED BY <1>1 DEF SolanaInv

------------------------------------------------------------------------------
(* The two jobs.                                                            *)

PollingInv == Typed /\ Resumes /\ Unbroken /\ SolanaInv

LEMMA PollingInitInv == MCInit => PollingInv
<1> SUFFICES ASSUME MCInit PROVE PollingInv OBVIOUS
<1>1. Init /\ SolanaInit BY DEF MCInit
<1>2. Typed BY <1>1, InitTypeOK, ConfigAssumption DEF Typed, AsksUnfinished, Init
<1> QED BY <1>1, <1>2, InitResumes, InitUnbroken, SolanaInitInv, ConfigAssumption DEF PollingInv

LEMMA PollingNextInv == PollingInv /\ [Evm(Next) \/ Solana(SolanaNext)]_allVars => PollingInv'
<1> SUFFICES ASSUME PollingInv, [Evm(Next) \/ Solana(SolanaNext)]_allVars PROVE PollingInv' OBVIOUS
<1>1. [Next]_vars /\ (SolanaNext \/ UNCHANGED solanaVars) BY DEF Evm, Solana, allVars
<1>2. Typed' BY <1>1, StepTypeOK, ConfigAssumption DEF PollingInv, Typed
<1>3. Resumes' BY <1>1, StepResumes, ConfigAssumption DEF PollingInv
<1>4. Unbroken' BY <1>1, StepUnbroken, ConfigAssumption DEF PollingInv
<1>5. SolanaInv' BY <1>1, SolanaNextInv, SolanaSame DEF PollingInv
<1> QED BY <1>2, <1>3, <1>4, <1>5 DEF PollingInv

LEMMA PollingInvariant == MCSpec => []PollingInv
BY PollingInitInv, PollingNextInv, PTL DEF MCSpec

\* Every variable of either job keeps its type: no range ends beyond the chain, no page
\* holds what is not of the program.
THEOREM PollingTyped == MCSpec => []PollingTypeOK
<1>1. PollingInv => PollingTypeOK BY SolanaInvImplies DEF PollingInv, Typed, PollingTypeOK
<1> QED BY <1>1, PollingInvariant, PTL

\* Whatever is skipped, paged, failed, answered late or cut off by a crash, the saved
\* cursor of either job never passes what was not handed out, except for the reasons that
\* NoGap and NoSlotGap name.
THEOREM NothingEverSkipped == MCSpec => []NothingSkipped
<1>1. Unbroken => NoGap BY DEF Unbroken, Steady, Taken, NoGap
<1>2. PollingInv => NothingSkipped BY <1>1, SolanaInvImplies DEF PollingInv, NothingSkipped
<1> QED BY <1>2, PollingInvariant, PTL

\* Neither job hands out what its saved cursor says is done, in blocks or in slots, except
\* that of Solana for a range without a block: a page of its signatures never reaches out
\* of a range that has one.
THEOREM NothingEverRepeated == MCSpec => []NothingRepeated
<1>1. PollingInv => NothingRepeated BY SolanaInvImplies DEF PollingInv, Resumes, NothingRepeated
<1> QED BY <1>1, PollingInvariant, PTL
=============================================================================
