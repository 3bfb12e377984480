------------------------- MODULE BlockWatchersProofs -------------------------
(***************************************************************************)
(* Theorems about the watchers of contract-watcher and event-watcher, for   *)
(* every chain, size of a page or batch, range of the backfiller and number *)
(* of failures.                                                             *)
(***************************************************************************)
EXTENDS MCBlockWatchers, EventWatcherProofs, SequenceTheorems, FiniteSetTheorems, WellFoundedInduction, TLAPS

------------------------------------------------------------------------------
(* Arithmetic of the pages.                                                 *)

LEMMA DivMul ==
    ASSUME NEW n \in Nat, NEW d \in Nat \ {0}, NEW k \in Nat
    PROVE  k < n \div d + 1 <=> k * d <= n
<1> DEFINE q == n \div d
           r == n % d
<1>1. q \in Nat /\ r \in 0 .. d - 1 /\ n = d * q + r
  OBVIOUS
<1> HIDE DEF q, r
<1>2. ASSUME k <= q PROVE k * d <= n
  <2>1. PICK e \in Nat : q = k + e BY <1>1, <1>2
  <2>2. d * q = k * d + d * e /\ d * e \in Nat BY <1>1, <2>1
  <2> QED BY <1>1, <2>2
<1>3. ASSUME k >= q + 1 PROVE k * d > n
  <2>1. PICK e \in Nat : k = q + 1 + e BY <1>1, <1>3
  <2>2. k * d = d * q + d + d * e /\ d * e \in Nat BY <1>1, <2>1
  <2> QED BY <1>1, <2>2
<1>4. (k < q + 1 <=> k <= q) /\ (k >= q + 1 <=> ~(k <= q)) BY <1>1
<1>5. k * d \in Nat OBVIOUS
<1>6. k < q + 1 <=> k * d <= n BY <1>2, <1>3, <1>4, <1>5
<1> QED BY <1>6 DEF q

------------------------------------------------------------------------------
(* contract-watcher: where a process is.  s stands for running[p].          *)

Pcs == {"down", "latest", "advance", "page", "block", "store", "done", "ended"}
Process == [pc : Pcs, current : Nat, last : Nat, page : Nat, block : Nat, upto : Nat, to : Nat, tries : Nat]

\* The first block of the range that is on no page yet taken.
NextOf(kind, p, s) ==
    IF kind = "terra" /\ p = "service"
    THEN IF s.page < 1 THEN s.current ELSE s.last + 1
    ELSE IF s.page < GetTotalBlocks(s.last, s.current, SizeBlocks)
         THEN s.current + s.page * SizeBlocks ELSE s.last + 1

\* The first block the process has not dealt with.
ReachOf(kind, p, s) ==
    IF s.pc = "page" THEN NextOf(kind, p, s)
    ELSE IF s.pc = "block" THEN s.block
    ELSE IF s.pc = "store" THEN s.upto + 1 ELSE s.current

\* Inside a page that ends where the next begins.
InPage(kind, p, s, top) ==
    /\ s \in Process
    /\ s.current <= s.last /\ s.last <= top
    /\ s.current <= s.block /\ s.block <= s.to /\ s.upto <= s.to
    /\ s.to <= s.last /\ s.to + 1 = NextOf(kind, p, s)
    /\ s.tries < Attempts

ProcessOK(kind, p, s, top) ==
    /\ s \in Process
    /\ p = "backfiller" => s.pc \notin {"latest", "advance"}
    /\ p = "service" => s.pc # "done"
    /\ s.pc \in {"block", "store"} => InPage(kind, p, s, top)
    /\ s.pc = "store" => s.block <= s.upto
    /\ s.pc = "page" => /\ s.current <= s.last /\ s.last <= top
                        /\ s.upto < NextOf(kind, p, s) \/ s.upto <= s.current
    /\ s.pc \in {"latest", "advance"} => s.upto <= s.current
    /\ s.pc = "advance" => s.last <= s.current

CwTyped ==
    /\ cwTop \in InitialBlock..MaxCwBlock
    /\ watcherBlock \in CwBlocks \union {NoWatcherBlock}
    /\ persistBlock \in BOOLEAN
    /\ processed \subseteq CwBlocks /\ cwExcuse \subseteq CwBlocks
    /\ running \in [Processes -> Process]
    /\ \A p \in Processes : ProcessOK(watcherKind, p, running[p], cwTop)

\* What Proceed makes of a process that has dealt with the blocks up to s.upto.
Onward(s) ==
    IF s.upto < s.to THEN [s EXCEPT !.pc = "block", !.block = s.upto + 1, !.tries = 0]
    ELSE [s EXCEPT !.pc = "page", !.tries = 0]

LEMMA OnwardOK ==
    ASSUME NEW kind, NEW p \in Processes, NEW s, NEW top, InPage(kind, p, s, top), s.block <= s.upto
    PROVE  /\ ProcessOK(kind, p, Onward(s), top)
           /\ Onward(s).pc \in {"block", "page"}
           /\ ReachOf(kind, p, Onward(s)) = s.upto + 1
<1>1. s \in Process /\ Attempts \in Nat \ {0} BY CwAssumption DEF InPage
<1>2. CASE s.upto < s.to
  <2> DEFINE u == s.upto + 1
             o == [s EXCEPT !.pc = "block", !.block = u, !.tries = 0]
  <2>1. Onward(s) = o BY <1>2 DEF Onward
  <2>0. u \in Nat /\ u = s.upto + 1 BY <1>1 DEF Process
  <2> HIDE DEF u
  <2>2. /\ o \in Process /\ o.pc = "block" /\ o.block = u /\ o.tries = 0
        /\ o.current = s.current /\ o.last = s.last /\ o.page = s.page /\ o.to = s.to
        /\ o.upto = s.upto
    BY <1>1, <2>0 DEF Process, Pcs
  <2> HIDE DEF o
  <2>3. NextOf(kind, p, o) = NextOf(kind, p, s) BY <2>2 DEF NextOf
  <2>4. InPage(kind, p, o, top)
    <3>1. /\ s.current \in Nat /\ s.block \in Nat /\ s.upto \in Nat /\ s.to \in Nat
          /\ s.current <= s.block /\ 0 < Attempts
      BY <1>1 DEF InPage, Process
    <3>2. s.current <= s.upto + 1 /\ s.upto + 1 <= s.to /\ s.upto <= s.to
      BY <1>2, <3>1
    <3> QED BY <2>0, <2>2, <2>3, <3>1, <3>2 DEF InPage
  <2> QED BY <2>0, <2>1, <2>2, <2>4 DEF ProcessOK, ReachOf
<1>3. CASE ~(s.upto < s.to)
  <2> DEFINE o == [s EXCEPT !.pc = "page", !.tries = 0]
  <2>1. Onward(s) = o BY <1>3 DEF Onward
  <2>2. /\ o \in Process /\ o.pc = "page" /\ o.upto = s.upto
        /\ o.current = s.current /\ o.last = s.last /\ o.page = s.page
    BY <1>1 DEF Process, Pcs
  <2> HIDE DEF o
  <2>3. NextOf(kind, p, o) = NextOf(kind, p, s) BY <2>2 DEF NextOf
  <2>4. s.upto = s.to /\ s.upto + 1 = NextOf(kind, p, s) /\ s.upto < NextOf(kind, p, s)
    BY <1>1, <1>3 DEF InPage, Process
  <2> QED BY <2>1, <2>2, <2>3, <2>4 DEF ProcessOK, ReachOf, InPage
<1> QED BY <1>2, <1>3

\* What NextPage makes of it: the page begins at NextOf and ends where the next begins.
LEMMA PageOK ==
    ASSUME NEW p \in Processes, CwTyped, running[p].pc = "page", running[p].page < Pages(p),
           NEW t, t = [running[p] EXCEPT !.pc = "block", !.page = @ + 1, !.tries = 0,
                                         !.block = PageOf(p).from, !.to = PageOf(p).to]
    PROVE  /\ ProcessOK(watcherKind, p, t, cwTop) /\ t.pc = "block"
           /\ t.block = NextOf(watcherKind, p, running[p]) /\ running[p].current <= t.block
<1> DEFINE s == running[p]
<1>1. /\ s \in Process /\ ProcessOK(watcherKind, p, s, cwTop)
      /\ SizeBlocks \in Nat \ {0} /\ Attempts \in Nat \ {0}
  BY CwAssumption DEF CwTyped
<1>2. s.current <= s.last /\ s.last <= cwTop /\ (s.upto < NextOf(watcherKind, p, s) \/ s.upto <= s.current)
  BY <1>1 DEF ProcessOK
<1>3. /\ s.current \in Nat /\ s.last \in Nat /\ s.page \in Nat /\ s.upto \in Nat
      /\ s.last - s.current \in Nat
  BY <1>1, <1>2 DEF Process
<1> DEFINE from == PageOf(p).from
           to == PageOf(p).to
           next == IF watcherKind = "terra" /\ p = "service" THEN s.last + 1
                   ELSE IF s.page + 1 < GetTotalBlocks(s.last, s.current, SizeBlocks)
                        THEN s.current + (s.page + 1) * SizeBlocks ELSE s.last + 1
<1>4. /\ from \in Nat /\ to \in Nat /\ from = NextOf(watcherKind, p, s)
      /\ s.current <= from /\ from <= to /\ to <= s.last /\ to + 1 = next
  <2>1. CASE watcherKind = "terra" /\ p = "service"
    <3>1. s.page < 1 BY <2>1 DEF Pages
    <3>2. from = s.current /\ to = s.last BY <2>1 DEF PageOf
    <3> QED BY <1>2, <1>3, <2>1, <3>1, <3>2 DEF NextOf
  <2>2. CASE ~(watcherKind = "terra" /\ p = "service")
    <3> DEFINE n == s.last - s.current
               k == s.page
               d == SizeBlocks
    <3>1. k < n \div d + 1 BY <2>2 DEF Pages, GetTotalBlocks
    <3>2. from = s.current + k * d
      BY <2>2, Zenon DEF PageOf, GetPage
    <3>3. to = IF from + d - 1 > s.last THEN s.last ELSE from + d - 1
      BY <2>2, <3>2, Zenon DEF PageOf, GetPage
    <3>4. from = NextOf(watcherKind, p, s)
      BY <2>2, <3>1, <3>2 DEF NextOf, GetTotalBlocks
    <3>5. next = IF k + 1 < n \div d + 1 THEN s.current + (k + 1) * d ELSE s.last + 1
      BY <2>2, Zenon DEF GetTotalBlocks
    <3> HIDE DEF from, to, next
    <3>6. k \in Nat /\ n \in Nat /\ d \in Nat \ {0} /\ k + 1 \in Nat /\ s.current + n = s.last
          /\ s.current \in Nat
      BY <1>1, <1>3
    <3> HIDE DEF n, k, d, s
    <3>a. \A i \in Nat : i < n \div d + 1 <=> i * d <= n BY <3>6, DivMul
    <3>7. k * d <= n BY <3>1, <3>6, <3>a
    <3>8. k + 1 < n \div d + 1 <=> (k + 1) * d <= n BY <3>6, <3>a
    <3>9. (k + 1) * d = k * d + d /\ k * d \in Nat BY <3>6
    <3>10. next = IF k * d + d <= n THEN s.current + (k * d + d) ELSE s.last + 1
      BY <3>5, <3>8, <3>9
    <3> DEFINE m == k * d
    <3>11. /\ m \in Nat /\ m <= n /\ from = s.current + m
           /\ next = IF m + d <= n THEN s.current + (m + d) ELSE s.last + 1
      BY <3>2, <3>7, <3>9, <3>10
    <3> HIDE DEF m
    <3>12. from \in Nat /\ s.current <= from /\ from <= s.last BY <3>6, <3>11
    <3>13. CASE m + d <= n
      <4>1. from + d - 1 <= s.last /\ ~(from + d - 1 > s.last) BY <3>6, <3>11, <3>13
      <4>2. to = from + d - 1 BY <3>3, <4>1
      <4> QED BY <3>4, <3>6, <3>11, <3>12, <3>13, <4>1, <4>2
    <3>14. CASE ~(m + d <= n)
      <4>1. to = s.last BY <3>3, <3>6, <3>11, <3>14
      <4> QED BY <3>4, <3>6, <3>11, <3>12, <3>14, <4>1
    <3> QED BY <3>13, <3>14
  <2> QED BY <2>1, <2>2
<1>5. /\ t = [s EXCEPT !.pc = "block", !.page = s.page + 1, !.tries = 0, !.block = from, !.to = to]
  OBVIOUS
<1> DEFINE pg == s.page + 1
<1>50. pg \in Nat /\ pg = s.page + 1 BY <1>3
<1> HIDE DEF from, to, pg, s
<1>51. t = [s EXCEPT !.pc = "block", !.page = pg, !.tries = 0, !.block = from, !.to = to]
  BY <1>5, <1>50
<1>52. "block" \in Pcs /\ s \in Process /\ from \in Nat /\ to \in Nat /\ 0 \in Nat
  BY <1>1, <1>4 DEF Pcs
<1>60. t \in Process
  BY <1>50, <1>51, <1>52, ZenonT(30) DEF Process
<1>6. /\ t \in Process /\ t.pc = "block" /\ t.page = pg /\ t.tries = 0
      /\ t.block = from /\ t.to = to /\ t.current = s.current /\ t.last = s.last /\ t.upto = s.upto
  BY <1>51, <1>52, <1>60 DEF Process
<1>7. NextOf(watcherKind, p, t) = next
  <2>1. ~(s.page + 1 < 1) BY <1>3
  <2> QED BY <1>6, <1>50, <2>1 DEF NextOf
<1> HIDE DEF next
<1>8. t.upto <= t.to BY <1>2, <1>3, <1>4, <1>6
<1>9. InPage(watcherKind, p, t, cwTop)
  BY <1>1, <1>2, <1>4, <1>6, <1>7, <1>8 DEF InPage
<1> QED BY <1>4, <1>6, <1>9 DEF ProcessOK, s

\* Block x is not ahead of the process.
Behind(kind, p, s, x) ==
    /\ s.pc \in {"latest", "advance"} => x <= s.current
    /\ s.pc = "page" => x < NextOf(kind, p, s) \/ x <= s.current
    /\ s.pc \in {"block", "store"} => x <= s.block

\* A step of p alone, to t, after which it is ahead of the blocks it was ahead of.
Moved(p, t) ==
    /\ running' = [running EXCEPT ![p] = t]
    /\ UNCHANGED <<watcherKind, persistBlock, cwTop>>
    /\ t \in Process /\ ProcessOK(watcherKind, p, t, cwTop)
    /\ \A x \in Int : Behind(watcherKind, p, running[p], x) => Behind(watcherKind, p, t, x)

\* What is always known of a process.
LEMMA ProcessFacts ==
    ASSUME CwTyped, NEW p \in Processes
    PROVE  /\ running[p] \in Process /\ ProcessOK(watcherKind, p, running[p], cwTop)
           /\ running[p].current \in Nat /\ running[p].last \in Nat /\ running[p].page \in Nat
           /\ running[p].block \in Nat /\ running[p].upto \in Nat /\ running[p].to \in Nat
           /\ running[p].tries \in Nat
           /\ cwTop \in Nat /\ cwTop <= MaxCwBlock /\ MaxCwBlock \in Nat
           /\ InitialBlock \in Nat /\ InitialBlock <= cwTop
           /\ SizeBlocks \in Nat \ {0} /\ Attempts \in Nat \ {0}
<1>1. running[p] \in Process /\ ProcessOK(watcherKind, p, running[p], cwTop) BY DEF CwTyped
<1>2. cwTop \in Nat /\ cwTop <= MaxCwBlock /\ MaxCwBlock \in Nat /\ InitialBlock <= cwTop
  BY CwAssumption DEF CwTyped
<1> QED BY <1>1, <1>2, CwAssumption DEF Process

\* The blocks up to upto are dealt with, and block may have to be stored.
LEMMA DealtOK ==
    ASSUME CwTyped, NEW p \in Processes, NEW block \in Nat, NEW upto \in Nat,
           running[p].pc = "block", running[p].block <= block, block <= upto, upto <= running[p].to,
           UNCHANGED <<watcherKind, persistBlock, cwTop>>,
           \/ Store(p, block, upto)
           \/ block = running[p].block /\ upto = block /\ PassOver(p)
    PROVE  \E t : /\ Moved(p, t)
                  /\ ReachOf(watcherKind, p, t) = upto + 1
                  /\ t.pc = "store" => t.block = block /\ Persists(p)
<1> DEFINE s == running[p]
           u == [s EXCEPT !.block = block, !.upto = upto]
<1>1. /\ s \in Process /\ InPage(watcherKind, p, s, cwTop) /\ s.pc = "block"
      /\ s.block \in Nat /\ s.to \in Nat /\ s.last \in Nat /\ s.current \in Nat
  BY ProcessFacts DEF ProcessOK
<1> HIDE DEF s
<1>2. u \in Process BY <1>1, Zenon DEF Process
<1>3. /\ u.block = block /\ u.upto = upto /\ u.pc = s.pc /\ u.current = s.current /\ u.last = s.last
      /\ u.page = s.page /\ u.to = s.to /\ u.tries = s.tries
  BY <1>1 DEF Process
<1> HIDE DEF u
<1>4. NextOf(watcherKind, p, u) = NextOf(watcherKind, p, s) BY <1>3 DEF NextOf
<1>5. s.current <= block /\ block <= s.to
  BY <1>1 DEF InPage, s
<1>6. InPage(watcherKind, p, u, cwTop)
  BY <1>1, <1>2, <1>3, <1>4, <1>5 DEF InPage, s
\* Either way x, behind s.block, is behind what comes.
<1>7. ASSUME running' = [running EXCEPT ![p] = Onward(u)]
      PROVE  /\ Moved(p, Onward(u)) /\ ReachOf(watcherKind, p, Onward(u)) = upto + 1
             /\ Onward(u).pc # "store"
  <2>1. /\ ProcessOK(watcherKind, p, Onward(u), cwTop) /\ Onward(u).pc \in {"block", "page"}
        /\ ReachOf(watcherKind, p, Onward(u)) = upto + 1
    BY <1>3, <1>6, OnwardOK
  <2>2. Onward(u) \in Process BY <2>1 DEF ProcessOK
  <2>3. \A x \in Int : Behind(watcherKind, p, s, x) => x < upto + 1
    BY <1>1 DEF Behind, s
  <2>4. \A x \in Int : Behind(watcherKind, p, s, x) => Behind(watcherKind, p, Onward(u), x)
    BY <2>1, <2>3 DEF Behind, ReachOf
  <2> QED BY <1>7, <2>1, <2>2, <2>4 DEF Moved, s
<1>8. CASE Store(p, block, upto)
  <2>1. CASE Persists(p)
    <3> DEFINE t == [u EXCEPT !.pc = "store"]
    <3>1. running' = [running EXCEPT ![p] = t] BY <1>8, <2>1 DEF Store, u, s
    <3>2. t \in Process
      <4>1. "store" \in Pcs BY DEF Pcs
      <4> QED BY <1>2, <4>1, Zenon DEF Process
    <3>3. /\ t.block = block /\ t.upto = upto /\ t.pc = "store" /\ t.current = s.current
          /\ t.last = s.last /\ t.page = s.page /\ t.to = s.to /\ t.tries = s.tries
      BY <1>2, <1>3 DEF Process
    <3> HIDE DEF t
    <3>4. NextOf(watcherKind, p, t) = NextOf(watcherKind, p, s) BY <3>3 DEF NextOf
    <3>5. InPage(watcherKind, p, t, cwTop) BY <1>3, <1>4, <1>6, <3>2, <3>3, <3>4 DEF InPage
    <3>6. ProcessOK(watcherKind, p, t, cwTop) BY <3>2, <3>3, <3>5 DEF ProcessOK
    <3>7. ReachOf(watcherKind, p, t) = upto + 1 BY <3>3 DEF ReachOf
    <3>8. \A x \in Int : Behind(watcherKind, p, s, x) => Behind(watcherKind, p, t, x)
      BY <1>1, <3>3 DEF Behind, s
    <3>9. Moved(p, t) BY <3>1, <3>2, <3>6, <3>8 DEF Moved, s
    <3> QED BY <2>1, <3>3, <3>7, <3>9
  <2>2. CASE ~Persists(p)
    <3>1. running' = [running EXCEPT ![p] = Onward(u)]
      BY <1>8, <2>2, Zenon DEF Store, Proceed, Onward, u, s
    <3> QED BY <1>7, <3>1
  <2> QED BY <2>1, <2>2
<1>9. CASE block = running[p].block /\ upto = block /\ PassOver(p)
  <2> DEFINE v == [running[p] EXCEPT !.upto = running[p].block]
  <2>1. running' = [running EXCEPT ![p] = Onward(v)]
    BY <1>9, Zenon DEF PassOver, Proceed, Onward
  <2>2. v = u
    <3>1. v \in Process
      BY <1>1, Zenon DEF Process, s
    <3>2. /\ v.block = u.block /\ v.upto = u.upto /\ v.pc = u.pc /\ v.current = u.current
          /\ v.last = u.last /\ v.page = u.page /\ v.to = u.to /\ v.tries = u.tries
      BY <1>1, <1>3, <1>9 DEF Process, s
    <3> HIDE DEF v
    <3> QED BY <1>2, <3>1, <3>2 DEF Process
  <2> HIDE DEF v
  <2>3. running' = [running EXCEPT ![p] = Onward(u)] BY <2>1, <2>2
  <2> QED BY <1>7, <2>3
<1> QED BY <1>8, <1>9

\* The blocks that need no looking after.
Done == processed \union cwExcuse

\* What a step of a process, to t, does to the rest.
StepOf(p, t) ==
    /\ running' = [running EXCEPT ![p] = t]
    /\ UNCHANGED <<watcherKind, persistBlock, cwTop>>
    /\ t \in Process /\ ProcessOK(watcherKind, p, t, cwTop)
    /\ processed \subseteq processed' /\ processed' \subseteq CwBlocks
    /\ cwExcuse \subseteq cwExcuse' /\ cwExcuse' \subseteq CwBlocks
    \* The service comes to no block it has not dealt with;
    /\ p = "service" =>
          \A b \in CwBlocks : InitialBlock <= b /\ b < ReachOf(watcherKind, p, t) =>
              b < ReachOf(watcherKind, p, running[p]) \/ b <= watcherBlock \/ b \in Done'
    \* what is to be stored has been dealt with,
    /\ t.pc = "store" => t.block \in Done' /\ Persists(p)
    \* and nothing else is stored;
    /\ \/ watcherBlock' = watcherBlock
       \/ /\ running[p].pc = "store" /\ watcherBlock' = running[p].block
          /\ p = "backfiller" => JumpedOver(running[p].block) \subseteq cwExcuse'
    \* the service stays ahead of what it has stored;
    /\ p = "service" /\ Behind(watcherKind, p, running[p], watcherBlock) =>
          Behind(watcherKind, p, t, watcherBlock')
    \* terra passes over nothing.
    /\ watcherKind = "terra" =>
          cwExcuse' \subseteq cwExcuse \union processed' \/ (p = "backfiller" /\ running[p].pc = "store")

LEMMA ReachInt ==
    ASSUME NEW kind, NEW p, NEW s \in Process
    PROVE  NextOf(kind, p, s) \in Nat /\ ReachOf(kind, p, s) \in Nat
<1>1. /\ s.current \in Nat /\ s.last \in Nat /\ s.page \in Nat /\ s.block \in Nat /\ s.upto \in Nat
      /\ SizeBlocks \in Nat
  BY CwAssumption DEF Process
<1>2. s.page * SizeBlocks \in Nat BY <1>1
<1>3. NextOf(kind, p, s) \in Nat BY <1>1, <1>2 DEF NextOf
<1> QED BY <1>1, <1>3 DEF ReachOf

\* A step that reads nothing and stores nothing.
LEMMA PlainStep ==
    ASSUME CwTyped, NEW p \in Processes, NEW t, Moved(p, t), t.pc # "store",
           ReachOf(watcherKind, p, t) <= ReachOf(watcherKind, p, running[p]),
           UNCHANGED <<watcherBlock, processed>>,
           cwExcuse \subseteq cwExcuse', cwExcuse' \subseteq CwBlocks,
           watcherKind = "terra" => UNCHANGED cwExcuse
    PROVE  StepOf(p, t)
<1> DEFINE r == ReachOf(watcherKind, p, running[p])
           q == ReachOf(watcherKind, p, t)
<1>1. t \in Process /\ running[p] \in Process BY ProcessFacts DEF Moved
<1>2. r \in Nat /\ q \in Nat /\ q <= r BY <1>1, ReachInt
<1> HIDE DEF r, q
<1>3. \A b \in CwBlocks : b < q => b < r BY <1>2, CwAssumption DEF CwBlocks
<1>4. watcherBlock \in Int BY CwAssumption DEF CwTyped, CwBlocks, NoWatcherBlock
<1>5. processed \subseteq CwBlocks BY DEF CwTyped
<1> QED BY <1>1, <1>3, <1>4, <1>5 DEF StepOf, Moved, r, q

LEMMA NextPageStep ==
    ASSUME CwTyped, NEW p \in Processes, NextPage(p)
    PROVE  \E t : StepOf(p, t)
<1> DEFINE t == [running[p] EXCEPT !.pc = "block", !.page = @ + 1, !.tries = 0,
                                   !.block = PageOf(p).from, !.to = PageOf(p).to]
           n == NextOf(watcherKind, p, running[p])
<1>0. running[p].pc = "page" /\ running[p].page < Pages(p) BY DEF NextPage
<1>1. ProcessOK(watcherKind, p, t, cwTop) /\ t.pc = "block" /\ t.block = n /\ running[p].current <= t.block
  BY <1>0, PageOK
<1>2. running' = [running EXCEPT ![p] = t] BY Zenon DEF NextPage
<1> HIDE DEF t
<1>3. t \in Process BY <1>1 DEF ProcessOK
<1>4. n \in Nat /\ running[p].current \in Nat BY ProcessFacts, ReachInt
<1> HIDE DEF n
<1>5. \A x \in Int : x < n \/ x <= running[p].current => x <= t.block BY <1>1, <1>4
<1>6. Moved(p, t)
  BY <1>0, <1>1, <1>2, <1>3, <1>5 DEF Moved, Behind, NextPage, n
<1>7. ReachOf(watcherKind, p, t) = n /\ ReachOf(watcherKind, p, running[p]) = n
  BY <1>0, <1>1 DEF ReachOf, n
<1>8. StepOf(p, t)
  BY <1>1, <1>4, <1>6, <1>7, PlainStep DEF NextPage, CwTyped
<1> QED BY <1>8

LEMMA DownOK == Down \in Process /\ Down.pc = "down" /\ Down.current = 0 /\ Down.upto = 0
  BY DEF Down, Process, Pcs

LEMMA EndRoundStep ==
    ASSUME CwTyped, NEW p \in Processes, EndRound(p)
    PROVE  \E t : StepOf(p, t)
<1> DEFINE s == running[p]
<1>1. /\ s \in Process /\ ProcessOK(watcherKind, p, s, cwTop)
      /\ s.current \in Nat /\ s.last \in Nat /\ s.upto \in Nat /\ s.page \in Nat
  BY ProcessFacts
<1>2. s.pc = "advance" \/ (s.pc = "page" /\ s.page >= Pages(p)) BY DEF EndRound
<1>3. s.pc = "page" => NextOf(watcherKind, p, s) = s.last + 1
  <2>1. CASE watcherKind = "terra" /\ p = "service"
    BY <1>1, <1>2, <2>1 DEF NextOf, Pages
  <2>2. CASE ~(watcherKind = "terra" /\ p = "service")
    <3> DEFINE g == GetTotalBlocks(s.last, s.current, SizeBlocks)
    <3>1. s.pc = "page" => s.current <= s.last BY <1>1 DEF ProcessOK
    <3>2. s.pc = "page" => s.last - s.current \in Nat BY <1>1, <3>1
    <3>3. s.pc = "page" => g \in Nat BY <3>2, CwAssumption DEF GetTotalBlocks
    <3>4. Pages(p) = g BY <2>2 DEF Pages
    <3> HIDE DEF g
    <3>5. s.pc = "page" => ~(s.page < g) BY <1>1, <1>2, <3>3, <3>4
    <3> QED BY <2>2, <3>5 DEF NextOf, g
  <2> QED BY <2>1, <2>2
<1>4. CASE p = "service"
  <2> DEFINE a == Advance(s)
             t == [s EXCEPT !.pc = "latest", !.current = a]
  <2>1. a \in Nat BY <1>1 DEF Advance
  <2>2. running' = [running EXCEPT ![p] = t] BY <1>4 DEF EndRound
  <2>3. /\ s.pc = "advance" => a = s.current
        /\ s.pc = "page" => a = s.last
    BY <1>1 DEF Advance, ProcessOK
  <2> HIDE DEF a
  <2>4. t \in Process
    <3>1. "latest" \in Pcs BY DEF Pcs
    <3> QED BY <1>1, <2>1, <3>1, Zenon DEF Process
  <2>5. t.pc = "latest" /\ t.current = a /\ t.upto = s.upto BY <1>1 DEF Process
  <2> HIDE DEF t
  <2>6. s.current <= a /\ (s.pc = "page" => NextOf(watcherKind, p, s) = a + 1 /\ s.upto <= a)
    BY <1>1, <1>2, <1>3, <2>1, <2>3 DEF ProcessOK
  <2>7. s.upto <= a
    BY <1>1, <1>2, <2>1, <2>3, <2>6 DEF ProcessOK
  <2>8. ProcessOK(watcherKind, p, t, cwTop) BY <1>4, <2>4, <2>5, <2>7 DEF ProcessOK
  <2>9. \A x \in Int : Behind(watcherKind, p, s, x) => Behind(watcherKind, p, t, x)
    <3>1. ASSUME NEW x \in Int, Behind(watcherKind, p, s, x) PROVE x <= a
      <4>1. CASE s.pc = "advance" BY <1>1, <2>1, <2>3, <3>1, <4>1 DEF Behind
      <4>2. CASE s.pc = "page" BY <1>1, <2>1, <2>6, <3>1, <4>2 DEF Behind
      <4> QED BY <1>2, <4>1, <4>2
    <3> QED BY <2>5, <3>1 DEF Behind
  <2>10. Moved(p, t) BY <2>2, <2>4, <2>8, <2>9 DEF Moved, EndRound
  <2>11. ReachOf(watcherKind, p, t) <= ReachOf(watcherKind, p, s)
    <3>1. ReachOf(watcherKind, p, t) = a BY <2>5 DEF ReachOf
    <3>2. CASE s.pc = "advance" BY <1>1, <2>3, <3>1, <3>2 DEF ReachOf
    <3>3. CASE s.pc = "page" BY <1>1, <2>1, <2>6, <3>1, <3>3 DEF ReachOf
    <3> QED BY <1>2, <3>2, <3>3
  <2>12. StepOf(p, t) BY <2>5, <2>10, <2>11, PlainStep DEF EndRound, CwTyped
  <2> QED BY <2>12
<1>5. CASE p # "service"
  <2> DEFINE t == [Down EXCEPT !.pc = "done"]
  <2>1. running' = [running EXCEPT ![p] = t] BY <1>5 DEF EndRound
  <2>2. t \in Process /\ t.pc = "done" /\ t.current = 0 BY DEF Down, Process, Pcs
  <2> HIDE DEF t
  <2>3. Moved(p, t) BY <1>5, <2>1, <2>2 DEF Moved, EndRound, Behind, ProcessOK
  <2>4. ReachOf(watcherKind, p, t) <= ReachOf(watcherKind, p, s)
    <3>1. ReachOf(watcherKind, p, t) = 0 BY <2>2 DEF ReachOf
    <3>2. ReachOf(watcherKind, p, s) \in Nat BY <1>1, ReachInt
    <3> QED BY <3>1, <3>2
  <2>5. StepOf(p, t) BY <2>2, <2>3, <2>4, PlainStep DEF EndRound, CwTyped
  <2> QED BY <2>5
<1> QED BY <1>4, <1>5

LEMMA GetLatestBlockStep ==
    ASSUME CwTyped, NEW kind, NEW latest, latest \in {0, running["service"].current},
           GetLatestBlock(kind, latest)
    PROVE  \E t : StepOf("service", t)
<1> DEFINE s == running["service"]
           p == "service"
<1>0. p \in Processes BY DEF Processes
<1>1. /\ s \in Process /\ ProcessOK(watcherKind, p, s, cwTop) /\ s.pc = "latest"
      /\ s.current \in Nat /\ s.upto \in Nat /\ s.upto <= s.current /\ cwTop \in Nat
      /\ SizeBlocks \in Nat \ {0}
  BY <1>0, ProcessFacts DEF ProcessOK, GetLatestBlock
<1>2. ReachOf(watcherKind, p, s) = s.current BY <1>1 DEF ReachOf
<1>3. CASE s.current < cwTop /\ running' = [running EXCEPT ![p] = [s EXCEPT !.pc = "page", !.last = cwTop, !.page = 0]]
           /\ UNCHANGED cwFaults
  <2> DEFINE t == [s EXCEPT !.pc = "page", !.last = cwTop, !.page = 0]
  <2>1. t \in Process
    <3>1. "page" \in Pcs /\ 0 \in Nat BY DEF Pcs
    <3> QED BY <1>1, <3>1, Zenon DEF Process
  <2>2. t.pc = "page" /\ t.last = cwTop /\ t.page = 0 /\ t.current = s.current /\ t.upto = s.upto
    BY <1>1 DEF Process
  <2>3. running' = [running EXCEPT ![p] = t] BY <1>3
  <2> HIDE DEF t, s
  <2>4. NextOf(watcherKind, p, t) = s.current
    <3> DEFINE n == cwTop - s.current
               g == n \div SizeBlocks + 1
    <3>1. n \in Nat BY <1>1, <1>3
    <3> HIDE DEF n
    <3>2. g \in Nat /\ 0 < g BY <1>1, <3>1
    <3>3. g = GetTotalBlocks(t.last, t.current, SizeBlocks) BY <2>2 DEF GetTotalBlocks, n
    <3> HIDE DEF g
    <3>4. s.current + 0 * SizeBlocks = s.current BY <1>1
    <3> QED BY <1>1, <2>2, <3>2, <3>3, <3>4 DEF NextOf
  <2>5. s.current <= cwTop BY <1>1, <1>3
  <2>6. ProcessOK(watcherKind, p, t, cwTop)
    BY <1>0, <1>1, <2>1, <2>2, <2>5 DEF ProcessOK
  <2>7. \A x \in Int : Behind(watcherKind, p, s, x) => Behind(watcherKind, p, t, x)
    BY <1>1, <2>2 DEF Behind
  <2>8. Moved(p, t) BY <2>1, <2>3, <2>6, <2>7 DEF Moved, GetLatestBlock, s
  <2>9. ReachOf(watcherKind, p, t) = s.current BY <2>2, <2>4 DEF ReachOf
  <2>10. StepOf(p, t)
    BY <1>0, <1>1, <1>2, <2>2, <2>8, <2>9, PlainStep DEF GetLatestBlock, CwTyped, s
  <2> QED BY <2>10
<1>4. CASE running' = [running EXCEPT ![p] = [s EXCEPT !.pc = "advance", !.last = latest]]
  <2> DEFINE t == [s EXCEPT !.pc = "advance", !.last = latest]
  <2>0. latest \in Nat /\ latest <= s.current BY <1>1
  <2>1. t \in Process
    <3>1. "advance" \in Pcs BY DEF Pcs
    <3> QED BY <1>1, <2>0, <3>1, Zenon DEF Process
  <2>2. t.pc = "advance" /\ t.last = latest /\ t.current = s.current /\ t.upto = s.upto
    BY <1>1 DEF Process
  <2>3. running' = [running EXCEPT ![p] = t] BY <1>4
  <2> HIDE DEF t, s
  <2>6. ProcessOK(watcherKind, p, t, cwTop)
    BY <1>0, <1>1, <2>0, <2>1, <2>2 DEF ProcessOK
  <2>7. \A x \in Int : Behind(watcherKind, p, s, x) => Behind(watcherKind, p, t, x)
    BY <1>1, <2>2 DEF Behind
  <2>8. Moved(p, t) BY <2>1, <2>3, <2>6, <2>7 DEF Moved, GetLatestBlock, s
  <2>9. ReachOf(watcherKind, p, t) = s.current BY <2>2 DEF ReachOf
  <2>10. StepOf(p, t)
    BY <1>0, <1>1, <1>2, <2>2, <2>8, <2>9, PlainStep DEF GetLatestBlock, CwTyped, s
  <2> QED BY <2>10
<1> QED
  <2>1. s \in Process /\ running \in [Processes -> Process] BY <1>1 DEF CwTyped
  <2> DEFINE u == [s EXCEPT !.pc = "page", !.last = cwTop, !.page = 0]
             v == [s EXCEPT !.pc = "advance", !.last = latest]
  <2>2. [running EXCEPT !["service"].pc = "page", !["service"].last = cwTop, !["service"].page = 0]
          = [running EXCEPT !["service"] = u]
    BY <1>0, <2>1, Zenon
  <2>3. [running EXCEPT !["service"].pc = "advance", !["service"].last = latest]
          = [running EXCEPT !["service"] = v]
    BY <1>0, <2>1, Zenon
  <2> QED BY <1>3, <1>4, <2>2, <2>3, Zenon DEF GetLatestBlock

LEMMA StartServiceStep ==
    ASSUME CwTyped, StartService
    PROVE  \E t : StepOf("service", t)
<1> DEFINE c == GetCurrentBlock
           t == [Down EXCEPT !.pc = "latest", !.current = c]
           p == "service"
<1>0. p \in Processes BY DEF Processes
<1>1. /\ c \in CwBlocks /\ watcherBlock <= c /\ watcherBlock \in Int
      /\ \A b \in CwBlocks : InitialBlock <= b /\ b < c => b <= watcherBlock
  BY CwAssumption DEF GetCurrentBlock, CwTyped, CwBlocks, NoWatcherBlock
<1>2. running' = [running EXCEPT ![p] = t] BY DEF StartService
<1>3. c \in Nat BY <1>1 DEF CwBlocks
<1> HIDE DEF c
<1>4. /\ t \in Process /\ t.pc = "latest" /\ t.current = c /\ t.upto = 0
  BY <1>3 DEF Down, Process, Pcs
<1> HIDE DEF t
<1>5. ProcessOK(watcherKind, p, t, cwTop) BY <1>3, <1>4 DEF ProcessOK
<1>6. ReachOf(watcherKind, p, t) = c BY <1>4 DEF ReachOf
<1>7. Behind(watcherKind, p, t, watcherBlock) BY <1>1, <1>4 DEF Behind
<1>8. processed \subseteq CwBlocks /\ cwExcuse \subseteq CwBlocks BY DEF CwTyped
<1>9. StepOf(p, t)
  BY <1>1, <1>2, <1>4, <1>5, <1>6, <1>7, <1>8 DEF StepOf, StartService
<1> QED BY <1>9

LEMMA StartBackfillerStep ==
    ASSUME CwTyped, StartBackfiller
    PROVE  \E t : StepOf("backfiller", t)
<1> DEFINE p == "backfiller"
           from == BackfillRange.from
           to == BackfillRange.to
           t == [Down EXCEPT !.pc = "page", !.current = from, !.last = to]
<1>1. /\ from \in Nat /\ to \in Nat /\ from <= to /\ to <= cwTop BY BackfillAssumption DEF StartBackfiller
<1>2. running' = [running EXCEPT ![p] = t] BY DEF StartBackfiller
<1> HIDE DEF from, to
<1>3. t \in Process /\ t.pc = "page" /\ t.current = from /\ t.last = to /\ t.upto = 0
  BY <1>1 DEF Down, Process, Pcs
<1> HIDE DEF t
<1>4. ProcessOK(watcherKind, p, t, cwTop) BY <1>1, <1>3 DEF ProcessOK
<1>5. processed \subseteq CwBlocks /\ cwExcuse \subseteq CwBlocks BY DEF CwTyped
<1>6. StepOf(p, t) BY <1>2, <1>3, <1>4, <1>5 DEF StepOf, StartBackfiller
<1> QED BY <1>6

\* The blocks a process is in the middle of are blocks of the chain.
LEMMA BlockFacts ==
    ASSUME CwTyped, NEW p \in Processes, running[p].pc \in {"block", "store"}
    PROVE  /\ running[p].block \in Nat /\ running[p].to \in Nat /\ running[p].block <= running[p].to
           /\ running[p].block \in CwBlocks /\ running[p].block .. running[p].to \subseteq CwBlocks
<1> DEFINE a == running[p].block
           z == running[p].to
<1>1. a \in Nat /\ z \in Nat /\ a <= z /\ z <= cwTop /\ cwTop \in Nat /\ cwTop <= MaxCwBlock /\ MaxCwBlock \in Nat
  BY ProcessFacts DEF ProcessOK, InPage
<1> HIDE DEF a, z
<1>2. a \in CwBlocks /\ a .. z \subseteq CwBlocks BY <1>1 DEF CwBlocks
<1> QED BY <1>1, <1>2 DEF a, z

\* A process that dies, or ends: it is ahead of nothing any more.
LEMMA GoneStep ==
    ASSUME CwTyped, NEW p \in Processes, NEW t \in Process,
           running' = [running EXCEPT ![p] = t],
           t.pc = "down" \/ (t.pc = "done" /\ p = "backfiller") \/ (t.pc = "ended" /\ p = "service"),
           t.current = 0, t.upto = 0,
           UNCHANGED <<watcherKind, persistBlock, cwTop, watcherBlock, processed>>,
           cwExcuse \subseteq cwExcuse', cwExcuse' \subseteq CwBlocks,
           watcherKind = "terra" => UNCHANGED cwExcuse
    PROVE  StepOf(p, t)
<1>1. Moved(p, t) BY DEF Moved, ProcessOK, Behind
<1>2. ReachOf(watcherKind, p, t) = 0 BY DEF ReachOf
<1>3. ReachOf(watcherKind, p, running[p]) \in Nat BY ProcessFacts, ReachInt
<1> QED BY <1>1, <1>2, <1>3, PlainStep

LEMMA EndedOK ==
    \A pc \in {"done", "ended"} :
        LET t == [Down EXCEPT !.pc = pc] IN t \in Process /\ t.pc = pc /\ t.current = 0 /\ t.upto = 0
BY DEF Down, Process, Pcs

LEMMA StartServiceFailsStep ==
    ASSUME CwTyped, StartServiceFails
    PROVE  \E t : StepOf("service", t)
<1> DEFINE t == [Down EXCEPT !.pc = "ended"]
<1>1. running' = [running EXCEPT !["service"] = t]
      /\ UNCHANGED <<watcherKind, persistBlock, cwTop, watcherBlock, processed, cwExcuse>>
  BY DEF StartServiceFails
<1>2. t \in Process /\ t.pc = "ended" /\ t.current = 0 /\ t.upto = 0 BY EndedOK
<1>3. "service" \in Processes BY DEF Processes
<1> HIDE DEF t
<1>4. StepOf("service", t) BY <1>1, <1>2, <1>3, GoneStep DEF CwTyped
<1> QED BY <1>4

LEMMA EvmPanicsStep ==
    ASSUME CwTyped, NEW p \in Processes, EvmPanics(p)
    PROVE  \E t : StepOf(p, t)
<1> DEFINE t == IF p = "service" THEN Down ELSE [Down EXCEPT !.pc = "done"]
<1>1. /\ running' = [running EXCEPT ![p] = t]
      /\ UNCHANGED <<watcherKind, persistBlock, cwTop, watcherBlock, processed>>
      /\ watcherKind = "evm" /\ running[p].pc = "block"
  BY DEF EvmPanics
<1>2. /\ t \in Process /\ t.current = 0 /\ t.upto = 0
      /\ t.pc = "down" \/ (t.pc = "done" /\ p = "backfiller")
  BY EndedOK, DownOK DEF Processes
<1>3. cwExcuse' = cwExcuse \/ cwExcuse' = cwExcuse \union {running[p].block}
  BY DEF EvmPanics, EvmProcessTransaction, Record, RecordBut
<1>4. running[p].block \in CwBlocks BY <1>1, BlockFacts
<1> HIDE DEF t
<1>5. StepOf(p, t) BY <1>1, <1>2, <1>3, <1>4, GoneStep DEF CwTyped
<1> QED BY <1>5

LEMMA CwCrashStep ==
    ASSUME CwTyped, CwCrash
    PROVE  \E t : StepOf("service", t)
<1>0. "service" \in Processes BY DEF Processes
<1>1. Moved("service", Down) BY DownOK DEF Moved, CwCrash, ProcessOK, Behind
<1>2. ReachOf(watcherKind, "service", Down) = 0 BY DownOK DEF ReachOf
<1>3. ReachOf(watcherKind, "service", running["service"]) \in Nat BY <1>0, ProcessFacts, ReachInt
<1>4. StepOf("service", Down) BY <1>0, <1>1, <1>2, <1>3, DownOK, PlainStep DEF CwCrash, CwTyped
<1> QED BY <1>4

\* One more try, of the block or of storing it.
LEMMA RetryOK ==
    ASSUME CwTyped, NEW p \in Processes, running[p].pc \in {"block", "store"}, ~Exhausted(running[p]),
           NEW t, t = [running[p] EXCEPT !.pc = "block", !.tries = @ + 1],
           running' = [running EXCEPT ![p] = t], UNCHANGED <<watcherKind, persistBlock, cwTop>>
    PROVE  /\ Moved(p, t) /\ t.pc = "block"
           /\ ReachOf(watcherKind, p, t) <= ReachOf(watcherKind, p, running[p])
<1> DEFINE s == running[p]
           n == s.tries + 1
<1>1. /\ s \in Process /\ InPage(watcherKind, p, s, cwTop) /\ s.pc \in {"block", "store"}
      /\ s.pc = "store" => s.block <= s.upto
      /\ s.block \in Nat /\ s.upto \in Nat /\ s.tries \in Nat
  BY ProcessFacts DEF ProcessOK
<1>2. n \in Nat /\ n < Attempts BY <1>1, CwAssumption DEF Exhausted
<1>3. t = [s EXCEPT !.pc = "block", !.tries = n] OBVIOUS
<1> HIDE DEF n, s
<1>4. t \in Process
  <2>1. "block" \in Pcs BY DEF Pcs
  <2> QED BY <1>1, <1>2, <1>3, <2>1, Zenon DEF Process
<1>5. /\ t.pc = "block" /\ t.tries = n /\ t.current = s.current /\ t.last = s.last /\ t.page = s.page
      /\ t.block = s.block /\ t.upto = s.upto /\ t.to = s.to
  BY <1>1, <1>3 DEF Process
<1>6. NextOf(watcherKind, p, t) = NextOf(watcherKind, p, s) BY <1>5 DEF NextOf
<1>7. InPage(watcherKind, p, t, cwTop) BY <1>1, <1>2, <1>4, <1>5, <1>6 DEF InPage
<1>8. ProcessOK(watcherKind, p, t, cwTop) BY <1>4, <1>5, <1>7 DEF ProcessOK
<1>9. \A x \in Int : Behind(watcherKind, p, s, x) => Behind(watcherKind, p, t, x)
  BY <1>1, <1>5 DEF Behind
<1>10. ReachOf(watcherKind, p, t) <= ReachOf(watcherKind, p, s) BY <1>1, <1>5 DEF ReachOf
<1> QED BY <1>4, <1>5, <1>8, <1>9, <1>10 DEF Moved, s

LEMMA BlockRetryStep ==
    ASSUME CwTyped, NEW p \in Processes, NEW kind, BlockUnread(p, kind), ~Exhausted(running[p]), Retry(p)
    PROVE  \E t : StepOf(p, t)
<1> DEFINE s == running[p]
           t == [s EXCEPT !.pc = "block", !.tries = @ + 1]
           v == [s EXCEPT !.tries = @ + 1]
<1>1. s \in Process /\ s.pc = "block" BY ProcessFacts DEF BlockUnread
<1>2. v = t
  <2>1. s.tries + 1 \in Nat BY <1>1 DEF Process
  <2>2. v \in Process /\ t \in Process BY <1>1, <2>1, Zenon DEF Process, Pcs
  <2>3. /\ v.pc = "block" /\ t.pc = "block" /\ v.tries = t.tries /\ v.current = t.current /\ v.last = t.last
        /\ v.page = t.page /\ v.block = t.block /\ v.upto = t.upto /\ v.to = t.to
    BY <1>1 DEF Process
  <2> HIDE DEF v, t
  <2> QED BY <2>2, <2>3 DEF Process
<1>3. running' = [running EXCEPT ![p] = t]
  <2>1. running' = [running EXCEPT ![p] = v] BY Zenon DEF Retry
  <2> HIDE DEF v, t
  <2> QED BY <1>2, <2>1
<1> HIDE DEF t, v
<1>4. Moved(p, t) /\ t.pc = "block" /\ ReachOf(watcherKind, p, t) <= ReachOf(watcherKind, p, s)
  BY <1>1, <1>3, RetryOK DEF BlockUnread, t
<1>5. StepOf(p, t) BY <1>4, PlainStep DEF BlockUnread, Retry, CwTyped
<1> QED BY <1>5

LEMMA DealtStep ==
    ASSUME CwTyped, NEW p \in Processes, NEW block \in Nat, NEW upto \in Nat,
           running[p].pc = "block", running[p].block <= block, block <= upto, upto <= running[p].to,
           UNCHANGED <<watcherKind, persistBlock, cwTop, watcherBlock>>,
           \/ Store(p, block, upto)
           \/ block = running[p].block /\ upto = block /\ PassOver(p),
           processed \subseteq processed', processed' \subseteq CwBlocks,
           cwExcuse \subseteq cwExcuse', cwExcuse' \subseteq CwBlocks,
           running[p].block .. upto \subseteq processed' \union cwExcuse',
           watcherKind = "terra" => cwExcuse' \subseteq cwExcuse \union processed'
    PROVE  \E t : StepOf(p, t)
<1> DEFINE a == running[p].block
<1>1. PICK t : /\ Moved(p, t) /\ ReachOf(watcherKind, p, t) = upto + 1
               /\ t.pc = "store" => t.block = block /\ Persists(p)
  BY DealtOK
<1>2. a \in Nat BY ProcessFacts
<1>3. ReachOf(watcherKind, p, running[p]) = a BY DEF ReachOf
<1> HIDE DEF a
<1>4. a .. upto \subseteq Done' BY DEF Done, a
<1>5. \A b \in CwBlocks : b < upto + 1 => b < a \/ b \in a .. upto
  BY <1>2, CwAssumption DEF CwBlocks
<1>6. block \in a .. upto BY <1>2 DEF a
<1>7. watcherBlock \in CwBlocks \union {NoWatcherBlock} BY DEF CwTyped
<1>8. watcherBlock \in Int BY <1>7, CwAssumption DEF CwBlocks, NoWatcherBlock
<1>9. p = "service" => \A b \in CwBlocks : InitialBlock <= b /\ b < ReachOf(watcherKind, p, t) =>
          b < ReachOf(watcherKind, p, running[p]) \/ b <= watcherBlock \/ b \in Done'
  BY <1>1, <1>3, <1>4, <1>5
<1>10. t.pc = "store" => t.block \in Done' /\ Persists(p) BY <1>1, <1>4, <1>6
<1>11. StepOf(p, t)
  BY <1>1, <1>8, <1>9, <1>10 DEF StepOf, Moved
<1> QED BY <1>11

LEMMA ReadBlockStep ==
    ASSUME CwTyped, NEW p \in Processes, NEW kind, ReadBlock(p, kind),
           Record({running[p].block}) \/ \E status : RecordBut(running[p].block, {running[p].block}, status)
    PROVE  \E t : StepOf(p, t)
<1> DEFINE b == running[p].block
<1>1. b \in Nat /\ b \in CwBlocks /\ b <= running[p].to BY BlockFacts DEF ReadBlock
<1>2. cwExcuse' = cwExcuse \/ cwExcuse' = cwExcuse \union {b} BY DEF Record, RecordBut
<1>3. processed' = processed \union {b} BY DEF ReadBlock
<1>4. b .. b = {b} BY <1>1
<1>5. processed \subseteq CwBlocks /\ cwExcuse \subseteq CwBlocks BY DEF CwTyped
<1> HIDE DEF b
<1>6. /\ processed \subseteq processed' /\ processed' \subseteq CwBlocks
      /\ cwExcuse \subseteq cwExcuse' /\ cwExcuse' \subseteq CwBlocks
      /\ b .. b \subseteq processed' \union cwExcuse' /\ cwExcuse' \subseteq cwExcuse \union processed'
  BY <1>1, <1>2, <1>3, <1>4, <1>5
<1>7. b = running[p].block BY DEF b
<1>8. Store(p, b, b) BY DEF ReadBlock, b
<1>9. running[p].pc = "block" /\ UNCHANGED <<watcherKind, persistBlock, cwTop, watcherBlock>> BY DEF ReadBlock
<1>10. b <= b /\ running[p].block <= b BY <1>1, <1>7
<1> QED BY <1>1, <1>6, <1>7, <1>8, <1>9, <1>10, DealtStep

LEMMA GetBlockFailsStep ==
    ASSUME CwTyped, NEW p \in Processes, NEW kind, kind # "terra", BlockUnread(p, kind),
           Forget({running[p].block}),
           PassOver(p) \/ Store(p, running[p].block, running[p].block)
    PROVE  \E t : StepOf(p, t)
<1> DEFINE b == running[p].block
<1>1. b \in Nat /\ b \in CwBlocks /\ b <= running[p].to BY BlockFacts DEF BlockUnread
<1>2. cwExcuse' = cwExcuse \union {b} BY DEF Forget
<1>3. processed' = processed BY DEF BlockUnread
<1>4. b .. b = {b} BY <1>1
<1>5. processed \subseteq CwBlocks /\ cwExcuse \subseteq CwBlocks BY DEF CwTyped
<1>8. PassOver(p) \/ Store(p, b, b) OBVIOUS
<1> HIDE DEF b
<1>6. /\ processed \subseteq processed' /\ processed' \subseteq CwBlocks
      /\ cwExcuse \subseteq cwExcuse' /\ cwExcuse' \subseteq CwBlocks
      /\ b .. b \subseteq processed' \union cwExcuse'
  BY <1>1, <1>2, <1>3, <1>4, <1>5
<1>7. b = running[p].block BY DEF b
<1>9. /\ running[p].pc = "block" /\ UNCHANGED <<watcherKind, persistBlock, cwTop, watcherBlock>>
      /\ watcherKind # "terra"
  BY DEF BlockUnread
<1>10. b <= b /\ running[p].block <= b BY <1>1, <1>7
<1> QED BY <1>1, <1>6, <1>7, <1>8, <1>9, <1>10, DealtStep

LEMMA GreatestBlock ==
    ASSUME NEW S \in SUBSET CwBlocks, S # {}
    PROVE  \E x \in S : \A y \in S : y <= x
<1> DEFINE N == {n \in Nat : \E x \in S : n = MaxCwBlock - x}
<1>1. MaxCwBlock \in Nat /\ \A x \in S : x \in Nat /\ MaxCwBlock - x \in Nat BY CwAssumption DEF CwBlocks
<1>2. N # {} BY <1>1
<1>3. IsWellFoundedOn(OpToRel(<, Nat), Nat) BY NatLessThanWellFounded
<1>4. PICK n \in N : \A m \in N : ~(<<m, n>> \in OpToRel(<, Nat))
  <2>1. N \subseteq Nat OBVIOUS
  <2> HIDE DEF N
  <2> QED BY <1>2, <1>3, <2>1, WFMin
<1>5. PICK x \in S : n = MaxCwBlock - x OBVIOUS
<1>6. ASSUME NEW y \in S PROVE y <= x
  <2>1. MaxCwBlock - y \in N BY <1>1
  <2>2. ~(MaxCwBlock - y < n) BY <1>1, <1>4, <2>1 DEF OpToRel
  <2> QED BY <1>1, <1>5, <2>2
<1> QED BY <1>6

LEMMA AnkrStep ==
    ASSUME CwTyped, NEW p \in Processes, GetTransactionsByAddress(p)
    PROVE  \E t : StepOf(p, t)
<1> DEFINE a == running[p].block
           z == running[p].to
<1>1. /\ running[p].pc = "block" /\ watcherKind = "ankr"
      /\ UNCHANGED <<watcherKind, persistBlock, cwTop, watcherBlock>>
  BY DEF GetTransactionsByAddress
<1>2. a \in Nat /\ z \in Nat /\ a <= z /\ a .. z \subseteq CwBlocks BY <1>1, BlockFacts
<1> DEFINE redeems(u) == (a .. u) \intersect DOMAIN Redeemed
           new(u) == IF redeems(u) = {} THEN z ELSE CHOOSE b \in redeems(u) : \A c \in redeems(u) : c <= b
<1>3. PICK upto \in a .. z :
          /\ upto < z => upto \in redeems(upto)
          /\ AnkrProcessTransactions(a .. upto)
          /\ processed' = processed \union a .. upto
          /\ Store(p, new(upto), upto)
  BY Zenon DEF GetTransactionsByAddress
<1> DEFINE r == redeems(upto)
           block == new(upto)
<1>4. upto \in Nat /\ a <= upto /\ upto <= z BY <1>2
<1>5. a .. upto \subseteq CwBlocks BY <1>2, <1>4
<1>6. block \in a .. upto
  <2>1. CASE r = {}
    <3>1. upto = z BY <1>2, <1>3, <1>4, <2>1
    <3> QED BY <1>2, <1>4, <2>1, <3>1
  <2>2. CASE r # {}
    <3>1. r \in SUBSET CwBlocks BY <1>5
    <3>2. block = CHOOSE b \in r : \A c \in r : c <= b BY <2>2
    <3> HIDE DEF block
    <3>3. r \subseteq a .. upto OBVIOUS
    <3> HIDE DEF r
    <3>4. \E b \in r : \A c \in r : c <= b BY <2>2, <3>1, GreatestBlock
    <3> QED BY <3>2, <3>3, <3>4
  <2> QED BY <2>1, <2>2
<1>7. cwExcuse' = cwExcuse \/ \E b \in a .. upto : cwExcuse' = cwExcuse \union {b}
  BY <1>3, Zenon DEF AnkrProcessTransactions, Record, RecordBut
<1>8. processed \subseteq CwBlocks /\ cwExcuse \subseteq CwBlocks BY DEF CwTyped
<1> DEFINE bs == a .. upto
<1>9. bs \subseteq CwBlocks /\ (cwExcuse' = cwExcuse \/ \E b \in bs : cwExcuse' = cwExcuse \union {b})
      /\ processed' = processed \union bs
  BY <1>3, <1>5, <1>7
<1> HIDE DEF bs
<1>10. /\ processed \subseteq processed' /\ processed' \subseteq CwBlocks
       /\ cwExcuse \subseteq cwExcuse' /\ cwExcuse' \subseteq CwBlocks
       /\ bs \subseteq processed' \union cwExcuse'
  BY <1>8, <1>9
<1>11. Store(p, block, upto) BY <1>3
<1>12. block \in Nat /\ running[p].block <= block /\ block <= upto /\ upto <= running[p].to
  BY <1>2, <1>4, <1>6
<1>13. watcherKind # "terra" BY <1>1
<1>14. running[p].block .. upto \subseteq processed' \union cwExcuse' BY <1>10 DEF bs
<1> HIDE DEF block, a, z
<1> QED BY <1>1, <1>4, <1>10, <1>11, <1>12, <1>13, <1>14, DealtStep

LEMMA AnkrFailsStep ==
    ASSUME CwTyped, NEW p \in Processes, GetTransactionsByAddressFails(p)
    PROVE  \E t : StepOf(p, t)
<1> DEFINE a == running[p].block
           z == running[p].to
           bs == a .. z
<1>1. /\ running[p].pc = "block" /\ watcherKind # "terra"
      /\ UNCHANGED <<watcherKind, persistBlock, cwTop, watcherBlock, processed>>
      /\ cwExcuse' = cwExcuse \union bs /\ Store(p, z, z)
  BY DEF GetTransactionsByAddressFails
<1>2. z \in Nat /\ a <= z /\ z <= z /\ bs \subseteq CwBlocks BY <1>1, BlockFacts
<1>3. processed \subseteq CwBlocks /\ cwExcuse \subseteq CwBlocks BY DEF CwTyped
<1> HIDE DEF bs
<1>4. /\ processed \subseteq processed' /\ processed' \subseteq CwBlocks
      /\ cwExcuse \subseteq cwExcuse' /\ cwExcuse' \subseteq CwBlocks
      /\ bs \subseteq processed' \union cwExcuse'
  BY <1>1, <1>2, <1>3
<1> QED BY <1>1, <1>2, <1>4, DealtStep DEF bs

LEMMA UpdateWatcherBlockStep ==
    ASSUME CwTyped, NEW p \in Processes, UpdateWatcherBlock(p)
    PROVE  \E t : StepOf(p, t)
<1> DEFINE s == running[p]
<1>1. /\ s \in Process /\ s.pc = "store" /\ InPage(watcherKind, p, s, cwTop) /\ s.block <= s.upto
      /\ s.block \in Nat /\ s.upto \in Nat
  BY ProcessFacts DEF ProcessOK, UpdateWatcherBlock
<1>2. UNCHANGED <<watcherKind, persistBlock, cwTop, processed>> BY DEF UpdateWatcherBlock
<1>3. s.block \in CwBlocks /\ s.block .. s.to \subseteq CwBlocks BY <1>1, BlockFacts
<1>4. /\ processed \subseteq CwBlocks /\ cwExcuse \subseteq CwBlocks
      /\ watcherBlock \in CwBlocks \union {NoWatcherBlock}
  BY DEF CwTyped
<1>5. watcherBlock \in Int BY <1>4, CwAssumption DEF CwBlocks, NoWatcherBlock
\* On, with what was stored or not.
<1>6. ASSUME Proceed(p, s)
      PROVE  /\ Moved(p, Onward(s)) /\ Onward(s).pc # "store"
             /\ ReachOf(watcherKind, p, Onward(s)) <= ReachOf(watcherKind, p, s)
             /\ Behind(watcherKind, p, Onward(s), s.block)
  <2>1. running' = [running EXCEPT ![p] = Onward(s)] BY <1>6 DEF Proceed, Onward
  <2>2. /\ ProcessOK(watcherKind, p, Onward(s), cwTop) /\ Onward(s).pc \in {"block", "page"}
        /\ ReachOf(watcherKind, p, Onward(s)) = s.upto + 1
    BY <1>1, OnwardOK
  <2>3. Onward(s) \in Process BY <2>2 DEF ProcessOK
  <2>4. ReachOf(watcherKind, p, s) = s.upto + 1 BY <1>1 DEF ReachOf
  <2>5. \A x \in Int : x <= s.block => x < s.upto + 1 /\ x <= s.upto + 1 BY <1>1
  <2>6. \A x \in Int : x <= s.block => Behind(watcherKind, p, Onward(s), x)
    BY <2>2, <2>5 DEF Behind, ReachOf
  <2>7. \A x \in Int : Behind(watcherKind, p, s, x) => Behind(watcherKind, p, Onward(s), x)
    BY <1>1, <2>6 DEF Behind
  <2>8. Moved(p, Onward(s)) BY <1>2, <2>1, <2>2, <2>3, <2>7 DEF Moved
  <2>9. s.block \in Int /\ s.block <= s.block BY <1>1
  <2>10. Behind(watcherKind, p, Onward(s), s.block) BY <2>6, <2>9
  <2>11. s.upto + 1 <= s.upto + 1 BY <1>1
  <2> QED BY <2>2, <2>4, <2>8, <2>10, <2>11
<1>7. CASE /\ watcherBlock' = StoredBlock(s)
           /\ cwExcuse' = IF p = "backfiller" THEN cwExcuse \union JumpedOver(s.block) ELSE cwExcuse
           /\ Proceed(p, s)
  <2> DEFINE t == Onward(s)
             j == JumpedOver(s.block)
  <2>1. /\ Moved(p, t) /\ t.pc # "store" /\ Behind(watcherKind, p, t, s.block)
        /\ ReachOf(watcherKind, p, t) <= ReachOf(watcherKind, p, s)
    BY <1>6, <1>7
  <2>2. j \subseteq CwBlocks
    <3> DEFINE c == GetCurrentBlock
    <3>1. c \in CwBlocks BY <1>4, CwAssumption DEF GetCurrentBlock, CwBlocks, NoWatcherBlock
    <3> HIDE DEF c
    <3>2. c .. s.block \subseteq CwBlocks BY <1>3, <3>1, CwAssumption DEF CwBlocks
    <3>3. j = IF s.block <= c THEN {} ELSE (c .. s.block) \ processed BY DEF JumpedOver, c
    <3> QED BY <3>2, <3>3
  <2>3. t \in Process /\ s \in Process BY <1>1, <2>1 DEF Moved
  <2> DEFINE r == ReachOf(watcherKind, p, s)
             q == ReachOf(watcherKind, p, t)
  <2>4. r \in Nat /\ q \in Nat /\ q <= r BY <2>1, <2>3, ReachInt
  <2> HIDE DEF r, q, j, t
  <2>5. \A b \in CwBlocks : b < q => b < r BY <2>4, CwAssumption DEF CwBlocks
  <2>6. watcherBlock' = s.block BY <1>7 DEF StoredBlock
  <2>7. /\ cwExcuse \subseteq cwExcuse' /\ cwExcuse' \subseteq CwBlocks
        /\ p = "backfiller" => j \subseteq cwExcuse'
        /\ p # "backfiller" => cwExcuse' = cwExcuse
    BY <1>4, <1>7, <2>2 DEF j
  <2>8. StepOf(p, t)
    BY <1>1, <1>2, <1>4, <2>1, <2>3, <2>5, <2>6, <2>7 DEF StepOf, Moved, r, q, j
  <2> QED BY <2>8
<1>8. CASE /\ UNCHANGED <<watcherBlock, cwExcuse>>
           /\ IF watcherKind \in {"evm", "aptos"} /\ ~Exhausted(s)
              THEN running' = [running EXCEPT ![p].pc = "block", ![p].tries = @ + 1] ELSE Proceed(p, s)
  <2>1. CASE Proceed(p, s)
    <3>1. StepOf(p, Onward(s)) BY <1>2, <1>4, <1>6, <1>8, <2>1, PlainStep
    <3> QED BY <3>1
  <2>2. CASE ~Exhausted(s) /\ running' = [running EXCEPT ![p].pc = "block", ![p].tries = @ + 1]
    <3> DEFINE t == [s EXCEPT !.pc = "block", !.tries = @ + 1]
    <3>1. running' = [running EXCEPT ![p] = t]
      <4>1. running \in [Processes -> Process] BY DEF CwTyped
      <4> QED BY <2>2, <4>1, Zenon
    <3>2. t = [running[p] EXCEPT !.pc = "block", !.tries = @ + 1] OBVIOUS
    <3> HIDE DEF t
    <3>3. Moved(p, t) /\ t.pc = "block" /\ ReachOf(watcherKind, p, t) <= ReachOf(watcherKind, p, s)
      BY <1>1, <1>2, <2>2, <3>1, <3>2, RetryOK
    <3>4. StepOf(p, t) BY <1>2, <1>4, <1>8, <3>3, PlainStep
    <3> QED BY <3>4
  <2> QED BY <1>8, <2>1, <2>2
<1> QED BY <1>7, <1>8 DEF UpdateWatcherBlock

------------------------------------------------------------------------------
(* contract-watcher: the invariants.                                        *)

\* What the service has behind it, in memory or in watcherBlocks, is dealt with.
Covered ==
    \A b \in CwBlocks :
        InitialBlock <= b /\ (b < ReachOf(watcherKind, "service", running["service"]) \/ b <= watcherBlock)
            => b \in Done

ToStore == \A p \in Processes : running[p].pc = "store" => running[p].block \in Done /\ Persists(p)

Ahead == ~persistBlock => Behind(watcherKind, "service", running["service"], watcherBlock)

TerraReads == watcherKind = "terra" /\ ~persistBlock => cwExcuse \subseteq processed

Statuses == destination \in [DOMAIN Redeemed -> {"absent", "unknown", "failed", "completed"}]

CwInv == CwTyped /\ Covered /\ ToStore /\ Ahead /\ TerraReads /\ Statuses /\ StatusTruthful

LEMMA CwInitInv == CwInit => CwInv
<1> SUFFICES ASSUME CwInit PROVE CwInv OBVIOUS
<1>1. running \in [Processes -> Process] /\ \A p \in Processes : running[p] = Down BY DownOK DEF CwInit
<1>2. \A p \in Processes : ProcessOK(watcherKind, p, running[p], cwTop) BY <1>1, DownOK DEF ProcessOK
<1>3. CwTyped BY <1>1, <1>2, CwAssumption DEF CwInit, CwTyped
<1>4. \A p \in Processes : running[p].pc = "down" /\ ReachOf(watcherKind, p, running[p]) = 0
  BY <1>1, DownOK DEF ReachOf
<1>5. "service" \in Processes BY DEF Processes
<1>6. \A b \in CwBlocks : ~(b < 0) /\ ~(b <= NoWatcherBlock) BY CwAssumption DEF CwBlocks, NoWatcherBlock
<1>7. Covered BY <1>4, <1>5, <1>6 DEF Covered, CwInit
<1>8. ToStore /\ Ahead /\ TerraReads BY <1>4, <1>5 DEF ToStore, Ahead, Behind, TerraReads, CwInit
<1>9. Statuses /\ StatusTruthful BY DEF Statuses, StatusTruthful, CwInit
<1> QED BY <1>3, <1>7, <1>8, <1>9 DEF CwInv

\* The invariants but those of the statuses survive a step of a process,
LEMMA StepInv ==
    ASSUME CwTyped, Covered, ToStore, Ahead, TerraReads, NEW p \in Processes, NEW t, StepOf(p, t)
    PROVE  /\ CwTyped' /\ Covered' /\ ToStore' /\ Ahead' /\ TerraReads'
           /\ ~persistBlock => watcherBlock' >= watcherBlock
<1> DEFINE s == running[p]
<1>1. running \in [Processes -> Process] /\ t \in Process BY DEF CwTyped, StepOf
<1>2. running'[p] = t /\ running' \in [Processes -> Process]
      /\ \A o \in Processes : o # p => running'[o] = running[o]
  BY <1>1 DEF StepOf
<1>3. "service" \in Processes BY DEF Processes
<1>4. processed \subseteq processed' /\ cwExcuse \subseteq cwExcuse' /\ Done \subseteq Done'
  BY DEF StepOf, Done
<1>5. UNCHANGED <<watcherKind, persistBlock, cwTop>> BY DEF StepOf
<1>6. watcherBlock \in Int /\ watcherBlock \in CwBlocks \union {NoWatcherBlock}
  BY CwAssumption DEF CwTyped, CwBlocks, NoWatcherBlock
<1>7. s.pc = "store" => s.block \in CwBlocks /\ s.block \in Nat /\ s.block <= s.upto /\ s.upto \in Nat
  BY BlockFacts, ProcessFacts DEF ProcessOK
<1>8. watcherBlock' \in CwBlocks \union {NoWatcherBlock} BY <1>6, <1>7 DEF StepOf
<1>9. CwTyped'
  <2>1. ProcessOK(watcherKind, p, t, cwTop) BY DEF StepOf
  <2>2. \A o \in Processes : ProcessOK(watcherKind, o, running'[o], cwTop)
    <3> SUFFICES ASSUME NEW o \in Processes PROVE ProcessOK(watcherKind, o, running'[o], cwTop) OBVIOUS
    <3>1. CASE o = p BY <1>2, <2>1, <3>1
    <3>2. CASE o # p
      <4>1. running'[o] = running[o] BY <1>2, <3>2
      <4>2. ProcessOK(watcherKind, o, running[o], cwTop) BY DEF CwTyped
      <4> QED BY <4>1, <4>2, Zenon
    <3> QED BY <3>1, <3>2
  <2>3. \A o \in Processes : ProcessOK(watcherKind, o, running[o], cwTop)' BY <1>5, <2>2 DEF ProcessOK, InPage, NextOf
  <2>4. processed' \subseteq CwBlocks /\ cwExcuse' \subseteq CwBlocks BY DEF StepOf
  <2>5. cwTop \in InitialBlock..MaxCwBlock /\ persistBlock \in BOOLEAN BY DEF CwTyped
  <2> QED BY <1>2, <1>5, <1>8, <2>3, <2>4, <2>5 DEF CwTyped
<1> DEFINE q == ReachOf(watcherKind, "service", running["service"])
           r == ReachOf(watcherKind, "service", running'["service"])
<1>10. q \in Nat /\ r \in Nat BY <1>1, <1>2, <1>3, ReachInt
<1>11. r = ReachOf(watcherKind, "service", running["service"])' BY <1>5 DEF ReachOf, NextOf
<1>12. p # "service" => r = q BY <1>2, <1>3
<1>13. p = "service" =>
          \A b \in CwBlocks : InitialBlock <= b /\ b < r => b < q \/ b <= watcherBlock \/ b \in Done'
  BY <1>2 DEF StepOf
<1>14. \A b \in CwBlocks : InitialBlock <= b /\ (b < q \/ b <= watcherBlock) => b \in Done'
  BY <1>4 DEF Covered
<1> HIDE DEF q, r
\* The stored block leaves nothing behind:
<1>15. \A b \in CwBlocks : InitialBlock <= b /\ b <= watcherBlock' => b \in Done'
  <2> SUFFICES ASSUME NEW b \in CwBlocks, InitialBlock <= b, b <= watcherBlock' PROVE b \in Done' OBVIOUS
  <2>1. CASE watcherBlock' = watcherBlock BY <1>14, <2>1
  <2>2. CASE s.pc = "store" /\ watcherBlock' = s.block
    <3>0. b \in Nat /\ InitialBlock \in Nat BY CwAssumption DEF CwBlocks
    <3>1. CASE p = "service"
      <4>1. q = s.upto + 1 BY <2>2, <3>1 DEF q, ReachOf
      <4>2. b < q BY <1>7, <2>2, <3>0, <4>1
      <4> QED BY <1>14, <4>2
    <3>2. CASE p # "service" /\ s.block \in Done /\ watcherBlock' # watcherBlock
      <4> DEFINE c == GetCurrentBlock
      <4>1. p = "backfiller" BY <3>2 DEF Processes
      <4>2. (IF s.block <= c THEN {} ELSE (c .. s.block) \ processed) \subseteq cwExcuse'
        BY <2>2, <3>2, <4>1 DEF StepOf, JumpedOver
      <4>3. c \in Nat /\ (c = watcherBlock \/ c = InitialBlock)
        BY <1>6, CwAssumption DEF GetCurrentBlock, CwBlocks, NoWatcherBlock
      <4> HIDE DEF c
      <4>4. CASE c <= b
        <5>1. CASE b = s.block BY <1>4, <3>2, <5>1
        <5>2. CASE b # s.block
          <6>1. b < s.block /\ ~(s.block <= c) /\ b \in c .. s.block
            BY <1>7, <2>2, <3>0, <4>3, <4>4, <5>2
          <6>2. b \in processed \/ b \in cwExcuse' BY <4>2, <6>1
          <6> QED BY <1>4, <6>2 DEF Done
        <5> QED BY <5>1, <5>2
      <4>5. CASE ~(c <= b)
        <5>1. b <= watcherBlock BY <3>0, <4>3, <4>5, <1>6
        <5> QED BY <1>14, <5>1
      <4> QED BY <4>4, <4>5
    <3>3. s.block \in Done BY <2>2 DEF ToStore
    <3> QED BY <2>1, <3>1, <3>2, <3>3
  <2> QED BY <2>1, <2>2 DEF StepOf
<1>16. Covered'
  <2>1. \A b \in CwBlocks : InitialBlock <= b /\ b < r => b \in Done'
    BY <1>12, <1>13, <1>14
  <2> QED BY <1>11, <1>15, <2>1 DEF Covered
<1>17. ToStore'
  <2> SUFFICES ASSUME NEW o \in Processes, running'[o].pc = "store"
               PROVE  running'[o].block \in Done' /\ Persists(o)'
    BY DEF ToStore
  <2>1. CASE o = p BY <1>2, <1>5, <2>1 DEF StepOf, Persists
  <2>2. CASE o # p BY <1>2, <1>4, <1>5, <2>2 DEF ToStore, Persists
  <2> QED BY <2>1, <2>2
<1>18. TerraReads' BY <1>4, <1>5 DEF TerraReads, StepOf, ToStore, Persists
<1>19. ~persistBlock => watcherBlock' >= watcherBlock
  <2>1. CASE watcherBlock' = watcherBlock BY <1>6, <2>1
  <2>2. CASE ~persistBlock /\ s.pc = "store" /\ watcherBlock' = s.block
    <3>1. p = "service" BY <2>2 DEF ToStore, Persists
    <3>2. watcherBlock <= s.block BY <2>2, <3>1 DEF Ahead, Behind
    <3> QED BY <1>6, <1>7, <2>2, <3>2
  <2> QED BY <2>1, <2>2 DEF StepOf
<1>20. Ahead'
  <2> SUFFICES ASSUME ~persistBlock PROVE Behind(watcherKind, "service", running'["service"], watcherBlock')
    BY <1>5 DEF Ahead, Behind, NextOf
  <2>1. CASE p = "service" BY <1>2, <2>1 DEF StepOf, Ahead
  <2>2. CASE p # "service"
    <3>1. running'["service"] = running["service"] BY <1>2, <1>3, <2>2
    <3>2. watcherBlock' = watcherBlock BY <2>2 DEF StepOf, ToStore, Persists
    <3>3. Behind(watcherKind, "service", running["service"], watcherBlock) BY DEF Ahead
    <3> QED BY <3>1, <3>2, <3>3, Zenon
  <2> QED BY <2>1, <2>2
<1> QED BY <1>9, <1>16, <1>17, <1>18, <1>19, <1>20

\* and that is what every step is, but the chain's.
LEMMA CwSteps ==
    ASSUME CwTyped, CwNext, ~CwGrow
    PROVE  \E p \in Processes : \E t : StepOf(p, t)
<1>0. "service" \in Processes /\ "backfiller" \in Processes BY DEF Processes
<1>1. ASSUME NEW p \in Processes, CwStep(p) PROVE \E t : StepOf(p, t)
  <2>1. CASE NextPage(p) BY <2>1, NextPageStep
  <2>2. CASE EndRound(p) BY <2>2, EndRoundStep
  <2>3. CASE UpdateWatcherBlock(p) BY <2>3, UpdateWatcherBlockStep
  <2>4. CASE EvmProcessBlock(p) BY <2>4, ReadBlockStep DEF EvmProcessBlock, EvmProcessTransaction
  <2>5. CASE AptosProcessBlock(p) BY <2>5, ReadBlockStep DEF AptosProcessBlock, AptosProcessTransaction
  <2>6. CASE SolanaProcessBlock(p) BY <2>6, ReadBlockStep DEF SolanaProcessBlock, SolanaProcessTransaction
  <2>7. CASE TerraProcessBlock(p) BY <2>7, ReadBlockStep DEF TerraProcessBlock, TerraProcessTransactions
  <2>8. CASE GetTransactionsByAddress(p) BY <2>8, AnkrStep
  <2>9. CASE EvmPanics(p) BY <2>9, EvmPanicsStep
  <2> QED BY <1>1, <2>1, <2>2, <2>3, <2>4, <2>5, <2>6, <2>7, <2>8, <2>9 DEF CwStep
<1>2. ASSUME CwService PROVE \E t : StepOf("service", t)
  <2>1. CASE StartService BY <2>1, StartServiceStep
  <2>2. CASE CwStep("service") BY <1>0, <1>1, <2>2
  <2>3. CASE EvmStandardStart BY <2>3, GetLatestBlockStep DEF EvmStandardStart
  <2>4. CASE AptosStart BY <2>4, GetLatestBlockStep DEF AptosStart
  <2>5. CASE SolanaStart BY <2>5, GetLatestBlockStep DEF SolanaStart
  <2>6. CASE TerraStart BY <2>6, GetLatestBlockStep DEF TerraStart
  <2>7. CASE AnkrStart BY <2>7, GetLatestBlockStep DEF AnkrStart
  <2> QED BY <1>2, <2>1, <2>2, <2>3, <2>4, <2>5, <2>6, <2>7 DEF CwService
<1>3. ASSUME NEW p \in Processes, NEW error, EvmGetBlockFails(p, error) \/ AptosGetBlockFails(p, error)
      PROVE  \E t : StepOf(p, t)
  <2>1. PICK kind \in {"evm", "aptos"} :
           /\ BlockUnread(p, kind)
           /\ \/ Forget({running[p].block}) /\ PassOver(p)
              \/ ~Exhausted(running[p]) /\ Retry(p)
    BY <1>3 DEF EvmGetBlockFails, AptosGetBlockFails
  <2> QED BY <2>1, GetBlockFailsStep, BlockRetryStep
<1>4. ASSUME NEW p \in Processes, SolanaGetBlockFails(p)
      PROVE  \E t : StepOf(p, t)
  BY <1>4, GetBlockFailsStep, BlockRetryStep DEF SolanaGetBlockFails
<1>5. ASSUME NEW p \in Processes, TerraGetBlockFails(p)
      PROVE  \E t : StepOf(p, t)
  <2> DEFINE s == running[p]
  <2>1. running' = [running EXCEPT ![p] = s]
    <3>1. running' = running BY <1>5 DEF TerraGetBlockFails
    <3>2. running \in [Processes -> Process] BY DEF CwTyped
    <3> QED BY <3>1, <3>2, Zenon
  <2>2. s \in Process /\ ProcessOK(watcherKind, p, s, cwTop) /\ s.pc = "block"
    BY <1>5, ProcessFacts DEF TerraGetBlockFails, BlockUnread
  <2>3. ReachOf(watcherKind, p, s) <= ReachOf(watcherKind, p, s)
    <3>1. ReachOf(watcherKind, p, s) \in Nat BY <2>2, ReachInt
    <3> QED BY <3>1
  <2>4. Moved(p, s) BY <1>5, <2>1, <2>2 DEF Moved, TerraGetBlockFails, BlockUnread
  <2>5. StepOf(p, s) BY <1>5, <2>2, <2>3, <2>4, PlainStep DEF TerraGetBlockFails, BlockUnread, CwTyped
  <2> QED BY <2>5
<1>6. ASSUME NEW p \in Processes, GetTransactionsByAddressFails(p)
      PROVE  \E t : StepOf(p, t)
  BY <1>6, AnkrFailsStep
<1> QED
  BY <1>0, <1>1, <1>2, <1>3, <1>4, <1>5, <1>6, StartServiceFailsStep, StartBackfillerStep, CwCrashStep DEF CwNext

LEMMA GrowInv ==
    ASSUME CwTyped, Covered, ToStore, Ahead, TerraReads, CwGrow
    PROVE  /\ CwTyped' /\ Covered' /\ ToStore' /\ Ahead' /\ TerraReads'
           /\ watcherBlock' >= watcherBlock
<1>1. UNCHANGED <<watcherKind, persistBlock, watcherBlock, running, processed, cwExcuse>> /\ cwTop' = cwTop + 1
      /\ cwTop < MaxCwBlock
  BY DEF CwGrow
<1>2. cwTop \in InitialBlock .. MaxCwBlock /\ InitialBlock \in Nat /\ MaxCwBlock \in Nat
  BY CwAssumption DEF CwTyped
<1>3. cwTop' \in InitialBlock .. MaxCwBlock /\ \A x \in Nat : x <= cwTop => x <= cwTop' BY <1>1, <1>2
<1>4. ASSUME NEW p \in Processes PROVE ProcessOK(watcherKind, p, running[p], cwTop')
  <2>1. running[p] \in Process /\ ProcessOK(watcherKind, p, running[p], cwTop) /\ running[p].last \in Nat
    BY ProcessFacts
  <2>2. running[p].last <= cwTop => running[p].last <= cwTop' BY <1>3, <2>1
  <2> QED BY <2>1, <2>2 DEF ProcessOK, InPage
<1>5. \A p \in Processes : ProcessOK(watcherKind, p, running[p], cwTop)'
  BY <1>1, <1>4 DEF ProcessOK, InPage, NextOf
<1>6. CwTyped' BY <1>1, <1>3, <1>5 DEF CwTyped
<1>7. Covered' /\ ToStore' /\ Ahead' /\ TerraReads'
  BY <1>1 DEF Covered, ToStore, Ahead, TerraReads, Done, ReachOf, NextOf, Behind, Persists
<1>8. watcherBlock' >= watcherBlock
  BY <1>1, CwAssumption DEF CwTyped, CwBlocks, NoWatcherBlock
<1> QED BY <1>6, <1>7, <1>8

\* The statuses of the blocks of bs are written, f[b] for b; one that is not written
\* is forgotten.
LEMMA StatusRead ==
    ASSUME Statuses, StatusTruthful, NEW bs, NEW f,
           UpdateGlobalTransactions(bs, f), processed' = processed \union bs, cwExcuse \subseteq cwExcuse',
           \A b \in DOMAIN Redeemed : /\ f[b] \in {Truth(b), "unknown", "none"}
                                      /\ f[b] = "none" /\ b \in bs => b \in cwExcuse'
    PROVE  Statuses' /\ StatusTruthful'
<1>1. ASSUME NEW b \in DOMAIN Redeemed
      PROVE  /\ destination'[b] = IF b \in bs /\ ShouldBeUpdated(destination[b], f[b]) THEN f[b] ELSE destination[b]
             /\ Truth(b) \in {"completed", "failed"}
             /\ destination[b] \in {"absent", "unknown", Truth(b)}
             /\ b \in processed /\ b \notin cwExcuse => destination[b] # "absent"
  BY DEF UpdateGlobalTransactions, Truth, StatusTruthful
<1>2. ASSUME NEW b \in DOMAIN Redeemed
      PROVE  /\ destination'[b] \in {"absent", "unknown", Truth(b)}
             /\ b \in processed' /\ b \notin cwExcuse' => destination'[b] # "absent"
  <2>1. f[b] \in {Truth(b), "unknown", "none"} /\ (f[b] = "none" /\ b \in bs => b \in cwExcuse') OBVIOUS
  <2>2. CASE b \in bs /\ ShouldBeUpdated(destination[b], f[b])
    BY <1>1, <2>1, <2>2 DEF ShouldBeUpdated
  <2>3. CASE ~(b \in bs /\ ShouldBeUpdated(destination[b], f[b]))
    <3>1. destination'[b] = destination[b] BY <1>1, <2>3
    <3>2. b \in bs /\ f[b] # "none" => destination[b] # "absent" BY <1>1, <2>1, <2>3 DEF ShouldBeUpdated
    <3> QED BY <1>1, <2>1, <3>1, <3>2
  <2> QED BY <2>2, <2>3
<1>3. destination' \in [DOMAIN Redeemed -> {"absent", "unknown", "failed", "completed"}]
  <2>1. \A b \in DOMAIN Redeemed : destination'[b] \in {"absent", "unknown", "failed", "completed"}
    BY <1>1, <1>2
  <2>2. destination' = [b \in DOMAIN Redeemed |-> destination'[b]] BY DEF UpdateGlobalTransactions
  <2> QED BY <2>1, <2>2
<1>4. \A b \in DOMAIN Redeemed : Truth(b)' = Truth(b) BY DEF Truth
<1> QED BY <1>2, <1>3, <1>4 DEF Statuses, StatusTruthful

LEMMA StatusKept ==
    ASSUME Statuses, StatusTruthful, UNCHANGED <<destination, processed>>, cwExcuse \subseteq cwExcuse'
    PROVE  Statuses' /\ StatusTruthful'
BY DEF Statuses, StatusTruthful, Truth

LEMMA StatusRecord ==
    ASSUME Statuses, StatusTruthful, NEW bs, processed' = processed \union bs,
           Record(bs) \/ \E b \in bs, status \in {"none", "unknown"} : RecordBut(b, bs, status)
    PROVE  Statuses' /\ StatusTruthful'
<1>1. CASE Record(bs)
  <2> DEFINE f == [b \in DOMAIN Redeemed |-> Truth(b)]
  <2>1. UpdateGlobalTransactions(bs, f) /\ cwExcuse' = cwExcuse BY <1>1 DEF Record
  <2>2. \A b \in DOMAIN Redeemed : f[b] = Truth(b) /\ Truth(b) # "none" BY DEF Truth
  <2> HIDE DEF f
  <2> QED BY <2>1, <2>2, StatusRead
<1>2. ASSUME NEW c \in bs, NEW status \in {"none", "unknown"}, RecordBut(c, bs, status)
      PROVE  Statuses' /\ StatusTruthful'
  <2> DEFINE f == [b \in DOMAIN Redeemed |-> IF b = c THEN status ELSE Truth(b)]
  <2>1. /\ UpdateGlobalTransactions(bs, f)
        /\ cwExcuse' = IF status = "none" THEN cwExcuse \union {c} ELSE cwExcuse
    BY <1>2 DEF RecordBut
  <2>2. \A b \in DOMAIN Redeemed : /\ f[b] = IF b = c THEN status ELSE Truth(b)
                                   /\ Truth(b) # "none"
    BY DEF Truth
  <2> HIDE DEF f
  <2>3. \A b \in DOMAIN Redeemed : /\ f[b] \in {Truth(b), "unknown", "none"}
                                   /\ f[b] = "none" /\ b \in bs => b \in cwExcuse'
    BY <2>1, <2>2
  <2>4. cwExcuse \subseteq cwExcuse' BY <2>1
  <2> QED BY <2>1, <2>3, <2>4, StatusRead
<1> QED BY <1>1, <1>2

\* A redeem is written of a block that is not read to its end.
LEMMA StatusWritten ==
    ASSUME Statuses, StatusTruthful, NEW c, EvmProcessTransaction(c), UNCHANGED processed
    PROVE  Statuses' /\ StatusTruthful'
<1>1. PICK f : /\ UpdateGlobalTransactions({c}, f)
               /\ \A b \in DOMAIN Redeemed : f[b] \in {Truth(b), "unknown", "none"}
  <2>1. CASE Record({c})
    <3> DEFINE f == [b \in DOMAIN Redeemed |-> Truth(b)]
    <3>1. UpdateGlobalTransactions({c}, f) /\ \A b \in DOMAIN Redeemed : f[b] \in {Truth(b), "unknown", "none"}
      BY <2>1 DEF Record
    <3> HIDE DEF f
    <3> QED BY <3>1
  <2>2. ASSUME NEW status \in {"none", "unknown"}, RecordBut(c, {c}, status)
        PROVE  \E f : /\ UpdateGlobalTransactions({c}, f)
                       /\ \A b \in DOMAIN Redeemed : f[b] \in {Truth(b), "unknown", "none"}
    <3> DEFINE f == [b \in DOMAIN Redeemed |-> IF b = c THEN status ELSE Truth(b)]
    <3>1. UpdateGlobalTransactions({c}, f) /\ \A b \in DOMAIN Redeemed : f[b] \in {Truth(b), "unknown", "none"}
      BY <2>2 DEF RecordBut
    <3> HIDE DEF f
    <3> QED BY <3>1
  <2> QED BY <2>1, <2>2 DEF EvmProcessTransaction
<1>2. cwExcuse \subseteq cwExcuse' BY DEF EvmProcessTransaction, Record, RecordBut
<1>3. ASSUME NEW b \in DOMAIN Redeemed
      PROVE  /\ destination'[b] \in {"absent", "unknown", Truth(b)}
             /\ b \in processed' /\ b \notin cwExcuse' => destination'[b] # "absent"
  <2>1. /\ destination'[b] = IF b \in {c} /\ ShouldBeUpdated(destination[b], f[b]) THEN f[b] ELSE destination[b]
        /\ destination[b] \in {"absent", "unknown", Truth(b)} /\ f[b] \in {Truth(b), "unknown", "none"}
        /\ b \in processed /\ b \notin cwExcuse => destination[b] # "absent"
        /\ Truth(b) \in {"completed", "failed"}
    BY <1>1 DEF UpdateGlobalTransactions, StatusTruthful, Truth
  <2> QED BY <1>2, <2>1 DEF ShouldBeUpdated
<1>4. destination' \in [DOMAIN Redeemed -> {"absent", "unknown", "failed", "completed"}]
  <2>1. \A b \in DOMAIN Redeemed : destination'[b] \in {"absent", "unknown", "failed", "completed"}
    BY <1>3 DEF Truth
  <2>2. destination' = [b \in DOMAIN Redeemed |-> destination'[b]] BY <1>1 DEF UpdateGlobalTransactions
  <2> QED BY <2>1, <2>2
<1>5. \A b \in DOMAIN Redeemed : Truth(b)' = Truth(b) BY DEF Truth
<1> QED BY <1>3, <1>4, <1>5 DEF Statuses, StatusTruthful

LEMMA StatusInv ==
    ASSUME Statuses, StatusTruthful, CwNext
    PROVE  Statuses' /\ StatusTruthful'
<1>1. ASSUME NEW p, NEW kind, ReadBlock(p, kind),
             \/ Record({running[p].block})
             \/ \E status \in {"none", "unknown"} : RecordBut(running[p].block, {running[p].block}, status)
      PROVE  Statuses' /\ StatusTruthful'
  <2> DEFINE b == running[p].block
             bs == {b}
  <2>1. processed' = processed \union bs BY <1>1 DEF ReadBlock
  <2>2. b \in bs OBVIOUS
  <2>3. Record(bs) \/ \E status \in {"none", "unknown"} : RecordBut(b, bs, status) BY <1>1
  <2> HIDE DEF b, bs
  <2> QED BY <2>1, <2>2, <2>3, StatusRecord
<1>2. ASSUME NEW p, GetTransactionsByAddress(p) PROVE Statuses' /\ StatusTruthful'
  <2>1. PICK bs : AnkrProcessTransactions(bs) /\ processed' = processed \union bs
    BY <1>2, Zenon DEF GetTransactionsByAddress
  <2> QED BY <2>1, StatusRecord DEF AnkrProcessTransactions
<1>3. ASSUME NEW p, CwStep(p) PROVE Statuses' /\ StatusTruthful'
  <2>1. CASE NextPage(p) \/ EndRound(p) BY <2>1, StatusKept DEF NextPage, EndRound
  <2>2. CASE UpdateWatcherBlock(p) BY <2>2, StatusKept DEF UpdateWatcherBlock
  <2>3. CASE EvmProcessBlock(p) BY <1>1, <2>3 DEF EvmProcessBlock, EvmProcessTransaction
  <2>4. CASE AptosProcessBlock(p) BY <1>1, <2>4 DEF AptosProcessBlock, AptosProcessTransaction
  <2>5. CASE SolanaProcessBlock(p) BY <1>1, <2>5 DEF SolanaProcessBlock, SolanaProcessTransaction
  <2>6. CASE TerraProcessBlock(p) BY <1>1, <2>6 DEF TerraProcessBlock, TerraProcessTransactions
  <2>7. CASE GetTransactionsByAddress(p) BY <1>2, <2>7
  <2>8. CASE EvmPanics(p)
    <3>1. CASE UNCHANGED <<destination, cwExcuse, cwFaults>> BY <2>8, <3>1, StatusKept DEF EvmPanics
    <3>2. CASE EvmProcessTransaction(running[p].block) BY <2>8, <3>2, StatusWritten DEF EvmPanics
    <3> QED BY <2>8, <3>1, <3>2 DEF EvmPanics
  <2> QED BY <1>3, <2>1, <2>2, <2>3, <2>4, <2>5, <2>6, <2>7, <2>8 DEF CwStep
<1>4. CASE CwService
  <2>1. CASE StartService BY <2>1, StatusKept DEF StartService
  <2>2. CASE CwStep("service") BY <1>3, <2>2
  <2>3. CASE EvmStandardStart \/ AptosStart \/ SolanaStart \/ TerraStart \/ AnkrStart
    BY <2>3, StatusKept DEF EvmStandardStart, AptosStart, SolanaStart, TerraStart, AnkrStart, GetLatestBlock
  <2> QED BY <1>4, <2>1, <2>2, <2>3 DEF CwService
<1>5. CASE CwGrow \/ StartServiceFails \/ StartBackfiller \/ CwCrash
  BY <1>5, StatusKept DEF CwGrow, StartServiceFails, StartBackfiller, CwCrash
<1>6. ASSUME NEW p, NEW error, EvmGetBlockFails(p, error) \/ AptosGetBlockFails(p, error) \/ SolanaGetBlockFails(p)
                               \/ TerraGetBlockFails(p) \/ GetTransactionsByAddressFails(p)
      PROVE  Statuses' /\ StatusTruthful'
  <2>1. UNCHANGED <<destination, processed>>
    BY <1>6 DEF EvmGetBlockFails, AptosGetBlockFails, SolanaGetBlockFails, TerraGetBlockFails,
                GetTransactionsByAddressFails, BlockUnread
  <2>2. cwExcuse \subseteq cwExcuse'
    BY <1>6 DEF EvmGetBlockFails, AptosGetBlockFails, SolanaGetBlockFails, TerraGetBlockFails,
                GetTransactionsByAddressFails, Forget, Retry
  <2> QED BY <2>1, <2>2, StatusKept
<1> QED BY <1>3, <1>4, <1>5, <1>6 DEF CwNext

LEMMA CwNextInv ==
    ASSUME CwInv, CwNext
    PROVE  CwInv' /\ (~persistBlock => watcherBlock' >= watcherBlock)
<1>1. Statuses' /\ StatusTruthful' BY StatusInv DEF CwInv
<1>2. CASE CwGrow BY <1>1, <1>2, GrowInv DEF CwInv
<1>3. CASE ~CwGrow
  <2>1. PICK p \in Processes : \E t : StepOf(p, t) BY <1>3, CwSteps DEF CwInv
  <2> QED BY <1>1, <2>1, StepInv DEF CwInv
<1> QED BY <1>2, <1>3

LEMMA CwSame == ASSUME CwInv, UNCHANGED cwVars PROVE CwInv'
<1>1. UNCHANGED <<watcherKind, persistBlock, cwTop, watcherBlock, running, destination, processed, cwExcuse>>
  BY DEF cwVars
<1>2. \A p \in Processes : ProcessOK(watcherKind, p, running[p], cwTop) =>
                            ProcessOK(watcherKind, p, running[p], cwTop)'
  BY <1>1 DEF ProcessOK, InPage, NextOf
<1>3. CwTyped' BY <1>1, <1>2 DEF CwInv, CwTyped
<1>4. Statuses' /\ StatusTruthful' BY <1>1, StatusKept DEF CwInv
<1>5. Covered' /\ ToStore' /\ Ahead' /\ TerraReads'
  BY <1>1 DEF CwInv, Covered, ToStore, Ahead, TerraReads, Done, ReachOf, NextOf, Behind, Persists
<1> QED BY <1>3, <1>4, <1>5 DEF CwInv

LEMMA CwInvImplies == ASSUME CwInv PROVE CwTypeOK /\ NoBlockForgotten /\ StatusTruthful
<1>1. CwTypeOK
  <2>1. \A p \in Processes :
           /\ running[p].pc \in {"down", "latest", "advance", "page", "block", "store", "done", "ended"}
           /\ running[p].pc \in {"block", "store"} =>
                 /\ running[p].block <= running[p].to /\ running[p].upto <= running[p].to
                 /\ running[p].to <= running[p].last /\ running[p].tries < Attempts
    BY DEF CwInv, CwTyped, ProcessOK, InPage, Process, Pcs
  <2>2. processed \union cwExcuse \subseteq CwBlocks BY DEF CwInv, CwTyped
  <2> QED BY <2>1, <2>2 DEF CwInv, CwTyped, Statuses, CwTypeOK
<1>2. NoBlockForgotten BY DEF CwInv, Covered, TerraReads, Done, NoBlockForgotten
<1> QED BY <1>1, <1>2 DEF CwInv
------------------------------------------------------------------------------
(* The service that is deployed.                                            *)

WatchersInv == CwInv /\ EwInv

LEMMA WatchersInitInv == MCInit => WatchersInv
BY CwInitInv, EwInitInv DEF MCInit, WatchersInv

LEMMA WatchersNextInv ==
    WatchersInv /\ [ContractWatcher(CwNext) \/ EventWatcherDoes(EwNext)]_allVars => WatchersInv'
<1> SUFFICES ASSUME WatchersInv, [ContractWatcher(CwNext) \/ EventWatcherDoes(EwNext)]_allVars
             PROVE  WatchersInv'
  OBVIOUS
<1>1. CASE ContractWatcher(CwNext) BY <1>1, CwNextInv, EwSame DEF ContractWatcher, WatchersInv
<1>2. CASE EventWatcherDoes(EwNext) BY <1>2, EwNextInv, CwSame DEF EventWatcherDoes, WatchersInv
<1>3. CASE UNCHANGED allVars BY <1>3, CwSame, EwSame DEF allVars, WatchersInv
<1> QED BY <1>1, <1>2, <1>3

LEMMA WatchersInvariant == MCSpec => []WatchersInv
BY WatchersInitInv, WatchersNextInv, PTL DEF MCSpec

\* Whatever the chain, the pages, the backfiller and the failures, the stored block of
\* contract-watcher leaves no block behind that was not read, given up for an error or
\* skipped with a reason, and no process of either service leaves the range it was given.
THEOREM BlocksNeverForgotten == MCSpec => []BlocksAccounted
<1>1. WatchersInv => BlocksAccounted BY CwInvImplies, EwInvImplies DEF WatchersInv, BlocksAccounted
<1> QED BY <1>1, WatchersInvariant, PTL

\* A redeem transaction of a block that contract-watcher has read has a status, that of
\* the chain or unknown, unless a call failed; a redeemed transfer behind event-watcher's
\* last block has a destinationTx, unless a call failed or another service inserted a
\* document of the same round in between: tx-tracker and contract-watcher write the same
\* documents.
THEOREM RedeemsStayRecorded == MCSpec => []RedeemsRecorded
<1>1. WatchersInv => RedeemsRecorded BY CwInvImplies, EwInvImplies DEF WatchersInv, RedeemsRecorded
<1> QED BY <1>1, WatchersInvariant, PTL

\* With each of the readers of event-watcher (by range, block after block, by offset, by
\* cursor, backwards), every message up to the last block is in wormholeTxs or lost in a
\* way that is known, and nothing is published that is neither; what failed to be stored
\* may be.
THEOREM MessagesNeverForgotten == MCSpec => []NoMessageForgotten
<1>1. WatchersInv => NoMessageForgotten BY EwInvImplies DEF WatchersInv
<1> QED BY <1>1, WatchersInvariant, PTL

\* event-watcher stores messages of arbitrum only when the L1 block of their L2 block is
\* final, although it knows of the pairs only those it happened to be told.  Nothing is
\* said of the other chains, whose messages are stored as their node reports them.
THEOREM OnlyFinalizedStored == MCSpec => []OnlyFinalized
<1>1. WatchersInv => OnlyFinalized BY EwInvImplies DEF WatchersInv
<1> QED BY <1>1, WatchersInvariant, PTL

\* No step of either service sets its stored block back, except a backfiller that stores
\* blocks, or an event-watcher that was started without being able to read it.
THEOREM StoredBlocksNeverGoBack == MCSpec => StoredBlockNeverBack
<1>1. ASSUME WatchersInv, [ContractWatcher(CwNext) \/ EventWatcherDoes(EwNext)]_allVars
      PROVE  /\ [~persistBlock => watcherBlock' >= watcherBlock]_cwVars
             /\ [lastBlock' >= lastBlock \/ unread]_ewVars
  <2>1. CASE ContractWatcher(CwNext) BY <1>1, <2>1, CwNextInv DEF ContractWatcher, WatchersInv
  <2>2. CASE EventWatcherDoes(EwNext) BY <1>1, <2>2, EwNextInv DEF EventWatcherDoes, WatchersInv
  <2>3. CASE UNCHANGED allVars BY <2>3 DEF allVars
  <2> QED BY <1>1, <2>1, <2>2, <2>3
<1> QED
  BY <1>1, WatchersInvariant, PTL DEF MCSpec, StoredBlockNeverBack, WatcherBlockNeverBack, LastBlockNeverBack

=============================================================================
