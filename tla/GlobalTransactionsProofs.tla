---------------------- MODULE GlobalTransactionsProofs ----------------------
(***************************************************************************)
(* Theorems about GlobalTransactions, for every set of replicas, queues and *)
(* watchers, and every number of retries, deliveries and faults.            *)
(***************************************************************************)
EXTENDS GlobalTransactions, TLAPS

LEMMA Bounds ==
    /\ MinRetries \in Nat /\ MaxDeliveries \in Nat
    /\ MaxWatched \in Nat /\ MaxFaults \in Nat
  BY BoundsAssumption

LEMMA InitTypeOK == ASSUME Init PROVE TypeOK
<1>1. /\ origin \in BOOLEAN /\ late \in BOOLEAN /\ exhausted \in BOOLEAN
      /\ dest \in Statuses \union {"absent"}
      /\ messages \subseteq Queues /\ hashed \subseteq Queues
  BY DEF Init
<1>2. tracker \in [Trackers -> {"idle", "check", "fetch", "upsert", "ack"}]
  BY DEF Init
<1>3. retries \in [Trackers -> 0..MinRetries]
  BY Bounds DEF Init
<1>4. /\ watching \in [Watchers -> Statuses \union {"none"}]
      /\ watcher \in [Watchers -> {"idle", "read", "upsert"}]
  BY DEF Init
<1>5. /\ deliveries \in 0..MaxDeliveries /\ watched \in 0..MaxWatched
      /\ faults \in 0..MaxFaults
  BY Bounds DEF Init
<1> QED BY <1>1, <1>2, <1>3, <1>4, <1>5 DEF TypeOK

\* A watcher that is about to read or write has the status of a transaction at
\* hand: without it the type of dest does not survive the write.
AtHand == \A w \in Watchers : watcher[w] # "idle" => watching[w] \in Statuses

\* Nothing is written by a watcher that has not come across a transaction.
Quiet ==
    watched = 0 =>
        /\ dest = "absent"
        /\ \A w \in Watchers : watcher[w] = "idle"

\* What holds of an event that is about to be taken off its queue, and of one
\* that was.
Accounted ==
    watched = 0 /\ faults = 0 =>
        /\ \A t \in Trackers : tracker[t] = "ack" => origin \/ exhausted
        /\ messages # Queues => origin \/ exhausted

IInv == TypeOK /\ AtHand

LInv == IInv /\ Quiet /\ Accounted

LEMMA InitIInv == Init => IInv
  BY InitTypeOK DEF Init, IInv, AtHand

LEMMA StepTypeOK == IInv /\ [Next]_vars => TypeOK'
<1> SUFFICES ASSUME TypeOK, AtHand, [Next]_vars PROVE TypeOK'
  BY DEF IInv
<1> USE Bounds DEF TypeOK, Goto, Fault, docVars, trackerVars, watcherVars
<1>1. CASE Deadline BY <1>1 DEF Deadline
<1>2. ASSUME NEW t \in Trackers, Deliver(t) PROVE TypeOK'
  <2>1. deliveries' \in 0..MaxDeliveries /\ 0 \in 0..MinRetries BY <1>2 DEF Deliver
  <2> QED BY <1>2, <2>1 DEF Deliver
<1>3. ASSUME NEW t \in Trackers, Check(t) PROVE TypeOK'
  <2>1. faults' \in 0..MaxFaults BY <1>3 DEF Check
  <2> QED BY <1>3, <2>1 DEF Check
<1>4. ASSUME NEW t \in Trackers, FetchTx(t) PROVE TypeOK' BY <1>4 DEF FetchTx
<1>5. ASSUME NEW t \in Trackers, FetchFails(t) PROVE TypeOK'
  <2>1. retries' \in [Trackers -> 0..MinRetries]
    <3>1. retries[t] \in 0..MinRetries
      OBVIOUS
    <3>2. (IF retries[t] < MinRetries THEN retries[t] + 1 ELSE retries[t]) \in 0..MinRetries
      BY <3>1
    <3> QED BY <1>5, <3>2 DEF FetchFails
  <2>2. tracker' \in [Trackers -> {"idle", "check", "fetch", "upsert", "ack"}]
    BY <1>5 DEF FetchFails
  <2>3. exhausted' \in BOOLEAN BY <1>5 DEF FetchFails
  <2> QED BY <1>5, <2>1, <2>2, <2>3 DEF FetchFails
<1>6. ASSUME NEW t \in Trackers, UpsertDocument(t) PROVE TypeOK'
  <2>1. faults' \in 0..MaxFaults BY <1>6 DEF UpsertDocument
  <2> QED BY <1>6, <2>1 DEF UpsertDocument
<1>7. ASSUME NEW t \in Trackers, Done(t) PROVE TypeOK'
  <2>1. faults' \in 0..MaxFaults BY <1>7 DEF Done
  <2> QED BY <1>7, <2>1 DEF Done
<1>8. ASSUME NEW w \in Watchers, Watch(w) PROVE TypeOK'
  <2>1. watched' \in 0..MaxWatched BY <1>8 DEF Watch
  <2> QED BY <1>8, <2>1 DEF Watch
<1>9. ASSUME NEW w \in Watchers, CheckTxShouldBeUpdated(w) PROVE TypeOK'
  <2>1. faults' \in 0..MaxFaults BY <1>9 DEF CheckTxShouldBeUpdated
  <2> QED BY <1>9, <2>1 DEF CheckTxShouldBeUpdated
<1>10. ASSUME NEW w \in Watchers, UpsertGlobalTransaction(w) PROVE TypeOK'
  <2>1. faults' \in 0..MaxFaults BY <1>10 DEF UpsertGlobalTransaction
  <2>2. watching[w] \in Statuses BY <1>10 DEF UpsertGlobalTransaction, AtHand
  <2> QED BY <1>10, <2>1, <2>2 DEF UpsertGlobalTransaction
<1>11. CASE UNCHANGED vars BY <1>11 DEF vars
<1> QED
  BY <1>1, <1>2, <1>3, <1>4, <1>5, <1>6, <1>7, <1>8, <1>9, <1>10, <1>11 DEF Next, Track

LEMMA StepAtHand == IInv /\ [Next]_vars => AtHand'
<1> SUFFICES ASSUME TypeOK, AtHand, [Next]_vars PROVE AtHand'
  BY DEF IInv
<1> USE DEF AtHand
<1>1. CASE UNCHANGED <<watching, watcher>>
  BY <1>1
<1>2. ASSUME NEW w \in Watchers, Watch(w) PROVE AtHand'
  BY <1>2 DEF Watch, TypeOK
<1>3. ASSUME NEW w \in Watchers, CheckTxShouldBeUpdated(w) PROVE AtHand'
  BY <1>3 DEF CheckTxShouldBeUpdated, TypeOK
<1>4. ASSUME NEW w \in Watchers, UpsertGlobalTransaction(w) PROVE AtHand'
  BY <1>4 DEF UpsertGlobalTransaction, TypeOK
<1> QED
  BY <1>1, <1>2, <1>3, <1>4
  DEF Next, vars, watcherVars, Deadline, Deliver, Track, Check, FetchTx,
      FetchFails, UpsertDocument, Done

LEMMA StepIInv == IInv /\ [Next]_vars => IInv'
  BY StepTypeOK, StepAtHand DEF IInv

\* Every variable keeps its type, whatever calls fail.
THEOREM TypeCorrect == Spec => []TypeOK
<1>1. IInv => TypeOK
  BY DEF IInv
<1> QED
  BY InitIInv, StepIInv, <1>1, PTL DEF Spec

------------------------------------------------------------------------------
(* The two halves of the document.                                          *)

LEMMA StepOrigin == [Next]_vars => (origin => origin')
  BY DEF Next, vars, docVars, Deadline, Deliver, Track, Check, FetchTx,
         FetchFails, UpsertDocument, Done, Watch, CheckTxShouldBeUpdated,
         UpsertGlobalTransaction

\* A transaction one service has stored is never undone by the other: each
\* sets its own field of the document, whatever the interleaving.
THEOREM OriginKeptAlways == Spec => OriginKept
<1>1. [Next]_vars => [origin => origin']_vars
  BY StepOrigin
<1> QED
  BY <1>1, PTL DEF Spec, OriginKept

------------------------------------------------------------------------------
(* An event leaves its queue with its transaction stored, or exhausted.     *)

LEMMA InitLInv == Init => LInv
  BY InitIInv DEF Init, LInv, Quiet, Accounted

LEMMA StepQuiet == LInv /\ [Next]_vars => Quiet'
<1> SUFFICES ASSUME TypeOK, Quiet, [Next]_vars PROVE Quiet'
  BY DEF LInv, IInv
<1> USE DEF Quiet
<1>1. CASE UNCHANGED <<dest, watcherVars>>
  BY <1>1 DEF watcherVars
<1>2. ASSUME NEW w \in Watchers, Watch(w) PROVE Quiet'
  <2>1. watched' # 0 BY <1>2 DEF Watch, TypeOK
  <2> QED BY <2>1
<1>3. ASSUME NEW w \in Watchers, CheckTxShouldBeUpdated(w) PROVE Quiet'
  BY <1>3 DEF CheckTxShouldBeUpdated
<1>4. ASSUME NEW w \in Watchers, UpsertGlobalTransaction(w) PROVE Quiet'
  BY <1>4 DEF UpsertGlobalTransaction
<1> QED
  BY <1>1, <1>2, <1>3, <1>4
  DEF Next, vars, docVars, watcherVars, Deadline, Deliver, Track, Check, FetchTx,
      FetchFails, UpsertDocument, Done

\* Counters and histories only grow.
LEMMA StepMonotone ==
    ASSUME TypeOK, [Next]_vars
    PROVE  /\ watched' = 0 => watched = 0
           /\ faults' = 0 => faults = 0 /\ ~Fault
           /\ origin => origin'
           /\ exhausted => exhausted'
<1>1. faults' = 0 => ~Fault
  BY Bounds DEF Fault, TypeOK
<1>2. (faults' = faults \/ Fault) /\ (watched' = watched \/ watched' = watched + 1)
  BY DEF Next, vars, docVars, trackerVars, watcherVars, Deadline, Deliver, Track,
         Check, FetchTx, FetchFails, UpsertDocument, Done, Watch,
         CheckTxShouldBeUpdated, UpsertGlobalTransaction, Fault
<1>3. (watched' = 0 => watched = 0) /\ (faults' = 0 => faults = 0)
  BY <1>1, <1>2, Bounds DEF TypeOK
<1>4. exhausted => exhausted'
  BY DEF Next, vars, docVars, trackerVars, watcherVars, Deadline, Deliver, Track,
         Check, FetchTx, FetchFails, UpsertDocument, Done, Watch,
         CheckTxShouldBeUpdated, UpsertGlobalTransaction
<1> QED BY <1>1, <1>3, <1>4, StepOrigin

LEMMA StepAccounted == LInv /\ [Next]_vars => Accounted'
<1> SUFFICES ASSUME TypeOK, Quiet, Accounted, [Next]_vars, watched' = 0, faults' = 0
             PROVE  /\ \A t \in Trackers : tracker'[t] = "ack" => origin' \/ exhausted'
                    /\ messages' # Queues => origin' \/ exhausted'
  BY DEF LInv, IInv, Accounted
<1>1. watched = 0 /\ faults = 0 /\ ~Fault
  BY StepMonotone
<1>2. (origin => origin') /\ (exhausted => exhausted')
  BY StepMonotone
<1>3. /\ \A t \in Trackers : tracker[t] = "ack" => origin \/ exhausted
      /\ messages # Queues => origin \/ exhausted
      /\ dest = "absent"
  BY <1>1 DEF Accounted, Quiet
<1> USE DEF Goto
<1>4. CASE UNCHANGED <<tracker, messages>>
  BY <1>2, <1>3, <1>4
<1>5. ASSUME NEW u \in Trackers, UNCHANGED messages, tracker' = [tracker EXCEPT ![u] = tracker'[u]],
             tracker'[u] = "ack" => origin' \/ exhausted'
      PROVE  /\ \A t \in Trackers : tracker'[t] = "ack" => origin' \/ exhausted'
             /\ messages' # Queues => origin' \/ exhausted'
  BY <1>2, <1>3, <1>5 DEF TypeOK
<1>6. ASSUME NEW u \in Trackers, Deliver(u) PROVE UNCHANGED messages /\ tracker'[u] = "check"
  BY <1>6 DEF Deliver, TypeOK
<1>7. ASSUME NEW u \in Trackers, Check(u)
      PROVE  UNCHANGED messages /\ (tracker'[u] = "ack" => origin')
  BY <1>1, <1>2, <1>3, <1>7 DEF Check, AlreadyProcessed, Exists, TypeOK
<1>8. ASSUME NEW u \in Trackers, FetchTx(u) PROVE UNCHANGED messages /\ tracker'[u] = "upsert"
  BY <1>8 DEF FetchTx, TypeOK
<1>9. ASSUME NEW u \in Trackers, FetchFails(u)
      PROVE  UNCHANGED messages /\ (tracker'[u] = "ack" => exhausted')
  <2>1. retries[u] \in 0..MinRetries /\ tracker[u] = "fetch"
    BY <1>9 DEF FetchFails, TypeOK
  <2>2. GivesUp(u) => late /\ retries[u] = MinRetries
    BY <2>1, Bounds DEF GivesUp
  <2> QED BY <1>9, <2>1, <2>2 DEF FetchFails
<1>10. ASSUME NEW u \in Trackers, UpsertDocument(u) PROVE UNCHANGED messages /\ origin'
  BY <1>1, <1>10 DEF UpsertDocument
<1>11. ASSUME NEW u \in Trackers, Done(u)
       PROVE  /\ \A t \in Trackers : tracker'[t] = "ack" => origin' \/ exhausted'
              /\ messages' # Queues => origin' \/ exhausted'
  BY <1>2, <1>3, <1>11 DEF Done, TypeOK
<1>12. ASSUME NEW u \in Trackers, Deliver(u) \/ Check(u) \/ FetchTx(u) \/ FetchFails(u) \/ UpsertDocument(u)
       PROVE  \/ UNCHANGED tracker
              \/ tracker' = [tracker EXCEPT ![u] = tracker'[u]]
  BY <1>12 DEF Deliver, Check, FetchTx, FetchFails, UpsertDocument, TypeOK
<1>13. CASE \E u \in Trackers : Deliver(u) \/ Check(u) \/ FetchTx(u) \/ FetchFails(u) \/ UpsertDocument(u)
  BY <1>4, <1>5, <1>6, <1>7, <1>8, <1>9, <1>10, <1>12, <1>13
<1> QED
  BY <1>4, <1>11, <1>13
  DEF Next, vars, trackerVars, Track, Deadline, Watch, CheckTxShouldBeUpdated,
      UpsertGlobalTransaction

LEMMA StepLInv == LInv /\ [Next]_vars => LInv'
  BY StepIInv, StepQuiet, StepAccounted DEF LInv

\* While no call fails and no redeem transaction is seen, the event of a VAA
\* leaves a queue only with its originTx stored or after all the retries past
\* the deadline: Done is deferred, but never reached early.
THEOREM LostOnlyExhausted == Spec => []LostOnlyWhenExhausted
<1>1. LInv => LostOnlyWhenExhausted
  BY DEF LInv, Accounted, LostOnlyWhenExhausted
<1> QED
  BY InitLInv, StepLInv, <1>1, PTL DEF Spec

------------------------------------------------------------------------------
(* One watcher and the status of the destination transaction.               *)

\* What the watcher is about to write is no worse than what is stored.
Better ==
    \A w \in Watchers :
        faults = 0 /\ watcher[w] = "upsert" => Rank[dest] <= Rank[watching[w]]

SInv == IInv /\ Better

LEMMA Ranks ==
    ASSUME NEW d \in Statuses \union {"absent"}
    PROVE  Rank[d] \in 0..3 /\ (d = "completed" => Rank[d] = 3)
  BY DEF Statuses, Rank

LEMMA StepBetter ==
    ASSUME SInv, [Next]_vars, \A u, v \in Watchers : u = v
    PROVE  Better'
<1> SUFFICES ASSUME NEW w \in Watchers, faults' = 0, watcher'[w] = "upsert"
             PROVE  Rank[dest'] <= Rank[watching'[w]]
  BY DEF Better
<1> USE DEF SInv, IInv
<1>1. faults = 0 /\ ~Fault
  BY StepMonotone
<1>2. CASE UNCHANGED <<dest, watching, watcher>>
  BY <1>1, <1>2 DEF Better
<1>3. ASSUME NEW u \in Watchers, Watch(u) PROVE Rank[dest'] <= Rank[watching'[w]]
  <2>1. u = w OBVIOUS
  <2>2. watching'[w] = "completed" /\ dest' = dest
    BY <1>3, <2>1 DEF Watch, TypeOK, docVars
  <2>3. Rank[watching'[w]] = 3
    BY <2>2 DEF Rank
  <2>4. Rank[dest] \in 0..3
    BY Ranks DEF TypeOK
  <2> QED BY <2>2, <2>3, <2>4
<1>4. ASSUME NEW u \in Watchers, CheckTxShouldBeUpdated(u)
      PROVE  Rank[dest'] <= Rank[watching'[w]]
  <2>1. u = w OBVIOUS
  <2>2. ShouldBeUpdated(watching[w]) /\ UNCHANGED <<dest, watching>>
    BY <1>1, <1>4, <2>1 DEF CheckTxShouldBeUpdated, TypeOK, docVars
  <2> QED BY <2>2 DEF ShouldBeUpdated
<1>5. ASSUME NEW u \in Watchers, UpsertGlobalTransaction(u) PROVE FALSE
  <2>1. u = w OBVIOUS
  <2> QED BY <1>5, <2>1 DEF UpsertGlobalTransaction, TypeOK
<1> QED
  BY <1>2, <1>3, <1>4, <1>5
  DEF Next, vars, docVars, watcherVars, Deadline, Deliver, Track, Check, FetchTx,
      FetchFails, UpsertDocument, Done

LEMMA StepNoWorse ==
    ASSUME SInv, [Next]_vars
    PROVE  faults = 0 => Rank[dest] <= Rank[dest']
<1>1. CASE UNCHANGED dest
  <2>1. Rank[dest] \in 0..3
    BY Ranks DEF SInv, IInv, TypeOK
  <2> QED BY <1>1, <2>1
<1>2. ASSUME NEW w \in Watchers, UpsertGlobalTransaction(w), ~ UNCHANGED dest, faults = 0
      PROVE  Rank[dest] <= Rank[dest']
  BY <1>2 DEF UpsertGlobalTransaction, SInv, Better
<1> QED
  BY <1>1, <1>2
  DEF Next, vars, docVars, watcherVars, Deadline, Deliver, Track, Check, FetchTx,
      FetchFails, UpsertDocument, Done, Watch, CheckTxShouldBeUpdated

\* A single watcher reads the stored status and then writes: nothing comes in
\* between, so the status never gets worse.  With two watchers it does.
THEOREM OneWatcherNoWorse ==
    ASSUME \A u, v \in Watchers : u = v
    PROVE  Spec => StatusNeverWorse
<1>1. Init => SInv
  BY InitIInv DEF Init, SInv, Better
<1>2. SInv /\ [Next]_vars => SInv'
  BY StepIInv, StepBetter DEF SInv
<1>3. SInv /\ [Next]_vars => [faults = 0 => Rank[dest] <= Rank[dest']]_vars
  BY StepNoWorse
<1> QED
  BY <1>1, <1>2, <1>3, PTL DEF Spec, StatusNeverWorse
=============================================================================
