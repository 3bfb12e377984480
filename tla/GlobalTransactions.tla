------------------------- MODULE GlobalTransactions -------------------------
(***************************************************************************)
(* One document of the globalTransactions collection, shared by the         *)
(* services that write it: tx-tracker fills originTx from the events of two *)
(* queues (pipeline and notifications), in every replica a consumer         *)
(* goroutine for each; contract-watcher, as the service and as its          *)
(* backfiller, fills destinationTx from the redeem transactions it finds.   *)
(* Reads and writes of different processes interleave; SQS delivers an      *)
(* event again while it is still being worked on (the visibility timeout of *)
(* 4 minutes is shorter than the 10 minutes of retries).                    *)
(***************************************************************************)
EXTENDS Integers, FiniteSets

CONSTANTS
    Trackers,   \* tx-tracker consumer goroutines
    Queues,     \* the queues they consume
    QueueOf,    \* QueueOf[t]: the queue of t
    Watchers,   \* contract-watcher processes
    MinRetries, \* minRetries
    MaxDeliveries, \* bound: deliveries of the events
    MaxWatched, \* bound: redeem transactions the watchers come across
    MaxFaults   \* bound: failed mongo and SQS calls

ASSUME QueueAssumption == QueueOf \in [Trackers -> Queues]
ASSUME BoundsAssumption ==
    {MinRetries, MaxDeliveries, MaxWatched, MaxFaults} \subseteq Nat

\* The statuses of a destination transaction, worst first.
Statuses == {"unknown", "failed", "completed"}
Rank == [absent |-> 0, unknown |-> 1, failed |-> 2, completed |-> 3]

VARIABLES
    origin,     \* originTx is in the document
    dest,       \* status of destinationTx, or "absent"
    messages,   \* queues that still hold the event of the VAA
    hashed,     \* queues whose event carries the transaction hash
    late,       \* retryDeadline has passed since the VAA was emitted
    tracker,    \* tracker[t]: "idle", "check", "fetch", "upsert", "ack"
    retries,    \* retries[t], cut off at MinRetries
    watching,   \* watching[w]: status of the transaction at hand, or "none"
    watcher,    \* watcher[w]: "idle", "read", "upsert"
    deliveries, watched, faults,
    exhausted   \* history: an event was retried MinRetries times past the deadline

docVars == <<origin, dest>>
trackerVars == <<messages, tracker, retries, deliveries, exhausted>>
watcherVars == <<watching, watcher, watched>>
vars == <<origin, dest, messages, hashed, late, tracker, retries,
          watching, watcher, deliveries, watched, faults, exhausted>>

Init ==
    /\ origin = FALSE /\ dest = "absent"
    /\ messages = Queues
    /\ hashed \in SUBSET Queues
    /\ late \in BOOLEAN
    /\ tracker = [t \in Trackers |-> "idle"]
    /\ retries = [t \in Trackers |-> 0]
    /\ watching = [w \in Watchers |-> "none"]
    /\ watcher = [w \in Watchers |-> "idle"]
    /\ deliveries = 0 /\ watched = 0 /\ faults = 0
    /\ exhausted = FALSE

Fault == faults < MaxFaults /\ faults' = faults + 1

\* The document exists as soon as either service has written to it.
Exists == origin \/ dest # "absent"

Goto(t, label) == tracker' = [tracker EXCEPT ![t] = label]

------------------------------------------------------------------------------
(* tx-tracker: Consumer.process and ProcessSourceTx.                        *)

Deadline ==
    /\ ~late /\ late' = TRUE
    /\ UNCHANGED <<docVars, trackerVars, watcherVars, hashed, faults>>

Deliver(t) ==
    /\ tracker[t] = "idle"
    /\ QueueOf[t] \in messages
    /\ deliveries < MaxDeliveries
    /\ deliveries' = deliveries + 1
    /\ retries' = [retries EXCEPT ![t] = 0]
    /\ Goto(t, "check")
    /\ UNCHANGED <<docVars, watcherVars, messages, hashed, late, exhausted, faults>>

\* The document of the VAA is there.
AlreadyProcessed == Exists

\* Mutant: Done is not deferred, a skipped event is not acked.
CheckWithoutDone(t) ==
    /\ tracker[t] = "check"
    /\ \/ Goto(t, IF AlreadyProcessed THEN "idle" ELSE "fetch") /\ UNCHANGED faults
       \/ Fault /\ Goto(t, "ack")
    /\ UNCHANGED <<docVars, watcherVars, messages, hashed, late, retries, deliveries, exhausted>>

\* An error of the read also ends the processing.
Check(t) ==
    /\ tracker[t] = "check"
    /\ \/ Goto(t, IF AlreadyProcessed THEN "ack" ELSE "fetch") /\ UNCHANGED faults
       \/ Fault /\ Goto(t, "ack")
    /\ UNCHANGED <<docVars, watcherVars, messages, hashed, late, retries, deliveries, exhausted>>

FetchTx(t) ==
    /\ tracker[t] = "fetch"
    /\ QueueOf[t] \in hashed
    /\ Goto(t, "upsert")
    /\ UNCHANGED <<docVars, watcherVars, messages, hashed, late, retries, deliveries, exhausted, faults>>

\* Mutant: one of the two conditions is enough.
GivesUpEither(t) == late \/ retries[t] >= MinRetries

\* "Keep retrying?"
GivesUp(t) == late /\ retries[t] >= MinRetries

\* Mutant: the retry is counted before it is decided on.
FetchFailsCountsFirst(t) ==
    /\ tracker[t] = "fetch"
    /\ exhausted' = (exhausted \/ (late /\ retries[t] = MinRetries))
    /\ retries' = [retries EXCEPT ![t] = @ + 1]
    /\ IF GivesUp(t) THEN Goto(t, "ack") ELSE UNCHANGED tracker
    /\ UNCHANGED <<docVars, watcherVars, messages, hashed, late, deliveries, faults>>

FetchFails(t) ==
    /\ tracker[t] = "fetch"
    /\ exhausted' = (exhausted \/ (late /\ retries[t] = MinRetries))
    /\ IF GivesUp(t) THEN Goto(t, "ack") /\ UNCHANGED retries
       ELSE /\ retries' = [retries EXCEPT ![t] = IF @ < MinRetries THEN @ + 1 ELSE @]
            /\ UNCHANGED tracker
    /\ UNCHANGED <<docVars, watcherVars, messages, hashed, late, deliveries, faults>>

\* $set of originTx; on an error the event is given up.
UpsertDocument(t) ==
    /\ tracker[t] = "upsert"
    /\ Goto(t, "ack")
    /\ \/ origin' = TRUE /\ UNCHANGED faults
       \/ Fault /\ UNCHANGED origin
    /\ UNCHANGED <<dest, watcherVars, messages, hashed, late, retries, deliveries, exhausted>>

\* The deferred Done, whatever came of the event.  The delete may fail, above
\* all with a receipt older than the visibility timeout.
Done(t) ==
    /\ tracker[t] = "ack"
    /\ Goto(t, "idle")
    /\ \/ messages' = messages \ {QueueOf[t]} /\ UNCHANGED faults
       \/ Fault /\ UNCHANGED messages
    /\ UNCHANGED <<docVars, watcherVars, hashed, late, retries, deliveries, exhausted>>

Track(t) == Check(t) \/ FetchTx(t) \/ FetchFails(t) \/ UpsertDocument(t) \/ Done(t)

------------------------------------------------------------------------------
(* contract-watcher: updateGlobalTransaction.                               *)

\* The watcher finds a redeem transaction of the VAA; a VAA may be redeemed
\* more than once, and fail before or after it has succeeded.
Watch(w) ==
    /\ watcher[w] = "idle" /\ watched < MaxWatched
    /\ watched' = watched + 1
    /\ \E s \in Statuses :
          /\ watching' = [watching EXCEPT ![w] = s]
          /\ watcher' = [watcher EXCEPT ![w] = IF s = "completed" THEN "upsert" ELSE "read"]
    /\ UNCHANGED <<docVars, trackerVars, hashed, late, faults>>

\* Mutant: only the status of the new transaction is looked at.
ShouldBeUpdatedAlways(s) == s \in Statuses

\* What checkTxShouldBeUpdated answers from the status it read.
ShouldBeUpdated(s) == Rank[dest] <= Rank[s]

\* An error of the read counts as "not found": the transaction is written.
CheckTxShouldBeUpdated(w) ==
    /\ watcher[w] = "read"
    /\ \/ /\ watcher' = [watcher EXCEPT ![w] = IF ShouldBeUpdated(watching[w]) THEN "upsert" ELSE "idle"]
          /\ UNCHANGED faults
       \/ Fault /\ watcher' = [watcher EXCEPT ![w] = "upsert"]
    /\ UNCHANGED <<docVars, trackerVars, hashed, late, watching, watched>>

\* Mutant: the document is replaced.
ReplaceGlobalTransaction(w) ==
    /\ watcher[w] = "upsert"
    /\ watcher' = [watcher EXCEPT ![w] = "idle"]
    /\ dest' = watching[w] /\ origin' = FALSE /\ UNCHANGED faults
    /\ UNCHANGED <<trackerVars, hashed, late, watching, watched>>

\* $set of destinationTx; an error is only logged.
UpsertGlobalTransaction(w) ==
    /\ watcher[w] = "upsert"
    /\ watcher' = [watcher EXCEPT ![w] = "idle"]
    /\ (dest' = watching[w] /\ UNCHANGED faults) \/ (Fault /\ UNCHANGED dest)
    /\ UNCHANGED <<origin, trackerVars, hashed, late, watching, watched>>

Next ==
    \/ Deadline
    \/ \E t \in Trackers : Deliver(t) \/ Track(t)
    \/ \E w \in Watchers : Watch(w) \/ CheckTxShouldBeUpdated(w) \/ UpsertGlobalTransaction(w)

Spec == Init /\ [][Next]_vars

\* Time passes, the consumers poll and keep running.
FairSpec ==
    /\ Spec
    /\ WF_vars(Deadline)
    /\ \A t \in Trackers : WF_vars(Deliver(t)) /\ WF_vars(Track(t))

------------------------------------------------------------------------------
(* What is checked.                                                         *)

TypeOK ==
    /\ origin \in BOOLEAN /\ late \in BOOLEAN /\ exhausted \in BOOLEAN
    /\ dest \in Statuses \union {"absent"}
    /\ messages \subseteq Queues /\ hashed \subseteq Queues
    /\ tracker \in [Trackers -> {"idle", "check", "fetch", "upsert", "ack"}]
    /\ retries \in [Trackers -> 0..MinRetries]
    /\ watching \in [Watchers -> Statuses \union {"none"}]
    /\ watcher \in [Watchers -> {"idle", "read", "upsert"}]
    /\ deliveries \in 0..MaxDeliveries /\ watched \in 0..MaxWatched
    /\ faults \in 0..MaxFaults

\* If no redeem transaction is seen and no call fails, the event of a VAA leaves
\* a queue without its originTx only after retries past the deadline.
LostOnlyWhenExhausted ==
    watched = 0 /\ faults = 0 /\ messages # Queues => origin \/ exhausted

\* The two services never undo each other's half of the document.
OriginKept == [][origin => origin']_vars

\* As long as no read fails, one watcher never makes the status of the
\* destination transaction worse.
StatusNeverWorse == [][faults = 0 => Rank[dest] <= Rank[dest']]_vars

\* Every event is in the end taken off its queue, if calls stop failing.
EventHandled == \A q \in Queues : (q \in messages) ~> (q \notin messages)

\* "AlreadyProcessed returns true if the given VAA ID has already been
\* processed": an event is skipped only if its originTx is there.  False for a
\* document that so far holds only a destinationTx.
SkipsOnlyProcessed ==
    [][\A t \in Trackers :
        tracker[t] = "check" /\ tracker'[t] = "ack" /\ faults' = faults => origin]_vars

\* "tx with status failed can not be updated because exists a confirmed tx":
\* false when the confirmed one is written between the look and the write.
ConfirmedStays == [][dest = "completed" => dest' = "completed"]_vars
=============================================================================
