------------------------------ MODULE VaaQueue ------------------------------
(***************************************************************************)
(* fly's path of a non-pyth VAA: every replica hears it on the gossip       *)
(* network, drops the copies its own deduplicator remembers and publishes   *)
(* it to one SQS FIFO queue; every replica also consumes that queue, stores *)
(* the VAA in mongo, counts and announces it when it is new, folds its      *)
(* sequence into redis and deletes the message.                             *)
(*                                                                          *)
(* A message is its position in log, the history of what SQS enqueued.  A   *)
(* handler is cut where another replica, SQS or a crash can come between    *)
(* two of its calls.  Errors, crashes and visibility timeouts that hit a    *)
(* message being worked on are "faults", at most MaxFaults of them; an      *)
(* error may come before or after its effect at the server.                 *)
(***************************************************************************)
EXTENDS Integers, Sequences, FiniteSets

CONSTANTS
    Vaas,        \* records [chain, emitter, seq], the parts of a message id
    Replicas,    \* fly processes
    Nobody,      \* no replica
    BatchSize,   \* MaxNumberOfMessages of a ReceiveMessage call (10 in main.go)
    MaxMessages, \* bound: messages SQS ever enqueues
    MaxFaults    \* bound: faults of a behaviour

ASSUME VaasAssumption == \A v \in Vaas : v.seq \in Nat
ASSUME NobodyAssumption == Nobody \notin Replicas
ASSUME BoundsAssumption ==
    BatchSize \in Nat \ {0} /\ MaxMessages \in Nat /\ MaxFaults \in Nat

VARIABLES
    log,     \* SQS: log[m] is the VAA of message m, in queue order
    holder,  \* SQS: holder[m] has m in flight, or Nobody: m is visible
    deleted, \* SQS: deleted messages
    window,  \* SQS: deduplication ids of the last five minutes
    seen,    \* seen[r]: ids in the deduplicator cache of r
    batch,   \* batch[r]: received messages r has neither acked nor failed
    expired, \* expired[r]: the expiredAt of batch[r] has passed
    pc,      \* pc[r]: the call r makes next for Head(batch[r])
    stored,  \* mongo: ids in the vaas collection
    count,   \* mongo: vaaCounts
    events,  \* redis: events[v] notifications published for v
    lastSeq, \* redis: last sequence of an emitter, -1 when the key is absent
    faults

sqsVars == <<log, holder, deleted, window>>
dbVars == <<stored, count, events, lastSeq>>
workVars == <<batch, expired, pc>>
vars == <<log, holder, deleted, window, seen, batch, expired, pc,
          stored, count, events, lastSeq, faults>>

EmitterOf(v) == <<v.chain, v.emitter>>
Emitters == {EmitterOf(v) : v \in Vaas}
Chains == {v.chain : v \in Vaas}
Messages == DOMAIN log

\* Mutant: the message id as message group.
GroupOfMessageId(v) == <<v.chain, v.emitter, v.seq>>

\* The FIFO message group of a VAA.
GroupOf(v) == EmitterOf(v)

\* The message and the VAA that r is working on.
CurrentMsg(r) == Head(batch[r])
Current(r) == log[CurrentMsg(r)]

Held(r) == {batch[r][i] : i \in DOMAIN batch[r]}

Init ==
    /\ log = <<>>
    /\ holder = <<>>
    /\ deleted = {}
    /\ window = {}
    /\ seen = [r \in Replicas |-> {}]
    /\ batch = [r \in Replicas |-> <<>>]
    /\ expired = [r \in Replicas |-> FALSE]
    /\ pc = [r \in Replicas |-> "take"]
    /\ stored = {}
    /\ count = [c \in Chains |-> 0]
    /\ events = [v \in Vaas |-> 0]
    /\ lastSeq = [g \in Emitters |-> -1]
    /\ faults = 0

Fault == faults < MaxFaults /\ faults' = faults + 1

------------------------------------------------------------------------------
(* Publishing: vaaGossipConsumer.Push, Deduplicator.Apply, SQS.Publish.     *)

\* SendMessage: SQS accepts a message whose id is in its window, but does not
\* enqueue it again.
Send(v) ==
    IF v \in window
    THEN UNCHANGED <<log, holder, window>>
    ELSE /\ Len(log) < MaxMessages
         /\ log' = Append(log, v)
         /\ holder' = Append(holder, Nobody)
         /\ window' = window \union {v}

\* A copy of v that the deduplicator does not know is sent, then remembered.
Publish(r, v) ==
    /\ v \notin seen[r]
    /\ Send(v)
    /\ seen' = [seen EXCEPT ![r] = @ \union {v}]
    /\ UNCHANGED <<deleted, faults, workVars, dbVars>>

\* SendMessage fails after SQS took the message: the id is not remembered.
\* (Failing before that changes nothing.)
PublishFails(r, v) ==
    /\ v \notin seen[r]
    /\ v \notin window
    /\ Fault
    /\ Send(v)
    /\ UNCHANGED <<deleted, seen, workVars, dbVars>>

\* The 30s expiration of a cached id.
ForgetSeen(r, v) ==
    /\ v \in seen[r]
    /\ seen' = [seen EXCEPT ![r] = @ \ {v}]
    /\ UNCHANGED <<sqsVars, faults, workVars, dbVars>>

\* The five minutes of the SQS deduplication window (once MaxMessages are sent
\* it no longer matters).
ForgetWindow(v) ==
    /\ v \in window
    /\ Len(log) < MaxMessages
    /\ window' = window \ {v}
    /\ UNCHANGED <<log, holder, deleted, seen, faults, workVars, dbVars>>

------------------------------------------------------------------------------
(* SQS delivery.                                                            *)

Pending(m) == m \in Messages \ deleted

\* A FIFO group with a message in flight gives out nothing.
Blocked(g) == \E m \in Messages : Pending(m) /\ GroupOf(log[m]) = g /\ holder[m] # Nobody

Available == {m \in Messages : Pending(m) /\ ~Blocked(GroupOf(log[m]))}

\* What one ReceiveMessage call may return: of each group, its oldest messages.
Receivable ==
    {S \in SUBSET Available :
        /\ S # {}
        /\ Cardinality(S) <= BatchSize
        /\ \A m \in S, n \in Available :
              n < m /\ GroupOf(log[n]) = GroupOf(log[m]) => n \in S}

\* The orders in which they may come: of each group, that of the queue.
Orders(S) ==
    {b \in [1..Cardinality(S) -> S] :
        \A i, j \in 1..Cardinality(S) : i < j =>
            /\ b[i] # b[j]
            /\ GroupOf(log[b[i]]) = GroupOf(log[b[j]]) => b[i] < b[j]}

\* GetMessages, once wg.Wait has seen every message of the last batch finished;
\* expiredAt is set for the whole batch.
Receive(r) ==
    /\ batch[r] = <<>>
    /\ \E S \in Receivable :
          /\ \E b \in Orders(S) : batch' = [batch EXCEPT ![r] = b]
          /\ holder' = [m \in Messages |-> IF m \in S THEN r ELSE holder[m]]
    /\ expired' = [expired EXCEPT ![r] = FALSE]
    /\ UNCHANGED <<log, deleted, window, seen, pc, faults, dbVars>>

\* The visibility timeout of m ends.  It is a fault when m is still waiting or
\* being worked on at its holder: the replica was slower than the timeout.
VisibilityTimeout(m) ==
    /\ Pending(m)
    /\ holder[m] # Nobody
    /\ IF m \in Held(holder[m]) THEN Fault ELSE UNCHANGED faults
    /\ holder' = [holder EXCEPT ![m] = Nobody]
    /\ UNCHANGED <<log, deleted, window, seen, workVars, dbVars>>

\* expiredAt passes.  r computed it after ReceiveMessage returned, so by then
\* every message r holds has become visible again at SQS.
BatchExpires(r) ==
    /\ batch[r] # <<>>
    /\ ~expired[r]
    /\ \A m \in Messages : holder[m] # r
    /\ expired' = [expired EXCEPT ![r] = TRUE]
    /\ UNCHANGED <<sqsVars, seen, batch, pc, faults, dbVars>>

------------------------------------------------------------------------------
(* VAAQueueConsumer.Start, one call at a time.                              *)

At(r, label) == batch[r] # <<>> /\ pc[r] = label
Goto(r, label) == pc' = [pc EXCEPT ![r] = label] /\ UNCHANGED <<batch, expired>>

\* Mutant: the consumer stays at the call it was making.
FinishNoReset(r) ==
    batch' = [batch EXCEPT ![r] = Tail(@)] /\ UNCHANGED <<pc, expired>>

\* wg.Done: r is through with its message, acked or failed.
Finish(r) ==
    /\ batch' = [batch EXCEPT ![r] = Tail(@)]
    /\ pc' = [pc EXCEPT ![r] = "take"]
    /\ UNCHANGED expired

\* msg.Failed() after an error: SQS delivers the message again.
Fails(r) == Fault /\ Finish(r) /\ UNCHANGED <<sqsVars, seen>>

Insert(r) == stored' = stored \union {Current(r)}

\* Mutant: the test of IsExpired is inverted.
TakeOnlyExpired(r) ==
    /\ At(r, "take")
    /\ IF expired[r] THEN Goto(r, "upsert") ELSE Finish(r)
    /\ UNCHANGED <<sqsVars, seen, faults, dbVars>>

\* IsExpired is looked at once, before the VAA is stored.
Take(r) ==
    /\ At(r, "take")
    /\ IF expired[r] THEN Finish(r) ELSE Goto(r, "upsert")
    /\ UNCHANGED <<sqsVars, seen, faults, dbVars>>

\* Mutant: every successful upsert counts as a new record.
IsNewRecordAlways(r) == Current(r) \in Vaas

\* isNewRecord: the upsert matched no document and inserted one.
IsNewRecord(r) == Current(r) \notin stored

Upsert(r) ==
    /\ At(r, "upsert")
    /\ Insert(r)
    /\ IF IsNewRecord(r) THEN Goto(r, "count") ELSE Goto(r, "notify")
    /\ UNCHANGED <<sqsVars, seen, faults, count, events, lastSeq>>

\* Mutant: the error is dropped after its alert.
UpsertFailsIgnored(r) ==
    At(r, "upsert") /\ Fault /\ Goto(r, "notify") /\ UNCHANGED <<sqsVars, seen, dbVars>>

UpsertFails(r) ==
    /\ At(r, "upsert")
    /\ Fails(r)
    /\ Insert(r) \/ UNCHANGED stored
    /\ UNCHANGED <<count, events, lastSeq>>

\* updateVAACount ignores its error.
Count(r) ==
    /\ At(r, "count")
    /\ Goto(r, "publish")
    /\ \/ count' = [count EXCEPT ![Current(r).chain] = @ + 1] /\ UNCHANGED faults
       \/ Fault /\ UNCHANGED count
    /\ UNCHANGED <<sqsVars, seen, stored, events, lastSeq>>

Emit(r) == events' = [events EXCEPT ![Current(r)] = @ + 1]

AfterUpdate(r) ==
    /\ At(r, "publish")
    /\ Emit(r)
    /\ Goto(r, "notify")
    /\ UNCHANGED <<sqsVars, seen, faults, stored, count, lastSeq>>

AfterUpdateFails(r) ==
    /\ At(r, "publish")
    /\ Fails(r)
    /\ Emit(r) \/ UNCHANGED events
    /\ UNCHANGED <<stored, count, lastSeq>>

\* Mutant: SET instead of the script.
RecordSequenceBlind(r) ==
    lastSeq' = [lastSeq EXCEPT ![EmitterOf(Current(r))] = Current(r).seq]

\* The Lua script keeps the larger sequence (LastSequence: its comparison of
\* decimal strings is the comparison of the numbers).
RecordSequence(r) ==
    LET v == Current(r) IN
    lastSeq' = [lastSeq EXCEPT ![EmitterOf(v)] = IF v.seq > @ THEN v.seq ELSE @]

Notify(r) ==
    /\ At(r, "notify")
    /\ RecordSequence(r)
    /\ Goto(r, "ack")
    /\ UNCHANGED <<sqsVars, seen, faults, stored, count, events>>

\* Mutant: the error is logged and the message acked all the same.
NotifyFailsAcked(r) ==
    At(r, "notify") /\ Fault /\ Goto(r, "ack") /\ UNCHANGED <<sqsVars, seen, dbVars>>

NotifyFails(r) ==
    /\ At(r, "notify")
    /\ Fails(r)
    /\ RecordSequence(r) \/ UNCHANGED lastSeq
    /\ UNCHANGED <<stored, count, events>>

\* DeleteMessage.  With a receipt whose visibility timeout has passed SQS may
\* refuse, and the error is only logged.
Delete(m) ==
    /\ deleted' = deleted \union {m}
    /\ holder' = [holder EXCEPT ![m] = Nobody]

Done(r) ==
    /\ At(r, "ack")
    /\ \/ Delete(CurrentMsg(r)) /\ UNCHANGED faults
       \/ holder[CurrentMsg(r)] # r /\ UNCHANGED <<deleted, holder, faults>>
       \/ Fault /\ UNCHANGED <<deleted, holder>>
    /\ Finish(r)
    /\ UNCHANGED <<log, window, seen, dbVars>>

\* The process dies and starts again with nothing in memory.
Crash(r) ==
    /\ batch[r] # <<>> \/ seen[r] # {}
    /\ Fault
    /\ batch' = [batch EXCEPT ![r] = <<>>]
    /\ expired' = [expired EXCEPT ![r] = FALSE]
    /\ pc' = [pc EXCEPT ![r] = "take"]
    /\ seen' = [seen EXCEPT ![r] = {}]
    /\ UNCHANGED <<sqsVars, dbVars>>

------------------------------------------------------------------------------
Work(r) == Take(r) \/ Upsert(r) \/ Count(r) \/ AfterUpdate(r) \/ Notify(r) \/ Done(r)

Fail(r) == UpsertFails(r) \/ AfterUpdateFails(r) \/ NotifyFails(r) \/ Crash(r)

Next ==
    \/ \E r \in Replicas, v \in Vaas :
          Publish(r, v) \/ PublishFails(r, v) \/ ForgetSeen(r, v)
    \/ \E v \in Vaas : ForgetWindow(v)
    \/ \E m \in Messages : VisibilityTimeout(m)
    \/ \E r \in Replicas : Receive(r) \/ BatchExpires(r) \/ Work(r) \/ Fail(r)

Spec == Init /\ [][Next]_vars

\* Each replica keeps polling and its consumer goroutine keeps running; SQS
\* ends a visibility timeout.  Nothing is assumed of the gossip network.
\* Faults are bounded: errors do not go on for ever.
Fairness ==
    /\ \A r \in Replicas : WF_vars(Receive(r)) /\ WF_vars(Work(r))
    /\ \A m \in 1..MaxMessages : WF_vars(m \in Messages /\ VisibilityTimeout(m))

FairSpec == Spec /\ Fairness
------------------------------------------------------------------------------
(* What is checked.                                                         *)

Labels == {"take", "upsert", "count", "publish", "notify", "ack"}

QueueTypeOK ==
    /\ log \in Seq(Vaas)
    /\ holder \in [Messages -> Replicas \union {Nobody}]
    /\ deleted \subseteq Messages
    /\ window \subseteq Vaas

WorkTypeOK ==
    /\ seen \in [Replicas -> SUBSET Vaas]
    /\ batch \in [Replicas -> Seq(Messages)]
    /\ expired \in [Replicas -> BOOLEAN]
    /\ pc \in [Replicas -> Labels]
    /\ \A r \in Replicas : batch[r] = <<>> => pc[r] = "take"

DbTypeOK ==
    /\ stored \subseteq Vaas
    /\ count \in [Chains -> Nat]
    /\ events \in [Vaas -> Nat]
    /\ lastSeq \in [Emitters -> Nat \union {-1}]

\* The types of the variables; a message in a batch is a message of the log,
\* and a consumer is past "take" only with a message in its batch.
TypeOK == QueueTypeOK /\ WorkTypeOK /\ DbTypeOK /\ faults \in Nat

\* No loss: a message leaves the queue only when its VAA is stored and the last
\* sequence of its emitter has reached it, whatever failed, expired or crashed
\* on the way and whichever replica deleted it.
Processed(v) == v \in stored /\ v.seq <= lastSeq[EmitterOf(v)]
NoLoss == \A m \in deleted : Processed(log[m])

\* Two replicas may work on the same VAA (an expired visibility timeout, a
\* second message of it), yet it is announced at most once, and only stored.
AnnouncedOnce == \A v \in Vaas : events[v] <= 1 /\ (events[v] = 1 => v \in stored)

\* vaaCounts never runs ahead of the vaas collection; as long as nothing has
\* failed it equals it but for the inserts still being counted, and every
\* stored VAA is announced or about to be.
Counting(c) == {r \in Replicas : At(r, "count") /\ Current(r).chain = c}
StoredOf(c) == {v \in stored : v.chain = c}
Announcing(v) == \E r \in Replicas : (At(r, "count") \/ At(r, "publish")) /\ Current(r) = v
CountsInserts ==
    /\ \A c \in Chains :
          LET counted == count[c] + Cardinality(Counting(c)) IN
          /\ counted <= Cardinality(StoredOf(c))
          /\ faults = 0 => counted = Cardinality(StoredOf(c))
    /\ faults = 0 => \A v \in stored : events[v] = 1 \/ Announcing(v)

\* The published last sequence is always the sequence of a stored VAA.
LastSequenceStored ==
    \A g \in Emitters :
        lastSeq[g] # -1 => \E v \in stored : EmitterOf(v) = g /\ v.seq = lastSeq[g]

\* The last sequence of an emitter never goes back, however late or often an
\* older VAA is processed.
LastSequenceMonotone ==
    [][\A g \in Emitters : lastSeq[g] <= lastSeq'[g]]_vars

\* As long as nothing has failed, no two replicas work on VAAs of one emitter,
\* and the messages of an emitter are acked in the order they were published.
EmitterInOrder ==
    faults = 0 =>
        /\ \A r, s \in Replicas : \A m \in Held(r), n \in Held(s) :
              EmitterOf(log[m]) = EmitterOf(log[n]) => r = s
        /\ \A n \in deleted, m \in Messages :
              m < n /\ EmitterOf(log[m]) = EmitterOf(log[n]) => m \in deleted

\* A VAA the queue has taken is in the end stored, in the last sequence and off
\* the queue, as long as failures stop.
EventuallyProcessed ==
    \A m \in 1..MaxMessages : (m \in Messages) ~> (m \in deleted /\ Processed(log[m]))

\* The queue and its consumers implement the promise of VaaLedger.
Ledger == INSTANCE VaaLedger WITH
    accepted <- {log[m] : m \in Messages},
    recorded <- stored,
    announced <- events,
    settled <- {log[m] : m \in deleted}
LedgerSpec == Ledger!LSpec
=============================================================================
