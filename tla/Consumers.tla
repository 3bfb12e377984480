----------------------------- MODULE Consumers -----------------------------
(***************************************************************************)
(* The SQS consumers of parser, analytics and tx-tracker: a queue, the     *)
(* replicas of one service that read it, the converter and the handler of  *)
(* that service.  A message that has been received is invisible until its  *)
(* visibility timeout; it leaves the queue only when it is deleted.        *)
(***************************************************************************)
EXTENDS Integers, Sequences, FiniteSets, SequencesExt

CONSTANTS
    Readers,      \* replicas of the service
    QueueVaas,    \* VAAs that messages are about
    Filtered,     \* those the filter of parser takes: Pythnet, on mainnet
    Unparsable,   \* those vaa-payload-parser answers 400, 404 or 422 for
    Contents,     \* messages that are published: <<vaa, kind>>; see About
    MaxMessages,  \* bound: messages published
    ReadSize,     \* messages of one receive
    MaxTrouble    \* bound: failed calls, timeouts and crashes

\* The kinds of those about a VAA: messages of pipeline, notifications of a signed
\* VAA and of a message published on a chain. "other" is a notification of another
\* type, "garbage" what cannot be decoded.
About == {"vaa", "signed", "log"}

ASSUME ConsumersAssumption ==
    /\ Contents \subseteq (QueueVaas \X About) \union ({0} \X {"other", "garbage"})
    /\ Filtered \subseteq QueueVaas /\ Unparsable \subseteq QueueVaas
    /\ MaxMessages \in Nat /\ ReadSize \in Nat \ {0} /\ MaxTrouble \in Nat

VARIABLES
    service,   \* whose queue it is
    published, \* messages published so far
    inbox,     \* messages that can be received
    invisible, \* messages that have been received
    batch,     \* batch[r]: received, and not yet converted
    events,    \* events[r]: converted; the first one is being handled
    returned,  \* returned[r]: its handler has returned without error
    lapsed,    \* lapsed[r]: received by r, and visible again
    dead,      \* replicas that have panicked
    settled,   \* VAAs parsed, or measured, or tracked
    trouble    \* faults so far

consumersVars == <<service, published, inbox, invisible, batch, events, returned, lapsed, dead, settled, trouble>>

Trouble == trouble < MaxTrouble /\ trouble' = trouble + 1

Held(r) == ToSet(batch[r]) \union ToSet(events[r])

ConsumersInit ==
    /\ service \in {"parser", "analytics", "tx-tracker"}
    /\ published = {} /\ inbox = {} /\ invisible = {}
    /\ batch = [r \in Readers |-> <<>>] /\ events = batch
    /\ returned = [r \in Readers |-> FALSE]
    /\ lapsed = [r \in Readers |-> {}]
    /\ dead = {} /\ settled = {} /\ trouble = 0

\* pipeline, fly or blockchain-watcher publishes a message about v.
Notify(v, kind) ==
    LET m == [id |-> Cardinality(published), vaa |-> v, kind |-> kind] IN
    /\ Cardinality(published) < MaxMessages
    /\ published' = published \union {m} /\ inbox' = inbox \union {m}
    /\ UNCHANGED <<service, invisible, batch, events, returned, lapsed, dead, settled, trouble>>

------------------------------------------------------------------------------
(* Consume                                                                  *)

\* Not before every message of the last batch is done or failed: wg.Wait.
GetMessages(r, S) ==
    /\ r \notin dead /\ Held(r) = {}
    /\ Cardinality(S) <= ReadSize
    /\ \E q \in SetToSeqs(S) :
          /\ \A i, j \in DOMAIN q : i < j => q[i].id < q[j].id
          /\ batch' = [batch EXCEPT ![r] = q]
    /\ inbox' = inbox \ S /\ invisible' = invisible \union S
    /\ lapsed' = [lapsed EXCEPT ![r] = {}]
    /\ UNCHANGED <<service, published, events, returned, dead, settled, trouble>>

\* Deleting a message that is visible again, with the old receipt, may work.
Delete(r, m) ==
    /\ invisible' = invisible \ {m}
    /\ inbox' = inbox \ {m} \/ (m \in lapsed[r] /\ UNCHANGED inbox)
    /\ UNCHANGED trouble

DeleteFails == Trouble /\ UNCHANGED <<inbox, invisible>>

Stay == UNCHANGED <<inbox, invisible, trouble>>

\* The event of a type that is skipped, and of data that cannot be decoded, is nil.
IsNil(m) == m.kind = "other"

\* What cannot be converted and what is skipped stays in the queue; what the
\* filter takes is deleted.
ParserConvert(r, m) ==
    /\ UNCHANGED dead
    /\ \/ (m.kind = "garbage" \/ IsNil(m)) /\ Stay /\ UNCHANGED events
       \/ /\ m.kind # "garbage" /\ ~IsNil(m) /\ m.vaa \in Filtered
          /\ Delete(r, m) \/ DeleteFails
          /\ UNCHANGED events
       \/ /\ m.kind # "garbage" /\ ~IsNil(m) /\ m.vaa \notin Filtered
          /\ events' = [events EXCEPT ![r] = Append(@, m)] /\ Stay

\* A nil event goes on to the handler.
AnalyticsConvert(r, m) ==
    /\ events' = IF m.kind = "garbage" THEN events ELSE [events EXCEPT ![r] = Append(@, m)]
    /\ Stay /\ UNCHANGED dead

\* The chain of a nil event is read: a panic.
TxTrackerConvert(r, m) ==
    /\ events' = IF m.kind = "garbage" \/ IsNil(m) THEN events ELSE [events EXCEPT ![r] = Append(@, m)]
    /\ dead' = IF IsNil(m) THEN dead \union {r} ELSE dead
    /\ Stay

Convert(r) ==
    /\ r \notin dead /\ batch[r] # <<>>
    /\ batch' = [batch EXCEPT ![r] = Tail(@)]
    /\ CASE service = "parser"    -> ParserConvert(r, Head(batch[r]))
         [] service = "analytics" -> AnalyticsConvert(r, Head(batch[r]))
         [] service = "tx-tracker" -> TxTrackerConvert(r, Head(batch[r]))
    /\ UNCHANGED <<service, published, returned, lapsed, settled>>

\* The timeout of a message somebody still holds ends.
VisibilityTimeout(m) ==
    /\ m \in invisible /\ \E r \in Readers : m \in Held(r)
    /\ Trouble
    /\ invisible' = invisible \ {m} /\ inbox' = inbox \union {m}
    /\ lapsed' = [r \in Readers |-> IF m \in Held(r) THEN lapsed[r] \union {m} ELSE lapsed[r]]
    /\ UNCHANGED <<service, published, batch, events, returned, dead, settled>>

\* A message nobody holds any more becomes visible.
Reappear(m) ==
    /\ m \in invisible /\ \A r \in Readers : m \notin Held(r)
    /\ invisible' = invisible \ {m} /\ inbox' = inbox \union {m}
    /\ UNCHANGED <<service, published, batch, events, returned, lapsed, dead, settled, trouble>>

------------------------------------------------------------------------------
(* The handlers                                                             *)

Handling(r) == r \notin dead /\ events[r] # <<>> /\ ~returned[r]

\* Returns, or fails and is received again later.
Return(r) == returned' = [returned EXCEPT ![r] = TRUE] /\ UNCHANGED events
Fail(r) == events' = [events EXCEPT ![r] = Tail(@)] /\ UNCHANGED <<returned, settled>>

\* The clock of the reader runs out after the visibility timeout of the queue.
\* tx-tracker does not look at it.
Expire(r) ==
    /\ service # "tx-tracker" /\ Handling(r) /\ Head(events[r]) \in lapsed[r]
    /\ ~IsNil(Head(events[r]))
    /\ Fail(r)
    /\ UNCHANGED <<service, published, inbox, invisible, batch, lapsed, dead, trouble>>

\* Mutant: an error of the endpoint is taken for a VAA that cannot be parsed.
ProcessGivesUp(r, v) ==
    \/ v \in Unparsable /\ Return(r) /\ UNCHANGED <<settled, trouble>>
    \/ v \notin Unparsable /\ Return(r) /\ settled' = settled \union {v} /\ UNCHANGED trouble
    \/ Return(r) /\ Trouble /\ UNCHANGED settled

\* What the endpoint refuses counts as done; an error of the endpoint or of the
\* upsert does not.
Process(r, v) ==
    \/ v \in Unparsable /\ Return(r) /\ UNCHANGED <<settled, trouble>>
    \/ v \notin Unparsable /\ Return(r) /\ settled' = settled \union {v} /\ UNCHANGED trouble
    \/ Fail(r) /\ Trouble

ParserStart(r) ==
    /\ service = "parser" /\ Handling(r)
    /\ Process(r, Head(events[r]).vaa)
    /\ UNCHANGED <<service, published, inbox, invisible, batch, lapsed, dead>>

\* There is no VAA in a nil event, and no bytes of it in a signed notification.
AnalyticsStart(r) ==
    LET m == Head(events[r]) IN
    /\ service = "analytics" /\ Handling(r)
    /\ \/ IsNil(m) /\ dead' = dead \union {r} /\ UNCHANGED <<events, returned, settled, trouble>>
       \/ m.kind = "signed" /\ Fail(r) /\ UNCHANGED <<dead, trouble>>
       \/ /\ m.kind \in {"vaa", "log"} /\ UNCHANGED dead
          /\ \/ Return(r) /\ settled' = settled \union {m.vaa} /\ UNCHANGED trouble
             \/ Fail(r) /\ Trouble
    /\ UNCHANGED <<service, published, inbox, invisible, batch, lapsed>>

\* Done is deferred: whatever comes of it (GlobalTransactions).
TxTrackerStart(r) ==
    /\ service = "tx-tracker" /\ Handling(r)
    /\ Return(r) /\ settled' = settled \union {Head(events[r]).vaa}
    /\ UNCHANGED <<service, published, inbox, invisible, batch, lapsed, dead, trouble>>

\* Done.
Acknowledge(r) ==
    /\ r \notin dead /\ returned[r]
    /\ returned' = [returned EXCEPT ![r] = FALSE]
    /\ events' = [events EXCEPT ![r] = Tail(@)]
    /\ Delete(r, Head(events[r])) \/ DeleteFails
    /\ UNCHANGED <<service, published, batch, lapsed, dead, settled>>

\* A crash, and the new process after it or after a panic.
RestartReader(r) ==
    /\ dead' = dead \ {r}
    /\ batch' = [batch EXCEPT ![r] = <<>>] /\ events' = [events EXCEPT ![r] = <<>>]
    /\ returned' = [returned EXCEPT ![r] = FALSE]
    /\ (r \in dead /\ UNCHANGED trouble) \/ (r \notin dead /\ Trouble)
    /\ UNCHANGED <<service, published, inbox, invisible, lapsed, settled>>

Handle(r) == ParserStart(r) \/ AnalyticsStart(r) \/ TxTrackerStart(r)

ConsumersNext ==
    \/ \E c \in Contents : Notify(c[1], c[2])
    \/ \E r \in Readers, S \in SUBSET inbox \ {{}} : GetMessages(r, S)
    \/ \E m \in invisible : VisibilityTimeout(m) \/ Reappear(m)
    \/ \E r \in Readers : Convert(r) \/ Expire(r) \/ Handle(r) \/ Acknowledge(r) \/ RestartReader(r)

\* Every replica keeps going, a process that has panicked is started again, and
\* a message that is visible again and again is received.
ConsumersFairness ==
    /\ \A r \in Readers :
          /\ WF_consumersVars(Convert(r))
          /\ WF_consumersVars(Handle(r))
          /\ WF_consumersVars(Acknowledge(r))
          /\ WF_consumersVars(r \in dead /\ RestartReader(r))
    /\ \A i \in 0..MaxMessages-1 :
          /\ WF_consumersVars(\E m \in invisible : m.id = i /\ Reappear(m))
          /\ SF_consumersVars(\E r \in Readers, S \in SUBSET inbox :
                                (\E m \in S : m.id = i) /\ GetMessages(r, S))

------------------------------------------------------------------------------
ConsumersTypeOK ==
    /\ \A m \in published : m.id \in 0..MaxMessages-1 /\ <<m.vaa, m.kind>> \in Contents
    /\ inbox \subseteq published /\ invisible \subseteq published
    /\ inbox \intersect invisible = {}
    /\ \A r \in Readers : Held(r) \subseteq published /\ lapsed[r] \subseteq published
    /\ \A r \in Readers : returned[r] => events[r] # <<>>
    /\ dead \subseteq Readers /\ settled \subseteq QueueVaas

\* A message leaves the queue only after the VAA has been parsed, measured or
\* tracked, or needs no parsing: whatever is received twice, times out or
\* crashes in between.
GoneOnlyWhenHandled ==
    \A m \in published \ (inbox \union invisible) :
        /\ m.kind \notin {"other", "garbage"}
        /\ \/ m.vaa \in settled
           \/ service = "parser" /\ m.vaa \in Filtered \union Unparsable

\* A message leaves the queue in the end, unless it is one that the service can
\* do nothing with or one that makes it panic is in the queue too.
EventuallyHandled ==
    \A i \in 0..MaxMessages-1 :
        (\E m \in published : m.id = i)
            ~> \E m \in published :
                  \/ m.id = i /\ m \notin inbox \union invisible
                  \/ m.id = i /\ m.kind \in {"other", "garbage"}
                  \/ m.id = i /\ m.kind = "signed" /\ service = "analytics"
                  \/ IsNil(m) /\ service # "parser"
=============================================================================
