------------------------------ MODULE VaaLedger ------------------------------
(***************************************************************************)
(* What fly promises about a VAA once its SQS queue has accepted it, with   *)
(* no replica, message, receipt or failure in sight: the VAA is recorded,   *)
(* announced at most once, folded into the last sequence of its emitter,    *)
(* and only a VAA that is recorded and folded in is ever taken off the      *)
(* queue.  VaaQueue implements this specification.                          *)
(***************************************************************************)
EXTENDS Integers

CONSTANT Vaas \* records [chain, emitter, seq]: a VAA is known by its message id

VARIABLES
    accepted,  \* VAAs the queue has taken
    recorded,  \* VAAs in the vaas collection
    announced, \* announced[v]: notification events published for v
    lastSeq,   \* lastSeq[g]: the last sequence known for emitter g, or -1
    settled    \* VAAs acknowledged to the queue at least once

lvars == <<accepted, recorded, announced, lastSeq, settled>>

\* chain/emitter, the identity of an emitter.
EmitterOf(v) == <<v.chain, v.emitter>>
Emitters == {EmitterOf(v) : v \in Vaas}

LInit ==
    /\ accepted = {}
    /\ recorded = {}
    /\ announced = [v \in Vaas |-> 0]
    /\ lastSeq = [g \in Emitters |-> -1]
    /\ settled = {}

Accept(v) ==
    /\ accepted' = accepted \union {v}
    /\ UNCHANGED <<recorded, announced, lastSeq, settled>>

Record(v) ==
    /\ v \in accepted
    /\ recorded' = recorded \union {v}
    /\ UNCHANGED <<accepted, announced, lastSeq, settled>>

Announce(v) ==
    /\ v \in recorded
    /\ announced[v] = 0
    /\ announced' = [announced EXCEPT ![v] = 1]
    /\ UNCHANGED <<accepted, recorded, lastSeq, settled>>

\* The last sequence moves up, and only to the sequence of a recorded VAA.
Advance(v) ==
    /\ v \in recorded
    /\ lastSeq[EmitterOf(v)] < v.seq
    /\ lastSeq' = [lastSeq EXCEPT ![EmitterOf(v)] = v.seq]
    /\ UNCHANGED <<accepted, recorded, announced, settled>>

Settle(v) ==
    /\ v \in recorded
    /\ v.seq <= lastSeq[EmitterOf(v)]
    /\ settled' = settled \union {v}
    /\ UNCHANGED <<accepted, recorded, announced, lastSeq>>

LNext == \E v \in Vaas : Accept(v) \/ Record(v) \/ Announce(v) \/ Advance(v) \/ Settle(v)

LSpec == LInit /\ [][LNext]_lvars
=============================================================================
