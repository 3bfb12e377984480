------------------------------- MODULE TxHash -------------------------------
(***************************************************************************)
(* The transaction hash of a VAA.  Gossip carries it in the observations    *)
(* and not in the VAA: fly keeps it in vaaIdTxHash and copies it into the   *)
(* document of the VAA when it stores that.  A VAA stored before its hash   *)
(* is known is completed by pipeline, which watches the collection, tries   *)
(* for a while and then publishes the VAA without.  A backfiller of fly     *)
(* rewrites hashes that an earlier version stored unencoded.                *)
(***************************************************************************)
EXTENDS Integers, Sequences, FiniteSets

CONSTANTS
    Vaas,            \* the VAAs, by message id
    Pyth,            \* those of Pythnet, kept in vaasPythnet
    Replicas,        \* replicas of fly
    Pipelines,       \* replicas of pipeline
    QueueSize,       \* of TxHashHandler.inputQueue
    Retries,         \* lookups a VAA gets
    MaxObservations, \* bound
    MaxBackfills,    \* bound: runs of the backfiller
    MaxFaults        \* bound: failed calls and crashes

ASSUME VaasAssumption == Pyth \subseteq Vaas /\ "another VAA" \notin Vaas
ASSUME QueueAssumption == QueueSize \in Nat \ {0} /\ Retries \in Nat

VARIABLES
    vaas,        \* txHash of the document of a VAA
    origin,      \* its _originTxHash
    vaaIdTxHash, \* txHash of the document of vaaIdTxHash
    looked,      \* looked[r]: the VAA replica r stores and the hash it has read
    page,        \* documents the backfiller has read and not yet come to
    replacing,   \* the VAA between the two writes of ReplaceVaaTxHash
    up,          \* up[p]: pipeline p is "down", "watching" or "deaf", its stream ended
    stream,      \* stream[p]: inserts its change stream has not delivered
    inputQueue,  \* VAAs without a hash, on their way to the handler; Other
    fixItems,    \* fixItems[p][v]: lookups left; NotThere
    pass,        \* VAAs this pass over fixItems has still to visit
    fixing,      \* the VAA whose hash has been found
    published,   \* events in the topic
    excuse,      \* history: who was down or deaf, died or failed to push a VAA
    lookups,     \* history: failed lookups
    counts       \* observations, backfills and faults so far

fly == <<vaaIdTxHash, looked>>
backfiller == <<page, replacing, origin>>
handler == <<inputQueue, fixItems, pass, fixing, lookups>>
vars == <<vaas, fly, backfiller, up, stream, handler, published, excuse, counts>>

Absent == "absent"
NoHash == "" \* TxHash of a document or an event without one
Raw == "raw"
Encoded == "encoded"
Hashes == {Raw, Encoded}
NotThere == -1
Other == "another VAA" \* one of those not followed here
None == [vaa |-> "none"]
Event(v, h) == [vaa |-> v, hash |-> h]

Init ==
    \* Documents of the earlier version.
    /\ vaas \in [Vaas -> {Absent, Raw}] /\ \A v \in Pyth : vaas[v] = Absent
    /\ vaaIdTxHash = vaas
    /\ origin = [v \in Vaas |-> NoHash]
    /\ looked = [r \in Replicas |-> None]
    /\ page = {} /\ replacing = None
    /\ up = [p \in Pipelines |-> "watching"]
    /\ stream = [p \in Pipelines |-> <<>>] /\ inputQueue = stream
    /\ fixItems = [p \in Pipelines |-> [v \in Vaas |-> NotThere]]
    /\ pass = [p \in Pipelines |-> {}]
    /\ fixing = [p \in Pipelines |-> None]
    /\ published = {}
    /\ excuse = [v \in Vaas |-> IF vaas[v] = Absent THEN {} ELSE Pipelines]
    /\ lookups = [p \in Pipelines |-> [v \in Vaas |-> 0]]
    /\ counts = [observations |-> 0, backfills |-> 0, faults |-> 0]

Fault == counts.faults < MaxFaults /\ counts' = [counts EXCEPT !.faults = @ + 1]

------------------------------------------------------------------------------
(* fly                                                                      *)

\* Pyth observations are not stored.  A hash that cannot be encoded is stored
\* as an empty one, over whatever was there.
UpsertObservation(v, h) ==
    /\ v \notin Pyth
    /\ counts.observations < MaxObservations
    /\ counts' = [counts EXCEPT !.observations = @ + 1]
    /\ vaaIdTxHash' = [vaaIdTxHash EXCEPT ![v] = h]
    /\ UNCHANGED <<vaas, looked, backfiller, up, stream, handler, published, excuse>>

\* UpsertVaa up to its look into vaaIdTxHash, whose error is only logged.
FindTxHash(r, v) ==
    /\ looked[r] = None
    /\ \/ /\ looked' = [looked EXCEPT ![r] =
                Event(v, IF v \in Pyth \/ vaaIdTxHash[v] = Absent THEN NoHash ELSE vaaIdTxHash[v])]
          /\ UNCHANGED counts
       \/ looked' = [looked EXCEPT ![r] = Event(v, NoHash)] /\ Fault
    /\ UNCHANGED <<vaas, vaaIdTxHash, backfiller, up, stream, handler, published, excuse>>

\* Mutant: the field is written when empty.
StoredHashAlways(v, h) == h

\* txHash is omitted from the update when empty.
StoredHash(v, h) == IF h # NoHash THEN h ELSE IF vaas[v] = Absent THEN NoHash ELSE vaas[v]

\* The upsert of UpsertVaa.  An insert shows in the change stream of every
\* pipeline that has one.
UpsertVaa(r) ==
    LET v == looked[r].vaa
        insert == vaas[v] = Absent
    IN /\ looked[r] # None
       /\ looked' = [looked EXCEPT ![r] = None]
       /\ vaas' = [vaas EXCEPT ![v] = StoredHash(v, looked[r].hash)]
       /\ stream' = [p \in Pipelines |->
             IF insert /\ up[p] = "watching" THEN Append(stream[p], Event(v, vaas'[v])) ELSE stream[p]]
       /\ excuse' = IF insert THEN [excuse EXCEPT ![v] = {p \in Pipelines : up[p] # "watching"}] ELSE excuse
       /\ UNCHANGED <<vaaIdTxHash, backfiller, up, handler, published, counts>>

UpsertVaaFails(r) ==
    /\ looked[r] # None
    /\ looked' = [looked EXCEPT ![r] = None]
    /\ Fault
    /\ UNCHANGED <<vaas, vaaIdTxHash, backfiller, up, stream, handler, published, excuse>>

------------------------------------------------------------------------------
(* The backfiller that encodes hashes                                       *)

\* Mutant: the form of the hash is not looked at.
ToEncodeAny(v) == vaas[v] \notin {Absent, NoHash} /\ origin[v] = NoHash

\* Not processed before, and of the length of a raw hash.
ToEncode(v) == vaas[v] = Raw /\ origin[v] = NoHash

FindVaaByChainID ==
    /\ page = {} /\ replacing = None
    /\ counts.backfills < MaxBackfills
    /\ counts' = [counts EXCEPT !.backfills = @ + 1]
    /\ page' = {Event(v, vaas[v]) : v \in {w \in Vaas \ Pyth : ToEncode(w)}}
    /\ UNCHANGED <<vaas, replacing, origin, fly, up, stream, handler, published, excuse>>

\* The first write of ReplaceVaaTxHash; when it fails the second is not made.
ReplaceInVaas ==
    \E d \in page :
        /\ replacing = None
        /\ page' = page \ {d}
        /\ \/ /\ vaas' = [vaas EXCEPT ![d.vaa] = Encoded]
              /\ origin' = [origin EXCEPT ![d.vaa] = d.hash]
              /\ replacing' = d
              /\ UNCHANGED counts
           \/ Fault /\ UNCHANGED <<vaas, origin, replacing>>
        /\ UNCHANGED <<fly, up, stream, handler, published, excuse>>

\* The second, not an upsert; its error is swallowed.
ReplaceInVaaIdTxHash ==
    /\ replacing # None
    /\ replacing' = None
    /\ \/ /\ vaaIdTxHash' =
             [vaaIdTxHash EXCEPT ![replacing.vaa] = IF @ = Absent THEN @ ELSE Encoded]
          /\ UNCHANGED counts
       \/ Fault /\ UNCHANGED vaaIdTxHash
    /\ UNCHANGED <<vaas, looked, page, origin, up, stream, handler, published, excuse>>

------------------------------------------------------------------------------
(* pipeline                                                                 *)

\* SNS.Publish: an error is logged, and nothing tries again.
Push(p, e) ==
    \/ published' = published \union {[by |-> p, vaa |-> e.vaa, hash |-> e.hash]} /\ UNCHANGED <<excuse, counts>>
    \/ Fault /\ excuse' = [excuse EXCEPT ![e.vaa] = @ \union {p}] /\ UNCHANGED published

\* Mutant: a full channel drops the VAA.
AddVaaFixItemDrops(p, e) ==
    inputQueue' = IF Len(inputQueue[p]) < QueueSize
                  THEN [inputQueue EXCEPT ![p] = Append(@, e)] ELSE inputQueue

\* Mutant: the list of VAAs on their way has no bound.
AddVaaFixItemUnbounded(p, e) ==
    inputQueue' = [inputQueue EXCEPT ![p] = Append(@, e)]

\* Waits while the channel is full.
AddVaaFixItem(p, e) ==
    /\ Len(inputQueue[p]) < QueueSize
    /\ inputQueue' = [inputQueue EXCEPT ![p] = Append(@, e)]

Publish(p, e) ==
    IF e.hash = NoHash /\ e.vaa \notin Pyth
    THEN AddVaaFixItem(p, e) /\ UNCHANGED <<published, excuse, counts>>
    ELSE Push(p, e) /\ UNCHANGED inputQueue

\* The goroutine of Watcher.Start: next event of the stream, decoded and handed
\* to the publisher.
Watch(p) ==
    /\ stream[p] # <<>>
    /\ stream' = [stream EXCEPT ![p] = Tail(@)]
    /\ \/ Publish(p, Head(stream[p]))
       \/ /\ Fault \* it cannot be decoded
          /\ excuse' = [excuse EXCEPT ![Head(stream[p]).vaa] = @ \union {p}]
          /\ UNCHANGED <<inputQueue, published>>
    /\ UNCHANGED <<vaas, fly, backfiller, up, fixItems, pass, fixing, lookups>>

\* It waits in the handler for a place in the channel.
Waits(p) ==
    /\ stream[p] # <<>> /\ Len(inputQueue[p]) >= QueueSize
    /\ Head(stream[p]).hash = NoHash /\ Head(stream[p]).vaa \notin Pyth

\* stream.Next fails: the goroutine returns, nobody is told, and the process stays up
\* with its handler.  What the stream had not delivered it never will.
StreamEnds(p) ==
    /\ up[p] = "watching" /\ ~Waits(p) /\ Fault
    /\ up' = [up EXCEPT ![p] = "deaf"]
    /\ stream' = [stream EXCEPT ![p] = <<>>]
    /\ excuse' = [v \in Vaas |-> IF \E i \in DOMAIN stream[p] : stream[p][i].vaa = v
                                 THEN excuse[v] \union {p} ELSE excuse[v]]
    /\ UNCHANGED <<vaas, fly, backfiller, handler, published>>

\* Another VAA without a hash comes in, as often as one likes.
OtherComes(p) ==
    /\ up[p] = "watching" /\ ~Waits(p)
    /\ AddVaaFixItem(p, Event(Other, NoHash))
    /\ UNCHANGED <<vaas, fly, backfiller, up, stream, fixItems, pass, fixing, lookups, published, excuse, counts>>

Idle(p) == pass[p] = {} /\ fixing[p] = None

TakeInput(p) ==
    /\ Idle(p) /\ inputQueue[p] # <<>> /\ Head(inputQueue[p]).vaa # Other
    /\ inputQueue' = [inputQueue EXCEPT ![p] = Tail(@)]
    /\ fixItems' = [fixItems EXCEPT ![p][Head(inputQueue[p]).vaa] = Retries]
    /\ UNCHANGED <<vaas, fly, backfiller, up, stream, pass, fixing, lookups, published, excuse, counts>>

\* What becomes of the other on the list is what becomes of any.
TakeOther(p) ==
    /\ Idle(p) /\ inputQueue[p] # <<>> /\ Head(inputQueue[p]).vaa = Other
    /\ inputQueue' = [inputQueue EXCEPT ![p] = Tail(@)]
    /\ UNCHANGED <<vaas, fly, backfiller, up, stream, fixItems, pass, fixing, lookups, published, excuse, counts>>

\* The default branch: only when there is no input.
StartPass(p) ==
    /\ Idle(p) /\ inputQueue[p] = <<>>
    /\ pass' = [pass EXCEPT ![p] = {v \in Vaas : fixItems[p][v] # NotThere}]
    /\ pass'[p] # {}
    /\ UNCHANGED <<vaas, fly, backfiller, up, stream, inputQueue, fixItems, fixing, lookups, published, excuse, counts>>

\* Mutant: a failed lookup does not count.
LookupFailedForever(p, v) ==
    /\ lookups' = [lookups EXCEPT ![p][v] = IF @ < Retries THEN @ + 1 ELSE @]
    /\ pass' = [pass EXCEPT ![p] = @ \ {v}]
    /\ UNCHANGED fixItems

LookupFailed(p, v) ==
    /\ fixItems' = [fixItems EXCEPT ![p][v] = @ - 1]
    /\ lookups' = [lookups EXCEPT ![p][v] = @ + 1]
    /\ pass' = [pass EXCEPT ![p] = @ \ {v}]

GetVaaIdTxHash(p, v) ==
    /\ v \in pass[p] /\ fixing[p] = None /\ fixItems[p][v] > 0
    /\ \/ /\ vaaIdTxHash[v] \in Hashes
          /\ fixing' = [fixing EXCEPT ![p] = [vaa |-> v, hash |-> vaaIdTxHash[v], stored |-> FALSE]]
          /\ UNCHANGED <<fixItems, lookups, pass, counts>>
       \/ /\ \/ vaaIdTxHash[v] \notin Hashes /\ UNCHANGED counts
             \/ Fault
          /\ LookupFailed(p, v) /\ UNCHANGED fixing
    /\ UNCHANGED <<vaas, fly, backfiller, up, stream, inputQueue, published, excuse>>

UpdateVaaDocTxHash(p) ==
    /\ fixing[p] # None /\ ~fixing[p].stored
    /\ \/ /\ vaas' = [vaas EXCEPT ![fixing[p].vaa] = fixing[p].hash]
          /\ fixing' = [fixing EXCEPT ![p].stored = TRUE]
          /\ UNCHANGED <<fixItems, lookups, pass, counts>>
       \/ /\ Fault /\ LookupFailed(p, fixing[p].vaa)
          /\ fixing' = [fixing EXCEPT ![p] = None]
          /\ UNCHANGED vaas
    /\ UNCHANGED <<fly, backfiller, up, stream, inputQueue, published, excuse>>

\* Pushed and deleted, whether or not the push went well.
Leave(p, e) ==
    /\ Push(p, e)
    /\ fixItems' = [fixItems EXCEPT ![p][e.vaa] = NotThere]
    /\ pass' = [pass EXCEPT ![p] = @ \ {e.vaa}]
    /\ UNCHANGED <<vaas, fly, backfiller, up, stream, inputQueue, lookups>>

PublishFixed(p) ==
    /\ fixing[p] # None /\ fixing[p].stored
    /\ fixing' = [fixing EXCEPT ![p] = None]
    /\ Leave(p, fixing[p])

\* No lookups left: published without a hash.
PublishUnfixed(p, v) ==
    /\ v \in pass[p] /\ fixing[p] = None /\ fixItems[p][v] = 0
    /\ UNCHANGED fixing
    /\ Leave(p, Event(v, NoHash))

\* Still to be pushed by p.
Pending(p, v) ==
    \/ \E i \in DOMAIN stream[p] : stream[p][i].vaa = v
    \/ \E i \in DOMAIN inputQueue[p] : inputQueue[p][i].vaa = v
    \/ fixItems[p][v] # NotThere

\* Everything p had is in memory.
Crash(p) ==
    /\ up[p] # "down" /\ Fault
    /\ up' = [up EXCEPT ![p] = "down"]
    /\ excuse' = [v \in Vaas |-> IF Pending(p, v) THEN excuse[v] \union {p} ELSE excuse[v]]
    /\ stream' = [stream EXCEPT ![p] = <<>>]
    /\ inputQueue' = [inputQueue EXCEPT ![p] = <<>>]
    /\ fixItems' = [fixItems EXCEPT ![p] = [v \in Vaas |-> NotThere]]
    /\ pass' = [pass EXCEPT ![p] = {}]
    /\ fixing' = [fixing EXCEPT ![p] = None]
    /\ UNCHANGED <<vaas, fly, backfiller, lookups, published>>

\* A new stream, without a resume token: it starts now.
Restart(p) ==
    /\ up[p] = "down"
    /\ up' = [up EXCEPT ![p] = "watching"]
    /\ UNCHANGED <<vaas, fly, backfiller, stream, handler, published, excuse, counts>>

------------------------------------------------------------------------------
Fly ==
    \/ \E v \in Vaas, h \in {NoHash, Encoded} : UpsertObservation(v, h)
    \/ \E r \in Replicas : (\E v \in Vaas : FindTxHash(r, v)) \/ UpsertVaa(r) \/ UpsertVaaFails(r)

Handle(p) ==
    \/ TakeInput(p) \/ TakeOther(p) \/ StartPass(p)
    \/ \E v \in Vaas : GetVaaIdTxHash(p, v) \/ PublishUnfixed(p, v)
    \/ UpdateVaaDocTxHash(p) \/ PublishFixed(p)

Next ==
    \/ Fly
    \/ FindVaaByChainID \/ ReplaceInVaas \/ ReplaceInVaaIdTxHash
    \/ \E p \in Pipelines : Watch(p) \/ StreamEnds(p) \/ OtherComes(p) \/ Handle(p) \/ Crash(p) \/ Restart(p)

Spec == Init /\ [][Next]_vars

\* The two goroutines of a pipeline are scheduled.
FairSpec == Spec /\ \A p \in Pipelines : WF_vars(Watch(p)) /\ WF_vars(Handle(p))

------------------------------------------------------------------------------
(* What is checked.                                                         *)

TypeOK ==
    /\ vaas \in [Vaas -> Hashes \union {NoHash, Absent}]
    /\ vaaIdTxHash \in [Vaas -> Hashes \union {NoHash, Absent}]
    /\ origin \in [Vaas -> Hashes \union {NoHash}]
    /\ \A d \in (page \union {replacing}) \ {None} : d.vaa \in Vaas /\ vaas[d.vaa] # Absent
    /\ \A p \in Pipelines :
          /\ Len(inputQueue[p]) <= QueueSize
          /\ fixItems[p] \in [Vaas -> {NotThere} \union 0..Retries]
          /\ pass[p] \subseteq {v \in Vaas : fixItems[p][v] # NotThere}
          /\ fixing[p] # None => fixing[p].vaa \in pass[p]

\* A document that has a hash keeps one: neither another copy of the VAA, which
\* read vaaIdTxHash before the observation came or after one that could not be
\* encoded, nor pipeline, which read it long ago, nor the backfiller empties it.
HashKept == [][\A v \in Vaas : vaas[v] \in Hashes => vaas'[v] \in Hashes]_vars

\* _originTxHash keeps the hash as it was before encoding: a second run of the
\* backfiller, over documents other writers brought back to either form, never
\* takes an encoded hash for the original.
OriginIsRaw == \A v \in Vaas : origin[v] \in {NoHash, Raw}

\* An event with a hash is about a document with a hash.
PublishedHashStored == \A e \in published : e.hash # NoHash => vaas[e.vaa] \in Hashes

\* A replica publishes a VAA without its hash only after all lookups failed.
HashlessOnlyWhenExhausted ==
    \A e \in published : e.hash = NoHash /\ e.vaa \notin Pyth => lookups[e.by][e.vaa] >= Retries

\* What the three writers of a hash leave in documents and events is true of the
\* VAA: ReplaceVaaTxHash about the original hash, UpdateVaaDocTxHash before its
\* event, handleEmptyVaaTxHash when it gives up.
HashesTruthful == OriginIsRaw /\ PublishedHashStored /\ HashlessOnlyWhenExhausted

\* Each replica of pipeline has a stored VAA in its stream, its channel or its
\* list, has published it, or has an excuse: it was down or its stream had ended when
\* the VAA was inserted, it died with it or its stream ended before it, or it could not
\* read or push it.
NoVaaForgotten ==
    \A v \in Vaas, p \in Pipelines :
        vaas[v] # Absent =>
            Pending(p, v) \/ p \in excuse[v] \/ (\E e \in published : e.vaa = v /\ e.by = p)

\* What a replica has taken on it does not keep for ever, if other VAAs stop coming: the
\* list is only looked at when nothing else comes in, so that a steady input starves it.
VaaLeaves ==
    <>[][\A p \in Pipelines : ~OtherComes(p)]_vars =>
        \A v \in Vaas, p \in Pipelines : Pending(p, v) ~> ~Pending(p, v)
=============================================================================
