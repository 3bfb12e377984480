---------------------------- MODULE TxHashProofs ----------------------------
(***************************************************************************)
(* Theorems about TxHash, for every set of VAAs and replicas, every         *)
(* capacity and number of lookups, and every number of faults.              *)
(***************************************************************************)
EXTENDS TxHash, SequenceTheorems, TLAPS

USE QueueAssumption DEF NotThere, Absent, NoHash

------------------------------------------------------------------------------
(* Queues of events.                                                        *)

\* What is read of a document and goes through the streams.
Events == [vaa : Vaas, hash : Hashes \union {NoHash}]

\* What goes through the channels.
Inputs == [vaa : Vaas \union {Other}, hash : Hashes \union {NoHash}]

InQueue(q, v) == \E i \in DOMAIN q : q[i].vaa = v

\* Every event of the queue with a hash is about a document with one.
Truthful(q, docs) == \A i \in DOMAIN q : q[i].hash # NoHash => docs[q[i].vaa] \in Hashes

LEMMA AppendQueue ==
    ASSUME NEW E, NEW q \in Seq(E), NEW e \in E, NEW docs
    PROVE  /\ Append(q, e) \in Seq(E)
           /\ Len(Append(q, e)) = Len(q) + 1
           /\ \A v : InQueue(Append(q, e), v) <=> InQueue(q, v) \/ e.vaa = v
           /\ Truthful(q, docs) /\ (e.hash # NoHash => docs[e.vaa] \in Hashes)
                 => Truthful(Append(q, e), docs)
<1>1. /\ Append(q, e) \in Seq(E) /\ Len(Append(q, e)) = Len(q) + 1 /\ Len(q) \in Nat
      /\ DOMAIN q = 1..Len(q) /\ DOMAIN Append(q, e) = 1..(Len(q) + 1)
      /\ \A i \in 1..Len(q) : Append(q, e)[i] = q[i]
      /\ Append(q, e)[Len(q) + 1] = e
  OBVIOUS
<1>2. \A i \in 1..(Len(q) + 1) : i \in 1..Len(q) \/ i = Len(q) + 1
  BY <1>1
<1>3. 1..Len(q) \subseteq 1..(Len(q) + 1) /\ Len(q) + 1 \in 1..(Len(q) + 1)
  BY <1>1
<1>4. ASSUME NEW v PROVE InQueue(Append(q, e), v) <=> InQueue(q, v) \/ e.vaa = v
  BY <1>1, <1>2, <1>3 DEF InQueue
<1>5. Truthful(q, docs) /\ (e.hash # NoHash => docs[e.vaa] \in Hashes)
        => Truthful(Append(q, e), docs)
  BY <1>1, <1>2, <1>3 DEF Truthful
<1> QED BY <1>1, <1>4, <1>5

LEMMA TailQueue ==
    ASSUME NEW E, NEW q \in Seq(E), q # <<>>, NEW docs
    PROVE  /\ Tail(q) \in Seq(E) /\ Head(q) \in E
           /\ Len(Tail(q)) <= Len(q)
           /\ \A v : InQueue(q, v) <=> InQueue(Tail(q), v) \/ Head(q).vaa = v
           /\ Truthful(q, docs) => /\ Truthful(Tail(q), docs)
                                   /\ Head(q).hash # NoHash => docs[Head(q).vaa] \in Hashes
<1>1. /\ Tail(q) \in Seq(E) /\ Head(q) = q[1] /\ Head(q) \in E
      /\ Len(q) \in Nat \ {0} /\ Len(Tail(q)) = Len(q) - 1
      /\ DOMAIN q = 1..Len(q) /\ DOMAIN Tail(q) = 1..(Len(q) - 1)
      /\ \A i \in 1..(Len(q) - 1) : Tail(q)[i] = q[i + 1]
  BY HeadTailProperties, EmptySeq, LenProperties
<1>2. ASSUME NEW n \in Nat \ {0}
      PROVE  /\ \A i \in 1..n : i = 1 \/ (i - 1 \in 1..(n - 1) /\ (i - 1) + 1 = i)
             /\ \A i \in 1..(n - 1) : i + 1 \in 1..n
             /\ 1 \in 1..n /\ n - 1 <= n
  OBVIOUS
<1>3. /\ \A i \in 1..Len(q) : i = 1 \/ (i - 1 \in 1..(Len(q) - 1) /\ q[i] = Tail(q)[i - 1])
      /\ \A i \in 1..(Len(q) - 1) : i + 1 \in 1..Len(q)
      /\ 1 \in 1..Len(q) /\ Len(Tail(q)) <= Len(q)
  BY <1>1, <1>2
<1>4. ASSUME NEW v PROVE InQueue(q, v) <=> InQueue(Tail(q), v) \/ Head(q).vaa = v
  BY <1>1, <1>3 DEF InQueue
<1>5. ASSUME Truthful(q, docs)
      PROVE  Truthful(Tail(q), docs) /\ (Head(q).hash # NoHash => docs[Head(q).vaa] \in Hashes)
  <2>1. \A i \in 1..Len(q) : q[i].hash # NoHash => docs[q[i].vaa] \in Hashes
    BY <1>1, <1>5 DEF Truthful
  <2>2. \A i \in 1..(Len(q) - 1) : Tail(q)[i].hash # NoHash => docs[Tail(q)[i].vaa] \in Hashes
    <3> TAKE i \in 1..(Len(q) - 1)
    <3>1. i + 1 \in 1..Len(q) /\ Tail(q)[i] = q[i + 1]
      BY <1>1, <1>3
    <3>2. q[i + 1].hash # NoHash => docs[q[i + 1].vaa] \in Hashes
      BY <2>1, <3>1
    <3> QED BY <3>1, <3>2
  <2> QED BY <1>1, <1>3, <2>1, <2>2 DEF Truthful
<1> QED BY <1>1, <1>3, <1>4, <1>5

LEMMA NoQueue ==
    ASSUME NEW E, NEW docs
    PROVE  /\ <<>> \in Seq(E) /\ Len(<<>>) = 0 /\ Truthful(<<>>, docs)
           /\ \A v : ~InQueue(<<>>, v)
<1>1. <<>> \in Seq(E) /\ Len(<<>>) = 0 /\ DOMAIN <<>> = {}
  BY EmptySeq
<1> QED BY <1>1 DEF Truthful, InQueue

LEMMA TruthStays ==
    ASSUME NEW q \in Seq(Events), NEW docs, NEW newer, Truthful(q, docs),
           \A v \in Vaas : docs[v] \in Hashes => newer[v] \in Hashes
    PROVE  Truthful(q, newer)
<1>1. \A i \in DOMAIN q : q[i] \in Events
  BY ElementOfSeq, LenProperties
<1> QED BY <1>1 DEF Truthful, Events

------------------------------------------------------------------------------
(* The inductive invariant.                                                 *)

Found == [vaa : Vaas, hash : Hashes, stored : BOOLEAN]

DocTypes ==
    /\ vaas \in [Vaas -> Hashes \union {NoHash, Absent}]
    /\ vaaIdTxHash \in [Vaas -> Hashes \union {NoHash, Absent}]
    /\ origin \in [Vaas -> {NoHash, Raw}]
    /\ looked \in [Replicas -> Events \union {None}]
    /\ page \subseteq [vaa : Vaas, hash : {Raw}]
    /\ replacing \in [vaa : Vaas, hash : {Raw}] \union {None}

HandlerTypes ==
    /\ inputQueue \in [Pipelines -> Seq(Inputs)]
    /\ fixItems \in [Pipelines -> [Vaas -> {NotThere} \union 0..Retries]]
    /\ pass \in [Pipelines -> SUBSET Vaas]
    /\ fixing \in [Pipelines -> Found \union {None}]
    /\ lookups \in [Pipelines -> [Vaas -> Nat]]

PipelineTypes ==
    /\ up \in [Pipelines -> {"down", "watching", "deaf"}]
    /\ stream \in [Pipelines -> Seq(Events)]
    /\ published \subseteq [by : Pipelines, vaa : Vaas, hash : Hashes \union {NoHash}]
    /\ excuse \in [Vaas -> SUBSET Pipelines]

\* The backfiller only holds documents that are there.
PagesStored ==
    /\ \A d \in page : vaas[d.vaa] # Absent
    /\ replacing # None => vaas[replacing.vaa] # Absent

\* The list of replica p, and the VAA it is at: that one has a lookup left, so
\* that a failed update does not make it disappear from the list.
ListOK(p) ==
    /\ Len(inputQueue[p]) <= QueueSize
    /\ pass[p] \subseteq {v \in Vaas : fixItems[p][v] # NotThere}
    /\ fixing[p] # None =>
          /\ fixing[p].vaa \in pass[p] /\ fixItems[p][fixing[p].vaa] > 0
          /\ fixing[p].stored => vaas[fixing[p].vaa] \in Hashes
    /\ \A v \in Vaas : fixItems[p][v] # NotThere => lookups[p][v] + fixItems[p][v] >= Retries

PublishedBy(p, v) == \E e \in published : e.vaa = v /\ e.by = p

\* What replica p has of every VAA, and what it has published.
AccountOK(p) ==
    /\ Truthful(stream[p], vaas)
    /\ \A v \in Vaas :
          /\ Pending(p, v) => vaas[v] # Absent
          /\ vaas[v] # Absent => Pending(p, v) \/ p \in excuse[v] \/ PublishedBy(p, v)
    /\ \A e \in published :
          e.by = p =>
             /\ e.hash # NoHash => vaas[e.vaa] \in Hashes
             /\ e.hash = NoHash /\ e.vaa \notin Pyth => lookups[p][e.vaa] >= Retries

Typed == DocTypes /\ HandlerTypes /\ PipelineTypes

IInv ==
    /\ Typed
    /\ PagesStored
    /\ \A p \in Pipelines : ListOK(p) /\ AccountOK(p)

LEMMA PendingIs ==
    ASSUME NEW p, NEW v
    PROVE  Pending(p, v) <=> InQueue(stream[p], v) \/ InQueue(inputQueue[p], v) \/ fixItems[p][v] # NotThere
  BY DEF Pending, InQueue

LEMMA InitIInv == Init => IInv
<1> SUFFICES ASSUME Init PROVE IInv
  OBVIOUS
<1>1. /\ <<>> \in Seq(Events) /\ <<>> \in Seq(Inputs)
      /\ Len(<<>>) = 0 /\ \A v : ~InQueue(<<>>, v)
      /\ Truthful(<<>>, vaas)
  BY NoQueue
<1>2. DocTypes
  BY DEF Init, DocTypes, Hashes
<1>3. HandlerTypes
  <2>1. inputQueue \in [Pipelines -> Seq(Inputs)] BY <1>1 DEF Init
  <2>2. fixItems \in [Pipelines -> [Vaas -> {NotThere} \union 0..Retries]] BY DEF Init
  <2>3. /\ pass \in [Pipelines -> SUBSET Vaas] /\ fixing \in [Pipelines -> Found \union {None}]
        /\ lookups \in [Pipelines -> [Vaas -> Nat]]
    BY DEF Init
  <2> QED BY <2>1, <2>2, <2>3 DEF HandlerTypes
<1>4. PipelineTypes
  BY <1>1 DEF Init, PipelineTypes
<1>5. PagesStored
  BY DEF Init, PagesStored
<1>6. ASSUME NEW p \in Pipelines PROVE ListOK(p) /\ AccountOK(p)
  <2>1. /\ stream[p] = <<>> /\ inputQueue[p] = <<>> /\ pass[p] = {} /\ fixing[p] = None
        /\ \A v \in Vaas : fixItems[p][v] = NotThere
        /\ published = {}
        /\ \A v \in Vaas : vaas[v] # Absent => p \in excuse[v]
    BY DEF Init
  <2>2. \A v \in Vaas : ~Pending(p, v)
    BY <1>1, <2>1, PendingIs
  <2> QED BY <1>1, <2>1, <2>2 DEF ListOK, AccountOK
<1> QED BY <1>2, <1>3, <1>4, <1>5, <1>6 DEF IInv, Typed

------------------------------------------------------------------------------
(* Steps that leave a replica alone.                                        *)

\* No document disappears, none comes, and none that has a hash loses it.
DocsStay ==
    \A v \in Vaas : /\ vaas'[v] = Absent <=> vaas[v] = Absent
                    /\ vaas[v] \in Hashes => vaas'[v] \in Hashes

LEMMA ReplicaStays ==
    ASSUME Typed, NEW q \in Pipelines, ListOK(q), AccountOK(q), DocsStay,
           stream'[q] = stream[q], inputQueue'[q] = inputQueue[q],
           fixItems'[q] = fixItems[q], pass'[q] = pass[q],
           fixing'[q] = fixing[q], lookups'[q] = lookups[q],
           published \subseteq published', \A e \in published' : e.by = q => e \in published,
           \A v \in Vaas : q \in excuse[v] => q \in excuse'[v]
    PROVE  ListOK(q)' /\ AccountOK(q)'
<1>1. ListOK(q)'
  <2>1. fixing[q] # None => fixing[q].vaa \in Vaas
    BY DEF Typed, HandlerTypes, Found
  <2> QED BY <2>1 DEF ListOK, DocsStay
<1>2. \A v \in Vaas : Pending(q, v)' <=> Pending(q, v)
  BY DEF Pending
<1>3. Truthful(stream'[q], vaas')
  <2>1. stream[q] \in Seq(Events) BY DEF Typed, PipelineTypes
  <2> QED BY <2>1, TruthStays DEF AccountOK, DocsStay
<1>4. \A v \in Vaas : PublishedBy(q, v) => PublishedBy(q, v)'
  BY DEF PublishedBy
<1>5. \A e \in published : e.vaa \in Vaas
  BY DEF Typed, PipelineTypes
<1>6. AccountOK(q)'
  BY <1>2, <1>3, <1>4, <1>5 DEF AccountOK, DocsStay
<1> QED BY <1>1, <1>6

\* The steps of fly that insert no document, and those of the backfiller.
LEMMA DocStep ==
    ASSUME IInv, DocsStay, DocTypes', PagesStored',
           UNCHANGED <<up, stream, handler, published, excuse>>
    PROVE  IInv'
<1>1. HandlerTypes' /\ PipelineTypes'
  BY DEF IInv, Typed, HandlerTypes, PipelineTypes, handler
<1>2. \A q \in Pipelines : ListOK(q)' /\ AccountOK(q)'
  BY ReplicaStays DEF IInv, handler
<1> QED BY <1>1, <1>2 DEF IInv, Typed

LEMMA FlyStep ==
    ASSUME IInv,
           \/ \E v \in Vaas, h \in {NoHash, Encoded} : UpsertObservation(v, h)
           \/ \E r \in Replicas, v \in Vaas : FindTxHash(r, v)
           \/ \E r \in Replicas : UpsertVaaFails(r)
           \/ UNCHANGED vars
    PROVE  IInv'
<1> USE DEF IInv, Typed, DocTypes, PagesStored, DocsStay, backfiller, handler, fly
<1>1. ASSUME NEW v \in Vaas, NEW h \in {NoHash, Encoded}, UpsertObservation(v, h) PROVE IInv'
  <2>1. DocTypes' /\ PagesStored' /\ DocsStay
    BY <1>1 DEF UpsertObservation, Hashes
  <2> QED BY <1>1, <2>1, DocStep DEF UpsertObservation
<1>2. ASSUME NEW r \in Replicas, NEW v \in Vaas, FindTxHash(r, v) PROVE IInv'
  <2>1. \A h \in Hashes \union {NoHash} : Event(v, h) \in Events
    BY DEF Event, Events
  <2>2. looked' \in [Replicas -> Events \union {None}]
    <3>1. PICK h \in Hashes \union {NoHash} : looked' = [looked EXCEPT ![r] = Event(v, h)]
      BY <1>2 DEF FindTxHash
    <3> QED BY <2>1, <3>1
  <2>3. DocTypes' /\ PagesStored' /\ DocsStay
    BY <1>2, <2>2 DEF FindTxHash
  <2> QED BY <1>2, <2>3, DocStep DEF FindTxHash
<1>3. ASSUME NEW r \in Replicas, UpsertVaaFails(r) PROVE IInv'
  <2>1. DocTypes' /\ PagesStored' /\ DocsStay
    BY <1>3 DEF UpsertVaaFails
  <2> QED BY <1>3, <2>1, DocStep DEF UpsertVaaFails
<1>4. CASE UNCHANGED vars
  <2>1. DocTypes' /\ PagesStored' /\ DocsStay
    BY <1>4 DEF vars
  <2> QED BY <1>4, <2>1, DocStep DEF vars
<1> QED BY <1>1, <1>2, <1>3, <1>4

LEMMA BackfillerStep ==
    ASSUME IInv, FindVaaByChainID \/ ReplaceInVaas \/ ReplaceInVaaIdTxHash
    PROVE  IInv'
<1> USE DEF IInv, Typed, DocTypes, PagesStored, DocsStay, backfiller, handler, fly
<1>1. CASE FindVaaByChainID
  <2>1. /\ page' \subseteq [vaa : Vaas, hash : {Raw}]
        /\ \A d \in page' : vaas[d.vaa] # Absent
    <3>1. page' = {Event(v, vaas[v]) : v \in {w \in Vaas \ Pyth : ToEncode(w)}}
      BY <1>1 DEF FindVaaByChainID
    <3>2. ASSUME NEW d \in page' PROVE d \in [vaa : Vaas, hash : {Raw}] /\ vaas[d.vaa] # Absent
      <4>1. PICK v \in Vaas : d = [vaa |-> v, hash |-> vaas[v]] /\ vaas[v] = Raw
        BY <3>1 DEF ToEncode, Event
      <4> QED BY <4>1 DEF Raw
    <3> QED BY <3>2
  <2>2. UNCHANGED <<vaas, replacing, origin, fly>>
    BY <1>1 DEF FindVaaByChainID
  <2>3. DocTypes' /\ PagesStored' /\ DocsStay
    BY <2>1, <2>2
  <2> QED BY <1>1, <2>3, DocStep DEF FindVaaByChainID
<1>2. CASE ReplaceInVaas
  <2>1. PICK d \in page :
          /\ page' = page \ {d}
          /\ \/ /\ vaas' = [vaas EXCEPT ![d.vaa] = Encoded]
                /\ origin' = [origin EXCEPT ![d.vaa] = d.hash]
                /\ replacing' = d
             \/ UNCHANGED <<vaas, origin, replacing>>
          /\ UNCHANGED <<fly, up, stream, handler, published, excuse>>
    BY <1>2 DEF ReplaceInVaas
  <2>2. d.vaa \in Vaas /\ d.hash = Raw /\ d \in [vaa : Vaas, hash : {Raw}]
        /\ vaas[d.vaa] # Absent /\ Encoded # Absent
    BY DEF Encoded
  <2>3. page' \subseteq page /\ UNCHANGED <<vaaIdTxHash, looked>>
    BY <2>1
  <2>4. DocTypes' /\ DocsStay
    <3>1. CASE UNCHANGED <<vaas, origin, replacing>> BY <2>3, <3>1
    <3>2. CASE ~ UNCHANGED <<vaas, origin, replacing>>
      <4>1. /\ vaas' \in [Vaas -> Hashes \union {NoHash, Absent}]
            /\ origin' \in [Vaas -> {NoHash, Raw}]
            /\ DocsStay
        BY <2>1, <2>2, <3>2 DEF Hashes
      <4> QED BY <2>1, <2>2, <2>3, <3>2, <4>1
    <3> QED BY <3>1, <3>2
  <2>5. PagesStored'
    BY <2>1, <2>2, <2>3, <2>4
  <2> QED BY <2>1, <2>4, <2>5, DocStep
<1>3. CASE ReplaceInVaaIdTxHash
  <2>1. vaaIdTxHash' \in [Vaas -> Hashes \union {NoHash, Absent}]
    BY <1>3 DEF ReplaceInVaaIdTxHash, Hashes
  <2>2. replacing' = None /\ UNCHANGED <<vaas, looked, page, origin>>
    BY <1>3 DEF ReplaceInVaaIdTxHash
  <2>3. DocTypes' /\ PagesStored' /\ DocsStay
    BY <2>1, <2>2
  <2> QED BY <1>3, <2>3, DocStep DEF ReplaceInVaaIdTxHash
<1> QED BY <1>1, <1>2, <1>3

\* A document that is inserted goes to the streams of the replicas that have one; the
\* others are excused.
LEMMA InsertStep ==
    ASSUME IInv, NEW r \in Replicas, UpsertVaa(r)
    PROVE  IInv'
<1>0. PICK v \in Vaas, h \in Hashes \union {NoHash} : looked[r].vaa = v /\ looked[r].hash = h
  <2>1. looked[r] \in Events
    BY DEF IInv, Typed, DocTypes, UpsertVaa
  <2> QED BY <2>1 DEF Events
<1>1. /\ v \in Vaas /\ h \in Hashes \union {NoHash}
      /\ vaas[v] \in Hashes \union {NoHash, Absent}
      /\ Absent \notin Hashes /\ NoHash \notin Hashes
  BY DEF IInv, Typed, DocTypes, Hashes, Raw, Encoded
<1> DEFINE e == Event(v, vaas'[v])
           Unwatched == {p \in Pipelines : up[p] # "watching"}
<1>2. /\ vaas' = [vaas EXCEPT ![v] = StoredHash(v, h)]
      /\ looked' = [looked EXCEPT ![r] = None]
      /\ UNCHANGED <<vaaIdTxHash, origin, page, replacing>>
      /\ UNCHANGED <<inputQueue, fixItems, pass, fixing, lookups>>
      /\ UNCHANGED <<up, published>>
      /\ stream' = [p \in Pipelines |->
             IF vaas[v] = Absent /\ up[p] = "watching" THEN Append(stream[p], e) ELSE stream[p]]
      /\ excuse' = IF vaas[v] = Absent THEN [excuse EXCEPT ![v] = Unwatched] ELSE excuse
  <2>1. vaas' = [vaas EXCEPT ![v] = StoredHash(v, h)]
    BY <1>0 DEF UpsertVaa
  <2>2. stream' = [p \in Pipelines |->
             IF vaas[v] = Absent /\ up[p] = "watching" THEN Append(stream[p], e) ELSE stream[p]]
    <3>1. stream' = [p \in Pipelines |->
             IF vaas[looked[r].vaa] = Absent /\ up[p] = "watching"
             THEN Append(stream[p], Event(looked[r].vaa, vaas'[looked[r].vaa])) ELSE stream[p]]
      BY DEF UpsertVaa
    <3> QED BY <1>0, <3>1, Zenon
  <2>3. excuse' = IF vaas[v] = Absent THEN [excuse EXCEPT ![v] = Unwatched] ELSE excuse
    BY <1>0 DEF UpsertVaa
  <2> QED BY <2>1, <2>2, <2>3 DEF UpsertVaa, backfiller, handler
<1>3. /\ StoredHash(v, h) \in Hashes \union {NoHash}
      /\ vaas[v] \in Hashes => StoredHash(v, h) \in Hashes
  BY <1>1 DEF StoredHash
<1>4. /\ vaas' \in [Vaas -> Hashes \union {NoHash, Absent}]
      /\ vaas'[v] \in Hashes \union {NoHash}
      /\ \A w \in Vaas : w # v => vaas'[w] = vaas[w]
      /\ \A w \in Vaas : vaas[w] \in Hashes => vaas'[w] \in Hashes
      /\ \A w \in Vaas : vaas[w] # Absent => vaas'[w] # Absent
  BY <1>1, <1>2, <1>3 DEF IInv, Typed, DocTypes
<1>5. e \in Events /\ e.vaa = v /\ e.hash = vaas'[v]
  BY <1>1, <1>4 DEF Event, Events
<1> HIDE DEF e
<1>6. DocTypes' /\ PagesStored'
  BY <1>1, <1>2, <1>4 DEF IInv, Typed, DocTypes, PagesStored
<1>7. stream \in [Pipelines -> Seq(Events)] /\ excuse \in [Vaas -> SUBSET Pipelines]
      /\ Unwatched \subseteq Pipelines
  BY DEF IInv, Typed, PipelineTypes
<1>8. HandlerTypes' /\ PipelineTypes'
  <2>1. stream' \in [Pipelines -> Seq(Events)]
    BY <1>2, <1>5, <1>7, AppendQueue
  <2>2. excuse' \in [Vaas -> SUBSET Pipelines]
    BY <1>1, <1>2, <1>7
  <2> QED BY <1>2, <2>1, <2>2 DEF IInv, Typed, HandlerTypes, PipelineTypes
<1>9. ASSUME NEW q \in Pipelines PROVE ListOK(q)' /\ AccountOK(q)'
  <2>0. ListOK(q) /\ AccountOK(q) /\ Typed
    BY DEF IInv
  <2>1. CASE vaas[v] # Absent
    <3>1. DocsStay BY <1>1, <1>4, <2>1 DEF DocsStay
    <3>2. stream'[q] = stream[q] /\ excuse' = excuse BY <1>2, <2>1
    <3> QED BY <1>2, <2>0, <3>1, <3>2, ReplicaStays
  <2>2. CASE vaas[v] = Absent
    <3>1. ListOK(q)'
      <4>1. fixing[q] # None => fixing[q].vaa \in Vaas
        BY <2>0 DEF Typed, HandlerTypes, Found
      <4> QED BY <1>2, <1>4, <2>0, <4>1 DEF ListOK
    <3>2. Truthful(stream'[q], vaas')
      <4>1. Truthful(stream[q], vaas') BY <1>4, <1>7, <2>0, TruthStays DEF AccountOK
      <4>2. e.hash # NoHash => vaas'[e.vaa] \in Hashes BY <1>4, <1>5
      <4> QED BY <1>2, <1>5, <1>7, <4>1, <4>2, AppendQueue
    <3>3. \A w \in Vaas : /\ InQueue(stream[q], w) => InQueue(stream'[q], w)
                          /\ InQueue(stream'[q], w) => InQueue(stream[q], w) \/ w = v
      BY <1>2, <1>5, <1>7, AppendQueue
    <3>4. \A w \in Vaas : /\ Pending(q, w) => Pending(q, w)'
                          /\ Pending(q, w)' => Pending(q, w) \/ w = v
      BY <1>2, <3>3 DEF Pending, InQueue
    <3>5. Pending(q, v)' \/ q \in excuse'[v]
      <4>1. CASE up[q] = "watching"
        <5>1. InQueue(stream'[q], v) BY <1>2, <1>5, <1>7, <2>2, <4>1, AppendQueue
        <5> QED BY <5>1 DEF Pending, InQueue
      <4>2. CASE up[q] # "watching"
        <5>1. excuse' = [excuse EXCEPT ![v] = Unwatched]
          BY <1>2, <2>2
        <5>2. q \in excuse'[v]
          BY <1>1, <1>7, <4>2, <5>1
        <5> QED BY <5>2
      <4> QED BY <4>1, <4>2
    <3>6. \A w \in Vaas : w # v => excuse'[w] = excuse[w]
      BY <1>2, <1>7, <2>2
    <3>7. \A w \in Vaas : PublishedBy(q, w)' = PublishedBy(q, w)
      BY <1>2 DEF PublishedBy
    <3>8. \A w \in Vaas :
             /\ Pending(q, w)' => vaas'[w] # Absent
             /\ vaas'[w] # Absent => Pending(q, w)' \/ q \in excuse'[w] \/ PublishedBy(q, w)'
      <4> TAKE w \in Vaas
      <4>1. CASE w = v
        <5>1. v \in Vaas /\ vaas'[v] # Absent
          BY <1>1, <1>4 DEF Hashes, Raw, Encoded
        <5> QED BY <3>5, <4>1, <5>1
      <4>2. CASE w # v
        <5>1. /\ Pending(q, w) => vaas[w] # Absent
              /\ vaas[w] # Absent => Pending(q, w) \/ q \in excuse[w] \/ PublishedBy(q, w)
          BY <2>0 DEF AccountOK
        <5>2. /\ vaas'[w] = vaas[w] /\ excuse'[w] = excuse[w]
              /\ Pending(q, w)' <=> Pending(q, w)
              /\ PublishedBy(q, w)' <=> PublishedBy(q, w)
          BY <1>4, <3>4, <3>6, <3>7, <4>2
        <5> QED BY <5>1, <5>2
      <4> QED BY <4>1, <4>2
    <3>9. \A d \in published : d.vaa \in Vaas
      BY <2>0 DEF Typed, PipelineTypes
    <3> QED BY <1>2, <1>4, <2>0, <3>1, <3>2, <3>8, <3>9 DEF AccountOK
  <2> QED BY <2>1, <2>2
<1> QED BY <1>6, <1>8, <1>9 DEF IInv, Typed

------------------------------------------------------------------------------
(* Steps of a replica of pipeline.                                          *)

OthersStay(p) ==
    \A q \in Pipelines \ {p} :
        /\ stream'[q] = stream[q] /\ inputQueue'[q] = inputQueue[q]
        /\ fixItems'[q] = fixItems[q] /\ pass'[q] = pass[q]
        /\ fixing'[q] = fixing[q] /\ lookups'[q] = lookups[q]

\* A step of replica p loses nothing: what is no longer pending is published, or
\* excused, and what it publishes is true.
Moves(p) ==
    /\ OthersStay(p)
    /\ \A v \in Vaas : lookups'[p][v] >= lookups[p][v]
    /\ Truthful(stream'[p], vaas')
    /\ \A v \in Vaas :
          /\ Pending(p, v)' => Pending(p, v)
          /\ Pending(p, v) => Pending(p, v)' \/ p \in excuse'[v] \/ PublishedBy(p, v)'
          /\ excuse[v] \subseteq excuse'[v]
    /\ published \subseteq published'
    /\ \A e \in published' \ published :
          /\ e.by = p
          /\ e.hash # NoHash => vaas'[e.vaa] \in Hashes
          /\ e.hash = NoHash /\ e.vaa \notin Pyth => lookups'[p][e.vaa] >= Retries

LEMMA ReplicaStep ==
    ASSUME IInv, NEW p \in Pipelines, DocsStay, Moves(p), ListOK(p)',
           DocTypes', PagesStored', HandlerTypes', PipelineTypes'
    PROVE  IInv'
<1>1. ASSUME NEW q \in Pipelines, q # p PROVE ListOK(q)' /\ AccountOK(q)'
  <2>1. /\ stream'[q] = stream[q] /\ inputQueue'[q] = inputQueue[q]
        /\ fixItems'[q] = fixItems[q] /\ pass'[q] = pass[q]
        /\ fixing'[q] = fixing[q] /\ lookups'[q] = lookups[q]
    BY <1>1 DEF Moves, OthersStay
  <2>2. /\ published \subseteq published' /\ \A e \in published' : e.by = q => e \in published
        /\ \A v \in Vaas : q \in excuse[v] => q \in excuse'[v]
    BY <1>1 DEF Moves
  <2> QED BY <2>1, <2>2, ReplicaStays DEF IInv
<1>2. AccountOK(p)'
  <2>1. AccountOK(p) /\ Typed BY DEF IInv
  <2>2. ASSUME NEW v \in Vaas
        PROVE  /\ Pending(p, v)' => vaas'[v] # Absent
               /\ vaas'[v] # Absent => Pending(p, v)' \/ p \in excuse'[v] \/ PublishedBy(p, v)'
    <3>1. /\ Pending(p, v) => vaas[v] # Absent
          /\ vaas[v] # Absent => Pending(p, v) \/ p \in excuse[v] \/ PublishedBy(p, v)
          /\ vaas'[v] = Absent <=> vaas[v] = Absent
      BY <2>1 DEF AccountOK, DocsStay
    <3>2. /\ Pending(p, v)' => Pending(p, v)
          /\ Pending(p, v) => Pending(p, v)' \/ p \in excuse'[v] \/ PublishedBy(p, v)'
          /\ p \in excuse[v] => p \in excuse'[v]
          /\ PublishedBy(p, v) => PublishedBy(p, v)'
      BY DEF Moves, PublishedBy
    <3> QED BY <3>1, <3>2
  <2>3. ASSUME NEW e \in published', e.by = p
        PROVE  /\ e.hash # NoHash => vaas'[e.vaa] \in Hashes
               /\ e.hash = NoHash /\ e.vaa \notin Pyth => lookups'[p][e.vaa] >= Retries
    <3>1. CASE e \notin published BY <3>1 DEF Moves
    <3>2. CASE e \in published
      <4>1. e.vaa \in Vaas
        BY <2>1, <3>2 DEF Typed, PipelineTypes
      <4>3. lookups[p][e.vaa] \in Nat /\ lookups'[p][e.vaa] \in Nat
        BY <2>1, <4>1 DEF Typed, HandlerTypes
      <4>4. lookups'[p][e.vaa] >= lookups[p][e.vaa]
        BY <4>1 DEF Moves
      <4>2. /\ e.hash # NoHash => vaas[e.vaa] \in Hashes
            /\ e.hash = NoHash /\ e.vaa \notin Pyth => lookups[p][e.vaa] >= Retries
        BY <2>1, <2>3, <3>2 DEF AccountOK
      <4>5. lookups[p][e.vaa] >= Retries => lookups'[p][e.vaa] >= Retries
        BY <4>3, <4>4
      <4> QED BY <4>1, <4>2, <4>5 DEF DocsStay
    <3> QED BY <3>1, <3>2
  <2> QED BY <2>2, <2>3 DEF AccountOK, Moves
<1> QED BY <1>1, <1>2 DEF IInv, Typed

\* What a push leaves, whether or not it fails.
PushLeaves(p, v, h) ==
    \/ published' = published \union {[by |-> p, vaa |-> v, hash |-> h]} /\ UNCHANGED excuse
    \/ excuse' = [excuse EXCEPT ![v] = @ \union {p}] /\ UNCHANGED published

PushedOrExcused(p, v, h) ==
    /\ published' \subseteq [by : Pipelines, vaa : Vaas, hash : Hashes \union {NoHash}]
    /\ excuse' \in [Vaas -> SUBSET Pipelines]
    /\ published \subseteq published'
    /\ \A x \in published' \ published : x.by = p /\ x.vaa = v /\ x.hash = h
    /\ \A w \in Vaas : excuse[w] \subseteq excuse'[w]
    /\ p \in excuse'[v] \/ PublishedBy(p, v)'

LEMMA Pushed ==
    ASSUME PipelineTypes, NEW p \in Pipelines, NEW v \in Vaas,
           NEW h \in Hashes \union {NoHash}, PushLeaves(p, v, h)
    PROVE  PushedOrExcused(p, v, h)
<1>1. CASE published' = published \union {[by |-> p, vaa |-> v, hash |-> h]} /\ UNCHANGED excuse
  <2>1. [by |-> p, vaa |-> v, hash |-> h] \in published'
    BY <1>1
  <2>2. PublishedBy(p, v)' BY <2>1 DEF PublishedBy
  <2>3. published' \subseteq [by : Pipelines, vaa : Vaas, hash : Hashes \union {NoHash}]
    <3>1. [by |-> p, vaa |-> v, hash |-> h] \in [by : Pipelines, vaa : Vaas, hash : Hashes \union {NoHash}]
      OBVIOUS
    <3> QED BY <1>1, <3>1 DEF PipelineTypes
  <2>4. ASSUME NEW x \in published' \ published PROVE x.by = p /\ x.vaa = v /\ x.hash = h
    <3>1. x = [by |-> p, vaa |-> v, hash |-> h]
      BY <1>1
    <3> QED BY <3>1
  <2>5. published \subseteq published' /\ excuse' \in [Vaas -> SUBSET Pipelines]
        /\ \A w \in Vaas : excuse[w] \subseteq excuse'[w]
    BY <1>1 DEF PipelineTypes
  <2> QED BY <2>2, <2>3, <2>4, <2>5 DEF PushedOrExcused
<1>2. CASE excuse' = [excuse EXCEPT ![v] = @ \union {p}] /\ UNCHANGED published
  BY <1>2 DEF PipelineTypes, PushedOrExcused
<1> QED BY <1>1, <1>2 DEF PushLeaves

\* A failed lookup is counted once, in the list and in the history.
LEMMA Failed ==
    ASSUME HandlerTypes, NEW p \in Pipelines, NEW v \in Vaas,
           fixItems[p][v] > 0, LookupFailed(p, v)
    PROVE  /\ fixItems' \in [Pipelines -> [Vaas -> {NotThere} \union 0..Retries]]
           /\ lookups' \in [Pipelines -> [Vaas -> Nat]]
           /\ pass' \in [Pipelines -> SUBSET Vaas] /\ pass'[p] = pass[p] \ {v}
           /\ \A q \in Pipelines \ {p} :
                 fixItems'[q] = fixItems[q] /\ lookups'[q] = lookups[q] /\ pass'[q] = pass[q]
           /\ \A w \in Vaas :
                 /\ fixItems'[p][w] # NotThere <=> fixItems[p][w] # NotThere
                 /\ lookups'[p][w] >= lookups[p][w]
                 /\ lookups'[p][w] + fixItems'[p][w] = lookups[p][w] + fixItems[p][w]
<1>1. fixItems[p][v] \in 1..Retries /\ lookups[p][v] \in Nat
  BY DEF HandlerTypes
<1>2. fixItems[p][v] - 1 \in 0..Retries /\ lookups[p][v] + 1 \in Nat
  BY <1>1
<1>3. /\ fixItems' = [fixItems EXCEPT ![p] = [fixItems[p] EXCEPT ![v] = fixItems[p][v] - 1]]
      /\ lookups' = [lookups EXCEPT ![p] = [lookups[p] EXCEPT ![v] = lookups[p][v] + 1]]
      /\ pass' = [pass EXCEPT ![p] = pass[p] \ {v}]
  BY DEF LookupFailed, HandlerTypes
<1>4. /\ fixItems' \in [Pipelines -> [Vaas -> {NotThere} \union 0..Retries]]
      /\ lookups' \in [Pipelines -> [Vaas -> Nat]]
      /\ pass' \in [Pipelines -> SUBSET Vaas] /\ pass'[p] = pass[p] \ {v}
  BY <1>2, <1>3 DEF HandlerTypes
<1>5. \A q \in Pipelines \ {p} :
         fixItems'[q] = fixItems[q] /\ lookups'[q] = lookups[q] /\ pass'[q] = pass[q]
  BY <1>3 DEF HandlerTypes
<1>6. ASSUME NEW w \in Vaas
      PROVE  /\ fixItems'[p][w] # NotThere <=> fixItems[p][w] # NotThere
             /\ lookups'[p][w] >= lookups[p][w]
             /\ lookups'[p][w] + fixItems'[p][w] = lookups[p][w] + fixItems[p][w]
  <2>1. /\ fixItems'[p][w] = IF w = v THEN fixItems[p][v] - 1 ELSE fixItems[p][w]
        /\ lookups'[p][w] = IF w = v THEN lookups[p][v] + 1 ELSE lookups[p][w]
        /\ lookups[p][w] \in Nat /\ fixItems[p][w] \in {-1} \union 0..Retries
    BY <1>3 DEF HandlerTypes
  <2> QED BY <1>1, <2>1
<1> QED BY <1>4, <1>5, <1>6

LEMMA Room == ASSUME NEW n \in Nat, n < QueueSize PROVE n + 1 <= QueueSize
  OBVIOUS

LEMMA Below ==
    ASSUME NEW m \in Nat, NEW n \in Nat, m <= n, n <= QueueSize
    PROVE  m <= QueueSize
  OBVIOUS

LEMMA Same == ASSUME NEW n \in Nat PROVE n >= n
  OBVIOUS

LEMMA WatchStep ==
    ASSUME IInv, NEW p \in Pipelines, Watch(p)
    PROVE  IInv'
<1>0. /\ Typed /\ ListOK(p) /\ AccountOK(p)
      /\ stream \in [Pipelines -> Seq(Events)] /\ stream[p] # <<>>
      /\ inputQueue \in [Pipelines -> Seq(Inputs)]
      /\ PipelineTypes
  BY DEF IInv, Typed, PipelineTypes, HandlerTypes, Watch
<1>1. /\ Tail(stream[p]) \in Seq(Events) /\ Head(stream[p]) \in Events
      /\ \A w : InQueue(stream[p], w) <=> InQueue(Tail(stream[p]), w) \/ Head(stream[p]).vaa = w
      /\ Truthful(Tail(stream[p]), vaas)
      /\ Head(stream[p]).hash # NoHash => vaas[Head(stream[p]).vaa] \in Hashes
  BY <1>0, TailQueue DEF AccountOK
<1>2. PICK e \in Events, v \in Vaas, h \in Hashes \union {NoHash} :
        Head(stream[p]) = e /\ e.vaa = v /\ e.hash = h
  BY <1>1 DEF Events
<1>3. /\ stream' = [stream EXCEPT ![p] = Tail(stream[p])]
      /\ UNCHANGED <<vaas, vaaIdTxHash, looked, page, replacing, origin, up>>
      /\ UNCHANGED <<fixItems, pass, fixing, lookups>>
  BY DEF Watch, fly, backfiller
<1>4. /\ stream' \in [Pipelines -> Seq(Events)] /\ stream'[p] = Tail(stream[p])
      /\ \A q \in Pipelines \ {p} : stream'[q] = stream[q]
      /\ Truthful(stream'[p], vaas')
      /\ \A w \in Vaas : InQueue(stream[p], w) <=> InQueue(stream'[p], w) \/ v = w
  BY <1>0, <1>1, <1>2, <1>3
<1>5. /\ DocTypes' /\ PagesStored' /\ DocsStay
      /\ \A w \in Vaas : lookups'[p][w] >= lookups[p][w]
  <2>1. \A w \in Vaas : lookups[p][w] \in Nat
    BY <1>0 DEF Typed, HandlerTypes
  <2>2. lookups' = lookups
    BY <1>3
  <2>3. \A w \in Vaas : lookups'[p][w] >= lookups[p][w]
    BY <2>1, <2>2, Same
  <2> QED BY <1>3, <2>3 DEF IInv, Typed, DocTypes, PagesStored, DocsStay
<1>6. CASE /\ inputQueue' = [inputQueue EXCEPT ![p] = Append(inputQueue[p], e)]
           /\ Len(inputQueue[p]) < QueueSize
           /\ UNCHANGED <<published, excuse>>
  <2>1. inputQueue[p] \in Seq(Inputs) /\ Len(inputQueue[p]) \in Nat /\ e \in Inputs
    BY <1>0, LenProperties DEF Events, Inputs
  <2>2. /\ Append(inputQueue[p], e) \in Seq(Inputs)
        /\ Len(Append(inputQueue[p], e)) = Len(inputQueue[p]) + 1
        /\ \A w : InQueue(Append(inputQueue[p], e), w) <=> InQueue(inputQueue[p], w) \/ e.vaa = w
    BY <2>1, AppendQueue
  <2>3. inputQueue'[p] = Append(inputQueue[p], e)
    BY <1>0, <1>6
  <2>4. /\ inputQueue' \in [Pipelines -> Seq(Inputs)]
        /\ \A q \in Pipelines \ {p} : inputQueue'[q] = inputQueue[q]
        /\ \A w : InQueue(inputQueue'[p], w) <=> InQueue(inputQueue[p], w) \/ v = w
    BY <1>0, <1>2, <1>6, <2>2, <2>3
  <2>5. Len(inputQueue'[p]) <= QueueSize
    BY <1>6, <2>1, <2>2, <2>3, Room
  <2>6. HandlerTypes' /\ PipelineTypes'
    BY <1>0, <1>3, <1>4, <1>6, <2>4 DEF Typed, HandlerTypes, PipelineTypes
  <2>7. ListOK(p)'
    BY <1>0, <1>3, <2>5 DEF ListOK
  <2>8. \A w \in Vaas : Pending(p, w)' <=> Pending(p, w)
    BY <1>3, <1>4, <2>4 DEF Pending, InQueue
  <2>9. OthersStay(p)
    BY <1>3, <1>4, <2>4 DEF OthersStay
  <2>10. Moves(p)
    BY <1>3, <1>4, <1>5, <1>6, <2>8, <2>9 DEF Moves
  <2> QED BY <1>5, <2>6, <2>7, <2>10, ReplicaStep
<1>7. ASSUME UNCHANGED inputQueue, PipelineTypes', published \subseteq published',
             \A w \in Vaas : excuse[w] \subseteq excuse'[w],
             p \in excuse'[v] \/ PublishedBy(p, v)',
             \A x \in published' \ published : x.by = p /\ x.vaa = v /\ x.hash = h,
             (h = NoHash => v \in Pyth) \/ published' = published
      PROVE  IInv'
  <2>1. HandlerTypes' /\ ListOK(p)'
    BY <1>0, <1>3, <1>7 DEF Typed, HandlerTypes, ListOK
  <2>2. \A w \in Vaas : /\ Pending(p, w)' => Pending(p, w)
                        /\ Pending(p, w) => Pending(p, w)' \/ w = v
    BY <1>3, <1>4, <1>7 DEF Pending, InQueue
  <2>3. \A x \in published' \ published :
          /\ x.by = p
          /\ x.hash # NoHash => vaas'[x.vaa] \in Hashes
          /\ x.hash = NoHash /\ x.vaa \notin Pyth => lookups'[p][x.vaa] >= Retries
    BY <1>1, <1>2, <1>3, <1>7
  <2>4. OthersStay(p)
    BY <1>3, <1>4, <1>7 DEF OthersStay
  <2>5. Moves(p)
    <3>1. \A w \in Vaas :
             /\ Pending(p, w)' => Pending(p, w)
             /\ Pending(p, w) => Pending(p, w)' \/ p \in excuse'[w] \/ PublishedBy(p, w)'
             /\ excuse[w] \subseteq excuse'[w]
      BY <1>7, <2>2
    <3> QED BY <1>4, <1>5, <1>7, <2>3, <2>4, <3>1 DEF Moves
  <2> QED BY <1>5, <1>7, <2>1, <2>5, ReplicaStep
<1>8. CASE Push(p, e) /\ UNCHANGED inputQueue /\ ~(h = NoHash /\ v \notin Pyth)
  <2>1. PushLeaves(p, v, h)
    BY <1>2, <1>8 DEF Push, PushLeaves
  <2>2. PushedOrExcused(p, v, h)
    BY <1>0, <2>1, Pushed
  <2>3. PipelineTypes'
    BY <1>0, <1>3, <1>4, <2>2 DEF PipelineTypes, PushedOrExcused
  <2> QED BY <1>7, <1>8, <2>2, <2>3 DEF PushedOrExcused
<1>9. CASE excuse' = [excuse EXCEPT ![v] = excuse[v] \union {p}] /\ UNCHANGED <<inputQueue, published>>
  <2>1. /\ PipelineTypes' /\ p \in excuse'[v]
        /\ \A w \in Vaas : excuse[w] \subseteq excuse'[w]
    BY <1>0, <1>3, <1>4, <1>9 DEF PipelineTypes
  <2> QED BY <1>7, <1>9, <2>1
<1>10. \/ Publish(p, Head(stream[p]))
       \/ /\ excuse' = [excuse EXCEPT ![v] = excuse[v] \union {p}]
          /\ UNCHANGED <<inputQueue, published>>
  BY <1>2 DEF Watch
<1>11. CASE Publish(p, Head(stream[p]))
  BY <1>2, <1>6, <1>8, <1>11 DEF Publish, AddVaaFixItem, Push
<1> QED BY <1>9, <1>10, <1>11

LEMMA DocsSame ==
    ASSUME IInv, UNCHANGED <<vaas, fly, backfiller>>
    PROVE  DocTypes' /\ PagesStored' /\ DocsStay
  BY DEF IInv, Typed, DocTypes, PagesStored, DocsStay, fly, backfiller

\* A step within the handler of p: what it had in its channel and list it has.
LEMMA QuietStep ==
    ASSUME IInv, NEW p \in Pipelines, UNCHANGED <<up, stream, published, excuse>>,
           DocTypes', PagesStored', DocsStay, HandlerTypes', ListOK(p)', OthersStay(p),
           \A v \in Vaas : lookups'[p][v] >= lookups[p][v],
           \A v \in Vaas :
              InQueue(inputQueue'[p], v) \/ fixItems'[p][v] # NotThere
                 <=> InQueue(inputQueue[p], v) \/ fixItems[p][v] # NotThere
    PROVE  IInv'
<1>1. PipelineTypes'
  BY DEF IInv, Typed, PipelineTypes
<1>2. Truthful(stream'[p], vaas')
  <2>1. stream[p] \in Seq(Events) /\ Truthful(stream[p], vaas) /\ stream' = stream
    BY DEF IInv, Typed, PipelineTypes, AccountOK
  <2> QED BY <2>1, TruthStays DEF DocsStay
<1>3. \A v \in Vaas : Pending(p, v)' <=> Pending(p, v)
  BY DEF Pending, InQueue
<1>4. Moves(p)
  BY <1>2, <1>3 DEF Moves
<1> QED BY <1>1, <1>4, ReplicaStep

LEMMA TakeInputStep ==
    ASSUME IInv, NEW p \in Pipelines, TakeInput(p)
    PROVE  IInv'
<1>1. /\ Typed /\ HandlerTypes /\ ListOK(p)
      /\ pass[p] = {} /\ fixing[p] = None
      /\ inputQueue[p] \in Seq(Inputs) /\ inputQueue[p] # <<>>
  BY DEF IInv, Typed, HandlerTypes, TakeInput, Idle
<1>2. /\ Tail(inputQueue[p]) \in Seq(Inputs) /\ Head(inputQueue[p]) \in Inputs
      /\ Len(Tail(inputQueue[p])) <= Len(inputQueue[p])
      /\ \A w : InQueue(inputQueue[p], w) <=> InQueue(Tail(inputQueue[p]), w) \/ Head(inputQueue[p]).vaa = w
  BY <1>1, TailQueue
<1>3. PICK v \in Vaas : Head(inputQueue[p]).vaa = v
  BY <1>2 DEF Inputs, TakeInput
<1>4. /\ inputQueue' = [inputQueue EXCEPT ![p] = Tail(inputQueue[p])]
      /\ fixItems' = [fixItems EXCEPT ![p] = [fixItems[p] EXCEPT ![v] = Retries]]
      /\ UNCHANGED <<vaas, fly, backfiller>> /\ UNCHANGED <<up, stream, published, excuse>>
      /\ UNCHANGED <<pass, fixing, lookups>>
  BY <1>1, <1>3 DEF TakeInput, HandlerTypes
<1>5. Retries \in {NotThere} \union 0..Retries /\ Retries # NotThere
  OBVIOUS
<1>6. HandlerTypes'
  BY <1>1, <1>2, <1>4, <1>5 DEF HandlerTypes
<1>7. /\ inputQueue'[p] = Tail(inputQueue[p])
      /\ \A w \in Vaas : fixItems'[p][w] = IF w = v THEN Retries ELSE fixItems[p][w]
  BY <1>1, <1>4 DEF HandlerTypes
<1>8. ListOK(p)'
  <2>1. Len(inputQueue'[p]) <= QueueSize
    <3>1. Len(inputQueue[p]) \in Nat /\ Len(Tail(inputQueue[p])) \in Nat
      BY <1>1, <1>2, LenProperties
    <3>2. Len(inputQueue[p]) <= QueueSize BY <1>1 DEF ListOK
    <3> QED BY <1>2, <1>7, <3>1, <3>2, Below
  <2>2. ASSUME NEW w \in Vaas, fixItems'[p][w] # NotThere
        PROVE  lookups'[p][w] + fixItems'[p][w] >= Retries
    <3>1. lookups[p][w] \in Nat /\ lookups'[p][w] = lookups[p][w]
      BY <1>1, <1>4 DEF HandlerTypes
    <3>2. CASE w = v
      BY <1>7, <3>1, <3>2
    <3>3. CASE w # v
      BY <1>1, <1>7, <2>2, <3>1, <3>3 DEF ListOK
    <3> QED BY <3>2, <3>3
  <2> QED BY <1>1, <1>4, <2>1, <2>2 DEF ListOK
<1>9. OthersStay(p)
  BY <1>1, <1>4 DEF OthersStay, HandlerTypes
<1>10. \A w \in Vaas : lookups'[p][w] >= lookups[p][w]
  <2>1. lookups' = lookups /\ \A w \in Vaas : lookups[p][w] \in Nat
    BY <1>1, <1>4 DEF HandlerTypes
  <2> QED BY <2>1, Same
<1>11. \A w \in Vaas :
          InQueue(inputQueue'[p], w) \/ fixItems'[p][w] # NotThere
             <=> InQueue(inputQueue[p], w) \/ fixItems[p][w] # NotThere
  BY <1>2, <1>3, <1>5, <1>7
<1> QED BY <1>4, <1>6, <1>8, <1>9, <1>10, <1>11, DocsSame, QuietStep

LEMMA TakeOtherStep ==
    ASSUME IInv, NEW p \in Pipelines, TakeOther(p)
    PROVE  IInv'
<1>1. /\ Typed /\ HandlerTypes /\ ListOK(p)
      /\ inputQueue[p] \in Seq(Inputs) /\ inputQueue[p] # <<>> /\ Head(inputQueue[p]).vaa = Other
  BY DEF IInv, Typed, HandlerTypes, TakeOther
<1>2. /\ Tail(inputQueue[p]) \in Seq(Inputs)
      /\ Len(Tail(inputQueue[p])) <= Len(inputQueue[p])
      /\ \A w : InQueue(inputQueue[p], w) <=> InQueue(Tail(inputQueue[p]), w) \/ Other = w
  BY <1>1, TailQueue
<1>3. /\ inputQueue' = [inputQueue EXCEPT ![p] = Tail(inputQueue[p])]
      /\ UNCHANGED <<vaas, fly, backfiller>> /\ UNCHANGED <<up, stream, published, excuse>>
      /\ UNCHANGED <<fixItems, pass, fixing, lookups>>
  BY DEF TakeOther
<1>4. HandlerTypes' /\ inputQueue'[p] = Tail(inputQueue[p])
  BY <1>1, <1>2, <1>3 DEF HandlerTypes
<1>5. ListOK(p)'
  <2>1. Len(inputQueue[p]) \in Nat /\ Len(Tail(inputQueue[p])) \in Nat
    BY <1>1, <1>2, LenProperties
  <2>2. Len(inputQueue[p]) <= QueueSize BY <1>1 DEF ListOK
  <2>3. Len(inputQueue'[p]) <= QueueSize
    BY <1>2, <1>4, <2>1, <2>2, Below
  <2> QED BY <1>1, <1>3, <2>3 DEF ListOK
<1>6. OthersStay(p)
  BY <1>1, <1>3 DEF OthersStay, HandlerTypes
<1>7. \A w \in Vaas : lookups'[p][w] >= lookups[p][w]
  <2>1. lookups' = lookups /\ \A w \in Vaas : lookups[p][w] \in Nat
    BY <1>1, <1>3 DEF HandlerTypes
  <2> QED BY <2>1, Same
<1>8. \A w \in Vaas :
         InQueue(inputQueue'[p], w) \/ fixItems'[p][w] # NotThere
            <=> InQueue(inputQueue[p], w) \/ fixItems[p][w] # NotThere
  BY <1>2, <1>3, <1>4, VaasAssumption DEF Other
<1> QED BY <1>3, <1>4, <1>5, <1>6, <1>7, <1>8, DocsSame, QuietStep

LEMMA OtherComesStep ==
    ASSUME IInv, NEW p \in Pipelines, OtherComes(p)
    PROVE  IInv'
<1> DEFINE e == Event(Other, NoHash)
<1>1. /\ Typed /\ HandlerTypes /\ ListOK(p)
      /\ inputQueue[p] \in Seq(Inputs) /\ e \in Inputs /\ e.vaa = Other
  BY DEF IInv, Typed, HandlerTypes, Event, Inputs
<1>2. /\ inputQueue' = [inputQueue EXCEPT ![p] = Append(inputQueue[p], e)]
      /\ Len(inputQueue[p]) < QueueSize
      /\ UNCHANGED <<vaas, fly, backfiller>> /\ UNCHANGED <<up, stream, published, excuse>>
      /\ UNCHANGED <<fixItems, pass, fixing, lookups>>
  BY DEF OtherComes, AddVaaFixItem
<1> HIDE DEF e
<1>3. /\ Append(inputQueue[p], e) \in Seq(Inputs)
      /\ Len(Append(inputQueue[p], e)) = Len(inputQueue[p]) + 1
      /\ \A w : InQueue(Append(inputQueue[p], e), w) <=> InQueue(inputQueue[p], w) \/ e.vaa = w
  BY <1>1, AppendQueue
<1>4. HandlerTypes' /\ inputQueue'[p] = Append(inputQueue[p], e)
  BY <1>1, <1>2, <1>3 DEF HandlerTypes
<1>5. ListOK(p)'
  <2>1. Len(inputQueue[p]) \in Nat
    BY <1>1, LenProperties
  <2>2. Len(inputQueue'[p]) <= QueueSize
    BY <1>2, <1>3, <1>4, <2>1, Room
  <2> QED BY <1>1, <1>2, <2>2 DEF ListOK
<1>6. OthersStay(p)
  BY <1>1, <1>2 DEF OthersStay, HandlerTypes
<1>7. \A w \in Vaas : lookups'[p][w] >= lookups[p][w]
  <2>1. lookups' = lookups /\ \A w \in Vaas : lookups[p][w] \in Nat
    BY <1>1, <1>2 DEF HandlerTypes
  <2> QED BY <2>1, Same
<1>8. \A w \in Vaas :
         InQueue(inputQueue'[p], w) \/ fixItems'[p][w] # NotThere
            <=> InQueue(inputQueue[p], w) \/ fixItems[p][w] # NotThere
  BY <1>1, <1>2, <1>3, <1>4, VaasAssumption DEF Other
<1> QED BY <1>2, <1>4, <1>5, <1>6, <1>7, <1>8, DocsSame, QuietStep

LEMMA StartPassStep ==
    ASSUME IInv, NEW p \in Pipelines, StartPass(p)
    PROVE  IInv'
<1>1. /\ Typed /\ HandlerTypes /\ ListOK(p) /\ fixing[p] = None
      /\ pass' = [pass EXCEPT ![p] = {v \in Vaas : fixItems[p][v] # NotThere}]
      /\ UNCHANGED <<vaas, fly, backfiller>> /\ UNCHANGED <<up, stream, published, excuse>>
      /\ UNCHANGED <<inputQueue, fixItems, fixing, lookups>>
  BY DEF IInv, Typed, StartPass, Idle
<1>2. HandlerTypes'
  BY <1>1 DEF HandlerTypes
<1>3. ListOK(p)'
  BY <1>1 DEF ListOK, HandlerTypes
<1>4. OthersStay(p)
  BY <1>1 DEF OthersStay, HandlerTypes
<1>5. \A w \in Vaas : lookups'[p][w] >= lookups[p][w]
  <2>1. lookups' = lookups /\ \A w \in Vaas : lookups[p][w] \in Nat
    BY <1>1 DEF HandlerTypes
  <2> QED BY <2>1, Same
<1> QED BY <1>1, <1>2, <1>3, <1>4, <1>5, DocsSame, QuietStep

\* What a lookup that fails leaves of the list.
LEMMA FailedStep ==
    ASSUME IInv, NEW p \in Pipelines, NEW v \in Vaas, v \in pass[p], fixItems[p][v] > 0,
           LookupFailed(p, v), fixing' \in [Pipelines -> Found \union {None}],
           fixing'[p] = None, \A q \in Pipelines \ {p} : fixing'[q] = fixing[q],
           UNCHANGED <<vaas, fly, backfiller>>, UNCHANGED <<up, stream, inputQueue, published, excuse>>
    PROVE  IInv'
<1>1. Typed /\ HandlerTypes /\ ListOK(p)
  BY DEF IInv, Typed
<1>2. /\ fixItems' \in [Pipelines -> [Vaas -> {NotThere} \union 0..Retries]]
      /\ lookups' \in [Pipelines -> [Vaas -> Nat]]
      /\ pass' \in [Pipelines -> SUBSET Vaas] /\ pass'[p] = pass[p] \ {v}
      /\ \A q \in Pipelines \ {p} :
            fixItems'[q] = fixItems[q] /\ lookups'[q] = lookups[q] /\ pass'[q] = pass[q]
      /\ \A w \in Vaas :
            /\ fixItems'[p][w] # NotThere <=> fixItems[p][w] # NotThere
            /\ lookups'[p][w] >= lookups[p][w]
            /\ lookups'[p][w] + fixItems'[p][w] = lookups[p][w] + fixItems[p][w]
  BY <1>1, Failed
<1>3. HandlerTypes'
  BY <1>1, <1>2 DEF HandlerTypes
<1>4. ListOK(p)'
  BY <1>1, <1>2 DEF ListOK
<1>5. OthersStay(p)
  BY <1>1, <1>2 DEF OthersStay
<1> QED BY <1>2, <1>3, <1>4, <1>5, DocsSame, QuietStep

LEMMA GetStep ==
    ASSUME IInv, NEW p \in Pipelines, NEW v \in Vaas, GetVaaIdTxHash(p, v)
    PROVE  IInv'
<1>1. /\ Typed /\ HandlerTypes /\ ListOK(p)
      /\ v \in pass[p] /\ fixing[p] = None /\ fixItems[p][v] > 0
      /\ UNCHANGED <<vaas, fly, backfiller>> /\ UNCHANGED <<up, stream, published, excuse>>
      /\ UNCHANGED inputQueue
  BY DEF IInv, Typed, GetVaaIdTxHash
<1>2. CASE /\ vaaIdTxHash[v] \in Hashes
           /\ fixing' = [fixing EXCEPT ![p] = [vaa |-> v, hash |-> vaaIdTxHash[v], stored |-> FALSE]]
           /\ UNCHANGED <<fixItems, lookups, pass>>
  <2>1. [vaa |-> v, hash |-> vaaIdTxHash[v], stored |-> FALSE] \in Found
    BY <1>2 DEF Found
  <2>2. HandlerTypes'
    BY <1>1, <1>2, <2>1 DEF HandlerTypes
  <2>3. fixing'[p] = [vaa |-> v, hash |-> vaaIdTxHash[v], stored |-> FALSE]
    BY <1>1, <1>2 DEF HandlerTypes
  <2>4. ListOK(p)'
    BY <1>1, <1>2, <2>3 DEF ListOK
  <2>5. OthersStay(p)
    BY <1>1, <1>2 DEF OthersStay, HandlerTypes
  <2>6. \A w \in Vaas : lookups'[p][w] >= lookups[p][w]
    <3>1. lookups' = lookups /\ \A w \in Vaas : lookups[p][w] \in Nat
      BY <1>1, <1>2 DEF HandlerTypes
    <3> QED BY <3>1, Same
  <2> QED BY <1>1, <1>2, <2>2, <2>4, <2>5, <2>6, DocsSame, QuietStep
<1>3. CASE LookupFailed(p, v) /\ UNCHANGED fixing
  <2>1. /\ fixing' \in [Pipelines -> Found \union {None}] /\ fixing'[p] = None
        /\ \A q \in Pipelines \ {p} : fixing'[q] = fixing[q]
    BY <1>1, <1>3 DEF HandlerTypes
  <2> QED BY <1>1, <1>3, <2>1, FailedStep
<1> QED BY <1>2, <1>3 DEF GetVaaIdTxHash

LEMMA UpdateStep ==
    ASSUME IInv, NEW p \in Pipelines, UpdateVaaDocTxHash(p)
    PROVE  IInv'
<1>1. /\ Typed /\ HandlerTypes /\ DocTypes /\ ListOK(p) /\ AccountOK(p) /\ PagesStored
      /\ fixing[p] \in Found /\ fixing[p] # None
      /\ UNCHANGED <<fly, backfiller>> /\ UNCHANGED <<up, stream, published, excuse>>
      /\ UNCHANGED inputQueue
  BY DEF IInv, Typed, HandlerTypes, UpdateVaaDocTxHash
<1>2. PICK v \in Vaas, h \in Hashes : fixing[p].vaa = v /\ fixing[p].hash = h
  BY <1>1 DEF Found
<1>3. v \in pass[p] /\ fixItems[p][v] > 0 /\ fixItems[p][v] # NotThere
  BY <1>1, <1>2 DEF ListOK
<1>4. CASE /\ vaas' = [vaas EXCEPT ![v] = h]
           /\ fixing' = [fixing EXCEPT ![p] = [fixing[p] EXCEPT !.stored = TRUE]]
           /\ UNCHANGED <<fixItems, lookups, pass>>
  <2>1. vaas[v] # Absent
    BY <1>1, <1>3 DEF AccountOK, Pending
  <2>2. /\ vaas' \in [Vaas -> Hashes \union {NoHash, Absent}] /\ DocsStay
        /\ vaas'[v] \in Hashes /\ h # Absent
    BY <1>1, <1>4, <2>1 DEF DocTypes, DocsStay, Hashes, Raw, Encoded
  <2>3. DocTypes'
    BY <1>1, <2>2 DEF DocTypes, fly, backfiller
  <2>4. PagesStored'
    <3>1. \A w \in Vaas : vaas[w] # Absent => vaas'[w] # Absent
      BY <2>2 DEF DocsStay
    <3>2. /\ \A d \in page : d.vaa \in Vaas
          /\ replacing # None => replacing.vaa \in Vaas
      BY <1>1 DEF DocTypes
    <3> QED BY <1>1, <3>1, <3>2 DEF PagesStored, backfiller
  <2>5. [fixing[p] EXCEPT !.stored = TRUE] \in Found /\ [fixing[p] EXCEPT !.stored = TRUE].vaa = v
    BY <1>1, <1>2 DEF Found
  <2>6. HandlerTypes' /\ fixing'[p].vaa = v
    BY <1>1, <1>4, <2>5 DEF HandlerTypes
  <2>7. ListOK(p)'
    BY <1>1, <1>3, <1>4, <2>2, <2>6 DEF ListOK
  <2>8. OthersStay(p)
    BY <1>1, <1>4 DEF OthersStay, HandlerTypes
  <2>9. \A w \in Vaas : lookups'[p][w] >= lookups[p][w]
    <3>1. lookups' = lookups /\ \A w \in Vaas : lookups[p][w] \in Nat
      BY <1>1, <1>4 DEF HandlerTypes
    <3> QED BY <3>1, Same
  <2> QED BY <1>1, <1>4, <2>2, <2>3, <2>4, <2>6, <2>7, <2>8, <2>9, QuietStep
<1>5. CASE LookupFailed(p, v) /\ fixing' = [fixing EXCEPT ![p] = None] /\ UNCHANGED vaas
  <2>1. /\ fixing' \in [Pipelines -> Found \union {None}] /\ fixing'[p] = None
        /\ \A q \in Pipelines \ {p} : fixing'[q] = fixing[q]
    BY <1>1, <1>5 DEF HandlerTypes
  <2> QED BY <1>1, <1>3, <1>5, <2>1, FailedStep
<1> QED
  <2>1. CASE /\ vaas' = [vaas EXCEPT ![fixing[p].vaa] = fixing[p].hash]
             /\ fixing' = [fixing EXCEPT ![p].stored = TRUE]
             /\ UNCHANGED <<fixItems, lookups, pass>>
    BY <1>1, <1>2, <1>4, <2>1
  <2>2. CASE LookupFailed(p, fixing[p].vaa) /\ fixing' = [fixing EXCEPT ![p] = None] /\ UNCHANGED vaas
    BY <1>2, <1>5, <2>2 DEF LookupFailed
  <2> QED BY <2>1, <2>2 DEF UpdateVaaDocTxHash

\* Pushed and deleted from the list.
LEMMA LeaveStep ==
    ASSUME IInv, NEW p \in Pipelines, NEW v \in Vaas, NEW h \in Hashes \union {NoHash},
           PushLeaves(p, v, h),
           h # NoHash => vaas[v] \in Hashes,
           h = NoHash /\ v \notin Pyth => lookups[p][v] >= Retries,
           fixItems' = [fixItems EXCEPT ![p][v] = NotThere],
           pass' = [pass EXCEPT ![p] = @ \ {v}],
           fixing' = [fixing EXCEPT ![p] = None],
           UNCHANGED <<vaas, fly, backfiller>>, UNCHANGED <<up, stream, inputQueue, lookups>>
    PROVE  IInv'
<1>1. /\ Typed /\ HandlerTypes /\ PipelineTypes /\ ListOK(p) /\ AccountOK(p)
      /\ PushedOrExcused(p, v, h)
  BY Pushed DEF IInv, Typed
<1>2. /\ fixItems' = [fixItems EXCEPT ![p] = [fixItems[p] EXCEPT ![v] = NotThere]]
      /\ pass' = [pass EXCEPT ![p] = pass[p] \ {v}]
  BY <1>1 DEF HandlerTypes
<1>3. /\ \A w \in Vaas : fixItems'[p][w] = IF w = v THEN NotThere ELSE fixItems[p][w]
      /\ pass'[p] = pass[p] \ {v} /\ fixing'[p] = None
  <2>1. fixItems'[p] = [fixItems[p] EXCEPT ![v] = NotThere]
    BY <1>1, <1>2 DEF HandlerTypes
  <2>2. \A w \in Vaas : fixItems'[p][w] = IF w = v THEN NotThere ELSE fixItems[p][w]
    BY <1>1, <2>1 DEF HandlerTypes
  <2> QED BY <1>1, <1>2, <2>2 DEF HandlerTypes
<1>4. HandlerTypes' /\ OthersStay(p)
  <2>1. PICK row \in [Vaas -> {NotThere} \union 0..Retries] : fixItems' = [fixItems EXCEPT ![p] = row]
    <3>1. fixItems[p] \in [Vaas -> {NotThere} \union 0..Retries]
      BY <1>1 DEF HandlerTypes
    <3>2. [fixItems[p] EXCEPT ![v] = NotThere] \in [Vaas -> {NotThere} \union 0..Retries]
      BY <3>1, Zenon
    <3> QED BY <1>2, <3>2
  <2>2. /\ fixItems' \in [Pipelines -> [Vaas -> {NotThere} \union 0..Retries]]
        /\ \A q \in Pipelines \ {p} : fixItems'[q] = fixItems[q]
    <3>1. fixItems \in [Pipelines -> [Vaas -> {NotThere} \union 0..Retries]]
      BY <1>1 DEF HandlerTypes
    <3> QED BY <2>1, <3>1, Zenon
  <2>3. /\ pass' \in [Pipelines -> SUBSET Vaas]
        /\ \A q \in Pipelines \ {p} : pass'[q] = pass[q]
    <3>1. pass \in [Pipelines -> SUBSET Vaas] /\ pass[p] \ {v} \in SUBSET Vaas
      BY <1>1 DEF HandlerTypes
    <3>2. pass' = [pass EXCEPT ![p] = pass[p] \ {v}]
      BY <1>2
    <3> QED BY <3>1, <3>2
  <2>4. /\ fixing' \in [Pipelines -> Found \union {None}]
        /\ \A q \in Pipelines \ {p} : fixing'[q] = fixing[q]
    BY <1>1 DEF HandlerTypes
  <2> QED BY <1>1, <2>2, <2>3, <2>4 DEF HandlerTypes, OthersStay
<1>5. PipelineTypes'
  BY <1>1 DEF PipelineTypes, PushedOrExcused
<1>6. DocTypes' /\ PagesStored' /\ DocsStay
  BY DocsSame
<1>7. ListOK(p)'
  BY <1>1, <1>3 DEF ListOK, HandlerTypes
<1>8. \A w \in Vaas : lookups'[p][w] >= lookups[p][w]
  <2>1. lookups' = lookups /\ \A w \in Vaas : lookups[p][w] \in Nat
    BY <1>1 DEF HandlerTypes
  <2> QED BY <2>1, Same
<1>9. \A w \in Vaas : /\ Pending(p, w)' => Pending(p, w)
                      /\ Pending(p, w) => Pending(p, w)' \/ w = v
  BY <1>3 DEF Pending
<1>10. \A w \in Vaas :
          /\ Pending(p, w)' => Pending(p, w)
          /\ Pending(p, w) => Pending(p, w)' \/ p \in excuse'[w] \/ PublishedBy(p, w)'
          /\ excuse[w] \subseteq excuse'[w]
  BY <1>1, <1>9 DEF PushedOrExcused
<1>11. \A e \in published' \ published :
          /\ e.by = p
          /\ e.hash # NoHash => vaas'[e.vaa] \in Hashes
          /\ e.hash = NoHash /\ e.vaa \notin Pyth => lookups'[p][e.vaa] >= Retries
  BY <1>1 DEF PushedOrExcused
<1>12. Truthful(stream'[p], vaas') /\ published \subseteq published'
  BY <1>1 DEF AccountOK, PushedOrExcused
<1>13. Moves(p)
  BY <1>4, <1>8, <1>10, <1>11, <1>12 DEF Moves
<1> QED BY <1>4, <1>5, <1>6, <1>7, <1>13, ReplicaStep

LEMMA PublishFixedStep ==
    ASSUME IInv, NEW p \in Pipelines, PublishFixed(p)
    PROVE  IInv'
<1>1. /\ HandlerTypes /\ ListOK(p)
      /\ fixing[p] \in Found /\ fixing[p] # None /\ fixing[p].stored
      /\ fixing' = [fixing EXCEPT ![p] = None]
  BY DEF IInv, Typed, HandlerTypes, PublishFixed
<1>2. PICK v \in Vaas, h \in Hashes : fixing[p].vaa = v /\ fixing[p].hash = h
  BY <1>1 DEF Found
<1>3. vaas[v] \in Hashes /\ h # NoHash
  BY <1>1, <1>2 DEF ListOK, Hashes, Raw, Encoded
<1>4. /\ PushLeaves(p, v, h)
      /\ fixItems' = [fixItems EXCEPT ![p][v] = NotThere]
      /\ pass' = [pass EXCEPT ![p] = @ \ {v}]
      /\ UNCHANGED <<vaas, fly, backfiller>> /\ UNCHANGED <<up, stream, inputQueue, lookups>>
  BY <1>2 DEF PublishFixed, Leave, Push, PushLeaves
<1> QED BY <1>1, <1>3, <1>4, LeaveStep

LEMMA PublishUnfixedStep ==
    ASSUME IInv, NEW p \in Pipelines, NEW v \in Vaas, PublishUnfixed(p, v)
    PROVE  IInv'
<1>1. HandlerTypes /\ ListOK(p) /\ fixItems[p][v] = 0 /\ fixing[p] = None /\ fixing' = fixing
  BY DEF IInv, Typed, PublishUnfixed
<1>2. lookups[p][v] >= Retries
  <2>1. lookups[p][v] \in Nat
    BY <1>1 DEF HandlerTypes
  <2>2. fixItems[p][v] # NotThere
    BY <1>1
  <2>3. lookups[p][v] + fixItems[p][v] >= Retries
    BY <1>1, <2>2 DEF ListOK
  <2> QED BY <1>1, <2>1, <2>3
<1>3. fixing' = [fixing EXCEPT ![p] = None]
  BY <1>1 DEF HandlerTypes
<1>4. /\ PushLeaves(p, v, NoHash)
      /\ fixItems' = [fixItems EXCEPT ![p][v] = NotThere]
      /\ pass' = [pass EXCEPT ![p] = @ \ {v}]
      /\ UNCHANGED <<vaas, fly, backfiller>> /\ UNCHANGED <<up, stream, inputQueue, lookups>>
  BY DEF PublishUnfixed, Leave, Push, PushLeaves, Event
<1> QED BY <1>2, <1>3, <1>4, LeaveStep

LEMMA CrashStep ==
    ASSUME IInv, NEW p \in Pipelines, Crash(p)
    PROVE  IInv'
<1>1. /\ Typed /\ HandlerTypes /\ PipelineTypes /\ ListOK(p) /\ AccountOK(p)
      /\ <<>> \in Seq(Events) /\ <<>> \in Seq(Inputs)
      /\ Len(<<>>) = 0 /\ Truthful(<<>>, vaas) /\ \A w : ~InQueue(<<>>, w)
  BY NoQueue DEF IInv, Typed
<1>2. /\ up' = [up EXCEPT ![p] = "down"]
      /\ excuse' = [v \in Vaas |-> IF Pending(p, v) THEN excuse[v] \union {p} ELSE excuse[v]]
      /\ stream' = [stream EXCEPT ![p] = <<>>]
      /\ inputQueue' = [inputQueue EXCEPT ![p] = <<>>]
      /\ fixItems' = [fixItems EXCEPT ![p] = [v \in Vaas |-> NotThere]]
      /\ pass' = [pass EXCEPT ![p] = {}]
      /\ fixing' = [fixing EXCEPT ![p] = None]
      /\ UNCHANGED <<vaas, fly, backfiller>> /\ UNCHANGED <<lookups, published>>
  BY DEF Crash
<1>3. HandlerTypes' /\ OthersStay(p)
  BY <1>1, <1>2 DEF HandlerTypes, PipelineTypes, OthersStay
<1>4. PipelineTypes' /\ \A w \in Vaas : excuse[w] \subseteq excuse'[w]
  BY <1>1, <1>2 DEF PipelineTypes
<1>5. /\ stream'[p] = <<>> /\ inputQueue'[p] = <<>> /\ pass'[p] = {} /\ fixing'[p] = None
      /\ \A w \in Vaas : fixItems'[p][w] = NotThere
  BY <1>1, <1>2 DEF HandlerTypes, PipelineTypes
<1>6. ListOK(p)'
  BY <1>1, <1>5 DEF ListOK
<1>7. \A w \in Vaas : ~Pending(p, w)' /\ (Pending(p, w) => p \in excuse'[w])
  BY <1>1, <1>2, <1>5 DEF Pending, InQueue
<1>8. \A w \in Vaas : lookups'[p][w] >= lookups[p][w]
  <2>1. lookups' = lookups /\ \A w \in Vaas : lookups[p][w] \in Nat
    BY <1>1, <1>2 DEF HandlerTypes
  <2> QED BY <2>1, Same
<1>9. Moves(p)
  BY <1>1, <1>2, <1>3, <1>4, <1>5, <1>7, <1>8 DEF Moves
<1> QED BY <1>2, <1>3, <1>4, <1>6, <1>9, DocsSame, ReplicaStep

LEMMA StreamEndsStep ==
    ASSUME IInv, NEW p \in Pipelines, StreamEnds(p)
    PROVE  IInv'
<1>1. /\ Typed /\ HandlerTypes /\ PipelineTypes /\ ListOK(p) /\ AccountOK(p)
      /\ <<>> \in Seq(Events) /\ Truthful(<<>>, vaas) /\ \A w : ~InQueue(<<>>, w)
  BY NoQueue DEF IInv, Typed
<1>2. /\ up' = [up EXCEPT ![p] = "deaf"]
      /\ excuse' = [v \in Vaas |-> IF InQueue(stream[p], v) THEN excuse[v] \union {p} ELSE excuse[v]]
      /\ stream' = [stream EXCEPT ![p] = <<>>]
      /\ UNCHANGED <<vaas, fly, backfiller>>
      /\ UNCHANGED <<inputQueue, fixItems, pass, fixing, lookups, published>>
  BY DEF StreamEnds, InQueue, handler
<1>3. HandlerTypes' /\ OthersStay(p)
  BY <1>1, <1>2 DEF HandlerTypes, PipelineTypes, OthersStay
<1>4. PipelineTypes' /\ \A w \in Vaas : excuse[w] \subseteq excuse'[w]
  BY <1>1, <1>2 DEF PipelineTypes
<1>5. ListOK(p)'
  BY <1>1, <1>2 DEF ListOK
<1>6. stream'[p] = <<>>
  BY <1>1, <1>2 DEF PipelineTypes
<1>7. ASSUME NEW w \in Vaas
      PROVE  /\ Pending(p, w)' => Pending(p, w)
             /\ Pending(p, w) => Pending(p, w)' \/ p \in excuse'[w]
  <2>1. ~InQueue(stream'[p], w) /\ (InQueue(stream[p], w) => p \in excuse'[w])
    BY <1>1, <1>2, <1>6
  <2> QED BY <1>2, <2>1 DEF Pending, InQueue
<1>8. \A w \in Vaas : lookups'[p][w] >= lookups[p][w]
  <2>1. lookups' = lookups /\ \A w \in Vaas : lookups[p][w] \in Nat
    BY <1>1, <1>2 DEF HandlerTypes
  <2> QED BY <2>1, Same
<1>9. Moves(p)
  BY <1>1, <1>2, <1>3, <1>4, <1>6, <1>7, <1>8 DEF Moves
<1> QED BY <1>2, <1>3, <1>4, <1>5, <1>9, DocsSame, ReplicaStep

LEMMA RestartStep ==
    ASSUME IInv, NEW p \in Pipelines, Restart(p)
    PROVE  IInv'
<1>1. /\ up' = [up EXCEPT ![p] = "watching"]
      /\ UNCHANGED <<vaas, fly, backfiller>> /\ UNCHANGED <<stream, handler, published, excuse>>
  BY DEF Restart
<1>2. HandlerTypes' /\ PipelineTypes'
  BY <1>1 DEF IInv, Typed, HandlerTypes, PipelineTypes, handler
<1>3. \A q \in Pipelines : ListOK(q)' /\ AccountOK(q)'
  BY <1>1, DocsSame, ReplicaStays DEF IInv, handler
<1> QED BY <1>1, <1>2, <1>3, DocsSame DEF IInv, Typed

LEMMA StepIInv == IInv /\ [Next]_vars => IInv'
<1> SUFFICES ASSUME IInv, [Next]_vars PROVE IInv'
  OBVIOUS
<1>1. CASE Fly \/ UNCHANGED vars
  BY <1>1, FlyStep, InsertStep DEF Fly
<1>2. CASE FindVaaByChainID \/ ReplaceInVaas \/ ReplaceInVaaIdTxHash
  BY <1>2, BackfillerStep
<1>3. ASSUME NEW p \in Pipelines,
             Watch(p) \/ StreamEnds(p) \/ OtherComes(p) \/ Handle(p) \/ Crash(p) \/ Restart(p)
      PROVE  IInv'
  BY <1>3, WatchStep, StreamEndsStep, OtherComesStep, TakeInputStep, TakeOtherStep, StartPassStep, GetStep, PublishUnfixedStep,
     UpdateStep, PublishFixedStep, CrashStep, RestartStep DEF Handle
<1> QED BY <1>1, <1>2, <1>3 DEF Next

LEMMA AlwaysIInv == Spec => []IInv
  BY InitIInv, StepIInv, PTL DEF Spec

------------------------------------------------------------------------------
(* What follows.                                                            *)

\* Every variable keeps its type and no list its bound; the VAA a replica is at
\* is on its list.
THEOREM TypeCorrect == Spec => []TypeOK
<1>1. IInv => TypeOK
  <2> SUFFICES ASSUME IInv PROVE TypeOK
    OBVIOUS
  <2>1. vaas \in [Vaas -> Hashes \union {NoHash, Absent}] /\ vaaIdTxHash \in [Vaas -> Hashes \union {NoHash, Absent}]
    BY DEF IInv, Typed, DocTypes
  <2>2. origin \in [Vaas -> Hashes \union {NoHash}]
    BY DEF IInv, Typed, DocTypes, Hashes
  <2>3. \A d \in (page \union {replacing}) \ {None} : d.vaa \in Vaas /\ vaas[d.vaa] # Absent
    BY DEF IInv, Typed, DocTypes, PagesStored
  <2>4. ASSUME NEW p \in Pipelines
        PROVE  /\ Len(inputQueue[p]) <= QueueSize
               /\ fixItems[p] \in [Vaas -> {NotThere} \union 0..Retries]
               /\ pass[p] \subseteq {v \in Vaas : fixItems[p][v] # NotThere}
               /\ fixing[p] # None => fixing[p].vaa \in pass[p]
    BY DEF IInv, Typed, HandlerTypes, ListOK
  <2> QED BY <2>1, <2>2, <2>3, <2>4 DEF TypeOK
<1> QED BY AlwaysIInv, <1>1, PTL

\* What the three writers leave about the hash of a VAA is true: the backfiller
\* about the original, pipeline in its events with a hash and in those without.
THEOREM AlwaysTruthful == Spec => []HashesTruthful
<1>1. IInv => HashesTruthful
  <2> SUFFICES ASSUME IInv PROVE HashesTruthful
    OBVIOUS
  <2>1. OriginIsRaw
    BY DEF IInv, Typed, DocTypes, OriginIsRaw
  <2>2. ASSUME NEW e \in published
        PROVE  /\ e.hash # NoHash => vaas[e.vaa] \in Hashes
               /\ e.hash = NoHash /\ e.vaa \notin Pyth => lookups[e.by][e.vaa] >= Retries
    <3>1. e.by \in Pipelines
      BY DEF IInv, Typed, PipelineTypes
    <3> QED BY <3>1 DEF IInv, AccountOK
  <2> QED BY <2>1, <2>2 DEF HashesTruthful, PublishedHashStored, HashlessOnlyWhenExhausted
<1> QED BY AlwaysIInv, <1>1, PTL

\* No replica of pipeline forgets a stored VAA: it has it in memory, has
\* published it, or was down or without a stream when the VAA was inserted, died or lost
\* its stream before it had it, or failed to read or push it.
THEOREM NeverForgotten == Spec => []NoVaaForgotten
<1>1. IInv => NoVaaForgotten
  BY DEF IInv, AccountOK, PublishedBy, NoVaaForgotten
<1> QED BY AlwaysIInv, <1>1, PTL

LEMMA StepHash ==
    ASSUME IInv, [Next]_vars, NEW v \in Vaas, vaas[v] \in Hashes
    PROVE  vaas'[v] \in Hashes
<1>1. vaas \in [Vaas -> Hashes \union {NoHash, Absent}] /\ Encoded \in Hashes
      /\ Absent \notin Hashes /\ NoHash \notin Hashes
  BY DEF IInv, Typed, DocTypes, Hashes, Raw, Encoded
<1>2. CASE UNCHANGED vaas
  BY <1>2
<1>3. ASSUME NEW r \in Replicas, UpsertVaa(r) PROVE vaas'[v] \in Hashes
  <2>1. PICK w \in Vaas, h \in Hashes \union {NoHash} : looked[r].vaa = w /\ looked[r].hash = h
    <3>1. looked[r] \in Events BY <1>3 DEF IInv, Typed, DocTypes, UpsertVaa
    <3> QED BY <3>1 DEF Events
  <2>2. vaas' = [vaas EXCEPT ![w] = StoredHash(w, h)]
    BY <1>3, <2>1 DEF UpsertVaa
  <2> QED BY <1>1, <2>1, <2>2 DEF StoredHash
<1>4. CASE ReplaceInVaas
  <2>1. UNCHANGED vaas \/ \E d \in page : vaas' = [vaas EXCEPT ![d.vaa] = Encoded]
    BY <1>4 DEF ReplaceInVaas
  <2> QED BY <1>1, <1>2, <2>1
<1>5. ASSUME NEW p \in Pipelines, UpdateVaaDocTxHash(p) PROVE vaas'[v] \in Hashes
  <2>1. fixing[p].hash \in Hashes
    BY <1>5 DEF UpdateVaaDocTxHash, IInv, Typed, HandlerTypes, Found
  <2>2. UNCHANGED vaas \/ vaas' = [vaas EXCEPT ![fixing[p].vaa] = fixing[p].hash]
    BY <1>5 DEF UpdateVaaDocTxHash
  <2> QED BY <1>1, <1>2, <2>1, <2>2
<1> QED
  BY <1>2, <1>3, <1>4, <1>5
  DEF Next, vars, Fly, Handle, UpsertObservation, FindTxHash, UpsertVaaFails, FindVaaByChainID,
      ReplaceInVaaIdTxHash, Watch, StreamEnds, OtherComes, TakeInput, TakeOther, StartPass, GetVaaIdTxHash, PublishUnfixed,
      PublishFixed, Leave, Crash, Restart

\* A document that has a hash keeps one, although three writers set it from what
\* they read long before: none of them writes an empty one over it.
THEOREM HashNeverLost == Spec => HashKept
<1>1. IInv /\ [Next]_vars => [\A v \in Vaas : vaas[v] \in Hashes => vaas'[v] \in Hashes]_vars
  BY StepHash
<1> QED BY AlwaysIInv, <1>1, PTL DEF Spec, HashKept
=============================================================================
