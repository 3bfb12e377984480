--------------------------- MODULE ServicesProofs ---------------------------
(* The safety of the services that read what fly stores, for any constants     *)
(* their assumptions allow.  Each of them is proved about on its own: a step   *)
(* of the composition is a step of one and leaves the others as they are.      *)
EXTENDS MCServices, FiniteSetTheorems, NaturalsInduction, WellFoundedInduction, TLAPS

------------------------------------------------------------------------------
(* The composition.                                                         *)

LEMMA OnePart ==
    ASSUME [ServicesNext]_servicesVars
    PROVE  /\ [SpyNext]_spyVars /\ [GovernorNext]_governorVars
           /\ [ConsumersNext]_consumersVars /\ [BackfillNext]_backfillVars
           /\ [MetricsNext]_metricsVars /\ [PriceNext]_priceVars
           /\ [ChainNext]_chainVars /\ [ReadsNext]_readVars /\ [CacheNext]_cacheVars
<1>1. CASE UNCHANGED servicesVars
    BY <1>1 DEF servicesVars
<1>2. CASE ServicesNext
    BY <1>2 DEF ServicesNext
<1> QED
    BY <1>1, <1>2
------------------------------------------------------------------------------
(* Spy.                                                                     *)

In(q) == {q[i] : i \in DOMAIN q}
Waiting(b) == In(source[b])
Adding(b) == In(addSubscriber[b])
Removing(b) == In(removeSubscriber[b])
Queued(s) == In(ch[s])
Got(s) == In(sent[s]) \ {Empty}
OfKind(b) == {s \in Subscriptions : KindOf[s] = b}

\* A channel that holds one element at most.
LEMMA InEmpty == In(<<>>) = {}
BY DEF In

LEMMA InOne == ASSUME NEW v PROVE In(<<v>>) = {v} /\ Len(<<v>>) = 1
BY DEF In

LEMMA InAppend ==
    ASSUME NEW S, NEW q \in Seq(S), NEW v \in S
    PROVE  In(Append(q, v)) = In(q) \union {v} /\ Append(q, v) \in Seq(S)
<1>1. Len(q) \in Nat /\ DOMAIN q = 1..Len(q) /\ DOMAIN Append(q, v) = 1..Len(q) + 1
    OBVIOUS
<1>2. \A i \in DOMAIN q : Append(q, v)[i] = q[i]
    BY <1>1
<1>3. Append(q, v)[Len(q) + 1] = v
    BY <1>1
<1> QED
    BY <1>1, <1>2, <1>3 DEF In

LEMMA InHead ==
    ASSUME NEW S, NEW q \in Seq(S), q # <<>>, Len(q) <= 1
    PROVE  Head(q) \in S /\ In(q) = {Head(q)} /\ Tail(q) = <<>>
<1>1. Len(q) \in Nat /\ Len(q) # 0 /\ DOMAIN q = 1..Len(q) /\ Head(q) = q[1]
    OBVIOUS
<1>2. Len(q) = 1
    BY <1>1
<1>3. DOMAIN q = {1} /\ Head(q) \in S
    BY <1>1, <1>2
<1>4. Tail(q) \in Seq(S) /\ Len(Tail(q)) = 0
    BY <1>1, <1>2
<1> QED
    BY <1>1, <1>3, <1>4 DEF In

Phases == {"new", "serving", "leaving", "left"}

SpyTyped ==
    /\ arrived \subseteq SpyVaas
    /\ publishing \in [vaa : SpyVaas \union {Empty}, to : Broadcasters \union {Free}]
    /\ source \in [Broadcasters -> Seq(SpyVaas)]
    /\ addSubscriber \in [Broadcasters -> Seq(Subscriptions)]
    /\ removeSubscriber \in [Broadcasters -> Seq(Subscriptions)]
    /\ subscribers \in [Broadcasters -> SUBSET Subscriptions]
    /\ sending \in [Broadcasters -> [vaa : SpyVaas \union {Empty}, to : [Subscriptions -> Nat]]]
    /\ ch \in [Subscriptions -> Seq(SpyVaas)]
    /\ sent \in [Subscriptions -> Seq(SpyVaas \union {Empty})]
    /\ closed \subseteq Subscriptions
    /\ phase \in [Subscriptions -> Phases]
    /\ running \in BOOLEAN /\ panicked \in BOOLEAN
    /\ stopped \subseteq Broadcasters
    /\ publishing.to # Free => publishing.vaa \in SpyVaas
    /\ \A b \in Broadcasters : sending[b].vaa = Empty => sending[b] = Pause

HoldOne ==
    /\ \A b \in Broadcasters :
          Len(source[b]) <= 1 /\ Len(addSubscriber[b]) <= 1 /\ Len(removeSubscriber[b]) <= 1
    /\ \A s \in Subscriptions : Len(ch[s]) <= 1

\* A subscription is added once, closed once, and only sent to in between.
Registered(b) ==
    /\ Adding(b) \subseteq OfKind(b) /\ Removing(b) \subseteq OfKind(b)
    /\ subscribers[b] \subseteq OfKind(b)
    /\ Adding(b) \intersect (subscribers[b] \union closed) = {}
    /\ b \notin stopped => subscribers[b] \intersect closed = {}
    /\ b \in stopped => sending[b] = Pause
    /\ \A s \in Adding(b) \union subscribers[b] : phase[s] # "new"
    /\ \A s \in Removing(b) : phase[s] = "left"
    /\ \A s \in Subscriptions : sending[b].to[s] > 0 => s \in subscribers[b]

Registry ==
    /\ \A b \in Broadcasters : Registered(b)
    /\ \A s \in closed : phase[s] # "new"
    /\ running => stopped = {} /\ \A s \in closed : phase[s] = "left"
    /\ ~panicked

LEMMA NobodyType == Nobody \in [Subscriptions -> Nat] /\ Pause \in [vaa : {Empty}, to : {Nobody}]
BY DEF Nobody, Pause

LEMMA SendsType ==
    ASSUME SpyTyped, NEW b \in Broadcasters, NEW v \in SpyVaas, NEW to \in Sends(b, v)
    PROVE  /\ to \in [Subscriptions -> Nat]
           /\ \A s \in Subscriptions : to[s] > 0 =>
                 s \in subscribers[b] /\ to[s] <= IF s \in Unfiltered THEN 1 ELSE Matches[s][v]
<1> DEFINE sends(S) == [s \in Subscriptions |-> IF s \notin S THEN 0
                                                ELSE IF s \in Unfiltered THEN 1 ELSE Matches[s][v]]
<1>1. \E S \in SUBSET subscribers[b] : to = sends(S)
    <2>1. Nobody = sends({})
        BY DEF Nobody
    <2> HIDE DEF sends
    <2>2. CASE v \notin Undecodable
        BY <2>2 DEF Sends, sends
    <2>3. CASE v \in Undecodable
        <3>1. to = Nobody \/ \E S \in SUBSET (subscribers[b] \intersect Unfiltered) : to = sends(S)
            BY <2>3 DEF Sends, sends
        <3> QED
            BY <2>1, <3>1
    <2> QED
        BY <2>2, <2>3
<1>2. \A s \in Subscriptions : Matches[s][v] \in Nat
    BY SpyAssumption
<1> QED
    BY <1>1, <1>2

LEMMA SpyTypedStep ==
    ASSUME SpyTyped, HoldOne, [SpyNext]_spyVars
    PROVE  SpyTyped' /\ HoldOne'
<1> USE DEF SpyTyped, HoldOne, Broadcasters
<1>1. CASE UNCHANGED spyVars
    BY <1>1 DEF spyVars, feed, registry
<1>2. ASSUME NEW v \in SpyVaas, Receive(v) PROVE SpyTyped' /\ HoldOne'
    BY <1>2 DEF Receive, registry
<1>3. ASSUME NEW b \in Broadcasters, HandleVAA(b) PROVE SpyTyped' /\ HoldOne'
    <2>1. publishing.vaa \in SpyVaas
        BY <1>3 DEF HandleVAA, Free
    <2>2. source' \in [Broadcasters -> Seq(SpyVaas)] /\ \A c \in Broadcasters : Len(source'[c]) <= 1
        BY <1>3, <2>1 DEF HandleVAA
    <2>3. /\ publishing' \in [vaa : SpyVaas \union {Empty}, to : Broadcasters \union {Free}]
          /\ publishing'.vaa = publishing.vaa
        BY <1>3 DEF HandleVAA
    <2> QED
        BY <1>3, <2>1, <2>2, <2>3 DEF HandleVAA, registry
<1>4. ASSUME NEW b \in Broadcasters, AddSubscriber(b) PROVE SpyTyped' /\ HoldOne'
    <2>1. Head(addSubscriber[b]) \in Subscriptions
        BY <1>4 DEF AddSubscriber
    <2>2. subscribers' \in [Broadcasters -> SUBSET Subscriptions]
        BY <1>4, <2>1 DEF AddSubscriber
    <2>3. /\ addSubscriber' \in [Broadcasters -> Seq(Subscriptions)]
          /\ \A c \in Broadcasters : Len(addSubscriber'[c]) <= 1
        BY <1>4 DEF AddSubscriber
    <2> QED
        BY <1>4, <2>2, <2>3 DEF AddSubscriber, feed
<1>5. ASSUME NEW b \in Broadcasters, RemoveSubscriber(b) PROVE SpyTyped' /\ HoldOne'
    <2>1. Head(removeSubscriber[b]) \in Subscriptions
        BY <1>5 DEF RemoveSubscriber
    <2>2. /\ removeSubscriber' \in [Broadcasters -> Seq(Subscriptions)]
          /\ \A c \in Broadcasters : Len(removeSubscriber'[c]) <= 1
        BY <1>5 DEF RemoveSubscriber
    <2>3. subscribers' \in [Broadcasters -> SUBSET Subscriptions]
        BY <1>5 DEF RemoveSubscriber
    <2>4. closed' \subseteq Subscriptions /\ panicked' \in BOOLEAN
        BY <1>5, <2>1 DEF RemoveSubscriber
    <2>5. UNCHANGED <<feed, source, addSubscriber, sending, ch, sent, phase, running, stopped>>
        BY <1>5 DEF RemoveSubscriber
    <2> QED
        BY <2>2, <2>3, <2>4, <2>5 DEF feed
<1>6. ASSUME NEW b \in Broadcasters, TakeVaa(b) PROVE SpyTyped' /\ HoldOne'
    <2>1. Head(source[b]) \in SpyVaas
        BY <1>6 DEF TakeVaa
    <2>2. PICK to \in Sends(b, Head(source[b])) :
             sending' = [sending EXCEPT ![b] = IF to = Nobody THEN Pause ELSE [vaa |-> Head(source[b]), to |-> to]]
        BY <1>6 DEF TakeVaa
    <2>3. to \in [Subscriptions -> Nat]
        BY <2>1, <2>2, SendsType
    <2>4. sending' \in [Broadcasters -> [vaa : SpyVaas \union {Empty}, to : [Subscriptions -> Nat]]]
        BY <2>1, <2>2, <2>3, NobodyType, Zenon DEF Pause
    <2>5. \A c \in Broadcasters : sending'[c].vaa = Empty => sending'[c] = Pause
        BY <2>1, <2>2, SpyAssumption DEF Empty
    <2> QED
        BY <1>6, <2>4, <2>5 DEF TakeVaa, feed, registry
<1>7. ASSUME NEW b \in Broadcasters, NEW s \in Subscriptions, Send(b, s) PROVE SpyTyped' /\ HoldOne'
    <2> DEFINE rest == [sending[b].to EXCEPT ![s] = @ - 1]
    <2>0. sending[b].to \in [Subscriptions -> Nat] /\ sending[b].to[s] > 0
        BY <1>7 DEF Send
    <2>1. rest \in [Subscriptions -> Nat]
        BY <2>0
    <2>2. sending' = [sending EXCEPT ![b] = IF rest = Nobody THEN Pause ELSE [vaa |-> sending[b].vaa, to |-> rest]]
        BY <1>7, Zenon DEF Send
    <2> HIDE DEF rest
    <2>3. sending' \in [Broadcasters -> [vaa : SpyVaas \union {Empty}, to : [Subscriptions -> Nat]]]
        BY <2>1, <2>2, NobodyType DEF Pause
    <2>4. sending[b].vaa \in SpyVaas
        BY <2>0 DEF Pause, Nobody
    <2>6. \A c \in Broadcasters : sending'[c].vaa = Empty => sending'[c] = Pause
        BY <2>2, <2>4, SpyAssumption DEF Empty
    <2>5. ch' \in [Subscriptions -> Seq(SpyVaas)] /\ \A z \in Subscriptions : Len(ch'[z]) <= 1
        BY <1>7, <2>4 DEF Send, Offer
    <2> QED
        <3>1. /\ UNCHANGED <<arrived, publishing, source, addSubscriber, removeSubscriber, subscribers,
                            closed, phase, sent, running, stopped>>
              /\ panicked' \in BOOLEAN
            BY <1>7 DEF Send, Offer, feed, registry
        <3> QED
            BY <2>3, <2>5, <2>6, <3>1
<1>8. ASSUME NEW b \in Broadcasters, Stop(b) PROVE SpyTyped' /\ HoldOne'
    BY <1>8 DEF Stop, feed, registry
<1>9. ASSUME NEW s \in Subscriptions, Register(s) \/ Done(s) \/ Unregister(s) PROVE SpyTyped' /\ HoldOne'
    <2>1. KindOf[s] \in Broadcasters
        BY SpyAssumption
    <2>2. phase' \in [Subscriptions -> Phases]
        BY <1>9 DEF Register, Done, Unregister, Phases
    <2>3. CASE Register(s)
        <3>1. /\ addSubscriber' \in [Broadcasters -> Seq(Subscriptions)]
              /\ \A c \in Broadcasters : Len(addSubscriber'[c]) <= 1
            BY <2>1, <2>3 DEF Register
        <3>2. UNCHANGED <<feed, source, removeSubscriber, subscribers, sending, ch, closed, sent,
                          running, stopped, panicked>>
            BY <2>3 DEF Register
        <3> QED
            BY <2>2, <3>1, <3>2 DEF feed
    <2>4. CASE Done(s)
        BY <2>2, <2>4 DEF Done, feed, registry
    <2>5. CASE Unregister(s)
        <3>1. /\ removeSubscriber' \in [Broadcasters -> Seq(Subscriptions)]
              /\ \A c \in Broadcasters : Len(removeSubscriber'[c]) <= 1
            BY <2>1, <2>5 DEF Unregister
        <3>2. UNCHANGED <<feed, source, addSubscriber, subscribers, sending, ch, closed, sent,
                          running, stopped, panicked>>
            BY <2>5 DEF Unregister
        <3> QED
            BY <2>2, <3>1, <3>2 DEF feed
    <2> QED
        BY <1>9, <2>3, <2>4, <2>5
<1>10. ASSUME NEW s \in Subscriptions, Deliver(s) PROVE SpyTyped' /\ HoldOne'
    <2> DEFINE m == IF ch[s] # <<>> THEN Head(ch[s]) ELSE Empty
    <2>1. m \in SpyVaas \union {Empty}
        OBVIOUS
    <2>2. sent' = sent \/ sent' = [sent EXCEPT ![s] = Append(@, m)]
        BY <1>10 DEF Deliver
    <2> HIDE DEF m
    <2>3. sent' \in [Subscriptions -> Seq(SpyVaas \union {Empty})]
        <3>1. Append(sent[s], m) \in Seq(SpyVaas \union {Empty})
            BY <2>1
        <3> QED
            BY <2>2, <3>1, Zenon
    <2>4. ch' \in [Subscriptions -> Seq(SpyVaas)] /\ \A z \in Subscriptions : Len(ch'[z]) <= 1
        BY <1>10 DEF Deliver
    <2>5. phase' \in [Subscriptions -> Phases]
        BY <1>10 DEF Deliver, Phases
    <2> QED
        BY <1>10, <2>3, <2>4, <2>5 DEF Deliver, feed, registry
<1>11. CASE Cancel
    BY <1>11 DEF Cancel, feed, registry
<1> QED
    BY <1>1, <1>2, <1>3, <1>4, <1>5, <1>6, <1>7, <1>8, <1>9, <1>10, <1>11
    DEF SpyNext, Start, Subscribe

LEMMA RegistryStep ==
    ASSUME SpyTyped, HoldOne, Registry, [SpyNext]_spyVars
    PROVE  Registry'
<1> USE DEF Registry, Broadcasters
<1>0. KindOf \in [Subscriptions -> Broadcasters]
    BY SpyAssumption
<1>1. CASE UNCHANGED spyVars
    BY <1>1 DEF spyVars, feed, registry, Registered, Adding, Removing
<1>2. ASSUME NEW v \in SpyVaas, Receive(v) PROVE Registry'
    BY <1>2 DEF Receive, registry, Registered, Adding, Removing
<1>3. ASSUME NEW b \in Broadcasters, HandleVAA(b) PROVE Registry'
    BY <1>3 DEF HandleVAA, registry, Registered, Adding, Removing
<1>4. ASSUME NEW b \in Broadcasters, AddSubscriber(b) PROVE Registry'
    <2> DEFINE n == Head(addSubscriber[b])
    <2>1. /\ Adding(b) = {n} /\ n \in Subscriptions /\ b \notin stopped
          /\ addSubscriber' = [addSubscriber EXCEPT ![b] = <<>>]
          /\ subscribers' = [subscribers EXCEPT ![b] = @ \union {n}]
          /\ UNCHANGED <<removeSubscriber, sending, closed, phase, running, stopped, panicked>>
        BY <1>4, InHead DEF AddSubscriber, Selecting, Adding, SpyTyped, HoldOne
    <2> HIDE DEF n
    <2>2. Adding(b)' = {} /\ subscribers'[b] = subscribers[b] \union {n}
        BY <2>1, InEmpty DEF Adding, SpyTyped
    <2>3. /\ \A c \in Broadcasters : Removing(c)' = Removing(c)
          /\ \A c \in Broadcasters : c # b => Adding(c)' = Adding(c) /\ subscribers'[c] = subscribers[c]
        BY <2>1 DEF Adding, Removing, SpyTyped
    <2>4. ASSUME NEW c \in Broadcasters PROVE Registered(c)'
        <3>1. CASE c = b
            <4>1. Registered(b)
                OBVIOUS
            <4>2. n \in OfKind(b) /\ n \notin closed /\ phase[n] # "new"
                BY <2>1, <4>1 DEF Registered
            <4> QED
                BY <2>1, <2>2, <2>3, <3>1, <4>1, <4>2 DEF Registered, OfKind
        <3>2. CASE c # b
            BY <2>1, <2>3, <3>2 DEF Registered, OfKind
        <3> QED
            BY <3>1, <3>2
    <2> QED
        BY <2>1, <2>4
<1>5. ASSUME NEW b \in Broadcasters, RemoveSubscriber(b) PROVE Registry'
    <2> DEFINE n == Head(removeSubscriber[b])
    <2>1. /\ Removing(b) = {n} /\ n \in Subscriptions /\ b \notin stopped /\ sending[b] = Pause
          /\ removeSubscriber' = [removeSubscriber EXCEPT ![b] = <<>>]
          /\ subscribers' = [subscribers EXCEPT ![b] = @ \ {n}]
          /\ closed' = IF n \in subscribers[b] THEN closed \union {n} ELSE closed
          /\ panicked' = (n \in subscribers[b] \intersect closed)
          /\ UNCHANGED <<addSubscriber, sending, phase, running, stopped>>
        BY <1>5, InHead DEF RemoveSubscriber, Selecting, Removing, SpyTyped, HoldOne
    <2> HIDE DEF n
    <2>2. Removing(b)' = {} /\ subscribers'[b] = subscribers[b] \ {n}
        BY <2>1, InEmpty DEF Removing, SpyTyped
    <2>3. /\ \A c \in Broadcasters : Adding(c)' = Adding(c)
          /\ \A c \in Broadcasters : c # b => Removing(c)' = Removing(c) /\ subscribers'[c] = subscribers[c]
        BY <2>1 DEF Adding, Removing, SpyTyped
    <2>4. Registered(b) /\ n \in OfKind(b) /\ phase[n] = "left"
        BY <2>1 DEF Registered
    <2>5. ~panicked'
        BY <2>1, <2>4 DEF Registered
    <2>6. ASSUME NEW c \in Broadcasters PROVE Registered(c)'
        <3>1. CASE c = b
            <4>1. \A s \in Subscriptions : ~(sending[b].to[s] > 0)
                BY <2>1 DEF Pause, Nobody
            <4> QED
                BY <2>1, <2>2, <2>3, <2>4, <3>1, <4>1 DEF Registered, OfKind
        <3>2. CASE c # b
            <4>1. n \notin OfKind(c)
                BY <2>4, <3>2 DEF OfKind
            <4>2. Registered(c)
                OBVIOUS
            <4> QED
                BY <2>1, <2>3, <3>2, <4>1, <4>2 DEF Registered, OfKind
        <3> QED
            BY <3>1, <3>2
    <2>7. \A s \in closed' : phase'[s] # "new" /\ (running => phase'[s] = "left")
        BY <2>1, <2>4
    <2> QED
        BY <2>1, <2>5, <2>6, <2>7
<1>6. ASSUME NEW b \in Broadcasters, TakeVaa(b) PROVE Registry'
    <2>1. /\ source[b] # <<>> /\ b \notin stopped /\ ~panicked
          /\ UNCHANGED <<addSubscriber, removeSubscriber, subscribers, closed, phase, running, stopped, panicked>>
        BY <1>6 DEF TakeVaa, Selecting, registry
    <2>2. Head(source[b]) \in SpyVaas
        BY <2>1 DEF SpyTyped
    <2>3. PICK to \in Sends(b, Head(source[b])) :
             sending' = [sending EXCEPT ![b] = IF to = Nobody THEN Pause ELSE [vaa |-> Head(source[b]), to |-> to]]
        BY <1>6 DEF TakeVaa
    <2>4. \A s \in Subscriptions : to[s] > 0 => s \in subscribers[b]
        BY <2>2, <2>3, SendsType
    <2>5. \A s \in Subscriptions : sending'[b].to[s] > 0 => s \in subscribers[b]
        BY <2>3, <2>4 DEF SpyTyped, Pause, Nobody
    <2>6. \A c \in Broadcasters : c # b => sending'[c] = sending[c]
        BY <2>3 DEF SpyTyped
    <2>7. \A c \in Broadcasters : Adding(c)' = Adding(c) /\ Removing(c)' = Removing(c)
        BY <2>1 DEF Adding, Removing
    <2>8. ASSUME NEW c \in Broadcasters PROVE Registered(c)'
        <3>1. CASE c = b
            BY <2>1, <2>5, <2>7, <3>1 DEF Registered, OfKind
        <3>2. CASE c # b
            BY <2>1, <2>6, <2>7, <3>2 DEF Registered, OfKind
        <3> QED
            BY <3>1, <3>2
    <2> QED
        BY <2>1, <2>8
<1>7. ASSUME NEW b \in Broadcasters, NEW s \in Subscriptions, Send(b, s) PROVE Registry'
    <2> DEFINE rest == [sending[b].to EXCEPT ![s] = @ - 1]
    <2>1. /\ sending[b].to[s] > 0
          /\ sending' = [sending EXCEPT ![b] = IF rest = Nobody THEN Pause ELSE [vaa |-> sending[b].vaa, to |-> rest]]
          /\ panicked' = (s \in closed)
        BY <1>7, Zenon DEF Send
    <2>2. UNCHANGED <<addSubscriber, removeSubscriber, subscribers, closed, phase, running, stopped>>
        BY <1>7 DEF Send, Offer, registry
    <2>3. sending[b].to \in [Subscriptions -> Nat]
        BY DEF SpyTyped
    <2>4. \A z \in Subscriptions : rest[z] > 0 => sending[b].to[z] > 0
        BY <2>3
    <2> HIDE DEF rest
    <2>5. \A z \in Subscriptions : sending'[b].to[z] > 0 => sending[b].to[z] > 0
        BY <2>1, <2>4 DEF SpyTyped, Pause, Nobody
    <2>6. \A c \in Broadcasters : c # b => sending'[c] = sending[c]
        BY <2>1 DEF SpyTyped
    <2>7. \A c \in Broadcasters : Adding(c)' = Adding(c) /\ Removing(c)' = Removing(c)
        BY <2>2 DEF Adding, Removing
    <2>8. Registered(b) /\ b \notin stopped
        BY <2>1 DEF Registered, Pause, Nobody
    <2>9. ~panicked'
        BY <2>1, <2>8 DEF Registered
    <2>10. ASSUME NEW c \in Broadcasters PROVE Registered(c)'
        <3>1. CASE c = b
            BY <2>2, <2>5, <2>7, <2>8, <3>1 DEF Registered, OfKind
        <3>2. CASE c # b
            BY <2>2, <2>6, <2>7, <3>2 DEF Registered, OfKind
        <3> QED
            BY <3>1, <3>2
    <2> QED
        BY <2>2, <2>9, <2>10
<1>8. ASSUME NEW b \in Broadcasters, Stop(b) PROVE Registry'
    <2>1. /\ ~running /\ b \notin stopped /\ sending[b] = Pause
          /\ stopped' = stopped \union {b} /\ closed' = closed \union subscribers[b]
          /\ panicked' = (subscribers[b] \intersect closed # {})
          /\ UNCHANGED <<addSubscriber, removeSubscriber, subscribers, sending, phase, running>>
        BY <1>8 DEF Stop, Selecting, registry
    <2>2. Registered(b)
        OBVIOUS
    <2>3. \A c \in Broadcasters : Adding(c)' = Adding(c) /\ Removing(c)' = Removing(c)
        BY <2>1 DEF Adding, Removing
    <2>4. ASSUME NEW c \in Broadcasters PROVE Registered(c)'
        <3>1. CASE c = b
            BY <2>1, <2>2, <2>3, <3>1 DEF Registered, OfKind
        <3>2. CASE c # b
            <4>1. OfKind(c) \intersect OfKind(b) = {}
                BY <3>2 DEF OfKind
            <4>2. Registered(c)
                OBVIOUS
            <4> QED
                BY <2>1, <2>2, <2>3, <3>2, <4>1, <4>2 DEF Registered, OfKind
        <3> QED
            BY <3>1, <3>2
    <2>5. \A s \in closed' : phase'[s] # "new"
        BY <2>1, <2>2 DEF Registered
    <2>6. ~panicked'
        BY <2>1, <2>2 DEF Registered
    <2> QED
        BY <2>1, <2>4, <2>5, <2>6
<1>9. ASSUME NEW s \in Subscriptions, Register(s) PROVE Registry'
    <2> DEFINE b == KindOf[s]
    <2>1. /\ phase[s] = "new" /\ addSubscriber[b] = <<>> /\ b \in Broadcasters
          /\ addSubscriber' = [addSubscriber EXCEPT ![b] = <<s>>]
          /\ phase' = [phase EXCEPT ![s] = "serving"]
          /\ UNCHANGED <<removeSubscriber, subscribers, sending, closed, running, stopped, panicked>>
        BY <1>0, <1>9 DEF Register
    <2>2. s \in OfKind(b)
        BY DEF OfKind
    <2> HIDE DEF b
    <2>3. Adding(b)' = {s} /\ Adding(b) = {}
        BY <2>1, InOne, InEmpty DEF Adding, SpyTyped
    <2>4. /\ \A c \in Broadcasters : Removing(c)' = Removing(c)
          /\ \A c \in Broadcasters : c # b => Adding(c)' = Adding(c)
        BY <2>1 DEF Adding, Removing, SpyTyped
    <2>5. phase'[s] # "new" /\ \A z \in Subscriptions : z # s => phase'[z] = phase[z]
        BY <2>1 DEF SpyTyped
    <2>6. s \notin closed /\ \A c \in Broadcasters : s \notin subscribers[c] /\ s \notin Removing(c)
        BY <2>1 DEF Registered
    <2>7. ASSUME NEW c \in Broadcasters PROVE Registered(c)'
        <3>1. Registered(c)
            OBVIOUS
        <3>2. Adding(c) \union subscribers[c] \union Removing(c) \subseteq Subscriptions
            BY <3>1 DEF Registered, OfKind
        <3>3. CASE c = b
            BY <2>1, <2>2, <2>3, <2>4, <2>5, <2>6, <3>1, <3>2, <3>3 DEF Registered, OfKind
        <3>4. CASE c # b
            <4>1. s \notin Adding(c)
                BY <2>1, <3>1 DEF Registered
            <4> QED
                BY <2>1, <2>4, <2>5, <2>6, <3>1, <3>2, <3>4, <4>1 DEF Registered, OfKind
        <3> QED
            BY <3>3, <3>4
    <2>8. \A z \in closed : phase'[z] = phase[z]
        BY <2>5, <2>6 DEF SpyTyped
    <2> QED
        BY <2>1, <2>7, <2>8
<1>10. ASSUME NEW s \in Subscriptions, Deliver(s) \/ Done(s) PROVE Registry'
    <2>1. /\ phase[s] = "serving" /\ (phase' = phase \/ phase' = [phase EXCEPT ![s] = "leaving"])
          /\ UNCHANGED <<addSubscriber, removeSubscriber, subscribers, sending, closed, running, stopped, panicked>>
        BY <1>10 DEF Deliver, Done, registry
    <2>2. \A z \in Subscriptions : phase'[z] = phase[z] \/ (z = s /\ phase'[z] = "leaving")
        BY <2>1 DEF SpyTyped
    <2>3. \A c \in Broadcasters : Adding(c)' = Adding(c) /\ Removing(c)' = Removing(c)
        BY <2>1 DEF Adding, Removing
    <2>4. ASSUME NEW c \in Broadcasters PROVE Registered(c)'
        <3>1. Registered(c)
            OBVIOUS
        <3>2. Adding(c) \union subscribers[c] \union Removing(c) \subseteq Subscriptions /\ s \notin Removing(c)
            BY <2>1, <3>1 DEF Registered, OfKind
        <3> QED
            BY <2>1, <2>2, <2>3, <3>1, <3>2 DEF Registered, OfKind
    <2>5. \A z \in closed' : phase'[z] # "new" /\ (running => phase'[z] = "left")
        BY <2>1, <2>2 DEF SpyTyped
    <2> QED
        BY <2>1, <2>4, <2>5
<1>11. ASSUME NEW s \in Subscriptions, Unregister(s) PROVE Registry'
    <2> DEFINE b == KindOf[s]
    <2>1. /\ phase[s] = "leaving" /\ removeSubscriber[b] = <<>> /\ b \in Broadcasters
          /\ removeSubscriber' = [removeSubscriber EXCEPT ![b] = <<s>>]
          /\ phase' = [phase EXCEPT ![s] = "left"]
          /\ UNCHANGED <<addSubscriber, subscribers, sending, closed, running, stopped, panicked>>
        BY <1>0, <1>11 DEF Unregister
    <2>2. s \in OfKind(b)
        BY DEF OfKind
    <2> HIDE DEF b
    <2>3. Removing(b)' = {s}
        BY <2>1, InOne DEF Removing, SpyTyped
    <2>4. /\ \A c \in Broadcasters : Adding(c)' = Adding(c)
          /\ \A c \in Broadcasters : c # b => Removing(c)' = Removing(c)
        BY <2>1 DEF Adding, Removing, SpyTyped
    <2>5. \A z \in Subscriptions : phase'[z] = phase[z] \/ (z = s /\ phase'[z] = "left")
        BY <2>1 DEF SpyTyped
    <2>6. phase'[s] = "left"
        BY <2>1 DEF SpyTyped
    <2>7. ASSUME NEW c \in Broadcasters PROVE Registered(c)'
        <3>1. Registered(c)
            OBVIOUS
        <3>2. Adding(c) \union subscribers[c] \union Removing(c) \subseteq Subscriptions
            BY <3>1 DEF Registered, OfKind
        <3>3. CASE c = b
            BY <2>1, <2>2, <2>3, <2>4, <2>5, <2>6, <3>1, <3>2, <3>3 DEF Registered, OfKind
        <3>4. CASE c # b
            BY <2>1, <2>4, <2>5, <3>1, <3>2, <3>4 DEF Registered, OfKind
        <3> QED
            BY <3>3, <3>4
    <2>8. \A z \in closed' : phase'[z] # "new" /\ (running => phase'[z] = "left")
        BY <2>1, <2>5 DEF SpyTyped
    <2> QED
        BY <2>1, <2>7, <2>8
<1>12. CASE Cancel
    BY <1>12 DEF Cancel, registry, Registered, Adding, Removing
<1> QED
    BY <1>1, <1>2, <1>3, <1>4, <1>5, <1>6, <1>7, <1>8, <1>9, <1>10, <1>11, <1>12
    DEF SpyNext, Start, Subscribe

\* What a subscription asks for, and how often it may get it.
Wants(s, v) == s \in Unfiltered \/ Matches[s][v] > 0
Quota(s, v) == IF s \in Unfiltered THEN 1 ELSE Matches[s][v]
InTurn(s, v, w) == v < w \/ (v = w /\ s \notin Unfiltered /\ Matches[s][v] > 1)

\* The publisher has still to hand its VAA to b.
Ahead(b) == publishing.to = b \/ (b = "all" /\ publishing.to = "signed")

\* VAAs overtake each other nowhere between the publisher and the broadcasters,
InLine(b) ==
    /\ Waiting(b) \subseteq arrived
    /\ sending[b].vaa # Empty => sending[b].vaa \in arrived
    /\ Ahead(b) => sending[b].vaa < publishing.vaa /\ \A v \in Waiting(b) : v < publishing.vaa
    /\ \A v \in Waiting(b) : sending[b].vaa < v
    /\ \A s \in Subscriptions : sending[b].to[s] > 0 => sending[b].to[s] <= Quota(s, sending[b].vaa)

\* nor between a broadcaster and a client.
Behind(s, b) ==
    \A v \in Queued(s) \union Got(s) :
        /\ v \in arrived /\ Wants(s, v)
        /\ Ahead(b) => v < publishing.vaa
        /\ \A w \in Waiting(b) : v < w
        /\ sending[b].vaa # Empty => v <= sending[b].vaa
        /\ v = sending[b].vaa => sending[b].to[s] < Quota(s, v)
NextAfter(s) == \A v \in Got(s), w \in Queued(s) : InTurn(s, v, w)
SentInOrder(s) ==
    \A i, j \in DOMAIN sent[s] : i < j /\ sent[s][i] # Empty /\ sent[s][j] # Empty =>
        InTurn(s, sent[s][i], sent[s][j])

Order ==
    /\ publishing.to # Free => publishing.vaa \in arrived
    /\ \A b \in Broadcasters : InLine(b)
    /\ \A s \in Subscriptions : Behind(s, KindOf[s]) /\ NextAfter(s) /\ SentInOrder(s)

LEMMA SpyNumbers ==
    ASSUME SpyTyped
    PROVE  publishing.vaa \in Int /\ \A b \in Broadcasters : \A w \in Waiting(b) : w \in Nat
<1>1. SpyVaas \union {Empty} \subseteq Int
    BY SpyAssumption DEF Empty
<1>2. publishing.vaa \in SpyVaas \union {Empty}
    BY DEF SpyTyped
<1>3. publishing.vaa \in Int
    BY <1>1, <1>2, Zenon
<1>4. \A b \in Broadcasters : Waiting(b) \subseteq SpyVaas
    BY DEF SpyTyped, Waiting, In
<1> QED
    BY <1>3, <1>4, SpyAssumption

LEMMA OrderStep ==
    ASSUME SpyTyped, HoldOne, Registry, Order, [SpyNext]_spyVars
    PROVE  Order'
<1> USE DEF Order, Broadcasters
<1>0. /\ KindOf \in [Subscriptions -> Broadcasters] /\ SpyVaas \subseteq Nat /\ arrived \subseteq Nat
      /\ \A s \in Subscriptions, v \in SpyVaas : Quota(s, v) \in Nat /\ (Wants(s, v) <=> Quota(s, v) > 0)
    BY SpyAssumption DEF SpyTyped, Quota, Wants
<1>01. /\ \A b \in Broadcasters : Waiting(b) \subseteq SpyVaas
       /\ \A b \in Broadcasters : sending[b].vaa \in SpyVaas \union {Empty}
       /\ \A b \in Broadcasters, s \in Subscriptions : sending[b].to[s] \in Nat
       /\ publishing.vaa \in SpyVaas \union {Empty}
    BY DEF SpyTyped, Waiting, In
<1>02. publishing.vaa \in Int /\ \A b \in Broadcasters : \A w \in Waiting(b) : w \in Nat
    BY SpyNumbers
<1>1. ASSUME UNCHANGED <<arrived, publishing, source, sending, ch, sent>> PROVE Order'
    BY <1>1 DEF InLine, Behind, NextAfter, SentInOrder, Ahead, Waiting, Queued, Got
<1>2. ASSUME NEW v \in SpyVaas, Receive(v) PROVE Order'
    <2>1. /\ \A w \in arrived : w < v
          /\ arrived' = arrived \union {v} /\ publishing' = [vaa |-> v, to |-> "signed"]
          /\ UNCHANGED <<source, sending, ch, sent>>
        BY <1>2 DEF Receive
    <2>2. \A b \in Broadcasters : Waiting(b)' = Waiting(b)
        BY <2>1 DEF Waiting
    <2>3. \A s \in Subscriptions : Queued(s)' = Queued(s) /\ Got(s)' = Got(s)
        BY <2>1 DEF Queued, Got
    <2>4. ASSUME NEW b \in Broadcasters PROVE InLine(b)'
        <3>1. InLine(b)
            OBVIOUS
        <3>2. sending[b].vaa < v
            BY <1>0, <1>01, <2>1, <3>1 DEF InLine, Empty
        <3> QED
            BY <1>0, <1>01, <2>1, <2>2, <3>1, <3>2 DEF InLine
    <2>5. ASSUME NEW s \in Subscriptions, NEW b \in Broadcasters, b = KindOf[s] PROVE Behind(s, b)'
        <3>1. Behind(s, b)
            BY <2>5
        <3> QED
            BY <1>0, <2>1, <2>2, <2>3, <3>1 DEF Behind
    <2>6. \A s \in Subscriptions : NextAfter(s)' /\ SentInOrder(s)'
        BY <2>1, <2>3 DEF NextAfter, SentInOrder
    <2> QED
        BY <1>0, <2>1, <2>4, <2>5, <2>6
<1>3. ASSUME NEW b \in Broadcasters, HandleVAA(b) PROVE Order'
    <2>1. /\ publishing.to = b /\ source[b] = <<>>
          /\ source' = [source EXCEPT ![b] = <<publishing.vaa>>]
          /\ publishing' = [publishing EXCEPT !.to = IF b = "signed" THEN "all" ELSE Free]
          /\ UNCHANGED <<arrived, sending, ch, sent>>
        BY <1>3 DEF HandleVAA
    <2>2. publishing.vaa \in arrived /\ publishing.vaa \in Nat
        BY <1>0, <2>1 DEF Free
    <2>3. /\ publishing'.vaa = publishing.vaa
          /\ publishing'.to = IF b = "signed" THEN "all" ELSE Free
        BY <2>1 DEF SpyTyped
    <2>4. /\ Ahead(b) /\ ~Ahead(b)'
          /\ \A c \in Broadcasters : c # b /\ Ahead(c)' => Ahead(c)
        BY <2>1, <2>3 DEF Ahead, Free
    <2>5. Waiting(b) = {} /\ Waiting(b)' = {publishing.vaa}
        BY <2>1, InEmpty, InOne DEF Waiting, SpyTyped
    <2>6. \A c \in Broadcasters : c # b => Waiting(c)' = Waiting(c)
        BY <2>1 DEF Waiting, SpyTyped
    <2>7. \A s \in Subscriptions : Queued(s)' = Queued(s) /\ Got(s)' = Got(s)
        BY <2>1 DEF Queued, Got
    <2>8. ASSUME NEW c \in Broadcasters PROVE InLine(c)'
        <3>1. InLine(c)
            OBVIOUS
        <3>2. CASE c = b
            BY <2>1, <2>2, <2>4, <2>5, <3>1, <3>2 DEF InLine
        <3>3. CASE c # b
            BY <2>1, <2>3, <2>4, <2>6, <3>1, <3>3 DEF InLine
        <3> QED
            BY <3>2, <3>3
    <2>9. ASSUME NEW s \in Subscriptions, NEW c \in Broadcasters, c = KindOf[s] PROVE Behind(s, c)'
        <3>1. Behind(s, c)
            BY <2>9
        <3>2. CASE c = b
            BY <2>1, <2>4, <2>5, <2>7, <3>1, <3>2 DEF Behind
        <3>3. CASE c # b
            BY <2>1, <2>3, <2>4, <2>6, <2>7, <3>1, <3>3 DEF Behind
        <3> QED
            BY <3>2, <3>3
    <2>10. \A s \in Subscriptions : NextAfter(s)' /\ SentInOrder(s)'
        BY <2>1, <2>7 DEF NextAfter, SentInOrder
    <2> QED
        BY <1>0, <2>1, <2>2, <2>3, <2>8, <2>9, <2>10
<1>4. ASSUME NEW b \in Broadcasters, TakeVaa(b) PROVE Order'
    <2> DEFINE v == Head(source[b])
    <2>1. /\ source[b] # <<>> /\ sending[b] = Pause
          /\ source' = [source EXCEPT ![b] = <<>>]
          /\ UNCHANGED <<arrived, publishing, ch, sent>>
        BY <1>4 DEF TakeVaa, Selecting, feed
    <2>2. v \in SpyVaas /\ Waiting(b) = {v}
        BY <2>1, InHead DEF SpyTyped, HoldOne, Waiting
    <2>3. PICK to \in Sends(b, v) :
             sending' = [sending EXCEPT ![b] = IF to = Nobody THEN Pause ELSE [vaa |-> v, to |-> to]]
        BY <1>4 DEF TakeVaa
    <2>4. /\ to \in [Subscriptions -> Nat]
          /\ \A s \in Subscriptions : to[s] > 0 => to[s] <= Quota(s, v)
        BY <2>2, <2>3, SendsType DEF Quota
    <2> HIDE DEF v
    <2>5. Waiting(b)' = {} /\ \A c \in Broadcasters : c # b => Waiting(c)' = Waiting(c)
        BY <2>1, InEmpty DEF Waiting, SpyTyped
    <2>6. \A c \in Broadcasters : Ahead(c)' <=> Ahead(c)
        BY <2>1 DEF Ahead
    <2>7. \A s \in Subscriptions : Queued(s)' = Queued(s) /\ Got(s)' = Got(s)
        BY <2>1 DEF Queued, Got
    <2>8. \/ sending'[b] = Pause
          \/ sending'[b].vaa = v /\ sending'[b].to = to
        BY <2>3 DEF SpyTyped
    <2>9. \A c \in Broadcasters : c # b => sending'[c] = sending[c]
        BY <2>3 DEF SpyTyped
    <2>10. \A s \in Subscriptions : Pause.to[s] = 0 /\ Pause.vaa = -1
        BY DEF Pause, Nobody, Empty
    <2>11. InLine(b)
        OBVIOUS
    <2>12. v \in arrived /\ v \in Nat /\ (Ahead(b) => v < publishing.vaa /\ -1 < publishing.vaa)
        BY <1>0, <1>02, <2>1, <2>2, <2>10, <2>11 DEF InLine
    <2>13. ASSUME NEW c \in Broadcasters PROVE InLine(c)'
        <3>1. CASE c # b
            BY <2>1, <2>5, <2>6, <2>9, <3>1 DEF InLine
        <3>2. CASE c = b /\ sending'[b] = Pause
            BY <2>1, <2>5, <2>6, <2>10, <2>12, <3>2 DEF InLine, Empty
        <3>3. CASE c = b /\ sending'[b].vaa = v /\ sending'[b].to = to
            BY <2>1, <2>4, <2>5, <2>6, <2>12, <3>3 DEF InLine
        <3> QED
            BY <2>8, <3>1, <3>2, <3>3
    <2>14. ASSUME NEW s \in Subscriptions, NEW c \in Broadcasters, c = KindOf[s] PROVE Behind(s, c)'
        <3>1. Behind(s, c)
            BY <2>14
        <3>2. CASE c # b
            BY <2>1, <2>5, <2>6, <2>7, <2>9, <3>1, <3>2 DEF Behind
        <3>3. CASE c = b
            <4> SUFFICES ASSUME NEW w \in Queued(s) \union Got(s)
                         PROVE  /\ sending'[b].vaa # Empty => w <= sending'[b].vaa
                                /\ w = sending'[b].vaa => sending'[b].to[s] < Quota(s, w)
                BY <2>1, <2>5, <2>6, <2>7, <3>1, <3>3 DEF Behind
            <4>1. w < v /\ w \in Nat
                BY <1>0, <2>2, <3>1, <3>3 DEF Behind
            <4>2. CASE sending'[b] = Pause
                BY <2>10, <4>1, <4>2 DEF Empty
            <4>3. CASE sending'[b].vaa = v
                BY <2>12, <4>1, <4>3
            <4> QED
                BY <2>8, <4>2, <4>3
        <3> QED
            BY <3>2, <3>3
    <2>15. \A s \in Subscriptions : NextAfter(s)' /\ SentInOrder(s)'
        BY <2>1, <2>7 DEF NextAfter, SentInOrder
    <2> QED
        BY <1>0, <2>1, <2>13, <2>14, <2>15
<1>5. ASSUME NEW b \in Broadcasters, NEW s \in Subscriptions, Send(b, s) PROVE Order'
    <2> DEFINE rest == [sending[b].to EXCEPT ![s] = @ - 1]
               v == sending[b].vaa
    <2>1. /\ sending[b].to[s] > 0
          /\ sending' = [sending EXCEPT ![b] = IF rest = Nobody THEN Pause ELSE [vaa |-> v, to |-> rest]]
        BY <1>5, Zenon DEF Send
    <2>2. /\ UNCHANGED <<arrived, publishing, source, sent>>
          /\ ch' = [ch EXCEPT ![s] = IF @ = <<>> THEN <<v>> ELSE @]
        BY <1>5 DEF Send, Offer, feed
    <2>3. sending[b].to \in [Subscriptions -> Nat] /\ sending[b].to[s] \in Nat
        BY DEF SpyTyped
    <2>4. /\ rest[s] = sending[b].to[s] - 1
          /\ \A z \in Subscriptions : z # s => rest[z] = sending[b].to[z]
        BY <2>3
    <2>5. v \in SpyVaas /\ KindOf[s] = b /\ v # Empty
        <3>1. v # Empty
            BY <2>1 DEF SpyTyped, Pause, Nobody
        <3>2. s \in subscribers[b] /\ subscribers[b] \subseteq OfKind(b)
            BY <2>1 DEF Registry, Registered
        <3> QED
            BY <1>01, <3>1, <3>2 DEF OfKind
    <2> HIDE DEF rest, v
    <2>6. \/ sending'[b] = Pause
          \/ sending'[b].vaa = v /\ sending'[b].to = rest
        BY <2>1 DEF SpyTyped
    <2>7. \A c \in Broadcasters : c # b => sending'[c] = sending[c]
        BY <2>1 DEF SpyTyped
    <2>8. \A z \in Subscriptions : Pause.to[z] = 0 /\ Pause.vaa = -1
        BY DEF Pause, Nobody, Empty
    <2>9. \A c \in Broadcasters : (Ahead(c)' <=> Ahead(c)) /\ Waiting(c)' = Waiting(c)
        BY <2>2 DEF Ahead, Waiting
    <2>10. /\ \A z \in Subscriptions : Got(z)' = Got(z)
           /\ \A z \in Subscriptions : z # s => Queued(z)' = Queued(z)
           /\ Queued(s)' = Queued(s) \/ (Queued(s) = {} /\ Queued(s)' = {v})
        <3>1. CASE ch[s] = <<>>
            BY <2>2, <3>1, InEmpty, InOne DEF Queued, Got, SpyTyped
        <3>2. CASE ch[s] # <<>>
            BY <2>2, <3>2 DEF Queued, Got, SpyTyped
        <3> QED
            BY <3>1, <3>2
    <2>11. InLine(b)
        OBVIOUS
    <2>12. v \in arrived /\ v \in Nat /\ sending[b].to[s] <= Quota(s, v) /\ Quota(s, v) \in Nat
        BY <1>0, <2>1, <2>5, <2>11 DEF InLine, v
    <2>13. ASSUME NEW c \in Broadcasters PROVE InLine(c)'
        <3>1. CASE c # b
            BY <2>2, <2>7, <2>9, <3>1 DEF InLine
        <3>2. CASE c = b /\ sending'[b] = Pause
            <4>1. Ahead(b) => -1 < publishing.vaa
                BY <1>02, <2>11, <2>12 DEF InLine, v
            <4>2. \A w \in Waiting(b) : -1 < w
                BY <1>02
            <4> QED
                BY <2>2, <2>8, <2>9, <2>11, <3>2, <4>1, <4>2 DEF InLine, Empty
        <3>3. CASE c = b /\ sending'[b].vaa = v /\ sending'[b].to = rest
            <4>1. \A z \in Subscriptions : rest[z] > 0 => rest[z] <= Quota(z, v)
                BY <2>3, <2>4, <2>11, <2>12 DEF InLine, v
            <4> QED
                BY <2>2, <2>9, <2>11, <3>3, <4>1 DEF InLine, v
        <3> QED
            BY <2>6, <3>1, <3>2, <3>3
    <2>14. Behind(s, b)
        BY <2>5
    <2>15. ASSUME NEW z \in Subscriptions, NEW c \in Broadcasters, c = KindOf[z] PROVE Behind(z, c)'
        <3>1. Behind(z, c)
            BY <2>15
        <3>2. ASSUME NEW w \in Queued(z) \union Got(z)
              PROVE  /\ sending'[c].vaa # Empty => w <= sending'[c].vaa
                     /\ w = sending'[c].vaa => sending'[c].to[z] < Quota(z, w)
            <4>1. w \in arrived /\ w \in Nat
                BY <1>0, <3>1, <3>2 DEF Behind
            <4>2. CASE c # b
                BY <2>7, <3>1, <3>2, <4>2 DEF Behind
            <4>3. CASE c = b /\ sending'[b] = Pause
                BY <2>8, <4>1, <4>3 DEF Empty
            <4>4. CASE c = b /\ sending'[b].vaa = v /\ sending'[b].to = rest
                <5>1. w <= v /\ (w = v => sending[b].to[z] < Quota(z, w))
                    BY <2>5, <3>1, <3>2, <4>4 DEF Behind, v
                <5>2. rest[z] \in Int /\ rest[z] <= sending[b].to[z] /\ sending[b].to[z] \in Int
                    BY <1>01, <2>3, <2>4
                <5>3. w = v => Quota(z, w) \in Nat
                    BY <1>0, <2>5
                <5> QED
                    BY <4>4, <5>1, <5>2, <5>3
            <4> QED
                BY <2>6, <4>2, <4>3, <4>4
        <3>3. CASE Queued(z)' = Queued(z)
            BY <2>2, <2>9, <2>10, <3>1, <3>2, <3>3 DEF Behind
        <3>4. CASE z = s /\ Queued(s)' = {v}
            <4>1. c = b
                BY <2>5, <2>15, <3>4
            <4>2. Wants(s, v) /\ (Ahead(b) => v < publishing.vaa) /\ \A w \in Waiting(b) : v < w
                BY <1>0, <2>1, <2>3, <2>5, <2>11, <2>12 DEF InLine, v
            <4>3. /\ sending'[b].vaa # Empty => v <= sending'[b].vaa
                  /\ v = sending'[b].vaa => sending'[b].to[s] < Quota(s, v)
                <5>1. CASE sending'[b] = Pause
                    BY <2>8, <2>12, <5>1 DEF Empty
                <5>2. CASE sending'[b].vaa = v /\ sending'[b].to = rest
                    BY <2>3, <2>4, <2>12, <5>2
                <5> QED
                    BY <2>6, <5>1, <5>2
            <4> QED
                BY <2>2, <2>9, <2>10, <2>12, <3>1, <3>2, <3>4, <4>1, <4>2, <4>3 DEF Behind
        <3> QED
            BY <2>10, <3>3, <3>4
    <2>16. ASSUME NEW z \in Subscriptions PROVE NextAfter(z)'
        <3>1. CASE Queued(z)' = Queued(z)
            BY <2>10, <3>1 DEF NextAfter
        <3>2. CASE z = s /\ Queued(s)' = {v}
            <4> SUFFICES ASSUME NEW w \in Got(s) PROVE InTurn(s, w, v)
                BY <2>10, <3>2 DEF NextAfter
            <4>1. w \in Nat /\ w <= v /\ (w = v => sending[b].to[s] < Quota(s, v))
                BY <1>0, <2>5, <2>14 DEF Behind, v
            <4>2. w = v => Quota(s, v) > 1
                BY <2>1, <2>3, <2>12, <4>1
            <4> QED
                BY <2>12, <4>1, <4>2 DEF InTurn, Quota
        <3> QED
            BY <2>10, <3>1, <3>2
    <2>17. \A z \in Subscriptions : SentInOrder(z)'
        BY <2>2 DEF SentInOrder
    <2> QED
        BY <1>0, <2>2, <2>13, <2>15, <2>16, <2>17
<1>6. ASSUME NEW s \in Subscriptions, Deliver(s) PROVE Order'
    <2> DEFINE m == IF ch[s] # <<>> THEN Head(ch[s]) ELSE Empty
    <2>1. /\ UNCHANGED <<arrived, publishing, source, sending>>
          /\ ch' = [ch EXCEPT ![s] = IF @ = <<>> THEN @ ELSE Tail(@)]
          /\ sent' = sent \/ sent' = [sent EXCEPT ![s] = Append(@, m)]
        <3>1. sent' = sent \/ sent' = [sent EXCEPT ![s] = Append(@, m)]
            <4>1. sent \in [Subscriptions -> Seq(SpyVaas \union {Empty})]
                BY DEF SpyTyped
            <4>2. [sent EXCEPT ![s] = @] = sent
                BY <4>1
            <4> DEFINE twice == m = Empty /\ sent[s] # <<>> /\ sent[s][Len(sent[s])] = Empty
            <4>3. \/ sent' = [sent EXCEPT ![s] = IF twice THEN @ ELSE Append(@, m)]
                  \/ sent' = sent
                BY <1>6, Zenon DEF Deliver
            <4> HIDE DEF twice, m
            <4> QED
                BY <4>2, <4>3
        <3> QED
            BY <1>6, <3>1 DEF Deliver, feed
    <2>2. /\ m \in SpyVaas \union {Empty} /\ (m # Empty => Queued(s) = {m})
        <3>1. CASE ch[s] = <<>>
            BY <3>1
        <3>2. CASE ch[s] # <<>>
            BY <3>2, InHead DEF SpyTyped, HoldOne, Queued
        <3> QED
            BY <3>1, <3>2
    <2>3. /\ Queued(s)' = {}
          /\ \A z \in Subscriptions : z # s => Queued(z)' = Queued(z)
        <3>1. CASE ch[s] = <<>>
            BY <2>1, <3>1, InEmpty DEF Queued, SpyTyped
        <3>2. CASE ch[s] # <<>>
            BY <2>1, <3>2, InHead, InEmpty DEF Queued, SpyTyped, HoldOne
        <3> QED
            BY <3>1, <3>2
    <2> HIDE DEF m
    <2>4. sent[s] \in Seq(SpyVaas \union {Empty})
        BY DEF SpyTyped
    <2>5. /\ \A z \in Subscriptions : z # s => sent'[z] = sent[z] /\ Got(z)' = Got(z)
          /\ sent'[s] = sent[s] \/ sent'[s] = Append(sent[s], m)
        BY <2>1 DEF Got, SpyTyped
    <2>6. Got(s)' \subseteq Got(s) \union Queued(s)
        <3>1. CASE sent'[s] = sent[s]
            BY <3>1 DEF Got
        <3>2. CASE sent'[s] = Append(sent[s], m)
            <4>1. In(sent'[s]) = In(sent[s]) \union {m}
                BY <2>2, <2>4, <3>2, InAppend
            <4> QED
                BY <2>2, <4>1 DEF Got
        <3> QED
            BY <2>5, <3>1, <3>2
    <2>7. \A c \in Broadcasters : (Ahead(c)' <=> Ahead(c)) /\ Waiting(c)' = Waiting(c)
        BY <2>1 DEF Ahead, Waiting
    <2>8. \A c \in Broadcasters : InLine(c)'
        BY <2>1, <2>7 DEF InLine
    <2>9. ASSUME NEW z \in Subscriptions, NEW c \in Broadcasters, c = KindOf[z] PROVE Behind(z, c)'
        <3>1. Behind(z, c) /\ Queued(z)' \union Got(z)' \subseteq Queued(z) \union Got(z)
            BY <2>3, <2>5, <2>6, <2>9
        <3> QED
            BY <2>1, <2>7, <3>1 DEF Behind
    <2>10. \A z \in Subscriptions : NextAfter(z)'
        BY <2>3, <2>5 DEF NextAfter
    <2>11. ASSUME NEW z \in Subscriptions PROVE SentInOrder(z)'
        <3>1. CASE sent'[z] = sent[z]
            BY <3>1 DEF SentInOrder
        <3>2. CASE z = s /\ sent'[s] = Append(sent[s], m)
            <4> SUFFICES ASSUME NEW i \in DOMAIN sent'[s], NEW j \in DOMAIN sent'[s], i < j,
                                sent'[s][i] # Empty, sent'[s][j] # Empty
                         PROVE  InTurn(s, sent'[s][i], sent'[s][j])
                BY <3>2 DEF SentInOrder, InTurn
            <4>1. /\ DOMAIN sent[s] = 1..Len(sent[s]) /\ Len(sent[s]) \in Nat
                  /\ DOMAIN sent'[s] = 1..Len(sent[s]) + 1
                  /\ \A k \in DOMAIN sent[s] : sent'[s][k] = sent[s][k]
                  /\ sent'[s][Len(sent[s]) + 1] = m
                BY <2>2, <2>4, <3>2
            <4>2. i \in DOMAIN sent[s] /\ sent[s][i] \in Got(s) /\ sent'[s][i] = sent[s][i]
                BY <4>1 DEF Got, In
            <4>3. CASE j \in DOMAIN sent[s]
                BY <4>1, <4>2, <4>3 DEF SentInOrder
            <4>4. CASE j = Len(sent[s]) + 1
                BY <2>2, <4>1, <4>2, <4>4 DEF NextAfter
            <4> QED
                BY <4>1, <4>3, <4>4
        <3> QED
            BY <2>5, <3>1, <3>2
    <2> QED
        BY <1>0, <2>1, <2>8, <2>9, <2>10, <2>11
<1>7. ASSUME NEW b \in Broadcasters, AddSubscriber(b) \/ RemoveSubscriber(b) \/ Stop(b) PROVE Order'
    BY <1>1, <1>7 DEF AddSubscriber, RemoveSubscriber, Stop, feed
<1>8. ASSUME NEW s \in Subscriptions, Register(s) \/ Done(s) \/ Unregister(s) PROVE Order'
    BY <1>1, <1>8 DEF Register, Done, Unregister, feed
<1>9. CASE Cancel \/ UNCHANGED spyVars
    BY <1>1, <1>9 DEF Cancel, spyVars, feed
<1> QED
    BY <1>2, <1>3, <1>4, <1>5, <1>6, <1>7, <1>8, <1>9 DEF SpyNext, Start, Subscribe

\* Only VAAs, until the shutdown closes channels under the handlers.
LEMMA OnlyVaasStep ==
    ASSUME SpyTyped, HoldOne, Registry, EmptyOnlyAtShutdown, [SpyNext]_spyVars
    PROVE  EmptyOnlyAtShutdown'
<1>1. ASSUME sent' = sent, running' => running PROVE EmptyOnlyAtShutdown'
    BY <1>1 DEF EmptyOnlyAtShutdown
<1>2. CASE UNCHANGED spyVars
    BY <1>1, <1>2 DEF spyVars
<1>3. CASE \E v \in SpyVaas : Receive(v)
    BY <1>1, <1>3 DEF Receive
<1>4. ASSUME NEW b \in Broadcasters, HandleVAA(b) \/ Start(b) PROVE EmptyOnlyAtShutdown'
    <2>1. UNCHANGED <<sent, running>>
        BY <1>4 DEF HandleVAA, Start, AddSubscriber, RemoveSubscriber, TakeVaa, Stop, Send
    <2> QED
        BY <1>1, <2>1
<1>5. CASE Cancel
    BY <1>1, <1>5 DEF Cancel
<1>6. ASSUME NEW s \in Subscriptions, Register(s) \/ Done(s) \/ Unregister(s) PROVE EmptyOnlyAtShutdown'
    BY <1>1, <1>6 DEF Register, Done, Unregister
<1>7. ASSUME NEW s \in Subscriptions, Deliver(s) PROVE EmptyOnlyAtShutdown'
    <2> SUFFICES ASSUME running, NEW z \in Subscriptions, NEW i \in DOMAIN sent'[z] PROVE sent'[z][i] # Empty
        BY <1>7 DEF EmptyOnlyAtShutdown, Deliver
    <2> DEFINE m == IF ch[s] # <<>> THEN Head(ch[s]) ELSE Empty
    <2>1. ch[s] # <<>> /\ m \in SpyVaas
        <3>1. s \notin closed
            BY <1>7 DEF Deliver, Registry
        <3> QED
            BY <1>7, <3>1 DEF Deliver, SpyTyped
    <2>2. m # Empty
        BY <2>1, SpyAssumption DEF Empty
    <2>3. sent' = sent \/ sent' = [sent EXCEPT ![s] = Append(@, m)]
        <3> DEFINE twice == m = Empty /\ sent[s] # <<>> /\ sent[s][Len(sent[s])] = Empty
        <3>1. \/ sent' = [sent EXCEPT ![s] = IF twice THEN @ ELSE Append(@, m)]
              \/ sent' = sent
            BY <1>7, Zenon DEF Deliver
        <3>2. ~twice
            BY <2>2
        <3> HIDE DEF twice, m
        <3> QED
            BY <3>1, <3>2
    <2> HIDE DEF m
    <2>4. sent[z] \in Seq(SpyVaas \union {Empty}) /\ \A k \in DOMAIN sent[z] : sent[z][k] # Empty
        BY DEF SpyTyped, EmptyOnlyAtShutdown
    <2>5. sent'[z] = sent[z] \/ sent'[z] = Append(sent[z], m)
        BY <2>3 DEF SpyTyped
    <2>6. CASE sent'[z] = sent[z]
        BY <2>1, <2>4, <2>6
    <2>7. CASE sent'[z] = Append(sent[z], m)
        <3>1. /\ sent'[z][Len(sent[z]) + 1] = m /\ Len(sent[z]) + 1 \in DOMAIN sent'[z]
              /\ \A k \in DOMAIN sent[z] : k \in DOMAIN sent'[z] /\ sent'[z][k] = sent[z][k]
              /\ DOMAIN sent'[z] = DOMAIN sent[z] \union {Len(sent[z]) + 1}
            BY <2>4, <2>7
        <3> QED
            BY <2>1, <2>2, <2>4, <3>1
    <2> QED
        BY <2>5, <2>6, <2>7
<1> QED
    BY <1>2, <1>3, <1>4, <1>5, <1>6, <1>7 DEF SpyNext, Subscribe

SpyInv == SpyTyped /\ HoldOne /\ Registry /\ Order /\ EmptyOnlyAtShutdown

LEMMA SpyInitInv == SpyInit => SpyInv
<1> SUFFICES ASSUME SpyInit PROVE SpyInv
    OBVIOUS
<1> USE DEF SpyInit
<1>1. \A s \in Subscriptions : Pause.to[s] = 0 /\ Pause.vaa = -1
    BY DEF Pause, Nobody, Empty
<1>2. SpyTyped /\ HoldOne
    <2>1. sending \in [Broadcasters -> [vaa : SpyVaas \union {Empty}, to : [Subscriptions -> Nat]]]
        BY NobodyType DEF Pause
    <2>2. /\ publishing \in [vaa : SpyVaas \union {Empty}, to : Broadcasters \union {Free}]
          /\ publishing.to = Free
        OBVIOUS
    <2>3. phase \in [Subscriptions -> Phases]
        BY DEF Phases
    <2>4. \A b \in Broadcasters : sending[b] = Pause /\ source[b] = <<>> /\ addSubscriber[b] = <<>>
                                 /\ removeSubscriber[b] = <<>>
        OBVIOUS
    <2>5. /\ source \in [Broadcasters -> Seq(SpyVaas)]
          /\ addSubscriber \in [Broadcasters -> Seq(Subscriptions)]
          /\ removeSubscriber \in [Broadcasters -> Seq(Subscriptions)]
          /\ subscribers \in [Broadcasters -> SUBSET Subscriptions]
          /\ ch \in [Subscriptions -> Seq(SpyVaas)]
          /\ sent \in [Subscriptions -> Seq(SpyVaas \union {Empty})]
        OBVIOUS
    <2>6. HoldOne
        BY <2>4 DEF HoldOne
    <2>7. /\ arrived = {} /\ closed = {} /\ stopped = {} /\ running = TRUE /\ panicked = FALSE
        OBVIOUS
    <2> HIDE DEF SpyInit
    <2> QED
        BY <2>1, <2>2, <2>3, <2>4, <2>5, <2>6, <2>7 DEF SpyTyped
<1>3. \A b \in Broadcasters : Adding(b) = {} /\ Removing(b) = {} /\ Waiting(b) = {}
    BY InEmpty DEF Adding, Removing, Waiting
<1>4. \A s \in Subscriptions : Queued(s) = {} /\ Got(s) = {}
    BY InEmpty DEF Queued, Got
<1>5. Registry
    BY <1>1, <1>3 DEF Registry, Registered
<1>6. \A b \in Broadcasters : InLine(b)
    <2> SUFFICES ASSUME NEW b \in Broadcasters PROVE InLine(b)
        OBVIOUS
    <2>1. sending[b].vaa = Empty /\ \A s \in Subscriptions : ~(sending[b].to[s] > 0)
        BY <1>1 DEF Pause
    <2>2. ~Ahead(b)
        BY DEF Ahead, Free, Broadcasters
    <2> QED
        BY <1>3, <2>1, <2>2 DEF InLine
<1>7. \A s \in Subscriptions : Behind(s, KindOf[s]) /\ NextAfter(s) /\ SentInOrder(s)
    BY <1>4 DEF Behind, NextAfter, SentInOrder
<1>8. Order /\ EmptyOnlyAtShutdown
    BY <1>6, <1>7 DEF Order, EmptyOnlyAtShutdown
<1> QED
    BY <1>2, <1>5, <1>8 DEF SpyInv

LEMMA SpyInvSafe == SpyInv => SpySafe
<1> SUFFICES ASSUME SpyInv PROVE SpyTypeOK /\ NoPanic /\ ClientsInOrder /\ EmptyOnlyAtShutdown
    BY DEF SpySafe
<1>1. SpyTypeOK
    BY DEF SpyInv, SpyTyped, HoldOne, Registry, Registered, OfKind, SpyTypeOK
<1>2. NoPanic
    BY DEF SpyInv, Registry, NoPanic
<1>3. ClientsInOrder
    <2> SUFFICES ASSUME NEW s \in Subscriptions, NEW i \in DOMAIN sent[s], sent[s][i] # Empty
                 PROVE  /\ Wants(s, sent[s][i])
                        /\ \A j \in DOMAIN sent[s] : i < j /\ sent[s][j] # Empty =>
                              InTurn(s, sent[s][i], sent[s][j])
        BY DEF ClientsInOrder, Wants, InTurn
    <2>1. sent[s][i] \in Got(s)
        BY DEF Got, In
    <2> QED
        BY <2>1 DEF SpyInv, Order, Behind, SentInOrder
<1> QED
    BY <1>1, <1>2, <1>3 DEF SpyInv

\* Spy never sends on a closed channel nor closes one twice, and hands each client
\* the VAAs it asked for in the order they came, however subscribing, slow and
\* leaving clients, broadcasting and the shutdown interleave (subscribers.go,
\* handler.go, publishers.go).
THEOREM SpyStaysSafe == ServicesSpec => []SpySafe
<1>1. ServicesInit => SpyInv
    BY SpyInitInv DEF ServicesInit
<1>2. SpyInv /\ [ServicesNext]_servicesVars => SpyInv'
    BY OnePart, SpyTypedStep, RegistryStep, OrderStep, OnlyVaasStep DEF SpyInv
<1> QED
    BY <1>1, <1>2, SpyInvSafe, PTL DEF ServicesSpec

------------------------------------------------------------------------------
(* Prices.                                                                  *)

PriceTyped ==
    /\ redis \in [Tokens -> Nat] /\ local \in [Tokens -> Nat]
    /\ run \in Nat /\ writing \subseteq Tokens /\ jobRuns \in BOOLEAN
    /\ client \in {"none", "subscribed", "listening"} /\ channel \in Nat
    /\ loading \subseteq Tokens /\ busy \in BOOLEAN /\ outdated \in BOOLEAN
    /\ faults \in Nat

\* The copy has what Redis has, but for the keys a load has still to read, a run
\* that has not published and a message that waits.
Copied ==
    /\ jobRuns => run > 0
    /\ ~busy => loading = {}
    /\ client = "none" => ~busy /\ channel = 0
    /\ \A k \in Tokens : redis[k] = 0 => local[k] = 0
    /\ client # "none" /\ ~outdated /\ ~jobRuns /\ channel = 0 =>
          \A k \in Tokens \ loading : local[k] = redis[k]

PriceInv == PriceTyped /\ Copied

LEMMA PriceInitInv == PriceInit => PriceInv
<1> SUFFICES ASSUME PriceInit PROVE PriceInv
    OBVIOUS
<1>1. redis \in [Tokens -> Nat] /\ local = redis /\ \A k \in Tokens : redis[k] = 0
    BY DEF PriceInit
<1>2. PriceTyped
    BY <1>1 DEF PriceInit, PriceTyped
<1>3. Copied
    BY <1>1 DEF PriceInit, Copied
<1> QED
    BY <1>2, <1>3 DEF PriceInv

LEMMA PriceStep == ASSUME PriceInv, [PriceNext]_priceVars PROVE PriceInv'
<1> USE PriceCacheAssumption DEF PriceInv, PriceTyped, Copied
<1>1. CASE UNCHANGED priceVars
    BY <1>1 DEF priceVars
<1>2. CASE JobRun
    BY <1>2 DEF JobRun
<1>3. ASSUME NEW k \in Tokens, UpdateNotionalCache(k) PROVE PriceInv'
    BY <1>3 DEF UpdateNotionalCache
<1>4. CASE JobFails \/ LoseMessage \/ LoadFails
    <2>1. PriceTyped'
        <3>1. channel' \in Nat /\ faults' \in Nat
            BY <1>4 DEF JobFails, LoseMessage, LoadFails, Fault
        <3>2. /\ redis' = redis /\ local' = local /\ run' = run
              /\ loading' \subseteq Tokens /\ writing' \subseteq Tokens
            BY <1>4 DEF JobFails, LoseMessage, LoadFails, Fault
        <3>3. jobRuns' \in BOOLEAN /\ busy' \in BOOLEAN /\ outdated' \in BOOLEAN
            BY <1>4 DEF JobFails, LoseMessage, LoadFails, Fault
        <3>4. client' \in {"none", "subscribed", "listening"}
            BY <1>4 DEF JobFails, LoseMessage, LoadFails, Fault
        <3> QED
            BY <3>1, <3>2, <3>3, <3>4
    <2>2. Copied'
        BY <1>4 DEF JobFails, LoseMessage, LoadFails, Fault
    <2> QED
        BY <2>1, <2>2
<1>5. CASE PublishUpdate
    <2>1. PriceTyped'
        <3>1. channel' \in Nat /\ faults' \in Nat
            BY <1>5 DEF PublishUpdate
        <3>2. /\ redis' = redis /\ local' = local /\ run' = run
              /\ loading' \subseteq Tokens /\ writing' \subseteq Tokens
            BY <1>5 DEF PublishUpdate
        <3>3. jobRuns' \in BOOLEAN /\ busy' \in BOOLEAN /\ outdated' \in BOOLEAN
            BY <1>5 DEF PublishUpdate
        <3>4. client' \in {"none", "subscribed", "listening"}
            BY <1>5 DEF PublishUpdate
        <3> QED
            BY <3>1, <3>2, <3>3, <3>4
    <2>2. Copied'
        BY <1>5 DEF PublishUpdate
    <2> QED
        BY <2>1, <2>2
<1>6. CASE NewNotionalCache \/ Listen
    <2>1. PriceTyped'
        <3>1. channel' \in Nat /\ faults' \in Nat
            BY <1>6 DEF NewNotionalCache, Listen, BeginLoad
        <3>2. /\ redis' = redis /\ local' = local /\ run' = run
              /\ loading' \subseteq Tokens /\ writing' \subseteq Tokens
            BY <1>6 DEF NewNotionalCache, Listen, BeginLoad
        <3>3. jobRuns' \in BOOLEAN /\ busy' \in BOOLEAN /\ outdated' \in BOOLEAN
            BY <1>6 DEF NewNotionalCache, Listen, BeginLoad
        <3>4. client' \in {"none", "subscribed", "listening"}
            BY <1>6 DEF NewNotionalCache, Listen, BeginLoad
        <3> QED
            BY <3>1, <3>2, <3>3, <3>4
    <2>2. Copied'
        BY <1>6 DEF NewNotionalCache, Listen, BeginLoad
    <2> QED
        BY <2>1, <2>2
<1>7. ASSUME NEW k \in Tokens, LoadKey(k) PROVE PriceInv'
    BY <1>7 DEF LoadKey
<1>8. CASE LoadCache
    BY <1>8 DEF LoadCache
<1> QED
    BY <1>1, <1>2, <1>3, <1>4, <1>5, <1>6, <1>7, <1>8 DEF PriceNext

\* With no run of the job, no message and no load on its way the copy of the
\* prices is that of Redis, unless a call failed or a message was lost since the
\* last load began (cache.go of the notional package).
THEOREM PricesStayFresh == ServicesSpec => []PricesFresh
<1>1. ServicesInit => PriceInv
    BY PriceInitInv DEF ServicesInit
<1>2. PriceInv /\ [ServicesNext]_servicesVars => PriceInv'
    BY OnePart, PriceStep
<1>3. PriceInv => PricesFresh
    BY DEF PriceInv, PriceTyped, Copied, PricesFresh
<1> QED
    BY <1>1, <1>2, <1>3, PTL DEF ServicesSpec

------------------------------------------------------------------------------
(* Metrics.                                                                 *)

LEMMA Division ==
    ASSUME NEW n \in Nat, NEW d \in Nat \ {0}
    PROVE  n \div d \in Nat /\ n % d \in 0..(d - 1) /\ n = d * (n \div d) + (n % d)
OBVIOUS

\* What is a multiple of d.
LEMMA Multiples ==
    ASSUME NEW d \in Nat \ {0}, NEW k \in Nat
    PROVE  k * d \in Nat /\ (k * d) % d = 0 /\ (k + 1) * d = k * d + d
<1>1. k * d \in Nat /\ (k + 1) * d = k * d + d
    OBVIOUS
<1>2. (k * d) % d = 0
    <2> DEFINE n == k * d
               q == n \div d
               r == n % d
    <2>1. n \in Nat /\ q \in Nat /\ r \in 0..(d - 1) /\ n = d * q + r
        BY <1>1, Division
    <2>2. n = d * k
        BY <1>1
    <2> HIDE DEF n, q, r
    <2>3. d * (k - q) = d * k - d * q
        BY <2>1
    <2>4. d * (k - q) = r
        BY <2>1, <2>2, <2>3
    <2>5. CASE k - q >= 1
        <3>1. d * (k - q) >= d
            BY <2>1, <2>5
        <3> QED
            BY <2>1, <2>4, <3>1
    <2>6. CASE k - q <= -1
        <3>1. d * (k - q) < 0
            BY <2>1, <2>6
        <3> QED
            BY <2>1, <2>4, <3>1
    <2>7. CASE k = q
        <3>1. r = 0
            BY <2>1, <2>2, <2>7
        <3> QED
            BY <3>1 DEF r, n
    <2> QED
        BY <2>1, <2>5, <2>6, <2>7
<1> QED
    BY <1>1, <1>2

LEMMA NextMultiple ==
    ASSUME NEW d \in Nat \ {0}, NEW a \in Nat, NEW b \in Nat, a % d = 0, b % d = 0, a < b
    PROVE  a + d <= b
<1> DEFINE i == a \div d
           j == b \div d
<1>1. i \in Nat /\ j \in Nat /\ a = d * i /\ b = d * j
    BY Division
<1> HIDE DEF i, j
<1>2. i < j
    BY <1>1
<1>3. d * (i + 1) <= d * j
    BY <1>1, <1>2
<1>4. d * (i + 1) = d * i + d
    BY <1>1
<1> QED
    BY <1>1, <1>3, <1>4

Ends == {t \in Ticks : t > 0 /\ t <= now /\ t % Every = 0}
Past == Ends \ due
Windowed == {"vaa_count", "all_messages", "asset_volumes"}
Latest(t) == t \in LastRun /\ \A u \in LastRun : u <= t

\* What a point can be.
Keys == [tick : Nat, second : Nat, offset : Nat,
         tags : {<<Emitted[v].chain, Emitted[v].token>> : v \in Counted}
                    \union {<<Emitted[v].chain, "">> : v \in Counted}]

MetricsTyped ==
    /\ measure \in Measures /\ now \in Ticks
    /\ points \subseteq Keys /\ buffered \subseteq Keys
    /\ due \subseteq Ticks /\ summary \in [Ticks -> SUBSET Keys]
    /\ \A p \in points \union buffered : p.tick <= now

\* Every VAA whose message is done has a point, unless it was to have none.
Pointed ==
    /\ acked \subseteq Counted
    /\ \A v \in acked \ gone : PointsOf(v) \intersect (points \union buffered) # {}

\* The tasks run in the order of their intervals, and only over those that ended.
Tasks ==
    /\ due \subseteq Ends
    /\ \A t \in due : \A u \in Ends : t <= u => u \in due
    /\ \A t \in Ticks : summary[t] # {} => t \in Past

\* What a summary has, and who is in one once its interval is over.
Summaries ==
    /\ measure \in Windowed =>
          \A t \in Ticks : \A v \in summary[t] : t = EndOf(v)
    /\ measure = "total_tx" =>
          \A t \in Ticks : \A v \in summary[t] : v.tick < t
    /\ \A v \in points \ late : EndOf(v) \in Past =>
          IF measure \in Windowed THEN v \in summary[EndOf(v)]
          ELSE \E t \in Ticks : Latest(t) /\ v \in summary[t]

MetricsInv == MetricsTyped /\ Pointed /\ Tasks /\ Summaries

LEMMA EveryNat == Every \in Nat \ {0}
BY MetricsAssumption DEF Every

LEMMA EndOfFacts ==
    ASSUME NEW v \in Keys
    PROVE  /\ EndOf(v) \in Nat \ {0} /\ EndOf(v) % Every = 0
           /\ v.tick \in Nat /\ v.tick < EndOf(v) /\ EndOf(v) <= v.tick + Every
<1>1. v.tick \in Nat
    BY DEF Keys
<1> DEFINE d == Every
           k == v.tick \div d
<1>2. d \in Nat \ {0}
    BY EveryNat
<1>3. k \in Nat /\ v.tick = d * k + (v.tick % d) /\ v.tick % d \in 0..(d - 1)
    BY <1>1, <1>2, Division
<1>4. EndOf(v) = (k + 1) * d
    BY DEF EndOf
<1> HIDE DEF d, k
<1>5. k * d = d * k /\ k + 1 \in Nat
    BY <1>2, <1>3
<1>6. (k + 1) * d \in Nat /\ ((k + 1) * d) % d = 0 /\ (k + 1) * d = k * d + d
    BY <1>2, <1>3, <1>5, Multiples
<1>7. EndOf(v) % d = 0
    BY <1>4, <1>6
<1> QED
    BY <1>1, <1>2, <1>3, <1>4, <1>5, <1>6, <1>7 DEF d

\* The interval of v ends at the next multiple after it.
LEMMA EndOfNext ==
    ASSUME NEW v \in Keys, NEW t \in Nat, t % Every = 0
    PROVE  /\ v.tick < t <=> EndOf(v) <= t
           /\ (t - Every <= v.tick /\ v.tick < t) => EndOf(v) = t
<1>1. t < EndOf(v) => t + Every <= EndOf(v)
    BY EveryNat, EndOfFacts, NextMultiple
<1>2. EndOf(v) < t => EndOf(v) + Every <= t
    BY EveryNat, EndOfFacts, NextMultiple
<1> QED
    BY <1>1, <1>2, EveryNat, EndOfFacts

LEMMA MetricsStill ==
    ASSUME UNCHANGED measure
    PROVE  Every' = Every /\ (\A v : EndOf(v)' = EndOf(v)) /\ \A v : PointsOf(v)' = PointsOf(v)
BY DEF Every, EndOf, PointsOf, generateUniqueTimestamp, Point

LEMMA PointedStill ==
    ASSUME Pointed, UNCHANGED <<measure, points, buffered, acked, gone>>
    PROVE  Pointed'
BY MetricsStill DEF Pointed

LEMMA PointsOfKeys ==
    ASSUME NEW v \in Counted
    PROVE  PointsOf(v) \subseteq Keys /\ \A p \in PointsOf(v) : p.tick = Emitted[v].tick
<1> DEFINE o == Emitted[v].sequence % 1000000
<1>1. Emitted[v].tick \in Nat /\ Emitted[v].second \in Nat /\ Emitted[v].sequence \in Nat
    <2>1. {Emitted[v].tick, Emitted[v].second, Emitted[v].sequence} \subseteq Nat
        BY MetricsAssumption
    <2> QED
        BY <2>1
<1>2. o \in Nat
    BY <1>1
<1> HIDE DEF o
<1>3. \A n \in Nat : Point(v, n) \in Keys /\ Point(v, n).tick = Emitted[v].tick
    BY <1>1 DEF Point, Keys
<1>4. PointsOf(v) \subseteq {Point(v, o), Point(v, 0)}
    BY DEF PointsOf, generateUniqueTimestamp, o
<1> QED
    BY <1>2, <1>3, <1>4

LEMMA MetricsInitInv == MetricsInit => MetricsInv
<1> SUFFICES ASSUME MetricsInit PROVE MetricsInv
    OBVIOUS
<1> USE DEF MetricsInit
<1>1. MetricsTyped
    BY MetricsAssumption DEF MetricsTyped, Ticks
<1>2. \A t \in Ticks : summary[t] = {}
    OBVIOUS
<1>3. Tasks
    BY <1>2 DEF Tasks
<1>4. Summaries
    BY <1>2 DEF Summaries
<1>5. Pointed
    BY DEF Pointed
<1> QED
    BY <1>1, <1>3, <1>4, <1>5 DEF MetricsInv

\* Points are written, in time or late.
LEMMA PointsStep ==
    ASSUME MetricsInv, NEW N \in SUBSET Keys,
           UNCHANGED <<measure, now, due, summary>>,
           points' = points \union N,
           late' = late \union {v \in N \ points : EndOf(v) <= now /\ EndOf(v) \notin due},
           buffered' \subseteq Keys, Pointed',
           \A v \in N \union buffered' : v.tick <= now
    PROVE  MetricsInv'
<1> USE DEF MetricsInv
<1>1. Every' = Every /\ \A v : EndOf(v)' = EndOf(v)
    BY MetricsStill
<1>2. Ends' = Ends /\ Past' = Past /\ LastRun' = LastRun /\ Ticks' = Ticks
    BY <1>1 DEF Ends, Past, LastRun, Ticks
<1>3. \A t : Latest(t)' <=> Latest(t)
    BY <1>2 DEF Latest
<1>4. MetricsTyped'
    BY <1>2 DEF MetricsTyped
<1>5. Tasks'
    BY <1>2 DEF Tasks
<1>6. \A v \in points' \ late' : EndOf(v) \in Past => v \in points \ late
    <2> SUFFICES ASSUME NEW v \in points' \ late', EndOf(v) \in Past PROVE v \in points \ late
        OBVIOUS
    <2>1. EndOf(v) <= now /\ EndOf(v) \notin due
        BY DEF Past, Ends
    <2> QED
        BY <2>1
<1>7. Summaries'
    <2>1. (measure \in Windowed => \A t \in Ticks : \A v \in summary[t] : t = EndOf(v))'
        BY <1>1, <1>2 DEF Summaries, Windowed
    <2>2. (measure = "total_tx" => \A t \in Ticks : \A v \in summary[t] : v.tick < t)'
        BY <1>2 DEF Summaries
    <2>3. ASSUME NEW v \in points' \ late', EndOf(v) \in Past
          PROVE  IF measure' \in Windowed THEN v \in summary'[EndOf(v)]
                 ELSE \E t \in Ticks : Latest(t)' /\ v \in summary'[t]
        <3>1. v \in points \ late
            BY <1>6, <2>3
        <3> QED
            BY <1>3, <2>3, <3>1 DEF Summaries
    <2>4. (\A v \in points \ late : EndOf(v) \in Past =>
              IF measure \in Windowed THEN v \in summary[EndOf(v)]
              ELSE \E t \in Ticks : Latest(t) /\ v \in summary[t])'
        BY <1>1, <1>2, <2>3 DEF Windowed
    <2> QED
        BY <2>1, <2>2, <2>4 DEF Summaries
<1> QED
    BY <1>4, <1>5, <1>7

LEMMA PushStep == ASSUME MetricsInv, NEW v \in Counted, Push(v) PROVE MetricsInv'
<1>1. /\ points \subseteq Keys /\ buffered \subseteq Keys /\ Pointed
      /\ \A w \in points \union buffered : w.tick <= now
    BY DEF MetricsInv, MetricsTyped
<1>2. UNCHANGED <<measure, now, due, summary>> /\ acked' \subseteq acked \union {v} /\ Emitted[v].tick <= now
    BY DEF Push
<1>8. /\ \A w : PointsOf(w)' = PointsOf(w)
      /\ PointsOf(v) \subseteq Keys /\ \A p \in PointsOf(v) : p.tick <= now
      /\ generateUniqueTimestamp(v) \in PointsOf(v)
    BY <1>2, MetricsStill, PointsOfKeys DEF PointsOf
<1>3. ASSUME NEW p \in PointsOf(v), WritePoint(p), UNCHANGED <<buffered, gone>> PROVE MetricsInv'
    <2> DEFINE N == {p}
    <2>1. points' = points \union N /\ late' = late \union {w \in N \ points : EndOf(w) <= now /\ EndOf(w) \notin due}
        BY <1>3 DEF WritePoint
    <2>2. Pointed'
        BY <1>1, <1>2, <1>3, <1>8, <2>1 DEF Pointed
    <2> HIDE DEF N
    <2>3. N \in SUBSET Keys /\ \A w \in N : w = p
        BY <1>8 DEF N
    <2> QED
        BY <1>1, <1>2, <1>3, <1>8, <2>1, <2>2, <2>3, PointsStep
<1>4. ASSUME UNCHANGED <<points, late>>, buffered' \subseteq buffered \union {generateUniqueTimestamp(v)},
             buffered \subseteq buffered', gone \subseteq gone',
             generateUniqueTimestamp(v) \in buffered' \/ v \in gone'
      PROVE  MetricsInv'
    <2> DEFINE N == {}
    <2>1. points' = points \union N /\ late' = late \union {w \in N \ points : EndOf(w) <= now /\ EndOf(w) \notin due}
        BY <1>4
    <2>2. Pointed'
        BY <1>1, <1>2, <1>4, <1>8 DEF Pointed
    <2>3. N \in SUBSET Keys /\ N = {} /\ \A w \in N \union buffered' : w.tick <= now
        BY <1>1, <1>2, <1>4, <1>8
    <2>4. buffered' \subseteq Keys
        BY <1>1, <1>4, <1>8
    <2> HIDE DEF N
    <2> QED
        BY <1>1, <1>2, <1>4, <2>1, <2>2, <2>3, <2>4, PointsStep
<1>5. CASE VaaCountMeasurement(v)
    BY <1>3, <1>5, <1>8 DEF VaaCountMeasurement
<1>6. CASE VaaCountAllMessagesMeasurement(v)
    BY <1>4, <1>6 DEF VaaCountAllMessagesMeasurement
<1>7. CASE VolumeMeasurement(v)
    <2>1. CASE WritePoint(generateUniqueTimestamp(v)) /\ UNCHANGED gone
        BY <1>3, <1>7, <1>8, <2>1 DEF VolumeMeasurement
    <2>3. CASE Unlisted(v) /\ measure # "asset_volumes" /\ WritePoint(Point(v, 0)) /\ UNCHANGED gone
        <3>1. Point(v, 0) \in PointsOf(v)
            BY <1>7, <2>3 DEF VolumeMeasurement, Volumes, Unlisted, PointsOf
        <3> QED
            BY <1>3, <1>7, <2>3, <3>1 DEF VolumeMeasurement
    <2>2. CASE gone' = gone \union {v} /\ UNCHANGED <<points, late>>
        BY <1>4, <1>7, <2>2 DEF VolumeMeasurement
    <2> QED
        BY <1>7, <2>1, <2>2, <2>3 DEF VolumeMeasurement
<1> QED
    BY <1>5, <1>6, <1>7 DEF Push

LEMMA FlushStep == ASSUME MetricsInv, Flush PROVE MetricsInv'
<1>1. /\ points \subseteq Keys /\ buffered \subseteq Keys /\ Pointed
      /\ \A w \in points \union buffered : w.tick <= now
    BY DEF MetricsInv, MetricsTyped
<1>2. /\ UNCHANGED <<measure, now, due, summary, acked, gone>> /\ buffered' = {}
      /\ points' = points \union buffered
      /\ late' = late \union {v \in buffered \ points : EndOf(v) <= now /\ EndOf(v) \notin due}
    BY DEF Flush
<1>3. /\ Pointed' /\ buffered \in SUBSET Keys /\ buffered' \subseteq Keys
    <2>1. \A v : PointsOf(v)' = PointsOf(v)
        BY <1>2, MetricsStill
    <2> QED
        BY <1>1, <1>2, <2>1 DEF Pointed
<1>4. \A v \in buffered \union buffered' : v.tick <= now
    BY <1>1, <1>2
<1> QED
    BY <1>2, <1>3, <1>4, PointsStep

LEMMA LoseBatchStep == ASSUME MetricsInv, LoseBatch PROVE MetricsInv'
<1> DEFINE N == {}
<1>1. /\ points \subseteq Keys /\ buffered \subseteq Keys /\ Pointed
    BY DEF MetricsInv, MetricsTyped
<1>2. /\ UNCHANGED <<measure, now, due, summary, acked, points, late>> /\ buffered' = {}
      /\ gone' = gone \union {v \in acked : PointsOf(v) \intersect (buffered \ points) # {}}
    BY DEF LoseBatch, PointsOf
<1>3. /\ N \in SUBSET Keys
      /\ buffered' \subseteq Keys /\ \A v \in N \union buffered' : v.tick <= now
    BY <1>1, <1>2
<1>5. Pointed'
    <2>1. \A v : PointsOf(v)' = PointsOf(v)
        BY <1>2, MetricsStill
    <2> QED
        BY <1>1, <1>2, <2>1 DEF Pointed
<1>4. points' = points \union N /\ late' = late \union {w \in N \ points : EndOf(w) <= now /\ EndOf(w) \notin due}
    BY <1>2
<1> HIDE DEF N
<1> QED
    BY <1>2, <1>3, <1>4, <1>5, PointsStep

LEMMA LastRunPast == LastRun = {t \in Past : summary[t] # {}}
BY DEF LastRun, Past, Ends

LEMMA TickStep == ASSUME MetricsInv, Tick PROVE MetricsInv'
<1> USE DEF MetricsInv
<1>1. Every' = Every /\ \A v : EndOf(v)' = EndOf(v)
    BY MetricsStill DEF Tick
<1>2. /\ now \in Nat /\ now + 1 \in Ticks /\ now' = now + 1
      /\ UNCHANGED <<measure, points, buffered, acked, gone, summary, late>>
      /\ Ticks' = Ticks
    BY MetricsAssumption DEF Tick, MetricsTyped, Ticks
<1>3. /\ due' = IF (now + 1) % Every = 0 THEN due \union {now + 1} ELSE due
      /\ \A t \in due : t <= now /\ t \in Nat
    BY DEF Tick, Tasks, Ends, Ticks
<1>4. Ends' = IF (now + 1) % Every = 0 THEN Ends \union {now + 1} ELSE Ends
    BY <1>1, <1>2 DEF Ends, Ticks
<1>5. \A t \in Ends : t <= now /\ t \in Nat
    BY DEF Ends, Ticks
<1>6. Past' = Past
    BY <1>2, <1>3, <1>4, <1>5 DEF Past
<1>7. LastRun' = LastRun
    <2>1. LastRun' = {t \in Past' : summary'[t] # {}}
        BY <1>1, <1>2 DEF LastRun, Past, Ends
    <2> QED
        BY <1>2, <1>6, <2>1, LastRunPast
<1>8. MetricsTyped'
    <2>1. \A v \in points \union buffered : v.tick \in Nat
        BY EndOfFacts DEF MetricsTyped
    <2>2. (\A v \in points \union buffered : v.tick <= now)'
        BY <1>2, <2>1 DEF MetricsTyped
    <2>3. due' \subseteq Ticks
        BY <1>2, <1>3 DEF MetricsTyped
    <2> QED
        BY <1>2, <2>2, <2>3 DEF MetricsTyped
<1>9. Tasks'
    <2>1. due' \subseteq Ends'
        BY <1>3, <1>4 DEF Tasks
    <2>2. \A t \in due' : \A u \in Ends' : t <= u => u \in due'
        <3> SUFFICES ASSUME NEW t \in due', NEW u \in Ends', t <= u PROVE u \in due'
            OBVIOUS
        <3>1. CASE u = now + 1 /\ u \notin Ends
            BY <1>3, <1>4, <3>1
        <3>2. CASE u \in Ends
            <4>1. t \in due
                BY <1>2, <1>3, <1>5, <3>2
            <4>2. u \in due
                BY <3>2, <4>1 DEF Tasks
            <4> QED
                BY <1>3, <4>2
        <3> QED
            BY <1>4, <3>1, <3>2
    <2> QED
        BY <1>2, <1>6, <2>1, <2>2 DEF Tasks
<1>10. \A t : Latest(t)' <=> Latest(t)
    BY <1>7 DEF Latest
<1>11. Summaries'
    BY <1>1, <1>2, <1>6, <1>10 DEF Summaries
<1>12. Pointed'
    BY <1>2, PointedStill
<1> QED
    BY <1>8, <1>9, <1>11, <1>12

\* A task is the first of those that have not run.
LEMMA FirstDue ==
    ASSUME MetricsInv, NEW t \in due, \A u \in due : t <= u
    PROVE  /\ t \in Ends /\ t \in Ticks /\ t \in Nat /\ summary[t] = {}
           /\ \A u \in Ends : u \in Past <=> u < t
<1>1. due \subseteq Ends /\ \A u \in Ends : t <= u => u \in due
    BY DEF MetricsInv, Tasks
<1>2. \A u \in Ends : u \in Nat /\ u \in Ticks
    BY DEF Ends, Ticks
<1>3. t \in Ends /\ t \notin Past
    BY <1>1 DEF Past
<1>4. \A u \in Ends : u \in Past <=> u < t
    BY <1>1, <1>2, <1>3 DEF Past
<1> QED
    BY <1>2, <1>3, <1>4 DEF MetricsInv, Tasks

LEMMA TaskCommon ==
    ASSUME MetricsInv, NEW t \in due, \A u \in due : t <= u, due' = due \ {t},
           UNCHANGED <<measure, now, points, buffered, acked, gone>>,
           NEW S \in SUBSET Keys, summary' = [summary EXCEPT ![t] = S]
    PROVE  /\ MetricsTyped' /\ Pointed' /\ Tasks' /\ Every' = Every /\ \A v : EndOf(v)' = EndOf(v)
           /\ Past' = Past \union {t} /\ Ends' = Ends
           /\ LastRun' = IF S = {} THEN LastRun ELSE LastRun \union {t}
           /\ \A u \in LastRun : u < t
<1>1. Every' = Every /\ (\A v : EndOf(v)' = EndOf(v)) /\ Ends' = Ends
    BY MetricsStill DEF Ends, Ticks
<1>2. Past' = Past \union {t}
    BY <1>1, FirstDue DEF Past
<1>3. MetricsTyped'
    BY DEF MetricsInv, MetricsTyped, Ticks
<1>4. \A u \in Ticks : summary'[u] = IF u = t THEN S ELSE summary[u]
    BY DEF MetricsInv, MetricsTyped
<1>5. Tasks'
    <2>1. due' \subseteq Ends'
        BY <1>1 DEF MetricsInv, Tasks
    <2>2. \A w \in due' : \A u \in Ends' : w <= u => u \in due'
        <3> SUFFICES ASSUME NEW w \in due', NEW u \in Ends, w <= u PROVE u \in due'
            BY <1>1
        <3>1. u \in due /\ t <= w /\ w # t /\ w \in Ends
            BY DEF MetricsInv, Tasks
        <3>2. u # t
            BY <3>1, FirstDue DEF Ends, Ticks
        <3> QED
            BY <3>1, <3>2
    <2>3. \A u \in Ticks : summary'[u] # {} => u \in Past'
        BY <1>2, <1>4, FirstDue DEF MetricsInv, Tasks
    <2> QED
        BY <2>1, <2>2, <2>3 DEF Tasks, Ticks
<1>6. LastRun' = {u \in Past' : summary'[u] # {}}
    BY <1>1 DEF LastRun, Past, Ends, Ticks
<1>7. Past \subseteq Ticks /\ \A u \in Past : u < t /\ u # t
    BY FirstDue DEF Past, Ends, Ticks
<1>8. LastRun' = IF S = {} THEN LastRun ELSE LastRun \union {t}
    BY <1>2, <1>4, <1>6, <1>7, LastRunPast, FirstDue
<1>9. \A u \in LastRun : u < t
    BY <1>7, LastRunPast
<1>10. Pointed'
    BY PointedStill DEF MetricsInv
<1> QED
    BY <1>1, <1>2, <1>3, <1>5, <1>8, <1>9, <1>10

LEMMA TaskStep == ASSUME MetricsInv, NEW t \in Ticks, Task(t) PROVE MetricsInv'
<1> DEFINE S == IF measure \in Windowed THEN Within(t) ELSE IF measure = "total_tx" THEN Before(t) ELSE points
<1>1. RunTask(t, S) /\ (late' = late \/ (measure \notin Windowed /\ late' = late \ S))
    BY DEF Task, VaaCount1h, AllMessages5m, AssetVolumes24h, TotalTxAllTime24h, ChainActivity3h, Windowed
<1>2. S \subseteq points /\ points \subseteq Keys
    BY DEF Within, Before, MetricsInv, MetricsTyped
<1>3. measure \in Windowed => S = Within(t)
    OBVIOUS
<1>4. measure = "total_tx" => S = Before(t)
    BY DEF Windowed
<1>5. measure \notin Windowed => \A v \in points : v.tick < t => v \in S
    BY DEF Before
<1>6. \A v \in S : measure = "total_tx" => v.tick < t
    BY <1>4 DEF Before
<1> HIDE DEF S
<1>7. /\ t \in due /\ \A u \in due : t <= u
      /\ due' = due \ {t} /\ summary' = [summary EXCEPT ![t] = S]
      /\ UNCHANGED <<measure, now, points, buffered, acked, gone>> /\ S \in SUBSET Keys
    BY <1>1, <1>2 DEF RunTask
<1>8. /\ MetricsTyped' /\ Pointed' /\ Tasks' /\ Every' = Every /\ \A v : EndOf(v)' = EndOf(v)
      /\ Past' = Past \union {t} /\ Ends' = Ends
      /\ LastRun' = IF S = {} THEN LastRun ELSE LastRun \union {t}
      /\ \A u \in LastRun : u < t
    BY <1>7, TaskCommon
<1>9. /\ t \in Ends /\ t \in Nat /\ t % Every = 0 /\ summary[t] = {}
      /\ \A u \in Ends : u \in Past <=> u < t
    BY <1>7, FirstDue DEF Ends
<1>10. \A u \in Ticks : summary'[u] = IF u = t THEN S ELSE summary[u]
    BY <1>7 DEF MetricsInv, MetricsTyped
<1>11. \A v \in Keys : /\ v.tick < t <=> EndOf(v) <= t
                       /\ (t - Every <= v.tick /\ v.tick < t) => EndOf(v) = t
    BY <1>9, EndOfNext
<1>12. (measure \in Windowed => \A u \in Ticks : \A v \in summary[u] : u = EndOf(v))'
    <2> SUFFICES ASSUME measure \in Windowed, NEW u \in Ticks, NEW v \in summary'[u] PROVE u = EndOf(v)
        BY <1>7, <1>8 DEF Windowed, Ticks
    <2>1. CASE u = t
        <3>1. v \in Within(t) /\ v \in Keys
            BY <1>2, <1>3, <1>10, <2>1
        <3> QED
            BY <1>11, <2>1, <3>1 DEF Within
    <2>2. CASE u # t
        BY <1>10, <2>2 DEF MetricsInv, Summaries
    <2> QED
        BY <2>1, <2>2
<1>13. (measure = "total_tx" => \A u \in Ticks : \A v \in summary[u] : v.tick < u)'
    BY <1>6, <1>7, <1>10 DEF MetricsInv, Summaries, Ticks
<1>14. ASSUME NEW v \in points \ late', EndOf(v) \in Past'
       PROVE  IF measure \in Windowed THEN v \in summary'[EndOf(v)]
              ELSE \E u \in Ticks : Latest(u)' /\ v \in summary'[u]
    <2>1. v \in Keys /\ EndOf(v) \in Nat /\ EndOf(v) \in Ticks /\ EndOf(v) <= t
        BY <1>2, <1>8, <1>9, <1>14, EndOfFacts DEF Past, Ends
    <2>2. v.tick < t
        BY <1>11, <2>1
    <2>3. CASE measure \notin Windowed
        <3>1. v \in S
            BY <1>5, <2>2, <2>3
        <3>2. LastRun' = LastRun \union {t} /\ v \in summary'[t]
            BY <1>8, <1>10, <3>1
        <3>3. Latest(t)'
            <4>1. LastRun \subseteq Nat
                BY DEF LastRun, Ticks
            <4> QED
                BY <1>8, <1>9, <3>2, <4>1 DEF Latest
        <3> QED
            BY <2>3, <3>2, <3>3
    <2>4. CASE measure \in Windowed
        <3>1. CASE EndOf(v) = t
            <4>1. t - Every <= v.tick
                BY <2>1, <3>1, EndOfFacts, EveryNat
            <4> QED
                BY <1>3, <1>10, <2>2, <2>4, <3>1, <4>1 DEF Within
        <3>2. CASE EndOf(v) # t
            <4>1. EndOf(v) \in Past /\ v \notin late
                BY <1>1, <1>8, <1>14, <2>4, <3>2
            <4>2. v \in summary[EndOf(v)]
                BY <2>4, <4>1 DEF MetricsInv, Summaries
            <4> QED
                BY <1>10, <2>1, <2>4, <3>2, <4>2
        <3> QED
            BY <3>1, <3>2
    <2> QED
        BY <2>3, <2>4
<1>15. (\A v \in points \ late : EndOf(v) \in Past =>
           IF measure \in Windowed THEN v \in summary[EndOf(v)]
           ELSE \E u \in Ticks : Latest(u) /\ v \in summary[u])'
    BY <1>7, <1>8, <1>14 DEF Windowed, Ticks
<1> QED
    BY <1>8, <1>12, <1>13, <1>15 DEF MetricsInv, Summaries

LEMMA MissTaskStep == ASSUME MetricsInv, NEW t \in Ticks, MissTask(t) PROVE MetricsInv'
<1>1. /\ t \in due /\ \A u \in due : t <= u
      /\ due' = due \ {t} /\ late' = late \union {v \in points : EndOf(v) = t}
      /\ UNCHANGED <<measure, now, points, buffered, acked, gone, summary>>
    BY DEF MissTask
<1>2. summary[t] = {}
    BY <1>1, FirstDue
<1>3. summary' = [summary EXCEPT ![t] = {}]
    BY <1>1, <1>2 DEF MetricsInv, MetricsTyped
<1>4. /\ MetricsTyped' /\ Pointed' /\ Tasks' /\ Every' = Every /\ \A v : EndOf(v)' = EndOf(v)
      /\ Past' = Past \union {t} /\ LastRun' = LastRun
    BY <1>1, <1>3, TaskCommon
<1>5. \A u : Latest(u)' <=> Latest(u)
    BY <1>4 DEF Latest
<1>6. ASSUME NEW v \in points \ late', EndOf(v) \in Past' PROVE v \notin late /\ EndOf(v) \in Past
    BY <1>1, <1>4, <1>6
<1>7. Summaries'
    <2>1. (measure \in Windowed => \A u \in Ticks : \A v \in summary[u] : u = EndOf(v))'
        BY <1>1, <1>4 DEF MetricsInv, Summaries, Windowed, Ticks
    <2>2. (measure = "total_tx" => \A u \in Ticks : \A v \in summary[u] : v.tick < u)'
        BY <1>1 DEF MetricsInv, Summaries, Ticks
    <2>3. ASSUME NEW v \in points \ late', EndOf(v) \in Past'
          PROVE  IF measure \in Windowed THEN v \in summary[EndOf(v)]
                 ELSE \E u \in Ticks : Latest(u)' /\ v \in summary[u]
        BY <1>5, <1>6, <2>3 DEF MetricsInv, Summaries
    <2>4. (\A v \in points \ late : EndOf(v) \in Past =>
              IF measure \in Windowed THEN v \in summary[EndOf(v)]
              ELSE \E u \in Ticks : Latest(u) /\ v \in summary[u])'
        BY <1>1, <1>4, <2>3 DEF Windowed, Ticks
    <2> QED
        BY <2>1, <2>2, <2>4 DEF Summaries
<1> QED
    BY <1>4, <1>7 DEF MetricsInv

\* What the tables of the running release have makes no difference to what is there.
LEMMA MetricsRest == ASSUME MetricsInv, Release \/ UNCHANGED metricsVars PROVE MetricsInv'
<1>1. UNCHANGED <<measure, now, points, buffered, acked, gone, due, summary, late, missed>>
    BY DEF Release, metricsVars
<1>2. Every' = Every /\ (\A v : EndOf(v)' = EndOf(v)) /\ Ticks' = Ticks
    BY <1>1, MetricsStill DEF Ticks
<1>3. Ends' = Ends /\ Past' = Past /\ LastRun' = LastRun
    BY <1>1, <1>2 DEF Ends, Past, LastRun
<1>4. \A u : Latest(u)' <=> Latest(u)
    BY <1>3 DEF Latest
<1>5. Pointed'
    BY <1>1, PointedStill DEF MetricsInv
<1> QED
    BY <1>1, <1>2, <1>3, <1>4, <1>5 DEF MetricsInv, MetricsTyped, Tasks, Summaries

LEMMA MetricsStep == ASSUME MetricsInv, [MetricsNext]_metricsVars PROVE MetricsInv'
BY MetricsRest, PushStep, FlushStep, LoseBatchStep, TickStep, TaskStep, MissTaskStep DEF MetricsNext

------------------------------------------------------------------------------
(* What the queries answer.                                                 *)

LEMMA SumOfNone ==
    ASSUME NEW T, NEW v, \A t \in T : v \notin summary[t]
    PROVE  Summed(v, T) = 0
<1>1. {t \in T : v \in summary[t]} = {}
    OBVIOUS
<1> QED
    BY <1>1, FS_EmptySet, Zenon DEF Summed

LEMMA SumOfOne ==
    ASSUME NEW T, NEW v, NEW e, \A t \in T : v \in summary[t] => t = e
    PROVE  Summed(v, T) = IF e \in T /\ v \in summary[e] THEN 1 ELSE 0
<1>1. CASE e \in T /\ v \in summary[e]
    <2>1. {t \in T : v \in summary[t]} = {e}
        BY <1>1
    <2>2. Cardinality({e}) = 1
        BY FS_Singleton
    <2> QED
        BY <1>1, <2>1, <2>2 DEF Summed
<1>2. CASE ~(e \in T /\ v \in summary[e])
    BY <1>2, SumOfNone
<1> QED
    BY <1>1, <1>2

\* Midnight is the last end of a day.
LEMMA MidnightFacts ==
    ASSUME MetricsInv
    PROVE  /\ now \in Nat /\ Midnight \in Nat /\ Midnight <= now /\ Midnight % DayLength = 0
           /\ \A t \in Nat : t % DayLength = 0 /\ t <= now => t <= Midnight
<1> DEFINE k == now \div DayLength
           r == now % DayLength
<1>1. now \in Nat /\ DayLength \in Nat \ {0}
    BY MetricsAssumption DEF MetricsInv, MetricsTyped, Ticks
<1>2. k \in Nat /\ r \in 0..(DayLength - 1) /\ now = DayLength * k + r
    BY <1>1, Division
<1>3. Midnight = now - r
    BY DEF Midnight
<1> HIDE DEF k, r
<1>4. k * DayLength = DayLength * k /\ k * DayLength \in Nat /\ (k * DayLength) % DayLength = 0
    BY <1>1, <1>2, Multiples
<1>5. Midnight = k * DayLength
    BY <1>1, <1>2, <1>3, <1>4
<1>6. Midnight \in Nat /\ Midnight <= now /\ Midnight % DayLength = 0 /\ now < Midnight + DayLength
    BY <1>1, <1>2, <1>3, <1>4, <1>5
<1> HIDE DEF Midnight
<1>7. ASSUME NEW t \in Nat, t % DayLength = 0, t <= now PROVE t <= Midnight
    <2>1. Midnight < t => Midnight + DayLength <= t
        BY <1>1, <1>6, <1>7, NextMultiple
    <2> QED
        BY <1>1, <1>6, <1>7, <2>1
<1> QED
    BY <1>1, <1>6, <1>7

\* What CountedOnce asks of one point.
Due(v) == v \in points \ late /\ InAnswer(v) /\ EndOf(v) \notin due

LEMMA DuePoint == ASSUME MetricsInv, NEW v \in Keys, Due(v)
                  PROVE  v \in points \ late /\ v.tick <= now /\ (EndOf(v) <= now => EndOf(v) \in Past)
<1>1. v \in points \ late /\ v.tick <= now
    BY DEF MetricsInv, MetricsTyped, Due
<1>2. ASSUME EndOf(v) <= now PROVE EndOf(v) \in Past
    <2>1. EndOf(v) \in Ticks
        BY <1>2, EndOfFacts, MetricsAssumption DEF MetricsInv, MetricsTyped, Ticks
    <2> QED
        BY <1>2, <2>1, EndOfFacts DEF Past, Ends, Due
<1> QED
    BY <1>1, <1>2

LEMMA CountsWindowed ==
    ASSUME MetricsInv, measure \in Windowed, NEW v \in Keys
    PROVE  TimesCounted(v) <= 1 /\ (Due(v) => TimesCounted(v) = 1)
<1> DEFINE e == EndOf(v)
           in == e \in Ticks /\ v \in summary[e]
<1>1. \A t \in Ticks : v \in summary[t] => t = e
    BY DEF MetricsInv, Summaries
<1>2. in => e \in Past /\ e <= now
    BY DEF MetricsInv, Tasks, Past, Ends
<1>3. Due(v) /\ e <= now => in
    BY DuePoint DEF MetricsInv, Summaries, Past, Ends
<1>4. /\ e \in Nat /\ v.tick \in Nat /\ v.tick < e /\ e <= v.tick + Every /\ now \in Nat
      /\ DayLength \in Nat \ {0} /\ LastTick \in Nat
    BY EndOfFacts, MidnightFacts, MetricsAssumption
<1>5. Due(v) => v \in points
    BY DuePoint
<1>6. \A T \in SUBSET Ticks : Summed(v, T) = IF e \in T /\ v \in summary[e] THEN 1 ELSE 0
    BY <1>1, SumOfOne
<1>7. Due(v) => InAnswer(v) /\ v.tick <= now
    BY DuePoint DEF Due
<1>8. Midnight \in Nat /\ Midnight <= now /\ e % Every = 0
    BY MidnightFacts, EndOfFacts
<1> HIDE DEF in, e
<1>9. CASE measure = "vaa_count"
    <2> DEFINE T == {t \in Ticks : t >= now - DayLength}
    <2>1. TimesCounted(v) = Raw(v, now) + Summed(v, T)
        BY <1>9 DEF TimesCounted, GetTransactionCount
    <2>2. Summed(v, T) = IF e \in T /\ v \in summary[e] THEN 1 ELSE 0
        BY <1>6
    <2>3. e \in T /\ v \in summary[e] <=> in /\ e >= now - DayLength
        BY DEF in
    <2> HIDE DEF T
    <2>4. Every = 1 /\ (InAnswer(v) => v.tick >= now - DayLength)
        BY <1>9 DEF Every, InAnswer
    <2> QED
        BY <1>2, <1>3, <1>4, <1>5, <1>7, <2>1, <2>2, <2>3, <2>4 DEF Raw
<1>10. CASE measure = "all_messages"
    <2> DEFINE T == {t \in Ticks : t - 1 > now - DayLength}
    <2>1. TimesCounted(v) = Raw(v, now) + Summed(v, T)
        BY <1>10 DEF TimesCounted, GetMessages24h
    <2>2. Summed(v, T) = IF e \in T /\ v \in summary[e] THEN 1 ELSE 0
        BY <1>6
    <2>3. e \in T /\ v \in summary[e] <=> in /\ e - 1 > now - DayLength
        BY DEF in
    <2> HIDE DEF T
    <2>4. Every = 1 /\ (InAnswer(v) => v.tick > now - DayLength)
        BY <1>10 DEF Every, InAnswer
    <2> QED
        BY <1>2, <1>3, <1>4, <1>5, <1>7, <2>1, <2>2, <2>3, <2>4 DEF Raw
<1>11. CASE measure = "asset_volumes"
    <2> DEFINE T == {t \in Ticks : t % DayLength = 0}
    <2>1. TimesCounted(v) = Raw(v, Midnight) + Summed(v, T)
        BY <1>11 DEF TimesCounted, GetTopAssets
    <2>2. Summed(v, T) = IF e \in T /\ v \in summary[e] THEN 1 ELSE 0
        BY <1>6
    <2>3. Every = DayLength
        BY <1>11 DEF Every
    <2>4. e \in T /\ v \in summary[e] <=> in
        BY <1>8, <2>3 DEF in
    <2> HIDE DEF T
    <2>5. Midnight % DayLength = 0 /\ (e <= now => e <= Midnight)
        BY <1>4, <1>8, <2>3, MidnightFacts
    <2>6. v.tick < Midnight <=> e <= Midnight
        BY <1>8, <2>3, <2>5, EndOfNext DEF e
    <2> QED
        BY <1>2, <1>3, <1>4, <1>5, <1>7, <1>8, <2>1, <2>2, <2>4, <2>5, <2>6 DEF Raw
<1> QED
    BY <1>9, <1>10, <1>11 DEF Windowed

LEMMA CountsInTotal ==
    ASSUME MetricsInv, measure \in {"total_tx", "chain_activity"}, NEW v \in Keys
    PROVE  TimesCounted(v) <= 1 /\ (Due(v) => TimesCounted(v) = 1)
<1> DEFINE e == EndOf(v)
<1>1. Every = DayLength /\ measure \notin Windowed
    BY DEF Every, Windowed
<1>2. /\ now \in Nat /\ Midnight \in Nat /\ Midnight <= now /\ Midnight % DayLength = 0
      /\ \A t \in Nat : t % DayLength = 0 /\ t <= now => t <= Midnight
    BY MidnightFacts
<1>3. /\ e \in Nat /\ v.tick \in Nat /\ e % DayLength = 0
      /\ v.tick < Midnight <=> e <= Midnight
    BY <1>1, <1>2, EndOfFacts, EndOfNext
<1>4. LastRun \subseteq Ticks /\ \A t \in LastRun : t \in Nat /\ t <= Midnight
    BY <1>1, <1>2 DEF LastRun, Ticks
<1>5. \A t, u : Latest(t) /\ Latest(u) => t = u
    BY <1>4 DEF Latest
<1>6. Due(v) => v \in points /\ InAnswer(v) /\ (e <= now => e \in Past)
    BY DuePoint DEF Due
<1>7. Due(v) /\ e <= now => \E t \in Ticks : Latest(t) /\ v \in summary[t]
    BY <1>1, <1>6, DuePoint DEF MetricsInv, Summaries
<1> HIDE DEF e
<1>8. CASE measure = "total_tx"
    <2> DEFINE T == {t \in LastRun : \A u \in LastRun : u <= t}
    <2>1. TimesCounted(v) = Raw(v, Midnight) + Summed(v, T)
        BY <1>8 DEF TimesCounted, GetTotalTxCount
    <2>2. \A t : t \in T <=> Latest(t)
        BY DEF Latest
    <2> HIDE DEF T
    <2>3. CASE \E t \in T : v \in summary[t]
        <3>1. PICK t \in T : v \in summary[t]
            BY <2>3
        <3>2. Summed(v, T) = 1
            BY <1>5, <2>2, <3>1, SumOfOne
        <3>3. t \in Nat /\ t <= Midnight /\ v.tick < t
            BY <1>4, <1>8, <2>2, <3>1 DEF Latest, MetricsInv, Summaries
        <3>4. Raw(v, Midnight) = 0
            BY <1>2, <1>3, <3>3 DEF Raw
        <3> QED
            BY <2>1, <3>2, <3>4
    <2>4. CASE ~ \E t \in T : v \in summary[t]
        <3>1. Summed(v, T) = 0
            BY <2>4, SumOfNone
        <3>2. Raw(v, Midnight) \in {0, 1}
            BY DEF Raw
        <3>3. ASSUME Due(v) PROVE Raw(v, Midnight) = 1
            <4>1. ~(e <= now)
                BY <1>7, <2>2, <2>4, <3>3
            <4>2. v.tick >= Midnight
                BY <1>2, <1>3, <4>1
            <4> QED
                BY <1>6, <3>3, <4>2 DEF Raw
        <3> QED
            BY <2>1, <3>1, <3>2, <3>3
    <2> QED
        BY <2>3, <2>4
<1>9. CASE measure = "chain_activity"
    <2>1. TimesCounted(v) = Summed(v, {Midnight})
        BY <1>9 DEF TimesCounted, FindChainActivity
    <2>2. Summed(v, {Midnight}) = IF v \in summary[Midnight] THEN 1 ELSE 0
        BY SumOfOne
    <2>3. ASSUME Due(v) PROVE v \in summary[Midnight]
        <3>1. v.tick < Midnight /\ Midnight \in LastRun
            BY <1>6, <1>9, <2>3 DEF InAnswer
        <3>2. e <= now
            BY <1>2, <1>3, <3>1
        <3>3. PICK t \in Ticks : Latest(t) /\ v \in summary[t]
            BY <1>7, <2>3, <3>2
        <3>4. Latest(Midnight)
            BY <1>4, <3>1 DEF Latest
        <3> QED
            BY <1>5, <3>3, <3>4
    <2> QED
        BY <2>1, <2>2, <2>3
<1> QED
    BY <1>8, <1>9

LEMMA CountsOfWeek ==
    ASSUME MetricsInv, measure = "vaa_count", NEW v \in Keys, v.tick < Midnight
    PROVE  GetTransactionCountWeek(v) <= 1
<1>1. \A t \in Ticks : v \in summary[t] => t = EndOf(v)
    BY DEF MetricsInv, Summaries, Windowed
<1>2. Summed(v, Ticks) \in {0, 1}
    BY <1>1, SumOfOne
<1>3. Raw(v, Midnight) = 0
    BY MidnightFacts, EndOfFacts DEF Raw
<1> QED
    BY <1>2, <1>3 DEF GetTransactionCountWeek

LEMMA MetricsInvCounted == MetricsInv => CountedOnce
<1> SUFFICES ASSUME MetricsInv, NEW w \in Counted
             PROVE  /\ w \in acked \ gone => PointsOf(w) \intersect (points \union buffered) # {}
                    /\ \A p \in PointsOf(w) :
                          /\ TimesCounted(p) <= 1 /\ (Due(p) => TimesCounted(p) = 1)
                          /\ measure = "vaa_count" /\ p.tick < Midnight => GetTransactionCountWeek(p) <= 1
    BY DEF CountedOnce, Due
<1>1. measure \in Windowed \/ measure \in {"total_tx", "chain_activity"}
    BY MetricsAssumption DEF MetricsInv, MetricsTyped, MeasureNames, Windowed
<1>2. w \in acked \ gone => PointsOf(w) \intersect (points \union buffered) # {}
    BY DEF MetricsInv, Pointed
<1>3. PointsOf(w) \subseteq Keys
    BY PointsOfKeys
<1> QED
    BY <1>1, <1>2, <1>3, CountsWindowed, CountsInTotal, CountsOfWeek

\* No figure of the api counts a point twice, and each counts it once its interval is
\* summed up, for any interval and day, whatever comes again, comes late or is
\* missed; every VAA whose message is done has a point, unless it was to have none or
\* its batch was lost.  VAAs of one second, chain and offset share a point, a token
\* that comes to be known gives a second one, and the history of a week counts the
\* finished hours of today twice.  The prices the figures are made with are those
\* of Redis whenever nothing is on its way, failed or lost (metric.go, the tasks of
\* InfluxDB, the api's queries, cache.go).
THEOREM FiguresStayRight == ServicesSpec => []FiguresRight
<1>1. ServicesInit => MetricsInv
    BY MetricsInitInv DEF ServicesInit
<1>2. MetricsInv /\ [ServicesNext]_servicesVars => MetricsInv'
    BY OnePart, MetricsStep
<1>3. ServicesSpec => []CountedOnce
    BY <1>1, <1>2, MetricsInvCounted, PTL DEF ServicesSpec
<1> QED
    BY <1>3, PricesStayFresh, PTL DEF FiguresRight

------------------------------------------------------------------------------
(* Consumers.                                                               *)

Kinds == About \union {"other", "garbage"}
Messages == [id : Nat, vaa : QueueVaas \union {0}, kind : Kinds]
Settling(m) == m.kind \in About /\ (m.vaa \in settled \/ (service = "parser" /\ m.vaa \in Filtered \union Unparsable))

ConsumersTyped ==
    /\ service \in {"parser", "analytics", "tx-tracker"}
    /\ IsFiniteSet(published) /\ published \subseteq Messages
    /\ \A m \in published : m.id < Cardinality(published) /\ <<m.vaa, m.kind>> \in Contents
    /\ Cardinality(published) <= MaxMessages
    /\ inbox \subseteq published /\ invisible \subseteq published /\ inbox \intersect invisible = {}
    /\ batch \in [Readers -> Seq(Messages)] /\ events \in [Readers -> Seq(Messages)]
    /\ returned \in [Readers -> BOOLEAN] /\ lapsed \in [Readers -> SUBSET Messages]
    /\ dead \subseteq Readers /\ settled \subseteq QueueVaas

\* What a replica holds, what its handler has, and what it may delete.
HeldRight ==
    \A r \in Readers :
        /\ \A i \in DOMAIN batch[r] : batch[r][i] \in published
        /\ \A i \in DOMAIN events[r] :
              events[r][i] \in published /\ (events[r][i].kind \in About \/ (service = "analytics" /\ events[r][i].kind = "other"))
        /\ lapsed[r] \subseteq published
        /\ returned[r] => events[r] # <<>> /\ Settling(events[r][1])

Gone == published \ (inbox \union invisible)
GoneSettled == \A m \in Gone : Settling(m)

ConsumersInv == ConsumersTyped /\ HeldRight /\ GoneSettled

LEMMA ContentsKinds ==
    ASSUME NEW v, NEW k, <<v, k>> \in Contents
    PROVE  v \in QueueVaas \union {0} /\ k \in Kinds /\ (k \in About => v \in QueueVaas)
BY ConsumersAssumption DEF Kinds, About

LEMMA SeqHeadTail ==
    ASSUME NEW S, NEW q \in Seq(S), q # <<>>
    PROVE  /\ Head(q) = q[1] /\ Head(q) \in S /\ 1 \in DOMAIN q
           /\ Tail(q) \in Seq(S)
           /\ \A i \in DOMAIN Tail(q) : i + 1 \in DOMAIN q /\ Tail(q)[i] = q[i + 1]
OBVIOUS

LEMMA ConsumersInitInv == ConsumersInit => ConsumersInv
<1> SUFFICES ASSUME ConsumersInit PROVE ConsumersInv
    OBVIOUS
<1>1. IsFiniteSet({}) /\ Cardinality({}) = 0
    BY FS_EmptySet
<1>2. ConsumersTyped
    BY <1>1, ConsumersAssumption DEF ConsumersInit, ConsumersTyped
<1>3. HeldRight
    <2>1. \A r \in Readers : batch[r] = <<>> /\ events[r] = <<>> /\ lapsed[r] = {} /\ ~returned[r]
        BY DEF ConsumersInit
    <2> QED
        BY <2>1 DEF HeldRight
<1>4. GoneSettled
    BY DEF ConsumersInit, GoneSettled, Gone
<1> QED
    BY <1>2, <1>3, <1>4 DEF ConsumersInv

LEMMA NotifyStep ==
    ASSUME ConsumersInv, NEW v, NEW k, <<v, k>> \in Contents, Notify(v, k)
    PROVE  ConsumersInv'
<1> DEFINE m == [id |-> Cardinality(published), vaa |-> v, kind |-> k]
<1>1. Cardinality(published) \in Nat /\ m \in Messages
    BY ContentsKinds, FS_CardinalityType DEF ConsumersInv, ConsumersTyped, Messages
<1>2. m.id = Cardinality(published) /\ m.vaa = v /\ m.kind = k
    OBVIOUS
<1>3. m \notin published
    BY <1>1, <1>2 DEF ConsumersInv, ConsumersTyped
<1>4. /\ published' = published \union {m} /\ inbox' = inbox \union {m} /\ Cardinality(published) < MaxMessages
      /\ UNCHANGED <<service, invisible, batch, events, returned, lapsed, dead, settled>>
    BY DEF Notify
<1> HIDE DEF m
<1>5. IsFiniteSet(published') /\ Cardinality(published') = Cardinality(published) + 1
    BY <1>3, <1>4, FS_AddElement DEF ConsumersInv, ConsumersTyped
<1>6. ConsumersTyped'
    <2>1. \A n \in published' : n.id < Cardinality(published') /\ <<n.vaa, n.kind>> \in Contents
        <3> SUFFICES ASSUME NEW n \in published' PROVE n.id < Cardinality(published') /\ <<n.vaa, n.kind>> \in Contents
            OBVIOUS
        <3>1. CASE n \in published
            <4>1. n.id \in Nat /\ n.id < Cardinality(published) /\ <<n.vaa, n.kind>> \in Contents
                BY <3>1 DEF ConsumersInv, ConsumersTyped, Messages
            <4> QED
                BY <1>1, <1>5, <4>1
        <3>2. CASE n = m
            BY <1>1, <1>2, <1>5, <3>2
        <3> QED
            BY <1>4, <3>1, <3>2
    <2>2. Cardinality(published') <= MaxMessages
        BY <1>1, <1>4, <1>5, ConsumersAssumption
    <2>3. inbox' \subseteq published' /\ invisible' \subseteq published' /\ inbox' \intersect invisible' = {} /\ published' \subseteq Messages
        BY <1>1, <1>3, <1>4 DEF ConsumersInv, ConsumersTyped
    <2> QED
        BY <1>4, <1>5, <2>1, <2>2, <2>3 DEF ConsumersInv, ConsumersTyped
<1>7. HeldRight'
    BY <1>4 DEF ConsumersInv, HeldRight, Settling
<1>8. GoneSettled'
    BY <1>4 DEF ConsumersInv, GoneSettled, Gone, Settling
<1> QED
    BY <1>6, <1>7, <1>8 DEF ConsumersInv

\* Of the steps of the replicas and the queue: what is published stays, and a
\* message leaves the queue only when it is settled.
LEMMA ReaderStep ==
    ASSUME ConsumersInv, UNCHANGED <<service, published>>,
           settled \subseteq settled', settled' \subseteq QueueVaas, dead' \subseteq Readers,
           inbox' \subseteq published, invisible' \subseteq published, inbox' \intersect invisible' = {},
           \A m \in inbox \union invisible : m \in inbox' \union invisible' \/ Settling(m)',
           batch' \in [Readers -> Seq(Messages)], events' \in [Readers -> Seq(Messages)],
           returned' \in [Readers -> BOOLEAN], lapsed' \in [Readers -> SUBSET Messages],
           HeldRight'
    PROVE  ConsumersInv'
<1>1. ConsumersTyped'
    BY DEF ConsumersInv, ConsumersTyped
<1>2. \A m : Settling(m) => Settling(m)'
    BY DEF Settling
<1>3. GoneSettled'
    BY <1>2 DEF ConsumersInv, GoneSettled, Gone
<1> QED
    BY <1>1, <1>3 DEF ConsumersInv

\* The queue alone.
LEMMA QueueStep ==
    ASSUME ConsumersInv, NEW m \in invisible, VisibilityTimeout(m) \/ Reappear(m)
    PROVE  ConsumersInv'
<1>1. m \in published /\ m \in Messages /\ m \notin inbox
    BY DEF ConsumersInv, ConsumersTyped
<1>2. /\ UNCHANGED <<service, published, batch, events, returned, dead, settled>>
      /\ invisible' = invisible \ {m} /\ inbox' = inbox \union {m}
    BY DEF VisibilityTimeout, Reappear
<1>3. /\ lapsed' \in [Readers -> SUBSET Messages]
      /\ \A r \in Readers : lapsed'[r] \subseteq lapsed[r] \union {m}
    <2>1. CASE Reappear(m)
        BY <2>1 DEF Reappear, ConsumersInv, ConsumersTyped
    <2>2. CASE VisibilityTimeout(m)
        BY <1>1, <2>2 DEF VisibilityTimeout, ConsumersInv, ConsumersTyped
    <2> QED
        BY <2>1, <2>2
<1>4. HeldRight'
    BY <1>1, <1>2, <1>3 DEF ConsumersInv, HeldRight, Settling
<1>5. /\ inbox' \subseteq published /\ invisible' \subseteq published /\ inbox' \intersect invisible' = {}
      /\ \A n \in inbox \union invisible : n \in inbox' \union invisible'
    BY <1>1, <1>2 DEF ConsumersInv, ConsumersTyped
<1> QED
    BY <1>2, <1>3, <1>4, <1>5, ReaderStep DEF ConsumersInv, ConsumersTyped

LEMMA GetMessagesStep ==
    ASSUME ConsumersInv, NEW r \in Readers, NEW S \in SUBSET inbox, GetMessages(r, S)
    PROVE  ConsumersInv'
<1>1. PICK q \in SetToSeqs(S) : batch' = [batch EXCEPT ![r] = q]
    BY DEF GetMessages
<1>2. S \subseteq published /\ S \subseteq Messages /\ IsFiniteSet(S)
    BY FS_Subset DEF ConsumersInv, ConsumersTyped
<1>3. q \in [1..Cardinality(S) -> S] /\ Cardinality(S) \in Nat
    BY <1>2, FS_CardinalityType DEF SetToSeqs
<1>4. q \in Seq(Messages) /\ \A i \in DOMAIN q : q[i] \in published
    BY <1>2, <1>3
<1>5. /\ UNCHANGED <<service, published, events, returned, dead, settled>>
      /\ inbox' = inbox \ S /\ invisible' = invisible \union S
      /\ lapsed' = [lapsed EXCEPT ![r] = {}]
    BY DEF GetMessages
<1>6. /\ batch' \in [Readers -> Seq(Messages)] /\ lapsed' \in [Readers -> SUBSET Messages]
      /\ \A z \in Readers : (batch'[z] = q \/ batch'[z] = batch[z]) /\ lapsed'[z] \subseteq lapsed[z]
    BY <1>1, <1>4, <1>5 DEF ConsumersInv, ConsumersTyped
<1>7. HeldRight'
    BY <1>4, <1>5, <1>6 DEF ConsumersInv, HeldRight, Settling
<1>8. /\ inbox' \subseteq published /\ invisible' \subseteq published /\ inbox' \intersect invisible' = {}
      /\ \A n \in inbox \union invisible : n \in inbox' \union invisible'
    BY <1>2, <1>5 DEF ConsumersInv, ConsumersTyped
<1> QED
    BY <1>5, <1>6, <1>7, <1>8, ReaderStep DEF ConsumersInv, ConsumersTyped

LEMMA DeleteLeaves ==
    ASSUME ConsumersInv, NEW r \in Readers, NEW m, Delete(r, m) \/ DeleteFails \/ Stay
    PROVE  /\ inbox' \subseteq published /\ invisible' \subseteq published /\ inbox' \intersect invisible' = {}
           /\ \A n \in inbox \union invisible : n = m \/ n \in inbox' \union invisible'
           /\ Stay => \A n \in inbox \union invisible : n \in inbox' \union invisible'
<1>1. invisible' \subseteq invisible /\ inbox' \subseteq inbox
    BY DEF Delete, DeleteFails, Stay
<1>2. \A n \in inbox \union invisible : n = m \/ n \in inbox' \union invisible'
    BY DEF Delete, DeleteFails, Stay
<1> QED
    BY <1>1, <1>2 DEF ConsumersInv, ConsumersTyped, Stay

LEMMA ConvertStep == ASSUME ConsumersInv, NEW r \in Readers, Convert(r) PROVE ConsumersInv'
<1> DEFINE m == Head(batch[r])
<1>1. /\ UNCHANGED <<service, published, returned, lapsed, settled>> /\ batch[r] # <<>>
      /\ batch' = [batch EXCEPT ![r] = Tail(@)]
      /\ \/ service = "parser" /\ ParserConvert(r, m)
         \/ service = "analytics" /\ AnalyticsConvert(r, m)
         \/ service = "tx-tracker" /\ TxTrackerConvert(r, m)
    BY DEF Convert, ConsumersInv, ConsumersTyped
<1>2. batch[r] \in Seq(Messages) /\ events[r] \in Seq(Messages)
    BY DEF ConsumersInv, ConsumersTyped
<1>3. m \in Messages /\ m \in published /\ <<m.vaa, m.kind>> \in Contents
    BY <1>1, <1>2, SeqHeadTail DEF ConsumersInv, ConsumersTyped, HeldRight
<1>4. m.kind \in Kinds
    BY <1>3, ContentsKinds
<1> HIDE DEF m
<1>5. /\ events' = events \/ (events' = [events EXCEPT ![r] = Append(@, m)]
                              /\ (m.kind \in About \/ (service = "analytics" /\ m.kind = "other")))
      /\ Delete(r, m) \/ DeleteFails \/ Stay
      /\ ~Stay => service = "parser" /\ m.vaa \in Filtered /\ m.kind \in About
      /\ dead' \subseteq dead \union {r}
    BY <1>1, <1>4 DEF ParserConvert, AnalyticsConvert, TxTrackerConvert, IsNil, Kinds, About
<1>6. /\ batch' \in [Readers -> Seq(Messages)] /\ events' \in [Readers -> Seq(Messages)]
      /\ dead' \subseteq Readers
    <2>1. Tail(batch[r]) \in Seq(Messages) /\ Append(events[r], m) \in Seq(Messages)
        BY <1>1, <1>2, <1>3, SeqHeadTail
    <2>2. batch \in [Readers -> Seq(Messages)] /\ events \in [Readers -> Seq(Messages)] /\ dead \subseteq Readers
        BY DEF ConsumersInv, ConsumersTyped
    <2>3. batch' \in [Readers -> Seq(Messages)]
        BY <1>1, <2>1, <2>2
    <2>4. events' \in [Readers -> Seq(Messages)]
        BY <1>5, <2>1, <2>2
    <2> QED
        BY <1>5, <2>2, <2>3, <2>4
<1>7. ASSUME NEW z \in Readers, NEW i \in DOMAIN batch'[z] PROVE batch'[z][i] \in published
    BY <1>1, <1>2, <1>7, SeqHeadTail DEF ConsumersInv, ConsumersTyped, HeldRight
<1>8. ASSUME NEW z \in Readers, NEW i \in DOMAIN events'[z]
      PROVE  /\ events'[z][i] \in published
             /\ events'[z][i].kind \in About \/ (service = "analytics" /\ events'[z][i].kind = "other")
    <2>1. CASE events'[z] = events[z]
        BY <1>8, <2>1 DEF ConsumersInv, HeldRight
    <2>2. CASE events'[z] # events[z]
        <3>1. z = r /\ events'[z] = Append(events[r], m)
            BY <1>5, <2>2 DEF ConsumersInv, ConsumersTyped
        <3>2. (i \in DOMAIN events[r] /\ events'[z][i] = events[r][i]) \/ events'[z][i] = m
            BY <1>2, <1>8, <3>1
        <3> QED
            BY <1>3, <1>5, <2>2, <3>2 DEF ConsumersInv, HeldRight
    <2> QED
        BY <2>1, <2>2
<1>9. ASSUME NEW z \in Readers, returned[z] PROVE events'[z] # <<>> /\ events'[z][1] = events[z][1]
    <2>1. events[z] # <<>> /\ events[z] \in Seq(Messages)
        BY <1>9 DEF ConsumersInv, ConsumersTyped, HeldRight
    <2>2. events'[z] = events[z] \/ events'[z] = Append(events[z], m)
        BY <1>5 DEF ConsumersInv, ConsumersTyped
    <2> QED
        BY <2>1, <2>2
<1>10. HeldRight'
    BY <1>1, <1>7, <1>8, <1>9 DEF ConsumersInv, HeldRight, Settling
<1>11. \A n \in inbox \union invisible : n \in inbox' \union invisible' \/ Settling(n)'
    BY <1>1, <1>5, DeleteLeaves DEF Settling
<1> QED
    BY <1>1, <1>5, <1>6, <1>10, <1>11, DeleteLeaves, ReaderStep DEF ConsumersInv, ConsumersTyped

\* What a handler starts with is about a VAA, or nil.
LEMMA HandledHead ==
    ASSUME ConsumersInv, NEW r \in Readers, events[r] # <<>>
    PROVE  /\ Head(events[r]) = events[r][1] /\ Head(events[r]) \in published
           /\ events[r] \in Seq(Messages) /\ Tail(events[r]) \in Seq(Messages)
           /\ \A i \in DOMAIN Tail(events[r]) : i + 1 \in DOMAIN events[r] /\ Tail(events[r])[i] = events[r][i + 1]
           /\ Head(events[r]).kind \in About \/ (service = "analytics" /\ Head(events[r]).kind = "other")
           /\ Head(events[r]).kind \in About => Head(events[r]).vaa \in QueueVaas
<1>1. events[r] \in Seq(Messages)
    BY DEF ConsumersInv, ConsumersTyped
<1>2. /\ Head(events[r]) = events[r][1] /\ 1 \in DOMAIN events[r] /\ Tail(events[r]) \in Seq(Messages)
      /\ \A i \in DOMAIN Tail(events[r]) : i + 1 \in DOMAIN events[r] /\ Tail(events[r])[i] = events[r][i + 1]
    BY <1>1, SeqHeadTail
<1>3. /\ events[r][1] \in published
      /\ events[r][1].kind \in About \/ (service = "analytics" /\ events[r][1].kind = "other")
    BY <1>2 DEF ConsumersInv, HeldRight
<1>4. events[r][1].kind \in About => events[r][1].vaa \in QueueVaas
    BY <1>3, ContentsKinds DEF ConsumersInv, ConsumersTyped
<1> QED
    BY <1>1, <1>2, <1>3, <1>4

LEMMA HandlerStep ==
    ASSUME ConsumersInv, NEW r \in Readers, events[r] # <<>>, ~returned[r],
           UNCHANGED <<service, published, inbox, invisible, batch, lapsed>>,
           settled \subseteq settled', settled' \subseteq QueueVaas, dead' \subseteq dead \union {r},
           \/ UNCHANGED <<events, returned>>
           \/ Fail(r)
           \/ Return(r) /\ Settling(Head(events[r]))'
    PROVE  ConsumersInv'
<1>1. /\ Head(events[r]) = events[r][1] /\ events[r] \in Seq(Messages) /\ Tail(events[r]) \in Seq(Messages)
      /\ \A i \in DOMAIN Tail(events[r]) : i + 1 \in DOMAIN events[r] /\ Tail(events[r])[i] = events[r][i + 1]
    BY HandledHead
<1>2. events' \in [Readers -> Seq(Messages)] /\ returned' \in [Readers -> BOOLEAN] /\ dead' \subseteq Readers
    BY <1>1 DEF ConsumersInv, ConsumersTyped, Fail, Return
<1>3. \A z \in Readers : events'[z] = events[z] \/ (z = r /\ events'[z] = Tail(events[z]) /\ returned' = returned)
    <2>1. events \in [Readers -> Seq(Messages)]
        BY DEF ConsumersInv, ConsumersTyped
    <2>2. events' = events \/ (events' = [events EXCEPT ![r] = Tail(@)] /\ returned' = returned)
        BY DEF Fail, Return
    <2> QED
        BY <2>1, <2>2
<1>4. \A z \in Readers : returned'[z] =>
          \/ z # r /\ returned[z] /\ events'[z] = events[z]
          \/ z = r /\ events'[z] = events[z] /\ Settling(Head(events[r]))'
    <2>1. /\ events \in [Readers -> Seq(Messages)] /\ returned \in [Readers -> BOOLEAN]
        BY DEF ConsumersInv, ConsumersTyped
    <2>2. CASE UNCHANGED <<events, returned>> \/ Fail(r)
        <3>1. returned' = returned /\ \A z \in Readers \ {r} : events'[z] = events[z]
            BY <2>1, <2>2 DEF Fail
        <3>2. ASSUME NEW z \in Readers, returned'[z] PROVE z # r /\ returned[z]
            BY <3>1, <3>2
        <3> QED
            BY <3>1, <3>2
    <2>3. CASE Return(r) /\ Settling(Head(events[r]))'
        <3>1. events' = events /\ \A z \in Readers \ {r} : returned'[z] = returned[z]
            BY <2>1, <2>3 DEF Return
        <3> QED
            BY <2>3, <3>1
    <2> QED
        BY <2>2, <2>3
<1>5. \A m : Settling(m) => Settling(m)'
    BY DEF Settling
<1>6. HeldRight'
    <2>1. \A z \in Readers : returned'[z] => events'[z] # <<>> /\ Settling(events[z][1])' /\ events'[z] = events[z]
        BY <1>1, <1>4, <1>5 DEF ConsumersInv, HeldRight
    <2>2. (\A z \in Readers : returned[z] => events[z] # <<>> /\ Settling(events[z][1]))'
        BY <2>1
    <2>3. \A z \in Readers : \A i \in DOMAIN events'[z] :
             events'[z][i] \in published /\ (events'[z][i].kind \in About \/ (service = "analytics" /\ events'[z][i].kind = "other"))
        <3> SUFFICES ASSUME NEW z \in Readers, NEW i \in DOMAIN events'[z]
                     PROVE  \E j \in DOMAIN events[z] : events'[z][i] = events[z][j]
            BY DEF ConsumersInv, HeldRight
        <3>1. CASE events'[z] = events[z]
            BY <3>1
        <3>2. CASE z = r /\ events'[z] = Tail(events[z])
            <4>1. i + 1 \in DOMAIN events[r] /\ Tail(events[r])[i] = events[r][i + 1]
                BY <1>1, <3>2
            <4> QED
                BY <3>2, <4>1
        <3> QED
            BY <1>3, <3>1, <3>2
    <2>4. \A z \in Readers : /\ \A i \in DOMAIN batch'[z] : batch'[z][i] \in published
                             /\ lapsed'[z] \subseteq published
        BY DEF ConsumersInv, HeldRight
    <2> QED
        BY <2>2, <2>3, <2>4 DEF HeldRight
<1> QED
    BY <1>2, <1>6, ReaderStep DEF ConsumersInv, ConsumersTyped

LEMMA HandleStep == ASSUME ConsumersInv, NEW r \in Readers, Handle(r) \/ Expire(r) PROVE ConsumersInv'
<1> DEFINE m == Head(events[r])
<1>1. events[r] # <<>> /\ ~returned[r]
    BY DEF Handle, ParserStart, AnalyticsStart, TxTrackerStart, Expire, Handling
<1>2. /\ m.kind \in About \/ (service = "analytics" /\ m.kind = "other")
      /\ m.kind \in About => m.vaa \in QueueVaas
    BY <1>1, HandledHead
<1>3. settled \subseteq QueueVaas
    BY DEF ConsumersInv, ConsumersTyped
<1>4. UNCHANGED <<service, published, inbox, invisible, batch, lapsed>>
    BY DEF Handle, ParserStart, AnalyticsStart, TxTrackerStart, Expire
<1>5. Settling(m)' <=> Head(events'[r]).kind \in About
                       /\ (Head(events'[r]).vaa \in settled'
                           \/ (service' = "parser" /\ Head(events'[r]).vaa \in Filtered \union Unparsable))
    BY DEF Settling
<1>6. CASE ParserStart(r)
    <2>1. m.kind \in About /\ m.vaa \in QueueVaas /\ dead' = dead /\ service = "parser"
        BY <1>2, <1>6 DEF ParserStart
    <2>2. CASE m.vaa \in Unparsable /\ Return(r) /\ UNCHANGED <<settled, trouble>>
        <3>1. Settling(m)'
            BY <1>4, <1>5, <2>1, <2>2 DEF Return
        <3> QED
            BY <1>1, <1>3, <1>4, <2>1, <2>2, <3>1, HandlerStep
    <2>3. CASE m.vaa \notin Unparsable /\ Return(r) /\ settled' = settled \union {m.vaa}
        <3>1. Settling(m)'
            BY <1>4, <1>5, <2>1, <2>3 DEF Return
        <3> QED
            BY <1>1, <1>3, <1>4, <2>1, <2>3, <3>1, HandlerStep
    <2>4. CASE Fail(r)
        <3>1. settled' = settled
            BY <2>4 DEF Fail
        <3> QED
            BY <1>1, <1>3, <1>4, <2>1, <2>4, <3>1, HandlerStep
    <2> QED
        BY <1>6, <2>2, <2>3, <2>4 DEF ParserStart, Process
<1>7. CASE AnalyticsStart(r)
    <2>1. CASE IsNil(m) /\ dead' = dead \union {r} /\ UNCHANGED <<events, returned, settled>>
        BY <1>1, <1>3, <1>4, <2>1, HandlerStep
    <2>2. CASE Fail(r) /\ UNCHANGED dead
        <3>1. settled' = settled
            BY <2>2 DEF Fail
        <3> QED
            BY <1>1, <1>3, <1>4, <2>2, <3>1, HandlerStep
    <2>3. CASE m.kind \in {"vaa", "log"} /\ UNCHANGED dead /\ Return(r) /\ settled' = settled \union {m.vaa}
        <3>1. m.kind \in About /\ m.vaa \in QueueVaas
            BY <1>2, <2>3 DEF About
        <3>2. Settling(m)'
            BY <1>4, <1>5, <2>3, <3>1 DEF Return
        <3> QED
            BY <1>1, <1>3, <1>4, <2>3, <3>1, <3>2, HandlerStep
    <2> QED
        BY <1>7, <2>1, <2>2, <2>3 DEF AnalyticsStart
<1>8. CASE TxTrackerStart(r)
    <2>1. m.kind \in About /\ m.vaa \in QueueVaas
        BY <1>2, <1>8 DEF TxTrackerStart
    <2>2. Return(r) /\ settled' = settled \union {m.vaa} /\ UNCHANGED dead
        BY <1>8 DEF TxTrackerStart
    <2>3. Settling(m)'
        BY <1>4, <1>5, <2>1, <2>2 DEF Return
    <2> QED
        BY <1>1, <1>3, <1>4, <2>1, <2>2, <2>3, HandlerStep
<1>9. CASE Expire(r)
    <2>1. Fail(r) /\ UNCHANGED <<dead, settled>>
        BY <1>9 DEF Expire, Fail
    <2> QED
        BY <1>1, <1>3, <1>4, <2>1, HandlerStep
<1> QED
    BY <1>6, <1>7, <1>8, <1>9 DEF Handle

LEMMA AcknowledgeStep == ASSUME ConsumersInv, NEW r \in Readers, Acknowledge(r) PROVE ConsumersInv'
<1> DEFINE m == Head(events[r])
<1>1. /\ returned[r] /\ returned' = [returned EXCEPT ![r] = FALSE]
      /\ events' = [events EXCEPT ![r] = Tail(@)]
      /\ Delete(r, m) \/ DeleteFails
      /\ UNCHANGED <<service, published, batch, lapsed, dead, settled>>
    BY DEF Acknowledge
<1>2. events[r] # <<>> /\ Settling(events[r][1])
    BY <1>1 DEF ConsumersInv, HeldRight
<1>3. /\ m = events[r][1] /\ Tail(events[r]) \in Seq(Messages)
      /\ \A i \in DOMAIN Tail(events[r]) : i + 1 \in DOMAIN events[r] /\ Tail(events[r])[i] = events[r][i + 1]
    BY <1>2, HandledHead
<1> HIDE DEF m
<1>4. /\ events' \in [Readers -> Seq(Messages)] /\ returned' \in [Readers -> BOOLEAN]
      /\ \A z \in Readers \ {r} : events'[z] = events[z] /\ returned'[z] = returned[z]
      /\ events'[r] = Tail(events[r]) /\ ~returned'[r]
    BY <1>1, <1>3 DEF ConsumersInv, ConsumersTyped
<1>5. \A n : Settling(n) => Settling(n)'
    BY <1>1 DEF Settling
<1>6. HeldRight'
    <2>1. (\A z \in Readers : returned[z] => events[z] # <<>> /\ Settling(events[z][1]))'
        <3>1. \A z \in Readers : returned'[z] => events'[z] = events[z] /\ events[z] # <<>> /\ Settling(events[z][1])
            BY <1>4 DEF ConsumersInv, HeldRight
        <3>2. \A n : Settling(n) => n.kind \in About
                                  /\ (n.vaa \in settled' \/ (service' = "parser" /\ n.vaa \in Filtered \union Unparsable))
            BY <1>1 DEF Settling
        <3>3. ASSUME NEW z \in Readers, returned'[z]
              PROVE  /\ events'[z] # <<>> /\ events'[z][1].kind \in About
                     /\ (events'[z][1].vaa \in settled' \/ (service' = "parser" /\ events'[z][1].vaa \in Filtered \union Unparsable))
            BY <3>1, <3>2, <3>3
        <3> QED
            BY <3>3, Zenon DEF Settling
    <2>2. \A z \in Readers : \A i \in DOMAIN events'[z] :
             events'[z][i] \in published /\ (events'[z][i].kind \in About \/ (service = "analytics" /\ events'[z][i].kind = "other"))
        <3> SUFFICES ASSUME NEW z \in Readers, NEW i \in DOMAIN events'[z]
                     PROVE  \E j \in DOMAIN events[z] : events'[z][i] = events[z][j]
            BY DEF ConsumersInv, HeldRight
        <3>1. CASE z # r
            BY <1>4, <3>1
        <3>2. CASE z = r
            <4>1. i + 1 \in DOMAIN events[r] /\ Tail(events[r])[i] = events[r][i + 1]
                BY <1>3, <1>4, <3>2
            <4> QED
                BY <1>4, <3>2, <4>1
        <3> QED
            BY <3>1, <3>2
    <2>3. \A z \in Readers : /\ \A i \in DOMAIN batch'[z] : batch'[z][i] \in published
                             /\ lapsed'[z] \subseteq published
        BY <1>1 DEF ConsumersInv, HeldRight
    <2> QED
        BY <1>1, <2>1, <2>2, <2>3 DEF HeldRight
<1>7. \A n \in inbox \union invisible : n \in inbox' \union invisible' \/ Settling(n)'
    <2>1. \A n \in inbox \union invisible : n = m \/ n \in inbox' \union invisible'
        BY <1>1, DeleteLeaves
    <2>2. Settling(m)
        BY <1>2, <1>3
    <2>3. \A n \in inbox \union invisible : n = m => Settling(n)'
        BY <1>5, <2>2
    <2> QED
        BY <2>1, <2>3
<1> QED
    BY <1>1, <1>4, <1>6, <1>7, DeleteLeaves, ReaderStep DEF ConsumersInv, ConsumersTyped

LEMMA RestartReaderStep == ASSUME ConsumersInv, NEW r \in Readers, RestartReader(r) PROVE ConsumersInv'
<1>1. /\ dead' = dead \ {r} /\ returned' = [returned EXCEPT ![r] = FALSE]
      /\ batch' = [batch EXCEPT ![r] = <<>>] /\ events' = [events EXCEPT ![r] = <<>>]
      /\ UNCHANGED <<service, published, inbox, invisible, lapsed, settled>>
    BY DEF RestartReader
<1>2. /\ batch' \in [Readers -> Seq(Messages)] /\ events' \in [Readers -> Seq(Messages)]
      /\ returned' \in [Readers -> BOOLEAN]
    BY <1>1 DEF ConsumersInv, ConsumersTyped
<1>3. /\ \A z \in Readers \ {r} : batch'[z] = batch[z] /\ events'[z] = events[z] /\ returned'[z] = returned[z]
      /\ batch'[r] = <<>> /\ events'[r] = <<>> /\ ~returned'[r]
    BY <1>1 DEF ConsumersInv, ConsumersTyped
<1>4. HeldRight'
    BY <1>1, <1>3 DEF ConsumersInv, HeldRight, Settling
<1> QED
    BY <1>1, <1>2, <1>4, ReaderStep DEF ConsumersInv, ConsumersTyped

LEMMA ConsumersStep == ASSUME ConsumersInv, [ConsumersNext]_consumersVars PROVE ConsumersInv'
<1>1. CASE UNCHANGED consumersVars
    BY <1>1 DEF consumersVars, ConsumersInv, ConsumersTyped, HeldRight, GoneSettled, Gone, Settling
<1>2. ASSUME NEW c \in Contents, Notify(c[1], c[2]) PROVE ConsumersInv'
    <2>1. c = <<c[1], c[2]>>
        BY <1>2, ConsumersAssumption
    <2> QED
        BY <1>2, <2>1, NotifyStep
<1>3. ASSUME NEW r \in Readers, NEW S \in SUBSET inbox \ {{}}, GetMessages(r, S) PROVE ConsumersInv'
    BY <1>3, GetMessagesStep
<1>4. ASSUME NEW r \in Readers, Convert(r) \/ Expire(r) \/ Handle(r) \/ Acknowledge(r) \/ RestartReader(r)
      PROVE ConsumersInv'
    BY <1>4, ConvertStep, HandleStep, AcknowledgeStep, RestartReaderStep
<1> QED
    BY <1>1, <1>2, <1>3, <1>4, QueueStep DEF ConsumersNext

LEMMA ConsumersInvSafe == ConsumersInv => ConsumersTypeOK /\ GoneOnlyWhenHandled
<1> SUFFICES ASSUME ConsumersInv PROVE ConsumersTypeOK /\ GoneOnlyWhenHandled
    OBVIOUS
<1>1. \A m \in published : m.id \in 0..MaxMessages-1
    <2>1. Cardinality(published) \in Nat /\ MaxMessages \in Nat
        BY FS_CardinalityType, ConsumersAssumption DEF ConsumersInv, ConsumersTyped
    <2> QED
        <3> SUFFICES ASSUME NEW m \in published PROVE m.id \in 0..MaxMessages-1
            OBVIOUS
        <3>1. m.id \in Nat /\ m.id < Cardinality(published) /\ Cardinality(published) <= MaxMessages
            BY DEF ConsumersInv, ConsumersTyped, Messages
        <3> QED
            BY <2>1, <3>1
<1>2. \A r \in Readers : Held(r) \subseteq published
    BY DEF ConsumersInv, HeldRight, Held, ToSet
<1>3. ConsumersTypeOK
    BY <1>1, <1>2 DEF ConsumersTypeOK, ConsumersInv, ConsumersTyped, HeldRight
<1>4. GoneOnlyWhenHandled
    BY DEF GoneOnlyWhenHandled, ConsumersInv, GoneSettled, Gone, Settling, About
<1> QED
    BY <1>3, <1>4

------------------------------------------------------------------------------
(* Backfillers.                                                             *)

Items == [id : Docs, vaa : BOOLEAN]

BackfillTyped ==
    /\ job \in {"parser", "failed", "range", "none"} /\ up \in BOOLEAN
    /\ vaas \subseteq Docs /\ incomplete \subseteq Docs /\ visited \subseteq Docs
    /\ page \in Nat /\ todo \in Seq(Items) /\ queueTx \in Seq(Items)
    /\ cursor \in [id : Nat, time : Nat \union {-1}]
    /\ work \in [Workers -> Items \union {Nothing}]
    /\ state \in {"reading", "closed", "broken"}

\* What the job has to visit is there, and stays.
ToVisit ==
    /\ atStart \subseteq vaas
    /\ job = "none" => atStart = {}
    /\ job = "parser" => atStart \subseteq TimeRange /\ queueTx = <<>>
    /\ job = "range" => atStart \subseteq InRange
    /\ job = "failed" => atStart \ visited \subseteq incomplete
    /\ job # "parser" => atStart \intersect Hashless = {}
    /\ \A i \in DOMAIN todo : todo[i].id \in atStart => todo[i].vaa
    /\ \A i \in DOMAIN queueTx : queueTx[i].id \in atStart => queueTx[i].vaa

InHand(d) ==
    \/ \E i \in DOMAIN todo : todo[i].id = d
    \/ \E i \in DOMAIN queueTx : queueTx[i].id = d
    \/ \E w \in Workers : work[w].id = d

Pending(d) == d \in atStart \ visited /\ ~InHand(d)

SoonerThan(d) == {e \in TimeRange : Sooner(e, d)}

AfterCursor(d) ==
    IF job = "failed" THEN d > cursor.id
    ELSE \/ cursor.time = -1 \/ Stamp[d] < cursor.time
         \/ Stamp[d] = cursor.time /\ d > cursor.id

\* What is still to be read is on a page to come.
ToRead ==
    /\ job = "parser" /\ state = "reading" =>
          \A d \in Docs : Pending(d) /\ ~Tied(d) => Cardinality(SoonerThan(d)) >= page * PageSize
    /\ job \in {"failed", "range"} /\ state = "reading" =>
          \A d \in Docs : Pending(d) => AfterCursor(d) /\ \A i \in DOMAIN todo : Precedes(todo[i].id, d)
    /\ state = "closed" => todo = <<>> /\ \A d \in Docs : Pending(d) => job = "parser" /\ Tied(d)

BackfillInv == BackfillTyped /\ ToVisit /\ ToRead

LEMMA BackfillInitInv == BackfillInit => BackfillInv
<1> SUFFICES ASSUME BackfillInit PROVE BackfillInv
    OBVIOUS
<1>1. /\ todo = <<>> /\ queueTx = <<>> /\ page = 0 /\ visited = {} /\ cursor = [id |-> 0, time |-> -1]
      /\ vaas \subseteq Docs /\ incomplete \subseteq Docs /\ up \in BOOLEAN /\ job \in Jobs
      /\ work = [w \in Workers |-> Nothing]
      /\ job # "failed" => incomplete = {}
      /\ state = IF job = "none" THEN "closed" ELSE "reading"
    BY DEF BackfillInit
<1>2. job \in {"parser", "failed", "range", "none"}
    BY <1>1, BackfillersAssumption
<1>3. /\ job = "parser" => atStart = TimeRange
      /\ job = "range" => atStart = InRange \ Hashless
      /\ job \in {"failed", "none"} => atStart = (incomplete \intersect vaas) \ Hashless
    BY DEF BackfillInit
<1>4. BackfillTyped
    BY <1>1, <1>2 DEF BackfillTyped
<1>5. ToVisit
    <2>1. atStart \subseteq vaas
        BY <1>2, <1>3 DEF TimeRange, InRange
    <2>2. job = "none" => atStart = {}
        BY <1>1, <1>3
    <2>3. job # "parser" => atStart \intersect Hashless = {}
        BY <1>2, <1>3
    <2> QED
        BY <1>1, <1>3, <2>1, <2>2, <2>3 DEF ToVisit
<1>6. ToRead
    <2>1. job = "parser" => \A d \in Docs : Cardinality(SoonerThan(d)) >= page * PageSize
        <3> SUFFICES ASSUME NEW d \in Docs PROVE Cardinality(SoonerThan(d)) >= page * PageSize
            OBVIOUS
        <3>1. SoonerThan(d) \in SUBSET Docs
            BY <1>1 DEF SoonerThan, TimeRange
        <3>2. Cardinality(SoonerThan(d)) \in Nat
            BY <3>1, FS_Subset, FS_CardinalityType, BackfillersAssumption
        <3>3. page * PageSize = 0
            BY <1>1, BackfillersAssumption
        <3> QED
            BY <3>2, <3>3
    <2>2. \A d \in Docs : AfterCursor(d)
        BY <1>1, BackfillersAssumption DEF AfterCursor
    <2>3. state = "closed" => todo = <<>> /\ \A d : ~Pending(d)
        BY <1>1, <1>5 DEF ToVisit, Pending
    <2> QED
        BY <1>1, <2>1, <2>2, <2>3 DEF ToRead
<1> QED
    BY <1>4, <1>5, <1>6 DEF BackfillInv

\* The two pages of D that are read at n and left behind d end before it.
LEMMA PageEnds ==
    ASSUME NEW D, IsFiniteSet(D), D \subseteq Docs, NEW n \in Nat, NEW m \in Nat \ {0},
           NEW S \in FirstOf(D, n), NEW T \in FirstOf(D \ S, m), up \in BOOLEAN,
           NEW d \in D, d \notin T, \A e \in D \ {d} : Stamp[e] # Stamp[d],
           Cardinality({e \in D : Sooner(e, d)}) >= n
    PROVE  T # {} /\ Cardinality({e \in D : Sooner(e, d)}) >= n + m
<1> DEFINE K == {e \in D : Sooner(e, d)}
<1>1. \A e \in D : Stamp[e] \in Nat
    BY BackfillersAssumption
<1>2. \A e \in D : e # d => (Sooner(e, d) <=> ~Sooner(d, e))
    BY <1>1 DEF Sooner
<1>3. ~Sooner(d, d)
    BY <1>1 DEF Sooner
<1>4. S \in SUBSET D /\ (\A a \in S, b \in D \ S : ~Sooner(b, a))
      /\ Cardinality(S) = IF n < Cardinality(D) THEN n ELSE Cardinality(D)
    BY DEF FirstOf
<1>5. T \in SUBSET (D \ S) /\ (\A a \in T, b \in (D \ S) \ T : ~Sooner(b, a))
      /\ Cardinality(T) = IF m < Cardinality(D \ S) THEN m ELSE Cardinality(D \ S)
    BY DEF FirstOf
<1>6. K \in SUBSET D /\ d \notin K
    BY <1>3
<1>7. \A X \in SUBSET D : IsFiniteSet(X) /\ Cardinality(X) \in Nat
    BY FS_Subset, FS_CardinalityType
<1>8. d \notin S
    <2> SUFFICES ASSUME d \in S PROVE FALSE
        OBVIOUS
    <2>1. K \union {d} \in SUBSET S
        BY <1>4
    <2>2. Cardinality(K \union {d}) = Cardinality(K) + 1
        BY <1>6, <1>7, FS_AddElement
    <2>3. Cardinality(K \union {d}) <= Cardinality(S)
        BY <1>4, <1>7, <2>1, FS_Subset
    <2>4. Cardinality(K) \in Nat /\ Cardinality(S) \in Nat /\ Cardinality(D) \in Nat /\ Cardinality(K) >= n
        BY <1>4, <1>6, <1>7
    <2> HIDE DEF K
    <2> QED
        BY <1>4, <2>2, <2>3, <2>4
<1>9. Cardinality(S) = n
    <2>1. Cardinality(S) = Cardinality(D) => S = D
        BY <1>4, FS_Subset
    <2> QED
        BY <1>4, <1>8, <2>1
<1>10. Cardinality(T) = m
    <2>1. Cardinality(T) = Cardinality(D \ S) => T = D \ S
        BY <1>5, <1>7, FS_Subset
    <2> QED
        BY <1>5, <1>8, <2>1
<1>11. S \union T \in SUBSET K
    BY <1>2, <1>4, <1>5, <1>8
<1>12. Cardinality(S \union T) = n + m
    <2>1. S \intersect T = {} /\ IsFiniteSet(S) /\ IsFiniteSet(T)
        BY <1>4, <1>5, <1>7
    <2>2. Cardinality(S \intersect T) = 0
        BY <2>1, FS_EmptySet, Zenon
    <2>3. Cardinality(S \union T) = Cardinality(S) + Cardinality(T) - Cardinality(S \intersect T)
        BY <2>1, FS_Union
    <2> QED
        BY <1>9, <1>10, <2>2, <2>3
<1>13. Cardinality(S \union T) <= Cardinality(K)
    BY <1>6, <1>7, <1>11, FS_Subset
<1>14. T # {}
    <2>1. Cardinality({}) = 0
        BY FS_EmptySet
    <2> QED
        BY <1>10, <2>1
<1> QED
    BY <1>6, <1>7, <1>12, <1>13, <1>14

LEMMA ListingFacts ==
    ASSUME NEW D \in SUBSET Docs, NEW q \in Listings(D)
    PROVE  /\ q \in Seq(D) /\ Len(q) = Cardinality(D) /\ Cardinality(D) \in Nat
           /\ DOMAIN q = 1..Len(q)
           /\ \A d \in D : \E i \in DOMAIN q : q[i] = d
           /\ Len(q) = 0 <=> D = {}
<1>1. IsFiniteSet(D) /\ Cardinality(D) \in Nat /\ (Cardinality(D) = 0 <=> D = {})
    BY FS_Subset, FS_CardinalityType, FS_EmptySet, BackfillersAssumption
<1>2. q \in [1..Cardinality(D) -> D] /\ \A d \in D : \E i \in DOMAIN q : q[i] = d
    BY DEF Listings
<1>3. q \in Seq(D) /\ Len(q) = Cardinality(D) /\ DOMAIN q = 1..Len(q)
    BY <1>1, <1>2
<1> QED
    BY <1>1, <1>2, <1>3

\* fly stores more: nothing moves to an earlier page.
LEMMA StoreStep == ASSUME BackfillInv, NEW c \in Docs, Store(c) PROVE BackfillInv'
<1>1. /\ vaas' = vaas \union {c}
      /\ UNCHANGED <<job, up, incomplete, atStart, page, todo, cursor, queueTx, work, visited, state>>
    BY DEF Store
<1>2. BackfillTyped'
    BY <1>1 DEF BackfillInv, BackfillTyped
<1>3. TimeRange \subseteq TimeRange' /\ InRange \subseteq InRange' /\ TimeRange' \subseteq Docs
    BY <1>1 DEF TimeRange, InRange, BackfillInv, BackfillTyped
<1>4. ToVisit'
    BY <1>1, <1>3 DEF BackfillInv, ToVisit
<1>5. ASSUME NEW d \in Docs PROVE /\ Pending(d)' <=> Pending(d)
                                  /\ Cardinality(SoonerThan(d)) <= Cardinality(SoonerThan(d)')
                                  /\ Cardinality(SoonerThan(d)) \in Nat /\ Cardinality(SoonerThan(d)') \in Nat
                                  /\ AfterCursor(d)' <=> AfterCursor(d)
    <2>1. SoonerThan(d) \subseteq SoonerThan(d)' /\ SoonerThan(d)' \subseteq Docs
        BY <1>1, <1>3 DEF SoonerThan, Sooner
    <2>2. IsFiniteSet(SoonerThan(d)') /\ IsFiniteSet(SoonerThan(d))
        BY <2>1, FS_Subset, BackfillersAssumption
    <2>3. Cardinality(SoonerThan(d)) <= Cardinality(SoonerThan(d)')
        BY <2>1, <2>2, FS_Subset
    <2>4. Pending(d)' <=> Pending(d)
        BY <1>1 DEF Pending, InHand
    <2>5. AfterCursor(d)' <=> AfterCursor(d)
        BY <1>1 DEF AfterCursor
    <2> QED
        BY <2>2, <2>3, <2>4, <2>5, FS_CardinalityType
<1>6. page * PageSize \in Nat
    BY BackfillersAssumption DEF BackfillInv, BackfillTyped
<1>7. (job = "parser" /\ state = "reading" =>
          \A d \in Docs : Pending(d) /\ ~Tied(d) => Cardinality(SoonerThan(d)) >= page * PageSize)'
    <2> DEFINE n == page * PageSize
               card(d) == Cardinality(SoonerThan(d))
    <2>1. n' = n
        BY <1>1
    <2> HIDE DEF n
    <2>2. SUFFICES ASSUME job = "parser", state = "reading", NEW d \in Docs, Pending(d), ~Tied(d)
                   PROVE  Cardinality(SoonerThan(d)') >= n
        BY <1>1, <1>5, <2>1 DEF n
    <2>3. card(d) >= n
        BY <2>2 DEF BackfillInv, ToRead, n
    <2> QED
        BY <1>5, <1>6, <2>3 DEF n
<1>8. (job \in {"failed", "range"} /\ state = "reading" =>
          \A d \in Docs : Pending(d) => AfterCursor(d) /\ \A i \in DOMAIN todo : Precedes(todo[i].id, d))'
    BY <1>1, <1>5 DEF BackfillInv, ToRead, Precedes
<1>9. (state = "closed" => todo = <<>> /\ \A d \in Docs : Pending(d) => job = "parser" /\ Tied(d))'
    BY <1>1, <1>5 DEF BackfillInv, ToRead, Tied
<1>10. ToRead'
    BY <1>7, <1>8, <1>9 DEF ToRead
<1> QED
    BY <1>2, <1>4, <1>10 DEF BackfillInv

LEMMA FindPageStep == ASSUME BackfillInv, FindPageByTimeRange PROVE BackfillInv'
<1>1. PICK S \in FirstOf(TimeRange, page * PageSize) :
         \E T \in FirstOf(TimeRange \ S, PageSize) :
            /\ \E ids \in Listings(T) : todo' = [i \in DOMAIN ids |-> [id |-> ids[i], vaa |-> TRUE]]
            /\ page' = IF T = {} THEN page ELSE page + 1
            /\ state' = IF T = {} THEN "closed" ELSE "reading"
    BY DEF FindPageByTimeRange
<1>2. PICK T \in FirstOf(TimeRange \ S, PageSize) :
         /\ \E ids \in Listings(T) : todo' = [i \in DOMAIN ids |-> [id |-> ids[i], vaa |-> TRUE]]
         /\ page' = IF T = {} THEN page ELSE page + 1
         /\ state' = IF T = {} THEN "closed" ELSE "reading"
    BY <1>1
<1>3. PICK ids \in Listings(T) : todo' = [i \in DOMAIN ids |-> [id |-> ids[i], vaa |-> TRUE]]
    BY <1>2
<1>4. /\ job = "parser" /\ state = "reading" /\ todo = <<>>
      /\ UNCHANGED <<job, up, vaas, incomplete, atStart, cursor, queueTx, work, visited>>
    BY DEF FindPageByTimeRange
<1>5. TimeRange \in SUBSET Docs /\ T \in SUBSET Docs /\ T \subseteq TimeRange
    BY DEF TimeRange, FirstOf, BackfillInv, BackfillTyped
<1>6. /\ ids \in Seq(T) /\ DOMAIN ids = 1..Len(ids) /\ (Len(ids) = 0 <=> T = {})
      /\ \A d \in T : \E i \in DOMAIN ids : ids[i] = d
    BY <1>3, <1>5, ListingFacts
<1>7. /\ todo' \in Seq(Items) /\ Len(todo') = Len(ids) /\ DOMAIN todo' = DOMAIN ids
      /\ \A i \in DOMAIN ids : todo'[i].id = ids[i] /\ todo'[i].vaa
    <2>1. \A i \in DOMAIN ids : [id |-> ids[i], vaa |-> TRUE] \in Items
        BY <1>5, <1>6 DEF Items
    <2>2. todo' \in [1..Len(ids) -> Items] /\ Len(ids) \in Nat
        BY <1>3, <1>6, <2>1
    <2> QED
        BY <1>3, <1>6, <2>2
<1>8. T = {} => todo' = <<>>
    BY <1>6, <1>7
<1>9. BackfillTyped'
    BY <1>2, <1>4, <1>7 DEF BackfillInv, BackfillTyped
<1>10. TimeRange' = TimeRange /\ InRange' = InRange
    BY <1>4 DEF TimeRange, InRange
<1>11. ToVisit'
    BY <1>4, <1>7, <1>10 DEF BackfillInv, ToVisit
<1>12. ASSUME NEW d \in Docs, Pending(d)' PROVE Pending(d) /\ d \notin T /\ d \in TimeRange
    <2>1. d \notin T
        <3> SUFFICES ASSUME d \in T PROVE FALSE
            OBVIOUS
        <3>1. PICK i \in DOMAIN ids : ids[i] = d
            BY <1>6
        <3>2. i \in DOMAIN todo' /\ todo'[i].id = d
            BY <1>7, <3>1
        <3> QED
            BY <1>12, <3>2 DEF Pending, InHand
    <2>2. Pending(d)
        BY <1>4, <1>12 DEF Pending, InHand
    <2> QED
        BY <1>4, <2>1, <2>2 DEF Pending, BackfillInv, ToVisit
<1>13. ASSUME NEW d \in Docs, Pending(d)', ~Tied(d)
       PROVE  T # {} /\ Cardinality(SoonerThan(d)) >= page * PageSize + PageSize
    <2> DEFINE n == page * PageSize
    <2>1. n \in Nat /\ PageSize \in Nat \ {0} /\ IsFiniteSet(TimeRange)
        <3>1. IsFiniteSet(TimeRange)
            BY <1>5, FS_Subset, BackfillersAssumption
        <3>2. page \in Nat /\ PageSize \in Nat \ {0}
            BY BackfillersAssumption DEF BackfillInv, BackfillTyped
        <3> QED
            BY <3>1, <3>2
    <2>2. Cardinality(SoonerThan(d)) >= n
        BY <1>4, <1>12, <1>13 DEF BackfillInv, ToRead
    <2>3. \A e \in TimeRange \ {d} : Stamp[e] # Stamp[d]
        BY <1>5, <1>13 DEF Tied
    <2>4. up \in BOOLEAN /\ S \in FirstOf(TimeRange, n) /\ d \in TimeRange /\ d \notin T
        BY <1>12, <1>13 DEF BackfillInv, BackfillTyped
    <2> HIDE DEF n
    <2> QED
        BY <1>5, <2>1, <2>2, <2>3, <2>4, PageEnds DEF SoonerThan, n
<1>14. (job = "parser" /\ state = "reading" =>
          \A d \in Docs : Pending(d) /\ ~Tied(d) => Cardinality(SoonerThan(d)) >= page * PageSize)'
    <2>1. \A d : SoonerThan(d)' = SoonerThan(d) /\ Tied(d)' = Tied(d)
        BY <1>4, <1>10 DEF SoonerThan, Sooner, Tied
    <2>2. SUFFICES ASSUME state' = "reading", NEW d \in Docs, Pending(d)', ~Tied(d)
                   PROVE  Cardinality(SoonerThan(d)) >= page' * PageSize
        BY <2>1
    <2>3. T # {} /\ Cardinality(SoonerThan(d)) >= page * PageSize + PageSize
        BY <1>13, <2>2
    <2>4. page' = page + 1 /\ page \in Nat /\ PageSize \in Nat
        BY <1>2, <2>3, BackfillersAssumption DEF BackfillInv, BackfillTyped
    <2>5. page' * PageSize = page * PageSize + PageSize
        BY <2>4
    <2> QED
        BY <2>3, <2>5
<1>15. (state = "closed" => todo = <<>> /\ \A d \in Docs : Pending(d) => job = "parser" /\ Tied(d))'
    BY <1>2, <1>4, <1>8, <1>13 DEF Tied
<1>16. ToRead'
    BY <1>4, <1>14, <1>15 DEF ToRead
<1> QED
    BY <1>9, <1>11, <1>16 DEF BackfillInv

LEMMA ProcessVaaStep == ASSUME BackfillInv, ProcessVaa PROVE BackfillInv'
<1>1. /\ job = "parser" /\ state = "reading" /\ todo # <<>>
      /\ todo' = Tail(todo) /\ visited' = visited \union {Head(todo).id}
      /\ UNCHANGED <<job, up, vaas, incomplete, atStart, page, cursor, queueTx, work, state>>
    BY DEF ProcessVaa
<1>2. todo \in Seq(Items)
    BY DEF BackfillInv, BackfillTyped
<1>3. /\ Head(todo) = todo[1] /\ Head(todo) \in Items /\ 1 \in DOMAIN todo /\ Tail(todo) \in Seq(Items)
      /\ \A i \in DOMAIN Tail(todo) : i + 1 \in DOMAIN todo /\ Tail(todo)[i] = todo[i + 1]
      /\ \A i \in DOMAIN todo : i = 1 \/ (i - 1 \in DOMAIN Tail(todo) /\ Tail(todo)[i - 1] = todo[i])
    BY <1>1, <1>2
<1>4. BackfillTyped'
    BY <1>1, <1>3 DEF BackfillInv, BackfillTyped, Items
<1>5. TimeRange' = TimeRange /\ InRange' = InRange
    BY <1>1 DEF TimeRange, InRange
<1>6. ToVisit'
    BY <1>1, <1>3, <1>5 DEF BackfillInv, ToVisit
<1>7. ASSUME NEW d \in Docs, Pending(d)' PROVE Pending(d)
    BY <1>1, <1>3, <1>7 DEF Pending, InHand
<1>8. \A d : SoonerThan(d)' = SoonerThan(d) /\ Tied(d)' = Tied(d)
    BY <1>1, <1>5 DEF SoonerThan, Sooner, Tied
<1>9. ToRead'
    BY <1>1, <1>7, <1>8 DEF BackfillInv, ToRead
<1> QED
    BY <1>4, <1>6, <1>9 DEF BackfillInv

LEMMA IterateStep == ASSUME BackfillInv, Iterate PROVE BackfillInv'
<1>1. /\ job # "parser" /\ state = "reading" /\ todo = <<>>
      /\ state' = IF Documents = {} THEN "closed" ELSE "reading"
      /\ UNCHANGED <<job, up, vaas, incomplete, atStart, page, cursor, queueTx, work, visited>>
    BY DEF Iterate
<1>2. PICK q \in Listings(Documents) :
         /\ \A i, j \in DOMAIN q : i < j => Precedes(q[i], q[j])
         /\ todo' = [i \in 1..(IF Len(q) < PageSize THEN Len(q) ELSE PageSize) |-> [id |-> q[i], vaa |-> q[i] \in vaas]]
    BY DEF Iterate
<1>3. Documents \in SUBSET Docs
    BY DEF Documents, GetIncompleteDocuments, GetDocumentsByTimeRange, InRange, BackfillInv, BackfillTyped
<1>4. /\ q \in Seq(Documents) /\ DOMAIN q = 1..Len(q) /\ Len(q) \in Nat
      /\ (Len(q) = 0 <=> Documents = {})
      /\ \A d \in Documents : \E i \in DOMAIN q : q[i] = d
    BY <1>3, ListingFacts
<1> DEFINE l == IF Len(q) < PageSize THEN Len(q) ELSE PageSize
<1>5. l \in Nat /\ l <= Len(q) /\ PageSize \in Nat \ {0}
    BY <1>4, BackfillersAssumption
<1>6. todo' = [i \in 1..l |-> [id |-> q[i], vaa |-> q[i] \in vaas]]
    BY <1>2
<1> HIDE DEF l
<1>7. /\ todo' \in Seq(Items) /\ DOMAIN todo' = 1..l /\ Len(todo') = l
      /\ \A i \in 1..l : i \in DOMAIN q /\ todo'[i].id = q[i] /\ (todo'[i].vaa <=> q[i] \in vaas)
    <2>1. \A i \in 1..l : i \in DOMAIN q /\ q[i] \in Docs
        BY <1>3, <1>4, <1>5
    <2>2. \A i \in 1..l : [id |-> q[i], vaa |-> q[i] \in vaas] \in Items
        BY <2>1 DEF Items
    <2>3. todo' \in [1..l -> Items]
        BY <1>6, <2>2
    <2>4. \A i \in 1..l : todo'[i] = [id |-> q[i], vaa |-> q[i] \in vaas]
        BY <1>6
    <2>5. \A i \in 1..l : todo'[i].id = q[i] /\ (todo'[i].vaa <=> q[i] \in vaas)
        <3> SUFFICES ASSUME NEW i \in 1..l PROVE todo'[i].id = q[i] /\ (todo'[i].vaa <=> q[i] \in vaas)
            OBVIOUS
        <3> DEFINE b == q[i] \in vaas
        <3>1. todo'[i] = [id |-> q[i], vaa |-> b] /\ b \in BOOLEAN
            BY <2>4
        <3> HIDE DEF b
        <3>2. todo'[i].id = q[i] /\ todo'[i].vaa = b
            BY <3>1
        <3> QED
            BY <3>2 DEF b
    <2> QED
        BY <1>5, <2>1, <2>3, <2>5
<1>8. BackfillTyped'
    BY <1>1, <1>7 DEF BackfillInv, BackfillTyped
<1>9. TimeRange' = TimeRange /\ InRange' = InRange
    BY <1>1 DEF TimeRange, InRange
<1>10. ToVisit'
    BY <1>1, <1>7, <1>9 DEF BackfillInv, ToVisit
<1>11. ASSUME NEW d \in Docs, Pending(d)' PROVE Pending(d) /\ d \in Documents /\ AfterCursor(d)
    <2>1. Pending(d)
        BY <1>1, <1>11 DEF Pending, InHand
    <2>2. job \in {"failed", "range"}
        BY <1>1, <2>1 DEF Pending, BackfillInv, ToVisit, BackfillTyped
    <2>3. AfterCursor(d)
        BY <1>1, <2>1, <2>2 DEF BackfillInv, ToRead
    <2>4. CASE job = "failed"
        BY <2>1, <2>3, <2>4 DEF Pending, AfterCursor, BackfillInv, ToVisit, Documents, GetIncompleteDocuments
    <2>5. CASE job = "range"
        BY <2>1, <2>3, <2>5 DEF Pending, AfterCursor, BackfillInv, ToVisit, Documents, GetDocumentsByTimeRange
    <2> QED
        BY <2>1, <2>2, <2>3, <2>4, <2>5
<1>12. ASSUME NEW d \in Docs, Pending(d)', NEW i \in DOMAIN todo' PROVE Precedes(todo'[i].id, d)
    <2>1. PICK j \in DOMAIN q : q[j] = d
        BY <1>4, <1>11, <1>12
    <2>2. j \notin 1..l
        <3> SUFFICES ASSUME j \in 1..l PROVE FALSE
            OBVIOUS
        <3>1. j \in DOMAIN todo' /\ todo'[j].id = d
            BY <1>7, <2>1
        <3> QED
            BY <1>12, <3>1 DEF Pending, InHand
    <2>3. i < j /\ i \in DOMAIN q
        BY <1>4, <1>5, <1>7, <1>12, <2>1, <2>2
    <2>4. Precedes(q[i], d)
        BY <1>2, <2>1, <2>3
    <2> QED
        BY <1>7, <1>12, <2>4
<1>13. (job \in {"failed", "range"} /\ state = "reading" =>
          \A d \in Docs : Pending(d) => AfterCursor(d) /\ \A i \in DOMAIN todo : Precedes(todo[i].id, d))'
    <2>1. \A d, e : Precedes(e, d)' <=> Precedes(e, d)
        BY <1>1 DEF Precedes
    <2>2. \A d : AfterCursor(d)' <=> AfterCursor(d)
        BY <1>1 DEF AfterCursor
    <2>3. \A d \in Docs : Pending(d)' => AfterCursor(d)' /\ \A i \in DOMAIN todo' : Precedes(todo'[i].id, d)
        BY <1>11, <1>12, <2>2
    <2> QED
        BY <1>1, <2>3 DEF Precedes
<1>14. (state = "closed" => todo = <<>> /\ \A d \in Docs : Pending(d) => job = "parser" /\ Tied(d))'
    <2>1. Documents = {} => todo' = <<>>
        BY <1>4, <1>5, <1>7
    <2> QED
        BY <1>1, <1>11, <2>1
<1> QED
    BY <1>1, <1>8, <1>10, <1>13, <1>14 DEF BackfillInv, ToRead

LEMMA ProduceStep == ASSUME BackfillInv, Produce PROVE BackfillInv'
<1> DEFINE h == Head(todo)
<1>1. /\ job # "parser" /\ state = "reading" /\ todo # <<>>
      /\ queueTx' = Append(queueTx, h) /\ todo' = Tail(todo)
      /\ cursor' = IF h.vaa THEN [id |-> h.id, time |-> Stamp[h.id]] ELSE cursor
      /\ UNCHANGED <<job, up, vaas, incomplete, atStart, page, work, visited, state>>
    BY DEF Produce
<1>2. todo \in Seq(Items) /\ queueTx \in Seq(Items)
    BY DEF BackfillInv, BackfillTyped
<1>3. /\ h = todo[1] /\ h \in Items /\ 1 \in DOMAIN todo /\ Tail(todo) \in Seq(Items)
      /\ \A i \in DOMAIN Tail(todo) : i + 1 \in DOMAIN todo /\ Tail(todo)[i] = todo[i + 1]
      /\ \A i \in DOMAIN todo : i = 1 \/ (i - 1 \in DOMAIN Tail(todo) /\ Tail(todo)[i - 1] = todo[i])
    BY <1>1, <1>2
<1> HIDE DEF h
<1>4. /\ Append(queueTx, h) \in Seq(Items) /\ Len(queueTx) + 1 \in DOMAIN Append(queueTx, h)
      /\ \A i \in DOMAIN queueTx : i \in DOMAIN Append(queueTx, h) /\ Append(queueTx, h)[i] = queueTx[i]
      /\ \A i \in DOMAIN Append(queueTx, h) : i \in DOMAIN queueTx \/ i = Len(queueTx) + 1
      /\ Append(queueTx, h)[Len(queueTx) + 1] = h
    BY <1>2, <1>3
<1>5. h.id \in Docs /\ h.id \in Nat /\ Stamp[h.id] \in Nat
    BY <1>3, BackfillersAssumption DEF Items
<1>6. BackfillTyped'
    BY <1>1, <1>3, <1>4, <1>5 DEF BackfillInv, BackfillTyped
<1>7. TimeRange' = TimeRange /\ InRange' = InRange
    BY <1>1 DEF TimeRange, InRange
<1>8. ToVisit'
    <2>1. \A i \in DOMAIN todo' : todo'[i].id \in atStart => todo'[i].vaa
        BY <1>1, <1>3 DEF BackfillInv, ToVisit
    <2>2. \A i \in DOMAIN queueTx' : queueTx'[i].id \in atStart => queueTx'[i].vaa
        BY <1>1, <1>3, <1>4 DEF BackfillInv, ToVisit
    <2> QED
        BY <1>1, <1>7, <2>1, <2>2 DEF BackfillInv, ToVisit
<1>9. ASSUME NEW d \in Docs, Pending(d)' PROVE Pending(d)
    <2>1. \A i \in DOMAIN todo : todo[i].id # d
        <3> SUFFICES ASSUME NEW i \in DOMAIN todo, todo[i].id = d PROVE FALSE
            OBVIOUS
        <3>1. CASE i = 1
            <4>1. queueTx'[Len(queueTx) + 1].id = d /\ Len(queueTx) + 1 \in DOMAIN queueTx'
                BY <1>1, <1>3, <1>4, <3>1
            <4> QED
                BY <1>9, <4>1 DEF Pending, InHand
        <3>2. CASE i # 1
            <4>1. i - 1 \in DOMAIN todo' /\ todo'[i - 1].id = d
                BY <1>1, <1>3, <3>2
            <4> QED
                BY <1>9, <4>1 DEF Pending, InHand
        <3> QED
            BY <3>1, <3>2
    <2>2. \A i \in DOMAIN queueTx : queueTx[i].id # d
        BY <1>1, <1>4, <1>9 DEF Pending, InHand
    <2> QED
        BY <1>1, <1>9, <2>1, <2>2 DEF Pending, InHand
<1>10. ASSUME NEW d \in Docs, Pending(d)', job \in {"failed", "range"}
       PROVE  AfterCursor(d)' /\ \A i \in DOMAIN todo' : Precedes(todo'[i].id, d)
    <2>1. AfterCursor(d) /\ \A i \in DOMAIN todo : Precedes(todo[i].id, d)
        BY <1>1, <1>9, <1>10 DEF BackfillInv, ToRead
    <2>2. Precedes(h.id, d)
        BY <1>3, <2>1
    <2>3. Stamp[d] \in Nat /\ d \in Nat
        BY BackfillersAssumption
    <2>4. AfterCursor(d)'
        <3>1. CASE h.vaa
            <4>1. cursor'.id = h.id /\ cursor'.time = Stamp[h.id]
                BY <1>1, <3>1
            <4> QED
                BY <1>1, <1>5, <2>2, <2>3, <4>1 DEF AfterCursor, Precedes
        <3>2. CASE ~h.vaa
            BY <1>1, <2>1, <3>2 DEF AfterCursor
        <3> QED
            BY <3>1, <3>2
    <2> QED
        BY <1>1, <1>3, <2>1, <2>4
<1>11. (job \in {"failed", "range"} /\ state = "reading" =>
          \A d \in Docs : Pending(d) => AfterCursor(d) /\ \A i \in DOMAIN todo : Precedes(todo[i].id, d))'
    BY <1>1, <1>10 DEF Precedes
<1> QED
    BY <1>1, <1>6, <1>8, <1>11 DEF BackfillInv, ToRead

LEMMA ConsumeStep == ASSUME BackfillInv, NEW w \in Workers, Consume(w) PROVE BackfillInv'
<1> DEFINE h == Head(queueTx)
<1>1. /\ work[w] = Nothing /\ queueTx # <<>> /\ queueTx' = Tail(queueTx)
      /\ work' = IF h.vaa /\ h.id \notin Hashless THEN [work EXCEPT ![w] = h] ELSE work
      /\ UNCHANGED <<job, up, vaas, incomplete, atStart, page, todo, cursor, visited, state>>
    BY DEF Consume
<1>2. queueTx \in Seq(Items) /\ work \in [Workers -> Items \union {Nothing}]
    BY DEF BackfillInv, BackfillTyped
<1>3. /\ h = queueTx[1] /\ h \in Items /\ 1 \in DOMAIN queueTx /\ Tail(queueTx) \in Seq(Items)
      /\ \A i \in DOMAIN Tail(queueTx) : i + 1 \in DOMAIN queueTx /\ Tail(queueTx)[i] = queueTx[i + 1]
      /\ \A i \in DOMAIN queueTx : i = 1 \/ (i - 1 \in DOMAIN Tail(queueTx) /\ Tail(queueTx)[i - 1] = queueTx[i])
    BY <1>1, <1>2
<1> HIDE DEF h
<1>4. BackfillTyped'
    BY <1>1, <1>2, <1>3 DEF BackfillInv, BackfillTyped
<1>5. TimeRange' = TimeRange /\ InRange' = InRange
    BY <1>1 DEF TimeRange, InRange
<1>6. job # "parser"
    BY <1>1 DEF BackfillInv, ToVisit
<1>7. ToVisit'
    BY <1>1, <1>3, <1>5, <1>6 DEF BackfillInv, ToVisit
<1>8. ASSUME NEW d \in Docs, Pending(d)' PROVE Pending(d)
    <2>1. d \in atStart \ visited /\ \A i \in DOMAIN todo : todo[i].id # d
        BY <1>1, <1>8 DEF Pending, InHand
    <2>2. \A i \in DOMAIN queueTx : queueTx[i].id # d
        <3> SUFFICES ASSUME NEW i \in DOMAIN queueTx, queueTx[i].id = d PROVE FALSE
            OBVIOUS
        <3>1. CASE i = 1
            <4>1. h.vaa /\ h.id \notin Hashless /\ h.id = d
                BY <1>3, <1>6, <2>1, <3>1 DEF BackfillInv, ToVisit
            <4>2. work'[w].id = d
                BY <1>1, <1>2, <4>1
            <4> QED
                BY <1>8, <4>2 DEF Pending, InHand
        <3>2. CASE i # 1
            <4>1. i - 1 \in DOMAIN queueTx' /\ queueTx'[i - 1].id = d
                BY <1>1, <1>3, <3>2
            <4> QED
                BY <1>8, <4>1 DEF Pending, InHand
        <3> QED
            BY <3>1, <3>2
    <2>3. \A z \in Workers : work[z].id # d
        <3> SUFFICES ASSUME NEW z \in Workers, work[z].id = d PROVE FALSE
            OBVIOUS
        <3>1. z # w
            BY <1>1, BackfillersAssumption DEF Nothing
        <3>2. work'[z] = work[z]
            BY <1>1, <1>2, <3>1
        <3> QED
            BY <1>8, <3>2 DEF Pending, InHand
    <2> QED
        BY <2>1, <2>2, <2>3 DEF Pending, InHand
<1>9. (job \in {"failed", "range"} /\ state = "reading" =>
          \A d \in Docs : Pending(d) => AfterCursor(d) /\ \A i \in DOMAIN todo : Precedes(todo[i].id, d))'
    BY <1>1, <1>8 DEF BackfillInv, ToRead, AfterCursor, Precedes
<1>10. (state = "closed" => todo = <<>> /\ \A d \in Docs : Pending(d) => job = "parser" /\ Tied(d))'
    BY <1>1, <1>8 DEF BackfillInv, ToRead, Tied
<1> QED
    BY <1>1, <1>4, <1>6, <1>7, <1>9, <1>10 DEF BackfillInv, ToRead

LEMMA TrackStep == ASSUME BackfillInv, NEW w \in Workers, Track(w) PROVE BackfillInv'
<1>1. /\ work[w] # Nothing /\ visited' = visited \union {work[w].id}
      /\ incomplete' = incomplete \/ incomplete' = incomplete \ {work[w].id}
      /\ work' = [work EXCEPT ![w] = Nothing]
      /\ UNCHANGED <<job, up, vaas, atStart, page, todo, cursor, queueTx, state>>
    BY DEF Track
<1>2. work \in [Workers -> Items \union {Nothing}] /\ work[w].id \in Docs
    BY <1>1 DEF BackfillInv, BackfillTyped, Items
<1>3. BackfillTyped'
    BY <1>1, <1>2 DEF BackfillInv, BackfillTyped
<1>4. TimeRange' = TimeRange /\ InRange' = InRange
    BY <1>1 DEF TimeRange, InRange
<1>5. ToVisit'
    BY <1>1, <1>4 DEF BackfillInv, ToVisit
<1>6. ASSUME NEW d \in Docs, Pending(d)' PROVE Pending(d)
    <2>1. d # work[w].id
        BY <1>1, <1>6 DEF Pending
    <2>2. \A z \in Workers : work[z].id # d
        BY <1>1, <1>2, <1>6, <2>1 DEF Pending, InHand
    <2> QED
        BY <1>1, <1>6, <2>2 DEF Pending, InHand
<1>7. \A d : SoonerThan(d)' = SoonerThan(d)
    BY <1>1, <1>4 DEF SoonerThan, Sooner
<1>8. (job = "parser" /\ state = "reading" =>
          \A d \in Docs : Pending(d) /\ ~Tied(d) => Cardinality(SoonerThan(d)) >= page * PageSize)'
    BY <1>1, <1>6, <1>7 DEF BackfillInv, ToRead, Tied
<1>9. (job \in {"failed", "range"} /\ state = "reading" =>
          \A d \in Docs : Pending(d) => AfterCursor(d) /\ \A i \in DOMAIN todo : Precedes(todo[i].id, d))'
    BY <1>1, <1>6 DEF BackfillInv, ToRead, AfterCursor, Precedes
<1>10. (state = "closed" => todo = <<>> /\ \A d \in Docs : Pending(d) => job = "parser" /\ Tied(d))'
    BY <1>1, <1>6 DEF BackfillInv, ToRead, Tied
<1> QED
    BY <1>3, <1>5, <1>8, <1>9, <1>10 DEF BackfillInv, ToRead

LEMMA BackfillInvStep == ASSUME BackfillInv, [BackfillNext]_backfillVars PROVE BackfillInv'
<1>1. CASE UNCHANGED backfillVars
    <2>1. UNCHANGED <<job, up, vaas, incomplete, atStart, page, todo, cursor, queueTx, work, visited, state>>
        BY <1>1 DEF backfillVars
    <2>2. TimeRange' = TimeRange /\ InRange' = InRange
        BY <2>1 DEF TimeRange, InRange
    <2>3. \A d : SoonerThan(d)' = SoonerThan(d) /\ (Pending(d)' <=> Pending(d))
                 /\ (AfterCursor(d)' <=> AfterCursor(d)) /\ (Tied(d)' <=> Tied(d))
        BY <2>1, <2>2 DEF SoonerThan, Sooner, Pending, InHand, AfterCursor, Tied
    <2>4. BackfillTyped' /\ ToVisit'
        BY <2>1, <2>2 DEF BackfillInv, BackfillTyped, ToVisit
    <2>5. ToRead'
        BY <2>1, <2>3 DEF BackfillInv, ToRead, Precedes
    <2> QED
        BY <2>4, <2>5 DEF BackfillInv
<1>2. CASE Break
    <2>1. /\ todo' = <<>> /\ queueTx' = <<>> /\ work' = [w \in Workers |-> Nothing] /\ state' = "broken"
          /\ UNCHANGED <<job, up, vaas, incomplete, atStart, page, cursor, visited>>
        BY <1>2 DEF Break
    <2>2. TimeRange' = TimeRange /\ InRange' = InRange
        BY <2>1 DEF TimeRange, InRange
    <2>3. BackfillTyped' /\ ToVisit'
        BY <2>1, <2>2 DEF BackfillInv, BackfillTyped, ToVisit
    <2> QED
        BY <2>1, <2>3 DEF BackfillInv, ToRead
<1> QED
    BY <1>1, <1>2, StoreStep, FindPageStep, ProcessVaaStep, IterateStep, ProduceStep, ConsumeStep, TrackStep
    DEF BackfillNext, BackfillStep

LEMMA BackfillInvSafe == BackfillInv => NothingPassedOver
<1> SUFFICES ASSUME BackfillInv, Finished, state = "closed", NEW d \in atStart, d \notin visited
             PROVE  job = "parser" /\ Tied(d)
    BY DEF NothingPassedOver
<1>1. d \in Docs /\ d # 0
    BY BackfillersAssumption DEF BackfillInv, BackfillTyped, ToVisit
<1>2. todo = <<>> /\ (Pending(d) => job = "parser" /\ Tied(d))
    BY <1>1 DEF BackfillInv, ToRead
<1>3. ~InHand(d)
    BY <1>1, <1>2 DEF InHand, Finished, Nothing
<1> QED
    BY <1>2, <1>3 DEF Pending

\* A message leaves a queue only when its VAA was handled or needs no handling,
\* whatever is received twice, times out or crashes; and a backfill that has read to
\* the end has passed over nothing that was there when it started, whatever is stored
\* meanwhile, with any size of page and number of workers, except documents of parser
\* that share their timestamp (the consumers and the backfillers of parser, analytics
\* and tx-tracker).
THEOREM NothingEverLost == ServicesSpec => []NothingLost
<1>1. ServicesInit => ConsumersInv /\ BackfillInv
    BY ConsumersInitInv, BackfillInitInv DEF ServicesInit
<1>2. ConsumersInv /\ BackfillInv /\ [ServicesNext]_servicesVars => (ConsumersInv /\ BackfillInv)'
    BY OnePart, ConsumersStep, BackfillInvStep
<1>3. ConsumersInv /\ BackfillInv => NothingLost
    BY ConsumersInvSafe, BackfillInvSafe DEF NothingLost
<1> QED
    BY <1>1, <1>2, <1>3, PTL DEF ServicesSpec

------------------------------------------------------------------------------
(* The nodes of the chains.                                                 *)

\* A fetch that is not done has no outcome; its second call is for the packet of
\* the transaction.
FetchRight(f) ==
    /\ DOMAIN f = {"tx", "call", "at", "packet", "out", "origin", "from", "said"}
    /\ f.tx \in Asked /\ f.call \in {1, 2}
    /\ f.at \in {"fetch", "wait", "call", "done"}
    /\ f.at # "done" => f.out = "none" /\ f.origin = NoOrigin
    /\ f.at # "done" /\ f.call = 2 /\ ChainOf[f.tx] = "wormchain" =>
          f.packet = WormchainDetail(Received[f.tx]) /\ Relayer(f.packet) # "none"
    /\ f.at # "done" /\ f.call = 2 /\ ChainOf[f.tx] = "sei" =>
          f.packet = WormchainDetail(Received[f.tx])

\* Where the origin of a detail comes from.
OriginFrom(f, p) ==
    \E s \in Sent :
        /\ s.id = p.id /\ s.src = p.src /\ s.dst = p.dst
        /\ s.tx = f.origin.hash /\ s.chain = f.origin.chain /\ f.from = p.data
        /\ f.origin.address = IF ChainOf[f.tx] = "sei" THEN s.sender ELSE p.data

OriginRight(f) ==
    /\ f.origin # NoOrigin => OriginFrom(f, WormchainDetail(Received[f.tx]))
    /\ f.out = "detail" /\ ChainOf[f.tx] = "wormchain" /\ f.origin = NoOrigin =>
          Relayer(WormchainDetail(Received[f.tx])) = "none"
    /\ f.out = "notfound" => f.said = "absent"

ChainInv ==
    /\ DOMAIN fetch = Fetchers
    /\ \A w \in Fetchers : FetchRight(fetch[w]) /\ OriginRight(fetch[w])
    /\ \A l \in DOMAIN limiter :
          /\ DOMAIN limiter[l] = {"tick", "passed"} /\ limiter[l].passed \in {0, 1}
          /\ limiter[l].tick => limiter[l].passed = 0

\* Of events that have all attributes the last one is looked up.
LEMMA LastEvent ==
    ASSUME NEW t \in Asked, Whole(t), Received[t] # <<>>
    PROVE  /\ Len(Received[t]) \in DOMAIN Received[t]
           /\ \A a \in Attributes : WormchainDetail(Received[t])[a] = Received[t][Len(Received[t])][a]
<1> DEFINE received == Received[t]
           n == Len(received)
<1>1. received \in Seq({received[i] : i \in DOMAIN received})
    BY ChainTxAssumption
<1>2. n \in Nat /\ DOMAIN received = 1..n /\ n # 0
    BY <1>1
<1>3. n \in DOMAIN received
    BY <1>2
<1>4. ASSUME NEW a \in Attributes PROVE WormchainDetail(received)[a] = received[n][a]
    <2> DEFINE having == {i \in DOMAIN received : a \in DOMAIN received[i]}
    <2>1. having = 1..n
        BY <1>2, <1>4 DEF Whole
    <2>2. n \in having /\ \A j \in having : j <= n
        BY <2>1, <1>2
    <2>3. \A i \in having : (\A j \in having : j <= i) => i = n
        BY <2>1, <2>2, <1>2
    <2>4. (CHOOSE i \in having : \A j \in having : j <= i) = n
        BY <2>2, <2>3
    <2>5. WormchainDetail(received)[a] = IF having = {} THEN "none"
             ELSE received[CHOOSE i \in having : \A j \in having : j <= i][a]
        BY DEF WormchainDetail
    <2> QED
        BY <2>2, <2>4, <2>5
<1> QED
    BY <1>3, <1>4

LEMMA NoEvent ==
    ASSUME NEW t \in Asked, Received[t] = <<>>
    PROVE  \A a \in Attributes : WormchainDetail(Received[t])[a] = "none"
BY DEF WormchainDetail

LEMMA ChainInvRight == ChainInv => FetchesRight
<1> SUFFICES ASSUME ChainInv PROVE FetchesRight
    OBVIOUS
<1>1. OneOrigin
    <2> SUFFICES ASSUME NEW w \in Fetchers, fetch[w].origin # NoOrigin, Whole(fetch[w].tx)
                 PROVE  \E i \in DOMAIN Received[fetch[w].tx], s \in Sent :
                            LET e == Received[fetch[w].tx][i]
                            IN  /\ SamePacket(s, e) /\ s.tx = fetch[w].origin.hash
                                /\ s.chain = fetch[w].origin.chain
                                /\ fetch[w].from = e.data
                                /\ fetch[w].origin.address = IF Chain(w) = "sei" THEN s.sender ELSE e.data
        BY DEF OneOrigin
    <2> DEFINE received == Received[fetch[w].tx]
               p == WormchainDetail(received)
    <2>1. fetch[w].tx \in Asked /\ OriginFrom(fetch[w], p)
        BY DEF ChainInv, FetchRight, OriginRight
    <2>2. PICK s \in Sent :
             /\ s.id = p["id"] /\ s.src = p["src"] /\ s.dst = p["dst"]
             /\ s.tx = fetch[w].origin.hash /\ s.chain = fetch[w].origin.chain
             /\ fetch[w].from = p["data"]
             /\ fetch[w].origin.address = IF Chain(w) = "sei" THEN s.sender ELSE p["data"]
        BY <2>1 DEF OriginFrom, Chain
    <2>3. received # <<>>
        BY <2>1, <2>2, NoEvent, ChainTxAssumption DEF Attributes
    <2>4. /\ Len(received) \in DOMAIN received
          /\ \A a \in Attributes : p[a] = received[Len(received)][a]
        BY <2>1, <2>3, LastEvent
    <2>5. /\ p["id"] = received[Len(received)].id /\ p["src"] = received[Len(received)].src
          /\ p["dst"] = received[Len(received)].dst /\ p["data"] = received[Len(received)].data
        BY <2>4 DEF Attributes
    <2> QED
        BY <2>2, <2>4, <2>5 DEF SamePacket
<1>2. NoOriginOnlyWithoutGateway
    <2> SUFFICES ASSUME NEW w \in Fetchers,
                        fetch[w].out = "detail", Chain(w) = "wormchain", fetch[w].origin = NoOrigin,
                        Whole(fetch[w].tx), Network = "mainnet", Received[fetch[w].tx] # <<>>,
                        NEW s \in Sent, s.chain \in Relayers,
                        SamePacket(s, Received[fetch[w].tx][Len(Received[fetch[w].tx])])
                 PROVE  FALSE
        BY DEF NoOriginOnlyWithoutGateway
    <2> DEFINE received == Received[fetch[w].tx]
               p == WormchainDetail(received)
    <2>1. fetch[w].tx \in Asked /\ Relayer(p) = "none"
        BY DEF ChainInv, FetchRight, OriginRight, Chain
    <2>2. p["src"] = received[Len(received)].src /\ p["dst"] = received[Len(received)].dst
        BY <2>1, LastEvent DEF Attributes
    <2>3. p.src = s.src /\ p.dst = s.dst
        BY <2>2 DEF SamePacket
    <2>4. Relayer(s) = Relayer(p)
        BY <2>3 DEF Relayer, IsOsmosisTx, IsKujiraTx, IsEvmosTx, Channels
    <2> QED
        BY <2>1, <2>4, ChainTxAssumption
<1>3. NotFoundTruthful
    BY DEF NotFoundTruthful, ChainInv, OriginRight
<1>4. RateKept
    BY DEF RateKept, ChainInv
<1> QED
    BY <1>1, <1>2, <1>3, <1>4 DEF FetchesRight

LEMMA ChainInitInv == ChainInit => ChainInv
<1> SUFFICES ASSUME ChainInit PROVE ChainInv
    OBVIOUS
<1> DEFINE L == UNION {LimitersOf(fetch[w].tx) : w \in Fetchers}
<1>1. DOMAIN fetch = Fetchers
    BY DEF ChainInit
<1>2. ASSUME NEW w \in Fetchers PROVE FetchRight(fetch[w]) /\ OriginRight(fetch[w])
    <2>1. PICK t \in Asked :
             fetch[w] = [tx |-> t, call |-> 1, at |-> "fetch", packet |-> NoPacket, out |-> "none",
                         origin |-> NoOrigin, from |-> "none", said |-> "none"]
        BY DEF ChainInit
    <2>2. /\ fetch[w].tx = t /\ fetch[w].call = 1 /\ fetch[w].at = "fetch"
          /\ fetch[w].out = "none" /\ fetch[w].origin = NoOrigin
          /\ DOMAIN fetch[w] = {"tx", "call", "at", "packet", "out", "origin", "from", "said"}
        BY <2>1
    <2> QED
        BY <2>2 DEF FetchRight, OriginRight
<1>3. limiter = [l \in L |-> [tick |-> FALSE, passed |-> 0]]
    BY DEF ChainInit
<1>4. ASSUME NEW l \in DOMAIN limiter
      PROVE  limiter[l].passed = 0 /\ DOMAIN limiter[l] = {"tick", "passed"}
    <2> HIDE DEF L
    <2> QED
        BY <1>3
<1> QED
    BY <1>1, <1>2, <1>4 DEF ChainInv

\* What a step does to the fetches: to one of them at most, to which it does
\* what is right.
FetchStep(w, f) == w \in Fetchers /\ fetch' = [fetch EXCEPT ![w] = f] /\ FetchRight(f) /\ OriginRight(f)

LEMMA StepRight ==
    ASSUME ChainInv, NEW w, NEW f, FetchStep(w, f)
    PROVE  DOMAIN fetch' = Fetchers /\ \A v \in Fetchers : FetchRight(fetch'[v]) /\ OriginRight(fetch'[v])
<1>1. DOMAIN fetch = Fetchers
    BY DEF ChainInv
<1>2. DOMAIN fetch' = Fetchers /\ fetch'[w] = f /\ \A v \in Fetchers : v # w => fetch'[v] = fetch[v]
    BY <1>1 DEF FetchStep
<1>3. FetchRight(fetch'[w]) /\ OriginRight(fetch'[w])
    BY <1>2 DEF FetchStep
<1>4. ASSUME NEW v \in Fetchers, v # w PROVE FetchRight(fetch'[v]) /\ OriginRight(fetch'[v])
    BY <1>2, <1>4 DEF ChainInv
<1> QED
    BY <1>2, <1>3, <1>4

LEMMA FailFetchStep ==
    ASSUME ChainInv, NEW w \in Fetchers, fetch[w].at # "done", NEW why \in {"error", "unsupported"},
           FailFetch(w, why)
    PROVE  \E f : FetchStep(w, f)
<1> DEFINE f == [fetch[w] EXCEPT !.at = "done", !.out = why]
<1>1. fetch' = [fetch EXCEPT ![w] = f]
    BY DEF FailFetch
<1>2. /\ f.at = "done" /\ f.out = why /\ f.tx = fetch[w].tx /\ f.call = fetch[w].call
      /\ f.origin = fetch[w].origin /\ DOMAIN f = DOMAIN fetch[w]
    BY DEF ChainInv, FetchRight
<1>3. FetchRight(fetch[w])
    BY DEF ChainInv
<1> HIDE DEF f
<1>4. FetchRight(f) /\ OriginRight(f)
    BY <1>2, <1>3 DEF FetchRight, OriginRight
<1> QED
    BY <1>1, <1>4 DEF FetchStep

LEMMA NotThereStep ==
    ASSUME ChainInv, NEW w \in Fetchers, fetch[w].at # "done", NEW why \in {"error", "notfound"},
           NotThere(w, why)
    PROVE  \E f : FetchStep(w, f)
<1> DEFINE f == [fetch[w] EXCEPT !.at = "done", !.said = "absent", !.out = why]
<1>1. fetch' = [fetch EXCEPT ![w] = f]
    BY DEF NotThere
<1>2. /\ f.at = "done" /\ f.out = why /\ f.said = "absent" /\ f.tx = fetch[w].tx
      /\ f.call = fetch[w].call /\ f.origin = fetch[w].origin /\ DOMAIN f = DOMAIN fetch[w]
    BY DEF ChainInv, FetchRight
<1>3. FetchRight(fetch[w])
    BY DEF ChainInv
<1> HIDE DEF f
<1>4. FetchRight(f) /\ OriginRight(f)
    BY <1>2, <1>3 DEF FetchRight, OriginRight
<1> QED
    BY <1>1, <1>4 DEF FetchStep

\* A fetch that ends with a detail: without an origin unless it went through
\* wormchain, there only if no relayer sent the packet.
LEMMA SucceedStep ==
    ASSUME ChainInv, NEW w \in Fetchers, fetch[w].at # "done", NEW sender, NEW origin,
           Succeed(w, sender, origin),
           \/ /\ origin = NoOrigin
              /\ Chain(w) # "wormchain" \/ Relayer(WormchainDetail(Received[fetch[w].tx])) = "none"
           \/ /\ origin # NoOrigin
              /\ \A f : f.origin = origin /\ f.from = sender /\ f.tx = fetch[w].tx =>
                    OriginFrom(f, WormchainDetail(Received[fetch[w].tx]))
    PROVE  \E f : FetchStep(w, f)
<1> DEFINE f == [fetch[w] EXCEPT !.at = "done", !.out = "detail", !.from = sender, !.origin = origin]
<1>1. fetch' = [fetch EXCEPT ![w] = f]
    BY DEF Succeed
<1>2. /\ f.at = "done" /\ f.out = "detail" /\ f.from = sender /\ f.origin = origin
      /\ f.tx = fetch[w].tx /\ f.call = fetch[w].call /\ DOMAIN f = DOMAIN fetch[w]
    BY DEF ChainInv, FetchRight
<1>3. FetchRight(fetch[w])
    BY DEF ChainInv
<1> HIDE DEF f
<1>4. FetchRight(f)
    BY <1>2, <1>3 DEF FetchRight
<1>5. OriginRight(f)
    <2>1. CASE origin = NoOrigin
        BY <1>2, <2>1 DEF OriginRight, Chain
    <2>2. CASE origin # NoOrigin
        BY <1>2, <2>2 DEF OriginRight
    <2> QED
        BY <2>1, <2>2
<1> QED
    BY <1>1, <1>4, <1>5 DEF FetchStep

\* A fetch that goes on, to its second call with the packet it needs.
LEMMA AskForStep ==
    ASSUME ChainInv, NEW w \in Fetchers, fetch[w].at # "done", NEW packet, AskFor(w, packet),
           Chain(w) = "wormchain" =>
              packet = WormchainDetail(Received[fetch[w].tx]) /\ Relayer(packet) # "none",
           Chain(w) = "sei" => packet = WormchainDetail(Received[fetch[w].tx])
    PROVE  \E f : FetchStep(w, f)
<1> DEFINE f == [fetch[w] EXCEPT !.at = "wait", !.call = 2, !.packet = packet]
<1>1. fetch' = [fetch EXCEPT ![w] = f]
    BY DEF AskFor
<1>2. /\ f.at = "wait" /\ f.call = 2 /\ f.packet = packet /\ f.tx = fetch[w].tx
      /\ f.out = fetch[w].out /\ f.origin = fetch[w].origin /\ DOMAIN f = DOMAIN fetch[w]
    BY DEF ChainInv, FetchRight
<1>3. FetchRight(fetch[w])
    BY DEF ChainInv
<1> HIDE DEF f
<1>4. FetchRight(f) /\ OriginRight(f)
    BY <1>2, <1>3 DEF FetchRight, OriginRight, Chain
<1> QED
    BY <1>1, <1>4 DEF FetchStep

\* The next thing a fetch waits for or does.
LEMMA GoOnStep ==
    ASSUME ChainInv, NEW w \in Fetchers, fetch[w].at # "done", NEW at \in {"wait", "call"},
           fetch' = [fetch EXCEPT ![w].at = at]
    PROVE  \E f : FetchStep(w, f)
<1> DEFINE f == [fetch[w] EXCEPT !.at = at]
<1>1. fetch' = [fetch EXCEPT ![w] = f]
    OBVIOUS
<1>2. /\ f.at = at /\ f.call = fetch[w].call /\ f.packet = fetch[w].packet /\ f.tx = fetch[w].tx
      /\ f.out = fetch[w].out /\ f.origin = fetch[w].origin /\ DOMAIN f = DOMAIN fetch[w]
    BY DEF ChainInv, FetchRight
<1>3. FetchRight(fetch[w])
    BY DEF ChainInv
<1> HIDE DEF f
<1>4. FetchRight(f) /\ OriginRight(f)
    BY <1>2, <1>3 DEF FetchRight, OriginRight
<1> QED
    BY <1>1, <1>4 DEF FetchStep

\* What a detail of wormchain or sei says of the origin is in the packet.
LEMMA SearchStep ==
    ASSUME ChainInv, NEW w \in Fetchers, fetch[w].at # "done", NEW chain, SearchOrigin(w, chain),
           fetch[w].packet = WormchainDetail(Received[fetch[w].tx]),
           chain # "none", (chain = "sei") = (Chain(w) = "sei")
    PROVE  \E f : FetchStep(w, f)
<1> DEFINE p == WormchainDetail(Received[fetch[w].tx])
<1>1. ASSUME NEW s \in TxSearch(chain, p),
             Succeed(w, p.data, [chain |-> chain, hash |-> s.tx,
                                 address |-> IF chain = "sei" THEN s.sender ELSE p.data])
      PROVE  \E f : FetchStep(w, f)
    <2> DEFINE o == [chain |-> chain, hash |-> s.tx,
                     address |-> IF chain = "sei" THEN s.sender ELSE p.data]
    <2>1. /\ o.chain = chain /\ o.hash = s.tx
          /\ o.address = IF Chain(w) = "sei" THEN s.sender ELSE p.data
        OBVIOUS
    <2>2. NoOrigin.chain = "none"
        BY DEF NoOrigin
    <2>3. o # NoOrigin
        BY <2>1, <2>2
    <2>4. s \in Sent /\ s.chain = chain /\ s.id = p.id /\ s.src = p.src /\ s.dst = p.dst
        BY DEF TxSearch
    <2> HIDE DEF o
    <2>5. ASSUME NEW f, f.origin = o, f.from = p.data, f.tx = fetch[w].tx
          PROVE  OriginFrom(f, p)
        BY <2>1, <2>4, <2>5 DEF OriginFrom, Chain
    <2>6. Succeed(w, p.data, o)
        BY <1>1 DEF o
    <2> QED
        BY <2>3, <2>5, <2>6, SucceedStep
<1>2. CASE FailFetch(w, "error")
    BY <1>2, FailFetchStep
<1> QED
    BY <1>1, <1>2 DEF SearchOrigin

\* A call of the fetcher of one chain.
LEMMA CallStep ==
    ASSUME ChainInv, NEW w \in Fetchers,
           \/ FetchAlgorandTx(w) \/ FetchSuiTx(w) \/ FetchEthTx(w) \/ FetchCosmosTx(w)
           \/ FetchSolanaTx(w) \/ FetchAptosTx(w) \/ FetchWormchainTx(w) \/ FetchSeiTx(w)
    PROVE  UNCHANGED limiter /\ \E f : FetchStep(w, f)
<1> DEFINE Plain == Chain(w) # "wormchain" /\ Chain(w) # "sei"
           Calling == fetch[w].at = "call"
<1>1. ASSUME Plain, Calling,
             \/ Found(w) \/ NotThere(w, "error") \/ NotThere(w, "notfound") \/ FailFetch(w, "error")
             \/ AskFor(w, NoPacket)
      PROVE  \E f : FetchStep(w, f)
    BY <1>1, SucceedStep, NotThereStep, FailFetchStep, AskForStep DEF Found
<1>2. ASSUME FetchAlgorandTx(w) \/ FetchSuiTx(w) \/ FetchEthTx(w)
      PROVE  Plain /\ Calling /\ UNCHANGED limiter /\ (Found(w) \/ NotThere(w, "error") \/ NotThere(w, "notfound"))
    BY <1>2 DEF FetchAlgorandTx, FetchSuiTx, FetchEthTx, Call, Called
<1>3. ASSUME FetchCosmosTx(w) \/ FetchSolanaTx(w) \/ FetchAptosTx(w)
      PROVE  /\ Plain /\ Calling /\ UNCHANGED limiter
             /\ \/ Found(w) \/ NotThere(w, "notfound") \/ FailFetch(w, "error")
                \/ AskFor(w, NoPacket)
    BY <1>3 DEF FetchCosmosTx, FetchSolanaTx, FetchAptosTx, Call, Called
<1>4. CASE FetchWormchainTx(w)
    <2> DEFINE p == WormchainDetail(Received[fetch[w].tx])
    <2>1. Calling /\ Chain(w) = "wormchain" /\ UNCHANGED limiter
        BY <1>4 DEF FetchWormchainTx, Call, Called
    <2>2. \/ NotThere(w, "error")
          \/ Relayer(p) = "none" /\ Succeed(w, p.data, NoOrigin)
          \/ Relayer(p) # "none" /\ AskFor(w, p)
          \/ fetch[w].call = 2 /\ SearchOrigin(w, Relayer(fetch[w].packet))
        BY <1>4 DEF FetchWormchainTx, Call, Called
    <2>3. CASE NotThere(w, "error")
        BY <2>1, <2>3, NotThereStep
    <2>4. CASE Relayer(p) = "none" /\ Succeed(w, p.data, NoOrigin)
        BY <2>1, <2>4, SucceedStep
    <2>5. CASE Relayer(p) # "none" /\ AskFor(w, p)
        BY <2>1, <2>5, AskForStep
    <2>6. CASE fetch[w].call = 2 /\ SearchOrigin(w, Relayer(fetch[w].packet))
        <3>1. fetch[w].packet = p /\ Relayer(p) # "none"
            BY <2>1, <2>6 DEF ChainInv, FetchRight, Chain
        <3>2. Relayer(p) # "sei"
            BY DEF Relayer
        <3> QED
            BY <2>1, <2>6, <3>1, <3>2, SearchStep
    <2> QED
        BY <2>1, <2>2, <2>3, <2>4, <2>5, <2>6
<1>5. CASE FetchSeiTx(w)
    <2> DEFINE p == WormchainDetail(Received[fetch[w].tx])
    <2>1. Calling /\ Chain(w) = "sei" /\ UNCHANGED limiter
        BY <1>5 DEF FetchSeiTx, Call, Called
    <2>2. \/ NotThere(w, "error") \/ AskFor(w, p)
          \/ fetch[w].call = 2 /\ SearchOrigin(w, "sei")
        BY <1>5 DEF FetchSeiTx, Call, Called
    <2>3. CASE NotThere(w, "error")
        BY <2>1, <2>3, NotThereStep
    <2>4. CASE AskFor(w, p)
        BY <2>1, <2>4, AskForStep
    <2>5. CASE fetch[w].call = 2 /\ SearchOrigin(w, "sei")
        <3>1. fetch[w].packet = p
            BY <2>1, <2>5 DEF ChainInv, FetchRight, Chain
        <3> QED
            BY <2>1, <2>5, <3>1, SearchStep
    <2> QED
        BY <2>1, <2>2, <2>3, <2>4, <2>5
<1> QED
    BY <1>1, <1>2, <1>3, <1>4, <1>5

LEMMA ChainStepRight == ASSUME ChainInv, [ChainNext]_chainVars PROVE ChainInv'
<1>1. CASE UNCHANGED chainVars
    BY <1>1 DEF chainVars, ChainInv, FetchRight, OriginRight, OriginFrom
<1>2. ASSUME UNCHANGED limiter, NEW w \in Fetchers, \E f : FetchStep(w, f) PROVE ChainInv'
    <2>1. DOMAIN fetch' = Fetchers /\ \A v \in Fetchers : FetchRight(fetch'[v]) /\ OriginRight(fetch'[v])
        BY <1>2, StepRight
    <2> QED
        BY <1>2, <2>1 DEF ChainInv, FetchRight, OriginRight, OriginFrom
<1>3. CASE CancelFetches
    BY <1>3 DEF CancelFetches, ChainInv, FetchRight, OriginRight, OriginFrom
<1>4. ASSUME NEW l \in DOMAIN limiter, LimiterTicks(l) PROVE ChainInv'
    <2>1. /\ limiter' = [limiter EXCEPT ![l] = [tick |-> TRUE, passed |-> 0]] /\ UNCHANGED fetch
        BY <1>4 DEF LimiterTicks
    <2>2. \A k \in DOMAIN limiter' : limiter'[k] = IF k = l THEN [tick |-> TRUE, passed |-> 0] ELSE limiter[k]
        BY <2>1
    <2>3. DOMAIN limiter' = DOMAIN limiter
        BY <2>1
    <2> QED
        BY <2>1, <2>2, <2>3 DEF ChainInv, FetchRight, OriginRight, OriginFrom
<1>5. ASSUME NEW w \in Fetchers, FetchTx(w) PROVE ChainInv'
    <2>1. UNCHANGED limiter /\ fetch[w].at = "fetch"
        BY <1>5 DEF FetchTx
    <2>2. \/ fetch' = [fetch EXCEPT ![w].at = "wait"]
          \/ FailFetch(w, "error") \/ FailFetch(w, "unsupported")
        BY <1>5 DEF FetchTx
    <2>3. \E f : FetchStep(w, f)
        BY <2>1, <2>2, GoOnStep, FailFetchStep
    <2> QED
        BY <2>1, <2>3, <1>2
<1>6. ASSUME NEW w \in Fetchers, CallFails(w) PROVE ChainInv'
    <2>1. UNCHANGED limiter /\ fetch[w].at = "call" /\ FailFetch(w, "error")
        BY <1>6 DEF CallFails
    <2> QED
        BY <2>1, <1>2, FailFetchStep
<1>7. ASSUME NEW w \in Fetchers, WaitForRateLimiter(w) PROVE ChainInv'
    <2> DEFINE l == LimiterOf(Chain(w), fetch[w].call)
    <2>1. fetch[w].at = "wait"
        BY <1>7 DEF WaitForRateLimiter
    <2>2. CASE /\ limiter[l].tick /\ limiter' = [limiter EXCEPT ![l] = Taken(l)]
               /\ fetch' = [fetch EXCEPT ![w].at = "call"]
        <3>1. \E f : FetchStep(w, f)
            BY <2>1, <2>2, GoOnStep
        <3>2. DOMAIN fetch' = Fetchers /\ \A v \in Fetchers : FetchRight(fetch'[v]) /\ OriginRight(fetch'[v])
            BY <3>1, StepRight
        <3>3. DOMAIN limiter' = DOMAIN limiter
            BY <2>2
        <3> HIDE DEF l
        <3>4. ASSUME NEW k \in DOMAIN limiter
              PROVE  /\ DOMAIN limiter'[k] = {"tick", "passed"} /\ limiter'[k].passed \in {0, 1}
                     /\ limiter'[k].tick => limiter'[k].passed = 0
            <4>1. CASE k = l
                <5>1. limiter'[k] = Taken(l)
                    BY <2>2, <4>1
                <5>2. limiter[l].passed = 0 /\ DOMAIN limiter[l] = {"tick", "passed"}
                    BY <2>2, <4>1 DEF ChainInv
                <5>3. /\ DOMAIN Taken(l) = {"tick", "passed"} /\ Taken(l).passed = 1 /\ ~Taken(l).tick
                    BY <5>2 DEF Taken
                <5> QED
                    BY <5>1, <5>3
            <4>2. CASE k # l
                <5>1. limiter'[k] = limiter[k]
                    BY <2>2, <4>2
                <5> QED
                    BY <5>1 DEF ChainInv
            <4> QED
                BY <4>1, <4>2
        <3> QED
            BY <3>2, <3>3, <3>4 DEF ChainInv, FetchRight, OriginRight, OriginFrom
    <2>3. CASE FailFetch(w, "error") /\ UNCHANGED limiter
        BY <2>1, <2>3, <1>2, FailFetchStep
    <2> QED
        BY <1>7, <2>2, <2>3 DEF WaitForRateLimiter
<1>8. ASSUME NEW w \in Fetchers,
             \/ FetchAlgorandTx(w) \/ FetchSuiTx(w) \/ FetchEthTx(w) \/ FetchCosmosTx(w)
             \/ FetchSolanaTx(w) \/ FetchAptosTx(w) \/ FetchWormchainTx(w) \/ FetchSeiTx(w)
      PROVE  ChainInv'
    BY <1>2, <1>8, CallStep
<1> QED
    BY <1>1, <1>3, <1>4, <1>5, <1>6, <1>7, <1>8 DEF ChainNext, ChainStep, Fetch

\* What is read from the nodes: an origin is that of a packet that was received,
\* and only a gateway transfer that no relayer sent is stored without one; what
\* is reported missing is missing, and no limiter lets two calls pass
\* (chains.go and api_wormchain.go of tx-tracker).
THEOREM FetchesStayRight == ServicesSpec => []FetchesRight
<1>1. ServicesInit => ChainInv
    BY ChainInitInv DEF ServicesInit
<1>2. ChainInv /\ [ServicesNext]_servicesVars => ChainInv'
    BY OnePart, ChainStepRight
<1> QED
    BY <1>1, <1>2, ChainInvRight, PTL DEF ServicesSpec

------------------------------------------------------------------------------
(* The cache of the api.                                                    *)

\* What is held was read at most a load before it was saved.
Read(e) ==
    /\ DOMAIN e = {"saved", "read", "is"}
    /\ e.is \in {"missing", "unreadable", "held"}
    /\ e.saved \in Nat /\ e.read \in Nat
    /\ e.is = "held" => e.read <= e.saved + MaxLoad

\* A request that loads found no more than the cache had when it began, and
\* what it has read is no older than its load.
CallerRight(c) ==
    /\ DOMAIN c = {"at", "busy", "found", "out", "age", "failed"}
    /\ c.at \in {"idle", "load", "save", "done"} /\ c.busy \in Nat /\ c.busy <= MaxLoad
    /\ Read(c.found) /\ c.age \in Nat
    /\ c.at = "idle" => c.busy = 0 /\ c.age = 0 /\ c.out = "none"
    /\ c.at = "load" => /\ c.age = 0 /\ c.out = "none"
                        /\ c.found.is = "held" => c.found.saved < TimeToLive + c.busy
    /\ c.at = "save" => /\ c.age <= c.busy /\ c.out \in {"value", "gaps"}
                        /\ c.found = Missing

CallerTold(c) ==
    /\ c.at = "done" => c.age < IF c.failed THEN TimeToLive + 2 * MaxLoad ELSE Expiration + MaxLoad
    /\ c.out = "error" => c.found.is = "missing"
    /\ c.out = "empty" => c.found.is = "unreadable" /\ c.failed

CacheInv ==
    /\ Read(entry) /\ (entry.is = "held" => entry.saved < TimeToLive)
    /\ DOMAIN caller = Callers
    /\ \A c \in Callers : CallerRight(caller[c]) /\ CallerTold(caller[c])

LEMMA MissingRead == Read(Missing) /\ Read(Unreadable) /\ Missing.is = "missing" /\ Unreadable.is = "unreadable"
<1>1. Missing = [saved |-> 0, read |-> 0, is |-> "missing"]
    BY DEF Missing
<1>2. /\ DOMAIN Unreadable = DOMAIN Missing /\ Unreadable.saved = 0 /\ Unreadable.read = 0
      /\ Unreadable.is = "unreadable"
    BY <1>1 DEF Unreadable
<1> QED
    BY <1>1, <1>2 DEF Read

LEMMA AskingRight == CallerRight(Asking) /\ CallerTold(Asking)
<1>1. /\ DOMAIN Asking = {"at", "busy", "found", "out", "age", "failed"}
      /\ Asking.at = "idle" /\ Asking.busy = 0 /\ Asking.age = 0 /\ Asking.out = "none"
      /\ Asking.found = Missing
    BY DEF Asking
<1> QED
    BY <1>1, MissingRead, CachedReadsAssumption DEF CallerRight, CallerTold

LEMMA CacheInitInv == CacheInit => CacheInv
<1> SUFFICES ASSUME CacheInit PROVE CacheInv
    OBVIOUS
<1>1. Read(entry) /\ entry.is # "held"
    BY MissingRead DEF CacheInit
<1>2. DOMAIN caller = Callers /\ \A c \in Callers : caller[c] = Asking
    BY DEF CacheInit
<1> QED
    BY <1>1, <1>2, AskingRight DEF CacheInv

LEMMA CacheInvRight == CacheInv => CachedRight
BY DEF CacheInv, CachedRight, AgeBounded, OldBeforeNone, CallerTold

CallerStep(c, f) == c \in Callers /\ caller' = [caller EXCEPT ![c] = f] /\ CallerRight(f) /\ CallerTold(f)

LEMMA CallerStepRight ==
    ASSUME CacheInv, NEW c, NEW f, CallerStep(c, f)
    PROVE  DOMAIN caller' = Callers /\ \A d \in Callers : CallerRight(caller'[d]) /\ CallerTold(caller'[d])
<1>1. DOMAIN caller = Callers
    BY DEF CacheInv
<1>2. DOMAIN caller' = Callers /\ caller'[c] = f /\ \A d \in Callers : d # c => caller'[d] = caller[d]
    BY <1>1 DEF CallerStep
<1>3. CallerRight(caller'[c]) /\ CallerTold(caller'[c])
    BY <1>2 DEF CallerStep
<1>4. ASSUME NEW d \in Callers, d # c PROVE CallerRight(caller'[d]) /\ CallerTold(caller'[d])
    BY <1>2, <1>4 DEF CacheInv
<1> QED
    BY <1>2, <1>3, <1>4

\* The answer to a request.
LEMMA ToldStep ==
    ASSUME CacheInv, NEW c \in Callers, NEW out, NEW age \in Nat, NEW failed \in BOOLEAN,
           Told(c, out, age, failed),
           age < IF failed THEN TimeToLive + 2 * MaxLoad ELSE Expiration + MaxLoad,
           out = "error" => caller[c].found.is = "missing",
           out = "empty" => caller[c].found.is = "unreadable" /\ failed
    PROVE  \E f : CallerStep(c, f)
<1> DEFINE found == IF out = "value" THEN Missing ELSE caller[c].found
           f == [caller[c] EXCEPT !.at = "done", !.busy = 0, !.out = out, !.age = age,
                                  !.failed = failed, !.found = found]
<1>1. caller' = [caller EXCEPT ![c] = f]
    BY DEF Told
<1>2. CallerRight(caller[c])
    BY DEF CacheInv
<1>3. /\ f.at = "done" /\ f.busy = 0 /\ f.out = out /\ f.age = age /\ f.failed = failed
      /\ f.found = found /\ DOMAIN f = DOMAIN caller[c]
    BY <1>2 DEF CallerRight
<1>4. Read(found)
    BY <1>2, MissingRead DEF CallerRight
<1> HIDE DEF f
<1>5. CallerRight(f)
    BY <1>2, <1>3, <1>4, CachedReadsAssumption DEF CallerRight
<1>6. CallerTold(f)
    BY <1>3 DEF CallerTold
<1> QED
    BY <1>1, <1>5, <1>6 DEF CallerStep

LEMMA LoadingStep ==
    ASSUME CacheInv, NEW c \in Callers, caller[c].at = "idle", NEW found, Loading(c, found),
           Read(found), found.is = "held" => found.saved < TimeToLive
    PROVE  \E f : CallerStep(c, f)
<1> DEFINE f == [caller[c] EXCEPT !.at = "load", !.found = found]
<1>1. caller' = [caller EXCEPT ![c] = f]
    BY DEF Loading
<1>2. CallerRight(caller[c])
    BY DEF CacheInv
<1>3. /\ f.at = "load" /\ f.busy = caller[c].busy /\ f.out = caller[c].out /\ f.age = caller[c].age
      /\ f.found = found /\ DOMAIN f = DOMAIN caller[c]
    BY <1>2 DEF CallerRight
<1> HIDE DEF f
<1>4. CallerRight(f)
    BY <1>2, <1>3, CachedReadsAssumption DEF CallerRight, TimeToLive
<1>5. CallerTold(f)
    BY <1>2, <1>3 DEF CallerTold, CallerRight
<1> QED
    BY <1>1, <1>4, <1>5 DEF CallerStep

LEMMA OneMore ==
    ASSUME NEW e, Read(e)
    PROVE  /\ Read(Older(e)) /\ Older(e).is = e.is
           /\ e.is = "held" => Older(e).saved = e.saved + 1
           /\ e.is # "held" => Older(e) = e
<1>1. CASE e.is = "held"
    <2> DEFINE o == [e EXCEPT !.saved = e.saved + 1, !.read = e.read + 1]
    <2>1. Older(e) = o
        BY <1>1 DEF Older
    <2>2. DOMAIN o = DOMAIN e /\ o.saved = e.saved + 1 /\ o.read = e.read + 1 /\ o.is = e.is
        BY DEF Read
    <2> HIDE DEF o
    <2>3. Read(o)
        BY <1>1, <2>2, CachedReadsAssumption DEF Read
    <2> QED
        BY <1>1, <2>1, <2>2, <2>3
<1>2. CASE e.is # "held"
    BY <1>2 DEF Older
<1> QED
    BY <1>1, <1>2

\* One more unit of time for a request that loads or saves.
LEMMA CallerOlder ==
    ASSUME NEW c, CallerRight(c), CallerTold(c), c.at \in {"load", "save"}, c.busy < MaxLoad,
           NEW f, f = [c EXCEPT !.busy = c.busy + 1, !.found = Older(c.found),
                                !.age = IF c.at = "save" THEN c.age + 1 ELSE c.age]
    PROVE  CallerRight(f) /\ CallerTold(f)
<1>1. /\ f.at = c.at /\ f.busy = c.busy + 1 /\ f.out = c.out /\ f.found = Older(c.found)
      /\ f.age = (IF c.at = "save" THEN c.age + 1 ELSE c.age) /\ f.failed = c.failed
      /\ DOMAIN f = DOMAIN c
    BY DEF CallerRight
<1>2. /\ Read(f.found) /\ f.found.is = c.found.is
      /\ c.found.is = "held" => f.found.saved = c.found.saved + 1
      /\ c.found.is # "held" => f.found = c.found
    BY <1>1, OneMore DEF CallerRight
<1>3. c.found \in {Missing} => c.found.is # "held"
    BY MissingRead
<1>4. CallerRight(f)
    <2>1. TimeToLive \in Nat /\ MaxLoad \in Nat
        BY CachedReadsAssumption DEF TimeToLive
    <2>2. /\ f.busy \in Nat /\ f.busy <= MaxLoad /\ f.age \in Nat
          /\ f.at \in {"load", "save"}
        BY <1>1, <2>1 DEF CallerRight
    <2>3. f.at = "load" => /\ f.age = 0 /\ f.out = "none"
                           /\ f.found.is = "held" => f.found.saved < TimeToLive + f.busy
        BY <1>1, <1>2, <2>1 DEF CallerRight, Read
    <2>4. f.at = "save" => f.age <= f.busy /\ f.out \in {"value", "gaps"} /\ f.found = Missing
        BY <1>1, <1>2, <1>3 DEF CallerRight
    <2> QED
        BY <1>1, <1>2, <2>2, <2>3, <2>4 DEF CallerRight
<1>5. CallerTold(f)
    BY <1>1 DEF CallerTold, CallerRight
<1> QED
    BY <1>4, <1>5

LEMMA CacheStepRight == ASSUME CacheInv, [CacheNext]_cacheVars PROVE CacheInv'
<1> DEFINE EntryRight(e) == Read(e) /\ (e.is = "held" => e.saved < TimeToLive)
<1>0. TimeToLive \in Nat /\ 0 < TimeToLive /\ MaxLoad \in Nat /\ Expiration \in Nat /\ 0 < Expiration
    BY CachedReadsAssumption DEF TimeToLive
<1>1. CASE UNCHANGED cacheVars
    BY <1>1 DEF cacheVars, CacheInv, CallerRight, CallerTold, Read
<1>2. ASSUME NEW c \in Callers, \E f : CallerStep(c, f), EntryRight(entry)' PROVE CacheInv'
    <2>1. DOMAIN caller' = Callers /\ \A d \in Callers : CallerRight(caller'[d]) /\ CallerTold(caller'[d])
        BY <1>2, CallerStepRight
    <2> QED
        BY <1>2, <2>1 DEF CacheInv, CallerRight, CallerTold, Read
<1>3. EntryRight(entry) /\ \A c \in Callers : CallerRight(caller[c]) /\ CallerTold(caller[c])
    BY DEF CacheInv
<1>4. UNCHANGED entry => EntryRight(entry)'
    BY <1>3 DEF Read
<1>5. ASSUME NEW c \in Callers, GetFromCache(c) PROVE CacheInv'
    <2>1. UNCHANGED entry /\ caller[c].at = "idle"
        BY <1>5 DEF GetFromCache
    <2>2. CASE Unexpired(entry) /\ Told(c, "value", entry.read, FALSE)
        <3>1. entry.read \in Nat /\ entry.read < Expiration + MaxLoad
            BY <1>0, <1>3, <2>2 DEF Unexpired, Read
        <3> QED
            BY <1>2, <1>4, <2>1, <2>2, <3>1, ToldStep
    <2>3. CASE Loading(c, entry)
        BY <1>2, <1>3, <1>4, <2>1, <2>3, LoadingStep
    <2>4. CASE Loading(c, Missing)
        BY <1>2, <1>4, <2>1, <2>4, LoadingStep, MissingRead
    <2> QED
        BY <1>5, <2>2, <2>3, <2>4 DEF GetFromCache
<1>6. ASSUME NEW c \in Callers, Load(c) PROVE CacheInv'
    <2>1. PICK out \in {"value", "gaps"} :
             caller' = [caller EXCEPT ![c].at = "save", ![c].found = Missing, ![c].out = out]
        BY <1>6 DEF Load
    <2> DEFINE f == [caller[c] EXCEPT !.at = "save", !.found = Missing, !.out = out]
    <2>2. caller' = [caller EXCEPT ![c] = f]
        BY <2>1
    <2>3. UNCHANGED entry /\ caller[c].at = "load"
        BY <1>6 DEF Load
    <2>4. /\ f.at = "save" /\ f.busy = caller[c].busy /\ f.out = out /\ f.age = caller[c].age
          /\ f.found = Missing /\ DOMAIN f = DOMAIN caller[c]
        BY <1>3 DEF CallerRight
    <2> HIDE DEF f
    <2>5. CallerRight(f)
        BY <1>0, <1>3, <2>3, <2>4, MissingRead DEF CallerRight
    <2>6. CallerTold(f)
        BY <2>4 DEF CallerTold
    <2> QED
        BY <1>2, <1>4, <2>2, <2>3, <2>5, <2>6 DEF CallerStep
<1>7. ASSUME NEW c \in Callers, AnswerOld(c) PROVE CacheInv'
    <2> DEFINE found == caller[c].found
    <2>1. UNCHANGED entry /\ caller[c].at = "load"
        BY <1>7 DEF AnswerOld
    <2>2. /\ Read(found) /\ caller[c].busy \in Nat /\ caller[c].busy <= MaxLoad
          /\ found.is = "held" => found.saved < TimeToLive + caller[c].busy
        BY <1>3, <2>1 DEF CallerRight
    <2>3. \/ found.is = "held" /\ Told(c, "value", found.read, TRUE)
          \/ found.is = "unreadable" /\ Told(c, "empty", 0, TRUE)
          \/ found.is = "missing" /\ Told(c, "error", 0, TRUE)
        BY <1>7, <2>2 DEF AnswerOld, Read
    <2>4. CASE found.is = "held" /\ Told(c, "value", found.read, TRUE)
        <3>1. found.read \in Nat /\ found.read < TimeToLive + 2 * MaxLoad
            BY <1>0, <2>2, <2>4 DEF Read
        <3> QED
            BY <1>2, <1>4, <2>1, <2>4, <3>1, ToldStep
    <2>5. CASE found.is = "unreadable" /\ Told(c, "empty", 0, TRUE)
        <3>1. 0 < TimeToLive + 2 * MaxLoad
            BY <1>0
        <3> QED
            BY <1>2, <1>4, <2>1, <2>5, <3>1, ToldStep
    <2>6. CASE found.is = "missing" /\ Told(c, "error", 0, TRUE)
        <3>1. 0 < TimeToLive + 2 * MaxLoad
            BY <1>0
        <3> QED
            BY <1>2, <1>4, <2>1, <2>6, <3>1, ToldStep
    <2> QED
        BY <2>3, <2>4, <2>5, <2>6
<1>8. ASSUME NEW c \in Callers, Save(c) PROVE CacheInv'
    <2>1. caller[c].at = "save" /\ Told(c, caller[c].out, caller[c].age, FALSE)
        BY <1>8 DEF Save
    <2>2. /\ caller[c].age \in Nat /\ caller[c].age <= MaxLoad /\ caller[c].age < Expiration + MaxLoad
          /\ caller[c].out \in {"value", "gaps"}
        BY <1>0, <1>3, <2>1 DEF CallerRight
    <2>3. \E f : CallerStep(c, f)
        BY <2>1, <2>2, ToldStep
    <2>4. CASE entry' = [saved |-> 0, read |-> caller[c].age, is |-> "held"]
        <3>1. /\ entry'.saved = 0 /\ entry'.read = caller[c].age /\ entry'.is = "held"
              /\ DOMAIN entry' = {"saved", "read", "is"}
            BY <2>4
        <3>2. EntryRight(entry)'
            BY <1>0, <2>2, <3>1 DEF Read
        <3> QED
            BY <1>2, <2>3, <3>2
    <2>5. CASE UNCHANGED entry
        BY <1>2, <1>4, <2>3, <2>5
    <2> QED
        BY <1>8, <2>4, <2>5 DEF Save
<1>9. ASSUME NEW c \in Callers, AskAgain(c) PROVE CacheInv'
    <2>1. caller' = [caller EXCEPT ![c] = Asking] /\ UNCHANGED entry
        BY <1>9 DEF AskAgain
    <2>2. CallerRight(Asking) /\ CallerTold(Asking)
        BY AskingRight
    <2> QED
        BY <1>2, <1>4, <2>1, <2>2 DEF CallerStep
<1>10. CASE Pass
    <2>1. EntryRight(entry)'
        <3>1. entry' = IF Older(entry).saved >= TimeToLive THEN Missing ELSE Older(entry)
            BY <1>10 DEF Pass
        <3>2. Read(Older(entry)) /\ Older(entry).saved \in Nat
            BY <1>3, OneMore DEF Read
        <3>3. Read(Missing) /\ Missing.is # "held"
            BY MissingRead
        <3> DEFINE o == Older(entry)
        <3>4. Read(o) /\ o.saved \in Nat /\ entry' = IF o.saved >= TimeToLive THEN Missing ELSE o
            BY <3>1, <3>2
        <3> HIDE DEF o
        <3>5. CASE o.saved >= TimeToLive
            <4>1. entry' = Missing
                BY <3>4, <3>5
            <4> QED
                BY <3>3, <4>1 DEF Read
        <3>6. CASE ~(o.saved >= TimeToLive)
            <4>1. entry' = o /\ o.saved < TimeToLive
                BY <1>0, <3>4, <3>6
            <4> QED
                BY <3>4, <4>1 DEF Read
        <3> QED
            BY <3>5, <3>6
    <2>2. DOMAIN caller' = Callers
        BY <1>10 DEF Pass
    <2>3. ASSUME NEW c \in Callers PROVE CallerRight(caller'[c]) /\ CallerTold(caller'[c])
        <3>1. CASE caller[c].at \notin {"load", "save"}
            <4>1. caller'[c] = caller[c]
                BY <1>10, <3>1 DEF Pass
            <4> QED
                BY <1>3, <4>1
        <3>2. CASE caller[c].at \in {"load", "save"}
            <4>1. caller'[c] = [caller[c] EXCEPT !.busy = caller[c].busy + 1, !.found = Older(caller[c].found),
                                !.age = IF caller[c].at = "save" THEN caller[c].age + 1 ELSE caller[c].age]
                BY <1>10, <3>2 DEF Pass
            <4>2. caller[c].busy < MaxLoad
                BY <1>10, <3>2 DEF Pass
            <4> QED
                BY <1>3, <3>2, <4>1, <4>2, CallerOlder
        <3> QED
            BY <3>1, <3>2
    <2> QED
        BY <2>1, <2>2, <2>3 DEF CacheInv, CallerRight, CallerTold, Read
<1> QED
    BY <1>1, <1>5, <1>6, <1>7, <1>8, <1>9, <1>10 DEF CacheNext

\* No answer is older than it may be, and an error or an empty value is only given
\* for want of an old answer (GetOrLoad of the api's cache).
THEOREM CacheStaysRight == ServicesSpec => []CachedRight
<1>1. ServicesInit => CacheInv
    BY CacheInitInv DEF ServicesInit
<1>2. CacheInv /\ [ServicesNext]_servicesVars => CacheInv'
    BY OnePart, CacheStepRight
<1> QED
    BY <1>1, <1>2, CacheInvRight, PTL DEF ServicesSpec

------------------------------------------------------------------------------
(* The pages of the api and the transfer report.                            *)

Global == {"origin", "destination"}
Stops == {"idle", "vaa", "join", "page", "vaas", "txHash", "report"}
Shows == UNION {[D -> SUBSET KnownParts] : D \in SUBSET ReadVaas}
Answers == [shown : Shows, begun : SUBSET ReadVaas, cut : BOOLEAN]
Reader == [at : Stops, ids : SUBSET ReadVaas, global : SUBSET Global, begun : SUBSET ReadVaas, page : Nat]

\* What tx-tracker and parser write of a VAA comes after the VAA.
KnownRight ==
    /\ known \in [ReadVaas -> SUBSET KnownParts]
    /\ \A v \in ReadVaas : "vaa" \in known[v] \/ known[v] \subseteq {"vaa", "destination"}

\* Only the page of one VAA is asked for again.
ReadsTyped ==
    /\ KnownRight
    /\ kind \in {"transaction", "list", "address", "operation", "operations", "hash", "emitter", "report"}
    /\ reader \in Reader
    /\ told \in Seq(Answers)
    /\ kind # "transaction" => told = <<>> \/ (Len(told) = 1 /\ reader.at = "idle")
    /\ reader.at = "idle" => reader = Idle

\* What the page of one VAA would show now, and a request that has read of
\* globalTransactions what is in global.
ShownNow(v) == GlobalTransaction(v, known[v] \cap Global)

\* The page of one VAA: what was shown is still there to be shown, also to the
\* request that is under way.
PageGrows ==
    kind = "transaction" =>
        /\ \A i \in DOMAIN told :
              \E v \in ReadVaas :
                 /\ told[i].begun = {v}
                 /\ DOMAIN told[i].shown # {} =>
                       /\ DOMAIN told[i].shown = {v} /\ "vaa" \in known[v]
                       /\ told[i].shown[v] \subseteq ShownNow(v)
        /\ reader.at \in {"idle", "vaa"}
        /\ reader.at = "vaa" =>
              \E v \in ReadVaas :
                 /\ reader.ids = {v} /\ reader.begun = {v}
                 /\ reader.global \subseteq known[v]
                 /\ \A i \in DOMAIN told : v \in DOMAIN told[i].shown =>
                       told[i].shown[v] \subseteq GlobalTransaction(v, reader.global)
        /\ AnswersGrow

\* A first page: what was to be found is still among what r looks at.
PageReads(r) ==
    /\ kind \in {"address", "operations", "hash", "emitter"} =>
          r.at \in {"idle", "page", "vaas", "txHash"}
    /\ r.at = "page" =>
          /\ kind \in {"address", "operations"} /\ r.begun \subseteq r.ids
          /\ r.begun \subseteq IF kind = "address" THEN Having("parsed") ELSE Having("origin")
    /\ r.at = "txHash" =>
          r.page = 0 /\ r.begun \subseteq Having("hash") \ Nontrusted
    /\ r.at = "vaas" =>
          /\ r.ids \subseteq Having("vaa")
          /\ r.page # 0 => r.begun = {}
          /\ r.begun \subseteq r.ids \/ Cardinality(r.ids) >= PageLength

\* How many VAAs of S the report reads before v.
Place(S, v) == Cardinality({u \in S : ShownBefore(u, v)})

\* Of those with a price that were there, what is not in ids comes after it.
NoHole(begun, ids) ==
    \A u \in begun \ Unpriced : u \notin ids => \A v \in ids : ~ShownBefore(u, v)

\* A transfer the report has not written is on no page it has read.
ReportReads(r) ==
    /\ kind = "report" => r.at \in {"idle", "report"}
    /\ r.at = "report" =>
          /\ kind = "report" /\ r.begun \subseteq Having("vaa")
          /\ \A v \in r.begun \ Unpriced :
                v \in r.ids \/ r.page * PageLength <= Place(Having("vaa"), v)
          /\ NoHole(r.begun, r.ids)

ReadsInv ==
    /\ ReadsTyped /\ PageGrows
    /\ AddressComplete /\ PageReads(reader)
    /\ ReportComplete /\ ReportReads(reader)

LEMMA NewestAll ==
    ASSUME NEW S, IsFiniteSet(S), NEW n \in Nat, NEW P \in Newest(S, n)
    PROVE  /\ P \subseteq S
           /\ Cardinality(P) < n => P = S
           /\ Cardinality(S) < n => P = S
           /\ n = 0 => P = {}
<1>1. P \in SUBSET S /\ Cardinality(P) = AtMost(S, n)
    BY DEF Newest
<1>2. /\ IsFiniteSet(P) /\ Cardinality(S) \in Nat /\ Cardinality(P) \in Nat
      /\ (Cardinality(S) = Cardinality(P) => S = P)
    BY <1>1, FS_Subset, FS_CardinalityType
<1>3. Cardinality(P) = 0 => P = {}
    BY <1>2, FS_EmptySet
<1> QED
    BY <1>1, <1>2, <1>3 DEF AtMost

LEMMA HavingFinite ==
    ASSUME NEW p
    PROVE  Having(p) \subseteq ReadVaas /\ \A S \in SUBSET ReadVaas : IsFiniteSet(S)
BY FS_Subset, ApiReadsAssumption DEF Having

\* The order of the report: total, and each VAA has its place.
LEMMA Placed ==
    ASSUME NEW S, S \subseteq ReadVaas, NEW v \in S
    PROVE  /\ Place(S, v) \in Nat
           /\ \A u \in S : ShownBefore(u, v) => Place(S, u) + 1 <= Place(S, v)
           /\ \A u \in S : u = v \/ ShownBefore(u, v) \/ ShownBefore(v, u)
           /\ ~ShownBefore(v, v)
<1>1. IsFiniteSet(S) /\ S \subseteq Nat /\ \A u \in S : StampOf[u] \in Nat
    BY FS_Subset, ApiReadsAssumption
<1> DEFINE Earlier(u) == {w \in S : ShownBefore(w, u)}
<1>2. \A u \in S : IsFiniteSet(Earlier(u)) /\ Cardinality(Earlier(u)) \in Nat
    BY <1>1, FS_Subset, FS_CardinalityType
<1>3. ~ShownBefore(v, v) /\ \A u \in S : u = v \/ ShownBefore(u, v) \/ ShownBefore(v, u)
    BY <1>1 DEF ShownBefore
<1>4. ASSUME NEW u \in S, ShownBefore(u, v) PROVE Place(S, u) + 1 <= Place(S, v)
    <2>1. ASSUME NEW w \in Earlier(u) PROVE w \in Earlier(v)
        <3>1. w \in Nat /\ u \in Nat /\ v \in Nat
            BY <1>1
        <3>2. StampOf[w] \in Nat /\ StampOf[u] \in Nat /\ StampOf[v] \in Nat
            BY <1>1
        <3>3. ShownBefore(w, u)
            OBVIOUS
        <3>4. ShownBefore(w, v)
            BY <1>4, <3>1, <3>2, <3>3 DEF ShownBefore
        <3> QED
            BY <3>4
    <2>2. u \in Earlier(v) /\ u \notin Earlier(u)
        BY <1>1, <1>4 DEF ShownBefore
    <2> DEFINE A == Earlier(u)
               B == Earlier(v)
    <2>3. IsFiniteSet(A) /\ IsFiniteSet(B) /\ A \subseteq B /\ u \in B /\ u \notin A
        BY <1>2, <2>1, <2>2
    <2>4. Place(S, u) = Cardinality(A) /\ Place(S, v) = Cardinality(B)
        BY DEF Place
    <2> HIDE DEF A, B
    <2>5. A \union {u} \in SUBSET B /\ Cardinality(A \union {u}) = Cardinality(A) + 1
        BY <2>3, FS_AddElement
    <2>6. Cardinality(A) + 1 <= Cardinality(B)
        BY <2>3, <2>5, FS_Subset
    <2> QED
        BY <2>4, <2>6
<1> QED
    BY <1>2, <1>3, <1>4 DEF Place

LEMMA PlaceGrows ==
    ASSUME NEW S, NEW R, R \subseteq S, S \subseteq ReadVaas, NEW v \in R
    PROVE  Place(R, v) <= Place(S, v)
<1>1. IsFiniteSet(S)
    BY FS_Subset, ApiReadsAssumption
<1> DEFINE A == {u \in S : ShownBefore(u, v)}
           B == {u \in R : ShownBefore(u, v)}
<1>2. IsFiniteSet(A) /\ B \in SUBSET A
    BY <1>1, FS_Subset
<1>3. Cardinality(B) <= Cardinality(A)
    BY <1>2, FS_Subset
<1> QED
    BY <1>3 DEF Place

LEMMA LeastNumber ==
    ASSUME NEW S \in SUBSET Nat, S # {}
    PROVE  \E n \in S : \A m \in S : n <= m
<1>1. \E n \in S : \A m \in S : ~(<<m, n>> \in OpToRel(<, Nat))
    <2>1. IsWellFoundedOn(OpToRel(<, Nat), Nat)
        BY NatLessThanWellFounded
    <2> QED
        BY <2>1, WFMin
<1>2. PICK n \in S : \A m \in S : ~(<<m, n>> \in OpToRel(<, Nat))
    BY <1>1
<1>3. ASSUME NEW m \in S PROVE n <= m
    <2>1. ~(m < n)
        BY <1>2 DEF OpToRel
    <2> QED
        BY <2>1
<1> QED
    BY <1>3

\* Places have no gaps: of those at n or later one is at n.
LEMMA NoGapInPlaces ==
    ASSUME NEW S, S \subseteq ReadVaas, NEW n \in Nat, NEW v \in S, n <= Place(S, v)
    PROVE  \E u \in S : Place(S, u) = n
<1> DEFINE Late == {u \in S : n <= Place(S, u)}
           Places == {Place(S, u) : u \in Late}
           Earlier(u) == {w \in S : ShownBefore(w, u)}
<1>1. \A u \in S : Place(S, u) \in Nat
    BY Placed
<1>2. PICK least \in Places : \A m \in Places : least <= m
    <2>1. Places \in SUBSET Nat /\ Places # {}
        BY <1>1
    <2> HIDE DEF Places
    <2> QED
        BY <2>1, LeastNumber
<1>3. PICK u \in Late : least = Place(S, u)
    OBVIOUS
<1>4. \A w \in Late : Place(S, u) <= Place(S, w)
    BY <1>2, <1>3
<1>5. u \in S /\ n <= Place(S, u) /\ Place(S, u) \in Nat
    BY <1>1, <1>3
<1> SUFFICES ASSUME Place(S, u) # n PROVE FALSE
    BY <1>5
<1> HIDE DEF Places
\* All those before u are early, and the last of them comes just before u.
<1>6. \A w \in Earlier(u) : Place(S, w) < n
    <2> SUFFICES ASSUME NEW w \in Earlier(u), ~(Place(S, w) < n) PROVE FALSE
        OBVIOUS
    <2>1. w \in Late
        BY <1>1
    <2>2. Place(S, w) + 1 <= Place(S, u)
        BY <1>5, Placed
    <2> QED
        BY <1>1, <1>4, <1>5, <2>1, <2>2
<1>7. IsFiniteSet(Earlier(u)) /\ Cardinality(Earlier(u)) = Place(S, u)
    BY FS_Subset, ApiReadsAssumption DEF Place
<1>8. Earlier(u) # {}
    BY <1>5, <1>7, FS_EmptySet
<1> DEFINE Left == {n - Place(S, w) : w \in Earlier(u)}
<1>9. PICK near \in Left : \A m \in Left : near <= m
    <2>1. Left \in SUBSET Nat /\ Left # {}
        BY <1>1, <1>6, <1>8
    <2> HIDE DEF Left
    <2> QED
        BY <2>1, LeastNumber
<1>10. PICK w \in Earlier(u) : near = n - Place(S, w)
    OBVIOUS
<1>11. ASSUME NEW x \in Earlier(u) PROVE Place(S, x) <= Place(S, w)
    <2>1. n - Place(S, x) \in Left
        OBVIOUS
    <2> HIDE DEF Left
    <2>2. n - Place(S, w) <= n - Place(S, x)
        BY <1>9, <1>10, <2>1
    <2>3. Place(S, x) \in Nat /\ Place(S, w) \in Nat
        BY <1>1
    <2> QED
        BY <2>2, <2>3
<1>12. Earlier(u) \ {w} \subseteq Earlier(w)
    <2> SUFFICES ASSUME NEW x \in Earlier(u), x # w PROVE ShownBefore(x, w)
        OBVIOUS
    <2>1. ShownBefore(w, x) => Place(S, w) + 1 <= Place(S, x)
        BY Placed
    <2>2. x = w \/ ShownBefore(x, w) \/ ShownBefore(w, x)
        BY Placed
    <2> QED
        BY <1>1, <1>11, <2>1, <2>2
<1>13. Place(S, u) - 1 <= Place(S, w)
    <2>1. IsFiniteSet(Earlier(w))
        BY FS_Subset, ApiReadsAssumption
    <2>2. Cardinality(Earlier(u) \ {w}) = Cardinality(Earlier(u)) - 1
        BY <1>7, <1>10, FS_RemoveElement
    <2>3. Cardinality(Earlier(u) \ {w}) <= Cardinality(Earlier(w))
        BY <1>12, <2>1, FS_Subset
    <2> QED
        BY <1>7, <2>2, <2>3 DEF Place
<1>14. Place(S, w) < n /\ Place(S, w) \in Nat
    BY <1>1, <1>6, <1>10
<1> QED
    BY <1>5, <1>13, <1>14

LEMMA IdleReader == Idle \in Reader /\ Idle.at = "idle" /\ PageReads(Idle) /\ ReportReads(Idle)
<1>1. Idle \in Reader
    BY DEF Idle, Reader, Stops
<1>2. Idle.at = "idle"
    BY DEF Idle
<1> QED
    BY <1>1, <1>2 DEF PageReads, ReportReads

LEMMA ReadsInitInv == ReadsInit => ReadsInv
<1> SUFFICES ASSUME ReadsInit PROVE ReadsInv
    OBVIOUS
<1>1. KnownRight
    <2>1. known \in [ReadVaas -> SUBSET KnownParts]
        BY DEF ReadsInit, KnownParts
    <2>2. \A v \in ReadVaas : known[v] \in {{}, {"vaa"}}
        BY DEF ReadsInit
    <2>3. \A v \in ReadVaas : "vaa" \in known[v] \/ known[v] \subseteq {"vaa", "destination"}
        BY <2>2
    <2> QED
        BY <2>1, <2>3 DEF KnownRight
<1>2. /\ told = <<>> /\ reader = Idle
      /\ kind \in {"transaction", "list", "address", "operation", "operations", "hash", "emitter", "report"}
    BY ApiReadsAssumption DEF ReadsInit
<1>3. ReadsTyped
    BY <1>1, <1>2, IdleReader DEF ReadsTyped
<1>4. PageGrows /\ AddressComplete /\ ReportComplete
    BY <1>2, IdleReader DEF PageGrows, AnswersGrow, AddressComplete, ReportComplete
<1> QED
    BY <1>2, <1>3, <1>4, IdleReader DEF ReadsInv

LEMMA ReadsInvRight == ReadsInv => ReadsRight
<1> SUFFICES ASSUME ReadsInv PROVE ReadsRight
    OBVIOUS
<1>1. CASE kind = "transaction"
    BY <1>1 DEF ReadsInv, PageGrows, ReadsRight
<1>2. CASE kind # "transaction"
    <2>1. told \in Seq(Answers) /\ (told = <<>> \/ Len(told) = 1)
        BY <1>2 DEF ReadsInv, ReadsTyped
    <2>2. \A i, j \in DOMAIN told : ~(i < j)
        BY <2>1
    <2>3. AnswersGrow
        BY <2>2 DEF AnswersGrow
    <2> QED
        BY <2>3 DEF ReadsInv, ReadsRight
<1> QED
    BY <1>1, <1>2

\* A request goes on, or ends with an error.
LEMMA ReaderGoesOn ==
    ASSUME ReadsInv, UNCHANGED <<known, kind, told>>, NEW r \in Reader, reader' = r,
           \/ r = Idle
           \/ kind # "transaction" /\ told = <<>> /\ r.at # "idle",
           PageReads(r), ReportReads(r)
    PROVE  ReadsInv'
<1>1. ReadsTyped'
    <2>1. kind # "transaction" => told' = <<>> \/ (Len(told') = 1 /\ reader'.at = "idle")
        BY IdleReader DEF ReadsInv, ReadsTyped
    <2>2. reader'.at = "idle" => reader' = Idle
        BY IdleReader
    <2>3. KnownRight' /\ told' \in Seq(Answers) /\ kind' = kind /\ reader' \in Reader
        BY DEF ReadsInv, ReadsTyped, KnownRight
    <2>4. kind' \in {"transaction", "list", "address", "operation", "operations", "hash", "emitter", "report"}
        BY <2>3 DEF ReadsInv, ReadsTyped
    <2> QED
        BY <2>1, <2>2, <2>3, <2>4 DEF ReadsTyped
<1>2. PageGrows'
    <2> SUFFICES ASSUME kind = "transaction" PROVE PageGrows'
        BY DEF PageGrows
    <2>1. reader'.at = "idle"
        BY IdleReader
    <2>2. /\ \A i \in DOMAIN told :
                \E v \in ReadVaas :
                   /\ told[i].begun = {v}
                   /\ DOMAIN told[i].shown # {} =>
                         /\ DOMAIN told[i].shown = {v} /\ "vaa" \in known[v]
                         /\ told[i].shown[v] \subseteq ShownNow(v)
          /\ AnswersGrow
        BY DEF ReadsInv, PageGrows
    <2>3. /\ \A i \in DOMAIN told' :
                \E v \in ReadVaas :
                   /\ told'[i].begun = {v}
                   /\ DOMAIN told'[i].shown # {} =>
                         /\ DOMAIN told'[i].shown = {v} /\ "vaa" \in known'[v]
                         /\ told'[i].shown[v] \subseteq ShownNow(v)'
        BY <2>2 DEF ShownNow, GlobalTransaction, OriginTxFromVaa
    <2>4. AnswersGrow'
        BY <2>2 DEF AnswersGrow, FoundById
    <2> QED
        BY <2>1, <2>3, <2>4 DEF PageGrows
<1>3. AddressComplete' /\ ReportComplete'
    BY DEF ReadsInv, AddressComplete, ReportComplete
<1>4. PageReads(reader)' /\ ReportReads(reader)'
    BY DEF PageReads, ReportReads, Having, Place
<1> QED
    BY <1>1, <1>2, <1>3, <1>4 DEF ReadsInv

\* The only answer to a page of several VAAs, with what belongs on it.
LEMMA OneAnswer ==
    ASSUME ReadsInv, kind # "transaction", told = <<>>, NEW shown \in Shows, NEW cut \in BOOLEAN, End(shown, cut),
           kind \in {"address", "operations", "hash", "emitter"} /\ Cardinality(DOMAIN shown) < PageLength =>
               reader.begun \subseteq DOMAIN shown,
           kind = "report" => /\ NoHole(reader.begun, DOMAIN shown)
                              /\ ~cut => reader.begun \ Unpriced \subseteq DOMAIN shown
    PROVE  ReadsInv'
<1> DEFINE a == [shown |-> shown, begun |-> reader.begun, cut |-> cut]
<1>1. /\ told' = <<a>> /\ reader' = Idle /\ UNCHANGED <<known, kind>>
    BY DEF End
<1>2. a \in Answers
    BY DEF Answers, ReadsInv, ReadsTyped, Reader
<1>3. a.shown = shown /\ a.begun = reader.begun /\ a.cut = cut
    OBVIOUS
<1> HIDE DEF a
<1>4. told' \in Seq(Answers) /\ Len(told') = 1 /\ DOMAIN told' = {1} /\ told'[1] = a
    BY <1>1, <1>2
<1>5. ReadsTyped'
    BY <1>1, <1>4, IdleReader DEF ReadsInv, ReadsTyped, KnownRight
<1>6. PageGrows'
    BY <1>1 DEF PageGrows
<1>7. AddressComplete' /\ ReportComplete'
    <2>1. AddressComplete'
        BY <1>1, <1>3, <1>4 DEF AddressComplete
    <2>2. ASSUME kind = "report", NEW u \in reader.begun \ Unpriced, u \notin DOMAIN shown
          PROVE  cut /\ \A v \in DOMAIN shown : ~ShownBefore(u, v)
        BY <2>2 DEF NoHole
    <2>3. ASSUME kind' = "report", NEW i \in DOMAIN told', NEW u \in told'[i].begun \ Unpriced
          PROVE  \/ u \in DOMAIN told'[i].shown
                 \/ told'[i].cut /\ \A v \in DOMAIN told'[i].shown : ~ShownBefore(u, v)
        <3>1. told'[i] = a /\ kind = "report"
            BY <1>1, <1>4, <2>3
        <3>2. u \in reader.begun \ Unpriced
            BY <1>3, <2>3, <3>1
        <3> QED
            BY <1>3, <2>2, <3>1, <3>2, Zenon
    <2>4. ReportComplete'
        BY <2>3 DEF ReportComplete
    <2> QED
        BY <2>1, <2>4
<1>8. PageReads(reader)' /\ ReportReads(reader)'
    BY <1>1, IdleReader DEF PageReads, ReportReads
<1> QED
    BY <1>5, <1>6, <1>7, <1>8 DEF ReadsInv

\* More known of a VAA shows more of it.
LEMMA ShowsMore ==
    ASSUME KnownRight, NEW v \in ReadVaas, known[v] \subseteq known'[v], NEW g \in SUBSET Global
    PROVE  /\ GlobalTransaction(v, g) \subseteq Global
           /\ g \subseteq known[v] => GlobalTransaction(v, g) \subseteq ShownNow(v)
           /\ ShownNow(v) \subseteq ShownNow(v)'
BY DEF ShownNow, GlobalTransaction, OriginTxFromVaa, Global

LEMMA FindGlobalTransactionStep ==
    ASSUME ReadsInv, NEW v \in ReadVaas, FindGlobalTransaction(v)
    PROVE  ReadsInv'
<1> DEFINE g == known[v] \cap Global
           r == [reader EXCEPT !.at = "vaa", !.ids = {v}, !.begun = {v}, !.global = g]
<1>1. /\ kind = "transaction" /\ reader.at = "idle" /\ UNCHANGED <<known, kind, told>>
      /\ reader' = [reader EXCEPT !.at = "vaa", !.ids = {v}, !.begun = {v},
                                  !.global = known[v] \cap {"origin", "destination"}]
    BY DEF FindGlobalTransaction
<1>2. reader' = r
    BY <1>1 DEF Global
<1>3. reader \in Reader
    BY DEF ReadsInv, ReadsTyped
<1>4. r \in Reader
    <2>1. "vaa" \in Stops /\ {v} \in SUBSET ReadVaas /\ g \in SUBSET Global
        BY DEF Stops
    <2> QED
        BY <1>3, <2>1 DEF Reader
<1>5. r.at = "vaa" /\ r.ids = {v} /\ r.begun = {v} /\ r.global = g
    BY <1>3 DEF Reader
<1> HIDE DEF r
<1>6. ReadsTyped'
    BY <1>1, <1>2, <1>4, <1>5 DEF ReadsInv, ReadsTyped, KnownRight
<1>7. PageGrows'
    <2>1. \A i \in DOMAIN told :
              \E u \in ReadVaas :
                 /\ told[i].begun = {u}
                 /\ DOMAIN told[i].shown # {} =>
                       /\ DOMAIN told[i].shown = {u} /\ "vaa" \in known[u]
                       /\ told[i].shown[u] \subseteq ShownNow(u)
        BY <1>1 DEF ReadsInv, PageGrows
    <2>2. AnswersGrow'
        BY <1>1 DEF ReadsInv, PageGrows, AnswersGrow, FoundById
    <2>3. \A i \in DOMAIN told :
              \E u \in ReadVaas :
                 /\ told'[i].begun = {u}
                 /\ DOMAIN told'[i].shown # {} =>
                       /\ DOMAIN told'[i].shown = {u} /\ "vaa" \in known'[u]
                       /\ told'[i].shown[u] \subseteq ShownNow(u)'
        BY <1>1, <2>1 DEF ShownNow, GlobalTransaction, OriginTxFromVaa
    <2>4. \A i \in DOMAIN told : v \in DOMAIN told'[i].shown =>
              told'[i].shown[v] \subseteq GlobalTransaction(v, g)'
        <3> SUFFICES ASSUME NEW i \in DOMAIN told, v \in DOMAIN told[i].shown
                     PROVE  told[i].shown[v] \subseteq GlobalTransaction(v, g)
            BY <1>1 DEF GlobalTransaction, OriginTxFromVaa
        <3>1. PICK u \in ReadVaas : DOMAIN told[i].shown = {u} /\ told[i].shown[u] \subseteq ShownNow(u)
            BY <2>1
        <3>2. u = v
            BY <3>1
        <3> QED
            BY <3>1, <3>2 DEF ShownNow
    <2>5. /\ reader'.at \in {"idle", "vaa"} /\ v \in ReadVaas /\ reader'.ids = {v} /\ reader'.begun = {v}
          /\ reader'.global = g /\ g \subseteq known'[v]
        BY <1>1, <1>2, <1>5
    <2>6. reader'.at = "vaa" =>
              \E u \in ReadVaas :
                 /\ reader'.ids = {u} /\ reader'.begun = {u}
                 /\ reader'.global \subseteq known'[u]
                 /\ \A i \in DOMAIN told' : u \in DOMAIN told'[i].shown =>
                       told'[i].shown[u] \subseteq GlobalTransaction(u, reader.global)'
        <3>1. g' = g
            BY <1>1
        <3> HIDE DEF g
        <3>2. GlobalTransaction(v, g)' = GlobalTransaction(v, reader.global)'
            BY <1>1, <2>5, <3>1 DEF GlobalTransaction, OriginTxFromVaa
        <3> QED
            BY <1>1, <2>4, <2>5, <3>2
    <2> QED
        BY <1>1, <2>2, <2>3, <2>5, <2>6 DEF PageGrows
<1>8. AddressComplete' /\ ReportComplete'
    BY <1>1 DEF ReadsInv, AddressComplete, ReportComplete
<1>9. PageReads(reader)' /\ ReportReads(reader)'
    BY <1>1, <1>2, <1>5 DEF PageReads, ReportReads
<1> QED
    BY <1>6, <1>7, <1>8, <1>9 DEF ReadsInv

LEMMA FindOriginTxStep == ASSUME ReadsInv, FindOriginTxFromVaa PROVE ReadsInv'
<1>1. reader.at = "vaa"
    BY DEF FindOriginTxFromVaa
<1>2. CASE kind # "transaction"
    <2>1. told = <<>> /\ kind \notin {"address", "operations", "hash", "emitter", "report"}
        BY <1>1, <1>2 DEF ReadsInv, ReadsTyped, PageReads, ReportReads
    <2>2. reader \in Reader
        BY DEF ReadsInv, ReadsTyped
    <2>3. PICK v \in reader.ids :
             Answer(IF "vaa" \in known[v] THEN [u \in {v} |-> GlobalTransaction(v, reader.global)]
                                          ELSE [u \in {} |-> {}])
        BY DEF FindOriginTxFromVaa
    <2>4. v \in ReadVaas /\ GlobalTransaction(v, reader.global) \in SUBSET KnownParts
        BY <2>2 DEF Reader, GlobalTransaction, OriginTxFromVaa, Global, KnownParts
    <2> DEFINE one == [u \in {v} |-> GlobalTransaction(v, reader.global)]
               none == [u \in {} |-> {}]
    <2>5. one \in Shows /\ none \in Shows
        <3>1. one \in [{v} -> SUBSET KnownParts] /\ {v} \in SUBSET ReadVaas
            BY <2>4
        <3>2. none \in [{} -> SUBSET KnownParts] /\ {} \in SUBSET ReadVaas
            OBVIOUS
        <3> QED
            BY <3>1, <3>2 DEF Shows
    <2> HIDE DEF one, none
    <2>6. End(one, FALSE) \/ End(none, FALSE)
        BY <2>3 DEF one, none, Answer
    <2> QED
        BY <1>2, <2>1, <2>5, <2>6, OneAnswer
<1>3. CASE kind = "transaction"
    <2>1. PICK v \in ReadVaas :
             /\ reader.ids = {v} /\ reader.begun = {v} /\ reader.global \subseteq known[v]
             /\ \A i \in DOMAIN told : v \in DOMAIN told[i].shown =>
                   told[i].shown[v] \subseteq GlobalTransaction(v, reader.global)
        BY <1>1, <1>3 DEF ReadsInv, PageGrows
    <2> DEFINE showing == GlobalTransaction(v, reader.global)
               shown == IF "vaa" \in known[v] THEN [u \in {v} |-> showing] ELSE [u \in {} |-> {}]
               a == [shown |-> shown, begun |-> {v}, cut |-> FALSE]
               n == Len(told)
    <2>2. told' = Append(told, a) /\ reader' = Idle /\ UNCHANGED <<known, kind>>
        <3>1. PICK x \in reader.ids :
                 Answer(IF "vaa" \in known[x] THEN [u \in {x} |-> GlobalTransaction(x, reader.global)]
                                              ELSE [u \in {} |-> {}])
            BY DEF FindOriginTxFromVaa
        <3>2. x = v
            BY <2>1, <3>1
        <3> QED
            BY <2>1, <3>1, <3>2 DEF Answer, End
    <2>3. reader \in Reader /\ KnownRight /\ told \in Seq(Answers)
        BY DEF ReadsInv, ReadsTyped
    <2>4. reader.global \in SUBSET Global /\ known[v] \subseteq known'[v]
        BY <2>2, <2>3 DEF Reader
    <2>5. showing \subseteq Global /\ showing \subseteq ShownNow(v)
        BY <2>1, <2>3, <2>4, ShowsMore
    <2>6. /\ DOMAIN shown # {} => "vaa" \in known[v] /\ DOMAIN shown = {v} /\ shown[v] = showing
          /\ "vaa" \in known[v] => DOMAIN shown = {v}
          /\ DOMAIN shown \subseteq {v}
        OBVIOUS
    <2>7. a \in Answers
        <3>1. showing \in SUBSET KnownParts
            BY <2>5 DEF Global, KnownParts
        <3> HIDE DEF showing
        <3>2. [u \in {v} |-> showing] \in [{v} -> SUBSET KnownParts] /\ [u \in {} |-> {}] \in [{} -> SUBSET KnownParts]
            BY <3>1
        <3>3. shown \in Shows
            BY <3>2 DEF Shows
        <3> HIDE DEF shown
        <3> QED
            BY <3>3 DEF Answers
    <2>8. a.shown = shown /\ a.begun = {v}
        OBVIOUS
    <2> HIDE DEF showing, shown, a
    <2>9. /\ told' \in Seq(Answers) /\ n \in Nat /\ DOMAIN told = 1..n /\ DOMAIN told' = 1..n + 1
          /\ told'[n + 1] = a /\ \A i \in 1..n : told'[i] = told[i]
        BY <2>2, <2>3, <2>7
    <2> HIDE DEF n
    <2>10. ReadsTyped'
        BY <1>3, <2>2, <2>3, <2>9, IdleReader DEF ReadsInv, ReadsTyped, KnownRight
    <2>11. \A i \in 1..n :
              \E u \in ReadVaas :
                 /\ told[i].begun = {u}
                 /\ DOMAIN told[i].shown # {} =>
                       /\ DOMAIN told[i].shown = {u} /\ "vaa" \in known[u]
                       /\ told[i].shown[u] \subseteq ShownNow(u)
        BY <1>3, <2>9 DEF ReadsInv, PageGrows
    <2>12. AnswersGrow'
        <3> SUFFICES ASSUME NEW i \in 1..n + 1, NEW j \in 1..n + 1, i < j
                     PROVE  /\ \A u \in DOMAIN told'[i].shown \cap DOMAIN told'[j].shown :
                                  told'[i].shown[u] \subseteq told'[j].shown[u]
                            /\ DOMAIN told'[i].shown # {} /\ told'[i].begun = told'[j].begun =>
                                  DOMAIN told'[j].shown # {}
            BY <1>3, <2>2, <2>9 DEF AnswersGrow, FoundById
        <3>1. i \in 1..n /\ (j \in 1..n \/ j = n + 1)
            BY <2>9
        <3>2. CASE j \in 1..n
            BY <1>3, <2>9, <3>1, <3>2 DEF ReadsInv, PageGrows, AnswersGrow, FoundById
        <3>3. CASE j = n + 1
            <4>1. told'[i] = told[i] /\ told'[j] = a
                BY <2>9, <3>1, <3>3
            <4>2. \A u \in DOMAIN told[i].shown \cap DOMAIN shown : told[i].shown[u] \subseteq shown[u]
                <5> SUFFICES ASSUME NEW u \in DOMAIN told[i].shown \cap DOMAIN shown
                             PROVE  told[i].shown[u] \subseteq shown[u]
                    OBVIOUS
                <5>1. u = v /\ shown[v] = showing
                    BY <2>6
                <5>2. told[i].shown[v] \subseteq showing
                    BY <2>1, <2>9, <3>1, <5>1 DEF showing
                <5> QED
                    BY <5>1, <5>2
            <4>3. ASSUME DOMAIN told[i].shown # {}, told[i].begun = {v} PROVE DOMAIN shown # {}
                <5>1. PICK u \in ReadVaas : told[i].begun = {u} /\ "vaa" \in known[u]
                    BY <2>11, <3>1, <4>3
                <5>2. u = v
                    BY <4>3, <5>1
                <5> QED
                    BY <2>6, <5>1, <5>2
            <4> QED
                BY <2>8, <4>1, <4>2, <4>3
        <3> QED
            BY <3>1, <3>2, <3>3
    <2>13. \A i \in 1..n + 1 :
              \E u \in ReadVaas :
                 /\ told'[i].begun = {u}
                 /\ DOMAIN told'[i].shown # {} =>
                       /\ DOMAIN told'[i].shown = {u} /\ "vaa" \in known[u]
                       /\ told'[i].shown[u] \subseteq ShownNow(u)
        <3> SUFFICES ASSUME NEW i \in 1..n + 1
                     PROVE  \E u \in ReadVaas :
                               /\ told'[i].begun = {u}
                               /\ DOMAIN told'[i].shown # {} =>
                                     /\ DOMAIN told'[i].shown = {u} /\ "vaa" \in known[u]
                                     /\ told'[i].shown[u] \subseteq ShownNow(u)
            OBVIOUS
        <3>1. CASE i \in 1..n
            BY <2>9, <2>11, <3>1
        <3>2. CASE i = n + 1
            BY <2>5, <2>6, <2>8, <2>9, <3>2
        <3> QED
            BY <2>9, <3>1, <3>2
    <2>14. PageGrows'
        <3>1. \A u : ShownNow(u)' = ShownNow(u)
            BY <2>2 DEF ShownNow, GlobalTransaction, OriginTxFromVaa
        <3>2. reader'.at = "idle"
            BY <2>2, IdleReader
        <3>3. \A i \in DOMAIN told' :
                  \E u \in ReadVaas :
                     /\ told'[i].begun = {u}
                     /\ DOMAIN told'[i].shown # {} =>
                           /\ DOMAIN told'[i].shown = {u} /\ "vaa" \in known'[u]
                           /\ told'[i].shown[u] \subseteq ShownNow(u)'
            BY <2>2, <2>9, <2>13, <3>1
        <3> QED
            BY <2>12, <3>2, <3>3 DEF PageGrows
    <2>15. AddressComplete' /\ ReportComplete'
        BY <1>3, <2>2 DEF AddressComplete, ReportComplete
    <2>16. PageReads(reader)' /\ ReportReads(reader)'
        BY <1>3, <2>2, IdleReader DEF PageReads, ReportReads
    <2> QED
        BY <2>10, <2>14, <2>15, <2>16 DEF ReadsInv
<1> QED
    BY <1>2, <1>3

\* Something more is stored.
LEMMA StorePartStep ==
    ASSUME ReadsInv, NEW v \in ReadVaas, NEW p \in KnownParts, StorePart(v, p)
    PROVE  ReadsInv'
<1>1. /\ p # "vaa" /\ p # "destination" => "vaa" \in known[v]
      /\ known' = [known EXCEPT ![v] = known[v] \union {p}]
      /\ UNCHANGED <<kind, reader, told>>
    BY DEF StorePart
<1>2. KnownRight /\ reader \in Reader
    BY DEF ReadsInv, ReadsTyped
<1>3. /\ \A u \in ReadVaas : known[u] \subseteq known'[u]
      /\ known'[v] = known[v] \union {p} /\ \A u \in ReadVaas : u # v => known'[u] = known[u]
    BY <1>1, <1>2 DEF KnownRight
<1>4. KnownRight'
    <2>1. known' \in [ReadVaas -> SUBSET KnownParts]
        BY <1>1, <1>2 DEF KnownRight
    <2>2. ASSUME NEW u \in ReadVaas
          PROVE  "vaa" \in known'[u] \/ known'[u] \subseteq {"vaa", "destination"}
        BY <1>1, <1>2, <1>3 DEF KnownRight
    <2> QED
        BY <2>1, <2>2 DEF KnownRight
<1>5. ReadsTyped'
    BY <1>1, <1>4 DEF ReadsInv, ReadsTyped
<1>6. \A q : Having(q) \subseteq Having(q)'
    BY <1>3 DEF Having
<1>7. PageGrows'
    <2> SUFFICES ASSUME kind = "transaction" PROVE PageGrows'
        BY <1>1 DEF PageGrows
    <2>1. \A u \in ReadVaas : ShownNow(u) \subseteq ShownNow(u)'
        BY <1>2, <1>3, ShowsMore
    <2>2. \A i \in DOMAIN told :
              \E u \in ReadVaas :
                 /\ told[i].begun = {u}
                 /\ DOMAIN told[i].shown # {} =>
                       /\ DOMAIN told[i].shown = {u} /\ "vaa" \in known'[u]
                       /\ told[i].shown[u] \subseteq ShownNow(u)'
        <3> SUFFICES ASSUME NEW i \in DOMAIN told
                     PROVE  \E u \in ReadVaas :
                               /\ told[i].begun = {u}
                               /\ DOMAIN told[i].shown # {} =>
                                     /\ DOMAIN told[i].shown = {u} /\ "vaa" \in known'[u]
                                     /\ told[i].shown[u] \subseteq ShownNow(u)'
            OBVIOUS
        <3>1. PICK u \in ReadVaas :
                 /\ told[i].begun = {u}
                 /\ DOMAIN told[i].shown # {} =>
                       /\ DOMAIN told[i].shown = {u} /\ "vaa" \in known[u]
                       /\ told[i].shown[u] \subseteq ShownNow(u)
            BY DEF ReadsInv, PageGrows
        <3> QED
            BY <1>3, <2>1, <3>1
    <2>3. reader.at = "vaa" =>
              \E u \in ReadVaas :
                 /\ reader.ids = {u} /\ reader.begun = {u}
                 /\ reader.global \subseteq known'[u]
                 /\ \A i \in DOMAIN told : u \in DOMAIN told[i].shown =>
                       told[i].shown[u] \subseteq GlobalTransaction(u, reader.global)'
        <3> SUFFICES ASSUME reader.at = "vaa"
                     PROVE  \E u \in ReadVaas :
                               /\ reader.ids = {u} /\ reader.begun = {u}
                               /\ reader.global \subseteq known'[u]
                               /\ \A i \in DOMAIN told : u \in DOMAIN told[i].shown =>
                                     told[i].shown[u] \subseteq GlobalTransaction(u, reader.global)'
            OBVIOUS
        <3>1. PICK u \in ReadVaas :
                 /\ reader.ids = {u} /\ reader.begun = {u} /\ reader.global \subseteq known[u]
                 /\ \A i \in DOMAIN told : u \in DOMAIN told[i].shown =>
                       told[i].shown[u] \subseteq GlobalTransaction(u, reader.global)
            BY DEF ReadsInv, PageGrows
        <3>2. GlobalTransaction(u, reader.global) \subseteq GlobalTransaction(u, reader.global)'
            BY <1>1, <1>3 DEF GlobalTransaction, OriginTxFromVaa
        <3> QED
            BY <1>3, <3>1, <3>2
    <2>4. AnswersGrow'
        BY <1>1 DEF ReadsInv, PageGrows, AnswersGrow, FoundById
    <2>5. reader.at \in {"idle", "vaa"}
        BY DEF ReadsInv, PageGrows
    <2> QED
        BY <1>1, <2>2, <2>3, <2>4, <2>5 DEF PageGrows
<1>8. AddressComplete' /\ ReportComplete'
    BY <1>1 DEF ReadsInv, AddressComplete, ReportComplete
<1>9. PageReads(reader)'
    <2>1. /\ Having("parsed") \subseteq Having("parsed")' /\ Having("origin") \subseteq Having("origin")'
          /\ Having("hash") \subseteq Having("hash")' /\ Having("vaa") \subseteq Having("vaa")'
        BY <1>6
    <2> QED
        BY <1>1, <2>1 DEF ReadsInv, PageReads
<1>10. ReportReads(reader)'
    <2> DEFINE R == Having("vaa")
               S == Having("vaa")'
    <2>1. R \subseteq S /\ S \subseteq ReadVaas
        BY <1>6 DEF Having
    <2> HIDE DEF R, S
    <2>2. \A u \in R : Place(R, u) <= Place(S, u) /\ Place(R, u) \in Nat /\ Place(S, u) \in Nat
        BY <2>1, PlaceGrows, Placed
    <2>3. reader.page * PageLength \in Nat
        BY <1>2, ApiReadsAssumption DEF Reader
    <2>4. /\ kind = "report" => reader.at \in {"idle", "report"}
          /\ reader.at = "report" =>
                /\ kind = "report" /\ reader.begun \subseteq R
                /\ \A u \in reader.begun \ Unpriced :
                      u \in reader.ids \/ reader.page * PageLength <= Place(R, u)
                /\ NoHole(reader.begun, reader.ids)
        BY DEF ReadsInv, ReportReads, R
    <2>5. reader.at = "report" =>
              /\ kind = "report" /\ reader.begun \subseteq S
              /\ \A u \in reader.begun \ Unpriced :
                    u \in reader.ids \/ reader.page * PageLength <= Place(S, u)
              /\ NoHole(reader.begun, reader.ids)
        BY <2>1, <2>2, <2>3, <2>4
    <2> QED
        BY <1>1, <2>4, <2>5 DEF ReportReads, S, Place
<1> QED
    BY <1>5, <1>7, <1>8, <1>9, <1>10 DEF ReadsInv

\* A function from VAAs to what is shown of them.
LEMMA ShownOf ==
    ASSUME NEW P \in SUBSET ReadVaas, NEW f, f \in [P -> SUBSET KnownParts]
    PROVE  f \in Shows /\ DOMAIN f = P
BY DEF Shows

LEMMA KnownShown ==
    ASSUME ReadsInv, NEW P \in SUBSET ReadVaas
    PROVE  [v \in P |-> known[v]] \in Shows /\ DOMAIN [v \in P |-> known[v]] = P
<1> DEFINE f == [v \in P |-> known[v]]
<1>1. \A v \in P : known[v] \in SUBSET KnownParts
    BY DEF ReadsInv, ReadsTyped, KnownRight
<1>2. f \in [P -> SUBSET KnownParts]
    BY <1>1
<1> HIDE DEF f
<1>3. f \in Shows /\ DOMAIN f = P
    BY <1>2, ShownOf
<1> QED
    BY <1>3 DEF f

\* What is parsed, has an origin or a hash is a VAA.
LEMMA HavingVaa ==
    ASSUME ReadsInv
    PROVE  /\ Having("parsed") \subseteq Having("vaa") /\ Having("origin") \subseteq Having("vaa")
           /\ Having("hash") \subseteq Having("vaa")
<1>1. \A v \in ReadVaas : "vaa" \in known[v] \/ known[v] \subseteq {"vaa", "destination"}
    BY DEF ReadsInv, ReadsTyped, KnownRight
<1> QED
    BY <1>1 DEF Having

LEMMA ReadFailsStep == ASSUME ReadsInv, ReadFails PROVE ReadsInv'
BY IdleReader, ReaderGoesOn DEF ReadFails

LEMMA StartStep ==
    ASSUME ReadsInv, reader.at = "idle", told = <<>>, UNCHANGED <<known, kind, told>>, kind # "transaction",
           NEW at \in Stops \ {"idle", "vaa"}, NEW ids \in SUBSET ReadVaas, NEW begun \in SUBSET ReadVaas, NEW p \in Nat,
           reader' = [reader EXCEPT !.at = at, !.ids = ids, !.begun = begun, !.page = p],
           \A r : r.at = at /\ r.ids = ids /\ r.begun = begun /\ r.page = p => PageReads(r) /\ ReportReads(r)
    PROVE  ReadsInv'
<1> DEFINE r == [reader EXCEPT !.at = at, !.ids = ids, !.begun = begun, !.page = p]
<1>1. reader \in Reader
    BY DEF ReadsInv, ReadsTyped
<1>2. r \in Reader /\ r.at = at /\ r.ids = ids /\ r.begun = begun /\ r.page = p
    BY <1>1 DEF Reader
<1> HIDE DEF r
<1>3. PageReads(r) /\ ReportReads(r) /\ r.at # "idle"
    BY <1>2
<1>4. reader' = r
    BY DEF r
<1> QED
    BY <1>2, <1>3, <1>4, ReaderGoesOn

\* The requests that begin.
LEMMA BeginStep ==
    ASSUME ReadsInv,
           \/ FindTransactions \/ FindVaasIdsByFromAddressOrToAddress \/ FindOperationsIdByAddressOrTxHash
           \/ FindVaasByTxHashWorkaround \/ StartReport
           \/ \E p \in 0 .. 1 : FindVaasByEmitterAndToChain(p)
    PROVE  ReadsInv'
<1>0. /\ Having("parsed") \in SUBSET ReadVaas /\ Having("origin") \in SUBSET ReadVaas
      /\ Having("vaa") \in SUBSET ReadVaas /\ Having("hash") \in SUBSET ReadVaas
    BY HavingFinite
<1>1. reader.at = "idle" => /\ reader = Idle /\ reader.ids = {} /\ reader.begun = {} /\ reader.page = 0
                            /\ reader \in Reader
    BY DEF ReadsInv, ReadsTyped, Idle
<1>2. CASE FindTransactions
    <2> DEFINE ids == PageOf(Having("vaa"), 0)
    <2>1. /\ reader.at = "idle" /\ kind = "list" /\ told = <<>> /\ UNCHANGED <<known, kind, told>>
          /\ reader' = [reader EXCEPT !.at = "join", !.ids = ids]
        BY <1>2 DEF FindTransactions
    <2>2. ids \in SUBSET ReadVaas
        BY <1>0 DEF PageOf
    <2> HIDE DEF ids
    <2>3. reader' = [reader EXCEPT !.at = "join", !.ids = ids, !.begun = {}, !.page = 0]
        BY <1>1, <2>1 DEF Reader
    <2>4. "join" \in Stops \ {"idle", "vaa"} /\ {} \in SUBSET ReadVaas /\ 0 \in Nat
        BY DEF Stops
    <2>5. \A r : r.at = "join" /\ r.ids = ids /\ r.begun = {} /\ r.page = 0 =>
             PageReads(r) /\ ReportReads(r)
        BY <2>1 DEF PageReads, ReportReads
    <2>6. /\ kind # "transaction" /\ reader.at = "idle" /\ told = <<>>
          /\ UNCHANGED <<known, kind, told>>
        BY <2>1
    <2> QED
        BY <2>2, <2>3, <2>4, <2>5, <2>6, StartStep
<1>3. CASE FindVaasIdsByFromAddressOrToAddress \/ FindOperationsIdByAddressOrTxHash
    <2> DEFINE ids == Having("origin") \union Having("parsed")
               sure == IF kind = "address" THEN Having("parsed") ELSE Having("origin")
    <2>1. /\ reader.at = "idle" /\ kind \in {"address", "operations"} /\ told = <<>>
          /\ UNCHANGED <<known, kind, told>>
          /\ reader' = [reader EXCEPT !.at = "page", !.ids = ids, !.begun = sure]
        BY <1>3 DEF FindVaasIdsByFromAddressOrToAddress, FindOperationsIdByAddressOrTxHash, FindIds
    <2>2. ids \in SUBSET ReadVaas /\ sure \in SUBSET ReadVaas /\ sure \subseteq ids
        BY <1>0
    <2>3. \A r : r.at = "page" /\ r.ids = ids /\ r.begun = sure /\ r.page = 0 => PageReads(r) /\ ReportReads(r)
        BY <2>1, <2>2 DEF PageReads, ReportReads
    <2> HIDE DEF ids, sure
    <2>4. reader' = [reader EXCEPT !.at = "page", !.ids = ids, !.begun = sure, !.page = 0]
        BY <1>1, <2>1 DEF Reader
    <2>5. "page" \in Stops \ {"idle", "vaa"} /\ 0 \in Nat
        BY DEF Stops
    <2>6. /\ kind # "transaction" /\ reader.at = "idle" /\ told = <<>>
          /\ UNCHANGED <<known, kind, told>>
        BY <2>1
    <2> QED
        BY <2>2, <2>3, <2>4, <2>5, <2>6, StartStep
<1>4. CASE FindVaasByTxHashWorkaround
    <2> DEFINE at == IF Having("origin") # {} THEN "vaas" ELSE "txHash"
               ids == Having("origin")
               sure == WithTxHash
    <2>1. /\ reader.at = "idle" /\ kind = "hash" /\ told = <<>> /\ UNCHANGED <<known, kind, told>>
          /\ reader' = [reader EXCEPT !.at = at, !.ids = ids, !.begun = sure]
        BY <1>4 DEF FindVaasByTxHashWorkaround
    <2>2. /\ ids \in SUBSET ReadVaas /\ sure \in SUBSET ReadVaas
          /\ at \in Stops \ {"idle", "vaa"} /\ 0 \in Nat
        BY <1>0 DEF WithTxHash, Stops
    <2>3. \A r : r.at = at /\ r.ids = ids /\ r.begun = sure /\ r.page = 0 => PageReads(r) /\ ReportReads(r)
        BY <2>1, HavingVaa DEF PageReads, ReportReads, WithTxHash
    <2> HIDE DEF at, ids, sure
    <2>4. reader' = [reader EXCEPT !.at = at, !.ids = ids, !.begun = sure, !.page = 0]
        BY <1>1, <2>1 DEF Reader
    <2>5. /\ kind # "transaction" /\ reader.at = "idle" /\ told = <<>>
          /\ UNCHANGED <<known, kind, told>>
        BY <2>1
    <2> QED
        BY <2>2, <2>3, <2>4, <2>5, StartStep
<1>5. CASE StartReport
    <2> DEFINE sure == Having("vaa")
    <2>1. /\ reader.at = "idle" /\ kind = "report" /\ told = <<>> /\ UNCHANGED <<known, kind, told>>
          /\ reader' = [reader EXCEPT !.at = "report", !.begun = sure]
        BY <1>5 DEF StartReport
    <2>2. "report" \in Stops \ {"idle", "vaa"} /\ sure \in SUBSET ReadVaas /\ {} \in SUBSET ReadVaas /\ 0 \in Nat
        BY <1>0 DEF Stops
    <2>3. ASSUME NEW r, r.at = "report", r.ids = {}, r.begun = sure, r.page = 0 PROVE PageReads(r) /\ ReportReads(r)
        <3>1. \A v \in sure : Place(sure, v) \in Nat
            BY <1>0, Placed
        <3>2. r.page * PageLength = 0
            BY <2>3, ApiReadsAssumption
        <3>3. \A v \in r.begun \ Unpriced : r.page * PageLength <= Place(Having("vaa"), v)
            BY <2>3, <3>1, <3>2
        <3> QED
            BY <2>1, <2>3, <3>3 DEF PageReads, ReportReads, NoHole
    <2> HIDE DEF sure
    <2>4. reader' = [reader EXCEPT !.at = "report", !.ids = {}, !.begun = sure, !.page = 0]
        BY <1>1, <2>1 DEF Reader
    <2>5. /\ kind # "transaction" /\ reader.at = "idle" /\ told = <<>>
          /\ UNCHANGED <<known, kind, told>>
        BY <2>1
    <2> QED
        BY <2>2, <2>3, <2>4, <2>5, StartStep
<1>6. ASSUME NEW p \in 0 .. 1, FindVaasByEmitterAndToChain(p) PROVE ReadsInv'
    <2> DEFINE S == Having("parsed")
               sure == IF p = 0 THEN S ELSE {}
    <2>0. PICK skipped \in SUBSET S :
             /\ Cardinality(skipped) = AtMost(S, p * PageLength)
             /\ \E ids \in SUBSET (S \ skipped) :
                   /\ Cardinality(ids) = AtMost(S \ skipped, PageLength)
                   /\ reader' = [reader EXCEPT !.at = "vaas", !.page = p, !.ids = ids, !.begun = sure]
        BY <1>6 DEF FindVaasByEmitterAndToChain
    <2>1. PICK ids \in SUBSET (S \ skipped) :
             /\ Cardinality(ids) = AtMost(S \ skipped, PageLength)
             /\ reader' = [reader EXCEPT !.at = "vaas", !.page = p, !.ids = ids, !.begun = sure]
        BY <2>0
    <2>2. reader.at = "idle" /\ kind = "emitter" /\ told = <<>> /\ UNCHANGED <<known, kind, told>>
        BY <1>6 DEF FindVaasByEmitterAndToChain
    <2>3. /\ ids \in SUBSET ReadVaas /\ sure \in SUBSET ReadVaas /\ p \in Nat
          /\ "vaas" \in Stops \ {"idle", "vaa"}
        BY <1>0 DEF Stops
    <2>4. p = 0 => sure \subseteq ids \/ Cardinality(ids) >= PageLength
        <3> SUFFICES ASSUME p = 0 PROVE S \subseteq ids \/ Cardinality(ids) >= PageLength
            OBVIOUS
        <3>1. IsFiniteSet(S) /\ IsFiniteSet(skipped) /\ Cardinality(S) \in Nat
            BY <1>0, HavingFinite, FS_Subset, FS_CardinalityType
        <3> HIDE DEF S
        <3>2. p * PageLength = 0
            BY ApiReadsAssumption
        <3>3. Cardinality(skipped) = 0
            BY <2>0, <3>1, <3>2 DEF AtMost
        <3>4. skipped = {}
            BY <3>1, <3>3, FS_EmptySet
        <3>5. S \ skipped = S /\ ids \in SUBSET S
            BY <3>4
        <3>6. Cardinality(ids) = IF Cardinality(S) < PageLength THEN Cardinality(S) ELSE PageLength
            BY <2>1, <3>5 DEF AtMost
        <3>7. Cardinality(S) = Cardinality(ids) => S = ids
            BY <3>1, <3>5, FS_Subset
        <3> QED
            BY <3>1, <3>6, <3>7, ApiReadsAssumption
    <2>5. ids \subseteq Having("vaa")
        BY HavingVaa
    <2>6. \A r : r.at = "vaas" /\ r.ids = ids /\ r.begun = sure /\ r.page = p => PageReads(r) /\ ReportReads(r)
        <3> HIDE DEF S
        <3> QED
            BY <2>2, <2>4, <2>5 DEF PageReads, ReportReads
    <2> HIDE DEF sure
    <2>7. reader' = [reader EXCEPT !.at = "vaas", !.ids = ids, !.begun = sure, !.page = p]
        BY <2>1
    <2> QED
        BY <2>2, <2>3, <2>6, <2>7, StartStep
<1> QED
    BY <1>2, <1>3, <1>4, <1>5, <1>6

\* The requests that read several documents of a page, and end.
LEMMA EndStep ==
    ASSUME ReadsInv,
           \/ Join \/ ListTransactionsByAddress \/ FindAllOperations \/ FindVaas
           \/ \E v \in ReadVaas : FindOperationById(v)
    PROVE  ReadsInv'
<1>1. reader \in Reader /\ reader.ids \in SUBSET ReadVaas /\ reader.page \in Nat
    BY DEF ReadsInv, ReadsTyped, Reader
<1>2. PageReads(reader) /\ ReportReads(reader) /\ PageLength \in Nat
    BY ApiReadsAssumption DEF ReadsInv
<1>3. ASSUME kind # "transaction", reader.at # "idle" PROVE told = <<>>
    BY <1>3 DEF ReadsInv, ReadsTyped
<1>4. kind = "transaction" => reader.at \in {"idle", "vaa"}
    BY DEF ReadsInv, PageGrows
<1>5. CASE Join
    <2>1. reader.at = "join" /\ End([v \in reader.ids |-> known[v]], FALSE)
        BY <1>5 DEF Join, Answer
    <2>2. kind # "transaction" /\ told = <<>> /\ kind \notin {"address", "operations", "hash", "emitter", "report"}
        BY <1>2, <1>3, <1>4, <2>1 DEF PageReads, ReportReads
    <2> QED
        BY <1>1, <2>1, <2>2, KnownShown, OneAnswer
<1>6. ASSUME NEW v \in ReadVaas, FindOperationById(v) PROVE ReadsInv'
    <2> DEFINE P == {v} \cap (Having("origin") \union Having("destination"))
    <2>1. kind = "operation" /\ told = <<>> /\ End([u \in P |-> known[u]], FALSE)
        BY <1>6 DEF FindOperationById, Answer
    <2>2. P \in SUBSET ReadVaas
        OBVIOUS
    <2> HIDE DEF P
    <2> QED
        BY <2>1, <2>2, KnownShown, OneAnswer
<1>7. CASE ListTransactionsByAddress
    <2> DEFINE S == reader.ids \cap Having("vaa") \cap Having("parsed")
    <2>1. kind = "address" /\ reader.at = "page" /\ told = <<>>
        BY <1>3, <1>7 DEF ListTransactionsByAddress
    <2>2. PICK P \in Newest(S, PageLength) : End([v \in P |-> known[v]], FALSE)
        BY <1>7 DEF ListTransactionsByAddress, Answer
    <2>3. S \subseteq ReadVaas /\ IsFiniteSet(S)
        BY <1>1, HavingFinite
    <2>4. reader.begun \subseteq S
        BY <1>2, <2>1, HavingVaa DEF PageReads
    <2> HIDE DEF S
    <2>5. P \in SUBSET ReadVaas /\ (Cardinality(P) < PageLength => P = S)
        BY <1>2, <2>3, NewestAll
    <2> QED
        BY <2>1, <2>2, <2>4, <2>5, KnownShown, OneAnswer
<1>8. CASE FindAllOperations
    <2> DEFINE found == reader.ids \cap (Having("origin") \union Having("destination"))
               dated == found \cap Having("origin")
    <2>1. kind = "operations" /\ reader.at = "page" /\ told = <<>>
        BY <1>3, <1>8 DEF FindAllOperations
    <2>2. PICK P \in IF Cardinality(dated) >= PageLength THEN Newest(dated, PageLength)
                     ELSE {dated \union Q : Q \in Newest(found \ dated, PageLength - Cardinality(dated))} :
             End([v \in P |-> known[v]], FALSE)
        BY <1>8 DEF FindAllOperations, Answer
    <2>3. /\ found \subseteq ReadVaas /\ dated \subseteq found /\ IsFiniteSet(dated)
        BY <1>1, HavingFinite
    <2>4. reader.begun \subseteq dated
        BY <1>2, <2>1 DEF PageReads
    <2> HIDE DEF found, dated
    <2>5. P \in SUBSET ReadVaas /\ (Cardinality(P) < PageLength => dated \subseteq P)
        <3>1. CASE Cardinality(dated) >= PageLength
            <4>1. P \in Newest(dated, PageLength)
                BY <2>2, <3>1
            <4> QED
                BY <1>2, <2>3, <4>1, NewestAll
        <3>2. CASE ~(Cardinality(dated) >= PageLength)
            <4>1. PICK Q \in Newest(found \ dated, PageLength - Cardinality(dated)) : P = dated \union Q
                BY <2>2, <3>2
            <4>2. Q \subseteq found
                BY <4>1 DEF Newest
            <4> QED
                BY <2>3, <4>1, <4>2
        <3> QED
            BY <3>1, <3>2
    <2> QED
        BY <2>1, <2>2, <2>4, <2>5, KnownShown, OneAnswer
<1>9. CASE FindVaas
    <2> DEFINE found == IF reader.at = "txHash" THEN Having("hash") \ Nontrusted ELSE reader.ids
               S == found \cap Having("vaa")
    <2>1. reader.at \in {"vaas", "txHash"}
        BY <1>9 DEF FindVaas
    <2>2. kind # "transaction" /\ told = <<>> /\ kind # "report"
        BY <1>2, <1>3, <1>4, <2>1 DEF ReportReads
    <2>3. PICK skipped \in Newest(S, reader.page * PageLength) :
             \E P \in Newest(S \ skipped, PageLength) : Answer([v \in P |-> WithNativeTxHash(v)])
        BY <1>9 DEF FindVaas
    <2>4. PICK P \in Newest(S \ skipped, PageLength) : Answer([v \in P |-> WithNativeTxHash(v)])
        BY <2>3
    <2>5. /\ reader.page # 0 => reader.begun = {}
          /\ reader.begun \subseteq S \/ Cardinality(S) >= PageLength
        <3>1. CASE reader.at = "txHash"
            BY <1>2, <3>1, HavingVaa DEF PageReads
        <3>2. CASE reader.at = "vaas"
            <4>1. S = reader.ids
                BY <1>2, <3>2 DEF PageReads
            <4> QED
                BY <1>2, <3>2, <4>1 DEF PageReads
        <3> QED
            BY <2>1, <3>1, <3>2
    <2>6. S \subseteq ReadVaas /\ IsFiniteSet(S) /\ IsFiniteSet(S \ skipped)
        BY <1>1, HavingFinite
    <2> HIDE DEF found, S
    <2>7. /\ P \in SUBSET ReadVaas
          /\ Cardinality(P) < PageLength => P = S \ skipped
          /\ Cardinality(S \ skipped) < PageLength => P = S \ skipped
        BY <1>2, <2>4, <2>6, NewestAll
    <2>8. Cardinality(P) < PageLength => reader.begun \subseteq P
        <3> SUFFICES ASSUME Cardinality(P) < PageLength, reader.page = 0 PROVE reader.begun \subseteq P
            BY <2>5
        <3>1. reader.page * PageLength = 0
            BY <1>2
        <3>2. skipped = {}
            BY <2>3, <2>6, <3>1, NewestAll
        <3>3. P = S /\ Cardinality(S) \in Nat /\ Cardinality(S) < PageLength
            BY <2>6, <2>7, <3>2, FS_CardinalityType
        <3> QED
            BY <1>2, <2>5, <3>3
    <2> DEFINE f == [v \in P |-> WithNativeTxHash(v)]
    <2>9. f \in Shows /\ DOMAIN f = P
        <3>1. ASSUME NEW v \in P PROVE WithNativeTxHash(v) \in SUBSET KnownParts
            <4>1. known[v] \in SUBSET KnownParts
                BY <2>7 DEF ReadsInv, ReadsTyped, KnownRight
            <4>2. "hash" \in KnownParts
                BY DEF KnownParts
            <4> QED
                BY <4>1, <4>2 DEF WithNativeTxHash
        <3>2. f \in [P -> SUBSET KnownParts]
            BY <3>1
        <3> HIDE DEF f
        <3> QED
            BY <2>7, <3>2, ShownOf
    <2> HIDE DEF f
    <2>10. End(f, FALSE)
        BY <2>4 DEF f, Answer
    <2> QED
        BY <2>2, <2>8, <2>9, <2>10, OneAnswer
<1> QED
    BY <1>5, <1>6, <1>7, <1>8, <1>9

\* A VAA at the first place after the pages that were read is on the next one.
LEMMA OnPage ==
    ASSUME NEW n \in Nat, NEW p \in Nat, p * PageLength <= n
    PROVE  /\ n = p * PageLength => n \div PageLength = p
           /\ n \div PageLength # p => (p + 1) * PageLength <= n
<1> DEFINE L == PageLength
           d == n \div L
           m == n % L
<1>1. L \in Nat /\ L > 0
    BY ApiReadsAssumption
<1>2. d \in Nat /\ m \in Nat /\ m < L /\ n = L * d + m
    BY <1>1
<1>3. p * L \in Nat /\ d * L \in Nat /\ L * d = d * L /\ (p + 1) * L = p * L + L /\ (d + 1) * L = d * L + L
    BY <1>1, <1>2
<1> HIDE DEF d, m, L
<1>4. d < p => d * L + L <= p * L
    BY <1>1, <1>2
<1>5. p < d => p * L + L <= d * L
    BY <1>1, <1>2
<1>6. p * L <= n
    BY DEF L
<1>7. n = p * L => d = p
    BY <1>1, <1>2, <1>3, <1>4, <1>5
<1>8. d # p => (p + 1) * L <= n
    BY <1>1, <1>2, <1>3, <1>4, <1>5, <1>6
<1> QED
    BY <1>7, <1>8 DEF d, L

\* What is after a page is not before one that is on it.
LEMMA PageAfter ==
    ASSUME NEW m \in Nat, NEW n \in Nat, NEW p \in Nat,
           n \div PageLength = p, m + 1 <= n
    PROVE  ~((p + 1) * PageLength <= m)
<1> DEFINE L == PageLength
<1>1. L \in Nat /\ L > 0
    BY ApiReadsAssumption
<1> DEFINE d == n \div L
           k == n % L
<1>2. d \in Nat /\ k \in Nat /\ k < L /\ n = L * d + k /\ d = p
    BY <1>1
<1>3. (d + 1) * L = d * L + L /\ L * d = d * L /\ d * L \in Nat
    BY <1>1, <1>2
<1> HIDE DEF d, k, L
<1>4. n < (d + 1) * L /\ (d + 1) * L \in Nat
    BY <1>1, <1>2, <1>3
<1>5. ~((p + 1) * L <= m)
    BY <1>2, <1>4
<1> QED
    BY <1>5 DEF L

LEMMA ReportPageStep == ASSUME ReadsInv, ReportPage PROVE ReadsInv'
<1> DEFINE S == Having("vaa")
           p == reader.page
           showing == PageOf(S, p)
<1>1. /\ reader \in Reader /\ reader.ids \in SUBSET ReadVaas /\ reader.begun \in SUBSET ReadVaas
      /\ p \in Nat /\ reader.at = "report"
    BY DEF ReadsInv, ReadsTyped, Reader, ReportPage
<1>2. /\ kind = "report" /\ reader.begun \subseteq S
      /\ \A v \in reader.begun \ Unpriced : v \in reader.ids \/ p * PageLength <= Place(S, v)
      /\ NoHole(reader.begun, reader.ids)
    BY <1>1 DEF ReadsInv, ReportReads
<1>3. told = <<>>
    BY <1>1, <1>2 DEF ReadsInv, ReadsTyped
<1>4. S \subseteq ReadVaas
    BY DEF Having
<1>5. \A v : v \in showing <=> v \in S /\ Place(S, v) \div PageLength = p
    BY DEF PageOf, Place
<1>6. \/ showing = {} /\ Answer([v \in reader.ids |-> {"vaa"}])
      \/ /\ reader' = [reader EXCEPT !.page = p + 1, !.ids = reader.ids \union Written(showing)]
         /\ UNCHANGED <<known, kind, told>>
    BY DEF ReportPage
<1>7. p * PageLength \in Nat
    BY <1>1, ApiReadsAssumption
<1>8. \A v \in S : Place(S, v) \in Nat
    BY <1>4, Placed
<1> HIDE DEF S, showing
<1>9. CASE showing = {} /\ Answer([v \in reader.ids |-> {"vaa"}])
    <2>1. reader.begun \ Unpriced \subseteq reader.ids
        <3> SUFFICES ASSUME NEW v \in reader.begun \ Unpriced, v \notin reader.ids PROVE FALSE
            OBVIOUS
        <3>1. v \in S /\ p * PageLength <= Place(S, v)
            BY <1>2
        <3>2. PICK u \in S : Place(S, u) = p * PageLength
            BY <1>4, <1>7, <3>1, NoGapInPlaces
        <3>3. Place(S, u) \div PageLength = p
            BY <1>1, <1>7, <3>2, OnPage
        <3> QED
            BY <1>5, <1>9, <3>3
    <2> DEFINE f == [v \in reader.ids |-> {"vaa"}]
    <2>2. f \in Shows /\ DOMAIN f = reader.ids
        <3>1. {"vaa"} \in SUBSET KnownParts
            BY DEF KnownParts
        <3>2. f \in [reader.ids -> SUBSET KnownParts]
            BY <3>1
        <3> HIDE DEF f
        <3> QED
            BY <1>1, <3>2, ShownOf
    <2>3. End(f, FALSE) /\ NoHole(reader.begun, DOMAIN f)
        BY <1>2, <1>9, <2>2 DEF Answer
    <2> HIDE DEF f
    <2> QED
        BY <1>2, <1>3, <2>1, <2>2, <2>3, OneAnswer
<1>10. CASE /\ reader' = [reader EXCEPT !.page = p + 1, !.ids = reader.ids \union Written(showing)]
            /\ UNCHANGED <<known, kind, told>>
    <2> DEFINE r == [reader EXCEPT !.page = p + 1, !.ids = reader.ids \union Written(showing)]
    <2>1. Written(showing) \subseteq ReadVaas
        BY <1>4, <1>5 DEF Written
    <2>2. /\ r \in Reader /\ r.at = "report" /\ r.page = p + 1 /\ r.begun = reader.begun
          /\ r.ids = reader.ids \union Written(showing)
        <3> DEFINE next == p + 1
                   ids == reader.ids \union Written(showing)
        <3>1. next \in Nat /\ ids \in SUBSET ReadVaas
            BY <1>1, <2>1
        <3> HIDE DEF next, ids
        <3>2. r = [reader EXCEPT !.page = next, !.ids = ids]
            BY DEF next, ids
        <3>3. r \in Reader /\ r.at = reader.at /\ r.page = next /\ r.begun = reader.begun /\ r.ids = ids
            BY <1>1, <3>1, <3>2 DEF Reader
        <3> QED
            BY <1>1, <3>3 DEF next, ids
    <2>3. reader' = r
        BY <1>10
    <2> HIDE DEF r
    <2>4. PageReads(r)
        BY <1>2, <2>2 DEF PageReads
    <2>5. ASSUME NEW v \in reader.begun \ Unpriced, v \notin r.ids
          PROVE  (p + 1) * PageLength <= Place(S, v)
        <3>1. v \in S /\ p * PageLength <= Place(S, v)
            BY <1>2, <2>2, <2>5
        <3>2. v \notin showing
            BY <2>2, <2>5 DEF Written
        <3>3. Place(S, v) \div PageLength # p
            BY <1>5, <3>1, <3>2
        <3> QED
            BY <1>1, <1>8, <3>1, <3>3, OnPage
    <2>6. NoHole(r.begun, r.ids)
        <3> SUFFICES ASSUME NEW u \in reader.begun \ Unpriced, u \notin r.ids, NEW v \in r.ids, ShownBefore(u, v)
                     PROVE  FALSE
            BY <2>2 DEF NoHole
        <3>1. v \in showing
            BY <1>2, <2>2 DEF NoHole, Written
        <3>2. u \in S /\ v \in S /\ Place(S, v) \div PageLength = p
            BY <1>2, <1>5, <3>1
        <3>3. Place(S, u) + 1 <= Place(S, v)
            BY <1>4, <3>2, Placed
        <3>4. (p + 1) * PageLength <= Place(S, u)
            BY <2>2, <2>5
        <3>5. Place(S, u) \in Nat /\ Place(S, v) \in Nat
            BY <1>8, <3>2
        <3> QED
            BY <1>1, <3>2, <3>3, <3>4, <3>5, PageAfter
    <2>8. ReportReads(r)
        BY <1>2, <2>2, <2>5, <2>6 DEF ReportReads, S
    <2>7. kind # "transaction" /\ r.at # "idle"
        BY <1>2, <2>2
    <2> QED
        BY <1>3, <1>10, <2>2, <2>3, <2>4, <2>7, <2>8, ReaderGoesOn
<1> QED
    BY <1>6, <1>9, <1>10

LEMMA ReportFailsStep == ASSUME ReadsInv, ReportFails PROVE ReadsInv'
<1>1. /\ reader.at = "report" /\ kind = "report" /\ NoHole(reader.begun, reader.ids)
      /\ reader.ids \in SUBSET ReadVaas
    BY DEF ReadsInv, ReportReads, ReadsTyped, Reader, ReportFails
<1>2. told = <<>>
    BY <1>1 DEF ReadsInv, ReadsTyped
<1> DEFINE f == [v \in reader.ids |-> {"vaa"}]
<1>3. f \in Shows /\ DOMAIN f = reader.ids
    <2>1. {"vaa"} \in SUBSET KnownParts
        BY DEF KnownParts
    <2>2. f \in [reader.ids -> SUBSET KnownParts]
        BY <2>1
    <2> HIDE DEF f
    <2> QED
        BY <1>1, <2>2, ShownOf
<1>4. End(f, TRUE) /\ NoHole(reader.begun, DOMAIN f)
    BY <1>1, <1>3 DEF ReportFails
<1> HIDE DEF f
<1> QED
    BY <1>1, <1>2, <1>3, <1>4, OneAnswer

LEMMA ReadsStep == ASSUME ReadsInv, [ReadsNext]_readVars PROVE ReadsInv'
<1>1. CASE UNCHANGED readVars
    <2>1. reader' = reader /\ UNCHANGED <<known, kind, told>>
        BY <1>1 DEF readVars
    <2>2. /\ ReadsTyped' /\ AddressComplete' /\ ReportComplete'
          /\ PageReads(reader)' /\ ReportReads(reader)'
        BY <2>1 DEF ReadsInv, ReadsTyped, KnownRight, AddressComplete, ReportComplete, PageReads,
                    ReportReads, Having, Place
    <2>3. PageGrows'
        BY <2>1 DEF ReadsInv, PageGrows, AnswersGrow, FoundById, ShownNow, GlobalTransaction, OriginTxFromVaa
    <2> QED
        BY <2>2, <2>3 DEF ReadsInv
<1>2. CASE ReadsNext
    BY <1>2, FindGlobalTransactionStep, StorePartStep, ReadFailsStep, FindOriginTxStep, BeginStep,
       EndStep, ReportPageStep, ReportFailsStep DEF ReadsNext
<1> QED
    BY <1>1, <1>2

\* The page of one VAA never takes back what it showed; the first page of an address,
\* a hash or an emitter, when there is room left on it, has every VAA that was to be
\* found; and a transfer with a price that was stored when the report began is missing
\* only from the end of one that a failed page cut off, whatever is written meanwhile
\* (repository.go of the api's transactions, operations and vaas, transfer_report.go).
THEOREM PagesStayRight == ServicesSpec => []ReadsRight
<1>1. ServicesInit => ReadsInv
    BY ReadsInitInv DEF ServicesInit
<1>2. ReadsInv /\ [ServicesNext]_servicesVars => ReadsInv'
    BY OnePart, ReadsStep
<1> QED
    BY <1>1, <1>2, ReadsInvRight, PTL DEF ServicesSpec

\* Whatever the api is asked for, and whatever is read from the chains: the answer
\* is right (see FetchesStayRight, PagesStayRight, CacheStaysRight).
THEOREM AnswersStayRight == ServicesSpec => []AnswersRight
<1>1. FetchesRight /\ ReadsRight /\ CachedRight => AnswersRight
    BY DEF AnswersRight
<1> QED
    BY <1>1, FetchesStayRight, PagesStayRight, CacheStaysRight, PTL
------------------------------------------------------------------------------
(* The governor.                                                            *)

\* A finite set has a member nothing comes after, and one nothing comes before.
LEMMA Lowest ==
    ASSUME NEW T, IsFiniteSet(T), T # {}, NEW R,
           \A a, b, c \in T : <<a, b>> \in R /\ <<b, c>> \in R => <<a, c>> \in R,
           \A a \in T : <<a, a>> \notin R
    PROVE  \E g \in T : \A h \in T : <<g, h>> \notin R
<1> DEFINE after(g) == {h \in T : <<g, h>> \in R}
           sizes == {Cardinality(after(g)) : g \in T}
<1>1. \A g \in T : IsFiniteSet(after(g)) /\ Cardinality(after(g)) \in Nat
    BY FS_Subset, FS_CardinalityType
<1>2. sizes \in SUBSET Nat /\ sizes # {}
    <2> HIDE DEF after
    <2> QED
        BY <1>1
<1>3. PICK n \in sizes : \A m \in sizes : n <= m
    <2> HIDE DEF sizes
    <2> QED
        BY <1>2, LeastNumber
<1>4. PICK g \in T : n = Cardinality(after(g))
    BY <1>3
<1>5. ASSUME NEW h \in T, <<g, h>> \in R PROVE FALSE
    <2>1. after(h) \in SUBSET after(g)
        BY <1>5
    <2>2. h \in after(g) /\ h \notin after(h)
        BY <1>5
    <2>3. Cardinality(after(h)) \in sizes
        BY <1>5
    <2> HIDE DEF after, sizes
    <2>4. Cardinality(after(h)) <= Cardinality(after(g)) /\ Cardinality(after(h)) # Cardinality(after(g))
        BY <1>1, <2>1, <2>2, FS_Subset
    <2>5. Cardinality(after(g)) <= Cardinality(after(h))
        BY <1>3, <1>4, <2>3
    <2> QED
        BY <1>1, <1>5, <2>4, <2>5
<1> QED
    BY <1>5

LEMMA Highest ==
    ASSUME NEW T, IsFiniteSet(T), T # {}, NEW R,
           \A a, b, c \in T : <<a, b>> \in R /\ <<b, c>> \in R => <<a, c>> \in R,
           \A a \in T : <<a, a>> \notin R
    PROVE  \E g \in T : \A h \in T : <<h, g>> \notin R
<1> DEFINE Q == {p \in T \X T : <<p[2], p[1]>> \in R}
<1>1. \A a, b \in T : <<a, b>> \in Q <=> <<b, a>> \in R
    OBVIOUS
<1>2. \A a, b, c \in T : <<a, b>> \in Q /\ <<b, c>> \in Q => <<a, c>> \in Q
    BY <1>1
<1>3. \A a \in T : <<a, a>> \notin Q
    BY <1>1
<1>4. \E g \in T : \A h \in T : <<g, h>> \notin Q
    <2> HIDE DEF Q
    <2> QED
        BY <1>2, <1>3, Lowest
<1> QED
    BY <1>1, <1>4

\* When a quorum is there, some guardian is at its place.
LEMMA QuorumHeld ==
    ASSUME NEW S, IsFiniteSet(S), Cardinality(S) >= MinGuardianNum, NEW R,
           \A a, b, c \in S : <<a, b>> \in R /\ <<b, c>> \in R => <<a, c>> \in R,
           \A a \in S : <<a, a>> \notin R
    PROVE  AtQuorum(S, R) # {}
<1> DEFINE above(g) == {h \in S : <<h, g>> \in R}
           upTo(g) == {h \in S : <<g, h>> \notin R}
           G == {g \in S : Cardinality(upTo(g)) >= MinGuardianNum}
<1>1. MinGuardianNum \in Nat \ {0} /\ Cardinality(S) \in Nat /\ S # {}
    BY GovernorAssumption, FS_CardinalityType, FS_EmptySet
<1>2. G # {}
    <2>1. PICK g \in S : \A h \in S : <<g, h>> \notin R
        BY <1>1, Lowest
    <2>2. upTo(g) = S
        BY <2>1
    <2> QED
        BY <2>2
<1>3. PICK g \in G : \A h \in G : <<h, g>> \notin R
    <2>1. IsFiniteSet(G)
        BY FS_Subset
    <2>2. G \subseteq S
        OBVIOUS
    <2> HIDE DEF G
    <2> QED
        BY <1>2, <2>1, <2>2, Highest
<1>4. ASSUME Cardinality(above(g)) >= MinGuardianNum PROVE FALSE
    <2>1. IsFiniteSet(above(g)) /\ above(g) # {} /\ above(g) \subseteq S
        <3>1. above(g) \in SUBSET S
            OBVIOUS
        <3>2. IsFiniteSet(above(g))
            BY <3>1, FS_Subset
        <3>3. Cardinality(above(g)) # 0
            BY <1>1, <1>4
        <3> QED
            BY <3>1, <3>2, <3>3, FS_EmptySet
    <2>2. PICK h \in above(g) : \A k \in above(g) : <<h, k>> \notin R
        <3> HIDE DEF above
        <3> QED
            BY <2>1, Lowest
    <2>3. above(g) \in SUBSET upTo(h) /\ IsFiniteSet(upTo(h))
        BY <2>2, FS_Subset
    <2>4. Cardinality(above(g)) <= Cardinality(upTo(h))
        BY <2>3, FS_Subset
    <2>5. Cardinality(above(g)) \in Nat /\ Cardinality(upTo(h)) \in Nat
        BY <2>1, <2>3, FS_CardinalityType
    <2>6. h \in G
        BY <1>1, <1>4, <2>1, <2>2, <2>4, <2>5
    <2> QED
        BY <1>3, <2>2, <2>6
<1>5. g \in S /\ Cardinality(upTo(g)) >= MinGuardianNum /\ Cardinality(above(g)) \in Nat
    BY <1>3, FS_Subset, FS_CardinalityType
<1>6. Cardinality(above(g)) < MinGuardianNum
    BY <1>1, <1>4, <1>5
<1> QED
    BY <1>5, <1>6 DEF AtQuorum

Figure(S, f) == \A g \in S : f[g] \in Nat

\* Whatever else the order looks at, a guardian at the quorum's place has the figure
\* a quorum vouches for.
LEMMA HeldVouched ==
    ASSUME NEW S, IsFiniteSet(S), NEW R, NEW f, Figure(S, f), NEW g \in AtQuorum(S, R),
           \A a, b \in S : f[a] > f[b] => <<a, b>> \in R
    PROVE  g \in S /\ VouchedFor(f[g], S, f)
<1> DEFINE above == {h \in S : <<h, g>> \in R}
           upTo == {h \in S : <<g, h>> \notin R}
           backers(x) == {h \in S : f[h] >= x}
<1>1. g \in S /\ Cardinality(above) < MinGuardianNum /\ Cardinality(upTo) >= MinGuardianNum
    BY DEF AtQuorum
<1>2. MinGuardianNum \in Nat
    BY GovernorAssumption
<1>3. \A x : IsFiniteSet(backers(x)) /\ Cardinality(backers(x)) \in Nat
    BY FS_Subset, FS_CardinalityType
<1>4. IsFiniteSet(above) /\ Cardinality(above) \in Nat /\ IsFiniteSet(upTo) /\ Cardinality(upTo) \in Nat
    BY FS_Subset, FS_CardinalityType
<1>5. Cardinality(backers(f[g])) >= MinGuardianNum
    <2>1. upTo \in SUBSET backers(f[g])
        BY <1>1 DEF Figure
    <2>2. Cardinality(upTo) <= Cardinality(backers(f[g]))
        BY <1>3, <2>1, FS_Subset
    <2> QED
        BY <1>1, <1>2, <1>3, <1>4, <2>2
<1>6. ASSUME NEW k \in S, Cardinality(backers(f[k])) >= MinGuardianNum PROVE f[k] <= f[g]
    <2>1. SUFFICES ASSUME f[k] > f[g] PROVE FALSE
        BY <1>1, <1>6 DEF Figure
    <2>2. backers(f[k]) \in SUBSET above
        BY <1>1, <1>6, <2>1 DEF Figure
    <2>3. Cardinality(backers(f[k])) <= Cardinality(above)
        BY <1>4, <2>2, FS_Subset
    <2> QED
        BY <1>1, <1>2, <1>3, <1>4, <1>6, <2>3
<1> QED
    BY <1>1, <1>5, <1>6 DEF VouchedFor

\* There is one such figure.
LEMMA VouchedOnce ==
    ASSUME NEW S, NEW f, Figure(S, f), NEW g \in S, NEW h \in S,
           VouchedFor(f[g], S, f), VouchedFor(f[h], S, f)
    PROVE  f[g] = f[h]
<1>1. f[g] <= f[h] /\ f[h] <= f[g] /\ f[g] \in Nat /\ f[h] \in Nat
    BY DEF VouchedFor, Figure
<1> QED
    BY <1>1

LEMMA DownwardsOrder ==
    ASSUME NEW S, NEW f, Figure(S, f)
    PROVE  /\ \A a, b, c \in S : <<a, b>> \in Downwards(S, f) /\ <<b, c>> \in Downwards(S, f)
                => <<a, c>> \in Downwards(S, f)
           /\ \A a \in S : <<a, a>> \notin Downwards(S, f)
           /\ \A a, b \in S : f[a] > f[b] => <<a, b>> \in Downwards(S, f)
BY DEF Downwards, Figure

\* A figure of the api is the one a quorum vouches for.
LEMMA QuorumVouched ==
    ASSUME NEW S, IsFiniteSet(S), NEW f, Figure(S, f), Cardinality(S) >= MinGuardianNum
    PROVE  \E g \in S : QuorumFigure(S, f) = f[g] /\ VouchedFor(f[g], S, f)
<1> DEFINE R == Downwards(S, f)
<1>1. AtQuorum(S, R) # {}
    BY DownwardsOrder, QuorumHeld
<1> DEFINE g == CHOOSE h \in AtQuorum(S, R) : TRUE
<1>2. g \in AtQuorum(S, R)
    BY <1>1
<1>3. g \in S /\ VouchedFor(f[g], S, f)
    <2> HIDE DEF g
    <2> QED
        BY <1>2, DownwardsOrder, HeldVouched
<1>4. QuorumFigure(S, f) = f[g]
    <2>1. MinGuardianNum \in Nat /\ Cardinality(S) \in Nat
        BY GovernorAssumption, FS_CardinalityType
    <2>2. ~(Cardinality(S) < MinGuardianNum)
        BY <2>1
    <2> QED
        BY <2>2 DEF QuorumFigure
<1> QED
    BY <1>3, <1>4

\* A quorum that reports at least x lifts the figure to x.
LEMMA QuorumLifts ==
    ASSUME NEW S, IsFiniteSet(S), NEW f, Figure(S, f), NEW T \in SUBSET S, NEW x \in Nat, NEW y \in Nat,
           Cardinality(T) >= MinGuardianNum, \A g \in T : f[g] >= x, VouchedFor(y, S, f)
    PROVE  y >= x
<1>1. MinGuardianNum \in Nat \ {0} /\ IsFiniteSet(T) /\ Cardinality(T) \in Nat
    BY GovernorAssumption, FS_Subset, FS_CardinalityType
<1>2. T # {}
    BY <1>1, FS_EmptySet
<1>3. PICK g \in T : \A h \in T : <<g, h>> \notin Downwards(T, f)
    <2>1. Figure(T, f)
        BY DEF Figure
    <2> QED
        BY <1>1, <1>2, <2>1, DownwardsOrder, Lowest
<1>4. T \in SUBSET {h \in S : f[h] >= f[g]}
    <2>1. ASSUME NEW h \in T PROVE f[h] >= f[g]
        <3>1. ~(f[g] > f[h])
            BY <1>3 DEF Downwards
        <3>2. f[g] \in Nat /\ f[h] \in Nat
            BY <1>3 DEF Figure
        <3> QED
            BY <3>1, <3>2
    <2> QED
        BY <2>1
<1>5. IsFiniteSet({h \in S : f[h] >= f[g]})
    BY FS_Subset
<1>6. Cardinality(T) <= Cardinality({h \in S : f[h] >= f[g]}) /\ Cardinality({h \in S : f[h] >= f[g]}) \in Nat
    BY <1>4, <1>5, FS_Subset, FS_CardinalityType
<1>7. Cardinality({h \in S : f[h] >= f[g]}) >= MinGuardianNum
    BY <1>1, <1>6
<1>8. f[g] <= y /\ f[g] >= x /\ f[g] \in Nat
    BY <1>3, <1>7 DEF VouchedFor, Figure
<1> QED
    BY <1>8

GovernorInv ==
    /\ GovernorTypeOK
    /\ DOMAIN governorStatus = Guardians /\ DOMAIN governorConfig = Guardians

LEMMA GovernorStep == ASSUME GovernorInv, [GovernorNext]_governorVars PROVE GovernorInv'
<1>1. CASE UNCHANGED governorVars
    BY <1>1 DEF governorVars, GovernorInv, GovernorTypeOK
<1>2. ASSUME NEW g \in Guardians, UpsertGovernorStatus(g) PROVE GovernorInv'
    <2>1. PICK s \in Statuses[g] : governorStatus' = [governorStatus EXCEPT ![g] = s]
        BY <1>2 DEF UpsertGovernorStatus
    <2>2. DOMAIN governorStatus' = Guardians /\ UNCHANGED governorConfig
        BY <1>2, <2>1 DEF GovernorInv, UpsertGovernorStatus
    <2>3. ASSUME NEW h \in Guardians PROVE governorStatus'[h] \in Statuses[h] \union {NoDoc}
        BY <2>1, <1>2 DEF GovernorInv, GovernorTypeOK
    <2> QED
        BY <2>2, <2>3 DEF GovernorInv, GovernorTypeOK
<1>3. ASSUME NEW g \in Guardians, UpsertGovernorConfig(g) PROVE GovernorInv'
    <2>1. PICK c \in Configs[g] : governorConfig' = [governorConfig EXCEPT ![g] = c]
        BY <1>3 DEF UpsertGovernorConfig
    <2>2. DOMAIN governorConfig' = Guardians /\ UNCHANGED governorStatus
        BY <1>3, <2>1 DEF GovernorInv, UpsertGovernorConfig
    <2>3. ASSUME NEW h \in Guardians PROVE governorConfig'[h] \in Configs[h] \union {NoDoc}
        BY <2>1, <1>3 DEF GovernorInv, GovernorTypeOK
    <2> QED
        BY <2>2, <2>3 DEF GovernorInv, GovernorTypeOK
<1> QED
    BY <1>1, <1>2, <1>3 DEF GovernorNext

LEMMA Reported ==
    ASSUME GovernorTypeOK
    PROVE  /\ IsFiniteSet(WithStatus) /\ IsFiniteSet(WithConfig) /\ IsFiniteSet(Both)
           /\ Figure(WithStatus, Available) /\ Figure(WithConfig, Limit) /\ Figure(WithConfig, MaxSize)
<1>1. WithStatus \in SUBSET Guardians /\ WithConfig \in SUBSET Guardians /\ Both \in SUBSET Guardians
    BY DEF WithStatus, WithConfig, Both
<1>2. IsFiniteSet(WithStatus) /\ IsFiniteSet(WithConfig) /\ IsFiniteSet(Both)
    BY <1>1, GovernorAssumption, FS_Subset
<1>3. \A g \in WithStatus : governorStatus[g] \in Statuses[g] /\ g \in Guardians
    BY DEF GovernorTypeOK, WithStatus
<1>4. \A g \in WithConfig : governorConfig[g] \in Configs[g] /\ g \in Guardians
    BY DEF GovernorTypeOK, WithConfig
<1>5. Figure(WithStatus, Available)
    BY <1>3, GovernorAssumption DEF Figure, Available
<1>6. Figure(WithConfig, Limit) /\ Figure(WithConfig, MaxSize)
    BY <1>4, GovernorAssumption DEF Figure, Limit, MaxSize
<1> QED
    BY <1>2, <1>5, <1>6

LEMMA ShortOfQuorum ==
    ASSUME NEW S, NEW f, Cardinality(S) < MinGuardianNum
    PROVE  QuorumFigure(S, f) = NotFound
BY DEF QuorumFigure

LEMMA QuorumBackedRight == ASSUME GovernorTypeOK PROVE QuorumBacked
<1>1. /\ IsFiniteSet(WithStatus) /\ IsFiniteSet(WithConfig)
      /\ Figure(WithStatus, Available) /\ Figure(WithConfig, Limit) /\ Figure(WithConfig, MaxSize)
    BY Reported
<1>2. /\ MinGuardianNum \in Nat
      /\ Cardinality(WithStatus) \in Nat /\ Cardinality(WithConfig) \in Nat
    BY <1>1, GovernorAssumption, FS_CardinalityType
<1>3. ASSUME Cardinality(WithStatus) < MinGuardianNum PROVE GetAvailableNotional = NotFound
    BY <1>3, ShortOfQuorum DEF GetAvailableNotional
<1>4. ASSUME ~(Cardinality(WithStatus) < MinGuardianNum)
      PROVE  /\ VouchedFor(GetAvailableNotional, WithStatus, Available)
             /\ \A s \in GetMaxNotionalAvailableByChainID :
                   s.remainingAvailableNotional = GetAvailableNotional
             /\ \E r \in GetAvailableNotionalByChainID : r.availableNotional = GetAvailableNotional
    <2>1. PICK g \in WithStatus : /\ GetAvailableNotional = Available[g]
                                  /\ VouchedFor(Available[g], WithStatus, Available)
        BY <1>1, <1>2, <1>4, QuorumVouched DEF GetAvailableNotional
    <2>2. ASSUME NEW s \in GetMaxNotionalAvailableByChainID
          PROVE  s.remainingAvailableNotional = GetAvailableNotional
        <3>1. PICK h \in AtQuorum(WithStatus, Downwards(WithStatus, Available)) : s = governorStatus[h]
            BY <1>4, <2>2 DEF GetMaxNotionalAvailableByChainID
        <3>2. h \in WithStatus /\ VouchedFor(Available[h], WithStatus, Available)
            BY <1>1, DownwardsOrder, HeldVouched
        <3>3. Available[h] = Available[g]
            BY <1>1, <2>1, <3>2, VouchedOnce
        <3>4. Available[h] = s.remainingAvailableNotional
            BY <3>1, <3>2 DEF Available
        <3> QED
            BY <2>1, <3>3, <3>4
    <2>3. [guardian |-> g, availableNotional |-> Available[g]] \in GetAvailableNotionalByChainID
        BY DEF GetAvailableNotionalByChainID
    <2> QED
        BY <2>1, <2>2, <2>3
<1>5. ASSUME Cardinality(WithConfig) < MinGuardianNum PROVE FindNotionalLimit = NotFound
    BY <1>5 DEF FindNotionalLimit
<1>6. ASSUME ~(Cardinality(WithConfig) < MinGuardianNum)
      PROVE  /\ VouchedFor(FindNotionalLimit.notionalLimit, WithConfig, Limit)
             /\ \E r \in GetNotionalLimitByChainID :
                   /\ r.notionalLimit = FindNotionalLimit.notionalLimit
                   /\ r.maxTransactionSize = FindNotionalLimit.maxTransactionSize
    <2> DEFINE order == {p \in WithConfig \X WithConfig :
                            \/ Limit[p[1]] > Limit[p[2]]
                            \/ Limit[p[1]] = Limit[p[2]] /\ MaxSize[p[1]] > MaxSize[p[2]]}
               g == CHOOSE h \in AtQuorum(WithConfig, order) : TRUE
    <2>1. \A a, b \in WithConfig : <<a, b>> \in order <=>
                \/ Limit[a] > Limit[b]
                \/ Limit[a] = Limit[b] /\ MaxSize[a] > MaxSize[b]
        OBVIOUS
    <2>2. FindNotionalLimit = [notionalLimit |-> Limit[g], maxTransactionSize |-> MaxSize[g]]
        BY <1>6 DEF FindNotionalLimit
    <2> HIDE DEF order
    <2>3. \A a \in WithConfig : Limit[a] \in Nat /\ MaxSize[a] \in Nat
        BY <1>1 DEF Figure
    <2>4. ASSUME NEW a \in WithConfig, NEW b \in WithConfig, NEW c \in WithConfig,
                 <<a, b>> \in order, <<b, c>> \in order
          PROVE  <<a, c>> \in order
        BY <2>1, <2>3, <2>4
    <2>5. \A a \in WithConfig : <<a, a>> \notin order
        BY <2>1, <2>3
    <2>6. \A a, b \in WithConfig : Limit[a] > Limit[b] => <<a, b>> \in order
        BY <2>1
    <2>7. g \in AtQuorum(WithConfig, order)
        <3>1. Cardinality(WithConfig) >= MinGuardianNum
            BY <1>2, <1>6
        <3>2. AtQuorum(WithConfig, order) # {}
            BY <1>1, <3>1, <2>4, <2>5, QuorumHeld
        <3> QED
            BY <3>2
    <2> HIDE DEF g
    <2>8. g \in WithConfig /\ VouchedFor(Limit[g], WithConfig, Limit)
        BY <1>1, <2>6, <2>7, HeldVouched
    <2>9. [guardian |-> g, notionalLimit |-> Limit[g], maxTransactionSize |-> MaxSize[g]]
             \in GetNotionalLimitByChainID
        BY <2>8 DEF GetNotionalLimitByChainID
    <2> QED
        BY <2>2, <2>8, <2>9
<1> QED
    BY <1>3, <1>4, <1>5, <1>6 DEF QuorumBacked

\* What a quorum vouches for is within what the honest guardians report.
LEMMA VouchedHeld ==
    ASSUME NEW S, IsFiniteSet(S), NEW f, Figure(S, f), NEW x \in Nat,
           Cardinality(S) >= MinGuardianNum => VouchedFor(x, S, f)
    PROVE  HeldByHonest(x, S, f)
<1> DEFINE honest == S \ Faulty
<1> SUFFICES ASSUME Cardinality(honest) >= MinGuardianNum
             PROVE  /\ \E g \in honest : f[g] >= x
                    /\ \E g \in honest : f[g] <= x
    BY DEF HeldByHonest
<1>2. honest \in SUBSET S /\ IsFiniteSet(honest)
    BY FS_Subset
<1>3. MinGuardianNum \in Nat \ {0} /\ Cardinality(honest) \in Nat /\ Cardinality(S) \in Nat
    BY <1>2, GovernorAssumption, FS_CardinalityType
<1>4. Cardinality(honest) <= Cardinality(S)
    BY <1>2, FS_Subset
<1>5. VouchedFor(x, S, f)
    BY <1>3, <1>4
<1>7. \E h \in honest : f[h] >= x
    <2> DEFINE backers == {h \in S : f[h] >= x}
    <2>1. Cardinality(backers) >= MinGuardianNum
        BY <1>5 DEF VouchedFor
    <2>2. IsFiniteSet(Faulty)
        BY GovernorAssumption, FS_Subset
    <2>3. ASSUME backers \subseteq Faulty PROVE FALSE
        <3>1. Cardinality(backers) <= Cardinality(Faulty) /\ Cardinality(Faulty) \in Nat
            BY <2>2, <2>3, FS_Subset, FS_CardinalityType
        <3>2. IsFiniteSet(backers)
            BY FS_Subset
        <3>3. Cardinality(backers) \in Nat /\ Cardinality(Faulty) < MinGuardianNum
            BY <3>2, FS_CardinalityType, GovernorAssumption
        <3> QED
            BY <1>3, <2>1, <3>1, <3>3
    <2> QED
        BY <2>3
<1>8. \E h \in honest : f[h] <= x
    <2> SUFFICES ASSUME \A h \in honest : ~(f[h] <= x) PROVE FALSE
        OBVIOUS
    <2>1. \A h \in honest : f[h] >= x + 1
        BY DEF Figure
    <2>2. x + 1 \in Nat
        OBVIOUS
    <2> HIDE DEF honest
    <2>4. \A y \in Nat : y = x + 1 => x >= y
        BY <1>2, <1>5, <2>1, QuorumLifts
    <2> QED
        BY <2>2, <2>4
<1> QED
    BY <1>7, <1>8

\* The figure at the quorum, when too few have reported: the honest are no quorum then.
LEMMA TooFewHeld ==
    ASSUME NEW S, IsFiniteSet(S), Cardinality(S) < MinGuardianNum, NEW f, NEW x
    PROVE  HeldByHonest(x, S, f)
<1>1. S \ Faulty \in SUBSET S /\ IsFiniteSet(S \ Faulty)
    BY FS_Subset
<1>2. Cardinality(S \ Faulty) <= Cardinality(S)
    BY <1>1, FS_Subset
<1>3. Cardinality(S \ Faulty) \in Nat /\ Cardinality(S) \in Nat /\ MinGuardianNum \in Nat
    BY <1>1, FS_CardinalityType, GovernorAssumption
<1> QED
    BY <1>2, <1>3 DEF HeldByHonest

LEMMA QuorumFigureHeld ==
    ASSUME NEW S, IsFiniteSet(S), NEW f, Figure(S, f)
    PROVE  HeldByHonest(QuorumFigure(S, f), S, f)
<1>1. Cardinality(S) \in Nat /\ MinGuardianNum \in Nat
    BY FS_CardinalityType, GovernorAssumption
<1>2. CASE Cardinality(S) < MinGuardianNum
    BY <1>2, TooFewHeld
<1>3. CASE Cardinality(S) >= MinGuardianNum
    <2>1. PICK g \in S : /\ QuorumFigure(S, f) = f[g]
                         /\ VouchedFor(f[g], S, f)
        BY <1>3, QuorumVouched
    <2>2. f[g] \in Nat
        BY DEF Figure
    <2>3. HeldByHonest(f[g], S, f)
        BY <2>1, <2>2, VouchedHeld
    <2> QED
        BY <2>1, <2>3
<1> QED
    BY <1>1, <1>2, <1>3

LEMMA FaultyRight == ASSUME GovernorTypeOK PROVE FaultyCannotMove
<1>1. /\ IsFiniteSet(WithStatus) /\ Figure(WithStatus, Available)
      /\ IsFiniteSet(WithConfig) /\ Figure(WithConfig, Limit) /\ Figure(WithConfig, MaxSize)
    BY Reported
<1>2. /\ IsFiniteSet(Both) /\ Figure(Both, Available) /\ Figure(Both, Limit) /\ Figure(Both, MaxSize)
    BY <1>1, FS_Subset DEF Both, Figure
<1>3. HeldByHonest(GetAvailableNotional, WithStatus, Available)
    BY <1>1, QuorumFigureHeld DEF GetAvailableNotional
<1>4. HeldByHonest(FindNotionalLimit.notionalLimit, WithConfig, Limit)
    <2>1. CASE Cardinality(WithConfig) < MinGuardianNum
        BY <1>1, <2>1, TooFewHeld
    <2>2. CASE ~(Cardinality(WithConfig) < MinGuardianNum)
        <3>1. /\ VouchedFor(FindNotionalLimit.notionalLimit, WithConfig, Limit)
              /\ \E g \in WithConfig : FindNotionalLimit.notionalLimit = Limit[g]
            <4>1. /\ VouchedFor(FindNotionalLimit.notionalLimit, WithConfig, Limit)
                  /\ \E r \in GetNotionalLimitByChainID : r.notionalLimit = FindNotionalLimit.notionalLimit
                BY <2>2, QuorumBackedRight DEF QuorumBacked
            <4> QED
                BY <4>1 DEF GetNotionalLimitByChainID
        <3>2. FindNotionalLimit.notionalLimit \in Nat
            BY <1>1, <3>1 DEF Figure
        <3> QED
            BY <1>1, <3>1, <3>2, VouchedHeld
    <2> QED
        BY <2>1, <2>2
<1>5. /\ HeldByHonest(GetGovernorLimit.notionalLimit, Both, Limit)
      /\ HeldByHonest(GetGovernorLimit.maxTransactionSize, Both, MaxSize)
      /\ HeldByHonest(GetGovernorLimit.availableNotional, Both, Available)
    BY <1>2, QuorumFigureHeld DEF GetGovernorLimit
<1> QED
    BY <1>3, <1>4, <1>5 DEF FaultyCannotMove

LEMMA LimitsRight == ASSUME GovernorTypeOK PROVE LimitsConsistent
<1>1. /\ IsFiniteSet(Both) /\ Both \subseteq WithStatus /\ Both \subseteq WithConfig
      /\ Figure(Both, Available) /\ Figure(Both, Limit)
    BY Reported DEF Both, Figure
<1>2. MinGuardianNum \in Nat \ {0} /\ Cardinality(Both) \in Nat
    BY <1>1, GovernorAssumption, FS_CardinalityType
<1> DEFINE limit == QuorumFigure(Both, Limit)
           left == QuorumFigure(Both, Available)
<1>3. /\ LimitsConsistent <=>
            /\ (\A g \in Both : Available[g] <= Limit[g]) => left <= limit
            /\ left # NotFound => GetAvailNotionByChain <= left
    BY DEF LimitsConsistent, GetGovernorLimit
<1> HIDE DEF limit, left
<1>4. CASE Cardinality(Both) < MinGuardianNum
    <2>1. left = NotFound /\ limit = NotFound
        BY <1>4, ShortOfQuorum DEF left, limit
    <2> QED
        BY <1>3, <2>1 DEF NotFound
<1>5. CASE ~(Cardinality(Both) < MinGuardianNum)
    <2>1. Cardinality(Both) >= MinGuardianNum
        BY <1>2, <1>5
    <2>2. PICK g \in Both : left = Available[g] /\ VouchedFor(left, Both, Available)
        BY <1>1, <2>1, QuorumVouched DEF left
    <2>3. PICK k \in Both : limit = Limit[k] /\ VouchedFor(limit, Both, Limit)
        BY <1>1, <2>1, QuorumVouched DEF limit
    <2>4. left \in Nat /\ limit \in Nat
        BY <1>1, <2>2, <2>3 DEF Figure
    <2>5. ASSUME \A h \in Both : Available[h] <= Limit[h] PROVE left <= limit
        <3> DEFINE T == {h \in Both : Available[h] >= left}
        <3>1. T \in SUBSET Both /\ Cardinality(T) >= MinGuardianNum
            BY <2>2 DEF VouchedFor
        <3>2. \A h \in T : Limit[h] >= left
            BY <1>1, <2>4, <2>5 DEF Figure
        <3> HIDE DEF T
        <3>3. limit >= left
            BY <1>1, <2>3, <2>4, <3>1, <3>2, QuorumLifts
        <3> QED
            BY <2>4, <3>3
    <2>6. GetAvailNotionByChain <= left
        <3>1. PICK h \in Both : \A j \in Both : Available[h] <= Available[j]
            <4>1. Both # {}
                BY <2>2
            <4>2. PICK h \in Both : \A j \in Both : <<h, j>> \notin Downwards(Both, Available)
                BY <1>1, <4>1, DownwardsOrder, Lowest
            <4>3. ASSUME NEW j \in Both PROVE Available[h] <= Available[j]
                <5>1. ~(Available[h] > Available[j])
                    BY <4>2 DEF Downwards
                <5>2. Available[h] \in Nat /\ Available[j] \in Nat
                    BY <1>1 DEF Figure
                <5> QED
                    BY <5>1, <5>2
            <4> QED
                BY <4>3
        <3> DEFINE least == CHOOSE i \in Both : \A j \in Both : Available[i] <= Available[j]
        <3>2. least \in Both /\ \A j \in Both : Available[least] <= Available[j]
            BY <3>1
        <3>3. GetAvailNotionByChain = Available[least]
            BY <2>2 DEF GetAvailNotionByChain
        <3> HIDE DEF least
        <3> QED
            BY <2>2, <3>2, <3>3
    <2> QED
        BY <1>3, <2>5, <2>6
<1> QED
    BY <1>4, <1>5

LEMMA EnqueuedRight == ASSUME GovernorTypeOK PROVE EnqueuedAgree
<1>1. ASSUME NEW g \in WithStatus
      PROVE  /\ IsFiniteSet(governorStatus[g].enqueuedVaas)
             /\ governorStatus[g].enqueuedVaas \subseteq [sequence : Nat, releaseTime : Nat]
    <2>1. g \in Guardians /\ governorStatus[g] \in Statuses[g]
        BY DEF GovernorTypeOK, WithStatus
    <2> QED
        BY <2>1, GovernorAssumption
<1> DEFINE held == [g \in WithStatus |-> governorStatus[g].enqueuedVaas]
           lists == {governorStatus[g].enqueuedVaas : g \in WithStatus}
<1>2. IsFiniteSet(Enqueued)
    <2>1. held \in Surjection(WithStatus, lists)
        BY DEF Surjection
    <2>2. IsFiniteSet(WithStatus)
        BY Reported
    <2> HIDE DEF held
    <2>3. IsFiniteSet(lists)
        <3> HIDE DEF lists
        <3> QED
            BY <2>1, <2>2, FS_Surjection
    <2>4. \A T \in lists : IsFiniteSet(T)
        BY <1>1
    <2>5. IsFiniteSet(UNION lists)
        BY <2>3, <2>4, FS_UNION
    <2> QED
        BY <2>5 DEF Enqueued
<1>3. \A v \in Enqueued : \E g \in WithStatus : v \in governorStatus[g].enqueuedVaas
    BY DEF Enqueued
<1>4. Enqueued \subseteq [sequence : Nat, releaseTime : Nat]
    BY <1>1, <1>3
<1>5. ASSUME NEW v \in Enqueued
      PROVE  \E w \in GetEnqueuedVaas : w.sequence = v.sequence
    <2> DEFINE T == {w \in Enqueued : w.sequence = v.sequence}
               sooner == {p \in T \X T : p[1].releaseTime < p[2].releaseTime}
    <2>1. T \in SUBSET Enqueued /\ v \in T
        OBVIOUS
    <2>2. IsFiniteSet(T) /\ T # {}
        BY <1>2, <2>1, FS_Subset
    <2>3. \A a \in T : a.releaseTime \in Nat
        BY <1>4, <2>1
    <2>4. \A a, b \in T : <<a, b>> \in sooner <=> a.releaseTime < b.releaseTime
        OBVIOUS
    <2>5. \A a, b, c \in T : <<a, b>> \in sooner /\ <<b, c>> \in sooner => <<a, c>> \in sooner
        <3> HIDE DEF T, sooner
        <3> QED
            BY <2>3, <2>4
    <2>6. \A a \in T : <<a, a>> \notin sooner
        <3> HIDE DEF T, sooner
        <3> QED
            BY <2>3, <2>4
    <2>7. PICK w \in T : \A h \in T : <<w, h>> \notin sooner
        <3> HIDE DEF T, sooner
        <3> QED
            BY <2>2, <2>5, <2>6, Lowest
    <2>8. ASSUME NEW h \in T PROVE h.releaseTime <= w.releaseTime
        <3> HIDE DEF T, sooner
        <3>1. ~(w.releaseTime < h.releaseTime)
            BY <2>4, <2>7
        <3>2. w.releaseTime \in Nat /\ h.releaseTime \in Nat
            BY <2>3, <2>7
        <3> QED
            BY <3>1, <3>2
    <2> QED
        BY <2>7, <2>8 DEF GetEnqueuedVaas
<1>6. GetEnqueuedVaas \subseteq Enqueued
    BY DEF GetEnqueuedVaas
<1>7. ASSUME NEW v \in GetEnqueuedVaas, NEW w \in GetEnqueuedVaas, v.sequence = w.sequence
      PROVE  v = w
    <2>1. v \in [sequence : Nat, releaseTime : Nat] /\ w \in [sequence : Nat, releaseTime : Nat]
        BY <1>4, <1>6
    <2>2. v.releaseTime <= w.releaseTime /\ w.releaseTime <= v.releaseTime
        BY <1>6, <1>7 DEF GetEnqueuedVaas
    <2>3. v.releaseTime = w.releaseTime
        BY <2>1, <2>2
    <2> QED
        BY <1>7, <2>1, <2>3
<1>8. {v.sequence : v \in GetEnqueuedVaas} = {v.sequence : v \in Enqueued}
    BY <1>5, <1>6
<1>9. GetEnqueuedVaas \in GetEnqueueVassByChainID
    BY <1>6, <1>7, <1>8 DEF GetEnqueueVassByChainID
<1>10. \A v \in Enqueued : IsVaaEnqueued(v.sequence)
    BY <1>3 DEF IsVaaEnqueued
<1>11. \A v \in GetEnqueuedVaas, w \in Enqueued : w.sequence = v.sequence => w.releaseTime <= v.releaseTime
    BY DEF GetEnqueuedVaas
<1> QED
    BY <1>7, <1>8, <1>9, <1>10, <1>11 DEF EnqueuedAgree, GetEnqueueVass

LEMMA MajorityRight == ASSUME GovernorTypeOK PROVE MajorityPrice
<1> DEFINE with(p) == {g \in WithConfig : governorConfig[g].price = p}
           prices == {governorConfig[g].price : g \in WithConfig}
<1>1. IsFiniteSet(WithConfig) /\ Cardinality(WithConfig) \in Nat
    BY Reported, FS_CardinalityType
<1>2. \A p : IsFiniteSet(with(p)) /\ Cardinality(with(p)) \in Nat /\ with(p) \subseteq WithConfig
    <2> SUFFICES ASSUME NEW p PROVE IsFiniteSet(with(p)) /\ Cardinality(with(p)) \in Nat /\ with(p) \subseteq WithConfig
        OBVIOUS
    <2>1. with(p) \in SUBSET WithConfig
        OBVIOUS
    <2> QED
        BY <1>1, <2>1, FS_Subset, FS_CardinalityType
<1>3. \A p, q : p # q => with(p) \intersect with(q) = {}
    OBVIOUS
<1>4. GetTokenList = {p \in prices : \A q \in prices : Cardinality(with(p)) >= Cardinality(with(q))}
    BY DEF GetTokenList
<1>5. MajorityPrice <=> \A p \in prices :
            2 * Cardinality(with(p)) > Cardinality(WithConfig) => GetTokenList = {p}
    BY DEF MajorityPrice
<1>6. ASSUME NEW p \in prices, 2 * Cardinality(with(p)) > Cardinality(WithConfig)
      PROVE  GetTokenList = {p}
    <2> HIDE DEF with, prices
    <2>1. ASSUME NEW q, q # p PROVE Cardinality(with(p)) > Cardinality(with(q))
        <3>1. ~(Cardinality(with(p)) + Cardinality(with(q)) > Cardinality(WithConfig))
            BY <1>1, <1>2, <1>3, <2>1, FS_MajoritiesIntersect
        <3> QED
            BY <1>1, <1>2, <1>6, <3>1
    <2>2. p \in GetTokenList
        <3>1. \A q \in prices : Cardinality(with(p)) >= Cardinality(with(q))
            BY <1>2, <2>1
        <3> QED
            BY <1>4, <3>1
    <2>3. ASSUME NEW q \in GetTokenList PROVE q = p
        <3>1. Cardinality(with(q)) >= Cardinality(with(p))
            BY <1>4, <2>3
        <3>2. Cardinality(with(p)) \in Nat /\ Cardinality(with(q)) \in Nat
            BY <1>2
        <3> QED
            BY <2>1, <3>1, <3>2
    <2> QED
        BY <2>2, <2>3
<1> QED
    BY <1>5, <1>6

\* Whatever documents fly has stored of the guardians, in whatever order they came:
\* the limits shown are those a quorum vouches for, guardians too few for a quorum
\* move no figure taken at the quorum out of what the others report (the least that
\* is left any guardian moves), the lists of VAAs held back
\* agree, and a price most report is the one shown (repository.go of the api's
\* governor): for every set of guardians and every quorum.
THEOREM AggregatesStayRight == ServicesSpec => []GovernorAggregates
<1>1. ServicesInit => GovernorInv
    BY DEF ServicesInit, GovernorInit, GovernorInv, GovernorTypeOK
<1>2. GovernorInv /\ [ServicesNext]_servicesVars => GovernorInv'
    BY OnePart, GovernorStep
<1>3. GovernorInv => GovernorAggregates
    BY QuorumBackedRight, FaultyRight, LimitsRight, EnqueuedRight, MajorityRight
       DEF GovernorInv, GovernorAggregates
<1> QED
    BY <1>1, <1>2, <1>3, PTL DEF ServicesSpec
=============================================================================
