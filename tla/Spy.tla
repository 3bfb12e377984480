-------------------------------- MODULE Spy --------------------------------
(***************************************************************************)
(* One process of spy: notifications of stored VAAs come from redis, the    *)
(* publisher hands each VAA to two broadcasters (signed VAAs, all VAAs),    *)
(* which pass it on to the gRPC handlers of their subscribers.  Between     *)
(* them are Go channels that hold one element each.  The handlers register  *)
(* and unregister through channels of their own, of which select takes any. *)
(***************************************************************************)
EXTENDS Integers, Sequences, FiniteSets

CONSTANTS
    SpyVaas,       \* notified VAAs, numbered in the order they come
    Undecodable,   \* those that vaa.Unmarshal refuses
    Subscriptions, \* calls of SubscribeSignedVAA and SubscribeSignedVAAByType
    KindOf,        \* KindOf[s]: the broadcaster of s, "signed" or "all"
    Unfiltered,    \* subscriptions without filters
    Matches        \* Matches[s][v]: how many filters of s match v

ASSUME SpyAssumption ==
    /\ SpyVaas \subseteq Nat
    /\ Undecodable \subseteq SpyVaas /\ Unfiltered \subseteq Subscriptions
    /\ KindOf \in [Subscriptions -> {"signed", "all"}]
    /\ Matches \in [Subscriptions -> [SpyVaas -> Nat]]

VARIABLES
    arrived,          \* VAAs that have come from redis
    publishing,       \* the VAA in Publisher.Publish and the broadcaster next to take it
    source,           \* source[b], a channel
    addSubscriber,    \* addSubscriber[b], a channel
    removeSubscriber, \* removeSubscriber[b], a channel
    subscribers,      \* subscribers[b], the map of Start
    sending,          \* the VAA broadcaster b passes on, and the sends left to each
    ch,               \* ch[s], the channel of a subscription
    closed,           \* subscriptions whose channel is closed
    phase,            \* phase[s]: where the handler is
    sent,             \* what the client of s has been sent
    running,          \* rootCtx is not cancelled
    stopped,          \* broadcasters whose Start has returned
    panicked          \* a send on a closed channel, or a second close

feed == <<arrived, publishing>>
registry == <<addSubscriber, removeSubscriber, subscribers>>
spyVars == <<feed, source, registry, sending, ch, closed, phase, sent, running, stopped, panicked>>

Broadcasters == {"signed", "all"}
Free == "free" \* the publisher waits for redis
Empty == -1    \* the zero value a closed channel yields
Nobody == [s \in Subscriptions |-> 0]
Pause == [vaa |-> Empty, to |-> Nobody]

SpyInit ==
    /\ arrived = {} /\ publishing = [vaa |-> Empty, to |-> Free]
    /\ source = [b \in Broadcasters |-> <<>>]
    /\ addSubscriber = source /\ removeSubscriber = source
    /\ subscribers = [b \in Broadcasters |-> {}]
    /\ sending = [b \in Broadcasters |-> Pause]
    /\ ch = [s \in Subscriptions |-> <<>>] /\ sent = ch
    /\ closed = {}
    /\ phase = [s \in Subscriptions |-> "new"]
    /\ running = TRUE /\ stopped = {} /\ panicked = FALSE

------------------------------------------------------------------------------
(* RedisSubscriber and Publisher                                            *)

\* Other notifications, and what cannot be decoded, are skipped; redis may
\* lose any.
Receive(v) ==
    /\ publishing.to = Free
    /\ v \notin arrived /\ \A w \in arrived : w < v
    /\ arrived' = arrived \union {v}
    /\ publishing' = [vaa |-> v, to |-> "signed"]
    /\ UNCHANGED <<source, registry, sending, ch, closed, phase, sent, running, stopped, panicked>>

\* HandleVAA, of the one broadcaster and then of the other; waits while the
\* channel is full.
HandleVAA(b) ==
    /\ publishing.to = b /\ source[b] = <<>>
    /\ source' = [source EXCEPT ![b] = <<publishing.vaa>>]
    /\ publishing' = [publishing EXCEPT !.to = IF b = "signed" THEN "all" ELSE Free]
    /\ UNCHANGED <<arrived, registry, sending, ch, closed, phase, sent, running, stopped, panicked>>

------------------------------------------------------------------------------
(* The broadcasters                                                         *)

Selecting(b) == b \notin stopped /\ sending[b] = Pause /\ ~panicked

AddSubscriber(b) ==
    /\ Selecting(b) /\ addSubscriber[b] # <<>>
    /\ addSubscriber' = [addSubscriber EXCEPT ![b] = <<>>]
    /\ subscribers' = [subscribers EXCEPT ![b] = @ \union {Head(addSubscriber[b])}]
    /\ UNCHANGED <<feed, source, removeSubscriber, sending, ch, closed, phase, sent, running, stopped, panicked>>

\* Mutant: the channel is closed whether or not the subscriber is in the map.
RemoveSubscriberAnyway(b) ==
    LET s == Head(removeSubscriber[b]) IN
    /\ Selecting(b) /\ removeSubscriber[b] # <<>>
    /\ removeSubscriber' = [removeSubscriber EXCEPT ![b] = <<>>]
    /\ subscribers' = [subscribers EXCEPT ![b] = @ \ {s}]
    /\ closed' = closed \union {s}
    /\ panicked' = (s \in closed)
    /\ UNCHANGED <<feed, source, addSubscriber, sending, ch, phase, sent, running, stopped>>

\* Nothing happens when it is not in the map.
RemoveSubscriber(b) ==
    LET s == Head(removeSubscriber[b]) IN
    /\ Selecting(b) /\ removeSubscriber[b] # <<>>
    /\ removeSubscriber' = [removeSubscriber EXCEPT ![b] = <<>>]
    /\ subscribers' = [subscribers EXCEPT ![b] = @ \ {s}]
    /\ closed' = IF s \in subscribers[b] THEN closed \union {s} ELSE closed
    /\ panicked' = (s \in subscribers[b] \intersect closed)
    /\ UNCHANGED <<feed, source, addSubscriber, sending, ch, phase, sent, running, stopped>>

\* The sends of one VAA: one without filters, one per filter that matches.  An
\* undecodable VAA goes to nobody, or, among signed VAAs, to the unfiltered
\* subscribers the loop over the map comes to before a filtered one.
Sends(b, v) ==
    LET plain == subscribers[b] \intersect Unfiltered
        sends(S) == [s \in Subscriptions |-> IF s \notin S THEN 0
                                             ELSE IF s \in Unfiltered THEN 1 ELSE Matches[s][v]]
    IN IF v \notin Undecodable THEN {sends(subscribers[b])}
       ELSE IF b = "all" THEN {Nobody}
       ELSE IF plain = subscribers[b] THEN {sends(plain)} ELSE {sends(S) : S \in SUBSET plain}

TakeVaa(b) ==
    /\ Selecting(b) /\ source[b] # <<>>
    /\ source' = [source EXCEPT ![b] = <<>>]
    /\ \E to \in Sends(b, Head(source[b])) :
          sending' = [sending EXCEPT ![b] = IF to = Nobody THEN Pause ELSE [vaa |-> Head(source[b]), to |-> to]]
    /\ UNCHANGED <<feed, registry, ch, closed, phase, sent, running, stopped, panicked>>

\* Mutant: the send waits for the subscriber.
OfferWaits(s, v) == ch[s] = <<>> /\ ch' = [ch EXCEPT ![s] = <<v>>] /\ UNCHANGED closed

\* A send that does not wait: dropped when the channel is full.
Offer(s, v) ==
    /\ ch' = [ch EXCEPT ![s] = IF @ = <<>> THEN <<v>> ELSE @]
    /\ UNCHANGED closed

Send(b, s) ==
    LET rest == [sending[b].to EXCEPT ![s] = @ - 1] IN
    /\ sending[b].to[s] > 0 /\ ~panicked
    /\ sending' = [sending EXCEPT ![b] = IF rest = Nobody THEN Pause ELSE [vaa |-> @.vaa, to |-> rest]]
    /\ Offer(s, sending[b].vaa)
    /\ panicked' = (s \in closed)
    /\ UNCHANGED <<feed, source, registry, phase, sent, running, stopped>>

\* Start returns and closes the channels of those still in the map.
Stop(b) ==
    /\ ~running /\ Selecting(b)
    /\ stopped' = stopped \union {b}
    /\ closed' = closed \union subscribers[b]
    /\ panicked' = (subscribers[b] \intersect closed # {})
    /\ UNCHANGED <<feed, source, registry, sending, ch, phase, sent, running>>

Cancel ==
    /\ running /\ running' = FALSE
    /\ UNCHANGED <<feed, source, registry, sending, ch, closed, phase, sent, stopped, panicked>>

------------------------------------------------------------------------------
(* The gRPC handlers                                                        *)

\* Subscribe with filters that are accepted; others are refused before.
Register(s) ==
    /\ phase[s] = "new" /\ addSubscriber[KindOf[s]] = <<>>
    /\ addSubscriber' = [addSubscriber EXCEPT ![KindOf[s]] = <<s>>]
    /\ phase' = [phase EXCEPT ![s] = "serving"]
    /\ UNCHANGED <<feed, source, removeSubscriber, subscribers, sending, ch, closed, sent, running, stopped, panicked>>

\* resp.Send of what the channel has; a closed one has Empty for ever.
Deliver(s) ==
    LET m == IF ch[s] # <<>> THEN Head(ch[s]) ELSE Empty IN
    /\ phase[s] = "serving"
    /\ ch[s] # <<>> \/ s \in closed
    /\ ch' = [ch EXCEPT ![s] = IF @ = <<>> THEN @ ELSE Tail(@)]
    /\ \/ /\ sent' = [sent EXCEPT ![s] = IF m = Empty /\ @ # <<>> /\ @[Len(@)] = Empty THEN @ ELSE Append(@, m)]
          /\ UNCHANGED phase
       \/ phase' = [phase EXCEPT ![s] = "leaving"] /\ UNCHANGED sent \* it fails
    /\ UNCHANGED <<feed, source, registry, sending, closed, running, stopped, panicked>>

\* The client is gone.
Done(s) ==
    /\ phase[s] = "serving"
    /\ phase' = [phase EXCEPT ![s] = "leaving"]
    /\ UNCHANGED <<feed, source, registry, sending, ch, closed, sent, running, stopped, panicked>>

\* Deferred by the handler.
Unregister(s) ==
    /\ phase[s] = "leaving" /\ removeSubscriber[KindOf[s]] = <<>>
    /\ removeSubscriber' = [removeSubscriber EXCEPT ![KindOf[s]] = <<s>>]
    /\ phase' = [phase EXCEPT ![s] = "left"]
    /\ UNCHANGED <<feed, source, addSubscriber, subscribers, sending, ch, closed, sent, running, stopped, panicked>>

------------------------------------------------------------------------------
Start(b) ==
    \/ AddSubscriber(b) \/ RemoveSubscriber(b) \/ TakeVaa(b) \/ Stop(b)
    \/ \E s \in Subscriptions : Send(b, s)

Subscribe(s) == Register(s) \/ Deliver(s) \/ Done(s) \/ Unregister(s)

SpyNext ==
    \/ \E v \in SpyVaas : Receive(v)
    \/ \E b \in Broadcasters : HandleVAA(b) \/ Start(b)
    \/ \E s \in Subscriptions : Subscribe(s)
    \/ Cancel

SpySpec == SpyInit /\ [][SpyNext]_spyVars

\* The publisher and the broadcasters are scheduled; no client need ever read.
SpyFairness ==
    /\ WF_spyVars(\E b \in Broadcasters : HandleVAA(b))
    /\ \A b \in Broadcasters : WF_spyVars(Start(b))

------------------------------------------------------------------------------
(* What is checked.                                                         *)

SpyTypeOK ==
    /\ arrived \subseteq SpyVaas
    /\ publishing \in [vaa : SpyVaas \union {Empty}, to : Broadcasters \union {Free}]
    /\ \A b \in Broadcasters :
          /\ \A c \in {source[b], addSubscriber[b], removeSubscriber[b]} : Len(c) <= 1
          /\ subscribers[b] \subseteq {s \in Subscriptions : KindOf[s] = b}
    /\ \A s \in Subscriptions : Len(ch[s]) <= 1
    /\ stopped = {} \/ ~running

\* No channel of a subscription is sent to once closed, or closed twice, however
\* registering, unregistering, broadcasting and shutting down interleave: either
\* would end the process.
NoPanic == ~panicked

\* A client gets VAAs it asked for, in the order they came, and one twice only if
\* two of its filters match it.
ClientsInOrder ==
    \A s \in Subscriptions : \A i \in DOMAIN sent[s] : LET v == sent[s][i] IN v # Empty =>
        /\ s \in Unfiltered \/ Matches[s][v] > 0
        /\ \A j \in DOMAIN sent[s] : i < j /\ sent[s][j] # Empty =>
              \/ v < sent[s][j]
              \/ v = sent[s][j] /\ s \notin Unfiltered /\ Matches[s][v] > 1

\* Only the shutdown makes a handler send a message that is no VAA.
EmptyOnlyAtShutdown ==
    \A s \in Subscriptions : running => \A i \in DOMAIN sent[s] : sent[s][i] # Empty

\* However slow the clients are, a VAA the publisher holds is passed on.
FeedNeverBlocked == publishing.to # Free ~> (publishing.to = Free \/ ~running)
=============================================================================
