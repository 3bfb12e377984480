--------------------------- MODULE GossipSplitter ---------------------------
(***************************************************************************)
(* One fly process between the gossip network and its sinks.  The reader    *)
(* goroutine of main.go pushes every VAA it hears into one of the two       *)
(* bounded channels of VAAGossipConsumerSplitter; two worker goroutines     *)
(* take them out, verify them, drop the ones the deduplicator remembers and *)
(* hand the rest over: a pyth VAA to the repository, any other to the SQS   *)
(* queue.  The channel operations of the three goroutines interleave, and   *)
(* main closes the channels without waiting for any of them.                *)
(***************************************************************************)
EXTENDS Integers, Sequences, FiniteSets, SequencesExt

CONSTANTS
    Pyth,      \* VAAs of pythnet
    NonPyth,   \* VAAs of the other chains
    Invalid,   \* VAAs that guardianSetHistory.Verify refuses
    Size,      \* capacity of each channel (50 in the code)
    NoVaa,
    MaxCopies, \* bound: copies the network delivers
    MaxFaults  \* bound: hand-overs that fail and ids the cache loses

Vaas == Pyth \union NonPyth

ASSUME ChainsAssumption ==
    Pyth \intersect NonPyth = {} /\ Invalid \subseteq Vaas /\ NoVaa \notin Vaas
ASSUME BoundsAssumption == Size \in Nat \ {0} /\ MaxCopies \in Nat /\ MaxFaults \in Nat

\* The goroutines executePyth and executeNonPyth, and the channel of each.
Workers == {"pyth", "nonPyth"}
ChannelOf(v) == IF v \in Pyth THEN "pyth" ELSE "nonPyth"

VARIABLES
    ch,        \* ch[w]: the channel of worker w
    reader,    \* the reader's next step: "read", "try", "drop", "send", "stopped"
    incoming,  \* the VAA the reader is pushing, or NoVaa
    work,      \* work[w]: the VAA worker w is at, or NoVaa
    stage,     \* stage[w]: "receive", "check", "process", "remember", "stopped"
    seen,      \* ids in the deduplicator cache
    life,      \* the process: "running", "cancelled" (rootCtx), "closed", "gone"
    pushed,    \* history: pushed[w], the VAAs the reader pushed for w, in order
    taken,     \* history: taken[w], the VAAs worker w received, in order
    dropped,   \* history: positions in pushed["pyth"] that the reader deleted
    handed,    \* history: handed[v], how often v was handed over
    forgotten, \* history: forgotten[v], how often the cache lost v
    faults

channelVars == <<ch, pushed, dropped>>
readerVars == <<reader, incoming>>
workerVars == <<work, stage, taken>>
dedupVars == <<seen, handed, forgotten>>
vars == <<channelVars, readerVars, workerVars, dedupVars, life, faults>>

Init ==
    /\ ch = [w \in Workers |-> <<>>]
    /\ reader = "read" /\ incoming = NoVaa
    /\ work = [w \in Workers |-> NoVaa]
    /\ stage = [w \in Workers |-> "receive"]
    /\ seen = {}
    /\ life = "running"
    /\ pushed = [w \in Workers |-> <<>>]
    /\ taken = [w \in Workers |-> <<>>]
    /\ dropped = {}
    /\ handed = [v \in Vaas |-> 0]
    /\ forgotten = [v \in Vaas |-> 0]
    /\ faults = 0

Alive == life # "gone"
Closed == life = "closed"
Full(w) == Len(ch[w]) = Size
Fault == faults < MaxFaults /\ faults' = faults + 1

------------------------------------------------------------------------------
(* The reader: main.go and VAAGossipConsumerSplitter.Push.                  *)

\* A copy of a VAA from the gossip network.
Read(v) ==
    /\ Alive /\ reader = "read"
    /\ Len(pushed["pyth"]) + Len(pushed["nonPyth"]) < MaxCopies
    /\ incoming' = v
    /\ reader' = IF v \in Pyth THEN "try" ELSE "send"
    /\ pushed' = [pushed EXCEPT ![ChannelOf(v)] = Append(@, v)]
    /\ UNCHANGED <<ch, dropped, workerVars, dedupVars, life, faults>>

\* A send on a closed channel panics; otherwise incoming is in its channel.
SendIncoming ==
    IF Closed THEN life' = "gone" /\ UNCHANGED <<ch, readerVars>>
    ELSE /\ ch' = [ch EXCEPT ![ChannelOf(incoming)] = Append(@, incoming)]
         /\ reader' = "read" /\ incoming' = NoVaa
         /\ UNCHANGED life

\* Mutant: a non-pyth VAA is skipped when its channel is full.
SendOrSkip ==
    /\ Alive /\ reader = "send"
    /\ IF ~Closed /\ Full(ChannelOf(incoming))
       THEN reader' = "read" /\ incoming' = NoVaa /\ UNCHANGED <<ch, life>>
       ELSE SendIncoming
    /\ UNCHANGED <<pushed, dropped, workerVars, dedupVars, faults>>

\* The blocking send: of a non-pyth VAA, and of a pyth VAA after the drop.
Send ==
    /\ Alive /\ reader = "send"
    /\ Closed \/ ~Full(ChannelOf(incoming))
    /\ SendIncoming
    /\ UNCHANGED <<pushed, dropped, workerVars, dedupVars, faults>>

\* Mutant: an unbounded queue in place of the channel.
TrySendUnbounded ==
    /\ Alive /\ reader = "try"
    /\ SendIncoming
    /\ UNCHANGED <<pushed, dropped, workerVars, dedupVars, faults>>

\* The first select of Push: send, unless the channel is full.
TrySend ==
    /\ Alive /\ reader = "try"
    /\ IF ~Closed /\ Full("pyth")
       THEN reader' = "drop" /\ UNCHANGED <<ch, incoming, life>>
       ELSE SendIncoming
    /\ UNCHANGED <<pushed, dropped, workerVars, dedupVars, faults>>

\* Mutant: the newest message of the channel gives way.
DropNewest ==
    /\ Alive /\ reader = "drop"
    /\ reader' = "send"
    /\ IF ch["pyth"] = <<>> THEN UNCHANGED <<ch, dropped>>
       ELSE /\ ch' = [ch EXCEPT !["pyth"] = Front(@)]
            /\ dropped' = dropped \union {Len(pushed["pyth"]) - 1}
    /\ UNCHANGED <<incoming, pushed, workerVars, dedupVars, life, faults>>

\* The second select: delete the oldest message, if there is still one.
DropOldest ==
    /\ Alive /\ reader = "drop"
    /\ reader' = "send"
    /\ IF ch["pyth"] = <<>> THEN UNCHANGED <<ch, dropped>>
       ELSE /\ ch' = [ch EXCEPT !["pyth"] = Tail(@)]
            /\ dropped' = dropped \union {Len(pushed["pyth"]) - Len(ch["pyth"])}
    /\ UNCHANGED <<incoming, pushed, workerVars, dedupVars, life, faults>>

------------------------------------------------------------------------------
(* A worker: executePyth or executeNonPyth, and vaaGossipConsumer.Push.     *)

Receive(w) ==
    /\ Alive /\ stage[w] = "receive" /\ ch[w] # <<>>
    /\ ch' = [ch EXCEPT ![w] = Tail(@)]
    /\ taken' = [taken EXCEPT ![w] = Append(@, Head(ch[w]))]
    /\ work' = [work EXCEPT ![w] = Head(ch[w])]
    /\ stage' = [stage EXCEPT ![w] = "check"]
    /\ UNCHANGED <<pushed, dropped, readerVars, dedupVars, life, faults>>

Rest(w, next) ==
    /\ work' = [work EXCEPT ![w] = NoVaa]
    /\ stage' = [stage EXCEPT ![w] = next]
    /\ UNCHANGED taken

Step(w, next) == stage' = [stage EXCEPT ![w] = next] /\ UNCHANGED <<work, taken>>

\* Mutant: the goroutine returns on an invalid VAA.
CheckReturns(w) ==
    /\ Alive /\ stage[w] = "check"
    /\ IF work[w] \in Invalid THEN Rest(w, "stopped")
       ELSE IF work[w] \in seen THEN Rest(w, "receive") ELSE Step(w, "process")
    /\ UNCHANGED <<channelVars, readerVars, dedupVars, life, faults>>

\* Verify, and the Get of the deduplicator.
Check(w) ==
    /\ Alive /\ stage[w] = "check"
    /\ IF work[w] \in Invalid \union seen THEN Rest(w, "receive") ELSE Step(w, "process")
    /\ UNCHANGED <<channelVars, readerVars, dedupVars, life, faults>>

\* UpsertVaa or Publish; once rootCtx is cancelled its calls may fail.  After a
\* failure the id is not remembered.
Process(w) ==
    /\ Alive /\ stage[w] = "process"
    /\ \/ /\ handed' = [handed EXCEPT ![work[w]] = @ + 1]
          /\ Step(w, "remember")
          /\ UNCHANGED faults
       \/ /\ Fault \/ (life # "running" /\ UNCHANGED faults)
          /\ Rest(w, "receive")
          /\ UNCHANGED handed
    /\ UNCHANGED <<seen, forgotten, channelVars, readerVars, life>>

\* The Set of the deduplicator.
Remember(w) ==
    /\ Alive /\ stage[w] = "remember"
    /\ seen' = seen \union {work[w]}
    /\ Rest(w, "receive")
    /\ UNCHANGED <<handed, forgotten, channelVars, readerVars, life, faults>>

\* The entry expires after 30 seconds, or the cache evicts it.
Forget(v) ==
    /\ Alive /\ v \in seen /\ Fault
    /\ seen' = seen \ {v}
    /\ forgotten' = [forgotten EXCEPT ![v] = @ + 1]
    /\ UNCHANGED <<handed, channelVars, readerVars, workerVars, life>>

------------------------------------------------------------------------------
(* Shutdown: rootCtx ends, main closes the channels and returns.            *)

Shutdown ==
    /\ life' = CASE life = "running" -> "cancelled"
                 [] life = "cancelled" -> "closed"
                 [] OTHER -> "gone"
    /\ Alive
    /\ UNCHANGED <<channelVars, readerVars, workerVars, dedupVars, faults>>

\* The loops of the goroutines leave once rootCtx is done.
ReaderStops ==
    /\ Alive /\ life # "running" /\ reader = "read"
    /\ reader' = "stopped"
    /\ UNCHANGED <<incoming, channelVars, workerVars, dedupVars, life, faults>>

WorkerStops(w) ==
    /\ Alive /\ life # "running" /\ stage[w] = "receive"
    /\ Rest(w, "stopped")
    /\ UNCHANGED <<channelVars, readerVars, dedupVars, life, faults>>

Push == TrySend \/ DropOldest \/ Send
Worker(w) == Receive(w) \/ Check(w) \/ Process(w) \/ Remember(w)

Next ==
    \/ \E v \in Vaas : Read(v) \/ Forget(v)
    \/ Push
    \/ \E w \in Workers : Worker(w) \/ WorkerStops(w)
    \/ Shutdown \/ ReaderStops

Spec == Init /\ [][Next]_vars

\* Every goroutine is scheduled; the network owes nothing.
FairSpec == Spec /\ WF_vars(Push) /\ \A w \in Workers : WF_vars(Worker(w))

------------------------------------------------------------------------------
(* What is checked.                                                         *)

TypeOK ==
    /\ ch \in [Workers -> Seq(Vaas)] /\ \A w \in Workers : Len(ch[w]) <= Size
    /\ reader \in {"read", "try", "drop", "send", "stopped"}
    /\ incoming \in Vaas \union {NoVaa}
    /\ work \in [Workers -> Vaas \union {NoVaa}]
    /\ stage \in [Workers -> {"receive", "check", "process", "remember", "stopped"}]
    /\ seen \subseteq Vaas
    /\ life \in {"running", "cancelled", "closed", "gone"}
    /\ {pushed, taken} \subseteq [Workers -> Seq(Vaas)]
    /\ dropped \subseteq 1..Len(pushed["pyth"])
    /\ {handed, forgotten} \subseteq [Vaas -> Nat]
    /\ faults \in 0..MaxFaults

Incoming(w) == IF incoming # NoVaa /\ ChannelOf(incoming) = w THEN <<incoming>> ELSE <<>>

\* The push of a pyth VAA never waits for its worker: whatever the worker does
\* between the two selects, after the drop there is room.
PythNeverBlocks == reader = "send" /\ incoming \in Pyth => ~Full("pyth")

\* What waits in the pyth channel are the most recent pyth VAAs, none missing.
PythFreshest == IsSuffix(ch["pyth"] \o Incoming("pyth"), pushed["pyth"])

\* The lane of VAAGossipConsumerSplitter for pyth: VAAs too many to keep give way
\* to newer ones and never hold the reader up.
PythLane == PythNeverBlocks /\ PythFreshest

\* s is what the reader pushed for w, in order, without the messages it deleted.
IsKept(s, w) ==
    \E at \in [DOMAIN s -> DOMAIN pushed[w]] :
        /\ \A k, l \in DOMAIN s : k < l => at[k] < at[l]
        /\ \A k \in DOMAIN s : s[k] = pushed[w][at[k]]
        /\ {at[k] : k \in DOMAIN s} = DOMAIN pushed[w] \ (IF w = "pyth" THEN dropped ELSE {})

\* Each worker receives what was pushed for it, in order; only messages the
\* reader deleted from the pyth channel are missing.
NothingElseLost == \A w \in Workers : IsKept(taken[w] \o ch[w] \o Incoming(w), w)

\* A VAA is handed over again only if the cache lost it in between, and the
\* cache knows only VAAs that were handed over: a failed one is tried again
\* with its next copy.
Deduplicated ==
    \A v \in Vaas : handed[v] <= 1 + forgotten[v] /\ (v \in seen => handed[v] > 0)

\* A VAA that the reader pushes reaches its worker, and its sink once: the loss
\* in front of the channel and the deduplicator behind it are the only exceptions.
EachTakenOnce == NothingElseLost /\ Deduplicated

\* Until shutdown every push returns: the reader is stuck behind neither channel.
PushReturns == (reader \in {"try", "drop", "send"}) ~> (reader = "read" \/ life # "running")

\* Until shutdown every non-pyth VAA pushed is in the end taken by its worker.
NonPythTaken ==
    \A n \in 1..MaxCopies :
        (Len(pushed["nonPyth"]) >= n) ~> (Len(taken["nonPyth"]) >= n \/ life # "running")

\* The three goroutines of one process keep one another going.
SplitterLive == PushReturns /\ NonPythTaken
=============================================================================
