------------------------ MODULE GossipSplitterProofs ------------------------
(***************************************************************************)
(* Theorems about GossipSplitter, for every set of VAAs, capacity of the    *)
(* channels and number of copies.                                           *)
(***************************************************************************)
EXTENDS GossipSplitter, SequenceTheorems, TLAPS

------------------------------------------------------------------------------
(* Where the reader and the workers are.                                    *)

\* What the reader is pushing, how long it has been pushing it, and whose VAAs
\* are in which channel.
Places ==
    /\ reader \in {"read", "stopped"} => incoming = NoVaa
    /\ reader \in {"try", "drop"} => incoming \in Pyth
    /\ reader = "send" => incoming \in Vaas
    /\ Len(ch["pyth"]) <= Len(pushed["pyth"])
    /\ incoming \in Pyth => Len(ch["pyth"]) < Len(pushed["pyth"])
    /\ \A w \in Workers : stage[w] \in {"check", "process", "remember"} => work[w] \in Vaas

Typed == TypeOK /\ Places

LEMMA InitTyped == ASSUME Init PROVE Typed
<1>1. <<>> \in Seq(Vaas) /\ Len(<<>>) = 0 BY EmptySeq
<1>2. NoVaa \notin Pyth BY ChainsAssumption DEF Vaas
<1>3. ch \in [Workers -> Seq(Vaas)] /\ {pushed, taken} \subseteq [Workers -> Seq(Vaas)]
  BY <1>1 DEF Init
<1> QED BY <1>1, <1>2, <1>3, BoundsAssumption DEF Init, Typed, TypeOK, Places, Workers

LEMMA ReadTyped == ASSUME Typed, NEW v \in Vaas, Read(v) PROVE Typed'
<1>1. /\ ChannelOf(v) \in Workers /\ pushed \in [Workers -> Seq(Vaas)]
      /\ incoming = NoVaa /\ NoVaa \notin Vaas
  BY ChainsAssumption DEF Typed, TypeOK, Places, ChannelOf, Workers, Read
<1>2. pushed' \in [Workers -> Seq(Vaas)]
  BY <1>1 DEF Read
<1>3. /\ Len(pushed'["pyth"]) = IF v \in Pyth THEN Len(pushed["pyth"]) + 1 ELSE Len(pushed["pyth"])
      /\ Len(pushed["pyth"]) \in Nat
  BY <1>1 DEF Read, ChannelOf, Workers
<1>4. TypeOK'
  BY <1>1, <1>2, <1>3 DEF Typed, TypeOK, Read, workerVars, dedupVars
<1>5. Places'
  <2>1. ch' = ch /\ stage' = stage /\ work' = work /\ incoming' = v
        /\ reader' = IF v \in Pyth THEN "try" ELSE "send"
    BY DEF Read, workerVars
  <2>2. Len(ch["pyth"]) <= Len(pushed["pyth"]) /\ Len(ch["pyth"]) \in Nat
    BY <1>1, <1>3 DEF Typed, TypeOK, Places, Vaas, Workers
  <2>3. /\ Len(ch'["pyth"]) <= Len(pushed'["pyth"])
        /\ incoming' \in Pyth => Len(ch'["pyth"]) < Len(pushed'["pyth"])
    BY <2>1, <2>2, <1>3
  <2> QED BY <2>1, <2>3 DEF Typed, Places
<1> QED BY <1>4, <1>5 DEF Typed

\* A send puts incoming into its channel, where there is room.
LEMMA SendTyped ==
    ASSUME Typed, reader \in {"try", "send"}, SendIncoming, Closed \/ ~Full(ChannelOf(incoming)),
           UNCHANGED <<pushed, dropped, workerVars, dedupVars, faults>>
    PROVE  Typed'
<1>1. CASE Closed
  BY <1>1 DEF Typed, TypeOK, Places, SendIncoming, readerVars, workerVars, dedupVars
<1>2. CASE ~Closed
  <2>1. incoming \in Vaas /\ ChannelOf(incoming) \in Workers /\ ch \in [Workers -> Seq(Vaas)]
    BY DEF Typed, TypeOK, Places, ChannelOf, Workers, Vaas
  <2>2. /\ ch' = [ch EXCEPT ![ChannelOf(incoming)] = Append(@, incoming)]
        /\ reader' = "read" /\ incoming' = NoVaa /\ life' = life
        /\ Len(ch[ChannelOf(incoming)]) # Size
    BY <1>2 DEF SendIncoming, Full
  <2>3. /\ ch' \in [Workers -> Seq(Vaas)]
        /\ \A w \in Workers : Len(ch'[w]) = IF w = ChannelOf(incoming) THEN Len(ch[w]) + 1 ELSE Len(ch[w])
        /\ \A w \in Workers : Len(ch[w]) \in Nat
    BY <2>1, <2>2
  <2>4. \A w \in Workers : Len(ch'[w]) <= Size
    BY <2>2, <2>3, BoundsAssumption DEF Typed, TypeOK
  <2>5. NoVaa \notin Pyth /\ (incoming \in Pyth <=> ChannelOf(incoming) = "pyth")
    BY ChainsAssumption DEF Vaas, ChannelOf
  <2>6. /\ Len(ch["pyth"]) <= Len(pushed["pyth"]) /\ Len(pushed["pyth"]) \in Nat
        /\ incoming \in Pyth => Len(ch["pyth"]) < Len(pushed["pyth"])
        /\ pushed' = pushed
    BY DEF Typed, TypeOK, Places, Workers
  <2>7. Len(ch'["pyth"]) <= Len(pushed'["pyth"]) BY <2>3, <2>5, <2>6 DEF Workers
  <2>8. TypeOK'
    BY <2>2, <2>3, <2>4 DEF Typed, TypeOK, workerVars, dedupVars
  <2>9. Places'
    BY <2>2, <2>5, <2>7 DEF Typed, Places, workerVars
  <2> QED BY <2>8, <2>9 DEF Typed
<1> QED BY <1>1, <1>2

LEMMA TrySendTyped == ASSUME Typed, TrySend PROVE Typed'
<1>1. CASE ~Closed /\ Full("pyth")
  BY <1>1 DEF TrySend, Typed, TypeOK, Places, workerVars, dedupVars
<1>2. CASE Closed \/ ~Full("pyth")
  <2>1. ChannelOf(incoming) = "pyth" BY DEF Typed, Places, TrySend, ChannelOf
  <2> QED BY <1>2, <2>1, SendTyped DEF TrySend
<1> QED BY <1>1, <1>2

\* A channel that loses a message has no more than it had.
LEMMA Shorter == ASSUME NEW k \in Nat \ {0}, NEW n \in Nat PROVE
        /\ k < n => (n - k) \in 1 .. n
        /\ k <= n => k - 1 <= n /\ k - 1 < n
  OBVIOUS

LEMMA DropTyped == ASSUME Typed, DropOldest PROVE Typed'
<1>1. CASE ch["pyth"] = <<>>
  BY <1>1 DEF DropOldest, Typed, TypeOK, Places, workerVars, dedupVars, Vaas
<1>2. CASE ch["pyth"] # <<>>
  <2>1. ch["pyth"] \in Seq(Vaas) /\ pushed["pyth"] \in Seq(Vaas) /\ "pyth" \in Workers
    BY DEF Typed, TypeOK, Workers
  <2>2. /\ Tail(ch["pyth"]) \in Seq(Vaas) /\ Len(Tail(ch["pyth"])) = Len(ch["pyth"]) - 1
        /\ Len(ch["pyth"]) \in Nat \ {0} /\ Len(pushed["pyth"]) \in Nat
    BY <1>2, <2>1, HeadTailProperties, EmptySeq
  <2>3. /\ ch' = [ch EXCEPT !["pyth"] = Tail(@)] /\ reader' = "send" /\ reader = "drop"
        /\ dropped' = dropped \union {Len(pushed["pyth"]) - Len(ch["pyth"])}
        /\ UNCHANGED <<incoming, pushed, workerVars, dedupVars, life, faults>>
    BY <1>2 DEF DropOldest
  <2>4. /\ ch' \in [Workers -> Seq(Vaas)] /\ ch'["pyth"] = Tail(ch["pyth"])
        /\ \A w \in Workers : w # "pyth" => ch'[w] = ch[w]
    BY <2>1, <2>2, <2>3 DEF Typed, TypeOK
  <2>5. Len(ch["pyth"]) < Len(pushed["pyth"]) /\ incoming \in Vaas
    BY <2>3 DEF Typed, Places, Vaas
  <2>6. Len(pushed["pyth"]) - Len(ch["pyth"]) \in 1 .. Len(pushed["pyth"])
    <3> HIDE DEF Typed
    <3>1. Len(ch["pyth"]) \in Nat \ {0} /\ Len(pushed["pyth"]) \in Nat BY <2>2
    <3> QED BY <3>1, <2>5, Shorter
  <2>7. \A w \in Workers : Len(ch'[w]) <= Size
    <3>1. Len(ch["pyth"]) <= Size /\ Size \in Nat BY <2>1, BoundsAssumption DEF Typed, TypeOK
    <3>2. Len(ch["pyth"]) - 1 <= Size BY <2>2, <3>1, Shorter
    <3> QED BY <2>2, <2>4, <3>2 DEF Typed, TypeOK
  <2>8. TypeOK' BY <2>3, <2>4, <2>6, <2>7 DEF Typed, TypeOK, workerVars, dedupVars
  <2>9. Places' BY <2>2, <2>3, <2>4, <2>5 DEF Typed, Places, workerVars
  <2> QED BY <2>8, <2>9 DEF Typed
<1> QED BY <1>1, <1>2

LEMMA ReceiveTyped == ASSUME Typed, NEW w \in Workers, Receive(w) PROVE Typed'
<1>1. ch[w] \in Seq(Vaas) /\ ch[w] # <<>> /\ taken[w] \in Seq(Vaas)
  BY DEF Typed, TypeOK, Receive
<1>2. /\ Head(ch[w]) \in Vaas /\ Tail(ch[w]) \in Seq(Vaas)
      /\ Len(Tail(ch[w])) = Len(ch[w]) - 1 /\ Len(ch[w]) \in Nat \ {0}
  BY <1>1, HeadTailProperties, EmptySeq
<1>3. /\ ch' \in [Workers -> Seq(Vaas)] /\ ch'[w] = Tail(ch[w])
      /\ \A u \in Workers : u # w => ch'[u] = ch[u]
  BY <1>2 DEF Typed, TypeOK, Receive
<1>4. taken' \in [Workers -> Seq(Vaas)] BY <1>1, <1>2 DEF Typed, TypeOK, Receive
<1>5. \A u \in Workers : Len(ch'[u]) <= Len(ch[u]) /\ Len(ch[u]) \in Nat /\ Len(ch'[u]) \in Nat
  <2>1. Len(ch'[w]) <= Len(ch[w])
    <3>1. Len(ch[w]) - 1 <= Len(ch[w]) BY <1>2, Shorter
    <3> QED BY <1>2, <1>3, <3>1
  <2>2. \A u \in Workers : ch[u] \in Seq(Vaas) /\ ch'[u] \in Seq(Vaas) BY <1>3 DEF Typed, TypeOK
  <2>3. \A u \in Workers : Len(ch[u]) \in Nat /\ Len(ch'[u]) \in Nat BY <2>2, LenProperties
  <2>4. ASSUME NEW u \in Workers, u # w PROVE Len(ch'[u]) <= Len(ch[u])
    <3>1. \A n \in Nat : n <= n OBVIOUS
    <3> QED BY <1>3, <2>3, <2>4, <3>1
  <2> QED BY <2>1, <2>3, <2>4
<1>51. \A u \in Workers : Len(ch'[u]) <= Size
  BY <1>5, BoundsAssumption DEF Typed, TypeOK
<1>6. TypeOK'
  BY <1>2, <1>3, <1>4, <1>51 DEF Typed, TypeOK, Receive, readerVars, dedupVars
<1>7. pushed["pyth"] \in Seq(Vaas) /\ "pyth" \in Workers /\ pushed' = pushed /\ incoming' = incoming
  BY DEF Typed, TypeOK, Workers, Receive, readerVars
<1>8. /\ Len(ch'["pyth"]) <= Len(pushed'["pyth"])
      /\ incoming' \in Pyth => Len(ch'["pyth"]) < Len(pushed'["pyth"])
  <2>1. Len(pushed["pyth"]) \in Nat /\ Len(ch'["pyth"]) \in Nat BY <1>3, <1>7
  <2> QED BY <1>5, <1>7, <2>1 DEF Typed, Places
<1>9. Places' BY <1>2, <1>8 DEF Typed, TypeOK, Places, Receive, readerVars
<1> QED BY <1>6, <1>9 DEF Typed

LEMMA WorkTyped ==
    ASSUME Typed, NEW w \in Workers, Check(w) \/ Process(w) \/ Remember(w) \/ WorkerStops(w)
    PROVE  Typed'
<1> USE DEF Typed, TypeOK, Places, Rest, Step, channelVars, readerVars, dedupVars
<1>1. CASE Check(w) BY <1>1 DEF Check
<1>2. CASE Process(w)
  <2>1. work[w] \in Vaas BY <1>2 DEF Process
  <2>2. handed' \in [Vaas -> Nat] BY <1>2, <2>1 DEF Process
  <2>3. faults' \in 0..MaxFaults BY <1>2, BoundsAssumption DEF Process, Fault
  <2>4. work' \in [Workers -> Vaas \union {NoVaa}] /\ seen' \subseteq Vaas
    BY <1>2 DEF Process
  <2>5. stage' \in [Workers -> {"receive", "check", "process", "remember", "stopped"}]
    BY <1>2 DEF Process
  <2>6. \A u \in Workers : stage'[u] \in {"check", "process", "remember"} => work'[u] \in Vaas
    BY <1>2, <2>1 DEF Process
  <2>7. UNCHANGED <<channelVars, readerVars, forgotten, life>>
    BY <1>2 DEF Process
  <2>8. TypeOK'
    <3>1. ch' = ch /\ pushed' = pushed /\ dropped' = dropped /\ taken' = taken
      BY <1>2, <2>7 DEF Process
    <3> QED BY <2>2, <2>3, <2>4, <2>5, <2>7, <3>1
  <2>9. Places'
    BY <2>6, <2>7
  <2> QED BY <2>8, <2>9
<1>3. CASE Remember(w) BY <1>3 DEF Remember
<1>4. CASE WorkerStops(w) BY <1>4 DEF WorkerStops
<1> QED BY <1>1, <1>2, <1>3, <1>4

LEMMA OthersTyped ==
    ASSUME Typed, Shutdown \/ ReaderStops \/ UNCHANGED vars \/ \E v \in Vaas : Forget(v)
    PROVE  Typed'
<1> USE DEF Typed, TypeOK, Places, channelVars, readerVars, workerVars, dedupVars
<1>1. CASE Shutdown BY <1>1 DEF Shutdown
<1>2. CASE ReaderStops BY <1>2 DEF ReaderStops
<1>3. CASE UNCHANGED vars BY <1>3 DEF vars
<1>4. ASSUME NEW v \in Vaas, Forget(v) PROVE Typed'
  <2>1. forgotten' \in [Vaas -> Nat] /\ faults' \in 0..MaxFaults
    BY <1>4, BoundsAssumption DEF Forget, Fault
  <2>2. seen' \subseteq Vaas /\ UNCHANGED <<handed, channelVars, readerVars, workerVars, life>>
    BY <1>4 DEF Forget
  <2>3. TypeOK'
    BY <2>1, <2>2
  <2>4. Places'
    BY <2>2
  <2> QED BY <2>3, <2>4
<1> QED BY <1>1, <1>2, <1>3, <1>4

LEMMA StepTyped == Typed /\ [Next]_vars => Typed'
<1> SUFFICES ASSUME Typed, [Next]_vars PROVE Typed'
  OBVIOUS
<1>1. ASSUME NEW v \in Vaas, Read(v) PROVE Typed' BY <1>1, ReadTyped
<1>2. CASE Send BY <1>2, SendTyped DEF Send
<1>3. CASE TrySend \/ DropOldest BY <1>3, TrySendTyped, DropTyped
<1>4. ASSUME NEW w \in Workers, Worker(w) \/ WorkerStops(w) PROVE Typed'
  BY <1>4, ReceiveTyped, WorkTyped DEF Worker
<1>5. CASE Shutdown \/ ReaderStops \/ UNCHANGED vars \/ \E v \in Vaas : Forget(v)
  BY <1>5, OthersTyped
<1> QED BY <1>1, <1>2, <1>3, <1>4, <1>5 DEF Next, Push

LEMMA AlwaysTyped == Spec => []Typed
  BY InitTyped, StepTyped, PTL DEF Spec

\* Every variable of the process keeps its type: no channel holds more than its
\* capacity, and only a VAA that was pushed is ever dropped.
THEOREM TypeCorrect == Spec => []TypeOK
  BY AlwaysTyped, PTL DEF Typed

------------------------------------------------------------------------------
(* What waits in a channel is the end of what was sent.                     *)

\* C is what of P ends at position m.
Ends(C, P, m) == \A i \in 1 .. Len(C) : C[i] = P[m - Len(C) + i]

LEMMA EndsTail ==
    ASSUME NEW S, NEW C \in Seq(S), C # <<>>, NEW P, NEW m \in Int, Ends(C, P, m)
    PROVE  Ends(Tail(C), P, m)
<1>1. /\ Len(Tail(C)) = Len(C) - 1 /\ Len(C) \in Nat
      /\ \A i \in 1 .. Len(Tail(C)) : Tail(C)[i] = C[i + 1]
  BY HeadTailProperties, LenProperties
<1> SUFFICES ASSUME NEW i \in 1 .. Len(Tail(C)) PROVE Tail(C)[i] = P[m - Len(Tail(C)) + i]
  BY DEF Ends
<1>2. i + 1 \in 1 .. Len(C) /\ m - Len(C) + (i + 1) = m - Len(Tail(C)) + i BY <1>1
<1>3. C[i + 1] = P[m - Len(C) + (i + 1)] BY <1>2 DEF Ends
<1> QED BY <1>1, <1>2, <1>3

LEMMA EndsAppend ==
    ASSUME NEW S, NEW C \in Seq(S), NEW e \in S, NEW P, NEW m \in Int,
           Ends(C, P, m), P[m + 1] = e
    PROVE  Ends(Append(C, e), P, m + 1)
<1>1. /\ Len(Append(C, e)) = Len(C) + 1 /\ Len(C) \in Nat
      /\ \A i \in 1 .. Len(C) : Append(C, e)[i] = C[i] /\ Append(C, e)[Len(C) + 1] = e
      /\ Append(C, e)[Len(C) + 1] = e
  OBVIOUS
<1> SUFFICES ASSUME NEW i \in 1 .. Len(C) + 1
             PROVE  Append(C, e)[i] = P[m + 1 - (Len(C) + 1) + i]
  BY <1>1 DEF Ends
<1>2. CASE i = Len(C) + 1
  <2>1. m + 1 - (Len(C) + 1) + i = m + 1 BY <1>1, <1>2
  <2> QED BY <1>1, <1>2, <2>1
<1>3. CASE i \in 1 .. Len(C)
  <2>1. m + 1 - (Len(C) + 1) + i = m - Len(C) + i BY <1>1
  <2> QED BY <1>1, <1>3, <2>1 DEF Ends
<1> QED BY <1>1, <1>2, <1>3

LEMMA EndsGrow ==
    ASSUME NEW S, NEW C \in Seq(S), NEW P \in Seq(S), NEW e \in S, NEW m \in Nat,
           Len(C) <= m, m <= Len(P), Ends(C, P, m)
    PROVE  Ends(C, Append(P, e), m)
<1> SUFFICES ASSUME NEW i \in 1 .. Len(C) PROVE C[i] = Append(P, e)[m - Len(C) + i]
  BY DEF Ends
<1>1. Len(C) \in Nat /\ Len(P) \in Nat OBVIOUS
<1>2. m - Len(C) + i \in 1 .. Len(P) BY <1>1
<1>3. \A j \in 1 .. Len(P) : Append(P, e)[j] = P[j] OBVIOUS
<1> QED BY <1>2, <1>3 DEF Ends

LEMMA EndsIsSuffix ==
    ASSUME NEW S, NEW C \in Seq(S), NEW P \in Seq(S), Len(C) <= Len(P), Ends(C, P, Len(P))
    PROVE  IsSuffix(C, P)
<1>1. Len(C) \in Nat /\ Len(P) \in Nat OBVIOUS
<1>2. /\ Reverse(C) = [i \in 1 .. Len(C) |-> C[Len(C) - i + 1]] /\ Reverse(C) \in Seq(S)
      /\ Len(Reverse(C)) = Len(C)
  <2>1. \A i \in 1 .. Len(C) : C[Len(C) - i + 1] \in S BY <1>1, ElementOfSeq
  <2> QED BY <1>1, <2>1 DEF Reverse
<1>3. /\ Reverse(P) = [i \in 1 .. Len(P) |-> P[Len(P) - i + 1]] /\ Reverse(P) \in Seq(S)
      /\ Len(Reverse(P)) = Len(P)
  <2>1. \A i \in 1 .. Len(P) : P[Len(P) - i + 1] \in S BY <1>1, ElementOfSeq
  <2> QED BY <1>1, <2>1 DEF Reverse
<1> DEFINE c == SubSeq(Reverse(C), 1, Len(C))
           q == SubSeq(Reverse(P), 1, Len(C))
<1>4. /\ c \in Seq(S) /\ Len(c) = Len(C)
      /\ \A i \in 1 .. Len(C) : c[i] = C[Len(C) - i + 1]
  BY <1>1, <1>2
<1>5. /\ q \in Seq(S) /\ Len(q) = Len(C)
      /\ \A i \in 1 .. Len(C) : q[i] = P[Len(P) - i + 1]
  BY <1>1, <1>3
<1>6. \A i \in 1 .. Len(C) : C[Len(C) - i + 1] = P[Len(P) - i + 1]
  <2> TAKE i \in 1 .. Len(C)
  <2>1. Len(C) - i + 1 \in 1 .. Len(C) /\ Len(P) - Len(C) + (Len(C) - i + 1) = Len(P) - i + 1
    BY <1>1
  <2> QED BY <2>1 DEF Ends
<1> HIDE DEF c, q
<1>7. c = q BY <1>4, <1>5, <1>6, SeqEqual
<1> QED BY <1>2, <1>3, <1>7 DEF IsSuffix, IsPrefix, c, q

------------------------------------------------------------------------------
(* What a worker receives is what was pushed for it.  T, C and P stand for  *)
(* the VAAs a worker took, those in its channel and those pushed for it, m   *)
(* for how many of P went into the channel, D for the positions deleted.     *)

Increasing(at, n) == \A k, l \in 1 .. n : k < l => at[k] < at[l]

\* T is the first n of P without the positions D.
Without(T, P, n, D) ==
    \E at \in [1 .. Len(T) -> 1 .. Len(P)] :
        /\ Increasing(at, Len(T))
        /\ \A k \in 1 .. Len(T) : T[k] = P[at[k]]
        /\ {at[k] : k \in 1 .. Len(T)} = (1 .. n) \ D

\* The channel holds the last of the m sent; what left it was taken or deleted.
Lined(T, C, P, m, D) ==
    /\ m \in Nat /\ Len(C) <= m /\ m <= Len(P)
    /\ Ends(C, P, m)
    /\ D \subseteq 1 .. m - Len(C)
    /\ Without(T, P, m - Len(C), D)

LEMMA WithoutPush ==
    ASSUME NEW S, NEW T \in Seq(S), NEW P \in Seq(S), NEW D, NEW n, NEW e \in S,
           Without(T, P, n, D)
    PROVE  Without(T, Append(P, e), n, D)
<1>1. /\ \A j \in 1 .. Len(P) : Append(P, e)[j] = P[j]
      /\ 1 .. Len(P) \subseteq 1 .. Len(Append(P, e))
  OBVIOUS
<1>2. PICK at \in [1 .. Len(T) -> 1 .. Len(P)] :
        /\ Increasing(at, Len(T))
        /\ \A k \in 1 .. Len(T) : T[k] = P[at[k]]
        /\ {at[k] : k \in 1 .. Len(T)} = (1 .. n) \ D
  BY DEF Without
<1>3. at \in [1 .. Len(T) -> 1 .. Len(Append(P, e))] BY <1>1, Zenon
<1>4. \A k \in 1 .. Len(T) : T[k] = Append(P, e)[at[k]] BY <1>1, <1>2
<1> QED BY <1>2, <1>3, <1>4, Zenon DEF Without

LEMMA WithoutNext ==
    ASSUME NEW S, NEW T \in Seq(S), NEW P \in Seq(S), NEW D, NEW n \in Nat,
           n + 1 \in 1 .. Len(P), D \subseteq 1 .. n, Without(T, P, n, D)
    PROVE  Without(Append(T, P[n + 1]), P, n + 1, D)
<1> DEFINE t == Len(T)
           h == P[n + 1]
           U == Append(T, h)
<1>1. PICK at \in [1 .. t -> 1 .. Len(P)] :
        /\ Increasing(at, t)
        /\ \A k \in 1 .. t : T[k] = P[at[k]]
        /\ {at[k] : k \in 1 .. t} = (1 .. n) \ D
  BY DEF Without
<1>2. /\ t \in Nat /\ h \in S /\ Len(U) = t + 1
      /\ \A k \in 1 .. t : U[k] = T[k]
      /\ U[t + 1] = h
  OBVIOUS
<1>3. /\ 1 .. t + 1 = (1 .. t) \union {t + 1} /\ t + 1 \notin 1 .. t
      /\ 1 .. n + 1 = (1 .. n) \union {n + 1} /\ n + 1 \notin 1 .. n
      /\ \A j \in 1 .. n : j < n + 1
  BY <1>2
<1> DEFINE new == [k \in 1 .. t + 1 |-> IF k = t + 1 THEN n + 1 ELSE at[k]]
<1> HIDE DEF t, h, U
<1>4. /\ \A k \in 1 .. t : new[k] = at[k]
      /\ new[t + 1] = n + 1
      /\ new \in [1 .. t + 1 -> 1 .. Len(P)]
  BY <1>3
<1> HIDE DEF new
<1>5. \A k \in 1 .. t : new[k] < n + 1
  <2>1. \A k \in 1 .. t : at[k] \in 1 .. n BY <1>1
  <2> QED BY <1>3, <1>4, <2>1
<1>6. Increasing(new, t + 1)
  <2> SUFFICES ASSUME NEW k \in 1 .. t + 1, NEW l \in 1 .. t + 1, k < l
               PROVE  new[k] < new[l]
    BY DEF Increasing
  <2>1. k \in 1 .. t BY <1>2
  <2>2. CASE l = t + 1 BY <1>4, <1>5, <2>1, <2>2
  <2>3. CASE l \in 1 .. t BY <1>1, <1>4, <2>1, <2>3 DEF Increasing
  <2> QED BY <1>3, <2>2, <2>3
<1>7. \A k \in 1 .. t + 1 : U[k] = P[new[k]]
  <2>1. \A k \in 1 .. t : U[k] = P[new[k]] BY <1>1, <1>2, <1>4
  <2>2. U[t + 1] = P[new[t + 1]] BY <1>2, <1>4 DEF h
  <2> QED BY <1>3, <2>1, <2>2
<1>8. {new[k] : k \in 1 .. t + 1} = (1 .. n + 1) \ D
  <2>1. {new[k] : k \in 1 .. t + 1} = {new[k] : k \in 1 .. t} \union {new[t + 1]}
    BY <1>3, Zenon
  <2>2. {new[k] : k \in 1 .. t} = {at[k] : k \in 1 .. t} BY <1>4, Zenon
  <2>3. n + 1 \notin D BY <1>3
  <2>4. {new[k] : k \in 1 .. t + 1} = ((1 .. n) \ D) \union {n + 1}
    BY <1>1, <1>4, <2>1, <2>2, Zenon
  <2>5. (1 .. n + 1) \ D = ((1 .. n) \ D) \union {n + 1}
    <3> DEFINE A == 1 .. n
               B == 1 .. n + 1
               x == n + 1
    <3>1. B = A \union {x} /\ x \notin D BY <1>3, <2>3
    <3> HIDE DEF A, B, x
    <3>2. B \ D = (A \ D) \union {x} BY <3>1
    <3> QED BY <3>2 DEF A, B, x
  <2> QED BY <2>4, <2>5
<1>9. Without(U, P, n + 1, D)
  <2>1. /\ new \in [1 .. Len(U) -> 1 .. Len(P)]
        /\ Increasing(new, Len(U))
        /\ \A k \in 1 .. Len(U) : U[k] = P[new[k]]
        /\ {new[k] : k \in 1 .. Len(U)} = (1 .. n + 1) \ D
    BY <1>2, <1>4, <1>6, <1>7, <1>8
  <2> QED BY <2>1, Zenon DEF Without
<1> QED BY <1>9 DEF U, h

LEMMA LinedPush ==
    ASSUME NEW S, NEW T \in Seq(S), NEW C \in Seq(S), NEW P \in Seq(S), NEW D, NEW e \in S,
           Lined(T, C, P, Len(P), D)
    PROVE  Lined(T, C, Append(P, e), Len(P), D)
<1>1. Len(P) \in Nat /\ Len(C) \in Nat /\ Len(P) <= Len(Append(P, e)) OBVIOUS
<1>2. /\ Len(C) <= Len(P) /\ Ends(C, P, Len(P)) /\ D \subseteq 1 .. Len(P) - Len(C)
      /\ Without(T, P, Len(P) - Len(C), D)
  BY DEF Lined
<1>3. Ends(C, Append(P, e), Len(P)) BY <1>1, <1>2, EndsGrow
<1>4. Without(T, Append(P, e), Len(P) - Len(C), D) BY <1>2, WithoutPush
<1> QED BY <1>1, <1>2, <1>3, <1>4 DEF Lined

LEMMA LinedSend ==
    ASSUME NEW S, NEW T \in Seq(S), NEW C \in Seq(S), NEW P \in Seq(S), NEW D, NEW e \in S,
           NEW m, Lined(T, C, P, m, D), m + 1 <= Len(P), P[m + 1] = e
    PROVE  Lined(T, Append(C, e), P, m + 1, D)
<1> DEFINE M == m + 1
           B == Append(C, e)
<1>1. /\ m \in Nat /\ Len(C) <= m /\ Ends(C, P, m) /\ D \subseteq 1 .. m - Len(C)
      /\ Without(T, P, m - Len(C), D)
  BY DEF Lined
<1>2. Len(C) \in Nat /\ Len(B) = Len(C) + 1 OBVIOUS
<1>3. M \in Nat /\ Len(B) <= M /\ M <= Len(P) /\ M - Len(B) = m - Len(C)
  BY <1>1, <1>2
<1>4. Ends(B, P, M) BY <1>1, EndsAppend
<1> HIDE DEF M, B
<1>5. Lined(T, B, P, M, D) BY <1>1, <1>3, <1>4 DEF Lined
<1> QED BY <1>5 DEF M, B

\* The message that leaves the channel is the next of P after all that left before.
LEMMA LinedHead ==
    ASSUME NEW S, NEW C \in Seq(S), NEW P \in Seq(S), NEW m \in Nat,
           C # <<>>, Len(C) <= m, m <= Len(P), Ends(C, P, m)
    PROVE  /\ Head(C) = P[m - Len(C) + 1]
           /\ m - Len(C) \in Nat /\ m - Len(C) + 1 \in 1 .. Len(P)
           /\ Tail(C) \in Seq(S) /\ Len(Tail(C)) <= m /\ Ends(Tail(C), P, m)
           /\ m - Len(Tail(C)) = m - Len(C) + 1
<1>1. /\ Head(C) = C[1] /\ Head(C) \in S /\ Tail(C) \in Seq(S)
      /\ Len(Tail(C)) = Len(C) - 1 /\ Len(C) \in Nat \ {0}
  BY HeadTailProperties, EmptySeq
<1>2. 1 \in 1 .. Len(C) /\ Len(P) \in Nat BY <1>1
<1>3. Head(C) = P[m - Len(C) + 1] BY <1>1, <1>2 DEF Ends
<1>4. Ends(Tail(C), P, m) BY EndsTail
<1>5. /\ m - Len(C) \in Nat /\ m - Len(C) + 1 \in 1 .. Len(P) /\ Len(Tail(C)) <= m
      /\ m - Len(Tail(C)) = m - Len(C) + 1
  BY <1>1, <1>2
<1> QED BY <1>1, <1>3, <1>4, <1>5

LEMMA LinedTake ==
    ASSUME NEW S, NEW T \in Seq(S), NEW C \in Seq(S), NEW P \in Seq(S), NEW D,
           NEW m, Lined(T, C, P, m, D), C # <<>>
    PROVE  Lined(Append(T, Head(C)), Tail(C), P, m, D)
<1> DEFINE n == m - Len(C)
<1>1. /\ m \in Nat /\ Len(C) <= m /\ m <= Len(P) /\ Ends(C, P, m) /\ D \subseteq 1 .. n
      /\ Without(T, P, n, D)
  BY DEF Lined
<1>2. /\ Head(C) = P[n + 1] /\ n \in Nat /\ n + 1 \in 1 .. Len(P)
      /\ Len(Tail(C)) <= m /\ Ends(Tail(C), P, m) /\ m - Len(Tail(C)) = n + 1
  BY <1>1, LinedHead
<1> HIDE DEF n
<1>3. Without(Append(T, P[n + 1]), P, n + 1, D) BY <1>1, <1>2, WithoutNext
<1>4. D \subseteq 1 .. n + 1 BY <1>1, <1>2
<1> QED BY <1>1, <1>2, <1>3, <1>4, Zenon DEF Lined

LEMMA LinedDrop ==
    ASSUME NEW S, NEW T \in Seq(S), NEW C \in Seq(S), NEW P \in Seq(S), NEW D,
           NEW m, Lined(T, C, P, m, D), C # <<>>
    PROVE  Lined(T, Tail(C), P, m, D \union {m - Len(C) + 1})
<1> DEFINE n == m - Len(C)
           E == D \union {n + 1}
<1>1. /\ m \in Nat /\ Len(C) <= m /\ m <= Len(P) /\ Ends(C, P, m) /\ D \subseteq 1 .. n
      /\ Without(T, P, n, D)
  BY DEF Lined
<1>2. /\ n \in Nat /\ Len(Tail(C)) <= m /\ Ends(Tail(C), P, m) /\ m - Len(Tail(C)) = n + 1
  BY <1>1, LinedHead
<1> HIDE DEF n
<1>3. E \subseteq 1 .. n + 1 /\ (1 .. n + 1) \ E = (1 .. n) \ D BY <1>1, <1>2
<1>4. Without(T, P, n + 1, E) BY <1>1, <1>3 DEF Without
<1>5. Lined(T, Tail(C), P, m, E) BY <1>1, <1>2, <1>3, <1>4, Zenon DEF Lined
<1> QED BY <1>5 DEF n

------------------------------------------------------------------------------
(* The two lines of VAAs, from the reader to the workers.                   *)

\* The reader is pushing a VAA for w; how many it has sent to w before.
PushingFor(w) == incoming # NoVaa /\ ChannelOf(incoming) = w
SentTo(w) == IF PushingFor(w) THEN Len(pushed[w]) - 1 ELSE Len(pushed[w])
Deleted(w) == IF w = "pyth" THEN dropped ELSE {}

Line(w) ==
    /\ Lined(taken[w], ch[w], pushed[w], SentTo(w), Deleted(w))
    /\ PushingFor(w) => pushed[w][Len(pushed[w])] = incoming

LineInv == \A w \in Workers : Line(w)

\* What the typing lemmas say of the sequences of a worker.
LEMMA LineSeqs ==
    ASSUME Typed, NEW w \in Workers
    PROVE  /\ ch[w] \in Seq(Vaas) /\ pushed[w] \in Seq(Vaas) /\ taken[w] \in Seq(Vaas)
           /\ Len(ch[w]) \in Nat /\ Len(pushed[w]) \in Nat /\ Len(ch[w]) <= Size /\ Size \in Nat
  BY BoundsAssumption DEF Typed, TypeOK

LEMMA SameLine ==
    ASSUME NEW w \in Workers, Line(w), taken'[w] = taken[w], ch'[w] = ch[w],
           pushed'[w] = pushed[w], dropped' = dropped,
           PushingFor(w)' <=> PushingFor(w), PushingFor(w) => incoming' = incoming
    PROVE  Line(w)'
<1>1. SentTo(w)' = SentTo(w) /\ Deleted(w)' = Deleted(w) BY DEF SentTo, Deleted
<1> QED BY <1>1 DEF Line

LEMMA InitLine == ASSUME Init PROVE LineInv
<1> SUFFICES ASSUME NEW w \in Workers PROVE Line(w)
  BY DEF LineInv
<1>1. /\ taken[w] = <<>> /\ ch[w] = <<>> /\ pushed[w] = <<>> /\ dropped = {} /\ incoming = NoVaa
      /\ Len(<<>>) = 0
  BY DEF Init
<1>2. ~PushingFor(w) /\ SentTo(w) = 0 /\ Deleted(w) = {}
  BY <1>1 DEF PushingFor, SentTo, Deleted
<1>3. Ends(<<>>, <<>>, 0) BY <1>1 DEF Ends
<1>4. Without(<<>>, <<>>, 0, {})
  <2> DEFINE at == [k \in 1 .. 0 |-> 0]
  <2>1. /\ at \in [1 .. 0 -> 1 .. 0] /\ Increasing(at, 0) /\ {at[k] : k \in 1 .. 0} = {}
        /\ 1 .. 0 = {}
    BY DEF Increasing
  <2>2. \A k \in 1 .. 0 : <<>>[k] = <<>>[at[k]] BY <2>1
  <2>3. (1 .. 0) \ {} = {} BY <2>1
  <2> HIDE DEF at
  <2> QED BY <1>1, <2>1, <2>2, <2>3 DEF Without
<1>5. Lined(<<>>, <<>>, <<>>, 0, {})
  <2> DEFINE n == 0 - Len(<<>>)
  <2>0. Len(<<>>) = 0 BY EmptySeq
  <2>a. \A x : x = 0 => x <= 0 /\ 0 <= x /\ 0 - x = 0 OBVIOUS
  <2>1. Len(<<>>) <= 0 /\ 0 <= Len(<<>>) /\ n = 0 /\ 0 \in Nat BY <2>0, <2>a, Zenon
  <2>2. {} \subseteq 1 .. n /\ Without(<<>>, <<>>, n, {}) BY <1>4, <2>1
  <2> QED BY <1>3, <2>1, <2>2, Zenon DEF Lined
<1> QED BY <1>1, <1>2, <1>5 DEF Line

LEMMA ReadLine == ASSUME Typed, LineInv, NEW v \in Vaas, Read(v) PROVE LineInv'
<1> SUFFICES ASSUME NEW w \in Workers PROVE Line(w)'
  BY DEF LineInv
<1>1. /\ incoming = NoVaa /\ v # NoVaa /\ incoming' = v
      /\ ch' = ch /\ taken' = taken /\ dropped' = dropped
      /\ pushed' = [pushed EXCEPT ![ChannelOf(v)] = Append(@, v)]
  BY ChainsAssumption DEF Read, workerVars, Typed, Places
<1>2. Line(w) /\ ~PushingFor(w) BY <1>1 DEF LineInv, PushingFor
<1>3. CASE ChannelOf(v) # w
  <2>1. pushed'[w] = pushed[w] /\ ~PushingFor(w)'
    BY <1>1, <1>3 DEF PushingFor, Typed, TypeOK
  <2> QED BY <1>1, <1>2, <2>1, SameLine
<1>4. CASE ChannelOf(v) = w
  <2>1. pushed'[w] = Append(pushed[w], v) /\ PushingFor(w)'
    BY <1>1, <1>4 DEF PushingFor, Typed, TypeOK
  <2>2. /\ Len(pushed'[w]) = Len(pushed[w]) + 1 /\ pushed'[w][Len(pushed[w]) + 1] = v
        /\ Len(pushed'[w]) - 1 = Len(pushed[w])
    BY <2>1, LineSeqs
  <2>3. SentTo(w) = Len(pushed[w]) /\ SentTo(w)' = Len(pushed[w]) /\ Deleted(w)' = Deleted(w)
    BY <1>1, <1>2, <2>1, <2>2 DEF SentTo, Deleted
  <2>4. Lined(taken[w], ch[w], Append(pushed[w], v), Len(pushed[w]), Deleted(w))
    BY <1>2, <2>3, LineSeqs, LinedPush DEF Line
  <2> QED BY <1>1, <2>1, <2>2, <2>3, <2>4 DEF Line
<1> QED BY <1>3, <1>4

LEMMA SendLine ==
    ASSUME Typed, LineInv, reader \in {"try", "send"}, SendIncoming,
           UNCHANGED <<pushed, dropped, taken>>
    PROVE  LineInv'
<1> SUFFICES ASSUME NEW w \in Workers PROVE Line(w)'
  BY DEF LineInv
<1>1. Line(w) /\ incoming \in Vaas /\ NoVaa \notin Vaas
  BY ChainsAssumption DEF LineInv, Typed, Places, Vaas
<1>2. CASE Closed
  <2>1. ch' = ch /\ incoming' = incoming BY <1>2 DEF SendIncoming, readerVars
  <2> QED BY <1>1, <2>1, SameLine DEF PushingFor
<1>3. CASE ~Closed
  <2>1. ch' = [ch EXCEPT ![ChannelOf(incoming)] = Append(@, incoming)] /\ incoming' = NoVaa
    BY <1>3 DEF SendIncoming
  <2>2. CASE ChannelOf(incoming) # w
    <3>1. ch'[w] = ch[w] /\ ~PushingFor(w) /\ ~PushingFor(w)'
      BY <2>1, <2>2 DEF PushingFor, Typed, TypeOK
    <3> QED BY <1>1, <3>1, SameLine
  <2>3. CASE ChannelOf(incoming) = w
    <3>1. ch'[w] = Append(ch[w], incoming) /\ PushingFor(w) /\ ~PushingFor(w)'
      BY <1>1, <2>1, <2>3 DEF PushingFor, Typed, TypeOK
    <3>2. /\ SentTo(w) = Len(pushed[w]) - 1 /\ SentTo(w)' = Len(pushed[w])
          /\ Deleted(w)' = Deleted(w) /\ pushed[w][Len(pushed[w])] = incoming
      BY <1>1, <3>1 DEF SentTo, Deleted, Line
    <3>3. SentTo(w) + 1 = Len(pushed[w]) BY <3>2, LineSeqs
    <3>4. Lined(taken[w], Append(ch[w], incoming), pushed[w], SentTo(w) + 1, Deleted(w))
      <4>1. SentTo(w) + 1 <= Len(pushed[w]) /\ pushed[w][SentTo(w) + 1] = incoming
        BY <3>2, <3>3, LineSeqs
      <4>2. Lined(taken[w], ch[w], pushed[w], SentTo(w), Deleted(w)) BY <1>1 DEF Line
      <4> QED BY <1>1, <4>1, <4>2, LineSeqs, LinedSend
    <3> QED BY <3>1, <3>2, <3>3, <3>4 DEF Line
  <2> QED BY <2>2, <2>3
<1> QED BY <1>2, <1>3

LEMMA DropLine == ASSUME Typed, LineInv, DropOldest PROVE LineInv'
<1> SUFFICES ASSUME NEW w \in Workers PROVE Line(w)'
  BY DEF LineInv
<1>1. Line(w) /\ pushed' = pushed /\ taken' = taken /\ incoming' = incoming /\ incoming \in Pyth
  BY DEF LineInv, DropOldest, workerVars, Typed, Places
<1>2. PushingFor(w)' <=> PushingFor(w) BY <1>1 DEF PushingFor
<1>3. CASE ch["pyth"] = <<>>
  <2>1. ch' = ch /\ dropped' = dropped BY <1>3 DEF DropOldest
  <2> QED BY <1>1, <1>2, <2>1, SameLine
<1>4. CASE ch["pyth"] # <<>>
  <2>1. /\ ch' = [ch EXCEPT !["pyth"] = Tail(@)]
        /\ dropped' = dropped \union {Len(pushed["pyth"]) - Len(ch["pyth"])}
    BY <1>4 DEF DropOldest
  <2>2. CASE w = "pyth"
    <3>1. PushingFor(w) /\ SentTo(w) = Len(pushed[w]) - 1 /\ SentTo(w)' = SentTo(w)
      BY <1>1, <2>2, ChainsAssumption DEF PushingFor, SentTo, ChannelOf, Vaas
    <3>2. SentTo(w) - Len(ch[w]) + 1 = Len(pushed[w]) - Len(ch[w]) BY <3>1, LineSeqs
    <3>3. Deleted(w)' = Deleted(w) \union {SentTo(w) - Len(ch[w]) + 1}
      BY <2>1, <2>2, <3>2 DEF Deleted
    <3>4. ch'[w] = Tail(ch[w]) BY <2>1, <2>2 DEF Typed, TypeOK
    <3>5. Lined(taken[w], Tail(ch[w]), pushed[w], SentTo(w), Deleted(w) \union {SentTo(w) - Len(ch[w]) + 1})
      <4>1. Lined(taken[w], ch[w], pushed[w], SentTo(w), Deleted(w)) BY <1>1 DEF Line
      <4> QED BY <1>4, <2>2, <4>1, LineSeqs, LinedDrop
    <3> QED BY <1>1, <1>2, <3>1, <3>3, <3>4, <3>5 DEF Line
  <2>3. CASE w # "pyth"
    <3>1. ch'[w] = ch[w] /\ SentTo(w)' = SentTo(w) /\ Deleted(w)' = Deleted(w)
      BY <1>1, <1>2, <2>1, <2>3 DEF SentTo, Deleted, Typed, TypeOK
    <3> QED BY <1>1, <1>2, <3>1 DEF Line
  <2> QED BY <2>2, <2>3
<1> QED BY <1>3, <1>4

LEMMA ReceiveLine == ASSUME Typed, LineInv, NEW u \in Workers, Receive(u) PROVE LineInv'
<1> SUFFICES ASSUME NEW w \in Workers PROVE Line(w)'
  BY DEF LineInv
<1>1. /\ Line(w) /\ pushed' = pushed /\ incoming' = incoming /\ dropped' = dropped
      /\ ch' = [ch EXCEPT ![u] = Tail(@)] /\ ch[u] # <<>>
      /\ taken' = [taken EXCEPT ![u] = Append(@, Head(ch[u]))]
  BY DEF LineInv, Receive, readerVars
<1>2. SentTo(w)' = SentTo(w) /\ Deleted(w)' = Deleted(w) /\ (PushingFor(w)' <=> PushingFor(w))
  BY <1>1 DEF PushingFor, SentTo, Deleted
<1>3. CASE w = u
  <2>1. ch'[w] = Tail(ch[w]) /\ taken'[w] = Append(taken[w], Head(ch[w]))
    BY <1>1, <1>3 DEF Typed, TypeOK
  <2>2. Lined(taken[w], ch[w], pushed[w], SentTo(w), Deleted(w)) BY <1>1 DEF Line
  <2>3. Lined(Append(taken[w], Head(ch[w])), Tail(ch[w]), pushed[w], SentTo(w), Deleted(w))
    BY <1>1, <1>3, <2>2, LineSeqs, LinedTake
  <2> QED BY <1>1, <1>2, <2>1, <2>3 DEF Line
<1>4. CASE w # u
  <2>1. ch'[w] = ch[w] /\ taken'[w] = taken[w] BY <1>1, <1>4 DEF Typed, TypeOK
  <2> QED BY <1>1, <1>2, <2>1, SameLine
<1> QED BY <1>3, <1>4

LEMMA StepLine == Typed /\ LineInv /\ [Next]_vars => LineInv'
<1> SUFFICES ASSUME Typed, LineInv, [Next]_vars PROVE LineInv'
  OBVIOUS
<1>1. ASSUME NEW v \in Vaas, Read(v) PROVE LineInv' BY <1>1, ReadLine
<1>2. ASSUME UNCHANGED <<ch, taken, pushed, dropped, incoming>> PROVE LineInv'
  BY <1>2, SameLine DEF LineInv, PushingFor
<1>3. CASE Send BY <1>3, SendLine DEF Send, workerVars
<1>4. CASE TrySend
  <2>1. CASE ~Closed /\ Full("pyth") BY <1>2, <1>4, <2>1 DEF TrySend, workerVars
  <2> QED BY <1>4, <2>1, SendLine DEF TrySend, workerVars
<1>5. CASE DropOldest BY <1>5, DropLine
<1>6. ASSUME NEW w \in Workers, Receive(w) PROVE LineInv' BY <1>6, ReceiveLine
<1>7. ASSUME NEW w \in Workers, Check(w) \/ Process(w) \/ Remember(w) \/ WorkerStops(w)
      PROVE  LineInv'
  BY <1>2, <1>7
     DEF Check, Process, Remember, WorkerStops, Rest, Step, channelVars, readerVars
<1>8. ASSUME Shutdown \/ ReaderStops \/ UNCHANGED vars \/ \E v \in Vaas : Forget(v)
      PROVE  LineInv'
  BY <1>2, <1>8 DEF Shutdown, ReaderStops, Forget, vars, channelVars, readerVars, workerVars
<1> QED BY <1>1, <1>3, <1>4, <1>5, <1>6, <1>7, <1>8 DEF Next, Push, Worker

\* U is P without D.
KeptOf(U, P, D) ==
    \E at \in [DOMAIN U -> DOMAIN P] :
        /\ \A k, l \in DOMAIN U : k < l => at[k] < at[l]
        /\ \A k \in DOMAIN U : U[k] = P[at[k]]
        /\ {at[k] : k \in DOMAIN U} = DOMAIN P \ D

\* T and C together are P without D.
LEMMA LinedKept ==
    ASSUME NEW S, NEW T \in Seq(S), NEW C \in Seq(S), NEW P \in Seq(S), NEW D, NEW U,
           U = T \o C, Lined(T, C, P, Len(P), D)
    PROVE  KeptOf(U, P, D)
<1> DEFINE t == Len(T)
           c == Len(C)
           n == Len(P) - c
<1>1. /\ t \in Nat /\ c \in Nat /\ Len(P) \in Nat /\ DOMAIN P = 1 .. Len(P)
      /\ DOMAIN U = 1 .. t + c
      /\ \A k \in 1 .. t : U[k] = T[k]
      /\ \A k \in 1 .. c : U[t + k] = C[k]
  BY ConcatProperties
<1>2. n \in Nat /\ Ends(C, P, Len(P)) /\ D \subseteq 1 .. n /\ Without(T, P, n, D)
  BY <1>1 DEF Lined
<1>3. PICK at \in [1 .. t -> 1 .. Len(P)] :
        /\ Increasing(at, t)
        /\ \A k \in 1 .. t : T[k] = P[at[k]]
        /\ {at[k] : k \in 1 .. t} = (1 .. n) \ D
  BY <1>2 DEF Without
<1>4. \A k \in 1 .. c : C[k] = P[n + k] /\ n + k \in 1 .. Len(P)
  <2>1. \A k \in 1 .. c : C[k] = P[n + k] BY <1>2, Zenon DEF Ends
  <2>2. \A k \in 1 .. c : n + k \in 1 .. Len(P) BY <1>1, <1>2
  <2> QED BY <2>1, <2>2
<1> DEFINE new == [k \in 1 .. t + c |-> IF k <= t THEN at[k] ELSE n + (k - t)]
<1> HIDE DEF t
<1>5. \A k \in 1 .. t + c : (k <= t => k \in 1 .. t) /\ (~(k <= t) => k - t \in 1 .. c /\ t + (k - t) = k)
  BY <1>1
<1>6. new \in [1 .. t + c -> 1 .. Len(P)]
  BY <1>3, <1>4, <1>5
<1>7. /\ \A k \in 1 .. t : k \in 1 .. t + c /\ new[k] = at[k] /\ new[k] \in 1 .. n
      /\ \A k \in 1 .. c : t + k \in 1 .. t + c /\ new[t + k] = n + k
  <2>1. \A k \in 1 .. t : at[k] \in 1 .. n BY <1>3
  <2> QED BY <1>1, <2>1
<1> HIDE DEF new, c
<1>8. \A k, l \in 1 .. t + c : k < l => new[k] < new[l]
  <2> SUFFICES ASSUME NEW k \in 1 .. t + c, NEW l \in 1 .. t + c, k < l PROVE new[k] < new[l]
    OBVIOUS
  <2>1. CASE l \in 1 .. t
    <3>1. k \in 1 .. t BY <1>1, <2>1
    <3> QED BY <1>3, <1>7, <2>1, <3>1 DEF Increasing
  <2>2. CASE k \in 1 .. t /\ l \notin 1 .. t
    <3>1. l - t \in 1 .. c /\ t + (l - t) = l BY <1>5, <1>1, <2>2
    <3>2. new[l] = n + (l - t) BY <1>7, <3>1
    <3>3. new[k] \in 1 .. n BY <1>7, <2>2
    <3> QED BY <1>1, <1>2, <3>1, <3>2, <3>3
  <2>3. CASE k \notin 1 .. t /\ l \notin 1 .. t
    <3>1. k - t \in 1 .. c /\ t + (k - t) = k /\ l - t \in 1 .. c /\ t + (l - t) = l
      BY <1>5, <1>1, <2>3
    <3>2. new[k] = n + (k - t) /\ new[l] = n + (l - t) BY <1>7, <3>1
    <3> QED BY <1>1, <1>2, <3>2
  <2>4. k \in 1 .. t => l \in 1 .. t \/ l \notin 1 .. t OBVIOUS
  <2>5. k \notin 1 .. t => l \notin 1 .. t BY <1>1
  <2> QED BY <2>1, <2>2, <2>3, <2>5
<1>9. \A k \in 1 .. t + c : U[k] = P[new[k]]
  <2> SUFFICES ASSUME NEW k \in 1 .. t + c PROVE U[k] = P[new[k]]
    OBVIOUS
  <2>1. CASE k <= t BY <1>1, <1>3, <1>5, <1>7, <2>1
  <2>2. CASE ~(k <= t)
    <3>1. k - t \in 1 .. c /\ t + (k - t) = k BY <1>5, <2>2
    <3>2. U[k] = C[k - t] /\ new[k] = n + (k - t) BY <1>1, <1>7, <3>1
    <3> QED BY <1>4, <3>1, <3>2
  <2> QED BY <2>1, <2>2
<1>10. {new[k] : k \in 1 .. t + c} = (1 .. Len(P)) \ D
  <2>1. \A x \in 1 .. Len(P) : x \notin D => \E k \in 1 .. t + c : new[k] = x
    <3> SUFFICES ASSUME NEW x \in 1 .. Len(P), x \notin D PROVE \E k \in 1 .. t + c : new[k] = x
      OBVIOUS
    <3>1. CASE x \in 1 .. n
      <4>1. PICK k \in 1 .. t : at[k] = x BY <1>3, <3>1
      <4> QED BY <1>7, <4>1
    <3>2. CASE x \notin 1 .. n
      <4>1. x - n \in 1 .. c /\ n + (x - n) = x BY <1>1, <1>2, <3>2 DEF c
      <4> QED BY <1>7, <4>1
    <3> QED BY <3>1, <3>2
  <2>2. ASSUME NEW k \in 1 .. t + c PROVE new[k] \in (1 .. Len(P)) \ D
    <3>1. CASE k <= t
      <4>1. k \in 1 .. t /\ at[k] \in (1 .. n) \ D BY <1>3, <1>5, <3>1
      <4> QED BY <1>6, <1>7, <4>1
    <3>2. CASE ~(k <= t)
      <4>1. k - t \in 1 .. c /\ t + (k - t) = k BY <1>5, <3>2
      <4>2. new[k] = n + (k - t) BY <1>7, <4>1
      <4>3. new[k] \notin 1 .. n BY <1>2, <4>1, <4>2
      <4> QED BY <1>2, <1>6, <4>3
    <3> QED BY <3>1, <3>2
  <2> QED BY <2>1, <2>2
<1>11. /\ new \in [DOMAIN U -> DOMAIN P]
       /\ \A k, l \in DOMAIN U : k < l => new[k] < new[l]
       /\ \A k \in DOMAIN U : U[k] = P[new[k]]
       /\ {new[k] : k \in DOMAIN U} = DOMAIN P \ D
  BY <1>1, <1>6, <1>8, <1>9, <1>10
<1> QED BY <1>11, Zenon DEF KeptOf

\* NothingElseLost, and PythFreshest, follow from the lines.
LEMMA LineKept == ASSUME Typed, NEW w \in Workers, Line(w) PROVE
        /\ IsKept(taken[w] \o ch[w] \o Incoming(w), w)
        /\ IsSuffix(ch[w] \o Incoming(w), pushed[w])
<1> DEFINE C == ch[w] \o Incoming(w)
<1>1. /\ Lined(taken[w], C, pushed[w], Len(pushed[w]), Deleted(w))
      /\ C \in Seq(Vaas)
      /\ Incoming(w) \in Seq(Vaas)
  <2>1. Lined(taken[w], ch[w], pushed[w], SentTo(w), Deleted(w)) BY DEF Line
  <2>2. CASE PushingFor(w)
    <3>1. Incoming(w) = <<incoming>> /\ incoming \in Vaas
      BY <2>2 DEF Incoming, PushingFor, Typed, TypeOK
    <3>2. C = Append(ch[w], incoming) /\ C \in Seq(Vaas) /\ Incoming(w) \in Seq(Vaas)
      BY <3>1, LineSeqs
    <3>3. SentTo(w) = Len(pushed[w]) - 1 /\ pushed[w][Len(pushed[w])] = incoming
      BY <2>2 DEF SentTo, Line
    <3>4. SentTo(w) + 1 = Len(pushed[w]) /\ SentTo(w) + 1 <= Len(pushed[w])
      BY <3>3, LineSeqs
    <3> HIDE DEF C
    <3>5. Lined(taken[w], Append(ch[w], incoming), pushed[w], SentTo(w) + 1, Deleted(w))
      BY <2>1, <3>1, <3>3, <3>4, LineSeqs, LinedSend
    <3> QED BY <3>2, <3>4, <3>5
  <2>3. CASE ~PushingFor(w)
    <3>1. Incoming(w) = <<>> /\ SentTo(w) = Len(pushed[w])
      BY <2>3 DEF Incoming, PushingFor, SentTo
    <3>2. C = ch[w] BY <3>1, LineSeqs, ConcatEmptySeq
    <3> QED BY <2>1, <3>1, <3>2, LineSeqs, EmptySeq
  <2> QED BY <2>2, <2>3
<1>2. (taken[w] \o ch[w]) \o Incoming(w) = taken[w] \o C
  <2>1. taken[w] \in Seq(Vaas) /\ ch[w] \in Seq(Vaas) BY LineSeqs
  <2> DEFINE I == Incoming(w)
  <2>2. I \in Seq(Vaas) BY <1>1
  <2> HIDE DEF I
  <2>3. \A a, b, c \in Seq(Vaas) : (a \o b) \o c = a \o (b \o c) BY ConcatAssociative, SMT
  <2>4. (taken[w] \o ch[w]) \o I = taken[w] \o (ch[w] \o I) BY <2>1, <2>2, <2>3, Zenon
  <2> QED BY <2>4 DEF I
<1> HIDE DEF C
<1>3. IsKept(taken[w] \o C, w)
  <2> DEFINE U == taken[w] \o C
  <2>1. taken[w] \in Seq(Vaas) /\ pushed[w] \in Seq(Vaas) BY LineSeqs
  <2>2. U = taken[w] \o C OBVIOUS
  <2> HIDE DEF U
  <2>3. KeptOf(U, pushed[w], Deleted(w)) BY <1>1, <2>1, <2>2, LinedKept
  <2>4. IsKept(U, w) BY <2>3, Zenon DEF KeptOf, IsKept, Deleted
  <2> QED BY <2>2, <2>4
<1>4. IsSuffix(C, pushed[w]) BY <1>1, LineSeqs, EndsIsSuffix DEF Lined
<1> QED BY <1>2, <1>3, <1>4 DEF C

\* PythNeverBlocks, in terms of the length alone.
Room == reader = "send" /\ incoming \in Pyth => Len(ch["pyth"]) < Size

LEMMA InitRoom == Init => Room
  BY DEF Init, Room

LEMMA StepRoom == Typed /\ Room /\ [Next]_vars => Room'
<1> SUFFICES ASSUME Typed, Room, [Next]_vars PROVE Room'
  OBVIOUS
<1>1. "pyth" \in Workers BY DEF Workers
<1>2. ASSUME ch'["pyth"] = ch["pyth"], incoming' = incoming, reader' \in {reader, "stopped", "read", "drop"}
      PROVE  Room'
  BY <1>2 DEF Room
<1>3. ASSUME NEW v \in Vaas, Read(v) PROVE Room'
  BY <1>3 DEF Read, Room
<1>4. CASE Send \/ TrySend
  BY <1>2, <1>4, ChainsAssumption DEF Send, TrySend, SendIncoming, readerVars, Room, Vaas
<1>5. CASE DropOldest
  <2>1. CASE ch["pyth"] = <<>>
    <3>1. Len(ch["pyth"]) < Size BY <2>1, BoundsAssumption
    <3> QED BY <1>5, <2>1, <3>1 DEF DropOldest, Room
  <2>2. CASE ch["pyth"] # <<>>
    <3>1. ch'["pyth"] = Tail(ch["pyth"]) BY <1>1, <1>5, <2>2 DEF DropOldest, Typed, TypeOK
    <3>2. Len(Tail(ch["pyth"])) = Len(ch["pyth"]) - 1 BY <1>1, <2>2, LineSeqs, HeadTailProperties
    <3> QED BY <1>1, <3>1, <3>2, LineSeqs DEF Room
  <2> QED BY <2>1, <2>2
<1>6. ASSUME NEW w \in Workers, Receive(w) PROVE Room'
  <2>1. incoming' = incoming /\ reader' = reader BY <1>6 DEF Receive, readerVars
  <2>2. CASE w = "pyth"
    <3>1. ch["pyth"] # <<>> /\ ch'["pyth"] = Tail(ch["pyth"])
      BY <1>6, <2>2 DEF Receive, Typed, TypeOK
    <3>2. Len(Tail(ch["pyth"])) = Len(ch["pyth"]) - 1 BY <1>1, <3>1, LineSeqs, HeadTailProperties
    <3> QED BY <1>1, <3>1, <3>2, LineSeqs DEF Room
  <2>3. CASE w # "pyth"
    <3>1. ch'["pyth"] = ch["pyth"] BY <1>1, <1>6, <2>3 DEF Receive, Typed, TypeOK
    <3> QED BY <1>2, <2>1, <3>1
  <2> QED BY <2>2, <2>3
<1>7. ASSUME NEW w \in Workers, Check(w) \/ Process(w) \/ Remember(w) \/ WorkerStops(w)
      PROVE  Room'
  BY <1>2, <1>7 DEF Check, Process, Remember, WorkerStops, channelVars, readerVars
<1>8. ASSUME Shutdown \/ ReaderStops \/ UNCHANGED vars \/ \E v \in Vaas : Forget(v)
      PROVE  Room'
  BY <1>2, <1>8 DEF Shutdown, ReaderStops, Forget, vars, channelVars, readerVars
<1> QED BY <1>3, <1>4, <1>5, <1>6, <1>7, <1>8 DEF Next, Push, Worker

LEMMA LineInvLane == Typed /\ LineInv /\ Room => PythLane
<1> SUFFICES ASSUME Typed, LineInv, Room PROVE PythLane
  OBVIOUS
<1>1. "pyth" \in Workers BY DEF Workers
<1>2. PythNeverBlocks BY <1>1, LineSeqs DEF Room, PythNeverBlocks, Full
<1>3. PythFreshest BY <1>1, LineKept DEF LineInv, PythFreshest
<1> QED BY <1>2, <1>3 DEF PythLane

\* The push of a pyth VAA never waits, and what waits in the channel are the most
\* recent pyth VAAs, whatever the worker takes between the two selects.
THEOREM PythLaneKept == Spec => []PythLane
  BY InitTyped, StepTyped, InitLine, StepLine, InitRoom, StepRoom, LineInvLane, PTL DEF Spec

------------------------------------------------------------------------------
(* The deduplicator.                                                        *)

\* A worker is between the decision to hand v over and the Set of v's id.
HandingOver(v) == \E w \in Workers : stage[w] \in {"process", "remember"} /\ work[w] = v
Remembering(v) == \E w \in Workers : stage[w] = "remember" /\ work[w] = v

\* Each worker has the VAAs of its own chains only, so no two are at one VAA.
Sorted ==
    /\ \A w \in Workers : \A i \in 1 .. Len(ch[w]) : ChannelOf(ch[w][i]) = w
    /\ \A w \in Workers :
          stage[w] \in {"check", "process", "remember"} => ChannelOf(work[w]) = w

\* A VAA has been handed over once more than the cache lost it exactly while the
\* cache has it, or is about to.
Counted ==
    \A v \in Vaas :
        /\ HandingOver(v) => v \notin seen
        /\ handed[v] = forgotten[v] + (IF v \in seen \/ Remembering(v) THEN 1 ELSE 0)

LEMMA InitCounted == Init => Sorted /\ Counted
  BY DEF Init, Sorted, Counted, HandingOver, Remembering

LEMMA StepSorted == Typed /\ Sorted /\ [Next]_vars => Sorted'
<1> SUFFICES ASSUME Typed, Sorted, [Next]_vars PROVE Sorted'
  OBVIOUS
<1>1. ASSUME UNCHANGED ch,
             \A w \in Workers : \/ stage'[w] \in {"receive", "stopped"}
                                \/ stage[w] \in {"check", "process"} /\ work'[w] = work[w]
                                \/ stage'[w] = stage[w] /\ work'[w] = work[w]
      PROVE  Sorted'
  BY <1>1 DEF Sorted
<1>2. ASSUME SendIncoming, reader \in {"try", "send"}, UNCHANGED workerVars PROVE Sorted'
  <2>1. CASE Closed BY <1>1, <1>2, <2>1 DEF SendIncoming, workerVars
  <2>2. CASE ~Closed
    <3> DEFINE c == ChannelOf(incoming)
    <3>1. ch' = [ch EXCEPT ![c] = Append(@, incoming)] /\ incoming \in Vaas /\ c \in Workers
      BY <1>2, <2>2 DEF SendIncoming, Typed, Places, Vaas, Workers, ChannelOf
    <3>2. \A w \in Workers : ch'[w] = IF w = c THEN Append(ch[w], incoming) ELSE ch[w]
      BY <3>1 DEF Typed, TypeOK
    <3> HIDE DEF c
    <3>3. ASSUME NEW w \in Workers, NEW i \in 1 .. Len(ch'[w]) PROVE ChannelOf(ch'[w][i]) = w
      <4>1. CASE w # c BY <3>2, <3>3, <4>1 DEF Sorted
      <4>2. CASE w = c
        <5>1. ch'[w] = Append(ch[w], incoming) BY <3>2, <4>2
        <5>2. /\ Len(ch'[w]) = Len(ch[w]) + 1 /\ Len(ch[w]) \in Nat
              /\ \A j \in 1 .. Len(ch[w]) : ch'[w][j] = ch[w][j]
              /\ ch'[w][Len(ch[w]) + 1] = incoming
          BY <3>1, <5>1, LineSeqs
        <5>3. CASE i \in 1 .. Len(ch[w]) BY <5>2, <5>3 DEF Sorted
        <5>4. CASE i = Len(ch[w]) + 1 BY <4>2, <5>2, <5>4 DEF c
        <5> QED BY <3>3, <5>2, <5>3, <5>4
      <4> QED BY <4>1, <4>2
    <3> QED BY <1>2, <3>3 DEF Sorted, workerVars
  <2> QED BY <2>1, <2>2
\* A channel without its oldest message.
<1>3. ASSUME NEW w \in Workers, ch[w] # <<>>, ch' = [ch EXCEPT ![w] = Tail(@)]
      PROVE  \A u \in Workers : \A i \in 1 .. Len(ch'[u]) : ChannelOf(ch'[u][i]) = u
  <2>1. \A u \in Workers : ch'[u] = IF u = w THEN Tail(ch[u]) ELSE ch[u]
    BY <1>3 DEF Typed, TypeOK
  <2>2. /\ Len(Tail(ch[w])) = Len(ch[w]) - 1 /\ Len(ch[w]) \in Nat
        /\ \A i \in 1 .. Len(Tail(ch[w])) : Tail(ch[w])[i] = ch[w][i + 1]
    BY <1>3, LineSeqs, HeadTailProperties
  <2>3. \A i \in 1 .. Len(Tail(ch[w])) : i + 1 \in 1 .. Len(ch[w]) BY <2>2
  <2>4. \A i \in 1 .. Len(Tail(ch[w])) : ChannelOf(Tail(ch[w])[i]) = w
    <3> TAKE i \in 1 .. Len(Tail(ch[w]))
    <3>1. ChannelOf(ch[w][i + 1]) = w BY <2>3 DEF Sorted
    <3> QED BY <2>2, <3>1
  <2> QED BY <2>1, <2>4 DEF Sorted
<1>4. ASSUME NEW v \in Vaas, Read(v) PROVE Sorted'
  BY <1>1, <1>4 DEF Read, workerVars
<1>5. CASE Send \/ TrySend
  BY <1>1, <1>2, <1>5 DEF Send, TrySend, workerVars
<1>6. CASE DropOldest
  <2>1. CASE ch["pyth"] = <<>> BY <1>1, <1>6, <2>1 DEF DropOldest, workerVars
  <2>2. CASE ch["pyth"] # <<>>
    BY <1>3, <1>6, <2>2 DEF DropOldest, workerVars, Sorted, Workers
  <2> QED BY <2>1, <2>2
<1>7. ASSUME NEW w \in Workers, Receive(w) PROVE Sorted'
  <2>1. Head(ch[w]) = ch[w][1] /\ 1 \in 1 .. Len(ch[w])
    BY <1>7, LineSeqs, EmptySeq DEF Receive
  <2>2. \A u \in Workers : stage'[u] \in {"check", "process", "remember"} => ChannelOf(work'[u]) = u
    BY <1>7, <2>1 DEF Receive, Sorted, Typed, TypeOK
  <2> QED BY <1>3, <1>7, <2>2 DEF Receive, Sorted
<1>8. ASSUME NEW w \in Workers, Check(w) \/ Process(w) \/ Remember(w) \/ WorkerStops(w)
      PROVE  Sorted'
  BY <1>1, <1>8
     DEF Check, Process, Remember, WorkerStops, Rest, Step, channelVars, Typed, TypeOK
<1>9. ASSUME Shutdown \/ ReaderStops \/ UNCHANGED vars \/ \E v \in Vaas : Forget(v)
      PROVE  Sorted'
  BY <1>1, <1>9 DEF Shutdown, ReaderStops, Forget, vars, channelVars, workerVars
<1> QED BY <1>4, <1>5, <1>6, <1>7, <1>8, <1>9 DEF Next, Push, Worker

LEMMA StepCounted == Typed /\ Sorted /\ Counted /\ [Next]_vars => Counted'
<1> SUFFICES ASSUME Typed, Sorted, Counted, [Next]_vars PROVE Counted'
  OBVIOUS
<1>1. /\ work \in [Workers -> Vaas \union {NoVaa}]
      /\ stage \in [Workers -> {"receive", "check", "process", "remember", "stopped"}]
      /\ handed \in [Vaas -> Nat] /\ forgotten \in [Vaas -> Nat]
  BY DEF Typed, TypeOK
<1>2. \A w, u \in Workers :
         stage[w] \in {"check", "process", "remember"} /\ stage[u] \in {"check", "process", "remember"}
           /\ work[w] = work[u] => w = u
  BY DEF Sorted
\* A step that enters neither stage and leaves the counts alone.
<1>3. ASSUME UNCHANGED dedupVars,
             \A w \in Workers : \/ stage'[w] = stage[w] /\ work'[w] = work[w]
                                \/ stage[w] # "remember" /\ stage'[w] \notin {"process", "remember"}
      PROVE  Counted'
  <2>1. \A v \in Vaas : (HandingOver(v)' => HandingOver(v)) /\ (Remembering(v)' <=> Remembering(v))
    BY <1>3 DEF HandingOver, Remembering
  <2> QED BY <1>3, <2>1 DEF Counted, dedupVars
<1>4. ASSUME NEW w \in Workers, Check(w) PROVE Counted'
  <2>1. CASE work[w] \in Invalid \union seen
    BY <1>1, <1>3, <1>4, <2>1 DEF Check, Rest
  <2>2. CASE work[w] \notin Invalid \union seen
    <3>1. /\ stage' = [stage EXCEPT ![w] = "process"] /\ work' = work /\ stage[w] = "check"
          /\ seen' = seen /\ handed' = handed /\ forgotten' = forgotten
      BY <1>4, <2>2 DEF Check, Step, dedupVars
    <3>2. \A v \in Vaas : Remembering(v)' <=> Remembering(v)
      BY <1>1, <3>1 DEF Remembering
    <3>3. \A v \in Vaas : HandingOver(v)' => HandingOver(v) \/ v = work[w]
      BY <1>1, <3>1 DEF HandingOver
    <3> QED BY <2>2, <3>1, <3>2, <3>3 DEF Counted
  <2> QED BY <2>1, <2>2
<1>5. ASSUME NEW w \in Workers, Process(w) PROVE Counted'
  <2>1. stage[w] = "process" /\ seen' = seen /\ forgotten' = forgotten /\ work[w] \in Vaas
    BY <1>5 DEF Process, Typed, Places
  <2>2. CASE Step(w, "remember") /\ handed' = [handed EXCEPT ![work[w]] = @ + 1]
    <3>1. stage' = [stage EXCEPT ![w] = "remember"] /\ work' = work BY <2>2 DEF Step
    <3>2. \A v \in Vaas : HandingOver(v)' <=> HandingOver(v)
      BY <1>1, <2>1, <3>1 DEF HandingOver
    <3>3. \A v \in Vaas : Remembering(v)' <=> Remembering(v) \/ v = work[w]
      BY <1>1, <2>1, <3>1 DEF Remembering
    <3>4. ~Remembering(work[w]) /\ HandingOver(work[w])
      BY <1>2, <2>1 DEF Remembering, HandingOver
    <3>5. work[w] \notin seen /\ handed[work[w]] = forgotten[work[w]]
      BY <1>1, <2>1, <3>4 DEF Counted
    <3>6. \A v \in Vaas : handed'[v] = IF v = work[w] THEN handed[v] + 1 ELSE handed[v]
      BY <1>1, <2>2
    <3> QED BY <2>1, <3>2, <3>3, <3>5, <3>6 DEF Counted
  <2>3. CASE Rest(w, "receive") /\ handed' = handed
    BY <1>1, <1>3, <2>1, <2>3 DEF Rest, dedupVars
  <2> QED BY <1>5, <2>2, <2>3 DEF Process
<1>6. ASSUME NEW w \in Workers, Remember(w) PROVE Counted'
  <2>1. /\ stage[w] = "remember" /\ seen' = seen \union {work[w]}
        /\ handed' = handed /\ forgotten' = forgotten /\ work[w] \in Vaas
        /\ stage' = [stage EXCEPT ![w] = "receive"] /\ work' = [work EXCEPT ![w] = NoVaa]
    BY <1>6 DEF Remember, Rest, Typed, Places
  <2>2. \A v \in Vaas : Remembering(v) <=> Remembering(v)' \/ v = work[w]
    BY <1>1, <2>1 DEF Remembering
  <2>3. \A v \in Vaas : HandingOver(v)' => HandingOver(v) /\ v # work[w]
    BY <1>1, <1>2, <2>1 DEF HandingOver
  <2>4. \A v \in Vaas : v = work[w] => ~Remembering(v)' BY <1>1, <1>2, <2>1 DEF Remembering
  <2>5. \A v \in Vaas : v \in seen' \/ Remembering(v)' <=> v \in seen \/ Remembering(v)
    BY <2>1, <2>2, <2>4
  <2>6. \A v \in Vaas : HandingOver(v)' => v \notin seen' BY <2>1, <2>3 DEF Counted
  <2> QED BY <2>1, <2>5, <2>6 DEF Counted
<1>7. ASSUME NEW v \in Vaas, Forget(v) PROVE Counted'
  <2>1. /\ v \in seen /\ seen' = seen \ {v} /\ handed' = handed
        /\ forgotten' = [forgotten EXCEPT ![v] = @ + 1] /\ work' = work /\ stage' = stage
    BY <1>7 DEF Forget, workerVars
  <2>2. \A u \in Vaas : (HandingOver(u)' <=> HandingOver(u)) /\ (Remembering(u)' <=> Remembering(u))
    BY <2>1 DEF HandingOver, Remembering
  <2>3. ~Remembering(v) BY <2>1 DEF Counted, HandingOver, Remembering
  <2>4. \A u \in Vaas : forgotten'[u] = IF u = v THEN forgotten[u] + 1 ELSE forgotten[u]
    BY <1>1, <2>1
  <2> QED BY <1>1, <2>1, <2>2, <2>3, <2>4 DEF Counted
<1>8. ASSUME NEW w \in Workers, Receive(w) \/ WorkerStops(w) PROVE Counted'
  BY <1>1, <1>3, <1>8 DEF Receive, WorkerStops, Rest
<1>9. ASSUME UNCHANGED <<dedupVars, workerVars>> PROVE Counted'
  BY <1>3, <1>9 DEF workerVars
<1>10. ASSUME NEW v \in Vaas, Read(v) PROVE Counted' BY <1>9, <1>10 DEF Read
<1>11. CASE Push BY <1>9, <1>11 DEF Push, TrySend, DropOldest, Send
<1>12. CASE Shutdown \/ ReaderStops \/ UNCHANGED vars
  BY <1>9, <1>12 DEF Shutdown, ReaderStops, vars
<1> QED BY <1>4, <1>5, <1>6, <1>7, <1>8, <1>10, <1>11, <1>12 DEF Next, Worker

LEMMA CountedOnce == Typed /\ Counted => Deduplicated
  BY DEF Typed, TypeOK, Counted, Deduplicated

\* What the reader pushes reaches its worker, in order, but for the messages it
\* deleted; the worker hands a VAA over again only after the cache lost its id,
\* and the cache knows only VAAs that were handed over.
THEOREM TakenOnce == Spec => []EachTakenOnce
<1>1. Typed /\ LineInv /\ Counted => EachTakenOnce
  BY LineKept, CountedOnce DEF LineInv, EachTakenOnce, NothingElseLost
<1> QED
  BY <1>1, InitTyped, StepTyped, InitLine, StepLine, InitCounted, StepSorted, StepCounted, PTL
     DEF Spec
=============================================================================
