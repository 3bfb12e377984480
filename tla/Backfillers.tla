---------------------------- MODULE Backfillers ----------------------------
(***************************************************************************)
(* The backfillers of parser and of tx-tracker: they walk through the VAAs *)
(* (or the incomplete global transactions) page by page while fly goes on  *)
(* storing VAAs.  parser skips the pages it has read; tx-tracker keeps a   *)
(* cursor, and hands its documents to workers through a channel.           *)
(***************************************************************************)
EXTENDS Integers, Sequences, FiniteSets

CONSTANTS
    Jobs,        \* the backfills that may be started, or "none"
    Docs,        \* message ids, as numbers: the order of _id
    Stamp,       \* Stamp[d], the timestamp of the VAA
    Hashless,    \* VAAs without a transaction hash
    From, To,    \* the time range
    PageSize,    \* BulkSize of tx-tracker, also the size of its channel
    Workers

ASSUME BackfillersAssumption ==
    /\ Jobs \subseteq {"parser", "failed", "range", "none"}
    /\ Docs \subseteq Nat \ {0} /\ IsFiniteSet(Docs) /\ Hashless \subseteq Docs
    /\ Stamp \in [Docs -> Nat] /\ From \in Nat /\ To \in Nat /\ PageSize \in Nat \ {0}

VARIABLES
    job,        \* "parser", "failed" or "range" of tx-tracker; "none"
    up,         \* SortAsc of parser
    vaas,       \* stored VAAs
    incomplete, \* global transactions with no originTx, or an internal error
    atStart,    \* what the job has to visit: there when it started
    page,       \* parser: pages read
    todo,       \* documents of the page that are left, in order
    cursor,     \* tx-tracker: lastId and lastTimestamp
    queueTx,    \* tx-tracker: the channel
    work,       \* work[w]: documents the worker has
    visited,    \* documents processed
    state       \* "reading", "closed", or "broken" after an error

backfillVars == <<job, up, vaas, incomplete, atStart, page, todo, cursor, queueTx, work, visited, state>>

Nothing == [id |-> 0, vaa |-> FALSE]
InRange == {d \in vaas : From <= Stamp[d] /\ Stamp[d] <= To}
TimeRange == {d \in vaas : From <= Stamp[d] /\ Stamp[d] < To}

\* The sequences of all of D, each once.
Listings(D) == {q \in [1..Cardinality(D) -> D] : \A d \in D : \E i \in DOMAIN q : q[i] = d}

BackfillInit ==
    /\ job \in Jobs /\ up \in BOOLEAN
    /\ vaas \in SUBSET Docs /\ incomplete \in SUBSET Docs
    /\ job # "failed" => incomplete = {}
    /\ job # "parser" => ~up
    /\ atStart = CASE job = "parser" -> TimeRange
                   [] job = "range"  -> InRange \ Hashless
                   [] OTHER          -> (incomplete \intersect vaas) \ Hashless
    /\ page = 0 /\ todo = <<>> /\ queueTx = <<>>
    /\ cursor = [id |-> 0, time |-> -1]
    /\ work = [w \in Workers |-> Nothing]
    /\ visited = {}
    /\ state = IF job = "none" THEN "closed" ELSE "reading"

\* fly stores a VAA.
Store(d) ==
    /\ d \notin vaas /\ vaas' = vaas \union {d}
    /\ UNCHANGED <<job, up, incomplete, atStart, page, todo, cursor, queueTx, work, visited, state>>

------------------------------------------------------------------------------
(* parser                                                                   *)

Sooner(a, b) == IF up THEN Stamp[a] < Stamp[b] ELSE Stamp[a] > Stamp[b]

\* The first n of D; documents of one timestamp come in any order.
FirstOf(D, n) ==
    {S \in SUBSET D :
        /\ Cardinality(S) = IF n < Cardinality(D) THEN n ELSE Cardinality(D)
        /\ \A a \in S, b \in D \ S : ~Sooner(b, a)}

FindPageByTimeRange ==
    /\ job = "parser" /\ state = "reading" /\ todo = <<>>
    /\ \E S \in FirstOf(TimeRange, page * PageSize) :
       \E T \in FirstOf(TimeRange \ S, PageSize) :
          /\ \E ids \in Listings(T) :
                /\ \A i, j \in DOMAIN ids : i < j => ~Sooner(ids[j], ids[i])
                /\ todo' = [i \in DOMAIN ids |-> [id |-> ids[i], vaa |-> TRUE]]
          /\ page' = IF T = {} THEN page ELSE page + 1
          /\ state' = IF T = {} THEN "closed" ELSE "reading"
    /\ UNCHANGED <<job, up, vaas, incomplete, atStart, cursor, queueTx, work, visited>>

\* A VAA that cannot be processed is logged, and left.
ProcessVaa ==
    /\ job = "parser" /\ state = "reading" /\ todo # <<>>
    /\ todo' = Tail(todo) /\ visited' = visited \union {Head(todo).id}
    /\ UNCHANGED <<job, up, vaas, incomplete, atStart, page, cursor, queueTx, work, state>>

------------------------------------------------------------------------------
(* tx-tracker                                                               *)

\* The newest first, or by _id.
Precedes(a, b) ==
    IF job = "failed" THEN a < b ELSE Stamp[a] > Stamp[b] \/ (Stamp[a] = Stamp[b] /\ a < b)

GetDocumentsByTimeRange ==
    {d \in InRange : \/ cursor.time = -1
                     \/ Stamp[d] < cursor.time
                     \/ Stamp[d] = cursor.time /\ d > cursor.id}

GetIncompleteDocuments == {d \in incomplete : d > cursor.id}

Documents == IF job = "failed" THEN GetIncompleteDocuments ELSE GetDocumentsByTimeRange

\* The iterator, which joins the VAAs; the producer ends at an empty page.
Iterate ==
    /\ job # "parser" /\ state = "reading" /\ todo = <<>>
    /\ \E q \in Listings(Documents) :
          /\ \A i, j \in DOMAIN q : i < j => Precedes(q[i], q[j])
          /\ todo' = [i \in 1..(IF Len(q) < PageSize THEN Len(q) ELSE PageSize) |->
                         [id |-> q[i], vaa |-> q[i] \in vaas]]
    /\ state' = IF Documents = {} THEN "closed" ELSE "reading"
    /\ UNCHANGED <<job, up, vaas, incomplete, atStart, page, cursor, queueTx, work, visited>>

\* Only a document with its VAA moves the cursor.
Produce ==
    /\ job # "parser" /\ state = "reading" /\ todo # <<>> /\ Len(queueTx) < PageSize
    /\ queueTx' = Append(queueTx, Head(todo)) /\ todo' = Tail(todo)
    /\ cursor' = IF Head(todo).vaa THEN [id |-> Head(todo).id, time |-> Stamp[Head(todo).id]] ELSE cursor
    /\ UNCHANGED <<job, up, vaas, incomplete, atStart, page, work, visited, state>>

\* A document without a VAA, or whose VAA has no hash, is skipped.
Consume(w) ==
    /\ work[w] = Nothing /\ queueTx # <<>>
    /\ queueTx' = Tail(queueTx)
    /\ work' = IF Head(queueTx).vaa /\ Head(queueTx).id \notin Hashless
               THEN [work EXCEPT ![w] = Head(queueTx)] ELSE work
    /\ UNCHANGED <<job, up, vaas, incomplete, atStart, page, todo, cursor, visited, state>>

\* ProcessSourceTx stores the origin transaction, or fails.
Track(w) ==
    /\ work[w] # Nothing
    /\ visited' = visited \union {work[w].id}
    /\ incomplete' = incomplete \/ incomplete' = incomplete \ {work[w].id}
    /\ work' = [work EXCEPT ![w] = Nothing]
    /\ UNCHANGED <<job, up, vaas, atStart, page, todo, cursor, queueTx, state>>

\* A page cannot be read, or the process is told to stop.
Break ==
    /\ state = "reading" /\ state' = "broken"
    /\ todo' = <<>> /\ queueTx' = <<>> /\ work' = [w \in Workers |-> Nothing]
    /\ UNCHANGED <<job, up, vaas, incomplete, atStart, page, cursor, visited>>

BackfillStep ==
    FindPageByTimeRange \/ ProcessVaa \/ Iterate \/ Produce \/ (\E w \in Workers : Consume(w) \/ Track(w))

BackfillNext == (\E d \in Docs : Store(d)) \/ BackfillStep \/ Break

\* Reading goes on, and so does every worker.
BackfillFairness ==
    /\ WF_backfillVars(FindPageByTimeRange \/ ProcessVaa \/ Iterate \/ Produce)
    /\ WF_backfillVars(\E w \in Workers : Consume(w))
    /\ \A w \in Workers : WF_backfillVars(Track(w))

------------------------------------------------------------------------------
Finished == state # "reading" /\ queueTx = <<>> /\ \A w \in Workers : work[w] = Nothing

\* VAAs that share their timestamp with another one: parser sorts by it alone.
Tied(d) == \E e \in Docs \ {d} : Stamp[e] = Stamp[d]

\* A backfill that has read to the end has processed everything that was there
\* when it started, whatever fly has stored meanwhile: pages that shift are read
\* twice and never past.  VAAs of one timestamp are parser's exception.
NothingPassedOver ==
    Finished /\ state = "closed" => \A d \in atStart : d \in visited \/ (job = "parser" /\ Tied(d))

\* The backfill of incomplete documents returns, as its comment says, when there are no
\* more: but an incomplete document whose VAA is not in vaas is read again and again.
\* It ends if every incomplete document has its VAA.
EndsWhenJoined == [](incomplete \subseteq vaas) => <>Finished
=============================================================================
