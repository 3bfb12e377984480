------------------------------ MODULE ApiReads ------------------------------
(***************************************************************************)
(* The pages of the api about a VAA, and the transfer report of jobs.  What  *)
(* is known of a VAA is spread over documents that fly, tx-tracker,          *)
(* contract-watcher and parser write in any order, while a reader, in one    *)
(* request, reads one collection after the other.                            *)
(***************************************************************************)
EXTENDS Naturals, Sequences, FiniteSets

CONSTANTS
    ReadVaas,     \* the VAAs, in the order of their ids: those of one address
    StampOf,      \* ReadVaas -> timestamp
    Nontrusted,   \* the VAAs of Solana and Aptos, whose hash in vaas is none
    Unpriced,     \* the VAAs whose token has no address or no price that day
    Pages,        \* the kinds of pages
    PageLength,   \* the VAAs on a page
    MaxAsked      \* how often the page of one VAA is asked for, any other once

\* What a page may show of a VAA, each from a document of its own: vaas, its
\* hash, originTx and destinationTx of globalTransactions, and parsedVaa.
KnownParts == {"vaa", "hash", "origin", "destination", "parsed"}

\* The parts a kind of page depends on; of the others no write is looked at.
PartsRead(kind) ==
    CASE kind = "transaction" -> KnownParts \ {"parsed"}
      [] kind = "list" -> {"vaa", "hash", "parsed"}
      [] kind = "address" -> {"vaa", "origin", "parsed"}
      [] kind \in {"operation", "operations"} -> {"vaa", "origin", "destination", "parsed"}
      [] kind = "hash" -> {"vaa", "hash", "origin"}
      [] kind = "emitter" -> {"vaa", "origin", "parsed"}
      [] kind = "report" -> {"vaa", "parsed"}

ASSUME ApiReadsAssumption ==
    /\ ReadVaas \subseteq Nat /\ IsFiniteSet(ReadVaas) /\ StampOf \in [ReadVaas -> Nat]
    /\ Pages \subseteq {"transaction", "list", "address", "operation", "operations", "hash", "emitter", "report"}
    /\ PageLength \in Nat \ {0} /\ MaxAsked \in Nat

VARIABLES known,   \* the parts stored of every VAA
          kind,    \* the page that is asked for
          reader,  \* the reader
          told     \* what it was told, request after request

readVars == <<known, kind, reader, told>>

Idle == [at |-> "idle", ids |-> {}, global |-> {}, begun |-> {}, page |-> 0]

Having(part) == {v \in ReadVaas : part \in known[v]}

AtMost(S, n) == IF Cardinality(S) < n THEN Cardinality(S) ELSE n

\* Newest(S, n): the pages of n that {$sort: {timestamp: -1}} may put first.
Newest(S, n) ==
    {P \in SUBSET S : /\ Cardinality(P) = AtMost(S, n)
                      /\ \A v \in P, u \in S \ P : StampOf[u] <= StampOf[v]}

\* The VAAs of S on a page when the timestamp and then the id are sorted by.
ShownBefore(u, v) == StampOf[u] > StampOf[v] \/ (StampOf[u] = StampOf[v] /\ u > v)

PageOf(S, page) ==
    {v \in S : Cardinality({u \in S : ShownBefore(u, v)}) \div PageLength = page}

------------------------------------------------------------------------------
ReadsInit ==
    /\ known \in [ReadVaas -> {{}, {"vaa"}}]
    /\ kind \in Pages
    /\ reader = Idle
    /\ told = <<>>

\* A service stores a part.  What tx-tracker and parser write of a VAA comes
\* after the VAA is in vaas, the destination may come first.  (A bound: of a
\* page of one VAA no other is written of.)
StorePart(v, part) ==
    /\ part \in PartsRead(kind) \ known[v]
    /\ kind = "transaction" => \A u \in ReadVaas \ {v} : known[u] \subseteq {"vaa"}
    /\ part \notin {"vaa", "destination"} => "vaa" \in known[v]
    /\ known' = [known EXCEPT ![v] = @ \union {part}]
    /\ UNCHANGED <<kind, reader, told>>

\* The request ends: the parts shown of every VAA on the page, beside the VAAs
\* that were to be found already when the request began, and whether what is
\* shown was cut off by a failed read.
End(shown, cut) ==
    /\ told' = Append(told, [shown |-> shown, begun |-> reader.begun, cut |-> cut])
    /\ reader' = Idle
    /\ UNCHANGED <<known, kind>>

Answer(shown) == End(shown, FALSE)

\* A read fails: the request ends with an error.
ReadFails ==
    /\ reader.at \notin {"idle", "report"}
    /\ reader' = Idle
    /\ UNCHANGED <<known, kind, told>>

------------------------------------------------------------------------------
\* findGlobalTransactionByID: the first read of FindGlobalTransactionByID.
FindGlobalTransaction(v) ==
    /\ kind = "transaction" /\ reader.at = "idle" /\ Len(told) < MaxAsked
    /\ reader' = [reader EXCEPT !.at = "vaa", !.ids = {v}, !.begun = {v},
                                !.global = known[v] \cap {"origin", "destination"}]
    /\ UNCHANGED <<known, kind, told>>

\* findOriginTxFromVaa: the hash in vaas, unless it is of Solana or Aptos.
OriginTxFromVaa(v) == IF v \notin Nontrusted /\ "hash" \in known[v] THEN {"origin"} ELSE {}

\* Mutant: a document without originTx, the destination being first, is
\* answered as it is.
GlobalTransactionAsStored(v, global) == IF global # {} THEN global ELSE OriginTxFromVaa(v)

\* The originTx of globalTransactions if it is there, else that of the VAA.
GlobalTransaction(v, global) ==
    IF "origin" \in global THEN global ELSE OriginTxFromVaa(v) \union global

\* FindGlobalTransactionByID, second read: without the VAA nothing is found.
FindOriginTxFromVaa ==
    /\ reader.at = "vaa"
    /\ \E v \in reader.ids :
          Answer(IF "vaa" \in known[v] THEN [u \in {v} |-> GlobalTransaction(v, reader.global)]
                                       ELSE [u \in {} |-> {}])

\* FindTransactions: the newest page of vaas, each VAA with what the other
\* collections have of it when its turn comes.
FindTransactions ==
    /\ kind = "list" /\ reader.at = "idle" /\ told = <<>>
    /\ reader' = [reader EXCEPT !.at = "join", !.ids = PageOf(Having("vaa"), 0)]
    /\ UNCHANGED <<known, kind, told>>

Join ==
    /\ reader.at = "join"
    /\ Answer([v \in reader.ids |-> known[v]])

\* FindById of operations: what globalTransactions and the collections joined
\* to it have of the VAA.
FindOperationById(v) ==
    /\ kind = "operation" /\ reader.at = "idle" /\ told = <<>>
    /\ Answer([u \in {v} \cap (Having("origin") \union Having("destination")) |-> known[u]])

\* A request for an address begins with the ids: the sender is in originTx,
\* the receiver in parsedVaa.
FindIds(page, sure) ==
    /\ kind = page /\ reader.at = "idle" /\ told = <<>>
    /\ reader' = [reader EXCEPT !.at = "page", !.ids = Having("origin") \union Having("parsed"),
                                !.begun = sure]
    /\ UNCHANGED <<known, kind, told>>

\* Of these ids the page shows those that are parsed.
FindVaasIdsByFromAddressOrToAddress == FindIds("address", Having("parsed"))

\* Of these the page shows those with a document in globalTransactions.
FindOperationsIdByAddressOrTxHash == FindIds("operations", Having("origin"))

\* ListTransactionsByAddress: of the ids, the VAAs that have been parsed.
ListTransactionsByAddress ==
    /\ kind = "address" /\ reader.at = "page"
    /\ \E P \in Newest(reader.ids \cap Having("vaa") \cap Having("parsed"), PageLength) :
          Answer([v \in P |-> known[v]])

\* FindAll of operations: of the ids, those with a document in
\* globalTransactions.  Sorted by the time of originTx, where there is one.
FindAllOperations ==
    LET found == reader.ids \cap (Having("origin") \union Having("destination"))
        dated == found \cap Having("origin")
    IN  /\ kind = "operations" /\ reader.at = "page"
        /\ \E P \in IF Cardinality(dated) >= PageLength THEN Newest(dated, PageLength)
                    ELSE {dated \union Q : Q \in Newest(found \ dated, PageLength - Cardinality(dated))} :
              Answer([v \in P |-> known[v]])

------------------------------------------------------------------------------
\* The VAAs with a transaction's hash, were ReadVaas all of one transaction:
\* those whose originTx has it or, when there is none, those of vaas.
WithTxHash ==
    IF Having("origin") # {} THEN Having("origin") ELSE Having("hash") \ Nontrusted

\* FindVaasByTxHashWorkaround: globalTransactions is read first.
FindVaasByTxHashWorkaround ==
    /\ kind = "hash" /\ reader.at = "idle" /\ told = <<>>
    /\ reader' = [reader EXCEPT !.at = IF Having("origin") # {} THEN "vaas" ELSE "txHash",
                                !.ids = Having("origin"), !.begun = WithTxHash]
    /\ UNCHANGED <<known, kind, told>>

\* FindVaasByEmitterAndToChain: the ids of a page of parsedVaa, which is sorted
\* by when it was indexed: in any order.
FindVaasByEmitterAndToChain(page) ==
    /\ kind = "emitter" /\ reader.at = "idle" /\ told = <<>>
    /\ \E skipped \in SUBSET Having("parsed") :
       \E ids \in SUBSET (Having("parsed") \ skipped) :
          /\ Cardinality(skipped) = AtMost(Having("parsed"), page * PageLength)
          /\ Cardinality(ids) = AtMost(Having("parsed") \ skipped, PageLength)
          /\ reader' = [reader EXCEPT !.at = "vaas", !.page = page, !.ids = ids,
                           !.begun = IF page = 0 THEN Having("parsed") ELSE {}]
    /\ UNCHANGED <<known, kind, told>>

\* The hash shown of a VAA of Solana or Aptos is that of globalTransactions.
WithNativeTxHash(v) ==
    (known[v] \ {"hash", "origin"}) \union
        (IF (IF v \in Nontrusted THEN "origin" ELSE "hash") \in known[v] THEN {"hash"} ELSE {})

\* FindVaas: of vaas the newest of the ids; by the hash of the transaction when
\* no id was found for it.  The pages before are skipped, of the ids too.
FindVaas ==
    LET found == IF reader.at = "txHash" THEN Having("hash") \ Nontrusted ELSE reader.ids
    IN  /\ reader.at \in {"vaas", "txHash"}
        /\ \E skipped \in Newest(found \cap Having("vaa"), reader.page * PageLength) :
           \E P \in Newest((found \cap Having("vaa")) \ skipped, PageLength) :
              Answer([v \in P |-> WithNativeTxHash(v)])

------------------------------------------------------------------------------
\* Run of the transfer report: the pages of vaas one after the other, until an
\* empty one.
StartReport ==
    /\ kind = "report" /\ reader.at = "idle" /\ told = <<>>
    /\ reader' = [reader EXCEPT !.at = "report", !.begun = Having("vaa")]
    /\ UNCHANGED <<known, kind, told>>

\* A transfer whose token has no address or no price is passed over.
Written(page) == {v \in page : ~(v \in Unpriced /\ "parsed" \in known[v])}

\* findTransactionsByPage and writeRecord
ReportPage ==
    LET page == PageOf(Having("vaa"), reader.page)
    IN  /\ reader.at = "report"
        /\ IF page = {}
           THEN Answer([v \in reader.ids |-> {"vaa"}])
           ELSE /\ reader' = [reader EXCEPT !.page = @ + 1, !.ids = @ \union Written(page)]
                /\ UNCHANGED <<known, kind, told>>

\* A failed page ends the report without an error: the file has the pages before
\* it, and nothing in it says so.
ReportFails ==
    /\ reader.at = "report"
    /\ End([v \in reader.ids |-> {"vaa"}], TRUE)

ReadsNext ==
    \/ \E v \in ReadVaas :
          \/ FindGlobalTransaction(v) \/ FindOperationById(v)
          \/ \E part \in KnownParts : StorePart(v, part)
    \/ ReadFails \/ FindOriginTxFromVaa \/ FindTransactions \/ Join
    \/ FindVaasIdsByFromAddressOrToAddress \/ ListTransactionsByAddress
    \/ FindOperationsIdByAddressOrTxHash \/ FindAllOperations
    \/ FindVaasByTxHashWorkaround \/ FindVaas \/ \E page \in 0 .. 1 : FindVaasByEmitterAndToChain(page)
    \/ StartReport \/ ReportPage \/ ReportFails

------------------------------------------------------------------------------
\* FindGlobalTransactionByID found the VAA in the i-th request.
FoundById(i) == kind = "transaction" /\ DOMAIN told[i].shown # {}

\* What the page of one VAA showed a later one does not take back, in whatever
\* order the services store what they know: a VAA once found by its id stays
\* found, and its origin stays named when the destination is recorded first.
\* (Of no other page is this true: that of a transaction's hash drops the VAAs it
\* found in vaas when the first of them has an originTx.)
AnswersGrow ==
    \A i, j \in DOMAIN told : kind = "transaction" /\ i < j =>
        /\ \A v \in DOMAIN told[i].shown \cap DOMAIN told[j].shown : told[i].shown[v] \subseteq told[j].shown[v]
        /\ FoundById(i) /\ told[i].begun = told[j].begun => FoundById(j)

\* The first page of an address, a transaction or an emitter, when there is room
\* left on it, shows every VAA that was to be found before the request began.
AddressComplete ==
    \A i \in DOMAIN told :
        kind \in {"address", "operations", "hash", "emitter"} /\ Cardinality(DOMAIN told[i].shown) < PageLength =>
            told[i].begun \subseteq DOMAIN told[i].shown

\* A transfer with a price that was stored when the report began is missing only
\* from a report that a failed page cut off, and from its end: whatever was stored
\* meanwhile and moved the pages, there is no hole before what it has.
ReportComplete ==
    \A i \in DOMAIN told : kind = "report" =>
        \A u \in told[i].begun \ Unpriced :
            \/ u \in DOMAIN told[i].shown
            \/ told[i].cut /\ \A v \in DOMAIN told[i].shown : ~ShownBefore(u, v)

ReadsRight == AnswersGrow /\ AddressComplete /\ ReportComplete
=============================================================================
