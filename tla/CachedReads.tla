---------------------------- MODULE CachedReads ----------------------------
(***************************************************************************)
(* api/cacheable: the figures of the api are loaded once and then answered   *)
(* from a cache that all requests share, until the answer is too old.  Two   *)
(* requests that find it so load side by side, and each saves what it read.  *)
(* Time is counted in the ages of what is held.                              *)
(***************************************************************************)
EXTENDS Naturals

CONSTANTS
    Callers,     \* the requests
    Expiration,  \* how long a saved answer is taken for new
    MaxLoad      \* how long a load may take, by its timeout

ASSUME CachedReadsAssumption == Expiration \in Nat \ {0} /\ MaxLoad \in Nat

\* The cache keeps an answer ten times as long: it is better than none.
TimeToLive == 10 * Expiration

VARIABLES
    entry,    \* the cached answer: the time since it was saved and since it was read
    caller,   \* what each request is doing
    loads     \* what is loaded: "answers" or "scorecards"

cacheVars == <<entry, caller, loads>>

Missing == [saved |-> 0, read |-> 0, is |-> "missing"]
Unreadable == [Missing EXCEPT !.is = "unreadable"]

Asking == [at |-> "idle", busy |-> 0, found |-> Missing, out |-> "none", age |-> 0, failed |-> FALSE]

CacheInit ==
    /\ entry \in {Missing, Unreadable}
    /\ caller = [c \in Callers |-> Asking]
    /\ loads \in {"answers", "scorecards"}

\* The request is answered with what was read age ago.
Told(c, out, age, failed) ==
    caller' = [caller EXCEPT ![c].at = "done", ![c].busy = 0, ![c].out = out, ![c].age = age,
                             ![c].failed = failed,
                             ![c].found = IF out = "value" THEN Missing ELSE caller[c].found]

Loading(c, found) == caller' = [caller EXCEPT ![c].at = "load", ![c].found = found]

\* The timestamp and the expiration are after now.
Unexpired(e) == e.is = "held" /\ e.saved < Expiration

------------------------------------------------------------------------------
\* GetOrLoad: the cache is read, which may fail.
GetFromCache(c) ==
    /\ caller[c].at = "idle"
    /\ \/ Unexpired(entry) /\ Told(c, "value", entry.read, FALSE)
       \/ ~Unexpired(entry) /\ Loading(c, entry)
       \/ Loading(c, Missing)
    /\ UNCHANGED <<entry, loads>>

\* The load has read the database.  GetScorecards runs its six queries side by
\* side and leaves out those that fail: its load never fails.
Load(c) ==
    /\ caller[c].at = "load"
    /\ \E out \in IF loads = "scorecards" THEN {"value", "gaps"} ELSE {"value"} :
          caller' = [caller EXCEPT ![c].at = "save", ![c].found = Missing, ![c].out = out]
    /\ UNCHANGED <<entry, loads>>

\* The load fails: what the cache held is answered, although too old.  Of an
\* entry that could not be unmarshalled that is the empty value.
AnswerOld(c) ==
    LET found == caller[c].found
    IN  /\ caller[c].at = "load" /\ loads = "answers"
        /\ CASE found.is = "held" -> Told(c, "value", found.read, TRUE)
             [] found.is = "unreadable" -> Told(c, "empty", 0, TRUE)
             [] found.is = "missing" -> Told(c, "error", 0, TRUE)
        /\ UNCHANGED <<entry, loads>>

\* The entry is as old as its saving, not as the read.  Saving may fail.
Save(c) ==
    /\ caller[c].at = "save"
    /\ Told(c, caller[c].out, caller[c].age, FALSE)
    /\ \/ entry' = [saved |-> 0, read |-> caller[c].age, is |-> "held"]
       \/ UNCHANGED entry
    /\ UNCHANGED loads

\* The next request.
AskAgain(c) ==
    /\ caller[c].at = "done"
    /\ caller' = [caller EXCEPT ![c] = Asking]
    /\ UNCHANGED <<entry, loads>>

------------------------------------------------------------------------------
Older(e) == IF e.is = "held" THEN [e EXCEPT !.saved = @ + 1, !.read = @ + 1] ELSE e

\* Time passes, but not past the timeout of a load, and the cache drops an
\* entry that has lived its time.
Pass ==
    /\ \A c \in Callers : caller[c].at \in {"load", "save"} => caller[c].busy < MaxLoad
    /\ entry' = IF Older(entry).saved >= TimeToLive THEN Missing ELSE Older(entry)
    /\ caller' = [c \in Callers |->
          IF caller[c].at \notin {"load", "save"} THEN caller[c]
          ELSE [caller[c] EXCEPT !.busy = @ + 1, !.found = Older(@),
                                 !.age = IF caller[c].at = "save" THEN @ + 1 ELSE @]]
    /\ UNCHANGED loads

CacheNext ==
    \/ \E c \in Callers : GetFromCache(c) \/ Load(c) \/ AnswerOld(c) \/ Save(c) \/ AskAgain(c)
    \/ Pass

------------------------------------------------------------------------------
\* How old an answer is, from the read of the database to the request that
\* gets it, however many requests load and save side by side: a load takes at
\* most MaxLoad, and an answer is new for Expiration after it was saved, even
\* if a newer one was overwritten with it.  Only a request whose load failed
\* gets an older one.
AgeBounded ==
    \A c \in Callers : caller[c].at = "done" =>
        caller[c].age < IF caller[c].failed THEN TimeToLive + 2 * MaxLoad ELSE Expiration + MaxLoad

\* A request gets an error only if it found nothing in the cache, and an empty
\* value only if it could not read what it found and could not load it.
OldBeforeNone ==
    \A c \in Callers :
        /\ caller[c].out = "error" => caller[c].found.is = "missing"
        /\ caller[c].out = "empty" => caller[c].found.is = "unreadable" /\ caller[c].failed

CachedRight == AgeBounded /\ OldBeforeNone
=============================================================================
