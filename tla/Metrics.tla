------------------------------ MODULE Metrics ------------------------------
(***************************************************************************)
(* One measurement of analytics, from the queue to the answers of the API: *)
(* Push writes the points of a VAA, a task of InfluxDB sums up every        *)
(* interval after its end, and a query of the API adds the summaries to the *)
(* points of the interval that has not ended.  Messages come more than      *)
(* once, tasks run late or not at all, points are buffered, and a point is  *)
(* known by its tags and its time, not by its VAA.                          *)
(*                                                                          *)
(* Time counts in ticks: the hour of vaa_count_1h, the five minutes of      *)
(* all_messages_5m; a day is DayLength ticks.                               *)
(***************************************************************************)
EXTENDS Integers, FiniteSets

CONSTANTS
    Counted,     \* signed VAAs
    Emitted,     \* Emitted[v], what its points are made of: the tick and the second of
                 \* the timestamp, the sequence, the chain and the token
    NewTokens,   \* tokens the table of the running release may not know yet
    Measures,    \* measurements to follow, see MeasureNames
    DayLength,   \* ticks of a day
    LastTick,    \* bound: the last tick
    MaxMissed    \* bound: tasks that never run, and lost batches

MeasureNames == {"vaa_count", "all_messages", "asset_volumes", "total_tx", "chain_activity"}

ASSUME MetricsAssumption ==
    /\ \A v \in Counted : {Emitted[v].tick, Emitted[v].second, Emitted[v].sequence} \subseteq Nat
    /\ Measures \subseteq MeasureNames
    /\ DayLength \in Nat \ {0} /\ LastTick \in Nat /\ MaxMissed \in Nat

VARIABLES
    measure,  \* the measurement followed
    now,      \* the tick
    listed,   \* whether the table of tokens has the new ones
    points,   \* points in the bucket
    buffered, \* points in the batch of the 24-hour bucket
    acked,    \* VAAs whose message is done
    gone,     \* VAAs without a point: no price, no volume, 24 hours old, a lost batch
    due,      \* intervals, by their end, whose task has not run yet
    summary,  \* summary[t]: points in the summary of the interval that ended at t
    late,     \* points that came after the task of their interval
    missed    \* faults so far

metricsVars == <<measure, now, listed, points, buffered, acked, gone, due, summary, late, missed>>

Ticks == 0..LastTick
Midnight == now - (now % DayLength)

\* The task of volumes, totals and activity runs once a day, the others every tick.
Every == IF measure \in {"vaa_count", "all_messages"} THEN 1 ELSE DayLength
EndOf(p) == (p.tick \div Every + 1) * Every

MetricsInit ==
    /\ measure \in Measures /\ now = 0 /\ listed = FALSE
    /\ points = {} /\ buffered = {} /\ acked = {} /\ gone = {}
    /\ due = {} /\ summary = [t \in Ticks |-> {}] /\ late = {} /\ missed = 0

------------------------------------------------------------------------------
(* analytics                                                                *)

Volumes == {"asset_volumes", "total_tx", "chain_activity"}

\* A point, some nanoseconds after the timestamp.  Its tags do not have the emitter.
Point(v, offset) ==
    [tick |-> Emitted[v].tick, second |-> Emitted[v].second, offset |-> offset,
     tags |-> <<Emitted[v].chain, IF measure \in Volumes THEN Emitted[v].token ELSE "">>]

\* Unique in one emitter, almost always.
generateUniqueTimestamp(v) == Point(v, Emitted[v].sequence % 1000000)

\* Writing what has the tags and the time of a point replaces it.
WritePoint(p) ==
    /\ points' = points \union {p}
    /\ late' = IF p \notin points /\ EndOf(p) <= now /\ EndOf(p) \notin due THEN late \union {p} ELSE late

VaaCountMeasurement(v) ==
    measure = "vaa_count" /\ WritePoint(generateUniqueTimestamp(v)) /\ UNCHANGED <<buffered, gone>>

\* The client of this bucket batches.
VaaCountAllMessagesMeasurement(v) ==
    /\ measure = "all_messages" /\ UNCHANGED <<points, late>>
    /\ IF now - Emitted[v].tick > DayLength
       THEN gone' = gone \union {v} /\ UNCHANGED buffered
       ELSE buffered' = buffered \union {generateUniqueTimestamp(v)} /\ UNCHANGED gone

Unlisted(v) == Emitted[v].token \in NewTokens /\ ~listed

\* A token that is not in the table gives a point of volume 0 at the timestamp
\* itself, nothing in a sum of volumes.  Without a price of the token in the cache
\* there is no point and no error.
VolumeMeasurement(v) ==
    /\ measure \in Volumes /\ UNCHANGED buffered
    /\ \/ /\ ~Unlisted(v)
          /\ WritePoint(generateUniqueTimestamp(v)) /\ UNCHANGED gone
       \/ /\ Unlisted(v) /\ measure # "asset_volumes"
          /\ WritePoint(Point(v, 0)) /\ UNCHANGED gone
       \/ /\ Unlisted(v) => measure = "asset_volumes"
          /\ gone' = gone \union {v} /\ UNCHANGED <<points, late>>

\* A message is done when every write has worked; if another one fails, the
\* point is there and the message comes back.
Push(v) ==
    /\ Emitted[v].tick <= now
    /\ VaaCountMeasurement(v) \/ VaaCountAllMessagesMeasurement(v) \/ VolumeMeasurement(v)
    /\ acked' = acked \union {v} \/ UNCHANGED acked
    /\ UNCHANGED <<measure, now, listed, due, summary, missed>>

\* The batch is written.
Flush ==
    /\ measure = "all_messages" /\ buffered # {} /\ buffered' = {}
    /\ points' = points \union buffered
    /\ late' = late \union {p \in buffered \ points : EndOf(p) <= now /\ EndOf(p) \notin due}
    /\ UNCHANGED <<measure, now, listed, acked, gone, due, summary, missed>>

\* Or it is not: an error, or a crash, after its messages are done.
LoseBatch ==
    /\ measure = "all_messages" /\ buffered # {} /\ buffered' = {}
    /\ gone' = gone \union {v \in acked : generateUniqueTimestamp(v) \in buffered \ points}
    /\ missed < MaxMissed /\ missed' = missed + 1
    /\ UNCHANGED <<measure, now, listed, points, acked, due, summary, late>>

\* A release with the new tokens in its table.
Release ==
    /\ ~listed /\ listed' = TRUE
    /\ UNCHANGED <<measure, now, points, buffered, acked, gone, due, summary, late, missed>>

------------------------------------------------------------------------------
(* The tasks                                                                *)

Tick ==
    /\ now < LastTick /\ now' = now + 1
    /\ due' = IF (now + 1) % Every = 0 THEN due \union {now + 1} ELSE due
    /\ UNCHANGED <<measure, listed, points, buffered, acked, gone, summary, late, missed>>

\* Mutant: the end of the interval belongs to it.
WithinClosed(t) == {p \in points : t - Every <= p.tick /\ p.tick <= t}

\* now() of a task is the time it was scheduled for, however late it runs.
Within(t) == {p \in points : t - Every <= p.tick /\ p.tick < t}
Before(t) == {p \in points : p.tick < t}

\* One run of a task after the other.
RunTask(t, S) ==
    /\ t \in due /\ (\A u \in due : t <= u) /\ due' = due \ {t}
    /\ summary' = [summary EXCEPT ![t] = S]
    /\ UNCHANGED <<measure, now, listed, points, buffered, acked, gone, missed>>

VaaCount1h(t)      == measure = "vaa_count"     /\ RunTask(t, Within(t)) /\ UNCHANGED late
AllMessages5m(t)   == measure = "all_messages"  /\ RunTask(t, Within(t)) /\ UNCHANGED late
AssetVolumes24h(t) == measure = "asset_volumes" /\ RunTask(t, Within(t)) /\ UNCHANGED late
TotalTxAllTime24h(t) == measure = "total_tx"    /\ RunTask(t, Before(t)) /\ late' = late \ Before(t)

\* No stop: what has been written by then counts, of the open day as well.
ChainActivity3h(t) == measure = "chain_activity" /\ RunTask(t, points) /\ late' = late \ points

Task(t) == VaaCount1h(t) \/ AllMessages5m(t) \/ AssetVolumes24h(t) \/ TotalTxAllTime24h(t) \/ ChainActivity3h(t)

\* A task that fails is not run again for its interval.
MissTask(t) ==
    /\ t \in due /\ (\A u \in due : t <= u) /\ due' = due \ {t}
    /\ missed < MaxMissed /\ missed' = missed + 1
    /\ late' = late \union {p \in points : EndOf(p) = t}
    /\ UNCHANGED <<measure, now, listed, points, buffered, acked, gone, summary>>

------------------------------------------------------------------------------
(* The queries                                                              *)

\* Whether the points since start, and how often the summaries T, have p.
Raw(p, start) == IF p \in points /\ p.tick >= start THEN 1 ELSE 0
Summed(p, T) == Cardinality({t \in T : p \in summary[t]})

\* The hour is labelled with its end; a day of hours and the open one.
GetTransactionCount(p) == Raw(p, now) + Summed(p, {t \in Ticks : t >= now - DayLength})

\* The points since midnight, and the hours of a week (here all of them).
GetTransactionCountWeek(p) == Raw(p, Midnight) + Summed(p, Ticks)

GetMessages24h(p) == Raw(p, now) + Summed(p, {t \in Ticks : t - 1 > now - DayLength})

GetTopAssets(p) == Raw(p, Midnight) + Summed(p, {t \in Ticks : t % DayLength = 0})

\* The last total, of those tasks that have run.
LastRun == {t \in Ticks : t > 0 /\ t <= now /\ t % Every = 0 /\ t \notin due /\ summary[t] # {}}
GetTotalTxCount(p) ==
    Raw(p, Midnight) + Summed(p, {t \in LastRun : \A u \in LastRun : u <= t})

\* The last run of today, if there is one yet.
FindChainActivity(p) == Summed(p, {Midnight})

TimesCounted(p) ==
    CASE measure = "vaa_count"     -> GetTransactionCount(p)
      [] measure = "all_messages"  -> GetMessages24h(p)
      [] measure = "asset_volumes" -> GetTopAssets(p)
      [] measure = "total_tx"      -> GetTotalTxCount(p)
      [] measure = "chain_activity" -> FindChainActivity(p)

\* What the answer is about.
InAnswer(p) ==
    CASE measure = "vaa_count"     -> p.tick >= now - DayLength
      [] measure = "all_messages"  -> p.tick > now - DayLength
      [] measure \in {"asset_volumes", "total_tx"} -> TRUE
      [] measure = "chain_activity" -> p.tick < Midnight /\ Midnight \in LastRun

MetricsNext ==
    \/ \E v \in Counted : Push(v)
    \/ Flush \/ LoseBatch \/ Release \/ Tick
    \/ \E t \in Ticks : Task(t) \/ MissTask(t)

------------------------------------------------------------------------------
\* The points a VAA may have: two where one of volume 0 counts.
PointsOf(v) ==
    {generateUniqueTimestamp(v)} \union
        IF measure \in {"total_tx", "chain_activity"} /\ Emitted[v].token \in NewTokens
        THEN {Point(v, 0)} ELSE {}

\* No answer counts a point twice, however often the messages of its VAAs have come;
\* it counts the point as soon as the task of its interval has run, unless it came
\* after that task or the task was missed; and every VAA whose message is done has a
\* point, unless it was to have none or its batch was lost.  The total counts a
\* point after the next task; the history of a week counts the finished hours of
\* today twice.  VAAs that share a point count as one: those of one second with the
\* same tags and the same offset, whatever their emitters.  A transfer whose token
\* comes to be known between two deliveries has two points, and counts as two.
CountedOnce ==
    \A v \in Counted :
        /\ v \in acked \ gone => PointsOf(v) \intersect (points \union buffered) # {}
        /\ \A p \in PointsOf(v) :
              /\ TimesCounted(p) <= 1
              /\ (p \in points \ late /\ InAnswer(p) /\ EndOf(p) \notin due) => TimesCounted(p) = 1
              /\ measure = "vaa_count" /\ p.tick < Midnight => GetTransactionCountWeek(p) <= 1
=============================================================================
