----------------------------- MODULE HourlyBars -----------------------------
(***************************************************************************)
(* What the candle feeds share: the hourly bucket of the aggregator, the   *)
(* in-memory buffer of DataStore and the candles table of CandleDB, for    *)
(* one symbol.  Time is a sequence of instants, Slots of them to the hour; *)
(* the first is minute 0.  A bar is an hour and the instants whose prints  *)
(* went into its prices.  All bars of these feeds are confirmed.           *)
(***************************************************************************)
EXTENDS Integers, Sequences, FiniteSets, FiniteSetsExt

CONSTANTS
    Slots,    \* instants per hour
    Buffer,   \* candle_buffer_size, the maxlen of a deque
    Open,     \* the instants at which the market is open
    None

\* Bars, and the bucket a bar is made of.
Bars    == [hour : Nat, of : SUBSET Nat]
Buckets == [hour : Nat, of : SUBSET Nat, eligible : BOOLEAN]

ASSUME HourlyBarsAssumption == /\ Slots \in Nat \ {0} /\ Buffer \in Nat \ {0}
                               /\ Open \subseteq Nat
                               /\ None \notin Nat \cup Bars \cup Buckets

Hour(i)    == i \div Slots
Slot(i)    == i % Slots
Opening(i) == Slot(i) = 0
Hours(bars) == {b.hour : b \in bars}

-----------------------------------------------------------------------------
\* IGCandleAggregator

\* The bucket of a new hour, emitted only if its first tick came in minute 0.
FirstTick(i) == [hour |-> Hour(i), of |-> {i}, eligible |-> Opening(i)]
Finalised(bucket) == [hour |-> bucket.hour, of |-> bucket.of]

\* Mutant: a tick of an older hour is not left out.
IngestAnyOrder(bucket, i, now) ==
    LET Keep(b) == [bucket |-> b, emit |-> None, drop |-> None]
    IN  IF now \notin Open                  THEN Keep(bucket)
        ELSE IF bucket = None               THEN Keep(FirstTick(i))
        ELSE IF Hour(i) = bucket.hour       THEN Keep([bucket EXCEPT !.of = @ \cup {i}])
        ELSE [Keep(FirstTick(i)) EXCEPT !.emit = Finalised(bucket)]

\* What one tick, stamped i and received at now, does to the bucket: the
\* bucket after it, the bar it emits and the hour it drops.
ingest_tick(bucket, i, now) ==
    LET Keep(b) == [bucket |-> b, emit |-> None, drop |-> None]
    IN  IF now \notin Open                  THEN Keep(bucket)
        ELSE IF bucket = None               THEN Keep(FirstTick(i))
        ELSE IF Hour(i) < bucket.hour       THEN Keep(bucket)
        ELSE IF Hour(i) = bucket.hour       THEN Keep([bucket EXCEPT !.of = @ \cup {i}])
        ELSE IF bucket.eligible
             THEN [Keep(FirstTick(i)) EXCEPT !.emit = Finalised(bucket)]
             ELSE [Keep(FirstTick(i)) EXCEPT !.drop = bucket.hour]

-----------------------------------------------------------------------------
\* DataStore and CandleDB.  A buffer is the set of its bars: a bar is only
\* appended after older ones, and a reload is in ascending order, so the order
\* in the deque is that of the hours.

Newest(bars)    == Max({-1} \cup Hours(bars))
Last(bars, n)   == {b \in bars : Cardinality({c \in bars : c.hour > b.hour}) < n}
After(bars, h)  == {b \in bars : b.hour > h}

add_candle(buf, bar)    == IF bar.hour > Newest(buf) THEN Last(buf \cup {bar}, Buffer) ELSE buf
add_candles(buf, bars)  == Last(buf \cup After(bars, Newest(buf)), Buffer)

\* Mutant: INSERT OR REPLACE.
InsertOrReplace(db, bars) == {r \in db : r.hour \notin Hours(bars)} \cup bars

\* INSERT OR IGNORE
insert_candles(db, bars) == db \cup {b \in bars : b.hour \notin Hours(db)}
insert_candle(db, bar)  == insert_candles(db, {bar})

\* Mutant: ORDER BY timestamp ASC LIMIT.
OldestRows(db, limit) == {b \in db : Cardinality({c \in db : c.hour < b.hour}) < limit}

get_candles(db, limit) == Last(db, limit)

\* warm_store_from_db, into the empty buffer of a new process
warmed(db) == add_candles({}, get_candles(db, Buffer))

-----------------------------------------------------------------------------
\* last_expected_closed_bar_ms, -1 when the market was never open
last_expected(now) == Max({-1} \cup {h \in 0..(Hour(now) - 1) : h * Slots \in Open})

needs_backfill(buf, threshold, now) ==
    \/ Cardinality(buf) < threshold
    \/ Newest(buf) < last_expected(now)
=============================================================================
