----------------------------- MODULE CandleFeed -----------------------------
(***************************************************************************)
(* One symbol and the candle feed that owns it: EODHDFeed (backfill,       *)
(* WebSocket ticks rolled into hours, repair of dropped hours), the        *)
(* standby TwelveDataFeed (an hourly poll), or IGCandleLSFeed for metals   *)
(* (Lightstreamer ticks, no repair).  Symbols are independent: each has    *)
(* its own bucket, pending set, buffer and rows.                           *)
(***************************************************************************)
EXTENDS HourlyBars

CONSTANTS
    Prints,       \* the instants at which the market trades
    Feeds,        \* the feeds a symbol may have
    Context,      \* kronos_context_bars
    RepairSlot,   \* the repair pass is at :10, the poll at :05
    PollSlot,
    PollSize,     \* _POLL_OUTPUTSIZE
    MaxAge,       \* _REPAIR_MAX_AGE_MS, in hours
    Lookback,     \* _REPAIR_SEED_LOOKBACK_HOURS
    History,      \* rows in the database at first
    Watched,      \* the hours QueuedHourLands is checked of
    MaxNow,       \* bound: the last instant
    MaxCrashes,   \* bound: crashes or restarts
    MaxDbFails    \* bound: inserts SQLite refuses

VARIABLES
    now,        \* the instant
    final,      \* the provider serves the hours below this one
    feed,       \* the feed of the symbol, by candle_exchange
    proc,       \* where run() is
    store,      \* DataStore: the buffer
    db,         \* CandleDB: the rows
    bucket,     \* the aggregator's bucket
    pending,    \* _pending_repairs
    fetch,      \* the oldest hour a repair or a poll has asked for
    pass,       \* the hour of the latest repair pass or poll
    up,         \* the WebSocket is connected
    wire,       \* ticks received and not yet handled
    refused,    \* hours a poll left in memory only, while they were forming
    crashes, dbFails

memory   == <<store, bucket, pending, fetch, pass, up, wire, refused>>
vars     == <<now, final, feed, proc, memory, db, crashes, dbFails>>

ASSUME CandleFeedAssumption ==
    /\ Prints \subseteq Open /\ Feeds \subseteq {"eodhd", "twelvedata", "metals"}
    /\ {RepairSlot, PollSlot} \subseteq 0..(Slots - 1)
    /\ {Lookback, MaxNow} \subseteq Nat /\ MaxNow % Slots = RepairSlot
    /\ History \subseteq Nat /\ IsFiniteSet(History)

\* Lightstreamer quotes metals every minute, the market open or not.
Ticks       == IF feed = "metals" THEN 0..MaxNow ELSE Prints
Traded      == IF feed = "metals" THEN Open ELSE Prints
PrintsOf(h) == {i \in Traded : Hour(i) = h}
Bar(h)      == [hour |-> h, of |-> PrintsOf(h)]

\* What a request for the hours from h on is answered: whole bars, none for
\* an hour without trades, nothing when the request fails.
Served(h, end) == {Bar(k) : k \in {k \in h..(end - 1) : PrintsOf(k) # {}}}
Answers(h)     == {{}, Served(h, final)}

\* What a request for the n newest hours is answered: the hour that is forming
\* may be among them, and nothing in the code looks for it.
Forming   == {b \in {[hour |-> Hour(now), of |-> PrintsOf(Hour(now)) \cap 0..now]} : b.of # {}}
Latest(n) == {{}} \cup {Last(Served(0, Hour(now)) \cup f, n) : f \in {{}, Forming}}

\* A metals row from before the cutover: prices on the scale of an ETF.
OldScale(h) == [hour |-> h, of |-> {}]

Init ==
    /\ now = Slots /\ final = 1
    /\ feed \in Feeds
    /\ proc = "down"
    /\ \/ db = {Bar(h) : h \in History}
       \/ feed = "metals" /\ db = {OldScale(h) : h \in History}
    /\ store = {} /\ bucket = None /\ pending = {} /\ fetch = None /\ pass = -1
    /\ up = FALSE /\ wire = <<>> /\ refused = {}
    /\ crashes = 0 /\ dbFails = 0

Live(x) == proc = "live" /\ feed = x

-----------------------------------------------------------------------------
\* The world: time, the provider, the connection

\* onItemUpdate, or a WebSocket message: a tick joins the queue
Received(i) == wire' = IF up /\ i \in Ticks THEN Append(wire, i) ELSE wire

Advance ==
    /\ now < MaxNow /\ (\A k \in DOMAIN wire : wire[k] = now)
    /\ now' = now + 1
    /\ Received(now + 1)
    /\ UNCHANGED <<final, feed, proc, store, bucket, pending, fetch, pass, up,
                   refused, db, crashes, dbFails>>

Finalise ==
    /\ final < Hour(now)
    /\ final' = final + 1
    /\ UNCHANGED <<now, feed, proc, memory, db, crashes, dbFails>>

Disconnect ==
    /\ up
    /\ up' = FALSE /\ wire' = <<>>
    /\ UNCHANGED <<now, final, feed, proc, store, bucket, pending, fetch, pass,
                   refused, db, crashes, dbFails>>

\* _ws_connection_loop, after its backoff
Connect ==
    /\ Live("eodhd") /\ ~up
    /\ up' = TRUE
    /\ UNCHANGED <<now, final, feed, proc, store, bucket, pending, fetch, pass,
                   wire, refused, db, crashes, dbFails>>

\* _connect and _rebuild of IGCandleLSFeed: Lightstreamer begins with a
\* snapshot, of the latest minute or the one before.
Rebuild ==
    /\ Live("metals") /\ ~up
    /\ up' = TRUE /\ wire' \in {<<now>>, <<now - 1>>}
    /\ UNCHANGED <<now, final, feed, proc, store, bucket, pending, fetch, pass,
                   refused, db, crashes, dbFails>>

Crash ==
    /\ proc # "down" /\ crashes < MaxCrashes
    /\ crashes' = crashes + 1
    /\ proc' = "down"
    /\ store' = {} /\ bucket' = None /\ pending' = {} /\ fetch' = None /\ pass' = -1
    /\ up' = FALSE /\ wire' = <<>> /\ refused' = {}
    /\ UNCHANGED <<now, final, feed, db, dbFails>>

-----------------------------------------------------------------------------
\* run(): warm, backfill, seed the repairs

Threshold(x) == IF x = "eodhd" THEN Context ELSE Buffer

Start ==
    /\ proc = "down"
    /\ feed' \in IF feed = "metals" THEN {"metals"} ELSE Feeds \ {"metals"}
    /\ store' = IF feed' = "metals" THEN {} ELSE warmed(db)
    /\ proc' = IF feed' = "metals" THEN "probe"
               ELSE IF needs_backfill(store', Threshold(feed'), now) THEN "backfill" ELSE "ready"
    /\ UNCHANGED <<now, final, db, bucket, pending, fetch, pass, up, wire,
                   refused, crashes, dbFails>>

DbRefuses == dbFails < MaxDbFails /\ dbFails' = dbFails + 1

\* _ingest: bars go to memory, and these rows to the disk
Ingested(bars, rows) ==
    /\ store' = add_candles(store, bars)
    /\ db' = insert_candles(db, rows)

\* EODHD: a refused row ends run(), and nothing starts it again.
Backfilled(bars) ==
    \/ Ingested(bars, bars) /\ proc' = "ready" /\ UNCHANGED dbFails
    \/ /\ DbRefuses
       /\ \E b \in bars : Ingested({c \in bars : c.hour <= b.hour},
                                   {c \in bars : c.hour < b.hour})
       /\ proc' = "ended"

\* Twelve Data: a refused row is logged, its bar stays in memory.
Polled(bars) ==
    \/ Ingested(bars, bars) /\ UNCHANGED <<refused, dbFails>>
    \/ \E b \in bars :
          /\ DbRefuses
          /\ Ingested(bars, bars \ {b})
          /\ refused' = refused \cup {h \in {Hour(now)} : b.hour = h /\ b \in store' \ store}

Backfill ==
    /\ proc = "backfill"
    /\ \/ /\ feed = "eodhd" /\ UNCHANGED refused
          /\ \E bars \in Answers(0) : Backfilled(bars)
       \/ /\ feed = "twelvedata" /\ proc' = "ready"
          /\ \E bars \in Latest(Buffer) : Polled(bars)
    /\ UNCHANGED <<now, final, feed, bucket, pending, fetch, pass, up, wire, crashes>>

\* EODHD: the refused row was another symbol's.
RunEnds ==
    /\ proc \in {"backfill", "ready"} /\ feed = "eodhd"
    /\ DbRefuses
    /\ proc' = "ended"
    /\ UNCHANGED <<now, final, feed, memory, db, crashes>>

\* _seed_repairs_from_freshness
Missing ==
    {h \in Max({0, last_expected(now) - Lookback + 1})..last_expected(now) :
        /\ h * Slots \in Open
        /\ h \notin Hours(Last(store, Lookback + 2))}

GoLive ==
    /\ proc = "ready"
    /\ proc' = "live"
    /\ pending' = IF feed = "eodhd" /\ store # {} THEN Missing ELSE {}
    /\ UNCHANGED <<now, final, feed, store, db, bucket, fetch, pass, up, wire,
                   refused, crashes, dbFails>>

-----------------------------------------------------------------------------
\* Metals: probe the scale, backfill into the database, warm

\* _wipe_wrong_basis_rows: compare IG's newest bar with the newest row
WrongBasis(rows) == \E r \in Last(rows, 1) : r = OldScale(r.hour)

\* _warm_store_from_db, then the first _connect
Warm(rows) == store' = warmed(rows) /\ proc' = "live"

ProbeDone ==
    /\ proc = "probe"
    /\ db' \in IF WrongBasis(db) THEN {db, {}} ELSE {db}
    /\ IF Cardinality(get_candles(db', Context)) < Context
       THEN proc' = "fetch" /\ UNCHANGED store
       ELSE Warm(db')
    /\ UNCHANGED <<now, final, feed, bucket, pending, fetch, pass, up, wire, refused,
                   crashes, dbFails>>

\* _backfill_below_threshold: a refused insert is logged
FetchDone ==
    /\ proc = "fetch"
    /\ \E bars \in Latest(Buffer) :
          \/ db' = insert_candles(db, bars) /\ UNCHANGED dbFails
          \/ DbRefuses /\ UNCHANGED db
    /\ Warm(db')
    /\ UNCHANGED <<now, final, feed, bucket, pending, fetch, pass, up, wire, refused, crashes>>

-----------------------------------------------------------------------------
\* EODHD and metals, live: ticks

\* _emit_aggregated_candle: SQLite may refuse the row, which is logged
Emitted(bar) ==
    /\ store' = add_candle(store, bar)
    /\ \/ db' = insert_candle(db, bar) /\ UNCHANGED dbFails
       \/ DbRefuses /\ UNCHANGED db

Ticked(r) ==
    /\ wire' = Tail(wire) /\ bucket' = r.bucket
    /\ IF r.emit = None THEN UNCHANGED <<store, db, dbFails>> ELSE Emitted(r.emit)
    /\ UNCHANGED <<now, final, feed, proc, fetch, pass, up, refused, crashes>>

\* _record_dropped_bucket
Recorded(h) == pending' = IF h = None THEN pending ELSE pending \cup {h}

\* _handle_ws_message
HandleTick ==
    /\ Live("eodhd") /\ wire # <<>>
    /\ LET r == ingest_tick(bucket, Head(wire), now) IN Ticked(r) /\ Recorded(r.drop)

\* _dispatch: the metals have no repair
Dispatch ==
    /\ Live("metals") /\ wire # <<>>
    /\ Ticked(ingest_tick(bucket, Head(wire), now)) /\ UNCHANGED pending

-----------------------------------------------------------------------------
\* EODHD, live: the repair pass, at :10.  The last instant stands for the
\* hours after it.

Due(slot) == Slot(now) = slot /\ fetch = None /\ (pass # Hour(now) \/ now = MaxNow)

RepairPass ==
    /\ Live("eodhd") /\ Due(RepairSlot) /\ pending # {}
    /\ pass' = Hour(now)
    /\ pending' = {h \in pending : Hour(now) - h <= MaxAge}
    /\ fetch' = IF pending' = {} THEN None ELSE Max({0, Min(pending') - 1})
    /\ UNCHANGED <<now, final, feed, proc, store, db, bucket, up, wire,
                   refused, crashes, dbFails>>

\* _repair_from_bars over the pending hours below h
Repaired(bars, h) == {b \in bars : b.hour \in pending /\ b.hour < h}
Settled(bars, h) ==
    {p \in pending : p < h /\ (p \in Hours(bars) \/ \E b \in bars : b.hour > p)}

\* Mutant: repaired bars stay in the database.
RepairAnsweredDbOnly(bars) ==
    /\ db' = insert_candles(db, Repaired(bars, MaxNow))
    /\ pending' = pending \ Settled(bars, MaxNow)
    /\ UNCHANGED <<store, dbFails>>

RepairAnswered(bars) ==
    LET rows == insert_candles(db, Repaired(bars, MaxNow))
    IN  /\ db' = rows
        /\ pending' = pending \ Settled(bars, MaxNow)
        /\ store' = IF Repaired(bars, MaxNow) = {} THEN store ELSE get_candles(rows, Buffer)
        /\ UNCHANGED dbFails

\* an insert raises: the hours before it are done, the buffer is not reloaded
RepairRaises(bars) ==
    /\ DbRefuses
    /\ \E b \in Repaired(bars, MaxNow) :
          /\ db' = insert_candles(db, Repaired(bars, b.hour))
          /\ pending' = pending \ Settled(bars, b.hour)
    /\ UNCHANGED store

RepairDone ==
    /\ Live("eodhd") /\ fetch # None
    /\ \E bars \in Answers(fetch) : RepairAnswered(bars) \/ RepairRaises(bars)
    /\ fetch' = None
    /\ UNCHANGED <<now, final, feed, proc, bucket, pass, up, wire, refused, crashes>>

\* the same, when the provider and SQLite do their part
RepairSucceeds ==
    /\ Live("eodhd") /\ fetch # None
    /\ RepairAnswered(Served(fetch, final))
    /\ fetch' = None
    /\ UNCHANGED <<now, final, feed, proc, bucket, pass, up, wire, refused, crashes>>

-----------------------------------------------------------------------------
\* Twelve Data, live: the poll, at :05

PollStart ==
    /\ Live("twelvedata") /\ Due(PollSlot)
    /\ pass' = Hour(now) /\ fetch' = 0
    /\ UNCHANGED <<now, final, feed, proc, store, db, bucket, pending, up, wire,
                   refused, crashes, dbFails>>

PollDone ==
    /\ Live("twelvedata") /\ fetch # None
    /\ \E bars \in Latest(PollSize) : Polled(bars)
    /\ fetch' = None
    /\ UNCHANGED <<now, final, feed, proc, bucket, pending, pass, up, wire, crashes>>

-----------------------------------------------------------------------------
Stopped == now = MaxNow /\ UNCHANGED vars

Next ==
    \/ Advance \/ Finalise \/ Disconnect \/ Connect \/ Rebuild \/ Crash
    \/ Start \/ Backfill \/ RunEnds \/ GoLive \/ ProbeDone \/ FetchDone
    \/ HandleTick \/ Dispatch \/ RepairPass \/ RepairDone
    \/ PollStart \/ PollDone
    \/ Stopped

Spec == Init /\ [][Next]_vars

FairSpec ==
    /\ Spec
    /\ WF_vars(Advance) /\ WF_vars(Finalise) /\ WF_vars(HandleTick \/ Dispatch)
    /\ WF_vars(Start \/ Backfill \/ GoLive \/ ProbeDone \/ FetchDone)
    /\ WF_vars(RepairPass) /\ SF_vars(RepairSucceeds)

-----------------------------------------------------------------------------
\* Ticks and repairs make no bar of an hour that is not over, whatever stale
\* snapshots a reconnect brings.
TicksCloseHours ==
    [][proc = "live" /\ feed # "twelvedata" =>
         \A b \in (db' \ db) \cup (store' \ (store \cup db)) : b.hour < Hour(now)]_vars

\* Memory and disk hold two versions of an hour in one case only: a poll found
\* the hour still forming, SQLite refused its row, and a later poll saved the
\* whole bar beside the one in memory.  Refused rows of a tick, a backfill or a
\* repair, and those of whole bars, lead to none.
OneVersion ==
    \A b \in store, r \in db : b.hour = r.hour /\ b.hour \notin refused => b = r

\* Repairs, polls and late ticks never take a saved bar from the running
\* strategy: it only leaves at the far end of the buffer.
ReloadKeepsBars ==
    [][proc' = proc =>
         \A b \in store \cap db :
            b \in store' \/ (Cardinality(store') = Buffer /\ \A c \in store' : b.hour < c.hour)]_vars

\* An hour that was lost and queued for repair is in the strategy's buffer in
\* the end, through failed fetches, failed inserts and restarts.  It may be
\* given up when it is too old to be looked for, never traded, the program is
\* run with the other feed, or a refused row has ended the feed's run().
GivenUp(h) == \/ PrintsOf(h) = {} \/ h * Slots \notin Open
              \/ Hour(now) - h >= Lookback
              \/ feed # "eodhd" \/ proc = "ended"
              \/ Cardinality(store) = Buffer /\ \A b \in store : h < b.hour
QueuedHourLands ==
    \A h \in Watched : h \in pending ~> (h \in Hours(store) \/ GivenUp(h))

=============================================================================
