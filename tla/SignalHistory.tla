---------------------------- MODULE SignalHistory ----------------------------
(***************************************************************************)
(* candles.db, as its writers share it: one SQLite connection of CandleDB  *)
(* (data/candle_db.py, signal_history_store.py, correlation_store.py,      *)
(* macro_store.py), used by the event loop and, at the same time, by two   *)
(* worker threads, the resolver of signal_history and the writer of the    *)
(* correlations (strategy/rerank_runner.py).                               *)
(*                                                                         *)
(* A transaction belongs to the connection: whoever commits or rolls back  *)
(* does it for all.  disk is what is committed, view what the connection   *)
(* sees.  A call of the event loop is synchronous, but a worker's          *)
(* statement may come between two of its statements.                       *)
(*                                                                         *)
(* A bar is the hour it opens at.  Reranks fall inside the hours, so that  *)
(* a row's window holds the bars of the Horizon hours after its own.       *)
(***************************************************************************)
EXTENDS Sentiment

CONSTANTS Trading,      \* [Assets -> hours its market is open]
          Pairs,        \* of the correlation matrix
          Horizon,      \* horizon_bars
          Late,         \* bound: bars that may come late or never
          RerankHours,  \* bound: the hours reranks start in
          MaxHour, MaxFaults   \* bounds

ASSUME SignalHistoryAssumption ==
    /\ Trading \in [Assets -> SUBSET Nat] /\ Late \subseteq Assets \X Nat
    /\ RerankHours \subseteq Nat
    /\ Horizon \in Nat \ {0} /\ {MaxHour, MaxFaults} \subseteq Nat

VARIABLES disk, view,
          call,      \* the loop's database call that is not over, or None
          acked,     \* candles whose insert_candle returned
          rerank,    \* "idle", "scan", "correlation"
          writer,    \* pairs the correlation thread has yet to write, or None
          resolver,  \* of the resolver's thread: "sleep", "select", "update"
          due,       \* the rows it has yet to update
          woken,     \* the hour it last woke in
          reranked,  \* hours a rerank has started in
          faults

db      == <<disk, view>>
threads == <<writer, resolver, due>>
vars == <<db, threads, faults, clock, engine, call, acked, rerank, reranked, woken>>

\* The hour.
now == clock \div Parts

Empty == [candles |-> {}, rows |-> {}, pairs |-> {}]

\* init_db; a new file
Init ==
    /\ clock = 0 /\ SentimentInit
    /\ disk = Empty /\ view = Empty /\ call = None /\ acked = {}
    /\ rerank = "idle" /\ writer = None
    /\ resolver = "sleep" /\ due = {} /\ woken = 0
    /\ reranked = {} /\ faults = 0

Commit   == disk' = view /\ UNCHANGED view
Rollback == view' = disk /\ UNCHANGED disk
Execute(field, value) ==
    view' = [view EXCEPT ![field] = value] /\ UNCHANGED disk
Fault == faults < MaxFaults /\ faults' = faults + 1

---------------------------------------------------------------------------
(* The event loop. *)

Closed == {bar \in Assets \X (0..(now - 1)) : bar[2] \in Trading[bar[1]]}

\* insert_candle of a closed bar, INSERT OR IGNORE, and its commit
CandleExecuted(bar) ==
    /\ call = None /\ bar \in Closed \ acked
    /\ Execute("candles", view.candles \cup {bar})
    /\ call' = <<"candle", bar>>
    /\ UNCHANGED <<threads, faults, clock, engine, acked, rerank, woken, reranked>>

CandleCommitted ==
    /\ call # None /\ call[1] = "candle"
    /\ Commit /\ acked' = acked \cup {call[2]} /\ call' = None
    /\ UNCHANGED <<threads, faults, clock, engine, rerank, woken, reranked>>

\* The daily upsert of a FRED series: its transaction commits, or rolls back.
MacroStored ==
    /\ call = None /\ view # disk /\ Commit
    /\ UNCHANGED <<threads, faults, clock, engine, call, acked, rerank, woken, reranked>>

MacroFails ==
    /\ call = None /\ view # disk /\ Fault /\ Rollback
    /\ UNCHANGED <<threads, clock, engine, call, acked, rerank, woken, reranked>>

RerankStart ==
    /\ call = None /\ rerank = "idle" /\ now \in RerankHours \ reranked
    /\ rerank' = "scan" /\ reranked' = reranked \cup {now}
    /\ UNCHANGED <<db, threads, faults, clock, engine, call, acked, woken>>

\* A row of write_signal_history_batch.  What it captures at entry, and the
\* realised prices, are left out; gap is None until it is resolved.
Row(a) == [asset |-> a, at |-> now, gap |-> None]

\* The scan is over: a row for each of its assets.
RowsBegin ==
    /\ call = None /\ rerank = "scan"
    /\ call' = <<"rows", {Row(a) : a \in Assets}>>
    /\ UNCHANGED <<db, threads, faults, clock, engine, acked, rerank, woken, reranked>>

\* executemany
RowExecuted ==
    /\ call # None /\ call[1] = "rows"
    /\ \E r \in call[2] :
         /\ Execute("rows", view.rows \cup {r})
         /\ call' = <<"rows", call[2] \ {r}>>
    /\ UNCHANGED <<threads, faults, clock, engine, acked, rerank, woken, reranked>>

\* The rows are in, or given up; then the thread for the correlations.
CorrelationBegins == call' = None /\ rerank' = "correlation" /\ writer' = Pairs

RowsCommitted ==
    /\ call = <<"rows", {}>> /\ Commit /\ CorrelationBegins
    /\ UNCHANGED <<resolver, due, faults, clock, engine, acked, woken, reranked>>

RowsFail ==
    /\ call # None /\ call[1] = "rows" /\ Fault /\ Rollback /\ CorrelationBegins
    /\ UNCHANGED <<resolver, due, clock, engine, acked, woken, reranked>>

\* The sentiment engine runs on the loop; its own table has its own connection.
ScanBegins ==
    /\ call = None /\ ScanStart(rerank # "idle")
    /\ UNCHANGED <<db, threads, faults, clock, call, acked, rerank, woken, reranked>>

Scans ==
    /\ call = None /\ (Gathered \/ GeminiDone)
    /\ UNCHANGED <<db, threads, faults, clock, call, acked, rerank, woken, reranked>>

---------------------------------------------------------------------------
(* The correlation thread. *)

PairExecuted ==
    /\ writer # None
    /\ \E p \in writer :
         Execute("pairs", view.pairs \cup {<<now, p>>}) /\ writer' = writer \ {p}
    /\ UNCHANGED <<resolver, due, faults, clock, engine, call, acked, rerank, woken, reranked>>

\* Committed or, without a rollback, failed; the rerank goes on.
PairsCommitted ==
    /\ writer = {} /\ Commit /\ writer' = None /\ rerank' = "idle"
    /\ UNCHANGED <<resolver, due, faults, clock, engine, call, acked, woken, reranked>>

PairsFail ==
    /\ writer # None /\ Fault /\ writer' = None /\ rerank' = "idle"
    /\ UNCHANGED <<db, resolver, due, clock, engine, call, acked, woken, reranked>>

---------------------------------------------------------------------------
(* The resolver. *)

\* signal_resolver_loop, once an hour
ResolverWakes ==
    /\ call = None /\ resolver = "sleep" /\ (woken < now \/ now = MaxHour)
    /\ woken' = now /\ resolver' = "select"
    /\ UNCHANGED <<db, writer, due, faults, clock, engine, call, acked, rerank, reranked>>

\* A row's horizon ends some time in the hour at + Horizon.
MayBeDue(r)  == r.gap = None /\ r.at + Horizon <= now
MustBeDue(r) == r.gap = None /\ r.at + Horizon < now

Select ==
    /\ resolver = "select"
    /\ due' \in SUBSET {r \in view.rows : MayBeDue(r)}
    /\ {r \in view.rows : MustBeDue(r)} \subseteq due'
    /\ resolver' = IF due' = {} THEN "sleep" ELSE "update"
    /\ UNCHANGED <<db, writer, faults, clock, engine, call, acked, rerank, woken, reranked>>

\* The bars in a row's window.
Bars(candles, r) ==
    {h \in (r.at + 1)..(r.at + Horizon) : <<r.asset, h>> \in candles}

\* _detect_gap_spanned: two bars more than an hour apart, or the last one more
\* than two hours before the end of the window
DetectGap(bars, r) ==
    IF Cardinality(bars) <= 1
       \/ \E h \in Min(bars)..(r.at + Horizon - 1) : h \notin bars
    THEN 1 ELSE 0

\* Mutant: a row without bars ends the pass.
StopAtBarless(r, bars) == IF bars = {} THEN {} ELSE due \ {r}
Rest(r, bars) == due \ {r}

\* One row: its SELECT and its UPDATE.  Without bars it stays as it is; a row
\* rolled back since is no longer there to update.
Resolve(r) ==
    LET bars == Bars(view.candles, r) IN
    /\ resolver = "update" /\ r \in due
    /\ due' = Rest(r, bars) /\ UNCHANGED resolver
    /\ IF bars # {} /\ r \in view.rows
       THEN Execute("rows", (view.rows \ {r})
                              \cup {[r EXCEPT !.gap = DetectGap(bars, r)]})
       ELSE UNCHANGED db
    /\ UNCHANGED <<writer, faults, clock, engine, call, acked, rerank, woken, reranked>>

ResolverCommits ==
    /\ resolver = "update" /\ due = {} /\ Commit /\ resolver' = "sleep"
    /\ UNCHANGED <<writer, due, faults, clock, engine, call, acked, rerank, woken, reranked>>

\* Mutant: the pass is a transaction that rolls back what is not committed.
RaisedInTransaction == Rollback
\* An exception leaves what was done to the next commit of anyone.
Raised == UNCHANGED db

ResolverFails ==
    /\ resolver # "sleep" /\ Fault /\ Raised /\ resolver' = "sleep" /\ due' = {}
    /\ UNCHANGED <<writer, clock, engine, call, acked, rerank, woken, reranked>>

---------------------------------------------------------------------------

\* When an hour ends the feeds have stored the bars of the hours before it.
Tick ==
    /\ now < MaxHour /\ clock' = clock + 1
    /\ now' # now => Closed \ Late \subseteq acked
    /\ UNCHANGED <<db, threads, faults, engine, call, acked, rerank, woken, reranked>>

\* A crash, or a shutdown that closes the connection under the threads; what is
\* not committed is gone.
Restart ==
    /\ Fault /\ Rollback /\ SentimentRestart
    /\ call' = None /\ rerank' = "idle" /\ writer' = None
    /\ resolver' = "sleep" /\ due' = {} /\ woken' = now
    /\ UNCHANGED <<clock, acked, reranked>>

Loop ==
    \/ \E bar \in Assets \X (0..MaxHour) : CandleExecuted(bar)
    \/ CandleCommitted \/ MacroStored \/ MacroFails
    \/ RerankStart \/ RowsBegin \/ RowExecuted \/ RowsCommitted \/ RowsFail
    \/ ScanBegins \/ Scans

Next ==
    \/ Loop \/ PairExecuted \/ PairsCommitted \/ PairsFail
    \/ ResolverWakes \/ Select \/ ResolverCommits \/ ResolverFails
    \/ \E r \in due : Resolve(r)
    \/ Tick \/ Restart

\* Time passes, the feeds store bars, threads and database calls end, and a
\* commit of the loop comes by (a candle's each hour, past the bound MacroStored).
Fairness ==
    /\ WF_vars(Tick) /\ WF_vars(CandleCommitted) /\ WF_vars(MacroStored)
    /\ WF_vars(\E bar \in Closed \ Late : CandleExecuted(bar))
    /\ WF_vars(RowExecuted) /\ WF_vars(RowsCommitted)
    /\ WF_vars(ResolverWakes) /\ WF_vars(Select) /\ WF_vars(ResolverCommits)
    /\ WF_vars(\E r \in due : Resolve(r))

Spec == Init /\ [][Next]_vars /\ Fairness

---------------------------------------------------------------------------

(* A candle whose insert_candle has returned stays in the file, whatever    *)
(* the threads were doing on its connection, and whoever of them fails.     *)
AckedCandlesStay == acked \subseteq disk.candles

(* Every row in the file whose window has a bar gets its realised return in *)
(* the end, although passes fail, are undone by a rollback of the loop or   *)
(* die with the process.                                                    *)
RowsResolved ==
    \A a \in {b \in Assets : Trading[b] # {}}, t \in 0..(MaxHour - Horizon - 1) :
      LET Of(g) == \E r \in disk.rows : r.asset = a /\ r.at = t /\ (r.gap = None) = g
      IN (Of(TRUE) /\ \E h \in 1..Horizon : <<a, t + h>> \in disk.candles) ~> Of(FALSE)
===============================================================================
