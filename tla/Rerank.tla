-------------------------------- MODULE Rerank --------------------------------
(***************************************************************************)
(* The rerank loop (strategy/rerank_runner.py): Kronos inference over the  *)
(* watchlist and what it makes of its two passes, the ranking and the      *)
(* correlation filter (strategy/topk_strategy.py, correlation.py), the     *)
(* signal-decay exits (strategy/take_profit.py), and the candle handler    *)
(* that enters and leaves positions on the loop's results meanwhile        *)
(* (execution/entry_executor.py).                                          *)
(*                                                                         *)
(* An action is a step from one await to the next.  Prices, stakes and the *)
(* risk gates are other modules'; here a position may leave at any time,   *)
(* and an entry may be refused.                                            *)
(***************************************************************************)
EXTENDS Integers, Sequences, FiniteSets, SequencesExt

CONSTANTS Symbols, None,
          Fillable,        \* bound: the symbols whose entries IG fills
          Monitored,       \* topk_exclude_from_selection
          Volume,          \* _VOLUME_SYMBOLS, the US shares and the metals
          Outcomes,        \* [Symbols -> what the two passes may predict]
          Sessions,        \* sets of markets open together
          Matrices,        \* sets of pairs whose correlation may exceed the maximum
          K,               \* topk_k
          MinReturn,       \* topk_min_predicted_return
          MinConfidence, MaxUncertainty,     \* entry filters
          DecayConfidence, DecayUncertainty, \* tp_signal_decay_*
          MaxStrikes, MaxMisses,
          OldRecords,      \* the decay records an earlier run may have saved
          MaxRestarts      \* bound: restarts

ASSUME RerankAssumption ==
    /\ None \notin Symbols /\ IsFiniteSet(Symbols)
    /\ Fillable \cup Monitored \cup Volume \subseteq Symbols
    /\ {K, MaxStrikes, MaxMisses} \subseteq Nat \ {0} /\ MaxRestarts \in Nat
    /\ Sessions \subseteq SUBSET Symbols /\ Matrices \subseteq SUBSET SUBSET Symbols
    /\ \A r \in OldRecords :
         /\ r = [mean |-> r.mean, misses |-> r.misses, strikes |-> r.strikes, own |-> FALSE]
         /\ r # None

VARIABLES phase,     \* of the loop: "wait", "idle", "scan", "assign", "exits"
          loaded,    \* symbols with kronos_context_bars candles in the store
          open,      \* symbols whose market is open
          signals,   \* topk_signals
          ranked,    \* the scan's candidates, best first, until assigned
          chosen,    \* new_selected, until assigned
          matrix,    \* CorrelationTracker._matrix, until assigned
          selected,  \* topk_selected
          scanned,   \* topk_scanned
          held,      \* state.positions
          tp,        \* TakeProfitManager._positions, the decay counters of it
          todo,      \* positions the decay exits have yet to look at
          closing,   \* the decay exit whose close is awaited, or None
          entering,  \* the entry past its selection check, or None
          raced,     \* a scan ended since that check, or was not assigned yet
          doubts,    \* reranks since the entry that disagreed with it
          torn,      \* signals and selected are restored, and of different scans
          fileTopk,  \* bot_state.json: topk_state
          fileTp,    \* bot_state.json: take_profit_state
          restarts

pick == <<ranked, chosen, matrix>>
loop == <<phase, pick, todo, closing>>
topk == <<signals, selected, scanned, torn>>
book == <<held, tp, doubts>>
disk == <<fileTopk, fileTp, restarts>>
vars == <<loop, topk, book, disk, loaded, open, entering, raced>>

NoSignals == [s \in Symbols |-> None]
NoRecords == [s \in Symbols |-> None]

\* An earlier run's records may be in the file, its positions gone.
Init ==
    /\ phase = "wait" /\ loaded = {} /\ open \in Sessions
    /\ signals = NoSignals /\ ranked = <<>> /\ chosen = {} /\ matrix = {}
    /\ selected = {} /\ scanned = FALSE /\ torn = FALSE
    /\ held = {} /\ tp = NoRecords /\ todo = {} /\ closing = None
    /\ fileTopk = None
    /\ fileTp \in {r \in [Symbols -> {None} \cup OldRecords] :
                    \A s \in Symbols \ Fillable : r[s] = None}
    /\ entering = None /\ raced = FALSE
    /\ doubts = [s \in Symbols |-> 0] /\ restarts = 0

---------------------------------------------------------------------------
(* The scan. *)

\* _prepare_asset: whose candles fill the model's context
Prepared == loaded

\* _variance_pass_stats, _compute_asset_signal: without draws the point
\* estimate counts as certain
Signal(o, drawn) ==
    [mean |-> o.mean, calm |-> o.calm,
     conf |-> IF drawn THEN o.conf ELSE IF o.mean >= 0 THEN 100 ELSE 0,
     unc  |-> IF drawn THEN o.unc ELSE 0]

\* With volume, and without.
Groups == {Volume, Symbols \ Volume}

\* What Kronos may make of the whole watchlist.
Forecasts ==
    {o \in [Symbols -> UNION {Outcomes[s] : s \in Symbols}] :
       \A s \in Symbols : o[s] \in Outcomes[s]}

\* _run_inference_group, one group after the other or both in parallel: a group
\* goes through a draw together, so that all its symbols have draws, or none
\* when each draw failed or the pass is off.
Passes ==
    {[s \in Symbols |-> Signal(o[s], s \in UNION drawn)] :
       o \in Forecasts, drawn \in SUBSET Groups}

\* _is_tradeable, the direction LONG with the return
Tradeable(q) ==
    /\ q.mean >= MinReturn /\ q.conf >= MinConfidence /\ q.unc <= MaxUncertainty
    /\ q.calm

Candidates(sigs) ==
    {s \in open \ Monitored : sigs[s] # None /\ Tradeable(sigs[s])}

Blocked(s, picks, corr) == \E t \in picks : {s, t} \in corr

Rankings(S) == {rank \in [1..Cardinality(S) -> S] : IsInjective(rank)}

\* Mutant: the candidates are cut to k before the filter.
PickedFromTopK(rank, corr) ==
    FoldLeft(LAMBDA picks, s : IF Blocked(s, picks, corr) THEN picks ELSE picks \cup {s},
             {}, SubSeq(rank, 1, IF K < Len(rank) THEN K ELSE Len(rank)))
\* select_top_k, select_uncorrelated
Picked(rank, corr) ==
    FoldLeft(LAMBDA picks, s :
               IF Cardinality(picks) < K /\ ~Blocked(s, picks, corr)
               THEN picks \cup {s} ELSE picks, {}, rank)

Begin ==
    /\ phase = "wait" /\ loaded = Symbols /\ phase' = "idle"
    /\ UNCHANGED <<pick, todo, closing, topk, book, loaded, open,
                   entering, raced, disk>>

RerankStart ==
    /\ phase = "idle" /\ phase' = "scan"
    /\ UNCHANGED <<pick, todo, closing, topk, book, loaded, open,
                   entering, raced, disk>>

\* CorrelationTracker.update, of this scan's candles
Correlations == matrix' \in Matrices

\* The matrix; both passes; the signals and the selection follow in one step.
Scanned(sigs) ==
    /\ phase = "scan" /\ phase' = "assign"
    /\ Correlations
    /\ signals' = sigs
    /\ ranked' \in Rankings(Candidates(sigs))
    /\ chosen' = Picked(ranked', matrix')
    /\ raced' = (entering # None)
    /\ UNCHANGED <<selected, scanned, torn, book, todo, closing, loaded, open, entering, disk>>

ScanDone ==
    \E sigs \in Passes :
      Scanned([s \in Symbols |-> IF s \in Prepared THEN sigs[s] ELSE None])

\* A failed Pass 1, in either group: no signals, and the rerank goes on.
ScanFails == Scanned(NoSignals)

\* Any other exception ends this rerank, the loop goes on.
RerankRaises ==
    /\ phase = "scan" \/ (phase = "exits" /\ closing # None)
    /\ phase' = "idle" /\ todo' = {} /\ closing' = None
    /\ UNCHANGED <<pick, topk, book, loaded, open, entering, raced, disk>>

\* Mutant: a rerank that selects nothing leaves the last selection.
KeptUnlessEmpty(picks) == IF picks = {} THEN selected ELSE picks
NewSelection(picks) == picks

\* After the correlations are written; the sentiment gate may block some.
Assign ==
    /\ phase = "assign" /\ phase' = "exits"
    /\ \E passed \in SUBSET chosen : selected' = NewSelection(passed)
    /\ scanned' = TRUE /\ torn' = FALSE /\ todo' = held
    /\ ranked' = <<>> /\ chosen' = {} /\ matrix' = {}
    /\ UNCHANGED <<closing, signals, book, loaded, open, entering, raced, disk>>

---------------------------------------------------------------------------
(* Signal decay. *)

Unhealthy(q) == q.conf < DecayConfidence \/ q.unc > DecayUncertainty
Flipped(r, q) == q.mean * r.mean < 0

\* A count goes no further than its limit here.
Up(n, most) == IF n < most THEN n + 1 ELSE n

\* evaluate_signal: the record's counters after a rerank
Counted(r, q, in_topk) ==
    IF q = None THEN [r EXCEPT !.strikes = Up(@, MaxStrikes)]
    ELSE IF Flipped(r, q) THEN r
    ELSE [r EXCEPT !.strikes = IF Unhealthy(q) THEN Up(@, MaxStrikes) ELSE 0,
                   !.misses  = IF in_topk THEN 0 ELSE Up(@, MaxMisses)]

\* Mutant: the counters are never compared.
DecaysOnFlip(r, q) == q # None /\ Flipped(r, q)
Decays(r, q) ==
    \/ r.strikes >= MaxStrikes
    \/ q # None /\ (Flipped(r, q) \/ r.misses >= MaxMisses)

\* Mutant: the closure of a market counts as a miss.
SelectedOnly(s) == s \in selected
InTopK(s) == s \in selected \/ s \notin open

DecayNext(s) ==
    /\ phase = "exits" /\ closing = None /\ s \in todo
    /\ LET q == signals[s]
           r == IF tp[s] = None THEN None ELSE Counted(tp[s], q, InTopK(s))
           agrees == q # None /\ ~Unhealthy(q) /\ (s \in selected \/ s \notin open)
       IN /\ tp' = [tp EXCEPT ![s] = r]
          /\ doubts' = [doubts EXCEPT ![s] = IF agrees THEN @ ELSE Up(@, MaxMisses)]
          /\ IF r # None /\ Decays(r, q)
             THEN closing' = s /\ UNCHANGED todo
             ELSE closing' = None /\ todo' = todo \ {s}
    /\ UNCHANGED <<phase, pick, topk, held, loaded, open, entering, raced, disk>>

Left(s) == held' = held \ {s} /\ tp' = [tp EXCEPT ![s] = None]

CloseDone ==
    /\ closing # None /\ Left(closing)
    /\ closing' = None /\ todo' = todo \ {closing}
    /\ UNCHANGED <<phase, pick, topk, doubts, loaded, open, entering, raced, disk>>

\* Deferred, or failed with the position still on IG.
CloseNotDone ==
    /\ closing # None
    /\ closing' = None /\ todo' = todo \ {closing}
    /\ UNCHANGED <<phase, pick, topk, book, loaded, open, entering, raced, disk>>

RerankDone ==
    /\ phase = "exits" /\ closing = None /\ todo = {} /\ phase' = "idle"
    /\ UNCHANGED <<pick, todo, closing, topk, book, loaded, open,
                   entering, raced, disk>>

---------------------------------------------------------------------------
(* The candle handler, and IG. *)

\* maybe_enter, up to the await of the balance
EntryCheck(s) ==
    /\ entering = None /\ s \notin held
    /\ scanned /\ s \in selected /\ s \in open
    /\ entering' = s /\ raced' = (phase = "assign" \/ torn)
    /\ UNCHANGED <<loop, topk, book, loaded, open, disk>>

\* A record that outlives its position: no longer the own record of the next.
Orphaned(r) == IF r = None THEN None ELSE [r EXCEPT !.own = FALSE]

\* register_position, with the signal of this moment; without one the entry has
\* no record, or the one it finds.
Registered(s) ==
    IF signals[s] = None THEN Orphaned(tp[s])
    ELSE [mean |-> signals[s].mean, misses |-> 0, strikes |-> 0, own |-> TRUE]

EntryFilled ==
    /\ entering \in Fillable
    /\ held' = held \cup {entering}
    /\ tp' = [tp EXCEPT ![entering] = Registered(entering)]
    /\ doubts' = [doubts EXCEPT ![entering] = 0]
    /\ fileTp' = [fileTp EXCEPT ![entering] = Orphaned(@)]
    /\ entering' = None /\ raced' = FALSE
    /\ UNCHANGED <<loop, topk, loaded, open, fileTopk, restarts>>

EntryRefused ==
    /\ entering # None /\ entering' = None /\ raced' = FALSE
    /\ UNCHANGED <<loop, topk, book, loaded, open, disk>>

\* A price exit, a margin breaker's close, or one of IG's that a reconcile finds.
Leaves(s) ==
    /\ s \in held /\ closing # s /\ Left(s)
    /\ UNCHANGED <<loop, topk, doubts, loaded, open, entering, raced, disk>>

Load(s) ==
    /\ s \notin loaded /\ loaded' = loaded \cup {s}
    /\ UNCHANGED <<loop, topk, book, open, entering, raced, disk>>

MarketsTurn(session) ==
    /\ session # open /\ open' = session
    /\ UNCHANGED <<loop, topk, book, loaded, entering, raced, disk>>

\* What an orderly shutdown saves.  In the middle of a rerank, whose write of
\* the correlations it cancels, that is the new signals with the old selection.
Snapshot ==
    [topk |-> IF scanned
              THEN [signals |-> signals, selected |-> selected,
                    torn |-> torn \/ phase = "assign"]
              ELSE fileTopk,
     tp   |-> tp]

\* What a crash leaves: the heartbeat saves the positions with the records and
\* the selection that were loaded at the start, or saved by nobody.
LastSave == [topk |-> fileTopk, tp |-> fileTp]

\* What a start whose connect fails saves, before it restored anything.
Blank == [topk |-> None, tp |-> NoRecords]

\* The selection is restored if it is 4 hours old at most.  The records are,
\* but for positions of the file that IG has no more.
Restored(file) ==
    /\ IF restarts' < MaxRestarts THEN fileTopk' = file.topk /\ fileTp' = file.tp
       ELSE fileTopk' = None /\ fileTp' = NoRecords  \* bound: no start will read it
    /\ \E gone \in SUBSET {s \in Symbols \ held' : file.tp[s] # None} :
         tp' = [s \in Symbols |-> IF s \in gone THEN None ELSE file.tp[s]]
    /\ \/ /\ file.topk # None
          /\ signals' = file.topk.signals /\ selected' = file.topk.selected
          /\ scanned' = TRUE /\ torn' = file.topk.torn
       \/ signals' = NoSignals /\ selected' = {} /\ scanned' = FALSE /\ torn' = FALSE

\* In order, with positions the heartbeat had yet to save lost, or with all lost.
Restart ==
    /\ restarts < MaxRestarts /\ restarts' = restarts + 1
    /\ phase' = "wait" /\ loaded' = {} /\ ranked' = <<>> /\ chosen' = {} /\ matrix' = {}
    /\ todo' = {} /\ closing' = None /\ entering' = None /\ raced' = FALSE
    /\ \/ held' = held /\ Restored(Snapshot)
       \/ held' \in SUBSET held /\ Restored(LastSave)
       \/ held' = {} /\ Restored(Blank)
    /\ UNCHANGED <<doubts, open>>

Next ==
    \/ Begin \/ RerankStart \/ ScanDone \/ ScanFails \/ RerankRaises \/ Assign
    \/ \E s \in Symbols : DecayNext(s) \/ EntryCheck(s) \/ Leaves(s) \/ Load(s)
    \/ CloseDone \/ CloseNotDone \/ RerankDone
    \/ EntryFilled \/ EntryRefused \/ Restart
    \/ \E session \in Sessions : MarketsTurn(session)

\* The candles load, the loop goes on, scans and closes succeed now and then.
Fairness ==
    /\ \A s \in Symbols : WF_vars(Load(s)) /\ WF_vars(DecayNext(s))
    /\ WF_vars(Begin) /\ WF_vars(RerankStart) /\ WF_vars(Assign) /\ WF_vars(RerankDone)
    /\ SF_vars(ScanDone) /\ SF_vars(CloseDone)

Spec == Init /\ [][Next]_vars /\ Fairness

---------------------------------------------------------------------------

(* The selection is the greedy one: a candidate is in exactly when fewer    *)
(* than k better ones are, and it is not too correlated with any of them.   *)
SelectionGreedy ==
    phase = "assign" =>
      \A i \in DOMAIN ranked :
        LET better == {ranked[j] : j \in 1..(i - 1)} \cap chosen
        IN ranked[i] \in chosen
             <=> Cardinality(better) < K /\ ~Blocked(ranked[i], better, matrix)

(* An order goes out against the latest signal of its symbol only if a scan *)
(* ended between the entry's selection check and its order, or was not      *)
(* assigned yet: that window is the only one.  A shutdown in it saves its   *)
(* signals with the selection before them, and the window is open again     *)
(* from the start that restores them to that run's first assignment.        *)
EntryOnSignal ==
    [][held' \ held # {} /\ ~raced =>
         \A s \in held' \ held : signals[s] # None /\ Tradeable(signals[s])]_vars

(* Signal decay closes a position because a rerank saw its direction turn,  *)
(* or several reranks since its entry disagreed with it: one eviction, one  *)
(* weak or failed scan, a closed market or a re-entry never suffices.       *)
(* Except for a record of an earlier position of the symbol, which a start  *)
(* after a crash restores: the new position inherits its strikes.           *)
DecayDeserved ==
    [][closing = None /\ closing' # None =>
         LET s == closing' IN
         \/ signals[s] # None /\ Flipped(tp[s], signals[s])
         \/ doubts'[s] >= MaxStrikes \/ doubts'[s] >= MaxMisses
         \/ ~tp[s].own]_vars

(* A position that the selection does without, its market open, for good,   *)
(* leaves in the end, unless it has no record.                              *)
EvictedLeaves ==
    \A s \in Fillable :
      <>[](s \in open \ selected) => []<>(s \notin held \/ tp[s] = None)
===============================================================================
