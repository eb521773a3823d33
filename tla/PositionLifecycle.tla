-------------------------- MODULE PositionLifecycle --------------------------
(***************************************************************************)
(* The life of a spread-bet position across the five books that describe   *)
(* it: IG's account, ctx.state.positions, ctx.ig_deal_ids, the risk        *)
(* manager's _open_positions with its budget ledger, and the take-profit   *)
(* manager.                                                                *)
(*                                                                         *)
(* The bot is one asyncio loop, so a task runs alone from one await to the *)
(* next: every action below is one such segment, and the program counters  *)
(* name the awaits.  Two awaits between which a task reads and writes      *)
(* nothing shared are one.  EventBus.emit starts its handlers in the next  *)
(* loop iteration; where what the handler does first and what its caller   *)
(* did last concern the same books they are one segment.  Tasks are the    *)
(* candle handlers (the EODHD and Twelve Data feeds start one with         *)
(* create_task per closed bar), the rerank loop and the handlers of        *)
(* margin-breaker events, which only IG's own feed gives rise to: what     *)
(* else that feed does to these books is in PositionStream.  A Position    *)
(* object is identified by the IG deal it was opened with; prices and      *)
(* stakes are abstracted away.                                             *)
(***************************************************************************)
EXTENDS Naturals, FiniteSets

CONSTANTS
    Symbols,      \* candle symbols; the EPIC map is a bijection (main.py)
    Deals,        \* IG dealIds the account may ever hand out: bounds entries
    DealSym,      \* the symbol a dealId belongs to
    CandleTasks,  \* concurrent EVENT_NEW_CANDLE handlers
    RerankTasks,  \* the rerank loop (at most one task in the program)
    MarginTasks,  \* concurrent EVENT_MARGIN_BREAKER handlers
    MaxOpen,      \* RiskConfig.max_open_positions
    None          \* Python's None, or an absent key

ASSUME DealSymAssumption == DealSym \in [Deals -> Symbols]
ASSUME NoneAssumption    == None \notin Deals \cup Symbols \cup CandleTasks
ASSUME TasksAssumption   == /\ CandleTasks \cap RerankTasks = {}
                            /\ CandleTasks \cap MarginTasks = {}
                            /\ RerankTasks \cap MarginTasks = {}
ASSUME MaxOpenAssumption == MaxOpen \in Nat

Tasks == CandleTasks \cup RerankTasks \cup MarginTasks

VARIABLES
    broker,     \* deals open on IG
    used,       \* deals IG ever opened
    positions,  \* ctx.state.positions
    dealIds,    \* ctx.ig_deal_ids
    openPos,    \* RiskManager._open_positions
    budget,     \* RiskBudgetLedger._budgets: the deal whose stop risk is booked
    tp,         \* TakeProfitManager._positions
    alerted,    \* ctx.alerted_orphan_deals
    signals,    \* symbols with a signal in ctx.topk_signals
    selected,   \* ctx.topk_selected
    lock,       \* holder of ctx.entry_lock
    pc,         \* the await each task is suspended at
    sym,        \* the symbol a task is entering or closing
    deal,       \* the deal a task is entering or closing
    sig,        \* topk_signal of the entry a task attempts is not None
    pnl,        \* handle_order_filled's pnl_for_event is not None
    todo,       \* symbols a rerank or margin handler has still to look at
    rec,        \* locals of reconcile_positions_with_ig
    back        \* where a task goes on when its close or reconcile returns

books == <<positions, dealIds, openPos, budget, tp>>
vars  == <<broker, used, positions, dealIds, openPos, budget, tp, alerted,
           signals, selected, lock, pc, sym, deal, sig, pnl, todo, rec, back>>

(***************************************************************************)
(* The awaits at which a task can be suspended.                            *)
(***************************************************************************)
LockedPC == {"balance", "market", "placing", "replacing", "confirming",
             "buyalert", "register", "entryfailed"}
ClosePC  == {"closing", "closeconfirm", "sellalert"}
RecPC    == {"recfetch", "recread", "orphanalert", "purging"}
PCs      == {"idle", "lockwait", "infer", "select", "marginalert", "next"}
              \cup LockedPC \cup ClosePC \cup RecPC

\* Awaits of an entry from the re-check under the lock until the position is
\* written to state.positions.
EnteringPC == LockedPC \ {"register", "entryfailed"}

Tracked == {s \in Symbols : positions[s] # None}
OpenCount == Cardinality({s \in Symbols : openPos[s] # None})

NoRec == [snap |-> {}, unclaimed |-> {}, live |-> {}, stale |-> {},
          sym |-> None, orphan |-> None]
RecType == [snap : SUBSET Deals, unclaimed : SUBSET Symbols,
            live : SUBSET Symbols, stale : SUBSET Symbols,
            sym : Symbols \cup {None}, orphan : Deals \cup {None}]

\* A symbol's entry in every book belongs to that symbol.
Book == {f \in [Symbols -> Deals \cup {None}] :
           \A s \in Symbols : f[s] # None => DealSym[f[s]] = s}

TypeOK ==
    /\ broker \subseteq used /\ used \subseteq Deals /\ alerted \subseteq used
    /\ positions \in Book /\ dealIds \in Book /\ openPos \in Book
    /\ budget \in Book /\ tp \in Book
    /\ signals \subseteq Symbols /\ selected \subseteq Symbols
    /\ lock \in CandleTasks \cup {None}
    /\ pc \in [Tasks -> PCs]
    /\ sym \in [Tasks -> Symbols \cup {None}]
    /\ deal \in [Tasks -> Deals \cup {None}]
    /\ sig \in [Tasks -> BOOLEAN] /\ pnl \in [Tasks -> BOOLEAN]
    /\ todo \in [Tasks -> SUBSET Symbols]
    /\ rec \in [Tasks -> RecType]
    /\ back \in [Tasks -> {"idle", "infer", "next"}]

\* The account, the books and the tasks right after a start without positions:
\* a selection scanned at most four hours ago may have been restored, with the
\* signals of its scan.
Init ==
    /\ broker = {} /\ used = {} /\ alerted = {}
    /\ positions = [s \in Symbols |-> None]
    /\ dealIds = [s \in Symbols |-> None]
    /\ openPos = [s \in Symbols |-> None]
    /\ budget = [s \in Symbols |-> None]
    /\ tp = [s \in Symbols |-> None]
    /\ signals \in SUBSET Symbols /\ selected \in SUBSET signals
    /\ lock = None
    /\ pc = [t \in Tasks |-> "idle"]
    /\ sym = [t \in Tasks |-> None]
    /\ deal = [t \in Tasks |-> None]
    /\ sig = [t \in Tasks |-> FALSE] /\ pnl = [t \in Tasks |-> FALSE]
    /\ todo = [t \in Tasks |-> {}]
    /\ rec = [t \in Tasks |-> NoRec]
    /\ back = [t \in Tasks |-> "idle"]

Goto(t, l) == pc' = [pc EXCEPT ![t] = l]

(***************************************************************************)
(* Entry: EntryExecutor.maybe_enter and what it calls.                     *)
(***************************************************************************)

\* The gate in front of the lock.  _topk_scanned is implied by a selection;
\* the trading hours may refuse, and then the handler just returns.
MaybeEnter(c, s) ==
    /\ pc[c] = "idle" /\ positions[s] = None /\ s \in selected
    /\ Goto(c, "lockwait")
    /\ sym' = [sym EXCEPT ![c] = s]
    /\ UNCHANGED <<broker, used, books, alerted, signals, selected, lock,
                   deal, sig, pnl, todo, rec, back>>

\* A task is done with the entry: locals go, and the lock if it holds it.
LeaveEntry(c) ==
    /\ Goto(c, "idle")
    /\ lock' = None
    /\ sym' = [sym EXCEPT ![c] = None]
    /\ deal' = [deal EXCEPT ![c] = None]
    /\ sig' = [sig EXCEPT ![c] = FALSE]

\* Mutant: the position is not re-checked under the lock.
LockAcquiredUnchecked(c) ==
    /\ pc[c] = "lockwait" /\ lock = None
    /\ Goto(c, "balance") /\ lock' = c
    /\ UNCHANGED <<broker, used, books, alerted, signals, selected, sym, deal,
                   sig, pnl, todo, rec, back>>

\* The lock is free: re-check the position and the selection under it, then
\* await the balance.
LockAcquired(c) ==
    /\ pc[c] = "lockwait" /\ lock = None
    /\ IF positions[sym[c]] = None /\ sym[c] \in selected
         THEN /\ Goto(c, "balance") /\ lock' = c
              /\ UNCHANGED <<sym, deal, sig>>
         ELSE LeaveEntry(c)
    /\ UNCHANGED <<broker, used, books, alerted, signals, selected, pnl, todo,
                   rec, back>>

\* The balance is here: the signal lookup, the stop, the size, the margin gate
\* and the spread check run without an await.  An order within the position cap
\* may still be refused by the other gates; one over it always is.
GatePassed(c) ==
    /\ pc[c] = "balance" /\ OpenCount < MaxOpen
    /\ sig' = [sig EXCEPT ![c] = sym[c] \in signals]
    /\ Goto(c, "market")
    /\ UNCHANGED <<broker, used, books, alerted, signals, selected, lock, sym,
                   deal, pnl, todo, rec, back>>

\* The entry is given up without an order: no balance, a refusing gate, a
\* market that is not TRADEABLE, a stake under IG's minimum.
EntrySkipped(c) ==
    /\ pc[c] \in {"balance", "market"}
    /\ LeaveEntry(c)
    /\ UNCHANGED <<broker, used, books, alerted, signals, selected, pnl, todo,
                   rec, back>>

\* require_tradeable returned: POST the order.
PlaceOrder(c) ==
    /\ pc[c] = "market"
    /\ Goto(c, "placing")
    /\ UNCHANGED <<broker, used, books, alerted, signals, selected, lock, sym,
                   deal, sig, pnl, todo, rec, back>>

\* IG opens the deal while the bot awaits place_order and confirm_order.
IGOpens(c) ==
    /\ pc[c] \in {"placing", "replacing"}
    /\ \E d \in Deals \ used :
         /\ DealSym[d] = sym[c]
         /\ broker' = broker \cup {d} /\ used' = used \cup {d}
         /\ deal' = [deal EXCEPT ![c] = d]
    /\ Goto(c, "confirming")
    /\ UNCHANGED <<books, alerted, signals, selected, lock, sym, sig, pnl,
                   todo, rec, back>>

\* A SIZE_INCREMENT reject: the stake is snapped up to the grid and the order
\* placed once more.
SizeRetry(c) ==
    /\ pc[c] = "placing"
    /\ Goto(c, "replacing")
    /\ UNCHANGED <<broker, used, books, alerted, signals, selected, lock, sym,
                   deal, sig, pnl, todo, rec, back>>

\* Mutant: the lock is released before the failure alert as well as after it.
EntryRaisesUnlocked(c) ==
    /\ pc[c] \in {"market", "placing", "replacing", "confirming"}
    /\ Goto(c, "entryfailed") /\ lock' = None
    /\ deal' = [deal EXCEPT ![c] = None]
    /\ UNCHANGED <<broker, used, books, alerted, signals, selected, sym, sig,
                   pnl, todo, rec, back>>

\* The market check, place_order or confirm_order raised: a reject, or, once IG
\* has opened the deal, a lost acknowledgement or a confirm that stayed
\* deal-not-found.  The bot only alerts; a deal that did open is an orphan.
EntryRaises(c) ==
    /\ pc[c] \in {"market", "placing", "replacing", "confirming"}
    /\ Goto(c, "entryfailed")
    /\ deal' = [deal EXCEPT ![c] = None]
    /\ UNCHANGED <<broker, used, books, alerted, signals, selected, lock, sym,
                   sig, pnl, todo, rec, back>>

\* Mutant: a failed entry keeps the lock.
EntryFailedLocked(c) ==
    /\ pc[c] = "entryfailed"
    /\ Goto(c, "idle")
    /\ UNCHANGED <<broker, used, books, alerted, signals, selected, lock, sym,
                   deal, sig, pnl, todo, rec, back>>

\* The failure alert is out.
EntryFailed(c) ==
    /\ pc[c] = "entryfailed"
    /\ LeaveEntry(c)
    /\ UNCHANGED <<broker, used, books, alerted, signals, selected, pnl, todo,
                   rec, back>>

\* The fill is confirmed: deal id and risk budget are recorded, and
\* handle_order_filled runs on_fill before it awaits the trade alert.
EntryConfirmed(c) ==
    /\ pc[c] = "confirming"
    /\ dealIds' = [dealIds EXCEPT ![sym[c]] = deal[c]]
    /\ budget' = [budget EXCEPT ![sym[c]] = deal[c]]
    /\ openPos' = [openPos EXCEPT ![sym[c]] = deal[c]]
    /\ Goto(c, "buyalert")
    /\ UNCHANGED <<broker, used, positions, tp, alerted, signals, selected,
                   lock, sym, deal, sig, pnl, todo, rec, back>>

\* The trade alert is out: handle_order_filled writes state.positions; emit's
\* gather returns to the entry some loop iterations later.
EntryTracked(c) ==
    /\ pc[c] = "buyalert"
    /\ positions' = [positions EXCEPT ![sym[c]] = deal[c]]
    /\ Goto(c, "register")
    /\ UNCHANGED <<broker, used, dealIds, openPos, budget, tp, alerted, signals,
                   selected, lock, sym, deal, sig, pnl, todo, rec, back>>

\* Take-profit tracking starts if the symbol had a signal when the attempt
\* began, and the lock is released.
EntryDone(c) ==
    /\ pc[c] = "register"
    /\ tp' = IF sig[c] THEN [tp EXCEPT ![sym[c]] = deal[c]] ELSE tp
    /\ LeaveEntry(c)
    /\ UNCHANGED <<broker, used, positions, dealIds, openPos, budget, alerted,
                   signals, selected, pnl, todo, rec, back>>

(***************************************************************************)
(* Closing: close_ig_position, and request_close or _handle_open_position  *)
(* around it.                                                              *)
(***************************************************************************)

\* A task decides to close the tracked symbol s and goes on at `ret' once that
\* has returned.  Without a deal id the close fails at once, and every failed
\* close is followed by a reconcile.
StartClose(t, s, ret) ==
    /\ positions[s] # None
    /\ Goto(t, IF dealIds[s] = None THEN "recfetch" ELSE "closing")
    /\ sym' = [sym EXCEPT ![t] = s]
    /\ deal' = [deal EXCEPT ![t] = dealIds[s]]
    /\ back' = [back EXCEPT ![t] = ret]

\* The close or the reconcile has returned to its caller.
Return(t) ==
    /\ Goto(t, back[t])
    /\ sym' = [sym EXCEPT ![t] = None]
    /\ deal' = [deal EXCEPT ![t] = None]
    /\ pnl' = [pnl EXCEPT ![t] = FALSE]
    /\ rec' = [rec EXCEPT ![t] = NoRec]
    /\ back' = [back EXCEPT ![t] = "idle"]

\* A confirmed candle on a tracked symbol breaches the stop or an exit level.
CandleExit(c, s) ==
    /\ pc[c] = "idle" /\ StartClose(c, s, "idle")
    /\ UNCHANGED <<broker, used, books, alerted, signals, selected, lock, sig,
                   pnl, todo, rec>>

\* IG closes the deal; the confirm is still to come.
IGCloses(t) ==
    /\ pc[t] = "closing" /\ deal[t] \in broker
    /\ broker' = broker \ {deal[t]}
    /\ Goto(t, "closeconfirm")
    /\ UNCHANGED <<used, books, alerted, signals, selected, lock, sym, deal,
                   sig, pnl, todo, rec, back>>

\* IG defers the close (MarketClosedError): every book is left as it is.
CloseDeferred(t) ==
    /\ pc[t] = "closing" /\ deal[t] \in broker
    /\ Return(t)
    /\ UNCHANGED <<broker, used, books, alerted, signals, selected, lock, sig,
                   todo>>

\* The close failed, or it was done but the answer or its confirm was lost:
\* handle_close_failure reconciles.
CloseFails(t) ==
    /\ pc[t] \in {"closing", "closeconfirm"}
    /\ Goto(t, "recfetch")
    /\ deal' = [deal EXCEPT ![t] = None]
    /\ UNCHANGED <<broker, used, books, alerted, signals, selected, lock, sym,
                   sig, pnl, todo, rec, back>>

\* The close is confirmed: the deal id goes, and handle_order_filled computes
\* the P&L from the risk manager's position and runs on_fill before it awaits
\* the trade alert.
CloseConfirmed(t) ==
    /\ pc[t] = "closeconfirm"
    /\ dealIds' = [dealIds EXCEPT ![sym[t]] = None]
    /\ pnl' = [pnl EXCEPT ![t] = openPos[sym[t]] # None]
    /\ openPos' = [openPos EXCEPT ![sym[t]] = None]
    /\ budget' = [budget EXCEPT ![sym[t]] = None]
    /\ Goto(t, "sellalert")
    /\ UNCHANGED <<broker, used, positions, tp, alerted, signals, selected,
                   lock, sym, deal, sig, todo, rec, back>>

\* The trade alert is out: the symbol leaves state.positions, on_position_closed
\* records the P&L and pops the risk manager's entry once more, and the caller
\* ends take-profit tracking.
CloseRecorded(t) ==
    /\ pc[t] = "sellalert"
    /\ positions' = [positions EXCEPT ![sym[t]] = None]
    /\ openPos' = IF pnl[t] THEN [openPos EXCEPT ![sym[t]] = None] ELSE openPos
    /\ tp' = [tp EXCEPT ![sym[t]] = None]
    /\ Return(t)
    /\ UNCHANGED <<broker, used, dealIds, budget, alerted, signals, selected,
                   lock, sig, todo>>

(***************************************************************************)
(* reconcile_positions_with_ig: at every rerank and after a failed close,  *)
(* without the entry lock.                                                 *)
(***************************************************************************)

\* IG answers GET /positions with the account as it is now; the bot reads the
\* answer later.
IGListsPositions(t) ==
    /\ pc[t] = "recfetch"
    /\ rec' = [rec EXCEPT ![t].snap = broker]
    /\ Goto(t, "recread")
    /\ UNCHANGED <<broker, used, books, alerted, signals, selected, lock, sym,
                   deal, sig, pnl, todo, back>>

\* The request failed: the reconcile is given up.
FetchFails(t) ==
    /\ pc[t] = "recfetch"
    /\ Return(t)
    /\ UNCHANGED <<broker, used, books, alerted, signals, selected, lock, sig,
                   todo>>

\* Mutant: the reconcile looks for orphans only.
PurgeNothing(t, left) == Return(t)

\* Purge one of the symbols in `left': the position is read, then its summary
\* and alert are awaited.  A position gone meanwhile is a KeyError that ends
\* the whole reconcile, and so does an empty list end it.
PurgeNext(t, left) ==
    \/ \E s \in left :
         /\ positions[s] # None
         /\ rec' = [rec EXCEPT ![t] = [NoRec EXCEPT !.stale = left \ {s},
                                                    !.sym = s]]
         /\ Goto(t, "purging")
         /\ UNCHANGED <<sym, deal, pnl, back>>
    \/ /\ left = {} \/ \E s \in left : positions[s] = None
       /\ Return(t)

\* The orphans alerted about once the alert awaited is out, and the symbols
\* whose position no entry of the list has claimed yet.
Told(t) == alerted \cup ({rec[t].orphan} \ {None})
Unclaimed(t) == IF pc[t] = "recread" THEN Tracked ELSE rec[t].unclaimed

\* Mutant: the deal id of some matched entry, not of the symbol's own.
MatchAny(matched) ==
    /\ dealIds' = [s \in Symbols |-> IF matched # {} THEN CHOOSE d \in matched : TRUE
                                                    ELSE dealIds[s]]
    /\ UNCHANGED <<openPos, budget>>

\* Entries `matched' of the list give their symbol its deal id, and re-seed the
\* risk manager with its position and its budget.
Match(matched) ==
    LET Of(s) == CHOOSE d \in matched : DealSym[d] = s
        mine == {DealSym[d] : d \in matched}
    IN /\ dealIds' = [s \in Symbols |-> IF s \in mine THEN Of(s) ELSE dealIds[s]]
       /\ openPos' = [s \in Symbols |->
                        IF s \in mine THEN positions[s] ELSE openPos[s]]
       /\ budget' = [s \in Symbols |-> IF s \in mine THEN Of(s) ELSE budget[s]]

\* The entry o starts an orphan alert; the rest of the list waits for it.
AlertOrphan(t, o, seen, mine) ==
    /\ rec' = [rec EXCEPT ![t] =
         [rec[t] EXCEPT !.snap = rec[t].snap \ (seen \cup {o}),
                        !.unclaimed = Unclaimed(t) \ mine,
                        !.live = rec[t].live \cup mine, !.orphan = o]]
    /\ Goto(t, "orphanalert")
    /\ UNCHANGED <<sym, deal, pnl, back>>

\* One run of the loop over IG's positions, from an await to the next.  Entries
\* are looked at in any order: `matched' are claimed by the local position of
\* their symbol, the other entries in `seen' were alerted about before, and the
\* run ends at an orphan to alert about or at the end of the list.
ScanRun(t, seen, matched) ==
    LET mine == {DealSym[d] : d \in matched}
        open == (Unclaimed(t) \ mine) \cap Tracked
    IN
    /\ mine \subseteq Unclaimed(t) \cap Tracked
    /\ Cardinality(mine) = Cardinality(matched)
    /\ \A d \in seen \ matched : DealSym[d] \notin open /\ d \in Told(t)
    /\ Match(matched)
    /\ alerted' = Told(t)
    /\ \/ \E o \in rec[t].snap \ seen :
            /\ DealSym[o] \notin open /\ o \notin Told(t)
            /\ AlertOrphan(t, o, seen, mine)
       \/ /\ seen = rec[t].snap
          /\ PurgeNext(t, Tracked \ (rec[t].live \cup mine))

RecScan(t) ==
    /\ pc[t] \in {"recread", "orphanalert"}
    /\ \E seen \in SUBSET rec[t].snap : \E matched \in SUBSET seen :
         ScanRun(t, seen, matched)
    /\ UNCHANGED <<broker, used, positions, tp, signals, selected, lock, sig,
                   todo>>

\* The external-close alert is out: the symbol leaves every book, whichever
\* position it holds by now; a symbol gone meanwhile is a KeyError.
PurgeEnd(t) ==
    /\ pc[t] = "purging"
    /\ LET s == rec[t].sym IN
         IF positions[s] = None
           THEN Return(t) /\ UNCHANGED books
           ELSE /\ positions' = [positions EXCEPT ![s] = None]
                /\ openPos' = [openPos EXCEPT ![s] = None]
                /\ budget' = [budget EXCEPT ![s] = None]
                /\ dealIds' = [dealIds EXCEPT ![s] = None]
                /\ tp' = [tp EXCEPT ![s] = None]
                /\ PurgeNext(t, rec[t].stale)
    /\ UNCHANGED <<broker, used, alerted, signals, selected, lock, sig, todo>>

(***************************************************************************)
(* The rerank loop and the margin breaker.                                 *)
(***************************************************************************)

\* Mutant: the rerank does not reconcile first.
RerankBlind(r) ==
    /\ pc[r] = "idle"
    /\ Goto(r, "infer")
    /\ UNCHANGED <<broker, used, books, alerted, signals, selected, lock, sym,
                   deal, sig, pnl, todo, rec, back>>

\* _run_rerank_once starts with a reconcile.
RerankStart(r) ==
    /\ pc[r] = "idle"
    /\ Goto(r, "recfetch")
    /\ back' = [back EXCEPT ![r] = "infer"]
    /\ UNCHANGED <<broker, used, books, alerted, signals, selected, lock, sym,
                   deal, sig, pnl, todo, rec>>

\* The scan is done: topk_signals is replaced and the candidates are picked;
\* the correlation write is awaited.
RerankInference(r) ==
    /\ pc[r] = "infer"
    /\ signals' \in SUBSET Symbols
    /\ Goto(r, "select")
    /\ UNCHANGED <<broker, used, books, alerted, selected, lock, sym, deal, sig,
                   pnl, todo, rec, back>>

\* topk_selected is replaced, and the decay exits list every position open now.
\* (The code looks at the first of them without another await; request_close
\* reads each position again, so taking one here changes nothing.)
RerankSelect(r) ==
    /\ pc[r] = "select"
    /\ selected' \in SUBSET signals
    /\ todo' = [todo EXCEPT ![r] = Tracked]
    /\ Goto(r, "next")
    /\ UNCHANGED <<broker, used, books, alerted, signals, lock, sym, deal, sig,
                   pnl, rec, back>>

\* A margin-breaker event arrives: its alert comes first.
MarginEvent(m) ==
    /\ pc[m] = "idle"
    /\ Goto(m, "marginalert")
    /\ UNCHANGED <<broker, used, books, alerted, signals, selected, lock, sym,
                   deal, sig, pnl, todo, rec, back>>

\* flatten takes every open position, close_worst one that has a price;
\* halt_entries and liquidation_alert take none.
MarginAction(m) ==
    /\ pc[m] = "marginalert"
    /\ \E S \in {{}, Tracked} \cup {{s} : s \in Tracked} :
         todo' = [todo EXCEPT ![m] = S]
    /\ Goto(m, "next")
    /\ UNCHANGED <<broker, used, books, alerted, signals, selected, lock, sym,
                   deal, sig, pnl, rec, back>>

\* The next symbol of the list.  The margin breaker closes each; the rerank
\* those with take-profit state whose signal decayed.  request_close does
\* nothing for a symbol closed meanwhile.
CloseNext(t) ==
    /\ pc[t] = "next"
    /\ \E s \in todo[t] :
         /\ t \in RerankTasks => tp[s] # None
         /\ StartClose(t, s, "next")
         /\ todo' = [todo EXCEPT ![t] = @ \ {s}]
    /\ UNCHANGED <<broker, used, books, alerted, signals, selected, lock, sig,
                   pnl, rec>>

\* The rest of the list needs no close.
ListDone(t) ==
    /\ pc[t] = "next"
    /\ t \in MarginTasks => todo[t] \cap Tracked = {}
    /\ todo' = [todo EXCEPT ![t] = {}]
    /\ Goto(t, "idle")
    /\ UNCHANGED <<broker, used, books, alerted, signals, selected, lock, sym,
                   deal, sig, pnl, rec, back>>

\* IG closes a deal by itself: server-side stop, rollover, or by hand.
ExternalClose(d) ==
    /\ d \in broker
    /\ broker' = broker \ {d}
    /\ UNCHANGED <<used, books, alerted, signals, selected, lock, pc, sym, deal,
                   sig, pnl, todo, rec, back>>

EntryStep(c) ==
    \/ LockAcquired(c) \/ GatePassed(c) \/ EntrySkipped(c) \/ PlaceOrder(c)
    \/ IGOpens(c) \/ SizeRetry(c) \/ EntryRaises(c) \/ EntryFailed(c)
    \/ EntryConfirmed(c) \/ EntryTracked(c) \/ EntryDone(c)

CloseStep(t) ==
    \/ IGCloses(t) \/ CloseDeferred(t) \/ CloseFails(t) \/ CloseConfirmed(t)
    \/ CloseRecorded(t) \/ IGListsPositions(t) \/ FetchFails(t) \/ RecScan(t)
    \/ PurgeEnd(t)

ListStep(t) == CloseNext(t) \/ ListDone(t)

Next ==
    \/ \E c \in CandleTasks :
         \/ \E s \in Symbols : MaybeEnter(c, s) \/ CandleExit(c, s)
         \/ EntryStep(c)
    \/ \E t \in Tasks : CloseStep(t)
    \/ \E t \in RerankTasks \cup MarginTasks : ListStep(t)
    \/ \E r \in RerankTasks :
         RerankStart(r) \/ RerankInference(r) \/ RerankSelect(r)
    \/ \E m \in MarginTasks : MarginEvent(m) \/ MarginAction(m)
    \/ \E d \in Deals : ExternalClose(d)

Spec == Init /\ [][Next]_vars

(***************************************************************************)
(* Fairness.  Every await ends: REST calls and alerts have timeouts, and   *)
(* the tasks never cancel each other.  The rerank's hourly GET /positions  *)
(* succeeds now and then.  Nothing obliges the market to breach a stop, IG *)
(* to close a deal, or the margin ratio to move.                           *)
(***************************************************************************)
Fairness ==
    /\ \A c \in CandleTasks : WF_vars(EntryStep(c))
    /\ \A t \in Tasks : WF_vars(CloseStep(t))
    /\ \A t \in RerankTasks \cup MarginTasks : WF_vars(ListStep(t))
    /\ \A r \in RerankTasks :
         /\ WF_vars(RerankStart(r) \/ RerankInference(r) \/ RerankSelect(r))
         /\ SF_vars(IGListsPositions(r))
    /\ \A m \in MarginTasks : WF_vars(MarginAction(m))

FairSpec == Spec /\ Fairness

-----------------------------------------------------------------------------
\* While a task enters a symbol, from the re-check under the lock until the
\* position is written, it alone holds entry_lock and the symbol has no
\* position: no second order for it can be on its way (maybe_enter's
\* double-entry guard).
EntryGuard ==
    \A c \in CandleTasks : pc[c] \in EnteringPC =>
        lock = c /\ positions[sym[c]] = None

\* The symbol being entered, as the abstract specification sees it.
Entering == IF lock # None /\ pc[lock] \in EnteringPC THEN sym[lock] ELSE None

Serial == INSTANCE SerialEntry WITH held <- positions, entry <- Entering

\* The lock, the gates and the fill handler together implement serial entries,
\* whatever reconciles, closes and margin handlers do meanwhile.
ImplementsSerialEntry == Serial!Spec

\* A deal left open on IG that no local position stands for (its confirm was
\* lost, or its position was purged) does not stay unnoticed: it is closed,
\* alerted about, or its symbol is tracked again.
OrphanSurfaces ==
    \A d \in Deals :
        d \in broker /\ positions[DealSym[d]] = None
          ~> d \notin broker \/ d \in alerted \/ positions[DealSym[d]] # None

\* A position IG closed by itself (server-side stop, rollover) is purged unless
\* another deal of the symbol is open.
GhostPurged ==
    \A s \in Symbols :
        LET Live == \E d \in broker : DealSym[d] = s IN
        positions[s] # None /\ ~Live ~> positions[s] = None \/ Live

\* No entry keeps the lock for ever, however its order ends.
EntryLockReleased == \A c \in CandleTasks : lock = c ~> lock # c

=============================================================================
