------------------------------ MODULE LossLimits ------------------------------
(***************************************************************************)
(* The loss ledger of the risk manager and the account-level gates that    *)
(* read it: rolling loss windows, the pause after consecutive losses and   *)
(* the order rate (src/src/bot/risk/risk_manager.py, loss_windows.py), fed *)
(* by SELL fills (core/event_wiring.py), saved by the heartbeat and loaded *)
(* at start (core/lifecycle.py).                                           *)
(*                                                                         *)
(* Times are ages in ticks.  An approved order is in flight until IG fills *)
(* or refuses it.  A SELL takes the position out of the risk manager       *)
(* first, awaits a Telegram alert, and records its result after that.      *)
(***************************************************************************)
EXTENDS Integers, Sequences, SequencesExt

CONSTANTS Symbols,     \* the EPICs traded
          Nil,        \* no order in flight, no result pending
          Pnls,        \* profits and losses of a closed position
          Windows,     \* the loss windows, records [span, limit]
          Hour,        \* span of the order rate, in ticks
          Month,       \* results older than this are pruned
          MaxOrders,   \* max_orders_per_hour
          Pause,       \* consecutive_loss_pause
          MaxOpen,     \* max_open_positions
          MaxResults   \* bound: results remembered at a time

ASSUME LimitsAssumption ==
    /\ Nil \notin Symbols /\ Pnls \subseteq Int
    /\ Hour \in Nat /\ Month \in Nat /\ MaxOrders \in Nat \ {0}
    /\ Pause \in Nat \ {0} /\ MaxOpen \in Nat \ {0} /\ MaxResults \in Nat
    /\ \A w \in Windows : w.span \in 0..Month /\ w.limit \in Nat \ {0}

VARIABLES results,     \* the bag of closes; "known" = in _trade_results,
                       \* "saved" = in the state file
          streak,      \* consecutive_losses
          savedStreak, \* the state file's
          approvals,   \* _orders_this_hour: ages of the orders approved
          ordering,    \* the symbol whose approved order is in flight, or Nil
          open,        \* _open_positions
          closing      \* per symbol: result of a SELL whose alert is awaited

limitsVars == <<results, streak, savedStreak, approvals, ordering, open, closing>>

LimitsInit ==
    /\ results = EmptyBag /\ streak = 0 /\ savedStreak = 0 /\ approvals = <<>>
    /\ ordering = Nil /\ open = {} /\ closing = [s \in Symbols |-> Nil]

---------------------------------------------------------------------------
(* The windows. *)

Total(rs) == MapThenSumSet(LAMBDA r : results[r] * r.pnl, rs)
Within(span) == {r \in BagToSet(results) : r.age <= span}
Known == {r \in BagToSet(results) : r.known}

\* Mutant: prune drops the results that are exactly a month old.
PrunedEarly(rs) == BagOfAll(LAMBDA r : [r EXCEPT !.known = @ /\ r.age < Month], rs)
\* prune: results older than a month leave the deque
Pruned(rs) == BagOfAll(LAMBDA r : [r EXCEPT !.known = @ /\ r.age <= Month], rs)

\* Mutant: the window has no lower edge.
AllTime(span) == Total(Known)
window_pnl(span) == Total(Known \cap Within(span))

\* What the closes come to, but for those the file lost (LimitsRestart).
ActualPnl(span) == Total(Within(span))

\* A result that is neither in the deque, nor saved, nor in any window is over.
Tidy(rs) ==
    Restrict(rs, {r \in BagToSet(rs) : r.known \/ r.saved \/ r.age <= Month})

Result(pnl) == [age |-> 0, pnl |-> pnl, known |-> TRUE, saved |-> FALSE]

record_close(pnl) ==
    /\ results' = Tidy(Pruned(results (+) SetToBag({Result(pnl)})))
    /\ streak' = IF pnl < 0 THEN streak + 1 ELSE 0

---------------------------------------------------------------------------
(* Orders. *)

LimitReached(w) == window_pnl(w.span) <= -w.limit

\* _common_entry_gates, the halt aside (EquityBreakers) and for positive equity
GatesPass ==
    /\ \A w \in Windows : ~LimitReached(w)
    /\ streak < Pause
    /\ Cardinality(open) < MaxOpen

InRate == Len(approvals) < MaxOrders

\* The entry lock admits one order at a time, for a symbol without a position.
Approve(s) ==
    /\ ordering = Nil
    /\ s \notin open /\ closing[s] = Nil
    /\ BagCardinality(results) + Cardinality(open) < MaxResults
    /\ GatesPass /\ InRate
    /\ approvals' = Append(approvals, 0)
    /\ ordering' = s
    /\ UNCHANGED <<results, streak, savedStreak, open, closing>>

Filled ==
    /\ ordering # Nil
    /\ open' = open \cup {ordering}
    /\ ordering' = Nil
    /\ UNCHANGED <<results, streak, savedStreak, approvals, closing>>

Refused ==
    /\ ordering # Nil
    /\ ordering' = Nil
    /\ UNCHANGED <<results, streak, savedStreak, approvals, open, closing>>

(* A SELL fill of the bot's own close: the position leaves first. *)
Sold(s, pnl) ==
    /\ s \in open
    /\ open' = open \ {s}
    /\ closing' = [closing EXCEPT ![s] = pnl]
    /\ UNCHANGED <<results, streak, savedStreak, approvals, ordering>>

\* ... and EVENT_POSITION_CLOSED follows the alert.
PositionClosed(s) ==
    /\ closing[s] # Nil
    /\ record_close(closing[s])
    /\ open' = open \ {s}
    /\ closing' = [closing EXCEPT ![s] = Nil]
    /\ UNCHANGED <<savedStreak, approvals, ordering>>

\* IG closed it; a reconcile drops the position, and no result is recorded.
Purged(s) ==
    /\ s \in open
    /\ open' = open \ {s}
    /\ UNCHANGED <<results, streak, savedStreak, approvals, ordering, closing>>

---------------------------------------------------------------------------
(* Persistence. *)

\* The heartbeat's snapshot prunes, then saves what is left.
Save ==
    /\ results' = Tidy(BagOfAll(LAMBDA r : [r EXCEPT !.saved = r.known], Pruned(results)))
    /\ savedStreak' = streak
    /\ UNCHANGED <<streak, approvals, ordering, open, closing>>

\* load_snapshot: the deque is the saved one
Loaded == BagOfAll(LAMBDA r : [r EXCEPT !.known = TRUE],
                   Restrict(results, {r \in BagToSet(results) : r.saved}))

\* A crash loses the results since the last save, the order rate and the
\* positions; a restart takes a pause at its threshold for acknowledged, and
\* its reconcile finds the positions that are still there.  A start that fails
\* in connect(), before the load, ends in a shutdown that saves its empty ledger
\* over the file; the next one loads that.
LimitsRestart ==
    /\ \E fails \in BOOLEAN :
         /\ results' = IF fails THEN EmptyBag ELSE Loaded
         /\ streak' = IF fails \/ savedStreak >= Pause THEN 0 ELSE savedStreak
    /\ savedStreak' = streak'
    /\ approvals' = <<>>
    /\ ordering' = Nil
    /\ closing' = [s \in Symbols |-> Nil]
    /\ open' \in SUBSET (open \cup ({ordering} \ {Nil}))

---------------------------------------------------------------------------

\* _prune_order_history: an order counts for an hour
Recent(ages) == SelectSeq(ages, LAMBDA a : a <= Hour)

Older(a, most) == IF a < most THEN a + 1 ELSE a

Tick ==
    /\ results' = Tidy(BagOfAll(LAMBDA r : [r EXCEPT !.age = Older(@, Month + 1)], results))
    /\ approvals' = Recent([i \in DOMAIN approvals |-> approvals[i] + 1])
    /\ UNCHANGED <<streak, savedStreak, ordering, open, closing>>

LimitsNext ==
    \/ \E s \in Symbols : Approve(s) \/ PositionClosed(s) \/ Purged(s)
    \/ \E s \in Symbols, pnl \in Pnls : Sold(s, pnl)
    \/ Filled \/ Refused \/ Save \/ LimitsRestart \/ Tick

\* Time passes, and an awaited alert ends.
LimitsFairness == WF_limitsVars(Tick) /\ \A s \in Symbols : WF_limitsVars(PositionClosed(s))

LimitsSpec == LimitsInit /\ [][LimitsNext]_limitsVars /\ LimitsFairness

---------------------------------------------------------------------------

Exceeded(w) == ActualPnl(w.span) <= -w.limit

(* No order is approved while the results the program was told of exceed a  *)
(* loss limit: pruning, the snapshot, the load at start and the windows'    *)
(* edges agree.  Two kinds of results are not counted, because the program  *)
(* has them nowhere: those not yet saved when it crashed, and all there     *)
(* were when a start failed before its load and saved over them.            *)
ApprovedWithinLimits ==
    [][ordering = Nil /\ ordering' # Nil => \A w \in Windows : ~Exceeded(w)]_limitsVars

(* A loss limit that was reached lifts as its losses age: the gate lets no  *)
(* new loss in meanwhile.                                                   *)
LimitsLift == \A w \in Windows : LimitReached(w) ~> ~LimitReached(w)

===============================================================================
