------------------------------- MODULE Exposure -------------------------------
(***************************************************************************)
(* The exposure caps: how an entry is sized (risk/sizing.py), which caps   *)
(* it passes (total and sector risk, margin: risk/risk_manager.py,         *)
(* risk/margin.py), what the size retry makes of the approved stake        *)
(* (execution/entry_executor.py), and the budgets the caps add up          *)
(* (risk/budgets.py), as fills, closes, trailing stops, reconciles and     *)
(* restarts change them.                                                   *)
(*                                                                         *)
(* Stakes, distances and amounts are small integers; percentages divide by *)
(* 100.  Which symbol is selected, drawdown tiers and the deals nobody     *)
(* tracks are other modules' (PositionLifecycle, EquityBreakers).          *)
(***************************************************************************)
EXTENDS Integers, FiniteSetsExt

CONSTANTS Symbols, None,
          Sector,          \* [Symbols -> sectors], risk/sectors.py
          Equities,        \* account equity as IG reports it
          Distances,       \* stop distances in points
          Slip,            \* slippage buffer in points
          RiskPct,         \* risk_per_trade_pct
          TotalPct,        \* max_total_risk_pct
          SectorPct,       \* max_sector_risk_pct
          SizingCap,       \* fscs_cap_gbp
          MarginPct,       \* max_margin_pct
          HaltPct,         \* margin_halt_ratio
          DefensivePct,    \* margin_defensive_ratio
          EmergencyPct,    \* margin_emergency_ratio
          FloorPct,        \* margin_liquidation_floor
          Rates,           \* margin per unit of stake, as the market moves
          MarginRate,      \* the program's estimate of it, ig_margin.py
          Grid,            \* IG's deal-size grid, in units of stake
          MinDeal,         \* IG's minimum deal size
          MaxOpen          \* max_open_positions

ASSUME ExposureAssumption ==
    /\ None \notin Symbols /\ IsFiniteSet(Symbols) /\ DOMAIN Sector = Symbols
    /\ Equities \cup Distances \cup Rates \cup {Grid} \subseteq Nat \ {0}
    /\ {Slip, RiskPct, TotalPct, SectorPct, SizingCap, MarginPct, HaltPct,
        DefensivePct, EmergencyPct, FloorPct, MarginRate, MinDeal, MaxOpen} \subseteq Nat

VARIABLES deal,     \* IG: the bot's deal per symbol, [stake, dist], or None
          lock,     \* points by which the trailing stop is above the first stop
          tracked,  \* state.positions
          open,     \* RiskManager._open_positions
          budget,   \* RiskBudgetLedger._budgets
          order,    \* the approved order in flight, or None
          breaker,  \* MarginCircuitBreaker._state
          blind     \* the reconcile at the last start failed, none succeeded since

vars == <<deal, lock, tracked, open, budget, order, breaker, blind>>

Live == {s \in Symbols : deal[s] # None}
Above0(n) == IF n > 0 THEN n ELSE 0

Init ==
    /\ deal = [s \in Symbols |-> None] /\ lock = [s \in Symbols |-> 0]
    /\ tracked = {} /\ open = {} /\ budget = [s \in Symbols |-> 0]
    /\ order = None /\ breaker = "normal" /\ blind = FALSE

---------------------------------------------------------------------------
(* Sizing and the gates. *)

Rounded(n, d) == (2 * n + d) \div (2 * d)

\* compute_ig_size on the equity equity_for_sizing leaves
compute_ig_size(equity, dist) ==
    Rounded((IF equity < SizingCap THEN equity ELSE SizingCap) * RiskPct,
            100 * (dist + Slip))

\* live_risk_gbp: the budget, shrunk by what the trailing stop has locked in
live_risk_gbp ==
    [s \in Symbols |-> IF deal[s] = None THEN budget[s]
                      ELSE Above0(budget[s] - lock[s] * deal[s].stake)]

OpenRisk(S) == SumFunctionOnSet(live_risk_gbp, open \cap S)
SectorOf(s) == {r \in Symbols : Sector[r] = Sector[s]}

\* Mutant: the proposed order is left out of the total.
OpenRiskOnly(s, risk, equity) == 100 * OpenRisk(Symbols) <= TotalPct * equity
\* _check_exposure_limits
ExposureAllows(s, risk, equity) ==
    /\ 100 * (OpenRisk(Symbols) + risk) <= TotalPct * equity
    /\ 100 * (OpenRisk(SectorOf(s)) + risk) <= SectorPct * equity

MarginUsed(rate) == SumFunction([s \in Live |-> deal[s].stake * rate])

\* _check_margin_limits
MarginAllows(stake, used, equity) ==
    /\ 100 * used < MarginPct * equity
    /\ breaker = "normal"
    /\ 100 * equity >= HaltPct * (used + stake * MarginRate)

\* evaluate_ig_order under the entry lock; the drawdown tier scales the stake,
\* and a stake under IG's minimum places no order.
Approve(s, equity, dist, rate, quarters) ==
    LET stake == compute_ig_size(equity, dist)
        scaled == (stake * quarters) \div 4
    IN /\ order = None /\ s \notin tracked /\ deal[s] = None
       /\ stake > 0
       /\ Cardinality(open) < MaxOpen
       /\ ExposureAllows(s, stake * dist, equity)
       /\ MarginAllows(stake, MarginUsed(rate), equity)
       /\ scaled >= MinDeal /\ scaled > 0
       /\ order' = [sym |-> s, stake |-> scaled, dist |-> dist,
                    equity |-> equity, blind |-> blind]  \* what the gates saw
       /\ UNCHANGED <<deal, lock, tracked, open, budget, breaker, blind>>

---------------------------------------------------------------------------
(* Fills and closes. *)

\* _snap_size_up_to_grid
SnapUp(stake) == ((stake + Grid - 1) \div Grid) * Grid

\* _execute_entry_order and on_fill: the budget, then the position.  IG may
\* have refused the stake for its size, and the retry placed the snapped one.
FilledWith(stake) ==
    LET s == order.sym
    IN /\ deal' = [deal EXCEPT ![s] = [stake |-> stake, dist |-> order.dist]]
       /\ lock' = [lock EXCEPT ![s] = 0]
       /\ budget' = [budget EXCEPT ![s] = stake * order.dist]
       /\ open' = open \cup {s} /\ tracked' = tracked \cup {s}
       /\ order' = None
       /\ UNCHANGED <<breaker, blind>>

Filled ==
    /\ order # None
    /\ \/ FilledWith(order.stake)
       \/ SnapUp(order.stake) > order.stake /\ FilledWith(SnapUp(order.stake))

Refused ==
    /\ order # None /\ order' = None
    /\ UNCHANGED <<deal, lock, tracked, open, budget, breaker, blind>>

\* TakeProfitManager raises the trailing stop of a position.
Ratchet(s) ==
    /\ s \in tracked /\ deal[s] # None /\ lock[s] <= deal[s].dist
    /\ lock' = [lock EXCEPT ![s] = @ + 1]
    /\ UNCHANGED <<deal, tracked, open, budget, order, breaker, blind>>

\* The SELL fill of the bot's close.
Closed(s) ==
    /\ s \in tracked /\ deal[s] # None
    /\ deal' = [deal EXCEPT ![s] = None]
    /\ lock' = [lock EXCEPT ![s] = 0]
    /\ tracked' = tracked \ {s} /\ open' = open \ {s}
    /\ budget' = [budget EXCEPT ![s] = 0]
    /\ UNCHANGED <<order, breaker, blind>>

\* IG closes a deal by itself: its stop, a roll-over, the portal.  A position
\* that a crash or a failed start forgets leaves this module the same way.
ClosedByIG(s) ==
    /\ deal[s] # None
    /\ deal' = [deal EXCEPT ![s] = None]
    /\ UNCHANGED <<lock, tracked, open, budget, order, breaker, blind>>

---------------------------------------------------------------------------
(* Reconciles and restarts. *)

\* Mutant: the matched positions are not seeded.
NotSeeded(matched) == open \cap matched
\* _reconcile_matched_position seeds every match; the purge drops the rest
Seeded(matched) == matched

Reconciled(budgets) ==
    LET matched == tracked \cap Live
    IN /\ open' = Seeded(matched)
       /\ tracked' = matched
       /\ budget' = [s \in Symbols |->
                       IF s \in matched THEN deal[s].stake * deal[s].dist ELSE 0]
       /\ lock' = [s \in Symbols |-> IF s \in matched THEN budgets[s] ELSE 0]
       /\ blind' = FALSE

Reconcile == Reconciled(lock) /\ UNCHANGED <<deal, order, breaker>>

\* A restart ends the entry and empties _open_positions; its reconcile may
\* fail.  Trailing stops survive a graceful shutdown, not a crash.
Restart ==
    /\ order' = None /\ breaker' = "normal" /\ UNCHANGED deal
    /\ \E locks \in {lock, [s \in Symbols |-> 0]} :
         \/ Reconciled(locks)
         \/ /\ open' = {} /\ blind' = TRUE /\ lock' = locks
            /\ UNCHANGED <<tracked, budget>>

---------------------------------------------------------------------------
(* The margin breaker. *)

\* MarginCircuitBreaker.classify, no margin required counting as infinite
classify(equity, margin) ==
    CASE 100 * equity > HaltPct * margin      -> "normal"
      [] 100 * equity > DefensivePct * margin -> "halt_entries"
      [] 100 * equity > EmergencyPct * margin -> "defensive_close"
      [] 100 * equity > FloorPct * margin     -> "emergency_flatten"
      [] OTHER                                -> "liquidation"

\* update, on a Lightstreamer ACCOUNT push (equity is positive here)
AccountPush(equity, rate) ==
    /\ breaker' = classify(equity, MarginUsed(rate))
    /\ UNCHANGED <<deal, lock, tracked, open, budget, order, blind>>

Next ==
    \/ \E s \in Symbols, e \in Equities, d \in Distances, r \in Rates, q \in {1, 2, 4} :
         Approve(s, e, d, r, q)
    \/ Filled \/ Refused
    \/ \E s \in Symbols : Ratchet(s) \/ Closed(s) \/ ClosedByIG(s)
    \/ Reconcile \/ Restart
    \/ \E e \in Equities, r \in Rates : AccountPush(e, r)

Spec == Init /\ [][Next]_vars

---------------------------------------------------------------------------
(* What a deal loses at most from its entry price when its stop, trailing  *)
(* or not, is hit.                                                         *)
AtRisk == [s \in Symbols |-> IF deal[s] = None THEN 0
                            ELSE deal[s].stake * Above0(deal[s].dist - lock[s])]

(* Unless the reconcile at the last start failed, the books count every     *)
(* tracked deal, at no less than what it has at risk, however fills,        *)
(* trailing stops, closes on either side and restarts interleave.           *)
BooksCoverDeals ==
    ~blind => \A s \in tracked \cap Live : s \in open /\ live_risk_gbp[s] >= AtRisk[s]

(* A fill leaves the tracked deals' risk within both caps of the equity its *)
(* approval saw, unless the books it saw were blind; the size retry, whose  *)
(* stake no gate sees again, exceeds them by less than one grid step.       *)
ExposureCapped ==
    [][order # None /\ order' = None /\ deal' # deal /\ ~order.blind =>
         LET Total(S) == SumFunctionOnSet(AtRisk', tracked' \cap S)
             slack == 100 * (Grid - 1) * order.dist
         IN /\ 100 * Total(Symbols) <= TotalPct * order.equity + slack
            /\ 100 * Total(SectorOf(order.sym)) <= SectorPct * order.equity + slack]_vars

===============================================================================
