------------------------------ MODULE TakeProfit -------------------------------
(***************************************************************************)
(* The exits that follow the price of one held position: the stop loss     *)
(* (strategy/rerank_runner.py), and the breakeven stop, the ratcheted      *)
(* trail, the fixed target and the time limit of the take-profit manager   *)
(* (strategy/take_profit.py); how its record is registered after an entry, *)
(* dropped with a close, saved and restored (core/lifecycle.py).           *)
(*                                                                         *)
(* Prices and distances are levels on one grid, the stop distance an even  *)
(* number of them, so half of it is a level too; the breakeven buffer of   *)
(* 0.1% is less than a level.  Positions are independent of each other     *)
(* here.  The exits a rerank decides are module Rerank's.                  *)
(***************************************************************************)
EXTENDS Integers, FiniteSetsExt

CONSTANTS None,
          Prices,     \* levels a candle may close at
          Entries,    \* levels an entry may fill at
          Stop,       \* entry_stop_pct, in levels
          ScanStops,  \* stop distances the latest scan may hold
          Captures,   \* predicted gains, already times their capture fraction
          PeakBars,   \* predicted_peak_bar of a path signal, in ticks
          Grace,      \* time_post_peak_grace_hours
          PredLen,    \* pred_len * time_horizon_multiplier
          MaxRestarts \* bound: restarts

Plans == {[path |-> TRUE, bar |-> b] : b \in PeakBars} \cup {[path |-> FALSE, bar |-> 0]}

\* PositionTPState; the trail is None until a stage arms it
Records == [entry : Nat, peak : Nat, trail : Int \cup {None},
            armed : {"no", "breakeven", "trail"}, capture : Nat, plan : Plans, age : Nat]

ASSUME TakeProfitAssumption ==
    /\ Prices \subseteq Nat /\ Entries \subseteq Prices
    /\ Stop \in Nat \ {0} /\ Stop % 2 = 0
    /\ ScanStops \subseteq Nat \ {0} /\ Captures \subseteq Nat
    /\ PeakBars \subseteq Nat /\ {Grace, PredLen, MaxRestarts} \subseteq Nat
    /\ None \notin Int \cup Records

VARIABLES price,    \* the last evaluated candle close
          pos,      \* state.positions: the entry level, or None
          entering, \* the BUY is tracked, its registration still to come
          tp,       \* TakeProfitManager._positions: the record, or None
          saved,    \* BotState.take_profit_state, as every save writes it
          closing,  \* a close is awaited
          decision, \* of the last candle: "hold", "exit", or "none" yet
          best,     \* highest level evaluated since the registration
          sound,    \* tp is the position's record, and nothing was lost since
          restarts

vars == <<price, pos, entering, tp, saved, closing, decision, best, sound, restarts>>

MaxAge == Max({PredLen, Max(PeakBars) + Grace + 1})

Init ==
    /\ price \in Entries /\ pos = None /\ entering = FALSE /\ tp = None
    /\ saved = None /\ closing = FALSE /\ decision = "none" /\ best = price
    /\ sound = FALSE /\ restarts = 0

---------------------------------------------------------------------------
(* An entry: the fill is tracked, its alert awaited, the record registered. *)

Tracked(p) ==
    /\ pos = None /\ ~entering
    /\ pos' = p /\ price' = p /\ entering' = TRUE /\ decision' = "none"
    /\ sound' = FALSE
    /\ UNCHANGED <<tp, saved, closing, best, restarts>>

\* register_position, whatever became of the position meanwhile
Registered(p, capture, plan) ==
    /\ entering /\ (pos # None => p = pos)
    /\ tp' = [entry |-> p, peak |-> p, trail |-> None, armed |-> "no",
              capture |-> capture, plan |-> plan, age |-> 0]
    /\ entering' = FALSE /\ decision' = "none"
    /\ best' = p /\ sound' = (pos # None)
    /\ UNCHANGED <<price, pos, saved, closing, restarts>>

---------------------------------------------------------------------------
(* evaluate_price. *)

Higher(level, old) == IF old = None \/ level > old THEN level ELSE old

\* Mutant: the trail follows the price, not the peak.
RatchetPrice(r, p) == [r EXCEPT !.trail = p - Stop \div 2, !.armed = "trail"]
\* _check_trailing_stop, stage 2
Ratchet(r, p) ==
    [r EXCEPT !.trail = Higher(r.peak - Stop \div 2, r.trail), !.armed = "trail"]

\* stage 1
Breakeven(r, p) == [r EXCEPT !.trail = Higher(r.entry, r.trail), !.armed = "breakeven"]

Trailed(r, p) ==
    CASE p - r.entry >= 2 * Stop                    -> Ratchet(r, p)
      [] p - r.entry >= Stop /\ p - r.entry < 2 * Stop
           /\ r.armed = "no"                        -> Breakeven(r, p)
      [] OTHER                                      -> r

Peaked(r, p) == [r EXCEPT !.peak = IF p > r.peak THEN p ELSE r.peak]

StopHit(r, p) == r.trail # None /\ p <= r.trail

\* _check_static_take_profit, min_rr_multiplier = 1.5
Target(r) == r.entry + Max({r.capture, (3 * Stop) \div 2})

\* Mutant: a path signal's deadline is never tested.
DueUnlessPath(r) == ~r.plan.path /\ r.age >= PredLen
\* _check_time_exit
Due(r) == IF r.plan.path THEN r.age > r.plan.bar + Grace ELSE r.age >= PredLen

ExitAt(r, p) == StopHit(r, p) \/ p >= Target(r) \/ Due(r)

\* _handle_open_position: the stop loss of the latest scan, then the record.
\* A stop-loss candle returns before the record sees its price.
Candle(p, stop) ==
    /\ pos # None /\ ~closing
    /\ LET stopped == pos - p >= stop
           after   == Trailed(Peaked(tp, p), p)
           asks    == stopped \/ (tp # None /\ ExitAt(after, p))
       IN /\ price' = p
          /\ decision' = IF asks THEN "exit" ELSE "hold"
          /\ closing' = asks
          /\ tp' = IF stopped \/ tp = None THEN tp ELSE after
          /\ best' = IF p > best /\ ~stopped THEN p ELSE best
    /\ UNCHANGED <<pos, entering, saved, sound, restarts>>

---------------------------------------------------------------------------
(* Closes: request_close or the stop loss; a margin breaker's; IG's own.    *)

Gone ==
    /\ pos' = None /\ tp' = None /\ closing' = FALSE /\ sound' = FALSE
    /\ decision' = "none"
    /\ UNCHANGED <<price, entering, saved, best, restarts>>

Flatten ==
    /\ pos # None /\ ~closing /\ closing' = TRUE
    /\ UNCHANGED <<price, pos, entering, tp, saved, decision, best, sound, restarts>>

Closed == closing /\ Gone

\* deferred by IG, or failed with the position still there
NotClosed ==
    /\ closing /\ closing' = FALSE
    /\ UNCHANGED <<price, pos, entering, tp, saved, decision, best, sound, restarts>>

\* _purge_stale_position
Purged == pos # None /\ ~closing /\ Gone

---------------------------------------------------------------------------
(* Restarts. *)

\* TakeProfitManager.snapshot
Snapshot == tp

\* The saved record is restored, the reconcile at start drops a position IG
\* no longer has, and its record with it.
StartedFrom(record) ==
    /\ restarts < MaxRestarts /\ restarts' = restarts + 1
    /\ saved' = record
    /\ \/ pos' = pos /\ tp' = record
       \/ pos # None /\ pos' = None /\ tp' = None
    /\ entering' = FALSE /\ closing' = FALSE /\ decision' = "none"
    /\ UNCHANGED <<price, best>>

\* Lifecycle.shutdown snapshots the manager.
Shutdown == StartedFrom(Snapshot) /\ sound' = (sound /\ pos' # None)

\* A crash leaves what the last shutdown saved: the heartbeat saves positions
\* but not the manager, and may have missed the last position too.
Crash ==
    /\ \/ StartedFrom(saved)
       \/ /\ restarts < MaxRestarts /\ restarts' = restarts + 1
          /\ pos # None /\ pos' = None /\ tp' = saved
          /\ entering' = FALSE /\ closing' = FALSE /\ decision' = "none"
          /\ UNCHANGED <<price, best, saved>>
    /\ sound' = FALSE

\* Before a start whose connect raised there is nothing to restore yet, and its
\* shutdown saves that: the position and its record are forgotten.
StartFails ==
    /\ restarts < MaxRestarts /\ restarts' = restarts + 1
    /\ pos' = None /\ tp' = None /\ saved' = None /\ sound' = FALSE
    /\ entering' = FALSE /\ closing' = FALSE /\ decision' = "none"
    /\ UNCHANGED <<price, best>>

Aged(r) == IF r = None \/ r.age = MaxAge THEN r ELSE [r EXCEPT !.age = @ + 1]

Tick ==
    /\ {Aged(tp), Aged(saved)} # {tp, saved}
    /\ tp' = Aged(tp) /\ saved' = Aged(saved)
    /\ UNCHANGED <<price, pos, entering, closing, decision, best, sound, restarts>>

Next ==
    \/ \E p \in Entries : Tracked(p)
    \/ \E p \in Entries, c \in Captures, plan \in Plans : Registered(p, c, plan)
    \/ \E p \in Prices, stop \in ScanStops : Candle(p, stop)
    \/ Flatten \/ Closed \/ NotClosed \/ Purged \/ Shutdown \/ Crash \/ StartFails \/ Tick

\* Time passes, candles come, and IG does not refuse a close for ever.
Fairness ==
    /\ WF_vars(Tick)
    /\ WF_vars(\E p \in Prices, stop \in ScanStops : Candle(p, stop))
    /\ SF_vars(Closed) /\ WF_vars(NotClosed)

Spec == Init /\ [][Next]_vars /\ Fairness

---------------------------------------------------------------------------

\* What the best evaluated level since the entry must have locked in.
LockedIn ==
    CASE best - pos >= 2 * Stop -> best - Stop \div 2
      [] best - pos >= Stop /\ best - pos < 2 * Stop -> pos
      [] OTHER -> -1

(* A profit once seen is locked: no evaluation of a registered position     *)
(* decides to hold it at or below the level its best price locked in, over  *)
(* refused closes and graceful restarts.                                    *)
ProfitLocked == sound /\ decision = "hold" => price > LockedIn

(* A position with a record is closed in the end: the predicted peak and    *)
(* its grace, or the prediction horizon, pass.                              *)
Outlived == sound ~> ~sound

===============================================================================
