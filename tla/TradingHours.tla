---------------------------- MODULE TradingHours ----------------------------
(***************************************************************************)
(* trading_hours.py: when a market is open, when an entry is safe, and     *)
(* when IG's account marks are not to be trusted.  Time is UTC in minutes  *)
(* from some Monday 00:00; Holidays are days counted from there.           *)
(***************************************************************************)
EXTENDS Naturals

CONSTANT Holidays  \* _US_EQUITY_HOLIDAYS

ASSUME HolidaysAssumption == Holidays \subseteq Nat

Categories == {"forex", "metals", "us_equity", "other"}

day(m)     == m \div 1440
weekday(m) == (day(m) % 7) + 1    \* Mon=1 ... Sun=7
hm(m)      == m % 1440            \* minutes since midnight
at(h, min) == 60 * h + min

forex_open(m) ==
    \/ weekday(m) = 7 /\ hm(m) >= at(21, 0)
    \/ weekday(m) = 5 /\ hm(m) < at(21, 0)
    \/ weekday(m) \in 1..4

metals_open(m) ==
    \/ weekday(m) = 7 /\ hm(m) >= at(23, 0)
    \/ weekday(m) = 5 /\ hm(m) < at(22, 0)
    \/ weekday(m) \in 1..4 /\ ~(at(22, 0) <= hm(m) /\ hm(m) < at(23, 0))

us_equity_open(m) ==
    /\ weekday(m) < 6 /\ day(m) \notin Holidays
    /\ at(14, 30) <= hm(m) /\ hm(m) < at(21, 0)

\* A symbol in none of the schedules counts as always open.
is_market_open(category, m) ==
    \/ category = "forex" /\ forex_open(m)
    \/ category = "metals" /\ metals_open(m)
    \/ category = "us_equity" /\ us_equity_open(m)
    \/ category = "other"

\* Entries keep clear of the funding tick and of the metals' maintenance.
is_safe_for_entry(category, m) ==
    /\ is_market_open(category, m)
    /\ category = "forex" => ~(at(21, 50) <= hm(m) /\ hm(m) < at(22, 10))
    /\ category = "metals" => ~(at(21, 55) <= hm(m) /\ hm(m) <= at(23, 5))

in_equity_mark_blackout(m) == at(21, 50) <= hm(m) /\ hm(m) <= at(23, 5)
=============================================================================
