---------------------------- MODULE MCCandleFeed ----------------------------
(***************************************************************************)
(* Constants of the CandleFeed runs: in hour 1 the first trade is late,    *)
(* hour 2 is closed, and nothing trades in hour 3.                         *)
(***************************************************************************)
EXTENDS CandleFeed

OpenInstants   == {i \in 0..MaxNow : Hour(i) # 2}
TradedInstants == {i \in OpenInstants : i # Slots /\ Hour(i) # 3}
=============================================================================
