--------------------------- MODULE MCSignalHistory ---------------------------
(* Gold, which every agent knows, and a US share whose market stays closed. *)
EXTENDS SignalHistory

CONSTANTS gold, aapl
MCAssets == {gold, aapl}
MCTrading == [a \in MCAssets |-> IF a = gold THEN 1..9 ELSE {}]
===============================================================================
