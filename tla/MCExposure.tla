------------------------------ MODULE MCExposure ------------------------------
(* Two symbols share a sector, one has its own. *)
EXTENDS Exposure

CONSTANTS eurusd, gbpusd, gold
MCSymbols == {eurusd, gbpusd, gold}
MCSector == [s \in MCSymbols |-> IF s = gold THEN "metals" ELSE "fx_usd"]
===============================================================================
