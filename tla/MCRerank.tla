------------------------------- MODULE MCRerank -------------------------------
(* Two correlated FX pairs and a US share with hours of its own. *)
EXTENDS Rerank

CONSTANTS eurusd, gbpusd, aapl
MCSymbols == {eurusd, gbpusd, aapl}

Outcome(mean, conf, unc) == [mean |-> mean, conf |-> conf, unc |-> unc, calm |-> TRUE]
MCOutcomes ==
    [s \in MCSymbols |->
       IF s = aapl THEN {Outcome(1, 90, 4), Outcome(-1, 58, 1)}
       ELSE {Outcome(1, 100, 0)}]
\* Strikes short of their limits.
MCOldRecords == {[mean |-> 1, misses |-> 2, strikes |-> 1, own |-> FALSE]}
MCSessions == {MCSymbols, MCSymbols \ {aapl}}
MCMatrices == {{}, {{eurusd, gbpusd}}}
===============================================================================
