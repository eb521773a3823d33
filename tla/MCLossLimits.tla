----------------------------- MODULE MCLossLimits -----------------------------
(* A day of one tick, a week of two, a month of three. *)
EXTENDS LossLimits

MCPnls == {-2, -1, 1}
MCWindows == {[span |-> 1, limit |-> 2], [span |-> 2, limit |-> 3], [span |-> 3, limit |-> 4]}
===============================================================================
