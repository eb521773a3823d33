----------------------------- MODULE SerialEntry -----------------------------
(***************************************************************************)
(* What the entry lock promises about state.positions: entries happen one  *)
(* at a time, only for symbols without a position, and a position that is  *)
(* held is given up before the symbol holds another one.                   *)
(***************************************************************************)
CONSTANTS Symbols, Deals, DealSym, None

VARIABLES
    held,    \* the position of each symbol
    entry    \* the symbol being entered

Init == held = [s \in Symbols |-> None] /\ entry = None

Begin(s) ==
    /\ entry = None /\ held[s] = None
    /\ entry' = s /\ UNCHANGED held

Abandon ==
    /\ entry # None
    /\ entry' = None /\ UNCHANGED held

Fill(d) ==
    /\ entry = DealSym[d] /\ held[entry] = None
    /\ held' = [held EXCEPT ![entry] = d]
    /\ entry' = None

Release(s) ==
    /\ held[s] # None
    /\ held' = [held EXCEPT ![s] = None]
    /\ UNCHANGED entry

Next == \/ \E s \in Symbols : Begin(s) \/ Release(s)
        \/ Abandon
        \/ \E d \in Deals : Fill(d)

Spec == Init /\ [][Next]_<<held, entry>>
=============================================================================
