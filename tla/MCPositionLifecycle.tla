------------------------- MODULE MCPositionLifecycle -------------------------
(***************************************************************************)
(* Small instances of PositionLifecycle for TLC: one symbol with two deals *)
(* (a position and its orphan or successor), or two symbols.               *)
(***************************************************************************)
EXTENDS PositionLifecycle, TLC

CONSTANTS A, B, a1, a2, b1

DealSymA  == a1 :> A @@ a2 :> A
DealSymAB == a1 :> A @@ a2 :> A @@ b1 :> B
DealSymA1  == a1 :> A

CandleSymmetry == Permutations(CandleTasks)
=============================================================================
