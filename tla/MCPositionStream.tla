--------------------------- MODULE MCPositionStream ---------------------------
(***************************************************************************)
(* Small instances of PositionStream for TLC.                              *)
(***************************************************************************)
EXTENDS PositionStream, TLC

CONSTANTS A, a1

DealSymA1 == a1 :> A
=============================================================================
