-------------------------- MODULE MCTestbeamReadout --------------------------
(* Instances of TestbeamReadout for TLC.                                     *)
EXTENDS TestbeamReadout, TLC

(* Boards are interchangeable in every definition of TestbeamReadout.        *)
BoardSymmetry == Permutations(Boards)

=============================================================================
