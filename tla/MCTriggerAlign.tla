--------------------------- MODULE MCTriggerAlign ---------------------------
(* Model values for TriggerAlign: a board with two chips and one with one,  *)
(* which miss no more than the code can follow.                             *)
EXTENDS TriggerAlign

MCLayout == <<{1, 2}, {3}>>

ASSUME MCMisses == MissesAllowed
=============================================================================
