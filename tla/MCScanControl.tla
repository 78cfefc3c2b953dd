--------------------------- MODULE MCScanControl ---------------------------
(* Two groups, one of which may fail.                                      *)
EXTENDS ScanControl
CONSTANTS g1, g2
=============================================================================
