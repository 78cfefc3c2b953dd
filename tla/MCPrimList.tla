----------------------------- MODULE MCPrimList -----------------------------
EXTENDS PrimList
It(kind, abort, keep, raise) ==
  [kind |-> kind, abort |-> abort, keep |-> keep, raise |-> raise]

(* A test that may skip the rest, a scan, and a tool that is always done;   *)
(* on the wafer a scan that must start and the same tool.                   *)
McList ==
  [main  |-> <<It("chiptest", FALSE, FALSE, TRUE), It("scan", FALSE, FALSE, FALSE),
               It("tool", FALSE, TRUE, FALSE)>>,
   wafer |-> <<It("scan", TRUE, FALSE, FALSE), It("chiptest", FALSE, FALSE, TRUE),
               It("tool", FALSE, FALSE, FALSE)>>]

(* A repeated list in the main window without a prober, and a wafer with    *)
(* the main window's list asked for once; scans that may fail in either.    *)
McDesks ==
  {[repeat |-> 3, prober |-> FALSE, mayFail |-> fail, mayRefuse |-> TRUE]
     : fail \in BOOLEAN}
  \cup
  {[repeat |-> 1, prober |-> TRUE, mayFail |-> fail, mayRefuse |-> FALSE]
     : fail \in BOOLEAN}
=============================================================================
