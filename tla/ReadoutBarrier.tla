--------------------------- MODULE ReadoutBarrier ---------------------------
(***************************************************************************)
(* What the beam-test read-out promises: a reusable barrier.  Any party    *)
(* may raise the flag; while it is up each party arrives at most once, and *)
(* it is lowered when all have arrived.  Once the run is disturbed (a stop *)
(* was requested) nothing is promised any more.                            *)
(***************************************************************************)
CONSTANT Parties

VARIABLES
  raised,     (* a read-out was asked for and is not complete              *)
  arrived,    (* the parties that delivered their data in this round       *)
  disturbed   (* somebody asked for the end of the run                     *)

vars == <<raised, arrived, disturbed>>

Init ==
  /\ raised = FALSE
  /\ arrived = {}
  /\ disturbed = FALSE

Raise ==
  /\ raised' = TRUE
  /\ UNCHANGED arrived

Arrive(p) ==
  /\ raised
  /\ p \notin arrived
  /\ arrived' = arrived \cup {p}
  /\ UNCHANGED raised

Release ==
  /\ arrived = Parties
  /\ raised' = FALSE
  /\ arrived' = {}

Round == Raise \/ Release \/ \E p \in Parties : Arrive(p)

Next ==
  \/ Round /\ ~disturbed /\ ~disturbed'
  \/ disturbed'

Spec == Init /\ [][Next]_vars

=============================================================================
