----------------------------- MODULE RemoteCall -----------------------------
(***************************************************************************)
(* What the request channel of a ROD promises: the host asks for one        *)
(* primitive list at a time, the DSP carries it out, and the host gets the  *)
(* complete answer to exactly this list.  Once the channel is not sound     *)
(* (see RequestChannel) nothing is promised.                                *)
(***************************************************************************)
EXTENDS Naturals

CONSTANT Sizes     (* how many primitives a list may have                    *)

VARIABLES
  sound,   (* nothing has gone wrong                                         *)
  phase,   (* of the current call: free, asked, served                       *)
  call,    (* its number                                                     *)
  size,    (* the number of its primitives                                   *)
  answer   (* the last answer: to which call, with how many replies          *)

vars == <<sound, phase, call, size, answer>>

Init ==
  /\ sound \in BOOLEAN /\ phase = "free" /\ call = 0 /\ size = 0
  /\ answer = [call |-> 0, msgs |-> 0]

Ask ==
  /\ phase = "free" /\ phase' = "asked"
  /\ call' = call + 1 /\ size' \in Sizes
  /\ UNCHANGED answer

Serve == phase = "asked" /\ phase' = "served" /\ UNCHANGED <<call, size, answer>>

Answer ==
  /\ phase = "served" /\ phase' = "free"
  /\ answer' = [call |-> call, msgs |-> size]
  /\ UNCHANGED <<call, size>>

Next == sound' = sound /\ (sound => Ask \/ Serve \/ Answer)

Spec == Init /\ [][Next]_vars
=============================================================================
