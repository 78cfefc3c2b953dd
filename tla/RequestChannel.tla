--------------------------- MODULE RequestChannel ---------------------------
(***************************************************************************)
(* The request channel between the host of a ROD (RodModule) and its master *)
(* DSP (requestChannel.c): a primitive list is written to a buffer, started *)
(* with a control word, and followed in a status word until its replies can *)
(* be taken.  The two processors share nothing but these words and buffers, *)
(* and see each other's writes one at a time.                               *)
(***************************************************************************)
EXTENDS Naturals

CONSTANTS
  Sizes,     (* how many primitives a list may have                          *)
  Troubles,  (* the sets of troubles to look at, see trouble                 *)
  Ones,      (* half a status word with all bits set: 2^16 - 1               *)
  MaxCall    (* bound: the number of calls                                   *)

TroubleKinds == {"bad list", "late", "parts"}

ASSUME SizesAssumption   == Ones \in Nat /\ Sizes \subseteq 1..(Ones - 1)
ASSUME TroubleAssumption == Troubles \subseteq SUBSET TroubleKinds
ASSUME CallAssumption    == MaxCall \in Nat

VARIABLES
  trouble,   (* what may happen: lists that validate() rejects; time limits  *)
             (* that are exceeded; lists that are sent without waiting       *)
  call,      (* the number of the host's last call, and its list's length    *)
  size,
  kind,      (* of call: "sync", "synch" (it catches the exceptions) or      *)
             (* "part" (sent without waiting)                                *)
  pc,        (* the host: out, in sendPrimList() (send, write), in the loop  *)
             (* over primHandler() (handle), in its reply part (read,        *)
             (* release)                                                     *)
  prim,      (* m_myPrimState                                                *)
  request,   (* the request buffer: whose list, how long                     *)
  control,   (* the control word is set                                      *)
  status,    (* the status word: primitives in the list, primitives done     *)
  dsp,       (* the DSP: state, nPrimitives, kPrimitive, whose list          *)
  reply,     (* the reply buffer: whose, nMsgs so far, whole (length valid)  *)
  got        (* the replies that the host has taken                          *)

Orderly == trouble \subseteq {"parts"}

host  == <<call, size, kind, pc, prim>>
words == <<request, control, status>>
vars  == <<trouble, host, words, dsp, reply, got>>

NoReply  == [call |-> 0, msgs |-> 0, whole |-> FALSE]
Torn     == 0      (* the number of no call: the buffer is being written     *)
Zero     == [total |-> 0, done |-> 0]
Rejected == [total |-> Ones, done |-> Ones]

Init ==
  /\ trouble \in Troubles
  /\ call = 0 /\ size = 0 /\ kind = "sync" /\ pc = "out" /\ prim = "IDLE"
  /\ request = [call |-> Torn, n |-> 0] /\ control = FALSE /\ status = Zero
  /\ dsp = [state |-> "idle", n |-> 0, k |-> 0, call |-> 0]
  /\ reply = NoReply /\ got = NoReply

-----------------------------------------------------------------------------
(* The host.                                                                *)

Call ==
  /\ pc = "out" /\ call < MaxCall
  /\ call' = call + 1 /\ pc' = "send"
  /\ size' \in Sizes \/ (size' = 0 /\ "bad list" \in trouble)
  /\ kind' \in {"sync", "synch"} \/ (kind' = "part" /\ "parts" \in trouble)
  /\ UNCHANGED <<trouble, prim, words, dsp, reply, got>>

(* sendPrimList() waits for the end of the previous list (slip: it looks    *)
(* at the control word instead of the status word).                         *)
SlipReleased == ~control
PreviousDone == status = Zero

StartWriting ==
  /\ pc = "send" /\ PreviousDone
  /\ pc' = "write"
  /\ \E n \in Sizes \cup {0} : request' = [call |-> Torn, n |-> n]
  /\ UNCHANGED <<trouble, call, size, kind, prim, control, status, dsp, reply, got>>

Written ==
  /\ pc = "write"
  /\ request' = [call |-> call, n |-> size] /\ prim' = "LOADED"
  /\ pc' = IF kind = "part" THEN "out" ELSE "handle"
  /\ UNCHANGED <<trouble, call, size, kind, control, status, dsp, reply, got>>

(* "previous list still executing": only synchSendPrim() goes on, and       *)
(* primHandler() with whatever is there.                                    *)
SendTimeout ==
  /\ pc = "send" /\ ~PreviousDone /\ ~Orderly
  /\ IF kind = "synch"
     THEN pc' = "handle" /\ prim' = IF prim = "WAITING" THEN "IDLE" ELSE prim
     ELSE pc' = "out" /\ prim' = prim
  /\ UNCHANGED <<trouble, call, size, kind, words, dsp, reply, got>>

(* primHandler(), state LOADED.                                             *)
StartList ==
  /\ pc = "handle" /\ prim = "LOADED" /\ status = Zero
  /\ control' = TRUE /\ prim' = "EXECUTING"
  /\ UNCHANGED <<trouble, call, size, kind, pc, request, status, dsp, reply, got>>

(* "we have processed all primitives" (slip: as soon as there is a reply to *)
(* the first of them).                                                      *)
SlipSomeDone == status.total > 0 /\ status.done > 0
AllDone      == status.total > 0 /\ status.done = status.total

(* primHandler(), state EXECUTING: the reply is read ...                    *)
SeeDone ==
  /\ pc = "handle" /\ prim = "EXECUTING" /\ AllDone
  /\ pc' = "read" /\ prim' = "IDLE"
  /\ UNCHANGED <<trouble, call, size, kind, words, dsp, reply, got>>

(* (even an inconsistent one: -1 plus the size of head and tail is > 0)     *)
ReadReply ==
  /\ pc = "read"
  /\ got' = reply /\ pc' = "release" /\ prim' = "WAITING"
  /\ UNCHANGED <<trouble, call, size, kind, words, dsp, reply>>

(* ... and the DSP told that the buffer is free.                            *)
Release ==
  /\ pc = "release" /\ control' = FALSE /\ pc' = "handle"
  /\ UNCHANGED <<trouble, call, size, kind, prim, request, status, dsp, reply, got>>

(* The callers leave their loop.                                            *)
Return ==
  /\ pc = "handle" /\ prim \in {"WAITING", "IDLE"}
  /\ pc' = "out"
  /\ UNCHANGED <<trouble, call, size, kind, prim, words, dsp, reply, got>>

(* "Cannot start primitive execution", "Primitive execution did not         *)
(* complete".                                                               *)
GiveUp ==
  /\ pc = "handle" /\ prim \in {"LOADED", "EXECUTING"} /\ kind = "sync"
  /\ ~Orderly
  /\ pc' = "out"
  /\ UNCHANGED <<trouble, call, size, kind, prim, words, dsp, reply, got>>

-----------------------------------------------------------------------------
(* The DSP: proc() is called over and over again.                           *)

Smaller(a, b) == IF a < b THEN a ELSE b

(* startList() and the first primitive.                                     *)
DspStart ==
  /\ dsp.state = "idle" /\ control /\ request.n > 0
  /\ dsp' = [state |-> "exec", n |-> request.n, k |-> 1, call |-> request.call]
  /\ status' = [status EXCEPT !.total = request.n]
  /\ reply' = [call |-> request.call, msgs |-> 1, whole |-> FALSE]
  /\ UNCHANGED <<trouble, host, request, control, got>>

DspReject ==
  /\ dsp.state = "idle" /\ control /\ request.n = 0
  /\ status' = Rejected
  /\ UNCHANGED <<trouble, host, request, control, dsp, reply, got>>

(* processNextPrimitive() (slip: the end of the list is not looked at).     *)
SlipNextPrimitive == dsp.k + 1
NextPrimitive     == Smaller(dsp.k + 1, dsp.n)

(* After the last primitive wrapUpList() fills in the length of the reply   *)
(* (slip: it stays invalid).                                                *)
SlipNoWrap(k) == [reply EXCEPT !.msgs = k]
Wrap(k)       == [reply EXCEPT !.msgs = k, !.whole = (k = dsp.n)]

DspWork ==
  /\ dsp.state = "exec"
  /\ dsp' = [dsp EXCEPT !.state = "show", !.k = NextPrimitive]
  /\ reply' = Wrap(NextPrimitive)
  /\ UNCHANGED <<trouble, host, words, got>>

(* updateHostInterface()                                                    *)
DspShow ==
  /\ dsp.state = "show"
  /\ status' = [status EXCEPT !.done = dsp.k]
  /\ dsp' = [dsp EXCEPT !.state = IF dsp.k = dsp.n THEN "wait" ELSE "exec"]
  /\ UNCHANGED <<trouble, host, request, control, reply, got>>

(* endList() (slip: without waiting for the host).                          *)
SlipHostDone == TRUE
HostDone     == ~control

DspEnd ==
  /\ dsp.state = "wait" /\ HostDone
  /\ status' = Zero /\ dsp' = [dsp EXCEPT !.state = "idle"]
  /\ UNCHANGED <<trouble, host, request, control, reply, got>>

-----------------------------------------------------------------------------
Host ==
  \/ StartWriting \/ Written \/ StartList \/ SeeDone \/ ReadReply
  \/ Release \/ Return
Dsp == DspStart \/ DspReject \/ DspWork \/ DspShow \/ DspEnd

Next == Call \/ Host \/ SendTimeout \/ GiveUp \/ Dsp

Spec == Init /\ [][Next]_vars

(* The callers' loops and the DSP's main loop go on.                        *)
FairSpec == Spec /\ WF_vars(Host) /\ WF_vars(Dsp)

-----------------------------------------------------------------------------
(* Every variable keeps its type.                                           *)
TypeOK ==
  /\ trouble \in Troubles
  /\ call \in 0..MaxCall /\ size \in Sizes \cup {0}
  /\ kind \in {"sync", "synch", "part"}
  /\ pc \in {"out", "send", "write", "handle", "read", "release"}
  /\ prim \in {"IDLE", "LOADED", "EXECUTING", "WAITING"}
  /\ request \in [call : 0..MaxCall, n : Sizes \cup {0}]
  /\ control \in BOOLEAN
  /\ status \in [total : Sizes \cup {0, Ones}, done : 0..Ones]
  /\ dsp \in [state : {"idle", "exec", "show", "wait"}, n : Sizes \cup {0},
              k : 0..Ones, call : 0..MaxCall]
  /\ dsp.k <= dsp.n
  /\ reply \in [call : 0..MaxCall, msgs : 0..Ones, whole : BOOLEAN]
  /\ got \in [call : 0..MaxCall, msgs : 0..Ones, whole : BOOLEAN]

(* Whatever the host does, even after a time limit and with half a list in  *)
(* the buffer: when the status word of a started list counts all its        *)
(* primitives as done, the reply is complete (wrapUpList() before           *)
(* updateHostInterface()).                                                  *)
StatusIsTrue ==
  status.total \in Sizes /\ AllDone /\ dsp.state # "idle" =>
    reply.whole /\ reply.msgs = status.total /\ reply.call = dsp.call

(* As long as no time limit is exceeded and no list is rejected, the two    *)
(* processors take turns at the buffers: the host neither writes a list nor *)
(* reads replies while the DSP works on them.                               *)
TakeTurns ==
  Orderly =>
    /\ dsp.state \in {"exec", "show"} => pc = "handle" /\ prim = "EXECUTING"
    /\ pc = "write" => dsp.state = "idle" /\ ~control
    /\ pc = "read" => dsp.state = "wait"

(* What a waiting caller gets are the replies to all primitives of the very *)
(* list it has sent, even when earlier calls were given up with the DSP at  *)
(* work, or their lists written over; but not when lists are rejected       *)
(* (primHandler(), validateReplyBuffer(), waitPrimitiveCompletion()).       *)
ReplyIsOwn ==
  "bad list" \notin trouble /\ kind = "sync" /\ pc = "handle" /\ prim = "WAITING"
    => got.call = call /\ got.msgs = size /\ got.whole

(* As long as no time limit is exceeded and no list is rejected, every call *)
(* comes back.                                                              *)
CallReturns == Orderly => (pc = "send" ~> pc = "out")

(* Without any trouble the request channel is a remote call.                *)
Phase ==
  IF pc \in {"out", "release"} \/ (pc = "handle" /\ prim = "WAITING") THEN "free"
  ELSE IF reply.whole /\ reply.call = call THEN "served" ELSE "asked"
RC == INSTANCE RemoteCall WITH
        sound <- trouble = {}, phase <- Phase,
        answer <- [call |-> got.call, msgs |-> got.msgs]
RefinesCall == RC!Spec

(* "send what we've got thus far" (RodModule::loadAndStartSlaves()): a list *)
(* that was sent is started before the buffer is written again.             *)
SentIsStarted ==
  [][pc = "send" /\ pc' = "write" => prim # "LOADED"]_vars
=============================================================================
