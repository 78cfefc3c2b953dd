------------------------ MODULE RequestChannelProofs ------------------------
(***************************************************************************)
(* What is true of the request channel for any lengths of lists, any number *)
(* of calls and any troubles.                                               *)
(***************************************************************************)
EXTENDS RequestChannel, TLAPS

(* The actions of the specification, one disjunct each.                     *)
LEMMA Actions ==
  ASSUME [Next]_vars
  PROVE  \/ Call \/ StartWriting \/ Written \/ SendTimeout \/ StartList
         \/ SeeDone \/ ReadReply \/ Release \/ Return \/ GiveUp
         \/ DspStart \/ DspReject \/ DspWork \/ DspShow \/ DspEnd
         \/ UNCHANGED vars
BY DEF Next, Host, Dsp

(* A step keeps the type of every variable.                                 *)
LEMMA TypeStep ==
  ASSUME TypeOK, [Next]_vars
  PROVE  TypeOK'
<1> USE SizesAssumption, CallAssumption DEF TypeOK, host, words
<1>1. CASE Call
  <2>1a. size' \in Sizes \/ size' = 0 BY <1>1, Zenon DEF Call
  <2>1b. kind' \in {"sync", "synch"} \/ kind' = "part" BY <1>1, Zenon DEF Call
  <2>1. size' \in Sizes \cup {0} /\ kind' \in {"sync", "synch", "part"}
    BY <2>1a, <2>1b
  <2>2. call' = call + 1 /\ call < MaxCall BY <1>1 DEF Call
  <2>3. call' \in 0..MaxCall BY <2>2
  <2> QED BY <1>1, <2>1, <2>3 DEF Call
<1>2. CASE StartWriting BY <1>2 DEF StartWriting, Torn
<1>3. CASE Written BY <1>3 DEF Written
<1>4. CASE SendTimeout BY <1>4 DEF SendTimeout
<1>5. CASE StartList BY <1>5 DEF StartList
<1>6. CASE SeeDone BY <1>6 DEF SeeDone
<1>7. CASE ReadReply BY <1>7 DEF ReadReply
<1>8. CASE Release
  <2>1. control' \in BOOLEAN BY <1>8, Zenon DEF Release
  <2>2. pc' = "handle" /\ UNCHANGED <<trouble, call, size, kind, prim, request, status, dsp, reply, got>>
    BY <1>8 DEF Release
  <2> QED BY <2>1, <2>2
<1>9. CASE Return BY <1>9 DEF Return
<1>10. CASE GiveUp BY <1>10 DEF GiveUp
<1>11. CASE DspStart BY <1>11 DEF DspStart
<1>12. CASE DspReject BY <1>12 DEF DspReject, Rejected
<1>13. CASE DspWork
  <2>1. NextPrimitive \in 0..Ones /\ NextPrimitive <= dsp.n
    BY <1>13 DEF DspWork, NextPrimitive, Smaller
  <2>2. /\ dsp' = [dsp EXCEPT !.state = "show", !.k = NextPrimitive]
        /\ reply' = [reply EXCEPT !.msgs = NextPrimitive,
                                  !.whole = (NextPrimitive = dsp.n)]
        /\ UNCHANGED <<trouble, host, words, got>>
    BY <1>13 DEF DspWork, Wrap
  <2>3. /\ dsp' \in [state : {"idle", "exec", "show", "wait"},
                      n : Sizes \cup {0}, k : 0..Ones, call : 0..MaxCall]
        /\ dsp'.k <= dsp'.n
    BY <2>1, <2>2
  <2>4. reply' \in [call : 0..MaxCall, msgs : 0..Ones, whole : BOOLEAN]
    BY <2>1, <2>2
  <2> QED BY <2>2, <2>3, <2>4
<1>14. CASE DspShow BY <1>14 DEF DspShow
<1>15. CASE DspEnd BY <1>15 DEF DspEnd, Zero
<1>16. CASE UNCHANGED vars BY <1>16 DEF vars
<1> QED
  BY <1>1, <1>2, <1>3, <1>4, <1>5, <1>6, <1>7, <1>8, <1>9, <1>10, <1>11,
     <1>12, <1>13, <1>14, <1>15, <1>16, Actions

(* Every variable keeps its type.                                           *)
THEOREM TypeCorrect == Spec => []TypeOK
<1>1. ASSUME Init PROVE TypeOK
  <2>1. control \in BOOLEAN BY <1>1, Zenon DEF Init
  <2>2. request \in [call : 0..MaxCall, n : Sizes \cup {0}]
    BY <1>1, CallAssumption DEF Init, Torn
  <2>3. status \in [total : Sizes \cup {0, Ones}, done : 0..Ones]
    BY <1>1, SizesAssumption DEF Init, Zero
  <2>4. /\ dsp \in [state : {"idle", "exec", "show", "wait"},
                    n : Sizes \cup {0}, k : 0..Ones, call : 0..MaxCall]
        /\ dsp.k <= dsp.n
    BY <1>1, SizesAssumption, CallAssumption DEF Init
  <2>5. NoReply \in [call : 0..MaxCall, msgs : 0..Ones, whole : BOOLEAN]
    BY SizesAssumption, CallAssumption DEF NoReply
  <2>6. /\ trouble \in Troubles /\ call \in 0..MaxCall /\ size \in Sizes \cup {0}
        /\ kind = "sync" /\ pc = "out" /\ prim = "IDLE"
        /\ reply = NoReply /\ got = NoReply
    BY <1>1, CallAssumption DEF Init
  <2> QED BY <2>1, <2>2, <2>3, <2>4, <2>5, <2>6 DEF TypeOK
<1> QED BY <1>1, TypeStep, PTL DEF Spec

-----------------------------------------------------------------------------
(* What the DSP keeps to itself, whatever the host does.                    *)

DspInv ==
  /\ dsp.state = "idle" => status = Zero \/ (status.total = Ones /\ status.done = Ones)
  /\ dsp.state # "idle" =>
       dsp.n \in Sizes /\ status.total = dsp.n /\ reply.call = dsp.call
  /\ dsp.state \in {"exec", "show"} => status.done # dsp.n
  /\ dsp.state = "exec" => ~reply.whole
  /\ dsp.state = "show" =>
       (reply.whole <=> dsp.k = dsp.n) /\ reply.msgs = dsp.k
  /\ dsp.state = "wait" =>
       dsp.k = dsp.n /\ status.done = dsp.n /\ reply.whole /\ reply.msgs = dsp.n

(* A step keeps what the DSP's state says of the status word and the reply. *)
LEMMA DspStep ==
  ASSUME TypeOK, DspInv, [Next]_vars
  PROVE  DspInv'
<1> USE SizesAssumption DEF host, words
<1>1. ASSUME UNCHANGED <<status, dsp, reply>> PROVE DspInv'
  BY <1>1 DEF DspInv
<1>2. CASE Call BY <1>1, <1>2 DEF Call
<1>3. CASE StartWriting BY <1>1, <1>3 DEF StartWriting
<1>4. CASE Written BY <1>1, <1>4 DEF Written
<1>5. CASE SendTimeout BY <1>1, <1>5 DEF SendTimeout
<1>6. CASE StartList BY <1>1, <1>6 DEF StartList
<1>7. CASE SeeDone BY <1>1, <1>7 DEF SeeDone
<1>8. CASE ReadReply BY <1>1, <1>8 DEF ReadReply
<1>9. CASE Release BY <1>1, <1>9 DEF Release
<1>10. CASE Return BY <1>1, <1>10 DEF Return
<1>11. CASE GiveUp BY <1>1, <1>11 DEF GiveUp
<1>12. CASE DspStart
  <2>1. request.n \in Sizes BY <1>12 DEF TypeOK, DspStart
  <2>2. /\ dsp'.state = "exec" /\ dsp'.n = request.n /\ dsp'.k = 1
        /\ dsp'.call = request.call
    BY <1>12 DEF DspStart
  <2>3. status'.total = request.n /\ status'.done = status.done
    BY <1>12 DEF TypeOK, DspStart
  <2>4. reply'.call = request.call /\ reply'.whole = FALSE
    BY <1>12 DEF DspStart
  <2>5. status.done # request.n
    BY <1>12, <2>1 DEF TypeOK, DspInv, DspStart, Zero
  <2> QED BY <2>1, <2>2, <2>3, <2>4, <2>5 DEF TypeOK, DspInv
<1>13. CASE DspReject
  <2>1. dsp' = dsp /\ dsp.state = "idle" BY <1>13 DEF DspReject
  <2>2. status'.total = Ones /\ status'.done = Ones
    BY <1>13 DEF DspReject, Rejected
  <2> QED BY <2>1, <2>2 DEF DspInv
<1>14. CASE DspWork
  <2>1. dsp.state = "exec" /\ dsp.n \in Sizes BY <1>14 DEF DspWork, DspInv
  <2>2. /\ dsp'.state = "show" /\ dsp'.n = dsp.n /\ dsp'.call = dsp.call
        /\ dsp'.k = NextPrimitive /\ status' = status
    BY <1>14 DEF TypeOK, DspWork
  <2>3. /\ reply'.call = reply.call /\ reply'.msgs = NextPrimitive
        /\ reply'.whole = (NextPrimitive = dsp.n)
    BY <1>14 DEF TypeOK, DspWork, Wrap
  <2> QED BY <2>1, <2>2, <2>3 DEF DspInv
<1>15. CASE DspShow
  <2>1. dsp.state = "show" /\ dsp.n \in Sizes BY <1>15 DEF DspShow, DspInv
  <2>2. /\ dsp'.state = IF dsp.k = dsp.n THEN "wait" ELSE "exec"
        /\ dsp'.n = dsp.n /\ dsp'.call = dsp.call /\ dsp'.k = dsp.k
        /\ reply' = reply
    BY <1>15 DEF TypeOK, DspShow
  <2>3. status'.total = status.total /\ status'.done = dsp.k
    BY <1>15 DEF TypeOK, DspShow
  <2> QED BY <2>1, <2>2, <2>3 DEF DspInv
<1>16. CASE DspEnd
  <2>1. dsp'.state = "idle" BY <1>16 DEF TypeOK, DspEnd
  <2>2. status' = Zero BY <1>16 DEF DspEnd
  <2> QED BY <2>1, <2>2 DEF DspInv, Zero
<1>17. CASE UNCHANGED vars BY <1>1, <1>17 DEF vars
<1> QED
  BY <1>2, <1>3, <1>4, <1>5, <1>6, <1>7, <1>8, <1>9, <1>10, <1>11, <1>12,
     <1>13, <1>14, <1>15, <1>16, <1>17, Actions

(* The status word and the reply buffer agree with the DSP in every state.  *)
THEOREM DspAlways == Spec => [](TypeOK /\ DspInv)
<1>1. Init => DspInv BY SizesAssumption DEF Init, DspInv, Zero
<1> QED BY <1>1, TypeCorrect, DspStep, PTL DEF Spec

(* When the status word counts all primitives as done, the reply is         *)
(* complete, whatever the host does.                                        *)
THEOREM StatusTellsTheTruth == Spec => []StatusIsTrue
<1>1. TypeOK /\ DspInv => StatusIsTrue
  BY DEF TypeOK, DspInv, StatusIsTrue, AllDone
<1> QED BY <1>1, DspAlways, PTL

-----------------------------------------------------------------------------
(* A caller that waits and is not disturbed by a rejected list: from its    *)
(* start to the end of the reply the channel holds its list, and the DSP    *)
(* can only have started this one.                                          *)

Undisturbed == "bad list" \notin trouble /\ (kind = "sync" \/ Orderly)

CallInv ==
  /\ "bad list" \notin trouble /\ pc # "out" => size \in Sizes
  /\ pc = "release" => prim = "WAITING"
  /\ Undisturbed =>
       /\ pc = "handle" /\ prim \in {"LOADED", "EXECUTING"} =>
            request.call = call /\ request.n = size
       /\ pc = "handle" /\ prim = "EXECUTING" =>
            /\ control
            /\ dsp.state = "idle" => status = Zero
            /\ dsp.state # "idle" => dsp.call = call /\ dsp.n = size
       /\ pc = "read" =>
            control /\ dsp.state = "wait" /\ dsp.call = call /\ dsp.n = size
       /\ pc = "release" \/ (pc = "handle" /\ prim = "WAITING") =>
            got.call = call /\ got.msgs = size /\ got.whole

(* No list is empty: sendPrimList() is never called with one.               *)
LEMMA NoEmptyList == 0 \notin Sizes
BY SizesAssumption

(* SeeDone sees a positive number of primitives.                            *)
LEMMA SomethingDone ==
  ASSUME TypeOK, SeeDone
  PROVE  status # Zero
BY SizesAssumption DEF TypeOK, SeeDone, AllDone, Zero

(* A step keeps the tie between the caller's list and what the DSP has of it. *)
LEMMA CallStep ==
  ASSUME TypeOK, DspInv, CallInv, [Next]_vars
  PROVE  CallInv'
<1> USE DEF host, words, Undisturbed, Orderly
<1>1. CASE Call BY <1>1, Zenon DEF Call, CallInv
<1>2. CASE StartWriting BY <1>2 DEF StartWriting, CallInv
<1>3. CASE Written BY <1>3 DEF Written, CallInv
<1>4. CASE SendTimeout BY <1>4 DEF SendTimeout, CallInv
<1>5. CASE StartList
  <2>1. status = Zero BY <1>5 DEF StartList
  <2>2. dsp.state = "idle" BY <2>1, SizesAssumption DEF DspInv, Zero
  <2> QED BY <1>5, <2>1, <2>2 DEF StartList, CallInv
<1>6. CASE SeeDone
  <2>1. Undisturbed => dsp.state # "idle"
    <3> SUFFICES ASSUME Undisturbed, dsp.state = "idle" PROVE FALSE OBVIOUS
    <3>1. pc = "handle" /\ prim = "EXECUTING" BY <1>6, Zenon DEF SeeDone
    <3>2. status = Zero BY <3>1, Zenon DEF CallInv
    <3> QED BY <1>6, <3>2, SomethingDone, Zenon
  <2>2. dsp.state # "idle" => dsp.state = "wait"
    BY <1>6 DEF SeeDone, AllDone, DspInv, TypeOK
  <2> QED BY <1>6, <2>1, <2>2 DEF SeeDone, CallInv
<1>7. CASE ReadReply
  <2>1. dsp.state = "wait" =>
          reply.call = dsp.call /\ reply.msgs = dsp.n /\ reply.whole
    BY DEF DspInv
  <2>2. /\ pc = "read" /\ pc' = "release" /\ prim' = "WAITING" /\ got' = reply
        /\ UNCHANGED <<trouble, call, size, kind>>
    BY <1>7 DEF ReadReply
  <2>3. "bad list" \notin trouble' /\ pc' # "out" => size' \in Sizes
    BY <2>2 DEF CallInv
  <2>4. Undisturbed' => got'.call = call' /\ got'.msgs = size' /\ got'.whole
    <3> SUFFICES ASSUME Undisturbed' PROVE got'.call = call' /\ got'.msgs = size' /\ got'.whole
      OBVIOUS
    <3>1. Undisturbed BY <2>2
    <3>2. dsp.state = "wait" /\ dsp.call = call /\ dsp.n = size
      BY <2>2, <3>1, Zenon DEF CallInv
    <3> QED BY <2>1, <2>2, <3>2
  <2> QED BY <2>2, <2>3, <2>4, Zenon DEF CallInv
<1>8. CASE Release
  <2>1. /\ pc = "release" /\ pc' = "handle"
        /\ UNCHANGED <<trouble, call, size, kind, prim, request, status, dsp, got>>
    BY <1>8 DEF Release
  <2> QED BY <2>1 DEF CallInv
<1>9. CASE Return BY <1>9 DEF Return, CallInv
<1>10. CASE GiveUp BY <1>10 DEF GiveUp, CallInv
<1>11. CASE DspStart
  <2>1. /\ dsp'.state = "exec" /\ dsp'.n = request.n /\ dsp'.call = request.call
        /\ dsp.state = "idle"
    BY <1>11 DEF DspStart
  <2> QED BY <1>11, <2>1 DEF DspStart, CallInv
<1>12. CASE DspReject
  <2>1. /\ request.n = 0
        /\ UNCHANGED <<trouble, host, request, control, dsp, reply, got>>
    BY <1>12 DEF DspReject
  <2>2. Undisturbed => ~(pc = "handle" /\ prim = "EXECUTING")
    <3> SUFFICES ASSUME Undisturbed, pc = "handle", prim = "EXECUTING" PROVE FALSE
      OBVIOUS
    <3>1. request.n = size /\ size \in Sizes BY DEF CallInv
    <3> QED BY <2>1, <3>1, NoEmptyList, Zenon
  <2> QED BY <2>1, <2>2, Zenon DEF CallInv
<1>13. CASE DspWork
  <2>1. /\ dsp.state = "exec" /\ dsp'.state = "show"
        /\ dsp'.n = dsp.n /\ dsp'.call = dsp.call
    BY <1>13 DEF TypeOK, DspWork
  <2> QED BY <1>13, <2>1 DEF DspWork, CallInv
<1>14. CASE DspShow
  <2>1. /\ dsp.state = "show" /\ dsp'.state \in {"wait", "exec"}
        /\ dsp'.n = dsp.n /\ dsp'.call = dsp.call
    BY <1>14 DEF TypeOK, DspShow
  <2> QED BY <1>14, <2>1 DEF DspShow, CallInv
<1>15. CASE DspEnd
  <2>1. ~control BY <1>15 DEF DspEnd, HostDone
  <2> QED BY <1>15, <2>1 DEF DspEnd, CallInv
<1>16. CASE UNCHANGED vars BY <1>16 DEF vars, CallInv
<1> QED
  BY <1>1, <1>2, <1>3, <1>4, <1>5, <1>6, <1>7, <1>8, <1>9, <1>10, <1>11,
     <1>12, <1>13, <1>14, <1>15, <1>16, Actions

(* The caller's list and the DSP agree in every state.                      *)
THEOREM CallAlways == Spec => [](TypeOK /\ DspInv /\ CallInv)
<1>1. Init => CallInv BY DEF Init, CallInv
<1> QED BY <1>1, DspAlways, CallStep, PTL DEF Spec

(* What a waiting caller gets is the complete reply to its own list.        *)
THEOREM RepliesAreOwn == Spec => []ReplyIsOwn
<1>1. CallInv => ReplyIsOwn BY DEF CallInv, ReplyIsOwn, Undisturbed
<1> QED BY <1>1, CallAlways, PTL

-----------------------------------------------------------------------------
(* Without time limits and rejected lists: where the DSP can be, wherever   *)
(* the host is.                                                             *)

OrderInv ==
  Orderly =>
    /\ pc \in {"out", "send"} \/ (pc = "handle" /\ prim = "WAITING") =>
         ~control /\ dsp.state \in {"idle", "wait"}
    /\ pc = "write" \/ (pc = "handle" /\ prim = "LOADED") =>
         ~control /\ dsp.state = "idle"
    /\ pc \in {"read", "release"} => control /\ dsp.state = "wait"
    /\ pc = "handle" => prim # "IDLE"

(* A step keeps the order in which the two processors use the buffers.      *)
LEMMA OrderStep ==
  ASSUME TypeOK, DspInv, CallInv, OrderInv, [Next]_vars
  PROVE  OrderInv'
<1> USE DEF host, words, Orderly
<1>1. CASE Call BY <1>1, Zenon DEF Call, OrderInv
<1>2. CASE StartWriting
  <2>1. dsp.state = "idle"
    BY <1>2, SizesAssumption DEF StartWriting, PreviousDone, DspInv, Zero
  <2> QED BY <1>2, <2>1 DEF StartWriting, OrderInv
<1>3. CASE Written BY <1>3 DEF Written, OrderInv
<1>4. CASE SendTimeout BY <1>4 DEF SendTimeout, OrderInv
<1>5. CASE StartList BY <1>5 DEF StartList, OrderInv
<1>6. CASE SeeDone
  <2>1. Orderly => control /\ dsp.state # "idle"
    <3> SUFFICES ASSUME Orderly PROVE control /\ dsp.state # "idle" OBVIOUS
    <3>1. pc = "handle" /\ prim = "EXECUTING" BY <1>6, Zenon DEF SeeDone
    <3>2. Undisturbed BY DEF Undisturbed
    <3>3. control /\ (dsp.state = "idle" => status = Zero)
      BY <3>1, <3>2, Zenon DEF CallInv
    <3> QED BY <1>6, <3>3, SomethingDone, Zenon
  <2>2. dsp.state # "idle" => dsp.state = "wait"
    BY <1>6 DEF SeeDone, AllDone, DspInv, TypeOK
  <2> QED BY <1>6, <2>1, <2>2 DEF SeeDone, OrderInv
<1>7. CASE ReadReply BY <1>7 DEF ReadReply, OrderInv
<1>8. CASE Release
  <2>1. ~control' BY <1>8, Zenon DEF Release
  <2>2. pc = "release" => prim = "WAITING" BY DEF CallInv
  <2> QED BY <1>8, <2>1, <2>2 DEF Release, OrderInv
<1>9. CASE Return BY <1>9 DEF Return, OrderInv
<1>10. CASE GiveUp BY <1>10 DEF GiveUp, OrderInv
<1>11. CASE DspStart
  <2>1. dsp.state = "idle" /\ control BY <1>11 DEF DspStart
  <2> QED BY <1>11, <2>1 DEF DspStart, OrderInv
<1>12. CASE DspReject BY <1>12 DEF DspReject, OrderInv
<1>13. CASE DspWork
  <2>1. dsp.state = "exec" /\ dsp'.state = "show" BY <1>13 DEF TypeOK, DspWork
  <2> QED BY <1>13, <2>1 DEF DspWork, OrderInv
<1>14. CASE DspShow
  <2>1. dsp.state = "show" /\ dsp'.state \in {"wait", "exec"}
    BY <1>14 DEF TypeOK, DspShow
  <2> QED BY <1>14, <2>1 DEF DspShow, OrderInv
<1>15. CASE DspEnd
  <2>1. dsp.state = "wait" /\ dsp'.state = "idle" /\ ~control
    BY <1>15 DEF TypeOK, DspEnd, HostDone
  <2> QED BY <1>15, <2>1 DEF DspEnd, OrderInv
<1>16. CASE UNCHANGED vars BY <1>16 DEF vars, OrderInv
<1> QED
  BY <1>1, <1>2, <1>3, <1>4, <1>5, <1>6, <1>7, <1>8, <1>9, <1>10, <1>11,
     <1>12, <1>13, <1>14, <1>15, <1>16, Actions

(* The order in which the buffers are used holds in every state.            *)
THEOREM OrderAlways == Spec => [](TypeOK /\ DspInv /\ CallInv /\ OrderInv)
<1>1. ASSUME Init PROVE OrderInv
  <2>1. ~control BY <1>1, Zenon DEF Init
  <2>2. pc = "out" /\ dsp.state = "idle" BY <1>1 DEF Init
  <2> QED BY <2>1, <2>2 DEF OrderInv
<1> QED BY <1>1, CallAlways, OrderStep, PTL DEF Spec

(* The two processors take turns at the buffers.                            *)
THEOREM TurnsAreTaken == Spec => []TakeTurns
<1>1. TypeOK /\ OrderInv => TakeTurns BY DEF TypeOK, OrderInv, TakeTurns
<1> QED BY <1>1, OrderAlways, PTL
-----------------------------------------------------------------------------
(* The channel without trouble implements the remote call: until the DSP    *)
(* has started the list of the current call, the reply buffer holds the     *)
(* reply to an earlier one.                                                 *)

NotStarted ==
  \/ pc \in {"send", "write"} \/ (pc = "handle" /\ prim = "LOADED")
  \/ (pc = "handle" /\ prim = "EXECUTING" /\ dsp.state = "idle")

OldInv ==
  /\ request.call <= call /\ dsp.call <= call /\ reply.call <= call
  /\ trouble = {} => kind # "part"
  /\ trouble = {} /\ NotStarted => reply.call # call

IInv == TypeOK /\ DspInv /\ CallInv /\ OrderInv /\ OldInv

(* Without trouble the calls are orderly and the channel is undisturbed.    *)
LEMMA NothingWrong == trouble = {} => Orderly /\ Undisturbed
BY DEF Orderly, Undisturbed

(* A step keeps what is left of the last call while the next one begins.    *)
LEMMA OldStep ==
  ASSUME IInv, [Next]_vars
  PROVE  OldInv'
<1> USE DEF IInv, host, words, NotStarted
<1>0. call \in Nat /\ request.call \in Nat /\ dsp.call \in Nat /\ reply.call \in Nat
  BY CallAssumption DEF TypeOK
<1>1. CASE Call
  <2>1. /\ call' = call + 1
        /\ kind' \in {"sync", "synch"} \/ "parts" \in trouble
        /\ UNCHANGED <<trouble, request, dsp, reply>>
    BY <1>1 DEF Call
  <2> QED BY <1>0, <2>1 DEF OldInv
<1>2. CASE StartWriting
  BY <1>0, <1>2 DEF StartWriting, OldInv, Torn
<1>3. CASE Written
  BY <1>0, <1>3 DEF Written, OldInv
<1>4. CASE SendTimeout
  BY <1>4 DEF SendTimeout, Orderly, OldInv
<1>5. CASE StartList BY <1>5 DEF StartList, OldInv
<1>6. CASE SeeDone BY <1>6 DEF SeeDone, OldInv
<1>7. CASE ReadReply BY <1>7 DEF ReadReply, OldInv
<1>8. CASE Release
  <2>1. /\ pc = "release" /\ pc' = "handle"
        /\ UNCHANGED <<trouble, call, kind, prim, request, dsp, reply>>
    BY <1>8 DEF Release
  <2> QED BY <2>1 DEF CallInv, OldInv
<1>9. CASE Return BY <1>9 DEF Return, OldInv
<1>10. CASE GiveUp BY <1>10 DEF GiveUp, OldInv
<1>11. CASE DspStart
  <2>1. /\ dsp'.state = "exec" /\ dsp'.call = request.call
        /\ reply'.call = request.call
        /\ control /\ dsp.state = "idle"
        /\ UNCHANGED <<trouble, call, kind, pc, prim, request>>
    BY <1>11 DEF DspStart
  <2>2. trouble = {} => ~NotStarted'
    <3> SUFFICES ASSUME trouble = {} PROVE ~NotStarted' OBVIOUS
    <3>1. ~(pc \in {"send", "write"} \/ (pc = "handle" /\ prim = "LOADED"))
      BY <2>1, NothingWrong, Zenon DEF OrderInv
    <3> QED BY <2>1, <3>1
  <2> QED BY <1>0, <2>1, <2>2 DEF OldInv
<1>12. CASE DspReject BY <1>12 DEF DspReject, OldInv
<1>13. CASE DspWork
  <2>1. /\ dsp.state = "exec" /\ dsp'.state = "show" /\ dsp'.call = dsp.call
        /\ reply'.call = reply.call /\ UNCHANGED <<trouble, call, kind, pc, prim, request>>
    BY <1>13 DEF TypeOK, DspWork, Wrap
  <2> QED BY <2>1 DEF OldInv
<1>14. CASE DspShow
  <2>1. /\ dsp.state = "show" /\ dsp'.state # "idle" /\ dsp'.call = dsp.call
        /\ UNCHANGED <<trouble, call, kind, pc, prim, request, reply>>
    BY <1>14 DEF TypeOK, DspShow
  <2> QED BY <2>1 DEF OldInv
<1>15. CASE DspEnd
  <2>1. /\ ~control /\ dsp'.call = dsp.call
        /\ UNCHANGED <<trouble, call, kind, pc, prim, request, reply>>
    BY <1>15 DEF TypeOK, DspEnd, HostDone
  <2>2. trouble = {} => ~(pc = "handle" /\ prim = "EXECUTING")
    BY <2>1, NothingWrong, Zenon DEF CallInv
  <2> QED BY <2>1, <2>2 DEF OldInv
<1>16. CASE UNCHANGED vars BY <1>16 DEF vars, OldInv
<1> QED
  BY <1>1, <1>2, <1>3, <1>4, <1>5, <1>6, <1>7, <1>8, <1>9, <1>10, <1>11,
     <1>12, <1>13, <1>14, <1>15, <1>16, Actions

(* The inductive invariant of the request channel.                          *)
THEOREM Always == Spec => []IInv
<1>1. ASSUME Init PROVE OldInv
  <2>1. pc = "out" /\ kind = "sync" /\ call = 0 /\ request.call = 0 /\ dsp.call = 0 /\ reply.call = 0
    BY <1>1 DEF Init, NoReply, Torn
  <2> QED BY <2>1 DEF OldInv, NotStarted
<1>2. IInv /\ [Next]_vars => OldInv' BY OldStep
<1> QED BY <1>1, <1>2, OrderAlways, PTL DEF Spec, IInv

(* A step without trouble is one of the remote call, or none of its         *)
(* business.                                                                *)
LEMMA StepRefines ==
  ASSUME IInv, [Next]_vars, trouble = {}
  PROVE  \/ RC!Ask \/ RC!Serve \/ RC!Answer
         \/ UNCHANGED <<Phase, call, size, got>>
<1>a. Orderly /\ Undisturbed BY NothingWrong
<1>b. call \in Nat /\ reply.call \in Nat /\ reply.call <= call
  BY CallAssumption DEF IInv, TypeOK, OldInv
<1>c. /\ NotStarted => reply.call # call
      /\ kind # "part"
  BY DEF IInv, OldInv
<1> USE DEF host, words
<1>1. CASE Call
  <2>1. /\ pc = "out" /\ pc' = "send" /\ call' = call + 1 /\ size' \in Sizes
        /\ UNCHANGED <<reply, got>>
    BY <1>1 DEF Call
  <2>2. Phase = "free" BY <2>1 DEF Phase
  <2>3. reply'.call # call' BY <1>b, <2>1
  <2>4. Phase' = "asked" BY <2>1, <2>3 DEF Phase
  <2> QED BY <2>1, <2>2, <2>4 DEF RC!Ask
<1>2. CASE StartWriting
  <2>1. /\ pc = "send" /\ pc' = "write" /\ UNCHANGED <<call, size, prim, reply, got>>
    BY <1>2 DEF StartWriting
  <2> QED BY <2>1 DEF Phase
<1>3. CASE Written
  <2>1. /\ pc = "write" /\ prim' = "LOADED" /\ pc' = IF kind = "part" THEN "out" ELSE "handle"
        /\ UNCHANGED <<trouble, call, size, kind, reply, got>>
    BY <1>3 DEF Written
  <2> QED BY <1>c, <2>1 DEF Phase
<1>4. CASE SendTimeout BY <1>4, <1>a DEF SendTimeout
<1>5. CASE StartList
  <2>1. /\ pc = "handle" /\ prim = "LOADED" /\ prim' = "EXECUTING"
        /\ UNCHANGED <<call, size, pc, reply, got>>
    BY <1>5 DEF StartList
  <2> QED BY <2>1 DEF Phase
<1>6. CASE SeeDone
  <2>1. /\ pc = "handle" /\ prim = "EXECUTING" /\ pc' = "read"
        /\ UNCHANGED <<call, size, reply, got>>
    BY <1>6 DEF SeeDone
  <2> QED BY <2>1 DEF Phase
<1>7. CASE ReadReply
  <2>1. /\ pc = "read" /\ pc' = "release" /\ got' = reply
        /\ UNCHANGED <<call, size>>
    BY <1>7 DEF ReadReply
  <2>2. reply.whole /\ reply.call = call /\ reply.msgs = size
    BY <1>a, <2>1 DEF IInv, CallInv, DspInv
  <2>3. Phase = "served" /\ Phase' = "free" BY <2>1, <2>2 DEF Phase
  <2> QED BY <2>1, <2>2, <2>3 DEF RC!Answer
<1>8. CASE Release
  <2>1. /\ pc = "release" /\ pc' = "handle"
        /\ UNCHANGED <<call, size, prim, reply, got>>
    BY <1>8 DEF Release
  <2>2. prim = "WAITING" BY <2>1 DEF IInv, CallInv
  <2> QED BY <2>1, <2>2 DEF Phase
<1>9. CASE Return
  <2>1. /\ pc = "handle" /\ prim \in {"WAITING", "IDLE"} /\ pc' = "out"
        /\ UNCHANGED <<call, size, prim, reply, got>>
    BY <1>9 DEF Return
  <2>2. prim = "WAITING" BY <1>a, <2>1 DEF IInv, OrderInv
  <2> QED BY <2>1, <2>2 DEF Phase
<1>10. CASE GiveUp BY <1>10, <1>a DEF GiveUp
<1>11. CASE DspStart
  <2>1. /\ control /\ dsp.state = "idle" /\ reply'.call = request.call
        /\ reply'.whole = FALSE
        /\ UNCHANGED <<call, size, pc, prim, got>>
    BY <1>11 DEF DspStart
  <2>2. pc = "handle" /\ prim = "EXECUTING"
    BY <1>a, <2>1, Zenon DEF IInv, TypeOK, OrderInv
  <2>3. reply.call # call BY <1>c, <2>1, <2>2 DEF NotStarted
  <2> QED BY <2>1, <2>2, <2>3 DEF Phase
<1>12. CASE DspReject
  <2>1. UNCHANGED <<call, size, pc, prim, reply, got>> BY <1>12 DEF DspReject
  <2> QED BY <2>1 DEF Phase
<1>13. CASE DspWork
  <2>1. /\ dsp.state = "exec" /\ reply'.call = reply.call
        /\ reply'.whole = (NextPrimitive = dsp.n)
        /\ UNCHANGED <<call, size, pc, prim, got>>
    BY <1>13 DEF IInv, TypeOK, DspWork, Wrap
  <2>2. pc = "handle" /\ prim = "EXECUTING"
    BY <1>a, <2>1 DEF IInv, TypeOK, OrderInv
  <2>3. ~reply.whole /\ reply.call = call
    BY <1>a, <2>1, <2>2 DEF IInv, CallInv, DspInv
  <2>4. Phase = "asked" BY <2>2, <2>3 DEF Phase
  <2>5. Phase' = IF reply'.whole THEN "served" ELSE "asked"
    BY <2>1, <2>2, <2>3 DEF Phase
  <2> QED BY <2>1, <2>4, <2>5 DEF RC!Serve
<1>14. CASE DspShow
  <2>1. UNCHANGED <<call, size, pc, prim, reply, got>> BY <1>14 DEF DspShow
  <2> QED BY <2>1 DEF Phase
<1>15. CASE DspEnd
  <2>1. UNCHANGED <<call, size, pc, prim, reply, got>> BY <1>15 DEF DspEnd
  <2> QED BY <2>1 DEF Phase
<1>16. CASE UNCHANGED vars BY <1>16 DEF vars, Phase
<1> QED
  BY <1>1, <1>2, <1>3, <1>4, <1>5, <1>6, <1>7, <1>8, <1>9, <1>10, <1>11,
     <1>12, <1>13, <1>14, <1>15, <1>16, Actions

(* Without trouble the request channel is a remote call.                    *)
THEOREM ChannelIsACall == Spec => RefinesCall
<1>1. ASSUME Init PROVE RC!Init
  <2>1. /\ pc = "out" /\ call = 0 /\ size = 0 /\ got.call = 0 /\ got.msgs = 0
    BY <1>1 DEF Init, NoReply
  <2>2. (trouble = {}) \in BOOLEAN OBVIOUS
  <2> QED BY <2>1, <2>2 DEF RC!Init, Phase
<1>2. ASSUME IInv, [Next]_vars PROVE [RC!Next]_(RC!vars)
  <2>1. trouble' = trouble
    BY <1>2, Actions DEF vars, Call, StartWriting, Written, SendTimeout, StartList,
      SeeDone, ReadReply, Release, Return, GiveUp, DspStart, DspReject, DspWork,
      DspShow, DspEnd
  <2>2. CASE trouble # {} BY <2>1, <2>2 DEF RC!Next
  <2>3. CASE trouble = {}
    <3>1. CASE RC!Ask \/ RC!Serve \/ RC!Answer BY <2>1, <3>1 DEF RC!Next
    <3>2. CASE UNCHANGED <<Phase, call, size, got>>
      BY <2>1, <3>2 DEF RC!vars
    <3> QED BY <1>2, <2>3, <3>1, <3>2, StepRefines
  <2> QED BY <2>2, <2>3
<1> QED BY <1>1, <1>2, Always, PTL DEF Spec, RefinesCall, RC!Spec
=============================================================================
