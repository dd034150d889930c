--------------------------- MODULE Shutdown_proofs ---------------------------
(***************************************************************************)
(* That the root frees what the threads share when all of them have left,  *)
(* and that a thread which is starved at the exit stays so: for buffers,   *)
(* ratios and bursts of any size, and any number of carrier threads.       *)
(***************************************************************************)
EXTENDS Shutdown, TLAPS

(* The responses of a turn are all put before the Streaming Manager looks  *)
(* at globalexit again, so it never leaves in the middle of a put.         *)
PutsInLoop == /\ held => out > 0
              /\ out > 0 => sm = "loop"

(* Each join waits for what it says. *)
JoinsInOrder ==
    /\ root \in {"joins_coap", "frees", "closed"} => sm = "left"
    /\ root \in {"frees", "closed"} => coap = "left"
    /\ sm = "left" => \A s \in EventBased : carrier[s] = "none"

IInv == TypeOK /\ PutsInLoop /\ JoinsInOrder

USE ShutdownAssumption

(* In the initial state no thread has left and nothing is held. *)
LEMMA InitInv == Init => IInv
<1> SUFFICES ASSUME Init PROVE IInv
  OBVIOUS
<1>1. /\ todo \in 0 .. 2 /\ smcount \in 0 .. SMREQ_RATIO /\ turn \in 0 .. QUEUE_REQ_RATIO
      /\ out \in 0 .. MaxBurst /\ nreq \in 0 .. SM_RBUF_SIZE /\ nres \in 0 .. COAP_RBUF_SIZE
      /\ ~(out > 0)
  BY SMT DEF Init
<1>2. TypeOK
  BY <1>1, Zenon DEF Init, TypeOK
<1>3. PutsInLoop
  BY <1>1, Zenon DEF Init, PutsInLoop
<1>4. JoinsInOrder
  BY SMT DEF Init, JoinsInOrder
<1> QED BY <1>2, <1>3, <1>4 DEF IInv

(* The root's steps, which only move root and globalexit. *)
LEMMA RootInv == IInv /\ Root => IInv'
<1> SUFFICES ASSUME IInv, Root PROVE IInv'
  OBVIOUS
<1>1. /\ globalexit' \in BOOLEAN
      /\ UNCHANGED <<coapVars, smVars, carrier, buffers>>
  BY Zenon DEF Root, Joins, ExitRequested, JoinSm, JoinCoap, FreeAll, IInv, TypeOK
<1>2. /\ root' \in {"joins_sm", "joins_coap", "frees", "closed"}
      /\ root' \in {"joins_coap", "frees", "closed"} => sm = "left"
      /\ root' \in {"frees", "closed"} => coap = "left"
  BY SMT DEF Root, Joins, ExitRequested, JoinSm, JoinCoap, FreeAll, IInv, JoinsInOrder
<1> QED BY <1>1, <1>2, SMT DEF IInv, TypeOK, PutsInLoop, JoinsInOrder, coapVars, smVars, buffers

(* A get takes one item, if there is one. *)
LEMMA GotBound ==
  ASSUME NEW n \in Nat, NEW size \in Nat, n \in 0 .. size
  PROVE  Got(n) \in 0 .. size /\ Got(n) <= n
  BY SMT DEF Got

(* The CoAP thread's steps; it never comes back once it has left. *)
LEMMA CoapInv == IInv /\ CoapNext => IInv'
<1> SUFFICES ASSUME IInv, CoapNext PROVE IInv'
  OBVIOUS
<1>n. nres \in Nat /\ nreq \in Nat /\ SMREQ_RATIO \in Nat /\ COAP_RBUF_SIZE \in Nat /\ SM_RBUF_SIZE \in Nat
  BY SMT DEF IInv, TypeOK
<1>g. Got(nres) \in 0 .. COAP_RBUF_SIZE
  BY <1>n, GotBound, SMT DEF IInv, TypeOK
<1>u. UNCHANGED <<rootVars, smVars, carrier>>
  BY DEF CoapNext
<1>1. CASE CoapTop
  BY <1>1, <1>u, SMT DEF IInv, TypeOK, PutsInLoop, JoinsInOrder, CoapTop, rootVars, smVars, buffers
<1>2. CASE Retransmit
  BY <1>2, <1>u, SMT DEF IInv, TypeOK, PutsInLoop, JoinsInOrder, Retransmit, rootVars, smVars, buffers
<1>3. CASE Network
  BY <1>3, <1>u, SMT DEF IInv, TypeOK, PutsInLoop, JoinsInOrder, Network, rootVars, smVars, buffers
<1>4. CASE Serve
  BY <1>4, <1>u, <1>g, <1>n, SMT
     DEF IInv, TypeOK, PutsInLoop, JoinsInOrder, Serve, rootVars, smVars
<1>5. CASE PutRequest /\ coap # "left"
  BY <1>5, <1>u, <1>n, SMT
     DEF IInv, TypeOK, PutsInLoop, JoinsInOrder, PutRequest, rootVars, smVars
<1>6. CASE PutRequest /\ coap = "left"
  BY <1>6, <1>u, <1>n, SMT
     DEF IInv, TypeOK, PutsInLoop, JoinsInOrder, PutRequest, rootVars, smVars
<1> QED BY <1>1, <1>2, <1>3, <1>4, <1>5, <1>6 DEF CoapNext

(* Turning sensors on or off keeps the types. *)
LEMMA SwitchTypes ==
  ASSUME TypeOK, SwitchSensors
  PROVE  /\ is_active' \in [EventBased -> BOOLEAN]
         /\ carrier' \in [EventBased -> {"none", "looks", "works", "leaves"}]
  BY Zenon DEF TypeOK, SwitchSensors

(* The Streaming Manager's steps: it leaves its loop with nothing to put,  *)
(* and starts no carrier thread afterwards.                                *)
LEMMA SmInv == IInv /\ SmNext => IInv'
<1> SUFFICES ASSUME IInv, SmNext PROVE IInv'
  OBVIOUS
<1>n. nres \in Nat /\ nreq \in Nat /\ out \in Nat /\ turn \in Nat
      /\ COAP_RBUF_SIZE \in Nat /\ SM_RBUF_SIZE \in Nat /\ MaxBurst \in Nat /\ QUEUE_REQ_RATIO \in Nat
  BY SMT DEF IInv, TypeOK
<1>g. Got(nreq) \in 0 .. SM_RBUF_SIZE
  BY <1>n, GotBound, SMT DEF IInv, TypeOK
<1>u. UNCHANGED <<rootVars, coapVars>>
  BY DEF SmNext
<1>1. CASE Turn
  <2>u. sm = "loop" /\ out = 0 /\ UNCHANGED <<held, nres>>
    BY <1>1 DEF Turn
  <2>1. CASE BeginTurn /\ globalexit
    BY <2>1, <2>u, <1>u, <1>n, SMT
       DEF BeginTurn, IInv, TypeOK, PutsInLoop, JoinsInOrder, rootVars, coapVars
  <2>2. CASE BeginTurn /\ ~globalexit
    <3>1. nreq' = Got(nreq) /\ turn' = 1 /\ out' \in {0, 1} /\ SwitchSensors /\ UNCHANGED sm
      BY <2>2, SMT DEF BeginTurn
    <3>2. /\ is_active' \in [EventBased -> BOOLEAN]
          /\ carrier' \in [EventBased -> {"none", "looks", "works", "leaves"}]
      BY <3>1, SwitchTypes DEF IInv
    <3> QED BY <3>1, <3>2, <2>u, <1>u, <1>n, <1>g, SMT
               DEF IInv, TypeOK, PutsInLoop, JoinsInOrder, rootVars, coapVars
  <2>3. CASE LookForSample
    <3>1. /\ turn' = (turn + 1) % (QUEUE_REQ_RATIO + 1) /\ out' \in 0 .. MaxBurst
          /\ SwitchSensors /\ UNCHANGED <<sm, nreq>>
      BY <2>3 DEF LookForSample
    <3>2. /\ is_active' \in [EventBased -> BOOLEAN]
          /\ carrier' \in [EventBased -> {"none", "looks", "works", "leaves"}]
      BY <3>1, SwitchTypes DEF IInv
    <3>3. turn' \in 0 .. QUEUE_REQ_RATIO
      BY <3>1, <1>n, SMT
    <3> QED BY <3>1, <3>2, <3>3, <2>u, <1>u, <1>n, SMT
               DEF IInv, TypeOK, PutsInLoop, JoinsInOrder, rootVars, coapVars
  <2> QED BY <1>1, <2>1, <2>2, <2>3 DEF Turn
<1>2. CASE PutResponse
  <2>1. held' = FALSE /\ held' \in BOOLEAN /\ UNCHANGED <<sm, turn, is_active, carrier, nreq>>
    BY <1>2, Zenon DEF PutResponse
  <2>2. out > 0 /\ out' \in 0 .. MaxBurst /\ nres' \in 0 .. COAP_RBUF_SIZE
    BY <1>2, <1>n, SMT DEF PutResponse, IInv, TypeOK
  <2> QED BY <2>1, <2>2, <1>u, <1>n, SMT
     DEF IInv, TypeOK, PutsInLoop, JoinsInOrder, rootVars, coapVars
<1>3. CASE WaitForRoom
  BY <1>3, <1>u, <1>n, SMT
     DEF WaitForRoom, IInv, TypeOK, PutsInLoop, JoinsInOrder, rootVars, coapVars, buffers
<1>4. CASE Retry
  <2>1. /\ held' = FALSE /\ held' \in BOOLEAN /\ nreq' = Got(nreq)
        /\ UNCHANGED <<sm, turn, out, is_active, carrier, nres>>
    BY <1>4, Zenon DEF Retry
  <2> QED BY <2>1, <1>u, <1>n, <1>g, SMT
     DEF IInv, TypeOK, PutsInLoop, JoinsInOrder, rootVars, coapVars
<1>5. CASE JoinCarriers
  BY <1>5, <1>u, <1>n, SMT
     DEF JoinCarriers, IInv, TypeOK, PutsInLoop, JoinsInOrder, rootVars, coapVars, buffers
<1> QED BY <1>1, <1>2, <1>3, <1>4, <1>5 DEF SmNext

(* A carrier thread's steps; one that has ended does nothing. *)
LEMMA CarrierInv ==
  ASSUME NEW s \in EventBased, IInv, Carrier(s)
  PROVE  IInv'
<1>1. /\ carrier[s] # "none"
      /\ \E p \in {"none", "looks", "works", "leaves"} : carrier' = [carrier EXCEPT ![s] = p]
      /\ UNCHANGED <<rootVars, coapVars, smVars, buffers>>
  BY Zenon DEF Carrier, CarrierLooks, CarrierWorks, CarrierLeaves
<1>2. carrier' \in [EventBased -> {"none", "looks", "works", "leaves"}]
  BY <1>1, Zenon DEF IInv, TypeOK
<1>3. sm # "left"
  BY <1>1 DEF IInv, JoinsInOrder
<1> QED BY <1>1, <1>2, <1>3, SMT
           DEF IInv, TypeOK, PutsInLoop, JoinsInOrder, rootVars, coapVars, smVars, buffers

(* Stuttering changes nothing. *)
LEMMA StutterInv == IInv /\ UNCHANGED vars => IInv'
  BY SMT DEF IInv, TypeOK, PutsInLoop, JoinsInOrder, vars, rootVars, coapVars, smVars, buffers

(* IInv is inductive. *)
LEMMA NextInv == IInv /\ [Next]_vars => IInv'
  BY RootInv, CoapInv, SmInv, CarrierInv, StutterInv DEF Next, Ended

(* Every variable has its type: the two counters stay within the buffers.  *)
THEOREM TypeCorrect == Spec => []TypeOK
<1>1. IInv => TypeOK
  BY DEF IInv
<1> QED BY InitInv, NextInv, <1>1, PTL DEF Spec

(* The root frees the contexts and the buffers when neither of the two     *)
(* threads nor a carrier thread is left to use them.                       *)
THEOREM FreesAlone == Spec => []AloneWhenFreeing
<1>1. IInv => AloneWhenFreeing
  BY DEF IInv, JoinsInOrder, AloneWhenFreeing
<1> QED BY InitInv, NextInv, <1>1, PTL DEF Spec

(* No step of any thread helps one that is starved. *)
LEMMA StarvedStep ==
  ASSUME IInv, [Next]_vars
  PROVE  (SmStarved => SmStarved') /\ (CoapStarved => CoapStarved')
<1>n. nres \in Nat /\ nreq \in Nat /\ out \in Nat /\ todo \in Nat
  BY SMT DEF IInv, TypeOK
<1>1. CASE Root
  BY <1>1, SMT DEF Root, Joins, coapVars, smVars, buffers, SmStarved, CoapStarved
<1>2. CASE CoapNext
  BY <1>2, <1>n, SMT DEF CoapNext, CoapTop, Retransmit, Network, Serve, PutRequest, smVars, buffers,
                         SmStarved, CoapStarved
<1>3. CASE SmNext
  BY <1>3, <1>n, SMT DEF SmNext, Turn, PutResponse, WaitForRoom, Retry, JoinCarriers, coapVars,
                         buffers, SmStarved, CoapStarved, IInv, PutsInLoop
<1>4. CASE \E s \in EventBased : Carrier(s)
  BY <1>4, SMT DEF Carrier, coapVars, smVars, buffers, SmStarved, CoapStarved
<1>5. CASE UNCHANGED vars
  BY <1>5, SMT DEF vars, coapVars, smVars, buffers, SmStarved, CoapStarved
<1> QED BY <1>1, <1>2, <1>3, <1>4, <1>5 DEF Next, Ended

(* A thread that waits for a buffer which nobody empties any more waits    *)
(* for ever, whatever the others do and however often the put is retried.  *)
THEOREM StarvedStays == Spec => StarvedForEver
<1>1. IInv /\ [Next]_vars => (SmStarved => SmStarved') /\ (CoapStarved => CoapStarved')
  BY StarvedStep
<1> QED BY InitInv, NextInv, <1>1, PTL DEF Spec, StarvedForEver
=============================================================================
