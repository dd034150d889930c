------------------------------ MODULE Shutdown ------------------------------
(***************************************************************************)
(* How the server ends: ze_server_root sets globalexit, joins the          *)
(* Streaming Manager and then the CoAP thread, and frees what they shared. *)
(* The Streaming Manager for its part joins the carrier threads.  Every    *)
(* loop looks at globalexit in its condition only, and neither of the two  *)
(* puts that may be held looks at it at all.  Of the two buffers only the  *)
(* number of items matters here, and of the messages only how many a       *)
(* handler puts.                                                           *)
(***************************************************************************)
EXTENDS Naturals

CONSTANTS EventBased,      (* the sensors that have a carrier thread        *)
          SM_RBUF_SIZE, COAP_RBUF_SIZE,
          SMREQ_RATIO, QUEUE_REQ_RATIO,
          MaxBurst         (* bound: responses that a sample brings about   *)

ASSUME ShutdownAssumption == /\ SM_RBUF_SIZE \in Nat \ {0}
                             /\ COAP_RBUF_SIZE \in Nat \ {0}
                             /\ SMREQ_RATIO \in Nat \ {0}
                             /\ QUEUE_REQ_RATIO \in Nat \ {0}
                             /\ MaxBurst \in Nat \ {0}

VARIABLES globalexit,
          root,       (* where ze_server_root is, after starting the threads *)
          coap,       (* where the CoAP thread is                           *)
          todo,       (* requests the running handler has still to put      *)
          smcount,    (* responses fetched in this turn of the loop         *)
          sm,         (* where the Streaming Manager is                     *)
          turn,       (* 0: at the loop's condition; n: the n-th look for a *)
                      (* sample is due                                      *)
          out,        (* responses it has still to put                      *)
          held,       (* does put_response_buf_item wait?                   *)
          is_active,
          carrier,    (* where the carrier thread of a sensor is            *)
          nreq, nres  (* the buffers' counters                              *)
rootVars == <<globalexit, root>>
coapVars == <<coap, todo, smcount>>
smVars == <<sm, turn, out, held, is_active>>
buffers == <<nreq, nres>>
vars == <<rootVars, coapVars, smVars, carrier, buffers>>

TypeOK == /\ globalexit \in BOOLEAN
          /\ root \in {"watches", "joins_sm", "joins_coap", "frees", "closed"}
          /\ coap \in {"top", "retransmit", "network", "serve", "left"}
          /\ todo \in 0 .. 2
          /\ smcount \in 0 .. SMREQ_RATIO
          /\ sm \in {"loop", "joins", "left"}
          /\ turn \in 0 .. QUEUE_REQ_RATIO
          /\ out \in 0 .. MaxBurst
          /\ held \in BOOLEAN
          /\ is_active \in [EventBased -> BOOLEAN]
          /\ carrier \in [EventBased -> {"none", "looks", "works", "leaves"}]
          /\ nreq \in 0 .. SM_RBUF_SIZE
          /\ nres \in 0 .. COAP_RBUF_SIZE

Init == /\ globalexit = FALSE /\ root = "watches"
        /\ coap = "top" /\ todo = 0 /\ smcount = 0
        /\ sm = "loop" /\ turn = 0 /\ out = 0 /\ held = FALSE
        /\ is_active = [s \in EventBased |-> FALSE]
        /\ carrier = [s \in EventBased |-> "none"]
        /\ nreq = 0 /\ nres = 0

(* What a get leaves in a buffer of n items. *)
Got(n) == IF n = 0 THEN 0 ELSE n - 1
-----------------------------------------------------------------------------
(* The root asks Java once a second, and spreads an exit request.          *)
ExitRequested == /\ root = "watches"
                 /\ globalexit' = TRUE
                 /\ root' = "joins_sm"

JoinSm == root = "joins_sm" /\ sm = "left" /\ root' = "joins_coap" /\ UNCHANGED globalexit
JoinCoap == root = "joins_coap" /\ coap = "left" /\ root' = "frees" /\ UNCHANGED globalexit

(* The contexts and the two buffers, one after the other, then the log.    *)
FreeAll == root = "frees" /\ root' = "closed" /\ UNCHANGED globalexit

Joins == /\ JoinSm \/ JoinCoap \/ FreeAll
         /\ UNCHANGED <<coapVars, smVars, carrier, buffers>>
Root == \/ ExitRequested /\ UNCHANGED <<coapVars, smVars, carrier, buffers>>
        \/ Joins
-----------------------------------------------------------------------------
(* Variant: the thread wants to leave with the response buffer drained,    *)
(* which the loop over the responses no longer does after an exit request. *)
LeaveWhenDrained == /\ coap = "top"
                    /\ coap' = IF globalexit /\ nres = 0 THEN "left" ELSE "retransmit"
                    /\ UNCHANGED <<todo, smcount, buffers>>

(* The condition of the CoAP thread's loop. *)
CoapTop == /\ coap = "top"
           /\ coap' = IF globalexit THEN "left" ELSE "retransmit"
           /\ UNCHANGED <<todo, smcount, buffers>>

(* A retransmission may be the last one that a client fails to confirm,    *)
(* and then puts a STOP; after an exit request no other one is begun.      *)
Retransmit == /\ coap = "retransmit"
              /\ \/ ~globalexit /\ todo' \in {0, 1} /\ UNCHANGED coap
                 \/ coap' = "network" /\ UNCHANGED todo
              /\ UNCHANGED <<smcount, buffers>>

(* A message from the network, or none: an observing GET puts one request, *)
(* a plain one up to two.                                                  *)
Network == /\ coap = "network"
           /\ todo' \in 0 .. 2
           /\ coap' = "serve" /\ smcount' = 0
           /\ UNCHANGED buffers

(* The loop over the responses. *)
Serve == /\ coap = "serve"
         /\ IF smcount < SMREQ_RATIO /\ ~globalexit
            THEN nres' = Got(nres) /\ smcount' = smcount + 1 /\ UNCHANGED coap
            ELSE coap' = "top" /\ UNCHANGED <<nres, smcount>>
         /\ UNCHANGED <<todo, nreq>>

(* put_request_buf_item: held, for as long as it takes, while the buffer   *)
(* is full.                                                                *)
PutRequest == /\ todo > 0 /\ nreq < SM_RBUF_SIZE
              /\ nreq' = nreq + 1 /\ todo' = todo - 1
              /\ UNCHANGED <<coap, smcount, nres>>

CoapNext == /\ \/ todo = 0 /\ (CoapTop \/ Retransmit \/ Network \/ Serve)
               \/ PutRequest
            /\ UNCHANGED <<rootVars, smVars, carrier>>
-----------------------------------------------------------------------------
(* A request or a sample may turn a sensor on or off; turned on, it gets a *)
(* carrier thread unless the last one has not ended yet.                   *)
SwitchSensors ==
    \/ UNCHANGED <<is_active, carrier>>
    \/ \E s \in EventBased :
          \/ /\ is_active' = [is_active EXCEPT ![s] = TRUE]
             /\ carrier' = [carrier EXCEPT ![s] = IF @ = "none" THEN "looks" ELSE @]
          \/ is_active' = [is_active EXCEPT ![s] = FALSE] /\ UNCHANGED carrier

(* The loop's condition, and the request of the turn: at most one response.*)
BeginTurn == /\ turn = 0
             /\ IF globalexit
                THEN sm' = "joins" /\ UNCHANGED <<turn, out, is_active, carrier, nreq>>
                ELSE /\ nreq' = Got(nreq) /\ turn' = 1
                     /\ out' \in IF nreq = 0 THEN {0} ELSE {0, 1}
                     /\ SwitchSensors
                     /\ UNCHANGED sm

(* A look for a sample, with the responses it brings about. *)
LookForSample == /\ turn # 0
                 /\ turn' = (turn + 1) % (QUEUE_REQ_RATIO + 1)
                 /\ out' \in 0 .. MaxBurst
                 /\ SwitchSensors
                 /\ UNCHANGED <<sm, nreq>>

Turn == /\ sm = "loop" /\ out = 0
        /\ BeginTurn \/ LookForSample
        /\ UNCHANGED <<held, nres>>

(* Variant: a put that has waited inserts, room or not. *)
PutUnchecked == /\ out > 0 /\ (nres < COAP_RBUF_SIZE \/ held)
                /\ nres' = nres + 1 /\ out' = out - 1
                /\ held' = FALSE
                /\ UNCHANGED <<sm, turn, is_active, carrier, nreq>>

(* put_response_buf_item inserts. *)
PutResponse == /\ out > 0 /\ nres < COAP_RBUF_SIZE
               /\ nres' = nres + 1 /\ out' = out - 1
               /\ held' = FALSE
               /\ UNCHANGED <<sm, turn, is_active, carrier, nreq>>

WaitForRoom == /\ out > 0 /\ nres = COAP_RBUF_SIZE /\ ~held
               /\ held' = TRUE
               /\ UNCHANGED <<sm, turn, out, is_active, carrier, buffers>>

(* Variant: the put is tried again and no request is taken. *)
RetryOnly == /\ held
             /\ held' = FALSE
             /\ UNCHANGED <<sm, turn, out, is_active, carrier, buffers>>

(* Two seconds are over: put_response_helper takes a request and tries     *)
(* again, exit request or not.                                             *)
Retry == /\ held
         /\ held' = FALSE
         /\ nreq' = Got(nreq)
         /\ UNCHANGED <<sm, turn, out, is_active, carrier, nres>>

(* Variant: the carrier threads are left to themselves. *)
JoinNoCarrier == /\ sm = "joins"
                 /\ sm' = "left"
                 /\ UNCHANGED <<turn, out, held, is_active, carrier, buffers>>

(* Both carrier threads are joined, whether they have been started or not. *)
JoinCarriers == /\ sm = "joins"
                /\ \A s \in EventBased : carrier[s] = "none"
                /\ sm' = "left"
                /\ UNCHANGED <<turn, out, held, is_active, carrier, buffers>>

SmNext == /\ Turn \/ PutResponse \/ WaitForRoom \/ Retry \/ JoinCarriers
          /\ UNCHANGED <<rootVars, coapVars>>
-----------------------------------------------------------------------------
(* Variant: only the sensor is looked at. *)
LooksAtSensor(s) == /\ carrier[s] = "looks"
                    /\ carrier' = [carrier EXCEPT ![s] =
                                     IF is_active[s] THEN "works" ELSE "leaves"]

(* The condition of ze_carrier_thread's loop. *)
CarrierLooks(s) == /\ carrier[s] = "looks"
                   /\ carrier' = [carrier EXCEPT ![s] =
                                    IF ~globalexit /\ is_active[s] THEN "works" ELSE "leaves"]
(* It repeats the cached sample and sleeps for a period. *)
CarrierWorks(s) == carrier[s] = "works" /\ carrier' = [carrier EXCEPT ![s] = "looks"]
CarrierLeaves(s) == carrier[s] = "leaves" /\ carrier' = [carrier EXCEPT ![s] = "none"]

Carrier(s) == /\ CarrierLooks(s) \/ CarrierWorks(s) \/ CarrierLeaves(s)
              /\ UNCHANGED <<rootVars, coapVars, smVars, buffers>>
-----------------------------------------------------------------------------
(* A thread that waits for a buffer which nobody empties any more.         *)
SmStarved == sm = "loop" /\ out > 0 /\ nres = COAP_RBUF_SIZE /\ coap = "left"
CoapStarved == todo > 0 /\ nreq = SM_RBUF_SIZE /\ sm # "loop"

Ended == (root = "closed" \/ CoapStarved) /\ UNCHANGED vars

Next == \/ Root \/ CoapNext \/ SmNext
        \/ \E s \in EventBased : Carrier(s)
        \/ Ended

Spec == Init /\ [][Next]_vars

EndOfRetransmissions == CoapNext /\ coap = "retransmit" /\ coap' = "network"

(* Every thread runs, and the retransmissions that are due come to an end, *)
(* since each is put off for longer than the last one.  Java need not ever *)
(* ask for the exit.                                                       *)
FairSpec == /\ Spec
            /\ WF_vars(Joins)
            /\ WF_vars(CoapNext) /\ WF_vars(SmNext)
            /\ SF_vars(EndOfRetransmissions)
            /\ \A s \in EventBased : WF_vars(Carrier(s))
-----------------------------------------------------------------------------
(* The root frees the contexts and the buffers (root.c:318) when no thread *)
(* that uses them is left: not the two it joins itself, nor a carrier      *)
(* thread, which only the Streaming Manager joins and which may have been  *)
(* started in its last turn.                                               *)
AloneWhenFreeing ==
    root \in {"frees", "closed"} =>
        /\ sm = "left" /\ coap = "left"
        /\ \A s \in EventBased : carrier[s] = "none"

(* Two buffers that are full at once, each thread waiting for the other to *)
(* drain one, do not hold them: put_response_helper's timeout takes a      *)
(* request, which lets the CoAP thread go on and fetch responses.  So a    *)
(* thread is held for ever in put_request_buf_item, or in                  *)
(* put_response_helper, only if the other one has left its loop.           *)
RequestsPut == todo > 0 ~> todo = 0 \/ CoapStarved
ResponsesPut == out > 0 ~> out = 0 \/ SmStarved

(* A thread that is starved stays so: the timeout does not help, since the *)
(* loop around put_response_helper's wait ends only with a successful put; *)
(* nor is there anyone to signal the CoAP thread.                          *)
StarvedForEver == [][/\ SmStarved => SmStarved'
                     /\ CoapStarved => CoapStarved']_vars

(* An exit request is carried out, unless one of the two threads leaves    *)
(* while the other one is held by a full buffer, or comes to be, and then  *)
(* that one is held for ever and the process never ends.                   *)
ExitOrStarved == globalexit ~> root = "closed" \/ []SmStarved \/ []CoapStarved

(* Whatever becomes of the two threads, the carrier threads all end, and   *)
(* none is started again.                                                  *)
CarriersEnd == globalexit ~> [](\A s \in EventBased : carrier[s] = "none")
=============================================================================
