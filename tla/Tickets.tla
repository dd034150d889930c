------------------------------- MODULE Tickets -------------------------------
(***************************************************************************)
(* What the CoAP thread and the Streaming Manager exchange.  A request     *)
(* names a sensor and carries a ticket; a response carries the ticket      *)
(* back.  The ticket of a stream is the address of a registration, that of *)
(* a one-shot request the identifier of an asynchronous transaction; the   *)
(* Streaming Manager never looks behind it.  The two buffers are queues of *)
(* bounded length, which is what SmReqBuf and SmResBuf implement.          *)
(***************************************************************************)
EXTENDS Integers, Sequences, FiniteSets

CONSTANTS Regs,           (* addresses malloc may return for a registration *)
          Tids,           (* identifiers of asynchronous transactions       *)
          Sensors,
          SM_RBUF_SIZE,   (* slots of the request buffer                    *)
          COAP_RBUF_SIZE  (* slots of the response buffer                   *)

ASSUME TicketAssumption == /\ SM_RBUF_SIZE \in Nat \ {0}
                           /\ COAP_RBUF_SIZE \in Nat \ {0}
                           /\ Regs \cap Tids = {}
                           /\ IsFiniteSet(Sensors)

VARIABLES reqbuf,  (* requests on their way to the Streaming Manager        *)
          resbuf   (* responses on their way to the CoAP thread             *)

StreamRequest == [rtype : {"START", "STOP"}, sensor : Sensors, ticket : Regs]
OneshotRequest == [rtype : {"ONESHOT"}, sensor : Sensors, ticket : Tids]
Request == StreamRequest \cup OneshotRequest

StreamResponse == [rtype : {"STREAM_UPDATE", "STREAM_STOPPED"}, ticket : Regs]
OneshotResponse == [rtype : {"ONESHOT"}, ticket : Tids]
Response == StreamResponse \cup OneshotResponse

Start(s, r) == [rtype |-> "START", sensor |-> s, ticket |-> r]
Stop(s, r) == [rtype |-> "STOP", sensor |-> s, ticket |-> r]
Oneshot(s, t) == [rtype |-> "ONESHOT", sensor |-> s, ticket |-> t]

Updated(r) == [rtype |-> "STREAM_UPDATE", ticket |-> r]
Stopped(r) == [rtype |-> "STREAM_STOPPED", ticket |-> r]
Answer(t) == [rtype |-> "ONESHOT", ticket |-> t]

One(b) == IF b THEN 1 ELSE 0

(* How many messages of kind k with ticket t the queue holds. *)
Count(queue, k, t) ==
    Cardinality({i \in DOMAIN queue : queue[i].rtype = k /\ queue[i].ticket = t})
=============================================================================
