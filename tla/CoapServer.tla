----------------------------- MODULE CoapServer -----------------------------
(***************************************************************************)
(* The CoAP thread: ze_coap_server_core_thread with the resource handlers  *)
(* it calls.  It owns the registrations and the asynchronous transactions, *)
(* counts the references to a registration, and gives a reference away     *)
(* with every START it puts (the ticket) and every confirmable             *)
(* notification it sends (the transaction).  libcoap, which is not under   *)
(* src/, is modelled from the way this code uses it.                       *)
(*                                                                         *)
(* Nobody else touches a registration, so a handler changes them in one    *)
(* step; the requests it puts meanwhile are left in todo, and until they   *)
(* are all in the buffer the thread does nothing else.                     *)
(***************************************************************************)
EXTENDS Tickets

CONSTANTS Clients,
          SMREQ_RATIO,       (* responses fetched in a turn of the loop     *)
          COAP_OBS_MAX_FAIL, (* notifications a client may fail to confirm  *)
          FindsInvalid,      (* may libcoap hand out a registration that    *)
                             (* is invalid?                                 *)
          MaxRef,            (* bound: references to a registration         *)
          NoOwner, NoReg

ASSUME CoapAssumption == /\ SMREQ_RATIO \in Nat \ {0}
                         /\ COAP_OBS_MAX_FAIL \in Nat
                         /\ FindsInvalid \in BOOLEAN
                         /\ MaxRef \in Nat
                         /\ NoOwner \notin Clients \X Sensors
                         /\ NoReg \notin Regs

VARIABLES reg,      (* the registration at each address                     *)
          trans,    (* confirmable notifications neither acknowledged nor   *)
                    (* given up, for each registration                      *)
          async,    (* asynchronous transactions to be answered             *)
          todo,     (* what the running handler has still to put            *)
          cpc,      (* "retransmit", "network" or "serve"                   *)
          smcount   (* responses fetched in this turn of the loop           *)
coapVars == <<reg, trans, async, todo, cpc, smcount>>

Free == [owner |-> NoOwner, ref |-> 0, invalid |-> FALSE, fail_cnt |-> 0]

Registration == [owner : (Clients \X Sensors) \cup {NoOwner}, ref : Int,
                 invalid : BOOLEAN, fail_cnt : 0 .. COAP_OBS_MAX_FAIL + 1]

CoapTypeOK == /\ reg \in [Regs -> Registration]
              /\ trans \in [Regs -> Nat]
              /\ async \in SUBSET Tids
              /\ todo \in Seq(Request)
              /\ cpc \in {"retransmit", "network", "serve"}
              /\ smcount \in 0 .. SMREQ_RATIO

CoapInit == /\ reg = [r \in Regs |-> Free]
            /\ trans = [r \in Regs |-> 0]
            /\ async = {}
            /\ todo = <<>>
            /\ cpc = "retransmit"
            /\ smcount = 0

Alive(r) == reg[r].owner # NoOwner
Owned(c, s) == {r \in Regs : reg[r].owner = <<c, s>>}
Valid(c, s) == {r \in Owned(c, s) : ~reg[r].invalid}

(* What generic_on_unregister does to a registration. *)
Invalidated(x) == [x EXCEPT !.invalid = TRUE]

(* One more notification without an acknowledgement.  fail_cnt is compared *)
(* with the maximum only, so it stops counting above it.                   *)
Failed(x) == [x EXCEPT !.fail_cnt = IF @ <= COAP_OBS_MAX_FAIL THEN @ + 1 ELSE @]

(* An acknowledgement came; whether libcoap forgives the earlier failures  *)
(* is left open.                                                           *)
Confirmed(x, forgiven) == [x EXCEPT !.fail_cnt = IF forgiven THEN 0 ELSE @]

(* coap_registration_checkout *)
CheckedOut(x) == [x EXCEPT !.ref = @ + 1]

(* Variant: the registration goes with the first reference that comes back.*)
ReleasedAtOnce(x) == Free

(* coap_registration_release, which frees the registration with its last   *)
(* reference.                                                              *)
Released(x) == IF x.ref = 1 THEN Free ELSE [x EXCEPT !.ref = @ - 1]
-----------------------------------------------------------------------------
(* coap_add_registration: the client's registration on the resource, or a  *)
(* new one.                                                                *)
AddRegistration(c, s) ==
    IF Valid(c, s) # {} THEN Valid(c, s)
    ELSE {r \in Regs : ~Alive(r)} \cup (IF FindsInvalid THEN Owned(c, s) ELSE {})

(* coap_find_registration. *)
FindRegistration(c, s) ==
    IF Valid(c, s) # {} THEN Valid(c, s)
    ELSE {NoReg} \cup (IF FindsInvalid THEN Owned(c, s) ELSE {})

(* generic_GET_handler with the observe option: a new ticket, whether or   *)
(* not the registration is new.                                            *)
ObserveGet(c, s) ==
    \E r \in AddRegistration(c, s) :
        /\ reg[r].ref < MaxRef
        /\ reg' = [reg EXCEPT ![r] =
                      CheckedOut(IF Alive(r) THEN @ ELSE [Free EXCEPT !.owner = <<c, s>>])]
        /\ todo' = <<Start(s, r)>>
        /\ UNCHANGED <<trans, async>>

(* Variant: the client's registration is cleared, its stream goes on.      *)
ClearedOnly(c, s, t) ==
    /\ t \notin async
    /\ async' = async \cup {t}
    /\ todo' = <<Oneshot(s, t)>>
    /\ \E r \in FindRegistration(c, s) :
          reg' = IF r = NoReg THEN reg ELSE [reg EXCEPT ![r] = Invalidated(@)]
    /\ UNCHANGED trans

(* generic_GET_handler without it: a one-shot request, then the client's   *)
(* registration, if it has one, is cleared through generic_on_unregister.  *)
PlainGet(c, s, t) ==
    /\ t \notin async
    /\ async' = async \cup {t}
    /\ \E r \in FindRegistration(c, s) :
          IF r = NoReg
          THEN todo' = <<Oneshot(s, t)>> /\ UNCHANGED reg
          ELSE /\ reg' = [reg EXCEPT ![r] = Invalidated(@)]
               /\ todo' = <<Oneshot(s, t), Stop(s, r)>>
    /\ UNCHANGED trans

(* An acknowledgement ends a transaction. *)
Acknowledged(r) ==
    /\ trans[r] > 0
    /\ trans' = [trans EXCEPT ![r] = @ - 1]
    /\ \E forgiven \in BOOLEAN : reg' = [reg EXCEPT ![r] = Released(Confirmed(@, forgiven))]
    /\ UNCHANGED <<async, todo>>

(* Variant: the transaction's reference is not released. *)
GiveUpHolding(r) ==
    /\ cpc = "retransmit" /\ todo = <<>>
    /\ trans[r] > 0
    /\ trans' = [trans EXCEPT ![r] = @ - 1]
    /\ IF reg[r].fail_cnt < COAP_OBS_MAX_FAIL
       THEN /\ reg' = [reg EXCEPT ![r] = Failed(@)]
            /\ UNCHANGED todo
       ELSE /\ reg' = [reg EXCEPT ![r] = Invalidated(Failed(@))]
            /\ todo' = <<Stop(reg[r].owner[2], r)>>
    /\ UNCHANGED <<async, cpc, smcount, reqbuf, resbuf>>

(* The last retransmission has gone unanswered (coap_retransmit): a        *)
(* failure; the one after COAP_OBS_MAX_FAIL unregisters the client.        *)
GiveUp(r) ==
    /\ cpc = "retransmit" /\ todo = <<>>
    /\ trans[r] > 0
    /\ trans' = [trans EXCEPT ![r] = @ - 1]
    /\ IF reg[r].fail_cnt < COAP_OBS_MAX_FAIL
       THEN /\ reg' = [reg EXCEPT ![r] = Released(Failed(@))]
            /\ UNCHANGED todo
       ELSE /\ reg' = [reg EXCEPT ![r] = Released(Invalidated(Failed(@)))]
            /\ todo' = <<Stop(reg[r].owner[2], r)>>
    /\ UNCHANGED <<async, cpc, smcount, reqbuf, resbuf>>

(* The retransmissions of this turn are done. *)
Retransmitted == /\ cpc = "retransmit" /\ todo = <<>>
                 /\ cpc' = "network"
                 /\ UNCHANGED <<reg, trans, async, todo, smcount, reqbuf, resbuf>>

(* select, coap_read and coap_dispatch: at most one message a turn. *)
Network ==
    /\ cpc = "network" /\ todo = <<>>
    /\ \/ \E c \in Clients, s \in Sensors : ObserveGet(c, s)
       \/ \E c \in Clients, s \in Sensors, t \in Tids : PlainGet(c, s, t)
       \/ \E r \in Regs : Acknowledged(r)
       \/ UNCHANGED <<reg, trans, async, todo>>
    /\ cpc' = "serve"
    /\ smcount' = 0
    /\ UNCHANGED <<reqbuf, resbuf>>

(* Variant: a request goes before those that wait. *)
PutRequestFirst == /\ todo # <<>>
                   /\ Len(reqbuf) < SM_RBUF_SIZE
                   /\ reqbuf' = <<Head(todo)>> \o reqbuf
                   /\ todo' = Tail(todo)
                   /\ UNCHANGED <<reg, trans, async, cpc, smcount, resbuf>>

(* put_request_buf_item, which holds the thread while the buffer is full.  *)
PutRequest == /\ todo # <<>>
              /\ Len(reqbuf) < SM_RBUF_SIZE
              /\ reqbuf' = Append(reqbuf, Head(todo))
              /\ todo' = Tail(todo)
              /\ UNCHANGED <<reg, trans, async, cpc, smcount, resbuf>>
-----------------------------------------------------------------------------
(* The Streaming Manager has given its ticket back. *)
ServeStopped(r) == /\ reg' = [reg EXCEPT ![r] = Released(@)]
                   /\ UNCHANGED <<trans, async>>

(* The sample goes out and the asynchronous transaction is removed. *)
ServeOneshot(t) == /\ async' = async \ {t}
                   /\ UNCHANGED <<reg, trans>>

(* Variant: the transaction gets the reference without a checkout. *)
UpdateUncounted(r) ==
    /\ trans' = IF reg[r].fail_cnt <= COAP_OBS_MAX_FAIL
                THEN [trans EXCEPT ![r] = @ + 1] ELSE trans
    /\ UNCHANGED <<reg, async>>

(* A notification goes out, confirmable (the Streaming Manager asks for no *)
(* other), unless the client has failed too often.                         *)
ServeUpdate(r) ==
    /\ IF reg[r].fail_cnt <= COAP_OBS_MAX_FAIL
       THEN /\ reg' = [reg EXCEPT ![r] = CheckedOut(@)]
            /\ trans' = [trans EXCEPT ![r] = @ + 1]
       ELSE UNCHANGED <<reg, trans>>
    /\ UNCHANGED async

(* One of the SMREQ_RATIO fetches of a turn; an empty buffer counts too. *)
Serve ==
    /\ cpc = "serve" /\ todo = <<>>
    /\ IF resbuf = <<>>
       THEN UNCHANGED <<reg, trans, async, resbuf>>
       ELSE LET m == Head(resbuf) IN
            /\ resbuf' = Tail(resbuf)
            /\ \/ m.rtype = "STREAM_STOPPED" /\ ServeStopped(m.ticket)
               \/ m.rtype = "ONESHOT" /\ ServeOneshot(m.ticket)
               \/ m.rtype = "STREAM_UPDATE" /\ ServeUpdate(m.ticket)
    /\ smcount' = (smcount + 1) % SMREQ_RATIO
    /\ cpc' = IF smcount + 1 = SMREQ_RATIO THEN "retransmit" ELSE "serve"
    /\ UNCHANGED <<todo, reqbuf>>

CoapNext == \/ \E r \in Regs : GiveUp(r)
            \/ Retransmitted \/ Network \/ PutRequest \/ Serve
=============================================================================
