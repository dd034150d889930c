------------------------------ MODULE SmResBuf ------------------------------
(***************************************************************************)
(* ze_sm_resbuf.c: the ring of COAP_RBUF_SIZE responses that the Streaming *)
(* Manager fills and the CoAP thread drains.  Unlike the request ring, a   *)
(* put on a full ring waits at most two seconds; if the time is over it    *)
(* returns ETIMEDOUT and inserts nothing.  An action is one critical       *)
(* section of the buffer's mutex.                                          *)
(***************************************************************************)
EXTENDS Integers, Sequences

CONSTANTS Response,         (* the responses that are put                   *)
          INVALID_RESPONSE, (* what a get on the empty buffer returns       *)
          COAP_RBUF_SIZE,
          MaxStrays         (* bound: waits that end without a signal         *)

ASSUME ResBufAssumption == /\ COAP_RBUF_SIZE \in Nat \ {0}
                           /\ MaxStrays \in Nat
                           /\ INVALID_RESPONSE \notin Response

VARIABLES rbuf, gethere, puthere, counter,
          pc,      (* the producer: "out", "waiting", "woken" (timedwait    *)
                   (* returns 0) or "late", its two seconds over            *)
          arg,     (* the arguments of a put that waits                     *)
          ret,     (* what the last put returned                            *)
          got,     (* what the last get returned                            *)
          strays   (* how many waits have ended without a signal            *)
vars == <<rbuf, gethere, puthere, counter, pc, arg, ret, got, strays>>

Slots == 0 .. COAP_RBUF_SIZE - 1

TypeOK == /\ rbuf \in [Slots -> Response \cup {INVALID_RESPONSE}]
          /\ gethere \in Slots
          /\ puthere \in Slots
          /\ counter \in Nat
          /\ pc \in {"out", "waiting", "woken", "late"}
          /\ arg \in Response \cup {INVALID_RESPONSE}
          /\ ret \in {"ok", "ETIMEDOUT"}
          /\ got \in Response \cup {INVALID_RESPONSE}
          /\ strays \in 0 .. MaxStrays

(* init_coap_buf: memset and three zeros. *)
Init == /\ rbuf = [i \in Slots |-> INVALID_RESPONSE]
        /\ gethere = 0 /\ puthere = 0 /\ counter = 0
        /\ pc = "out" /\ arg = INVALID_RESPONSE
        /\ ret = "ok" /\ got = INVALID_RESPONSE
        /\ strays = 0

(* The copy of the arguments into the buffer, and the advance of its tail. *)
Insert(x) == /\ rbuf' = [rbuf EXCEPT ![puthere] = x]
             /\ puthere' = (puthere + 1) % COAP_RBUF_SIZE
             /\ counter' = counter + 1
             /\ ret' = "ok"

(* Variant: the test for a full buffer off by one. *)
PutOffByOne(x) == /\ pc = "out"
                  /\ counter <= COAP_RBUF_SIZE
                  /\ Insert(x)
                  /\ UNCHANGED <<gethere, pc, arg, got, strays>>

Put(x) == /\ pc = "out"
          /\ counter < COAP_RBUF_SIZE
          /\ Insert(x)
          /\ UNCHANGED <<gethere, pc, arg, got, strays>>

PutWait(x) == /\ pc = "out"
              /\ counter >= COAP_RBUF_SIZE
              /\ pc' = "waiting"
              /\ arg' = x
              /\ UNCHANGED <<rbuf, gethere, puthere, counter, ret, got, strays>>

(* pthread_cond_timedwait may return 0 although nobody has signalled, as   *)
(* POSIX allows it.                                                        *)
StrayWakeUp == /\ pc = "waiting"
               /\ strays < MaxStrays
               /\ strays' = strays + 1
               /\ pc' = "woken"
               /\ UNCHANGED <<rbuf, gethere, puthere, counter, arg, ret, got>>

(* timedwait returned 0: the code does not look at the counter again, and  *)
(* if there is no room the oldest unread response is overwritten.          *)
PutWoken == /\ pc = "woken"
            /\ Insert(arg)
            /\ pc' = "out"
            /\ arg' = INVALID_RESPONSE
            /\ UNCHANGED <<gethere, got, strays>>

(* The two seconds are over.  The mutex has still to be taken back, and    *)
(* the getter may make room in between: the put is abandoned all the same. *)
Timeout == /\ pc = "waiting"
           /\ pc' = "late"
           /\ UNCHANGED <<rbuf, gethere, puthere, counter, arg, ret, got, strays>>

(* Variant: the insertion is no longer subject to the result of the wait.  *)
PutAnyway == /\ pc = "late"
             /\ Insert(arg)
             /\ pc' = "out"
             /\ arg' = INVALID_RESPONSE
             /\ UNCHANGED <<gethere, got, strays>>

(* Variant: the response is inserted, and yet the time-out reported.       *)
PutAndTimedOut == /\ pc = "late"
                  /\ rbuf' = [rbuf EXCEPT ![puthere] = arg]
                  /\ puthere' = (puthere + 1) % COAP_RBUF_SIZE
                  /\ counter' = counter + 1
                  /\ ret' = "ETIMEDOUT"
                  /\ pc' = "out"
                  /\ arg' = INVALID_RESPONSE
                  /\ UNCHANGED <<gethere, got, strays>>

(* Variant: a put that has timed out waits again.                          *)
WaitAgain == /\ pc = "late"
             /\ pc' = "waiting"
             /\ UNCHANGED <<rbuf, gethere, puthere, counter, arg, ret, got, strays>>

PutTimedOut == /\ pc = "late"
               /\ ret' = "ETIMEDOUT"
               /\ pc' = "out"
               /\ arg' = INVALID_RESPONSE
               /\ UNCHANGED <<rbuf, gethere, puthere, counter, got, strays>>

(* Variant: a signal only when the buffer has become empty. *)
SignalWhenEmpty == pc' = IF pc = "waiting" /\ counter = 1 THEN "woken" ELSE pc

(* pthread_cond_signal wakes the producer if it still waits.               *)
Signal == pc' = IF pc = "waiting" THEN "woken" ELSE pc

(* Variant: the index runs past the last slot. *)
GetNoWrap == /\ counter > 0
             /\ got' = rbuf[gethere]
             /\ gethere' = gethere + 1
             /\ counter' = counter - 1
             /\ Signal
             /\ UNCHANGED <<rbuf, puthere, arg, ret, strays>>

Get == /\ counter > 0
       /\ got' = rbuf[gethere]
       /\ gethere' = (gethere + 1) % COAP_RBUF_SIZE
       /\ counter' = counter - 1
       /\ Signal
       /\ UNCHANGED <<rbuf, puthere, arg, ret, strays>>

GetEmpty == /\ counter <= 0
            /\ got' = INVALID_RESPONSE
            /\ UNCHANGED <<rbuf, gethere, puthere, counter, pc, arg, ret, strays>>

Next == \/ \E x \in Response : Put(x) \/ PutWait(x)
        \/ StrayWakeUp \/ PutWoken \/ Timeout \/ PutTimedOut \/ Get \/ GetEmpty

Spec == Init /\ [][Next]_vars

(* Time passes, and a thread that may have the mutex gets it.  Nothing is  *)
(* assumed of the getter.                                                  *)
FairSpec == /\ Spec
            /\ WF_vars(Timeout) /\ WF_vars(PutTimedOut) /\ WF_vars(PutWoken)
-----------------------------------------------------------------------------
(* The responses in the buffer, oldest first. *)
Contents == [i \in 1 .. counter |-> rbuf[(gethere + i - 1) % COAP_RBUF_SIZE]]

Fifo == INSTANCE BoundedFifo
          WITH Item <- Response, Nothing <- INVALID_RESPONSE,
               Size <- COAP_RBUF_SIZE, CanGiveUp <- TRUE,
               q <- Contents, held <- arg

(* The ring hands out what was put, in order, each response once, and a    *)
(* put that times out leaves no trace in it, until a timedwait returns 0   *)
(* without a signal; and even then it loses no more than the responses     *)
(* such a wait overwrites: it implements BoundedFifo.                      *)
ImplementsFifo == Fifo!Spec

(* put_response_buf_item looks at the result of its wait, but not at the   *)
(* counter again.  In whatever order the getter's signals, the timeouts,   *)
(* the returns without a signal and the producer's way back come, the      *)
(* buffer is overrun by no more responses than there were such returns.    *)
NoOverrun == counter <= COAP_RBUF_SIZE + strays

(* The producer sleeps only while the buffer is full.                      *)
NoLostWakeup == pc = "waiting" => counter >= COAP_RBUF_SIZE

(* ETIMEDOUT is the answer of a put only if its response was not inserted, *)
(* and 0 only if it was: the caller keeps or frees the packet by it.       *)
ReturnTellsInsertion ==
    [][pc # "out" /\ pc' = "out" =>
         counter' - counter = (IF ret' = "ok" THEN 1 ELSE 0)]_vars

(* A put returns even if the getter has stopped for good.  The header says *)
(* the opposite (resbuf.h:87, "it also blocks indefinitely is the buffer   *)
(* is full"): the words are those of the request buffer's header, and the  *)
(* code here waits for two seconds.                                        *)
PutReturns == pc = "waiting" ~> pc = "out"
=============================================================================
