------------------------------ MODULE SmReqBuf ------------------------------
(***************************************************************************)
(* ze_sm_reqbuf.c: the ring of SM_RBUF_SIZE requests that the CoAP thread  *)
(* fills and the Streaming Manager drains.  Both functions run under the   *)
(* buffer's mutex, which the producer gives up only inside                 *)
(* pthread_cond_wait, so an action is one critical section: the part of    *)
(* put_request_buf_item up to the wait, and the part after it.             *)
(***************************************************************************)
EXTENDS Integers, Sequences

CONSTANTS Request,       (* the requests that are put                       *)
          SM_REQ_INVALID,(* what a get on the empty buffer returns          *)
          SM_RBUF_SIZE,
          MaxStrays      (* bound: waits that end without a signal            *)

ASSUME ReqBufAssumption == /\ SM_RBUF_SIZE \in Nat \ {0}
                           /\ MaxStrays \in Nat
                           /\ SM_REQ_INVALID \notin Request

VARIABLES rbuf, gethere, puthere, counter,
          pc,      (* the producer: "out", "waiting" or "woken"             *)
          arg,     (* the arguments of a put that waits                     *)
          got,     (* what the last get returned                            *)
          strays   (* how many waits have ended without a signal            *)
vars == <<rbuf, gethere, puthere, counter, pc, arg, got, strays>>

Slots == 0 .. SM_RBUF_SIZE - 1

TypeOK == /\ rbuf \in [Slots -> Request \cup {SM_REQ_INVALID}]
          /\ gethere \in Slots
          /\ puthere \in Slots
          /\ counter \in Nat
          /\ pc \in {"out", "waiting", "woken"}
          /\ arg \in Request \cup {SM_REQ_INVALID}
          /\ got \in Request \cup {SM_REQ_INVALID}
          /\ strays \in 0 .. MaxStrays

(* init_sm_buf: memset and three zeros. *)
Init == /\ rbuf = [i \in Slots |-> SM_REQ_INVALID]
        /\ gethere = 0 /\ puthere = 0 /\ counter = 0
        /\ pc = "out" /\ arg = SM_REQ_INVALID /\ got = SM_REQ_INVALID
        /\ strays = 0

(* Variant: the head does not advance. *)
InsertInPlace(x) == /\ rbuf' = [rbuf EXCEPT ![puthere] = x]
                    /\ counter' = counter + 1
                    /\ UNCHANGED puthere

(* The copy of the arguments into the buffer, and the advance of its head. *)
Insert(x) == /\ rbuf' = [rbuf EXCEPT ![puthere] = x]
             /\ puthere' = (puthere + 1) % SM_RBUF_SIZE
             /\ counter' = counter + 1

(* Variant: the test for a full buffer off by one. *)
PutOffByOne(x) == /\ pc = "out"
                  /\ counter <= SM_RBUF_SIZE
                  /\ Insert(x)
                  /\ UNCHANGED <<gethere, pc, arg, got, strays>>

Put(x) == /\ pc = "out"
          /\ counter < SM_RBUF_SIZE
          /\ Insert(x)
          /\ UNCHANGED <<gethere, pc, arg, got, strays>>

PutWait(x) == /\ pc = "out"
              /\ counter >= SM_RBUF_SIZE
              /\ pc' = "waiting"
              /\ arg' = x
              /\ UNCHANGED <<rbuf, gethere, puthere, counter, got, strays>>

(* pthread_cond_wait may return although nobody has signalled, as POSIX    *)
(* allows it.                                                              *)
StrayWakeUp == /\ pc = "waiting"
               /\ strays < MaxStrays
               /\ strays' = strays + 1
               /\ pc' = "woken"
               /\ UNCHANGED <<rbuf, gethere, puthere, counter, arg, got>>

(* After the wait the code does not look at the counter again: if there is *)
(* no room, the oldest unread request is overwritten.                      *)
PutWoken == /\ pc = "woken"
            /\ Insert(arg)
            /\ pc' = "out"
            /\ arg' = SM_REQ_INVALID
            /\ UNCHANGED <<gethere, got, strays>>

(* Variant: a signal only when the buffer has become empty. *)
SignalWhenEmpty == pc' = IF pc = "waiting" /\ counter = 1 THEN "woken" ELSE pc

(* Variant: nobody signals. *)
NoSignal == UNCHANGED pc

(* pthread_cond_signal wakes the producer if it waits. *)
Signal == pc' = IF pc = "waiting" THEN "woken" ELSE pc

(* Variant: the index runs past the last slot. *)
GetNoWrap == /\ counter > 0
             /\ got' = rbuf[gethere]
             /\ gethere' = gethere + 1
             /\ counter' = counter - 1
             /\ Signal
             /\ UNCHANGED <<rbuf, puthere, arg, strays>>

Get == /\ counter > 0
       /\ got' = rbuf[gethere]
       /\ gethere' = (gethere + 1) % SM_RBUF_SIZE
       /\ counter' = counter - 1
       /\ Signal
       /\ UNCHANGED <<rbuf, puthere, arg, strays>>

GetEmpty == /\ counter <= 0
            /\ got' = SM_REQ_INVALID
            /\ UNCHANGED <<rbuf, gethere, puthere, counter, pc, arg, strays>>

Next == \/ \E x \in Request : Put(x) \/ PutWait(x)
        \/ StrayWakeUp \/ PutWoken \/ Get \/ GetEmpty

Spec == Init /\ [][Next]_vars

(* The Streaming Manager fetches requests on every turn of its loop, and a *)
(* woken thread gets the mutex back.                                       *)
FairSpec == Spec /\ WF_vars(Get) /\ WF_vars(PutWoken)
-----------------------------------------------------------------------------
(* The requests in the buffer, oldest first. *)
Contents == [i \in 1 .. counter |-> rbuf[(gethere + i - 1) % SM_RBUF_SIZE]]

Fifo == INSTANCE BoundedFifo
          WITH Item <- Request, Nothing <- SM_REQ_INVALID,
               Size <- SM_RBUF_SIZE, CanGiveUp <- FALSE,
               q <- Contents, held <- arg

(* The ring with its two indexes and its counter hands out what was put,   *)
(* in order, each once, and holds the producer exactly while it is full,   *)
(* until a wait ends without a signal; and even then it loses no more than *)
(* the items such a wait overwrites: it implements BoundedFifo.            *)
ImplementsFifo == Fifo!Spec

(* put_request_buf_item guards its wait with an if and inserts after it    *)
(* without another look at the counter.  The buffer is overrun all the     *)
(* same by no more requests than waits have ended without a signal: those  *)
(* that end with one find room, unless an earlier stray has taken it.      *)
NoOverrun == counter <= SM_RBUF_SIZE + strays

(* No wake-up is lost: the producer sleeps only while the buffer is full.  *)
(* The signal of get_request_buf_item is sent for every item taken, under  *)
(* the lock, so no put can go to sleep between the decrement and it.       *)
NoLostWakeup == pc = "waiting" => counter >= SM_RBUF_SIZE

(* The CoAP thread, held in a put, is released: the getter's signal does   *)
(* it, for the wait has no timeout and no stray is bound to come.          *)
PutReturns == pc = "waiting" ~> pc = "out"

(* "full (greater shall not happen)" (reqbuf.c:62): the counter does not   *)
(* exceed the number of slots, so no unread request is overwritten.        *)
NeverGreater == counter <= SM_RBUF_SIZE
=============================================================================
