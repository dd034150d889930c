------------------------------- MODULE ZeSense -------------------------------
(***************************************************************************)
(* The server: the CoAP thread, the Streaming Manager, the sensors and the *)
(* carrier threads, run by ze_server_root in one process.                  *)
(***************************************************************************)
EXTENDS CoapServer, StreamingManager

CONSTANT MaxUnderWay  (* bound: a sensor delivers while each of its streams *)
                      (* has fewer notifications than that under way        *)

ASSUME ZeAssumption == MaxUnderWay \in Nat \ {0}

vars == <<coapVars, smVars, reqbuf, resbuf>>

Init == CoapInit /\ SmInit /\ reqbuf = <<>> /\ resbuf = <<>>

UnderWay(r) == Count(resbuf, "STREAM_UPDATE", r) + trans[r]
Deliverable(s) == \A r \in streams[s] : UnderWay(r) < MaxUnderWay

Coap == ~crashed /\ CoapNext /\ UNCHANGED smVars
StreamMgr == SmNext /\ UNCHANGED coapVars
Sensor(s) == Deliverable(s) /\ Sample(s) /\ UNCHANGED coapVars
Carrier(s) == /\ \/ Deliverable(s) /\ Carry(s)
                 \/ CarrierLooks(s) \/ CarrierReads(s) \/ CarrierLeaves(s)
              /\ UNCHANGED coapVars

(* A killed process does nothing more. *)
Dead == crashed /\ UNCHANGED vars

Next == \/ Coap \/ StreamMgr
        \/ \E s \in Sensors : Sensor(s)
        \/ \E s \in EventBased : Carrier(s)
        \/ Dead

Spec == Init /\ [][Next]_vars

EndOfTransaction(r) == Coap /\ trans'[r] < trans[r]

(* Both threads and the carrier threads run; a sensor that is on delivers, *)
(* an event based one at least once; and a confirmable message is          *)
(* acknowledged or, its retransmissions used up, given up.                 *)
Fairness == /\ WF_vars(Coap) /\ WF_vars(StreamMgr)
            /\ \A s \in Sensors : WF_vars(Sensor(s))
            /\ \A s \in EventBased : WF_vars(Carrier(s))
            /\ \A r \in Regs : SF_vars(EndOfTransaction(r))

FairSpec == Spec /\ Fairness

TypeOK == /\ CoapTypeOK /\ SmTypeOK
          /\ reqbuf \in Seq(Request) /\ Len(reqbuf) <= SM_RBUF_SIZE
          /\ resbuf \in Seq(Response) /\ Len(resbuf) <= COAP_RBUF_SIZE
-----------------------------------------------------------------------------
(* Where the references to registration r are: with the tickets, which are *)
(* on their way to the Streaming Manager, held by a stream or on their way *)
(* back, and with the transactions.                                        *)
StreamsOf(r) == {s \in Sensors : r \in streams[s]}

GivenAway(r) == Count(todo, "START", r) + Count(reqbuf, "START", r)
                + Cardinality(StreamsOf(r))
                + One(Stopped(r) \in out) + Count(resbuf, "STREAM_STOPPED", r)
                + trans[r]

(* The references that somebody will give back never exceed those that     *)
(* coap_registration_checkout has counted, so that no release comes from   *)
(* nowhere and a registration outlives all of its tickets - in whatever    *)
(* order the two threads run, with timeouts, replaced streams, clients     *)
(* that fail, and addresses that are used again.                           *)
TicketsCovered == \A r \in Regs : GivenAway(r) <= reg[r].ref

(* While no put times out, no reference is lost either: a registration     *)
(* whose tickets have all come back has been freed.                        *)
TicketsBalance == \A r \in Regs : GivenAway(r) = reg[r].ref

TicketOut(r) == StreamsOf(r) # {} \/ Stopped(r) \in out

(* The STREAM_STOPPED of a ticket never overtakes an update: an update on  *)
(* its way names a registration whose ticket is still with the Streaming   *)
(* Manager or behind it in the buffer.  So the CoAP thread may look at the *)
(* registration (core.c:232), although updates are not counted as          *)
(* references.                                                             *)
UpdatesCovered ==
    \A r \in Regs :
        /\ Updated(r) \in out => TicketOut(r)
        /\ \A i \in DOMAIN resbuf :
              resbuf[i] = Updated(r) =>
                 \/ TicketOut(r)
                 \/ \E j \in DOMAIN resbuf : j > i /\ resbuf[j] = Stopped(r)

(* A registration that a stream, a response or a transaction names has not *)
(* been freed.                                                             *)
NoDanglingTicket ==
    \A r \in Regs :
        \/ trans[r] > 0
        \/ StreamsOf(r) # {}
        \/ \E k \in {"STREAM_UPDATE", "STREAM_STOPPED"} : Count(resbuf, k, r) > 0
        => Alive(r)

(* A STOP that is on its way never meets a stream whose registration is    *)
(* valid: the STOPs that are put twice, or put for a registration that is  *)
(* freed meanwhile and its address used again, find no stream.             *)
StopsConcernInvalid ==
    \A r \in Regs :
        StreamsOf(r) # {} /\ Count(reqbuf, "STOP", r) + Count(todo, "STOP", r) > 0
           => reg[r].invalid

(* The requests that the Streaming Manager has still to handle, in their   *)
(* order, and whether registration r will have a stream of sensor s once   *)
(* it has handled them all.                                                *)
Pending == reqbuf \o todo

Begins(q, s, r) == \E i \in DOMAIN q : /\ q[i] = Start(s, r)
                                      /\ \A j \in DOMAIN q : j > i => q[j] # Stop(s, r)
Ends(q, s, r) == \E i \in DOMAIN q : q[i] = Stop(s, r)
WillStream(s, r) == \/ Begins(Pending, s, r)
                    \/ r \in streams[s] /\ ~Ends(Pending, s, r)

Owners == [r \in Regs |-> reg[r].owner]
ValidRegs == {r \in Regs : Alive(r) /\ ~reg[r].invalid}
Streamed == {p \in Sensors \X Regs : WillStream(p[1], p[2])}

(* What the threads do together, seen from the clients.                    *)
Observed == INSTANCE Observation WITH
                owner <- Owners, valid <- ValidRegs, streamed <- Streamed,
                unconfirmed <- trans, awaited <- async,
                MayRevive <- FindsInvalid, MayLose <- MayTimeOut

(* The server implements Observation: the START and the STOP that a        *)
(* handler puts (resources.c) and the Streaming Manager takes later, among *)
(* those of others, come to the same as if they took effect at once; and   *)
(* a registration goes, and its address may be used again, only after it   *)
(* is cancelled and its stream, its requests and its notifications are     *)
(* gone.                                                                   *)
ImplementsObservation == Observed!Spec

(* And so the streams, with the requests on their way, are those of the    *)
(* registrations: no client that observes is left without a stream, and no *)
(* stream goes on after its registration is cleared.                       *)
OneStreamEach == Observed!OneStreamEach

Needed(s) == streams[s] # {} \/ oneshots[s] # {}

(* A sensor is turned off only when no stream and no one-shot needs it any *)
(* more, and turned on only for one that does, although it may stay off or *)
(* on where Android refuses, the callers ignore that, and another stream   *)
(* or one-shot finds it as it was left.                                    *)
SwitchedOnDemand ==
    [][\A s \in Sensors : /\ is_active[s] /\ ~is_active'[s] => ~Needed(s)'
                          /\ ~is_active[s] /\ is_active'[s] => Needed(s)']_vars

(* Where Android never refuses, a sensor is on exactly while a stream or a *)
(* one-shot needs it, or until the answers to its last one-shots are put   *)
(* (and until the null pointer of sm_stop_stream ends the process).        *)
SensorsOnDemand ==
    ~crashed => \A s \in Sensors \ closing : is_active[s] <=> Needed(s)

(* How many times an asynchronous transaction is waiting to be answered.   *)
Places(t) == Count(todo, "ONESHOT", t) + Count(reqbuf, "ONESHOT", t)
             + Cardinality({s \in Sensors : t \in oneshots[s]})
             + One(Answer(t) \in out) + Count(resbuf, "ONESHOT", t)

(* While no put times out, every asynchronous transaction is on its way to *)
(* an answer, and to one only.                                             *)
OneshotsAccounted == \A t \in Tids : Places(t) = One(t \in async)

(* A sensor that is on without its carrier thread: it was turned on when   *)
(* the last one had left its loop but not yet cleared the flag, or the     *)
(* thread could not be created.                                            *)
Stranded(s) == s \in EventBased /\ is_active[s] /\ carrier[s] = "none"

(* Every one-shot request is answered, while no put times out, unless the  *)
(* process ends or its sensor has not been turned on, or has no carrier.   *)
OneshotsAnswered ==
    \A t \in Tids : t \in async ~> \/ t \notin async \/ crashed
                                   \/ \E s \in Sensors : /\ t \in oneshots[s]
                                                         /\ ~is_active[s] \/ Stranded(s)

(* A registration that generic_on_unregister has made invalid is freed in  *)
(* the end, while no put times out: its tickets and transactions all come  *)
(* back.                                                                   *)
InvalidFreed == \A r \in Regs : reg[r].invalid ~> ~reg[r].invalid \/ crashed

(* sm_stop_stream "reconsiders the maximum frequency" of the streams left  *)
(* (streaming_manager.c:925): there is one to take it from.                *)
NoNullDereference == ~crashed

(* "An inactive sensor will always have an invalid cache"                  *)
(* (streaming_manager.h:225).                                              *)
InactiveCacheInvalid == \A s \in Sensors : cache_valid[s] => is_active[s]

(* carrier_thread_started is there to "avoid to start carrier_thread more  *)
(* than once at the same time" (streaming_manager.h:185); a sensor that is *)
(* on has one: "for this class of sensors start also the carrier stream"   *)
(* (streaming_manager.c:1107).                                             *)
ActiveCarried == \A s \in EventBased : ~Stranded(s)

(* The CoAP thread does "not send notifications belonging to a             *)
(* registration that is already invalidated" (core.c:223).                 *)
NotifiesOnlyValid ==
    [][\A r \in Regs : trans'[r] > trans[r] => ~reg[r].invalid]_vars

(* A request that put_response_helper takes to make room is "internally    *)
(* queued" (streaming_manager.c:764), so the one-shot in it is answered.   *)
DeferredOneshotsKept == \A t \in Tids : t \in async => Places(t) > 0
=============================================================================
