-------------------------- MODULE StreamingManager --------------------------
(***************************************************************************)
(* The Streaming Manager's thread, ze_streaming_manager.c.  A turn of its  *)
(* loop handles one request and then looks QUEUE_REQ_RATIO times for a     *)
(* sample, in Android's queue and in the carriers' queue alternately.      *)
(* Nobody else touches its streams and one-shots, so a request or a sample *)
(* is handled in one step; the responses it puts meanwhile are left in     *)
(* todo of their own, out, and until they are all in the buffer the thread *)
(* does nothing else but what put_response_helper does.                    *)
(***************************************************************************)
EXTENDS Tickets

CONSTANTS EventBased,      (* sensors that deliver changes only: proximity  *)
                           (* and orientation, which have a carrier thread  *)
          QUEUE_REQ_RATIO,
          MayTimeOut,      (* may a put stay held for two seconds?          *)
          SensorsFail      (* may a sensor not be turned on or off?         *)

ASSUME SmAssumption == /\ EventBased \subseteq Sensors
                       /\ QUEUE_REQ_RATIO \in Nat \ {0}
                       /\ MayTimeOut \in BOOLEAN
                       /\ SensorsFail \in BOOLEAN

VARIABLES streams,      (* tickets of the streams of each sensor            *)
          oneshots,     (* tickets of the one-shots that await a sample     *)
          is_active,
          cache_valid,
          samples,      (* Android's queue: whose sample each entry is      *)
          carried,      (* the carriers' queue, likewise                    *)
          carrier,      (* where the carrier thread of a sensor is; there   *)
                        (* is one exactly when carrier_thread_started is 1  *)
          turn,         (* 0: to fetch a request; n: the n-th look for a    *)
                        (* sample is due                                    *)
          out,          (* responses still to be put                        *)
          closing,      (* the sensor to turn off once they are             *)
          held,         (* does put_response_buf_item wait?                 *)
          crashed       (* the process has been killed                      *)
smVars == <<streams, oneshots, is_active, cache_valid, samples, carried,
            carrier, turn, out, closing, held, crashed>>

CarrierAt == {"none", "looks", "reads", "puts", "leaves"}

SmTypeOK == /\ streams \in [Sensors -> SUBSET Regs]
            /\ oneshots \in [Sensors -> SUBSET Tids]
            /\ is_active \in [Sensors -> BOOLEAN]
            /\ cache_valid \in [Sensors -> BOOLEAN]
            /\ samples \in Seq(Sensors)
            /\ carried \in Seq(EventBased)
            /\ carrier \in [EventBased -> CarrierAt]
            /\ turn \in 0 .. QUEUE_REQ_RATIO
            /\ out \in SUBSET Response
            /\ closing \in SUBSET Sensors
            /\ held \in BOOLEAN
            /\ crashed \in BOOLEAN

SmInit == /\ streams = [s \in Sensors |-> {}]
          /\ oneshots = [s \in Sensors |-> {}]
          /\ is_active = [s \in Sensors |-> FALSE]
          /\ cache_valid = [s \in Sensors |-> FALSE]
          /\ samples = <<>> /\ carried = <<>>
          /\ carrier = [s \in EventBased |-> "none"]
          /\ turn = 0 /\ out = {} /\ closing = {} /\ held = FALSE /\ crashed = FALSE

Idle == ~crashed /\ out = {}

InQueue(s, queue) == \E i \in DOMAIN queue : queue[i] = s

(* android_sensor_activate, with the carrier thread unless the sensor's    *)
(* last one has not cleared carrier_thread_started yet.  If the device has *)
(* no such sensor nothing changes, and if the thread cannot be created the *)
(* sensor is on without one; the callers ignore the error.                 *)
Activate(s) ==
    /\ \/ /\ is_active' = [is_active EXCEPT ![s] = TRUE]
          /\ carrier' = [x \in EventBased |->
                           IF x = s /\ carrier[x] = "none" THEN "looks" ELSE carrier[x]]
       \/ /\ SensorsFail
          /\ is_active' \in {is_active, [is_active EXCEPT ![s] = TRUE]}
          /\ UNCHANGED carrier
    /\ UNCHANGED cache_valid

(* android_sensor_turnoff, of the sensors S.  caches is cache_valid as the *)
(* caller has left it.  If Android reports an error, and so we take it to  *)
(* answer for a sensor that the device has not, nothing changes; the       *)
(* callers ignore it.                                                      *)
TurnOff(S, caches) ==
    \/ /\ is_active' = [s \in Sensors |-> is_active[s] /\ s \notin S]
       /\ cache_valid' = [s \in Sensors |-> caches[s] /\ s \notin S]
    \/ /\ SensorsFail
       /\ UNCHANGED is_active /\ cache_valid' = caches

(* A stream on a sensor that is on may change its rate, nothing else. *)
EnsureActive(s) == IF is_active[s] THEN UNCHANGED <<is_active, cache_valid, carrier>>
                                   ELSE Activate(s)
-----------------------------------------------------------------------------
(* Variant: a replaced stream takes its ticket with it. *)
StartStreamSilently(s, r) ==
    /\ EnsureActive(s)
    /\ streams' = [streams EXCEPT ![s] = @ \cup {r}]
    /\ out' = {}
    /\ UNCHANGED <<oneshots, crashed>>

(* sm_start_stream.  A stream with the same ticket is replaced, and the    *)
(* ticket that the replaced stream held is given back.                     *)
StartStream(s, r) ==
    /\ EnsureActive(s)
    /\ streams' = [streams EXCEPT ![s] = @ \cup {r}]
    /\ out' = IF r \in streams[s] THEN {Stopped(r)} ELSE {}
    /\ UNCHANGED <<oneshots, crashed>>

(* Variant: the end of a stream is confirmed whether there was one or not, *)
(* which is what the comment in resources.c:582-584 says of this function. *)
StopAlwaysConfirmed(s, r) ==
    /\ streams' = [streams EXCEPT ![s] = @ \ {r}]
    /\ out' = {Stopped(r)}
    /\ IF streams[s] = {r} /\ oneshots[s] = {} THEN TurnOff({s}, cache_valid)
       ELSE UNCHANGED <<is_active, cache_valid>>
    /\ UNCHANGED <<oneshots, carrier, crashed>>

(* sm_stop_stream.  A ticket without a stream is not given back.  The last *)
(* stream turns the sensor off, unless a one-shot waits for it: then the   *)
(* code goes on to take the frequency of the head of the empty list, a     *)
(* null pointer, and the process ends.                                     *)
StopStream(s, r) ==
    IF r \notin streams[s]
    THEN /\ out' = {}
         /\ UNCHANGED <<streams, oneshots, is_active, cache_valid, carrier, crashed>>
    ELSE /\ streams' = [streams EXCEPT ![s] = @ \ {r}]
         /\ out' = {Stopped(r)}
         /\ IF streams[s] = {r} /\ oneshots[s] = {}
            THEN TurnOff({s}, cache_valid) /\ UNCHANGED crashed
            ELSE /\ crashed' = (streams[s] = {r})
                 /\ UNCHANGED <<is_active, cache_valid>>
         /\ UNCHANGED <<oneshots, carrier>>

(* Variant: a one-shot served from the cache is registered as well.        *)
OneshotTwice(s, t) ==
    /\ oneshots' = [oneshots EXCEPT ![s] = @ \cup {t}]
    /\ out' = IF cache_valid[s] THEN {Answer(t)} ELSE {}
    /\ Activate(s)
    /\ UNCHANGED <<streams, crashed>>

(* SM_REQ_ONESHOT: from the cache, or with the next sample.                *)
TakeOneshot(s, t) ==
    /\ IF cache_valid[s]
       THEN /\ out' = {Answer(t)}
            /\ UNCHANGED <<oneshots, is_active, cache_valid, carrier>>
       ELSE /\ oneshots' = [oneshots EXCEPT ![s] = @ \cup {t}]
            /\ out' = {}
            /\ Activate(s)
    /\ UNCHANGED <<streams, crashed>>

HandleRequest ==
    /\ Idle /\ turn = 0
    /\ IF reqbuf = <<>>
       THEN UNCHANGED <<reqbuf, streams, oneshots, is_active, cache_valid, carrier, out, crashed>>
       ELSE LET m == Head(reqbuf) IN
            /\ reqbuf' = Tail(reqbuf)
            /\ \/ m.rtype = "START" /\ StartStream(m.sensor, m.ticket)
               \/ m.rtype = "STOP" /\ StopStream(m.sensor, m.ticket)
               \/ m.rtype = "ONESHOT" /\ TakeOneshot(m.sensor, m.ticket)
    /\ turn' = 1
    /\ UNCHANGED <<samples, carried, closing, held, resbuf>>
-----------------------------------------------------------------------------
(* Variant: the one-shots turn the sensor off under its streams. *)
DeliverAndClose(s, caches) ==
    /\ out' = {Answer(t) : t \in oneshots[s]} \cup {Updated(r) : r \in streams[s]}
    /\ oneshots' = [oneshots EXCEPT ![s] = {}]
    /\ cache_valid' = caches
    /\ closing' = IF oneshots[s] # {} THEN {s} ELSE {}

(* Variant: the one-shots wait for a sample that no stream takes. *)
DeliverToStreams(s, caches) ==
    /\ IF streams[s] = {}
       THEN /\ out' = {Answer(t) : t \in oneshots[s]}
            /\ oneshots' = [oneshots EXCEPT ![s] = {}]
            /\ closing' = IF oneshots[s] # {} THEN {s} ELSE {}
       ELSE /\ out' = {Updated(r) : r \in streams[s]} /\ closing' = {}
            /\ UNCHANGED oneshots
    /\ cache_valid' = caches

(* What a sample of sensor s brings about: an answer to each of its        *)
(* one-shots, after which a sensor without streams is turned off, and a    *)
(* notification for each of its streams.  caches is cache_valid with what  *)
(* reading the queue has done to it.                                       *)
Deliver(s, caches) ==
    /\ out' = {Answer(t) : t \in oneshots[s]} \cup {Updated(r) : r \in streams[s]}
    /\ oneshots' = [oneshots EXCEPT ![s] = {}]
    /\ cache_valid' = caches
    /\ closing' = IF oneshots[s] # {} /\ streams[s] = {} THEN {s} ELSE {}

(* A look at Android's queue.  The samples of event based sensors that     *)
(* come first only go to the cache; the next one of another sensor goes to *)
(* the cache and is delivered.                                             *)
LookAtSamples ==
    LET others == {i \in DOMAIN samples : samples[i] \notin EventBased}
        caches(n) == [s \in Sensors |-> cache_valid[s] \/ InQueue(s, SubSeq(samples, 1, n))]
    IN \/ /\ others = {}
          /\ samples' = <<>>
          /\ cache_valid' = caches(Len(samples))
          /\ UNCHANGED <<oneshots, closing, out>>
       \/ \E n \in others :
             /\ \A i \in others : n <= i
             /\ samples' = SubSeq(samples, n + 1, Len(samples))
             /\ Deliver(samples[n], caches(n))

(* get_carrier_event: the head, if there is one. *)
GetCarrierEvent == carried # <<>> /\ carried' = Tail(carried)

(* put_carrier_event: always at the tail; the queue has no limit. *)
PutCarrierEvent(s) == carried' = Append(carried, s)

(* A look at the carriers' queue.  Its samples leave the cache alone. *)
LookAtCarriers ==
    \/ carried = <<>> /\ UNCHANGED <<carried, oneshots, cache_valid, closing, out>>
    \/ GetCarrierEvent /\ Deliver(Head(carried), cache_valid)

HandleSample ==
    /\ Idle /\ turn # 0
    /\ IF turn % 2 = 1 THEN LookAtSamples /\ UNCHANGED carried
                       ELSE LookAtCarriers /\ UNCHANGED samples
    /\ turn' = (turn + 1) % (QUEUE_REQ_RATIO + 1)
    /\ UNCHANGED <<streams, is_active, carrier, held, crashed, reqbuf, resbuf>>
-----------------------------------------------------------------------------
(* The responses of one sample go in order: its one-shots, its streams.    *)
First == IF out \cap OneshotResponse # {} THEN out \cap OneshotResponse ELSE out

(* Variant: a put that has waited inserts, room or not. *)
PutUnchecked == /\ ~crashed
                /\ Len(resbuf) < COAP_RBUF_SIZE \/ held
                /\ \E m \in First : /\ resbuf' = Append(resbuf, m)
                                    /\ out' = out \ {m}
                /\ held' = FALSE
                /\ UNCHANGED <<streams, oneshots, is_active, cache_valid, samples,
                               carried, carrier, turn, closing, crashed, reqbuf>>

(* Variant: the end of a stream overtakes its notifications. *)
PutStoppedFirst == /\ ~crashed
                   /\ Len(resbuf) < COAP_RBUF_SIZE
                   /\ \E m \in First :
                         /\ resbuf' = IF m.rtype = "STREAM_STOPPED"
                                      THEN <<m>> \o resbuf ELSE Append(resbuf, m)
                         /\ out' = out \ {m}
                   /\ held' = FALSE
                   /\ UNCHANGED <<streams, oneshots, is_active, cache_valid, samples,
                                  carried, carrier, turn, closing, crashed, reqbuf>>

(* put_response_buf_item inserts.  The last answer to a one-shot is        *)
(* followed by the turning off of the sensor, if no stream needs it.       *)
PutResponse == /\ ~crashed
               /\ Len(resbuf) < COAP_RBUF_SIZE
               /\ \E m \in First : /\ resbuf' = Append(resbuf, m)
                                   /\ out' = out \ {m}
               /\ IF out' = {} THEN TurnOff(closing, cache_valid) /\ closing' = {}
                               ELSE UNCHANGED <<is_active, cache_valid, closing>>
               /\ held' = FALSE
               /\ UNCHANGED <<streams, oneshots, samples, carried, carrier, turn,
                              crashed, reqbuf>>

(* It finds the buffer full, and waits. *)
WaitForRoom == /\ ~crashed /\ out # {}
               /\ Len(resbuf) = COAP_RBUF_SIZE /\ ~held
               /\ held' = TRUE
               /\ UNCHANGED <<streams, oneshots, is_active, cache_valid, samples,
                              carried, carrier, turn, out, closing, crashed, reqbuf, resbuf>>

(* It has timed out, perhaps with room in the buffer by now.               *)
(* put_response_helper takes a request, if there is one, to make room for  *)
(* a CoAP thread that is held too, and tries again.  The request goes to a *)
(* list whose head only the helper's own parameter points to: the caller's *)
(* adqueue stays NULL, and nobody ever reads the request again.            *)
Defer == /\ ~crashed /\ held /\ MayTimeOut
         /\ reqbuf' = IF reqbuf = <<>> THEN reqbuf ELSE Tail(reqbuf)
         /\ held' = FALSE
         /\ UNCHANGED <<streams, oneshots, is_active, cache_valid, samples,
                        carried, carrier, turn, out, closing, crashed, resbuf>>

SmNext == HandleRequest \/ HandleSample \/ PutResponse \/ WaitForRoom \/ Defer
-----------------------------------------------------------------------------
(* The sensor delivers: a continuous one at its rate, an event based one   *)
(* when it changes.  Bounded to one sample a sensor in the queue.          *)
Sample(s) ==
    /\ ~crashed /\ is_active[s]
    /\ ~InQueue(s, samples)
    /\ samples' = Append(samples, s)
    /\ UNCHANGED <<streams, oneshots, is_active, cache_valid, carried, carrier,
                   turn, out, closing, held, crashed, reqbuf, resbuf>>

(* ze_carrier_thread: it looks whether its sensor is on and whether there  *)
(* is a sample in the cache, and if so repeats it; once the sensor is off  *)
(* it leaves the loop, and as the last thing it does it clears             *)
(* carrier_thread_started.                                                 *)
CarrierSteps(s, from, to) == /\ ~crashed /\ carrier[s] = from
                             /\ carrier' = [carrier EXCEPT ![s] = to]
                             /\ UNCHANGED <<streams, oneshots, is_active, cache_valid, samples,
                                            turn, out, closing, held, crashed, reqbuf, resbuf>>

CarrierLooks(s) == /\ CarrierSteps(s, "looks", IF is_active[s] THEN "reads" ELSE "leaves")
                   /\ UNCHANGED carried
CarrierReads(s) == /\ CarrierSteps(s, "reads", IF cache_valid[s] THEN "puts" ELSE "looks")
                   /\ UNCHANGED carried
(* Bounded to one sample a sensor in the queue. *)
Carry(s) == /\ CarrierSteps(s, "puts", "looks")
            /\ ~InQueue(s, carried)
            /\ PutCarrierEvent(s)
CarrierLeaves(s) == CarrierSteps(s, "leaves", "none") /\ UNCHANGED carried
=============================================================================
