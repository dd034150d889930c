----------------------------- MODULE SampleFlow -----------------------------
(***************************************************************************)
(* The data of one sensor's streams, from the sample to the notification   *)
(* and the sender report: the Streaming Manager stamps a sample for each   *)
(* stream and encodes it, the packets go through the response buffer, and  *)
(* the CoAP thread numbers them, counts them, and now and then reports to  *)
(* the client how RTP timestamps relate to the server's clock.  References *)
(* and the ends of registrations are the subject of ZeSense.               *)
(***************************************************************************)
EXTENDS Integers, Sequences

CONSTANTS Regs,              (* registrations on the sensor                 *)
          FREQ,              (* frequency that every GET asks for           *)
          RTP_TSCLOCK_FREQ,  (* RTP units in a second                       *)
          NTP_FREQ,          (* units of get_ntp in a second                *)
          INT_RANGE,         (* number of values of an int                  *)
          Starts,            (* random first timestamps of a stream         *)
          HEADER, TIMESTAMP, CHARLEN,  (* octets                            *)
          Values,            (* numbers that a sample of the sensor has     *)
          RTCP_SR_BANDWIDTH_THRESHOLD,
          COAP_RBUF_SIZE,
          None,
          MaxNow, MaxQueued, MaxStarts (* bounds: the clock, samples in a   *)
                                       (* queue, streams started            *)

ASSUME FlowAssumption ==
    /\ FREQ \in Nat \ {0} /\ RTP_TSCLOCK_FREQ \in Nat \ {0} /\ NTP_FREQ \in Nat \ {0}
    /\ INT_RANGE \in Nat \ {0}
    /\ Starts \subseteq Nat
    /\ HEADER \in Nat /\ TIMESTAMP \in Nat /\ CHARLEN \in Nat /\ Values \in Nat
    /\ RTCP_SR_BANDWIDTH_THRESHOLD \in Nat
    /\ COAP_RBUF_SIZE \in Nat \ {0}
    /\ MaxNow \in Nat /\ MaxQueued \in Nat /\ MaxStarts \in Nat
    /\ None \notin Nat

VARIABLES now,          (* the clock that get_ntp reads                     *)
          eventbased,   (* does the sensor deliver changes only, and does   *)
          present,      (* the device have it?  These two never change.     *)
          is_active, freq,
          cache_valid,
          samples,      (* Android's queue: when each sample was taken      *)
          carried,      (* the carriers' queue, likewise                    *)
          next,         (* earliest time of the next sample that is         *)
                        (* delivered to streams                             *)
          oneshot,      (* do one-shots await a sample?                     *)
          last_rtpts,   (* of each stream; None: there is no stream         *)
          started,      (* how many streams have been started               *)
          life,         (* which of them was each registration's last       *)
          out, resbuf,  (* packets still to be put, and in the buffer       *)
          reg,          (* the counters of each registration                *)
          silent,       (* octets sent to a client since its last report    *)
          sent          (* what the last update of each client sent         *)
sensorVars == <<eventbased, present, is_active, freq, cache_valid, oneshot>>
queueVars == <<samples, carried, next>>
streamVars == <<last_rtpts, started, life>>
coapVars == <<reg, silent, sent>>
vars == <<now, sensorVars, queueVars, streamVars, out, resbuf, coapVars>>

Streams == {r \in Regs : last_rtpts[r] # None}

Packet == [ticket : Regs, life : Nat, ntpts : Nat, rtpts : Nat]
Registration == [notcnt : Nat, datapackcount : Nat, octcount : Nat, last_sr_octcount : Nat,
                 ntptwin : Nat, rtptwin : Nat]
Notification == [kind : {"data"}, number : Nat, life : Nat, ntpts : Nat, rtpts : Nat]
Report == [kind : {"report"}, number : Nat, ntpts : Nat, rtpts : Int, pc : Nat, oc : Nat]

TypeOK == /\ now \in Nat
          /\ eventbased \in BOOLEAN /\ present \in BOOLEAN /\ is_active \in BOOLEAN
          /\ cache_valid \in BOOLEAN /\ oneshot \in BOOLEAN
          /\ freq \in {0, FREQ}
          /\ samples \in Seq(Nat) /\ carried \in Seq(Nat) /\ next \in Nat
          /\ last_rtpts \in [Regs -> Nat \cup {None}]
          /\ started \in Nat /\ life \in [Regs -> Nat]
          /\ out \in SUBSET Packet
          /\ resbuf \in Seq(Packet) /\ Len(resbuf) <= COAP_RBUF_SIZE
          /\ reg \in [Regs -> Registration]
          /\ silent \in [Regs -> Nat]
          /\ sent \in [Regs -> Seq(Notification \cup Report)]

NewRegistration == [notcnt |-> 0, datapackcount |-> 0, octcount |-> 0, last_sr_octcount |-> 0,
                    ntptwin |-> 0, rtptwin |-> 0]

Init == /\ now = 0
        /\ eventbased \in BOOLEAN /\ present \in BOOLEAN /\ is_active = FALSE /\ freq = 0
        /\ cache_valid = FALSE /\ oneshot = FALSE
        /\ samples = <<>> /\ carried = <<>> /\ next = 0
        /\ last_rtpts = [r \in Regs |-> None]
        /\ started = 0 /\ life = [r \in Regs |-> 0]
        /\ out = {} /\ resbuf = <<>>
        /\ reg = [r \in Regs |-> NewRegistration]
        /\ silent = [r \in Regs |-> 0]
        /\ sent = [r \in Regs |-> <<>>]

(* Time passes at any pace between the steps of the threads.               *)
Tick == /\ now < MaxNow /\ now' = now + 1
        /\ UNCHANGED <<sensorVars, queueVars, streamVars, out, resbuf, coapVars>>
-----------------------------------------------------------------------------
(* Variant: a sensor that is on keeps its frequency. *)
Kept(f) == f

(* The frequency of a sensor that is on, once a stream is added. *)
Raised(f) == IF FREQ > f THEN FREQ ELSE f

(* android_sensor_turnoff: if Android reports an error nothing is changed, *)
(* neither is_active nor a cache that would be valid.                      *)
TurnOff(valid) == \/ is_active' = FALSE /\ cache_valid' = FALSE
                  \/ is_active' = is_active /\ cache_valid' = valid

(* sm_start_stream: a stream that is replaced leaves nothing to the new    *)
(* one, which begins at a random timestamp.  That the sensor could not be  *)
(* turned on makes no difference to the stream.                            *)
StartStream(r) ==
    /\ started < MaxStarts /\ started' = started + 1
    /\ is_active' = (is_active \/ present)
    /\ freq' = IF is_active THEN Raised(freq) ELSE FREQ
    /\ \E ts \in Starts : last_rtpts' = [last_rtpts EXCEPT ![r] = ts]
    /\ life' = [life EXCEPT ![r] = started']
    /\ UNCHANGED <<cache_valid, oneshot>>

(* sm_stop_stream: the frequency is the highest of the streams left, and 0 *)
(* with the sensor turned off after the last one.  (If a one-shot waits    *)
(* then, the process ends here.)                                           *)
StopStream(r) ==
    /\ r \in Streams
    /\ last_rtpts' = [last_rtpts EXCEPT ![r] = None]
    /\ IF Streams = {r}
       THEN /\ ~oneshot
            /\ TurnOff(cache_valid) /\ freq' = 0
       ELSE freq' = FREQ /\ UNCHANGED <<is_active, cache_valid>>
    /\ UNCHANGED <<started, life, oneshot>>

(* A one-shot that the cache does not answer turns the sensor on, and does *)
(* not touch its frequency.                                                *)
Oneshot ==
    /\ IF cache_valid THEN UNCHANGED <<oneshot, is_active>>
       ELSE oneshot' = TRUE /\ is_active' = (is_active \/ present)
    /\ UNCHANGED <<freq, cache_valid, streamVars>>

(* A sensor turned on again has a new carrier, which repeats without       *)
(* waiting, or the last one, if it slept meanwhile and never saw it off.   *)
Awaken == IF eventbased /\ ~is_active /\ is_active' THEN next' \in {next, now}
                                                    ELSE UNCHANGED next

HandleRequest ==
    /\ out = {}
    /\ Oneshot \/ \E r \in Regs : StartStream(r) \/ StopStream(r)
    /\ Awaken
    /\ UNCHANGED <<now, eventbased, present, samples, carried, out, resbuf, coapVars>>
-----------------------------------------------------------------------------
(* The period of a carrier: with a frequency of 0 the division yields no   *)
(* time to sleep for, nanosleep fails, and the loop goes on at once.       *)
Period(f) == IF f = 0 THEN 0 ELSE NTP_FREQ \div f

(* Android delivers: a continuous sensor at its rate, which is the same    *)
(* for streams and one-shots, an event based one when it changes.          *)
Sample == /\ is_active /\ Len(samples) < MaxQueued
          /\ samples' = Append(samples, now)
          /\ IF eventbased THEN UNCHANGED next ELSE now >= next /\ next' = now + Period(FREQ)
          /\ UNCHANGED <<now, sensorVars, carried, streamVars, out, resbuf, coapVars>>

(* ze_carrier_thread repeats the cached sample under the time of now, and  *)
(* sleeps for a period.                                                    *)
Repeat == /\ eventbased /\ is_active /\ cache_valid
          /\ now >= next /\ Len(carried) < MaxQueued
          /\ carried' = Append(carried, now)
          /\ next' = now + Period(freq)
          /\ UNCHANGED <<now, sensorVars, samples, streamVars, out, resbuf, coapVars>>

(* The timestamp that follows ts in a stream. *)
Stamp(ts) == ts + RTP_TSCLOCK_FREQ \div FREQ

(* The packet that encode makes of the sample taken at time t. *)
Encoded(r, t) == [ticket |-> r, life |-> life[r], ntpts |-> t, rtpts |-> Stamp(last_rtpts[r])]

(* What a sample taken at time t brings about, given whether the cache is  *)
(* valid by now.  A sensor that is turned off after its one-shots keeps    *)
(* its frequency.                                                          *)
Deliver(t, valid) ==
    /\ oneshot' = FALSE
    /\ IF oneshot /\ Streams = {} THEN TurnOff(valid)
                                  ELSE is_active' = is_active /\ cache_valid' = valid
    /\ out' = {Encoded(r, t) : r \in Streams}
    /\ last_rtpts' = [r \in Regs |-> IF r \in Streams THEN Stamp(last_rtpts[r]) ELSE None]

LookAtSamples ==
    /\ samples # <<>> /\ UNCHANGED carried
    /\ IF eventbased
       THEN /\ samples' = <<>> /\ cache_valid' = TRUE
            /\ UNCHANGED <<oneshot, is_active, out, last_rtpts>>
       ELSE samples' = Tail(samples) /\ Deliver(Head(samples), TRUE)

LookAtCarriers ==
    /\ carried # <<>> /\ carried' = Tail(carried) /\ UNCHANGED samples
    /\ Deliver(Head(carried), cache_valid)

HandleSample == /\ out = {}
                /\ LookAtSamples \/ LookAtCarriers
                /\ UNCHANGED <<now, eventbased, present, freq, next, started, life, resbuf, coapVars>>

(* Variant: a put that does not look for room. *)
PutUnchecked == /\ \E p \in out : out' = out \ {p} /\ resbuf' = Append(resbuf, p)
                /\ UNCHANGED <<now, sensorVars, queueVars, streamVars, coapVars>>

(* Variant: a put that finds no room drops its packet. *)
PutOrDrop == /\ \E p \in out :
                  /\ out' = out \ {p}
                  /\ resbuf' = IF Len(resbuf) < COAP_RBUF_SIZE THEN Append(resbuf, p) ELSE resbuf
             /\ UNCHANGED <<now, sensorVars, queueVars, streamVars, coapVars>>

(* put_response_helper tries until its packet is in the buffer.            *)
PutResponse == /\ \E p \in out :
                    /\ Len(resbuf) < COAP_RBUF_SIZE
                    /\ out' = out \ {p} /\ resbuf' = Append(resbuf, p)
               /\ UNCHANGED <<now, sensorVars, queueVars, streamVars, coapVars>>
-----------------------------------------------------------------------------
(* Octets of a packet with one sample, as encode lays it out: a header, a  *)
(* timestamp, and each value as a text of fixed length.                    *)
Length == HEADER + TIMESTAMP + Values * CHARLEN

(* What is left of an integer stored in an int. *)
Wrap(i) == ((i + INT_RANGE \div 2) % INT_RANGE) - INT_RANGE \div 2

(* A quotient as C rounds it, towards 0. *)
Quotient(i, n) == IF i >= 0 THEN i \div n ELSE -((-i) \div n)

(* rtpinc of form_sr_payload, from the NTP time that has passed. *)
Increment(d) == Quotient(Wrap(d) * RTP_TSCLOCK_FREQ, NTP_FREQ)

(* form_sr_payload: the time now in both clocks, the second one inferred   *)
(* from the last packet, and the counts of packets and octets.             *)
FormReport(x) == [kind |-> "report", number |-> x.notcnt, ntpts |-> now,
                  rtpts |-> x.rtptwin + Increment(now - x.ntptwin),
                  pc |-> x.datapackcount, oc |-> x.octcount]

(* Variant: only the first packet sets the clocks that reports are inferred from. *)
CountedOnce(x, p) == [x EXCEPT !.ntptwin = IF x.datapackcount = 0 THEN p.ntpts ELSE @,
                               !.rtptwin = IF x.datapackcount = 0 THEN p.rtpts ELSE @,
                               !.notcnt = @ + 1, !.datapackcount = @ + 1, !.octcount = @ + Length]

(* A registration after the notification of packet p. *)
Counted(x, p) ==
    [notcnt |-> x.notcnt + 1, datapackcount |-> x.datapackcount + 1,
     octcount |-> x.octcount + Length, last_sr_octcount |-> x.last_sr_octcount,
     ntptwin |-> p.ntpts, rtptwin |-> p.rtpts]

(* Variant: the first notification is not followed by a report. *)
ReportDueLate(x) == x.octcount > x.last_sr_octcount + RTCP_SR_BANDWIDTH_THRESHOLD

(* It is time for a report after enough octets, and after the first packet.*)
ReportDue(x) == \/ x.octcount > x.last_sr_octcount + RTCP_SR_BANDWIDTH_THRESHOLD
                \/ x.datapackcount = 1

(* An update is sent, and a report after it when it is time.               *)
SendUpdate(p) ==
    LET r == p.ticket
        x == Counted(reg[r], p)
        data == [kind |-> "data", number |-> reg[r].notcnt, life |-> p.life,
                 ntpts |-> p.ntpts, rtpts |-> p.rtpts]
    IN IF ReportDue(x)
       THEN /\ reg' = [reg EXCEPT ![r] = [x EXCEPT !.last_sr_octcount = x.octcount]]
            /\ silent' = [silent EXCEPT ![r] = 0]
            /\ sent' = [sent EXCEPT ![r] = <<data, FormReport(x)>>]
       ELSE /\ reg' = [reg EXCEPT ![r] = x]
            /\ silent' = [silent EXCEPT ![r] = @ + Length]
            /\ sent' = [sent EXCEPT ![r] = <<data>>]

(* The client has failed too often to confirm: nothing is sent.            *)
DropUpdate(p) == sent' = [sent EXCEPT ![p.ticket] = <<>>] /\ UNCHANGED <<reg, silent>>

(* How often a client has failed, and whether it is forgiven when it       *)
(* confirms again, is left to ZeSense: either may be found here.           *)
ServeUpdate ==
    /\ resbuf # <<>> /\ resbuf' = Tail(resbuf)
    /\ SendUpdate(Head(resbuf)) \/ DropUpdate(Head(resbuf))
    /\ UNCHANGED <<now, sensorVars, queueVars, streamVars, out>>

Next == \/ Tick \/ HandleRequest \/ Sample \/ Repeat \/ HandleSample \/ PutResponse
        \/ ServeUpdate

Spec == Init /\ [][Next]_vars
-----------------------------------------------------------------------------
(* A sensor with streams is on, if the device has it, and its frequency    *)
(* covers the streams - through one-shots that turn it on without setting  *)
(* it and off without resetting it, and through failures to turn it off -  *)
(* so that the carrier which feeds a stream has a period to sleep for.  It *)
(* has none, and fills its queue as fast as it can, only while the sensor  *)
(* is on without a stream.                                                 *)
PeriodForStreams == Streams # {} => /\ present => is_active
                                    /\ Period(freq) = Period(FREQ)

(* Between the sample and the client no packet of a stream is lost, sent   *)
(* twice or overtaken, however full the buffer is and whatever the other   *)
(* streams do: between updates that are withheld from a failing client,    *)
(* the timestamps of a stream's notifications are in step, and the Observe *)
(* numbers of samples grow from one to the next.                           *)
InStep(a, b) == /\ b.number > a.number
                /\ \/ b.life > a.life
                   \/ b.life = a.life /\ b.rtpts = Stamp(a.rtpts)
NotificationsInStep ==
    [][\A r \in Regs : sent[r] # <<>> /\ sent'[r] \notin {<<>>, sent[r]} => InStep(sent[r][1], sent'[r][1])]_vars

(* The first notification of a client is followed by a report at once, and *)
(* later on never more octets than the threshold go out without one.       *)
ReportsPrompt ==
    \A r \in Regs : /\ Len(sent[r]) = 1 => reg[r].datapackcount > 1
                    /\ silent[r] <= RTCP_SR_BANDWIDTH_THRESHOLD

(* A report says where the stream of the notification before it is by now, *)
(* unless that packet waited so long - in the buffer, or for the CoAP      *)
(* thread - that the time since does not fit in an int.                    *)
ReportsInferred ==
    \A r \in Regs : Len(sent[r]) = 2 =>
        LET data == sent[r][1]
            report == sent[r][2]
            age == report.ntpts - data.ntpts
        IN age < INT_RANGE \div 2 =>
               report.rtpts = data.rtpts + (age * RTP_TSCLOCK_FREQ) \div NTP_FREQ
=============================================================================
