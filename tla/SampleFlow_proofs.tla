-------------------------- MODULE SampleFlow_proofs --------------------------
(***************************************************************************)
(* That no packet of a stream is lost, doubled or overtaken on its way,    *)
(* that a sensor with streams has a frequency, and that reports are prompt *)
(* and say the right time: for any number of streams, a response buffer of *)
(* any size, any threshold, and clocks of any frequency.                   *)
(***************************************************************************)
EXTENDS SampleFlow, TLAPS

USE FlowAssumption

(* Quotients and remainders by a positive number. *)
LEMMA QuotientType ==
    ASSUME NEW a \in Int, NEW b \in Nat \ {0} PROVE a \div b \in Int
  BY Z3

LEMMA QuotientOfNat ==
    ASSUME NEW a \in Nat, NEW b \in Nat \ {0} PROVE a \div b \in Nat
  BY Z3

LEMMA RemainderType ==
    ASSUME NEW a \in Int, NEW b \in Nat \ {0} PROVE a % b \in 0 .. b - 1
  BY Z3

LEMMA SmallRemainder ==
    ASSUME NEW b \in Nat \ {0}, NEW a \in 0 .. b - 1 PROVE a % b = a
  BY Z3

LEMMA HalfTwice ==
    ASSUME NEW b \in Nat \ {0}
    PROVE  b \div 2 \in Nat /\ (b \div 2) + (b \div 2) <= b
  BY Z3

LEMMA ProductType ==
    ASSUME NEW a \in Int, NEW b \in Nat PROVE a * b \in Int /\ (a >= 0 => a * b >= 0)
  BY Z3

(* The operators of the model yield numbers. *)
LEMMA StampType == ASSUME NEW ts \in Nat PROVE Stamp(ts) \in Nat
  BY QuotientOfNat, RTP_TSCLOCK_FREQ \div FREQ \in Nat, SMT DEF Stamp

LEMMA LengthType == Length \in Nat
<1>1. Values * CHARLEN \in Nat
  BY ProductType, SMT
<1> QED BY <1>1, SMT DEF Length

LEMMA PeriodType == ASSUME NEW f \in {0, FREQ} PROVE Period(f) \in Nat
  BY QuotientOfNat, NTP_FREQ \div FREQ \in Nat, SMT DEF Period

LEMMA WrapType == ASSUME NEW d \in Int PROVE Wrap(d) \in Int
<1>1. INT_RANGE \div 2 \in Nat
  BY HalfTwice
<1>2. (d + INT_RANGE \div 2) % INT_RANGE \in 0 .. INT_RANGE - 1
  BY <1>1, RemainderType, d + INT_RANGE \div 2 \in Int
<1> QED BY <1>1, <1>2, SMT DEF Wrap

LEMMA IncrementType == ASSUME NEW d \in Int PROVE Increment(d) \in Int
<1> DEFINE w == Wrap(d) * RTP_TSCLOCK_FREQ
<1>1. w \in Int
  BY WrapType, ProductType
<1> HIDE DEF w
<1>2. Quotient(w, NTP_FREQ) \in Int
  <2>1. w \div NTP_FREQ \in Int /\ (-w) \div NTP_FREQ \in Int
    BY <1>1, QuotientType, -w \in Int
  <2> QED BY <2>1, SMT DEF Quotient
<1> QED BY <1>2 DEF w, Increment

(* A time short enough for an int is converted exactly. *)
LEMMA IncrementInRange ==
    ASSUME NEW d \in Nat, d < INT_RANGE \div 2
    PROVE  Increment(d) = (d * RTP_TSCLOCK_FREQ) \div NTP_FREQ
<1> DEFINE h == INT_RANGE \div 2
<1>1. h \in Nat /\ h + h <= INT_RANGE
  BY HalfTwice
<1> HIDE DEF h
<1>2. d < h
  BY DEF h
<1>3. d + h \in 0 .. INT_RANGE - 1
  BY <1>1, <1>2, SMT
<1>4. (d + h) % INT_RANGE = d + h
  BY <1>3, SmallRemainder
<1>5. Wrap(d) = d
  BY <1>1, <1>4, SMT DEF Wrap, h
<1>6. d * RTP_TSCLOCK_FREQ >= 0
  BY ProductType, SMT
<1> QED BY <1>5, <1>6, Zenon DEF Increment, Quotient
-----------------------------------------------------------------------------
(* In the initial state everything is empty. *)
LEMMA InitTypes == Init => TypeOK
<1> SUFFICES ASSUME Init PROVE TypeOK
  OBVIOUS
<1>1. NewRegistration \in Registration
  BY SMT DEF NewRegistration, Registration
<1>2. reg \in [Regs -> Registration]
  BY <1>1, Zenon DEF Init
<1>3. /\ samples \in Seq(Nat) /\ carried \in Seq(Nat)
      /\ resbuf \in Seq(Packet) /\ Len(resbuf) <= COAP_RBUF_SIZE
      /\ sent \in [Regs -> Seq(Notification \cup Report)]
  BY SMT DEF Init
<1>4. /\ now \in Nat /\ next \in Nat /\ started \in Nat /\ freq \in {0, FREQ}
      /\ life \in [Regs -> Nat] /\ silent \in [Regs -> Nat]
  BY SMT DEF Init
<1> QED BY <1>2, <1>3, <1>4, Zenon DEF Init, TypeOK

LEMMA TickTypes == TypeOK /\ Tick => TypeOK'
<1> SUFFICES ASSUME TypeOK, Tick PROVE TypeOK'
  OBVIOUS
<1>1. now' \in Nat
  BY SMT DEF TypeOK, Tick
<1> QED BY <1>1, Zenon DEF TypeOK, Tick, sensorVars, queueVars, streamVars, coapVars

LEMMA RequestTypes == TypeOK /\ HandleRequest => TypeOK'
<1> SUFFICES ASSUME TypeOK, HandleRequest PROVE TypeOK'
  OBVIOUS
<1>0. next' \in Nat /\ UNCHANGED <<samples, carried>>
  <2>1. next' = next \/ next' = now
    BY Zenon DEF HandleRequest, Awaken
  <2> QED BY <2>1, Zenon DEF TypeOK, HandleRequest
<1>1. CASE Oneshot
  <2>1. is_active' \in BOOLEAN /\ oneshot' \in BOOLEAN
    BY <1>1, Zenon DEF TypeOK, Oneshot
  <2> QED BY <1>0, <1>1, <2>1, Zenon DEF TypeOK, HandleRequest, Oneshot, streamVars, coapVars
<1>2. ASSUME NEW r \in Regs, StartStream(r) PROVE TypeOK'
  <2>1. started' \in Nat /\ life' \in [Regs -> Nat] /\ freq' \in {0, FREQ}
    BY <1>2, SMT DEF TypeOK, StartStream, Raised
  <2>0. is_active' \in BOOLEAN
    BY <1>2, Zenon DEF TypeOK, StartStream
  <2>2. PICK ts \in Starts : last_rtpts' = [last_rtpts EXCEPT ![r] = ts]
    BY <1>2, Zenon DEF StartStream
  <2>3. last_rtpts' \in [Regs -> Nat \cup {None}]
    BY <2>2, SMT DEF TypeOK
  <2> QED BY <1>0, <1>2, <2>0, <2>1, <2>3, Zenon DEF TypeOK, HandleRequest, StartStream, coapVars
<1>3. ASSUME NEW r \in Regs, StopStream(r) PROVE TypeOK'
  <2>1. last_rtpts' \in [Regs -> Nat \cup {None}] /\ freq' \in {0, FREQ}
    BY <1>3, SMT DEF TypeOK, StopStream
  <2>2. is_active' \in BOOLEAN /\ cache_valid' \in BOOLEAN
    BY <1>3, Zenon DEF TypeOK, StopStream, TurnOff
  <2> QED BY <1>0, <1>3, <2>1, <2>2, Zenon DEF TypeOK, HandleRequest, StopStream, coapVars
<1> QED BY <1>1, <1>2, <1>3, Zenon DEF HandleRequest

LEMMA SampleTypes == TypeOK /\ (Sample \/ Repeat) => TypeOK'
<1> SUFFICES ASSUME TypeOK, Sample \/ Repeat PROVE TypeOK'
  OBVIOUS
<1>1. Period(FREQ) \in Nat /\ Period(freq) \in Nat
  BY PeriodType, Zenon DEF TypeOK
<1>2. CASE Sample
  <2>1. samples' \in Seq(Nat) /\ next' \in Nat
    BY <1>1, <1>2, SMT DEF TypeOK, Sample
  <2> QED BY <1>2, <2>1, Zenon DEF TypeOK, Sample, sensorVars, streamVars, coapVars
<1>3. CASE Repeat
  <2>1. carried' \in Seq(Nat) /\ next' \in Nat
    BY <1>1, <1>3, SMT DEF TypeOK, Repeat
  <2> QED BY <1>3, <2>1, Zenon DEF TypeOK, Repeat, sensorVars, streamVars, coapVars
<1> QED BY <1>2, <1>3

(* What is delivered to the streams. *)
LEMMA DeliverTypes ==
    ASSUME TypeOK, NEW t \in Nat, NEW v \in BOOLEAN, Deliver(t, v)
    PROVE  /\ oneshot' \in BOOLEAN /\ is_active' \in BOOLEAN /\ cache_valid' \in BOOLEAN
           /\ out' \in SUBSET Packet
           /\ last_rtpts' \in [Regs -> Nat \cup {None}]
<1>1. ASSUME NEW r \in Streams PROVE r \in Regs /\ last_rtpts[r] \in Nat
  BY <1>1, Zenon DEF Streams, TypeOK
<1>2. ASSUME NEW r \in Streams PROVE Stamp(last_rtpts[r]) \in Nat
  BY <1>1, <1>2, StampType
<1>3. ASSUME NEW r \in Streams PROVE Encoded(r, t) \in Packet
  BY <1>1, <1>2, <1>3, SMT DEF Encoded, Packet, TypeOK
<1>4. out' \in SUBSET Packet
  BY <1>3, Zenon DEF Deliver
<1>5. last_rtpts' \in [Regs -> Nat \cup {None}]
  BY <1>2, Zenon DEF Deliver
<1>6. oneshot' \in BOOLEAN /\ is_active' \in BOOLEAN /\ cache_valid' \in BOOLEAN
  BY Zenon DEF Deliver, TurnOff, TypeOK
<1> QED BY <1>4, <1>5, <1>6

LEMMA HandleSampleTypes == TypeOK /\ HandleSample => TypeOK'
<1> SUFFICES ASSUME TypeOK, HandleSample PROVE TypeOK'
  OBVIOUS
<1>1. CASE LookAtSamples /\ eventbased
  <2>1. samples' \in Seq(Nat) /\ cache_valid' \in BOOLEAN
    BY <1>1, SMT DEF LookAtSamples
  <2> QED BY <1>1, <2>1, Zenon DEF TypeOK, HandleSample, LookAtSamples, coapVars
<1>2. CASE LookAtSamples /\ ~eventbased
  <2>0. samples # <<>> /\ samples' = Tail(samples) /\ samples \in Seq(Nat)
    BY <1>2, Zenon DEF LookAtSamples, TypeOK
  <2>1. Head(samples) \in Nat /\ samples' \in Seq(Nat)
    BY <2>0, SMT
  <2>2. Deliver(Head(samples), TRUE)
    BY <1>2, Zenon DEF LookAtSamples
  <2>3. /\ oneshot' \in BOOLEAN /\ is_active' \in BOOLEAN /\ cache_valid' \in BOOLEAN
        /\ out' \in SUBSET Packet /\ last_rtpts' \in [Regs -> Nat \cup {None}]
    BY <2>1, <2>2, DeliverTypes
  <2> QED BY <1>2, <2>1, <2>3, Zenon DEF TypeOK, HandleSample, LookAtSamples, coapVars
<1>3. CASE LookAtCarriers
  <2>1. Head(carried) \in Nat /\ carried' \in Seq(Nat)
    BY <1>3, SMT DEF LookAtCarriers, TypeOK
  <2>2. Deliver(Head(carried), cache_valid) /\ cache_valid \in BOOLEAN
    BY <1>3, Zenon DEF LookAtCarriers, TypeOK
  <2>3. /\ oneshot' \in BOOLEAN /\ is_active' \in BOOLEAN /\ cache_valid' \in BOOLEAN
        /\ out' \in SUBSET Packet /\ last_rtpts' \in [Regs -> Nat \cup {None}]
    BY <2>1, <2>2, DeliverTypes
  <2> QED BY <1>3, <2>1, <2>3, Zenon DEF TypeOK, HandleSample, LookAtCarriers, coapVars
<1> QED BY <1>1, <1>2, <1>3, Zenon DEF HandleSample

LEMMA PutTypes == TypeOK /\ PutResponse => TypeOK'
<1> SUFFICES ASSUME TypeOK, PutResponse PROVE TypeOK'
  OBVIOUS
<1>1. PICK p \in out : /\ Len(resbuf) < COAP_RBUF_SIZE
                       /\ out' = out \ {p} /\ resbuf' = Append(resbuf, p)
  BY Zenon DEF PutResponse
<1>2. p \in Packet /\ out' \in SUBSET Packet
  BY <1>1, Zenon DEF TypeOK
<1>3. resbuf' \in Seq(Packet) /\ Len(resbuf') <= COAP_RBUF_SIZE
  BY <1>1, <1>2, SMT DEF TypeOK
<1> QED BY <1>2, <1>3, Zenon DEF TypeOK, PutResponse, sensorVars, queueVars, streamVars, coapVars

(* The registration, notification and report of an update that is sent.    *)
LEMMA SendTypes ==
    ASSUME TypeOK, NEW p \in Packet, NEW x, x = Counted(reg[p.ticket], p)
    PROVE  /\ x \in Registration
           /\ x.octcount = reg[p.ticket].octcount + Length
           /\ x.last_sr_octcount = reg[p.ticket].last_sr_octcount
           /\ x.datapackcount = reg[p.ticket].datapackcount + 1
           /\ x.ntptwin = p.ntpts /\ x.rtptwin = p.rtpts
           /\ FormReport(x) \in Report
<1> DEFINE r == p.ticket
<1>1. r \in Regs /\ p.ntpts \in Nat /\ p.rtpts \in Nat
  BY SMT DEF Packet
<1>2. reg[r] \in Registration
  BY <1>1, Zenon DEF TypeOK
<1>3. Length \in Nat
  BY LengthType
<1>4. x \in Registration
  <2>1. /\ reg[r].notcnt + 1 \in Nat /\ reg[r].datapackcount + 1 \in Nat
        /\ reg[r].octcount + Length \in Nat /\ reg[r].last_sr_octcount \in Nat
    BY <1>2, <1>3, SMT DEF Registration
  <2> QED BY <1>1, <2>1, Zenon DEF Counted, Registration
<1>5. /\ x.octcount = reg[r].octcount + Length
      /\ x.last_sr_octcount = reg[r].last_sr_octcount
      /\ x.datapackcount = reg[r].datapackcount + 1
      /\ x.ntptwin = p.ntpts /\ x.rtptwin = p.rtpts
  BY <1>2, SMT DEF Counted, Registration
<1>6. now - x.ntptwin \in Int
  BY <1>1, <1>5, SMT DEF TypeOK
<1>7. Increment(now - x.ntptwin) \in Int
  BY <1>6, IncrementType
<1>8. FormReport(x) \in Report
  <2>1. /\ x.notcnt \in Nat /\ x.datapackcount \in Nat /\ x.octcount \in Nat
        /\ x.rtptwin \in Nat
    BY <1>4, Zenon DEF Registration
  <2>2. x.rtptwin + Increment(now - x.ntptwin) \in Int
    BY <1>7, <2>1, SMT
  <2> QED BY <2>1, <2>2, Zenon DEF FormReport, Report, TypeOK
<1> QED BY <1>4, <1>5, <1>8

LEMMA ServeTypes == TypeOK /\ ServeUpdate => TypeOK'
<1> SUFFICES ASSUME TypeOK, ServeUpdate PROVE TypeOK'
  OBVIOUS
<1> DEFINE p == Head(resbuf)
           r == p.ticket
           x == Counted(reg[r], p)
           data == [kind |-> "data", number |-> reg[r].notcnt, life |-> p.life,
                    ntpts |-> p.ntpts, rtpts |-> p.rtpts]
<1>0. resbuf # <<>> /\ resbuf' = Tail(resbuf)
  BY Zenon DEF ServeUpdate
<1>1. p \in Packet
  BY <1>0, SMT DEF TypeOK
<1>2. resbuf' \in Seq(Packet) /\ Len(resbuf') <= COAP_RBUF_SIZE
  BY <1>0, SMT DEF TypeOK
<1>3. r \in Regs /\ reg[r] \in Registration /\ data \in Notification
  <2>1. r \in Regs /\ p.life \in Nat /\ p.ntpts \in Nat /\ p.rtpts \in Nat
    BY <1>1, Zenon DEF Packet
  <2>2. reg[r] \in Registration /\ reg[r].notcnt \in Nat
    BY <2>1, Zenon DEF TypeOK, Registration
  <2> QED BY <2>1, <2>2, Zenon DEF Notification
<1>4. CASE DropUpdate(p)
  <2>1. sent' \in [Regs -> Seq(Notification \cup Report)]
    BY <1>3, <1>4, SMT DEF TypeOK, DropUpdate
  <2> QED BY <1>2, <1>4, <2>1, Zenon DEF TypeOK, ServeUpdate, DropUpdate, sensorVars, queueVars, streamVars
<1>5. CASE SendUpdate(p)
  <2>1. x \in Registration /\ FormReport(x) \in Report
    BY <1>1, SendTypes
  <2>2. [x EXCEPT !.last_sr_octcount = x.octcount] \in Registration
    BY <2>1, SMT DEF Registration
  <2>3. /\ <<data, FormReport(x)>> \in Seq(Notification \cup Report)
        /\ <<data>> \in Seq(Notification \cup Report)
    <3> HIDE DEF data, x
    <3> QED BY <1>3, <2>1, SMT
  <2>4. silent[r] \in Nat /\ silent[r] + Length \in Nat
    BY <1>3, LengthType, SMT DEF TypeOK
  <2>5. /\ reg' \in [Regs -> Registration]
        /\ silent' \in [Regs -> Nat]
        /\ sent' \in [Regs -> Seq(Notification \cup Report)]
    <3>1. CASE ReportDue(x)
      <4>1. /\ reg' = [reg EXCEPT ![r] = [x EXCEPT !.last_sr_octcount = x.octcount]]
            /\ silent' = [silent EXCEPT ![r] = 0]
            /\ sent' = [sent EXCEPT ![r] = <<data, FormReport(x)>>]
        BY <1>5, <3>1, Zenon DEF SendUpdate
      <4> HIDE DEF data, x, r
      <4> QED BY <1>3, <2>2, <2>3, <4>1, Zenon, 0 \in Nat DEF TypeOK
    <3>2. CASE ~ReportDue(x)
      <4>1. /\ reg' = [reg EXCEPT ![r] = x]
            /\ silent' = [silent EXCEPT ![r] = @ + Length]
            /\ sent' = [sent EXCEPT ![r] = <<data>>]
        BY <1>5, <3>2, Zenon DEF SendUpdate
      <4> HIDE DEF data, x, r
      <4> QED BY <1>3, <2>1, <2>3, <2>4, <4>1, Zenon DEF TypeOK
    <3> QED BY <3>1, <3>2
  <2> QED BY <1>2, <2>5, Zenon DEF TypeOK, ServeUpdate, sensorVars, queueVars, streamVars
<1> QED BY <1>4, <1>5, Zenon DEF ServeUpdate

LEMMA NextTypes == TypeOK /\ [Next]_vars => TypeOK'
<1>1. TypeOK /\ UNCHANGED vars => TypeOK'
  BY Zenon DEF TypeOK, vars, sensorVars, queueVars, streamVars, coapVars
<1> QED BY <1>1, TickTypes, RequestTypes, SampleTypes, HandleSampleTypes, PutTypes, ServeTypes, Zenon
        DEF Next

(* Every state of the data path has the types of its variables, and the    *)
(* response buffer never holds more packets than it has room for.          *)
THEOREM TypeCorrect == Spec => []TypeOK
  BY InitTypes, NextTypes, PTL DEF Spec
-----------------------------------------------------------------------------
(* A sensor with streams is on, at the frequency of the streams. *)
FrequencyForStreams == Streams # {} => (present => is_active) /\ freq = FREQ

LEMMA FrequencyKept == TypeOK /\ FrequencyForStreams /\ [Next]_vars => FrequencyForStreams'
<1> SUFFICES ASSUME TypeOK, FrequencyForStreams, [Next]_vars PROVE FrequencyForStreams'
  OBVIOUS
<1>1. ASSUME NEW r \in Regs, StartStream(r), present' = present PROVE FrequencyForStreams'
  <2>1. Raised(freq) = FREQ
    BY SMT DEF Raised, TypeOK
  <2>2. freq' = FREQ
    BY <1>1, <2>1, Zenon DEF StartStream
  <2>3. present' => is_active'
    BY <1>1, Zenon DEF StartStream, TypeOK
  <2> QED BY <2>2, <2>3, Zenon DEF FrequencyForStreams
<1>2. ASSUME NEW r \in Regs, StopStream(r), present' = present PROVE FrequencyForStreams'
  <2>1. CASE Streams = {r}
    <3>1. Streams' = {}
      BY <1>2, <2>1, Zenon DEF StopStream, Streams, TypeOK
    <3> QED BY <3>1, Zenon DEF FrequencyForStreams
  <2>2. CASE Streams # {r}
    <3>1. Streams # {}
      BY <1>2, Zenon DEF StopStream
    <3> QED BY <1>2, <2>2, <3>1, Zenon DEF StopStream, FrequencyForStreams
  <2> QED BY <2>1, <2>2
<1>3. CASE HandleRequest
  <2>0. present' = present
    BY <1>3, Zenon DEF HandleRequest
  <2>1. CASE Oneshot
    <3>1. Streams' = Streams /\ freq' = freq
      BY <2>1, Zenon DEF Oneshot, streamVars, Streams
    <3>2. is_active => is_active'
      BY <2>1, Zenon DEF Oneshot, TypeOK
    <3> QED BY <2>0, <3>1, <3>2, Zenon DEF FrequencyForStreams
  <2> QED BY <1>1, <1>2, <1>3, <2>0, <2>1, Zenon DEF HandleRequest
<1>4. ASSUME NEW t, NEW v, Deliver(t, v), freq' = freq, present' = present
      PROVE  FrequencyForStreams'
  <2>1. Streams' \subseteq Streams
    BY <1>4, Zenon DEF Deliver, Streams
  <2>2. Streams # {} => is_active' = is_active
    BY <1>4, Zenon DEF Deliver
  <2> QED BY <1>4, <2>1, <2>2, Zenon DEF FrequencyForStreams
<1>5. CASE HandleSample
  <2>0. freq' = freq /\ present' = present
    BY <1>5, Zenon DEF HandleSample
  <2>1. CASE LookAtSamples /\ eventbased
    <3>1. UNCHANGED <<is_active, last_rtpts>>
      BY <2>1, Zenon DEF LookAtSamples
    <3> QED BY <2>0, <3>1, Zenon DEF FrequencyForStreams, Streams
  <2>2. CASE ~(LookAtSamples /\ eventbased)
    BY <1>4, <1>5, <2>0, <2>2, Zenon DEF HandleSample, LookAtSamples, LookAtCarriers
  <2> QED BY <2>1, <2>2
<1>6. CASE Tick \/ Sample \/ Repeat \/ PutResponse \/ ServeUpdate \/ UNCHANGED vars
  <2>1. UNCHANGED <<sensorVars, streamVars>>
    BY <1>6, Zenon DEF Tick, Sample, Repeat, PutResponse, ServeUpdate, vars
  <2> QED BY <2>1, Zenon DEF sensorVars, streamVars, FrequencyForStreams, Streams
<1> QED BY <1>3, <1>5, <1>6, Zenon DEF Next

(* A carrier that feeds a stream has a period to sleep for, whatever came  *)
(* before: one-shots that turned the sensor on without a frequency, streams*)
(* that were stopped or replaced.                                          *)
THEOREM PeriodKept == Spec => []PeriodForStreams
<1>1. Init => FrequencyForStreams
  BY Zenon DEF Init, FrequencyForStreams, Streams
<1>2. FrequencyForStreams => PeriodForStreams
  BY Zenon DEF FrequencyForStreams, PeriodForStreams
<1> QED BY <1>1, <1>2, FrequencyKept, TypeCorrect, PTL DEF Spec
-----------------------------------------------------------------------------
(* What silent counts is what the registration knows of it. *)
SilentCounted ==
    \A r \in Regs : reg[r].octcount = reg[r].last_sr_octcount + silent[r]

ReportsInv == ReportsPrompt /\ SilentCounted

LEMMA ReportsKept == TypeOK /\ ReportsInv /\ [Next]_vars => ReportsInv'
<1> SUFFICES ASSUME TypeOK, ReportsInv, [Next]_vars PROVE ReportsInv'
  OBVIOUS
<1>1. CASE UNCHANGED coapVars
  BY <1>1, Zenon DEF coapVars, ReportsInv, ReportsPrompt, SilentCounted
<1>2. CASE ServeUpdate
  <2> DEFINE p == Head(resbuf)
             r == p.ticket
             x == Counted(reg[r], p)
             data == [kind |-> "data", number |-> reg[r].notcnt, life |-> p.life,
                      ntpts |-> p.ntpts, rtpts |-> p.rtpts]
  <2>1. p \in Packet
    BY <1>2, SMT DEF TypeOK, ServeUpdate
  <2>2. r \in Regs
    BY <2>1, Zenon DEF Packet
  <2>3. CASE DropUpdate(p)
    <3>1. reg' = reg /\ silent' = silent
      BY <2>3, Zenon DEF DropUpdate
    <3>2. \A q \in Regs : sent'[q] = <<>> \/ sent'[q] = sent[q]
      BY <2>2, <2>3, Zenon DEF DropUpdate, TypeOK
    <3>3. Len(<<>>) # 1
      BY SMT
    <3> QED BY <3>1, <3>2, <3>3, Zenon DEF ReportsInv, ReportsPrompt, SilentCounted
  <2>4. CASE SendUpdate(p)
    <3>1. /\ x \in Registration
          /\ x.octcount = reg[r].octcount + Length
          /\ x.last_sr_octcount = reg[r].last_sr_octcount
          /\ x.datapackcount = reg[r].datapackcount + 1
      BY <2>1, SendTypes
    <3>2. /\ reg[r].octcount \in Nat /\ reg[r].last_sr_octcount \in Nat
          /\ reg[r].datapackcount \in Nat /\ silent[r] \in Nat
          /\ reg[r].octcount = reg[r].last_sr_octcount + silent[r]
      BY <2>2, Zenon DEF TypeOK, Registration, ReportsInv, SilentCounted
    <3>3. \A q \in Regs \ {r} : /\ reg'[q] = reg[q] /\ silent'[q] = silent[q]
                                /\ sent'[q] = sent[q]
      BY <2>2, <2>4, Zenon DEF SendUpdate, TypeOK
    <3>4. Length \in Nat
      BY LengthType
    <3>5. /\ Len(sent'[r]) = 1 => reg'[r].datapackcount > 1
          /\ silent'[r] <= RTCP_SR_BANDWIDTH_THRESHOLD
          /\ reg'[r].octcount = reg'[r].last_sr_octcount + silent'[r]
      <4>1. CASE ReportDue(x)
        <5>1. /\ reg'[r] = [x EXCEPT !.last_sr_octcount = x.octcount]
              /\ silent'[r] = 0
              /\ sent'[r] = <<data, FormReport(x)>>
          BY <2>2, <2>4, <4>1, Zenon DEF SendUpdate, TypeOK
        <5> HIDE DEF data, x, r
        <5>2. Len(sent'[r]) = 2
          BY <5>1, SMT
        <5>3. reg'[r].octcount = x.octcount /\ reg'[r].last_sr_octcount = x.octcount /\ x.octcount \in Nat
          BY <3>1, <5>1, SMT DEF Registration
        <5> QED BY <5>1, <5>2, <5>3, SMT
      <4>2. CASE ~ReportDue(x)
        <5>1. reg'[r] = x /\ silent'[r] = silent[r] + Length
          BY <2>2, <2>4, <4>2, Zenon DEF SendUpdate, TypeOK
        <5>2. /\ ~(x.octcount > x.last_sr_octcount + RTCP_SR_BANDWIDTH_THRESHOLD)
              /\ x.datapackcount # 1
          BY <4>2, Zenon DEF ReportDue
        <5> HIDE DEF x, r
        <5> QED BY <3>1, <3>2, <3>4, <5>1, <5>2, SMT
      <4> QED BY <4>1, <4>2
    <3> HIDE DEF r
    <3> QED BY <3>3, <3>5, Zenon DEF ReportsInv, ReportsPrompt, SilentCounted
  <2> QED BY <1>2, <2>3, <2>4, Zenon DEF ServeUpdate
<1> QED BY <1>1, <1>2, Zenon
        DEF Next, Tick, HandleRequest, Sample, Repeat, HandleSample, PutResponse, vars

(* The first notification of a client brings a report along, and never     *)
(* more octets than the threshold go out to it without one.                *)
THEOREM Prompt == Spec => []ReportsPrompt
<1>1. Init => ReportsInv
  <2> SUFFICES ASSUME Init, NEW r \in Regs
      PROVE /\ Len(sent[r]) = 1 => reg[r].datapackcount > 1
            /\ silent[r] <= RTCP_SR_BANDWIDTH_THRESHOLD
            /\ reg[r].octcount = reg[r].last_sr_octcount + silent[r]
    BY Zenon DEF ReportsInv, ReportsPrompt, SilentCounted
  <2>1. sent[r] = <<>> /\ silent[r] = 0 /\ reg[r] = NewRegistration
    BY Zenon DEF Init
  <2> QED BY <2>1, SMT DEF NewRegistration
<1>2. ReportsInv => ReportsPrompt
  BY DEF ReportsInv
<1> QED BY <1>1, <1>2, ReportsKept, TypeCorrect, PTL DEF Spec
-----------------------------------------------------------------------------
(* No sample comes from the future. *)
TimesPast ==
    /\ \A i \in DOMAIN samples : samples[i] <= now
    /\ \A i \in DOMAIN carried : carried[i] <= now
    /\ \A p \in out : p.ntpts <= now
    /\ \A i \in DOMAIN resbuf : resbuf[i].ntpts <= now

LEMMA TimesKept == TypeOK /\ TimesPast /\ [Next]_vars => TimesPast'
<1> SUFFICES ASSUME TypeOK, TimesPast, [Next]_vars PROVE TimesPast'
  OBVIOUS
<1>1. CASE Tick
  <2>1. \A t \in Nat : t <= now => t <= now'
    BY <1>1, SMT DEF Tick, TypeOK
  <2>2. /\ \A i \in DOMAIN samples : samples[i] \in Nat
        /\ \A i \in DOMAIN carried : carried[i] \in Nat
        /\ \A i \in DOMAIN resbuf : resbuf[i] \in Packet
    BY SMT DEF TypeOK
  <2>3. \A p \in Packet : p.ntpts \in Nat
    BY Zenon DEF Packet
  <2> QED BY <1>1, <2>1, <2>2, <2>3, Zenon DEF Tick, TimesPast, TypeOK, queueVars
<1>2. CASE HandleRequest \/ UNCHANGED vars
  BY <1>2, Zenon DEF HandleRequest, TimesPast, queueVars, vars
<1>3. CASE Sample
  <2>1. \A i \in DOMAIN samples' : samples'[i] <= now
    BY <1>3, SMT DEF Sample, TimesPast, TypeOK
  <2> QED BY <1>3, <2>1, Zenon DEF Sample, TimesPast
<1>4. CASE Repeat
  <2>1. carried' = Append(carried, now)
    BY <1>4, Zenon DEF Repeat
  <2>2. \A i \in DOMAIN carried' : carried'[i] <= now
    BY <2>1, SMT DEF TimesPast, TypeOK
  <2> QED BY <1>4, <2>2, Zenon DEF Repeat, TimesPast
<1>5. ASSUME NEW t \in Nat, t <= now, NEW v, Deliver(t, v)
      PROVE  \A p \in out' : p.ntpts <= now
  <2>1. out' = {Encoded(r, t) : r \in Streams}
    BY <1>5, Zenon DEF Deliver
  <2>2. \A r : Encoded(r, t).ntpts = t
    BY SMT DEF Encoded
  <2> QED BY <1>5, <2>1, <2>2, Zenon
<1>6. CASE HandleSample
  <2>1. CASE LookAtSamples /\ eventbased
    <3>1. samples' = <<>> /\ carried' = carried /\ out' = out /\ resbuf' = resbuf /\ now' = now
      BY <1>6, <2>1, Zenon DEF HandleSample, LookAtSamples
    <3>2. \A i \in DOMAIN <<>> : FALSE
      BY SMT
    <3> QED BY <3>1, <3>2, Zenon DEF TimesPast
  <2>2. CASE LookAtSamples /\ ~eventbased
    <3>1. /\ samples # <<>> /\ samples' = Tail(samples) /\ carried' = carried
          /\ Deliver(Head(samples), TRUE) /\ resbuf' = resbuf /\ now' = now
      BY <1>6, <2>2, Zenon DEF HandleSample, LookAtSamples
    <3>2. /\ Head(samples) \in Nat /\ Head(samples) <= now
          /\ \A i \in DOMAIN samples' : samples'[i] <= now
      BY <3>1, SMT DEF TimesPast, TypeOK
    <3>3. \A p \in out' : p.ntpts <= now
      BY <1>5, <3>1, <3>2
    <3> QED BY <3>1, <3>2, <3>3, Zenon DEF TimesPast
  <2>3. CASE LookAtCarriers
    <3>1. /\ carried # <<>> /\ carried' = Tail(carried) /\ samples' = samples
          /\ Deliver(Head(carried), cache_valid) /\ resbuf' = resbuf /\ now' = now
      BY <1>6, <2>3, Zenon DEF HandleSample, LookAtCarriers
    <3>2. /\ Head(carried) \in Nat /\ Head(carried) <= now
          /\ \A i \in DOMAIN carried' : carried'[i] <= now
      BY <3>1, SMT DEF TimesPast, TypeOK
    <3>3. \A p \in out' : p.ntpts <= now
      BY <1>5, <3>1, <3>2
    <3> QED BY <3>1, <3>2, <3>3, Zenon DEF TimesPast
  <2> QED BY <1>6, <2>1, <2>2, <2>3, Zenon DEF HandleSample
<1>7. CASE PutResponse
  <2>1. PICK p \in out : out' = out \ {p} /\ resbuf' = Append(resbuf, p)
    BY <1>7, Zenon DEF PutResponse
  <2>2. p \in Packet /\ p.ntpts <= now
    BY <2>1, Zenon DEF TimesPast, TypeOK
  <2>3. \A i \in DOMAIN resbuf' : resbuf'[i] = p \/ (i \in DOMAIN resbuf /\ resbuf'[i] = resbuf[i])
    BY <2>1, <2>2, SMT DEF TypeOK
  <2>4. \A i \in DOMAIN resbuf' : resbuf'[i].ntpts <= now
    BY <2>2, <2>3, Zenon DEF TimesPast
  <2> QED BY <1>7, <2>1, <2>4, Zenon DEF PutResponse, TimesPast, queueVars
<1>8. CASE ServeUpdate
  <2>1. resbuf # <<>> /\ resbuf' = Tail(resbuf)
    BY <1>8, Zenon DEF ServeUpdate
  <2>2. \A i \in DOMAIN resbuf' : i + 1 \in DOMAIN resbuf /\ resbuf'[i] = resbuf[i + 1]
    BY <2>1, SMT DEF TypeOK
  <2>3. \A i \in DOMAIN resbuf' : resbuf'[i].ntpts <= now
    BY <2>2, Zenon DEF TimesPast
  <2> QED BY <1>8, <2>3, Zenon DEF ServeUpdate, TimesPast, queueVars
<1> QED BY <1>1, <1>2, <1>3, <1>4, <1>6, <1>7, <1>8, Zenon DEF Next

(* What a report says of the notification before it. *)
Inferred(data, report) ==
    report.ntpts - data.ntpts < INT_RANGE \div 2 =>
        report.rtpts = data.rtpts + ((report.ntpts - data.ntpts) * RTP_TSCLOCK_FREQ) \div NTP_FREQ

LEMMA InferredKept ==
    TypeOK /\ TimesPast /\ ReportsInferred /\ [Next]_vars => ReportsInferred'
<1> SUFFICES ASSUME TypeOK, TimesPast, ReportsInferred, [Next]_vars,
                    NEW q \in Regs, Len(sent'[q]) = 2
    PROVE  Inferred(sent'[q][1], sent'[q][2])
  BY Zenon DEF ReportsInferred, Inferred
<1>0. Len(sent[q]) = 2 => Inferred(sent[q][1], sent[q][2])
  BY Zenon DEF ReportsInferred, Inferred
<1>1. CASE UNCHANGED coapVars
  BY <1>0, <1>1, Zenon DEF coapVars
<1>2. CASE ServeUpdate
  <2> DEFINE p == Head(resbuf)
             r == p.ticket
             x == Counted(reg[r], p)
             data == [kind |-> "data", number |-> reg[r].notcnt, life |-> p.life,
                      ntpts |-> p.ntpts, rtpts |-> p.rtpts]
  <2>1. p \in Packet /\ p.ntpts <= now
    BY <1>2, SMT DEF TypeOK, ServeUpdate, TimesPast
  <2>2. r \in Regs /\ p.ntpts \in Nat /\ p.rtpts \in Nat /\ now \in Nat
    BY <2>1, Zenon DEF Packet, TypeOK
  <2>3. CASE sent'[q] = sent[q]
    BY <1>0, <2>3, Zenon
  <2>4. CASE DropUpdate(p)
    <3>1. sent'[q] = <<>> \/ sent'[q] = sent[q]
      BY <2>2, <2>4, Zenon DEF DropUpdate, TypeOK
    <3>2. Len(<<>>) # 2
      BY SMT
    <3> QED BY <2>3, <3>1, <3>2, Zenon
  <2>5. CASE SendUpdate(p) /\ ~ReportDue(x)
    <3>1. sent'[q] = <<data>> \/ sent'[q] = sent[q]
      BY <2>2, <2>5, Zenon DEF SendUpdate, TypeOK
    <3>2. Len(<<data>>) # 2
      BY SMT
    <3> QED BY <2>3, <3>1, <3>2, Zenon
  <2>6. CASE SendUpdate(p) /\ ReportDue(x)
    <3>1. sent'[q] = <<data, FormReport(x)>> \/ sent'[q] = sent[q]
      BY <2>2, <2>6, Zenon DEF SendUpdate, TypeOK
    <3>2. ASSUME sent'[q] = <<data, FormReport(x)>>
          PROVE  Inferred(sent'[q][1], sent'[q][2])
      <4>1. sent'[q][1] = data /\ sent'[q][2] = FormReport(x)
        BY <3>2, SMT
      <4>2. x.ntptwin = p.ntpts /\ x.rtptwin = p.rtpts
        BY <2>1, SendTypes
      <4>3. /\ FormReport(x).ntpts = now
            /\ FormReport(x).rtpts = p.rtpts + Increment(now - p.ntpts)
        BY <4>2, Zenon DEF FormReport
      <4>4. now - p.ntpts \in Nat
        BY <2>1, <2>2, SMT
      <4>5. now - p.ntpts < INT_RANGE \div 2 =>
                Increment(now - p.ntpts) = ((now - p.ntpts) * RTP_TSCLOCK_FREQ) \div NTP_FREQ
        BY <4>4, IncrementInRange
      <4>6. data.ntpts = p.ntpts /\ data.rtpts = p.rtpts
        BY SMT
      <4> HIDE DEF data, x, p
      <4>7. Inferred(data, FormReport(x))
        BY <4>3, <4>5, <4>6, Zenon DEF Inferred
      <4> QED BY <4>1, <4>7, Zenon
    <3> QED BY <2>3, <3>1, <3>2
  <2> QED BY <1>2, <2>4, <2>5, <2>6, Zenon DEF ServeUpdate
<1> QED BY <1>1, <1>2, Zenon
        DEF Next, Tick, HandleRequest, Sample, Repeat, HandleSample, PutResponse, vars

(* A report tells the client where its stream is, as long as the packet it *)
(* is inferred from is younger than an int can say.                        *)
THEOREM ReportsTrue == Spec => []ReportsInferred
<1>1. Init => TimesPast
  <2> SUFFICES ASSUME Init PROVE TimesPast
    OBVIOUS
  <2>1. \A i \in DOMAIN <<>> : FALSE
    BY SMT
  <2> QED BY <2>1, Zenon DEF Init, TimesPast
<1>2. Init => ReportsInferred
  <2>1. Len(<<>>) # 2
    BY SMT
  <2> QED BY <2>1, Zenon DEF Init, ReportsInferred
<1> QED BY <1>1, <1>2, TimesKept, InferredKept, TypeCorrect, PTL DEF Spec
-----------------------------------------------------------------------------
(* Where the packets of registration r are in a buffer b: nowhere, or in   *)
(* its first place, its last one, or two with none of r's in between.      *)
NoneIn(b, r) == \A k \in 1 .. Len(b) : b[k].ticket # r

FirstAt(b, i, r) == /\ i \in 1 .. Len(b) /\ b[i].ticket = r
                    /\ \A k \in 1 .. Len(b) : k < i => b[k].ticket # r

LastAt(b, i, r) == /\ i \in 1 .. Len(b) /\ b[i].ticket = r
                   /\ \A k \in 1 .. Len(b) : k > i => b[k].ticket # r

Adjacent(b, i, j, r) == /\ i \in 1 .. Len(b) /\ j \in 1 .. Len(b) /\ i < j
                        /\ b[i].ticket = r /\ b[j].ticket = r
                        /\ \A k \in 1 .. Len(b) : i < k /\ k < j => b[k].ticket # r

(* Where they are after a packet p has been added. *)
LEMMA PlacesAppend ==
    ASSUME NEW b \in Seq(Packet), NEW p \in Packet, NEW r \in Regs,
           NEW i \in 1 .. Len(b) + 1, NEW j \in 1 .. Len(b) + 1
    PROVE  LET c == Append(b, p)
               n == Len(b) + 1
           IN /\ Len(c) = n /\ c[n] = p
              /\ i < n => c[i] = b[i] /\ i \in 1 .. Len(b)
              /\ FirstAt(c, i, r) => \/ i < n /\ FirstAt(b, i, r)
                                     \/ i = n /\ r = p.ticket /\ NoneIn(b, r)
              /\ LastAt(c, i, r) => \/ i = n /\ r = p.ticket
                                    \/ i < n /\ r # p.ticket /\ LastAt(b, i, r)
              /\ Adjacent(c, i, j, r) => \/ i < n /\ j < n /\ Adjacent(b, i, j, r)
                                         \/ i < n /\ j = n /\ r = p.ticket /\ LastAt(b, i, r)
<1> DEFINE c == Append(b, p)
           n == Len(b) + 1
<1>1. /\ Len(c) = n /\ c[n] = p /\ Len(b) \in Nat
      /\ \A k \in 1 .. Len(b) : k \in 1 .. Len(c) /\ c[k] = b[k]
      /\ n \in 1 .. Len(c)
  BY SMT
<1> HIDE DEF c
<1>2. i < n => c[i] = b[i] /\ i \in 1 .. Len(b)
  BY <1>1, SMT
<1>4. FirstAt(c, i, r) => \/ i < n /\ FirstAt(b, i, r)
                          \/ i = n /\ r = p.ticket /\ NoneIn(b, r)
  BY <1>1, SMT DEF FirstAt, NoneIn
<1>5. LastAt(c, i, r) => \/ i = n /\ r = p.ticket
                         \/ i < n /\ r # p.ticket /\ LastAt(b, i, r)
  BY <1>1, SMT DEF LastAt
<1>6. Adjacent(c, i, j, r) => \/ i < n /\ j < n /\ Adjacent(b, i, j, r)
                              \/ i < n /\ j = n /\ r = p.ticket /\ LastAt(b, i, r)
  BY <1>1, SMT DEF Adjacent, LastAt
<1> QED BY <1>1, <1>2, <1>4, <1>5, <1>6 DEF c

LEMMA NoneInAppend ==
    ASSUME NEW b \in Seq(Packet), NEW p \in Packet, NEW r \in Regs, NoneIn(Append(b, p), r)
    PROVE  NoneIn(b, r) /\ r # p.ticket
<1> DEFINE c == Append(b, p)
<1>1. /\ \A k \in 1 .. Len(b) : k \in 1 .. Len(c) /\ c[k] = b[k]
      /\ Len(b) + 1 \in 1 .. Len(c) /\ c[Len(b) + 1] = p
  BY SMT
<1>2. NoneIn(c, r)
  OBVIOUS
<1> HIDE DEF c
<1> QED BY <1>1, <1>2, Zenon DEF NoneIn

(* Where they are after the first packet has been taken. *)
LEMMA PlacesTail ==
    ASSUME NEW b \in Seq(Packet), b # <<>>, NEW r \in Regs,
           NEW i \in 1 .. Len(Tail(b)), NEW j \in 1 .. Len(Tail(b))
    PROVE  LET c == Tail(b)
           IN /\ c[i] = b[i + 1] /\ c[j] = b[j + 1]
              /\ i + 1 \in 1 .. Len(b) /\ j + 1 \in 1 .. Len(b)
              /\ FirstAt(c, i, r) => IF r = Head(b).ticket THEN Adjacent(b, 1, i + 1, r)
                                                           ELSE FirstAt(b, i + 1, r)
              /\ LastAt(c, i, r) => LastAt(b, i + 1, r)
              /\ Adjacent(c, i, j, r) => Adjacent(b, i + 1, j + 1, r)
<1> DEFINE c == Tail(b)
<1>1. /\ Len(b) \in Nat \ {0} /\ Len(c) = Len(b) - 1 /\ Head(b) = b[1]
      /\ \A k \in 1 .. Len(c) : c[k] = b[k + 1]
      /\ i \in 1 .. Len(c) /\ j \in 1 .. Len(c)
  BY SMT
<1> HIDE DEF c
<1>2. ASSUME NEW k \in 1 .. Len(b), k # 1
      PROVE  \E m \in 1 .. Len(c) : k = m + 1 /\ c[m] = b[k]
  <2>1. k - 1 \in 1 .. Len(c) /\ k = (k - 1) + 1
    BY <1>1, <1>2, SMT
  <2>2. c[k - 1] = b[k]
    BY <1>1, <2>1, Zenon
  <2> QED BY <2>1, <2>2, Zenon
<1>3. FirstAt(c, i, r) => IF r = Head(b).ticket THEN Adjacent(b, 1, i + 1, r)
                                               ELSE FirstAt(b, i + 1, r)
  <2> SUFFICES ASSUME FirstAt(c, i, r)
               PROVE  IF r = Head(b).ticket THEN Adjacent(b, 1, i + 1, r)
                                            ELSE FirstAt(b, i + 1, r)
    OBVIOUS
  <2>1. b[i + 1].ticket = r
    BY <1>1, Zenon DEF FirstAt
  <2>2. ASSUME NEW k \in 1 .. Len(b), k # 1, k < i + 1 PROVE b[k].ticket # r
    <3>1. PICK m \in 1 .. Len(c) : k = m + 1 /\ c[m] = b[k]
      BY <1>2, <2>2
    <3>2. m < i
      BY <1>1, <2>2, <3>1, SMT
    <3> QED BY <3>1, <3>2, Zenon DEF FirstAt
  <2>3. i + 1 \in 1 .. Len(b) /\ 1 \in 1 .. Len(b) /\ 1 < i + 1
    BY <1>1, SMT
  <2>4. \A k \in 1 .. Len(b) : 1 < k => k # 1
    BY SMT
  <2> QED BY <1>1, <2>1, <2>2, <2>3, <2>4, Zenon DEF FirstAt, Adjacent
<1>4. LastAt(c, i, r) => LastAt(b, i + 1, r)
  <2> SUFFICES ASSUME LastAt(c, i, r) PROVE LastAt(b, i + 1, r)
    OBVIOUS
  <2>1. i + 1 \in 1 .. Len(b) /\ b[i + 1].ticket = r
    BY <1>1, SMT DEF LastAt
  <2>2. ASSUME NEW k \in 1 .. Len(b), k > i + 1 PROVE b[k].ticket # r
    <3>1. k # 1
      BY <1>1, <2>2, SMT
    <3>2. PICK m \in 1 .. Len(c) : k = m + 1 /\ c[m] = b[k]
      BY <1>2, <3>1
    <3>3. m > i
      BY <1>1, <2>2, <3>2, SMT
    <3> QED BY <3>2, <3>3, Zenon DEF LastAt
  <2> QED BY <2>1, <2>2, Zenon DEF LastAt
<1>5. Adjacent(c, i, j, r) => Adjacent(b, i + 1, j + 1, r)
  <2> SUFFICES ASSUME Adjacent(c, i, j, r) PROVE Adjacent(b, i + 1, j + 1, r)
    OBVIOUS
  <2>1. /\ i + 1 \in 1 .. Len(b) /\ j + 1 \in 1 .. Len(b)
        /\ i < j => i + 1 < j + 1
    BY <1>1, SMT
  <2>2. b[i + 1].ticket = r /\ b[j + 1].ticket = r
    BY <1>1, Zenon DEF Adjacent
  <2>3. ASSUME NEW k \in 1 .. Len(b), i + 1 < k, k < j + 1 PROVE b[k].ticket # r
    <3>1. k # 1
      BY <1>1, <2>3, SMT
    <3>2. PICK m \in 1 .. Len(c) : k = m + 1 /\ c[m] = b[k]
      BY <1>2, <3>1
    <3>3. i < m /\ m < j
      BY <1>1, <2>3, <3>2, SMT
    <3> QED BY <3>2, <3>3, Zenon DEF Adjacent
  <2> QED BY <2>1, <2>2, <2>3, Zenon DEF Adjacent
<1> QED BY <1>1, <1>3, <1>4, <1>5, SMT DEF c

LEMMA NoneInTail ==
    ASSUME NEW b \in Seq(Packet), b # <<>>, NEW r \in Regs, NoneIn(Tail(b), r)
    PROVE  IF r = Head(b).ticket THEN LastAt(b, 1, r) ELSE NoneIn(b, r)
<1> DEFINE c == Tail(b)
<1>1. /\ Len(b) \in Nat \ {0} /\ Len(c) = Len(b) - 1 /\ Head(b) = b[1]
      /\ \A k \in 1 .. Len(c) : c[k] = b[k + 1]
  BY SMT
<1>2. NoneIn(c, r)
  OBVIOUS
<1> HIDE DEF c
<1>3. ASSUME NEW k \in 1 .. Len(b), k # 1 PROVE b[k].ticket # r
  <2>1. k - 1 \in 1 .. Len(c) /\ k = (k - 1) + 1
    BY <1>1, <1>3, SMT
  <2>2. c[k - 1] = b[k]
    BY <1>1, <2>1, Zenon
  <2> QED BY <1>2, <2>1, <2>2, Zenon DEF NoneIn
<1>4. 1 \in 1 .. Len(b) /\ \A k \in 1 .. Len(b) : k > 1 => k # 1
  BY <1>1, SMT
<1> QED BY <1>1, <1>3, <1>4, Zenon DEF NoneIn, LastAt
-----------------------------------------------------------------------------
(* The packets of a registration form a line: the notification sent last,  *)
(* those in the buffer, the one still to be put, and the stream itself.    *)
(* Each is in step with the next.                                          *)
Follows(a, b) == a.life < b.life \/ (b.life = a.life /\ b.rtpts = Stamp(a.rtpts))

(* Packet a is the newest that the stream of r, if there is one, has made. *)
Current(r, a) == /\ a.life <= started
                 /\ r \in Streams => \/ a.life < life[r]
                                     \/ a.life = life[r] /\ a.rtpts = last_rtpts[r]

NoneOut(r) == \A p \in out : p.ticket # r

OneEach == \A p, q \in out : p.ticket = q.ticket => p = q

LivesCounted == \A r \in Regs : life[r] <= started

SentCounted == \A r \in Regs : sent[r] # <<>> =>
                   sent[r][1] \in Notification /\ sent[r][1].number < reg[r].notcnt

BufferInStep ==
    \A r \in Regs : \A i, j \in 1 .. Len(resbuf) :
        Adjacent(resbuf, i, j, r) => Follows(resbuf[i], resbuf[j])

OutInStep ==
    \A p \in out : \A i \in 1 .. Len(resbuf) :
        LastAt(resbuf, i, p.ticket) => Follows(resbuf[i], p)

SentInStep ==
    \A r \in Regs : sent[r] # <<>> =>
        /\ \A i \in 1 .. Len(resbuf) : FirstAt(resbuf, i, r) => Follows(sent[r][1], resbuf[i])
        /\ \A p \in out : p.ticket = r /\ NoneIn(resbuf, r) => Follows(sent[r][1], p)

NewestCurrent ==
    /\ \A p \in out : Current(p.ticket, p)
    /\ \A r \in Regs : NoneOut(r) =>
          /\ \A i \in 1 .. Len(resbuf) : LastAt(resbuf, i, r) => Current(r, resbuf[i])
          /\ sent[r] # <<>> /\ NoneIn(resbuf, r) => Current(r, sent[r][1])

LineInv == /\ OneEach /\ LivesCounted /\ SentCounted
           /\ BufferInStep /\ OutInStep /\ SentInStep /\ NewestCurrent

(* Steps that move no packet and no stream. *)
LEMMA LineUnmoved ==
    ASSUME LineInv, UNCHANGED <<streamVars, out, resbuf, coapVars>>
    PROVE  LineInv'
<1> USE DEF streamVars, coapVars
<1>1. OneEach' /\ LivesCounted' /\ SentCounted'
  BY Zenon DEF LineInv, OneEach, LivesCounted, SentCounted
<1>2. BufferInStep' /\ OutInStep'
  BY Zenon DEF LineInv, BufferInStep, OutInStep
<1>3. SentInStep'
  BY Zenon DEF LineInv, SentInStep
<1>4. NewestCurrent'
  BY Zenon DEF LineInv, NewestCurrent, NoneOut, Current, Streams
<1> QED BY <1>1, <1>2, <1>3, <1>4 DEF LineInv

(* A request moves streams only, and no packet is being put meanwhile.     *)
LEMMA LineAtRequest ==
    ASSUME TypeOK, LineInv, UNCHANGED <<out, resbuf, coapVars>>,
           LivesCounted',
           \A r \in Regs : \A a : a.life \in Nat /\ Current(r, a) => Current(r, a)'
    PROVE  LineInv'
<1> USE DEF coapVars
<1>1. OneEach' /\ SentCounted'
  BY Zenon DEF LineInv, OneEach, SentCounted
<1>2. BufferInStep' /\ OutInStep'
  BY Zenon DEF LineInv, BufferInStep, OutInStep
<1>3. SentInStep'
  BY Zenon DEF LineInv, SentInStep
<1>4. /\ \A p \in out : p.ticket \in Regs /\ p.life \in Nat
      /\ \A i \in 1 .. Len(resbuf) : resbuf[i] \in Packet
      /\ \A p \in Packet : p.life \in Nat
      /\ \A n \in Notification : n.life \in Nat
  <2>1. \A i \in 1 .. Len(resbuf) : resbuf[i] \in Packet
    BY SMT DEF TypeOK
  <2>2. \A p \in Packet : p.life \in Nat /\ p.ticket \in Regs
    BY Zenon DEF Packet
  <2>3. \A n \in Notification : n.life \in Nat
    BY Zenon DEF Notification
  <2> QED BY <2>1, <2>2, <2>3, Zenon DEF TypeOK
<1>5. NewestCurrent'
  <2>1. \A p \in out' : Current(p.ticket, p)'
    BY <1>4, Zenon DEF LineInv, NewestCurrent
  <2>2. ASSUME NEW r \in Regs, NoneOut(r)', NEW i \in 1 .. Len(resbuf), LastAt(resbuf, i, r)
        PROVE  Current(r, resbuf[i])'
    <3>1. NoneOut(r)
      BY <2>2, Zenon DEF NoneOut
    <3>2. Current(r, resbuf[i]) /\ resbuf[i].life \in Nat
      BY <1>4, <2>2, <3>1, Zenon DEF LineInv, NewestCurrent
    <3>3. \A a : a.life \in Nat /\ Current(r, a) => Current(r, a)'
      OBVIOUS
    <3> QED BY <3>2, <3>3, Zenon DEF Current
  <2>3. ASSUME NEW r \in Regs, NoneOut(r)', sent[r] # <<>>, NoneIn(resbuf, r)
        PROVE  Current(r, sent[r][1])'
    <3>1. NoneOut(r)
      BY <2>3, Zenon DEF NoneOut
    <3>2. Current(r, sent[r][1]) /\ sent[r][1].life \in Nat
      BY <1>4, <2>3, <3>1, Zenon DEF LineInv, NewestCurrent, SentCounted
    <3>3. \A a : a.life \in Nat /\ Current(r, a) => Current(r, a)'
      OBVIOUS
    <3> QED BY <3>2, <3>3, Zenon DEF Current
  <2> QED BY <2>1, <2>2, <2>3, Zenon DEF NewestCurrent
<1> QED BY <1>1, <1>2, <1>3, <1>5 DEF LineInv

LEMMA RequestLine == TypeOK /\ LineInv /\ HandleRequest => LineInv'
<1> SUFFICES ASSUME TypeOK, LineInv, HandleRequest PROVE LineInv'
  OBVIOUS
<1>0. UNCHANGED <<out, resbuf, coapVars>>
  BY Zenon DEF HandleRequest
<1>1. CASE Oneshot
  BY <1>0, <1>1, LineUnmoved, Zenon DEF Oneshot
<1>2. ASSUME NEW r \in Regs, StartStream(r) PROVE LineInv'
  <2>1. PICK ts \in Starts : last_rtpts' = [last_rtpts EXCEPT ![r] = ts]
    BY <1>2, Zenon DEF StartStream
  <2>2. started \in Nat /\ started' = started + 1 /\ life' = [life EXCEPT ![r] = started']
    BY <1>2, Zenon DEF StartStream, TypeOK
  <2>3. LivesCounted'
    BY <2>2, SMT DEF LineInv, LivesCounted, TypeOK
  <2>4. ASSUME NEW q \in Regs, NEW a, a.life \in Nat, Current(q, a)
        PROVE  Current(q, a)'
    <3>1. a.life <= started' /\ a.life < started'
      BY <2>2, <2>4, SMT DEF Current
    <3>2. CASE q = r
      <4>1. life'[q] = started'
        BY <2>2, <3>2, Zenon DEF TypeOK
      <4> QED BY <3>1, <4>1, Zenon DEF Current
    <3>3. CASE q # r
      <4>1. life'[q] = life[q] /\ last_rtpts'[q] = last_rtpts[q]
        BY <2>1, <2>2, <3>3, Zenon DEF TypeOK
      <4> QED BY <2>4, <3>1, <4>1, Zenon DEF Current, Streams
    <3> QED BY <3>2, <3>3
  <2> QED BY <1>0, <2>3, <2>4, LineAtRequest
<1>3. ASSUME NEW r \in Regs, StopStream(r) PROVE LineInv'
  <2>1. /\ last_rtpts' = [last_rtpts EXCEPT ![r] = None]
        /\ started' = started /\ life' = life
    BY <1>3, Zenon DEF StopStream
  <2>2. LivesCounted'
    BY <2>1, Zenon DEF LineInv, LivesCounted
  <2>3. ASSUME NEW q \in Regs, NEW a, a.life \in Nat, Current(q, a)
        PROVE  Current(q, a)'
    <3>1. q \in Streams' => q \in Streams /\ last_rtpts'[q] = last_rtpts[q]
      BY <2>1, Zenon DEF Streams, TypeOK
    <3> QED BY <2>1, <2>3, <3>1, Zenon DEF Current
  <2> QED BY <1>0, <2>2, <2>3, LineAtRequest
<1> QED BY <1>1, <1>2, <1>3, Zenon DEF HandleRequest

(* A delivery gives each stream's line a new end. *)
LEMMA DeliverLine ==
    ASSUME TypeOK, LineInv, out = {}, NEW t \in Nat, NEW v, Deliver(t, v),
           UNCHANGED <<resbuf, coapVars, started, life>>
    PROVE  LineInv'
<1> USE DEF coapVars
<1>1. /\ out' = {Encoded(r, t) : r \in Streams}
      /\ last_rtpts' = [r \in Regs |-> IF r \in Streams THEN Stamp(last_rtpts[r]) ELSE None]
  BY Zenon DEF Deliver
<1>2. \A r : /\ Encoded(r, t).ticket = r /\ Encoded(r, t).life = life[r]
             /\ Encoded(r, t).rtpts = Stamp(last_rtpts[r])
  BY SMT DEF Encoded
<1>3. ASSUME NEW p \in out'
      PROVE  /\ p.ticket \in Streams /\ p.ticket \in Regs /\ p = Encoded(p.ticket, t)
             /\ p.life = life[p.ticket] /\ p.rtpts = Stamp(last_rtpts[p.ticket])
  <2>1. PICK r \in Streams : p = Encoded(r, t)
    BY <1>1, Zenon
  <2> QED BY <1>2, <2>1, Zenon DEF Streams
<1>4. \A r \in Streams : ~NoneOut(r)'
  BY <1>1, <1>2, Zenon DEF NoneOut
<1>5. \A r : NoneOut(r)
  BY Zenon DEF NoneOut
<1>6. ASSUME NEW r \in Streams, NEW a, Current(r, a), NEW p \in out', p.ticket = r
      PROVE  Follows(a, p)
  <2>1. a.life < life[r] \/ (a.life = life[r] /\ a.rtpts = last_rtpts[r])
    BY <1>6, Zenon DEF Current
  <2>2. p.life = life[r] /\ p.rtpts = Stamp(last_rtpts[r])
    BY <1>3, <1>6, Zenon
  <2> QED BY <2>1, <2>2, Zenon DEF Follows
<1>7. OneEach' /\ LivesCounted' /\ SentCounted' /\ BufferInStep'
  BY <1>3, Zenon DEF LineInv, OneEach, LivesCounted, SentCounted, BufferInStep
<1>8. OutInStep'
  <2> SUFFICES ASSUME NEW p \in out', NEW i \in 1 .. Len(resbuf), LastAt(resbuf, i, p.ticket)
               PROVE  Follows(resbuf[i], p)
    BY Zenon DEF OutInStep
  <2>1. p.ticket \in Streams /\ p.ticket \in Regs
    BY <1>3
  <2>2. Current(p.ticket, resbuf[i])
    BY <1>5, <2>1, Zenon DEF LineInv, NewestCurrent
  <2> QED BY <1>6, <2>1, <2>2, Zenon
<1>9. SentInStep'
  <2> SUFFICES ASSUME NEW r \in Regs, sent[r] # <<>>
               PROVE  /\ \A i \in 1 .. Len(resbuf) : FirstAt(resbuf, i, r) => Follows(sent[r][1], resbuf[i])
                      /\ \A p \in out' : p.ticket = r /\ NoneIn(resbuf, r) => Follows(sent[r][1], p)
    BY Zenon DEF SentInStep
  <2>1. \A i \in 1 .. Len(resbuf) : FirstAt(resbuf, i, r) => Follows(sent[r][1], resbuf[i])
    BY Zenon DEF LineInv, SentInStep
  <2>2. ASSUME NEW p \in out', p.ticket = r, NoneIn(resbuf, r) PROVE Follows(sent[r][1], p)
    <3>1. r \in Streams
      BY <1>3, <2>2
    <3>2. Current(r, sent[r][1])
      BY <1>5, <2>2, Zenon DEF LineInv, NewestCurrent
    <3> QED BY <1>6, <2>2, <3>1, <3>2, Zenon
  <2> QED BY <2>1, <2>2
<1>10. NewestCurrent'
  <2>1. ASSUME NEW p \in out' PROVE Current(p.ticket, p)'
    <3>1. p.life <= started
      BY <1>3, Zenon DEF LineInv, LivesCounted
    <3>2. last_rtpts'[p.ticket] = Stamp(last_rtpts[p.ticket])
      BY <1>1, <1>3, Zenon
    <3> QED BY <1>3, <3>1, <3>2, Zenon DEF Current
  <2>2. ASSUME NEW r \in Regs, NoneOut(r)' PROVE r \notin Streams'
    <3>1. r \notin Streams
      BY <1>4, <2>2, Zenon
    <3> QED BY <1>1, <3>1, Zenon DEF Streams
  <2>3. ASSUME NEW r \in Regs, NoneOut(r)', NEW a, Current(r, a) PROVE Current(r, a)'
    BY <2>2, <2>3, Zenon DEF Current
  <2> QED BY <1>5, <2>1, <2>3, Zenon DEF LineInv, NewestCurrent
<1> QED BY <1>7, <1>8, <1>9, <1>10 DEF LineInv

LEMMA HandleSampleLine == TypeOK /\ LineInv /\ HandleSample => LineInv'
<1> SUFFICES ASSUME TypeOK, LineInv, HandleSample PROVE LineInv'
  OBVIOUS
<1>0. out = {} /\ UNCHANGED <<resbuf, coapVars, started, life>>
  BY Zenon DEF HandleSample
<1>1. CASE LookAtSamples /\ eventbased
  <2>1. UNCHANGED <<streamVars, out, resbuf, coapVars>>
    BY <1>0, <1>1, Zenon DEF LookAtSamples, streamVars
  <2> QED BY <2>1, LineUnmoved
<1>2. CASE LookAtSamples /\ ~eventbased
  <2>1. samples # <<>> /\ samples \in Seq(Nat) /\ Deliver(Head(samples), TRUE)
    BY <1>2, Zenon DEF LookAtSamples, TypeOK
  <2>2. Head(samples) \in Nat
    BY <2>1, SMT
  <2> QED BY <1>0, <2>1, <2>2, DeliverLine
<1>3. CASE LookAtCarriers
  <2>1. carried # <<>> /\ carried \in Seq(Nat) /\ Deliver(Head(carried), cache_valid)
    BY <1>3, Zenon DEF LookAtCarriers, TypeOK
  <2>2. Head(carried) \in Nat
    BY <2>1, SMT
  <2> QED BY <1>0, <2>1, <2>2, DeliverLine
<1> QED BY <1>1, <1>2, <1>3, Zenon DEF HandleSample

(* A put moves the packet that is to be put to the end of the buffer.      *)
LEMMA PutLine == TypeOK /\ LineInv /\ PutResponse => LineInv'
<1> SUFFICES ASSUME TypeOK, LineInv, PutResponse PROVE LineInv'
  OBVIOUS
<1>0. UNCHANGED <<started, life, last_rtpts, sent, reg>>
  BY Zenon DEF PutResponse, streamVars, coapVars
<1>1. PICK p \in out : out' = out \ {p} /\ resbuf' = Append(resbuf, p)
  BY Zenon DEF PutResponse
<1> DEFINE b == resbuf
           c == Append(b, p)
           n == Len(b) + 1
<1>2. p \in Packet /\ p.ticket \in Regs /\ b \in Seq(Packet)
  BY <1>1, Zenon DEF TypeOK, Packet
<1>3. Len(c) = n /\ c[n] = p /\ Len(b) \in Nat
  BY <1>2, SMT
<1>4. ASSUME NEW r \in Regs, NEW i \in 1 .. Len(c), NEW j \in 1 .. Len(c)
      PROVE  /\ i < n => c[i] = b[i] /\ i \in 1 .. Len(b)
             /\ FirstAt(c, i, r) => \/ i < n /\ FirstAt(b, i, r)
                                    \/ i = n /\ r = p.ticket /\ NoneIn(b, r)
             /\ LastAt(c, i, r) => \/ i = n /\ r = p.ticket
                                   \/ i < n /\ r # p.ticket /\ LastAt(b, i, r)
             /\ Adjacent(c, i, j, r) => \/ i < n /\ j < n /\ Adjacent(b, i, j, r)
                                        \/ i < n /\ j = n /\ r = p.ticket /\ LastAt(b, i, r)
  BY <1>2, <1>3, PlacesAppend, Zenon
<1>5. ASSUME NEW r \in Regs, NoneIn(c, r) PROVE NoneIn(b, r) /\ r # p.ticket
  BY <1>2, <1>5, NoneInAppend
<1>6. resbuf' = c
  BY <1>1
<1>7. \A q \in out' : q \in out /\ q.ticket \in Regs /\ q.ticket # p.ticket
  BY <1>1, Zenon DEF LineInv, OneEach, TypeOK, Packet
<1>8. \A r \in Regs : NoneOut(r)' /\ r # p.ticket => NoneOut(r)
  BY <1>1, Zenon DEF NoneOut
<1>9. \A r, a : Current(r, a) => Current(r, a)'
  BY <1>0, Zenon DEF Current, Streams
<1> HIDE DEF c, n
<1>10. OneEach' /\ LivesCounted' /\ SentCounted'
  BY <1>0, <1>7, Zenon DEF LineInv, OneEach, LivesCounted, SentCounted
<1>11. BufferInStep'
  <2> SUFFICES ASSUME NEW r \in Regs, NEW i \in 1 .. Len(c), NEW j \in 1 .. Len(c),
                      Adjacent(c, i, j, r)
               PROVE  Follows(c[i], c[j])
    BY <1>6, Zenon DEF BufferInStep
  <2>1. CASE i < n /\ j < n /\ Adjacent(b, i, j, r)
    BY <1>4, <2>1, Zenon DEF LineInv, BufferInStep
  <2>2. CASE i < n /\ j = n /\ r = p.ticket /\ LastAt(b, i, r)
    BY <1>1, <1>3, <1>4, <2>2, Zenon DEF LineInv, OutInStep
  <2> QED BY <1>4, <2>1, <2>2, Zenon
<1>12. OutInStep'
  <2> SUFFICES ASSUME NEW q \in out', NEW i \in 1 .. Len(c), LastAt(c, i, q.ticket)
               PROVE  Follows(c[i], q)
    BY <1>6, Zenon DEF OutInStep
  <2>1. q \in out /\ i < n /\ LastAt(b, i, q.ticket)
    BY <1>4, <1>7, Zenon
  <2> QED BY <1>4, <1>7, <2>1, Zenon DEF LineInv, OutInStep
<1>13. SentInStep'
  <2> SUFFICES ASSUME NEW r \in Regs, sent[r] # <<>>
               PROVE  /\ \A i \in 1 .. Len(c) : FirstAt(c, i, r) => Follows(sent[r][1], c[i])
                      /\ \A q \in out' : q.ticket = r /\ NoneIn(c, r) => Follows(sent[r][1], q)
    BY <1>0, <1>6, Zenon DEF SentInStep
  <2>1. ASSUME NEW i \in 1 .. Len(c), FirstAt(c, i, r) PROVE Follows(sent[r][1], c[i])
    <3>1. CASE i < n /\ FirstAt(b, i, r)
      BY <1>4, <3>1, Zenon DEF LineInv, SentInStep
    <3>2. CASE i = n /\ r = p.ticket /\ NoneIn(b, r)
      BY <1>1, <1>3, <3>2, Zenon DEF LineInv, SentInStep
    <3> QED BY <1>4, <2>1, <3>1, <3>2, Zenon
  <2>2. ASSUME NEW q \in out', q.ticket = r, NoneIn(c, r) PROVE Follows(sent[r][1], q)
    BY <1>5, <1>7, <2>2, Zenon DEF LineInv, SentInStep
  <2> QED BY <2>1, <2>2
<1>14. NewestCurrent'
  <2>1. ASSUME NEW q \in out' PROVE Current(q.ticket, q)'
    BY <1>7, <1>9, Zenon DEF LineInv, NewestCurrent
  <2>2. ASSUME NEW r \in Regs, NoneOut(r)', NEW i \in 1 .. Len(c), LastAt(c, i, r)
        PROVE  Current(r, c[i])
    <3>1. CASE i = n /\ r = p.ticket
      BY <1>1, <1>3, <3>1, Zenon DEF LineInv, NewestCurrent
    <3>2. CASE i < n /\ r # p.ticket /\ LastAt(b, i, r)
      BY <1>4, <1>8, <2>2, <3>2, Zenon DEF LineInv, NewestCurrent
    <3> QED BY <1>4, <2>2, <3>1, <3>2, Zenon
  <2>3. ASSUME NEW r \in Regs, NoneOut(r)', sent[r] # <<>>, NoneIn(c, r)
        PROVE  Current(r, sent[r][1])
    BY <1>5, <1>8, <2>3, Zenon DEF LineInv, NewestCurrent
  <2>4. ASSUME NEW r \in Regs, NoneOut(r)', NEW i \in 1 .. Len(resbuf)', LastAt(resbuf, i, r)'
        PROVE  Current(r, resbuf[i])'
    <3>1. Current(r, resbuf'[i])
      BY <1>6, <2>2, <2>4, Zenon
    <3> QED BY <1>0, <3>1, Zenon DEF Current, Streams
  <2>5. ASSUME NEW r \in Regs, NoneOut(r)', sent'[r] # <<>>, NoneIn(resbuf, r)'
        PROVE  Current(r, sent[r][1])'
    <3>1. Current(r, sent'[r][1])
      BY <1>0, <1>6, <2>3, <2>5, Zenon
    <3> QED BY <1>0, <3>1, Zenon DEF Current, Streams
  <2> QED BY <2>1, <2>4, <2>5, Zenon DEF NewestCurrent
<1> QED BY <1>10, <1>11, <1>12, <1>13, <1>14 DEF LineInv

(* What an update of packet h, the first of the buffer, does to its        *)
(* registration, and to no other.                                          *)
LEMMA ServeEffect ==
    ASSUME TypeOK, ServeUpdate, NEW h, h = Head(resbuf)
    PROVE  /\ h \in Packet /\ h.ticket \in Regs
           /\ \A q \in Regs : q # h.ticket => sent'[q] = sent[q] /\ reg'[q] = reg[q]
           /\ \/ sent'[h.ticket] = <<>>
              \/ /\ sent'[h.ticket] # <<>> /\ sent'[h.ticket][1] \in Notification
                 /\ sent'[h.ticket][1].life = h.life /\ sent'[h.ticket][1].rtpts = h.rtpts
                 /\ sent'[h.ticket][1].number = reg[h.ticket].notcnt
                 /\ reg'[h.ticket].notcnt = reg[h.ticket].notcnt + 1
<1> DEFINE r == h.ticket
           x == Counted(reg[r], h)
           data == [kind |-> "data", number |-> reg[r].notcnt, life |-> h.life,
                    ntpts |-> h.ntpts, rtpts |-> h.rtpts]
<1>1. h \in Packet
  BY SMT DEF TypeOK, ServeUpdate
<1>2. /\ r \in Regs /\ h.life \in Nat /\ h.ntpts \in Nat /\ h.rtpts \in Nat
      /\ reg[r] \in Registration /\ reg[r].notcnt \in Nat
  BY <1>1, Zenon DEF Packet, TypeOK, Registration
<1>3. CASE DropUpdate(h)
  BY <1>1, <1>2, <1>3, Zenon DEF DropUpdate, TypeOK
<1>4. CASE SendUpdate(h)
  <2>1. \A q \in Regs : q # r => sent'[q] = sent[q] /\ reg'[q] = reg[q]
    <3>1. /\ \E v : reg' = [reg EXCEPT ![r] = v]
          /\ \E v : sent' = [sent EXCEPT ![r] = v]
      BY <1>4, Zenon DEF SendUpdate
    <3> HIDE DEF r
    <3> QED BY <1>2, <3>1, Zenon DEF TypeOK
  <2>2. sent'[r] = <<data, FormReport(x)>> \/ sent'[r] = <<data>>
    BY <1>2, <1>4, Zenon DEF SendUpdate, TypeOK
  <2>3. sent'[r] # <<>> /\ sent'[r][1] = data
    <3> DEFINE report == FormReport(x)
    <3> HIDE DEF data, report
    <3>1. /\ <<data, report>> # <<>> /\ <<data, report>>[1] = data
          /\ <<data>> # <<>> /\ <<data>>[1] = data
      BY SMT
    <3>2. sent'[r] = <<data, report>> \/ sent'[r] = <<data>>
      BY <2>2 DEF report
    <3> QED BY <3>1, <3>2, Zenon
  <2>4. /\ data \in Notification /\ data.life = h.life /\ data.rtpts = h.rtpts
        /\ data.number = reg[r].notcnt
    BY <1>2, Zenon DEF Notification
  <2>5. reg'[r].notcnt = reg[r].notcnt + 1
    <3>1. x.notcnt = reg[r].notcnt + 1 /\ x \in Registration
      BY <1>1, <1>2, SendTypes, Zenon DEF Counted
    <3>2. reg'[r] = [x EXCEPT !.last_sr_octcount = x.octcount] \/ reg'[r] = x
      BY <1>2, <1>4, Zenon DEF SendUpdate, TypeOK
    <3> HIDE DEF x, r
    <3> QED BY <3>1, <3>2, SMT DEF Registration
  <2> HIDE DEF data
  <2> QED BY <1>1, <1>2, <2>1, <2>3, <2>4, <2>5, Zenon
<1> QED BY <1>3, <1>4, Zenon DEF ServeUpdate

(* An update moves the first packet of the buffer to the client's side.    *)
LEMMA ServeLine == TypeOK /\ LineInv /\ ServeUpdate => LineInv'
<1> SUFFICES ASSUME TypeOK, LineInv, ServeUpdate PROVE LineInv'
  OBVIOUS
<1> DEFINE b == resbuf
           c == Tail(b)
           h == Head(b)
<1>0. /\ b # <<>> /\ resbuf' = c /\ b \in Seq(Packet)
      /\ UNCHANGED <<out, started, life, last_rtpts>>
  BY Zenon DEF ServeUpdate, streamVars, TypeOK
<1>1. /\ h \in Packet /\ h.ticket \in Regs
      /\ \A q \in Regs : q # h.ticket => sent'[q] = sent[q] /\ reg'[q] = reg[q]
      /\ \/ sent'[h.ticket] = <<>>
         \/ /\ sent'[h.ticket] # <<>> /\ sent'[h.ticket][1] \in Notification
            /\ sent'[h.ticket][1].life = h.life /\ sent'[h.ticket][1].rtpts = h.rtpts
            /\ sent'[h.ticket][1].number = reg[h.ticket].notcnt
            /\ reg'[h.ticket].notcnt = reg[h.ticket].notcnt + 1
  BY ServeEffect
<1>2. b[1] = h /\ 1 \in 1 .. Len(b)
  BY <1>0, SMT
<1>3. ASSUME NEW r \in Regs, NEW i \in 1 .. Len(c), NEW j \in 1 .. Len(c)
      PROVE  /\ c[i] = b[i + 1] /\ c[j] = b[j + 1]
             /\ i + 1 \in 1 .. Len(b) /\ j + 1 \in 1 .. Len(b)
             /\ FirstAt(c, i, r) => IF r = h.ticket THEN Adjacent(b, 1, i + 1, r)
                                                    ELSE FirstAt(b, i + 1, r)
             /\ LastAt(c, i, r) => LastAt(b, i + 1, r)
             /\ Adjacent(c, i, j, r) => Adjacent(b, i + 1, j + 1, r)
  BY <1>0, PlacesTail, Zenon
<1>4. ASSUME NEW r \in Regs, NoneIn(c, r)
      PROVE  IF r = h.ticket THEN LastAt(b, 1, r) ELSE NoneIn(b, r)
  BY <1>0, <1>4, NoneInTail, Zenon
<1> HIDE DEF c, h
<1>5. \A p \in out : p.ticket \in Regs
  BY Zenon DEF TypeOK, Packet
<1>6. OneEach' /\ LivesCounted'
  BY <1>0, Zenon DEF LineInv, OneEach, LivesCounted
<1>7. SentCounted'
  <2> SUFFICES ASSUME NEW r \in Regs, sent'[r] # <<>>
               PROVE  sent'[r][1] \in Notification /\ sent'[r][1].number < reg'[r].notcnt
    BY Zenon DEF SentCounted
  <2>1. CASE r = h.ticket
    <3>1. reg[r].notcnt \in Nat
      BY Zenon DEF TypeOK, Registration
    <3>2. \A k \in Nat : k < k + 1
      BY SMT
    <3> QED BY <1>1, <2>1, <3>1, <3>2, Zenon
  <2>2. CASE r # h.ticket
    BY <1>1, <2>2, Zenon DEF LineInv, SentCounted
  <2> QED BY <2>1, <2>2
<1>8. BufferInStep'
  <2> SUFFICES ASSUME NEW r \in Regs, NEW i \in 1 .. Len(c), NEW j \in 1 .. Len(c),
                      Adjacent(c, i, j, r)
               PROVE  Follows(c[i], c[j])
    BY <1>0, Zenon DEF BufferInStep
  <2>1. /\ i + 1 \in 1 .. Len(b) /\ j + 1 \in 1 .. Len(b) /\ Adjacent(b, i + 1, j + 1, r)
        /\ c[i] = b[i + 1] /\ c[j] = b[j + 1]
    BY <1>3
  <2> QED BY <2>1, Zenon DEF LineInv, BufferInStep
<1>9. OutInStep'
  <2> SUFFICES ASSUME NEW p \in out, NEW i \in 1 .. Len(c), LastAt(c, i, p.ticket)
               PROVE  Follows(c[i], p)
    BY <1>0, Zenon DEF OutInStep
  <2> QED BY <1>3, <1>5, ZenonT(40) DEF LineInv, OutInStep
<1>10. SentInStep'
  <2> SUFFICES ASSUME NEW r \in Regs, sent'[r] # <<>>
               PROVE  /\ \A i \in 1 .. Len(c) : FirstAt(c, i, r) => Follows(sent'[r][1], c[i])
                      /\ \A p \in out : p.ticket = r /\ NoneIn(c, r) => Follows(sent'[r][1], p)
    BY <1>0, Zenon DEF SentInStep
  <2>1. CASE r = h.ticket
    <3>1. \A q : Follows(h, q) => Follows(sent'[r][1], q)
      BY <1>1, <2>1, Zenon DEF Follows
    <3>2. ASSUME NEW i \in 1 .. Len(c), FirstAt(c, i, r) PROVE Follows(h, c[i])
      <4>1. Adjacent(b, 1, i + 1, r) /\ c[i] = b[i + 1] /\ i + 1 \in 1 .. Len(b)
        BY <1>3, <2>1, <3>2, Zenon
      <4> QED BY <1>2, <4>1, Zenon DEF LineInv, BufferInStep
    <3>3. ASSUME NEW p \in out, p.ticket = r, NoneIn(c, r) PROVE Follows(h, p)
      BY <1>2, <1>4, <2>1, <3>3, Zenon DEF LineInv, OutInStep
    <3> QED BY <3>1, <3>2, <3>3, Zenon
  <2>2. CASE r # h.ticket
    <3>1. sent'[r] = sent[r]
      BY <1>1, <2>2
    <3>2. ASSUME NEW i \in 1 .. Len(c), FirstAt(c, i, r) PROVE Follows(sent[r][1], c[i])
      BY <1>3, <2>2, <3>1, <3>2, Zenon DEF LineInv, SentInStep
    <3>3. ASSUME NEW p \in out, p.ticket = r, NoneIn(c, r) PROVE Follows(sent[r][1], p)
      BY <1>4, <2>2, <3>1, <3>3, Zenon DEF LineInv, SentInStep
    <3> QED BY <3>1, <3>2, <3>3, Zenon
  <2> QED BY <2>1, <2>2
<1>11. NewestCurrent'
  <2>1. ASSUME NEW p \in out' PROVE Current(p.ticket, p)'
    BY <1>0, Zenon DEF LineInv, NewestCurrent, Current, Streams
  <2>2. ASSUME NEW r \in Regs, NoneOut(r)', NEW i \in 1 .. Len(resbuf)', LastAt(resbuf, i, r)'
        PROVE  Current(r, resbuf[i])'
    <3>1. Current(r, resbuf'[i])
      <4>1. i \in 1 .. Len(c) /\ LastAt(c, i, r) /\ NoneOut(r)
        BY <1>0, <2>2, Zenon DEF NoneOut
      <4> QED BY <1>0, <1>3, <4>1, Zenon DEF LineInv, NewestCurrent
    <3> QED BY <1>0, <3>1, Zenon DEF Current, Streams
  <2>3. ASSUME NEW r \in Regs, NoneOut(r)', sent'[r] # <<>>, NoneIn(resbuf, r)'
        PROVE  Current(r, sent[r][1])'
    <3>1. NoneIn(c, r) /\ NoneOut(r)
      BY <1>0, <2>3, Zenon DEF NoneOut
    <3>2. CASE r = h.ticket
      <4>1. Current(r, h)
        BY <1>2, <1>4, <3>1, <3>2, Zenon DEF LineInv, NewestCurrent
      <4> QED BY <1>0, <1>1, <2>3, <3>2, <4>1, Zenon DEF Current, Streams
    <3>3. CASE r # h.ticket
      <4>1. sent'[r] = sent[r] /\ Current(r, sent[r][1])
        BY <1>1, <1>4, <2>3, <3>1, <3>3, Zenon DEF LineInv, NewestCurrent
      <4> QED BY <1>0, <4>1, Zenon DEF Current, Streams
    <3> QED BY <3>2, <3>3
  <2> QED BY <2>1, <2>2, <2>3, Zenon DEF NewestCurrent
<1> QED BY <1>6, <1>7, <1>8, <1>9, <1>10, <1>11 DEF LineInv

LEMMA InitLine == Init => LineInv
<1> SUFFICES ASSUME Init PROVE LineInv
  OBVIOUS
<1>1. /\ out = {} /\ resbuf = <<>> /\ started = 0
      /\ \A r \in Regs : sent[r] = <<>> /\ life[r] = 0
  BY Zenon DEF Init
<1>2. ~(\E i : i \in 1 .. Len(<<>>)) /\ 0 <= 0
  BY SMT
<1> QED BY <1>1, <1>2, Zenon DEF LineInv, OneEach, LivesCounted, SentCounted, BufferInStep,
                                 OutInStep, SentInStep, NewestCurrent

LEMMA NextLine == TypeOK /\ LineInv /\ [Next]_vars => LineInv'
<1> SUFFICES ASSUME TypeOK, LineInv, [Next]_vars PROVE LineInv'
  OBVIOUS
<1>1. CASE Tick \/ Sample \/ Repeat \/ UNCHANGED vars
  <2>1. UNCHANGED <<streamVars, out, resbuf, coapVars>>
    BY <1>1, Zenon DEF Tick, Sample, Repeat, vars
  <2> QED BY <2>1, LineUnmoved
<1> QED BY <1>1, RequestLine, HandleSampleLine, PutLine, ServeLine, Zenon DEF Next

(* Whatever goes out to a client follows what went out before it. *)
LEMMA StepInStep ==
    TypeOK /\ LineInv /\ [Next]_vars =>
        \A r \in Regs : sent[r] # <<>> /\ sent'[r] \notin {<<>>, sent[r]} =>
                            InStep(sent[r][1], sent'[r][1])
<1> SUFFICES ASSUME TypeOK, LineInv, [Next]_vars,
                    NEW r \in Regs, sent[r] # <<>>, sent'[r] \notin {<<>>, sent[r]}
             PROVE  InStep(sent[r][1], sent'[r][1])
  OBVIOUS
<1> DEFINE h == Head(resbuf)
<1>1. ServeUpdate
  BY Zenon DEF Next, Tick, HandleRequest, Sample, Repeat, HandleSample, PutResponse, vars, coapVars
<1>2. /\ r = h.ticket /\ h \in Packet /\ sent'[r][1] \in Notification
      /\ sent'[r][1].life = h.life /\ sent'[r][1].rtpts = h.rtpts
      /\ sent'[r][1].number = reg[r].notcnt
  BY <1>1, ServeEffect, Zenon
<1>3. 1 \in 1 .. Len(resbuf) /\ resbuf[1] = h /\ \A k \in 1 .. Len(resbuf) : ~(k < 1)
  BY <1>1, SMT DEF ServeUpdate, TypeOK
<1>4. Follows(sent[r][1], h)
  BY <1>2, <1>3, Zenon DEF LineInv, SentInStep, FirstAt
<1>5. /\ sent[r][1] \in Notification /\ sent[r][1].number < reg[r].notcnt
      /\ reg[r].notcnt \in Nat
  BY Zenon DEF LineInv, SentCounted, TypeOK, Registration
<1>6. /\ sent[r][1].number \in Nat /\ sent[r][1].life \in Nat
      /\ sent'[r][1].number \in Nat /\ sent'[r][1].life \in Nat
  BY <1>2, <1>5, Zenon DEF Notification
<1>7. sent'[r][1].number > sent[r][1].number
  BY <1>2, <1>5, <1>6, SMT
<1>8. Follows(sent[r][1], sent'[r][1])
  BY <1>2, <1>4, Zenon DEF Follows
<1>9. sent[r][1].life < sent'[r][1].life => sent'[r][1].life > sent[r][1].life
  BY <1>6, SMT
<1> QED BY <1>7, <1>8, <1>9, Zenon DEF InStep, Follows

(* No packet of a stream is lost, sent twice or overtaken between the      *)
(* sample and the client, whatever the size of the response buffer and     *)
(* however many streams share it.                                          *)
THEOREM StepsKept == Spec => NotificationsInStep
<1>1. Init => LineInv
  BY InitLine
<1>2. TypeOK /\ LineInv /\ [Next]_vars => LineInv'
  BY NextLine
<1>3. TypeOK /\ LineInv /\ [Next]_vars =>
        (\A r \in Regs : sent[r] # <<>> /\ sent'[r] \notin {<<>>, sent[r]} =>
                            InStep(sent[r][1], sent'[r][1]))
  BY StepInStep
<1> QED BY <1>1, <1>2, <1>3, TypeCorrect, PTL DEF Spec, NotificationsInStep
=============================================================================
