---------------------------- MODULE ZeSenseTypes ----------------------------
(***************************************************************************)
(* Every step of ZeSense keeps the types, given that a registration to     *)
(* which a transaction refers is in use: the other half of the induction,  *)
(* in ZeSense_proofs, shows that it is.                                    *)
(***************************************************************************)
EXTENDS ZeSense, QueueLemmas, FiniteSetTheorems

(* How the number of messages of a kind with a ticket changes when a       *)
(* message is appended to a queue, or taken from its head.                 *)

(* The places that Count counts. *)
Matching(queue, k, t) == {i \in DOMAIN queue : queue[i].rtype = k /\ queue[i].ticket = t}

(* Is message m counted? *)
Is(m, k, t) == IF m.rtype = k /\ m.ticket = t THEN 1 ELSE 0

LEMMA IsBit == ASSUME NEW m, NEW k, NEW t PROVE Is(m, k, t) \in {0, 1}
  BY Zenon DEF Is

LEMMA MatchingFinite ==
    ASSUME NEW S, NEW q \in Seq(S), NEW k, NEW t
    PROVE  IsFiniteSet(Matching(q, k, t)) /\ Count(q, k, t) \in Nat
           /\ Count(q, k, t) = Cardinality(Matching(q, k, t))
<1>1. DOMAIN q = 1 .. Len(q) /\ Len(q) \in Nat
  BY SMT
<1>2. IsFiniteSet(DOMAIN q)
  BY <1>1, FS_Interval, SMT
<1>3. Matching(q, k, t) \in SUBSET (DOMAIN q)
  BY Zenon DEF Matching
<1>4. IsFiniteSet(Matching(q, k, t))
  BY <1>2, <1>3, FS_Subset, Zenon
<1>5. Cardinality(Matching(q, k, t)) \in Nat
  BY <1>4, FS_CardinalityType, Zenon
<1> QED BY <1>4, <1>5, Zenon DEF Count, Matching

(* An empty queue holds none. *)
LEMMA CountEmpty == ASSUME NEW k, NEW t PROVE Count(<<>>, k, t) = 0
<1>1. {i \in DOMAIN <<>> : <<>>[i].rtype = k /\ <<>>[i].ticket = t} = {}
  BY SMT
<1> QED BY <1>1, FS_EmptySet, Zenon DEF Count

(* Append adds one exactly if the message is of that kind. *)
LEMMA CountAppend ==
    ASSUME NEW S, NEW q \in Seq(S), NEW m \in S, NEW k, NEW t
    PROVE  Count(Append(q, m), k, t)
             = Count(q, k, t) + Is(m, k, t)
<1> DEFINE n == Len(q) + 1
           u == Append(q, m)
<1>1. /\ DOMAIN q = 1 .. Len(q) /\ Len(q) \in Nat
      /\ u \in Seq(S) /\ DOMAIN u = 1 .. n /\ u[n] = m
      /\ \A i \in DOMAIN q : u[i] = q[i]
  BY AppendProperties, SMT
<1>2. n \notin Matching(q, k, t) /\ n \in DOMAIN u /\ DOMAIN u = DOMAIN q \cup {n}
      /\ \A i \in DOMAIN u : i # n => i \in DOMAIN q
  BY <1>1, SMT DEF Matching
<1> HIDE DEF u, n
<1>3. CASE m.rtype = k /\ m.ticket = t
  <2>1. Matching(u, k, t) = Matching(q, k, t) \cup {n}
    BY <1>1, <1>2, <1>3, Zenon DEF Matching
  <2>2. Cardinality(Matching(u, k, t)) = Cardinality(Matching(q, k, t)) + 1
    <3>1. IsFiniteSet(Matching(q, k, t))
      BY MatchingFinite, Zenon
    <3> QED BY <2>1, <1>2, <3>1, FS_AddElement, Zenon
  <2> QED BY <1>1, <1>3, <2>2, MatchingFinite, Zenon DEF u, Is
<1>4. CASE ~(m.rtype = k /\ m.ticket = t)
  <2>1. Matching(u, k, t) = Matching(q, k, t)
    BY <1>1, <1>2, <1>4, Zenon DEF Matching
  <2>2. Count(u, k, t) = Count(q, k, t) /\ Count(q, k, t) \in Nat
    BY <1>1, <2>1, MatchingFinite, Zenon
  <2>3. Is(m, k, t) = 0
    BY <1>4, Zenon DEF Is
  <2> QED BY <2>2, <2>3, SMT DEF u
<1> QED BY <1>3, <1>4, Zenon

(* Tail takes one away exactly if the head is of that kind. *)
LEMMA CountTail ==
    ASSUME NEW S, NEW q \in Seq(S), q # <<>>, NEW k, NEW t
    PROVE  Count(q, k, t)
             = Count(Tail(q), k, t) + Is(Head(q), k, t)
<1> DEFINE u == Tail(q)
           A == Matching(u, k, t)
           B == {i \in DOMAIN q : i # 1 /\ q[i].rtype = k /\ q[i].ticket = t}
           f == [i \in A |-> i + 1]
<1>1. /\ DOMAIN q = 1 .. Len(q) /\ Len(q) \in Nat \ {0}
      /\ u \in Seq(S) /\ DOMAIN u = 1 .. Len(q) - 1
      /\ \A i \in 1 .. Len(q) - 1 : u[i] = q[i + 1]
      /\ Head(q) = q[1] /\ 1 \in DOMAIN q
  BY HeadTailProperties, SMT
<1> HIDE DEF u
<1>2. IsFiniteSet(A) /\ Count(u, k, t) = Cardinality(A) /\ Count(u, k, t) \in Nat
  BY <1>1, MatchingFinite, Zenon
<1>3. \A i \in A : i \in Int /\ i + 1 \in B
  BY <1>1, SMT DEF Matching
<1>4. \A j \in B : j - 1 \in A /\ j \in Int
  BY <1>1, SMT DEF Matching
<1>5. f \in Bijection(A, B)
  <2>1. f \in [A -> B]
    BY <1>3
  <2>2. \A a, b \in A : f[a] = f[b] => a = b
    BY <1>3, SMT
  <2>4. DOMAIN f = A
    OBVIOUS
  <2>3. \A b \in B : \E a \in A : f[a] = b
    <3> TAKE b \in B
    <3>1. b - 1 \in A /\ f[b - 1] = b
      BY <1>4, SMT
    <3> QED BY <3>1
  <2> HIDE DEF f, A, B
  <2> QED BY <2>1, <2>2, <2>3, <2>4, Zenon DEF Bijection, Injection, Surjection, IsInjective
<1>6. IsFiniteSet(B) /\ Cardinality(B) = Cardinality(A)
  <2>1. ExistsBijection(A, B)
    BY <1>5, Zenon DEF ExistsBijection
  <2> HIDE DEF A, B
  <2> QED BY <1>2, <2>1, FS_Bijection, Zenon
<1>7. 1 \notin B
  OBVIOUS
<1>8. Count(q, k, t) = Cardinality(Matching(q, k, t))
  BY MatchingFinite, Zenon
<1>9. CASE Head(q).rtype = k /\ Head(q).ticket = t
  <2>1. Matching(q, k, t) = B \cup {1}
    BY <1>1, <1>9, Zenon DEF Matching
  <2> HIDE DEF A, B
  <2>2. Cardinality(B \cup {1}) = Cardinality(B) + 1
    BY <1>6, <1>7, FS_AddElement, Zenon
  <2>3. Is(Head(q), k, t) = 1
    BY <1>9, Zenon DEF Is
  <2> QED BY <1>2, <1>6, <1>8, <2>1, <2>2, <2>3, Zenon DEF u
<1>10. CASE ~(Head(q).rtype = k /\ Head(q).ticket = t)
  <2>1. Matching(q, k, t) = B
    BY <1>1, <1>10, Zenon DEF Matching
  <2>2. Is(Head(q), k, t) = 0
    BY <1>10, Zenon DEF Is
  <2> HIDE DEF A, B
  <2>3. Count(q, k, t) = Count(u, k, t) + 0
    BY <1>2, <1>6, <1>8, <2>1, SMT
  <2> QED BY <2>2, <2>3, Zenon DEF u
<1> QED BY <1>9, <1>10, Zenon
-----------------------------------------------------------------------------
(* The messages that the program makes are of their types, and a message   *)
(* of a kind has the ticket of that kind.                                  *)
LEMMA MadeRequests ==
    /\ \A s \in Sensors, r \in Regs : Start(s, r) \in Request /\ Stop(s, r) \in Request
    /\ \A s \in Sensors, t \in Tids : Oneshot(s, t) \in Request
  BY SMT DEF Start, Stop, Oneshot, Request, StreamRequest, OneshotRequest

LEMMA MadeResponses ==
    /\ \A r \in Regs : Updated(r) \in Response /\ Stopped(r) \in Response
    /\ \A t \in Tids : Answer(t) \in Response
  BY SMT DEF Updated, Stopped, Answer, Response, StreamResponse, OneshotResponse

LEMMA RequestFields ==
    ASSUME NEW m \in Request
    PROVE  /\ m.sensor \in Sensors
           /\ m.rtype = "START" => m = Start(m.sensor, m.ticket) /\ m.ticket \in Regs
           /\ m.rtype = "STOP" => m = Stop(m.sensor, m.ticket) /\ m.ticket \in Regs
           /\ m.rtype = "ONESHOT" => m = Oneshot(m.sensor, m.ticket) /\ m.ticket \in Tids
  BY SMT DEF Start, Stop, Oneshot, Request, StreamRequest, OneshotRequest

LEMMA ResponseFields ==
    ASSUME NEW m \in Response
    PROVE  /\ m.rtype = "STREAM_UPDATE" => m = Updated(m.ticket) /\ m.ticket \in Regs
           /\ m.rtype = "STREAM_STOPPED" => m = Stopped(m.ticket) /\ m.ticket \in Regs
           /\ m.rtype = "ONESHOT" => m = Answer(m.ticket) /\ m.ticket \in Tids
  BY SMT DEF Updated, Stopped, Answer, Response, StreamResponse, OneshotResponse

(* The operations on a registration keep it one. *)
LEMMA FreeIsRegistration == Free \in Registration
  BY CoapAssumption, SMT DEF Free, Registration

LEMMA RegistrationOps ==
    ASSUME NEW x \in Registration
    PROVE  /\ CheckedOut(x) \in Registration
           /\ Released(x) \in Registration
           /\ Invalidated(x) \in Registration
           /\ Failed(x) \in Registration
           /\ \A b \in BOOLEAN : Confirmed(x, b) \in Registration
<1>1. [x EXCEPT !.ref = @ + 1] \in Registration /\ [x EXCEPT !.ref = @ - 1] \in Registration
  BY SMT DEF Registration
<1>2. [x EXCEPT !.invalid = TRUE] \in Registration
  BY Zenon DEF Registration
<1>3. ASSUME NEW n \in 0 .. COAP_OBS_MAX_FAIL + 1
      PROVE  [x EXCEPT !.fail_cnt = n] \in Registration
  BY SMT DEF Registration
<1>4. x.fail_cnt \in 0 .. COAP_OBS_MAX_FAIL + 1 /\ COAP_OBS_MAX_FAIL \in Nat
  BY CoapAssumption, SMT DEF Registration
<1>5. Failed(x) \in Registration
  <2>1. (IF x.fail_cnt <= COAP_OBS_MAX_FAIL THEN x.fail_cnt + 1 ELSE x.fail_cnt)
           \in 0 .. COAP_OBS_MAX_FAIL + 1
    BY <1>4, SMT
  <2> QED BY <2>1, <1>3, Zenon DEF Failed
<1>6. ASSUME NEW b \in BOOLEAN PROVE Confirmed(x, b) \in Registration
  <2>1. (IF b THEN 0 ELSE x.fail_cnt) \in 0 .. COAP_OBS_MAX_FAIL + 1
    BY <1>4, SMT
  <2> QED BY <2>1, <1>3, Zenon DEF Confirmed
<1> QED BY <1>1, <1>2, <1>5, <1>6, FreeIsRegistration, Zenon DEF CheckedOut, Released, Invalidated

LEMMA OwnedFree ==
    ASSUME NEW c \in Clients, NEW s \in Sensors
    PROVE  [Free EXCEPT !.owner = <<c, s>>] \in Registration
<1>1. <<c, s>> \in (Clients \X Sensors) \cup {NoOwner}
  BY SMT
<1> QED BY <1>1, FreeIsRegistration, Zenon DEF Registration

(* The owner of a registration that is in use is a client and a sensor.    *)
LEMMA OwnerSensor ==
    ASSUME NEW x \in Registration, x.owner # NoOwner
    PROVE  x.owner[2] \in Sensors
  BY SMT DEF Registration
-----------------------------------------------------------------------------
LEMMA InitTypeOK == Init => TypeOK
<1> SUFFICES ASSUME Init PROVE TypeOK
  OBVIOUS
<1>1. /\ Free \in Registration /\ <<>> \in Seq(Request) /\ <<>> \in Seq(Response)
      /\ <<>> \in Seq(Sensors) /\ <<>> \in Seq(EventBased) /\ Len(<<>>) = 0
  BY FreeIsRegistration, SMT
<1>2. CoapTypeOK
  BY <1>1, CoapAssumption, SMT DEF Init, CoapInit, CoapTypeOK
<1>3. 0 \in 0 .. QUEUE_REQ_RATIO
  BY SmAssumption, SMT
<1>4. SmTypeOK
  <2>1. carrier \in [EventBased -> CarrierAt]
    BY Zenon DEF Init, SmInit, CarrierAt
  <2> QED BY <1>1, <1>3, <2>1, Zenon DEF Init, SmInit, SmTypeOK
<1> QED BY <1>1, <1>2, <1>4, TicketAssumption, SMT DEF Init, TypeOK

(* A registration that a transaction refers to is in use. *)
TransAlive == \A r \in Regs : trans[r] > 0 => Alive(r)

(* The CoAP thread's actions. *)
LEMMA CoapTypes == TypeOK /\ TransAlive /\ Coap => TypeOK'
<1> SUFFICES ASSUME TypeOK, TransAlive, CoapNext, UNCHANGED smVars PROVE TypeOK'
  BY DEF Coap
<1> USE DEF TypeOK, CoapTypeOK
<1>0. SmTypeOK'
  BY DEF SmTypeOK, smVars
<1>1. ASSUME NEW r \in Regs, GiveUp(r) PROVE TypeOK'
  <2>0. reg[r] \in Registration /\ trans[r] - 1 \in Nat /\ trans[r] \in Nat
        /\ reg[r].owner[2] \in Sensors
    BY <1>1, OwnerSensor, SMT DEF GiveUp, TransAlive, Alive
  <2>1. trans' \in [Regs -> Nat]
    BY <1>1, <2>0, SMT DEF GiveUp
  <2>2. /\ Released(Failed(reg[r])) \in Registration
        /\ Released(Invalidated(Failed(reg[r]))) \in Registration
    BY <2>0, RegistrationOps, Zenon
  <2>3. reg' \in [Regs -> Registration]
    BY <1>1, <2>2, Zenon DEF GiveUp
  <2>4. todo' \in Seq(Request)
    <3>1. Stop(reg[r].owner[2], r) \in Request
      BY <2>0, MadeRequests, Zenon
    <3>2. <<Stop(reg[r].owner[2], r)>> \in Seq(Request)
      BY <3>1, SMT
    <3> QED BY <1>1, <3>2, Zenon DEF GiveUp
  <2> QED BY <1>0, <1>1, <2>1, <2>3, <2>4, Zenon DEF GiveUp
<1>2. CASE Retransmitted
  BY <1>0, <1>2, Zenon DEF Retransmitted
<1>3. CASE Network
  <2>0. smcount' \in 0 .. SMREQ_RATIO /\ cpc' = "serve" /\ UNCHANGED <<reqbuf, resbuf>>
    BY <1>3, CoapAssumption, SMT DEF Network
  <2>1. ASSUME NEW c \in Clients, NEW s \in Sensors, ObserveGet(c, s) PROVE TypeOK'
    <3>1. PICK r \in AddRegistration(c, s) :
            /\ reg' = [reg EXCEPT ![r] = CheckedOut(IF Alive(r) THEN @ ELSE [Free EXCEPT !.owner = <<c, s>>])]
            /\ todo' = <<Start(s, r)>>
            /\ UNCHANGED <<trans, async>>
      BY <2>1, Zenon DEF ObserveGet
    <3>2. r \in Regs
      BY <3>1, Zenon DEF AddRegistration, Valid, Owned
    <3>3. CheckedOut(IF Alive(r) THEN reg[r] ELSE [Free EXCEPT !.owner = <<c, s>>]) \in Registration
      BY <3>2, OwnedFree, RegistrationOps, Zenon
    <3>4. reg' \in [Regs -> Registration]
      BY <3>1, <3>3, Zenon
    <3>5. todo' \in Seq(Request)
      <4>1. Start(s, r) \in Request
        BY <3>2, MadeRequests, Zenon
      <4> QED BY <3>1, <4>1, SMT
    <3> QED BY <1>0, <2>0, <3>1, <3>4, <3>5, Zenon
  <2>2. ASSUME NEW c \in Clients, NEW s \in Sensors, NEW t \in Tids, PlainGet(c, s, t) PROVE TypeOK'
    <3>1. async' \in SUBSET Tids /\ UNCHANGED trans
      BY <2>2, Zenon DEF PlainGet
    <3>2. PICK r \in FindRegistration(c, s) :
            IF r = NoReg
            THEN todo' = <<Oneshot(s, t)>> /\ UNCHANGED reg
            ELSE /\ reg' = [reg EXCEPT ![r] = Invalidated(@)]
                 /\ todo' = <<Oneshot(s, t), Stop(s, r)>>
      BY <2>2, Zenon DEF PlainGet
    <3>3. r = NoReg \/ r \in Regs
      BY <3>2, Zenon DEF FindRegistration, Valid, Owned
    <3>4. reg' \in [Regs -> Registration]
      BY <3>2, <3>3, RegistrationOps, Zenon
    <3>5. todo' \in Seq(Request)
      <4>1. Oneshot(s, t) \in Request /\ (r \in Regs => Stop(s, r) \in Request)
        BY MadeRequests, Zenon
      <4>2. /\ <<Oneshot(s, t)>> \in Seq(Request)
            /\ r \in Regs => <<Oneshot(s, t), Stop(s, r)>> \in Seq(Request)
        BY <4>1, SMT
      <4> QED BY <3>2, <3>3, <4>2, Zenon
    <3> QED BY <1>0, <2>0, <3>1, <3>4, <3>5, Zenon
  <2>3. ASSUME NEW r \in Regs, Acknowledged(r) PROVE TypeOK'
    <3>1. trans' \in [Regs -> Nat] /\ UNCHANGED <<async, todo>>
      BY <2>3, SMT DEF Acknowledged
    <3>2. reg' \in [Regs -> Registration]
      BY <2>3, RegistrationOps, Zenon DEF Acknowledged
    <3> QED BY <1>0, <2>0, <3>1, <3>2, Zenon
  <2>4. CASE UNCHANGED <<reg, trans, async, todo>>
    BY <1>0, <2>0, <2>4, Zenon
  <2> QED BY <1>3, <2>1, <2>2, <2>3, <2>4, Zenon DEF Network
<1>4. CASE PutRequest
  <2>1. Head(todo) \in Request /\ Tail(todo) \in Seq(Request)
    BY <1>4, HeadTailProperties, Zenon DEF PutRequest
  <2>2. reqbuf' \in Seq(Request) /\ Len(reqbuf') <= SM_RBUF_SIZE
    BY <1>4, <2>1, AppendProperties, TicketAssumption, SMT DEF PutRequest
  <2> QED BY <1>0, <1>4, <2>1, <2>2, Zenon DEF PutRequest
<1>5. CASE Serve
  <2>0. smcount' \in 0 .. SMREQ_RATIO /\ cpc' \in {"retransmit", "serve"} /\ UNCHANGED <<todo, reqbuf>>
    BY <1>5, CoapAssumption, SMT DEF Serve
  <2>1. CASE resbuf = <<>>
    BY <1>0, <1>5, <2>0, <2>1, Zenon DEF Serve
  <2>2. CASE resbuf # <<>>
    <3> DEFINE m == Head(resbuf)
    <3>1. m \in Response /\ Tail(resbuf) \in Seq(Response) /\ Len(Tail(resbuf)) <= COAP_RBUF_SIZE
      BY <2>2, HeadTailProperties, TicketAssumption, SMT
    <3>2. /\ resbuf' = Tail(resbuf)
          /\ \/ m.rtype = "STREAM_STOPPED" /\ ServeStopped(m.ticket)
             \/ m.rtype = "ONESHOT" /\ ServeOneshot(m.ticket)
             \/ m.rtype = "STREAM_UPDATE" /\ ServeUpdate(m.ticket)
      BY <1>5, <2>2, Zenon DEF Serve
    <3> HIDE DEF m
    <3>3. CASE m.rtype = "STREAM_STOPPED" /\ ServeStopped(m.ticket)
      <4>1. m.ticket \in Regs
        BY <3>1, <3>3, ResponseFields, Zenon
      <4>2. reg' \in [Regs -> Registration] /\ UNCHANGED <<trans, async>>
        BY <3>3, <4>1, RegistrationOps, Zenon DEF ServeStopped
      <4> QED BY <1>0, <2>0, <3>1, <3>2, <4>2, Zenon
    <3>4. CASE m.rtype = "ONESHOT" /\ ServeOneshot(m.ticket)
      <4>1. async' \in SUBSET Tids /\ UNCHANGED <<reg, trans>>
        BY <3>4, Zenon DEF ServeOneshot
      <4> QED BY <1>0, <2>0, <3>1, <3>2, <4>1, Zenon
    <3>5. CASE m.rtype = "STREAM_UPDATE" /\ ServeUpdate(m.ticket)
      <4>1. m.ticket \in Regs
        BY <3>1, <3>5, ResponseFields, Zenon
      <4>4. /\ \/ /\ reg' = [reg EXCEPT ![m.ticket] = CheckedOut(@)]
                  /\ trans' = [trans EXCEPT ![m.ticket] = @ + 1]
               \/ reg' = reg /\ trans' = trans
            /\ UNCHANGED async
        BY <3>5, SMT DEF ServeUpdate
      <4>2. reg' \in [Regs -> Registration]
        <5>1. CheckedOut(reg[m.ticket]) \in Registration
          BY <4>1, RegistrationOps, Zenon
        <5>2. CASE reg' = [reg EXCEPT ![m.ticket] = CheckedOut(@)]
          BY <4>1, <5>1, <5>2, Zenon
        <5>3. CASE reg' = reg
          BY <5>3, Zenon
        <5> QED BY <4>4, <5>2, <5>3, Zenon
      <4>3. trans' \in [Regs -> Nat]
        BY <4>1, <4>4, SMT
      <4> QED BY <1>0, <2>0, <3>1, <3>2, <4>2, <4>3, <4>4, Zenon
    <3> QED BY <3>2, <3>3, <3>4, <3>5, Zenon
  <2> QED BY <2>1, <2>2, Zenon
<1> QED BY <1>1, <1>2, <1>3, <1>4, <1>5, Zenon DEF CoapNext

(* Every sample is of a sensor, and SubSeq keeps the queue one of samples. *)
LEMMA QueueParts ==
    ASSUME NEW S, NEW q \in Seq(S), NEW n \in DOMAIN q
    PROVE  q[n] \in S /\ SubSeq(q, n + 1, Len(q)) \in Seq(S)
  BY SMT

(* What a sample brings about is typed. *)
LEMMA DeliverTypes ==
    ASSUME TypeOK, NEW s \in Sensors, NEW caches \in [Sensors -> BOOLEAN], Deliver(s, caches)
    PROVE  /\ out' \in SUBSET Response
           /\ oneshots' \in [Sensors -> SUBSET Tids]
           /\ closing' \in SUBSET Sensors
           /\ cache_valid' \in [Sensors -> BOOLEAN]
<1> USE DEF TypeOK, SmTypeOK
<1>1. /\ \A t \in oneshots[s] : Answer(t) \in Response
      /\ \A r \in streams[s] : Updated(r) \in Response
  BY MadeResponses, Zenon
<1>2. out' \in SUBSET Response
  BY <1>1, Zenon DEF Deliver
<1>3. oneshots' \in [Sensors -> SUBSET Tids]
  BY Zenon DEF Deliver
<1>4. closing' \in SUBSET Sensors /\ cache_valid' \in [Sensors -> BOOLEAN]
  BY Zenon DEF Deliver
<1> QED BY <1>2, <1>3, <1>4, Zenon

(* Turning a sensor on, with its carrier thread, or not. *)
LEMMA ActivateTypes ==
    ASSUME SmTypeOK, NEW s \in Sensors, Activate(s) \/ EnsureActive(s)
    PROVE  /\ is_active' \in [Sensors -> BOOLEAN]
           /\ carrier' \in [EventBased -> CarrierAt]
           /\ cache_valid' = cache_valid
<1>1. CASE Activate(s)
  <2>1. "looks" \in CarrierAt
    BY Zenon DEF CarrierAt
  <2>2. carrier' \in [EventBased -> CarrierAt]
    BY <1>1, <2>1, Zenon DEF Activate, SmTypeOK
  <2>3. is_active' = is_active \/ is_active' = [is_active EXCEPT ![s] = TRUE]
    BY <1>1, Zenon DEF Activate
  <2>4. is_active' \in [Sensors -> BOOLEAN]
    BY <2>3, Zenon DEF SmTypeOK
  <2> QED BY <1>1, <2>2, <2>4, Zenon DEF Activate
<1>2. CASE UNCHANGED <<is_active, cache_valid, carrier>>
  BY <1>2, Zenon DEF SmTypeOK
<1> QED BY <1>1, <1>2, Zenon DEF EnsureActive

(* Turning sensors off, or not. *)
LEMMA TurnOffTypes ==
    ASSUME SmTypeOK, NEW S, NEW caches \in [Sensors -> BOOLEAN], TurnOff(S, caches)
    PROVE  is_active' \in [Sensors -> BOOLEAN] /\ cache_valid' \in [Sensors -> BOOLEAN]
  BY Zenon DEF TurnOff, SmTypeOK

(* The Streaming Manager's actions. *)
LEMMA SmTypes == TypeOK /\ StreamMgr => TypeOK'
<1> SUFFICES ASSUME TypeOK, SmNext, UNCHANGED coapVars PROVE TypeOK'
  BY DEF StreamMgr
<1> USE DEF TypeOK, SmTypeOK
<1>0. CoapTypeOK'
  BY DEF CoapTypeOK, coapVars
<1>1. CASE HandleRequest
  <2>0. turn' \in 0 .. QUEUE_REQ_RATIO /\ UNCHANGED <<samples, carried, closing, held, resbuf>>
    BY <1>1, SmAssumption, SMT DEF HandleRequest
  <2>1. CASE reqbuf = <<>>
    BY <1>0, <1>1, <2>0, <2>1, Zenon DEF HandleRequest
  <2>2. CASE reqbuf # <<>>
    <3> DEFINE m == Head(reqbuf)
    <3>1. m \in Request /\ Tail(reqbuf) \in Seq(Request) /\ Len(Tail(reqbuf)) <= SM_RBUF_SIZE
      BY <2>2, HeadTailProperties, TicketAssumption, SMT
    <3>2. /\ reqbuf' = Tail(reqbuf)
          /\ \/ m.rtype = "START" /\ StartStream(m.sensor, m.ticket)
             \/ m.rtype = "STOP" /\ StopStream(m.sensor, m.ticket)
             \/ m.rtype = "ONESHOT" /\ TakeOneshot(m.sensor, m.ticket)
      BY <1>1, <2>2, Zenon DEF HandleRequest
    <3> HIDE DEF m
    <3>3. CASE m.rtype = "START" /\ StartStream(m.sensor, m.ticket)
      <4>1. m.sensor \in Sensors /\ m.ticket \in Regs /\ Stopped(m.ticket) \in Response
        BY <3>1, <3>3, RequestFields, MadeResponses, Zenon
      <4>2. /\ streams' \in [Sensors -> SUBSET Regs] /\ out' \in SUBSET Response
            /\ UNCHANGED <<oneshots, crashed>>
        BY <3>3, <4>1, Zenon DEF StartStream
      <4>3. /\ is_active' \in [Sensors -> BOOLEAN] /\ carrier' \in [EventBased -> CarrierAt]
            /\ cache_valid' = cache_valid
        BY <3>3, <4>1, ActivateTypes, Zenon DEF StartStream
      <4> QED BY <1>0, <2>0, <3>1, <3>2, <4>2, <4>3, Zenon
    <3>4. CASE m.rtype = "STOP" /\ StopStream(m.sensor, m.ticket)
      <4>1. m.sensor \in Sensors /\ m.ticket \in Regs /\ Stopped(m.ticket) \in Response
        BY <3>1, <3>4, RequestFields, MadeResponses, Zenon
      <4>2. /\ streams' \in [Sensors -> SUBSET Regs] /\ out' \in SUBSET Response
            /\ UNCHANGED <<oneshots, carrier>>
        BY <3>4, <4>1, Zenon DEF StopStream
      <4>3. /\ is_active' \in [Sensors -> BOOLEAN] /\ cache_valid' \in [Sensors -> BOOLEAN]
            /\ crashed' \in BOOLEAN
        <5>1. /\ \/ TurnOff({m.sensor}, cache_valid)
                 \/ UNCHANGED <<is_active, cache_valid>>
              /\ crashed' \in BOOLEAN
          BY <3>4, Zenon DEF StopStream
        <5> QED BY <5>1, TurnOffTypes, Zenon
      <4> QED BY <1>0, <2>0, <3>1, <3>2, <4>2, <4>3, Zenon
    <3>5. CASE m.rtype = "ONESHOT" /\ TakeOneshot(m.sensor, m.ticket)
      <4>1. m.sensor \in Sensors /\ m.ticket \in Tids /\ Answer(m.ticket) \in Response
        BY <3>1, <3>5, RequestFields, MadeResponses, Zenon
      <4>2. /\ oneshots' \in [Sensors -> SUBSET Tids] /\ out' \in SUBSET Response
            /\ is_active' \in [Sensors -> BOOLEAN] /\ carrier' \in [EventBased -> CarrierAt]
            /\ UNCHANGED <<streams, cache_valid, crashed>>
        <5>1. CASE cache_valid[m.sensor]
          BY <3>5, <4>1, <5>1, Zenon DEF TakeOneshot
        <5>2. CASE ~cache_valid[m.sensor]
          <6>1. oneshots[m.sensor] \cup {m.ticket} \in SUBSET Tids
            BY <4>1, Zenon
          <6>2. oneshots' \in [Sensors -> SUBSET Tids]
            BY <3>5, <4>1, <5>2, <6>1, Zenon DEF TakeOneshot
          <6>3. /\ out' = {} /\ Activate(m.sensor)
                /\ UNCHANGED <<streams, crashed>>
            BY <3>5, <5>2, Zenon DEF TakeOneshot
          <6>4. /\ is_active' \in [Sensors -> BOOLEAN] /\ carrier' \in [EventBased -> CarrierAt]
                /\ cache_valid' = cache_valid
            BY <4>1, <6>3, ActivateTypes, Zenon
          <6> QED BY <4>1, <6>2, <6>3, <6>4, Zenon
        <5> QED BY <5>1, <5>2, Zenon
      <4> QED BY <1>0, <2>0, <3>1, <3>2, <4>2, Zenon
    <3> QED BY <3>2, <3>3, <3>4, <3>5, Zenon
  <2> QED BY <2>1, <2>2, Zenon
<1>2. CASE HandleSample
  <2>0. /\ turn' \in 0 .. QUEUE_REQ_RATIO
        /\ UNCHANGED <<streams, is_active, carrier, held, crashed, reqbuf, resbuf>>
    BY <1>2, SmAssumption, SMT DEF HandleSample
  <2>1. CASE LookAtSamples /\ UNCHANGED carried
    <3> DEFINE others == {i \in DOMAIN samples : samples[i] \notin EventBased}
               caches(n) == [s \in Sensors |-> cache_valid[s] \/ InQueue(s, SubSeq(samples, 1, n))]
    <3>1. ASSUME NEW n PROVE caches(n) \in [Sensors -> BOOLEAN]
      BY Zenon
    <3> HIDE DEF caches
    <3>2. CASE /\ samples' = <<>>
               /\ cache_valid' = caches(Len(samples))
               /\ UNCHANGED <<oneshots, closing, out>>
      <4>1. samples' \in Seq(Sensors)
        BY <3>2, SMT
      <4> QED BY <1>0, <2>0, <2>1, <3>1, <3>2, <4>1, Zenon
    <3>3. ASSUME NEW n \in others, samples' = SubSeq(samples, n + 1, Len(samples)),
                 Deliver(samples[n], caches(n))
          PROVE  TypeOK'
      <4>1. samples[n] \in Sensors /\ samples' \in Seq(Sensors)
        BY <3>3, QueueParts, Zenon
      <4>2. /\ out' \in SUBSET Response
            /\ oneshots' \in [Sensors -> SUBSET Tids]
            /\ closing' \in SUBSET Sensors
            /\ cache_valid' \in [Sensors -> BOOLEAN]
        BY <3>1, <3>3, <4>1, DeliverTypes, Zenon
      <4> QED BY <1>0, <2>0, <2>1, <4>1, <4>2, Zenon
    <3> QED BY <2>1, <3>2, <3>3, Zenon DEF LookAtSamples, caches
  <2>2. CASE LookAtCarriers /\ UNCHANGED samples
    <3>1. CASE /\ carried = <<>>
               /\ UNCHANGED <<carried, oneshots, cache_valid, closing, out>>
      BY <1>0, <2>0, <2>2, <3>1, Zenon
    <3>2. CASE carried # <<>> /\ carried' = Tail(carried) /\ Deliver(Head(carried), cache_valid)
      <4>1. Head(carried) \in Sensors /\ carried' \in Seq(EventBased)
        BY <3>2, HeadTailProperties, SmAssumption, Zenon
      <4>2. /\ out' \in SUBSET Response
            /\ oneshots' \in [Sensors -> SUBSET Tids]
            /\ closing' \in SUBSET Sensors
            /\ cache_valid' \in [Sensors -> BOOLEAN]
        BY <3>2, <4>1, DeliverTypes, Zenon
      <4> QED BY <1>0, <2>0, <2>2, <4>1, <4>2, Zenon
    <3> QED BY <2>2, <3>1, <3>2, Zenon DEF LookAtCarriers, GetCarrierEvent
  <2> QED BY <1>2, <2>1, <2>2, Zenon DEF HandleSample
<1>3. CASE PutResponse
  <2>1. PICK m \in First : resbuf' = Append(resbuf, m) /\ out' = out \ {m}
    BY <1>3, Zenon DEF PutResponse
  <2>2. m \in Response
    BY <2>1, Zenon DEF First
  <2>3. resbuf' \in Seq(Response) /\ Len(resbuf') <= COAP_RBUF_SIZE
    BY <1>3, <2>1, <2>2, AppendProperties, TicketAssumption, SMT DEF PutResponse
  <2>4. /\ is_active' \in [Sensors -> BOOLEAN] /\ cache_valid' \in [Sensors -> BOOLEAN]
        /\ closing' \in SUBSET Sensors
    <3>1. \/ TurnOff(closing, cache_valid) /\ closing' = {}
          \/ UNCHANGED <<is_active, cache_valid, closing>>
      BY <1>3, Zenon DEF PutResponse
    <3> QED BY <3>1, TurnOffTypes, Zenon
  <2> QED BY <1>0, <1>3, <2>1, <2>3, <2>4, Zenon DEF PutResponse
<1>4. CASE WaitForRoom
  BY <1>0, <1>4, Zenon DEF WaitForRoom
<1>5. CASE Defer
  <2>1. reqbuf' \in Seq(Request) /\ Len(reqbuf') <= SM_RBUF_SIZE
    BY <1>5, HeadTailProperties, TicketAssumption, SMT DEF Defer
  <2> QED BY <1>0, <1>5, <2>1, Zenon DEF Defer
<1> QED BY <1>1, <1>2, <1>3, <1>4, <1>5, Zenon DEF SmNext

(* The sensors and the carrier threads, and a process that is dead.        *)
LEMMA SensorTypes ==
    ASSUME TypeOK, NEW s \in Sensors, Sensor(s)
    PROVE  TypeOK'
<1>1. samples' \in Seq(Sensors)
  BY AppendProperties, Zenon DEF TypeOK, SmTypeOK, Sensor, Sample
<1> QED BY <1>1, Zenon DEF TypeOK, CoapTypeOK, SmTypeOK, Sensor, Sample, coapVars

LEMMA CarrierTypes ==
    ASSUME TypeOK, NEW s \in EventBased, Carrier(s)
    PROVE  TypeOK'
<1> USE DEF TypeOK, CoapTypeOK, SmTypeOK, coapVars
<1>1. ASSUME NEW from, NEW to \in CarrierAt, CarrierSteps(s, from, to)
      PROVE  carrier' \in [EventBased -> CarrierAt]
  BY <1>1, Zenon DEF CarrierSteps
<1>2. {"looks", "reads", "puts", "leaves", "none"} \subseteq CarrierAt
  BY Zenon DEF CarrierAt
<1>3. carrier' \in [EventBased -> CarrierAt]
  BY <1>1, <1>2, Zenon DEF Carrier, Carry, CarrierLooks, CarrierReads, CarrierLeaves
<1>4. carried' = carried \/ carried' = Append(carried, s)
  BY Zenon DEF Carrier, Carry, PutCarrierEvent, CarrierLooks, CarrierReads, CarrierLeaves
<1>5. carried' \in Seq(EventBased)
  <2>1. carried \in Seq(EventBased)
    OBVIOUS
  <2>2. Append(carried, s) \in Seq(EventBased)
    BY <2>1, AppendProperties, SMT
  <2> QED BY <1>4, <2>1, <2>2, Zenon
<1> QED BY <1>3, <1>5, Zenon
        DEF Carrier, Carry, CarrierLooks, CarrierReads, CarrierLeaves, CarrierSteps

LEMMA StutterTypes == TypeOK /\ UNCHANGED vars => TypeOK'
  BY Zenon DEF TypeOK, CoapTypeOK, SmTypeOK, vars, coapVars, smVars
=============================================================================
