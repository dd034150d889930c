------------------------- MODULE Observation_proofs -------------------------
(***************************************************************************)
(* The two threads of ZeSense, with the queues between them, implement     *)
(* Observation: every step of the server is a step of it or changes        *)
(* nothing that a client could see.                                        *)
(***************************************************************************)
EXTENDS ZeSense_proofs

(* A START for the stream of r on s is in the queue. *)
StartIn(q, s, r) == \E i \in DOMAIN q : q[i] = Start(s, r)

LEMMA StartStop ==
    /\ \A s, r, x, y : Start(s, r) # Stop(x, y)
    /\ \A s, r, x, y : Start(s, r) = Start(x, y) => s = x /\ r = y
    /\ \A s, r, x, y : Stop(s, r) = Stop(x, y) => s = x /\ r = y
    /\ \A s, r, x, y : Start(s, r) # Oneshot(x, y) /\ Stop(s, r) # Oneshot(x, y)
  BY SMT DEF Start, Stop, Oneshot

(* What the requests in a queue come to, in terms of its head and tail.    *)
LEMMA WillTail ==
    ASSUME NEW S, NEW q \in Seq(S), q # <<>>, NEW s, NEW r
    PROVE  /\ Begins(q, s, r) <=> \/ Begins(Tail(q), s, r)
                                  \/ Head(q) = Start(s, r) /\ ~Ends(Tail(q), s, r)
           /\ Ends(q, s, r) <=> Head(q) = Stop(s, r) \/ Ends(Tail(q), s, r)
           /\ StartIn(q, s, r) <=> Head(q) = Start(s, r) \/ StartIn(Tail(q), s, r)
<1> DEFINE u == Tail(q)
<1>1. /\ \A i \in DOMAIN u : i + 1 \in DOMAIN q /\ u[i] = q[i + 1] /\ i + 1 > 1
      /\ \A i \in DOMAIN q : i = 1 \/ (i - 1 \in DOMAIN u /\ u[i - 1] = q[i])
      /\ 1 \in DOMAIN q /\ Head(q) = q[1]
      /\ \A i \in DOMAIN q, j \in DOMAIN u : i # 1 /\ j > i - 1 => j + 1 > i
      /\ \A i \in DOMAIN u, j \in DOMAIN q : j > i + 1 => j # 1 /\ j - 1 > i
      /\ \A j \in DOMAIN q : j > 1 => j # 1
  <2>1. /\ DOMAIN q = 1 .. Len(q) /\ Len(q) \in Nat /\ Len(q) > 0
        /\ DOMAIN u = 1 .. Len(q) - 1
        /\ \A i \in 1 .. Len(q) - 1 : u[i] = q[i + 1]
        /\ Head(q) = q[1]
    BY HeadTailProperties, SMT
  <2> HIDE DEF u
  <2>2. \A i \in DOMAIN u : i + 1 \in DOMAIN q /\ u[i] = q[i + 1] /\ i + 1 > 1
    BY <2>1, SMT
  <2>3. \A i \in DOMAIN q : i = 1 \/ (i - 1 \in DOMAIN u /\ u[i - 1] = q[i])
    BY <2>1, SMT
  <2>4. /\ \A i \in DOMAIN q, j \in DOMAIN u : i # 1 /\ j > i - 1 => j + 1 > i
        /\ \A i \in DOMAIN u, j \in DOMAIN q : j > i + 1 => j # 1 /\ j - 1 > i
        /\ \A j \in DOMAIN q : j > 1 => j # 1
        /\ 1 \in DOMAIN q /\ Head(q) = q[1]
    BY <2>1, SMT
  <2> QED BY <2>2, <2>3, <2>4, Zenon
<1> HIDE DEF u
<1>2. Ends(q, s, r) <=> Head(q) = Stop(s, r) \/ Ends(u, s, r)
  BY <1>1, Zenon DEF Ends
<1>3. StartIn(q, s, r) <=> Head(q) = Start(s, r) \/ StartIn(u, s, r)
  BY <1>1, Zenon DEF StartIn
<1>4. ASSUME Begins(q, s, r)
      PROVE  Begins(u, s, r) \/ (Head(q) = Start(s, r) /\ ~Ends(u, s, r))
  <2>1. PICK i \in DOMAIN q : q[i] = Start(s, r) /\ \A j \in DOMAIN q : j > i => q[j] # Stop(s, r)
    BY <1>4, Zenon DEF Begins
  <2>2. CASE i = 1
    BY <1>1, <2>1, <2>2, Zenon DEF Ends
  <2>3. CASE i # 1
    <3>1. i - 1 \in DOMAIN u /\ u[i - 1] = Start(s, r)
      BY <1>1, <2>1, <2>3, Zenon
    <3>2. \A j \in DOMAIN u : j > i - 1 => u[j] # Stop(s, r)
      BY <1>1, <2>1, <2>3, Zenon
    <3> QED BY <3>1, <3>2, Zenon DEF Begins
  <2> QED BY <2>2, <2>3, Zenon
<1>5. ASSUME Begins(u, s, r) PROVE Begins(q, s, r)
  <2>1. PICK i \in DOMAIN u : u[i] = Start(s, r) /\ \A j \in DOMAIN u : j > i => u[j] # Stop(s, r)
    BY <1>5, Zenon DEF Begins
  <2>2. i + 1 \in DOMAIN q /\ q[i + 1] = Start(s, r)
    BY <1>1, <2>1, Zenon
  <2>3. \A j \in DOMAIN q : j > i + 1 => q[j] # Stop(s, r)
    BY <1>1, <2>1, Zenon
  <2> QED BY <2>2, <2>3, Zenon DEF Begins
<1>6. ASSUME Head(q) = Start(s, r), ~Ends(u, s, r) PROVE Begins(q, s, r)
  <2>1. \A j \in DOMAIN q : j > 1 => q[j] # Stop(s, r)
    BY <1>1, <1>6, Zenon DEF Ends
  <2> QED BY <1>1, <1>6, <2>1, Zenon DEF Begins
<1> QED BY <1>2, <1>3, <1>4, <1>5, <1>6, Zenon DEF u

(* The same for a request put at the end. *)
LEMMA WillAppend ==
    ASSUME NEW S, NEW q \in Seq(S), NEW m \in S, NEW s, NEW r
    PROVE  /\ Begins(Append(q, m), s, r) <=> \/ m = Start(s, r)
                                             \/ Begins(q, s, r) /\ m # Stop(s, r)
           /\ Ends(Append(q, m), s, r) <=> m = Stop(s, r) \/ Ends(q, s, r)
           /\ StartIn(Append(q, m), s, r) <=> m = Start(s, r) \/ StartIn(q, s, r)
<1> DEFINE u == Append(q, m)
           n == Len(q) + 1
<1>1. /\ \A i \in DOMAIN u : i = n \/ (i \in DOMAIN q /\ u[i] = q[i])
      /\ \A i \in DOMAIN q : i \in DOMAIN u /\ u[i] = q[i] /\ n > i
      /\ n \in DOMAIN u /\ u[n] = m
      /\ \A j \in DOMAIN u : ~(j > n)
  <2>1. /\ DOMAIN q = 1 .. Len(q) /\ Len(q) \in Nat /\ DOMAIN u = 1 .. Len(q) + 1
        /\ u[Len(q) + 1] = m
        /\ \A i \in 1 .. Len(q) : u[i] = q[i]
    BY AppendProperties, SMT
  <2> HIDE DEF u
  <2> QED BY <2>1, SMT
<1> HIDE DEF u, n
<1>2. Ends(u, s, r) <=> m = Stop(s, r) \/ Ends(q, s, r)
  BY <1>1, Zenon DEF Ends
<1>3. StartIn(u, s, r) <=> m = Start(s, r) \/ StartIn(q, s, r)
  BY <1>1, Zenon DEF StartIn
<1>4. ASSUME Begins(u, s, r) PROVE m = Start(s, r) \/ (Begins(q, s, r) /\ m # Stop(s, r))
  <2>1. PICK i \in DOMAIN u : u[i] = Start(s, r) /\ \A j \in DOMAIN u : j > i => u[j] # Stop(s, r)
    BY <1>4, Zenon DEF Begins
  <2>2. CASE i = n
    BY <1>1, <2>1, <2>2, Zenon
  <2>3. CASE i # n
    <3>1. i \in DOMAIN q /\ q[i] = Start(s, r)
      BY <1>1, <2>1, <2>3, Zenon
    <3>2. \A j \in DOMAIN q : j > i => q[j] # Stop(s, r)
      BY <1>1, <2>1, Zenon
    <3>3. m # Stop(s, r)
      BY <1>1, <2>1, <3>1, Zenon
    <3> QED BY <3>1, <3>2, <3>3, Zenon DEF Begins
  <2> QED BY <2>2, <2>3, Zenon
<1>5. ASSUME m = Start(s, r) PROVE Begins(u, s, r)
  BY <1>1, <1>5, Zenon DEF Begins
<1>6. ASSUME Begins(q, s, r), m # Stop(s, r) PROVE Begins(u, s, r)
  <2>1. PICK i \in DOMAIN q : q[i] = Start(s, r) /\ \A j \in DOMAIN q : j > i => q[j] # Stop(s, r)
    BY <1>6, Zenon DEF Begins
  <2>2. \A j \in DOMAIN u : j > i => u[j] # Stop(s, r)
    BY <1>1, <1>6, <2>1, Zenon
  <2>3. i \in DOMAIN u /\ u[i] = Start(s, r)
    BY <1>1, <2>1, Zenon
  <2> QED BY <2>2, <2>3, Zenon DEF Begins
<1> QED BY <1>2, <1>3, <1>4, <1>5, <1>6, Zenon DEF u
-----------------------------------------------------------------------------
(* A registration that is released is freed, or stays as it was but for    *)
(* the reference.                                                          *)
LEMMA ReleaseOps ==
    ASSUME NEW x \in Registration
    PROVE  \/ Released(x) = Free /\ x.ref = 1
           \/ /\ Released(x).owner = x.owner /\ Released(x).invalid = x.invalid
              /\ x.ref # 1
<1>1. CASE x.ref = 1
  BY <1>1, Zenon DEF Released
<1>2. CASE x.ref # 1
  <2>1. Released(x) = [x EXCEPT !.ref = @ - 1]
    BY <1>2, Zenon DEF Released
  <2> QED BY <1>2, <2>1, Zenon DEF Registration
<1> QED BY <1>1, <1>2, Zenon

LEMMA FreeFields == Free.owner = NoOwner /\ ~Free.invalid /\ Free.ref = 0
  BY SMT DEF Free

(* Each of the CoAP thread's actions: what it does to a registration, and  *)
(* to the requests that are still to be handled.                           *)
LEMMA GiveUpPuts ==
    ASSUME TicketInv, NEW q \in Regs, GiveUp(q)
    PROVE  /\ trans[q] > 0 /\ trans' = [trans EXCEPT ![q] = @ - 1] /\ UNCHANGED async
           /\ \/ /\ reg' = [reg EXCEPT ![q] = Released(Failed(@))]
                 /\ Pending' = Pending
              \/ /\ reg' = [reg EXCEPT ![q] = Released(Invalidated(Failed(@)))]
                 /\ Stop(reg[q].owner[2], q) \in Request
                 /\ Pending' = Append(Pending, Stop(reg[q].owner[2], q))
<1>1. /\ TypeOK /\ reg[q] \in Registration /\ reg[q].owner # NoOwner /\ todo = <<>>
      /\ UNCHANGED reqbuf /\ reqbuf \in Seq(Request)
      /\ trans[q] > 0 /\ trans' = [trans EXCEPT ![q] = @ - 1] /\ UNCHANGED async
  BY InvTransAlive, Zenon DEF GiveUp, TransAlive, Alive, TicketInv, TypeOK, CoapTypeOK
<1>2. Pending = reqbuf
  BY <1>1, ConcatEmptySeq, Zenon DEF Pending
<1>3. Stop(reg[q].owner[2], q) \in Request
  BY <1>1, OwnerSensor, MadeRequests, Zenon
<1>4. reqbuf \o <<Stop(reg[q].owner[2], q)>> = Append(reqbuf, Stop(reg[q].owner[2], q))
  BY <1>1, <1>3, SMT
<1>5. CASE reg' = [reg EXCEPT ![q] = Released(Failed(@))] /\ UNCHANGED todo
  <2>1. Pending' = Pending
    BY <1>1, <1>5, Zenon DEF Pending
  <2> QED BY <1>1, <1>5, <2>1, Zenon
<1>6. CASE /\ reg' = [reg EXCEPT ![q] = Released(Invalidated(Failed(@)))]
           /\ todo' = <<Stop(reg[q].owner[2], q)>>
  <2>1. Pending' = Append(Pending, Stop(reg[q].owner[2], q))
    BY <1>1, <1>2, <1>4, <1>6, Zenon DEF Pending
  <2> QED BY <1>1, <1>3, <1>6, <2>1, Zenon
<1> QED BY <1>5, <1>6, Zenon DEF GiveUp

LEMMA ObservePuts ==
    ASSUME TicketInv, NEW c \in Clients, NEW s \in Sensors, ObserveGet(c, s),
           todo = <<>>, UNCHANGED reqbuf
    PROVE  \E q \in AddRegistration(c, s) :
              /\ q \in Regs /\ Start(s, q) \in Request
              /\ reg' = [reg EXCEPT ![q] =
                            CheckedOut(IF Alive(q) THEN @ ELSE [Free EXCEPT !.owner = <<c, s>>])]
              /\ Pending' = Append(Pending, Start(s, q))
              /\ UNCHANGED <<trans, async>>
<1>1. PICK q \in AddRegistration(c, s) :
        /\ reg' = [reg EXCEPT ![q] = CheckedOut(IF Alive(q) THEN @ ELSE [Free EXCEPT !.owner = <<c, s>>])]
        /\ todo' = <<Start(s, q)>>
        /\ UNCHANGED <<trans, async>>
  BY Zenon DEF ObserveGet
<1>2. q \in Regs /\ reqbuf \in Seq(Request)
  BY <1>1, Zenon DEF AddRegistration, Valid, Owned, TicketInv, TypeOK
<1>3. Start(s, q) \in Request
  BY <1>2, MadeRequests, Zenon
<1>4. Pending = reqbuf
  BY <1>2, ConcatEmptySeq, Zenon DEF Pending
<1>5. reqbuf \o <<Start(s, q)>> = Append(reqbuf, Start(s, q))
  BY <1>2, <1>3, SMT
<1>6. Pending' = Append(Pending, Start(s, q))
  BY <1>1, <1>4, <1>5, Zenon DEF Pending
<1> QED BY <1>1, <1>2, <1>3, <1>6, Zenon

LEMMA PlainGetPuts ==
    ASSUME TicketInv, NEW c \in Clients, NEW s \in Sensors, NEW t \in Tids, PlainGet(c, s, t),
           todo = <<>>, UNCHANGED reqbuf
    PROVE  /\ t \notin async /\ async' = async \cup {t} /\ UNCHANGED trans
           /\ Pending \in Seq(Request) /\ Oneshot(s, t) \in Request
           /\ Append(Pending, Oneshot(s, t)) \in Seq(Request)
           /\ \E q \in FindRegistration(c, s) :
                 \/ q = NoReg /\ UNCHANGED reg /\ Pending' = Append(Pending, Oneshot(s, t))
                 \/ /\ q \in Regs /\ Stop(s, q) \in Request
                    /\ reg' = [reg EXCEPT ![q] = Invalidated(@)]
                    /\ Pending' = Append(Append(Pending, Oneshot(s, t)), Stop(s, q))
<1>1. t \notin async /\ async' = async \cup {t} /\ UNCHANGED trans
  BY Zenon DEF PlainGet
<1>2. PICK q \in FindRegistration(c, s) :
        IF q = NoReg
        THEN todo' = <<Oneshot(s, t)>> /\ UNCHANGED reg
        ELSE /\ reg' = [reg EXCEPT ![q] = Invalidated(@)]
             /\ todo' = <<Oneshot(s, t), Stop(s, q)>>
  BY Zenon DEF PlainGet
<1>3. reqbuf \in Seq(Request) /\ (q = NoReg \/ q \in Regs)
  BY <1>2, Zenon DEF FindRegistration, Valid, Owned, TicketInv, TypeOK
<1>4. Oneshot(s, t) \in Request /\ (q \in Regs => Stop(s, q) \in Request)
  BY MadeRequests, Zenon
<1>5. Pending = reqbuf
  BY <1>3, ConcatEmptySeq, Zenon DEF Pending
<1>6. Append(Pending, Oneshot(s, t)) \in Seq(Request)
  BY <1>3, <1>4, <1>5, AppendProperties, Zenon
<1>7. CASE q = NoReg
  <2>1. reqbuf \o <<Oneshot(s, t)>> = Append(reqbuf, Oneshot(s, t))
    BY <1>3, <1>4, SMT
  <2>2. Pending' = Append(Pending, Oneshot(s, t)) /\ UNCHANGED reg
    BY <1>2, <1>5, <1>7, <2>1, Zenon DEF Pending
  <2> QED BY <1>1, <1>3, <1>4, <1>5, <1>6, <1>7, <2>2, Zenon
<1>8. CASE q \in Regs /\ q # NoReg
  <2>1. reqbuf \o <<Oneshot(s, t), Stop(s, q)>> = Append(Append(reqbuf, Oneshot(s, t)), Stop(s, q))
    BY <1>3, <1>4, <1>8, SMT
  <2>2. /\ Pending' = Append(Append(Pending, Oneshot(s, t)), Stop(s, q))
        /\ reg' = [reg EXCEPT ![q] = Invalidated(@)]
    BY <1>2, <1>5, <1>8, <2>1, Zenon DEF Pending
  <2> QED BY <1>1, <1>3, <1>4, <1>5, <1>6, <1>8, <2>2, Zenon
<1> QED BY <1>3, <1>7, <1>8, Zenon

(* The others leave the requests alone, in one buffer or the other.        *)
LEMMA OthersPut ==
    ASSUME TicketInv, Retransmitted \/ PutRequest \/ Serve \/ UNCHANGED <<todo, reqbuf>>
    PROVE  Pending' = Pending
<1>1. todo \in Seq(Request) /\ reqbuf \in Seq(Request)
  BY Zenon DEF TicketInv, TypeOK, CoapTypeOK
<1>2. CASE UNCHANGED <<todo, reqbuf>>
  BY <1>2, Zenon DEF Pending
<1>3. CASE PutRequest
  BY <1>1, <1>3, PendingParts, ZenonT(40) DEF PutRequest, Pending
<1> QED BY <1>2, <1>3, Zenon DEF Retransmitted, Serve
-----------------------------------------------------------------------------
(* A START that is still to be handled is a reference given away.          *)
LEMMA StartCounted ==
    ASSUME TypeOK, NEW s, NEW r, StartIn(Pending, s, r)
    PROVE  Count(todo, "START", r) > 0 \/ Count(reqbuf, "START", r) > 0
<1>0. reqbuf \in Seq(Request) /\ todo \in Seq(Request)
  BY Zenon DEF TypeOK, CoapTypeOK
<1>1. PICK j \in DOMAIN Pending : Pending[j] = Start(s, r)
  BY Zenon DEF StartIn
<1>2. Start(s, r).rtype = "START" /\ Start(s, r).ticket = r
  BY SMT DEF Start
<1>3. (\E i \in DOMAIN reqbuf : Pending[j] = reqbuf[i]) \/ (\E i \in DOMAIN todo : Pending[j] = todo[i])
  <2>1. /\ Pending \in Seq(Request) /\ Len(Pending) = Len(reqbuf) + Len(todo)
        /\ \A i \in 1 .. Len(reqbuf) + Len(todo) :
              Pending[i] = IF i <= Len(reqbuf) THEN reqbuf[i] ELSE todo[i - Len(reqbuf)]
    BY <1>0, ConcatProperties, Zenon DEF Pending
  <2> HIDE DEF Pending
  <2>2. j \in 1 .. Len(reqbuf) + Len(todo) /\ Len(reqbuf) \in Nat /\ Len(todo) \in Nat
        /\ DOMAIN reqbuf = 1 .. Len(reqbuf) /\ DOMAIN todo = 1 .. Len(todo)
    BY <1>0, <2>1, SMT
  <2>3. CASE j <= Len(reqbuf)
    BY <2>1, <2>2, <2>3, SMT
  <2>4. CASE j > Len(reqbuf)
    <3>1. j - Len(reqbuf) \in DOMAIN todo /\ Pending[j] = todo[j - Len(reqbuf)]
      BY <2>1, <2>2, <2>4, SMT
    <3> QED BY <3>1, Zenon
  <2> QED BY <2>2, <2>3, <2>4, SMT
<1>4. ASSUME NEW i \in DOMAIN reqbuf, Pending[j] = reqbuf[i] PROVE Count(reqbuf, "START", r) > 0
  <2>1. Count(reqbuf, reqbuf[i].rtype, reqbuf[i].ticket) > 0
    BY <1>0, Counted, Zenon
  <2> QED BY <1>1, <1>2, <1>4, <2>1, Zenon
<1>5. ASSUME NEW i \in DOMAIN todo, Pending[j] = todo[i] PROVE Count(todo, "START", r) > 0
  <2>1. Count(todo, todo[i].rtype, todo[i].ticket) > 0
    BY <1>0, Counted, Zenon
  <2> QED BY <1>1, <1>2, <1>5, <2>1, Zenon
<1> QED BY <1>3, <1>4, <1>5, Zenon

(* A registration for which a START or a stream is there is in use, and    *)
(* has one reference more than those on their way back.                    *)
Named(r) == \E s \in Sensors : StartIn(Pending, s, r) \/ r \in streams[s]

Back(r) == One(Stopped(r) \in out) + Count(resbuf, "STREAM_STOPPED", r) + trans[r]

LEMMA NamedCounted ==
    ASSUME TypeOK, TicketsCovered, NEW r \in Regs, Named(r)
    PROVE  Back(r) < reg[r].ref
<1>1. GivenAway(r) <= reg[r].ref
  BY Zenon DEF TicketsCovered
<1>2. \/ Count(todo, "START", r) > 0 \/ Count(reqbuf, "START", r) > 0
      \/ Cardinality(StreamsOf(r)) # 0
  <2>1. CASE StreamsOf(r) # {}
    BY <2>1, PlacesNat, FS_EmptySet, Zenon
  <2>2. CASE StreamsOf(r) = {}
    BY <2>2, StartCounted, Zenon DEF Named, StreamsOf
  <2> QED BY <2>1, <2>2, Zenon
<1> QED BY <1>1, <1>2, PlacesNat, SMTT(60) DEF GivenAway, Back

LEMMA NamedAlive ==
    ASSUME TicketInv, NEW r \in Regs, Named(r)
    PROVE  Alive(r)
<1>1. TypeOK /\ Back(r) < reg[r].ref
  BY NamedCounted, Zenon DEF TicketInv
<1>2. reg[r].ref # 0
  BY <1>1, PlacesNat, SMTT(60) DEF Back
<1> QED BY <1>2, Zenon DEF TicketInv, UnusedUncounted

LEMMA StreamNamed ==
    ASSUME NEW s \in Sensors, NEW r, WillStream(s, r)
    PROVE  Named(r) /\ (StartIn(Pending, s, r) \/ r \in streams[s])
  BY Zenon DEF WillStream, Begins, StartIn, Named
-----------------------------------------------------------------------------
(* What a step does to a registration in use: it may be freed, otherwise   *)
(* its owner remains, an invalid one does not become valid, and one with   *)
(* references is left with some.                                           *)
Carries(x, y) == /\ y.owner = x.owner
                 /\ x.invalid => y.invalid
                 /\ x.ref > 0 => y.ref > 0

LEMMA ReleasedCarries ==
    ASSUME NEW x \in Registration, NEW y \in Registration, Carries(x, y)
    PROVE  Released(y) = Free \/ Carries(x, Released(y))
<1>1. y.ref \in Int /\ Released(y).ref = y.ref - 1
  BY RefOps, SMT DEF Registration
<1>2. y.ref > 0 /\ y.ref # 1 => Released(y).ref > 0
  BY <1>1, SMT
<1> QED BY <1>2, ReleaseOps, Zenon DEF Carries

LEMMA OpsCarry ==
    ASSUME NEW x \in Registration
    PROVE  /\ Carries(x, x)
           /\ Carries(x, CheckedOut(x))
           /\ Carries(x, Invalidated(x))
           /\ Carries(x, Failed(x))
           /\ Carries(x, Invalidated(Failed(x)))
           /\ \A b \in BOOLEAN : Carries(x, Confirmed(x, b))
<1>1. x.ref > 0 => x.ref + 1 > 0
  BY SMT DEF Registration
<1> QED BY <1>1, RefOps, InvalidOps, RegistrationOps, Zenon DEF Carries

(* Unless it is made in that step, for a stream that is asked for.         *)
Made(r) == ~Alive(r) /\ \E s \in Sensors : StartIn(Pending', s, r)

LEMMA OwnerKept ==
    ASSUME TicketInv, [Next]_vars, NEW r \in Regs
    PROVE  reg'[r] = Free \/ Carries(reg[r], reg'[r]) \/ Made(r)
<1>1. /\ TypeOK /\ reg \in [Regs -> Registration] /\ reg[r] \in Registration
      /\ Pending \in Seq(Request)
  <2>1. reqbuf \in Seq(Request) /\ todo \in Seq(Request)
    BY Zenon DEF TicketInv, TypeOK, CoapTypeOK
  <2> QED BY <2>1, PendingParts, Zenon DEF TicketInv, TypeOK, CoapTypeOK, Pending
<1>2. ASSUME reg'[r] = reg[r]
      PROVE  reg'[r] = Free \/ Carries(reg[r], reg'[r])
  BY <1>1, <1>2, OpsCarry, Zenon
<1>3. ASSUME NEW x \in Registration, Carries(reg[r], x), reg'[r] \in {reg[r], x, Released(x)}
      PROVE  reg'[r] = Free \/ Carries(reg[r], reg'[r])
  BY <1>1, <1>2, <1>3, ReleasedCarries, Zenon
<1>4. ASSUME NEW q \in Regs, GiveUp(q) PROVE reg'[r] = Free \/ Carries(reg[r], reg'[r])
  <2>1. PICK x \in {Failed(reg[r]), Invalidated(Failed(reg[r]))} : reg'[r] \in {reg[r], Released(x)}
    BY <1>1, <1>4, GiveUpPuts, Zenon
  <2>2. x \in Registration /\ Carries(reg[r], x)
    BY <1>1, <2>1, OpsCarry, RegistrationOps, Zenon
  <2> QED BY <1>3, <2>1, <2>2, Zenon
<1>5. CASE Network
  <2>1. UNCHANGED <<reqbuf, resbuf>> /\ todo = <<>>
    BY <1>5, Zenon DEF Network
  <2>2. ASSUME NEW c \in Clients, NEW s \in Sensors, ObserveGet(c, s)
        PROVE  reg'[r] = Free \/ Carries(reg[r], reg'[r]) \/ Made(r)
    <3>1. PICK q \in Regs :
              /\ Start(s, q) \in Request /\ Pending' = Append(Pending, Start(s, q))
              /\ reg' = [reg EXCEPT ![q] =
                            CheckedOut(IF Alive(q) THEN @ ELSE [Free EXCEPT !.owner = <<c, s>>])]
      BY <2>1, <2>2, ObservePuts, Zenon
    <3>2. CASE r # q \/ Alive(r)
      <4>1. reg'[r] \in {reg[r], CheckedOut(reg[r])}
        BY <1>1, <3>1, <3>2, Zenon
      <4> QED BY <1>1, <1>3, <4>1, OpsCarry, RegistrationOps, Zenon
    <3>3. CASE r = q /\ ~Alive(r)
      <4>1. StartIn(Pending', s, r)
        BY <1>1, <3>1, <3>3, WillAppend, Zenon
      <4> QED BY <3>3, <4>1, Zenon DEF Made
    <3> QED BY <3>2, <3>3, Zenon
  <2>3. ASSUME NEW c \in Clients, NEW s \in Sensors, NEW t \in Tids, PlainGet(c, s, t)
        PROVE  reg'[r] = Free \/ Carries(reg[r], reg'[r])
    <3>1. reg'[r] \in {reg[r], Invalidated(reg[r])}
      BY <1>1, <2>1, <2>3, PlainGetPuts, Zenon
    <3> QED BY <1>1, <1>3, <3>1, OpsCarry, RegistrationOps, Zenon
  <2>4. ASSUME NEW q \in Regs, Acknowledged(q)
        PROVE  reg'[r] = Free \/ Carries(reg[r], reg'[r])
    <3>1. PICK b \in BOOLEAN : reg'[r] \in {reg[r], Released(Confirmed(reg[r], b))}
      BY <1>1, <2>4, Zenon DEF Acknowledged
    <3>2. Confirmed(reg[r], b) \in Registration /\ Carries(reg[r], Confirmed(reg[r], b))
      BY <1>1, OpsCarry, RegistrationOps, Zenon
    <3> QED BY <1>3, <3>1, <3>2, Zenon
  <2> QED BY <1>2, <1>5, <2>2, <2>3, <2>4, Zenon DEF Network
<1>6. CASE Serve
  <2>1. reg'[r] \in {reg[r], CheckedOut(reg[r]), Released(reg[r])}
    BY <1>1, <1>6, Zenon DEF Serve, ServeStopped, ServeOneshot, ServeUpdate
  <2>2. reg'[r] \in {reg[r], reg[r], Released(reg[r])} \/ reg'[r] \in {reg[r], CheckedOut(reg[r])}
    BY <2>1, Zenon
  <2> QED BY <1>1, <1>3, <2>2, OpsCarry, RegistrationOps, Zenon
<1>7. CASE Coap
  BY <1>2, <1>4, <1>5, <1>6, <1>7, Zenon DEF Coap, CoapNext, Retransmitted, PutRequest
<1>8. CASE UNCHANGED coapVars
  BY <1>2, <1>8, Zenon DEF coapVars
<1> QED BY <1>7, <1>8, Zenon DEF Next, StreamMgr, Sensor, Carrier, Dead, vars
-----------------------------------------------------------------------------
(* A stream, or a START on its way to one, is on the sensor for which its  *)
(* registration was made.                                                  *)
OwnSensor == \A s \in Sensors, r \in Regs :
                r \in streams[s] \/ StartIn(Pending, s, r) => Alive(r) /\ reg[r].owner[2] = s

(* A registration that is valid has a stream, or a START on its way to     *)
(* one, or the reference of a START that put_response_helper has lost.     *)
ValidKept == \A r \in Regs : Alive(r) /\ ~reg[r].invalid => Named(r) \/ Slack(r) > 0

(* The Streaming Manager takes a request, to handle or to lose it.         *)
LEMMA Taken ==
    ASSUME TypeOK, UNCHANGED todo, reqbuf # <<>>, reqbuf' = Tail(reqbuf)
    PROVE  /\ Pending \in Seq(Request) /\ Pending # <<>> /\ Pending' = Tail(Pending)
           /\ Head(Pending) = Head(reqbuf) /\ Head(Pending) \in Request
<1>1. reqbuf \in Seq(Request) /\ todo \in Seq(Request)
  BY Zenon DEF TypeOK, CoapTypeOK
<1>2. /\ Pending \in Seq(Request) /\ Pending # <<>> /\ Head(Pending) = Head(reqbuf)
      /\ Pending' = Tail(Pending)
  BY <1>1, PendingParts, ZenonT(40) DEF Pending
<1> QED BY <1>1, <1>2, HeadTailProperties, Zenon

(* Every step is of the CoAP thread, takes a request, or leaves requests   *)
(* and streams alone.                                                      *)
Takes(A) == A /\ UNCHANGED coapVars /\ reqbuf # <<>> /\ reqbuf' = Tail(reqbuf)
Quiet == UNCHANGED coapVars /\ UNCHANGED <<streams, reqbuf>>

LEMMA StepKinds == [Next]_vars => Coap \/ Takes(HandleRequest) \/ Takes(Defer) \/ Quiet
<1> SUFFICES ASSUME [Next]_vars, ~Coap PROVE Takes(HandleRequest) \/ Takes(Defer) \/ Quiet
  OBVIOUS
<1>1. UNCHANGED coapVars
  BY Zenon DEF Next, StreamMgr, Sensor, Carrier, Dead, vars
<1>2. CASE HandleRequest \/ Defer
  BY <1>1, <1>2, Zenon DEF HandleRequest, Defer, Takes, Quiet
<1>3. CASE HandleSample \/ PutResponse \/ WaitForRoom
  BY <1>1, <1>3, Zenon DEF HandleSample, PutResponse, WaitForRoom, Quiet
<1>4. ASSUME NEW s, Sensor(s) \/ Carrier(s) PROVE Quiet
  BY <1>1, <1>4, Zenon DEF Sensor, Sample, Carrier, Carry, CarrierLooks, CarrierReads,
     CarrierLeaves, CarrierSteps, Quiet
<1>5. CASE UNCHANGED vars
  BY <1>1, <1>5, Zenon DEF vars, smVars, Quiet
<1> QED BY <1>2, <1>3, <1>4, <1>5, Zenon DEF Next, StreamMgr, SmNext, Dead

(* The owner of the registration that an observe GET finds or makes.       *)
LEMMA ObservedOwner ==
    ASSUME TypeOK, NEW c \in Clients, NEW s \in Sensors, NEW q \in AddRegistration(c, s),
           reg' = [reg EXCEPT ![q] =
                      CheckedOut(IF Alive(q) THEN @ ELSE [Free EXCEPT !.owner = <<c, s>>])]
    PROVE  /\ q \in Regs /\ reg'[q].owner = <<c, s>> /\ <<c, s>> # NoOwner
           /\ Alive(q) => reg[q].owner = <<c, s>> /\ reg'[q].invalid = reg[q].invalid
           /\ ~Alive(q) => ~reg'[q].invalid
           /\ \A r \in Regs : r # q => reg'[r] = reg[r]
<1>1. q \in Regs /\ reg \in [Regs -> Registration] /\ <<c, s>> # NoOwner
  <2>1. <<c, s>> \in Clients \X Sensors
    BY SMT
  <2> QED BY <2>1, CoapAssumption, Zenon DEF AddRegistration, Valid, Owned, TypeOK, CoapTypeOK
<1>2. Alive(q) => reg[q].owner = <<c, s>>
  BY Zenon DEF AddRegistration, Valid, Owned
<1>3. \A r \in Regs : r # q => reg'[r] = reg[r]
  BY <1>1, Zenon
<1>4. CASE Alive(q)
  <2>1. reg'[q] = CheckedOut(reg[q])
    BY <1>1, <1>4, Zenon
  <2> QED BY <1>1, <1>2, <1>3, <1>4, <2>1, RefOps, InvalidOps, Zenon
<1>5. CASE ~Alive(q)
  <2> DEFINE x == [Free EXCEPT !.owner = <<c, s>>]
  <2>1. x \in Registration /\ x.owner = <<c, s>> /\ ~x.invalid
    <3>1. x.owner = <<c, s>> /\ ~x.invalid
      BY SMT DEF Free
    <3> QED BY <3>1, OwnedFree, Zenon
  <2> HIDE DEF x
  <2>2. reg'[q] = CheckedOut(x)
    BY <1>1, <1>5, Zenon DEF x
  <2>3. CheckedOut(x).owner = <<c, s>> /\ ~CheckedOut(x).invalid
    BY <2>1, RefOps, InvalidOps, Zenon
  <2> QED BY <1>1, <1>3, <1>5, <2>2, <2>3, Zenon
<1> QED BY <1>4, <1>5, Zenon

(* Only an observe GET begins to ask for a stream, on its own sensor.      *)
LEMMA NamesStep ==
    ASSUME TicketInv, [Next]_vars, NEW s \in Sensors, NEW r \in Regs,
           r \in streams'[s] \/ StartIn(Pending', s, r)
    PROVE  \/ r \in streams[s] \/ StartIn(Pending, s, r)
           \/ \E c \in Clients : reg'[r].owner = <<c, s>>
<1>1. /\ TypeOK /\ reqbuf \in Seq(Request) /\ todo \in Seq(Request)
      /\ Pending \in Seq(Request) /\ streams \in [Sensors -> SUBSET Regs]
  <2>1. reqbuf \in Seq(Request) /\ todo \in Seq(Request)
    BY Zenon DEF TicketInv, TypeOK, CoapTypeOK
  <2> QED BY <2>1, PendingParts, Zenon DEF TicketInv, TypeOK, SmTypeOK, Pending
<1> DEFINE Known == r \in streams[s] \/ StartIn(Pending, s, r)
<1>2. CASE UNCHANGED streams /\ Pending' = Pending
  BY <1>2, Zenon
<1>3. CASE Coap
  <2>1. CoapNext /\ UNCHANGED streams
    BY <1>3, Zenon DEF Coap, smVars
  <2>2. ASSUME NEW m \in Request, m # Start(s, r), Pending' = Append(Pending, m)
        PROVE  Known
    BY <1>1, <2>1, <2>2, WillAppend, Zenon
  <2>3. ASSUME NEW q \in Regs, GiveUp(q) PROVE Known
    <3>1. \A x : Stop(x, q) # Start(s, r)
      BY StartStop, Zenon
    <3> QED BY <1>2, <2>1, <2>2, <2>3, <3>1, GiveUpPuts, Zenon
  <2>4. ASSUME NEW c \in Clients, NEW x \in Sensors, ObserveGet(c, x),
               UNCHANGED <<reqbuf, resbuf>>, todo = <<>>
        PROVE  Known \/ \E d \in Clients : reg'[r].owner = <<d, s>>
    <3>1. PICK q \in AddRegistration(c, x) :
              /\ q \in Regs /\ Start(x, q) \in Request
              /\ reg' = [reg EXCEPT ![q] =
                            CheckedOut(IF Alive(q) THEN @ ELSE [Free EXCEPT !.owner = <<c, x>>])]
              /\ Pending' = Append(Pending, Start(x, q))
      BY <2>4, ObservePuts, Zenon
    <3>2. CASE Start(x, q) # Start(s, r)
      BY <2>2, <3>1, <3>2, Zenon
    <3>3. CASE Start(x, q) = Start(s, r)
      <4>1. x = s /\ q = r
        BY <3>3, SMT DEF Start
      <4>2. reg'[q].owner = <<c, x>>
        BY <1>1, <3>1, ObservedOwner, Zenon
      <4> QED BY <4>1, <4>2, Zenon
    <3> QED BY <3>2, <3>3, Zenon
  <2>5. ASSUME NEW c \in Clients, NEW x \in Sensors, NEW t \in Tids, PlainGet(c, x, t),
               UNCHANGED <<reqbuf, resbuf>>, todo = <<>>
        PROVE  Known
    <3> DEFINE u == Append(Pending, Oneshot(x, t))
    <3>1. /\ u \in Seq(Request) /\ Oneshot(x, t) \in Request
          /\ \/ Pending' = u
             \/ \E q \in Regs : Stop(x, q) \in Request /\ Pending' = Append(u, Stop(x, q))
      BY <2>5, PlainGetPuts, Zenon
    <3>2. Oneshot(x, t) # Start(s, r) /\ \A q : Stop(x, q) # Start(s, r)
      BY StartStop, Zenon
    <3>3. StartIn(u, s, r) => StartIn(Pending, s, r)
      BY <1>1, <3>1, <3>2, WillAppend, Zenon
    <3> HIDE DEF u
    <3>4. StartIn(Pending', s, r) => StartIn(u, s, r)
      BY <3>1, <3>2, WillAppend, Zenon
    <3> QED BY <2>1, <3>3, <3>4, Zenon
  <2>6. CASE UNCHANGED <<todo, reqbuf>> \/ Retransmitted \/ PutRequest \/ Serve
    BY <1>2, <2>1, <2>6, OthersPut, Zenon
  <2>7. CASE Network
    BY <2>4, <2>5, <2>6, <2>7, Zenon DEF Network, Acknowledged
  <2> QED BY <2>1, <2>3, <2>6, <2>7, Zenon DEF CoapNext
<1>4. CASE Quiet
  BY <1>2, <1>4, Zenon DEF Quiet, coapVars, Pending
<1>5. CASE Takes(HandleRequest) \/ Takes(Defer)
  <2> DEFINE m == Head(reqbuf)
  <2>1. /\ StartIn(Pending', s, r) => StartIn(Pending, s, r)
        /\ m = Start(s, r) => StartIn(Pending, s, r)
        /\ m \in Request
    <3>1. UNCHANGED todo /\ reqbuf # <<>> /\ reqbuf' = Tail(reqbuf)
      BY <1>5, Zenon DEF Takes, coapVars
    <3>2. /\ Pending # <<>> /\ Pending' = Tail(Pending)
          /\ m = Head(Pending) /\ m \in Request
      BY <1>1, <3>1, Taken, Zenon
    <3> HIDE DEF m
    <3>3. StartIn(Pending, s, r) <=> m = Start(s, r) \/ StartIn(Pending', s, r)
      BY <1>1, <3>2, WillTail, Zenon
    <3> QED BY <3>2, <3>3, Zenon
  <2> HIDE DEF m
  <2>2. CASE UNCHANGED streams
    BY <2>1, <2>2, Zenon
  <2>3. CASE m.rtype = "START" /\ StartStream(m.sensor, m.ticket)
    <3>1. m = Start(m.sensor, m.ticket)
      BY <2>1, <2>3, RequestFields, Zenon
    <3>2. r \in streams'[s] => r \in streams[s] \/ (s = m.sensor /\ r = m.ticket)
      BY <1>1, <2>3, Zenon DEF StartStream
    <3> QED BY <2>1, <3>1, <3>2, Zenon
  <2>4. CASE StopStream(m.sensor, m.ticket)
    <3>1. r \in streams'[s] => r \in streams[s]
      BY <1>1, <2>4, Zenon DEF StopStream
    <3> QED BY <2>1, <3>1, Zenon
  <2>5. CASE HandleRequest
    BY <1>5, <2>2, <2>3, <2>4, <2>5, Zenon DEF Takes, HandleRequest, TakeOneshot, m
  <2>6. CASE Defer
    BY <2>2, <2>6, Zenon DEF Defer
  <2> QED BY <1>5, <2>5, <2>6, Zenon DEF Takes
<1> QED BY <1>3, <1>4, <1>5, StepKinds, Zenon
-----------------------------------------------------------------------------
(* What the references say of a registration that is named, and of one     *)
(* that is valid: the last of them is not among those on their way back.   *)
NamedHeld == \A r \in Regs : Named(r) => Alive(r) /\ Back(r) < reg[r].ref
ValidHeld == \A r \in ValidRegs : Alive(r) /\ Back(r) < reg[r].ref

(* Of one that is not in use, nothing is left.                             *)
NothingLeft == \A r \in Regs : ~Alive(r) =>
                  /\ trans[r] = 0 /\ ~Named(r)
                  /\ Count(resbuf, "STREAM_STOPPED", r) = 0

LEMMA NamedIsHeld == TicketInv => NamedHeld
  BY NamedCounted, NamedAlive, Zenon DEF NamedHeld, TicketInv

LEMMA SlackHolds ==
    ASSUME TypeOK, NEW r \in Regs, Slack(r) > 0
    PROVE  Back(r) < reg[r].ref
  BY PlacesNat, SMTT(60) DEF Slack, GivenAway, Back

LEMMA ValidIsHeld == TicketInv /\ ValidKept => ValidHeld
<1> SUFFICES ASSUME TicketInv, ValidKept, NEW r \in ValidRegs
             PROVE  Alive(r) /\ Back(r) < reg[r].ref
  BY Zenon DEF ValidHeld
<1>1. r \in Regs /\ Alive(r) /\ ~reg[r].invalid
  BY Zenon DEF ValidRegs
<1>2. Named(r) \/ Slack(r) > 0
  BY <1>1, Zenon DEF ValidKept
<1> QED BY <1>1, <1>2, NamedCounted, SlackHolds, Zenon DEF TicketInv

LEMMA NothingIsLeft == TicketInv => NothingLeft
<1> SUFFICES ASSUME TicketInv, NEW r \in Regs, ~Alive(r)
             PROVE  trans[r] = 0 /\ ~Named(r) /\ Count(resbuf, "STREAM_STOPPED", r) = 0
  BY Zenon DEF NothingLeft
<1>1. TypeOK /\ GivenAway(r) <= 0
  BY Zenon DEF TicketInv, UnusedUncounted, TicketsCovered
<1>2. trans[r] = 0 /\ Count(resbuf, "STREAM_STOPPED", r) = 0
  BY <1>1, PlacesNat, SMTT(60) DEF GivenAway
<1> QED BY <1>2, NamedAlive, Zenon
-----------------------------------------------------------------------------
(* A slack stays, or grows. *)
LEMMA SlackNeverShrinks ==
    ASSUME TicketInv, [Next]_vars, NEW r \in Regs
    PROVE  Slack(r)' >= Slack(r)
<1>1. TypeOK /\ (Slack(r)' = Slack(r) => Slack(r)' >= Slack(r))
  BY SlackNow, SMTT(60) DEF TicketInv
<1>2. CASE UNCHANGED coapVars /\ UNCHANGED <<streams, out, reqbuf, resbuf>>
  BY <1>1, <1>2, OthersSlack, Zenon
<1>3. ASSUME NEW s, Sensor(s) \/ Carrier(s) PROVE Slack(r)' >= Slack(r)
  BY <1>2, <1>3, Zenon
     DEF Sensor, Sample, Carrier, Carry, CarrierLooks, CarrierReads, CarrierLeaves, CarrierSteps
<1>4. CASE UNCHANGED vars
  BY <1>2, <1>4, Zenon DEF vars, smVars
<1> QED BY <1>1, <1>3, <1>4, CoapSlack, SmSlack, Zenon DEF Next, Dead

(* A stream, and a START, keep to the sensor of their registration.        *)
LEMMA OwnSensorStep ==
    ASSUME TicketInv, NamedHeld', OwnSensor, [Next]_vars
    PROVE  OwnSensor'
<1> SUFFICES ASSUME NEW s \in Sensors, NEW r \in Regs,
                    r \in streams'[s] \/ StartIn(Pending', s, r)
             PROVE  Alive(r)' /\ reg'[r].owner[2] = s
  BY Zenon DEF OwnSensor
<1>1. Alive(r)'
  BY Zenon DEF NamedHeld, Named
<1>2. CASE r \in streams[s] \/ StartIn(Pending, s, r)
  <2>1. Alive(r) /\ reg[r].owner[2] = s
    BY <1>2, Zenon DEF OwnSensor
  <2>2. reg'[r] # Free
    BY <1>1, FreeFields, Zenon DEF Alive
  <2>3. reg'[r].owner = reg[r].owner
    BY <2>1, <2>2, OwnerKept, Zenon DEF Carries, Made
  <2> QED BY <1>1, <2>1, <2>3, Zenon
<1>3. ASSUME NEW c \in Clients, reg'[r].owner = <<c, s>> PROVE reg'[r].owner[2] = s
  BY <1>3, SMT
<1> QED BY <1>1, <1>2, <1>3, NamesStep, Zenon

(* The CoAP thread takes no request back. *)
LEMMA StartsStay ==
    ASSUME TicketInv, Coap, NEW s, NEW r, StartIn(Pending, s, r)
    PROVE  StartIn(Pending', s, r)
<1>1. CoapNext /\ Pending \in Seq(Request)
  <2>1. reqbuf \in Seq(Request) /\ todo \in Seq(Request)
    BY Zenon DEF TicketInv, TypeOK, CoapTypeOK
  <2> QED BY <2>1, PendingParts, Zenon DEF Coap, Pending
<1>2. CASE Pending' = Pending
  BY <1>2, Zenon
<1>3. ASSUME NEW m \in Request, Pending' = Append(Pending, m) PROVE StartIn(Pending', s, r)
  BY <1>1, <1>3, WillAppend, Zenon
<1>4. ASSUME NEW q \in Regs, GiveUp(q) PROVE StartIn(Pending', s, r)
  BY <1>2, <1>3, <1>4, GiveUpPuts, Zenon
<1>5. CASE Network
  <2>1. UNCHANGED <<reqbuf, resbuf>> /\ todo = <<>>
    BY <1>5, Zenon DEF Network
  <2>2. ASSUME NEW c \in Clients, NEW x \in Sensors, ObserveGet(c, x) PROVE StartIn(Pending', s, r)
    BY <1>3, <2>1, <2>2, ObservePuts, Zenon
  <2>3. ASSUME NEW c \in Clients, NEW x \in Sensors, NEW t \in Tids, PlainGet(c, x, t)
        PROVE  StartIn(Pending', s, r)
    <3> DEFINE u == Append(Pending, Oneshot(x, t))
    <3>1. /\ u \in Seq(Request) /\ Oneshot(x, t) \in Request
          /\ Pending' = u \/ \E q \in Regs : Stop(x, q) \in Request /\ Pending' = Append(u, Stop(x, q))
      BY <2>1, <2>3, PlainGetPuts, Zenon
    <3>2. StartIn(u, s, r)
      BY <1>1, <3>1, WillAppend, Zenon
    <3> HIDE DEF u
    <3>3. ASSUME NEW q \in Regs, Stop(x, q) \in Request, Pending' = Append(u, Stop(x, q))
          PROVE  StartIn(Pending', s, r)
      <4>1. StartIn(Append(u, Stop(x, q)), s, r)
        BY <3>1, <3>2, <3>3, WillAppend, Zenon
      <4> QED BY <3>3, <4>1, Zenon
    <3> QED BY <3>1, <3>2, <3>3, Zenon
  <2>4. CASE UNCHANGED <<reg, trans, async, todo>> \/ \E q \in Regs : Acknowledged(q)
    BY <1>2, <2>1, <2>4, OthersPut, Zenon DEF Acknowledged
  <2> QED BY <1>5, <2>2, <2>3, <2>4, Zenon DEF Network
<1> QED BY <1>1, <1>2, <1>4, <1>5, OthersPut, Zenon DEF CoapNext

(* The reference of a START that is lost is nobody's any more.             *)
LEMMA StartLost ==
    ASSUME TicketInv, Takes(Defer), NEW s, NEW r \in Regs, Head(reqbuf) = Start(s, r)
    PROVE  Slack(r)' > 0
<1>1. /\ TypeOK /\ UNCHANGED coapVars /\ reqbuf \in Seq(Request)
      /\ reqbuf # <<>> /\ reqbuf' = Tail(reqbuf) /\ reqbuf' \in Seq(Request)
      /\ UNCHANGED <<streams, resbuf>> /\ out' = out
  BY HeadTailProperties, Zenon DEF Takes, Defer, TicketInv, TypeOK
<1>2. Is(Head(reqbuf), "START", r) = 1
  BY SMT DEF Is, Start
<1>3. Count(reqbuf, "START", r) = Count(reqbuf', "START", r) + Is(Head(reqbuf), "START", r)
  BY <1>1, CountTail, SMT
<1>4. Count(reqbuf', "START", r) \in Nat
  BY <1>1, MatchingFinite, Zenon
<1>5. Slack(r)' = Slack(r) + 1
  BY <1>1, <1>2, <1>3, <1>4, SmSlackSame, SMTT(60)
<1>6. Slack(r) >= 0 /\ Slack(r) \in Int
  BY <1>1, SlackNow, Zenon DEF TicketInv
<1> QED BY <1>5, <1>6, SMT

(* A registration that stays valid is still named after a request is taken,*)
(* unless its START was lost.                                              *)
LEMMA TakenNamed ==
    ASSUME TicketInv, MeetsInvalid, Takes(HandleRequest) \/ Takes(Defer),
           NEW r \in Regs, Named(r), ~reg[r].invalid
    PROVE  Named(r)' \/ Slack(r)' > 0
<1> DEFINE m == Head(reqbuf)
<1>1. /\ TypeOK /\ UNCHANGED todo /\ reqbuf # <<>> /\ reqbuf' = Tail(reqbuf)
      /\ streams \in [Sensors -> SUBSET Regs]
  BY Zenon DEF Takes, coapVars, TicketInv, TypeOK, SmTypeOK
<1>2. /\ Pending \in Seq(Request) /\ Pending # <<>> /\ Pending' = Tail(Pending)
      /\ Head(Pending) = m /\ m \in Request
  BY <1>1, Taken, Zenon
<1> HIDE DEF m
<1>3. PICK s \in Sensors : StartIn(Pending, s, r) \/ r \in streams[s]
  BY Zenon DEF Named
<1>4. r \in streams'[s] \/ StartIn(Pending', s, r) => Named(r)'
  BY Zenon DEF Named
<1>5. StartIn(Pending, s, r) <=> m = Start(s, r) \/ StartIn(Pending', s, r)
  BY <1>2, WillTail, Zenon
<1>6. CASE Takes(Defer)
  <2>1. UNCHANGED streams
    BY <1>6, Zenon DEF Takes, Defer
  <2> QED BY <1>3, <1>4, <1>5, <1>6, <2>1, StartLost, Zenon DEF m
<1>7. CASE Takes(HandleRequest)
  <2>1. \/ m.rtype = "START" /\ StartStream(m.sensor, m.ticket)
        \/ m.rtype = "STOP" /\ StopStream(m.sensor, m.ticket)
        \/ m.rtype = "ONESHOT" /\ TakeOneshot(m.sensor, m.ticket)
    BY <1>1, <1>7, Zenon DEF Takes, HandleRequest, m
  <2>2. CASE m.rtype = "START" /\ StartStream(m.sensor, m.ticket)
    <3>1. m = Start(m.sensor, m.ticket)
      BY <1>2, <2>2, RequestFields, Zenon
    <3>2. streams[s] \subseteq streams'[s]
      BY <1>1, <2>2, Zenon DEF StartStream
    <3>3. m = Start(s, r) => r \in streams'[s]
      <4>1. m = Start(s, r) => m.sensor = s /\ m.ticket = r
        BY SMT DEF Start
      <4> QED BY <1>1, <2>2, <4>1, Zenon DEF StartStream
    <3> QED BY <1>3, <1>4, <1>5, <3>2, <3>3, Zenon
  <2>3. CASE m.rtype = "STOP" /\ StopStream(m.sensor, m.ticket)
    <3>1. m # Start(s, r)
      BY <2>3, SMT DEF Start
    <3>2. CASE StartIn(Pending, s, r)
      BY <1>4, <1>5, <3>1, <3>2, Zenon
    <3>3. CASE r \in streams[s] /\ m.ticket # r
      <4>1. r \in streams'[s]
        BY <1>1, <2>3, <3>3, Zenon DEF StopStream
      <4> QED BY <1>4, <4>1, Zenon
    <3>4. CASE r \in streams[s] /\ m.ticket = r
      <4>1. IsStop(m, r)
        BY <2>3, <3>4, Zenon DEF IsStop
      <4>2. \E i \in DOMAIN Pending : Pending[i] = m
        BY <1>2, HeadTailProperties, SMT
      <4>3. Meets(r)
        BY <3>4, <4>1, <4>2, Zenon DEF Meets, HasStop, StreamsOf
      <4> QED BY <4>3, Zenon DEF MeetsInvalid
    <3> QED BY <1>3, <3>2, <3>3, <3>4, Zenon
  <2>4. CASE m.rtype = "ONESHOT" /\ TakeOneshot(m.sensor, m.ticket)
    <3>1. m # Start(s, r) /\ UNCHANGED streams
      BY <2>4, SMT DEF Start, TakeOneshot
    <3> QED BY <1>3, <1>4, <1>5, <3>1, Zenon
  <2> QED BY <2>1, <2>2, <2>3, <2>4, Zenon
<1> QED BY <1>6, <1>7, Zenon

(* A valid registration does not lose its stream.                          *)
LEMMA ValidKeptStep ==
    ASSUME TicketInv, MeetsInvalid, ValidKept, [Next]_vars
    PROVE  ValidKept'
<1> SUFFICES ASSUME NEW r \in Regs, Alive(r)', ~reg'[r].invalid
             PROVE  Named(r)' \/ Slack(r)' > 0
  BY Zenon DEF ValidKept
<1>1. reg'[r] # Free
  BY FreeFields, Zenon DEF Alive
<1>2. CASE Made(r)
  BY <1>2, Zenon DEF Made, Named
<1>3. CASE Carries(reg[r], reg'[r])
  <2>1. Alive(r) /\ ~reg[r].invalid
    BY <1>3, Zenon DEF Carries, Alive
  <2>2. CASE Slack(r) > 0
    <3>1. Slack(r)' >= Slack(r) /\ Slack(r) \in Int
      BY SlackNeverShrinks, SlackNow, Zenon DEF TicketInv
    <3>2. Slack(r)' \in Int
      <4>1. reg'[r].ref \in Int /\ GivenAway(r)' \in Int
        BY TicketStep, PlacesNext, Zenon DEF TicketInv
      <4> QED BY <4>1, SMT DEF Slack
    <3> QED BY <2>2, <3>1, <3>2, SMT
  <2>3. CASE Named(r)
    <3>1. PICK s \in Sensors : StartIn(Pending, s, r) \/ r \in streams[s]
      BY <2>3, Zenon DEF Named
    <3>2. CASE Coap
      <4>1. UNCHANGED streams
        BY <3>2, Zenon DEF Coap, smVars
      <4> QED BY <3>1, <3>2, <4>1, StartsStay, Zenon DEF Named
    <3>3. CASE Quiet
      BY <3>1, <3>3, Zenon DEF Quiet, coapVars, Pending, Named
    <3> QED BY <2>1, <2>3, <3>2, <3>3, StepKinds, TakenNamed, Zenon
  <2> QED BY <2>1, <2>2, <2>3, Zenon DEF ValidKept
<1> QED BY <1>1, <1>2, <1>3, OwnerKept, Zenon
-----------------------------------------------------------------------------
(* The streams that there will be when the requests in q are handled, if   *)
(* there are now those of st; and what a request that is put, or one that  *)
(* is taken, changes of them.                                              *)
Will(q, st, s, r) == Begins(q, s, r) \/ (r \in st[s] /\ ~Ends(q, s, r))
Wills(q, st) == {p \in Sensors \X Regs : Will(q, st, p[1], p[2])}

LEMMA StreamedNow ==
    /\ Streamed = Wills(Pending, streams)
    /\ Streamed' = Wills(Pending', streams')
<1>1. \A s, r : WillStream(s, r) <=> Will(Pending, streams, s, r)
  BY Zenon DEF WillStream, Will
<1>2. \A s, r : WillStream(s, r)' <=> Will(Pending', streams', s, r)
  BY Zenon DEF WillStream, Will
<1>3. Streamed = Wills(Pending, streams)
  BY <1>1, Zenon DEF Streamed, Wills
<1>4. Streamed' = Wills(Pending', streams')
  BY <1>2, Zenon DEF Streamed, Wills
<1> QED BY <1>3, <1>4, Zenon

LEMMA WillPut ==
    ASSUME NEW q \in Seq(Request), NEW m \in Request, NEW st, NEW s, NEW r
    PROVE  Will(Append(q, m), st, s, r) <=> m = Start(s, r) \/ (Will(q, st, s, r) /\ m # Stop(s, r))
<1>1. /\ Begins(Append(q, m), s, r) <=> m = Start(s, r) \/ (Begins(q, s, r) /\ m # Stop(s, r))
      /\ Ends(Append(q, m), s, r) <=> m = Stop(s, r) \/ Ends(q, s, r)
  BY WillAppend, Zenon
<1> QED BY <1>1, Zenon DEF Will

LEMMA StartPut ==
    ASSUME NEW q \in Seq(Request), NEW x \in Sensors, NEW y \in Regs, Start(x, y) \in Request,
           Pending' = Append(q, Start(x, y)), UNCHANGED streams
    PROVE  Streamed' = Wills(q, streams) \cup {<<x, y>>}
<1>1. ASSUME NEW p \in Sensors \X Regs
      PROVE  Will(Pending', streams', p[1], p[2]) <=> p = <<x, y>> \/ Will(q, streams, p[1], p[2])
  <2>1. /\ Start(x, y) # Stop(p[1], p[2])
        /\ Start(x, y) = Start(p[1], p[2]) <=> p = <<x, y>>
    BY SMT DEF Start, Stop
  <2> QED BY <2>1, WillPut, SMT
<1>2. <<x, y>> \in Sensors \X Regs
  BY SMT
<1>3. Wills(Pending', streams') = Wills(q, streams) \cup {<<x, y>>}
  BY <1>1, <1>2, Zenon DEF Wills
<1> QED BY <1>3, StreamedNow, Zenon

LEMMA StopPut ==
    ASSUME NEW q \in Seq(Request), NEW x \in Sensors, NEW y \in Regs, Stop(x, y) \in Request,
           Pending' = Append(q, Stop(x, y)), UNCHANGED streams
    PROVE  Streamed' = Wills(q, streams) \ {<<x, y>>}
<1>1. ASSUME NEW p \in Sensors \X Regs
      PROVE  Will(Pending', streams', p[1], p[2]) <=> p # <<x, y>> /\ Will(q, streams, p[1], p[2])
  <2>1. /\ Stop(x, y) # Start(p[1], p[2])
        /\ Stop(x, y) = Stop(p[1], p[2]) <=> p = <<x, y>>
    BY SMT DEF Start, Stop
  <2>2. Will(Append(q, Stop(x, y)), streams, p[1], p[2])
          <=> \/ Stop(x, y) = Start(p[1], p[2])
              \/ Will(q, streams, p[1], p[2]) /\ Stop(x, y) # Stop(p[1], p[2])
    BY WillPut, SMT
  <2> QED BY <2>1, <2>2, Zenon
<1>3. Wills(Pending', streams') = Wills(q, streams) \ {<<x, y>>}
  BY <1>1, Zenon DEF Wills
<1> QED BY <1>3, StreamedNow, Zenon

LEMMA OneshotPut ==
    ASSUME NEW q \in Seq(Request), NEW x, NEW t, Oneshot(x, t) \in Request, NEW st
    PROVE  Wills(Append(q, Oneshot(x, t)), st) = Wills(q, st)
<1>1. ASSUME NEW p \in Sensors \X Regs
      PROVE  Will(Append(q, Oneshot(x, t)), st, p[1], p[2]) <=> Will(q, st, p[1], p[2])
  <2>1. Oneshot(x, t) # Start(p[1], p[2]) /\ Oneshot(x, t) # Stop(p[1], p[2])
    BY SMT DEF Oneshot, Start, Stop
  <2> QED BY <2>1, WillPut, SMT
<1> QED BY <1>1, Zenon DEF Wills

(* A request that is handled has had its effect. *)
LEMMA WillHandled ==
    ASSUME NEW q \in Seq(Request), q # <<>>, NEW st, NEW su,
           \A s \in Sensors, r \in Regs :
              r \in su[s] <=> Head(q) = Start(s, r) \/ (r \in st[s] /\ Head(q) # Stop(s, r))
    PROVE  Wills(Tail(q), su) = Wills(q, st)
<1>1. ASSUME NEW p \in Sensors \X Regs
      PROVE  Will(Tail(q), su, p[1], p[2]) <=> Will(q, st, p[1], p[2])
  <2>1. p[1] \in Sensors /\ p[2] \in Regs
    BY SMT
  <2>2. p[2] \in su[p[1]]
          <=> Head(q) = Start(p[1], p[2]) \/ (p[2] \in st[p[1]] /\ Head(q) # Stop(p[1], p[2]))
    BY <2>1, Zenon
  <2>3. Head(q) = Start(p[1], p[2]) => Head(q) # Stop(p[1], p[2])
    BY SMT DEF Start, Stop
  <2>4. /\ Begins(q, p[1], p[2]) <=> \/ Begins(Tail(q), p[1], p[2])
                                     \/ Head(q) = Start(p[1], p[2]) /\ ~Ends(Tail(q), p[1], p[2])
        /\ Ends(q, p[1], p[2]) <=> Head(q) = Stop(p[1], p[2]) \/ Ends(Tail(q), p[1], p[2])
    BY WillTail
  <2> QED BY <2>2, <2>3, <2>4, Zenon DEF Will
<1> QED BY <1>1, Zenon DEF Wills

(* One that is lost makes a difference to its own stream only.             *)
LEMMA WillLost ==
    ASSUME NEW q \in Seq(Request), q # <<>>, NEW st
    PROVE  \/ Wills(Tail(q), st) = Wills(q, st)
           \/ \E s \in Sensors, r \in Regs :
                 Wills(Tail(q), st) \in {Wills(q, st) \cup {<<s, r>>}, Wills(q, st) \ {<<s, r>>}}
<1>1. ASSUME NEW p \in Sensors \X Regs,
             Head(q) # Start(p[1], p[2]), Head(q) # Stop(p[1], p[2])
      PROVE  Will(Tail(q), st, p[1], p[2]) <=> Will(q, st, p[1], p[2])
  <2>1. /\ Begins(q, p[1], p[2]) <=> Begins(Tail(q), p[1], p[2])
        /\ Ends(q, p[1], p[2]) <=> Ends(Tail(q), p[1], p[2])
    BY <1>1, WillTail
  <2> QED BY <2>1, Zenon DEF Will
<1>2. CASE \A p \in Sensors \X Regs : Head(q) # Start(p[1], p[2]) /\ Head(q) # Stop(p[1], p[2])
  BY <1>1, <1>2, Zenon DEF Wills
<1>3. ASSUME NEW o \in Sensors \X Regs, Head(q) = Start(o[1], o[2]) \/ Head(q) = Stop(o[1], o[2])
      PROVE  \E s \in Sensors, r \in Regs :
                Wills(Tail(q), st) \in {Wills(q, st) \cup {<<s, r>>}, Wills(q, st) \ {<<s, r>>}}
  <2>1. ASSUME NEW p \in Sensors \X Regs, p # o
        PROVE  Will(Tail(q), st, p[1], p[2]) <=> Will(q, st, p[1], p[2])
    <3>1. ~(p[1] = o[1] /\ p[2] = o[2])
      BY <2>1, SMT
    <3>2. Head(q) # Start(p[1], p[2]) /\ Head(q) # Stop(p[1], p[2])
      BY <1>3, <3>1, SMT DEF Start, Stop
    <3> QED BY <1>1, <2>1, <3>2, Zenon
  <2>2. o = <<o[1], o[2]>> /\ o[1] \in Sensors /\ o[2] \in Regs
    BY SMT
  <2>3. CASE Will(Tail(q), st, o[1], o[2])
    <3>1. Wills(Tail(q), st) = Wills(q, st) \cup {o}
      BY <2>1, <2>3, Zenon DEF Wills
    <3> QED BY <2>2, <3>1, Zenon
  <2>4. CASE ~Will(Tail(q), st, o[1], o[2])
    <3>1. Wills(Tail(q), st) = Wills(q, st) \ {o}
      BY <2>1, <2>4, Zenon DEF Wills
    <3> QED BY <2>2, <3>1, Zenon
  <2> QED BY <2>3, <2>4, Zenon
<1> QED BY <1>2, <1>3, Zenon
-----------------------------------------------------------------------------
(* From here on the state of Observation is looked at as a whole: what a   *)
(* change of one registration comes to.                                    *)
LEMMA SameSeen ==
    ASSUME \A r \in Regs : reg'[r].owner = reg[r].owner /\ reg'[r].invalid = reg[r].invalid
    PROVE  Owners' = Owners /\ ValidRegs' = ValidRegs
<1>1. Owners' = Owners
  BY Zenon DEF Owners
<1>2. ValidRegs' = ValidRegs
  BY Zenon DEF ValidRegs, Alive
<1> QED BY <1>1, <1>2, Zenon

LEMMA SeenAt == \A r \in Regs : Owners[r] = reg[r].owner /\ Owners'[r] = reg'[r].owner
  BY Zenon DEF Owners

LEMMA OneSeen ==
    ASSUME NEW q \in Regs, \A r \in Regs : r # q => reg'[r] = reg[r]
    PROVE  /\ Owners' = [Owners EXCEPT ![q] = reg'[q].owner]
           /\ (q \in ValidRegs' <=> q \in ValidRegs) => ValidRegs' = ValidRegs
           /\ q \notin ValidRegs' => ValidRegs' = ValidRegs \ {q}
           /\ q \in ValidRegs' => ValidRegs' = ValidRegs \cup {q}
           /\ q \in ValidRegs' <=> reg'[q].owner # NoOwner /\ ~reg'[q].invalid
           /\ q \in ValidRegs <=> reg[q].owner # NoOwner /\ ~reg[q].invalid
<1>1. Owners' = [Owners EXCEPT ![q] = reg'[q].owner]
  BY Zenon DEF Owners
<1>2. /\ \A r \in Regs : r # q => (r \in ValidRegs' <=> r \in ValidRegs)
      /\ ValidRegs' \subseteq Regs /\ ValidRegs \subseteq Regs
  BY Zenon DEF ValidRegs, Alive
<1>3. /\ q \in ValidRegs' <=> reg'[q].owner # NoOwner /\ ~reg'[q].invalid
      /\ q \in ValidRegs <=> reg[q].owner # NoOwner /\ ~reg[q].invalid
  BY Zenon DEF ValidRegs, Alive
<1>4. ValidRegs \in SUBSET Regs /\ ValidRegs' \in SUBSET Regs
  BY <1>2, Zenon
<1>5. /\ (q \in ValidRegs' <=> q \in ValidRegs) => ValidRegs' = ValidRegs
      /\ q \notin ValidRegs' => ValidRegs' = ValidRegs \ {q}
      /\ q \in ValidRegs' => ValidRegs' = ValidRegs \cup {q}
  <2> DEFINE V == ValidRegs
             W == ValidRegs'
  <2>1. V \in SUBSET Regs /\ W \in SUBSET Regs /\ \A r \in Regs : r # q => (r \in W <=> r \in V)
    BY <1>2, <1>4, Zenon
  <2> HIDE DEF V, W
  <2>2. /\ (q \in W <=> q \in V) => W = V
        /\ q \notin W => W = V \ {q}
        /\ q \in W => W = V \cup {q}
    BY <2>1, SMT
  <2> QED BY <2>2, Zenon DEF V, W
<1> QED BY <1>1, <1>3, <1>5, Zenon

LEMMA StreamsStand ==
    ASSUME Pending' = Pending, UNCHANGED streams
    PROVE  Streamed' = Streamed
  BY StreamedNow, Zenon

(* A step that shows a client nothing. *)
LEMMA NothingSeen ==
    ASSUME Owners' = Owners, ValidRegs' = ValidRegs, Streamed' = Streamed,
           UNCHANGED <<trans, async>>
    PROVE  [Observed!Next]_(Observed!vars)
  BY Zenon DEF Observed!vars

(* A reference that comes back frees its registration, if it is the last:  *)
(* then that is no longer valid, and nothing is left of it.                *)
LEMMA ReleaseSeen ==
    ASSUME TypeOK, ValidHeld, NothingLeft', NEW q \in Regs, Alive(q), Back(q) > 0,
           NEW y \in Registration, y.owner = reg[q].owner, y.ref = reg[q].ref,
           reg' = [reg EXCEPT ![q] = Released(y)]
    PROVE  /\ Observed!MayForget(q)
           /\ y.invalid = reg[q].invalid => ValidRegs' = ValidRegs
           /\ y.invalid => ValidRegs' = ValidRegs \ {q}
<1>1. reg'[q] = Released(y) /\ \A r \in Regs : r # q => reg'[r] = reg[r]
  BY Zenon DEF TypeOK, CoapTypeOK
<1>2. /\ Owners' = [Owners EXCEPT ![q] = Released(y).owner]
      /\ (q \in ValidRegs' <=> q \in ValidRegs) => ValidRegs' = ValidRegs
      /\ q \notin ValidRegs' => ValidRegs' = ValidRegs \ {q}
      /\ q \in ValidRegs' <=> Released(y).owner # NoOwner /\ ~Released(y).invalid
      /\ q \in ValidRegs <=> reg[q].owner # NoOwner /\ ~reg[q].invalid
      /\ Owners[q] = reg[q].owner
  BY <1>1, OneSeen, SeenAt, Zenon
<1>3. CASE Released(y) = Free /\ y.ref = 1
  <2>1. q \notin ValidRegs
    <3>1. ~(Back(q) < 1)
      BY PlacesNat, SMTT(60) DEF Back
    <3> QED BY <1>3, <3>1, Zenon DEF ValidHeld
  <2>2. q \notin ValidRegs'
    BY <1>2, <1>3, FreeFields, Zenon
  <2>3. ValidRegs' = ValidRegs /\ ValidRegs' = ValidRegs \ {q}
    BY <1>2, <2>1, <2>2, Zenon
  <2>4. trans'[q] = 0 /\ \A s \in Sensors : <<s, q>> \notin Streamed'
    <3>1. ~Alive(q)'
      BY <1>1, <1>3, FreeFields, Zenon DEF Alive
    <3>2. trans'[q] = 0 /\ ~Named(q)'
      BY <3>1, Zenon DEF NothingLeft
    <3>3. ASSUME NEW s \in Sensors PROVE <<s, q>> \notin Streamed'
      <4>1. ~Begins(Pending', s, q) /\ ~(q \in streams'[s])
        BY <3>2, Zenon DEF Named, StartIn, Begins
      <4>2. ~Will(Pending', streams', s, q)
        BY <4>1, Zenon DEF Will
      <4>3. <<s, q>>[1] = s /\ <<s, q>>[2] = q
        BY SMT
      <4>4. <<s, q>> \notin Wills(Pending', streams')
        BY <4>2, <4>3, Zenon DEF Wills
      <4> QED BY <4>4, StreamedNow, Zenon
    <3> QED BY <3>2, <3>3, Zenon
  <2>5. Owners' = [Owners EXCEPT ![q] = NoOwner] /\ Owners[q] # NoOwner
    BY <1>2, <1>3, FreeFields, Zenon DEF Alive
  <2>6. Observed!MayForget(q)
    BY <2>2, <2>4, <2>5, Zenon DEF Observed!MayForget, Observed!Forget
  <2> QED BY <2>3, <2>6, Zenon
<1>4. CASE Released(y).owner = y.owner /\ Released(y).invalid = y.invalid
  <2>1. Owners' = Owners
    <3>1. \A r \in Regs : reg'[r].owner = reg[r].owner
      BY <1>1, <1>4, Zenon
    <3> QED BY <3>1, Zenon DEF Owners
  <2>2. Observed!MayForget(q)
    BY <2>1, Zenon DEF Observed!MayForget
  <2>3. y.invalid = reg[q].invalid => ValidRegs' = ValidRegs
    BY <1>2, <1>4, Zenon
  <2>4. y.invalid => ValidRegs' = ValidRegs \ {q}
    BY <1>2, <1>4, Zenon
  <2> QED BY <2>2, <2>3, <2>4, Zenon
<1> QED BY <1>3, <1>4, ReleaseOps, Zenon

(* The end of a transaction, with an acknowledgement or given up.          *)
LEMMA ConcludeSeen ==
    ASSUME TypeOK, ValidHeld, NothingLeft', NEW q \in Regs, Alive(q),
           trans[q] > 0, trans' = [trans EXCEPT ![q] = @ - 1], UNCHANGED async,
           NEW y \in Registration, y.owner = reg[q].owner, y.ref = reg[q].ref,
           reg' = [reg EXCEPT ![q] = Released(y)],
           \/ y.invalid = reg[q].invalid /\ Streamed' = Streamed
           \/ y.invalid /\ Streamed' = Streamed \ {<<reg[q].owner[2], q>>}
    PROVE  Observed!Conclude(q)
<1>1. Back(q) > 0
  BY PlacesNat, SMTT(60) DEF Back
<1>2. /\ Observed!MayForget(q)
      /\ y.invalid = reg[q].invalid => ValidRegs' = ValidRegs
      /\ y.invalid => ValidRegs' = ValidRegs \ {q}
  BY <1>1, ReleaseSeen, Zenon
<1>3. Owners[q] = reg[q].owner
  BY SeenAt, Zenon
<1>4. UNCHANGED <<ValidRegs, Streamed>> \/ Observed!Cancel(q)
  BY <1>2, <1>3, Zenon DEF Observed!Cancel, Observed!StreamOf
<1> QED BY <1>2, <1>4, Zenon DEF Observed!Conclude
-----------------------------------------------------------------------------
(* Each of the CoAP thread's actions, as a client sees it.                 *)
LEMMA PendingTyped == TypeOK => Pending \in Seq(Request)
<1> SUFFICES ASSUME TypeOK PROVE Pending \in Seq(Request)
  OBVIOUS
<1>1. reqbuf \in Seq(Request) /\ todo \in Seq(Request)
  BY Zenon DEF TypeOK, CoapTypeOK
<1> QED BY <1>1, PendingParts, Zenon DEF Pending

LEMMA GiveUpSeen ==
    ASSUME TicketInv, ValidHeld, NothingLeft', UNCHANGED streams, NEW q \in Regs, GiveUp(q)
    PROVE  Observed!Conclude(q)
<1>1. /\ TypeOK /\ Pending \in Seq(Request) /\ Alive(q) /\ reg[q] \in Registration
      /\ trans[q] > 0 /\ trans' = [trans EXCEPT ![q] = @ - 1] /\ UNCHANGED async
  BY PendingTyped, InvTransAlive, GiveUpPuts, Zenon DEF TicketInv, TransAlive, TypeOK, CoapTypeOK
<1> DEFINE x == Failed(reg[q])
<1>2. /\ x \in Registration /\ x.owner = reg[q].owner /\ x.ref = reg[q].ref
      /\ x.invalid = reg[q].invalid
  BY <1>1, RefOps, InvalidOps, RegistrationOps, Zenon
<1> HIDE DEF x
<1>3. CASE reg' = [reg EXCEPT ![q] = Released(x)] /\ Pending' = Pending
  <2>1. Streamed' = Streamed
    BY <1>3, StreamsStand, Zenon
  <2> QED BY <1>1, <1>2, <1>3, <2>1, ConcludeSeen, Zenon
<1>4. CASE /\ reg' = [reg EXCEPT ![q] = Released(Invalidated(x))]
           /\ Stop(reg[q].owner[2], q) \in Request
           /\ Pending' = Append(Pending, Stop(reg[q].owner[2], q))
  <2>1. reg[q].owner[2] \in Sensors
    BY <1>1, OwnerSensor, Zenon DEF Alive
  <2>2. Streamed' = Streamed \ {<<reg[q].owner[2], q>>}
    BY <1>1, <1>4, <2>1, StreamedNow, StopPut, Zenon
  <2> DEFINE y == Invalidated(x)
  <2>3. y \in Registration /\ y.owner = reg[q].owner /\ y.ref = reg[q].ref /\ y.invalid
    BY <1>2, RefOps, InvalidOps, RegistrationOps, Zenon
  <2>4. reg' = [reg EXCEPT ![q] = Released(y)]
    BY <1>4
  <2> HIDE DEF y
  <2> QED BY <1>1, <2>2, <2>3, <2>4, ConcludeSeen, Zenon
<1> QED BY <1>3, <1>4, GiveUpPuts, Zenon DEF x

LEMMA AcknowledgedSeen ==
    ASSUME TicketInv, ValidHeld, NothingLeft', UNCHANGED streams, UNCHANGED reqbuf,
           NEW q \in Regs, Acknowledged(q)
    PROVE  Observed!Conclude(q)
<1>1. /\ TypeOK /\ Alive(q) /\ reg[q] \in Registration
      /\ trans[q] > 0 /\ trans' = [trans EXCEPT ![q] = @ - 1]
      /\ UNCHANGED async /\ UNCHANGED todo
  BY InvTransAlive, Zenon DEF TicketInv, TransAlive, TypeOK, CoapTypeOK, Acknowledged
<1>2. PICK b \in BOOLEAN : reg' = [reg EXCEPT ![q] = Released(Confirmed(@, b))]
  BY Zenon DEF Acknowledged
<1> DEFINE y == Confirmed(reg[q], b)
<1>3. /\ y \in Registration /\ y.owner = reg[q].owner /\ y.ref = reg[q].ref
      /\ y.invalid = reg[q].invalid
  BY <1>1, RefOps, InvalidOps, RegistrationOps, Zenon
<1>4. reg' = [reg EXCEPT ![q] = Released(y)]
  BY <1>2
<1>5. Streamed' = Streamed
  <2>1. Pending' = Pending
    BY <1>1, Zenon DEF Pending
  <2> QED BY <2>1, StreamsStand, Zenon
<1> HIDE DEF y
<1> QED BY <1>1, <1>3, <1>4, <1>5, ConcludeSeen, Zenon

(* What a client's registration is, there and here. *)
LEMMA MineIsValid ==
    ASSUME NEW c \in Clients, NEW s \in Sensors
    PROVE  /\ Observed!Mine(c, s) = Valid(c, s)
           /\ Valid(c, s) = {} =>
                 Observed!Found(c, s) = IF FindsInvalid THEN Owned(c, s) ELSE {}
           /\ Valid(c, s) # {} => Observed!Found(c, s) = Valid(c, s)
<1>1. <<c, s>> # NoOwner
  <2>1. <<c, s>> \in Clients \X Sensors
    BY SMT
  <2> QED BY <2>1, CoapAssumption, Zenon
<1>2. ASSUME NEW r
      PROVE  r \in Observed!Mine(c, s) <=> r \in Valid(c, s)
  BY <1>1, SeenAt, Zenon DEF Observed!Mine, Valid, Owned, ValidRegs, Alive
<1>3. Observed!Mine(c, s) = Valid(c, s)
  BY <1>2
<1>4. ASSUME Valid(c, s) = {}
      PROVE  Observed!Found(c, s) = IF FindsInvalid THEN Owned(c, s) ELSE {}
  <2>1. Observed!Found(c, s) = {r \in Regs : FindsInvalid /\ Owners[r] = <<c, s>>}
    BY <1>3, <1>4, Zenon DEF Observed!Found
  <2> QED BY <2>1, SeenAt, Zenon DEF Owned
<1>5. Valid(c, s) # {} => Observed!Found(c, s) = Valid(c, s)
  BY <1>3, Zenon DEF Observed!Found
<1> QED BY <1>3, <1>4, <1>5, Zenon

LEMMA ObserveSeen ==
    ASSUME TicketInv, UNCHANGED streams, NEW c \in Clients, NEW s \in Sensors,
           ObserveGet(c, s), todo = <<>>, UNCHANGED reqbuf
    PROVE  \E q \in Regs : Observed!Observe(c, s, q)
<1>1. PICK q \in AddRegistration(c, s) :
          /\ q \in Regs /\ Start(s, q) \in Request
          /\ reg' = [reg EXCEPT ![q] =
                        CheckedOut(IF Alive(q) THEN @ ELSE [Free EXCEPT !.owner = <<c, s>>])]
          /\ Pending' = Append(Pending, Start(s, q))
          /\ UNCHANGED <<trans, async>>
  BY ObservePuts, Zenon
<1>2. TypeOK /\ Pending \in Seq(Request)
  BY PendingTyped, Zenon DEF TicketInv
<1>3. Streamed' = Streamed \cup {<<s, q>>}
  BY <1>1, <1>2, StreamedNow, StartPut, Zenon
<1>4. /\ reg'[q].owner = <<c, s>> /\ <<c, s>> # NoOwner
      /\ Alive(q) => reg[q].owner = <<c, s>> /\ reg'[q].invalid = reg[q].invalid
      /\ ~Alive(q) => ~reg'[q].invalid
      /\ \A r \in Regs : r # q => reg'[r] = reg[r]
  BY <1>1, <1>2, ObservedOwner, Zenon
<1>5. CASE Alive(q)
  <2>1. \A r \in Regs : reg'[r].owner = reg[r].owner /\ reg'[r].invalid = reg[r].invalid
    BY <1>4, <1>5, Zenon
  <2>2. UNCHANGED <<Owners, ValidRegs>>
    BY <2>1, SameSeen, Zenon
  <2>3. Owners[q] = <<c, s>>
    BY <1>1, <1>4, <1>5, SeenAt, Zenon
  <2>4. q \in Observed!Found(c, s)
    <3>1. CASE Valid(c, s) # {}
      BY <1>1, <3>1, MineIsValid, Zenon DEF AddRegistration
    <3>2. CASE Valid(c, s) = {}
      BY <1>1, <1>5, <3>2, MineIsValid, Zenon DEF AddRegistration
    <3> QED BY <3>1, <3>2, Zenon
  <2> QED BY <1>1, <1>3, <2>2, <2>3, <2>4, Zenon DEF Observed!Observe
<1>6. CASE ~Alive(q)
  <2>1. Valid(c, s) = {}
    BY <1>1, <1>4, <1>6, Zenon DEF AddRegistration, Valid, Owned, Alive
  <2>2. Observed!Mine(c, s) = {} /\ Owners[q] = NoOwner
    BY <1>1, <1>6, <2>1, MineIsValid, SeenAt, Zenon DEF Alive
  <2>3. Owners' = [Owners EXCEPT ![q] = <<c, s>>] /\ ValidRegs' = ValidRegs \cup {q}
    BY <1>1, <1>4, <1>6, OneSeen, Zenon
  <2> QED BY <1>1, <1>3, <2>2, <2>3, Zenon DEF Observed!Observe
<1> QED BY <1>5, <1>6, Zenon

LEMMA PlainGetSeen ==
    ASSUME TicketInv, UNCHANGED streams, NEW c \in Clients, NEW s \in Sensors, NEW t \in Tids,
           PlainGet(c, s, t), todo = <<>>, UNCHANGED reqbuf
    PROVE  Observed!Ask(c, s, t)
<1> DEFINE u == Append(Pending, Oneshot(s, t))
<1>1. /\ t \notin async /\ async' = async \cup {t} /\ UNCHANGED trans
      /\ Pending \in Seq(Request) /\ Oneshot(s, t) \in Request /\ u \in Seq(Request)
  BY PlainGetPuts, Zenon
<1>2. PICK q \in FindRegistration(c, s) :
          \/ q = NoReg /\ UNCHANGED reg /\ Pending' = u
          \/ /\ q \in Regs /\ Stop(s, q) \in Request
             /\ reg' = [reg EXCEPT ![q] = Invalidated(@)]
             /\ Pending' = Append(u, Stop(s, q))
  BY PlainGetPuts, Zenon
<1>3. Wills(u, streams) = Streamed
  <2>1. Wills(u, streams) = Wills(Pending, streams)
    BY <1>1, OneshotPut, SMT
  <2> QED BY <2>1, StreamedNow, Zenon
<1> HIDE DEF u
<1>4. CASE q = NoReg /\ UNCHANGED reg /\ Pending' = u
  <2>1. Valid(c, s) = {}
    BY <1>2, <1>4, CoapAssumption, Zenon DEF FindRegistration, Valid, Owned
  <2>2. Observed!Mine(c, s) = {}
    BY <2>1, MineIsValid, Zenon
  <2>3. Streamed' = Streamed
    BY <1>3, <1>4, StreamedNow, Zenon
  <2>4. Owners' = Owners /\ ValidRegs' = ValidRegs
    BY <1>4, SameSeen, Zenon
  <2> QED BY <1>1, <2>2, <2>3, <2>4, Zenon DEF Observed!Ask
<1>5. CASE /\ q \in Regs /\ Stop(s, q) \in Request
           /\ reg' = [reg EXCEPT ![q] = Invalidated(@)]
           /\ Pending' = Append(u, Stop(s, q))
  <2>1. Streamed' = Streamed \ {<<s, q>>}
    BY <1>1, <1>3, <1>5, StopPut, Zenon
  <2>2. q \in Observed!Found(c, s) /\ reg[q].owner = <<c, s>>
    <3>1. q # NoReg
      BY <1>5, CoapAssumption, Zenon
    <3>2. CASE Valid(c, s) # {}
      BY <1>2, <3>2, MineIsValid, Zenon DEF FindRegistration, Valid, Owned
    <3>3. CASE Valid(c, s) = {}
      BY <1>2, <3>1, <3>3, MineIsValid, Zenon DEF FindRegistration, Owned
    <3> QED BY <3>2, <3>3, Zenon
  <2>3. /\ reg'[q].owner = reg[q].owner /\ reg'[q].invalid
        /\ \A r \in Regs : r # q => reg'[r] = reg[r]
    <3>1. reg \in [Regs -> Registration]
      BY Zenon DEF TicketInv, TypeOK, CoapTypeOK
    <3> QED BY <1>5, <3>1, RefOps, InvalidOps, Zenon
  <2>4. ValidRegs' = ValidRegs \ {q}
    BY <1>5, <2>3, OneSeen, Zenon
  <2>5. Owners' = Owners
    BY <2>3, Zenon DEF Owners
  <2>6. Observed!StreamOf(q) = <<s, q>>
    <3>1. Owners[q] = <<c, s>>
      BY <1>5, <2>2, SeenAt, Zenon
    <3> QED BY <3>1, SMT DEF Observed!StreamOf
  <2>7. Observed!Cancel(q)
    BY <2>1, <2>4, <2>6, Zenon DEF Observed!Cancel
  <2> QED BY <1>1, <2>2, <2>5, <2>7, Zenon DEF Observed!Ask
<1> QED BY <1>2, <1>4, <1>5, Zenon

(* A response that the CoAP thread handles. *)
LEMMA ServeStoppedSeen ==
    ASSUME TicketInv, ValidHeld, NothingLeft', Streamed' = Streamed, NEW q \in Regs,
           Count(resbuf, "STREAM_STOPPED", q) > 0, ServeStopped(q)
    PROVE  [Observed!Next]_(Observed!vars)
<1>1. /\ TypeOK /\ Alive(q) /\ reg[q] \in Registration
      /\ reg' = [reg EXCEPT ![q] = Released(reg[q])] /\ UNCHANGED <<trans, async>>
  BY GivenAwayAlive, Zenon DEF TicketInv, TypeOK, CoapTypeOK, ServeStopped
<1>2. Back(q) > 0
  BY <1>1, PlacesNat, SMTT(60) DEF Back
<1>3. Observed!MayForget(q) /\ ValidRegs' = ValidRegs
  BY <1>1, <1>2, ReleaseSeen, Zenon
<1>4. CASE Owners' = Owners
  BY <1>1, <1>3, <1>4, NothingSeen, Zenon
<1>5. CASE Observed!Forget(q)
  <2>1. Observed!Settle(q)
    BY <1>1, <1>3, <1>5, Zenon DEF Observed!Settle
  <2> QED BY <2>1, Zenon DEF Observed!Next
<1> QED BY <1>3, <1>4, <1>5, Zenon DEF Observed!MayForget

LEMMA ServeUpdateSeen ==
    ASSUME TicketInv, Streamed' = Streamed, NEW q \in Regs, Alive(q), ServeUpdate(q)
    PROVE  [Observed!Next]_(Observed!vars)
<1>1. reg \in [Regs -> Registration] /\ UNCHANGED async
  BY Zenon DEF TicketInv, TypeOK, CoapTypeOK, ServeUpdate
<1>2. CASE UNCHANGED <<reg, trans>>
  <2>1. Owners' = Owners /\ ValidRegs' = ValidRegs
    BY <1>2, SameSeen, Zenon
  <2> QED BY <1>1, <1>2, <2>1, NothingSeen, Zenon
<1>3. CASE reg' = [reg EXCEPT ![q] = CheckedOut(@)] /\ trans' = [trans EXCEPT ![q] = @ + 1]
  <2>1. \A r \in Regs : reg'[r] = reg[r] \/ reg'[r] = CheckedOut(reg[r])
    BY <1>1, <1>3, Zenon
  <2>2. \A r \in Regs : reg'[r].owner = reg[r].owner /\ reg'[r].invalid = reg[r].invalid
    BY <1>1, <2>1, RefOps, InvalidOps, Zenon
  <2>3. UNCHANGED <<Owners, ValidRegs>> /\ Owners[q] # NoOwner
    BY <2>2, SameSeen, SeenAt, Zenon DEF Alive
  <2>4. Observed!Notify(q)
    BY <1>1, <1>3, <2>3, Zenon DEF Observed!Notify
  <2> QED BY <2>4, Zenon DEF Observed!Next
<1> QED BY <1>2, <1>3, Zenon DEF ServeUpdate

LEMMA ServeSeen ==
    ASSUME TicketInv, ValidHeld, NothingLeft', UNCHANGED streams, Serve
    PROVE  [Observed!Next]_(Observed!vars)
<1>1. resbuf \in Seq(Response) /\ Streamed' = Streamed
  <2>1. Pending' = Pending
    BY OthersPut, Zenon
  <2> QED BY <2>1, StreamsStand, Zenon DEF TicketInv, TypeOK
<1>2. CASE UNCHANGED <<reg, trans, async>>
  <2>1. Owners' = Owners /\ ValidRegs' = ValidRegs
    BY <1>2, SameSeen, Zenon
  <2> QED BY <1>1, <1>2, <2>1, NothingSeen, Zenon
<1>3. CASE resbuf # <<>>
  <2> DEFINE m == Head(resbuf)
  <2>1. m \in Response /\ 1 \in DOMAIN resbuf /\ resbuf[1] = m
    BY <1>1, <1>3, HeadTailProperties, SMT
  <2>2. \/ m.rtype = "STREAM_STOPPED" /\ ServeStopped(m.ticket)
        \/ m.rtype = "ONESHOT" /\ ServeOneshot(m.ticket)
        \/ m.rtype = "STREAM_UPDATE" /\ ServeUpdate(m.ticket)
    BY <1>3, Zenon DEF Serve
  <2> HIDE DEF m
  <2>3. CASE m.rtype = "STREAM_STOPPED" /\ ServeStopped(m.ticket)
    <3>1. m.ticket \in Regs
      BY <2>1, <2>3, ResponseFields, Zenon
    <3>2. Count(resbuf, resbuf[1].rtype, resbuf[1].ticket) > 0
      BY <1>1, <2>1, Counted, Zenon
    <3>3. Count(resbuf, "STREAM_STOPPED", m.ticket) > 0
      BY <2>1, <2>3, <3>2, Zenon
    <3> QED BY <1>1, <2>3, <3>1, <3>3, ServeStoppedSeen, Zenon
  <2>4. CASE m.rtype = "ONESHOT" /\ ServeOneshot(m.ticket)
    <3>1. m.ticket \in Tids
      BY <2>1, <2>4, ResponseFields, Zenon
    <3>2. async' = async \ {m.ticket} /\ UNCHANGED <<reg, trans>>
      BY <2>4, Zenon DEF ServeOneshot
    <3>3. Owners' = Owners /\ ValidRegs' = ValidRegs
      BY <3>2, SameSeen, Zenon
    <3>4. CASE m.ticket \in async
      <4>1. Observed!Reply(m.ticket)
        BY <1>1, <3>2, <3>3, <3>4, Zenon DEF Observed!Reply
      <4> QED BY <3>1, <4>1, Zenon DEF Observed!Next
    <3>5. CASE m.ticket \notin async
      <4>1. async' = async
        BY <3>2, <3>5
      <4> QED BY <1>2, <3>2, <4>1, Zenon
    <3> QED BY <3>4, <3>5, Zenon
  <2>5. CASE m.rtype = "STREAM_UPDATE" /\ ServeUpdate(m.ticket)
    <3>1. m.ticket \in Regs /\ m = Updated(m.ticket)
      BY <2>1, <2>5, ResponseFields, Zenon
    <3>2. Alive(m.ticket)
      BY <2>1, <3>1, UpdateAlive, Zenon
    <3> QED BY <1>1, <2>5, <3>1, <3>2, ServeUpdateSeen, Zenon
  <2> QED BY <2>2, <2>3, <2>4, <2>5, Zenon
<1> QED BY <1>2, <1>3, Zenon DEF Serve

LEMMA CoapSeen ==
    ASSUME TicketInv, ValidHeld, NothingLeft', Coap
    PROVE  [Observed!Next]_(Observed!vars)
<1>1. CoapNext /\ UNCHANGED streams
  BY Zenon DEF Coap, smVars
<1>2. CASE Pending' = Pending /\ UNCHANGED <<reg, trans, async>>
  <2>1. Owners' = Owners /\ ValidRegs' = ValidRegs
    BY <1>2, SameSeen, Zenon
  <2>2. Streamed' = Streamed
    BY <1>1, <1>2, StreamsStand, Zenon
  <2> QED BY <1>2, <2>1, <2>2, NothingSeen, Zenon
<1>3. CASE Retransmitted \/ PutRequest
  BY <1>2, <1>3, OthersPut, Zenon DEF Retransmitted, PutRequest
<1>4. ASSUME NEW q \in Regs, Observed!Conclude(q) PROVE [Observed!Next]_(Observed!vars)
  BY <1>4, Zenon DEF Observed!Next
<1>5. ASSUME NEW q \in Regs, GiveUp(q) PROVE [Observed!Next]_(Observed!vars)
  BY <1>1, <1>4, <1>5, GiveUpSeen, Zenon
<1>6. CASE Network
  <2>1. UNCHANGED <<reqbuf, resbuf>> /\ todo = <<>>
    BY <1>6, Zenon DEF Network
  <2>2. ASSUME NEW c \in Clients, NEW s \in Sensors, ObserveGet(c, s)
        PROVE  [Observed!Next]_(Observed!vars)
    BY <1>1, <2>1, <2>2, ObserveSeen, Zenon DEF Observed!Next
  <2>3. ASSUME NEW c \in Clients, NEW s \in Sensors, NEW t \in Tids, PlainGet(c, s, t)
        PROVE  [Observed!Next]_(Observed!vars)
    BY <1>1, <2>1, <2>3, PlainGetSeen, Zenon DEF Observed!Next
  <2>4. ASSUME NEW q \in Regs, Acknowledged(q) PROVE [Observed!Next]_(Observed!vars)
    BY <1>1, <1>4, <2>1, <2>4, AcknowledgedSeen, Zenon
  <2>5. CASE UNCHANGED <<reg, trans, async, todo>>
    BY <1>2, <2>1, <2>5, OthersPut, Zenon
  <2> QED BY <1>6, <2>2, <2>3, <2>4, <2>5, Zenon DEF Network
<1> QED BY <1>1, <1>3, <1>5, <1>6, ServeSeen, Zenon DEF CoapNext
-----------------------------------------------------------------------------
(* What the Streaming Manager does with a request shows a client nothing,  *)
(* unless the request is lost.                                             *)
LEMMA HandleRequestSeen ==
    ASSUME TypeOK, Takes(HandleRequest)
    PROVE  Streamed' = Streamed
<1> DEFINE m == Head(reqbuf)
<1>1. /\ UNCHANGED todo /\ reqbuf # <<>> /\ reqbuf' = Tail(reqbuf)
      /\ streams \in [Sensors -> SUBSET Regs]
      /\ \/ m.rtype = "START" /\ StartStream(m.sensor, m.ticket)
         \/ m.rtype = "STOP" /\ StopStream(m.sensor, m.ticket)
         \/ m.rtype = "ONESHOT" /\ TakeOneshot(m.sensor, m.ticket)
  BY Zenon DEF Takes, coapVars, TypeOK, SmTypeOK, HandleRequest
<1>2. /\ Pending \in Seq(Request) /\ Pending # <<>> /\ Pending' = Tail(Pending)
      /\ Head(Pending) = m /\ m \in Request
  BY <1>1, Taken, Zenon
<1> HIDE DEF m
<1>3. ASSUME NEW s \in Sensors, NEW r \in Regs
      PROVE  r \in streams'[s] <=> m = Start(s, r) \/ (r \in streams[s] /\ m # Stop(s, r))
  <2>1. CASE m.rtype = "START" /\ StartStream(m.sensor, m.ticket)
    <3>1. m = Start(m.sensor, m.ticket)
      BY <1>2, <2>1, RequestFields, Zenon
    <3>2. m # Stop(s, r) /\ (m = Start(s, r) <=> s = m.sensor /\ r = m.ticket)
      BY <3>1, SMT DEF Start, Stop
    <3>3. r \in streams'[s] <=> r \in streams[s] \/ (s = m.sensor /\ r = m.ticket)
      BY <1>1, <2>1, Zenon DEF StartStream
    <3> QED BY <3>2, <3>3
  <2>2. CASE m.rtype = "STOP" /\ StopStream(m.sensor, m.ticket)
    <3>1. m = Stop(m.sensor, m.ticket)
      BY <1>2, <2>2, RequestFields, Zenon
    <3>2. m # Start(s, r) /\ (m = Stop(s, r) <=> s = m.sensor /\ r = m.ticket)
      BY <3>1, SMT DEF Start, Stop
    <3>3. r \in streams'[s] <=> r \in streams[s] /\ ~(s = m.sensor /\ r = m.ticket)
      BY <1>1, <2>2, Zenon DEF StopStream
    <3> QED BY <3>2, <3>3
  <2>3. CASE m.rtype = "ONESHOT" /\ TakeOneshot(m.sensor, m.ticket)
    <3>1. m # Start(s, r) /\ m # Stop(s, r)
      BY <2>3, SMT DEF Start, Stop
    <3> QED BY <2>3, <3>1, Zenon DEF TakeOneshot
  <2> QED BY <1>1, <2>1, <2>2, <2>3, Zenon
<1>4. Wills(Tail(Pending), streams') = Wills(Pending, streams)
  BY <1>2, <1>3, WillHandled, Zenon
<1> QED BY <1>2, <1>4, StreamedNow, Zenon

LEMMA DeferSeen ==
    ASSUME TypeOK, OwnSensor, OwnSensor', Takes(Defer),
           Owners' = Owners, ValidRegs' = ValidRegs, UNCHANGED <<trans, async>>
    PROVE  [Observed!Next]_(Observed!vars)
<1>1. /\ UNCHANGED todo /\ reqbuf # <<>> /\ reqbuf' = Tail(reqbuf)
      /\ UNCHANGED streams /\ UNCHANGED reg /\ MayTimeOut
  BY Zenon DEF Takes, coapVars, Defer
<1>2. Pending \in Seq(Request) /\ Pending # <<>> /\ Pending' = Tail(Pending)
  BY <1>1, Taken, Zenon
<1>3. Streamed = Wills(Pending, streams) /\ Streamed' = Wills(Tail(Pending), streams)
  BY <1>1, <1>2, StreamedNow, Zenon
<1>4. CASE Streamed' = Streamed
  BY <1>4, NothingSeen, Zenon
<1>5. ASSUME NEW s \in Sensors, NEW r \in Regs, Streamed' # Streamed,
             Streamed' \in {Streamed \cup {<<s, r>>}, Streamed \ {<<s, r>>}}
      PROVE  [Observed!Next]_(Observed!vars)
  <2>1. <<s, r>> \in Streamed \/ <<s, r>> \in Streamed'
    BY <1>5, Zenon
  <2>2. <<s, r>>[1] = s /\ <<s, r>>[2] = r
    BY SMT
  <2>3. \/ r \in streams[s] \/ StartIn(Pending, s, r)
        \/ r \in streams'[s] \/ StartIn(Pending', s, r)
    BY <2>1, <2>2, Zenon DEF Streamed, WillStream, Begins, StartIn
  <2>4. Alive(r) /\ reg[r].owner[2] = s
    <3>1. CASE r \in streams[s] \/ StartIn(Pending, s, r)
      BY <3>1, Zenon DEF OwnSensor
    <3>2. CASE r \in streams'[s] \/ StartIn(Pending', s, r)
      BY <1>1, <3>2, Zenon DEF OwnSensor, Alive
    <3> QED BY <2>3, <3>1, <3>2, Zenon
  <2>5. Owners[r] # NoOwner /\ Observed!StreamOf(r) = <<s, r>>
    BY <2>4, SeenAt, Zenon DEF Observed!StreamOf, Alive
  <2>6. Observed!Lose(r)
    BY <1>1, <1>5, <2>5, Zenon DEF Observed!Lose
  <2> QED BY <2>6, Zenon DEF Observed!Next
<1>6. \/ Streamed' = Streamed
      \/ \E s \in Sensors, r \in Regs :
            Streamed' \in {Streamed \cup {<<s, r>>}, Streamed \ {<<s, r>>}}
  BY <1>2, <1>3, WillLost, Zenon
<1> QED BY <1>4, <1>5, <1>6, Zenon

LEMMA StepSeen ==
    ASSUME TicketInv, ValidHeld, NothingLeft', OwnSensor, OwnSensor', [Next]_vars
    PROVE  [Observed!Next]_(Observed!vars)
<1>1. ASSUME UNCHANGED coapVars
      PROVE  Owners' = Owners /\ ValidRegs' = ValidRegs /\ UNCHANGED <<trans, async>>
  <2>1. UNCHANGED reg /\ UNCHANGED <<trans, async>>
    BY <1>1, Zenon DEF coapVars
  <2> QED BY <2>1, SameSeen, Zenon
<1>2. CASE Takes(HandleRequest)
  BY <1>1, <1>2, HandleRequestSeen, NothingSeen, Zenon DEF Takes, TicketInv
<1>3. CASE Takes(Defer)
  BY <1>1, <1>3, DeferSeen, Zenon DEF Takes, TicketInv
<1>4. CASE Quiet
  <2>1. Pending' = Pending /\ UNCHANGED streams /\ UNCHANGED coapVars
    BY <1>4, Zenon DEF Quiet, coapVars, Pending
  <2> QED BY <1>1, <2>1, StreamsStand, NothingSeen, Zenon
<1> QED BY <1>2, <1>3, <1>4, StepKinds, CoapSeen, Zenon

LEMMA InitSeen == Init => Observed!Init /\ OwnSensor /\ ValidKept
<1> SUFFICES ASSUME Init PROVE Observed!Init /\ OwnSensor /\ ValidKept
  OBVIOUS
<1>1. /\ reg = [r \in Regs |-> Free] /\ trans = [r \in Regs |-> 0] /\ async = {}
      /\ todo = <<>> /\ reqbuf = <<>> /\ streams = [s \in Sensors |-> {}]
  BY Zenon DEF Init, CoapInit, SmInit
<1>2. Pending = <<>> /\ DOMAIN Pending = {}
  <2>1. Pending = <<>>
    BY <1>1, SMT DEF Pending
  <2> QED BY <2>1, SMT
<1>3. \A s \in Sensors, r \in Regs : ~(r \in streams[s]) /\ ~StartIn(Pending, s, r)
  BY <1>1, <1>2, Zenon DEF StartIn
<1>4. \A r \in Regs : ~Alive(r)
  BY <1>1, FreeFields, Zenon DEF Alive
<1>5. Owners = [r \in Regs |-> NoOwner]
  BY <1>1, FreeFields, Zenon DEF Owners
<1>6. ValidRegs = {}
  BY <1>4, Zenon DEF ValidRegs
<1>7. Streamed = {}
  <2>1. ASSUME NEW p \in Sensors \X Regs PROVE ~WillStream(p[1], p[2])
    <3>1. p[1] \in Sensors /\ p[2] \in Regs
      BY SMT
    <3> QED BY <1>3, <3>1, Zenon DEF WillStream, Begins, StartIn
  <2> QED BY <2>1, Zenon DEF Streamed
<1> QED BY <1>1, <1>3, <1>4, <1>5, <1>6, <1>7, Zenon DEF Observed!Init, OwnSensor, ValidKept
-----------------------------------------------------------------------------
(* Along every execution a stream, and a START on its way to one, is of a  *)
(* registration in use and on its sensor, and a valid registration has its *)
(* stream, or the reference of a START that was lost.                      *)
THEOREM StreamsOfOwners == Spec => [](OwnSensor /\ ValidKept)
<1>1. Init => OwnSensor /\ ValidKept
  BY InitSeen, Zenon
<1>2. TicketInv /\ NamedHeld' /\ MeetsInvalid /\ OwnSensor /\ ValidKept /\ [Next]_vars
        => OwnSensor' /\ ValidKept'
  BY OwnSensorStep, ValidKeptStep, Zenon
<1> QED BY <1>1, <1>2, NamedIsHeld, Inductive, MeetsOnlyInvalid, PTL DEF Spec

(* The server implements what Observation promises: its requests, in the   *)
(* order and with the delay that the two queues give them, come to the     *)
(* same as if they took effect at once, and a registration is freed only   *)
(* when it is cancelled and nothing of it is under way.                    *)
THEOREM Implements == Spec => ImplementsObservation
<1>1. Init => Observed!Init
  BY InitSeen, Zenon
<1>2. TicketInv /\ ValidHeld /\ NothingLeft' /\ OwnSensor /\ OwnSensor' /\ [Next]_vars
        => [Observed!Next]_(Observed!vars)
  <2> SUFFICES ASSUME TicketInv, ValidHeld, NothingLeft', OwnSensor, OwnSensor', [Next]_vars
               PROVE  [Observed!Next]_(Observed!vars)
    OBVIOUS
  <2> QED BY StepSeen
<1> QED BY <1>1, <1>2, StreamsOfOwners, ValidIsHeld, NothingIsLeft, Inductive, PTL
        DEF Spec, ImplementsObservation, Observed!Spec
-----------------------------------------------------------------------------
(* OneStreamEach, of any owners o, valid observations v and streams w, and *)
(* what keeps it.                                                          *)
Each(o, v, w) ==
    /\ \A q, r \in v : o[q] = o[r] => q = r
    /\ \A r \in v : o[r] # NoOwner
    /\ \A s \in Sensors, r \in Regs : <<s, r>> \in w => o[r] # NoOwner /\ s = o[r][2]
    /\ ~MayTimeOut => \A r \in v : <<o[r][2], r>> \in w
    /\ ~MayTimeOut /\ ~FindsInvalid => \A s \in Sensors, r \in Regs : <<s, r>> \in w => r \in v

LEMMA EachFound ==
    ASSUME NEW o, NEW v, NEW w, Each(o, v, w), NEW s, NEW r,
           o[r] # NoOwner, o[r][2] = s, r \in v \/ FindsInvalid
    PROVE  Each(o, v, w \cup {<<s, r>>})
  BY SMT DEF Each

LEMMA EachNew ==
    ASSUME NEW o, DOMAIN o = Regs, NEW v \in SUBSET Regs, NEW w, Each(o, v, w),
           NEW c, NEW s, NEW r \in Regs, <<c, s>> # NoOwner,
           o[r] = NoOwner, \A q \in v : o[q] # <<c, s>>
    PROVE  Each([o EXCEPT ![r] = <<c, s>>], v \cup {r}, w \cup {<<s, r>>})
<1> DEFINE p == [o EXCEPT ![r] = <<c, s>>]
<1>1. p[r] = <<c, s>> /\ p[r][2] = s /\ \A q \in Regs : q # r => p[q] = o[q]
  BY SMT
<1>2. r \notin v
  BY Zenon DEF Each
<1> HIDE DEF p
<1> QED BY <1>1, <1>2, SMT DEF Each, p

LEMMA EachCancelled ==
    ASSUME NEW o, NEW v, NEW w, Each(o, v, w), NEW r
    PROVE  Each(o, v \ {r}, w \ {<<o[r][2], r>>})
  BY SMT DEF Each

LEMMA EachForgotten ==
    ASSUME NEW o, DOMAIN o = Regs, NEW v \in SUBSET Regs, NEW w, Each(o, v, w), NEW r,
           r \notin v, \A s \in Sensors : <<s, r>> \notin w
    PROVE  Each([o EXCEPT ![r] = NoOwner], v, w)
<1> DEFINE p == [o EXCEPT ![r] = NoOwner]
<1>1. \A q \in Regs : q # r => p[q] = o[q]
  BY SMT
<1> HIDE DEF p
<1> QED BY <1>1, SMT DEF Each, p

LEMMA EachLost ==
    ASSUME NEW o, NEW v, NEW w, Each(o, v, w), NEW r, NEW u, MayTimeOut, o[r] # NoOwner,
           u = w \cup {<<o[r][2], r>>} \/ u = w \ {<<o[r][2], r>>}
    PROVE  Each(o, v, u)
  BY SMT DEF Each

LEMMA EachNow == OneStreamEach <=> Each(Owners, ValidRegs, Streamed)
  BY Zenon DEF OneStreamEach, Observed!OneStreamEach, Observed!StreamOf, Each

LEMMA EachThen == OneStreamEach' <=> Each(Owners', ValidRegs', Streamed')
  BY Zenon DEF OneStreamEach, Observed!OneStreamEach, Observed!StreamOf, Each

LEMMA SeenTypes ==
    /\ DOMAIN Owners = Regs /\ DOMAIN Owners' = Regs
    /\ ValidRegs \in SUBSET Regs /\ ValidRegs' \in SUBSET Regs
  BY SMT DEF Owners, ValidRegs

LEMMA ObserveEach ==
    ASSUME Each(Owners, ValidRegs, Streamed),
           NEW c \in Clients, NEW s \in Sensors, NEW r \in Regs, Observed!Observe(c, s, r)
    PROVE  Each(Owners', ValidRegs', Streamed')
<1>1. Streamed' = Streamed \cup {<<s, r>>}
  BY Zenon DEF Observed!Observe
<1>2. <<c, s>> # NoOwner
  BY CoapAssumption, SMT
<1>3. CASE Owners[r] = <<c, s>> /\ r \in Observed!Found(c, s) /\ UNCHANGED <<Owners, ValidRegs>>
  <2>1. Owners' = Owners /\ ValidRegs' = ValidRegs
    BY <1>3, SMT
  <2>2. r \in ValidRegs \/ FindsInvalid
    BY <1>3, SMT DEF Observed!Found, Observed!Mine
  <2>3. Owners[r] # NoOwner /\ Owners[r][2] = s
    BY <1>2, <1>3, SMT
  <2>4. Each(Owners, ValidRegs, Streamed \cup {<<s, r>>})
    BY <2>2, <2>3, EachFound
  <2> QED BY <1>1, <2>1, <2>4
<1>4. CASE /\ Owners[r] = NoOwner /\ Observed!Mine(c, s) = {}
           /\ Owners' = [Owners EXCEPT ![r] = <<c, s>>]
           /\ ValidRegs' = ValidRegs \cup {r}
  <2>1. \A q \in ValidRegs : Owners[q] # <<c, s>>
    BY <1>4, SMT DEF Observed!Mine
  <2>2. Each([Owners EXCEPT ![r] = <<c, s>>], ValidRegs \cup {r}, Streamed \cup {<<s, r>>})
    BY <1>2, <1>4, <2>1, SeenTypes, EachNew
  <2> QED BY <1>1, <1>4, <2>2
<1> QED BY <1>3, <1>4, Zenon DEF Observed!Observe

LEMMA CancelEach ==
    ASSUME Each(Owners, ValidRegs, Streamed), NEW r,
           UNCHANGED <<ValidRegs, Streamed>> \/ Observed!Cancel(r)
    PROVE  Each(Owners, ValidRegs', Streamed')
<1>1. CASE UNCHANGED <<ValidRegs, Streamed>>
  <2>1. ValidRegs' = ValidRegs /\ Streamed' = Streamed
    BY <1>1, SMT
  <2> QED BY <2>1
<1>2. CASE Observed!Cancel(r)
  <2>1. Each(Owners, ValidRegs \ {r}, Streamed \ {<<Owners[r][2], r>>})
    BY EachCancelled
  <2>2. ValidRegs' = ValidRegs \ {r} /\ Streamed' = Streamed \ {<<Owners[r][2], r>>}
    BY <1>2, Zenon DEF Observed!Cancel, Observed!StreamOf
  <2> QED BY <2>1, <2>2
<1> QED BY <1>1, <1>2

LEMMA ForgetEach ==
    ASSUME Each(Owners, ValidRegs', Streamed'), NEW r, Observed!MayForget(r)
    PROVE  Each(Owners', ValidRegs', Streamed')
<1>1. CASE Owners' = Owners
  BY <1>1
<1>2. CASE Observed!Forget(r)
  <2>1. /\ Owners' = [Owners EXCEPT ![r] = NoOwner]
        /\ r \notin ValidRegs' /\ \A s \in Sensors : <<s, r>> \notin Streamed'
    BY <1>2, Zenon DEF Observed!Forget
  <2>2. Each([Owners EXCEPT ![r] = NoOwner], ValidRegs', Streamed')
    BY <2>1, SeenTypes, EachForgotten
  <2> QED BY <2>1, <2>2
<1> QED BY <1>1, <1>2, Zenon DEF Observed!MayForget

LEMMA ObservedEach ==
    ASSUME OneStreamEach, [Observed!Next]_(Observed!vars)
    PROVE  OneStreamEach'
<1>1. Each(Owners, ValidRegs, Streamed)
  BY EachNow
<1> SUFFICES Each(Owners', ValidRegs', Streamed')
  BY EachThen
<1>2. ASSUME UNCHANGED Owners, UNCHANGED ValidRegs, UNCHANGED Streamed
      PROVE  Each(Owners', ValidRegs', Streamed')
  BY <1>1, <1>2
<1>3. CASE UNCHANGED Observed!vars
  <2>1. Owners' = Owners /\ ValidRegs' = ValidRegs /\ Streamed' = Streamed
    BY <1>3, SMT DEF Observed!vars
  <2> QED BY <1>2, <2>1
<1>4. ASSUME NEW c \in Clients, NEW s \in Sensors, NEW r \in Regs, Observed!Observe(c, s, r)
      PROVE  Each(Owners', ValidRegs', Streamed')
  BY <1>1, <1>4, ObserveEach
<1>5. ASSUME NEW c \in Clients, NEW s \in Sensors, NEW t \in Tids, Observed!Ask(c, s, t)
      PROVE  Each(Owners', ValidRegs', Streamed')
  <2>1. Owners' = Owners
    BY <1>5, SMT DEF Observed!Ask
  <2>2. UNCHANGED <<ValidRegs, Streamed>> \/ \E r \in Observed!Found(c, s) : Observed!Cancel(r)
    BY <1>5, Zenon DEF Observed!Ask
  <2>3. Each(Owners, ValidRegs', Streamed')
    BY <1>1, <2>2, CancelEach
  <2> QED BY <2>1, <2>3
<1>6. ASSUME NEW t \in Tids, Observed!Reply(t)
      PROVE  Each(Owners', ValidRegs', Streamed')
  <2>1. Owners' = Owners /\ ValidRegs' = ValidRegs /\ Streamed' = Streamed
    BY <1>6, SMT DEF Observed!Reply
  <2> QED BY <1>2, <2>1
<1>7. ASSUME NEW r \in Regs, Observed!Notify(r)
      PROVE  Each(Owners', ValidRegs', Streamed')
  <2>1. Owners' = Owners /\ ValidRegs' = ValidRegs /\ Streamed' = Streamed
    BY <1>7, SMT DEF Observed!Notify
  <2> QED BY <1>2, <2>1
<1>8. ASSUME NEW r \in Regs, Observed!Conclude(r)
      PROVE  Each(Owners', ValidRegs', Streamed')
  <2>1. /\ UNCHANGED <<ValidRegs, Streamed>> \/ Observed!Cancel(r)
        /\ Observed!MayForget(r)
    BY <1>8, Zenon DEF Observed!Conclude
  <2>2. Each(Owners, ValidRegs', Streamed')
    BY <1>1, <2>1, CancelEach
  <2> QED BY <2>1, <2>2, ForgetEach
<1>9. ASSUME NEW r \in Regs, Observed!Settle(r)
      PROVE  Each(Owners', ValidRegs', Streamed')
  <2>1. Observed!MayForget(r) /\ ValidRegs' = ValidRegs /\ Streamed' = Streamed
    BY <1>9, SMT DEF Observed!Settle, Observed!MayForget
  <2>2. Each(Owners, ValidRegs', Streamed')
    BY <1>1, <2>1
  <2> QED BY <2>1, <2>2, ForgetEach
<1>10. ASSUME NEW r \in Regs, Observed!Lose(r)
       PROVE  Each(Owners', ValidRegs', Streamed')
  <2>1. /\ MayTimeOut /\ Owners[r] # NoOwner
        /\ \/ Streamed' = Streamed \cup {<<Owners[r][2], r>>}
           \/ Streamed' = Streamed \ {<<Owners[r][2], r>>}
    BY <1>10, Zenon DEF Observed!Lose, Observed!StreamOf
  <2>2. Owners' = Owners /\ ValidRegs' = ValidRegs
    BY <1>10, SMT DEF Observed!Lose
  <2>3. Each(Owners, ValidRegs, Streamed')
    BY <1>1, <2>1, EachLost
  <2> QED BY <2>2, <2>3
<1> QED BY <1>3, <1>4, <1>5, <1>6, <1>7, <1>8, <1>9, <1>10, Zenon DEF Observed!Next

(* Along every execution the streams that the Streaming Manager has, or    *)
(* will have once it has handled what is under way, are those of the       *)
(* observations the clients hold: what Observation keeps the server keeps. *)
THEOREM StreamsAsObserved == Spec => []OneStreamEach
<1>1. Observed!Init => OneStreamEach
  <2> SUFFICES ASSUME Observed!Init PROVE OneStreamEach
    OBVIOUS
  <2>1. ValidRegs = {} /\ Streamed = {}
    BY Zenon DEF Observed!Init
  <2> QED BY <2>1, EachNow, SMT DEF Each
<1>2. OneStreamEach /\ [Observed!Next]_(Observed!vars) => OneStreamEach'
  <2> SUFFICES ASSUME OneStreamEach, [Observed!Next]_(Observed!vars) PROVE OneStreamEach'
    OBVIOUS
  <2> QED BY ObservedEach
<1> QED BY <1>1, <1>2, Implements, PTL DEF ImplementsObservation, Observed!Spec
-----------------------------------------------------------------------------
(* A registration that is invalid is on its way out: one of its references *)
(* is coming back, or it is with a stream, or a START, that a STOP behind  *)
(* it will end.                                                            *)
InvalidEnds ==
    \A r \in Regs : Alive(r) /\ reg[r].invalid =>
        \/ Back(r) > 0
        \/ \E s \in Sensors : /\ StartIn(Pending, s, r) \/ r \in streams[s]
                              /\ ~WillStream(s, r)

(* A registration in use has a reference. *)
AliveCounted == \A r \in Regs : Alive(r) => reg[r].ref > 0

NamedCount == \A r \in Regs : Named(r) => reg[r].ref > 0

LEMMA NamedIsCounted == TicketInv => NamedCount
<1> SUFFICES ASSUME TicketInv, NEW r \in Regs, Named(r) PROVE reg[r].ref > 0
  BY Zenon DEF NamedCount
<1>1. TypeOK /\ Back(r) < reg[r].ref
  BY NamedCounted, Zenon DEF TicketInv
<1> QED BY <1>1, PlacesNat, SMTT(60) DEF Back

LEMMA AliveCountedStep ==
    ASSUME TicketInv, NamedCount', AliveCounted, [Next]_vars
    PROVE  AliveCounted'
<1> SUFFICES ASSUME NEW r \in Regs, Alive(r)' PROVE reg'[r].ref > 0
  BY Zenon DEF AliveCounted
<1>1. reg'[r] # Free
  BY FreeFields, Zenon DEF Alive
<1>2. CASE Made(r)
  <2>1. Named(r)'
    BY <1>2, Zenon DEF Made, Named
  <2> QED BY <2>1, Zenon DEF NamedCount
<1>3. CASE Carries(reg[r], reg'[r])
  BY <1>3, Zenon DEF Carries, AliveCounted, Alive
<1> QED BY <1>1, <1>2, <1>3, OwnerKept, Zenon

(* Who is counted as a holder of a registration is there.                  *)
LEMMA CountedNamed ==
    ASSUME TypeOK, NEW r \in Regs, GivenAway(r) > 0
    PROVE  Back(r) > 0 \/ Named(r)
<1>1. todo \in Seq(Request) /\ reqbuf \in Seq(Request)
  BY Zenon DEF TypeOK, CoapTypeOK
<1>2. \/ Count(todo, "START", r) > 0 \/ Count(reqbuf, "START", r) > 0
      \/ Cardinality(StreamsOf(r)) # 0 \/ Back(r) > 0
  BY PlacesNat, SMTT(60) DEF GivenAway, Back
<1>3. ASSUME NEW q \in Seq(Request), Count(q, "START", r) > 0
      PROVE  \E s \in Sensors : \E i \in DOMAIN q : q[i] = Start(s, r)
  <2>1. PICK i \in DOMAIN q : q[i].rtype = "START" /\ q[i].ticket = r
    BY <1>3, CountedIs
  <2>2. q[i] \in Request
    BY SMT
  <2>3. q[i].sensor \in Sensors /\ q[i] = Start(q[i].sensor, r)
    BY <2>1, <2>2, RequestFields, Zenon
  <2> QED BY <2>3, Zenon
<1>4. /\ \A i \in DOMAIN reqbuf : \E j \in DOMAIN Pending : Pending[j] = reqbuf[i]
      /\ \A i \in DOMAIN todo : \E j \in DOMAIN Pending : Pending[j] = todo[i]
  <2>1. /\ Pending \in Seq(Request) /\ Len(Pending) = Len(reqbuf) + Len(todo)
        /\ \A i \in 1 .. Len(reqbuf) + Len(todo) :
              Pending[i] = IF i <= Len(reqbuf) THEN reqbuf[i] ELSE todo[i - Len(reqbuf)]
    BY <1>1, ConcatProperties, Zenon DEF Pending
  <2> HIDE DEF Pending
  <2>2. /\ Len(reqbuf) \in Nat /\ Len(todo) \in Nat
        /\ DOMAIN reqbuf = 1 .. Len(reqbuf) /\ DOMAIN todo = 1 .. Len(todo)
        /\ DOMAIN Pending = 1 .. Len(reqbuf) + Len(todo)
    BY <1>1, <2>1, SMT
  <2>3. ASSUME NEW i \in DOMAIN reqbuf PROVE \E j \in DOMAIN Pending : Pending[j] = reqbuf[i]
    <3>1. i \in DOMAIN Pending /\ Pending[i] = reqbuf[i]
      BY <2>1, <2>2, SMT
    <3> QED BY <3>1, Zenon
  <2>4. ASSUME NEW i \in DOMAIN todo PROVE \E j \in DOMAIN Pending : Pending[j] = todo[i]
    <3>1. i + Len(reqbuf) \in DOMAIN Pending /\ Pending[i + Len(reqbuf)] = todo[i]
      BY <2>1, <2>2, SMT
    <3> QED BY <3>1, Zenon
  <2> QED BY <2>3, <2>4, Zenon
<1>5. CASE Count(todo, "START", r) > 0 \/ Count(reqbuf, "START", r) > 0
  <2>1. PICK s \in Sensors : \/ \E i \in DOMAIN todo : todo[i] = Start(s, r)
                             \/ \E i \in DOMAIN reqbuf : reqbuf[i] = Start(s, r)
    BY <1>1, <1>3, <1>5, Zenon
  <2>2. StartIn(Pending, s, r)
    BY <1>4, <2>1, Zenon DEF StartIn
  <2> QED BY <2>2, Zenon DEF Named
<1>6. CASE Cardinality(StreamsOf(r)) # 0
  <2>1. StreamsOf(r) # {}
    BY <1>6, FS_EmptySet, Zenon
  <2> QED BY <2>1, Zenon DEF StreamsOf, Named
<1> QED BY <1>2, <1>5, <1>6, Zenon

(* If no put times out and libcoap finds no invalid registration, then     *)
(* whatever generic_on_unregister makes invalid is being freed: it waits   *)
(* for a client, for a response or for a STOP already put, and is never    *)
(* left over with a stream.                                                *)
THEOREM NothingLeaks == ASSUME ~MayTimeOut, ~FindsInvalid PROVE Spec => []InvalidEnds
<1>1. TicketInv /\ AliveCounted /\ TicketsBalance /\ OneStreamEach => InvalidEnds
  <2> SUFFICES ASSUME TicketInv, AliveCounted, TicketsBalance, OneStreamEach,
                      NEW r \in Regs, Alive(r), reg[r].invalid
               PROVE  \/ Back(r) > 0
                      \/ \E s \in Sensors : /\ StartIn(Pending, s, r) \/ r \in streams[s]
                                            /\ ~WillStream(s, r)
    BY Zenon DEF InvalidEnds
  <2>1. TypeOK /\ GivenAway(r) = reg[r].ref /\ reg[r].ref > 0
    BY Zenon DEF TicketInv, AliveCounted, TicketsBalance
  <2>2. GivenAway(r) > 0
    BY <2>1, Zenon
  <2>3. Back(r) > 0 \/ Named(r)
    BY <2>1, <2>2, CountedNamed, Zenon
  <2>4. \A s \in Sensors : ~WillStream(s, r)
    <3>1. \A s \in Sensors : <<s, r>> \in Streamed => r \in ValidRegs
      BY EachNow, Zenon DEF Each
    <3>2. r \notin ValidRegs
      BY Zenon DEF ValidRegs
    <3>3. ASSUME NEW s \in Sensors, WillStream(s, r) PROVE <<s, r>> \in Streamed
      <4>1. <<s, r>> \in Sensors \X Regs /\ <<s, r>>[1] = s /\ <<s, r>>[2] = r
        BY SMT
      <4> QED BY <3>3, <4>1, Zenon DEF Streamed
    <3> QED BY <3>1, <3>2, <3>3, Zenon
  <2> QED BY <2>3, <2>4, Zenon DEF Named
<1>2. Init => AliveCounted
  BY FreeFields, Zenon DEF Init, CoapInit, AliveCounted, Alive
<1>3. TicketInv /\ NamedCount' /\ AliveCounted /\ [Next]_vars => AliveCounted'
  BY AliveCountedStep, Zenon
<1> QED BY <1>1, <1>2, <1>3, NamedIsCounted, Inductive, NoReferenceLost, StreamsAsObserved, PTL
        DEF Spec
=============================================================================
