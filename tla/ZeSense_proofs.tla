--------------------------- MODULE ZeSense_proofs ---------------------------
(***************************************************************************)
(* What holds in ZeSense for any number of clients, sensors, registrations *)
(* and transactions and any size of the buffers: the references to         *)
(* registrations, the sensors that are on, the STOPs on their way, and the *)
(* one-shots.                                                              *)
(***************************************************************************)
EXTENDS ZeSenseTypes

(* The places a reference may be in, after a step. *)
LEMMA GivenAwayNext ==
    ASSUME NEW r
    PROVE  GivenAway(r)' = Count(todo', "START", r) + Count(reqbuf', "START", r)
                + Cardinality({s \in Sensors : r \in streams'[s]})
                + One(Stopped(r) \in out') + Count(resbuf', "STREAM_STOPPED", r)
                + trans'[r]
  BY DEF GivenAway, StreamsOf

(* How many references there are in each place. *)
LEMMA PlacesNat ==
    ASSUME TypeOK, NEW r \in Regs
    PROVE  /\ Count(todo, "START", r) \in Nat
           /\ Count(reqbuf, "START", r) \in Nat
           /\ IsFiniteSet(StreamsOf(r)) /\ Cardinality(StreamsOf(r)) \in Nat
           /\ One(Stopped(r) \in out) \in {0, 1}
           /\ Count(resbuf, "STREAM_STOPPED", r) \in Nat
           /\ trans[r] \in Nat
           /\ reg[r] \in Registration /\ reg[r].ref \in Int
<1>1. /\ todo \in Seq(Request) /\ reqbuf \in Seq(Request) /\ resbuf \in Seq(Response)
      /\ trans[r] \in Nat /\ reg[r] \in Registration
  BY Zenon DEF TypeOK, CoapTypeOK
<1>2. /\ Count(todo, "START", r) \in Nat
      /\ Count(reqbuf, "START", r) \in Nat
      /\ Count(resbuf, "STREAM_STOPPED", r) \in Nat
  BY <1>1, MatchingFinite, Zenon
<1>3. IsFiniteSet(StreamsOf(r)) /\ Cardinality(StreamsOf(r)) \in Nat
  <2>1. StreamsOf(r) \in SUBSET Sensors
    BY Zenon DEF StreamsOf
  <2> QED BY <2>1, TicketAssumption, FS_Subset, FS_CardinalityType, Zenon
<1>4. One(Stopped(r) \in out) \in {0, 1}
  BY Zenon DEF One
<1>5. reg[r].ref \in Int
  BY <1>1, SMT DEF Registration
<1> QED BY <1>1, <1>2, <1>3, <1>4, <1>5, Zenon

(* The same of the sum, in the state after a step.                         *)
LEMMA PlacesNext ==
    ASSUME TypeOK', NEW r \in Regs
    PROVE  GivenAway(r)' \in Int /\ reg'[r].ref \in Int
<1>1. /\ todo' \in Seq(Request) /\ reqbuf' \in Seq(Request) /\ resbuf' \in Seq(Response)
      /\ trans'[r] \in Nat /\ reg'[r] \in Registration
  BY Zenon DEF TypeOK, CoapTypeOK
<1>2. /\ Count(todo', "START", r) \in Nat
      /\ Count(reqbuf', "START", r) \in Nat
      /\ Count(resbuf', "STREAM_STOPPED", r) \in Nat
  BY <1>1, MatchingFinite, Zenon
<1>3. Cardinality({s \in Sensors : r \in streams'[s]}) \in Nat
  <2>1. {s \in Sensors : r \in streams'[s]} \in SUBSET Sensors
    OBVIOUS
  <2> QED BY <2>1, TicketAssumption, FS_Subset, FS_CardinalityType, Zenon
<1>4. One(Stopped(r) \in out') \in {0, 1}
  BY Zenon DEF One
<1>5. reg'[r].ref \in Int
  BY <1>1, SMT DEF Registration
<1>6. \A a, b, c, e, f \in Nat, d \in {0, 1} : a + b + c + d + e + f \in Int
  BY SMT
<1>7. GivenAway(r)' \in Int
  BY <1>1, <1>2, <1>3, <1>4, <1>6, GivenAwayNext, Zenon
<1> QED BY <1>5, <1>7, Zenon

(* A message in a queue is counted, and what is counted is in the queue.   *)
LEMMA CountedIs ==
    ASSUME NEW q, NEW k, NEW t, Count(q, k, t) > 0
    PROVE  \E i \in DOMAIN q : q[i].rtype = k /\ q[i].ticket = t
<1> SUFFICES ASSUME ~ \E i \in DOMAIN q : q[i].rtype = k /\ q[i].ticket = t PROVE FALSE
  OBVIOUS
<1>1. {i \in DOMAIN q : q[i].rtype = k /\ q[i].ticket = t} = {}
  OBVIOUS
<1>2. Count(q, k, t) = 0
  BY <1>1, FS_EmptySet, Zenon DEF Count
<1> QED BY <1>2, SMT

LEMMA Counted ==
    ASSUME NEW S, NEW q \in Seq(S), NEW i \in DOMAIN q
    PROVE  Count(q, q[i].rtype, q[i].ticket) > 0
<1> DEFINE M == Matching(q, q[i].rtype, q[i].ticket)
<1>1. IsFiniteSet(M) /\ Count(q, q[i].rtype, q[i].ticket) = Cardinality(M) /\ Cardinality(M) \in Nat
  BY MatchingFinite, Zenon
<1>2. M # {}
  BY Zenon DEF Matching
<1> HIDE DEF M
<1>3. Cardinality(M) # 0
  BY <1>1, <1>2, FS_EmptySet, Zenon
<1> QED BY <1>1, <1>3, SMT

(* A queue of one message, and of two. *)
LEMMA CountOne ==
    ASSUME NEW m, NEW k, NEW t
    PROVE  Count(<<m>>, k, t) = Is(m, k, t)
<1> DEFINE S == {m}
<1>1. <<>> \in Seq(S) /\ m \in S /\ <<m>> = Append(<<>>, m)
  BY SMT
<1> HIDE DEF S
<1>2. \A q \in Seq(S) : Count(Append(q, m), k, t) = Count(q, k, t) + Is(m, k, t)
  BY <1>1, CountAppend, SMT
<1>3. Is(m, k, t) \in {0, 1}
  BY IsBit, Zenon
<1>4. Count(<<m>>, k, t) = 0 + Is(m, k, t)
  BY <1>1, <1>2, CountEmpty, Zenon
<1> QED BY <1>3, <1>4, SMT

LEMMA CountTwo ==
    ASSUME NEW m, NEW n, NEW k, NEW t
    PROVE  Count(<<m, n>>, k, t)
             = Is(m, k, t) + Is(n, k, t)
<1> DEFINE S == {m, n}
<1>1. <<m>> \in Seq(S) /\ n \in S /\ <<m, n>> = Append(<<m>>, n)
  BY SMT
<1> HIDE DEF S
<1>2. \A q \in Seq(S) : Count(Append(q, n), k, t) = Count(q, k, t) + Is(n, k, t)
  BY <1>1, CountAppend, SMT
<1> QED BY <1>1, <1>2, CountOne, Zenon
-----------------------------------------------------------------------------
(* An address that is not in use has no references left. *)
UnusedUncounted == \A r \in Regs : ~Alive(r) => reg[r].ref = 0

(* An update that is being put belongs to a stream that is there. *)
UpdatesOfStreams == \A r \in Regs : Updated(r) \in out => StreamsOf(r) # {}

(* The inductive invariant: the types, and where the references are. *)
TicketInv == /\ TypeOK
             /\ UnusedUncounted
             /\ TicketsCovered
             /\ UpdatesOfStreams
             /\ UpdatesCovered

(* A reference that is anywhere keeps the registration in use. *)
LEMMA GivenAwayAlive ==
    ASSUME TypeOK, UnusedUncounted, TicketsCovered, NEW r \in Regs,
           \/ StreamsOf(r) # {}
           \/ Stopped(r) \in out
           \/ Count(resbuf, "STREAM_STOPPED", r) > 0
           \/ trans[r] > 0
    PROVE  Alive(r) /\ reg[r].ref > 0
<1>1. GivenAway(r) <= reg[r].ref
  BY Zenon DEF TicketsCovered
<1>2. StreamsOf(r) # {} => Cardinality(StreamsOf(r)) > 0
  <2>1. StreamsOf(r) # {} => Cardinality(StreamsOf(r)) # 0
    BY PlacesNat, FS_EmptySet, Zenon
  <2> QED BY <2>1, PlacesNat, SMTT(60)
<1>3. Stopped(r) \in out => One(Stopped(r) \in out) = 1
  BY Zenon DEF One
<1>4. reg[r].ref > 0
  BY <1>1, <1>2, <1>3, PlacesNat, SMTT(60) DEF GivenAway
<1>5. reg[r].ref # 0
  BY <1>4, PlacesNat, SMTT(60)
<1> QED BY <1>4, <1>5, Zenon DEF UnusedUncounted

(* So is one that an update in the buffer names. *)
LEMMA UpdateAlive ==
    ASSUME TicketInv, NEW i \in DOMAIN resbuf, NEW r \in Regs, resbuf[i] = Updated(r)
    PROVE  Alive(r) /\ reg[r].ref > 0
<1> USE DEF TicketInv
<1>1. TicketOut(r) \/ \E j \in DOMAIN resbuf : resbuf[j] = Stopped(r)
  BY Zenon DEF UpdatesCovered
<1>2. CASE TicketOut(r)
  BY <1>2, GivenAwayAlive, Zenon DEF TicketOut
<1>3. ASSUME NEW j \in DOMAIN resbuf, resbuf[j] = Stopped(r)
      PROVE  Alive(r) /\ reg[r].ref > 0
  <2>1. resbuf[j].rtype = "STREAM_STOPPED" /\ resbuf[j].ticket = r
    BY <1>3, SMT DEF Stopped
  <2>2. Count(resbuf, resbuf[j].rtype, resbuf[j].ticket) > 0
    BY Counted, Zenon DEF TypeOK
  <2>3. Count(resbuf, "STREAM_STOPPED", r) > 0
    BY <2>1, <2>2, Zenon
  <2> QED BY <2>3, GivenAwayAlive, Zenon
<1> QED BY <1>1, <1>2, <1>3, Zenon

LEMMA InvTransAlive == TicketInv => TransAlive
<1> SUFFICES ASSUME TicketInv, NEW r \in Regs, trans[r] > 0 PROVE Alive(r)
  BY DEF TransAlive
<1> QED BY GivenAwayAlive, Zenon DEF TicketInv
-----------------------------------------------------------------------------
LEMMA InitSum ==
    ASSUME Init, NEW r \in Regs
    PROVE  GivenAway(r) = 0 /\ reg[r].ref = 0
<1>1. StreamsOf(r) = {}
  BY Zenon DEF StreamsOf, Init, SmInit
<1>2. Cardinality(StreamsOf(r)) = 0
  BY <1>1, FS_EmptySet, Zenon
<1>3. One(Stopped(r) \in out) = 0
  BY Zenon DEF One, Init, SmInit
<1>4. /\ Count(todo, "START", r) = 0 /\ Count(reqbuf, "START", r) = 0
      /\ Count(resbuf, "STREAM_STOPPED", r) = 0
  BY CountEmpty, Zenon DEF Init, CoapInit
<1>5. trans[r] = 0 /\ reg[r].ref = 0
  BY SMT DEF Init, CoapInit, Free
<1> QED BY <1>2, <1>3, <1>4, <1>5, SMTT(60) DEF GivenAway

LEMMA InitTicketInv == Init => TicketInv
<1> SUFFICES ASSUME Init PROVE TicketInv
  OBVIOUS
<1>1. TypeOK
  BY InitTypeOK
<1>2. UnusedUncounted
  BY SMT DEF UnusedUncounted, Init, CoapInit, Free
<1>3. ASSUME NEW r \in Regs PROVE GivenAway(r) = 0 /\ reg[r].ref = 0
  BY InitSum, Zenon
<1>4. TicketsCovered
  BY <1>3, SMT DEF TicketsCovered
<1>5. UpdatesOfStreams /\ UpdatesCovered
  <2>1. out = {} /\ DOMAIN resbuf = {}
    BY SMT DEF Init, SmInit
  <2> QED BY <2>1, Zenon DEF UpdatesOfStreams, UpdatesCovered
<1> QED BY <1>1, <1>2, <1>4, <1>5 DEF TicketInv
-----------------------------------------------------------------------------
(* References that checkouts have counted and nobody will give back.       *)
Slack(r) == reg[r].ref - GivenAway(r)

LEMMA SlackNext ==
    ASSUME NEW r
    PROVE  Slack(r)' = reg'[r].ref
                - (Count(todo', "START", r) + Count(reqbuf', "START", r)
                + Cardinality({s \in Sensors : r \in streams'[s]})
                + One(Stopped(r) \in out') + Count(resbuf', "STREAM_STOPPED", r)
                + trans'[r])
  BY GivenAwayNext DEF Slack

LEMMA SlackNow ==
    ASSUME TypeOK, NEW r \in Regs
    PROVE  /\ Slack(r) \in Int
           /\ TicketsCovered => Slack(r) >= 0
           /\ Slack(r) >= 0 => GivenAway(r) <= reg[r].ref
  BY PlacesNat, SMTT(60) DEF Slack, GivenAway, TicketsCovered

(* Slack that stays, or grows, leaves the tickets covered.                 *)
LEMMA SlackStays ==
    ASSUME TypeOK, TypeOK', TicketsCovered, NEW r \in Regs, Slack(r)' = Slack(r)
    PROVE  GivenAway(r)' <= reg'[r].ref
<1>1. Slack(r) >= 0
  BY SlackNow, Zenon
<1>2. GivenAway(r)' \in Int /\ reg'[r].ref \in Int
  BY PlacesNext, Zenon
<1>3. Slack(r)' = reg'[r].ref - GivenAway(r)'
  BY DEF Slack
<1> QED BY <1>1, <1>2, <1>3, SMT

LEMMA SlackGrows ==
    ASSUME TypeOK, TypeOK', TicketsCovered, NEW r \in Regs, Slack(r)' >= Slack(r)
    PROVE  GivenAway(r)' <= reg'[r].ref
<1>1. Slack(r) >= 0 /\ Slack(r) \in Int
  BY SlackNow, Zenon
<1>2. GivenAway(r)' \in Int /\ reg'[r].ref \in Int
  BY PlacesNext, Zenon
<1>3. Slack(r)' = reg'[r].ref - GivenAway(r)'
  BY DEF Slack
<1> QED BY <1>1, <1>2, <1>3, SMT

(* What the operations on a registration do to its references.             *)
LEMMA RefOps ==
    ASSUME NEW x \in Registration
    PROVE  /\ Released(x).ref = x.ref - 1
           /\ Released(x).owner # x.owner => Released(x).ref = 0
           /\ CheckedOut(x).ref = x.ref + 1 /\ CheckedOut(x).owner = x.owner
           /\ Invalidated(x).ref = x.ref /\ Invalidated(x).owner = x.owner
           /\ Failed(x).ref = x.ref /\ Failed(x).owner = x.owner
           /\ \A b \in BOOLEAN : Confirmed(x, b).ref = x.ref /\ Confirmed(x, b).owner = x.owner
<1>1. /\ CheckedOut(x).ref = x.ref + 1 /\ CheckedOut(x).owner = x.owner
      /\ Invalidated(x).ref = x.ref /\ Invalidated(x).owner = x.owner
  BY SMT DEF CheckedOut, Invalidated, Registration
<1>2. /\ Failed(x).ref = x.ref /\ Failed(x).owner = x.owner
      /\ \A b \in BOOLEAN : Confirmed(x, b).ref = x.ref /\ Confirmed(x, b).owner = x.owner
  BY Zenon DEF Failed, Confirmed, Registration
<1>3. CASE x.ref = 1
  BY <1>1, <1>2, <1>3, SMT DEF Released, Free
<1>4. CASE x.ref # 1
  BY <1>1, <1>2, <1>4, SMT DEF Released, Registration
<1> QED BY <1>3, <1>4, <1>1, <1>2, Zenon

(* Releasing a registration in use leaves it in use, or without references.*)
UnusedIsUncounted(x) == x.owner = NoOwner => x.ref = 0

LEMMA UnusedDef == UnusedUncounted <=> \A r \in Regs : UnusedIsUncounted(reg[r])
  BY Zenon DEF UnusedUncounted, UnusedIsUncounted, Alive

LEMMA KeepUnused ==
    ASSUME NEW x \in Registration, x.owner # NoOwner
    PROVE  /\ UnusedIsUncounted(Released(x))
           /\ UnusedIsUncounted(CheckedOut(x))
           /\ UnusedIsUncounted(Invalidated(x))
           /\ UnusedIsUncounted(Released(Failed(x)))
           /\ UnusedIsUncounted(Released(Invalidated(Failed(x))))
           /\ \A b \in BOOLEAN : UnusedIsUncounted(Released(Confirmed(x, b)))
<1>1. ASSUME NEW y \in Registration, y.owner # NoOwner PROVE UnusedIsUncounted(Released(y))
  BY <1>1, RefOps, Zenon DEF UnusedIsUncounted
<1>2. ASSUME NEW y \in Registration, y.owner # NoOwner
      PROVE  /\ Failed(y) \in Registration /\ Failed(y).owner # NoOwner
             /\ Invalidated(y) \in Registration /\ Invalidated(y).owner # NoOwner
             /\ \A b \in BOOLEAN : Confirmed(y, b) \in Registration /\ Confirmed(y, b).owner # NoOwner
  BY <1>2, RefOps, RegistrationOps, Zenon
<1>3. UnusedIsUncounted(CheckedOut(x)) /\ UnusedIsUncounted(Invalidated(x))
  BY RefOps, Zenon DEF UnusedIsUncounted
<1> QED BY <1>1, <1>2, <1>3, Zenon

(* The Streaming Manager's share of the references stands still while the  *)
(* CoAP thread works.                                                      *)
LEMMA SmStands ==
    ASSUME UNCHANGED smVars, NEW r
    PROVE  /\ {s \in Sensors : r \in streams'[s]} = StreamsOf(r)
           /\ One(Stopped(r) \in out') = One(Stopped(r) \in out)
  BY Zenon DEF smVars, StreamsOf

(* GiveUp and Acknowledged: a transaction ends, and its reference goes.    *)
LEMMA EndTransaction ==
    ASSUME TicketInv, UNCHANGED smVars, UNCHANGED <<reqbuf, resbuf>>,
           NEW q \in Regs, trans[q] > 0, trans' = [trans EXCEPT ![q] = @ - 1],
           NEW x \in Registration, x.ref = reg[q].ref,
           reg' = [reg EXCEPT ![q] = Released(x)],
           NEW r \in Regs, Count(todo', "START", r) = Count(todo, "START", r)
    PROVE  Slack(r)' = Slack(r)
<1>1. /\ TypeOK
      /\ reg[q] \in Registration /\ Released(x).ref = reg[q].ref - 1
      /\ reg'[r] = IF r = q THEN Released(x) ELSE reg[r]
      /\ trans'[r] = IF r = q THEN trans[r] - 1 ELSE trans[r]
  BY RefOps, Zenon DEF TicketInv, TypeOK, CoapTypeOK
<1>2. reg'[r].ref = IF r = q THEN reg[r].ref - 1 ELSE reg[r].ref
  BY <1>1, SMT
<1> QED BY <1>1, <1>2, PlacesNat, SlackNext, SmStands, SMTT(60) DEF Slack, GivenAway

(* Each of the CoAP thread's actions leaves every slack as it is, and an   *)
(* unused address without references.                                      *)
LEMMA GiveUpSlack ==
    ASSUME TicketInv, UNCHANGED smVars, NEW q \in Regs, GiveUp(q)
    PROVE  UnusedUncounted' /\ \A r \in Regs : Slack(r)' = Slack(r)
<1>1. /\ TypeOK /\ reg[q] \in Registration /\ reg[q].owner # NoOwner /\ todo = <<>>
      /\ trans[q] > 0 /\ trans' = [trans EXCEPT ![q] = @ - 1]
      /\ UNCHANGED <<reqbuf, resbuf>>
  BY InvTransAlive, Zenon DEF GiveUp, TransAlive, Alive, TicketInv, TypeOK, CoapTypeOK
<1>2. PICK x \in {Failed(reg[q]), Invalidated(Failed(reg[q]))} : reg' = [reg EXCEPT ![q] = Released(x)]
  BY Zenon DEF GiveUp
<1>3. x \in Registration /\ x.ref = reg[q].ref /\ x.owner # NoOwner
  BY <1>1, <1>2, RefOps, RegistrationOps, ZenonT(40)
<1>4. UnusedUncounted'
  <2> SUFFICES ASSUME NEW r \in Regs PROVE UnusedIsUncounted(reg'[r])
    BY Zenon DEF UnusedUncounted, UnusedIsUncounted, Alive
  <2>1. reg'[r] = IF r = q THEN Released(x) ELSE reg[r]
    BY <1>1, <1>2, Zenon DEF TypeOK, CoapTypeOK
  <2> QED BY <1>3, <2>1, KeepUnused, UnusedDef, Zenon DEF TicketInv
<1>5. ASSUME NEW r \in Regs PROVE Count(todo', "START", r) = Count(todo, "START", r)
  <2>1. CASE UNCHANGED todo
    BY <2>1, Zenon
  <2>2. CASE todo' = <<Stop(reg[q].owner[2], q)>>
    <3>1. Is(Stop(reg[q].owner[2], q), "START", r) = 0
      BY SMT DEF Is, Stop
    <3> QED BY <1>1, <2>2, <3>1, CountOne, CountEmpty, Zenon
  <2> QED BY <2>1, <2>2, Zenon DEF GiveUp
<1>6. ASSUME NEW r \in Regs PROVE Slack(r)' = Slack(r)
  BY <1>1, <1>2, <1>3, <1>5, EndTransaction, Zenon
<1> QED BY <1>4, <1>6, Zenon

LEMMA AcknowledgedSlack ==
    ASSUME TicketInv, UNCHANGED smVars, UNCHANGED <<reqbuf, resbuf>>,
           NEW q \in Regs, Acknowledged(q)
    PROVE  UnusedUncounted' /\ \A r \in Regs : Slack(r)' = Slack(r)
<1>1. /\ TypeOK /\ reg[q] \in Registration /\ reg[q].owner # NoOwner /\ UNCHANGED todo
      /\ trans[q] > 0 /\ trans' = [trans EXCEPT ![q] = @ - 1]
  BY InvTransAlive, Zenon DEF Acknowledged, TransAlive, Alive, TicketInv, TypeOK, CoapTypeOK
<1>2. PICK forgiven \in BOOLEAN : reg' = [reg EXCEPT ![q] = Released(Confirmed(@, forgiven))]
  BY Zenon DEF Acknowledged
<1> DEFINE x == Confirmed(reg[q], forgiven)
<1>3. x \in Registration /\ x.ref = reg[q].ref /\ x.owner # NoOwner
  BY <1>1, <1>2, RefOps, RegistrationOps, Zenon
<1>4. reg' = [reg EXCEPT ![q] = Released(x)]
  BY <1>2, Zenon
<1> HIDE DEF x
<1>5. UnusedUncounted'
  <2> SUFFICES ASSUME NEW r \in Regs PROVE UnusedIsUncounted(reg'[r])
    BY Zenon DEF UnusedUncounted, UnusedIsUncounted, Alive
  <2>1. reg'[r] = IF r = q THEN Released(x) ELSE reg[r]
    BY <1>1, <1>4, Zenon DEF TypeOK, CoapTypeOK
  <2> QED BY <1>3, <2>1, KeepUnused, UnusedDef, Zenon DEF TicketInv
<1>6. ASSUME NEW r \in Regs PROVE Slack(r)' = Slack(r)
  BY <1>1, <1>3, <1>4, EndTransaction, Zenon
<1> QED BY <1>5, <1>6, Zenon

(* A ticket that is put has its reference. *)
LEMMA TicketPut ==
    ASSUME TypeOK, UNCHANGED smVars, UNCHANGED <<reqbuf, resbuf>>, UNCHANGED trans,
           NEW q, NEW r \in Regs, Count(todo, "START", r) = 0,
           Count(todo', "START", r) = IF r = q THEN 1 ELSE 0,
           reg'[r].ref = IF r = q THEN reg[r].ref + 1 ELSE reg[r].ref
    PROVE  Slack(r)' = Slack(r)
  BY PlacesNat, SlackNext, SmStands, SMTT(60) DEF Slack, GivenAway

LEMMA ObserveSlack ==
    ASSUME TicketInv, UNCHANGED smVars, UNCHANGED <<reqbuf, resbuf>>, todo = <<>>,
           NEW c \in Clients, NEW s \in Sensors, ObserveGet(c, s)
    PROVE  UnusedUncounted' /\ \A r \in Regs : Slack(r)' = Slack(r)
<1>1. PICK q \in AddRegistration(c, s) :
        /\ reg' = [reg EXCEPT ![q] = CheckedOut(IF Alive(q) THEN @ ELSE [Free EXCEPT !.owner = <<c, s>>])]
        /\ todo' = <<Start(s, q)>>
        /\ UNCHANGED <<trans, async>>
  BY Zenon DEF ObserveGet
<1>2. q \in Regs
  BY <1>1, Zenon DEF AddRegistration, Valid, Owned
<1>3. PICK x : x = IF Alive(q) THEN reg[q] ELSE [Free EXCEPT !.owner = <<c, s>>]
  OBVIOUS
<1>4. x \in Registration /\ x.owner # NoOwner
  <2>1. CASE Alive(q)
    BY <1>2, <1>3, <2>1, Zenon DEF TicketInv, TypeOK, CoapTypeOK, Alive
  <2>2. CASE ~Alive(q)
    <3>1. x = [Free EXCEPT !.owner = <<c, s>>] /\ x \in Registration
      BY <1>3, <2>2, OwnedFree, Zenon
    <3>2. x.owner = <<c, s>>
      BY <3>1, Zenon DEF Free
    <3>3. <<c, s>> # NoOwner
      BY CoapAssumption, SMT
    <3> QED BY <3>1, <3>2, <3>3, Zenon
  <2> QED BY <2>1, <2>2, Zenon
<1>5. x.ref = reg[q].ref
  <2>1. CASE Alive(q)
    BY <1>3, <2>1, Zenon
  <2>2. CASE ~Alive(q)
    <3>1. x.ref = 0
      BY <1>3, <2>2, SMT DEF Free
    <3> QED BY <1>2, <2>2, <3>1, Zenon DEF TicketInv, UnusedUncounted
  <2> QED BY <2>1, <2>2, Zenon
<1>6. ASSUME NEW r \in Regs PROVE reg'[r] = IF r = q THEN CheckedOut(x) ELSE reg[r]
  BY <1>1, <1>2, <1>3, Zenon DEF TicketInv, TypeOK, CoapTypeOK
<1>7. UnusedUncounted'
  <2> SUFFICES ASSUME NEW r \in Regs PROVE UnusedIsUncounted(reg'[r])
    BY Zenon DEF UnusedUncounted, UnusedIsUncounted, Alive
  <2> QED BY <1>4, <1>6, KeepUnused, UnusedDef, Zenon DEF TicketInv
<1>8. ASSUME NEW r \in Regs PROVE Slack(r)' = Slack(r)
  <2>1. Count(todo', "START", r) = Is(Start(s, q), "START", r)
    BY <1>1, CountOne, Zenon
  <2>2. Is(Start(s, q), "START", r) = IF r = q THEN 1 ELSE 0
    BY SMT DEF Is, Start
  <2>3. reg'[r].ref = IF r = q THEN reg[r].ref + 1 ELSE reg[r].ref
    BY <1>4, <1>5, <1>6, RefOps, SMT
  <2>4. TypeOK /\ UNCHANGED trans
    BY <1>1, Zenon DEF TicketInv
  <2>5. Count(todo', "START", r) = IF r = q THEN 1 ELSE 0
    BY <2>1, <2>2, Zenon
  <2>6. Count(todo, "START", r) = 0
    BY CountEmpty, Zenon
  <2> QED BY <2>3, <2>4, <2>5, <2>6, TicketPut, Zenon
<1> QED BY <1>7, <1>8, Zenon

LEMMA PlainGetSlack ==
    ASSUME TicketInv, UNCHANGED smVars, UNCHANGED <<reqbuf, resbuf>>, todo = <<>>,
           NEW c \in Clients, NEW s \in Sensors, NEW t \in Tids, PlainGet(c, s, t)
    PROVE  UnusedUncounted' /\ \A r \in Regs : Slack(r)' = Slack(r)
<1>1. PICK q \in FindRegistration(c, s) :
        IF q = NoReg
        THEN todo' = <<Oneshot(s, t)>> /\ UNCHANGED reg
        ELSE /\ reg' = [reg EXCEPT ![q] = Invalidated(@)]
             /\ todo' = <<Oneshot(s, t), Stop(s, q)>>
  BY Zenon DEF PlainGet
<1>2. UNCHANGED trans /\ TypeOK
  BY Zenon DEF PlainGet, TicketInv
<1>3. q = NoReg \/ (q \in Regs /\ reg[q] \in Registration /\ reg[q].owner # NoOwner)
  <2>1. <<c, s>> # NoOwner
    BY CoapAssumption, SMT
  <2> QED BY <1>1, <1>2, <2>1, Zenon DEF FindRegistration, Valid, Owned, TypeOK, CoapTypeOK
<1>4. ASSUME NEW r \in Regs
      PROVE  reg'[r] = reg[r] \/ (r = q /\ q # NoReg /\ reg'[r] = Invalidated(reg[r]))
  BY <1>1, <1>2, <1>3, Zenon DEF TypeOK, CoapTypeOK
<1>5. UnusedUncounted'
  <2> SUFFICES ASSUME NEW r \in Regs PROVE UnusedIsUncounted(reg'[r])
    BY Zenon DEF UnusedUncounted, UnusedIsUncounted, Alive
  <2> QED BY <1>3, <1>4, KeepUnused, UnusedDef, Zenon DEF TicketInv
<1>6. ASSUME NEW r \in Regs PROVE Slack(r)' = Slack(r)
  <2>1. Is(Oneshot(s, t), "START", r) = 0 /\ Is(Stop(s, q), "START", r) = 0
    BY SMT DEF Is, Oneshot, Stop
  <2>2. Count(todo, "START", r) = 0
    BY CountEmpty, Zenon
  <2>3. Count(todo', "START", r) = 0
    <3>1. CASE todo' = <<Oneshot(s, t)>>
      BY <2>1, <3>1, CountOne, Zenon
    <3>2. CASE todo' = <<Oneshot(s, t), Stop(s, q)>>
      <4>1. Count(todo', "START", r) = Is(Oneshot(s, t), "START", r) + Is(Stop(s, q), "START", r)
        BY <3>2, CountTwo, SMT
      <4> QED BY <2>1, <4>1, SMT
    <3> QED BY <1>1, <3>1, <3>2, Zenon
  <2>4. reg'[r].ref = reg[r].ref
    BY <1>3, <1>4, RefOps, Zenon
  <2> QED BY <1>2, <2>2, <2>3, <2>4, PlacesNat, SlackNext, SmStands, SMTT(60) DEF Slack, GivenAway
<1> QED BY <1>5, <1>6, Zenon

LEMMA PutRequestSlack ==
    ASSUME TicketInv, UNCHANGED smVars, PutRequest
    PROVE  UnusedUncounted' /\ \A r \in Regs : Slack(r)' = Slack(r)
<1>1. /\ TypeOK /\ todo \in Seq(Request) /\ reqbuf \in Seq(Request) /\ todo # <<>>
      /\ Head(todo) \in Request
  BY HeadTailProperties, Zenon DEF TicketInv, TypeOK, CoapTypeOK, PutRequest
<1>2. UnusedUncounted'
  BY Zenon DEF TicketInv, UnusedUncounted, Alive, PutRequest
<1>3. ASSUME NEW r \in Regs PROVE Slack(r)' = Slack(r)
  <2>1. Count(todo, "START", r) = Count(todo', "START", r) + Is(Head(todo), "START", r)
    BY <1>1, CountTail, SMT DEF PutRequest
  <2>2. Count(reqbuf', "START", r) = Count(reqbuf, "START", r) + Is(Head(todo), "START", r)
    BY <1>1, CountAppend, SMT DEF PutRequest
  <2>3. Count(todo', "START", r) \in Nat /\ Is(Head(todo), "START", r) \in {0, 1}
    <3>1. todo' \in Seq(Request)
      BY <1>1, HeadTailProperties, Zenon DEF PutRequest
    <3> QED BY <3>1, MatchingFinite, IsBit, Zenon
  <2>4. UNCHANGED reg /\ UNCHANGED trans /\ UNCHANGED resbuf
    BY Zenon DEF PutRequest
  <2> QED BY <1>1, <2>1, <2>2, <2>3, <2>4, PlacesNat, SlackNext, SmStands, SMTT(60) DEF Slack, GivenAway
<1> QED BY <1>2, <1>3, Zenon

(* A ticket that has come back, and a transaction that begins. *)
LEMMA TicketBack ==
    ASSUME TypeOK, UNCHANGED smVars, UNCHANGED <<todo, reqbuf>>, UNCHANGED trans,
           NEW q, NEW r \in Regs,
           Count(resbuf, "STREAM_STOPPED", r)
             = Count(resbuf', "STREAM_STOPPED", r) + IF r = q THEN 1 ELSE 0,
           Count(resbuf', "STREAM_STOPPED", r) \in Nat,
           reg'[r].ref = IF r = q THEN reg[r].ref - 1 ELSE reg[r].ref
    PROVE  Slack(r)' = Slack(r)
  BY PlacesNat, SlackNext, SmStands, SMTT(60) DEF Slack, GivenAway

LEMMA TransactionBegins ==
    ASSUME TypeOK, UNCHANGED smVars, UNCHANGED <<todo, reqbuf>>,
           NEW q, NEW r \in Regs,
           Count(resbuf, "STREAM_STOPPED", r) = Count(resbuf', "STREAM_STOPPED", r),
           trans'[r] = IF r = q THEN trans[r] + 1 ELSE trans[r],
           reg'[r].ref = IF r = q THEN reg[r].ref + 1 ELSE reg[r].ref
    PROVE  Slack(r)' = Slack(r)
  BY PlacesNat, SlackNext, SmStands, SMTT(60) DEF Slack, GivenAway

LEMMA SlackSame ==
    ASSUME TypeOK, UNCHANGED smVars, UNCHANGED <<todo, reqbuf>>, UNCHANGED <<reg, trans>>,
           NEW r \in Regs,
           Count(resbuf, "STREAM_STOPPED", r) = Count(resbuf', "STREAM_STOPPED", r)
    PROVE  Slack(r)' = Slack(r)
  BY PlacesNat, SlackNext, SmStands, SMTT(60) DEF Slack, GivenAway

LEMMA ServeSlack ==
    ASSUME TicketInv, UNCHANGED smVars, Serve
    PROVE  UnusedUncounted' /\ \A r \in Regs : Slack(r)' = Slack(r)
<1>1. TypeOK /\ resbuf \in Seq(Response) /\ reg \in [Regs -> Registration] /\ trans \in [Regs -> Nat]
  BY Zenon DEF TicketInv, TypeOK, CoapTypeOK
<1>2. UNCHANGED <<todo, reqbuf>>
  BY Zenon DEF Serve
<1>3. CASE UNCHANGED <<reg, trans, resbuf>>
  <2>1. UnusedUncounted'
    BY <1>3, Zenon DEF TicketInv, UnusedUncounted, Alive
  <2> QED BY <1>1, <1>2, <1>3, <2>1, SlackSame, Zenon
<1>4. CASE resbuf # <<>>
  <2> DEFINE m == Head(resbuf)
  <2>1. /\ resbuf' = Tail(resbuf)
        /\ \/ m.rtype = "STREAM_STOPPED" /\ ServeStopped(m.ticket)
           \/ m.rtype = "ONESHOT" /\ ServeOneshot(m.ticket)
           \/ m.rtype = "STREAM_UPDATE" /\ ServeUpdate(m.ticket)
    BY <1>4, Zenon DEF Serve
  <2>2. m \in Response /\ resbuf' \in Seq(Response) /\ resbuf[1] = m /\ 1 \in DOMAIN resbuf
    BY <1>1, <1>4, <2>1, HeadTailProperties, SMT
  <2>3. ASSUME NEW r
        PROVE  /\ Count(resbuf, "STREAM_STOPPED", r)
                    = Count(resbuf', "STREAM_STOPPED", r) + Is(m, "STREAM_STOPPED", r)
               /\ Count(resbuf', "STREAM_STOPPED", r) \in Nat
    <3>1. Count(resbuf', "STREAM_STOPPED", r) \in Nat
      BY <2>2, MatchingFinite, Zenon
    <3> QED BY <1>1, <1>4, <2>1, <3>1, CountTail, SMT
  <2> HIDE DEF m
  <2>4. CASE m.rtype = "STREAM_STOPPED" /\ ServeStopped(m.ticket)
    <3> DEFINE q == m.ticket
    <3>1. q \in Regs /\ m = Stopped(q)
      BY <2>2, <2>4, ResponseFields, Zenon
    <3>2. Count(resbuf, "STREAM_STOPPED", q) > 0
      <4>1. Is(m, "STREAM_STOPPED", q) = 1
        BY <2>4, Zenon DEF Is
      <4> QED BY <2>3, <4>1, SMT
    <3>3. reg[q] \in Registration /\ reg[q].owner # NoOwner
      BY <1>1, <3>1, <3>2, GivenAwayAlive, Zenon DEF TicketInv, Alive
    <3>4. UNCHANGED trans /\ reg' = [reg EXCEPT ![q] = Released(@)]
      BY <2>4, Zenon DEF ServeStopped
    <3>5. ASSUME NEW r \in Regs PROVE reg'[r] = IF r = q THEN Released(reg[r]) ELSE reg[r]
      BY <1>1, <3>4, Zenon
    <3>6. UnusedUncounted'
      <4> SUFFICES ASSUME NEW r \in Regs PROVE UnusedIsUncounted(reg'[r])
        BY Zenon DEF UnusedUncounted, UnusedIsUncounted, Alive
      <4> QED BY <3>3, <3>5, KeepUnused, UnusedDef, Zenon DEF TicketInv
    <3>7. ASSUME NEW r \in Regs PROVE Slack(r)' = Slack(r)
      <4>1. Is(m, "STREAM_STOPPED", r) = IF r = q THEN 1 ELSE 0
        BY <2>4, SMT DEF Is
      <4>2. reg'[r].ref = IF r = q THEN reg[r].ref - 1 ELSE reg[r].ref
        BY <3>3, <3>5, RefOps, SMT
      <4>3. Count(resbuf, "STREAM_STOPPED", r)
              = Count(resbuf', "STREAM_STOPPED", r) + IF r = q THEN 1 ELSE 0
        BY <2>3, <4>1, Zenon
      <4> QED BY <1>1, <1>2, <2>3, <3>4, <4>2, <4>3, TicketBack, Zenon
    <3> QED BY <3>6, <3>7, Zenon
  <2>5. ASSUME m.rtype # "STREAM_STOPPED", NEW r
        PROVE  Count(resbuf, "STREAM_STOPPED", r) = Count(resbuf', "STREAM_STOPPED", r)
    <3>1. Is(m, "STREAM_STOPPED", r) = 0
      BY <2>5, Zenon DEF Is
    <3> QED BY <2>3, <3>1, SMT
  <2>6. CASE m.rtype # "STREAM_STOPPED" /\ UNCHANGED <<reg, trans>>
    <3>1. UnusedUncounted'
      BY <2>6, Zenon DEF TicketInv, UnusedUncounted, Alive
    <3>2. ASSUME NEW r \in Regs PROVE Slack(r)' = Slack(r)
      BY <1>1, <1>2, <2>5, <2>6, SlackSame, Zenon
    <3> QED BY <3>1, <3>2, Zenon
  <2>7. CASE /\ m.rtype = "STREAM_UPDATE"
             /\ reg' = [reg EXCEPT ![m.ticket] = CheckedOut(@)]
             /\ trans' = [trans EXCEPT ![m.ticket] = @ + 1]
    <3> DEFINE q == m.ticket
    <3>1. q \in Regs /\ m = Updated(q)
      BY <2>2, <2>7, ResponseFields, Zenon
    <3>2. reg[q] \in Registration /\ reg[q].owner # NoOwner
      BY <1>1, <2>2, <3>1, UpdateAlive, Zenon DEF Alive
    <3>3. ASSUME NEW r \in Regs
          PROVE  /\ reg'[r] = IF r = q THEN CheckedOut(reg[r]) ELSE reg[r]
                 /\ trans'[r] = IF r = q THEN trans[r] + 1 ELSE trans[r]
      BY <1>1, <2>7, Zenon
    <3>4. UnusedUncounted'
      <4> SUFFICES ASSUME NEW r \in Regs PROVE UnusedIsUncounted(reg'[r])
        BY Zenon DEF UnusedUncounted, UnusedIsUncounted, Alive
      <4> QED BY <3>2, <3>3, KeepUnused, UnusedDef, Zenon DEF TicketInv
    <3>5. ASSUME NEW r \in Regs PROVE Slack(r)' = Slack(r)
      <4>1. reg'[r].ref = IF r = q THEN reg[r].ref + 1 ELSE reg[r].ref
        BY <3>2, <3>3, RefOps, SMT
      <4>2. m.rtype # "STREAM_STOPPED"
        BY <2>7, SMT
      <4> QED BY <1>1, <1>2, <2>5, <3>3, <4>1, <4>2, TransactionBegins, Zenon
    <3> QED BY <3>4, <3>5, Zenon
  <2> QED BY <2>1, <2>4, <2>6, <2>7, SMT DEF ServeOneshot, ServeUpdate
<1> QED BY <1>3, <1>4, Zenon DEF Serve

LEMMA CoapSlack ==
    TicketInv /\ Coap => UnusedUncounted' /\ \A r \in Regs : Slack(r)' = Slack(r)
<1> SUFFICES ASSUME TicketInv, CoapNext, UNCHANGED smVars
             PROVE  UnusedUncounted' /\ \A r \in Regs : Slack(r)' = Slack(r)
  BY DEF Coap
<1>1. TypeOK
  BY DEF TicketInv
<1>2. CASE UNCHANGED <<reg, trans, todo, reqbuf, resbuf>>
  <2>1. UnusedUncounted'
    BY <1>2, Zenon DEF TicketInv, UnusedUncounted, Alive
  <2> QED BY <1>1, <1>2, <2>1, SlackSame, Zenon
<1>3. CASE Network
  BY <1>2, <1>3, ObserveSlack, PlainGetSlack, AcknowledgedSlack, Zenon DEF Network
<1> QED BY <1>2, <1>3, GiveUpSlack, PutRequestSlack, ServeSlack, Zenon DEF CoapNext, Retransmitted
-----------------------------------------------------------------------------
(* The CoAP thread's share stands still while the Streaming Manager works: *)
(* what happens to r's slack is what happens to its places there.          *)
LEMMA SmSlackSum ==
    ASSUME TypeOK, UNCHANGED coapVars, NEW r \in Regs, NEW d \in Int,
           Count(reqbuf', "START", r) + Cardinality({s \in Sensors : r \in streams'[s]})
             + One(Stopped(r) \in out') + Count(resbuf', "STREAM_STOPPED", r)
           = Count(reqbuf, "START", r) + Cardinality(StreamsOf(r))
             + One(Stopped(r) \in out) + Count(resbuf, "STREAM_STOPPED", r) - d,
           Count(reqbuf', "START", r) \in Int,
           Cardinality({s \in Sensors : r \in streams'[s]}) \in Int,
           One(Stopped(r) \in out') \in Int,
           Count(resbuf', "STREAM_STOPPED", r) \in Int
    PROVE  Slack(r)' = Slack(r) + d
  BY PlacesNat, SlackNext, SMTT(60) DEF Slack, GivenAway, coapVars

(* Taking one more ticket r to the stream of a sensor, or one away.        *)
LEMMA StreamsChange ==
    ASSUME TypeOK, NEW s \in Sensors, NEW q \in Regs, NEW r \in Regs
    PROVE  /\ streams' = [streams EXCEPT ![s] = @ \cup {q}] =>
                {x \in Sensors : r \in streams'[x]}
                  = IF r = q THEN StreamsOf(r) \cup {s} ELSE StreamsOf(r)
           /\ streams' = [streams EXCEPT ![s] = @ \ {q}] =>
                {x \in Sensors : r \in streams'[x]}
                  = IF r = q THEN StreamsOf(r) \ {s} ELSE StreamsOf(r)
<1>1. streams \in [Sensors -> SUBSET Regs]
  BY DEF TypeOK, SmTypeOK
<1>2. ASSUME streams' = [streams EXCEPT ![s] = @ \cup {q}]
      PROVE  {x \in Sensors : r \in streams'[x]}
                  = IF r = q THEN StreamsOf(r) \cup {s} ELSE StreamsOf(r)
  BY <1>1, <1>2, Zenon DEF StreamsOf
<1>3. ASSUME streams' = [streams EXCEPT ![s] = @ \ {q}]
      PROVE  {x \in Sensors : r \in streams'[x]}
                  = IF r = q THEN StreamsOf(r) \ {s} ELSE StreamsOf(r)
  BY <1>1, <1>3, Zenon DEF StreamsOf
<1> QED BY <1>2, <1>3, Zenon

LEMMA StoppedOnly ==
    /\ \A q, r : Stopped(r) \in {Stopped(q)} <=> r = q
    /\ \A t, r : Stopped(r) # Answer(t) /\ Stopped(r) # Updated(t) /\ Answer(t) # Updated(r)
  BY SMT DEF Stopped, Answer, Updated

LEMMA StartStreamSlack ==
    ASSUME TypeOK, UNCHANGED coapVars, UNCHANGED resbuf, out = {},
           NEW s \in Sensors, NEW q \in Regs, StartStream(s, q), NEW r \in Regs,
           Count(reqbuf, "START", r) = Count(reqbuf', "START", r) + IF r = q THEN 1 ELSE 0,
           Count(reqbuf', "START", r) \in Nat
    PROVE  Slack(r)' = Slack(r)
<1> DEFINE new == {x \in Sensors : r \in streams'[x]}
<1>1. /\ new = IF r = q THEN StreamsOf(r) \cup {s} ELSE StreamsOf(r)
      /\ out' = IF q \in streams[s] THEN {Stopped(q)} ELSE {}
  BY StreamsChange, ZenonT(40) DEF StartStream
<1>2. One(Stopped(r) \in out) = 0
  BY Zenon DEF One
<1> HIDE DEF new
<1>3. Cardinality(new) + One(Stopped(r) \in out')
        = Cardinality(StreamsOf(r)) + (IF r = q THEN 1 ELSE 0)
      /\ Cardinality(new) \in Nat /\ One(Stopped(r) \in out') \in {0, 1}
  <2>1. CASE r # q
    <3>1. One(Stopped(r) \in out') = 0
      BY <1>1, <2>1, StoppedOnly, Zenon DEF One
    <3> QED BY <1>1, <2>1, <3>1, PlacesNat, SMTT(60)
  <2>2. CASE r = q /\ q \in streams[s]
    <3>1. One(Stopped(r) \in out') = 1
      BY <1>1, <2>2, Zenon DEF One
    <3>2. new = StreamsOf(r)
      BY <1>1, <2>2, Zenon DEF StreamsOf
    <3> QED BY <2>2, <3>1, <3>2, PlacesNat, SMTT(60)
  <2>3. CASE r = q /\ q \notin streams[s]
    <3>1. One(Stopped(r) \in out') = 0
      BY <1>1, <2>3, Zenon DEF One
    <3>2. Cardinality(new) = Cardinality(StreamsOf(r)) + 1
      <4>1. s \notin StreamsOf(r) /\ new = StreamsOf(r) \cup {s}
        BY <1>1, <2>3, Zenon DEF StreamsOf
      <4> QED BY <4>1, PlacesNat, FS_AddElement, Zenon
    <3> QED BY <2>3, <3>1, <3>2, PlacesNat, SMTT(60)
  <2> QED BY <2>1, <2>2, <2>3, Zenon
<1>4. Count(reqbuf', "START", r) + Cardinality(new)
        + One(Stopped(r) \in out') + Count(resbuf', "STREAM_STOPPED", r)
      = Count(reqbuf, "START", r) + Cardinality(StreamsOf(r))
        + One(Stopped(r) \in out) + Count(resbuf, "STREAM_STOPPED", r) - 0
  BY <1>2, <1>3, PlacesNat, SMTT(60)
<1>5. /\ Count(reqbuf', "START", r) \in Int /\ Cardinality(new) \in Int
      /\ One(Stopped(r) \in out') \in Int /\ Count(resbuf', "STREAM_STOPPED", r) \in Int
      /\ 0 \in Int
  BY <1>3, PlacesNat, SMTT(60)
<1>6. Slack(r)' = Slack(r) + 0
  BY <1>4, <1>5, SmSlackSum, Zenon DEF new
<1> QED BY <1>6, SlackNow, SMTT(60)

LEMMA StopStreamSlack ==
    ASSUME TypeOK, UNCHANGED coapVars, UNCHANGED resbuf, out = {},
           NEW s \in Sensors, NEW q \in Regs, StopStream(s, q), NEW r \in Regs,
           Count(reqbuf, "START", r) = Count(reqbuf', "START", r)
    PROVE  Slack(r)' = Slack(r)
<1> DEFINE new == {x \in Sensors : r \in streams'[x]}
<1>1. One(Stopped(r) \in out) = 0
  BY Zenon DEF One
<1>2. Cardinality(new) + One(Stopped(r) \in out') = Cardinality(StreamsOf(r))
      /\ Cardinality(new) \in Nat /\ One(Stopped(r) \in out') \in {0, 1}
  <2>1. CASE q \notin streams[s]
    <3>1. new = StreamsOf(r) /\ out' = {}
      BY <2>1, Zenon DEF StopStream, StreamsOf
    <3>2. One(Stopped(r) \in out') = 0
      BY <3>1, Zenon DEF One
    <3> HIDE DEF new
    <3> QED BY <3>1, <3>2, PlacesNat, SMTT(60)
  <2>2. CASE q \in streams[s]
    <3>1. /\ new = IF r = q THEN StreamsOf(r) \ {s} ELSE StreamsOf(r)
          /\ out' = {Stopped(q)}
      BY <2>2, StreamsChange, ZenonT(40) DEF StopStream
    <3> HIDE DEF new
    <3>2. CASE r = q
      <4>1. One(Stopped(r) \in out') = 1
        BY <3>1, <3>2, Zenon DEF One
      <4>2. s \in StreamsOf(r) /\ new = StreamsOf(r) \ {s}
        BY <2>2, <3>1, <3>2, Zenon DEF StreamsOf
      <4>3. Cardinality(new) = Cardinality(StreamsOf(r)) - 1 /\ IsFiniteSet(new)
        BY <4>2, PlacesNat, FS_RemoveElement, Zenon
      <4>4. Cardinality(new) \in Nat
        BY <4>3, FS_CardinalityType, Zenon
      <4> QED BY <4>1, <4>3, <4>4, PlacesNat, SMTT(60)
    <3>3. CASE r # q
      <4>1. One(Stopped(r) \in out') = 0
        BY <3>1, <3>3, StoppedOnly, Zenon DEF One
      <4> QED BY <3>1, <3>3, <4>1, PlacesNat, SMTT(60)
    <3> QED BY <3>2, <3>3, Zenon
  <2> QED BY <2>1, <2>2, Zenon
<1> HIDE DEF new
<1>3. Count(reqbuf', "START", r) + Cardinality(new)
        + One(Stopped(r) \in out') + Count(resbuf', "STREAM_STOPPED", r)
      = Count(reqbuf, "START", r) + Cardinality(StreamsOf(r))
        + One(Stopped(r) \in out) + Count(resbuf, "STREAM_STOPPED", r) - 0
  BY <1>1, <1>2, PlacesNat, SMTT(60)
<1>4. Slack(r)' = Slack(r) + 0
  BY <1>2, <1>3, PlacesNat, SmSlackSum, SMTT(60) DEF new
<1> QED BY <1>4, SlackNow, SMTT(60)

(* Streams, and what r's STREAM_STOPPED, START and slack depend on, stay.  *)
LEMMA SmSlackSame ==
    ASSUME TypeOK, UNCHANGED coapVars, UNCHANGED <<streams, resbuf>>,
           NEW r \in Regs, Stopped(r) \in out <=> Stopped(r) \in out',
           NEW d \in Int, Count(reqbuf', "START", r) \in Int,
           Count(reqbuf, "START", r) = Count(reqbuf', "START", r) + d
    PROVE  Slack(r)' = Slack(r) + d
<1>1. {s \in Sensors : r \in streams'[s]} = StreamsOf(r)
  BY Zenon DEF StreamsOf
<1>2. One(Stopped(r) \in out') = One(Stopped(r) \in out)
  BY Zenon DEF One
<1> QED BY <1>1, <1>2, PlacesNat, SlackNext, SMTT(60) DEF Slack, GivenAway, coapVars

LEMMA HandleRequestSlack ==
    ASSUME TypeOK, UNCHANGED coapVars, HandleRequest, NEW r \in Regs
    PROVE  Slack(r)' = Slack(r)
<1>1. out = {} /\ UNCHANGED resbuf /\ reqbuf \in Seq(Request)
  BY Zenon DEF HandleRequest, Idle, TypeOK
<1>2. CASE reqbuf = <<>>
  <2>1. UNCHANGED <<streams, resbuf>> /\ out' = out /\ reqbuf' = reqbuf
    BY <1>2, Zenon DEF HandleRequest
  <2>2. Slack(r)' = Slack(r) + 0
    BY <2>1, PlacesNat, SmSlackSame, SMTT(60)
  <2> QED BY <2>2, SlackNow, SMTT(60)
<1>3. CASE reqbuf # <<>>
  <2> DEFINE m == Head(reqbuf)
  <2>1. /\ reqbuf' = Tail(reqbuf)
        /\ \/ m.rtype = "START" /\ StartStream(m.sensor, m.ticket)
           \/ m.rtype = "STOP" /\ StopStream(m.sensor, m.ticket)
           \/ m.rtype = "ONESHOT" /\ TakeOneshot(m.sensor, m.ticket)
    BY <1>3, Zenon DEF HandleRequest
  <2>2. m \in Request /\ reqbuf' \in Seq(Request)
    BY <1>1, <1>3, <2>1, HeadTailProperties, Zenon
  <2>3. Count(reqbuf', "START", r) \in Nat
    BY <2>2, MatchingFinite, Zenon
  <2>4. Count(reqbuf, "START", r) = Count(reqbuf', "START", r) + Is(m, "START", r)
    BY <1>1, <1>3, <2>1, CountTail, SMT
  <2> HIDE DEF m
  <2>5. CASE m.rtype = "START" /\ StartStream(m.sensor, m.ticket)
    <3>1. m.sensor \in Sensors /\ m.ticket \in Regs
      BY <2>2, <2>5, RequestFields, Zenon
    <3>2. Is(m, "START", r) = IF r = m.ticket THEN 1 ELSE 0
      BY <2>5, SMT DEF Is
    <3>3. Count(reqbuf, "START", r) = Count(reqbuf', "START", r) + IF r = m.ticket THEN 1 ELSE 0
      BY <2>4, <3>2, Zenon
    <3> QED BY <1>1, <2>3, <2>5, <3>1, <3>3, StartStreamSlack, Zenon
  <2>6. ASSUME m.rtype # "START"
        PROVE  Count(reqbuf, "START", r) = Count(reqbuf', "START", r)
    <3>1. Is(m, "START", r) = 0
      BY <2>6, Zenon DEF Is
    <3> QED BY <2>3, <2>4, <3>1, SMT
  <2>7. CASE m.rtype = "STOP" /\ StopStream(m.sensor, m.ticket)
    <3>1. m.sensor \in Sensors /\ m.ticket \in Regs /\ m.rtype # "START"
      BY <2>2, <2>7, RequestFields, SMT
    <3> QED BY <1>1, <2>6, <2>7, <3>1, StopStreamSlack, Zenon
  <2>8. CASE m.rtype = "ONESHOT" /\ TakeOneshot(m.sensor, m.ticket)
    <3>1. m.rtype # "START" /\ UNCHANGED streams
      BY <2>8, SMT DEF TakeOneshot
    <3>2. Stopped(r) \notin out'
      <4>1. out' = {} \/ out' = {Answer(m.ticket)}
        BY <2>8, Zenon DEF TakeOneshot
      <4> QED BY <4>1, SMT DEF Stopped, Answer
    <3>3. Stopped(r) \in out <=> Stopped(r) \in out'
      BY <1>1, <3>2, Zenon
    <3>4. Count(reqbuf, "START", r) = Count(reqbuf', "START", r) + 0
          /\ Count(reqbuf', "START", r) \in Int /\ 0 \in Int
      BY <2>3, <2>6, <3>1, SMT
    <3>5. Slack(r)' = Slack(r) + 0
      BY <1>1, <3>1, <3>3, <3>4, SmSlackSame, Zenon
    <3> QED BY <3>5, SlackNow, SMTT(60)
  <2> QED BY <2>1, <2>5, <2>7, <2>8, Zenon
<1> QED BY <1>2, <1>3, Zenon

(* What a sample puts into out: an update for each stream, no STREAM_STOPPED. *)
LEMMA SampleOut ==
    ASSUME TypeOK, HandleSample, NEW r \in Regs
    PROVE  /\ out = {} /\ UNCHANGED <<streams, reqbuf, resbuf>>
           /\ Stopped(r) \notin out'
           /\ Updated(r) \in out' => StreamsOf(r) # {}
<1>1. out = {} /\ UNCHANGED <<streams, reqbuf, resbuf>>
  BY Zenon DEF HandleSample, Idle
<1>2. ASSUME NEW s \in Sensors, NEW caches, Deliver(s, caches)
      PROVE  Stopped(r) \notin out' /\ (Updated(r) \in out' => StreamsOf(r) # {})
  <2>1. out' = {Answer(t) : t \in oneshots[s]} \cup {Updated(q) : q \in streams[s]}
    BY <1>2, Zenon DEF Deliver
  <2>2. Stopped(r) \notin out'
    <3>1. /\ \A t \in oneshots[s] : Stopped(r) # Answer(t)
          /\ \A q \in streams[s] : Stopped(r) # Updated(q)
      BY SMT DEF Stopped, Answer, Updated
    <3> QED BY <2>1, <3>1, Zenon
  <2>3. ASSUME Updated(r) \in out' PROVE r \in streams[s]
    <3>1. PICK q \in streams[s] : Updated(r) = Updated(q)
      BY <2>1, <2>3, StoppedOnly, ZenonT(40)
    <3>2. r = q
      BY <3>1, SMT DEF Updated
    <3> QED BY <3>1, <3>2, Zenon
  <2> QED BY <2>2, <2>3, Zenon DEF StreamsOf
<1>3. CASE out' = out
  BY <1>1, <1>3, Zenon
<1>4. CASE LookAtSamples
  <2>1. ASSUME NEW n \in DOMAIN samples PROVE samples[n] \in Sensors
    BY QueueParts, Zenon DEF TypeOK, SmTypeOK
  <2>2. out' = out \/ \E n \in DOMAIN samples : \E caches : Deliver(samples[n], caches)
    BY <1>4, Zenon DEF LookAtSamples
  <2> QED BY <1>1, <1>2, <1>3, <2>1, <2>2, Zenon
<1>5. CASE LookAtCarriers
  <2>1. carried # <<>> => Head(carried) \in Sensors
    BY HeadTailProperties, SmAssumption, Zenon DEF TypeOK, SmTypeOK
  <2>2. out' = out \/ (carried # <<>> /\ Deliver(Head(carried), cache_valid))
    BY <1>5, Zenon DEF LookAtCarriers, GetCarrierEvent
  <2> QED BY <1>1, <1>2, <1>3, <2>1, <2>2, Zenon
<1> QED BY <1>1, <1>4, <1>5, Zenon DEF HandleSample

LEMMA PutResponseSlack ==
    ASSUME TypeOK, UNCHANGED coapVars, PutResponse, NEW r \in Regs
    PROVE  Slack(r)' = Slack(r)
<1>1. PICK m \in out : resbuf' = Append(resbuf, m) /\ out' = out \ {m}
  BY Zenon DEF PutResponse, First
<1>2. UNCHANGED <<streams, reqbuf>> /\ resbuf \in Seq(Response) /\ m \in Response
  BY <1>1, Zenon DEF PutResponse, TypeOK, SmTypeOK
<1>3. Count(resbuf', "STREAM_STOPPED", r)
        = Count(resbuf, "STREAM_STOPPED", r) + Is(m, "STREAM_STOPPED", r)
  BY <1>1, <1>2, CountAppend, SMT
<1>4. One(Stopped(r) \in out') = One(Stopped(r) \in out) - Is(m, "STREAM_STOPPED", r)
  <2>1. CASE m = Stopped(r)
    <3>1. Is(m, "STREAM_STOPPED", r) = 1
      BY <2>1, SMT DEF Is, Stopped
    <3>2. One(Stopped(r) \in out') = 0 /\ One(Stopped(r) \in out) = 1
      BY <1>1, <2>1, Zenon DEF One
    <3> QED BY <3>1, <3>2, SMT
  <2>2. CASE m # Stopped(r)
    <3>1. Is(m, "STREAM_STOPPED", r) = 0
      BY <1>2, <2>2, ResponseFields, Zenon DEF Is
    <3>2. One(Stopped(r) \in out') = One(Stopped(r) \in out)
      BY <1>1, <2>2, Zenon DEF One
    <3> QED BY <3>1, <3>2, PlacesNat, SMTT(60)
  <2> QED BY <2>1, <2>2, Zenon
<1>5. {s \in Sensors : r \in streams'[s]} = StreamsOf(r)
  BY <1>2, Zenon DEF StreamsOf
<1>6. Is(m, "STREAM_STOPPED", r) \in {0, 1} /\ UNCHANGED reqbuf
  BY <1>2, IsBit, Zenon
<1> QED BY <1>3, <1>4, <1>5, <1>6, PlacesNat, SlackNext, SMTT(60) DEF Slack, GivenAway, coapVars

(* A deferred START takes its reference with it: slack may grow.           *)
LEMMA DeferSlack ==
    ASSUME TypeOK, UNCHANGED coapVars, Defer, NEW r \in Regs
    PROVE  Slack(r)' >= Slack(r)
<1>1. UNCHANGED <<streams, resbuf>> /\ out' = out
  BY Zenon DEF Defer
<1>2. PICK d \in {0, 1} : /\ Count(reqbuf, "START", r) = Count(reqbuf', "START", r) + d
                          /\ Count(reqbuf', "START", r) \in Int
  <2>1. CASE reqbuf' = reqbuf
    BY <2>1, PlacesNat, SMTT(60)
  <2>2. CASE reqbuf # <<>> /\ reqbuf' = Tail(reqbuf)
    <3>1. reqbuf \in Seq(Request) /\ reqbuf' \in Seq(Request)
      BY <2>2, HeadTailProperties, Zenon DEF TypeOK
    <3>2. Count(reqbuf, "START", r) = Count(reqbuf', "START", r) + Is(Head(reqbuf), "START", r)
      BY <2>2, <3>1, CountTail, SMT
    <3>3. Count(reqbuf', "START", r) \in Nat
      BY <3>1, MatchingFinite, Zenon
    <3> QED BY <3>2, <3>3, IsBit, SMT
  <2> QED BY <2>1, <2>2, Zenon DEF Defer
<1>3. Slack(r)' = Slack(r) + d
  BY <1>1, <1>2, SmSlackSame, SMTT(60)
<1> QED BY <1>2, <1>3, SlackNow, SMTT(60)

(* No other thread touches the references: neither sensors nor carriers.   *)
LEMMA OthersSlack ==
    ASSUME TypeOK, UNCHANGED coapVars, UNCHANGED <<streams, out, reqbuf, resbuf>>, NEW r \in Regs
    PROVE  Slack(r)' = Slack(r)
<1>1. Slack(r)' = Slack(r) + 0
  BY PlacesNat, SmSlackSame, SMTT(60)
<1> QED BY <1>1, SlackNow, SMTT(60)

LEMMA SmSlack ==
    TypeOK /\ StreamMgr => \A r \in Regs : (Defer \/ Slack(r)' = Slack(r)) /\ Slack(r)' >= Slack(r)
<1> SUFFICES ASSUME TypeOK, SmNext, UNCHANGED coapVars, NEW r \in Regs
             PROVE  (Defer \/ Slack(r)' = Slack(r)) /\ Slack(r)' >= Slack(r)
  BY DEF StreamMgr
<1>1. Slack(r)' = Slack(r) => Slack(r)' >= Slack(r)
  BY SlackNow, SMTT(60)
<1>2. CASE HandleRequest
  BY <1>1, <1>2, HandleRequestSlack, Zenon
<1>3. CASE HandleSample
  <2>1. Stopped(r) \in out <=> Stopped(r) \in out'
    BY <1>3, SampleOut, Zenon
  <2>2. UNCHANGED <<streams, resbuf>> /\ UNCHANGED reqbuf
    BY <1>3, Zenon DEF HandleSample
  <2>3. Slack(r)' = Slack(r) + 0
    BY <2>1, <2>2, PlacesNat, SmSlackSame, SMTT(60)
  <2> QED BY <2>3, SlackNow, SMTT(60)
<1>4. CASE PutResponse
  BY <1>1, <1>4, PutResponseSlack, Zenon
<1>5. CASE WaitForRoom
  BY <1>1, <1>5, OthersSlack, Zenon DEF WaitForRoom
<1>6. CASE Defer
  BY <1>6, DeferSlack, Zenon
<1> QED BY <1>2, <1>3, <1>4, <1>5, <1>6, Zenon DEF SmNext
-----------------------------------------------------------------------------
(* As long as no ticket is given back past the buffer, updates stay        *)
(* covered.                                                                *)
LEMMA UpdatesStand ==
    ASSUME TicketInv, UpdatesOfStreams', UNCHANGED resbuf,
           \A r \in Regs : TicketOut(r) => TicketOut(r)'
    PROVE  UpdatesCovered'
<1> SUFFICES ASSUME NEW r \in Regs
             PROVE  /\ Updated(r) \in out' => TicketOut(r)'
                    /\ \A i \in DOMAIN resbuf' : resbuf'[i] = Updated(r) =>
                         TicketOut(r)' \/ \E j \in DOMAIN resbuf' : j > i /\ resbuf'[j] = Stopped(r)
  BY Zenon DEF UpdatesCovered
<1>1. Updated(r) \in out' => TicketOut(r)'
  BY Zenon DEF UpdatesOfStreams, TicketOut
<1>2. \A i \in DOMAIN resbuf : resbuf[i] = Updated(r) =>
         TicketOut(r)' \/ \E j \in DOMAIN resbuf : j > i /\ resbuf[j] = Stopped(r)
  BY Zenon DEF TicketInv, UpdatesCovered
<1>3. resbuf' = resbuf
  OBVIOUS
<1> QED BY <1>1, <1>2, <1>3, Zenon

LEMMA SameStreams ==
    ASSUME TicketInv, UNCHANGED <<streams, out>>
    PROVE  UpdatesOfStreams' /\ \A r \in Regs : TicketOut(r)' = TicketOut(r)
<1>1. \A r : StreamsOf(r)' = StreamsOf(r)
  BY Zenon DEF StreamsOf
<1>2. UpdatesOfStreams'
  BY <1>1, Zenon DEF TicketInv, UpdatesOfStreams
<1>3. ASSUME NEW r \in Regs PROVE TicketOut(r)' = TicketOut(r)
  BY <1>1, Zenon DEF TicketOut
<1> QED BY <1>2, <1>3, Zenon

LEMMA ServeUpdates ==
    ASSUME TicketInv, UNCHANGED smVars, resbuf # <<>>, resbuf' = Tail(resbuf)
    PROVE  UpdatesOfStreams' /\ UpdatesCovered'
<1>1. UpdatesOfStreams' /\ \A r \in Regs : TicketOut(r)' = TicketOut(r)
  <2>1. UNCHANGED <<streams, out>>
    BY Zenon DEF smVars
  <2> QED BY <2>1, SameStreams, Zenon
<1>2. resbuf \in Seq(Response)
  BY DEF TicketInv, TypeOK
<1>3. /\ \A i \in DOMAIN resbuf' : i \in Int /\ i + 1 \in DOMAIN resbuf /\ resbuf'[i] = resbuf[i + 1]
      /\ \A j \in DOMAIN resbuf, i \in DOMAIN resbuf' :
            j > i + 1 => j - 1 \in DOMAIN resbuf' /\ resbuf'[j - 1] = resbuf[j] /\ j - 1 > i
  <2>1. /\ DOMAIN resbuf = 1 .. Len(resbuf) /\ DOMAIN resbuf' = 1 .. Len(resbuf) - 1
        /\ Len(resbuf) \in Nat
        /\ \A i \in 1 .. Len(resbuf) - 1 : resbuf'[i] = resbuf[i + 1]
    BY <1>2, HeadTailProperties, SMT
  <2> QED BY <2>1, SMT
<1> SUFFICES ASSUME NEW r \in Regs
             PROVE  /\ Updated(r) \in out' => TicketOut(r)'
                    /\ \A i \in DOMAIN resbuf' : resbuf'[i] = Updated(r) =>
                         TicketOut(r)' \/ \E j \in DOMAIN resbuf' : j > i /\ resbuf'[j] = Stopped(r)
  BY <1>1, Zenon DEF UpdatesCovered
<1>4. Updated(r) \in out' => TicketOut(r)'
  BY <1>1, Zenon DEF UpdatesOfStreams, TicketOut
<1>5. ASSUME NEW i \in DOMAIN resbuf', resbuf'[i] = Updated(r)
      PROVE  TicketOut(r)' \/ \E j \in DOMAIN resbuf' : j > i /\ resbuf'[j] = Stopped(r)
  <2>1. i + 1 \in DOMAIN resbuf /\ resbuf[i + 1] = Updated(r)
    BY <1>3, <1>5, Zenon
  <2>2. TicketOut(r) \/ \E j \in DOMAIN resbuf : j > i + 1 /\ resbuf[j] = Stopped(r)
    BY <2>1, Zenon DEF TicketInv, UpdatesCovered
  <2>3. ASSUME NEW j \in DOMAIN resbuf, j > i + 1, resbuf[j] = Stopped(r)
        PROVE  j - 1 \in DOMAIN resbuf' /\ j - 1 > i /\ resbuf'[j - 1] = Stopped(r)
    BY <1>3, <2>3, Zenon
  <2> QED BY <1>1, <2>2, <2>3, Zenon
<1> QED BY <1>4, <1>5, Zenon

LEMMA PutResponseUpdates ==
    ASSUME TicketInv, PutResponse
    PROVE  UpdatesOfStreams' /\ UpdatesCovered'
<1>1. PICK m \in out : resbuf' = Append(resbuf, m) /\ out' = out \ {m}
  BY Zenon DEF PutResponse, First
<1>2. resbuf \in Seq(Response) /\ m \in Response
  BY <1>1, Zenon DEF TicketInv, TypeOK, SmTypeOK
<1>3. \A r : StreamsOf(r)' = StreamsOf(r)
  BY Zenon DEF StreamsOf, PutResponse
<1>4. UpdatesOfStreams'
  BY <1>1, <1>3, Zenon DEF TicketInv, UpdatesOfStreams
<1> DEFINE n == Len(resbuf) + 1
<1>5. /\ DOMAIN resbuf' = (DOMAIN resbuf) \cup {n} /\ resbuf'[n] = m
      /\ \A i \in DOMAIN resbuf : resbuf'[i] = resbuf[i] /\ n > i
  BY <1>1, <1>2, AppendProperties, SMT
<1> HIDE DEF n
<1>6. ASSUME NEW r \in Regs, TicketOut(r) PROVE TicketOut(r)' \/ m = Stopped(r)
  BY <1>1, <1>3, <1>6, Zenon DEF TicketOut
<1> SUFFICES ASSUME NEW r \in Regs
             PROVE  /\ Updated(r) \in out' => TicketOut(r)'
                    /\ \A i \in DOMAIN resbuf' : resbuf'[i] = Updated(r) =>
                         TicketOut(r)' \/ \E j \in DOMAIN resbuf' : j > i /\ resbuf'[j] = Stopped(r)
  BY <1>4, Zenon DEF UpdatesCovered
<1>7. Updated(r) \in out' => TicketOut(r)'
  BY <1>4, Zenon DEF UpdatesOfStreams, TicketOut
<1>8. ASSUME NEW i \in DOMAIN resbuf, resbuf[i] = Updated(r)
      PROVE  TicketOut(r)' \/ \E j \in DOMAIN resbuf' : j > i /\ resbuf'[j] = Stopped(r)
  <2>1. TicketOut(r) \/ \E j \in DOMAIN resbuf : j > i /\ resbuf[j] = Stopped(r)
    BY <1>8, Zenon DEF TicketInv, UpdatesCovered
  <2>2. CASE TicketOut(r)
    BY <1>5, <1>6, <2>2, Zenon
  <2>3. ASSUME NEW j \in DOMAIN resbuf, j > i, resbuf[j] = Stopped(r)
        PROVE  j \in DOMAIN resbuf' /\ resbuf'[j] = Stopped(r)
    BY <1>5, <2>3, Zenon
  <2> QED BY <2>1, <2>2, <2>3, Zenon
<1>9. ASSUME m = Updated(r) PROVE TicketOut(r)'
  BY <1>1, <1>3, <1>9, Zenon DEF TicketInv, UpdatesOfStreams, TicketOut
<1> QED BY <1>5, <1>7, <1>8, <1>9, Zenon

(* A stream ends only with a STREAM_STOPPED; a request puts no update.     *)
LEMMA HandleRequestUpdates ==
    ASSUME TicketInv, HandleRequest
    PROVE  UpdatesOfStreams' /\ UpdatesCovered'
<1>1. out = {} /\ UNCHANGED resbuf /\ streams \in [Sensors -> SUBSET Regs]
  BY Zenon DEF HandleRequest, Idle, TicketInv, TypeOK, SmTypeOK
<1>2. ASSUME NEW s, NEW q, StartStream(s, q) \/ StopStream(s, q) \/ TakeOneshot(s, q),
             NEW r \in Regs
      PROVE  Updated(r) \notin out' /\ (TicketOut(r) => TicketOut(r)')
  <2>1. out' \subseteq {Stopped(q), Answer(q)}
    BY <1>2, Zenon DEF StartStream, StopStream, TakeOneshot
  <2>2. Updated(r) # Stopped(q) /\ Updated(r) # Answer(q)
    BY SMT DEF Updated, Stopped, Answer
  <2>3. ASSUME NEW x \in StreamsOf(r) PROVE x \in StreamsOf(r)' \/ Stopped(r) \in out'
    <3>1. CASE StartStream(s, q)
      BY <1>1, <3>1, Zenon DEF StartStream, StreamsOf
    <3>2. CASE StopStream(s, q)
      BY <1>1, <3>2, Zenon DEF StopStream, StreamsOf
    <3>3. CASE TakeOneshot(s, q)
      BY <1>1, <3>3, Zenon DEF TakeOneshot, StreamsOf
    <3> QED BY <1>2, <3>1, <3>2, <3>3, Zenon
  <2> QED BY <1>1, <2>1, <2>2, <2>3, Zenon DEF TicketOut
<1>3. CASE UNCHANGED <<streams, out>>
  BY <1>1, <1>3, SameStreams, UpdatesStand, Zenon
<1>4. ASSUME NEW s, NEW q, StartStream(s, q) \/ StopStream(s, q) \/ TakeOneshot(s, q)
      PROVE  UpdatesOfStreams' /\ UpdatesCovered'
  <2>1. UpdatesOfStreams'
    BY <1>2, <1>4, Zenon DEF UpdatesOfStreams
  <2> QED BY <1>1, <1>2, <1>4, <2>1, UpdatesStand, Zenon
<1> QED BY <1>3, <1>4, Zenon DEF HandleRequest

LEMMA CoapUpdates == TicketInv /\ Coap => UpdatesOfStreams' /\ UpdatesCovered'
<1> SUFFICES ASSUME TicketInv, CoapNext, UNCHANGED smVars
             PROVE  UpdatesOfStreams' /\ UpdatesCovered'
  BY DEF Coap
<1>1. CASE resbuf' = resbuf
  <2>1. UNCHANGED <<streams, out>>
    BY Zenon DEF smVars
  <2> QED BY <1>1, <2>1, SameStreams, UpdatesStand, Zenon
<1>2. CASE resbuf # <<>> /\ resbuf' = Tail(resbuf)
  BY <1>2, ServeUpdates, Zenon
<1> QED BY <1>1, <1>2, Zenon DEF CoapNext, GiveUp, Retransmitted, Network, PutRequest, Serve

LEMMA SmUpdates == TicketInv /\ StreamMgr => UpdatesOfStreams' /\ UpdatesCovered'
<1> SUFFICES ASSUME TicketInv, SmNext PROVE UpdatesOfStreams' /\ UpdatesCovered'
  BY DEF StreamMgr
<1>1. CASE HandleSample
  <2>1. \A r : StreamsOf(r)' = StreamsOf(r)
    BY <1>1, Zenon DEF HandleSample, StreamsOf
  <2>2. UpdatesOfStreams'
    BY <1>1, <2>1, SampleOut, Zenon DEF TicketInv, UpdatesOfStreams
  <2>3. ASSUME NEW r \in Regs PROVE TicketOut(r) => TicketOut(r)'
    <3>1. out = {}
      BY <1>1, Zenon DEF HandleSample, Idle
    <3> QED BY <2>1, <3>1, Zenon DEF TicketOut
  <2>4. UNCHANGED resbuf
    BY <1>1, Zenon DEF HandleSample
  <2> QED BY <2>2, <2>3, <2>4, UpdatesStand, Zenon
<1>2. CASE WaitForRoom \/ Defer
  <2>1. UNCHANGED <<streams, out>> /\ UNCHANGED resbuf
    BY <1>2, Zenon DEF WaitForRoom, Defer
  <2> QED BY <2>1, SameStreams, UpdatesStand, Zenon
<1> QED BY <1>1, <1>2, HandleRequestUpdates, PutResponseUpdates, Zenon DEF SmNext
-----------------------------------------------------------------------------
(* The induction step: every step of the process keeps the invariant, and  *)
(* loses no reference unless a put has timed out.                          *)
LEMMA OtherSteps ==
    ASSUME TicketInv, TypeOK', UNCHANGED coapVars, UNCHANGED <<streams, out, reqbuf, resbuf>>
    PROVE  TicketInv' /\ \A r \in Regs : Slack(r)' = Slack(r)
<1>1. UpdatesOfStreams' /\ UpdatesCovered'
  BY SameStreams, UpdatesStand, Zenon
<1>2. UnusedUncounted'
  BY Zenon DEF TicketInv, UnusedUncounted, Alive, coapVars
<1>3. ASSUME NEW r \in Regs PROVE Slack(r)' = Slack(r)
  BY OthersSlack, Zenon DEF TicketInv
<1>4. TicketsCovered'
  <2> SUFFICES ASSUME NEW r \in Regs PROVE GivenAway(r)' <= reg'[r].ref
    BY Zenon DEF TicketsCovered
  <2> QED BY <1>3, SlackStays, Zenon DEF TicketInv
<1> QED BY <1>1, <1>2, <1>3, <1>4, Zenon DEF TicketInv

LEMMA TicketStep ==
    TicketInv /\ [Next]_vars
      => TicketInv' /\ \A r \in Regs : MayTimeOut \/ Slack(r)' = Slack(r)
<1> SUFFICES ASSUME TicketInv, [Next]_vars
             PROVE  TicketInv' /\ \A r \in Regs : MayTimeOut \/ Slack(r)' = Slack(r)
  OBVIOUS
<1>0. TypeOK
  BY DEF TicketInv
<1>1. CASE Coap
  <2>1. TypeOK'
    BY <1>0, <1>1, CoapTypes, InvTransAlive, Zenon
  <2>2. UnusedUncounted' /\ \A r \in Regs : Slack(r)' = Slack(r)
    BY <1>1, CoapSlack, Zenon
  <2>3. UpdatesOfStreams' /\ UpdatesCovered'
    BY <1>1, CoapUpdates, Zenon
  <2>4. TicketsCovered'
    <3> SUFFICES ASSUME NEW r \in Regs PROVE GivenAway(r)' <= reg'[r].ref
      BY Zenon DEF TicketsCovered
    <3> QED BY <2>1, <2>2, SlackStays, Zenon DEF TicketInv
  <2> QED BY <2>1, <2>2, <2>3, <2>4, Zenon DEF TicketInv
<1>2. CASE StreamMgr
  <2>1. TypeOK'
    BY <1>0, <1>2, SmTypes, Zenon
  <2>2. \A r \in Regs : (Defer \/ Slack(r)' = Slack(r)) /\ Slack(r)' >= Slack(r)
    BY <1>0, <1>2, SmSlack, Zenon
  <2>3. UpdatesOfStreams' /\ UpdatesCovered'
    BY <1>2, SmUpdates, Zenon
  <2>4. UnusedUncounted'
    BY <1>2, Zenon DEF TicketInv, UnusedUncounted, Alive, StreamMgr, coapVars
  <2>5. TicketsCovered'
    <3> SUFFICES ASSUME NEW r \in Regs PROVE GivenAway(r)' <= reg'[r].ref
      BY Zenon DEF TicketsCovered
    <3> QED BY <2>1, <2>2, SlackGrows, Zenon DEF TicketInv
  <2> QED BY <2>1, <2>2, <2>3, <2>4, <2>5, Zenon DEF TicketInv, Defer
<1>3. ASSUME NEW s \in Sensors, Sensor(s)
      PROVE  TicketInv' /\ \A r \in Regs : Slack(r)' = Slack(r)
  <2>1. TypeOK'
    BY <1>0, <1>3, SensorTypes, Zenon
  <2> QED BY <1>3, <2>1, OtherSteps, Zenon DEF Sensor, Sample
<1>4. ASSUME NEW s \in EventBased, Carrier(s)
      PROVE  TicketInv' /\ \A r \in Regs : Slack(r)' = Slack(r)
  <2>1. TypeOK'
    BY <1>0, <1>4, CarrierTypes, Zenon
  <2> QED BY <1>4, <2>1, OtherSteps, Zenon
          DEF Carrier, Carry, CarrierLooks, CarrierReads, CarrierLeaves, CarrierSteps
<1>5. CASE UNCHANGED vars
  <2>1. TypeOK'
    BY <1>0, <1>5, StutterTypes, Zenon
  <2> QED BY <1>5, <2>1, OtherSteps, Zenon DEF vars, smVars
<1> QED BY <1>1, <1>2, <1>3, <1>4, <1>5, Zenon DEF Next, Dead

THEOREM Inductive == Spec => []TicketInv
<1>1. TicketInv /\ [Next]_vars => TicketInv'
  BY TicketStep, Zenon
<1> QED BY <1>1, InitTicketInv, PTL DEF Spec

(* Every variable has its type in every state: in particular the buffers   *)
(* never hold more than their slots, and the CoAP thread finds the sensor  *)
(* of every registration that a transaction names.                         *)
THEOREM TypeCorrect == Spec => []TypeOK
<1>1. TicketInv => TypeOK
  BY DEF TicketInv
<1> QED BY <1>1, Inductive, PTL

(* The tickets that the Streaming Manager will give back and the           *)
(* transactions that will end never exceed the references counted.         *)
THEOREM NoReleaseFromNowhere == Spec => []TicketsCovered
<1>1. TicketInv => TicketsCovered
  BY DEF TicketInv
<1> QED BY <1>1, Inductive, PTL

(* The STREAM_STOPPED of a ticket never overtakes an update.               *)
THEOREM UpdatesBeforeStop == Spec => []UpdatesCovered
<1>1. TicketInv => UpdatesCovered
  BY DEF TicketInv
<1> QED BY <1>1, Inductive, PTL

(* No stream, response or transaction names a registration that has been   *)
(* freed: the CoAP thread never looks at, nor releases, freed memory.      *)
THEOREM NoUseAfterFree == Spec => []NoDanglingTicket
<1>1. TicketInv => NoDanglingTicket
  <2> SUFFICES ASSUME TicketInv, NEW r \in Regs,
                      \/ trans[r] > 0
                      \/ StreamsOf(r) # {}
                      \/ \E k \in {"STREAM_UPDATE", "STREAM_STOPPED"} : Count(resbuf, k, r) > 0
               PROVE  Alive(r)
    BY Zenon DEF NoDanglingTicket
  <2>1. CASE trans[r] > 0 \/ StreamsOf(r) # {} \/ Count(resbuf, "STREAM_STOPPED", r) > 0
    BY <2>1, GivenAwayAlive, Zenon DEF TicketInv
  <2>2. CASE Count(resbuf, "STREAM_UPDATE", r) > 0
    <3>1. PICK i \in DOMAIN resbuf : resbuf[i].rtype = "STREAM_UPDATE" /\ resbuf[i].ticket = r
      BY <2>2, CountedIs, SMT
    <3>2. resbuf[i] \in Response
      BY <3>1, SMT DEF TicketInv, TypeOK
    <3>3. resbuf[i] = Updated(r)
      BY <3>1, <3>2, ResponseFields, Zenon
    <3> QED BY <3>3, UpdateAlive, Zenon
  <2> QED BY <2>1, <2>2, Zenon
<1> QED BY <1>1, Inductive, PTL

(* Without timeouts, no reference is lost either: when the last ticket of  *)
(* a registration has come back, it has been freed.                        *)
THEOREM NoReferenceLost == ASSUME ~MayTimeOut PROVE Spec => []TicketsBalance
<1> DEFINE Balanced == TicketInv /\ \A r \in Regs : Slack(r) = 0
<1>1. Init => Balanced
  <2> SUFFICES ASSUME Init, NEW r \in Regs PROVE Slack(r) = 0
    BY InitTicketInv, Zenon
  <2>1. GivenAway(r) = 0 /\ reg[r].ref = 0
    BY InitSum, Zenon
  <2> QED BY <2>1, SMT DEF Slack
<1>2. Balanced /\ [Next]_vars => Balanced'
  <2> SUFFICES ASSUME Balanced, [Next]_vars PROVE Balanced'
    OBVIOUS
  <2>1. TicketInv' /\ \A r \in Regs : Slack(r)' = Slack(r)
    BY TicketStep, Zenon
  <2> QED BY <2>1, Zenon
<1>3. Balanced => TicketsBalance
  <2> SUFFICES ASSUME Balanced, NEW r \in Regs PROVE GivenAway(r) = reg[r].ref
    BY Zenon DEF TicketsBalance
  <2>1. Slack(r) = 0 /\ TypeOK
    BY Zenon DEF TicketInv
  <2> QED BY <2>1, PlacesNat, SMTT(60) DEF Slack, GivenAway
<1> HIDE DEF Balanced
<1> QED BY <1>1, <1>2, <1>3, PTL DEF Spec
-----------------------------------------------------------------------------
(* The sensor that is to be turned off once the responses are put is       *)
(* needed no more, and it stays so: until then nothing is handled.         *)
ClosingUnneeded == /\ out = {} => closing = {}
                   /\ \A s \in closing : ~Needed(s)

(* What a sample leaves to be turned off, and what it leaves needed. *)
LEMMA DeliverCloses ==
    ASSUME TypeOK, closing = {}, UNCHANGED streams, NEW s \in Sensors, NEW caches, Deliver(s, caches)
    PROVE  /\ ClosingUnneeded'
           /\ \A x \in Sensors \ closing' : Needed(x)' <=> Needed(x)
<1>1. /\ oneshots \in [Sensors -> SUBSET Tids]
      /\ oneshots' = [oneshots EXCEPT ![s] = {}]
      /\ closing' = IF oneshots[s] # {} /\ streams[s] = {} THEN {s} ELSE {}
  BY Zenon DEF TypeOK, SmTypeOK, Deliver
<1>2. oneshots'[s] = {} /\ \A x \in Sensors : x # s => oneshots'[x] = oneshots[x]
  BY <1>1, Zenon
<1>3. out' = {} => closing' = {}
  <2>1. ASSUME NEW t \in oneshots[s] PROVE Answer(t) \in out'
    BY Zenon DEF Deliver
  <2>2. CASE oneshots[s] = {}
    BY <1>1, <2>2, Zenon
  <2>3. CASE oneshots[s] # {}
    BY <2>1, <2>3, Zenon
  <2> QED BY <2>2, <2>3, Zenon
<1>4. \A x \in closing' : ~Needed(x)'
  <2>1. CASE closing' = {}
    BY <2>1, Zenon
  <2>2. CASE closing' = {s} /\ streams[s] = {}
    BY <1>2, <2>2, Zenon DEF Needed
  <2> QED BY <1>1, <2>1, <2>2, Zenon
<1>5. ASSUME NEW x \in Sensors \ closing' PROVE Needed(x)' <=> Needed(x)
  <2>1. CASE x # s
    BY <1>2, <2>1, Zenon DEF Needed
  <2>2. CASE x = s
    <3>1. oneshots[s] = {} \/ streams[s] # {}
      BY <1>1, <1>5, <2>2, Zenon
    <3> QED BY <1>2, <2>2, <3>1, Zenon DEF Needed
  <2> QED BY <2>1, <2>2, Zenon
<1> QED BY <1>3, <1>4, <1>5, Zenon DEF ClosingUnneeded

(* A look for a sample finds none to deliver, or delivers it.              *)
LEMMA SampleCloses ==
    ASSUME TypeOK, ClosingUnneeded, HandleSample
    PROVE  /\ closing = {} /\ UNCHANGED <<streams, is_active, crashed>>
           /\ ClosingUnneeded'
           /\ \A x \in Sensors \ closing' : Needed(x)' <=> Needed(x)
<1>1. closing = {} /\ UNCHANGED <<streams, is_active, crashed>>
  BY Zenon DEF HandleSample, Idle, ClosingUnneeded
<1>2. CASE UNCHANGED <<oneshots, closing>>
  BY <1>1, <1>2, Zenon DEF ClosingUnneeded, Needed
<1>3. ASSUME NEW n \in DOMAIN samples PROVE samples[n] \in Sensors
  BY QueueParts, Zenon DEF TypeOK, SmTypeOK
<1>4. carried # <<>> => Head(carried) \in Sensors
  BY HeadTailProperties, SmAssumption, Zenon DEF TypeOK, SmTypeOK
<1>5. \/ UNCHANGED <<oneshots, closing>>
      \/ \E n \in DOMAIN samples : \E caches : Deliver(samples[n], caches)
      \/ carried # <<>> /\ Deliver(Head(carried), cache_valid)
  BY Zenon DEF HandleSample, LookAtSamples, LookAtCarriers, GetCarrierEvent
<1> QED BY <1>1, <1>2, <1>3, <1>4, <1>5, DeliverCloses, Zenon

LEMMA InitCloses == Init => ClosingUnneeded
  BY Zenon DEF Init, SmInit, ClosingUnneeded

LEMMA StepCloses == TypeOK /\ ClosingUnneeded /\ [Next]_vars => ClosingUnneeded'
<1> SUFFICES ASSUME TypeOK, ClosingUnneeded, [Next]_vars PROVE ClosingUnneeded'
  OBVIOUS
<1>1. CASE UNCHANGED <<streams, oneshots, out, closing>>
  BY <1>1, Zenon DEF ClosingUnneeded, Needed
<1>2. CASE HandleRequest
  <2>1. closing' = {}
    BY <1>2, Zenon DEF HandleRequest, Idle, ClosingUnneeded
  <2> QED BY <2>1, Zenon DEF ClosingUnneeded
<1>3. CASE HandleSample
  BY <1>3, SampleCloses, Zenon
<1>4. CASE PutResponse
  <2>1. /\ UNCHANGED <<streams, oneshots>>
        /\ closing' = {} \/ (out' # {} /\ closing' = closing)
    BY <1>4, Zenon DEF PutResponse
  <2> QED BY <2>1, Zenon DEF ClosingUnneeded, Needed
<1>5. CASE WaitForRoom \/ Defer
  BY <1>1, <1>5, Zenon DEF WaitForRoom, Defer
<1>6. ASSUME NEW s, Sensor(s) \/ Carrier(s) PROVE ClosingUnneeded'
  BY <1>1, <1>6, Zenon
     DEF Sensor, Sample, Carrier, Carry, CarrierLooks, CarrierReads, CarrierLeaves, CarrierSteps
<1>7. CASE Coap \/ UNCHANGED vars
  BY <1>1, <1>7, Zenon DEF Coap, vars, smVars
<1> QED BY <1>2, <1>3, <1>4, <1>5, <1>6, <1>7, Zenon DEF Next, StreamMgr, SmNext, Dead

(* A step switches sensor s on or off as it is needed. *)
Switched(s) == /\ is_active[s] /\ ~is_active'[s] => ~Needed(s)'
               /\ ~is_active[s] /\ is_active'[s] => Needed(s)'

(* Turning on, whether it succeeds or not, concerns one sensor. *)
LEMMA ActivateOne ==
    ASSUME TypeOK, NEW s \in Sensors, Activate(s) \/ EnsureActive(s), NEW x \in Sensors
    PROVE  /\ is_active'[x] = is_active[x] \/ (x = s /\ is_active'[x])
           /\ ~SensorsFail => is_active'[x] = (is_active[x] \/ x = s)
<1>1. is_active \in [Sensors -> BOOLEAN]
  BY Zenon DEF TypeOK, SmTypeOK
<1>2. CASE Activate(s)
  <2>1. CASE is_active' = [is_active EXCEPT ![s] = TRUE]
    BY <1>1, <2>1, Zenon
  <2>2. CASE is_active' = is_active /\ SensorsFail
    BY <2>2, Zenon
  <2> QED BY <1>2, <2>1, <2>2, Zenon DEF Activate
<1>3. CASE is_active[s] /\ UNCHANGED is_active
  BY <1>1, <1>3, Zenon
<1> QED BY <1>2, <1>3, Zenon DEF EnsureActive

LEMMA TurnOffThose ==
    ASSUME TypeOK, NEW S, NEW caches, TurnOff(S, caches), NEW x \in Sensors
    PROVE  /\ is_active'[x] = is_active[x] \/ (x \in S /\ ~is_active'[x])
           /\ ~SensorsFail => is_active'[x] = (is_active[x] /\ x \notin S)
<1>1. is_active \in [Sensors -> BOOLEAN]
  BY Zenon DEF TypeOK, SmTypeOK
<1>2. CASE is_active' = [y \in Sensors |-> is_active[y] /\ y \notin S]
  BY <1>1, <1>2, Zenon
<1>3. CASE is_active' = is_active /\ SensorsFail
  BY <1>3, Zenon
<1> QED BY <1>2, <1>3, Zenon DEF TurnOff

(* What a request does to the sensors. *)
LEMMA RequestSwitches ==
    ASSUME TypeOK, NEW s \in Sensors, NEW q,
           StartStream(s, q) \/ StopStream(s, q) \/ TakeOneshot(s, q), NEW x \in Sensors
    PROVE  /\ Switched(x)
           /\ ~SensorsFail /\ ~crashed' /\ (is_active[x] <=> Needed(x))
                 => (is_active'[x] <=> Needed(x)')
<1>1. /\ streams \in [Sensors -> SUBSET Regs] /\ oneshots \in [Sensors -> SUBSET Tids]
      /\ is_active \in [Sensors -> BOOLEAN]
  BY Zenon DEF TypeOK, SmTypeOK
<1>2. CASE StartStream(s, q)
  <2>1. /\ streams' = [streams EXCEPT ![s] = @ \cup {q}] /\ UNCHANGED oneshots
        /\ EnsureActive(s)
    BY <1>2, Zenon DEF StartStream
  <2>2. CASE x = s
    <3>1. Needed(x)'
      BY <1>1, <2>1, <2>2, Zenon DEF Needed
    <3> QED BY <2>1, <2>2, <3>1, ActivateOne, Zenon DEF Switched
  <2>3. CASE x # s
    <3>1. Needed(x)' <=> Needed(x)
      BY <1>1, <2>1, <2>3, Zenon DEF Needed
    <3> QED BY <2>1, <2>3, <3>1, ActivateOne, Zenon DEF Switched
  <2> QED BY <2>2, <2>3, Zenon
<1>3. CASE StopStream(s, q)
  <2>1. CASE q \notin streams[s]
    <3>1. UNCHANGED <<streams, oneshots, is_active>>
      BY <1>3, <2>1, Zenon DEF StopStream
    <3> QED BY <3>1, Zenon DEF Switched, Needed
  <2>2. CASE q \in streams[s]
    <3>1. streams' = [streams EXCEPT ![s] = @ \ {q}] /\ UNCHANGED oneshots
      BY <1>3, <2>2, Zenon DEF StopStream
    <3>2. CASE streams[s] = {q} /\ oneshots[s] = {}
      <4>1. TurnOff({s}, cache_valid)
        BY <1>3, <2>2, <3>2, Zenon DEF StopStream
      <4>2. CASE x = s
        <5>1. ~Needed(x)'
          BY <1>1, <3>1, <3>2, <4>2, Zenon DEF Needed
        <5> QED BY <4>1, <4>2, <5>1, TurnOffThose, Zenon DEF Switched
      <4>3. CASE x # s
        <5>1. Needed(x)' <=> Needed(x)
          BY <1>1, <3>1, <4>3, Zenon DEF Needed
        <5>2. x \notin {s}
          BY <4>3, Zenon
        <5>3. is_active'[x] = is_active[x]
          BY <4>1, <5>2, TurnOffThose, Zenon
        <5> QED BY <5>1, <5>3, Zenon DEF Switched
      <4> QED BY <4>2, <4>3, Zenon
    <3>3. CASE ~(streams[s] = {q} /\ oneshots[s] = {})
      <4>1. UNCHANGED is_active /\ crashed' = (streams[s] = {q})
        BY <1>3, <2>2, <3>3, Zenon DEF StopStream
      <4>2. ~crashed' => (Needed(x)' <=> Needed(x))
        <5>1. CASE x # s
          BY <1>1, <3>1, <5>1, Zenon DEF Needed
        <5>2. CASE x = s /\ streams[s] # {q}
          <6>1. streams[s] \ {q} # {} /\ streams[s] # {}
            BY <2>2, <5>2, Zenon
          <6> QED BY <1>1, <3>1, <5>2, <6>1, Zenon DEF Needed
        <5> QED BY <4>1, <5>1, <5>2, Zenon
      <4> QED BY <4>1, <4>2, Zenon DEF Switched
    <3> QED BY <3>2, <3>3, Zenon
  <2> QED BY <2>1, <2>2, Zenon
<1>4. CASE TakeOneshot(s, q)
  <2>1. CASE cache_valid[s]
    <3>1. UNCHANGED <<streams, oneshots, is_active>>
      BY <1>4, <2>1, Zenon DEF TakeOneshot
    <3> QED BY <3>1, Zenon DEF Switched, Needed
  <2>2. CASE ~cache_valid[s]
    <3>1. /\ oneshots' = [oneshots EXCEPT ![s] = @ \cup {q}] /\ UNCHANGED streams
          /\ Activate(s)
      BY <1>4, <2>2, Zenon DEF TakeOneshot
    <3>2. CASE x = s
      <4>1. Needed(x)'
        BY <1>1, <3>1, <3>2, Zenon DEF Needed
      <4> QED BY <3>1, <3>2, <4>1, ActivateOne, Zenon DEF Switched
    <3>3. CASE x # s
      <4>1. Needed(x)' <=> Needed(x)
        BY <1>1, <3>1, <3>3, Zenon DEF Needed
      <4> QED BY <3>1, <3>3, <4>1, ActivateOne, Zenon DEF Switched
    <3> QED BY <3>2, <3>3, Zenon
  <2> QED BY <2>1, <2>2, Zenon
<1> QED BY <1>2, <1>3, <1>4, Zenon

(* What a step does to the sensors.  Only a request that is there, and the *)
(* last response of a sample, turn one on or off.                          *)
LEMMA StepSwitches ==
    ASSUME TypeOK, ClosingUnneeded, [Next]_vars, NEW x \in Sensors
    PROVE  /\ Switched(x)
           /\ SensorsOnDemand /\ ~SensorsFail /\ ~crashed' /\ x \notin closing'
                 => (is_active'[x] <=> Needed(x)')
<1>1. CASE UNCHANGED <<streams, oneshots, is_active, closing, crashed>>
  BY <1>1, Zenon DEF SensorsOnDemand, Switched, Needed
<1>2. CASE HandleRequest
  <2>1. CASE reqbuf = <<>>
    BY <1>1, <1>2, <2>1, Zenon DEF HandleRequest
  <2>2. CASE reqbuf # <<>>
    <3> DEFINE m == Head(reqbuf)
    <3>1. m \in Request
      BY <2>2, HeadTailProperties, Zenon DEF TypeOK
    <3>2. \/ StartStream(m.sensor, m.ticket) \/ StopStream(m.sensor, m.ticket)
          \/ TakeOneshot(m.sensor, m.ticket)
      BY <1>2, <2>2, Zenon DEF HandleRequest
    <3> HIDE DEF m
    <3>3. m.sensor \in Sensors /\ ~crashed /\ closing = {}
      BY <1>2, <3>1, RequestFields, Zenon DEF HandleRequest, Idle, ClosingUnneeded
    <3>4. SensorsOnDemand /\ ~SensorsFail => (is_active[x] <=> Needed(x))
      BY <3>3, Zenon DEF SensorsOnDemand
    <3> QED BY <3>2, <3>3, <3>4, RequestSwitches, Zenon
  <2> QED BY <2>1, <2>2, Zenon
<1>3. CASE HandleSample
  <2>1. SensorsOnDemand /\ ~SensorsFail /\ ~crashed => (is_active[x] <=> Needed(x))
    BY <1>3, SampleCloses, Zenon DEF SensorsOnDemand
  <2> QED BY <1>3, <2>1, SampleCloses, Zenon DEF Switched
<1>4. CASE PutResponse
  <2>1. UNCHANGED <<streams, oneshots, crashed>>
    BY <1>4, Zenon DEF PutResponse
  <2>2. CASE UNCHANGED <<is_active, closing>>
    BY <1>1, <2>1, <2>2, Zenon
  <2>3. CASE TurnOff(closing, cache_valid) /\ closing' = {}
    <3>1. Needed(x)' <=> Needed(x)
      BY <2>1, Zenon DEF Needed
    <3>2. x \in closing => ~Needed(x)
      BY Zenon DEF ClosingUnneeded
    <3>3. SensorsOnDemand /\ ~SensorsFail /\ ~crashed /\ x \notin closing
             => (is_active[x] <=> Needed(x))
      BY Zenon DEF SensorsOnDemand
    <3> QED BY <2>1, <2>3, <3>1, <3>2, <3>3, TurnOffThose, Zenon DEF Switched
  <2> QED BY <1>4, <2>2, <2>3, Zenon DEF PutResponse
<1>5. CASE WaitForRoom \/ Defer
  BY <1>1, <1>5, Zenon DEF WaitForRoom, Defer
<1>6. ASSUME NEW s, Sensor(s) \/ Carrier(s)
      PROVE  UNCHANGED <<streams, oneshots, is_active, closing, crashed>>
  BY <1>6, Zenon
     DEF Sensor, Sample, Carrier, Carry, CarrierLooks, CarrierReads, CarrierLeaves, CarrierSteps
<1>7. CASE Coap \/ UNCHANGED vars
  BY <1>1, <1>7, Zenon DEF Coap, vars, smVars
<1> QED BY <1>1, <1>2, <1>3, <1>4, <1>5, <1>6, <1>7, Zenon DEF Next, StreamMgr, SmNext, Dead

(* A sensor is turned off only when nothing needs it any more, also after  *)
(* the answers to its one-shots, which wait for room meanwhile, and turned *)
(* on only for a stream or a one-shot - whether Android fails or not.      *)
THEOREM NotUnderItsStreams == Spec => SwitchedOnDemand
<1>1. TypeOK /\ ClosingUnneeded /\ [Next]_vars
        => [\A s \in Sensors : /\ is_active[s] /\ ~is_active'[s] => ~Needed(s)'
                               /\ ~is_active[s] /\ is_active'[s] => Needed(s)']_vars
  BY StepSwitches, Zenon DEF Switched
<1> QED BY <1>1, InitCloses, StepCloses, TypeCorrect, PTL DEF Spec, SwitchedOnDemand

(* Where Android never fails, the callers that ignore the result of        *)
(* turning a sensor on or off do no harm: it is on exactly while a stream  *)
(* or a one-shot needs it, or while the answers to its last one-shots are  *)
(* put, until the process is killed.                                       *)
THEOREM OnOnDemand == ASSUME ~SensorsFail PROVE Spec => []SensorsOnDemand
<1>1. Init => SensorsOnDemand
  BY Zenon DEF Init, SmInit, SensorsOnDemand, Needed
<1>2. TypeOK /\ ClosingUnneeded /\ SensorsOnDemand /\ [Next]_vars => SensorsOnDemand'
  BY StepSwitches, Zenon DEF SensorsOnDemand
<1> QED BY <1>1, <1>2, InitCloses, StepCloses, TypeCorrect, PTL DEF Spec
-----------------------------------------------------------------------------
IsStart(m, r) == m.rtype = "START" /\ m.ticket = r
IsStop(m, r) == m.rtype = "STOP" /\ m.ticket = r

(* A STOP of r is in the queue; a START of r is in it before a STOP of r.  *)
HasStop(q, r) == \E i \in DOMAIN q : IsStop(q[i], r)
StartThenStop(q, r) ==
    \E i \in DOMAIN q : /\ IsStop(q[i], r)
                        /\ \E j \in DOMAIN q : j < i /\ IsStart(q[j], r)

LEMMA StopsOfTail ==
    ASSUME NEW S, NEW q \in Seq(S), q # <<>>, NEW r
    PROVE  /\ HasStop(Tail(q), r) => HasStop(q, r)
           /\ StartThenStop(Tail(q), r) => StartThenStop(q, r)
           /\ IsStart(Head(q), r) /\ HasStop(Tail(q), r) => StartThenStop(q, r)
<1>1. /\ \A i \in DOMAIN Tail(q) : i + 1 \in DOMAIN q /\ Tail(q)[i] = q[i + 1] /\ 1 < i + 1
      /\ 1 \in DOMAIN q /\ Head(q) = q[1]
      /\ \A i, j \in DOMAIN Tail(q) : j < i => j + 1 < i + 1
  <2>1. /\ DOMAIN q = 1 .. Len(q) /\ Len(q) \in Nat /\ Len(q) > 0
        /\ DOMAIN Tail(q) = 1 .. Len(q) - 1
        /\ \A i \in 1 .. Len(q) - 1 : Tail(q)[i] = q[i + 1]
        /\ Head(q) = q[1]
    BY HeadTailProperties, SMT
  <2> QED BY <2>1, SMT
<1> QED BY <1>1, Zenon DEF HasStop, StartThenStop

(* A message at the end that is no STOP of r changes neither.              *)
LEMMA StopsOfAppend ==
    ASSUME NEW S, NEW q \in Seq(S), NEW m \in S, NEW r, ~IsStop(m, r)
    PROVE  /\ HasStop(Append(q, m), r) => HasStop(q, r)
           /\ StartThenStop(Append(q, m), r) => StartThenStop(q, r)
<1> DEFINE u == Append(q, m)
           n == Len(q) + 1
<1>1. /\ \A i \in DOMAIN u : i # n => i \in DOMAIN q /\ u[i] = q[i]
      /\ u[n] = m
      /\ \A i \in DOMAIN q, j \in DOMAIN u : j < i => j # n
  <2>1. /\ DOMAIN q = 1 .. Len(q) /\ Len(q) \in Nat /\ DOMAIN u = 1 .. Len(q) + 1
        /\ u[Len(q) + 1] = m
        /\ \A i \in 1 .. Len(q) : u[i] = q[i]
    BY AppendProperties, SMT
  <2> HIDE DEF u
  <2> QED BY <2>1, SMT
<1> HIDE DEF u, n
<1>2. HasStop(u, r) => HasStop(q, r)
  BY <1>1, Zenon DEF HasStop
<1>3. StartThenStop(u, r) => StartThenStop(q, r)
  BY <1>1, Zenon DEF StartThenStop
<1> QED BY <1>2, <1>3, Zenon DEF u

(* Taking the head, and moving the head of the one queue to the other.     *)
LEMMA PendingParts ==
    ASSUME NEW S, NEW q \in Seq(S), NEW u \in Seq(S)
    PROVE  /\ q \o u \in Seq(S)
           /\ q # <<>> => q \o u # <<>> /\ Head(q \o u) = Head(q) /\ Tail(q \o u) = Tail(q) \o u
           /\ u # <<>> => Append(q, Head(u)) \o Tail(u) = q \o u
<1>1. /\ q \o u \in Seq(S) /\ Len(q \o u) = Len(q) + Len(u) /\ Len(q) \in Nat /\ Len(u) \in Nat
      /\ \A i \in 1 .. Len(q) + Len(u) :
            (q \o u)[i] = IF i <= Len(q) THEN q[i] ELSE u[i - Len(q)]
  BY ConcatProperties, SMT
<1>2. ASSUME q # <<>>
      PROVE  q \o u # <<>> /\ Head(q \o u) = Head(q) /\ Tail(q \o u) = Tail(q) \o u
  <2> DEFINE w == q \o u
             v == Tail(q)
             x == v \o u
  <2>1. /\ v \in Seq(S) /\ Len(v) = Len(q) - 1 /\ Len(q) > 0
        /\ \A i \in 1 .. Len(q) - 1 : v[i] = q[i + 1]
        /\ Head(q) = q[1]
    BY <1>2, HeadTailProperties, SMT
  <2> HIDE DEF v
  <2>2. /\ x \in Seq(S) /\ Len(x) = Len(v) + Len(u)
        /\ \A i \in 1 .. Len(v) + Len(u) : x[i] = IF i <= Len(v) THEN v[i] ELSE u[i - Len(v)]
    BY <2>1, ConcatProperties, SMT
  <2>3. w \in Seq(S) /\ w # <<>> /\ Len(w) = Len(q) + Len(u)
    BY <1>1, <2>1, SMT
  <2>4. /\ Tail(w) \in Seq(S) /\ Len(Tail(w)) = Len(w) - 1 /\ Head(w) = w[1]
        /\ \A i \in 1 .. Len(w) - 1 : Tail(w)[i] = w[i + 1]
    BY <2>3, HeadTailProperties, SMT
  <2> HIDE DEF x, w
  <2>5. Len(Tail(w)) = Len(x)
    BY <1>1, <2>1, <2>2, <2>3, <2>4, SMT
  <2>6. ASSUME NEW i \in 1 .. Len(Tail(w)) PROVE Tail(w)[i] = x[i]
    <3>1. i + 1 \in 1 .. Len(q) + Len(u) /\ i \in 1 .. Len(v) + Len(u) /\ i \in 1 .. Len(w) - 1
      BY <1>1, <2>1, <2>3, <2>4, SMT
    <3>2. Tail(w)[i] = IF i + 1 <= Len(q) THEN q[i + 1] ELSE u[i + 1 - Len(q)]
      BY <1>1, <2>4, <3>1, SMT DEF w
    <3>3. x[i] = IF i <= Len(v) THEN v[i] ELSE u[i - Len(v)]
      BY <2>2, <3>1, Zenon
    <3> QED BY <1>1, <2>1, <3>1, <3>2, <3>3, SMT
  <2>7. Tail(w) = x
    BY <2>2, <2>4, <2>5, <2>6, SeqEqual, Zenon
  <2>8. Head(w) = Head(q)
    BY <1>1, <2>1, <2>4, SMT DEF w
  <2> QED BY <2>3, <2>7, <2>8 DEF w, x, v
<1>3. ASSUME u # <<>>
      PROVE  Append(q, Head(u)) \o Tail(u) = q \o u
  <2> DEFINE w == q \o u
             a == Append(q, Head(u))
             v == Tail(u)
             x == a \o v
  <2>1. /\ v \in Seq(S) /\ Len(v) = Len(u) - 1 /\ Len(u) > 0
        /\ \A i \in 1 .. Len(u) - 1 : v[i] = u[i + 1]
        /\ Head(u) = u[1] /\ Head(u) \in S
    BY <1>3, HeadTailProperties, SMT
  <2>2. /\ a \in Seq(S) /\ Len(a) = Len(q) + 1 /\ a[Len(q) + 1] = u[1]
        /\ \A i \in 1 .. Len(q) : a[i] = q[i]
    BY <2>1, AppendProperties, SMT
  <2> HIDE DEF a, v
  <2>3. /\ x \in Seq(S) /\ Len(x) = Len(a) + Len(v)
        /\ \A i \in 1 .. Len(a) + Len(v) : x[i] = IF i <= Len(a) THEN a[i] ELSE v[i - Len(a)]
    BY <2>1, <2>2, ConcatProperties, Zenon
  <2>4. Len(x) = Len(w) /\ w \in Seq(S)
    BY <1>1, <2>1, <2>2, <2>3, SMT
  <2>5. ASSUME NEW i \in 1 .. Len(x) PROVE x[i] = w[i]
    <3>1. x[i] = (IF i <= Len(a) THEN a[i] ELSE v[i - Len(a)])
          /\ w[i] = (IF i <= Len(q) THEN q[i] ELSE u[i - Len(q)])
          /\ i \in 1 .. Len(q) + Len(u)
      BY <1>1, <2>1, <2>2, <2>3, <2>5, SMT
    <3> HIDE DEF x, w
    <3>2. CASE i <= Len(q)
      BY <1>1, <2>1, <2>2, <3>1, <3>2, SMT
    <3>3. CASE i = Len(q) + 1
      BY <1>1, <2>1, <2>2, <3>1, <3>3, SMT
    <3>4. CASE i > Len(q) + 1
      <4>1. i - Len(a) \in 1 .. Len(u) - 1 /\ (i - Len(a)) + 1 = i - Len(q)
        BY <1>1, <2>1, <2>2, <3>1, <3>4, SMT
      <4>2. x[i] = v[i - Len(a)] /\ w[i] = u[i - Len(q)]
        BY <1>1, <2>1, <2>2, <3>1, <3>4, SMT
      <4> QED BY <2>1, <4>1, <4>2, Zenon
    <3> QED BY <1>1, <3>1, <3>2, <3>3, <3>4, SMT
  <2> HIDE DEF x, w
  <2>6. x = w
    BY <2>3, <2>4, <2>5, SeqEqual, Zenon
  <2> QED BY <2>6 DEF x, w, a, v
<1> QED BY <1>1, <1>2, <1>3, Zenon
-----------------------------------------------------------------------------
(* A STOP is under way that will meet a stream of r: one that runs, or one *)
(* that a START before it begins.                                          *)
Meets(r) == \/ StartThenStop(Pending, r)
            \/ HasStop(Pending, r) /\ StreamsOf(r) # {}

MeetsInvalid == \A r \in Regs : Meets(r) => reg[r].invalid

(* A registration without references meets none. *)
RefLessMeetNone == \A r \in Regs : reg[r].ref = 0 => ~Meets(r)

LEMMA RefLess == TicketInv => RefLessMeetNone
<1> SUFFICES ASSUME TicketInv, NEW r \in Regs, reg[r].ref = 0, Meets(r) PROVE FALSE
  BY Zenon DEF RefLessMeetNone
<1>0. TypeOK /\ reqbuf \in Seq(Request) /\ todo \in Seq(Request)
  BY Zenon DEF TicketInv, TypeOK, CoapTypeOK
<1>1. GivenAway(r) <= 0
  BY Zenon DEF TicketInv, TicketsCovered
<1>2. Count(todo, "START", r) = 0 /\ Count(reqbuf, "START", r) = 0 /\ Cardinality(StreamsOf(r)) = 0
  BY <1>0, <1>1, PlacesNat, SMTT(60) DEF GivenAway
<1>3. StreamsOf(r) = {}
  BY <1>0, <1>2, PlacesNat, FS_EmptySet, Zenon
<1>4. PICK j \in DOMAIN Pending : IsStart(Pending[j], r)
  BY <1>3, Zenon DEF Meets, StartThenStop
<1>5. (\E i \in DOMAIN reqbuf : Pending[j] = reqbuf[i]) \/ (\E i \in DOMAIN todo : Pending[j] = todo[i])
  <2>1. /\ Pending \in Seq(Request) /\ Len(Pending) = Len(reqbuf) + Len(todo)
        /\ \A i \in 1 .. Len(reqbuf) + Len(todo) :
              Pending[i] = IF i <= Len(reqbuf) THEN reqbuf[i] ELSE todo[i - Len(reqbuf)]
    BY <1>0, ConcatProperties, Zenon DEF Pending
  <2> HIDE DEF Pending
  <2>2. j \in 1 .. Len(reqbuf) + Len(todo) /\ Len(reqbuf) \in Nat /\ Len(todo) \in Nat
        /\ DOMAIN reqbuf = 1 .. Len(reqbuf) /\ DOMAIN todo = 1 .. Len(todo)
    BY <1>0, <2>1, SMT
  <2>3. CASE j <= Len(reqbuf)
    BY <2>1, <2>2, <2>3, SMT
  <2>4. CASE j > Len(reqbuf)
    <3>1. j - Len(reqbuf) \in DOMAIN todo /\ Pending[j] = todo[j - Len(reqbuf)]
      BY <2>1, <2>2, <2>4, SMT
    <3> QED BY <3>1, Zenon
  <2> QED BY <2>2, <2>3, <2>4, SMT
<1>6. ASSUME NEW i \in DOMAIN reqbuf, Pending[j] = reqbuf[i] PROVE FALSE
  <2>1. reqbuf[i].rtype = "START" /\ reqbuf[i].ticket = r
    BY <1>4, <1>6, Zenon DEF IsStart
  <2>2. Count(reqbuf, reqbuf[i].rtype, reqbuf[i].ticket) > 0
    BY <1>0, Counted, Zenon
  <2>3. Count(reqbuf, "START", r) > 0
    BY <2>1, <2>2, Zenon
  <2> QED BY <1>2, <2>3, SMT
<1>7. ASSUME NEW i \in DOMAIN todo, Pending[j] = todo[i] PROVE FALSE
  <2>1. todo[i].rtype = "START" /\ todo[i].ticket = r
    BY <1>4, <1>7, Zenon DEF IsStart
  <2>2. Count(todo, todo[i].rtype, todo[i].ticket) > 0
    BY <1>0, Counted, Zenon
  <2>3. Count(todo, "START", r) > 0
    BY <2>1, <2>2, Zenon
  <2> QED BY <1>2, <2>3, SMT
<1> QED BY <1>5, <1>6, <1>7, Zenon

(* Only the release of the last reference makes a registration valid.      *)
LEMMA InvalidOps ==
    ASSUME NEW x \in Registration
    PROVE  /\ Released(x).ref = 0 \/ Released(x).invalid = x.invalid
           /\ CheckedOut(x).invalid = x.invalid
           /\ Invalidated(x).invalid
           /\ Failed(x).invalid = x.invalid
           /\ \A b \in BOOLEAN : Confirmed(x, b).invalid = x.invalid
<1>1. Released(x).ref = 0 \/ Released(x).invalid = x.invalid
  <2>1. CASE x.ref = 1
    BY <2>1, SMT DEF Released, Free
  <2>2. CASE x.ref # 1
    BY <2>2, Zenon DEF Released, Registration
  <2> QED BY <2>1, <2>2, Zenon
<1> QED BY <1>1, Zenon DEF CheckedOut, Invalidated, Failed, Confirmed, Registration

(* A step that begins no meeting and makes no registration valid, but one  *)
(* without references.                                                     *)
LEMMA NoNewMeeting ==
    ASSUME MeetsInvalid, RefLessMeetNone', NEW r \in Regs,
           \/ Meets(r)' => Meets(r) /\ (reg[r].invalid => reg'[r].invalid)
           \/ reg'[r].invalid
           \/ reg'[r].ref = 0
    PROVE  Meets(r)' => reg'[r].invalid
<1>1. reg'[r].ref = 0 => ~Meets(r)'
  BY Zenon DEF RefLessMeetNone
<1> QED BY <1>1, Zenon DEF MeetsInvalid

(* The same requests and streams meet the same.                            *)
LEMMA SameMeetings ==
    ASSUME Pending' = Pending, UNCHANGED streams, NEW r
    PROVE  Meets(r)' => Meets(r)
<1>1. StreamsOf(r)' = StreamsOf(r)
  BY Zenon DEF StreamsOf
<1>2. HasStop(Pending', r) = HasStop(Pending, r) /\ StartThenStop(Pending', r) = StartThenStop(Pending, r)
  BY Zenon
<1> QED BY <1>1, <1>2, Zenon DEF Meets

(* A message at the end that is no STOP of r begins no meeting.            *)
LEMMA AppendedMeetings ==
    ASSUME Pending \in Seq(Request), NEW m \in Request, NEW r, ~IsStop(m, r),
           Pending' = Append(Pending, m), UNCHANGED streams
    PROVE  Meets(r)' => Meets(r)
<1>1. StreamsOf(r)' = StreamsOf(r)
  BY Zenon DEF StreamsOf
<1>2. /\ HasStop(Pending', r) => HasStop(Pending, r)
      /\ StartThenStop(Pending', r) => StartThenStop(Pending, r)
  BY StopsOfAppend, Zenon
<1> QED BY <1>1, <1>2, Zenon DEF Meets

LEMMA GiveUpMeetings ==
    ASSUME TicketInv, MeetsInvalid, RefLessMeetNone', UNCHANGED smVars,
           NEW q \in Regs, GiveUp(q), NEW r \in Regs
    PROVE  Meets(r)' => reg'[r].invalid
<1>1. /\ TypeOK /\ reg[q] \in Registration /\ reg[q].owner # NoOwner /\ todo = <<>>
      /\ UNCHANGED reqbuf /\ UNCHANGED streams /\ reqbuf \in Seq(Request)
  BY InvTransAlive, Zenon DEF GiveUp, TransAlive, Alive, TicketInv, TypeOK, CoapTypeOK, smVars
<1>2. Pending = reqbuf
  BY <1>1, ConcatEmptySeq, Zenon DEF Pending
<1>3. CASE reg' = [reg EXCEPT ![q] = Released(Failed(@))] /\ UNCHANGED todo
  <2>1. Pending' = Pending
    BY <1>1, <1>3, Zenon DEF Pending
  <2>2. Meets(r)' => Meets(r)
    BY <1>1, <2>1, SameMeetings, Zenon
  <2>3. reg'[r].ref = 0 \/ reg'[r].invalid = reg[r].invalid
    BY <1>1, <1>3, InvalidOps, RegistrationOps, ZenonT(40) DEF TypeOK, CoapTypeOK
  <2> QED BY <2>2, <2>3, NoNewMeeting, Zenon
<1>4. CASE /\ reg' = [reg EXCEPT ![q] = Released(Invalidated(Failed(@)))]
           /\ todo' = <<Stop(reg[q].owner[2], q)>>
  <2>1. CASE r = q
    <3>1. Failed(reg[q]) \in Registration /\ Invalidated(Failed(reg[q])) \in Registration
      BY <1>1, RegistrationOps, Zenon
    <3>2. Invalidated(Failed(reg[q])).invalid
      BY <3>1, InvalidOps, Zenon
    <3>3. reg'[r] = Released(Invalidated(Failed(reg[q])))
      BY <1>1, <1>4, <2>1, Zenon DEF TypeOK, CoapTypeOK
    <3>4. reg'[r].ref = 0 \/ reg'[r].invalid
      BY <3>1, <3>2, <3>3, InvalidOps, Zenon
    <3> QED BY <3>4, NoNewMeeting, Zenon
  <2>2. CASE r # q
    <3> DEFINE m == Stop(reg[q].owner[2], q)
    <3>1. m \in Request
      BY <1>1, OwnerSensor, MadeRequests, Zenon
    <3>2. ~IsStop(m, r)
      BY <2>2, SMT DEF IsStop, Stop
    <3> HIDE DEF m
    <3>3. Pending' = Append(Pending, m)
      <4>1. reqbuf \o <<m>> = Append(reqbuf, m)
        BY <1>1, <3>1, SMT
      <4> QED BY <1>1, <1>2, <1>4, <4>1, Zenon DEF Pending, m
    <3>4. Pending \in Seq(Request)
      BY <1>1, <1>2, Zenon
    <3>5. Meets(r)' => Meets(r)
      BY <1>1, <3>1, <3>2, <3>3, <3>4, AppendedMeetings, Zenon
    <3>6. reg'[r] = reg[r]
      BY <1>1, <1>4, <2>2, Zenon DEF TypeOK, CoapTypeOK
    <3> QED BY <3>5, <3>6, NoNewMeeting, Zenon
  <2> QED BY <2>1, <2>2, Zenon
<1> QED BY <1>3, <1>4, Zenon DEF GiveUp

LEMMA ObserveMeetings ==
    ASSUME TicketInv, MeetsInvalid, RefLessMeetNone, UNCHANGED smVars, UNCHANGED reqbuf,
           todo = <<>>, NEW c \in Clients, NEW s \in Sensors, ObserveGet(c, s), NEW r \in Regs
    PROVE  Meets(r)' => reg'[r].invalid
<1>1. PICK q \in AddRegistration(c, s) :
        /\ reg' = [reg EXCEPT ![q] = CheckedOut(IF Alive(q) THEN @ ELSE [Free EXCEPT !.owner = <<c, s>>])]
        /\ todo' = <<Start(s, q)>>
  BY Zenon DEF ObserveGet
<1>2. /\ q \in Regs /\ TypeOK /\ reqbuf \in Seq(Request) /\ UNCHANGED streams
      /\ reg \in [Regs -> Registration]
  BY <1>1, Zenon DEF AddRegistration, Valid, Owned, TicketInv, TypeOK, CoapTypeOK, smVars
<1>3. Start(s, q) \in Request /\ ~IsStop(Start(s, q), r)
  <2>1. ~IsStop(Start(s, q), r)
    BY SMT DEF IsStop, Start
  <2> QED BY <1>2, <2>1, MadeRequests, Zenon
<1>4. Pending = reqbuf /\ Pending' = Append(Pending, Start(s, q))
  <2>1. \A m \in Request : reqbuf \o <<m>> = Append(reqbuf, m)
    BY <1>2, SMT
  <2>2. Pending = reqbuf
    BY <1>2, ConcatEmptySeq, Zenon DEF Pending
  <2> QED BY <1>1, <1>3, <2>1, <2>2, Zenon DEF Pending
<1>5. Meets(r)' => Meets(r)
  BY <1>2, <1>3, <1>4, AppendedMeetings, Zenon
<1>6. CASE Alive(r) \/ r # q
  <2>1. reg'[r].invalid = reg[r].invalid
    <3>1. CASE r # q
      BY <1>1, <1>2, <3>1, Zenon
    <3>2. CASE r = q /\ Alive(q)
      <4>1. reg'[r] = CheckedOut(reg[r])
        BY <1>1, <1>2, <3>2, Zenon
      <4> QED BY <1>2, <4>1, InvalidOps, Zenon
    <3> QED BY <1>6, <3>1, <3>2, Zenon
  <2> QED BY <1>5, <2>1, Zenon DEF MeetsInvalid
<1>7. CASE ~Alive(r)
  BY <1>5, <1>7, Zenon DEF TicketInv, UnusedUncounted, RefLessMeetNone
<1> QED BY <1>6, <1>7, Zenon

LEMMA PlainGetMeetings ==
    ASSUME TicketInv, MeetsInvalid, RefLessMeetNone', UNCHANGED smVars, UNCHANGED reqbuf,
           todo = <<>>, NEW c \in Clients, NEW s \in Sensors, NEW t \in Tids, PlainGet(c, s, t),
           NEW r \in Regs
    PROVE  Meets(r)' => reg'[r].invalid
<1>1. PICK q \in FindRegistration(c, s) :
        IF q = NoReg
        THEN todo' = <<Oneshot(s, t)>> /\ UNCHANGED reg
        ELSE /\ reg' = [reg EXCEPT ![q] = Invalidated(@)]
             /\ todo' = <<Oneshot(s, t), Stop(s, q)>>
  BY Zenon DEF PlainGet
<1>2. /\ TypeOK /\ reqbuf \in Seq(Request) /\ UNCHANGED streams
      /\ reg \in [Regs -> Registration] /\ (q = NoReg \/ q \in Regs)
  BY <1>1, Zenon DEF FindRegistration, Valid, Owned, TicketInv, TypeOK, CoapTypeOK, smVars
<1>3. CASE r = q /\ q # NoReg
  <2>1. reg'[r] = Invalidated(reg[r])
    BY <1>1, <1>2, <1>3, Zenon
  <2>2. reg'[r].invalid
    <3>1. reg[r] \in Registration
      BY <1>2, Zenon
    <3>2. Invalidated(reg[r]).invalid
      BY <3>1, InvalidOps, Zenon
    <3> QED BY <2>1, <3>2, Zenon
  <2> QED BY <2>2, Zenon
<1>4. CASE r # q \/ q = NoReg
  <2>1. reg'[r] = reg[r]
    BY <1>1, <1>2, <1>4, Zenon
  <2>2. Oneshot(s, t) \in Request /\ ~IsStop(Oneshot(s, t), r)
    <3>1. ~IsStop(Oneshot(s, t), r)
      BY SMT DEF IsStop, Oneshot
    <3> QED BY <3>1, MadeRequests, Zenon
  <2>3. q # NoReg => Stop(s, q) \in Request /\ ~IsStop(Stop(s, q), r)
    <3>1. r # q => ~IsStop(Stop(s, q), r)
      BY SMT DEF IsStop, Stop
    <3> QED BY <1>2, <1>4, <3>1, MadeRequests, Zenon
  <2>4. Pending = reqbuf
    BY <1>2, ConcatEmptySeq, Zenon DEF Pending
  <2> DEFINE u == Append(reqbuf, Oneshot(s, t))
  <2>5. u \in Seq(Request)
    BY <1>2, <2>2, AppendProperties, Zenon
  <2>6. Pending' = u \/ (q # NoReg /\ Pending' = Append(u, Stop(s, q)))
    <3>1. \A m \in Request : reqbuf \o <<m>> = Append(reqbuf, m)
      BY <1>2, SMT
    <3>2. \A m, n \in Request : reqbuf \o <<m, n>> = Append(Append(reqbuf, m), n)
      BY <1>2, SMT
    <3> QED BY <1>1, <2>2, <2>3, <3>1, <3>2, Zenon DEF Pending
  <2>7. /\ HasStop(u, r) => HasStop(Pending, r)
        /\ StartThenStop(u, r) => StartThenStop(Pending, r)
    BY <1>2, <2>2, <2>4, StopsOfAppend, Zenon
  <2> HIDE DEF u
  <2>8. /\ HasStop(Pending', r) => HasStop(Pending, r)
        /\ StartThenStop(Pending', r) => StartThenStop(Pending, r)
    <3>1. CASE Pending' = u
      BY <2>7, <3>1, Zenon
    <3>2. CASE q # NoReg /\ Pending' = Append(u, Stop(s, q))
      <4>1. /\ HasStop(Append(u, Stop(s, q)), r) => HasStop(u, r)
            /\ StartThenStop(Append(u, Stop(s, q)), r) => StartThenStop(u, r)
        BY <2>3, <2>5, <3>2, StopsOfAppend, Zenon
      <4> QED BY <2>7, <3>2, <4>1, Zenon
    <3> QED BY <2>6, <3>1, <3>2, Zenon
  <2>9. StreamsOf(r)' = StreamsOf(r)
    BY <1>2, Zenon DEF StreamsOf
  <2>10. Meets(r)' => Meets(r)
    BY <2>8, <2>9, Zenon DEF Meets
  <2> QED BY <2>1, <2>10, Zenon DEF MeetsInvalid
<1> QED BY <1>3, <1>4, Zenon

(* What is released, counted or not touched by the CoAP thread.            *)
LEMMA CoapMeetings ==
    ASSUME TicketInv, TicketInv', MeetsInvalid, RefLessMeetNone, RefLessMeetNone', Coap,
           NEW r \in Regs
    PROVE  Meets(r)' => reg'[r].invalid
<1>1. /\ CoapNext /\ UNCHANGED smVars /\ UNCHANGED streams /\ TypeOK
      /\ reg \in [Regs -> Registration] /\ reqbuf \in Seq(Request) /\ todo \in Seq(Request)
  BY Zenon DEF Coap, smVars, TicketInv, TypeOK, CoapTypeOK
<1>2. ASSUME Pending' = Pending, reg'[r].ref = 0 \/ (reg[r].invalid => reg'[r].invalid)
      PROVE  Meets(r)' => reg'[r].invalid
  BY <1>1, <1>2, SameMeetings, NoNewMeeting, Zenon
<1>3. UNCHANGED <<todo, reqbuf>> => Pending' = Pending
  BY Zenon DEF Pending
<1>4. CASE Retransmitted
  BY <1>2, <1>3, <1>4, Zenon DEF Retransmitted
<1>5. CASE PutRequest
  <2>1. Pending' = Pending /\ reg' = reg
    BY <1>1, <1>5, PendingParts, ZenonT(40) DEF PutRequest, Pending
  <2> QED BY <1>2, <2>1, Zenon
<1>6. CASE Network
  <2>1. UNCHANGED <<reqbuf, resbuf>> /\ todo = <<>>
    BY <1>6, Zenon DEF Network
  <2>2. CASE UNCHANGED <<reg, trans, async, todo>>
    BY <1>2, <1>3, <2>1, <2>2, Zenon
  <2>3. ASSUME NEW q \in Regs, Acknowledged(q) PROVE Meets(r)' => reg'[r].invalid
    <3>1. PICK b \in BOOLEAN : reg' = [reg EXCEPT ![q] = Released(Confirmed(@, b))]
      BY <2>3, Zenon DEF Acknowledged
    <3>2. reg'[r].ref = 0 \/ reg'[r].invalid = reg[r].invalid
      <4>1. reg'[r] = reg[r] \/ reg'[r] = Released(Confirmed(reg[r], b))
        BY <1>1, <3>1, Zenon
      <4>2. /\ Confirmed(reg[r], b) \in Registration
            /\ Confirmed(reg[r], b).invalid = reg[r].invalid
        BY <1>1, InvalidOps, RegistrationOps, Zenon
      <4>3. LET x == Released(Confirmed(reg[r], b))
            IN  x.ref = 0 \/ x.invalid = reg[r].invalid
        BY <4>2, InvalidOps, Zenon
      <4> QED BY <4>1, <4>3, Zenon
    <3>3. UNCHANGED <<todo, reqbuf>>
      BY <2>1, <2>3, Zenon DEF Acknowledged
    <3> QED BY <1>2, <1>3, <3>2, <3>3, Zenon
  <2> QED BY <1>1, <1>6, <2>1, <2>2, <2>3, ObserveMeetings, PlainGetMeetings, Zenon DEF Network
<1>7. CASE Serve
  <2>1. UNCHANGED <<todo, reqbuf>>
    BY <1>7, Zenon DEF Serve
  <2>2. \/ reg' = reg
        \/ \E q : reg' = [reg EXCEPT ![q] = Released(@)]
        \/ \E q : reg' = [reg EXCEPT ![q] = CheckedOut(@)]
    BY <1>7, Zenon DEF Serve, ServeStopped, ServeOneshot, ServeUpdate
  <2>3. reg'[r].ref = 0 \/ reg'[r].invalid = reg[r].invalid
    <3>1. reg'[r] \in {reg[r], Released(reg[r]), CheckedOut(reg[r])}
      BY <1>1, <2>2, Zenon
    <3>2. /\ Released(reg[r]).ref = 0 \/ Released(reg[r]).invalid = reg[r].invalid
          /\ CheckedOut(reg[r]).invalid = reg[r].invalid
      BY <1>1, InvalidOps, Zenon
    <3> QED BY <3>1, <3>2, Zenon
  <2> QED BY <1>2, <1>3, <2>1, <2>3, Zenon
<1> QED BY <1>1, <1>4, <1>5, <1>6, <1>7, GiveUpMeetings, Zenon DEF CoapNext

(* Taking a request from the buffer begins no meeting: the stream that a   *)
(* START begins, a STOP behind it was to meet already.                     *)
LEMMA TakenMeetings ==
    ASSUME TypeOK, UNCHANGED todo, reqbuf # <<>>, reqbuf' = Tail(reqbuf), NEW r,
           StreamsOf(r)' = {} \/ StreamsOf(r) # {} \/ IsStart(Head(reqbuf), r)
    PROVE  Meets(r)' => Meets(r)
<1>1. reqbuf \in Seq(Request) /\ todo \in Seq(Request)
  BY Zenon DEF TypeOK, CoapTypeOK
<1>2. /\ Pending \in Seq(Request) /\ Pending # <<>> /\ Head(Pending) = Head(reqbuf)
      /\ Pending' = Tail(Pending)
  BY <1>1, PendingParts, ZenonT(40) DEF Pending
<1>3. /\ HasStop(Pending', r) => HasStop(Pending, r)
      /\ StartThenStop(Pending', r) => StartThenStop(Pending, r)
      /\ IsStart(Head(Pending), r) /\ HasStop(Pending', r) => StartThenStop(Pending, r)
  BY <1>2, StopsOfTail, Zenon
<1> QED BY <1>2, <1>3, Zenon DEF Meets

LEMMA SmMeetings ==
    ASSUME TicketInv, MeetsInvalid, StreamMgr, NEW r \in Regs
    PROVE  Meets(r)' => reg'[r].invalid
<1>1. UNCHANGED reg /\ UNCHANGED todo /\ TypeOK /\ SmNext
  BY Zenon DEF StreamMgr, coapVars, TicketInv
<1> SUFFICES Meets(r)' => Meets(r)
  BY <1>1, Zenon DEF MeetsInvalid
<1>2. CASE UNCHANGED streams /\ UNCHANGED reqbuf
  <2>1. Pending' = Pending
    BY <1>1, <1>2, Zenon DEF Pending
  <2> QED BY <1>2, <2>1, SameMeetings, Zenon
<1>3. CASE UNCHANGED streams /\ reqbuf # <<>> /\ reqbuf' = Tail(reqbuf)
  <2>1. StreamsOf(r)' = StreamsOf(r)
    BY <1>3, Zenon DEF StreamsOf
  <2> QED BY <1>1, <1>3, <2>1, TakenMeetings, Zenon
<1>4. CASE HandleRequest /\ reqbuf # <<>>
  <2> DEFINE m == Head(reqbuf)
  <2>1. /\ reqbuf' = Tail(reqbuf)
        /\ \/ m.rtype = "START" /\ StartStream(m.sensor, m.ticket)
           \/ m.rtype = "STOP" /\ StopStream(m.sensor, m.ticket)
           \/ m.rtype = "ONESHOT" /\ TakeOneshot(m.sensor, m.ticket)
    BY <1>4, Zenon DEF HandleRequest
  <2>2. streams \in [Sensors -> SUBSET Regs]
    BY <1>1, Zenon DEF TypeOK, SmTypeOK
  <2> HIDE DEF m
  <2>3. StreamsOf(r)' \subseteq StreamsOf(r) \/ IsStart(m, r)
    <3>1. CASE m.rtype = "START" /\ StartStream(m.sensor, m.ticket)
      BY <2>2, <3>1, Zenon DEF StartStream, StreamsOf, IsStart
    <3>2. CASE StopStream(m.sensor, m.ticket)
      BY <2>2, <3>2, Zenon DEF StopStream, StreamsOf
    <3>3. CASE TakeOneshot(m.sensor, m.ticket)
      BY <3>3, Zenon DEF TakeOneshot, StreamsOf
    <3> QED BY <2>1, <3>1, <3>2, <3>3, Zenon
  <2>4. StreamsOf(r)' = {} \/ StreamsOf(r) # {} \/ IsStart(Head(reqbuf), r)
    BY <2>3, Zenon DEF m
  <2> QED BY <1>1, <1>4, <2>1, <2>4, TakenMeetings, Zenon
<1>5. CASE HandleRequest /\ reqbuf = <<>>
  BY <1>2, <1>5, Zenon DEF HandleRequest
<1> QED BY <1>1, <1>2, <1>3, <1>4, <1>5, Zenon
        DEF SmNext, HandleSample, PutResponse, WaitForRoom, Defer

(* A STOP meets no stream of a valid registration, nor one that a START    *)
(* before it in the queues is going to begin.                              *)
THEOREM MeetsOnlyInvalid == Spec => []MeetsInvalid
<1>1. Init => MeetsInvalid
  <2> SUFFICES ASSUME Init, NEW r \in Regs PROVE ~Meets(r)
    BY Zenon DEF MeetsInvalid
  <2>1. TicketInv /\ reg[r].ref = 0
    BY InitTicketInv, InitSum, Zenon
  <2> QED BY <2>1, RefLess, Zenon DEF RefLessMeetNone
<1>2. TicketInv /\ TicketInv' /\ RefLessMeetNone /\ RefLessMeetNone' /\ MeetsInvalid /\ [Next]_vars
        => MeetsInvalid'
  <2> SUFFICES ASSUME TicketInv, TicketInv', RefLessMeetNone, RefLessMeetNone', MeetsInvalid,
                      [Next]_vars, NEW r \in Regs
               PROVE  Meets(r)' => reg'[r].invalid
    BY Zenon DEF MeetsInvalid
  <2>1. ASSUME UNCHANGED coapVars, UNCHANGED <<streams, out, reqbuf, resbuf>>
        PROVE  Meets(r)' => reg'[r].invalid
    <3>1. Pending' = Pending /\ reg' = reg
      BY <2>1, Zenon DEF Pending, coapVars
    <3> QED BY <2>1, <3>1, SameMeetings, Zenon DEF MeetsInvalid
  <2>2. ASSUME NEW s, Sensor(s) \/ Carrier(s) PROVE Meets(r)' => reg'[r].invalid
    BY <2>1, <2>2, Zenon
       DEF Sensor, Sample, Carrier, Carry, CarrierLooks, CarrierReads, CarrierLeaves, CarrierSteps
  <2>3. CASE UNCHANGED vars
    BY <2>1, <2>3, Zenon DEF vars, smVars
  <2> QED BY <2>2, <2>3, CoapMeetings, SmMeetings, Zenon DEF Next, Dead
<1> QED BY <1>1, <1>2, RefLess, Inductive, PTL DEF Spec

(* No STOP that is on its way will ever meet a stream of a registration    *)
(* that is valid, with timeouts or without.                                *)
THEOREM StopsMeetInvalid == Spec => []StopsConcernInvalid
<1>1. TicketInv /\ MeetsInvalid => StopsConcernInvalid
  <2> SUFFICES ASSUME TicketInv, MeetsInvalid, NEW r \in Regs, StreamsOf(r) # {},
                      Count(reqbuf, "STOP", r) + Count(todo, "STOP", r) > 0
               PROVE  reg[r].invalid
    BY Zenon DEF StopsConcernInvalid
  <2>1. reqbuf \in Seq(Request) /\ todo \in Seq(Request)
    BY Zenon DEF TicketInv, TypeOK, CoapTypeOK
  <2>2. Count(reqbuf, "STOP", r) > 0 \/ Count(todo, "STOP", r) > 0
    <3>1. Count(reqbuf, "STOP", r) \in Nat /\ Count(todo, "STOP", r) \in Nat
      BY <2>1, MatchingFinite, Zenon
    <3> QED BY <3>1, SMT
  <2>3. (\E i \in DOMAIN reqbuf : IsStop(reqbuf[i], r)) \/ (\E i \in DOMAIN todo : IsStop(todo[i], r))
    <3>1. CASE Count(reqbuf, "STOP", r) > 0
      BY <3>1, CountedIs, SMT DEF IsStop
    <3>2. CASE Count(todo, "STOP", r) > 0
      BY <3>2, CountedIs, SMT DEF IsStop
    <3> QED BY <2>2, <3>1, <3>2, Zenon
  <2>4. /\ \A i \in DOMAIN reqbuf : i \in DOMAIN Pending /\ Pending[i] = reqbuf[i]
        /\ \A i \in DOMAIN todo : Len(reqbuf) + i \in DOMAIN Pending
                                  /\ Pending[Len(reqbuf) + i] = todo[i]
    <3>1. /\ Pending \in Seq(Request) /\ Len(Pending) = Len(reqbuf) + Len(todo)
          /\ \A i \in 1 .. Len(reqbuf) + Len(todo) :
                Pending[i] = IF i <= Len(reqbuf) THEN reqbuf[i] ELSE todo[i - Len(reqbuf)]
      BY <2>1, ConcatProperties, Zenon DEF Pending
    <3> HIDE DEF Pending
    <3> QED BY <2>1, <3>1, SMT
  <2>5. HasStop(Pending, r)
    BY <2>3, <2>4, Zenon DEF HasStop
  <2> QED BY <2>5, Zenon DEF MeetsInvalid, Meets
<1> QED BY <1>1, MeetsOnlyInvalid, Inductive, PTL
-----------------------------------------------------------------------------
(* The sensors at which a one-shot waits.                                  *)
Awaited(t) == {s \in Sensors : t \in oneshots[s]}

(* The kinds of places a one-shot may be in, before and after a step.      *)
LEMMA OneshotPlaces ==
    ASSUME TypeOK, NEW t \in Tids
    PROVE  /\ Count(todo, "ONESHOT", t) \in Nat
           /\ Count(reqbuf, "ONESHOT", t) \in Nat
           /\ IsFiniteSet(Awaited(t)) /\ Cardinality(Awaited(t)) \in Nat
           /\ One(Answer(t) \in out) \in {0, 1}
           /\ Count(resbuf, "ONESHOT", t) \in Nat
           /\ One(t \in async) \in {0, 1}
           /\ Places(t) = Count(todo, "ONESHOT", t) + Count(reqbuf, "ONESHOT", t)
                            + Cardinality(Awaited(t)) + One(Answer(t) \in out)
                            + Count(resbuf, "ONESHOT", t)
<1>1. /\ todo \in Seq(Request) /\ reqbuf \in Seq(Request) /\ resbuf \in Seq(Response)
  BY Zenon DEF TypeOK, CoapTypeOK
<1>2. /\ Count(todo, "ONESHOT", t) \in Nat
      /\ Count(reqbuf, "ONESHOT", t) \in Nat
      /\ Count(resbuf, "ONESHOT", t) \in Nat
  BY <1>1, MatchingFinite, Zenon
<1>3. IsFiniteSet(Awaited(t)) /\ Cardinality(Awaited(t)) \in Nat
  <2>1. Awaited(t) \in SUBSET Sensors
    BY Zenon DEF Awaited
  <2> QED BY <2>1, TicketAssumption, FS_Subset, FS_CardinalityType, Zenon
<1>4. One(Answer(t) \in out) \in {0, 1} /\ One(t \in async) \in {0, 1}
  BY Zenon DEF One
<1> QED BY <1>2, <1>3, <1>4, Zenon DEF Places, Awaited

LEMMA OneshotPlacesNext ==
    ASSUME TypeOK', NEW t \in Tids
    PROVE  /\ Count(todo', "ONESHOT", t) \in Nat
           /\ Count(reqbuf', "ONESHOT", t) \in Nat
           /\ IsFiniteSet(Awaited(t)') /\ Cardinality(Awaited(t)') \in Nat
           /\ One(Answer(t) \in out') \in {0, 1}
           /\ Count(resbuf', "ONESHOT", t) \in Nat
           /\ One(t \in async') \in {0, 1}
           /\ Places(t)' = Count(todo', "ONESHOT", t) + Count(reqbuf', "ONESHOT", t)
                            + Cardinality(Awaited(t)') + One(Answer(t) \in out')
                            + Count(resbuf', "ONESHOT", t)
<1>1. /\ todo' \in Seq(Request) /\ reqbuf' \in Seq(Request) /\ resbuf' \in Seq(Response)
  BY Zenon DEF TypeOK, CoapTypeOK
<1>2. /\ Count(todo', "ONESHOT", t) \in Nat
      /\ Count(reqbuf', "ONESHOT", t) \in Nat
      /\ Count(resbuf', "ONESHOT", t) \in Nat
  BY <1>1, MatchingFinite, Zenon
<1>3. IsFiniteSet(Awaited(t)') /\ Cardinality(Awaited(t)') \in Nat
  <2>1. Awaited(t)' \in SUBSET Sensors
    BY Zenon DEF Awaited
  <2> QED BY <2>1, TicketAssumption, FS_Subset, FS_CardinalityType, Zenon
<1>4. One(Answer(t) \in out') \in {0, 1} /\ One(t \in async') \in {0, 1}
  BY Zenon DEF One
<1> QED BY <1>2, <1>3, <1>4, Zenon DEF Places, Awaited

Accounted(t) == Places(t) = One(t \in async)

(* While the CoAP thread works, those at the Streaming Manager stay there. *)
LEMMA CoapSum ==
    ASSUME TypeOK, TypeOK', UNCHANGED smVars, NEW t \in Tids, Accounted(t),
           NEW d \in {0, 1}, NEW e \in {0, 1},
           Count(todo', "ONESHOT", t) + Count(reqbuf', "ONESHOT", t) + Count(resbuf', "ONESHOT", t) + d
             = Count(todo, "ONESHOT", t) + Count(reqbuf, "ONESHOT", t) + Count(resbuf, "ONESHOT", t) + e,
           One(t \in async') + d = One(t \in async) + e
    PROVE  Accounted(t)'
<1>1. /\ Cardinality(Awaited(t)') = Cardinality(Awaited(t))
      /\ One(Answer(t) \in out') = One(Answer(t) \in out)
  BY Zenon DEF Awaited, smVars
<1>2. Places(t)' = One(t \in async')
  <2>1. Places(t) = One(t \in async)
    BY Zenon DEF Accounted
  <2>2. d \in Int /\ e \in Int /\ One(t \in async) \in Int /\ One(t \in async') \in Int
        /\ One(Answer(t) \in out) \in Int
    BY OneshotPlaces, OneshotPlacesNext, SMT
  <2> QED BY <1>1, <2>1, <2>2, OneshotPlaces, OneshotPlacesNext, SMTT(60)
<1> QED BY <1>2, Zenon DEF Accounted

(* While the Streaming Manager works, those at the CoAP thread stay there. *)
LEMMA SmSum ==
    ASSUME TypeOK, TypeOK', UNCHANGED coapVars, NEW t \in Tids, Accounted(t),
           Count(reqbuf', "ONESHOT", t) + Cardinality(Awaited(t)') + One(Answer(t) \in out')
               + Count(resbuf', "ONESHOT", t)
             = Count(reqbuf, "ONESHOT", t) + Cardinality(Awaited(t)) + One(Answer(t) \in out)
               + Count(resbuf, "ONESHOT", t)
    PROVE  Accounted(t)'
<1>1. UNCHANGED todo /\ UNCHANGED async
  BY Zenon DEF coapVars
<1>2. Count(todo', "ONESHOT", t) = Count(todo, "ONESHOT", t) /\ One(t \in async') = One(t \in async)
  BY <1>1, Zenon
<1>3. Places(t)' = One(t \in async')
  <2>1. Places(t) = One(t \in async)
    BY Zenon DEF Accounted
  <2> QED BY <1>2, <2>1, OneshotPlaces, OneshotPlacesNext, SMTT(60)
<1> QED BY <1>3, Zenon DEF Accounted

(* Handlers that put no one-shot. *)
LEMMA NoOneshotPut ==
    ASSUME TypeOK, TypeOK', UNCHANGED smVars, UNCHANGED <<reqbuf, resbuf>>, UNCHANGED async,
           NEW t \in Tids, Accounted(t),
           Count(todo', "ONESHOT", t) = Count(todo, "ONESHOT", t)
    PROVE  Accounted(t)'
  BY CoapSum, OneshotPlaces, SMTT(60)

LEMMA PlainGetOneshots ==
    ASSUME TypeOK, TypeOK', UNCHANGED smVars, UNCHANGED <<reqbuf, resbuf>>, todo = <<>>,
           NEW c \in Clients, NEW s \in Sensors, NEW u \in Tids, PlainGet(c, s, u),
           NEW t \in Tids, Accounted(t)
    PROVE  Accounted(t)'
<1>1. Count(todo', "ONESHOT", t) = IF t = u THEN 1 ELSE 0
  <2>1. /\ Is(Oneshot(s, u), "ONESHOT", t) = IF t = u THEN 1 ELSE 0
        /\ \A q : Is(Stop(s, q), "ONESHOT", t) = 0
    BY SMT DEF Is, Oneshot, Stop
  <2>2. todo' = <<Oneshot(s, u)>> \/ \E q : todo' = <<Oneshot(s, u), Stop(s, q)>>
    BY Zenon DEF PlainGet
  <2>3. CASE todo' = <<Oneshot(s, u)>>
    BY <2>1, <2>3, CountOne, Zenon
  <2>4. ASSUME NEW q, todo' = <<Oneshot(s, u), Stop(s, q)>>
        PROVE  Count(todo', "ONESHOT", t) = IF t = u THEN 1 ELSE 0
    <3>1. Count(todo', "ONESHOT", t) = Is(Oneshot(s, u), "ONESHOT", t) + Is(Stop(s, q), "ONESHOT", t)
      BY <2>4, CountTwo, Zenon
    <3> QED BY <2>1, <3>1, SMT
  <2> QED BY <2>2, <2>3, <2>4, Zenon
<1>2. Count(todo, "ONESHOT", t) = 0
  BY CountEmpty, Zenon
<1>3. u \notin async /\ async' = async \cup {u}
  BY Zenon DEF PlainGet
<1>4. CASE t = u
  <2>1. One(t \in async') = 1 /\ One(t \in async) = 0
    BY <1>3, <1>4, Zenon DEF One
  <2> QED BY <1>1, <1>2, <1>4, <2>1, CoapSum, OneshotPlaces, SMTT(60)
<1>5. CASE t # u
  <2>1. One(t \in async') = One(t \in async)
    BY <1>3, <1>5, Zenon DEF One
  <2> QED BY <1>1, <1>2, <1>5, <2>1, CoapSum, OneshotPlaces, SMTT(60)
<1> QED BY <1>4, <1>5, Zenon

LEMMA PutRequestOneshots ==
    ASSUME TypeOK, TypeOK', UNCHANGED smVars, PutRequest, NEW t \in Tids, Accounted(t)
    PROVE  Accounted(t)'
<1>1. /\ todo \in Seq(Request) /\ reqbuf \in Seq(Request) /\ todo # <<>>
      /\ Head(todo) \in Request /\ UNCHANGED async /\ UNCHANGED resbuf
  BY HeadTailProperties, Zenon DEF TypeOK, CoapTypeOK, PutRequest
<1>2. Count(todo, "ONESHOT", t) = Count(todo', "ONESHOT", t) + Is(Head(todo), "ONESHOT", t)
  BY <1>1, CountTail, SMT DEF PutRequest
<1>3. Count(reqbuf', "ONESHOT", t) = Count(reqbuf, "ONESHOT", t) + Is(Head(todo), "ONESHOT", t)
  BY <1>1, CountAppend, SMT DEF PutRequest
<1>4. Is(Head(todo), "ONESHOT", t) \in {0, 1}
  BY IsBit, Zenon
<1> QED BY <1>1, <1>2, <1>3, <1>4, CoapSum, OneshotPlaces, OneshotPlacesNext, SMTT(60)

LEMMA ServeOneshots ==
    ASSUME TypeOK, TypeOK', UNCHANGED smVars, Serve, NEW t \in Tids, Accounted(t)
    PROVE  Accounted(t)'
<1>1. UNCHANGED <<todo, reqbuf>> /\ resbuf \in Seq(Response)
  BY Zenon DEF Serve, TypeOK
<1>2. CASE resbuf = <<>>
  BY <1>1, <1>2, NoOneshotPut, Zenon DEF Serve
<1>3. CASE resbuf # <<>>
  <2> DEFINE m == Head(resbuf)
  <2>1. /\ resbuf' = Tail(resbuf)
        /\ \/ m.rtype = "STREAM_STOPPED" /\ ServeStopped(m.ticket)
           \/ m.rtype = "ONESHOT" /\ ServeOneshot(m.ticket)
           \/ m.rtype = "STREAM_UPDATE" /\ ServeUpdate(m.ticket)
    BY <1>3, Zenon DEF Serve
  <2>2. Count(resbuf, "ONESHOT", t) = Count(resbuf', "ONESHOT", t) + Is(m, "ONESHOT", t)
    BY <1>1, <1>3, <2>1, CountTail, SMT
  <2> HIDE DEF m
  <2>3. CASE m.rtype = "ONESHOT" /\ m.ticket = t
    <3>1. Is(m, "ONESHOT", t) = 1 /\ async' = async \ {t}
      BY <2>1, <2>3, SMT DEF Is, ServeOneshot
    <3>2. One(t \in async) = 1
      <4>1. Places(t) = One(t \in async)
        BY Zenon DEF Accounted
      <4>2. One(t \in async) # 0
        BY <2>2, <3>1, <4>1, OneshotPlaces, OneshotPlacesNext, SMTT(60)
      <4> QED BY <4>2, Zenon DEF One
    <3>3. One(t \in async') = 0
      BY <3>1, Zenon DEF One
    <3> QED BY <1>1, <2>2, <3>1, <3>2, <3>3, CoapSum, OneshotPlaces, OneshotPlacesNext, SMTT(60)
  <2>4. CASE ~(m.rtype = "ONESHOT" /\ m.ticket = t)
    <3>1. Is(m, "ONESHOT", t) = 0
      BY <2>4, Zenon DEF Is
    <3>2. t \in async' <=> t \in async
      <4>1. CASE m.rtype = "ONESHOT" /\ ServeOneshot(m.ticket)
        BY <2>4, <4>1, Zenon DEF ServeOneshot
      <4>2. CASE UNCHANGED async
        BY <4>2, Zenon
      <4> QED BY <2>1, <4>1, <4>2, Zenon DEF ServeStopped, ServeUpdate
    <3>3. One(t \in async') = One(t \in async)
      BY <3>2, Zenon DEF One
    <3> QED BY <1>1, <2>2, <3>1, <3>3, CoapSum, OneshotPlaces, OneshotPlacesNext, SMTT(60)
  <2> QED BY <2>3, <2>4, Zenon
<1> QED BY <1>2, <1>3, Zenon

LEMMA CoapOneshots ==
    ASSUME TypeOK, TypeOK', Coap, NEW t \in Tids, Accounted(t)
    PROVE  Accounted(t)'
<1>1. CoapNext /\ UNCHANGED smVars
  BY Zenon DEF Coap
<1>2. /\ \A s, q : Count(<<Stop(s, q)>>, "ONESHOT", t) = 0 /\ Count(<<Start(s, q)>>, "ONESHOT", t) = 0
      /\ Count(<<>>, "ONESHOT", t) = 0
  <2>1. \A s, q : Is(Stop(s, q), "ONESHOT", t) = 0 /\ Is(Start(s, q), "ONESHOT", t) = 0
    BY SMT DEF Is, Start, Stop
  <2>2. \A s, q : Count(<<Stop(s, q)>>, "ONESHOT", t) = Is(Stop(s, q), "ONESHOT", t)
    BY CountOne
  <2>3. \A s, q : Count(<<Start(s, q)>>, "ONESHOT", t) = Is(Start(s, q), "ONESHOT", t)
    BY CountOne
  <2>4. Count(<<>>, "ONESHOT", t) = 0
    BY CountEmpty
  <2>5. ASSUME NEW s, NEW q
        PROVE  Count(<<Stop(s, q)>>, "ONESHOT", t) = 0 /\ Count(<<Start(s, q)>>, "ONESHOT", t) = 0
    BY <2>1, <2>2, <2>3
  <2> QED BY <2>4, <2>5
<1>3. CASE UNCHANGED <<todo, reqbuf, resbuf>> /\ UNCHANGED async
  BY <1>1, <1>3, NoOneshotPut, Zenon
<1>4. ASSUME NEW q \in Regs, GiveUp(q) PROVE Accounted(t)'
  <2>1. UNCHANGED <<reqbuf, resbuf>> /\ UNCHANGED async /\ todo = <<>>
        /\ (todo' = todo \/ \E s : todo' = <<Stop(s, q)>>)
    BY <1>4, Zenon DEF GiveUp
  <2>2. Count(todo', "ONESHOT", t) = Count(todo, "ONESHOT", t)
    BY <1>2, <2>1, Zenon
  <2> QED BY <1>1, <2>1, <2>2, NoOneshotPut, Zenon
<1>5. CASE Network
  <2>1. UNCHANGED <<reqbuf, resbuf>> /\ todo = <<>>
    BY <1>5, Zenon DEF Network
  <2>2. ASSUME NEW c \in Clients, NEW s \in Sensors, ObserveGet(c, s) PROVE Accounted(t)'
    <3>1. UNCHANGED async /\ \E q : todo' = <<Start(s, q)>>
      BY <2>2, Zenon DEF ObserveGet
    <3>2. Count(todo', "ONESHOT", t) = Count(todo, "ONESHOT", t)
      BY <1>2, <2>1, <3>1, Zenon
    <3> QED BY <1>1, <2>1, <3>1, <3>2, NoOneshotPut, Zenon
  <2> QED BY <1>1, <1>3, <1>5, <2>1, <2>2, PlainGetOneshots, Zenon DEF Network, Acknowledged
<1> QED BY <1>1, <1>3, <1>4, <1>5, PutRequestOneshots, ServeOneshots, Zenon DEF CoapNext, Retransmitted
-----------------------------------------------------------------------------
(* A request, at the Streaming Manager: a one-shot is answered, or waits.  *)
LEMMA RequestOneshots ==
    ASSUME TypeOK, TypeOK', UNCHANGED coapVars, HandleRequest, NEW t \in Tids, Accounted(t)
    PROVE  Accounted(t)'
<1>1. /\ out = {} /\ UNCHANGED resbuf /\ reqbuf \in Seq(Request)
      /\ oneshots \in [Sensors -> SUBSET Tids]
  BY Zenon DEF HandleRequest, Idle, TypeOK, SmTypeOK
<1>2. One(Answer(t) \in out) = 0
  BY <1>1, Zenon DEF One
<1>3. CASE reqbuf = <<>>
  <2>1. UNCHANGED reqbuf /\ UNCHANGED oneshots /\ UNCHANGED out
    BY <1>3, Zenon DEF HandleRequest
  <2>2. Awaited(t)' = Awaited(t)
    BY <2>1, Zenon DEF Awaited
  <2> QED BY <1>1, <2>1, <2>2, SmSum, Zenon
<1>4. CASE reqbuf # <<>>
  <2> DEFINE m == Head(reqbuf)
  <2>1. /\ reqbuf' = Tail(reqbuf)
        /\ \/ m.rtype = "START" /\ StartStream(m.sensor, m.ticket)
           \/ m.rtype = "STOP" /\ StopStream(m.sensor, m.ticket)
           \/ m.rtype = "ONESHOT" /\ TakeOneshot(m.sensor, m.ticket)
    BY <1>4, Zenon DEF HandleRequest
  <2>2. m \in Request
    BY <1>1, <1>4, HeadTailProperties, Zenon
  <2>3. Count(reqbuf, "ONESHOT", t) = Count(reqbuf', "ONESHOT", t) + Is(m, "ONESHOT", t)
    BY <1>1, <1>4, <2>1, CountTail, SMT
  <2> HIDE DEF m
  <2>4. CASE m.rtype # "ONESHOT"
    <3>1. Is(m, "ONESHOT", t) = 0
      BY <2>4, Zenon DEF Is
    <3>2. UNCHANGED oneshots /\ (out' = {} \/ out' = {Stopped(m.ticket)})
      BY <2>1, <2>4, Zenon DEF StartStream, StopStream
    <3>3. Answer(t) \notin out'
      <4>1. Answer(t) # Stopped(m.ticket)
        BY SMT DEF Answer, Stopped
      <4> QED BY <3>2, <4>1, Zenon
    <3>4. One(Answer(t) \in out') = 0 /\ Awaited(t)' = Awaited(t)
      BY <3>2, <3>3, Zenon DEF One, Awaited
    <3> QED BY <1>1, <1>2, <2>3, <3>1, <3>4, SmSum, OneshotPlaces, OneshotPlacesNext, SMTT(60)
  <2>5. CASE m.rtype = "ONESHOT" /\ m.ticket # t
    <3>1. Is(m, "ONESHOT", t) = 0
      BY <2>5, Zenon DEF Is
    <3>2. TakeOneshot(m.sensor, m.ticket)
      BY <2>1, <2>5, SMT
    <3>3. Answer(t) \notin out'
      <4>1. Answer(t) # Answer(m.ticket)
        BY <2>5, SMT DEF Answer
      <4> QED BY <3>2, <4>1, Zenon DEF TakeOneshot
    <3>4. Awaited(t)' = Awaited(t)
      BY <1>1, <2>5, <3>2, ZenonT(40) DEF TakeOneshot, Awaited
    <3>5. One(Answer(t) \in out') = 0
      BY <3>3, Zenon DEF One
    <3> QED BY <1>1, <1>2, <2>3, <3>1, <3>4, <3>5, SmSum, OneshotPlaces, OneshotPlacesNext, SMTT(60)
  <2>6. CASE m.rtype = "ONESHOT" /\ m.ticket = t
    <3>1. Is(m, "ONESHOT", t) = 1 /\ m.sensor \in Sensors
      BY <2>2, <2>6, RequestFields, Zenon DEF Is
    <3>2. TakeOneshot(m.sensor, t)
      BY <2>1, <2>6, SMT
    <3>3. CASE cache_valid[m.sensor]
      <4>1. out' = {Answer(t)} /\ UNCHANGED oneshots
        BY <3>2, <3>3, Zenon DEF TakeOneshot
      <4>2. One(Answer(t) \in out') = 1 /\ Awaited(t)' = Awaited(t)
        BY <4>1, Zenon DEF One, Awaited
      <4> QED BY <1>1, <1>2, <2>3, <3>1, <4>2, SmSum, OneshotPlaces, OneshotPlacesNext, SMTT(60)
    <3>4. CASE ~cache_valid[m.sensor]
      <4>1. out' = {} /\ oneshots' = [oneshots EXCEPT ![m.sensor] = @ \cup {t}]
        BY <3>2, <3>4, Zenon DEF TakeOneshot
      <4>2. One(Answer(t) \in out') = 0
        BY <4>1, Zenon DEF One
      <4>3. Awaited(t)' = Awaited(t) \cup {m.sensor}
        BY <1>1, <3>1, <4>1, Zenon DEF Awaited
      <4>4. Cardinality(Awaited(t)) = 0
        <5>1. Places(t) = One(t \in async)
          BY Zenon DEF Accounted
        <5> QED BY <2>3, <3>1, <5>1, OneshotPlaces, OneshotPlacesNext, SMTT(60)
      <4>5. m.sensor \notin Awaited(t)
        BY <4>4, OneshotPlaces, FS_EmptySet, Zenon
      <4>6. Cardinality(Awaited(t)') = Cardinality(Awaited(t)) + 1
        BY <4>3, <4>5, OneshotPlaces, FS_AddElement, Zenon
      <4> QED BY <1>1, <1>2, <2>3, <3>1, <4>2, <4>6, SmSum, OneshotPlaces, OneshotPlacesNext, SMTT(60)
    <3> QED BY <3>3, <3>4, Zenon
  <2> QED BY <2>4, <2>5, <2>6, Zenon
<1> QED BY <1>3, <1>4, Zenon

(* A sample answers the one-shots of its sensor, and those only.           *)
LEMMA DeliverOneshots ==
    ASSUME TypeOK, TypeOK', UNCHANGED coapVars, UNCHANGED <<reqbuf, resbuf>>, out = {},
           NEW s \in Sensors, NEW caches, Deliver(s, caches), NEW t \in Tids, Accounted(t)
    PROVE  Accounted(t)'
<1>1. /\ oneshots \in [Sensors -> SUBSET Tids]
      /\ oneshots' = [oneshots EXCEPT ![s] = {}]
      /\ out' = {Answer(x) : x \in oneshots[s]} \cup {Updated(r) : r \in streams[s]}
  BY Zenon DEF TypeOK, SmTypeOK, Deliver
<1>2. One(Answer(t) \in out) = 0
  BY Zenon DEF One
<1>3. Answer(t) \in out' <=> t \in oneshots[s]
  <2>1. (\A x : Answer(t) = Answer(x) => t = x) /\ (\A r : Answer(t) # Updated(r))
    BY SMT DEF Answer, Updated
  <2> QED BY <1>1, <2>1, Zenon
<1>4. CASE t \in oneshots[s]
  <2>1. One(Answer(t) \in out') = 1
    BY <1>3, <1>4, Zenon DEF One
  <2>2. s \in Awaited(t) /\ Awaited(t)' = Awaited(t) \ {s}
    BY <1>1, <1>4, Zenon DEF Awaited
  <2>3. Cardinality(Awaited(t)') = Cardinality(Awaited(t)) - 1
    BY <2>2, OneshotPlaces, FS_RemoveElement, Zenon
  <2> QED BY <1>2, <2>1, <2>3, SmSum, OneshotPlaces, OneshotPlacesNext, SMTT(60)
<1>5. CASE t \notin oneshots[s]
  <2>1. One(Answer(t) \in out') = 0
    BY <1>3, <1>5, Zenon DEF One
  <2>2. Awaited(t)' = Awaited(t)
    BY <1>1, <1>5, Zenon DEF Awaited
  <2> QED BY <1>2, <2>1, <2>2, SmSum, OneshotPlaces, OneshotPlacesNext, SMTT(60)
<1> QED BY <1>4, <1>5, Zenon

LEMMA PutResponseOneshots ==
    ASSUME TypeOK, TypeOK', UNCHANGED coapVars, PutResponse, NEW t \in Tids, Accounted(t)
    PROVE  Accounted(t)'
<1>1. PICK m \in out : resbuf' = Append(resbuf, m) /\ out' = out \ {m}
  BY Zenon DEF PutResponse, First
<1>2. /\ UNCHANGED oneshots /\ UNCHANGED reqbuf
      /\ resbuf \in Seq(Response) /\ m \in Response
  BY <1>1, Zenon DEF PutResponse, TypeOK, SmTypeOK
<1>3. Count(resbuf', "ONESHOT", t) = Count(resbuf, "ONESHOT", t) + Is(m, "ONESHOT", t)
  BY <1>1, <1>2, CountAppend, SMT
<1>4. One(Answer(t) \in out) = One(Answer(t) \in out') + Is(m, "ONESHOT", t)
  <2>1. CASE m = Answer(t)
    <3>1. Is(m, "ONESHOT", t) = 1
      BY <2>1, SMT DEF Is, Answer
    <3>2. One(Answer(t) \in out') = 0 /\ One(Answer(t) \in out) = 1
      BY <1>1, <2>1, Zenon DEF One
    <3> QED BY <3>1, <3>2, SMT
  <2>2. CASE m # Answer(t)
    <3>1. Is(m, "ONESHOT", t) = 0
      BY <1>2, <2>2, ResponseFields, Zenon DEF Is
    <3>2. One(Answer(t) \in out') = One(Answer(t) \in out)
      BY <1>1, <2>2, Zenon DEF One
    <3> QED BY <3>1, <3>2, OneshotPlaces, SMTT(60)
  <2> QED BY <2>1, <2>2, Zenon
<1>5. Awaited(t)' = Awaited(t) /\ Is(m, "ONESHOT", t) \in {0, 1}
  BY <1>2, IsBit, Zenon DEF Awaited
<1> QED BY <1>2, <1>3, <1>4, <1>5, SmSum, OneshotPlaces, OneshotPlacesNext, SMTT(60)

LEMMA RestOneshots ==
    ASSUME TypeOK, TypeOK', UNCHANGED coapVars, UNCHANGED <<reqbuf, resbuf, oneshots, out>>,
           NEW t \in Tids, Accounted(t)
    PROVE  Accounted(t)'
<1>1. Awaited(t)' = Awaited(t)
  BY Zenon DEF Awaited
<1> QED BY <1>1, SmSum, Zenon

LEMMA SmOneshots ==
    ASSUME TypeOK, TypeOK', ~MayTimeOut, StreamMgr, NEW t \in Tids, Accounted(t)
    PROVE  Accounted(t)'
<1>1. SmNext /\ UNCHANGED coapVars
  BY Zenon DEF StreamMgr
<1>2. CASE HandleSample
  <2>1. out = {} /\ UNCHANGED <<reqbuf, resbuf>>
    BY <1>2, Zenon DEF HandleSample, Idle
  <2>2. ASSUME NEW n \in DOMAIN samples PROVE samples[n] \in Sensors
    BY QueueParts, Zenon DEF TypeOK, SmTypeOK
  <2>3. carried # <<>> => Head(carried) \in Sensors
    BY HeadTailProperties, SmAssumption, Zenon DEF TypeOK, SmTypeOK
  <2>4. \/ UNCHANGED <<oneshots, out>>
        \/ \E n \in DOMAIN samples : \E caches : Deliver(samples[n], caches)
        \/ carried # <<>> /\ Deliver(Head(carried), cache_valid)
    BY <1>2, Zenon DEF HandleSample, LookAtSamples, LookAtCarriers, GetCarrierEvent
  <2>5. CASE UNCHANGED <<oneshots, out>>
    BY <1>1, <2>1, <2>5, RestOneshots, Zenon
  <2>6. ASSUME NEW s \in Sensors, NEW caches, Deliver(s, caches) PROVE Accounted(t)'
    BY <1>1, <2>1, <2>6, DeliverOneshots, Zenon
  <2> QED BY <2>2, <2>3, <2>4, <2>5, <2>6, Zenon
<1>3. CASE WaitForRoom
  BY <1>1, <1>3, RestOneshots, Zenon DEF WaitForRoom
<1>4. ~Defer
  BY Zenon DEF Defer
<1> QED BY <1>1, <1>2, <1>3, <1>4, RequestOneshots, PutResponseOneshots, Zenon DEF SmNext

(* While no put times out, every asynchronous transaction is in exactly    *)
(* one place on its way to an answer: none is lost, none answered twice.   *)
THEOREM OneAnswerEach == ASSUME ~MayTimeOut PROVE Spec => []OneshotsAccounted
<1>1. Init => OneshotsAccounted
  <2> SUFFICES ASSUME Init, NEW t \in Tids PROVE Places(t) = One(t \in async)
    BY Zenon DEF OneshotsAccounted
  <2>1. TypeOK
    BY InitTypeOK, Zenon
  <2>2. /\ Count(todo, "ONESHOT", t) = 0 /\ Count(reqbuf, "ONESHOT", t) = 0
        /\ Count(resbuf, "ONESHOT", t) = 0
    BY CountEmpty, Zenon DEF Init, CoapInit
  <2>3. Awaited(t) = {} /\ One(Answer(t) \in out) = 0 /\ One(t \in async) = 0
    BY Zenon DEF Init, SmInit, CoapInit, Awaited, One
  <2>4. Cardinality(Awaited(t)) = 0
    BY <2>3, FS_EmptySet, Zenon
  <2>5. Places(t) = 0 + 0 + 0 + 0 + 0
    BY <2>1, <2>2, <2>3, <2>4, OneshotPlaces, Zenon
  <2> QED BY <2>3, <2>5, SMT
<1>2. TypeOK /\ TypeOK' /\ OneshotsAccounted /\ [Next]_vars => OneshotsAccounted'
  <2> SUFFICES ASSUME TypeOK, TypeOK', OneshotsAccounted, [Next]_vars, NEW t \in Tids
               PROVE  Accounted(t)'
    BY Zenon DEF OneshotsAccounted, Accounted
  <2>0. Accounted(t)
    BY Zenon DEF OneshotsAccounted, Accounted
  <2>1. ASSUME UNCHANGED coapVars, UNCHANGED <<reqbuf, resbuf, oneshots, out>>
        PROVE  Accounted(t)'
    BY <2>0, <2>1, RestOneshots, Zenon
  <2>2. ASSUME NEW s, Sensor(s) \/ Carrier(s) PROVE Accounted(t)'
    BY <2>1, <2>2, Zenon
       DEF Sensor, Sample, Carrier, Carry, CarrierLooks, CarrierReads, CarrierLeaves, CarrierSteps
  <2>3. CASE UNCHANGED vars
    BY <2>1, <2>3, Zenon DEF vars, smVars
  <2> QED BY <2>0, <2>2, <2>3, CoapOneshots, SmOneshots, Zenon DEF Next, Dead
<1> QED BY <1>1, <1>2, TypeCorrect, PTL DEF Spec
=============================================================================
