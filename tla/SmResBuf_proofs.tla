--------------------------- MODULE SmResBuf_proofs ---------------------------
(***************************************************************************)
(* For a ring of any size, and any number of waits that end without a      *)
(* signal: SmResBuf keeps its type, is overrun by no more items than such  *)
(* waits, loses no wake-up, and implements the queue of BoundedFifo.       *)
(***************************************************************************)
EXTENDS SmResBuf, QueueLemmas

(* The inductive invariant.  NoOverrun alone is not inductive: the put     *)
(* that returns from the wait inserts without a look at the counter, so it *)
(* takes that a woken producer finds less than the bound in the buffer.    *)
(* That holds because the get that sent its signal has made room, or a     *)
(* wait without a signal has raised the bound, and nobody else inserts.    *)
(* A producer that is late inserts nothing.                                *)
IInv == /\ TypeOK
        /\ NoOverrun
        /\ NoLostWakeup
        /\ pc = "woken" => counter < COAP_RBUF_SIZE + strays
        /\ puthere = (gethere + counter) % COAP_RBUF_SIZE
        /\ arg = INVALID_RESPONSE <=> pc = "out"

LEMMA InitIInv == Init => IInv
<1> SUFFICES ASSUME Init PROVE IInv
  OBVIOUS
<1>1. 0 \in Slots /\ 0 % COAP_RBUF_SIZE = 0
  BY ResBufAssumption, SMT DEF Slots
<1>2. rbuf \in [Slots -> Response \cup {INVALID_RESPONSE}]
  BY DEF Init
<1> QED
  BY <1>1, <1>2, ResBufAssumption, SMT
  DEF Init, IInv, TypeOK, NoOverrun, NoLostWakeup

(* An insertion, room or not, keeps the part about the ring.               *)
LEMMA InsertIInv ==
    ASSUME IInv, NEW x \in Response, Insert(x), UNCHANGED gethere
    PROVE  /\ rbuf' \in [Slots -> Response \cup {INVALID_RESPONSE}]
           /\ puthere' \in Slots
           /\ counter' \in Nat /\ counter' = counter + 1
           /\ puthere' = (gethere' + counter') % COAP_RBUF_SIZE
           /\ ret' = "ok"
<1> USE ResBufAssumption
<1>1. /\ gethere \in Slots /\ puthere \in Slots /\ counter \in Nat
      /\ rbuf \in [Slots -> Response \cup {INVALID_RESPONSE}]
      /\ puthere = (gethere + counter) % COAP_RBUF_SIZE
  BY DEF IInv, TypeOK
<1>3. rbuf' \in [Slots -> Response \cup {INVALID_RESPONSE}]
  BY <1>1 DEF Insert
<1>4. puthere' = (gethere + (counter + 1)) % COAP_RBUF_SIZE
  BY <1>1, SlotNext DEF Insert, Slots
<1>5. puthere' \in Slots
  BY <1>1, <1>4, SMT DEF Slots
<1> QED
  BY <1>1, <1>3, <1>4, <1>5, SMT DEF Insert

LEMMA NextIInv == IInv /\ [Next]_vars => IInv'
<1> SUFFICES ASSUME IInv, [Next]_vars PROVE IInv'
  OBVIOUS
<1> USE ResBufAssumption
<1> USE DEF IInv, TypeOK, NoOverrun, NoLostWakeup
<1>1. ASSUME NEW x \in Response, Put(x) PROVE IInv'
  <2>1. Insert(x) /\ counter < COAP_RBUF_SIZE /\ UNCHANGED <<gethere, pc, arg, got, strays>>
    BY <1>1 DEF Put
  <2>2. /\ rbuf' \in [Slots -> Response \cup {INVALID_RESPONSE}]
        /\ puthere' \in Slots
        /\ counter' \in Nat /\ counter' = counter + 1
        /\ puthere' = (gethere' + counter') % COAP_RBUF_SIZE
        /\ ret' = "ok"
    BY <2>1, InsertIInv
  <2> QED
    BY <1>1, <2>1, <2>2 DEF Put
<1>2. ASSUME NEW x \in Response, PutWait(x) PROVE IInv'
  BY <1>2 DEF PutWait
<1>3. CASE PutWoken
  <2>1. /\ Insert(arg) /\ arg \in Response /\ counter < COAP_RBUF_SIZE + strays
        /\ UNCHANGED <<gethere, got, strays>>
    BY <1>3 DEF PutWoken
  <2>2. /\ rbuf' \in [Slots -> Response \cup {INVALID_RESPONSE}]
        /\ puthere' \in Slots
        /\ counter' \in Nat /\ counter' = counter + 1
        /\ puthere' = (gethere' + counter') % COAP_RBUF_SIZE
        /\ ret' = "ok"
    BY <2>1, InsertIInv
  <2> QED
    BY <1>3, <2>1, <2>2 DEF PutWoken
<1>4. CASE Get
  <2>1. counter - 1 \in Nat /\ gethere \in 0 .. COAP_RBUF_SIZE - 1
    BY <1>4 DEF Get, Slots
  <2>2. gethere' \in Slots /\ counter' \in Nat /\ counter' < COAP_RBUF_SIZE + strays'
    BY <1>4, <2>1, SlotAfter, 1 \in Nat DEF Get, Slots
  <2>3. (gethere' + counter') % COAP_RBUF_SIZE
          = (gethere + (counter - 1 + 1)) % COAP_RBUF_SIZE
    BY <1>4, <2>1, SlotStep DEF Get
  <2>4. puthere' = (gethere' + counter') % COAP_RBUF_SIZE
    BY <1>4, <2>1, <2>3 DEF Get
  <2>5. pc' \in {"out", "waiting", "woken", "late"} /\ pc' # "waiting" /\ (pc' = "out" <=> pc = "out")
    BY <1>4 DEF Get, Signal
  <2>6. got' \in Response \cup {INVALID_RESPONSE}
    BY <1>4, <2>1 DEF Get, Slots
  <2> QED
    BY <1>4, <2>2, <2>4, <2>5, <2>6 DEF Get
<1>5. CASE GetEmpty
  BY <1>5 DEF GetEmpty
<1>6. CASE Timeout
  BY <1>6 DEF Timeout
<1>7. CASE PutTimedOut
  BY <1>7 DEF PutTimedOut
<1>8. CASE UNCHANGED vars
  BY <1>8 DEF vars
<1>9. CASE StrayWakeUp
  BY <1>9 DEF StrayWakeUp
<1> QED
  BY <1>1, <1>2, <1>3, <1>4, <1>5, <1>6, <1>7, <1>8, <1>9 DEF Next

LEMMA SpecIInv == Spec => []IInv
  BY InitIInv, NextIInv, PTL DEF Spec

(* Every variable keeps its type, the indexes stay inside the ring.        *)
THEOREM TypeCorrect == Spec => []TypeOK
<1>1. IInv => TypeOK
  BY DEF IInv
<1> QED BY <1>1, SpecIInv, PTL

(* put_response_buf_item is overrun by no more than one response for each        *)
(* wait that ended without a signal, in any order of calls and wake-ups.   *)
THEOREM OverrunOnlyByStrays == Spec => []NoOverrun
<1>1. IInv => NoOverrun
  BY DEF IInv
<1> QED BY <1>1, SpecIInv, PTL

(* The Streaming Manager never sleeps on a buffer with a free slot.              *)
THEOREM NeverLostWakeup == Spec => []NoLostWakeup
<1>1. IInv => NoLostWakeup
  BY DEF IInv
<1> QED BY <1>1, SpecIInv, PTL

(* A put that waited reports 0 exactly if its response is in the buffer.   *)
THEOREM ReturnIsTrue == Spec => ReturnTellsInsertion
<1>1. IInv /\ [Next]_vars =>
        [pc # "out" /\ pc' = "out" =>
           counter' - counter = (IF ret' = "ok" THEN 1 ELSE 0)]_vars
  <2> SUFFICES ASSUME IInv, Next, pc # "out", pc' = "out"
               PROVE  counter' - counter = (IF ret' = "ok" THEN 1 ELSE 0)
    BY DEF vars
  <2>1. counter \in Nat
    BY DEF IInv, TypeOK
  <2>2. PutWoken \/ PutTimedOut
    BY DEF Next, Put, PutWait, Timeout, StrayWakeUp, Get, Signal, GetEmpty
  <2> QED
    BY <2>1, <2>2 DEF PutWoken, PutTimedOut, Insert
<1> QED BY <1>1, SpecIInv, PTL DEF Spec, ReturnTellsInsertion
-----------------------------------------------------------------------------
(* The refinement: what the ring holds, read from gethere on, is the queue *)
(* of BoundedFifo.                                                         *)

LEMMA ContentsIsRing ==
    Contents = RingContents(rbuf, gethere, counter, COAP_RBUF_SIZE)
  BY DEF Contents, RingContents

LEMMA ContentsSeq ==
    ASSUME TypeOK
    PROVE  /\ Len(Contents) = counter
           /\ counter > 0 <=> Contents # <<>>
<1>1. /\ COAP_RBUF_SIZE \in Nat \ {0}
      /\ DOMAIN rbuf = 0 .. COAP_RBUF_SIZE - 1
      /\ gethere \in 0 .. COAP_RBUF_SIZE - 1
      /\ counter \in Nat
  BY ResBufAssumption DEF TypeOK, Slots
<1> QED
  BY <1>1, RingContentsSeq, ContentsIsRing

(* An insertion with a free slot appends.                                  *)
LEMMA InsertAppends ==
    ASSUME IInv, counter < COAP_RBUF_SIZE,
           NEW x \in Response, Insert(x), UNCHANGED gethere
    PROVE  Contents' = Append(Contents, x)
<1>1. /\ gethere \in 0 .. COAP_RBUF_SIZE - 1
      /\ counter \in 0 .. COAP_RBUF_SIZE - 1
      /\ DOMAIN rbuf = 0 .. COAP_RBUF_SIZE - 1
      /\ rbuf' = [rbuf EXCEPT ![(gethere + counter) % COAP_RBUF_SIZE] = x]
      /\ counter' = counter + 1
      /\ gethere' = gethere
  BY ResBufAssumption DEF IInv, TypeOK, Slots, Insert
<1>2. Contents' = RingContents(rbuf', gethere, counter + 1, COAP_RBUF_SIZE)
  BY <1>1 DEF Contents, RingContents
<1>3. COAP_RBUF_SIZE \in Nat \ {0}
  BY ResBufAssumption
<1>4. RingContents([rbuf EXCEPT ![(gethere + counter) % COAP_RBUF_SIZE] = x],
                   gethere, counter + 1, COAP_RBUF_SIZE)
        = Append(RingContents(rbuf, gethere, counter, COAP_RBUF_SIZE), x)
  BY <1>1, <1>3, RingInsert, ZenonT(60)
<1> QED
  BY <1>1, <1>2, <1>4, ContentsIsRing

(* An insertion in a full ring overwrites.                                 *)
LEMMA InsertOverwrites ==
    ASSUME IInv, NEW x \in Response, Insert(x), UNCHANGED gethere
    PROVE  Contents' = WithOverwritten(Contents, x, COAP_RBUF_SIZE)
<1>1. /\ gethere \in 0 .. COAP_RBUF_SIZE - 1
      /\ counter \in Nat
      /\ DOMAIN rbuf = 0 .. COAP_RBUF_SIZE - 1
      /\ rbuf' = [rbuf EXCEPT ![(gethere + counter) % COAP_RBUF_SIZE] = x]
      /\ counter' = counter + 1
      /\ gethere' = gethere
  BY ResBufAssumption DEF IInv, TypeOK, Slots, Insert
<1>2. Contents' = RingContents(rbuf', gethere, counter + 1, COAP_RBUF_SIZE)
  BY <1>1 DEF Contents, RingContents
<1>3. COAP_RBUF_SIZE \in Nat \ {0}
  BY ResBufAssumption
<1>4. RingContents([rbuf EXCEPT ![(gethere + counter) % COAP_RBUF_SIZE] = x],
                   gethere, counter + 1, COAP_RBUF_SIZE)
        = WithOverwritten(RingContents(rbuf, gethere, counter, COAP_RBUF_SIZE), x, COAP_RBUF_SIZE)
  BY <1>1, <1>3, RingOverwrite, ZenonT(60)
<1> QED
  BY <1>1, <1>2, <1>4, ContentsIsRing, Zenon

(* A get takes the oldest response.                                         *)
LEMMA GetTakesHead ==
    ASSUME IInv, Get
    PROVE  /\ Contents # <<>>
           /\ got' = Head(Contents)
           /\ Contents' = Tail(Contents)
<1>1. /\ gethere \in 0 .. COAP_RBUF_SIZE - 1
      /\ counter \in Nat \ {0}
      /\ DOMAIN rbuf = 0 .. COAP_RBUF_SIZE - 1
      /\ got' = rbuf[gethere]
      /\ rbuf' = rbuf
      /\ gethere' = (gethere + 1) % COAP_RBUF_SIZE
      /\ counter' = counter - 1
  BY ResBufAssumption DEF IInv, TypeOK, NoOverrun, Slots, Get
<1>2. Contents' = RingContents(rbuf, (gethere + 1) % COAP_RBUF_SIZE, counter - 1, COAP_RBUF_SIZE)
  BY <1>1 DEF Contents, RingContents
<1>3. Contents # <<>>
  BY <1>1, ContentsSeq DEF IInv
<1> QED
  BY <1>1, <1>2, <1>3, ContentsIsRing, RingGet, ResBufAssumption

(* The ring implements the queue: every initial state is an initial state  *)
(* of BoundedFifo, and every step a step of it or a stutter.               *)
THEOREM RingImplementsFifo == Spec => ImplementsFifo
<1>1. Init => Fifo!Init
  <2>1. ASSUME counter = 0 PROVE Contents = <<>>
    <3>1. 1 .. counter = {}
      BY <2>1, SMT
    <3> QED BY <3>1, SMT DEF Contents
  <2> QED BY <2>1 DEF Init, Fifo!Init
<1>2. IInv /\ [Next]_vars => [Fifo!Next]_(Fifo!vars)
  <2> SUFFICES ASSUME IInv, [Next]_vars PROVE [Fifo!Next]_(Fifo!vars)
    OBVIOUS
  <2>0. Len(Contents) = counter /\ (counter > 0 <=> Contents # <<>>) /\ counter \in Nat
    BY ContentsSeq, SMT DEF IInv, TypeOK
  <2>1. ASSUME NEW x \in Response, Put(x) PROVE Fifo!Put(x)
    <3>1. arg = INVALID_RESPONSE /\ Len(Contents) < COAP_RBUF_SIZE
      BY <2>0, <2>1 DEF Put, IInv
    <3>2. Contents' = Append(Contents, x)
      BY <2>1, InsertAppends DEF Put
    <3> QED BY <2>1, <3>1, <3>2 DEF Put, Fifo!Put
  <2>2. ASSUME NEW x \in Response, PutWait(x) PROVE Fifo!Hold(x)
    <3>1. arg = INVALID_RESPONSE /\ Len(Contents) >= COAP_RBUF_SIZE
      BY <2>0, <2>2 DEF PutWait, IInv
    <3>2. Contents' = Contents
      BY <2>2 DEF PutWait, Contents
    <3> QED BY <2>2, <3>1, <3>2 DEF PutWait, Fifo!Hold
  <2>3. CASE PutWoken
    <3>1. /\ arg \in Response /\ arg # INVALID_RESPONSE /\ counter < COAP_RBUF_SIZE + strays
          /\ arg' = INVALID_RESPONSE /\ UNCHANGED <<got, strays, gethere>> /\ Insert(arg)
      BY <2>3, ResBufAssumption DEF PutWoken, IInv, TypeOK
    <3>2. CASE counter < COAP_RBUF_SIZE
      <4>1. Contents' = Append(Contents, arg)
        BY <3>1, <3>2, InsertAppends
      <4> QED BY <2>0, <3>1, <3>2, <4>1 DEF Fifo!Next, Fifo!Release
    <3>3. CASE counter >= COAP_RBUF_SIZE
      <4>1. Contents' = Fifo!Overwritten(arg)
        BY <3>1, InsertOverwrites DEF Fifo!Overwritten, WithOverwritten
      <4> QED BY <2>0, <3>1, <3>3, <4>1 DEF Fifo!Next, Fifo!Overrun
    <3> QED BY <3>2, <3>3, <2>0, ResBufAssumption
  <2>4. CASE Get
    BY <2>4, GetTakesHead DEF Get, Fifo!Next, Fifo!Get
  <2>5. CASE GetEmpty
    <3>1. Contents = <<>> /\ Contents' = Contents
      BY <2>0, <2>5, SMT DEF GetEmpty, Contents
    <3> QED BY <2>5, <3>1 DEF GetEmpty, Fifo!Next, Fifo!GetNothing
  <2>6. CASE Timeout
    BY <2>6 DEF Timeout, Fifo!vars, Contents
  <2>7. CASE PutTimedOut
    <3>1. arg # INVALID_RESPONSE /\ Contents' = Contents
      BY <2>7 DEF PutTimedOut, IInv, Contents
    <3> QED BY <2>7, <3>1 DEF PutTimedOut, Fifo!Next, Fifo!GiveUp
  <2>8. CASE UNCHANGED vars
    BY <2>8 DEF vars, Fifo!vars, Contents
  <2>9. CASE StrayWakeUp
    <3>1. arg # INVALID_RESPONSE /\ Contents' = Contents
      BY <2>9 DEF StrayWakeUp, IInv, Contents
    <3> QED BY <2>9, <3>1 DEF StrayWakeUp, Fifo!Next, Fifo!Stray
  <2> QED
    BY <2>1, <2>2, <2>3, <2>4, <2>5, <2>6, <2>7, <2>8, <2>9 DEF Next, Fifo!Next
<1> QED
  BY <1>1, <1>2, SpecIInv, PTL DEF Spec, ImplementsFifo, Fifo!Spec
=============================================================================
