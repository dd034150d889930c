--------------------------- MODULE SmReqBuf_proofs ---------------------------
(***************************************************************************)
(* For a ring of any size, and any number of waits that end without a      *)
(* signal: SmReqBuf keeps its type, is overrun by no more items than such  *)
(* waits, loses no wake-up, and implements the queue of BoundedFifo.       *)
(***************************************************************************)
EXTENDS SmReqBuf, QueueLemmas

(* The inductive invariant.  NoOverrun alone is not inductive: the put     *)
(* that returns from the wait inserts without a look at the counter, so it *)
(* takes that a woken producer finds less than the bound in the buffer.    *)
(* That holds because the get that sent its signal has made room, or a     *)
(* wait without a signal has raised the bound, and nobody else inserts.    *)
IInv == /\ TypeOK
        /\ NoOverrun
        /\ NoLostWakeup
        /\ pc = "woken" => counter < SM_RBUF_SIZE + strays
        /\ puthere = (gethere + counter) % SM_RBUF_SIZE
        /\ arg = SM_REQ_INVALID <=> pc = "out"

LEMMA InitIInv == Init => IInv
<1> SUFFICES ASSUME Init PROVE IInv
  OBVIOUS
<1>1. 0 \in Slots /\ 0 % SM_RBUF_SIZE = 0
  BY ReqBufAssumption, SMT DEF Slots
<1>2. rbuf \in [Slots -> Request \cup {SM_REQ_INVALID}]
  BY DEF Init
<1> QED
  BY <1>1, <1>2, ReqBufAssumption, SMT
  DEF Init, IInv, TypeOK, NoOverrun, NoLostWakeup

(* An insertion, room or not, keeps the part about the ring.               *)
LEMMA InsertIInv ==
    ASSUME IInv, NEW x \in Request, Insert(x), UNCHANGED gethere
    PROVE  /\ rbuf' \in [Slots -> Request \cup {SM_REQ_INVALID}]
           /\ puthere' \in Slots
           /\ counter' \in Nat /\ counter' = counter + 1
           /\ puthere' = (gethere' + counter') % SM_RBUF_SIZE
<1> USE ReqBufAssumption
<1>1. /\ gethere \in Slots /\ puthere \in Slots /\ counter \in Nat
      /\ rbuf \in [Slots -> Request \cup {SM_REQ_INVALID}]
      /\ puthere = (gethere + counter) % SM_RBUF_SIZE
  BY DEF IInv, TypeOK
<1>3. rbuf' \in [Slots -> Request \cup {SM_REQ_INVALID}]
  BY <1>1 DEF Insert
<1>4. puthere' = (gethere + (counter + 1)) % SM_RBUF_SIZE
  BY <1>1, SlotNext DEF Insert, Slots
<1>5. puthere' \in Slots
  BY <1>1, <1>4, SMT DEF Slots
<1> QED
  BY <1>1, <1>3, <1>4, <1>5, SMT DEF Insert

LEMMA NextIInv == IInv /\ [Next]_vars => IInv'
<1> SUFFICES ASSUME IInv, [Next]_vars PROVE IInv'
  OBVIOUS
<1> USE ReqBufAssumption
<1> USE DEF IInv, TypeOK, NoOverrun, NoLostWakeup
<1>1. ASSUME NEW x \in Request, Put(x) PROVE IInv'
  <2>1. Insert(x) /\ counter < SM_RBUF_SIZE /\ UNCHANGED <<gethere, pc, arg, got, strays>>
    BY <1>1 DEF Put
  <2>2. /\ rbuf' \in [Slots -> Request \cup {SM_REQ_INVALID}]
        /\ puthere' \in Slots
        /\ counter' \in Nat /\ counter' = counter + 1
        /\ puthere' = (gethere' + counter') % SM_RBUF_SIZE
    BY <2>1, InsertIInv
  <2> QED
    BY <1>1, <2>1, <2>2 DEF Put
<1>2. ASSUME NEW x \in Request, PutWait(x) PROVE IInv'
  BY <1>2 DEF PutWait
<1>3. CASE PutWoken
  <2>1. /\ Insert(arg) /\ arg \in Request /\ counter < SM_RBUF_SIZE + strays
        /\ UNCHANGED <<gethere, got, strays>>
    BY <1>3 DEF PutWoken
  <2>2. /\ rbuf' \in [Slots -> Request \cup {SM_REQ_INVALID}]
        /\ puthere' \in Slots
        /\ counter' \in Nat /\ counter' = counter + 1
        /\ puthere' = (gethere' + counter') % SM_RBUF_SIZE
    BY <2>1, InsertIInv
  <2> QED
    BY <1>3, <2>1, <2>2 DEF PutWoken
<1>4. CASE Get
  <2>1. counter - 1 \in Nat /\ gethere \in 0 .. SM_RBUF_SIZE - 1
    BY <1>4 DEF Get, Slots
  <2>2. gethere' \in Slots /\ counter' \in Nat /\ counter' < SM_RBUF_SIZE + strays'
    BY <1>4, <2>1, SlotAfter, 1 \in Nat DEF Get, Slots
  <2>3. (gethere' + counter') % SM_RBUF_SIZE
          = (gethere + (counter - 1 + 1)) % SM_RBUF_SIZE
    BY <1>4, <2>1, SlotStep DEF Get
  <2>4. puthere' = (gethere' + counter') % SM_RBUF_SIZE
    BY <1>4, <2>1, <2>3 DEF Get
  <2>5. pc' \in {"out", "waiting", "woken"} /\ pc' # "waiting" /\ (pc' = "out" <=> pc = "out")
    BY <1>4 DEF Get, Signal
  <2>6. got' \in Request \cup {SM_REQ_INVALID}
    BY <1>4, <2>1 DEF Get, Slots
  <2> QED
    BY <1>4, <2>2, <2>4, <2>5, <2>6 DEF Get
<1>5. CASE GetEmpty
  BY <1>5 DEF GetEmpty
<1>6. CASE UNCHANGED vars
  BY <1>6 DEF vars
<1>7. CASE StrayWakeUp
  BY <1>7 DEF StrayWakeUp
<1> QED
  BY <1>1, <1>2, <1>3, <1>4, <1>5, <1>6, <1>7 DEF Next

LEMMA SpecIInv == Spec => []IInv
  BY InitIInv, NextIInv, PTL DEF Spec

(* Every variable keeps its type, the indexes stay inside the ring.        *)
THEOREM TypeCorrect == Spec => []TypeOK
<1>1. IInv => TypeOK
  BY DEF IInv
<1> QED BY <1>1, SpecIInv, PTL

(* put_request_buf_item is overrun by no more than one request for each          *)
(* wait that ended without a signal, in any order of calls and wake-ups.   *)
THEOREM OverrunOnlyByStrays == Spec => []NoOverrun
<1>1. IInv => NoOverrun
  BY DEF IInv
<1> QED BY <1>1, SpecIInv, PTL

(* "Greater shall not happen" holds as long as every wait ends with a      *)
(* signal: the if in put_request_buf_item is enough for one producer, and  *)
(* stray wake-ups are all that it fails to meet.                           *)
THEOREM NeverGreaterWithoutStrays == ASSUME MaxStrays = 0 PROVE Spec => []NeverGreater
<1>1. IInv => NeverGreater
  BY ReqBufAssumption DEF IInv, TypeOK, NoOverrun, NeverGreater
<1> QED BY <1>1, SpecIInv, PTL

(* The CoAP thread never sleeps on a buffer with a free slot.              *)
THEOREM NeverLostWakeup == Spec => []NoLostWakeup
<1>1. IInv => NoLostWakeup
  BY DEF IInv
<1> QED BY <1>1, SpecIInv, PTL
-----------------------------------------------------------------------------
(* The refinement: what the ring holds, read from gethere on, is the queue *)
(* of BoundedFifo.                                                         *)

LEMMA ContentsIsRing ==
    Contents = RingContents(rbuf, gethere, counter, SM_RBUF_SIZE)
  BY DEF Contents, RingContents

LEMMA ContentsSeq ==
    ASSUME TypeOK
    PROVE  /\ Len(Contents) = counter
           /\ counter > 0 <=> Contents # <<>>
<1>1. /\ SM_RBUF_SIZE \in Nat \ {0}
      /\ DOMAIN rbuf = 0 .. SM_RBUF_SIZE - 1
      /\ gethere \in 0 .. SM_RBUF_SIZE - 1
      /\ counter \in Nat
  BY ReqBufAssumption DEF TypeOK, Slots
<1> QED
  BY <1>1, RingContentsSeq, ContentsIsRing

(* An insertion with a free slot appends.                                  *)
LEMMA InsertAppends ==
    ASSUME IInv, counter < SM_RBUF_SIZE,
           NEW x \in Request, Insert(x), UNCHANGED gethere
    PROVE  Contents' = Append(Contents, x)
<1>1. /\ gethere \in 0 .. SM_RBUF_SIZE - 1
      /\ counter \in 0 .. SM_RBUF_SIZE - 1
      /\ DOMAIN rbuf = 0 .. SM_RBUF_SIZE - 1
      /\ rbuf' = [rbuf EXCEPT ![(gethere + counter) % SM_RBUF_SIZE] = x]
      /\ counter' = counter + 1
      /\ gethere' = gethere
  BY ReqBufAssumption DEF IInv, TypeOK, Slots, Insert
<1>2. Contents' = RingContents(rbuf', gethere, counter + 1, SM_RBUF_SIZE)
  BY <1>1 DEF Contents, RingContents
<1>3. SM_RBUF_SIZE \in Nat \ {0}
  BY ReqBufAssumption
<1>4. RingContents([rbuf EXCEPT ![(gethere + counter) % SM_RBUF_SIZE] = x],
                   gethere, counter + 1, SM_RBUF_SIZE)
        = Append(RingContents(rbuf, gethere, counter, SM_RBUF_SIZE), x)
  BY <1>1, <1>3, RingInsert, ZenonT(60)
<1> QED
  BY <1>1, <1>2, <1>4, ContentsIsRing

(* An insertion in a full ring overwrites.                                 *)
LEMMA InsertOverwrites ==
    ASSUME IInv, NEW x \in Request, Insert(x), UNCHANGED gethere
    PROVE  Contents' = WithOverwritten(Contents, x, SM_RBUF_SIZE)
<1>1. /\ gethere \in 0 .. SM_RBUF_SIZE - 1
      /\ counter \in Nat
      /\ DOMAIN rbuf = 0 .. SM_RBUF_SIZE - 1
      /\ rbuf' = [rbuf EXCEPT ![(gethere + counter) % SM_RBUF_SIZE] = x]
      /\ counter' = counter + 1
      /\ gethere' = gethere
  BY ReqBufAssumption DEF IInv, TypeOK, Slots, Insert
<1>2. Contents' = RingContents(rbuf', gethere, counter + 1, SM_RBUF_SIZE)
  BY <1>1 DEF Contents, RingContents
<1>3. SM_RBUF_SIZE \in Nat \ {0}
  BY ReqBufAssumption
<1>4. RingContents([rbuf EXCEPT ![(gethere + counter) % SM_RBUF_SIZE] = x],
                   gethere, counter + 1, SM_RBUF_SIZE)
        = WithOverwritten(RingContents(rbuf, gethere, counter, SM_RBUF_SIZE), x, SM_RBUF_SIZE)
  BY <1>1, <1>3, RingOverwrite, ZenonT(60)
<1> QED
  BY <1>1, <1>2, <1>4, ContentsIsRing, Zenon

(* A get takes the oldest request.                                         *)
LEMMA GetTakesHead ==
    ASSUME IInv, Get
    PROVE  /\ Contents # <<>>
           /\ got' = Head(Contents)
           /\ Contents' = Tail(Contents)
<1>1. /\ gethere \in 0 .. SM_RBUF_SIZE - 1
      /\ counter \in Nat \ {0}
      /\ DOMAIN rbuf = 0 .. SM_RBUF_SIZE - 1
      /\ got' = rbuf[gethere]
      /\ rbuf' = rbuf
      /\ gethere' = (gethere + 1) % SM_RBUF_SIZE
      /\ counter' = counter - 1
  BY ReqBufAssumption DEF IInv, TypeOK, NoOverrun, Slots, Get
<1>2. Contents' = RingContents(rbuf, (gethere + 1) % SM_RBUF_SIZE, counter - 1, SM_RBUF_SIZE)
  BY <1>1 DEF Contents, RingContents
<1>3. Contents # <<>>
  BY <1>1, ContentsSeq DEF IInv
<1> QED
  BY <1>1, <1>2, <1>3, ContentsIsRing, RingGet, ReqBufAssumption

(* The ring implements the queue: every initial state is an initial state  *)
(* of BoundedFifo, and every step a step of it or a stutter.               *)
THEOREM RingImplementsFifo == Spec => ImplementsFifo
<1>1. Init => Fifo!Init
  <2>1. ASSUME counter = 0 PROVE Contents = <<>>
    <3>1. 1 .. counter = {}
      BY <2>1, SMT
    <3> QED BY <3>1, SMT DEF Contents
  <2> QED BY <2>1 DEF Init, Fifo!Init
<1>2. IInv /\ [Next]_vars => [Fifo!Next]_(Fifo!vars)
  <2> SUFFICES ASSUME IInv, [Next]_vars PROVE [Fifo!Next]_(Fifo!vars)
    OBVIOUS
  <2>0. Len(Contents) = counter /\ (counter > 0 <=> Contents # <<>>) /\ counter \in Nat
    BY ContentsSeq, SMT DEF IInv, TypeOK
  <2>1. ASSUME NEW x \in Request, Put(x) PROVE Fifo!Put(x)
    <3>1. arg = SM_REQ_INVALID /\ Len(Contents) < SM_RBUF_SIZE
      BY <2>0, <2>1 DEF Put, IInv
    <3>2. Contents' = Append(Contents, x)
      BY <2>1, InsertAppends DEF Put
    <3> QED BY <2>1, <3>1, <3>2 DEF Put, Fifo!Put
  <2>2. ASSUME NEW x \in Request, PutWait(x) PROVE Fifo!Hold(x)
    <3>1. arg = SM_REQ_INVALID /\ Len(Contents) >= SM_RBUF_SIZE
      BY <2>0, <2>2 DEF PutWait, IInv
    <3>2. Contents' = Contents
      BY <2>2 DEF PutWait, Contents
    <3> QED BY <2>2, <3>1, <3>2 DEF PutWait, Fifo!Hold
  <2>3. CASE PutWoken
    <3>1. /\ arg \in Request /\ arg # SM_REQ_INVALID /\ counter < SM_RBUF_SIZE + strays
          /\ arg' = SM_REQ_INVALID /\ UNCHANGED <<got, strays, gethere>> /\ Insert(arg)
      BY <2>3, ReqBufAssumption DEF PutWoken, IInv, TypeOK
    <3>2. CASE counter < SM_RBUF_SIZE
      <4>1. Contents' = Append(Contents, arg)
        BY <3>1, <3>2, InsertAppends
      <4> QED BY <2>0, <3>1, <3>2, <4>1 DEF Fifo!Next, Fifo!Release
    <3>3. CASE counter >= SM_RBUF_SIZE
      <4>1. Contents' = Fifo!Overwritten(arg)
        BY <3>1, InsertOverwrites DEF Fifo!Overwritten, WithOverwritten
      <4> QED BY <2>0, <3>1, <3>3, <4>1 DEF Fifo!Next, Fifo!Overrun
    <3> QED BY <3>2, <3>3, <2>0, ReqBufAssumption
  <2>4. CASE Get
    BY <2>4, GetTakesHead DEF Get, Fifo!Next, Fifo!Get
  <2>5. CASE GetEmpty
    <3>1. Contents = <<>> /\ Contents' = Contents
      BY <2>0, <2>5, SMT DEF GetEmpty, Contents
    <3> QED BY <2>5, <3>1 DEF GetEmpty, Fifo!Next, Fifo!GetNothing
  <2>6. CASE UNCHANGED vars
    BY <2>6 DEF vars, Fifo!vars, Contents
  <2>7. CASE StrayWakeUp
    <3>1. arg # SM_REQ_INVALID /\ Contents' = Contents
      BY <2>7 DEF StrayWakeUp, IInv, Contents
    <3> QED BY <2>7, <3>1 DEF StrayWakeUp, Fifo!Next, Fifo!Stray
  <2> QED
    BY <2>1, <2>2, <2>3, <2>4, <2>5, <2>6, <2>7 DEF Next, Fifo!Next
<1> QED
  BY <1>1, <1>2, SpecIInv, PTL DEF Spec, ImplementsFifo, Fifo!Spec
=============================================================================
