---------------------------- MODULE BoundedFifo ----------------------------
(***************************************************************************)
(* What the two message buffers between the CoAP thread and the Streaming  *)
(* Manager promise to their one producer and one consumer: a first-in      *)
(* first-out queue of at most Size items, whose producer is held while the *)
(* queue is full and whose consumer is never held.  A held put may be      *)
(* abandoned only if CanGiveUp.  It may also come back from its wait for   *)
(* no reason, a stray wake-up: from then on, and by no more items than     *)
(* there were strays, the queue may be overrun, at the expense of items    *)
(* that are still in it.  Until the first stray it is the plain queue.     *)
(***************************************************************************)
EXTENDS Naturals, Sequences

CONSTANTS Item,        (* what the queue carries                            *)
          Nothing,     (* the answer of a get on the empty queue            *)
          Size,        (* the capacity                                      *)
          CanGiveUp    (* whether a held put may be abandoned               *)

VARIABLES q,       (* the queued items, oldest first                        *)
          held,    (* the item of the held put, or Nothing                  *)
          got,     (* what the last get returned                            *)
          strays   (* how many stray wake-ups there have been               *)
vars == <<q, held, got, strays>>

Init == q = <<>> /\ held = Nothing /\ got = Nothing /\ strays = 0

Put(x) == /\ held = Nothing
          /\ Len(q) < Size
          /\ q' = Append(q, x)
          /\ UNCHANGED <<held, got, strays>>

Hold(x) == /\ held = Nothing
           /\ Len(q) >= Size
           /\ held' = x
           /\ UNCHANGED <<q, got, strays>>

Stray == /\ held # Nothing
         /\ strays' = strays + 1
         /\ UNCHANGED <<q, held, got>>

Release == /\ held # Nothing
           /\ Len(q) < Size
           /\ q' = Append(q, held)
           /\ held' = Nothing
           /\ UNCHANGED <<got, strays>>

(* One place more, and the item of every place that is a number of turns   *)
(* of the ring away from it is overwritten with the new one.               *)
Overwritten(x) == [i \in 1 .. Len(q) + 1 |->
                     IF (i - 1) % Size = Len(q) % Size THEN x ELSE q[i]]

Overrun == /\ held # Nothing
           /\ Len(q) >= Size /\ Len(q) < Size + strays
           /\ q' = Overwritten(held)
           /\ held' = Nothing
           /\ UNCHANGED <<got, strays>>

GiveUp == /\ CanGiveUp
          /\ held # Nothing
          /\ held' = Nothing
          /\ UNCHANGED <<q, got, strays>>

Get == /\ q # <<>>
       /\ got' = Head(q)
       /\ q' = Tail(q)
       /\ UNCHANGED <<held, strays>>

GetNothing == /\ q = <<>>
              /\ got' = Nothing
              /\ UNCHANGED <<q, held, strays>>

Next == \/ \E x \in Item : Put(x) \/ Hold(x)
        \/ Stray \/ Release \/ Overrun \/ GiveUp \/ Get \/ GetNothing

Spec == Init /\ [][Next]_vars
=============================================================================
