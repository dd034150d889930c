---------------------------- MODULE Observation ----------------------------
(***************************************************************************)
(* What the server promises to its clients, with its two threads, the      *)
(* queues between them and the references out of sight: a GET takes effect *)
(* when it is handled, so that at any time one stream is owed to each      *)
(* observation and none to anybody else.  MayRevive says whether a client  *)
(* may be given its cancelled observation again, MayLose whether a change  *)
(* of the streams may be lost on its way to them.                          *)
(***************************************************************************)
EXTENDS Integers

CONSTANTS Clients, Sensors,
          Regs,      (* names of observations                               *)
          Tids,      (* names of plain requests                             *)
          NoOwner,
          MayRevive, MayLose

VARIABLES owner,       (* client and sensor of an observation               *)
          valid,       (* observations that are not cancelled               *)
          streamed,    (* the streams that are owed, by sensor and name     *)
          unconfirmed, (* notifications neither confirmed nor given up      *)
          awaited      (* plain requests without an answer                  *)
vars == <<owner, valid, streamed, unconfirmed, awaited>>

Init == /\ owner = [r \in Regs |-> NoOwner]
        /\ valid = {} /\ streamed = {}
        /\ unconfirmed = [r \in Regs |-> 0]
        /\ awaited = {}

Mine(c, s) == {r \in valid : owner[r] = <<c, s>>}
Found(c, s) == IF Mine(c, s) # {} THEN Mine(c, s)
               ELSE {r \in Regs : MayRevive /\ owner[r] = <<c, s>>}

(* The stream of an observation. *)
StreamOf(r) == <<owner[r][2], r>>

(* A client observes a sensor: it has one valid observation, old or new.   *)
Observe(c, s, r) ==
    /\ \/ owner[r] = <<c, s>> /\ r \in Found(c, s) /\ UNCHANGED <<owner, valid>>
       \/ /\ owner[r] = NoOwner /\ Mine(c, s) = {}
          /\ owner' = [owner EXCEPT ![r] = <<c, s>>]
          /\ valid' = valid \cup {r}
    /\ streamed' = streamed \cup {<<s, r>>}
    /\ UNCHANGED <<unconfirmed, awaited>>

Cancel(r) == valid' = valid \ {r} /\ streamed' = streamed \ {StreamOf(r)}

(* A plain request, which cancels the client's observation of that sensor. *)
Ask(c, s, t) == /\ t \notin awaited /\ awaited' = awaited \cup {t}
                /\ \/ Mine(c, s) = {} /\ UNCHANGED <<valid, streamed>>
                   \/ \E r \in Found(c, s) : Cancel(r)
                /\ UNCHANGED <<owner, unconfirmed>>

Reply(t) == /\ t \in awaited /\ awaited' = awaited \ {t}
            /\ UNCHANGED <<owner, valid, streamed, unconfirmed>>

(* Nobody is notified who is not known by then. *)
Notify(r) == /\ owner[r] # NoOwner
             /\ unconfirmed' = [unconfirmed EXCEPT ![r] = @ + 1]
             /\ UNCHANGED <<owner, valid, streamed, awaited>>

(* An observation is forgotten, and its name free for another client, only *)
(* after it is cancelled, when nothing of it is under way.                 *)
Forget(r) == /\ owner[r] # NoOwner /\ owner' = [owner EXCEPT ![r] = NoOwner]
             /\ r \notin valid' /\ unconfirmed'[r] = 0
             /\ \A s \in Sensors : <<s, r>> \notin streamed'
MayForget(r) == owner' = owner \/ Forget(r)

(* A notification is confirmed, or given up, which may cancel.             *)
Conclude(r) == /\ unconfirmed[r] > 0
               /\ unconfirmed' = [unconfirmed EXCEPT ![r] = @ - 1]
               /\ UNCHANGED <<valid, streamed>> \/ Cancel(r)
               /\ MayForget(r)
               /\ UNCHANGED awaited

(* The last trace of a cancelled observation goes. *)
Settle(r) == Forget(r) /\ UNCHANGED <<valid, streamed, unconfirmed, awaited>>

(* The streams miss a request, to start or to stop. *)
Lose(r) == /\ MayLose /\ owner[r] # NoOwner
           /\ streamed' \in {streamed \cup {StreamOf(r)}, streamed \ {StreamOf(r)}}
           /\ UNCHANGED <<owner, valid, unconfirmed, awaited>>

Next == \/ \E c \in Clients, s \in Sensors :
              (\E r \in Regs : Observe(c, s, r)) \/ (\E t \in Tids : Ask(c, s, t))
        \/ \E t \in Tids : Reply(t)
        \/ \E r \in Regs : Notify(r) \/ Conclude(r) \/ Settle(r) \/ Lose(r)

Spec == Init /\ [][Next]_vars
-----------------------------------------------------------------------------
(* A client has at most one valid observation of a sensor.  Whatever is    *)
(* lost, a stream is of a known observation and on its sensor.  While      *)
(* nothing is lost, every valid observation has its stream, and unless a   *)
(* cancelled one is revived no other one has.                              *)
OneStreamEach ==
    /\ \A q, r \in valid : owner[q] = owner[r] => q = r
    /\ \A r \in valid : owner[r] # NoOwner
    /\ \A s \in Sensors, r \in Regs :
          <<s, r>> \in streamed => owner[r] # NoOwner /\ s = owner[r][2]
    /\ ~MayLose => \A r \in valid : StreamOf(r) \in streamed
    /\ ~MayLose /\ ~MayRevive =>
          \A s \in Sensors, r \in Regs : <<s, r>> \in streamed => r \in valid
=============================================================================
