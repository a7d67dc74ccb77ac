------------------------------ MODULE AtomicBus ------------------------------
(***************************************************************************)
(* What the bus promises to those who use it, without threads, locks and   *)
(* copies of tables: publishing an event is one step, which numbers it,    *)
(* retains it and notes it for everybody who is subscribed at that moment; *)
(* each of them is called with it afterwards, once, and not before the     *)
(* events that are still due to him, except those that led to it.          *)
(* EventStream takes this for granted.                                     *)
(***************************************************************************)
EXTENDS Retention

CONSTANTS Events, Handlers, Matches, Emits

VARIABLES
  sequence,    \* the watermark
  history,     \* the events retained, oldest first
  subscribed,  \* the handlers that are subscribed
  owed,        \* per handler, the numbers of the events noted for it
  delivered,   \* per handler, those it was called with, in that order
  within       \* per number, those of the events that led to it

bus == <<sequence, history, subscribed, owed, delivered, within>>

Due(h) == owed[h] \ ToSet(delivered[h])

Init ==
  /\ sequence = 0 /\ history = <<>> /\ within = <<>>
  /\ subscribed = {}
  /\ owed = [h \in Handlers |-> {}]
  /\ delivered = [h \in Handlers |-> <<>>]

(***************************************************************************)
(* The events that lead to this one are none, or the newest of them was    *)
(* given to a handler that answers with this one.                          *)
(***************************************************************************)
Publish(e, causes) ==
  /\ causes \subseteq 1 .. sequence
  /\ causes # {} => \E n \in causes, h \in Handlers :
       (\A m \in causes : m <= n) /\ n \in ToSet(delivered[h]) /\ e \in Emits[h]
  /\ sequence' = sequence + 1
  /\ history' = Newest(Append(history, [id |-> e, seq |-> sequence']), HistoryLimit)
  /\ owed' = [h \in Handlers |-> IF h \in subscribed /\ e \in Matches[h]
                                THEN owed[h] \cup {sequence'} ELSE owed[h]]
  /\ within' = Append(within, causes)
  /\ UNCHANGED <<subscribed, delivered>>

Deliver(h, n) ==
  /\ n \in Due(h) /\ \A m \in Due(h) : m < n => m \in within[n]
  /\ delivered' = [delivered EXCEPT ![h] = Append(@, n)]
  /\ UNCHANGED <<sequence, history, subscribed, owed, within>>

(***************************************************************************)
(* A subscription id is never used again.  What is due to a handler that   *)
(* unsubscribes remains due.                                               *)
(***************************************************************************)
Subscribe(h) ==
  /\ h \notin subscribed /\ owed[h] = {} /\ delivered[h] = <<>>
  /\ subscribed' = subscribed \cup {h}
  /\ UNCHANGED <<sequence, history, owed, delivered, within>>

Unsubscribe(h) ==
  /\ h \in subscribed
  /\ subscribed' = subscribed \ {h}
  /\ UNCHANGED <<sequence, history, owed, delivered, within>>

Next ==
  \/ \E e \in Events, causes \in SUBSET (1 .. sequence) : Publish(e, causes)
  \/ \E h \in Handlers : \E n \in Due(h) : Deliver(h, n)
  \/ \E h \in Handlers : Subscribe(h) \/ Unsubscribe(h)

Spec == Init /\ [][Next]_bus
=============================================================================
