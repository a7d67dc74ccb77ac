------------------------------ MODULE EventBus ------------------------------
(***************************************************************************)
(* InMemoryEventBus (telemetry/publisher.py) under concurrent publishers,  *)
(* subscribers that come and go, and handlers that themselves publish.     *)
(*                                                                         *)
(* Two reentrant locks: the state lock makes the sequencing of an event    *)
(* and the copy of the subscriber table one step; the dispatch lock is     *)
(* held from there until the last handler has returned, while the state    *)
(* lock is free.  A thread that publishes from a handler holds the         *)
(* dispatch lock already and starts a nested publication.                  *)
(***************************************************************************)
EXTENDS Retention

CONSTANTS
  Threads,         \* the threads that publish
  Events,          \* event ids
  Handlers,        \* the subscriptions
  Matches,         \* per handler, the events its EventFilter matches
  Emits,           \* per handler, the events it may publish while it runs
  DedupLimit       \* dedup_limit

(***************************************************************************)
(* __init__ refuses limits below one.                                      *)
(***************************************************************************)
ASSUME BusAssumption ==
  /\ HistoryLimit \in Nat \ {0} /\ DedupLimit \in Nat \ {0}
  /\ Matches \in [Handlers -> SUBSET Events]
  /\ Emits \in [Handlers -> SUBSET Events]
  /\ MaxSequence \in Nat
  /\ None \notin Threads /\ None \notin Handlers

VARIABLES
  sequence,     \* _sequence
  history,      \* _events, oldest first: records [id, seq]
  eventIds,     \* _event_ids, oldest first
  subscribers,  \* _subscribers, in subscription order
  owner,        \* the thread that holds the dispatch lock, or None
  stack,        \* per thread, its publications in progress, innermost last
  delivered,    \* history: per handler, the sequence numbers it was called with
  owed,         \* history: per handler, those of the events it was subscribed for
  within        \* history: per sequence number, those of the dispatches it was
                \* published in, by a handler

vars == <<sequence, history, eventIds, subscribers, owner, stack, delivered, owed, within>>

(***************************************************************************)
(* A publication waits for the dispatch lock, then goes through its copy   *)
(* of the table (todo) and calls the handlers that match.                  *)
(***************************************************************************)
Frame == [id: Events, at: {"waiting"}]
         \cup [id: Events, at: {"dispatching"}, seq: Nat, todo: Seq(Handlers),
               running: Handlers \cup {None}]

Busy(t) == stack[t] # <<>>
Top(t) == Last(stack[t])
Dispatching(t) == Busy(t) /\ Top(t).at = "dispatching"
Running(t) == Dispatching(t) /\ Top(t).running # None
WithTop(t, frame) == [stack EXCEPT ![t] = Append(Front(@), frame)]

InDispatch(id, seq, todo, running) ==
  [id |-> id, at |-> "dispatching", seq |-> seq, todo |-> todo, running |-> running]

\* The place in the copied table of the next handler whose filter matches.
NextMatch(frame) ==
  {k \in DOMAIN frame.todo :
     /\ frame.id \in Matches[frame.todo[k]]
     /\ \A j \in 1 .. k - 1 : frame.id \notin Matches[frame.todo[j]]}

NoMatchLeft(frame) == \A k \in DOMAIN frame.todo : frame.id \notin Matches[frame.todo[k]]

-----------------------------------------------------------------------------
Init ==
  /\ sequence = 0
  /\ history = <<>>
  /\ eventIds = <<>>
  /\ subscribers = <<>>
  /\ owner = None
  /\ stack = [t \in Threads |-> <<>>]
  /\ delivered = [h \in Handlers |-> <<>>]
  /\ owed = [h \in Handlers |-> {}]
  /\ within = <<>>

(***************************************************************************)
(* A call of publish: by an idle thread, or by a handler while it runs.    *)
(***************************************************************************)
Call(t, e) ==
  /\ sequence < MaxSequence
  /\ ~Busy(t) \/ (Running(t) /\ e \in Emits[Top(t).running])
  /\ stack' = [stack EXCEPT ![t] = Append(@, [id |-> e, at |-> "waiting"])]
  /\ UNCHANGED <<sequence, history, eventIds, subscribers, owner, delivered, owed, within>>

\* Mutant of HasLock: dispatches are not serialized.
HasLockAlways(t) == Busy(t)

\* The dispatch lock is free, or this thread already has it.
HasLock(t) == owner = None \/ owner = t

\* Mutant of LockAfterReturn: the lock is kept.
LockKept(t) == IF Busy(t) THEN owner ELSE None

\* The outermost publication of a thread releases the lock.
LockAfterReturn(t) == IF Len(stack[t]) = 1 THEN None ELSE owner

NextSequence == sequence + 1

\* Mutant of Remembered: one id less than the limit.
RememberedOneLess(id) == Newest(Append(eventIds, id), DedupLimit - 1)

Remembered(id) == Newest(Append(eventIds, id), DedupLimit)

\* Mutant of DropDuplicate: the number is taken before the event is known to be new.
NumberDuplicate(t) ==
  /\ Busy(t) /\ Top(t).at = "waiting" /\ HasLock(t)
  /\ Contains(eventIds, Top(t).id)
  /\ sequence' = sequence + 1
  /\ owner' = LockAfterReturn(t)
  /\ stack' = [stack EXCEPT ![t] = Front(@)]
  /\ UNCHANGED <<history, eventIds, subscribers, delivered, owed, within>>

(***************************************************************************)
(* The thread has the dispatch lock and, in one step under the state lock, *)
(* drops a known event or sequences it, trims history and ids to their     *)
(* limits and copies the subscriber table.                                 *)
(***************************************************************************)
DropDuplicate(t) ==
  /\ Busy(t) /\ Top(t).at = "waiting" /\ HasLock(t)
  /\ Contains(eventIds, Top(t).id)
  /\ owner' = LockAfterReturn(t)
  /\ stack' = [stack EXCEPT ![t] = Front(@)]
  /\ UNCHANGED <<sequence, history, eventIds, subscribers, delivered, owed, within>>

Sequenced(t) ==
  /\ Busy(t) /\ Top(t).at = "waiting" /\ HasLock(t)
  /\ ~Contains(eventIds, Top(t).id)
  /\ sequence' = NextSequence
  /\ history' = Newest(Append(history, [id |-> Top(t).id, seq |-> sequence']), HistoryLimit)
  /\ eventIds' = Remembered(Top(t).id)
  /\ owner' = t
  /\ stack' = WithTop(t, InDispatch(Top(t).id, sequence', subscribers, None))
  /\ owed' = [h \in Handlers |->
                IF Contains(subscribers, h) /\ Top(t).id \in Matches[h]
                THEN owed[h] \cup {sequence'} ELSE owed[h]]
  /\ within' = Append(within, {frame.seq : frame \in ToSet(Front(stack[t]))})
  /\ UNCHANGED <<subscribers, delivered>>

(***************************************************************************)
(* The next handler of the copied table whose filter matches is called; it *)
(* returns or fails, which publish does not distinguish; when no match is  *)
(* left publish returns.                                                   *)
(***************************************************************************)
CallHandler(t) ==
  /\ Dispatching(t) /\ ~Running(t)
  /\ \E k \in NextMatch(Top(t)) : LET h == Top(t).todo[k] IN
       /\ stack' = WithTop(t, InDispatch(Top(t).id, Top(t).seq,
                                        SubSeq(Top(t).todo, k + 1, Len(Top(t).todo)), h))
       /\ delivered' = [delivered EXCEPT ![h] = Append(@, Top(t).seq)]
  /\ UNCHANGED <<sequence, history, eventIds, subscribers, owner, owed, within>>

\* Mutant of HandlerReturns: a handler that fails ends the dispatch.
HandlerEndsDispatch(t) ==
  /\ Running(t)
  /\ stack' = WithTop(t, InDispatch(Top(t).id, Top(t).seq, <<>>, None))
  /\ UNCHANGED <<sequence, history, eventIds, subscribers, owner, delivered, owed, within>>

HandlerReturns(t) ==
  /\ Running(t)
  /\ stack' = WithTop(t, InDispatch(Top(t).id, Top(t).seq, Top(t).todo, None))
  /\ UNCHANGED <<sequence, history, eventIds, subscribers, owner, delivered, owed, within>>

PublishReturns(t) ==
  /\ Dispatching(t) /\ ~Running(t) /\ NoMatchLeft(Top(t))
  /\ owner' = LockAfterReturn(t)
  /\ stack' = [stack EXCEPT ![t] = Front(@)]
  /\ UNCHANGED <<sequence, history, eventIds, subscribers, delivered, owed, within>>

(***************************************************************************)
(* subscribe and unsubscribe take the state lock only: they do not wait    *)
(* for a dispatch in progress.                                             *)
(***************************************************************************)
Subscribe(h) ==
  /\ ~Contains(subscribers, h)
  /\ owed[h] = {} /\ delivered[h] = <<>>   \* a subscription id is never reused
  /\ subscribers' = Append(subscribers, h)
  /\ UNCHANGED <<sequence, history, eventIds, owner, stack, delivered, owed, within>>

Unsubscribe(h) ==
  /\ \E i \in DOMAIN subscribers :
       subscribers[i] = h /\ subscribers' = RemoveAt(subscribers, i)
  /\ UNCHANGED <<sequence, history, eventIds, owner, stack, delivered, owed, within>>

Proceed(t) ==
  \/ DropDuplicate(t) \/ Sequenced(t)
  \/ CallHandler(t) \/ HandlerReturns(t) \/ PublishReturns(t)

Next ==
  \/ \E t \in Threads, e \in Events : Call(t, e)
  \/ \E t \in Threads : Proceed(t)
  \/ \E h \in Handlers : Subscribe(h) \/ Unsubscribe(h)

(***************************************************************************)
(* A thread in the middle of publish is eventually scheduled, and a        *)
(* handler returns however much it publishes.  Nothing makes anybody call  *)
(* publish.                                                                *)
(***************************************************************************)
Spec ==
  /\ Init /\ [][Next]_vars
  /\ \A t \in Threads : WF_vars(Proceed(t)) /\ SF_vars(HandlerReturns(t))

-----------------------------------------------------------------------------
(***************************************************************************)
(* Every variable keeps its type.                                          *)
(***************************************************************************)
TypeOK ==
  /\ sequence \in 0 .. MaxSequence + Cardinality(Threads)
  /\ history \in Seq([id: Events, seq: Nat \ {0}])
  /\ eventIds \in Seq(Events)
  /\ subscribers \in Seq(Handlers)
  /\ owner \in Threads \cup {None}
  /\ stack \in [Threads -> Seq(Frame)]
  /\ delivered \in [Handlers -> Seq(Nat)]
  /\ owed \in [Handlers -> SUBSET Nat]
  /\ within \in Seq(SUBSET Nat) /\ Len(within) = sequence

(***************************************************************************)
(* What a snapshot reads in one step is always consistent, at every point  *)
(* of every dispatch: the retained events are the newest ones, numbered    *)
(* without a hole up to the watermark, eviction included.                  *)
(***************************************************************************)
SnapshotIsContiguous ==
  /\ Len(history) <= HistoryLimit
  /\ Len(history) < HistoryLimit => Len(history) = sequence
  /\ \A i \in DOMAIN history : history[i].seq = sequence - Len(history) + i

(***************************************************************************)
(* No event id is retained twice, as long as at most one id less is        *)
(* remembered than events are retained.                                    *)
(***************************************************************************)
RetainedOnce ==
  DedupLimit >= HistoryLimit - 1 =>
    \A i, j \in DOMAIN history : history[i].id = history[j].id => i = j

(***************************************************************************)
(* What the dispatch lock is for: every handler is called with the events  *)
(* in the order of their sequence numbers, never twice with one, except    *)
(* that an event published by a handler may overtake the events in whose   *)
(* dispatch it was published, the lock being reentrant.                    *)
(***************************************************************************)
CallbacksFollowSequence ==
  \A h \in Handlers : \A i, j \in DOMAIN delivered[h] :
    i < j => \/ delivered[h][i] < delivered[h][j]
             \/ delivered[h][j] \in within[delivered[h][i]]

(***************************************************************************)
(* When nobody is publishing, every handler has been called exactly once   *)
(* with every matching event sequenced while it was subscribed, and with   *)
(* no other, whoever failed, published or unsubscribed in between.         *)
(***************************************************************************)
QuiescentDelivery ==
  (\A t \in Threads : ~Busy(t)) =>
    \A h \in Handlers :
      ToSet(delivered[h]) = owed[h] /\ Len(delivered[h]) = Cardinality(owed[h])

(***************************************************************************)
(* For those who use it, publish is atomic: although a number is given     *)
(* under one lock and the handlers are called later under another, the bus *)
(* implements one that notes an event for all its subscribers in the step  *)
(* that numbers it, and calls them in order.                               *)
(***************************************************************************)
Atomic == INSTANCE AtomicBus WITH subscribed <- ToSet(subscribers)

ImplementsAtomicBus == Atomic!Spec

(***************************************************************************)
(* Every call of publish returns: no thread waits for ever for the         *)
(* dispatch lock, nested publications included.                            *)
(***************************************************************************)
PublishTerminates == \A t \in Threads : Busy(t) ~> ~Busy(t)
=============================================================================
