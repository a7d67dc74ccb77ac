--------------------------- MODULE Telemetry_proofs ---------------------------
(***************************************************************************)
(* Theorems about EventBus and EventStream.  The first part is about the   *)
(* bus: what a snapshot shows, and what the two locks give the handlers,   *)
(* for any number of threads, events, handlers and any limits of the       *)
(* history and of the remembered ids, and that publishing is one step for  *)
(* those who use the bus.  The second part is about the way from the bus   *)
(* to the dashboard: what the live view shows and what is still under way  *)
(* to it, for any limits of the history, the queue, the wire and the       *)
(* client, through faults, restarts and abandoned requests.                *)
(***************************************************************************)
EXTENDS EventBus, EventStream, TLAPS, SequenceTheorems, FiniteSetTheorems, NaturalsInduction,
        WellFoundedInduction

-----------------------------------------------------------------------------
(***************************************************************************)
(* Sequences.                                                              *)
(***************************************************************************)

(***************************************************************************)
(* What is left of a sequence that is trimmed to its newest n elements.    *)
(***************************************************************************)
LEMMA NewestProperties ==
  ASSUME NEW S, NEW s \in Seq(S), NEW n \in Nat
  PROVE  /\ Newest(s, n) \in Seq(S)
         /\ Len(Newest(s, n)) = IF Len(s) <= n THEN Len(s) ELSE n
         /\ \A k \in 0 .. Len(Newest(s, n)) - 1 :
              Newest(s, n)[Len(Newest(s, n)) - k] = s[Len(s) - k]
<1>1. Len(s) \in Nat /\ \A i \in 1 .. Len(s) : s[i] \in S
  OBVIOUS
<1>2. CASE Len(s) <= n
  BY <1>1, <1>2 DEF Newest
<1>3. CASE ~(Len(s) <= n)
  <2>1. Newest(s, n) = SubSeq(s, Len(s) - n + 1, Len(s))
    BY <1>3 DEF Newest
  <2>2. \A i \in (Len(s) - n + 1) .. Len(s) : s[i] \in S
    BY <1>1, <1>3
  <2>3. /\ SubSeq(s, Len(s) - n + 1, Len(s)) \in Seq(S)
        /\ Len(SubSeq(s, Len(s) - n + 1, Len(s))) = n
        /\ \A i \in 1 .. n : SubSeq(s, Len(s) - n + 1, Len(s))[i] = s[Len(s) - n + i]
    BY <1>1, <1>3, <2>2, SubSeqProperties
  <2>4. QED  BY <1>1, <1>3, <2>1, <2>3
<1>4. QED  BY <1>2, <1>3

(***************************************************************************)
(* Trimming a sequence after one element was added at its end.             *)
(***************************************************************************)
LEMMA TrimmedAppendType ==
  ASSUME NEW S, NEW s \in Seq(S), NEW x \in S, NEW n \in Nat
  PROVE  Newest(Append(s, x), n) \in Seq(S)
<1>1. Append(s, x) \in Seq(S)
  BY AppendProperties
<1>2. QED  BY <1>1, NewestProperties

LEMMA TrimmedAppend ==
  ASSUME NEW S, NEW s \in Seq(S), NEW x \in S, NEW n \in Nat, n > 0,
         NEW r \in Seq(S), r = Newest(Append(s, x), n)
  PROVE  /\ Len(r) \in Nat /\ Len(r) > 0
         /\ Len(s) < n => Len(r) = Len(s) + 1
         /\ n <= Len(s) => Len(r) = n
         /\ r[Len(r)] = x
         /\ \A k \in 1 .. Len(r) - 1 : r[Len(r) - k] = s[Len(s) + 1 - k]
<1> DEFINE a == Append(s, x)
<1>1. a \in Seq(S) /\ Len(a) = Len(s) + 1 /\ a[Len(s) + 1] = x
      /\ \A i \in 1 .. Len(s) : a[i] = s[i]
  BY AppendProperties
<1>2. Len(s) \in Nat /\ r = Newest(a, n)
  OBVIOUS
<1> HIDE DEF a
<1>3. /\ Len(Newest(a, n)) = IF Len(a) <= n THEN Len(a) ELSE n
      /\ \A k \in 0 .. Len(Newest(a, n)) - 1 :
           Newest(a, n)[Len(Newest(a, n)) - k] = a[Len(a) - k]
  BY <1>1, NewestProperties
<1>4. /\ Len(r) = IF Len(a) <= n THEN Len(a) ELSE n
      /\ \A k \in 0 .. Len(r) - 1 : r[Len(r) - k] = a[Len(a) - k]
  BY <1>2, <1>3
<1>5. /\ Len(r) \in Nat /\ Len(r) > 0
      /\ Len(s) < n => Len(r) = Len(s) + 1
      /\ n <= Len(s) => Len(r) = n
  BY <1>1, <1>2, <1>4
<1>6. r[Len(r)] = x
  <2>1. 0 \in 0 .. Len(r) - 1
    BY <1>5
  <2>2. r[Len(r) - 0] = a[Len(a) - 0]
    BY <1>4, <2>1, Zenon
  <2>3. Len(r) - 0 = Len(r) /\ Len(a) - 0 = Len(s) + 1
    BY <1>1, <1>2, <1>5
  <2>4. QED  BY <1>1, <2>2, <2>3
<1>7. ASSUME NEW k \in 1 .. Len(r) - 1
      PROVE  r[Len(r) - k] = s[Len(s) + 1 - k]
  <2>1. r[Len(r) - k] = a[Len(a) - k]
    BY <1>4, <1>5
  <2>2. Len(s) + 1 - k \in 1 .. Len(s)
    BY <1>2, <1>5
  <2>3. QED  BY <1>1, <2>1, <2>2
<1>8. QED  BY <1>5, <1>6, <1>7

(***************************************************************************)
(* The three things an action does to a stack of publications: a new one   *)
(* on top, the top one gone, the top one replaced.                         *)
(***************************************************************************)
Pushed(s, r, frame) ==
  /\ Len(r) = Len(s) + 1 /\ r[Len(s) + 1] = frame
  /\ \A i \in 1 .. Len(s) : r[i] = s[i]

Popped(s, r) ==
  /\ Len(s) > 0 /\ Len(r) = Len(s) - 1
  /\ \A i \in 1 .. Len(s) - 1 : r[i] = s[i]

Replaced(s, r, frame) ==
  /\ Len(s) > 0 /\ Len(r) = Len(s) /\ r[Len(s)] = frame
  /\ \A i \in 1 .. Len(s) - 1 : r[i] = s[i]

LEMMA FrontProperties ==
  ASSUME NEW S, NEW s \in Seq(S), s # <<>>
  PROVE  Front(s) \in Seq(S) /\ Popped(s, Front(s))
<1> DEFINE n == Len(s) - 1
<1>1. Len(s) \in Nat /\ Len(s) > 0
  BY EmptySeq
<1>2. n \in Nat /\ \A i \in 1 .. n : s[i] \in S
  BY <1>1, ElementOfSeq
<1>3. Front(s) = SubSeq(s, 1, n)
  BY DEF Front
<1> HIDE DEF n
<1>4. /\ SubSeq(s, 1, n) \in Seq(S)
      /\ Len(SubSeq(s, 1, n)) = IF 1 <= n THEN n - 1 + 1 ELSE 0
      /\ \A i \in 1 .. n - 1 + 1 : SubSeq(s, 1, n)[i] = s[1 + i - 1]
  BY <1>2, SubSeqProperties
<1>5. /\ Len(SubSeq(s, 1, n)) = n
      /\ \A i \in 1 .. n : SubSeq(s, 1, n)[i] = s[i]
  BY <1>2, <1>4
<1>6. QED  BY <1>1, <1>3, <1>4, <1>5 DEF Popped, n

LEMMA ReplaceLast ==
  ASSUME NEW S, NEW s \in Seq(S), s # <<>>, NEW x \in S
  PROVE  /\ Append(Front(s), x) \in Seq(S)
         /\ Replaced(s, Append(Front(s), x), x)
<1> DEFINE f == Front(s)
<1>1. f \in Seq(S) /\ Popped(s, f) /\ Len(s) \in Nat
  BY FrontProperties
<1> HIDE DEF f
<1>2. /\ Append(f, x) \in Seq(S) /\ Len(Append(f, x)) = Len(f) + 1
      /\ Append(f, x)[Len(f) + 1] = x /\ \A i \in 1 .. Len(f) : Append(f, x)[i] = f[i]
  BY <1>1, AppendProperties
<1>3. QED  BY <1>1, <1>2 DEF Popped, Replaced, f

LEMMA RemoveAtProperties ==
  ASSUME NEW S, NEW s \in Seq(S), NEW i \in 1 .. Len(s)
  PROVE  /\ RemoveAt(s, i) \in Seq(S)
         /\ Len(RemoveAt(s, i)) = Len(s) - 1
         /\ \A k \in 1 .. Len(s) - 1 :
              RemoveAt(s, i)[k] = IF k < i THEN s[k] ELSE s[k + 1]
<1>1. Len(s) \in Nat /\ \A k \in 1 .. Len(s) : s[k] \in S
  OBVIOUS
<1> DEFINE l == SubSeq(s, 1, i - 1)
           r == SubSeq(s, i + 1, Len(s))
<1>2. /\ l \in Seq(S) /\ Len(l) = i - 1
      /\ \A k \in 1 .. i - 1 : l[k] = s[k]
  <2>1. \A k \in 1 .. i - 1 : s[k] \in S
    BY <1>1
  <2>2. QED  BY <1>1, <2>1, SubSeqProperties
<1>3. /\ r \in Seq(S) /\ Len(r) = Len(s) - i
      /\ \A k \in 1 .. Len(s) - i : r[k] = s[i + k]
  <2>1. \A k \in i + 1 .. Len(s) : s[k] \in S
    BY <1>1
  <2> DEFINE m == i + 1
  <2>2. m \in Int
    BY <1>1
  <2>3. /\ SubSeq(s, m, Len(s)) \in Seq(S)
        /\ Len(SubSeq(s, m, Len(s))) = IF m <= Len(s) THEN Len(s) - m + 1 ELSE 0
        /\ \A k \in 1 .. Len(s) - m + 1 : SubSeq(s, m, Len(s))[k] = s[m + k - 1]
    <3> HIDE DEF m
    <3>1. \A k \in m .. Len(s) : s[k] \in S
      BY <2>1 DEF m
    <3>2. QED  BY <1>1, <2>2, <3>1, SubSeqProperties
  <2>4. QED  BY <1>1, <2>3
<1> HIDE DEF l, r
<1>4. /\ l \o r \in Seq(S) /\ Len(l \o r) = Len(l) + Len(r)
      /\ \A k \in 1 .. Len(l) + Len(r) :
           (l \o r)[k] = IF k <= Len(l) THEN l[k] ELSE r[k - Len(l)]
  BY <1>2, <1>3, ConcatProperties
<1>5. RemoveAt(s, i) = l \o r
  BY DEF RemoveAt, l, r
<1>6. ASSUME NEW k \in 1 .. Len(s) - 1
      PROVE  (l \o r)[k] = IF k < i THEN s[k] ELSE s[k + 1]
  <2>1. CASE k < i
    BY <1>1, <1>2, <1>3, <1>4, <2>1
  <2>2. CASE ~(k < i)
    <3>1. k - (i - 1) \in 1 .. Len(s) - i /\ i + (k - (i - 1)) = k + 1
      BY <1>1, <2>2
    <3>2. (l \o r)[k] = r[k - (i - 1)]
      BY <1>1, <1>2, <1>3, <1>4, <2>2
    <3>3. QED  BY <1>3, <2>2, <3>1, <3>2
  <2>3. QED  BY <2>1, <2>2
<1>7. QED  BY <1>1, <1>2, <1>3, <1>4, <1>5, <1>6

-----------------------------------------------------------------------------
(***************************************************************************)
(* Types, and the nesting of publications.                                 *)
(***************************************************************************)

Retained == [id: Events, seq: Nat \ {0}]

TypeInv ==
  /\ sequence \in Nat
  /\ history \in Seq(Retained)
  /\ eventIds \in Seq(Events)
  /\ subscribers \in Seq(Handlers)
  /\ owner \in Threads \cup {None}
  /\ stack \in [Threads -> Seq(Frame)]
  /\ delivered \in [Handlers -> Seq(Nat)]
  /\ owed \in [Handlers -> SUBSET Nat]
  /\ within \in Seq(SUBSET Nat) /\ Len(within) = sequence

(***************************************************************************)
(* Only the innermost publication of a thread can wait for the lock: a     *)
(* handler runs inside a dispatch.                                         *)
(***************************************************************************)
NestingInv ==
  \A t \in Threads : \A i \in 1 .. Len(stack[t]) - 1 : stack[t][i].at = "dispatching"

LEMMA FrameFields ==
  ASSUME NEW f \in Frame
  PROVE  /\ f.id \in Events
         /\ f.at \in {"waiting", "dispatching"}
         /\ f.at = "dispatching" =>
              f.seq \in Nat /\ f.todo \in Seq(Handlers) /\ f.running \in Handlers \cup {None}
BY DEF Frame

LEMMA InDispatchFields ==
  ASSUME NEW id \in Events, NEW seq \in Nat, NEW todo \in Seq(Handlers),
         NEW running \in Handlers \cup {None}
  PROVE  LET f == InDispatch(id, seq, todo, running)
         IN  /\ f \in Frame /\ f.id = id /\ f.at = "dispatching" /\ f.seq = seq
             /\ f.todo = todo /\ f.running = running
BY DEF Frame, InDispatch

LEMMA WaitingFields ==
  ASSUME NEW e \in Events
  PROVE  /\ [id |-> e, at |-> "waiting"] \in Frame
         /\ [id |-> e, at |-> "waiting"].at = "waiting"
         /\ [id |-> e, at |-> "waiting"].id = e
BY DEF Frame

LEMMA TopOfStack ==
  ASSUME TypeInv, NEW t \in Threads, Busy(t)
  PROVE  /\ stack[t] \in Seq(Frame) /\ stack[t] # <<>>
         /\ Len(stack[t]) \in Nat /\ Len(stack[t]) > 0
         /\ Top(t) = stack[t][Len(stack[t])]
         /\ Top(t) \in Frame
<1>1. stack[t] \in Seq(Frame) /\ stack[t] # <<>>
  BY DEF TypeInv, Busy
<1>2. Len(stack[t]) \in Nat /\ Len(stack[t]) > 0
  BY <1>1, EmptySeq
<1>3. QED  BY <1>1, <1>2, ElementOfSeq DEF Top, Last

(***************************************************************************)
(* What each action does to the stacks.                                    *)
(***************************************************************************)
OtherStacksKept(t) == \A u \in Threads \ {t} : stack'[u] = stack[u]

LEMMA CallPushes ==
  ASSUME TypeInv, NEW t \in Threads, NEW e \in Events, Call(t, e)
  PROVE  /\ stack' \in [Threads -> Seq(Frame)]
         /\ OtherStacksKept(t)
         /\ Pushed(stack[t], stack'[t], [id |-> e, at |-> "waiting"])
<1> DEFINE w == [id |-> e, at |-> "waiting"]
<1>1. w \in Frame
  BY WaitingFields
<1>2. stack \in [Threads -> Seq(Frame)] /\ stack' = [stack EXCEPT ![t] = Append(stack[t], w)]
  BY DEF TypeInv, Call
<1> HIDE DEF w
<1>3. Append(stack[t], w) \in Seq(Frame) /\ Pushed(stack[t], Append(stack[t], w), w)
  BY <1>1, <1>2, AppendProperties DEF Pushed
<1>4. QED  BY <1>2, <1>3 DEF OtherStacksKept, w

LEMMA TopPopped ==
  ASSUME TypeInv, NEW t \in Threads, Busy(t), stack' = [stack EXCEPT ![t] = Front(stack[t])]
  PROVE  /\ stack' \in [Threads -> Seq(Frame)]
         /\ OtherStacksKept(t)
         /\ Popped(stack[t], stack'[t])
<1>1. stack \in [Threads -> Seq(Frame)]
  BY DEF TypeInv
<1>2. Front(stack[t]) \in Seq(Frame) /\ Popped(stack[t], Front(stack[t]))
  BY TopOfStack, FrontProperties
<1>3. QED  BY <1>1, <1>2 DEF OtherStacksKept

LEMMA TopReplaced ==
  ASSUME TypeInv, NEW t \in Threads, Busy(t), NEW f \in Frame, stack' = WithTop(t, f)
  PROVE  /\ stack' \in [Threads -> Seq(Frame)]
         /\ OtherStacksKept(t)
         /\ Replaced(stack[t], stack'[t], f)
<1>1. stack \in [Threads -> Seq(Frame)]
  BY DEF TypeInv
<1>2. /\ Append(Front(stack[t]), f) \in Seq(Frame)
      /\ Replaced(stack[t], Append(Front(stack[t]), f), f)
  BY TopOfStack, ReplaceLast
<1>3. QED  BY <1>1, <1>2 DEF OtherStacksKept, WithTop

LEMMA DropPops ==
  ASSUME TypeInv, NEW t \in Threads, DropDuplicate(t) \/ PublishReturns(t)
  PROVE  /\ Busy(t) /\ stack' \in [Threads -> Seq(Frame)]
         /\ OtherStacksKept(t)
         /\ Popped(stack[t], stack'[t])
<1>1. Busy(t) /\ stack' = [stack EXCEPT ![t] = Front(stack[t])]
  BY DEF DropDuplicate, PublishReturns, Dispatching
<1>2. QED  BY <1>1, TopPopped

(***************************************************************************)
(* An event that is sequenced opens a dispatch on the place of the frame   *)
(* that waited.                                                            *)
(***************************************************************************)
Opened(t) == InDispatch(Top(t).id, sequence + 1, subscribers, None)

LEMMA SequencedReplaces ==
  ASSUME TypeInv, NEW t \in Threads, Sequenced(t)
  PROVE  /\ Busy(t) /\ Top(t).at = "waiting" /\ Top(t).id \in Events
         /\ sequence' = sequence + 1
         /\ Opened(t) \in Frame /\ Opened(t).id = Top(t).id /\ Opened(t).at = "dispatching"
         /\ Opened(t).seq = sequence + 1 /\ Opened(t).todo = subscribers
         /\ stack' \in [Threads -> Seq(Frame)]
         /\ OtherStacksKept(t)
         /\ Replaced(stack[t], stack'[t], Opened(t))
<1>1. Busy(t) /\ Top(t).at = "waiting" /\ sequence' = sequence + 1
      /\ stack' = WithTop(t, Opened(t))
  BY DEF Sequenced, Opened, NextSequence
<1>2. Top(t).id \in Events
  BY <1>1, TopOfStack, FrameFields
<1>3. sequence + 1 \in Nat /\ subscribers \in Seq(Handlers) /\ None \in Handlers \cup {None}
  BY DEF TypeInv
<1>4. /\ Opened(t) \in Frame /\ Opened(t).id = Top(t).id /\ Opened(t).at = "dispatching"
      /\ Opened(t).seq = sequence + 1 /\ Opened(t).todo = subscribers
  BY <1>2, <1>3, InDispatchFields DEF Opened
<1>5. QED  BY <1>1, <1>2, <1>4, TopReplaced

(***************************************************************************)
(* A handler is called: the dispatch has gone past the place of its match. *)
(***************************************************************************)
Past(f, k) == InDispatch(f.id, f.seq, SubSeq(f.todo, k + 1, Len(f.todo)), f.todo[k])

LEMMA CallHandlerReplaces ==
  ASSUME TypeInv, NEW t \in Threads, CallHandler(t)
  PROVE  /\ Busy(t) /\ Top(t).at = "dispatching"
         /\ \E k \in NextMatch(Top(t)) : LET h == Top(t).todo[k] IN
              /\ k \in 1 .. Len(Top(t).todo)
              /\ Past(Top(t), k) \in Frame
              /\ Past(Top(t), k).id = Top(t).id /\ Past(Top(t), k).at = "dispatching"
              /\ Past(Top(t), k).seq = Top(t).seq
              /\ Past(Top(t), k).todo \in Seq(Handlers)
              /\ Len(Past(Top(t), k).todo) = Len(Top(t).todo) - k
              /\ \A j \in 1 .. Len(Top(t).todo) - k : Past(Top(t), k).todo[j] = Top(t).todo[k + j]
              /\ stack' \in [Threads -> Seq(Frame)]
              /\ OtherStacksKept(t)
              /\ Replaced(stack[t], stack'[t], Past(Top(t), k))
              /\ h \in Handlers /\ Top(t).seq \in Nat
              /\ delivered' = [delivered EXCEPT ![h] = Append(delivered[h], Top(t).seq)]
<1>1. Busy(t) /\ Top(t).at = "dispatching"
  BY DEF CallHandler, Dispatching
<1>2. /\ Top(t).id \in Events /\ Top(t).seq \in Nat /\ Top(t).todo \in Seq(Handlers)
      /\ Top(t).running \in Handlers \cup {None}
  BY <1>1, TopOfStack, FrameFields
<1>3. PICK k \in NextMatch(Top(t)) :
        /\ stack' = WithTop(t, Past(Top(t), k))
        /\ delivered' = [delivered EXCEPT ![Top(t).todo[k]] =
                           Append(delivered[Top(t).todo[k]], Top(t).seq)]
  BY DEF CallHandler, Past
<1> DEFINE todo == Top(t).todo
           m == k + 1
<1>4. Len(todo) \in Nat /\ k \in 1 .. Len(todo) /\ m \in Int
  <2>1. k \in DOMAIN todo
    BY DEF NextMatch
  <2>2. DOMAIN todo = 1 .. Len(todo) /\ Len(todo) \in Nat
    BY <1>2
  <2>3. QED  BY <2>1, <2>2
<1>5. todo[k] \in Handlers /\ \A j \in m .. Len(todo) : todo[j] \in Handlers
  BY <1>2, <1>4
<1>6. /\ SubSeq(todo, m, Len(todo)) \in Seq(Handlers)
      /\ Len(SubSeq(todo, m, Len(todo))) = IF m <= Len(todo) THEN Len(todo) - m + 1 ELSE 0
      /\ \A j \in 1 .. Len(todo) - m + 1 : SubSeq(todo, m, Len(todo))[j] = todo[m + j - 1]
  <2> HIDE DEF m, todo
  <2>1. QED  BY <1>4, <1>5, SubSeqProperties
<1>7. /\ SubSeq(todo, k + 1, Len(todo)) \in Seq(Handlers)
      /\ Len(SubSeq(todo, k + 1, Len(todo))) = Len(todo) - k
      /\ \A j \in 1 .. Len(todo) - k : SubSeq(todo, k + 1, Len(todo))[j] = todo[k + j]
  <2> HIDE DEF todo
  <2>1. QED  BY <1>4, <1>6
<1>8. /\ Past(Top(t), k) \in Frame
      /\ Past(Top(t), k).id = Top(t).id /\ Past(Top(t), k).at = "dispatching"
      /\ Past(Top(t), k).seq = Top(t).seq
      /\ Past(Top(t), k).todo = SubSeq(todo, k + 1, Len(todo))
  <2> DEFINE f == Top(t)
             rest == SubSeq(todo, k + 1, Len(todo))
             next == todo[k]
  <2>1. Past(f, k) = InDispatch(f.id, f.seq, rest, next)
    BY DEF Past
  <2>2. rest \in Seq(Handlers) /\ next \in Handlers \cup {None}
    BY <1>5, <1>7
  <2>3. f.id \in Events /\ f.seq \in Nat
    BY <1>2
  <2> HIDE DEF f, rest, next
  <2>4. /\ Past(f, k) \in Frame
        /\ Past(f, k).id = f.id /\ Past(f, k).at = "dispatching"
        /\ Past(f, k).seq = f.seq /\ Past(f, k).todo = rest
    BY <2>1, <2>2, <2>3, InDispatchFields
  <2>5. QED  BY <2>4 DEF f, rest
<1>9. /\ stack' \in [Threads -> Seq(Frame)]
      /\ OtherStacksKept(t)
      /\ Replaced(stack[t], stack'[t], Past(Top(t), k))
  BY <1>1, <1>3, <1>8, TopReplaced
<1> HIDE DEF m
<1>10. \A j \in 1 .. Len(todo) - k : Past(Top(t), k).todo[j] = todo[k + j]
  BY <1>7, <1>8
<1>11. /\ Past(Top(t), k).todo \in Seq(Handlers)
       /\ Len(Past(Top(t), k).todo) = Len(todo) - k
  BY <1>7, <1>8
<1>12. delivered' = [delivered EXCEPT ![todo[k]] = Append(delivered[todo[k]], Top(t).seq)]
  BY <1>3
<1>13. QED  BY <1>1, <1>2, <1>4, <1>5, <1>8, <1>9, <1>10, <1>11, <1>12

Returned(f) == InDispatch(f.id, f.seq, f.todo, None)

LEMMA HandlerReturnsReplaces ==
  ASSUME TypeInv, NEW t \in Threads, HandlerReturns(t)
  PROVE  /\ Busy(t) /\ Top(t).at = "dispatching"
         /\ Returned(Top(t)) \in Frame
         /\ Returned(Top(t)).id = Top(t).id /\ Returned(Top(t)).at = "dispatching"
         /\ Returned(Top(t)).seq = Top(t).seq /\ Returned(Top(t)).todo = Top(t).todo
         /\ stack' \in [Threads -> Seq(Frame)]
         /\ OtherStacksKept(t)
         /\ Replaced(stack[t], stack'[t], Returned(Top(t)))
<1>1. Busy(t) /\ Top(t).at = "dispatching" /\ stack' = WithTop(t, Returned(Top(t)))
  BY DEF HandlerReturns, Running, Dispatching, Returned
<1>2. Top(t).id \in Events /\ Top(t).seq \in Nat /\ Top(t).todo \in Seq(Handlers)
  BY <1>1, TopOfStack, FrameFields
<1>3. /\ Returned(Top(t)) \in Frame
      /\ Returned(Top(t)).id = Top(t).id /\ Returned(Top(t)).at = "dispatching"
      /\ Returned(Top(t)).seq = Top(t).seq /\ Returned(Top(t)).todo = Top(t).todo
  BY <1>2, InDispatchFields DEF Returned
<1>4. QED  BY <1>1, <1>3, TopReplaced

-----------------------------------------------------------------------------
(***************************************************************************)
(* Types and nesting are kept.                                             *)
(***************************************************************************)
LEMMA WithinOfFront ==
  ASSUME TypeInv, NestingInv, NEW t \in Threads, Busy(t)
  PROVE  /\ \A i \in 1 .. Len(stack[t]) - 1 : stack[t][i] \in Frame /\ stack[t][i].seq \in Nat
         /\ {frame.seq : frame \in ToSet(Front(stack[t]))}
              = {stack[t][i].seq : i \in 1 .. Len(stack[t]) - 1}
<1> DEFINE s == stack[t]
           f == Front(s)
<1>1. s \in Seq(Frame) /\ Len(s) \in Nat /\ Len(s) > 0 /\ f \in Seq(Frame) /\ Popped(s, f)
  BY TopOfStack, FrontProperties
<1>2. \A i \in 1 .. Len(s) - 1 : s[i].at = "dispatching"
  BY DEF NestingInv
<1> HIDE DEF s, f
<1>3. \A i \in 1 .. Len(s) - 1 : s[i] \in Frame
  BY <1>1, ElementOfSeq
<1>4. \A i \in 1 .. Len(s) - 1 : s[i].seq \in Nat
  BY <1>2, <1>3, FrameFields
<1>5. DOMAIN f = 1 .. Len(s) - 1 /\ \A i \in 1 .. Len(s) - 1 : f[i] = s[i]
  BY <1>1 DEF Popped
<1>6. ToSet(f) = {s[i] : i \in 1 .. Len(s) - 1}
  BY <1>5 DEF ToSet
<1>7. {frame.seq : frame \in ToSet(f)} = {s[i].seq : i \in 1 .. Len(s) - 1}
  BY <1>6
<1>8. QED  BY <1>3, <1>4, <1>7 DEF s, f

LEMMA NestingKept ==
  ASSUME TypeInv, NestingInv, NEW t \in Threads, OtherStacksKept(t),
         \/ Popped(stack[t], stack'[t])
         \/ \E f : Replaced(stack[t], stack'[t], f)
         \/ /\ \A i \in 1 .. Len(stack[t]) : stack[t][i].at = "dispatching"
            /\ \E f : Pushed(stack[t], stack'[t], f)
  PROVE  NestingInv'
<1>1. Len(stack[t]) \in Nat /\ \A i \in 1 .. Len(stack[t]) - 1 : stack[t][i].at = "dispatching"
  BY DEF TypeInv, NestingInv
<1>2. \A i \in 1 .. Len(stack'[t]) - 1 : stack'[t][i].at = "dispatching"
  BY <1>1 DEF Popped, Replaced, Pushed
<1>3. ASSUME NEW u \in Threads
      PROVE  \A i \in 1 .. Len(stack'[u]) - 1 : stack'[u][i].at = "dispatching"
  <2>1. CASE u = t
    BY <1>2, <2>1
  <2>2. CASE u # t
    BY <2>2 DEF NestingInv, OtherStacksKept
  <2>3. QED  BY <2>1, <2>2
<1>4. QED  BY <1>3 DEF NestingInv

LEMMA TypeStep ==
  ASSUME TypeInv, NestingInv, [Next]_vars
  PROVE  TypeInv' /\ NestingInv'
<1> USE DEF TypeInv
<1>1. ASSUME NEW t \in Threads, NEW e \in Events, Call(t, e)
      PROVE  TypeInv' /\ NestingInv'
  <2>1. /\ stack' \in [Threads -> Seq(Frame)]
        /\ OtherStacksKept(t)
        /\ Pushed(stack[t], stack'[t], [id |-> e, at |-> "waiting"])
    BY <1>1, CallPushes
  <2>2. TypeInv'
    BY <1>1, <2>1 DEF Call
  <2>3. \A i \in 1 .. Len(stack[t]) : stack[t][i].at = "dispatching"
    <3>1. CASE Busy(t)
      <4>1. Top(t).at = "dispatching"
        BY <1>1, <3>1 DEF Call, Running, Dispatching
      <4>2. QED  BY <3>1, <4>1, TopOfStack DEF NestingInv
    <3>2. CASE ~Busy(t)
      BY <3>2 DEF Busy
    <3>3. QED  BY <3>1, <3>2
  <2>4. NestingInv'
    BY <2>1, <2>3, NestingKept
  <2>5. QED  BY <2>2, <2>4
<1>2. ASSUME NEW t \in Threads, DropDuplicate(t) \/ PublishReturns(t)
      PROVE  TypeInv' /\ NestingInv'
  <2>1. /\ Busy(t) /\ stack' \in [Threads -> Seq(Frame)]
        /\ OtherStacksKept(t) /\ Popped(stack[t], stack'[t])
    BY <1>2, DropPops
  <2>2. owner' \in Threads \cup {None}
    BY <1>2 DEF DropDuplicate, PublishReturns, LockAfterReturn
  <2>3. TypeInv'
    BY <1>2, <2>1, <2>2 DEF DropDuplicate, PublishReturns
  <2>4. NestingInv'
    BY <2>1, NestingKept
  <2>5. QED  BY <2>3, <2>4
<1>3. ASSUME NEW t \in Threads, Sequenced(t)
      PROVE  TypeInv' /\ NestingInv'
  <2>1. /\ Busy(t) /\ Top(t).id \in Events /\ sequence' = sequence + 1
        /\ Opened(t).at = "dispatching"
        /\ stack' \in [Threads -> Seq(Frame)]
        /\ OtherStacksKept(t) /\ Replaced(stack[t], stack'[t], Opened(t))
    BY <1>3, SequencedReplaces
  <2>2. history' \in Seq(Retained)
    <3> DEFINE x == [id |-> Top(t).id, seq |-> sequence + 1]
    <3>1. history' = Newest(Append(history, x), HistoryLimit)
      BY <1>3, <2>1 DEF Sequenced
    <3>2. x \in Retained
      BY <2>1 DEF Retained
    <3> HIDE DEF x
    <3>3. QED  BY <3>1, <3>2, TrimmedAppendType, BusAssumption
  <2>3. eventIds' \in Seq(Events)
    BY <1>3, <2>1, TrimmedAppendType, BusAssumption DEF Sequenced, Remembered
  <2>4. within' \in Seq(SUBSET Nat) /\ Len(within') = sequence'
    <3> DEFINE w == {frame.seq : frame \in ToSet(Front(stack[t]))}
    <3>1. w \subseteq Nat
      <4>1. /\ w = {stack[t][i].seq : i \in 1 .. Len(stack[t]) - 1}
            /\ \A i \in 1 .. Len(stack[t]) - 1 : stack[t][i].seq \in Nat
        BY <2>1, WithinOfFront, Zenon
      <4>2. QED  BY <4>1
    <3>2. within' = Append(within, w)
      BY <1>3 DEF Sequenced
    <3> HIDE DEF w
    <3>3. QED  BY <2>1, <3>1, <3>2, AppendProperties
  <2>5. owed' \in [Handlers -> SUBSET Nat]
    BY <1>3, <2>1 DEF Sequenced
  <2>6. TypeInv'
    BY <1>3, <2>1, <2>2, <2>3, <2>4, <2>5 DEF Sequenced
  <2>7. NestingInv'
    BY <2>1, NestingKept
  <2>8. QED  BY <2>6, <2>7
<1>4. ASSUME NEW t \in Threads, CallHandler(t)
      PROVE  TypeInv' /\ NestingInv'
  <2>1. PICK k \in NextMatch(Top(t)) :
           /\ Busy(t)
           /\ stack' \in [Threads -> Seq(Frame)]
           /\ OtherStacksKept(t)
           /\ Replaced(stack[t], stack'[t], Past(Top(t), k))
           /\ Top(t).todo[k] \in Handlers /\ Top(t).seq \in Nat
           /\ delivered' = [delivered EXCEPT ![Top(t).todo[k]] =
                              Append(delivered[Top(t).todo[k]], Top(t).seq)]
    BY <1>4, CallHandlerReplaces
  <2>2. delivered' \in [Handlers -> Seq(Nat)]
    BY <2>1, AppendProperties
  <2>3. TypeInv'
    BY <1>4, <2>1, <2>2 DEF CallHandler
  <2>4. NestingInv'
    BY <2>1, NestingKept
  <2>5. QED  BY <2>3, <2>4
<1>5. ASSUME NEW t \in Threads, HandlerReturns(t)
      PROVE  TypeInv' /\ NestingInv'
  <2>1. /\ Busy(t) /\ stack' \in [Threads -> Seq(Frame)]
        /\ OtherStacksKept(t) /\ Replaced(stack[t], stack'[t], Returned(Top(t)))
    BY <1>5, HandlerReturnsReplaces
  <2>2. TypeInv'
    BY <1>5, <2>1 DEF HandlerReturns
  <2>3. NestingInv'
    BY <2>1, NestingKept
  <2>4. QED  BY <2>2, <2>3
<1>6. ASSUME NEW h \in Handlers, Subscribe(h) \/ Unsubscribe(h)
      PROVE  TypeInv' /\ NestingInv'
  <2>1. subscribers' \in Seq(Handlers)
    <3>1. CASE Subscribe(h)
      BY <3>1, AppendProperties DEF Subscribe
    <3>2. CASE Unsubscribe(h)
      <4>1. PICK i \in DOMAIN subscribers : subscribers' = RemoveAt(subscribers, i)
        BY <3>2 DEF Unsubscribe
      <4>2. i \in 1 .. Len(subscribers)
        BY <4>1
      <4>3. QED  BY <4>1, <4>2, RemoveAtProperties
    <3>3. QED  BY <1>6, <3>1, <3>2
  <2>2. QED  BY <1>6, <2>1 DEF Subscribe, Unsubscribe, NestingInv
<1>7. CASE UNCHANGED vars
  BY <1>7 DEF vars, NestingInv
<1>8. QED
  BY <1>1, <1>2, <1>3, <1>4, <1>5, <1>6, <1>7 DEF Next, Proceed

LEMMA TypeInit == Init => TypeInv /\ NestingInv
<1> SUFFICES ASSUME Init PROVE TypeInv /\ NestingInv
  OBVIOUS
<1>1. \A S : <<>> \in Seq(S) /\ Len(<<>>) = 0
  BY EmptySeq
<1>2. QED  BY <1>1 DEF Init, TypeInv, NestingInv

THEOREM BusTypes == Spec => [](TypeInv /\ NestingInv)
<1>1. Init => TypeInv /\ NestingInv
  BY TypeInit
<1>2. TypeInv /\ NestingInv /\ [Next]_vars => (TypeInv /\ NestingInv)'
  BY TypeStep
<1>3. QED  BY <1>1, <1>2, PTL DEF Spec

-----------------------------------------------------------------------------
(***************************************************************************)
(* Snapshots.  The remembered ids and the retained events end alike: the   *)
(* newest id is that of the newest event, and so on back to where the      *)
(* shorter of the two ends.  The memory of ids has no hole either.  With   *)
(* that, an id that is not remembered is not one of the events that stay.  *)
(***************************************************************************)
AlignedInv ==
  /\ Len(eventIds) <= DedupLimit
  /\ Len(eventIds) < DedupLimit => Len(eventIds) = sequence
  /\ \A k \in Nat :
       k < Len(history) /\ k < Len(eventIds) =>
         history[Len(history) - k].id = eventIds[Len(eventIds) - k]

RetentionInv == SnapshotIsContiguous /\ RetainedOnce /\ AlignedInv

LEMMA RetentionStep ==
  ASSUME TypeInv, NEW t \in Threads, Sequenced(t), RetentionInv
  PROVE  RetentionInv'
<1> DEFINE id == Top(t).id
           x == [id |-> id, seq |-> sequence + 1]
<1>1. /\ sequence' = sequence + 1 /\ id \in Events
      /\ history' = Newest(Append(history, x), HistoryLimit)
      /\ eventIds' = Newest(Append(eventIds, id), DedupLimit)
      /\ \A i \in 1 .. Len(eventIds) : eventIds[i] # id
  BY SequencedReplaces DEF Sequenced, Remembered, Contains
<1>2. x \in Retained /\ x.id = id /\ x.seq = sequence + 1
  BY <1>1 DEF Retained, TypeInv
<1>3. /\ history \in Seq(Retained) /\ eventIds \in Seq(Events) /\ sequence \in Nat
      /\ Len(history) \in Nat /\ Len(eventIds) \in Nat
      /\ HistoryLimit \in Nat /\ HistoryLimit > 0 /\ DedupLimit \in Nat /\ DedupLimit > 0
  BY BusAssumption DEF TypeInv
<1> HIDE DEF id, x
<1>4. /\ history' \in Seq(Retained) /\ Len(history') \in Nat /\ Len(history') > 0
      /\ Len(history) < HistoryLimit => Len(history') = Len(history) + 1
      /\ HistoryLimit <= Len(history) => Len(history') = HistoryLimit
      /\ history'[Len(history')] = x
      /\ \A k \in 1 .. Len(history') - 1 :
           history'[Len(history') - k] = history[Len(history) + 1 - k]
  <2>1. history' \in Seq(Retained)
    BY <1>1, <1>2, <1>3, TrimmedAppendType
  <2>2. QED  BY <1>1, <1>2, <1>3, <2>1, TrimmedAppend
<1>5. /\ eventIds' \in Seq(Events) /\ Len(eventIds') \in Nat /\ Len(eventIds') > 0
      /\ Len(eventIds) < DedupLimit => Len(eventIds') = Len(eventIds) + 1
      /\ DedupLimit <= Len(eventIds) => Len(eventIds') = DedupLimit
      /\ eventIds'[Len(eventIds')] = id
      /\ \A k \in 1 .. Len(eventIds') - 1 :
           eventIds'[Len(eventIds') - k] = eventIds[Len(eventIds) + 1 - k]
  <2>1. eventIds' \in Seq(Events)
    BY <1>1, <1>3, TrimmedAppendType
  <2>2. QED  BY <1>1, <1>3, <2>1, TrimmedAppend
<1>6. SnapshotIsContiguous'
  <2>1. /\ Len(history) <= HistoryLimit
        /\ Len(history) < HistoryLimit => Len(history) = sequence
        /\ \A i \in 1 .. Len(history) : history[i].seq = sequence - Len(history) + i
    BY <1>3 DEF RetentionInv, SnapshotIsContiguous
  <2>2. ASSUME NEW i \in 1 .. Len(history')
        PROVE  history'[i].seq = sequence' - Len(history') + i
    <3>1. CASE i = Len(history')
      BY <1>1, <1>2, <1>3, <1>4, <3>1
    <3>2. CASE i # Len(history')
      <4> DEFINE k == Len(history') - i
      <4>1. k \in 1 .. Len(history') - 1 /\ Len(history') - k = i
        BY <1>3, <1>4, <3>2
      <4>2. history'[i] = history[Len(history) + 1 - k]
        BY <1>4, <4>1
      <4>3. Len(history) + 1 - k \in 1 .. Len(history)
        BY <1>3, <1>4, <2>1, <4>1
      <4>4. history'[i].seq = sequence - Len(history) + (Len(history) + 1 - k)
        BY <2>1, <4>2, <4>3
      <4>5. QED  BY <1>1, <1>3, <1>4, <4>4
    <3>3. QED  BY <3>1, <3>2
  <2>3. DOMAIN history' = 1 .. Len(history')
    BY <1>4
  <2>4. Len(history') <= HistoryLimit
    BY <1>3, <1>4, <2>1
  <2>5. Len(history') < HistoryLimit => Len(history') = sequence'
    BY <1>1, <1>3, <1>4, <2>1
  <2>6. QED  BY <2>2, <2>3, <2>4, <2>5 DEF SnapshotIsContiguous
<1>7. AlignedInv'
  <2>1. /\ Len(eventIds) <= DedupLimit
        /\ Len(eventIds) < DedupLimit => Len(eventIds) = sequence
        /\ \A k \in Nat : k < Len(history) /\ k < Len(eventIds) =>
             history[Len(history) - k].id = eventIds[Len(eventIds) - k]
        /\ Len(history) <= HistoryLimit
    BY DEF RetentionInv, AlignedInv, SnapshotIsContiguous
  <2>2. ASSUME NEW k \in Nat, k < Len(history'), k < Len(eventIds')
        PROVE  history'[Len(history') - k].id = eventIds'[Len(eventIds') - k]
    <3>1. CASE k = 0
      <4>1. Len(history') - k = Len(history') /\ Len(eventIds') - k = Len(eventIds')
        BY <1>3, <1>4, <1>5, <3>1
      <4>2. QED  BY <1>2, <1>4, <1>5, <4>1
    <3>2. CASE k # 0
      <4>1. k \in 1 .. Len(history') - 1 /\ k \in 1 .. Len(eventIds') - 1
        BY <1>3, <1>4, <1>5, <2>2, <3>2
      <4>2. /\ history'[Len(history') - k] = history[Len(history) + 1 - k]
            /\ eventIds'[Len(eventIds') - k] = eventIds[Len(eventIds) + 1 - k]
        BY <1>4, <1>5, <4>1
      <4>3. /\ k - 1 \in Nat /\ k - 1 < Len(history) /\ k - 1 < Len(eventIds)
            /\ Len(history) - (k - 1) = Len(history) + 1 - k
            /\ Len(eventIds) - (k - 1) = Len(eventIds) + 1 - k
        BY <1>3, <1>4, <1>5, <2>1, <4>1
      <4>4. history[Len(history) - (k - 1)].id = eventIds[Len(eventIds) - (k - 1)]
        BY <2>1, <4>3
      <4>5. QED  BY <4>2, <4>3, <4>4
    <3>3. QED  BY <3>1, <3>2
  <2>3. QED  BY <1>1, <1>3, <1>5, <2>1, <2>2 DEF AlignedInv
<1>8. RetainedOnce'
  <2> SUFFICES ASSUME DedupLimit >= HistoryLimit - 1,
                      NEW i \in 1 .. Len(history'), NEW j \in 1 .. Len(history'),
                      i < j
               PROVE  history'[i].id # history'[j].id
    <3>1. DOMAIN history' = 1 .. Len(history') /\ Len(history') \in Nat
      BY <1>4
    <3>2. QED  BY <3>1 DEF RetainedOnce
  <2>1. /\ Len(history) <= HistoryLimit
        /\ Len(history) < HistoryLimit => Len(history) = sequence
        /\ \A p, q \in 1 .. Len(history) : history[p].id = history[q].id => p = q
    BY <1>3 DEF RetentionInv, SnapshotIsContiguous, RetainedOnce
  <2> DEFINE k == Len(history') - i
             p == Len(history) + 1 - k
  <2>2. k \in 1 .. Len(history') - 1 /\ Len(history') - k = i /\ p \in 1 .. Len(history)
    BY <1>3, <1>4, <2>1
  <2>3. history'[i] = history[p]
    BY <1>4, <2>2
  <2>4. CASE j = Len(history')
    <3>1. k - 1 \in Nat /\ k - 1 < Len(history) /\ k - 1 < Len(eventIds)
          /\ Len(history) - (k - 1) = p
          /\ Len(eventIds) - (k - 1) \in 1 .. Len(eventIds)
      <4>1. Len(history) <= sequence
        <5>1. 1 \in 1 .. Len(history)
          BY <1>3, <2>2
        <5>2. history[1].seq = sequence - Len(history) + 1
          BY <1>3, <5>1 DEF RetentionInv, SnapshotIsContiguous
        <5>3. history[1].seq \in Nat /\ history[1].seq # 0
          <6>1. history[1] \in Retained
            BY <1>3, <5>1, ElementOfSeq
          <6>2. QED  BY <6>1 DEF Retained
        <5>4. QED  BY <1>3, <5>2, <5>3
      <4>2. k <= HistoryLimit - 1 /\ k <= Len(history)
        BY <1>3, <1>4, <2>1, <2>2
      <4>3. Len(eventIds) = DedupLimit \/ Len(eventIds) = sequence
        BY <1>3 DEF RetentionInv, AlignedInv
      <4>4. k - 1 < Len(eventIds)
        BY <1>3, <2>2, <4>1, <4>2, <4>3
      <4>5. QED  BY <1>3, <2>2, <4>2, <4>4
    <3>2. history[p].id = eventIds[Len(eventIds) - (k - 1)]
      BY <3>1 DEF RetentionInv, AlignedInv
    <3>3. history[p].id # id
      BY <1>1, <3>1, <3>2
    <3>4. QED  BY <1>2, <1>4, <2>3, <2>4, <3>3
  <2>5. CASE j # Len(history')
    <3> DEFINE l == Len(history') - j
               q == Len(history) + 1 - l
    <3>1. l \in 1 .. Len(history') - 1 /\ Len(history') - l = j /\ q \in 1 .. Len(history)
          /\ p # q
      BY <1>3, <1>4, <2>1, <2>5
    <3>2. history'[j] = history[q]
      BY <1>4, <3>1
    <3>3. QED  BY <2>1, <2>2, <2>3, <3>1, <3>2
  <2>6. QED  BY <2>4, <2>5
<1>9. QED  BY <1>6, <1>7, <1>8 DEF RetentionInv

LEMMA RetentionKept ==
  ASSUME TypeInv, [Next]_vars, RetentionInv
  PROVE  RetentionInv'
<1>1. ASSUME NEW t \in Threads, Sequenced(t)
      PROVE  RetentionInv'
  BY <1>1, RetentionStep
<1>2. CASE UNCHANGED <<sequence, history, eventIds>>
  BY <1>2 DEF RetentionInv, SnapshotIsContiguous, RetainedOnce, AlignedInv
<1>3. CASE UNCHANGED vars
  BY <1>2, <1>3 DEF vars
<1>4. ASSUME Next, \A t \in Threads : ~Sequenced(t)
      PROVE  UNCHANGED <<sequence, history, eventIds>>
  BY <1>4 DEF Next, Proceed, Call, DropDuplicate, CallHandler, HandlerReturns, PublishReturns,
              Subscribe, Unsubscribe
<1>5. QED  BY <1>1, <1>2, <1>3, <1>4

LEMMA RetentionInit == Init => RetentionInv
<1> SUFFICES ASSUME Init PROVE RetentionInv
  OBVIOUS
<1>1. sequence = 0 /\ history = <<>> /\ eventIds = <<>>
  BY DEF Init
<1>2. Len(<<>>) = 0 /\ DOMAIN <<>> = {}
  BY EmptySeq
<1>3. QED
  BY <1>1, <1>2, BusAssumption DEF RetentionInv, SnapshotIsContiguous, RetainedOnce, AlignedInv

(***************************************************************************)
(* At every point of every dispatch, a snapshot shows the newest events,   *)
(* numbered without a hole up to the watermark.                            *)
(***************************************************************************)
THEOREM SnapshotsAreContiguous == Spec => []SnapshotIsContiguous
<1>1. Init => TypeInv /\ NestingInv /\ RetentionInv
  BY TypeInit, RetentionInit
<1>2. TypeInv /\ NestingInv /\ RetentionInv /\ [Next]_vars
        => (TypeInv /\ NestingInv /\ RetentionInv)'
  BY TypeStep, RetentionKept
<1>3. RetentionInv => SnapshotIsContiguous
  BY DEF RetentionInv
<1>4. QED  BY <1>1, <1>2, <1>3, PTL DEF Spec

(***************************************************************************)
(* No event id is retained twice while the memory of ids is at most one    *)
(* shorter than the history.                                               *)
(***************************************************************************)
THEOREM EventsRetainedOnce == Spec => []RetainedOnce
<1>1. Init => TypeInv /\ NestingInv /\ RetentionInv
  BY TypeInit, RetentionInit
<1>2. TypeInv /\ NestingInv /\ RetentionInv /\ [Next]_vars
        => (TypeInv /\ NestingInv /\ RetentionInv)'
  BY TypeStep, RetentionKept
<1>3. RetentionInv => RetainedOnce
  BY DEF RetentionInv
<1>4. QED  BY <1>1, <1>2, <1>3, PTL DEF Spec

-----------------------------------------------------------------------------
(***************************************************************************)
(* Dispatches in progress.                                                 *)
(***************************************************************************)

\* The publication will still call the handler.
Awaits(f, h) ==
  /\ f.at = "dispatching" /\ f.id \in Matches[h]
  /\ \E k \in 1 .. Len(f.todo) : f.todo[k] = h

(***************************************************************************)
(* The owner of the dispatch lock is the only thread with a dispatch.      *)
(***************************************************************************)
LockInv ==
  \A t \in Threads : \A i \in 1 .. Len(stack[t]) :
    stack[t][i].at = "dispatching" => owner = t /\ stack[t][i].seq \in 1 .. sequence

(***************************************************************************)
(* A nested dispatch has a later number than those it is nested in, and    *)
(* these are recorded in within.                                           *)
(***************************************************************************)
NestedInv ==
  \A t \in Threads : \A i, j \in 1 .. Len(stack[t]) :
    i < j /\ stack[t][j].at = "dispatching" =>
      stack[t][i].seq < stack[t][j].seq /\ stack[t][i].seq \in within[stack[t][j].seq]

(***************************************************************************)
(* Nobody is subscribed twice, in the table or in a copy of it.            *)
(***************************************************************************)
Distinct(s) == \A i, j \in 1 .. Len(s) : s[i] = s[j] => i = j

CopiesInv ==
  /\ Distinct(subscribers)
  /\ \A t \in Threads : \A i \in 1 .. Len(stack[t]) :
       stack[t][i].at = "dispatching" => Distinct(stack[t][i].todo)

(***************************************************************************)
(* A handler that a dispatch still has to call has not been called for it, *)
(* and was called for a later event only if that event was published       *)
(* within the dispatch.                                                    *)
(***************************************************************************)
AwaitedInv ==
  \A t \in Threads : \A i \in 1 .. Len(stack[t]) : \A h \in Handlers :
    Awaits(stack[t][i], h) =>
      \A k \in 1 .. Len(delivered[h]) :
        /\ delivered[h][k] # stack[t][i].seq
        /\ delivered[h][k] > stack[t][i].seq => stack[t][i].seq \in within[delivered[h][k]]

DeliveredInv ==
  \A h \in Handlers :
    /\ \A k \in 1 .. Len(delivered[h]) : delivered[h][k] \in 1 .. sequence
    /\ Distinct(delivered[h])

(***************************************************************************)
(* What a handler is owed is what it was called with and what a dispatch   *)
(* in progress still has to call it with.                                  *)
(***************************************************************************)
Given(h, n) == \E k \in 1 .. Len(delivered[h]) : delivered[h][k] = n
Pending(h, n) ==
  \E t \in Threads : \E i \in 1 .. Len(stack[t]) :
    Awaits(stack[t][i], h) /\ stack[t][i].seq = n

OwedInv ==
  \A h \in Handlers : \A n \in Nat : n \in owed[h] <=> Given(h, n) \/ Pending(h, n)

DispatchInv ==
  /\ LockInv /\ NestedInv /\ CopiesInv /\ AwaitedInv
  /\ DeliveredInv /\ CallbacksFollowSequence /\ OwedInv

BusInv == TypeInv /\ NestingInv /\ DispatchInv

(***************************************************************************)
(* A dispatch that goes on has the same number and calls no handler it did *)
(* not have to call before.                                                *)
(***************************************************************************)
Continues(g, f) ==
  /\ g.at = "dispatching" /\ f.at = "dispatching" /\ g.seq = f.seq
  /\ Distinct(f.todo) => Distinct(g.todo)
  /\ \A h \in Handlers : Awaits(g, h) => Awaits(f, h)

\* Every dispatch on stack r goes on from the one at its place on stack s.
GoesOn(s, r) ==
  \A i \in 1 .. Len(r) :
    r[i].at = "dispatching" => i \in 1 .. Len(s) /\ Continues(r[i], s[i])

\* Nothing that a dispatch on stack s has to call is forgotten on stack r.
StillAwaits(s, r) ==
  \A i \in 1 .. Len(s) : \A h \in Handlers :
    Awaits(s[i], h) => i \in 1 .. Len(r) /\ Awaits(r[i], h) /\ r[i].seq = s[i].seq

DispatchesGoOn == \A t \in Threads : GoesOn(stack[t], stack'[t])
DispatchesStillAwait == \A t \in Threads : StillAwaits(stack[t], stack'[t])

LEMMA SameStack ==
  ASSUME NEW s
  PROVE  GoesOn(s, s) /\ StillAwaits(s, s)
BY DEF GoesOn, StillAwaits, Continues

LEMMA OneStackGoesOn ==
  ASSUME NEW t \in Threads, OtherStacksKept(t), GoesOn(stack[t], stack'[t])
  PROVE  DispatchesGoOn
<1>1. ASSUME NEW u \in Threads PROVE GoesOn(stack[u], stack'[u])
  <2>1. CASE u = t
    BY <2>1
  <2>2. CASE u # t
    <3>1. stack'[u] = stack[u]
      BY <2>2 DEF OtherStacksKept
    <3>2. QED  BY <3>1, SameStack
  <2>3. QED  BY <2>1, <2>2
<1>2. QED  BY <1>1 DEF DispatchesGoOn

LEMMA OneStackStillAwaits ==
  ASSUME NEW t \in Threads, OtherStacksKept(t), StillAwaits(stack[t], stack'[t])
  PROVE  DispatchesStillAwait
<1>1. ASSUME NEW u \in Threads PROVE StillAwaits(stack[u], stack'[u])
  <2>1. CASE u = t
    BY <2>1
  <2>2. CASE u # t
    <3>1. stack'[u] = stack[u]
      BY <2>2 DEF OtherStacksKept
    <3>2. QED  BY <3>1, SameStack
  <2>3. QED  BY <2>1, <2>2
<1>2. QED  BY <1>1 DEF DispatchesStillAwait

LEMMA PushedGoesOn ==
  ASSUME NEW s \in Seq(Frame), NEW r, NEW f, Pushed(s, r, f), f.at = "waiting"
  PROVE  GoesOn(s, r) /\ StillAwaits(s, r)
<1>1. Len(s) \in Nat
  OBVIOUS
<1>2. QED  BY <1>1 DEF GoesOn, StillAwaits, Continues, Pushed

LEMMA PoppedGoesOn ==
  ASSUME NEW s \in Seq(Frame), NEW r, Popped(s, r),
         \A h \in Handlers : ~Awaits(s[Len(s)], h)
  PROVE  GoesOn(s, r) /\ StillAwaits(s, r)
<1>1. Len(s) \in Nat /\ Len(s) > 0
  BY DEF Popped
<1>2. GoesOn(s, r)
  BY <1>1 DEF GoesOn, Continues, Popped
<1>3. StillAwaits(s, r)
  BY <1>1 DEF StillAwaits, Popped
<1>4. QED  BY <1>2, <1>3

LEMMA ReplacedGoesOn ==
  ASSUME NEW s \in Seq(Frame), NEW r, NEW g, Replaced(s, r, g), Continues(g, s[Len(s)])
  PROVE  GoesOn(s, r)
<1>1. Len(s) \in Nat /\ Len(s) > 0
  BY DEF Replaced
<1>2. \A i \in 1 .. Len(s) - 1 : r[i] = s[i]
  BY DEF Replaced
<1>3. ASSUME NEW i \in 1 .. Len(r), r[i].at = "dispatching"
      PROVE  i \in 1 .. Len(s) /\ Continues(r[i], s[i])
  <2>1. i \in 1 .. Len(s)
    BY <1>1 DEF Replaced
  <2>2. CASE i = Len(s)
    BY <2>1, <2>2 DEF Replaced
  <2>3. CASE i # Len(s)
    <3>1. r[i] = s[i]
      BY <1>1, <1>2, <2>1, <2>3
    <3>2. QED  BY <1>3, <2>1, <3>1 DEF Continues
  <2>4. QED  BY <2>2, <2>3
<1>4. QED  BY <1>3 DEF GoesOn

(***************************************************************************)
(* What follows for the dispatches when they only go on.                   *)
(***************************************************************************)
LEMMA NestedKept ==
  ASSUME NestingInv', NestedInv, DispatchesGoOn, within' = within,
         stack' \in [Threads -> Seq(Frame)]
  PROVE  NestedInv'
<1> SUFFICES ASSUME NEW t \in Threads, NEW i \in 1 .. Len(stack'[t]), NEW j \in 1 .. Len(stack'[t]),
                    i < j, stack'[t][j].at = "dispatching"
             PROVE  /\ stack'[t][i].seq < stack'[t][j].seq
                    /\ stack'[t][i].seq \in within[stack'[t][j].seq]
  BY DEF NestedInv
<1>1. Len(stack'[t]) \in Nat
  OBVIOUS
<1>2. stack'[t][i].at = "dispatching"
  BY <1>1 DEF NestingInv
<1>3. /\ i \in 1 .. Len(stack[t]) /\ stack'[t][i].seq = stack[t][i].seq
      /\ j \in 1 .. Len(stack[t]) /\ stack'[t][j].seq = stack[t][j].seq
      /\ stack[t][j].at = "dispatching"
  BY <1>2 DEF DispatchesGoOn, GoesOn, Continues
<1>4. QED  BY <1>3 DEF NestedInv

LEMMA CopiesKept ==
  ASSUME CopiesInv, DispatchesGoOn, Distinct(subscribers')
  PROVE  CopiesInv'
<1> SUFFICES ASSUME NEW t \in Threads, NEW i \in 1 .. Len(stack'[t]),
                    stack'[t][i].at = "dispatching"
             PROVE  Distinct(stack'[t][i].todo)
  BY DEF CopiesInv, Distinct
<1>1. i \in 1 .. Len(stack[t]) /\ Continues(stack'[t][i], stack[t][i])
  BY DEF DispatchesGoOn, GoesOn
<1>2. Distinct(stack[t][i].todo)
  BY <1>1 DEF CopiesInv, Continues
<1>3. QED  BY <1>1, <1>2 DEF Continues

LEMMA AwaitedKept ==
  ASSUME AwaitedInv, DispatchesGoOn, within' = within, delivered' = delivered
  PROVE  AwaitedInv'
<1> SUFFICES ASSUME NEW t \in Threads, NEW i \in 1 .. Len(stack'[t]), NEW h \in Handlers,
                    Awaits(stack'[t][i], h), NEW k \in 1 .. Len(delivered'[h])
             PROVE  /\ delivered'[h][k] # stack'[t][i].seq
                    /\ delivered'[h][k] > stack'[t][i].seq
                         => stack'[t][i].seq \in within'[delivered'[h][k]]
  BY Zenon DEF AwaitedInv, Awaits
<1>1. i \in 1 .. Len(stack[t]) /\ Continues(stack'[t][i], stack[t][i])
  BY DEF DispatchesGoOn, GoesOn, Awaits
<1>2. Awaits(stack[t][i], h) /\ stack'[t][i].seq = stack[t][i].seq
  BY <1>1 DEF Continues
<1>3. QED  BY <1>1, <1>2 DEF AwaitedInv

LEMMA PendingKept ==
  ASSUME DispatchesGoOn, DispatchesStillAwait, NEW h \in Handlers, NEW n \in Nat
  PROVE  Pending(h, n)' <=> Pending(h, n)
<1>1. ASSUME NEW t \in Threads, NEW i \in 1 .. Len(stack'[t]),
             Awaits(stack'[t][i], h), stack'[t][i].seq = n
      PROVE  Pending(h, n)
  <2>1. i \in 1 .. Len(stack[t]) /\ Continues(stack'[t][i], stack[t][i])
    BY <1>1 DEF DispatchesGoOn, GoesOn, Awaits
  <2>2. QED  BY <1>1, <2>1 DEF Continues, Pending
<1>2. ASSUME NEW t \in Threads, NEW i \in 1 .. Len(stack[t]),
             Awaits(stack[t][i], h), stack[t][i].seq = n
      PROVE  Pending(h, n)'
  <2>1. i \in 1 .. Len(stack'[t]) /\ Awaits(stack'[t][i], h) /\ stack'[t][i].seq = n
    BY <1>2 DEF DispatchesStillAwait, StillAwaits
  <2>2. QED  BY <2>1 DEF Pending, Awaits
<1>3. Pending(h, n) <=> \E t \in Threads : \E i \in 1 .. Len(stack[t]) :
                          Awaits(stack[t][i], h) /\ stack[t][i].seq = n
  BY DEF Pending
<1>4. Pending(h, n)' <=> \E t \in Threads : \E i \in 1 .. Len(stack'[t]) :
                          Awaits(stack'[t][i], h) /\ stack'[t][i].seq = n
  BY DEF Pending, Awaits
<1>5. QED  BY <1>1, <1>2, <1>3, <1>4

(***************************************************************************)
(* The actions that sequence nothing and call nobody.                      *)
(***************************************************************************)
LEMMA QuietStep ==
  ASSUME TypeInv, NestingInv', DispatchInv, DispatchesGoOn, DispatchesStillAwait, LockInv',
         stack' \in [Threads -> Seq(Frame)], Distinct(subscribers'),
         UNCHANGED <<delivered, owed, within, sequence>>
  PROVE  DispatchInv'
<1>1. NestedInv' /\ CopiesInv' /\ AwaitedInv'
  BY NestedKept, CopiesKept, AwaitedKept DEF DispatchInv
<1>2. DeliveredInv' /\ CallbacksFollowSequence'
  BY DEF DispatchInv, DeliveredInv, CallbacksFollowSequence, Distinct
<1>3. OwedInv'
  <2> SUFFICES ASSUME NEW h \in Handlers, NEW n \in Nat
               PROVE  n \in owed[h] <=> Given(h, n)' \/ Pending(h, n)'
    BY DEF OwedInv
  <2>1. Given(h, n)' <=> Given(h, n)
    BY DEF Given
  <2>2. Pending(h, n)' <=> Pending(h, n)
    BY PendingKept
  <2>3. QED  BY <2>1, <2>2 DEF DispatchInv, OwedInv
<1>4. QED  BY <1>1, <1>2, <1>3 DEF DispatchInv

LEMMA LockStays ==
  ASSUME LockInv, DispatchesGoOn, UNCHANGED <<owner, sequence>>
  PROVE  LockInv'
<1> SUFFICES ASSUME NEW t \in Threads, NEW i \in 1 .. Len(stack'[t]),
                    stack'[t][i].at = "dispatching"
             PROVE  owner = t /\ stack'[t][i].seq \in 1 .. sequence
  BY DEF LockInv
<1>1. i \in 1 .. Len(stack[t]) /\ Continues(stack'[t][i], stack[t][i])
  BY DEF DispatchesGoOn, GoesOn
<1>2. QED  BY <1>1 DEF LockInv, Continues

(***************************************************************************)
(* The lock is released exactly when the last dispatch of its owner ends.  *)
(***************************************************************************)
LEMMA LockReturned ==
  ASSUME TypeInv, LockInv, DispatchesGoOn, NEW t \in Threads, HasLock(t),
         OtherStacksKept(t), Popped(stack[t], stack'[t]),
         owner' = LockAfterReturn(t), sequence' = sequence
  PROVE  LockInv'
<1> SUFFICES ASSUME NEW u \in Threads, NEW i \in 1 .. Len(stack'[u]),
                    stack'[u][i].at = "dispatching"
             PROVE  owner' = u /\ stack'[u][i].seq \in 1 .. sequence
  BY DEF LockInv
<1>1. i \in 1 .. Len(stack[u]) /\ Continues(stack'[u][i], stack[u][i])
  BY DEF DispatchesGoOn, GoesOn
<1>2. owner = u /\ stack'[u][i].seq \in 1 .. sequence
  BY <1>1 DEF LockInv, Continues
<1>3. u = t
  BY <1>2, BusAssumption DEF HasLock
<1>4. Len(stack[t]) \in Nat /\ Len(stack'[t]) = Len(stack[t]) - 1
  BY DEF Popped, TypeInv
<1>5. Len(stack[t]) # 1
  <2> SUFFICES ASSUME Len(stack[t]) = 1 PROVE FALSE
    OBVIOUS
  <2>1. Len(stack'[u]) = 0
    BY <1>3, <1>4
  <2>2. QED  BY <2>1
<1>6. QED  BY <1>2, <1>5 DEF LockAfterReturn

LEMMA QuietActions ==
  ASSUME TypeInv, NestingInv, TypeInv', NestingInv', DispatchInv, NEW t \in Threads,
         \/ \E e \in Events : Call(t, e)
         \/ DropDuplicate(t) \/ PublishReturns(t) \/ HandlerReturns(t)
  PROVE  DispatchInv'
<1>1. stack[t] \in Seq(Frame) /\ stack' \in [Threads -> Seq(Frame)]
  BY DEF TypeInv
<1>2. Distinct(subscribers')
  BY DEF DispatchInv, CopiesInv, Call, DropDuplicate, PublishReturns, HandlerReturns
<1>3. ASSUME NEW e \in Events, Call(t, e)
      PROVE  DispatchInv'
  <2>1. OtherStacksKept(t) /\ Pushed(stack[t], stack'[t], [id |-> e, at |-> "waiting"])
    BY <1>3, CallPushes
  <2>2. GoesOn(stack[t], stack'[t]) /\ StillAwaits(stack[t], stack'[t])
    BY <1>1, <2>1, PushedGoesOn, WaitingFields
  <2>3. DispatchesGoOn /\ DispatchesStillAwait
    BY <2>1, <2>2, OneStackGoesOn, OneStackStillAwaits
  <2>4. UNCHANGED <<owner, sequence, delivered, owed, within>>
    BY <1>3 DEF Call
  <2>5. LockInv'
    BY <2>3, <2>4, LockStays DEF DispatchInv
  <2>6. QED  BY <1>1, <1>2, <2>3, <2>4, <2>5, QuietStep
<1>4. CASE DropDuplicate(t) \/ PublishReturns(t)
  <2>1. Busy(t) /\ OtherStacksKept(t) /\ Popped(stack[t], stack'[t])
    BY <1>4, DropPops
  <2>2. /\ owner' = LockAfterReturn(t) /\ sequence' = sequence
        /\ UNCHANGED <<delivered, owed, within>>
    BY <1>4 DEF DropDuplicate, PublishReturns
  <2>3. /\ Top(t) = stack[t][Len(stack[t])] /\ Len(stack[t]) \in 1 .. Len(stack[t])
        /\ Top(t) \in Frame
    BY <2>1, TopOfStack
  <2>4. HasLock(t)
    <3>1. CASE DropDuplicate(t)
      BY <3>1 DEF DropDuplicate
    <3>2. CASE PublishReturns(t)
      <4>1. Top(t).at = "dispatching"
        BY <3>2 DEF PublishReturns, Dispatching
      <4>2. owner = t
        BY <2>3, <4>1 DEF DispatchInv, LockInv
      <4>3. QED  BY <4>2 DEF HasLock
    <3>3. QED  BY <1>4, <3>1, <3>2
  <2>5. \A h \in Handlers : ~Awaits(stack[t][Len(stack[t])], h)
    <3>1. CASE DropDuplicate(t)
      BY <2>3, <3>1 DEF DropDuplicate, Awaits
    <3>2. CASE PublishReturns(t)
      <4>1. Top(t).at = "dispatching" /\ NoMatchLeft(Top(t))
        BY <3>2 DEF PublishReturns, Dispatching
      <4>2. Top(t).todo \in Seq(Handlers)
        BY <2>3, <4>1, FrameFields
      <4>3. \A k \in 1 .. Len(Top(t).todo) : Top(t).id \notin Matches[Top(t).todo[k]]
        BY <4>1, <4>2 DEF NoMatchLeft
      <4>4. QED  BY <2>3, <4>3 DEF Awaits
    <3>3. QED  BY <1>4, <3>1, <3>2
  <2>6. GoesOn(stack[t], stack'[t]) /\ StillAwaits(stack[t], stack'[t])
    BY <1>1, <2>1, <2>5, PoppedGoesOn
  <2>7. DispatchesGoOn /\ DispatchesStillAwait
    BY <2>1, <2>6, OneStackGoesOn, OneStackStillAwaits
  <2>8. LockInv'
    BY <2>1, <2>2, <2>4, <2>7, LockReturned DEF DispatchInv
  <2>9. QED  BY <1>1, <1>2, <2>2, <2>7, <2>8, QuietStep
<1>5. CASE HandlerReturns(t)
  <2> DEFINE f == Top(t)
             g == Returned(f)
  <2>1. /\ Busy(t) /\ f.at = "dispatching" /\ g.id = f.id /\ g.at = "dispatching"
        /\ g.seq = f.seq /\ g.todo = f.todo
        /\ OtherStacksKept(t) /\ Replaced(stack[t], stack'[t], g)
    BY <1>5, HandlerReturnsReplaces
  <2>2. f = stack[t][Len(stack[t])] /\ Len(stack[t]) \in Nat /\ Len(stack[t]) > 0
    BY <2>1, TopOfStack
  <2> HIDE DEF f, g
  <2>3. Continues(g, f) /\ \A h \in Handlers : Awaits(f, h) => Awaits(g, h)
    BY <2>1 DEF Continues, Awaits
  <2>4. GoesOn(stack[t], stack'[t])
    BY <1>1, <2>1, <2>2, <2>3, ReplacedGoesOn
  <2>5. StillAwaits(stack[t], stack'[t])
    <3> SUFFICES ASSUME NEW i \in 1 .. Len(stack[t]), NEW h \in Handlers, Awaits(stack[t][i], h)
                 PROVE  /\ i \in 1 .. Len(stack'[t]) /\ Awaits(stack'[t][i], h)
                        /\ stack'[t][i].seq = stack[t][i].seq
      BY DEF StillAwaits
    <3>1. CASE i = Len(stack[t])
      BY <2>1, <2>2, <2>3, <3>1 DEF Replaced
    <3>2. CASE i # Len(stack[t])
      <4>1. i \in 1 .. Len(stack[t]) - 1
        BY <2>2, <3>2
      <4>2. QED  BY <2>1, <2>2, <4>1 DEF Replaced
    <3>3. QED  BY <3>1, <3>2
  <2>6. DispatchesGoOn /\ DispatchesStillAwait
    BY <2>1, <2>4, <2>5, OneStackGoesOn, OneStackStillAwaits
  <2>7. UNCHANGED <<owner, sequence, delivered, owed, within>>
    BY <1>5 DEF HandlerReturns
  <2>8. LockInv'
    BY <2>6, <2>7, LockStays DEF DispatchInv
  <2>9. QED  BY <1>1, <1>2, <2>6, <2>7, <2>8, QuietStep
<1>6. QED  BY <1>3, <1>4, <1>5

LEMMA StacksUnchanged ==
  ASSUME TypeInv, TypeInv', NestingInv', DispatchInv, Distinct(subscribers'),
         UNCHANGED <<sequence, owner, stack, delivered, owed, within>>
  PROVE  DispatchInv'
<1>1. DispatchesGoOn /\ DispatchesStillAwait
  BY SameStack DEF DispatchesGoOn, DispatchesStillAwait
<1>2. LockInv'
  BY <1>1, LockStays DEF DispatchInv
<1>3. stack' \in [Threads -> Seq(Frame)]
  BY DEF TypeInv
<1>4. QED  BY <1>1, <1>2, <1>3, QuietStep

LEMMA SubscriptionActions ==
  ASSUME TypeInv, TypeInv', NestingInv', DispatchInv, NEW g \in Handlers,
         Subscribe(g) \/ Unsubscribe(g)
  PROVE  DispatchInv'
<1>1. UNCHANGED <<sequence, owner, stack, delivered, owed, within>>
  BY DEF Subscribe, Unsubscribe
<1>2. subscribers \in Seq(Handlers) /\ Distinct(subscribers) /\ Len(subscribers) \in Nat
  BY DEF TypeInv, DispatchInv, CopiesInv
<1>3. Distinct(subscribers')
  <2>1. CASE Subscribe(g)
    <3>1. /\ \A i \in 1 .. Len(subscribers) : subscribers[i] # g
          /\ subscribers' = Append(subscribers, g)
      BY <2>1 DEF Subscribe, Contains
    <3>2. /\ Len(subscribers') = Len(subscribers) + 1
          /\ \A i \in 1 .. Len(subscribers) : subscribers'[i] = subscribers[i]
          /\ subscribers'[Len(subscribers) + 1] = g
      BY <1>2, <3>1, AppendProperties
    <3>3. QED  BY <1>2, <3>1, <3>2 DEF Distinct
  <2>2. CASE Unsubscribe(g)
    <3>1. PICK i \in 1 .. Len(subscribers) : subscribers' = RemoveAt(subscribers, i)
      BY <1>2, <2>2 DEF Unsubscribe
    <3>2. /\ Len(subscribers') = Len(subscribers) - 1
          /\ \A k \in 1 .. Len(subscribers) - 1 :
               subscribers'[k] = IF k < i THEN subscribers[k] ELSE subscribers[k + 1]
      BY <1>2, <3>1, RemoveAtProperties
    <3>3. QED  BY <1>2, <3>2 DEF Distinct
  <2>3. QED  BY <2>1, <2>2
<1>4. QED  BY <1>1, <1>3, StacksUnchanged

(***************************************************************************)
(* An event is sequenced: its dispatch is the innermost one of the thread  *)
(* that now has the lock, and no other thread has a dispatch.              *)
(***************************************************************************)
LEMMA SequencedStep ==
  ASSUME TypeInv, NestingInv, NestingInv', DispatchInv, NEW t \in Threads, Sequenced(t)
  PROVE  DispatchInv'
<1> DEFINE s == stack[t]
           r == stack'[t]
           f == Opened(t)
           n == Len(stack[t])
           m == sequence + 1
<1>1. /\ Busy(t) /\ Top(t).at = "waiting" /\ sequence' = m
      /\ f.id = Top(t).id /\ f.at = "dispatching" /\ f.seq = m /\ f.todo = subscribers
      /\ OtherStacksKept(t) /\ Replaced(s, r, f) /\ stack' \in [Threads -> Seq(Frame)]
  BY SequencedReplaces
<1>2. n \in Nat /\ n > 0 /\ Top(t) = s[n] /\ sequence \in Nat /\ m \in Nat
  BY <1>1, TopOfStack DEF TypeInv
<1>3. /\ HasLock(t) /\ owner' = t /\ subscribers' = subscribers /\ delivered' = delivered
      /\ within' = Append(within, {frame.seq : frame \in ToSet(Front(stack[t]))})
      /\ owed' = [h \in Handlers |->
                    IF Contains(subscribers, h) /\ Top(t).id \in Matches[h]
                    THEN owed[h] \cup {m} ELSE owed[h]]
  BY <1>1 DEF Sequenced
<1>4. /\ \A k \in 1 .. sequence : within'[k] = within[k]
      /\ within'[m] = {s[i].seq : i \in 1 .. n - 1}
  <2>1. /\ {frame.seq : frame \in ToSet(Front(stack[t]))} = {s[i].seq : i \in 1 .. n - 1}
        /\ \A i \in 1 .. n - 1 : s[i].seq \in Nat
    BY <1>1, WithinOfFront
  <2>2. {s[i].seq : i \in 1 .. n - 1} \in SUBSET Nat
    BY <2>1
  <2>3. within \in Seq(SUBSET Nat) /\ Len(within) = sequence
    BY DEF TypeInv
  <2>4. within' = Append(within, {s[i].seq : i \in 1 .. n - 1})
    BY <1>3, <2>1
  <2>5. QED  BY <2>2, <2>3, <2>4, AppendProperties
\* A dispatch on the new stacks is the new one, or is where it was.
<1>5. ASSUME NEW u \in Threads, NEW i \in 1 .. Len(stack'[u]), stack'[u][i].at = "dispatching"
      PROVE  /\ u = t
             /\ \/ i = n /\ stack'[u][i] = f
                \/ i \in 1 .. n - 1 /\ stack'[u][i] = s[i] /\ s[i].at = "dispatching"
  <2>1. CASE u = t
    <3>1. i \in 1 .. Len(r)
      BY <2>1
    <3>2. i \in 1 .. n
      BY <1>1, <3>1 DEF Replaced
    <3>3. CASE i = n
      BY <1>1, <2>1, <3>3 DEF Replaced
    <3>4. CASE i # n
      <4>1. i \in 1 .. n - 1
        BY <1>2, <3>2, <3>4
      <4>2. r[i] = s[i]
        BY <1>1, <4>1 DEF Replaced
      <4>3. QED  BY <1>5, <2>1, <4>1, <4>2
    <3>5. QED  BY <3>3, <3>4
  <2>2. CASE u # t
    <3>1. stack'[u] = stack[u]
      BY <1>1, <2>2 DEF OtherStacksKept
    <3>2. owner = u
      BY <1>5, <3>1 DEF DispatchInv, LockInv
    <3>3. FALSE
      BY <1>3, <2>2, <3>2, BusAssumption DEF HasLock
    <3>4. QED  BY <3>3
  <2>3. QED  BY <2>1, <2>2
<1> HIDE DEF s, r, f, n, m
<1>6. \A i \in 1 .. n - 1 : s[i].seq \in 1 .. sequence /\ s[i].at = "dispatching" /\ i \in 1 .. n
  BY <1>2 DEF DispatchInv, LockInv, NestingInv, s, n
<1>7. LockInv'
  <2> SUFFICES ASSUME NEW u \in Threads, NEW i \in 1 .. Len(stack'[u]),
                      stack'[u][i].at = "dispatching"
               PROVE  owner' = u /\ stack'[u][i].seq \in 1 .. sequence'
    BY DEF LockInv
  <2>1. u = t /\ (stack'[u][i] = f \/ (i \in 1 .. n - 1 /\ stack'[u][i] = s[i]))
    BY <1>5
  <2>2. QED  BY <1>1, <1>2, <1>3, <1>6, <2>1 DEF m
<1>8. NestedInv'
  <2> SUFFICES ASSUME NEW u \in Threads, NEW i \in 1 .. Len(stack'[u]), NEW j \in 1 .. Len(stack'[u]),
                      i < j, stack'[u][j].at = "dispatching"
               PROVE  /\ stack'[u][i].seq < stack'[u][j].seq
                      /\ stack'[u][i].seq \in within'[stack'[u][j].seq]
    BY DEF NestedInv
  <2>1. stack'[u][i].at = "dispatching"
    <3>1. Len(stack'[u]) \in Nat
      BY <1>1
    <3>2. i \in 1 .. Len(stack'[u]) - 1
      BY <3>1
    <3>3. QED  BY <3>2 DEF NestingInv
  <2>2. u = t /\ i \in 1 .. n /\ j \in 1 .. n
    BY <1>2, <1>5, <2>1
  <2>3. i \in 1 .. n - 1 /\ stack'[u][i] = s[i]
    BY <1>2, <1>5, <2>1, <2>2
  <2>4. CASE j = n
    <3>1. stack'[u][j] = f
      BY <1>2, <1>5, <2>4
    <3>2. QED  BY <1>1, <1>2, <1>4, <1>6, <2>3, <3>1 DEF m
  <2>5. CASE j # n
    <3>1. j \in 1 .. n - 1 /\ stack'[u][j] = s[j]
      BY <1>2, <1>5, <2>5
    <3>2. s[i].seq < s[j].seq /\ s[i].seq \in within[s[j].seq]
      BY <1>6, <2>3, <3>1 DEF DispatchInv, NestedInv, s, n
    <3>3. QED  BY <1>4, <1>6, <2>3, <3>1, <3>2
  <2>6. QED  BY <2>4, <2>5
<1>9. CopiesInv'
  <2>1. Distinct(subscribers)
    BY DEF DispatchInv, CopiesInv
  <2>2. ASSUME NEW u \in Threads, NEW i \in 1 .. Len(stack'[u]), stack'[u][i].at = "dispatching"
        PROVE  Distinct(stack'[u][i].todo)
    <3>1. CASE stack'[u][i] = f
      BY <1>1, <2>1, <3>1
    <3>2. CASE i \in 1 .. n - 1 /\ stack'[u][i] = s[i]
      BY <1>6, <3>2 DEF DispatchInv, CopiesInv, s, n
    <3>3. QED  BY <1>5, <2>2, <3>1, <3>2
  <2>3. QED  BY <1>3, <2>1, <2>2 DEF CopiesInv, Distinct
<1>10. ASSUME NEW h \in Handlers, NEW k \in 1 .. Len(delivered[h])
       PROVE  delivered[h][k] \in 1 .. sequence
  BY DEF DispatchInv, DeliveredInv
<1>11. AwaitedInv'
  <2> SUFFICES ASSUME NEW u \in Threads, NEW i \in 1 .. Len(stack'[u]), NEW h \in Handlers,
                      Awaits(stack'[u][i], h), NEW k \in 1 .. Len(delivered'[h])
               PROVE  /\ delivered'[h][k] # stack'[u][i].seq
                      /\ delivered'[h][k] > stack'[u][i].seq
                           => stack'[u][i].seq \in within'[delivered'[h][k]]
    BY Zenon DEF AwaitedInv, Awaits
  <2>1. k \in 1 .. Len(delivered[h]) /\ delivered'[h][k] = delivered[h][k]
        /\ delivered[h][k] \in 1 .. sequence
    BY <1>3, <1>10
  <2>2. stack'[u][i].at = "dispatching"
    BY DEF Awaits
  <2>3. CASE stack'[u][i] = f
    BY <1>1, <1>2, <2>1, <2>3 DEF m
  <2>4. CASE i \in 1 .. n - 1 /\ stack'[u][i] = s[i]
    <3>1. Awaits(stack[t][i], h) /\ i \in 1 .. Len(stack[t])
      BY <1>6, <2>4 DEF s, n
    <3>2. /\ delivered[h][k] # s[i].seq
          /\ delivered[h][k] > s[i].seq => s[i].seq \in within[delivered[h][k]]
      BY <2>1, <3>1 DEF DispatchInv, AwaitedInv, s
    <3>3. QED  BY <1>4, <2>1, <2>4, <3>2
  <2>5. QED  BY <1>5, <2>2, <2>3, <2>4
<1>12. DeliveredInv'
  BY <1>1, <1>2, <1>3, <1>10 DEF DispatchInv, DeliveredInv, Distinct, m
<1>13. CallbacksFollowSequence'
  <2> SUFFICES ASSUME NEW h \in Handlers, NEW i \in DOMAIN delivered[h], NEW j \in DOMAIN delivered[h],
                      i < j
               PROVE  \/ delivered[h][i] < delivered[h][j]
                      \/ delivered[h][j] \in within'[delivered[h][i]]
    BY <1>3 DEF CallbacksFollowSequence
  <2>1. i \in 1 .. Len(delivered[h])
    BY DEF TypeInv
  <2>2. within'[delivered[h][i]] = within[delivered[h][i]]
    BY <1>4, <1>10, <2>1
  <2>3. QED  BY <2>2 DEF DispatchInv, CallbacksFollowSequence
<1>14. OwedInv'
  <2> SUFFICES ASSUME NEW h \in Handlers, NEW x \in Nat
               PROVE  x \in owed'[h] <=> Given(h, x)' \/ Pending(h, x)'
    BY DEF OwedInv
  <2>1. x \in owed[h] <=> Given(h, x) \/ Pending(h, x)
    BY DEF DispatchInv, OwedInv
  <2>2. Given(h, x)' <=> Given(h, x)
    BY <1>3 DEF Given
  <2>3. Awaits(f, h) <=> Contains(subscribers, h) /\ Top(t).id \in Matches[h]
    BY <1>1 DEF Awaits, Contains
  <2>4. Pending(h, x) => Pending(h, x)'
    <3> SUFFICES ASSUME NEW u \in Threads, NEW i \in 1 .. Len(stack[u]),
                        Awaits(stack[u][i], h), stack[u][i].seq = x
                 PROVE  Pending(h, x)'
      BY DEF Pending
    <3>1. stack[u][i].at = "dispatching" /\ owner = u
      BY DEF Awaits, DispatchInv, LockInv
    <3>2. u = t
      BY <1>3, <3>1, BusAssumption DEF HasLock
    <3>3. i # n
      BY <1>1, <1>2, <3>1, <3>2 DEF s
    <3>4. i \in 1 .. n - 1
      BY <1>2, <3>2, <3>3 DEF n
    <3>5. r[i] = s[i] /\ i \in 1 .. Len(r)
      BY <1>1, <1>2, <3>4 DEF Replaced, n, s
    <3>6. /\ i \in 1 .. Len(stack'[u])
          /\ Awaits(stack'[u][i], h) /\ stack'[u][i].seq = x
      BY <3>2, <3>5 DEF r, s
    <3>7. QED  BY <3>6 DEF Pending, Awaits
  <2>5. Awaits(f, h) /\ x = m => Pending(h, x)'
    <3> SUFFICES ASSUME Awaits(f, h), x = m
                 PROVE  Pending(h, x)'
      OBVIOUS
    <3>1. n \in 1 .. Len(stack'[t]) /\ stack'[t][n] = f
      BY <1>1, <1>2 DEF Replaced, r, n, s
    <3>2. Awaits(stack'[t][n], h) /\ stack'[t][n].seq = x
      BY <1>1, <3>1
    <3>3. QED  BY <3>1, <3>2 DEF Pending, Awaits
  <2>6. Pending(h, x)' => Pending(h, x) \/ (Awaits(f, h) /\ x = m)
    <3> SUFFICES ASSUME NEW u \in Threads, NEW i \in 1 .. Len(stack'[u]),
                        Awaits(stack'[u][i], h), stack'[u][i].seq = x
                 PROVE  Pending(h, x) \/ (Awaits(f, h) /\ x = m)
      BY DEF Pending, Awaits
    <3>1. stack'[u][i].at = "dispatching"
      BY DEF Awaits
    <3>2. CASE stack'[u][i] = f
      BY <1>1, <3>2
    <3>3. CASE i \in 1 .. n - 1 /\ stack'[u][i] = s[i]
      <4>1. i \in 1 .. Len(stack[t]) /\ Awaits(stack[t][i], h) /\ stack[t][i].seq = x
        BY <1>6, <3>3 DEF s, n
      <4>2. QED  BY <4>1 DEF Pending
    <3>4. QED  BY <1>5, <3>1, <3>2, <3>3
  <2>7. x \in owed'[h] <=> x \in owed[h] \/ (Awaits(f, h) /\ x = m)
    BY <1>3, <2>3
  <2>8. QED  BY <2>1, <2>2, <2>4, <2>5, <2>6, <2>7
<1>15. QED  BY <1>7, <1>8, <1>9, <1>11, <1>12, <1>13, <1>14 DEF DispatchInv

(***************************************************************************)
(* A handler is called.  It is not called for the event again, the         *)
(* dispatches that still have to call it are those this one is nested in,  *)
(* and it was not called for anything later except from within this one.   *)
(***************************************************************************)
LEMMA CallHandlerStep ==
  ASSUME TypeInv, NestingInv, NestingInv', DispatchInv, NEW t \in Threads, CallHandler(t)
  PROVE  DispatchInv'
<1> DEFINE s == stack[t]
           r == stack'[t]
           f == Top(t)
           n == Len(stack[t])
           q == f.seq
<1>1. Busy(t) /\ f.at = "dispatching"
  BY CallHandlerReplaces
<1>2. n \in Nat /\ n > 0 /\ f = s[n] /\ f \in Frame /\ sequence \in Nat
      /\ f.todo \in Seq(Handlers)
  BY <1>1, TopOfStack, FrameFields DEF TypeInv
<1>3. PICK k \in NextMatch(f) :
        /\ k \in 1 .. Len(f.todo)
        /\ Past(f, k).id = f.id /\ Past(f, k).at = "dispatching"
        /\ Past(f, k).seq = f.seq
        /\ Len(Past(f, k).todo) = Len(f.todo) - k
        /\ \A j \in 1 .. Len(f.todo) - k : Past(f, k).todo[j] = f.todo[k + j]
        /\ stack' \in [Threads -> Seq(Frame)]
        /\ OtherStacksKept(t)
        /\ Replaced(stack[t], stack'[t], Past(f, k))
        /\ f.todo[k] \in Handlers /\ f.seq \in Nat
        /\ delivered' = [delivered EXCEPT ![f.todo[k]] = Append(delivered[f.todo[k]], f.seq)]
  BY CallHandlerReplaces
<1> DEFINE g == Past(f, k)
           c == f.todo[k]
<1>4. /\ UNCHANGED <<sequence, owner, owed, within, subscribers>>
      /\ f.id \in Matches[c]
      /\ \A j \in 1 .. k - 1 : f.id \notin Matches[f.todo[j]]
  BY <1>3 DEF CallHandler, NextMatch
<1>5. /\ c \in Handlers /\ q \in Nat /\ delivered \in [Handlers -> Seq(Nat)]
      /\ Len(f.todo) \in Nat
      /\ delivered' = [delivered EXCEPT ![c] = Append(delivered[c], q)]
  BY <1>2, <1>3 DEF TypeInv
<1>6. /\ g.id = f.id /\ g.at = "dispatching" /\ g.seq = q
      /\ Len(g.todo) = Len(f.todo) - k
      /\ \A j \in 1 .. Len(f.todo) - k : g.todo[j] = f.todo[k + j]
      /\ OtherStacksKept(t) /\ Replaced(s, r, g) /\ stack' \in [Threads -> Seq(Frame)]
      /\ k \in 1 .. Len(f.todo)
  BY <1>3
<1>7. Distinct(f.todo) /\ owner = t /\ q \in 1 .. sequence
  BY <1>1, <1>2 DEF DispatchInv, CopiesInv, LockInv
<1> HIDE DEF s, r, n, g, c, f, q
<1>8. Awaits(f, c) /\ ~Awaits(g, c)
  <2>1. Awaits(f, c)
    BY <1>1, <1>4, <1>6 DEF Awaits, c
  <2>2. \A j \in 1 .. Len(f.todo) - k : k + j \in 1 .. Len(f.todo) /\ k + j # k
    BY <1>5, <1>6
  <2>3. \A j \in 1 .. Len(f.todo) - k : f.todo[k + j] # f.todo[k]
    BY <1>6, <1>7, <2>2 DEF Distinct
  <2>4. \A j \in 1 .. Len(g.todo) : g.todo[j] # c
    BY <1>6, <2>3 DEF c
  <2>5. QED  BY <2>1, <2>4 DEF Awaits
<1>9. ASSUME NEW h \in Handlers
      PROVE  Awaits(f, h) <=> Awaits(g, h) \/ h = c
  <2>1. Awaits(g, h) => Awaits(f, h)
    <3> SUFFICES ASSUME g.id \in Matches[h], NEW j \in 1 .. Len(g.todo), g.todo[j] = h
                 PROVE  Awaits(f, h)
      BY DEF Awaits
    <3>1. j \in 1 .. Len(f.todo) - k /\ k + j \in 1 .. Len(f.todo)
      BY <1>5, <1>6
    <3>2. f.todo[k + j] = h
      BY <1>6, <3>1
    <3>3. QED  BY <1>1, <1>6, <3>1, <3>2 DEF Awaits
  <2>2. Awaits(f, h) /\ h # c => Awaits(g, h)
    <3> SUFFICES ASSUME f.id \in Matches[h], NEW i \in 1 .. Len(f.todo), f.todo[i] = h, h # c
                 PROVE  Awaits(g, h)
      BY DEF Awaits
    <3>1. i # k
      BY DEF c
    <3>2. ~(i \in 1 .. k - 1)
      BY <1>4
    <3>3. i - k \in 1 .. Len(f.todo) - k /\ k + (i - k) = i
      BY <1>5, <1>6, <3>1, <3>2
    <3>4. g.todo[i - k] = h
      BY <1>6, <3>3
    <3>5. QED  BY <1>6, <3>3, <3>4 DEF Awaits
  <2>3. QED  BY <1>8, <2>1, <2>2
<1>10. Continues(g, f)
  <2>1. Distinct(g.todo)
    <3>1. \A i, j \in 1 .. Len(f.todo) - k :
            k + i \in 1 .. Len(f.todo) /\ k + j \in 1 .. Len(f.todo) /\ (k + i = k + j => i = j)
      BY <1>5, <1>6
    <3>2. QED  BY <1>6, <1>7, <3>1 DEF Distinct
  <2>2. QED  BY <1>1, <1>6, <1>9, <2>1 DEF Continues, q
<1>11. GoesOn(stack[t], stack'[t])
  <2>1. s \in Seq(Frame)
    BY DEF TypeInv, s
  <2>2. GoesOn(s, r)
    BY <1>2, <1>6, <1>10, <2>1, ReplacedGoesOn DEF n, s
  <2>3. QED  BY <2>2 DEF s, r
<1>12. DispatchesGoOn
  BY <1>6, <1>11, OneStackGoesOn
<1>13. LockInv' /\ NestedInv' /\ CopiesInv'
  BY <1>4, <1>6, <1>12, LockStays, NestedKept, CopiesKept DEF DispatchInv, CopiesInv
<1>14. /\ \A h \in Handlers \ {c} : delivered'[h] = delivered[h]
       /\ Len(delivered[c]) \in Nat /\ Len(delivered'[c]) = Len(delivered[c]) + 1
       /\ \A i \in 1 .. Len(delivered[c]) : delivered'[c][i] = delivered[c][i]
       /\ delivered'[c][Len(delivered[c]) + 1] = q
  BY <1>5, AppendProperties
\* The handler was called before only for earlier events and from within this dispatch.
<1>15. \A j \in 1 .. Len(delivered[c]) :
          /\ delivered[c][j] # q
          /\ delivered[c][j] > q => q \in within[delivered[c][j]]
          /\ delivered[c][j] \in 1 .. sequence
  <2>1. n \in 1 .. Len(stack[t]) /\ stack[t][n] = f
    BY <1>2 DEF n, s
  <2>2. AwaitedInv /\ DeliveredInv
    BY DEF DispatchInv
  <2>3. \A j \in 1 .. Len(delivered[c]) :
          /\ delivered[c][j] # q
          /\ delivered[c][j] > q => q \in within[delivered[c][j]]
    BY <1>5, <1>8, <2>1, <2>2 DEF AwaitedInv, q
  <2>4. \A j \in 1 .. Len(delivered[c]) : delivered[c][j] \in 1 .. sequence
    BY <1>5, <2>2 DEF DeliveredInv
  <2>5. QED  BY <2>3, <2>4
<1>16. AwaitedInv'
  <2> SUFFICES ASSUME NEW u \in Threads, NEW i \in 1 .. Len(stack'[u]), NEW h \in Handlers,
                      Awaits(stack'[u][i], h), NEW j \in 1 .. Len(delivered'[h])
               PROVE  /\ delivered'[h][j] # stack'[u][i].seq
                      /\ delivered'[h][j] > stack'[u][i].seq
                           => stack'[u][i].seq \in within'[delivered'[h][j]]
    BY Zenon DEF AwaitedInv, Awaits
  <2>1. i \in 1 .. Len(stack[u]) /\ Continues(stack'[u][i], stack[u][i])
    BY <1>12 DEF DispatchesGoOn, GoesOn, Awaits
  <2>2. /\ Awaits(stack[u][i], h) /\ stack'[u][i].seq = stack[u][i].seq
        /\ stack[u][i].at = "dispatching"
    BY <2>1 DEF Continues
  <2>3. ASSUME j \in 1 .. Len(delivered[h]), delivered'[h][j] = delivered[h][j]
        PROVE  /\ delivered'[h][j] # stack'[u][i].seq
               /\ delivered'[h][j] > stack'[u][i].seq
                    => stack'[u][i].seq \in within'[delivered'[h][j]]
    <3>1. /\ delivered[h][j] # stack[u][i].seq
          /\ delivered[h][j] > stack[u][i].seq
                    => stack[u][i].seq \in within[delivered[h][j]]
      BY <2>1, <2>2, <2>3 DEF DispatchInv, AwaitedInv
    <3>2. QED  BY <1>4, <2>2, <2>3, <3>1
  <2>4. CASE h # c
    BY <1>14, <2>3, <2>4
  <2>5. CASE h = c /\ j # Len(delivered[c]) + 1
    <3>1. j \in 1 .. Len(delivered[c])
      BY <1>14, <2>5
    <3>2. QED  BY <1>14, <2>3, <2>5, <3>1
  <2>6. CASE h = c /\ j = Len(delivered[c]) + 1
    <3>1. delivered'[h][j] = q
      BY <1>14, <2>6
    <3>2. u = t
      BY <1>7, <2>1, <2>2 DEF DispatchInv, LockInv
    <3>3. i # n
      BY <1>2, <1>6, <1>8, <2>6, <3>2 DEF Replaced, r, n, s
    <3>4. i \in 1 .. n /\ n \in 1 .. n /\ i < n
      BY <1>2, <2>1, <3>2, <3>3 DEF n
    <3>5. s[i].seq < s[n].seq /\ s[i].seq \in within[s[n].seq]
      BY <1>1, <1>2, <3>4 DEF DispatchInv, NestedInv, s, n
    <3>6. stack'[u][i].seq < q /\ stack'[u][i].seq \in within[q] /\ stack'[u][i].seq \in 1 .. sequence
      BY <1>2, <2>1, <2>2, <3>2, <3>5 DEF s, q, DispatchInv, LockInv
    <3>7. QED  BY <1>4, <1>5, <3>1, <3>6
  <2>7. QED  BY <2>4, <2>5, <2>6
<1>17. DeliveredInv'
  <2>1. ASSUME NEW h \in Handlers
        PROVE  /\ \A j \in 1 .. Len(delivered'[h]) : delivered'[h][j] \in 1 .. sequence
               /\ Distinct(delivered'[h])
    <3>1. CASE h # c
      BY <1>14, <3>1 DEF DispatchInv, DeliveredInv
    <3>2. CASE h = c
      <4>1. Distinct(delivered[c])
        BY <1>5 DEF DispatchInv, DeliveredInv
      <4>2. \A j \in 1 .. Len(delivered'[c]) :
              \/ j \in 1 .. Len(delivered[c]) /\ delivered'[c][j] = delivered[c][j]
              \/ j = Len(delivered[c]) + 1 /\ delivered'[c][j] = q
        BY <1>14
      <4>3. \A j \in 1 .. Len(delivered'[c]) : delivered'[c][j] \in 1 .. sequence
        BY <1>7, <1>15, <4>2
      <4>4. Distinct(delivered'[c])
        BY <1>15, <4>1, <4>2 DEF Distinct
      <4>5. QED  BY <3>2, <4>3, <4>4
    <3>3. QED  BY <3>1, <3>2
  <2>2. QED  BY <1>4, <2>1 DEF DeliveredInv, Distinct
<1>18. CallbacksFollowSequence'
  <2> SUFFICES ASSUME NEW h \in Handlers, NEW i \in DOMAIN delivered'[h], NEW j \in DOMAIN delivered'[h],
                      i < j
               PROVE  \/ delivered'[h][i] < delivered'[h][j]
                      \/ delivered'[h][j] \in within'[delivered'[h][i]]
    BY DEF CallbacksFollowSequence
  <2>1. CASE h # c
    BY <1>4, <1>14, <2>1 DEF DispatchInv, CallbacksFollowSequence
  <2>2. CASE h = c
    <3>1. /\ DOMAIN delivered[c] = 1 .. Len(delivered[c])
          /\ DOMAIN delivered'[c] = 1 .. Len(delivered[c]) + 1
      BY <1>5, <1>14, AppendProperties
    <3>2. i \in 1 .. Len(delivered[c]) /\ delivered'[c][i] = delivered[c][i]
      BY <1>14, <2>2, <3>1
    <3>3. CASE j \in 1 .. Len(delivered[c])
      <4>1. \/ delivered[c][i] < delivered[c][j]
            \/ delivered[c][j] \in within[delivered[c][i]]
        BY <1>5, <3>1, <3>2, <3>3 DEF DispatchInv, CallbacksFollowSequence
      <4>2. QED  BY <1>4, <1>14, <2>2, <3>2, <3>3, <4>1
    <3>4. CASE j = Len(delivered[c]) + 1
      <4>1. delivered'[c][j] = q
        BY <1>14, <3>4
      <4>2. delivered[c][i] < q \/ q \in within[delivered[c][i]]
        <5>1. /\ delivered[c][i] # q /\ delivered[c][i] \in 1 .. sequence
              /\ delivered[c][i] > q => q \in within[delivered[c][i]]
          BY <1>15, <3>2
        <5>2. CASE delivered[c][i] > q
          BY <5>1, <5>2
        <5>3. CASE ~(delivered[c][i] > q)
          BY <1>5, <5>1, <5>3
        <5>4. QED  BY <5>2, <5>3
      <4>3. QED  BY <1>4, <2>2, <3>2, <4>1, <4>2
    <3>5. QED  BY <1>14, <2>2, <3>1, <3>3, <3>4
  <2>3. QED  BY <2>1, <2>2
<1>19. OwedInv'
  <2> SUFFICES ASSUME NEW h \in Handlers, NEW x \in Nat
               PROVE  x \in owed[h] <=> Given(h, x)' \/ Pending(h, x)'
    BY <1>4 DEF OwedInv
  <2>1. x \in owed[h] <=> Given(h, x) \/ Pending(h, x)
    BY DEF DispatchInv, OwedInv
  <2>2. Given(h, x)' <=> Given(h, x) \/ (h = c /\ x = q)
    <3>1. Given(h, x) <=> \E j \in 1 .. Len(delivered[h]) : delivered[h][j] = x
      BY DEF Given
    <3>2. Given(h, x)' <=> \E j \in 1 .. Len(delivered'[h]) : delivered'[h][j] = x
      BY DEF Given
    <3>3. CASE h # c
      BY <1>14, <3>1, <3>2, <3>3
    <3>4. CASE h = c
      <4>1. /\ \A j \in 1 .. Len(delivered[c]) :
                 j \in 1 .. Len(delivered'[c]) /\ delivered'[c][j] = delivered[c][j]
            /\ Len(delivered[c]) + 1 \in 1 .. Len(delivered'[c])
            /\ \A j \in 1 .. Len(delivered'[c]) :
                 j \in 1 .. Len(delivered[c]) \/ j = Len(delivered[c]) + 1
        BY <1>14
      <4>2. QED  BY <1>14, <3>1, <3>2, <3>4, <4>1
    <3>5. QED  BY <3>3, <3>4
  <2>3. Pending(h, x)' => Pending(h, x)
    <3> SUFFICES ASSUME NEW u \in Threads, NEW i \in 1 .. Len(stack'[u]),
                        Awaits(stack'[u][i], h), stack'[u][i].seq = x
                 PROVE  Pending(h, x)
      BY DEF Pending, Awaits
    <3>1. i \in 1 .. Len(stack[u]) /\ Continues(stack'[u][i], stack[u][i])
      BY <1>12 DEF DispatchesGoOn, GoesOn, Awaits
    <3>2. Awaits(stack[u][i], h) /\ stack[u][i].seq = x
      BY <3>1 DEF Continues
    <3>3. QED  BY <3>1, <3>2 DEF Pending
  <2>4. h = c /\ x = q => Pending(h, x)
    BY <1>2, <1>8 DEF Pending, n, s, q
  <2>5. Pending(h, x) => Pending(h, x)' \/ (h = c /\ x = q)
    <3> SUFFICES ASSUME NEW u \in Threads, NEW i \in 1 .. Len(stack[u]),
                        Awaits(stack[u][i], h), stack[u][i].seq = x
                 PROVE  Pending(h, x)' \/ (h = c /\ x = q)
      BY DEF Pending
    <3>1. u = t
      BY <1>7 DEF Awaits, DispatchInv, LockInv
    <3>2. CASE i = n
      <4>1. stack[u][i] = f
        BY <1>2, <3>1, <3>2 DEF s
      <4>2. x = q /\ (Awaits(g, h) \/ h = c)
        BY <1>9, <4>1 DEF q
      <4>3. n \in 1 .. Len(stack'[t]) /\ stack'[t][n] = g
        BY <1>2, <1>6 DEF Replaced, r, n, s
      <4>4. CASE Awaits(g, h)
        <5>1. Awaits(stack'[t][n], h) /\ stack'[t][n].seq = x
          BY <1>6, <4>2, <4>3, <4>4
        <5>2. QED  BY <4>3, <5>1 DEF Pending, Awaits
      <4>5. QED  BY <4>2, <4>4
    <3>3. CASE i # n
      <4>1. i \in 1 .. n - 1
        BY <1>2, <3>1, <3>3 DEF n
      <4>2. i \in 1 .. Len(stack'[t]) /\ stack'[t][i] = stack[t][i]
        <5>1. Len(r) = n /\ \A j \in 1 .. n - 1 : r[j] = s[j]
          BY <1>6 DEF Replaced, n, s
        <5>2. n \in Nat
          BY <1>2
        <5>3. i \in 1 .. Len(r) /\ r[i] = s[i]
          BY <4>1, <5>1, <5>2
        <5>4. QED  BY <5>3 DEF r, s
      <4>3. Awaits(stack'[t][i], h) /\ stack'[t][i].seq = x
        BY <3>1, <4>2
      <4>4. QED  BY <4>2, <4>3 DEF Pending, Awaits
    <3>4. QED  BY <3>2, <3>3
  <2>6. QED  BY <2>1, <2>2, <2>3, <2>4, <2>5
<1>20. QED  BY <1>13, <1>16, <1>17, <1>18, <1>19 DEF DispatchInv

LEMMA DispatchInit == Init => DispatchInv
<1> SUFFICES ASSUME Init PROVE DispatchInv
  OBVIOUS
<1>1. /\ sequence = 0 /\ subscribers = <<>> /\ within = <<>>
      /\ stack = [t \in Threads |-> <<>>] /\ delivered = [h \in Handlers |-> <<>>]
      /\ owed = [h \in Handlers |-> {}]
  BY DEF Init
<1>2. Len(<<>>) = 0 /\ DOMAIN <<>> = {}
  BY EmptySeq
<1>3. LockInv /\ NestedInv /\ CopiesInv /\ AwaitedInv
  BY <1>1, <1>2 DEF LockInv, NestedInv, CopiesInv, AwaitedInv, Distinct
<1>4. DeliveredInv /\ CallbacksFollowSequence
  BY <1>1, <1>2 DEF DeliveredInv, CallbacksFollowSequence, Distinct
<1>5. OwedInv
  BY <1>1, <1>2 DEF OwedInv, Given, Pending
<1>6. QED  BY <1>3, <1>4, <1>5 DEF DispatchInv

LEMMA BusStep ==
  ASSUME BusInv, [Next]_vars
  PROVE  BusInv'
<1>1. TypeInv /\ NestingInv /\ DispatchInv /\ TypeInv' /\ NestingInv'
  BY TypeStep DEF BusInv
<1>2. ASSUME NEW t \in Threads, NEW e \in Events, Call(t, e) PROVE DispatchInv'
  BY <1>1, <1>2, QuietActions
<1>3. ASSUME NEW t \in Threads, DropDuplicate(t) \/ PublishReturns(t) \/ HandlerReturns(t)
      PROVE  DispatchInv'
  BY <1>1, <1>3, QuietActions
<1>4. ASSUME NEW t \in Threads, Sequenced(t) PROVE DispatchInv'
  BY <1>1, <1>4, SequencedStep
<1>5. ASSUME NEW t \in Threads, CallHandler(t) PROVE DispatchInv'
  BY <1>1, <1>5, CallHandlerStep
<1>6. ASSUME NEW h \in Handlers, Subscribe(h) \/ Unsubscribe(h) PROVE DispatchInv'
  BY <1>1, <1>6, SubscriptionActions
<1>7. ASSUME UNCHANGED vars PROVE DispatchInv'
  <2>1. /\ UNCHANGED <<sequence, owner, stack, delivered, owed, within>>
        /\ Distinct(subscribers')
    BY <1>1, <1>7 DEF vars, DispatchInv, CopiesInv
  <2>2. QED  BY <1>1, <2>1, StacksUnchanged
<1>8. DispatchInv'
  BY <1>2, <1>3, <1>4, <1>5, <1>6, <1>7 DEF Next, Proceed
<1>9. QED  BY <1>1, <1>8 DEF BusInv

THEOREM BusInvariant == Spec => []BusInv
<1>1. Init => BusInv
  BY TypeInit, DispatchInit DEF BusInv
<1>2. BusInv /\ [Next]_vars => BusInv'
  BY BusStep
<1>3. QED  BY <1>1, <1>2, PTL DEF Spec

(***************************************************************************)
(* Every handler sees the events in the order of their sequence numbers,   *)
(* none twice, except that an event it leads to may overtake the ones in   *)
(* whose dispatch it was published.                                        *)
(***************************************************************************)
THEOREM CallbacksInOrder == Spec => []CallbacksFollowSequence
<1>1. BusInv => CallbacksFollowSequence
  BY DEF BusInv, DispatchInv
<1>2. QED  BY <1>1, BusInvariant, PTL

LEMMA DistinctCardinality ==
  ASSUME NEW S, NEW s \in Seq(S), Distinct(s)
  PROVE  Cardinality(ToSet(s)) = Len(s)
<1>1. Len(s) \in Nat /\ DOMAIN s = 1 .. Len(s) /\ s \in [1 .. Len(s) -> S]
  OBVIOUS
<1>2. s \in [1 .. Len(s) -> ToSet(s)]
  BY <1>1 DEF ToSet
<1>3. \A i, j \in 1 .. Len(s) : s[i] = s[j] => i = j
  BY DEF Distinct
<1>4. \A x \in ToSet(s) : \E i \in 1 .. Len(s) : s[i] = x
  BY <1>1 DEF ToSet
<1>5. s \in Bijection(1 .. Len(s), ToSet(s))
  <2>1. DOMAIN s = 1 .. Len(s)
    BY <1>1
  <2>2. IsInjective(s)
    BY <1>3, <2>1 DEF IsInjective
  <2>3. QED  BY <1>2, <1>4, <2>2 DEF Bijection, Injection, Surjection
<1>6. ExistsBijection(1 .. Len(s), ToSet(s))
  BY <1>5 DEF ExistsBijection
<1>7. QED  BY <1>1, <1>6, FS_CountingElements

(***************************************************************************)
(* When no publication is in progress every handler has been called        *)
(* exactly once with every event it is owed, and with no other.            *)
(***************************************************************************)
THEOREM EverythingDelivered == Spec => []QuiescentDelivery
<1>1. BusInv => QuiescentDelivery
  <2> SUFFICES ASSUME BusInv, \A t \in Threads : ~Busy(t), NEW h \in Handlers
               PROVE  ToSet(delivered[h]) = owed[h] /\ Len(delivered[h]) = Cardinality(owed[h])
    BY DEF QuiescentDelivery
  <2>1. \A t \in Threads : Len(stack[t]) = 0
    BY EmptySeq DEF Busy
  <2>2. \A n \in Nat : ~Pending(h, n)
    BY <2>1 DEF Pending
  <2>3. delivered[h] \in Seq(Nat) /\ owed[h] \subseteq Nat
    BY DEF BusInv, TypeInv
  <2>4. ToSet(delivered[h]) \subseteq Nat
    BY <2>3 DEF ToSet
  <2>5. \A n \in Nat : Given(h, n) <=> n \in ToSet(delivered[h])
    BY <2>3 DEF Given, ToSet
  <2>6. \A n \in Nat : n \in owed[h] <=> Given(h, n)
    BY <2>2 DEF BusInv, DispatchInv, OwedInv
  <2>7. ToSet(delivered[h]) = owed[h]
    BY <2>3, <2>4, <2>5, <2>6
  <2>8. Distinct(delivered[h])
    BY DEF BusInv, DispatchInv, DeliveredInv
  <2>9. QED  BY <2>3, <2>7, <2>8, DistinctCardinality
<1>2. QED  BY <1>1, BusInvariant, PTL

-----------------------------------------------------------------------------
(***************************************************************************)
(* The bus implements one that publishes in a step.                        *)
(***************************************************************************)

(***************************************************************************)
(* Why there is a stack: a running handler has been called with the event  *)
(* of its dispatch (d are the calls so far), and every publication but the *)
(* outermost one was made by the handler that runs in the dispatch below.  *)
(***************************************************************************)
Caused(s, d) ==
  \A i \in 1 .. Len(s) :
    /\ s[i].at = "dispatching" /\ s[i].running # None =>
         \E k \in 1 .. Len(d[s[i].running]) : d[s[i].running][k] = s[i].seq
    /\ i < Len(s) => s[i].running # None /\ s[i + 1].id \in Emits[s[i].running]

CauseInv == \A t \in Threads : Caused(stack[t], delivered)

\* In c the handlers were called as in d, and perhaps again.
Prolongs(d, c) ==
  \A h \in Handlers : \A k \in 1 .. Len(d[h]) : k \in 1 .. Len(c[h]) /\ c[h][k] = d[h][k]

LEMMA CausedWhenGrown ==
  ASSUME NEW s \in Seq(Frame), NEW d, NEW c, Caused(s, d), Prolongs(d, c)
  PROVE  Caused(s, c)
<1>1. ASSUME NEW i \in 1 .. Len(s), s[i].at = "dispatching", s[i].running # None
      PROVE  \E k \in 1 .. Len(c[s[i].running]) : c[s[i].running][k] = s[i].seq
  <2>1. s[i].running \in Handlers
    BY <1>1, ElementOfSeq, FrameFields
  <2>2. PICK k \in 1 .. Len(d[s[i].running]) : d[s[i].running][k] = s[i].seq
    BY <1>1 DEF Caused
  <2>3. k \in 1 .. Len(c[s[i].running]) /\ c[s[i].running][k] = d[s[i].running][k]
    BY <2>1 DEF Prolongs
  <2> QED
    BY <2>2, <2>3
<1> QED
  BY <1>1 DEF Caused

LEMMA CausedWhenPopped ==
  ASSUME NEW s \in Seq(Frame), NEW r, NEW d, Popped(s, r), Caused(s, d)
  PROVE  Caused(r, d)
<1>1. Len(s) \in Nat /\ Len(r) = Len(s) - 1
  BY DEF Popped
<1>2. ASSUME NEW i \in 1 .. Len(r)
      PROVE  i \in 1 .. Len(s) /\ i < Len(s) /\ r[i] = s[i] /\ (i < Len(r) => r[i + 1] = s[i + 1])
  BY <1>1 DEF Popped
<1> QED
  BY <1>2 DEF Caused

LEMMA CausedWhenPushed ==
  ASSUME NEW s \in Seq(Frame), NEW r, NEW d, NEW f, Pushed(s, r, f), Caused(s, d),
         f.at = "waiting",
         Len(s) > 0 => s[Len(s)].running # None /\ f.id \in Emits[s[Len(s)].running]
  PROVE  Caused(r, d)
<1>1. Len(s) \in Nat /\ Len(r) = Len(s) + 1 /\ r[Len(r)] = f
  BY DEF Pushed
<1>2. ASSUME NEW i \in 1 .. Len(s)
      PROVE  /\ r[i] = s[i]
             /\ i < Len(s) => r[i + 1] = s[i + 1]
             /\ i = Len(s) => r[i + 1] = f
  BY <1>1 DEF Pushed
<1>3. ASSUME NEW i \in 1 .. Len(r), r[i].at = "dispatching", r[i].running # None
      PROVE  \E k \in 1 .. Len(d[r[i].running]) : d[r[i].running][k] = r[i].seq
  <2>1. i \in 1 .. Len(s)
    BY <1>1, <1>3
  <2> QED
    BY <1>2, <1>3, <2>1 DEF Caused
<1>4. ASSUME NEW i \in 1 .. Len(r), i < Len(r)
      PROVE  r[i].running # None /\ r[i + 1].id \in Emits[r[i].running]
  <2>1. i \in 1 .. Len(s) /\ (i < Len(s) \/ i = Len(s))
    BY <1>1, <1>4
  <2>2. CASE i < Len(s)
    BY <1>2, <2>1, <2>2 DEF Caused
  <2>3. CASE i = Len(s)
    BY <1>1, <1>2, <2>1, <2>3
  <2> QED
    BY <2>1, <2>2, <2>3
<1> QED
  BY <1>3, <1>4 DEF Caused

LEMMA CausedWhenReplaced ==
  ASSUME NEW s \in Seq(Frame), NEW r, NEW d, NEW f, Replaced(s, r, f), Caused(s, d),
         f.id = s[Len(s)].id,
         f.running # None => \E k \in 1 .. Len(d[f.running]) : d[f.running][k] = f.seq
  PROVE  Caused(r, d)
<1>1. Len(s) \in Nat /\ Len(s) > 0 /\ Len(r) = Len(s) /\ r[Len(s)] = f
  BY DEF Replaced
<1>2. \A i \in 1 .. Len(s) - 1 : r[i] = s[i]
  BY DEF Replaced
<1>3. ASSUME NEW i \in 1 .. Len(r), r[i].at = "dispatching", r[i].running # None
      PROVE  \E k \in 1 .. Len(d[r[i].running]) : d[r[i].running][k] = r[i].seq
  <2>1. CASE i = Len(s)
    BY <1>1, <1>3, <2>1
  <2>2. CASE i # Len(s)
    <3>1. i \in 1 .. Len(s) - 1 /\ i \in 1 .. Len(s)
      BY <1>1, <2>2
    <3> QED
      BY <1>2, <1>3, <3>1 DEF Caused
  <2> QED
    BY <2>1, <2>2
<1>4. ASSUME NEW i \in 1 .. Len(r), i < Len(r)
      PROVE  r[i].running # None /\ r[i + 1].id \in Emits[r[i].running]
  <2>1. i \in 1 .. Len(s) - 1 /\ i \in 1 .. Len(s) /\ i < Len(s)
    BY <1>1, <1>4
  <2>2. r[i + 1].id = s[i + 1].id
    <3>1. CASE i + 1 = Len(s)
      BY <1>1, <3>1
    <3>2. CASE i + 1 # Len(s)
      <4>1. i + 1 \in 1 .. Len(s) - 1
        BY <1>1, <2>1, <3>2
      <4> QED
        BY <1>2, <4>1
    <3> QED
      BY <3>1, <3>2
  <2> QED
    BY <1>2, <2>1, <2>2 DEF Caused
<1> QED
  BY <1>3, <1>4 DEF Caused

LEMMA CauseKept ==
  ASSUME TypeInv, CauseInv, NEW t \in Threads, OtherStacksKept(t),
         Prolongs(delivered, delivered'), Caused(stack'[t], delivered')
  PROVE  CauseInv'
<1>1. ASSUME NEW u \in Threads PROVE Caused(stack'[u], delivered')
  <2>1. CASE u = t
    BY <2>1
  <2>2. CASE u # t
    <3>1. stack'[u] = stack[u] /\ stack[u] \in Seq(Frame)
      BY <2>2 DEF OtherStacksKept, TypeInv
    <3> QED
      BY <3>1, CausedWhenGrown DEF CauseInv
  <2> QED
    BY <2>1, <2>2
<1> QED
  BY <1>1 DEF CauseInv, Caused

LEMMA CauseStep ==
  ASSUME TypeInv, CauseInv, [Next]_vars
  PROVE  CauseInv'
<1>1. delivered \in [Handlers -> Seq(Nat)] /\ stack \in [Threads -> Seq(Frame)]
  BY DEF TypeInv
<1>2. delivered' = delivered => Prolongs(delivered, delivered')
  BY DEF Prolongs
<1>3. ASSUME NEW t \in Threads, NEW e \in Events, Call(t, e) PROVE CauseInv'
  <2> DEFINE f == [id |-> e, at |-> "waiting"]
  <2>1. OtherStacksKept(t) /\ Pushed(stack[t], stack'[t], f) /\ delivered' = delivered
    BY <1>3, CallPushes DEF Call
  <2>2. f.at = "waiting" /\ f.id = e
    OBVIOUS
  <2>3. ASSUME Len(stack[t]) > 0
        PROVE  /\ stack[t][Len(stack[t])].running # None
               /\ e \in Emits[stack[t][Len(stack[t])].running]
    <3>1. Busy(t)
      BY <1>1, <2>3, EmptySeq DEF Busy
    <3>2. Top(t) = stack[t][Len(stack[t])]
      BY <3>1, TopOfStack
    <3> QED
      BY <1>3, <3>1, <3>2 DEF Call, Running
  <2> HIDE DEF f
  <2>4. Caused(stack'[t], delivered')
    BY <1>1, <2>1, <2>2, <2>3, CausedWhenPushed DEF CauseInv
  <2> QED
    BY <1>2, <2>1, <2>4, CauseKept
<1>4. ASSUME NEW t \in Threads, DropDuplicate(t) \/ PublishReturns(t) PROVE CauseInv'
  <2>1. OtherStacksKept(t) /\ Popped(stack[t], stack'[t]) /\ delivered' = delivered
    BY <1>4, DropPops DEF DropDuplicate, PublishReturns
  <2>2. Caused(stack'[t], delivered')
    BY <1>1, <2>1, CausedWhenPopped DEF CauseInv
  <2> QED
    BY <1>2, <2>1, <2>2, CauseKept
<1>5. ASSUME NEW t \in Threads, NEW f, Busy(t), OtherStacksKept(t), f.running = None,
             Replaced(stack[t], stack'[t], f), f.id = Top(t).id, delivered' = delivered
      PROVE  CauseInv'
  <2>1. f.id = stack[t][Len(stack[t])].id
    BY <1>5, TopOfStack
  <2>2. Caused(stack'[t], delivered')
    BY <1>1, <1>5, <2>1, CausedWhenReplaced DEF CauseInv
  <2> QED
    BY <1>2, <1>5, <2>2, CauseKept
<1>6. ASSUME NEW t \in Threads, Sequenced(t) PROVE CauseInv'
  <2>1. /\ Busy(t) /\ OtherStacksKept(t) /\ Replaced(stack[t], stack'[t], Opened(t))
        /\ Opened(t).id = Top(t).id
    BY <1>6, SequencedReplaces
  <2>2. Opened(t).running = None /\ delivered' = delivered
    BY <1>6 DEF Opened, InDispatch, Sequenced
  <2> QED
    BY <1>5, <2>1, <2>2
<1>7. ASSUME NEW t \in Threads, HandlerReturns(t) PROVE CauseInv'
  <2>1. /\ Busy(t) /\ OtherStacksKept(t) /\ Replaced(stack[t], stack'[t], Returned(Top(t)))
        /\ Returned(Top(t)).id = Top(t).id
    BY <1>7, HandlerReturnsReplaces
  <2>2. Returned(Top(t)).running = None /\ delivered' = delivered
    BY <1>7 DEF Returned, InDispatch, HandlerReturns
  <2> QED
    BY <1>5, <2>1, <2>2
<1>8. ASSUME NEW t \in Threads, CallHandler(t) PROVE CauseInv'
  <2>1. PICK k \in NextMatch(Top(t)) :
          /\ Busy(t) /\ OtherStacksKept(t) /\ Replaced(stack[t], stack'[t], Past(Top(t), k))
          /\ Past(Top(t), k).id = Top(t).id /\ Past(Top(t), k).seq = Top(t).seq
          /\ Top(t).todo[k] \in Handlers /\ Top(t).seq \in Nat
          /\ delivered' = [delivered EXCEPT ![Top(t).todo[k]] =
                             Append(delivered[Top(t).todo[k]], Top(t).seq)]
    BY <1>8, CallHandlerReplaces
  <2> DEFINE g == Past(Top(t), k)
             h == Top(t).todo[k]
             q == Top(t).seq
  <2>2. g.running = h
    BY DEF Past, InDispatch
  <2>3. /\ h \in Handlers /\ q \in Nat /\ g.seq = q /\ g.id = Top(t).id
        /\ Replaced(stack[t], stack'[t], g)
        /\ delivered' = [delivered EXCEPT ![h] = Append(delivered[h], q)]
    BY <2>1
  <2>4. Top(t) = stack[t][Len(stack[t])]
    BY <2>1, TopOfStack
  <2> HIDE DEF g, h, q
  <2>5. /\ delivered[h] \in Seq(Nat) /\ delivered'[h] = Append(delivered[h], q)
        /\ \A i \in Handlers : i # h => delivered'[i] = delivered[i]
    BY <1>1, <2>3
  <2>6. /\ Len(delivered'[h]) = Len(delivered[h]) + 1
        /\ delivered'[h][Len(delivered[h]) + 1] = q
        /\ \A i \in 1 .. Len(delivered[h]) : delivered'[h][i] = delivered[h][i]
        /\ Len(delivered[h]) \in Nat
    BY <2>3, <2>5, AppendProperties
  <2>7. Prolongs(delivered, delivered')
    <3>1. ASSUME NEW i \in Handlers, NEW j \in 1 .. Len(delivered[i])
          PROVE  j \in 1 .. Len(delivered'[i]) /\ delivered'[i][j] = delivered[i][j]
      <4>1. CASE i = h
        BY <2>6, <4>1
      <4>2. CASE i # h
        BY <2>5, <4>2
      <4> QED
        BY <4>1, <4>2
    <3> QED
      BY <3>1 DEF Prolongs
  <2>8. Caused(stack[t], delivered')
    BY <1>1, <2>7, CausedWhenGrown DEF CauseInv
  <2>9. \E j \in 1 .. Len(delivered'[g.running]) : delivered'[g.running][j] = g.seq
    BY <2>2, <2>3, <2>6
  <2>10. Caused(stack'[t], delivered')
    BY <1>1, <2>3, <2>4, <2>8, <2>9, CausedWhenReplaced
  <2> QED
    BY <2>1, <2>7, <2>10, CauseKept
<1>9. ASSUME UNCHANGED <<stack, delivered>> PROVE CauseInv'
  BY <1>9 DEF CauseInv, Caused
<1>10. ASSUME NEW h \in Handlers, Subscribe(h) \/ Unsubscribe(h) PROVE CauseInv'
  BY <1>9, <1>10 DEF Subscribe, Unsubscribe
<1> QED
  BY <1>3, <1>4, <1>6, <1>7, <1>8, <1>9, <1>10 DEF Next, Proceed, vars

LEMMA CauseInit == Init => CauseInv
<1>1. ASSUME Init, NEW t \in Threads PROVE Caused(stack[t], delivered)
  BY <1>1, EmptySeq DEF Init, Caused
<1> QED
  BY <1>1 DEF CauseInv

(***************************************************************************)
(* The steps of the bus that change what others see of it, and their       *)
(* images.                                                                 *)
(***************************************************************************)
LEMMA ElementsOf ==
  ASSUME NEW S, NEW s \in Seq(S)
  PROVE  \A x : x \in ToSet(s) <=> \E k \in 1 .. Len(s) : s[k] = x
BY DEF ToSet

LEMMA SequencedPublishes ==
  ASSUME BusInv, CauseInv, NEW t \in Threads, Sequenced(t)
  PROVE  Atomic!Next
<1> DEFINE s == stack[t]
           n == Len(stack[t])
           e == Top(t).id
           causes == {frame.seq : frame \in ToSet(Front(stack[t]))}
<1>1. /\ Busy(t) /\ e \in Events /\ e = s[n].id
      /\ s \in Seq(Frame) /\ n \in Nat /\ n > 0
  BY SequencedReplaces, TopOfStack DEF BusInv
<1>2. /\ causes = {s[i].seq : i \in 1 .. n - 1}
      /\ \A i \in 1 .. n - 1 : s[i] \in Frame /\ s[i].at = "dispatching"
                               /\ s[i].seq \in 1 .. sequence
  <2>1. causes = {s[i].seq : i \in 1 .. n - 1} /\ \A i \in 1 .. n - 1 : s[i] \in Frame
    BY <1>1, WithinOfFront DEF BusInv
  <2>2. ASSUME NEW i \in 1 .. n - 1
        PROVE  s[i].at = "dispatching" /\ s[i].seq \in 1 .. sequence
    <3>1. i \in 1 .. n /\ s[i].at = "dispatching"
      BY <1>1 DEF BusInv, NestingInv
    <3> QED
      BY <3>1 DEF BusInv, DispatchInv, LockInv
  <2> QED
    BY <2>1, <2>2
<1>3. /\ sequence' = sequence + 1
      /\ history' = Newest(Append(history, [id |-> e, seq |-> sequence']), HistoryLimit)
      /\ owed' = [h \in Handlers |-> IF Contains(subscribers, h) /\ e \in Matches[h]
                                    THEN owed[h] \cup {sequence'} ELSE owed[h]]
      /\ within' = Append(within, causes)
      /\ UNCHANGED <<subscribers, delivered>>
  BY DEF Sequenced, NextSequence
<1> HIDE DEF s, n, e, causes
<1>4. causes \subseteq 1 .. sequence
  BY <1>2
<1>5. ASSUME causes # {}
      PROVE  \E m \in causes, h \in Handlers :
               (\A k \in causes : k <= m) /\ m \in ToSet(delivered[h]) /\ e \in Emits[h]
  <2> DEFINE i == n - 1
  <2>1. i \in 1 .. n - 1 /\ i \in 1 .. n /\ i < n /\ i + 1 = n
    BY <1>1, <1>2, <1>5
  <2>2. s[i].seq \in causes /\ s[i].at = "dispatching" /\ s[i] \in Frame /\ s[i].seq \in Nat
    BY <1>2, <2>1
  <2> HIDE DEF i
  <2>3. Caused(s, delivered)
    BY DEF CauseInv, s
  <2>4. s[i].running # None /\ e \in Emits[s[i].running]
    BY <1>1, <2>1, <2>3 DEF Caused, n, s
  <2>5. s[i].running \in Handlers
    BY <2>2, <2>4, FrameFields
  <2>6. s[i].seq \in ToSet(delivered[s[i].running])
    <3>1. \E k \in 1 .. Len(delivered[s[i].running]) : delivered[s[i].running][k] = s[i].seq
      BY <2>1, <2>2, <2>3, <2>4 DEF Caused, n, s
    <3>2. delivered[s[i].running] \in Seq(Nat)
      BY <2>5 DEF BusInv, TypeInv
    <3> QED
      BY <3>1, <3>2, ElementsOf
  <2>7. ASSUME NEW k \in causes PROVE k <= s[i].seq
    <3>1. PICK j \in 1 .. n - 1 : k = s[j].seq
      BY <1>2
    <3>2. j \in 1 .. n /\ (j = i \/ j < i)
      BY <1>1, <3>1, <2>1 DEF i
    <3>3. CASE j < i
      <4>1. s[j].seq < s[i].seq
        BY <2>1, <2>2, <3>2, <3>3 DEF BusInv, DispatchInv, NestedInv, n, s
      <4>2. s[j].seq \in Nat
        BY <1>2, <3>1
      <4> QED
        BY <2>2, <3>1, <4>1, <4>2
    <3> QED
      BY <2>2, <3>1, <3>2, <3>3
  <2> QED
    BY <2>2, <2>4, <2>5, <2>6, <2>7
<1>6. \A h : Contains(subscribers, h) <=> h \in ToSet(subscribers)
  BY DEF Contains, ToSet, BusInv, TypeInv
<1>7. owed' = [h \in Handlers |-> IF h \in ToSet(subscribers) /\ e \in Matches[h]
                                 THEN owed[h] \cup {sequence'} ELSE owed[h]]
  BY <1>3, <1>6
<1>8. history' = Atomic!Newest(Append(history, [id |-> e, seq |-> sequence']), HistoryLimit)
  BY <1>3 DEF Newest, Atomic!Newest
<1>9. Atomic!Publish(e, causes)
  BY <1>3, <1>4, <1>5, <1>7, <1>8 DEF Atomic!Publish, Atomic!ToSet, ToSet
<1> QED
  BY <1>1, <1>4, <1>9 DEF Atomic!Next

LEMMA CallHandlerDelivers ==
  ASSUME BusInv, NEW t \in Threads, CallHandler(t)
  PROVE  Atomic!Next
<1> DEFINE f == Top(t)
           q == f.seq
<1>1. PICK k \in NextMatch(f) :
        /\ Busy(t) /\ f.at = "dispatching" /\ k \in 1 .. Len(f.todo)
        /\ f.todo[k] \in Handlers /\ q \in Nat
        /\ delivered' = [delivered EXCEPT ![f.todo[k]] = Append(delivered[f.todo[k]], q)]
  BY CallHandlerReplaces DEF BusInv
<1> DEFINE h == f.todo[k]
           n == Len(stack[t])
<1>2. n \in Nat /\ n > 0 /\ n \in 1 .. n /\ f = stack[t][n]
  BY <1>1, TopOfStack DEF BusInv
<1>3. UNCHANGED <<sequence, history, subscribers, owed, within>>
  BY DEF CallHandler
<1>4. Awaits(f, h)
  BY <1>1 DEF Awaits, NextMatch
<1>5. h \in Handlers /\ q \in Nat /\ f.at = "dispatching"
      /\ delivered' = [delivered EXCEPT ![h] = Append(delivered[h], q)]
  BY <1>1
<1> HIDE DEF f, h, n
<1>6. delivered[h] \in Seq(Nat) /\ owed[h] \subseteq Nat
  BY <1>5 DEF BusInv, TypeInv
<1>7. \A m \in Nat : m \in Atomic!Due(h) <=> m \in owed[h] /\ ~Given(h, m)
  BY <1>6, ElementsOf DEF Atomic!Due, Atomic!ToSet, ToSet, Given
<1>8. q \in Atomic!Due(h)
  <2>1. Pending(h, q)
    BY <1>2, <1>4 DEF Pending, n
  <2>2. q \in owed[h]
    BY <1>5, <2>1 DEF BusInv, DispatchInv, OwedInv
  <2>3. ~Given(h, q)
    BY <1>2, <1>4, <1>5 DEF Given, BusInv, DispatchInv, AwaitedInv, n
  <2> QED
    BY <1>5, <1>7, <2>2, <2>3
<1>9. ASSUME NEW m \in Atomic!Due(h), m < q PROVE m \in within[q]
  <2>1. m \in Nat /\ m \in owed[h] /\ ~Given(h, m)
    BY <1>6, <1>7 DEF Atomic!Due
  <2>2. Pending(h, m)
    BY <1>5, <2>1 DEF BusInv, DispatchInv, OwedInv
  <2> PICK u \in Threads : \E i \in 1 .. Len(stack[u]) :
          Awaits(stack[u][i], h) /\ stack[u][i].seq = m
    BY <2>2 DEF Pending
  <2>3. PICK i \in 1 .. Len(stack[u]) : Awaits(stack[u][i], h) /\ stack[u][i].seq = m
    OBVIOUS
  <2>4. owner = u /\ owner = t
    BY <1>2, <1>5, <2>3 DEF Awaits, BusInv, DispatchInv, LockInv, n
  <2>5. i \in 1 .. n /\ stack[t][i].seq = m /\ i # n
    BY <1>2, <1>9, <2>1, <2>3, <2>4 DEF n
  <2>6. i < n
    BY <1>2, <2>5
  <2> QED
    BY <1>2, <1>5, <2>5, <2>6 DEF BusInv, DispatchInv, NestedInv, n
<1>10. Atomic!Deliver(h, q)
  BY <1>3, <1>5, <1>8, <1>9 DEF Atomic!Deliver
<1> QED
  BY <1>5, <1>8, <1>10 DEF Atomic!Next

LEMMA SubscriptionsAre ==
  ASSUME BusInv, NEW h \in Handlers, Subscribe(h) \/ Unsubscribe(h)
  PROVE  Atomic!Next
<1>1. subscribers \in Seq(Handlers) /\ Distinct(subscribers) /\ Len(subscribers) \in Nat
  BY DEF BusInv, TypeInv, DispatchInv, CopiesInv
<1>2. UNCHANGED <<sequence, history, owed, delivered, within>>
  BY DEF Subscribe, Unsubscribe
<1>3. \A x : x \in ToSet(subscribers) <=> \E k \in 1 .. Len(subscribers) : subscribers[k] = x
  BY <1>1, ElementsOf
<1>4. CASE Subscribe(h)
  <2>1. /\ subscribers' = Append(subscribers, h) /\ owed[h] = {} /\ delivered[h] = <<>>
        /\ ~Contains(subscribers, h)
    BY <1>4 DEF Subscribe
  <2>2. h \notin ToSet(subscribers)
    BY <1>3, <2>1 DEF Contains
  <2>3. /\ subscribers' \in Seq(Handlers) /\ Len(subscribers') = Len(subscribers) + 1
        /\ \A i \in 1 .. Len(subscribers) : subscribers'[i] = subscribers[i]
        /\ subscribers'[Len(subscribers) + 1] = h
    BY <1>1, <2>1, AppendProperties
  <2>4. \A x : x \in ToSet(subscribers') <=> \E k \in 1 .. Len(subscribers') : subscribers'[k] = x
    BY <2>3, ElementsOf
  <2>5. ASSUME NEW x PROVE x \in ToSet(subscribers') <=> x \in ToSet(subscribers) \cup {h}
    BY <1>1, <1>3, <2>3, <2>4
  <2>6. ToSet(subscribers') = ToSet(subscribers) \cup {h}
    BY <2>5
  <2> QED
    BY <1>2, <2>1, <2>2, <2>6 DEF Atomic!Subscribe, Atomic!Next
<1>5. CASE Unsubscribe(h)
  <2>1. PICK i \in 1 .. Len(subscribers) :
          subscribers[i] = h /\ subscribers' = RemoveAt(subscribers, i)
    BY <1>1, <1>5 DEF Unsubscribe
  <2>2. /\ subscribers' \in Seq(Handlers) /\ Len(subscribers') = Len(subscribers) - 1
        /\ \A k \in 1 .. Len(subscribers) - 1 :
             subscribers'[k] = IF k < i THEN subscribers[k] ELSE subscribers[k + 1]
    BY <1>1, <2>1, RemoveAtProperties
  <2>3. \A x : x \in ToSet(subscribers') <=> \E k \in 1 .. Len(subscribers') : subscribers'[k] = x
    BY <2>2, ElementsOf
  <2>4. ASSUME NEW x, x \in ToSet(subscribers') PROVE x \in ToSet(subscribers) \ {h}
    <3>1. PICK k \in 1 .. Len(subscribers') : subscribers'[k] = x
      BY <2>3, <2>4
    <3>2. \E j \in 1 .. Len(subscribers) : j # i /\ subscribers[j] = x
      <4>1. CASE k < i
        BY <1>1, <2>1, <2>2, <3>1, <4>1
      <4>2. CASE ~(k < i)
        <5>1. k + 1 \in 1 .. Len(subscribers) /\ k + 1 # i /\ subscribers[k + 1] = x
          BY <1>1, <2>1, <2>2, <3>1, <4>2
        <5> QED
          BY <5>1
      <4> QED
        BY <4>1, <4>2
    <3> QED
      BY <1>1, <1>3, <2>1, <3>2 DEF Distinct
  <2>5. ASSUME NEW x, x \in ToSet(subscribers) \ {h} PROVE x \in ToSet(subscribers')
    <3>1. PICK j \in 1 .. Len(subscribers) : subscribers[j] = x
      BY <1>3, <2>5
    <3>2. j # i
      BY <2>1, <2>5, <3>1
    <3>3. CASE j < i
      BY <1>1, <2>1, <2>2, <2>3, <3>1, <3>3
    <3>4. CASE j > i
      <4>1. j - 1 \in 1 .. Len(subscribers') /\ ~(j - 1 < i) /\ (j - 1) + 1 = j
        BY <1>1, <2>1, <2>2, <3>1, <3>4
      <4>2. subscribers'[j - 1] = x
        BY <2>2, <3>1, <4>1
      <4> QED
        BY <2>3, <4>1, <4>2
    <3> QED
      BY <1>1, <3>2, <3>3, <3>4
  <2>6. ToSet(subscribers') = ToSet(subscribers) \ {h}
    BY <2>4, <2>5
  <2>7. h \in ToSet(subscribers)
    BY <1>3, <2>1
  <2> QED
    BY <1>2, <2>6, <2>7 DEF Atomic!Unsubscribe, Atomic!Next
<1> QED
  BY <1>4, <1>5

(***************************************************************************)
(* For those who use it, publish is atomic: an event that is sequenced is  *)
(* published, a handler that is called is given an event that is due, and  *)
(* what happens inside of publish between these is a stutter.              *)
(***************************************************************************)
THEOREM BusIsAtomic == Spec => ImplementsAtomicBus
<1>1. Init => Atomic!Init
  <2>1. ToSet(<<>>) = {}
    BY EmptySeq DEF ToSet
  <2> QED
    BY <2>1 DEF Init, Atomic!Init
<1>2. BusInv /\ CauseInv /\ [Next]_vars => [Atomic!Next]_(Atomic!bus)
  <2> SUFFICES ASSUME BusInv, CauseInv, [Next]_vars
               PROVE  [Atomic!Next]_(Atomic!bus)
    OBVIOUS
  <2>1. ASSUME UNCHANGED <<sequence, history, subscribers, owed, delivered, within>>
        PROVE  UNCHANGED Atomic!bus
    BY <2>1 DEF Atomic!bus
  <2>2. CASE \E t \in Threads, e \in Events : Call(t, e)
    BY <2>1, <2>2 DEF Call
  <2>3. CASE \E t \in Threads : DropDuplicate(t) \/ HandlerReturns(t) \/ PublishReturns(t)
    BY <2>1, <2>3 DEF DropDuplicate, HandlerReturns, PublishReturns
  <2>4. CASE \E t \in Threads : Sequenced(t)
    BY <2>4, SequencedPublishes
  <2>5. CASE \E t \in Threads : CallHandler(t)
    BY <2>5, CallHandlerDelivers
  <2>6. CASE \E h \in Handlers : Subscribe(h) \/ Unsubscribe(h)
    BY <2>6, SubscriptionsAre
  <2>7. CASE UNCHANGED vars
    BY <2>1, <2>7 DEF vars
  <2> QED
    BY <2>2, <2>3, <2>4, <2>5, <2>6, <2>7 DEF Next, Proceed
<1>3. BusInv /\ CauseInv /\ [Next]_vars => CauseInv'
  BY CauseStep DEF BusInv
<1>4. Spec => [](BusInv /\ CauseInv)
  BY <1>3, BusInvariant, CauseInit, PTL DEF Spec
<1> QED
  BY <1>1, <1>2, <1>4, PTL DEF ImplementsAtomicBus, Atomic!Spec, Spec

(***************************************************************************)
(* Without handlers that publish no publication is nested.                 *)
(***************************************************************************)
Unanswering == \A h \in Handlers : Emits[h] = {}

Unnested == \A n \in 1 .. sequence : within[n] = {}

LEMMA OneFrame ==
  ASSUME Unanswering, TypeInv, NestingInv, CauseInv, NEW t \in Threads, Busy(t)
  PROVE  Len(stack[t]) = 1
<1> DEFINE s == stack[t]
           n == Len(stack[t])
<1>1. s \in Seq(Frame) /\ n \in Nat /\ n > 0
  BY TopOfStack
<1>2. ASSUME n # 1 PROVE FALSE
  <2>1. 1 \in 1 .. n /\ 1 < n /\ 1 \in 1 .. n - 1
    <3> HIDE DEF n
    <3> QED
      BY <1>1, <1>2
  <2>2. s[1].running # None /\ s[1 + 1].id \in Emits[s[1].running]
    <3>1. Caused(s, delivered)
      BY DEF CauseInv
    <3> HIDE DEF s
    <3> QED
      BY <2>1, <3>1 DEF Caused, s
  <2>3. s[1] \in Frame /\ s[1].at = "dispatching"
    BY <1>1, <2>1, ElementOfSeq DEF NestingInv
  <2>4. s[1].running \in Handlers
    BY <2>2, <2>3, FrameFields
  <2> QED
    BY <2>2, <2>4 DEF Unanswering
<1> QED
  BY <1>2

LEMMA UnnestedStep ==
  ASSUME Unanswering, TypeInv, NestingInv, CauseInv, Unnested, [Next]_vars
  PROVE  Unnested'
<1>1. ASSUME UNCHANGED <<sequence, within>> PROVE Unnested'
  BY <1>1 DEF Unnested
<1>2. ASSUME NEW t \in Threads, Sequenced(t) PROVE Unnested'
  <2>1. Busy(t) /\ sequence' = sequence + 1
    BY <1>2, SequencedReplaces
  <2>2. Len(stack[t]) = 1
    BY <2>1, OneFrame
  <2>3. {frame.seq : frame \in ToSet(Front(stack[t]))} = {}
    <3>1. {frame.seq : frame \in ToSet(Front(stack[t]))}
            = {stack[t][i].seq : i \in 1 .. Len(stack[t]) - 1}
      BY <2>1, WithinOfFront
    <3>2. 1 .. Len(stack[t]) - 1 = {}
      BY <2>2
    <3> QED
      BY <3>1, <3>2
  <2>4. within' = Append(within, {})
    BY <1>2, <2>3 DEF Sequenced
  <2>5. within \in Seq(SUBSET Nat) /\ Len(within) = sequence /\ sequence \in Nat
    BY DEF TypeInv
  <2>6. /\ \A n \in 1 .. sequence : within'[n] = within[n]
        /\ within'[sequence + 1] = {}
    BY <2>4, <2>5, AppendProperties
  <2> QED
    BY <2>1, <2>5, <2>6 DEF Unnested
<1> QED
  BY <1>1, <1>2 DEF Next, Proceed, Call, DropDuplicate, CallHandler, HandlerReturns,
                    PublishReturns, Subscribe, Unsubscribe, vars

(***************************************************************************)
(* What publisher.py:88 says of the dispatch lock, and EventStream relies  *)
(* on: where no handler publishes, as in this repository, every handler is *)
(* called strictly in the order of the sequence numbers.                   *)
(***************************************************************************)
CallbacksInSequence ==
  \A h \in Handlers : \A i, j \in DOMAIN delivered[h] :
    i < j => delivered[h][i] < delivered[h][j]

THEOREM CallbacksStrictlyInOrder == Unanswering => (Spec => []CallbacksInSequence)
<1> SUFFICES ASSUME Unanswering PROVE Spec => []CallbacksInSequence
  OBVIOUS
<1>1. Init => CauseInv /\ Unnested
  BY CauseInit DEF Init, Unnested
<1>2. BusInv /\ CauseInv /\ Unnested /\ [Next]_vars => (CauseInv /\ Unnested)'
  BY CauseStep, UnnestedStep DEF BusInv
<1>3. BusInv /\ Unnested => CallbacksInSequence
  <2> SUFFICES ASSUME BusInv, Unnested, NEW h \in Handlers,
                      NEW i \in DOMAIN delivered[h], NEW j \in DOMAIN delivered[h], i < j
               PROVE  delivered[h][i] < delivered[h][j]
    BY DEF CallbacksInSequence
  <2>1. i \in 1 .. Len(delivered[h])
    BY DEF BusInv, TypeInv
  <2>2. delivered[h][i] \in 1 .. sequence
    BY <2>1 DEF BusInv, DispatchInv, DeliveredInv
  <2>3. delivered[h][j] \notin within[delivered[h][i]]
    BY <2>2 DEF Unnested
  <2> QED
    BY <2>3 DEF BusInv, DispatchInv, CallbacksFollowSequence
<1> QED
  BY <1>1, <1>2, <1>3, BusInvariant, PTL DEF Spec

-----------------------------------------------------------------------------
(***************************************************************************)
(* The live event stream.                                                  *)
(***************************************************************************)
\* Any message of the stream.
Stamp == [gen : Nat, seq : Nat]

Note(g, n) == [gen |-> g, seq |-> n]

\* What the proofs use of ClientAssumption and StreamAssumption.
Limits ==
  /\ ClientLimit \in Nat \ {0} /\ HistoryLimit \in Nat \ {0} /\ MaxGeneration \in Nat \ {0}

LEMMA LimitsHold == Limits
BY ClientAssumption, StreamAssumption DEF Limits

\* The server in generation g, after p events of each generation.
World(g, p) == Limits /\ g \in Generations /\ p \in [Generations -> Nat]

Grows(g, p, h, q) ==
  /\ World(g, p) /\ World(h, q)
  /\ g <= h /\ \A i \in Generations : p[i] <= q[i]

\* An event that was published.
Known(e, g, p) ==
  /\ e = Note(e.gen, e.seq)
  /\ e.gen \in 1 .. g /\ e.seq \in 1 .. p[e.gen]

\* Events that were published, and marks.
Messages(s, marks, g, p) ==
  /\ s \in Seq(Stamp)
  /\ \A i \in 1 .. Len(s) : s[i] \in marks \/ Known(s[i], g, p)

Live(s, g, w, e, b) ==
  [status |-> s, streamId |-> g, watermark |-> w, events |-> e, buffered |-> b]

\* What LiveViewIsExact says of a view.
View(g, w, s) ==
  \E n \in 0 .. w : /\ s = Log(g, w - n + 1, w)
                    /\ n <= ClientLimit /\ (n = w \/ n >= HistoryLimit \/ n >= ClientLimit)

LiveOK(v, g, p) ==
  /\ v = Live(v.status, v.streamId, v.watermark, v.events, v.buffered)
  /\ v.status = "live" \/ v.streamId # None =>
       /\ v.streamId \in 1 .. g /\ v.watermark \in 0 .. p[v.streamId]
       /\ View(v.streamId, v.watermark, v.events)
  /\ Messages(v.buffered, {}, g, p)

SnapshotOK(s, g, p) ==
  /\ s.gen \in 1 .. g /\ s.seq \in 0 .. p[s.gen]
  /\ s.events = Newest(Log(s.gen, 1, s.seq), HistoryLimit)

NotBehind(s, v) ==
  v.streamId # None => \/ v.streamId < s.gen
                       \/ v.streamId = s.gen /\ v.watermark <= s.seq

RequestsOK(rs, t, v, g, p) ==
  /\ t \in Nat
  /\ \A r \in rs : /\ r = [ticket |-> r.ticket, answer |-> r.answer]
                   /\ r.ticket \in 1 .. t
                   /\ r.answer = Unanswered \/ SnapshotOK(r.answer, g, p)
  /\ \A r, q \in rs : r.ticket = q.ticket => r = q
  /\ \A r \in rs : r.ticket = t => /\ v.status # "live"
                                   /\ r.answer # Unanswered => NotBehind(r.answer, v)

StreamInv ==
  /\ World(gen, published)
  /\ Messages(calls, {}, gen, published)
  /\ Messages(queue, {Lagged}, gen, published)
  /\ Messages(wire, {Open, Lagged}, gen, published)
  /\ LiveOK(live, gen, published)
  /\ RequestsOK(requests, gate, live, gen, published)

\* The events up to k have reached the browser ...
Reached(k, rs, t, v, g) ==
  /\ v.status = "live" /\ v.streamId = g => k <= v.watermark
  /\ \A r \in rs :
       r.ticket = t /\ r.answer # Unanswered /\ r.answer.gen = g =>
         k <= r.answer.seq \/ Contains(v.buffered, Note(g, k))

\* ... and the others are under way, in order.
OnTheWay ==
  \E k, a, b \in 0 .. published[gen] :
    /\ k <= a /\ a <= b
    /\ calls = Log(gen, b + 1, published[gen]) /\ queue = Log(gen, a + 1, b)
    /\ \/ socket = "opening" /\ wire = <<Open>> \o Log(gen, k + 1, a)
       \/ /\ socket = "open" /\ wire = Log(gen, k + 1, a)
          /\ Reached(k, requests, gate, live, gen)

PipeInv ==
  /\ session \in {"none", "subscribed"}
  /\ socket \in {"closing", "closed"} => session = "none"
  /\ session = "none" => calls = <<>> /\ queue = <<>>
  /\ Contains(wire, Lagged) => session = "none"
  /\ Contains(queue, Lagged) => queue[1] = Lagged
  /\ session = "subscribed" /\ ~Contains(queue, Lagged) /\ "malformed" \notin faults => OnTheWay

-----------------------------------------------------------------------------
(* Stretches of events.                                                    *)

LEMMA LogIs ==
  ASSUME NEW g \in Nat, NEW a \in Nat, NEW b \in Int, a <= b + 1
  PROVE  /\ Log(g, a, b) \in Seq(Stamp)
         /\ Len(Log(g, a, b)) = b - a + 1
         /\ \A i \in 1 .. b - a + 1 : Log(g, a, b)[i] = Note(g, a + i - 1)
<1> DEFINE s == Log(g, a, b)
           n == b - a + 1
<1>0. n \in Nat
  OBVIOUS
<1>1. s = [i \in 1 .. n |-> Note(g, a + i - 1)]
  BY DEF Log, Note
<1>2. \A i \in 1 .. n : Note(g, a + i - 1) \in Stamp
  BY DEF Note, Stamp
<1> HIDE DEF s, n
<1>3. s \in [1 .. n -> Stamp]
  BY <1>1, <1>2
<1>4. s \in Seq(Stamp)
  BY <1>0, <1>3, SeqDef
<1>5. DOMAIN s = 1 .. n /\ DOMAIN s = 1 .. Len(s) /\ Len(s) \in Nat
  BY <1>1, <1>4, LenProperties
<1>6. Len(s) = n
  BY <1>0, <1>5
<1> QED
  BY <1>1, <1>4, <1>6 DEF s, n

LEMMA LogAppended ==
  ASSUME NEW g \in Nat, NEW a \in Nat, NEW b \in Int, a <= b + 1
  PROVE  Append(Log(g, a, b), Note(g, b + 1)) = Log(g, a, b + 1)
<1> DEFINE s == Log(g, a, b)
           t == Log(g, a, b + 1)
           u == Append(s, Note(g, b + 1))
<1>1. /\ s \in Seq(Stamp) /\ Len(s) = b - a + 1
      /\ \A i \in 1 .. b - a + 1 : s[i] = Note(g, a + i - 1)
  BY LogIs
<1>2. /\ t \in Seq(Stamp) /\ Len(t) = b - a + 2
      /\ \A i \in 1 .. b - a + 2 : t[i] = Note(g, a + i - 1)
  <2>1. b + 1 \in Int /\ a <= (b + 1) + 1 /\ (b + 1) - a + 1 = b - a + 2
    OBVIOUS
  <2> QED
    BY <2>1, LogIs
<1>3. b - a + 1 \in Nat /\ Note(g, b + 1) \in Stamp
  BY DEF Note, Stamp
<1> HIDE DEF s, t
<1>4. /\ u \in Seq(Stamp) /\ Len(u) = b - a + 2
      /\ \A i \in 1 .. b - a + 2 : u[i] = IF i = b - a + 2 THEN Note(g, b + 1) ELSE s[i]
  BY <1>1, <1>3
<1>5. \A i \in 1 .. b - a + 2 : u[i] = t[i]
  <2> SUFFICES ASSUME NEW i \in 1 .. b - a + 2 PROVE u[i] = t[i]
    OBVIOUS
  <2>1. CASE i = b - a + 2
    <3>1. a + i - 1 = b + 1
      BY <2>1
    <3> QED
      BY <1>2, <1>4, <2>1, <3>1
  <2>2. CASE i # b - a + 2
    <3>1. i \in 1 .. b - a + 1
      BY <2>2
    <3> QED
      BY <1>1, <1>2, <1>4, <2>2, <3>1
  <2> QED
    BY <2>1, <2>2
<1> HIDE DEF u
<1>6. u = t
  BY <1>2, <1>4, <1>5, SeqEqual
<1> QED
  BY <1>6 DEF s, t, u

LEMMA LogTail ==
  ASSUME NEW g \in Nat, NEW a \in Nat, NEW b \in Int, a <= b + 1, Log(g, a, b) # <<>>
  PROVE  /\ a <= b /\ Head(Log(g, a, b)) = Note(g, a)
         /\ Tail(Log(g, a, b)) = Log(g, a + 1, b)
<1> DEFINE s == Log(g, a, b)
           t == Log(g, a + 1, b)
           u == Tail(s)
<1>1. /\ s \in Seq(Stamp) /\ Len(s) = b - a + 1
      /\ \A i \in 1 .. b - a + 1 : s[i] = Note(g, a + i - 1)
  BY LogIs
<1>2. a <= b
  <2>1. s # <<>>
    OBVIOUS
  <2> HIDE DEF s
  <2> QED
    BY <1>1, <2>1
<1>3. /\ t \in Seq(Stamp) /\ Len(t) = b - a
      /\ \A i \in 1 .. b - a : t[i] = Note(g, a + 1 + i - 1)
  <2>1. a + 1 \in Nat /\ a + 1 <= b + 1 /\ b - (a + 1) + 1 = b - a
    BY <1>2
  <2> QED
    BY <2>1, LogIs
<1>4. s # <<>>
  OBVIOUS
<1> HIDE DEF s, t
<1>5. /\ u \in Seq(Stamp) /\ Len(u) = b - a
      /\ \A i \in 1 .. b - a : u[i] = s[i + 1]
  <2>1. Len(s) - 1 = b - a
    BY <1>1
  <2> QED
    BY <1>1, <1>4, <2>1, HeadTailProperties
<1>6. \A i \in 1 .. b - a : u[i] = t[i]
  <2> SUFFICES ASSUME NEW i \in 1 .. b - a PROVE u[i] = t[i]
    OBVIOUS
  <2>1. i + 1 \in 1 .. b - a + 1 /\ a + (i + 1) - 1 = a + 1 + i - 1
    OBVIOUS
  <2> QED
    BY <1>1, <1>3, <1>5, <2>1
<1> HIDE DEF u
<1>7. u = t
  BY <1>3, <1>5, <1>6, SeqEqual
<1>8. Head(s) = Note(g, a)
  <2>1. Head(s) = s[1] /\ 1 \in 1 .. b - a + 1 /\ a + 1 - 1 = a
    BY <1>1, <1>2, <1>4
  <2> QED
    BY <1>1, <2>1
<1> QED
  BY <1>2, <1>7, <1>8 DEF s, t, u

LEMMA LogJoined ==
  ASSUME NEW g \in Nat, NEW a \in Nat, NEW b \in Nat, NEW c \in Nat, a <= b + 1, b <= c
  PROVE  Log(g, a, b) \o Log(g, b + 1, c) = Log(g, a, c)
<1> DEFINE s == Log(g, a, b)
           t == Log(g, b + 1, c)
           w == Log(g, a, c)
           u == s \o t
<1>1. /\ s \in Seq(Stamp) /\ Len(s) = b - a + 1
      /\ \A i \in 1 .. b - a + 1 : s[i] = Note(g, a + i - 1)
  BY LogIs
<1>2. /\ t \in Seq(Stamp) /\ Len(t) = c - b
      /\ \A i \in 1 .. c - b : t[i] = Note(g, b + i)
  <2> DEFINE f == b + 1
  <2>1. f \in Nat /\ f <= c + 1 /\ c - f + 1 = c - b /\ \A i \in 1 .. c - b : f + i - 1 = b + i
    OBVIOUS
  <2> HIDE DEF f
  <2>2. /\ Log(g, f, c) \in Seq(Stamp) /\ Len(Log(g, f, c)) = c - f + 1
        /\ \A i \in 1 .. c - f + 1 : Log(g, f, c)[i] = Note(g, f + i - 1)
    BY <2>1, LogIs
  <2>3. t = Log(g, f, c)
    BY DEF f
  <2> HIDE DEF t
  <2> QED
    BY <2>1, <2>2, <2>3
<1>3. /\ w \in Seq(Stamp) /\ Len(w) = c - a + 1
      /\ \A i \in 1 .. c - a + 1 : w[i] = Note(g, a + i - 1)
  <2>1. a <= c + 1 /\ c \in Int
    OBVIOUS
  <2> QED
    BY <2>1, LogIs
<1> HIDE DEF s, t, w
<1>4. /\ u \in Seq(Stamp) /\ Len(u) = c - a + 1
      /\ \A i \in 1 .. c - a + 1 : u[i] = IF i <= b - a + 1 THEN s[i] ELSE t[i - (b - a + 1)]
  <2>1. u \in Seq(Stamp) /\ Len(u) = Len(s) + Len(t)
        /\ \A i \in 1 .. Len(s) + Len(t) : u[i] = IF i <= Len(s) THEN s[i] ELSE t[i - Len(s)]
    BY <1>1, <1>2, ConcatProperties
  <2>2. Len(s) + Len(t) = c - a + 1
    BY <1>1, <1>2
  <2> HIDE DEF u
  <2> QED
    BY <1>1, <2>1, <2>2
<1>5. \A i \in 1 .. c - a + 1 : u[i] = w[i]
  <2> SUFFICES ASSUME NEW i \in 1 .. c - a + 1 PROVE u[i] = w[i]
    OBVIOUS
  <2>1. CASE i <= b - a + 1
    <3>1. i \in 1 .. b - a + 1
      BY <2>1
    <3> QED
      BY <1>1, <1>3, <1>4, <2>1, <3>1
  <2>2. CASE ~(i <= b - a + 1)
    <3>1. i - (b - a + 1) \in 1 .. c - b /\ b + (i - (b - a + 1)) = a + i - 1
      BY <2>2
    <3> QED
      BY <1>2, <1>3, <1>4, <2>2, <3>1
  <2> QED
    BY <2>1, <2>2
<1> HIDE DEF u
<1>6. u = w
  BY <1>3, <1>4, <1>5, SeqEqual
<1> QED
  BY <1>6 DEF s, t, u, w

\* The newest of a stretch are a stretch with the same end.
LEMMA LogTrimmed ==
  ASSUME NEW g \in Nat, NEW a \in Nat, NEW b \in Nat, a <= b + 1, NEW limit \in Nat
  PROVE  Newest(Log(g, a, b), limit)
           = IF b - a + 1 <= limit THEN Log(g, a, b) ELSE Log(g, b - limit + 1, b)
<1> DEFINE s == Log(g, a, b)
<1>1. /\ s \in Seq(Stamp) /\ Len(s) = b - a + 1
      /\ \A i \in 1 .. b - a + 1 : s[i] = Note(g, a + i - 1)
  BY LogIs
<1> HIDE DEF s
<1>2. CASE b - a + 1 <= limit
  BY <1>1, <1>2 DEF Newest, s
<1>3. CASE ~(b - a + 1 <= limit)
  <2> DEFINE m == Len(s) - limit + 1
             t == Log(g, b - limit + 1, b)
             u == SubSeq(s, m, Len(s))
  <2>1. Newest(s, limit) = u
    BY <1>1, <1>3 DEF Newest
  <2>2. m \in 1 .. Len(s) + 1 /\ Len(s) - m + 1 = limit /\ Len(s) \in Nat /\ m = b - a + 1 - limit + 1
    BY <1>1, <1>3
  <2>3. /\ t \in Seq(Stamp) /\ Len(t) = limit
        /\ \A i \in 1 .. limit : t[i] = Note(g, b - limit + 1 + i - 1)
    <3> DEFINE f == b - limit + 1
    <3>1. f \in Nat /\ f <= b + 1 /\ b - f + 1 = limit /\ b \in Int
      BY <1>3
    <3>2. t = Log(g, f, b)
      OBVIOUS
    <3> HIDE DEF f, t
    <3>3. /\ Log(g, f, b) \in Seq(Stamp) /\ Len(Log(g, f, b)) = b - f + 1
          /\ \A i \in 1 .. b - f + 1 : Log(g, f, b)[i] = Note(g, f + i - 1)
      BY <3>1, LogIs
    <3>4. \A i \in 1 .. limit : t[i] = Note(g, f + i - 1)
      BY <3>1, <3>2, <3>3
    <3> QED
      BY <3>1, <3>2, <3>3, <3>4 DEF f
  <2> HIDE DEF m, t
  <2>4. /\ u \in Seq(Stamp) /\ Len(u) = limit
        /\ \A i \in 1 .. limit : u[i] = s[m + i - 1]
    <3>1. \A i \in m .. Len(s) : s[i] \in Stamp
      BY <1>1, <2>2
    <3>2. m \in Int /\ Len(s) \in Int /\ (m <= Len(s) \/ limit = 0)
      BY <2>2
    <3>3. /\ u \in Seq(Stamp) /\ Len(u) = IF m <= Len(s) THEN Len(s) - m + 1 ELSE 0
          /\ \A i \in 1 .. Len(s) - m + 1 : u[i] = s[m + i - 1]
      BY <3>1, <3>2, SubSeqProperties
    <3> HIDE DEF u
    <3> QED
      BY <2>2, <3>2, <3>3
  <2>5. \A i \in 1 .. limit : u[i] = t[i]
    <3> SUFFICES ASSUME NEW i \in 1 .. limit PROVE u[i] = t[i]
      OBVIOUS
    <3>1. m + i - 1 \in 1 .. b - a + 1 /\ a + (m + i - 1) - 1 = b - limit + 1 + i - 1
      BY <1>1, <1>3, <2>2
    <3> QED
      BY <1>1, <2>3, <2>4, <3>1
  <2> HIDE DEF u
  <2>6. u = t
    BY <2>3, <2>4, <2>5, SeqEqual
  <2> QED
    BY <1>3, <2>1, <2>6 DEF s, t
<1> QED
  BY <1>2, <1>3

-----------------------------------------------------------------------------
(* Messages.                                                               *)

LEMMA KnownIs ==
  ASSUME NEW g, NEW p, World(g, p), NEW e, Known(e, g, p)
  PROVE  /\ e \in Stamp /\ e.gen \in Generations /\ e.gen # 0 /\ e.seq # 0
         /\ e # Open /\ e # Lagged /\ e = Note(e.gen, e.seq)
<1>1. g \in Nat /\ g <= MaxGeneration /\ MaxGeneration \in Nat
  BY DEF World, Limits, Generations
<1>2. e = Note(e.gen, e.seq) /\ e.gen \in 1 .. g
  BY DEF Known
<1>3. e.gen \in Generations /\ e.gen \in Nat /\ e.gen # 0
  BY <1>1, <1>2 DEF Generations
<1>4. p[e.gen] \in Nat
  BY <1>3 DEF World
<1>5. e.seq \in Nat /\ e.seq # 0
  BY <1>4 DEF Known
<1>6. e \in Stamp
  BY <1>2, <1>3, <1>5 DEF Note, Stamp
<1>7. e # Open /\ e # Lagged
  <2>1. Open.gen = 0 /\ Lagged.gen = 0
    BY DEF Open, Lagged
  <2> QED
    BY <1>3, <2>1
<1> QED
  BY <1>2, <1>3, <1>5, <1>6, <1>7

LEMMA MarksAre == Open \in Stamp /\ Lagged \in Stamp /\ Open # Lagged /\ Open.gen = 0 /\ Lagged.gen = 0
BY DEF Open, Lagged, Stamp

LEMMA MessagesGrow ==
  ASSUME NEW g, NEW p, NEW h, NEW q, Grows(g, p, h, q)
  PROVE  /\ \A e : Known(e, g, p) => Known(e, h, q)
         /\ \A s, marks : Messages(s, marks, g, p) => Messages(s, marks, h, q)
<1>1. ASSUME NEW e, Known(e, g, p) PROVE Known(e, h, q)
  <2>1. e.gen \in Generations /\ e.gen \in 1 .. g /\ e.seq \in 1 .. p[e.gen]
    BY <1>1, KnownIs DEF Grows, Known
  <2>2. g \in Nat /\ h \in Nat /\ g <= h
    BY DEF Grows, World, Limits, Generations
  <2>3. p[e.gen] \in Nat /\ q[e.gen] \in Nat /\ p[e.gen] <= q[e.gen]
    BY <2>1 DEF Grows, World
  <2>4. e.gen \in 1 .. h /\ e.seq \in 1 .. q[e.gen]
    BY <2>1, <2>2, <2>3
  <2> QED
    BY <1>1, <2>4 DEF Known
<1> QED
  BY <1>1 DEF Messages

LEMMA MessagesNone ==
  ASSUME NEW g, NEW p, NEW marks
  PROVE  Messages(<<>>, marks, g, p)
BY DEF Messages

LEMMA MessagesOne ==
  ASSUME NEW g, NEW p, World(g, p), NEW marks \in SUBSET Stamp, NEW e, e \in marks \/ Known(e, g, p)
  PROVE  Messages(<<e>>, marks, g, p)
<1>1. e \in Stamp
  BY KnownIs
<1> QED
  BY <1>1 DEF Messages

LEMMA MessagesAppended ==
  ASSUME NEW g, NEW p, World(g, p), NEW marks \in SUBSET Stamp, NEW e, e \in marks \/ Known(e, g, p),
         NEW s, Messages(s, marks, g, p)
  PROVE  Messages(Append(s, e), marks, g, p)
<1>1. e \in Stamp /\ s \in Seq(Stamp)
  BY KnownIs DEF Messages
<1> DEFINE t == Append(s, e)
<1>2. /\ t \in Seq(Stamp) /\ Len(t) = Len(s) + 1
      /\ \A i \in 1 .. Len(s) : t[i] = s[i]
      /\ t[Len(s) + 1] = e
  BY <1>1, AppendProperties
<1>3. Len(s) \in Nat
  BY <1>1
<1> HIDE DEF t
<1>4. ASSUME NEW i \in 1 .. Len(t) PROVE t[i] \in marks \/ Known(t[i], g, p)
  <2>1. CASE i \in 1 .. Len(s)
    BY <1>2, <2>1 DEF Messages
  <2>2. CASE i = Len(s) + 1
    BY <1>2, <2>2
  <2> QED
    BY <1>2, <1>3, <2>1, <2>2
<1>5. Messages(t, marks, g, p)
  BY <1>2, <1>4 DEF Messages
<1> QED
  BY <1>5 DEF t

LEMMA MessagesTaken ==
  ASSUME NEW g, NEW p, World(g, p), NEW marks \in SUBSET Stamp,
         NEW s, Messages(s, marks, g, p), s # <<>>
  PROVE  /\ Head(s) \in Stamp /\ Head(s) = s[1]
         /\ Head(s) \in marks \/ Known(Head(s), g, p)
         /\ Messages(Tail(s), marks, g, p)
<1>1. s \in Seq(Stamp) /\ Len(s) \in Nat /\ Len(s) >= 1
  BY DEF Messages
<1>2. Head(s) = s[1] /\ Head(s) \in Stamp
  BY <1>1
<1>3. Head(s) \in marks \/ Known(Head(s), g, p)
  BY <1>1, <1>2 DEF Messages
<1> DEFINE t == Tail(s)
<1>4. t \in Seq(Stamp) /\ Len(t) = Len(s) - 1 /\ \A i \in 1 .. Len(t) : t[i] = s[i + 1]
  BY <1>1, HeadTailProperties
<1> HIDE DEF t
<1>5. \A i \in 1 .. Len(t) : i + 1 \in 1 .. Len(s)
  BY <1>1, <1>4
<1>6. Messages(t, marks, g, p)
  BY <1>4, <1>5 DEF Messages
<1> QED
  BY <1>2, <1>3, <1>6 DEF t

LEMMA MessagesTrimmed ==
  ASSUME NEW g, NEW p, NEW marks, NEW s, Messages(s, marks, g, p), NEW n \in Nat \ {0}
  PROVE  /\ Messages(Newest(s, n), marks, g, p)
         /\ s # <<>> => Contains(Newest(s, n), s[Len(s)])
<1>1. s \in Seq(Stamp) /\ Len(s) \in Nat
  BY DEF Messages
<1>2. CASE Len(s) <= n
  <2>1. Newest(s, n) = s
    BY <1>2 DEF Newest
  <2>2. s # <<>> => Len(s) \in 1 .. Len(s)
    BY <1>1
  <2> QED
    BY <2>1, <2>2 DEF Contains
<1>3. CASE ~(Len(s) <= n)
  <2> DEFINE m == Len(s) - n + 1
             t == SubSeq(s, m, Len(s))
  <2>1. Newest(s, n) = t
    BY <1>3 DEF Newest
  <2>2. m \in Int /\ Len(s) \in Int /\ m <= Len(s) /\ 1 <= m /\ Len(s) - m + 1 = n
    BY <1>1, <1>3
  <2> HIDE DEF m
  <2>3. \A i \in m .. Len(s) : i \in 1 .. Len(s) /\ s[i] \in Stamp
    BY <1>1, <2>2
  <2>4. /\ t \in Seq(Stamp) /\ Len(t) = n
        /\ \A i \in 1 .. Len(s) - m + 1 : t[i] = s[m + i - 1]
    BY <2>2, <2>3, SubSeqProperties
  <2> HIDE DEF t
  <2>5. \A i \in 1 .. Len(t) : m + i - 1 \in 1 .. Len(s) /\ t[i] = s[m + i - 1]
    BY <1>1, <2>2, <2>4
  <2>6. Messages(t, marks, g, p)
    BY <2>4, <2>5 DEF Messages
  <2>7. n \in 1 .. Len(t) /\ m + n - 1 = Len(s)
    BY <2>2, <2>4
  <2>8. Contains(t, s[Len(s)])
    BY <2>5, <2>7 DEF Contains
  <2> QED
    BY <2>1, <2>6, <2>8
<1> QED
  BY <1>1, <1>2, <1>3

-----------------------------------------------------------------------------
(* The live state.                                                         *)

LEMMA LiveFields ==
  ASSUME NEW s, NEW g, NEW w, NEW e, NEW b, NEW v, v = Live(s, g, w, e, b)
  PROVE  /\ v.status = s /\ v.streamId = g /\ v.watermark = w /\ v.events = e /\ v.buffered = b
         /\ v = Live(v.status, v.streamId, v.watermark, v.events, v.buffered)
BY DEF Live

LEMMA LiveOneField ==
  ASSUME NEW v, v = Live(v.status, v.streamId, v.watermark, v.events, v.buffered), NEW x
  PROVE  /\ [v EXCEPT !.status = x] = Live(x, v.streamId, v.watermark, v.events, v.buffered)
         /\ [v EXCEPT !.buffered = x] = Live(v.status, v.streamId, v.watermark, v.events, x)
         /\ [v EXCEPT !.watermark = x] = Live(v.status, v.streamId, x, v.events, v.buffered)
         /\ [v EXCEPT !.events = x] = Live(v.status, v.streamId, v.watermark, x, v.buffered)
<1> DEFINE s == v.status
           g == v.streamId
           w == v.watermark
           e == v.events
           b == v.buffered
<1>1. v = Live(s, g, w, e, b)
  OBVIOUS
<1> HIDE DEF s, g, w, e, b
<1>2. /\ [v EXCEPT !.status = x] = Live(x, g, w, e, b)
      /\ [v EXCEPT !.buffered = x] = Live(s, g, w, e, x)
      /\ [v EXCEPT !.watermark = x] = Live(s, g, x, e, b)
      /\ [v EXCEPT !.events = x] = Live(s, g, w, x, b)
  BY <1>1 DEF Live
<1> QED
  BY <1>2 DEF s, g, w, e, b

LEMMA LiveStopped ==
  ASSUME NEW v, v = Live(v.status, v.streamId, v.watermark, v.events, v.buffered), NEW x, NEW y
  PROVE  [v EXCEPT !.status = x, !.buffered = y]
           = Live(x, v.streamId, v.watermark, v.events, y)
<1> DEFINE u == [v EXCEPT !.status = x]
<1>1. u = Live(x, v.streamId, v.watermark, v.events, v.buffered)
  BY LiveOneField
<1>2. [v EXCEPT !.status = x, !.buffered = y] = [u EXCEPT !.buffered = y]
  OBVIOUS
<1> HIDE DEF u
<1>3. /\ u.status = x /\ u.streamId = v.streamId /\ u.watermark = v.watermark
      /\ u.events = v.events
      /\ u = Live(u.status, u.streamId, u.watermark, u.events, u.buffered)
  BY <1>1, LiveFields
<1>4. [u EXCEPT !.buffered = y] = Live(u.status, u.streamId, u.watermark, u.events, y)
  BY <1>3, LiveOneField
<1> QED
  BY <1>2, <1>3, <1>4

LEMMA LiveAdvanced ==
  ASSUME NEW v, v = Live(v.status, v.streamId, v.watermark, v.events, v.buffered), NEW x, NEW y
  PROVE  [v EXCEPT !.watermark = x, !.events = y]
           = Live(v.status, v.streamId, x, y, v.buffered)
<1> DEFINE u == [v EXCEPT !.watermark = x]
<1>1. u = Live(v.status, v.streamId, x, v.events, v.buffered)
  BY LiveOneField
<1>2. [v EXCEPT !.watermark = x, !.events = y] = [u EXCEPT !.events = y]
  OBVIOUS
<1> HIDE DEF u
<1>3. /\ u.status = v.status /\ u.streamId = v.streamId /\ u.watermark = x
      /\ u.buffered = v.buffered
      /\ u = Live(u.status, u.streamId, u.watermark, u.events, u.buffered)
  BY <1>1, LiveFields
<1>4. [u EXCEPT !.events = y] = Live(u.status, u.streamId, u.watermark, y, u.buffered)
  BY <1>3, LiveOneField
<1> QED
  BY <1>2, <1>3, <1>4

LEMMA ApplyEventIs ==
  ASSUME NEW v, v = Live(v.status, v.streamId, v.watermark, v.events, v.buffered), NEW m
  PROVE  ApplyEvent(v, m)
           = IF v.streamId # m.gen
             THEN Live("resynchronizing", v.streamId, v.watermark, v.events, <<m>>)
             ELSE IF m.seq <= v.watermark THEN v
             ELSE IF m.seq # v.watermark + 1
             THEN Live("resynchronizing", v.streamId, v.watermark, v.events, Append(v.buffered, m))
             ELSE Live(v.status, v.streamId, m.seq, Newest(Append(v.events, m), ClientLimit), v.buffered)
<1> DEFINE gap == "resynchronizing"
           first == <<m>>
           more == Append(v.buffered, m)
<1> HIDE DEF gap, first, more
<1>1. [v EXCEPT !.status = gap, !.buffered = first]
        = Live(gap, v.streamId, v.watermark, v.events, first)
  BY LiveStopped
<1>2. [v EXCEPT !.status = gap, !.buffered = more]
        = Live(gap, v.streamId, v.watermark, v.events, more)
  BY LiveStopped
<1>3. [v EXCEPT !.watermark = m.seq, !.events = Newest(Append(v.events, m), ClientLimit)]
        = Live(v.status, v.streamId, m.seq, Newest(Append(v.events, m), ClientLimit), v.buffered)
  BY LiveAdvanced
<1> QED
  BY <1>1, <1>2, <1>3, Zenon DEF ApplyEvent, gap, first, more

LEMMA ViewExtended ==
  ASSUME Limits, NEW g \in Nat, NEW w \in Nat, NEW e, View(g, w, e)
  PROVE  View(g, w + 1, Newest(Append(e, Note(g, w + 1)), ClientLimit))
<1>1. PICK n \in 0 .. w :
        /\ e = Log(g, w - n + 1, w)
        /\ n <= ClientLimit /\ (n = w \/ n >= HistoryLimit \/ n >= ClientLimit)
  BY DEF View
<1>2. ClientLimit \in Nat \ {0} /\ HistoryLimit \in Nat \ {0}
  BY DEF Limits
<1> DEFINE a == w - n + 1
           s == Newest(Log(g, a, w + 1), ClientLimit)
<1>3. a \in Nat /\ a <= w + 1 /\ a >= 1 /\ (w + 1) - a + 1 = n + 1 /\ w + 1 \in Nat /\ a <= (w + 1) + 1
  OBVIOUS
<1>4. Append(e, Note(g, w + 1)) = Log(g, a, w + 1)
  <2>1. e = Log(g, a, w)
    BY <1>1
  <2> HIDE DEF a
  <2>2. Append(Log(g, a, w), Note(g, w + 1)) = Log(g, a, w + 1)
    BY <1>3, LogAppended, w \in Int
  <2> QED
    BY <2>1, <2>2
<1> DEFINE m == IF n + 1 <= ClientLimit THEN n + 1 ELSE ClientLimit
<1>5. s = Log(g, (w + 1) - m + 1, w + 1)
  <2>1. s = IF (w + 1) - a + 1 <= ClientLimit THEN Log(g, a, w + 1)
                                              ELSE Log(g, (w + 1) - ClientLimit + 1, w + 1)
    <3> HIDE DEF a
    <3> QED
      BY <1>2, <1>3, LogTrimmed
  <2>2. (w + 1) - (n + 1) + 1 = a
    OBVIOUS
  <2> HIDE DEF a, s
  <2>3. CASE n + 1 <= ClientLimit
    BY <1>3, <2>1, <2>2, <2>3
  <2>4. CASE ~(n + 1 <= ClientLimit)
    BY <1>3, <2>1, <2>4
  <2> QED
    BY <2>3, <2>4
<1>6. /\ m \in 0 .. w + 1 /\ m <= ClientLimit
      /\ m = w + 1 \/ m >= HistoryLimit \/ m >= ClientLimit
  BY <1>1, <1>2
<1> HIDE DEF a, m, s
<1>7. View(g, w + 1, s)
  BY <1>5, <1>6 DEF View
<1> QED
  BY <1>4, <1>7 DEF s

\* A view has a generation and a watermark that were reached.
LEMMA ViewIs ==
  ASSUME NEW g, NEW p, World(g, p), NEW v, LiveOK(v, g, p), v.status = "live" \/ v.streamId # None
  PROVE  /\ v.streamId \in Generations /\ v.streamId \in Nat \ {0} /\ v.streamId \in 1 .. g
         /\ v.watermark \in Nat /\ p[v.streamId] \in Nat /\ v.watermark <= p[v.streamId]
         /\ View(v.streamId, v.watermark, v.events)
<1>1. /\ v.streamId \in 1 .. g /\ v.watermark \in 0 .. p[v.streamId]
      /\ View(v.streamId, v.watermark, v.events)
  BY Zenon DEF LiveOK
<1>2. g \in Nat /\ g <= MaxGeneration /\ MaxGeneration \in Nat
  BY DEF World, Limits, Generations
<1>3. v.streamId \in Generations /\ v.streamId \in Nat \ {0}
  BY <1>1, <1>2 DEF Generations
<1>4. p[v.streamId] \in Nat
  BY <1>3 DEF World
<1> QED
  BY <1>1, <1>3, <1>4

LEMMA ApplyEventKeeps ==
  ASSUME NEW g, NEW p, World(g, p), NEW v, LiveOK(v, g, p), v.status = "live",
         NEW m, Known(m, g, p), NEW x, x = ApplyEvent(v, m)
  PROVE  /\ LiveOK(x, g, p)
         /\ x.streamId = v.streamId /\ x.watermark >= v.watermark
         /\ x.status \in {"live", "resynchronizing"}
         /\ v.streamId = m.gen /\ m.seq <= v.watermark + 1 => x.status = "live" /\ m.seq <= x.watermark
<1>1. /\ v.streamId \in Generations /\ v.streamId \in Nat \ {0} /\ v.streamId \in 1 .. g
      /\ v.watermark \in Nat /\ p[v.streamId] \in Nat /\ v.watermark <= p[v.streamId]
      /\ View(v.streamId, v.watermark, v.events)
  BY ViewIs
<1>2. m \in Stamp /\ m = Note(m.gen, m.seq) /\ m.gen \in Nat /\ m.seq \in Nat
      /\ m.seq <= p[m.gen]
  BY KnownIs DEF Stamp, Known
<1>3. v = Live(v.status, v.streamId, v.watermark, v.events, v.buffered)
      /\ Messages(v.buffered, {}, g, p)
  BY DEF LiveOK
<1>4. ApplyEvent(v, m)
           = IF v.streamId # m.gen
             THEN Live("resynchronizing", v.streamId, v.watermark, v.events, <<m>>)
             ELSE IF m.seq <= v.watermark THEN v
             ELSE IF m.seq # v.watermark + 1
             THEN Live("resynchronizing", v.streamId, v.watermark, v.events, Append(v.buffered, m))
             ELSE Live(v.status, v.streamId, m.seq, Newest(Append(v.events, m), ClientLimit), v.buffered)
  BY <1>3, ApplyEventIs
<1>5. ASSUME NEW b, Messages(b, {}, g, p),
             x = Live("resynchronizing", v.streamId, v.watermark, v.events, b)
      PROVE  /\ LiveOK(x, g, p) /\ x.streamId = v.streamId /\ x.watermark = v.watermark
             /\ x.status = "resynchronizing"
  <2>1. /\ x.status = "resynchronizing" /\ x.streamId = v.streamId /\ x.watermark = v.watermark
        /\ x.events = v.events /\ x.buffered = b
        /\ x = Live(x.status, x.streamId, x.watermark, x.events, x.buffered)
    BY <1>5, LiveFields
  <2>2. v.watermark \in 0 .. p[v.streamId]
    BY <1>1
  <2> QED
    BY <1>1, <1>5, <2>1, <2>2 DEF LiveOK
<1>6. CASE v.streamId # m.gen
  <2>1. Messages(<<m>>, {}, g, p)
    BY MessagesOne
  <2>2. x = Live("resynchronizing", v.streamId, v.watermark, v.events, <<m>>)
    BY <1>4, <1>6
  <2> QED
    BY <1>1, <1>5, <1>6, <2>1, <2>2
<1>7. CASE v.streamId = m.gen /\ m.seq <= v.watermark
  BY <1>1, <1>4, <1>7
<1>8. CASE v.streamId = m.gen /\ ~(m.seq <= v.watermark) /\ m.seq # v.watermark + 1
  <2>1. Messages(Append(v.buffered, m), {}, g, p)
    BY <1>3, MessagesAppended
  <2>2. x = Live("resynchronizing", v.streamId, v.watermark, v.events, Append(v.buffered, m))
    BY <1>4, <1>8
  <2> QED
    BY <1>1, <1>2, <1>5, <1>8, <2>1, <2>2
<1>9. CASE v.streamId = m.gen /\ m.seq = v.watermark + 1
  <2> DEFINE e == Newest(Append(v.events, m), ClientLimit)
  <2>1. x = Live(v.status, v.streamId, m.seq, e, v.buffered)
    <3>1. ~(m.seq <= v.watermark)
      BY <1>1, <1>9
    <3> QED
      BY <1>4, <1>9, <3>1
  <2>2. View(v.streamId, m.seq, e)
    BY <1>1, <1>2, <1>9, ViewExtended DEF World
  <2> HIDE DEF e
  <2>3. /\ x.status = "live" /\ x.streamId = v.streamId /\ x.watermark = m.seq
        /\ x.events = e /\ x.buffered = v.buffered
        /\ x = Live(x.status, x.streamId, x.watermark, x.events, x.buffered)
    BY <2>1, LiveFields
  <2>4. m.seq \in 0 .. p[v.streamId] /\ m.seq >= v.watermark
    BY <1>1, <1>2, <1>9
  <2>5. LiveOK(x, g, p)
    BY <1>1, <1>3, <2>2, <2>3, <2>4 DEF LiveOK
  <2>6. m.seq <= m.seq
    BY <1>2
  <2> QED
    BY <2>3, <2>4, <2>5, <2>6
<1> QED
  BY <1>6, <1>7, <1>8, <1>9

LEMMA BufferEventKeeps ==
  ASSUME NEW g, NEW p, World(g, p), NEW v, LiveOK(v, g, p), v.status # "live",
         NEW m, Known(m, g, p), NEW x, x = BufferEvent(v, m)
  PROVE  /\ LiveOK(x, g, p)
         /\ x.status = v.status /\ x.streamId = v.streamId /\ x.watermark = v.watermark
         /\ Contains(x.buffered, m)
<1>1. v = Live(v.status, v.streamId, v.watermark, v.events, v.buffered)
      /\ Messages(v.buffered, {}, g, p)
  BY DEF LiveOK
<1>2. ClientLimit \in Nat \ {0}
  BY DEF World, Limits
<1>3. CASE Contains(v.buffered, m)
  BY <1>3 DEF BufferEvent
<1>4. CASE ~Contains(v.buffered, m)
  <2> DEFINE c == Append(v.buffered, m)
             b == Newest(c, ClientLimit)
  <2>1. x = [v EXCEPT !.buffered = b]
    BY <1>4 DEF BufferEvent
  <2>2. Messages(c, {}, g, p)
    BY <1>1, MessagesAppended
  <2>3. c # <<>> /\ c[Len(c)] = m
    <3>1. m \in Stamp /\ v.buffered \in Seq(Stamp)
      BY <1>1, KnownIs DEF Messages
    <3> QED
      BY <3>1, AppendProperties
  <2> HIDE DEF c
  <2>4. Messages(b, {}, g, p) /\ Contains(b, m)
    BY <1>2, <2>2, <2>3, MessagesTrimmed
  <2> HIDE DEF b
  <2>5. x = Live(v.status, v.streamId, v.watermark, v.events, b)
    BY <1>1, <2>1, LiveOneField
  <2>6. /\ x.status = v.status /\ x.streamId = v.streamId /\ x.watermark = v.watermark
        /\ x.events = v.events /\ x.buffered = b
        /\ x = Live(x.status, x.streamId, x.watermark, x.events, x.buffered)
    BY <2>5, LiveFields
  <2>7. v.streamId # None => /\ v.streamId \in 1 .. g /\ v.watermark \in 0 .. p[v.streamId]
                             /\ View(v.streamId, v.watermark, v.events)
    BY Zenon DEF LiveOK
  <2>8. LiveOK(x, g, p)
    BY <2>4, <2>6, <2>7 DEF LiveOK
  <2> QED
    BY <2>4, <2>6, <2>8
<1> QED
  BY <1>3, <1>4

\* Another status, other than live, changes nothing else.
LEMMA StatusChanged ==
  ASSUME NEW g, NEW p, NEW v, LiveOK(v, g, p), NEW status, status # "live",
         NEW x, x = [v EXCEPT !.status = status]
  PROVE  /\ LiveOK(x, g, p)
         /\ x.status = status /\ x.streamId = v.streamId /\ x.watermark = v.watermark
         /\ x.buffered = v.buffered
<1>1. v = Live(v.status, v.streamId, v.watermark, v.events, v.buffered)
  BY DEF LiveOK
<1>2. x = Live(status, v.streamId, v.watermark, v.events, v.buffered)
  BY <1>1, LiveOneField
<1>3. /\ x.status = status /\ x.streamId = v.streamId /\ x.watermark = v.watermark
      /\ x.events = v.events /\ x.buffered = v.buffered
      /\ x = Live(x.status, x.streamId, x.watermark, x.events, x.buffered)
  BY <1>2, LiveFields
<1> QED
  BY <1>3 DEF LiveOK

LEMMA LiveGrows ==
  ASSUME NEW g, NEW p, NEW h, NEW q, Grows(g, p, h, q), NEW v, LiveOK(v, g, p)
  PROVE  LiveOK(v, h, q)
<1>1. World(g, p) /\ Messages(v.buffered, {}, h, q)
  BY MessagesGrow DEF LiveOK, Grows
<1>2. ASSUME v.status = "live" \/ v.streamId # None
      PROVE  v.streamId \in 1 .. h /\ v.watermark \in 0 .. q[v.streamId]
  <2>1. /\ v.streamId \in Generations /\ v.streamId \in Nat \ {0} /\ v.streamId \in 1 .. g
        /\ v.watermark \in Nat /\ p[v.streamId] \in Nat /\ v.watermark <= p[v.streamId]
    BY <1>1, <1>2, ViewIs
  <2>2. g \in Nat /\ h \in Nat /\ g <= h
    BY DEF Grows, World, Limits, Generations
  <2>3. q[v.streamId] \in Nat /\ p[v.streamId] <= q[v.streamId]
    BY <2>1 DEF Grows, World
  <2> QED
    BY <2>1, <2>2, <2>3
<1> QED
  BY <1>1, <1>2 DEF LiveOK

LEMMA SnapshotGrows ==
  ASSUME NEW g, NEW p, NEW h, NEW q, Grows(g, p, h, q), NEW s, SnapshotOK(s, g, p)
  PROVE  SnapshotOK(s, h, q)
<1>1. g \in Nat /\ h \in Nat /\ g <= h /\ g <= MaxGeneration /\ MaxGeneration \in Nat
  BY DEF Grows, World, Limits, Generations
<1>2. s.gen \in 1 .. g /\ s.seq \in 0 .. p[s.gen]
  BY DEF SnapshotOK
<1>3. s.gen \in Generations /\ s.gen \in 1 .. h
  BY <1>1, <1>2 DEF Generations
<1>4. p[s.gen] \in Nat /\ q[s.gen] \in Nat /\ p[s.gen] <= q[s.gen]
  BY <1>3 DEF Grows, World
<1>5. s.seq \in 0 .. q[s.gen]
  BY <1>2, <1>4
<1> QED
  BY <1>3, <1>5 DEF SnapshotOK

LEMMA RequestsGrow ==
  ASSUME NEW g, NEW p, NEW h, NEW q, Grows(g, p, h, q), NEW rs, NEW t, NEW v,
         RequestsOK(rs, t, v, g, p)
  PROVE  RequestsOK(rs, t, v, h, q)
<1>1. \A s : SnapshotOK(s, g, p) => SnapshotOK(s, h, q)
  BY SnapshotGrows
<1> QED
  BY <1>1 DEF RequestsOK

\* A snapshot of the server is well formed and newer than any view.
LEMMA SnapshotIsNew ==
  ASSUME World(gen, published)
  PROVE  /\ SnapshotOK(Snapshot, gen, published) /\ Snapshot # Unanswered
         /\ Snapshot.gen = gen /\ Snapshot.seq = published[gen]
         /\ \A v : LiveOK(v, gen, published) => NotBehind(Snapshot, v)
<1>1. gen \in Generations /\ gen \in Nat \ {0} /\ published[gen] \in Nat
  BY DEF World, Limits, Generations
<1>2. /\ Snapshot.gen = gen /\ Snapshot.seq = published[gen]
      /\ Snapshot.events = Newest(Log(gen, 1, published[gen]), HistoryLimit)
  BY DEF Snapshot
<1>3. SnapshotOK(Snapshot, gen, published)
  BY <1>1, <1>2 DEF SnapshotOK
<1>4. Unanswered.gen = 0
  BY DEF Unanswered
<1>5. ASSUME NEW v, LiveOK(v, gen, published), v.streamId # None
      PROVE  v.streamId < gen \/ (v.streamId = gen /\ v.watermark <= published[gen])
  <2>1. /\ v.streamId \in Nat \ {0} /\ v.streamId \in 1 .. gen
        /\ v.watermark \in Nat /\ v.watermark <= published[v.streamId]
    BY <1>5, ViewIs
  <2> QED
    BY <1>1, <2>1
<1> QED
  BY <1>1, <1>2, <1>3, <1>4, <1>5 DEF NotBehind

-----------------------------------------------------------------------------
(* A bootstrap.                                                            *)

LEMMA LeastOf ==
  ASSUME NEW S \in SUBSET Nat, S # {}
  PROVE  Min(S) \in S /\ \A y \in S : Min(S) <= y
<1>1. \E x \in S : \A y \in S : ~ (<<y, x>> \in OpToRel(<, Nat))
  BY NatLessThanWellFounded, WFMin
<1>2. PICK x \in S : \A y \in S : ~ (<<y, x>> \in OpToRel(<, Nat))
  BY <1>1
<1>3. x \in Nat /\ \A y \in S : y \in Nat
  OBVIOUS
<1>4. \A y \in S : ~(y < x)
  BY <1>2, <1>3 DEF OpToRel
<1>5. \A y \in S : x <= y
  BY <1>3, <1>4
<1> QED
  BY <1>5 DEF Min

\* The numbers beyond n follow each other up to one whose successor is missing.
LEMMA StretchEnds ==
  ASSUME NEW n \in Nat, NEW top \in Nat, NEW newer \in SUBSET (n + 1 .. top)
  PROVE  LET gaps == {i \in newer \cup {n} : i + 1 \notin newer}
         IN Min(gaps) \in gaps /\ Min(gaps) \in Nat
<1> DEFINE gaps == {i \in newer \cup {n} : i + 1 \notin newer}
           S == {i \in Nat : n <= i /\ i + 1 \notin newer}
<1>1. S # {}
  <2>1. CASE n <= top
    <3>1. top + 1 \notin newer
      OBVIOUS
    <3> QED
      BY <2>1, <3>1
  <2>2. CASE ~(n <= top)
    <3>1. n + 1 \notin newer
      BY <2>2
    <3> QED
      BY <3>1
  <2> QED
    BY <2>1, <2>2
<1>2. Min(S) \in S /\ \A y \in S : Min(S) <= y
  BY <1>1, LeastOf
<1> DEFINE m == Min(S)
<1>3. m \in Nat /\ n <= m /\ m + 1 \notin newer /\ \A y \in S : m <= y
  BY <1>2
<1> HIDE DEF m
<1>4. m = n \/ m \in newer
  <2> SUFFICES ASSUME m # n, m \notin newer PROVE FALSE
    OBVIOUS
  <2>1. m - 1 \in Nat /\ n <= m - 1 /\ (m - 1) + 1 \notin newer
    BY <1>3
  <2>2. m <= m - 1
    BY <1>3, <2>1
  <2> QED
    BY <1>3, <2>2
<1>5. m \in gaps
  BY <1>3, <1>4
<1>6. gaps \in SUBSET Nat
  <2>1. \A i \in newer : i \in Nat
    OBVIOUS
  <2> QED
    BY <2>1
<1> HIDE DEF gaps
<1>7. Min(gaps) \in gaps
  BY <1>5, <1>6, LeastOf
<1> QED
  BY <1>6, <1>7 DEF gaps

LEMMA BootstrapView ==
  ASSUME Limits, NEW g \in Nat, NEW n \in Nat, NEW r \in Nat, n <= r
  PROVE  View(g, r, Newest(Newest(Log(g, 1, n), HistoryLimit) \o Log(g, n + 1, r), ClientLimit))
<1>1. ClientLimit \in Nat \ {0} /\ HistoryLimit \in Nat \ {0}
  BY DEF Limits
<1> DEFINE h == IF n <= HistoryLimit THEN n ELSE HistoryLimit
           a == n - h + 1
           retained == Newest(Log(g, 1, n), HistoryLimit)
<1>2. /\ h \in 0 .. n /\ h <= HistoryLimit /\ (h = n \/ h = HistoryLimit)
      /\ a \in Nat /\ a >= 1 /\ a <= n + 1 /\ a <= r + 1 /\ r - a + 1 = h + (r - n)
  BY <1>1
<1>3. retained = Log(g, a, n)
  <2>1. retained = IF n - 1 + 1 <= HistoryLimit THEN Log(g, 1, n) ELSE Log(g, n - HistoryLimit + 1, n)
    BY <1>1, LogTrimmed, 1 <= n + 1
  <2>2. n - 1 + 1 = n /\ n - n + 1 = 1
    OBVIOUS
  <2> QED
    BY <2>1, <2>2
<1> HIDE DEF a, h, retained
<1>4. retained \o Log(g, n + 1, r) = Log(g, a, r)
  BY <1>2, <1>3, LogJoined
<1> DEFINE m == IF r - a + 1 <= ClientLimit THEN r - a + 1 ELSE ClientLimit
           s == Newest(Log(g, a, r), ClientLimit)
<1>5. s = IF r - a + 1 <= ClientLimit THEN Log(g, a, r) ELSE Log(g, r - ClientLimit + 1, r)
  BY <1>1, <1>2, LogTrimmed
<1>6. r - (r - a + 1) + 1 = a
  BY <1>2
<1> HIDE DEF s
<1>7. s = Log(g, r - m + 1, r)
  <2>1. CASE r - a + 1 <= ClientLimit
    <3>1. m = r - a + 1
      BY <2>1
    <3>2. r - m + 1 = a
      BY <1>6, <3>1
    <3> QED
      BY <1>5, <2>1, <3>2
  <2>2. CASE ~(r - a + 1 <= ClientLimit)
    BY <1>5, <2>2
  <2> QED
    BY <2>1, <2>2
<1>8. m \in 0 .. r /\ m <= ClientLimit /\ (m = r \/ m >= HistoryLimit \/ m >= ClientLimit)
  BY <1>1, <1>2
<1> HIDE DEF m
<1>9. View(g, r, s)
  BY <1>7, <1>8 DEF View
<1> QED
  BY <1>4, <1>9 DEF s, retained

LEMMA BootstrapApplied ==
  ASSUME NEW g, NEW p, World(g, p), NEW v, LiveOK(v, g, p), NEW s, SnapshotOK(s, g, p),
         NEW x, x = ApplyBootstrap(v, s)
  PROVE  /\ LiveOK(x, g, p)
         /\ x.streamId = s.gen /\ s.seq \in Nat /\ x.watermark \in Nat /\ x.watermark >= s.seq
         /\ x.status = "live" =>
              \A n \in Nat : Contains(v.buffered, Note(s.gen, n)) => n <= x.watermark
<1> DEFINE newer   == {e.seq : e \in {f \in Range(v.buffered) : /\ f.gen = s.gen
                                                               /\ f.seq > s.seq}}
           gaps    == {n \in newer \cup {s.seq} : n + 1 \notin newer}
           reached == Min(gaps)
           late    == {n \in newer : n > reached}
           shown   == Newest(s.events \o Log(s.gen, s.seq + 1, reached), ClientLimit)
           applied == Live("live", s.gen, reached, shown, <<>>)
           next    == Note(s.gen, Min(late))
<1>1. x = IF late = {} THEN applied ELSE ApplyEvent(applied, next)
  BY Zenon DEF ApplyBootstrap, Live, Note
<1>2. /\ s.gen \in 1 .. g /\ s.gen \in Nat /\ s.gen \in Generations /\ s.seq \in Nat
      /\ p[s.gen] \in Nat /\ s.seq <= p[s.gen]
      /\ s.events = Newest(Log(s.gen, 1, s.seq), HistoryLimit)
  <2>1. s.gen \in 1 .. g /\ s.seq \in 0 .. p[s.gen]
        /\ s.events = Newest(Log(s.gen, 1, s.seq), HistoryLimit)
    BY DEF SnapshotOK
  <2>2. s.gen \in Nat /\ s.gen \in Generations
    BY <2>1 DEF World, Limits, Generations
  <2>3. p[s.gen] \in Nat
    BY <2>2 DEF World
  <2> QED
    BY <2>1, <2>2, <2>3
<1>3. v.buffered \in Seq(Stamp) /\ \A i \in 1 .. Len(v.buffered) : Known(v.buffered[i], g, p)
  BY DEF LiveOK, Messages
<1>4. Range(v.buffered) = {v.buffered[i] : i \in 1 .. Len(v.buffered)}
  BY <1>3, RangeEquality DEF Range
<1>5. \A e \in Range(v.buffered) :
        Known(e, g, p) /\ (e.gen = s.gen => e.seq \in Nat /\ e.seq <= p[s.gen])
  <2>1. \A e \in Range(v.buffered) : Known(e, g, p)
    BY <1>3, <1>4
  <2> QED
    BY <1>2, <2>1 DEF Known
<1>6. newer \in SUBSET (s.seq + 1 .. p[s.gen])
  BY <1>2, <1>5
<1>7. \A n \in newer : Known(Note(s.gen, n), g, p)
  <2> SUFFICES ASSUME NEW n \in newer PROVE Known(Note(s.gen, n), g, p)
    OBVIOUS
  <2>1. PICK e \in Range(v.buffered) : e.gen = s.gen /\ n = e.seq
    OBVIOUS
  <2> HIDE DEF newer
  <2>2. Known(e, g, p) /\ e = Note(e.gen, e.seq)
    BY <1>5, <2>1 DEF Known
  <2> QED
    BY <2>1, <2>2
<1>8. \A n \in Nat : n > s.seq /\ Contains(v.buffered, Note(s.gen, n)) => n \in newer
  <2> SUFFICES ASSUME NEW n \in Nat, n > s.seq, Contains(v.buffered, Note(s.gen, n))
               PROVE  n \in newer
    OBVIOUS
  <2>1. Note(s.gen, n) \in Range(v.buffered)
    BY <1>4 DEF Contains
  <2>2. Note(s.gen, n).gen = s.gen /\ Note(s.gen, n).seq = n
    BY DEF Note
  <2> QED
    BY <2>1, <2>2
<1> HIDE DEF newer
<1>9. reached \in gaps /\ reached \in Nat
  BY <1>2, <1>6, StretchEnds
<1> HIDE DEF reached
<1>10. reached + 1 \notin newer /\ s.seq <= reached /\ reached <= p[s.gen]
  BY <1>2, <1>6, <1>9
<1>11. View(s.gen, reached, shown)
  <2>1. Limits
    BY DEF World
  <2> QED
    BY <1>2, <1>9, <1>10, <2>1, BootstrapView
<1> HIDE DEF shown
<1>12. /\ applied.status = "live" /\ applied.streamId = s.gen /\ applied.watermark = reached
       /\ applied.events = shown /\ applied.buffered = <<>>
       /\ applied = Live(applied.status, applied.streamId, applied.watermark, applied.events,
                         applied.buffered)
  BY LiveFields
<1> HIDE DEF applied
<1>13. LiveOK(applied, g, p)
  <2>1. Messages(<<>>, {}, g, p)
    BY MessagesNone
  <2>2. reached \in 0 .. p[s.gen]
    BY <1>2, <1>9, <1>10
  <2> QED
    BY <1>2, <1>11, <1>12, <2>1, <2>2 DEF LiveOK
<1>14. CASE late = {}
  <2>1. x = applied
    BY <1>1, <1>14
  <2>2. \A n \in Nat : n > reached => n \notin newer
    BY <1>14
  <2>3. \A n \in Nat : Contains(v.buffered, Note(s.gen, n)) => n <= reached
    <3> SUFFICES ASSUME NEW n \in Nat, Contains(v.buffered, Note(s.gen, n)), n > reached
                 PROVE  FALSE
      BY <1>9
    <3>1. n > s.seq
      BY <1>2, <1>9, <1>10
    <3> QED
      BY <1>8, <2>2, <3>1
  <2> QED
    BY <1>2, <1>9, <1>10, <1>12, <1>13, <2>1, <2>3
<1>15. CASE late # {}
  <2>1. late \in SUBSET Nat
    <3>1. \A n \in newer : n \in Nat
      BY <1>2, <1>6
    <3> QED
      BY <3>1
  <2>2. Min(late) \in late
    BY <1>15, <2>1, LeastOf
  <2>3. Min(late) \in newer /\ Min(late) \in Nat /\ Min(late) > reached
    BY <2>1, <2>2
  <2>4. next.gen = s.gen /\ next.seq = Min(late) /\ Known(next, g, p)
    BY <1>7, <2>3 DEF Note
  <2>5. next.seq # reached + 1 /\ ~(next.seq <= reached)
    BY <1>9, <1>10, <2>3, <2>4
  <2> HIDE DEF next, late
  <2>6. x = ApplyEvent(applied, next)
    BY <1>1, <1>15
  <2>7. LiveOK(x, g, p)
    BY <1>12, <1>13, <2>4, <2>6, ApplyEventKeeps
  <2>8. x = Live("resynchronizing", s.gen, reached, shown, Append(<<>>, next))
    BY <1>12, <2>4, <2>5, <2>6, ApplyEventIs
  <2>9. x.status = "resynchronizing" /\ x.streamId = s.gen /\ x.watermark = reached
    BY <2>8, LiveFields
  <2> QED
    BY <1>2, <1>9, <1>10, <2>7, <2>9
<1> QED
  BY <1>14, <1>15

-----------------------------------------------------------------------------
(* Requests.                                                               *)

LEMMA RequestsFewer ==
  ASSUME NEW rs, NEW t, NEW v, NEW g, NEW p, RequestsOK(rs, t, v, g, p), NEW qs \in SUBSET rs
  PROVE  RequestsOK(qs, t, v, g, p)
BY DEF RequestsOK

\* Nothing to say of the view when no answer to the current ticket can come.
LEMMA RequestsOutdated ==
  ASSUME NEW rs, NEW t, NEW v, NEW g, NEW p, RequestsOK(rs, t, v, g, p), NEW w,
         \A r \in rs : r.ticket # t
  PROVE  RequestsOK(rs, t, w, g, p)
BY DEF RequestsOK

LEMMA RequestsSameView ==
  ASSUME NEW rs, NEW t, NEW v, NEW g, NEW p, RequestsOK(rs, t, v, g, p),
         NEW w, w.status # "live", w.streamId = v.streamId, w.watermark = v.watermark
  PROVE  RequestsOK(rs, t, w, g, p)
<1>1. \A a : NotBehind(a, v) => NotBehind(a, w)
  BY DEF NotBehind
<1> QED
  BY <1>1 DEF RequestsOK

LEMMA RequestsLive ==
  ASSUME NEW rs, NEW t, NEW v, NEW g, NEW p, RequestsOK(rs, t, v, g, p), v.status = "live", NEW w
  PROVE  RequestsOK(rs, t, w, g, p) /\ \A r \in rs : r.ticket # t
BY DEF RequestsOK

LEMMA RequestsNew ==
  ASSUME NEW rs, NEW t, NEW v, NEW g, NEW p, RequestsOK(rs, t, v, g, p),
         NEW w, w.status # "live", NEW q, q = [ticket |-> t + 1, answer |-> Unanswered]
  PROVE  RequestsOK(rs \cup {q}, t + 1, w, g, p)
<1>1. q.ticket = t + 1 /\ q.answer = Unanswered /\ q = [ticket |-> q.ticket, answer |-> q.answer]
  OBVIOUS
<1>2. t \in Nat /\ t + 1 \in Nat /\ t + 1 \in 1 .. t + 1
  BY DEF RequestsOK
<1>3. \A r \in rs : r.ticket \in 1 .. t + 1 /\ r.ticket # t + 1
  BY <1>2 DEF RequestsOK
<1> HIDE DEF Unanswered
<1>4. \A r \in rs \cup {q} :
        /\ r = [ticket |-> r.ticket, answer |-> r.answer]
        /\ r.ticket \in 1 .. t + 1
        /\ r.answer = Unanswered \/ SnapshotOK(r.answer, g, p)
  BY <1>1, <1>2, <1>3 DEF RequestsOK
<1>5. \A r, o \in rs \cup {q} : r.ticket = o.ticket => r = o
  BY <1>1, <1>3 DEF RequestsOK
<1>6. \A r \in rs \cup {q} : r.ticket = t + 1 => r = q
  BY <1>3
<1> QED
  BY <1>1, <1>2, <1>4, <1>5, <1>6 DEF RequestsOK

LEMMA RequestsAnswered ==
  ASSUME NEW rs, NEW t, NEW v, NEW g, NEW p, RequestsOK(rs, t, v, g, p),
         NEW r \in rs, NEW a, SnapshotOK(a, g, p), NotBehind(a, v),
         NEW qs, qs = (rs \ {r}) \cup {[r EXCEPT !.answer = a]}
  PROVE  RequestsOK(qs, t, v, g, p)
<1> DEFINE q == [r EXCEPT !.answer = a]
<1>1. r = [ticket |-> r.ticket, answer |-> r.answer] /\ r.ticket \in 1 .. t
  BY DEF RequestsOK
<1>2. q = [ticket |-> r.ticket, answer |-> a]
  BY <1>1
<1>3. q.ticket = r.ticket /\ q.answer = a /\ q = [ticket |-> q.ticket, answer |-> q.answer]
  BY <1>2
<1>4. \A o \in qs : o \in rs \ {r} \/ o = q
  OBVIOUS
<1> HIDE DEF q
<1>5. \A o \in qs : /\ o = [ticket |-> o.ticket, answer |-> o.answer]
                    /\ o.ticket \in 1 .. t
                    /\ o.answer = Unanswered \/ SnapshotOK(o.answer, g, p)
  BY <1>1, <1>3, <1>4 DEF RequestsOK
<1>6. \A o, u \in qs : o.ticket = u.ticket => o = u
  BY <1>3, <1>4 DEF RequestsOK
<1>7. \A o \in qs : o.ticket = t => /\ v.status # "live"
                                    /\ o.answer # Unanswered => NotBehind(o.answer, v)
  BY <1>3, <1>4 DEF RequestsOK
<1> QED
  BY <1>5, <1>6, <1>7 DEF RequestsOK

-----------------------------------------------------------------------------
(* Every action keeps StreamInv, and none takes the view back.             *)

Forward(v, w) ==
  v.streamId # None => \/ w.streamId > v.streamId
                       \/ w.streamId = v.streamId /\ w.watermark >= v.watermark

LEMMA ForwardSame ==
  ASSUME World(gen, published), NEW v, LiveOK(v, gen, published),
         NEW w, w.streamId = v.streamId, w.watermark = v.watermark
  PROVE  Forward(v, w)
<1>1. v.streamId # None => v.watermark \in Nat
  BY ViewIs
<1> QED
  BY <1>1 DEF Forward

LEMMA StreamParts ==
  ASSUME StreamInv, UNCHANGED <<gen, published>>,
         Messages(calls', {}, gen, published),
         Messages(queue', {Lagged}, gen, published),
         Messages(wire', {Open, Lagged}, gen, published),
         LiveOK(live', gen, published),
         RequestsOK(requests', gate', live', gen, published)
  PROVE  StreamInv'
BY DEF StreamInv

LEMMA PublishKeeps ==
  ASSUME StreamInv, Publish
  PROVE  StreamInv' /\ Forward(live, live')
<1>1. gen \in Generations /\ gen \in Nat \ {0} /\ published[gen] \in Nat /\ World(gen, published)
  BY DEF StreamInv, World, Limits, Generations
<1> DEFINE q == published'
<1>2. /\ q = [published EXCEPT ![gen] = @ + 1]
      /\ UNCHANGED <<gen, queue, wire, gate, requests, live>>
      /\ calls' = IF session = "subscribed" THEN Append(calls, Note(gen, q[gen])) ELSE calls
  BY DEF Publish, browser, Note
<1> HIDE DEF q
<1>3. q \in [Generations -> Nat] /\ q[gen] = published[gen] + 1
      /\ \A i \in Generations : published[i] <= q[i]
  BY <1>1, <1>2 DEF World
<1>4. World(gen, q) /\ Grows(gen, published, gen, q)
  BY <1>1, <1>3 DEF World, Grows
<1>5. /\ Messages(calls, {}, gen, q) /\ Messages(queue, {Lagged}, gen, q)
      /\ Messages(wire, {Open, Lagged}, gen, q)
  BY <1>4, MessagesGrow DEF StreamInv
<1>6. Known(Note(gen, q[gen]), gen, q)
  BY <1>1, <1>3 DEF Known, Note
<1>7. Messages(calls', {}, gen, q)
  <2>1. Messages(Append(calls, Note(gen, q[gen])), {}, gen, q)
    BY <1>4, <1>5, <1>6, MessagesAppended
  <2> QED
    BY <1>2, <1>5, <2>1
<1>8. LiveOK(live, gen, q) /\ RequestsOK(requests, gate, live, gen, q)
  BY <1>4, LiveGrows, RequestsGrow DEF StreamInv
<1>9. StreamInv'
  BY <1>2, <1>4, <1>5, <1>7, <1>8 DEF StreamInv, q
<1>10. Forward(live, live')
  BY <1>1, <1>2, ForwardSame DEF StreamInv
<1> QED
  BY <1>9, <1>10

LEMMA LoseConnectionKeeps ==
  ASSUME NEW g, NEW p, LoseConnection
  PROVE  /\ Messages(calls', {}, g, p) /\ Messages(queue', {Lagged}, g, p)
         /\ Messages(wire', {Open, Lagged}, g, p)
BY MessagesNone DEF LoseConnection

LEMMA RestartKeeps ==
  ASSUME StreamInv, Restart
  PROVE  StreamInv' /\ Forward(live, live')
<1>1. World(gen, published) /\ gen \in Nat \ {0} /\ gen <= MaxGeneration /\ MaxGeneration \in Nat
  BY DEF StreamInv, World, Limits, Generations
<1>2. gen < MaxGeneration /\ gen' = gen + 1 /\ UNCHANGED <<published, gate, requests, live>>
  BY DEF Restart, browser
<1>3. gen' \in Generations /\ gen <= gen'
  BY <1>1, <1>2 DEF Generations
<1>4. World(gen', published) /\ Grows(gen, published, gen', published)
  BY <1>1, <1>3 DEF World, Grows
<1>5. LiveOK(live, gen', published) /\ RequestsOK(requests, gate, live, gen', published)
  BY <1>4, LiveGrows, RequestsGrow DEF StreamInv
<1>6. /\ Messages(calls', {}, gen', published) /\ Messages(queue', {Lagged}, gen', published)
      /\ Messages(wire', {Open, Lagged}, gen', published)
  BY LoseConnectionKeeps DEF Restart
<1>7. StreamInv'
  BY <1>2, <1>4, <1>5, <1>6 DEF StreamInv
<1>8. Forward(live, live')
  BY <1>1, <1>2, ForwardSame DEF StreamInv
<1> QED
  BY <1>7, <1>8

\* The actions that leave the browser's state alone.
LEMMA PipeKeeps ==
  ASSUME StreamInv, UNCHANGED <<gen, published, gate, requests, live>>,
         Messages(calls', {}, gen, published),
         Messages(queue', {Lagged}, gen, published),
         Messages(wire', {Open, Lagged}, gen, published)
  PROVE  StreamInv' /\ Forward(live, live')
<1>1. LiveOK(live', gen, published) /\ RequestsOK(requests', gate', live', gen, published)
  BY DEF StreamInv
<1>2. StreamInv'
  BY <1>1, StreamParts
<1>3. Forward(live, live')
  BY ForwardSame DEF StreamInv
<1> QED
  BY <1>2, <1>3

LEMMA RunCallbackKeeps ==
  ASSUME StreamInv, RunCallback
  PROVE  StreamInv' /\ Forward(live, live')
<1>1. /\ World(gen, published) /\ Messages(calls, {}, gen, published)
      /\ Messages(queue, {Lagged}, gen, published) /\ Messages(wire, {Open, Lagged}, gen, published)
  BY DEF StreamInv
<1>2. /\ calls # <<>> /\ calls' = Tail(calls)
      /\ queue' = IF Len(queue) >= QueueLimit THEN <<Lagged>> ELSE Append(queue, Head(calls))
      /\ UNCHANGED <<gen, published, gate, requests, live, wire>>
  BY DEF RunCallback, server, browser
<1>3. Known(Head(calls), gen, published) /\ Messages(Tail(calls), {}, gen, published)
  BY <1>1, <1>2, MessagesTaken
<1>4. {Lagged} \in SUBSET Stamp
  BY MarksAre
<1>5. Messages(Append(queue, Head(calls)), {Lagged}, gen, published)
  BY <1>1, <1>3, <1>4, MessagesAppended
<1>6. Messages(<<Lagged>>, {Lagged}, gen, published)
  BY <1>1, <1>4, MessagesOne
<1> QED
  BY <1>1, <1>2, <1>3, <1>5, <1>6, PipeKeeps

LEMMA SendNextKeeps ==
  ASSUME StreamInv, SendNext
  PROVE  StreamInv' /\ Forward(live, live')
<1>1. /\ World(gen, published) /\ Messages(calls, {}, gen, published)
      /\ Messages(queue, {Lagged}, gen, published) /\ Messages(wire, {Open, Lagged}, gen, published)
  BY DEF StreamInv
<1>2. /\ queue # <<>> /\ wire' = Append(wire, Head(queue))
      /\ \/ calls' = <<>> /\ queue' = <<>>
         \/ queue' = Tail(queue) /\ calls' = calls
      /\ UNCHANGED <<gen, published, gate, requests, live>>
  BY DEF SendNext, server, browser
<1>3. {Lagged} \in SUBSET Stamp /\ {Open, Lagged} \in SUBSET Stamp
  BY MarksAre
<1>4. Head(queue) \in {Lagged} \/ Known(Head(queue), gen, published)
  BY <1>1, <1>2, <1>3, MessagesTaken
<1>5. Messages(Tail(queue), {Lagged}, gen, published)
  BY <1>1, <1>2, <1>3, MessagesTaken
<1>6. Head(queue) \in {Open, Lagged} \/ Known(Head(queue), gen, published)
  BY <1>4
<1>7. Messages(wire', {Open, Lagged}, gen, published)
  BY <1>1, <1>2, <1>3, <1>6, MessagesAppended
<1>8. Messages(calls', {}, gen, published) /\ Messages(queue', {Lagged}, gen, published)
  BY <1>1, <1>2, <1>5, MessagesNone
<1> QED
  BY <1>2, <1>7, <1>8, PipeKeeps

LEMMA ConnectKeeps ==
  ASSUME StreamInv, Connect
  PROVE  StreamInv' /\ Forward(live, live')
<1>1. /\ World(gen, published) /\ Messages(calls, {}, gen, published)
      /\ Messages(queue, {Lagged}, gen, published)
  BY DEF StreamInv
<1>2. wire' = <<Open>> /\ UNCHANGED <<gen, published, gate, requests, live, calls, queue>>
  BY DEF Connect, server, browser
<1>3. {Open, Lagged} \in SUBSET Stamp
  BY MarksAre
<1>4. Messages(<<Open>>, {Open, Lagged}, gen, published)
  BY <1>1, <1>3, MessagesOne
<1> QED
  BY <1>1, <1>2, <1>4, PipeKeeps

LEMMA DropKeeps ==
  ASSUME StreamInv, Drop
  PROVE  StreamInv' /\ Forward(live, live')
<1>1. UNCHANGED <<gen, published, gate, requests, live>>
  BY DEF Drop, server, browser
<1>2. /\ Messages(calls', {}, gen, published) /\ Messages(queue', {Lagged}, gen, published)
      /\ Messages(wire', {Open, Lagged}, gen, published)
  BY LoseConnectionKeeps DEF Drop
<1> QED
  BY <1>1, <1>2, PipeKeeps

LEMMA ServeBootstrapKeeps ==
  ASSUME StreamInv, NEW r, ServeBootstrap(r)
  PROVE  StreamInv' /\ Forward(live, live')
<1>1. /\ World(gen, published) /\ LiveOK(live, gen, published)
      /\ RequestsOK(requests, gate, live, gen, published)
      /\ Messages(calls, {}, gen, published) /\ Messages(queue, {Lagged}, gen, published)
      /\ Messages(wire, {Open, Lagged}, gen, published)
  BY DEF StreamInv
<1>2. /\ r \in requests /\ requests' = (requests \ {r}) \cup {[r EXCEPT !.answer = Snapshot]}
      /\ UNCHANGED <<gen, published, calls, queue, wire, gate, live>>
  BY DEF ServeBootstrap, server, pipe
<1>3. SnapshotOK(Snapshot, gen, published) /\ NotBehind(Snapshot, live)
  BY <1>1, SnapshotIsNew
<1>4. RequestsOK(requests', gate, live, gen, published)
  BY <1>1, <1>2, <1>3, RequestsAnswered
<1>5. StreamInv'
  BY <1>1, <1>2, <1>4, StreamParts
<1>6. Forward(live, live')
  BY <1>1, <1>2, ForwardSame
<1> QED
  BY <1>5, <1>6

-----------------------------------------------------------------------------
(* The browser's actions.                                                  *)

\* A new ticket, from a state v that went on from live.
LEMMA ResyncKeeps ==
  ASSUME StreamInv, NEW v, LiveOK(v, gen, published), NEW initial, Resync(v, initial)
  PROVE  /\ LiveOK(live', gen, published)
         /\ RequestsOK(requests', gate', live', gen, published)
         /\ live'.streamId = v.streamId /\ live'.watermark = v.watermark
         /\ live'.status # "live" /\ live'.status \in {"bootstrapping", "resynchronizing"}
         /\ \A r \in requests' : r.ticket = gate' => r.answer = Unanswered
<1>1. RequestsOK(requests, gate, live, gen, published)
  BY DEF StreamInv
<1> DEFINE status == IF initial THEN "bootstrapping" ELSE "resynchronizing"
           q == [ticket |-> gate + 1, answer |-> Unanswered]
<1>2. /\ live' = [v EXCEPT !.status = status]
      /\ gate' = gate + 1 /\ requests' = requests \cup {q}
  BY DEF Resync, BeginResync
<1>3. status # "live" /\ status \in {"bootstrapping", "resynchronizing"}
  OBVIOUS
<1>4. q.ticket = gate + 1 /\ q.answer = Unanswered /\ q = [ticket |-> gate + 1, answer |-> Unanswered]
  OBVIOUS
<1> HIDE DEF status, q
<1>5. /\ LiveOK(live', gen, published) /\ live'.status = status
      /\ live'.streamId = v.streamId /\ live'.watermark = v.watermark
  BY <1>2, <1>3, StatusChanged
<1>6. RequestsOK(requests', gate', live', gen, published)
  BY <1>1, <1>2, <1>3, <1>4, <1>5, RequestsNew
<1>7. \A r \in requests : r.ticket # gate + 1
  BY <1>1 DEF RequestsOK
<1> QED
  BY <1>2, <1>3, <1>4, <1>5, <1>6, <1>7

LEMMA OnOpenKeeps ==
  ASSUME StreamInv, OnOpen
  PROVE  StreamInv' /\ Forward(live, live')
<1>1. /\ World(gen, published) /\ LiveOK(live, gen, published)
      /\ Messages(calls, {}, gen, published) /\ Messages(queue, {Lagged}, gen, published)
      /\ Messages(wire, {Open, Lagged}, gen, published)
  BY DEF StreamInv
<1>2. /\ wire # <<>> /\ wire' = Tail(wire) /\ Resync(live, ~known)
      /\ UNCHANGED <<gen, published, calls, queue>>
  BY DEF OnOpen, server, pipe
<1>3. {Open, Lagged} \in SUBSET Stamp
  BY MarksAre
<1>4. Messages(wire', {Open, Lagged}, gen, published)
  BY <1>1, <1>2, <1>3, MessagesTaken
<1>5. /\ LiveOK(live', gen, published) /\ RequestsOK(requests', gate', live', gen, published)
      /\ live'.streamId = live.streamId /\ live'.watermark = live.watermark
  BY <1>1, <1>2, ResyncKeeps
<1>6. StreamInv'
  BY <1>1, <1>2, <1>4, <1>5, StreamParts
<1>7. Forward(live, live')
  BY <1>1, <1>5, ForwardSame
<1> QED
  BY <1>6, <1>7

\* The event at the head of the wire.
LEMMA HeadIsKnown ==
  ASSUME StreamInv, wire # <<>>
  PROVE  /\ Messages(Tail(wire), {Open, Lagged}, gen, published)
         /\ Head(wire) \in Event => Known(Head(wire), gen, published)
<1>1. World(gen, published) /\ Messages(wire, {Open, Lagged}, gen, published)
  BY DEF StreamInv
<1>2. {Open, Lagged} \in SUBSET Stamp /\ Open.gen = 0 /\ Lagged.gen = 0
  BY MarksAre
<1>3. /\ Messages(Tail(wire), {Open, Lagged}, gen, published)
      /\ Head(wire) \in {Open, Lagged} \/ Known(Head(wire), gen, published)
  BY <1>1, <1>2, MessagesTaken
<1>4. \A m \in Event : m.gen # 0
  BY <1>1 DEF Event, Generations, World, Limits
<1> QED
  BY <1>2, <1>3, <1>4

LEMMA OnEventKeeps ==
  ASSUME StreamInv, OnEvent
  PROVE  StreamInv' /\ Forward(live, live')
<1>1. /\ World(gen, published) /\ LiveOK(live, gen, published)
      /\ RequestsOK(requests, gate, live, gen, published)
      /\ Messages(calls, {}, gen, published) /\ Messages(queue, {Lagged}, gen, published)
  BY DEF StreamInv
<1> DEFINE m == Head(wire)
           next == BufferEvent(live, m)
<1>2. /\ wire # <<>> /\ m \in Event /\ wire' = Tail(wire)
      /\ UNCHANGED <<gen, published, calls, queue>>
      /\ IF live.status = "live" /\ next.status = "resynchronizing"
         THEN Resync(next, FALSE)
         ELSE live' = next /\ UNCHANGED <<gate, requests>>
  BY DEF OnEvent, server, pipe
<1>3. Messages(wire', {Open, Lagged}, gen, published) /\ Known(m, gen, published)
  BY <1>2, HeadIsKnown
<1> HIDE DEF m
<1>4. /\ LiveOK(next, gen, published) /\ next.streamId = live.streamId
      /\ Forward(live, next)
      /\ live.status = "live" => next.status \in {"live", "resynchronizing"}
      /\ live.status # "live" => next.status = live.status /\ next.watermark = live.watermark
  <2>1. CASE live.status = "live"
    <3>1. next = ApplyEvent(live, m)
      BY <2>1 DEF BufferEvent
    <3> HIDE DEF next
    <3>2. /\ LiveOK(next, gen, published) /\ next.streamId = live.streamId
          /\ next.watermark >= live.watermark /\ next.status \in {"live", "resynchronizing"}
      BY <1>1, <1>3, <2>1, <3>1, ApplyEventKeeps
    <3> QED
      BY <2>1, <3>2 DEF Forward
  <2>2. CASE live.status # "live"
    <3>1. next = BufferEvent(live, m)
      OBVIOUS
    <3> HIDE DEF next
    <3>2. /\ LiveOK(next, gen, published) /\ next.status = live.status
          /\ next.streamId = live.streamId /\ next.watermark = live.watermark
      BY <1>1, <1>3, <2>2, <3>1, BufferEventKeeps
    <3>3. Forward(live, next)
      BY <1>1, <3>2, ForwardSame
    <3> QED
      BY <2>2, <3>2, <3>3
  <2> QED
    BY <2>1, <2>2
<1> HIDE DEF next
<1>5. CASE live.status = "live" /\ next.status = "resynchronizing"
  <2>1. Resync(next, FALSE)
    BY <1>2, <1>5
  <2>2. /\ LiveOK(live', gen, published) /\ RequestsOK(requests', gate', live', gen, published)
        /\ live'.streamId = next.streamId /\ live'.watermark = next.watermark
    BY <1>4, <2>1, ResyncKeeps
  <2>3. StreamInv'
    BY <1>1, <1>2, <1>3, <2>2, StreamParts
  <2>4. Forward(live, live')
    BY <1>4, <2>2 DEF Forward
  <2> QED
    BY <2>3, <2>4
<1>6. CASE ~(live.status = "live" /\ next.status = "resynchronizing")
  <2>1. live' = next /\ UNCHANGED <<gate, requests>>
    BY <1>2, <1>6
  <2>2. RequestsOK(requests, gate, next, gen, published)
    <3>1. CASE live.status = "live"
      BY <1>1, <3>1, RequestsLive
    <3>2. CASE live.status # "live"
      <4>1. next.status # "live" /\ next.streamId = live.streamId /\ next.watermark = live.watermark
        BY <1>4, <3>2
      <4> QED
        BY <1>1, <4>1, RequestsSameView
    <3> QED
      BY <3>1, <3>2
  <2>3. StreamInv'
    BY <1>1, <1>2, <1>3, <1>4, <2>1, <2>2, StreamParts
  <2> QED
    BY <1>4, <2>1, <2>3
<1> QED
  BY <1>5, <1>6

\* FailLive, whatever becomes of the wire and of the requests.
LEMMA FailKeeps ==
  ASSUME StreamInv, UNCHANGED <<gen, published, calls, queue, gate>>,
         Messages(wire', {Open, Lagged}, gen, published), requests' \in SUBSET requests,
         NEW status, status # "live", live' = FailLive(live, status)
  PROVE  StreamInv' /\ Forward(live, live')
<1>1. /\ World(gen, published) /\ LiveOK(live, gen, published)
      /\ RequestsOK(requests', gate, live, gen, published)
      /\ Messages(calls, {}, gen, published) /\ Messages(queue, {Lagged}, gen, published)
  BY RequestsFewer DEF StreamInv
<1>2. live' = [live EXCEPT !.status = status]
  BY DEF FailLive
<1>3. /\ LiveOK(live', gen, published) /\ live'.status # "live"
      /\ live'.streamId = live.streamId /\ live'.watermark = live.watermark
  BY <1>1, <1>2, StatusChanged
<1>4. RequestsOK(requests', gate', live', gen, published)
  BY <1>1, <1>3, RequestsSameView
<1>5. StreamInv'
  BY <1>1, <1>3, <1>4, StreamParts
<1>6. Forward(live, live')
  BY <1>1, <1>3, ForwardSame
<1> QED
  BY <1>5, <1>6

LEMMA FailuresKeep ==
  ASSUME StreamInv, OnStreamError \/ OnClose \/ OnMalformed \/ \E r \in requests : FetchFails(r)
  PROVE  StreamInv' /\ Forward(live, live')
<1>1. /\ World(gen, published) /\ LiveOK(live, gen, published)
      /\ RequestsOK(requests, gate, live, gen, published)
      /\ Messages(calls, {}, gen, published) /\ Messages(queue, {Lagged}, gen, published)
      /\ Messages(wire, {Open, Lagged}, gen, published)
  BY DEF StreamInv
<1>2. "malformed" # "live" /\ "disconnected" # "live"
  OBVIOUS
<1>3. CASE OnStreamError
  <2>1. /\ UNCHANGED <<gen, published, calls, queue, gate, requests>>
        /\ wire' = <<>> /\ live' = FailLive(live, "malformed")
    BY <1>3 DEF OnStreamError, server, pipe
  <2>2. Messages(wire', {Open, Lagged}, gen, published) /\ requests' \in SUBSET requests
    BY <2>1, MessagesNone
  <2> QED
    BY <1>2, <2>1, <2>2, FailKeeps
<1>4. CASE OnClose
  <2>1. /\ UNCHANGED <<gen, published, calls, queue, gate, requests, wire>>
        /\ live' = FailLive(live, "disconnected")
    BY <1>4 DEF OnClose, server, pipe
  <2> QED
    BY <1>1, <1>2, <2>1, FailKeeps
<1>5. CASE OnMalformed
  <2>1. /\ UNCHANGED <<gen, published, calls, queue, gate, requests>>
        /\ wire # <<>> /\ wire' = Tail(wire) /\ live' = FailLive(live, "malformed")
    BY <1>5 DEF OnMalformed, server, pipe
  <2>2. Messages(wire', {Open, Lagged}, gen, published)
    BY <2>1, HeadIsKnown
  <2> QED
    BY <1>2, <2>1, <2>2, FailKeeps
<1>6. ASSUME NEW r \in requests, FetchFails(r)
      PROVE  StreamInv' /\ Forward(live, live')
  <2>1. /\ UNCHANGED <<gen, published, calls, queue, gate, wire>>
        /\ requests' = requests \ {r}
        /\ live' = IF r.ticket = gate THEN FailLive(live, "disconnected") ELSE live
    BY <1>6 DEF FetchFails, server, pipe
  <2>2. requests' \in SUBSET requests
    BY <2>1
  <2>3. CASE r.ticket = gate
    BY <1>1, <1>2, <2>1, <2>2, <2>3, FailKeeps
  <2>4. CASE r.ticket # gate
    <3>1. RequestsOK(requests', gate, live, gen, published)
      BY <1>1, <2>2, RequestsFewer
    <3>2. live' = live
      BY <2>1, <2>4
    <3>3. StreamInv'
      BY <1>1, <2>1, <3>1, <3>2, StreamParts
    <3>4. Forward(live, live')
      BY <1>1, <3>2, ForwardSame
    <3> QED
      BY <3>3, <3>4
  <2> QED
    BY <2>3, <2>4
<1> QED
  BY <1>3, <1>4, <1>5, <1>6

LEMMA ReceiveBootstrapKeeps ==
  ASSUME StreamInv, NEW r, ReceiveBootstrap(r)
  PROVE  /\ StreamInv' /\ Forward(live, live')
         /\ r.ticket = gate => \A q \in requests' : q.ticket # gate
<1>1. /\ World(gen, published) /\ LiveOK(live, gen, published)
      /\ RequestsOK(requests, gate, live, gen, published)
      /\ Messages(calls, {}, gen, published) /\ Messages(queue, {Lagged}, gen, published)
      /\ Messages(wire, {Open, Lagged}, gen, published)
  BY DEF StreamInv
<1>2. /\ r \in requests /\ r.answer # Unanswered /\ requests' = requests \ {r}
      /\ UNCHANGED <<gen, published, calls, queue, wire, gate>>
      /\ IF r.ticket = gate THEN live' = ApplyBootstrap(live, r.answer) ELSE live' = live
  BY DEF ReceiveBootstrap, server, pipe
<1>3. RequestsOK(requests', gate, live, gen, published)
  BY <1>1, <1>2, RequestsFewer, requests \ {r} \in SUBSET requests
<1>4. CASE r.ticket = gate
  <2>1. SnapshotOK(r.answer, gen, published) /\ NotBehind(r.answer, live)
    BY <1>1, <1>2, <1>4 DEF RequestsOK
  <2>2. \A q \in requests' : q.ticket # gate
    BY <1>1, <1>2, <1>4 DEF RequestsOK
  <2>3. live' = ApplyBootstrap(live, r.answer)
    BY <1>2, <1>4
  <2>4. /\ LiveOK(live', gen, published) /\ live'.streamId = r.answer.gen
        /\ r.answer.seq \in Nat /\ live'.watermark \in Nat /\ live'.watermark >= r.answer.seq
    BY <1>1, <2>1, <2>3, BootstrapApplied
  <2>5. RequestsOK(requests', gate', live', gen, published)
    BY <1>2, <1>3, <2>2, RequestsOutdated
  <2>6. StreamInv'
    BY <1>1, <1>2, <2>4, <2>5, StreamParts
  <2>7. Forward(live, live')
    <3> SUFFICES ASSUME live.streamId # None
                 PROVE  \/ live'.streamId > live.streamId
                        \/ live'.streamId = live.streamId /\ live'.watermark >= live.watermark
      BY DEF Forward
    <3>1. live.streamId \in Nat \ {0} /\ live.watermark \in Nat
      BY <1>1, ViewIs
    <3>2. \/ live.streamId < r.answer.gen
          \/ live.streamId = r.answer.gen /\ live.watermark <= r.answer.seq
      BY <2>1 DEF NotBehind
    <3>3. r.answer.gen \in Nat
      BY <1>1, <2>1 DEF SnapshotOK, World, Limits, Generations
    <3> QED
      BY <2>4, <3>1, <3>2, <3>3
  <2> QED
    BY <2>2, <2>6, <2>7
<1>5. CASE r.ticket # gate
  <2>1. live' = live
    BY <1>2, <1>5
  <2>2. StreamInv'
    BY <1>1, <1>2, <1>3, <2>1, StreamParts
  <2>3. Forward(live, live')
    BY <1>1, <2>1, ForwardSame
  <2> QED
    BY <1>5, <2>2, <2>3
<1> QED
  BY <1>4, <1>5

LEMMA ClickResyncKeeps ==
  ASSUME StreamInv, ClickResync
  PROVE  StreamInv' /\ Forward(live, live')
<1>1. /\ World(gen, published) /\ LiveOK(live, gen, published)
      /\ Messages(calls, {}, gen, published) /\ Messages(queue, {Lagged}, gen, published)
      /\ Messages(wire, {Open, Lagged}, gen, published)
  BY DEF StreamInv
<1>2. Resync(live, FALSE) /\ UNCHANGED <<gen, published, calls, queue, wire>>
  BY DEF ClickResync, server, pipe
<1>3. /\ LiveOK(live', gen, published) /\ RequestsOK(requests', gate', live', gen, published)
      /\ live'.streamId = live.streamId /\ live'.watermark = live.watermark
  BY <1>1, <1>2, ResyncKeeps
<1>4. StreamInv'
  BY <1>1, <1>2, <1>3, StreamParts
<1>5. Forward(live, live')
  BY <1>1, <1>3, ForwardSame
<1> QED
  BY <1>4, <1>5

LEMMA StreamInvInit == StreamInit => StreamInv
<1> SUFFICES ASSUME StreamInit PROVE StreamInv
  OBVIOUS
<1>1. /\ gen = 1 /\ published = [g \in Generations |-> 0]
      /\ calls = <<>> /\ queue = <<>> /\ wire = <<>>
      /\ gate = 0 /\ requests = {} /\ live = EmptyLiveState
  BY DEF StreamInit
<1>2. 1 \in Generations
  BY LimitsHold DEF Limits, Generations
<1>3. World(gen, published)
  BY <1>1, <1>2, LimitsHold DEF World
<1>4. live = Live("bootstrapping", None, 0, <<>>, <<>>)
  BY <1>1 DEF EmptyLiveState, Live
<1>5. /\ live.status = "bootstrapping" /\ live.streamId = None /\ live.buffered = <<>>
      /\ live = Live(live.status, live.streamId, live.watermark, live.events, live.buffered)
  BY <1>4, LiveFields
<1>6. LiveOK(live, gen, published)
  BY <1>5, MessagesNone DEF LiveOK
<1>7. RequestsOK(requests, gate, live, gen, published)
  BY <1>1 DEF RequestsOK
<1> QED
  BY <1>1, <1>3, <1>6, <1>7, MessagesNone DEF StreamInv

LEMMA StreamStep ==
  ASSUME StreamInv, [StreamNext]_(streamVars)
  PROVE  StreamInv' /\ Forward(live, live')
<1>1. CASE Publish
  BY <1>1, PublishKeeps
<1>2. CASE Serve
  BY <1>2, RunCallbackKeeps, SendNextKeeps, ServeBootstrapKeeps DEF Serve
<1>3. CASE Browse
  BY <1>3, ConnectKeeps, OnOpenKeeps, OnEventKeeps, FailuresKeep, ReceiveBootstrapKeeps DEF Browse
<1>4. CASE ClickResync
  BY <1>4, ClickResyncKeeps
<1>5. CASE Drop \/ Restart
  BY <1>5, DropKeeps, RestartKeeps
<1>6. CASE OnMalformed \/ \E r \in requests : FetchFails(r)
  BY <1>6, FailuresKeep
<1>7. CASE UNCHANGED streamVars
  <2>1. UNCHANGED <<gen, published, calls, queue, wire, gate, requests, live>>
    BY <1>7 DEF streamVars
  <2> QED
    BY <2>1, PipeKeeps DEF StreamInv
<1> QED
  BY <1>1, <1>2, <1>3, <1>4, <1>5, <1>6, <1>7 DEF StreamNext

LEMMA StreamAlways == StreamSpec => []StreamInv
<1>1. StreamInit => StreamInv
  BY StreamInvInit
<1>2. StreamInv /\ [StreamNext]_(streamVars) => StreamInv'
  BY StreamStep
<1> QED
  BY <1>1, <1>2, PTL DEF StreamSpec

LEMMA StreamIsExact == StreamInv => LiveViewIsExact
<1> SUFFICES ASSUME StreamInv, live.status = "live"
             PROVE  /\ live.watermark <= published[live.streamId]
                    /\ Len(live.events) <= ClientLimit
                    /\ live.events = Log(live.streamId, live.watermark - Len(live.events) + 1,
                                         live.watermark)
                    /\ \/ Len(live.events) = live.watermark
                       \/ Len(live.events) >= HistoryLimit \/ Len(live.events) >= ClientLimit
  BY DEF LiveViewIsExact
<1> DEFINE g == live.streamId
           w == live.watermark
<1>1. g \in Nat /\ w \in Nat /\ w <= published[g] /\ View(g, w, live.events)
  BY ViewIs DEF StreamInv
<1>2. PICK n \in 0 .. w :
        /\ live.events = Log(g, w - n + 1, w)
        /\ n <= ClientLimit /\ (n = w \/ n >= HistoryLimit \/ n >= ClientLimit)
  BY <1>1 DEF View
<1> HIDE DEF g, w
<1> DEFINE a == w - n + 1
<1>3. a \in Nat /\ a <= w + 1 /\ w \in Int /\ w - a + 1 = n
  BY <1>1
<1>4. live.events = Log(g, a, w)
  BY <1>2
<1> HIDE DEF a
<1>5. Len(live.events) = n
  <2>1. Len(Log(g, a, w)) = w - a + 1
    BY <1>1, <1>3, LogIs
  <2> QED
    BY <1>3, <1>4, <2>1
<1> QED
  BY <1>1, <1>2, <1>5 DEF g, w

(***************************************************************************)
(* What the dashboard shows as live is a stretch of one generation's       *)
(* stream without a hole or a repetition that ends at the watermark, for   *)
(* any limits and any number of publications, requests and restarts        *)
(* (liveState.ts, openEventStream, /api/bootstrap).                        *)
(***************************************************************************)
THEOREM LiveViewsAreExact == StreamSpec => []LiveViewIsExact
BY StreamAlways, StreamIsExact, PTL

(***************************************************************************)
(* No step takes the view to an older generation or to a lower watermark   *)
(* of the same one (requestGate.ts: only the newest ticket's answer counts)*)
(***************************************************************************)
THEOREM ViewsOnlyAdvance == StreamSpec => ViewNeverRegresses
<1>1. StreamSpec => []StreamInv
  BY StreamAlways
<1>2. StreamInv /\ [StreamNext]_(streamVars) =>
        [live.streamId # None =>
           \/ live'.streamId > live.streamId
           \/ live'.streamId = live.streamId /\ live'.watermark >= live.watermark]_(streamVars)
  BY StreamStep DEF Forward
<1> QED
  BY <1>1, <1>2, PTL DEF StreamSpec, ViewNeverRegresses

-----------------------------------------------------------------------------
(* What is under way.                                                      *)

LEMMA LogEmpty ==
  ASSUME NEW g \in Nat, NEW n \in Nat
  PROVE  Log(g, n + 1, n) = <<>>
<1> DEFINE a == n + 1
           s == Log(g, a, n)
<1>1. a \in Nat /\ n \in Int /\ a <= n + 1 /\ n - a + 1 = 0
  OBVIOUS
<1> HIDE DEF a
<1>2. s \in Seq(Stamp) /\ Len(s) = n - a + 1
  BY <1>1, LogIs
<1> HIDE DEF s
<1>3. s = <<>>
  BY <1>1, <1>2
<1> QED
  BY <1>3 DEF s, a

LEMMA LogContains ==
  ASSUME NEW g \in Nat \ {0}, NEW a \in Nat, NEW b \in Int, a <= b + 1
  PROVE  /\ \A i \in a .. b : Contains(Log(g, a, b), Note(g, i))
         /\ ~Contains(Log(g, a, b), Lagged)
<1> DEFINE s == Log(g, a, b)
<1>1. /\ s \in Seq(Stamp) /\ Len(s) = b - a + 1
      /\ \A i \in 1 .. b - a + 1 : s[i] = Note(g, a + i - 1)
  BY LogIs
<1> HIDE DEF s
<1>2. ASSUME NEW i \in a .. b PROVE Contains(s, Note(g, i))
  <2> DEFINE j == i - a + 1
  <2>1. j \in 1 .. b - a + 1 /\ a + j - 1 = i
    OBVIOUS
  <2> HIDE DEF j
  <2>2. s[j] = Note(g, i)
    BY <1>1, <2>1
  <2> QED
    BY <1>1, <2>1, <2>2 DEF Contains
<1>3. \A n : Note(g, n) # Lagged
  BY DEF Note, Lagged
<1>4. ~Contains(s, Lagged)
  BY <1>1, <1>3 DEF Contains
<1> QED
  BY <1>2, <1>4 DEF s

LEMMA ContainsAppended ==
  ASSUME NEW s \in Seq(Stamp), NEW e \in Stamp, NEW x
  PROVE  Contains(Append(s, e), x) <=> Contains(s, x) \/ e = x
<1> DEFINE t == Append(s, e)
<1>1. /\ Len(t) = Len(s) + 1 /\ \A i \in 1 .. Len(s) : t[i] = s[i]
      /\ t[Len(s) + 1] = e /\ Len(s) \in Nat
  BY AppendProperties
<1> HIDE DEF t
<1>2. Len(s) + 1 \in 1 .. Len(t) /\ \A i \in 1 .. Len(s) : i \in 1 .. Len(t)
  BY <1>1
<1>3. \A i \in 1 .. Len(t) : i \in 1 .. Len(s) \/ i = Len(s) + 1
  BY <1>1
<1>4. Contains(t, x) <=> Contains(s, x) \/ e = x
  BY <1>1, <1>2, <1>3 DEF Contains
<1> QED
  BY <1>4 DEF t

LEMMA ContainsTaken ==
  ASSUME NEW s \in Seq(Stamp), s # <<>>, NEW x
  PROVE  /\ Contains(Tail(s), x) => Contains(s, x)
         /\ Head(s) = x => Contains(s, x)
         /\ Head(s) = s[1]
<1> DEFINE t == Tail(s)
<1>1. Len(s) \in Nat /\ Len(s) >= 1 /\ Head(s) = s[1]
  OBVIOUS
<1>2. Len(t) = Len(s) - 1 /\ \A i \in 1 .. Len(t) : t[i] = s[i + 1]
  BY HeadTailProperties
<1> HIDE DEF t
<1>3. \A i \in 1 .. Len(t) : i + 1 \in 1 .. Len(s)
  BY <1>1, <1>2
<1>4. Contains(t, x) => Contains(s, x)
  BY <1>2, <1>3 DEF Contains
<1>5. Head(s) = x => Contains(s, x)
  BY <1>1 DEF Contains
<1> QED
  BY <1>1, <1>4, <1>5 DEF t

LEMMA NothingContained == \A x : ~Contains(<<>>, x)
BY DEF Contains

\* A handshake with events behind it.
LEMMA HandshakeFirst ==
  ASSUME NEW s \in Seq(Stamp)
  PROVE  /\ <<Open>> \o s \in Seq(Stamp) /\ <<Open>> \o s # <<>>
         /\ Head(<<Open>> \o s) = Open /\ Tail(<<Open>> \o s) = s
         /\ \A e \in Stamp : Append(<<Open>> \o s, e) = <<Open>> \o Append(s, e)
<1>1. <<Open>> \in Seq(Stamp) /\ Len(<<Open>>) = 1 /\ <<Open>>[1] = Open
  BY MarksAre
<1> DEFINE t == <<Open>> \o s
<1>2. /\ t \in Seq(Stamp) /\ Len(t) = 1 + Len(s)
      /\ \A i \in 1 .. 1 + Len(s) : t[i] = IF i <= 1 THEN <<Open>>[i] ELSE s[i - 1]
  BY <1>1, ConcatProperties
<1>3. Len(s) \in Nat
  OBVIOUS
<1>4. ASSUME NEW e \in Stamp PROVE Append(t, e) = <<Open>> \o Append(s, e)
  <2>1. <<e>> \in Seq(Stamp)
    OBVIOUS
  <2>2. Append(t, e) = t \o <<e>> /\ Append(s, e) = s \o <<e>>
    BY <1>2, AppendIsConcat
  <2>3. (<<Open>> \o s) \o <<e>> = <<Open>> \o (s \o <<e>>)
    BY <1>1, <2>1, ConcatAssociative
  <2> QED
    BY <2>2, <2>3
<1> HIDE DEF t
<1>5. t # <<>> /\ Head(t) = Open
  <2>1. Len(t) >= 1 /\ t[1] = Open
    BY <1>1, <1>2, <1>3
  <2> QED
    BY <1>2, <2>1
<1>6. Tail(t) = s
  <2> DEFINE u == Tail(t)
  <2>1. u \in Seq(Stamp) /\ Len(u) = Len(t) - 1 /\ \A i \in 1 .. Len(u) : u[i] = t[i + 1]
    BY <1>2, <1>5, HeadTailProperties
  <2> HIDE DEF u
  <2>2. Len(u) = Len(s)
    BY <1>2, <1>3, <2>1
  <2>3. \A i \in 1 .. Len(s) : u[i] = s[i]
    BY <1>2, <1>3, <2>1, <2>2
  <2>4. u = s
    BY <2>1, <2>2, <2>3, SeqEqual
  <2> QED
    BY <2>4 DEF u
<1> QED
  BY <1>2, <1>4, <1>5, <1>6 DEF t

-----------------------------------------------------------------------------
(* Every action keeps PipeInv.                                             *)

LEMMA ServerIs ==
  ASSUME StreamInv
  PROVE  /\ gen \in Nat \ {0} /\ gen \in Generations /\ published[gen] \in Nat
         /\ calls \in Seq(Stamp) /\ queue \in Seq(Stamp) /\ wire \in Seq(Stamp)
BY DEF StreamInv, World, Limits, Generations, Messages

\* The browser learns something, and nothing moves.
LEMMA PipeSame ==
  ASSUME PipeInv, UNCHANGED <<gen, published, calls, queue, wire, socket, session>>,
         faults \subseteq faults',
         \A k : Reached(k, requests, gate, live, gen) => Reached(k, requests', gate', live', gen)
  PROVE  PipeInv'
<1>1. OnTheWay => OnTheWay'
  <2> SUFFICES ASSUME OnTheWay PROVE OnTheWay'
    OBVIOUS
  <2>1. PICK k \in 0 .. published[gen], a \in 0 .. published[gen], b \in 0 .. published[gen] :
          /\ k <= a /\ a <= b
          /\ calls = Log(gen, b + 1, published[gen]) /\ queue = Log(gen, a + 1, b)
          /\ \/ socket = "opening" /\ wire = <<Open>> \o Log(gen, k + 1, a)
             \/ /\ socket = "open" /\ wire = Log(gen, k + 1, a)
                /\ Reached(k, requests, gate, live, gen)
    BY DEF OnTheWay
  <2>2. Reached(k, requests, gate, live, gen) => Reached(k, requests', gate', live', gen)
    OBVIOUS
  <2> QED
    BY <2>1, <2>2 DEF OnTheWay
<1>2. "malformed" \notin faults' => "malformed" \notin faults
  OBVIOUS
<1> QED
  BY <1>1, <1>2 DEF PipeInv

LEMMA PipeStutters ==
  ASSUME PipeInv, UNCHANGED streamVars
  PROVE  PipeInv'
<1>1. UNCHANGED <<gen, published, calls, queue, wire, socket, session, requests, gate, live, faults>>
  BY DEF streamVars
<1> QED
  BY <1>1, PipeSame

LEMMA ServeBootstrapMoves ==
  ASSUME StreamInv, PipeInv, NEW r, ServeBootstrap(r)
  PROVE  PipeInv'
<1>1. /\ r \in requests /\ requests' = (requests \ {r}) \cup {[r EXCEPT !.answer = Snapshot]}
      /\ UNCHANGED <<gen, published, calls, queue, wire, socket, session, gate, live, faults>>
  BY DEF ServeBootstrap, server, pipe
<1>2. r = [ticket |-> r.ticket, answer |-> r.answer]
  BY <1>1 DEF StreamInv, RequestsOK
<1>3. Snapshot.seq = published[gen]
  BY DEF Snapshot
<1> DEFINE q == [r EXCEPT !.answer = Snapshot]
<1>4. q.answer = Snapshot
  BY <1>2
<1>5. \A o \in requests' : o \in requests \/ o = q
  BY <1>1
<1> HIDE DEF q
<1>6. ASSUME NEW k, k <= published[gen], Reached(k, requests, gate, live, gen)
      PROVE  Reached(k, requests', gate, live, gen)
  BY <1>3, <1>4, <1>5, <1>6 DEF Reached
<1>7. OnTheWay => OnTheWay'
  <2> SUFFICES ASSUME OnTheWay PROVE OnTheWay'
    OBVIOUS
  <2>1. PICK k \in 0 .. published[gen], a \in 0 .. published[gen], b \in 0 .. published[gen] :
          /\ k <= a /\ a <= b
          /\ calls = Log(gen, b + 1, published[gen]) /\ queue = Log(gen, a + 1, b)
          /\ \/ socket = "opening" /\ wire = <<Open>> \o Log(gen, k + 1, a)
             \/ /\ socket = "open" /\ wire = Log(gen, k + 1, a)
                /\ Reached(k, requests, gate, live, gen)
    BY DEF OnTheWay
  <2>2. k <= published[gen]
    BY ServerIs
  <2>3. Reached(k, requests, gate, live, gen) => Reached(k, requests', gate, live, gen)
    BY <1>6, <2>2
  <2> QED
    BY <1>1, <2>1, <2>3 DEF OnTheWay
<1> QED
  BY <1>1, <1>7 DEF PipeInv

\* After a new ticket no answer is awaited but its own, which is not there yet.
LEMMA ResyncReaches ==
  ASSUME StreamInv, NEW v, LiveOK(v, gen, published), NEW initial, Resync(v, initial), NEW k
  PROVE  Reached(k, requests', gate', live', gen)
<1>1. live'.status # "live" /\ \A r \in requests' : r.ticket = gate' => r.answer = Unanswered
  BY ResyncKeeps
<1> QED
  BY <1>1 DEF Reached

LEMMA ClickResyncMoves ==
  ASSUME StreamInv, PipeInv, ClickResync
  PROVE  PipeInv'
<1>1. /\ Resync(live, FALSE)
      /\ UNCHANGED <<gen, published, calls, queue, wire, socket, session, faults>>
  BY DEF ClickResync, server, pipe
<1>2. \A k : Reached(k, requests', gate', live', gen)
  BY <1>1, ResyncReaches DEF StreamInv
<1> QED
  BY <1>1, <1>2, PipeSame

LEMMA FetchFailsMoves ==
  ASSUME StreamInv, PipeInv, NEW r \in requests, FetchFails(r)
  PROVE  PipeInv'
<1>1. /\ UNCHANGED <<gen, published, calls, queue, wire, socket, session, gate>>
      /\ requests' = requests \ {r} /\ faults' = faults \cup {"fetch"}
      /\ live' = IF r.ticket = gate THEN FailLive(live, "disconnected") ELSE live
  BY DEF FetchFails, Fault, server, pipe
<1>2. live'.status = "live" => live' = live
  <2>1. FailLive(live, "disconnected").status = "disconnected"
    <3>1. LiveOK(live, gen, published)
      BY DEF StreamInv
    <3> QED
      BY <3>1, StatusChanged, "disconnected" # "live" DEF FailLive
  <2> QED
    BY <1>1, <2>1
<1>3. live'.buffered = live.buffered
  <2>1. FailLive(live, "disconnected").buffered = live.buffered
    <3>1. LiveOK(live, gen, published)
      BY DEF StreamInv
    <3> QED
      BY <3>1, StatusChanged, "disconnected" # "live" DEF FailLive
  <2> QED
    BY <1>1, <2>1
<1>4. ASSUME NEW k, Reached(k, requests, gate, live, gen)
      PROVE  Reached(k, requests', gate', live', gen)
  BY <1>1, <1>2, <1>3, <1>4 DEF Reached
<1> QED
  BY <1>1, <1>4, PipeSame

LEMMA ReceiveBootstrapMoves ==
  ASSUME StreamInv, PipeInv, NEW r, ReceiveBootstrap(r)
  PROVE  PipeInv'
<1>1. /\ UNCHANGED <<gen, published, calls, queue, wire, socket, session, gate, faults>>
      /\ r \in requests /\ r.answer # Unanswered /\ requests' = requests \ {r}
      /\ IF r.ticket = gate THEN live' = ApplyBootstrap(live, r.answer) ELSE live' = live
  BY DEF ReceiveBootstrap, server, pipe
<1>2. ASSUME NEW k \in Nat, Reached(k, requests, gate, live, gen)
      PROVE  Reached(k, requests', gate', live', gen)
  <2>1. CASE r.ticket # gate
    BY <1>1, <1>2, <2>1 DEF Reached
  <2>2. CASE r.ticket = gate
    <3>1. \A q \in requests' : q.ticket # gate
      BY <2>2, ReceiveBootstrapKeeps
    <3>2. /\ World(gen, published) /\ LiveOK(live, gen, published)
          /\ SnapshotOK(r.answer, gen, published)
      BY <1>1 DEF StreamInv, RequestsOK
    <3>3. live' = ApplyBootstrap(live, r.answer)
      BY <1>1, <2>2
    <3>4. /\ live'.streamId = r.answer.gen /\ r.answer.seq \in Nat
          /\ live'.watermark \in Nat /\ live'.watermark >= r.answer.seq
          /\ live'.status = "live" =>
               \A n \in Nat : Contains(live.buffered, Note(r.answer.gen, n)) => n <= live'.watermark
      BY <3>2, <3>3, BootstrapApplied
    <3>5. r.answer.gen = gen => k <= r.answer.seq \/ Contains(live.buffered, Note(gen, k))
      BY <1>1, <1>2, <2>2 DEF Reached
    <3>6. live'.status = "live" /\ live'.streamId = gen => k <= live'.watermark
      BY <3>4, <3>5
    <3> QED
      BY <1>1, <3>1, <3>6 DEF Reached
  <2> QED
    BY <2>1, <2>2
<1>3. OnTheWay => OnTheWay'
  <2> SUFFICES ASSUME OnTheWay PROVE OnTheWay'
    OBVIOUS
  <2>1. PICK k \in 0 .. published[gen], a \in 0 .. published[gen], b \in 0 .. published[gen] :
          /\ k <= a /\ a <= b
          /\ calls = Log(gen, b + 1, published[gen]) /\ queue = Log(gen, a + 1, b)
          /\ \/ socket = "opening" /\ wire = <<Open>> \o Log(gen, k + 1, a)
             \/ /\ socket = "open" /\ wire = Log(gen, k + 1, a)
                /\ Reached(k, requests, gate, live, gen)
    BY DEF OnTheWay
  <2>2. k \in Nat
    BY ServerIs
  <2>3. Reached(k, requests, gate, live, gen) => Reached(k, requests', gate', live', gen)
    BY <1>2, <2>2
  <2> QED
    BY <1>1, <2>1, <2>3 DEF OnTheWay
<1> QED
  BY <1>1, <1>3 DEF PipeInv

LEMMA PublishMoves ==
  ASSUME StreamInv, PipeInv, Publish
  PROVE  PipeInv'
<1>1. /\ gen \in Nat \ {0} /\ gen \in Generations /\ published[gen] \in Nat
      /\ published \in [Generations -> Nat]
  BY ServerIs DEF StreamInv, World
<1> DEFINE n == published[gen]
<1>2. /\ published' = [published EXCEPT ![gen] = @ + 1]
      /\ calls' = IF session = "subscribed" THEN Append(calls, Note(gen, published'[gen])) ELSE calls
      /\ UNCHANGED <<gen, session, queue, wire, socket, gate, requests, live, faults>>
  BY DEF Publish, browser, Note
<1>3. published'[gen] = n + 1 /\ n \in Nat
  BY <1>1, <1>2
<1> HIDE DEF n
<1>4. session = "subscribed" /\ OnTheWay => OnTheWay'
  <2> SUFFICES ASSUME session = "subscribed", OnTheWay PROVE OnTheWay'
    OBVIOUS
  <2>1. PICK k \in 0 .. n, a \in 0 .. n, b \in 0 .. n :
          /\ k <= a /\ a <= b
          /\ calls = Log(gen, b + 1, n) /\ queue = Log(gen, a + 1, b)
          /\ \/ socket = "opening" /\ wire = <<Open>> \o Log(gen, k + 1, a)
             \/ /\ socket = "open" /\ wire = Log(gen, k + 1, a)
                /\ Reached(k, requests, gate, live, gen)
    BY DEF OnTheWay, n
  <2>2. Append(Log(gen, b + 1, n), Note(gen, n + 1)) = Log(gen, b + 1, n + 1)
    <3>1. b + 1 \in Nat /\ n \in Int /\ b + 1 <= n + 1
      BY <1>3
    <3> QED
      BY <1>1, <3>1, LogAppended
  <2>3. calls' = Log(gen, b + 1, published'[gen])
    BY <1>2, <1>3, <2>1, <2>2
  <2>4. k \in 0 .. published'[gen] /\ a \in 0 .. published'[gen] /\ b \in 0 .. published'[gen]
    BY <1>3
  <2> QED
    BY <1>2, <2>1, <2>3, <2>4 DEF OnTheWay
<1>5. session = "none" => calls' = calls
  BY <1>2
<1> QED
  BY <1>2, <1>4, <1>5 DEF PipeInv

LEMMA RunCallbackMoves ==
  ASSUME StreamInv, PipeInv, RunCallback
  PROVE  PipeInv'
<1>1. /\ gen \in Nat \ {0} /\ published[gen] \in Nat /\ queue \in Seq(Stamp)
      /\ World(gen, published) /\ Messages(calls, {}, gen, published)
  BY ServerIs DEF StreamInv
<1> DEFINE n == published[gen]
           m == Head(calls)
<1>2. /\ calls # <<>> /\ calls' = Tail(calls)
      /\ queue' = IF Len(queue) >= QueueLimit THEN <<Lagged>> ELSE Append(queue, m)
      /\ UNCHANGED <<gen, published, session, wire, socket, gate, requests, live, faults>>
  BY DEF RunCallback, server, browser
<1>3. m \in Stamp /\ m # Lagged
  <2>1. {} \in SUBSET Stamp
    OBVIOUS
  <2>2. Head(calls) \in {} \/ Known(Head(calls), gen, published)
    BY <1>1, <1>2, <2>1, MessagesTaken, Zenon
  <2> QED
    BY <1>1, <2>2, KnownIs
<1>4. session = "subscribed"
  BY <1>2 DEF PipeInv
<1>5. Contains(queue', Lagged) => queue'[1] = Lagged
  <2>1. CASE Len(queue) >= QueueLimit
    BY <1>2, <2>1
  <2>2. CASE ~(Len(queue) >= QueueLimit)
    <3> SUFFICES ASSUME Contains(queue', Lagged) PROVE queue'[1] = Lagged
      OBVIOUS
    <3>1. queue' = Append(queue, m)
      BY <1>2, <2>2
    <3> HIDE DEF m
    <3>2. Contains(queue, Lagged)
      BY <1>1, <1>3, <3>1, ContainsAppended
    <3>3. queue[1] = Lagged /\ 1 \in 1 .. Len(queue)
      BY <1>1, <3>2 DEF PipeInv, Contains
    <3> QED
      BY <1>1, <1>3, <3>1, <3>3, AppendProperties
  <2> QED
    BY <2>1, <2>2
<1>6. ASSUME ~Contains(queue', Lagged), "malformed" \notin faults'
      PROVE  OnTheWay'
  <2>1. ~(Len(queue) >= QueueLimit)
    <3> SUFFICES ASSUME Len(queue) >= QueueLimit PROVE FALSE
      OBVIOUS
    <3>1. queue' = <<Lagged>>
      BY <1>2
    <3>2. Contains(<<Lagged>>, Lagged)
      BY DEF Contains
    <3> QED
      BY <1>6, <3>1, <3>2
  <2>2. queue' = Append(queue, m)
    BY <1>2, <2>1
  <2>3. OnTheWay
    <3>1. ~Contains(queue, Lagged)
      <4> HIDE DEF m
      <4> QED
        BY <1>1, <1>3, <1>6, <2>2, ContainsAppended
    <3> QED
      BY <1>2, <1>4, <1>6, <3>1 DEF PipeInv
  <2>4. PICK k \in 0 .. n, a \in 0 .. n, b \in 0 .. n :
          /\ k <= a /\ a <= b
          /\ calls = Log(gen, b + 1, n) /\ queue = Log(gen, a + 1, b)
          /\ \/ socket = "opening" /\ wire = <<Open>> \o Log(gen, k + 1, a)
             \/ /\ socket = "open" /\ wire = Log(gen, k + 1, a)
                /\ Reached(k, requests, gate, live, gen)
    BY <2>3 DEF OnTheWay
  <2> DEFINE c == b + 1
  <2>5. c \in Nat /\ n \in Int /\ c <= n + 1 /\ n \in Nat
    BY <1>1
  <2>6. calls = Log(gen, c, n)
    BY <2>4
  <2> HIDE DEF c, n
  <2>7. c <= n /\ m = Note(gen, c) /\ Tail(calls) = Log(gen, c + 1, n)
    BY <1>1, <1>2, <2>5, <2>6, LogTail
  <2> HIDE DEF m
  <2>8. Append(Log(gen, a + 1, b), Note(gen, c)) = Log(gen, a + 1, c)
    <3>1. a + 1 \in Nat /\ b \in Int /\ a + 1 <= b + 1
      BY <2>4, <2>5
    <3> QED
      BY <1>1, <3>1, LogAppended DEF c
  <2>9. c \in 0 .. n /\ a <= c
    BY <2>4, <2>5, <2>7 DEF c
  <2>10. calls' = Log(gen, c + 1, n) /\ queue' = Log(gen, a + 1, c)
    BY <1>2, <2>2, <2>4, <2>7, <2>8
  <2> QED
    BY <1>2, <2>4, <2>9, <2>10 DEF OnTheWay, n
<1> QED
  BY <1>2, <1>4, <1>5, <1>6 DEF PipeInv

LEMMA SendNextMoves ==
  ASSUME StreamInv, PipeInv, SendNext
  PROVE  PipeInv'
<1>1. /\ gen \in Nat \ {0} /\ published[gen] \in Nat
      /\ queue \in Seq(Stamp) /\ wire \in Seq(Stamp)
  BY ServerIs
<1> DEFINE n == published[gen]
           m == Head(queue)
<1>2. /\ session = "subscribed" /\ queue # <<>> /\ wire' = Append(wire, m)
      /\ IF m = Lagged THEN session' = "none" /\ calls' = <<>> /\ queue' = <<>>
                       ELSE queue' = Tail(queue) /\ session' = session /\ calls' = calls
      /\ UNCHANGED <<gen, published, socket, gate, requests, live, faults>>
  BY DEF SendNext, server, browser
<1>3. m \in Stamp /\ m = queue[1]
  BY <1>1, <1>2, HeadTailProperties, ContainsTaken
<1>4. CASE m = Lagged
  <2>1. session' = "none" /\ calls' = <<>> /\ queue' = <<>>
    BY <1>2, <1>4
  <2> QED
    BY <2>1, NothingContained DEF PipeInv
<1>5. CASE m # Lagged
  <2>1. queue' = Tail(queue) /\ UNCHANGED <<session, calls>>
    BY <1>2, <1>5
  <2>2. ~Contains(queue, Lagged)
    BY <1>3, <1>5 DEF PipeInv
  <2>3. ~Contains(queue', Lagged)
    BY <1>1, <1>2, <2>1, <2>2, ContainsTaken
  <2>4. ~Contains(wire', Lagged)
    <3>1. ~Contains(wire, Lagged)
      BY <1>2 DEF PipeInv
    <3> HIDE DEF m
    <3> QED
      BY <1>1, <1>2, <1>3, <1>5, <3>1, ContainsAppended
  <2>5. ASSUME "malformed" \notin faults' PROVE OnTheWay'
    <3>1. OnTheWay
      BY <1>2, <2>2, <2>5 DEF PipeInv
    <3>2. PICK k \in 0 .. n, a \in 0 .. n, b \in 0 .. n :
            /\ k <= a /\ a <= b
            /\ calls = Log(gen, b + 1, n) /\ queue = Log(gen, a + 1, b)
            /\ \/ socket = "opening" /\ wire = <<Open>> \o Log(gen, k + 1, a)
               \/ /\ socket = "open" /\ wire = Log(gen, k + 1, a)
                  /\ Reached(k, requests, gate, live, gen)
      BY <3>1 DEF OnTheWay
    <3> DEFINE c == a + 1
    <3>3. c \in Nat /\ b \in Int /\ c <= b + 1 /\ n \in Nat
      BY <1>1, <3>2
    <3>4. queue = Log(gen, c, b)
      BY <3>2
    <3> HIDE DEF c, n
    <3>5. c <= b /\ m = Note(gen, c) /\ Tail(queue) = Log(gen, c + 1, b)
      BY <1>1, <1>2, <3>3, <3>4, LogTail
    <3> HIDE DEF m
    <3>6. k + 1 \in Nat /\ a \in Int /\ k + 1 <= a + 1
      BY <3>2, <3>3
    <3>7. Append(Log(gen, k + 1, a), m) = Log(gen, k + 1, c)
      BY <1>1, <3>5, <3>6, LogAppended DEF c
    <3>8. Log(gen, k + 1, a) \in Seq(Stamp)
      BY <1>1, <3>6, LogIs
    <3>9. Append(<<Open>> \o Log(gen, k + 1, a), m) = <<Open>> \o Log(gen, k + 1, c)
      BY <1>3, <3>7, <3>8, HandshakeFirst
    <3>10. c \in 0 .. n /\ k <= c /\ c <= b
      BY <3>2, <3>3, <3>5 DEF c
    <3>11. \/ socket = "opening" /\ wire' = <<Open>> \o Log(gen, k + 1, c)
           \/ /\ socket = "open" /\ wire' = Log(gen, k + 1, c)
              /\ Reached(k, requests, gate, live, gen)
      BY <1>2, <3>2, <3>7, <3>9
    <3>12. queue' = Log(gen, c + 1, b)
      BY <2>1, <3>5
    <3> QED
      BY <1>2, <2>1, <3>2, <3>10, <3>11, <3>12 DEF OnTheWay, n
  <2> QED
    BY <1>2, <2>1, <2>3, <2>4, <2>5 DEF PipeInv
<1> QED
  BY <1>4, <1>5

LEMMA ConnectMoves ==
  ASSUME StreamInv, PipeInv, Connect
  PROVE  PipeInv'
<1>1. gen \in Nat \ {0} /\ published[gen] \in Nat
  BY ServerIs
<1> DEFINE n == published[gen]
<1>2. /\ socket = "closed" /\ socket' = "opening" /\ wire' = <<Open>> /\ session' = "subscribed"
      /\ UNCHANGED <<gen, published, calls, queue, faults>>
  BY DEF Connect, server
<1>3. calls = <<>> /\ queue = <<>>
  BY <1>2 DEF PipeInv
<1>4. Log(gen, n + 1, n) = <<>>
  BY <1>1, LogEmpty
<1>5. <<Open>> \o <<>> = <<Open>>
  <2>1. <<Open>> \in Seq(Stamp)
    BY MarksAre
  <2> QED
    BY <2>1, ConcatEmptySeq
<1>6. wire' = <<Open>> \o Log(gen, n + 1, n)
  BY <1>2, <1>4, <1>5
<1>7. n \in 0 .. n /\ n <= n
  BY <1>1
<1> HIDE DEF n
<1>8. OnTheWay'
  BY <1>2, <1>3, <1>4, <1>6, <1>7 DEF OnTheWay, n
<1>9. ~Contains(wire', Lagged)
  BY <1>2, MarksAre DEF Contains
<1> QED
  BY <1>2, <1>3, <1>8, <1>9, NothingContained DEF PipeInv

\* The connection is gone, or is about to be.
LEMMA LossMoves ==
  ASSUME StreamInv, PipeInv, OnStreamError \/ OnClose \/ Drop \/ Restart
  PROVE  PipeInv'
<1>1. CASE OnStreamError
  <2>1. /\ wire # <<>> /\ Head(wire) = Lagged /\ wire' = <<>> /\ socket' = "closing"
        /\ UNCHANGED <<session, calls, queue>>
    BY <1>1 DEF OnStreamError, pipe
  <2>2. Contains(wire, Lagged)
    BY <2>1, ServerIs, ContainsTaken
  <2>3. session = "none" /\ calls = <<>> /\ queue = <<>>
    BY <2>2 DEF PipeInv
  <2> QED
    BY <2>1, <2>3, NothingContained DEF PipeInv
<1>2. CASE OnClose
  <2>1. /\ socket = "closing" /\ UNCHANGED <<session, calls, queue, wire>>
    BY <1>2 DEF OnClose, pipe
  <2>2. session = "none" /\ calls = <<>> /\ queue = <<>>
    BY <2>1 DEF PipeInv
  <2> QED
    BY <2>1, <2>2, NothingContained DEF PipeInv
<1>3. CASE Drop \/ Restart
  <2>1. session' = "none" /\ calls' = <<>> /\ queue' = <<>> /\ wire' = <<>>
    BY <1>3 DEF Drop, Restart, LoseConnection
  <2> QED
    BY <2>1, NothingContained DEF PipeInv
<1> QED
  BY <1>1, <1>2, <1>3

LEMMA OnMalformedMoves ==
  ASSUME StreamInv, PipeInv, OnMalformed
  PROVE  PipeInv'
<1>1. /\ wire # <<>> /\ wire' = Tail(wire) /\ "malformed" \in faults'
      /\ UNCHANGED <<session, calls, queue, socket>>
  BY DEF OnMalformed, Fault, pipe
<1>2. Contains(wire', Lagged) => Contains(wire, Lagged)
  BY <1>1, ServerIs, ContainsTaken
<1> QED
  BY <1>1, <1>2 DEF PipeInv

\* The handshake is read: what follows it is a stretch of events.
LEMMA OnOpenMoves ==
  ASSUME StreamInv, PipeInv, OnOpen
  PROVE  PipeInv'
<1>1. gen \in Nat \ {0} /\ published[gen] \in Nat /\ wire \in Seq(Stamp)
  BY ServerIs
<1> DEFINE n == published[gen]
<1>2. /\ wire # <<>> /\ Head(wire) = Open /\ wire' = Tail(wire) /\ socket' = "open"
      /\ Resync(live, ~known)
      /\ UNCHANGED <<gen, published, session, calls, queue, faults>>
  BY DEF OnOpen, server, pipe
<1>3. \A k : Reached(k, requests', gate', live', gen)
  BY <1>2, ResyncReaches DEF StreamInv
<1>4. Contains(wire', Lagged) => Contains(wire, Lagged)
  BY <1>1, <1>2, ContainsTaken
<1>5. OnTheWay => OnTheWay'
  <2> SUFFICES ASSUME OnTheWay PROVE OnTheWay'
    OBVIOUS
  <2>1. PICK k \in 0 .. n, a \in 0 .. n, b \in 0 .. n :
          /\ k <= a /\ a <= b
          /\ calls = Log(gen, b + 1, n) /\ queue = Log(gen, a + 1, b)
          /\ \/ socket = "opening" /\ wire = <<Open>> \o Log(gen, k + 1, a)
             \/ /\ socket = "open" /\ wire = Log(gen, k + 1, a)
                /\ Reached(k, requests, gate, live, gen)
    BY DEF OnTheWay
  <2>2. k + 1 \in Nat /\ a \in Int /\ k + 1 <= a + 1
    BY <1>1, <2>1
  <2>3. wire # Log(gen, k + 1, a)
    <3> SUFFICES ASSUME wire = Log(gen, k + 1, a) PROVE FALSE
      OBVIOUS
    <3>1. Head(wire) = Note(gen, k + 1)
      BY <1>1, <1>2, <2>2, LogTail
    <3>2. Note(gen, k + 1).gen = gen /\ Open.gen = 0
      BY MarksAre DEF Note
    <3> QED
      BY <1>1, <1>2, <3>1, <3>2
  <2>4. wire = <<Open>> \o Log(gen, k + 1, a)
    BY <2>1, <2>3
  <2>5. Log(gen, k + 1, a) \in Seq(Stamp)
    BY <1>1, <2>2, LogIs
  <2>6. wire' = Log(gen, k + 1, a)
    BY <1>2, <2>4, <2>5, HandshakeFirst
  <2>7. Reached(k, requests', gate', live', gen)
    BY <1>3
  <2> QED
    BY <1>2, <2>1, <2>6, <2>7 DEF OnTheWay
<1> QED
  BY <1>2, <1>4, <1>5 DEF PipeInv

\* An event is read: it has reached the browser, live or not.
LEMMA OnEventReaches ==
  ASSUME StreamInv, OnEvent, NEW k \in Nat, Head(wire) = Note(gen, k + 1),
         Reached(k, requests, gate, live, gen)
  PROVE  Reached(k + 1, requests', gate', live', gen)
<1>1. /\ World(gen, published) /\ LiveOK(live, gen, published)
      /\ RequestsOK(requests, gate, live, gen, published)
  BY DEF StreamInv
<1> DEFINE m == Head(wire)
           next == BufferEvent(live, m)
<1>2. /\ wire # <<>> /\ m \in Event /\ UNCHANGED gen
      /\ IF live.status = "live" /\ next.status = "resynchronizing"
         THEN Resync(next, FALSE)
         ELSE live' = next /\ UNCHANGED <<gate, requests>>
  BY DEF OnEvent, server
<1>3. Known(m, gen, published) /\ m.gen = gen /\ m.seq = k + 1 /\ m = Note(gen, k + 1)
  BY <1>2, HeadIsKnown DEF Note
<1> HIDE DEF m
<1>4. CASE live.status = "live"
  <2>1. next = ApplyEvent(live, m)
    BY <1>4 DEF BufferEvent
  <2> HIDE DEF next
  <2>2. /\ LiveOK(next, gen, published) /\ next.streamId = live.streamId
        /\ next.status \in {"live", "resynchronizing"}
        /\ live.streamId = m.gen /\ m.seq <= live.watermark + 1 =>
             next.status = "live" /\ m.seq <= next.watermark
    BY <1>1, <1>3, <1>4, <2>1, ApplyEventKeeps
  <2>3. CASE next.status = "resynchronizing"
    <3>1. Resync(next, FALSE)
      BY <1>2, <1>4, <2>3
    <3> QED
      BY <2>2, <3>1, ResyncReaches
  <2>4. CASE next.status = "live"
    <3>1. live' = next /\ UNCHANGED <<gate, requests>>
      BY <1>2, <2>4
    <3>2. \A r \in requests : r.ticket # gate
      BY <1>1, <1>4, RequestsLive
    <3>3. live.streamId = gen => m.seq <= next.watermark
      <4> SUFFICES ASSUME live.streamId = gen PROVE m.seq <= next.watermark
        OBVIOUS
      <4>1. k <= live.watermark /\ live.watermark \in Nat
        <5>1. k <= live.watermark
          BY <1>4 DEF Reached
        <5>2. live.watermark \in Nat
          BY <1>1, <1>4, ViewIs
        <5> QED
          BY <5>1, <5>2
      <4>2. m.seq <= live.watermark + 1
        BY <1>3, <4>1
      <4> QED
        BY <1>3, <2>2, <4>2
    <3> QED
      BY <1>3, <2>2, <3>1, <3>2, <3>3 DEF Reached
  <2> QED
    BY <2>2, <2>3, <2>4
<1>5. CASE live.status # "live"
  <2>1. live' = next /\ UNCHANGED <<gate, requests>>
    BY <1>2, <1>5
  <2>2. next = BufferEvent(live, m)
    OBVIOUS
  <2> HIDE DEF next
  <2>3. next.status = live.status /\ Contains(next.buffered, m)
    BY <1>1, <1>3, <1>5, <2>2, BufferEventKeeps
  <2> QED
    BY <1>3, <1>5, <2>1, <2>3 DEF Reached
<1> QED
  BY <1>4, <1>5

LEMMA OnEventMoves ==
  ASSUME StreamInv, PipeInv, OnEvent
  PROVE  PipeInv'
<1>1. gen \in Nat \ {0} /\ published[gen] \in Nat /\ wire \in Seq(Stamp)
  BY ServerIs
<1> DEFINE n == published[gen]
<1>2. /\ wire # <<>> /\ Head(wire) \in Event /\ wire' = Tail(wire)
      /\ UNCHANGED <<gen, published, session, calls, queue, socket, faults>>
  BY DEF OnEvent, server, pipe
<1>3. Contains(wire', Lagged) => Contains(wire, Lagged)
  BY <1>1, <1>2, ContainsTaken
<1>4. OnTheWay => OnTheWay'
  <2> SUFFICES ASSUME OnTheWay PROVE OnTheWay'
    OBVIOUS
  <2>1. PICK k \in 0 .. n, a \in 0 .. n, b \in 0 .. n :
          /\ k <= a /\ a <= b
          /\ calls = Log(gen, b + 1, n) /\ queue = Log(gen, a + 1, b)
          /\ \/ socket = "opening" /\ wire = <<Open>> \o Log(gen, k + 1, a)
             \/ /\ socket = "open" /\ wire = Log(gen, k + 1, a)
                /\ Reached(k, requests, gate, live, gen)
    BY DEF OnTheWay
  <2> DEFINE c == k + 1
  <2>2. c \in Nat /\ a \in Int /\ c <= a + 1 /\ k \in Nat /\ n \in Nat
    BY <1>1, <2>1
  <2>3. ~(wire = <<Open>> \o Log(gen, c, a))
    <3> SUFFICES ASSUME wire = <<Open>> \o Log(gen, c, a) PROVE FALSE
      OBVIOUS
    <3> HIDE DEF c
    <3>1. Log(gen, c, a) \in Seq(Stamp)
      BY <1>1, <2>2, LogIs
    <3>2. Head(wire) = Open
      BY <3>1, HandshakeFirst
    <3>3. Open \notin Event
      BY <1>1, MarksAre DEF Event, Generations, StreamInv, World, Limits
    <3> QED
      BY <1>2, <3>2, <3>3
  <2>4. socket = "open" /\ wire = Log(gen, c, a) /\ Reached(k, requests, gate, live, gen)
    BY <2>1, <2>3
  <2> HIDE DEF c, n
  <2>5. c <= a /\ Head(wire) = Note(gen, c) /\ Tail(wire) = Log(gen, c + 1, a)
    BY <1>1, <1>2, <2>2, <2>4, LogTail
  <2>6. Reached(c, requests', gate', live', gen)
    BY <2>2, <2>4, <2>5, OnEventReaches DEF c
  <2>7. c \in 0 .. n
    BY <2>1, <2>2, <2>5
  <2>8. wire' = Log(gen, c + 1, a) /\ socket' = "open"
    BY <1>2, <2>4, <2>5
  <2> QED
    BY <1>2, <2>1, <2>5, <2>6, <2>7, <2>8 DEF OnTheWay, n
<1> QED
  BY <1>2, <1>3, <1>4 DEF PipeInv

LEMMA PipeInit == StreamInit => PipeInv
BY NothingContained DEF StreamInit, PipeInv

LEMMA PipeStep ==
  ASSUME StreamInv, PipeInv, [StreamNext]_(streamVars)
  PROVE  PipeInv'
<1>1. CASE Publish
  BY <1>1, PublishMoves
<1>2. CASE Serve
  BY <1>2, RunCallbackMoves, SendNextMoves, ServeBootstrapMoves DEF Serve
<1>3. CASE Browse
  BY <1>3, ConnectMoves, OnOpenMoves, OnEventMoves, LossMoves, ReceiveBootstrapMoves DEF Browse
<1>4. CASE ClickResync
  BY <1>4, ClickResyncMoves
<1>5. CASE Drop \/ Restart
  BY <1>5, LossMoves
<1>6. CASE OnMalformed \/ \E r \in requests : FetchFails(r)
  BY <1>6, OnMalformedMoves, FetchFailsMoves
<1>7. CASE UNCHANGED streamVars
  BY <1>7, PipeStutters
<1> QED
  BY <1>1, <1>2, <1>3, <1>4, <1>5, <1>6, <1>7 DEF StreamNext

LEMMA NothingIsLost == StreamInv /\ PipeInv => NothingLostWhileLive
<1> SUFFICES ASSUME StreamInv, PipeInv, "malformed" \notin faults, live.status = "live",
                    live.streamId = gen, socket = "open", session = "subscribed",
                    ~Contains(queue, Lagged)
             PROVE  live.watermark + 1 .. published[gen] \subseteq UnderWay
  BY DEF NothingLostWhileLive
<1>1. /\ gen \in Nat \ {0} /\ published[gen] \in Nat
      /\ calls \in Seq(Stamp) /\ queue \in Seq(Stamp) /\ wire \in Seq(Stamp)
  BY ServerIs
<1> DEFINE n == published[gen]
<1>2. OnTheWay
  BY DEF PipeInv
<1>3. PICK k \in 0 .. n, a \in 0 .. n, b \in 0 .. n :
        /\ k <= a /\ a <= b
        /\ calls = Log(gen, b + 1, n) /\ queue = Log(gen, a + 1, b)
        /\ wire = Log(gen, k + 1, a) /\ Reached(k, requests, gate, live, gen)
  BY <1>2 DEF OnTheWay
<1>4. k <= live.watermark /\ live.watermark \in Nat
  <2>1. k <= live.watermark
    BY <1>3 DEF Reached
  <2>2. live.watermark \in Nat
    BY ViewIs DEF StreamInv
  <2> QED
    BY <2>1, <2>2
<1>5. ASSUME NEW s \in {calls, queue, wire}, NEW i, Contains(s, Note(gen, i))
      PROVE  i \in UnderWay
  <2>1. s \in Seq(Stamp)
    BY <1>1, <1>5
  <2>2. Note(gen, i) \in Range(s)
    BY <1>5, <2>1, RangeEquality DEF Contains, Range
  <2>3. Note(gen, i) \in Range(calls) \cup Range(queue) \cup Range(wire)
    BY <1>5, <2>2
  <2>4. Note(gen, i).gen = gen /\ Note(gen, i).seq = i
    BY DEF Note
  <2> QED
    BY <2>3, <2>4 DEF UnderWay
<1>6. ASSUME NEW i \in live.watermark + 1 .. n PROVE i \in UnderWay
  <2>1. n \in Nat /\ i \in Nat /\ k + 1 <= i /\ i <= n
    BY <1>1, <1>3, <1>4
  <2> HIDE DEF n
  <2>2. CASE i <= a
    <3>1. k + 1 \in Nat /\ a \in Int /\ k + 1 <= a + 1 /\ i \in k + 1 .. a
      BY <1>3, <2>1, <2>2
    <3>2. Contains(wire, Note(gen, i))
      BY <1>1, <1>3, <3>1, LogContains
    <3> QED
      BY <1>5, <3>2
  <2>3. CASE a < i /\ i <= b
    <3>1. a + 1 \in Nat /\ b \in Int /\ a + 1 <= b + 1 /\ i \in a + 1 .. b
      BY <1>3, <2>1, <2>3
    <3>2. Contains(queue, Note(gen, i))
      BY <1>1, <1>3, <3>1, LogContains
    <3> QED
      BY <1>5, <3>2
  <2>4. CASE b < i
    <3>1. b + 1 \in Nat /\ n \in Int /\ b + 1 <= n + 1 /\ i \in b + 1 .. n
      BY <1>3, <2>1, <2>4
    <3>2. Contains(calls, Note(gen, i))
      BY <1>1, <1>3, <3>1, LogContains
    <3> QED
      BY <1>5, <3>2
  <2> QED
    BY <1>3, <2>1, <2>2, <2>3, <2>4
<1> QED
  BY <1>6

(***************************************************************************)
(* While the dashboard is live on the server's generation, every event it  *)
(* lacks is a scheduled callback, in the queue or on the wire, or a lag    *)
(* marker is in front of it: websocket_events subscribes before the        *)
(* handshake can be answered by a request for a snapshot.                  *)
(***************************************************************************)
THEOREM NothingIsLostWhileLive == StreamSpec => []NothingLostWhileLive
<1>1. StreamSpec => []StreamInv
  BY StreamAlways
<1>2. StreamInit => PipeInv
  BY PipeInit
<1>3. StreamInv /\ PipeInv /\ [StreamNext]_(streamVars) => PipeInv'
  BY PipeStep
<1>4. StreamInv /\ PipeInv => NothingLostWhileLive
  BY NothingIsLost
<1> QED
  BY <1>1, <1>2, <1>3, <1>4, PTL DEF StreamSpec

=============================================================================
