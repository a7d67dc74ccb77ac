------------------------ MODULE MarketDataCache_proofs ------------------------
(***************************************************************************)
(* The cache for any workers, requests, venues, pages, providers, versions *)
(* and number of revisions and faults: an answer is exact; and while no    *)
(* download has raced, the series can be read and an answer read again.    *)
(*                                                                         *)
(* An artifact is exact when it is stored and stays so, as candles only    *)
(* become older; what is composed of exact artifacts is causal, and is     *)
(* stored or served only when it is complete (IInv).  Artifacts agree with *)
(* each other because a download asks for absent candles only, and what is *)
(* still to be asked for has the venue's values wherever it has become     *)
(* known (PoolInv).                                                        *)
(***************************************************************************)
EXTENDS MarketDataCache, FiniteSetTheorems, SequenceTheorems, NaturalsInduction,
        WellFoundedInduction, TLAPS

\* A candle that has closed by time c.
Closed(b, c) == b[1] \in Int /\ b[1] < c

\* What a download or a composition makes of its rows.
Sound(a, c) ==
    /\ ~Conflicting(a.bars)
    /\ \A b \in a.bars : Closed(b, c) /\ b[1] + 1 <= a.request.asOf

Exact(a, c) == CoverageComplete(a.bars, a.request) /\ Sound(a, c)

Shape(f) ==
    f = [step |-> f.step, request |-> f.request, parts |-> f.parts, cursor |-> f.cursor,
         attempt |-> f.attempt, rows |-> f.rows, result |-> f.result]

\* What is true of a fetch at each of its steps.
FetchOK(f, c) ==
    /\ Shape(f)
    /\ \A b \in f.rows : Closed(b, c)
    /\ f.step = "idle" => f.result = None \/ Exact(f.result, c)
    /\ f.step \in {"check", "write"} => Sound(f.result, c)
    /\ f.step = "write" => CoverageComplete(f.result.bars, f.result.request)

IInv ==
    /\ clock \in Nat
    /\ \A a \in artifacts : Exact(a, clock)
    /\ \A o \in Opens : rawFile[o] # 0 => o < clock
    /\ fetch = [w \in Workers |-> fetch[w]]
    /\ \A w \in Workers : FetchOK(fetch[w], clock)

-----------------------------------------------------------------------------
(* The record of a fetch, one field at a time.                             *)

Is(f, step, request, parts, cursor, attempt, rows, result) ==
    f = [step |-> step, request |-> request, parts |-> parts, cursor |-> cursor,
         attempt |-> attempt, rows |-> rows, result |-> result]

LEMMA ShapeIs ==
  ASSUME NEW f, Shape(f)
  PROVE  Is(f, f.step, f.request, f.parts, f.cursor, f.attempt, f.rows, f.result)
BY DEF Shape, Is

LEMMA Fields ==
  ASSUME NEW f, NEW s, NEW q, NEW p, NEW c, NEW t, NEW r, NEW a, Is(f, s, q, p, c, t, r, a)
  PROVE  /\ Shape(f) /\ f.step = s /\ f.request = q /\ f.parts = p /\ f.cursor = c
         /\ f.attempt = t /\ f.rows = r /\ f.result = a
BY DEF Shape, Is

LEMMA SetField ==
  ASSUME NEW f, NEW s, NEW q, NEW p, NEW c, NEW t, NEW r, NEW a, Is(f, s, q, p, c, t, r, a), NEW v
  PROVE  /\ Is([f EXCEPT !.step = v], v, q, p, c, t, r, a)
         /\ Is([f EXCEPT !.request = v], s, v, p, c, t, r, a)
         /\ Is([f EXCEPT !.parts = v], s, q, v, c, t, r, a)
         /\ Is([f EXCEPT !.cursor = v], s, q, p, v, t, r, a)
         /\ Is([f EXCEPT !.attempt = v], s, q, p, c, v, r, a)
         /\ Is([f EXCEPT !.rows = v], s, q, p, c, t, v, a)
         /\ Is([f EXCEPT !.result = v], s, q, p, c, t, r, v)
<1>1. Is([f EXCEPT !.step = v], v, q, p, c, t, r, a)
  BY DEF Is
<1>2. Is([f EXCEPT !.request = v], s, v, p, c, t, r, a)
  BY DEF Is
<1>3. Is([f EXCEPT !.parts = v], s, q, v, c, t, r, a)
  BY DEF Is
<1>4. Is([f EXCEPT !.cursor = v], s, q, p, v, t, r, a)
  BY DEF Is
<1>5. Is([f EXCEPT !.attempt = v], s, q, p, c, v, r, a)
  BY DEF Is
<1>6. Is([f EXCEPT !.rows = v], s, q, p, c, t, v, a)
  BY DEF Is
<1>7. Is([f EXCEPT !.result = v], s, q, p, c, t, r, v)
  BY DEF Is
<1> QED
  BY <1>1, <1>2, <1>3, <1>4, <1>5, <1>6, <1>7

LEMMA StepTaken ==
  ASSUME NEW f, Shape(f), NEW v
  PROVE  Is([f EXCEPT !.step = v], v, f.request, f.parts, f.cursor, f.attempt, f.rows, f.result)
<1>1. Is(f, f.step, f.request, f.parts, f.cursor, f.attempt, f.rows, f.result)
  BY ShapeIs
<1> QED
  BY <1>1, SetField

LEMMA Retried ==
  ASSUME NEW f, Shape(f)
  PROVE  Is([f EXCEPT !.attempt = @ + 1], f.step, f.request, f.parts, f.cursor,
            f.attempt + 1, f.rows, f.result)
<1>1. Is(f, f.step, f.request, f.parts, f.cursor, f.attempt, f.rows, f.result)
  BY ShapeIs
<1>2. [f EXCEPT !.attempt = @ + 1] = [f EXCEPT !.attempt = f.attempt + 1]
  OBVIOUS
<1> QED
  BY <1>1, <1>2, SetField

\* A part begins with no rows and no result.
LEMMA PartStarted ==
  ASSUME NEW f, Shape(f), NEW parts
  PROVE  Is(StartPart(f, parts), "download", f.request, parts, Head(parts).from, 0, {}, None)
<1> DEFINE f1 == [f EXCEPT !.step = "download"]
           f2 == [f1 EXCEPT !.parts = parts]
           f3 == [f2 EXCEPT !.cursor = Head(parts).from]
           f4 == [f3 EXCEPT !.attempt = 0]
           f5 == [f4 EXCEPT !.rows = {}]
           f6 == [f5 EXCEPT !.result = None]
<1>0. StartPart(f, parts) = f6
  BY DEF StartPart
<1>1. Is(f1, "download", f.request, f.parts, f.cursor, f.attempt, f.rows, f.result)
  BY ShapeIs, SetField
<1> HIDE DEF f1
<1>2. Is(f2, "download", f.request, parts, f.cursor, f.attempt, f.rows, f.result)
  BY <1>1, SetField
<1> HIDE DEF f2
<1>3. Is(f3, "download", f.request, parts, Head(parts).from, f.attempt, f.rows, f.result)
  BY <1>2, SetField
<1> HIDE DEF f3
<1>4. Is(f4, "download", f.request, parts, Head(parts).from, 0, f.rows, f.result)
  BY <1>3, SetField
<1> HIDE DEF f4
<1>5. Is(f5, "download", f.request, parts, Head(parts).from, 0, {}, f.result)
  BY <1>4, SetField
<1> HIDE DEF f5
<1>6. Is(f6, "download", f.request, parts, Head(parts).from, 0, {}, None)
  BY <1>5, SetField
<1> QED
  BY <1>0, <1>6

LEMMA StartPartOK ==
  ASSUME NEW f, Shape(f), NEW parts, NEW c
  PROVE  FetchOK(StartPart(f, parts), c)
<1> DEFINE next == StartPart(f, parts)
<1>0. Is(next, "download", f.request, parts, Head(parts).from, 0, {}, None)
  BY PartStarted
<1> HIDE DEF next
<1>1. Shape(next) /\ next.step = "download" /\ next.rows = {}
  BY <1>0, Fields
<1>2. FetchOK(next, c)
  BY <1>1 DEF FetchOK
<1> QED
  BY <1>2 DEF next

\* A fetch that is about to store what it composed of the cache ...
Checking(f, result) == [f EXCEPT !.step = "check", !.result = result]

LEMMA CheckStarted ==
  ASSUME NEW f, Shape(f), NEW result
  PROVE  Is(Checking(f, result), "check", f.request, f.parts, f.cursor, f.attempt, f.rows, result)
<1> DEFINE f1 == [f EXCEPT !.step = "check"]
           f2 == [f1 EXCEPT !.result = result]
<1>0. Checking(f, result) = f2
  BY DEF Checking
<1>1. Is(f1, "check", f.request, f.parts, f.cursor, f.attempt, f.rows, f.result)
  BY ShapeIs, SetField
<1> HIDE DEF f1
<1>2. Is(f2, "check", f.request, f.parts, f.cursor, f.attempt, f.rows, result)
  BY <1>1, SetField
<1> QED
  BY <1>0, <1>2

LEMMA CheckOK ==
  ASSUME NEW f, Shape(f), NEW result, NEW c, Sound(result, c), \A b \in f.rows : Closed(b, c)
  PROVE  FetchOK(Checking(f, result), c)
<1> DEFINE next == Checking(f, result)
<1>1. Shape(next) /\ next.step = "check" /\ next.rows = f.rows /\ next.result = result
  BY CheckStarted, Fields
<1> HIDE DEF next
<1>2. FetchOK(next, c)
  BY <1>1 DEF FetchOK
<1> QED
  BY <1>2 DEF next

\* ... and one that has downloaded a part.
Storable(f, result) ==
    [f EXCEPT !.step = "check", !.rows = {}, !.cursor = 0, !.attempt = 0, !.result = result]

LEMMA PartReceived ==
  ASSUME NEW f, Shape(f), NEW result
  PROVE  Is(Storable(f, result), "check", f.request, f.parts, 0, 0, {}, result)
<1> DEFINE f1 == [f EXCEPT !.step = "check"]
           f2 == [f1 EXCEPT !.rows = {}]
           f3 == [f2 EXCEPT !.cursor = 0]
           f4 == [f3 EXCEPT !.attempt = 0]
           f5 == [f4 EXCEPT !.result = result]
<1>0. Storable(f, result) = f5
  BY DEF Storable
<1>1. Is(f1, "check", f.request, f.parts, f.cursor, f.attempt, f.rows, f.result)
  BY ShapeIs, SetField
<1> HIDE DEF f1
<1>2. Is(f2, "check", f.request, f.parts, f.cursor, f.attempt, {}, f.result)
  BY <1>1, SetField
<1> HIDE DEF f2
<1>3. Is(f3, "check", f.request, f.parts, 0, f.attempt, {}, f.result)
  BY <1>2, SetField
<1> HIDE DEF f3
<1>4. Is(f4, "check", f.request, f.parts, 0, 0, {}, f.result)
  BY <1>3, SetField
<1> HIDE DEF f4
<1>5. Is(f5, "check", f.request, f.parts, 0, 0, {}, result)
  BY <1>4, SetField
<1> QED
  BY <1>0, <1>5

LEMMA ReceivedOK ==
  ASSUME NEW f, Shape(f), NEW result, NEW c, Sound(result, c)
  PROVE  FetchOK(Storable(f, result), c)
<1> DEFINE next == Storable(f, result)
<1>1. Shape(next) /\ next.step = "check" /\ next.rows = {} /\ next.result = result
  BY PartReceived, Fields
<1> HIDE DEF next
<1>2. FetchOK(next, c)
  BY <1>1 DEF FetchOK
<1> QED
  BY <1>2 DEF next

\* The next page of a download.
Paged(f, rows, cursor) == [f EXCEPT !.rows = rows, !.cursor = cursor, !.attempt = 0]

LEMMA PageTurned ==
  ASSUME NEW f, Shape(f), NEW rows, NEW cursor
  PROVE  Is(Paged(f, rows, cursor), f.step, f.request, f.parts, cursor, 0, rows, f.result)
<1> DEFINE f1 == [f EXCEPT !.rows = rows]
           f2 == [f1 EXCEPT !.cursor = cursor]
           f3 == [f2 EXCEPT !.attempt = 0]
<1>0. Paged(f, rows, cursor) = f3
  BY DEF Paged
<1>1. Is(f1, f.step, f.request, f.parts, f.cursor, f.attempt, rows, f.result)
  BY ShapeIs, SetField
<1> HIDE DEF f1
<1>2. Is(f2, f.step, f.request, f.parts, cursor, f.attempt, rows, f.result)
  BY <1>1, SetField
<1> HIDE DEF f2
<1>3. Is(f3, f.step, f.request, f.parts, cursor, 0, rows, f.result)
  BY <1>2, SetField
<1> QED
  BY <1>0, <1>3

LEMMA PageOK ==
  ASSUME NEW f, Shape(f), f.step = "download", NEW rows, NEW next, NEW c,
         \A b \in rows : Closed(b, c)
  PROVE  FetchOK(Paged(f, rows, next), c)
<1> DEFINE more == Paged(f, rows, next)
<1>1. Shape(more) /\ more.step = "download" /\ more.rows = rows
  BY PageTurned, Fields
<1> HIDE DEF more
<1>2. FetchOK(more, c)
  BY <1>1 DEF FetchOK
<1> QED
  BY <1>2 DEF more

\* A step that asks for no result.
LEMMA StepOK ==
  ASSUME NEW f, NEW c, FetchOK(f, c), NEW step, step \notin {"idle", "check", "write"}
  PROVE  FetchOK([f EXCEPT !.step = step], c)
<1>1. Shape(f)
  BY DEF FetchOK
<1> DEFINE f1 == [f EXCEPT !.step = step]
<1>2. Is(f1, step, f.request, f.parts, f.cursor, f.attempt, f.rows, f.result)
  BY <1>1, StepTaken
<1> HIDE DEF f1
<1>3. Shape(f1) /\ f1.step = step /\ f1.rows = f.rows
  BY <1>2, Fields
<1>4. FetchOK(f1, c)
  BY <1>3 DEF FetchOK
<1> QED
  BY <1>4 DEF f1

Assembling(f) == [f EXCEPT !.step = "assemble", !.parts = <<>>, !.result = None]

LEMMA AssemblyStarted ==
  ASSUME NEW f, Shape(f)
  PROVE  Is(Assembling(f), "assemble", f.request, <<>>, f.cursor, f.attempt, f.rows, None)
<1> DEFINE f1 == [f EXCEPT !.step = "assemble"]
           f2 == [f1 EXCEPT !.parts = <<>>]
           f3 == [f2 EXCEPT !.result = None]
<1>0. Assembling(f) = f3
  BY DEF Assembling
<1>1. Is(f1, "assemble", f.request, f.parts, f.cursor, f.attempt, f.rows, f.result)
  BY ShapeIs, SetField
<1> HIDE DEF f1
<1>2. Is(f2, "assemble", f.request, <<>>, f.cursor, f.attempt, f.rows, f.result)
  BY <1>1, SetField
<1> HIDE DEF f2
<1>3. Is(f3, "assemble", f.request, <<>>, f.cursor, f.attempt, f.rows, None)
  BY <1>2, SetField
<1> QED
  BY <1>0, <1>3

LEMMA AssembleOK ==
  ASSUME NEW f, NEW c, FetchOK(f, c)
  PROVE  FetchOK(Assembling(f), c)
<1> DEFINE next == Assembling(f)
<1>1. Shape(next) /\ next.step = "assemble" /\ next.rows = f.rows
  BY AssemblyStarted, Fields DEF FetchOK
<1> HIDE DEF next
<1>2. FetchOK(next, c)
  BY <1>1 DEF FetchOK
<1> QED
  BY <1>2 DEF next

\* A fetch that has not found the artifact of its request.
Looking(r) == [Idle(None) EXCEPT !.step = "compose", !.request = r]

LEMMA LookStarted ==
  ASSUME NEW r
  PROVE  Is(Looking(r), "compose", r, <<>>, 0, 0, {}, None)
<1> DEFINE f1 == [Idle(None) EXCEPT !.step = "compose"]
           f2 == [f1 EXCEPT !.request = r]
<1>0. Looking(r) = f2
  BY DEF Looking
<1>1. Is(Idle(None), "idle", None, <<>>, 0, 0, {}, None)
  BY DEF Is, Idle
<1>2. Is(f1, "compose", None, <<>>, 0, 0, {}, None)
  BY <1>1, SetField
<1> HIDE DEF f1
<1>3. Is(f2, "compose", r, <<>>, 0, 0, {}, None)
  BY <1>2, SetField
<1> QED
  BY <1>0, <1>3

LEMMA IdleOK ==
  ASSUME NEW c, NEW answer, answer = None \/ Exact(answer, c)
  PROVE  FetchOK(Idle(answer), c)
BY DEF Idle, FetchOK, Shape

-----------------------------------------------------------------------------
(* What the cache and the providers supply.                                *)

\* The causal rows of a request, from rows that have closed and do not conflict.
LEMMA SelectedSound ==
  ASSUME NEW rows, NEW r, NEW c, \A b \in rows : Closed(b, c),
         ~Conflicting(Selected(rows, r)),
         NEW a, a.request = r, a.bars = Selected(rows, r)
  PROVE  Sound(a, c)
BY DEF Sound, Selected

LEMMA SeriesClosed ==
  ASSUME IInv
  PROVE  \A b \in Series : Closed(b, clock)
BY DEF IInv, Series, Usable, Exact, Sound

\* What is there for a request is an artifact.
LEMMA Found ==
  ASSUME NEW r, Exists(r)
  PROVE  At(r) \in artifacts /\ At(r).request = r
BY DEF Exists, At

\* Candles only become older.
LEMMA Later ==
  ASSUME NEW c \in Int, NEW d \in Int, c <= d
  PROVE  /\ \A b : Closed(b, c) => Closed(b, d)
         /\ \A a : Exact(a, c) => Exact(a, d)
         /\ \A f : FetchOK(f, c) => FetchOK(f, d)
<1>1. \A b : Closed(b, c) => Closed(b, d)
  BY DEF Closed
<1>2. \A a : Sound(a, c) => Sound(a, d)
  BY <1>1 DEF Sound
<1>3. \A a : Exact(a, c) => Exact(a, d)
  BY <1>2 DEF Exact
<1>4. ASSUME NEW f, FetchOK(f, c) PROVE FetchOK(f, d)
  BY <1>1, <1>2, <1>3, <1>4 DEF FetchOK
<1> QED
  BY <1>1, <1>3, <1>4

LEMMA GotoKeeps ==
  ASSUME IInv, NEW w \in Workers, NEW next, Goto(w, next), FetchOK(next, clock),
         UNCHANGED <<artifacts, rawFile, clock>>
  PROVE  IInv'
<1>1. fetch' = [v \in Workers |-> IF v = w THEN next ELSE fetch[v]]
  BY DEF Goto, IInv
<1>2. fetch' = [v \in Workers |-> fetch'[v]]
  BY <1>1
<1>3. \A v \in Workers : FetchOK(fetch'[v], clock)
  BY <1>1 DEF IInv
<1> QED
  BY <1>2, <1>3 DEF IInv

LEMMA FailsKeeps ==
  ASSUME IInv, NEW w \in Workers, Fails(w)
  PROVE  IInv'
BY IdleOK, GotoKeeps DEF Fails, environment

LEMMA ReceivedKeeps ==
  ASSUME IInv, NEW w \in Workers, NEW rows, \A b \in rows : Closed(b, clock), Received(w, rows)
  PROVE  IInv'
<1> DEFINE part == Head(fetch[w].parts)
           bars == Selected(rows, part)
           result == [request |-> part, bars |-> bars, fetched |-> clock, version |-> version]
<1>1. CASE Conflicting(bars)
  BY <1>1, FailsKeeps DEF Received
<1>2. CASE ~Conflicting(bars)
  <2>1. Sound(result, clock)
    <3>1. result.request = part /\ result.bars = Selected(rows, part)
      OBVIOUS
    <3> HIDE DEF result, part
    <3> QED
      BY <1>2, <3>1, SelectedSound
  <2>2. /\ Goto(w, Storable(fetch[w], result))
        /\ UNCHANGED <<artifacts, rawFile, clock>>
    BY <1>2 DEF Received, Storable, environment
  <2> HIDE DEF result
  <2>3. Shape(fetch[w])
    BY DEF IInv, FetchOK
  <2> QED
    BY <2>1, <2>2, <2>3, ReceivedOK, GotoKeeps
<1> QED
  BY <1>1, <1>2

-----------------------------------------------------------------------------
(* The steps of a fetch.                                                   *)

LEMMA LookupKeeps ==
  ASSUME IInv, NEW w \in Workers, NEW r, Lookup(w, r)
  PROVE  IInv'
<1>1. UNCHANGED <<artifacts, rawFile, clock>>
  BY DEF Lookup, environment
<1>2. CASE Hit(r) /\ CoverageComplete(At(r).bars, r) /\ r.to <= At(r).fetched
  <2>1. Exact(At(r), clock)
    BY <1>2, Found DEF Hit, IInv
  <2> QED
    BY <1>1, <1>2, <2>1, IdleOK, GotoKeeps DEF Lookup, Serves
<1>3. CASE ~(Hit(r) /\ CoverageComplete(At(r).bars, r) /\ r.to <= At(r).fetched)
  <2>1. Goto(w, Looking(r))
    BY <1>3 DEF Lookup, Looking
  <2>2. Shape(Looking(r)) /\ Looking(r).step = "compose" /\ Looking(r).rows = {}
    BY LookStarted, Fields
  <2>3. FetchOK(Looking(r), clock)
    BY <2>2 DEF FetchOK
  <2> QED
    BY <1>1, <2>1, <2>3, GotoKeeps
<1> QED
  BY <1>2, <1>3

\* What is composed of the series is sound, if it does not conflict.
LEMMA ComposedSound ==
  ASSUME IInv, NEW r, ~Conflicting(Selected(Series, r))
  PROVE  Sound(Composed(r), clock)
<1>1. Composed(r).request = r /\ Composed(r).bars = Selected(Series, r)
  BY DEF Composed
<1> QED
  BY <1>1, SeriesClosed, SelectedSound

LEMMA ComposeKeeps ==
  ASSUME IInv, NEW w \in Workers, Compose(w) \/ Assemble(w)
  PROVE  IInv'
<1> DEFINE r == fetch[w].request
           check == Checking(fetch[w], Composed(r))
           plan == [fetch[w] EXCEPT !.step = "plan"]
<1>1. \/ Fails(w)
      \/ /\ ~Conflicting(Selected(Series, r)) /\ (Goto(w, check) \/ Goto(w, plan))
         /\ UNCHANGED <<artifacts, rawFile, clock>>
  BY DEF Compose, Assemble, Checking, environment
<1>2. FetchOK(fetch[w], clock)
  BY DEF IInv
<1>3. FetchOK(plan, clock)
  BY <1>2, StepOK
<1>4. ~Conflicting(Selected(Series, r)) => FetchOK(check, clock)
  BY <1>2, ComposedSound, CheckOK DEF FetchOK
<1> HIDE DEF check, plan
<1> QED
  BY <1>1, <1>3, <1>4, FailsKeeps, GotoKeeps

LEMMA PlanKeeps ==
  ASSUME IInv, NEW w \in Workers, Plan(w)
  PROVE  IInv'
<1> DEFINE next == StartPart(fetch[w], Missing(fetch[w].request))
<1>1. \/ Fails(w)
      \/ Goto(w, next) /\ UNCHANGED <<artifacts, rawFile, clock>>
  BY DEF Plan, environment
<1>2. FetchOK(next, clock)
  BY StartPartOK DEF IInv, FetchOK
<1> HIDE DEF next
<1> QED
  BY <1>1, <1>2, FailsKeeps, GotoKeeps

LEMMA RateLimitedKeeps ==
  ASSUME IInv, NEW w \in Workers, RateLimited(w)
  PROVE  IInv'
<1> DEFINE next == [fetch[w] EXCEPT !.attempt = @ + 1]
<1>1. /\ fetch[w].step = "download"
      /\ \/ Fails(w)
         \/ Goto(w, next) /\ UNCHANGED <<artifacts, rawFile, clock>>
  BY DEF RateLimited, environment
<1>2. FetchOK(fetch[w], clock)
  BY DEF IInv
<1> DEFINE f == fetch[w]
<1>3. Is(next, f.step, f.request, f.parts, f.cursor, f.attempt + 1, f.rows, f.result)
  BY <1>2, Retried DEF FetchOK
<1> HIDE DEF next
<1>4. Shape(next) /\ next.step = "download" /\ next.rows = fetch[w].rows
  BY <1>1, <1>3, Fields
<1>5. FetchOK(next, clock)
  BY <1>2, <1>4 DEF FetchOK
<1> QED
  BY <1>1, <1>5, FailsKeeps, GotoKeeps

LEMMA FetchPageKeeps ==
  ASSUME IInv, NEW w \in Workers, FetchPage(w)
  PROVE  IInv'
<1> DEFINE page == Page(fetch[w].cursor)
           rows == fetch[w].rows \cup page
           next == IF page = {} THEN fetch[w].cursor ELSE Max(OpenedIn(page))
           more == Paged(fetch[w], rows, next)
<1>1. /\ fetch[w].step = "download"
      /\ \/ Received(w, rows)
         \/ Goto(w, more) /\ UNCHANGED <<artifacts, rawFile, clock>>
  BY DEF FetchPage, Paged, environment
<1>2. FetchOK(fetch[w], clock)
  BY DEF IInv
<1>3. \A b \in rows : Closed(b, clock)
  <2>1. \A b \in page : Closed(b, clock)
    BY DEF Page, Closed, Opens
  <2> HIDE DEF page
  <2> QED
    BY <1>2, <2>1 DEF FetchOK
<1> HIDE DEF rows, next
<1>4. FetchOK(more, clock)
  BY <1>1, <1>2, <1>3, PageOK DEF FetchOK
<1> HIDE DEF more
<1> QED
  BY <1>1, <1>3, <1>4, ReceivedKeeps, GotoKeeps

LEMMA DownloadKeeps ==
  ASSUME IInv, NEW w \in Workers, DownloadToFile(w)
  PROVE  IInv'
<1>1. \A o \in Opens : rawFile'[o] # 0 => rawFile[o] # 0 \/ o < clock
  BY DEF DownloadToFile
<1>2. Goto(w, [fetch[w] EXCEPT !.step = "read"]) /\ UNCHANGED <<artifacts, clock>>
  BY DEF DownloadToFile, environment
<1> DEFINE next == [fetch[w] EXCEPT !.step = "read"]
<1>3. FetchOK(next, clock)
  BY StepOK DEF IInv
<1> HIDE DEF next
<1>4. /\ fetch' = [v \in Workers |-> fetch'[v]]
      /\ \A v \in Workers : FetchOK(fetch'[v], clock)
  <2>1. fetch' = [v \in Workers |-> IF v = w THEN next ELSE fetch[v]]
    BY <1>2 DEF Goto, IInv, next
  <2> QED
    BY <1>3, <2>1 DEF IInv
<1> QED
  BY <1>1, <1>2, <1>4 DEF IInv

LEMMA ReadFileKeeps ==
  ASSUME IInv, NEW w \in Workers, ReadFile(w)
  PROVE  IInv'
<1> DEFINE rows == {<<o, rawFile[o]>> : o \in {x \in Opens : rawFile[x] # 0}}
<1>1. \A b \in rows : Closed(b, clock)
  BY DEF IInv, Closed, Opens
<1>2. Received(w, rows)
  BY DEF ReadFile
<1> HIDE DEF rows
<1> QED
  BY <1>1, <1>2, ReceivedKeeps

\* What is served or followed by another part after a store was exact.
LEMMA AfterStoreOK ==
  ASSUME IInv, NEW w \in Workers, Exact(fetch[w].result, clock), AfterStore(w)
  PROVE  \E next : Goto(w, next) /\ FetchOK(next, clock)
<1> DEFINE f == fetch[w]
           part == StartPart(f, Tail(f.parts))
           last == Assembling(f)
<1>1. Goto(w, Idle(f.result)) \/ Goto(w, part) \/ Goto(w, last)
  BY DEF AfterStore, Serves, Assembling
<1>2. FetchOK(f, clock) /\ Shape(f)
  BY DEF IInv, FetchOK
<1> HIDE DEF f
<1>3. FetchOK(part, clock) /\ FetchOK(last, clock)
  BY <1>2, StartPartOK, AssembleOK
<1>4. FetchOK(Idle(f.result), clock)
  BY IdleOK DEF f
<1> HIDE DEF part, last
<1> QED
  BY <1>1, <1>3, <1>4

\* What store does not refuse is complete.
LEMMA CheckKeeps ==
  ASSUME IInv, NEW w \in Workers, Check(w)
  PROVE  IInv'
<1> DEFINE result == fetch[w].result
           next == [fetch[w] EXCEPT !.step = "write"]
<1>1. fetch[w].step = "check" /\ FetchOK(fetch[w], clock)
  BY DEF Check, IInv
<1>2. CASE Fails(w)
  BY <1>2, FailsKeeps
<1>3. CASE /\ Refusal(result) = None /\ (AfterStore(w) \/ Goto(w, next))
           /\ UNCHANGED <<artifacts, rawFile, clock>>
  <2>1. CoverageComplete(result.bars, result.request)
    BY <1>3, CacheAssumption DEF Refusal
  <2>2. Exact(result, clock)
    BY <1>1, <2>1 DEF FetchOK, Exact
  <2>3. FetchOK(next, clock)
    <3> DEFINE f == fetch[w]
    <3>0. Is(next, "write", f.request, f.parts, f.cursor, f.attempt, f.rows, f.result)
      BY <1>1, StepTaken DEF FetchOK
    <3> HIDE DEF next
    <3>1. Shape(next) /\ next.step = "write" /\ next.rows = fetch[w].rows /\ next.result = result
      BY <3>0, Fields
    <3> QED
      BY <1>1, <2>1, <3>1 DEF FetchOK
  <2> HIDE DEF next
  <2> QED
    BY <1>3, <2>2, <2>3, AfterStoreOK, GotoKeeps
<1> QED
  BY <1>2, <1>3 DEF Check, environment

LEMMA WriteKeeps ==
  ASSUME IInv, NEW w \in Workers, Write(w)
  PROVE  IInv'
<1>1. fetch[w].step = "write" /\ FetchOK(fetch[w], clock)
  BY DEF Write, IInv
<1>2. Exact(fetch[w].result, clock)
  BY <1>1 DEF FetchOK, Exact
<1>3. PICK next : Goto(w, next) /\ FetchOK(next, clock)
  BY <1>2, AfterStoreOK DEF Write
<1>4. UNCHANGED <<rawFile, clock>> /\ artifacts' \subseteq artifacts \cup {fetch[w].result}
  BY DEF Write, environment
<1>5. \A a \in artifacts' : Exact(a, clock)
  BY <1>2, <1>4 DEF IInv
<1>6. fetch' = [v \in Workers |-> IF v = w THEN next ELSE fetch[v]]
  BY <1>3 DEF Goto, IInv
<1>7. /\ fetch' = [v \in Workers |-> fetch'[v]]
      /\ \A v \in Workers : FetchOK(fetch'[v], clock)
  BY <1>3, <1>6 DEF IInv
<1> QED
  BY <1>4, <1>5, <1>7 DEF IInv

-----------------------------------------------------------------------------
(* The specification.                                                      *)

LEMMA InitInv ==
  Init => IInv
<1> SUFFICES ASSUME Init PROVE IInv
  OBVIOUS
<1>1. clock \in Nat
  BY CacheAssumption DEF Init
<1>2. \A w \in Workers : FetchOK(fetch[w], clock)
  BY IdleOK DEF Init
<1> QED
  BY <1>1, <1>2 DEF Init, IInv

LEMMA StepInv ==
  IInv /\ [Next]_vars => IInv'
<1> SUFFICES ASSUME IInv, [Next]_vars PROVE IInv'
  OBVIOUS
<1>1. CASE UNCHANGED <<clock, artifacts, rawFile, fetch>>
  BY <1>1 DEF IInv
<1>2. ASSUME NEW w \in Workers, ProviderFails(w) \/ WriteFails(w) PROVE IInv'
  BY <1>2, FailsKeeps, IdleOK, GotoKeeps DEF ProviderFails, WriteFails, environment
<1>3. CASE CloseCandle
  <2>1. /\ clock \in Nat /\ clock' = clock + 1 /\ clock \in Int /\ clock' \in Int /\ clock <= clock'
        /\ UNCHANGED <<artifacts, rawFile, fetch>>
    BY <1>3 DEF CloseCandle, IInv
  <2>2. /\ \A a \in artifacts : Exact(a, clock')
        /\ \A w \in Workers : FetchOK(fetch[w], clock')
    BY <2>1, Later DEF IInv
  <2>3. \A o \in Opens : rawFile[o] # 0 => o < clock'
    BY <2>1 DEF IInv, Opens
  <2> QED
    BY <2>1, <2>2, <2>3 DEF IInv
<1>4. ASSUME NEW v \in Upgrades, Restart(v) PROVE IInv'
  <2>1. /\ fetch' = [w \in Workers |-> IF fetch[w].step = "idle" THEN fetch[w] ELSE Idle(None)]
        /\ UNCHANGED <<artifacts, rawFile, clock>>
    BY <1>4 DEF Restart
  <2>2. FetchOK(Idle(None), clock)
    BY IdleOK
  <2>3. /\ fetch' = [w \in Workers |-> fetch'[w]]
        /\ \A w \in Workers : FetchOK(fetch'[w], clock)
    BY <2>1, <2>2 DEF IInv
  <2> QED
    BY <2>1, <2>3 DEF IInv
<1>5. ASSUME NEW o \in Opens, Revise(o) PROVE IInv'
  BY <1>1, <1>5 DEF Revise
<1>6. CASE UNCHANGED vars
  BY <1>1, <1>6 DEF vars
<1> QED
  BY <1>2, <1>3, <1>4, <1>5, <1>6, LookupKeeps, ComposeKeeps, PlanKeeps, RateLimitedKeeps,
     FetchPageKeeps, DownloadKeeps, ReadFileKeeps, CheckKeeps, WriteKeeps DEF Next

\* Whatever the caches, the pages, the providers and the versions on the way, an
\* answer has every candle of its request, once, and none that was not known at its
\* cutoff or had not closed (fetch_historical, load_range, store).
THEOREM AnswersAreExact ==
  Spec => []AnswerIsExact
<1>1. IInv => AnswerIsExact
  BY DEF IInv, AnswerIsExact, Answered, FetchOK, Exact, Sound, Closed
<1>2. Spec => []IInv
  BY InitInv, StepInv, PTL DEF Spec
<1> QED
  BY <1>1, <1>2, PTL

-----------------------------------------------------------------------------
(* What missing_ranges asks for.                                           *)

LEMMA LeastOf ==
  ASSUME NEW S \in SUBSET Nat, S # {}
  PROVE  \E x \in S : \A y \in S : x <= y
<1>1. PICK x \in S : \A y \in S : ~ (<<y, x>> \in OpToRel(<, Nat))
  BY NatLessThanWellFounded, WFMin
<1>2. x \in Nat /\ \A y \in S : y \in Nat
  OBVIOUS
<1>3. \A y \in S : ~(y < x)
  BY <1>1, <1>2 DEF OpToRel
<1> QED
  BY <1>2, <1>3

\* Candles that are absent are in some run of absent candles.
LEMMA RunsExist ==
  ASSUME NEW m \in Nat, NEW S \in SUBSET (0 .. m), S # {}
  PROVE  Runs(S) # {}
<1>1. S \in SUBSET Nat
  OBVIOUS
<1>2. PICK x \in S : \A y \in S : x <= y
  BY <1>1, LeastOf
<1> DEFINE T == {z \in Nat : x <= z /\ z + 1 \notin S}
<1>3. m \in T
  BY <1>2
<1>4. PICK y \in T : \A z \in T : y <= z
  BY <1>3, LeastOf
<1>5. x \in Nat /\ y \in Nat /\ x <= y /\ y + 1 \notin S /\ x - 1 \notin S
  BY <1>1, <1>2, <1>4
<1>6. ASSUME NEW k \in x .. y PROVE k \in S
  <2>1. CASE k = x
    BY <1>2, <2>1
  <2>2. CASE k # x
    <3>1. k - 1 \in Nat /\ x <= k - 1 /\ (k - 1) + 1 = k /\ ~(y <= k - 1)
      BY <1>5, <2>2
    <3>2. k - 1 \notin T
      BY <1>4, <3>1
    <3> QED
      BY <3>1, <3>2
  <2> QED
    BY <2>1, <2>2
<1> DEFINE run == [from |-> x, to |-> y + 1]
<1>7. y \in S /\ run.from = x /\ run.to = y + 1 /\ (y + 1) - 1 = y /\ x < y + 1
  BY <1>5, <1>6
<1>8. run \in {[from |-> a, to |-> b + 1] : a, b \in S}
  BY <1>2, <1>7
<1>9. run.from < run.to /\ run.from .. (run.to - 1) \subseteq S
      /\ (run.from - 1) \notin S /\ run.to \notin S
  BY <1>5, <1>6, <1>7
<1> HIDE DEF run
<1>10. run \in Runs(S)
  BY <1>8, <1>9 DEF Runs
<1> QED
  BY <1>10

\* A run is of candles of its set, and begins where no other does.
LEMMA RunsAreSeparate ==
  ASSUME NEW m \in Nat, NEW S \in SUBSET (0 .. m)
  PROVE  /\ \A a \in Runs(S) :
              /\ a = [from |-> a.from, to |-> a.to]
              /\ a.from \in 0 .. m /\ a.to \in 1 .. (m + 1) /\ a.from < a.to
              /\ \A o \in a.from .. (a.to - 1) : o \in S
         /\ \A a, b \in Runs(S) : a.from = b.from => a = b
<1>1. ASSUME NEW a \in Runs(S)
      PROVE  /\ a = [from |-> a.from, to |-> a.to]
             /\ a.from \in 0 .. m /\ a.to \in 1 .. (m + 1) /\ a.from < a.to
             /\ \A o \in a.from .. (a.to - 1) : o \in S
             /\ a.to \notin S
  <2>1. PICK x \in S, y \in S : a = [from |-> x, to |-> y + 1]
    BY DEF Runs
  <2>2. a.from = x /\ a.to = y + 1 /\ a = [from |-> a.from, to |-> a.to]
    BY <2>1
  <2>3. x \in 0 .. m /\ y \in 0 .. m
    OBVIOUS
  <2>4. a.from < a.to /\ a.from .. (a.to - 1) \subseteq S /\ a.to \notin S
    BY DEF Runs
  <2> QED
    BY <2>2, <2>3, <2>4
<1>2. ASSUME NEW a \in Runs(S), NEW b \in Runs(S), a.from = b.from
      PROVE  a = b
  <2>1. ASSUME NEW c \in Runs(S), NEW d \in Runs(S), c.from = d.from, c.to < d.to PROVE FALSE
    <3>1. c.to \in d.from .. (d.to - 1)
      BY <1>1, <2>1
    <3> QED
      BY <1>1, <3>1
  <2>2. a.to = b.to
    <3>1. a.to \in Int /\ b.to \in Int
      BY <1>1
    <3>2. ~(a.to < b.to) /\ ~(b.to < a.to)
      BY <1>2, <2>1
    <3> QED
      BY <3>1, <3>2
  <2> QED
    BY <1>1, <1>2, <2>2
<1> QED
  BY <1>1, <1>2

\* Of finitely many parts that begin at different candles, one is the n-th.
LEMMA RanksAreTaken ==
  ASSUME NEW P, IsFiniteSet(P), \A p \in P : p.from \in Int,
         \A p, q \in P : p.from = q.from => p = q,
         NEW n \in 1 .. Cardinality(P)
  PROVE  \E p \in P : Cardinality({q \in P : q.from < p.from}) = n - 1
<1> DEFINE Below(p) == {q \in P : q.from < p.from}
           N == Cardinality(P)
           T == 0 .. (N - 1)
           rank == [p \in P |-> Cardinality(Below(p))]
<1>1. N \in Nat /\ N > 0
  BY FS_CardinalityType
<1>2. ASSUME NEW p \in P
      PROVE  /\ IsFiniteSet(Below(p)) /\ Cardinality(Below(p)) \in Int
             /\ Cardinality(Below(p)) \in T
  <2>0. p.from \in Int /\ ~(p.from < p.from)
    OBVIOUS
  <2>4. IsFiniteSet(P \ {p}) /\ Cardinality(P \ {p}) = N - 1
    BY FS_RemoveElement
  <2>1. Below(p) \in SUBSET (P \ {p}) /\ IsFiniteSet(P \ {p}) /\ Cardinality(P \ {p}) = N - 1
    BY <2>0, <2>4
  <2>2. IsFiniteSet(Below(p)) /\ Cardinality(Below(p)) <= N - 1
    BY <2>1, FS_Subset
  <2>3. Cardinality(Below(p)) \in Nat
    BY <2>2, FS_CardinalityType
  <2> QED
    BY <1>1, <2>2, <2>3
<1>3. ASSUME NEW p \in P, NEW q \in P, p.from < q.from
      PROVE  Cardinality(Below(p)) < Cardinality(Below(q))
  <2>1. Below(p) \cup {p} \in SUBSET Below(q) /\ p \notin Below(p)
    BY <1>3
  <2>2. Cardinality(Below(p) \cup {p}) = Cardinality(Below(p)) + 1
    BY <1>2, <2>1, FS_AddElement
  <2>3. Cardinality(Below(p) \cup {p}) <= Cardinality(Below(q))
    BY <1>2, <2>1, FS_Subset
  <2>4. Cardinality(Below(p)) \in Int /\ Cardinality(Below(q)) \in Int
    BY <1>2, Zenon
  <2> QED
    BY <2>2, <2>3, <2>4
<1>4. ASSUME NEW p \in P, NEW q \in P, Cardinality(Below(p)) = Cardinality(Below(q))
      PROVE  p = q
  <2>1. p.from \in Int /\ q.from \in Int
    OBVIOUS
  <2>2. ~(p.from < q.from) /\ ~(q.from < p.from)
    <3>1. Cardinality(Below(p)) \in Int /\ Cardinality(Below(q)) \in Int
      BY <1>2, Zenon
    <3> QED
      BY <1>3, <1>4, <3>1
  <2> QED
    BY <2>1, <2>2
<1>5. rank \in Injection(P, T)
  <2>1. rank \in [P -> T]
    BY <1>2
  <2>2. \A p, q \in P : rank[p] = rank[q] => p = q
    BY <1>4
  <2> HIDE DEF rank, T
  <2> QED
    BY <2>1, <2>2 DEF Injection, IsInjective
<1>6. IsFiniteSet(T) /\ Cardinality(T) = N
  <2>1. 0 \in Int /\ N - 1 \in Int /\ ~(0 > N - 1) /\ (N - 1) - 0 + 1 = N
    BY <1>1
  <2> HIDE DEF N
  <2> QED
    BY <2>1, FS_Interval
<1>7. rank \in Surjection(P, T)
  <2> HIDE DEF rank, T
  <2> QED
    BY <1>5, <1>6, FS_Injection
<1>8. n - 1 \in T
  BY <1>1
<1>9. \E p \in P : rank[p] = n - 1
  <2> HIDE DEF rank, T
  <2> QED
    BY <1>7, <1>8 DEF Surjection
<1> QED
  BY <1>9

Absent(r) == (r.from .. (r.to - 1)) \ OpenedIn(Selected(Series, r))

Part(r, run) == [r EXCEPT !.from = run.from, !.to = run.to]

LEMMA PartFields ==
  ASSUME NEW r \in Request, NEW run
  PROVE  /\ Part(r, run) = [from |-> run.from, to |-> run.to, asOf |-> r.asOf]
         /\ Part(r, run).from = run.from /\ Part(r, run).to = run.to
         /\ Part(r, run).asOf = r.asOf
<1> DEFINE p1 == [r EXCEPT !.from = run.from]
           p2 == [p1 EXCEPT !.to = run.to]
<1>0. Part(r, run) = p2
  BY DEF Part
<1>1. p1 = [from |-> run.from, to |-> r.to, asOf |-> r.asOf]
  BY DEF Request
<1> HIDE DEF p1
<1>2. p2 = [from |-> run.from, to |-> run.to, asOf |-> r.asOf]
  BY <1>1
<1> HIDE DEF p2
<1> QED
  BY <1>0, <1>2

\* Unless the cache has all of a request, its missing parts are of absent candles.
LEMMA MissingIsAbsent ==
  ASSUME IInv, NEW r \in Requests
  PROVE  /\ Missing(r) \in Seq(Request) /\ Missing(r) # <<>>
         /\ ~Composable(r) =>
              \A n \in DOMAIN Missing(r) :
                 /\ Missing(r)[n].asOf = r.asOf
                 /\ \A o \in Missing(r)[n].from .. (Missing(r)[n].to - 1) : o \in Absent(r)
<1> DEFINE absent == Absent(r)
           parts == {Part(r, run) : run \in Runs(absent)}
           N == Cardinality(parts)
           Nth(n) == CHOOSE p \in parts : Cardinality({q \in parts : q.from < p.from}) = n - 1
           all == [n \in 1 .. N |-> Nth(n)]
<1>1. r \in Request /\ r.from \in 0 .. LastOpen /\ r.to \in 1 .. (LastOpen + 1)
      /\ LastOpen \in Nat /\ r.from < r.to
  BY RequestAssumption, CacheAssumption DEF Request, Opens
<1>2. absent \in SUBSET (0 .. LastOpen)
  BY <1>1 DEF Absent
<1>3. Missing(r) = IF parts = {} THEN <<r>> ELSE all
  BY DEF Missing, Absent, Part
<1> HIDE DEF absent
<1>4. ASSUME NEW p \in parts
      PROVE  /\ p \in Request /\ p.from \in 0 .. LastOpen /\ p.asOf = r.asOf
             /\ \A o \in p.from .. (p.to - 1) : o \in absent
  <2>1. PICK run \in Runs(absent) : p = Part(r, run)
    OBVIOUS
  <2>2. p = [from |-> run.from, to |-> run.to, asOf |-> r.asOf]
        /\ p.from = run.from /\ p.to = run.to /\ p.asOf = r.asOf
    BY <1>1, <2>1, PartFields
  <2>3. /\ run.from \in 0 .. LastOpen /\ run.to \in 1 .. (LastOpen + 1)
        /\ \A o \in run.from .. (run.to - 1) : o \in absent
    BY <1>1, <1>2, RunsAreSeparate
  <2>4. p \in Request
    BY <1>1, <2>2, <2>3 DEF Request, Opens
  <2> QED
    BY <2>2, <2>3, <2>4
<1>5. ASSUME NEW p \in parts, NEW q \in parts, p.from = q.from PROVE p = q
  <2>1. PICK a \in Runs(absent) : p = Part(r, a)
    OBVIOUS
  <2>2. PICK b \in Runs(absent) : q = Part(r, b)
    OBVIOUS
  <2>3. a.from = b.from
    BY <1>1, <1>5, <2>1, <2>2, PartFields
  <2>4. a = b
    BY <1>1, <1>2, <2>3, RunsAreSeparate
  <2> QED
    BY <2>1, <2>2, <2>4
<1> HIDE DEF parts
<1>6. IsFiniteSet(parts)
  <2> DEFINE f == [p \in parts |-> p.from]
  <2>1. f \in [parts -> 0 .. LastOpen] /\ \A p, q \in parts : f[p] = f[q] => p = q
    BY <1>4, <1>5
  <2> HIDE DEF f
  <2>2. f \in Injection(parts, 0 .. LastOpen)
    BY <2>1 DEF Injection, IsInjective
  <2>3. IsFiniteSet(0 .. LastOpen)
    BY <1>1, FS_Interval
  <2> QED
    BY <2>2, <2>3, FS_Injection
<1>7. N \in Nat /\ (parts # {} => N > 0)
  <2>1. N \in Nat /\ (N = 0 <=> parts = {})
    BY <1>6, FS_CardinalityType, FS_EmptySet
  <2> HIDE DEF N
  <2> QED
    BY <2>1
<1>8. ASSUME NEW n \in 1 .. N PROVE Nth(n) \in parts
  <2>1. \A p \in parts : p.from \in Int
    BY <1>4
  <2>2. \E p \in parts : Cardinality({q \in parts : q.from < p.from}) = n - 1
    BY <1>5, <1>6, <2>1, RanksAreTaken
  <2> QED
    BY <2>2
<1> HIDE DEF N, Nth
<1>9. CASE parts = {}
  <2>1. Missing(r) = <<r>>
    BY <1>3, <1>9
  <2>2. absent = {}
    BY <1>1, <1>2, <1>9, RunsExist DEF parts
  <2>3. \A o \in OpenedIn(Selected(Series, r)) : o \in r.from .. (r.to - 1)
    <3>1. \A b \in Selected(Series, r) : b[1] \in r.from .. (r.to - 1)
      BY <1>1, SeriesClosed DEF Selected, Closed
    <3> QED
      BY <3>1 DEF OpenedIn
  <2>4. Composable(r)
    BY <2>2, <2>3 DEF absent, Absent, Composable, CoverageComplete
  <2>5. <<r>> \in Seq(Request) /\ <<r>> # <<>>
    BY <1>1
  <2> QED
    BY <2>1, <2>4, <2>5
<1>10. CASE parts # {}
  <2>1. Missing(r) = all /\ N \in Nat /\ N > 0
    BY <1>3, <1>7, <1>10
  <2>2. all \in Seq(Request) /\ Len(all) = N
    BY <1>4, <1>8, <2>1
  <2>3. \A n \in DOMAIN all : all[n] \in parts
    BY <1>8
  <2> HIDE DEF all
  <2>4. all # <<>>
    BY <2>1, <2>2
  <2> QED
    BY <1>4, <2>1, <2>2, <2>3, <2>4 DEF absent
<1> QED
  BY <1>9, <1>10

-----------------------------------------------------------------------------
(***************************************************************************)
(* What the artifacts of a version, and the results about to be stored     *)
(* (the pool), agree on.  Freqtrade's rows are those of its own file,      *)
(* which keeps them.  Kraken's are those that the venue has while they are *)
(* downloaded; that they agree with older artifacts is due to              *)
(* missing_ranges, which asks for no candle that the series has: what is   *)
(* still to be downloaded has the venue's revision wherever it is known.   *)
(***************************************************************************)
Stores(f) == f.step \in {"check", "write"}

\* What a fetch adds to the pool.
New(f) == IF Stores(f) THEN f.result.bars ELSE {}

Pool == Series \cup UNION {New(fetch[w]) : w \in Workers}

AtVenue(bars) == \A b \in bars : b = <<b[1], venue[b[1]]>>

InFile(bars) == \A b \in bars : b[1] \in Opens /\ rawFile[b[1]] # 0 /\ b = <<b[1], rawFile[b[1]]>>

\* A version that is the current one, or was before it.
UpTo(v, current) ==
    /\ v = [semantic |-> v.semantic, format |-> v.format]
    /\ v.semantic \in Nat /\ v.format \in Nat
    /\ v.semantic <= current.semantic /\ v.format <= current.format

PartsReady(f) ==
    /\ f.step # "idle" => f.request \in Requests
    /\ f.parts \in Seq(Request)
    /\ f.step \in {"download", "read"} => f.parts # <<>>
    /\ f.step = "read" => provider = "freqtrade"

VenueReady(f, known) ==
    f.step # "idle" =>
        /\ AtVenue(f.rows)
        /\ \A n \in DOMAIN f.parts : AtVenue(Selected(known, f.parts[n]))
        /\ AtVenue(New(f)) \/ New(f) \subseteq Series

Unique(A) == \A a, b \in A : a.request = b.request => a = b

PartsInv == provider \in Providers /\ \A w \in Workers : PartsReady(fetch[w])

VersionInv ==
    /\ UpTo(version, version)
    /\ \A a \in artifacts : UpTo(a.version, version)
    /\ Unique(artifacts)
    /\ \A w \in Workers : Answered(w) => UpTo(fetch[w].result.version, version)
    /\ \A w \in Workers : Stores(fetch[w]) => fetch[w].result.version = version

FileInv ==
    provider = "freqtrade" =>
        /\ \A a \in artifacts : InFile(a.bars)
        /\ \A w \in Workers : InFile(New(fetch[w]))

VenueInv ==
    provider = "kraken" /\ ~raced =>
        /\ ~Conflicting(Pool)
        /\ \A w \in Workers : VenueReady(fetch[w], Pool)

PoolInv == PartsInv /\ VersionInv /\ FileInv /\ VenueInv /\ AnswersReload

-----------------------------------------------------------------------------
(* Rows that agree.                                                        *)

LEMMA FewerAgree ==
  ASSUME NEW bars, NEW some \in SUBSET bars, ~Conflicting(bars)
  PROVE  ~Conflicting(some)
BY DEF Conflicting

LEMMA VenueAgrees ==
  ASSUME NEW bars, AtVenue(bars)
  PROVE  ~Conflicting(bars)
<1> SUFFICES ASSUME NEW b \in bars, NEW c \in bars, b[1] = c[1] PROVE b = c
  BY DEF Conflicting
<1>1. b = <<b[1], venue[b[1]]>> /\ c = <<c[1], venue[c[1]]>>
  BY DEF AtVenue
<1> QED
  BY <1>1, Zenon

LEMMA FileAgrees ==
  ASSUME NEW bars, InFile(bars)
  PROVE  ~Conflicting(bars)
<1> SUFFICES ASSUME NEW b \in bars, NEW c \in bars, b[1] = c[1] PROVE b = c
  BY DEF Conflicting
<1>1. b = <<b[1], rawFile[b[1]]>> /\ c = <<c[1], rawFile[c[1]]>>
  BY DEF InFile
<1> QED
  BY <1>1, Zenon

LEMMA InPool ==
  /\ Series \subseteq Pool
  /\ \A w \in Workers : New(fetch[w]) \subseteq Pool
  /\ \A b \in Pool : b \in Series \/ \E w \in Workers : b \in New(fetch[w])
BY DEF Pool

LEMMA SeriesInFile ==
  ASSUME FileInv, provider = "freqtrade"
  PROVE  InFile(Series) /\ InFile(Pool)
<1>1. InFile(Series)
  BY DEF FileInv, InFile, Series, Usable
<1>2. \A w \in Workers : InFile(New(fetch[w]))
  BY DEF FileInv
<1>3. InFile(Pool)
  BY <1>1, <1>2, InPool DEF InFile
<1> QED
  BY <1>1, <1>3

\* Whatever the provider: the pool does not conflict.
LEMMA PoolAgrees ==
  ASSUME PoolInv, ~raced
  PROVE  ~Conflicting(Pool)
<1>1. provider = "kraken" \/ provider = "freqtrade"
  BY CacheAssumption DEF PoolInv, PartsInv
<1>2. CASE provider = "kraken"
  BY <1>2 DEF PoolInv, VenueInv
<1>3. CASE provider = "freqtrade"
  BY <1>3, SeriesInFile, FileAgrees DEF PoolInv
<1> QED
  BY <1>1, <1>2, <1>3

-----------------------------------------------------------------------------
(* A worker that moves on while the files stay as they are.                *)

LEMMA Moved ==
  ASSUME IInv, NEW w \in Workers, NEW next, Goto(w, next)
  PROVE  fetch'[w] = next /\ \A v \in Workers : v # w => fetch'[v] = fetch[v]
<1>1. fetch' = [v \in Workers |-> IF v = w THEN next ELSE fetch[v]]
  BY DEF Goto, IInv
<1> QED
  BY <1>1

LEMMA PartsMove ==
  ASSUME IInv, PartsInv, NEW w \in Workers, NEW next, Goto(w, next), PartsReady(next),
         provider' = provider
  PROVE  PartsInv'
<1>1. \A v \in Workers : PartsReady(fetch'[v])
  BY Moved DEF PartsInv
<1> QED
  BY <1>1 DEF PartsInv, PartsReady

LEMMA VersionMove ==
  ASSUME IInv, VersionInv, NEW w \in Workers, NEW next, Goto(w, next), version' = version,
         artifacts' = artifacts,
         next.step = "idle" /\ next.result # None => UpTo(next.result.version, version),
         Stores(next) => next.result.version = version
  PROVE  VersionInv'
<1>1. fetch'[w] = next /\ \A v \in Workers : v # w => fetch'[v] = fetch[v]
  BY Moved
<1>2. \A v \in Workers : /\ Answered(v)' => UpTo(fetch'[v].result.version, version)
                         /\ Stores(fetch'[v]) => fetch'[v].result.version = version
  BY <1>1 DEF VersionInv, Answered
<1> QED
  BY <1>2 DEF VersionInv, UpTo

LEMMA FileMove ==
  ASSUME IInv, FileInv, NEW w \in Workers, NEW next, Goto(w, next),
         UNCHANGED <<artifacts, rawFile, provider>>,
         provider = "freqtrade" => InFile(New(next))
  PROVE  FileInv'
<1>1. \A v \in Workers : provider = "freqtrade" => InFile(New(fetch'[v]))
  BY Moved DEF FileInv
<1> QED
  BY <1>1 DEF FileInv, InFile

\* What a worker adds to the pool is all that the pool gets.
LEMMA PoolMove ==
  ASSUME IInv, NEW w \in Workers, NEW next, Goto(w, next), UNCHANGED <<artifacts, version>>
  PROVE  Series' = Series /\ Pool' \subseteq Pool \cup New(next)
<1>1. Series' = Series
  BY DEF Series, Usable
<1>2. ASSUME NEW b \in Pool' PROVE b \in Pool \cup New(next)
  <2>1. b \in Series' \/ \E v \in Workers : b \in New(fetch'[v])
    BY DEF Pool, New, Stores
  <2>2. CASE b \in Series'
    BY <1>1, <2>2 DEF Pool
  <2>3. ASSUME NEW v \in Workers, b \in New(fetch'[v]) PROVE b \in Pool \cup New(next)
    <3>1. CASE v = w
      BY <2>3, <3>1, Moved
    <3>2. CASE v # w
      BY <2>3, <3>2, Moved, InPool
    <3> QED
      BY <3>1, <3>2
  <2> QED
    BY <2>1, <2>2, <2>3
<1> QED
  BY <1>1, <1>2

\* The others are as ready as before when only candles of the venue, or of the
\* series, are added.
LEMMA StillReady ==
  ASSUME NEW f, NEW known, NEW more, NEW added, more \subseteq known \cup added,
         AtVenue(added) \/ added \subseteq known, VenueReady(f, known)
  PROVE  VenueReady(f, more)
<1> SUFFICES ASSUME f.step # "idle", NEW n \in DOMAIN f.parts, NEW b \in Selected(more, f.parts[n])
             PROVE  b = <<b[1], venue[b[1]]>>
  BY DEF VenueReady, AtVenue
<1>1. AtVenue(Selected(known, f.parts[n]))
  BY DEF VenueReady
<1>2. CASE b \in known
  <2>1. b \in Selected(known, f.parts[n])
    BY <1>2 DEF Selected
  <2> QED
    BY <1>1, <2>1 DEF AtVenue
<1>3. CASE b \in added /\ AtVenue(added)
  BY <1>3 DEF AtVenue
<1>4. b \in more
  BY DEF Selected
<1> QED
  BY <1>2, <1>3, <1>4

LEMMA VenueMove ==
  ASSUME IInv, VenueInv, NEW w \in Workers, NEW next, Goto(w, next),
         UNCHANGED <<artifacts, version, provider, venue>>, raced => raced',
         provider = "kraken" /\ ~raced' => /\ ~Conflicting(Pool \cup New(next))
                                           /\ VenueReady(next, Pool \cup New(next))
  PROVE  VenueInv'
<1> SUFFICES ASSUME provider = "kraken", ~raced'
             PROVE  (~Conflicting(Pool) /\ \A v \in Workers : VenueReady(fetch[v], Pool))'
  BY DEF VenueInv
<1>1. Series' = Series /\ Pool' \subseteq Pool \cup New(next)
  BY PoolMove
<1>2. ~Conflicting(Pool \cup New(next)) /\ VenueReady(next, Pool \cup New(next))
  OBVIOUS
<1>3. \A v \in Workers : VenueReady(fetch[v], Pool)
  BY DEF VenueInv
<1>4. ~Conflicting(Pool')
  BY <1>1, <1>2, FewerAgree
<1>5. AtVenue(New(next)) \/ New(next) \subseteq Pool
  <2>1. CASE next.step = "idle"
    BY <2>1 DEF New, Stores
  <2>2. CASE next.step # "idle"
    BY <1>2, <2>2, InPool DEF VenueReady
  <2> QED
    BY <2>1, <2>2
<1>6. ASSUME NEW v \in Workers PROVE VenueReady(fetch'[v], Pool')
  <2>1. CASE v = w
    <3>1. VenueReady(next, Pool')
      BY <1>1, <1>2, StillReady
    <3> QED
      BY <2>1, <3>1, Moved
  <2>2. CASE v # w
    <3>1. VenueReady(fetch[v], Pool')
      BY <1>1, <1>3, <1>5, StillReady
    <3> QED
      BY <2>2, <3>1, Moved
  <2> QED
    BY <2>1, <2>2
<1>7. \A v \in Workers : VenueReady(fetch[v], Pool)'
  BY <1>1, <1>6 DEF VenueReady, AtVenue
<1>8. ~Conflicting(Pool)'
  BY <1>4 DEF Conflicting
<1> QED
  BY <1>7, <1>8

Reloads(a) == a.version = version => Hit(a.request) /\ At(a.request).bars = a.bars

LEMMA AnswersMove ==
  ASSUME IInv, AnswersReload, NEW w \in Workers, NEW next, Goto(w, next),
         UNCHANGED <<artifacts, version>>, raced => raced',
         ~raced /\ next.step = "idle" /\ next.result # None => Reloads(next.result)
  PROVE  AnswersReload'
<1>1. fetch'[w] = next /\ \A v \in Workers : v # w => fetch'[v] = fetch[v]
  BY Moved
<1>2. ~raced => \A v \in Workers : Answered(v)' => Reloads(fetch'[v].result)
  BY <1>1 DEF AnswersReload, Answered, Reloads
<1> QED
  BY <1>2 DEF AnswersReload, Answered, Reloads, Hit, At, Exists

\* What the next state of a worker needs, whatever the race.
Fits(f) ==
    /\ PartsReady(f)
    /\ f.step = "idle" /\ f.result # None =>
         UpTo(f.result.version, version) /\ (~raced => Reloads(f.result))
    /\ Stores(f) => f.result.version = version
    /\ provider = "freqtrade" => InFile(New(f))

LEMMA MoveKeeps ==
  ASSUME IInv, PoolInv, NEW w \in Workers, NEW next, Goto(w, next), Fits(next),
         UNCHANGED <<artifacts, rawFile, venue, provider, version>>, raced => raced',
         provider = "kraken" /\ ~raced' => /\ ~Conflicting(Pool \cup New(next))
                                           /\ VenueReady(next, Pool \cup New(next))
  PROVE  PoolInv'
<1>1. PartsInv'
  BY PartsMove DEF PoolInv, Fits
<1>2. VersionInv'
  BY VersionMove DEF PoolInv, Fits
<1>3. FileInv'
  BY FileMove DEF PoolInv, Fits
<1>4. VenueInv'
  BY VenueMove DEF PoolInv
<1>5. AnswersReload'
  BY AnswersMove DEF PoolInv, Fits
<1> QED
  BY <1>1, <1>2, <1>3, <1>4, <1>5 DEF PoolInv

\* A worker that adds nothing that the pool does not have.
LEMMA MoveWithinPool ==
  ASSUME IInv, PoolInv, NEW w \in Workers, NEW next, Goto(w, next), Fits(next),
         New(next) \subseteq Pool,
         UNCHANGED <<artifacts, rawFile, venue, provider, version>>, raced => raced',
         provider = "kraken" /\ ~raced' => VenueReady(next, Pool)
  PROVE  PoolInv'
<1>1. Pool \cup New(next) = Pool
  OBVIOUS
<1>2. provider = "kraken" /\ ~raced' => ~Conflicting(Pool)
  BY PoolAgrees
<1> QED
  BY <1>1, <1>2, MoveKeeps

LEMMA IdleFits ==
  ASSUME NEW answer,
         answer # None => UpTo(answer.version, version) /\ (~raced => Reloads(answer))
  PROVE  Fits(Idle(answer)) /\ New(Idle(answer)) = {} /\ VenueReady(Idle(answer), Pool)
<1> DEFINE f == Idle(answer)
<1>1. f.step = "idle" /\ f.parts = <<>> /\ f.result = answer
  BY DEF Idle
<1>2. New(f) = {} /\ ~Stores(f)
  BY <1>1 DEF New, Stores
<1> HIDE DEF f
<1>3. PartsReady(f)
  BY <1>1 DEF PartsReady
<1>4. Fits(f)
  BY <1>1, <1>2, <1>3 DEF Fits, InFile
<1>5. VenueReady(f, Pool)
  BY <1>1 DEF VenueReady
<1> QED
  BY <1>2, <1>4, <1>5 DEF f

LEMMA FailsPool ==
  ASSUME IInv, PoolInv, NEW w \in Workers, Goto(w, Idle(None)),
         UNCHANGED <<artifacts, rawFile, environment, raced>>
  PROVE  PoolInv'
<1>1. Fits(Idle(None)) /\ New(Idle(None)) = {} /\ VenueReady(Idle(None), Pool)
  BY IdleFits
<1>2. UNCHANGED <<artifacts, rawFile, venue, provider, version>> /\ (raced => raced')
  BY DEF environment
<1> QED
  BY <1>1, <1>2, MoveWithinPool

LEMMA LookupPool ==
  ASSUME IInv, PoolInv, NEW w \in Workers, NEW r \in Requests, Lookup(w, r)
  PROVE  PoolInv'
<1>1. UNCHANGED <<artifacts, rawFile, venue, provider, version>> /\ (raced => raced')
  BY DEF Lookup, environment
<1>2. CASE Hit(r) /\ CoverageComplete(At(r).bars, r) /\ r.to <= At(r).fetched
  <2>1. Goto(w, Idle(At(r)))
    BY <1>2 DEF Lookup, Serves
  <2>2. At(r) \in artifacts /\ At(r).request = r
    BY <1>2, Found DEF Hit
  <2>3. UpTo(At(r).version, version) /\ Reloads(At(r))
    BY <1>2, <2>2 DEF PoolInv, VersionInv, Reloads
  <2>4. Fits(Idle(At(r))) /\ New(Idle(At(r))) = {} /\ VenueReady(Idle(At(r)), Pool)
    BY <2>3, IdleFits
  <2> QED
    BY <1>1, <2>1, <2>4, MoveWithinPool
<1>3. CASE ~(Hit(r) /\ CoverageComplete(At(r).bars, r) /\ r.to <= At(r).fetched)
  <2> DEFINE f == Looking(r)
  <2>1. Goto(w, f)
    BY <1>3 DEF Lookup, Looking
  <2>2. f.step = "compose" /\ f.request = r /\ f.parts = <<>> /\ f.rows = {}
    BY LookStarted, Fields
  <2> HIDE DEF f
  <2>3. New(f) = {} /\ ~Stores(f)
    BY <2>2 DEF New, Stores
  <2>4. Fits(f)
    BY <2>2, <2>3 DEF Fits, PartsReady, InFile
  <2>5. VenueReady(f, Pool)
    BY <2>2, <2>3 DEF VenueReady, AtVenue
  <2> QED
    BY <1>1, <2>1, <2>3, <2>4, <2>5, MoveWithinPool
<1> QED
  BY <1>2, <1>3

\* What a worker at work has, in terms of its record.
LEMMA AtWork ==
  ASSUME IInv, PoolInv, NEW w \in Workers, fetch[w].step # "idle"
  PROVE  /\ Shape(fetch[w]) /\ fetch[w].request \in Requests
         /\ fetch[w].parts \in Seq(Request)
         /\ fetch[w].step \in {"download", "read"} => fetch[w].parts # <<>>
         /\ fetch[w].step = "read" => provider = "freqtrade"
         /\ Stores(fetch[w]) => fetch[w].result.version = version
         /\ provider = "freqtrade" => InFile(New(fetch[w]))
         /\ provider = "kraken" /\ ~raced => VenueReady(fetch[w], Pool)
<1>1. Shape(fetch[w])
  BY DEF IInv, FetchOK
<1>2. PartsReady(fetch[w])
  BY DEF PoolInv, PartsInv
<1>3. Stores(fetch[w]) => fetch[w].result.version = version
  BY DEF PoolInv, VersionInv
<1>4. provider = "freqtrade" => InFile(New(fetch[w]))
  BY DEF PoolInv, FileInv
<1>5. provider = "kraken" /\ ~raced => VenueReady(fetch[w], Pool)
  BY DEF PoolInv, VenueInv
<1> QED
  BY <1>1, <1>2, <1>3, <1>4, <1>5 DEF PartsReady

\* A worker that goes on with the same request, parts and rows, without a result.
LEMMA SameParts ==
  ASSUME IInv, PoolInv, NEW w \in Workers, fetch[w].step # "idle", NEW next,
         next.step \notin {"idle", "check", "write"}, next.request = fetch[w].request,
         next.parts = fetch[w].parts, next.rows = fetch[w].rows,
         next.step \in {"download", "read"} => next.parts # <<>>,
         next.step = "read" => provider = "freqtrade"
  PROVE  /\ Fits(next) /\ New(next) = {}
         /\ provider = "kraken" /\ ~raced => VenueReady(next, Pool)
<1>1. New(next) = {} /\ ~Stores(next)
  BY DEF New, Stores
<1>2. Fits(next)
  BY <1>1, AtWork DEF Fits, PartsReady, InFile
<1>3. provider = "kraken" /\ ~raced => VenueReady(next, Pool)
  BY <1>1, AtWork DEF VenueReady, AtVenue
<1> QED
  BY <1>1, <1>2, <1>3

LEMMA ComposePool ==
  ASSUME IInv, PoolInv, NEW w \in Workers, Compose(w) \/ Assemble(w)
  PROVE  PoolInv'
<1> DEFINE r == fetch[w].request
           result == Composed(r)
           check == Checking(fetch[w], result)
           plan == [fetch[w] EXCEPT !.step = "plan"]
<1>1. /\ fetch[w].step \in {"compose", "assemble"}
      /\ \/ Fails(w)
         \/ (Goto(w, check) \/ Goto(w, plan))
            /\ UNCHANGED <<artifacts, rawFile, environment, faults, raced>>
  BY DEF Compose, Assemble, Checking
<1>2. CASE Fails(w)
  BY <1>2, FailsPool DEF Fails
<1>3. CASE Goto(w, plan) /\ UNCHANGED <<artifacts, rawFile, environment, faults, raced>>
  <2> DEFINE f == fetch[w]
  <2>1. Shape(f) /\ f.step # "idle"
    BY <1>1, AtWork
  <2>2. Is(plan, "plan", f.request, f.parts, f.cursor, f.attempt, f.rows, f.result)
    BY <2>1, StepTaken
  <2> HIDE DEF plan, f
  <2>3. plan.step = "plan" /\ plan.request = f.request /\ plan.parts = f.parts
        /\ plan.rows = f.rows
    BY <2>2, Fields
  <2>4. Fits(plan) /\ New(plan) = {} /\ (provider = "kraken" /\ ~raced => VenueReady(plan, Pool))
    BY <2>1, <2>3, SameParts DEF f
  <2>5. UNCHANGED <<artifacts, rawFile, venue, provider, version, raced>>
    BY <1>3 DEF environment
  <2> QED
    BY <1>3, <2>4, <2>5, MoveWithinPool
<1>4. CASE Goto(w, check) /\ UNCHANGED <<artifacts, rawFile, environment, faults, raced>>
  <2> DEFINE f == fetch[w]
  <2>1. Shape(f) /\ f.step # "idle"
    BY <1>1, AtWork
  <2>2. result.version = version /\ result.bars \subseteq Series
    BY DEF Composed, Selected
  <2>3. Is(check, "check", f.request, f.parts, f.cursor, f.attempt, f.rows, result)
    BY <2>1, CheckStarted
  <2> HIDE DEF check, f, result
  <2>4. check.step = "check" /\ check.request = f.request /\ check.parts = f.parts
        /\ check.rows = f.rows /\ check.result = result
    BY <2>3, Fields
  <2>5. New(check) = result.bars /\ Stores(check)
    BY <2>4 DEF New, Stores
  <2>6. New(check) \subseteq Series /\ New(check) \subseteq Pool
    BY <2>2, <2>5, InPool
  <2>7. provider = "freqtrade" => InFile(New(check))
    <3>1. provider = "freqtrade" => InFile(Series)
      BY SeriesInFile DEF PoolInv
    <3> QED
      BY <2>6, <3>1 DEF InFile
  <2>8. Fits(check)
    BY <2>1, <2>2, <2>4, <2>5, <2>7, AtWork DEF Fits, PartsReady, f
  <2>9. provider = "kraken" /\ ~raced => VenueReady(check, Pool)
    BY <2>1, <2>4, <2>6, AtWork DEF VenueReady, f
  <2>10. UNCHANGED <<artifacts, rawFile, venue, provider, version, raced>>
    BY <1>4 DEF environment
  <2> QED
    BY <1>4, <2>6, <2>8, <2>9, <2>10, MoveWithinPool
<1> QED
  BY <1>1, <1>2, <1>3, <1>4

LEMMA PlanPool ==
  ASSUME IInv, PoolInv, NEW w \in Workers, Plan(w)
  PROVE  PoolInv'
<1> DEFINE r == fetch[w].request
           parts == Missing(r)
           next == StartPart(fetch[w], parts)
<1>1. /\ fetch[w].step = "plan"
      /\ \/ Fails(w)
         \/ /\ Goto(w, next) /\ UNCHANGED <<artifacts, rawFile, environment, faults>>
            /\ raced' = (raced \/ Composable(r))
  BY DEF Plan
<1>2. CASE Fails(w)
  BY <1>2, FailsPool DEF Fails
<1>3. CASE /\ Goto(w, next) /\ UNCHANGED <<artifacts, rawFile, environment, faults>>
           /\ raced' = (raced \/ Composable(r))
  <2>1. Shape(fetch[w]) /\ r \in Requests
    BY <1>1, AtWork
  <2>2. parts \in Seq(Request) /\ parts # <<>>
    BY <2>1, MissingIsAbsent
  <2>3. Is(next, "download", r, parts, Head(parts).from, 0, {}, None)
    BY <2>1, PartStarted
  <2> DEFINE f == fetch[w]
  <2> HIDE DEF next
  <2>4. next.step = "download" /\ next.request = r /\ next.parts = parts /\ next.rows = {}
    BY <2>3, Fields
  <2>5. New(next) = {} /\ ~Stores(next)
    BY <2>4 DEF New, Stores
  <2>6. Fits(next)
    BY <2>1, <2>2, <2>4, <2>5 DEF Fits, PartsReady, InFile
  <2>7. ASSUME provider = "kraken", ~raced' PROVE VenueReady(next, Pool)
    <3>1. ~raced /\ ~Composable(r)
      BY <1>3, <2>7
    <3>2. ASSUME NEW n \in DOMAIN parts, NEW b \in Selected(Pool, parts[n])
          PROVE  b = <<b[1], venue[b[1]]>>
      <4>1. /\ parts[n].asOf = r.asOf
            /\ \A o \in parts[n].from .. (parts[n].to - 1) : o \in Absent(r)
        BY <2>1, <3>1, MissingIsAbsent
      <4>2. /\ b \in Pool /\ parts[n].from <= b[1] /\ b[1] < parts[n].to
            /\ b[1] + 1 <= parts[n].asOf
        BY DEF Selected
      <4>3. parts[n] \in Request
        BY <2>2
      <4>4. CASE b \in Series
        <5>1. b[1] \in Int
          BY <4>4, SeriesClosed DEF Closed
        <5>2. b[1] \in parts[n].from .. (parts[n].to - 1)
          BY <4>2, <4>3, <5>1 DEF Request, Opens
        <5>3. b[1] \in Absent(r)
          BY <4>1, <5>2
        <5>4. b[1] \in r.from .. (r.to - 1) /\ b[1] \notin OpenedIn(Selected(Series, r))
          BY <5>3 DEF Absent
        <5>5. r \in Request
          BY <2>1, RequestAssumption
        <5>6. r.from <= b[1] /\ b[1] < r.to /\ b[1] + 1 <= r.asOf
          BY <4>1, <4>2, <5>1, <5>4, <5>5 DEF Request, Opens
        <5>7. b \in Selected(Series, r)
          BY <4>4, <5>6 DEF Selected
        <5> QED
          BY <5>4, <5>7 DEF OpenedIn
      <4>5. ASSUME NEW v \in Workers, b \in New(fetch[v]), b \notin Series
            PROVE  b = <<b[1], venue[b[1]]>>
        <5>1. VenueReady(fetch[v], Pool)
          BY <2>7, <3>1 DEF PoolInv, VenueInv
        <5>2. fetch[v].step # "idle"
          BY <4>5 DEF New, Stores
        <5>3. AtVenue(New(fetch[v]))
          BY <4>5, <5>1, <5>2 DEF VenueReady
        <5> QED
          BY <4>5, <5>3 DEF AtVenue
      <4> QED
        BY <4>2, <4>4, <4>5, InPool
    <3> QED
      BY <2>4, <2>5, <3>2 DEF VenueReady, AtVenue
  <2>8. UNCHANGED <<artifacts, rawFile, venue, provider, version>> /\ (raced => raced')
    BY <1>3 DEF environment
  <2> QED
    BY <1>3, <2>5, <2>6, <2>7, <2>8, MoveWithinPool
<1> QED
  BY <1>1, <1>2, <1>3

LEMMA RateLimitedPool ==
  ASSUME IInv, PoolInv, NEW w \in Workers, RateLimited(w)
  PROVE  PoolInv'
<1> DEFINE f == fetch[w]
           next == [f EXCEPT !.attempt = @ + 1]
<1>1. /\ f.step = "download"
      /\ \/ Fails(w)
         \/ Goto(w, next) /\ UNCHANGED <<artifacts, rawFile, environment, faults, raced>>
  BY DEF RateLimited
<1>2. CASE Fails(w)
  BY <1>2, FailsPool DEF Fails
<1>3. CASE Goto(w, next) /\ UNCHANGED <<artifacts, rawFile, environment, faults, raced>>
  <2>1. Shape(f) /\ f.parts # <<>>
    BY <1>1, AtWork
  <2>2. Is(next, f.step, f.request, f.parts, f.cursor, f.attempt + 1, f.rows, f.result)
    BY <2>1, Retried
  <2> HIDE DEF next
  <2>3. next.step = f.step /\ next.request = f.request /\ next.parts = f.parts
        /\ next.rows = f.rows
    BY <2>2, Fields
  <2>4. Fits(next) /\ New(next) = {} /\ (provider = "kraken" /\ ~raced => VenueReady(next, Pool))
    BY <1>1, <2>1, <2>3, SameParts
  <2>5. UNCHANGED <<artifacts, rawFile, venue, provider, version, raced>>
    BY <1>3 DEF environment
  <2> QED
    BY <1>3, <2>4, <2>5, MoveWithinPool
<1> QED
  BY <1>1, <1>2, <1>3

\* A download has the candles of its provider: of the venue or of the file.
LEMMA ReceivedPool ==
  ASSUME IInv, PoolInv, NEW w \in Workers, NEW rows, fetch[w].step \in {"download", "read"},
         provider = "kraken" /\ ~raced => AtVenue(rows),
         provider = "freqtrade" => InFile(rows), Received(w, rows)
  PROVE  PoolInv'
<1> DEFINE f == fetch[w]
           part == Head(f.parts)
           bars == Selected(rows, part)
           result == [request |-> part, bars |-> bars, fetched |-> clock, version |-> version]
           next == Storable(f, result)
<1>1. \/ Fails(w)
      \/ Goto(w, next) /\ UNCHANGED <<artifacts, rawFile, environment, faults, raced>>
  BY DEF Received, Storable
<1>2. CASE Fails(w)
  BY <1>2, FailsPool DEF Fails
<1>3. CASE Goto(w, next) /\ UNCHANGED <<artifacts, rawFile, environment, faults, raced>>
  <2>1. Shape(f) /\ f.step # "idle" /\ f.request \in Requests
        /\ f.parts \in Seq(Request) /\ f.parts # <<>>
    BY AtWork
  <2>2. result.version = version /\ result.bars = bars /\ bars \subseteq rows
    BY DEF Selected
  <2>3. Is(next, "check", f.request, f.parts, 0, 0, {}, result)
    BY <2>1, PartReceived
  <2> HIDE DEF next, result
  <2>4. next.step = "check" /\ next.request = f.request /\ next.parts = f.parts
        /\ next.rows = {} /\ next.result = result
    BY <2>3, Fields
  <2>5. New(next) = bars /\ Stores(next)
    BY <2>2, <2>4 DEF New, Stores
  <2>6. provider = "freqtrade" => InFile(bars)
    BY <2>2 DEF InFile
  <2>7. Fits(next)
    BY <2>1, <2>2, <2>4, <2>5, <2>6 DEF Fits, PartsReady
  <2>8. ASSUME provider = "kraken", ~raced
        PROVE  ~Conflicting(Pool \cup New(next)) /\ VenueReady(next, Pool \cup New(next))
    <3>1. AtVenue(bars) /\ ~Conflicting(Pool) /\ VenueReady(f, Pool)
      BY <2>2, <2>8, PoolAgrees DEF AtVenue, PoolInv, VenueInv
    <3>2. 1 \in DOMAIN f.parts /\ f.parts[1] = part
      BY <2>1
    <3>3. AtVenue(Selected(Pool, part))
      BY <2>1, <3>1, <3>2 DEF VenueReady
    <3>4. ASSUME NEW b \in Pool, NEW c \in bars, b[1] = c[1] PROVE b = c
      <4>1. b \in Selected(Pool, part)
        BY <3>4 DEF Selected
      <4>2. b = <<b[1], venue[b[1]]>> /\ c = <<c[1], venue[c[1]]>>
        BY <3>1, <3>3, <4>1 DEF AtVenue
      <4> QED
        BY <3>4, <4>2, Zenon
    <3>5. ~Conflicting(bars)
      BY <3>1, VenueAgrees
    <3>6. ~Conflicting(Pool \cup bars)
      <4> HIDE DEF bars
      <4> QED
        BY <3>1, <3>4, <3>5 DEF Conflicting
    <3>7. VenueReady(next, Pool)
      BY <2>1, <2>4, <2>5, <3>1 DEF VenueReady, AtVenue
    <3>8. VenueReady(next, Pool \cup bars)
      BY <3>1, <3>7, StillReady
    <3> QED
      BY <2>5, <3>6, <3>8
  <2>9. UNCHANGED <<artifacts, rawFile, venue, provider, version, raced>>
    BY <1>3 DEF environment
  <2> QED
    BY <1>3, <2>7, <2>8, <2>9, MoveKeeps
<1> QED
  BY <1>1, <1>2, <1>3

LEMMA FetchPagePool ==
  ASSUME IInv, PoolInv, NEW w \in Workers, FetchPage(w)
  PROVE  PoolInv'
<1> DEFINE f == fetch[w]
           page == Page(f.cursor)
           rows == f.rows \cup page
           cursor == IF page = {} THEN f.cursor ELSE Max(OpenedIn(page))
           next == Paged(f, rows, cursor)
<1>1. /\ f.step = "download" /\ provider = "kraken"
      /\ \/ Received(w, rows)
         \/ Goto(w, next) /\ UNCHANGED <<artifacts, rawFile, environment, faults, raced>>
  BY DEF FetchPage, Paged
<1>2. ~raced => AtVenue(rows)
  <2>1. AtVenue(page)
    BY DEF AtVenue, Page
  <2>2. ~raced => AtVenue(f.rows)
    BY <1>1, AtWork DEF VenueReady
  <2> HIDE DEF page
  <2> QED
    BY <2>1, <2>2 DEF AtVenue
<1> HIDE DEF cursor, rows
<1>3. CASE Received(w, rows)
  BY <1>1, <1>2, <1>3, ReceivedPool
<1>4. CASE Goto(w, next) /\ UNCHANGED <<artifacts, rawFile, environment, faults, raced>>
  <2>1. Shape(f) /\ f.request \in Requests /\ f.parts \in Seq(Request) /\ f.parts # <<>>
    BY <1>1, AtWork
  <2>2. Is(next, f.step, f.request, f.parts, cursor, 0, rows, f.result)
    BY <2>1, PageTurned
  <2> HIDE DEF next
  <2>3. next.step = "download" /\ next.request = f.request /\ next.parts = f.parts
        /\ next.rows = rows
    BY <1>1, <2>2, Fields
  <2>4. New(next) = {} /\ ~Stores(next)
    BY <2>3 DEF New, Stores
  <2>5. Fits(next)
    BY <2>1, <2>3, <2>4 DEF Fits, PartsReady, InFile
  <2>6. ~raced => VenueReady(next, Pool)
    BY <1>1, <1>2, <2>3, <2>4, AtWork DEF VenueReady, AtVenue
  <2>7. UNCHANGED <<artifacts, rawFile, venue, provider, version, raced>>
    BY <1>4 DEF environment
  <2> QED
    BY <1>4, <2>4, <2>5, <2>6, <2>7, MoveWithinPool
<1> QED
  BY <1>1, <1>3, <1>4


\* Freqtrade's file keeps the rows it has, and a fetch of it only adds others.
LEMMA DownloadPool ==
  ASSUME IInv, PoolInv, NEW w \in Workers, DownloadToFile(w)
  PROVE  PoolInv'
<1> DEFINE f == fetch[w]
           next == [f EXCEPT !.step = "read"]
<1>1. /\ f.step = "download" /\ provider = "freqtrade" /\ Goto(w, next)
      /\ UNCHANGED <<artifacts, version, provider, raced>>
      /\ \A o \in Opens : rawFile[o] # 0 => rawFile'[o] = rawFile[o]
  BY DEF DownloadToFile, environment
<1>2. Shape(f) /\ f.parts # <<>>
  BY <1>1, AtWork
<1>3. Is(next, "read", f.request, f.parts, f.cursor, f.attempt, f.rows, f.result)
  BY <1>2, StepTaken
<1> HIDE DEF next
<1>4. next.step = "read" /\ next.request = f.request /\ next.parts = f.parts
      /\ next.rows = f.rows
  BY <1>3, Fields
<1>5. Fits(next) /\ New(next) = {}
  BY <1>1, <1>2, <1>4, SameParts
<1>6. PartsInv'
  BY <1>1, <1>5, PartsMove DEF PoolInv, Fits
<1>7. VersionInv'
  BY <1>1, <1>4, <1>5, VersionMove DEF PoolInv, Fits
<1>8. FileInv'
  <2> DEFINE Still(bars) == \A b \in bars : /\ b[1] \in Opens /\ rawFile'[b[1]] # 0
                                            /\ b = <<b[1], rawFile'[b[1]]>>
  <2>1. \A bars : InFile(bars) => Still(bars)
    BY <1>1 DEF InFile
  <2>2. \A a \in artifacts' : Still(a.bars)
    BY <1>1, <2>1 DEF PoolInv, FileInv
  <2>3. \A v \in Workers : Still(New(fetch'[v]))
    <3>1. \A v \in Workers : InFile(New(fetch'[v]))
      BY <1>1, <1>5, Moved DEF PoolInv, FileInv, InFile
    <3> QED
      BY <2>1, <3>1
  <2> QED
    BY <2>2, <2>3 DEF FileInv, InFile
<1>9. VenueInv'
  BY <1>1 DEF VenueInv
<1>10. AnswersReload'
  BY <1>1, <1>4, AnswersMove DEF PoolInv
<1> QED
  BY <1>6, <1>7, <1>8, <1>9, <1>10 DEF PoolInv

LEMMA ReadFilePool ==
  ASSUME IInv, PoolInv, NEW w \in Workers, ReadFile(w)
  PROVE  PoolInv'
<1> DEFINE rows == {<<o, rawFile[o]>> : o \in {x \in Opens : rawFile[x] # 0}}
<1>1. fetch[w].step = "read" /\ Received(w, rows)
  BY DEF ReadFile
<1>2. provider = "freqtrade"
  BY <1>1, AtWork
<1>3. InFile(rows)
  BY DEF InFile
<1> HIDE DEF rows
<1> QED
  BY <1>1, <1>2, <1>3, ReceivedPool

\* After a store nothing is about to be stored, and the rest of the parts are to do.
LEMMA AfterStorePool ==
  ASSUME IInv, PoolInv, NEW w \in Workers, Stores(fetch[w]), AfterStore(w)
  PROVE  \E next :
           /\ Goto(w, next) /\ PartsReady(next) /\ ~Stores(next) /\ New(next) = {}
           /\ next.step = "idle" => next.result = fetch[w].result
           /\ provider = "kraken" /\ ~raced => VenueReady(next, Pool)
<1> DEFINE f == fetch[w]
           parts == Tail(f.parts)
           idle == Idle(f.result)
           part == StartPart(f, parts)
           last == Assembling(f)
<1>1. \/ Goto(w, idle)
      \/ f.parts # <<>> /\ Len(f.parts) > 1 /\ Goto(w, part)
      \/ Goto(w, last)
  BY DEF AfterStore, Serves, Assembling
<1>2. /\ Shape(f) /\ f.step # "idle" /\ f.request \in Requests /\ f.parts \in Seq(Request)
      /\ provider = "kraken" /\ ~raced => VenueReady(f, Pool)
  BY AtWork DEF Stores
<1>3. CASE Goto(w, idle)
  <2>1. idle.step = "idle" /\ idle.parts = <<>> /\ idle.result = f.result
    BY DEF Idle
  <2> HIDE DEF idle
  <2>2. ~Stores(idle) /\ New(idle) = {} /\ PartsReady(idle) /\ VenueReady(idle, Pool)
    BY <2>1 DEF Stores, New, PartsReady, VenueReady
  <2> QED
    BY <1>3, <2>1, <2>2
<1>4. CASE f.parts # <<>> /\ Len(f.parts) > 1 /\ Goto(w, part)
  <2>1. /\ parts \in Seq(Request) /\ parts # <<>>
        /\ \A n \in DOMAIN parts : n + 1 \in DOMAIN f.parts /\ parts[n] = f.parts[n + 1]
    <3>1. f.parts \in Seq(Request) /\ f.parts # <<>>
      BY <1>2, <1>4
    <3>2. /\ parts \in Seq(Request) /\ Len(parts) = Len(f.parts) - 1
          /\ \A n \in 1 .. Len(parts) : parts[n] = f.parts[n + 1]
      BY <3>1, HeadTailProperties
    <3>3. Len(f.parts) \in Nat /\ DOMAIN f.parts = 1 .. Len(f.parts)
          /\ DOMAIN parts = 1 .. Len(parts)
      BY <3>1, <3>2, LenProperties
    <3> HIDE DEF parts
    <3>4. parts # <<>>
      BY <1>4, <3>2, <3>3
    <3> QED
      BY <3>2, <3>3, <3>4
  <2>2. Is(part, "download", f.request, parts, Head(parts).from, 0, {}, None)
    BY <1>2, PartStarted
  <2> HIDE DEF part, parts
  <2>3. part.step = "download" /\ part.request = f.request /\ part.parts = parts /\ part.rows = {}
    BY <2>2, Fields
  <2>4. ~Stores(part) /\ New(part) = {} /\ PartsReady(part)
    BY <1>2, <2>1, <2>3 DEF Stores, New, PartsReady
  <2>5. provider = "kraken" /\ ~raced => VenueReady(part, Pool)
    BY <1>2, <2>1, <2>3, <2>4 DEF VenueReady, AtVenue
  <2> QED
    BY <1>4, <2>3, <2>4, <2>5
<1>5. CASE Goto(w, last)
  <2>1. Is(last, "assemble", f.request, <<>>, f.cursor, f.attempt, f.rows, None)
    BY <1>2, AssemblyStarted
  <2> HIDE DEF last
  <2>2. last.step = "assemble" /\ last.request = f.request /\ last.parts = <<>>
        /\ last.rows = f.rows
    BY <2>1, Fields
  <2>3. ~Stores(last) /\ New(last) = {} /\ PartsReady(last)
    BY <1>2, <2>2 DEF Stores, New, PartsReady
  <2>4. provider = "kraken" /\ ~raced => VenueReady(last, Pool)
    BY <1>2, <2>2, <2>3 DEF VenueReady, AtVenue
  <2> QED
    BY <1>5, <2>2, <2>3, <2>4
<1> QED
  BY <1>1, <1>3, <1>4, <1>5

\* A result that is already there is the artifact that holds it.
LEMMA CheckPool ==
  ASSUME IInv, PoolInv, NEW w \in Workers, Check(w)
  PROVE  PoolInv'
<1> DEFINE f == fetch[w]
           result == f.result
           write == [f EXCEPT !.step = "write"]
<1>1. /\ f.step = "check" /\ Stores(f)
      /\ \/ Fails(w)
         \/ /\ Refusal(result) = None /\ Exists(result.request) /\ AfterStore(w)
            /\ UNCHANGED <<artifacts, rawFile, environment, faults, raced>>
         \/ /\ Goto(w, write) /\ UNCHANGED <<artifacts, rawFile, environment, faults, raced>>
  BY DEF Check, Stores
<1>2. Shape(f) /\ f.step # "idle" /\ result.version = version
  BY <1>1, AtWork
<1>3. CASE Fails(w)
  BY <1>3, FailsPool DEF Fails
<1>4. CASE /\ Refusal(result) = None /\ Exists(result.request) /\ AfterStore(w)
           /\ UNCHANGED <<artifacts, rawFile, environment, faults, raced>>
  <2>1. PICK next :
          /\ Goto(w, next) /\ PartsReady(next) /\ ~Stores(next) /\ New(next) = {}
          /\ next.step = "idle" => next.result = result
          /\ provider = "kraken" /\ ~raced => VenueReady(next, Pool)
    BY <1>1, <1>4, AfterStorePool
  <2>2. /\ At(result.request).version.format = version.format
        /\ At(result.request).version.semantic = result.version.semantic
        /\ At(result.request).bars = result.bars
    BY <1>4, CacheAssumption DEF Refusal
  <2>3. UpTo(version, version) /\ UpTo(At(result.request).version, version)
    BY <1>4, Found DEF PoolInv, VersionInv
  <2>4. At(result.request).version = version
    BY <1>2, <2>2, <2>3 DEF UpTo
  <2>5. Reloads(result)
    BY <1>4, <2>2, <2>4 DEF Reloads, Hit
  <2>6. Fits(next)
    BY <1>2, <2>1, <2>3, <2>5 DEF Fits, InFile
  <2>7. UNCHANGED <<artifacts, rawFile, venue, provider, version, raced>>
    BY <1>4 DEF environment
  <2> QED
    BY <2>1, <2>6, <2>7, MoveWithinPool
<1>5. CASE Goto(w, write) /\ UNCHANGED <<artifacts, rawFile, environment, faults, raced>>
  <2>1. Is(write, "write", f.request, f.parts, f.cursor, f.attempt, f.rows, f.result)
    BY <1>2, StepTaken
  <2> HIDE DEF write
  <2>2. write.step = "write" /\ write.request = f.request /\ write.parts = f.parts
        /\ write.rows = f.rows /\ write.result = result
    BY <2>1, Fields
  <2>3. New(write) = New(f) /\ Stores(write)
    BY <1>1, <2>2 DEF New, Stores
  <2>4. New(write) \subseteq Pool
    BY <2>3, InPool
  <2>5. Fits(write)
    BY <1>2, <2>2, <2>3, AtWork DEF Fits, PartsReady
  <2>6. provider = "kraken" /\ ~raced => VenueReady(write, Pool)
    BY <1>2, <2>2, <2>3, AtWork DEF VenueReady
  <2>7. UNCHANGED <<artifacts, rawFile, venue, provider, version, raced>>
    BY <1>5 DEF environment
  <2> QED
    BY <1>5, <2>4, <2>5, <2>6, <2>7, MoveWithinPool
<1> QED
  BY <1>1, <1>3, <1>4, <1>5


\* The one artifact of a request.
LEMMA TheOne ==
  ASSUME NEW A, Unique(A), NEW a \in A
  PROVE  (CHOOSE b \in A : b.request = a.request) = a
<1> DEFINE c == CHOOSE b \in A : b.request = a.request
<1>1. c \in A /\ c.request = a.request
  OBVIOUS
<1> HIDE DEF c
<1>2. c = a
  BY <1>1 DEF Unique
<1> QED
  BY <1>2 DEF c

LEMMA SameBars ==
  ASSUME NEW all, ~Conflicting(all), NEW x \in SUBSET all, NEW y \in SUBSET all,
         OpenedIn(x) = OpenedIn(y)
  PROVE  x = y
<1>1. ASSUME NEW S \in SUBSET all, NEW T \in SUBSET all, OpenedIn(S) = OpenedIn(T), NEW b \in S
      PROVE  b \in T
  <2>1. b[1] \in OpenedIn(T)
    BY <1>1 DEF OpenedIn
  <2>2. PICK c \in T : c[1] = b[1]
    BY <2>1 DEF OpenedIn
  <2>3. b = c
    BY <2>2 DEF Conflicting
  <2> QED
    BY <2>3
<1>2. \A b \in x : b \in y
  BY <1>1
<1>3. \A b \in y : b \in x
  BY <1>1
<1> QED
  BY <1>2, <1>3

\* A result about to be written has the candles of a usable artifact at its path.
LEMMA WrittenAgain ==
  ASSUME IInv, PoolInv, ~raced, NEW w \in Workers, fetch[w].step = "write",
         NEW a \in Usable, a.request = fetch[w].result.request
  PROVE  a.bars = fetch[w].result.bars
<1> DEFINE res == fetch[w].result
<1>1. CoverageComplete(res.bars, res.request)
  BY DEF IInv, FetchOK
<1>2. CoverageComplete(a.bars, a.request)
  BY DEF IInv, Exact, Usable
<1>3. OpenedIn(a.bars) = OpenedIn(res.bars)
  BY <1>1, <1>2 DEF CoverageComplete
<1>4. res.bars \subseteq Pool
  <2>1. New(fetch[w]) = res.bars
    BY DEF New, Stores
  <2> QED
    BY <2>1, InPool
<1>5. a.bars \subseteq Pool
  <2>1. a.bars \subseteq Series
    BY DEF Series
  <2> QED
    BY <2>1, InPool
<1>6. ~Conflicting(Pool)
  BY PoolAgrees
<1> QED
  BY <1>3, <1>4, <1>5, <1>6, SameBars

LEMMA WritePool ==
  ASSUME IInv, PoolInv, NEW w \in Workers, Write(w)
  PROVE  PoolInv'
<1> DEFINE f == fetch[w]
           res == f.result
<1>1. /\ f.step = "write" /\ Stores(f) /\ New(f) = res.bars
      /\ AfterStore(w)
      /\ UNCHANGED <<rawFile, venue, provider, version, raced>>
  BY DEF Write, environment, Stores, New
<1>2. artifacts' = {a \in artifacts : a.request # res.request} \cup {res}
  BY DEF Write
<1>3. res.version = version /\ UpTo(version, version) /\ Unique(artifacts)
      /\ (provider = "freqtrade" => InFile(res.bars))
  BY <1>1, AtWork DEF PoolInv, VersionInv, Stores
<1>4. PICK next :
        /\ Goto(w, next) /\ PartsReady(next) /\ ~Stores(next) /\ New(next) = {}
        /\ next.step = "idle" => next.result = res
        /\ provider = "kraken" /\ ~raced => VenueReady(next, Pool)
  BY <1>1, AfterStorePool
<1>5. fetch'[w] = next /\ \A v \in Workers : v # w => fetch'[v] = fetch[v]
  BY <1>4, Moved
<1>6. Unique(artifacts')
  BY <1>2, <1>3 DEF Unique
<1>7. PartsInv'
  BY <1>1, <1>4, PartsMove DEF PoolInv
<1>8. VersionInv'
  <2>1. \A a \in artifacts' : UpTo(a.version, version)
    BY <1>2, <1>3 DEF PoolInv, VersionInv
  <2>2. \A v \in Workers : /\ Answered(v)' => UpTo(fetch'[v].result.version, version)
                           /\ Stores(fetch'[v]) => fetch'[v].result.version = version
    BY <1>3, <1>4, <1>5 DEF PoolInv, VersionInv, Answered
  <2> QED
    BY <1>1, <1>3, <1>6, <2>1, <2>2 DEF VersionInv, UpTo
<1>9. FileInv'
  <2>1. provider = "freqtrade" => \A a \in artifacts' : InFile(a.bars)
    BY <1>2, <1>3 DEF PoolInv, FileInv
  <2>2. provider = "freqtrade" => \A v \in Workers : InFile(New(fetch'[v]))
    BY <1>4, <1>5 DEF PoolInv, FileInv, InFile
  <2> QED
    BY <1>1, <2>1, <2>2 DEF FileInv, InFile
<1>10. VenueInv'
  <2> SUFFICES ASSUME provider = "kraken", ~raced
               PROVE  (~Conflicting(Pool) /\ \A v \in Workers : VenueReady(fetch[v], Pool))'
    BY <1>1 DEF VenueInv
  <2>1. ~Conflicting(Pool) /\ \A v \in Workers : VenueReady(fetch[v], Pool)
    BY DEF PoolInv, VenueInv
  <2>2. res.bars \subseteq Pool
    BY <1>1, InPool
  <2>3. Series' = UNION {a.bars : a \in {x \in artifacts' : x.version = version}}
    BY <1>1 DEF Series, Usable
  <2>4. Series' \subseteq Pool
    <3>1. ASSUME NEW a \in artifacts', a.version = version PROVE a.bars \subseteq Pool
      <4>1. CASE a = res
        BY <2>2, <4>1
      <4>2. CASE a # res
        <5>1. a \in Usable
          BY <1>2, <3>1, <4>2 DEF Usable
        <5>2. a.bars \subseteq Series
          BY <5>1 DEF Series
        <5> QED
          BY <5>2, InPool
      <4> QED
        BY <4>1, <4>2
    <3> QED
      BY <2>3, <3>1
  <2>5. Series \subseteq Series'
    <3>1. ASSUME NEW a \in Usable PROVE a.bars \subseteq Series'
      <4>1. CASE a.request = res.request
        <5>1. a.bars = res.bars
          BY <1>1, <4>1, WrittenAgain
        <5> QED
          BY <1>2, <1>3, <2>3, <5>1
      <4>2. CASE a.request # res.request
        BY <1>2, <2>3, <4>2 DEF Usable
      <4> QED
        BY <4>1, <4>2
    <3> QED
      BY <3>1 DEF Series
  <2>6. Pool' \subseteq Pool
    <3>1. ASSUME NEW b \in Pool' PROVE b \in Pool
      <4>1. b \in Series' \/ \E v \in Workers : b \in New(fetch'[v])
        BY DEF Pool, New, Stores
      <4>2. ASSUME NEW v \in Workers, b \in New(fetch'[v]) PROVE b \in Pool
        BY <1>4, <1>5, <4>2, InPool
      <4> QED
        BY <2>4, <4>1, <4>2
    <3> QED
      BY <3>1
  <2>7. ~Conflicting(Pool')
    BY <2>1, <2>6, FewerAgree
  <2>8. ASSUME NEW v \in Workers PROVE VenueReady(fetch'[v], Pool')
    <3>1. VenueReady(fetch'[v], Pool)
      BY <1>4, <1>5, <2>1
    <3> QED
      BY <2>6, <3>1, StillReady
  <2>9. \A v \in Workers : VenueReady(fetch[v], Pool)'
    BY <1>1, <2>5, <2>8 DEF VenueReady, AtVenue, New, Stores
  <2>10. ~Conflicting(Pool)'
    BY <2>7 DEF Conflicting
  <2> QED
    BY <2>9, <2>10
<1>11. AnswersReload'
  <2> SUFFICES ASSUME ~raced, NEW v \in Workers, Answered(v)', fetch'[v].result.version = version
               PROVE  (Hit(fetch[v].result.request)
                       /\ At(fetch[v].result.request).bars = fetch[v].result.bars)'
    BY <1>1 DEF AnswersReload
  <2> DEFINE answer == fetch'[v].result
  <2>1. \E a \in artifacts' : a.request = answer.request /\ a.version = version
                              /\ a.bars = answer.bars
    <3>1. CASE v = w
      <4>1. answer = res
        BY <1>4, <1>5, <3>1 DEF Answered
      <4> QED
        BY <1>2, <1>3, <4>1
    <3>2. CASE v # w
      <4>1. Answered(v) /\ answer = fetch[v].result
        BY <1>5, <3>2 DEF Answered
      <4>2. Hit(answer.request) /\ At(answer.request).bars = answer.bars
        BY <4>1 DEF PoolInv, AnswersReload
      <4> HIDE DEF answer
      <4>3. PICK a \in artifacts : a.request = answer.request /\ a.version = version
                                   /\ a.bars = answer.bars
        BY <4>2, Found DEF Hit
      <4>4. CASE a.request = res.request
        <5>1. a.bars = res.bars
          BY <1>1, <4>3, <4>4, WrittenAgain DEF Usable
        <5> QED
          BY <1>2, <1>3, <4>3, <4>4, <5>1
      <4>5. CASE a.request # res.request
        BY <1>2, <4>3, <4>5
      <4> QED
        BY <4>4, <4>5
    <3> QED
      BY <3>1, <3>2
  <2> HIDE DEF answer
  <2>2. PICK a \in artifacts' : a.request = answer.request /\ a.version = version
                                /\ a.bars = answer.bars
    BY <2>1
  <2>3. (CHOOSE b \in artifacts' : b.request = answer.request) = a
    BY <1>6, <2>2, TheOne
  <2> QED
    BY <1>1, <2>2, <2>3 DEF Hit, Exists, At, answer
<1> QED
  BY <1>7, <1>8, <1>9, <1>10, <1>11 DEF PoolInv

-----------------------------------------------------------------------------
(* The venue and restarts.                                                 *)

\* With every fetch idle, or the venue as it was, nothing else matters.
LEMMA SamePool ==
  ASSUME PoolInv, UNCHANGED <<provider, version, artifacts, rawFile, fetch>>, raced => raced',
         venue' = venue \/ raced' \/ \A w \in Workers : fetch[w].step = "idle"
  PROVE  PoolInv'
<1>1. PartsInv'
  BY DEF PoolInv, PartsInv, PartsReady
<1>2. VersionInv'
  BY DEF PoolInv, VersionInv, UpTo, Unique, Answered, Stores
<1>3. FileInv'
  BY DEF PoolInv, FileInv, InFile, New, Stores
<1>4. Series' = Series /\ Pool' = Pool
  BY DEF Pool, Series, Usable, New, Stores
<1>5. VenueInv'
  <2> SUFFICES ASSUME provider = "kraken", ~raced'
               PROVE  (~Conflicting(Pool) /\ \A v \in Workers : VenueReady(fetch[v], Pool))'
    BY DEF VenueInv
  <2>1. ~Conflicting(Pool) /\ \A v \in Workers : VenueReady(fetch[v], Pool)
    BY DEF PoolInv, VenueInv
  <2>2. \A v \in Workers : VenueReady(fetch[v], Pool)'
    BY <1>4, <2>1 DEF VenueReady, AtVenue, New, Stores
  <2>3. ~Conflicting(Pool)'
    BY <1>4, <2>1 DEF Conflicting
  <2> QED
    BY <2>2, <2>3
<1>6. AnswersReload'
  BY DEF PoolInv, AnswersReload, Answered, Hit, Exists, At
<1> QED
  BY <1>1, <1>2, <1>3, <1>5, <1>6 DEF PoolInv

LEMMA UpgradesFollow ==
  ASSUME UpTo(version, version), NEW v \in Upgrades
  PROVE  /\ UpTo(v, v)
         /\ \A u : UpTo(u, version) => UpTo(u, v)
         /\ \A u : UpTo(u, version) /\ u = v => v = version
<1>1. version.semantic \in Nat /\ version.format \in Nat
      /\ version = [semantic |-> version.semantic, format |-> version.format]
  BY DEF UpTo
<1>2. PICK s \in {version.semantic, version.semantic + 1}, t \in {version.format, version.format + 1} :
        v = [semantic |-> s, format |-> t]
  <2>1. CASE v = version
    BY <1>1, <2>1
  <2>2. CASE v = [version EXCEPT !.semantic = @ + 1]
    <3>1. v = [semantic |-> version.semantic + 1, format |-> version.format]
      BY <1>1, <2>2
    <3> QED
      BY <3>1
  <2>3. CASE v = [version EXCEPT !.format = @ + 1]
    <3>1. v = [semantic |-> version.semantic, format |-> version.format + 1]
      BY <1>1, <2>3
    <3> QED
      BY <3>1
  <2> QED
    BY <2>1, <2>2, <2>3 DEF Upgrades
<1>3. v.semantic = s /\ v.format = t
  BY <1>2
<1>4. UpTo(v, v)
  BY <1>1, <1>2, <1>3 DEF UpTo
<1>5. ASSUME NEW u, UpTo(u, version) PROVE UpTo(u, v)
  BY <1>1, <1>2, <1>3, <1>5 DEF UpTo
<1>6. ASSUME NEW u, UpTo(u, version), u = v PROVE v = version
  <2>1. s <= version.semantic /\ t <= version.format
    BY <1>3, <1>6 DEF UpTo
  <2>2. s = version.semantic /\ t = version.format
    BY <1>1, <2>1
  <2> QED
    BY <1>1, <1>2, <2>2
<1> QED
  BY <1>4, <1>5, <1>6

LEMMA RestartPool ==
  ASSUME IInv, PoolInv, NEW v \in Upgrades, Restart(v)
  PROVE  PoolInv'
<1>1. /\ fetch' = [w \in Workers |-> IF fetch[w].step = "idle" THEN fetch[w] ELSE Idle(None)]
      /\ version' = v /\ UNCHANGED <<venue, provider, artifacts, rawFile, raced>>
  BY DEF Restart
<1>2. /\ UpTo(v, v)
      /\ \A u : UpTo(u, version) => UpTo(u, v)
      /\ \A u : UpTo(u, version) /\ u = v => v = version
  BY UpgradesFollow DEF PoolInv, VersionInv
<1>3. /\ Idle(None).step = "idle" /\ Idle(None).parts = <<>> /\ Idle(None).result = None
  BY DEF Idle
<1>4. ASSUME NEW w \in Workers
      PROVE  /\ fetch'[w].step = "idle"
             /\ \/ fetch'[w] = fetch[w]
                \/ fetch'[w].result = None /\ fetch'[w].parts = <<>>
  BY <1>1, <1>3
<1>5. \A w \in Workers : ~Stores(fetch'[w]) /\ New(fetch'[w]) = {}
  BY <1>4 DEF Stores, New
<1>6. \A w \in Workers : Answered(w)' => Answered(w) /\ fetch'[w].result = fetch[w].result
  BY <1>4 DEF Answered
<1>7. PartsInv'
  <2>1. ASSUME NEW w \in Workers PROVE fetch'[w].step = "idle" /\ fetch'[w].parts \in Seq(Request)
    <3>1. fetch[w].parts \in Seq(Request)
      BY DEF PoolInv, PartsInv, PartsReady
    <3>2. <<>> \in Seq(Request)
      OBVIOUS
    <3> QED
      BY <1>4, <3>1, <3>2
  <2>2. \A w \in Workers : PartsReady(fetch[w])'
    BY <2>1 DEF PartsReady
  <2> QED
    BY <1>1, <2>2 DEF PoolInv, PartsInv
<1>8. VersionInv'
  <2>1. \A a \in artifacts : UpTo(a.version, v)
    BY <1>2 DEF PoolInv, VersionInv
  <2>2. \A w \in Workers : Answered(w)' => UpTo(fetch'[w].result.version, v)
    BY <1>2, <1>6 DEF PoolInv, VersionInv
  <2>3. Unique(artifacts)
    BY DEF PoolInv, VersionInv
  <2> QED
    BY <1>1, <1>2, <1>5, <2>1, <2>2, <2>3 DEF VersionInv, UpTo, Unique, Stores
<1>9. FileInv'
  <2>1. provider = "freqtrade" => \A a \in artifacts : InFile(a.bars)
    BY DEF PoolInv, FileInv
  <2>2. \A w \in Workers : InFile(New(fetch'[w]))
    BY <1>5 DEF InFile
  <2> QED
    BY <1>1, <2>1, <2>2 DEF FileInv, InFile
<1>10. VenueInv'
  <2>1. Series' \subseteq Series
    <3>1. CASE v = version
      BY <1>1, <3>1 DEF Series, Usable
    <3>2. CASE v # version
      <4>1. \A a \in artifacts : a.version # v
        BY <1>2, <3>2 DEF PoolInv, VersionInv
      <4> QED
        BY <1>1, <4>1 DEF Series, Usable
    <3> QED
      BY <3>1, <3>2
  <2>2. Pool' \subseteq Pool
    <3>1. \A b \in Pool' : b \in Series' \/ \E w \in Workers : b \in New(fetch'[w])
      BY DEF Pool, New, Stores
    <3> QED
      BY <1>5, <2>1, <3>1, InPool
  <2>3. provider = "kraken" /\ ~raced => ~Conflicting(Pool')
    BY <2>2, FewerAgree DEF PoolInv, VenueInv
  <2>4. \A w \in Workers : VenueReady(fetch[w], Pool)'
    BY <1>4 DEF VenueReady
  <2> QED
    BY <1>1, <2>3, <2>4 DEF VenueInv, Conflicting
<1>11. AnswersReload'
  <2>1. ASSUME ~raced, NEW w \in Workers, Answered(w)', fetch'[w].result.version = v
        PROVE  /\ v = version
               /\ Hit(fetch'[w].result.request)
               /\ At(fetch'[w].result.request).bars = fetch'[w].result.bars
    <3>1. Answered(w) /\ fetch'[w].result = fetch[w].result
      BY <1>6, <2>1
    <3>2. v = version
      BY <1>2, <2>1, <3>1 DEF PoolInv, VersionInv
    <3> QED
      BY <2>1, <3>1, <3>2 DEF PoolInv, AnswersReload
  <2> QED
    BY <1>1, <2>1 DEF AnswersReload, Hit, Exists, At
<1> QED
  BY <1>7, <1>8, <1>9, <1>10, <1>11 DEF PoolInv

-----------------------------------------------------------------------------
(* The specification.                                                      *)

LEMMA PoolInit ==
  Init => PoolInv
<1> SUFFICES ASSUME Init PROVE PoolInv
  OBVIOUS
<1>1. \A w \in Workers : fetch[w] = Idle(None)
  BY DEF Init
<1>2. Idle(None).step = "idle" /\ Idle(None).parts = <<>> /\ Idle(None).result = None
  BY DEF Idle
<1>3. \A w \in Workers : /\ fetch[w].step = "idle" /\ fetch[w].parts = <<>>
                         /\ fetch[w].result = None
  BY <1>1, <1>2
<1>4. artifacts = {} /\ provider \in Providers
  BY DEF Init
<1>5. \A w \in Workers : ~Stores(fetch[w]) /\ New(fetch[w]) = {}
  BY <1>3 DEF Stores, New
<1>6. PartsInv
  <2>1. <<>> \in Seq(Request)
    OBVIOUS
  <2> QED
    BY <1>3, <1>4, <2>1 DEF PartsInv, PartsReady
<1>7. VersionInv
  <2>1. version = [semantic |-> 1, format |-> 1]
    BY DEF Init
  <2>2. UpTo(version, version)
    BY <2>1 DEF UpTo
  <2> QED
    BY <1>3, <1>4, <1>5, <2>2 DEF VersionInv, Unique, Answered
<1>8. FileInv
  BY <1>4, <1>5 DEF FileInv, InFile
<1>9. VenueInv
  <2>1. Pool = {}
    BY <1>4, <1>5 DEF Pool, Series, Usable
  <2> QED
    BY <1>3, <2>1 DEF VenueInv, VenueReady, Conflicting
<1>10. AnswersReload
  BY <1>3 DEF AnswersReload, Answered
<1> QED
  BY <1>6, <1>7, <1>8, <1>9, <1>10 DEF PoolInv

LEMMA PoolStep ==
  IInv /\ PoolInv /\ [Next]_vars => PoolInv'
<1> SUFFICES ASSUME IInv, PoolInv, [Next]_vars PROVE PoolInv'
  OBVIOUS
<1>1. ASSUME NEW w \in Workers, ProviderFails(w) \/ WriteFails(w) PROVE PoolInv'
  BY <1>1, FailsPool DEF ProviderFails, WriteFails, Fails
<1>2. CASE CloseCandle
  BY <1>2, SamePool DEF CloseCandle
<1>3. ASSUME NEW o \in Opens, Revise(o) PROVE PoolInv'
  <2>1. /\ UNCHANGED <<provider, version, artifacts, rawFile, fetch>>
        /\ raced' = (raced \/ \E w \in Workers : fetch[w].step # "idle")
    BY <1>3 DEF Revise
  <2>2. raced' \/ \A w \in Workers : fetch[w].step = "idle"
    BY <2>1
  <2> QED
    BY <2>1, <2>2, SamePool
<1>4. CASE UNCHANGED vars
  BY <1>4, SamePool DEF vars
<1> QED
  BY <1>1, <1>2, <1>3, <1>4, LookupPool, ComposePool, PlanPool, RateLimitedPool, FetchPagePool,
     DownloadPool, ReadFilePool, CheckPool, WritePool, RestartPool DEF Next

LEMMA PoolHolds ==
  Spec => [](IInv /\ PoolInv)
BY InitInv, StepInv, PoolInit, PoolStep, PTL DEF Spec

\* Without a race the usable artifacts agree about every candle, and each range that
\* discovery shows is composed of them alone (_validated_bars, normalize_and_assess,
\* inspect_availability, load_range).
THEOREM SeriesStaysReadable ==
  Spec => []SeriesIsReadable
<1>1. ASSUME IInv, PoolInv PROVE SeriesIsReadable
  <2> SUFFICES ASSUME ~raced PROVE /\ ~Conflicting(Series)
                                   /\ artifacts = Usable =>
                                        \A run \in Availability :
                                          Composable([from |-> run.from, to |-> run.to,
                                                      asOf |-> run.to])
    BY DEF SeriesIsReadable
  <2>1. ~Conflicting(Series)
    BY <1>1, PoolAgrees, InPool, FewerAgree
  <2>2. ASSUME artifacts = Usable, NEW run \in Availability
        PROVE  Composable([from |-> run.from, to |-> run.to, asOf |-> run.to])
    <3> DEFINE r == [from |-> run.from, to |-> run.to, asOf |-> run.to]
    <3>1. {x \in artifacts : x.version.format = version.format} = Usable
      BY <2>2 DEF Usable
    <3>2. run \in Runs(OpenedIn(Series))
      BY <3>1 DEF Availability, Series
    <3>3. PICK x \in OpenedIn(Series), y \in OpenedIn(Series) : run = [from |-> x, to |-> y + 1]
      BY <3>2 DEF Runs
    <3>4. \A b \in Series : b[1] \in Int
      BY <1>1, SeriesClosed DEF Closed
    <3>5. x \in Int /\ y \in Int /\ run.from = x /\ run.to = y + 1
      BY <3>3, <3>4 DEF OpenedIn
    <3>6. run.from .. (run.to - 1) \subseteq OpenedIn(Series)
      BY <3>2 DEF Runs
    <3>7. r.from = x /\ r.to = y + 1 /\ r.asOf = y + 1
      BY <3>5
    <3> HIDE DEF r
    <3>8. ASSUME NEW o \in r.from .. (r.to - 1) PROVE o \in OpenedIn(Selected(Series, r))
      <4>1. PICK b \in Series : b[1] = o
        BY <3>5, <3>6, <3>7 DEF OpenedIn
      <4>2. b \in Selected(Series, r)
        BY <3>5, <3>7, <4>1 DEF Selected
      <4> QED
        BY <4>1, <4>2 DEF OpenedIn
    <3>9. ASSUME NEW b \in Selected(Series, r) PROVE b[1] \in r.from .. (r.to - 1)
      BY <3>4, <3>5, <3>7 DEF Selected
    <3>10. r.from .. (r.to - 1) = OpenedIn(Selected(Series, r))
      BY <3>8, <3>9 DEF OpenedIn
    <3>11. Composable(r)
      BY <3>10 DEF Composable, CoverageComplete
    <3> QED
      BY <3>11 DEF r
  <2> QED
    BY <2>1, <2>2
<1> QED
  BY <1>1, PoolHolds, PTL

\* Without a race an answer can be read again from the artifact that its provenance
\* names, candle for candle, while its version is in use: no later fetch, revision or
\* write replaces it by something else (fetch_historical, store).
THEOREM AnswersStayReloadable ==
  Spec => []AnswersReload
<1>1. PoolInv => AnswersReload
  BY DEF PoolInv
<1> QED
  BY <1>1, PoolHolds, PTL

=============================================================================
