--------------------------- MODULE Pipeline_proofs ---------------------------
(***************************************************************************)
(* The pipeline for any agents, providers, policy, prices and number of    *)
(* runs: a run that fails has moved no holdings, a request is always given *)
(* the same context, and a Council that is silent, or that asks only for   *)
(* reductions or to be flat, adds nothing to a position.                   *)
(*                                                                         *)
(* A reduction is recognized by the policy from the sizes of the order and *)
(* the position: SizingInv says that they are numbers, for which the sums  *)
(* of the equity and of the round have to be, and that the price of the    *)
(* mark is the one that the order is sized with.                           *)
(***************************************************************************)
EXTENDS Pipeline, FiniteSetTheorems, NaturalsInduction, WellFoundedInduction, TLAPS

Running(x) ==
  x = [outcome |-> x.outcome, symbol |-> x.symbol, at |-> x.at, asked |-> x.asked,
       snapshot |-> x.snapshot, context |-> x.context, round |-> x.round,
       order |-> x.order, before |-> x.before]

\* A run under way has the holdings that it began with, as far as it has come.
RunOK ==
  /\ Running(run) /\ run.outcome = "running"
  /\ run.symbol \in Symbols /\ run.at \in Times
  /\ run.before = Holdings(account)

\* Providers asked so far have their answer in the cache.
AskedOK ==
  /\ run.asked \in 0 .. Len(ProviderOrder)
  /\ \A i \in 1 .. run.asked : <<ProviderOrder[i], Request>> \in DOMAIN cache

\* What the cache says of a request.
FromCache(request) ==
  [c \in Capabilities |->
     IF \E p \in ContextProviders : c \in Offers[p]
     THEN cache[<<CHOOSE p \in ContextProviders : c \in Offers[p], request>>][c]
     ELSE None]

\* A context is what the cache says, completely.
ContextOK(c) ==
  /\ c = [request |-> c.request, data |-> FromCache(c.request)]
  /\ \A p \in ContextProviders : <<p, c.request>> \in DOMAIN cache

\* The order of a run that executes.
OrderOK ==
  /\ run.order.symbol = run.symbol
  /\ Alpha(run.round) # {}
  /\ AllReduceOnly(run.round) => run.order.reduceOnly

IInv ==
  /\ account.qty = [s \in Symbols |-> account.qty[s]]
  /\ stage # "idle" => RunOK
  /\ stage = "market_data" => run.asked = 0
  /\ stage = "context" => AskedOK
  /\ \A c \in contexts : ContextOK(c)
  /\ stage = "execution" => OrderOK

-----------------------------------------------------------------------------
(* The record of a run.                                                    *)

LEMMA WithSnapshot ==
  ASSUME NEW x, Running(x), NEW v
  PROVE  [x EXCEPT !.snapshot = v] =
           [outcome |-> x.outcome, symbol |-> x.symbol, at |-> x.at, asked |-> x.asked,
            snapshot |-> v, context |-> x.context, round |-> x.round,
            order |-> x.order, before |-> x.before]
BY DEF Running

LEMMA WithAsked ==
  ASSUME NEW x, Running(x), NEW v
  PROVE  [x EXCEPT !.asked = v] =
           [outcome |-> x.outcome, symbol |-> x.symbol, at |-> x.at, asked |-> v,
            snapshot |-> x.snapshot, context |-> x.context, round |-> x.round,
            order |-> x.order, before |-> x.before]
BY DEF Running

LEMMA WithContext ==
  ASSUME NEW x, Running(x), NEW v
  PROVE  [x EXCEPT !.context = v] =
           [outcome |-> x.outcome, symbol |-> x.symbol, at |-> x.at, asked |-> x.asked,
            snapshot |-> x.snapshot, context |-> v, round |-> x.round,
            order |-> x.order, before |-> x.before]
BY DEF Running

LEMMA WithRound ==
  ASSUME NEW x, Running(x), NEW v
  PROVE  [x EXCEPT !.round = v, !.context = None] =
           [outcome |-> x.outcome, symbol |-> x.symbol, at |-> x.at, asked |-> x.asked,
            snapshot |-> x.snapshot, context |-> None, round |-> v,
            order |-> x.order, before |-> x.before]
<1> DEFINE y == [x EXCEPT !.round = v]
<1>1. y = [outcome |-> x.outcome, symbol |-> x.symbol, at |-> x.at, asked |-> x.asked,
           snapshot |-> x.snapshot, context |-> x.context, round |-> v,
           order |-> x.order, before |-> x.before]
  BY DEF Running
<1>2. [x EXCEPT !.round = v, !.context = None] = [y EXCEPT !.context = None]
  OBVIOUS
<1> HIDE DEF y
<1> QED
  BY <1>1, <1>2, WithContext DEF Running

LEMMA WithOrder ==
  ASSUME NEW x, Running(x), NEW v
  PROVE  [x EXCEPT !.order = v, !.snapshot = None] =
           [outcome |-> x.outcome, symbol |-> x.symbol, at |-> x.at, asked |-> x.asked,
            snapshot |-> None, context |-> x.context, round |-> x.round,
            order |-> v, before |-> x.before]
<1> DEFINE y == [x EXCEPT !.order = v]
<1>1. y = [outcome |-> x.outcome, symbol |-> x.symbol, at |-> x.at, asked |-> x.asked,
           snapshot |-> x.snapshot, context |-> x.context, round |-> x.round,
           order |-> v, before |-> x.before]
  BY DEF Running
<1>2. [x EXCEPT !.order = v, !.snapshot = None] = [y EXCEPT !.snapshot = None]
  OBVIOUS
<1> HIDE DEF y
<1> QED
  BY <1>1, <1>2, WithSnapshot DEF Running

-----------------------------------------------------------------------------
(* Steps that leave the account and the cache alone.                       *)

LEMMA ContextsKeep ==
  ASSUME NEW c, ContextOK(c), UNCHANGED cache
  PROVE  ContextOK(c)'
BY DEF ContextOK, FromCache

LEMMA RaiseKeeps ==
  ASSUME IInv, UNCHANGED <<account, processed, cache, contexts, runs>>, stage' = "idle"
  PROVE  IInv'
BY ContextsKeep DEF IInv

LEMMA StartKeeps ==
  ASSUME IInv, NEW symbol \in Symbols, NEW at \in Times, Start(symbol, at)
  PROVE  IInv'
<1>1. RunOK' /\ run'.asked = 0
  BY DEF Start, RunOK, Running, Holdings
<1> QED
  BY <1>1, ContextsKeep DEF IInv, Start

LEMMA ObserveKeeps ==
  ASSUME IInv, Observe
  PROVE  IInv'
<1>1. PICK s \in Snapshots : run' = [run EXCEPT !.snapshot = s]
  BY DEF Observe
<1>2. RunOK /\ run.asked = 0
  BY DEF IInv, Observe
<1>3. /\ RunOK' /\ run'.asked = 0
  BY <1>1, <1>2, WithSnapshot DEF RunOK, Running, Observe, Holdings
<1>4. AskedOK'
  <2>1. Len(ProviderOrder) \in Nat
    BY PipelineAssumption
  <2> QED
    BY <1>3, <2>1 DEF AskedOK
<1> QED
  BY <1>3, <1>4, ContextsKeep DEF IInv, Observe

\* An answer that the cache has is never replaced.
LEMMA FetchKeeps ==
  ASSUME IInv, Fetch
  PROVE  IInv'
<1> DEFINE p == ProviderOrder[run.asked + 1]
           key == <<p, Request>>
<1>1. /\ RunOK /\ AskedOK /\ stage = "context" /\ stage' = "context" /\ run.asked < Len(ProviderOrder)
      /\ run' = [run EXCEPT !.asked = run.asked + 1] /\ UNCHANGED <<account, contexts>>
  BY DEF Fetch, IInv
<1>2. /\ RunOK' /\ run'.asked = run.asked + 1 /\ Request' = Request
  BY <1>1, WithAsked DEF RunOK, Running, Holdings, Request
<1>3. /\ DOMAIN cache' = DOMAIN cache \cup {key}
      /\ \A k \in DOMAIN cache : cache'[k] = cache[k]
  <2>1. CASE Cached(p)
    BY <2>1 DEF Fetch, Cached
  <2>2. CASE ~Cached(p)
    <3>1. PICK answer \in Answers(p, run.at) :
            cache' = [k \in DOMAIN cache \cup {key} |-> IF k = key THEN answer ELSE cache[k]]
      BY <2>2 DEF Fetch
    <3>2. key \notin DOMAIN cache
      BY <2>2 DEF Cached
    <3> HIDE DEF key
    <3> QED
      BY <3>1, <3>2
  <2> QED
    BY <2>1, <2>2
<1>4. AskedOK'
  <2>1. Len(ProviderOrder) \in Nat
    BY PipelineAssumption
  <2>2. run'.asked \in 0 .. Len(ProviderOrder)
    BY <1>1, <1>2, <2>1 DEF AskedOK
  <2>3. ASSUME NEW i \in 1 .. run'.asked PROVE <<ProviderOrder[i], Request>> \in DOMAIN cache'
    BY <1>1, <1>2, <1>3, <2>1 DEF AskedOK
  <2> QED
    BY <1>2, <2>2, <2>3 DEF AskedOK
<1> HIDE DEF key
<1>5. ASSUME NEW c \in contexts PROVE ContextOK(c)'
  <2>1. ContextOK(c)
    BY DEF IInv
  <2>2. \A q \in ContextProviders : <<q, c.request>> \in DOMAIN cache'
    BY <1>3, <2>1 DEF ContextOK
  <2>3. FromCache(c.request)' = FromCache(c.request)
    <3>1. ASSUME NEW cap \in Capabilities, \E q \in ContextProviders : cap \in Offers[q]
          PROVE  LET q == CHOOSE q \in ContextProviders : cap \in Offers[q]
                 IN  cache'[<<q, c.request>>] = cache[<<q, c.request>>]
      <4> DEFINE q == CHOOSE r \in ContextProviders : cap \in Offers[r]
      <4>1. q \in ContextProviders
        BY <3>1
      <4> HIDE DEF q
      <4>2. <<q, c.request>> \in DOMAIN cache
        BY <2>1, <4>1 DEF ContextOK
      <4>3. cache'[<<q, c.request>>] = cache[<<q, c.request>>]
        BY <1>3, <4>2
      <4> USE DEF q
      <4> QED
        BY <4>3
    <3> QED
      BY <3>1 DEF FromCache
  <2> QED
    BY <2>1, <2>2, <2>3 DEF ContextOK
<1> QED
  BY <1>1, <1>2, <1>4, <1>5 DEF IInv

LEMMA EnrichKeeps ==
  ASSUME IInv, Enrich
  PROVE  IInv'
<1>1. /\ RunOK /\ AskedOK /\ run.asked = Len(ProviderOrder)
      /\ contexts' = contexts \cup {[request |-> Request, data |-> Gathered]}
      /\ UNCHANGED <<account, cache>>
  BY DEF Enrich, IInv
<1>2. ASSUME NEW p \in ContextProviders PROVE Asked(p) /\ <<p, Request>> \in DOMAIN cache
  <2>1. PICK i \in DOMAIN ProviderOrder : ProviderOrder[i] = p
    BY DEF ContextProviders
  <2>2. i \in 1 .. Len(ProviderOrder) /\ Len(ProviderOrder) \in Nat
    BY PipelineAssumption
  <2> QED
    BY <1>1, <2>1, <2>2 DEF Asked, AskedOK
<1>3. Gathered = FromCache(Request)
  BY <1>2 DEF Gathered, FromCache
<1>4. ContextOK([request |-> Request, data |-> Gathered])
  BY <1>2, <1>3 DEF ContextOK
<1>5. \A c \in contexts' : ContextOK(c)'
  BY <1>1, <1>4, ContextsKeep DEF IInv
<1>6. CASE stage' = "idle"
  BY <1>1, <1>5, <1>6 DEF IInv
<1>7. CASE stage' = "agents" /\ run' = [run EXCEPT !.context = Gathered]
  <2>1. RunOK'
    BY <1>1, <1>7, WithContext DEF RunOK, Running, Holdings
  <2> QED
    BY <1>1, <1>5, <1>7, <2>1 DEF IInv
<1> QED
  BY <1>6, <1>7 DEF Enrich, Ended

LEMMA DeliberateKeeps ==
  ASSUME IInv, Deliberate
  PROVE  IInv'
<1>1. RunOK /\ UNCHANGED <<account, cache, contexts>> /\ stage' = "portfolio_mark"
  BY DEF Deliberate, IInv
<1>2. PICK round : run' = [run EXCEPT !.round = round, !.context = None]
  BY DEF Deliberate
<1>3. RunOK'
  BY <1>1, <1>2, WithRound DEF RunOK, Running, Holdings
<1> QED
  BY <1>1, <1>3, ContextsKeep DEF IInv

\* A mark moves no holdings.
LEMMA MarkKeeps ==
  ASSUME IInv, Mark
  PROVE  IInv'
<1>1. RunOK /\ UNCHANGED <<run, cache, contexts>> /\ stage' = "risk"
  BY DEF Mark, IInv
<1>2. account'.cash = account.cash /\ account'.qty = account.qty
  BY DEF Mark, AfterMark
<1>3. RunOK'
  BY <1>1, <1>2 DEF RunOK, Holdings
<1> QED
  BY <1>1, <1>2, <1>3, ContextsKeep DEF IInv

\* What is approved has somebody who asked for it, and reduces if all asked for that.
LEMMA EvaluateKeeps ==
  ASSUME IInv, Evaluate
  PROVE  IInv'
<1>1. RunOK /\ UNCHANGED <<account, cache, contexts>>
  BY DEF Evaluate, IInv
<1>2. CASE stage' = "idle"
  BY <1>1, <1>2, ContextsKeep DEF IInv
<1>3. CASE stage' # "idle"
  <2>1. PICK volatile, sound \in BOOLEAN :
          /\ Approves(Decision(volatile, sound), run.snapshot, account, run.symbol, run.at)
          /\ stage' = "execution"
          /\ run' = [run EXCEPT !.order = Authorized(volatile, sound), !.snapshot = None]
    BY <1>3 DEF Evaluate, Ended
  <2>2. /\ RunOK' /\ run'.order = Authorized(volatile, sound) /\ run'.round = run.round
        /\ run'.symbol = run.symbol
    BY <1>1, <2>1, WithOrder DEF RunOK, Running, Holdings
  <2> DEFINE d == Decision(volatile, sound)
             o == ProposedOrder(d, run.snapshot, account, run.symbol, run.at)
  <2>3. Authorized(volatile, sound).symbol = run.symbol /\ Authorized(volatile, sound).reduceOnly = o.reduceOnly
    BY DEF Authorized, ProposedOrder
  <2>4. d.action = Action(run.round)
    BY DEF Decision, Aggregate
  <2>5. d.action # "none" /\ (o.reduceOnly \/ d.action # "reduce_only")
    <3> HIDE DEF d
    <3> QED
      BY <2>1 DEF Approves, d
  <2>6. Alpha(run.round) # {}
    BY <2>4, <2>5 DEF Action
  <2>7. AllReduceOnly(run.round) => Action(run.round) = "reduce_only"
    BY <2>6 DEF Action
  <2> HIDE DEF d, o
  <2>8. OrderOK'
    BY <2>2, <2>3, <2>4, <2>5, <2>6, <2>7 DEF OrderOK, Alpha, AllReduceOnly
  <2> QED
    BY <1>1, <2>1, <2>2, <2>8, ContextsKeep DEF IInv
<1> QED
  BY <1>2, <1>3

LEMMA FillKeeps ==
  ASSUME IInv, NEW opening \in Openings, Fill(opening)
  PROVE  /\ IInv'
         /\ run'.outcome # "failed"
         /\ run.order.reduceOnly =>
              \A s \in Symbols :
                \/ account'.qty[s] = run.before.qty[s]
                \/ StrictlyReduces(run.before.qty[s], account'.qty[s])
<1>1. /\ RunOK /\ OrderOK /\ stage' = "idle" /\ UNCHANGED <<cache, contexts>>
      /\ account' = AfterFill(account, run.order, opening)
      /\ run'.outcome \in {"filled", "filled, not compliant"}
  <2>1. Ended("filled") \/ Ended("filled, not compliant")
    BY DEF Fill
  <2>2. ASSUME NEW outcome, Ended(outcome) PROVE stage' = "idle" /\ run'.outcome = outcome
    BY <2>2 DEF Ended
  <2> QED
    BY <2>1, <2>2 DEF Fill, IInv
<1>2. /\ account.qty = [s \in Symbols |-> account.qty[s]]
      /\ account'.qty = [account.qty EXCEPT ![run.order.symbol] = NewQuantity(account, run.order)]
  BY <1>1 DEF IInv, AfterFill
<1>3. account'.qty = [s \in Symbols |-> account'.qty[s]]
  BY <1>2
<1>4. IInv'
  BY <1>1, <1>3, ContextsKeep DEF IInv
<1>5. ASSUME run.order.reduceOnly, NEW s \in Symbols
      PROVE  \/ account'.qty[s] = run.before.qty[s]
             \/ StrictlyReduces(run.before.qty[s], account'.qty[s])
  <2>1. run.before.qty[s] = account.qty[s]
    <3>1. run.before = [cash |-> account.cash, qty |-> account.qty]
      BY <1>1 DEF RunOK, Holdings
    <3>2. run.before.qty = account.qty
      BY <3>1
    <3> QED
      BY <3>2
  <2>3. StrictlyReduces(account.qty[run.order.symbol], NewQuantity(account, run.order))
    BY <1>5 DEF Fill, Rejected, EconomicallyRejected
  <2>4. CASE s = run.order.symbol
    BY <1>2, <2>1, <2>3, <2>4
  <2>5. CASE s # run.order.symbol
    BY <1>2, <2>1, <2>5
  <2> QED
    BY <2>4, <2>5
<1> QED
  BY <1>1, <1>4, <1>5

-----------------------------------------------------------------------------
(* The specification.                                                      *)

LEMMA InitInv ==
  Init => IInv
BY DEF Init, IInv, OpenAccount

LEMMA StepInv ==
  IInv /\ [Next]_vars => IInv'
<1> SUFFICES ASSUME IInv, [Next]_vars PROVE IInv'
  OBVIOUS
<1>1. CASE UNCHANGED vars
  <2>1. \A c \in contexts' : ContextOK(c)'
    BY <1>1, ContextsKeep DEF vars, IInv
  <2> QED
    BY <1>1, <2>1 DEF vars, IInv, RunOK, Running, AskedOK, Request, OrderOK, Alpha, AllReduceOnly,
                      Holdings
<1>2. CASE Raise \/ MarkRaises \/ Unexecuted
  BY <1>2, RaiseKeeps DEF Raise, MarkRaises, Unexecuted, Ended
<1>3. ASSUME NEW opening \in Openings, Reject(opening) PROVE IInv'
  BY <1>3, RaiseKeeps DEF Reject, Ended
<1> QED
  BY <1>1, <1>2, <1>3, StartKeeps, ObserveKeeps, FetchKeeps, EnrichKeeps, DeliberateKeeps,
     MarkKeeps, EvaluateKeeps, FillKeeps DEF Next

\* The inductive invariant holds in every behaviour of the pipeline.
LEMMA PipelineInvariant ==
  Spec => []IInv
BY InitInv, StepInv, PTL DEF Spec

\* A run that failed, at whatever stage, has left the cash and the quantities as
\* they were (ResearchTradingPipeline.run).
THEOREM FailuresLeaveHoldings ==
  Spec => FailureLeavesHoldings
<1>1. IInv /\ [Next]_vars =>
        [stage # "idle" /\ run'.outcome = "failed" => Holdings(account') = run.before]_vars
  <2> SUFFICES ASSUME IInv, Next, stage # "idle", run'.outcome = "failed"
               PROVE  Holdings(account') = run.before
    OBVIOUS
  <2>1. RunOK
    BY DEF IInv
  <2>2. CASE UNCHANGED account
    BY <2>1, <2>2 DEF RunOK
  <2>3. CASE Mark
    BY <2>1, <2>3 DEF RunOK, Mark
  <2>4. ASSUME NEW opening \in Openings, Fill(opening) PROVE FALSE
    BY <2>4, FillKeeps
  <2> QED
    BY <2>2, <2>3, <2>4 DEF Next, Start, Raise, Observe, Fetch, Enrich, Deliberate, MarkRaises,
                            Evaluate, Unexecuted, Reject
<1> QED
  BY PipelineInvariant, <1>1, PTL DEF Spec, FailureLeavesHoldings

\* A repeated request is given the same context, whatever the providers revise
\* (ContextService.enrich).
THEOREM ContextsAreReproducible ==
  Spec => []ContextIsReproducible
<1>1. IInv => ContextIsReproducible
  BY DEF IInv, ContextOK, ContextIsReproducible
<1> QED
  BY PipelineInvariant, <1>1, PTL

-----------------------------------------------------------------------------
(* Sums over finite sets.                                                  *)

LEMMA LeastOf ==
  ASSUME NEW S \in SUBSET Nat, S # {}
  PROVE  \E x \in S : \A y \in S : x <= y
<1>1. \E x \in S : \A y \in S : ~ (<<y, x>> \in OpToRel(<, Nat))
  BY NatLessThanWellFounded, WFMin
<1>2. PICK x \in S : \A y \in S : ~ (<<y, x>> \in OpToRel(<, Nat))
  BY <1>1
<1>3. x \in Nat /\ \A y \in S : y \in Nat
  OBVIOUS
<1>4. \A y \in S : ~(y < x)
  BY <1>2, <1>3 DEF OpToRel
<1> QED
  BY <1>3, <1>4

First(T) == CHOOSE x \in T : TRUE

\* g adds up the terms f over the subsets of S that are in Sets.
Sums(g, f, Sets) ==
  g = [T \in Sets |-> IF T = {} THEN 0 ELSE f[First(T)] + g[T \ {First(T)}]]

UpTo(S, n) == {T \in SUBSET S : Cardinality(T) <= n}

\* The subsets of a finite set, by their cardinality.
LEMMA Subsets ==
  ASSUME NEW S, IsFiniteSet(S), NEW T \in SUBSET S
  PROVE  /\ IsFiniteSet(T) /\ Cardinality(T) \in Nat
         /\ T = {} <=> Cardinality(T) = 0
         /\ T # {} => /\ First(T) \in T
                      /\ T \ {First(T)} \in SUBSET S
                      /\ Cardinality(T \ {First(T)}) = Cardinality(T) - 1
<1>1. IsFiniteSet(T) /\ Cardinality(T) \in Nat /\ (T = {} <=> Cardinality(T) = 0)
  BY FS_Subset, FS_CardinalityType, FS_EmptySet
<1>2. ASSUME T # {} PROVE First(T) \in T
  BY <1>2 DEF First
<1> QED
  BY <1>1, <1>2, FS_RemoveElement

LEMMA SumsExist ==
  ASSUME NEW S, IsFiniteSet(S), NEW f
  PROVE  \E g : Sums(g, f, SUBSET S)
<1> DEFINE Good(n) == \E g : Sums(g, f, UpTo(S, n))
           Bad == {n \in Nat : ~Good(n)}
<1>1. ASSUME Bad # {} PROVE FALSE
  <2>1. PICK n \in Bad : \A m \in Bad : n <= m
    <3>1. Bad \in SUBSET Nat
      OBVIOUS
    <3> HIDE DEF Bad
    <3> QED
      BY <1>1, <3>1, LeastOf
  <2>2. n \in Nat /\ ~Good(n)
    OBVIOUS
  <2>3. CASE n = 0
    <3> DEFINE g == [T \in UpTo(S, 0) |-> 0]
    <3>1. ASSUME NEW T \in UpTo(S, 0) PROVE T = {}
      <4>1. T \in SUBSET S /\ Cardinality(T) <= 0
        BY DEF UpTo
      <4>2. Cardinality(T) \in Nat /\ (T = {} <=> Cardinality(T) = 0)
        BY <4>1, Subsets
      <4> QED
        BY <4>1, <4>2
    <3>2. Sums(g, f, UpTo(S, 0))
      BY <3>1 DEF Sums
    <3> QED
      BY <2>2, <2>3, <3>2
  <2>4. CASE n > 0
    <3>1. n - 1 \in Nat /\ ~(n <= n - 1)
      BY <2>2, <2>4
    <3>2. Good(n - 1)
      <4>1. n - 1 \notin Bad
        <5> HIDE DEF Bad
        <5> QED
          BY <2>1, <3>1
      <4> QED
        BY <3>1, <4>1
    <3>3. PICK g : Sums(g, f, UpTo(S, n - 1))
      BY <3>2
    <3> DEFINE h == [T \in UpTo(S, n) |-> IF T = {} THEN 0 ELSE f[First(T)] + g[T \ {First(T)}]]
    <3>4. ASSUME NEW T \in UpTo(S, n - 1)
          PROVE  T \in UpTo(S, n) /\ h[T] = g[T]
      <4>1. T \in UpTo(S, n)
        <5>1. T \in SUBSET S /\ Cardinality(T) <= n - 1
          BY DEF UpTo
        <5>2. Cardinality(T) \in Nat
          BY <5>1, Subsets
        <5>3. Cardinality(T) <= n
          BY <2>2, <5>1, <5>2
        <5> QED
          BY <5>1, <5>3 DEF UpTo
      <4>2. g[T] = IF T = {} THEN 0 ELSE f[First(T)] + g[T \ {First(T)}]
        BY <3>3 DEF Sums
      <4> QED
        BY <4>1, <4>2
    <3>5. ASSUME NEW T \in UpTo(S, n), T # {}
          PROVE  T \ {First(T)} \in UpTo(S, n - 1)
      BY <2>2, <3>1, <3>5, Subsets DEF UpTo
    <3>6. h = [T \in UpTo(S, n) |-> IF T = {} THEN 0 ELSE f[First(T)] + h[T \ {First(T)}]]
      <4>1. \A T \in UpTo(S, n) : T # {} => h[T \ {First(T)}] = g[T \ {First(T)}]
        BY <3>4, <3>5
      <4> QED
        BY <4>1
    <3>7. Sums(h, f, UpTo(S, n))
      BY <3>6 DEF Sums
    <3> QED
      BY <2>2, <3>7
  <2> QED
    BY <2>2, <2>3, <2>4
<1>2. Cardinality(S) \in Nat
  BY FS_CardinalityType
<1>3. Good(Cardinality(S))
  BY <1>1, <1>2
<1>4. UpTo(S, Cardinality(S)) = SUBSET S
  BY FS_Subset DEF UpTo
<1> QED
  BY <1>3, <1>4

LEMMA SumsInRange ==
  ASSUME NEW S, IsFiniteSet(S), NEW f, NEW g, Sums(g, f, SUBSET S),
         NEW R, R \in {Nat, Int}, \A x \in S : f[x] \in R
  PROVE  g[S] \in R
<1> DEFINE Bad == {n \in Nat : \E T \in SUBSET S : Cardinality(T) = n /\ g[T] \notin R}
<1>1. ASSUME Bad # {} PROVE FALSE
  <2>1. PICK n \in Bad : \A m \in Bad : n <= m
    <3>1. Bad \in SUBSET Nat
      OBVIOUS
    <3> HIDE DEF Bad
    <3> QED
      BY <1>1, <3>1, LeastOf
  <2>2. PICK T \in SUBSET S : Cardinality(T) = n /\ g[T] \notin R
    OBVIOUS
  <2>3. g[T] = IF T = {} THEN 0 ELSE f[First(T)] + g[T \ {First(T)}]
    BY DEF Sums
  <2>4. T # {}
    BY <2>2, <2>3
  <2>5. First(T) \in S /\ T \ {First(T)} \in SUBSET S /\ n \in Nat
        /\ Cardinality(T \ {First(T)}) = n - 1 /\ n # 0
    BY <2>2, <2>4, Subsets
  <2>6. n - 1 \in Nat /\ ~(n <= n - 1)
    BY <2>5
  <2>7. n - 1 \notin Bad
    <3> HIDE DEF Bad
    <3> QED
      BY <2>1, <2>6
  <2>8. g[T \ {First(T)}] \in R
    BY <2>5, <2>6, <2>7
  <2>9. f[First(T)] \in R
    BY <2>5
  <2>10. \A i, j \in R : i + j \in R
    OBVIOUS
  <2>11. g[T] = f[First(T)] + g[T \ {First(T)}]
    BY <2>3, <2>4, Zenon
  <2> QED
    BY <2>2, <2>8, <2>9, <2>10, <2>11
<1>2. Cardinality(S) \in Nat /\ Cardinality(S) \notin Bad
  BY <1>1, FS_CardinalityType
<1> QED
  BY <1>2

-----------------------------------------------------------------------------
(* The numbers of the account, of a round and of the order it leads to.    *)

Signals == [Agents -> Acting \cup {Passive}]

\* What of a run its order is sized with.
SizingInv ==
  /\ account \in AccountType
  /\ stage \in {"context", "agents", "portfolio_mark", "risk"} => run.snapshot.price \in Prices
  /\ stage \in {"portfolio_mark", "risk", "execution"} => run.round \in Signals
  /\ stage = "risk" /\ run.symbol \in Held(account) =>
       account.mark[run.symbol] = run.snapshot.price
  /\ stage = "execution" =>
       /\ run.order.side \in {"buy", "sell"} /\ run.order.qty \in Nat
       /\ AllFlat(run.round) => run.order.reduceOnly

\* The equity is a number.
LEMMA EquityIsInt ==
  ASSUME NEW acct \in AccountType
  PROVE  /\ Equity(acct) \in Int
         /\ \A s \in Symbols : Notional(acct, s) = acct.qty[s] * acct.mark[s] * Bps * Bps
         /\ \A s \in Symbols : Notional(acct, s) \in Int
<1> DEFINE f == [s \in Symbols |-> Notional(acct, s)]
           Steps(g) == g = [T \in SUBSET Symbols |->
                              IF T = {} THEN 0 ELSE Notional(acct, First(T)) + g[T \ {First(T)}]]
           sum == CHOOSE g : Steps(g)
<1>1. IsFiniteSet(Symbols)
  BY PipelineAssumption
<1>2. \A s \in Symbols : Notional(acct, s) \in Int
  <2>1. \A s \in Symbols : acct.qty[s] \in Int /\ acct.mark[s] \in Int
    BY DEF AccountType
  <2>2. Bps \in Int
    BY CostAssumption
  <2>3. \A i, j \in Int : i * j * Bps * Bps \in Int
    BY <2>2
  <2> QED
    BY <2>1, <2>3 DEF Notional
<1>3. ASSUME NEW g PROVE Steps(g) <=> Sums(g, f, SUBSET Symbols)
  <2>1. \A T \in SUBSET Symbols : T # {} => f[First(T)] = Notional(acct, First(T))
    BY DEF First
  <2> HIDE DEF f
  <2> QED
    BY <2>1 DEF Sums
<1>4. Steps(sum)
  <2>1. \E g : Steps(g)
    BY <1>1, <1>3, SumsExist
  <2> QED
    BY <2>1
<1>5. Equity(acct) = acct.cash + sum[Symbols]
  BY DEF Equity, MapThenSumSet, MapThenFoldSet, First
<1>6. \A s \in Symbols : f[s] \in Int
  BY <1>2
<1> HIDE DEF sum, f, Steps
<1>7. sum[Symbols] \in Int
  BY <1>1, <1>3, <1>4, <1>6, SumsInRange
<1>8. acct.cash \in Int
  BY DEF AccountType
<1> QED
  BY <1>2, <1>5, <1>7, <1>8 DEF Notional

\* What an alpha agent says in a round.
LEMMA AlphaSignals ==
  ASSUME NEW round \in Signals
  PROVE  /\ IsFiniteSet(Alpha(round))
         /\ \A a \in Alpha(round) :
              Weight[a] \in Nat /\ round[a].confidence \in Nat /\ round[a].target \in Int
<1>1. IsFiniteSet(Alpha(round)) /\ Alpha(round) \subseteq Agents
  <2>1. Alpha(round) \in SUBSET Agents
    BY CouncilAssumption DEF Alpha
  <2> QED
    BY <2>1, CouncilAssumption, FS_Subset
<1>2. ASSUME NEW a \in Alpha(round)
      PROVE  Weight[a] \in Nat /\ round[a].confidence \in Nat /\ round[a].target \in Int
  <2>1. a \in Agents /\ round[a] \in Acting \cup {Passive}
    BY <1>1 DEF Signals
  <2>2. Weight[a] \in Nat
    BY <2>1, CouncilAssumption
  <2>3. CASE round[a] \in Acting
    <3>1. round[a].confidence \in Confidences /\ round[a].target \in Targets
      BY <2>3 DEF Acting
    <3>2. Targets \subseteq Int /\ Confidences \subseteq 0 .. ConfidenceUnit /\ ConfidenceUnit \in Nat
      BY CouncilAssumption
    <3>3. round[a].target \in Int
      BY <3>1, <3>2
    <3>4. round[a].confidence \in 0 .. ConfidenceUnit
      BY <3>1, <3>2
    <3>5. round[a].confidence \in Nat
      BY <3>2, <3>4
    <3> QED
      BY <2>2, <3>3, <3>5
  <2>4. CASE round[a] = Passive
    BY <2>2, <2>4 DEF Passive
  <2> QED
    BY <2>1, <2>3, <2>4
<1> QED
  BY <1>1, <1>2

LEMMA CapacityIsNat ==
  ASSUME NEW round \in Signals
  PROVE  Capacity(round) \in Nat
<1> DEFINE S == Alpha(round)
           f == [a \in S |-> Weight[a]]
           Steps(g) == g = [T \in SUBSET S |->
                              IF T = {} THEN 0 ELSE Weight[First(T)] + g[T \ {First(T)}]]
           sum == CHOOSE g : Steps(g)
<1>1. IsFiniteSet(S) /\ \A a \in S : f[a] \in Nat
  BY AlphaSignals
<1>2. Capacity(round) = sum[S]
  BY DEF Capacity, MapThenSumSet, MapThenFoldSet, First
<1> HIDE DEF S
<1>3. ASSUME NEW g PROVE Steps(g) <=> Sums(g, f, SUBSET S)
  <2>1. \A T \in SUBSET S : T # {} => f[First(T)] = Weight[First(T)]
    BY DEF First
  <2> HIDE DEF f
  <2> QED
    BY <2>1 DEF Sums
<1>4. Steps(sum)
  <2>1. \E g : Steps(g)
    BY <1>1, <1>3, SumsExist
  <2> QED
    BY <2>1
<1> HIDE DEF sum, f, Steps
<1> QED
  BY <1>1, <1>2, <1>3, <1>4, SumsInRange

LEMMA EffectiveWeightIsNat ==
  ASSUME NEW round \in Signals
  PROVE  EffectiveWeight(round) \in Nat
<1> DEFINE S == Alpha(round)
           f == [a \in S |-> Weight[a] * round[a].confidence]
           Steps(g) == g = [T \in SUBSET S |->
                              IF T = {} THEN 0
                              ELSE Weight[First(T)] * round[First(T)].confidence + g[T \ {First(T)}]]
           sum == CHOOSE g : Steps(g)
<1>1. IsFiniteSet(S) /\ \A a \in S : f[a] \in Nat
  <2>1. \A i, j \in Nat : i * j \in Nat
    OBVIOUS
  <2> QED
    BY <2>1, AlphaSignals
<1>2. EffectiveWeight(round) = sum[S]
  BY DEF EffectiveWeight, MapThenSumSet, MapThenFoldSet, First
<1> HIDE DEF S
<1>3. ASSUME NEW g PROVE Steps(g) <=> Sums(g, f, SUBSET S)
  <2>1. \A T \in SUBSET S : T # {} => f[First(T)] = Weight[First(T)] * round[First(T)].confidence
    BY DEF First
  <2> HIDE DEF f
  <2> QED
    BY <2>1 DEF Sums
<1>4. Steps(sum)
  <2>1. \E g : Steps(g)
    BY <1>1, <1>3, SumsExist
  <2> QED
    BY <2>1
<1> HIDE DEF sum, f, Steps
<1> QED
  BY <1>1, <1>2, <1>3, <1>4, SumsInRange

LEMMA TargetsByWeight ==
  ASSUME NEW round \in Signals
  PROVE  MapThenSumSet(LAMBDA a : Weight[a] * round[a].target, Alpha(round)) \in Int
<1> DEFINE S == Alpha(round)
           f == [a \in S |-> Weight[a] * round[a].target]
           Steps(g) == g = [T \in SUBSET S |->
                              IF T = {} THEN 0
                              ELSE Weight[First(T)] * round[First(T)].target + g[T \ {First(T)}]]
           sum == CHOOSE g : Steps(g)
<1>1. IsFiniteSet(S) /\ \A a \in S : f[a] \in Int
  <2>1. \A i \in Nat, j \in Int : i * j \in Int
    OBVIOUS
  <2> QED
    BY <2>1, AlphaSignals
<1>2. MapThenSumSet(LAMBDA a : Weight[a] * round[a].target, S) = sum[S]
  BY DEF MapThenSumSet, MapThenFoldSet, First
<1> HIDE DEF S
<1>3. ASSUME NEW g PROVE Steps(g) <=> Sums(g, f, SUBSET S)
  <2>1. \A T \in SUBSET S : T # {} => f[First(T)] = Weight[First(T)] * round[First(T)].target
    BY DEF First
  <2> HIDE DEF f
  <2> QED
    BY <2>1 DEF Sums
<1>4. Steps(sum)
  <2>1. \E g : Steps(g)
    BY <1>1, <1>3, SumsExist
  <2> QED
    BY <2>1
<1> HIDE DEF sum, f, Steps
<1>5. sum[S] \in Int
  BY <1>1, <1>3, <1>4, SumsInRange
<1> QED
  BY <1>2, <1>5 DEF S

LEMMA TargetsByConfidence ==
  ASSUME NEW round \in Signals
  PROVE  MapThenSumSet(LAMBDA a : Weight[a] * round[a].confidence * round[a].target,
                       Alpha(round)) \in Int
<1> DEFINE S == Alpha(round)
           f == [a \in S |-> Weight[a] * round[a].confidence * round[a].target]
           Steps(g) == g = [T \in SUBSET S |->
                              IF T = {} THEN 0
                              ELSE Weight[First(T)] * round[First(T)].confidence
                                     * round[First(T)].target + g[T \ {First(T)}]]
           sum == CHOOSE g : Steps(g)
<1>1. IsFiniteSet(S) /\ \A a \in S : f[a] \in Int
  <2>1. \A i, j \in Nat, k \in Int : i * j * k \in Int
    OBVIOUS
  <2> QED
    BY <2>1, AlphaSignals
<1>2. MapThenSumSet(LAMBDA a : Weight[a] * round[a].confidence * round[a].target, S) = sum[S]
  BY DEF MapThenSumSet, MapThenFoldSet, First
<1> HIDE DEF S
<1>3. ASSUME NEW g PROVE Steps(g) <=> Sums(g, f, SUBSET S)
  <2>1. \A T \in SUBSET S : T # {} =>
          f[First(T)] = Weight[First(T)] * round[First(T)].confidence * round[First(T)].target
    BY DEF First
  <2> HIDE DEF f
  <2> QED
    BY <2>1 DEF Sums
<1>4. Steps(sum)
  <2>1. \E g : Steps(g)
    BY <1>1, <1>3, SumsExist
  <2> QED
    BY <2>1
<1> HIDE DEF sum, f, Steps
<1>5. sum[S] \in Int
  BY <1>1, <1>3, <1>4, SumsInRange
<1> QED
  BY <1>2, <1>5 DEF S

LEMMA TargetIsInt ==
  ASSUME NEW round \in Signals
  PROVE  Target(round) \in Int /\ (AllFlat(round) => Target(round) = 0)
<1>1. \A i \in Int, j \in Nat : j # 0 => i \div j \in Int
  OBVIOUS
<1>2. 0 \div 1 = 0
  OBVIOUS
<1>3. Conviction(round).num \div Conviction(round).den \in Int
  <2>1. CASE Capacity(round) = 0
    <3>1. Conviction(round).num = 0 /\ Conviction(round).den = 1
      BY <2>1 DEF Conviction
    <3> QED
      BY <1>2, <3>1
  <2>2. CASE Capacity(round) # 0 /\ EffectiveWeight(round) = 0
    <3>1. /\ Conviction(round).den = Capacity(round)
          /\ Conviction(round).num
               = MapThenSumSet(LAMBDA a : Weight[a] * round[a].target, Alpha(round))
      BY <2>2 DEF Conviction
    <3>2. Conviction(round).num \in Int
      BY <3>1, TargetsByWeight, Zenon
    <3> QED
      BY <1>1, <2>2, <3>1, <3>2, CapacityIsNat
  <2>3. CASE Capacity(round) # 0 /\ EffectiveWeight(round) # 0
    <3>1. /\ Conviction(round).den = EffectiveWeight(round)
          /\ Conviction(round).num
               = MapThenSumSet(LAMBDA a : Weight[a] * round[a].confidence * round[a].target,
                               Alpha(round))
      BY <2>3 DEF Conviction
    <3>2. Conviction(round).num \in Int
      BY <3>1, TargetsByConfidence, Zenon
    <3> QED
      BY <1>1, <2>3, <3>1, <3>2, EffectiveWeightIsNat
  <2> QED
    BY <2>1, <2>2, <2>3
<1> QED
  BY <1>3 DEF Target

-----------------------------------------------------------------------------
(* The order.                                                              *)

LEMMA LeastOfTwo ==
  ASSUME NEW a \in Int, NEW b \in Int
  PROVE  /\ Min({a, b}) \in {a, b}
         /\ Min({a, b}) <= a /\ Min({a, b}) <= b
<1>1. \E x \in {a, b} : \A y \in {a, b} : x <= y
  BY a <= b \/ b <= a
<1>2. Min({a, b}) \in {a, b} /\ \A y \in {a, b} : Min({a, b}) <= y
  BY <1>1 DEF Min
<1> QED
  BY <1>2

LEMMA MagnitudeOf ==
  ASSUME NEW n \in Int
  PROVE  Magnitude(n) \in Nat /\ (n >= 0 => Magnitude(n) = n) /\ (n < 0 => Magnitude(n) = -n)
BY DEF Magnitude

LEMMA PositivePrices ==
  ASSUME NEW p \in Prices
  PROVE  /\ p \in Nat /\ p > 0
         /\ Unit \in Nat /\ p * Unit \in Nat /\ p * Unit > 0
<1>1. p \in Nat /\ p > 0
  BY PipelineAssumption
<1>2. Bps \in Nat /\ Bps > 0
  BY CostAssumption
<1>3. \A i, j \in Nat : i > 0 /\ j > 0 => i * j \in Nat /\ i * j > 0
  OBVIOUS
<1>4. Unit \in Nat /\ Unit > 0
  BY <1>2, <1>3 DEF Unit
<1> QED
  BY <1>1, <1>3, <1>4

LEMMA EvaluationTimes ==
  ASSUME NEW t \in Times
  PROVE  t \in Nat /\ t - 1 \in Nat /\ t + 1 \in Nat
<1>1. Times \subseteq Nat \ {0}
  BY PipelineAssumption
<1>2. t \in Nat /\ t # 0
  BY <1>1
<1> QED
  BY <1>2

\* The size of an order is a number of lots and, where it does not flatten, worth no
\* more than the limit nor than the change it is for.
LEMMA Sized ==
  ASSUME NEW acct \in AccountType, NEW s \in Symbols, NEW d, d.target \in Int,
         NEW snap, snap.price \in Prices
  PROVE  /\ TargetNotional(d, acct) \in Int
         /\ d.target = 0 => TargetNotional(d, acct) = 0
         /\ DeltaNotional(d, acct, s) \in Int
         /\ Quantity(d, snap, acct, s) \in Nat
         /\ ~Flattening(d, acct, s) =>
              /\ Quantity(d, snap, acct, s) * (snap.price * Unit) <= MaxOrderNotional
              /\ Quantity(d, snap, acct, s) * (snap.price * Unit)
                   <= Magnitude(DeltaNotional(d, acct, s))
<1>1. /\ Equity(acct) \in Int /\ Notional(acct, s) \in Int /\ acct.qty[s] \in Int
      /\ MaxPosition \in Int /\ MaxOrderNotional \in Nat /\ Frac \in Nat /\ Frac > 0
  BY EquityIsInt, PolicyAssumption DEF AccountType
<1>2. Frac * Frac \in Nat /\ Frac * Frac > 0
  BY <1>1
<1>3. TargetNotional(d, acct) \in Int
  <2>1. d.target * Equity(acct) * MaxPosition \in Int
    BY <1>1
  <2> QED
    BY <1>2, <2>1 DEF TargetNotional
<1>4. ASSUME d.target = 0 PROVE TargetNotional(d, acct) = 0
  <2>1. d.target * Equity(acct) * MaxPosition = 0
    BY <1>1, <1>4
  <2>2. 0 \div (Frac * Frac) = 0
    BY <1>2
  <2> QED
    BY <2>1, <2>2 DEF TargetNotional
<1>5. DeltaNotional(d, acct, s) \in Int
  BY <1>1, <1>3 DEF DeltaNotional
<1> DEFINE worth == snap.price * Unit
           change == Magnitude(DeltaNotional(d, acct, s))
           most == Min({change, MaxOrderNotional})
<1>6. worth \in Nat /\ worth > 0 /\ change \in Nat /\ Magnitude(acct.qty[s]) \in Nat
  BY <1>1, <1>5, PositivePrices, MagnitudeOf
<1>7. Quantity(d, snap, acct, s)
        = IF Flattening(d, acct, s) THEN Magnitude(acct.qty[s]) ELSE most \div worth
  BY DEF Quantity
<1> HIDE DEF worth, change
<1>8. most \in Nat /\ most <= change /\ most <= MaxOrderNotional
  <2>1. change \in Int /\ MaxOrderNotional \in Int
    BY <1>1, <1>6
  <2>2. most \in {change, MaxOrderNotional} /\ most <= change /\ most <= MaxOrderNotional
    BY <2>1, LeastOfTwo
  <2> HIDE DEF most
  <2> QED
    BY <1>1, <1>6, <2>2
<1> HIDE DEF most
<1>9. most \div worth \in Nat /\ (most \div worth) * worth <= most
  BY <1>6, <1>8
<1> QED
  BY <1>1, <1>3, <1>4, <1>5, <1>6, <1>7, <1>8, <1>9 DEF worth, change

\* An order for a target of zero reduces a position that is valued at the price the
\* order is sized with, and there is none without a position.
LEMMA FlatOrdersReduce ==
  ASSUME NEW acct \in AccountType, NEW s \in Symbols, NEW d, d.target = 0,
         NEW snap, snap.price \in Prices, NEW at,
         s \in Held(acct) => acct.mark[s] = snap.price,
         Quantity(d, snap, acct, s) > 0
  PROVE  ProposedOrder(d, snap, acct, s, at).reduceOnly
<1> DEFINE q == acct.qty[s]
           n == Quantity(d, snap, acct, s)
           worth == snap.price * Unit
           new == q + (IF Side(d, acct, s) = "buy" THEN n ELSE -n)
<1>1. /\ q \in Int /\ n \in Nat /\ n > 0 /\ TargetNotional(d, acct) = 0
      /\ DeltaNotional(d, acct, s) \in Int
      /\ ~Flattening(d, acct, s) =>
           /\ n * worth <= MaxOrderNotional
           /\ n * worth <= Magnitude(DeltaNotional(d, acct, s))
  BY Sized DEF AccountType
<1>2. worth \in Nat /\ worth > 0 /\ snap.price \in Nat /\ Bps \in Nat
  BY PositivePrices, CostAssumption
<1>3. DeltaNotional(d, acct, s) = 0 - Notional(acct, s) /\ Notional(acct, s) \in Int
  BY <1>1, EquityIsInt DEF DeltaNotional
<1>4. Notional(acct, s) = q * acct.mark[s] * Bps * Bps /\ acct.mark[s] \in Nat
  BY EquityIsInt DEF AccountType
<1>5. Flattening(d, acct, s) => n = Magnitude(q)
  BY DEF Quantity
<1>6. Flattening(d, acct, s) <=> q # 0 /\ Magnitude(Notional(acct, s)) <= MaxOrderNotional
  BY <1>1 DEF Flattening, Held
<1>7. MaxOrderNotional \in Nat
  BY PolicyAssumption
<1>8. s \in Held(acct) <=> q # 0
  BY DEF Held
<1>9. q # 0 => Notional(acct, s) = q * worth
  <2>1. ASSUME q # 0 PROVE acct.mark[s] = snap.price
    BY <1>8, <2>1
  <2>2. \A i \in Int, j, k \in Nat : i * j * k * k = i * (j * (k * k))
    OBVIOUS
  <2> HIDE DEF q
  <2> QED
    BY <1>1, <1>2, <1>4, <2>1, <2>2 DEF Unit
<1>10. Side(d, acct, s) = IF DeltaNotional(d, acct, s) > 0 THEN "buy" ELSE "sell"
  BY DEF Side
<1>11. ProposedOrder(d, snap, acct, s, at).reduceOnly = StrictlyReduces(q, new)
  BY DEF ProposedOrder
<1> DEFINE delta == DeltaNotional(d, acct, s)
           flattening == Flattening(d, acct, s)
           notional == Notional(acct, s)
<1>12. /\ delta = 0 - notional /\ notional \in Int /\ delta \in Int
       /\ q # 0 => notional = q * worth
       /\ flattening <=> q # 0 /\ Magnitude(notional) <= MaxOrderNotional
       /\ flattening => n = Magnitude(q)
       /\ ~flattening => n * worth <= MaxOrderNotional /\ n * worth <= Magnitude(delta)
       /\ new = q + (IF delta > 0 THEN n ELSE -n)
  BY <1>1, <1>3, <1>5, <1>6, <1>9, <1>10
<1>13. q = 0 => notional = 0
  <2>1. \A j, k \in Nat : 0 * j * k * k = 0
    OBVIOUS
  <2> HIDE DEF q
  <2> QED
    BY <1>2, <1>4, <2>1
<1> HIDE DEF q, n, worth, new, delta, flattening, notional
<1>14. q # 0
  <2> SUFFICES ASSUME q = 0 PROVE FALSE
    OBVIOUS
  <2>1. ~flattening /\ delta = 0 /\ n * worth <= Magnitude(delta) /\ Magnitude(delta) = 0
    <3>1. ~flattening /\ delta = 0 - notional /\ n * worth <= Magnitude(delta)
      BY <1>12, Zenon
    <3>2. delta = 0
      <4>1. delta = 0 - notional
        BY <1>12, Zenon
      <4>2. notional = 0
        BY <1>13
      <4> QED
        BY <4>1, <4>2
    <3>3. Magnitude(0) = 0
      BY DEF Magnitude
    <3> QED
      BY <3>1, <3>2, <3>3
  <2>2. n * worth > 0
    BY <1>1, <1>2
  <2>3. n * worth \in Nat
    BY <1>1, <1>2
  <2> QED
    BY <2>1, <2>2, <2>3
<1>15. Magnitude(q) \in Nat /\ (q > 0 => Magnitude(q) = q) /\ (q < 0 => Magnitude(q) = -q)
  BY <1>1, MagnitudeOf
<1>16. Magnitude(notional) = Magnitude(q) * worth
  <2>1. notional = q * worth
    BY <1>12, <1>14
  <2>2. q > 0 => q * worth > 0
    BY <1>1, <1>2
  <2>3. q < 0 => (-q) * worth > 0 /\ (-q) * worth = -(q * worth)
    BY <1>1, <1>2
  <2>4. q * worth \in Int
    BY <1>1, <1>2
  <2>5. Magnitude(q * worth) = IF q > 0 THEN q * worth ELSE (-q) * worth
    BY <1>1, <1>14, <2>2, <2>3, <2>4 DEF Magnitude
  <2> QED
    BY <1>1, <1>14, <1>15, <2>1, <2>5
<1>17. n <= Magnitude(q)
  <2>1. CASE flattening
    BY <1>1, <1>12, <1>15, <2>1
  <2>2. CASE ~flattening
    <3>1. n * worth <= MaxOrderNotional /\ MaxOrderNotional < Magnitude(q) * worth
      <4>1. ~(Magnitude(notional) <= MaxOrderNotional)
        BY <1>12, <1>14, <2>2
      <4>2. Magnitude(notional) \in Nat
        BY <1>12, MagnitudeOf
      <4> QED
        BY <1>7, <1>12, <1>16, <2>2, <4>1, <4>2
    <3>2. \A i, j, w \in Nat : w > 0 /\ ~(i <= j) => j * w <= i * w
      OBVIOUS
    <3>3. n * worth \in Nat /\ Magnitude(q) * worth \in Nat
      BY <1>1, <1>2, <1>15
    <3> QED
      BY <1>1, <1>2, <1>7, <1>15, <3>1, <3>2, <3>3
  <2> QED
    BY <2>1, <2>2
<1>18. delta > 0 <=> q < 0
  <2>1. notional = q * worth
    BY <1>12, <1>14
  <2>2. q > 0 => q * worth > 0
    BY <1>1, <1>2
  <2>3. q < 0 => q * worth < 0
    <3>1. q < 0 => (-q) * worth > 0 /\ (-q) * worth = -(q * worth)
      BY <1>1, <1>2
    <3>2. q * worth \in Int
      BY <1>1, <1>2
    <3> QED
      BY <3>1, <3>2
  <2> QED
    BY <1>1, <1>12, <1>14, <2>1, <2>2, <2>3
<1>19. new = IF q < 0 THEN q + n ELSE q - n
  BY <1>1, <1>12, <1>18
<1>20. StrictlyReduces(q, new)
  BY <1>1, <1>14, <1>15, <1>17, <1>19 DEF StrictlyReduces, Magnitude
<1> QED
  BY <1>11, <1>20

-----------------------------------------------------------------------------
(* The invariant of sizes.                                                 *)

\* An authorized order has whole lots, and reduces if the round was flat.
LEMMA SizingOfEvaluate ==
  ASSUME IInv, SizingInv, Evaluate
  PROVE  SizingInv'
<1>1. /\ RunOK /\ stage = "risk" /\ UNCHANGED <<account, processed, cache, contexts>>
      /\ account \in AccountType /\ run.snapshot.price \in Prices /\ run.round \in Signals
      /\ run.symbol \in Held(account) => account.mark[run.symbol] = run.snapshot.price
  BY DEF Evaluate, IInv, SizingInv
<1>2. CASE stage' = "idle"
  BY <1>1, <1>2 DEF SizingInv
<1>3. CASE stage' # "idle"
  <2>1. PICK volatile, sound \in BOOLEAN :
          /\ Approves(Decision(volatile, sound), run.snapshot, account, run.symbol, run.at)
          /\ stage' = "execution"
          /\ run' = [run EXCEPT !.order = Authorized(volatile, sound), !.snapshot = None]
    BY <1>3 DEF Evaluate, Ended
  <2>2. run'.order = Authorized(volatile, sound) /\ run'.round = run.round
    BY <1>1, <2>1, WithOrder DEF RunOK
  <2> DEFINE d == Decision(volatile, sound)
             o == ProposedOrder(d, run.snapshot, account, run.symbol, run.at)
  <2>3. d.target \in Int /\ (AllFlat(run.round) => d.target = 0)
    <3>1. d.target = Target(run.round)
      BY DEF Decision, Aggregate
    <3> HIDE DEF d
    <3> QED
      BY <1>1, <3>1, TargetIsInt
  <2> HIDE DEF d
  <2>4. /\ o.side = Side(d, account, run.symbol)
        /\ o.qty = Quantity(d, run.snapshot, account, run.symbol)
    BY DEF ProposedOrder
  <2>5. /\ Authorized(volatile, sound).side = o.side /\ Authorized(volatile, sound).qty = o.qty
        /\ Authorized(volatile, sound).reduceOnly = o.reduceOnly
    BY DEF Authorized, ProposedOrder, d
  <2>6. o.qty \in Nat /\ o.side \in {"buy", "sell"}
    <3>1. run.symbol \in Symbols
      BY <1>1 DEF RunOK
    <3>2. Quantity(d, run.snapshot, account, run.symbol) \in Nat
      BY <1>1, <2>3, <3>1, Sized
    <3> QED
      BY <2>4, <3>2 DEF Side
  <2>7. o.qty > 0
    BY <2>1 DEF Approves, d
  <2>8. AllFlat(run.round) => o.reduceOnly
    <3>1. run.symbol \in Symbols
      BY <1>1 DEF RunOK
    <3> QED
      BY <1>1, <2>3, <2>4, <2>7, <3>1, FlatOrdersReduce
  <2> HIDE DEF o
  <2>9. AllFlat(run.round)' = AllFlat(run.round)
    BY <2>2 DEF AllFlat, Alpha
  <2> QED
    BY <1>1, <2>1, <2>2, <2>5, <2>6, <2>8, <2>9 DEF SizingInv
<1> QED
  BY <1>2, <1>3

LEMMA SizingOfFill ==
  ASSUME IInv, SizingInv, NEW opening \in Openings, Fill(opening)
  PROVE  SizingInv'
<1>1. /\ RunOK /\ OrderOK /\ account \in AccountType /\ stage' = "idle"
      /\ run.order.side \in {"buy", "sell"} /\ run.order.qty \in Nat
      /\ account' = AfterFill(account, run.order, opening)
  BY DEF Fill, IInv, SizingInv, Ended
<1>2. /\ run.order.symbol \in Symbols /\ opening.price \in Nat
      /\ opening.openedAt \in Nat /\ opening.observedAt \in Nat
  <2>1. run.at \in Nat /\ run.at + 1 \in Nat /\ run.order.symbol \in Symbols
    BY <1>1, EvaluationTimes DEF RunOK, OrderOK
  <2>2. opening.price \in Prices
    BY DEF Openings
  <2>3. opening.openedAt \in {run.at, run.at + 1} /\ opening.observedAt \in {run.at, run.at + 1}
    BY DEF Openings
  <2> QED
    BY <2>1, <2>2, <2>3, PositivePrices
<1>3. Direction(run.order) \in Int /\ Direction(run.order) * run.order.qty \in Int
  BY <1>1 DEF Direction
<1>4. CashChange(run.order, opening.price) \in Int
  <2>1. Bps \in Int /\ SlippageBps \in Int /\ FeeBps \in Int
    BY CostAssumption
  <2>2. FillPrice(run.order, opening.price) \in Int
    <3>1. Bps + Direction(run.order) * SlippageBps \in Int
      BY <1>3, <2>1
    <3> QED
      BY <1>2, <3>1 DEF FillPrice
  <2>3. run.order.qty * FillPrice(run.order, opening.price) \in Int
    BY <1>1, <2>2
  <2>4. /\ run.order.qty * FillPrice(run.order, opening.price) * (Bps + FeeBps) \in Int
        /\ run.order.qty * FillPrice(run.order, opening.price) * (Bps - FeeBps) \in Int
    BY <2>1, <2>3
  <2> QED
    BY <2>4 DEF CashChange
<1>5. NewQuantity(account, run.order) \in Int
  BY <1>1, <1>2, <1>3 DEF NewQuantity, AccountType
<1>6. account' \in AccountType
  BY <1>1, <1>2, <1>4, <1>5 DEF AfterFill, AccountType
<1> QED
  BY <1>1, <1>6 DEF SizingInv

LEMMA SizingOfMark ==
  ASSUME IInv, SizingInv, Mark
  PROVE  SizingInv'
<1>1. /\ RunOK /\ account \in AccountType /\ run.snapshot.price \in Prices /\ run.round \in Signals
      /\ UNCHANGED run /\ stage' = "risk"
  BY DEF Mark, IInv, SizingInv
<1>2. PICK marks \in Marks : account' = AfterMark(account, marks, run.at)
  BY DEF Mark
<1>3. /\ marks \in [Held(account) -> [price : Prices, at : {run.at - 1, run.at}]]
      /\ run.symbol \in Held(account) => marks[run.symbol].price = run.snapshot.price
  BY DEF Marks
<1>4. run.at \in Nat /\ run.at - 1 \in Nat
  BY <1>1, EvaluationTimes DEF RunOK
<1>5. \A s \in Held(account) : marks[s].price \in Nat /\ marks[s].at \in Nat
  <2>1. \A s \in Held(account) : marks[s].price \in Prices /\ marks[s].at \in {run.at - 1, run.at}
    BY <1>3
  <2> QED
    BY <1>4, <2>1, PositivePrices
<1>6. account' \in AccountType
  BY <1>1, <1>2, <1>4, <1>5 DEF AfterMark, AccountType
<1>7. account'.qty = account.qty
  BY <1>2 DEF AfterMark
<1>8. run.symbol \in Held(account) => account'.mark[run.symbol] = run.snapshot.price
  BY <1>2, <1>3 DEF AfterMark, Held
<1> QED
  BY <1>1, <1>6, <1>7, <1>8 DEF SizingInv, Held

LEMMA SizingInit ==
  Init => SizingInv
BY PipelineAssumption DEF Init, SizingInv, OpenAccount, AccountType

LEMMA SizingStep ==
  IInv /\ SizingInv /\ [Next]_vars => SizingInv'
<1> SUFFICES ASSUME IInv, SizingInv, [Next]_vars PROVE SizingInv'
  OBVIOUS
<1>1. CASE UNCHANGED vars
  BY <1>1 DEF vars, SizingInv, AllFlat, Alpha, Held
<1>2. CASE UNCHANGED account /\ stage' = "idle"
  BY <1>2 DEF SizingInv
<1>3. ASSUME NEW s \in Symbols, NEW t \in Times, Start(s, t) PROVE SizingInv'
  BY <1>3 DEF Start, SizingInv
<1>4. CASE Observe
  <2>1. PICK snap \in Snapshots : run' = [run EXCEPT !.snapshot = snap]
    BY <1>4 DEF Observe
  <2>2. RunOK /\ UNCHANGED account /\ stage' = "context"
    BY <1>4 DEF Observe, IInv
  <2>3. run'.snapshot = snap /\ snap.price \in Prices
    BY <2>1, <2>2, WithSnapshot DEF RunOK, Snapshots
  <2> QED
    BY <2>2, <2>3 DEF SizingInv
<1>5. CASE Fetch
  <2>1. RunOK /\ UNCHANGED <<account, stage>> /\ stage = "context"
        /\ run' = [run EXCEPT !.asked = run.asked + 1]
    BY <1>5 DEF Fetch, IInv
  <2>2. run'.snapshot = run.snapshot
    BY <2>1, WithAsked DEF RunOK
  <2> QED
    BY <2>1, <2>2 DEF SizingInv
<1>6. CASE Enrich
  <2>1. RunOK /\ UNCHANGED account /\ run.snapshot.price \in Prices
    BY <1>6 DEF Enrich, IInv, SizingInv
  <2>2. CASE stage' = "agents" /\ run' = [run EXCEPT !.context = Gathered]
    <3>1. run'.snapshot = run.snapshot
      BY <2>1, <2>2, WithContext DEF RunOK
    <3> QED
      BY <2>1, <2>2, <3>1 DEF SizingInv
  <2> QED
    BY <1>2, <1>6, <2>1, <2>2 DEF Enrich, Ended
<1>7. CASE Deliberate
  <2>1. RunOK /\ UNCHANGED account /\ run.snapshot.price \in Prices /\ stage' = "portfolio_mark"
    BY <1>7 DEF Deliberate, IInv, SizingInv
  <2>2. PICK round \in Rounds(Available(run.context)) :
          run' = [run EXCEPT !.round = round, !.context = None]
    BY <1>7 DEF Deliberate
  <2>3. run'.snapshot = run.snapshot /\ run'.round = round
    BY <2>1, <2>2, WithRound DEF RunOK
  <2>4. round \in Signals
    BY DEF Rounds, Signals
  <2> QED
    BY <2>1, <2>3, <2>4 DEF SizingInv
<1>8. CASE Raise \/ MarkRaises \/ Unexecuted
  BY <1>2, <1>8 DEF Raise, MarkRaises, Unexecuted, Ended
<1>9. ASSUME NEW opening \in Openings, Reject(opening) PROVE SizingInv'
  BY <1>2, <1>9 DEF Reject, Ended
<1> QED
  BY <1>1, <1>3, <1>4, <1>5, <1>6, <1>7, <1>8, <1>9, SizingOfMark, SizingOfEvaluate, SizingOfFill
  DEF Next

\* A Council that is silent trades nothing, and one all of whose alpha agents ask to
\* be flat, or all to reduce, never adds to a position or reverses one, whatever the
\* policy, the prices, the limits and the opening.
THEOREM RestraintAddsNoRisk ==
  Spec => RestraintNeverAddsRisk
<1> DEFINE Restrained ==
             /\ Alpha(run.round) = {} => Holdings(account') = run.before
             /\ AllFlat(run.round) \/ AllReduceOnly(run.round) =>
                  \A s \in Symbols :
                    \/ account'.qty[s] = run.before.qty[s]
                    \/ StrictlyReduces(run.before.qty[s], account'.qty[s])
<1>1. IInv /\ SizingInv /\ [Next]_vars => [stage = "execution" => Restrained]_vars
  <2> SUFFICES ASSUME IInv, SizingInv, Next, stage = "execution"
               PROVE  Restrained
    OBVIOUS
  <2>1. /\ RunOK /\ OrderOK
        /\ AllFlat(run.round) \/ AllReduceOnly(run.round) => run.order.reduceOnly
    BY DEF IInv, SizingInv, OrderOK
  <2>2. CASE UNCHANGED account
    BY <2>1, <2>2 DEF RunOK, Holdings
  <2>3. ASSUME NEW opening \in Openings, Fill(opening) PROVE Restrained
    BY <2>1, <2>3, FillKeeps DEF OrderOK
  <2> HIDE DEF Restrained
  <2> QED
    BY <2>2, <2>3 DEF Next, Start, Raise, Observe, Fetch, Enrich, Deliberate, Mark, MarkRaises,
                      Evaluate, Unexecuted, Reject
<1>2. Spec => []SizingInv
  BY PipelineInvariant, SizingInit, SizingStep, PTL DEF Spec
<1> QED
  BY PipelineInvariant, <1>1, <1>2, PTL DEF Spec, RestraintNeverAddsRisk
=============================================================================
