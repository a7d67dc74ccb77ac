------------------------------- MODULE Pipeline -------------------------------
(***************************************************************************)
(* ResearchTradingPipeline.run (pipeline.py): one evaluation of a market   *)
(* goes through the market data, the context, the agents and the Council,  *)
(* the mark of the portfolio, the risk governor and the paper adapter.     *)
(* Any stage may raise; the caller is free to run again, for the same or   *)
(* another market and time.  What outlives a run is the account of the     *)
(* adapter and the cache of the ContextService.                            *)
(*                                                                         *)
(* Providers are external: a snapshot, a datum and an opening are whatever *)
(* their validators admit, chosen when they are first read.                *)
(***************************************************************************)
EXTENDS RiskGovernor, Council, Sequences

CONSTANTS
  Capabilities,          \* requested ones, beyond the price history
  ProviderOrder,         \* the sequence of context providers
  Offers,                \* provider -> its capabilities
  Vintages,              \* versions of a datum
  Prices,
  Times,                 \* evaluation times callers choose
  RiskMinimumConfidence, \* of the risk policy
  StartingCash,
  MaxRuns,               \* bound on the runs
  None

ASSUME PipelineAssumption ==
  /\ IsFiniteSet(Symbols)
  /\ ProviderOrder \in Seq(DOMAIN Offers)
  /\ \A i, j \in DOMAIN ProviderOrder :
       i # j => Offers[ProviderOrder[i]] \cap Offers[ProviderOrder[j]] = {}
  /\ Prices \subseteq Nat \ {0} /\ Times \subseteq Nat \ {0}
  /\ RiskMinimumConfidence \in 0 .. ConfidenceUnit
  /\ StartingCash \in Nat \ {0} /\ MaxRuns \in Nat

VARIABLES
  stage,      \* what the pipeline does next
  run,        \* the current run, or how the last one ended
  account,    \* the adapter's account
  processed,  \* the adapter's filled authorizations
  cache,      \* ContextService: <<provider, request>> -> its answer, as far as asked
  contexts,   \* history: the contexts built
  runs        \* runs so far

vars == <<stage, run, account, processed, cache, contexts, runs>>

-----------------------------------------------------------------------------
(***************************************************************************)
(* ContextService.                                                         *)
(***************************************************************************)
ContextProviders == {ProviderOrder[i] : i \in DOMAIN ProviderOrder}

Request == [symbol |-> run.symbol, at |-> run.at]

\* A datum has a vintage and the time since which it was available; a request at
\* time at may be answered with one that was not.
Data(at) == [vintage : Vintages, availableAt : {at, at + 1}]

Answers(p, at) == [Offers[p] -> Data(at) \cup {None}]

\* Mutant of Cached: an empty answer does not count.
CachedNonEmpty(p) ==
  /\ <<p, Request>> \in DOMAIN cache
  /\ \E c \in Offers[p] : cache[<<p, Request>>][c] # None

Cached(p) == <<p, Request>> \in DOMAIN cache

Asked(p) == \E i \in DOMAIN ProviderOrder : i <= run.asked /\ ProviderOrder[i] = p

\* The data of the providers asked so far.
Gathered ==
  [c \in Capabilities |->
     IF \E p \in ContextProviders : Asked(p) /\ c \in Offers[p]
     THEN cache[<<CHOOSE p \in ContextProviders : c \in Offers[p], Request>>][c]
     ELSE None]

Available(context) == {c \in Capabilities : context[c] # None}

\* MarketContext refuses evidence that was not available at the evaluation.
Causal(context) == \A c \in Available(context) : context[c].availableAt <= run.at

-----------------------------------------------------------------------------
Holdings(acct) == [cash |-> acct.cash, qty |-> acct.qty]

NoRun == [outcome |-> "none"]

Init ==
  /\ stage = "idle" /\ run = NoRun
  /\ account = OpenAccount(StartingCash, 0)
  /\ processed = {}
  /\ cache = [k \in {} |-> None]
  /\ contexts = {} /\ runs = 0

Start(symbol, at) ==
  /\ stage = "idle" /\ runs < MaxRuns
  /\ stage' = "market_data" /\ runs' = runs + 1
  /\ run' = [outcome |-> "running", symbol |-> symbol, at |-> at, asked |-> 0,
             snapshot |-> None, context |-> None, round |-> None, order |-> None,
             before |-> Holdings(account)]
  /\ UNCHANGED <<account, processed, cache, contexts>>

(***************************************************************************)
(* How a run ends: of its own state nothing is kept.                       *)
(***************************************************************************)
Ended(outcome) == stage' = "idle" /\ run' = [outcome |-> outcome]

\* A stage before the portfolio is marked raises: the provider has no snapshot or
\* returns one from the future, a context provider fails or returns what it did not
\* declare, an agent raises.
Raise ==
  /\ stage \in {"market_data", "context", "agents"}
  /\ Ended("failed")
  /\ UNCHANGED <<account, processed, cache, contexts, runs>>

\* A snapshot is taken and observed at the evaluation; its last bar may be older.
Snapshots == [price : Prices, availableAt : {run.at - 1, run.at}]

Observe ==
  /\ stage = "market_data"
  /\ \E s \in Snapshots : run' = [run EXCEPT !.snapshot = s]
  /\ stage' = "context"
  /\ UNCHANGED <<account, processed, cache, contexts, runs>>

\* The next provider is asked, unless the cache has its answer to this request.
Fetch ==
  /\ stage = "context" /\ run.asked < Len(ProviderOrder)
  /\ LET p == ProviderOrder[run.asked + 1] IN
       IF Cached(p) THEN UNCHANGED cache
       ELSE \E answer \in Answers(p, run.at) :
              cache' = [k \in DOMAIN cache \cup {<<p, Request>>} |->
                          IF k = <<p, Request>> THEN answer ELSE cache[k]]
  /\ run' = [run EXCEPT !.asked = run.asked + 1]
  /\ UNCHANGED <<stage, account, processed, contexts, runs>>

\* The context is built, or refused after its parts were cached.
Enrich ==
  /\ stage = "context" /\ run.asked = Len(ProviderOrder)
  /\ contexts' = contexts \cup {[request |-> Request, data |-> Gathered]}
  /\ IF Causal(Gathered)
       THEN stage' = "agents" /\ run' = [run EXCEPT !.context = Gathered]
       ELSE Ended("failed")
  /\ UNCHANGED <<account, processed, cache, runs>>

\* The agents signal one after the other and the Council decides.
Deliberate ==
  /\ stage = "agents"
  /\ \E round \in Rounds(Available(run.context)) : run' = [run EXCEPT !.round = round, !.context = None]
  /\ stage' = "portfolio_mark"
  /\ UNCHANGED <<account, processed, cache, contexts, runs>>

(***************************************************************************)
(* Every held symbol is marked, this one with the snapshot of the run.     *)
(***************************************************************************)
Marks ==
  {m \in [Held(account) -> [price : Prices, at : {run.at - 1, run.at}]] :
     run.symbol \in Held(account) =>
       m[run.symbol] = [price |-> run.snapshot.price, at |-> run.snapshot.availableAt]}

Mark ==
  /\ stage = "portfolio_mark"
  /\ \E marks \in Marks :
       /\ MarkAccepted(account, marks, run.at)
       /\ account' = AfterMark(account, marks, run.at)
  /\ stage' = "risk"
  /\ UNCHANGED <<run, processed, cache, contexts, runs>>

\* There is no snapshot for a held symbol, or the account is valued later already.
MarkRaises ==
  /\ stage = "portfolio_mark"
  /\ Held(account) \ {run.symbol} # {} \/ run.at < account.valuedAt
  /\ Ended("failed")
  /\ UNCHANGED <<account, processed, cache, contexts, runs>>

(***************************************************************************)
(* The governor.  A decision is not sound when one of its signals is       *)
(* invalid or brings a stale volatility, which the Council lets pass, and  *)
(* the round does not show; volatility itself is data.  Every symbol is    *)
(* permitted.                                                              *)
(***************************************************************************)
Decision(volatile, sound) ==
  LET d == Aggregate(run.round, run.at) IN
  [action |-> d.action, target |-> d.target, decidedAt |-> d.decidedAt, expires |-> d.expires,
   sound |-> sound,
   restricted |-> volatile \/ d.confidence.num < RiskMinimumConfidence * d.confidence.den]

\* The authorization is named by the decision, which is named by its snapshot (its
\* market, time and bars) and signals, and by the order's terms.
Authorized(volatile, sound) ==
  LET o == ProposedOrder(Decision(volatile, sound), run.snapshot, account, run.symbol, run.at) IN
  [o EXCEPT !.id = <<run.symbol, run.snapshot, run.round, o.side, o.qty, o.ref, run.at>>]

Evaluate ==
  /\ stage = "risk"
  /\ \E volatile, sound \in BOOLEAN :
       IF Approves(Decision(volatile, sound), run.snapshot, account, run.symbol, run.at)
       THEN stage' = "execution" /\ run' = [run EXCEPT !.order = Authorized(volatile, sound),
                                                     !.snapshot = None]
       ELSE Ended("vetoed")
  /\ UNCHANGED <<account, processed, cache, contexts, runs>>

(***************************************************************************)
(* Execution at the opening the caller supplied, if any.                   *)
(***************************************************************************)
Openings == [symbol : Symbols, price : Prices, openedAt : {run.at, run.at + 1},
             observedAt : {run.at, run.at + 1}]

Unexecuted ==
  /\ stage = "execution"
  /\ Ended("approved")
  /\ UNCHANGED <<account, processed, cache, contexts, runs>>

Reject(opening) ==
  /\ stage = "execution" /\ opening.observedAt >= opening.openedAt
  /\ Rejected(account, processed, run.order, opening, run.at)
  /\ Ended("rejected")
  /\ UNCHANGED <<account, processed, cache, contexts, runs>>

\* Mutant of Fill: a fill that does not reconcile ends the run as a failure, as it
\* does in the backtest.
FillOrRaise(opening) ==
  /\ stage = "execution" /\ opening.observedAt >= opening.openedAt
  /\ ~Rejected(account, processed, run.order, opening, run.at)
  /\ account' = AfterFill(account, run.order, opening)
  /\ processed' = processed \cup {run.order.id}
  /\ IF Compliant(run.order, opening, run.at, account, account')
       THEN Ended("filled") ELSE Ended("failed")
  /\ UNCHANGED <<cache, contexts, runs>>

\* A fill is reconciled and the run completes whatever the reconciliation says.
Fill(opening) ==
  /\ stage = "execution" /\ opening.observedAt >= opening.openedAt
  /\ ~Rejected(account, processed, run.order, opening, run.at)
  /\ account' = AfterFill(account, run.order, opening)
  /\ processed' = processed \cup {run.order.id}
  /\ IF Compliant(run.order, opening, run.at, account, account')
       THEN Ended("filled") ELSE Ended("filled, not compliant")
  /\ UNCHANGED <<cache, contexts, runs>>

Next ==
  \/ \E s \in Symbols, t \in Times : Start(s, t)
  \/ Raise \/ Observe \/ Fetch \/ Enrich \/ Deliberate \/ Mark \/ MarkRaises \/ Evaluate
  \/ Unexecuted
  \/ stage = "execution" /\ \E o \in Openings : Reject(o) \/ Fill(o)

Spec == Init /\ [][Next]_vars

-----------------------------------------------------------------------------
TypeOK ==
  /\ stage \in {"idle", "market_data", "context", "agents", "portfolio_mark", "risk", "execution"}
  /\ run.outcome \in {"none", "running", "failed", "vetoed", "approved", "rejected", "filled",
                      "filled, not compliant"}
  /\ (stage # "idle") <=> (run.outcome = "running")
  /\ account.cash \in Int /\ DOMAIN account.qty = Symbols
  /\ runs \in 0 .. MaxRuns

(***************************************************************************)
(* A caller that sees an exception may run again: a run that failed, at    *)
(* whatever stage, has left the cash and the quantities as they were.      *)
(* Only marks may have moved (run's order of the stages; a fill that does  *)
(* not reconcile is reported and not raised).                              *)
(***************************************************************************)
FailureLeavesHoldings ==
  [][stage # "idle" /\ run'.outcome = "failed" => Holdings(account') = run.before]_vars

(***************************************************************************)
(* A repeated request is answered with the same context, though providers  *)
(* revise their data, answer partly, or have nothing to say at first       *)
(* (ContextService.enrich's cache, MarketContext).                         *)
(***************************************************************************)
ContextIsReproducible ==
  \A c, d \in contexts : c.request = d.request => c = d

(***************************************************************************)
(* A Council that is silent trades nothing, and one whose alpha agents all *)
(* ask to be flat, or all to reduce, never adds to a position or reverses  *)
(* one, at whatever opening the order is filled (aggregate, evaluate,      *)
(* execute: each knows a part of this).                                    *)
(***************************************************************************)
RestraintNeverAddsRisk ==
  [][stage = "execution" =>
       /\ Alpha(run.round) = {} => Holdings(account') = run.before
       /\ AllFlat(run.round) \/ AllReduceOnly(run.round) =>
            \A s \in Symbols :
              \/ account'.qty[s] = run.before.qty[s]
              \/ StrictlyReduces(run.before.qty[s], account'.qty[s])]_vars
=============================================================================
