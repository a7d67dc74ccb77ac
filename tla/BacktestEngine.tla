--------------------------- MODULE BacktestEngine ---------------------------
(***************************************************************************)
(* BacktestEngine.run (backtest/engine.py): the replay of one instrument   *)
(* through the council, the risk governor, the paper adapter and the       *)
(* reconciliation gate.  Simulation time visits every bar opening, every   *)
(* instant at which a bar becomes available, and the evaluation end.  At   *)
(* each instant the engine, in this order, gives the opening to a queued   *)
(* order, selects a mark and marks the account, and lets the council       *)
(* decide.  The three parts are three actions here, because the inputs of  *)
(* each (opening price, close, decision) are revealed one after the other. *)
(*                                                                         *)
(* Prices are revealed when the engine first reads them: a bar's close is  *)
(* chosen when the bar becomes the last one of a snapshot, which is the    *)
(* only use the replay makes of it.                                        *)
(***************************************************************************)
EXTENDS RiskGovernor

CONSTANTS
  Instrument,    \* the one market replayed
  Prices,        \* prices of openings and closes
  BarTicks,      \* ticks in a bar
  StartBar,      \* the bar that opens at config.start; earlier ones warm up
  EndBar,        \* the bar that opens at config.end
  MaxDelay,      \* ticks a bar may become available after its end
  Cadence,       \* decision_cadence_bars
  Exposures,     \* target exposures the council may ask for, over Frac
  Horizons,      \* ticks until a decision expires
  StartingCash,
  None

ASSUME EngineAssumption ==
  /\ Symbols = {Instrument}
  /\ Prices \subseteq Nat \ {0}
  /\ BarTicks \in Nat \ {0}
  /\ StartBar \in Nat /\ EndBar \in Nat /\ StartBar < EndBar
  /\ MaxDelay \in Nat
  /\ Cadence \in Nat \ {0}
  /\ Exposures \subseteq -Frac .. Frac
  /\ Horizons \subseteq Nat
  /\ StartingCash \in Nat \ {0}

MarkType == [price: Prices, marketTime: Nat, availableAt: Nat]

ASSUME NoneAssumption == None \notin Prices \cup MarkType \cup Order(Nat)

VARIABLES
  delay,       \* per bar, how late it becomes available; fixed for a run
  now,         \* simulation_time
  phase,       \* the part of the event to run next, or how the run ended
  opening,     \* current_open: the price of the bar opening now, or None
  snap,        \* the last bar of the snapshot, or None
  mark,        \* latest_market_mark, or None
  account,     \* the adapter's account
  processed,   \* the adapter's filled authorizations
  pending,     \* the queued order, or None
  index,       \* decision_index modulo the cadence
  lifecycle,   \* history: last lifecycle status of each authorization
  sizedAt      \* history: the price the position of the pending order was valued at

vars == <<delay, now, phase, opening, snap, mark, account, processed, pending,
          index, lifecycle, sizedAt>>

-----------------------------------------------------------------------------
(***************************************************************************)
(* The clock.                                                              *)
(***************************************************************************)
Bars == 0 .. EndBar
OpensAt(b) == b * BarTicks
ClosesAt(b) == (b + 1) * BarTicks
AvailableAt(b) == ClosesAt(b) + delay[b]
Start == OpensAt(StartBar)
End == OpensAt(EndBar)

EventTimes == {OpensAt(b) : b \in Bars} \cup {AvailableAt(b) : b \in {c \in Bars : AvailableAt(c) <= End}}

Later == {t \in EventTimes : t > now}

IsOpening(t) == \E b \in Bars : OpensAt(b) = t

Visible == {b \in Bars : AvailableAt(b) <= now}

(***************************************************************************)
(* The history request ends one bar after the evaluation: every bar is     *)
(* available by then.                                                      *)
(***************************************************************************)
Delays == {f \in [Bars -> 0 .. MaxDelay] : \A b \in Bars : ClosesAt(b) + f[b] <= ClosesAt(EndBar)}

Init ==
  /\ delay \in Delays
  /\ now = 0
  /\ phase = "opening"
  /\ opening = None
  /\ snap = None
  /\ mark = None
  /\ account = OpenAccount(StartingCash, 0)
  /\ processed = {}
  /\ pending = None
  /\ index = 0
  /\ lifecycle = [t \in 0 .. End |-> "none"]
  /\ sizedAt = 0

(***************************************************************************)
(* should_cancel is asked once, before anything of the event is done.      *)
(***************************************************************************)
Cancel ==
  /\ phase = "opening"
  /\ phase' = "cancelled"
  /\ UNCHANGED <<delay, now, opening, snap, mark, account, processed, pending, index,
                 lifecycle, sizedAt>>

\* Mutant of MeetsOpening: only an instant at which a bar becomes available counts.
MeetsOpeningWithClose == pending # None /\ IsOpening(now) /\ \E b \in Bars : AvailableAt(b) = now

(***************************************************************************)
(* A queued order meets the opening of a bar, which must lie strictly in   *)
(* its future.  Without such a meeting the opening is only looked at.      *)
(***************************************************************************)
MeetsOpening == pending # None /\ IsOpening(now)

PassOpening ==
  /\ phase = "opening"
  /\ ~(MeetsOpening /\ now > pending.authorizedAt)
  /\ IF IsOpening(now) THEN \E p \in Prices : opening' = p ELSE opening' = None
  /\ phase' = IF MeetsOpening THEN "raised: opening not in the future" ELSE "marking"
  /\ UNCHANGED <<delay, now, snap, mark, account, processed, pending, index, lifecycle,
                 sizedAt>>

OpeningAt(p) == [symbol |-> Instrument, price |-> p, openedAt |-> now, observedAt |-> now]

(***************************************************************************)
(* Mutant of RejectQueued: the rejection is not recorded.                  *)
(***************************************************************************)
RejectQueuedSilently(p) ==
  /\ phase = "opening"
  /\ MeetsOpening /\ now > pending.authorizedAt
  /\ Rejected(account, processed, pending, OpeningAt(p), pending.authorizedAt)
  /\ opening' = p
  /\ pending' = None
  /\ phase' = "marking"
  /\ UNCHANGED <<delay, now, snap, mark, account, processed, index, lifecycle, sizedAt>>

(***************************************************************************)
(* The adapter rejects the order, or fills it; a fill is reconciled, and   *)
(* one that is not compliant ends the run.  The order then leaves the      *)
(* queue.  It is submitted as of its authorization.                        *)
(***************************************************************************)
RejectQueued(p) ==
  /\ phase = "opening"
  /\ MeetsOpening /\ now > pending.authorizedAt
  /\ Rejected(account, processed, pending, OpeningAt(p), pending.authorizedAt)
  /\ opening' = p
  /\ lifecycle' = [lifecycle EXCEPT ![pending.id] = "rejected"]
  /\ pending' = None
  /\ phase' = "marking"
  /\ UNCHANGED <<delay, now, snap, mark, account, processed, index, sizedAt>>

FillQueued(p) ==
  /\ phase = "opening"
  /\ MeetsOpening /\ now > pending.authorizedAt
  /\ ~Rejected(account, processed, pending, OpeningAt(p), pending.authorizedAt)
  /\ opening' = p
  /\ account' = AfterFill(account, pending, OpeningAt(p))
  /\ processed' = processed \cup {pending.id}
  /\ lifecycle' = [lifecycle EXCEPT ![pending.id] = "filled"]
  /\ IF Compliant(pending, OpeningAt(p), pending.authorizedAt, account, account')
     THEN phase' = "marking" /\ pending' = None
     ELSE phase' = "raised: reconciliation" /\ UNCHANGED pending
  /\ UNCHANGED <<delay, now, snap, mark, index, sizedAt>>

(***************************************************************************)
(* The snapshot at now.  Bars keep their order, so the last one is the     *)
(* newest bar that is available, however late its predecessors are.        *)
(***************************************************************************)
TakeSnapshot ==
  IF Visible = {} THEN snap' = None
  ELSE LET b == Max(Visible)
       IN IF snap # None /\ snap.closedAt = ClosesAt(b)
          THEN UNCHANGED snap
          ELSE \E p \in Prices : snap' = [price |-> p, closedAt |-> ClosesAt(b),
                                          availableAt |-> AvailableAt(b)]

(***************************************************************************)
(* Mutant of SelectMark: a close replaces the opening of the same instant. *)
(***************************************************************************)
SelectMarkOnTie(s) ==
  LET close == [price |-> s.price, marketTime |-> s.closedAt, availableAt |-> s.availableAt]
      open  == [price |-> opening, marketTime |-> now, availableAt |-> now]
      first == IF s # None /\ (mark = None \/ close.marketTime >= mark.marketTime)
               THEN close ELSE mark
  IN IF opening # None /\ (first = None \/ open.marketTime >= first.marketTime)
     THEN open ELSE first

(***************************************************************************)
(* _select_latest_market_mark, for the snapshot s.                         *)
(***************************************************************************)
SelectMark(s) ==
  LET close == [price |-> s.price, marketTime |-> s.closedAt, availableAt |-> s.availableAt]
      open  == [price |-> opening, marketTime |-> now, availableAt |-> now]
      first == IF s # None /\ (mark = None \/ close.marketTime > mark.marketTime)
               THEN close ELSE mark
  IN IF opening # None /\ (first = None \/ open.marketTime >= first.marketTime)
     THEN open ELSE first

(***************************************************************************)
(* The snapshot is taken, the mark selected and the account marked to it   *)
(* (_mark, which raises for an open position without a mark).              *)
(***************************************************************************)
MarkAccount ==
  /\ phase = "marking"
  /\ TakeSnapshot
  /\ mark' = SelectMark(snap')
  /\ LET marks == [s \in Held(account) |-> [price |-> mark'.price, at |-> mark'.availableAt]]
     IN IF Held(account) # {} /\ (mark' = None \/ ~MarkAccepted(account, marks, now))
        THEN phase' = "raised: no causal mark" /\ UNCHANGED account
        ELSE phase' = "deciding" /\ account' = AfterMark(account, marks, now)
  /\ UNCHANGED <<delay, now, opening, processed, pending, index, lifecycle, sizedAt>>

(***************************************************************************)
(* The end of an event: on to the next instant, or to the end of the run,  *)
(* which refuses to leave an order in the queue.                           *)
(***************************************************************************)
EndEvent(queue) ==
  IF Later # {} THEN now' = Min(Later) /\ phase' = "opening"
  ELSE /\ UNCHANGED now
       /\ phase' = IF queue # None THEN "raised: order left in the queue" ELSE "completed"

\* Mutant of DecisionDue: the evaluation end decides too.
DecisionDueAtEnd == Start <= now /\ now <= End /\ snap # None

DecisionDue == Start <= now /\ now < End /\ snap # None

NextIndex == (index + 1) % Cadence

(***************************************************************************)
(* No decision at this instant: outside the evaluation, no snapshot yet,   *)
(* or not its turn in the cadence.                                         *)
(***************************************************************************)
SkipDecision ==
  /\ phase = "deciding"
  /\ ~(DecisionDue /\ index = 0)
  /\ index' = IF DecisionDue THEN NextIndex ELSE index
  /\ EndEvent(pending)
  /\ UNCHANGED <<delay, opening, snap, mark, account, processed, pending, lifecycle, sizedAt>>

(***************************************************************************)
(* Council, governor and queue.  The assignment of an approved order to    *)
(* the queue does not ask whether the queue is empty.                      *)
(***************************************************************************)
Decisions ==
  [action: {"target_exposure", "reduce_only"}, target: Exposures, decidedAt: {now},
   expires: {now + h : h \in Horizons}, sound: BOOLEAN, restricted: BOOLEAN]
  \cup
  [action: {"none"}, target: {0}, decidedAt: {now}, expires: {now}, sound: {TRUE},
   restricted: {FALSE}]

\* Mutant of Decide: an occupied queue keeps its order.
DecideKeepingQueue(d) ==
  /\ phase = "deciding"
  /\ DecisionDue /\ index = 0
  /\ index' = NextIndex
  /\ IF Approves(d, snap, account, Instrument, now)
     THEN /\ pending' = IF pending # None THEN pending
                       ELSE ProposedOrder(d, snap, account, Instrument, now)
          /\ lifecycle' = [lifecycle EXCEPT ![now] = "queued"]
          /\ sizedAt' = IF Held(account) # {} THEN mark.price ELSE snap.price
     ELSE UNCHANGED <<pending, lifecycle, sizedAt>>
  /\ EndEvent(pending')
  /\ UNCHANGED <<delay, opening, snap, mark, account, processed>>

Decide(d) ==
  /\ phase = "deciding"
  /\ DecisionDue /\ index = 0
  /\ index' = NextIndex
  /\ IF Approves(d, snap, account, Instrument, now)
     THEN /\ pending' = ProposedOrder(d, snap, account, Instrument, now)
          /\ lifecycle' = [lifecycle EXCEPT ![now] = "queued"]
          /\ sizedAt' = IF Held(account) # {} THEN mark.price ELSE snap.price
     ELSE UNCHANGED <<pending, lifecycle, sizedAt>>
  /\ EndEvent(pending')
  /\ UNCHANGED <<delay, opening, snap, mark, account, processed>>

Next ==
  \/ Cancel
  \/ PassOpening
  \/ \E p \in Prices : RejectQueued(p)
  \/ \E p \in Prices : FillQueued(p)
  \/ MarkAccount
  \/ SkipDecision
  \/ \E d \in Decisions : Decide(d)

Spec == Init /\ [][Next]_vars

-----------------------------------------------------------------------------
(***************************************************************************)
(* Every variable keeps its type.                                          *)
(***************************************************************************)
TypeOK ==
  /\ delay \in Delays
  /\ now \in EventTimes
  /\ phase \in {"opening", "marking", "deciding", "cancelled", "completed",
               "raised: opening not in the future", "raised: no causal mark",
               "raised: order left in the queue", "raised: reconciliation"}
  /\ opening \in Prices \cup {None}
  /\ snap = None \/ snap \in [price: Prices, closedAt: Nat, availableAt: Nat]
  /\ mark = None \/ mark \in MarkType
  /\ account \in AccountType
  /\ processed \subseteq 0 .. End
  /\ pending = None \/ pending \in Order(0 .. End)
  /\ index \in 0 .. Cadence - 1
  /\ lifecycle \in [0 .. End -> {"none", "queued", "filled", "rejected"}]
  /\ sizedAt \in Nat

(***************************************************************************)
(* Causality of the queue.  At the start of an event the queued order was  *)
(* authorized at an earlier instant and no bar has opened in between: it   *)
(* meets the first opening after its authorization, never the one it was   *)
(* decided on and never a later one.                                       *)
(***************************************************************************)
QueueMeetsNextOpening ==
  phase = "opening" /\ pending # None =>
    /\ pending.authorizedAt < now
    /\ \A b \in Bars : ~(pending.authorizedAt < OpensAt(b) /\ OpensAt(b) < now)

(***************************************************************************)
(* The internal assertions of run that are not about limits cannot fail:   *)
(* a queued order never meets a past opening, an open position always has  *)
(* a causal mark, and no order is left in the queue at the end.            *)
(***************************************************************************)
AssertionsHold ==
  phase \notin {"raised: opening not in the future", "raised: no causal mark",
               "raised: order left in the queue"}

(***************************************************************************)
(* Whatever the delays, a decision is made on an account valued now, with  *)
(* the newest market observation there is: the latest opening itself,      *)
(* which no close replaces, neither one that was published late nor the    *)
(* one of the instant of the opening.                                      *)
(***************************************************************************)
DecidesOnNewestMark ==
  phase = "deciding" =>
    /\ account.valuedAt = now
    /\ mark.marketTime = Max({OpensAt(b) : b \in {c \in Bars : OpensAt(c) <= now}})
    /\ mark.availableAt = mark.marketTime
    /\ snap # None => snap.availableAt <= now

(***************************************************************************)
(* With shorting disabled the account is never short and never overdrawn,  *)
(* and an order that waits in the queue cannot change that when it fills,  *)
(* although it was sized against an earlier valuation.                     *)
(***************************************************************************)
LongOnlyStaysSolvent ==
  ~AllowShorting =>
    /\ account.qty[Instrument] >= 0
    /\ account.cash >= 0
    /\ pending # None /\ pending.side = "sell" => pending.qty <= account.qty[Instrument]

(***************************************************************************)
(* A queued reduction is still a strict reduction when it meets its        *)
(* opening: the adapter never rejects it for that reason.                  *)
(***************************************************************************)
QueuedReductionStaysValid ==
  pending # None /\ pending.reduceOnly =>
    StrictlyReduces(account.qty[Instrument], NewQuantity(account, pending))

(***************************************************************************)
(* With shorting disabled, the limits evaluate checks at the worst         *)
(* authorized price are enough for the reconciliation at any price the     *)
(* adapter fills at, however far the market gapped, provided the           *)
(* position, if there was one, was valued at the price the order was sized *)
(* with.                                                                   *)
(***************************************************************************)
ConsistentlyPricedFillsReconcile ==
  ~AllowShorting /\ phase = "raised: reconciliation" => sizedAt # pending.ref

(***************************************************************************)
(* Post-fill reconciliation never fails for an order the governor          *)
(* authorized: the assertion at the raise of run.                          *)
(***************************************************************************)
AuthorizedFillsReconcile == phase # "raised: reconciliation"

(***************************************************************************)
(* Every queued order has met an opening when the run completes: its last  *)
(* lifecycle record says it was filled or rejected.                        *)
(***************************************************************************)
QueuedOrdersSettle ==
  phase = "completed" => \A t \in DOMAIN lifecycle : lifecycle[t] # "queued"

\* An approval after t, before another bar has opened.
Replaced(t) ==
  \E u \in DOMAIN lifecycle :
    /\ t < u /\ lifecycle[u] # "none"
    /\ \A b \in Bars : ~(t < OpensAt(b) /\ OpensAt(b) <= u)

(***************************************************************************)
(* What becomes of several approvals between two openings, which late bars *)
(* make possible: the newest one meets the next opening, and it alone.  An *)
(* approval without an outcome waits in the queue or has been replaced     *)
(* before it could meet an opening, never lost in another way; and none    *)
(* that has been replaced is acted on (the assignment to pending in run).  *)
(***************************************************************************)
NewestApprovalSettles ==
  \A t \in DOMAIN lifecycle :
    /\ lifecycle[t] \in {"filled", "rejected"} => ~Replaced(t)
    /\ lifecycle[t] = "queued" => Replaced(t) \/ (pending # None /\ pending.id = t)

(***************************************************************************)
(* A sound, fresh decision to hold nothing gets an order that reduces the  *)
(* position, whatever the restrictions.  Flattens names such a decision.   *)
(***************************************************************************)
Flattens(d) ==
  /\ phase = "deciding" /\ DecisionDue
  /\ d.target = 0 /\ d.action # "none"
  /\ Held(account) # {}
  /\ ~CausalVeto(d, snap, account, now)

ExposureIsNeverTrapped ==
  \A d \in Decisions : Flattens(d) => Approves(d, snap, account, Instrument, now)

(***************************************************************************)
(* The same, for a position valued at the price the order is sized with.   *)
(***************************************************************************)
ConsistentlyPricedExposureIsNeverTrapped ==
  \A d \in Decisions :
    Flattens(d) /\ mark.price = snap.price
      => /\ Approves(d, snap, account, Instrument, now)
         /\ ProposedOrder(d, snap, account, Instrument, now).reduceOnly

(***************************************************************************)
(* The market time of the mark never goes back.                            *)
(***************************************************************************)
MarkNeverRegresses ==
  [][mark # None => mark'.marketTime >= mark.marketTime]_vars
=============================================================================
