---------------------------- MODULE RiskGovernor ----------------------------
(***************************************************************************)
(* DeterministicRiskGovernor (risk/governor.py): the sizing and the vetoes *)
(* of evaluate, and the post-fill gate of reconcile, as operators on an    *)
(* account of PaperAccount.                                                *)
(*                                                                         *)
(* A fraction of the policy, and a target exposure, is a numerator over    *)
(* Frac.  A quantity is a whole number of lots: where the code divides a   *)
(* notional by a price, the model rounds the quotient down, and "not more  *)
(* than the notional tolerance" is "no whole lot".                         *)
(***************************************************************************)
EXTENDS PaperAccount

CONSTANTS
  Frac,                \* denominator of exposures and policy fractions
  MaxPosition,         \* max_position_fraction
  MaxGross,            \* max_gross_exposure_fraction
  CashReserve,         \* minimum_cash_reserve_fraction
  MaxOrderNotional,    \* max_order_notional, in the unit of cash
  MaxObservationAge,   \* max_observation_age_seconds, in ticks
  MaxSignalAge,        \* max_signal_age_seconds, in ticks
  OrderValidity,       \* order_validity_seconds, in ticks
  MaxFeeBps,           \* max_fee_bps
  MaxSlippageBps,      \* max_slippage_bps
  AllowShorting        \* allow_shorting

(***************************************************************************)
(* RiskPolicy's field bounds and its validate_limits.                      *)
(***************************************************************************)
ASSUME PolicyAssumption ==
  /\ Frac \in Nat \ {0}
  /\ MaxPosition \in 1 .. Frac /\ MaxGross \in MaxPosition .. Frac
  /\ CashReserve \in 0 .. Frac
  /\ MaxOrderNotional \in Nat \ {0}
  /\ MaxObservationAge \in Nat /\ MaxSignalAge \in Nat
  /\ OrderValidity \in Nat \ {0}
  /\ MaxFeeBps \in 0 .. Bps /\ MaxSlippageBps \in 0 .. Bps
  /\ AllowShorting \in BOOLEAN

Unit == Bps * Bps   \* one price unit in the unit of cash

(***************************************************************************)
(* A council decision carries its action, its signed target, when it was   *)
(* made, when it expires, whether its signals pass their own causal checks *)
(* (sound), and whether one of the restrictions that depend on data the    *)
(* model does not hold applies (restricted: confidence below the minimum,  *)
(* a symbol that is not allowed, volatility missing or above its limit).   *)
(* A snapshot carries the last close, its bar's interval end and when it   *)
(* became available.  A decision is stale, and an observation is, when its *)
(* age is negative or beyond the limit.                                    *)
(***************************************************************************)
Stale(age, limit) == age < 0 \/ age > limit

(***************************************************************************)
(* _causal_reasons, for a snapshot taken at the evaluation.                *)
(***************************************************************************)
CausalVeto(d, snap, p, at) ==
  \/ Stale(at - snap.availableAt, MaxObservationAge)
  \/ p.valuedAt # at
  \/ \E s \in Held(p) : Stale(at - p.markAt[s], MaxObservationAge)
  \/ Stale(at - d.decidedAt, MaxSignalAge)
  \/ d.expires < at
  \/ ~d.sound

-----------------------------------------------------------------------------
(***************************************************************************)
(* Sizing.  The account's position is valued at its mark, while the order  *)
(* is sized and priced at the snapshot's last close.                       *)
(***************************************************************************)
TargetNotional(d, p) == (d.target * Equity(p) * MaxPosition) \div (Frac * Frac)

DeltaNotional(d, p, s) == TargetNotional(d, p) - Notional(p, s)

Side(d, p, s) == IF DeltaNotional(d, p, s) > 0 THEN "buy" ELSE "sell"

Flattening(d, p, s) ==
  /\ TargetNotional(d, p) = 0
  /\ s \in Held(p)
  /\ Magnitude(Notional(p, s)) <= MaxOrderNotional

Quantity(d, snap, p, s) ==
  IF Flattening(d, p, s)
  THEN Magnitude(p.qty[s])
  ELSE Min({Magnitude(DeltaNotional(d, p, s)), MaxOrderNotional}) \div (snap.price * Unit)

(***************************************************************************)
(* Mutant of ProposedOrder: the intent of the council makes an order       *)
(* reduce-only.                                                            *)
(***************************************************************************)
ProposedOrderByIntent(d, snap, p, s, at) ==
  [id |-> at, symbol |-> s, side |-> Side(d, p, s), qty |-> Quantity(d, snap, p, s),
   ref |-> snap.price, authorizedAt |-> at, earliest |-> at,
   expires |-> Min({d.expires, at + OrderValidity}), maxFee |-> FeeBps, maxSlip |-> SlippageBps,
   reduceOnly |-> d.action = "reduce_only"]

(***************************************************************************)
(* The order evaluate would authorize at time at.  A simulation instant    *)
(* has at most one decision, so the instant identifies the authorization.  *)
(***************************************************************************)
ProposedOrder(d, snap, p, s, at) ==
  LET side == Side(d, p, s)
      qty  == Quantity(d, snap, p, s)
      new  == p.qty[s] + (IF side = "buy" THEN qty ELSE -qty)
  IN [id |-> at, symbol |-> s, side |-> side, qty |-> qty, ref |-> snap.price,
      authorizedAt |-> at, earliest |-> at, expires |-> Min({d.expires, at + OrderValidity}),
      maxFee |-> FeeBps, maxSlip |-> SlippageBps,
      reduceOnly |-> StrictlyReduces(p.qty[s], new)]

(***************************************************************************)
(* Mutant of RestrictionVeto: shorting is not looked at.                   *)
(***************************************************************************)
RestrictionVetoWithoutShorting(d, p, prospective) ==
  \/ d.restricted
  \/ Equity(p) <= 0
  \/ p.cash < 0

(***************************************************************************)
(* _restriction_reasons.                                                   *)
(***************************************************************************)
RestrictionVeto(d, p, prospective) ==
  \/ prospective < 0 /\ ~AllowShorting
  \/ d.restricted
  \/ Equity(p) <= 0
  \/ p.cash < 0

(***************************************************************************)
(* Mutant of LimitVeto: the cash reserve is not looked at.                 *)
(***************************************************************************)
LimitVetoWithoutReserve(o, p) ==
  LET signed == Direction(o) * o.qty
      equity == Equity(p) + signed * o.ref * Unit + CashChange(o, o.ref)
      symbol == Magnitude((p.qty[o.symbol] + signed) * o.ref * Unit)
  IN equity <= 0 \/ symbol * Frac > equity * MaxPosition

(***************************************************************************)
(* The limits, computed for a fill at the worst authorized price.          *)
(***************************************************************************)
LimitVeto(o, p) ==
  LET signed == Direction(o) * o.qty
      change == CashChange(o, o.ref)
      cash   == p.cash + change
      equity == Equity(p) + signed * o.ref * Unit + change
      symbol == Magnitude((p.qty[o.symbol] + signed) * o.ref * Unit)
      gross  == GrossExposure(p) - Magnitude(Notional(p, o.symbol)) + symbol
  IN \/ cash * Frac < equity * CashReserve
     \/ equity <= 0
     \/ gross * Frac > equity * MaxGross
     \/ symbol * Frac > equity * MaxPosition

(***************************************************************************)
(* Mutant of Approves: restrictions and limits bind reductions too.        *)
(***************************************************************************)
ApprovesUnrestricted(d, snap, p, s, at) ==
  LET o == ProposedOrder(d, snap, p, s, at)
  IN /\ ~CausalVeto(d, snap, p, at)
     /\ d.action # "none"
     /\ o.qty > 0
     /\ d.action = "reduce_only" => o.reduceOnly
     /\ ~RestrictionVeto(d, p, p.qty[s] + Direction(o) * o.qty)
     /\ ~LimitVeto(o, p)

(***************************************************************************)
(* evaluate approves: no causal veto, adapter rates inside the policy, an  *)
(* actionable decision, at least a lot to trade, and either a strict       *)
(* reduction or neither a restriction nor a limit in the way.              *)
(***************************************************************************)
Approves(d, snap, p, s, at) ==
  LET o           == ProposedOrder(d, snap, p, s, at)
      prospective == p.qty[s] + Direction(o) * o.qty
  IN /\ ~CausalVeto(d, snap, p, at)
     /\ FeeBps <= MaxFeeBps /\ SlippageBps <= MaxSlippageBps
     /\ d.action # "none"
     /\ o.qty > 0
     /\ FillPrice(o, o.ref) > 0
     /\ \/ o.reduceOnly
        \/ /\ d.action # "reduce_only"
           /\ ~RestrictionVeto(d, p, prospective)
           /\ ~LimitVeto(o, p)

-----------------------------------------------------------------------------
(***************************************************************************)
(* reconcile: the fill of o at opening price, submitted at submitted,      *)
(* compared with the accounts before and after it.                         *)
(***************************************************************************)
WithinLimits(o, after) ==
  /\ Equity(after) > 0
  /\ GrossExposure(after) * Frac <= Equity(after) * MaxGross
  /\ after.cash * Frac >= Equity(after) * CashReserve
  /\ o.qty * o.ref * Unit <= MaxOrderNotional
  /\ \A s \in Symbols :
       /\ Magnitude(Notional(after, s)) * Frac <= Equity(after) * MaxPosition
       /\ after.qty[s] < 0 => AllowShorting

Compliant(o, opening, submitted, before, after) ==
  /\ ~SlippageExceeds(o, opening.price)
  /\ FeeBps <= o.maxFee
  /\ o.authorizedAt <= submitted /\ submitted <= opening.openedAt
  /\ o.earliest <= opening.openedAt /\ opening.openedAt <= o.expires
  /\ after.valuedAt = opening.openedAt
  /\ after.qty[o.symbol] = before.qty[o.symbol] + Direction(o) * o.qty
  /\ after.cash = before.cash + CashChange(o, opening.price)
  /\ IF o.reduceOnly
     THEN StrictlyReduces(before.qty[o.symbol], after.qty[o.symbol])
     ELSE WithinLimits(o, after)
=============================================================================
