---------------------------- MODULE PaperAccount ----------------------------
(***************************************************************************)
(* The paper account of execution/paper.py and the two rules that change   *)
(* it: marking to market, and filling an approved order at a bar opening.  *)
(* The operators are pure, so that the adapter alone (PaperExecution) and  *)
(* the replay engine (BacktestEngine) share them.                          *)
(*                                                                         *)
(* Money.  Prices and quantities are natural numbers and a basis-point     *)
(* rate is a numerator over Bps (10_000 in the code).  A fill price is     *)
(* then exact in units of 1/Bps, and cash, notional and fee are exact in   *)
(* units of 1/(Bps*Bps), which is the unit of every amount below.          *)
(***************************************************************************)
EXTENDS Integers, FiniteSets, FiniteSetsExt

CONSTANTS
  Symbols,      \* the markets an order can name (symbol and timeframe)
  Bps,          \* the denominator of the rates
  SlippageBps,  \* the adapter's slippage, adverse to the order's side
  FeeBps        \* the adapter's fee on the filled notional

(***************************************************************************)
(* PaperExecutionAdapter.__init__ refuses rates outside 0..10_000.         *)
(***************************************************************************)
ASSUME CostAssumption ==
  /\ Bps \in Nat \ {0}
  /\ SlippageBps \in 0 .. Bps
  /\ FeeBps \in 0 .. Bps

(***************************************************************************)
(* An ApprovedOrder, as its validators let it exist.  The rate bounds are  *)
(* the ones the governor copied from the adapter's cost_bounds.            *)
(***************************************************************************)
Order(Ids) ==
  {o \in [id: Ids, symbol: Symbols, side: {"buy", "sell"}, qty: Nat \ {0},
          ref: Nat \ {0}, authorizedAt: Nat, earliest: Nat, expires: Nat,
          maxFee: 0 .. Bps, maxSlip: 0 .. Bps, reduceOnly: BOOLEAN] :
     o.authorizedAt <= o.earliest /\ o.earliest <= o.expires}

(***************************************************************************)
(* An account: cash, and per symbol a signed quantity, its mark and the    *)
(* time the mark was observed.  Quantity zero stands for "no position"; a  *)
(* closed position keeps no mark.                                          *)
(***************************************************************************)
AccountType ==
  [cash: Int, qty: [Symbols -> Int], mark: [Symbols -> Nat],
   markAt: [Symbols -> Nat], valuedAt: Nat]

OpenAccount(cash, at) ==
  [cash |-> cash, qty |-> [s \in Symbols |-> 0], mark |-> [s \in Symbols |-> 0],
   markAt |-> [s \in Symbols |-> 0], valuedAt |-> at]

Held(acct) == {s \in Symbols : acct.qty[s] # 0}

Magnitude(n) == IF n < 0 THEN -n ELSE n

(***************************************************************************)
(* Marked values, in the unit of cash.                                     *)
(***************************************************************************)
Notional(acct, s) == acct.qty[s] * acct.mark[s] * Bps * Bps

Equity(acct) == acct.cash + MapThenSumSet(LAMBDA s : Notional(acct, s), Symbols)

GrossExposure(acct) ==
  MapThenSumSet(LAMBDA s : Magnitude(Notional(acct, s)), Symbols)

(***************************************************************************)
(* Cost of an order at a bar opening: fill price (unit 1/Bps) and the cash *)
(* it moves, fee included.                                                 *)
(***************************************************************************)
Direction(o) == IF o.side = "buy" THEN 1 ELSE -1

FillPrice(o, price) == price * (Bps + Direction(o) * SlippageBps)

CashChange(o, price) ==
  IF o.side = "buy" THEN -(o.qty * FillPrice(o, price) * (Bps + FeeBps))
                    ELSE o.qty * FillPrice(o, price) * (Bps - FeeBps)

(***************************************************************************)
(* Slippage of the fill against the order's reference price, compared with *)
(* the bound without dividing by the reference.                            *)
(***************************************************************************)
SlippageExceeds(o, price) ==
  Direction(o) * (FillPrice(o, price) - o.ref * Bps) > o.maxSlip * o.ref

StrictlyReduces(current, prospective) ==
  /\ current # 0
  /\ \/ prospective = 0
     \/ /\ (current > 0) <=> (prospective > 0)
        /\ Magnitude(prospective) < Magnitude(current)

(***************************************************************************)
(* Mutant of CausallyRejected: the expiry is not looked at.                *)
(***************************************************************************)
RejectedUnlessExpired(acct, processed, o, opening, submitted) ==
  \/ o.id \in processed
  \/ o.symbol # opening.symbol
  \/ submitted < o.authorizedAt
  \/ submitted > opening.openedAt
  \/ opening.observedAt # opening.openedAt
  \/ opening.openedAt < o.earliest
  \/ opening.openedAt < acct.valuedAt

(***************************************************************************)
(* _rejection_reason: the checks made before any price is computed.  An    *)
(* opening is a record of symbol, price, openedAt and observedAt.          *)
(***************************************************************************)
CausallyRejected(acct, processed, o, opening, submitted) ==
  \/ o.id \in processed
  \/ o.symbol # opening.symbol
  \/ submitted < o.authorizedAt
  \/ submitted > opening.openedAt
  \/ opening.observedAt # opening.openedAt
  \/ opening.openedAt < o.earliest
  \/ opening.openedAt > o.expires
  \/ opening.openedAt < acct.valuedAt

NewQuantity(acct, o) == acct.qty[o.symbol] + Direction(o) * o.qty

(***************************************************************************)
(* Mutants of EconomicallyRejected: the cash, or the reduction, is not     *)
(* checked.                                                                *)
(***************************************************************************)
RejectedUnlessOverdrawn(acct, o, price) ==
  \/ SlippageExceeds(o, price)
  \/ FeeBps > o.maxFee
  \/ o.reduceOnly /\ ~StrictlyReduces(acct.qty[o.symbol], NewQuantity(acct, o))

RejectedUnlessReversing(acct, o, price) ==
  \/ SlippageExceeds(o, price)
  \/ FeeBps > o.maxFee
  \/ acct.cash + CashChange(o, price) < 0 /\ ~o.reduceOnly

(***************************************************************************)
(* The checks execute makes afterwards, on price, cost, cash and quantity. *)
(***************************************************************************)
EconomicallyRejected(acct, o, price) ==
  \/ SlippageExceeds(o, price)
  \/ FeeBps > o.maxFee
  \/ acct.cash + CashChange(o, price) < 0 /\ ~o.reduceOnly
  \/ o.reduceOnly /\ ~StrictlyReduces(acct.qty[o.symbol], NewQuantity(acct, o))

Rejected(acct, processed, o, opening, submitted) ==
  \/ CausallyRejected(acct, processed, o, opening, submitted)
  \/ EconomicallyRejected(acct, o, opening.price)

(***************************************************************************)
(* Mutant of AfterFill: the fee is reported and not paid.                  *)
(***************************************************************************)
AfterFillWithoutFee(acct, o, opening) ==
  LET new  == NewQuantity(acct, o)
      flat == new = 0
  IN [cash     |-> acct.cash - Direction(o) * o.qty * FillPrice(o, opening.price) * Bps,
      qty      |-> [acct.qty EXCEPT ![o.symbol] = new],
      mark     |-> [acct.mark EXCEPT ![o.symbol] = IF flat THEN 0 ELSE opening.price],
      markAt   |-> [acct.markAt EXCEPT ![o.symbol] = IF flat THEN 0 ELSE opening.observedAt],
      valuedAt |-> opening.openedAt]

(***************************************************************************)
(* The account after the fill.  The mark is the independent opening, never *)
(* the slipped fill price; a flat position is removed.                     *)
(***************************************************************************)
AfterFill(acct, o, opening) ==
  LET new  == NewQuantity(acct, o)
      flat == new = 0
  IN [cash     |-> acct.cash + CashChange(o, opening.price),
      qty      |-> [acct.qty EXCEPT ![o.symbol] = new],
      mark     |-> [acct.mark EXCEPT ![o.symbol] = IF flat THEN 0 ELSE opening.price],
      markAt   |-> [acct.markAt EXCEPT ![o.symbol] = IF flat THEN 0 ELSE opening.observedAt],
      valuedAt |-> opening.openedAt]

(***************************************************************************)
(* mark_to_market: what makes it raise, and the account it commits.  marks *)
(* is a function from the observed symbols to a price and its time.        *)
(***************************************************************************)
MarkAccepted(acct, marks, at) ==
  /\ at >= acct.valuedAt
  /\ Held(acct) \subseteq DOMAIN marks
  /\ \A s \in Held(acct) : marks[s].at <= at

AfterMark(acct, marks, at) ==
  [cash     |-> acct.cash,
   qty      |-> acct.qty,
   mark     |-> [s \in Symbols |-> IF s \in Held(acct) THEN marks[s].price ELSE 0],
   markAt   |-> [s \in Symbols |-> IF s \in Held(acct) THEN marks[s].at ELSE 0],
   valuedAt |-> at]
=============================================================================
