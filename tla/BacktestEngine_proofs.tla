----------------------- MODULE BacktestEngine_proofs -----------------------
(***************************************************************************)
(* The replay for any prices, delays, cadence, policy and decisions: the   *)
(* order of its events (queue, mark, decision), its assertions, and what   *)
(* the limits of the governor guarantee for an order that waits.           *)
(*                                                                         *)
(* EngineInv says where a run is in its clock.  Its core is that no bar    *)
(* opens between the mark, or the authorization of the queued order, and   *)
(* the event that uses it; with it, the marking never raises and the queue *)
(* is empty at the last opening.  SolvencyInv adds, for accounts that may  *)
(* not be short, what evaluate has found affordable at the reference price *)
(* of the queued purchase; NewestInv what became of every approval.        *)
(***************************************************************************)
EXTENDS BacktestEngine, FiniteSetTheorems, NaturalsInduction, WellFoundedInduction, TLAPS

-----------------------------------------------------------------------------
(* Least and greatest numbers, products and sums.                          *)

LEMMA LeastNumber ==
  ASSUME NEW S \in SUBSET Nat, S # {}
  PROVE  Min(S) \in S /\ \A y \in S : Min(S) <= y
<1>1. \E x \in S : \A y \in S : ~ (<<y, x>> \in OpToRel(<, Nat))
  BY NatLessThanWellFounded, WFMin
<1>2. PICK x \in S : \A y \in S : ~ (<<y, x>> \in OpToRel(<, Nat))
  BY <1>1
<1>3. x \in Nat /\ \A y \in S : y \in Nat
  OBVIOUS
<1>4. \A y \in S : ~(y < x)
  BY <1>2, <1>3 DEF OpToRel
<1>5. \A y \in S : x <= y
  BY <1>3, <1>4
<1>6. QED  BY <1>5 DEF Min

LEMMA GreatestNumber ==
  ASSUME NEW n \in Nat, NEW S \in SUBSET (0 .. n), S # {}
  PROVE  Max(S) \in S /\ \A y \in S : y <= Max(S)
<1> DEFINE T == {n - x : x \in S}
<1>1. T \in SUBSET Nat /\ T # {}
  <2>1. \A x \in S : n - x \in Nat
    OBVIOUS
  <2>2. QED  BY <2>1
<1>2. Min(T) \in T /\ \A y \in T : Min(T) <= y
  BY <1>1, LeastNumber
<1>3. PICK x \in S : Min(T) = n - x
  BY <1>2
<1>4. ASSUME NEW y \in S PROVE y <= x
  <2>1. n - y \in T
    OBVIOUS
  <2>2. n - x <= n - y
    BY <1>2, <1>3, <2>1
  <2>3. QED  BY <2>2
<1>5. \E z \in S : \A y \in S : z >= y
  BY <1>4
<1>6. Max(S) \in S /\ \A y \in S : Max(S) >= y
  BY <1>5 DEF Max
<1>7. QED  BY <1>6

LEMMA Products ==
  ASSUME NEW i \in Nat, NEW j \in Nat, NEW k \in Nat, i <= j
  PROVE  i * k \in Nat /\ i * k <= j * k
<1>1. (j - i) * k \in Nat /\ i * k \in Nat
  OBVIOUS
<1>2. j * k = i * k + (j - i) * k
  OBVIOUS
<1>3. QED  BY <1>1, <1>2

\* A sum over one symbol is its one term.
LEMMA SumOverOne ==
  ASSUME NEW acct, acct \in AccountType
  PROVE  Equity(acct) = acct.cash + Notional(acct, Instrument)
<1> DEFINE f(s) == Notional(acct, s)
           Steps(g) == g = [s \in SUBSET {Instrument} |->
                              IF s = {} THEN 0
                              ELSE f(CHOOSE x \in s : TRUE) + g[s \ {CHOOSE x \in s : TRUE}]]
           w == [s \in SUBSET {Instrument} |-> IF s = {} THEN 0 ELSE f(Instrument)]
<1>1. f(Instrument) \in Int
  BY EngineAssumption, CostAssumption DEF Notional, AccountType
<1>2. Steps(w)
  <2>1. ASSUME NEW s \in SUBSET {Instrument}, s # {}
        PROVE  /\ (CHOOSE x \in s : TRUE) = Instrument
               /\ s \ {CHOOSE x \in s : TRUE} = {}
    BY <2>1
  <2>2. w[{}] = 0
    OBVIOUS
  <2> HIDE DEF f
  <2>3. QED  BY <1>1, <2>1, <2>2
<1>3. Steps(CHOOSE g : Steps(g))
  BY <1>2
<1>4. Equity(acct) = acct.cash + (CHOOSE g : Steps(g))[{Instrument}]
  BY EngineAssumption DEF Equity, MapThenSumSet, MapThenFoldSet
<1> DEFINE g == CHOOSE h : Steps(h)
<1>5. g[{}] = 0
  BY <1>3
<1>6. {Instrument} # {} /\ {Instrument} \in SUBSET {Instrument}
      /\ (CHOOSE x \in {Instrument} : TRUE) = Instrument /\ {Instrument} \ {Instrument} = {}
  OBVIOUS
<1>7. g[{Instrument}] = f(Instrument) + g[{}]
  BY <1>3, <1>6, Zenon
<1>8. QED  BY <1>1, <1>4, <1>5, <1>7

LEMMA LeastOfTwo ==
  ASSUME NEW a \in Int, NEW b \in Int
  PROVE  /\ Min({a, b}) \in {a, b}
         /\ Min({a, b}) <= a /\ Min({a, b}) <= b
<1>1. \E x \in {a, b} : \A y \in {a, b} : x <= y
  BY a <= b \/ b <= a
<1>2. Min({a, b}) \in {a, b} /\ \A y \in {a, b} : Min({a, b}) <= y
  BY <1>1 DEF Min
<1>3. QED  BY <1>2

-----------------------------------------------------------------------------
(* The clock.                                                              *)

LEMMA BarTimes ==
  ASSUME delay \in Delays, NEW b \in Bars
  PROVE  /\ OpensAt(b) \in 0 .. End
         /\ ClosesAt(b) \in Nat /\ AvailableAt(b) \in Nat
         /\ ClosesAt(b) <= AvailableAt(b)
         /\ \/ b + 1 \in Bars /\ ClosesAt(b) = OpensAt(b + 1)
            \/ ClosesAt(b) > End
<1>1. b \in Nat /\ b <= EndBar /\ BarTicks \in Nat /\ BarTicks > 0 /\ EndBar \in Nat
  BY EngineAssumption DEF Bars
<1>2. OpensAt(b) \in 0 .. End
  BY <1>1, Products DEF OpensAt, End
<1>3. ClosesAt(b) \in Nat
  BY <1>1, Products DEF ClosesAt
<1>4. delay[b] \in Nat
  BY EngineAssumption DEF Delays
<1>5. CASE b = EndBar
  <2>1. ClosesAt(b) = End + BarTicks /\ End \in Nat
    BY <1>1, <1>2, <1>5 DEF ClosesAt, End, OpensAt
  <2>2. ClosesAt(b) > End
    BY <1>1, <2>1
  <2>3. QED  BY <1>2, <1>3, <1>4, <2>2 DEF AvailableAt
<1>6. CASE b # EndBar
  <2>1. b + 1 \in Bars /\ ClosesAt(b) = OpensAt(b + 1)
    BY <1>1, <1>6 DEF Bars, ClosesAt, OpensAt
  <2>2. QED  BY <1>2, <1>3, <1>4, <2>1 DEF AvailableAt
<1>7. QED  BY <1>5, <1>6

LEMMA Events ==
  ASSUME delay \in Delays
  PROVE  /\ EventTimes \subseteq 0 .. End /\ End \in Nat
         /\ \A b \in Bars : OpensAt(b) \in EventTimes /\ IsOpening(OpensAt(b))
         /\ 0 \in EventTimes /\ IsOpening(0)
         /\ End \in EventTimes /\ IsOpening(End)
<1>1. 0 \in Bars /\ EndBar \in Bars /\ OpensAt(0) = 0 /\ OpensAt(EndBar) = End
  BY EngineAssumption DEF Bars, OpensAt, End
<1>2. End \in Nat
  BY <1>1, BarTimes
<1>3. \A b \in Bars : OpensAt(b) \in EventTimes /\ IsOpening(OpensAt(b))
  BY DEF EventTimes, IsOpening
<1>4. ASSUME NEW t \in EventTimes PROVE t \in 0 .. End
  <2>1. CASE \E b \in Bars : t = OpensAt(b)
    BY <2>1, BarTimes
  <2>2. CASE \E b \in Bars : t = AvailableAt(b) /\ AvailableAt(b) <= End
    BY <1>2, <2>2, BarTimes
  <2>3. QED  BY <2>1, <2>2 DEF EventTimes
<1>5. QED  BY <1>1, <1>2, <1>3, <1>4

\* No bar opens between an event and the next, and the last event is the end.
LEMMA NextEvent ==
  ASSUME delay \in Delays, now \in EventTimes
  PROVE  /\ Later # {} => /\ Min(Later) \in EventTimes /\ now < Min(Later)
                          /\ \A b \in Bars : ~(now < OpensAt(b) /\ OpensAt(b) < Min(Later))
         /\ Later = {} => now = End
<1>1. EventTimes \subseteq Nat /\ now \in 0 .. End /\ End \in EventTimes /\ End \in Nat
  BY Events
<1>2. ASSUME Later # {}
      PROVE  /\ Min(Later) \in EventTimes /\ now < Min(Later)
             /\ \A b \in Bars : ~(now < OpensAt(b) /\ OpensAt(b) < Min(Later))
  <2>1. Later \in SUBSET Nat
    BY <1>1 DEF Later
  <2>2. Min(Later) \in Later /\ \A t \in Later : Min(Later) <= t
    BY <1>2, <2>1, LeastNumber
  <2>3. ASSUME NEW b \in Bars, now < OpensAt(b), OpensAt(b) < Min(Later) PROVE FALSE
    <3>1. OpensAt(b) \in Later
      BY <2>3, Events DEF Later
    <3>2. Min(Later) <= OpensAt(b) /\ Min(Later) \in Nat /\ OpensAt(b) \in Nat
      BY <2>1, <2>2, <3>1
    <3>3. QED  BY <2>3, <3>2
  <2>4. QED  BY <2>2, <2>3 DEF Later
<1>3. ASSUME Later = {} PROVE now = End
  <2>1. ~(End > now)
    BY <1>1, <1>3 DEF Later
  <2>2. QED  BY <1>1, <2>1
<1>4. QED  BY <1>2, <1>3

\* The newest bar that is available.
LEMMA NewestVisible ==
  ASSUME delay \in Delays, now \in EventTimes, Visible # {}
  PROVE  Max(Visible) \in Bars /\ AvailableAt(Max(Visible)) <= now
<1>1. EndBar \in Nat /\ Visible \in SUBSET (0 .. EndBar)
  BY EngineAssumption DEF Visible, Bars
<1>2. Max(Visible) \in Visible
  BY <1>1, GreatestNumber
<1>3. QED  BY <1>2 DEF Visible

-----------------------------------------------------------------------------
(* Orders and the account.                                                 *)

LEMMA Rates ==
  /\ Bps \in Nat /\ Bps > 0
  /\ SlippageBps \in Nat /\ SlippageBps <= Bps
  /\ FeeBps \in Nat /\ FeeBps <= Bps
  /\ Unit \in Nat /\ Unit > 0
<1>1. Bps \in Nat /\ Bps > 0 /\ SlippageBps \in Nat /\ SlippageBps <= Bps /\ FeeBps \in Nat /\ FeeBps <= Bps
  BY CostAssumption
<1>2. Bps * Bps \in Nat /\ Bps * Bps > 0
  BY <1>1
<1>3. QED  BY <1>1, <1>2 DEF Unit

LEMMA OrderFields ==
  ASSUME NEW Ids, NEW o \in Order(Ids)
  PROVE  /\ o.id \in Ids /\ o.symbol = Instrument /\ o.symbol \in Symbols
         /\ o.side \in {"buy", "sell"}
         /\ o.qty \in Nat /\ o.qty > 0 /\ o.ref \in Nat /\ o.ref > 0
         /\ o.authorizedAt \in Nat /\ o.earliest \in Nat /\ o.expires \in Nat
         /\ o.authorizedAt <= o.earliest /\ o.earliest <= o.expires
         /\ o.maxFee \in Nat /\ o.maxSlip \in Nat /\ o.reduceOnly \in BOOLEAN
         /\ o.side = "buy" => Direction(o) = 1
         /\ o.side = "sell" => Direction(o) = -1
         /\ o # None \/ ~(Ids \subseteq Nat)
<1>1. o.symbol = Instrument /\ o.symbol \in Symbols
  BY EngineAssumption DEF Order
<1>2. o.maxFee \in Nat /\ o.maxSlip \in Nat
  BY Rates DEF Order
<1>3. o # None \/ ~(Ids \subseteq Nat)
  BY NoneAssumption DEF Order
<1>4. /\ o.side = "buy" => Direction(o) = 1
      /\ o.side = "sell" => Direction(o) = -1
  BY DEF Direction
<1>5. QED  BY <1>1, <1>2, <1>3, <1>4 DEF Order

\* What a fill costs: at least nothing for a buyer, at most nothing for a seller.
LEMMA Costs ==
  ASSUME NEW Ids, NEW o \in Order(Ids), NEW p \in Nat
  PROVE  /\ FillPrice(o, p) \in Nat
         /\ CashChange(o, p) \in Int
         /\ o.side = "sell" => CashChange(o, p) >= 0
<1>1. o.side \in {"buy", "sell"} /\ o.qty \in Nat
  BY OrderFields
<1>2. Bps + Direction(o) * SlippageBps \in Nat
  BY <1>1, Rates DEF Direction
<1>3. FillPrice(o, p) \in Nat
  BY <1>2 DEF FillPrice
<1>4. o.qty * FillPrice(o, p) \in Nat
  BY <1>1, <1>3
<1>5. Bps + FeeBps \in Nat /\ Bps - FeeBps \in Nat
  BY Rates
<1>6. /\ o.qty * FillPrice(o, p) * (Bps + FeeBps) \in Nat
      /\ o.qty * FillPrice(o, p) * (Bps - FeeBps) \in Nat
  BY <1>4, <1>5
<1>7. QED  BY <1>1, <1>3, <1>6 DEF CashChange

LEMMA QuantityAfter ==
  ASSUME NEW Ids, NEW o \in Order(Ids), NEW acct \in AccountType
  PROVE  /\ acct.qty[Instrument] \in Int
         /\ NewQuantity(acct, o) \in Int
         /\ NewQuantity(acct, o) = acct.qty[Instrument] + Direction(o) * o.qty
         /\ o.side = "buy" => NewQuantity(acct, o) = acct.qty[Instrument] + o.qty
         /\ o.side = "sell" => NewQuantity(acct, o) = acct.qty[Instrument] - o.qty
<1>1. acct.qty[Instrument] \in Int
  BY EngineAssumption DEF AccountType
<1>2. NewQuantity(acct, o) = acct.qty[Instrument] + Direction(o) * o.qty
  BY OrderFields DEF NewQuantity
<1>3. o.side \in {"buy", "sell"} /\ o.qty \in Nat
      /\ (o.side = "buy" => Direction(o) = 1) /\ (o.side = "sell" => Direction(o) = -1)
  BY OrderFields
<1>4. QED  BY <1>1, <1>2, <1>3

LEMMA Filled ==
  ASSUME NEW Ids, NEW o \in Order(Ids), NEW acct \in AccountType, NEW p \in Prices, now \in Nat
  PROVE  /\ AfterFill(acct, o, OpeningAt(p)) \in AccountType
         /\ AfterFill(acct, o, OpeningAt(p)).valuedAt = now
         /\ AfterFill(acct, o, OpeningAt(p)).cash = acct.cash + CashChange(o, p)
         /\ AfterFill(acct, o, OpeningAt(p)).qty[Instrument] = NewQuantity(acct, o)
         /\ NewQuantity(acct, o) # 0 => AfterFill(acct, o, OpeningAt(p)).mark[Instrument] = p
<1>1. p \in Nat /\ CashChange(o, p) \in Int /\ NewQuantity(acct, o) \in Int
      /\ o.symbol = Instrument /\ Instrument \in Symbols
  BY EngineAssumption, Costs, QuantityAfter, OrderFields
<1>2. QED  BY <1>1 DEF AfterFill, AccountType, OpeningAt

\* The marks that MarkAccount hands to the adapter.
MarksOf(acct, m) == [s \in Held(acct) |-> [price |-> m.price, at |-> m.availableAt]]

LEMMA Marked ==
  ASSUME NEW acct \in AccountType, NEW m \in MarkType, NEW t \in Nat
  PROVE  /\ AfterMark(acct, MarksOf(acct, m), t) \in AccountType
         /\ AfterMark(acct, MarksOf(acct, m), t).valuedAt = t
         /\ AfterMark(acct, MarksOf(acct, m), t).cash = acct.cash
         /\ AfterMark(acct, MarksOf(acct, m), t).qty = acct.qty
         /\ acct.qty[Instrument] # 0
              => AfterMark(acct, MarksOf(acct, m), t).mark[Instrument] = m.price
<1>1. m.price \in Nat /\ m.availableAt \in Nat /\ Instrument \in Symbols
  BY EngineAssumption DEF MarkType
<1>2. QED  BY <1>1 DEF AfterMark, AccountType, Held, MarksOf

-----------------------------------------------------------------------------
(* What the governor authorizes.                                           *)

SnapshotType == [price: Prices, closedAt: Nat, availableAt: Nat]

\* The order that evaluate sizes for the decision d, now.
Offer(d) == ProposedOrder(d, snap, account, Instrument, now)

LEMMA PositivePrices == \A p \in Prices : p \in Nat /\ p > 0
<1>1. Prices \subseteq Nat \ {0}
  BY EngineAssumption
<1>2. QED  BY <1>1

LEMMA MagnitudeOf ==
  ASSUME NEW n \in Int
  PROVE  Magnitude(n) \in Nat /\ (n >= 0 => Magnitude(n) = n) /\ (n < 0 => Magnitude(n) = -n)
BY DEF Magnitude

LEMMA Values ==
  ASSUME NEW acct \in AccountType
  PROVE  /\ Notional(acct, Instrument) \in Int
         /\ Notional(acct, Instrument) = acct.qty[Instrument] * (acct.mark[Instrument] * Unit)
         /\ Equity(acct) \in Int
         /\ Equity(acct) = acct.cash + Notional(acct, Instrument)
<1>1. /\ acct.qty[Instrument] \in Int /\ acct.mark[Instrument] \in Nat /\ acct.cash \in Int
      /\ Bps \in Nat
  BY EngineAssumption, Rates DEF AccountType
<1>2. Notional(acct, Instrument) = acct.qty[Instrument] * (acct.mark[Instrument] * Unit)
  BY <1>1 DEF Notional, Unit
<1>3. Unit \in Nat /\ acct.mark[Instrument] * Unit \in Nat
  BY <1>1, Rates
<1>4. Notional(acct, Instrument) \in Int
  BY <1>1, <1>2, <1>3
<1>5. QED  BY <1>1, <1>2, <1>4, SumOverOne

LEMMA DecisionFields ==
  ASSUME delay \in Delays, now \in EventTimes, NEW d \in Decisions
  PROVE  /\ now \in Nat /\ d.target \in Int /\ d.expires \in Nat /\ now <= d.expires
         /\ d.decidedAt = now
         /\ d.action \in {"target_exposure", "reduce_only", "none"}
<1>1. now \in Nat
  BY Events
<1>2. Exposures \subseteq Int /\ Horizons \subseteq Nat
  BY EngineAssumption, PolicyAssumption
<1>3. CASE d \in [action: {"target_exposure", "reduce_only"}, target: Exposures, decidedAt: {now},
                  expires: {now + h : h \in Horizons}, sound: BOOLEAN, restricted: BOOLEAN]
  <2>1. PICK h \in Horizons : d.expires = now + h
    BY <1>3
  <2>2. h \in Nat
    BY <1>2
  <2>3. d.target \in Int /\ d.decidedAt = now /\ d.action \in {"target_exposure", "reduce_only", "none"}
    BY <1>2, <1>3
  <2>4. QED  BY <1>1, <2>1, <2>2, <2>3
<1>4. CASE d \in [action: {"none"}, target: {0}, decidedAt: {now}, expires: {now}, sound: {TRUE},
                  restricted: {FALSE}]
  BY <1>1, <1>4
<1>5. QED  BY <1>3, <1>4 DEF Decisions

LEMMA Sized ==
  ASSUME delay \in Delays, now \in EventTimes, account \in AccountType, snap \in SnapshotType,
         NEW d \in Decisions
  PROVE  /\ TargetNotional(d, account) \in Int
         /\ DeltaNotional(d, account, Instrument) \in Int
         /\ Quantity(d, snap, account, Instrument) \in Nat
         /\ snap.price * Unit \in Nat /\ snap.price * Unit > 0
         /\ ~Flattening(d, account, Instrument)
              => /\ Quantity(d, snap, account, Instrument) * (snap.price * Unit) <= MaxOrderNotional
                 /\ Quantity(d, snap, account, Instrument) * (snap.price * Unit)
                      <= Magnitude(DeltaNotional(d, account, Instrument))
<1>1. d.target \in Int /\ Equity(account) \in Int /\ MaxPosition \in Nat /\ Frac \in Nat /\ Frac > 0
      /\ MaxOrderNotional \in Nat /\ account.qty[Instrument] \in Int
  <2>1. d.target \in Int
    BY DecisionFields
  <2>2. Equity(account) \in Int
    BY Values
  <2>3. MaxPosition \in Nat /\ Frac \in Nat /\ Frac > 0 /\ MaxOrderNotional \in Nat
    BY PolicyAssumption
  <2>4. account.qty[Instrument] \in Int
    BY EngineAssumption DEF AccountType
  <2>5. QED  BY <2>1, <2>2, <2>3, <2>4
<1>2. TargetNotional(d, account) \in Int
  <2>1. d.target * Equity(account) * MaxPosition \in Int /\ Frac * Frac \in Nat /\ Frac * Frac > 0
    BY <1>1
  <2>2. QED  BY <2>1 DEF TargetNotional
<1>3. DeltaNotional(d, account, Instrument) \in Int
  BY <1>2, Values DEF DeltaNotional
<1>4. snap.price * Unit \in Nat /\ snap.price * Unit > 0
  <2>1. snap.price \in Nat /\ snap.price > 0 /\ Unit \in Nat /\ Unit > 0
    <3>1. snap.price \in Prices
      BY DEF SnapshotType
    <3>2. QED  BY <3>1, PositivePrices, Rates
  <2>2. QED  BY <2>1
<1> DEFINE worth == snap.price * Unit
           change == Magnitude(DeltaNotional(d, account, Instrument))
           most == Min({change, MaxOrderNotional})
<1>5. change \in Nat
  BY <1>3, MagnitudeOf
<1>6. most \in Nat /\ most <= change /\ most <= MaxOrderNotional
  <2>1. \A b \in Int : \A a \in Int : /\ Min({a, b}) \in {a, b}
                                    /\ Min({a, b}) <= a /\ Min({a, b}) <= b
    BY LeastOfTwo
  <2> HIDE DEF change
  <2>2. change \in Int /\ MaxOrderNotional \in Int
    BY <1>1, <1>5
  <2>3. most \in {change, MaxOrderNotional} /\ most <= change /\ most <= MaxOrderNotional
    BY <2>1, <2>2
  <2>4. QED  BY <1>1, <1>5, <2>3
<1>7. Quantity(d, snap, account, Instrument)
        = IF Flattening(d, account, Instrument) THEN Magnitude(account.qty[Instrument])
          ELSE most \div worth
  BY DEF Quantity
<1> HIDE DEF worth, change, most
<1>8. most \div worth \in Nat /\ (most \div worth) * worth <= most
  BY <1>4, <1>6 DEF worth
<1>9. Magnitude(account.qty[Instrument]) \in Nat
  BY <1>1, MagnitudeOf
<1>10. QED  BY <1>1, <1>2, <1>3, <1>4, <1>5, <1>6, <1>7, <1>8, <1>9 DEF worth, change

LEMMA OfferFields ==
  ASSUME NEW d
  PROVE  /\ Offer(d).id = now /\ Offer(d).symbol = Instrument
         /\ Offer(d).side = Side(d, account, Instrument)
         /\ Offer(d).side = IF DeltaNotional(d, account, Instrument) > 0 THEN "buy" ELSE "sell"
         /\ Offer(d).qty = Quantity(d, snap, account, Instrument)
         /\ Offer(d).ref = snap.price
         /\ Offer(d).authorizedAt = now /\ Offer(d).earliest = now
         /\ Offer(d).maxFee = FeeBps /\ Offer(d).maxSlip = SlippageBps
         /\ Offer(d).expires = Min({d.expires, now + OrderValidity})
         /\ Offer(d).reduceOnly \in BOOLEAN
BY DEF Offer, ProposedOrder, Side, StrictlyReduces

LEMMA OfferIsOrder ==
  ASSUME delay \in Delays, now \in EventTimes, account \in AccountType, snap \in SnapshotType,
         NEW d \in Decisions, Quantity(d, snap, account, Instrument) > 0
  PROVE  /\ Offer(d) \in Order(0 .. End)
         /\ Offer(d).reduceOnly
              = StrictlyReduces(account.qty[Instrument], NewQuantity(account, Offer(d)))
<1>1. /\ now \in 0 .. End /\ Instrument \in Symbols
      /\ Side(d, account, Instrument) \in {"buy", "sell"}
      /\ snap.price \in Nat \ {0}
      /\ FeeBps \in 0 .. Bps /\ SlippageBps \in 0 .. Bps
  <2>1. now \in 0 .. End
    BY Events
  <2>2. snap.price \in Prices
    BY DEF SnapshotType
  <2>3. QED  BY <2>1, <2>2, EngineAssumption, CostAssumption DEF Side
<1>2. Quantity(d, snap, account, Instrument) \in Nat \ {0}
  BY Sized
<1>3. Min({d.expires, now + OrderValidity}) \in Nat /\ now <= Min({d.expires, now + OrderValidity})
  <2>1. d.expires \in Nat /\ now <= d.expires /\ now \in Nat /\ OrderValidity \in Nat
    BY DecisionFields, PolicyAssumption
  <2>2. now + OrderValidity \in Int /\ d.expires \in Int
    BY <2>1
  <2>3. Min({d.expires, now + OrderValidity}) \in {d.expires, now + OrderValidity}
    BY <2>2, LeastOfTwo
  <2>4. QED  BY <2>1, <2>3
<1>4. Offer(d).reduceOnly \in BOOLEAN
  BY OfferFields
<1>5. Offer(d) = [id |-> Offer(d).id, symbol |-> Offer(d).symbol, side |-> Offer(d).side,
                  qty |-> Offer(d).qty, ref |-> Offer(d).ref,
                  authorizedAt |-> Offer(d).authorizedAt, earliest |-> Offer(d).earliest,
                  expires |-> Offer(d).expires, maxFee |-> Offer(d).maxFee,
                  maxSlip |-> Offer(d).maxSlip, reduceOnly |-> Offer(d).reduceOnly]
  BY DEF Offer, ProposedOrder
<1>6. /\ Offer(d).id \in 0 .. End /\ Offer(d).symbol \in Symbols
      /\ Offer(d).side \in {"buy", "sell"} /\ Offer(d).qty \in Nat \ {0}
      /\ Offer(d).ref \in Nat \ {0}
      /\ Offer(d).authorizedAt \in Nat /\ Offer(d).earliest \in Nat /\ Offer(d).expires \in Nat
      /\ Offer(d).maxFee \in 0 .. Bps /\ Offer(d).maxSlip \in 0 .. Bps
      /\ Offer(d).authorizedAt <= Offer(d).earliest /\ Offer(d).earliest <= Offer(d).expires
  BY <1>1, <1>2, <1>3, OfferFields
<1>7. Offer(d) \in Order(0 .. End)
  <2> DEFINE o == Offer(d)
  <2> HIDE DEF o
  <2>1. o \in [id: 0 .. End, symbol: Symbols, side: {"buy", "sell"}, qty: Nat \ {0},
               ref: Nat \ {0}, authorizedAt: Nat, earliest: Nat, expires: Nat,
               maxFee: 0 .. Bps, maxSlip: 0 .. Bps, reduceOnly: BOOLEAN]
    BY <1>4, <1>5, <1>6 DEF o
  <2>2. o \in Order(0 .. End)
    BY <1>6, <2>1 DEF Order, o
  <2>3. QED  BY <2>2 DEF o
<1>8. Offer(d).reduceOnly
        = StrictlyReduces(account.qty[Instrument],
                          account.qty[Instrument] + (IF Offer(d).side = "buy" THEN Offer(d).qty
                                                     ELSE -Offer(d).qty))
  BY DEF Offer, ProposedOrder
<1>9. account.qty[Instrument] + (IF Offer(d).side = "buy" THEN Offer(d).qty ELSE -Offer(d).qty)
        = NewQuantity(account, Offer(d))
  <2>1. /\ NewQuantity(account, Offer(d)) = account.qty[Instrument] + Direction(Offer(d)) * Offer(d).qty
        /\ account.qty[Instrument] \in Int
    BY <1>7, QuantityAfter
  <2>2. Offer(d).qty \in Nat /\ (Offer(d).side = "buy" => Direction(Offer(d)) = 1)
        /\ (Offer(d).side = "sell" => Direction(Offer(d)) = -1) /\ Offer(d).side \in {"buy", "sell"}
    BY <1>7, OrderFields
  <2>3. QED  BY <2>1, <2>2
<1>10. QED  BY <1>7, <1>8, <1>9

-----------------------------------------------------------------------------
(* The invariant of a run.                                                 *)

NoOpeningWithin(t, u) == \A b \in Bars : ~(t < OpensAt(b) /\ OpensAt(b) < u)

\* The opening that is looked at is that of this instant.
OpeningInv ==
  phase \in {"marking", "deciding"} =>
    IF IsOpening(now) THEN opening \in Prices ELSE opening = None

\* What the account and the snapshot rest on is past.
PastInv ==
  /\ account.valuedAt <= now
  /\ snap # None => snap.availableAt <= now

\* The mark is the latest opening before this instant, and by the time of the
\* decision the latest one there is.
MarkInv ==
  /\ mark # None => /\ mark.availableAt = mark.marketTime
                    /\ \E b \in Bars : mark.marketTime = OpensAt(b)
  /\ phase \in {"opening", "marking"} =>
       /\ mark = None => now = 0
       /\ mark # None => mark.marketTime < now /\ NoOpeningWithin(mark.marketTime, now)
  /\ phase = "deciding" =>
       /\ mark # None
       /\ mark.marketTime <= now
       /\ \A b \in Bars : OpensAt(b) <= now => OpensAt(b) <= mark.marketTime
       /\ account.valuedAt = now

\* The run has neither returned nor raised.
Running == phase \in {"opening", "marking", "deciding"}

\* No opening has passed the queued order by, and its reduction is still one.
QueueInv ==
  pending # None =>
    /\ pending.id = pending.authorizedAt /\ pending.earliest = pending.authorizedAt
    /\ Running => pending.authorizedAt < now /\ NoOpeningWithin(pending.authorizedAt, now)
    /\ phase \in {"marking", "deciding"} => ~IsOpening(now)
    /\ pending.reduceOnly => StrictlyReduces(account.qty[Instrument], NewQuantity(account, pending))

EngineInv ==
  /\ TypeOK
  /\ OpeningInv
  /\ PastInv
  /\ MarkInv
  /\ QueueInv
  /\ AssertionsHold

\* With shorting disabled: only reductions sell, and the account covers what it owes.
LongOnlyInv ==
  /\ account.qty[Instrument] >= 0
  /\ account.cash >= 0
  /\ pending # None /\ pending.side = "sell" => pending.reduceOnly

\* What evaluate found at the order's reference price, for a position of q lots.
Affordable(o, cash, q) ==
  LET left  == cash + CashChange(o, o.ref)
      worth == (q + o.qty) * (o.ref * Unit)
  IN /\ o.maxSlip = SlippageBps
     /\ left * Frac >= (left + worth) * CashReserve
     /\ worth * Frac <= (left + worth) * MaxGross
     /\ worth * Frac <= (left + worth) * MaxPosition
     /\ o.qty * (o.ref * Unit) <= MaxOrderNotional

\* A queued purchase that was sized at the price it was authorized at is within
\* the limits at that price.
AffordableInv ==
  pending # None /\ pending.side = "buy" /\ sizedAt = pending.ref /\ phase # "raised: reconciliation"
    => Affordable(pending, account.cash, account.qty[Instrument])

\* When the account was marked, its position is valued at the mark.
ValuedInv ==
  phase = "deciding" /\ account.qty[Instrument] # 0 => account.mark[Instrument] = mark.price

SolvencyInv == ~AllowShorting => LongOnlyInv /\ AffordableInv

\* The queued order is the newest approval; what has an outcome met an opening before any
\* newer approval, and what has none waits or has been replaced.
NewestInv ==
  /\ \A u \in 0 .. End : lifecycle[u] # "none" =>
       /\ Running => u < now
       /\ pending # None => u <= pending.id
  /\ pending # None /\ Running => lifecycle[pending.id] = "queued"
  /\ \A t \in 0 .. End :
       /\ lifecycle[t] \in {"filled", "rejected"} =>
            \E b \in Bars : /\ t < OpensAt(b) /\ OpensAt(b) <= now
                            /\ \A u \in 0 .. End : lifecycle[u] # "none" /\ t < u => OpensAt(b) <= u
       /\ lifecycle[t] = "queued" => Replaced(t) \/ (pending # None /\ pending.id = t)

\* Where every bar is available as it ends, the queue is empty when a decision is made.
SettleInv ==
  MaxDelay = 0 =>
    \A t \in 0 .. End : lifecycle[t] = "queued" => pending # None /\ pending.id = t
                                                  /\ phase # "completed"

LEMMA EventsStay == ASSUME delay' = delay PROVE EventTimes' = EventTimes
BY DEF EventTimes, AvailableAt

LEMMA InvInit == Init => EngineInv
<1> SUFFICES ASSUME Init PROVE EngineInv
  OBVIOUS
<1>1. now \in EventTimes /\ End \in Nat
  BY Events DEF Init
<1>2. account \in AccountType /\ account.valuedAt = 0
  BY EngineAssumption DEF Init, OpenAccount, AccountType
<1>3. 0 \in 0 .. Cadence - 1
  BY EngineAssumption
<1>4. TypeOK
  BY <1>1, <1>2, <1>3 DEF Init, TypeOK
<1>5. QED
  BY <1>2, <1>4 DEF Init, EngineInv, OpeningInv, PastInv, MarkInv, QueueInv, AssertionsHold

LEMMA CancelKeeps == EngineInv /\ Cancel => EngineInv'
<1> SUFFICES ASSUME EngineInv, Cancel PROVE EngineInv'
  OBVIOUS
<1>1. TypeOK'
  BY EventsStay DEF EngineInv, Cancel, TypeOK
<1>2. QED
  BY <1>1 DEF EngineInv, Cancel, OpeningInv, PastInv, MarkInv, QueueInv, AssertionsHold, Running,
              NewQuantity

LEMMA PassKeeps == EngineInv /\ PassOpening => EngineInv'
<1> SUFFICES ASSUME EngineInv, PassOpening PROVE EngineInv'
  OBVIOUS
<1>1. ~MeetsOpening
  BY DEF EngineInv, QueueInv, PassOpening, MeetsOpening, Running
<1>2. phase' = "marking" /\ phase = "opening"
  BY <1>1 DEF PassOpening
<1>3. IF IsOpening(now) THEN opening' \in Prices ELSE opening' = None
  BY DEF PassOpening
<1>4. TypeOK'
  BY <1>2, <1>3, EventsStay DEF EngineInv, PassOpening, TypeOK
<1>5. OpeningInv' /\ PastInv' /\ AssertionsHold'
  BY <1>2, <1>3 DEF EngineInv, PassOpening, OpeningInv, PastInv, AssertionsHold
<1>6. MarkInv'
  BY <1>2 DEF EngineInv, PassOpening, MarkInv
<1>7. QueueInv'
  BY <1>1, <1>2 DEF EngineInv, PassOpening, QueueInv, MeetsOpening, Running, NewQuantity
<1>8. QED  BY <1>4, <1>5, <1>6, <1>7 DEF EngineInv

LEMMA RejectKeeps ==
  ASSUME EngineInv, NEW p \in Prices, RejectQueued(p)
  PROVE  EngineInv'
<1>1. phase' = "marking" /\ phase = "opening" /\ pending' = None /\ pending # None
      /\ IsOpening(now) /\ opening' \in Prices
  BY DEF RejectQueued, MeetsOpening
<1>2. pending.id \in 0 .. End
  BY <1>1, OrderFields DEF EngineInv, TypeOK
<1>3. lifecycle' \in [0 .. End -> {"none", "queued", "filled", "rejected"}]
  BY <1>2 DEF EngineInv, TypeOK, RejectQueued
<1>4. TypeOK'
  BY <1>1, <1>3, EventsStay DEF EngineInv, RejectQueued, TypeOK
<1>5. OpeningInv' /\ PastInv' /\ AssertionsHold'
  BY <1>1 DEF EngineInv, RejectQueued, OpeningInv, PastInv, AssertionsHold
<1>6. MarkInv'
  BY <1>1 DEF EngineInv, RejectQueued, MarkInv
<1>7. QueueInv'
  BY <1>1 DEF QueueInv
<1>8. QED  BY <1>4, <1>5, <1>6, <1>7 DEF EngineInv

\* A reduction that is filled is compliant.
LEMMA ReductionsReconcile ==
  ASSUME EngineInv, NEW p \in Prices, FillQueued(p), pending.reduceOnly
  PROVE  phase' = "marking" /\ pending' = None
<1> DEFINE o == pending
           at == OpeningAt(p)
<1>1. pending # None /\ o \in Order(0 .. End) /\ now \in Nat /\ now > o.authorizedAt
      /\ account \in AccountType
  <2>1. pending # None /\ now > o.authorizedAt
    BY DEF FillQueued, MeetsOpening
  <2>2. delay \in Delays /\ now \in EventTimes /\ account \in AccountType /\ o \in Order(0 .. End)
    BY <2>1 DEF EngineInv, TypeOK
  <2>3. QED  BY <2>1, <2>2, Events
<1>2. /\ ~SlippageExceeds(o, p) /\ ~(FeeBps > o.maxFee)
      /\ ~(at.openedAt < o.earliest) /\ ~(at.openedAt > o.expires)
      /\ StrictlyReduces(account.qty[o.symbol], NewQuantity(account, o))
  BY DEF FillQueued, Rejected, CausallyRejected, EconomicallyRejected, OpeningAt
<1>3. at = [symbol |-> Instrument, price |-> p, openedAt |-> now, observedAt |-> now]
  BY DEF OpeningAt
<1>4. /\ account'.valuedAt = now /\ account'.cash = account.cash + CashChange(o, p)
      /\ account'.qty[Instrument] = NewQuantity(account, o)
  BY <1>1, Filled DEF FillQueued
<1>5. o.symbol = Instrument /\ o.authorizedAt \in Nat /\ o.earliest \in Nat /\ o.expires \in Nat /\ o.maxFee \in Nat
  BY <1>1, OrderFields
<1>6. Compliant(o, at, o.authorizedAt, account, account')
  BY <1>1, <1>2, <1>3, <1>4, <1>5, Rates DEF Compliant, NewQuantity
<1>7. QED  BY <1>6 DEF FillQueued

LEMMA FillKeeps ==
  ASSUME EngineInv, NEW p \in Prices, FillQueued(p)
  PROVE  EngineInv'
<1>1. pending # None /\ pending \in Order(0 .. End) /\ account \in AccountType /\ now \in Nat
      /\ phase = "opening" /\ IsOpening(now) /\ opening' \in Prices
  <2>1. pending # None /\ phase = "opening" /\ IsOpening(now) /\ opening' \in Prices
    BY DEF FillQueued, MeetsOpening
  <2>2. delay \in Delays /\ now \in EventTimes /\ account \in AccountType
        /\ pending \in Order(0 .. End)
    BY <2>1 DEF EngineInv, TypeOK
  <2>3. QED  BY <2>1, <2>2, Events
<1>2. phase' \in {"marking", "raised: reconciliation"}
      /\ (phase' = "marking" => pending' = None) /\ (pending' = None \/ pending' = pending)
  BY DEF FillQueued
<1>3. pending.id \in 0 .. End
  BY <1>1, OrderFields
<1>4. account' \in AccountType /\ account'.valuedAt = now
  BY <1>1, Filled DEF FillQueued
<1>5. TypeOK'
  BY <1>1, <1>2, <1>3, <1>4, EventsStay DEF EngineInv, FillQueued, TypeOK
<1>6. OpeningInv' /\ PastInv' /\ AssertionsHold'
  <2>1. now' = now /\ snap' = snap
    BY DEF FillQueued
  <2>2. OpeningInv'
    BY <1>1, <1>2, <2>1 DEF OpeningInv
  <2>3. PastInv'
    BY <1>1, <1>4, <2>1 DEF EngineInv, PastInv
  <2>4. AssertionsHold'
    BY <1>2 DEF AssertionsHold
  <2>5. QED  BY <2>2, <2>3, <2>4
<1>7. MarkInv'
  BY <1>1, <1>2 DEF EngineInv, FillQueued, MarkInv
<1>8. QueueInv'
  BY <1>1, <1>2, ReductionsReconcile DEF EngineInv, FillQueued, QueueInv, Running
<1>9. QED  BY <1>5, <1>6, <1>7, <1>8 DEF EngineInv

\* Where no bar opens now, the mark is the latest opening there is, and no close
\* is newer.
LEMMA ClosesAreOld ==
  ASSUME EngineInv, phase = "marking", NEW b \in Bars, AvailableAt(b) <= now
  PROVE  /\ ClosesAt(b) <= now
         /\ ~IsOpening(now) => mark # None /\ ClosesAt(b) <= mark.marketTime
<1>1. delay \in Delays /\ now \in EventTimes /\ (mark # None => mark \in MarkType)
  BY DEF EngineInv, TypeOK
<1>2. /\ ClosesAt(b) \in Nat /\ AvailableAt(b) \in Nat /\ ClosesAt(b) <= AvailableAt(b)
      /\ (b + 1 \in Bars /\ ClosesAt(b) = OpensAt(b + 1)) \/ ClosesAt(b) > End
      /\ now \in 0 .. End /\ End \in Nat
  BY <1>1, BarTimes, Events
<1>3. ClosesAt(b) <= now
  BY <1>2
<1>4. b + 1 \in Bars /\ ClosesAt(b) = OpensAt(b + 1)
  BY <1>2, <1>3
<1>5. ASSUME ~IsOpening(now)
      PROVE  mark # None /\ ClosesAt(b) <= mark.marketTime
  <2>1. mark # None
    BY <1>1, <1>5, Events DEF EngineInv, MarkInv
  <2>2. NoOpeningWithin(mark.marketTime, now) /\ mark.marketTime \in Nat
    BY <1>1, <2>1 DEF EngineInv, MarkInv, MarkType
  <2>3. ClosesAt(b) # now
    BY <1>4, <1>5 DEF IsOpening
  <2>4. ~(mark.marketTime < ClosesAt(b) /\ ClosesAt(b) < now)
    BY <1>4, <2>2 DEF NoOpeningWithin
  <2>5. QED  BY <1>2, <1>3, <2>1, <2>2, <2>3, <2>4
<1>6. QED  BY <1>3, <1>5

\* The snapshot that is taken: its last bar is one that is available.
LEMMA SnapshotTaken ==
  ASSUME EngineInv, TakeSnapshot
  PROVE  snap' # None => /\ snap' \in SnapshotType
                         /\ snap'.availableAt <= now
                         /\ \E b \in Bars : AvailableAt(b) <= now /\ snap'.closedAt = ClosesAt(b)
<1>1. delay \in Delays /\ now \in EventTimes /\ (snap # None => snap \in SnapshotType)
  BY DEF EngineInv, TypeOK, SnapshotType
<1>2. CASE Visible = {}
  BY <1>2 DEF TakeSnapshot
<1>3. CASE Visible # {}
  <2> DEFINE b == Max(Visible)
  <2>1. b \in Bars /\ AvailableAt(b) <= now
    BY <1>1, <1>3, NewestVisible
  <2>2. ClosesAt(b) \in Nat /\ AvailableAt(b) \in Nat
    BY <1>1, <2>1, BarTimes
  <2>3. \/ snap # None /\ snap.closedAt = ClosesAt(b) /\ snap' = snap
        \/ \E p \in Prices : snap' = [price |-> p, closedAt |-> ClosesAt(b), availableAt |-> AvailableAt(b)]
    BY <1>3 DEF TakeSnapshot
  <2> HIDE DEF b
  <2>4. CASE snap # None /\ snap.closedAt = ClosesAt(b) /\ snap' = snap
    BY <1>1, <2>1, <2>4 DEF EngineInv, PastInv
  <2>5. CASE \E p \in Prices : snap' = [price |-> p, closedAt |-> ClosesAt(b), availableAt |-> AvailableAt(b)]
    BY <2>1, <2>2, <2>5 DEF SnapshotType
  <2>6. QED  BY <2>3, <2>4, <2>5
<1>4. QED  BY <1>2, <1>3

\* The mark that is selected is the opening of this instant, or stays.
LEMMA MarkSelected ==
  ASSUME EngineInv, phase = "marking", TakeSnapshot, mark' = SelectMark(snap')
  PROVE  IF IsOpening(now)
         THEN mark' = [price |-> opening, marketTime |-> now, availableAt |-> now] /\ opening \in Prices
         ELSE mark' = mark /\ mark # None
<1> DEFINE s == snap'
           close == [price |-> s.price, marketTime |-> s.closedAt, availableAt |-> s.availableAt]
           first == IF s # None /\ (mark = None \/ close.marketTime > mark.marketTime)
                    THEN close ELSE mark
           open == [price |-> opening, marketTime |-> now, availableAt |-> now]
<1>1. mark' = IF opening # None /\ (first = None \/ open.marketTime >= first.marketTime)
              THEN open ELSE first
  BY DEF SelectMark
<1>2. close.marketTime = s.closedAt /\ open.marketTime = now
  OBVIOUS
<1>3. s # None => \E b \in Bars : AvailableAt(b) <= now /\ s.closedAt = ClosesAt(b)
  BY SnapshotTaken
<1>4. delay \in Delays /\ now \in EventTimes /\ (mark # None => mark \in MarkType)
  BY DEF EngineInv, TypeOK
<1>5. now \in Nat /\ (mark # None => mark.marketTime \in Nat)
  BY <1>4, Events DEF MarkType
<1>6. CASE IsOpening(now)
  <2>1. opening \in Prices /\ opening # None
    BY <1>6, NoneAssumption DEF EngineInv, OpeningInv
  <2>2. ASSUME first # None PROVE now >= first.marketTime
    <3>1. CASE s # None /\ (mark = None \/ close.marketTime > mark.marketTime)
      <4>1. PICK b \in Bars : AvailableAt(b) <= now /\ s.closedAt = ClosesAt(b)
        BY <1>3, <3>1
      <4>2. ClosesAt(b) <= now /\ ClosesAt(b) \in Nat
        BY <1>4, <4>1, ClosesAreOld, BarTimes
      <4>3. first = close
        BY <3>1
      <4>4. QED  BY <1>2, <1>5, <4>1, <4>2, <4>3
    <3>2. CASE ~(s # None /\ (mark = None \/ close.marketTime > mark.marketTime))
      <4>1. first = mark /\ mark # None
        BY <2>2, <3>2
      <4>2. mark.marketTime < now
        BY <4>1 DEF EngineInv, MarkInv
      <4>3. QED  BY <1>5, <4>1, <4>2
    <3>3. QED  BY <3>1, <3>2
  <2>3. mark' = open
    BY <1>1, <1>2, <2>1, <2>2
  <2>4. QED  BY <1>6, <2>1, <2>3
<1>7. CASE ~IsOpening(now)
  <2>1. opening = None
    BY <1>7 DEF EngineInv, OpeningInv
  <2>2. mark # None
    BY <1>4, <1>7, Events DEF EngineInv, MarkInv
  <2>3. ~(s # None /\ (mark = None \/ close.marketTime > mark.marketTime))
    <3> SUFFICES ASSUME s # None PROVE ~(s.closedAt > mark.marketTime)
      BY <1>2, <2>2
    <3>1. PICK b \in Bars : AvailableAt(b) <= now /\ s.closedAt = ClosesAt(b)
      BY <1>3
    <3>2. ClosesAt(b) <= mark.marketTime /\ ClosesAt(b) \in Nat
      BY <1>4, <1>7, <3>1, ClosesAreOld, BarTimes
    <3>3. QED  BY <1>5, <2>2, <3>1, <3>2
  <2>4. mark' = mark
    BY <1>1, <2>1, <2>3
  <2>5. QED  BY <1>7, <2>2, <2>4
<1>8. QED  BY <1>6, <1>7

\* Marking never raises: there is a mark, it is the latest opening, and it is past.
LEMMA MarkingSucceeds ==
  ASSUME EngineInv, MarkAccount
  PROVE  /\ mark' \in MarkType /\ mark' # None
         /\ mark'.availableAt = mark'.marketTime /\ mark'.marketTime <= now
         /\ \E b \in Bars : mark'.marketTime = OpensAt(b)
         /\ \A b \in Bars : OpensAt(b) <= now => OpensAt(b) <= mark'.marketTime
         /\ phase' = "deciding"
         /\ account' = AfterMark(account, MarksOf(account, mark'), now)
<1>1. delay \in Delays /\ now \in EventTimes /\ account \in AccountType
      /\ (mark # None => mark \in MarkType) /\ phase = "marking"
  BY DEF EngineInv, TypeOK, MarkAccount
<1>2. now \in 0 .. End /\ End \in Nat
  BY <1>1, Events
<1>3. IF IsOpening(now)
      THEN mark' = [price |-> opening, marketTime |-> now, availableAt |-> now] /\ opening \in Prices
      ELSE mark' = mark /\ mark # None
  BY <1>1, MarkSelected DEF MarkAccount
<1>4. /\ mark' \in MarkType
      /\ mark'.availableAt = mark'.marketTime /\ mark'.marketTime <= now
      /\ \E b \in Bars : mark'.marketTime = OpensAt(b)
      /\ \A b \in Bars : OpensAt(b) <= now => OpensAt(b) <= mark'.marketTime
  <2>1. CASE IsOpening(now)
    BY <1>2, <1>3, <2>1 DEF MarkType, IsOpening
  <2>2. CASE ~IsOpening(now)
    <3>1. mark' = mark /\ mark # None /\ mark.marketTime \in Nat
      BY <1>1, <1>3, <2>2 DEF MarkType
    <3>2. mark.marketTime < now /\ NoOpeningWithin(mark.marketTime, now)
          /\ mark.availableAt = mark.marketTime
          /\ \E b \in Bars : mark.marketTime = OpensAt(b)
      BY <1>1, <3>1 DEF EngineInv, MarkInv
    <3>3. ASSUME NEW b \in Bars, OpensAt(b) <= now PROVE OpensAt(b) <= mark.marketTime
      <4>1. OpensAt(b) # now /\ OpensAt(b) \in Nat
        BY <1>1, <2>2, BarTimes DEF IsOpening
      <4>2. ~(mark.marketTime < OpensAt(b) /\ OpensAt(b) < now)
        BY <3>2 DEF NoOpeningWithin
      <4>3. QED  BY <1>2, <3>1, <3>3, <4>1, <4>2
    <3>4. QED  BY <1>1, <1>2, <3>1, <3>2, <3>3
  <2>3. QED  BY <2>1, <2>2
<1>5. mark' # None
  BY <1>4, NoneAssumption
<1> DEFINE marks == [s \in Held(account) |-> [price |-> mark'.price, at |-> mark'.availableAt]]
<1>6. marks = MarksOf(account, mark')
  BY DEF MarksOf
<1>7. MarkAccepted(account, marks, now)
  <2>1. account.valuedAt <= now /\ account.valuedAt \in Nat
    BY <1>1 DEF EngineInv, PastInv, AccountType
  <2>2. QED  BY <1>2, <1>4, <2>1 DEF MarkAccepted
<1>8. phase' = "deciding" /\ account' = AfterMark(account, marks, now)
  BY <1>5, <1>7 DEF MarkAccount
<1>9. QED  BY <1>4, <1>5, <1>6, <1>8

LEMMA MarkKeeps ==
  ASSUME EngineInv, MarkAccount
  PROVE  EngineInv'
<1>1. /\ delay' = delay /\ now' = now /\ opening' = opening /\ pending' = pending /\ phase = "marking"
      /\ UNCHANGED <<processed, index, lifecycle, sizedAt>>
      /\ TakeSnapshot
  BY DEF MarkAccount
<1>2. delay \in Delays /\ now \in EventTimes /\ now \in Nat /\ account \in AccountType
  <2>1. delay \in Delays /\ now \in EventTimes /\ account \in AccountType
    BY DEF EngineInv, TypeOK
  <2>2. QED  BY <2>1, Events
<1>3. snap' # None => snap' \in SnapshotType /\ snap'.availableAt <= now
  BY <1>1, SnapshotTaken
<1>4. /\ account' \in AccountType /\ account'.valuedAt = now
      /\ account'.qty = account.qty
  BY <1>2, MarkingSucceeds, Marked
<1>5. TypeOK'
  BY <1>1, <1>3, <1>4, MarkingSucceeds, EventsStay DEF EngineInv, TypeOK, SnapshotType
<1>6. OpeningInv'
  BY <1>1, MarkingSucceeds DEF EngineInv, OpeningInv
<1>7. PastInv' /\ AssertionsHold'
  BY <1>1, <1>2, <1>3, <1>4, MarkingSucceeds DEF PastInv, AssertionsHold
<1>8. MarkInv'
  BY <1>1, <1>4, MarkingSucceeds DEF MarkInv
<1>9. QueueInv'
  BY <1>1, <1>4, MarkingSucceeds DEF EngineInv, QueueInv, Running, NewQuantity
<1>10. QED  BY <1>5, <1>6, <1>7, <1>8, <1>9 DEF EngineInv

\* The end of an event, for whatever queue it leaves.
LEMMA EventEnds ==
  ASSUME EngineInv, phase = "deciding", NEW queue, EndEvent(queue), delay' = delay,
         queue # None => queue = pending \/ now < End
  PROVE  /\ phase' \in {"opening", "completed"}
         /\ phase' = "completed" => queue = None /\ now' = now
         /\ now' \in EventTimes /\ now <= now'
         /\ phase' = "opening" => /\ now < now'
                                  /\ \A t \in Nat :
                                       /\ t <= now
                                       /\ \A b \in Bars : ~(t < OpensAt(b) /\ OpensAt(b) <= now)
                                       => NoOpeningWithin(t, now')
<1>1. delay \in Delays /\ now \in EventTimes
  BY DEF EngineInv, TypeOK
<1>2. now \in 0 .. End /\ End \in Nat /\ EventTimes \subseteq 0 .. End /\ IsOpening(End)
  BY <1>1, Events
<1>3. CASE Later # {}
  <2>1. now' \in EventTimes /\ now < now' /\ phase' = "opening"
        /\ \A b \in Bars : ~(now < OpensAt(b) /\ OpensAt(b) < now')
    BY <1>1, <1>3, NextEvent DEF EndEvent
  <2>2. ASSUME NEW t \in Nat, t <= now, \A b \in Bars : ~(t < OpensAt(b) /\ OpensAt(b) <= now)
        PROVE  NoOpeningWithin(t, now')
    <3> SUFFICES ASSUME NEW b \in Bars, t < OpensAt(b), OpensAt(b) < now' PROVE FALSE
      BY DEF NoOpeningWithin
    <3>1. OpensAt(b) \in Nat
      BY <1>1, BarTimes
    <3>2. ~(OpensAt(b) <= now) /\ ~(now < OpensAt(b))
      BY <2>1, <2>2
    <3>3. QED  BY <1>2, <3>1, <3>2
  <2>3. QED  BY <1>2, <2>1, <2>2
<1>4. CASE Later = {}
  <2>1. now = End /\ now' = now
    BY <1>1, <1>4, NextEvent DEF EndEvent
  <2>2. queue = None
    BY <1>2, <2>1 DEF EngineInv, QueueInv
  <2>3. QED  BY <1>1, <1>2, <1>4, <2>1, <2>2 DEF EndEvent
<1>5. QED  BY <1>3, <1>4

\* What a decision leaves standing, apart from the queue.
LEMMA DecisionKeeps ==
  ASSUME EngineInv, phase = "deciding", NEW queue, EndEvent(queue),
         queue # None => queue = pending \/ now < End,
         UNCHANGED <<delay, opening, snap, mark, account, processed>>
  PROVE  /\ OpeningInv' /\ PastInv' /\ MarkInv' /\ AssertionsHold'
         /\ now' \in EventTimes'
<1>1. /\ phase' \in {"opening", "completed"}
      /\ now' \in EventTimes /\ now <= now' /\ EventTimes' = EventTimes
      /\ phase' = "opening" => /\ now < now'
                               /\ \A t \in Nat :
                                    /\ t <= now
                                    /\ \A b \in Bars : ~(t < OpensAt(b) /\ OpensAt(b) <= now)
                                    => NoOpeningWithin(t, now')
  BY EventEnds, EventsStay
<1>2. delay \in Delays /\ now \in EventTimes /\ account \in AccountType
      /\ (snap # None => snap \in SnapshotType) /\ mark # None /\ mark \in MarkType
  BY DEF EngineInv, TypeOK, SnapshotType, MarkInv
<1>3. now \in Nat /\ now' \in Nat
  BY <1>1, <1>2, Events
<1>4. OpeningInv' /\ AssertionsHold'
  BY <1>1 DEF OpeningInv, AssertionsHold
<1>5. PastInv'
  <2>1. account.valuedAt \in Nat /\ account.valuedAt <= now
        /\ (snap # None => snap.availableAt \in Nat /\ snap.availableAt <= now)
    BY <1>2 DEF EngineInv, PastInv, AccountType, SnapshotType
  <2>2. QED  BY <1>1, <1>3, <2>1 DEF PastInv
<1>6. MarkInv'
  <2>1. mark.marketTime \in Nat /\ mark.marketTime <= now
        /\ \A b \in Bars : OpensAt(b) <= now => OpensAt(b) <= mark.marketTime
    BY <1>2 DEF EngineInv, MarkInv, MarkType
  <2>2. \A b \in Bars : ~(mark.marketTime < OpensAt(b) /\ OpensAt(b) <= now)
    BY <1>2, <2>1, BarTimes
  <2>3. phase' = "opening" => mark.marketTime < now' /\ NoOpeningWithin(mark.marketTime, now')
    BY <1>1, <1>3, <2>1, <2>2
  <2>4. QED  BY <1>1, <1>2, <2>3 DEF EngineInv, MarkInv
<1>7. QED  BY <1>1, <1>4, <1>5, <1>6

LEMMA NextIndexOK == ASSUME index \in 0 .. Cadence - 1 PROVE NextIndex \in 0 .. Cadence - 1
BY EngineAssumption DEF NextIndex

LEMMA SkipKeeps ==
  ASSUME EngineInv, SkipDecision
  PROVE  EngineInv'
<1>1. /\ phase = "deciding" /\ EndEvent(pending) /\ pending' = pending
      /\ UNCHANGED <<delay, opening, snap, mark, account, processed, lifecycle, sizedAt>>
      /\ index' \in {index, NextIndex}
  BY DEF SkipDecision
<1>2. /\ OpeningInv' /\ PastInv' /\ MarkInv' /\ AssertionsHold' /\ now' \in EventTimes'
  BY <1>1, DecisionKeeps
<1>3. /\ phase' \in {"opening", "completed"} /\ (phase' = "completed" => pending = None)
      /\ now <= now'
      /\ phase' = "opening" => /\ now < now'
                               /\ \A t \in Nat :
                                    /\ t <= now
                                    /\ \A b \in Bars : ~(t < OpensAt(b) /\ OpensAt(b) <= now)
                                    => NoOpeningWithin(t, now')
  BY <1>1, EventEnds
<1>4. TypeOK'
  BY <1>1, <1>2, <1>3, NextIndexOK DEF EngineInv, TypeOK
<1>5. QueueInv'
  <2> SUFFICES ASSUME pending # None, phase' = "opening"
               PROVE  pending.authorizedAt < now' /\ NoOpeningWithin(pending.authorizedAt, now')
    BY <1>1, <1>3 DEF EngineInv, QueueInv, Running, NewQuantity
  <2>1. delay \in Delays /\ now \in EventTimes /\ now' \in EventTimes /\ pending \in Order(0 .. End)
    BY <1>1, <1>2, EventsStay DEF EngineInv, TypeOK
  <2>2. pending.authorizedAt \in Nat /\ now \in Nat /\ now' \in Nat
    BY <2>1, OrderFields, Events
  <2>3. pending.authorizedAt < now /\ NoOpeningWithin(pending.authorizedAt, now) /\ ~IsOpening(now)
    BY <1>1 DEF EngineInv, QueueInv, Running
  <2>4. \A b \in Bars : OpensAt(b) \in Nat /\ OpensAt(b) # now
    BY <2>1, <2>3, BarTimes DEF IsOpening
  <2>5. \A b \in Bars : ~(pending.authorizedAt < OpensAt(b) /\ OpensAt(b) <= now)
    BY <2>2, <2>3, <2>4 DEF NoOpeningWithin
  <2>6. QED  BY <1>3, <2>2, <2>3, <2>5
<1>6. QED  BY <1>2, <1>4, <1>5 DEF EngineInv

\* A decision either leaves the queue alone or queues an order it may.
LEMMA Decided ==
  ASSUME EngineInv, NEW d \in Decisions, Decide(d)
  PROVE  /\ phase = "deciding" /\ now \in Nat /\ now < End /\ snap # None /\ snap \in SnapshotType
         /\ delay \in Delays /\ now \in EventTimes /\ account \in AccountType
         /\ UNCHANGED <<delay, opening, snap, mark, account, processed>>
         /\ EndEvent(pending') /\ index' = NextIndex
         /\ \/ UNCHANGED <<pending, lifecycle, sizedAt>>
            \/ /\ Approves(d, snap, account, Instrument, now)
               /\ pending' = Offer(d)
               /\ pending' \in Order(0 .. End) /\ pending' # None
               /\ pending'.reduceOnly
                    = StrictlyReduces(account.qty[Instrument], NewQuantity(account, pending'))
               /\ lifecycle' = [lifecycle EXCEPT ![now] = "queued"]
               /\ sizedAt' = IF Held(account) # {} THEN mark.price ELSE snap.price
<1>1. /\ phase = "deciding" /\ DecisionDue /\ index' = NextIndex /\ EndEvent(pending')
      /\ UNCHANGED <<delay, opening, snap, mark, account, processed>>
  BY DEF Decide
<1>2. delay \in Delays /\ now \in EventTimes /\ account \in AccountType
      /\ now < End /\ snap # None /\ snap \in SnapshotType
  BY <1>1 DEF EngineInv, TypeOK, DecisionDue, SnapshotType
<1>3. now \in Nat
  BY <1>2, Events
<1>4. CASE Approves(d, snap, account, Instrument, now)
  <2>1. /\ pending' = Offer(d)
        /\ lifecycle' = [lifecycle EXCEPT ![now] = "queued"]
        /\ sizedAt' = IF Held(account) # {} THEN mark.price ELSE snap.price
    BY <1>4 DEF Decide, Offer
  <2>2. Offer(d).qty > 0
    BY <1>4 DEF Approves, Offer
  <2>3. Offer(d).qty = Quantity(d, snap, account, Instrument)
    BY OfferFields
  <2>4. /\ Offer(d) \in Order(0 .. End)
        /\ Offer(d).reduceOnly
             = StrictlyReduces(account.qty[Instrument], NewQuantity(account, Offer(d)))
    BY <1>2, <2>2, <2>3, OfferIsOrder
  <2>5. Offer(d) # None
    <3>1. 0 .. End \subseteq Nat
      OBVIOUS
    <3>2. QED  BY <2>4, <3>1, OrderFields
  <2>6. QED  BY <1>1, <1>2, <1>3, <1>4, <2>1, <2>4, <2>5
<1>5. CASE ~Approves(d, snap, account, Instrument, now)
  BY <1>1, <1>2, <1>3, <1>5 DEF Decide
<1>6. QED  BY <1>4, <1>5

LEMMA DecideKeeps ==
  ASSUME EngineInv, NEW d \in Decisions, Decide(d)
  PROVE  EngineInv'
<1>1. /\ phase = "deciding" /\ now \in Nat /\ now < End /\ snap # None /\ snap \in SnapshotType
      /\ delay \in Delays /\ now \in EventTimes /\ account \in AccountType
      /\ UNCHANGED <<delay, opening, snap, mark, account, processed>>
      /\ EndEvent(pending') /\ index' = NextIndex
  BY Decided
<1>2. /\ OpeningInv' /\ PastInv' /\ MarkInv' /\ AssertionsHold' /\ now' \in EventTimes'
  BY <1>1, DecisionKeeps
<1>3. /\ phase' \in {"opening", "completed"} /\ (phase' = "completed" => pending' = None)
      /\ now <= now' /\ now' \in EventTimes
      /\ phase' = "opening" => /\ now < now'
                               /\ \A t \in Nat :
                                    /\ t <= now
                                    /\ \A b \in Bars : ~(t < OpensAt(b) /\ OpensAt(b) <= now)
                                    => NoOpeningWithin(t, now')
  BY <1>1, EventEnds
<1>4. CASE UNCHANGED <<pending, lifecycle, sizedAt>>
  <2>1. TypeOK'
    BY <1>1, <1>2, <1>3, <1>4, NextIndexOK DEF EngineInv, TypeOK
  <2>2. QueueInv'
    <3> SUFFICES ASSUME pending # None, phase' = "opening"
                 PROVE  pending.authorizedAt < now' /\ NoOpeningWithin(pending.authorizedAt, now')
      BY <1>1, <1>3, <1>4 DEF EngineInv, QueueInv, Running, NewQuantity
    <3>1. pending \in Order(0 .. End)
      BY DEF EngineInv, TypeOK
    <3>2. pending.authorizedAt \in Nat /\ now' \in Nat
      BY <1>1, <1>3, <3>1, OrderFields, Events
    <3>3. pending.authorizedAt < now /\ NoOpeningWithin(pending.authorizedAt, now) /\ ~IsOpening(now)
      BY <1>1 DEF EngineInv, QueueInv, Running
    <3>4. \A b \in Bars : OpensAt(b) \in Nat /\ OpensAt(b) # now
      BY <1>1, <3>3, BarTimes DEF IsOpening
    <3>5. \A b \in Bars : ~(pending.authorizedAt < OpensAt(b) /\ OpensAt(b) <= now)
      BY <1>1, <3>2, <3>3, <3>4 DEF NoOpeningWithin
    <3>6. QED  BY <1>1, <1>3, <3>2, <3>3, <3>5
  <2>3. QED  BY <1>2, <2>1, <2>2 DEF EngineInv
<1>5. ASSUME /\ pending' = Offer(d)
             /\ pending' \in Order(0 .. End) /\ pending' # None
             /\ pending'.reduceOnly
                  = StrictlyReduces(account.qty[Instrument], NewQuantity(account, pending'))
             /\ lifecycle' = [lifecycle EXCEPT ![now] = "queued"]
             /\ sizedAt' = IF Held(account) # {} THEN mark.price ELSE snap.price
      PROVE  EngineInv'
  <2>1. sizedAt' \in Nat
    <3>1. mark # None /\ mark \in MarkType
      BY <1>1 DEF EngineInv, MarkInv, TypeOK
    <3>2. mark.price \in Prices /\ snap.price \in Prices
      BY <1>1, <3>1 DEF MarkType, SnapshotType
    <3>3. QED  BY <1>5, <3>2, PositivePrices
  <2>2. lifecycle' \in [0 .. End -> {"none", "queued", "filled", "rejected"}]
    BY <1>5 DEF EngineInv, TypeOK
  <2>3. TypeOK'
    BY <1>1, <1>2, <1>3, <1>5, <2>1, <2>2, NextIndexOK DEF EngineInv, TypeOK
  <2>4. Offer(d).id = now /\ Offer(d).authorizedAt = now /\ Offer(d).earliest = now
    BY OfferFields
  <2>5. phase' = "opening" => now < now' /\ NoOpeningWithin(now, now')
    <3>1. \A b \in Bars : OpensAt(b) \in Nat
      BY <1>1, BarTimes
    <3>2. \A b \in Bars : ~(now < OpensAt(b) /\ OpensAt(b) <= now)
      BY <1>1, <3>1
    <3>3. QED  BY <1>1, <1>3, <3>2
  <2>6. NewQuantity(account', pending') = NewQuantity(account, pending')
    BY <1>1
  <2>7. QueueInv'
    BY <1>1, <1>3, <1>5, <2>4, <2>5, <2>6 DEF QueueInv, Running
  <2>8. QED  BY <1>2, <2>3, <2>7 DEF EngineInv
<1>6. QED  BY <1>4, <1>5, Decided

LEMMA InvNext == EngineInv /\ [Next]_vars => EngineInv'
<1> SUFFICES ASSUME EngineInv, [Next]_vars PROVE EngineInv'
  OBVIOUS
<1>1. CASE Cancel
  BY <1>1, CancelKeeps
<1>2. CASE PassOpening
  BY <1>2, PassKeeps
<1>3. CASE \E p \in Prices : RejectQueued(p)
  BY <1>3, RejectKeeps
<1>4. CASE \E p \in Prices : FillQueued(p)
  BY <1>4, FillKeeps
<1>5. CASE MarkAccount
  BY <1>5, MarkKeeps
<1>6. CASE SkipDecision
  BY <1>6, SkipKeeps
<1>7. CASE \E d \in Decisions : Decide(d)
  BY <1>7, DecideKeeps
<1>8. CASE UNCHANGED vars
  <2>1. TypeOK'
    BY <1>8, EventsStay DEF vars, EngineInv, TypeOK
  <2>2. QED
    BY <1>8, <2>1 DEF vars, EngineInv, OpeningInv, PastInv, MarkInv, QueueInv, AssertionsHold,
                      Running, NewQuantity
<1>9. QED
  BY <1>1, <1>2, <1>3, <1>4, <1>5, <1>6, <1>7, <1>8 DEF Next

LEMMA EngineInvariant == Spec => []EngineInv
BY InvInit, InvNext, PTL DEF Spec

-----------------------------------------------------------------------------
(***************************************************************************)
(* Whatever the prices, the delays, the policy and the decisions, the      *)
(* variables of a run keep their types: the account and the mark stay      *)
(* well-formed, the queue holds an order the schema accepts, and the clock *)
(* is at one of the instants of the run.                                   *)
(***************************************************************************)
THEOREM EngineTypes == Spec => []TypeOK
<1>1. EngineInv => TypeOK
  BY DEF EngineInv
<1>2. QED  BY <1>1, EngineInvariant, PTL

(***************************************************************************)
(* The queue of run is causal for every pattern of delays: a queued order  *)
(* meets the first bar that opens after it was authorized, neither the one *)
(* it was decided on nor a later one.                                      *)
(***************************************************************************)
THEOREM OrdersMeetTheNextOpening == Spec => []QueueMeetsNextOpening
<1>1. EngineInv => QueueMeetsNextOpening
  BY DEF EngineInv, QueueInv, QueueMeetsNextOpening, NoOpeningWithin, Running
<1>2. QED  BY <1>1, EngineInvariant, PTL

(***************************************************************************)
(* The assertions of run about its queue and its marks never fail: no past *)
(* opening for an order, a mark for every open position, an empty queue at *)
(* the end.                                                                *)
(***************************************************************************)
THEOREM RunAssertionsHold == Spec => []AssertionsHold
<1>1. EngineInv => AssertionsHold
  BY DEF EngineInv
<1>2. QED  BY <1>1, EngineInvariant, PTL

(***************************************************************************)
(* The council and the governor decide on an account valued at this        *)
(* instant, with the latest opening as its mark, however late the bars     *)
(* become available.                                                       *)
(***************************************************************************)
THEOREM DecisionsUseTheNewestMark == Spec => []DecidesOnNewestMark
<1>1. EngineInv => DecidesOnNewestMark
  <2> SUFFICES ASSUME EngineInv, phase = "deciding"
               PROVE  /\ account.valuedAt = now
                      /\ mark.marketTime = Max({OpensAt(b) : b \in {c \in Bars : OpensAt(c) <= now}})
                      /\ mark.availableAt = mark.marketTime
                      /\ snap # None => snap.availableAt <= now
    BY DEF DecidesOnNewestMark
  <2> DEFINE S == {OpensAt(b) : b \in {c \in Bars : OpensAt(c) <= now}}
  <2>1. /\ account.valuedAt = now /\ mark # None
        /\ mark.availableAt = mark.marketTime
        /\ snap # None => snap.availableAt <= now
        /\ \E b \in Bars : mark.marketTime = OpensAt(b)
        /\ mark.marketTime <= now
        /\ \A b \in Bars : OpensAt(b) <= now => OpensAt(b) <= mark.marketTime
    BY DEF EngineInv, PastInv, MarkInv
  <2>2. mark.marketTime \in Nat /\ \A b \in Bars : OpensAt(b) \in Nat
    BY <2>1, BarTimes DEF EngineInv, TypeOK, MarkType
  <2>3. mark.marketTime \in S /\ S \subseteq Nat /\ \A x \in S : x <= mark.marketTime
    BY <2>1, <2>2
  <2> HIDE DEF S
  <2>4. Max(S) \in S /\ \A x \in S : Max(S) >= x
    <3>1. \E y \in S : \A x \in S : y >= x
      BY <2>2, <2>3
    <3>2. QED  BY <3>1 DEF Max
  <2>5. mark.marketTime = Max(S)
    <3>1. Max(S) \in Nat /\ Max(S) <= mark.marketTime /\ Max(S) >= mark.marketTime
      BY <2>3, <2>4
    <3>2. QED  BY <2>2, <3>1
  <2>6. QED  BY <2>1, <2>5 DEF S
<1>2. QED  BY <1>1, EngineInvariant, PTL

(***************************************************************************)
(* A reduction that waits in the queue is still a strict reduction when it *)
(* meets its opening.                                                      *)
(***************************************************************************)
THEOREM QueuedReductionsStayValid == Spec => []QueuedReductionStaysValid
<1>1. EngineInv => QueuedReductionStaysValid
  BY DEF EngineInv, QueueInv, QueuedReductionStaysValid
<1>2. QED  BY <1>1, EngineInvariant, PTL

(***************************************************************************)
(* _select_latest_market_mark never goes back in market time.              *)
(***************************************************************************)
THEOREM MarksNeverRegress == Spec => MarkNeverRegresses
<1>1. EngineInv /\ [Next]_vars => [mark # None => mark'.marketTime >= mark.marketTime]_vars
  <2> SUFFICES ASSUME EngineInv, Next, mark # None
               PROVE  mark'.marketTime >= mark.marketTime
    OBVIOUS
  <2>1. delay \in Delays /\ now \in EventTimes /\ mark \in MarkType
    BY DEF EngineInv, TypeOK
  <2>2. mark.marketTime \in Nat /\ now \in Nat
    BY <2>1, Events DEF MarkType
  <2>3. CASE MarkAccount
    <3>1. PICK b \in Bars : mark.marketTime = OpensAt(b)
      BY DEF EngineInv, MarkInv
    <3>2. mark.marketTime <= now
      <4>1. phase = "marking"
        BY <2>3 DEF MarkAccount
      <4>2. mark.marketTime < now
        BY <4>1 DEF EngineInv, MarkInv
      <4>3. QED  BY <2>2, <4>2
    <3>3. OpensAt(b) <= mark'.marketTime /\ mark' \in MarkType
      BY <2>3, <3>1, <3>2, MarkingSucceeds
    <3>4. QED  BY <2>2, <3>1, <3>3 DEF MarkType
  <2>4. CASE mark' = mark
    BY <2>2, <2>4
  <2>5. QED
    BY <2>3, <2>4 DEF Next, Cancel, PassOpening, RejectQueued, FillQueued, SkipDecision, Decide
<1>2. QED  BY <1>1, EngineInvariant, PTL DEF Spec, MarkNeverRegresses

-----------------------------------------------------------------------------
(* Without shorting.                                                       *)

LEMMA ReductionsSell ==
  ASSUME NEW Ids, NEW o \in Order(Ids), NEW acct \in AccountType, acct.qty[Instrument] >= 0,
         StrictlyReduces(acct.qty[Instrument], NewQuantity(acct, o))
  PROVE  o.side = "sell" /\ NewQuantity(acct, o) >= 0
<1>1. /\ acct.qty[Instrument] \in Int /\ NewQuantity(acct, o) \in Int
      /\ o.side \in {"buy", "sell"} /\ o.qty \in Nat /\ o.qty > 0
      /\ o.side = "buy" => NewQuantity(acct, o) = acct.qty[Instrument] + o.qty
      /\ o.side = "sell" => NewQuantity(acct, o) = acct.qty[Instrument] - o.qty
  BY QuantityAfter, OrderFields
<1>2. acct.qty[Instrument] > 0
  BY <1>1 DEF StrictlyReduces
<1>3. QED  BY <1>1, <1>2 DEF StrictlyReduces, Magnitude

LEMMA SalesReduce ==
  ASSUME NEW Ids, NEW o \in Order(Ids), NEW acct \in AccountType,
         o.side = "sell", NewQuantity(acct, o) >= 0
  PROVE  StrictlyReduces(acct.qty[Instrument], NewQuantity(acct, o))
<1>1. /\ acct.qty[Instrument] \in Int /\ NewQuantity(acct, o) \in Int
      /\ o.qty \in Nat /\ o.qty > 0
      /\ NewQuantity(acct, o) = acct.qty[Instrument] - o.qty
  BY QuantityAfter, OrderFields
<1>2. QED  BY <1>1 DEF StrictlyReduces, Magnitude

\* A decision queues a sale only as a reduction.
LEMMA DecideSellsReductions ==
  ASSUME EngineInv, ~AllowShorting, account.qty[Instrument] >= 0,
         NEW d \in Decisions, Decide(d), pending' # pending, pending'.side = "sell"
  PROVE  pending'.reduceOnly
<1> DEFINE o == pending'
<1>1. /\ account \in AccountType /\ Approves(d, snap, account, Instrument, now) /\ o = Offer(d)
      /\ o \in Order(0 .. End)
      /\ o.reduceOnly = StrictlyReduces(account.qty[Instrument], NewQuantity(account, o))
  BY Decided
<1>2. o.reduceOnly \/ ~RestrictionVeto(d, account, account.qty[Instrument] + Direction(o) * o.qty)
  BY <1>1 DEF Approves, Offer
<1>3. NewQuantity(account, o) = account.qty[Instrument] + Direction(o) * o.qty
      /\ NewQuantity(account, o) \in Int
  BY <1>1, QuantityAfter
<1>4. CASE NewQuantity(account, o) >= 0
  BY <1>1, <1>4, SalesReduce
<1>5. CASE NewQuantity(account, o) < 0
  BY <1>2, <1>3, <1>5 DEF RestrictionVeto
<1>6. QED  BY <1>3, <1>4, <1>5

LEMMA LongOnlyKept ==
  ASSUME EngineInv, ~AllowShorting, LongOnlyInv, [Next]_vars
  PROVE  LongOnlyInv'
<1>1. /\ account \in AccountType /\ account.qty[Instrument] >= 0 /\ account.cash >= 0
      /\ (pending # None /\ pending.side = "sell" => pending.reduceOnly)
      /\ delay \in Delays /\ now \in EventTimes
      /\ (pending # None => pending \in Order(0 .. End))
  BY DEF EngineInv, TypeOK, LongOnlyInv
<1>2. now \in Nat /\ account.qty[Instrument] \in Int /\ account.cash \in Int
  BY <1>1, Events, EngineAssumption DEF AccountType
<1>3. ASSUME NEW p \in Prices, FillQueued(p) PROVE LongOnlyInv'
  <2> DEFINE o == pending
  <2>1. o # None /\ o \in Order(0 .. End) /\ (pending' = None \/ pending' = o)
        /\ account' = AfterFill(account, o, OpeningAt(p))
        /\ ~EconomicallyRejected(account, o, p)
    BY <1>1, <1>3 DEF FillQueued, MeetsOpening, Rejected, OpeningAt
  <2>2. account'.cash = account.cash + CashChange(o, p) /\ account'.qty[Instrument] = NewQuantity(account, o)
    BY <1>1, <1>2, <2>1, Filled
  <2>3. CashChange(o, p) \in Int /\ (o.side = "sell" => CashChange(o, p) >= 0)
    BY <2>1, PositivePrices, Costs
  <2>4. o.reduceOnly => StrictlyReduces(account.qty[Instrument], NewQuantity(account, o))
    BY <2>1 DEF EngineInv, QueueInv
  <2>5. o.side \in {"buy", "sell"} /\ o.qty \in Nat /\ o.reduceOnly \in BOOLEAN
        /\ NewQuantity(account, o) \in Int
        /\ (o.side = "buy" => NewQuantity(account, o) = account.qty[Instrument] + o.qty)
    BY <1>1, <2>1, OrderFields, QuantityAfter
  <2>6. NewQuantity(account, o) >= 0 /\ account.cash + CashChange(o, p) >= 0
    <3>1. CASE o.reduceOnly
      <4>1. o.side = "sell" /\ NewQuantity(account, o) >= 0
        BY <1>1, <2>1, <2>4, <3>1, ReductionsSell
      <4>2. QED  BY <1>1, <1>2, <2>3, <4>1
    <3>2. CASE ~o.reduceOnly
      <4>1. o.side = "buy"
        BY <1>1, <2>1, <2>5, <3>2
      <4>2. account.cash + CashChange(o, p) >= 0
        BY <1>2, <2>1, <2>3, <3>2 DEF EconomicallyRejected
      <4>3. QED  BY <1>1, <1>2, <2>5, <4>1, <4>2
    <3>3. QED  BY <2>5, <3>1, <3>2
  <2>7. QED  BY <1>1, <2>1, <2>2, <2>6 DEF LongOnlyInv
<1>4. ASSUME NEW d \in Decisions, Decide(d) PROVE LongOnlyInv'
  <2>1. account' = account
    BY <1>4 DEF Decide
  <2>2. pending' = pending \/ (pending'.side = "sell" => pending'.reduceOnly)
    BY <1>1, <1>4, DecideSellsReductions
  <2>3. QED  BY <1>1, <2>1, <2>2 DEF LongOnlyInv
<1>5. ASSUME MarkAccount PROVE LongOnlyInv'
  <2>1. account'.qty = account.qty /\ account'.cash = account.cash
    BY <1>1, <1>2, <1>5, MarkingSucceeds, Marked
  <2>2. QED  BY <1>1, <1>5, <2>1 DEF LongOnlyInv, MarkAccount
<1>6. CASE account' = account /\ (pending' = pending \/ pending' = None)
  BY <1>1, <1>6 DEF LongOnlyInv
<1>7. QED
  BY <1>3, <1>4, <1>5, <1>6 DEF Next, vars, Cancel, PassOpening, RejectQueued, SkipDecision

\* The gross exposure of one market is the size of its position's worth.
LEMMA GrossOverOne ==
  ASSUME NEW acct, acct \in AccountType
  PROVE  GrossExposure(acct) = Magnitude(Notional(acct, Instrument))
<1> DEFINE f(s) == Magnitude(Notional(acct, s))
           Steps(g) == g = [s \in SUBSET {Instrument} |->
                              IF s = {} THEN 0
                              ELSE f(CHOOSE x \in s : TRUE) + g[s \ {CHOOSE x \in s : TRUE}]]
           w == [s \in SUBSET {Instrument} |-> IF s = {} THEN 0 ELSE f(Instrument)]
<1>1. f(Instrument) \in Int
  BY Values, MagnitudeOf
<1>2. Steps(w)
  <2>1. ASSUME NEW s \in SUBSET {Instrument}, s # {}
        PROVE  /\ (CHOOSE x \in s : TRUE) = Instrument
               /\ s \ {CHOOSE x \in s : TRUE} = {}
    BY <2>1
  <2>2. w[{}] = 0
    OBVIOUS
  <2> HIDE DEF f
  <2>3. QED  BY <1>1, <2>1, <2>2
<1>3. Steps(CHOOSE g : Steps(g))
  BY <1>2
<1>4. GrossExposure(acct) = (CHOOSE g : Steps(g))[{Instrument}]
  BY EngineAssumption DEF GrossExposure, MapThenSumSet, MapThenFoldSet
<1> DEFINE g == CHOOSE h : Steps(h)
<1>5. g[{}] = 0
  BY <1>3
<1>6. {Instrument} # {} /\ {Instrument} \in SUBSET {Instrument}
      /\ (CHOOSE x \in {Instrument} : TRUE) = Instrument /\ {Instrument} \ {Instrument} = {}
  OBVIOUS
<1>7. g[{Instrument}] = f(Instrument) + g[{}]
  BY <1>3, <1>6, Zenon
<1>8. QED  BY <1>1, <1>4, <1>5, <1>7

\* What evaluate checked before it queued a purchase, for a position valued at
\* the order's reference price.
LEMMA QueuedPurchaseIsAffordable ==
  ASSUME EngineInv, LongOnlyInv, ValuedInv, NEW d \in Decisions, Decide(d),
         pending' # pending, pending'.side = "buy", sizedAt' = pending'.ref
  PROVE  Affordable(pending', account.cash, account.qty[Instrument])
<1> DEFINE o == pending'
           q == account.qty[Instrument]
           value == o.ref * Unit
           left == account.cash + CashChange(o, o.ref)
           worth == (q + o.qty) * value
<1>1. /\ account \in AccountType /\ Approves(d, snap, account, Instrument, now) /\ o = Offer(d)
      /\ o \in Order(0 .. End) /\ snap \in SnapshotType /\ phase = "deciding"
      /\ delay \in Delays /\ now \in EventTimes
      /\ o.reduceOnly = StrictlyReduces(account.qty[Instrument], NewQuantity(account, o))
      /\ sizedAt' = IF Held(account) # {} THEN mark.price ELSE snap.price
  BY Decided
<1>2. /\ o.qty \in Nat /\ o.qty > 0 /\ o.ref \in Nat /\ o.symbol = Instrument /\ Direction(o) = 1
      /\ o.reduceOnly \in BOOLEAN
  BY <1>1, OrderFields
<1>3. q \in Int /\ q >= 0 /\ account.cash \in Int
  BY <1>1, EngineAssumption DEF LongOnlyInv, AccountType
<1>4. CashChange(o, o.ref) \in Int
  BY <1>1, <1>2, Costs
<1>5. value \in Nat /\ o.qty * value \in Nat /\ q * value \in Nat /\ worth = q * value + o.qty * value
  <2>1. value \in Nat
    BY <1>2, Rates
  <2> HIDE DEF value
  <2>2. QED  BY <1>2, <1>3, <2>1
<1>6. Notional(account, Instrument) = q * value
  <2>1. Notional(account, Instrument) = q * (account.mark[Instrument] * Unit)
    BY <1>1, Values
  <2>2. CASE q = 0
    <3>1. account.mark[Instrument] * Unit \in Nat
      BY <1>1, Rates, EngineAssumption DEF AccountType
    <3>2. QED  BY <1>5, <2>1, <2>2, <3>1
  <2>3. CASE q # 0
    <3>1. Instrument \in Held(account)
      BY <2>3, EngineAssumption DEF Held
    <3>2. account.mark[Instrument] = o.ref
      BY <1>1, <2>3, <3>1 DEF ValuedInv
    <3>3. QED  BY <2>1, <3>2
  <2>4. QED  BY <2>2, <2>3
<1>7. ~o.reduceOnly
  BY <1>1, <1>3, ReductionsSell
<1>8. ~LimitVeto(o, account)
  BY <1>1, <1>7 DEF Approves, Offer
<1> DEFINE equity == Equity(account) + Direction(o) * o.qty * o.ref * Unit + CashChange(o, o.ref)
           symbol == Magnitude((account.qty[o.symbol] + Direction(o) * o.qty) * o.ref * Unit)
           gross == GrossExposure(account) - Magnitude(Notional(account, o.symbol)) + symbol
<1>9. /\ ~(left * Frac < equity * CashReserve)
      /\ ~(gross * Frac > equity * MaxGross)
      /\ ~(symbol * Frac > equity * MaxPosition)
  BY <1>8 DEF LimitVeto
<1>10. Unit \in Nat
  BY Rates
<1>11. equity = left + worth
  <2>1. Direction(o) * o.qty * o.ref * Unit = o.qty * value
    BY <1>2, <1>10
  <2>2. Equity(account) = account.cash + q * value
    BY <1>1, <1>6, Values
  <2> HIDE DEF value
  <2>3. QED  BY <1>3, <1>4, <1>5, <2>1, <2>2
<1>12. symbol = worth
  <2>1. (account.qty[o.symbol] + Direction(o) * o.qty) * o.ref * Unit = worth
    BY <1>2, <1>3, <1>10
  <2>2. worth \in Nat
    BY <1>5
  <2>3. QED  BY <2>1, <2>2, MagnitudeOf
<1>13. gross = worth
  <2>1. GrossExposure(account) = Magnitude(q * value) /\ Magnitude(Notional(account, o.symbol)) = Magnitude(q * value)
    BY <1>1, <1>2, <1>6, GrossOverOne
  <2>2. Magnitude(q * value) \in Nat /\ worth \in Nat
    BY <1>5, MagnitudeOf
  <2>3. QED  BY <1>12, <2>1, <2>2
<1>14. left * Frac \in Int /\ (left + worth) * CashReserve \in Int /\ worth * Frac \in Int
       /\ (left + worth) * MaxGross \in Int /\ (left + worth) * MaxPosition \in Int
  <2>1. left \in Int /\ worth \in Int
    BY <1>3, <1>4, <1>5
  <2> HIDE DEF left, worth
  <2>2. Frac \in Int /\ CashReserve \in Int /\ MaxGross \in Int /\ MaxPosition \in Int
    BY PolicyAssumption
  <2>3. QED  BY <2>1, <2>2
<1>15. o.qty * value <= MaxOrderNotional
  <2>1. Offer(d).qty = Quantity(d, snap, account, Instrument) /\ Offer(d).ref = snap.price
        /\ Offer(d).side = IF DeltaNotional(d, account, Instrument) > 0 THEN "buy" ELSE "sell"
    BY OfferFields
  <2>2. ~Flattening(d, account, Instrument)
    <3>1. DeltaNotional(d, account, Instrument) > 0
      BY <1>1, <2>1
    <3>2. DeltaNotional(d, account, Instrument) = TargetNotional(d, account) - q * value
      BY <1>6 DEF DeltaNotional
    <3>3. TargetNotional(d, account) # 0
      BY <1>5, <3>1, <3>2
    <3>4. QED  BY <3>3 DEF Flattening
  <2>3. QED  BY <1>1, <2>1, <2>2, Sized
<1>16. o.maxSlip = SlippageBps
  BY <1>1, OfferFields
<1>17. /\ left * Frac >= (left + worth) * CashReserve
       /\ worth * Frac <= (left + worth) * MaxGross
       /\ worth * Frac <= (left + worth) * MaxPosition
  <2> HIDE DEF left, worth, equity, symbol, gross
  <2>1. QED  BY <1>9, <1>11, <1>12, <1>13, <1>14
<1>18. QED  BY <1>15, <1>16, <1>17 DEF Affordable

\* The limits, for cash left and the worth of a position: more left and less
\* worth stays within them.
LEMMA LimitsAreMonotone ==
  ASSUME NEW left \in Int, NEW worth \in Nat, NEW left2 \in Int, NEW worth2 \in Nat,
         left <= left2, worth2 <= worth
  PROVE  /\ left * Frac >= (left + worth) * CashReserve
              => left2 * Frac >= (left2 + worth2) * CashReserve
         /\ \A limit \in 0 .. Frac :
              worth * Frac <= (left + worth) * limit
                => worth2 * Frac <= (left2 + worth2) * limit
<1> DEFINE a == left2 - left
           b == worth - worth2
<1>1. a \in Nat /\ b \in Nat /\ left2 = left + a /\ worth = worth2 + b
  OBVIOUS
<1>2. CashReserve \in Nat /\ CashReserve <= Frac /\ Frac \in Nat
  BY PolicyAssumption
<1> HIDE DEF a, b
<1>3. \A r \in 0 .. Frac : /\ r * a \in Nat /\ r * a <= Frac * a
                           /\ r * b \in Nat /\ r * b <= Frac * b
  BY <1>1, <1>2, Products
<1>4. ASSUME left * Frac >= (left + worth) * CashReserve
      PROVE  left2 * Frac >= (left2 + worth2) * CashReserve
  <2>1. CashReserve * a <= Frac * a /\ 0 <= CashReserve * b
        /\ CashReserve * a \in Nat /\ CashReserve * b \in Nat
    BY <1>2, <1>3
  <2>2. left2 * Frac = left * Frac + Frac * a
    BY <1>1, <1>2
  <2>3. (left2 + worth2) * CashReserve = (left + worth) * CashReserve + CashReserve * a - CashReserve * b
    BY <1>1, <1>2
  <2>4. left * Frac \in Int /\ (left + worth) * CashReserve \in Int /\ Frac * a \in Int
    BY <1>1, <1>2
  <2>5. QED  BY <1>4, <2>1, <2>2, <2>3, <2>4
<1>5. ASSUME NEW limit \in 0 .. Frac, worth * Frac <= (left + worth) * limit
      PROVE  worth2 * Frac <= (left2 + worth2) * limit
  <2>1. limit * b <= Frac * b /\ 0 <= limit * a /\ limit * a \in Nat /\ limit * b \in Nat
    BY <1>3
  <2>2. worth2 * Frac = worth * Frac - Frac * b
    BY <1>1, <1>2
  <2>3. (left2 + worth2) * limit = (left + worth) * limit + limit * a - limit * b
    BY <1>1
  <2>4. worth * Frac \in Int /\ (left + worth) * limit \in Int /\ Frac * b \in Int
    BY <1>1, <1>2
  <2>5. QED  BY <1>5, <2>1, <2>2, <2>3, <2>4
<1>6. QED  BY <1>4, <1>5

\* A purchase within its slippage is filled at no more than its reference price,
\* and costs no more than it would there.
LEMMA PurchasesCostLess ==
  ASSUME NEW Ids, NEW o \in Order(Ids), NEW p \in Prices, o.side = "buy", o.maxSlip = SlippageBps,
         ~SlippageExceeds(o, p)
  PROVE  p <= o.ref /\ CashChange(o, o.ref) <= CashChange(o, p)
<1> DEFINE k == Bps + SlippageBps
<1>1. /\ o.ref \in Nat /\ p \in Nat /\ o.qty \in Nat /\ Direction(o) = 1
      /\ k \in Nat /\ k > 0 /\ Bps \in Nat /\ SlippageBps \in Nat
  BY OrderFields, PositivePrices, Rates
<1>2. FillPrice(o, p) = p * k /\ FillPrice(o, o.ref) = o.ref * k
  BY <1>1 DEF FillPrice
<1>3. p * k <= o.ref * k
  <2>1. ~(p * k - o.ref * Bps > SlippageBps * o.ref)
    BY <1>1, <1>2 DEF SlippageExceeds
  <2>2. o.ref * k = o.ref * Bps + SlippageBps * o.ref
    BY <1>1
  <2>3. p * k \in Nat /\ o.ref * Bps \in Nat /\ SlippageBps * o.ref \in Nat
    BY <1>1
  <2> HIDE DEF k
  <2>4. QED  BY <2>1, <2>2, <2>3
<1> HIDE DEF k
<1>4. p <= o.ref
  <2> SUFFICES ASSUME o.ref + 1 <= p PROVE FALSE
    BY <1>1
  <2>1. (o.ref + 1) * k <= p * k
    BY <1>1, Products
  <2>2. (o.ref + 1) * k = o.ref * k + k /\ o.ref * k \in Nat /\ p * k \in Nat
    BY <1>1
  <2>3. QED  BY <1>1, <1>3, <2>1, <2>2
<1>5. CashChange(o, o.ref) <= CashChange(o, p)
  <2> DEFINE x == o.qty * (p * k)
             y == o.qty * (o.ref * k)
             fee == Bps + FeeBps
  <2>1. x \in Nat /\ y \in Nat /\ x <= y
    <3>1. p * k \in Nat /\ o.ref * k \in Nat
      BY <1>1
    <3>2. (p * k) * o.qty <= (o.ref * k) * o.qty
      BY <1>1, <1>3, <3>1, Products
    <3> DEFINE u == p * k
               v == o.ref * k
    <3> HIDE DEF u, v
    <3>3. u * o.qty = o.qty * u /\ v * o.qty = o.qty * v /\ o.qty * u \in Nat /\ o.qty * v \in Nat
      BY <1>1, <3>1 DEF u, v
    <3>4. QED  BY <3>2, <3>3 DEF u, v
  <2>2. fee \in Nat
    BY Rates
  <2>3. CashChange(o, p) = -(x * fee) /\ CashChange(o, o.ref) = -(y * fee)
    BY <1>2 DEF CashChange
  <2> HIDE DEF x, y, fee
  <2>4. x * fee <= y * fee /\ x * fee \in Nat /\ y * fee \in Nat
    BY <2>1, <2>2, Products
  <2>5. QED  BY <2>3, <2>4
<1>6. QED  BY <1>4, <1>5

\* An affordable purchase that the adapter fills is compliant.
LEMMA AffordablePurchasesReconcile ==
  ASSUME EngineInv, ~AllowShorting, LongOnlyInv, NEW p \in Prices, FillQueued(p),
         pending.side = "buy", Affordable(pending, account.cash, account.qty[Instrument])
  PROVE  phase' = "marking"
<1> DEFINE o == pending
           at == OpeningAt(p)
           q == account.qty[Instrument]
           left == account.cash + CashChange(o, o.ref)
           worth == (q + o.qty) * (o.ref * Unit)
           left2 == account.cash + CashChange(o, p)
           worth2 == (q + o.qty) * (p * Unit)
<1>1. o # None /\ o \in Order(0 .. End) /\ now \in Nat /\ now > o.authorizedAt
      /\ account \in AccountType
  <2>1. pending # None /\ now > o.authorizedAt
    BY DEF FillQueued, MeetsOpening
  <2>2. delay \in Delays /\ now \in EventTimes /\ account \in AccountType /\ o \in Order(0 .. End)
    BY <2>1 DEF EngineInv, TypeOK
  <2>3. QED  BY <2>1, <2>2, Events
<1>2. /\ o.symbol = Instrument /\ o.authorizedAt \in Nat /\ o.earliest \in Nat /\ o.expires \in Nat
      /\ o.maxFee \in Nat /\ o.qty \in Nat /\ o.qty > 0 /\ o.ref \in Nat /\ Direction(o) = 1
      /\ p \in Nat /\ p > 0 /\ Unit \in Nat /\ Unit > 0
      /\ o.reduceOnly \in BOOLEAN
  BY <1>1, OrderFields, PositivePrices, Rates
<1>3. q \in Int /\ q >= 0 /\ account.cash \in Int
  BY <1>1, EngineAssumption DEF LongOnlyInv, AccountType
<1>4. ~o.reduceOnly
  <2>1. o.reduceOnly => StrictlyReduces(account.qty[Instrument], NewQuantity(account, o))
    BY <1>1 DEF EngineInv, QueueInv
  <2>2. QED  BY <1>1, <1>3, <2>1, ReductionsSell
<1>5. /\ ~SlippageExceeds(o, p) /\ ~(FeeBps > o.maxFee)
      /\ ~(at.openedAt < o.earliest) /\ ~(at.openedAt > o.expires)
      /\ ~(left2 < 0)
  BY <1>4 DEF FillQueued, Rejected, CausallyRejected, EconomicallyRejected, OpeningAt
<1>6. at = [symbol |-> Instrument, price |-> p, openedAt |-> now, observedAt |-> now]
  BY DEF OpeningAt
<1>7. /\ account' \in AccountType /\ account'.valuedAt = now /\ account'.cash = left2
      /\ account'.qty[Instrument] = NewQuantity(account, o)
      /\ NewQuantity(account, o) = q + o.qty
      /\ account'.mark[Instrument] = p
  <2>1. NewQuantity(account, o) = q + o.qty
    BY <1>1, QuantityAfter
  <2>2. NewQuantity(account, o) # 0
    BY <1>2, <1>3, <2>1
  <2>3. QED  BY <1>1, <2>1, <2>2, Filled DEF FillQueued
<1>8. /\ o.maxSlip = SlippageBps
      /\ left * Frac >= (left + worth) * CashReserve
      /\ worth * Frac <= (left + worth) * MaxGross
      /\ worth * Frac <= (left + worth) * MaxPosition
      /\ o.qty * (o.ref * Unit) <= MaxOrderNotional
  BY DEF Affordable
<1>9. p <= o.ref /\ left <= left2 /\ left \in Int /\ left2 \in Int
  <2>1. p <= o.ref /\ CashChange(o, o.ref) <= CashChange(o, p)
    BY <1>1, <1>5, <1>8, PurchasesCostLess
  <2>2. CashChange(o, o.ref) \in Int /\ CashChange(o, p) \in Int
    BY <1>1, <1>2, Costs
  <2>3. QED  BY <1>3, <2>1, <2>2
<1>10. worth \in Nat /\ worth2 \in Nat /\ worth2 <= worth /\ worth2 > 0
  <2> DEFINE lots == q + o.qty
             u == p * Unit
             v == o.ref * Unit
  <2>1. lots \in Nat /\ lots > 0 /\ u \in Nat /\ u > 0 /\ v \in Nat /\ u <= v
    BY <1>2, <1>3, <1>9, Products
  <2>2. worth = lots * v /\ worth2 = lots * u
    OBVIOUS
  <2> HIDE DEF lots, u, v
  <2>3. lots * v \in Nat /\ lots * u \in Nat /\ u * lots <= v * lots /\ u * lots = lots * u /\ v * lots = lots * v
        /\ lots * u > 0
    BY <2>1, Products
  <2>4. QED  BY <2>2, <2>3
<1>11. /\ left2 * Frac >= (left2 + worth2) * CashReserve
       /\ worth2 * Frac <= (left2 + worth2) * MaxGross
       /\ worth2 * Frac <= (left2 + worth2) * MaxPosition
  <2>1. MaxGross \in 0 .. Frac /\ MaxPosition \in 0 .. Frac
    BY PolicyAssumption
  <2> HIDE DEF left, left2, worth, worth2
  <2>2. QED  BY <1>8, <1>9, <1>10, <2>1, LimitsAreMonotone
<1>12. Notional(account', Instrument) = worth2 /\ Equity(account') = left2 + worth2
       /\ GrossExposure(account') = worth2 /\ Magnitude(Notional(account', Instrument)) = worth2
  <2>1. Notional(account', Instrument) = account'.qty[Instrument] * (account'.mark[Instrument] * Unit)
        /\ Equity(account') = account'.cash + Notional(account', Instrument)
        /\ GrossExposure(account') = Magnitude(Notional(account', Instrument))
    BY <1>7, Values, GrossOverOne
  <2>2. Notional(account', Instrument) = worth2
    BY <1>7, <2>1
  <2>3. Magnitude(worth2) = worth2
    BY <1>10, MagnitudeOf
  <2>4. QED  BY <1>7, <2>1, <2>2, <2>3
<1>13. WithinLimits(o, account')
  <2>1. Equity(account') > 0
    <3> HIDE DEF left2, worth2
    <3>1. QED  BY <1>5, <1>9, <1>10, <1>12
  <2>2. o.qty * o.ref * Unit <= MaxOrderNotional
    BY <1>2, <1>8
  <2>3. ~(account'.qty[Instrument] < 0)
    BY <1>2, <1>3, <1>7
  <2>4. account'.cash = left2
    BY <1>7
  <2> HIDE DEF left2, worth2
  <2>5. /\ GrossExposure(account') * Frac <= Equity(account') * MaxGross
        /\ account'.cash * Frac >= Equity(account') * CashReserve
    BY <1>11, <1>12, <2>4
  <2>6. \A s \in Symbols : /\ Magnitude(Notional(account', s)) * Frac <= Equity(account') * MaxPosition
                           /\ account'.qty[s] < 0 => AllowShorting
    <3>1. \A s \in Symbols : s = Instrument
      BY EngineAssumption
    <3>2. Magnitude(Notional(account', Instrument)) * Frac <= Equity(account') * MaxPosition
      BY <1>11, <1>12
    <3>3. QED  BY <2>3, <3>1, <3>2
  <2>7. QED  BY <2>1, <2>2, <2>5, <2>6 DEF WithinLimits
<1>14. Compliant(o, at, o.authorizedAt, account, account')
  BY <1>1, <1>2, <1>4, <1>5, <1>6, <1>7, <1>13, Rates DEF Compliant, NewQuantity
<1>15. QED  BY <1>14 DEF FillQueued

LEMMA ValuedKept ==
  ASSUME EngineInv, [Next]_vars, ValuedInv
  PROVE  ValuedInv'
<1>1. CASE MarkAccount
  <2>1. delay \in Delays /\ now \in EventTimes /\ account \in AccountType
    BY DEF EngineInv, TypeOK
  <2>2. now \in Nat /\ mark' \in MarkType /\ account' = AfterMark(account, MarksOf(account, mark'), now)
    BY <1>1, <2>1, Events, MarkingSucceeds
  <2>3. account'.qty = account.qty
        /\ (account.qty[Instrument] # 0 => account'.mark[Instrument] = mark'.price)
    BY <2>1, <2>2, Marked
  <2>4. QED  BY <2>3 DEF ValuedInv
<1>2. CASE phase' # "deciding"
  BY <1>2 DEF ValuedInv
<1>3. CASE account' = account /\ mark' = mark /\ phase' = "deciding" /\ phase = "deciding"
  BY <1>3 DEF ValuedInv
<1>4. QED
  <2>1. CASE \E d \in Decisions : Decide(d)
    BY <1>2, <2>1, Decided, EventEnds DEF Decide, EndEvent
  <2>2. CASE SkipDecision
    BY <1>2, <2>2 DEF SkipDecision, EndEvent
  <2>3. CASE UNCHANGED vars
    BY <2>3 DEF vars, ValuedInv
  <2>4. QED
    BY <1>1, <1>2, <2>1, <2>2, <2>3 DEF Next, Cancel, PassOpening, RejectQueued, FillQueued

LEMMA AffordableKept ==
  ASSUME EngineInv, ~AllowShorting, LongOnlyInv, ValuedInv, AffordableInv, [Next]_vars
  PROVE  AffordableInv'
<1>1. ASSUME NEW p \in Prices, FillQueued(p) PROVE AffordableInv'
  BY <1>1 DEF FillQueued, AffordableInv
<1>2. ASSUME NEW d \in Decisions, Decide(d) PROVE AffordableInv'
  <2>1. account' = account /\ phase = "deciding"
    BY <1>2 DEF Decide
  <2>2. CASE pending' # pending
    BY <1>2, <2>1, <2>2, QueuedPurchaseIsAffordable DEF AffordableInv
  <2>3. CASE pending' = pending /\ sizedAt' = sizedAt
    BY <2>1, <2>3 DEF AffordableInv
  <2>4. CASE pending' = pending /\ sizedAt' # sizedAt
    <3>1. pending' # None /\ pending'.authorizedAt = now
      BY <1>2, <2>4, Decided, OfferFields
    <3>2. pending.authorizedAt < now /\ now \in Nat
      BY <1>2, <2>1, <2>4, <3>1, Decided DEF EngineInv, QueueInv, Running
    <3>3. QED  BY <2>4, <3>1, <3>2
  <2>5. QED  BY <2>2, <2>3, <2>4
<1>3. ASSUME MarkAccount PROVE AffordableInv'
  <2>1. delay \in Delays /\ now \in EventTimes /\ account \in AccountType
    BY DEF EngineInv, TypeOK
  <2>2. account'.qty = account.qty /\ account'.cash = account.cash
    BY <1>3, <2>1, Events, MarkingSucceeds, Marked
  <2>3. pending' = pending /\ sizedAt' = sizedAt /\ phase = "marking"
    BY <1>3 DEF MarkAccount
  <2>4. QED  BY <2>2, <2>3 DEF AffordableInv
<1>4. ASSUME \/ Cancel \/ PassOpening \/ SkipDecision \/ UNCHANGED vars
      PROVE  AffordableInv'
  <2>1. account' = account /\ pending' = pending /\ sizedAt' = sizedAt
    BY <1>4 DEF vars, Cancel, PassOpening, SkipDecision
  <2>2. phase' # "raised: reconciliation" => phase # "raised: reconciliation"
    BY <1>4 DEF vars, Cancel, PassOpening, SkipDecision
  <2>3. QED  BY <2>1, <2>2 DEF AffordableInv
<1>5. ASSUME NEW p \in Prices, RejectQueued(p) PROVE AffordableInv'
  BY <1>5 DEF RejectQueued, AffordableInv
<1>6. QED  BY <1>1, <1>2, <1>3, <1>4, <1>5 DEF Next

LEMMA SolvencyInvariant == Spec => [](ValuedInv /\ SolvencyInv)
<1>1. Init => ValuedInv /\ SolvencyInv
  BY EngineAssumption
  DEF Init, ValuedInv, SolvencyInv, LongOnlyInv, AffordableInv, OpenAccount
<1>2. EngineInv /\ ValuedInv /\ SolvencyInv /\ [Next]_vars => (ValuedInv /\ SolvencyInv)'
  BY ValuedKept, LongOnlyKept, AffordableKept DEF SolvencyInv
<1>3. QED  BY <1>1, <1>2, EngineInvariant, PTL DEF Spec

(***************************************************************************)
(* With shorting disabled the account is never short and never overdrawn,  *)
(* whatever the market does, and a queued sale never exceeds the position  *)
(* that it will meet.                                                      *)
(***************************************************************************)
THEOREM LongOnlyAccountsAreSolvent == Spec => []LongOnlyStaysSolvent
<1>1. EngineInv /\ SolvencyInv => LongOnlyStaysSolvent
  <2> SUFFICES ASSUME EngineInv, LongOnlyInv, ~AllowShorting
               PROVE  /\ account.qty[Instrument] >= 0
                      /\ account.cash >= 0
                      /\ pending # None /\ pending.side = "sell" => pending.qty <= account.qty[Instrument]
    BY DEF SolvencyInv, LongOnlyStaysSolvent
  <2>1. account.qty[Instrument] >= 0 /\ account.cash >= 0
    BY DEF LongOnlyInv
  <2>2. ASSUME pending # None, pending.side = "sell"
        PROVE  pending.qty <= account.qty[Instrument]
    <3>1. pending \in Order(0 .. End) /\ account \in AccountType
      BY <2>2 DEF EngineInv, TypeOK
    <3>2. StrictlyReduces(account.qty[Instrument], NewQuantity(account, pending))
      BY <2>2 DEF EngineInv, QueueInv, LongOnlyInv
    <3>3. NewQuantity(account, pending) >= 0
      BY <2>1, <3>1, <3>2, ReductionsSell
    <3>4. /\ account.qty[Instrument] \in Int /\ pending.qty \in Nat
          /\ NewQuantity(account, pending) = account.qty[Instrument] - pending.qty
      BY <2>2, <3>1, QuantityAfter, OrderFields
    <3>5. QED  BY <3>3, <3>4
  <2>3. QED  BY <2>1, <2>2
<1>2. QED  BY <1>1, EngineInvariant, SolvencyInvariant, PTL

(***************************************************************************)
(* With shorting disabled, the limits that evaluate checks at the worst    *)
(* authorized price are enough for reconcile at any price the adapter      *)
(* fills at, for a position valued at the price its order was sized with:  *)
(* the assertion at the raise of run can only fail after a difference      *)
(* between the mark and the last close.                                    *)
(***************************************************************************)
THEOREM ConsistentFillsReconcile == Spec => []ConsistentlyPricedFillsReconcile
<1>1. Init => ConsistentlyPricedFillsReconcile
  BY DEF Init, ConsistentlyPricedFillsReconcile
<1>2. ASSUME EngineInv, SolvencyInv, ConsistentlyPricedFillsReconcile, [Next]_vars
      PROVE  ConsistentlyPricedFillsReconcile'
  <2> SUFFICES ASSUME ~AllowShorting, phase' = "raised: reconciliation"
               PROVE  sizedAt' # pending'.ref
    BY DEF ConsistentlyPricedFillsReconcile
  <2>1. ASSUME NEW p \in Prices, FillQueued(p) PROVE sizedAt' # pending'.ref
    <3>1. pending # None /\ pending' = pending /\ sizedAt' = sizedAt /\ phase = "opening"
      BY <2>1 DEF FillQueued, MeetsOpening
    <3>2. pending \in Order(0 .. End) /\ pending.side \in {"buy", "sell"}
      BY <1>2, <3>1, OrderFields DEF EngineInv, TypeOK
    <3>3. ~pending.reduceOnly
      BY <1>2, <2>1, ReductionsReconcile
    <3>4. pending.side = "buy"
      BY <1>2, <3>1, <3>2, <3>3 DEF SolvencyInv, LongOnlyInv
    <3>5. ~Affordable(pending, account.cash, account.qty[Instrument])
      BY <1>2, <2>1, <3>4, AffordablePurchasesReconcile DEF SolvencyInv
    <3>6. QED  BY <1>2, <3>1, <3>4, <3>5 DEF SolvencyInv, AffordableInv
  <2>2. CASE UNCHANGED vars
    BY <1>2, <2>2 DEF vars, ConsistentlyPricedFillsReconcile
  <2>3. ~(Cancel \/ PassOpening \/ (\E p \in Prices : RejectQueued(p)) \/ MarkAccount \/ SkipDecision
          \/ \E d \in Decisions : Decide(d))
    BY DEF Cancel, PassOpening, RejectQueued, MarkAccount, SkipDecision, Decide, EndEvent
  <2>4. QED  BY <1>2, <2>1, <2>2, <2>3 DEF Next
<1>3. QED  BY <1>1, <1>2, EngineInvariant, SolvencyInvariant, PTL DEF Spec

-----------------------------------------------------------------------------
(* Where every bar is available as it ends, every event is an opening.     *)

LEMMA EventsAreOpenings ==
  ASSUME MaxDelay = 0, delay \in Delays, now \in EventTimes
  PROVE  IsOpening(now)
<1>1. CASE \E b \in Bars : now = OpensAt(b)
  BY <1>1 DEF IsOpening
<1>2. CASE \E b \in Bars : now = AvailableAt(b) /\ AvailableAt(b) <= End
  <2>1. PICK b \in Bars : now = AvailableAt(b) /\ AvailableAt(b) <= End
    BY <1>2
  <2>2. delay[b] = 0
    BY DEF Delays
  <2>3. AvailableAt(b) = ClosesAt(b) /\ ClosesAt(b) \in Nat
    BY <2>2, BarTimes DEF AvailableAt
  <2>4. b + 1 \in Bars /\ ClosesAt(b) = OpensAt(b + 1)
    BY <2>1, <2>3, BarTimes, Events
  <2>5. QED  BY <2>1, <2>3, <2>4 DEF IsOpening
<1>3. QED  BY <1>1, <1>2 DEF EventTimes

LEMMA SettleKept ==
  ASSUME MaxDelay = 0, EngineInv, SettleInv, [Next]_vars
  PROVE  SettleInv'
<1> DEFINE Owes(t) == lifecycle[t] = "queued"
<1>1. /\ \A t \in 0 .. End : Owes(t) => pending # None /\ pending.id = t /\ phase # "completed"
      /\ delay \in Delays /\ now \in EventTimes /\ now \in 0 .. End
      /\ DOMAIN lifecycle = 0 .. End
  BY Events DEF SettleInv, EngineInv, TypeOK
<1>2. ASSUME NEW p \in Prices, RejectQueued(p) \/ FillQueued(p) PROVE SettleInv'
  <2>1. PICK status \in {"filled", "rejected"} : lifecycle' = [lifecycle EXCEPT ![pending.id] = status]
    BY <1>2 DEF RejectQueued, FillQueued
  <2>2. \A t \in 0 .. End : lifecycle'[t] # "queued"
    BY <1>1, <2>1
  <2>3. QED  BY <2>2 DEF SettleInv
<1>3. ASSUME NEW d \in Decisions, Decide(d) PROVE SettleInv'
  <2>1. pending = None
    BY <1>1, <1>3, EventsAreOpenings DEF EngineInv, QueueInv, Decide
  <2>2. \A t \in 0 .. End : lifecycle[t] # "queued"
    BY <1>1, <2>1
  <2>3. CASE UNCHANGED <<pending, lifecycle, sizedAt>>
    BY <2>2, <2>3 DEF SettleInv
  <2>4. CASE /\ pending' = Offer(d) /\ pending' # None
             /\ lifecycle' = [lifecycle EXCEPT ![now] = "queued"]
    <3>1. pending'.id = now
      BY <2>4, OfferFields
    <3>2. phase' # "completed"
      <4>1. EndEvent(pending') /\ phase = "deciding" /\ delay' = delay /\ now < End
        BY <1>3, Decided
      <4>2. phase' = "completed" => pending' = None
        BY <4>1, EventEnds
      <4>3. QED  BY <2>4, <4>2
    <3>3. \A t \in 0 .. End : lifecycle'[t] = "queued" => t = now
      BY <1>1, <2>2, <2>4
    <3>4. QED  BY <2>4, <3>1, <3>2, <3>3 DEF SettleInv
  <2>5. QED  BY <1>3, <2>3, <2>4, Decided
<1>4. ASSUME SkipDecision PROVE SettleInv'
  <2>1. /\ EndEvent(pending) /\ phase = "deciding" /\ delay' = delay
        /\ pending' = pending /\ lifecycle' = lifecycle
    BY <1>4 DEF SkipDecision
  <2>2. phase' = "completed" => pending = None
    BY <2>1, EventEnds
  <2>3. QED  BY <1>1, <2>1, <2>2 DEF SettleInv
<1>5. ASSUME \/ Cancel \/ PassOpening \/ MarkAccount \/ UNCHANGED vars
      PROVE  SettleInv'
  <2>1. pending' = pending /\ lifecycle' = lifecycle
        /\ (phase' # "completed" \/ phase' = phase)
    BY <1>5 DEF vars, Cancel, PassOpening, MarkAccount
  <2>2. QED  BY <1>1, <2>1 DEF SettleInv
<1>6. QED  BY <1>2, <1>3, <1>4, <1>5 DEF Next

(***************************************************************************)
(* Where every bar is available as it ends, no order is forgotten: in a    *)
(* run that completes, every order that was queued has been filled or      *)
(* rejected.  With later bars run replaces queued orders, and this is not  *)
(* so.                                                                     *)
(***************************************************************************)
THEOREM PromptOrdersSettle ==
  ASSUME MaxDelay = 0
  PROVE  Spec => []QueuedOrdersSettle
<1>1. Init => SettleInv
  BY DEF Init, SettleInv
<1>2. EngineInv /\ SettleInv /\ [Next]_vars => SettleInv'
  BY SettleKept
<1>3. EngineInv /\ SettleInv => QueuedOrdersSettle
  BY DEF EngineInv, TypeOK, SettleInv, QueuedOrdersSettle
<1>4. QED  BY <1>1, <1>2, <1>3, EngineInvariant, PTL DEF Spec

-----------------------------------------------------------------------------
(* What becomes of an approval.                                            *)

LEMMA ReplacedStays ==
  ASSUME DOMAIN lifecycle' = DOMAIN lifecycle,
         \A u \in DOMAIN lifecycle : lifecycle[u] # "none" => lifecycle'[u] # "none",
         NEW t, Replaced(t)
  PROVE  Replaced(t)'
BY DEF Replaced

LEMMA SettlingKeepsNewest ==
  ASSUME EngineInv, NewestInv, NEW p \in Prices, RejectQueued(p) \/ FillQueued(p)
  PROVE  NewestInv'
<1> DEFINE id == pending.id
<1>1. PICK status \in {"filled", "rejected"} : lifecycle' = [lifecycle EXCEPT ![id] = status]
  BY DEF RejectQueued, FillQueued
<1>2. /\ phase = "opening" /\ Running /\ pending # None /\ IsOpening(now) /\ now' = now
      /\ pending' = None \/ (pending' = pending /\ ~Running')
  BY DEF RejectQueued, FillQueued, MeetsOpening, Running
<1>3. /\ lifecycle \in [0 .. End -> {"none", "queued", "filled", "rejected"}]
      /\ pending \in Order(0 .. End) /\ delay \in Delays /\ now \in EventTimes
  BY <1>2 DEF EngineInv, TypeOK
<1>4. id \in 0 .. End /\ lifecycle[id] = "queued" /\ id < now /\ now \in Nat
  BY <1>2, <1>3, OrderFields, Events DEF EngineInv, QueueInv, NewestInv
<1> HIDE DEF id
<1>5. /\ lifecycle'[id] = status
      /\ \A u \in 0 .. End : u # id => lifecycle'[u] = lifecycle[u]
      /\ \A u \in 0 .. End : lifecycle'[u] # "none" <=> lifecycle[u] # "none"
      /\ DOMAIN lifecycle' = 0 .. End /\ DOMAIN lifecycle = 0 .. End
  BY <1>1, <1>3, <1>4
<1>6. \A u \in 0 .. End : lifecycle'[u] # "none" =>
        /\ Running' => u < now'
        /\ pending' # None => u <= pending'.id
  BY <1>2, <1>5 DEF NewestInv
<1>7. ~(pending' # None /\ Running')
  BY <1>2
<1>8. ASSUME NEW t \in 0 .. End, lifecycle'[t] \in {"filled", "rejected"}
      PROVE  \E b \in Bars :
               /\ t < OpensAt(b) /\ OpensAt(b) <= now'
               /\ \A u \in 0 .. End : lifecycle'[u] # "none" /\ t < u => OpensAt(b) <= u
  <2>1. CASE t = id
    <3>1. PICK b \in Bars : OpensAt(b) = now
      BY <1>2 DEF IsOpening
    <3>2. \A u \in 0 .. End : lifecycle[u] # "none" => u <= id
      BY <1>2 DEF NewestInv, id
    <3>3. \A u \in 0 .. End : ~(lifecycle'[u] # "none" /\ t < u)
      BY <1>4, <1>5, <2>1, <3>2
    <3>4. QED  BY <1>2, <1>4, <2>1, <3>1, <3>3
  <2>2. CASE t # id
    BY <1>2, <1>5, <1>8, <2>2 DEF NewestInv
  <2>3. QED  BY <2>1, <2>2
<1>9. ASSUME NEW t \in 0 .. End, lifecycle'[t] = "queued" PROVE Replaced(t)'
  <2>1. t # id /\ lifecycle[t] = "queued"
    BY <1>5, <1>9
  <2>2. Replaced(t)
    BY <2>1 DEF NewestInv, id
  <2>3. QED  BY <1>5, <2>2, ReplacedStays
<1>10. QED  BY <1>6, <1>7, <1>8, <1>9 DEF NewestInv

LEMMA DecidingKeepsNewest ==
  ASSUME EngineInv, NewestInv, NEW d \in Decisions, Decide(d)
  PROVE  NewestInv'
<1>1. /\ phase = "deciding" /\ Running /\ now \in 0 .. End /\ delay' = delay
      /\ EndEvent(pending') /\ now < End
  BY Decided, Events DEF Running
<1>2. /\ lifecycle \in [0 .. End -> {"none", "queued", "filled", "rejected"}]
      /\ delay \in Delays
  BY DEF EngineInv, TypeOK
<1>3. now <= now' /\ now' \in Nat /\ (Running' => now < now')
  BY <1>1, <1>2, EventEnds, Events DEF Running
<1>4. CASE UNCHANGED <<pending, lifecycle, sizedAt>>
  <2>1. \A t \in 0 .. End : Replaced(t) => Replaced(t)'
    BY <1>4, ReplacedStays
  <2>2. \A b \in Bars : OpensAt(b) \in Nat
    BY <1>2, BarTimes
  <2>3. QED  BY <1>1, <1>3, <1>4, <2>1, <2>2 DEF NewestInv
<1>5. CASE /\ pending' = Offer(d) /\ pending' # None
           /\ lifecycle' = [lifecycle EXCEPT ![now] = "queued"]
  <2>1. pending'.id = now
    BY <1>5, OfferFields
  <2>2. /\ lifecycle'[now] = "queued"
        /\ \A u \in 0 .. End : u # now => lifecycle'[u] = lifecycle[u]
        /\ DOMAIN lifecycle' = 0 .. End /\ DOMAIN lifecycle = 0 .. End
    BY <1>1, <1>2, <1>5
  <2>3. \A u \in 0 .. End : lifecycle[u] # "none" => u < now
    BY <1>1 DEF NewestInv
  <2>4. \A u \in 0 .. End : lifecycle'[u] # "none" =>
          /\ Running' => u < now'
          /\ u <= pending'.id
    BY <1>1, <1>3, <2>1, <2>2, <2>3
  <2>5. ASSUME NEW t \in 0 .. End, lifecycle'[t] \in {"filled", "rejected"}
        PROVE  \E b \in Bars :
                 /\ t < OpensAt(b) /\ OpensAt(b) <= now'
                 /\ \A u \in 0 .. End : lifecycle'[u] # "none" /\ t < u => OpensAt(b) <= u
    <3>1. lifecycle[t] \in {"filled", "rejected"}
      BY <2>2, <2>5
    <3>2. PICK b \in Bars :
            /\ t < OpensAt(b) /\ OpensAt(b) <= now
            /\ \A u \in 0 .. End : lifecycle[u] # "none" /\ t < u => OpensAt(b) <= u
      BY <3>1 DEF NewestInv
    <3>3. OpensAt(b) \in Nat
      BY <1>2, BarTimes
    <3>4. \A u \in 0 .. End : lifecycle'[u] # "none" /\ t < u => OpensAt(b) <= u
      BY <2>2, <3>2
    <3>5. QED  BY <1>1, <1>3, <3>2, <3>3, <3>4
  <2>6. ASSUME NEW t \in 0 .. End, lifecycle'[t] = "queued"
        PROVE  Replaced(t)' \/ pending'.id = t
    <3>1. CASE t = now
      BY <2>1, <3>1
    <3>2. CASE t # now
      <4>1. lifecycle[t] = "queued"
        BY <2>2, <2>6, <3>2
      <4>2. CASE Replaced(t)
        <5>1. \A u \in DOMAIN lifecycle : lifecycle[u] # "none" => lifecycle'[u] # "none"
          BY <2>2
        <5>2. QED  BY <2>2, <4>2, <5>1, ReplacedStays
      <4>3. CASE pending # None /\ pending.id = t
        <5>1. t < now /\ NoOpeningWithin(t, now) /\ ~IsOpening(now)
          BY <1>1, <4>3 DEF EngineInv, QueueInv
        <5>2. \A b \in Bars : OpensAt(b) \in Nat /\ OpensAt(b) # now
          BY <1>2, <5>1, BarTimes DEF IsOpening
        <5>3. \A b \in Bars : ~(t < OpensAt(b) /\ OpensAt(b) <= now)
          BY <1>1, <5>1, <5>2 DEF NoOpeningWithin
        <5>4. QED  BY <1>1, <2>2, <5>1, <5>3 DEF Replaced
      <4>4. QED  BY <4>1, <4>2, <4>3 DEF NewestInv
    <3>3. QED  BY <3>1, <3>2
  <2>7. QED  BY <1>5, <2>1, <2>2, <2>4, <2>5, <2>6 DEF NewestInv
<1>6. QED  BY <1>4, <1>5, Decided

LEMMA NewestKept ==
  ASSUME EngineInv, NewestInv, [Next]_vars
  PROVE  NewestInv'
<1>1. ASSUME NEW p \in Prices, RejectQueued(p) \/ FillQueued(p) PROVE NewestInv'
  BY <1>1, SettlingKeepsNewest
<1>2. ASSUME NEW d \in Decisions, Decide(d) PROVE NewestInv'
  BY <1>2, DecidingKeepsNewest
<1>3. CASE SkipDecision \/ Cancel \/ PassOpening \/ MarkAccount \/ UNCHANGED vars
  <2>1. pending' = pending /\ lifecycle' = lifecycle /\ (Running' => Running)
    BY <1>3 DEF vars, SkipDecision, Cancel, PassOpening, MarkAccount, Running
  <2>2. delay \in Delays /\ now \in Nat /\ EventTimes \subseteq Nat
    <3>1. delay \in Delays /\ now \in EventTimes
      BY DEF EngineInv, TypeOK
    <3>2. QED  BY <3>1, Events
  <2>3. now <= now' /\ now' \in Nat
    <3>1. CASE SkipDecision
      <4>1. EndEvent(pending) /\ phase = "deciding" /\ delay' = delay
        BY <3>1 DEF SkipDecision
      <4>2. now <= now' /\ now' \in EventTimes
        BY <4>1, EventEnds
      <4>3. QED  BY <2>2, <4>2
    <3>2. CASE now' = now
      BY <2>2, <3>2
    <3>3. QED  BY <1>3, <3>1, <3>2 DEF vars, Cancel, PassOpening, MarkAccount
  <2>4. \A t \in 0 .. End : Replaced(t) => Replaced(t)'
    BY <2>1, ReplacedStays
  <2>5. \A b \in Bars : OpensAt(b) \in Nat
    BY <2>2, BarTimes
  <2>6. QED  BY <2>1, <2>2, <2>3, <2>4, <2>5 DEF NewestInv
<1>4. QED  BY <1>1, <1>2, <1>3 DEF Next

(***************************************************************************)
(* However late the bars, of the approvals between two openings the newest *)
(* one alone meets the next opening, and no approval goes without an       *)
(* outcome unless a newer one has taken its place (run's queue).           *)
(***************************************************************************)
THEOREM NewestApprovalsSettle == Spec => []NewestApprovalSettles
<1>1. Init => NewestInv
  <2> SUFFICES ASSUME Init PROVE NewestInv
    OBVIOUS
  <2>1. pending = None /\ \A t \in 0 .. End : lifecycle[t] = "none"
    BY DEF Init
  <2>2. QED  BY <2>1 DEF NewestInv
<1>2. EngineInv /\ NewestInv /\ [Next]_vars => NewestInv'
  BY NewestKept
<1>3. EngineInv /\ NewestInv => NewestApprovalSettles
  <2> SUFFICES ASSUME EngineInv, NewestInv PROVE NewestApprovalSettles
    OBVIOUS
  <2>1. DOMAIN lifecycle = 0 .. End /\ delay \in Delays
    BY DEF EngineInv, TypeOK
  <2>2. ASSUME NEW t \in 0 .. End, lifecycle[t] \in {"filled", "rejected"} PROVE ~Replaced(t)
    <3>1. PICK b \in Bars :
            /\ t < OpensAt(b)
            /\ \A u \in 0 .. End : lifecycle[u] # "none" /\ t < u => OpensAt(b) <= u
      BY <2>2 DEF NewestInv
    <3>2. QED  BY <2>1, <3>1 DEF Replaced
  <2>3. QED  BY <2>1, <2>2 DEF NewestInv, NewestApprovalSettles
<1>4. QED  BY <1>1, <1>2, <1>3, EngineInvariant, PTL DEF Spec

-----------------------------------------------------------------------------
(* The way out of a position.                                              *)

\* Rates the policy allows, and prices at which an order of the largest notional
\* is a lot at least.
Tradable ==
  /\ FeeBps <= MaxFeeBps /\ SlippageBps <= MaxSlippageBps /\ SlippageBps < Bps
  /\ \A p \in Prices : p * Unit <= MaxOrderNotional

LEMMA FlatteningIsApproved ==
  ASSUME Tradable, EngineInv, ValuedInv, NEW d \in Decisions, Flattens(d), mark.price = snap.price
  PROVE  /\ Approves(d, snap, account, Instrument, now)
         /\ ProposedOrder(d, snap, account, Instrument, now).reduceOnly
<1> DEFINE o == Offer(d)
           q == account.qty[Instrument]
           worth == snap.price * Unit
<1>1. /\ phase = "deciding" /\ snap # None /\ d.target = 0 /\ d.action # "none"
      /\ Held(account) # {} /\ ~CausalVeto(d, snap, account, now)
  BY DEF Flattens, DecisionDue
<1>2. delay \in Delays /\ now \in EventTimes /\ account \in AccountType /\ snap \in SnapshotType
  BY <1>1 DEF EngineInv, TypeOK, SnapshotType
<1>3. Instrument \in Held(account) /\ q \in Int /\ q # 0
  BY <1>1, <1>2, EngineAssumption DEF Held, AccountType
<1>4. Notional(account, Instrument) = q * worth
  <2>1. account.mark[Instrument] = snap.price
    BY <1>1, <1>3 DEF ValuedInv
  <2>2. QED  BY <1>2, <2>1, Values
<1>5. worth \in Nat /\ worth > 0 /\ worth <= MaxOrderNotional /\ MaxOrderNotional \in Nat
  <2>1. snap.price \in Prices
    BY <1>2 DEF SnapshotType
  <2>2. QED  BY <1>2, <2>1, Sized, PolicyAssumption DEF Tradable
<1>6. TargetNotional(d, account) = 0
  <2>1. Equity(account) \in Int /\ MaxPosition \in Nat /\ Frac \in Nat /\ Frac > 0
    BY <1>2, Values, PolicyAssumption
  <2>2. d.target * Equity(account) * MaxPosition = 0 /\ Frac * Frac \in Nat /\ Frac * Frac > 0
    BY <1>1, <2>1
  <2>3. QED  BY <2>2 DEF TargetNotional
<1> DEFINE m == Magnitude(q)
<1>7. m \in Nat /\ m > 0 /\ (q >= 0 => m = q) /\ (q < 0 => m = -q)
  BY <1>3, MagnitudeOf
<1> HIDE DEF worth, m
<1>8. /\ DeltaNotional(d, account, Instrument) = -(q * worth) /\ q * worth \in Int
      /\ Magnitude(q * worth) = m * worth /\ Magnitude(-(q * worth)) = m * worth
      /\ m * worth \in Nat
      /\ DeltaNotional(d, account, Instrument) > 0 <=> q < 0
  <2>1. q * worth \in Int /\ m * worth \in Nat
        /\ (q > 0 => q * worth > 0) /\ (q < 0 => (-q) * worth > 0 /\ (-q) * worth = -(q * worth))
    BY <1>3, <1>5, <1>7
  <2>2. DeltaNotional(d, account, Instrument) = -(q * worth)
    BY <1>4, <1>6, <2>1 DEF DeltaNotional
  <2>3. CASE q > 0
    <3>1. q * worth = m * worth
      BY <1>3, <1>7, <2>3
    <3>2. QED  BY <1>3, <2>1, <2>2, <2>3, <3>1, MagnitudeOf
  <2>4. CASE q < 0
    <3>1. -(q * worth) = m * worth
      BY <1>7, <2>1, <2>4
    <3>2. q * worth < 0
      BY <2>1, <2>4
    <3>3. -(q * worth) \in Int
      BY <2>1
    <3>4. QED  BY <1>3, <2>1, <2>2, <2>4, <3>1, <3>2, <3>3, MagnitudeOf
  <2>5. QED  BY <1>3, <2>3, <2>4
<1>9. o.qty \in Nat /\ o.qty > 0 /\ o.qty <= m
  <2>1. o.qty = Quantity(d, snap, account, Instrument) /\ o.qty \in Nat
    BY <1>2, OfferFields, Sized
  <2>2. CASE Flattening(d, account, Instrument)
    BY <1>7, <2>1, <2>2 DEF Quantity, m
  <2>3. CASE ~Flattening(d, account, Instrument)
    <3>1. ~(m * worth <= MaxOrderNotional)
      BY <1>3, <1>4, <1>6, <1>8, <2>3 DEF Flattening
    <3>2. o.qty = Min({m * worth, MaxOrderNotional}) \div worth
      BY <1>8, <2>1, <2>3 DEF Quantity, worth
    <3>3. Min({m * worth, MaxOrderNotional}) = MaxOrderNotional
      <4> DEFINE x == m * worth
      <4>1. x \in Int /\ MaxOrderNotional \in Int /\ ~(x <= MaxOrderNotional)
        BY <1>5, <1>8, <3>1
      <4> HIDE DEF x
      <4>2. Min({x, MaxOrderNotional}) \in {x, MaxOrderNotional} /\ Min({x, MaxOrderNotional}) <= MaxOrderNotional
        BY <4>1, LeastOfTwo
      <4>3. Min({x, MaxOrderNotional}) = MaxOrderNotional
        BY <4>1, <4>2
      <4>4. QED  BY <4>3 DEF x
    <3>4. o.qty * worth <= MaxOrderNotional /\ o.qty > 0
      <4>1. MaxOrderNotional \div worth > 0 /\ (MaxOrderNotional \div worth) * worth <= MaxOrderNotional
        BY <1>5
      <4>2. QED  BY <3>2, <3>3, <4>1
    <3>5. o.qty <= m
      <4> SUFFICES ASSUME m <= o.qty PROVE FALSE
        BY <1>7, <2>1
      <4>1. m * worth <= o.qty * worth /\ o.qty * worth \in Nat
        BY <1>5, <1>7, <2>1, Products
      <4>2. QED  BY <1>5, <1>8, <3>1, <3>4, <4>1
    <3>6. QED  BY <2>1, <3>4, <3>5
  <2>4. QED  BY <2>2, <2>3
<1>10. /\ o \in Order(0 .. End)
       /\ o.reduceOnly = StrictlyReduces(q, NewQuantity(account, o))
  BY <1>2, <1>9, OfferFields, OfferIsOrder
<1>11. o.side = IF q < 0 THEN "buy" ELSE "sell"
  BY <1>8, OfferFields
<1>12. StrictlyReduces(q, NewQuantity(account, o))
  <2>1. NewQuantity(account, o) = IF q < 0 THEN q + o.qty ELSE q - o.qty
    BY <1>2, <1>10, <1>11, QuantityAfter
  <2>2. QED  BY <1>3, <1>7, <1>9, <2>1 DEF StrictlyReduces, Magnitude
<1>13. FillPrice(o, o.ref) > 0
  <2>1. o.ref \in Nat /\ o.ref > 0 /\ o.side \in {"buy", "sell"}
    BY <1>10, OrderFields
  <2>2. Bps + Direction(o) * SlippageBps \in Nat /\ Bps + Direction(o) * SlippageBps > 0
    BY <2>1, Rates DEF Direction, Tradable
  <2>3. QED  BY <2>1, <2>2 DEF FillPrice
<1>14. QED
  BY <1>1, <1>9, <1>10, <1>12, <1>13 DEF Approves, Offer, Tradable

(***************************************************************************)
(* An open position can always be reduced: a sound, fresh decision to hold *)
(* nothing is approved and gives a reduction, whatever the restrictions    *)
(* and the limits, for a position valued at the price its order is sized   *)
(* with, rates within the policy, and a largest order of a lot at least.   *)
(***************************************************************************)
THEOREM ConsistentExposureIsNeverTrapped ==
  ASSUME Tradable
  PROVE  Spec => []ConsistentlyPricedExposureIsNeverTrapped
<1>1. EngineInv /\ ValuedInv => ConsistentlyPricedExposureIsNeverTrapped
  BY FlatteningIsApproved DEF ConsistentlyPricedExposureIsNeverTrapped
<1>2. QED  BY <1>1, EngineInvariant, SolvencyInvariant, PTL
=============================================================================
