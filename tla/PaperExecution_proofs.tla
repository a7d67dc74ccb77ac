------------------------ MODULE PaperExecution_proofs ------------------------
(***************************************************************************)
(* The safety of the paper adapter for every set of orders, symbols,       *)
(* prices and instants, and every rate.                                    *)
(***************************************************************************)
EXTENDS PaperExecution, NaturalsInduction, WellFoundedInduction, TLAPS

(***************************************************************************)
(* A cash change is an integer, whatever the side.                         *)
(***************************************************************************)
LEMMA CashChangeInt ==
  ASSUME NEW o \in Orders, NEW p \in Prices
  PROVE  CashChange(o, p) \in Int
<1>1. /\ o.qty \in Int
      /\ o.side \in {"buy", "sell"}
      /\ p \in Int
      /\ Bps \in Int /\ SlippageBps \in Int /\ FeeBps \in Int
  BY OrderAssumption, CostAssumption DEF Order
<1>2. Direction(o) \in Int
  BY DEF Direction
<1>3. FillPrice(o, p) \in Int
  <2>1. Direction(o) * SlippageBps \in Int
    BY <1>1, <1>2
  <2>2. Bps + Direction(o) * SlippageBps \in Int
    BY <1>1, <2>1
  <2>3. QED
    BY <1>1, <2>2 DEF FillPrice
<1>4. o.qty * FillPrice(o, p) \in Int
  BY <1>1, <1>3
<1>5. /\ o.qty * FillPrice(o, p) * (Bps + FeeBps) \in Int
      /\ o.qty * FillPrice(o, p) * (Bps - FeeBps) \in Int
  BY <1>1, <1>4
<1>6. QED
  BY <1>5 DEF CashChange

(***************************************************************************)
(* What a fill does to the account, field by field.                        *)
(***************************************************************************)
LEMMA AfterFillFields ==
  ASSUME NEW o \in Orders, NEW opening \in Openings, account \in AccountType
  PROVE  /\ AfterFill(account, o, opening) \in AccountType
         /\ AfterFill(account, o, opening).valuedAt = opening.openedAt
         /\ \A s \in Symbols \ {o.symbol} :
              /\ AfterFill(account, o, opening).qty[s] = account.qty[s]
              /\ AfterFill(account, o, opening).mark[s] = account.mark[s]
              /\ AfterFill(account, o, opening).markAt[s] = account.markAt[s]
         /\ AfterFill(account, o, opening).qty[o.symbol] # 0 =>
              /\ AfterFill(account, o, opening).mark[o.symbol] = opening.price
              /\ AfterFill(account, o, opening).markAt[o.symbol] = opening.observedAt
<1>1. /\ o.symbol \in Symbols
      /\ o.qty \in Int
      /\ opening.price \in Prices /\ opening.price \in Nat
      /\ opening.openedAt \in Nat /\ opening.observedAt \in Nat
  <2>1. o.symbol \in Symbols /\ o.qty \in Int
    BY OrderAssumption DEF Order
  <2>2. opening.price \in Prices /\ opening.openedAt \in Times /\ opening.observedAt \in Times
    BY DEF Openings
  <2>3. QED
    BY <2>1, <2>2, OrderAssumption
<1>2. CashChange(o, opening.price) \in Int
  BY <1>1, CashChangeInt
<1>3. Direction(o) * o.qty \in Int
  BY <1>1 DEF Direction
<1>4. NewQuantity(account, o) \in Int
  BY <1>1, <1>3 DEF NewQuantity, AccountType
<1>5. QED
  BY <1>1, <1>2, <1>4 DEF AfterFill, AccountType

(***************************************************************************)
(* What a mark does to the account.                                        *)
(***************************************************************************)
LEMMA AfterMarkFields ==
  ASSUME account \in AccountType,
         NEW marks \in [Held(account) -> [price: Prices, at: Times]], NEW at \in Times
  PROVE  /\ AfterMark(account, marks, at) \in AccountType
         /\ AfterMark(account, marks, at).cash = account.cash
         /\ AfterMark(account, marks, at).qty = account.qty
         /\ AfterMark(account, marks, at).valuedAt = at
         /\ \A s \in Held(account) :
              /\ AfterMark(account, marks, at).mark[s] = marks[s].price
              /\ AfterMark(account, marks, at).markAt[s] = marks[s].at
<1>1. \A s \in Held(account) : marks[s].price \in Nat /\ marks[s].at \in Nat
  BY OrderAssumption
<1>2. at \in Nat /\ Held(account) \subseteq Symbols
  BY OrderAssumption DEF Held
<1>3. QED
  BY <1>1, <1>2 DEF AfterMark, AccountType

(***************************************************************************)
(* What the checks made before any price is computed leave standing.       *)
(***************************************************************************)
LEMMA AcceptedOpening ==
  ASSUME NEW o \in Orders, NEW opening \in Openings, NEW submitted \in Times,
         account \in AccountType, ~Rejected(account, processed, o, opening, submitted)
  PROVE  /\ o.id \notin processed
         /\ opening.observedAt = opening.openedAt
         /\ opening.openedAt \in Times /\ opening.openedAt \in Nat
         /\ account.valuedAt \in Nat /\ account.valuedAt <= opening.openedAt
         /\ o.earliest \in Nat /\ o.earliest <= opening.openedAt
         /\ o.expires \in Nat /\ opening.openedAt <= o.expires
<1>1. /\ o.id \notin processed
      /\ opening.observedAt = opening.openedAt
      /\ ~(opening.openedAt < account.valuedAt)
      /\ ~(opening.openedAt < o.earliest)
      /\ ~(opening.openedAt > o.expires)
  BY DEF Rejected, CausallyRejected
<1>2. opening.openedAt \in Times /\ opening.openedAt \in Nat
  BY OrderAssumption DEF Openings
<1>3. account.valuedAt \in Nat
  BY DEF AccountType
<1>4. o.earliest \in Nat /\ o.expires \in Nat
  BY OrderAssumption DEF Order
<1>5. QED
  BY <1>1, <1>2, <1>3, <1>4

-----------------------------------------------------------------------------
(***************************************************************************)
(* The variables keep their types: no call, in whatever order, leaves an   *)
(* ill-formed account, set of processed ids or ledger behind.              *)
(***************************************************************************)
THEOREM PaperTypeOK == Spec => []TypeOK
<1>1. Init => TypeOK
  BY OrderAssumption
  DEF Init, TypeOK, OpenAccount, AccountType
<1>2. TypeOK /\ [Next]_vars => TypeOK'
  <2> SUFFICES ASSUME TypeOK, [Next]_vars
               PROVE  TypeOK'
    OBVIOUS
  <2>1. ASSUME NEW marks \in [Held(account) -> [price: Prices, at: Times]], NEW at \in Times,
               MarkToMarket(marks, at)
        PROVE  TypeOK'
    BY <2>1, AfterMarkFields DEF TypeOK, MarkToMarket
  <2>2. ASSUME NEW o \in Orders, NEW opening \in Openings, NEW submitted \in Times,
               FillOrder(o, opening, submitted)
        PROVE  TypeOK'
    <3>1. account' \in AccountType
      BY <2>2, AfterFillFields DEF TypeOK, FillOrder
    <3>2. processed' \subseteq Authorizations
      BY <2>2 DEF TypeOK, FillOrder, Authorizations
    <3>3. account.qty[o.symbol] \in Int
      BY OrderAssumption DEF TypeOK, AccountType, Order
    <3>4. [order |-> o, price |-> opening.price, at |-> opening.openedAt,
           before |-> account.qty[o.symbol]] \in FillType
      BY <3>3 DEF FillType, Openings
    <3>5. fills' \in Seq(FillType)
      BY <2>2, <3>4 DEF TypeOK, FillOrder
    <3>6. QED
      BY <2>2, <3>1, <3>2, <3>5 DEF TypeOK, FillOrder
  <2>3. ASSUME NEW o \in Orders, NEW opening \in Openings, NEW submitted \in Times,
               RejectOrder(o, opening, submitted)
        PROVE  TypeOK'
    BY <2>3 DEF TypeOK, RejectOrder
  <2>4. CASE UNCHANGED vars
    BY <2>4 DEF TypeOK, vars
  <2>5. QED
    BY <2>1, <2>2, <2>3, <2>4 DEF Next, Mark, Execute
<1>3. QED
  BY <1>1, <1>2, PTL DEF Spec

-----------------------------------------------------------------------------
(***************************************************************************)
(* No authorization is filled twice.  The check made by execute is on      *)
(* _processed, so the invariant must also say that _processed is the set   *)
(* of the ids in the ledger: that conjunct makes it inductive.             *)
(***************************************************************************)
THEOREM AuthorizationsFillOnce == Spec => []AtMostOneFillPerAuthorization
<1>1. Init => AtMostOneFillPerAuthorization
  BY DEF Init, AtMostOneFillPerAuthorization
<1>2. TypeOK /\ AtMostOneFillPerAuthorization /\ [Next]_vars
        => AtMostOneFillPerAuthorization'
  <2> SUFFICES ASSUME TypeOK, AtMostOneFillPerAuthorization, [Next]_vars
               PROVE  AtMostOneFillPerAuthorization'
    OBVIOUS
  <2>1. ASSUME NEW o \in Orders, NEW opening \in Openings, NEW submitted \in Times,
               FillOrder(o, opening, submitted)
        PROVE  AtMostOneFillPerAuthorization'
    <3> DEFINE f == [order |-> o, price |-> opening.price, at |-> opening.openedAt,
                     before |-> account.qty[o.symbol]]
               n == Len(fills)
    <3>1. fills' = Append(fills, f) /\ processed' = processed \cup {o.id}
      BY <2>1 DEF FillOrder
    <3>2. o.id \notin processed
      BY <2>1, AcceptedOpening DEF FillOrder, TypeOK
    <3>3. /\ fills \in Seq(FillType) /\ n \in Nat
          /\ DOMAIN fills = 1 .. n /\ DOMAIN fills' = 1 .. n + 1
          /\ \A i \in 1 .. n : fills'[i] = fills[i]
          /\ fills'[n + 1] = f
      BY <3>1 DEF TypeOK
    <3>4. f.order.id = o.id
      OBVIOUS
    <3> HIDE DEF f, n
    <3>5. processed' = {fills'[i].order.id : i \in DOMAIN fills'}
      BY <3>1, <3>3, <3>4 DEF AtMostOneFillPerAuthorization
    <3>6. ASSUME NEW i \in DOMAIN fills', NEW j \in DOMAIN fills',
                 fills'[i].order.id = fills'[j].order.id
          PROVE  i = j
      BY <3>2, <3>3, <3>4, <3>6 DEF AtMostOneFillPerAuthorization
    <3>7. QED
      BY <3>5, <3>6 DEF AtMostOneFillPerAuthorization
  <2>2. CASE UNCHANGED <<processed, fills>>
    BY <2>2 DEF AtMostOneFillPerAuthorization
  <2>3. QED
    BY <2>1, <2>2 DEF Next, Mark, Execute, MarkToMarket, RejectOrder, vars
<1>3. QED
  BY <1>1, <1>2, PaperTypeOK, PTL DEF Spec

-----------------------------------------------------------------------------
(***************************************************************************)
(* The ledger grows at its end only.                                       *)
(***************************************************************************)
LEMMA LedgerAppend ==
  ASSUME TypeOK, NEW f, fills' = Append(fills, f)
  PROVE  /\ Len(fills) \in Nat
         /\ DOMAIN fills = 1 .. Len(fills)
         /\ DOMAIN fills' = 1 .. Len(fills) + 1
         /\ \A i \in 1 .. Len(fills) : fills'[i] = fills[i]
         /\ fills'[Len(fills) + 1] = f
BY DEF TypeOK

(***************************************************************************)
(* The ledger is in time order and never ahead of the account's clock,     *)
(* which marks and fills of any symbol share.                              *)
(***************************************************************************)
THEOREM LedgerInTimeOrder == Spec => []FillsInTimeOrder
<1>1. Init => FillsInTimeOrder
  BY DEF Init, FillsInTimeOrder
<1>2. TypeOK /\ FillsInTimeOrder /\ [Next]_vars => FillsInTimeOrder'
  <2> SUFFICES ASSUME TypeOK, FillsInTimeOrder, [Next]_vars
               PROVE  FillsInTimeOrder'
    OBVIOUS
  <2>0. /\ account.valuedAt \in Nat
        /\ Times \subseteq Nat
        /\ \A i \in DOMAIN fills : fills[i].at \in Nat
    <3>1. account.valuedAt \in Nat /\ Times \subseteq Nat
      BY OrderAssumption DEF TypeOK, AccountType
    <3>2. \A i \in DOMAIN fills : fills[i] \in FillType
      BY DEF TypeOK
    <3>3. \A f \in FillType : f.at \in Times
      BY DEF FillType
    <3>4. QED
      BY <3>1, <3>2, <3>3
  <2>1. ASSUME NEW marks \in [Held(account) -> [price: Prices, at: Times]], NEW at \in Times,
               MarkToMarket(marks, at)
        PROVE  FillsInTimeOrder'
    <3>1. account'.valuedAt = at /\ fills' = fills
      BY <2>1, AfterMarkFields DEF MarkToMarket, TypeOK
    <3>2. account.valuedAt <= at
      BY <2>1 DEF MarkToMarket, MarkAccepted
    <3>3. QED
      BY <2>0, <3>1, <3>2 DEF FillsInTimeOrder
  <2>2. ASSUME NEW o \in Orders, NEW opening \in Openings, NEW submitted \in Times,
               FillOrder(o, opening, submitted)
        PROVE  FillsInTimeOrder'
    <3> DEFINE f == [order |-> o, price |-> opening.price, at |-> opening.openedAt,
                     before |-> account.qty[o.symbol]]
    <3>1. fills' = Append(fills, f)
      BY <2>2 DEF FillOrder
    <3>2. account'.valuedAt = opening.openedAt /\ opening.openedAt \in Nat
      BY <2>0, <2>2, AfterFillFields DEF FillOrder, TypeOK, Openings
    <3>3. account.valuedAt <= opening.openedAt
      BY <2>2, AcceptedOpening DEF FillOrder, TypeOK
    <3>4. f.at = opening.openedAt
      OBVIOUS
    <3> HIDE DEF f
    <3>5. \A i \in 1 .. Len(fills) : fills'[i].at \in Nat /\ fills'[i].at <= opening.openedAt
      BY <2>0, <3>1, <3>2, <3>3, LedgerAppend DEF FillsInTimeOrder
    <3>6. \A i, j \in 1 .. Len(fills) : i < j => fills'[i].at <= fills'[j].at
      BY <3>1, LedgerAppend DEF FillsInTimeOrder
    <3>7. fills'[Len(fills) + 1].at = opening.openedAt
      BY <3>1, <3>4, LedgerAppend
    <3>8. QED
      BY <3>1, <3>2, <3>5, <3>6, <3>7, LedgerAppend DEF FillsInTimeOrder
  <2>3. CASE UNCHANGED <<account, fills>>
    BY <2>3 DEF FillsInTimeOrder
  <2>4. QED
    BY <2>1, <2>2, <2>3 DEF Next, Mark, Execute, RejectOrder, vars
<1>3. QED
  BY <1>1, <1>2, PaperTypeOK, PTL DEF Spec

-----------------------------------------------------------------------------
(***************************************************************************)
(* No position is ever valued with an observation from its future, and     *)
(* every position has a price: a fill in one market advances the clock of  *)
(* all, which only makes the other marks older.                            *)
(***************************************************************************)
THEOREM PaperMarksAreCausal == Spec => []MarksAreCausal
<1>1. Init => MarksAreCausal
  BY DEF Init, MarksAreCausal, OpenAccount, Held
<1>2. TypeOK /\ MarksAreCausal /\ [Next]_vars => MarksAreCausal'
  <2> SUFFICES ASSUME TypeOK, MarksAreCausal, [Next]_vars
               PROVE  MarksAreCausal'
    OBVIOUS
  <2>0. account \in AccountType /\ Times \subseteq Nat /\ Prices \subseteq Nat \ {0}
    BY OrderAssumption DEF TypeOK
  <2>1. ASSUME NEW marks \in [Held(account) -> [price: Prices, at: Times]], NEW at \in Times,
               MarkToMarket(marks, at)
        PROVE  MarksAreCausal'
    <3>1. Held(account') = Held(account)
      BY <2>0, <2>1, AfterMarkFields DEF MarkToMarket, Held
    <3>2. \A s \in Held(account) : marks[s].at <= at /\ marks[s].price > 0
      <4>1. \A s \in Held(account) : marks[s].at <= at
        BY <2>1 DEF MarkToMarket, MarkAccepted
      <4>2. \A s \in Held(account) : marks[s].price \in Prices
        OBVIOUS
      <4>3. \A p \in Prices : p > 0
        BY <2>0
      <4>4. QED
        BY <4>1, <4>2, <4>3
    <3>3. QED
      BY <2>0, <2>1, <3>1, <3>2, AfterMarkFields DEF MarkToMarket, MarksAreCausal
  <2>2. ASSUME NEW o \in Orders, NEW opening \in Openings, NEW submitted \in Times,
               FillOrder(o, opening, submitted)
        PROVE  MarksAreCausal'
    <3>1. account.valuedAt <= opening.openedAt /\ opening.observedAt = opening.openedAt
      BY <2>0, <2>2, AcceptedOpening DEF FillOrder
    <3>2. opening.openedAt \in Nat /\ opening.price \in Nat \ {0}
      BY <2>0 DEF Openings
    <3>3. account' = AfterFill(account, o, opening)
      BY <2>2 DEF FillOrder
    <3>4. account'.valuedAt = opening.openedAt
      BY <2>0, <3>3, AfterFillFields
    <3> SUFFICES ASSUME NEW s \in Symbols, account'.qty[s] # 0
                 PROVE  account'.markAt[s] <= account'.valuedAt /\ account'.mark[s] > 0
      BY DEF MarksAreCausal, Held
    <3>5. CASE s = o.symbol
      <4>1. account'.mark[s] = opening.price /\ account'.markAt[s] = opening.observedAt
        BY <2>0, <3>3, <3>5, AfterFillFields
      <4>2. QED
        BY <3>1, <3>2, <3>4, <4>1
    <3>6. CASE s # o.symbol
      <4>1. /\ account'.qty[s] = account.qty[s]
            /\ account'.mark[s] = account.mark[s]
            /\ account'.markAt[s] = account.markAt[s]
        BY <2>0, <3>3, <3>6, AfterFillFields
      <4>2. account.markAt[s] <= account.valuedAt /\ account.mark[s] > 0
        BY <4>1 DEF MarksAreCausal, Held
      <4>3. account.markAt[s] \in Nat /\ account.valuedAt \in Nat
        BY <2>0 DEF AccountType
      <4>4. QED
        BY <3>1, <3>2, <3>4, <4>1, <4>2, <4>3
    <3>7. QED
      BY <3>5, <3>6
  <2>3. CASE UNCHANGED account
    BY <2>3 DEF MarksAreCausal, Held
  <2>4. QED
    BY <2>1, <2>2, <2>3 DEF Next, Mark, Execute, RejectOrder, vars
<1>3. QED
  BY <1>1, <1>2, PaperTypeOK, PTL DEF Spec

-----------------------------------------------------------------------------
(***************************************************************************)
(* What the last check of execute, StrictlyReduces, says of the product    *)
(* of the two quantities and of their sizes.                               *)
(***************************************************************************)
LEMMA ReductionShrinks ==
  ASSUME NEW before \in Int, NEW after \in Int, StrictlyReduces(before, after)
  PROVE  Magnitude(after) < Magnitude(before) /\ after * before >= 0
<1>1. CASE after = 0
  BY <1>1 DEF StrictlyReduces, Magnitude
<1>2. CASE after > 0
  BY <1>2 DEF StrictlyReduces, Magnitude
<1>3. CASE after < 0
  BY <1>3 DEF StrictlyReduces, Magnitude
<1>4. QED
  BY <1>1, <1>2, <1>3

(***************************************************************************)
(* No reduce-only order, whatever the position it was authorized against,  *)
(* opens, grows or reverses the exposure it is filled against.             *)
(***************************************************************************)
THEOREM ReduceOnlyOrdersShrink == Spec => []ReduceOnlyFillsShrink
<1>1. Init => ReduceOnlyFillsShrink
  BY DEF Init, ReduceOnlyFillsShrink
<1>2. TypeOK /\ ReduceOnlyFillsShrink /\ [Next]_vars => ReduceOnlyFillsShrink'
  <2> SUFFICES ASSUME TypeOK, ReduceOnlyFillsShrink, [Next]_vars
               PROVE  ReduceOnlyFillsShrink'
    OBVIOUS
  <2>1. ASSUME NEW o \in Orders, NEW opening \in Openings, NEW submitted \in Times,
               FillOrder(o, opening, submitted)
        PROVE  ReduceOnlyFillsShrink'
    <3> DEFINE before == account.qty[o.symbol]
               after  == before + Direction(o) * o.qty
               f == [order |-> o, price |-> opening.price, at |-> opening.openedAt,
                     before |-> account.qty[o.symbol]]
    <3>1. fills' = Append(fills, f)
      BY <2>1 DEF FillOrder
    <3>2. before \in Int /\ o.qty \in Int
      BY OrderAssumption DEF TypeOK, AccountType, Order
    <3>3. after \in Int
      BY <3>2 DEF Direction
    <3>4. o.reduceOnly => StrictlyReduces(before, after)
      BY <2>1 DEF FillOrder, Rejected, EconomicallyRejected, NewQuantity
    <3>5. f.order = o /\ f.before = before
      OBVIOUS
    <3> HIDE DEF f, before
    <3>6. o.reduceOnly => Magnitude(after) < Magnitude(before) /\ after * before >= 0
      BY <3>2, <3>3, <3>4, ReductionShrinks
    <3>7. \A i \in 1 .. Len(fills) : fills'[i] = fills[i]
      BY <3>1, LedgerAppend
    <3>8. fills'[Len(fills) + 1] = f /\ DOMAIN fills' = 1 .. Len(fills) + 1
          /\ Len(fills) \in Nat /\ DOMAIN fills = 1 .. Len(fills)
      BY <3>1, LedgerAppend
    <3> SUFFICES ASSUME NEW i \in DOMAIN fills', fills'[i].order.reduceOnly
                 PROVE  LET g == fills'[i]
                            later == g.before + Direction(g.order) * g.order.qty
                        IN  Magnitude(later) < Magnitude(g.before) /\ later * g.before >= 0
      BY DEF ReduceOnlyFillsShrink, Magnitude, Direction
    <3>9. CASE i = Len(fills) + 1
      BY <3>5, <3>6, <3>8, <3>9
    <3>10. CASE i \in 1 .. Len(fills)
      BY <3>7, <3>8, <3>10 DEF ReduceOnlyFillsShrink
    <3>11. QED
      BY <3>8, <3>9, <3>10
  <2>2. CASE UNCHANGED fills
    BY <2>2 DEF ReduceOnlyFillsShrink, Magnitude, Direction
  <2>3. QED
    BY <2>1, <2>2 DEF Next, Mark, Execute, MarkToMarket, RejectOrder, vars
<1>3. QED
  BY <1>1, <1>2, PaperTypeOK, PTL DEF Spec

-----------------------------------------------------------------------------
(***************************************************************************)
(* Nothing but a reduce-only fill leaves the account with negative cash,   *)
(* and it stays so only until the next fill that is not one.               *)
(***************************************************************************)
THEOREM OverdraftsAreReductions == Spec => []OverdraftOnlyByReduction
<1>1. Init => OverdraftOnlyByReduction
  BY OrderAssumption DEF Init, OverdraftOnlyByReduction, OpenAccount
<1>2. TypeOK /\ OverdraftOnlyByReduction /\ [Next]_vars => OverdraftOnlyByReduction'
  <2> SUFFICES ASSUME TypeOK, OverdraftOnlyByReduction, [Next]_vars
               PROVE  OverdraftOnlyByReduction'
    OBVIOUS
  <2>1. ASSUME NEW marks \in [Held(account) -> [price: Prices, at: Times]], NEW at \in Times,
               MarkToMarket(marks, at)
        PROVE  OverdraftOnlyByReduction'
    <3>1. account'.cash = account.cash /\ fills' = fills
      BY <2>1, AfterMarkFields DEF MarkToMarket, TypeOK
    <3>2. QED
      BY <3>1 DEF OverdraftOnlyByReduction, Last
  <2>2. ASSUME NEW o \in Orders, NEW opening \in Openings, NEW submitted \in Times,
               FillOrder(o, opening, submitted)
        PROVE  OverdraftOnlyByReduction'
    <3> DEFINE f == [order |-> o, price |-> opening.price, at |-> opening.openedAt,
                     before |-> account.qty[o.symbol]]
    <3>1. fills' = Append(fills, f)
      BY <2>2 DEF FillOrder
    <3>2. account'.cash = account.cash + CashChange(o, opening.price)
      BY <2>2 DEF FillOrder, AfterFill
    <3>3. account'.cash < 0 => o.reduceOnly
      BY <2>2, <3>2 DEF FillOrder, Rejected, EconomicallyRejected
    <3>4. f.order = o
      OBVIOUS
    <3>5. fills \in Seq(FillType) /\ Len(fills) \in Nat
      BY DEF TypeOK
    <3>6. fills' # <<>> /\ Len(fills') = Len(fills) + 1
      BY <3>1, <3>5
    <3>7. fills'[Len(fills')] = f
      BY <3>1, <3>6, LedgerAppend
    <3>8. QED
      BY <3>3, <3>4, <3>6, <3>7 DEF OverdraftOnlyByReduction, Last
  <2>3. CASE UNCHANGED <<account, fills>>
    BY <2>3 DEF OverdraftOnlyByReduction, Last
  <2>4. QED
    BY <2>1, <2>2, <2>3 DEF Next, Mark, Execute, RejectOrder, vars
<1>3. QED
  BY <1>1, <1>2, PaperTypeOK, PTL DEF Spec

-----------------------------------------------------------------------------
(***************************************************************************)
(* The adapter implements the abstract ledger of authorized fills: every   *)
(* fill is an abstract fill of an unused authorization inside its window   *)
(* and not before the last one; marks and rejections are stutters.         *)
(***************************************************************************)
View(s) == [i \in DOMAIN s |-> [id |-> s[i].order.id, at |-> s[i].at]]

LEMMA ViewOfAppend ==
  ASSUME NEW s \in Seq(FillType), NEW f \in FillType
  PROVE  View(Append(s, f)) = Append(View(s), [id |-> f.order.id, at |-> f.at])
<1> DEFINE e == [id |-> f.order.id, at |-> f.at]
           left == View(Append(s, f))
<1>1. /\ Len(s) \in Nat
      /\ DOMAIN s = 1 .. Len(s)
      /\ DOMAIN Append(s, f) = 1 .. Len(s) + 1
      /\ \A i \in 1 .. Len(s) : Append(s, f)[i] = s[i]
      /\ Append(s, f)[Len(s) + 1] = f
  OBVIOUS
<1>2. View(s) \in Seq([id: {g.order.id : g \in FillType}, at: {g.at : g \in FillType}])
      /\ Len(View(s)) = Len(s)
  BY <1>1 DEF View
<1>3. /\ DOMAIN left = 1 .. Len(s) + 1
      /\ \A i \in 1 .. Len(s) : left[i] = View(s)[i]
      /\ left[Len(s) + 1] = e
  BY <1>1 DEF View
<1>4. Append(View(s), e) = [i \in 1 .. Len(s) + 1 |-> IF i = Len(s) + 1 THEN e ELSE View(s)[i]]
  BY <1>1, <1>2
<1>5. left = [i \in 1 .. Len(s) + 1 |-> left[i]]
  BY <1>1 DEF View
<1> HIDE DEF left, e
<1>6. \A i \in 1 .. Len(s) + 1 : left[i] = IF i = Len(s) + 1 THEN e ELSE View(s)[i]
  BY <1>1, <1>3
<1>7. left = Append(View(s), e)
  BY <1>4, <1>5, <1>6
<1>8. QED
  BY <1>7 DEF left, e

THEOREM PaperImplementsLedger == Spec => ImplementsLedger
<1>1. Init => Ledger!Init
  BY DEF Init, Ledger!Init
<1>2. TypeOK /\ AtMostOneFillPerAuthorization /\ FillsInTimeOrder /\ [Next]_vars
        => [Ledger!Next]_(View(fills))
  <2> SUFFICES ASSUME TypeOK, AtMostOneFillPerAuthorization, FillsInTimeOrder, [Next]_vars
               PROVE  [Ledger!Next]_(View(fills))
    OBVIOUS
  <2>1. ASSUME NEW o \in Orders, NEW opening \in Openings, NEW submitted \in Times,
               FillOrder(o, opening, submitted)
        PROVE  Ledger!Next
    <3> DEFINE f == [order |-> o, price |-> opening.price, at |-> opening.openedAt,
                     before |-> account.qty[o.symbol]]
    <3>1. fills' = Append(fills, f)
      BY <2>1 DEF FillOrder
    <3>2. account.qty[o.symbol] \in Int
      BY OrderAssumption DEF TypeOK, AccountType, Order
    <3>3. f \in FillType /\ fills \in Seq(FillType)
      BY <3>2 DEF FillType, TypeOK, Openings
    <3>4. View(fills)' = Append(View(fills), [id |-> o.id, at |-> opening.openedAt])
      BY <3>1, <3>3, ViewOfAppend
    <3>5. \A i \in DOMAIN fills : fills[i].order.id # o.id
      BY <2>1, AcceptedOpening DEF FillOrder, TypeOK, AtMostOneFillPerAuthorization
    <3>6. account \in AccountType /\ ~Rejected(account, processed, o, opening, submitted)
      BY <2>1 DEF FillOrder, TypeOK
    <3>7. opening.openedAt \in Nat /\ o.earliest \in Nat /\ o.expires \in Nat
      BY <3>6, AcceptedOpening
    <3>8. o.earliest <= opening.openedAt /\ opening.openedAt <= o.expires
      BY <3>6, AcceptedOpening
    <3>9. \A i \in DOMAIN fills : fills[i].at <= opening.openedAt
      <4>1. \A g \in FillType : g.at \in Times
        BY DEF FillType
      <4>2. \A i \in DOMAIN fills : fills[i].at \in Nat
        <5>1. \A i \in DOMAIN fills : fills[i] \in FillType
          BY DEF TypeOK
        <5>2. QED
          BY <4>1, <5>1, OrderAssumption
      <4>3. /\ account.valuedAt \in Nat /\ opening.openedAt \in Nat
            /\ account.valuedAt <= opening.openedAt
        BY <3>6, AcceptedOpening
      <4>4. QED
        BY <4>2, <4>3 DEF FillsInTimeOrder
    <3>10. Ledger!Fills(o, opening.openedAt)
      BY <3>4, <3>5, <3>8, <3>9 DEF Ledger!Fills, View
    <3>11. QED
      BY <3>7, <3>8, <3>10 DEF Ledger!Next
  <2>2. CASE UNCHANGED fills
    BY <2>2 DEF View
  <2>3. QED
    BY <2>1, <2>2 DEF Next, Mark, Execute, MarkToMarket, RejectOrder, vars
<1>3. QED
  BY <1>1, <1>2, PaperTypeOK, AuthorizationsFillOnce, LedgerInTimeOrder, PTL
  DEF Spec, ImplementsLedger, Ledger!Spec, View

-----------------------------------------------------------------------------
(***************************************************************************)
(* Running balances.  That a recursive function exists, and that it goes   *)
(* on as it was when its argument grows, follow from the least number at   *)
(* which they would fail.                                                  *)
(***************************************************************************)
LEMMA LeastOf ==
  ASSUME NEW S \in SUBSET Nat, S # {}
  PROVE  \E x \in S : \A y \in S : x <= y
<1>1. \E x \in S : \A y \in S : ~ (<<y, x>> \in OpToRel(<, Nat))
  BY NatLessThanWellFounded, WFMin
<1>2. PICK x \in S : \A y \in S : ~ (<<y, x>> \in OpToRel(<, Nat))
  BY <1>1
<1>3. x \in Nat /\ \A y \in S : y \in Nat
  OBVIOUS
<1>4. \A y \in S : ~(y < x)
  BY <1>2, <1>3 DEF OpToRel
<1>5. QED
  BY <1>3, <1>4

\* b is the running balance of the first k moves.
Running(b, opening, moves, k) ==
  b = [n \in 0 .. k |-> IF n = 0 THEN opening ELSE b[n - 1] + moves[n]]

LEMMA RunningBalance ==
  ASSUME NEW opening \in Int, NEW moves \in Seq(Int), NEW k \in 0 .. Len(moves)
  PROVE  \E b \in [0 .. k -> Int] : Running(b, opening, moves, k)
<1> DEFINE Good(j) == \E b \in [0 .. j -> Int] : Running(b, opening, moves, j)
           Bad == {j \in 0 .. Len(moves) : ~Good(j)}
<1>1. Len(moves) \in Nat /\ \A n \in 1 .. Len(moves) : moves[n] \in Int
  OBVIOUS
<1>2. SUFFICES ASSUME Bad # {} PROVE FALSE
  OBVIOUS
<1>3. PICK j \in Bad : \A i \in Bad : j <= i
  <2>1. Bad \in SUBSET Nat
    BY <1>1
  <2> HIDE DEF Bad
  <2>2. QED
    BY <1>2, <2>1, LeastOf
<1>4. j \in Nat /\ j <= Len(moves) /\ ~Good(j)
  BY <1>1
<1>5. CASE j = 0
  <2>1. [n \in 0 .. 0 |-> opening] \in [0 .. 0 -> Int]
    OBVIOUS
  <2>2. Running([n \in 0 .. 0 |-> opening], opening, moves, 0)
    BY DEF Running
  <2>3. QED
    BY <1>4, <1>5, <2>1, <2>2
<1>6. CASE j > 0
  <2>1. j - 1 \in Nat /\ j - 1 \in 0 .. Len(moves) /\ j - 1 \notin Bad
    <3>1. j - 1 \in Nat /\ j - 1 \in 0 .. Len(moves) /\ ~(j <= j - 1)
      BY <1>1, <1>4, <1>6
    <3> HIDE DEF Bad
    <3>2. QED
      BY <1>3, <3>1
  <2>2. Good(j - 1)
    BY <2>1
  <2>3. PICK b \in [0 .. j - 1 -> Int] : Running(b, opening, moves, j - 1)
    BY <2>2
  <2> DEFINE c == [n \in 0 .. j |-> IF n = j THEN b[j - 1] + moves[j] ELSE b[n]]
  <2>4. c \in [0 .. j -> Int]
    BY <1>1, <1>4, <1>6, <2>1
  <2>5. ASSUME NEW n \in 0 .. j
        PROVE  c[n] = IF n = 0 THEN opening ELSE c[n - 1] + moves[n]
    <3>1. CASE n = j
      <4>1. c[n] = b[j - 1] + moves[j] /\ c[n - 1] = b[j - 1]
        BY <1>4, <1>6, <3>1
      <4>2. QED
        BY <1>6, <3>1, <4>1
    <3>2. CASE n # j
      <4>1. n \in 0 .. j - 1 /\ c[n] = b[n] /\ (n # 0 => n - 1 \in 0 .. j - 1 /\ c[n - 1] = b[n - 1])
        BY <1>4, <3>2
      <4>2. b[n] = IF n = 0 THEN opening ELSE b[n - 1] + moves[n]
        BY <2>3, <4>1 DEF Running
      <4>3. QED
        BY <4>1, <4>2
    <3>3. QED
      BY <3>1, <3>2
  <2>6. DOMAIN c = 0 .. j
    OBVIOUS
  <2>7. Running(c, opening, moves, j)
    <3> HIDE DEF c
    <3>1. QED
      BY <2>4, <2>5, <2>6 DEF Running
  <2>8. QED
    BY <1>4, <2>4, <2>7
<1>7. QED
  BY <1>4, <1>5, <1>6

\* What Balance returns is the last of the running balances.
LEMMA BalanceRuns ==
  ASSUME NEW opening \in Int, NEW moves \in Seq(Int)
  PROVE  \E b : /\ Running(b, opening, moves, Len(moves))
                /\ Balance(opening, moves) = b[Len(moves)]
<1>1. Len(moves) \in 0 .. Len(moves)
  OBVIOUS
<1>2. \E b : Running(b, opening, moves, Len(moves))
  BY <1>1, RunningBalance
<1> DEFINE b == CHOOSE b : Running(b, opening, moves, Len(moves))
<1>3. Running(b, opening, moves, Len(moves))
  BY <1>2
<1>4. Balance(opening, moves) = b[Len(moves)]
  BY DEF Balance, Running
<1>5. QED
  BY <1>3, <1>4

\* Running balances of moves that agree agree.
LEMMA BalancesAgree ==
  ASSUME NEW opening \in Int, NEW moves \in Seq(Int), NEW more \in Seq(Int),
         Len(moves) <= Len(more), \A n \in 1 .. Len(moves) : more[n] = moves[n],
         NEW b, Running(b, opening, moves, Len(moves)),
         NEW c, Running(c, opening, more, Len(more))
  PROVE  \A n \in 0 .. Len(moves) : b[n] = c[n]
<1> DEFINE Bad == {n \in 0 .. Len(moves) : b[n] # c[n]}
<1>1. Len(moves) \in Nat /\ Len(more) \in Nat
  OBVIOUS
<1>2. SUFFICES ASSUME Bad # {} PROVE FALSE
  OBVIOUS
<1>3. PICK j \in Bad : \A i \in Bad : j <= i
  <2>1. Bad \in SUBSET Nat
    BY <1>1
  <2> HIDE DEF Bad
  <2>2. QED
    BY <1>2, <2>1, LeastOf
<1>4. j \in 0 .. Len(moves) /\ j \in 0 .. Len(more) /\ b[j] # c[j]
  BY <1>1
<1>5. /\ b[j] = IF j = 0 THEN opening ELSE b[j - 1] + moves[j]
      /\ c[j] = IF j = 0 THEN opening ELSE c[j - 1] + more[j]
  BY <1>4 DEF Running
<1>6. j # 0
  BY <1>4, <1>5
<1>7. j - 1 \in 0 .. Len(moves) /\ j - 1 \notin Bad /\ more[j] = moves[j]
  BY <1>1, <1>3, <1>4, <1>6
<1>8. QED
  BY <1>4, <1>5, <1>6, <1>7

(***************************************************************************)
(* The balance of no moves, and of one more.                               *)
(***************************************************************************)
LEMMA BalanceOfNone ==
  ASSUME NEW opening \in Int
  PROVE  Balance(opening, <<>>) = opening
<1>1. <<>> \in Seq(Int) /\ Len(<<>>) = 0
  OBVIOUS
<1>2. PICK b : Running(b, opening, <<>>, 0) /\ Balance(opening, <<>>) = b[0]
  BY <1>1, BalanceRuns
<1>3. b[0] = opening
  BY <1>2 DEF Running
<1>4. QED
  BY <1>2, <1>3

LEMMA BalanceOfOneMore ==
  ASSUME NEW opening \in Int, NEW moves \in Seq(Int), NEW more \in Seq(Int),
         Len(more) = Len(moves) + 1, \A n \in 1 .. Len(moves) : more[n] = moves[n]
  PROVE  Balance(opening, more) = Balance(opening, moves) + more[Len(more)]
<1>1. Len(moves) \in Nat /\ Len(moves) <= Len(more) /\ Len(more) # 0 /\ Len(more) - 1 = Len(moves)
      /\ Len(moves) \in 0 .. Len(moves) /\ Len(more) \in 0 .. Len(more)
  OBVIOUS
<1>2. PICK b : Running(b, opening, moves, Len(moves)) /\ Balance(opening, moves) = b[Len(moves)]
  BY BalanceRuns
<1>3. PICK c : Running(c, opening, more, Len(more)) /\ Balance(opening, more) = c[Len(more)]
  BY BalanceRuns
<1>4. b[Len(moves)] = c[Len(moves)]
  BY <1>1, <1>2, <1>3, BalancesAgree
<1>5. c[Len(more)] = c[Len(more) - 1] + more[Len(more)]
  BY <1>1, <1>3 DEF Running
<1>6. QED
  BY <1>1, <1>2, <1>3, <1>4, <1>5

(***************************************************************************)
(* The account is what its fills explain: every fill moves the cash by its *)
(* cash change and the one position by its signed quantity, and nothing    *)
(* else moves either, whatever was marked, rejected or submitted again.    *)
(***************************************************************************)
THEOREM LedgerExplainsPaperAccount == Spec => []LedgerExplainsAccount
<1>1. Init => LedgerExplainsAccount
  <2> SUFFICES ASSUME Init PROVE LedgerExplainsAccount
    OBVIOUS
  <2>1. fills = <<>> /\ account.cash = StartingCash /\ \A s \in Symbols : account.qty[s] = 0
    BY DEF Init, OpenAccount
  <2>2. CashMoves = <<>> /\ \A s \in Symbols : SignedFills(s) = <<>>
    BY <2>1 DEF CashMoves, SignedFills
  <2>3. StartingCash \in Int
    BY OrderAssumption
  <2>4. QED
    BY <2>1, <2>2, <2>3, BalanceOfNone DEF LedgerExplainsAccount
<1>2. TypeOK /\ LedgerExplainsAccount /\ [Next]_vars => LedgerExplainsAccount'
  <2> SUFFICES ASSUME TypeOK, LedgerExplainsAccount, [Next]_vars
               PROVE  LedgerExplainsAccount'
    OBVIOUS
  <2>1. ASSUME NEW o \in Orders, NEW opening \in Openings, NEW submitted \in Times,
               FillOrder(o, opening, submitted)
        PROVE  LedgerExplainsAccount'
    <3> DEFINE f == [order |-> o, price |-> opening.price, at |-> opening.openedAt,
                     before |-> account.qty[o.symbol]]
    <3>1. fills' = Append(fills, f) /\ account' = AfterFill(account, o, opening)
      BY <2>1 DEF FillOrder
    <3>2. /\ o.symbol \in Symbols /\ f.order = o /\ f.price = opening.price /\ opening.price \in Prices
      BY OrderAssumption DEF Order, Openings
    <3>3. /\ account'.cash = account.cash + CashChange(o, opening.price)
          /\ account'.qty = [account.qty EXCEPT ![o.symbol] = NewQuantity(account, o)]
          /\ account.qty \in [Symbols -> Int]
      BY <3>1 DEF AfterFill, TypeOK, AccountType
    <3> HIDE DEF f
    <3>4. /\ Len(fills) \in Nat /\ Len(fills') = Len(fills) + 1
          /\ \A i \in 1 .. Len(fills) : fills'[i] = fills[i]
          /\ fills'[Len(fills')] = f
      BY <3>1 DEF TypeOK
    <3>5. \A i \in 1 .. Len(fills) : fills[i].order \in Orders /\ fills[i].price \in Prices
      <4>1. \A i \in 1 .. Len(fills) : fills[i] \in FillType
        BY DEF TypeOK
      <4>2. \A g \in FillType : g.order \in Orders /\ g.price \in Prices
        BY DEF FillType
      <4>3. QED
        BY <4>1, <4>2
    <3>6. \A i \in 1 .. Len(fills') : fills'[i].order \in Orders /\ fills'[i].price \in Prices
      BY <3>2, <3>4, <3>5
    <3>7. \A p \in Orders : Direction(p) * p.qty \in Int
      <4>1. \A p \in Orders : p.qty \in Int
        BY OrderAssumption DEF Order
      <4>2. QED
        BY <4>1 DEF Direction
    <3>8. CashMoves \in Seq(Int) /\ Len(CashMoves) = Len(fills)
      BY <3>4, <3>5, CashChangeInt DEF CashMoves
    <3>9. CashMoves' \in Seq(Int) /\ Len(CashMoves') = Len(fills')
      BY <3>4, <3>6, CashChangeInt DEF CashMoves
    <3>10. \A i \in 1 .. Len(CashMoves) : CashMoves'[i] = CashMoves[i]
      BY <3>4, <3>8 DEF CashMoves
    <3>11. CashMoves'[Len(CashMoves')] = CashChange(o, opening.price)
      BY <3>2, <3>4, <3>9 DEF CashMoves
    <3>12. account'.cash = Balance(StartingCash, CashMoves')
      <4>1. StartingCash \in Int
        BY OrderAssumption
      <4>2. Balance(StartingCash, CashMoves')
              = Balance(StartingCash, CashMoves) + CashMoves'[Len(CashMoves')]
        BY <3>4, <3>8, <3>9, <3>10, <4>1, BalanceOfOneMore
      <4>3. QED
        BY <3>3, <3>11, <4>2 DEF LedgerExplainsAccount
    <3>13. ASSUME NEW s \in Symbols
           PROVE  account'.qty[s] = Balance(0, SignedFills(s)')
      <4>1. SignedFills(s) \in Seq(Int) /\ Len(SignedFills(s)) = Len(fills)
        BY <3>4, <3>5, <3>7 DEF SignedFills
      <4>2. SignedFills(s)' \in Seq(Int) /\ Len(SignedFills(s)') = Len(fills')
        BY <3>4, <3>6, <3>7 DEF SignedFills
      <4>3. \A i \in 1 .. Len(SignedFills(s)) : SignedFills(s)'[i] = SignedFills(s)[i]
        BY <3>4, <4>1 DEF SignedFills
      <4>4. SignedFills(s)'[Len(SignedFills(s)')]
              = IF o.symbol = s THEN Direction(o) * o.qty ELSE 0
        BY <3>2, <3>4, <4>2 DEF SignedFills
      <4>5. Balance(0, SignedFills(s)')
              = Balance(0, SignedFills(s)) + SignedFills(s)'[Len(SignedFills(s)')]
        BY <3>4, <4>1, <4>2, <4>3, BalanceOfOneMore
      <4>6. account.qty[s] = Balance(0, SignedFills(s)) /\ account.qty[s] \in Int
        BY <3>3 DEF LedgerExplainsAccount
      <4>7. CASE s = o.symbol
        BY <3>2, <3>3, <4>4, <4>5, <4>6, <4>7 DEF NewQuantity
      <4>8. CASE s # o.symbol
        BY <3>2, <3>3, <4>4, <4>5, <4>6, <4>8
      <4>9. QED
        BY <4>7, <4>8
    <3>14. QED
      BY <3>12, <3>13 DEF LedgerExplainsAccount
  <2>2. CASE account'.cash = account.cash /\ account'.qty = account.qty /\ fills' = fills
    BY <2>2 DEF LedgerExplainsAccount, CashMoves, SignedFills
  <2>3. ASSUME NEW marks \in [Held(account) -> [price: Prices, at: Times]], NEW at \in Times,
               MarkToMarket(marks, at)
        PROVE  LedgerExplainsAccount'
    BY <2>2, <2>3, AfterMarkFields DEF MarkToMarket, TypeOK
  <2>4. QED
    BY <2>1, <2>2, <2>3 DEF Next, Mark, Execute, RejectOrder, vars
<1>3. QED
  BY <1>1, <1>2, PaperTypeOK, PTL DEF Spec
=============================================================================
