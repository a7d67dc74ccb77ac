--------------------------- MODULE PaperExecution ---------------------------
(***************************************************************************)
(* PaperExecutionAdapter (execution/paper.py) under every sequence of      *)
(* calls its callers may make: orders submitted once, again after a        *)
(* rejection or again after a fill, openings that are early, late, for     *)
(* another market or observed late, and marks at any later time.  A call   *)
(* that raises changes nothing and is not a step.                          *)
(***************************************************************************)
EXTENDS PaperAccount, Sequences, SequencesExt

CONSTANTS
  Orders,        \* the approved orders that callers hold
  Prices,        \* prices an opening or a mark can show
  Times,         \* instants, a bounded stretch of the naturals
  StartingCash,  \* in the unit of cash
  OpenedAt       \* the instant the account is opened

Authorizations == {o.id : o \in Orders}

(***************************************************************************)
(* An authorization id is a digest of the order's terms, so two orders     *)
(* never share one.                                                        *)
(***************************************************************************)
ASSUME OrderAssumption ==
  /\ Times \subseteq Nat
  /\ Prices \subseteq Nat \ {0}
  /\ StartingCash \in Nat \ {0}
  /\ OpenedAt \in Times
  /\ Orders \subseteq Order(Authorizations)
  /\ \A o, p \in Orders : o.id = p.id => o = p

VARIABLES
  account,    \* cash, positions and valuation time
  processed,  \* _processed: the authorizations that were filled
  report,     \* the status of the last ExecutionReport returned
  fills       \* history: the fills committed so far, oldest first

vars == <<account, processed, report, fills>>

Openings == [symbol: Symbols, price: Prices, openedAt: Times, observedAt: Times]

FillType == [order: Orders, price: Prices, at: Times, before: Int]

-----------------------------------------------------------------------------
Init ==
  /\ account = OpenAccount(StartingCash, OpenedAt)
  /\ processed = {}
  /\ report = "none"
  /\ fills = <<>>

(***************************************************************************)
(* mark_to_market(observations, valued_at).                                *)
(***************************************************************************)
MarkToMarket(marks, at) ==
  /\ MarkAccepted(account, marks, at)
  /\ account' = AfterMark(account, marks, at)
  /\ UNCHANGED <<processed, report, fills>>

(***************************************************************************)
(* execute(order, opening_price, submitted_at) when every check passes.  A *)
(* fill price of zero (all of the price lost to slippage) raises while the *)
(* report is built, before anything is assigned.                           *)
(***************************************************************************)
FillOrder(o, opening, submitted) ==
  /\ ~Rejected(account, processed, o, opening, submitted)
  /\ FillPrice(o, opening.price) > 0
  /\ account' = AfterFill(account, o, opening)
  /\ processed' = processed \cup {o.id}
  /\ report' = "filled"
  /\ fills' = Append(fills, [order |-> o, price |-> opening.price, at |-> opening.openedAt,
                             before |-> account.qty[o.symbol]])

(***************************************************************************)
(* execute when a check refuses: the authorization is not consumed and the *)
(* caller may submit it again.                                             *)
(***************************************************************************)
RejectOrder(o, opening, submitted) ==
  /\ Rejected(account, processed, o, opening, submitted)
  /\ report' = "rejected"
  /\ UNCHANGED <<account, processed, fills>>

Mark == \E marks \in [Held(account) -> [price: Prices, at: Times]], at \in Times :
          MarkToMarket(marks, at)

Execute ==
  \E o \in Orders, opening \in Openings, submitted \in Times :
    /\ opening.observedAt >= opening.openedAt
    /\ FillOrder(o, opening, submitted) \/ RejectOrder(o, opening, submitted)

Next == Mark \/ Execute

Spec == Init /\ [][Next]_vars

-----------------------------------------------------------------------------
(***************************************************************************)
(* Every variable keeps its type; a closed position keeps no mark.         *)
(***************************************************************************)
TypeOK ==
  /\ account \in AccountType
  /\ processed \subseteq Authorizations
  /\ fills \in Seq(FillType)
  /\ report \in {"none", "filled", "rejected"}

(***************************************************************************)
(* However often a caller submits an order, and whatever was rejected in   *)
(* between, one authorization moves the account at most once, and          *)
(* _processed is exactly the set of authorizations that did.               *)
(***************************************************************************)
AtMostOneFillPerAuthorization ==
  /\ processed = {fills[i].order.id : i \in DOMAIN fills}
  /\ \A i, j \in DOMAIN fills : fills[i].order.id = fills[j].order.id => i = j

(***************************************************************************)
(* Fills are committed in the order of their opening times and none of     *)
(* them is dated after the account's valuation, although marks also move   *)
(* that clock and retried orders come back late.                           *)
(***************************************************************************)
FillsInTimeOrder ==
  /\ \A i, j \in DOMAIN fills : i < j => fills[i].at <= fills[j].at
  /\ \A i \in DOMAIN fills : fills[i].at <= account.valuedAt

(***************************************************************************)
(* A fill of one symbol moves the valuation time of the whole account and  *)
(* leaves the other marks alone: still no position is ever valued with an  *)
(* observation from after the valuation, and every position has a price.   *)
(***************************************************************************)
MarksAreCausal ==
  \A s \in Held(account) : account.markAt[s] <= account.valuedAt /\ account.mark[s] > 0

(***************************************************************************)
(* The balance after a sequence of moves, in their order, and the moves of *)
(* the ledger in cash and in one position.                                 *)
(***************************************************************************)
Balance(opening, moves) ==
  LET balance[n \in 0 .. Len(moves)] == IF n = 0 THEN opening ELSE balance[n - 1] + moves[n]
  IN  balance[Len(moves)]

CashMoves == [i \in 1 .. Len(fills) |-> CashChange(fills[i].order, fills[i].price)]

SignedFills(s) ==
  [i \in 1 .. Len(fills) |-> IF fills[i].order.symbol = s
                            THEN Direction(fills[i].order) * fills[i].order.qty ELSE 0]

(***************************************************************************)
(* The account is exactly what its fills explain: cash is the starting     *)
(* cash plus the cash each fill moved, and a quantity is the sum of the    *)
(* signed fills, marks and rejections having contributed nothing.          *)
(***************************************************************************)
LedgerExplainsAccount ==
  /\ account.cash = Balance(StartingCash, CashMoves)
  /\ \A s \in Symbols : account.qty[s] = Balance(0, SignedFills(s))

(***************************************************************************)
(* The account is overdrawn only while its last fill is a reduce-only one: *)
(* closing a position may cost more cash than there is, opening one never. *)
(***************************************************************************)
OverdraftOnlyByReduction ==
  account.cash < 0 => fills # <<>> /\ Last(fills).order.reduceOnly

(***************************************************************************)
(* A reduce-only order that was authorized against one position and filled *)
(* against another still never opens, grows or reverses exposure.          *)
(***************************************************************************)
ReduceOnlyFillsShrink ==
  \A i \in DOMAIN fills :
    LET f     == fills[i]
        after == f.before + Direction(f.order) * f.order.qty
    IN f.order.reduceOnly =>
         /\ Magnitude(after) < Magnitude(f.before)
         /\ after * f.before >= 0

(***************************************************************************)
(* The adapter implements the abstract ledger of authorized fills.         *)
(***************************************************************************)
Ledger == INSTANCE AuthorizedLedger WITH
  Windows <- Orders,
  ledger  <- [i \in DOMAIN fills |-> [id |-> fills[i].order.id, at |-> fills[i].at]]

ImplementsLedger == Ledger!Spec
=============================================================================
