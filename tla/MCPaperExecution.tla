-------------------------- MODULE MCPaperExecution --------------------------
(***************************************************************************)
(* A small instance of PaperExecution.  Rates are tenths, so that slippage *)
(* and fee are large enough to empty the account.  One market has an       *)
(* opening order and a reduction on each side; the purchase in the other   *)
(* competes with the cover for the cash and the valuation clock, and the   *)
(* last order has a fee bound the adapter never meets.                     *)
(***************************************************************************)
EXTENDS PaperExecution

MCOrder(id, symbol, side, qty, ref, authorized, expires, maxFee, reduceOnly) ==
  [id |-> id, symbol |-> symbol, side |-> side, qty |-> qty, ref |-> ref,
   authorizedAt |-> authorized, earliest |-> authorized, expires |-> expires,
   maxFee |-> maxFee, maxSlip |-> SlippageBps, reduceOnly |-> reduceOnly]

MCOrders ==
  {MCOrder("long",  "btc", "buy",  1, 3, 0, 1, 1, FALSE),
   MCOrder("short", "btc", "sell", 2, 1, 0, 0, 1, FALSE),
   MCOrder("trim",  "btc", "sell", 1, 1, 1, 1, 1, TRUE),
   MCOrder("cover", "btc", "buy",  1, 3, 0, 1, 1, TRUE),
   MCOrder("other", "eth", "buy",  1, 3, 0, 1, 1, FALSE),
   MCOrder("dear",  "eth", "buy",  1, 3, 0, 1, 0, FALSE)}

MCSymbols == {"btc", "eth"}
MCPrices == {1, 3}
MCTimes == 0 .. 1
=============================================================================
