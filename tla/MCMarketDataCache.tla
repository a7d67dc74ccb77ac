--------------------------- MODULE MCMarketDataCache ---------------------------
(***************************************************************************)
(* Three candles, two workers and two requests: one candle, and a snapshot *)
(* that reaches beyond it on both sides: it may lack nothing, one end or   *)
(* two parts, and either may be stored while the other fails.              *)
(***************************************************************************)
EXTENDS MarketDataCache, TLC

MCRanges == {[from |-> 1, to |-> 2, asOf |-> 2]}

Symmetry == Permutations(Workers)
=============================================================================
