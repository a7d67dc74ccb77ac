-------------------------- MODULE MCBacktestEngine --------------------------
(***************************************************************************)
(* Small instances of BacktestEngine: a few bars, prices far enough apart  *)
(* to gap through every limit, rates and policy fractions coarse enough    *)
(* for whole lots.                                                         *)
(***************************************************************************)
EXTENDS BacktestEngine

MCInstrument == "btc"
MCSymbols == {MCInstrument}
TwoPrices == {2, 3}
LongExposures == {0, 1, 2}
AllExposures == {-1, 0, 1, 2}
BothExposures == {-4, 0, 4}
OneHorizon == {2}
TwoHorizons == {1, 2}
=============================================================================
