\* Two markets, six orders, two instants: cash and clock are shared.
CONSTANTS
  Symbols <- MCSymbols
  Orders <- MCOrders
  Prices <- MCPrices
  Times <- MCTimes
  Bps = 10
  SlippageBps = 1
  FeeBps = 1
  StartingCash = 250
  OpenedAt = 0
SPECIFICATION Spec
INVARIANTS
  LedgerExplainsAccount
  OverdraftOnlyByReduction
  ReduceOnlyFillsShrink
PROPERTY ImplementsLedger
