\* Bars available at their end: every event is a bar boundary.  Long only.
CONSTANTS
  Instrument <- MCInstrument
  Symbols <- MCSymbols
  Prices <- TwoPrices
  Exposures <- AllExposures
  Horizons <- TwoHorizons
  None = None
  Bps = 10
  SlippageBps = 1
  FeeBps = 1
  Frac = 4
  MaxPosition = 4
  MaxGross = 4
  CashReserve = 2
  MaxOrderNotional = 9000
  MaxObservationAge = 2
  MaxSignalAge = 2
  OrderValidity = 2
  MaxFeeBps = 5
  MaxSlippageBps = 5
  AllowShorting = FALSE
  BarTicks = 2
  StartBar = 1
  EndBar = 6
  MaxDelay = 0
  Cadence = 1
  StartingCash = 16000
SPECIFICATION Spec
CHECK_DEADLOCK FALSE
INVARIANTS
  LongOnlyStaysSolvent
  ConsistentlyPricedFillsReconcile
  QueuedOrdersSettle
