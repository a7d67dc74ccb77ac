\* A position valued below the close its next order is priced with.
CONSTANTS
  Instrument <- MCInstrument
  Symbols <- MCSymbols
  Prices <- TwoPrices
  Exposures <- LongExposures
  Horizons <- TwoHorizons
  None = None
  Bps = 10
  SlippageBps = 0
  FeeBps = 0
  Frac = 4
  MaxPosition = 4
  MaxGross = 4
  CashReserve = 2
  MaxOrderNotional = 8000
  MaxObservationAge = 2
  MaxSignalAge = 2
  OrderValidity = 2
  MaxFeeBps = 5
  MaxSlippageBps = 5
  AllowShorting = FALSE
  BarTicks = 2
  StartBar = 1
  EndBar = 4
  MaxDelay = 0
  Cadence = 1
  StartingCash = 16000
SPECIFICATION Spec
CHECK_DEADLOCK FALSE
INVARIANTS
  AuthorizedFillsReconcile
