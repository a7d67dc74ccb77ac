\* Bars available up to a bar and a half late: decisions between boundaries.  Long and short.
CONSTANTS
  Instrument <- MCInstrument
  Symbols <- MCSymbols
  Prices <- TwoPrices
  Exposures <- BothExposures
  Horizons <- TwoHorizons
  None = None
  Bps = 10
  SlippageBps = 1
  FeeBps = 1
  Frac = 4
  MaxPosition = 3
  MaxGross = 4
  CashReserve = 0
  MaxOrderNotional = 2000
  MaxObservationAge = 1
  MaxSignalAge = 2
  OrderValidity = 2
  MaxFeeBps = 5
  MaxSlippageBps = 5
  AllowShorting = TRUE
  BarTicks = 2
  StartBar = 1
  EndBar = 4
  MaxDelay = 3
  Cadence = 1
  StartingCash = 3000
SPECIFICATION Spec
CHECK_DEADLOCK FALSE
INVARIANTS
  QueueMeetsNextOpening
  AssertionsHold
  DecidesOnNewestMark
  QueuedReductionStaysValid
  ConsistentlyPricedExposureIsNeverTrapped
  NewestApprovalSettles
