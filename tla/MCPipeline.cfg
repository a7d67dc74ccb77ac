SPECIFICATION Spec
CONSTANTS
    Symbols = {"x", "y"}
    Bps = 2
    SlippageBps = 0
    FeeBps = 0
    Frac = 4
    MaxPosition = 2
    MaxGross = 3
    CashReserve = 1
    MaxOrderNotional = 1000
    MaxObservationAge = 0
    MaxSignalAge = 1
    OrderValidity = 1
    MaxFeeBps = 0
    MaxSlippageBps = 2
    AllowShorting = FALSE
    Agents <- MCAgents
    AlphaAgents <- MCAlpha
    Weight <- MCWeight
    Requires <- MCRequires
    Lifetime <- MCLifetime
    Targets <- MCTargets
    Confidences = {0, 2}
    ConfidenceUnit = 2
    MinimumConfidence = 1
    MinimumConviction = 1
    Capabilities = {"rates"}
    ProviderOrder <- MCOrder
    Offers <- MCOffers
    Vintages = {1}
    Prices = {2, 3}
    Times = {1, 2}
    RiskMinimumConfidence = 1
    StartingCash = 96
    MaxRuns = 2
    None = None
CHECK_DEADLOCK FALSE
INVARIANTS
    ContextIsReproducible
PROPERTIES
    FailureLeavesHoldings
    RestraintNeverAddsRisk
