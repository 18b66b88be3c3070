SPECIFICATION Spec
CONSTANTS
    Confidences = {54, 55, 69, 70, 84, 85}
    Closes = {2, 20}
    ATRs = {Unknown, 0, 1, 11, 12}
    Volatilities = {Unknown, 34, 35, 49, 50, 79, 80}
    Averages = {Unknown, 21}
    RSIs = {Unknown, 70, 71}
    Qualities = {"eligible", "ineligible", Unknown}
    Multipliers = {Unknown, 0, 25}
    Unknown = Unknown
    RiskUnit = 25
    MaxRiskUnits = 25
    MaxPosition = 500
    GapCap = 100
    MinimumConfidence = 55
    MediumConfidence = 70
    FullConfidence = 85
    EntryBelow = 25
    EntryAbove = 10
    StopMultiple = 150
    RewardRisk = 2
    Elevated = 35
    High = 50
    Maximum = 80
CHECK_DEADLOCK FALSE
INVARIANTS
    NoPositionWithoutEvidence
    LossIsBounded
    NoLargerWhenWorse
PROPERTIES
    GatesOnlyTighten
