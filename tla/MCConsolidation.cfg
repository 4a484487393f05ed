SPECIFICATION Spec
CONSTANTS
    Rounds = {r1, r2}
    Stocks <- MCStocks
    BatchSize = 3
    MaxCalls = 1
    MaxSummaries = 1
    MaxIncidents = 1
INVARIANT FactsSurvive
PROPERTY StockIsCovered
