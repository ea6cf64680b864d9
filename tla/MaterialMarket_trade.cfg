SPECIFICATION MarketSpec
CONSTANTS
    m1 = m1
    m2 = m2
    o1 = o1
    o2 = o2
    s1 = s1
    c1 = c1
    c2 = c2
    Materials <- TwoMaterials
    Orders <- TwoOrders
    Sellers <- OneSeller
    Nobody = nobody
    Trades <- TwoTrades
    Supplies <- OneOrTwo
    MinQuantity = 1
    MaxQuantity = 2
    MaxTrades = 4
    MaxInFlight = 2
    MaxAborts = 1
INVARIANTS StockAddsUp
PROPERTY HiddenStaysHidden
SYMMETRY Symmetric
CHECK_DEADLOCK FALSE
