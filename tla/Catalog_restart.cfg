SPECIFICATION Spec
CONSTANTS
    p1 = p1
    p2 = p2
    p3 = p3
    q1 = q1
    k1 = k1
    k2 = k2
    c1 = c1
    c2 = c2
    Products <- ThreeProducts
    Addons <- OneAddon
    Fixtures <- OneEach
    Codes <- TwoCodes
    FixtureCode <- CodeOf
    Prices <- TwoPrices
    FixturePrice = 1
    NoRow = norow
    Calls <- TwoCalls
    MaxArrivals = 4
    MaxFailures = 1
    MaxRestarts = 2
INVARIANTS SoldAsStored StartsWithProducts
SYMMETRY Symmetric
CHECK_DEADLOCK FALSE
