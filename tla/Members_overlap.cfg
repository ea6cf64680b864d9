SPECIFICATION Spec
CONSTANTS
    a1 = a1
    a2 = a2
    p1 = p1
    p2 = p2
    k1 = k1
    k2 = k2
    g1 = g1
    g2 = g2
    d1 = d1
    d2 = d2
    s1 = s1
    c1 = c1
    c2 = c2
    Accounts <- TwoAccounts
    Phones <- TwoPhones
    Passwords <- TwoPasswords
    Coupons <- TwoCoupons
    Addresses <- TwoAddresses
    Assets <- OneAsset
    Nobody = nobody
    Gone = gone
    Calls <- TwoCalls
    MaxArrivals = 4
    MaxInFlight = 2
    MaxFailures = 1
INVARIANTS OneSignupCoupon AssetAtHome OneDefaultAddress SpentOnce RegisteredGetsIn
SYMMETRY Symmetric
CHECK_DEADLOCK FALSE
