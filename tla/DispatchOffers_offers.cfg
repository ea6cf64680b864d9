SPECIFICATION Spec
CONSTANTS
    t1 = t1
    t2 = t2
    o1 = o1
    o2 = o2
    c1 = c1
    c2 = c2
    near = near
    far = far
    Technicians <- TwoTechnicians
    Orders <- TwoOrders
    Regions <- BothRegions
    Kinds <- BothKinds
    Urgent = "same_day"
    KindOf <- Today
    RegionOf <- Places
    Profile <- Profiles
    Wishes <- SomeWishes
    Nobody = nobody
    NoOrder = noorder
    Calls <- TwoCalls
    MaxArrivals = 3
    MaxInFlight = 2
    MaxFailures = 1
INVARIANTS TakersAreTold RejectedStaysAway
SYMMETRY Symmetric
CHECK_DEADLOCK FALSE
