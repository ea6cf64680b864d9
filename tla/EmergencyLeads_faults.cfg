CONSTANTS
  c1 = c1
  l1 = l1
  o1 = o1
  o2 = o2
  o3 = o3
  o4 = o4
  NoLead = NoLead
  NoOrder = NoOrder
  Leads <- OneLead
  Orders <- FourOrders
  Calls <- OneCall
  MaxFailures = 2
  MaxCrashes = 1
SPECIFICATION FairSpec
INVARIANTS
  TypeOK
  OneOrderPerLead
  LinkedOrderIsOffered
  NoEarlyOrder
PROPERTIES
  ConversionSpec
  LateLeadConverted
  StatusRepaired
