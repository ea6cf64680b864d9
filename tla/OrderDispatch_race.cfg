SPECIFICATION Spec
CONSTANTS
  t1 = t1
  t2 = t2
  c1 = c1
  c2 = c2
  a1 = a1
  d1 = d1
  d2 = d2
  d3 = d3
  NoTech = NoTech
  Technicians <- TwoTechnicians
  CustomerCalls <- OneCustomer
  AdminCalls <- NoCalls
  TechnicianCalls <- ThreeTechnicianCalls
  AdminStatuses <- NoStatuses
  MaxInFlight = 3
  MaxQuotes = 1
  MaxFailures = 1
SYMMETRY Symmetric
INVARIANTS TechnicianKeepsOrder
CHECK_DEADLOCK FALSE
