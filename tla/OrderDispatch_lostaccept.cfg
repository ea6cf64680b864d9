SPECIFICATION Spec
CONSTANTS
  t1 = t1
  t2 = t2
  c1 = c1
  c2 = c2
  a1 = a1
  d1 = d1
  d2 = d2
  d3 = d3
  NoTech = NoTech
  Technicians <- TwoTechnicians
  CustomerCalls <- TwoCustomers
  AdminCalls <- NoCalls
  TechnicianCalls <- TwoTechnicianCalls
  AdminStatuses <- NoStatuses
  MaxInFlight = 2
  MaxQuotes = 0
  MaxFailures = 0
SYMMETRY Symmetric
INVARIANTS TechnicianKeepsOrder
CHECK_DEADLOCK FALSE
