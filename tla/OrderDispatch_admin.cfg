SPECIFICATION Spec
CONSTANTS
  t1 = t1
  t2 = t2
  c1 = c1
  c2 = c2
  a1 = a1
  d1 = d1
  d2 = d2
  d3 = d3
  NoTech = NoTech
  Technicians <- TwoTechnicians
  CustomerCalls <- TwoCustomers
  AdminCalls <- OneAdmin
  TechnicianCalls <- OneTechnicianCall
  AdminStatuses <- FewStatuses
  MaxInFlight = 2
  MaxQuotes = 0
  MaxFailures = 0
SYMMETRY Symmetric
INVARIANTS TypeOK PaymentFitsStatus OpenOrderAnnounced SettledToEntitled
 
