SPECIFICATION Spec
CONSTANTS
  t1 = t1
  t2 = t2
  c1 = c1
  c2 = c2
  a1 = a1
  d1 = d1
  d2 = d2
  d3 = d3
  NoTech = NoTech
  Technicians <- OneTechnician
  CustomerCalls <- OneCustomer
  AdminCalls <- OneAdmin
  TechnicianCalls <- OneTechnicianCall
  AdminStatuses <- Statuses
  MaxInFlight = 1
  MaxQuotes = 1
  MaxFailures = 1
SYMMETRY Symmetric
PROPERTIES PaymentForward
