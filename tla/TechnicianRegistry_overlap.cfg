SPECIFICATION Spec
CONSTANTS
  t1 = t1
  t2 = t2
  c1 = c1
  c2 = c2
  NoTech = NoTech
  Technicians <- OneTechnician
  ChildCount = 2
  Calls <- TwoCalls
  WorkStatuses <- OnDuty
  AdminStatuses <- Suspension
  MaxInFlight = 2
  MaxFailures = 1
  MaxRestarts = 1
SYMMETRY Symmetric
INVARIANTS TypeOK CopyAgrees AdmitsOnlyApproved RegistrationComplete
CHECK_DEADLOCK FALSE
