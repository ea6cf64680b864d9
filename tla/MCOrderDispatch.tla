-------------------------- MODULE MCOrderDispatch --------------------------
(* Small instances of OrderDispatch for TLC. *)
EXTENDS OrderDispatch, TLC

CONSTANTS t1, t2, c1, c2, a1, d1, d2, d3

NoCalls == {}
OneCustomer == {c1}
TwoCustomers == {c1, c2}
OneAdmin == {a1}
OneTechnicianCall == {d1}
TwoTechnicianCalls == {d1, d2}
ThreeTechnicianCalls == {d1, d2, d3}
OneTechnician == {t1}
TwoTechnicians == {t1, t2}

\* What administrators ask for in the runs with interleaved calls.
FewStatuses == {"matching", "cancelled", "refunded"}
NoStatuses == {}

Symmetric == Permutations(Technicians) \cup Permutations(TechnicianCalls)
=============================================================================
