------------------------ MODULE MCTechnicianRegistry ------------------------
(* Small instances of TechnicianRegistry for TLC. *)
EXTENDS TechnicianRegistry, TLC

CONSTANTS t1, t2, c1, c2

OneTechnician == {t1}
TwoCalls == {c1, c2}

Suspension == {"suspended"}
OnDuty == {"offline", "available"}

Symmetric == Permutations(Calls) \cup Permutations(Technicians)
=============================================================================
