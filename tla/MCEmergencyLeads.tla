-------------------------- MODULE MCEmergencyLeads --------------------------
(* A small instance of EmergencyLeads for TLC. *)
EXTENDS EmergencyLeads

CONSTANTS c1, l1, o1, o2, o3, o4

OneLead == {l1}
OneCall == {c1}
FourOrders == {o1, o2, o3, o4}
=============================================================================
