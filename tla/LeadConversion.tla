--------------------------- MODULE LeadConversion ---------------------------
(***************************************************************************)
(* What the conversion of emergency leads promises: a lead that is ready   *)
(* (its deadline passed, or an administrator asked) is given one order,    *)
(* once and for ever, and no order is given to two leads.                  *)
(***************************************************************************)
CONSTANTS Leads, Orders, NoOrder

VARIABLES
    ready,  \* leads that may be converted
    link    \* the order of a lead, or NoOrder

Init ==
    /\ ready = {}
    /\ link = [l \in Leads |-> NoOrder]

BecomeReady(l) ==
    /\ ready' = ready \cup {l}
    /\ UNCHANGED link

Convert(l, o) ==
    /\ l \in ready
    /\ link[l] = NoOrder
    /\ \A k \in Leads : link[k] # o
    /\ link' = [link EXCEPT ![l] = o]
    /\ UNCHANGED ready

Next == \E l \in Leads : BecomeReady(l) \/ \E o \in Orders : Convert(l, o)

Spec == Init /\ [][Next]_<<ready, link>>
=============================================================================
