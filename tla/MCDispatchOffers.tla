-------------------------- MODULE MCDispatchOffers --------------------------
(* Small instances of DispatchOffers for TLC. *)
EXTENDS DispatchOffers, TLC

CONSTANTS t1, t2, o1, o2, c1, c2, near, far

TwoTechnicians == {t1, t2}
TwoOrders == {o1, o2}
TwoCalls == {c1, c2}
BothRegions == {near, far}
BothKinds == {"same_day", "reservation"}

\* One order for today and near by, the other a reservation far away.
Today == [o \in Orders |-> IF o = o1 THEN "same_day" ELSE "reservation"]
Places == [o \in Orders |-> IF o = o1 THEN near ELSE far]

\* One technician who works near by, one who works anywhere but not today.
Profiles == [t \in Technicians |-> IF t = t1 THEN [regions |-> {near}, kinds |-> BothKinds]
                                    ELSE [regions |-> {}, kinds |-> {"reservation"}]]

\* Reservations far away; today, anywhere.
SomeWishes == {[regions |-> {far}, kinds |-> {"reservation"}], [regions |-> {}, kinds |-> {"same_day"}]}

Symmetric == Permutations(Calls)
=============================================================================
