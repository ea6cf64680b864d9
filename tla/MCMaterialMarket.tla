--------------------------- MODULE MCMaterialMarket ---------------------------
(* Small instances of MaterialMarket for TLC. *)
EXTENDS MaterialMarket, TLC

CONSTANTS m1, m2, o1, o2, s1, c1, c2

TwoMaterials == {m1, m2}
TwoOrders == {o1, o2}
OneSeller == {s1}
TwoTrades == {c1, c2}

OneOrTwo == {1, 2}

Symmetric == Permutations(Trades) \cup Permutations(Materials) \cup Permutations(Orders)
=============================================================================
