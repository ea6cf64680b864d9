---------------------------- MODULE MCSettlements ----------------------------
(* Small instances of Settlements for TLC. *)
EXTENDS Settlements, TLC

CONSTANTS s1, k1, c1, c2

OneSettlement == {s1}
OneKey == {k1}
TwoCalls == {c1, c2}

Total == {5}
UsualRate == {20}
\* A bonus, and a deduction larger than any payout.
BonusOrDeduction == {-6, 1}

Symmetric == Permutations(Calls)
=============================================================================
