----------------------------- MODULE MCCatalog -----------------------------
(* A small instance of Catalog for TLC. *)
EXTENDS Catalog, TLC

CONSTANTS p1, p2, p3, q1, k1, k2, c1, c2

ThreeProducts == {p1, p2, p3}
OneAddon == {q1}
OneEach == {p1, q1}
TwoCodes == {k1, k2}
CodeOf == p1 :> k1 @@ q1 :> k2
TwoPrices == {1, 2}
TwoCalls == {c1, c2}

Symmetric == Permutations({p2, p3}) \cup Permutations(Calls)
=============================================================================
