---------------------------- MODULE MCExtraQuotes ----------------------------
(* Small instances of ExtraQuotes for TLC. *)
EXTENDS ExtraQuotes, TLC

CONSTANTS q1, q2, c1, c2

TwoQuotes == {q1, q2}
TwoCalls == {c1, c2}

\* Different amounts, so that a lost one is told from a doubled one.
Amounts == (q1 :> 1) @@ (q2 :> 2)

\* The one status that ends the order's work.
Completion == {"completed"}

Symmetric == Permutations(Calls)
=============================================================================
