----------------------------- MODULE MCMembers -----------------------------
(* Small instances of Members for TLC. *)
EXTENDS Members, TLC

CONSTANTS a1, a2, p1, p2, k1, k2, g1, g2, d1, d2, s1, c1, c2

TwoAccounts == {a1, a2}
TwoPhones == {p1, p2}
TwoPasswords == {k1, k2}
TwoCoupons == {g1, g2}
TwoAddresses == {d1, d2}
OneAsset == {s1}
TwoCalls == {c1, c2}

Symmetric ==
    Permutations(Accounts) \cup Permutations(Passwords) \cup Permutations(Coupons)
        \cup Permutations(Addresses) \cup Permutations(Calls)
=============================================================================
