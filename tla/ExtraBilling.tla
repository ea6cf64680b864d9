----------------------------- MODULE ExtraBilling -----------------------------
(***************************************************************************)
(* What the extra quotes of an order promise about money, whoever answers, *)
(* charges and overwrites the order's row: consent is not taken back, a    *)
(* receipt needs consent and stays in the books, and the order bills no    *)
(* more than the books hold.  A quote may be charged twice, and the bill   *)
(* may fall behind or be taken back: that is what the code leaves open.    *)
(***************************************************************************)
EXTENDS Naturals

CONSTANTS Quotes, Amount

VARIABLES
    consent,    \* quotes the customer has agreed to
    receipts,   \* payments per quote
    collected,  \* the sum of their amounts
    bill        \* what the order says was charged extra

Init ==
    /\ consent = {}
    /\ receipts = [q \in Quotes |-> 0]
    /\ collected = 0
    /\ bill = 0

Agree(q) ==
    /\ consent' = consent \cup {q}
    /\ UNCHANGED <<receipts, collected, bill>>

Charge(q) ==
    /\ q \in consent
    /\ receipts' = [receipts EXCEPT ![q] = @ + 1]
    /\ collected' = collected + Amount[q]
    /\ UNCHANGED <<consent, bill>>

Rebill ==
    /\ bill' \in 0..collected
    /\ UNCHANGED <<consent, receipts, collected>>

Next == (\E q \in Quotes : Agree(q) \/ Charge(q)) \/ Rebill

Spec == Init /\ [][Next]_<<consent, receipts, collected, bill>>
=============================================================================
