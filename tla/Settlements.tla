----------------------------- MODULE Settlements -----------------------------
(***************************************************************************)
(* What a technician gets for a completed job: the settlement rows, the    *)
(* idempotency keys of administrators and the cancellation of payments     *)
(* (AdminService, and the completion and payout request of OrdersService). *)
(*                                                                         *)
(* A settlement belongs to one order and its technician.  Rows are read,   *)
(* checked and then updated without a condition; the answer to a keyed     *)
(* call is stored after its effect.                                        *)
(***************************************************************************)
EXTENDS Integers, FiniteSets

CONSTANTS
    Settlements,
    NoSettlement,
    Calls,            \* calls that may be in flight
    Keys,             \* idempotency keys of clients
    NoKey,            \* the call has none
    GrossAmounts,     \* totals of a completed order
    FeeRates,         \* technicians.platform_fee_rate
    Adjustments,      \* what administrators add to a payout
    MaxConfirmations, \* bound: confirmations that arrive in a behaviour
    MaxInFlight,      \* bound: calls in flight at once
    MaxFailures       \* bound: statements that fail in a behaviour

ASSUME SettlementsAssumption ==
    /\ NoSettlement \notin Settlements
    /\ NoKey \notin Keys
    /\ GrossAmounts \subseteq Nat
    /\ FeeRates \subseteq 0..100
    /\ Adjustments \subseteq Int
    /\ MaxConfirmations \in Nat
    /\ MaxFailures \in Nat

VARIABLES
    row,        \* order_settlements
    payment,    \* payments: the product payment of the settlement's order
    bank,       \* technicians.bank_verification_status, with the account filled in
    saved,      \* idempotency_keys: the settlement (or its payment) answered for
    req,        \* the calls in flight
    failures,   \* statements that failed so far
    arrived,    \* confirmations that have arrived
    applied,    \* history: how often each key has confirmed each settlement
    due,        \* history: the payout with every adjustment since completion
    course      \* history: serial until calls overlap

history == <<applied, due, course>>

vars == <<row, payment, bank, saved, req, failures, arrived, history>>

Statuses == {"pending", "confirmed", "paid", "held", "cancelled"}

Dates == {"unset", "set"}

\* paidAt: paid_at;  requestedAt: payout_requested_at.
Row == [status: Statuses \cup {"none"}, paidAt: Dates, requestedAt: Dates, payout: Nat]

\* idempotency_keys is unique per scope and key.
Scopes == {"settlement_confirm", "payment_cancel"}

Ops == Scopes \cup {"status", "request", "complete"}

\* What a call is about to do: look its key up, read what it checks, check the
\* bank account, write, save its answer.
Steps == {"idle", "lookup", "read", "bank", "write", "save"}

\* amount: the adjustment or the payout to write.
Req == [pc: Steps, op: Ops, of: Settlements \cup {NoSettlement}, key: Keys \cup {NoKey},
        status: Statuses, adjustment: Adjustments \cup {0}, payout: Nat]

Idle == [pc |-> "idle", op |-> "status", of |-> NoSettlement, key |-> NoKey,
         status |-> "pending", adjustment |-> 0, payout |-> 0]

TypeOK ==
    /\ row \in [Settlements -> Row]
    /\ payment \in [Settlements -> {"paid", "cancelled"}]
    /\ bank \in {"pending", "verified"}
    /\ saved \in [Scopes \X Keys -> Settlements \cup {NoSettlement}]
    /\ req \in [Calls -> Req]
    /\ failures \in 0..MaxFailures
    /\ arrived \in 0..MaxConfirmations
    /\ applied \in [Keys \X Settlements -> Nat]
    /\ due \in [Settlements -> Nat]
    /\ course \in {"serial", "overlapping"}

Init ==
    /\ row = [s \in Settlements |->
                [status |-> "none", paidAt |-> "unset", requestedAt |-> "unset", payout |-> 0]]
    /\ payment = [s \in Settlements |-> "paid"]
    /\ bank = "pending"
    /\ saved = [a \in Scopes \X Keys |-> NoSettlement]
    /\ req = [w \in Calls |-> Idle]
    /\ failures = 0
    /\ arrived = 0
    /\ applied = [a \in Keys \X Settlements |-> 0]
    /\ due = [s \in Settlements |-> 0]
    /\ course = "serial"

-----------------------------------------------------------------------------
(* Helpers *)

At(w, pc) == req[w].pc = pc

Doing(w, op) == req[w].op = op

Of(w) == req[w].of

Key(w) == req[w].key

InFlight == {w \in Calls : ~At(w, "idle")}

Exists(s) == row[s].status # "none"

\* mapSettlementStatus: what administrators are shown.
Shown(r) == IF r.paidAt = "set" THEN "paid" ELSE r.status

\* A bug: a payout may become negative.
Unclamped(n) == n

AtLeastZero(n) == IF n >= 0 THEN n ELSE 0

\* A rate up to 1 is taken for a fraction.
Percent(rate) == IF rate = 1 THEN 100 ELSE rate

\* Math.round of the platform's share.
Fee(gross, rate) == (2 * gross * Percent(rate) + 100) \div 200

Payout(gross, rate) == gross - Fee(gross, rate)

\* A call arrives.
Begin(w, c) ==
    /\ At(w, "idle")
    /\ Cardinality(InFlight) < MaxInFlight
    /\ req' = [req EXCEPT ![w] = c]
    /\ course' = IF InFlight = {} THEN course ELSE "overlapping"
    /\ UNCHANGED <<row, payment, bank, saved, failures, applied, due>>

Call(op, s, pc) == [Idle EXCEPT !.op = op, !.of = s, !.pc = pc]

Goto(w, pc) == req' = [req EXCEPT ![w].pc = pc]

Finish(w) == req' = [req EXCEPT ![w] = Idle]

Answer(w) == saved[<<req[w].op, Key(w)>>]

-----------------------------------------------------------------------------
(* Arrivals *)

Confirm(w, s) ==
    /\ arrived < MaxConfirmations
    /\ arrived' = arrived + 1
    /\ \E k \in Keys \cup {NoKey}, a \in Adjustments :
         Begin(w, [Call("settlement_confirm", s, "lookup") EXCEPT !.key = k, !.adjustment = a])

CancelPayment(w, s) ==
    /\ \E k \in Keys \cup {NoKey} :
         Begin(w, [Call("payment_cancel", s, "lookup") EXCEPT !.key = k])
    /\ UNCHANGED arrived

\* updateSettlementStatus, and deleteSettlement with cancelled.
UpdateStatus(w, s) ==
    /\ \E status \in Statuses : Begin(w, [Call("status", s, "write") EXCEPT !.status = status])
    /\ UNCHANGED arrived

\* technicianRequestSettlementPayout
RequestPayout(w, s) ==
    /\ Begin(w, Call("request", s, "read"))
    /\ UNCHANGED arrived

\* upsertSettlementForCompletedJob, with the technician's rate it has read.  The
\* job of an order may be reopened and completed again.
Complete(w, s) ==
    /\ \E gross \in GrossAmounts, rate \in FeeRates :
         Begin(w, [Call("complete", s, "write") EXCEPT !.payout = Payout(gross, rate)])
    /\ UNCHANGED arrived

\* updateByAdmin of the technicians.
VerifyBank ==
    /\ bank' \in {"pending", "verified"} \ {bank}
    /\ course' = IF InFlight = {} THEN course ELSE "overlapping"
    /\ UNCHANGED <<row, payment, saved, req, failures, arrived, applied, due>>

-----------------------------------------------------------------------------
(* Steps *)

\* A bug: the key is taken before the work is done.
LookupReserves(w) ==
    /\ At(w, "lookup")
    /\ IF Key(w) \in Keys /\ Answer(w) # NoSettlement
         THEN Finish(w) /\ UNCHANGED saved
         ELSE /\ Goto(w, "read")
              /\ saved' = IF Key(w) \in Keys THEN [saved EXCEPT ![<<req[w].op, Key(w)>>] = Of(w)] ELSE saved
    /\ UNCHANGED <<row, payment, bank, failures, arrived, history>>

\* A bug: stored answers are not looked at.
LookupNothing(w) ==
    /\ At(w, "lookup")
    /\ Goto(w, "read")
    /\ UNCHANGED <<row, payment, bank, saved, failures, arrived, history>>

\* getIdempotentResponse: a stored answer is given again.
Lookup(w) ==
    /\ At(w, "lookup")
    /\ IF Key(w) \in Keys /\ Answer(w) # NoSettlement
         THEN Finish(w)
         ELSE Goto(w, "read")
    /\ UNCHANGED <<row, payment, bank, saved, failures, arrived, history>>

ConfirmRead(w) ==
    /\ At(w, "read")
    /\ Doing(w, "settlement_confirm")
    /\ IF Exists(Of(w))
         THEN req' = [req EXCEPT ![w].pc = "write",
                                 ![w].payout = AtLeastZero(row[Of(w)].payout + req[w].adjustment)]
         ELSE Finish(w)
    /\ UNCHANGED <<row, payment, bank, saved, failures, arrived, history>>

CancelRead(w) ==
    /\ At(w, "read")
    /\ Doing(w, "payment_cancel")
    /\ Goto(w, "write")
    /\ UNCHANGED <<row, payment, bank, saved, failures, arrived, history>>

RequestRead(w) ==
    /\ At(w, "read")
    /\ Doing(w, "request")
    /\ IF row[Of(w)].status \in {"pending", "held"} THEN Goto(w, "bank") ELSE Finish(w)
    /\ UNCHANGED <<row, payment, bank, saved, failures, arrived, history>>

RequestBank(w) ==
    /\ At(w, "bank")
    /\ IF bank = "verified" THEN Goto(w, "write") ELSE Finish(w)
    /\ UNCHANGED <<row, payment, bank, saved, failures, arrived, history>>

\* A bug: the adjustment is written in place of the payout.
ConfirmOver(w) ==
    /\ At(w, "write")
    /\ Doing(w, "settlement_confirm")
    /\ row' = [row EXCEPT ![Of(w)].payout = AtLeastZero(req[w].adjustment), ![Of(w)].status = "confirmed"]
    /\ due' = [due EXCEPT ![Of(w)] = AtLeastZero(@ + req[w].adjustment)]
    /\ applied' = [a \in Keys \X Settlements |->
                     IF a = <<Key(w), Of(w)>> THEN applied[a] + 1 ELSE applied[a]]
    /\ Goto(w, "save")
    /\ UNCHANGED <<payment, bank, saved, failures, arrived, course>>

ConfirmWrite(w) ==
    /\ At(w, "write")
    /\ Doing(w, "settlement_confirm")
    /\ row' = [row EXCEPT ![Of(w)].payout = req[w].payout, ![Of(w)].status = "confirmed"]
    /\ due' = [due EXCEPT ![Of(w)] = AtLeastZero(@ + req[w].adjustment)]
    /\ applied' = [a \in Keys \X Settlements |->
                     IF a = <<Key(w), Of(w)>> THEN applied[a] + 1 ELSE applied[a]]
    /\ Goto(w, "save")
    /\ UNCHANGED <<payment, bank, saved, failures, arrived, course>>

CancelWrite(w) ==
    /\ At(w, "write")
    /\ Doing(w, "payment_cancel")
    /\ payment' = [payment EXCEPT ![Of(w)] = "cancelled"]
    /\ Goto(w, "save")
    /\ UNCHANGED <<row, bank, saved, failures, arrived, history>>

\* A bug: a status other than paid takes the date back.
StatusClears(w) ==
    /\ At(w, "write")
    /\ Doing(w, "status")
    /\ row' = IF Exists(Of(w))
                THEN [row EXCEPT ![Of(w)].status = req[w].status,
                                 ![Of(w)].paidAt = IF req[w].status = "paid" THEN "set" ELSE "unset"]
                ELSE row
    /\ Finish(w)
    /\ UNCHANGED <<payment, bank, saved, failures, arrived, history>>

\* Whatever the status is; the date of payment is only ever set here.
StatusWrite(w) ==
    /\ At(w, "write")
    /\ Doing(w, "status")
    /\ row' = IF Exists(Of(w))
                THEN [row EXCEPT ![Of(w)].status = req[w].status,
                                 ![Of(w)].paidAt = IF req[w].status = "paid" THEN "set" ELSE @]
                ELSE row
    /\ Finish(w)
    /\ UNCHANGED <<payment, bank, saved, failures, arrived, history>>

RequestWrite(w) ==
    /\ At(w, "write")
    /\ Doing(w, "request")
    /\ row' = [row EXCEPT ![Of(w)].status = "confirmed", ![Of(w)].requestedAt = "set"]
    /\ Finish(w)
    /\ UNCHANGED <<payment, bank, saved, failures, arrived, history>>

\* The upsert starts the settlement over; it leaves payout_requested_at alone.
CompleteWrite(w) ==
    /\ At(w, "write")
    /\ Doing(w, "complete")
    /\ row' = [row EXCEPT ![Of(w)].status = "pending", ![Of(w)].paidAt = "unset",
                          ![Of(w)].payout = req[w].payout]
    /\ due' = [due EXCEPT ![Of(w)] = req[w].payout]
    /\ Finish(w)
    /\ UNCHANGED <<payment, bank, saved, failures, arrived, applied, course>>

\* A bug: the answer is not stored.
SaveNothing(w) ==
    /\ At(w, "save")
    /\ Finish(w)
    /\ UNCHANGED <<row, payment, bank, saved, failures, arrived, history>>

\* saveIdempotentResponse, after the audit rows.
Save(w) ==
    /\ At(w, "save")
    /\ saved' = IF Key(w) \in Keys THEN [saved EXCEPT ![<<req[w].op, Key(w)>>] = Of(w)] ELSE saved
    /\ Finish(w)
    /\ UNCHANGED <<row, payment, bank, failures, arrived, history>>

\* A statement fails, or the process stops: what was written remains.
Fail(w) ==
    /\ ~At(w, "idle")
    /\ failures < MaxFailures
    /\ failures' = failures + 1
    /\ Finish(w)
    /\ UNCHANGED <<row, payment, bank, saved, arrived, history>>

-----------------------------------------------------------------------------
(* Specification *)

Arrive(w, s) ==
    \/ Confirm(w, s) \/ CancelPayment(w, s) \/ UpdateStatus(w, s) \/ RequestPayout(w, s)
    \/ Complete(w, s)

Read(w) == Lookup(w) \/ ConfirmRead(w) \/ CancelRead(w) \/ RequestRead(w) \/ RequestBank(w)

Write(w) ==
    \/ ConfirmWrite(w) \/ CancelWrite(w) \/ StatusWrite(w) \/ RequestWrite(w) \/ CompleteWrite(w)
    \/ Save(w)

Next ==
    \/ \E w \in Calls, s \in Settlements : Arrive(w, s)
    \/ \E w \in Calls : Read(w) \/ Write(w) \/ Fail(w)
    \/ VerifyBank

Spec == Init /\ [][Next]_vars

-----------------------------------------------------------------------------
(* Properties *)

\* An answer that is stored was earned: the settlement was confirmed under this
\* key, the payment is cancelled.  However calls overlap and fail.
AnswersAreTrue ==
    \A k \in Keys, s \in Settlements :
        /\ saved[<<"settlement_confirm", k>>] = s => applied[<<k, s>>] > 0
        /\ saved[<<"payment_cancel", k>>] = s => payment[s] = "cancelled"

\* The answer for a key is stored, and whoever looked before has finished.
Answered(k) ==
    /\ saved[<<"settlement_confirm", k>>] # NoSettlement
    /\ \A w \in Calls :
         Doing(w, "settlement_confirm") /\ Key(w) = k => req[w].pc \in {"idle", "lookup"}

\* From then on nobody gets past the lookup with this key, and it confirms
\* nothing any more.
AnsweredIsFinal ==
    [][\A k \in Keys :
         Answered(k) =>
             /\ Answered(k)'
             /\ \A s \in Settlements : applied'[<<k, s>>] = applied[<<k, s>>]]_vars

\* While calls do not overlap, each failure lets a retry confirm once more, and
\* nothing else does.
RetriesAreFailures ==
    course = "serial" =>
        \A k \in Keys, s \in Settlements : applied[<<k, s>>] <= failures + 1

\* While calls do not overlap, the payout is what was earned and every
\* adjustment since, whatever statuses were given in between.
PayoutAddsUp ==
    course = "serial" => \A s \in Settlements : Exists(s) => row[s].payout = due[s]

\* What is shown as paid is shown so until the job is completed again, whatever
\* is confirmed, requested, held or deleted meanwhile.
PaidStaysShown ==
    [][\A s \in Settlements :
         Shown(row[s]) = "paid" /\ Shown(row'[s]) # "paid" =>
             \E w \in Calls : At(w, "write") /\ Doing(w, "complete") /\ Of(w) = s]_vars
=============================================================================
