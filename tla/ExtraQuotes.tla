----------------------------- MODULE ExtraQuotes -----------------------------
(***************************************************************************)
(* Extra quotes of one order: a technician asks for more money on site,    *)
(* the customer or an administrator answers, the amount is charged and     *)
(* added to the order's total (ExtraQuotesService, applyPaidExtraQuote and *)
(* markExtraPaymentPending of OrdersService, approve-and-pay of            *)
(* AdminService).                                                          *)
(*                                                                         *)
(* A quote's status is checked on one read and written later without a     *)
(* condition.  A charge touches three tables in three statements: the      *)
(* payment, the quote, and the whole order row from a snapshot.            *)
(***************************************************************************)
EXTENDS Naturals, FiniteSets

CONSTANTS
    Quotes,       \* ids of the order's extra quotes
    Amount,       \* total_amount of each
    Calls,        \* calls that may be in flight
    NoQuote,      \* the call is not about a quote
    OtherStatuses, \* statuses other handlers of the order may write
    MaxInFlight,  \* bound: calls in flight at once
    MaxFailures   \* bound: statements that fail in a behaviour

\* Statuses of an order whose technician is at work or done.
OrderStatuses == {"working", "extra_payment_pending", "completed"}

ASSUME QuotesAssumption ==
    /\ Amount \in [Quotes -> Nat]
    /\ OtherStatuses \subseteq OrderStatuses
    /\ NoQuote \notin Quotes
    /\ MaxFailures \in Nat

VARIABLES
    quote,      \* order_extra_quotes: the status of each
    charged,    \* payments of type extra: how many name the quote
    collected,  \* the sum of the amounts of those payments
    order,      \* orders: order_status and extra_total_price
    req,        \* the calls in flight
    failures,   \* statements that failed so far
    approved,   \* history: quotes that were approved for the customer
    course      \* history: serial until calls overlap or a statement fails

history == <<approved, course>>

vars == <<quote, charged, collected, order, req, failures, history>>

Answers == {"approved", "rejected", "cancelled"}
QuoteStatuses == Answers \cup {"none", "requested", "paid"}

OrderRow == [status: OrderStatuses, extra: Nat]

\* What a call is about to execute:
\*   items    insert the items of its quote    pending  read the order to mark it
\*   list     look at the quote                check    read it to answer
\*   answer   write the answer                 charge   read it to charge
\*   pay      insert the payment               mark     write paid
\*   apply    read the order to add the amount replace  write the order's row
Steps == {"idle", "items", "pending", "list", "check", "answer", "charge", "pay", "mark",
          "apply", "replace"}

\* thenPay: the customer approves and pays in one call.
Req == [pc: Steps, quote: Quotes \cup {NoQuote}, to: Answers, thenPay: BOOLEAN, row: OrderRow]

Start == [status |-> "working", extra |-> 0]

Idle == [pc |-> "idle", quote |-> NoQuote, to |-> "approved", thenPay |-> FALSE, row |-> Start]

TypeOK ==
    /\ quote \in [Quotes -> QuoteStatuses]
    /\ charged \in [Quotes -> Nat]
    /\ collected \in Nat
    /\ order \in OrderRow
    /\ req \in [Calls -> Req]
    /\ failures \in 0..MaxFailures
    /\ approved \in SUBSET Quotes
    /\ course \in {"serial", "disturbed"}

Init ==
    /\ quote = [q \in Quotes |-> "none"]
    /\ charged = [q \in Quotes |-> 0]
    /\ collected = 0
    /\ order = Start
    /\ req = [w \in Calls |-> Idle]
    /\ failures = 0
    /\ approved = {}
    /\ course = "serial"

-----------------------------------------------------------------------------
(* Helpers *)

At(w, pc) == req[w].pc = pc

InFlight == {w \in Calls : ~At(w, "idle")}

\* A call arrives.
Begin(w, c) ==
    /\ At(w, "idle")
    /\ Cardinality(InFlight) < MaxInFlight
    /\ req' = [req EXCEPT ![w] = c]
    /\ course' = IF InFlight = {} THEN course ELSE "disturbed"

Goto(w, pc) == req' = [req EXCEPT ![w].pc = pc]

Finish(w) == req' = [req EXCEPT ![w] = Idle]

\* The call goes on if the condition holds and is refused otherwise.
Proceed(w, condition, pc) == IF condition THEN Goto(w, pc) ELSE Finish(w)

\* The call has read the order and is going to write the row back.
WriteBack(w, row) == req' = [req EXCEPT ![w].pc = "replace", ![w].row = row]

\* The status of the quote a call is about.
Status(w) == quote[req[w].quote]

\* A bug: a quote that was charged can still be cancelled.
MayCancelPaid(status, to) ==
    IF to = "cancelled" THEN status \notin {"rejected", "cancelled"} ELSE status = "requested"

\* transitionQuote: approve and reject a requested quote, cancel an open one.
MayAnswer(status, to) ==
    IF to = "cancelled" THEN status \in {"requested", "approved"} ELSE status = "requested"

-----------------------------------------------------------------------------
(* The technician files a quote *)

\* The order has been read; the technician has access to it.
Create(w, q) ==
    /\ quote[q] = "none"
    /\ Begin(w, [Idle EXCEPT !.pc = "items", !.quote = q])
    /\ quote' = [quote EXCEPT ![q] = "requested"]
    /\ UNCHANGED <<charged, collected, order, failures, approved>>

InsertItems(w) ==
    /\ At(w, "items")
    /\ Goto(w, "pending")
    /\ UNCHANGED <<quote, charged, collected, order, failures, history>>

\* A bug: the amount is billed when it is asked for.
PendingBilled(w) ==
    /\ At(w, "pending")
    /\ WriteBack(w, [status |-> "extra_payment_pending",
                     extra |-> order.extra + Amount[req[w].quote]])
    /\ UNCHANGED <<quote, charged, collected, order, failures, history>>

\* markExtraPaymentPending reads the order again, in whatever status.
PendingRead(w) ==
    /\ At(w, "pending")
    /\ WriteBack(w, [order EXCEPT !.status = "extra_payment_pending"])
    /\ UNCHANGED <<quote, charged, collected, order, failures, history>>

-----------------------------------------------------------------------------
(* The quote is answered *)

\* An administrator answers or charges; the customer approves and pays.
Ask(w, q) ==
    /\ quote[q] # "none"
    /\ \/ \E to \in Answers : Begin(w, [Idle EXCEPT !.pc = "check", !.quote = q, !.to = to])
       \/ Begin(w, [Idle EXCEPT !.pc = "charge", !.quote = q])
       \/ Begin(w, [Idle EXCEPT !.pc = "list", !.quote = q, !.thenPay = TRUE])
    /\ UNCHANGED <<quote, charged, collected, order, failures, approved>>

\* memberApproveAndMockPayExtraQuote approves a requested quote before charging.
ListRead(w) ==
    /\ At(w, "list")
    /\ Goto(w, IF Status(w) = "requested" THEN "check" ELSE "charge")
    /\ UNCHANGED <<quote, charged, collected, order, failures, history>>

CheckAnswer(w) ==
    /\ At(w, "check")
    /\ Proceed(w, MayAnswer(Status(w), req[w].to), "answer")
    /\ UNCHANGED <<quote, charged, collected, order, failures, history>>

\* The update is not conditional on the status that was checked.
WriteAnswer(w) ==
    /\ At(w, "answer")
    /\ quote' = [quote EXCEPT ![req[w].quote] = req[w].to]
    /\ approved' = approved \cup (IF req[w].to = "approved" THEN {req[w].quote} ELSE {})
    /\ Proceed(w, req[w].thenPay, "charge")
    /\ UNCHANGED <<charged, collected, order, failures, course>>

-----------------------------------------------------------------------------
(* adminMockPay *)

\* A bug: only a closed quote is refused.
ChargeOpen(w) ==
    /\ At(w, "charge")
    /\ Proceed(w, Status(w) \notin {"paid", "rejected", "cancelled"}, "pay")
    /\ UNCHANGED <<quote, charged, collected, order, failures, history>>

ChargeRead(w) ==
    /\ At(w, "charge")
    /\ Proceed(w, Status(w) = "approved", "pay")
    /\ UNCHANGED <<quote, charged, collected, order, failures, history>>

\* A bug: the order has an extra payment already, so none is inserted.
PayOncePerOrder(w) ==
    /\ At(w, "pay")
    /\ IF collected = 0
         THEN /\ charged' = [charged EXCEPT ![req[w].quote] = @ + 1]
              /\ collected' = collected + Amount[req[w].quote]
         ELSE UNCHANGED <<charged, collected>>
    /\ Goto(w, "mark")
    /\ UNCHANGED <<quote, order, failures, history>>

InsertPayment(w) ==
    /\ At(w, "pay")
    /\ charged' = [charged EXCEPT ![req[w].quote] = @ + 1]
    /\ collected' = collected + Amount[req[w].quote]
    /\ Goto(w, "mark")
    /\ UNCHANGED <<quote, order, failures, history>>

MarkPaid(w) ==
    /\ At(w, "mark")
    /\ quote' = [quote EXCEPT ![req[w].quote] = "paid"]
    /\ Goto(w, "apply")
    /\ UNCHANGED <<charged, collected, order, failures, history>>

\* The row after a quote was paid: the amount is added, the work goes on.
Paid(row, q) ==
    [status |-> IF row.status = "extra_payment_pending" THEN "working" ELSE row.status,
     extra  |-> row.extra + Amount[q]]

\* A bug: an order that does not wait for a payment is left as it is.
ApplyIfPending(w) ==
    /\ At(w, "apply")
    /\ IF order.status = "extra_payment_pending"
         THEN WriteBack(w, Paid(order, req[w].quote))
         ELSE Finish(w)
    /\ UNCHANGED <<quote, charged, collected, order, failures, history>>

\* applyPaidExtraQuote.
ApplyRead(w) ==
    /\ At(w, "apply")
    /\ WriteBack(w, Paid(order, req[w].quote))
    /\ UNCHANGED <<quote, charged, collected, order, failures, history>>

-----------------------------------------------------------------------------
(* The order's row *)

\* Any other handler of the order reads the row and sets its status; see
\* OrderDispatch.
OtherRead(w) ==
    /\ \E s \in OtherStatuses :
         Begin(w, [Idle EXCEPT !.pc = "replace", !.row = [order EXCEPT !.status = s]])
    /\ UNCHANGED <<quote, charged, collected, order, failures, approved>>

\* replace overwrites the whole row.
Replace(w) ==
    /\ At(w, "replace")
    /\ order' = req[w].row
    /\ Finish(w)
    /\ UNCHANGED <<quote, charged, collected, failures, history>>

\* A statement fails, or the process ends: what was written remains.
Fail(w) ==
    /\ ~At(w, "idle")
    /\ failures < MaxFailures
    /\ failures' = failures + 1
    /\ course' = "disturbed"
    /\ Finish(w)
    /\ UNCHANGED <<quote, charged, collected, order, approved>>

-----------------------------------------------------------------------------
(* Specification *)

Arrive(w, q) == Create(w, q) \/ Ask(w, q)

Continue(w) ==
    \/ InsertItems(w) \/ PendingRead(w)
    \/ ListRead(w) \/ CheckAnswer(w) \/ WriteAnswer(w)
    \/ ChargeRead(w) \/ InsertPayment(w) \/ MarkPaid(w) \/ ApplyRead(w)
    \/ Replace(w)

Next ==
    \/ \E w \in Calls, q \in Quotes : Arrive(w, q)
    \/ \E w \in Calls : OtherRead(w) \/ Continue(w) \/ Fail(w)

Spec == Init /\ [][Next]_vars

-----------------------------------------------------------------------------
(* Properties *)

\* Build specification: nothing extra is charged before the customer approved
\* it, however answers and charges overlap.
NoChargeUnapproved ==
    \A q \in Quotes : charged[q] > 0 => q \in approved

\* A quote that says it is paid has a payment of its own in the books.
PaidIsCharged ==
    \A q \in Quotes : quote[q] = "paid" => charged[q] > 0

\* The order never bills more extra than was collected, although its row is
\* overwritten from snapshots and a charge may end after any of its statements.
BillsOnlyCollected == order.extra <= collected

\* While calls come one after the other and nothing fails, what was collected is
\* what the order bills once a call is over, whatever answers, charges and other
\* changes of the row came before.
BillsAllCollected == course = "serial" /\ InFlight = {} => order.extra = collected

\* While calls come one after the other, a quote that was paid, rejected or
\* cancelled keeps its status.
ClosedStaysClosed ==
    [][\A q \in Quotes : course = "serial" /\ quote[q] \in {"paid", "rejected", "cancelled"} =>
         quote'[q] = quote[q]]_vars

\* What is promised about the money, as an abstract specification of its own: the
\* statements of all calls, in whatever order they run and fail, are its three steps.
Billing == INSTANCE ExtraBilling WITH
    consent <- approved,
    receipts <- charged,
    bill <- order.extra

BillingSpec == Billing!Spec
=============================================================================
