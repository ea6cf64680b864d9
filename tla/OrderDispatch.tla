---------------------------- MODULE OrderDispatch ----------------------------
(***************************************************************************)
(* The life of one customer order: payment, dispatch to technicians, the   *)
(* job, and what administrators do to it (OrdersService, the bookings part *)
(* of AdminService, SupabaseOrdersRepository).                             *)
(*                                                                         *)
(* Nearly every handler reads the whole order row, checks it, and writes   *)
(* the whole row back (replace) after at least one await: what another     *)
(* handler wrote in between is overwritten.  Only the acceptance of a      *)
(* dispatch offer is a conditional update in the database.                 *)
(*                                                                         *)
(* Orders do not meet: one order stands for all of them.  A call in flight *)
(* holds the row it is going to write.  Whether a technician is on duty,   *)
(* approved and interested may change at any time, so every check of it    *)
(* has both outcomes.  No state but the calls in flight is in memory: a    *)
(* restart is the failure of every call in flight.                         *)
(***************************************************************************)
EXTENDS Naturals, FiniteSets

CONSTANTS
    Technicians,     \* ids of technicians
    NoTech,          \* assigned_technician_id is null
    CustomerCalls,   \* calls of the customer (payment) that may be in flight
    AdminCalls,      \* calls of administrators
    TechnicianCalls, \* calls of technicians
    AdminStatuses,   \* statuses administrators ask for
    MaxInFlight,     \* bound: calls in flight at once
    MaxQuotes,       \* bound: extra quotes filed for the order
    MaxFailures      \* bound: statements that fail in a behaviour

Statuses ==
    {"created", "payment_pending", "paid", "matching", "assigned", "accepted", "on_the_way",
     "arrived", "diagnosed", "extra_payment_pending", "working", "completed", "cancelled",
     "refunded", "settlement_pending", "settled"}

ASSUME DispatchAssumption ==
    /\ NoTech \notin Technicians
    /\ AdminStatuses \subseteq Statuses
    /\ AdminCalls \cap TechnicianCalls = {}
    /\ AdminCalls \cap CustomerCalls = {}
    /\ CustomerCalls \cap TechnicianCalls = {}
    /\ MaxFailures \in Nat

VARIABLES
    sameDay,    \* schedule_type is same_day, not reservation
    order,      \* orders: order_status, payment_status, assigned_technician_id
    receipts,   \* payments: paid rows of type product
    quotes,     \* order_extra_quotes: how many were filed
    settledTo,  \* order_settlements: the technician the order is settled to
    req,        \* the calls in flight
    failures,   \* statements that failed so far
    announced,  \* history: technicians were told since the order became matching
    winners,    \* history: technicians whose acceptance succeeded, since an
                \* administrator last asked for another status or technician
    entitled    \* history: technicians the order was ever assigned to

vars == <<sameDay, order, receipts, quotes, settledTo, req, failures, announced, winners,
          entitled>>

Calls == CustomerCalls \cup AdminCalls \cup TechnicianCalls

Payments == {"pending", "paid", "failed", "refunded"}
OrderRow == [status: Statuses, pay: Payments, tech: Technicians \cup {NoTech}]

\* What a call is about to execute:
\*   transition  read the order again to patch it   check    look the technician up
\*   patch, confirm, step, complete                 replace the order by req.row
\*   receipt     look for a product payment         pay      insert one
\*   notify      announce the order                 accept   conditional update
\*   photos      look for the work photos           settle   upsert the settlement
\*   quote       insert an extra quote              pending  read the order again
Writes == {"patch", "confirm", "step", "complete"}
Steps  == Writes \cup {"idle", "transition", "check", "receipt", "pay", "notify", "accept",
                       "photos", "settle", "quote", "pending"}

Req == [pc: Steps, row: OrderRow, tech: Technicians \cup {NoTech}, asked: BOOLEAN]

Fresh == [status |-> "created", pay |-> "pending", tech |-> NoTech]

Idle == [pc |-> "idle", row |-> Fresh, tech |-> NoTech, asked |-> FALSE]

TypeOK ==
    /\ sameDay \in BOOLEAN
    /\ order \in OrderRow
    /\ receipts \in Nat
    /\ quotes \in Nat
    /\ settledTo \in Technicians \cup {NoTech}
    /\ req \in [Calls -> Req]
    /\ failures \in 0..MaxFailures
    /\ announced \in BOOLEAN
    /\ winners \in SUBSET Technicians
    /\ entitled \in SUBSET Technicians

\* createDraft leaves a created order; createEmergencyLeadDraft leaves a
\* matching one that was announced and is not paid.
Init ==
    /\ sameDay \in BOOLEAN
    /\ \/ order = Fresh /\ announced = FALSE
       \/ order = [Fresh EXCEPT !.status = "matching"] /\ announced = TRUE
    /\ receipts = 0
    /\ quotes = 0
    /\ settledTo = NoTech
    /\ req = [w \in Calls |-> Idle]
    /\ failures = 0
    /\ winners = {}
    /\ entitled = {}

-----------------------------------------------------------------------------
(* Helpers *)

At(w, pc) == req[w].pc = pc

InFlight == {w \in Calls : ~At(w, "idle")}

\* A call arrives and is answered after its first read: it goes on with row.
Begin(w, pc, row, t, asked) ==
    /\ At(w, "idle")
    /\ Cardinality(InFlight) < MaxInFlight
    /\ req' = [req EXCEPT ![w] = [pc |-> pc, row |-> row, tech |-> t, asked |-> asked]]

Goto(w, pc) == req' = [req EXCEPT ![w].pc = pc]

\* A later read: the call goes on with row instead of what it read before.
Reread(w, pc, row) == req' = [req EXCEPT ![w].pc = pc, ![w].row = row]

Finish(w) == req' = [req EXCEPT ![w] = Idle]

\* A bug: cancelling leaves the payment as it is.
PatchedKeepingPayment(row, s) ==
    [row EXCEPT !.status = s, !.pay = CASE s = "refunded" -> "refunded"
                                        [] s \in {"matching", "assigned"} /\ row.pay = "pending" -> "paid"
                                        [] OTHER -> row.pay]

\* A bug: matching and assigned always count as paid.
PatchedPaid(row, s) ==
    [row EXCEPT !.status = s, !.pay = CASE s = "refunded" -> "refunded"
                                        [] s = "cancelled" -> "failed"
                                        [] s \in {"matching", "assigned"} -> "paid"
                                        [] OTHER -> row.pay]

\* A bug: a cancelled order's payment is given a status payments do not have.
PatchedCancelling(row, s) ==
    [row EXCEPT !.status = s, !.pay = CASE s \in {"refunded", "cancelled"} -> s
                                        [] s \in {"matching", "assigned"} /\ row.pay = "pending" -> "paid"
                                        [] OTHER -> row.pay]

\* patchAdmin with an order status: the payment follows it.
Patched(row, s) ==
    [row EXCEPT !.status = s, !.pay = CASE s = "refunded" -> "refunded"
                                        [] s = "cancelled" -> "failed"
                                        [] s \in {"matching", "assigned"} /\ row.pay = "pending" -> "paid"
                                        [] OTHER -> row.pay]

\* allowedTransitions of AdminService.
AllowedTransitions == [s \in Statuses |->
    CASE s = "created"               -> {"payment_pending", "cancelled"}
      [] s = "payment_pending"       -> {"paid", "cancelled"}
      [] s = "paid"                  -> {"matching", "cancelled", "refunded"}
      [] s = "matching"              -> {"assigned", "cancelled", "refunded"}
      [] s = "assigned"              -> {"accepted", "cancelled", "refunded"}
      [] s = "accepted"              -> {"on_the_way", "cancelled"}
      [] s = "on_the_way"            -> {"arrived", "cancelled"}
      [] s = "arrived"               -> {"diagnosed", "cancelled"}
      [] s = "diagnosed"             -> {"working", "extra_payment_pending", "cancelled"}
      [] s = "extra_payment_pending" -> {"working", "cancelled"}
      [] s = "working"               -> {"completed", "cancelled"}
      [] s = "completed"             -> {"settlement_pending", "refunded"}
      [] s = "refunded"              -> {"settlement_pending"}
      [] s = "settlement_pending"    -> {"settled"}
      [] s \in {"cancelled", "settled"} -> {}]

\* canTechnicianWorkAssignedOrder.
CanWork == order.pay = "paid" \/ sameDay

\* A bug: any technician may work on any order.
AnyAccess(t) == CanWork

\* assertTechnicianAccess.
HasAccess(t) == order.tech = t /\ CanWork

\* isOrderEligibleForTechnician, as far as it depends on the order.
Eligible == order.status = "matching" /\ CanWork /\ order.tech = NoTech

-----------------------------------------------------------------------------
(* Customers: payment *)

\* mockConfirmPayment; an order that is paid already is answered at once.
ConfirmRead(w) ==
    /\ order.status = "created" /\ order.pay = "pending"
    /\ Begin(w, "confirm", [order EXCEPT !.status = "matching", !.pay = "paid"], NoTech, FALSE)
    /\ UNCHANGED <<sameDay, order, receipts, quotes, settledTo, failures, announced, winners,
                   entitled>>

\* A bug: the payment is inserted without looking for one.
ReceiptAlways(w) ==
    /\ At(w, "receipt")
    /\ Goto(w, "pay")
    /\ UNCHANGED <<sameDay, order, receipts, quotes, settledTo, failures, announced, winners,
                   entitled>>

\* appendMockProductPayment looks for a payment, then inserts one.
ReceiptRead(w) ==
    /\ At(w, "receipt")
    /\ Goto(w, IF receipts = 0 THEN "pay" ELSE "notify")
    /\ UNCHANGED <<sameDay, order, receipts, quotes, settledTo, failures, announced, winners,
                   entitled>>

ReceiptInsert(w) ==
    /\ At(w, "pay")
    /\ receipts' = receipts + 1
    /\ Goto(w, "notify")
    /\ UNCHANGED <<sameDay, order, quotes, settledTo, failures, announced, winners, entitled>>

\* applyPaidExtraQuote, once a quote was paid: the work goes on.
ExtraPaidRead(w) ==
    /\ quotes > 0
    /\ Begin(w, "step", [order EXCEPT !.status =
                           IF @ = "extra_payment_pending" THEN "working" ELSE @], NoTech, FALSE)
    /\ UNCHANGED <<sameDay, order, receipts, quotes, settledTo, failures, announced, winners,
                   entitled>>

-----------------------------------------------------------------------------
(* Administrators *)

\* patchAdmin reads the order and changes the technician, the status, both or
\* (for a memo) neither.  A technician it names is looked up before the write.
PatchRead(w) ==
    /\ \E row \in {order} \cup {[order EXCEPT !.tech = t] : t \in Technicians \cup {NoTech}} :
         \E new \in {row} \cup {Patched(row, s) : s \in AdminStatuses} :
           Begin(w, IF row.tech \in {order.tech, NoTech} THEN "patch" ELSE "check",
                 new, NoTech, new # order)
    /\ UNCHANGED <<sameDay, order, receipts, quotes, settledTo, failures, announced, winners,
                   entitled>>

\* assignTechnician, unassignTechnician and deleteBooking.
BookingRead(w) ==
    /\ \/ \E t \in Technicians :
            Begin(w, "check", Patched([order EXCEPT !.tech = t], "assigned"), NoTech, TRUE)
       \/ Begin(w, "patch", Patched([order EXCEPT !.tech = NoTech], "matching"), NoTech, TRUE)
       \/ Begin(w, "patch", Patched(order, "cancelled"), NoTech, TRUE)
    /\ UNCHANGED <<sameDay, order, receipts, quotes, settledTo, failures, announced, winners,
                   entitled>>

\* updateBookingStatus checks the transition on a row of its own ...
TransitionCheck(w) ==
    /\ \E s \in AdminStatuses \cap AllowedTransitions[order.status] :
         Begin(w, "transition", [order EXCEPT !.status = s], NoTech, TRUE)
    /\ UNCHANGED <<sameDay, order, receipts, quotes, settledTo, failures, announced, winners,
                   entitled>>

\* ... and patchAdmin reads the order again.
TransitionRead(w) ==
    /\ At(w, "transition")
    /\ Reread(w, "patch", Patched(order, req[w].row.status))
    /\ UNCHANGED <<sameDay, order, receipts, quotes, settledTo, failures, announced, winners,
                   entitled>>

\* requireApprovedTechnicianId: he may be approved, on duty and near, or not.
TechnicianCheck(w) ==
    /\ At(w, "check")
    /\ Goto(w, "patch") \/ Finish(w)
    /\ UNCHANGED <<sameDay, order, receipts, quotes, settledTo, failures, announced, winners,
                   entitled>>

-----------------------------------------------------------------------------
(* Technicians: dispatch *)

AcceptRead(w, t) ==
    /\ Eligible
    /\ Begin(w, "accept", order, t, FALSE)
    /\ UNCHANGED <<sameDay, order, receipts, quotes, settledTo, failures, announced, winners,
                   entitled>>

\* A bug: the row is overwritten like in the other handlers.
BlindAccept(w) ==
    /\ At(w, "accept")
    /\ order' = [order EXCEPT !.status = "accepted", !.tech = req[w].tech]
    /\ winners' = winners \cup {req[w].tech}
    /\ entitled' = entitled \cup {req[w].tech}
    /\ Finish(w)
    /\ UNCHANGED <<sameDay, receipts, quotes, settledTo, failures, announced>>

\* The update holds for a matching order without a technician only; else the
\* technician is told that another one was faster.
AcceptWrite(w) ==
    /\ At(w, "accept")
    /\ IF order.status = "matching" /\ order.tech = NoTech
         THEN /\ order' = [order EXCEPT !.status = "accepted", !.tech = req[w].tech]
              /\ winners' = winners \cup {req[w].tech}
              /\ entitled' = entitled \cup {req[w].tech}
         ELSE UNCHANGED <<order, winners, entitled>>
    /\ Finish(w)
    /\ UNCHANGED <<sameDay, receipts, quotes, settledTo, failures, announced>>

-----------------------------------------------------------------------------
(* Technicians: the job *)

\* From which statuses a step of the job leads where.
JobSteps == {<<"assigned", "accepted">>,    \* technicianAcceptJob
             <<"accepted", "on_the_way">>,  \* technicianDepartJob
             <<"accepted", "working">>,     \* technicianStartWork
             <<"on_the_way", "working">>}

JobRead(w, t) ==
    /\ HasAccess(t)
    /\ \/ \E step \in JobSteps :
            /\ order.status = step[1]
            /\ Begin(w, "step", [order EXCEPT !.status = step[2]], t, FALSE)
       \/ /\ order.status = "working"     \* technicianCompleteJob
          /\ Begin(w, "photos", [order EXCEPT !.status = "completed"], t, FALSE)
    /\ UNCHANGED <<sameDay, order, receipts, quotes, settledTo, failures, announced, winners,
                   entitled>>

\* assertRequiredWorkPhotos: there are photos, or there are none.
PhotosRead(w) ==
    /\ At(w, "photos")
    /\ Goto(w, "complete") \/ Finish(w)
    /\ UNCHANGED <<sameDay, order, receipts, quotes, settledTo, failures, announced, winners,
                   entitled>>

\* upsertSettlementForCompletedJob.
Settle(w) ==
    /\ At(w, "settle")
    /\ settledTo' = req[w].tech
    /\ Finish(w)
    /\ UNCHANGED <<sameDay, order, receipts, quotes, failures, announced, winners, entitled>>

\* technicianCreateQuote asks for access to the job, in whatever status.
QuoteRead(w, t) ==
    /\ HasAccess(t)
    /\ quotes < MaxQuotes
    /\ Begin(w, "quote", order, t, FALSE)
    /\ UNCHANGED <<sameDay, order, receipts, quotes, settledTo, failures, announced, winners,
                   entitled>>

QuoteInsert(w) ==
    /\ At(w, "quote")
    /\ quotes' = quotes + 1
    /\ Goto(w, "pending")
    /\ UNCHANGED <<sameDay, order, receipts, settledTo, failures, announced, winners, entitled>>

\* markExtraPaymentPending reads the order again and takes any status.
PendingRead(w) ==
    /\ At(w, "pending")
    /\ Reread(w, "step", [order EXCEPT !.status = "extra_payment_pending"])
    /\ UNCHANGED <<sameDay, order, receipts, quotes, settledTo, failures, announced, winners,
                   entitled>>

-----------------------------------------------------------------------------
(* Shared steps *)

\* A bug: only a patch that names the status is announced.
FollowUpIfAsked(w) ==
    CASE At(w, "confirm")  -> "receipt"
      [] At(w, "complete") -> "settle"
      [] At(w, "patch") /\ req[w].row.status = "matching" /\ req[w].asked -> "notify"
      [] OTHER -> "idle"

\* What a handler does after replacing the row.
FollowUp(w) ==
    CASE At(w, "confirm")  -> "receipt"
      [] At(w, "complete") -> "settle"
      [] At(w, "patch") /\ req[w].row.status = "matching" -> "notify"
      [] OTHER -> "idle"

\* replace: the whole row is overwritten, whatever it is by now.
Replace(w) ==
    /\ req[w].pc \in Writes
    /\ order' = req[w].row
    /\ announced' = (announced /\ (order.status = "matching" \/ req[w].row.status # "matching"))
    /\ winners' = IF w \in AdminCalls /\ req[w].asked THEN {} ELSE winners
    /\ entitled' = entitled \cup ({req[w].row.tech} \ {NoTech})
    /\ IF FollowUp(w) = "idle" THEN Finish(w) ELSE Goto(w, FollowUp(w))
    /\ UNCHANGED <<sameDay, receipts, quotes, settledTo, failures>>

\* notifyDispatchableOrder.
Notify(w) ==
    /\ At(w, "notify")
    /\ announced' = TRUE
    /\ Finish(w)
    /\ UNCHANGED <<sameDay, order, receipts, quotes, settledTo, failures, winners, entitled>>

\* A statement fails: the caller gets an error, what was written remains.
Fail(w) ==
    /\ ~At(w, "idle")
    /\ failures < MaxFailures
    /\ failures' = failures + 1
    /\ Finish(w)
    /\ UNCHANGED <<sameDay, order, receipts, quotes, settledTo, announced, winners, entitled>>

-----------------------------------------------------------------------------
(* Specification *)

Customer(w) == ConfirmRead(w) \/ ExtraPaidRead(w)

Admin(w) == PatchRead(w) \/ BookingRead(w) \/ TransitionCheck(w) \/ ExtraPaidRead(w)

Technician(w, t) == AcceptRead(w, t) \/ JobRead(w, t) \/ QuoteRead(w, t)

Continue(w) ==
    \/ ReceiptRead(w) \/ ReceiptInsert(w) \/ TransitionRead(w) \/ TechnicianCheck(w)
    \/ AcceptWrite(w) \/ PhotosRead(w) \/ Settle(w) \/ QuoteInsert(w) \/ PendingRead(w)
    \/ Replace(w) \/ Notify(w)

Next ==
    \/ \E w \in CustomerCalls : Customer(w)
    \/ \E w \in AdminCalls : Admin(w)
    \/ \E w \in TechnicianCalls, t \in Technicians : Technician(w, t)
    \/ \E w \in Calls : Continue(w) \/ Fail(w)

Spec == Init /\ [][Next]_vars

-----------------------------------------------------------------------------
(* Properties *)

\* Whatever overwrites whatever, a cancelled order's payment is failed and a
\* refunded order's payment is refunded: patchAdmin writes both in one row and
\* no other handler takes such a row up.
PaymentFitsStatus ==
    /\ order.status = "cancelled" => order.pay = "failed"
    /\ order.status = "refunded" => order.pay = "refunded"

\* When no call is in flight, technicians were told of an order that waits for
\* one since it last became matching, also when a memo patch with a stale row
\* made it so.
OpenOrderAnnounced ==
    order.status = "matching" /\ InFlight = {} => announced

\* The settlement of a completed job names a technician the order was given to,
\* by his acceptance or by an administrator.
SettledToEntitled == settledTo # NoTech => settledTo \in entitled

\* A technician who was told that the dispatch is his stays on the order until
\* an administrator asks otherwise, so no second one is told so.
TechnicianKeepsOrder == \A t \in winners : order.tech = t

\* The product payment is recorded once, as orders.repository.port.ts says of
\* appendMockProductPayment.  It holds as long as confirmations come one after the
\* other, also when a stale patch makes the order unpaid again: two at once both
\* look before either inserts.
OneReceipt == receipts <= 1

\* The product payment is recorded, and no confirmation that found none before is
\* left to record another.
Recorded == receipts > 0 /\ \A w \in Calls : ~At(w, "pay")

\* From then on no confirmation records one any more, however many come at once and
\* whatever stale rows make the order unpaid again.
RecordedIsFinal == [][Recorded => Recorded' /\ receipts' = receipts]_vars

\* Calls one after the other: a payment is never pending again, and one that
\* failed or was refunded is not paid by moving the order about.
PaymentForward ==
    [][/\ order.pay # "pending" => order'.pay # "pending"
       /\ order.pay \in {"failed", "refunded"} => order'.pay # "paid"]_vars
=============================================================================
