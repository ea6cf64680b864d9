--------------------------- MODULE DispatchOffers ---------------------------
(***************************************************************************)
(* Who is offered an order: the announcement of an order to the            *)
(* technicians whose preferences take it, its push messages, the list of   *)
(* open offers, acceptance, rejection and the preferences themselves       *)
(* (OrdersService and NotificationService).                                *)
(*                                                                         *)
(* One list stands for the regions, service types and air conditioner      *)
(* types of a preference, which work alike; a technician has one device.   *)
(* The filters of a listing, the text of messages and tables that were     *)
(* never created are left out.  How the calls that publish an order        *)
(* overwrite each other's row is the subject of OrderDispatch.             *)
(***************************************************************************)
EXTENDS Naturals, FiniteSets

CONSTANTS
    Technicians,
    Orders,
    Regions,
    Kinds,            \* schedule types
    Urgent,           \* the schedule type that needs no payment first (same_day)
    KindOf,           \* schedule type of an order
    RegionOf,         \* region of an order
    Profile,          \* the preferences of a technician who never saved any
    Wishes,           \* preferences whose fields technicians ask for
    Nobody,           \* no technician
    NoOrder,
    Calls,            \* calls that may be in flight
    MaxArrivals,      \* bound: calls that arrive in a behaviour
    MaxInFlight,      \* bound: calls in flight at once
    MaxFailures       \* bound: statements that fail in a behaviour

Taste == [regions: SUBSET Regions, kinds: SUBSET Kinds]

ASSUME OffersAssumption ==
    /\ Urgent \in Kinds
    /\ KindOf \in [Orders -> Kinds]
    /\ RegionOf \in [Orders -> Regions]
    /\ Profile \in [Technicians -> Taste]
    /\ Wishes \subseteq Taste
    /\ Nobody \notin Technicians
    /\ NoOrder \notin Orders
    /\ MaxArrivals \in Nat
    /\ MaxFailures \in Nat

VARIABLES
    order,      \* orders
    tech,       \* technicians: those approved and, of these, those at work
    saved,      \* technician_dispatch_preferences: a set of at most one row each
    log,        \* dispatch_notifications: statuses recorded
    device,     \* notification_devices: technicians who have one
    event,      \* notification_events: outcomes recorded
    req,        \* the calls in flight
    arrived,    \* calls that have arrived
    failures,   \* statements that failed so far
    course      \* history: regular until calls overlap or a statement fails

vars == <<order, tech, saved, log, device, event, req, arrived, failures, course>>

\* closed stands for every status in which nothing is dispatched.
OrderRow == [status: {"created", "matching", "accepted", "closed"},
             payment: {"pending", "paid", "failed"}, technician: Technicians \cup {Nobody}]

Fresh == [status |-> "created", payment |-> "pending", technician |-> Nobody]

\* What a call is about to do: read the technicians, the preferences of each, record
\* whom it tells, read their devices, push; read the rejections, the orders; check
\* the preferences of an acceptance, write it, record it; record a rejection; save
\* preferences.
Steps == {"idle", "technicians", "tastes", "tell", "devices", "push",
          "rejections", "orders", "check", "accept", "accepted", "reject", "save", "answer"}

\* work: whether the caller was at work;  row: the order as it was read or written;
\* todo: technicians still to ask, tell or push to;  told, heard: those it has told or
\* pushed to;  meant: history, who takes the order when it is announced;  offers,
\* hidden: orders that are offered, rejected;  past: history, those rejected before.
Req == [pc: Steps, by: Technicians \cup {Nobody}, work: {"on", "off"}, of: Orders \cup {NoOrder},
        row: OrderRow, todo: SUBSET Technicians, told: SUBSET Technicians,
        heard: SUBSET Technicians, meant: SUBSET Technicians, taste: Taste,
        offers: SUBSET Orders, hidden: SUBSET Orders, past: SUBSET Orders]

Idle == [pc |-> "idle", by |-> Nobody, work |-> "on", of |-> NoOrder, row |-> Fresh, todo |-> {},
         told |-> {}, heard |-> {}, meant |-> {}, taste |-> [regions |-> {}, kinds |-> {}],
         offers |-> {}, hidden |-> {}, past |-> {}]

TypeOK ==
    /\ order \in [Orders -> OrderRow]
    /\ tech \in [Technicians -> [status: {"approved", "suspended"}, work: {"on", "off"}]]
    /\ saved \in [Technicians -> SUBSET Taste]
    /\ log \in [Orders -> [Technicians -> SUBSET {"sent", "accepted", "rejected"}]]
    /\ device \in SUBSET Technicians
    /\ event \in [Orders -> [Technicians -> SUBSET {"sent", "failed", "skipped"}]]
    /\ req \in [Calls -> Req]
    /\ arrived \in 0..MaxArrivals
    /\ failures \in 0..MaxFailures
    /\ course \in {"regular", "irregular"}

Init ==
    /\ order = [o \in Orders |-> Fresh]
    /\ tech = [t \in Technicians |-> [status |-> "approved", work |-> "on"]]
    /\ saved = [t \in Technicians |-> {}]
    /\ log = [o \in Orders |-> [t \in Technicians |-> {}]]
    /\ device \in SUBSET Technicians
    /\ event = [o \in Orders |-> [t \in Technicians |-> {}]]
    /\ req = [w \in Calls |-> Idle]
    /\ arrived = 0
    /\ failures = 0
    /\ course = "regular"

-----------------------------------------------------------------------------
(* Helpers *)

At(w, pc) == req[w].pc = pc

InFlight == {w \in Calls : ~At(w, "idle")}

Approved == {t \in Technicians : tech[t].status = "approved"}

AtWork == {t \in Approved : tech[t].work = "on"}

\* technicianGetDispatchPreferences: an empty list counts as none saved, so that a
\* technician cannot go back to taking everything.
Preferences(t) ==
    IF saved[t] = {} THEN Profile[t]
    ELSE LET row == CHOOSE p \in saved[t] : TRUE IN
         [row EXCEPT !.regions = IF @ = {} THEN Profile[t].regions ELSE @]

\* isOrderEligibleForTechnician: what it asks of the order ...
Dispatchable(o, row) ==
    /\ row.status = "matching"
    /\ row.payment = "paid" \/ KindOf[o] = Urgent
    /\ row.technician = Nobody

\* ... and of the preferences.
Suits(o, taste) ==
    /\ KindOf[o] \in taste.kinds
    /\ taste.regions = {} \/ RegionOf[o] \in taste.regions

Rejected(t) == {o \in Orders : "rejected" \in log[o][t]}

\* A call arrives; its first read finds out whether it goes on.
Arrive(w) ==
    /\ At(w, "idle")
    /\ Cardinality(InFlight) < MaxInFlight
    /\ arrived < MaxArrivals
    /\ arrived' = arrived + 1
    /\ course' = IF InFlight = {} THEN course ELSE "irregular"
    /\ UNCHANGED failures

Goto(w, pc) == req' = [req EXCEPT ![w].pc = pc]

Finish(w) == req' = [req EXCEPT ![w] = Idle]

\* A technician calls, whom the guard has read.
Enter(w, t, call) ==
    /\ Arrive(w)
    /\ req' = [req EXCEPT ![w] = [call EXCEPT !.by = t, !.work = tech[t].work]]

Record(o, t, status) == log' = [log EXCEPT ![o][t] = @ \cup {status}]

tables == <<order, tech, saved, log, device, event>>

counters == <<arrived, failures, course>>

-----------------------------------------------------------------------------
(* Announcements *)

\* The rows a call that publishes the order may write: a payment is confirmed, a lead
\* becomes an order, an administrator opens it, with or without its technician.
Published(row) ==
    {[row EXCEPT !.status = "matching", !.payment = p] :
        p \in IF row.status = "created" /\ row.payment = "pending" THEN {"paid", "pending"} ELSE {}}
    \cup
    {[row EXCEPT !.status = "matching", !.technician = t,
                 !.payment = IF @ = "pending" THEN "paid" ELSE @] : t \in {row.technician, Nobody}}

\* Whom an announcement of the row is meant for, by the tables as they are.
Takers(o, row) == {t \in AtWork : Dispatchable(o, row) /\ Suits(o, Preferences(t))}

Publish(w) ==
    /\ Arrive(w)
    /\ \E o \in Orders : \E row \in Published(order[o]) :
         /\ order' = [order EXCEPT ![o] = row]
         /\ req' = [req EXCEPT ![w] = [Idle EXCEPT !.pc = "technicians", !.of = o, !.row = row,
                                                   !.meant = Takers(o, row)]]
    /\ UNCHANGED <<tech, saved, log, device, event>>

\* approvedTechniciansForDispatch.
TechniciansRead(w) ==
    /\ At(w, "technicians")
    /\ req' = [req EXCEPT ![w].pc = "tastes", ![w].todo = AtWork]
    /\ UNCHANGED <<tables, counters>>

\* The preferences of one technician after the other, each by its own query.
TasteRead(w) ==
    /\ At(w, "tastes")
    /\ \E t \in req[w].todo :
         req' = [req EXCEPT ![w].todo = @ \ {t},
                            ![w].told = IF /\ Dispatchable(req[w].of, req[w].row)
                                           /\ Suits(req[w].of, Preferences(t))
                                          THEN @ \cup {t} ELSE @]
    /\ UNCHANGED <<tables, counters>>

\* Nobody to tell ends the call.
Chosen(w) ==
    /\ At(w, "tastes")
    /\ req[w].todo = {}
    /\ req' = [req EXCEPT ![w].pc = IF req[w].told = {} THEN "answer" ELSE "tell",
                          ![w].todo = req[w].told]
    /\ UNCHANGED <<tables, counters>>

\* The rows of the technicians told go in at once, in any order.
Tell(w) ==
    /\ At(w, "tell")
    /\ \E t \in req[w].todo :
         /\ Record(req[w].of, t, "sent")
         /\ req' = [req EXCEPT ![w].todo = @ \ {t},
                               ![w].pc = IF req[w].todo = {t} THEN "devices" ELSE @]
    /\ UNCHANGED <<order, tech, saved, device, event, counters>>

\* notifyOwners: without any device an event per technician says so.
DevicesRead(w) ==
    /\ At(w, "devices")
    /\ LET reached == req[w].told \cap device IN
         IF reached = {}
           THEN /\ event' = [event EXCEPT ![req[w].of] =
                               [t \in Technicians |-> IF t \in req[w].told THEN @[t] \cup {"skipped"}
                                                      ELSE @[t]]]
                /\ Goto(w, "answer")
           ELSE /\ req' = [req EXCEPT ![w].pc = "push", ![w].todo = reached]
                /\ UNCHANGED event
    /\ UNCHANGED <<order, tech, saved, log, device, counters>>

\* A bug: a device that cannot be reached ends the loop.
PushUntilOneFails(w) ==
    /\ At(w, "push")
    /\ \E t \in req[w].todo, outcome \in {"sent", "failed", "skipped"} :
         /\ event' = [event EXCEPT ![req[w].of][t] = @ \cup {outcome}]
         /\ req' = [req EXCEPT ![w].todo = @ \ {t}, ![w].heard = @ \cup {t},
                               ![w].pc = IF req[w].todo = {t} \/ outcome = "failed" THEN "answer" ELSE @]
    /\ UNCHANGED <<order, tech, saved, log, device, counters>>

\* One device after the other; a push that fails, or is skipped because the server has
\* no credentials for it, is an outcome like any other.
Push(w) ==
    /\ At(w, "push")
    /\ \E t \in req[w].todo, outcome \in {"sent", "failed", "skipped"} :
         /\ event' = [event EXCEPT ![req[w].of][t] = @ \cup {outcome}]
         /\ req' = [req EXCEPT ![w].todo = @ \ {t}, ![w].heard = @ \cup {t},
                               ![w].pc = IF req[w].todo = {t} THEN "answer" ELSE @]
    /\ UNCHANGED <<order, tech, saved, log, device, counters>>

-----------------------------------------------------------------------------
(* Calls of technicians *)

\* technicianListDispatchOffers: preferences, rejections and orders, in this order.
List(w) ==
    /\ \E t \in Approved :
         Enter(w, t, [Idle EXCEPT !.pc = "rejections", !.taste = Preferences(t), !.past = Rejected(t)])
    /\ UNCHANGED tables

RejectionsRead(w) ==
    /\ At(w, "rejections")
    /\ req' = [req EXCEPT ![w].pc = "orders", ![w].hidden = Rejected(req[w].by)]
    /\ UNCHANGED <<tables, counters>>

\* A bug: a rejection counts only until the order is announced to him again.
OrdersReadAgain(w) ==
    /\ At(w, "orders")
    /\ req' = [req EXCEPT ![w].pc = "answer",
                          ![w].offers = {o \in Orders \ {x \in req[w].hidden : "sent" \notin log[x][req[w].by]} :
                                           /\ Dispatchable(o, order[o])
                                           /\ req[w].work = "on"
                                           /\ Suits(o, req[w].taste)}]
    /\ UNCHANGED <<tables, counters>>

OrdersRead(w) ==
    /\ At(w, "orders")
    /\ req' = [req EXCEPT ![w].pc = "answer",
                          ![w].offers = {o \in Orders \ req[w].hidden :
                                           /\ Dispatchable(o, order[o])
                                           /\ req[w].work = "on"
                                           /\ Suits(o, req[w].taste)}]
    /\ UNCHANGED <<tables, counters>>

\* technicianAcceptDispatchOffer: the order, then the preferences, then an update that
\* takes an order nobody has.
Accept(w) ==
    /\ \E t \in Approved, o \in Orders :
         /\ Dispatchable(o, order[o])
         /\ tech[t].work = "on"
         /\ Enter(w, t, [Idle EXCEPT !.pc = "check", !.of = o])
    /\ UNCHANGED tables

AcceptCheck(w) ==
    /\ At(w, "check")
    /\ IF Suits(req[w].of, Preferences(req[w].by)) THEN Goto(w, "accept") ELSE Finish(w)
    /\ UNCHANGED <<tables, counters>>

AcceptWrite(w) ==
    /\ At(w, "accept")
    /\ LET o == req[w].of IN
       IF order[o].status = "matching" /\ order[o].technician = Nobody
         THEN /\ order' = [order EXCEPT ![o].status = "accepted", ![o].technician = req[w].by]
              /\ Goto(w, "accepted")
         ELSE /\ Finish(w)
              /\ UNCHANGED order
    /\ UNCHANGED <<tech, saved, log, device, event, counters>>

AcceptRecord(w) ==
    /\ At(w, "accepted")
    /\ Record(req[w].of, req[w].by, "accepted")
    /\ Finish(w)
    /\ UNCHANGED <<order, tech, saved, device, event, counters>>

\* technicianRejectDispatchOffer: an assigned order may be rejected, and so may one
\* that was never offered to him.
Reject(w) ==
    /\ \E t \in Approved, o \in Orders :
         /\ Dispatchable(o, [order[o] EXCEPT !.technician = Nobody])
         /\ Enter(w, t, [Idle EXCEPT !.pc = "reject", !.of = o])
    /\ UNCHANGED tables

RejectRecord(w) ==
    /\ At(w, "reject")
    /\ Record(req[w].of, req[w].by, "rejected")
    /\ Finish(w)
    /\ UNCHANGED <<order, tech, saved, device, event, counters>>

\* technicianUpdateDispatchPreferences: what the patch leaves out is taken from the
\* preferences it has read, and the whole row is written.
Prefer(w) ==
    /\ \E t \in Approved, wish \in Wishes, kinds \in SUBSET Kinds :
         LET current == Preferences(t)
             switched == [current EXCEPT !.kinds = (@ \ kinds) \cup (wish.kinds \cap kinds)] IN
         \E next \in {switched, [switched EXCEPT !.regions = wish.regions]} :
           Enter(w, t, [Idle EXCEPT !.pc = "save", !.taste = next])
    /\ UNCHANGED tables

Save(w) ==
    /\ At(w, "save")
    /\ saved' = [saved EXCEPT ![req[w].by] = {req[w].taste}]
    /\ Finish(w)
    /\ UNCHANGED <<order, tech, log, device, event, counters>>

\* registerDevice.
RegisterDevice(w) ==
    /\ Arrive(w)
    /\ \E t \in Approved \ device : device' = device \cup {t}
    /\ UNCHANGED <<order, tech, saved, log, event, req>>

-----------------------------------------------------------------------------
(* The rest of the system *)

\* Work status and review of a technician (TechnicianRegistry).
Change(w) ==
    /\ Arrive(w)
    /\ \E t \in Technicians, row \in [status: {"approved", "suspended"}, work: {"on", "off"}] :
         /\ row # tech[t]
         /\ row.work = tech[t].work \/ row.status = tech[t].status
         /\ tech' = [tech EXCEPT ![t] = row]
    /\ UNCHANGED <<order, saved, log, device, event, req>>

\* An administrator assigns or cancels an order, or its job goes on (OrderDispatch).
Move(w) ==
    /\ Arrive(w)
    /\ \E o \in Orders : \E row \in {[order[o] EXCEPT !.status = "closed", !.payment = "failed"],
                                     [order[o] EXCEPT !.status = "closed"]}
                                    \cup [status: {"accepted"}, payment: {order[o].payment, "paid"},
                                          technician: Technicians] :
         /\ row # order[o]
         /\ order' = [order EXCEPT ![o] = row]
    /\ UNCHANGED <<tech, saved, log, device, event, req>>

Answer(w) ==
    /\ At(w, "answer")
    /\ Finish(w)
    /\ UNCHANGED <<tables, counters>>

\* A statement fails and ends the call; other rows of the same announcement, under
\* way already, may still go in.
Fail(w) ==
    /\ failures < MaxFailures
    /\ req[w].pc \notin {"idle", "answer"}
    /\ failures' = failures + 1
    /\ course' = "irregular"
    /\ IF At(w, "tell")
         THEN \E lost \in SUBSET req[w].todo \ {{}} :
                log' = [log EXCEPT ![req[w].of] =
                          [t \in Technicians |-> IF t \in req[w].todo \ lost THEN @[t] \cup {"sent"}
                                                 ELSE @[t]]]
         ELSE UNCHANGED log
    /\ Finish(w)
    /\ UNCHANGED <<order, tech, saved, device, event, arrived>>

-----------------------------------------------------------------------------
(* The specification *)

Announcement(w) ==
    \/ Publish(w) \/ TechniciansRead(w) \/ TasteRead(w) \/ Chosen(w)
    \/ Tell(w) \/ DevicesRead(w) \/ Push(w)

Offer(w) ==
    \/ List(w) \/ RejectionsRead(w) \/ OrdersRead(w)
    \/ Accept(w) \/ AcceptCheck(w) \/ AcceptWrite(w) \/ AcceptRecord(w)
    \/ Reject(w) \/ RejectRecord(w)

Setting(w) == Prefer(w) \/ Save(w) \/ RegisterDevice(w)

World(w) == Change(w) \/ Move(w)

Next == \E w \in Calls : Announcement(w) \/ Offer(w) \/ Setting(w) \/ World(w) \/ Answer(w) \/ Fail(w)

Spec == Init /\ [][Next]_vars

-----------------------------------------------------------------------------
(* Properties *)

\* As long as calls do not overlap and nothing fails, an announcement tells all the
\* approved technicians at work whose preferences take the order, and nobody else, and
\* pushes to every device of theirs whatever becomes of the others
\* (notifyDispatchableOrder, notifyOwners).
TakersAreTold ==
    \A w \in Calls :
        (At(w, "answer") /\ req[w].of # NoOrder /\ course = "regular") =>
            /\ req[w].told = req[w].meant
            /\ req[w].heard = req[w].meant \cap device
            /\ \A t \in req[w].told : "sent" \in log[req[w].of][t]

\* However calls overlap, a listing does not show an order that the technician had
\* rejected before he asked for it, announced again or not.
RejectedStaysAway ==
    \A w \in Calls : At(w, "answer") => req[w].offers \cap req[w].past = {}

=============================================================================
