--------------------------- MODULE EmergencyLeads ---------------------------
(***************************************************************************)
(* Emergency leads and their conversion into customer orders               *)
(* (modules/emergency-leads and OrdersService.createEmergencyLeadDraft).   *)
(*                                                                         *)
(* A visitor files a lead without a phone call.  When its matching         *)
(* deadline passes, or an administrator asks for it, the server turns the  *)
(* lead into an order: it inserts an order draft, replaces it by a         *)
(* dispatchable one, announces it to technicians and links it to the lead. *)
(* These are four statements on two tables and no transaction spans them.  *)
(* Five entry points run the same pipeline (timeout, contact, the          *)
(* administrator's patch, the 45 s sweep and its repetitions); a FIFO      *)
(* mutex per lead, kept in the memory of the one server process,           *)
(* serialises them.                                                        *)
(*                                                                         *)
(* One action is one database statement with the code that runs after it   *)
(* up to the next await.  A statement can fail (Fail) and the process can  *)
(* be restarted between two statements (Crash).                            *)
(***************************************************************************)
EXTENDS Naturals, Sequences

CONSTANTS
    Leads,        \* ids of leads
    Orders,       \* ids a new order may get
    Calls,        \* HTTP calls (timeout, contact, admin patch) in flight at once
    NoLead,       \* no lead
    NoOrder,      \* converted_order_id is null
    MaxFailures,  \* bound: database statements that fail in a behaviour
    MaxCrashes    \* bound: restarts of the server process in a behaviour

ASSUME LeadsAssumption ==
    /\ Calls \cap Leads = {}
    /\ NoLead \notin Leads
    /\ NoOrder \notin Orders
    /\ MaxFailures \in Nat
    /\ MaxCrashes \in Nat

VARIABLES
    lead,       \* emergency_service_leads: matching_status and converted_order_id
    late,       \* leads whose matching_deadline_at has passed
    order,      \* orders: the lead of an order draft, its status, its announcement
    queue,      \* mutexByLead: the promise chain of a lead, its head runs
    req,        \* the calls and sweep finalizers in flight
    failures,   \* statements that failed so far
    crashes,    \* restarts so far
    forced,     \* history: leads an administrator marked converted_to_order
    abandoned   \* history: orders whose creator failed before linking them

db == <<lead, order>>
vars == <<lead, late, order, queue, req, failures, crashes, forced, abandoned>>

\* A sweep finalizer is named by the lead it finalizes: the model has at most
\* one of them in flight per lead; a second one would queue like a call.
Workers == Calls \cup Leads

MatchingStatus == {"pending", "timed_out", "contact_saved", "converted_to_order"}

\* Status "none": the lead has not been filed yet.
LeadRow == [status: MatchingStatus \cup {"none"}, order: Orders \cup {NoOrder}]
OrderRow == [lead: Leads \cup {NoLead}, status: {"none", "created", "matching"},
             offered: BOOLEAN]

\* What a worker is about to execute:
\*   timeout   markTimeout writes timed_out      written   findById before finalizing
\*   queued    waits for the mutex, then refetch body      finalizeLeadBody decides
\*   expired   refetch after writing timed_out   draft     insert the order
\*   inserted  replace it as matching            placed    announce it
\*   notified  link it to the lead               linked    final findById
\*   heal      write converted_to_order
Drafting == {"inserted", "placed", "notified"}
Holding  == {"body", "expired", "draft", "linked", "heal"} \cup Drafting
Steps    == {"idle", "timeout", "written", "queued"} \cup Holding

Req == [pc: Steps, lead: Leads \cup {NoLead}, forced: BOOLEAN, row: LeadRow,
        draft: Orders \cup {NoOrder}]

NoRow == [status |-> "none", order |-> NoOrder]

\* A worker at step pc that has not read the lead under the mutex yet.
Working(pc, l, force) ==
    [pc |-> pc, lead |-> l, forced |-> force, row |-> NoRow, draft |-> NoOrder]

Idle == Working("idle", NoLead, FALSE)

TypeOK ==
    /\ lead \in [Leads -> LeadRow]
    /\ late \in SUBSET Leads
    /\ order \in [Orders -> OrderRow]
    /\ queue \in [Leads -> Seq(Workers)]
    /\ req \in [Workers -> Req]
    /\ failures \in 0..MaxFailures
    /\ crashes \in 0..MaxCrashes
    /\ forced \in SUBSET Leads
    /\ abandoned \in SUBSET Orders

Init ==
    /\ lead = [l \in Leads |-> NoRow]
    /\ late = {}
    /\ order = [o \in Orders |->
                  [lead |-> NoLead, status |-> "none", offered |-> FALSE]]
    /\ queue = [l \in Leads |-> <<>>]
    /\ req = [w \in Workers |-> Idle]
    /\ failures = 0
    /\ crashes = 0
    /\ forced = {}
    /\ abandoned = {}

-----------------------------------------------------------------------------
(* Helpers *)

Filed(l) == lead[l].status # "none"

At(w, pc) == req[w].pc = pc

\* updatePartial of matching_status.
SetStatus(l, s) == lead' = [lead EXCEPT ![l].status = s]

Begin(w, pc, l, force) == req' = [req EXCEPT ![w] = Working(pc, l, force)]

Goto(w, pc) == req' = [req EXCEPT ![w].pc = pc]

\* findById: w goes on with the row as it is now.
Snapshot(w, pc) == req' = [req EXCEPT ![w].pc = pc, ![w].row = lead[req[w].lead]]

\* runExclusive puts the finalization at the tail of the lead's chain.
Enqueue(w, l, force) ==
    /\ queue' = [queue EXCEPT ![l] = Append(@, w)]
    /\ Begin(w, "queued", l, force)

\* A bug: every queued finalization may run (no mutex).
NoMutex(w) == \E i \in DOMAIN queue[req[w].lead] : queue[req[w].lead][i] = w

HoldsMutex(w) ==
    /\ queue[req[w].lead] # <<>>
    /\ Head(queue[req[w].lead]) = w

\* The finalization's promise settles: the next one in the chain starts and
\* the caller answers (it only reads the lead again).
Release(w) ==
    /\ queue' = [queue EXCEPT ![req[w].lead] = Tail(@)]
    /\ req' = [req EXCEPT ![w] = Idle]

\* A bug: the deadline is not checked.
AlwaysAllowed(w) == TRUE

\* allow: the deadline has passed, the administrator forces the conversion, or
\* the lead says it is converted but has no order (needsRepair).
Allowed(w) ==
    \/ req[w].forced
    \/ req[w].lead \in late
    \/ req[w].row.status = "converted_to_order"

\* The pending lead past its deadline is marked timed_out first.
Expiring(w) == req[w].row.status = "pending" /\ req[w].lead \in late

Unconverted(w) == req[w].row.order = NoOrder

-----------------------------------------------------------------------------
(* Filing a lead, time, and the calls that precede a finalization *)

Create(l) ==
    /\ ~Filed(l)
    /\ lead' = [lead EXCEPT ![l] = [status |-> "pending", order |-> NoOrder]]
    /\ UNCHANGED <<late, order, queue, req, failures, crashes, forced, abandoned>>

DeadlinePasses(l) ==
    /\ Filed(l)
    /\ l \notin late
    /\ late' = late \cup {l}
    /\ UNCHANGED <<lead, order, queue, req, failures, crashes, forced, abandoned>>

\* patchContact: the row it read only supplies contact columns; the update also
\* writes contact_saved, whatever the status is.
PatchContact(w, l) ==
    /\ At(w, "idle") /\ Filed(l)
    /\ SetStatus(l, "contact_saved")
    /\ Begin(w, "written", l, FALSE)
    /\ UNCHANGED <<late, order, queue, failures, crashes, forced, abandoned>>

\* markTimeout reads the lead; only a pending one is written afterwards.
TimeoutRead(w, l) ==
    /\ At(w, "idle") /\ Filed(l)
    /\ \/ /\ lead[l].status = "pending"
          /\ Begin(w, "timeout", l, FALSE)
          /\ UNCHANGED queue
       \/ /\ lead[l].status # "pending"
          /\ Enqueue(w, l, FALSE)
    /\ UNCHANGED <<lead, late, order, failures, crashes, forced, abandoned>>

\* The write is not conditional on the status that was read.
TimeoutWrite(w) ==
    /\ At(w, "timeout")
    /\ SetStatus(req[w].lead, "timed_out")
    /\ Goto(w, "written")
    /\ UNCHANGED <<late, order, queue, failures, crashes, forced, abandoned>>

\* patchAdmin writes any status; converted_to_order also forces a finalization.
PatchAdmin(w, l) ==
    /\ At(w, "idle") /\ Filed(l)
    /\ \E s \in MatchingStatus :
         /\ SetStatus(l, s)
         /\ IF s = "converted_to_order"
              THEN /\ Begin(w, "written", l, TRUE)
                   /\ forced' = forced \cup {l}
              ELSE UNCHANGED <<req, forced>>
    /\ UNCHANGED <<late, order, queue, failures, crashes, abandoned>>

\* The call has read the lead again and asks for the mutex.
StartFinalize(w) ==
    /\ At(w, "written")
    /\ Enqueue(w, req[w].lead, req[w].forced)
    /\ UNCHANGED <<lead, late, order, failures, crashes, forced, abandoned>>

\* A bug: the sweep lists pending leads only.
SweepPending(l) ==
    /\ At(l, "idle") /\ lead[l].status = "pending"
    /\ Enqueue(l, l, FALSE)
    /\ UNCHANGED <<lead, late, order, failures, crashes, forced, abandoned>>

\* runDeadlineSweep: every filed lead, whatever its status or deadline.
Sweep(l) ==
    /\ At(l, "idle") /\ Filed(l)
    /\ Enqueue(l, l, FALSE)
    /\ UNCHANGED <<lead, late, order, failures, crashes, forced, abandoned>>

-----------------------------------------------------------------------------
(* finalizeLeadBody, under the mutex of the lead *)

\* tryFinalizeLead refetches the lead once it holds the mutex.
FinalizeRead(w) ==
    /\ At(w, "queued") /\ HoldsMutex(w)
    /\ Snapshot(w, "body")
    /\ UNCHANGED <<lead, late, order, queue, failures, crashes, forced, abandoned>>

\* Nothing to do: converted already, or too early.
FinalizeSkip(w) ==
    /\ At(w, "body")
    /\ IF Unconverted(w) THEN ~Allowed(w) ELSE req[w].row.status = "converted_to_order"
    /\ Release(w)
    /\ UNCHANGED <<lead, late, order, failures, crashes, forced, abandoned>>

\* The lead has its order and another status: only the status is repaired.
Heal(w) ==
    /\ \/ At(w, "body") /\ ~Unconverted(w) /\ req[w].row.status # "converted_to_order"
       \/ At(w, "heal")
    /\ SetStatus(req[w].lead, "converted_to_order")
    /\ Release(w)
    /\ UNCHANGED <<late, order, failures, crashes, forced, abandoned>>

Expire(w) ==
    /\ At(w, "body") /\ Unconverted(w) /\ Expiring(w)
    /\ SetStatus(req[w].lead, "timed_out")
    /\ Goto(w, "expired")
    /\ UNCHANGED <<late, order, queue, failures, crashes, forced, abandoned>>

Refetch(w) ==
    /\ At(w, "expired")
    /\ Snapshot(w, "draft")
    /\ UNCHANGED <<lead, late, order, queue, failures, crashes, forced, abandoned>>

\* A bug: the order is inserted as matching and the announcement is skipped.
InsertOnly(w) ==
    /\ \/ At(w, "draft")
       \/ At(w, "body") /\ Unconverted(w) /\ Allowed(w) /\ ~Expiring(w)
    /\ \E o \in Orders :
         /\ order[o].lead = NoLead
         /\ order' = [order EXCEPT ![o].lead = req[w].lead, ![o].status = "matching"]
         /\ req' = [req EXCEPT ![w].pc = "notified", ![w].draft = o]
    /\ UNCHANGED <<lead, late, queue, failures, crashes, forced, abandoned>>

\* createDraft: the order exists from here on, in status created.
InsertDraft(w) ==
    /\ \/ At(w, "draft")
       \/ At(w, "body") /\ Unconverted(w) /\ Allowed(w) /\ ~Expiring(w)
    /\ \E o \in Orders :
         /\ order[o].lead = NoLead
         /\ order' = [order EXCEPT ![o].lead = req[w].lead, ![o].status = "created"]
         /\ req' = [req EXCEPT ![w].pc = "inserted", ![w].draft = o]
    /\ UNCHANGED <<lead, late, queue, failures, crashes, forced, abandoned>>

\* A bug: the draft is replaced by a paid order instead of a dispatchable one.
PlacePaid(w) ==
    /\ At(w, "inserted")
    /\ order' = [order EXCEPT ![req[w].draft].status = "paid"]
    /\ Goto(w, "placed")
    /\ UNCHANGED <<lead, late, queue, failures, crashes, forced, abandoned>>

\* createEmergencyLeadDraft replaces the draft by a dispatchable order.
PlaceDraft(w) ==
    /\ At(w, "inserted")
    /\ order' = [order EXCEPT ![req[w].draft].status = "matching"]
    /\ Goto(w, "placed")
    /\ UNCHANGED <<lead, late, queue, failures, crashes, forced, abandoned>>

\* notifyDispatchableOrder.
Announce(w) ==
    /\ At(w, "placed")
    /\ order' = [order EXCEPT ![req[w].draft].offered = TRUE]
    /\ Goto(w, "notified")
    /\ UNCHANGED <<lead, late, queue, failures, crashes, forced, abandoned>>

LinkOrder(w) ==
    /\ At(w, "notified")
    /\ lead' = [lead EXCEPT ![req[w].lead] =
                  [status |-> "converted_to_order", order |-> req[w].draft]]
    /\ Goto(w, "linked")
    /\ UNCHANGED <<late, order, queue, failures, crashes, forced, abandoned>>

\* The lead is read once more: a status written meanwhile is repaired.
ReadBack(w) ==
    /\ At(w, "linked")
    /\ \/ /\ lead[req[w].lead].status = "converted_to_order"
          /\ Release(w)
       \/ /\ lead[req[w].lead].status # "converted_to_order"
          /\ Goto(w, "heal")
          /\ UNCHANGED queue
    /\ UNCHANGED <<lead, late, order, failures, crashes, forced, abandoned>>

-----------------------------------------------------------------------------
(* Faults *)

\* A statement of w fails: the exception releases the mutex if w holds it, is
\* logged and ends the work of w.  Rows written before stay as they are.
Fail(w) ==
    /\ failures < MaxFailures
    /\ \/ At(w, "timeout") /\ UNCHANGED queue
       \/ At(w, "written") /\ UNCHANGED queue
       \/ /\ \/ req[w].pc \in Holding
             \/ At(w, "queued") /\ HoldsMutex(w)
          /\ queue' = [queue EXCEPT ![req[w].lead] = Tail(@)]
    /\ req' = [req EXCEPT ![w] = Idle]
    /\ failures' = failures + 1
    /\ abandoned' = abandoned \cup (IF req[w].pc \in Drafting THEN {req[w].draft} ELSE {})
    /\ UNCHANGED <<lead, late, order, crashes, forced>>

\* The process restarts: the calls in flight and the mutexes are gone, the
\* tables remain and the sweep starts again.
Crash ==
    /\ crashes < MaxCrashes
    /\ \E w \in Workers : ~At(w, "idle")
    /\ req' = [w \in Workers |-> Idle]
    /\ queue' = [l \in Leads |-> <<>>]
    /\ crashes' = crashes + 1
    /\ abandoned' = abandoned \cup
          {req[w].draft : w \in {v \in Workers : req[v].pc \in Drafting}}
    /\ UNCHANGED <<lead, late, order, failures, forced>>

-----------------------------------------------------------------------------
(* Specification *)

\* What a worker does next without being asked again.
Finalize(w) ==
    \/ FinalizeRead(w) \/ FinalizeSkip(w) \/ Heal(w) \/ Expire(w) \/ Refetch(w)
    \/ InsertDraft(w) \/ PlaceDraft(w) \/ Announce(w) \/ LinkOrder(w) \/ ReadBack(w)

Continue(w) == TimeoutWrite(w) \/ StartFinalize(w) \/ Finalize(w)

Call(w, l) == PatchContact(w, l) \/ TimeoutRead(w, l) \/ PatchAdmin(w, l)

Next ==
    \/ \E l \in Leads : Create(l) \/ DeadlinePasses(l) \/ Sweep(l)
    \/ \E w \in Calls, l \in Leads : Call(w, l)
    \/ \E w \in Workers : Continue(w) \/ Fail(w)
    \/ Crash

Spec == Init /\ [][Next]_vars

\* Time passes, the interval timer fires again and again, and a promise whose
\* statement was answered runs on.  Nobody has to call, nothing has to fail.
Fairness ==
    /\ \A l \in Leads : WF_vars(DeadlinePasses(l)) /\ WF_vars(Sweep(l))
    /\ \A w \in Workers : WF_vars(Continue(w))

FairSpec == Spec /\ Fairness

-----------------------------------------------------------------------------
(* Properties *)

\* Of the orders drafted for a lead, at most one is not the leftover of a
\* finalization that failed: without faults a lead never gets two orders,
\* however the timeout, contact, admin and sweep calls interleave.
OneOrderPerLead ==
    \A o, p \in Orders \ abandoned :
        order[o].lead = order[p].lead /\ order[o].lead # NoLead => o = p

\* A lead is linked to an order of its own whose announcement to technicians was
\* run: the link is never ahead of the draft's second write and announcement.
LinkedOrderIsOffered ==
    \A l \in Leads : lead[l].order # NoOrder =>
        /\ order[lead[l].order].lead = l
        /\ order[lead[l].order].status = "matching"
        /\ order[lead[l].order].offered

\* No order is drafted before the lead's deadline unless an administrator
\* asked for the conversion, although markTimeout may have been called early.
NoEarlyOrder ==
    \A o \in Orders : order[o].lead \in Leads => order[o].lead \in late \cup forced

\* The order of a lead is never replaced by another one or dropped.
LinkIsFinal ==
    [][\A l \in Leads : lead[l].order # NoOrder => lead'[l].order = lead[l].order]_vars

\* A lead past its deadline gets its order, even when statements fail, the
\* process restarts, or the customer's and the administrator's calls rewrite
\* its status: the sweep retries.
LateLeadConverted ==
    \A l \in Leads : (l \in late) ~> (lead[l].order # NoOrder)

\* A status written over a converted lead by a late contact or timeout call is
\* repaired.
StatusRepaired ==
    \A l \in Leads : (lead[l].order # NoOrder) ~> (lead[l].status = "converted_to_order")

\* What the conversion promises, as an abstract specification of its own.
Conversion == INSTANCE LeadConversion WITH
    ready <- late \cup forced,
    link <- [l \in Leads |-> lead[l].order]

ConversionSpec == Conversion!Spec
=============================================================================
