------------------------ MODULE DispatchOffers_proofs ------------------------
(***************************************************************************)
(* Proofs about DispatchOffers, for any technicians, orders, regions,      *)
(* schedule types, profiles, wishes, calls and bounds.                     *)
(*                                                                         *)
(* TypeInv is inductive; so is, with it, RejectInv, which gives            *)
(* RejectedStaysAway, and TellInv, which gives TakersAreTold.              *)
(***************************************************************************)
EXTENDS DispatchOffers, TLAPS

USE DEF tables, counters

-----------------------------------------------------------------------------
(* The inductive invariant *)

\* Steps of an announcement, and of an acceptance.
Announcing == {"technicians", "tastes", "tell", "devices", "push"}

Accepting == {"check", "accept", "accepted"}

\* An announcement and an acceptance are about an order, and a call of a technician is
\* a technician's.
CallOK(c) ==
    /\ c \in Req
    /\ c.pc \in Announcing \cup Accepting \cup {"reject"} => c.of \in Orders
    /\ c.pc \in Accepting \cup {"reject", "rejections", "orders", "save"} => c.by \in Technicians
    /\ c.pc \in {"rejections", "orders"} => c.of = NoOrder

TypeInv == TypeOK /\ \A w \in Calls : CallOK(req[w])

\* What had been rejected when a listing began stays recorded, is hidden once the
\* rejections are read, and is not offered.
Hides(c) ==
    /\ c.pc = "rejections" => c.past \subseteq Rejected(c.by)
    /\ c.pc = "orders" => c.past \subseteq c.hidden
    /\ c.pc \in Announcing => c.offers = {}
    /\ c.pc = "answer" => c.offers \cap c.past = {}

RejectInv == TypeInv /\ \A w \in Calls : Hides(req[w])

\* A technician whom an announcement tells once it has read his preferences.
Takes(t, c) == Dispatchable(c.of, c.row) /\ Suits(c.of, Preferences(t))

Sent(S, c) == \A t \in S : "sent" \in log[c.of][t]

\* How far an announcement that nothing interferes with has come.
Tells(c) ==
    /\ c.pc = "technicians" => c.meant = {t \in AtWork : Takes(t, c)} /\ c.told = {} /\ c.heard = {}
    /\ c.pc = "tastes" => c.meant = c.told \cup {t \in c.todo : Takes(t, c)} /\ c.heard = {}
    /\ c.pc = "tell" => c.told = c.meant /\ Sent(c.told \ c.todo, c) /\ c.heard = {}
    /\ c.pc = "devices" => c.told = c.meant /\ Sent(c.told, c) /\ c.heard = {}
    /\ c.pc = "push" => /\ c.told = c.meant /\ Sent(c.told, c)
                        /\ c.heard \cup c.todo = c.meant \cap device
    /\ c.pc = "answer" /\ c.of # NoOrder =>
           /\ c.told = c.meant /\ Sent(c.told, c)
           /\ c.heard = c.meant \cap device

Alone == \A v, w \in InFlight : v = w

TellInv == TypeInv /\ (course = "regular" => Alone /\ \A w \in Calls : Tells(req[w]))

-----------------------------------------------------------------------------
(* Types *)

\* A call that is not in flight, and a new order, are of their types.
LEMMA IdleOK == CallOK(Idle) /\ Fresh \in OrderRow
  BY DEF CallOK, Idle, Req, Steps, Fresh, OrderRow, Taste, Announcing, Accepting

\* So is every row that publishes an order.
LEMMA PublishedType ==
    ASSUME NEW row \in OrderRow, NEW new \in Published(row)
    PROVE  new \in OrderRow
  BY DEF Published, OrderRow

\* The preferences of a technician are preferences.
LEMMA PreferencesType ==
    ASSUME TypeOK, NEW t \in Technicians
    PROVE  Preferences(t) \in Taste
<1>1. Profile[t] \in Taste /\ saved[t] \subseteq Taste
  BY OffersAssumption DEF TypeOK
<1>2. CASE saved[t] = {}
  BY <1>1, <1>2 DEF Preferences
<1>3. CASE saved[t] # {}
  <2>1. (CHOOSE p \in saved[t] : TRUE) \in Taste
    BY <1>1, <1>3
  <2> QED BY <1>1, <1>3, <2>1 DEF Preferences, Taste
<1> QED BY <1>2, <1>3

\* When one call moves, to a record that fits its step, all records fit theirs.
LEMMA MoveType ==
    ASSUME TypeInv, NEW w \in Calls, NEW c, CallOK(c), req' = [req EXCEPT ![w] = c]
    PROVE  /\ req' \in [Calls -> Req] /\ \A v \in Calls : CallOK(req'[v])
           /\ req'[w] = c /\ \A v \in Calls \ {w} : req'[v] = req[v]
<1>1. req \in [Calls -> Req] /\ c \in Req /\ \A v \in Calls : CallOK(req[v])
  BY DEF TypeInv, TypeOK, CallOK
<1>2. \A v \in Calls : req'[v] = IF v = w THEN c ELSE req[v]
  BY <1>1
<1> QED BY <1>1, <1>2

\* So they do when a call ends.
LEMMA FinishType ==
    ASSUME TypeInv, NEW w \in Calls, Finish(w)
    PROVE  req' \in [Calls -> Req] /\ \A v \in Calls : CallOK(req'[v])
  BY MoveType, IdleOK DEF Finish

\* A call that arrives counts.
LEMMA ArriveType ==
    ASSUME TypeOK, NEW w \in Calls, Arrive(w)
    PROVE  arrived' \in 0..MaxArrivals /\ failures' \in 0..MaxFailures /\ course' \in {"regular", "irregular"}
  BY OffersAssumption DEF Arrive, TypeOK

\* Nothing but the record of a call and one table may change in a step.
LEMMA StepType ==
    ASSUME req' \in [Calls -> Req], \A v \in Calls : CallOK(req'[v]),
           order' \in [Orders -> OrderRow],
           tech' \in [Technicians -> [status: {"approved", "suspended"}, work: {"on", "off"}]],
           saved' \in [Technicians -> SUBSET Taste],
           log' \in [Orders -> [Technicians -> SUBSET {"sent", "accepted", "rejected"}]],
           device' \in SUBSET Technicians,
           event' \in [Orders -> [Technicians -> SUBSET {"sent", "failed", "skipped"}]],
           arrived' \in 0..MaxArrivals, failures' \in 0..MaxFailures,
           course' \in {"regular", "irregular"}
    PROVE  TypeInv'
  BY DEF TypeInv, TypeOK

\* A technician's call enters as what its first read makes of it.
EnterOK(c) ==
    /\ c \in Req
    /\ \/ c.pc \in {"check", "reject"} /\ c.of \in Orders
       \/ c.pc \in {"rejections", "save"} /\ c.of = NoOrder

LEMMA EnterType ==
    ASSUME TypeInv, NEW w \in Calls, NEW t \in Technicians, NEW c, EnterOK(c), Enter(w, t, c), UNCHANGED tables
    PROVE  TypeInv'
<1>t. TypeOK /\ tech[t].work \in {"on", "off"}
  BY DEF TypeInv, TypeOK
<1>1. CallOK([c EXCEPT !.by = t, !.work = tech[t].work])
  BY <1>t DEF EnterOK, CallOK, Req, Announcing, Accepting
<1>2. req' \in [Calls -> Req] /\ \A v \in Calls : CallOK(req'[v])
  BY <1>1, MoveType DEF Enter
<1> QED BY <1>t, <1>2, ArriveType, StepType DEF Enter, TypeOK

\* What is recorded of a technician and an order is of the log's type.
LEMMA RecordType ==
    ASSUME TypeOK, NEW o \in Orders, NEW t \in Technicians,
           NEW status \in {"sent", "accepted", "rejected"}, Record(o, t, status)
    PROVE  log' \in [Orders -> [Technicians -> SUBSET {"sent", "accepted", "rejected"}]]
  BY DEF Record, TypeOK

\* An announcement keeps the types.
LEMMA AnnouncementType ==
    ASSUME TypeInv, NEW w \in Calls, Announcement(w)
    PROVE  TypeInv'
<1>t. TypeOK /\ CallOK(req[w]) /\ req[w] \in Req /\ req \in [Calls -> Req]
  BY DEF TypeInv, TypeOK, CallOK
<1>o. req[w].pc \in Announcing => req[w].of \in Orders
  BY <1>t DEF CallOK
<1>m. ASSUME NEW c, CallOK(c), req' = [req EXCEPT ![w] = c]
      PROVE  req' \in [Calls -> Req] /\ \A v \in Calls : CallOK(req'[v])
  BY <1>m, MoveType
<1>1. CASE Publish(w)
  <2>1. PICK o \in Orders : \E row \in Published(order[o]) :
           /\ order' = [order EXCEPT ![o] = row]
           /\ req' = [req EXCEPT ![w] = [Idle EXCEPT !.pc = "technicians", !.of = o, !.row = row,
                                                     !.meant = Takers(o, row)]]
    BY <1>1 DEF Publish
  <2>2. PICK row \in Published(order[o]) :
           /\ order' = [order EXCEPT ![o] = row]
           /\ req' = [req EXCEPT ![w] = [Idle EXCEPT !.pc = "technicians", !.of = o, !.row = row,
                                                     !.meant = Takers(o, row)]]
    BY <2>1
  <2>3. row \in OrderRow /\ Takers(o, row) \subseteq Technicians
    BY <1>t, PublishedType DEF TypeOK, Takers, AtWork, Approved
  <2>4. CallOK([Idle EXCEPT !.pc = "technicians", !.of = o, !.row = row, !.meant = Takers(o, row)])
    BY <2>3, IdleOK DEF CallOK, Idle, Req, Steps, Announcing, Accepting
  <2>5. order' \in [Orders -> OrderRow]
    BY <1>t, <2>2, <2>3 DEF TypeOK
  <2> QED BY <1>1, <1>t, <1>m, <2>2, <2>4, <2>5, ArriveType, StepType DEF Publish, TypeOK
<1>2. CASE TechniciansRead(w)
  <2>1. AtWork \subseteq Technicians
    BY DEF AtWork, Approved
  <2>2. CallOK([req[w] EXCEPT !.pc = "tastes", !.todo = AtWork])
    BY <1>2, <1>t, <2>1 DEF TechniciansRead, At, CallOK, Req, Steps, Announcing, Accepting
  <2>3. req' = [req EXCEPT ![w] = [req[w] EXCEPT !.pc = "tastes", !.todo = AtWork]]
    BY <1>2, <1>t DEF TechniciansRead
  <2> QED BY <1>2, <1>t, <1>m, <2>2, <2>3, StepType DEF TechniciansRead, TypeOK
<1>3. CASE TasteRead(w)
  <2>1. PICK t \in req[w].todo :
           req' = [req EXCEPT ![w].todo = @ \ {t},
                              ![w].told = IF /\ Dispatchable(req[w].of, req[w].row)
                                             /\ Suits(req[w].of, Preferences(t))
                                            THEN @ \cup {t} ELSE @]
    BY <1>3 DEF TasteRead
  <2>2. PICK told \in {req[w].told, req[w].told \cup {t}} :
           req' = [req EXCEPT ![w] = [req[w] EXCEPT !.todo = @ \ {t}, !.told = told]]
    BY <1>t, <2>1
  <2>3. CallOK([req[w] EXCEPT !.todo = @ \ {t}, !.told = told])
    BY <1>3, <1>t DEF TasteRead, At, CallOK, Req, Steps, Announcing, Accepting
  <2> QED BY <1>3, <1>t, <1>m, <2>2, <2>3, StepType DEF TasteRead, TypeOK
<1>4. CASE Chosen(w)
  <2>1. PICK pc \in {"answer", "tell"} :
           req' = [req EXCEPT ![w] = [req[w] EXCEPT !.pc = pc, !.todo = req[w].told]]
    BY <1>4, <1>t DEF Chosen
  <2>2. CallOK([req[w] EXCEPT !.pc = pc, !.todo = req[w].told])
    BY <1>4, <1>t DEF Chosen, At, CallOK, Req, Steps, Announcing, Accepting
  <2> QED BY <1>4, <1>t, <1>m, <2>1, <2>2, StepType DEF Chosen, TypeOK
<1>5. CASE Tell(w)
  <2>1. PICK t \in req[w].todo :
           /\ Record(req[w].of, t, "sent")
           /\ req' = [req EXCEPT ![w].todo = @ \ {t},
                                 ![w].pc = IF req[w].todo = {t} THEN "devices" ELSE @]
    BY <1>5 DEF Tell
  <2>2. PICK pc \in {"devices", "tell"} :
           req' = [req EXCEPT ![w] = [req[w] EXCEPT !.todo = @ \ {t}, !.pc = pc]]
    BY <1>5, <1>t, <2>1 DEF Tell, At
  <2>3. CallOK([req[w] EXCEPT !.todo = @ \ {t}, !.pc = pc])
    BY <1>5, <1>t DEF Tell, At, CallOK, Req, Steps, Announcing, Accepting
  <2>4. req[w].of \in Orders /\ t \in Technicians
    BY <1>5, <1>t, <1>o DEF Tell, At, Announcing, Req
  <2>5. log' \in [Orders -> [Technicians -> SUBSET {"sent", "accepted", "rejected"}]]
    BY <1>t, <2>1, <2>4, RecordType
  <2> QED BY <1>5, <1>t, <1>m, <2>2, <2>3, <2>5, StepType DEF Tell, TypeOK
<1>6. CASE DevicesRead(w)
  <2>1. req[w].of \in Orders
    BY <1>6, <1>o DEF DevicesRead, At, Announcing
  <2>2. event' \in [Orders -> [Technicians -> SUBSET {"sent", "failed", "skipped"}]]
    <3> DEFINE row == [t \in Technicians |-> IF t \in req[w].told THEN event[req[w].of][t] \cup {"skipped"}
                                             ELSE event[req[w].of][t]]
    <3>1. row \in [Technicians -> SUBSET {"sent", "failed", "skipped"}]
      BY <1>t, <2>1 DEF TypeOK
    <3>2. event' = [event EXCEPT ![req[w].of] = row] \/ event' = event
      BY <1>6, <1>t, <2>1 DEF DevicesRead, TypeOK
    <3> QED BY <1>t, <3>1, <3>2 DEF TypeOK
  <2>3. PICK c \in {[req[w] EXCEPT !.pc = "answer"],
                    [req[w] EXCEPT !.pc = "push", !.todo = req[w].told \cap device]} :
           req' = [req EXCEPT ![w] = c]
    BY <1>6, <1>t DEF DevicesRead, Goto
  <2>4. /\ CallOK([req[w] EXCEPT !.pc = "answer"])
        /\ CallOK([req[w] EXCEPT !.pc = "push", !.todo = req[w].told \cap device])
    BY <1>6, <1>t DEF DevicesRead, At, CallOK, Req, Steps, Announcing, Accepting
  <2> QED BY <1>6, <1>t, <1>m, <2>2, <2>3, <2>4, StepType DEF DevicesRead, TypeOK
<1>7. CASE Push(w)
  <2>1. PICK t \in req[w].todo, outcome \in {"sent", "failed", "skipped"} :
           /\ event' = [event EXCEPT ![req[w].of][t] = @ \cup {outcome}]
           /\ req' = [req EXCEPT ![w].todo = @ \ {t}, ![w].heard = @ \cup {t},
                                 ![w].pc = IF req[w].todo = {t} THEN "answer" ELSE @]
    BY <1>7 DEF Push
  <2>2. PICK pc \in {"answer", "push"} :
           req' = [req EXCEPT ![w] = [req[w] EXCEPT !.todo = @ \ {t}, !.heard = @ \cup {t}, !.pc = pc]]
    BY <1>7, <1>t, <2>1 DEF Push, At
  <2>3. CallOK([req[w] EXCEPT !.todo = @ \ {t}, !.heard = @ \cup {t}, !.pc = pc])
    BY <1>7, <1>t DEF Push, At, CallOK, Req, Steps, Announcing, Accepting
  <2>4. req[w].of \in Orders /\ t \in Technicians
    BY <1>7, <1>t, <1>o DEF Push, At, Announcing, Req
  <2>5. event' \in [Orders -> [Technicians -> SUBSET {"sent", "failed", "skipped"}]]
    BY <1>t, <2>1, <2>4 DEF TypeOK
  <2> QED BY <1>7, <1>t, <1>m, <2>2, <2>3, <2>5, StepType DEF Push, TypeOK
<1> QED BY <1>1, <1>2, <1>3, <1>4, <1>5, <1>6, <1>7 DEF Announcement

\* So do the listing of offers, acceptances and rejections.
LEMMA OfferType ==
    ASSUME TypeInv, NEW w \in Calls, Offer(w)
    PROVE  TypeInv'
<1>t. TypeOK /\ CallOK(req[w]) /\ req[w] \in Req /\ req \in [Calls -> Req]
  BY DEF TypeInv, TypeOK, CallOK
<1>a. \A t \in Approved : t \in Technicians
  BY DEF Approved
<1>m. ASSUME NEW c, CallOK(c), req' = [req EXCEPT ![w] = c]
      PROVE  req' \in [Calls -> Req] /\ \A v \in Calls : CallOK(req'[v])
  BY <1>m, MoveType
<1>1. CASE List(w)
  <2>1. PICK t \in Approved :
           Enter(w, t, [Idle EXCEPT !.pc = "rejections", !.taste = Preferences(t), !.past = Rejected(t)])
    BY <1>1 DEF List
  <2>2. Preferences(t) \in Taste /\ Rejected(t) \subseteq Orders /\ t \in Technicians
    BY <1>t, <1>a, PreferencesType DEF Rejected
  <2>3. EnterOK([Idle EXCEPT !.pc = "rejections", !.taste = Preferences(t), !.past = Rejected(t)])
    BY <2>2, IdleOK DEF EnterOK, CallOK, Idle, Req, Steps, Announcing, Accepting
  <2> QED BY <1>1, <2>1, <2>2, <2>3, EnterType DEF List
<1>2. CASE RejectionsRead(w)
  <2>1. CallOK([req[w] EXCEPT !.pc = "orders", !.hidden = Rejected(req[w].by)])
    BY <1>2, <1>t DEF RejectionsRead, At, Rejected, CallOK, Req, Steps, Announcing, Accepting
  <2>2. req' = [req EXCEPT ![w] = [req[w] EXCEPT !.pc = "orders", !.hidden = Rejected(req[w].by)]]
    BY <1>2, <1>t DEF RejectionsRead
  <2> QED BY <1>2, <1>t, <1>m, <2>1, <2>2, StepType DEF RejectionsRead, TypeOK
<1>3. CASE OrdersRead(w)
  <2>1. PICK offers \in SUBSET Orders :
           req' = [req EXCEPT ![w] = [req[w] EXCEPT !.pc = "answer", !.offers = offers]]
    BY <1>3, <1>t DEF OrdersRead
  <2>2. CallOK([req[w] EXCEPT !.pc = "answer", !.offers = offers])
    BY <1>3, <1>t DEF OrdersRead, At, CallOK, Req, Steps, Announcing, Accepting
  <2> QED BY <1>3, <1>t, <1>m, <2>1, <2>2, StepType DEF OrdersRead, TypeOK
<1>4. CASE Accept(w)
  <2>1. ASSUME NEW o \in Orders PROVE EnterOK([Idle EXCEPT !.pc = "check", !.of = o])
    BY IdleOK DEF EnterOK, CallOK, Idle, Req, Steps, Announcing, Accepting
  <2> QED BY <1>4, <1>a, <2>1, EnterType DEF Accept
<1>5. CASE AcceptCheck(w)
  <2>1. CallOK([req[w] EXCEPT !.pc = "accept"])
    BY <1>5, <1>t DEF AcceptCheck, At, CallOK, Req, Steps, Announcing, Accepting
  <2>2. req' = [req EXCEPT ![w] = [req[w] EXCEPT !.pc = "accept"]] \/ Finish(w)
    BY <1>5, <1>t DEF AcceptCheck, Goto
  <2>3. req' \in [Calls -> Req] /\ \A v \in Calls : CallOK(req'[v])
    BY <1>m, <2>1, <2>2, FinishType
  <2> QED BY <1>5, <1>t, <2>3, StepType DEF AcceptCheck, TypeOK
<1>6. CASE AcceptWrite(w)
  <2>1. CallOK([req[w] EXCEPT !.pc = "accepted"]) /\ req[w].of \in Orders /\ req[w].by \in Technicians
    BY <1>6, <1>t DEF AcceptWrite, At, CallOK, Req, Steps, Announcing, Accepting
  <2>2. req' = [req EXCEPT ![w] = [req[w] EXCEPT !.pc = "accepted"]] \/ Finish(w)
    BY <1>6, <1>t DEF AcceptWrite, Goto
  <2>3. req' \in [Calls -> Req] /\ \A v \in Calls : CallOK(req'[v])
    BY <1>m, <2>1, <2>2, FinishType
  <2>4. order' \in [Orders -> OrderRow]
    <3> DEFINE row == [order[req[w].of] EXCEPT !.status = "accepted", !.technician = req[w].by]
    <3>o. order[req[w].of] \in OrderRow
      BY <1>t, <2>1 DEF TypeOK
    <3>1. row \in OrderRow
      BY <2>1, <3>o DEF OrderRow
    <3>2. order' = order \/ order' = [order EXCEPT ![req[w].of] = row]
      BY <1>6, <1>t, <2>1 DEF AcceptWrite, TypeOK
    <3> QED BY <1>t, <3>1, <3>2 DEF TypeOK
  <2> QED BY <1>6, <1>t, <2>3, <2>4, StepType DEF AcceptWrite, TypeOK
<1>7. CASE AcceptRecord(w)
  <2>1. req[w].of \in Orders /\ req[w].by \in Technicians
    BY <1>7, <1>t DEF AcceptRecord, At, CallOK, Accepting
  <2>2. log' \in [Orders -> [Technicians -> SUBSET {"sent", "accepted", "rejected"}]]
    BY <1>7, <1>t, <2>1, RecordType DEF AcceptRecord
  <2> QED BY <1>7, <1>t, <2>2, FinishType, StepType DEF AcceptRecord, TypeOK
<1>8. CASE Reject(w)
  <2>1. ASSUME NEW o \in Orders PROVE EnterOK([Idle EXCEPT !.pc = "reject", !.of = o])
    BY IdleOK DEF EnterOK, CallOK, Idle, Req, Steps, Announcing, Accepting
  <2> QED BY <1>8, <1>a, <2>1, EnterType DEF Reject
<1>9. CASE RejectRecord(w)
  <2>1. req[w].of \in Orders /\ req[w].by \in Technicians
    BY <1>9, <1>t DEF RejectRecord, At, CallOK
  <2>2. log' \in [Orders -> [Technicians -> SUBSET {"sent", "accepted", "rejected"}]]
    BY <1>9, <1>t, <2>1, RecordType DEF RejectRecord
  <2> QED BY <1>9, <1>t, <2>2, FinishType, StepType DEF RejectRecord, TypeOK
<1> QED BY <1>1, <1>2, <1>3, <1>4, <1>5, <1>6, <1>7, <1>8, <1>9 DEF Offer

\* So do preferences and devices.
LEMMA SettingType ==
    ASSUME TypeInv, NEW w \in Calls, Setting(w)
    PROVE  TypeInv'
<1>t. TypeOK /\ CallOK(req[w]) /\ req[w] \in Req /\ \A v \in Calls : CallOK(req[v])
  BY DEF TypeInv, CallOK
<1>1. CASE Prefer(w)
  <2>1. ASSUME NEW taste \in Taste PROVE EnterOK([Idle EXCEPT !.pc = "save", !.taste = taste])
    BY IdleOK DEF EnterOK, CallOK, Idle, Req, Steps, Announcing, Accepting
  <2>2. ASSUME NEW t \in Technicians, NEW wish \in Wishes, NEW kinds \in SUBSET Kinds,
               NEW switched, switched = [Preferences(t) EXCEPT !.kinds = (@ \ kinds) \cup (wish.kinds \cap kinds)]
        PROVE  switched \in Taste /\ [switched EXCEPT !.regions = wish.regions] \in Taste
    <3>1. Preferences(t) \in Taste /\ wish \in Taste
      BY <1>t, PreferencesType, OffersAssumption
    <3> QED BY <2>2, <3>1 DEF Taste
  <2>3. PICK t \in Technicians :
           \E wish \in Wishes, kinds \in SUBSET Kinds :
             \E next \in Taste : Enter(w, t, [Idle EXCEPT !.pc = "save", !.taste = next])
    BY <1>1, <2>2 DEF Prefer, Approved
  <2> QED BY <1>1, <2>1, <2>3, EnterType DEF Prefer
<1>2. CASE Save(w)
  <2>1. req[w].by \in Technicians /\ req[w].taste \in Taste
    BY <1>2, <1>t DEF Save, At, CallOK, Req
  <2>2. saved' \in [Technicians -> SUBSET Taste]
    BY <1>2, <1>t, <2>1 DEF Save, TypeOK
  <2> QED BY <1>2, <1>t, <2>2, FinishType, StepType DEF Save, TypeOK
<1>3. CASE RegisterDevice(w)
  <2>1. device' \in SUBSET Technicians
    BY <1>3, <1>t DEF RegisterDevice, Approved, TypeOK
  <2> QED BY <1>3, <1>t, <2>1, ArriveType, StepType DEF RegisterDevice, TypeOK
<1> QED BY <1>1, <1>2, <1>3 DEF Setting

\* So do the rest of the system and a failure.
LEMMA WorldType ==
    ASSUME TypeInv, NEW w \in Calls, World(w) \/ Answer(w) \/ Fail(w)
    PROVE  TypeInv'
<1>t. TypeOK /\ CallOK(req[w]) /\ req[w] \in Req /\ \A v \in Calls : CallOK(req[v])
  BY DEF TypeInv, CallOK
<1>1. CASE Change(w)
  <2>1. tech' \in [Technicians -> [status: {"approved", "suspended"}, work: {"on", "off"}]]
    BY <1>1, <1>t DEF Change, TypeOK
  <2> QED BY <1>1, <1>t, <2>1, ArriveType, StepType DEF Change, TypeOK
<1>2. CASE Move(w)
  <2>1. PICK o \in Orders :
           \E row \in {[order[o] EXCEPT !.status = "closed", !.payment = "failed"],
                        [order[o] EXCEPT !.status = "closed"]}
                      \cup [status: {"accepted"}, payment: {order[o].payment, "paid"}, technician: Technicians] :
             order' = [order EXCEPT ![o] = row]
    BY <1>2 DEF Move
  <2>o. order[o] \in OrderRow
    BY <1>t DEF TypeOK
  <2>s. /\ [order[o] EXCEPT !.status = "closed", !.payment = "failed"] \in OrderRow
        /\ [order[o] EXCEPT !.status = "closed"] \in OrderRow
        /\ [status: {"accepted"}, payment: {order[o].payment, "paid"}, technician: Technicians] \subseteq OrderRow
    BY <2>o DEF OrderRow
  <2>2. PICK row \in OrderRow : order' = [order EXCEPT ![o] = row]
    BY <2>1, <2>s
  <2>3. order' \in [Orders -> OrderRow]
    BY <1>t, <2>2 DEF TypeOK
  <2> QED BY <1>2, <1>t, <2>3, ArriveType, StepType DEF Move, TypeOK
<1>3. CASE Answer(w)
  BY <1>3, <1>t, FinishType, StepType DEF Answer, TypeOK
<1>4. CASE Fail(w)
  <2>1. failures' \in 0..MaxFailures
    BY <1>4, <1>t, OffersAssumption DEF Fail, TypeOK
  <2>2. log' \in [Orders -> [Technicians -> SUBSET {"sent", "accepted", "rejected"}]]
    <3>1. CASE At(w, "tell")
      <4>1. req[w].of \in Orders
        BY <1>t, <3>1 DEF At, CallOK, Announcing
      <4>2. PICK lost \in SUBSET req[w].todo \ {{}} :
               log' = [log EXCEPT ![req[w].of] =
                         [t \in Technicians |-> IF t \in req[w].todo \ lost THEN @[t] \cup {"sent"} ELSE @[t]]]
        BY <1>4, <3>1 DEF Fail
      <4> DEFINE row == [t \in Technicians |-> IF t \in req[w].todo \ lost THEN log[req[w].of][t] \cup {"sent"}
                                               ELSE log[req[w].of][t]]
      <4>3. row \in [Technicians -> SUBSET {"sent", "accepted", "rejected"}]
        BY <1>t, <4>1 DEF TypeOK
      <4>4. log' = [log EXCEPT ![req[w].of] = row]
        BY <4>2
      <4> QED BY <1>t, <4>3, <4>4 DEF TypeOK
    <3> QED BY <1>4, <1>t, <3>1 DEF Fail, TypeOK
  <2> QED BY <1>4, <1>t, <2>1, <2>2, FinishType, StepType DEF Fail, TypeOK
<1> QED BY <1>1, <1>2, <1>3, <1>4 DEF World

\* At the start no call is in flight.
LEMMA InitType == Init => TypeInv
  BY IdleOK, OffersAssumption DEF Init, TypeInv, TypeOK, CallOK

\* The type invariant: every table and every call in flight stays of its type, and what
\* a call has loaded is of the kind its step is about.
THEOREM TypeCorrect == Spec => []TypeInv
<1>1. TypeInv /\ [Next]_vars => TypeInv'
  <2> SUFFICES ASSUME TypeInv, [Next]_vars PROVE TypeInv'
    OBVIOUS
  <2>1. CASE Next
    BY <2>1, AnnouncementType, OfferType, SettingType, WorldType DEF Next
  <2>2. CASE UNCHANGED vars
    BY <2>2 DEF vars, TypeInv, TypeOK
  <2> QED BY <2>1, <2>2
<1> QED BY <1>1, InitType, PTL DEF Spec

-----------------------------------------------------------------------------
(* Rejections *)

\* A step of one call leaves the records of the others alone.
LEMMA OneMoves ==
    ASSUME TypeInv, NEW w \in Calls,
           Announcement(w) \/ Offer(w) \/ Setting(w) \/ World(w) \/ Answer(w) \/ Fail(w)
    PROVE  \A v \in Calls \ {w} : req'[v] = req[v]
<1>t. req \in [Calls -> Req]
  BY DEF TypeInv, TypeOK
<1>e. ASSUME NEW t, NEW c, Enter(w, t, c) PROVE \A v \in Calls \ {w} : req'[v] = req[v]
  BY <1>t, <1>e DEF Enter
<1>1. CASE Announcement(w)
  BY <1>1, <1>t DEF Announcement, Publish, TechniciansRead, TasteRead, Chosen, Tell, DevicesRead, Push, Goto
<1>2. CASE List(w) \/ Accept(w) \/ Reject(w)
  BY <1>2, <1>e DEF List, Accept, Reject
<1>3. CASE RejectionsRead(w) \/ OrdersRead(w)
  BY <1>3, <1>t DEF RejectionsRead, OrdersRead
<1>4. CASE AcceptCheck(w) \/ AcceptWrite(w) \/ AcceptRecord(w) \/ RejectRecord(w)
  BY <1>4, <1>t DEF AcceptCheck, AcceptWrite, AcceptRecord, RejectRecord, Goto, Finish
<1>5. CASE Prefer(w)
  BY <1>5, <1>e DEF Prefer
<1>6. CASE Save(w) \/ RegisterDevice(w) \/ World(w) \/ Answer(w) \/ Fail(w)
  BY <1>6, <1>t DEF Save, RegisterDevice, World, Change, Move, Answer, Fail, Finish
<1> QED BY <1>1, <1>2, <1>3, <1>4, <1>5, <1>6 DEF Offer, Setting

\* What is recorded of a technician and an order stays recorded.
LEMMA LogGrows ==
    ASSUME TypeInv, NEW w \in Calls,
           Announcement(w) \/ Offer(w) \/ Setting(w) \/ World(w) \/ Answer(w) \/ Fail(w)
    PROVE  \A o \in Orders, t \in Technicians : log[o][t] \subseteq log'[o][t]
<1>t. TypeOK
  BY DEF TypeInv
<1>r. ASSUME NEW x, NEW u, NEW status, Record(x, u, status)
      PROVE  \A o \in Orders, t \in Technicians : log[o][t] \subseteq log'[o][t]
  BY <1>t, <1>r DEF Record, TypeOK
<1>1. CASE Tell(w) \/ AcceptRecord(w) \/ RejectRecord(w)
  BY <1>1, <1>r DEF Tell, AcceptRecord, RejectRecord
<1>2. CASE Fail(w) /\ At(w, "tell")
  <2>1. PICK lost \in SUBSET req[w].todo \ {{}} :
           log' = [log EXCEPT ![req[w].of] =
                     [t \in Technicians |-> IF t \in req[w].todo \ lost THEN @[t] \cup {"sent"} ELSE @[t]]]
    BY <1>2 DEF Fail
  <2> QED BY <1>t, <2>1 DEF TypeOK
<1>3. CASE UNCHANGED log
  BY <1>3
<1>4. ASSUME ~(Tell(w) \/ AcceptRecord(w) \/ RejectRecord(w)), ~(Fail(w) /\ At(w, "tell"))
      PROVE  UNCHANGED log
  <2>1. CASE Announcement(w)
    BY <1>4, <2>1 DEF Announcement, Publish, TechniciansRead, TasteRead, Chosen, DevicesRead, Push
  <2>2. CASE Offer(w)
    BY <1>4, <2>2 DEF Offer, List, RejectionsRead, OrdersRead, Accept, AcceptCheck, AcceptWrite, Reject
  <2>3. CASE Setting(w) \/ World(w) \/ Answer(w) \/ Fail(w)
    BY <1>4, <2>3 DEF Setting, Prefer, Save, RegisterDevice, World, Change, Move, Answer, Fail
  <2> QED BY <2>1, <2>2, <2>3
<1> QED BY <1>1, <1>2, <1>3, <1>4

\* So what a call has at hand of the rejections stays true while others move.
LEMMA HidesStays ==
    ASSUME NEW v \in Calls, CallOK(req[v]), Hides(req[v]), req'[v] = req[v],
           \A o \in Orders, t \in Technicians : log[o][t] \subseteq log'[o][t]
    PROVE  Hides(req[v])'
<1>1. req[v].pc = "rejections" => req[v].by \in Technicians /\ Rejected(req[v].by) \subseteq Rejected(req[v].by)'
  BY DEF CallOK, Rejected
<1> QED BY <1>1 DEF Hides

\* A listing keeps what it has read of the rejections until it leaves them out; no other
\* call offers anything.
LEMMA HidesOwn ==
    ASSUME RejectInv, NEW w \in Calls,
           Announcement(w) \/ Offer(w) \/ Setting(w) \/ World(w) \/ Answer(w) \/ Fail(w)
    PROVE  Hides(req[w])'
<1>t. req \in [Calls -> Req] /\ CallOK(req[w]) /\ Hides(req[w])
  BY DEF RejectInv, TypeInv, TypeOK
<1>f. ASSUME Finish(w) PROVE Hides(req[w])'
  BY <1>t, <1>f DEF Finish, Idle, Hides, Announcing
<1>e. ASSUME NEW t, NEW pc \in {"check", "reject", "save"}, NEW o, NEW taste,
             \/ Enter(w, t, [Idle EXCEPT !.pc = pc, !.of = o])
             \/ Enter(w, t, [Idle EXCEPT !.pc = pc, !.taste = taste])
      PROVE  Hides(req[w])'
  <2>1. req'[w].pc = pc
    BY <1>t, <1>e DEF Enter, Idle
  <2> QED BY <2>1 DEF Hides, Announcing
<1>1. CASE Publish(w)
  BY <1>t, <1>1 DEF Publish, Idle, Hides, Announcing
<1>2. CASE TechniciansRead(w) \/ TasteRead(w) \/ Chosen(w) \/ Tell(w) \/ DevicesRead(w) \/ Push(w)
  <2>1. req[w].pc \in Announcing /\ req[w] \in Req
    BY <1>t, <1>2 DEF TechniciansRead, TasteRead, Chosen, Tell, DevicesRead, Push, At, Announcing, CallOK
  <2>2. CASE TechniciansRead(w)
    BY <1>t, <2>1, <2>2 DEF TechniciansRead, Req, Hides, Announcing
  <2>3. CASE TasteRead(w)
    <3>1. req'[w].offers = req[w].offers /\ req'[w].pc = req[w].pc
      BY <1>t, <2>1, <2>3 DEF TasteRead, Req
    <3> QED BY <1>t, <2>1, <3>1 DEF Hides, Announcing
  <2>4. CASE Chosen(w)
    BY <1>t, <2>1, <2>4 DEF Chosen, Req, Hides, Announcing
  <2>5. CASE Tell(w)
    <3>1. req'[w].offers = req[w].offers /\ req'[w].pc \in {"tell", "devices"}
      BY <1>t, <2>1, <2>5 DEF Tell, At, Req
    <3> QED BY <1>t, <2>1, <3>1 DEF Hides, Announcing
  <2>6. CASE DevicesRead(w)
    BY <1>t, <2>1, <2>6 DEF DevicesRead, Goto, Req, Hides, Announcing
  <2>7. CASE Push(w)
    <3>1. req'[w].offers = req[w].offers /\ req'[w].pc \in {"push", "answer"}
      BY <1>t, <2>1, <2>7 DEF Push, At, Req
    <3> QED BY <1>t, <2>1, <3>1 DEF Hides, Announcing
  <2> QED BY <1>2, <2>2, <2>3, <2>4, <2>5, <2>6, <2>7
<1>3. CASE List(w)
  <2>1. PICK t \in Technicians :
           Enter(w, t, [Idle EXCEPT !.pc = "rejections", !.taste = Preferences(t), !.past = Rejected(t)])
    BY <1>3 DEF List, Approved
  <2>2. req'[w].pc = "rejections" /\ req'[w].past = Rejected(t) /\ req'[w].by = t
    BY <1>t, <2>1 DEF Enter, Idle
  <2>3. Rejected(t)' = Rejected(t)
    BY <1>3 DEF List, Rejected
  <2> QED BY <2>2, <2>3 DEF Hides, Announcing
<1>4. CASE RejectionsRead(w)
  BY <1>t, <1>4 DEF RejectionsRead, At, Hides, Req, Announcing
<1>5. CASE OrdersRead(w)
  BY <1>t, <1>5 DEF OrdersRead, At, Hides, Req, Announcing
<1>6. CASE Accept(w) \/ Reject(w) \/ Prefer(w)
  BY <1>6, <1>e DEF Accept, Reject, Prefer
<1>7. CASE AcceptCheck(w) \/ AcceptWrite(w)
  <2>1. Finish(w) \/ req'[w].pc \in {"accept", "accepted"}
    BY <1>t, <1>7 DEF AcceptCheck, AcceptWrite, Goto, Req
  <2> QED BY <1>f, <2>1 DEF Hides, Announcing
<1>8. CASE AcceptRecord(w) \/ RejectRecord(w) \/ Save(w) \/ Answer(w) \/ Fail(w)
  BY <1>8, <1>f DEF AcceptRecord, RejectRecord, Save, Answer, Fail
<1>9. CASE RegisterDevice(w) \/ World(w)
  <2>1. req'[w].pc = "idle"
    BY <1>9 DEF RegisterDevice, World, Change, Move, Arrive, At
  <2> QED BY <2>1 DEF Hides, Announcing
<1> QED BY <1>1, <1>2, <1>3, <1>4, <1>5, <1>6, <1>7, <1>8, <1>9 DEF Announcement, Offer, Setting

\* What had been rejected when a listing began stays recorded while the listing reads,
\* is hidden once it has read the rejections, and is not among its offers.
THEOREM RejectCorrect == Spec => []RejectInv
<1>1. Init => RejectInv
  BY InitType DEF Init, RejectInv, Idle, Hides, Announcing
<1>2. RejectInv /\ TypeInv' /\ [Next]_vars => RejectInv'
  <2> SUFFICES ASSUME RejectInv, TypeInv', [Next]_vars PROVE RejectInv'
    OBVIOUS
  <2>t. TypeInv /\ \A v \in Calls : CallOK(req[v]) /\ Hides(req[v])
    BY DEF RejectInv, TypeInv
  <2>1. ASSUME NEW w \in Calls,
               Announcement(w) \/ Offer(w) \/ Setting(w) \/ World(w) \/ Answer(w) \/ Fail(w)
        PROVE  \A v \in Calls : Hides(req[v])'
    <3>1. ASSUME NEW v \in Calls \ {w} PROVE Hides(req[v])'
      BY <2>t, <2>1, <3>1, OneMoves, LogGrows, HidesStays
    <3> QED BY <2>1, <3>1, HidesOwn
  <2>2. CASE UNCHANGED vars
    BY <2>t, <2>2 DEF vars, RejectInv, Hides, Rejected
  <2> QED BY <2>1, <2>2 DEF Next, RejectInv
<1> QED BY <1>1, <1>2, TypeCorrect, PTL DEF Spec

\* However calls overlap, a listing does not show an order that the technician had
\* rejected before he asked for it, announced again or not.
THEOREM RejectedStaysAwayHolds == Spec => []RejectedStaysAway
<1>1. RejectInv => RejectedStaysAway
  BY DEF RejectInv, RejectedStaysAway, Hides, At
<1> QED BY <1>1, RejectCorrect, PTL

-----------------------------------------------------------------------------
(* Announcements *)

\* As long as the course is regular, whoever moves is the only one in flight.
LEMMA OthersAreIdle ==
    ASSUME TypeInv, course = "regular" => Alone, NEW w \in Calls, course' = "regular",
           Announcement(w) \/ Offer(w) \/ Setting(w) \/ World(w) \/ Answer(w) \/ Fail(w)
    PROVE  course = "regular" /\ \A v \in Calls \ {w} : At(v, "idle")
<1>1. ASSUME Arrive(w) PROVE course = "regular" /\ \A v \in Calls \ {w} : At(v, "idle")
  BY <1>1 DEF Arrive, InFlight
<1>2. ASSUME ~At(w, "idle"), course' = course
      PROVE  course = "regular" /\ \A v \in Calls \ {w} : At(v, "idle")
  BY <1>2 DEF Alone, InFlight
<1>3. CASE Announcement(w)
  BY <1>1, <1>2, <1>3 DEF Announcement, Publish, TechniciansRead, TasteRead, Chosen, Tell, DevicesRead, Push, At
<1>4. CASE Offer(w)
  BY <1>1, <1>2, <1>4 DEF Offer, List, RejectionsRead, OrdersRead, Accept, AcceptCheck, AcceptWrite,
                          AcceptRecord, Reject, RejectRecord, Enter, At
<1>5. CASE Setting(w) \/ World(w) \/ Answer(w)
  BY <1>1, <1>2, <1>5 DEF Setting, Prefer, Save, RegisterDevice, World, Change, Move, Answer, Enter, At
<1>6. ~Fail(w)
  BY DEF Fail
<1> QED BY <1>3, <1>4, <1>5, <1>6

\* The steps of an announcement that nothing interferes with.
LEMMA TellsAnnouncing ==
    ASSUME TypeInv, NEW w \in Calls, Tells(req[w]), Announcement(w)
    PROVE  Tells(req[w])'
<1>t. TypeOK /\ req \in [Calls -> Req] /\ req[w] \in Req /\ CallOK(req[w])
  BY DEF TypeInv, TypeOK, CallOK
<1>o. req[w].pc \in Announcing => req[w].of \in Orders
  BY <1>t DEF CallOK
<1>1. CASE Publish(w)
  <2>1. PICK o \in Orders : \E row \in Published(order[o]) :
           req' = [req EXCEPT ![w] = [Idle EXCEPT !.pc = "technicians", !.of = o, !.row = row,
                                                     !.meant = Takers(o, row)]]
    BY <1>1 DEF Publish
  <2>2. PICK row \in Published(order[o]) :
           req' = [req EXCEPT ![w] = [Idle EXCEPT !.pc = "technicians", !.of = o, !.row = row,
                                                     !.meant = Takers(o, row)]]
    BY <2>1
  <2>3. /\ req'[w].pc = "technicians" /\ req'[w].told = {} /\ req'[w].heard = {}
        /\ req'[w].of = o /\ req'[w].row = row /\ req'[w].meant = Takers(o, row)
    BY <1>t, <2>2 DEF Idle
  <2>4. UNCHANGED <<tech, saved>>
    BY <1>1 DEF Publish
  <2>5. req'[w].meant = {t \in AtWork : Takes(t, req[w])}'
    BY <2>3, <2>4 DEF Takers, Takes, AtWork, Approved, Preferences
  <2> QED BY <2>3, <2>5 DEF Tells
<1>2. CASE TechniciansRead(w)
  <2>1. /\ req'[w].pc = "tastes" /\ req'[w].todo = AtWork /\ req'[w].of = req[w].of /\ req'[w].row = req[w].row
        /\ req'[w].told = req[w].told /\ req'[w].heard = req[w].heard /\ req'[w].meant = req[w].meant
    BY <1>t, <1>2 DEF TechniciansRead, Req
  <2>2. req[w].meant = {t \in AtWork : Takes(t, req[w])} /\ req[w].told = {} /\ req[w].heard = {}
    BY <1>2 DEF TechniciansRead, At, Tells
  <2>3. \A t \in Technicians : Takes(t, req[w])' <=> Takes(t, req[w])
    BY <1>2, <2>1 DEF TechniciansRead, Takes, Preferences
  <2>4. req'[w].meant = req'[w].told \cup {t \in req'[w].todo : Takes(t, req[w])'}
    BY <2>1, <2>2, <2>3 DEF AtWork, Approved
  <2> QED BY <2>1, <2>2, <2>4 DEF Tells
<1>3. CASE TasteRead(w)
  <2>1. PICK t \in req[w].todo :
           req' = [req EXCEPT ![w].todo = @ \ {t},
                              ![w].told = IF /\ Dispatchable(req[w].of, req[w].row)
                                             /\ Suits(req[w].of, Preferences(t))
                                            THEN @ \cup {t} ELSE @]
    BY <1>3 DEF TasteRead
  <2>2. /\ req'[w].pc = "tastes" /\ req'[w].todo = req[w].todo \ {t}
        /\ req'[w].of = req[w].of /\ req'[w].row = req[w].row
        /\ req'[w].heard = req[w].heard /\ req'[w].meant = req[w].meant
        /\ req'[w].told = IF Takes(t, req[w]) THEN req[w].told \cup {t} ELSE req[w].told
    BY <1>t, <1>3, <2>1 DEF TasteRead, At, Req, Takes
  <2>3. req[w].meant = req[w].told \cup {u \in req[w].todo : Takes(u, req[w])} /\ req[w].heard = {}
    BY <1>3 DEF TasteRead, At, Tells
  <2>4. \A u \in Technicians : Takes(u, req[w])' <=> Takes(u, req[w])
    BY <1>3, <2>2 DEF TasteRead, Takes, Preferences
  <2>5. req'[w].meant = req'[w].told \cup {u \in req'[w].todo : Takes(u, req[w])'}
    <3>1. req[w].todo \subseteq Technicians
      BY <1>t DEF Req
    <3>2. ASSUME NEW u \in Technicians
          PROVE  u \in req[w].told \/ (u \in req[w].todo /\ Takes(u, req[w]))
                 <=> u \in req'[w].told \/ (u \in req'[w].todo /\ Takes(u, req[w]))
      <4>1. CASE u = t
        BY <2>1, <2>2, <4>1
      <4>2. CASE u # t
        BY <2>2, <4>2
      <4> QED BY <4>1, <4>2
    <3>3. req[w].told \subseteq Technicians /\ req'[w].told \subseteq Technicians /\ req'[w].todo \subseteq Technicians
      BY <1>t, <2>1, <2>2, <3>1 DEF Req
    <3>4. {u \in req'[w].todo : Takes(u, req[w])'} = {u \in req'[w].todo : Takes(u, req[w])}
      BY <2>4, <3>3
    <3>5. req'[w].told \cup {u \in req'[w].todo : Takes(u, req[w])} = req[w].told \cup {u \in req[w].todo : Takes(u, req[w])}
      BY <3>1, <3>2, <3>3
    <3> QED BY <2>2, <2>3, <3>4, <3>5
  <2> QED BY <2>2, <2>3, <2>5 DEF Tells
<1>4. CASE Chosen(w)
  <2>1. /\ req[w].todo = {} /\ req'[w].pc = IF req[w].told = {} THEN "answer" ELSE "tell"
        /\ req'[w].todo = req[w].told
        /\ req'[w].told = req[w].told /\ req'[w].heard = req[w].heard /\ req'[w].meant = req[w].meant
    BY <1>t, <1>4 DEF Chosen, Req
  <2>2. req[w].meant = req[w].told /\ req[w].heard = {}
    BY <1>4, <2>1 DEF Chosen, At, Tells
  <2> QED BY <2>1, <2>2 DEF Tells, Sent
<1>5. CASE Tell(w)
  <2>1. PICK t \in req[w].todo :
           /\ Record(req[w].of, t, "sent")
           /\ req' = [req EXCEPT ![w].todo = @ \ {t},
                                 ![w].pc = IF req[w].todo = {t} THEN "devices" ELSE @]
    BY <1>5 DEF Tell
  <2>2. /\ req'[w].pc = IF req[w].todo = {t} THEN "devices" ELSE "tell"
        /\ req'[w].todo = req[w].todo \ {t} /\ req'[w].of = req[w].of
        /\ req'[w].told = req[w].told /\ req'[w].heard = req[w].heard /\ req'[w].meant = req[w].meant
    BY <1>t, <1>5, <2>1 DEF Tell, At, Req
  <2>3. req[w].meant = req[w].told /\ req[w].heard = {} /\ Sent(req[w].told \ req[w].todo, req[w])
    BY <1>5 DEF Tell, At, Tells
  <2>4. req[w].of \in Orders /\ req[w].told \subseteq Technicians /\ t \in Technicians
    BY <1>t, <1>o, <1>5 DEF Tell, At, Announcing, Req
  <2>5. \A u \in req[w].told : u \notin req[w].todo \/ u = t => "sent" \in log'[req[w].of][u]
    BY <1>t, <2>1, <2>3, <2>4 DEF Record, Sent, TypeOK
  <2>6. Sent(req[w].told \ req[w].todo, req[w])'
    BY <2>2, <2>5 DEF Sent
  <2> QED BY <2>2, <2>3, <2>6 DEF Tells, Sent
<1>6. CASE DevicesRead(w)
  <2>1. req[w].meant = req[w].told /\ req[w].heard = {} /\ Sent(req[w].told, req[w])
    BY <1>6 DEF DevicesRead, At, Tells
  <2>2. /\ req'[w].of = req[w].of /\ req'[w].told = req[w].told
        /\ req'[w].heard = req[w].heard /\ req'[w].meant = req[w].meant
        /\ \/ req'[w].pc = "answer" /\ req[w].told \cap device = {}
           \/ req'[w].pc = "push" /\ req'[w].todo = req[w].told \cap device
    BY <1>t, <1>6 DEF DevicesRead, Goto, Req
  <2>3. Sent(req[w].told, req[w])' /\ device' = device
    BY <1>6, <2>1, <2>2 DEF DevicesRead, Sent
  <2> QED BY <2>1, <2>2, <2>3 DEF Tells
<1>7. CASE Push(w)
  <2>1. PICK t \in req[w].todo, outcome \in {"sent", "failed", "skipped"} :
           req' = [req EXCEPT ![w].todo = @ \ {t}, ![w].heard = @ \cup {t},
                              ![w].pc = IF req[w].todo = {t} THEN "answer" ELSE @]
    BY <1>7 DEF Push
  <2>2. /\ req'[w].pc = IF req[w].todo = {t} THEN "answer" ELSE "push"
        /\ req'[w].todo = req[w].todo \ {t} /\ req'[w].heard = req[w].heard \cup {t}
        /\ req'[w].of = req[w].of /\ req'[w].told = req[w].told /\ req'[w].meant = req[w].meant
    BY <1>t, <1>7, <2>1 DEF Push, At, Req
  <2>3. /\ req[w].meant = req[w].told /\ Sent(req[w].told, req[w])
        /\ req[w].heard \cup req[w].todo = req[w].meant \cap device
    BY <1>7 DEF Push, At, Tells
  <2>4. Sent(req[w].told, req[w])' /\ device' = device
    BY <1>7, <2>2, <2>3 DEF Push, Sent
  <2>5. /\ req'[w].heard \cup req'[w].todo = req'[w].meant \cap device'
        /\ req[w].todo = {t} => req'[w].heard = req'[w].meant \cap device'
    BY <2>1, <2>2, <2>3, <2>4
  <2> QED BY <2>2, <2>3, <2>4, <2>5 DEF Tells
<1> QED BY <1>1, <1>2, <1>3, <1>4, <1>5, <1>6, <1>7 DEF Announcement

\* No other step is one of an announcement.
LEMMA TellsElsewhere ==
    ASSUME TypeInv, NEW w \in Calls, Tells(req[w]), Offer(w) \/ Setting(w) \/ World(w) \/ Answer(w)
    PROVE  Tells(req[w])'
<1>t. req \in [Calls -> Req] /\ req[w] \in Req /\ CallOK(req[w])
  BY DEF TypeInv, TypeOK, CallOK
<1>q. ASSUME req'[w].pc \notin Announcing \cup {"answer"} PROVE Tells(req[w])'
  BY <1>q DEF Tells, Announcing
<1>f. ASSUME Finish(w) PROVE Tells(req[w])'
  BY <1>t, <1>f, <1>q DEF Finish, Idle, Announcing
<1>e. ASSUME NEW t, NEW pc \in {"rejections", "check", "reject", "save"}, NEW o, NEW taste, NEW past,
             \/ Enter(w, t, [Idle EXCEPT !.pc = pc, !.of = o])
             \/ Enter(w, t, [Idle EXCEPT !.pc = pc, !.taste = taste])
             \/ Enter(w, t, [Idle EXCEPT !.pc = pc, !.taste = taste, !.past = past])
      PROVE  Tells(req[w])'
  <2>1. req'[w].pc = pc
    BY <1>t, <1>e DEF Enter, Idle
  <2> QED BY <1>q, <2>1 DEF Announcing
<1>1. CASE List(w) \/ Accept(w) \/ Reject(w) \/ Prefer(w)
  BY <1>1, <1>e DEF List, Accept, Reject, Prefer
<1>2. CASE RejectionsRead(w)
  BY <1>t, <1>2, <1>q DEF RejectionsRead, Req, Announcing
<1>3. CASE OrdersRead(w)
  <2>1. req'[w].pc = "answer" /\ req'[w].of = NoOrder
    BY <1>t, <1>3 DEF OrdersRead, At, Req, CallOK
  <2> QED BY <2>1 DEF Tells
<1>4. CASE AcceptCheck(w) \/ AcceptWrite(w)
  <2>1. Finish(w) \/ req'[w].pc \in {"accept", "accepted"}
    BY <1>t, <1>4 DEF AcceptCheck, AcceptWrite, Goto, Req
  <2> QED BY <1>f, <1>q, <2>1 DEF Announcing
<1>5. CASE AcceptRecord(w) \/ RejectRecord(w) \/ Save(w) \/ Answer(w)
  BY <1>5, <1>f DEF AcceptRecord, RejectRecord, Save, Answer
<1>6. CASE RegisterDevice(w) \/ World(w)
  <2>1. req'[w].pc = "idle"
    BY <1>6 DEF RegisterDevice, World, Change, Move, Arrive, At
  <2> QED BY <1>q, <2>1 DEF Announcing
<1> QED BY <1>1, <1>2, <1>3, <1>4, <1>5, <1>6 DEF Offer, Setting

\* As long as calls do not overlap and nothing fails, what an announcement has at hand is
\* what is left to do of telling all for whom it is meant.
THEOREM TellCorrect == Spec => []TellInv
<1>1. Init => TellInv
  BY InitType DEF Init, TellInv, Idle, Tells, Alone, InFlight, At
<1>2. TellInv /\ TypeInv' /\ [Next]_vars => TellInv'
  <2> SUFFICES ASSUME TellInv, TypeInv', [Next]_vars, course' = "regular"
               PROVE  Alone' /\ \A v \in Calls : Tells(req[v])'
    BY DEF TellInv
  <2>t. TypeInv /\ (course = "regular" => Alone)
    BY DEF TellInv
  <2>1. ASSUME NEW w \in Calls,
               Announcement(w) \/ Offer(w) \/ Setting(w) \/ World(w) \/ Answer(w) \/ Fail(w)
        PROVE  Alone' /\ \A v \in Calls : Tells(req[v])'
    <3>1. course = "regular" /\ \A v \in Calls \ {w} : At(v, "idle") /\ req'[v] = req[v]
      BY <2>t, <2>1, OthersAreIdle, OneMoves
    <3>2. \A v \in Calls \ {w} : At(v, "idle")'
      BY <3>1 DEF At
    <3>3. Alone'
      BY <3>2 DEF Alone, InFlight
    <3>4. \A v \in Calls \ {w} : Tells(req[v])'
      BY <3>2 DEF At, Tells
    <3>5. Tells(req[w])'
      <4>1. ~Fail(w)
        BY DEF Fail
      <4> QED BY <2>t, <2>1, <3>1, <4>1, TellsAnnouncing, TellsElsewhere DEF TellInv
    <3> QED BY <3>3, <3>4, <3>5
  <2>2. CASE UNCHANGED vars
    <3>1. UNCHANGED <<tech, saved, log, device, req, course>>
      BY <2>2 DEF vars
    <3>2. Alone'
      BY <2>t, <3>1 DEF Alone, InFlight, At
    <3>3. ASSUME NEW v \in Calls PROVE Tells(req[v])'
      <4>1. /\ {t \in AtWork : Takes(t, req[v])}' = {t \in AtWork : Takes(t, req[v])}
            /\ {t \in req[v].todo : Takes(t, req[v])}' = {t \in req[v].todo : Takes(t, req[v])}
        BY <3>1 DEF AtWork, Approved, Takes, Preferences
      <4>2. \A S : Sent(S, req[v])' <=> Sent(S, req[v])
        BY <3>1 DEF Sent
      <4> QED BY <3>1, <4>1, <4>2 DEF TellInv, Tells
    <3> QED BY <3>2, <3>3
  <2> QED BY <2>1, <2>2 DEF Next
<1> QED BY <1>1, <1>2, TypeCorrect, PTL DEF Spec

\* As long as calls do not overlap and nothing fails, an announcement tells all the
\* approved technicians at work whose preferences take the order, and nobody else, and
\* pushes to every device of theirs whatever becomes of the others.
THEOREM TakersAreToldHolds == Spec => []TakersAreTold
<1>1. TellInv => TakersAreTold
  BY DEF TellInv, TakersAreTold, Tells, At, Sent
<1> QED BY <1>1, TellCorrect, PTL

=============================================================================
