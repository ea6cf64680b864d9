------------------------ MODULE OrderDispatch_proofs ------------------------
(***************************************************************************)
(* Proofs about OrderDispatch, for any technicians, calls and bounds.      *)
(***************************************************************************)
EXTENDS OrderDispatch, FiniteSetTheorems, TLAPS

-----------------------------------------------------------------------------
(* The inductive invariant *)

\* A cancelled row is failed and a refunded row is refunded.
Fits(row) ==
    /\ row.status = "cancelled" => row.pay = "failed"
    /\ row.status = "refunded" => row.pay = "refunded"

\* The row a call is going to write fits, a technician accepts an offer, and
\* the one who is completing a job was given it.
CallInv(c) ==
    /\ c \in Req
    /\ c.pc \in Writes \cup {"check", "photos"} => Fits(c.row)
    /\ c.pc = "accept" => c.tech \in Technicians
    /\ c.pc \in {"photos", "complete", "settle"} => c.tech \in entitled

IInv ==
    /\ TypeOK
    /\ Fits(order)
    /\ order.tech # NoTech => order.tech \in entitled
    /\ SettledToEntitled
    /\ \A w \in Calls : CallInv(req[w])

-----------------------------------------------------------------------------
(* Lemmas *)

\* The steps of a call by name.
LEMMA StepNames ==
    /\ Writes = {"patch", "confirm", "step", "complete"}
    /\ Writes \cup {"idle", "transition", "check", "receipt", "pay", "notify", "accept",
                    "photos", "settle", "quote", "pending"} = Steps
  BY DEF Writes, Steps

\* A step that only replaces what one call is about to do.
CallMoves(w, c) ==
    /\ req' = [req EXCEPT ![w] = c]
    /\ UNCHANGED <<sameDay, order, settledTo, winners, entitled>>
    /\ receipts' \in Nat /\ quotes' \in Nat /\ announced' \in BOOLEAN
    /\ failures' \in 0..MaxFailures

\* The tables stay as they are and one call moves: its own part remains to be
\* shown.
LEMMA CallMovesKeeps ==
    ASSUME IInv, NEW w \in Calls, NEW c, CallMoves(w, c), CallInv(c)
    PROVE  IInv'
<1>1. req' \in [Calls -> Req]
  BY DEF CallMoves, CallInv, IInv, TypeOK
<1>2. TypeOK'
  BY <1>1 DEF CallMoves, IInv, TypeOK
<1>3. ASSUME NEW v \in Calls PROVE CallInv(req[v])'
  <2>1. req'[v] = c \/ req'[v] = req[v]
    BY DEF CallMoves, IInv, TypeOK
  <2> QED BY <2>1 DEF CallMoves, CallInv, IInv
<1> QED BY <1>2, <1>3 DEF CallMoves, IInv, SettledToEntitled

\* Patching a row that fits gives a row that fits.
LEMMA PatchedFits ==
    ASSUME NEW row \in OrderRow, Fits(row), NEW s \in Statuses
    PROVE  Patched(row, s) \in OrderRow /\ Fits(Patched(row, s))
<1>1. CASE s = "refunded"
  BY <1>1 DEF Patched, Fits, OrderRow, Payments
<1>2. CASE s = "cancelled"
  BY <1>2 DEF Patched, Fits, OrderRow, Payments
<1>3. CASE s \in {"matching", "assigned"} /\ row.pay = "pending"
  BY <1>3 DEF Patched, Fits, OrderRow, Payments
<1>4. CASE s \notin {"refunded", "cancelled"} /\ ~(s \in {"matching", "assigned"} /\ row.pay = "pending")
  BY <1>4 DEF Patched, Fits, OrderRow, Payments
<1> QED BY <1>1, <1>2, <1>3, <1>4

\* The idle call has nothing to write.
LEMMA IdleInv == IInv => CallInv(Idle)
  BY StepNames DEF CallInv, Idle, Req, Fresh, OrderRow, Payments, Statuses

\* A call that arrives with a row that fits keeps the invariant.
LEMMA BeginKeeps ==
    ASSUME IInv, NEW w \in Calls, NEW pc \in Steps, NEW row \in OrderRow,
           NEW t \in Technicians \cup {NoTech}, NEW asked \in BOOLEAN,
           Begin(w, pc, row, t, asked), Fits(row) \/ pc = "transition",
           pc \in {"photos", "complete", "settle"} => t \in entitled,
           pc = "accept" => t \in Technicians,
           UNCHANGED <<sameDay, order, receipts, quotes, settledTo, failures, announced,
                       winners, entitled>>
    PROVE  IInv'
<1> DEFINE c == [pc |-> pc, row |-> row, tech |-> t, asked |-> asked]
<1>1. CallInv(c)
  BY StepNames DEF CallInv, Req
<1>2. CallMoves(w, c)
  BY DEF CallMoves, Begin, IInv, TypeOK
<1> QED BY <1>1, <1>2, CallMovesKeeps

\* A call that moves on with the row it has keeps the invariant.
LEMMA GotoKeeps ==
    ASSUME IInv, NEW w \in Calls, NEW pc \in Steps, Goto(w, pc),
           pc \in Writes \cup {"check", "photos"} => Fits(req[w].row),
           pc \in {"photos", "complete", "settle"} => req[w].tech \in entitled,
           pc # "accept",
           receipts' \in Nat, quotes' \in Nat, announced' \in BOOLEAN,
           UNCHANGED <<sameDay, order, settledTo, failures, winners, entitled>>
    PROVE  IInv'
<1> DEFINE c == [req[w] EXCEPT !.pc = pc]
<1>1. req[w] \in Req
  BY DEF IInv, CallInv
<1>2. c \in Req /\ c.pc = pc /\ c.row = req[w].row /\ c.tech = req[w].tech
  BY <1>1 DEF Req
<1>3. CallInv(c)
  BY <1>2 DEF CallInv
<1>4. CallMoves(w, c)
  BY DEF CallMoves, Goto, IInv, TypeOK
<1> QED BY <1>3, <1>4, CallMovesKeeps

\* A call that ends keeps the invariant.
LEMMA FinishKeeps ==
    ASSUME IInv, NEW w \in Calls, Finish(w), announced' \in BOOLEAN,
           failures' \in 0..MaxFailures,
           UNCHANGED <<sameDay, order, receipts, quotes, settledTo, winners, entitled>>
    PROVE  IInv'
<1>1. CallMoves(w, Idle)
  BY DEF CallMoves, Finish, IInv, TypeOK
<1> QED BY <1>1, IdleInv, CallMovesKeeps

-----------------------------------------------------------------------------
(* Every action preserves the invariant *)

\* The first reads of customers: the row to write fits.
LEMMA CustomerKeeps ==
    ASSUME IInv, NEW w \in Calls, ConfirmRead(w) \/ ExtraPaidRead(w)
    PROVE  IInv'
<1>t. order \in OrderRow /\ Fits(order) /\ NoTech \in Technicians \cup {NoTech}
  BY DEF IInv, TypeOK
<1>1. CASE ConfirmRead(w)
  <2> DEFINE row == [order EXCEPT !.status = "matching", !.pay = "paid"]
  <2>1. row \in OrderRow /\ Fits(row)
    BY <1>t DEF OrderRow, Fits, Statuses, Payments
  <2>2. Begin(w, "confirm", row, NoTech, FALSE)
    BY <1>1 DEF ConfirmRead
  <2> QED BY <1>1, <1>t, <2>1, <2>2, BeginKeeps, StepNames DEF ConfirmRead
<1>2. CASE ExtraPaidRead(w)
  <2> DEFINE row == [order EXCEPT !.status =
                       IF @ = "extra_payment_pending" THEN "working" ELSE @]
  <2>1. row \in OrderRow /\ Fits(row)
    BY <1>t DEF OrderRow, Fits, Statuses
  <2>2. Begin(w, "step", row, NoTech, FALSE)
    BY <1>2 DEF ExtraPaidRead
  <2> QED BY <1>2, <1>t, <2>1, <2>2, BeginKeeps, StepNames DEF ExtraPaidRead
<1> QED BY <1>1, <1>2

\* The first reads of administrators.
LEMMA AdminKeeps ==
    ASSUME IInv, NEW w \in Calls, PatchRead(w) \/ BookingRead(w) \/ TransitionCheck(w)
    PROVE  IInv'
<1>t. /\ order \in OrderRow /\ Fits(order) /\ NoTech \in Technicians \cup {NoTech}
      /\ \A t \in Technicians \cup {NoTech} :
           [order EXCEPT !.tech = t] \in OrderRow /\ Fits([order EXCEPT !.tech = t])
      /\ {"matching", "assigned", "cancelled"} \cup AdminStatuses \subseteq Statuses
  BY DispatchAssumption DEF IInv, TypeOK, OrderRow, Fits, Statuses
<1>f. UNCHANGED <<sameDay, order, receipts, quotes, settledTo, failures, announced, winners,
                  entitled>>
  BY DEF PatchRead, BookingRead, TransitionCheck
<1>1. ASSUME NEW row \in OrderRow, Fits(row), NEW pc \in {"patch", "check"},
             NEW asked \in BOOLEAN, Begin(w, pc, row, NoTech, asked)
      PROVE  IInv'
  BY <1>1, <1>t, <1>f, BeginKeeps, StepNames
<1>2. CASE PatchRead(w)
  <2>1. PICK row \in {order} \cup {[order EXCEPT !.tech = t] : t \in Technicians \cup {NoTech}} :
          \E new \in {row} \cup {Patched(row, s) : s \in AdminStatuses} :
            Begin(w, IF row.tech \in {order.tech, NoTech} THEN "patch" ELSE "check",
                  new, NoTech, new # order)
    BY <1>2 DEF PatchRead
  <2>2. PICK new \in {row} \cup {Patched(row, s) : s \in AdminStatuses} :
            Begin(w, IF row.tech \in {order.tech, NoTech} THEN "patch" ELSE "check",
                  new, NoTech, new # order)
    BY <2>1
  <2>3. row \in OrderRow /\ Fits(row)
    BY <1>t
  <2>4. new \in OrderRow /\ Fits(new)
    BY <1>t, <2>3, PatchedFits
  <2> QED BY <1>1, <2>2, <2>4
<1>3. CASE BookingRead(w)
  <2>1. \A t \in Technicians \cup {NoTech}, s \in {"matching", "assigned"} :
          /\ Patched([order EXCEPT !.tech = t], s) \in OrderRow
          /\ Fits(Patched([order EXCEPT !.tech = t], s))
    BY <1>t, PatchedFits
  <2>2. Patched(order, "cancelled") \in OrderRow /\ Fits(Patched(order, "cancelled"))
    BY <1>t, PatchedFits
  <2> QED BY <1>1, <1>3, <2>1, <2>2 DEF BookingRead
<1>4. CASE TransitionCheck(w)
  <2>1. PICK s \in AdminStatuses : Begin(w, "transition", [order EXCEPT !.status = s], NoTech, TRUE)
    BY <1>4 DEF TransitionCheck
  <2>2. [order EXCEPT !.status = s] \in OrderRow
    BY <1>t DEF OrderRow
  <2> QED BY <1>t, <1>f, <2>1, <2>2, BeginKeeps, StepNames
<1> QED BY <1>2, <1>3, <1>4

\* The first reads of technicians: who completes a job is on the order.
LEMMA TechnicianKeeps ==
    ASSUME IInv, NEW w \in Calls, NEW t \in Technicians,
           AcceptRead(w, t) \/ JobRead(w, t) \/ QuoteRead(w, t)
    PROVE  IInv'
<1>t. /\ order \in OrderRow /\ Fits(order) /\ t \in Technicians \cup {NoTech}
      /\ \A s \in {"accepted", "on_the_way", "working", "completed"} :
           [order EXCEPT !.status = s] \in OrderRow /\ Fits([order EXCEPT !.status = s])
  BY DEF IInv, TypeOK, OrderRow, Fits, Statuses
<1>f. UNCHANGED <<sameDay, order, receipts, quotes, settledTo, failures, announced, winners,
                  entitled>>
  BY DEF AcceptRead, JobRead, QuoteRead
<1>1. CASE AcceptRead(w, t) \/ QuoteRead(w, t)
  BY <1>1, <1>t, <1>f, BeginKeeps, StepNames DEF AcceptRead, QuoteRead
<1>2. CASE JobRead(w, t)
  <2>1. t \in entitled
    BY <1>2, DispatchAssumption DEF JobRead, HasAccess, IInv
  <2>2. PICK pc \in {"step", "photos"}, s \in {"accepted", "on_the_way", "working", "completed"} :
          Begin(w, pc, [order EXCEPT !.status = s], t, FALSE)
    <3>1. CASE Begin(w, "photos", [order EXCEPT !.status = "completed"], t, FALSE)
      BY <3>1
    <3>2. CASE \E step \in JobSteps : Begin(w, "step", [order EXCEPT !.status = step[2]], t, FALSE)
      <4>1. PICK step \in JobSteps : Begin(w, "step", [order EXCEPT !.status = step[2]], t, FALSE)
        BY <3>2
      <4>2. step[2] \in {"accepted", "on_the_way", "working", "completed"}
        BY DEF JobSteps
      <4> QED BY <4>1, <4>2
    <3> QED BY <1>2, <3>1, <3>2, Zenon DEF JobRead
  <2> QED BY <1>t, <1>f, <2>1, <2>2, BeginKeeps, StepNames
<1> QED BY <1>1, <1>2

\* The whole row is overwritten by one that fits; who is on it is entitled.
LEMMA ReplaceKeeps ==
    ASSUME IInv, NEW w \in Calls, Replace(w)
    PROVE  IInv'
<1>1. req[w] \in Req /\ req[w].row \in OrderRow /\ Fits(req[w].row)
  BY DEF IInv, CallInv, Replace, Req
<1>2. /\ order' = req[w].row /\ entitled \subseteq entitled' /\ entitled' \in SUBSET Technicians
      /\ order'.tech # NoTech => order'.tech \in entitled'
      /\ winners' \in SUBSET Technicians /\ announced' \in BOOLEAN
  BY <1>1 DEF Replace, IInv, TypeOK, OrderRow
<1>3. PICK c \in Req : /\ req' = [req EXCEPT ![w] = c]
                       /\ c.pc \notin Writes \cup {"check", "photos", "accept"}
                       /\ c.pc = "settle" => c.tech \in entitled
  <2>1. CASE FollowUp(w) = "idle"
    <3>1. Idle \in Req /\ Idle.pc = "idle"
      BY IdleInv DEF CallInv, Idle
    <3> QED BY <2>1, <3>1, StepNames DEF Replace, Finish
  <2>2. CASE FollowUp(w) # "idle"
    <3> DEFINE c == [req[w] EXCEPT !.pc = FollowUp(w)]
    <3>1. /\ FollowUp(w) \in {"receipt", "settle", "notify"}
          /\ FollowUp(w) = "settle" => At(w, "complete")
      BY <2>2 DEF FollowUp, At
    <3>2. c \in Req /\ c.pc = FollowUp(w) /\ c.tech = req[w].tech
      BY <1>1, <3>1, StepNames DEF Req
    <3>3. c.pc = "settle" => c.tech \in entitled
      BY <3>1, <3>2 DEF IInv, CallInv, At
    <3>4. req' = [req EXCEPT ![w] = c]
      BY <2>2 DEF Replace, Goto
    <3>5. c.pc \notin Writes \cup {"check", "photos", "accept"}
      BY <3>1, <3>2, StepNames
    <3> QED BY <3>2, <3>3, <3>4, <3>5
  <2> QED BY <2>1, <2>2
<1>4. TypeOK'
  BY <1>1, <1>2, <1>3 DEF Replace, IInv, TypeOK
<1>5. ASSUME NEW v \in Calls PROVE CallInv(req[v])'
  <2>1. req'[v] = c \/ req'[v] = req[v]
    BY <1>3 DEF IInv, TypeOK
  <2>2. CallInv(req[v])
    BY DEF IInv
  <2> QED BY <1>2, <1>3, <2>1, <2>2, StepNames DEF CallInv
<1>6. SettledToEntitled'
  BY <1>2 DEF Replace, IInv, SettledToEntitled
<1> QED BY <1>1, <1>2, <1>4, <1>5, <1>6 DEF IInv

\* The conditional update assigns the order to the technician, or does nothing.
LEMMA AcceptKeeps ==
    ASSUME IInv, NEW w \in Calls, AcceptWrite(w)
    PROVE  IInv'
<1>t. req[w].tech \in Technicians
  BY DEF AcceptWrite, IInv, CallInv, At
<1>1. order' \in OrderRow /\ Fits(order)'
  BY <1>t DEF AcceptWrite, IInv, TypeOK, OrderRow, Statuses, Fits
<1>2. /\ entitled \subseteq entitled' /\ entitled' \in SUBSET Technicians
      /\ winners' \in SUBSET Technicians
      /\ order'.tech # NoTech => order'.tech \in entitled'
  <2>1. CASE order.status = "matching" /\ order.tech = NoTech
    <3>1. order'.tech = req[w].tech
      BY <2>1 DEF AcceptWrite, IInv, TypeOK, OrderRow
    <3> QED BY <1>t, <2>1, <3>1 DEF AcceptWrite, IInv, TypeOK
  <2>2. CASE ~(order.status = "matching" /\ order.tech = NoTech)
    BY <2>2 DEF AcceptWrite, IInv, TypeOK
  <2> QED BY <2>1, <2>2
<1>3. req' = [req EXCEPT ![w] = Idle] /\ CallInv(Idle)
  BY IdleInv DEF AcceptWrite, Finish
<1>4. req' \in [Calls -> Req]
  BY <1>3 DEF IInv, TypeOK, CallInv
<1>5. ASSUME NEW v \in Calls PROVE CallInv(req[v])'
  <2>1. req'[v] = Idle \/ req'[v] = req[v]
    BY <1>3 DEF IInv, TypeOK
  <2> QED BY <1>2, <1>3, <2>1 DEF CallInv, IInv
<1> QED BY <1>1, <1>2, <1>4, <1>5 DEF AcceptWrite, IInv, TypeOK, SettledToEntitled

\* What a call does after its first read keeps the invariant.
LEMMA ContinueKeeps ==
    ASSUME IInv, NEW w \in Calls, Continue(w)
    PROVE  IInv'
<1>c. CallInv(req[w]) /\ req[w].row \in OrderRow /\ order \in OrderRow /\ Fits(order)
  BY DEF IInv, CallInv, TypeOK, Req
<1>t. receipts \in Nat /\ quotes \in Nat /\ announced \in BOOLEAN /\ failures \in 0..MaxFailures
  BY DEF IInv, TypeOK
<1>1. CASE ReceiptRead(w) \/ ReceiptInsert(w)
  <2>1. PICK pc \in {"pay", "notify"} : Goto(w, pc)
    BY <1>1 DEF ReceiptRead, ReceiptInsert
  <2>2. receipts' \in Nat
    BY <1>1, <1>t DEF ReceiptRead, ReceiptInsert
  <2> QED BY <1>1, <1>t, <2>1, <2>2, StepNames, GotoKeeps DEF ReceiptRead, ReceiptInsert
<1>2. CASE TransitionRead(w)
  <2> DEFINE row == Patched(order, req[w].row.status)
             c == [req[w] EXCEPT !.pc = "patch", !.row = row]
  <2>1. row \in OrderRow /\ Fits(row)
    BY <1>c, PatchedFits DEF OrderRow
  <2>2. CallInv(c)
    BY <1>c, <2>1, StepNames DEF CallInv, Req
  <2>3. CallMoves(w, c)
    BY <1>2, <1>t DEF CallMoves, TransitionRead, Reread
  <2> QED BY <2>2, <2>3, CallMovesKeeps
<1>3. CASE TechnicianCheck(w)
  <2>1. CASE Goto(w, "patch")
    <3>1. Fits(req[w].row)
      BY <1>3, <1>c DEF TechnicianCheck, At, CallInv
    <3> QED BY <1>3, <1>t, <2>1, <3>1, StepNames, GotoKeeps DEF TechnicianCheck
  <2>2. CASE Finish(w)
    BY <1>3, <1>t, <2>2, FinishKeeps DEF TechnicianCheck
  <2> QED BY <1>3, <2>1, <2>2 DEF TechnicianCheck
<1>4. CASE PhotosRead(w)
  <2>1. CASE Goto(w, "complete")
    <3>1. Fits(req[w].row) /\ req[w].tech \in entitled
      BY <1>4, <1>c DEF PhotosRead, At, CallInv
    <3> QED BY <1>4, <1>t, <2>1, <3>1, StepNames, GotoKeeps DEF PhotosRead
  <2>2. CASE Finish(w)
    BY <1>4, <1>t, <2>2, FinishKeeps DEF PhotosRead
  <2> QED BY <1>4, <2>1, <2>2 DEF PhotosRead
<1>5. CASE Settle(w)
  <2>1. settledTo' \in entitled /\ settledTo' \in Technicians \cup {NoTech}
    BY <1>5, <1>c DEF Settle, At, CallInv, IInv, TypeOK
  <2>2. req' = [req EXCEPT ![w] = Idle] /\ CallInv(Idle)
    BY <1>5, IdleInv DEF Settle, Finish
  <2>3. req' \in [Calls -> Req]
    BY <2>2 DEF IInv, TypeOK, CallInv
  <2>4. ASSUME NEW v \in Calls PROVE CallInv(req[v])'
    <3>1. req'[v] = Idle \/ req'[v] = req[v]
      BY <2>2 DEF IInv, TypeOK
    <3> QED BY <1>5, <2>2, <3>1 DEF Settle, CallInv, IInv
  <2> QED BY <1>5, <2>1, <2>3, <2>4 DEF Settle, IInv, TypeOK, SettledToEntitled
<1>6. CASE QuoteInsert(w)
  BY <1>6, <1>t, StepNames, GotoKeeps DEF QuoteInsert
<1>7. CASE PendingRead(w)
  <2> DEFINE row == [order EXCEPT !.status = "extra_payment_pending"]
             c == [req[w] EXCEPT !.pc = "step", !.row = row]
  <2>1. row \in OrderRow /\ Fits(row)
    BY <1>c DEF OrderRow, Statuses, Fits
  <2>2. CallInv(c)
    BY <1>c, <2>1, StepNames DEF CallInv, Req
  <2>3. CallMoves(w, c)
    BY <1>7, <1>t DEF CallMoves, PendingRead, Reread
  <2> QED BY <2>2, <2>3, CallMovesKeeps
<1>8. CASE Notify(w)
  BY <1>8, <1>t, FinishKeeps DEF Notify
<1> QED BY <1>1, <1>2, <1>3, <1>4, <1>5, <1>6, <1>7, <1>8, ReplaceKeeps, AcceptKeeps DEF Continue

-----------------------------------------------------------------------------
(* The invariant and what follows from it *)

\* A new order fits and no call is in flight.
LEMMA InitInv == Init => IInv
<1> SUFFICES ASSUME Init PROVE IInv
  OBVIOUS
<1>1. Idle \in Req /\ Fresh \in OrderRow /\ [Fresh EXCEPT !.status = "matching"] \in OrderRow
  BY StepNames DEF Idle, Req, Fresh, OrderRow, Statuses, Payments
<1>2. TypeOK
  <2>1. order \in OrderRow /\ req \in [Calls -> Req] /\ announced \in BOOLEAN
    BY <1>1 DEF Init
  <2>2. failures \in 0..MaxFailures
    BY DispatchAssumption DEF Init
  <2> QED BY <2>1, <2>2 DEF Init, TypeOK
<1>3. \A w \in Calls : CallInv(req[w])
  BY <1>1, StepNames DEF Init, CallInv, Idle
<1> QED BY <1>2, <1>3 DEF Init, IInv, Fits, Fresh, SettledToEntitled

\* Every step keeps the invariant.
LEMMA NextKeeps == IInv /\ [Next]_vars => IInv'
<1> SUFFICES ASSUME IInv, [Next]_vars PROVE IInv'
  OBVIOUS
<1> USE DEF Calls
<1>1. CASE \E w \in CustomerCalls : Customer(w)
  BY <1>1, CustomerKeeps DEF Customer
<1>2. CASE \E w \in AdminCalls : Admin(w)
  BY <1>2, CustomerKeeps, AdminKeeps DEF Admin
<1>3. CASE \E w \in TechnicianCalls, t \in Technicians : Technician(w, t)
  BY <1>3, TechnicianKeeps DEF Technician
<1>4. ASSUME NEW w \in Calls, Fail(w) PROVE IInv'
  <2>1. failures' \in 0..MaxFailures
    BY <1>4, DispatchAssumption DEF Fail, IInv, TypeOK
  <2>2. announced' \in BOOLEAN
    BY <1>4 DEF Fail, IInv, TypeOK
  <2> QED BY <1>4, <2>1, <2>2, FinishKeeps DEF Fail
<1>5. CASE \E w \in Calls : Continue(w)
  BY <1>5, ContinueKeeps
<1>6. CASE UNCHANGED vars
  BY <1>6 DEF vars, IInv, TypeOK, CallInv, SettledToEntitled
<1> QED BY <1>1, <1>2, <1>3, <1>4, <1>5, <1>6 DEF Next

\* The inductive invariant holds in every reachable state.
THEOREM Invariance == Spec => []IInv
  BY InitInv, NextKeeps, PTL DEF Spec

\* All variables keep their types.
THEOREM TypeCorrect == Spec => []TypeOK
<1>1. IInv => TypeOK
  BY DEF IInv
<1> QED BY <1>1, Invariance, PTL

\* Stale whole-row writes included, a cancelled order is failed and a refunded
\* one is refunded.
THEOREM PaymentFitsStatusHolds == Spec => []PaymentFitsStatus
<1>1. IInv => PaymentFitsStatus
  BY DEF IInv, Fits, PaymentFitsStatus
<1> QED BY <1>1, Invariance, PTL

\* A settlement names a technician the order was given to.
THEOREM SettledToEntitledHolds == Spec => []SettledToEntitled
<1>1. IInv => SettledToEntitled
  BY DEF IInv
<1> QED BY <1>1, Invariance, PTL

-----------------------------------------------------------------------------
(* The technician keeps the order *)

\* Without administrators, and with one payment call at a time: only a fresh
\* order is confirmed, and whoever replaces the row of an assigned order writes
\* the technician that is on it.
Undisturbed(w) ==
    /\ req[w].pc \notin {"patch", "check", "transition"}
    /\ At(w, "confirm") =>
         /\ w \in CustomerCalls /\ order.status = "created"
         /\ req[w].row.tech = NoTech /\ req[w].row.status = "matching"
    /\ req[w].pc \in {"step", "photos", "complete"} =>
         /\ order.tech # NoTech
         /\ req[w].row.tech = order.tech
         /\ req[w].row.status \notin {"created", "matching"}
    /\ req[w].pc \in {"quote", "pending"} => order.tech # NoTech

KInv ==
    /\ IInv
    /\ \A w \in Calls : Undisturbed(w)
    /\ order.status \in {"created", "matching"} => order.tech = NoTech
    /\ quotes > 0 => order.tech # NoTech
    /\ TechnicianKeepsOrder

OneCustomerNoAdmin ==
    /\ AdminCalls = {}
    /\ \A c, d \in CustomerCalls : c = d

\* A call that moves without a write to the order keeps the others undisturbed.
LEMMA MoveUndisturbed ==
    ASSUME KInv, NEW w \in Calls, Undisturbed(w)', UNCHANGED <<order, winners>>,
           \A v \in Calls \ {w} : req'[v] = req[v], IInv',
           quotes' > 0 => order.tech # NoTech
    PROVE  KInv'
<1>1. ASSUME NEW v \in Calls \ {w} PROVE Undisturbed(v)'
  BY DEF KInv, Undisturbed, At
<1> QED BY <1>1 DEF KInv, TechnicianKeepsOrder

\* First reads.
LEMMA BeginUndisturbed ==
    ASSUME KInv, IInv', OneCustomerNoAdmin, NEW w \in Calls,
           \/ w \in CustomerCalls /\ Customer(w)
           \/ \E t \in Technicians : Technician(w, t)
    PROVE  KInv'
<1>t. order \in OrderRow /\ req \in [Calls -> Req]
  BY DEF KInv, IInv, TypeOK
<1>1. CASE w \in CustomerCalls /\ ConfirmRead(w)
  <2>1. req' = [req EXCEPT ![w] = [pc |-> "confirm", tech |-> NoTech, asked |-> FALSE,
                  row |-> [order EXCEPT !.status = "matching", !.pay = "paid"]]]
    BY <1>1 DEF ConfirmRead, Begin
  <2>2. Undisturbed(w)' /\ \A v \in Calls \ {w} : req'[v] = req[v]
    <3>1. order.tech = NoTech
      BY <1>1 DEF ConfirmRead, KInv
    <3> QED BY <1>1, <1>t, <2>1, <3>1 DEF ConfirmRead, Undisturbed, At, OrderRow
  <2> QED BY <1>1, <2>2, MoveUndisturbed DEF ConfirmRead, KInv
<1>2. CASE ExtraPaidRead(w)
  <2>1. PICK row : /\ row = [order EXCEPT !.status =
                              IF @ = "extra_payment_pending" THEN "working" ELSE @]
                   /\ req' = [req EXCEPT ![w] =
                        [pc |-> "step", tech |-> NoTech, asked |-> FALSE, row |-> row]]
    BY <1>2 DEF ExtraPaidRead, Begin
  <2>2. row.tech = order.tech /\ order.tech # NoTech
        /\ row.status \notin {"created", "matching"}
    BY <1>2, <1>t, <2>1 DEF ExtraPaidRead, KInv, OrderRow
  <2>3. Undisturbed(w)' /\ \A v \in Calls \ {w} : req'[v] = req[v]
    BY <1>2, <1>t, <2>1, <2>2 DEF ExtraPaidRead, Undisturbed, At
  <2> QED BY <1>2, <2>3, MoveUndisturbed DEF ExtraPaidRead, KInv
<1>3. ASSUME NEW t \in Technicians, AcceptRead(w, t) PROVE KInv'
  <2>1. req' = [req EXCEPT ![w] = [pc |-> "accept", tech |-> t, asked |-> FALSE, row |-> order]]
    BY <1>3 DEF AcceptRead, Begin
  <2>2. Undisturbed(w)' /\ \A v \in Calls \ {w} : req'[v] = req[v]
    BY <1>3, <1>t, <2>1 DEF Undisturbed, At
  <2> QED BY <1>3, <2>2, MoveUndisturbed DEF AcceptRead, KInv
<1>4. ASSUME NEW t \in Technicians, JobRead(w, t) PROVE KInv'
  <2>1. PICK pc \in {"step", "photos"}, s \in {"accepted", "on_the_way", "working", "completed"} :
          Begin(w, pc, [order EXCEPT !.status = s], t, FALSE)
    <3>1. CASE Begin(w, "photos", [order EXCEPT !.status = "completed"], t, FALSE)
      BY <3>1
    <3>2. CASE \E step \in JobSteps : Begin(w, "step", [order EXCEPT !.status = step[2]], t, FALSE)
      <4>1. PICK step \in JobSteps : Begin(w, "step", [order EXCEPT !.status = step[2]], t, FALSE)
        BY <3>2
      <4>2. step[2] \in {"accepted", "on_the_way", "working", "completed"}
        BY DEF JobSteps
      <4> QED BY <4>1, <4>2
    <3> QED BY <1>4, <3>1, <3>2, Zenon DEF JobRead
  <2>2. req' = [req EXCEPT ![w] = [pc |-> pc, tech |-> t, asked |-> FALSE,
                                   row |-> [order EXCEPT !.status = s]]]
    BY <2>1 DEF Begin
  <2>3. order.tech # NoTech
    BY <1>4, DispatchAssumption DEF JobRead, HasAccess
  <2>4. Undisturbed(w)' /\ \A v \in Calls \ {w} : req'[v] = req[v]
    BY <1>4, <1>t, <2>2, <2>3 DEF JobRead, Undisturbed, At, OrderRow
  <2> QED BY <1>4, <2>4, MoveUndisturbed DEF JobRead, KInv
<1>5. ASSUME NEW t \in Technicians, QuoteRead(w, t) PROVE KInv'
  <2>1. req' = [req EXCEPT ![w] = [pc |-> "quote", tech |-> t, asked |-> FALSE, row |-> order]]
    BY <1>5 DEF QuoteRead, Begin
  <2>2. order.tech # NoTech
    BY <1>5, DispatchAssumption DEF QuoteRead, HasAccess
  <2>3. Undisturbed(w)' /\ \A v \in Calls \ {w} : req'[v] = req[v]
    BY <1>5, <1>t, <2>1, <2>2 DEF QuoteRead, Undisturbed, At
  <2> QED BY <1>5, <2>3, MoveUndisturbed DEF QuoteRead, KInv
<1> QED BY <1>1, <1>2, <1>3, <1>4, <1>5 DEF Customer, Technician

\* Steps that move a call on or end it.
LEMMA MoveOnUndisturbed ==
    ASSUME KInv, IInv', NEW w \in Calls,
           \/ ReceiptRead(w) \/ ReceiptInsert(w) \/ PhotosRead(w) \/ Settle(w)
           \/ QuoteInsert(w) \/ PendingRead(w) \/ Notify(w) \/ Fail(w)
    PROVE  KInv'
<1>t. order \in OrderRow /\ req \in [Calls -> Req] /\ req[w] \in Req
  BY DEF KInv, IInv, TypeOK
<1>u. Undisturbed(w)
  BY DEF KInv
<1>1. CASE PendingRead(w)
  <2>1. req' = [req EXCEPT ![w].pc = "step",
                           ![w].row = [order EXCEPT !.status = "extra_payment_pending"]]
    BY <1>1 DEF PendingRead, Reread
  <2>2. req'[w].pc = "step" /\ req'[w].row = [order EXCEPT !.status = "extra_payment_pending"]
        /\ \A v \in Calls \ {w} : req'[v] = req[v]
    BY <1>t, <2>1 DEF Req
  <2>3. Undisturbed(w)'
    BY <1>1, <1>t, <1>u, <2>2 DEF PendingRead, Undisturbed, At, OrderRow
  <2> QED BY <1>1, <2>2, <2>3, MoveUndisturbed DEF PendingRead, KInv
<1>2. CASE PhotosRead(w) /\ Goto(w, "complete")
  <2>1. req'[w].pc = "complete" /\ req'[w].row = req[w].row
        /\ \A v \in Calls \ {w} : req'[v] = req[v]
    BY <1>2, <1>t DEF Goto, Req
  <2>2. Undisturbed(w)'
    BY <1>2, <1>u, <2>1 DEF PhotosRead, Undisturbed, At
  <2> QED BY <1>2, <2>1, <2>2, MoveUndisturbed DEF PhotosRead, KInv
<1>3. CASE QuoteInsert(w)
  <2>1. req'[w].pc = "pending" /\ \A v \in Calls \ {w} : req'[v] = req[v]
    BY <1>3, <1>t DEF QuoteInsert, Goto, Req
  <2>2. Undisturbed(w)' /\ order.tech # NoTech
    BY <1>3, <1>u, <2>1 DEF QuoteInsert, Undisturbed, At
  <2> QED BY <1>3, <2>1, <2>2, MoveUndisturbed DEF QuoteInsert
<1>4. ASSUME \/ ReceiptRead(w) \/ ReceiptInsert(w) \/ Settle(w) \/ Notify(w) \/ Fail(w)
             \/ PhotosRead(w) /\ Finish(w)
      PROVE  KInv'
  <2>1. req'[w].pc \in {"pay", "notify", "idle"} /\ \A v \in Calls \ {w} : req'[v] = req[v]
    BY <1>4, <1>t DEF ReceiptRead, ReceiptInsert, Settle, Notify, Fail, PhotosRead, Goto, Finish,
       Idle, Req
  <2>2. Undisturbed(w)'
    BY <2>1 DEF Undisturbed, At
  <2>3. UNCHANGED <<order, winners, quotes>>
    BY <1>4 DEF ReceiptRead, ReceiptInsert, Settle, Notify, Fail, PhotosRead
  <2> QED BY <2>1, <2>2, <2>3, MoveUndisturbed DEF KInv
<1> QED BY <1>1, <1>2, <1>3, <1>4 DEF PhotosRead

\* The acceptance takes an order that has no technician: no write of a job step
\* is under way, and no payment call either.
LEMMA AcceptUndisturbed ==
    ASSUME KInv, IInv', NEW w \in Calls, AcceptWrite(w)
    PROVE  KInv'
<1>t. order \in OrderRow /\ req \in [Calls -> Req] /\ req[w].tech \in Technicians
  BY DEF KInv, IInv, TypeOK, CallInv, AcceptWrite, At
<1>1. req'[w].pc = "idle" /\ \A v \in Calls \ {w} : req'[v] = req[v]
  BY <1>t DEF AcceptWrite, Finish, Idle
<1>2. CASE order.status = "matching" /\ order.tech = NoTech
  <2>1. order'.status = "accepted" /\ order'.tech = req[w].tech
        /\ winners' = winners \cup {req[w].tech}
    BY <1>2, <1>t DEF AcceptWrite, OrderRow
  <2>2. winners = {}
    BY <1>2, DispatchAssumption DEF KInv, IInv, TypeOK, TechnicianKeepsOrder
  <2>3. ASSUME NEW v \in Calls PROVE Undisturbed(v)'
    BY <1>1, <1>2, <2>1 DEF KInv, Undisturbed, At
  <2>4. TechnicianKeepsOrder'
    BY <2>1, <2>2 DEF TechnicianKeepsOrder
  <2> QED BY <1>t, <2>1, <2>3, <2>4, DispatchAssumption DEF KInv
<1>3. CASE ~(order.status = "matching" /\ order.tech = NoTech)
  <2>1. Undisturbed(w)' /\ UNCHANGED <<order, winners, quotes>>
    BY <1>1, <1>3 DEF AcceptWrite, Undisturbed, At
  <2> QED BY <1>1, <2>1, MoveUndisturbed DEF KInv
<1> QED BY <1>2, <1>3

\* A replaced row is that of a fresh order being paid, or has the technician
\* that is on the order.
LEMMA ReplaceUndisturbed ==
    ASSUME KInv, IInv', OneCustomerNoAdmin, NEW w \in Calls, Replace(w)
    PROVE  KInv'
<1>t. order \in OrderRow /\ req \in [Calls -> Req] /\ req[w] \in Req
  BY DEF KInv, IInv, TypeOK
<1>u. Undisturbed(w) /\ req[w].pc \in {"confirm", "step", "complete"}
  BY DEF KInv, Undisturbed, Replace, Writes
<1>1. /\ req'[w].pc \in {"idle", "receipt", "settle", "notify"}
      /\ \A v \in Calls \ {w} : req'[v] = req[v]
  <2>1. FollowUp(w) \in {"idle", "receipt", "settle", "notify"}
    BY DEF FollowUp
  <2> QED BY <1>t, <2>1 DEF Replace, Finish, Goto, Idle, Req
<1>2. order' = req[w].row /\ winners' = winners /\ quotes' = quotes
  BY DEF Replace, OneCustomerNoAdmin
<1>3. CASE At(w, "confirm")
  <2>1. order.status = "created" /\ order.tech = NoTech /\ w \in CustomerCalls
    BY <1>3, <1>u DEF KInv, Undisturbed
  <2>2. req[w].row.tech = NoTech /\ req[w].row.status = "matching"
    BY <1>3 DEF KInv, Undisturbed
  <2>3. winners = {}
    BY <2>1, DispatchAssumption DEF KInv, IInv, TypeOK, TechnicianKeepsOrder
  <2>4. ASSUME NEW v \in Calls PROVE Undisturbed(v)'
    <3>1. CASE v = w
      BY <1>1, <3>1 DEF Undisturbed, At
    <3>2. CASE v # w
      BY <1>1, <2>1, <3>2 DEF KInv, Undisturbed, At, OneCustomerNoAdmin
    <3> QED BY <3>1, <3>2
  <2> QED BY <1>2, <2>1, <2>2, <2>3, <2>4 DEF KInv, TechnicianKeepsOrder
<1>4. CASE ~At(w, "confirm")
  <2>1. /\ order.tech # NoTech /\ order'.tech = order.tech
        /\ order'.status \notin {"created", "matching"}
        /\ order.status \notin {"created", "matching"}
    BY <1>u, <1>2, <1>4 DEF Undisturbed, At, KInv
  <2>2. ASSUME NEW v \in Calls PROVE Undisturbed(v)'
    <3>1. CASE v = w
      BY <1>1, <3>1 DEF Undisturbed, At
    <3>2. CASE v # w
      BY <1>1, <2>1, <3>2 DEF KInv, Undisturbed, At
    <3> QED BY <3>1, <3>2
  <2> QED BY <1>2, <2>1, <2>2 DEF KInv, TechnicianKeepsOrder
<1> QED BY <1>3, <1>4

\* A technician whose acceptance succeeded keeps the order through every
\* interleaving of technicians' calls with one payment call at a time, failures
\* included, while no administrator acts.
THEOREM TechnicianKeepsOrderHolds ==
    ASSUME OneCustomerNoAdmin
    PROVE  Spec => []TechnicianKeepsOrder
<1>1. Init => KInv
  BY InitInv DEF Init, KInv, Undisturbed, At, Idle, Fresh, TechnicianKeepsOrder
<1>2. ASSUME KInv, [Next]_vars PROVE KInv'
  <2> USE <1>2 DEF Calls
  <2>i. IInv'
    BY NextKeeps DEF KInv
  <2>1. CASE \E w \in CustomerCalls : Customer(w)
    BY <2>i, <2>1, OneCustomerNoAdmin, BeginUndisturbed
  <2>2. CASE \E w \in AdminCalls : Admin(w)
    BY <2>2 DEF OneCustomerNoAdmin
  <2>3. CASE \E w \in TechnicianCalls, t \in Technicians : Technician(w, t)
    BY <2>i, <2>3, OneCustomerNoAdmin, BeginUndisturbed
  <2>4. ASSUME NEW w \in Calls, Continue(w) \/ Fail(w) PROVE KInv'
    <3>1. ~TransitionRead(w) /\ ~TechnicianCheck(w)
      BY DEF KInv, Undisturbed, TransitionRead, TechnicianCheck, At
    <3> QED BY <2>i, <2>4, <3>1, OneCustomerNoAdmin, MoveOnUndisturbed, AcceptUndisturbed,
               ReplaceUndisturbed DEF Continue
  <2>5. CASE UNCHANGED vars
    BY <2>i, <2>5 DEF vars, KInv, Undisturbed, At, TechnicianKeepsOrder
  <2> QED BY <2>1, <2>2, <2>3, <2>4, <2>5 DEF Next
<1>3. KInv => TechnicianKeepsOrder
  BY DEF KInv
<1> QED BY <1>1, <1>2, <1>3, PTL DEF Spec
-----------------------------------------------------------------------------
(* Receipts *)

\* A step of one call; customers alone confirm.
First(w) ==
    \/ w \in CustomerCalls /\ ConfirmRead(w)
    \/ ExtraPaidRead(w) \/ PatchRead(w) \/ BookingRead(w) \/ TransitionCheck(w)
    \/ \E t \in Technicians : Technician(w, t)

Step(w) == First(w) \/ Continue(w) \/ Fail(w)

\* Every step is one of some call.
LEMMA StepsAreCalls == Next => \E w \in Calls : Step(w)
<1> SUFFICES ASSUME Next PROVE \E w \in Calls : Step(w)
  OBVIOUS
<1>1. CASE \E w \in CustomerCalls : Customer(w)
  BY <1>1 DEF Customer, Step, First, Calls
<1>2. ASSUME NEW w \in Calls, PatchRead(w) \/ BookingRead(w) \/ TransitionCheck(w) \/ ExtraPaidRead(w)
      PROVE  Step(w)
  BY <1>2 DEF Step, First
<1>3. ASSUME NEW w \in Calls, NEW t \in Technicians, Technician(w, t) PROVE Step(w)
  BY <1>3 DEF Step, First
<1>4. ASSUME NEW w \in Calls, Continue(w) \/ Fail(w) PROVE Step(w)
  BY <1>4 DEF Step
<1> QED BY <1>1, <1>2, <1>3, <1>4 DEF Next, Admin, Calls

\* A first read changes nothing but its call; where the call goes on from.
LEMMA FirstReads ==
    ASSUME IInv, NEW w \in Calls, First(w)
    PROVE  /\ UNCHANGED <<order, receipts, quotes, failures, announced>>
           /\ At(w, "idle") /\ Cardinality(InFlight) < MaxInFlight
           /\ \A v \in Calls \ {w} : req'[v] = req[v]
           /\ req'[w].pc \in {"confirm", "step", "patch", "check", "transition", "accept", "photos", "quote"}
           /\ req'[w].pc = "confirm" => w \in CustomerCalls /\ ConfirmRead(w)
           /\ req'[w].pc = "quote" => quotes < MaxQuotes
           /\ req'[w].pc \in {"step", "photos"} => quotes > 0 \/ req'[w].row.status # "matching"
<1>t. req \in [Calls -> Req] /\ order \in OrderRow
  BY DEF IInv, TypeOK
<1>b. ASSUME NEW pc, NEW row, NEW t, NEW asked, Begin(w, pc, row, t, asked)
      PROVE  /\ At(w, "idle") /\ Cardinality(InFlight) < MaxInFlight
             /\ \A v \in Calls \ {w} : req'[v] = req[v]
             /\ req'[w].pc = pc /\ req'[w].row = row
  BY <1>b, <1>t DEF Begin
<1>1. CASE w \in CustomerCalls /\ ConfirmRead(w)
  <2>1. Begin(w, "confirm", [order EXCEPT !.status = "matching", !.pay = "paid"], NoTech, FALSE)
    BY <1>1 DEF ConfirmRead
  <2> QED BY <1>b, <1>1, <2>1 DEF ConfirmRead
<1>2. CASE ExtraPaidRead(w)
  <2>1. PICK row : Begin(w, "step", row, NoTech, FALSE)
    BY <1>2 DEF ExtraPaidRead
  <2>2. quotes > 0 /\ UNCHANGED <<order, receipts, quotes, failures, announced>>
    BY <1>2 DEF ExtraPaidRead
  <2>3. req'[w].pc = "step"
    BY <1>b, <2>1
  <2>4. /\ At(w, "idle") /\ Cardinality(InFlight) < MaxInFlight
        /\ \A v \in Calls \ {w} : req'[v] = req[v]
    BY <1>b, <2>1
  <2> QED BY <2>2, <2>3, <2>4
<1>3. CASE PatchRead(w) \/ BookingRead(w) \/ TransitionCheck(w)
  <2>1. PICK pc \in {"patch", "check", "transition"} : \E row, t, asked : Begin(w, pc, row, t, asked)
    <3>1. CASE PatchRead(w)
      <4>1. PICK row \in {order} \cup {[order EXCEPT !.tech = t] : t \in Technicians \cup {NoTech}} :
              \E new \in {row} \cup {Patched(row, s) : s \in AdminStatuses} :
                Begin(w, IF row.tech \in {order.tech, NoTech} THEN "patch" ELSE "check",
                      new, NoTech, new # order)
        BY <3>1 DEF PatchRead
      <4>2. (IF row.tech \in {order.tech, NoTech} THEN "patch" ELSE "check") \in {"patch", "check"}
        OBVIOUS
      <4>3. PICK new : Begin(w, IF row.tech \in {order.tech, NoTech} THEN "patch" ELSE "check",
                             new, NoTech, new # order)
        BY <4>1
      <4> QED BY <4>2, <4>3
    <3>2. CASE BookingRead(w)
      BY <3>2 DEF BookingRead
    <3>3. CASE TransitionCheck(w)
      BY <3>3 DEF TransitionCheck
    <3> QED BY <1>3, <3>1, <3>2, <3>3
  <2>2. PICK row, t, asked : Begin(w, pc, row, t, asked)
    BY <2>1
  <2>3. UNCHANGED <<order, receipts, quotes, failures, announced>>
    BY <1>3 DEF PatchRead, BookingRead, TransitionCheck
  <2> QED BY <1>b, <2>2, <2>3
<1>4. ASSUME NEW t \in Technicians, AcceptRead(w, t) \/ QuoteRead(w, t)
      PROVE  /\ UNCHANGED <<order, receipts, quotes, failures, announced>>
             /\ At(w, "idle") /\ Cardinality(InFlight) < MaxInFlight
             /\ \A v \in Calls \ {w} : req'[v] = req[v]
             /\ req'[w].pc \in {"accept", "quote"}
             /\ req'[w].pc = "quote" => quotes < MaxQuotes
  <2>1. CASE AcceptRead(w, t)
    <3>1. Begin(w, "accept", order, t, FALSE)
      BY <2>1 DEF AcceptRead
    <3>2. UNCHANGED <<order, receipts, quotes, failures, announced>>
      BY <2>1 DEF AcceptRead
    <3>3. req'[w].pc = "accept"
      BY <1>b, <3>1
    <3> QED BY <1>b, <3>1, <3>2, <3>3
  <2>2. CASE QuoteRead(w, t)
    <3>1. Begin(w, "quote", order, t, FALSE) /\ quotes < MaxQuotes
      BY <2>2 DEF QuoteRead
    <3>2. UNCHANGED <<order, receipts, quotes, failures, announced>>
      BY <2>2 DEF QuoteRead
    <3>3. req'[w].pc = "quote"
      BY <1>b, <3>1
    <3> QED BY <1>b, <3>1, <3>2, <3>3
  <2> QED BY <1>4, <2>1, <2>2
<1>5. ASSUME NEW t \in Technicians, JobRead(w, t)
      PROVE  /\ UNCHANGED <<order, receipts, quotes, failures, announced>>
             /\ At(w, "idle") /\ Cardinality(InFlight) < MaxInFlight
             /\ \A v \in Calls \ {w} : req'[v] = req[v]
             /\ req'[w].pc \in {"step", "photos"} /\ req'[w].row.status # "matching"
  <2>1. PICK pc \in {"step", "photos"}, s \in {"accepted", "on_the_way", "working", "completed"} :
          Begin(w, pc, [order EXCEPT !.status = s], t, FALSE)
    <3>1. CASE Begin(w, "photos", [order EXCEPT !.status = "completed"], t, FALSE)
      BY <3>1
    <3>2. CASE \E step \in JobSteps : Begin(w, "step", [order EXCEPT !.status = step[2]], t, FALSE)
      <4>1. PICK step \in JobSteps : Begin(w, "step", [order EXCEPT !.status = step[2]], t, FALSE)
        BY <3>2
      <4>2. step[2] \in {"accepted", "on_the_way", "working", "completed"}
        BY DEF JobSteps
      <4> QED BY <4>1, <4>2
    <3> QED BY <1>5, <3>1, <3>2, Zenon DEF JobRead
  <2>2. [order EXCEPT !.status = s].status # "matching"
    BY <1>t DEF OrderRow
  <2>3. UNCHANGED <<order, receipts, quotes, failures, announced>>
    BY <1>5 DEF JobRead
  <2> QED BY <1>b, <2>1, <2>2, <2>3
<1>6. CASE \E t \in Technicians : Technician(w, t)
  BY <1>4, <1>5, <1>6 DEF Technician
<1> QED BY <1>1, <1>2, <1>3, <1>6 DEF First

\* What a call goes on to.
LEMMA GoesOn ==
    ASSUME IInv, NEW w \in Calls, Continue(w) \/ Fail(w)
    PROVE  /\ ~At(w, "idle") /\ \A v \in Calls \ {w} : req'[v] = req[v]
           /\ req'[w].pc \in {"pay", "notify", "patch", "complete", "pending", "step", "receipt", "settle", "idle"}
           /\ req'[w].pc = "pay" => ReceiptRead(w) /\ At(w, "receipt")
           /\ req'[w].pc = "pending" => At(w, "quote")
           /\ req'[w].pc = "step" => At(w, "pending")
           /\ req'[w].pc = "receipt" => At(w, "confirm")
           /\ req'[w].pc = "complete" => At(w, "photos") /\ req'[w].row = req[w].row /\ order' = order
<1>t. req \in [Calls -> Req] /\ req[w] \in Req
  BY DEF IInv, TypeOK
<1>g. ASSUME NEW pc, Goto(w, pc)
      PROVE  req'[w].pc = pc /\ req'[w].row = req[w].row /\ \A v \in Calls \ {w} : req'[v] = req[v]
  BY <1>g, <1>t DEF Goto, Req
<1>r. ASSUME NEW pc, NEW row, Reread(w, pc, row)
      PROVE  req'[w].pc = pc /\ \A v \in Calls \ {w} : req'[v] = req[v]
  BY <1>r, <1>t DEF Reread, Req
<1>f. ASSUME Finish(w) PROVE req'[w].pc = "idle" /\ \A v \in Calls \ {w} : req'[v] = req[v]
  BY <1>f, <1>t DEF Finish, Idle
<1>1. CASE ReceiptRead(w)
  BY <1>g, <1>1 DEF ReceiptRead, At
<1>2. CASE ReceiptInsert(w) \/ QuoteInsert(w)
  BY <1>g, <1>2 DEF ReceiptInsert, QuoteInsert, At
<1>3. CASE TransitionRead(w) \/ PendingRead(w)
  BY <1>r, <1>3 DEF TransitionRead, PendingRead, At
<1>4. CASE TechnicianCheck(w) \/ PhotosRead(w)
  BY <1>g, <1>f, <1>4 DEF TechnicianCheck, PhotosRead, At
<1>5. CASE AcceptWrite(w) \/ Settle(w) \/ Notify(w) \/ Fail(w)
  BY <1>f, <1>5 DEF AcceptWrite, Settle, Notify, Fail, At
<1>6. CASE Replace(w)
  <2>1. FollowUp(w) \in {"receipt", "settle", "notify", "idle"} /\ (FollowUp(w) = "receipt" => At(w, "confirm"))
    BY DEF FollowUp, At
  <2> QED BY <1>g, <1>f, <1>6, <2>1, StepNames DEF Replace, At
<1> QED BY <1>1, <1>2, <1>3, <1>4, <1>5, <1>6 DEF Continue

\* Who inserts a receipt, and who is going to.
LEMMA ReceiptSteps ==
    ASSUME IInv, NEW w \in Calls, Step(w)
    PROVE  /\ ~ReceiptInsert(w) => receipts' = receipts
           /\ At(w, "pay")' => receipts = 0
<1>1. CASE First(w)
  BY <1>1, FirstReads DEF At
<1>2. CASE Continue(w) \/ Fail(w)
  <2>1. ~ReceiptInsert(w) => receipts' = receipts
    BY <1>2 DEF Continue, ReceiptRead, TransitionRead, TechnicianCheck, AcceptWrite, PhotosRead,
                Settle, QuoteInsert, PendingRead, Replace, Notify, Fail
  <2>2. At(w, "pay")' => ReceiptRead(w)
    BY <1>2, GoesOn DEF At
  <2>3. ReceiptRead(w) /\ receipts # 0 => req'[w].pc = "notify"
    BY DEF ReceiptRead, Goto, IInv, TypeOK, Req
  <2> QED BY <2>1, <2>2, <2>3 DEF At
<1> QED BY <1>1, <1>2 DEF Step

\* Once the payment is recorded and nobody is left to record another, it stays so, for
\* any number of confirmations at once that stale rows make possible again.
THEOREM RecordedIsFinalHolds == Spec => RecordedIsFinal
<1>1. ASSUME IInv, [Next]_vars, Recorded
      PROVE  Recorded' /\ receipts' = receipts
  <2>1. CASE UNCHANGED vars
    BY <1>1, <2>1 DEF vars, Recorded, At
  <2>2. ASSUME NEW w \in Calls, Step(w) PROVE Recorded' /\ receipts' = receipts
    <3>1. \A v \in Calls \ {w} : req'[v] = req[v]
      BY <1>1, <2>2, FirstReads, GoesOn DEF Step
    <3>2. ~ReceiptInsert(w)
      BY <1>1 DEF Recorded, ReceiptInsert
    <3>3. receipts' = receipts
      BY <1>1, <2>2, <3>2, ReceiptSteps
    <3>4. receipts \in Nat /\ receipts > 0
      BY <1>1 DEF Recorded, IInv, TypeOK
    <3>5. ~At(w, "pay")'
      BY <1>1, <2>2, <3>4, ReceiptSteps
    <3> QED BY <1>1, <3>1, <3>3, <3>5 DEF Recorded, At
  <2> QED BY <1>1, <2>1, <2>2, StepsAreCalls
<1>2. IInv /\ [Next]_vars => [Recorded => Recorded' /\ receipts' = receipts]_vars
  BY <1>1
<1> QED BY <1>2, Invariance, PTL DEF Spec, RecordedIsFinal

\* Only a payment call looks for a receipt, and it inserts one if there is none.
ReceiptInv ==
    /\ \A w \in Calls : req[w].pc \in {"confirm", "receipt", "pay"} => w \in CustomerCalls
    /\ \A w \in Calls : At(w, "pay") => receipts = 0
    /\ OneReceipt

\* One payment call at a time records one payment, whatever administrators and
\* technicians do meanwhile and whatever fails.  Two at once may record two.
THEOREM OneReceiptHolds ==
    ASSUME \A c, d \in CustomerCalls : c = d
    PROVE  Spec => []OneReceipt
<1>1. Init => ReceiptInv
  BY DEF Init, ReceiptInv, OneReceipt, At, Idle
<1>2. ASSUME IInv, ReceiptInv, [Next]_vars PROVE ReceiptInv'
  <2>1. CASE UNCHANGED vars
    BY <1>2, <2>1 DEF vars, ReceiptInv, OneReceipt, At
  <2>2. ASSUME NEW w \in Calls, Step(w) PROVE ReceiptInv'
    <3>1. \A v \in Calls \ {w} : req'[v] = req[v]
      BY <1>2, <2>2, FirstReads, GoesOn DEF Step
    <3>2. req'[w].pc \in {"confirm", "receipt", "pay"} => w \in CustomerCalls
      <4>1. CASE First(w)
        BY <1>2, <2>2, <4>1, FirstReads
      <4>2. CASE Continue(w) \/ Fail(w)
        BY <1>2, <4>2, GoesOn DEF ReceiptInv, At
      <4> QED BY <2>2, <4>1, <4>2 DEF Step
    <3>3. CASE ReceiptInsert(w)
      <4>1. receipts = 0 /\ receipts' = 1 /\ w \in CustomerCalls
        BY <1>2, <3>3 DEF ReceiptInsert, ReceiptInv, At
      <4>2. req'[w].pc = "notify"
        BY <1>2, <3>3 DEF ReceiptInsert, Goto, IInv, TypeOK, Req
      <4>3. ASSUME NEW v \in Calls \ {w} PROVE ~At(v, "pay")'
        BY <1>2, <3>1, <4>1 DEF ReceiptInv, At
      <4> QED BY <1>2, <3>1, <3>2, <4>1, <4>2, <4>3 DEF ReceiptInv, OneReceipt, At
    <3>4. CASE ~ReceiptInsert(w)
      <4>1. receipts' = receipts
        BY <1>2, <2>2, <3>4, ReceiptSteps
      <4>2. At(w, "pay")' => receipts = 0
        BY <1>2, <2>2, ReceiptSteps
      <4> QED BY <1>2, <3>1, <3>2, <4>1, <4>2 DEF ReceiptInv, OneReceipt, At
    <3> QED BY <3>3, <3>4
  <2> QED BY <1>2, <2>1, <2>2, StepsAreCalls
<1>3. ReceiptInv => OneReceipt
  BY DEF ReceiptInv
<1> QED BY <1>1, <1>2, <1>3, Invariance, PTL DEF Spec

-----------------------------------------------------------------------------
(* Open orders are announced *)

\* A call at one of these steps goes on to announce the order, if it does not fail.
Announcing == {"receipt", "pay", "notify"}

\* A job step does not make the order matching: only who follows up does.
Follows ==
    /\ \A w \in Calls :
         /\ req[w].pc \in {"step", "photos", "complete"} => req[w].row.status # "matching"
         /\ ~At(w, "pending")
    /\ order.status = "matching" => announced \/ \E w \in Calls : req[w].pc \in Announcing

Smooth == quotes = 0 /\ failures = 0

AnnounceInv == Smooth => Follows

\* The order is not matching anew, and it is announced or whoever was going to still is.
LEMMA AnnounceStays ==
    ASSUME IInv, Smooth, Follows, NEW w \in Calls, Step(w), quotes' = 0,
           order'.status = "matching" =>
             \/ announced' \/ req'[w].pc \in Announcing
             \/ order.status = "matching" /\ announced' = announced /\ req[w].pc \notin Announcing,
           ~Fail(w)
    PROVE  Follows'
<1>1. \A v \in Calls \ {w} : req'[v] = req[v]
  BY FirstReads, GoesOn DEF Step
<1>2. /\ req'[w].pc \in {"step", "photos", "complete"} => req'[w].row.status # "matching"
      /\ req'[w].pc # "pending"
  <2>1. CASE First(w)
    <3>1. ~(0 < 0)
      OBVIOUS
    <3> QED BY <2>1, <3>1, FirstReads DEF Smooth
  <2>2. CASE Continue(w)
    <3>1. req'[w].pc \in {"pay", "notify", "patch", "complete", "pending", "step", "receipt", "settle", "idle"}
      BY <2>2, GoesOn
    <3>2. req'[w].pc # "step"
      BY <2>2, GoesOn DEF Follows
    <3>3. req'[w].pc = "complete" => req'[w].row = req[w].row /\ req[w].pc = "photos"
      BY <2>2, GoesOn DEF At
    <3>4. req'[w].pc # "pending"
      <4>1. ASSUME At(w, "quote") PROVE FALSE
        <5>1. QuoteInsert(w)
          BY <2>2, <4>1, StepNames DEF Continue, At, ReceiptRead, ReceiptInsert, TransitionRead, TechnicianCheck,
             AcceptWrite, PhotosRead, Settle, PendingRead, Replace, Notify
        <5>2. quotes' = quotes + 1 /\ quotes = 0
          BY <5>1 DEF QuoteInsert, Smooth
        <5> QED BY <5>2
      <4> QED BY <2>2, <4>1, GoesOn
    <3> QED BY <3>1, <3>2, <3>3, <3>4 DEF Follows
  <2> QED BY <2>1, <2>2 DEF Step
<1>3. order'.status = "matching" => announced' \/ \E v \in Calls : req'[v].pc \in Announcing
  BY <1>1 DEF Follows
<1> QED BY <1>1, <1>2, <1>3 DEF Follows, At

\* Until an extra quote is filed or a statement fails, an order nobody is working on while
\* it waits for a technician was announced, stale patches of administrators included.
THEOREM OpenOrderAnnouncedHolds ==
    Spec => [](quotes = 0 /\ failures = 0 => OpenOrderAnnounced)
<1>1. Init => AnnounceInv
  BY DEF Init, AnnounceInv, Follows, Idle, Fresh, At
<1>2. ASSUME IInv, AnnounceInv, [Next]_vars PROVE AnnounceInv'
  <2>t. order \in OrderRow /\ req \in [Calls -> Req] /\ quotes \in Nat /\ failures \in Nat
    BY <1>2, DispatchAssumption DEF IInv, TypeOK
  <2>1. CASE UNCHANGED vars
    BY <1>2, <2>1 DEF vars, AnnounceInv, Smooth, Follows, At
  <2>2. ASSUME NEW w \in Calls, Step(w), Smooth' PROVE Follows'
    <3>0. Smooth /\ Follows /\ quotes' = 0 /\ ~Fail(w)
      <4>1. ~Fail(w)
        BY <2>t, <2>2 DEF Fail, Smooth
      <4>2. CASE First(w)
        BY <1>2, <2>2, <4>1, <4>2, FirstReads DEF Smooth, AnnounceInv
      <4>3. CASE Continue(w)
        <5>1. failures' = failures /\ (quotes' = quotes \/ quotes' = quotes + 1)
          BY <4>3 DEF Continue, ReceiptRead, ReceiptInsert, TransitionRead, TechnicianCheck,
             AcceptWrite, PhotosRead, Settle, QuoteInsert, PendingRead, Replace, Notify
        <5>2. quotes = 0
          BY <2>t, <2>2, <5>1 DEF Smooth
        <5> QED BY <1>2, <2>2, <4>1, <5>1, <5>2 DEF Smooth, AnnounceInv
      <4> QED BY <2>2, <4>1, <4>2, <4>3 DEF Step
    <3>1. CASE First(w)
      <4>1. req[w].pc \notin Announcing /\ order' = order /\ announced' = announced
        BY <1>2, <3>1, FirstReads DEF At, Announcing
      <4> QED BY <1>2, <2>2, <3>0, <4>1, AnnounceStays
    <3>2. CASE Notify(w)
      BY <1>2, <2>2, <3>0, <3>2, AnnounceStays DEF Notify
    <3>3. CASE ReceiptRead(w) \/ ReceiptInsert(w)
      <4>1. req'[w].pc \in Announcing
        BY <2>t, <3>3 DEF ReceiptRead, ReceiptInsert, Goto, Announcing, Req
      <4> QED BY <1>2, <2>2, <3>0, <4>1, AnnounceStays
    <3>4. CASE TransitionRead(w) \/ TechnicianCheck(w) \/ PhotosRead(w) \/ Settle(w) \/ QuoteInsert(w) \/ PendingRead(w)
      <4>1. req[w].pc \notin Announcing /\ order' = order /\ announced' = announced
        BY <3>4 DEF TransitionRead, TechnicianCheck, PhotosRead, Settle, QuoteInsert, PendingRead, At, Announcing
      <4> QED BY <1>2, <2>2, <3>0, <4>1, AnnounceStays
    <3>5. CASE AcceptWrite(w)
      <4>1. req[w].pc \notin Announcing /\ announced' = announced
        BY <3>5 DEF AcceptWrite, At, Announcing
      <4>2. order'.status = "matching" => order.status = "matching"
        BY <2>t, <3>5 DEF AcceptWrite, OrderRow
      <4> QED BY <1>2, <2>2, <3>0, <4>1, <4>2, AnnounceStays
    <3>6. CASE Replace(w)
      <4>1. order' = req[w].row /\ req[w].pc \in {"patch", "confirm", "step", "complete"}
        BY <3>6, StepNames DEF Replace
      <4>2. ASSUME order'.status = "matching" PROVE req'[w].pc \in Announcing
        <5>1. At(w, "patch") \/ At(w, "confirm")
          BY <3>0, <4>1, <4>2 DEF Follows, At
        <5>2. FollowUp(w) \in {"receipt", "notify"}
          BY <4>1, <4>2, <5>1 DEF FollowUp, At
        <5> QED BY <2>t, <3>6, <5>2 DEF Replace, Goto, Announcing, Req
      <4> QED BY <1>2, <2>2, <3>0, <4>2, AnnounceStays
    <3> QED BY <2>2, <3>0, <3>1, <3>2, <3>3, <3>4, <3>5, <3>6 DEF Step, Continue
  <2> QED BY <1>2, <2>1, <2>2, StepsAreCalls DEF AnnounceInv
<1>3. AnnounceInv => (quotes = 0 /\ failures = 0 => OpenOrderAnnounced)
  BY DEF AnnounceInv, Smooth, Follows, OpenOrderAnnounced, InFlight, At, Announcing
<1> QED BY <1>1, <1>2, <1>3, Invariance, PTL DEF Spec

-----------------------------------------------------------------------------
(* Payments go forward *)

Forward(before, after) ==
    /\ before # "pending" => after # "pending"
    /\ before \in {"failed", "refunded"} => after # "paid"

\* The only call in flight has seen the payment as it is.
SerialInv ==
    /\ \A v, w \in InFlight : v = w
    /\ \A w \in Calls :
         req[w].pc \in Writes \cup {"check", "photos"} => Forward(order.pay, req[w].row.pay)

LEMMA PatchedForward ==
    ASSUME NEW row \in OrderRow, NEW s \in Statuses
    PROVE  Forward(row.pay, Patched(row, s).pay)
<1>1. Patched(row, s).pay = CASE s = "refunded" -> "refunded"
                              [] s = "cancelled" -> "failed"
                              [] s \in {"matching", "assigned"} /\ row.pay = "pending" -> "paid"
                              [] OTHER -> row.pay
  BY DEF Patched, OrderRow
<1>2. CASE s = "refunded" \/ s = "cancelled"
  BY <1>1, <1>2 DEF Forward
<1>3. CASE s \notin {"refunded", "cancelled"}
  BY <1>1, <1>3 DEF Forward
<1> QED BY <1>2, <1>3

\* Nobody is in flight when a call arrives.
LEMMA Alone ==
    ASSUME SerialInv, MaxInFlight = 1, Cardinality(InFlight) < MaxInFlight
    PROVE  InFlight = {}
<1>1. IsFiniteSet(InFlight) /\ Cardinality(InFlight) \in Nat
  <2>1. CASE InFlight = {}
    BY <2>1, FS_EmptySet
  <2>2. ASSUME NEW w \in InFlight PROVE IsFiniteSet(InFlight)
    <3>1. InFlight = {w}
      BY <2>2 DEF SerialInv
    <3> QED BY <3>1, FS_Singleton
  <2> QED BY <2>1, <2>2, FS_CardinalityType
<1>2. Cardinality(InFlight) = 0
  BY <1>1
<1> QED BY <1>1, <1>2, FS_EmptySet

\* What the call is going to write takes the payment forward.
LEMMA RowForward ==
    ASSUME IInv, SerialInv, NEW w \in Calls, Step(w)
    PROVE  req'[w].pc \in Writes \cup {"check", "photos"} => Forward(order'.pay, req'[w].row.pay)
<1>t. /\ req \in [Calls -> Req] /\ req[w] \in Req /\ order \in OrderRow /\ AdminStatuses \subseteq Statuses
      /\ req[w].row.status \in Statuses
  BY DispatchAssumption DEF IInv, TypeOK, Req, OrderRow
<1>b. ASSUME NEW pc, NEW row, NEW t, NEW asked, Begin(w, pc, row, t, asked), Forward(order.pay, row.pay), order' = order
      PROVE  Forward(order'.pay, req'[w].row.pay)
  BY <1>b, <1>t DEF Begin
<1>0. \A row : row.pay = order.pay => Forward(order.pay, row.pay)
  BY DEF Forward
<1>1. CASE ConfirmRead(w)
  <2>1. /\ Begin(w, "confirm", [order EXCEPT !.status = "matching", !.pay = "paid"], NoTech, FALSE)
        /\ order' = order /\ order.pay = "pending"
    BY <1>1 DEF ConfirmRead
  <2>2. Forward(order.pay, [order EXCEPT !.status = "matching", !.pay = "paid"].pay)
    BY <1>t, <2>1 DEF Forward, OrderRow
  <2> QED BY <1>b, <2>1, <2>2
<1>2. CASE ExtraPaidRead(w)
  <2>1. /\ Begin(w, "step", [order EXCEPT !.status = IF @ = "extra_payment_pending" THEN "working" ELSE @],
                 NoTech, FALSE)
        /\ order' = order
    BY <1>2 DEF ExtraPaidRead
  <2>2. [order EXCEPT !.status = IF @ = "extra_payment_pending" THEN "working" ELSE @].pay = order.pay
    BY <1>t DEF OrderRow
  <2> QED BY <1>b, <1>0, <2>1, <2>2
<1>3. CASE PatchRead(w)
  <2>1. PICK row \in {order} \cup {[order EXCEPT !.tech = t] : t \in Technicians \cup {NoTech}} :
          \E new \in {row} \cup {Patched(row, s) : s \in AdminStatuses} :
            Begin(w, IF row.tech \in {order.tech, NoTech} THEN "patch" ELSE "check", new, NoTech, new # order)
    BY <1>3 DEF PatchRead
  <2>2. PICK new \in {row} \cup {Patched(row, s) : s \in AdminStatuses} :
            Begin(w, IF row.tech \in {order.tech, NoTech} THEN "patch" ELSE "check", new, NoTech, new # order)
    BY <2>1
  <2>3. row \in OrderRow /\ row.pay = order.pay
    BY <1>t DEF OrderRow
  <2>4. Forward(order.pay, new.pay)
    BY <1>0, <1>t, <2>3, PatchedForward
  <2>5. order' = order
    BY <1>3 DEF PatchRead
  <2> QED BY <1>b, <2>2, <2>4, <2>5
<1>4. CASE BookingRead(w)
  <2>0. order' = order
    BY <1>4 DEF BookingRead
  <2>1. ASSUME NEW t \in Technicians \cup {NoTech}, NEW s \in Statuses
        PROVE  Forward(order.pay, Patched([order EXCEPT !.tech = t], s).pay)
    <3>1. [order EXCEPT !.tech = t] \in OrderRow /\ [order EXCEPT !.tech = t].pay = order.pay
      BY <1>t DEF OrderRow
    <3> QED BY <3>1, PatchedForward
  <2>2. {"assigned", "matching", "cancelled"} \subseteq Statuses
    BY DEF Statuses
  <2>3. CASE \E t \in Technicians : Begin(w, "check", Patched([order EXCEPT !.tech = t], "assigned"), NoTech, TRUE)
    <3>1. PICK t \in Technicians : Begin(w, "check", Patched([order EXCEPT !.tech = t], "assigned"), NoTech, TRUE)
      BY <2>3
    <3> QED BY <1>b, <2>0, <2>1, <2>2, <3>1
  <2>4. CASE Begin(w, "patch", Patched([order EXCEPT !.tech = NoTech], "matching"), NoTech, TRUE)
    BY <1>b, <2>0, <2>1, <2>2, <2>4
  <2>5. CASE Begin(w, "patch", Patched(order, "cancelled"), NoTech, TRUE)
    <3>1. Forward(order.pay, Patched(order, "cancelled").pay)
      BY <1>t, <2>2, PatchedForward
    <3> QED BY <1>b, <2>0, <2>5, <3>1
  <2> QED BY <1>4, <2>3, <2>4, <2>5 DEF BookingRead
<1>5. CASE TransitionCheck(w)
  <2>1. PICK s \in AdminStatuses : Begin(w, "transition", [order EXCEPT !.status = s], NoTech, TRUE)
    BY <1>5 DEF TransitionCheck
  <2>2. req'[w].pc = "transition"
    BY <1>t, <2>1 DEF Begin
  <2> QED BY <2>2, StepNames
<1>6. ASSUME NEW t \in Technicians, Technician(w, t)
      PROVE  req'[w].pc \in Writes \cup {"check", "photos"} => Forward(order'.pay, req'[w].row.pay)
  <2>0. order' = order
    BY <1>6 DEF Technician, AcceptRead, JobRead, QuoteRead
  <2>1. PICK row, pc : Begin(w, pc, row, t, FALSE) /\ row.pay = order.pay
    <3>1. CASE AcceptRead(w, t)
      BY <3>1 DEF AcceptRead
    <3>2. CASE QuoteRead(w, t)
      BY <3>2 DEF QuoteRead
    <3>3. CASE JobRead(w, t)
      <4>1. \A s : [order EXCEPT !.status = s].pay = order.pay
        BY <1>t DEF OrderRow
      <4>2. (\E step \in JobSteps : Begin(w, "step", [order EXCEPT !.status = step[2]], t, FALSE))
            \/ Begin(w, "photos", [order EXCEPT !.status = "completed"], t, FALSE)
        BY <3>3, Zenon DEF JobRead
      <4>3. CASE \E step \in JobSteps : Begin(w, "step", [order EXCEPT !.status = step[2]], t, FALSE)
        <5>1. PICK step \in JobSteps : Begin(w, "step", [order EXCEPT !.status = step[2]], t, FALSE)
          BY <4>3
        <5>2. [order EXCEPT !.status = step[2]].pay = order.pay
          BY <4>1
        <5> QED BY <5>1, <5>2
      <4>4. CASE Begin(w, "photos", [order EXCEPT !.status = "completed"], t, FALSE)
        <5>1. [order EXCEPT !.status = "completed"].pay = order.pay
          BY <4>1
        <5> QED BY <4>4, <5>1
      <4> QED BY <4>2, <4>3, <4>4
    <3> QED BY <1>6, <3>1, <3>2, <3>3 DEF Technician
  <2> QED BY <1>b, <1>0, <2>0, <2>1
<1>7. CASE TransitionRead(w)
  <2>1. req'[w].row = Patched(order, req[w].row.status) /\ order' = order
    BY <1>7, <1>t DEF TransitionRead, Reread, Req
  <2> QED BY <1>t, <2>1, PatchedForward
<1>8. CASE PendingRead(w)
  <2>1. req'[w].row = [order EXCEPT !.status = "extra_payment_pending"] /\ order' = order
    BY <1>8, <1>t DEF PendingRead, Reread, Req
  <2>2. [order EXCEPT !.status = "extra_payment_pending"].pay = order.pay
    BY <1>t DEF OrderRow
  <2> QED BY <1>0, <2>1, <2>2
<1>9. CASE TechnicianCheck(w) \/ PhotosRead(w)
  <2>1. CASE Finish(w)
    BY <1>t, <2>1, StepNames DEF Finish, Idle
  <2>2. CASE \E pc : Goto(w, pc)
    <3>1. req'[w].row = req[w].row /\ order' = order /\ req[w].pc \in {"check", "photos"}
      BY <1>9, <1>t, <2>2 DEF Goto, TechnicianCheck, PhotosRead, At, Req
    <3> QED BY <3>1 DEF SerialInv
  <2> QED BY <1>9, <2>1, <2>2 DEF TechnicianCheck, PhotosRead
<1>10. CASE ReceiptRead(w) \/ ReceiptInsert(w) \/ AcceptWrite(w) \/ Settle(w) \/ QuoteInsert(w) \/ Replace(w) \/ Notify(w) \/ Fail(w)
  <2>1. Replace(w) => FollowUp(w) \in {"idle", "receipt", "settle", "notify"}
    BY DEF FollowUp
  <2>2. Finish(w) \/ \E pc \in {"pay", "notify", "receipt", "settle", "pending"} : Goto(w, pc)
    BY <1>10, <2>1 DEF ReceiptRead, ReceiptInsert, AcceptWrite, Settle, QuoteInsert, Replace, Notify, Fail
  <2>3. req'[w].pc \in {"idle", "pay", "notify", "receipt", "settle", "pending"}
    BY <1>t, <2>2 DEF Finish, Goto, Idle, Req
  <2> QED BY <2>3, StepNames
<1> QED BY <1>1, <1>2, <1>3, <1>4, <1>5, <1>6, <1>7, <1>8, <1>9, <1>10 DEF Step, First, Continue

LEMMA SerialKeeps ==
    ASSUME IInv, SerialInv, MaxInFlight = 1, [Next]_vars
    PROVE  SerialInv'
<1>1. CASE UNCHANGED vars
  BY <1>1 DEF vars, SerialInv, InFlight, At
<1>2. ASSUME NEW w \in Calls, Step(w) PROVE SerialInv'
  <2>1. \A v \in Calls \ {w} : At(v, "idle") /\ req'[v] = req[v]
    <3>1. CASE First(w)
      <4>1. InFlight = {} /\ \A v \in Calls \ {w} : req'[v] = req[v]
        BY <3>1, FirstReads, Alone
      <4> QED BY <4>1 DEF InFlight
    <3>2. CASE Continue(w) \/ Fail(w)
      <4>1. ~At(w, "idle") /\ \A v \in Calls \ {w} : req'[v] = req[v]
        BY <3>2, GoesOn
      <4> QED BY <4>1 DEF SerialInv, InFlight
    <3> QED BY <1>2, <3>1, <3>2 DEF Step
  <2>2. \A v \in Calls \ {w} : req'[v].pc = "idle"
    BY <2>1 DEF At
  <2> QED BY <1>2, <2>2, RowForward, StepNames DEF SerialInv, InFlight, At
<1> QED BY <1>1, <1>2, StepsAreCalls

\* Calls one after the other never take a payment back to pending, and pay none that
\* failed or was refunded.
THEOREM PaymentForwardHolds ==
    ASSUME MaxInFlight = 1
    PROVE  Spec => PaymentForward
<1>1. Init => SerialInv
  BY StepNames DEF Init, SerialInv, InFlight, At, Idle
<1>2. ASSUME IInv, SerialInv, [Next]_vars
      PROVE  \/ order' = order
             \/ Forward(order.pay, order'.pay)
  <2>1. CASE UNCHANGED vars
    BY <2>1 DEF vars
  <2>2. ASSUME NEW w \in Calls, Step(w) PROVE order' = order \/ Forward(order.pay, order'.pay)
    <3>1. CASE Replace(w)
      BY <1>2, <3>1 DEF Replace, SerialInv
    <3>2. CASE AcceptWrite(w)
      BY <1>2, <3>2 DEF AcceptWrite, IInv, TypeOK, OrderRow, Forward
    <3>3. CASE First(w)
      BY <1>2, <3>3, FirstReads
    <3>4. CASE (Continue(w) \/ Fail(w)) /\ ~Replace(w) /\ ~AcceptWrite(w)
      BY <3>4 DEF Continue, ReceiptRead, ReceiptInsert, TransitionRead, TechnicianCheck, PhotosRead,
                  Settle, QuoteInsert, PendingRead, Notify, Fail
    <3> QED BY <2>2, <3>1, <3>2, <3>3, <3>4 DEF Step
  <2> QED BY <1>2, <2>1, <2>2, StepsAreCalls
<1>3. ASSUME IInv, SerialInv, [Next]_vars
      PROVE  [/\ order.pay # "pending" => order'.pay # "pending"
              /\ order.pay \in {"failed", "refunded"} => order'.pay # "paid"]_vars
  <2>1. CASE order' = order
    BY <2>1
  <2>2. CASE Forward(order.pay, order'.pay)
    BY <2>2 DEF Forward
  <2> QED BY <1>2, <1>3, <2>1, <2>2
<1>4. ASSUME IInv, SerialInv, [Next]_vars PROVE SerialInv'
  BY <1>4, SerialKeeps
<1> QED BY <1>1, <1>3, <1>4, Invariance, PTL DEF Spec, PaymentForward

=============================================================================
