------------------------- MODULE ExtraQuotes_proofs -------------------------
(***************************************************************************)
(* Proofs about ExtraQuotes, for any quotes, amounts, calls and bounds.    *)
(***************************************************************************)
EXTENDS ExtraQuotes, TLAPS


-----------------------------------------------------------------------------
(* The inductive invariant *)

\* Steps of a call that is about a quote.
Quoting == {"items", "pending", "list", "check", "answer", "charge", "pay", "mark", "apply"}

Courses == {"serial", "disturbed"}

\* A call about to insert a payment works for an approved quote, and one about
\* to mark its quote as paid has inserted the payment.
CallInv(c) ==
    /\ c \in Req
    /\ c.pc \in Quoting => c.quote \in Quotes
    /\ c.pc = "pay" => c.quote \in approved
    /\ c.pc = "mark" => charged[c.quote] > 0

IInv ==
    /\ TypeOK
    /\ \A q \in Quotes : quote[q] = "approved" => q \in approved
    /\ NoChargeUnapproved
    /\ PaidIsCharged
    /\ \A w \in Calls : CallInv(req[w])

USE DEF history, Courses

-----------------------------------------------------------------------------
(* Lemmas *)

\* The steps of a call by name.
LEMMA StepNames == Steps = Quoting \cup {"idle", "replace"}
  BY DEF Steps, Quoting

\* A call that is not in flight fulfils its part of the invariant.
LEMMA IdleFits == CallInv(Idle)
  BY StepNames DEF CallInv, Idle, Req, Start, OrderRow, OrderStatuses, Answers, Quoting

\* An action changes nothing but what one call is about to do.
CallMoves(w, c) ==
    /\ req' = [req EXCEPT ![w] = c]
    /\ UNCHANGED <<quote, charged, collected, approved>>
    /\ order' \in OrderRow
    /\ failures' \in 0..MaxFailures
    /\ course' \in Courses

\* Such an action keeps the invariant if the call's new record fits.
LEMMA CallMovesKeeps ==
    ASSUME IInv, NEW w \in Calls, NEW c, CallMoves(w, c), CallInv(c)
    PROVE  IInv'
<1>1. req' \in [Calls -> Req]
  BY DEF CallMoves, CallInv, IInv, TypeOK
<1>2. TypeOK'
  BY <1>1 DEF CallMoves, IInv, TypeOK
<1>3. ASSUME NEW v \in Calls PROVE CallInv(req[v])'
  <2>1. req'[v] = c \/ req'[v] = req[v]
    BY DEF CallMoves, IInv, TypeOK
  <2> QED BY <2>1 DEF CallMoves, CallInv, IInv
<1> QED BY <1>2, <1>3 DEF CallMoves, IInv, NoChargeUnapproved, PaidIsCharged

\* The tables only grow: what is approved stays so and payments are not taken
\* back.
Grows ==
    /\ quote' \in [Quotes -> QuoteStatuses]
    /\ charged' \in [Quotes -> Nat]
    /\ collected' \in Nat
    /\ approved' \in SUBSET Quotes
    /\ course' \in Courses
    /\ UNCHANGED <<order, failures>>
    /\ approved \subseteq approved'
    /\ \A q \in Quotes : charged[q] > 0 => charged'[q] > 0

\* When the tables grow and one call moves, every call still fits and the types
\* are right.
LEMMA GrowsKeeps ==
    ASSUME IInv, Grows, NEW w \in Calls, NEW c,
           req' = [req EXCEPT ![w] = c], CallInv(c)'
    PROVE  TypeOK' /\ \A v \in Calls : CallInv(req[v])'
<1>1. req' \in [Calls -> Req]
  BY DEF CallInv, IInv, TypeOK
<1>2. TypeOK'
  BY <1>1 DEF Grows, IInv, TypeOK
<1>3. ASSUME NEW v \in Calls PROVE CallInv(req[v])'
  <2>1. req'[v] = c \/ req'[v] = req[v]
    BY DEF IInv, TypeOK
  <2>2. CASE req'[v] = c
    BY <2>2 DEF CallInv
  <2>3. CASE req'[v] = req[v]
    BY <2>3 DEF CallInv, IInv, Grows, Quoting
  <2> QED BY <2>1, <2>2, <2>3
<1> QED BY <1>2, <1>3

\* A call moves to another step about the same quote.
LEMMA GotoFits ==
    ASSUME IInv, NEW w \in Calls, req[w].pc \in Quoting, NEW pc \in Quoting \ {"pay", "mark"}
    PROVE  CallInv([req[w] EXCEPT !.pc = pc])
  BY StepNames DEF IInv, CallInv, Req

-----------------------------------------------------------------------------
(* The actions *)

\* A call arrives.
LEMMA ArriveKeeps ==
    ASSUME IInv, NEW w \in Calls, NEW q \in Quotes, Arrive(w, q)
    PROVE  IInv'
<1>t. order \in OrderRow /\ failures \in 0..MaxFailures /\ course \in Courses
  BY DEF IInv, TypeOK
<1>1. CASE Create(w, q)
  <2> DEFINE c == [Idle EXCEPT !.pc = "items", !.quote = q]
  <2>1. CallInv(c)'
    BY IdleFits, StepNames DEF CallInv, Idle, Req, Quoting
  <2>2. Grows /\ req' = [req EXCEPT ![w] = c]
    BY <1>1 DEF Grows, Create, Begin, IInv, TypeOK, QuoteStatuses
  <2>3. TypeOK' /\ \A v \in Calls : CallInv(req[v])'
    BY <2>1, <2>2, GrowsKeeps
  <2>4. quote' = [quote EXCEPT ![q] = "requested"] /\ UNCHANGED <<charged, approved>>
    BY <1>1 DEF Create
  <2> QED BY <2>3, <2>4 DEF IInv, TypeOK, NoChargeUnapproved, PaidIsCharged
<1>2. CASE Ask(w, q)
  <2>1. ASSUME NEW c, Begin(w, c), CallInv(c) PROVE IInv'
    <3>1. CallMoves(w, c)
      BY <1>2, <2>1, <1>t DEF CallMoves, Ask, Begin
    <3> QED BY <3>1, <2>1, CallMovesKeeps
  <2>2. ASSUME NEW to \in Answers, NEW pc \in {"check", "charge", "list"}, NEW b \in BOOLEAN
        PROVE  CallInv([Idle EXCEPT !.pc = pc, !.quote = q, !.to = to, !.thenPay = b])
    BY IdleFits, StepNames DEF CallInv, Idle, Req, Quoting
  <2>3. ASSUME NEW to \in Answers
        PROVE  CallInv([Idle EXCEPT !.pc = "check", !.quote = q, !.to = to])
    BY IdleFits, StepNames DEF CallInv, Idle, Req, Quoting
  <2>4. CallInv([Idle EXCEPT !.pc = "charge", !.quote = q])
        /\ CallInv([Idle EXCEPT !.pc = "list", !.quote = q, !.thenPay = TRUE])
    BY IdleFits, StepNames DEF CallInv, Idle, Req, Quoting
  <2> QED BY <1>2, <2>1, <2>3, <2>4 DEF Ask
<1> QED BY <1>1, <1>2 DEF Arrive

\* A call that reads and checks: it goes on, is refused, or takes a row up.
LEMMA ReadKeeps ==
    ASSUME IInv, NEW w \in Calls,
           \/ InsertItems(w) \/ PendingRead(w) \/ ListRead(w) \/ CheckAnswer(w)
           \/ ChargeRead(w) \/ ApplyRead(w)
    PROVE  IInv'
<1>t. /\ order \in OrderRow /\ failures \in 0..MaxFailures /\ course \in Courses
      /\ CallInv(req[w]) /\ CallInv(Idle)
  BY IdleFits DEF IInv, TypeOK
<1>u. UNCHANGED <<quote, charged, collected, order, failures, approved, course>>
  BY DEF InsertItems, PendingRead, ListRead, CheckAnswer, ChargeRead, ApplyRead
<1>g. ASSUME NEW c, CallInv(c), req' = [req EXCEPT ![w] = c] PROVE IInv'
  <2>1. CallMoves(w, c)
    BY <1>g, <1>t, <1>u DEF CallMoves
  <2> QED BY <1>g, <2>1, CallMovesKeeps
<1>f. CASE Finish(w)
  BY <1>f, <1>g, <1>t DEF Finish
<1>1. ASSUME req[w].pc \in Quoting, NEW pc \in Quoting \ {"pay", "mark"}, Goto(w, pc) PROVE IInv'
  <2>1. req' = [req EXCEPT ![w] = [req[w] EXCEPT !.pc = pc]]
    BY <1>1 DEF Goto
  <2> QED BY <1>1, <2>1, <1>g, GotoFits
<1>2. ASSUME NEW row \in OrderRow, WriteBack(w, row) PROVE IInv'
  <2> DEFINE c == [req[w] EXCEPT !.pc = "replace", !.row = row]
  <2>1. CallInv(c)
    BY <1>t, StepNames DEF CallInv, Req, Quoting
  <2>2. req' = [req EXCEPT ![w] = c]
    BY <1>2 DEF WriteBack
  <2> QED BY <2>1, <2>2, <1>g
<1>3. CASE InsertItems(w)
  BY <1>3, <1>1 DEF InsertItems, At, Quoting
<1>4. CASE PendingRead(w)
  <2>1. [order EXCEPT !.status = "extra_payment_pending"] \in OrderRow
    BY <1>t DEF OrderRow, OrderStatuses
  <2> QED BY <1>4, <2>1, <1>2 DEF PendingRead
<1>5. CASE ListRead(w)
  BY <1>5, <1>1 DEF ListRead, At, Quoting
<1>6. CASE CheckAnswer(w)
  BY <1>6, <1>1, <1>f DEF CheckAnswer, Proceed, At, Quoting
<1>7. CASE ChargeRead(w)
  <2>1. CASE Status(w) = "approved"
    <3> DEFINE c == [req[w] EXCEPT !.pc = "pay"]
    <3>1. req[w].quote \in Quotes /\ req[w].quote \in approved
      BY <1>7, <1>t, <2>1 DEF ChargeRead, At, CallInv, Quoting, Status, IInv
    <3>2. CallInv(c)
      BY <3>1, <1>t, StepNames DEF CallInv, Req, Quoting
    <3>3. req' = [req EXCEPT ![w] = c]
      BY <1>7, <2>1 DEF ChargeRead, Proceed, Goto
    <3> QED BY <3>2, <3>3, <1>g
  <2> QED BY <1>7, <2>1, <1>f DEF ChargeRead, Proceed
<1>8. CASE ApplyRead(w)
  <2>1. req[w].quote \in Quotes
    BY <1>8, <1>t DEF ApplyRead, At, CallInv, Quoting
  <2>2. Paid(order, req[w].quote) \in OrderRow
    BY <2>1, <1>t, QuotesAssumption DEF Paid, OrderRow, OrderStatuses
  <2> QED BY <1>8, <2>2, <1>2 DEF ApplyRead
<1> QED BY <1>3, <1>4, <1>5, <1>6, <1>7, <1>8

\* An answer is written: it is none of the statuses a charge leads to.
LEMMA WriteAnswerKeeps ==
    ASSUME IInv, NEW w \in Calls, WriteAnswer(w)
    PROVE  IInv'
<1> DEFINE q == req[w].quote
           to == req[w].to
<1>1. /\ q \in Quotes /\ to \in Answers /\ CallInv(req[w]) /\ req[w].pc \in Quoting
      /\ quote \in [Quotes -> QuoteStatuses] /\ approved \in SUBSET Quotes
  BY DEF WriteAnswer, At, IInv, TypeOK, CallInv, Req, Quoting
<1>2. /\ quote' = [quote EXCEPT ![q] = to]
      /\ approved' = approved \cup (IF to = "approved" THEN {q} ELSE {})
      /\ UNCHANGED <<charged, collected, order, failures, course>>
  BY DEF WriteAnswer
<1>3. Grows
  BY <1>1, <1>2 DEF Grows, QuoteStatuses, IInv, TypeOK
<1>4. PICK c : req' = [req EXCEPT ![w] = c] /\ CallInv(c)'
  <2>1. CASE req[w].thenPay
    <3>1. PICK c : c = [req[w] EXCEPT !.pc = "charge"]
      OBVIOUS
    <3>2. CallInv(c)'
      BY <1>1, <3>1, StepNames DEF CallInv, Req, Quoting
    <3> QED BY <2>1, <3>1, <3>2 DEF WriteAnswer, Proceed, Goto
  <2>2. CASE ~req[w].thenPay
    <3>1. CallInv(Idle)'
      BY IdleFits DEF CallInv, Idle, Quoting
    <3> QED BY <2>2, <3>1 DEF WriteAnswer, Proceed, Finish
  <2> QED BY <2>1, <2>2
<1>5. TypeOK' /\ \A v \in Calls : CallInv(req[v])'
  BY <1>3, <1>4, GrowsKeeps
<1>6. \A p \in Quotes : quote'[p] = "approved" => p \in approved'
  BY <1>1, <1>2 DEF IInv
<1>7. NoChargeUnapproved' /\ PaidIsCharged'
  BY <1>1, <1>2 DEF IInv, NoChargeUnapproved, PaidIsCharged, Answers
<1> QED BY <1>5, <1>6, <1>7 DEF IInv

\* A payment is inserted for an approved quote.
LEMMA InsertPaymentKeeps ==
    ASSUME IInv, NEW w \in Calls, InsertPayment(w)
    PROVE  IInv'
<1> DEFINE q == req[w].quote
<1>0. PICK c : c = [req[w] EXCEPT !.pc = "mark"]
  OBVIOUS
<1>1. /\ q \in Quotes /\ q \in approved /\ CallInv(req[w])
      /\ charged \in [Quotes -> Nat] /\ collected \in Nat /\ Amount[q] \in Nat
  BY QuotesAssumption DEF InsertPayment, At, IInv, TypeOK, CallInv, Quoting
<1>2. /\ charged' = [charged EXCEPT ![q] = @ + 1]
      /\ collected' = collected + Amount[q]
      /\ req' = [req EXCEPT ![w] = c]
      /\ UNCHANGED <<quote, order, failures, approved, course>>
  BY <1>0 DEF InsertPayment, Goto
<1>3. Grows
  BY <1>1, <1>2 DEF Grows, IInv, TypeOK
<1>4. CallInv(c)'
  BY <1>0, <1>1, <1>2, StepNames DEF CallInv, Req, Quoting
<1>5. TypeOK' /\ \A v \in Calls : CallInv(req[v])'
  BY <1>2, <1>3, <1>4, GrowsKeeps
<1>6. NoChargeUnapproved' /\ PaidIsCharged'
  BY <1>1, <1>2 DEF IInv, NoChargeUnapproved, PaidIsCharged
<1> QED BY <1>2, <1>5, <1>6 DEF IInv

\* The quote that was charged is marked as paid.
LEMMA MarkPaidKeeps ==
    ASSUME IInv, NEW w \in Calls, MarkPaid(w)
    PROVE  IInv'
<1> DEFINE q == req[w].quote
<1>0. PICK c : c = [req[w] EXCEPT !.pc = "apply"]
  OBVIOUS
<1>1. /\ q \in Quotes /\ charged[q] > 0 /\ CallInv(req[w])
      /\ quote \in [Quotes -> QuoteStatuses]
  BY DEF MarkPaid, At, IInv, TypeOK, CallInv, Quoting
<1>2. /\ quote' = [quote EXCEPT ![q] = "paid"]
      /\ req' = [req EXCEPT ![w] = c]
      /\ UNCHANGED <<charged, collected, order, failures, approved, course>>
  BY <1>0 DEF MarkPaid, Goto
<1>3. Grows
  BY <1>1, <1>2 DEF Grows, IInv, TypeOK, QuoteStatuses
<1>4. CallInv(c)'
  BY <1>0, <1>1, <1>2, StepNames DEF CallInv, Req, Quoting
<1>5. TypeOK' /\ \A v \in Calls : CallInv(req[v])'
  BY <1>2, <1>3, <1>4, GrowsKeeps
<1>6. NoChargeUnapproved' /\ PaidIsCharged'
  BY <1>1, <1>2 DEF IInv, NoChargeUnapproved, PaidIsCharged
<1> QED BY <1>1, <1>2, <1>5, <1>6 DEF IInv

\* The order's row is read or overwritten, or a statement fails.
LEMMA RowKeeps ==
    ASSUME IInv, NEW w \in Calls, OtherRead(w) \/ Replace(w) \/ Fail(w)
    PROVE  IInv'
<1>t. /\ order \in OrderRow /\ failures \in 0..MaxFailures /\ req[w].row \in OrderRow
      /\ course \in Courses /\ CallInv(Idle)
  BY IdleFits DEF IInv, TypeOK, CallInv, Req
<1>1. CASE OtherRead(w)
  <2>1. PICK s \in OtherStatuses :
          Begin(w, [Idle EXCEPT !.pc = "replace", !.row = [order EXCEPT !.status = s]])
    BY <1>1 DEF OtherRead
  <2> DEFINE c == [Idle EXCEPT !.pc = "replace", !.row = [order EXCEPT !.status = s]]
  <2>2. [order EXCEPT !.status = s] \in OrderRow
    BY <1>t, QuotesAssumption DEF OrderRow
  <2>3. CallInv(c)
    BY <2>2, <1>t, StepNames DEF CallInv, Idle, Req, Quoting
  <2>4. CallMoves(w, c)
    BY <1>1, <2>1, <1>t DEF OtherRead, CallMoves, Begin
  <2> QED BY <2>3, <2>4, CallMovesKeeps
<1>2. CASE Replace(w) \/ Fail(w)
  <2>1. CallMoves(w, Idle)
    BY <1>2, <1>t, QuotesAssumption DEF Replace, Fail, CallMoves, Finish
  <2> QED BY <1>t, <2>1, CallMovesKeeps
<1> QED BY <1>1, <1>2

-----------------------------------------------------------------------------
(* Theorems *)

\* The invariant holds initially.
LEMMA InitInv == Init => IInv
<1> SUFFICES ASSUME Init PROVE IInv
  OBVIOUS
<1>1. CallInv(Idle)
  BY IdleFits
<1>2. TypeOK
  BY <1>1, QuotesAssumption DEF Init, TypeOK, CallInv, QuoteStatuses, Start, OrderRow, OrderStatuses
<1> QED BY <1>1, <1>2 DEF Init, IInv, NoChargeUnapproved, PaidIsCharged

\* Every step keeps the invariant.
LEMMA NextInv == IInv /\ [Next]_vars => IInv'
<1> SUFFICES ASSUME IInv, [Next]_vars PROVE IInv'
  OBVIOUS
<1>1. CASE UNCHANGED vars
  BY <1>1 DEF vars, IInv, TypeOK, NoChargeUnapproved, PaidIsCharged, CallInv
<1>2. ASSUME NEW w \in Calls, NEW q \in Quotes, Arrive(w, q) PROVE IInv'
  BY <1>2, ArriveKeeps
<1>3. ASSUME NEW w \in Calls, Continue(w) PROVE IInv'
  BY <1>3, ReadKeeps, WriteAnswerKeeps, InsertPaymentKeeps, MarkPaidKeeps, RowKeeps DEF Continue
<1>4. ASSUME NEW w \in Calls, OtherRead(w) \/ Fail(w) PROVE IInv'
  BY <1>4, RowKeeps
<1> QED BY <1>1, <1>2, <1>3, <1>4 DEF Next

\* The invariant of quotes and charges holds in every reachable state.
THEOREM Invariance == Spec => []IInv
  BY InitInv, NextInv, PTL DEF Spec

\* Every variable has its type.
THEOREM TypeCorrect == Spec => []TypeOK
<1>1. IInv => TypeOK
  BY DEF IInv
<1> QED BY <1>1, Invariance, PTL

\* Nothing extra is charged before the customer approved it, for any number of
\* quotes and of calls that answer and charge at once, failing anywhere.
THEOREM NoChargeUnapprovedHolds == Spec => []NoChargeUnapproved
<1>1. IInv => NoChargeUnapproved
  BY DEF IInv
<1> QED BY <1>1, Invariance, PTL

\* A quote that says it is paid was charged.
THEOREM PaidIsChargedHolds == Spec => []PaidIsCharged
<1>1. IInv => PaidIsCharged
  BY DEF IInv
<1> QED BY <1>1, Invariance, PTL

-----------------------------------------------------------------------------
(* Nothing is billed that was not collected *)

\* What a call in flight has collected and not yet billed.
Due(c) == IF c.pc \in {"mark", "apply"} THEN Amount[c.quote] ELSE 0

\* f sums up what the calls of a set have to bill: a sum stated by how it grows, so
\* that it can be reasoned about for any set of calls.
Totals(f) ==
    /\ f \in [SUBSET Calls -> Nat]
    /\ f[{}] = 0
    /\ \A S \in SUBSET Calls : \A w \in Calls \ S : f[S \cup {w}] = f[S] + Due(req[w])

\* The order bills at most what was collected less what is on its way to be billed; so
\* does every copy of its row about to be written.
Covered(f) ==
    /\ order.extra + f[Calls] <= collected
    /\ \A w \in Calls : At(w, "replace") => req[w].row.extra + f[Calls] <= collected

BillInv == IInv /\ \E f \in [SUBSET Calls -> Nat] : Totals(f) /\ Covered(f)

\* What a call has to bill is an amount.
LEMMA DueIsNat ==
    ASSUME NEW c, c \in Req, c.pc \in Quoting => c.quote \in Quotes
    PROVE  Due(c) \in Nat
  BY QuotesAssumption DEF Due, Quoting

\* When one call changes what it has to bill, the total changes by as much.
LEMMA Retotal ==
    ASSUME IInv, IInv', NEW f, Totals(f), NEW w \in Calls, NEW c, req' = [req EXCEPT ![w] = c]
    PROVE  \E g \in [SUBSET Calls -> Nat] :
             Totals(g)' /\ g[Calls] + Due(req[w]) = f[Calls] + Due(c)
<1> DEFINE g == [S \in SUBSET Calls |-> IF w \in S THEN f[S \ {w}] + Due(c) ELSE f[S]]
<1>1. req \in [Calls -> Req] /\ \A v \in Calls : req'[v] = IF v = w THEN c ELSE req[v]
  BY DEF IInv, TypeOK
<1>2. Due(c) \in Nat /\ \A v \in Calls : Due(req[v]) \in Nat
  <2>1. \A v \in Calls : CallInv(req[v]) /\ CallInv(req[v])'
    BY DEF IInv
  <2>2. c \in Req /\ (c.pc \in Quoting => c.quote \in Quotes)
    BY <1>1, <2>1 DEF CallInv
  <2> QED BY <2>1, <2>2, DueIsNat DEF CallInv
<1>3. \A S \in SUBSET Calls : f[S] \in Nat
  BY DEF Totals
<1>4. g \in [SUBSET Calls -> Nat]
  BY <1>2, <1>3
<1>5. ASSUME NEW S \in SUBSET Calls, NEW v \in Calls \ S
      PROVE  g[S \cup {v}] = g[S] + Due(req'[v])
  <2>1. CASE v = w
    <3>1. (S \cup {w}) \ {w} = S
      BY <2>1
    <3> QED BY <1>1, <2>1, <3>1
  <2>2. CASE v # w /\ w \in S
    <3>1. (S \cup {v}) \ {w} = (S \ {w}) \cup {v} /\ S \ {w} \in SUBSET Calls /\ v \in Calls \ (S \ {w})
      BY <2>2
    <3>2. f[(S \ {w}) \cup {v}] = f[S \ {w}] + Due(req[v])
      BY <3>1 DEF Totals
    <3>3. g[S \cup {v}] = f[S \ {w}] + Due(req[v]) + Due(c) /\ g[S] = f[S \ {w}] + Due(c)
      BY <2>2, <3>1, <3>2
    <3>4. f[S \ {w}] \in Nat /\ Due(req'[v]) = Due(req[v])
      BY <1>1, <1>3, <2>2, <3>1
    <3> QED BY <1>2, <3>3, <3>4
  <2>3. CASE v # w /\ w \notin S
    BY <1>1, <2>3 DEF Totals
  <2> QED BY <2>1, <2>2, <2>3
<1>6. g[Calls] + Due(req[w]) = f[Calls] + Due(c)
  <2>1. Calls \ {w} \in SUBSET Calls /\ w \in Calls \ (Calls \ {w}) /\ (Calls \ {w}) \cup {w} = Calls
    OBVIOUS
  <2>2. f[Calls] = f[Calls \ {w}] + Due(req[w])
    BY <2>1 DEF Totals
  <2>3. g[Calls] = f[Calls \ {w}] + Due(c)
    BY <2>1
  <2> QED BY <1>2, <1>3, <2>1, <2>2, <2>3
<1>7. g[{}] = 0
  BY DEF Totals
<1>8. Totals(g)'
  <2> HIDE DEF g
  <2> QED BY <1>4, <1>5, <1>7 DEF Totals, Due
<1> QED BY <1>4, <1>6, <1>8

\* The order stays covered if a call takes on no more than is collected, and takes up
\* or writes a row that bills no more than the order and what it collected itself.
LEMMA BillKeeps ==
    ASSUME BillInv, IInv', NEW w \in Calls, NEW c, req' = [req EXCEPT ![w] = c],
           collected <= collected', collected + Due(c) <= collected' + Due(req[w]),
           c.pc = "replace" => c.row.extra <= order.extra + Due(req[w]),
           order'.extra = order.extra \/ (At(w, "replace") /\ order'.extra = req[w].row.extra)
    PROVE  BillInv'
<1>1. PICK f \in [SUBSET Calls -> Nat] : Totals(f) /\ Covered(f)
  BY DEF BillInv
<1>2. PICK g \in [SUBSET Calls -> Nat] : Totals(g)' /\ g[Calls] + Due(req[w]) = f[Calls] + Due(c)
  BY <1>1, Retotal DEF BillInv
<1>t. /\ collected \in Nat /\ collected' \in Nat /\ order.extra \in Nat /\ order'.extra \in Nat
      /\ \A v \in Calls : req[v].row.extra \in Nat
      /\ c.row.extra \in Nat
      /\ \A v \in Calls : req'[v] = IF v = w THEN c ELSE req[v]
      /\ Due(c) \in Nat /\ Due(req[w]) \in Nat /\ f[Calls] \in Nat /\ g[Calls] \in Nat
  <2>1. /\ req \in [Calls -> Req] /\ req' \in [Calls -> Req] /\ order \in OrderRow /\ order' \in OrderRow
        /\ collected \in Nat /\ collected' \in Nat
    BY DEF BillInv, IInv, TypeOK
  <2>2. \A v \in Calls : req'[v] = IF v = w THEN c ELSE req[v]
    BY <2>1
  <2>3. c \in Req /\ (c.pc \in Quoting => c.quote \in Quotes)
    <3>1. CallInv(req[w])'
      BY DEF IInv
    <3> QED BY <2>2, <3>1 DEF CallInv
  <2>4. CallInv(req[w])
    BY DEF BillInv, IInv
  <2> QED BY <2>1, <2>2, <2>3, <2>4, DueIsNat DEF CallInv, Req, OrderRow
<1>3. order'.extra + g[Calls] <= collected'
  BY <1>1, <1>2, <1>t DEF Covered
<1>4. ASSUME NEW v \in Calls, At(v, "replace")' PROVE req'[v].row.extra + g[Calls] <= collected'
  <2>1. CASE v = w
    <3>1. c.row.extra <= order.extra + Due(req[w]) /\ Due(c) = 0
      BY <1>4, <1>t, <2>1 DEF At, Due
    <3> QED BY <1>1, <1>2, <1>t, <2>1, <3>1 DEF Covered
  <2>2. CASE v # w
    BY <1>1, <1>2, <1>4, <1>t, <2>2 DEF Covered, At
  <2> QED BY <2>1, <2>2
<1>5. Covered(g)'
  BY <1>3, <1>4 DEF Covered
<1> QED BY <1>2, <1>5 DEF BillInv

\* The steps of the calls one by one.
LEMMA BillNext == BillInv /\ IInv' /\ [Next]_vars => BillInv'
<1> SUFFICES ASSUME BillInv, IInv', [Next]_vars PROVE BillInv'
  OBVIOUS
<1>t. /\ IInv /\ req \in [Calls -> Req] /\ order \in OrderRow /\ order.extra \in Nat /\ collected \in Nat
      /\ \A v \in Calls : CallInv(req[v])
  BY DEF BillInv, IInv, TypeOK, OrderRow
<1>d. \A v \in Calls : req[v] \in Req /\ Due(req[v]) \in Nat
  BY <1>t, DueIsNat DEF CallInv
<1>i. Due(Idle) = 0 /\ Idle.pc = "idle"
  BY DEF Due, Idle
\* A call that reads, checks or ends, and leaves order and payments alone.
<1>k. ASSUME NEW w \in Calls, NEW c, req' = [req EXCEPT ![w] = c], UNCHANGED <<order, collected>>,
             c.pc \notin {"mark", "apply", "replace"}
      PROVE  BillInv'
  <2>1. Due(c) = 0
    BY <1>k DEF Due
  <2>2. order' = order /\ collected <= collected' /\ collected + Due(c) <= collected' + Due(req[w])
    BY <1>k, <1>t, <1>d, <2>1
  <2> QED BY <1>k, <2>2, BillKeeps
<1>g. ASSUME NEW w \in Calls, NEW pc, Goto(w, pc), UNCHANGED <<order, collected>>,
             pc \notin {"mark", "apply", "replace"}
      PROVE  BillInv'
  <2>1. /\ req' = [req EXCEPT ![w] = [req[w] EXCEPT !.pc = pc]]
        /\ [req[w] EXCEPT !.pc = pc].pc = pc
    BY <1>g, <1>d DEF Goto, Req
  <2> QED BY <1>g, <1>k, <2>1
<1>f. ASSUME NEW w \in Calls, Finish(w), UNCHANGED <<order, collected>> PROVE BillInv'
  BY <1>f, <1>k, <1>i DEF Finish
\* A call that takes up the order's row, billing at most what it has collected.
<1>w. ASSUME NEW w \in Calls, NEW row, WriteBack(w, row), UNCHANGED <<order, collected>>,
             row.extra <= order.extra + Due(req[w])
      PROVE  BillInv'
  <2>1. PICK c : c = [req[w] EXCEPT !.pc = "replace", !.row = row]
    OBVIOUS
  <2>2. req' = [req EXCEPT ![w] = c] /\ c.pc = "replace" /\ c.row = row /\ Due(c) = 0
    BY <1>w, <1>d, <2>1 DEF WriteBack, Req, Due
  <2>3. order' = order /\ collected <= collected' /\ collected + Due(c) <= collected' + Due(req[w])
    BY <1>w, <1>t, <1>d, <2>2
  <2> QED BY <1>w, <2>2, <2>3, BillKeeps
<1>1. ASSUME NEW w \in Calls, NEW q \in Quotes, Arrive(w, q) PROVE BillInv'
  <2>1. UNCHANGED <<order, collected>>
    BY <1>1 DEF Arrive, Create, Ask
  <2>2. ASSUME NEW c, Begin(w, c), c.pc \notin {"mark", "apply", "replace"} PROVE BillInv'
    BY <1>k, <2>1, <2>2 DEF Begin
  <2>3. ASSUME NEW to
        PROVE  /\ [Idle EXCEPT !.pc = "items", !.quote = q].pc = "items"
               /\ [Idle EXCEPT !.pc = "check", !.quote = q, !.to = to].pc = "check"
               /\ [Idle EXCEPT !.pc = "charge", !.quote = q].pc = "charge"
               /\ [Idle EXCEPT !.pc = "list", !.quote = q, !.thenPay = TRUE].pc = "list"
    BY DEF Idle
  <2> QED BY <1>1, <2>2, <2>3 DEF Arrive, Create, Ask
<1>2. ASSUME NEW w \in Calls, InsertItems(w) \/ ListRead(w) PROVE BillInv'
  BY <1>2, <1>g DEF InsertItems, ListRead
<1>3. ASSUME NEW w \in Calls, CheckAnswer(w) \/ WriteAnswer(w) \/ ChargeRead(w) PROVE BillInv'
  BY <1>3, <1>g, <1>f DEF CheckAnswer, WriteAnswer, ChargeRead, Proceed
<1>4. ASSUME NEW w \in Calls, PendingRead(w) PROVE BillInv'
  <2>1. [order EXCEPT !.status = "extra_payment_pending"].extra <= order.extra + Due(req[w])
    BY <1>t, <1>d DEF OrderRow
  <2> QED BY <1>4, <1>w, <2>1 DEF PendingRead
<1>5. ASSUME NEW w \in Calls, ApplyRead(w) PROVE BillInv'
  <2>1. Paid(order, req[w].quote).extra <= order.extra + Due(req[w])
    BY <1>5, <1>t, <1>d DEF ApplyRead, At, Paid, Due
  <2> QED BY <1>5, <1>w, <2>1 DEF ApplyRead
<1>6. ASSUME NEW w \in Calls, InsertPayment(w) PROVE BillInv'
  <2>1. PICK c : c = [req[w] EXCEPT !.pc = "mark"]
    OBVIOUS
  <2>2. req' = [req EXCEPT ![w] = c] /\ c.pc = "mark" /\ c.quote = req[w].quote
    BY <1>6, <1>d, <2>1 DEF InsertPayment, Goto, Req
  <2>3. Due(c) = Amount[req[w].quote] /\ Amount[req[w].quote] \in Nat
    BY <1>6, <1>t, <2>2, QuotesAssumption DEF Due, InsertPayment, At, CallInv, Quoting
  <2>4. collected' = collected + Amount[req[w].quote] /\ order' = order
    BY <1>6 DEF InsertPayment
  <2>5. collected <= collected' /\ collected + Due(c) <= collected' + Due(req[w])
    BY <1>t, <1>d, <2>3, <2>4
  <2> QED BY <2>2, <2>4, <2>5, BillKeeps
<1>7. ASSUME NEW w \in Calls, MarkPaid(w) PROVE BillInv'
  <2>1. PICK c : c = [req[w] EXCEPT !.pc = "apply"]
    OBVIOUS
  <2>2. req' = [req EXCEPT ![w] = c] /\ c.pc = "apply" /\ Due(c) = Due(req[w])
    BY <1>7, <1>d, <2>1 DEF MarkPaid, At, Goto, Req, Due
  <2>3. collected' = collected /\ order' = order
    BY <1>7 DEF MarkPaid
  <2>4. collected <= collected' /\ collected + Due(c) <= collected' + Due(req[w])
    BY <1>t, <1>d, <2>2, <2>3
  <2> QED BY <2>2, <2>3, <2>4, BillKeeps
<1>8. ASSUME NEW w \in Calls, OtherRead(w) PROVE BillInv'
  <2>1. PICK s \in OtherStatuses :
          Begin(w, [Idle EXCEPT !.pc = "replace", !.row = [order EXCEPT !.status = s]])
    BY <1>8 DEF OtherRead
  <2>2. PICK c : c = [Idle EXCEPT !.pc = "replace", !.row = [order EXCEPT !.status = s]]
    OBVIOUS
  <2>3. req' = [req EXCEPT ![w] = c] /\ c.pc = "replace" /\ c.row.extra = order.extra /\ Due(c) = 0
    BY <1>t, <2>1, <2>2 DEF Begin, Idle, Due, OrderRow
  <2>4. collected' = collected /\ order' = order
    BY <1>8 DEF OtherRead
  <2>5. /\ collected <= collected' /\ collected + Due(c) <= collected' + Due(req[w])
        /\ c.row.extra <= order.extra + Due(req[w])
    BY <1>t, <1>d, <2>3, <2>4
  <2> QED BY <2>3, <2>4, <2>5, BillKeeps
<1>9. ASSUME NEW w \in Calls, Replace(w) PROVE BillInv'
  <2>1. /\ At(w, "replace") /\ order' = req[w].row /\ collected' = collected
        /\ req' = [req EXCEPT ![w] = Idle]
    BY <1>9 DEF Replace, Finish
  <2>2. collected <= collected' /\ collected + Due(Idle) <= collected' + Due(req[w]) /\ Idle.pc # "replace"
    BY <1>t, <1>d, <1>i, <2>1
  <2> QED BY <2>1, <2>2, BillKeeps
<1>10. ASSUME NEW w \in Calls, Fail(w) PROVE BillInv'
  BY <1>10, <1>f DEF Fail
<1>11. CASE UNCHANGED vars
  BY <1>11 DEF vars, BillInv, Totals, Covered, At
<1> QED BY <1>1, <1>2, <1>3, <1>4, <1>5, <1>6, <1>7, <1>8, <1>9, <1>10, <1>11 DEF Next, Continue

\* What was collected covers what the order bills and what calls have still to bill.
THEOREM BillCorrect == Spec => []BillInv
<1>1. Init => BillInv
  <2> SUFFICES ASSUME Init PROVE BillInv
    OBVIOUS
  <2> DEFINE f == [S \in SUBSET Calls |-> 0]
  <2>1. \A w \in Calls : Due(req[w]) = 0 /\ ~At(w, "replace")
    BY DEF Init, Due, Idle, At
  <2>2. f \in [SUBSET Calls -> Nat] /\ Totals(f) /\ Covered(f)
    BY <2>1 DEF Totals, Covered, Init, Start
  <2> QED BY <2>2, InitInv DEF BillInv
<1> QED BY <1>1, BillNext, Invariance, PTL DEF Spec

\* The order never bills more extra than was collected, although its row is overwritten
\* from snapshots and a charge may end after any of its statements.
THEOREM BillsOnlyCollectedHolds == Spec => []BillsOnlyCollected
<1>1. BillInv => BillsOnlyCollected
  <2> SUFFICES ASSUME BillInv PROVE BillsOnlyCollected
    OBVIOUS
  <2>1. PICK f \in [SUBSET Calls -> Nat] : Covered(f)
    BY DEF BillInv
  <2>2. order.extra \in Nat /\ collected \in Nat /\ f[Calls] \in Nat
    BY DEF BillInv, IInv, TypeOK, OrderRow
  <2> QED BY <2>1, <2>2 DEF Covered, BillsOnlyCollected
<1> QED BY <1>1, BillCorrect, PTL

\* The handlers implement the abstract billing: a call that answers agrees for its
\* quote, one that inserts a payment charges it, and whoever replaces the row writes
\* a bill that the books cover, however old the row is.
THEOREM BillingRefinement == Spec => BillingSpec
<1> DEFINE bill == order.extra
<1>1. Init => Billing!Init
  BY DEF Init, Billing!Init, Start
<1>2. BillInv => IInv /\ BillsOnlyCollected
  <2> SUFFICES ASSUME BillInv PROVE IInv /\ BillsOnlyCollected
    OBVIOUS
  <2>1. PICK f \in [SUBSET Calls -> Nat] : Covered(f)
    BY DEF BillInv
  <2>2. IInv /\ order.extra \in Nat /\ collected \in Nat /\ f[Calls] \in Nat
    BY DEF BillInv, IInv, TypeOK, OrderRow
  <2> QED BY <2>1, <2>2 DEF Covered, BillsOnlyCollected
<1>3. ASSUME IInv, BillsOnlyCollected', IInv', [Next]_vars
      PROVE  [Billing!Next]_<<approved, charged, collected, bill>>
  <2> USE DEF Billing!Next
  <2>t. order'.extra \in Nat /\ collected' \in Nat
    BY <1>3 DEF IInv, TypeOK, OrderRow
  <2>1. CASE \E w \in Calls : WriteAnswer(w)
    <3>1. PICK w \in Calls : WriteAnswer(w)
      BY <2>1
    <3>2. req[w].quote \in Quotes
      BY <1>3, <3>1 DEF IInv, CallInv, WriteAnswer, At, Quoting
    <3>3. CASE req[w].to = "approved"
      <4>1. Billing!Agree(req[w].quote)
        BY <3>1, <3>3 DEF WriteAnswer, Billing!Agree
      <4> QED BY <3>2, <4>1
    <3>4. CASE req[w].to # "approved"
      <4>1. UNCHANGED <<approved, charged, collected, bill>>
        BY <3>1, <3>4 DEF WriteAnswer
      <4> QED BY <4>1
    <3> QED BY <3>3, <3>4
  <2>2. CASE \E w \in Calls : InsertPayment(w)
    <3>1. PICK w \in Calls : InsertPayment(w)
      BY <2>2
    <3>2. req[w].quote \in Quotes /\ req[w].quote \in approved
      BY <1>3, <3>1 DEF IInv, CallInv, InsertPayment, At, Quoting
    <3>3. Billing!Charge(req[w].quote)
      BY <3>1, <3>2 DEF InsertPayment, Billing!Charge
    <3> QED BY <3>2, <3>3
  <2>3. CASE \E w \in Calls : Replace(w)
    <3>1. UNCHANGED <<approved, charged, collected>>
      BY <2>3 DEF Replace
    <3>2. order'.extra \in 0..collected
      BY <1>3, <2>t, <3>1 DEF BillsOnlyCollected
    <3>3. Billing!Rebill
      BY <3>1, <3>2 DEF Billing!Rebill
    <3> QED BY <3>3
  <2>4. CASE ~ \E w \in Calls : WriteAnswer(w) \/ InsertPayment(w) \/ Replace(w)
    <3>1. UNCHANGED <<approved, charged, collected, order>>
      BY <1>3, <2>4 DEF Next, vars, Arrive, Create, Ask, OtherRead, Continue, Fail,
         InsertItems, PendingRead, ListRead, CheckAnswer, ChargeRead, MarkPaid, ApplyRead
    <3> QED BY <3>1
  <2> QED BY <2>1, <2>2, <2>3, <2>4
<1> QED BY <1>1, <1>2, <1>3, BillCorrect, PTL DEF Spec, BillingSpec, Billing!Spec

-----------------------------------------------------------------------------
(* While calls come one after the other *)

\* The call in flight knows the status of its quote, and is all that stands between
\* what was collected and what the order bills.
InOrder(c) ==
    /\ c.pc = "answer" => MayAnswer(quote[c.quote], c.to)
    /\ c.pc \in {"pay", "mark"} => quote[c.quote] = "approved"
    /\ c.pc \in {"mark", "apply"} => order.extra + Amount[c.quote] = collected
    /\ c.pc = "replace" => c.row.extra = collected
    /\ c.pc \in Quoting \ {"mark", "apply"} => order.extra = collected

SerialInv ==
    /\ IInv
    /\ course = "serial" =>
         /\ \A v, w \in InFlight : v = w
         /\ \A w \in Calls : InOrder(req[w])
    /\ BillsAllCollected

\* As long as the course is serial, whoever moves is the only one in flight, and was not
\* ended by a failure; before a call arrives all is billed.
LEMMA OthersAreIdle ==
    ASSUME SerialInv, NEW w \in Calls, course' = "serial",
           (\E q \in Quotes : Arrive(w, q)) \/ OtherRead(w) \/ Continue(w) \/ Fail(w)
    PROVE  /\ course = "serial" /\ ~Fail(w)
           /\ \A v \in Calls \ {w} : At(v, "idle") /\ req'[v] = req[v]
           /\ At(w, "idle") => order.extra = collected
<1>t. req \in [Calls -> Req]
  BY DEF SerialInv, IInv, TypeOK
<1>1. ASSUME NEW c, Begin(w, c)
      PROVE  course = "serial" /\ (\A v \in Calls \ {w} : At(v, "idle") /\ req'[v] = req[v]) /\ InFlight = {}
  <2>1. InFlight = {} /\ course = "serial"
    BY <1>1 DEF Begin
  <2>2. \A v \in Calls \ {w} : req'[v] = req[v]
    BY <1>1, <1>t DEF Begin
  <2> QED BY <2>1, <2>2 DEF InFlight
<1>2. CASE (\E q \in Quotes : Arrive(w, q)) \/ OtherRead(w)
  <2>1. PICK c : Begin(w, c)
    BY <1>2 DEF Arrive, Create, Ask, OtherRead
  <2>2. At(w, "idle") /\ ~Fail(w)
    BY <2>1 DEF Begin, Fail
  <2> QED BY <1>1, <2>1, <2>2 DEF SerialInv, BillsAllCollected
<1>3. CASE Continue(w)
  <2>1. ~At(w, "idle") /\ course' = course
    BY <1>3 DEF Continue, InsertItems, PendingRead, ListRead, CheckAnswer, WriteAnswer, ChargeRead,
                InsertPayment, MarkPaid, ApplyRead, Replace, At
  <2>2. \A v \in Calls \ {w} : req'[v] = req[v]
    BY <1>3, <1>t DEF Continue, InsertItems, PendingRead, ListRead, CheckAnswer, WriteAnswer, ChargeRead,
                InsertPayment, MarkPaid, ApplyRead, Replace, Goto, Finish, Proceed, WriteBack
  <2>3. ~Fail(w)
    BY DEF Fail
  <2> QED BY <2>1, <2>2, <2>3 DEF SerialInv, InFlight
<1>4. ~Fail(w)
  BY DEF Fail
<1> QED BY <1>2, <1>3, <1>4

\* What the call knows after its step; nothing is left to bill when it ends.
LEMMA InOrderKeeps ==
    ASSUME IInv, NEW w \in Calls, InOrder(req[w]), At(w, "idle") => order.extra = collected,
           (\E q \in Quotes : Arrive(w, q)) \/ OtherRead(w) \/ Continue(w)
    PROVE  InOrder(req[w])' /\ (At(w, "idle")' => order'.extra = collected')
<1>t. /\ req \in [Calls -> Req] /\ req[w] \in Req /\ order \in OrderRow /\ order.extra \in Nat /\ collected \in Nat
      /\ quote \in [Quotes -> QuoteStatuses]
      /\ req[w].pc \in Quoting => req[w].quote \in Quotes /\ Amount[req[w].quote] \in Nat
  BY QuotesAssumption DEF IInv, TypeOK, CallInv, OrderRow
<1>f. ASSUME Finish(w), order'.extra = collected'
      PROVE  InOrder(req[w])' /\ (At(w, "idle")' => order'.extra = collected')
  <2>1. req'[w].pc = "idle"
    BY <1>f, <1>t DEF Finish, Idle
  <2> QED BY <1>f, <2>1 DEF InOrder, Quoting
\* A step that leaves what is billed and collected alone and needs no status.
<1>q. ASSUME req'[w].pc \in {"items", "pending", "list", "check", "charge"}, order'.extra = collected'
      PROVE  InOrder(req[w])' /\ (At(w, "idle")' => order'.extra = collected')
  BY <1>q DEF InOrder, At
<1>g. ASSUME NEW pc, Goto(w, pc) PROVE req'[w].pc = pc /\ req'[w].quote = req[w].quote /\ req'[w].to = req[w].to
  BY <1>g, <1>t DEF Goto, Req
<1>b. ASSUME NEW row, WriteBack(w, row), row.extra = collected, collected' = collected
      PROVE  InOrder(req[w])' /\ (At(w, "idle")' => order'.extra = collected')
  <2>1. req'[w].pc = "replace" /\ req'[w].row = row
    BY <1>b, <1>t DEF WriteBack, Req
  <2> QED BY <1>b, <2>1 DEF InOrder, At, Quoting
<1>1. ASSUME NEW q \in Quotes, Arrive(w, q)
      PROVE  InOrder(req[w])' /\ (At(w, "idle")' => order'.extra = collected')
  <2>1. At(w, "idle") /\ UNCHANGED <<order, collected>>
    BY <1>1 DEF Arrive, Create, Ask, Begin
  <2>2. ASSUME NEW to, NEW c \in {[Idle EXCEPT !.pc = "items", !.quote = q],
                                  [Idle EXCEPT !.pc = "check", !.quote = q, !.to = to],
                                  [Idle EXCEPT !.pc = "charge", !.quote = q],
                                  [Idle EXCEPT !.pc = "list", !.quote = q, !.thenPay = TRUE]}, Begin(w, c)
        PROVE  InOrder(req[w])' /\ (At(w, "idle")' => order'.extra = collected')
    <3>1. req'[w].pc \in {"items", "check", "charge", "list"}
      BY <1>t, <2>2 DEF Begin, Idle
    <3> QED BY <1>q, <2>1, <3>1
  <2>3. PICK to, c : Begin(w, c) /\ c \in {[Idle EXCEPT !.pc = "items", !.quote = q],
                                          [Idle EXCEPT !.pc = "check", !.quote = q, !.to = to],
                                          [Idle EXCEPT !.pc = "charge", !.quote = q],
                                          [Idle EXCEPT !.pc = "list", !.quote = q, !.thenPay = TRUE]}
    BY <1>1 DEF Arrive, Create, Ask
  <2> QED BY <2>2, <2>3
<1>2. CASE InsertItems(w)
  BY <1>2, <1>t, <1>g, <1>q DEF InsertItems, At, InOrder, Quoting
<1>3. CASE PendingRead(w)
  <2>1. [order EXCEPT !.status = "extra_payment_pending"].extra = collected
    BY <1>3, <1>t DEF PendingRead, At, InOrder, Quoting, OrderRow
  <2> QED BY <1>3, <1>b, <2>1 DEF PendingRead
<1>4. CASE ListRead(w)
  <2>1. order'.extra = collected' /\ req'[w].pc \in {"check", "charge"}
    BY <1>4, <1>g DEF ListRead, At, InOrder, Quoting
  <2> QED BY <1>q, <2>1
<1>5. CASE CheckAnswer(w)
  <2>1. order'.extra = collected' /\ quote' = quote
    BY <1>5 DEF CheckAnswer, At, InOrder, Quoting
  <2>2. CASE Goto(w, "answer") /\ MayAnswer(Status(w), req[w].to)
    BY <1>g, <2>1, <2>2 DEF InOrder, At, Status, MayAnswer
  <2> QED BY <1>5, <1>f, <2>1, <2>2 DEF CheckAnswer, Proceed
<1>6. CASE WriteAnswer(w)
  <2>1. order'.extra = collected'
    BY <1>6 DEF WriteAnswer, At, InOrder, Quoting
  <2>2. Finish(w) \/ req'[w].pc = "charge"
    BY <1>6, <1>g DEF WriteAnswer, Proceed
  <2> QED BY <1>f, <1>q, <2>1, <2>2
<1>7. CASE ChargeRead(w)
  <2>1. order'.extra = collected' /\ quote' = quote
    BY <1>7 DEF ChargeRead, At, InOrder, Quoting
  <2>2. CASE Goto(w, "pay") /\ Status(w) = "approved"
    BY <1>g, <2>1, <2>2 DEF InOrder, At, Status
  <2> QED BY <1>7, <1>f, <2>1, <2>2 DEF ChargeRead, Proceed
<1>8. CASE InsertPayment(w)
  <2>1. /\ req'[w].pc = "mark" /\ req'[w].quote = req[w].quote /\ quote' = quote /\ order' = order
        /\ collected' = collected + Amount[req[w].quote]
    BY <1>8, <1>g DEF InsertPayment
  <2>2. order.extra = collected /\ quote[req[w].quote] = "approved"
    BY <1>8 DEF InsertPayment, At, InOrder, Quoting
  <2> QED BY <2>1, <2>2 DEF InOrder, At
<1>9. CASE MarkPaid(w)
  <2>1. /\ req'[w].pc = "apply" /\ req'[w].quote = req[w].quote /\ order' = order /\ collected' = collected
    BY <1>9, <1>g DEF MarkPaid
  <2>2. order.extra + Amount[req[w].quote] = collected
    BY <1>9 DEF MarkPaid, At, InOrder
  <2> QED BY <2>1, <2>2 DEF InOrder, At
<1>10. CASE ApplyRead(w)
  <2>1. Paid(order, req[w].quote).extra = collected
    BY <1>10, <1>t DEF ApplyRead, At, InOrder, Paid
  <2> QED BY <1>10, <1>b, <2>1 DEF ApplyRead
<1>11. CASE Replace(w)
  <2>1. order'.extra = collected'
    BY <1>11 DEF Replace, At, InOrder
  <2> QED BY <1>11, <1>f, <2>1 DEF Replace
<1>12. CASE OtherRead(w)
  <2>1. PICK s \in OtherStatuses :
          Begin(w, [Idle EXCEPT !.pc = "replace", !.row = [order EXCEPT !.status = s]])
    BY <1>12 DEF OtherRead
  <2>2. req'[w].pc = "replace" /\ req'[w].row.extra = order.extra /\ At(w, "idle")
    BY <1>t, <2>1 DEF Begin, Idle, OrderRow
  <2>3. collected' = collected
    BY <1>12 DEF OtherRead
  <2> QED BY <2>2, <2>3 DEF InOrder, At, Quoting
<1> QED BY <1>1, <1>2, <1>3, <1>4, <1>5, <1>6, <1>7, <1>8, <1>9, <1>10, <1>11, <1>12 DEF Continue

\* While calls come one after the other and nothing fails, what was collected is what the
\* order bills, but for the charge in flight.
THEOREM SerialCorrect == Spec => []SerialInv
<1>1. Init => SerialInv
  BY InitInv DEF Init, SerialInv, BillsAllCollected, InFlight, At, Idle, InOrder, Quoting, Start
<1>2. SerialInv /\ IInv' /\ [Next]_vars => SerialInv'
  <2> SUFFICES ASSUME SerialInv, IInv', [Next]_vars, course' = "serial"
               PROVE  /\ (\A v, w \in InFlight : v = w)' /\ \A v \in Calls : InOrder(req[v])'
                      /\ InFlight' = {} => order'.extra = collected'
    BY DEF SerialInv, BillsAllCollected
  <2>1. ASSUME NEW w \in Calls, (\E q \in Quotes : Arrive(w, q)) \/ OtherRead(w) \/ Continue(w) \/ Fail(w)
        PROVE  /\ (\A v, u \in InFlight : v = u)' /\ \A v \in Calls : InOrder(req[v])'
               /\ InFlight' = {} => order'.extra = collected'
    <3>1. /\ course = "serial" /\ ~Fail(w)
          /\ \A v \in Calls \ {w} : At(v, "idle") /\ req'[v] = req[v]
          /\ At(w, "idle") => order.extra = collected
      BY <2>1, OthersAreIdle
    <3>2. InOrder(req[w])' /\ (At(w, "idle")' => order'.extra = collected')
      BY <2>1, <3>1, InOrderKeeps DEF SerialInv
    <3>3. \A v \in Calls \ {w} : At(v, "idle")'
      BY <3>1 DEF At
    <3>4. \A v \in Calls \ {w} : InOrder(req[v])'
      BY <3>3 DEF At, InOrder, Quoting
    <3> QED BY <3>2, <3>3, <3>4 DEF InFlight
  <2>2. CASE UNCHANGED vars
    BY <2>2 DEF vars, SerialInv, BillsAllCollected, InFlight, At, InOrder
  <2> QED BY <2>1, <2>2 DEF Next
<1> QED BY <1>1, <1>2, Invariance, PTL DEF Spec

\* Once a call is over, the order bills all that was collected, whatever answers, charges
\* and other changes of the row came before, one after the other.
THEOREM BillsAllCollectedHolds == Spec => []BillsAllCollected
<1>1. SerialInv => BillsAllCollected
  BY DEF SerialInv
<1> QED BY <1>1, SerialCorrect, PTL

\* A quote that was paid, rejected or cancelled keeps its status as long as calls come
\* one after the other.
THEOREM ClosedStaysClosedHolds == Spec => ClosedStaysClosed
<1>1. SerialInv /\ [Next]_vars =>
        [\A q \in Quotes : course = "serial" /\ quote[q] \in {"paid", "rejected", "cancelled"} =>
           quote'[q] = quote[q]]_vars
  <2> SUFFICES ASSUME SerialInv, Next, NEW q \in Quotes, course = "serial",
                      quote[q] \in {"paid", "rejected", "cancelled"}
               PROVE  quote'[q] = quote[q]
    BY DEF SerialInv
  <2>t. quote \in [Quotes -> QuoteStatuses] /\ \A w \in Calls : InOrder(req[w])
    BY DEF SerialInv, IInv, TypeOK
  <2>1. ASSUME NEW w \in Calls, NEW p \in Quotes, Create(w, p) PROVE quote'[q] = quote[q]
    BY <2>1, <2>t DEF Create
  <2>2. ASSUME NEW w \in Calls, WriteAnswer(w) PROVE quote'[q] = quote[q]
    <3>1. MayAnswer(quote[req[w].quote], req[w].to)
      BY <2>2, <2>t DEF WriteAnswer, At, InOrder
    <3>2. req[w].quote # q
      BY <3>1 DEF MayAnswer
    <3> QED BY <2>2, <2>t, <3>2 DEF WriteAnswer
  <2>3. ASSUME NEW w \in Calls, MarkPaid(w) PROVE quote'[q] = quote[q]
    <3>1. req[w].quote # q
      BY <2>3, <2>t DEF MarkPaid, At, InOrder
    <3> QED BY <2>3, <2>t, <3>1 DEF MarkPaid
  <2>4. ASSUME NEW w \in Calls, NEW p \in Quotes,
               \/ Ask(w, p) \/ OtherRead(w) \/ Fail(w) \/ InsertItems(w) \/ PendingRead(w) \/ ListRead(w)
               \/ CheckAnswer(w) \/ ChargeRead(w) \/ InsertPayment(w) \/ ApplyRead(w) \/ Replace(w)
        PROVE  quote'[q] = quote[q]
    BY <2>4 DEF Ask, OtherRead, Fail, InsertItems, PendingRead, ListRead, CheckAnswer, ChargeRead,
                InsertPayment, ApplyRead, Replace
  <2> QED BY <2>1, <2>2, <2>3, <2>4 DEF Next, Arrive, Continue
<1> QED BY <1>1, SerialCorrect, PTL DEF Spec, ClosedStaysClosed

=============================================================================
