------------------------- MODULE Settlements_proofs -------------------------
(***************************************************************************)
(* Proofs about Settlements, for any settlements, keys, amounts, calls and *)
(* bounds.                                                                 *)
(***************************************************************************)
EXTENDS Settlements, TLAPS

USE DEF history

-----------------------------------------------------------------------------
(* The inductive invariant *)

\* Every variable but the calls has its type.
Typed ==
    /\ row \in [Settlements -> Row]
    /\ payment \in [Settlements -> {"paid", "cancelled"}]
    /\ bank \in {"pending", "verified"}
    /\ saved \in [Scopes \X Keys -> Settlements \cup {NoSettlement}]
    /\ failures \in 0..MaxFailures
    /\ arrived \in 0..MaxConfirmations
    /\ applied \in [Keys \X Settlements -> Nat]
    /\ due \in [Settlements -> Nat]
    /\ course \in {"serial", "overlapping"}

\* A call in flight is about a settlement; one about to store its answer has
\* done what it answers for.
CallInv(c) ==
    /\ c \in Req
    /\ c.pc # "idle" => c.of \in Settlements
    /\ c.pc \in {"lookup", "save"} => c.op \in Scopes
    /\ c.pc = "save" /\ c.op = "settlement_confirm" /\ c.key \in Keys => applied[<<c.key, c.of>>] > 0
    /\ c.pc = "save" /\ c.op = "payment_cancel" => payment[c.of] = "cancelled"

IInv ==
    /\ Typed
    /\ req \in [Calls -> Req]
    /\ AnswersAreTrue
    /\ \A w \in Calls : CallInv(req[w])

\* Confirmations and cancellations are not taken back.
Grows ==
    /\ \A k \in Keys, s \in Settlements : applied[<<k, s>>] > 0 => applied'[<<k, s>>] > 0
    /\ \A s \in Settlements : payment[s] = "cancelled" => payment'[s] = "cancelled"

\* A call that is not in flight fulfils its part of the invariant.
LEMMA IdleFits == CallInv(Idle) /\ Idle \in Req /\ Idle.pc = "idle"
  BY DEF CallInv, Idle, Req, Steps, Ops, Scopes, Statuses

\* A call takes a step and the tables grow.
LEMMA MovesKeeps ==
    ASSUME IInv, Typed', Grows, AnswersAreTrue', NEW w \in Calls, NEW c,
           req' = [req EXCEPT ![w] = c], CallInv(c)'
    PROVE  IInv'
<1>1. req' \in [Calls -> Req]
  BY DEF CallInv, IInv
<1>2. ASSUME NEW v \in Calls PROVE CallInv(req[v])'
  <2>1. req'[v] = c \/ req'[v] = req[v]
    BY DEF IInv
  <2>2. CASE req'[v] = c
    BY <2>2 DEF CallInv
  <2>3. CASE req'[v] = req[v]
    BY <2>3 DEF CallInv, IInv, Grows
  <2> QED BY <2>1, <2>2, <2>3
<1> QED BY <1>1, <1>2 DEF IInv

\* A call takes a step that touches neither answers nor what they stand for.
LEMMA QuietKeeps ==
    ASSUME IInv, Typed', UNCHANGED <<applied, payment, saved>>, NEW w \in Calls, NEW c,
           req' = [req EXCEPT ![w] = c], CallInv(c)
    PROVE  IInv'
<1>1. Grows /\ AnswersAreTrue'
  BY DEF Grows, AnswersAreTrue, IInv
<1>2. CallInv(c)'
  BY DEF CallInv
<1> QED BY <1>1, <1>2, MovesKeeps

\* The fields of a call that are written.
LEMMA ReqFields ==
    ASSUME NEW c \in Req
    PROVE  c.payout \in Nat /\ c.adjustment \in Int /\ c.status \in Statuses
<1>1. c.payout \in Nat /\ c.status \in Statuses
  BY DEF Req
<1>2. c.adjustment \in Adjustments \cup {0}
  BY DEF Req
<1>3. Adjustments \cup {0} \subseteq Int
  BY SettlementsAssumption
<1> QED BY <1>1, <1>2, <1>3

\* A payout is never negative.
LEMMA ClampType == \A n \in Int : AtLeastZero(n) \in Nat
  BY DEF AtLeastZero

\* The platform's share is at most the total.
LEMMA PayoutType ==
    ASSUME NEW gross \in GrossAmounts, NEW rate \in FeeRates
    PROVE  Payout(gross, rate) \in Nat
<1>1. PICK p \in 0..100 : p = Percent(rate)
  BY SettlementsAssumption DEF Percent
<1>2. gross \in Nat
  BY SettlementsAssumption
<1>3. gross * p \in Nat /\ gross * p <= gross * 100
  BY <1>1, <1>2
<1>4. PICK n \in Nat : n = gross * p /\ n <= gross * 100
  BY <1>3
<1>5. (2 * n + 100) \div 200 \in Nat /\ (2 * n + 100) \div 200 <= gross
  BY <1>2, <1>4
<1>6. 2 * gross * p = 2 * n
  BY <1>1, <1>2, <1>4
<1>7. PICK m \in Nat : m = Fee(gross, rate) /\ m <= gross
  BY <1>1, <1>5, <1>6 DEF Fee
<1> QED BY <1>2, <1>7 DEF Payout

-----------------------------------------------------------------------------
(* The actions *)

\* A call arrives.
LEMMA ArriveKeeps ==
    ASSUME IInv, NEW w \in Calls, NEW s \in Settlements, Arrive(w, s)
    PROVE  IInv'
<1>b. ASSUME NEW c, Begin(w, c), CallInv(c), arrived' \in 0..MaxConfirmations PROVE IInv'
  <2>1. Typed'
    BY <1>b DEF Begin, IInv, Typed
  <2> QED BY <1>b, <2>1, QuietKeeps DEF Begin
<1>t. arrived \in 0..MaxConfirmations
  BY DEF IInv, Typed
<1>1. CASE Confirm(w, s)
  <2>1. ASSUME NEW k \in Keys \cup {NoKey}, NEW a \in Adjustments
        PROVE  CallInv([Call("settlement_confirm", s, "lookup") EXCEPT !.key = k, !.adjustment = a])
    BY IdleFits DEF CallInv, Call, Req, Idle, Steps, Ops, Scopes
  <2>2. arrived' \in 0..MaxConfirmations
    BY <1>1, <1>t, SettlementsAssumption DEF Confirm
  <2>3. PICK k \in Keys \cup {NoKey}, a \in Adjustments :
          Begin(w, [Call("settlement_confirm", s, "lookup") EXCEPT !.key = k, !.adjustment = a])
    BY <1>1 DEF Confirm
  <2> QED BY <1>b, <2>1, <2>2, <2>3
<1>2. CASE CancelPayment(w, s)
  <2>1. ASSUME NEW k \in Keys \cup {NoKey}
        PROVE  CallInv([Call("payment_cancel", s, "lookup") EXCEPT !.key = k])
    BY IdleFits DEF CallInv, Call, Req, Idle, Steps, Ops, Scopes
  <2> QED BY <1>2, <1>b, <1>t, <2>1 DEF CancelPayment
<1>3. CASE UpdateStatus(w, s)
  <2>1. ASSUME NEW status \in Statuses
        PROVE  CallInv([Call("status", s, "write") EXCEPT !.status = status])
    BY IdleFits DEF CallInv, Call, Req, Idle, Steps, Ops, Scopes
  <2> QED BY <1>3, <1>b, <1>t, <2>1 DEF UpdateStatus
<1>4. CASE RequestPayout(w, s)
  <2>1. CallInv(Call("request", s, "read"))
    BY IdleFits DEF CallInv, Call, Req, Idle, Steps, Ops, Scopes
  <2> QED BY <1>4, <1>b, <1>t, <2>1 DEF RequestPayout
<1>5. CASE Complete(w, s)
  <2>1. ASSUME NEW gross \in GrossAmounts, NEW rate \in FeeRates
        PROVE  CallInv([Call("complete", s, "write") EXCEPT !.payout = Payout(gross, rate)])
    BY IdleFits, PayoutType DEF CallInv, Call, Req, Idle, Steps, Ops, Scopes
  <2> QED BY <1>5, <1>b, <1>t, <2>1 DEF Complete
<1> QED BY <1>1, <1>2, <1>3, <1>4, <1>5 DEF Arrive

\* What is known of the tables and of a call in flight.
LEMMA Knows ==
    ASSUME IInv, NEW w \in Calls, req[w].pc # "idle"
    PROVE  /\ CallInv(req[w]) /\ req[w] \in Req /\ req[w].of \in Settlements
           /\ row \in [Settlements -> Row] /\ due \in [Settlements -> Nat]
           /\ req \in [Calls -> Req]
  BY DEF IInv, Typed, CallInv

\* A call looks up, reads and checks.
LEMMA ReadKeeps ==
    ASSUME IInv, NEW w \in Calls, Read(w)
    PROVE  IInv'
<1>p. req[w].pc \in {"lookup", "read", "bank"}
  BY DEF Read, Lookup, ConfirmRead, CancelRead, RequestRead, RequestBank, At
<1>t. CallInv(req[w]) /\ req[w] \in Req /\ req[w].of \in Settlements /\ row \in [Settlements -> Row]
  BY <1>p, Knows
<1>u. Typed' /\ UNCHANGED <<applied, payment, saved>>
  BY DEF Read, Lookup, ConfirmRead, CancelRead, RequestRead, RequestBank, IInv, Typed
<1>1. CASE req' = [req EXCEPT ![w] = Idle]
  BY <1>1, <1>u, IdleFits, QuietKeeps
<1>2. ASSUME NEW pc \in {"read", "write", "bank"}, req' = [req EXCEPT ![w].pc = pc] PROVE IInv'
  <2>1. PICK c : c = [req[w] EXCEPT !.pc = pc]
    OBVIOUS
  <2>2. CallInv(c)
    BY <1>t, <2>1 DEF CallInv, Req, Steps
  <2> QED BY <1>2, <1>u, <2>1, <2>2, QuietKeeps
<1>3. CASE ConfirmRead(w) /\ Exists(Of(w))
  <2>1. PICK n : n = AtLeastZero(row[Of(w)].payout + req[w].adjustment)
    OBVIOUS
  <2>2. n \in Nat
    <3>1. row[Of(w)].payout \in Nat
      BY <1>t DEF Row, Of
    <3>2. req[w].adjustment \in Int
      BY <1>t, ReqFields
    <3>3. row[Of(w)].payout + req[w].adjustment \in Int
      BY <3>1, <3>2
    <3> QED BY <2>1, <3>3, ClampType
  <2>3. PICK c : c = [req[w] EXCEPT !.pc = "write", !.payout = n]
    OBVIOUS
  <2>4. CallInv(c)
    BY <1>t, <2>2, <2>3 DEF CallInv, Req, Steps
  <2>5. req' = [req EXCEPT ![w] = c]
    BY <1>3, <2>1, <2>3 DEF ConfirmRead
  <2> QED BY <1>u, <2>4, <2>5, QuietKeeps
<1> QED BY <1>1, <1>2, <1>3 DEF Read, Lookup, ConfirmRead, CancelRead, RequestRead, RequestBank, Goto, Finish

\* A call writes.
LEMMA WriteKeeps ==
    ASSUME IInv, NEW w \in Calls, Write(w)
    PROVE  IInv'
<1>p. req[w].pc \in {"write", "save"}
  BY DEF Write, ConfirmWrite, CancelWrite, StatusWrite, RequestWrite, CompleteWrite, Save, At
<1>t. /\ CallInv(req[w]) /\ req[w] \in Req /\ req[w].of \in Settlements
      /\ row \in [Settlements -> Row] /\ due \in [Settlements -> Nat] /\ req \in [Calls -> Req]
  BY <1>p, Knows
<1>1. CASE ConfirmWrite(w)
  <2>1. PICK c : c = [req[w] EXCEPT !.pc = "save"]
    OBVIOUS
  <2>2. /\ c \in Req /\ c.pc = "save" /\ c.of = req[w].of /\ c.key = req[w].key
        /\ c.op = "settlement_confirm"
    BY <1>1, <1>t, <2>1 DEF Req, Steps, ConfirmWrite, Doing
  <2>3. row' \in [Settlements -> Row]
    <3>1. PICK e : e = [row[req[w].of] EXCEPT !.payout = req[w].payout, !.status = "confirmed"]
      OBVIOUS
    <3>2. req[w].payout \in Nat /\ row[req[w].of] \in Row
      BY <1>t, ReqFields
    <3>3. e \in Row
      BY <3>1, <3>2 DEF Row, Statuses
    <3>4. row' = [row EXCEPT ![req[w].of] = e]
      BY <1>1, <1>t, <3>1 DEF ConfirmWrite, Of, Row
    <3> QED BY <1>t, <3>3, <3>4
  <2>4. due' \in [Settlements -> Nat]
    <3>1. req[w].adjustment \in Int
      BY <1>t, ReqFields
    <3>2. PICK n : n = AtLeastZero(due[req[w].of] + req[w].adjustment)
      OBVIOUS
    <3>3. n \in Nat
      <4>1. due[req[w].of] + req[w].adjustment \in Int
        BY <1>t, <3>1
      <4> QED BY <3>2, <4>1, ClampType
    <3>4. due' = [due EXCEPT ![req[w].of] = n]
      BY <1>1, <3>2 DEF ConfirmWrite, Of
    <3> QED BY <1>t, <3>3, <3>4
  <2>5. \A a \in Keys \X Settlements :
          applied'[a] = IF a = <<req[w].key, req[w].of>> THEN applied[a] + 1 ELSE applied[a]
    BY <1>1 DEF ConfirmWrite, Key, Of
  <2>6. applied' \in [Keys \X Settlements -> Nat]
    BY <1>1 DEF ConfirmWrite, IInv, Typed
  <2>7. Typed'
    BY <1>1, <2>3, <2>4, <2>6 DEF ConfirmWrite, IInv, Typed
  <2>8. Grows /\ AnswersAreTrue'
    BY <1>1, <2>5 DEF ConfirmWrite, Grows, AnswersAreTrue, IInv, Typed
  <2>9. CallInv(c)'
    BY <1>t, <2>2, <2>5 DEF CallInv, Scopes, IInv, Typed
  <2> QED BY <1>1, <2>1, <2>7, <2>8, <2>9, MovesKeeps DEF ConfirmWrite, Goto
<1>2. CASE CancelWrite(w)
  <2>1. PICK c : c = [req[w] EXCEPT !.pc = "save"]
    OBVIOUS
  <2>2. c \in Req /\ c.pc = "save" /\ c.of = req[w].of /\ c.op = "payment_cancel"
    BY <1>2, <1>t, <2>1 DEF Req, Steps, CancelWrite, Doing
  <2>3. Typed'
    BY <1>2 DEF CancelWrite, IInv, Typed
  <2>4. Grows /\ AnswersAreTrue' /\ payment'[req[w].of] = "cancelled"
    BY <1>2, <1>t DEF CancelWrite, Grows, AnswersAreTrue, IInv, Typed, Of
  <2>5. CallInv(c)'
    BY <1>t, <2>2, <2>4 DEF CallInv, Scopes
  <2> QED BY <1>2, <2>1, <2>3, <2>4, <2>5, MovesKeeps DEF CancelWrite, Goto
<1>3. CASE StatusWrite(w) \/ RequestWrite(w) \/ CompleteWrite(w)
  <2>1. row' \in [Settlements -> Row] /\ due' \in [Settlements -> Nat]
    <3>1. CASE StatusWrite(w)
      BY <1>t, <3>1 DEF StatusWrite, Row, Req, Statuses, Dates, Of, Exists
    <3>2. CASE RequestWrite(w)
      BY <1>t, <3>2 DEF RequestWrite, Row, Statuses, Dates, Of
    <3>3. CASE CompleteWrite(w)
      BY <1>t, <3>3 DEF CompleteWrite, Row, Req, Statuses, Dates, Of
    <3> QED BY <1>3, <3>1, <3>2, <3>3
  <2>2. Typed'
    BY <1>3, <2>1 DEF StatusWrite, RequestWrite, CompleteWrite, IInv, Typed
  <2> QED BY <1>3, <2>2, IdleFits, QuietKeeps DEF StatusWrite, RequestWrite, CompleteWrite, Finish
<1>4. CASE Save(w)
  <2>1. req[w].op \in Scopes /\ req[w].of # NoSettlement
    BY <1>4, <1>t, SettlementsAssumption DEF Save, At, CallInv
  <2>2. saved' \in [Scopes \X Keys -> Settlements \cup {NoSettlement}]
    BY <1>4, <1>t, <2>1 DEF Save, Of, Key, IInv, Typed
  <2>3. Typed' /\ Grows
    BY <1>4, <2>2 DEF Save, IInv, Typed, Grows
  <2>4. ASSUME NEW a \in Scopes \X Keys
        PROVE  saved'[a] = IF a = <<req[w].op, req[w].key>> THEN req[w].of ELSE saved[a]
    BY <1>4, <2>1 DEF Save, Of, Key, IInv, Typed
  <2>5. AnswersAreTrue'
    <3>1. ASSUME NEW k \in Keys, NEW s \in Settlements, saved'[<<"settlement_confirm", k>>] = s
          PROVE  applied[<<k, s>>] > 0
      <4>1. <<"settlement_confirm", k>> \in Scopes \X Keys
        BY DEF Scopes
      <4>2. CASE req[w].op = "settlement_confirm" /\ req[w].key = k
        BY <1>4, <1>t, <2>4, <3>1, <4>1, <4>2 DEF Save, At, CallInv
      <4>3. CASE ~(req[w].op = "settlement_confirm" /\ req[w].key = k)
        BY <2>4, <3>1, <4>1, <4>3 DEF IInv, AnswersAreTrue
      <4> QED BY <4>2, <4>3
    <3>2. ASSUME NEW k \in Keys, NEW s \in Settlements, saved'[<<"payment_cancel", k>>] = s
          PROVE  payment[s] = "cancelled"
      <4>1. <<"payment_cancel", k>> \in Scopes \X Keys
        BY DEF Scopes
      <4>2. CASE req[w].op = "payment_cancel" /\ req[w].key = k
        BY <1>4, <1>t, <2>4, <3>2, <4>1, <4>2 DEF Save, At, CallInv
      <4>3. CASE ~(req[w].op = "payment_cancel" /\ req[w].key = k)
        BY <2>4, <3>2, <4>1, <4>3 DEF IInv, AnswersAreTrue
      <4> QED BY <4>2, <4>3
    <3>3. UNCHANGED <<applied, payment>>
      BY <1>4 DEF Save
    <3> QED BY <3>1, <3>2, <3>3 DEF AnswersAreTrue
  <2>6. PICK c : c = Idle
    OBVIOUS
  <2>7. CallInv(c)' /\ req' = [req EXCEPT ![w] = c]
    BY <1>4, <2>6, IdleFits DEF Save, Finish, CallInv
  <2> QED BY <2>3, <2>5, <2>7, MovesKeeps
<1> QED BY <1>1, <1>2, <1>3, <1>4 DEF Write

\* The invariant holds initially.
LEMMA InitInv == Init => IInv
<1> SUFFICES ASSUME Init PROVE IInv
  OBVIOUS
<1>1. Typed /\ req \in [Calls -> Req]
  BY IdleFits, SettlementsAssumption DEF Init, Typed, Row, Dates
<1>2. AnswersAreTrue
  BY SettlementsAssumption DEF Init, AnswersAreTrue, Scopes
<1>3. ASSUME NEW w \in Calls PROVE CallInv(req[w])
  BY IdleFits DEF Init
<1> QED BY <1>1, <1>2, <1>3 DEF IInv

\* The invariant holds in every reachable state.
THEOREM Invariance == Spec => []IInv
<1>1. IInv /\ [Next]_vars => IInv'
  <2> SUFFICES ASSUME IInv, [Next]_vars PROVE IInv'
    OBVIOUS
  <2>1. CASE UNCHANGED vars
    BY <2>1 DEF vars, IInv, Typed, AnswersAreTrue, CallInv
  <2>2. ASSUME NEW w \in Calls, NEW s \in Settlements, Arrive(w, s) PROVE IInv'
    BY <2>2, ArriveKeeps
  <2>3. ASSUME NEW w \in Calls, Read(w) \/ Write(w) PROVE IInv'
    BY <2>3, ReadKeeps, WriteKeeps
  <2>4. ASSUME NEW w \in Calls, Fail(w) PROVE IInv'
    <3>1. Typed'
      BY <2>4, SettlementsAssumption DEF Fail, IInv, Typed
    <3> QED BY <2>4, <3>1, IdleFits, QuietKeeps DEF Fail, Finish
  <2>5. CASE VerifyBank
    BY <2>5 DEF VerifyBank, IInv, Typed, AnswersAreTrue, CallInv
  <2> QED BY <2>1, <2>2, <2>3, <2>4, <2>5 DEF Next
<1> QED BY InitInv, <1>1, PTL DEF Spec

\* Every variable has its type.
THEOREM TypeCorrect == Spec => []TypeOK
<1>1. IInv => TypeOK
  BY DEF IInv, Typed, TypeOK
<1> QED BY <1>1, Invariance, PTL

\* An answer that is stored was earned.
THEOREM AnswersAreTrueHolds == Spec => []AnswersAreTrue
<1>1. IInv => AnswersAreTrue
  BY DEF IInv
<1> QED BY <1>1, Invariance, PTL

\* Once the answer for a key is stored and whoever looked before has finished,
\* the key confirms nothing any more.
THEOREM AnsweredIsFinalHolds == Spec => AnsweredIsFinal
<1> DEFINE Final(k) == Answered(k) => /\ Answered(k)'
                                      /\ \A s \in Settlements : applied'[<<k, s>>] = applied[<<k, s>>]
<1>1. ASSUME IInv, [Next]_vars, NEW k \in Keys, Answered(k)
      PROVE  Answered(k)' /\ \A s \in Settlements : applied'[<<k, s>>] = applied[<<k, s>>]
  <2>k. <<"settlement_confirm", k>> \in Scopes \X Keys
    BY DEF Scopes
  <2>b. ASSUME UNCHANGED <<saved, applied>>, NEW w \in Calls, NEW c, req' = [req EXCEPT ![w] = c],
               c.op = "settlement_confirm" /\ c.key = k => c.pc \in {"idle", "lookup"}
        PROVE  Answered(k)' /\ \A s \in Settlements : applied'[<<k, s>>] = applied[<<k, s>>]
    BY <1>1, <2>b DEF Answered, Doing, Key, IInv
  <2>i. ASSUME UNCHANGED <<saved, applied>>, NEW w \in Calls, req' = [req EXCEPT ![w] = Idle]
        PROVE  Answered(k)' /\ \A s \in Settlements : applied'[<<k, s>>] = applied[<<k, s>>]
    BY <2>b, <2>i, IdleFits
  <2>s. ASSUME UNCHANGED <<saved, applied>>, NEW w \in Calls, NEW pc, req' = [req EXCEPT ![w].pc = pc],
               ~(req[w].op = "settlement_confirm" /\ req[w].key = k)
        PROVE  Answered(k)' /\ \A s \in Settlements : applied'[<<k, s>>] = applied[<<k, s>>]
    <3>1. PICK c : c = [req[w] EXCEPT !.pc = pc]
      OBVIOUS
    <3>2. c.op = req[w].op /\ c.key = req[w].key
      BY <1>1, <3>1 DEF IInv, Req
    <3> QED BY <2>b, <2>s, <3>1, <3>2
  <2>1. CASE UNCHANGED vars
    BY <1>1, <2>1 DEF vars, Answered, Doing, Key
  <2>2. ASSUME NEW w \in Calls, NEW s \in Settlements, Arrive(w, s)
        PROVE  Answered(k)' /\ \A t \in Settlements : applied'[<<k, t>>] = applied[<<k, t>>]
    <3>b. ASSUME NEW c, Begin(w, c), c.pc = "lookup" \/ c.op # "settlement_confirm"
          PROVE  Answered(k)' /\ \A t \in Settlements : applied'[<<k, t>>] = applied[<<k, t>>]
      BY <2>b, <3>b DEF Begin
    <3>1. CASE Confirm(w, s)
      <4>1. PICK j \in Keys \cup {NoKey}, a \in Adjustments :
              Begin(w, [Call("settlement_confirm", s, "lookup") EXCEPT !.key = j, !.adjustment = a])
        BY <3>1 DEF Confirm
      <4>2. [Call("settlement_confirm", s, "lookup") EXCEPT !.key = j, !.adjustment = a].pc = "lookup"
        BY DEF Call, Idle
      <4> QED BY <3>b, <4>1, <4>2
    <3>2. CASE CancelPayment(w, s)
      <4>1. PICK j \in Keys \cup {NoKey} : Begin(w, [Call("payment_cancel", s, "lookup") EXCEPT !.key = j])
        BY <3>2 DEF CancelPayment
      <4>2. [Call("payment_cancel", s, "lookup") EXCEPT !.key = j].pc = "lookup"
        BY DEF Call, Idle
      <4> QED BY <3>b, <4>1, <4>2
    <3>3. CASE UpdateStatus(w, s)
      <4>1. PICK x \in Statuses : Begin(w, [Call("status", s, "write") EXCEPT !.status = x])
        BY <3>3 DEF UpdateStatus
      <4>2. [Call("status", s, "write") EXCEPT !.status = x].op = "status"
        BY DEF Call, Idle
      <4> QED BY <3>b, <4>1, <4>2
    <3>4. CASE RequestPayout(w, s)
      <4>1. Call("request", s, "read").op = "request"
        BY DEF Call, Idle
      <4> QED BY <3>b, <3>4, <4>1 DEF RequestPayout
    <3>5. CASE Complete(w, s)
      <4>1. PICK gross \in GrossAmounts, rate \in FeeRates :
              Begin(w, [Call("complete", s, "write") EXCEPT !.payout = Payout(gross, rate)])
        BY <3>5 DEF Complete
      <4>2. [Call("complete", s, "write") EXCEPT !.payout = Payout(gross, rate)].op = "complete"
        BY DEF Call, Idle
      <4> QED BY <3>b, <4>1, <4>2
    <3> QED BY <2>2, <3>1, <3>2, <3>3, <3>4, <3>5 DEF Arrive
  <2>3. ASSUME NEW w \in Calls, Lookup(w)
        PROVE  Answered(k)' /\ \A s \in Settlements : applied'[<<k, s>>] = applied[<<k, s>>]
    <3>1. CASE req[w].op = "settlement_confirm" /\ req[w].key = k
      BY <1>1, <2>3, <2>i, <3>1 DEF Lookup, Answered, Answer, Key, Finish
    <3>2. CASE ~(req[w].op = "settlement_confirm" /\ req[w].key = k)
      BY <2>3, <2>i, <2>s, <3>2 DEF Lookup, Finish, Goto
    <3> QED BY <3>1, <3>2
  <2>4. ASSUME NEW w \in Calls, req[w].pc \notin {"idle", "lookup"}
        PROVE  ~(req[w].op = "settlement_confirm" /\ req[w].key = k)
    BY <1>1, <2>4 DEF Answered, Doing, Key
  <2>5. ASSUME NEW w \in Calls, ConfirmRead(w)
        PROVE  Answered(k)' /\ \A s \in Settlements : applied'[<<k, s>>] = applied[<<k, s>>]
    <3>1. PICK n : n = AtLeastZero(row[Of(w)].payout + req[w].adjustment)
      OBVIOUS
    <3>2. PICK c : c = [req[w] EXCEPT !.pc = "write", !.payout = n]
      OBVIOUS
    <3>3. c.op = req[w].op /\ c.key = req[w].key
      BY <1>1, <3>2 DEF IInv, Req
    <3>4. req' = [req EXCEPT ![w] = c] \/ req' = [req EXCEPT ![w] = Idle]
      BY <2>5, <3>1, <3>2 DEF ConfirmRead, Finish
    <3>5. UNCHANGED <<saved, applied>>
      BY <2>5 DEF ConfirmRead
    <3> QED BY <2>4, <2>5, <2>b, <2>i, <3>3, <3>4, <3>5 DEF ConfirmRead, At
  <2>6. ASSUME NEW w \in Calls, CancelRead(w) \/ RequestRead(w) \/ RequestBank(w)
        PROVE  Answered(k)' /\ \A s \in Settlements : applied'[<<k, s>>] = applied[<<k, s>>]
    BY <2>4, <2>6, <2>i, <2>s DEF CancelRead, RequestRead, RequestBank, At, Goto, Finish
  <2>7. ASSUME NEW w \in Calls, ConfirmWrite(w)
        PROVE  Answered(k)' /\ \A s \in Settlements : applied'[<<k, s>>] = applied[<<k, s>>]
    <3>1. req[w].key # k
      BY <2>4, <2>7 DEF ConfirmWrite, At, Doing
    <3>2. \A s \in Settlements : applied'[<<k, s>>] = applied[<<k, s>>]
      BY <2>7, <3>1 DEF ConfirmWrite, Key
    <3>3. \A v \in Calls : req'[v].key = k /\ req'[v].op = "settlement_confirm" =>
                             req'[v] = req[v]
      BY <1>1, <2>7, <3>1 DEF ConfirmWrite, Goto, IInv, Req
    <3>4. saved' = saved
      BY <2>7 DEF ConfirmWrite
    <3> QED BY <1>1, <3>2, <3>3, <3>4 DEF Answered, Doing, Key
  <2>8. ASSUME NEW w \in Calls, CancelWrite(w)
        PROVE  Answered(k)' /\ \A s \in Settlements : applied'[<<k, s>>] = applied[<<k, s>>]
    BY <2>4, <2>8, <2>s DEF CancelWrite, At, Goto
  <2>9. ASSUME NEW w \in Calls,
               StatusWrite(w) \/ RequestWrite(w) \/ CompleteWrite(w) \/ Fail(w)
        PROVE  Answered(k)' /\ \A s \in Settlements : applied'[<<k, s>>] = applied[<<k, s>>]
    BY <2>9, <2>i DEF StatusWrite, RequestWrite, CompleteWrite, Fail, Finish
  <2>10. ASSUME NEW w \in Calls, Save(w)
         PROVE  Answered(k)' /\ \A s \in Settlements : applied'[<<k, s>>] = applied[<<k, s>>]
    <3>1. req[w].of # NoSettlement
      BY <1>1, <2>10, SettlementsAssumption DEF Save, At, IInv, CallInv
    <3>2. saved'[<<"settlement_confirm", k>>] # NoSettlement
      BY <1>1, <2>10, <2>k, <3>1 DEF Save, Of, Answered, IInv, Typed
    <3>3. \A v \in Calls : req'[v] = Idle \/ req'[v] = req[v]
      BY <1>1, <2>10 DEF Save, Finish, IInv
    <3> QED BY <1>1, <2>10, <3>2, <3>3, IdleFits DEF Answered, Doing, Key, Save
  <2>11. CASE VerifyBank
    BY <1>1, <2>11 DEF VerifyBank, Answered, Doing, Key
  <2> QED BY <1>1, <2>1, <2>2, <2>3, <2>5, <2>6, <2>7, <2>8, <2>9, <2>10, <2>11 DEF Next, Read, Write
<1>2. IInv /\ [Next]_vars => [\A k \in Keys : Final(k)]_vars
  BY <1>1
<1> QED BY <1>2, Invariance, PTL DEF Spec, AnsweredIsFinal

-----------------------------------------------------------------------------
(* Paid settlements *)

\* The status paid comes with a date.
PaidDated == \A s \in Settlements : row[s].status = "paid" => row[s].paidAt = "set"

\* Only four steps write settlements.
LEMMA RowWrites ==
    ASSUME Next, row' # row
    PROVE  \E w \in Calls : ConfirmWrite(w) \/ StatusWrite(w) \/ RequestWrite(w) \/ CompleteWrite(w)
<1>1. ASSUME NEW w \in Calls, NEW s \in Settlements, Arrive(w, s) PROVE row' = row
  BY <1>1 DEF Arrive, Confirm, CancelPayment, UpdateStatus, RequestPayout, Complete, Begin
<1>2. ASSUME NEW w \in Calls, Read(w) PROVE row' = row
  BY <1>2 DEF Read, Lookup, ConfirmRead, CancelRead, RequestRead, RequestBank
<1>3. ASSUME NEW w \in Calls, CancelWrite(w) \/ Save(w) \/ Fail(w) PROVE row' = row
  BY <1>3 DEF CancelWrite, Save, Fail
<1>4. CASE VerifyBank
  BY <1>4 DEF VerifyBank
<1> QED BY <1>1, <1>2, <1>3, <1>4 DEF Next, Write

\* What a write makes of a settlement.
LEMMA RowAfter ==
    ASSUME IInv, NEW w \in Calls, NEW s \in Settlements, row'[s] # row[s]
    PROVE  /\ ConfirmWrite(w) \/ RequestWrite(w) =>
                row'[s].status = "confirmed" /\ row'[s].paidAt = row[s].paidAt
           /\ StatusWrite(w) =>
                /\ row'[s].status = req[w].status
                /\ row'[s].paidAt = IF req[w].status = "paid" THEN "set" ELSE row[s].paidAt
           /\ CompleteWrite(w) => Of(w) = s /\ row'[s].status = "pending"
<1>t. row \in [Settlements -> Row] /\ row[s] \in Row
  BY DEF IInv, Typed
<1>1. CASE ConfirmWrite(w)
  BY <1>1, <1>t DEF ConfirmWrite, StatusWrite, RequestWrite, CompleteWrite, Doing, Row
<1>2. CASE RequestWrite(w)
  BY <1>2, <1>t DEF ConfirmWrite, StatusWrite, RequestWrite, CompleteWrite, Doing, Row
<1>3. CASE StatusWrite(w)
  BY <1>3, <1>t DEF ConfirmWrite, StatusWrite, RequestWrite, CompleteWrite, Doing, Row
<1>4. CASE CompleteWrite(w)
  BY <1>4, <1>t DEF ConfirmWrite, StatusWrite, RequestWrite, CompleteWrite, Doing, Row
<1> QED BY <1>1, <1>2, <1>3, <1>4

\* The status paid comes with a date in every reachable state.
THEOREM PaidDatedHolds == Spec => []PaidDated
<1>1. Init => PaidDated
  BY DEF Init, PaidDated
<1>2. IInv /\ PaidDated /\ [Next]_vars => PaidDated'
  <2> SUFFICES ASSUME IInv, PaidDated, [Next]_vars, NEW s \in Settlements, row'[s].status = "paid"
               PROVE  row'[s].paidAt = "set"
    BY DEF PaidDated
  <2>1. CASE row'[s] = row[s]
    BY <2>1 DEF PaidDated
  <2>2. CASE row'[s] # row[s]
    <3>1. PICK w \in Calls :
            ConfirmWrite(w) \/ StatusWrite(w) \/ RequestWrite(w) \/ CompleteWrite(w)
      BY <2>2, RowWrites DEF vars
    <3> QED BY <2>2, <3>1, RowAfter
  <2> QED BY <2>1, <2>2
<1> QED BY <1>1, <1>2, Invariance, PTL DEF Spec

\* What is shown as paid is shown so until the job is completed again.
THEOREM PaidStaysShownHolds == Spec => PaidStaysShown
<1>1. ASSUME IInv, PaidDated, [Next]_vars, NEW s \in Settlements,
             Shown(row[s]) = "paid", Shown(row'[s]) # "paid"
      PROVE  \E w \in Calls : At(w, "write") /\ Doing(w, "complete") /\ Of(w) = s
  <2>1. row'[s] # row[s]
    BY <1>1
  <2>2. row[s].paidAt = "set"
    BY <1>1 DEF Shown, PaidDated
  <2>3. row'[s].paidAt # "set"
    BY <1>1 DEF Shown
  <2>4. PICK w \in Calls :
          ConfirmWrite(w) \/ StatusWrite(w) \/ RequestWrite(w) \/ CompleteWrite(w)
    BY <1>1, <2>1, RowWrites DEF vars
  <2>5. CompleteWrite(w) /\ Of(w) = s
    BY <1>1, <2>1, <2>2, <2>3, <2>4, RowAfter
  <2> QED BY <2>5 DEF CompleteWrite
<1>2. IInv /\ PaidDated /\ [Next]_vars =>
        [\A s \in Settlements :
           Shown(row[s]) = "paid" /\ Shown(row'[s]) # "paid" =>
             \E w \in Calls : At(w, "write") /\ Doing(w, "complete") /\ Of(w) = s]_vars
  BY <1>1
<1> QED BY <1>2, Invariance, PaidDatedHolds, PTL DEF Spec, PaidStaysShown

-----------------------------------------------------------------------------
(* While calls do not overlap *)

\* The call in flight is the first of its key to get as far, and has at hand what the
\* tables say.
InOrder(c) ==
    /\ c.op = "settlement_confirm" /\ c.pc \in {"read", "write", "save"} /\ c.key \in Keys =>
           saved[<<"settlement_confirm", c.key>>] = NoSettlement
    /\ c.op = "settlement_confirm" /\ c.pc = "write" =>
           Exists(c.of) /\ c.payout = AtLeastZero(row[c.of].payout + c.adjustment)
    /\ c.pc = "bank" => c.op = "request"
    /\ c.op = "request" /\ c.pc \in {"bank", "write"} => Exists(c.of)

\* A key has confirmed: its answer is stored or about to be.
Confirmed(k) ==
    \/ saved[<<"settlement_confirm", k>>] # NoSettlement
    \/ \E w \in Calls : At(w, "save") /\ Doing(w, "settlement_confirm") /\ Key(w) = k

\* Each failure makes up for one confirmation, and so does the answer.
Counts ==
    \A k \in Keys, s \in Settlements :
        /\ applied[<<k, s>>] <= failures + 1
        /\ ~Confirmed(k) => applied[<<k, s>>] <= failures

Sums == \A s \in Settlements : Exists(s) => row[s].payout = due[s]

SerialInv ==
    /\ IInv
    /\ course = "serial" =>
         /\ \A v, w \in InFlight : v = w
         /\ \A w \in Calls : InOrder(req[w])
         /\ Counts
         /\ Sums

\* As long as the course is serial, whoever moves is the only one in flight.
LEMMA OthersAreIdle ==
    ASSUME SerialInv, NEW w \in Calls, course' = "serial",
           (\E s \in Settlements : Arrive(w, s)) \/ Read(w) \/ Write(w) \/ Fail(w)
    PROVE  /\ course = "serial"
           /\ \A v \in Calls \ {w} : At(v, "idle") /\ req'[v] = req[v]
<1>t. req \in [Calls -> Req]
  BY DEF SerialInv, IInv
<1>1. CASE \E s \in Settlements : Arrive(w, s)
  <2>1. PICK c : Begin(w, c)
    BY <1>1 DEF Arrive, Confirm, CancelPayment, UpdateStatus, RequestPayout, Complete
  <2>2. InFlight = {} /\ course = "serial" /\ \A v \in Calls \ {w} : req'[v] = req[v]
    BY <1>t, <2>1 DEF Begin
  <2> QED BY <2>2 DEF InFlight
<1>2. CASE Read(w) \/ Write(w) \/ Fail(w)
  <2>1. ~At(w, "idle") /\ course' = course
    <3>1. CASE Read(w)
      BY <3>1 DEF Read, Lookup, ConfirmRead, CancelRead, RequestRead, RequestBank, At
    <3>2. CASE Write(w)
      BY <3>2 DEF Write, ConfirmWrite, CancelWrite, StatusWrite, RequestWrite, CompleteWrite, Save, At
    <3>3. CASE Fail(w)
      BY <3>3 DEF Fail
    <3> QED BY <1>2, <3>1, <3>2, <3>3
  <2>2. \A v \in Calls \ {w} : req'[v] = req[v]
    <3>1. CASE Read(w)
      BY <1>t, <3>1 DEF Read, Lookup, ConfirmRead, CancelRead, RequestRead, RequestBank, Goto, Finish
    <3>2. CASE Write(w)
      BY <1>t, <3>2 DEF Write, ConfirmWrite, CancelWrite, StatusWrite, RequestWrite, CompleteWrite, Save, Goto, Finish
    <3>3. CASE Fail(w)
      BY <1>t, <3>3 DEF Fail, Finish
    <3> QED BY <1>2, <3>1, <3>2, <3>3
  <2> QED BY <2>1, <2>2 DEF SerialInv, InFlight
<1> QED BY <1>1, <1>2

\* A call that arrives has nothing at hand yet.
LEMMA ArrivesInOrder ==
    ASSUME IInv, NEW w \in Calls, NEW s \in Settlements, Arrive(w, s)
    PROVE  InOrder(req[w])' /\ At(w, "idle") /\ ~At(w, "save")' /\ UNCHANGED <<row, due, saved, applied, failures>>
<1>b. ASSUME NEW c, Begin(w, c),
             c.pc = "lookup" \/ (c.pc = "write" /\ c.op \in {"status", "complete"}) \/ (c.pc = "read" /\ c.op = "request")
      PROVE  InOrder(req[w])' /\ At(w, "idle") /\ ~At(w, "save")' /\ UNCHANGED <<row, due, saved, applied, failures>>
  <2>1. req'[w] = c
    BY <1>b DEF Begin, IInv
  <2> QED BY <1>b, <2>1 DEF Begin, InOrder, At
<1>1. CASE Confirm(w, s)
  <2>1. PICK k, a : Begin(w, [Call("settlement_confirm", s, "lookup") EXCEPT !.key = k, !.adjustment = a])
    BY <1>1 DEF Confirm
  <2>2. [Call("settlement_confirm", s, "lookup") EXCEPT !.key = k, !.adjustment = a].pc = "lookup"
    BY DEF Call, Idle
  <2> QED BY <1>b, <2>1, <2>2
<1>2. CASE CancelPayment(w, s)
  <2>1. PICK k : Begin(w, [Call("payment_cancel", s, "lookup") EXCEPT !.key = k])
    BY <1>2 DEF CancelPayment
  <2>2. [Call("payment_cancel", s, "lookup") EXCEPT !.key = k].pc = "lookup"
    BY DEF Call, Idle
  <2> QED BY <1>b, <2>1, <2>2
<1>3. CASE UpdateStatus(w, s)
  <2>1. PICK x : Begin(w, [Call("status", s, "write") EXCEPT !.status = x])
    BY <1>3 DEF UpdateStatus
  <2>2. /\ [Call("status", s, "write") EXCEPT !.status = x].pc = "write"
        /\ [Call("status", s, "write") EXCEPT !.status = x].op = "status"
    BY DEF Call, Idle
  <2> QED BY <1>b, <2>1, <2>2
<1>4. CASE RequestPayout(w, s)
  <2>1. Call("request", s, "read").pc = "read" /\ Call("request", s, "read").op = "request"
    BY DEF Call, Idle
  <2> QED BY <1>4, <1>b, <2>1 DEF RequestPayout
<1>5. CASE Complete(w, s)
  <2>1. PICK n : Begin(w, [Call("complete", s, "write") EXCEPT !.payout = n])
    BY <1>5 DEF Complete
  <2>2. /\ [Call("complete", s, "write") EXCEPT !.payout = n].pc = "write"
        /\ [Call("complete", s, "write") EXCEPT !.payout = n].op = "complete"
    BY DEF Call, Idle
  <2> QED BY <1>b, <2>1, <2>2
<1> QED BY <1>1, <1>2, <1>3, <1>4, <1>5 DEF Arrive

\* What a call reads is what the tables say when it writes.
LEMMA ReadsInOrder ==
    ASSUME IInv, NEW w \in Calls, Read(w), InOrder(req[w])
    PROVE  /\ InOrder(req[w])' /\ ~At(w, "save") /\ ~At(w, "save")'
           /\ UNCHANGED <<row, due, saved, applied, failures>>
<1>t. req \in [Calls -> Req] /\ req[w] \in Req /\ CallInv(req[w])
  BY DEF IInv
<1>u. ~At(w, "save") /\ UNCHANGED <<row, due, saved, applied, failures>>
  BY DEF Read, Lookup, ConfirmRead, CancelRead, RequestRead, RequestBank, At
<1>f. ASSUME Finish(w) PROVE InOrder(req[w])' /\ ~At(w, "save")'
  <2>1. req'[w] = Idle
    BY <1>f, <1>t DEF Finish
  <2> QED BY <2>1 DEF Idle, InOrder, At
<1>g. ASSUME NEW pc, Goto(w, pc)
      PROVE  /\ req'[w].pc = pc /\ req'[w].op = req[w].op /\ req'[w].key = req[w].key /\ req'[w].of = req[w].of
  BY <1>g, <1>t DEF Goto, Req
<1>1. CASE Lookup(w)
  <2>1. CASE Goto(w, "read") /\ ~(Key(w) \in Keys /\ Answer(w) # NoSettlement)
    BY <1>1, <1>u, <1>g, <2>1 DEF InOrder, At, Key, Answer
  <2> QED BY <1>1, <1>u, <1>f, <2>1 DEF Lookup
<1>2. CASE ConfirmRead(w)
  <2>1. CASE Exists(Of(w))
    <3>1. PICK n : n = AtLeastZero(row[Of(w)].payout + req[w].adjustment)
      OBVIOUS
    <3>2. req' = [req EXCEPT ![w].pc = "write", ![w].payout = n]
      BY <1>2, <2>1, <3>1 DEF ConfirmRead
    <3>3. /\ req'[w].pc = "write" /\ req'[w].op = req[w].op /\ req'[w].key = req[w].key /\ req'[w].of = req[w].of
          /\ req'[w].payout = n /\ req'[w].adjustment = req[w].adjustment
      BY <1>t, <3>2 DEF Req
    <3>4. Exists(Of(w))' /\ n = AtLeastZero(row'[req'[w].of].payout + req'[w].adjustment)
      BY <1>u, <2>1, <3>1, <3>3 DEF Of, Exists
    <3> QED BY <1>2, <1>u, <3>3, <3>4 DEF ConfirmRead, At, Doing, InOrder, Of
  <2> QED BY <1>2, <1>u, <1>f, <2>1 DEF ConfirmRead
<1>3. CASE CancelRead(w)
  BY <1>3, <1>u, <1>g DEF CancelRead, Doing, InOrder, At
<1>4. CASE RequestRead(w)
  <2>1. CASE Goto(w, "bank") /\ row[Of(w)].status \in {"pending", "held"}
    <3>1. Exists(Of(w))'
      BY <1>u, <1>g, <2>1 DEF Exists, Of
    <3> QED BY <1>4, <1>u, <1>g, <2>1, <3>1 DEF RequestRead, Doing, InOrder, At, Of
  <2> QED BY <1>4, <1>u, <1>f, <2>1 DEF RequestRead
<1>5. CASE RequestBank(w)
  <2>1. CASE Goto(w, "write")
    <3>1. req[w].op = "request"
      BY <1>5 DEF RequestBank, At, InOrder
    <3>2. Exists(Of(w))'
      BY <1>5, <1>u, <1>g, <2>1, <3>1 DEF RequestBank, At, InOrder, Exists, Of
    <3> QED BY <1>5, <1>u, <1>g, <2>1, <3>1, <3>2 DEF InOrder, At, Of
  <2> QED BY <1>5, <1>u, <1>f, <2>1 DEF RequestBank
<1> QED BY <1>u, <1>1, <1>2, <1>3, <1>4, <1>5 DEF Read

\* A call that has written stores its answer, if it has one, where there was none.
LEMMA WritesInOrder ==
    ASSUME IInv, NEW w \in Calls, Write(w) \/ Fail(w), InOrder(req[w])
    PROVE  InOrder(req[w])'
<1>t. req \in [Calls -> Req] /\ req[w] \in Req
  BY DEF IInv
<1>1. CASE ConfirmWrite(w) \/ CancelWrite(w)
  <2>1. /\ req'[w].pc = "save" /\ req'[w].op = req[w].op /\ req'[w].key = req[w].key /\ saved' = saved
        /\ req[w].pc = "write"
    BY <1>t, <1>1 DEF ConfirmWrite, CancelWrite, Goto, Req, At
  <2> QED BY <2>1 DEF InOrder
<1>2. CASE StatusWrite(w) \/ RequestWrite(w) \/ CompleteWrite(w) \/ Save(w) \/ Fail(w)
  <2>1. req'[w] = Idle
    BY <1>t, <1>2 DEF StatusWrite, RequestWrite, CompleteWrite, Save, Fail, Finish
  <2> QED BY <2>1 DEF InOrder, Idle
<1> QED BY <1>1, <1>2 DEF Write

\* What is written is what is due.
LEMMA SumsKeep ==
    ASSUME IInv, NEW w \in Calls, Write(w) \/ Fail(w), InOrder(req[w]), Sums
    PROVE  Sums'
<1>t. /\ row \in [Settlements -> Row] /\ due \in [Settlements -> Nat]
      /\ \A s \in Settlements : row[s] \in Row
  BY DEF IInv, Typed
<1>s. SUFFICES ASSUME NEW s \in Settlements, Exists(s)' PROVE row'[s].payout = due'[s]
  BY DEF Sums
<1>1. CASE ConfirmWrite(w)
  <2>1. CASE s = Of(w)
    <3>1. /\ Exists(s) /\ req[w].payout = AtLeastZero(row[s].payout + req[w].adjustment)
      BY <1>1, <2>1 DEF ConfirmWrite, At, Doing, Of, InOrder
    <3>2. row'[s].payout = req[w].payout
      BY <1>1, <1>t, <2>1 DEF ConfirmWrite, Row
    <3>3. due'[s] = AtLeastZero(due[s] + req[w].adjustment)
      BY <1>1, <1>t, <2>1 DEF ConfirmWrite
    <3> QED BY <3>1, <3>2, <3>3 DEF Sums
  <2>2. CASE s # Of(w)
    <3>1. row'[s] = row[s] /\ due'[s] = due[s]
      BY <1>1, <1>t, <2>2 DEF ConfirmWrite
    <3> QED BY <1>s, <3>1 DEF Sums, Exists
  <2> QED BY <2>1, <2>2
<1>2. CASE StatusWrite(w)
  <2>1. row'[s].payout = row[s].payout /\ due'[s] = due[s]
    BY <1>2, <1>t DEF StatusWrite, Row
  <2>2. Exists(s)
    BY <1>2, <1>s, <1>t DEF StatusWrite, Exists, Row
  <2> QED BY <2>1, <2>2 DEF Sums
<1>3. CASE RequestWrite(w)
  <2>1. row'[s].payout = row[s].payout /\ due'[s] = due[s]
    BY <1>3, <1>t DEF RequestWrite, Row
  <2>2. Exists(s)
    <3>1. CASE s = Of(w)
      BY <1>3, <3>1 DEF RequestWrite, At, Doing, Of, InOrder
    <3>2. CASE s # Of(w)
      BY <1>3, <1>s, <1>t, <3>2 DEF RequestWrite, Exists
    <3> QED BY <3>1, <3>2
  <2> QED BY <2>1, <2>2 DEF Sums
<1>4. CASE CompleteWrite(w)
  <2>1. CASE s = Of(w)
    BY <1>4, <1>t, <2>1 DEF CompleteWrite, Row
  <2>2. CASE s # Of(w)
    <3>1. row'[s] = row[s] /\ due'[s] = due[s]
      BY <1>4, <1>t, <2>2 DEF CompleteWrite
    <3> QED BY <1>s, <3>1 DEF Sums, Exists
  <2> QED BY <2>1, <2>2
<1>5. CASE CancelWrite(w) \/ Save(w) \/ Fail(w)
  <2>1. row' = row /\ due' = due
    BY <1>5 DEF CancelWrite, Save, Fail
  <2> QED BY <1>s, <2>1 DEF Sums, Exists
<1> QED BY <1>1, <1>2, <1>3, <1>4, <1>5 DEF Write

\* A step that neither confirms, fails nor stores leaves the counts alone.
LEMMA CountsStay ==
    ASSUME IInv, Counts, NEW w \in Calls, \A v \in Calls \ {w} : At(v, "idle"), ~At(w, "save") \/ ~Doing(w, "settlement_confirm"),
           UNCHANGED <<applied, failures>>,
           \A k \in Keys : saved[<<"settlement_confirm", k>>] # NoSettlement => saved'[<<"settlement_confirm", k>>] # NoSettlement
    PROVE  Counts'
<1>1. ASSUME NEW k \in Keys, Confirmed(k) PROVE Confirmed(k)'
  BY <1>1 DEF Confirmed, At
<1> QED BY <1>1 DEF Counts

\* A call confirms under its key for the first time, or for the first time since a
\* failure, and stores its answer.
LEMMA CountsKeep ==
    ASSUME IInv, Counts, NEW w \in Calls, \A v \in Calls \ {w} : At(v, "idle") /\ req'[v] = req[v],
           InOrder(req[w]), Write(w) \/ Fail(w)
    PROVE  Counts'
<1>t. /\ req \in [Calls -> Req] /\ req[w] \in Req /\ CallInv(req[w]) /\ failures \in Nat
      /\ saved \in [Scopes \X Keys -> Settlements \cup {NoSettlement}]
      /\ \A k \in Keys, s \in Settlements : applied[<<k, s>>] \in Nat
  BY SettlementsAssumption DEF IInv, Typed
<1>1. CASE ConfirmWrite(w)
  <2>1. /\ req'[w].pc = "save" /\ req'[w].op = "settlement_confirm" /\ req'[w].key = req[w].key
    BY <1>1, <1>t DEF ConfirmWrite, Goto, Doing, Req
  <2>2. /\ saved' = saved /\ failures' = failures
        /\ \A k \in Keys, s \in Settlements :
             applied'[<<k, s>>] = IF k = Key(w) /\ s = Of(w) THEN applied[<<k, s>>] + 1 ELSE applied[<<k, s>>]
    BY <1>1 DEF ConfirmWrite
  <2>3. ASSUME NEW k \in Keys, NEW s \in Settlements
        PROVE  applied'[<<k, s>>] <= failures' + 1 /\ (~Confirmed(k)' => applied'[<<k, s>>] <= failures')
    <3>1. CASE k = Key(w)
      <4>1. Confirmed(k)'
        BY <2>1, <3>1 DEF Confirmed, At, Doing, Key
      <4>2. ~Confirmed(k)
        BY <1>1, <3>1 DEF ConfirmWrite, At, Doing, Key, Confirmed, InOrder
      <4>3. applied[<<k, s>>] <= failures
        BY <4>2 DEF Counts
      <4> QED BY <1>t, <2>2, <4>1, <4>3
    <3>2. CASE k # Key(w)
      <4>1. Confirmed(k) => Confirmed(k)'
        BY <1>1, <2>2 DEF Confirmed, ConfirmWrite, At
      <4> QED BY <2>2, <3>2, <4>1 DEF Counts
    <3> QED BY <3>1, <3>2
  <2> QED BY <2>3 DEF Counts
<1>2. CASE CancelWrite(w) \/ StatusWrite(w) \/ RequestWrite(w) \/ CompleteWrite(w)
  <2>1. ~At(w, "save") /\ UNCHANGED <<applied, failures, saved>>
    BY <1>2 DEF CancelWrite, StatusWrite, RequestWrite, CompleteWrite, At
  <2> QED BY <2>1, CountsStay
<1>3. CASE Save(w)
  <2>1. UNCHANGED <<applied, failures>>
    BY <1>3 DEF Save
  <2>2. req[w].of \in Settlements /\ req[w].of # NoSettlement /\ req[w].op \in Scopes
    BY <1>3, <1>t, SettlementsAssumption DEF Save, At, CallInv
  <2>3. ASSUME NEW k \in Keys, Confirmed(k) PROVE saved'[<<"settlement_confirm", k>>] # NoSettlement
    <3>1. <<"settlement_confirm", k>> \in Scopes \X Keys
      BY DEF Scopes
    <3>2. saved'[<<"settlement_confirm", k>>] \in {saved[<<"settlement_confirm", k>>], req[w].of}
      BY <1>3, <1>t, <3>1 DEF Save, Of
    <3>3. CASE saved[<<"settlement_confirm", k>>] # NoSettlement
      BY <2>2, <3>2, <3>3
    <3>4. CASE Doing(w, "settlement_confirm") /\ Key(w) = k
      BY <1>3, <1>t, <2>2, <3>1, <3>4 DEF Save, Of, Doing
    <3> QED BY <2>3, <3>3, <3>4 DEF Confirmed, At
  <2>4. \A k \in Keys : Confirmed(k) => Confirmed(k)'
    BY <2>3 DEF Confirmed
  <2> QED BY <2>1, <2>4 DEF Counts
<1>4. CASE Fail(w)
  <2>1. failures' = failures + 1 /\ applied' = applied
    BY <1>4 DEF Fail
  <2>2. ASSUME NEW k \in Keys, NEW s \in Settlements PROVE applied[<<k, s>>] <= failures + 1
    BY DEF Counts
  <2>3. ASSUME NEW k \in Keys, NEW s \in Settlements
        PROVE  applied'[<<k, s>>] <= failures' /\ applied'[<<k, s>>] <= failures' + 1
    <3>1. applied'[<<k, s>>] = applied[<<k, s>>] /\ applied[<<k, s>>] \in Nat
      BY <1>t, <2>1
    <3>2. applied[<<k, s>>] <= failures + 1
      BY <2>2
    <3> QED BY <1>t, <2>1, <3>1, <3>2
  <2> QED BY <2>3 DEF Counts
<1> QED BY <1>1, <1>2, <1>3, <1>4 DEF Write

\* While calls do not overlap, nothing is confirmed or paid but what the tables say.
THEOREM SerialCorrect == Spec => []SerialInv
<1>1. Init => SerialInv
  <2> SUFFICES ASSUME Init PROVE SerialInv
    OBVIOUS
  <2>1. IInv
    BY InitInv
  <2>2. \A w \in Calls : req[w] = Idle
    BY DEF Init
  <2>3. (\A v, w \in InFlight : v = w) /\ \A w \in Calls : InOrder(req[w])
    BY <2>2 DEF InFlight, At, Idle, InOrder
  <2>4. Counts /\ Sums
    BY DEF Init, Counts, Sums, Exists
  <2> QED BY <2>1, <2>3, <2>4 DEF SerialInv
<1>2. SerialInv /\ IInv' /\ [Next]_vars => SerialInv'
  <2> SUFFICES ASSUME SerialInv, IInv', [Next]_vars, course' = "serial"
               PROVE  /\ (\A v, w \in InFlight : v = w)' /\ \A v \in Calls : InOrder(req[v])'
                      /\ Counts' /\ Sums'
    BY DEF SerialInv
  <2>t. IInv /\ (course = "serial" => Counts /\ Sums /\ \A v \in Calls : InOrder(req[v]))
    BY DEF SerialInv
  <2>1. ASSUME NEW w \in Calls, (\E s \in Settlements : Arrive(w, s)) \/ Read(w) \/ Write(w) \/ Fail(w)
        PROVE  /\ (\A v, u \in InFlight : v = u)' /\ \A v \in Calls : InOrder(req[v])'
               /\ Counts' /\ Sums'
    <3>1. course = "serial" /\ \A v \in Calls \ {w} : At(v, "idle") /\ req'[v] = req[v]
      BY <2>1, OthersAreIdle
    <3>2. \A v \in Calls \ {w} : req'[v].pc = "idle" /\ InOrder(req[v])'
      BY <3>1 DEF At, InOrder
    <3>3. (\A v, u \in InFlight : v = u)'
      BY <3>2 DEF InFlight, At
    <3>4. CASE (\E s \in Settlements : Arrive(w, s)) \/ Read(w)
      <4>1. InOrder(req[w])' /\ ~At(w, "save") /\ UNCHANGED <<row, due, saved, applied, failures>>
        BY <2>t, <3>1, <3>4, ArrivesInOrder, ReadsInOrder DEF At
      <4>2. Counts'
        BY <2>t, <3>1, <4>1, CountsStay
      <4>3. Sums'
        BY <2>t, <3>1, <4>1 DEF Sums, Exists
      <4> QED BY <3>2, <3>3, <4>1, <4>2, <4>3
    <3>5. CASE Write(w) \/ Fail(w)
      BY <2>t, <3>1, <3>2, <3>3, <3>5, WritesInOrder, SumsKeep, CountsKeep
    <3> QED BY <2>1, <3>4, <3>5
  <2>2. CASE VerifyBank \/ UNCHANGED vars
    <3>1. UNCHANGED <<row, due, saved, applied, failures, req>> /\ course = "serial"
      BY <2>2 DEF VerifyBank, vars
    <3> QED BY <3>1 DEF SerialInv, InFlight, At, InOrder, Exists, Counts, Confirmed, Doing, Key, Sums
  <2> QED BY <2>1, <2>2 DEF Next
<1> QED BY <1>1, <1>2, Invariance, PTL DEF Spec

\* While calls do not overlap, a key confirms a settlement once and once more for each
\* statement that failed.
THEOREM RetriesAreFailuresHolds == Spec => []RetriesAreFailures
<1>1. SerialInv => RetriesAreFailures
  BY DEF SerialInv, Counts, RetriesAreFailures
<1> QED BY <1>1, SerialCorrect, PTL

\* While calls do not overlap, the payout is what was earned and every adjustment since,
\* whatever statuses were given in between.
THEOREM PayoutAddsUpHolds == Spec => []PayoutAddsUp
<1>1. SerialInv => PayoutAddsUp
  BY DEF SerialInv, Sums, PayoutAddsUp
<1> QED BY <1>1, SerialCorrect, PTL

=============================================================================
