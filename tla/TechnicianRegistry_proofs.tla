---------------------- MODULE TechnicianRegistry_proofs ----------------------
(***************************************************************************)
(* Proofs about TechnicianRegistry, for any technicians, child tables,     *)
(* calls and bounds.                                                       *)
(***************************************************************************)
EXTENDS TechnicianRegistry, TLAPS

USE DEF history

-----------------------------------------------------------------------------
(* What holds however calls overlap *)

\* Steps of a call that is going to write about a technician.
Writing == {"insert", "child", "status", "review", "work", "delete"}

\* What a call has loaded shows nobody approved who never was.
CallInv(c) ==
    /\ c \in Req
    /\ c.pc \in Writing => c.tech \in Technicians
    /\ c.pc = "insert" => c.child = 1
    /\ c.pc = "child" => c.child \in Children
    /\ \A t \in Technicians : c.copy[t].status = "approved" => t \in admitted

\* A technician who is not in the table has no child rows.
Whole == \A t \in Technicians : table[t].status = "none" => table[t].children = {}

IInv ==
    /\ TypeOK
    /\ Whole
    /\ \A t \in Technicians : table[t].status = "approved" => t \in admitted
    /\ AdmitsOnlyApproved
    /\ \A w \in Calls : CallInv(req[w])

\* The steps of a call by name.
LEMMA StepNames == Steps = Writing \cup {"idle", "rows", "load"}
  BY DEF Steps, Writing

\* An absent technician is an entity.
LEMMA AbsentType == Absent \in Entity
  BY RegistryAssumption DEF Absent, Entity, Statuses

\* A call that is not in flight fulfils its part of the invariant.
LEMMA IdleFits == CallInv(Idle)
<1>1. Nothing \in [Technicians -> Entity]
  BY AbsentType DEF Nothing
<1>2. \A t \in Technicians : Nothing[t].status = "none"
  BY DEF Nothing, Absent
<1>3. ChildCount + 1 \in Children \cup {ChildCount + 1} /\ "offline" \in WorkStatuses
  BY RegistryAssumption
<1>4. Idle \in Req
  BY <1>1, <1>3, StepNames DEF Idle, Req, Statuses, Writing
<1> QED BY <1>2, <1>4 DEF CallInv, Idle, Writing

\* An action changes nothing but what one call is about to do.
CallMoves(w, c) ==
    /\ req' = [req EXCEPT ![w] = c]
    /\ UNCHANGED <<table, byId, admitted, restarts>>
    /\ failures' \in 0..MaxFailures
    /\ born' \in SUBSET Technicians
    /\ course' \in {"serial", "disturbed"}

\* Such an action keeps the invariant if the call's new record fits.
LEMMA CallMovesKeeps ==
    ASSUME IInv, NEW w \in Calls, NEW c, CallMoves(w, c), CallInv(c)
    PROVE  IInv'
<1>1. req' \in [Calls -> Req]
  BY DEF CallMoves, CallInv, IInv, TypeOK
<1>2. TypeOK'
  BY <1>1 DEF CallMoves, IInv, TypeOK
<1>3. ASSUME NEW v \in Calls PROVE CallInv(req[v])'
  <2>1. req'[v] = c \/ req'[v] = req[v]
    BY DEF CallMoves, IInv, TypeOK
  <2> QED BY <2>1 DEF CallMoves, CallInv, IInv
<1> QED BY <1>2, <1>3 DEF CallMoves, IInv, AdmitsOnlyApproved, Admits, Whole

\* A call that takes a step with the same locals.
LEMMA GotoFits ==
    ASSUME IInv, NEW w \in Calls, NEW pc \in Steps \ {"insert"},
           pc \in Writing => req[w].tech \in Technicians,
           pc = "child" => req[w].child \in Children
    PROVE  CallInv([req[w] EXCEPT !.pc = pc])
  BY DEF IInv, CallInv, Req

\* A call arrives.
LEMMA ArriveKeeps ==
    ASSUME IInv, NEW w \in Calls, NEW t \in Technicians, Arrive(w, t)
    PROVE  IInv'
<1>b. ASSUME NEW c, Begin(w, c), CallInv(c), born' \in SUBSET Technicians PROVE IInv'
  <2>1. CallMoves(w, c)
    BY <1>b DEF Begin, CallMoves, IInv, TypeOK
  <2> QED BY <1>b, <2>1, CallMovesKeeps
<1>t. born \in SUBSET Technicians
  BY DEF IInv, TypeOK
<1>1. CASE Signup(w, t)
  <2> DEFINE c == [About(t, "insert") EXCEPT !.child = 1]
  <2>1. CallInv(c)
    <3>1. 1 \in Children \cup {ChildCount + 1}
      BY RegistryAssumption DEF Children
    <3> QED BY <3>1, IdleFits, StepNames DEF CallInv, About, Idle, Req, Writing
  <2> QED BY <1>1, <1>b, <1>t, <2>1 DEF Signup
<1>2. CASE UpdateByAdmin(w, t)
  <2>1. ASSUME NEW s \in AdminStatuses PROVE CallInv([About(t, "status") EXCEPT !.status = s])
    BY RegistryAssumption, IdleFits, StepNames DEF CallInv, About, Idle, Req, Writing
  <2>2. CallInv(About(t, "rows"))
    BY IdleFits, StepNames DEF CallInv, About, Idle, Req, Writing
  <2> QED BY <1>2, <1>b, <1>t, <2>1, <2>2 DEF UpdateByAdmin
<1>3. CASE ReviewOnboarding(w, t)
  <2>1. ASSUME NEW s \in {"approved", "rejected", "reviewing"}
        PROVE  CallInv([About(t, "review") EXCEPT !.status = s])
    BY IdleFits, StepNames DEF CallInv, About, Idle, Req, Writing, Statuses
  <2> QED BY <1>3, <1>b, <1>t, <2>1 DEF ReviewOnboarding
<1>4. CASE Delete(w, t)
  <2>1. CallInv(About(t, "delete"))
    BY IdleFits, StepNames DEF CallInv, About, Idle, Req, Writing
  <2> QED BY <1>4, <1>b, <1>t, <2>1 DEF Delete
<1>5. CASE UpdateWorkStatus(w, t)
  <2>1. ASSUME NEW s \in WorkStatuses PROVE CallInv([About(t, "work") EXCEPT !.work = s])
    BY IdleFits, StepNames DEF CallInv, About, Idle, Req, Writing
  <2> QED BY <1>5, <1>b, <1>t, <2>1 DEF UpdateWorkStatus
<1> QED BY <1>1, <1>2, <1>3, <1>4, <1>5 DEF Arrive

\* The tables change for one technician, and the call that changed them goes on.
LEMMA ChangeMoves ==
    ASSUME IInv, NEW w \in Calls, NEW t \in Technicians, NEW e \in Entity, NEW c,
           e.status = "none" => e.children = {},
           e.status = "approved" => t \in admitted',
           table' = [table EXCEPT ![t] = e], req' = [req EXCEPT ![w] = c], CallInv(c),
           admitted \subseteq admitted', admitted' \in SUBSET Technicians,
           UNCHANGED <<byId, failures, restarts, born, course>>
    PROVE  IInv'
<1>1. req' \in [Calls -> Req]
  BY DEF CallInv, IInv, TypeOK
<1>2. table' \in [Technicians -> Entity]
  BY DEF IInv, TypeOK
<1>3. TypeOK'
  BY <1>1, <1>2 DEF IInv, TypeOK
<1>4. ASSUME NEW v \in Calls PROVE CallInv(req[v])'
  <2>1. req'[v] = c \/ req'[v] = req[v]
    BY DEF IInv, TypeOK
  <2>2. CASE req'[v] = c
    BY <2>2 DEF CallInv
  <2>3. CASE req'[v] = req[v]
    BY <2>3 DEF CallInv, IInv
  <2> QED BY <2>1, <2>2, <2>3
<1>5. ASSUME NEW u \in Technicians PROVE table'[u] = IF u = t THEN e ELSE table[u]
  BY DEF IInv, TypeOK
<1>6. Whole' /\ \A u \in Technicians : table'[u].status = "approved" => u \in admitted'
  BY <1>5 DEF IInv, Whole
<1>7. AdmitsOnlyApproved'
  BY DEF IInv, AdmitsOnlyApproved, Admits
<1> QED BY <1>3, <1>4, <1>6, <1>7 DEF IInv

\* The tables are changed.
LEMMA ChangeKeeps ==
    ASSUME IInv, NEW w \in Calls, Change(w)
    PROVE  IInv'
<1> DEFINE t == req[w].tech
<1>t. /\ CallInv(req[w]) /\ req[w] \in Req /\ t \in Technicians
      /\ table \in [Technicians -> Entity] /\ table[t] \in Entity
      /\ admitted \in SUBSET Technicians
  BY DEF IInv, TypeOK, CallInv, Change, Insert, InsertChild, ChangeStatus, ChangeWork, Remove, At, Writing
<1>u. ASSUME UNCHANGED <<byId, failures, restarts, history>> PROVE UNCHANGED <<byId, failures, restarts, born, course>>
  BY <1>u
<1>r. CallInv([req[w] EXCEPT !.pc = "rows"])
  BY GotoFits, StepNames DEF Writing
<1>m. ASSUME NEW c, req' = [req EXCEPT ![w] = c], CallInv(c),
             UNCHANGED <<table, byId, failures, restarts, born, admitted, course>>
      PROVE  IInv'
  <2>1. CallMoves(w, c)
    BY <1>m DEF CallMoves, IInv, TypeOK
  <2> QED BY <1>m, <2>1, CallMovesKeeps
<1>1. CASE Insert(w)
  <2>1. PICK e : e = [Absent EXCEPT !.status = "pending"]
    OBVIOUS
  <2>2. e \in Entity /\ e.status = "pending"
    BY <2>1, AbsentType DEF Absent, Entity, Statuses
  <2>3. PICK c : req' = [req EXCEPT ![w] = c] /\ CallInv(c)
    <3>1. CASE ChildCount = 0
      BY <1>1, <1>r, <3>1 DEF Insert, Goto
    <3>2. CASE ChildCount # 0
      <4>1. req[w].child \in Children
        BY <1>1, <1>t, <3>2, RegistryAssumption DEF Insert, At, CallInv, Children
      <4>2. CallInv([req[w] EXCEPT !.pc = "child"])
        BY <1>t, <4>1, GotoFits, StepNames DEF Writing
      <4> QED BY <1>1, <3>2, <4>2 DEF Insert, Goto
    <3> QED BY <3>1, <3>2
  <2>4. table' = [table EXCEPT ![t] = e] /\ UNCHANGED <<byId, failures, restarts, history>>
    BY <1>1, <2>1 DEF Insert, Tech
  <2> QED BY <1>t, <2>2, <2>3, <2>4, ChangeMoves
<1>2. CASE InsertChild(w)
  <2>1. CASE Stored(Tech(w))
    <3>1. PICK e : e = [table[t] EXCEPT !.children = @ \cup {req[w].child}]
      OBVIOUS
    <3>2. req[w].child \in Children
      BY <1>2, <1>t DEF InsertChild, At, CallInv
    <3>3. e \in Entity /\ e.status = table[t].status /\ e.status # "none"
      BY <1>t, <2>1, <3>1, <3>2 DEF Entity, Stored, Tech
    <3>4. PICK c : c = [req[w] EXCEPT !.child = @ + 1,
                                      !.pc = IF req[w].child = ChildCount THEN "rows" ELSE "child"]
      OBVIOUS
    <3>5. CallInv(c)
      <4>1. CASE req[w].child = ChildCount
        BY <1>t, <3>2, <3>4, <4>1, StepNames DEF CallInv, Req, Writing
      <4>2. CASE req[w].child # ChildCount
        <5>1. req[w].child + 1 \in Children
          BY <3>2, <4>2, RegistryAssumption DEF Children
        <5> QED BY <1>t, <3>4, <4>2, <5>1, StepNames DEF CallInv, Req, Writing
      <4> QED BY <4>1, <4>2
    <3>6. /\ table' = [table EXCEPT ![t] = e] /\ req' = [req EXCEPT ![w] = c]
          /\ UNCHANGED <<byId, failures, restarts, history>>
      BY <1>2, <2>1, <3>1, <3>4 DEF InsertChild, Tech
    <3>7. e.status = "approved" => t \in admitted
      BY <1>t, <3>3 DEF IInv
    <3> QED BY <1>t, <3>3, <3>5, <3>6, <3>7, ChangeMoves
  <2>2. CASE ~Stored(Tech(w))
    BY <1>2, <1>m, <2>2, IdleFits DEF InsertChild, Finish
  <2> QED BY <2>1, <2>2
<1>3. CASE ChangeStatus(w)
  <2>1. CASE Stored(Tech(w))
    <3>1. PICK e : e = [table[t] EXCEPT !.status = req[w].status]
      OBVIOUS
    <3>2. e \in Entity /\ e.status = req[w].status /\ e.status # "none"
      BY <1>t, <3>1 DEF Entity, Req, Statuses
    <3>3. /\ table' = [table EXCEPT ![t] = e]
          /\ admitted' = admitted \cup (IF req[w].status = "approved" THEN {t} ELSE {})
          /\ req' = [req EXCEPT ![w] = [req[w] EXCEPT !.pc = "rows"]]
          /\ UNCHANGED <<byId, failures, restarts, born, course>>
      BY <1>3, <2>1, <3>1 DEF ChangeStatus, Tech, Goto
    <3>4. /\ admitted \subseteq admitted' /\ admitted' \in SUBSET Technicians
          /\ e.status = "approved" => t \in admitted'
      BY <1>t, <3>2, <3>3
    <3> QED BY <1>t, <1>r, <3>2, <3>3, <3>4, ChangeMoves
  <2>2. CASE ~Stored(Tech(w))
    BY <1>3, <1>m, <1>r, <2>2 DEF ChangeStatus, Goto
  <2> QED BY <2>1, <2>2
<1>4. CASE ChangeWork(w)
  <2>1. CASE Stored(Tech(w))
    <3>1. PICK e : e = [table[t] EXCEPT !.work = req[w].work]
      OBVIOUS
    <3>2. e \in Entity /\ e.status = table[t].status /\ e.status # "none"
      BY <1>t, <2>1, <3>1 DEF Entity, Req, Stored, Tech
    <3>3. /\ table' = [table EXCEPT ![t] = e]
          /\ req' = [req EXCEPT ![w] = [req[w] EXCEPT !.pc = "rows"]]
          /\ UNCHANGED <<byId, failures, restarts, history>>
      BY <1>4, <2>1, <3>1 DEF ChangeWork, Tech, Goto
    <3>4. e.status = "approved" => t \in admitted
      BY <1>t, <3>2 DEF IInv
    <3> QED BY <1>t, <1>r, <3>2, <3>3, <3>4, ChangeMoves
  <2>2. CASE ~Stored(Tech(w))
    BY <1>4, <1>m, <1>r, <2>2 DEF ChangeWork, Goto
  <2> QED BY <2>1, <2>2
<1>5. CASE Remove(w)
  <2>1. PICK e : e = Absent
    OBVIOUS
  <2>2. e \in Entity /\ e.status = "none" /\ e.children = {}
    BY <2>1, AbsentType DEF Absent
  <2>3. /\ table' = [table EXCEPT ![t] = e]
        /\ req' = [req EXCEPT ![w] = [req[w] EXCEPT !.pc = "rows"]]
        /\ UNCHANGED <<byId, failures, restarts, history>>
    BY <1>5, <2>1 DEF Remove, Tech, Goto
  <2> QED BY <1>t, <1>r, <2>2, <2>3, ChangeMoves
<1> QED BY <1>1, <1>2, <1>3, <1>4, <1>5 DEF Change

\* The copy is loaded and installed.
LEMMA ReloadKeeps ==
    ASSUME IInv, NEW w \in Calls, Reload(w)
    PROVE  IInv'
<1>t. /\ CallInv(req[w]) /\ req[w] \in Req /\ table \in [Technicians -> Entity]
      /\ req \in [Calls -> Req]
  BY DEF IInv, TypeOK, CallInv
<1>1. CASE ReadRows(w)
  <2>1. PICK copy : copy = [t \in Technicians |-> [table[t] EXCEPT !.children = {}]]
    OBVIOUS
  <2>2. copy \in [Technicians -> Entity]
    BY <1>t, <2>1 DEF Entity
  <2>3. \A t \in Technicians : copy[t].status = table[t].status
    BY <1>t, <2>1 DEF Entity
  <2>4. PICK c : c = [req[w] EXCEPT !.pc = "load", !.unread = Children, !.copy = copy]
    OBVIOUS
  <2>5. CallInv(c)
    BY <1>t, <2>2, <2>3, <2>4, StepNames DEF CallInv, Req, Writing, IInv
  <2>6. CallMoves(w, c)
    BY <1>1, <2>1, <2>4 DEF ReadRows, CallMoves, IInv, TypeOK
  <2> QED BY <2>5, <2>6, CallMovesKeeps
<1>2. ASSUME NEW i \in Children, ReadChild(w, i) PROVE IInv'
  <2>1. PICK copy : copy = WithChild(req[w].copy, i)
    OBVIOUS
  <2>2. req[w].copy \in [Technicians -> Entity]
    BY <1>t DEF Req
  <2>3. \A t \in Technicians : copy[t] \in Entity /\ copy[t].status = req[w].copy[t].status
    BY <1>2, <2>1, <2>2 DEF WithChild, Entity
  <2>4. copy \in [Technicians -> Entity]
    BY <2>1, <2>3 DEF WithChild
  <2>5. PICK c : c = [req[w] EXCEPT !.unread = @ \ {i}, !.copy = copy]
    OBVIOUS
  <2>6. CallInv(c)
    BY <1>t, <2>3, <2>4, <2>5 DEF CallInv, Req
  <2>7. req' = [req EXCEPT ![w] = c]
    BY <1>2, <1>t, <2>1, <2>5 DEF ReadChild
  <2>8. CallMoves(w, c)
    BY <1>2, <2>7 DEF ReadChild, CallMoves, IInv, TypeOK
  <2> QED BY <2>6, <2>8, CallMovesKeeps
<1>3. CASE Install(w)
  <2>1. byId' \in [Technicians -> Entity] /\ AdmitsOnlyApproved'
    BY <1>3, <1>t DEF Install, CallInv, Req, AdmitsOnlyApproved, Admits
  <2>2. req' \in [Calls -> Req]
    BY <1>3, <1>t, IdleFits DEF Install, Finish, CallInv
  <2>3. TypeOK'
    BY <1>3, <2>1, <2>2 DEF Install, IInv, TypeOK
  <2>4. ASSUME NEW v \in Calls PROVE CallInv(req[v])'
    <3>1. req'[v] = Idle \/ req'[v] = req[v]
      BY <1>3, <1>t DEF Install, Finish
    <3>2. admitted' = admitted
      BY <1>3 DEF Install
    <3> QED BY <3>1, <3>2, IdleFits DEF CallInv, IInv
  <2> QED BY <1>3, <2>1, <2>3, <2>4 DEF Install, IInv, Whole
<1> QED BY <1>1, <1>2, <1>3 DEF Reload

\* A statement fails or the process starts again.
LEMMA FaultKeeps ==
    ASSUME IInv, Restart \/ \E w \in Calls : Fail(w)
    PROVE  IInv'
<1>1. ASSUME NEW w \in Calls, Fail(w) PROVE IInv'
  <2>1. CallMoves(w, Idle)
    BY <1>1, RegistryAssumption DEF Fail, Finish, CallMoves, IInv, TypeOK
  <2> QED BY <2>1, IdleFits, CallMovesKeeps
<1>2. CASE Restart
  <2>1. \A v \in Calls : req'[v] = Idle
    BY <1>2 DEF Restart
  <2>2. TypeOK'
    BY <1>2, IdleFits, RegistryAssumption DEF Restart, IInv, TypeOK, CallInv
  <2>3. \A v \in Calls : CallInv(req[v])'
    BY <1>2, <2>1, IdleFits DEF Restart, CallInv
  <2> QED BY <1>2, <2>2, <2>3 DEF Restart, IInv, AdmitsOnlyApproved, Admits, Whole
<1> QED BY <1>1, <1>2

\* The invariant holds initially.
LEMMA InitInv == Init => IInv
<1> SUFFICES ASSUME Init PROVE IInv
  OBVIOUS
<1>1. [status |-> "approved", work |-> "offline", children |-> Children] \in Entity
  BY RegistryAssumption DEF Entity, Statuses
<1>2. table \in [Technicians -> Entity]
  BY <1>1, AbsentType DEF Init
<1>3. TypeOK
  BY <1>2, IdleFits, RegistryAssumption DEF Init, TypeOK, CallInv
<1>4. \A t \in Technicians : table[t].status = "approved" => t \in admitted
  BY DEF Init, Absent
<1>5. Whole
  BY DEF Init, Whole, Absent
<1>6. AdmitsOnlyApproved
  BY <1>4 DEF Init, AdmitsOnlyApproved, Admits
<1> QED BY <1>3, <1>4, <1>5, <1>6, IdleFits DEF Init, IInv

\* Every step keeps the invariant.
LEMMA NextInv == IInv /\ [Next]_vars => IInv'
<1> SUFFICES ASSUME IInv, [Next]_vars PROVE IInv'
  OBVIOUS
<1>1. CASE UNCHANGED vars
  BY <1>1 DEF vars, IInv, TypeOK, Whole, AdmitsOnlyApproved, Admits, CallInv
<1>2. ASSUME NEW w \in Calls, NEW t \in Technicians, Arrive(w, t) PROVE IInv'
  BY <1>2, ArriveKeeps
<1>3. ASSUME NEW w \in Calls, Change(w) \/ Reload(w) PROVE IInv'
  BY <1>3, ChangeKeeps, ReloadKeeps
<1>4. ASSUME Restart \/ \E w \in Calls : Fail(w) PROVE IInv'
  BY <1>4, FaultKeeps
<1> QED BY <1>1, <1>2, <1>3, <1>4 DEF Next

\* The invariant holds in every reachable state.
THEOREM Invariance == Spec => []IInv
  BY InitInv, NextInv, PTL DEF Spec

\* Every variable has its type.
THEOREM TypeCorrect == Spec => []TypeOK
<1>1. IInv => TypeOK
  BY DEF IInv
<1> QED BY <1>1, Invariance, PTL

\* The guard admits nobody whom no administrator has ever approved, however
\* reloads overlap and fail.
THEOREM AdmitsOnlyApprovedHolds == Spec => []AdmitsOnlyApproved
<1>1. IInv => AdmitsOnlyApproved
  BY DEF IInv
<1> QED BY <1>1, Invariance, PTL

-----------------------------------------------------------------------------
(* What holds while calls come one after the other *)

\* What the only call in flight relies on: until it writes, the copy agrees with
\* the tables; what it loads is what they hold, less the child tables to come.
Lone(c) ==
    /\ c.pc \in (Writing \ {"child"}) \cup {"idle"} => byId = table
    /\ c.pc = "child" => table[c.tech].status # "none"
    /\ c.pc = "review" => table[c.tech].status \in {"pending", "reviewing"}
    /\ c.pc = "load" =>
         \A t \in Technicians :
           c.copy[t] = [table[t] EXCEPT !.children = table[t].children \ c.unread]

SInv == course = "serial" =>
    /\ InFlight = {} => byId = table
    /\ \A v, w \in InFlight : v = w
    /\ \A w \in InFlight : Lone(req[w])

\* The only call in flight takes a step, or the first one arrives.
LEMMA LoneKeeps ==
    ASSUME IInv, NEW w \in Calls, NEW c,
           \A v \in Calls \ {w} : req[v].pc = "idle",
           req' = [req EXCEPT ![w] = c],
           c.pc \in (Writing \ {"child"}) \cup {"idle"} => byId' = table',
           c.pc = "child" => table'[c.tech].status # "none",
           c.pc = "review" => table'[c.tech].status \in {"pending", "reviewing"},
           c.pc = "load" =>
             \A t \in Technicians :
               c.copy[t] = [table'[t] EXCEPT !.children = table'[t].children \ c.unread]
    PROVE  SInv'
<1>1. \A v \in Calls : req'[v] = IF v = w THEN c ELSE req[v]
  BY DEF IInv, TypeOK
<1>2. InFlight' = IF c.pc = "idle" THEN {} ELSE {w}
  BY <1>1 DEF InFlight, At
<1>3. c.pc # "idle" => Lone(req[w])'
  BY <1>1 DEF Lone
<1> QED BY <1>2, <1>3 DEF SInv

\* A call that is in flight is the only one.
LEMMA Others ==
    ASSUME SInv, course = "serial", NEW w \in Calls, req[w].pc # "idle"
    PROVE  Lone(req[w]) /\ \A v \in Calls \ {w} : req[v].pc = "idle"
  BY DEF SInv, InFlight, At

\* The first call arrives.
LEMMA SerialArrive ==
    ASSUME IInv, SInv, NEW w \in Calls, NEW t \in Technicians, Arrive(w, t)
    PROVE  SInv'
<1>b. ASSUME NEW c, Begin(w, c), c.pc \in (Writing \ {"child"}) \cup {"rows"},
             c.pc = "review" => byId[c.tech].status \in {"pending", "reviewing"}
      PROVE  SInv'
  <2>1. CASE InFlight = {} /\ course = "serial"
    <3>1. byId = table /\ \A v \in Calls : req[v].pc = "idle"
      BY <2>1 DEF SInv, InFlight, At
    <3>2. byId' = table' /\ table' = table /\ req' = [req EXCEPT ![w] = c]
      BY <1>b, <3>1 DEF Begin
    <3> QED BY <1>b, <3>1, <3>2, LoneKeeps DEF Writing
  <2>2. CASE InFlight # {} \/ course # "serial"
    <3>1. course' # "serial"
      BY <1>b, <2>2 DEF Begin
    <3> QED BY <3>1 DEF SInv
  <2> QED BY <2>1, <2>2
<1>1. CASE Signup(w, t)
  <2>1. PICK c : c = [About(t, "insert") EXCEPT !.child = 1] /\ Begin(w, c)
    BY <1>1 DEF Signup
  <2>2. c.pc = "insert"
    BY <2>1 DEF About, Idle
  <2> QED BY <1>b, <2>1, <2>2 DEF Writing
<1>2. CASE UpdateByAdmin(w, t)
  <2>1. CASE Begin(w, About(t, "rows"))
    <3>1. PICK c : c = About(t, "rows") /\ Begin(w, c)
      BY <2>1
    <3>2. c.pc = "rows"
      BY <3>1 DEF About, Idle
    <3> QED BY <1>b, <3>1, <3>2 DEF Writing
  <2>2. ASSUME NEW s \in AdminStatuses, Begin(w, [About(t, "status") EXCEPT !.status = s]) PROVE SInv'
    <3>1. PICK c : c = [About(t, "status") EXCEPT !.status = s] /\ Begin(w, c)
      BY <2>2
    <3>2. c.pc = "status"
      BY <3>1 DEF About, Idle
    <3> QED BY <1>b, <3>1, <3>2 DEF Writing
  <2> QED BY <1>2, <2>1, <2>2 DEF UpdateByAdmin
<1>3. CASE ReviewOnboarding(w, t)
  <2>1. PICK c : c.pc = "review" /\ c.tech = t /\ Begin(w, c)
    BY <1>3 DEF ReviewOnboarding, About, Idle
  <2> QED BY <1>3, <1>b, <2>1 DEF Writing, ReviewOnboarding, Applicant
<1>4. CASE Delete(w, t)
  <2>1. PICK c : c.pc = "delete" /\ Begin(w, c)
    BY <1>4 DEF Delete, About, Idle
  <2> QED BY <1>b, <2>1 DEF Writing
<1>5. CASE UpdateWorkStatus(w, t)
  <2>1. PICK c : c.pc = "work" /\ Begin(w, c)
    BY <1>5 DEF UpdateWorkStatus, About, Idle
  <2> QED BY <1>b, <2>1 DEF Writing
<1> QED BY <1>1, <1>2, <1>3, <1>4, <1>5 DEF Arrive

\* The only call in flight changes the tables.
LEMMA SerialChange ==
    ASSUME IInv, SInv, course = "serial", NEW w \in Calls, Change(w)
    PROVE  SInv'
<1> DEFINE t == req[w].tech
<1>t. /\ CallInv(req[w]) /\ req[w] \in Req /\ t \in Technicians
      /\ table \in [Technicians -> Entity] /\ req[w].pc # "idle"
  BY DEF IInv, TypeOK, CallInv, Change, Insert, InsertChild, ChangeStatus, ChangeWork, Remove, At, Writing
<1>o. Lone(req[w]) /\ \A v \in Calls \ {w} : req[v].pc = "idle"
  BY <1>t, Others
<1>r. ASSUME req' = [req EXCEPT ![w] = [req[w] EXCEPT !.pc = "rows"]] PROVE SInv'
  <2>1. PICK c : c = [req[w] EXCEPT !.pc = "rows"]
    OBVIOUS
  <2>2. c.pc = "rows"
    BY <1>t, <2>1 DEF Req
  <2> QED BY <1>r, <1>o, <2>1, <2>2, LoneKeeps DEF Writing
<1>1. CASE Insert(w)
  <2>1. CASE ChildCount = 0
    BY <1>1, <1>r, <2>1 DEF Insert, Goto
  <2>2. CASE ChildCount # 0
    <3>1. PICK c : c = [req[w] EXCEPT !.pc = "child"] /\ req' = [req EXCEPT ![w] = c]
      BY <1>1, <2>2 DEF Insert, Goto
    <3>2. c.pc = "child" /\ c.tech = t
      BY <1>t, <3>1 DEF Req
    <3>3. table'[t].status = "pending"
      BY <1>1, <1>t DEF Insert, Tech, Absent
    <3> QED BY <1>o, <3>1, <3>2, <3>3, LoneKeeps DEF Writing
  <2> QED BY <2>1, <2>2
<1>2. CASE InsertChild(w)
  <2>1. table[t].status # "none"
    BY <1>2, <1>o DEF InsertChild, At, Lone
  <2>2. PICK c : c = [req[w] EXCEPT !.child = @ + 1,
                                    !.pc = IF req[w].child = ChildCount THEN "rows" ELSE "child"]
    OBVIOUS
  <2>3. c.pc \in {"rows", "child"} /\ c.tech = t
    BY <1>t, <2>2 DEF Req
  <2>4. req' = [req EXCEPT ![w] = c]
    BY <1>2, <2>1, <2>2 DEF InsertChild, Stored, Tech
  <2>5. table'[t].status # "none"
    BY <1>2, <1>t, <2>1 DEF InsertChild, Stored, Tech, Entity
  <2> QED BY <1>o, <2>3, <2>4, <2>5, LoneKeeps DEF Writing
<1>3. CASE ChangeStatus(w) \/ ChangeWork(w) \/ Remove(w)
  BY <1>3, <1>r DEF ChangeStatus, ChangeWork, Remove, Goto
<1> QED BY <1>1, <1>2, <1>3 DEF Change

\* The only call in flight loads and installs the copy.
LEMMA SerialReload ==
    ASSUME IInv, SInv, course = "serial", NEW w \in Calls, Reload(w)
    PROVE  SInv'
<1>t. /\ CallInv(req[w]) /\ req[w] \in Req /\ req[w].copy \in [Technicians -> Entity]
      /\ table \in [Technicians -> Entity] /\ req[w].pc # "idle"
  BY DEF IInv, TypeOK, CallInv, Req, Reload, ReadRows, ReadChild, Install, At
<1>o. Lone(req[w]) /\ \A v \in Calls \ {w} : req[v].pc = "idle"
  BY <1>t, Others
<1>1. CASE ReadRows(w)
  <2>1. PICK copy : copy = [t \in Technicians |-> [table[t] EXCEPT !.children = {}]]
    OBVIOUS
  <2>2. PICK c : c = [req[w] EXCEPT !.pc = "load", !.unread = Children, !.copy = copy]
    OBVIOUS
  <2>3. c.pc = "load" /\ c.unread = Children /\ c.copy = copy
    BY <1>t, <2>2 DEF Req
  <2>4. ASSUME NEW t \in Technicians
        PROVE  copy[t] = [table[t] EXCEPT !.children = table[t].children \ Children]
    BY <1>t, <2>1 DEF Entity
  <2>5. req' = [req EXCEPT ![w] = c] /\ table' = table
    BY <1>1, <2>1, <2>2 DEF ReadRows
  <2> QED BY <1>o, <2>3, <2>4, <2>5, LoneKeeps DEF Writing
<1>2. ASSUME NEW i \in Children, ReadChild(w, i) PROVE SInv'
  <2>1. PICK copy : copy = WithChild(req[w].copy, i)
    OBVIOUS
  <2>2. PICK c : c = [req[w] EXCEPT !.unread = @ \ {i}, !.copy = copy]
    OBVIOUS
  <2>3. c.pc = "load" /\ c.unread = req[w].unread \ {i} /\ c.copy = copy
    BY <1>2, <1>t, <2>2 DEF Req, ReadChild, At
  <2>4. ASSUME NEW t \in Technicians
        PROVE  copy[t] = [table[t] EXCEPT !.children = table[t].children \ (req[w].unread \ {i})]
    <3>1. req[w].copy[t] = [table[t] EXCEPT !.children = table[t].children \ req[w].unread]
      BY <1>2, <1>o DEF ReadChild, At, Lone
    <3>2. table[t].status = "none" => table[t].children = {}
      BY DEF IInv, Whole
    <3>3. copy[t] = IF table[t].status # "none" /\ i \in table[t].children
                      THEN [req[w].copy[t] EXCEPT !.children = @ \cup {i}]
                      ELSE req[w].copy[t]
      BY <1>t, <2>1, <3>1 DEF WithChild, Entity
    <3>4. /\ table[t] \in Entity
          /\ i \in table[t].children =>
               (table[t].children \ req[w].unread) \cup {i} = table[t].children \ (req[w].unread \ {i})
          /\ i \notin table[t].children =>
               table[t].children \ req[w].unread = table[t].children \ (req[w].unread \ {i})
      BY <1>2, <1>t DEF ReadChild
    <3> QED BY <3>1, <3>2, <3>3, <3>4 DEF Entity
  <2>5. req' = [req EXCEPT ![w] = c] /\ table' = table
    BY <1>2, <1>t, <2>1, <2>2 DEF ReadChild
  <2> QED BY <1>o, <2>3, <2>4, <2>5, LoneKeeps DEF Writing
<1>3. CASE Install(w)
  <2>1. ASSUME NEW t \in Technicians PROVE req[w].copy[t] = table[t]
    BY <1>3, <1>o, <1>t DEF Install, At, Lone, Entity
  <2>2. byId' = table' /\ table' = table
    BY <1>3, <1>t, <2>1 DEF Install
  <2>3. PICK c : c = Idle
    OBVIOUS
  <2>4. c.pc = "idle" /\ req' = [req EXCEPT ![w] = c]
    BY <1>3, <2>3 DEF Install, Finish, Idle
  <2> QED BY <1>o, <2>2, <2>4, LoneKeeps DEF Writing
<1> QED BY <1>1, <1>2, <1>3 DEF Reload

\* The condition holds initially and every step keeps it.
LEMMA SerialInv == Spec => []SInv
<1>1. Init => SInv
  BY DEF Init, SInv, InFlight, At, Idle
<1>2. ASSUME IInv, SInv, [Next]_vars PROVE SInv'
  <2>1. CASE UNCHANGED vars
    BY <1>2, <2>1 DEF vars, SInv, InFlight, At, Lone
  <2>2. ASSUME NEW w \in Calls, NEW t \in Technicians, Arrive(w, t) PROVE SInv'
    BY <1>2, <2>2, SerialArrive
  <2>3. ASSUME NEW w \in Calls, Change(w) \/ Reload(w) PROVE SInv'
    <3>1. CASE course = "serial"
      BY <1>2, <2>3, <3>1, SerialChange, SerialReload
    <3>2. CASE course # "serial"
      <4>1. course' = course
        BY <2>3 DEF Change, Reload, Insert, InsertChild, ChangeStatus, ChangeWork, Remove, ReadRows,
                    ReadChild, Install
      <4> QED BY <3>2, <4>1 DEF SInv
    <3> QED BY <3>1, <3>2
  <2>4. ASSUME NEW w \in Calls, Fail(w) PROVE SInv'
    BY <2>4 DEF Fail, SInv
  <2>5. CASE Restart
    <3>1. InFlight' = {} /\ byId' = table'
      BY <2>5 DEF Restart, InFlight, At, Idle
    <3> QED BY <3>1 DEF SInv
  <2> QED BY <1>2, <2>1, <2>2, <2>3, <2>4, <2>5 DEF Next
<1> QED BY <1>1, <1>2, Invariance, PTL DEF Spec

\* Between calls that come one after the other the copy is what the tables hold.
THEOREM CopyAgreesHolds == Spec => []CopyAgrees
<1>1. SInv => CopyAgrees
  BY DEF SInv, CopyAgrees
<1> QED BY <1>1, SerialInv, PTL

\* A review changes the status of applicants only, while calls come one after
\* the other.
THEOREM ReviewsApplicantsOnlyHolds == Spec => ReviewsApplicantsOnly
<1>1. ASSUME SInv, [Next]_vars
      PROVE  [\A w \in Calls : At(w, "review") /\ course = "serial" /\ table' # table =>
                table[Tech(w)].status \in {"pending", "reviewing"}]_vars
  BY <1>1 DEF SInv, InFlight, Lone, At, Tech
<1> QED BY <1>1, SerialInv, PTL DEF Spec, ReviewsApplicantsOnly

-----------------------------------------------------------------------------
(* Registration *)

\* Someone is on the way to insert child row i of t.
Coming(t, i) == \E w \in Calls : req[w].pc = "child" /\ req[w].tech = t /\ req[w].child <= i

RInv == failures = 0 /\ restarts = 0 =>
    \A t \in Technicians, i \in Children :
        table[t].status # "none" /\ i \notin table[t].children => Coming(t, i)

\* A step that leaves the insertions of others and the tables alone.
LEMMA RegistrationMoves ==
    ASSUME IInv, RInv, NEW w \in Calls, NEW c, UNCHANGED <<table, restarts>>,
           req' = [req EXCEPT ![w] = c], req[w].pc # "child", failures' = failures
    PROVE  RInv'
<1>1. \A v \in Calls : v # w => req'[v] = req[v]
  BY DEF IInv, TypeOK
<1> QED BY <1>1 DEF RInv, Coming

\* Every step keeps the condition.
LEMMA RegistrationInv == Spec => []RInv
<1>1. Init => RInv
  BY DEF Init, RInv, Absent
<1>2. ASSUME IInv, RInv, [Next]_vars PROVE RInv'
  <2>t. /\ table \in [Technicians -> Entity] /\ req \in [Calls -> Req]
        /\ failures \in Nat /\ restarts \in Nat
    BY <1>2, RegistryAssumption DEF IInv, TypeOK
  <2>1. CASE UNCHANGED vars
    BY <1>2, <2>1 DEF vars, RInv, Coming
  <2>2. ASSUME NEW w \in Calls, NEW t \in Technicians, Arrive(w, t) PROVE RInv'
    <3>1. PICK c : Begin(w, c)
      BY <2>2 DEF Arrive, Signup, UpdateByAdmin, ReviewOnboarding, Delete, UpdateWorkStatus
    <3> QED BY <1>2, <3>1, RegistrationMoves DEF Begin, At
  <2>3. ASSUME NEW w \in Calls, Insert(w) PROVE RInv'
    <3>1. PICK t \in Technicians : t = req[w].tech /\ req[w].child = 1
      BY <1>2, <2>3 DEF IInv, CallInv, Insert, At, Writing
    <3>2. \A u \in Technicians : u # t => table'[u] = table[u]
      BY <2>3, <2>t, <3>1 DEF Insert, Tech
    <3>3. \A v \in Calls : v # w => req'[v] = req[v]
      BY <2>3, <2>t DEF Insert, Goto
    <3>4. \A u \in Technicians, i \in Children : u # t /\ Coming(u, i) => Coming(u, i)'
      BY <2>3, <3>1, <3>3 DEF Insert, At, Coming
    <3>5. ASSUME NEW i \in Children PROVE Coming(t, i)'
      <4>1. ChildCount # 0 /\ 1 <= i
        BY RegistryAssumption DEF Children
      <4>2. req'[w] = [req[w] EXCEPT !.pc = "child"]
        BY <2>3, <2>t, <4>1 DEF Insert, Goto
      <4>3. req'[w].pc = "child" /\ req'[w].tech = t /\ req'[w].child = 1
        BY <2>t, <3>1, <4>2 DEF Req
      <4> QED BY <4>1, <4>3 DEF Coming
    <3> QED BY <1>2, <2>3, <3>2, <3>4, <3>5 DEF RInv, Insert
  <2>4. ASSUME NEW w \in Calls, InsertChild(w) PROVE RInv'
    <3>1. PICK t \in Technicians : t = req[w].tech /\ req[w].child \in Children /\ req[w] \in Req
      BY <1>2, <2>4 DEF IInv, CallInv, InsertChild, At, Writing
    <3>2. \A v \in Calls : v # w => req'[v] = req[v]
      BY <2>4, <2>t DEF InsertChild, Finish
    <3>3. \A u \in Technicians, i \in Children : u # t /\ Coming(u, i) => Coming(u, i)'
      BY <3>1, <3>2 DEF Coming
    <3>4. \A u \in Technicians : u # t => table'[u] = table[u]
      BY <2>4, <2>t, <3>1 DEF InsertChild, Tech
    <3>5. ASSUME NEW i \in Children, failures = 0, restarts = 0,
                 table'[t].status # "none", i \notin table'[t].children
          PROVE  Coming(t, i)'
      <4>1. Stored(Tech(w)) /\ table[t].status # "none" /\ i \notin table[t].children /\ i # req[w].child
        BY <2>4, <2>t, <3>1, <3>5 DEF InsertChild, Tech, Stored, Entity
      <4>2. PICK v \in Calls : req[v].pc = "child" /\ req[v].tech = t /\ req[v].child <= i
        BY <1>2, <3>1, <3>5, <4>1 DEF RInv, Coming
      <4>3. CASE v # w
        BY <3>2, <4>2, <4>3 DEF Coming
      <4>4. CASE v = w
        <5>1. req[w].child # ChildCount /\ req[w].child + 1 <= i
          BY <3>1, <4>1, <4>2, <4>4, RegistryAssumption DEF Children
        <5>2. PICK c : c = [req[w] EXCEPT !.child = @ + 1, !.pc = "child"]
          OBVIOUS
        <5>3. req'[w] = c
          BY <2>4, <2>t, <4>1, <5>1, <5>2 DEF InsertChild
        <5>4. c.pc = "child" /\ c.tech = t /\ c.child = req[w].child + 1
          BY <3>1, <5>2 DEF Req
        <5> QED BY <5>1, <5>3, <5>4 DEF Coming
      <4> QED BY <4>3, <4>4
    <3> QED BY <1>2, <2>4, <3>3, <3>4, <3>5 DEF RInv, InsertChild
  <2>5. ASSUME NEW w \in Calls, ChangeStatus(w) \/ ChangeWork(w) \/ Remove(w) PROVE RInv'
    <3>1. /\ \A v \in Calls : v # w => req'[v] = req[v]
          /\ req[w].pc # "child" /\ failures' = failures /\ restarts' = restarts
      BY <2>5, <2>t DEF ChangeStatus, ChangeWork, Remove, Goto, At
    <3>2. \A u \in Technicians, i \in Children : Coming(u, i) => Coming(u, i)'
      BY <3>1 DEF Coming
    <3>3. ASSUME NEW u \in Technicians, table'[u].status # "none"
          PROVE  table[u].status # "none" /\ table'[u].children = table[u].children
      <4>1. req[w].tech \in Technicians /\ req[w] \in Req
        BY <1>2, <2>5 DEF IInv, CallInv, ChangeStatus, ChangeWork, Remove, At, Writing
      <4>2. CASE ChangeStatus(w)
        BY <2>t, <3>3, <4>1, <4>2 DEF ChangeStatus, Stored, Tech, Entity
      <4>3. CASE ChangeWork(w)
        BY <2>t, <3>3, <4>1, <4>3 DEF ChangeWork, Stored, Tech, Entity
      <4>4. CASE Remove(w)
        BY <2>t, <3>3, <4>1, <4>4 DEF Remove, Tech, Absent
      <4> QED BY <2>5, <4>2, <4>3, <4>4
    <3> QED BY <1>2, <3>1, <3>2, <3>3 DEF RInv
  <2>6. ASSUME NEW w \in Calls, Reload(w) PROVE RInv'
    <3>1. PICK c : req' = [req EXCEPT ![w] = c]
      BY <2>6, <2>t DEF Reload, ReadRows, ReadChild, Install, Finish
    <3>2. UNCHANGED <<table, restarts, failures>> /\ req[w].pc # "child"
      BY <2>6 DEF Reload, ReadRows, ReadChild, Install, At
    <3> QED BY <1>2, <3>1, <3>2, RegistrationMoves
  <2>7. ASSUME Restart \/ \E w \in Calls : Fail(w) PROVE RInv'
    <3>1. failures' # 0 \/ restarts' # 0
      BY <2>7, <2>t DEF Restart, Fail
    <3> QED BY <3>1 DEF RInv
  <2> QED BY <1>2, <2>1, <2>2, <2>3, <2>4, <2>5, <2>6, <2>7 DEF Next, Change
<1> QED BY <1>1, <1>2, Invariance, PTL DEF Spec

\* As long as nothing failed, a technician who lacks a child row is being
\* registered.
THEOREM RegistrationCompleteHolds == Spec => []RegistrationComplete
<1>1. ASSUME IInv, RInv PROVE RegistrationComplete
  <2>1. ASSUME NEW t \in Technicians, failures = 0, restarts = 0, Stored(t), table[t].children # Children
        PROVE  \E w \in Calls : At(w, "child") /\ Tech(w) = t
    <3>1. PICK i \in Children : i \notin table[t].children
      BY <1>1, <2>1 DEF IInv, TypeOK, Entity
    <3> QED BY <1>1, <2>1, <3>1 DEF RInv, Coming, Stored, At, Tech
  <2> QED BY <2>1 DEF RegistrationComplete
<1> QED BY <1>1, Invariance, RegistrationInv, PTL
=============================================================================
