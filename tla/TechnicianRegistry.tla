------------------------- MODULE TechnicianRegistry -------------------------
(***************************************************************************)
(* The technicians' tables and the copy of them that the process keeps in  *)
(* memory (TechniciansService).                                            *)
(*                                                                         *)
(* The guard of the technician portal, the credentials check and every     *)
(* administrator's check read the copy.  Whoever changes the tables loads  *)
(* them anew afterwards: first the technicians, then their child tables    *)
(* side by side, and replaces the copy at the end.  Reloads may overlap.   *)
(***************************************************************************)
EXTENDS Naturals, FiniteSets

CONSTANTS
    Technicians,
    ChildCount,     \* child tables: capabilities, regions, availability, documents
    Calls,          \* calls that may be in flight
    NoTech,         \* the call is not about a technician
    WorkStatuses,   \* what a technician sets himself to
    AdminStatuses,  \* statuses administrators give outside of the onboarding
    MaxInFlight,    \* bound: calls in flight at once
    MaxFailures,    \* bound: statements that fail in a behaviour
    MaxRestarts     \* bound: restarts of the process

Statuses == {"pending", "reviewing", "approved", "rejected", "suspended"}

ASSUME RegistryAssumption ==
    /\ ChildCount \in Nat
    /\ "offline" \in WorkStatuses
    /\ AdminStatuses \subseteq Statuses
    /\ NoTech \notin Technicians
    /\ MaxFailures \in Nat
    /\ MaxRestarts \in Nat

VARIABLES
    table,      \* technicians: the row of each, and the child tables that name him
    byId,       \* the copy in memory
    req,        \* the calls in flight
    failures,   \* statements that failed so far
    restarts,   \* restarts so far
    born,       \* history: ids given out
    admitted,   \* history: technicians an administrator has ever approved
    course      \* history: serial until calls overlap or a statement fails

history == <<born, admitted, course>>

vars == <<table, byId, req, failures, restarts, history>>

Children == 1..ChildCount

\* A technician's row with the child tables that hold rows of his.  They are
\* numbered in the order in which they are filled.
Entity == [status: Statuses \cup {"none"}, work: WorkStatuses, children: SUBSET Children]

Absent == [status |-> "none", work |-> "offline", children |-> {}]

\* What a call is about to execute:
\*   insert  insert the technician             child   insert into a child table
\*   status  update his status                 review  the same, for an applicant
\*   work    update his work status            delete  delete him
\*   rows    load the technicians              load    load the child tables
Steps == {"idle", "insert", "child", "status", "review", "work", "delete", "rows", "load"}

\* unread: child tables to load;  copy: what the call has loaded.
Req == [pc: Steps, tech: Technicians \cup {NoTech}, status: Statuses, work: WorkStatuses,
        child: Children \cup {ChildCount + 1}, unread: SUBSET Children,
        copy: [Technicians -> Entity]]

Nothing == [t \in Technicians |-> Absent]

Idle == [pc |-> "idle", tech |-> NoTech, status |-> "pending", work |-> "offline",
         child |-> ChildCount + 1, unread |-> {}, copy |-> Nothing]

TypeOK ==
    /\ table \in [Technicians -> Entity]
    /\ byId \in [Technicians -> Entity]
    /\ req \in [Calls -> Req]
    /\ failures \in 0..MaxFailures
    /\ restarts \in 0..MaxRestarts
    /\ born \in SUBSET Technicians
    /\ admitted \in SUBSET Technicians
    /\ course \in {"serial", "disturbed"}

\* Some technicians are registered and approved when the process has started.
Init ==
    /\ born \in SUBSET Technicians
    /\ admitted = born
    /\ table = [t \in Technicians |->
                  IF t \in born
                    THEN [status |-> "approved", work |-> "offline", children |-> Children]
                    ELSE Absent]
    /\ byId = table
    /\ req = [w \in Calls |-> Idle]
    /\ failures = 0
    /\ restarts = 0
    /\ course = "serial"

-----------------------------------------------------------------------------
(* Helpers *)

At(w, pc) == req[w].pc = pc

InFlight == {w \in Calls : ~At(w, "idle")}

Stored(t) == table[t].status # "none"

Cached(t) == byId[t].status # "none"

\* The technician a call is about.
Tech(w) == req[w].tech

\* A call arrives.
Begin(w, c) ==
    /\ At(w, "idle")
    /\ Cardinality(InFlight) < MaxInFlight
    /\ req' = [req EXCEPT ![w] = c]
    /\ course' = IF InFlight = {} THEN course ELSE "disturbed"
    /\ UNCHANGED <<table, byId, failures, restarts, admitted>>

About(t, pc) == [Idle EXCEPT !.pc = pc, !.tech = t]

Goto(w, pc) == req' = [req EXCEPT ![w].pc = pc]

Finish(w) == req' = [req EXCEPT ![w] = Idle]

\* getApprovedById: what the guard of the portal asks.
Admits(t) == byId[t].status = "approved"

Applicant(t) == byId[t].status \in {"pending", "reviewing"}

-----------------------------------------------------------------------------
(* Arrivals: what is checked is checked in the copy *)

\* signup and createByAdmin.
Signup(w, t) ==
    /\ t \notin born
    /\ born' = born \cup {t}
    /\ Begin(w, [About(t, "insert") EXCEPT !.child = 1])

\* updateByAdmin; without a status it only renames.
UpdateByAdmin(w, t) ==
    /\ Cached(t)
    /\ \/ \E s \in AdminStatuses : Begin(w, [About(t, "status") EXCEPT !.status = s])
       \/ Begin(w, About(t, "rows"))
    /\ UNCHANGED born

ReviewOnboarding(w, t) ==
    /\ Applicant(t)
    /\ \E s \in {"approved", "rejected", "reviewing"} :
         Begin(w, [About(t, "review") EXCEPT !.status = s])
    /\ UNCHANGED born

\* deleteByAdmin, and deleteOnboardingRecord for an applicant.
Delete(w, t) ==
    /\ Cached(t)
    /\ Begin(w, About(t, "delete"))
    /\ UNCHANGED born

UpdateWorkStatus(w, t) ==
    /\ Admits(t)
    /\ \E s \in WorkStatuses : Begin(w, [About(t, "work") EXCEPT !.work = s])
    /\ UNCHANGED born

-----------------------------------------------------------------------------
(* Statements that change the tables *)

\* persistNewTechnician: the row, ...
Insert(w) ==
    /\ At(w, "insert")
    /\ table' = [table EXCEPT ![Tech(w)] = [Absent EXCEPT !.status = "pending"]]
    /\ Goto(w, IF ChildCount = 0 THEN "rows" ELSE "child")
    /\ UNCHANGED <<byId, failures, restarts, history>>

\* A bug: the last child table is left out.
InsertAllButLast(w) ==
    /\ At(w, "child")
    /\ IF Stored(Tech(w)) /\ req[w].child < ChildCount
         THEN /\ table' = [table EXCEPT ![Tech(w)].children = @ \cup {req[w].child}]
              /\ req' = [req EXCEPT ![w].child = @ + 1]
         ELSE /\ Goto(w, "rows")
              /\ UNCHANGED table
    /\ UNCHANGED <<byId, failures, restarts, history>>

\* ... then one child table after the other; a foreign key refuses the rows of a
\* technician who was deleted meanwhile.
InsertChild(w) ==
    /\ At(w, "child")
    /\ IF Stored(Tech(w))
         THEN /\ table' = [table EXCEPT ![Tech(w)].children = @ \cup {req[w].child}]
              /\ req' = [req EXCEPT ![w].child = @ + 1,
                                    ![w].pc = IF req[w].child = ChildCount THEN "rows" ELSE "child"]
         ELSE /\ Finish(w)
              /\ UNCHANGED table
    /\ UNCHANGED <<byId, failures, restarts, history>>

\* A bug: the approval is applied to the copy at once.
ChangeInMemory(w) ==
    /\ req[w].pc \in {"status", "review"}
    /\ byId' = [byId EXCEPT ![Tech(w)].status = req[w].status]
    /\ Goto(w, "rows")
    /\ UNCHANGED <<table, failures, restarts, history>>

\* An update of a row that was deleted meanwhile changes nothing.
ChangeStatus(w) ==
    /\ req[w].pc \in {"status", "review"}
    /\ IF Stored(Tech(w))
         THEN /\ table' = [table EXCEPT ![Tech(w)].status = req[w].status]
              /\ admitted' = admitted \cup (IF req[w].status = "approved" THEN {Tech(w)} ELSE {})
         ELSE UNCHANGED <<table, admitted>>
    /\ Goto(w, "rows")
    /\ UNCHANGED <<byId, failures, restarts, born, course>>

ChangeWork(w) ==
    /\ At(w, "work")
    /\ IF Stored(Tech(w))
         THEN table' = [table EXCEPT ![Tech(w)].work = req[w].work]
         ELSE UNCHANGED table
    /\ Goto(w, "rows")
    /\ UNCHANGED <<byId, failures, restarts, history>>

\* A bug: the row is kept and marked.
MarkRemoved(w) ==
    /\ At(w, "delete")
    /\ table' = [table EXCEPT ![Tech(w)].status = "deleted"]
    /\ Goto(w, "rows")
    /\ UNCHANGED <<byId, failures, restarts, history>>

\* The child tables follow by ON DELETE CASCADE.
Remove(w) ==
    /\ At(w, "delete")
    /\ table' = [table EXCEPT ![Tech(w)] = Absent]
    /\ Goto(w, "rows")
    /\ UNCHANGED <<byId, failures, restarts, history>>

-----------------------------------------------------------------------------
(* reload, hydrateFromDatabase *)

ReadRows(w) ==
    /\ At(w, "rows")
    /\ req' = [req EXCEPT ![w].pc = "load", ![w].unread = Children,
                          ![w].copy = [t \in Technicians |-> [table[t] EXCEPT !.children = {}]]]
    /\ UNCHANGED <<table, byId, failures, restarts, history>>

\* What was loaded, with the rows of a child table for the technicians in it.
WithChild(copy, i) ==
    [t \in Technicians |->
       IF copy[t].status # "none" /\ i \in table[t].children
         THEN [copy[t] EXCEPT !.children = @ \cup {i}]
         ELSE copy[t]]

\* A child table is loaded; the four statements run side by side.
ReadChild(w, i) ==
    /\ At(w, "load")
    /\ i \in req[w].unread
    /\ req' = [req EXCEPT ![w].unread = @ \ {i}, ![w].copy = WithChild(req[w].copy, i)]
    /\ UNCHANGED <<table, byId, failures, restarts, history>>

\* A bug: technicians that are gone stay in the copy.
InstallOver(w) ==
    /\ At(w, "load")
    /\ req[w].unread = {}
    /\ byId' = [t \in Technicians |->
                  IF req[w].copy[t].status # "none" THEN req[w].copy[t] ELSE byId[t]]
    /\ Finish(w)
    /\ UNCHANGED <<table, failures, restarts, history>>

\* The copy is cleared and filled without a pause.
Install(w) ==
    /\ At(w, "load")
    /\ req[w].unread = {}
    /\ byId' = req[w].copy
    /\ Finish(w)
    /\ UNCHANGED <<table, failures, restarts, history>>

\* A statement fails: what was written remains, the copy is not loaded.
Fail(w) ==
    /\ ~At(w, "idle")
    /\ failures < MaxFailures
    /\ failures' = failures + 1
    /\ course' = "disturbed"
    /\ Finish(w)
    /\ UNCHANGED <<table, byId, restarts, born, admitted>>

\* The process starts again: onModuleInit loads the copy before calls arrive.
Restart ==
    /\ restarts < MaxRestarts
    /\ restarts' = restarts + 1
    /\ byId' = table
    /\ req' = [w \in Calls |-> Idle]
    /\ UNCHANGED <<table, failures, history>>

-----------------------------------------------------------------------------
(* Specification *)

Arrive(w, t) ==
    \/ Signup(w, t) \/ UpdateByAdmin(w, t) \/ ReviewOnboarding(w, t) \/ Delete(w, t)
    \/ UpdateWorkStatus(w, t)

Change(w) == Insert(w) \/ InsertChild(w) \/ ChangeStatus(w) \/ ChangeWork(w) \/ Remove(w)

Reload(w) == ReadRows(w) \/ Install(w) \/ \E i \in Children : ReadChild(w, i)

Next ==
    \/ \E w \in Calls, t \in Technicians : Arrive(w, t)
    \/ \E w \in Calls : Change(w) \/ Reload(w) \/ Fail(w)
    \/ Restart

Spec == Init /\ [][Next]_vars

-----------------------------------------------------------------------------
(* Properties *)

\* While calls come one after the other and nothing fails, the copy is what the
\* tables hold whenever a call is over, whatever was registered, reviewed,
\* changed and deleted before.
CopyAgrees == course = "serial" /\ InFlight = {} => byId = table

\* Under the same condition reviewOnboarding, which checks the copy, changes the
\* status of applicants only.
ReviewsApplicantsOnly ==
    [][\A w \in Calls : At(w, "review") /\ course = "serial" /\ table' # table =>
         table[Tech(w)].status \in {"pending", "reviewing"}]_vars

\* However reloads overlap and wherever they fail, the guard admits nobody whom
\* no administrator has ever approved.
AdmitsOnlyApproved == \A t \in Technicians : Admits(t) => t \in admitted

\* A technician in the table has all of his child rows, unless his registration
\* is in flight or was cut off by a failure or a restart.
RegistrationComplete ==
    failures = 0 /\ restarts = 0 =>
        \A t \in Technicians :
            Stored(t) /\ table[t].children # Children =>
                \E w \in Calls : At(w, "child") /\ Tech(w) = t
=============================================================================
