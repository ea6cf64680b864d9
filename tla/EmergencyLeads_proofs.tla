----------------------- MODULE EmergencyLeads_proofs -----------------------
(***************************************************************************)
(* Proofs about EmergencyLeads, for any sets of leads, orders and calls    *)
(* and any number of failures and restarts.                                *)
(***************************************************************************)
EXTENDS EmergencyLeads, SequenceTheorems, TLAPS

-----------------------------------------------------------------------------
(* The inductive invariant *)

\* Whoever does something does it for a lead, and whoever executes
\* finalizeLeadBody is at the head of that lead's chain.
MutexHeld(w) ==
    /\ ~At(w, "idle") => req[w].lead \in Leads
    /\ req[w].pc \in Holding => HoldsMutex(w)

\* The snapshot the holder decides on still tells whether the lead is linked,
\* and no order is drafted for a lead that is linked already.
SnapshotCurrent(w) ==
    /\ At(w, "body") => req[w].row.order = lead[req[w].lead].order
    /\ req[w].pc \in {"expired", "draft"} \cup Drafting => lead[req[w].lead].order = NoOrder
    /\ req[w].pc \in {"linked", "heal"} => lead[req[w].lead].order # NoOrder

\* The order in the hands of a holder was inserted for its lead and is not
\* given up; the steps taken so far show in the row.
DraftInFlight(w) == req[w].pc \in Drafting =>
    /\ req[w].draft \in Orders \ abandoned
    /\ order[req[w].draft].lead = req[w].lead
    /\ req[w].pc \in {"placed", "notified"} => order[req[w].draft].status = "matching"
    /\ At(w, "notified") => order[req[w].draft].offered

\* Who is about to convert a lead was forced to or came after the deadline.
ConversionJustified(w) ==
    /\ req[w].forced => req[w].lead \in forced
    /\ req[w].pc \in {"expired", "draft"} => req[w].lead \in late
    /\ At(w, "body") /\ Unconverted(w) /\ req[w].row.status = "converted_to_order" =>
         req[w].lead \in forced

WorkerInv(w) ==
    MutexHeld(w) /\ SnapshotCurrent(w) /\ DraftInFlight(w) /\ ConversionJustified(w)

\* Every order drafted for a lead is linked, in flight, or left over by a
\* finalization that failed.
OrdersAccounted ==
    \A o \in Orders \ abandoned : order[o].lead \in Leads =>
        \/ lead[order[o].lead].order = o
        \/ \E w \in Workers : req[w].pc \in Drafting /\ req[w].draft = o

\* An order that was given up is used and is nobody's order.
AbandonedUnlinked ==
    /\ \A o \in abandoned : order[o].lead # NoLead
    /\ \A l \in Leads : lead[l].order \notin abandoned

\* A lead that is converted in name only was forced; one that was not filed has
\* no order.
UnlinkedLead ==
    \A l \in Leads :
        /\ ~Filed(l) => lead[l].order = NoOrder
        /\ lead[l].status = "converted_to_order" /\ lead[l].order = NoOrder => l \in forced

IInv ==
    /\ TypeOK
    /\ \A w \in Workers : WorkerInv(w)
    /\ OrdersAccounted
    /\ AbandonedUnlinked
    /\ UnlinkedLead
    /\ LinkedOrderIsOffered
    /\ NoEarlyOrder

-----------------------------------------------------------------------------
(* What one update does to a table, a chain or a worker *)

\* The steps a worker can be at, and which of them need the mutex.
LEMMA StepNames ==
    /\ {"idle", "timeout", "written", "queued", "body", "expired", "draft", "inserted",
        "placed", "notified", "linked", "heal"} \subseteq Steps
    /\ {"body", "expired", "draft", "inserted", "placed", "notified", "linked", "heal"}
          = Holding
    /\ Drafting = {"inserted", "placed", "notified"}
  BY DEF Steps, Holding, Drafting

\* updatePartial of the status leaves the link of every lead and the status of
\* the other leads alone.
LEMMA StatusWritten ==
    ASSUME TypeOK, NEW l \in Leads, NEW s \in MatchingStatus, SetStatus(l, s)
    PROVE  /\ lead' \in [Leads -> LeadRow]
           /\ \A k \in Leads : lead'[k].order = lead[k].order
           /\ \A k \in Leads : lead'[k].status = IF k = l THEN s ELSE lead[k].status
  BY DEF TypeOK, SetStatus, LeadRow

\* A worker that begins has no snapshot and no order; the others go on.
LEMMA Begun ==
    ASSUME TypeOK, NEW w \in Workers, NEW pc \in Steps, NEW l \in Leads \cup {NoLead},
           NEW f \in BOOLEAN, Begin(w, pc, l, f)
    PROVE  /\ req' \in [Workers -> Req]
           /\ req'[w].pc = pc /\ req'[w].lead = l /\ req'[w].forced = f
           /\ \A v \in Workers \ {w} : req'[v] = req[v]
<1>1. Working(pc, l, f) \in Req
  BY DEF Working, Req, NoRow, LeadRow
<1> QED BY <1>1 DEF TypeOK, Begin, Working

\* Moving on changes the step of one worker and nothing else.
LEMMA Moved ==
    ASSUME TypeOK, NEW w \in Workers, NEW pc \in Steps, Goto(w, pc)
    PROVE  /\ req' \in [Workers -> Req]
           /\ req'[w].pc = pc /\ req'[w].lead = req[w].lead /\ req'[w].row = req[w].row
           /\ req'[w].forced = req[w].forced /\ req'[w].draft = req[w].draft
           /\ \A v \in Workers \ {w} : req'[v] = req[v]
  BY DEF TypeOK, Goto, Req

\* findById gives a worker the row of its lead.
LEMMA Snapped ==
    ASSUME TypeOK, NEW w \in Workers, NEW pc \in Steps, req[w].lead \in Leads, Snapshot(w, pc)
    PROVE  /\ req' \in [Workers -> Req]
           /\ req'[w].pc = pc /\ req'[w].lead = req[w].lead
           /\ req'[w].row = lead[req[w].lead] /\ req'[w].forced = req[w].forced
           /\ \A v \in Workers \ {w} : req'[v] = req[v]
<1>1. lead[req[w].lead] \in LeadRow
  BY DEF TypeOK
<1> QED BY <1>1 DEF TypeOK, Snapshot, Req

\* Two holders of one mutex are the same worker.
LEMMA HoldersApart ==
    ASSUME NEW v \in Workers, NEW w \in Workers, MutexHeld(v), MutexHeld(w),
           req[v].pc \in Holding, req[w].pc \in Holding, req[v].lead = req[w].lead
    PROVE  v = w
  BY DEF MutexHeld, HoldsMutex

\* Joining the end of a chain does not take the mutex away from its holder.
LEMMA Enqueued ==
    ASSUME TypeOK, \A v \in Workers : MutexHeld(v), NEW w \in Workers, NEW l \in Leads,
           NEW f \in BOOLEAN, Enqueue(w, l, f)
    PROVE  /\ queue' \in [Leads -> Seq(Workers)]
           /\ req' \in [Workers -> Req]
           /\ req'[w].pc = "queued" /\ req'[w].lead = l /\ req'[w].forced = f
           /\ \A v \in Workers \ {w} : req'[v] = req[v]
           /\ \A v \in Workers \ {w} : req[v].pc \in Holding => HoldsMutex(v)'
<1>1. /\ req' \in [Workers -> Req]
      /\ req'[w].pc = "queued" /\ req'[w].lead = l /\ req'[w].forced = f
      /\ \A v \in Workers \ {w} : req'[v] = req[v]
  BY Begun, StepNames DEF Enqueue
<1>2. queue' = [queue EXCEPT ![l] = Append(@, w)] /\ queue \in [Leads -> Seq(Workers)]
  BY DEF Enqueue, TypeOK
<1>3. /\ Append(queue[l], w) \in Seq(Workers)
      /\ Append(queue[l], w) # <<>>
      /\ queue[l] # <<>> => Head(Append(queue[l], w)) = Head(queue[l])
  BY <1>2, AppendProperties, HeadTailAppend, SMT
<1>4. ASSUME NEW v \in Workers \ {w}, req[v].pc \in Holding
      PROVE  HoldsMutex(v)'
  <2>1. req[v].lead \in Leads /\ HoldsMutex(v)
    BY <1>4, StepNames DEF MutexHeld, At
  <2> QED BY <1>1, <1>2, <1>3, <2>1 DEF HoldsMutex
<1> QED BY <1>1, <1>2, <1>3, <1>4

\* When the holder's promise settles the mutexes of the other leads stay held.
LEMMA Released ==
    ASSUME TypeOK, \A v \in Workers : MutexHeld(v), NEW w \in Workers, HoldsMutex(w),
           ~At(w, "idle"), req' = [req EXCEPT ![w] = Idle],
           queue' = [queue EXCEPT ![req[w].lead] = Tail(@)]
    PROVE  /\ queue' \in [Leads -> Seq(Workers)]
           /\ req' \in [Workers -> Req]
           /\ req'[w].pc = "idle" /\ req'[w].forced = FALSE
           /\ \A v \in Workers \ {w} : req'[v] = req[v]
           /\ \A v \in Workers \ {w} : req[v].pc \in Holding => HoldsMutex(v)'
<1>1. Begin(w, "idle", NoLead, FALSE)
  BY DEF Begin, Idle
<1>2. /\ req' \in [Workers -> Req]
      /\ req'[w].pc = "idle" /\ req'[w].forced = FALSE
      /\ \A v \in Workers \ {w} : req'[v] = req[v]
  BY <1>1, Begun, StepNames
<1>3. req[w].lead \in Leads /\ queue \in [Leads -> Seq(Workers)]
  BY DEF MutexHeld, TypeOK
<1>4. queue[req[w].lead] # <<>> /\ Tail(queue[req[w].lead]) \in Seq(Workers)
  BY <1>3, HeadTailProperties DEF HoldsMutex
<1>5. ASSUME NEW v \in Workers \ {w}, req[v].pc \in Holding
      PROVE  HoldsMutex(v)'
  <2>1. req[v].lead \in Leads /\ HoldsMutex(v)
    BY <1>5, StepNames DEF MutexHeld, At
  <2>2. req[v].lead # req[w].lead
    BY <2>1 DEF HoldsMutex
  <2> QED BY <1>2, <1>3, <2>1, <2>2 DEF HoldsMutex
<1> QED BY <1>2, <1>3, <1>4, <1>5

-----------------------------------------------------------------------------
(* What a step does not disturb *)

\* A worker that does not move keeps its part of the invariant, if its mutex,
\* the link of its lead and the order in its hands are left alone.
LEMMA BystanderKeeps ==
    ASSUME IInv, NEW v \in Workers, req'[v] = req[v],
           late \subseteq late', forced \subseteq forced',
           req[v].pc \in Holding =>
              /\ HoldsMutex(v)'
              /\ lead'[req[v].lead].order = lead[req[v].lead].order,
           req[v].pc \in Drafting =>
              /\ order'[req[v].draft] = order[req[v].draft]
              /\ req[v].draft \notin abandoned'
    PROVE  WorkerInv(v)'
<1>1. WorkerInv(v)
  BY DEF IInv
<1> USE <1>1, StepNames DEF WorkerInv, At
<1>2. MutexHeld(v)'
  BY DEF MutexHeld
<1>3. SnapshotCurrent(v)'
  BY DEF SnapshotCurrent
<1>4. DraftInFlight(v)'
  BY DEF DraftInFlight
<1>5. ConversionJustified(v)'
  BY DEF ConversionJustified, Unconverted
<1> QED BY <1>2, <1>3, <1>4, <1>5

\* A step that keeps links, orders and the orders in flight keeps what the
\* invariant says of the tables, but for the status of the leads.
LEMMA TablesKept ==
    ASSUME IInv, order' = order, abandoned' = abandoned,
           late \subseteq late', forced \subseteq forced',
           \A l \in Leads : lead'[l].order = lead[l].order,
           \A v \in Workers : req[v].pc \in Drafting =>
              req'[v].pc \in Drafting /\ req'[v].draft = req[v].draft
    PROVE  OrdersAccounted' /\ AbandonedUnlinked' /\ LinkedOrderIsOffered' /\ NoEarlyOrder'
<1> USE DEF IInv
<1>1. OrdersAccounted'
  BY DEF OrdersAccounted
<1>2. AbandonedUnlinked'
  BY DEF AbandonedUnlinked
<1>3. LinkedOrderIsOffered'
  BY DEF LinkedOrderIsOffered
<1>4. NoEarlyOrder'
  BY DEF NoEarlyOrder
<1> QED BY <1>1, <1>2, <1>3, <1>4

-----------------------------------------------------------------------------
(* Every action preserves the invariant *)

\* Filing a lead and passing its deadline keep the invariant: both leave links
\* and workers alone.
LEMMA CreateKeeps ==
    ASSUME IInv, NEW l \in Leads, Create(l) \/ DeadlinePasses(l)
    PROVE  IInv'
<1>1. TypeOK'
  BY DEF IInv, TypeOK, LeadRow, MatchingStatus, Create, DeadlinePasses
<1>2. /\ \A k \in Leads : lead'[k].order = lead[k].order
      /\ \A k \in Leads : lead'[k].status = lead[k].status \/ lead'[k].status = "pending"
      /\ late \subseteq late'
      /\ UNCHANGED <<order, queue, req, forced, abandoned>>
  <2>1. lead \in [Leads -> LeadRow] /\ (~Filed(l) => lead[l].order = NoOrder)
    BY DEF IInv, TypeOK, UnlinkedLead
  <2>2. CASE Create(l)
    BY <2>1, <2>2 DEF Create
  <2>3. CASE DeadlinePasses(l)
    BY <2>3 DEF DeadlinePasses
  <2> QED BY <2>2, <2>3
<1>3. ASSUME NEW v \in Workers PROVE WorkerInv(v)'
  <2>1. MutexHeld(v)
    BY DEF IInv, WorkerInv
  <2> QED BY <1>2, <2>1, StepNames, BystanderKeeps
             DEF MutexHeld, DraftInFlight, WorkerInv, IInv, HoldsMutex, At
<1>4. OrdersAccounted' /\ AbandonedUnlinked' /\ LinkedOrderIsOffered' /\ NoEarlyOrder'
  BY <1>2, TablesKept
<1>5. UnlinkedLead'
  BY <1>2 DEF IInv, UnlinkedLead, Filed
<1> QED BY <1>1, <1>3, <1>4, <1>5 DEF IInv

\* A step of a worker that has no order in its hands and writes at most the
\* status of leads: what remains is its own part and the statuses.
LEMMA QuietStep ==
    ASSUME IInv, TypeOK', NEW w \in Workers, WorkerInv(w)', UnlinkedLead',
           order' = order, abandoned' = abandoned, late \subseteq late', forced \subseteq forced',
           \A l \in Leads : lead'[l].order = lead[l].order,
           \A v \in Workers \ {w} :
              req'[v] = req[v] /\ (req[v].pc \in Holding => HoldsMutex(v)'),
           req[w].pc \notin Drafting
    PROVE  IInv'
<1>1. ASSUME NEW v \in Workers \ {w} PROVE WorkerInv(v)'
  <2>1. MutexHeld(v) /\ DraftInFlight(v)
    BY DEF IInv, WorkerInv
  <2> QED BY <2>1, StepNames, BystanderKeeps DEF MutexHeld, DraftInFlight, At
<1>2. OrdersAccounted' /\ AbandonedUnlinked' /\ LinkedOrderIsOffered' /\ NoEarlyOrder'
  BY TablesKept
<1> QED BY <1>1, <1>2 DEF IInv

\* The mutexes stay held where no chain moves.
LEMMA ChainsKept ==
    ASSUME IInv, queue' = queue, NEW v \in Workers, req'[v] = req[v], req[v].pc \in Holding
    PROVE  HoldsMutex(v)'
  BY DEF IInv, WorkerInv, MutexHeld, HoldsMutex

\* Facts about a status write that does not claim a conversion.
LEMMA StatusKeepsUnlinked ==
    ASSUME IInv, NEW l \in Leads, Filed(l), NEW s \in MatchingStatus, SetStatus(l, s),
           forced \subseteq forced',
           s = "converted_to_order" => lead[l].order # NoOrder \/ l \in forced'
    PROVE  UnlinkedLead'
<1>1. /\ \A k \in Leads : lead'[k].order = lead[k].order
      /\ \A k \in Leads : lead'[k].status = IF k = l THEN s ELSE lead[k].status
  BY StatusWritten DEF IInv
<1>2. s # "none"
  BY DEF MatchingStatus
<1> QED BY <1>1, <1>2 DEF IInv, UnlinkedLead, Filed

\* Saving the contact overwrites a status but never a link.
LEMMA PatchContactKeeps ==
    ASSUME IInv, NEW w \in Workers, NEW l \in Leads, PatchContact(w, l)
    PROVE  IInv'
<1>i. TypeOK
  BY DEF IInv
<1>1. /\ lead' \in [Leads -> LeadRow]
      /\ \A k \in Leads : lead'[k].order = lead[k].order
  BY <1>i, StatusWritten DEF PatchContact, MatchingStatus
<1>2. /\ req' \in [Workers -> Req]
      /\ req'[w].pc = "written" /\ req'[w].lead = l /\ req'[w].forced = FALSE
      /\ \A v \in Workers \ {w} : req'[v] = req[v]
  BY <1>i, Begun, StepNames DEF PatchContact
<1>3. TypeOK'
  BY <1>i, <1>1, <1>2 DEF TypeOK, PatchContact
<1>4. WorkerInv(w)'
  BY <1>2, StepNames DEF WorkerInv, MutexHeld, SnapshotCurrent, DraftInFlight,
     ConversionJustified, At
<1>5. UnlinkedLead'
  BY StatusKeepsUnlinked DEF PatchContact, MatchingStatus
<1>6. \A v \in Workers \ {w} : req[v].pc \in Holding => HoldsMutex(v)'
  BY <1>2, ChainsKept DEF PatchContact
<1> QED BY <1>1, <1>2, <1>3, <1>4, <1>5, <1>6, QuietStep, StepNames DEF PatchContact, At

\* An administrator's status is remembered as forced when it claims a conversion.
LEMMA PatchAdminKeeps ==
    ASSUME IInv, NEW w \in Workers, NEW l \in Leads, PatchAdmin(w, l)
    PROVE  IInv'
<1>i. TypeOK
  BY DEF IInv
<1>p. PICK s \in MatchingStatus :
        /\ SetStatus(l, s)
        /\ IF s = "converted_to_order"
             THEN Begin(w, "written", l, TRUE) /\ forced' = forced \cup {l}
             ELSE UNCHANGED <<req, forced>>
  BY DEF PatchAdmin
<1>1. /\ lead' \in [Leads -> LeadRow]
      /\ \A k \in Leads : lead'[k].order = lead[k].order
  BY <1>i, <1>p, StatusWritten
<1>2. /\ req' \in [Workers -> Req]
      /\ \/ req'[w] = req[w] /\ req[w].pc = "idle"
         \/ req'[w].pc = "written" /\ req'[w].lead = l /\ l \in forced'
      /\ \A v \in Workers \ {w} : req'[v] = req[v]
  BY <1>i, <1>p, Begun, StepNames DEF PatchAdmin, TypeOK, At
<1>3. forced' \in SUBSET Leads /\ forced \subseteq forced'
  BY <1>i, <1>p DEF TypeOK
<1>4. TypeOK'
  BY <1>i, <1>1, <1>2, <1>3 DEF TypeOK, PatchAdmin
<1>5. WorkerInv(w)'
  <2>1. CASE req'[w].pc = "written" /\ req'[w].lead = l /\ l \in forced'
    BY <2>1, StepNames DEF WorkerInv, MutexHeld, SnapshotCurrent, DraftInFlight,
       ConversionJustified, At
  <2>2. CASE req'[w] = req[w] /\ req[w].pc = "idle"
    BY <1>3, <2>2, StepNames, BystanderKeeps DEF PatchAdmin
  <2> QED BY <1>2, <2>1, <2>2
<1>6. UnlinkedLead'
  BY <1>p, <1>3, StatusKeepsUnlinked DEF PatchAdmin
<1>7. \A v \in Workers \ {w} : req[v].pc \in Holding => HoldsMutex(v)'
  BY <1>2, ChainsKept DEF PatchAdmin
<1> QED BY <1>1, <1>2, <1>3, <1>4, <1>5, <1>6, <1>7, QuietStep, StepNames DEF PatchAdmin, At

\* TimeoutRead of a lead that is not pending, StartFinalize and Sweep put a
\* finalization into the chain.
LEMMA EnqueueKeeps ==
    ASSUME IInv, NEW w \in Workers, NEW l \in Leads, NEW f \in BOOLEAN, Enqueue(w, l, f),
           f => l \in forced, req[w].pc \notin Holding,
           UNCHANGED <<lead, late, order, failures, crashes, forced, abandoned>>
    PROVE  IInv'
<1>i. TypeOK /\ \A v \in Workers : MutexHeld(v)
  BY DEF IInv, WorkerInv
<1>1. /\ queue' \in [Leads -> Seq(Workers)]
      /\ req' \in [Workers -> Req]
      /\ req'[w].pc = "queued" /\ req'[w].lead = l /\ req'[w].forced = f
      /\ \A v \in Workers \ {w} : req'[v] = req[v]
      /\ \A v \in Workers \ {w} : req[v].pc \in Holding => HoldsMutex(v)'
  BY <1>i, Enqueued
<1>2. TypeOK'
  BY <1>i, <1>1 DEF TypeOK
<1>3. WorkerInv(w)'
  BY <1>1, StepNames DEF WorkerInv, MutexHeld, SnapshotCurrent, DraftInFlight,
     ConversionJustified, At
<1>4. UnlinkedLead'
  BY DEF IInv, UnlinkedLead, Filed
<1> QED BY <1>1, <1>2, <1>3, <1>4, QuietStep, StepNames

\* Both halves of markTimeout keep the invariant, stale read included.
LEMMA TimeoutKeeps ==
    ASSUME IInv, NEW w \in Workers, NEW l \in Leads, TimeoutRead(w, l) \/ TimeoutWrite(w)
    PROVE  IInv'
<1>i. TypeOK /\ MutexHeld(w) /\ ConversionJustified(w)
  BY DEF IInv, WorkerInv
<1>1. CASE TimeoutRead(w, l) /\ lead[l].status # "pending"
  BY <1>1, EnqueueKeeps, StepNames DEF TimeoutRead, At
<1>2. CASE TimeoutRead(w, l) /\ lead[l].status = "pending"
  <2>1. /\ req' \in [Workers -> Req]
        /\ req'[w].pc = "timeout" /\ req'[w].lead = l /\ req'[w].forced = FALSE
        /\ \A v \in Workers \ {w} : req'[v] = req[v]
    BY <1>i, <1>2, Begun, StepNames DEF TimeoutRead
  <2>2. TypeOK'
    BY <1>i, <1>2, <2>1 DEF TypeOK, TimeoutRead
  <2>3. WorkerInv(w)'
    BY <2>1, StepNames DEF WorkerInv, MutexHeld, SnapshotCurrent, DraftInFlight,
       ConversionJustified, At
  <2>4. UnlinkedLead'
    BY <1>2 DEF IInv, UnlinkedLead, Filed, TimeoutRead
  <2>5. \A v \in Workers \ {w} : req[v].pc \in Holding => HoldsMutex(v)'
    BY <1>2, <2>1, ChainsKept DEF TimeoutRead
  <2> QED BY <1>2, <2>1, <2>2, <2>3, <2>4, <2>5, QuietStep, StepNames DEF TimeoutRead, At
<1>3. CASE TimeoutWrite(w)
  <2>1. req[w].lead \in Leads
    BY <1>i, <1>3 DEF TimeoutWrite, MutexHeld, At
  <2>2. /\ req' \in [Workers -> Req]
        /\ req'[w].pc = "written" /\ req'[w].lead = req[w].lead
        /\ req'[w].forced = req[w].forced
        /\ \A v \in Workers \ {w} : req'[v] = req[v]
    BY <1>i, <1>3, Moved, StepNames DEF TimeoutWrite
  <2>3. /\ lead' \in [Leads -> LeadRow]
        /\ \A k \in Leads : lead'[k].order = lead[k].order
    BY <1>i, <1>3, <2>1, StatusWritten DEF TimeoutWrite, MatchingStatus
  <2>4. TypeOK'
    BY <1>i, <1>3, <2>2, <2>3 DEF TypeOK, TimeoutWrite
  <2>5. WorkerInv(w)'
    BY <1>i, <1>3, <2>1, <2>2, StepNames DEF WorkerInv, MutexHeld, SnapshotCurrent,
       DraftInFlight, ConversionJustified, At, TimeoutWrite
  <2>6. UnlinkedLead'
    BY <1>i, <1>3, <2>1, <2>3 DEF IInv, UnlinkedLead, Filed, TimeoutWrite, SetStatus, TypeOK
  <2>7. \A v \in Workers \ {w} : req[v].pc \in Holding => HoldsMutex(v)'
    BY <1>3, <2>2, ChainsKept DEF TimeoutWrite
  <2> QED BY <1>3, <2>2, <2>3, <2>4, <2>5, <2>6, <2>7, QuietStep, StepNames
             DEF TimeoutWrite, At
<1> QED BY <1>1, <1>2, <1>3 DEF TimeoutRead

\* The sweep and the calls that start a finalization only queue for the mutex.
LEMMA StartKeeps ==
    ASSUME IInv, NEW w \in Workers, NEW l \in Leads, Sweep(l) \/ StartFinalize(w)
    PROVE  IInv'
<1>1. CASE Sweep(l)
  BY <1>1, EnqueueKeeps, StepNames DEF Sweep, At, Workers
<1>2. CASE StartFinalize(w)
  <2>1. /\ req[w].lead \in Leads /\ req[w].forced \in BOOLEAN
        /\ req[w].forced => req[w].lead \in forced
    BY <1>2 DEF StartFinalize, IInv, WorkerInv, MutexHeld, ConversionJustified, At, TypeOK, Req
  <2> QED BY <1>2, <2>1, EnqueueKeeps, StepNames DEF StartFinalize, At
<1> QED BY <1>1, <1>2

\* The refetch under the mutex makes the snapshot current: only holders link.
LEMMA ReadKeeps ==
    ASSUME IInv, NEW w \in Workers, FinalizeRead(w) \/ Refetch(w)
    PROVE  IInv'
<1>i. TypeOK /\ WorkerInv(w) /\ UnlinkedLead
  BY DEF IInv
<1>1. req[w].lead \in Leads
  BY <1>i DEF FinalizeRead, Refetch, WorkerInv, MutexHeld, At
<1>2. PICK pc \in {"body", "draft"} :
        /\ Snapshot(w, pc)
        /\ pc = "body" => At(w, "queued") /\ HoldsMutex(w)
        /\ pc = "draft" => At(w, "expired")
  BY DEF FinalizeRead, Refetch
<1>3. UNCHANGED <<lead, late, order, queue, failures, crashes, forced, abandoned>>
  BY DEF FinalizeRead, Refetch
<1>4. /\ req' \in [Workers -> Req]
      /\ req'[w].pc = pc /\ req'[w].lead = req[w].lead
      /\ req'[w].row = lead[req[w].lead] /\ req'[w].forced = req[w].forced
      /\ \A v \in Workers \ {w} : req'[v] = req[v]
  BY <1>i, <1>1, <1>2, Snapped, StepNames
<1>5. TypeOK'
  BY <1>i, <1>3, <1>4 DEF TypeOK
<1>6. HoldsMutex(w)'
  BY <1>i, <1>2, <1>3, <1>4, StepNames DEF HoldsMutex, WorkerInv, MutexHeld, At
<1>7. WorkerInv(w)'
  <2>1. MutexHeld(w)'
    BY <1>1, <1>4, <1>6 DEF MutexHeld
  <2>2. SnapshotCurrent(w)' /\ DraftInFlight(w)'
    BY <1>i, <1>2, <1>3, <1>4, StepNames DEF WorkerInv, SnapshotCurrent, DraftInFlight, At
  <2>3. ConversionJustified(w)'
    BY <1>i, <1>1, <1>2, <1>3, <1>4 DEF WorkerInv, ConversionJustified, At, Unconverted,
       UnlinkedLead
  <2> QED BY <2>1, <2>2, <2>3 DEF WorkerInv
<1>8. UnlinkedLead'
  BY <1>i, <1>3 DEF UnlinkedLead, Filed
<1>9. \A v \in Workers \ {w} : req[v].pc \in Holding => HoldsMutex(v)'
  BY <1>3, <1>4, ChainsKept
<1> QED BY <1>2, <1>3, <1>4, <1>5, <1>7, <1>8, <1>9, QuietStep, StepNames DEF At

\* FinalizeSkip, Heal and the end of ReadBack: the mutex passes on.
LEMMA ReleaseKeeps ==
    ASSUME IInv, NEW w \in Workers, req[w].pc \in Holding \ Drafting, Release(w), UnlinkedLead',
           lead' \in [Leads -> LeadRow], \A k \in Leads : lead'[k].order = lead[k].order,
           UNCHANGED <<late, order, failures, crashes, forced, abandoned>>
    PROVE  IInv'
<1>i. TypeOK /\ \A v \in Workers : MutexHeld(v)
  BY DEF IInv, WorkerInv
<1>1. HoldsMutex(w) /\ ~At(w, "idle")
  BY <1>i, StepNames DEF MutexHeld, At
<1>2. /\ queue' \in [Leads -> Seq(Workers)]
      /\ req' \in [Workers -> Req]
      /\ req'[w].pc = "idle" /\ req'[w].forced = FALSE
      /\ \A v \in Workers \ {w} : req'[v] = req[v]
      /\ \A v \in Workers \ {w} : req[v].pc \in Holding => HoldsMutex(v)'
  BY <1>i, <1>1, Released DEF Release
<1>3. TypeOK'
  BY <1>i, <1>2 DEF TypeOK
<1>4. WorkerInv(w)'
  BY <1>2, StepNames DEF WorkerInv, MutexHeld, SnapshotCurrent, DraftInFlight,
     ConversionJustified, At
<1> QED BY <1>2, <1>3, <1>4, QuietStep

\* The steps of the holder that only look, repair a status or expire the lead
\* keep the invariant.
LEMMA DecideKeeps ==
    ASSUME IInv, NEW w \in Workers,
           FinalizeSkip(w) \/ Heal(w) \/ Expire(w) \/ ReadBack(w)
    PROVE  IInv'
<1>i. TypeOK /\ WorkerInv(w) /\ UnlinkedLead
  BY DEF IInv
<1>1. req[w].lead \in Leads /\ req[w].pc \in Holding \ Drafting
  BY <1>i, StepNames
     DEF FinalizeSkip, Heal, Expire, ReadBack, WorkerInv, MutexHeld, At
<1>3. CASE FinalizeSkip(w) \/ (ReadBack(w) /\ Release(w))
  BY <1>i, <1>1, <1>3, ReleaseKeeps DEF FinalizeSkip, ReadBack, UnlinkedLead, Filed, TypeOK
<1>4. CASE Heal(w)
  <2>1. lead[req[w].lead].order # NoOrder
    BY <1>i, <1>4 DEF Heal, WorkerInv, SnapshotCurrent, Unconverted, At
  <2>2. /\ lead' \in [Leads -> LeadRow]
        /\ \A k \in Leads : lead'[k].order = lead[k].order
        /\ \A k \in Leads : lead'[k].status =
              IF k = req[w].lead THEN "converted_to_order" ELSE lead[k].status
    BY <1>i, <1>1, <1>4, StatusWritten DEF Heal, MatchingStatus
  <2>3. UnlinkedLead'
    BY <1>i, <1>4, <2>1, <2>2 DEF UnlinkedLead, Filed, Heal
  <2> QED BY <1>1, <1>4, <2>2, <2>3, ReleaseKeeps DEF Heal
<1>5. CASE Expire(w)
  <2>1. /\ lead' \in [Leads -> LeadRow]
        /\ \A k \in Leads : lead'[k].order = lead[k].order
        /\ \A k \in Leads : lead'[k].status =
              IF k = req[w].lead THEN "timed_out" ELSE lead[k].status
    BY <1>i, <1>1, <1>5, StatusWritten DEF Expire, MatchingStatus
  <2>2. UnlinkedLead'
    BY <1>i, <1>5, <2>1 DEF UnlinkedLead, Filed, Expire
  <2>3. /\ req' \in [Workers -> Req]
        /\ req'[w].pc = "expired" /\ req'[w].lead = req[w].lead
        /\ req'[w].forced = req[w].forced
        /\ \A v \in Workers \ {w} : req'[v] = req[v]
    BY <1>i, <1>5, Moved, StepNames DEF Expire
  <2>4. TypeOK'
    BY <1>i, <1>5, <2>1, <2>3 DEF TypeOK, Expire
  <2>5. HoldsMutex(w)'
    BY <1>i, <1>1, <1>5, <2>3 DEF HoldsMutex, Expire, WorkerInv, MutexHeld
  <2>6. WorkerInv(w)'
    BY <1>i, <1>1, <1>5, <2>1, <2>3, <2>5, StepNames
       DEF WorkerInv, MutexHeld, SnapshotCurrent, DraftInFlight, ConversionJustified, At,
           Expire, Expiring, Unconverted
  <2>7. \A v \in Workers \ {w} : req[v].pc \in Holding => HoldsMutex(v)'
    BY <1>5, <2>3, ChainsKept DEF Expire
  <2> QED BY <1>1, <1>5, <2>1, <2>2, <2>3, <2>4, <2>6, <2>7, QuietStep DEF Expire
<1>6. CASE ReadBack(w) /\ Goto(w, "heal") /\ UNCHANGED queue
  <2>1. UNCHANGED <<lead, late, order, queue, failures, crashes, forced, abandoned>>
    BY <1>6 DEF ReadBack
  <2>2. /\ req' \in [Workers -> Req]
        /\ req'[w].pc = "heal" /\ req'[w].lead = req[w].lead
        /\ req'[w].forced = req[w].forced
        /\ \A v \in Workers \ {w} : req'[v] = req[v]
    BY <1>i, <1>6, Moved, StepNames
  <2>3. TypeOK' /\ UnlinkedLead'
    BY <1>i, <2>1, <2>2 DEF TypeOK, UnlinkedLead, Filed
  <2>4. HoldsMutex(w)'
    BY <1>i, <1>1, <2>1, <2>2 DEF HoldsMutex, WorkerInv, MutexHeld
  <2>5. WorkerInv(w)'
    BY <1>i, <1>1, <1>6, <2>1, <2>2, <2>4, StepNames
       DEF WorkerInv, MutexHeld, SnapshotCurrent, DraftInFlight, ConversionJustified, At, ReadBack
  <2>6. \A v \in Workers \ {w} : req[v].pc \in Holding => HoldsMutex(v)'
    BY <2>1, <2>2, ChainsKept
  <2> QED BY <1>1, <2>1, <2>2, <2>3, <2>5, <2>6, QuietStep
<1> QED BY <1>3, <1>4, <1>5, <1>6 DEF ReadBack

\* The order that is inserted was unused, so it is in no other hands and linked
\* to no lead; the lead is unlinked because the mutex is held.
LEMMA InsertKeeps ==
    ASSUME IInv, NEW w \in Workers, InsertDraft(w)
    PROVE  IInv'
<1>i. TypeOK /\ \A v \in Workers : WorkerInv(v)
  BY DEF IInv
<1>g. /\ req[w].pc \in {"draft", "body"}
      /\ lead[req[w].lead].order = NoOrder
      /\ req[w].lead \in Leads /\ req[w].lead \in late \cup forced /\ HoldsMutex(w)
  <2>1. WorkerInv(w) /\ UnlinkedLead
    BY <1>i DEF IInv
  <2> QED BY <2>1, StepNames DEF InsertDraft, WorkerInv, MutexHeld, SnapshotCurrent,
             ConversionJustified, Unconverted, Allowed, UnlinkedLead, At
<1>p. PICK o \in Orders :
        /\ order[o].lead = NoLead
        /\ order' = [order EXCEPT ![o].lead = req[w].lead, ![o].status = "created"]
        /\ req' = [req EXCEPT ![w].pc = "inserted", ![w].draft = o]
  BY DEF InsertDraft
<1>f. UNCHANGED <<lead, late, queue, failures, crashes, forced, abandoned>>
  BY DEF InsertDraft
<1>1. /\ order' \in [Orders -> OrderRow]
      /\ order'[o].lead = req[w].lead
      /\ \A p \in Orders \ {o} : order'[p] = order[p]
  BY <1>i, <1>g, <1>p DEF TypeOK, OrderRow
<1>2. /\ req' \in [Workers -> Req]
      /\ req'[w].pc = "inserted" /\ req'[w].lead = req[w].lead /\ req'[w].draft = o
      /\ req'[w].forced = req[w].forced
      /\ \A v \in Workers \ {w} : req'[v] = req[v]
  BY <1>i, <1>p, StepNames DEF TypeOK, Req
<1>3. TypeOK'
  BY <1>i, <1>f, <1>1, <1>2 DEF TypeOK
<1>4. o \notin abandoned
  BY <1>p DEF IInv, AbandonedUnlinked
<1>5. WorkerInv(w)'
  BY <1>i, <1>f, <1>g, <1>1, <1>2, <1>4, StepNames
     DEF WorkerInv, MutexHeld, HoldsMutex, SnapshotCurrent, DraftInFlight,
         ConversionJustified, At
<1>6. ASSUME NEW v \in Workers \ {w} PROVE WorkerInv(v)'
  <2>1. req'[v] = req[v] /\ (req[v].pc \in Holding => HoldsMutex(v)')
    BY <1>f, <1>2, ChainsKept
  <2>2. req[v].pc \in Drafting => /\ req[v].draft \in Orders \ abandoned
                                   /\ order'[req[v].draft] = order[req[v].draft]
    BY <1>i, <1>p, <1>1, StepNames, LeadsAssumption
       DEF WorkerInv, DraftInFlight, MutexHeld, At
  <2> QED BY <1>f, <2>1, <2>2, BystanderKeeps
<1>7. OrdersAccounted'
  <2> SUFFICES ASSUME NEW p \in Orders \ abandoned, order'[p].lead \in Leads
               PROVE  \/ lead[order'[p].lead].order = p
                      \/ \E v \in Workers : req'[v].pc \in Drafting /\ req'[v].draft = p
    BY <1>f DEF OrdersAccounted
  <2>1. CASE p = o
    BY <1>2, <2>1, StepNames
  <2>2. CASE p # o
    <3>1. \/ lead[order[p].lead].order = p
          \/ \E v \in Workers : req[v].pc \in Drafting /\ req[v].draft = p
      BY <1>1, <2>2 DEF IInv, OrdersAccounted
    <3> QED BY <1>1, <1>2, <1>g, <2>2, <3>1, StepNames
  <2> QED BY <2>1, <2>2
<1>8. AbandonedUnlinked'
  BY <1>f, <1>1, <1>4 DEF IInv, AbandonedUnlinked, TypeOK
<1>9. LinkedOrderIsOffered'
  BY <1>f, <1>p, <1>1, LeadsAssumption DEF IInv, LinkedOrderIsOffered, TypeOK, LeadRow
<1>10. NoEarlyOrder' /\ UnlinkedLead'
  BY <1>f, <1>g, <1>1 DEF IInv, NoEarlyOrder, UnlinkedLead, Filed
<1> QED BY <1>3, <1>5, <1>6, <1>7, <1>8, <1>9, <1>10 DEF IInv

\* The second write and the announcement touch the order in hand only; it is
\* linked to no lead yet.
LEMMA PlaceKeeps ==
    ASSUME IInv, NEW w \in Workers, PlaceDraft(w) \/ Announce(w)
    PROVE  IInv'
<1>i. TypeOK /\ \A v \in Workers : WorkerInv(v)
  BY DEF IInv
<1>p. PICK pc \in {"placed", "notified"} :
        /\ Goto(w, pc)
        /\ pc = "placed" => /\ At(w, "inserted")
                            /\ order' = [order EXCEPT ![req[w].draft].status = "matching"]
        /\ pc = "notified" => /\ At(w, "placed")
                              /\ order' = [order EXCEPT ![req[w].draft].offered = TRUE]
  BY DEF PlaceDraft, Announce
<1>f. UNCHANGED <<lead, late, queue, failures, crashes, forced, abandoned>>
  BY DEF PlaceDraft, Announce
<1>g. /\ req[w].pc \in Drafting /\ req[w].draft \in Orders \ abandoned
      /\ req[w].lead \in Leads /\ lead[req[w].lead].order = NoOrder /\ HoldsMutex(w)
      /\ order[req[w].draft].lead = req[w].lead
  BY <1>i, <1>p, StepNames DEF WorkerInv, MutexHeld, SnapshotCurrent, DraftInFlight, At
<1>1. /\ order' \in [Orders -> OrderRow]
      /\ \A o \in Orders \ {req[w].draft} : order'[o] = order[o]
      /\ \A o \in Orders : order'[o].lead = order[o].lead
      /\ pc = "placed" => order'[req[w].draft].status = "matching"
      /\ pc = "notified" => /\ order'[req[w].draft].status = order[req[w].draft].status
                            /\ order'[req[w].draft].offered
  <2>1. order \in [Orders -> OrderRow] /\ req[w].draft \in Orders
    BY <1>i, <1>g DEF TypeOK
  <2>2. CASE pc = "placed"
    BY <1>p, <2>1, <2>2 DEF OrderRow
  <2>3. CASE pc = "notified"
    <3>1. order' = [order EXCEPT ![req[w].draft].offered = TRUE]
      BY <1>p, <2>3
    <3> QED BY <2>1, <2>3, <3>1 DEF OrderRow
  <2> QED BY <2>2, <2>3
<1>2. /\ req' \in [Workers -> Req]
      /\ req'[w].pc = pc /\ req'[w].lead = req[w].lead /\ req'[w].draft = req[w].draft
      /\ req'[w].forced = req[w].forced
      /\ \A v \in Workers \ {w} : req'[v] = req[v]
  BY <1>i, <1>p, Moved, StepNames
<1>3. TypeOK'
  BY <1>i, <1>f, <1>1, <1>2 DEF TypeOK
<1>4. WorkerInv(w)'
  BY <1>i, <1>f, <1>g, <1>p, <1>1, <1>2, StepNames
     DEF WorkerInv, MutexHeld, HoldsMutex, SnapshotCurrent, DraftInFlight,
         ConversionJustified, At
<1>5. ASSUME NEW v \in Workers \ {w} PROVE WorkerInv(v)'
  <2>1. req'[v] = req[v] /\ (req[v].pc \in Holding => HoldsMutex(v)')
    BY <1>f, <1>2, ChainsKept
  <2>2. req[v].pc \in Drafting => req[v].draft \in Orders \ abandoned
    BY <1>i DEF WorkerInv, DraftInFlight
  <2>3. req[v].pc \in Drafting => req[v].draft # req[w].draft
    BY <1>i, <1>g, HoldersApart, StepNames DEF WorkerInv, DraftInFlight
  <2> QED BY <1>f, <1>1, <2>1, <2>2, <2>3, BystanderKeeps
<1>6. OrdersAccounted'
  BY <1>f, <1>p, <1>1, <1>2, StepNames DEF IInv, OrdersAccounted
<1>7. AbandonedUnlinked' /\ NoEarlyOrder' /\ UnlinkedLead'
  BY <1>f, <1>1 DEF IInv, AbandonedUnlinked, NoEarlyOrder, UnlinkedLead, Filed, TypeOK
<1>8. LinkedOrderIsOffered'
  <2>1. \A l \in Leads : lead[l].order # NoOrder =>
           lead[l].order \in Orders /\ lead[l].order # req[w].draft
    BY <1>i, <1>g DEF IInv, LinkedOrderIsOffered, TypeOK, LeadRow
  <2> QED BY <1>f, <1>1, <2>1 DEF IInv, LinkedOrderIsOffered
<1> QED BY <1>3, <1>4, <1>5, <1>6, <1>7, <1>8 DEF IInv

\* The link is written by the holder, to an order that is ready for it.
LEMMA LinkKeeps ==
    ASSUME IInv, NEW w \in Workers, LinkOrder(w)
    PROVE  IInv'
<1>i. TypeOK /\ \A v \in Workers : WorkerInv(v)
  BY DEF IInv
<1>f. UNCHANGED <<late, order, queue, failures, crashes, forced, abandoned>>
  BY DEF LinkOrder
<1>g. /\ req[w].pc = "notified" /\ req[w].pc \in Drafting
      /\ req[w].draft \in Orders \ abandoned
      /\ req[w].lead \in Leads /\ lead[req[w].lead].order = NoOrder /\ HoldsMutex(w)
      /\ order[req[w].draft].lead = req[w].lead
      /\ order[req[w].draft].status = "matching" /\ order[req[w].draft].offered
  BY <1>i, StepNames DEF LinkOrder, WorkerInv, MutexHeld, SnapshotCurrent, DraftInFlight, At
<1>1. /\ lead' \in [Leads -> LeadRow]
      /\ lead'[req[w].lead].order = req[w].draft
      /\ lead'[req[w].lead].status = "converted_to_order"
      /\ \A l \in Leads \ {req[w].lead} : lead'[l] = lead[l]
  BY <1>i, <1>g DEF TypeOK, LeadRow, MatchingStatus, LinkOrder
<1>2. /\ req' \in [Workers -> Req]
      /\ req'[w].pc = "linked" /\ req'[w].lead = req[w].lead
      /\ req'[w].forced = req[w].forced
      /\ \A v \in Workers \ {w} : req'[v] = req[v]
  BY <1>i, Moved, StepNames DEF LinkOrder
<1>3. TypeOK'
  BY <1>i, <1>f, <1>1, <1>2 DEF TypeOK
<1>4. WorkerInv(w)'
  BY <1>i, <1>f, <1>g, <1>1, <1>2, StepNames, LeadsAssumption
     DEF WorkerInv, MutexHeld, HoldsMutex, SnapshotCurrent, DraftInFlight,
         ConversionJustified, At
<1>5. ASSUME NEW v \in Workers \ {w} PROVE WorkerInv(v)'
  <2>1. req'[v] = req[v] /\ (req[v].pc \in Holding => HoldsMutex(v)')
    BY <1>f, <1>2, ChainsKept
  <2>2. req[v].pc \in Holding => req[v].lead \in Leads \ {req[w].lead}
    BY <1>i, <1>g, HoldersApart, StepNames DEF WorkerInv, MutexHeld, At
  <2>3. req[v].pc \in Drafting => req[v].draft \notin abandoned
    BY <1>i DEF WorkerInv, DraftInFlight
  <2> QED BY <1>f, <1>1, <2>1, <2>2, <2>3, BystanderKeeps
<1>6. OrdersAccounted'
  <2> SUFFICES ASSUME NEW o \in Orders \ abandoned, order[o].lead \in Leads
               PROVE  \/ lead'[order[o].lead].order = o
                      \/ \E v \in Workers : req'[v].pc \in Drafting /\ req'[v].draft = o
    BY <1>f DEF OrdersAccounted
  <2>1. \/ lead[order[o].lead].order = o
        \/ \E v \in Workers : req[v].pc \in Drafting /\ req[v].draft = o
    BY DEF IInv, OrdersAccounted
  <2> QED BY <1>g, <1>1, <1>2, <2>1, LeadsAssumption
<1>7. AbandonedUnlinked' /\ NoEarlyOrder' /\ UnlinkedLead'
  BY <1>f, <1>g, <1>1, LeadsAssumption
     DEF IInv, AbandonedUnlinked, NoEarlyOrder, UnlinkedLead, Filed
<1>8. LinkedOrderIsOffered'
  BY <1>f, <1>g, <1>1 DEF IInv, LinkedOrderIsOffered
<1> QED BY <1>3, <1>4, <1>5, <1>6, <1>7, <1>8 DEF IInv

\* A failed statement: the order in hand, if any, is given up.
LEMMA FailKeeps ==
    ASSUME IInv, NEW w \in Workers, Fail(w)
    PROVE  IInv'
<1>i. TypeOK /\ \A v \in Workers : WorkerInv(v) /\ MutexHeld(v)
  BY DEF IInv, WorkerInv
<1>f. UNCHANGED <<lead, late, order, crashes, forced>>
  BY DEF Fail
<1>g. ~At(w, "idle") /\ failures' \in 0..MaxFailures
  <2>1. ~At(w, "idle")
    BY StepNames DEF Fail, At
  <2>2. failures < MaxFailures /\ failures' = failures + 1 /\ failures \in 0..MaxFailures
    BY <1>i DEF Fail, TypeOK
  <2> QED BY <2>1, <2>2, LeadsAssumption
<1>1. /\ queue' \in [Leads -> Seq(Workers)]
      /\ req' \in [Workers -> Req]
      /\ req'[w].pc = "idle" /\ req'[w].forced = FALSE
      /\ \A v \in Workers \ {w} : req'[v] = req[v]
      /\ \A v \in Workers \ {w} : req[v].pc \in Holding => HoldsMutex(v)'
  <2>1. CASE queue' = queue
    <3>1. Begin(w, "idle", NoLead, FALSE)
      BY DEF Fail, Begin, Idle
    <3>2. /\ req' \in [Workers -> Req]
          /\ req'[w].pc = "idle" /\ req'[w].forced = FALSE
          /\ \A v \in Workers \ {w} : req'[v] = req[v]
      BY <1>i, <3>1, Begun, StepNames
    <3> QED BY <1>i, <2>1, <3>2, ChainsKept DEF TypeOK
  <2>2. CASE queue' = [queue EXCEPT ![req[w].lead] = Tail(@)] /\ HoldsMutex(w)
    BY <1>i, <1>g, <2>2, Released DEF Fail
  <2> QED BY <1>i, <2>1, <2>2 DEF Fail, MutexHeld
<1>2. /\ abandoned' \in SUBSET Orders
      /\ \A o \in abandoned' \ abandoned : o = req[w].draft /\ req[w].pc \in Drafting
      /\ req[w].pc \in Drafting => req[w].draft \in abandoned'
      /\ abandoned \subseteq abandoned'
  BY <1>i DEF Fail, WorkerInv, DraftInFlight, TypeOK
<1>3. TypeOK'
  BY <1>i, <1>f, <1>g, <1>1, <1>2 DEF TypeOK
<1>4. WorkerInv(w)'
  BY <1>1, StepNames DEF WorkerInv, MutexHeld, SnapshotCurrent, DraftInFlight,
     ConversionJustified, At
<1>5. ASSUME NEW v \in Workers \ {w} PROVE WorkerInv(v)'
  <2>1. req[v].pc \in Drafting => req[v].draft \notin abandoned'
    BY <1>i, <1>2, HoldersApart, StepNames DEF WorkerInv, DraftInFlight
  <2> QED BY <1>f, <1>1, <2>1, BystanderKeeps
<1>6. OrdersAccounted'
  <2> SUFFICES ASSUME NEW o \in Orders \ abandoned', order[o].lead \in Leads
               PROVE  \/ lead[order[o].lead].order = o
                      \/ \E v \in Workers : req'[v].pc \in Drafting /\ req'[v].draft = o
    BY <1>f DEF OrdersAccounted
  <2>1. \/ lead[order[o].lead].order = o
        \/ \E v \in Workers \ {w} : req[v].pc \in Drafting /\ req[v].draft = o
    BY <1>2 DEF IInv, OrdersAccounted
  <2> QED BY <1>1, <2>1
<1>7. AbandonedUnlinked'
  <2>1. req[w].pc \in Drafting => /\ order[req[w].draft].lead = req[w].lead
                                  /\ req[w].lead \in Leads
                                  /\ lead[req[w].lead].order = NoOrder
                                  /\ req[w].draft \in Orders
    BY <1>i, <1>g DEF WorkerInv, MutexHeld, SnapshotCurrent, DraftInFlight
  <2>2. \A l \in Leads : lead[l].order # NoOrder => order[lead[l].order].lead = l
    BY DEF IInv, LinkedOrderIsOffered
  <2> QED BY <1>f, <1>2, <2>1, <2>2, LeadsAssumption DEF IInv, AbandonedUnlinked
<1>8. NoEarlyOrder' /\ UnlinkedLead' /\ LinkedOrderIsOffered'
  BY <1>f DEF IInv, NoEarlyOrder, UnlinkedLead, Filed, LinkedOrderIsOffered
<1> QED BY <1>3, <1>4, <1>5, <1>6, <1>7, <1>8 DEF IInv

\* A restart: every order in hand is given up.
LEMMA CrashKeeps ==
    ASSUME IInv, Crash
    PROVE  IInv'
<1>i. TypeOK /\ \A v \in Workers : WorkerInv(v)
  BY DEF IInv
<1>f. UNCHANGED <<lead, late, order, failures, forced>>
  BY DEF Crash
<1>1. req' \in [Workers -> Req] /\ \A v \in Workers : req'[v].pc = "idle" /\ ~req'[v].forced
  BY StepNames DEF Crash, Idle, Working, Req, NoRow, LeadRow
<1>2. /\ abandoned' \in SUBSET Orders /\ abandoned \subseteq abandoned'
      /\ \A v \in Workers : req[v].pc \in Drafting => req[v].draft \in abandoned'
      /\ \A o \in abandoned' \ abandoned :
           \E v \in Workers : req[v].pc \in Drafting /\ req[v].draft = o
  BY <1>i DEF Crash, WorkerInv, DraftInFlight, TypeOK
<1>3. TypeOK'
  <2>1. queue' \in [Leads -> Seq(Workers)]
    BY DEF Crash
  <2>2. crashes' \in 0..MaxCrashes
    BY <1>i, LeadsAssumption DEF Crash, TypeOK
  <2> QED BY <1>i, <1>f, <1>1, <1>2, <2>1, <2>2 DEF TypeOK
<1>4. \A v \in Workers : WorkerInv(v)'
  BY <1>1, StepNames DEF WorkerInv, MutexHeld, SnapshotCurrent, DraftInFlight,
     ConversionJustified, At
<1>5. OrdersAccounted'
  BY <1>f, <1>2 DEF IInv, OrdersAccounted
<1>6. AbandonedUnlinked'
  <2>1. \A v \in Workers : req[v].pc \in Drafting =>
           /\ order[req[v].draft].lead = req[v].lead /\ req[v].lead \in Leads
           /\ lead[req[v].lead].order = NoOrder /\ req[v].draft \in Orders
    BY <1>i, StepNames DEF WorkerInv, MutexHeld, SnapshotCurrent, DraftInFlight, At
  <2>2. \A l \in Leads : lead[l].order # NoOrder => order[lead[l].order].lead = l
    BY DEF IInv, LinkedOrderIsOffered
  <2> QED BY <1>f, <1>2, <2>1, <2>2, LeadsAssumption DEF IInv, AbandonedUnlinked
<1>7. NoEarlyOrder' /\ UnlinkedLead' /\ LinkedOrderIsOffered'
  BY <1>f DEF IInv, NoEarlyOrder, UnlinkedLead, Filed, LinkedOrderIsOffered
<1> QED BY <1>3, <1>4, <1>5, <1>6, <1>7 DEF IInv

-----------------------------------------------------------------------------
(* The invariant *)

\* No table has a row yet, and nobody does anything.
LEMMA InitInv == Init => IInv
<1> SUFFICES ASSUME Init PROVE IInv
  OBVIOUS
<1>1. NoRow \in LeadRow /\ Idle \in Req
  BY StepNames DEF NoRow, LeadRow, Idle, Working, Req
<1>2. TypeOK
  BY <1>1, LeadsAssumption DEF Init, TypeOK, OrderRow
<1>3. \A w \in Workers : WorkerInv(w)
  BY StepNames DEF Init, Idle, Working, WorkerInv, MutexHeld, SnapshotCurrent,
     DraftInFlight, ConversionJustified, At
<1>4. OrdersAccounted /\ AbandonedUnlinked /\ UnlinkedLead /\ LinkedOrderIsOffered /\ NoEarlyOrder
  BY LeadsAssumption DEF Init, NoRow, OrdersAccounted, AbandonedUnlinked, UnlinkedLead,
     LinkedOrderIsOffered, NoEarlyOrder
<1> QED BY <1>2, <1>3, <1>4 DEF IInv

\* A step that changes nothing keeps the invariant.
LEMMA StutterKeeps == IInv /\ UNCHANGED vars => IInv'
  BY DEF vars, IInv, TypeOK, WorkerInv, MutexHeld, HoldsMutex, SnapshotCurrent, DraftInFlight,
     ConversionJustified, At, Unconverted, OrdersAccounted, AbandonedUnlinked, UnlinkedLead,
     Filed, LinkedOrderIsOffered, NoEarlyOrder

\* Every step of the system keeps the invariant.
LEMMA NextKeeps == IInv /\ [Next]_vars => IInv'
<1> SUFFICES ASSUME IInv, [Next]_vars PROVE IInv'
  OBVIOUS
<1> USE DEF Workers
<1>1. CASE \E l \in Leads : Create(l) \/ DeadlinePasses(l)
  BY <1>1, CreateKeeps
<1>2. CASE \E l \in Leads : Sweep(l)
  BY <1>2, StartKeeps
<1>3. CASE \E w \in Calls, l \in Leads : Call(w, l)
  BY <1>3, PatchContactKeeps, PatchAdminKeeps, TimeoutKeeps DEF Call
<1>4. ASSUME NEW w \in Workers, Continue(w) PROVE IInv'
  <2>1. CASE TimeoutWrite(w) \/ StartFinalize(w)
    <3>1. req[w].lead \in Leads
      BY <2>1 DEF IInv, WorkerInv, MutexHeld, TimeoutWrite, StartFinalize, At
    <3> QED BY <2>1, <3>1, StartKeeps, TimeoutKeeps
  <2>2. CASE Finalize(w)
    BY <2>2, ReadKeeps, ReleaseKeeps, DecideKeeps, InsertKeeps, PlaceKeeps, LinkKeeps
       DEF Finalize
  <2> QED BY <1>4, <2>1, <2>2 DEF Continue
<1>5. CASE \E w \in Workers : Fail(w)
  BY <1>5, FailKeeps
<1>6. CASE Crash
  BY <1>6, CrashKeeps
<1>7. CASE UNCHANGED vars
  BY <1>7, StutterKeeps
<1> QED BY <1>1, <1>2, <1>3, <1>4, <1>5, <1>6, <1>7 DEF Next

\* The inductive invariant holds in every reachable state.
THEOREM Invariance == Spec => []IInv
  BY InitInv, NextKeeps, PTL DEF Spec

-----------------------------------------------------------------------------
(* What follows from it *)

\* The orders of a lead that are not left over are one: they are linked or in
\* the hands of the holder of the lead's mutex, and the holder has an order in
\* its hands only while the lead is unlinked.
LEMMA OneOrder == IInv => OneOrderPerLead
<1> SUFFICES ASSUME IInv, NEW o \in Orders \ abandoned, NEW p \in Orders \ abandoned,
                    order[o].lead = order[p].lead, order[o].lead # NoLead
             PROVE  o = p
  BY DEF OneOrderPerLead
<1> DEFINE l == order[o].lead
           InHand(x) == \E w \in Workers : req[w].pc \in Drafting /\ req[w].draft = x
<1>1. l \in Leads
  BY DEF IInv, TypeOK, OrderRow
<1>2. /\ lead[l].order = o \/ InHand(o)
      /\ lead[l].order = p \/ InHand(p)
  BY <1>1 DEF IInv, OrdersAccounted
<1>3. ASSUME NEW w \in Workers, req[w].pc \in Drafting
      PROVE  /\ MutexHeld(w) /\ req[w].pc \in Holding
             /\ order[req[w].draft].lead = req[w].lead /\ lead[req[w].lead].order = NoOrder
  BY <1>3, StepNames DEF IInv, WorkerInv, MutexHeld, SnapshotCurrent, DraftInFlight
<1>4. CASE lead[l].order = o
  BY <1>2, <1>3, <1>4, LeadsAssumption
<1>5. CASE lead[l].order = p
  BY <1>2, <1>3, <1>5, LeadsAssumption
<1>6. CASE InHand(o) /\ InHand(p)
  <2>1. PICK v \in Workers : req[v].pc \in Drafting /\ req[v].draft = o
    BY <1>6
  <2>2. PICK w \in Workers : req[w].pc \in Drafting /\ req[w].draft = p
    BY <1>6
  <2>3. v = w
    BY <1>3, <2>1, <2>2, HoldersApart
  <2> QED BY <2>1, <2>2, <2>3
<1> QED BY <1>2, <1>4, <1>5, <1>6

\* All variables keep their types.
THEOREM TypeCorrect == Spec => []TypeOK
<1>1. IInv => TypeOK
  BY DEF IInv
<1> QED BY <1>1, Invariance, PTL

\* Whatever the interleaving of calls, sweeps and restarts, an order drafted for
\* a lead is the lead's only one, but for those whose creation failed half-way.
THEOREM OneOrderPerLeadHolds == Spec => []OneOrderPerLead
  BY OneOrder, Invariance, PTL

\* A lead is linked only to an order that is its own and was announced.
THEOREM LinkedOrderIsOfferedHolds == Spec => []LinkedOrderIsOffered
<1>1. IInv => LinkedOrderIsOffered
  BY DEF IInv
<1> QED BY <1>1, Invariance, PTL

\* No lead is converted before its deadline unless an administrator asked.
THEOREM NoEarlyOrderHolds == Spec => []NoEarlyOrder
<1>1. IInv => NoEarlyOrder
  BY DEF IInv
<1> QED BY <1>1, Invariance, PTL

\* Links change in LinkOrder only, by a holder whose lead is unlinked; filing a
\* lead finds it unlinked.
LEMMA LinksChange ==
    ASSUME IInv, [Next]_vars, NEW l \in Leads, lead'[l].order # lead[l].order
    PROVE  \E w \in Workers : LinkOrder(w) /\ req[w].lead = l
<1> USE DEF Workers
<1>t. lead \in [Leads -> LeadRow]
  BY DEF IInv, TypeOK
<1>1. ASSUME NEW k \in Leads, Create(k) PROVE FALSE
  BY <1>1, <1>t DEF Create, IInv, UnlinkedLead
<1>2. ASSUME NEW k, NEW s, SetStatus(k, s) PROVE FALSE
  BY <1>2, <1>t DEF SetStatus, LeadRow
<1>3. ASSUME lead' = lead PROVE FALSE
  BY <1>3
<1>4. ASSUME NEW w \in Calls, NEW k \in Leads, Call(w, k) PROVE FALSE
  BY <1>2, <1>3, <1>4 DEF Call, PatchContact, TimeoutRead, PatchAdmin
<1>5. ASSUME NEW w \in Workers, Continue(w), ~LinkOrder(w) PROVE FALSE
  BY <1>2, <1>3, <1>5 DEF Continue, Finalize, TimeoutWrite, StartFinalize, FinalizeRead,
     FinalizeSkip, Heal, Expire, Refetch, InsertDraft, PlaceDraft, Announce, ReadBack
<1>6. ASSUME NEW w \in Workers, LinkOrder(w), req[w].lead # l PROVE FALSE
  BY <1>6, <1>t DEF LinkOrder
<1>7. ASSUME (\E k \in Leads : DeadlinePasses(k) \/ Sweep(k)) \/ (\E w \in Workers : Fail(w))
             \/ Crash \/ UNCHANGED vars
      PROVE  FALSE
  BY <1>3, <1>7 DEF DeadlinePasses, Sweep, Fail, Crash, vars
<1> QED BY <1>1, <1>4, <1>5, <1>6, <1>7 DEF Next

\* At most one lead becomes ready in a step.
LEMMA ReadyGrows ==
    ASSUME [Next]_vars
    PROVE  \/ UNCHANGED <<late, forced>>
           \/ \E l \in Leads : late' = late \cup {l} /\ UNCHANGED forced
           \/ \E l \in Leads : forced' = forced \cup {l} /\ UNCHANGED late
<1>1. ASSUME NEW l \in Leads, Create(l) \/ DeadlinePasses(l) \/ Sweep(l)
      PROVE  UNCHANGED <<late, forced>> \/ (late' = late \cup {l} /\ UNCHANGED forced)
  BY <1>1 DEF Create, DeadlinePasses, Sweep
<1>2. ASSUME NEW w \in Calls, NEW l \in Leads, Call(w, l)
      PROVE  UNCHANGED <<late, forced>> \/ (forced' = forced \cup {l} /\ UNCHANGED late)
  BY <1>2 DEF Call, PatchContact, TimeoutRead, PatchAdmin
<1>3. ASSUME NEW w \in Workers, Continue(w) PROVE UNCHANGED <<late, forced>>
  BY <1>3 DEF Continue, Finalize, TimeoutWrite, StartFinalize, FinalizeRead, FinalizeSkip,
     Heal, Expire, Refetch, InsertDraft, PlaceDraft, Announce, LinkOrder, ReadBack
<1>4. ASSUME (\E w \in Workers : Fail(w)) \/ Crash \/ UNCHANGED vars
      PROVE  UNCHANGED <<late, forced>>
  BY <1>4 DEF Fail, Crash, vars
<1>5. CASE \E l \in Leads : Create(l) \/ DeadlinePasses(l) \/ Sweep(l)
  BY <1>1, <1>5, Zenon
<1>6. CASE \E w \in Calls, l \in Leads : Call(w, l)
  BY <1>2, <1>6, Zenon
<1>7. CASE (\E w \in Workers : Continue(w) \/ Fail(w)) \/ Crash \/ UNCHANGED vars
  BY <1>3, <1>4, <1>7, Zenon
<1> QED BY <1>5, <1>6, <1>7, Zenon DEF Next

\* The order of a lead is never replaced or dropped.
THEOREM LinkIsFinalHolds == Spec => LinkIsFinal
<1>1. ASSUME IInv, [Next]_vars, NEW l \in Leads, lead[l].order # NoOrder
      PROVE  lead'[l].order = lead[l].order
  <2> SUFFICES ASSUME lead'[l].order # lead[l].order PROVE FALSE
    OBVIOUS
  <2>1. PICK w \in Workers : LinkOrder(w) /\ req[w].lead = l
    BY <1>1, LinksChange
  <2>2. SnapshotCurrent(w)
    BY <1>1 DEF IInv, WorkerInv
  <2> QED BY <1>1, <2>1, <2>2, StepNames DEF SnapshotCurrent, LinkOrder, At
<1>2. IInv /\ [Next]_vars =>
        [\A l \in Leads : lead[l].order # NoOrder => lead'[l].order = lead[l].order]_vars
  BY <1>1
<1> QED BY <1>2, Invariance, PTL DEF Spec, LinkIsFinal

\* The pipeline of five entry points and four statements implements the
\* abstract conversion: ready leads are given one order each, once.
THEOREM Refinement == Spec => ConversionSpec
<1> DEFINE link == [l \in Leads |-> lead[l].order]
<1>1. Init => Conversion!Init
  BY DEF Init, Conversion!Init, NoRow
<1>2. ASSUME IInv, [Next]_vars
      PROVE  [Conversion!Next]_<<late \cup forced, link>>
  <2>1. CASE \E w \in Workers : LinkOrder(w)
    <3>1. PICK w \in Workers : LinkOrder(w)
      BY <2>1
    <3>2. /\ req[w].lead \in Leads /\ req[w].draft \in Orders
          /\ lead[req[w].lead].order = NoOrder
          /\ order[req[w].draft].lead = req[w].lead
      BY <1>2, <3>1, StepNames DEF IInv, WorkerInv, MutexHeld, SnapshotCurrent, DraftInFlight,
         LinkOrder, At
    <3>3. req[w].lead \in late \cup forced
      BY <1>2, <3>2 DEF IInv, NoEarlyOrder
    <3>4. \A k \in Leads : lead[k].order # req[w].draft
      BY <1>2, <3>2, LeadsAssumption DEF IInv, LinkedOrderIsOffered
    <3>5. link' = [link EXCEPT ![req[w].lead] = req[w].draft]
      BY <1>2, <3>1, <3>2 DEF LinkOrder, IInv, TypeOK
    <3>6. PICK l \in Leads, o \in Orders : l = req[w].lead /\ o = req[w].draft
      BY <3>2
    <3>7. Conversion!Convert(l, o)
      BY <3>1, <3>2, <3>3, <3>4, <3>5, <3>6 DEF Conversion!Convert, LinkOrder
    <3>8. Conversion!Next
      BY <3>7 DEF Conversion!Next
    <3> QED BY <3>8
  <2>2. CASE ~\E w \in Workers : LinkOrder(w)
    <3>1. link' = link
      BY <1>2, <2>2, LinksChange
    <3>2. late \cup forced = (late \cup forced)'
          \/ \E l \in Leads : (late \cup forced)' = late \cup forced \cup {l}
      BY <1>2, ReadyGrows
    <3> QED BY <3>1, <3>2 DEF Conversion!Next, Conversion!BecomeReady
  <2> QED BY <2>1, <2>2
<1> QED BY <1>1, <1>2, Invariance, PTL DEF Spec, ConversionSpec, Conversion!Spec
=============================================================================
