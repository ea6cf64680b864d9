------------------------------ MODULE Catalog ------------------------------
(***************************************************************************)
(* The service catalog: products and add-ons are kept in memory, loaded    *)
(* from the database when the process starts, and changed in memory before *)
(* the database (ServiceCatalogService, catalog-db.ts).                    *)
(*                                                                         *)
(* A row is its code, its price and whether it is active; one price stands *)
(* for all columns a patch may write.  Categories never change once they   *)
(* are seeded and are left out.                                            *)
(***************************************************************************)
EXTENDS Naturals, FiniteSets

CONSTANTS
    Products,         \* ids of service_products
    Addons,           \* ids of service_addons
    Fixtures,         \* the products and add-ons of catalog.fixture.ts
    Codes,
    FixtureCode,      \* the code of a fixture
    Prices,
    FixturePrice,     \* the price of a fixture
    NoRow,            \* the row of an id that has none
    Calls,            \* administrator calls that may be in flight
    MaxArrivals,      \* bound: calls that arrive in a behaviour
    MaxFailures,      \* bound: statements that fail in a behaviour
    MaxRestarts       \* bound: times the process stops in a behaviour

Items == Products \cup Addons

Row == [code: Codes, price: Prices, active: {"yes", "no"}]

ASSUME CatalogAssumption ==
    /\ Fixtures \subseteq Items
    /\ Fixtures \cap Products # {}
    /\ FixtureCode \in [Fixtures -> Codes]
    /\ \A i, j \in Fixtures : i # j => FixtureCode[i] # FixtureCode[j]
    /\ FixturePrice \in Prices
    /\ Products \cap Addons = {}
    /\ NoRow \notin Items \cup Row
    /\ MaxArrivals \in Nat
    /\ MaxFailures \in Nat
    /\ MaxRestarts \in Nat

VARIABLES
    table,      \* service_products, service_addons
    memory,     \* this.products, this.addons
    phase,      \* where onModuleInit is
    req,        \* the calls in flight
    arrived,    \* calls that have arrived
    failures,   \* statements that failed so far
    restarts,   \* times the process stopped
    doubtful,   \* history: rows a write of which failed or met another since the start
    cut         \* history: whether seeding was ever cut off

vars == <<table, memory, phase, req, arrived, failures, restarts, doubtful, cut>>

\* Down; inserting the products or the add-ons of the seed; loading; serving.
Phases == {"down", "products", "addons", "load", "up"}

\* insert, append: a new row, in the table and then in memory;  replace: an old one.
Steps == {"idle", "insert", "append", "replace"}

Req == [pc: Steps, item: Items \cup {NoRow}, row: Row \cup {NoRow}]

Idle == [pc |-> "idle", item |-> NoRow, row |-> NoRow]

TypeOK ==
    /\ table \in [Items -> Row \cup {NoRow}]
    /\ memory \in [Items -> Row \cup {NoRow}]
    /\ phase \in Phases
    /\ req \in [Calls -> Req]
    /\ arrived \in 0..MaxArrivals
    /\ failures \in 0..MaxFailures
    /\ restarts \in 0..MaxRestarts
    /\ doubtful \in SUBSET Items
    /\ cut \in {"no", "yes"}

FixtureRow(i) == [code |-> FixtureCode[i], price |-> FixturePrice, active |-> "yes"]

\* The database is empty, or service_catalog_seed.sql has put the fixtures there.
Init ==
    /\ \/ table = [i \in Items |-> NoRow]
       \/ table = [i \in Items |-> IF i \in Fixtures THEN FixtureRow(i) ELSE NoRow]
    /\ memory = [i \in Items |-> NoRow]
    /\ phase = "down"
    /\ req = [w \in Calls |-> Idle]
    /\ arrived = 0
    /\ failures = 0
    /\ restarts = 0
    /\ doubtful = {}
    /\ cut = "no"

-----------------------------------------------------------------------------
(* Helpers *)

At(w, pc) == req[w].pc = pc

Alike(i, j) == i \in Products <=> j \in Products

\* The ids of i's kind that have a row with the code.
Coded(rows, i, code) ==
    {j \in Items : Alike(i, j) /\ rows[j] # NoRow /\ rows[j].code = code}

\* Calls that are about to write the row of an item.
Writers(i) == {w \in Calls : req[w].item = i}

Finish(w) == req' = [req EXCEPT ![w] = Idle]

Enter(w, pc, i, row) ==
    /\ phase = "up"
    /\ At(w, "idle")
    /\ arrived < MaxArrivals
    /\ arrived' = arrived + 1
    /\ req' = [req EXCEPT ![w] = [pc |-> pc, item |-> i, row |-> row]]

-----------------------------------------------------------------------------
(* Start *)

Loaded == memory' = table /\ phase' = "up"

\* onModuleInit: a catalog without products is seeded.
Start ==
    /\ phase = "down"
    /\ IF \E i \in Products : table[i] # NoRow
         THEN Loaded
         ELSE phase' = "products" /\ UNCHANGED memory
    /\ UNCHANGED <<table, req, arrived, failures, restarts, doubtful, cut>>

\* upsertFixtureSeed: a row that has the code of a fixture becomes the fixture.
Seeded(kind) ==
    table' = [i \in Items |->
        IF i \in Fixtures \cap kind
          THEN FixtureRow(i)
          ELSE IF i \in kind /\ table[i] # NoRow
                    /\ \E f \in Fixtures \cap kind : table[i].code = FixtureCode[f]
                 THEN NoRow ELSE table[i]]

SeedProducts ==
    /\ phase = "products"
    /\ Seeded(Products)
    /\ phase' = "addons"
    /\ UNCHANGED <<memory, req, arrived, failures, restarts, doubtful, cut>>

SeedAddons ==
    /\ phase = "addons"
    /\ Seeded(Addons)
    /\ phase' = "load"
    /\ UNCHANGED <<memory, req, arrived, failures, restarts, doubtful, cut>>

\* A bug: what was read before the seed is what is served.
ReloadNothing ==
    /\ phase = "load"
    /\ phase' = "up"
    /\ UNCHANGED <<table, memory, req, arrived, failures, restarts, doubtful, cut>>

Reload ==
    /\ phase = "load"
    /\ Loaded
    /\ UNCHANGED <<table, req, arrived, failures, restarts, doubtful, cut>>

\* A statement of the start fails and the process ends, or it ends later: calls in
\* flight are lost, and so is what only memory has.
Stop ==
    /\ phase # "down"
    /\ restarts < MaxRestarts
    /\ restarts' = restarts + 1
    /\ phase' = "down"
    /\ memory' = [i \in Items |-> NoRow]
    /\ req' = [w \in Calls |-> Idle]
    /\ doubtful' = {}
    /\ cut' = IF phase = "addons" THEN "yes" ELSE cut
    /\ UNCHANGED <<table, arrived, failures>>

-----------------------------------------------------------------------------
(* Administrators *)

\* createProduct, createAddon look for the code in memory, ...
Create(w) ==
    /\ \E i \in Items, row \in Row :
         /\ table[i] = NoRow /\ Writers(i) = {}
         /\ i \in Addons => row.active = "yes"
         /\ Coded(memory, i, row.code) = {}
         /\ Enter(w, "insert", i, row)
    /\ UNCHANGED <<table, memory, phase, failures, restarts, doubtful, cut>>

\* ... insert the row, which the table refuses if the code is taken by now, ...
Insert(w) ==
    LET i == req[w].item IN
    /\ At(w, "insert")
    /\ IF Coded(table, i, req[w].row.code) = {}
         THEN /\ table' = [table EXCEPT ![i] = req[w].row]
              /\ req' = [req EXCEPT ![w].pc = "append"]
         ELSE Finish(w) /\ UNCHANGED table
    /\ UNCHANGED <<memory, phase, arrived, failures, restarts, doubtful, cut>>

\* ... and then take it into memory.
Append(w) ==
    /\ At(w, "append")
    /\ memory' = [memory EXCEPT ![req[w].item] = req[w].row]
    /\ Finish(w)
    /\ UNCHANGED <<table, phase, arrived, failures, restarts, doubtful, cut>>

\* A bug: the row that is persisted is the one from before the change.
PatchBehind(w) ==
    /\ \E i \in Items, row \in Row :
         /\ memory[i] # NoRow
         /\ row.code = memory[i].code
         /\ memory' = [memory EXCEPT ![i] = row]
         /\ Enter(w, "replace", i, memory[i])
         /\ doubtful' = IF Writers(i) = {} THEN doubtful ELSE doubtful \cup {i}
    /\ UNCHANGED <<table, phase, failures, restarts, cut>>

\* patchProduct, patchAddon, deactivateProduct and deactivateAddon change the row in
\* memory first and send all of it as it is then.
Patch(w) ==
    /\ \E i \in Items, row \in Row :
         /\ memory[i] # NoRow
         /\ row.code = memory[i].code
         /\ memory' = [memory EXCEPT ![i] = row]
         /\ Enter(w, "replace", i, row)
         /\ doubtful' = IF Writers(i) = {} THEN doubtful ELSE doubtful \cup {i}
    /\ UNCHANGED <<table, phase, failures, restarts, cut>>

\* Requests sent one after the other may be served in another order.
Replace(w) ==
    /\ At(w, "replace")
    /\ table' = [table EXCEPT ![req[w].item] = req[w].row]
    /\ Finish(w)
    /\ UNCHANGED <<memory, phase, arrived, failures, restarts, doubtful, cut>>

\* A write fails, or its answer is lost: memory keeps the change.
Fail(w) ==
    /\ ~At(w, "idle")
    /\ failures < MaxFailures
    /\ failures' = failures + 1
    /\ doubtful' = IF At(w, "replace") THEN doubtful \cup {req[w].item} ELSE doubtful
    /\ Finish(w)
    /\ UNCHANGED <<table, memory, phase, arrived, restarts, cut>>

-----------------------------------------------------------------------------
(* Specification *)

Boot == Start \/ SeedProducts \/ SeedAddons \/ Reload

Write(w) == Create(w) \/ Insert(w) \/ Append(w) \/ Patch(w) \/ Replace(w)

Next == Boot \/ Stop \/ \E w \in Calls : Write(w) \/ Fail(w)

Spec == Init /\ [][Next]_vars

-----------------------------------------------------------------------------
(* Properties *)

\* What is sold is what the database holds: a row in memory differs from the table
\* only while it is being written or if a write of it failed or met another since
\* the process started.
SoldAsStored ==
    \A i \in Items :
        phase = "up" /\ memory[i] # NoRow /\ Writers(i) = {} /\ i \notin doubtful
            => memory[i] = table[i]

\* Once the process serves it has products to sell, and the fixtures' add-ons unless
\* the process once ended between the products and the add-ons of the seed.
StartsWithProducts ==
    phase = "up" =>
        /\ \E i \in Products : memory[i] # NoRow
        /\ cut = "no" => \A i \in Fixtures : memory[i] # NoRow
=============================================================================
