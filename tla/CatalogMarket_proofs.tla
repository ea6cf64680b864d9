------------------------ MODULE CatalogMarket_proofs ------------------------
(***************************************************************************)
(* Proofs about what is offered: the catalog of services, for any          *)
(* products, add-ons, fixtures, codes, prices, calls and bounds, and the   *)
(* material market, for any materials, orders, sellers, calls and bounds.  *)
(* The two components share no state and no definition; their proofs share *)
(* a module.                                                               *)
(***************************************************************************)
EXTENDS Catalog, MaterialMarket, FiniteSetTheorems, WellFoundedInduction, TLAPS

-----------------------------------------------------------------------------
(* The inductive invariant of the catalog *)

\* A product to sell, and everything the fixtures name.
Stocked(rows) == \E i \in Products : rows[i] # NoRow

Furnished(rows) == \A i \in Fixtures : rows[i] # NoRow

\* A call knows which row it is about to write, and nobody else writes a row that is
\* new, or one whose writes have not met.
Sole(w) == \A v \in Calls : req[v].item = req[w].item => v = w

CallInv(w) ==
    /\ req[w].pc = "idle" => req[w] = Idle
    /\ req[w].pc # "idle" => req[w].item \in Items /\ req[w].row \in Row
    /\ req[w].pc \in {"insert", "append"} => memory[req[w].item] = NoRow /\ Sole(w)
    /\ req[w].pc = "append" => table[req[w].item] = req[w].row
    /\ req[w].pc = "replace" =>
          \/ req[w].item \in doubtful
          \/ memory[req[w].item] = req[w].row /\ Sole(w)

\* The seed goes in from its first product to its last add-on, or was cut off.
SeedInv ==
    /\ phase = "products" => ~Stocked(table)
    /\ phase = "addons" => \A i \in Fixtures \cap Products : table[i] # NoRow
    /\ phase = "load" => Furnished(table)
    /\ phase = "down" /\ cut = "no" /\ Stocked(table) => Furnished(table)
    /\ phase = "up" => /\ Stocked(memory)
                       /\ cut = "no" => Furnished(memory) /\ Furnished(table)

CatalogInv ==
    /\ TypeOK
    /\ phase # "up" => \A w \in Calls : req[w] = Idle
    /\ \A w \in Calls : CallInv(w)
    /\ phase = "up" => \A i \in Items : memory[i] # NoRow => table[i] # NoRow
    /\ SoldAsStored
    /\ SeedInv

\* A call that is not in flight, and a fixture's row.
LEMMA IdleAndSeed ==
    /\ Idle \in Req
    /\ \A i \in Fixtures : FixtureRow(i) \in Row
    /\ NoRow \notin Items /\ NoRow \notin Row
  BY CatalogAssumption DEF Idle, Req, Steps, Row, FixtureRow

\* Who is about to write a row, and who is not.
LEMMA WritersAre ==
    ASSUME NEW i
    PROVE  Writers(i) = {} <=> \A v \in Calls : req[v].item # i
  BY DEF Writers

-----------------------------------------------------------------------------
(* Start and end of the process *)

\* While the process starts, no call is in flight.
LEMMA Starting ==
    ASSUME CatalogInv, phase # "up"
    PROVE  \A w \in Calls : req[w] = Idle
  BY DEF CatalogInv

\* Nothing is known of a row while no call is in flight but what is in the table.
LEMMA QuietKeeps ==
    ASSUME CatalogInv, TypeOK', SeedInv', \A w \in Calls : req'[w] = Idle,
           phase' = "up" => memory' = table'
    PROVE  CatalogInv'
<1>1. \A w \in Calls : CallInv(w)'
  BY DEF CallInv, Idle
<1>2. SoldAsStored'
  BY DEF SoldAsStored
<1> QED BY <1>1, <1>2 DEF CatalogInv

\* The table is read, and serves if it has a product.
LEMMA StartKeeps ==
    ASSUME CatalogInv, Start
    PROVE  CatalogInv'
<1>t. TypeOK /\ SeedInv /\ phase = "down" /\ \A w \in Calls : req[w] = Idle
  BY DEF CatalogInv, Start
<1>1. TypeOK'
  BY <1>t DEF Start, Loaded, TypeOK, Phases
<1>2. SeedInv'
  <2>1. CASE Stocked(table)
    BY <1>t, <2>1 DEF Start, Loaded, SeedInv, Stocked, Furnished
  <2>2. CASE ~Stocked(table)
    BY <1>t, <2>2 DEF Start, SeedInv, Stocked, Furnished
  <2> QED BY <2>1, <2>2
<1>3. (\A w \in Calls : req'[w] = Idle) /\ (phase' = "up" => memory' = table')
  BY <1>t DEF Start, Loaded
<1> QED BY <1>1, <1>2, <1>3, QuietKeeps

\* What seeding does to the rows of a kind and to all others.
LEMMA SeededRows ==
    ASSUME TypeOK, NEW kind \in SUBSET Items, Seeded(kind)
    PROVE  /\ table' \in [Items -> Row \cup {NoRow}]
           /\ \A i \in Fixtures \cap kind : table'[i] # NoRow
           /\ \A i \in Items \ kind : table'[i] = table[i]
<1>1. Fixtures \subseteq Items
  BY CatalogAssumption
<1>2. table' \in [Items -> Row \cup {NoRow}]
  BY IdleAndSeed DEF Seeded, TypeOK
<1>3. \A i \in Fixtures \cap kind : table'[i] \in Row
  BY <1>1, IdleAndSeed DEF Seeded
<1>4. \A i \in Items \ kind : table'[i] = table[i]
  BY DEF Seeded
<1> QED BY <1>2, <1>3, <1>4, IdleAndSeed

\* Products go in, then add-ons.
LEMMA SeedKeeps ==
    ASSUME CatalogInv, SeedProducts \/ SeedAddons
    PROVE  CatalogInv'
<1>t. TypeOK /\ SeedInv /\ phase # "up" /\ \A w \in Calls : req[w] = Idle
  BY DEF CatalogInv, SeedProducts, SeedAddons
<1>k. Products \in SUBSET Items /\ Addons \in SUBSET Items /\ Fixtures \subseteq Items
      /\ Products \cap Addons = {}
  BY CatalogAssumption DEF Items
<1>1. CASE SeedProducts
  <2>1. /\ table' \in [Items -> Row \cup {NoRow}]
        /\ \A i \in Fixtures \cap Products : table'[i] # NoRow
    BY <1>1, <1>t, <1>k, SeededRows DEF SeedProducts
  <2>2. TypeOK' /\ phase' = "addons"
    BY <1>1, <1>t, <2>1 DEF SeedProducts, TypeOK, Phases
  <2>3. SeedInv'
    BY <2>1, <2>2 DEF SeedInv
  <2> QED BY <1>1, <1>t, <2>2, <2>3, QuietKeeps DEF SeedProducts
<1>2. CASE SeedAddons
  <2>1. /\ table' \in [Items -> Row \cup {NoRow}]
        /\ \A i \in Fixtures \cap Addons : table'[i] # NoRow
        /\ \A i \in Items \ Addons : table'[i] = table[i]
    BY <1>2, <1>t, <1>k, SeededRows DEF SeedAddons
  <2>2. TypeOK' /\ phase' = "load"
    BY <1>2, <1>t, <2>1 DEF SeedAddons, TypeOK, Phases
  <2>3. \A i \in Fixtures \cap Products : table'[i] # NoRow
    BY <1>2, <1>t, <1>k, <2>1 DEF SeedAddons, SeedInv
  <2>4. SeedInv'
    BY <1>k, <2>1, <2>2, <2>3 DEF SeedInv, Furnished, Items
  <2> QED BY <1>2, <1>t, <2>2, <2>4, QuietKeeps DEF SeedAddons
<1> QED BY <1>1, <1>2

\* What was seeded is loaded.
LEMMA ReloadKeeps ==
    ASSUME CatalogInv, Reload
    PROVE  CatalogInv'
<1>t. TypeOK /\ SeedInv /\ phase = "load" /\ \A w \in Calls : req[w] = Idle
  BY DEF CatalogInv, Reload
<1>1. TypeOK'
  BY <1>t DEF Reload, Loaded, TypeOK, Phases
<1>2. Furnished(table) => Stocked(table)
  BY CatalogAssumption DEF Furnished, Stocked
<1>3. SeedInv'
  BY <1>t, <1>2 DEF Reload, Loaded, SeedInv, Stocked, Furnished
<1> QED BY <1>1, <1>3, <1>t, QuietKeeps DEF Reload, Loaded

\* The process ends, whatever it was doing.
LEMMA StopKeeps ==
    ASSUME CatalogInv, Stop
    PROVE  CatalogInv'
<1>t. TypeOK /\ SeedInv
  BY DEF CatalogInv
<1>1. TypeOK'
  BY <1>t, IdleAndSeed, CatalogAssumption DEF Stop, TypeOK, Phases
<1>2. SeedInv'
  <2>1. phase \in {"products", "addons", "load", "up"}
    BY <1>t DEF Stop, TypeOK, Phases
  <2>2. ASSUME cut' = "no", Stocked(table) PROVE Furnished(table)
    BY <1>t, <2>1, <2>2 DEF Stop, SeedInv
  <2> QED BY <2>2 DEF Stop, SeedInv, Stocked, Furnished
<1> QED BY <1>1, <1>2, QuietKeeps DEF Stop

-----------------------------------------------------------------------------
(* Administrators *)

\* A call that is in flight finds the process serving.
LEMMA Serving ==
    ASSUME CatalogInv, NEW w \in Calls, ~At(w, "idle")
    PROVE  phase = "up" /\ req[w].item \in Items /\ req[w].row \in Row
  BY DEF CatalogInv, At, Idle, CallInv

\* While the process serves, neither memory nor the table loses a row.
LEMMA RowsStay ==
    ASSUME CatalogInv, phase = "up", UNCHANGED <<phase, cut>>,
           \A i \in Items : memory[i] # NoRow => memory'[i] # NoRow,
           \A i \in Items : table[i] # NoRow => table'[i] # NoRow
    PROVE  SeedInv'
<1>1. SeedInv /\ Products \subseteq Items /\ Fixtures \subseteq Items
  BY CatalogAssumption DEF CatalogInv, Items
<1> QED BY <1>1 DEF SeedInv, Stocked, Furnished

\* One call goes on; what another one knows stays true if nobody touches its row, or
\* if the row is in doubt.
LEMMA OthersKnow ==
    ASSUME CatalogInv, NEW w \in Calls, NEW c, req' = [req EXCEPT ![w] = c], NEW v \in Calls \ {w},
           doubtful \subseteq doubtful',
           \/ req[v].pc = "idle"
           \/ req[v].pc = "replace" /\ req[v].item \in doubtful'
           \/ /\ c.item = req[v].item => req[w].item = req[v].item
              /\ memory'[req[v].item] = memory[req[v].item]
              /\ req[v].pc = "append" => table'[req[v].item] = table[req[v].item]
    PROVE  CallInv(v)'
<1>1. CallInv(v) /\ req \in [Calls -> Req]
  BY DEF CatalogInv, TypeOK
<1>2. req'[v] = req[v] /\ req'[w] = c /\ \A u \in Calls \ {w} : req'[u] = req[u]
  BY <1>1
<1>3. CASE req[v].pc = "idle"
  BY <1>1, <1>2, <1>3 DEF CallInv, Idle
<1>4. CASE req[v].pc = "replace" /\ req[v].item \in doubtful'
  BY <1>1, <1>2, <1>4 DEF CallInv
<1>5. CASE /\ req[v].pc # "idle"
           /\ c.item = req[v].item => req[w].item = req[v].item
           /\ memory'[req[v].item] = memory[req[v].item]
           /\ req[v].pc = "append" => table'[req[v].item] = table[req[v].item]
  <2>1. Sole(v) => Sole(v)'
    BY <1>2, <1>5 DEF Sole
  <2> QED BY <1>1, <1>2, <1>5, <2>1 DEF CallInv
<1> QED BY <1>3, <1>4, <1>5

\* The record of one call changes within its type.
LEMMA ReqType ==
    ASSUME CatalogInv, NEW w \in Calls, NEW c \in Req, req' = [req EXCEPT ![w] = c]
    PROVE  req' \in [Calls -> Req] /\ req'[w] = c /\ \A v \in Calls \ {w} : req'[v] = req[v]
  BY DEF CatalogInv, TypeOK

\* What is sold of a row nobody writes is what is stored, if neither changed.
LEMMA SoldStays ==
    ASSUME CatalogInv, NEW w \in Calls, phase = "up", \A v \in Calls \ {w} : req'[v] = req[v],
           NEW j \in Items, Writers(j)' = {}, j \notin doubtful', memory'[j] # NoRow,
           req[w].item # j, doubtful \subseteq doubtful',
           memory'[j] = memory[j], table'[j] = table[j]
    PROVE  memory'[j] = table'[j]
<1>1. Writers(j) = {}
  BY DEF Writers
<1> QED BY <1>1 DEF CatalogInv, SoldAsStored

\* A new row: nobody else writes it, and memory does not have it.
LEMMA CreateKeeps ==
    ASSUME CatalogInv, NEW w \in Calls, Create(w)
    PROVE  CatalogInv'
<1>1. PICK i \in Items, row \in Row : /\ table[i] = NoRow /\ Writers(i) = {}
                                      /\ Enter(w, "insert", i, row)
  BY DEF Create
<1> DEFINE c == [pc |-> "insert", item |-> i, row |-> row]
<1> HIDE DEF c
<1>2. /\ phase = "up" /\ req[w].pc = "idle" /\ req' = [req EXCEPT ![w] = c]
      /\ arrived' = arrived + 1 /\ arrived < MaxArrivals
      /\ UNCHANGED <<table, memory, phase, failures, restarts, doubtful, cut>>
  BY <1>1 DEF Create, Enter, At, c
<1>c. c \in Req /\ c.pc = "insert" /\ c.item = i /\ c.row = row
  BY DEF Req, Steps, c
<1>t. TypeOK /\ memory[i] = NoRow /\ req[w] = Idle /\ \A v \in Calls : req[v].item # i
  BY <1>1, <1>2 DEF CatalogInv, CallInv, Writers
<1>r. req' \in [Calls -> Req] /\ req'[w] = c /\ \A v \in Calls \ {w} : req'[v] = req[v]
  BY <1>c, <1>2, ReqType
<1>3. TypeOK'
  BY <1>t, <1>r, <1>2, CatalogAssumption DEF TypeOK
<1>4. ASSUME NEW v \in Calls PROVE CallInv(v)'
  <2>1. CASE v = w
    <3>1. Sole(w)'
      BY <1>c, <1>r, <1>t DEF Sole
    <3> QED BY <2>1, <3>1, <1>c, <1>r, <1>t, <1>2 DEF CallInv
  <2>2. CASE v # w
    BY <2>2, <1>2, <1>c, <1>t, OthersKnow
  <2> QED BY <2>1, <2>2
<1>5. SoldAsStored'
  <2>1. ASSUME NEW j \in Items, Writers(j)' = {}, j \notin doubtful', memory'[j] # NoRow
        PROVE  memory'[j] = table'[j]
    <3>1. req[w].item # j
      BY <1>t, IdleAndSeed DEF Idle
    <3> QED BY <1>2, <1>r, <2>1, <3>1, SoldStays
  <2> QED BY <2>1 DEF SoldAsStored
<1>6. SeedInv'
  BY <1>2, RowsStay
<1> QED BY <1>2, <1>3, <1>4, <1>5, <1>6 DEF CatalogInv

\* The table takes the new row, or refuses it.
LEMMA InsertKeeps ==
    ASSUME CatalogInv, NEW w \in Calls, Insert(w)
    PROVE  CatalogInv'
<1> DEFINE i == req[w].item
<1>t. /\ TypeOK /\ req[w].pc = "insert" /\ phase = "up" /\ i \in Items /\ req[w].row \in Row /\ req[w] \in Req
      /\ memory[i] = NoRow /\ Sole(w) /\ NoRow \notin Items \cup Row
      /\ UNCHANGED <<memory, phase, arrived, failures, restarts, doubtful, cut>>
  BY Serving, IdleAndSeed DEF CatalogInv, TypeOK, Insert, At, CallInv
<1>1. PICK c : /\ req' = [req EXCEPT ![w] = c]
               /\ \/ c = Idle /\ UNCHANGED table
                  \/ /\ c = [req[w] EXCEPT !.pc = "append"]
                     /\ table' = [table EXCEPT ![i] = req[w].row]
  BY <1>t DEF Insert, Finish, TypeOK
<1>2. /\ c \in Req /\ c.item \in {i, NoRow}
      /\ c.pc = "append" => c.item = i /\ c.row = req[w].row
      /\ c = Idle \/ c.pc = "append"
  BY <1>1, <1>t, IdleAndSeed DEF Req, Steps, Idle
<1>r. req' \in [Calls -> Req] /\ req'[w] = c /\ \A v \in Calls \ {w} : req'[v] = req[v] /\ req[v].item # i
  BY <1>1, <1>2, <1>t, ReqType DEF Sole
<1>b. \A j \in Items \ {i} : table'[j] = table[j]
  BY <1>1, <1>t DEF TypeOK
<1>3. TypeOK'
  BY <1>1, <1>t, <1>r DEF TypeOK
<1>4. ASSUME NEW v \in Calls PROVE CallInv(v)'
  <2>1. CASE v = w
    <3>1. CASE c = Idle
      BY <2>1, <3>1, <1>r DEF CallInv, Idle
    <3>2. CASE c.pc = "append"
      <4>1. Sole(w)'
        BY <1>2, <1>r, <3>2 DEF Sole
      <4>2. table'[i] = req[w].row
        BY <1>1, <1>t, <3>2 DEF TypeOK, Idle
      <4> QED BY <2>1, <3>2, <4>1, <4>2, <1>2, <1>r, <1>t DEF CallInv
    <3> QED BY <1>2, <3>1, <3>2
  <2>2. CASE v # w
    <3>1. CASE req[v].pc = "idle"
      BY <2>2, <3>1, <1>1, <1>t, OthersKnow
    <3>2. CASE req[v].pc # "idle"
      <4>1. req[v].item \in Items \ {i}
        BY <2>2, <3>2, <1>r DEF CatalogInv, CallInv
      <4> QED BY <2>2, <4>1, <1>1, <1>2, <1>t, <1>b, OthersKnow
    <3> QED BY <3>1, <3>2
  <2> QED BY <2>1, <2>2
<1>5. SoldAsStored'
  <2>1. ASSUME NEW j \in Items, Writers(j)' = {}, j \notin doubtful', memory'[j] # NoRow
        PROVE  memory'[j] = table'[j]
    <3>1. j # i
      BY <1>t, <2>1
    <3> QED BY <1>b, <1>r, <1>t, <2>1, <3>1, SoldStays
  <2> QED BY <2>1 DEF SoldAsStored
<1>6. \A j \in Items : table[j] # NoRow => table'[j] # NoRow
  BY <1>1, <1>t DEF TypeOK
<1>7. SeedInv'
  BY <1>6, <1>t, RowsStay
<1> QED BY <1>3, <1>4, <1>5, <1>6, <1>7, <1>t DEF CatalogInv

\* Memory takes the new row.
LEMMA AppendKeeps ==
    ASSUME CatalogInv, NEW w \in Calls, Append(w)
    PROVE  CatalogInv'
<1> DEFINE i == req[w].item
<1>t. /\ TypeOK /\ req[w].pc = "append" /\ phase = "up" /\ i \in Items /\ req[w].row \in Row
      /\ table[i] = req[w].row /\ Sole(w) /\ NoRow \notin Items \cup Row
      /\ memory' = [memory EXCEPT ![i] = req[w].row] /\ req' = [req EXCEPT ![w] = Idle]
      /\ UNCHANGED <<table, phase, arrived, failures, restarts, doubtful, cut>>
  BY Serving, IdleAndSeed DEF CatalogInv, TypeOK, Append, At, CallInv, Finish
<1>m. memory'[i] = table[i] /\ \A j \in Items \ {i} : memory'[j] = memory[j]
  BY <1>t DEF TypeOK
<1>r. req' \in [Calls -> Req] /\ req'[w] = Idle /\ \A v \in Calls \ {w} : req'[v] = req[v] /\ req[v].item # i
  BY <1>t, IdleAndSeed, ReqType DEF Sole
<1>3. TypeOK'
  BY <1>t, <1>r DEF TypeOK
<1>4. ASSUME NEW v \in Calls PROVE CallInv(v)'
  <2>1. CASE v = w \/ req[v].pc = "idle"
    <3>1. req'[v] = Idle
      BY <1>r, <2>1 DEF CatalogInv, CallInv
    <3> QED BY <3>1 DEF CallInv, Idle
  <2>2. CASE v # w /\ req[v].pc # "idle"
    <3>1. req[v].item \in Items \ {i} /\ Idle.item # req[v].item
      BY <2>2, <1>r, <1>t DEF CatalogInv, CallInv, Idle
    <3> QED BY <2>2, <3>1, <1>m, <1>t, OthersKnow
  <2> QED BY <2>1, <2>2
<1>5. SoldAsStored'
  <2>1. ASSUME NEW j \in Items, Writers(j)' = {}, j \notin doubtful', memory'[j] # NoRow
        PROVE  memory'[j] = table'[j]
    <3>1. CASE j = i
      BY <3>1, <1>m, <1>t
    <3>2. CASE j # i
      BY <1>m, <1>r, <1>t, <2>1, <3>2, SoldStays
    <3> QED BY <3>1, <3>2
  <2> QED BY <2>1 DEF SoldAsStored
<1>6. \A j \in Items : memory[j] # NoRow => memory'[j] # NoRow
  BY <1>m, <1>t
<1>7. SeedInv'
  BY <1>6, <1>t, RowsStay
<1>8. \A j \in Items : memory'[j] # NoRow => table'[j] # NoRow
  BY <1>m, <1>t DEF CatalogInv
<1> QED BY <1>3, <1>4, <1>5, <1>7, <1>8, <1>t DEF CatalogInv

\* A row in memory changes before it is persisted; when another call was about to
\* write it, the row is in doubt from now on.
LEMMA PatchKeeps ==
    ASSUME CatalogInv, NEW w \in Calls, Patch(w)
    PROVE  CatalogInv'
<1>1. PICK i \in Items, row \in Row :
         /\ memory[i] # NoRow
         /\ memory' = [memory EXCEPT ![i] = row]
         /\ Enter(w, "replace", i, row)
         /\ doubtful' = IF Writers(i) = {} THEN doubtful ELSE doubtful \cup {i}
  BY DEF Patch
<1> DEFINE c == [pc |-> "replace", item |-> i, row |-> row]
<1> HIDE DEF c
<1>2. /\ phase = "up" /\ req[w].pc = "idle" /\ req' = [req EXCEPT ![w] = c]
      /\ arrived' = arrived + 1 /\ arrived < MaxArrivals
      /\ UNCHANGED <<table, phase, failures, restarts, cut>>
  BY <1>1 DEF Patch, Enter, At, c
<1>c. c \in Req /\ c.pc = "replace" /\ c.item = i /\ c.row = row
  BY DEF Req, Steps, c
<1>t. TypeOK /\ req[w] = Idle /\ NoRow \notin Items \cup Row
  BY <1>2, IdleAndSeed DEF CatalogInv, CallInv
<1>r. req' \in [Calls -> Req] /\ req'[w] = c /\ \A v \in Calls \ {w} : req'[v] = req[v]
  BY <1>c, <1>2, ReqType
<1>m. memory'[i] = row /\ \A j \in Items \ {i} : memory'[j] = memory[j]
  BY <1>1, <1>t DEF TypeOK
<1>d. doubtful \subseteq doubtful' /\ doubtful' \in SUBSET Items
  BY <1>1, <1>t DEF TypeOK
<1>3. TypeOK'
  BY <1>1, <1>d, <1>t, <1>r, <1>2, CatalogAssumption DEF TypeOK
<1>4. ASSUME NEW v \in Calls PROVE CallInv(v)'
  <2>1. CASE v = w
    <3>1. i \notin doubtful' => Sole(w)'
      BY <1>1, <1>c, <1>r DEF Sole, Writers
    <3> QED BY <2>1, <3>1, <1>c, <1>m, <1>r DEF CallInv
  <2>2. CASE v # w /\ req[v].item = i
    <3>1. req[v].pc = "replace"
      <4>1. req[v].pc \in {"idle", "insert", "append", "replace"} /\ CallInv(v)
        BY <1>t DEF TypeOK, Req, Steps, CatalogInv
      <4> QED BY <1>1, <1>t, <2>2, <4>1 DEF CallInv, Idle
    <3>2. i \in doubtful'
      BY <1>1, <2>2 DEF Writers
    <3> QED BY <2>2, <3>1, <3>2, <1>2, <1>d, OthersKnow
  <2>3. CASE v # w /\ req[v].item # i
    <3>1. CASE req[v].pc = "idle"
      BY <2>3, <3>1, <1>2, <1>d, OthersKnow
    <3>2. CASE req[v].pc # "idle"
      <4>1. req[v].item \in Items
        BY <3>2 DEF CatalogInv, CallInv
      <4> QED BY <2>3, <4>1, <1>2, <1>c, <1>d, <1>m, OthersKnow
    <3> QED BY <3>1, <3>2
  <2> QED BY <2>1, <2>2, <2>3
<1>5. SoldAsStored'
  <2>1. ASSUME NEW j \in Items, Writers(j)' = {}, j \notin doubtful', memory'[j] # NoRow
        PROVE  memory'[j] = table'[j]
    <3>1. j # i
      BY <2>1, <1>c, <1>r DEF Writers
    <3>2. req[w].item # j
      BY <1>t DEF Idle
    <3> QED BY <1>d, <1>m, <1>r, <1>2, <2>1, <3>1, <3>2, SoldStays
  <2> QED BY <2>1 DEF SoldAsStored
<1>6. \A j \in Items : memory[j] # NoRow => memory'[j] # NoRow
  BY <1>m, <1>t
<1>7. SeedInv'
  BY <1>2, <1>6, RowsStay
<1>8. \A j \in Items : memory'[j] # NoRow => table'[j] # NoRow
  BY <1>1, <1>2, <1>m DEF CatalogInv
<1> QED BY <1>2, <1>3, <1>4, <1>5, <1>7, <1>8 DEF CatalogInv

\* The row is persisted as the call knows it.
LEMMA ReplaceKeeps ==
    ASSUME CatalogInv, NEW w \in Calls, Replace(w)
    PROVE  CatalogInv'
<1> DEFINE i == req[w].item
<1>t. /\ TypeOK /\ req[w].pc = "replace" /\ phase = "up" /\ i \in Items /\ req[w].row \in Row
      /\ i \in doubtful \/ (memory[i] = req[w].row /\ Sole(w))
      /\ NoRow \notin Items \cup Row
      /\ table' = [table EXCEPT ![i] = req[w].row] /\ req' = [req EXCEPT ![w] = Idle]
      /\ UNCHANGED <<memory, phase, arrived, failures, restarts, doubtful, cut>>
  BY Serving, IdleAndSeed DEF CatalogInv, Replace, At, CallInv, Finish
<1>b. table'[i] = req[w].row /\ \A j \in Items \ {i} : table'[j] = table[j]
  BY <1>t DEF TypeOK
<1>r. req' \in [Calls -> Req] /\ req'[w] = Idle /\ \A v \in Calls \ {w} : req'[v] = req[v]
  BY <1>t, IdleAndSeed, ReqType
<1>3. TypeOK'
  BY <1>t, <1>r DEF TypeOK
<1>4. ASSUME NEW v \in Calls PROVE CallInv(v)'
  <2>0. CallInv(v) /\ req[v].pc \in {"idle", "insert", "append", "replace"}
    BY <1>t DEF CatalogInv, TypeOK, Req, Steps
  <2>1. CASE v = w \/ req[v].pc = "idle"
    <3>1. req'[v] = Idle
      BY <1>r, <2>0, <2>1 DEF CallInv
    <3> QED BY <3>1 DEF CallInv, Idle
  <2>2. CASE v # w /\ req[v].pc # "idle" /\ req[v].item # i
    <3>1. req[v].item \in Items \ {i} /\ Idle.item # req[v].item
      BY <2>0, <2>2, <1>t DEF CallInv, Idle
    <3> QED BY <2>2, <3>1, <1>b, <1>t, OthersKnow
  <2>3. CASE v # w /\ req[v].pc # "idle" /\ req[v].item = i
    <3>1. req[v].pc = "replace" /\ i \in doubtful
      BY <1>t, <2>0, <2>3 DEF CallInv, Sole
    <3> QED BY <2>3, <3>1, <1>t, OthersKnow
  <2> QED BY <2>1, <2>2, <2>3
<1>5. SoldAsStored'
  <2>1. ASSUME NEW j \in Items, Writers(j)' = {}, j \notin doubtful', memory'[j] # NoRow
        PROVE  memory'[j] = table'[j]
    <3>1. CASE j = i
      BY <2>1, <3>1, <1>b, <1>t
    <3>2. CASE j # i
      BY <1>b, <1>r, <1>t, <2>1, <3>2, SoldStays
    <3> QED BY <3>1, <3>2
  <2> QED BY <2>1 DEF SoldAsStored
<1>6. \A j \in Items : table[j] # NoRow => table'[j] # NoRow
  BY <1>b, <1>t
<1>7. SeedInv'
  BY <1>6, <1>t, RowsStay
<1>8. \A j \in Items : memory'[j] # NoRow => table'[j] # NoRow
  BY <1>6, <1>t DEF CatalogInv
<1> QED BY <1>3, <1>4, <1>5, <1>7, <1>8, <1>t DEF CatalogInv

\* A statement fails: a row that was to be replaced is in doubt.
LEMMA FailKeeps ==
    ASSUME CatalogInv, NEW w \in Calls, Fail(w)
    PROVE  CatalogInv'
<1> DEFINE i == req[w].item
<1>t. /\ TypeOK /\ phase = "up" /\ i \in Items /\ req[w].pc \in {"insert", "append", "replace"}
      /\ CallInv(w) /\ NoRow \notin Items \cup Row
      /\ failures' = failures + 1 /\ failures < MaxFailures
      /\ doubtful' = IF req[w].pc = "replace" THEN doubtful \cup {i} ELSE doubtful
      /\ req' = [req EXCEPT ![w] = Idle]
      /\ UNCHANGED <<table, memory, phase, arrived, restarts, cut>>
  BY Serving, IdleAndSeed DEF CatalogInv, TypeOK, Req, Steps, Fail, At, Finish
<1>r. req' \in [Calls -> Req] /\ req'[w] = Idle /\ \A v \in Calls \ {w} : req'[v] = req[v]
  BY <1>t, IdleAndSeed, ReqType
<1>d. doubtful \subseteq doubtful' /\ doubtful' \in SUBSET Items
  BY <1>t DEF TypeOK
<1>3. TypeOK'
  BY <1>d, <1>t, <1>r, CatalogAssumption DEF TypeOK
<1>4. ASSUME NEW v \in Calls PROVE CallInv(v)'
  <2>0. CallInv(v)
    BY DEF CatalogInv
  <2>1. CASE v = w \/ req[v].pc = "idle"
    <3>1. req'[v] = Idle
      BY <1>r, <2>0, <2>1 DEF CallInv
    <3> QED BY <3>1 DEF CallInv, Idle
  <2>2. CASE v # w /\ req[v].pc # "idle"
    <3>1. Idle.item # req[v].item
      BY <2>0, <2>2, <1>t DEF CallInv, Idle
    <3> QED BY <2>2, <3>1, <1>d, <1>t, OthersKnow
  <2> QED BY <2>1, <2>2
<1>5. SoldAsStored'
  <2>1. ASSUME NEW j \in Items, Writers(j)' = {}, j \notin doubtful', memory'[j] # NoRow
        PROVE  memory'[j] = table'[j]
    <3>1. j # i
      BY <1>t, <2>1 DEF CallInv
    <3> QED BY <1>d, <1>r, <1>t, <2>1, <3>1, SoldStays
  <2> QED BY <2>1 DEF SoldAsStored
<1>6. SeedInv'
  BY <1>t, RowsStay
<1>7. \A j \in Items : memory'[j] # NoRow => table'[j] # NoRow
  BY <1>t DEF CatalogInv
<1> QED BY <1>3, <1>4, <1>5, <1>6, <1>7, <1>t DEF CatalogInv

-----------------------------------------------------------------------------
(* Theorems *)

\* In the beginning there is nothing, or there are the fixtures.
LEMMA CatalogInitInv == Init => CatalogInv
<1> SUFFICES ASSUME Init PROVE CatalogInv
  OBVIOUS
<1>1. TypeOK
  BY IdleAndSeed, CatalogAssumption DEF Init, TypeOK, Phases
<1>2. \A w \in Calls : CallInv(w)
  BY DEF Init, CallInv, Idle
<1>3. Products \subseteq Items /\ Fixtures \subseteq Items
  BY CatalogAssumption DEF Items
<1>4. Stocked(table) => Furnished(table)
  BY <1>3, IdleAndSeed DEF Init, Stocked, Furnished
<1> QED BY <1>1, <1>2, <1>4 DEF Init, CatalogInv, SoldAsStored, SeedInv

\* Every step of the process and of its callers keeps the invariant.
LEMMA CatalogNextInv == CatalogInv /\ [Next]_vars => CatalogInv'
<1> SUFFICES ASSUME CatalogInv, [Next]_vars PROVE CatalogInv'
  OBVIOUS
<1>1. CASE UNCHANGED vars
  BY <1>1 DEF vars, CatalogInv, TypeOK, CallInv, Sole, SoldAsStored, Writers, SeedInv, Stocked, Furnished
<1>2. CASE Boot \/ Stop
  BY <1>2, StartKeeps, SeedKeeps, ReloadKeeps, StopKeeps DEF Boot
<1>3. ASSUME NEW w \in Calls, Write(w) \/ Fail(w) PROVE CatalogInv'
  BY <1>3, CreateKeeps, InsertKeeps, AppendKeeps, PatchKeeps, ReplaceKeeps, FailKeeps DEF Write
<1> QED BY <1>1, <1>2, <1>3 DEF Next

\* The inductive invariant holds in every state.
THEOREM CatalogInvariance == Spec => []CatalogInv
  BY CatalogInitInv, CatalogNextInv, PTL DEF Spec

\* Memory and table hold rows of the catalog, and a call in flight knows which row it
\* is about to write (ServiceCatalogService).
THEOREM CatalogTypeCorrect == Spec => []TypeOK
<1>1. CatalogInv => TypeOK
  BY DEF CatalogInv
<1> QED BY <1>1, CatalogInvariance, PTL

\* What is sold is what is stored, but for rows that are being written, or a write of
\* which failed or met another one since the process started (patchProduct, upsertProduct).
THEOREM SoldAsStoredHolds == Spec => []SoldAsStored
<1>1. CatalogInv => SoldAsStored
  BY DEF CatalogInv
<1> QED BY <1>1, CatalogInvariance, PTL

\* Once the process serves it has products, and all fixtures unless the seed was cut
\* off before its add-ons, whenever it stops and starts again (onModuleInit).
THEOREM StartsWithProductsHolds == Spec => []StartsWithProducts
<1>1. CatalogInv => StartsWithProducts
  BY DEF CatalogInv, SeedInv, Stocked, Furnished, StartsWithProducts
<1> QED BY <1>1, CatalogInvariance, PTL

-----------------------------------------------------------------------------
(* Sums over finite sets *)

\* h adds up f, one element after the other in any order.
Additive(h, f, S) ==
    /\ h \in [SUBSET S -> Int]
    /\ h[{}] = 0
    /\ \A T \in SUBSET S : \A x \in T : h[T] = f[x] + h[T \ {x}]

\* An induction over the subsets of a finite set: among the bad ones is a smallest.
LEMMA SmallestBad ==
    ASSUME NEW S, IsFiniteSet(S), NEW Bad \in SUBSET (SUBSET S), Bad # {}
    PROVE  \E T \in Bad : \A U \in SUBSET T : U # T => U \notin Bad
<1>1. FiniteSubsetsOf(S) = SUBSET S
  BY FS_FiniteSubsetsOfFinite
<1>2. IsWellFoundedOn(StrictSubsetOrdering(S), SUBSET S)
  BY <1>1, FS_StrictSubsetOrderingWellFounded
<1>3. \E T \in Bad : \A U \in Bad : ~ (<<U, T>> \in StrictSubsetOrdering(S))
  BY <1>2, WFMin
<1> QED BY <1>3 DEF StrictSubsetOrdering

\* Any numbers can be added up, and the sum of the library is what adds them up.
LEMMA AdditiveExists ==
    ASSUME NEW S, IsFiniteSet(S), NEW f, \A x \in S : f[x] \in Int
    PROVE  \E h : Additive(h, f, S)
<1> DEFINE Bad == {T \in SUBSET S : ~ \E h : Additive(h, f, T)}
<1> SUFFICES ASSUME Bad # {} PROVE FALSE
  OBVIOUS
<1>0. Bad \in SUBSET (SUBSET S)
  OBVIOUS
<1>1. PICK T \in Bad : \A U \in SUBSET T : U # T => U \notin Bad
  <2> HIDE DEF Bad
  <2> QED BY <1>0, SmallestBad
<1>2. T # {}
  <2>1. Additive([s \in SUBSET {} |-> 0], f, {})
    BY DEF Additive
  <2> QED BY <2>1, <1>1
<1>3. PICK x \in T : TRUE
  BY <1>2
<1>4. PICK h : Additive(h, f, T \ {x})
  BY <1>1
<1> DEFINE k == [s \in SUBSET T |-> IF x \in s THEN f[x] + h[s \ {x}] ELSE h[s]]
<1>5. Additive(k, f, T)
  <2>1. \A s \in SUBSET T : x \in s => s \ {x} \in SUBSET (T \ {x})
    OBVIOUS
  <2>2. \A s \in SUBSET T : x \notin s => s \in SUBSET (T \ {x})
    OBVIOUS
  <2>3. \A s \in SUBSET (T \ {x}) : h[s] \in Int
    BY <1>4 DEF Additive
  <2>4. f[x] \in Int /\ \A y \in T : f[y] \in Int
    BY <1>1
  <2>5. k \in [SUBSET T -> Int] /\ k[{}] = 0
    BY <2>1, <2>2, <2>3, <2>4, <1>4 DEF Additive
  <2>6. ASSUME NEW s \in SUBSET T, NEW y \in s
        PROVE  k[s] = f[y] + k[s \ {y}]
    <3>1. CASE y = x
      BY <3>1
    <3>2. CASE y # x /\ x \in s
      <4>1. (s \ {x}) \ {y} = (s \ {y}) \ {x}
        OBVIOUS
      <4>2. h[s \ {x}] = f[y] + h[(s \ {x}) \ {y}]
        BY <3>2, <2>1, <1>4 DEF Additive
      <4>3. k[s \ {y}] = f[x] + h[(s \ {y}) \ {x}]
        BY <3>2
      <4>4. k[s] = f[x] + h[s \ {x}]
        BY <3>2
      <4>5. h[(s \ {y}) \ {x}] \in Int /\ f[y] \in Int
        BY <2>3, <2>4
      <4>6. \A a, b, c \in Int : a + (b + c) = b + (a + c)
        OBVIOUS
      <4>7. k[s] = f[x] + (f[y] + h[(s \ {y}) \ {x}])
        BY <4>1, <4>2, <4>4
      <4> HIDE DEF k
      <4> QED BY <4>3, <4>5, <4>6, <4>7, <2>4
    <3>3. CASE x \notin s
      <4>1. h[s] = f[y] + h[s \ {y}]
        BY <3>3, <2>2, <1>4 DEF Additive
      <4> QED BY <4>1, <3>3
    <3> QED BY <3>1, <3>2, <3>3
  <2> QED BY <2>5, <2>6 DEF Additive
<1> QED BY <1>5, <1>1

LEMMA SumIs ==
    ASSUME NEW S, IsFiniteSet(S), NEW f, NEW h, Additive(h, f, S)
    PROVE  SumFunctionOnSet(f, S) = h[S]
<1> DEFINE Any(s) == CHOOSE x \in s : TRUE
           Step(g) == [s \in SUBSET S |-> IF s = {} THEN 0 ELSE f[Any(s)] + g[s \ {Any(s)}]]
<1>1. SumFunctionOnSet(f, S) = (CHOOSE g : g = Step(g))[S]
  BY DEF SumFunctionOnSet, FoldFunctionOnSet, MapThenFoldSet
<1>2. \A s : s # {} => Any(s) \in s
  OBVIOUS
<1>3. h = Step(h)
  <2>1. \A s \in SUBSET S : h[s] = IF s = {} THEN 0 ELSE f[Any(s)] + h[s \ {Any(s)}]
    BY <1>2 DEF Additive
  <2> QED BY <2>1 DEF Additive
<1>4. ASSUME NEW g, g = Step(g) PROVE g = h
  <2> DEFINE Bad == {T \in SUBSET S : g[T] # h[T]}
  <2>1. CASE Bad # {}
    <3>0. Bad \in SUBSET (SUBSET S)
      OBVIOUS
    <3>1. PICK T \in Bad : \A U \in SUBSET T : U # T => U \notin Bad
      <4> HIDE DEF Bad
      <4> QED BY <2>1, <3>0, SmallestBad
    <3>2. T # {}
      BY <3>1, <1>4, <1>3
    <3>3. T \ {Any(T)} \in SUBSET S /\ g[T \ {Any(T)}] = h[T \ {Any(T)}]
      BY <3>2, <3>1, <1>2
    <3>4. g[T] = f[Any(T)] + g[T \ {Any(T)}]
      BY <3>2, <1>4
    <3>5. h[T] = f[Any(T)] + h[T \ {Any(T)}]
      BY <3>2, <1>3
    <3> QED BY <3>1, <3>3, <3>4, <3>5
  <2>2. CASE Bad = {}
    <3>1. \A T \in SUBSET S : g[T] = h[T]
      BY <2>2
    <3> QED BY <3>1, <1>3, <1>4
  <2> QED BY <2>1, <2>2
<1>5. (CHOOSE g : g = Step(g)) = h
  BY <1>3, <1>4
<1> QED BY <1>1, <1>5

\* Sums are numbers, do not depend on the summands outside, and grow by what is added.
LEMMA SumInt ==
    ASSUME NEW S, IsFiniteSet(S), NEW f, \A x \in S : f[x] \in Int
    PROVE  SumFunctionOnSet(f, S) \in Int
<1>1. PICK h : Additive(h, f, S)
  BY AdditiveExists
<1>2. SumFunctionOnSet(f, S) = h[S] /\ h[S] \in Int
  <2>1. h[S] \in Int
    BY <1>1 DEF Additive
  <2> QED BY <2>1, <1>1, SumIs
<1> QED BY <1>2

LEMMA SumSame ==
    ASSUME NEW S, IsFiniteSet(S), NEW f, NEW g, \A x \in S : f[x] \in Int /\ f[x] = g[x]
    PROVE  SumFunctionOnSet(f, S) = SumFunctionOnSet(g, S)
<1>1. PICK h : Additive(h, f, S)
  BY AdditiveExists
<1>2. Additive(h, g, S)
  BY <1>1 DEF Additive
<1> QED BY <1>1, <1>2, SumIs

LEMMA SumWithout ==
    ASSUME NEW S, IsFiniteSet(S), NEW f, \A x \in S : f[x] \in Int, NEW y \in S
    PROVE  SumFunctionOnSet(f, S) = f[y] + SumFunctionOnSet(f, S \ {y})
<1> DEFINE R == S \ {y}
<1>1. PICK h : Additive(h, f, S)
  BY AdditiveExists
<1> DEFINE k == [T \in SUBSET R |-> h[T]]
<1>2. Additive(k, f, R)
  <2>1. k \in [SUBSET R -> Int] /\ k[{}] = 0
    BY <1>1 DEF Additive
  <2>2. ASSUME NEW T \in SUBSET R, NEW x \in T
        PROVE  k[T] = f[x] + k[T \ {x}]
    BY <1>1 DEF Additive
  <2> HIDE DEF k, R
  <2> QED BY <2>1, <2>2 DEF Additive
<1>3. IsFiniteSet(R)
  BY FS_Subset
<1>4. SumFunctionOnSet(f, R) = k[R]
  <2> HIDE DEF k, R
  <2> QED BY <1>2, <1>3, SumIs
<1>5. h[S] = f[y] + h[R]
  BY <1>1 DEF Additive
<1>6. SumFunctionOnSet(f, S) = h[S]
  BY <1>1, SumIs
<1> QED BY <1>4, <1>5, <1>6

-----------------------------------------------------------------------------
(* The inductive invariant of the market *)

Used == {o \in Orders : order[o].status # "none"}

\* What is in a basket or on an order has been offered.
Known(basket) == \A m \in In(basket) : Offered(m)

\* The row a call is about to write is there.
TradeKnows(w) ==
    /\ Known(trade[w].basket)
    /\ \A m \in trade[w].todo : Offered(m)
    /\ trade[w].pc \in {"items", "take", "status", "recall"} => trade[w].of \in Used
    /\ trade[w].pc \in {"put", "patch"} => trade[w].item \in Materials

\* What a purchase on its own has read is what there is.
Buying(w) ==
    trade[w].pc \in {"insert", "items", "take"} =>
        \A m \in trade[w].todo : /\ trade[w].read[m] = material[m].stock
                                 /\ trade[w].basket[m] <= material[m].stock
                                 /\ material[m].status = "active"

\* Until it takes from stock it has nothing of the order's behind it, ...
Entering(w) ==
    trade[w].pc \in {"insert", "items"} =>
        \A m \in Materials \ trade[w].todo : trade[w].basket[m] = 0

\* ... and an order without items.
Entered(w) ==
    Doing(w, "items") =>
        order[trade[w].of].status = "requested" /\ order[trade[w].of].items = Nothing

\* A change of status on its own knows the status, the items and the stock.
Cancelling(w) ==
    /\ Doing(w, "status") => trade[w].before = order[trade[w].of].status
    /\ Doing(w, "recall") => order[trade[w].of].status = "cancelled"
    /\ Doing(w, "put") =>
         /\ trade[w].item \notin trade[w].todo
         /\ trade[w].read[trade[w].item] = material[trade[w].item].stock
         /\ trade[w].saw = material[trade[w].item].status

\* The units of m that a call has still to put back on stock, less those it has still
\* to take from it.
Owed(w, m) ==
    CASE Doing(w, "take") /\ m \in trade[w].todo -> -trade[w].basket[m]
      [] Doing(w, "recall") -> order[trade[w].of].items[m]
      [] Doing(w, "restore") /\ m \in trade[w].todo -> trade[w].basket[m]
      [] Doing(w, "put") /\ m \in trade[w].todo \cup {trade[w].item} -> trade[w].basket[m]
      [] OTHER -> 0

Balance(w) == \A m \in Materials : material[m].stock + Held(m) + Owed(w, m) = supplied[m]

Solo(w) == Buying(w) /\ Entering(w) /\ Entered(w) /\ Cancelling(w) /\ Balance(w)

\* StockAddsUp says nothing while a call is in flight.  The step that ends one needs to
\* know what the call had still to move and that nobody else is there to move it.
MarketInv ==
    /\ MarketTypeOK
    /\ IsFiniteSet(Used)
    /\ \A o \in Orders \ Used : order[o].items = Nothing
    /\ \A o \in Orders : Known(order[o].items)
    /\ \A w \in Trades : TradeKnows(w)
    /\ course = "regular" => \A w \in InFlight : InFlight = {w} /\ Solo(w)
    /\ StockAddsUp

-----------------------------------------------------------------------------
(* Lemmas *)

LEMMA OnItsOwn ==
    ASSUME MarketInv, NEW w \in Trades, ~Doing(w, "idle"), course = "regular"
    PROVE  Solo(w) /\ InFlight = {w}
  BY DEF MarketInv, InFlight

LEMMA Arriving ==
    ASSUME MarketInv, NEW w \in Trades, Arrive(w)
    PROVE  /\ begun' \in 0..MaxTrades
           /\ course' \in {"regular", "irregular"}
           /\ course' = "regular" =>
                /\ course = "regular"
                /\ InFlight = {}
                /\ \A m \in Materials : material[m].stock + Held(m) = supplied[m]
  BY MarketAssumption DEF MarketInv, MarketTypeOK, Arrive, StockAddsUp

\* The sums are over finitely many orders.
LEMMA HeldIsANumber ==
    ASSUME MarketInv
    PROVE  /\ IsFiniteSet(Holding)
           /\ \A o \in Orders, m \in Materials :
                order[o].items[m] \in Int /\ order[o].items[m] \in Nat
           /\ \A m \in Materials : Held(m) \in Int
<1>1. IsFiniteSet(Holding)
  <2>1. Holding \subseteq Used
    BY DEF Holding, Used
  <2> QED BY <2>1, FS_Subset DEF MarketInv
<1>2. ASSUME NEW o \in Orders, NEW m \in Materials
      PROVE  order[o].items[m] \in Int /\ order[o].items[m] \in Nat
  <2>1. order[o] \in Order
    BY DEF MarketInv, MarketTypeOK
  <2>2. order[o].items[m] \in 0..MaxQuantity
    BY <2>1 DEF Order
  <2> QED BY <2>2, MarketAssumption
<1>3. ASSUME NEW m \in Materials PROVE Held(m) \in Int
  <2> DEFINE f == [o \in Orders |-> order[o].items[m]]
  <2>1. \A o \in Holding : f[o] \in Int
    BY <1>2 DEF Holding
  <2> HIDE DEF f
  <2>2. SumFunctionOnSet(f, Holding) \in Int
    BY <1>1, <2>1, SumInt
  <2> QED BY <2>2 DEF f, Held
<1> QED BY <1>1, <1>2, <1>3

LEMMA HeldStays ==
    ASSUME order' = order, NEW m
    PROVE  Held(m)' = Held(m)
  BY DEF Held, Holding

\* A call leaves or goes on: what is left to show of the invariant.
LEMMA TradeKeeps ==
    ASSUME MarketInv, NEW w \in Trades, NEW c \in Trade, trade' = [trade EXCEPT ![w] = c],
           material' \in [Materials -> Material], order' \in [Orders -> Order],
           begun' \in 0..MaxTrades, aborted' \in 0..MaxAborts,
           supplied' \in [Materials -> Int], course' \in {"regular", "irregular"},
           Used \subseteq Used', IsFiniteSet(Used'),
           \A o \in Orders \ Used' : order'[o].items = Nothing,
           \A o \in Orders : Known(order[o].items)',
           \A m \in Materials : Offered(m) => Offered(m)',
           TradeKnows(w)',
           course' = "regular" => course = "regular" /\ InFlight \subseteq {w},
           course' = "regular" /\ c.pc # "idle" => Solo(w)',
           course' = "regular" /\ c.pc = "idle" =>
               \A m \in Materials : material'[m].stock + Held(m)' = supplied'[m]
    PROVE  MarketInv'
<1>t. MarketTypeOK
  BY DEF MarketInv
<1>1. /\ trade' \in [Trades -> Trade]
      /\ trade'[w] = c
      /\ \A v \in Trades \ {w} : trade'[v] = trade[v]
  BY <1>t DEF MarketTypeOK
<1>2. MarketTypeOK'
  BY <1>1 DEF MarketTypeOK
<1>3. \A v \in Trades : TradeKnows(v)'
  <2> SUFFICES ASSUME NEW v \in Trades \ {w} PROVE TradeKnows(v)'
    OBVIOUS
  <2>1. TradeKnows(v) /\ trade'[v] = trade[v] /\ trade[v] \in Trade
    BY <1>1, <1>t DEF MarketInv, MarketTypeOK
  <2>2. trade[v].todo \subseteq Materials
    BY <2>1 DEF Trade
  <2>3. Known(trade[v].basket)'
    BY <2>1 DEF TradeKnows, Known, In
  <2> QED BY <2>1, <2>2, <2>3 DEF TradeKnows
<1>4. course' = "regular" => InFlight' = IF c.pc = "idle" THEN {} ELSE {w}
  BY <1>1 DEF InFlight, Doing
<1>5. course' = "regular" => \A v \in InFlight' : InFlight' = {v} /\ Solo(v)'
  BY <1>4
<1>6. StockAddsUp'
  BY <1>4 DEF StockAddsUp
<1> QED BY <1>2, <1>3, <1>5, <1>6 DEF MarketInv

LEMMA NoTradeIsTrade ==
    /\ NoTrade \in Trade
    /\ NoTrade.pc = "idle" /\ NoTrade.item = Nobody /\ NoTrade.of = Nobody
<1>1. Nothing \in [Materials -> 0..MaxQuantity] /\ Nothing \in [Materials -> Nat]
  BY MarketAssumption DEF Nothing
<1> QED BY <1>1 DEF NoTrade, Trade, TradeSteps, OrderStatuses, MarketStatuses

\* What is offered stays offered, and what is known stays known.
LEMMA KnownStays ==
    ASSUME MarketInv, \A m \in Materials : Offered(m) => Offered(m)'
    PROVE  /\ \A b : Known(b) => Known(b)'
           /\ order' = order => \A o \in Orders : Known(order[o].items)'
<1>1. ASSUME NEW b, Known(b) PROVE Known(b)'
  BY <1>1 DEF Known, In
<1>2. ASSUME order' = order, NEW o \in Orders PROVE Known(order[o].items)'
  <2>1. Known(order[o].items)
    BY DEF MarketInv
  <2>2. order'[o].items = order[o].items
    BY <1>2
  <2> QED BY <2>1, <2>2 DEF Known, In
<1> QED BY <1>1, <1>2

LEMMA SameMaterials ==
    ASSUME material' = material
    PROVE  \A m : Offered(m)' = Offered(m)
  BY DEF Offered

\* The call knows as much as before when it lists no more.
LEMMA StillKnows ==
    ASSUME MarketInv, \A m \in Materials : Offered(m) => Offered(m)',
           NEW w \in Trades,
           trade'[w].basket = trade[w].basket, trade'[w].todo \subseteq trade[w].todo
    PROVE  Known(trade[w].basket)' /\ \A m \in trade'[w].todo : Offered(m)'
<1>1. Known(trade[w].basket) /\ \A m \in trade[w].todo : Offered(m)
  BY DEF MarketInv, TradeKnows
<1>2. trade[w].todo \subseteq Materials
  BY DEF MarketInv, MarketTypeOK, Trade
<1>3. Known(trade[w].basket)'
  BY <1>1 DEF Known, In
<1> QED BY <1>1, <1>2, <1>3

\* So does one that is over.
LEMMA NoTradeKnows ==
    ASSUME NEW w, trade'[w] = NoTrade
    PROVE  TradeKnows(w)'
<1>1. /\ NoTrade.pc = "idle" /\ NoTrade.todo = {}
      /\ NoTrade.basket = Nothing
  BY DEF NoTrade
<1>2. Known(trade[w].basket)'
  BY <1>1 DEF Known, In, Nothing
<1> QED BY <1>1, <1>2 DEF TradeKnows

-----------------------------------------------------------------------------
(* Purchases *)

LEMMA BuyReadKeeps ==
    ASSUME MarketInv, NEW w \in Trades, BuyRead(w)
    PROVE  MarketInv'
<1>1. PICK basket \in [Materials -> 0..MaxQuantity] :
         /\ MayBuy(basket)
         /\ \E first \in In(basket) :
              trade' = [trade EXCEPT ![w] =
                          [NoTrade EXCEPT !.pc = "insert", !.seller = material[first].seller,
                                          !.basket = basket, !.todo = In(basket),
                                          !.read = [m \in Materials |-> material[m].stock]]]
  BY DEF BuyRead
<1>2. PICK first \in In(basket) :
         trade' = [trade EXCEPT ![w] =
                     [NoTrade EXCEPT !.pc = "insert", !.seller = material[first].seller,
                                     !.basket = basket, !.todo = In(basket),
                                     !.read = [m \in Materials |-> material[m].stock]]]
  BY <1>1
<1> DEFINE c == [NoTrade EXCEPT !.pc = "insert", !.seller = material[first].seller,
                                !.basket = basket, !.todo = In(basket),
                                !.read = [m \in Materials |-> material[m].stock]]
<1>t. MarketTypeOK
  BY DEF MarketInv
<1>u. UNCHANGED <<material, order, aborted, supplied>>
  BY DEF BuyRead
<1>a. /\ begun' \in 0..MaxTrades
      /\ course' \in {"regular", "irregular"}
      /\ course' = "regular" =>
           /\ course = "regular"
           /\ InFlight = {}
           /\ \A m \in Materials : material[m].stock + Held(m) = supplied[m]
  BY Arriving DEF BuyRead
<1>3. /\ c.pc = "insert" /\ c.basket = basket /\ c.todo = In(basket)
      /\ c.read = [m \in Materials |-> material[m].stock]
      /\ c.of = Nobody /\ c.item = Nobody
  BY DEF NoTrade
<1>4. c \in Trade
  <2>1. first \in Materials /\ In(basket) \in SUBSET Materials
    BY DEF In
  <2>2. \A m \in Materials : material[m] \in Material
    BY <1>t DEF MarketTypeOK
  <2>3. material[first].seller \in Sellers \cup {Nobody}
    BY <2>1, <2>2 DEF Material
  <2>4. [m \in Materials |-> material[m].stock] \in [Materials -> Nat]
    BY <2>2 DEF Material
  <2>5. NoTrade \in Trade
    BY NoTradeIsTrade
  <2> QED BY <2>1, <2>3, <2>4, <2>5 DEF Trade, TradeSteps
<1>5. trade' = [trade EXCEPT ![w] = c] /\ trade'[w] = c
  BY <1>2, <1>t DEF MarketTypeOK
<1>k. /\ \A m \in Materials : Offered(m) => Offered(m)'
      /\ \A o \in Orders : Known(order[o].items)'
      /\ Known(basket)'
  <2>1. \A m : Offered(m)' = Offered(m)
    BY <1>u, SameMaterials
  <2>2. Known(basket)
    BY <1>1 DEF MayBuy, Known, Offered
  <2> QED BY <2>1, <2>2, <1>u, KnownStays
<1>6. TradeKnows(w)'
  <2>1. trade'[w].basket = basket /\ trade'[w].todo = In(basket) /\ trade'[w].pc = "insert"
    BY <1>3, <1>5
  <2>2. Known(trade[w].basket)' /\ \A m \in trade'[w].todo : Offered(m)'
    BY <2>1, <1>k DEF Known, In
  <2> QED BY <2>1, <2>2 DEF TradeKnows
<1>7. ASSUME course' = "regular" PROVE Solo(w)'
  <2>1. Buying(w)'
    <3>1. ASSUME NEW m \in In(basket)
          PROVE  m \in Materials /\ basket[m] <= material[m].stock /\ material[m].status = "active"
      BY <1>1 DEF MayBuy, In
    <3>2. trade'[w].todo = In(basket) /\ trade'[w].basket = basket
      BY <1>3, <1>5
    <3>3. \A m \in In(basket) : trade'[w].read[m] = material[m].stock
      BY <3>1, <1>3, <1>5
    <3> HIDE DEF c
    <3> QED BY <3>1, <3>2, <3>3, <1>u DEF Buying
  <2>2. Entering(w)'
    <3>1. \A m \in Materials : basket[m] \in 0..MaxQuantity
      BY <1>1
    <3>2. \A m \in Materials \ In(basket) : basket[m] = 0
      BY <3>1, MarketAssumption DEF In
    <3> QED BY <3>2, <1>3, <1>5 DEF Entering
  <2>3. Entered(w)' /\ Cancelling(w)'
    BY <1>3, <1>5 DEF Entered, Cancelling, Doing
  <2>4. \A m \in Materials : Owed(w, m)' = 0 /\ Held(m)' = Held(m)
    BY <1>3, <1>5, <1>u, HeldStays DEF Owed, Doing
  <2>5. Balance(w)'
    BY <2>4, <1>a, <1>7, <1>u, HeldIsANumber, <1>t DEF Balance, MarketTypeOK, Material
  <2> QED BY <2>1, <2>2, <2>3, <2>5 DEF Solo
<1>8. Used' = Used /\ order' = order
  BY <1>u DEF Used
<1> HIDE DEF c
<1> QED BY <1>t, <1>u, <1>a, <1>k, <1>3, <1>4, <1>5, <1>6, <1>7, <1>8, TradeKeeps
          DEF MarketInv, MarketTypeOK

LEMMA InsertOrderKeeps ==
    ASSUME MarketInv, NEW w \in Trades, InsertOrder(w)
    PROVE  MarketInv'
<1>1. PICK o \in Orders :
         /\ order[o].status = "none"
         /\ order' = [order EXCEPT ![o].status = "requested", ![o].seller = trade[w].seller]
         /\ trade' = [trade EXCEPT ![w].pc = "items", ![w].of = o]
  BY DEF InsertOrder
<1> DEFINE c == [trade[w] EXCEPT !.pc = "items", !.of = o]
<1>t. MarketTypeOK /\ trade[w] \in Trade /\ order[o] \in Order /\ trade[w].pc = "insert"
  BY DEF MarketInv, MarketTypeOK, InsertOrder, Doing
<1>u. UNCHANGED <<material, begun, aborted, supplied, course>>
  BY DEF InsertOrder
<1>3. /\ c \in Trade /\ c.pc = "items" /\ c.of = o
      /\ c.basket = trade[w].basket /\ c.todo = trade[w].todo /\ c.read = trade[w].read
  BY <1>t DEF Trade, TradeSteps
<1>4. trade' = [trade EXCEPT ![w] = c] /\ trade'[w] = c
  BY <1>1, <1>t DEF MarketTypeOK
<1> HIDE DEF c
<1>5. /\ order'[o].status = "requested" /\ order'[o].items = order[o].items
      /\ \A p \in Orders \ {o} : order'[p] = order[p]
      /\ \A p \in Orders : order'[p].items = order[p].items
  BY <1>1, <1>t DEF MarketTypeOK, Order
<1>6. order' \in [Orders -> Order]
  BY <1>1, <1>t DEF MarketTypeOK, Order, OrderStatuses, Trade
<1>7. o \notin Used /\ order[o].items = Nothing
  BY <1>1 DEF MarketInv, Used
<1>8. Used' = Used \cup {o}
  BY <1>5 DEF Used
<1>9. IsFiniteSet(Used')
  BY <1>8, FS_AddElement DEF MarketInv
<1>10. \A p \in Orders \ Used' : order'[p].items = Nothing
  BY <1>5, <1>8 DEF MarketInv
<1>k. /\ \A m \in Materials : Offered(m) => Offered(m)'
      /\ \A p \in Orders : Known(order[p].items)'
  <2>1. \A m : Offered(m)' = Offered(m)
    BY <1>u, SameMaterials
  <2>2. \A p \in Orders : Known(order[p].items) /\ order'[p].items = order[p].items
    BY <1>5 DEF MarketInv
  <2> QED BY <2>1, <2>2 DEF Known, In
<1>11. TradeKnows(w)'
  <2>1. Known(trade[w].basket)' /\ \A m \in trade'[w].todo : Offered(m)'
    BY <1>k, <1>3, <1>4, StillKnows
  <2> QED BY <2>1, <1>3, <1>4, <1>8 DEF TradeKnows
<1>12. \A m \in Materials : Held(m)' = Held(m)
  <2> TAKE m \in Materials
  <2> DEFINE f == [p \in Orders |-> order[p].items[m]]
  <2>1. f' = f
    BY <1>5
  <2>2. Holding' = Holding \cup {o} /\ o \notin Holding /\ Holding'\{o} = Holding
    BY <1>1, <1>5 DEF Holding
  <2>3. f[o] = 0 /\ \A p \in Holding \cup {o} : f[p] \in Int
    BY <1>7, HeldIsANumber DEF Nothing, Holding
  <2>4. IsFiniteSet(Holding \cup {o}) /\ o \in Holding \cup {o}
    BY HeldIsANumber, FS_AddElement
  <2>5. Held(m) = SumFunctionOnSet(f, Holding) /\ Held(m)' = SumFunctionOnSet(f, Holding')
    BY <2>1 DEF Held
  <2> HIDE DEF f
  <2>6. SumFunctionOnSet(f, Holding \cup {o}) = f[o] + SumFunctionOnSet(f, Holding)
    BY <2>2, <2>3, <2>4, SumWithout
  <2> QED BY <2>2, <2>3, <2>5, <2>6, HeldIsANumber
<1>13. ASSUME course' = "regular" PROVE Solo(w)' /\ InFlight \subseteq {w}
  <2>1. Solo(w) /\ InFlight = {w}
    BY <1>13, <1>t, <1>u, OnItsOwn DEF Doing
  <2>2. Buying(w)' /\ Entering(w)'
    BY <2>1, <1>3, <1>4, <1>t, <1>u DEF Solo, Buying, Entering
  <2>3. Entered(w)' /\ Cancelling(w)'
    BY <1>3, <1>4, <1>5, <1>7 DEF Entered, Cancelling, Doing
  <2>4. \A m \in Materials : Owed(w, m) = 0 /\ Owed(w, m)' = 0
    BY <1>3, <1>4, <1>t DEF Owed, Doing
  <2>5. Balance(w)'
    BY <2>1, <2>4, <1>12, <1>u DEF Solo, Balance
  <2> QED BY <2>1, <2>2, <2>3, <2>5 DEF Solo
<1>14. Used \subseteq Used'
  BY <1>8
<1> QED BY <1>t, <1>u, <1>k, <1>3, <1>4, <1>6, <1>9, <1>10, <1>11, <1>13, <1>14, TradeKeeps
          DEF MarketTypeOK

LEMMA InsertItemsKeeps ==
    ASSUME MarketInv, NEW w \in Trades, InsertItems(w)
    PROVE  MarketInv'
<1> DEFINE c == [trade[w] EXCEPT !.pc = "take"]
           o == trade[w].of
<1>t. MarketTypeOK /\ trade[w] \in Trade /\ trade[w].pc = "items" /\ o \in Used /\ o \in Orders
  BY DEF MarketInv, MarketTypeOK, InsertItems, Doing, TradeKnows, Used
<1>u. UNCHANGED <<material, begun, aborted, supplied, course>>
  BY DEF InsertItems
<1>1. order' = [order EXCEPT ![o].items = trade[w].basket]
  BY DEF InsertItems
<1>2. trade' = [trade EXCEPT ![w] = c] /\ trade'[w] = c
  BY <1>t DEF InsertItems, Goto, MarketTypeOK
<1>3. /\ c \in Trade /\ c.pc = "take" /\ c.of = o
      /\ c.basket = trade[w].basket /\ c.todo = trade[w].todo /\ c.read = trade[w].read
  BY <1>t DEF Trade, TradeSteps
<1> HIDE DEF c, o
<1>4. trade[w].basket \in [Materials -> 0..MaxQuantity]
  BY <1>t DEF Trade
<1>5. /\ order'[o].items = trade[w].basket
      /\ \A p \in Orders \ {o} : order'[p] = order[p]
      /\ \A p \in Orders : order'[p].status = order[p].status
  BY <1>1, <1>t DEF MarketTypeOK, Order
<1>6. order' \in [Orders -> Order]
  BY <1>1, <1>t, <1>4 DEF MarketTypeOK, Order
<1>7. Used' = Used /\ Holding' = Holding
  BY <1>5 DEF Used, Holding
<1>8. \A p \in Orders \ Used' : order'[p].items = Nothing
  BY <1>5, <1>7, <1>t DEF MarketInv
<1>k. /\ \A m \in Materials : Offered(m) => Offered(m)'
      /\ \A p \in Orders : Known(order[p].items)'
  <2>1. \A m : Offered(m)' = Offered(m)
    BY <1>u, SameMaterials
  <2>2. Known(trade[w].basket) /\ \A p \in Orders : Known(order[p].items)
    BY DEF MarketInv, TradeKnows
  <2>3. \A p \in Orders : order'[p].items \in {order[p].items, trade[w].basket}
    BY <1>5
  <2> QED BY <2>1, <2>2, <2>3 DEF Known, In
<1>9. TradeKnows(w)'
  <2>1. Known(trade[w].basket)' /\ \A m \in trade'[w].todo : Offered(m)'
    BY <1>k, <1>2, <1>3, StillKnows
  <2> QED BY <2>1, <1>2, <1>3, <1>7, <1>t DEF TradeKnows
<1>10. ASSUME order[o].status = "requested", order[o].items = Nothing, NEW m \in Materials
       PROVE  Held(m)' = Held(m) + trade[w].basket[m]
  <2> DEFINE f == [p \in Orders |-> order[p].items[m]]
             g == [p \in Orders |-> order'[p].items[m]]
             R == Holding \ {o}
  <2>1. o \in Holding
    BY <1>10, <1>t DEF Holding
  <2>2. \A p \in Holding : f[p] \in Int /\ g[p] \in Int
    <3>1. trade[w].basket[m] \in Int
      BY <1>4, MarketAssumption
    <3> QED BY <3>1, <1>5, HeldIsANumber DEF Holding
  <2>3. \A p \in R : f[p] \in Int /\ f[p] = g[p]
    BY <2>2, <1>5 DEF Holding
  <2>4. f[o] = 0 /\ g[o] = trade[w].basket[m] /\ g[o] \in Int
    BY <2>2, <2>1, <1>10, <1>5, <1>t DEF Nothing
  <2>5. IsFiniteSet(Holding) /\ IsFiniteSet(R)
    BY HeldIsANumber, FS_Subset
  <2>6. Held(m) = SumFunctionOnSet(f, Holding) /\ Held(m)' = SumFunctionOnSet(g, Holding)
    BY <1>7 DEF Held
  <2> HIDE DEF f, g
  <2>7. SumFunctionOnSet(f, Holding) = f[o] + SumFunctionOnSet(f, R)
    BY <2>1, <2>2, <2>5, SumWithout
  <2>8. SumFunctionOnSet(g, Holding) = g[o] + SumFunctionOnSet(g, R)
    BY <2>1, <2>2, <2>5, SumWithout
  <2> HIDE DEF R
  <2>9. SumFunctionOnSet(f, R) = SumFunctionOnSet(g, R) /\ SumFunctionOnSet(f, R) \in Int
    BY <2>3, <2>5, SumSame, SumInt
  <2> QED BY <2>4, <2>6, <2>7, <2>8, <2>9
<1>11. ASSUME course' = "regular" PROVE Solo(w)' /\ InFlight \subseteq {w}
  <2>1. Solo(w) /\ InFlight = {w}
    BY <1>11, <1>t, <1>u, OnItsOwn DEF Doing
  <2>2. /\ order[o].status = "requested" /\ order[o].items = Nothing
        /\ \A m \in Materials \ trade[w].todo : trade[w].basket[m] = 0
    BY <2>1, <1>t DEF Solo, Entered, Entering, Doing, o
  <2>3. Buying(w)'
    BY <2>1, <1>2, <1>3, <1>t, <1>u DEF Solo, Buying
  <2>4. Entering(w)' /\ Entered(w)' /\ Cancelling(w)'
    BY <1>2, <1>3 DEF Entering, Entered, Cancelling, Doing
  <2>5. ASSUME NEW m \in Materials
        PROVE  material'[m].stock + Held(m)' + Owed(w, m)' = supplied'[m]
    <3>1. Owed(w, m) = 0 /\ material[m].stock + Held(m) + Owed(w, m) = supplied[m]
      BY <2>1, <1>t DEF Solo, Balance, Owed, Doing
    <3>2. Owed(w, m)' = -trade[w].basket[m]
      <4>1. Owed(w, m)' = IF m \in trade[w].todo THEN -trade[w].basket[m] ELSE 0
        BY <1>2, <1>3 DEF Owed, Doing
      <4> QED BY <4>1, <2>2
    <3>3. Held(m)' = Held(m) + trade[w].basket[m]
      BY <2>2, <1>10
    <3>4. Held(m) \in Int /\ trade[w].basket[m] \in Int /\ material[m].stock \in Int
      BY HeldIsANumber, <1>4, <1>t, MarketAssumption DEF MarketTypeOK, Material
    <3> QED BY <3>1, <3>2, <3>3, <3>4, <1>u
  <2>6. Balance(w)'
    BY <2>5 DEF Balance
  <2> QED BY <2>1, <2>3, <2>4, <2>6 DEF Solo
<1>12. IsFiniteSet(Used') /\ Used \subseteq Used'
  BY <1>7 DEF MarketInv
<1> QED BY <1>t, <1>u, <1>k, <1>2, <1>3, <1>6, <1>8, <1>9, <1>11, <1>12, TradeKeeps
          DEF MarketTypeOK

\* The last item taken ends the purchase.
LEMMA TakeKeeps ==
    ASSUME MarketInv, NEW w \in Trades, Take(w)
    PROVE  MarketInv'
<1> DEFINE left(m) == AtLeastZero(trade[w].read[m] - trade[w].basket[m])
           next(m) == IF trade[w].todo = {m} THEN NoTrade
                                             ELSE [trade[w] EXCEPT !.todo = @ \ {m}]
<1>t. MarketTypeOK /\ trade[w] \in Trade /\ trade[w].pc = "take"
  BY DEF MarketInv, MarketTypeOK, Take, Doing
<1>u. UNCHANGED <<order, begun, aborted, supplied, course>>
  BY DEF Take
<1>1. PICK m \in trade[w].todo :
         /\ material' = [material EXCEPT ![m].stock = left(m),
                                         ![m].status = IF left(m) = 0 THEN "sold_out" ELSE "active"]
         /\ trade' = [trade EXCEPT ![w] = next(m)]
  BY <1>t DEF Take, Leave, MarketTypeOK
<1>2. /\ m \in Materials /\ material[m] \in Material
      /\ trade[w].read[m] \in Nat /\ trade[w].basket[m] \in Nat
  <2>1. m \in Materials
    BY <1>t DEF Trade
  <2>2. trade[w].basket[m] \in 0..MaxQuantity
    BY <2>1, <1>t DEF Trade
  <2> QED BY <2>1, <2>2, <1>t, MarketAssumption DEF Trade, MarketTypeOK
<1> DEFINE n == left(m)
           c == next(m)
<1>3. n \in Nat
  BY <1>2 DEF AtLeastZero
<1>4. \/ c = NoTrade /\ trade[w].todo = {m}
      \/ /\ c = [trade[w] EXCEPT !.todo = @ \ {m}]
         /\ trade[w].todo # {m}
  OBVIOUS
<1>5. \/ c = NoTrade /\ trade[w].todo = {m} /\ c.pc = "idle"
      \/ /\ c.pc = "take" /\ c.todo = trade[w].todo \ {m} /\ c.basket = trade[w].basket
         /\ c.read = trade[w].read /\ c.of = trade[w].of
  BY <1>4, <1>t, NoTradeIsTrade DEF Trade
<1>6. c \in Trade /\ c.pc \in {"idle", "take"}
  BY <1>4, <1>5, <1>t, NoTradeIsTrade DEF Trade
<1>7. trade' = [trade EXCEPT ![w] = c] /\ trade'[w] = c
  BY <1>1, <1>t DEF MarketTypeOK
<1>8. /\ material'[m].stock = n
      /\ \A k \in Materials \ {m} : material'[k] = material[k]
      /\ material' \in [Materials -> Material]
  <2> HIDE DEF left
  <2> QED BY <1>1, <1>2, <1>3, <1>t DEF MarketTypeOK, Material, MarketStatuses
<1>k. /\ \A k \in Materials : Offered(k) => Offered(k)'
      /\ \A o \in Orders : Known(order[o].items)'
  <2>1. material'[m].status \in {"sold_out", "active"}
    <3> HIDE DEF left
    <3> QED BY <1>1, <1>2, <1>t DEF MarketTypeOK, Material
  <2>2. \A k \in Materials : Offered(k) => Offered(k)'
    BY <2>1, <1>8 DEF Offered
  <2> QED BY <2>2, <1>u, KnownStays
<1>9. TradeKnows(w)'
  <2>1. trade[w].of \in Used
    BY <1>t DEF MarketInv, TradeKnows
  <2>2. Used' = Used
    BY <1>u DEF Used
  <2>3. CASE c = NoTrade
    BY <2>3, <1>7, NoTradeKnows
  <2>4. CASE /\ c.pc = "take" /\ c.todo = trade[w].todo \ {m} /\ c.basket = trade[w].basket
             /\ c.of = trade[w].of
    <3>1. Known(trade[w].basket)' /\ \A k \in trade'[w].todo : Offered(k)'
      BY <2>4, <1>k, <1>7, StillKnows
    <3> QED BY <3>1, <2>1, <2>2, <2>4, <1>7 DEF TradeKnows
  <2> QED BY <2>3, <2>4, <1>5
<1> HIDE DEF c
<1>10. ASSUME course' = "regular"
       PROVE  /\ InFlight \subseteq {w}
              /\ c.pc # "idle" => Solo(w)'
              /\ c.pc = "idle" =>
                   \A k \in Materials : material'[k].stock + Held(k)' = supplied'[k]
  <2>1. Solo(w) /\ InFlight = {w}
    BY <1>10, <1>t, <1>u, OnItsOwn DEF Doing
  <2>2. n = material[m].stock - trade[w].basket[m]
    <3>1. trade[w].read[m] = material[m].stock /\ trade[w].basket[m] <= material[m].stock
      BY <2>1, <1>t DEF Solo, Buying
    <3> QED BY <3>1, <1>2 DEF AtLeastZero
  <2> HIDE DEF n, left, next
  <2>3. ASSUME NEW k \in Materials
        PROVE  /\ k = m => material'[k].stock + Held(k)' = supplied'[k]
               /\ k \notin trade[w].todo =>
                    material'[k].stock + Held(k)' = supplied'[k]
               /\ k \in trade[w].todo \ {m} =>
                    material'[k].stock + Held(k)' - trade[w].basket[k] = supplied'[k]
    <3>1. material[k].stock + Held(k) + Owed(w, k) = supplied[k] /\ Held(k)' = Held(k)
      BY <2>1, <1>u, HeldStays DEF Solo, Balance
    <3>2. Owed(w, k) = IF k \in trade[w].todo THEN -trade[w].basket[k] ELSE 0
      BY <1>t DEF Owed, Doing
    <3>3. Held(k) \in Int /\ material[k].stock \in Int /\ trade[w].basket[k] \in Int
      <4>1. trade[w].basket[k] \in 0..MaxQuantity
        BY <1>t DEF Trade
      <4> QED BY <4>1, HeldIsANumber, <1>t, MarketAssumption DEF MarketTypeOK, Material
    <3>4. k # m => material'[k] = material[k]
      BY <1>8
    <3> QED BY <3>1, <3>2, <3>3, <3>4, <2>2, <1>8, <1>u
  <2>4. CASE c.pc = "idle"
    BY <2>1, <2>3, <2>4, <1>5
  <2>5. CASE c.pc = "take"
    <3>1. c.todo = trade[w].todo \ {m} /\ c.basket = trade[w].basket /\ c.read = trade[w].read
      BY <1>5, <2>5
    <3>2. Buying(w)'
      <4>1. \A k \in c.todo : material'[k] = material[k] /\ k \in trade[w].todo
        BY <3>1, <1>8, <1>6 DEF Trade
      <4> QED BY <4>1, <3>1, <2>1, <1>7, <1>t DEF Solo, Buying
    <3>3. Entering(w)' /\ Entered(w)' /\ Cancelling(w)'
      BY <2>5, <1>7 DEF Entering, Entered, Cancelling, Doing
    <3>4. Balance(w)'
      <4> SUFFICES ASSUME NEW k \in Materials
                   PROVE  material'[k].stock + Held(k)' + Owed(w, k)' = supplied'[k]
        BY DEF Balance
      <4>1. Owed(w, k)' = IF k \in c.todo THEN -trade[w].basket[k] ELSE 0
        BY <2>5, <3>1, <1>7 DEF Owed, Doing
      <4>2. /\ material'[k].stock \in Int /\ Held(k)' \in Int /\ trade[w].basket[k] \in Int
        <5>1. trade[w].basket[k] \in 0..MaxQuantity
          BY <1>t DEF Trade
        <5>2. Held(k)' = Held(k)
          BY <1>u, HeldStays
        <5> QED BY <5>1, <5>2, HeldIsANumber, <1>8, MarketAssumption DEF Material
      <4> QED BY <4>1, <4>2, <3>1, <2>3
    <3> QED BY <3>2, <3>3, <3>4, <2>1, <2>5 DEF Solo
  <2> QED BY <2>4, <2>5, <1>6
<1>11. Used' = Used
  BY <1>u DEF Used
<1> HIDE DEF n, next, left
<1> QED BY <1>t, <1>u, <1>k, <1>6, <1>7, <1>8, <1>9, <1>10, <1>11, TradeKeeps
          DEF MarketTypeOK, MarketInv

-----------------------------------------------------------------------------
(* Status changes *)

LEMMA ChangeReadKeeps ==
    ASSUME MarketInv, NEW w \in Trades, ChangeRead(w)
    PROVE  MarketInv'
<1>1. PICK o \in Orders, status \in OrderStatuses, actor \in Sellers \cup {Nobody} :
         /\ order[o].status # "none"
         /\ trade' = [trade EXCEPT ![w] =
                        [NoTrade EXCEPT !.pc = "status", !.of = o, !.seller = actor,
                                        !.status = status, !.before = order[o].status]]
  BY DEF ChangeRead
<1> DEFINE c == [NoTrade EXCEPT !.pc = "status", !.of = o, !.seller = actor,
                                !.status = status, !.before = order[o].status]
<1>t. MarketTypeOK /\ order[o] \in Order
  BY DEF MarketInv, MarketTypeOK
<1>u. UNCHANGED <<material, order, aborted, supplied>>
  BY DEF ChangeRead
<1>a. /\ begun' \in 0..MaxTrades
      /\ course' \in {"regular", "irregular"}
      /\ course' = "regular" =>
           /\ course = "regular"
           /\ InFlight = {}
           /\ \A m \in Materials : material[m].stock + Held(m) = supplied[m]
  BY Arriving DEF ChangeRead
<1>3. /\ c.pc = "status" /\ c.of = o /\ c.before = order[o].status
      /\ c.basket = Nothing /\ c.todo = {}
  BY DEF NoTrade
<1>4. c \in Trade
  <2>1. order[o].status \in OrderStatuses
    BY <1>1, <1>t DEF Order
  <2> QED BY <2>1, NoTradeIsTrade DEF Trade, TradeSteps
<1>5. trade' = [trade EXCEPT ![w] = c] /\ trade'[w] = c
  BY <1>1, <1>t DEF MarketTypeOK
<1> HIDE DEF c
<1>6. Used' = Used /\ o \in Used
  BY <1>1, <1>u DEF Used
<1>k. /\ \A m \in Materials : Offered(m) => Offered(m)'
      /\ \A p \in Orders : Known(order[p].items)'
  <2>1. \A m : Offered(m)' = Offered(m)
    BY <1>u, SameMaterials
  <2> QED BY <2>1, <1>u, KnownStays
<1>7. TradeKnows(w)'
  <2>1. trade'[w].basket = Nothing /\ trade'[w].todo = {}
    BY <1>3, <1>5
  <2>2. Known(trade[w].basket)'
    BY <2>1 DEF Known, In, Nothing
  <2> QED BY <2>1, <2>2, <1>3, <1>5, <1>6 DEF TradeKnows
<1>8. ASSUME course' = "regular" PROVE Solo(w)'
  <2>1. Buying(w)' /\ Entering(w)' /\ Entered(w)' /\ Cancelling(w)'
    BY <1>3, <1>5, <1>u DEF Buying, Entering, Entered, Cancelling, Doing
  <2>2. \A m \in Materials : Owed(w, m)' = 0 /\ Held(m)' = Held(m)
    BY <1>3, <1>5, <1>u, HeldStays DEF Owed, Doing
  <2>3. Balance(w)'
    BY <2>2, <1>a, <1>8, <1>u, HeldIsANumber, <1>t DEF Balance, MarketTypeOK, Material
  <2> QED BY <2>1, <2>3 DEF Solo
<1> QED BY <1>t, <1>u, <1>a, <1>k, <1>3, <1>4, <1>5, <1>6, <1>7, <1>8, TradeKeeps
          DEF MarketInv, MarketTypeOK

\* What a cancelled order held is owed to the stock until the items are put back.
LEMMA WriteStatusKeeps ==
    ASSUME MarketInv, NEW w \in Trades, WriteStatus(w)
    PROVE  MarketInv'
<1> DEFINE o == trade[w].of
           new == trade[w].status
           c == IF GivesBack(w) THEN [trade[w] EXCEPT !.pc = "recall"] ELSE NoTrade
<1>t. /\ MarketTypeOK /\ trade[w] \in Trade /\ trade[w].pc = "status"
      /\ o \in Used /\ o \in Orders /\ order[o] \in Order /\ new \in OrderStatuses
  <2>1. MarketTypeOK /\ trade[w] \in Trade /\ trade[w].pc = "status"
    BY DEF MarketInv, MarketTypeOK, WriteStatus, Doing
  <2>2. o \in Used /\ o \in Orders
    BY <2>1 DEF MarketInv, TradeKnows, Used
  <2> QED BY <2>1, <2>2 DEF MarketTypeOK, Trade
<1>u. UNCHANGED <<material, begun, aborted, supplied>>
  BY DEF WriteStatus
<1>1. order' = [order EXCEPT ![o].status = new]
  BY DEF WriteStatus
<1>2. trade' = [trade EXCEPT ![w] = c] /\ trade'[w] = c
  <2>1. CASE GivesBack(w)
    BY <2>1, <1>t DEF WriteStatus, Goto, MarketTypeOK
  <2>2. CASE ~GivesBack(w)
    BY <2>2, <1>t DEF WriteStatus, Leave, MarketTypeOK
  <2> QED BY <2>1, <2>2
<1>3. \/ GivesBack(w) /\ c \in Trade /\ c.pc = "recall" /\ c.of = o
      \/ ~GivesBack(w) /\ c \in Trade /\ c.pc = "idle"
  <2>1. CASE GivesBack(w)
    BY <2>1, <1>t DEF Trade, TradeSteps
  <2>2. CASE ~GivesBack(w)
    BY <2>2, NoTradeIsTrade
  <2> QED BY <2>1, <2>2
<1>4. /\ course' \in {"regular", "irregular"}
      /\ course' = "regular" =>
           /\ course = "regular"
           /\ order[o].status \in {"cancelled", "delivered"} => order[o].status = new
  BY <1>t DEF WriteStatus, MarketTypeOK
<1>5. GivesBack(w) <=> new = "cancelled" /\ trade[w].before \notin {"cancelled", "delivered"}
  BY DEF GivesBack
<1> HIDE DEF c, o, new
<1>6. /\ order'[o].status = new
      /\ \A p \in Orders \ {o} : order'[p] = order[p]
      /\ \A p \in Orders : order'[p].items = order[p].items
      /\ order' \in [Orders -> Order]
  BY <1>1, <1>t DEF MarketTypeOK, Order
<1>7. Used' = Used
  BY <1>6, <1>t DEF Used, OrderStatuses
<1>k. /\ \A m \in Materials : Offered(m) => Offered(m)'
      /\ \A p \in Orders : Known(order[p].items)'
  <2>1. \A m : Offered(m)' = Offered(m)
    BY <1>u, SameMaterials
  <2>2. \A p \in Orders : Known(order[p].items) /\ order'[p].items = order[p].items
    BY <1>6 DEF MarketInv
  <2> QED BY <2>1, <2>2 DEF Known, In
<1>8. TradeKnows(w)'
  <2>1. CASE ~GivesBack(w)
    <3>1. trade'[w] = NoTrade
      BY <2>1, <1>2 DEF c
    <3> QED BY <3>1, NoTradeKnows
  <2>2. CASE GivesBack(w)
    <3>1. trade'[w].basket = trade[w].basket /\ trade'[w].todo = trade[w].todo
      BY <2>2, <1>2, <1>t DEF c, Trade
    <3>2. Known(trade[w].basket)' /\ \A m \in trade'[w].todo : Offered(m)'
      BY <3>1, <1>k, StillKnows
    <3> QED BY <3>2, <2>2, <1>2, <1>3, <1>7, <1>t DEF TradeKnows
  <2> QED BY <2>1, <2>2
<1>9. \A m : Held(m)' = SumFunctionOnSet([p \in Orders |-> order[p].items[m]], Holding')
  <2> TAKE m
  <2>1. [p \in Orders |-> order[p].items[m]]' = [p \in Orders |-> order[p].items[m]]
    BY <1>6
  <2> QED BY <2>1 DEF Held
<1>10. ASSUME course' = "regular"
       PROVE  /\ InFlight \subseteq {w}
              /\ c.pc # "idle" => Solo(w)'
              /\ c.pc = "idle" =>
                   \A m \in Materials : material'[m].stock + Held(m)' = supplied'[m]
  <2>1. Solo(w) /\ InFlight = {w} /\ trade[w].before = order[o].status
    <3>1. Solo(w) /\ InFlight = {w}
      BY <1>10, <1>4, <1>t, OnItsOwn DEF Doing
    <3> QED BY <3>1, <1>t DEF Solo, Cancelling, Doing, o
  <2>2. \A m \in Materials : material[m].stock + Held(m) = supplied[m]
    <3>1. \A m \in Materials : Owed(w, m) = 0
      BY <1>t DEF Owed, Doing
    <3>2. \A m \in Materials : Held(m) \in Int /\ material[m].stock \in Int
      BY HeldIsANumber, <1>t DEF MarketTypeOK, Material
    <3> QED BY <3>1, <3>2, <2>1 DEF Solo, Balance
  <2>3. CASE ~GivesBack(w)
    <3>1. Holding' = Holding
      <4>1. order[o].status = "cancelled" <=> new = "cancelled"
        BY <2>3, <2>1, <1>4, <1>5, <1>10
      <4>2. order[o].status # "none" /\ new # "none"
        BY <1>t DEF Used, OrderStatuses
      <4> QED BY <4>1, <4>2, <1>6 DEF Holding
    <3>2. \A m \in Materials : Held(m)' = Held(m)
      BY <3>1, <1>9 DEF Held
    <3> QED BY <3>2, <2>1, <2>2, <2>3, <1>3, <1>u
  <2>4. CASE GivesBack(w)
    <3>1. o \in Holding /\ Holding' = Holding \ {o}
      BY <2>4, <2>1, <1>5, <1>6, <1>t DEF Holding, Used
    <3>2. \A m \in Materials : Held(m) = order[o].items[m] + Held(m)'
      <4> TAKE m \in Materials
      <4> DEFINE f == [p \in Orders |-> order[p].items[m]]
      <4>1. f[o] = order[o].items[m] /\ \A p \in Holding : f[p] \in Int
        BY HeldIsANumber, <1>t DEF Holding
      <4>2. Held(m) = SumFunctionOnSet(f, Holding) /\ Held(m)' = SumFunctionOnSet(f, Holding')
        BY <1>9 DEF Held
      <4> HIDE DEF f
      <4>3. SumFunctionOnSet(f, Holding) = f[o] + SumFunctionOnSet(f, Holding \ {o})
        BY <3>1, <4>1, HeldIsANumber, SumWithout
      <4> QED BY <4>1, <4>2, <4>3, <3>1
    <3>3. \A m \in Materials : Owed(w, m)' = order[o].items[m]
      BY <2>4, <1>2, <1>3, <1>6, <1>t DEF Owed, Doing
    <3>4. Balance(w)'
      <4> SUFFICES ASSUME NEW m \in Materials
                   PROVE  material'[m].stock + Held(m)' + Owed(w, m)' = supplied'[m]
        BY DEF Balance
      <4>1. /\ Held(m) \in Int /\ order[o].items[m] \in Int /\ material[m].stock \in Int
        BY HeldIsANumber, <1>t DEF MarketTypeOK, Material
      <4>2. Held(m)' \in Int
        <5> DEFINE f == [p \in Orders |-> order[p].items[m]]
        <5>1. \A p \in Holding \ {o} : f[p] \in Int
          BY HeldIsANumber DEF Holding
        <5>2. IsFiniteSet(Holding \ {o})
          BY HeldIsANumber, FS_Subset
        <5>3. Held(m)' = SumFunctionOnSet(f, Holding \ {o})
          BY <1>9, <3>1
        <5> HIDE DEF f
        <5> QED BY <5>1, <5>2, <5>3, SumInt
      <4> QED BY <4>1, <4>2, <3>2, <3>3, <2>2, <1>u
    <3>5. Buying(w)' /\ Entering(w)' /\ Entered(w)' /\ Cancelling(w)'
      BY <2>4, <1>2, <1>3, <1>5, <1>6 DEF Buying, Entering, Entered, Cancelling, Doing
    <3> QED BY <3>4, <3>5, <2>1, <2>4, <1>3 DEF Solo
  <2> QED BY <2>3, <2>4
<1>11. c \in Trade /\ aborted' \in 0..MaxAborts /\ begun' \in 0..MaxTrades
  BY <1>3, <1>u, <1>t DEF MarketTypeOK
<1>12. \A p \in Orders \ Used' : order'[p].items = Nothing
  BY <1>6, <1>7 DEF MarketInv
<1> QED BY <1>t, <1>u, <1>k, <1>2, <1>4, <1>6, <1>7, <1>8, <1>10, <1>11, <1>12, TradeKeeps
          DEF MarketTypeOK, MarketInv

LEMMA RecallKeeps ==
    ASSUME MarketInv, NEW w \in Trades, Recall(w)
    PROVE  MarketInv'
<1>0. PICK o, items : o = trade[w].of /\ items = order[o].items
  OBVIOUS
<1> DEFINE c == [trade[w] EXCEPT !.pc = "restore", !.basket = items, !.todo = In(items)]
<1>t. /\ MarketTypeOK /\ trade[w] \in Trade /\ trade[w].pc = "recall"
      /\ o \in Used /\ o \in Orders /\ order[o] \in Order
  <2>1. MarketTypeOK /\ trade[w] \in Trade /\ trade[w].pc = "recall"
    BY DEF MarketInv, MarketTypeOK, Recall, Doing
  <2>2. o \in Used /\ o \in Orders
    BY <1>0, <2>1 DEF MarketInv, TradeKnows, Used
  <2> QED BY <2>1, <2>2 DEF MarketTypeOK
<1>u. UNCHANGED <<material, order, begun, aborted, supplied, course>>
  BY DEF Recall
<1>1. items \in [Materials -> 0..MaxQuantity] /\ In(items) \in SUBSET Materials
  BY <1>0, <1>t DEF Order, In
<1>2. trade' = [trade EXCEPT ![w] = c] /\ trade'[w] = c
  BY <1>0, <1>t DEF Recall, MarketTypeOK
<1>3. c \in Trade /\ c.pc = "restore" /\ c.basket = items /\ c.todo = In(items)
  BY <1>1, <1>t DEF Trade, TradeSteps
<1> HIDE DEF c
<1>k. /\ \A m \in Materials : Offered(m) => Offered(m)'
      /\ \A p \in Orders : Known(order[p].items)'
      /\ Known(items)'
  <2>1. \A m : Offered(m)' = Offered(m)
    BY <1>u, SameMaterials
  <2>2. \A p \in Orders : Known(order[p].items)'
    BY <2>1, <1>u, KnownStays
  <2>3. Known(items)
    BY <1>0, <1>t DEF MarketInv
  <2> QED BY <2>1, <2>2, <2>3 DEF Known, In
<1>4. TradeKnows(w)'
  <2>1. trade'[w].basket = items /\ trade'[w].todo = In(items) /\ trade'[w].pc = "restore"
    BY <1>2, <1>3
  <2>2. Known(trade[w].basket)' /\ \A m \in trade'[w].todo : Offered(m)'
    BY <2>1, <1>k DEF Known, In
  <2> QED BY <2>1, <2>2 DEF TradeKnows
<1>5. ASSUME course' = "regular" PROVE InFlight \subseteq {w} /\ Solo(w)'
  <2>1. Solo(w) /\ InFlight = {w}
    BY <1>5, <1>t, <1>u, OnItsOwn DEF Doing
  <2>2. \A m \in Materials : Owed(w, m) = items[m]
    BY <1>0, <1>t DEF Owed, Doing
  <2>3. \A m \in Materials : Owed(w, m)' = items[m]
    <3> TAKE m \in Materials
    <3>1. Owed(w, m)' = IF m \in In(items) THEN items[m] ELSE 0
      BY <1>2, <1>3 DEF Owed, Doing
    <3>2. items[m] \in 0..MaxQuantity
      BY <1>1
    <3>3. m \notin In(items) => items[m] = 0
      BY <3>2, MarketAssumption DEF In
    <3> QED BY <3>1, <3>3
  <2>4. Balance(w)'
    BY <2>1, <2>2, <2>3, <1>u, HeldStays DEF Solo, Balance
  <2>5. Buying(w)' /\ Entering(w)' /\ Entered(w)' /\ Cancelling(w)'
    BY <1>2, <1>3 DEF Buying, Entering, Entered, Cancelling, Doing
  <2> QED BY <2>1, <2>4, <2>5 DEF Solo
<1>6. Used' = Used
  BY <1>u DEF Used
<1> QED BY <1>t, <1>u, <1>k, <1>2, <1>3, <1>4, <1>5, <1>6, TradeKeeps DEF MarketTypeOK, MarketInv

LEMMA RestoreReadKeeps ==
    ASSUME MarketInv, NEW w \in Trades, RestoreRead(w)
    PROVE  MarketInv'
<1>t. MarketTypeOK /\ trade[w] \in Trade /\ trade[w].pc = "restore"
  BY DEF MarketInv, MarketTypeOK, RestoreRead, Doing
<1>u. UNCHANGED <<material, order, begun, aborted, supplied, course>>
  BY DEF RestoreRead
<1>6. Used' = Used
  BY <1>u DEF Used
<1>k. /\ \A m \in Materials : Offered(m) => Offered(m)'
      /\ \A p \in Orders : Known(order[p].items)'
  <2>1. \A m : Offered(m)' = Offered(m)
    BY <1>u, SameMaterials
  <2> QED BY <2>1, <1>u, KnownStays
<1>b. course = "regular" => Solo(w) /\ InFlight = {w}
  BY <1>t, OnItsOwn DEF Doing
<1>o. \A m \in Materials : Owed(w, m) = IF m \in trade[w].todo THEN trade[w].basket[m] ELSE 0
  BY <1>t DEF Owed, Doing
<1>1. CASE trade[w].todo = {} /\ trade' = [trade EXCEPT ![w] = NoTrade]
  <2>1. trade'[w] = NoTrade
    BY <1>1, <1>t DEF MarketTypeOK
  <2>2. TradeKnows(w)'
    BY <2>1, NoTradeKnows
  <2>3. course = "regular" => \A m \in Materials : material[m].stock + Held(m) = supplied[m]
    <3>1. \A m \in Materials : Held(m) \in Int /\ material[m].stock \in Int
      BY HeldIsANumber, <1>t DEF MarketTypeOK, Material
    <3> QED BY <3>1, <1>1, <1>b, <1>o DEF Solo, Balance
  <2>4. course' = "regular" =>
           \A m \in Materials : material'[m].stock + Held(m)' = supplied'[m]
    BY <2>3, <1>u, HeldStays
  <2> QED BY <1>1, <2>2, <2>4, <1>t, <1>u, <1>k, <1>6, <1>b, NoTradeIsTrade, TradeKeeps
            DEF MarketTypeOK, MarketInv
<1>2. ASSUME NEW m \in trade[w].todo,
             trade' = [trade EXCEPT ![w].pc = "put", ![w].todo = @ \ {m}, ![w].item = m,
                                    ![w].saw = material[m].status,
                                    ![w].read = [Nothing EXCEPT ![m] = material[m].stock]]
      PROVE  MarketInv'
  <2> DEFINE c == [trade[w] EXCEPT !.pc = "put", !.todo = @ \ {m}, !.item = m,
                                   !.saw = material[m].status,
                                   !.read = [Nothing EXCEPT ![m] = material[m].stock]]
  <2>1. m \in Materials /\ material[m] \in Material
    BY <1>t DEF Trade, MarketTypeOK
  <2>2. trade' = [trade EXCEPT ![w] = c] /\ trade'[w] = c
    BY <1>2, <1>t DEF MarketTypeOK
  <2>3. /\ c.pc = "put" /\ c.todo = trade[w].todo \ {m} /\ c.item = m
        /\ c.saw = material[m].status /\ c.read[m] = material[m].stock
        /\ c.basket = trade[w].basket
    BY <1>t, <2>1 DEF Trade, Nothing
  <2>s. material[m].status \in MarketStatuses
    <3>1. Offered(m)
      BY DEF MarketInv, TradeKnows
    <3> QED BY <3>1, <2>1 DEF Offered, Material
  <2>4. c \in Trade
    <3>1. [Nothing EXCEPT ![m] = material[m].stock] \in [Materials -> Nat]
      BY <2>1 DEF Nothing, Material
    <3> QED BY <3>1, <2>1, <2>s, <1>t DEF Trade, TradeSteps, Material
  <2> HIDE DEF c
  <2>5. TradeKnows(w)'
    <3>1. Known(trade[w].basket)' /\ \A k \in trade'[w].todo : Offered(k)'
      BY <1>k, <2>2, <2>3, StillKnows
    <3> QED BY <3>1, <2>1, <2>2, <2>3 DEF TradeKnows
  <2>6. ASSUME course' = "regular" PROVE Solo(w)' /\ InFlight \subseteq {w}
    <3>1. Solo(w) /\ InFlight = {w}
      BY <2>6, <1>b, <1>u
    <3>2. \A k \in Materials : Owed(w, k)' = Owed(w, k)
      BY <1>o, <1>2, <2>2, <2>3 DEF Owed, Doing
    <3>3. Balance(w)'
      BY <3>1, <3>2, <1>u, HeldStays DEF Solo, Balance
    <3>4. Buying(w)' /\ Entering(w)' /\ Entered(w)' /\ Cancelling(w)'
      BY <2>2, <2>3, <1>u DEF Buying, Entering, Entered, Cancelling, Doing
    <3> QED BY <3>1, <3>3, <3>4 DEF Solo
  <2> QED BY <2>2, <2>3, <2>4, <2>5, <2>6, <1>t, <1>u, <1>k, <1>6, TradeKeeps
            DEF MarketTypeOK, MarketInv
<1> QED BY <1>1, <1>2 DEF RestoreRead, Leave

\* What was owed of the item at hand is on stock.
LEMMA PutKeeps ==
    ASSUME MarketInv, NEW w \in Trades, Put(w)
    PROVE  MarketInv'
<1>0. PICK m, n : m = trade[w].item /\ n = trade[w].read[m] + trade[w].basket[m]
  OBVIOUS
<1> DEFINE c == [trade[w] EXCEPT !.pc = "restore"]
<1>t. /\ MarketTypeOK /\ trade[w] \in Trade /\ trade[w].pc = "put"
      /\ m \in Materials /\ material[m] \in Material
      /\ trade[w].read[m] \in Nat /\ trade[w].basket[m] \in Nat
  <2>1. MarketTypeOK /\ trade[w] \in Trade /\ trade[w].pc = "put"
    BY DEF MarketInv, MarketTypeOK, Put, Doing
  <2>2. m \in Materials
    BY <1>0, <2>1 DEF MarketInv, TradeKnows
  <2>3. trade[w].basket[m] \in 0..MaxQuantity
    BY <2>1, <2>2 DEF Trade
  <2> QED BY <2>1, <2>2, <2>3, MarketAssumption DEF MarketTypeOK, Trade
<1>u. UNCHANGED <<order, begun, aborted, supplied, course>>
  BY DEF Put
<1>1. material' = [material EXCEPT ![m].stock = n, ![m].status = Resold(trade[w].saw, n)]
  BY <1>0 DEF Put
<1>2. trade' = [trade EXCEPT ![w] = c] /\ trade'[w] = c
  BY <1>t DEF Put, Goto, MarketTypeOK
<1>3. /\ c \in Trade /\ c.pc = "restore" /\ c.basket = trade[w].basket
      /\ c.todo = trade[w].todo
  BY <1>t DEF Trade, TradeSteps
<1> HIDE DEF c
<1>4. Resold(trade[w].saw, n) \in MarketStatuses /\ n \in Nat
  <2>1. trade[w].saw \in MarketStatuses
    BY <1>t DEF Trade
  <2> QED BY <2>1, <1>0, <1>t DEF Resold, MarketStatuses
<1>5. /\ material'[m].stock = n /\ material'[m].status \in MarketStatuses
      /\ \A k \in Materials \ {m} : material'[k] = material[k]
      /\ material' \in [Materials -> Material]
  BY <1>1, <1>4, <1>t DEF MarketTypeOK, Material
<1>k. /\ \A k \in Materials : Offered(k) => Offered(k)'
      /\ \A o \in Orders : Known(order[o].items)'
  <2>1. \A k \in Materials : Offered(k) => Offered(k)'
    BY <1>5 DEF Offered, MarketStatuses
  <2> QED BY <2>1, <1>u, KnownStays
<1>6. TradeKnows(w)'
  <2>1. Known(trade[w].basket)' /\ \A k \in trade'[w].todo : Offered(k)'
    BY <1>k, <1>2, <1>3, StillKnows
  <2> QED BY <2>1, <1>2, <1>3 DEF TradeKnows
<1>7. ASSUME course' = "regular" PROVE InFlight \subseteq {w} /\ Solo(w)'
  <2>1. /\ Solo(w) /\ InFlight = {w}
        /\ m \notin trade[w].todo /\ n = material[m].stock + trade[w].basket[m]
    <3>1. Solo(w) /\ InFlight = {w}
      BY <1>7, <1>t, <1>u, OnItsOwn DEF Doing
    <3> QED BY <3>1, <1>0, <1>t DEF Solo, Cancelling, Doing
  <2>2. ASSUME NEW k \in Materials
        PROVE  material'[k].stock + Held(k)' + Owed(w, k)' = supplied'[k]
    <3>1. material[k].stock + Held(k) + Owed(w, k) = supplied[k] /\ Held(k)' = Held(k)
      BY <2>1, <1>u, HeldStays DEF Solo, Balance
    <3>2. Owed(w, k) = IF k \in trade[w].todo \cup {m} THEN trade[w].basket[k] ELSE 0
      BY <1>0, <1>t DEF Owed, Doing
    <3>3. Owed(w, k)' = IF k \in trade[w].todo THEN trade[w].basket[k] ELSE 0
      BY <1>2, <1>3 DEF Owed, Doing
    <3>4. Held(k) \in Int /\ material[k].stock \in Int /\ trade[w].basket[k] \in Int
      <4>1. trade[w].basket[k] \in 0..MaxQuantity
        BY <1>t DEF Trade
      <4> QED BY <4>1, HeldIsANumber, <1>t, MarketAssumption DEF MarketTypeOK, Material
    <3>5. CASE k = m
      BY <3>5, <3>1, <3>2, <3>3, <3>4, <2>1, <1>5, <1>u
    <3>6. CASE k # m
      BY <3>6, <3>1, <3>2, <3>3, <1>5, <1>u
    <3> QED BY <3>5, <3>6
  <2>3. Balance(w)'
    BY <2>2 DEF Balance
  <2>4. Buying(w)' /\ Entering(w)' /\ Entered(w)' /\ Cancelling(w)'
    BY <1>2, <1>3 DEF Buying, Entering, Entered, Cancelling, Doing
  <2> QED BY <2>1, <2>3, <2>4 DEF Solo
<1>8. Used' = Used
  BY <1>u DEF Used
<1> QED BY <1>t, <1>u, <1>k, <1>2, <1>3, <1>5, <1>6, <1>7, <1>8, TradeKeeps
          DEF MarketTypeOK, MarketInv

-----------------------------------------------------------------------------
(* Supply *)

\* Whoever changes a row of the materials by hand accounts for the stock.
LEMMA SupplyAddsUp ==
    ASSUME MarketInv, order' = order, NEW m \in Materials, NEW row \in Material,
           material' = [material EXCEPT ![m] = row], Restocked(m, row.stock),
           Offered(m) => row.status # "none"
    PROVE  /\ material' \in [Materials -> Material] /\ supplied' \in [Materials -> Int]
           /\ \A k \in Materials : Offered(k) => Offered(k)'
           /\ \A o \in Orders : Known(order[o].items)'
           /\ Used' = Used
           /\ (\A k \in Materials : material[k].stock + Held(k) = supplied[k]) =>
                \A k \in Materials : material'[k].stock + Held(k)' = supplied'[k]
<1>t. /\ material \in [Materials -> Material] /\ supplied \in [Materials -> Int]
      /\ \A k \in Materials : material[k].stock \in Int /\ Held(k) \in Int
  BY HeldIsANumber DEF MarketInv, MarketTypeOK, Material
<1>1. /\ material'[m] = row /\ row.stock \in Int
      /\ \A k \in Materials \ {m} : material'[k] = material[k]
      /\ material' \in [Materials -> Material]
  BY <1>t DEF Material
<1>2. /\ supplied'[m] = supplied[m] + row.stock - material[m].stock
      /\ \A k \in Materials \ {m} : supplied'[k] = supplied[k]
      /\ supplied' \in [Materials -> Int]
  BY <1>t, <1>1 DEF Restocked
<1>3. \A k \in Materials : Offered(k) => Offered(k)'
  BY <1>1 DEF Offered
<1>4. ASSUME \A k \in Materials : material[k].stock + Held(k) = supplied[k],
             NEW k \in Materials
      PROVE  material'[k].stock + Held(k)' = supplied'[k]
  <2>1. Held(k)' = Held(k) /\ material[k].stock + Held(k) = supplied[k]
    BY <1>4, HeldStays
  <2>2. CASE k = m
    BY <2>1, <2>2, <1>1, <1>2, <1>t
  <2>3. CASE k # m
    BY <2>1, <2>3, <1>1, <1>2
  <2> QED BY <2>2, <2>3
<1>5. Used' = Used
  BY DEF Used
<1> QED BY <1>1, <1>2, <1>3, <1>4, <1>5, KnownStays

\* A call that writes its row at once.
LEMMA AtOnceKeeps ==
    ASSUME MarketInv, NEW w \in Trades, Arrive(w), UNCHANGED <<order, trade, aborted>>,
           NEW m \in Materials, NEW row \in Material,
           material' = [material EXCEPT ![m] = row], Restocked(m, row.stock),
           Offered(m) => row.status # "none"
    PROVE  MarketInv'
<1>t. MarketTypeOK /\ trade[w] \in Trade /\ trade[w].pc = "idle" /\ TradeKnows(w)
  BY DEF MarketInv, MarketTypeOK, Arrive, Doing
<1>a. /\ begun' \in 0..MaxTrades
      /\ course' \in {"regular", "irregular"}
      /\ course' = "regular" =>
           /\ course = "regular"
           /\ InFlight = {}
           /\ \A k \in Materials : material[k].stock + Held(k) = supplied[k]
  BY Arriving
<1>s. /\ material' \in [Materials -> Material] /\ supplied' \in [Materials -> Int]
      /\ \A k \in Materials : Offered(k) => Offered(k)'
      /\ \A o \in Orders : Known(order[o].items)'
      /\ Used' = Used
      /\ (\A k \in Materials : material[k].stock + Held(k) = supplied[k]) =>
           \A k \in Materials : material'[k].stock + Held(k)' = supplied'[k]
  BY SupplyAddsUp
<1>1. trade' = [trade EXCEPT ![w] = trade[w]]
  BY <1>t DEF MarketTypeOK
<1>2. TradeKnows(w)'
  <2>1. Known(trade[w].basket)' /\ \A k \in trade'[w].todo : Offered(k)'
    BY <1>s, StillKnows
  <2> QED BY <2>1, <1>t DEF TradeKnows
<1> QED BY <1>t, <1>a, <1>s, <1>1, <1>2, TradeKeeps DEF MarketTypeOK, MarketInv

LEMMA NewKeeps ==
    ASSUME MarketInv, NEW w \in Trades, NEW s \in Sellers \cup {Nobody},
           NEW c \in Sellers \cup {Nobody}, New(w, s, c)
    PROVE  MarketInv'
<1>1. PICK m \in Materials, n \in Supplies, status \in MarketStatuses, price \in {"open", "fixed"} :
         /\ ~Offered(m)
         /\ material' = [material EXCEPT ![m] = [status |-> status, stock |-> n, seller |-> s,
                                                 company |-> c, price |-> price, shelf |-> "on"]]
         /\ Restocked(m, n)
  BY DEF New
<1> DEFINE row == [status |-> status, stock |-> n, seller |-> s,
                   company |-> c, price |-> price, shelf |-> "on"]
<1>2. row \in Material /\ row.stock = n
  BY MarketAssumption DEF Material
<1>3. Arrive(w) /\ UNCHANGED <<order, trade, aborted>>
  BY DEF New
<1>4. material' = [material EXCEPT ![m] = row] /\ Restocked(m, row.stock) /\ ~Offered(m)
  BY <1>1
<1> HIDE DEF row
<1> QED BY <1>2, <1>3, <1>4, AtOnceKeeps

\* A patch is a row, and what was offered remains so.
LEMMA PatchIsARow ==
    ASSUME MarketInv, NEW m \in Materials, NEW row \in Patched(m)
    PROVE  row \in Material /\ (Offered(m) => row.status # "none")
<1>1. material[m] \in Material
  BY DEF MarketInv, MarketTypeOK
<1>2. CASE \E n \in Supplies : row = [material[m] EXCEPT !.stock = n]
  BY <1>1, <1>2, MarketAssumption DEF Material, Offered
<1>3. CASE \E status \in MarketStatuses : row = [material[m] EXCEPT !.status = status]
  BY <1>1, <1>3 DEF Material, MarketStatuses
<1>4. CASE row = [material[m] EXCEPT !.price = "fixed"]
  BY <1>1, <1>4 DEF Material, Offered
<1>5. CASE \E shelf \in {"on", "off"} : row = [material[m] EXCEPT !.shelf = shelf]
  BY <1>1, <1>5 DEF Material, Offered
<1> QED BY <1>2, <1>3, <1>4, <1>5 DEF Patched

LEMMA PatchByAdminKeeps ==
    ASSUME MarketInv, NEW w \in Trades, PatchByAdmin(w)
    PROVE  MarketInv'
<1>1. PICK m \in Materials :
         /\ Offered(m)
         /\ \E row \in Patched(m)
                     \cup {[material[m] EXCEPT !.seller = s] : s \in Sellers \cup {Nobody}}
                     \cup {[material[m] EXCEPT !.company = s] : s \in Sellers \cup {Nobody}} :
              /\ material' = [material EXCEPT ![m] = row]
              /\ Restocked(m, row.stock)
  BY DEF PatchByAdmin
<1>2. PICK row \in Patched(m)
                     \cup {[material[m] EXCEPT !.seller = s] : s \in Sellers \cup {Nobody}}
                     \cup {[material[m] EXCEPT !.company = s] : s \in Sellers \cup {Nobody}} :
              /\ material' = [material EXCEPT ![m] = row]
              /\ Restocked(m, row.stock)
  BY <1>1
<1>3. row \in Material /\ row.status # "none"
  <2>1. material[m] \in Material
    BY DEF MarketInv, MarketTypeOK
  <2>2. CASE row \in Patched(m)
    BY <2>2, <1>1, PatchIsARow
  <2>3. CASE \E s \in Sellers \cup {Nobody} : row = [material[m] EXCEPT !.seller = s]
    BY <2>1, <2>3, <1>1 DEF Material, Offered
  <2>4. CASE \E s \in Sellers \cup {Nobody} : row = [material[m] EXCEPT !.company = s]
    BY <2>1, <2>4, <1>1 DEF Material, Offered
  <2> QED BY <2>2, <2>3, <2>4
<1>4. Arrive(w) /\ UNCHANGED <<order, trade, aborted>>
  BY DEF PatchByAdmin
<1> QED BY <1>2, <1>3, <1>4, AtOnceKeeps

LEMMA SellerReadKeeps ==
    ASSUME MarketInv, NEW w \in Trades, SellerRead(w)
    PROVE  MarketInv'
<1>1. PICK m \in Materials, s \in Sellers :
         trade' = [trade EXCEPT ![w] = [NoTrade EXCEPT !.pc = "patch", !.item = m, !.seller = s]]
  BY DEF SellerRead
<1> DEFINE c == [NoTrade EXCEPT !.pc = "patch", !.item = m, !.seller = s]
<1>t. MarketTypeOK
  BY DEF MarketInv
<1>u. UNCHANGED <<material, order, aborted, supplied>>
  BY DEF SellerRead
<1>a. /\ begun' \in 0..MaxTrades
      /\ course' \in {"regular", "irregular"}
      /\ course' = "regular" =>
           /\ course = "regular"
           /\ InFlight = {}
           /\ \A k \in Materials : material[k].stock + Held(k) = supplied[k]
  BY Arriving DEF SellerRead
<1>2. /\ c.pc = "patch" /\ c.item = m /\ c.basket = Nothing /\ c.todo = {}
  BY DEF NoTrade
<1>3. c \in Trade
  BY NoTradeIsTrade DEF Trade, TradeSteps
<1>4. trade' = [trade EXCEPT ![w] = c] /\ trade'[w] = c
  BY <1>1, <1>t DEF MarketTypeOK
<1> HIDE DEF c
<1>k. /\ \A k \in Materials : Offered(k) => Offered(k)'
      /\ \A p \in Orders : Known(order[p].items)'
  <2>1. \A k : Offered(k)' = Offered(k)
    BY <1>u, SameMaterials
  <2> QED BY <2>1, <1>u, KnownStays
<1>5. TradeKnows(w)'
  <2>1. trade'[w].basket = Nothing /\ trade'[w].todo = {}
    BY <1>2, <1>4
  <2>2. Known(trade[w].basket)'
    BY <2>1 DEF Known, In, Nothing
  <2> QED BY <2>1, <2>2, <1>2, <1>4 DEF TradeKnows
<1>6. ASSUME course' = "regular" PROVE Solo(w)'
  <2>1. Buying(w)' /\ Entering(w)' /\ Entered(w)' /\ Cancelling(w)'
    BY <1>2, <1>4 DEF Buying, Entering, Entered, Cancelling, Doing
  <2>2. \A k \in Materials : Owed(w, k)' = 0 /\ Held(k)' = Held(k)
    BY <1>2, <1>4, <1>u, HeldStays DEF Owed, Doing
  <2>3. Balance(w)'
    BY <2>2, <1>a, <1>6, <1>u, HeldIsANumber, <1>t DEF Balance, MarketTypeOK, Material
  <2> QED BY <2>1, <2>3 DEF Solo
<1>7. Used' = Used
  BY <1>u DEF Used
<1> QED BY <1>t, <1>u, <1>a, <1>k, <1>2, <1>3, <1>4, <1>5, <1>6, <1>7, TradeKeeps
          DEF MarketInv, MarketTypeOK

LEMMA PatchBySellerKeeps ==
    ASSUME MarketInv, NEW w \in Trades, PatchBySeller(w)
    PROVE  MarketInv'
<1>0. PICK m, s : m = trade[w].item /\ s = trade[w].seller
  OBVIOUS
<1>t. /\ MarketTypeOK /\ trade[w].pc = "patch" /\ m \in Materials
      /\ s \in Sellers \cup {Nobody}
  <2>1. MarketTypeOK /\ trade[w].pc = "patch" /\ trade[w] \in Trade
    BY DEF MarketInv, MarketTypeOK, PatchBySeller, Doing
  <2> QED BY <2>1, <1>0 DEF MarketInv, TradeKnows, Trade
<1>u. UNCHANGED <<order, begun, aborted, course>>
  BY DEF PatchBySeller
<1>1. PICK patch \in Patched(m) :
         /\ material' = [material EXCEPT ![m] = [patch EXCEPT !.seller = s, !.company = s]]
         /\ Restocked(m, patch.stock)
  BY <1>0 DEF PatchBySeller
<1> DEFINE row == [patch EXCEPT !.seller = s, !.company = s]
<1>2. row \in Material /\ row.stock = patch.stock /\ (Offered(m) => row.status # "none")
  <2>1. patch \in Material /\ (Offered(m) => patch.status # "none")
    BY <1>t, PatchIsARow
  <2> QED BY <2>1, <1>t DEF Material
<1>3. material' = [material EXCEPT ![m] = row] /\ Restocked(m, row.stock)
  BY <1>1, <1>2
<1> HIDE DEF row
<1>4. /\ material' \in [Materials -> Material] /\ supplied' \in [Materials -> Int]
      /\ \A k \in Materials : Offered(k) => Offered(k)'
      /\ \A o \in Orders : Known(order[o].items)'
      /\ Used' = Used
      /\ (\A k \in Materials : material[k].stock + Held(k) = supplied[k]) =>
           \A k \in Materials : material'[k].stock + Held(k)' = supplied'[k]
  BY <1>2, <1>3, <1>t, <1>u, SupplyAddsUp
<1>5. trade' = [trade EXCEPT ![w] = NoTrade] /\ trade'[w] = NoTrade
  BY <1>t DEF PatchBySeller, Leave, MarketTypeOK
<1>6. TradeKnows(w)'
  BY <1>5, NoTradeKnows
<1>7. course = "regular" =>
         /\ InFlight \subseteq {w}
         /\ \A k \in Materials : material[k].stock + Held(k) = supplied[k]
  <2>1. \A k \in Materials : Owed(w, k) = 0
    BY <1>t DEF Owed, Doing
  <2>2. \A k \in Materials : Held(k) \in Int /\ material[k].stock \in Int
    BY HeldIsANumber, <1>t DEF MarketTypeOK, Material
  <2>3. course = "regular" => Solo(w) /\ InFlight = {w}
    BY <1>t, OnItsOwn DEF Doing
  <2> QED BY <2>1, <2>2, <2>3 DEF Solo, Balance
<1> QED BY <1>t, <1>u, <1>4, <1>5, <1>6, <1>7, NoTradeIsTrade, TradeKeeps
          DEF MarketTypeOK, MarketInv

LEMMA AbortKeeps ==
    ASSUME MarketInv, NEW w \in Trades, Abort(w)
    PROVE  MarketInv'
<1>t. MarketTypeOK
  BY DEF MarketInv
<1>1. trade' = [trade EXCEPT ![w] = NoTrade] /\ trade'[w] = NoTrade
  BY <1>t DEF Abort, Leave, MarketTypeOK
<1>2. /\ UNCHANGED <<material, order, begun, supplied>>
      /\ course' = "irregular" /\ aborted' \in 0..MaxAborts
  BY <1>t, MarketAssumption DEF Abort, MarketTypeOK
<1>3. TradeKnows(w)'
  BY <1>1, NoTradeKnows
<1>k. /\ \A k \in Materials : Offered(k) => Offered(k)'
      /\ \A p \in Orders : Known(order[p].items)'
  <2>1. \A k : Offered(k)' = Offered(k)
    BY <1>2, SameMaterials
  <2> QED BY <2>1, <1>2, KnownStays
<1>4. Used' = Used
  BY <1>2 DEF Used
<1> QED BY <1>t, <1>1, <1>2, <1>3, <1>4, <1>k, NoTradeIsTrade, TradeKeeps
          DEF MarketTypeOK, MarketInv

-----------------------------------------------------------------------------
(* The theorems of the market *)

LEMMA MarketInitInv == MarketInit => MarketInv
<1> SUFFICES ASSUME MarketInit PROVE MarketInv
  OBVIOUS
<1>1. Nothing \in [Materials -> 0..MaxQuantity] /\ \A m \in Materials : Nothing[m] = 0
  BY MarketAssumption DEF Nothing
<1>2. MarketTypeOK
  BY <1>1, NoTradeIsTrade, MarketAssumption DEF MarketInit, MarketTypeOK, Material, Order
<1>3. /\ Used = {} /\ InFlight = {} /\ Holding = {}
      /\ \A o \in Orders : order[o].items = Nothing
      /\ \A w \in Trades : trade[w] = NoTrade
  BY NoTradeIsTrade DEF MarketInit, Used, InFlight, Holding, Doing
<1>4. \A b : b = Nothing => Known(b)
  BY <1>1 DEF Known, In
<1>5. \A w \in Trades : TradeKnows(w)
  BY <1>3, <1>4 DEF TradeKnows, NoTrade
<1>6. StockAddsUp
  <2> SUFFICES ASSUME NEW m \in Materials
               PROVE  material[m].stock + Held(m) = supplied[m]
    BY DEF StockAddsUp
  <2>1. Held(m) = 0
    <3> DEFINE f == [o \in Orders |-> order[o].items[m]]
    <3>1. Additive([T \in SUBSET {} |-> 0], f, {})
      BY DEF Additive
    <3>2. Held(m) = SumFunctionOnSet(f, {})
      BY <1>3 DEF Held
    <3> HIDE DEF f
    <3>3. SumFunctionOnSet(f, {}) = [T \in SUBSET {} |-> 0][{}]
      BY <3>1, FS_EmptySet, SumIs
    <3> QED BY <3>2, <3>3
  <2> QED BY <2>1 DEF MarketInit
<1> QED BY <1>2, <1>3, <1>4, <1>5, <1>6, FS_EmptySet DEF MarketInv

LEMMA MarketNextInv == MarketInv /\ [MarketNext]_marketVars => MarketInv'
<1> SUFFICES ASSUME MarketInv, [MarketNext]_marketVars PROVE MarketInv'
  OBVIOUS
<1>1. CASE UNCHANGED marketVars
  <2>1. \A m : Held(m)' = Held(m)
    BY <1>1, HeldStays DEF marketVars
  <2>2. \A w, m : Owed(w, m)' = Owed(w, m)
    BY <1>1 DEF marketVars, Owed, Doing
  <2>3. Used' = Used /\ InFlight' = InFlight /\ \A m : Offered(m)' = Offered(m)
    BY <1>1 DEF marketVars, Used, InFlight, Doing, Offered
  <2>4. \A w : Solo(w) => Solo(w)'
    BY <1>1, <2>1, <2>2 DEF marketVars, Solo, Buying, Entering, Entered, Cancelling, Balance, Doing
  <2>5. \A w : TradeKnows(w) => TradeKnows(w)'
    BY <1>1, <2>3 DEF marketVars, TradeKnows, Known, In
  <2>6. StockAddsUp'
    BY <1>1, <2>1, <2>3 DEF marketVars, StockAddsUp, MarketInv
  <2>7. \A o \in Orders : Known(order[o].items)'
    BY <1>1, <2>3, KnownStays DEF marketVars
  <2>8. MarketTypeOK'
    BY <1>1 DEF marketVars, MarketTypeOK, MarketInv
  <2> QED BY <1>1, <2>3, <2>4, <2>5, <2>6, <2>7, <2>8 DEF marketVars, MarketInv
<1>2. ASSUME NEW w \in Trades, Technician(w) PROVE MarketInv'
  BY <1>2, BuyReadKeeps, InsertOrderKeeps, InsertItemsKeeps, TakeKeeps DEF Technician
<1>3. ASSUME NEW w \in Trades, Change(w) PROVE MarketInv'
  BY <1>3, ChangeReadKeeps, WriteStatusKeeps, RecallKeeps, RestoreReadKeeps, PutKeeps
     DEF Change
<1>4. ASSUME NEW w \in Trades, Supply(w) PROVE MarketInv'
  BY <1>4, NewKeeps, PatchByAdminKeeps, SellerReadKeeps, PatchBySellerKeeps
     DEF Supply, CreateMaterial, CreateSellerMaterial
<1> QED BY <1>1, <1>2, <1>3, <1>4, AbortKeeps DEF MarketNext

THEOREM MarketInvariance == MarketSpec => []MarketInv
  BY MarketInitInv, MarketNextInv, PTL DEF MarketSpec

\* Materials, purchase orders and the calls in flight have the types of their rows.
THEOREM MarketTypeCorrect == MarketSpec => []MarketTypeOK
<1>1. MarketInv => MarketTypeOK
  BY DEF MarketInv
<1> QED BY <1>1, MarketInvariance, PTL

\* Between calls that came one after the other, what is on stock and what orders hold
\* is what was supplied (technicianCreateMaterialOrder, restoreMaterialOrderStock),
\* for any number of materials, orders and calls.
THEOREM StockAddsUpHolds == MarketSpec => []StockAddsUp
<1>1. MarketInv => StockAddsUp
  BY DEF MarketInv
<1> QED BY <1>1, MarketInvariance, PTL

\* A purchase or a cancellation that has the market to itself never puts a hidden
\* material or a draft on sale: the one writes only what it saw on sale, the other
\* the status it saw.
THEOREM HiddenStaysHiddenHolds == MarketSpec => HiddenStaysHidden
<1> DEFINE Step == \A m \in Materials :
                     /\ course = "regular"
                     /\ material[m].status \in {"hidden", "draft"}
                     /\ material'[m].status # material[m].status
                     => \E w \in Trades : Supply(w)
<1>1. MarketInv /\ [MarketNext]_marketVars => [Step]_marketVars
  <2> SUFFICES ASSUME MarketInv, MarketNext, NEW m \in Materials, course = "regular",
                      material[m].status \in {"hidden", "draft"},
                      material'[m].status # material[m].status
               PROVE  \E w \in Trades : Supply(w)
    BY DEF marketVars
  <2>t. MarketTypeOK /\ material \in [Materials -> Material]
    BY DEF MarketInv, MarketTypeOK
  <2>1. PICK w \in Trades : Technician(w) \/ Change(w) \/ Supply(w) \/ Abort(w)
    BY DEF MarketNext
  <2>2. CASE Take(w)
    <3>1. trade[w].pc = "take" /\ Solo(w)
      BY <2>2, OnItsOwn DEF Take, Doing
    <3>2. PICK k \in trade[w].todo : \A j \in Materials \ {k} : material'[j] = material[j]
      BY <2>2, <2>t DEF Take
    <3>3. material[k].status = "active"
      BY <3>1 DEF Solo, Buying
    <3> QED BY <3>2, <3>3
  <2>3. CASE Put(w)
    <3>1. trade[w].pc = "put" /\ Solo(w)
      BY <2>3, OnItsOwn DEF Put, Doing
    <3>2. trade[w].saw = material[trade[w].item].status
      BY <3>1 DEF Solo, Cancelling, Doing
    <3>3. \A j \in Materials \ {trade[w].item} : material'[j] = material[j]
      BY <2>3, <2>t DEF Put
    <3>4. m = trade[w].item => material'[m].status = trade[w].saw
      BY <2>3, <3>2, <2>t DEF Put, Resold, Material
    <3> QED BY <3>2, <3>3, <3>4
  <2>4. CASE Supply(w)
    BY <2>4
  <2>5. CASE BuyRead(w) \/ InsertOrder(w) \/ InsertItems(w) \/ ChangeRead(w) \/ WriteStatus(w)
               \/ Recall(w) \/ RestoreRead(w) \/ Abort(w)
    <3>1. material' = material
      BY <2>5 DEF BuyRead, InsertOrder, InsertItems, ChangeRead, WriteStatus, Recall,
                  RestoreRead, Abort
    <3> QED BY <3>1
  <2> QED BY <2>1, <2>2, <2>3, <2>4, <2>5 DEF Technician, Change
<1> QED BY <1>1, MarketInvariance, PTL DEF MarketSpec, HiddenStaysHidden

=============================================================================
