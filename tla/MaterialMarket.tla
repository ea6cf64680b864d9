--------------------------- MODULE MaterialMarket ---------------------------
(***************************************************************************)
(* The material market: sellers and administrators offer materials,        *)
(* technicians order them, and cancelling an order puts its items back on  *)
(* stock (OrdersService and AdminService).                                 *)
(*                                                                         *)
(* A purchase reads the materials once and writes back what it computed    *)
(* from that; a cancellation reads and writes them one by one.  Prices and *)
(* texts are left out but for a price that is not fixed yet.               *)
(***************************************************************************)
EXTENDS Integers, FiniteSets, Functions

CONSTANTS
    Materials,
    Orders,           \* purchase orders
    Sellers,
    Nobody,           \* neither a seller nor an order nor a material
    Trades,           \* calls that may be in flight
    Supplies,         \* stock quantities that are entered
    MinQuantity,      \* materials.min_order_quantity
    MaxQuantity,      \* bound: units of a material in one purchase
    MaxTrades,        \* bound: calls that arrive in a behaviour
    MaxInFlight,      \* bound: calls in flight at once
    MaxAborts         \* bound: statements that fail in a behaviour

ASSUME MarketAssumption ==
    /\ Nobody \notin Sellers \cup Orders \cup Materials
    /\ Supplies \subseteq Nat
    /\ MinQuantity \in Nat \ {0}
    /\ MaxQuantity \in Nat
    /\ MaxTrades \in Nat
    /\ MaxAborts \in Nat

VARIABLES
    material,         \* materials
    order,            \* material_purchase_orders with their items
    trade,            \* the calls in flight
    begun,            \* calls that have arrived
    aborted,          \* statements that failed so far
    supplied,         \* history: units ever put on stock by hand
    course            \* history: regular until calls overlap or fail or an order is reopened

marketVars == <<material, order, trade, begun, aborted, supplied, course>>

MarketStatuses == {"active", "sold_out", "hidden", "draft"}

OrderStatuses == {"requested", "confirmed", "preparing", "shipped", "delivered", "cancelled"}

\* seller: seller_id;  company: the seller whose company supplier_name is;
\* price: customer_price;  shelf: is_active.
Material == [status: MarketStatuses \cup {"none"}, stock: Nat, seller: Sellers \cup {Nobody},
             company: Sellers \cup {Nobody}, price: {"open", "fixed"}, shelf: {"on", "off"}]

\* items: the quantities of its material_purchase_order_items.
Order == [status: OrderStatuses \cup {"none"}, seller: Sellers \cup {Nobody},
          items: [Materials -> 0..MaxQuantity]]

Nothing == [m \in Materials |-> 0]

\* What a call is about to do: insert the order and its items, take the stock;
\* write a status, read the items, read and write their stock; patch a material.
TradeSteps == {"idle", "insert", "items", "take", "status", "recall", "restore", "put", "patch"}

\* read, saw: stock and status it has read;  todo: materials it has still to write;
\* item: the one at hand.
Trade == [pc: TradeSteps, seller: Sellers \cup {Nobody}, basket: [Materials -> 0..MaxQuantity],
          read: [Materials -> Nat], saw: MarketStatuses, todo: SUBSET Materials,
          item: Materials \cup {Nobody}, of: Orders \cup {Nobody},
          status: OrderStatuses, before: OrderStatuses]

NoTrade == [pc |-> "idle", seller |-> Nobody, basket |-> Nothing, read |-> Nothing,
            saw |-> "active", todo |-> {}, item |-> Nobody, of |-> Nobody,
            status |-> "requested", before |-> "requested"]

MarketTypeOK ==
    /\ material \in [Materials -> Material]
    /\ order \in [Orders -> Order]
    /\ trade \in [Trades -> Trade]
    /\ begun \in 0..MaxTrades
    /\ aborted \in 0..MaxAborts
    /\ supplied \in [Materials -> Int]
    /\ course \in {"regular", "irregular"}

MarketInit ==
    /\ material = [m \in Materials |->
                     [status |-> "none", stock |-> 0, seller |-> Nobody, company |-> Nobody,
                      price |-> "open", shelf |-> "on"]]
    /\ order = [o \in Orders |-> [status |-> "none", seller |-> Nobody, items |-> Nothing]]
    /\ trade = [w \in Trades |-> NoTrade]
    /\ begun = 0
    /\ aborted = 0
    /\ supplied = [m \in Materials |-> 0]
    /\ course = "regular"

-----------------------------------------------------------------------------
(* Helpers *)

Doing(w, pc) == trade[w].pc = pc

InFlight == {w \in Trades : ~Doing(w, "idle")}

Offered(m) == material[m].status # "none"

AtLeastZero(n) == IF n < 0 THEN 0 ELSE n

In(basket) == {m \in Materials : basket[m] > 0}

\* A call arrives; whether it goes on is up to its first read.
Arrive(w) ==
    /\ Doing(w, "idle")
    /\ Cardinality(InFlight) < MaxInFlight
    /\ begun < MaxTrades
    /\ begun' = begun + 1
    /\ course' = IF InFlight = {} THEN course ELSE "irregular"

Goto(w, pc) == trade' = [trade EXCEPT ![w].pc = pc]

Leave(w) == trade' = [trade EXCEPT ![w] = NoTrade]

\* Whoever supplies the stock by hand accounts for the difference.
Restocked(m, n) == supplied' = [supplied EXCEPT ![m] = @ + n - material[m].stock]

-----------------------------------------------------------------------------
(* Purchases of technicians *)

\* A bug: nobody asks whether there is enough.
MayBuyAnyAmount(basket) ==
    /\ \A m \in In(basket) : /\ material[m].status = "active"
                             /\ material[m].shelf = "on"
                             /\ material[m].price = "fixed"
                             /\ MinQuantity <= basket[m]
    /\ Cardinality({material[m].seller : m \in In(basket)} \ {Nobody}) <= 1

\* What a technician may order, by the rows as they are now.
MayBuy(basket) ==
    /\ \A m \in In(basket) :
         /\ material[m].status = "active"
         /\ material[m].shelf = "on"
         /\ material[m].price = "fixed"
         /\ MinQuantity <= basket[m]
         /\ basket[m] <= material[m].stock
    /\ Cardinality({material[m].seller : m \in In(basket)} \ {Nobody}) <= 1

\* technicianCreateMaterialOrder: quantities of one material are added up.  The
\* order is for the seller of the row that comes first, which has no order by.
BuyRead(w) ==
    /\ Arrive(w)
    /\ \E basket \in [Materials -> 0..MaxQuantity] :
         /\ In(basket) # {}
         /\ MayBuy(basket)
         /\ \E first \in In(basket) :
              trade' = [trade EXCEPT ![w] =
                          [NoTrade EXCEPT !.pc = "insert", !.seller = material[first].seller,
                                          !.basket = basket, !.todo = In(basket),
                                          !.read = [m \in Materials |-> material[m].stock]]]
    /\ UNCHANGED <<material, order, aborted, supplied>>

InsertOrder(w) ==
    /\ Doing(w, "insert")
    /\ \E o \in Orders :
         /\ order[o].status = "none"
         /\ order' = [order EXCEPT ![o].status = "requested", ![o].seller = trade[w].seller]
         /\ trade' = [trade EXCEPT ![w].pc = "items", ![w].of = o]
    /\ UNCHANGED <<material, begun, aborted, supplied, course>>

InsertItems(w) ==
    /\ Doing(w, "items")
    /\ order' = [order EXCEPT ![trade[w].of].items = trade[w].basket]
    /\ Goto(w, "take")
    /\ UNCHANGED <<material, begun, aborted, supplied, course>>

\* What is left of the stock that was read, on sale unless nothing is.
Take(w) ==
    /\ Doing(w, "take")
    /\ \E m \in trade[w].todo :
         LET left == AtLeastZero(trade[w].read[m] - trade[w].basket[m]) IN
         /\ material' = [material EXCEPT ![m].stock = left,
                                         ![m].status = IF left = 0 THEN "sold_out" ELSE "active"]
         /\ IF trade[w].todo = {m} THEN Leave(w) ELSE trade' = [trade EXCEPT ![w].todo = @ \ {m}]
    /\ UNCHANGED <<order, begun, aborted, supplied, course>>

-----------------------------------------------------------------------------
(* Status changes by sellers and administrators *)

\* updateMaterialPurchaseOrder: a seller needs an order of his, an administrator
\* none.
ChangeRead(w) ==
    /\ Arrive(w)
    /\ \E o \in Orders, status \in OrderStatuses, actor \in Sellers \cup {Nobody} :
         /\ order[o].status # "none"
         /\ actor \in Sellers => order[o].seller = actor
         /\ trade' = [trade EXCEPT ![w] =
                        [NoTrade EXCEPT !.pc = "status", !.of = o, !.seller = actor,
                                        !.status = status, !.before = order[o].status]]
    /\ UNCHANGED <<material, order, aborted, supplied>>

\* Whether the stock comes back, by the status that was read.
GivesBack(w) ==
    /\ trade[w].status = "cancelled"
    /\ trade[w].before \notin {"cancelled", "delivered"}

\* Any status after any other.
WriteStatus(w) ==
    /\ Doing(w, "status")
    /\ order' = [order EXCEPT ![trade[w].of].status = trade[w].status]
    /\ IF GivesBack(w) THEN Goto(w, "recall") ELSE Leave(w)
    /\ course' = IF /\ order[trade[w].of].status \in {"cancelled", "delivered"}
                    /\ order[trade[w].of].status # trade[w].status
                   THEN "irregular" ELSE course
    /\ UNCHANGED <<material, begun, aborted, supplied>>

\* restoreMaterialOrderStock reads the items, ...
Recall(w) ==
    /\ Doing(w, "recall")
    /\ LET items == order[trade[w].of].items IN
         trade' = [trade EXCEPT ![w].pc = "restore", ![w].basket = items, ![w].todo = In(items)]
    /\ UNCHANGED <<material, order, begun, aborted, supplied, course>>

\* ... the stock of one after the other ...
RestoreRead(w) ==
    /\ Doing(w, "restore")
    /\ \/ /\ trade[w].todo = {}
          /\ Leave(w)
       \/ \E m \in trade[w].todo :
            trade' = [trade EXCEPT ![w].pc = "put", ![w].todo = @ \ {m}, ![w].item = m,
                                   ![w].saw = material[m].status,
                                   ![w].read = [Nothing EXCEPT ![m] = material[m].stock]]
    /\ UNCHANGED <<material, order, begun, aborted, supplied, course>>

\* A bug: whatever is back on stock is on sale.
PutOnSale(status, stock) == IF stock > 0 THEN "active" ELSE status

\* A material is on sale again when it was sold out.
Resold(status, stock) == IF status = "sold_out" /\ stock > 0 THEN "active" ELSE status

\* ... and writes it back with the item added.
Put(w) ==
    LET m == trade[w].item
        stock == trade[w].read[m] + trade[w].basket[m]
    IN
    /\ Doing(w, "put")
    /\ material' = [material EXCEPT ![m].stock = stock, ![m].status = Resold(trade[w].saw, stock)]
    /\ Goto(w, "restore")
    /\ UNCHANGED <<order, begun, aborted, supplied, course>>

-----------------------------------------------------------------------------
(* Materials *)

\* On sale or sold out by its stock unless another status is given.
New(w, s, c) ==
    /\ Arrive(w)
    /\ \E m \in Materials, n \in Supplies, status \in MarketStatuses, price \in {"open", "fixed"} :
         /\ ~Offered(m)
         /\ material' = [material EXCEPT ![m] = [status |-> status, stock |-> n, seller |-> s,
                                                 company |-> c, price |-> price, shelf |-> "on"]]
         /\ Restocked(m, n)
    /\ UNCHANGED <<order, trade, aborted>>

\* createMaterial, createSellerMaterial.
CreateMaterial(w) == \E s, c \in Sellers \cup {Nobody} : New(w, s, c)

CreateSellerMaterial(w) == \E s \in Sellers : New(w, s, s)

\* updateMaterial, deleteMaterial: one column of a patch.
Patched(m) ==
    {[material[m] EXCEPT !.stock = n] : n \in Supplies}
        \cup {[material[m] EXCEPT !.status = status] : status \in MarketStatuses}
        \cup {[material[m] EXCEPT !.price = "fixed"]}
        \cup {[material[m] EXCEPT !.shelf = shelf] : shelf \in {"on", "off"}}

PatchByAdmin(w) ==
    /\ Arrive(w)
    /\ \E m \in Materials :
         /\ Offered(m)
         /\ \E row \in Patched(m)
                     \cup {[material[m] EXCEPT !.seller = s] : s \in Sellers \cup {Nobody}}
                     \cup {[material[m] EXCEPT !.company = s] : s \in Sellers \cup {Nobody}} :
              /\ material' = [material EXCEPT ![m] = row]
              /\ Restocked(m, row.stock)
    /\ UNCHANGED <<order, trade, aborted>>

\* updateSellerMaterial: a seller needs a material linked to him or with the name
\* of his company, ...
SellerRead(w) ==
    /\ Arrive(w)
    /\ \E m \in Materials, s \in Sellers :
         /\ Offered(m)
         /\ s \in {material[m].seller, material[m].company}
         /\ trade' = [trade EXCEPT ![w] = [NoTrade EXCEPT !.pc = "patch", !.item = m, !.seller = s]]
    /\ UNCHANGED <<material, order, aborted, supplied>>

\* ... and takes it over with whatever he changes.
PatchBySeller(w) ==
    LET m == trade[w].item IN
    /\ Doing(w, "patch")
    /\ \E row \in Patched(m) :
         /\ material' = [material EXCEPT ![m] = [row EXCEPT !.seller = trade[w].seller,
                                                           !.company = trade[w].seller]]
         /\ Restocked(m, row.stock)
    /\ Leave(w)
    /\ UNCHANGED <<order, begun, aborted, course>>

\* A statement fails, or the process stops: what was written remains.
Abort(w) ==
    /\ ~Doing(w, "idle")
    /\ aborted < MaxAborts
    /\ aborted' = aborted + 1
    /\ course' = "irregular"
    /\ Leave(w)
    /\ UNCHANGED <<material, order, begun, supplied>>

-----------------------------------------------------------------------------
(* Specification *)

Technician(w) == BuyRead(w) \/ InsertOrder(w) \/ InsertItems(w) \/ Take(w)

Change(w) == ChangeRead(w) \/ WriteStatus(w) \/ Recall(w) \/ RestoreRead(w) \/ Put(w)

Supply(w) ==
    \/ CreateMaterial(w) \/ CreateSellerMaterial(w) \/ PatchByAdmin(w)
    \/ SellerRead(w) \/ PatchBySeller(w)

MarketNext == \E w \in Trades : Technician(w) \/ Change(w) \/ Supply(w) \/ Abort(w)

MarketSpec == MarketInit /\ [][MarketNext]_marketVars

-----------------------------------------------------------------------------
(* Properties *)

\* The orders that hold what they took from stock, and how much of a material.
Holding == {o \in Orders : order[o].status \notin {"none", "cancelled"}}

Held(m) == SumFunctionOnSet([o \in Orders |-> order[o].items[m]], Holding)

\* As long as calls come one after the other, nothing fails and no closed order is
\* reopened, what is on stock between calls and what orders hold is what was
\* supplied: cancellations give back exactly what purchases took.
StockAddsUp ==
    course = "regular" /\ InFlight = {} =>
        \A m \in Materials : material[m].stock + Held(m) = supplied[m]

\* Under the same condition what was hidden or is a draft is put on sale by its
\* seller or an administrator, never by a purchase or a cancellation.
HiddenStaysHidden ==
    [][\A m \in Materials :
         /\ course = "regular"
         /\ material[m].status \in {"hidden", "draft"}
         /\ material'[m].status # material[m].status
         => \E w \in Trades : Supply(w)]_marketVars

=============================================================================
