# airconeCallServer: verification project

The repository is a NestJS backend for an air-conditioner service (`src/src`) over a Supabase
Postgres database reached by REST calls. One Node process serves three kinds of clients:
customers (emergency leads, orders, payments, coupons), technicians (dispatch offers, jobs,
quotes, materials, payouts) and administrators. There are no database transactions. Every
`await` of a Supabase call is a point where another request may run, every call may fail, and a
failure leaves the statements before it in place. Nearly all hard behaviour of this program
comes from these three facts, so the models take one statement with the code up to the next
`await` as one action.

Paths below are relative to the repository; `orders.service.ts` and so on are under
`src/modules/`.

## 1. Inventory

| Component | State it keeps | Operations | Hard behaviour | Correct when |
|---|---|---|---|---|
| Emergency leads (`emergency-leads/`) | rows of `emergency_service_leads`; a FIFO mutex per lead in memory | create, contact, timeout, admin patch, deadline sweep every 45 s | five entry points run one pipeline of four statements on two tables; failures, restarts | one order per lead, announced before linked, never early, for ever; every late lead is converted |
| Orders and dispatch (`orders/orders.service.ts`, `supabase-orders.repository.ts`) | rows of `orders`, `payments`, `dispatch_notifications`, `technician_dispatch_preferences` | draft, payment confirmation, admin patch, offer list/accept/reject, job steps, completion | whole-row read-modify-write after awaits; only acceptance is a conditional update | one technician wins; payment fits status; open orders are announced; a recorded payment is not recorded again; whoever takes an order hears of it, whoever rejected it does not see it again |
| Admin bookings (`admin/admin.service.ts`) | the same order rows | assign, unassign, status with a transition table, update, delete | the transition is checked on one read and applied to another | transitions follow the table |
| Extra quotes (`orders/extra-quotes.service.ts`) | `order_extra_quotes`, items, extra payments, the order's totals | create, approve, reject, cancel, pay, approve-and-pay | check, then unconditional update; three tables per payment | a quote is paid once, its amount reaches the total once |
| Settlements (`admin.service.ts`, `settlement-audit.service.ts`) | `order_settlements`, `settlement_events`, `idempotency_keys` | upsert on completion, payout request, confirm, status, delete, payment cancel | idempotency key looked up before and saved after the effect | an adjustment is applied once; a paid settlement stays paid |
| Material market (`orders.service.ts`, `admin.service.ts`) | `materials.stock_quantity`, purchase orders and items | purchase, status change by seller or admin, restoring stock on cancellation | stock is written from a snapshot; cancel, reopen, cancel again | what is sold and what is left add up |
| Technician registry (`technicians/`) | rows of four tables and the cache `byId` | sign-up in steps, review, patch, delete, work status; guard reads the cache | overlapping reloads; partly inserted technicians | the cache agrees with the table when nothing is in flight |
| Members, coupons, reviews, sellers (`admin.service.ts`) | `members`, `user_addresses`, `aircon_assets`, `coupons`, `reward_logs` | register with a sign-up coupon, default address, coupon use, review | registration is a check, an upsert and a coupon; check-then-update of a coupon; two statements per default address | nobody takes an account over; one sign-up coupon; one default address; a coupon is used once |
| Service catalog (`service-catalog/`) | products and add-ons in memory and in two tables | start with a seed, create, patch, deactivate, price lookup | memory changes before the table does; writes overtake each other; the process ends while seeding | what is sold is what is stored; there is something to sell |
| Notifications (`notifications/`) | `notification_devices`, `notification_events` | register a device, notify owners | devices are pushed to one after the other, each may fail | one failing device keeps nobody else from being notified |
| Prices and fees | none | price by schedule, platform fee, payout | rounding | payout + fee = gross |
| Photos, sessions, HTTP shell | object storage, headers | uploads, logins, static files | I/O | not modelled |

How they interact: a lead's conversion inserts an order and announces it (leads -> orders ->
notifications); a payment makes an order dispatchable; an acceptance or an administrator gives
it to a technician; a quote and its payment move the order's status and totals; completion
creates the settlement; settlements feed payouts. The order row is the meeting point: nine
handlers write all of its columns at once.

The hazards of this code, each at its line, are listed in `PROJECT.json`.

## 2. Plan

Done, in this order:

1. `EmergencyLeads` with the abstract `LeadConversion` and the proofs of both.
2. `OrderDispatch` with its proofs.
3. `ExtraQuotes`: quotes, extra payments and the order's extra total, with its proofs, and the
   abstract `ExtraBilling`.
4. `TechnicianRegistry`: the technicians' tables and the copy the guard reads, with its proofs.
5. `Settlements`: payouts, confirmation with idempotency keys, status changes, with its proofs.
6. `MaterialMarket`: stock and purchase orders.
7. `Members`: registration, coupons, addresses and air conditioners.
8. `Catalog`: the catalog in memory and in the database, and its seed.
9. `DispatchOffers`: announcements, listings, preferences and pushes.
10. The proofs of `Members`, `Catalog` and `DispatchOffers`, and what was left of `OrderDispatch`,
    `ExtraQuotes` and `Settlements`: every safety property and action property of these modules
    that a run checks is now a theorem.
11. The proofs of `MaterialMarket`: with them every safety property and every action property that
    a run checks is a theorem.

Next:

12. Prices and fees as operators checked against a reference definition.

One run per question is kept. Demonstrations whose finding is clear from the code alone gave way
to runs that ask something new; what they showed is listed in section 5. `order_serial` can be
folded into `order_admin` with a history variable that tells serial behaviours from others, as
the later modules have it.

## 3. The models

### `EmergencyLeads` (leads and their conversion)

| Variable | Code |
|---|---|
| `lead[l]` | `matching_status`, `converted_order_id` of a row (`converted_booking_id` always equals it) |
| `late` | the leads whose `matching_deadline_at` has passed |
| `order[o]` | an order draft: its lead, `created` or `matching`, whether `notifyDispatchableOrder` ran for it |
| `queue[l]` | the promise chain of the lead's `Mutex`; its head runs |
| `req[w]` | the locals of a call or sweep finalizer between two awaits, among them the row it read under the mutex |
| `forced`, `abandoned` | history: leads an administrator marked converted; orders whose creator failed before linking |

Entry points: `Create`, `PatchContact`, `TimeoutRead`/`TimeoutWrite`, `PatchAdmin`,
`StartFinalize` (the second read, then `runExclusive`), `Sweep`. The pipeline of
`finalizeLeadBody`: `FinalizeRead` -> `FinalizeSkip` | `Heal` | `Expire` -> `Refetch` ->
`InsertDraft` -> `PlaceDraft` -> `Announce` -> `LinkOrder` -> `ReadBack`. Faults: `Fail` (a
statement fails, the exception releases the mutex) and `Crash` (mutexes and calls vanish).

Abstractions. Contact columns, prices and memos are left out. Choosing the default product is
part of the draft; that there is none is a `Fail`. A statement whose effect took place although
its answer was lost is a `Fail` at the next statement. At most one sweep finalizer per lead is in flight; a
second one would queue like a call. The last `else if` of `finalizeLeadBody` cannot be reached
under the mutex (the lemma `SnapshotCurrent` of the proofs is the reason) and is not modelled.

### `LeadConversion` (what the conversion promises)

`ready` and `link` only: a ready lead gets one order, once. `ConversionSpec` in
`EmergencyLeads` instantiates it with `ready <- late \cup forced` and `link` the order column.

### `OrderDispatch` (the life of one order)

| Variable | Code |
|---|---|
| `order` | `order_status`, `payment_status`, `assigned_technician_id` |
| `sameDay` | `schedule_type`, fixed for an order |
| `receipts` | paid rows of type `product` in `payments` |
| `quotes` | extra quotes filed |
| `settledTo` | `technician_id` of the order's row in `order_settlements` (unique per order) |
| `req[w]` | the row a handler read and is going to write, and its next step |
| `announced`, `winners`, `entitled` | history: announced since it became matching; technicians told that the dispatch is theirs; technicians the order was ever given to |

Each handler is a read action that checks and prepares the row (`ConfirmRead`, `PatchRead`,
`BookingRead`, `TransitionCheck`, `AcceptRead`, `JobRead`, `QuoteRead`, `ExtraPaidRead`), what
it awaits in between (`TransitionRead`, `TechnicianCheck`, `PhotosRead`, `QuoteInsert`,
`PendingRead`), one `Replace` of the whole row, and what follows it (`ReceiptRead`,
`ReceiptInsert`, `Settle`, `Notify`). `AcceptWrite` is the one conditional update.

Abstractions. One order stands for all, since handlers of different orders share no row. Whether a
technician is approved, on duty, near and interested changes independently, so each check has
both outcomes; so has the photo check. `dispatch_notifications` is an append-only log that
appears as `announced`; who is announced to, and rejections, are in `DispatchOffers`.
Prices are left out (the extra total is in `ExtraQuotes`). `updateBooking` writes contact columns only.
No state but calls in flight is in memory, so a restart is the failure of each of them.

### `ExtraQuotes` (more money asked for on site)

| Variable | Code |
|---|---|
| `quote[q]` | `order_extra_quotes.status`, `none` before the row exists |
| `charged[q]`, `collected` | rows of type `extra` in `payments`: how many name the quote, and their sum |
| `order` | `order_status` and `extra_total_price` of the order's row |
| `req[w]` | what a call is about to execute, its quote and the row it is going to write |
| `approved`, `course` | history: quotes approved so far; `serial` until two calls overlap or a statement fails |

`Create` -> `InsertItems` -> `PendingRead` -> `Replace` is `technicianCreateQuote`; `CheckAnswer`
-> `WriteAnswer` is `transitionQuote`; `ChargeRead` -> `InsertPayment` -> `MarkPaid` ->
`ApplyRead` -> `Replace` is `adminMockPay`; `ListRead` starts the customer's approve-and-pay.
`OtherRead` is any other handler that writes the order's row. Items and unit prices are one
amount per quote. The order starts at `working`, where a technician files quotes.

### `ExtraBilling` (what the extra quotes promise about money)

Consent, receipts, books and bill only: consent is final, a receipt needs consent and raises
the books by its amount, the bill is any sum the books cover. `BillingSpec` in `ExtraQuotes`
maps `approved`, `charged`, `collected` and the order's `extra` to them: `WriteAnswer` is `Agree`,
`InsertPayment` is `Charge`, `Replace` is `Rebill`, everything else stutters. That a quote may be
charged twice and a bill fall behind is left open, since the code does both when calls overlap.
`NoChargeUnapproved` follows from it and is proved on its own, so no run checks it.

### `TechnicianRegistry` (technicians and the copy of them in memory)

| Variable | Code |
|---|---|
| `table[t]` | the row of `technicians` (status, work status) and which child tables hold rows of his |
| `byId` | the map of the service, which the guard, the log-in and every check read |
| `req[w]` | what a call is about to execute, and during a reload what it has read so far |
| `born`, `admitted`, `course` | history: ids given out; technicians ever approved; `serial` until two calls overlap or a statement fails |

`Signup` -> `Insert` -> `InsertChild`\* is `signup`/`createByAdmin` with `persistNewTechnician`;
`UpdateByAdmin`, `ReviewOnboarding` -> `ChangeStatus`, `UpdateWorkStatus` -> `ChangeWork` and
`Delete` -> `Remove` are the other handlers. Each ends in `reload`: `ReadRows`, one `ReadChild`
per child table in any order (`Promise.all`), `Install`. `Fail` ends a call at any statement;
`Restart` drops the calls and loads the copy again, as `onModuleInit` does before requests are
served.

Abstractions. Ids are random UUIDs and never used twice. The child tables are numbered, and a
registration has rows for each of them (an empty list, such as a sign-up without documents, only
skips an insert). A
registration whose phone is taken is a `Fail` at `insert`. An update that leaves the status alone
goes straight to its reload. Names, passwords and bank data decide nothing here. The
fallback for child tables that do not exist is for databases that were not migrated.

### `Settlements` (what a technician gets for a job)

| Variable | Code |
|---|---|
| `row[s]` | the order's row in `order_settlements`: status, `paid_at`, `payout_requested_at`, `technician_payout`; status `none` before the row exists |
| `payment[s]` | the status of the order's product payment |
| `bank` | `bank_verification_status` of the technician |
| `saved` | `idempotency_keys`: per scope and key the settlement (or its payment) whose answer is stored |
| `req[w]` | what a call is about to execute, with the payout it is going to write |
| `applied`, `due`, `course` | history: confirmations per key; the payout with every adjustment since completion; `serial` until two calls overlap |

`Confirm` and `CancelPayment` go through `Lookup` -> `ConfirmRead`/`CancelRead` ->
`ConfirmWrite`/`CancelWrite` -> `Save`; `RequestPayout` through `RequestRead` -> `RequestBank` ->
`RequestWrite`. `UpdateStatus` -> `StatusWrite` is `updateSettlementStatus`, and `deleteSettlement`
with the status cancelled; `Complete` -> `CompleteWrite` is the upsert when a job is completed.
`VerifyBank` is an administrator's update of the technician.

Abstractions. The settlements are those of one technician; asking for another's finds no row and
changes nothing. Memos, the account snapshot and the append-only tables `settlement_events` and
`admin_logs` are left out: nothing reads them to decide. An insert into `admin_logs` that fails is
the `Fail` of its call before `Save`. A restart is the failure of the calls in flight.
A stored answer is the settlement it was given for. Rates are whole percentages, of which 1 is
taken for the fraction 1 and becomes 100 (`Percent`).

### `MaterialMarket` (materials, purchases, stock)

| Variable | Code |
|---|---|
| `material[m]` | a row of `materials`: `market_status`, `stock_quantity`, `seller_id`, the seller whose company `supplier_name` is, whether `customer_price` is set, `is_active` |
| `order[o]` | a row of `material_purchase_orders` with the quantities of its items |
| `trade[w]` | what a call is about to write, with the stock and the status it has read |
| `supplied`, `course` | history: units put on stock by hand; `regular` until calls overlap, one fails, or a cancelled or delivered order gets another status |

`BuyRead` -> `InsertOrder` -> `InsertItems` -> `Take` (one update per material) is
`technicianCreateMaterialOrder`; `ChangeRead` -> `WriteStatus` -> `Recall` -> (`RestoreRead` ->
`Put`)\* is `updateMaterialPurchaseOrder` with `restoreMaterialOrderStock`. `CreateMaterial`,
`CreateSellerMaterial`, `PatchByAdmin` and `SellerRead` -> `PatchBySeller` change the materials;
deleting one clears `is_active`. `Abort` is a statement of a call that fails. The names differ from
those of `Catalog`, since one module of proofs extends both.

Abstractions. The price of a material is fixed or not; that it is fixed is all a purchase asks. A
patch changes one column. The seller of an order is that of whichever of its materials comes first,
since the query has no order. Memos and addresses decide nothing.

### `Members` (members, sellers and what members own)

| Variable | Code |
|---|---|
| `account[a]` | a row of `members` or `seller_applications`: phone, role, status, the password behind its hash |
| `coupon[c]`, `address[d]`, `asset[s]` | rows of `coupons`, `user_addresses`, `aircon_assets` |
| `req[w]` | what a call is about to write |
| `told`, `welcomed`, `spent`, `course` | history: the password the holder was told is his; members whose registration was answered; uses of a coupon; `regular` until calls overlap |

`RegisterRead` -> `Upsert` -> `CouponRead` -> `Issue` -> `Raced` -> `Answer` is `registerMember`, of
which `registerSeller` is the part without a coupon. `UseRead` -> `Use` is `useMemberCoupon`;
`AddressRead` -> `ClearDefaults` -> `Place` and `Unplace`, `AssetRead` -> `KeepAsset` and `DiscardAsset`
are the calls on addresses and air conditioners. The handlers of administrators are one statement
each. `Session` is `unifiedSession` up to the technicians, who are asked after members and sellers.

What the database does is part of the step that meets it: phones are unique per table, a member
has one coupon of type signup (`uq_coupons_signup_once`), a deleted member takes his rows with him,
and an asset at a deleted address is at none. Abstractions: `inactive` stands for banned,
`admin` for super_admin, `approved` for whatever a seller is but pending.

### `Catalog` (what is sold)

`table` and `memory` are the products and add-ons in the database and in the service; `phase` is
where `onModuleInit` is. `Start` -> `SeedProducts` -> `SeedAddons` -> `Reload` is the start, `Create` ->
`Insert` -> `Append` and `Patch` -> `Replace` are the writes of administrators. `Patch` changes
memory at once and `Replace` the table later, in any order with another's. `Stop` loses memory and
calls in flight. `doubtful` and `cut` are history. The database is empty at first, or
`service_catalog_seed.sql` has loaded it. One price stands for all columns a patch writes, and is
stored as it is: that `NUMERIC(7,4)` rounds a fee rate with more digits, which memory keeps until
the next start, is left out. Categories are never changed.

### `DispatchOffers` (who is offered an order)

| Variable | Code |
|---|---|
| `order[o]` | `order_status` (`closed` for all in which nothing is dispatched), `payment_status`, `assigned_technician_id` |
| `tech[t]` | `status` and `work_status` of a technician |
| `saved[t]` | his row of `technician_dispatch_preferences`, if any |
| `log`, `event`, `device` | rows of `dispatch_notifications`, `notification_events`, `notification_devices` |
| `req[w]` | what a call is about to do and whom or what it has read, with the history `meant` and `past` |

`Publish` -> `TechniciansRead` -> `TasteRead`\* -> `Chosen` -> `Tell`\* -> `DevicesRead` -> `Push`\* ->
`Answer` is whatever makes an order dispatchable, followed by `notifyDispatchableOrder` and
`notifyOwners`. `List` -> `RejectionsRead` -> `OrdersRead` is the list of offers; acceptance, rejection
and the change of preferences are as in the code. `Change` and `Move` stand for the technician
registry and for `OrderDispatch`, which overwrite what is read here.

Abstractions. Regions stand for service and air conditioner types too, which work alike; a
technician has one device; a push has any outcome, also skipped for want of credentials. The events
of technicians without a device are inserted side by side in the code; here all or none of them
are. Whether a caller is approved is read from his row here and from the copy in memory in
the code; `TechnicianRegistry` is about the difference. A publication is one step here; its races
are in `OrderDispatch`.

## 4. Runs

| Run | What it asks | Bounds | Result |
|---|---|---|---|
| `leads_faults` | interleavings of a call and the sweep on a lead, with failing statements and a restart; refinement of `LeadConversion`; every late lead is converted, every overwritten status repaired | 1 lead, 1 call, 4 orders, 2 failures, 1 restart | pass |
| `order_admin` | handlers of a customer, an administrator and a technician overwriting one another; confirmations that follow a recorded payment or meet while it is recorded | 2 confirmations, 2 in flight, 3 admin statuses, 2 technicians | pass |
| `order_race` | technicians racing for an offer | 3 in flight, 2 technicians, 1 quote, 1 failure | pass |
| `order_serial` | every sequence of calls without overlap | all 16 statuses, 1 failure, 1 quote | pass |
| `order_lost_accept` | an acceptance the technician was told of stands | 2 confirmations, 2 technicians | violated |
| `quotes_race` | bills, charges and quotes under overlapping answers, charges and other writers of the row; refinement of `ExtraBilling` | 2 quotes, 2 in flight, 1 failure | pass |
| `registry_overlap` | registration, review, update, deletion and their reloads | 1 technician, 2 child tables, 2 in flight, 1 failure, 1 restart | pass |
| `settlements_overlap` | payouts, keys and statuses under overlapping calls | 1 settlement, 1 key, 2 in flight, 2 confirmations, 1 failure, a bonus and a deduction larger than the payout | pass |
| `market_trade` | stock, purchases and who puts materials on sale | 2 materials, 2 purchase orders, 1 seller, 4 calls, 2 in flight, 1 failure | pass |
| `members_overlap` | registration, sign-up coupon, coupons, addresses and assets | 2 accounts, 2 phones, 2 passwords, 2 coupons, 2 addresses, 1 asset, 4 calls, 2 in flight, 1 failure | pass |
| `catalog_restart` | memory and table of the catalog through patches, failures and restarts | 3 products and 1 add-on (a fixture of each), 2 codes, 2 prices, 4 calls, 1 failure, 2 restarts | pass |
| `offers` | who is told of an order, and what a listing shows | 2 technicians, 2 orders, 2 regions, 3 calls, 2 in flight, 1 failure | pass |

The bounds are enough because each hazard needs two actors that overlap and at most one fault: a
call and a sweep finalizer contend for one mutex (any number of them is the subject of the
proofs); the further orders are there for the drafts after two failures and a restart. The lead runs need no bound on time or calls (their state
space is finite: workers return to idle and start again). Orders are interchangeable, and so are
calls, technicians and technician calls: symmetry is used in the safety runs and in no liveness
run (`leads_faults` has none). `order_admin` gives administrators the three statuses that change the payment; `order_serial`
has all of them. In `registry_overlap` one technician is enough since rows of different
technicians meet only in the reload, which copies each on its own, and two child tables are the
least for a reload to see one before and one after another call's insert. `settlements_overlap`
bounds the confirmations, which add to payouts without end; one settlement and one key are enough
since rows are independent and two settlements share nothing but a key, whose first use answers
for both. `CHECK_DEADLOCK FALSE` appears where no administrator exists and an order can
legitimately end, in the registry run, where every id may have been used, and in the four runs
whose calls are bounded in number. Four calls are what the longest hazards of these take: in
`market_trade` creating a material, buying it, hiding it and cancelling the purchase; in
`members_overlap` two registrations or addresses of one member and what an administrator does
between them. `offers` has three: publishing an order, rejecting it, and a listing during a second
announcement. Two technicians differ in their profile, two orders in region and schedule.

`OpenOrderAnnounced` is checked without quotes and failures: the stale row of a payment for a quote
could reopen an order without announcing it. `PaymentForward` is checked for calls one after the other:
interleaved, a stale row undoes a refund. Both gaps are listed as hazards. So are those of the other
properties that leave overlapping or failing calls out (their histories say `serial` or `regular`):
each hazard's note says what the code does in the case that is left out.

### Fairness

`FairSpec` of `EmergencyLeads` assumes that time passes, that the interval timer of
`onModuleInit` keeps starting finalizers, and that a call whose statement was answered runs on
(weak fairness of each worker's next step; Node resumes every settled promise). No fairness is
assumed of callers, and failures and restarts are bounded, which is what "the database answers
again" means.

## 5. Findings

`order_lost_accept` shows the one disagreement that is kept as a run: a confirmation with a stale
row undoes an accepted dispatch, and the order is open again.

More are behaviours of the models that no run demonstrates. They are what the conditions of the
properties (`course`, `doubtful`, `abandoned`, `cut`) leave out.

* Leads and orders: a retry after a failure between inserting and linking creates a second order
  for the lead (`README.md:22` says it does not). Two overlapping confirmations of a payment both
  find none and record it twice, although `orders.repository.port.ts:10` calls the recording
  idempotent: `OneReceipt` is false as soon as two confirmations may be in flight. A completed order has no settlement when the upsert fails, and completion cannot be
  retried. A quote filed after completion takes the order back to extra_payment_pending, and a
  rejected or cancelled quote leaves it there. Two administrators together can make a status
  change that `allowedTransitions` does not have.
* Quotes and settlements: a cancellation that overlaps a payment turns a paid quote into a
  cancelled one; two overlapping payments of a quote are both recorded. A confirmation of a
  settlement that fails after its update applies its adjustment again when it is retried with its
  idempotency key; two overlapping ones lose an adjustment.
* Technicians: two overlapping administrator calls can leave a suspended technician approved in
  the copy the guard reads, although `README.md:54` says that only approved ids are valid.
* Materials: two purchases at once sell more than there is; an order that is cancelled, reopened
  and cancelled again gives its items back twice.
* Members: a registration that failed between the upsert and the coupon cannot be repeated (the
  phone has a password by then), so the member never gets the coupon that
  `member-public.controller.ts:42` calls idempotent. Two calls at once leave two default
  addresses, a failure leaves none. A coupon is used twice by two calls at once.
* Catalog: after a failed or overtaken write the server sells at a price the database does not
  have, until it restarts. A process that ends between the products and the add-ons of its first
  seed never has the add-ons.
* Offers: an order that is announced again is pushed to technicians who rejected it, though their
  list does not show it. A technician cannot save empty preferences: an empty list falls back to
  his profile. Of two changes of preferences at once one is lost. One announcement row that cannot
  be inserted ends the call before any push. A technician without a device has an event in
  `notification_events` only when nobody who is told has one.

## 6. Proofs

Each component has a module `..._proofs`, checked by TLAPS for every value of
the constants (`Catalog` and `MaterialMarket`, which share no state, have `CatalogMarket_proofs`
together), under the named assumptions of the modules: disjoint id sets, null values outside
them, natural amounts and bounds, and at least one phone number (`Members`: the records of idle
calls and accounts without a row need some value there). No bound of the runs is assumed, unless
named below. Each inductive invariant was first checked by TLC on the instance of the
component's run.

* `EmergencyLeads`. The inductive invariant adds to `TypeOK` what the mutex gives: a worker past
  `queued` is the head of its lead's queue and no worker is in a queue twice, so at most one
  worker per lead is between the refetch and the release; the row it read still says whether the
  lead has an order (others change only the status); the draft it holds belongs to its lead,
  is not linked and is not abandoned; a lead's unabandoned order is linked or held. From it
  follow `OneOrderPerLead`, `LinkedOrderIsOffered`, `NoEarlyOrder`, `LinkIsFinal` and the
  refinement `Spec => ConversionSpec`. `OneOrderPerLead` alone is not inductive: nothing in it
  says that the worker about to insert is alone.
* `OrderDispatch`. Rows in flight are as good as rows stored: `PaymentFitsStatus` is proved with
  the same statement about every `req[w].row` that a handler is going to write.
  `SettledToEntitled` needs that a call on its way to `settle` carries an entitled technician.
  `TechnicianKeepsOrder` is proved for one customer call and no administrator, any number of
  technicians and technician calls: the snapshots in flight either carry the winner or are held
  by the acceptance whose update will miss.
  `RecordedIsFinal` is proved for any number of confirmations: receipts are never taken back, and a
  confirmation that looks after one was inserted finds it, so once nobody is left who looked before,
  nobody inserts another. `OneReceipt` is proved for one customer call: only that call looks for a
  receipt, so nobody inserts one between its look and its insert. Two customer calls at once do
  record two (section 5), so no run checks it. `OpenOrderAnnounced` is proved, for any bounds, in the states before the first
  extra quote and the first failure: an order that is matching was announced, or a call is about
  to look for its receipt, record it or announce it; whoever writes matching turns into one of these.
  `PaymentForward` is proved for one call in flight at a time (`MaxInFlight = 1`): the row it is going
  to write takes the payment forward from what the order says, which nobody else changes.
* `ExtraQuotes`. A call about to insert a payment works for a quote that was approved, and one
  about to write `paid` has inserted its payment; statuses may be overwritten meanwhile, but
  approvals and payments are never taken back. `NoChargeUnapproved` and `PaidIsCharged` follow.
  `BillsOnlyCollected` is not inductive: a charge that has inserted its payment still has to bill it,
  and others write stale rows meanwhile. The invariant `BillInv` says that the order, and every row
  about to be written, stay within what was collected even with all that the calls in flight have
  still to bill. That sum over the calls is not defined by recursion
  but by how it grows: some function `f` on sets of calls is 0 on the empty set and grows by a
  call's due with each call (`Totals`). When a call changes what it has to bill, a new `f` is made
  from the old one (`Retotal`), so no induction over the set is needed. It also gives the refinement
  `Spec => BillingSpec`, whose `Rebill` is any `Replace`, however old its row. `BillsAllCollected` and
  `ClosedStaysClosed` follow from what the only call of a serial course knows (`SerialInv`).
* `TechnicianRegistry`. `AdmitsOnlyApproved` is proved with the same statement about the table and
  about what every call in flight has loaded so far: the copy of a call may be old, but nobody in
  it was approved by anyone but an administrator. `CopyAgrees` and `ReviewsApplicantsOnly` follow
  from what the only call in flight relies on: until it writes, copy and tables agree, and while
  it loads, what it has read is what the tables hold less the child tables still to come.
  `RegistrationComplete` follows from a call being on its way to every child row that is missing.
* `Settlements`. A call about to store its answer has confirmed (or cancelled) what it answers for,
  and neither is ever taken back: `AnswersAreTrue`. Once an answer is stored it stays, so a call
  that looks its key up ends there, and nobody else is past the lookup: `AnsweredIsFinal`. The
  status paid is only written together with its date, and only a completion takes the date back:
  `PaidStaysShown`. For calls that do not overlap, the only call in flight has at hand what the
  tables say, and an unanswered key has confirmed at most once per failure: `RetriesAreFailures` and
  `PayoutAddsUp`, for any amounts and adjustments.
* `Members`. For any interleaving: sign-up coupons have different owners, a registration that is
  about to answer has its coupon, and ids are used once (`CouponInv`): `OneSignupCoupon`. An address
  keeps its owner until it is deleted, and the delete takes the assets off it, so what a call saw
  before it writes still holds or the address is gone (`HomeInv`): `AssetAtHome`. For calls that do
  not overlap (`RegularInv`): `OneDefaultAddress`, `SpentOnce` and `RegisteredGetsIn`, of which the last
  needs that phones are unique per table and that a registration only upserts onto a row without
  a password.
* `Catalog`. A new row is inserted by one call alone, a patch in flight is the memory's row or the item is
  doubtful, and memory has nothing the table lacks: `SoldAsStored`. The seed goes from the first
  product to the last add-on or was cut off: `StartsWithProducts`.
* `DispatchOffers`. Rejections are never taken back, so those a listing found in the log when it
  began are among those it hides: `RejectedStaysAway`. While nothing interferes, each step of an
  announcement has told, logged and pushed to exactly those of the technicians it was meant for
  whom it has come to (`Tells`): `TakersAreTold`.
* `MaterialMarket`. `StockAddsUp` compares stock, what open orders hold and what was put on stock by
  hand when no call is in flight, so it says nothing while one moves units and is not inductive.
  `MarketInv` adds, for calls that do not overlap, what the only call has still to give back to the
  stock or to take from it (`Owed`): at every step stock, holdings and that debt make up what was
  supplied (`Balance`), and a call that ends owes nothing. For this the call's reads are what the
  table holds (`Buying`, `Cancelling`), and an order whose items are not written has none (`Entered`).
  In any course, what is in a basket or on an order was offered once (`Known`), and only finitely many
  orders are in use. The units held are the library's fold over a set of orders. What it computes
  is shown without the induction theorems: a function on the subsets that grows by
  one summand at a time (`Additive`) exists and agrees with the fold, since among the subsets where
  it did not there would be a smallest (`SmallestBad`, from `WFMin`). From this come `SumSame` and
  `SumWithout`, by which a step that changes one order changes the sum by that order's part.
  `HiddenStaysHidden` uses the same invariant: a restore on its own writes back the status it has
  just read (active for sold out), and a purchase on its own touches only what it saw on sale.

`LinkIsFinal`, `ReviewsApplicantsOnly`, `NoChargeUnapproved` and `OneReceipt` are proved and in no run.

Only model-checked: liveness (`LateLeadConverted`, `StatusRepaired`), which needs fairness and is
out of the prover's reach.

## 7. Not modelled

* Prices and fees (but for the fee of a settlement): arithmetic on one row, planned as operators.
* Reviews of orders: an upsert by order id; rewards and the logs are append-only and read by
  nobody to decide. Dashboards and lists are reads.
* Messages to customers: the same loop as those to technicians, for one receiver.
* Object storage, headers and passwords of administrators, static files: I/O without state another
  component reads. The pages under `public/` are clients of these calls.
* The server without a database, which refuses every write.
