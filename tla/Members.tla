------------------------------ MODULE Members ------------------------------
(***************************************************************************)
(* Members and sellers: registration with its sign-up coupon, log-in,      *)
(* addresses, air conditioners and coupons (AdminService).                 *)
(*                                                                         *)
(* Every statement on the tables is a step; the reads a call does before   *)
(* its first write are one.  Names, memos and amounts are left out, and so *)
(* are the append-only logs, the reviews of orders and the technicians,    *)
(* who log in after members and sellers.                                   *)
(***************************************************************************)
EXTENDS Naturals, FiniteSets

CONSTANTS
    Accounts,         \* ids of members and seller_applications, never used twice
    Phones,
    Passwords,
    Coupons,
    Addresses,
    Assets,           \* air conditioners
    Nobody,           \* none of the above; the owner of a row not inserted yet
    Gone,             \* the owner of a row that was deleted
    Calls,            \* calls that may be in flight
    MaxArrivals,      \* bound: calls that arrive in a behaviour
    MaxInFlight,      \* bound: calls in flight at once
    MaxFailures       \* bound: statements that fail in a behaviour

ASSUME MembersAssumption ==
    /\ Nobody \notin Accounts \cup Passwords \cup Coupons \cup Addresses \cup Assets
    /\ Gone \notin Accounts \cup {Nobody}
    /\ Phones # {}
    /\ MaxArrivals \in Nat
    /\ MaxFailures \in Nat

VARIABLES
    account,    \* members and seller_applications
    coupon,     \* coupons
    address,    \* user_addresses
    asset,      \* aircon_assets
    req,        \* the calls in flight
    arrived,    \* calls that have arrived
    failures,   \* statements that failed so far
    told,       \* history: the password an account's holder was last told is his
    welcomed,   \* history: members whose registration was answered
    spent,      \* history: uses of a coupon since it was last made active
    course      \* history: regular until calls overlap

vars == <<account, coupon, address, asset, req, arrived, failures, told, welcomed, spent, course>>

tables == <<account, coupon, address, asset>>

history == <<told, welcomed, spent>>

Kinds == {"member", "seller"}

Roles == {"customer", "admin", "seller"}

\* inactive stands for banned, approved for whatever a seller is but pending.
StatusesOf(kind) == IF kind = "member" THEN {"active", "inactive"} ELSE {"pending", "approved"}

Account == [state: {"none", "live", "gone"}, kind: Kinds, phone: Phones, role: Roles,
            status: StatusesOf("member") \cup StatusesOf("seller"),
            password: Passwords \cup {Nobody}]

Owners == Accounts \cup {Nobody, Gone}

CouponStatuses == {"active", "used", "expired", "cancelled"}

Coupon == [owner: Owners, type: {"signup", "manual"}, status: CouponStatuses]

Address == [owner: Owners, default: {"yes", "no"}]

Asset == [owner: Owners, address: Addresses \cup {Nobody}]

\* What a call is about to do.
Steps == {"idle", "upsert", "coupon", "issue", "raced", "answer", "use",
          "clear", "place", "unplace", "keep", "discard"}

\* id: the address or the asset that is written, nobody for a new one;
\* at: the address an asset is put at;  default: of an address.
Req == [pc: Steps, kind: Kinds, phone: Phones, password: Passwords \cup {Nobody},
        owner: Accounts \cup {Nobody}, id: Addresses \cup Assets \cup Coupons \cup {Nobody},
        at: Addresses \cup {Nobody}, default: {"yes", "no"}]

AnyPhone == CHOOSE p \in Phones : TRUE

Idle == [pc |-> "idle", kind |-> "member", phone |-> AnyPhone, password |-> Nobody,
         owner |-> Nobody, id |-> Nobody, at |-> Nobody, default |-> "no"]

TypeOK ==
    /\ account \in [Accounts -> Account]
    /\ coupon \in [Coupons -> Coupon]
    /\ address \in [Addresses -> Address]
    /\ asset \in [Assets -> Asset]
    /\ req \in [Calls -> Req]
    /\ arrived \in 0..MaxArrivals
    /\ failures \in 0..MaxFailures
    /\ told \in [Accounts -> Passwords \cup {Nobody}]
    /\ welcomed \in SUBSET Accounts
    /\ spent \in [Coupons -> Nat]
    /\ course \in {"regular", "irregular"}

Unborn == [state |-> "none", kind |-> "member", phone |-> AnyPhone, role |-> "customer",
           status |-> "active", password |-> Nobody]

Init ==
    /\ account = [a \in Accounts |-> Unborn]
    /\ coupon = [c \in Coupons |-> [owner |-> Nobody, type |-> "manual", status |-> "active"]]
    /\ address = [d \in Addresses |-> [owner |-> Nobody, default |-> "no"]]
    /\ asset = [s \in Assets |-> [owner |-> Nobody, address |-> Nobody]]
    /\ req = [w \in Calls |-> Idle]
    /\ arrived = 0
    /\ failures = 0
    /\ told = [a \in Accounts |-> Nobody]
    /\ welcomed = {}
    /\ spent = [c \in Coupons |-> 0]
    /\ course = "regular"

-----------------------------------------------------------------------------
(* Helpers *)

At(w, pc) == req[w].pc = pc

InFlight == {w \in Calls : ~At(w, "idle")}

Live(a) == account[a].state = "live"

Member(a) == Live(a) /\ account[a].kind = "member"

\* Phones are unique among members and among sellers.
Holders(kind, phone) == {a \in Accounts : Live(a) /\ account[a].kind = kind /\ account[a].phone = phone}

SignupCoupons(a) == {c \in Coupons : coupon[c].owner = a /\ coupon[c].type = "signup"}

Owned(table, a) == {k \in DOMAIN table : table[k].owner = a}

\* The rows of a new member and of a new seller.
MemberRow(phone, role, password) ==
    [state |-> "live", kind |-> "member", phone |-> phone, role |-> role,
     status |-> "active", password |-> password]

SellerRow(phone, status, password) ==
    [state |-> "live", kind |-> "seller", phone |-> phone, role |-> "seller",
     status |-> status, password |-> password]

\* A call arrives; whether it goes on is up to what it reads first.
Arrive(w) ==
    /\ At(w, "idle")
    /\ Cardinality(InFlight) < MaxInFlight
    /\ arrived < MaxArrivals
    /\ arrived' = arrived + 1
    /\ course' = IF InFlight = {} THEN course ELSE "irregular"

Enter(w, call) == Arrive(w) /\ req' = [req EXCEPT ![w] = call]

Goto(w, pc) == req' = [req EXCEPT ![w].pc = pc]

Finish(w) == req' = [req EXCEPT ![w] = Idle]

\* unifiedSession: a member's phone and password, else a seller's.
Session(phone, password) ==
    LET members == Holders("member", phone)
        asked == IF members # {} THEN members ELSE Holders("seller", phone)
    IN {a \in asked : /\ account[a].password = password
                      /\ account[a].kind = "member" => account[a].status = "active"}

-----------------------------------------------------------------------------
(* Registration *)

\* A bug: whoever registers again takes the account over.
RegisterAgain(w) ==
    /\ \E kind \in Kinds, phone \in Phones, password \in Passwords :
         Enter(w, [Idle EXCEPT !.pc = "upsert", !.kind = kind, !.phone = phone,
                               !.password = password])
    /\ UNCHANGED <<tables, failures, history>>

\* registerMember, registerSeller: an account without a password may be taken over,
\* but not that of an administrator.
RegisterRead(w) ==
    /\ \E kind \in Kinds, phone \in Phones, password \in Passwords :
         /\ \A a \in Holders(kind, phone) : /\ account[a].password = Nobody
                                            /\ account[a].role # "admin"
         /\ Enter(w, [Idle EXCEPT !.pc = "upsert", !.kind = kind, !.phone = phone,
                                  !.password = password])
    /\ UNCHANGED <<tables, failures, history>>

\* The upsert finds its row by the phone.
Upsert(w) ==
    LET kind == req[w].kind
        phone == req[w].phone
    IN
    /\ At(w, "upsert")
    /\ \E a \in IF Holders(kind, phone) # {} THEN Holders(kind, phone)
                  ELSE {n \in Accounts : account[n].state = "none"} :
         /\ account' = [account EXCEPT ![a] =
                          IF kind = "member" THEN MemberRow(phone, "customer", req[w].password)
                            ELSE SellerRow(phone, "pending", req[w].password)]
         /\ req' = [req EXCEPT ![w].pc = IF kind = "member" THEN "coupon" ELSE "answer",
                               ![w].owner = a]
    /\ UNCHANGED <<coupon, address, asset, arrived, failures, history, course>>

CouponRead(w) ==
    /\ At(w, "coupon")
    /\ Goto(w, IF SignupCoupons(req[w].owner) = {} THEN "issue" ELSE "answer")
    /\ UNCHANGED <<tables, arrived, failures, history, course>>

NewCoupon(a, type) ==
    \E c \in Coupons :
        /\ coupon[c].owner = Nobody
        /\ coupon' = [coupon EXCEPT ![c] = [owner |-> a, type |-> type, status |-> "active"]]

\* A bug: nothing keeps a member from a second sign-up coupon.
IssueAgain(w) ==
    /\ At(w, "issue")
    /\ IF Live(req[w].owner)
         THEN NewCoupon(req[w].owner, "signup") /\ Goto(w, "answer")
         ELSE Goto(w, "raced") /\ UNCHANGED coupon
    /\ UNCHANGED <<account, address, asset, arrived, failures, history, course>>

\* The insert meets uq_coupons_signup_once and the reference to the member; ...
Issue(w) ==
    /\ At(w, "issue")
    /\ IF Live(req[w].owner) /\ SignupCoupons(req[w].owner) = {}
         THEN NewCoupon(req[w].owner, "signup") /\ Goto(w, "answer")
         ELSE Goto(w, "raced") /\ UNCHANGED coupon
    /\ UNCHANGED <<account, address, asset, arrived, failures, history, course>>

\* ... if it fails, the coupon another call issued will do.
Raced(w) ==
    /\ At(w, "raced")
    /\ IF SignupCoupons(req[w].owner) # {} THEN Goto(w, "answer") ELSE Finish(w)
    /\ UNCHANGED <<tables, arrived, failures, history, course>>

Answer(w) ==
    /\ At(w, "answer")
    /\ told' = [told EXCEPT ![req[w].owner] = req[w].password]
    /\ welcomed' = IF req[w].kind = "member" THEN welcomed \cup {req[w].owner} ELSE welcomed
    /\ Finish(w)
    /\ UNCHANGED <<tables, arrived, failures, spent, course>>

-----------------------------------------------------------------------------
(* Coupons *)

\* A bug: a coupon may be used whatever has become of it.
UseAny(w) ==
    /\ \E c \in Coupons : /\ coupon[c].owner \in Accounts
                          /\ Enter(w, [Idle EXCEPT !.pc = "use", !.id = c])
    /\ UNCHANGED <<tables, failures, history>>

\* useMemberCoupon looks at the coupon ...
UseRead(w) ==
    /\ \E c \in Coupons : /\ coupon[c].owner \in Accounts
                          /\ coupon[c].status = "active"
                          /\ Enter(w, [Idle EXCEPT !.pc = "use", !.id = c])
    /\ UNCHANGED <<tables, failures, history>>

\* ... and marks it whatever it is by then.
Use(w) ==
    LET c == req[w].id IN
    /\ At(w, "use")
    /\ IF coupon[c].owner \in Accounts
         THEN /\ coupon' = [coupon EXCEPT ![c].status = "used"]
              /\ spent' = [spent EXCEPT ![c] = @ + 1]
         ELSE UNCHANGED <<coupon, spent>>
    /\ Finish(w)
    /\ UNCHANGED <<account, address, asset, arrived, failures, told, welcomed, course>>

\* createCoupon; updateCoupon and deleteCoupon take any status.
IssueByAdmin(w) ==
    /\ Arrive(w)
    /\ \E a \in Accounts, type \in {"signup", "manual"} :
         /\ Member(a)
         /\ type = "signup" => SignupCoupons(a) = {}
         /\ NewCoupon(a, type)
    /\ UNCHANGED <<account, address, asset, req, failures, history>>

ChangeCoupon(w) ==
    /\ Arrive(w)
    /\ \E c \in Coupons, status \in CouponStatuses :
         /\ coupon[c].owner \in Accounts
         /\ coupon' = [coupon EXCEPT ![c].status = status]
         /\ spent' = IF status = "active" THEN [spent EXCEPT ![c] = 0] ELSE spent
    /\ UNCHANGED <<account, address, asset, req, failures, told, welcomed>>

-----------------------------------------------------------------------------
(* Addresses and air conditioners *)

\* createMemberAddress, updateMemberAddress, deleteMemberAddress: of the member's
\* own addresses.
AddressRead(w) ==
    /\ \E a \in Accounts, default \in {"yes", "no"} :
         /\ Member(a)
         /\ \E d \in Owned(address, a) \cup {Nobody} :
              LET call == [Idle EXCEPT !.owner = a, !.id = d, !.default = default] IN
              \/ Enter(w, [call EXCEPT !.pc = IF default = "yes" THEN "clear" ELSE "place"])
              \/ d # Nobody /\ Enter(w, [call EXCEPT !.pc = "unplace"])
    /\ UNCHANGED <<tables, failures, history>>

\* A bug: an address that is new leaves the default as it is.
ClearForUpdate(w) ==
    /\ At(w, "clear")
    /\ address' = [d \in Addresses |->
                     IF address[d].owner = req[w].owner /\ req[w].id \notin {d, Nobody}
                       THEN [address[d] EXCEPT !.default = "no"] ELSE address[d]]
    /\ Goto(w, "place")
    /\ UNCHANGED <<account, coupon, asset, arrived, failures, history, course>>

\* clearOtherDefaultAddresses.
ClearDefaults(w) ==
    /\ At(w, "clear")
    /\ address' = [d \in Addresses |->
                     IF address[d].owner = req[w].owner /\ d # req[w].id
                       THEN [address[d] EXCEPT !.default = "no"] ELSE address[d]]
    /\ Goto(w, "place")
    /\ UNCHANGED <<account, coupon, asset, arrived, failures, history, course>>

\* The insert fails when the member is gone, the update when the address is.
Place(w) ==
    LET a == req[w].owner
        row == [owner |-> a, default |-> req[w].default]
    IN
    /\ At(w, "place")
    /\ \/ /\ req[w].id = Nobody /\ Live(a)
          /\ \E d \in Addresses : address[d].owner = Nobody /\ address' = [address EXCEPT ![d] = row]
       \/ /\ req[w].id # Nobody /\ address[req[w].id].owner = a
          /\ address' = [address EXCEPT ![req[w].id] = row]
       \/ /\ IF req[w].id = Nobody THEN ~Live(a) ELSE address[req[w].id].owner # a
          /\ UNCHANGED address
    /\ Finish(w)
    /\ UNCHANGED <<account, coupon, asset, arrived, failures, history, course>>

\* Assets at an address that is deleted are at none (ON DELETE SET NULL).
Unplace(w) ==
    /\ At(w, "unplace")
    /\ address' = [address EXCEPT ![req[w].id] = [owner |-> Gone, default |-> "no"]]
    /\ asset' = [s \in Assets |-> IF asset[s].address = req[w].id
                                    THEN [asset[s] EXCEPT !.address = Nobody] ELSE asset[s]]
    /\ Finish(w)
    /\ UNCHANGED <<account, coupon, arrived, failures, history, course>>

\* A bug: an asset is put at any address.
AssetAnywhere(w) ==
    /\ \E a \in Accounts :
         /\ Member(a)
         /\ \E s \in Owned(asset, a) \cup {Nobody}, d \in {x \in Addresses : address[x].owner \in Accounts} :
              Enter(w, [Idle EXCEPT !.pc = "keep", !.owner = a, !.id = s, !.at = d])
    /\ UNCHANGED <<tables, failures, history>>

\* createAirconAsset, updateAirconAsset, deleteAirconAsset: of the member's own
\* assets, at one of his addresses or at none.
AssetRead(w) ==
    /\ \E a \in Accounts :
         /\ Member(a)
         /\ \E s \in Owned(asset, a) \cup {Nobody}, d \in Owned(address, a) \cup {Nobody} :
              LET call == [Idle EXCEPT !.owner = a, !.id = s, !.at = d] IN
              \/ Enter(w, [call EXCEPT !.pc = "keep"])
              \/ s # Nobody /\ d = Nobody /\ Enter(w, [call EXCEPT !.pc = "discard"])
    /\ UNCHANGED <<tables, failures, history>>

\* Insert or update, unless what the row refers to or the row itself is gone.
KeepAsset(w) ==
    LET a == req[w].owner
        d == req[w].at
        possible == /\ d = Nobody \/ address[d].owner \in Accounts
                    /\ IF req[w].id = Nobody THEN Live(a) ELSE asset[req[w].id].owner = a
    IN
    /\ At(w, "keep")
    /\ IF possible
         THEN \E s \in IF req[w].id = Nobody THEN Owned(asset, Nobody) ELSE {req[w].id} :
                asset' = [asset EXCEPT ![s] = [owner |-> a, address |-> d]]
         ELSE UNCHANGED asset
    /\ Finish(w)
    /\ UNCHANGED <<account, coupon, address, arrived, failures, history, course>>

DiscardAsset(w) ==
    /\ At(w, "discard")
    /\ asset' = [asset EXCEPT ![req[w].id] = [owner |-> Gone, address |-> Nobody]]
    /\ Finish(w)
    /\ UNCHANGED <<account, coupon, address, arrived, failures, history, course>>

-----------------------------------------------------------------------------
(* Administrators *)

\* createMember, which needs no password.
CreateMember(w) ==
    /\ Arrive(w)
    /\ \E a \in Accounts, phone \in Phones, password \in Passwords \cup {Nobody},
          role \in {"customer", "admin"} :
         /\ account[a].state = "none"
         /\ Holders("member", phone) = {}
         /\ account' = [account EXCEPT ![a] = MemberRow(phone, role, password)]
         /\ told' = [told EXCEPT ![a] = password]
    /\ UNCHANGED <<coupon, address, asset, req, failures, welcomed, spent>>

CreateSeller(w) ==
    /\ Arrive(w)
    /\ \E a \in Accounts, phone \in Phones, password \in Passwords, status \in StatusesOf("seller") :
         /\ account[a].state = "none"
         /\ Holders("seller", phone) = {}
         /\ account' = [account EXCEPT ![a] = SellerRow(phone, status, password)]
         /\ told' = [told EXCEPT ![a] = password]
    /\ UNCHANGED <<coupon, address, asset, req, failures, welcomed, spent>>

\* One column of an account of either kind.
Edited(a) ==
    {[account[a] EXCEPT !.phone = phone] :
        phone \in {p \in Phones : Holders(account[a].kind, p) = {}}}
        \cup {[account[a] EXCEPT !.status = status] : status \in StatusesOf(account[a].kind)}
        \cup {[account[a] EXCEPT !.password = password] : password \in Passwords}

\* Whoever changes the password tells the holder.
Edit(a, row) ==
    /\ account' = [account EXCEPT ![a] = row]
    /\ told' = [told EXCEPT ![a] = IF row.password # account[a].password THEN row.password ELSE @]

UpdateMember(w) ==
    /\ Arrive(w)
    /\ \E a \in Accounts :
         /\ Member(a)
         /\ \E row \in Edited(a)
                     \cup {[account[a] EXCEPT !.role = role] : role \in {"customer", "admin"}} :
              Edit(a, row)
    /\ UNCHANGED <<coupon, address, asset, req, failures, welcomed, spent>>

UpdateSeller(w) ==
    /\ Arrive(w)
    /\ \E a \in Accounts :
         /\ Live(a) /\ account[a].kind = "seller"
         /\ \E row \in Edited(a) : Edit(a, row)
    /\ UNCHANGED <<coupon, address, asset, req, failures, welcomed, spent>>

\* deleteMember, deleteSeller: what refers to a member is deleted with him.
DeleteAccount(w) ==
    /\ Arrive(w)
    /\ \E a \in Accounts :
         /\ Live(a)
         /\ account' = [account EXCEPT ![a].state = "gone"]
         /\ coupon' = [c \in Coupons |-> IF coupon[c].owner = a
                                           THEN [coupon[c] EXCEPT !.owner = Gone] ELSE coupon[c]]
         /\ address' = [d \in Addresses |-> IF address[d].owner = a
                                              THEN [owner |-> Gone, default |-> "no"] ELSE address[d]]
         /\ asset' = [s \in Assets |-> IF asset[s].owner = a
                                         THEN [owner |-> Gone, address |-> Nobody] ELSE asset[s]]
    /\ UNCHANGED <<req, failures, history>>

\* A statement fails: the caller gets an error, what was written remains.
Fail(w) ==
    /\ ~At(w, "idle")
    /\ failures < MaxFailures
    /\ failures' = failures + 1
    /\ Finish(w)
    /\ UNCHANGED <<tables, arrived, history, course>>

-----------------------------------------------------------------------------
(* Specification *)

Register(w) == RegisterRead(w) \/ Upsert(w) \/ CouponRead(w) \/ Issue(w) \/ Raced(w) \/ Answer(w)

Household(w) ==
    \/ AddressRead(w) \/ ClearDefaults(w) \/ Place(w) \/ Unplace(w)
    \/ AssetRead(w) \/ KeepAsset(w) \/ DiscardAsset(w)

Redeem(w) == UseRead(w) \/ Use(w)

Admin(w) ==
    \/ CreateMember(w) \/ UpdateMember(w) \/ CreateSeller(w) \/ UpdateSeller(w)
    \/ DeleteAccount(w) \/ IssueByAdmin(w) \/ ChangeCoupon(w)

Next == \E w \in Calls : Register(w) \/ Household(w) \/ Redeem(w) \/ Admin(w) \/ Fail(w)

Spec == Init /\ [][Next]_vars

-----------------------------------------------------------------------------
(* Properties *)

\* However registrations, administrators and deletions overlap, a member has at
\* most one sign-up coupon, and whose registration was answered has one.
OneSignupCoupon ==
    \A a \in Accounts :
        /\ Cardinality(SignupCoupons(a)) <= 1
        /\ a \in welcomed /\ Live(a) => SignupCoupons(a) # {}

\* An air conditioner is at an address of its owner, although addresses, assets and
\* members are deleted between the check of the owner and the write.
AssetAtHome ==
    \A s \in Assets : asset[s].address # Nobody => address[asset[s].address].owner = asset[s].owner

\* As long as calls do not overlap, a member has one default address at most, also
\* when a statement fails.
OneDefaultAddress ==
    course = "regular" =>
        \A a \in Accounts : Cardinality({d \in Owned(address, a) : address[d].default = "yes"}) <= 1

\* Under the same condition a coupon is used once until an administrator makes it
\* active again.
SpentOnce == course = "regular" => \A c \in Coupons : spent[c] <= 1

\* Under the same condition whoever was told that a password is his gets into his
\* account with it until an administrator changes that: nobody takes the account
\* over.  A member who has the phone of a seller stands before him, and members
\* must be active.
RegisteredGetsIn ==
    \A a \in Accounts :
        /\ course = "regular"
        /\ Live(a)
        /\ told[a] # Nobody
        /\ IF account[a].kind = "member" THEN account[a].status = "active"
             ELSE Holders("member", account[a].phone) = {}
        => Session(account[a].phone, told[a]) = {a}
=============================================================================
