--------------------------- MODULE Members_proofs ---------------------------
(***************************************************************************)
(* Proofs about Members, for any accounts, phones, passwords, coupons,     *)
(* addresses, air conditioners, calls and bounds.                          *)
(*                                                                         *)
(* The inductive invariant comes in four parts, each proved from the ones  *)
(* before it: TypeInv, CouponInv, HomeInv and RegularInv.                  *)
(***************************************************************************)
EXTENDS Members, FiniteSetTheorems, TLAPS

USE DEF tables, history

-----------------------------------------------------------------------------
(* The inductive invariant *)

\* Steps of a registration that has its account.
Registering == {"coupon", "issue", "raced", "answer"}

\* Steps of a call about something an account owns.
Owning == {"clear", "place", "keep"}

\* What a call has loaded is of the kind its step is about.
CallOK(c) ==
    /\ c \in Req
    /\ c.pc = "upsert" => c.password \in Passwords
    /\ c.pc \in Registering => c.owner \in Accounts /\ c.password \in Passwords
    /\ c.pc \in Owning => c.owner \in Accounts
    /\ c.pc = "use" => c.id \in Coupons
    /\ c.pc \in {"clear", "place"} => c.id \in Addresses \cup {Nobody}
    /\ c.pc = "unplace" => c.id \in Addresses
    /\ c.pc = "keep" => c.id \in Assets \cup {Nobody}
    /\ c.pc = "discard" => c.id \in Assets

TypeInv == TypeOK /\ \A w \in Calls : CallOK(req[w])

\* Whoever registers, is welcomed or is told a password has a row, or had one.
Born ==
    \A a \in Accounts : account[a].state = "none" =>
        /\ a \notin welcomed
        /\ told[a] = Nobody
        /\ \A w \in Calls : req[w].pc \in Registering => req[w].owner # a

\* Two sign-up coupons have two owners.
SignupUnique ==
    \A c, d \in Coupons :
        /\ coupon[c].type = "signup" /\ coupon[d].type = "signup"
        /\ coupon[c].owner = coupon[d].owner /\ coupon[c].owner \in Accounts
        => c = d

\* A member has his coupon before he is answered, and keeps it.
Served(a) == Live(a) => SignupCoupons(a) # {}

CouponInv ==
    /\ Born
    /\ SignupUnique
    /\ \A a \in welcomed : Served(a)
    /\ \A w \in Calls : At(w, "answer") /\ req[w].kind = "member" => Served(req[w].owner)

\* Whoever has an asset at an address has the address, ...
Placed == \A s \in Assets : asset[s].address # Nobody =>
              /\ asset[s].owner \in Accounts
              /\ address[asset[s].address].owner = asset[s].owner

\* ... which was his when the call looked, and nobody else has had it since.
HomeInv ==
    /\ Placed
    /\ \A w \in Calls : At(w, "keep") /\ req[w].at # Nobody =>
           address[req[w].at].owner \in {req[w].owner, Gone}

\* A phone is that of one member and of one seller.
PhoneUnique ==
    \A a, b \in Accounts :
        Live(a) /\ Live(b) /\ account[a].kind = account[b].kind /\ account[a].phone = account[b].phone
            => a = b

\* One call at a time.
Alone == \A v, w \in Calls : ~At(v, "idle") /\ ~At(w, "idle") => v = w

\* Who has a default address has no other, and none when a call is about to set one.
Defaults ==
    /\ \A d, e \in Addresses :
          /\ address[d].default = "yes" /\ address[e].default = "yes"
          /\ address[d].owner = address[e].owner /\ address[d].owner \in Accounts
          => d = e
    /\ \A w \in Calls : At(w, "place") /\ req[w].default = "yes" =>
          \A d \in Addresses : address[d].owner = req[w].owner /\ d # req[w].id
                                  => address[d].default = "no"

\* A coupon that is active was not used, also as the call that uses it saw it.
Unused ==
    /\ \A c \in Coupons :
          /\ spent[c] <= 1
          /\ coupon[c].status = "active" \/ coupon[c].owner = Nobody => spent[c] = 0
    /\ \A w \in Calls : At(w, "use") => coupon[req[w].id].status = "active"

\* A live account has the password its holder was told, and a registration is about
\* to tell him that of its account.
Known ==
    /\ \A a \in Accounts : Live(a) /\ told[a] # Nobody => account[a].password = told[a]
    /\ \A w \in Calls :
          /\ At(w, "upsert") => \A a \in Holders(req[w].kind, req[w].phone) : account[a].password = Nobody
          /\ req[w].pc \in Registering => account[req[w].owner].password = req[w].password

RegularInv ==
    /\ PhoneUnique
    /\ course = "regular" => Alone /\ Defaults /\ Unused /\ Known

-----------------------------------------------------------------------------
(* Types *)

\* There is some phone, so that a call not in flight and an account not yet born
\* are of their types.
LEMMA IdleOK == CallOK(Idle) /\ AnyPhone \in Phones /\ Unborn \in Account
<1>1. AnyPhone \in Phones
  BY MembersAssumption DEF AnyPhone
<1> QED BY <1>1 DEF CallOK, Idle, Req, Steps, Kinds, Registering, Owning, Unborn, Account, Roles, StatusesOf

\* When one call moves, to a record that fits its step, all records fit theirs.
LEMMA MoveType ==
    ASSUME TypeInv, NEW w \in Calls, NEW c, CallOK(c), req' = [req EXCEPT ![w] = c]
    PROVE  req' \in [Calls -> Req] /\ \A v \in Calls : CallOK(req'[v])
<1>1. req \in [Calls -> Req] /\ c \in Req /\ \A v \in Calls : CallOK(req[v])
  BY DEF TypeInv, TypeOK, CallOK
<1>2. \A v \in Calls : req'[v] = IF v = w THEN c ELSE req[v]
  BY <1>1
<1> QED BY <1>1, <1>2

\* So they do when a call ends.
LEMMA FinishType ==
    ASSUME TypeInv, NEW w \in Calls, Finish(w)
    PROVE  req' \in [Calls -> Req] /\ \A v \in Calls : CallOK(req'[v])
  BY MoveType, IdleOK DEF Finish

\* A call that arrives counts, and goes on as its first read lets it.
LEMMA EnterType ==
    ASSUME TypeInv, NEW w \in Calls, NEW c, CallOK(c), Enter(w, c),
           UNCHANGED <<tables, failures, history>>
    PROVE  TypeInv'
<1>1. req' \in [Calls -> Req] /\ \A v \in Calls : CallOK(req'[v])
  BY MoveType DEF Enter
<1>2. arrived' \in 0..MaxArrivals /\ course' \in {"regular", "irregular"}
  BY MembersAssumption DEF Enter, Arrive, TypeInv, TypeOK
<1> QED BY <1>1, <1>2 DEF TypeInv, TypeOK

\* Nothing but the record of a call and one row may change in a step.
LEMMA StepType ==
    ASSUME TypeInv, req' \in [Calls -> Req], \A v \in Calls : CallOK(req'[v]),
           account' \in [Accounts -> Account], coupon' \in [Coupons -> Coupon],
           address' \in [Addresses -> Address], asset' \in [Assets -> Asset],
           arrived' \in 0..MaxArrivals, failures' \in 0..MaxFailures,
           told' \in [Accounts -> Passwords \cup {Nobody}], welcomed' \in SUBSET Accounts,
           spent' \in [Coupons -> Nat], course' \in {"regular", "irregular"}
    PROVE  TypeInv'
  BY DEF TypeInv, TypeOK

\* The rows a registration or an administrator writes are accounts.
LEMMA RowType ==
    ASSUME NEW phone \in Phones, NEW password \in Passwords \cup {Nobody}
    PROVE  /\ \A role \in {"customer", "admin"} : MemberRow(phone, role, password) \in Account
           /\ \A status \in StatusesOf("seller") : SellerRow(phone, status, password) \in Account
  BY DEF MemberRow, SellerRow, Account, Kinds, Roles, StatusesOf

\* A coupon that is issued is one.
LEMMA NewCouponType ==
    ASSUME TypeInv, NEW a \in Accounts, NEW type \in {"signup", "manual"}, NewCoupon(a, type)
    PROVE  coupon' \in [Coupons -> Coupon]
  BY DEF NewCoupon, TypeInv, TypeOK, Coupon, Owners, CouponStatuses

\* Registration keeps the types.
LEMMA RegisterType ==
    ASSUME TypeInv, NEW w \in Calls, Register(w)
    PROVE  TypeInv'
<1>t. TypeOK /\ CallOK(req[w]) /\ req[w] \in Req
  BY DEF TypeInv, CallOK
<1>g. ASSUME NEW pc \in Registering, req[w].pc \in Registering, Goto(w, pc)
      PROVE  req' \in [Calls -> Req] /\ \A v \in Calls : CallOK(req'[v])
  <2>1. CallOK([req[w] EXCEPT !.pc = pc])
    BY <1>t, <1>g DEF CallOK, Req, Steps, Registering, Owning
  <2>2. req' = [req EXCEPT ![w] = [req[w] EXCEPT !.pc = pc]]
    BY <1>g, <1>t DEF Goto, TypeOK
  <2> QED BY <2>1, <2>2, MoveType
<1>1. CASE RegisterRead(w)
  <2>1. ASSUME NEW kind \in Kinds, NEW phone \in Phones, NEW password \in Passwords
        PROVE  CallOK([Idle EXCEPT !.pc = "upsert", !.kind = kind, !.phone = phone, !.password = password])
    BY IdleOK DEF CallOK, Idle, Req, Steps, Registering, Owning
  <2> QED BY <1>1, <2>1, EnterType DEF RegisterRead
<1>2. CASE Upsert(w)
  <2> DEFINE kind == req[w].kind
             row == IF kind = "member" THEN MemberRow(req[w].phone, "customer", req[w].password)
                      ELSE SellerRow(req[w].phone, "pending", req[w].password)
             step == IF kind = "member" THEN "coupon" ELSE "answer"
  <2>1. PICK a \in Accounts : /\ account' = [account EXCEPT ![a] = row]
                              /\ req' = [req EXCEPT ![w].pc = step, ![w].owner = a]
    BY <1>2 DEF Upsert, Holders
  <2>2. req[w].password \in Passwords /\ req[w].phone \in Phones /\ kind \in Kinds
    BY <1>2, <1>t DEF Upsert, At, CallOK, Req
  <2>3. row \in Account
    BY <2>2, RowType DEF StatusesOf
  <2>4. account' \in [Accounts -> Account]
    BY <1>t, <2>1, <2>3 DEF TypeOK
  <2>5. CallOK([req[w] EXCEPT !.pc = step, !.owner = a])
    BY <1>t, <2>2 DEF CallOK, Req, Steps, Registering, Owning
  <2>6. req' = [req EXCEPT ![w] = [req[w] EXCEPT !.pc = step, !.owner = a]]
    BY <2>1, <1>t DEF TypeOK
  <2>7. req' \in [Calls -> Req] /\ \A v \in Calls : CallOK(req'[v])
    BY <2>5, <2>6, MoveType
  <2> QED BY <1>2, <1>t, <2>4, <2>7, StepType DEF Upsert, TypeOK
<1>3. CASE CouponRead(w)
  <2>1. req' \in [Calls -> Req] /\ \A v \in Calls : CallOK(req'[v])
    BY <1>3, <1>g DEF CouponRead, At, Registering
  <2> QED BY <1>3, <1>t, <2>1, StepType DEF CouponRead, TypeOK
<1>4. CASE Issue(w)
  <2>1. req[w].owner \in Accounts
    BY <1>4, <1>t DEF Issue, At, CallOK, Registering
  <2>2. req' \in [Calls -> Req] /\ \A v \in Calls : CallOK(req'[v])
    BY <1>4, <1>g DEF Issue, At, Registering
  <2>3. coupon' \in [Coupons -> Coupon]
    BY <1>4, <1>t, <2>1, NewCouponType DEF Issue, TypeOK
  <2> QED BY <1>4, <1>t, <2>2, <2>3, StepType DEF Issue, TypeOK
<1>5. CASE Raced(w)
  <2>1. req' \in [Calls -> Req] /\ \A v \in Calls : CallOK(req'[v])
    BY <1>5, <1>g, FinishType DEF Raced, At, Registering
  <2> QED BY <1>5, <1>t, <2>1, StepType DEF Raced, TypeOK
<1>6. CASE Answer(w)
  <2>1. req[w].owner \in Accounts /\ req[w].password \in Passwords
    BY <1>6, <1>t DEF Answer, At, CallOK, Registering
  <2>2. req' \in [Calls -> Req] /\ \A v \in Calls : CallOK(req'[v])
    BY <1>6, FinishType DEF Answer
  <2>3. told' \in [Accounts -> Passwords \cup {Nobody}] /\ welcomed' \in SUBSET Accounts
    BY <1>6, <1>t, <2>1 DEF Answer, TypeOK
  <2> QED BY <1>6, <1>t, <2>2, <2>3, StepType DEF Answer, TypeOK
<1> QED BY <1>1, <1>2, <1>3, <1>4, <1>5, <1>6 DEF Register

\* So do the calls about addresses and air conditioners.
LEMMA HouseholdType ==
    ASSUME TypeInv, NEW w \in Calls, Household(w)
    PROVE  TypeInv'
<1>t. TypeOK /\ CallOK(req[w]) /\ req[w] \in Req
  BY DEF TypeInv, CallOK
<1>f. ASSUME Finish(w), address' \in [Addresses -> Address], asset' \in [Assets -> Asset],
             UNCHANGED <<account, coupon, arrived, failures, history, course>>
      PROVE  TypeInv'
  BY <1>f, <1>t, FinishType, StepType DEF TypeOK
<1>1. CASE AddressRead(w)
  <2>1. ASSUME NEW a \in Accounts, NEW default \in {"yes", "no"},
               NEW d \in Owned(address, a) \cup {Nobody},
               NEW pc \in {"clear", "place", "unplace"}, pc = "unplace" => d # Nobody
        PROVE  CallOK([Idle EXCEPT !.owner = a, !.id = d, !.default = default, !.pc = pc])
    <3>1. d \in Addresses \cup {Nobody}
      BY <1>t DEF Owned, TypeOK
    <3> QED BY <2>1, <3>1, IdleOK DEF CallOK, Idle, Req, Steps, Registering, Owning
  <2> QED BY <1>1, <2>1, EnterType DEF AddressRead
<1>2. CASE ClearDefaults(w)
  <2>1. address' \in [Addresses -> Address]
    BY <1>2, <1>t DEF ClearDefaults, TypeOK, Address
  <2>2. CallOK([req[w] EXCEPT !.pc = "place"])
    BY <1>2, <1>t DEF ClearDefaults, At, CallOK, Req, Steps, Registering, Owning
  <2>3. req' = [req EXCEPT ![w] = [req[w] EXCEPT !.pc = "place"]]
    BY <1>2, <1>t DEF ClearDefaults, Goto, TypeOK
  <2>4. req' \in [Calls -> Req] /\ \A v \in Calls : CallOK(req'[v])
    BY <2>2, <2>3, MoveType
  <2> QED BY <1>2, <1>t, <2>1, <2>4, StepType DEF ClearDefaults, TypeOK
<1>3. CASE Place(w)
  <2>1. /\ req[w].owner \in Accounts /\ req[w].default \in {"yes", "no"}
        /\ [owner |-> req[w].owner, default |-> req[w].default] \in Address
    BY <1>3, <1>t DEF Place, At, CallOK, Owning, Req, Address, Owners
  <2>2. address' \in [Addresses -> Address]
    BY <1>3, <1>t, <2>1 DEF Place, TypeOK
  <2> QED BY <1>3, <1>f, <1>t, <2>2 DEF Place, TypeOK
<1>4. CASE Unplace(w)
  <2>1. address' \in [Addresses -> Address]
    BY <1>4, <1>t DEF Unplace, TypeOK, Address, Owners
  <2>2. asset' \in [Assets -> Asset]
    BY <1>4, <1>t DEF Unplace, TypeOK, Asset
  <2> QED BY <1>4, <1>f, <2>1, <2>2 DEF Unplace
<1>5. CASE AssetRead(w)
  <2>1. ASSUME NEW a \in Accounts, NEW s \in Owned(asset, a) \cup {Nobody},
               NEW d \in Owned(address, a) \cup {Nobody},
               NEW pc \in {"keep", "discard"}, pc = "discard" => s # Nobody
        PROVE  CallOK([Idle EXCEPT !.owner = a, !.id = s, !.at = d, !.pc = pc])
    <3>1. d \in Addresses \cup {Nobody} /\ s \in Assets \cup {Nobody}
      BY <1>t DEF Owned, TypeOK
    <3> QED BY <2>1, <3>1, IdleOK DEF CallOK, Idle, Req, Steps, Registering, Owning
  <2> QED BY <1>5, <2>1, EnterType DEF AssetRead
<1>6. CASE KeepAsset(w)
  <2>1. [owner |-> req[w].owner, address |-> req[w].at] \in Asset
    BY <1>6, <1>t DEF KeepAsset, At, CallOK, Owning, Req, Asset, Owners
  <2>2. asset' \in [Assets -> Asset]
    BY <1>6, <1>t, <2>1 DEF KeepAsset, TypeOK
  <2> QED BY <1>6, <1>f, <1>t, <2>2 DEF KeepAsset, TypeOK
<1>7. CASE DiscardAsset(w)
  <2>1. asset' \in [Assets -> Asset]
    BY <1>7, <1>t DEF DiscardAsset, TypeOK, Asset, Owners
  <2> QED BY <1>7, <1>f, <1>t, <2>1 DEF DiscardAsset, TypeOK
<1> QED BY <1>1, <1>2, <1>3, <1>4, <1>5, <1>6, <1>7 DEF Household

\* So does the use of a coupon.
LEMMA RedeemType ==
    ASSUME TypeInv, NEW w \in Calls, Redeem(w)
    PROVE  TypeInv'
<1>t. TypeOK /\ CallOK(req[w])
  BY DEF TypeInv
<1>1. CASE UseRead(w)
  <2>1. ASSUME NEW c \in Coupons PROVE CallOK([Idle EXCEPT !.pc = "use", !.id = c])
    BY IdleOK DEF CallOK, Idle, Req, Steps, Registering, Owning
  <2> QED BY <1>1, <2>1, EnterType DEF UseRead
<1>2. CASE Use(w)
  <2>1. req[w].id \in Coupons
    BY <1>2, <1>t DEF Use, At, CallOK
  <2>2. coupon' \in [Coupons -> Coupon]
    BY <1>2, <1>t, <2>1 DEF Use, TypeOK, Coupon, CouponStatuses
  <2>3. spent' \in [Coupons -> Nat]
    <3>1. spent \in [Coupons -> Nat] /\ spent[req[w].id] + 1 \in Nat
      BY <1>t, <2>1 DEF TypeOK
    <3> QED BY <1>2, <3>1 DEF Use
  <2> QED BY <1>2, <1>t, <2>2, <2>3, FinishType, StepType DEF Use, TypeOK
<1> QED BY <1>1, <1>2 DEF Redeem

\* So do the calls of administrators.
LEMMA AdminType ==
    ASSUME TypeInv, NEW w \in Calls, Admin(w)
    PROVE  TypeInv'
<1>t. TypeOK
  BY DEF TypeInv
<1>a. ASSUME Arrive(w) PROVE arrived' \in 0..MaxArrivals /\ course' \in {"regular", "irregular"}
  BY <1>a, <1>t, MembersAssumption DEF Arrive, TypeOK
<1>r. ASSUME UNCHANGED req PROVE req' \in [Calls -> Req] /\ \A v \in Calls : CallOK(req'[v])
  BY <1>r DEF TypeInv, TypeOK
<1>1. CASE CreateMember(w)
  <2>1. account' \in [Accounts -> Account] /\ told' \in [Accounts -> Passwords \cup {Nobody}]
    BY <1>1, <1>t, RowType DEF CreateMember, TypeOK
  <2> QED BY <1>1, <1>a, <1>r, <1>t, <2>1, StepType DEF CreateMember, TypeOK
<1>2. CASE CreateSeller(w)
  <2>1. account' \in [Accounts -> Account] /\ told' \in [Accounts -> Passwords \cup {Nobody}]
    BY <1>2, <1>t, RowType DEF CreateSeller, TypeOK
  <2> QED BY <1>2, <1>a, <1>r, <1>t, <2>1, StepType DEF CreateSeller, TypeOK
<1>e. ASSUME NEW a \in Accounts,
             NEW row \in Edited(a) \cup {[account[a] EXCEPT !.role = role] : role \in {"customer", "admin"}},
             Edit(a, row)
      PROVE  account' \in [Accounts -> Account] /\ told' \in [Accounts -> Passwords \cup {Nobody}]
  <2>1. row \in Account /\ account[a].kind \in Kinds
    BY <1>t DEF Edited, TypeOK, Account, StatusesOf, Roles, Kinds
  <2>2. row.password \in Passwords \cup {Nobody}
    BY <2>1 DEF Account
  <2> QED BY <1>e, <1>t, <2>1, <2>2 DEF Edit, TypeOK
<1>3. CASE UpdateMember(w)
  <2>1. account' \in [Accounts -> Account] /\ told' \in [Accounts -> Passwords \cup {Nobody}]
    BY <1>3, <1>e DEF UpdateMember
  <2> QED BY <1>3, <1>a, <1>r, <1>t, <2>1, StepType DEF UpdateMember, TypeOK
<1>4. CASE UpdateSeller(w)
  <2>1. account' \in [Accounts -> Account] /\ told' \in [Accounts -> Passwords \cup {Nobody}]
    BY <1>4, <1>e DEF UpdateSeller
  <2> QED BY <1>4, <1>a, <1>r, <1>t, <2>1, StepType DEF UpdateSeller, TypeOK
<1>5. CASE DeleteAccount(w)
  <2>1. account' \in [Accounts -> Account]
    BY <1>5, <1>t DEF DeleteAccount, TypeOK, Account
  <2>2. coupon' \in [Coupons -> Coupon]
    BY <1>5, <1>t DEF DeleteAccount, TypeOK, Coupon, Owners
  <2>3. address' \in [Addresses -> Address]
    BY <1>5, <1>t DEF DeleteAccount, TypeOK, Address, Owners
  <2>4. asset' \in [Assets -> Asset]
    BY <1>5, <1>t DEF DeleteAccount, TypeOK, Asset, Owners
  <2> QED BY <1>5, <1>a, <1>r, <1>t, <2>1, <2>2, <2>3, <2>4, StepType DEF DeleteAccount, TypeOK
<1>6. CASE IssueByAdmin(w)
  <2>1. coupon' \in [Coupons -> Coupon]
    BY <1>6, NewCouponType DEF IssueByAdmin
  <2> QED BY <1>6, <1>a, <1>r, <1>t, <2>1, StepType DEF IssueByAdmin, TypeOK
<1>7. CASE ChangeCoupon(w)
  <2>1. coupon' \in [Coupons -> Coupon] /\ spent' \in [Coupons -> Nat]
    BY <1>7, <1>t DEF ChangeCoupon, TypeOK, Coupon
  <2> QED BY <1>7, <1>a, <1>r, <1>t, <2>1, StepType DEF ChangeCoupon, TypeOK
<1> QED BY <1>1, <1>2, <1>3, <1>4, <1>5, <1>6, <1>7 DEF Admin

\* So does a statement that fails.
LEMMA FailType ==
    ASSUME TypeInv, NEW w \in Calls, Fail(w)
    PROVE  TypeInv'
<1>1. TypeOK /\ failures' \in 0..MaxFailures
  BY MembersAssumption DEF TypeInv, Fail, TypeOK
<1> QED BY <1>1, FinishType, StepType DEF Fail, TypeOK

\* In the beginning no call is in flight and no row is there.
LEMMA InitType == Init => TypeInv
  BY IdleOK, MembersAssumption
     DEF Init, TypeInv, TypeOK, Coupon, Owners, CouponStatuses, Address, Asset, CallOK

\* Every step keeps the types.
LEMMA NextType == TypeInv /\ [Next]_vars => TypeInv'
<1> SUFFICES ASSUME TypeInv, [Next]_vars PROVE TypeInv'
  OBVIOUS
<1>1. CASE UNCHANGED vars
  BY <1>1 DEF vars, TypeInv, TypeOK
<1>2. CASE Next
  BY <1>2, RegisterType, HouseholdType, RedeemType, AdminType, FailType DEF Next
<1> QED BY <1>1, <1>2

\* Whatever members, sellers and administrators do, the tables hold rows of their
\* kinds and a call in flight has loaded what its next statement needs (AdminService).
THEOREM TypeCorrect == Spec => []TypeInv
  BY InitType, NextType, PTL DEF Spec
-----------------------------------------------------------------------------
(* What a step does to calls, accounts and coupons *)

\* A step of a call.
Acts(w) == Register(w) \/ Household(w) \/ Redeem(w) \/ Admin(w) \/ Fail(w)

\* A step moves one call only.
LEMMA OthersWait ==
    ASSUME TypeInv, NEW w \in Calls, Acts(w)
    PROVE  \A v \in Calls \ {w} : req'[v] = req[v]
<1>t. req \in [Calls -> Req]
  BY DEF TypeInv, TypeOK
<1>1. CASE Register(w)
  BY <1>1, <1>t DEF Register, RegisterRead, Upsert, CouponRead, Issue, Raced, Answer, Enter, Goto, Finish
<1>2. CASE Household(w)
  BY <1>2, <1>t DEF Household, AddressRead, ClearDefaults, Place, Unplace, AssetRead, KeepAsset, DiscardAsset,
                    Enter, Goto, Finish
<1>3. CASE Redeem(w)
  BY <1>3, <1>t DEF Redeem, UseRead, Use, Enter, Finish
<1>4. CASE Admin(w)
  BY <1>4 DEF Admin, CreateMember, UpdateMember, CreateSeller, UpdateSeller, DeleteAccount, IssueByAdmin, ChangeCoupon
<1>5. CASE Fail(w)
  BY <1>5, <1>t DEF Fail, Finish
<1> QED BY <1>1, <1>2, <1>3, <1>4, <1>5 DEF Acts

\* Who is registering after a step has just got his account, or was registering the
\* same one before.
LEMMA RegisteringSteps ==
    ASSUME TypeInv, NEW w \in Calls, Acts(w), req'[w].pc \in Registering
    PROVE  \/ Upsert(w)
           \/ /\ CouponRead(w) \/ Issue(w) \/ Raced(w)
              /\ req[w].pc \in Registering
              /\ req'[w].owner = req[w].owner
              /\ req'[w].kind = req[w].kind
              /\ req'[w].password = req[w].password
<1>t. req \in [Calls -> Req] /\ req[w] \in Req
  BY DEF TypeInv, TypeOK
<1>f. ASSUME Finish(w) PROVE FALSE
  BY <1>f, <1>t DEF Finish, Idle, Registering
<1>1. CASE Register(w)
  <2>1. ASSUME RegisterRead(w) PROVE FALSE
    <3>1. PICK kind \in Kinds, phone \in Phones, password \in Passwords :
             req' = [req EXCEPT ![w] = [Idle EXCEPT !.pc = "upsert", !.kind = kind, !.phone = phone,
                                                    !.password = password]]
      BY <2>1 DEF RegisterRead, Enter
    <3> QED BY <3>1, <1>t DEF Idle, Registering
  <2>2. ~Answer(w)
    BY <1>f DEF Answer
  <2>3. CASE Upsert(w)
    BY <2>3
  <2>4. CASE CouponRead(w)
    BY <2>4, <1>t DEF CouponRead, Goto, At, Registering, Req
  <2>5. CASE Issue(w)
    BY <2>5, <1>t DEF Issue, Goto, At, Registering, Req
  <2>6. CASE Raced(w)
    BY <2>6, <1>f, <1>t DEF Raced, Goto, At, Registering, Req
  <2> QED BY <1>1, <2>1, <2>2, <2>3, <2>4, <2>5, <2>6 DEF Register
<1>2. CASE Household(w)
  <2>1. ASSUME AddressRead(w) PROVE FALSE
    <3>1. PICK a \in Accounts, default \in {"yes", "no"} :
             \E d \in Owned(address, a) \cup {Nobody} :
                LET call == [Idle EXCEPT !.owner = a, !.id = d, !.default = default] IN
                \/ Enter(w, [call EXCEPT !.pc = IF default = "yes" THEN "clear" ELSE "place"])
                \/ Enter(w, [call EXCEPT !.pc = "unplace"])
      BY <2>1 DEF AddressRead
    <3>2. PICK d \in Owned(address, a) \cup {Nobody} :
                LET call == [Idle EXCEPT !.owner = a, !.id = d, !.default = default] IN
                \/ Enter(w, [call EXCEPT !.pc = IF default = "yes" THEN "clear" ELSE "place"])
                \/ Enter(w, [call EXCEPT !.pc = "unplace"])
      BY <3>1
    <3> DEFINE call == [Idle EXCEPT !.owner = a, !.id = d, !.default = default]
               pc == IF default = "yes" THEN "clear" ELSE "place"
    <3>3. req'[w] = [call EXCEPT !.pc = pc] \/ req'[w] = [call EXCEPT !.pc = "unplace"]
      BY <3>2, <1>t DEF Enter
    <3>4. req'[w].pc \in {"clear", "place", "unplace"}
      BY <3>3 DEF Idle
    <3> QED BY <3>4 DEF Registering
  <2>2. ~AssetRead(w)
    BY <1>t DEF AssetRead, Enter, Idle, Registering
  <2>3. ~ClearDefaults(w)
    BY <1>t DEF ClearDefaults, Goto, Registering, Req
  <2>4. ~Place(w) /\ ~Unplace(w) /\ ~KeepAsset(w) /\ ~DiscardAsset(w)
    BY <1>f DEF Place, Unplace, KeepAsset, DiscardAsset
  <2> QED BY <1>2, <2>1, <2>2, <2>3, <2>4 DEF Household
<1>3. CASE Redeem(w)
  BY <1>3, <1>t, <1>f DEF Redeem, UseRead, Use, Enter, Idle, Registering
<1>4. CASE Admin(w)
  <2>1. req'[w].pc = "idle"
    BY <1>4 DEF Admin, CreateMember, UpdateMember, CreateSeller, UpdateSeller, DeleteAccount, IssueByAdmin,
                ChangeCoupon, Arrive, At
  <2> QED BY <2>1 DEF Registering
<1>5. CASE Fail(w)
  BY <1>5, <1>f DEF Fail
<1> QED BY <1>1, <1>2, <1>3, <1>4, <1>5 DEF Acts

\* An account that is born stays born, and one that is deleted stays deleted.
AccountsAge ==
    \A a \in Accounts :
        /\ account[a].state # "none" => account'[a].state # "none"
        /\ account[a].state = "gone" => account'[a].state = "gone"

\* The rows of an account: nobody's coupon becomes his, never a second sign-up coupon,
\* and all of them go with him.
CouponsMove ==
    \/ \A c \in Coupons : coupon'[c].owner = coupon[c].owner /\ coupon'[c].type = coupon[c].type
    \/ \E a \in Accounts, type \in {"signup", "manual"} :
          NewCoupon(a, type) /\ (type = "signup" => SignupCoupons(a) = {})
    \/ \E a \in Accounts : /\ account'[a].state = "gone"
                           /\ coupon' = [c \in Coupons |-> IF coupon[c].owner = a
                                           THEN [coupon[c] EXCEPT !.owner = Gone] ELSE coupon[c]]

\* Every step treats accounts and coupons so.
LEMMA AccountsAndCoupons ==
    ASSUME TypeInv, NEW w \in Calls, Acts(w)
    PROVE  AccountsAge /\ CouponsMove
<1>t. TypeOK /\ CallOK(req[w]) /\ account \in [Accounts -> Account] /\ coupon \in [Coupons -> Coupon]
  BY DEF TypeInv, TypeOK
<1>a. ASSUME UNCHANGED account PROVE AccountsAge
  BY <1>a DEF AccountsAge
<1>c. ASSUME UNCHANGED coupon PROVE CouponsMove
  BY <1>c DEF CouponsMove
<1>1. CASE Register(w)
  <2>1. CASE Upsert(w)
    <3>1. PICK a \in Accounts : /\ account[a].state # "gone"
                                /\ account' = [account EXCEPT ![a] =
                                      IF req[w].kind = "member"
                                        THEN MemberRow(req[w].phone, "customer", req[w].password)
                                        ELSE SellerRow(req[w].phone, "pending", req[w].password)]
      BY <2>1 DEF Upsert, Holders, Live
    <3>2. account'[a].state = "live" /\ \A b \in Accounts \ {a} : account'[b] = account[b]
      BY <3>1, <1>t DEF MemberRow, SellerRow
    <3> QED BY <2>1, <3>1, <3>2, <1>c DEF Upsert, AccountsAge
  <2>2. CASE Issue(w)
    <3>1. req[w].owner \in Accounts
      BY <2>2, <1>t DEF Issue, At, CallOK, Registering
    <3> QED BY <2>2, <3>1, <1>a, <1>c DEF Issue, CouponsMove
  <2>3. CASE RegisterRead(w) \/ CouponRead(w) \/ Raced(w) \/ Answer(w)
    BY <2>3, <1>a, <1>c DEF RegisterRead, CouponRead, Raced, Answer
  <2> QED BY <1>1, <2>1, <2>2, <2>3 DEF Register
<1>2. CASE Household(w)
  BY <1>2, <1>a, <1>c
     DEF Household, AddressRead, ClearDefaults, Place, Unplace, AssetRead, KeepAsset, DiscardAsset
<1>3. CASE Redeem(w)
  <2>1. CASE UseRead(w)
    BY <2>1, <1>a, <1>c DEF UseRead
  <2>2. CASE Use(w)
    <3>1. \A c \in Coupons : coupon'[c].owner = coupon[c].owner /\ coupon'[c].type = coupon[c].type
      BY <2>2, <1>t DEF Use, Coupon
    <3> QED BY <2>2, <3>1, <1>a DEF Use, CouponsMove
  <2> QED BY <1>3, <2>1, <2>2 DEF Redeem
<1>4. CASE Admin(w)
  <2>1. CASE CreateMember(w)
    BY <2>1, <1>t, <1>c DEF CreateMember, MemberRow, AccountsAge
  <2>2. CASE CreateSeller(w)
    BY <2>2, <1>t, <1>c DEF CreateSeller, SellerRow, AccountsAge
  <2>e. ASSUME NEW a \in Accounts,
               NEW row \in Edited(a) \cup {[account[a] EXCEPT !.role = role] : role \in {"customer", "admin"}},
               Edit(a, row)
        PROVE  AccountsAge
    <3>1. row.state = account[a].state
      BY <1>t DEF Edited, Account
    <3> QED BY <2>e, <3>1, <1>t DEF Edit, AccountsAge
  <2>3. CASE UpdateMember(w)
    BY <2>3, <2>e, <1>c DEF UpdateMember
  <2>4. CASE UpdateSeller(w)
    BY <2>4, <2>e, <1>c DEF UpdateSeller
  <2>5. CASE DeleteAccount(w)
    <3>1. PICK a \in Accounts : /\ account' = [account EXCEPT ![a].state = "gone"]
                                /\ coupon' = [c \in Coupons |-> IF coupon[c].owner = a
                                                THEN [coupon[c] EXCEPT !.owner = Gone] ELSE coupon[c]]
      BY <2>5 DEF DeleteAccount
    <3>2. account'[a].state = "gone" /\ \A b \in Accounts \ {a} : account'[b] = account[b]
      BY <3>1, <1>t DEF Account
    <3> QED BY <3>1, <3>2 DEF AccountsAge, CouponsMove
  <2>6. CASE IssueByAdmin(w)
    BY <2>6, <1>a DEF IssueByAdmin, CouponsMove
  <2>7. CASE ChangeCoupon(w)
    <3>1. \A c \in Coupons : coupon'[c].owner = coupon[c].owner /\ coupon'[c].type = coupon[c].type
      BY <2>7, <1>t DEF ChangeCoupon, Coupon
    <3> QED BY <2>7, <3>1, <1>a DEF ChangeCoupon, CouponsMove
  <2> QED BY <1>4, <2>1, <2>2, <2>3, <2>4, <2>5, <2>6, <2>7 DEF Admin
<1>5. CASE Fail(w)
  BY <1>5, <1>a, <1>c DEF Fail
<1> QED BY <1>1, <1>2, <1>3, <1>4, <1>5 DEF Acts

-----------------------------------------------------------------------------
(* Sign-up coupons *)

\* The account a registration writes is whoever holds the phone, else a new one.
LEMMA UpsertEffect ==
    ASSUME TypeInv, NEW w \in Calls, Upsert(w)
    PROVE  \E a \in Accounts :
              /\ \/ a \in Holders(req[w].kind, req[w].phone)
                 \/ Holders(req[w].kind, req[w].phone) = {} /\ account[a].state = "none"
              /\ account'[a].state = "live"
              /\ account'[a].kind = req[w].kind
              /\ account'[a].phone = req[w].phone
              /\ account'[a].password = req[w].password
              /\ \A b \in Accounts \ {a} : account'[b] = account[b]
              /\ req'[w].owner = a
              /\ req'[w].kind = req[w].kind
              /\ req'[w].password = req[w].password
              /\ req'[w].pc = IF req[w].kind = "member" THEN "coupon" ELSE "answer"
<1>t. req \in [Calls -> Req] /\ req[w] \in Req /\ account \in [Accounts -> Account]
  BY DEF TypeInv, TypeOK
<1> DEFINE kind == req[w].kind
           row == IF kind = "member" THEN MemberRow(req[w].phone, "customer", req[w].password)
                    ELSE SellerRow(req[w].phone, "pending", req[w].password)
           step == IF kind = "member" THEN "coupon" ELSE "answer"
<1> DEFINE holders == Holders(kind, req[w].phone)
<1>0. PICK a \in IF holders # {} THEN holders ELSE {n \in Accounts : account[n].state = "none"} :
          /\ account' = [account EXCEPT ![a] = row]
          /\ req' = [req EXCEPT ![w].pc = step, ![w].owner = a]
  BY Zenon DEF Upsert
<1>1. a \in Accounts /\ (a \in holders \/ (holders = {} /\ account[a].state = "none"))
  BY <1>0 DEF Holders
<1>2. kind \in {"member", "seller"}
  BY <1>t DEF Req, Kinds
<1>3. /\ row.state = "live" /\ row.kind = kind
      /\ row.phone = req[w].phone /\ row.password = req[w].password
  BY <1>2 DEF MemberRow, SellerRow
<1>4. account'[a] = row /\ \A b \in Accounts \ {a} : account'[b] = account[b]
  BY <1>0, <1>1, <1>t
<1>5. req'[w] = [req[w] EXCEPT !.pc = step, !.owner = a]
  BY <1>0, <1>t
<1>6. /\ req'[w].owner = a /\ req'[w].kind = req[w].kind
      /\ req'[w].password = req[w].password /\ req'[w].pc = step
  BY <1>5, <1>t DEF Req
<1> QED BY <1>1, <1>3, <1>4, <1>6

\* Nobody is welcomed, told or registering who has no row yet.
LEMMA BornKeeps ==
    ASSUME TypeInv, Born, NEW w \in Calls, Acts(w)
    PROVE  Born'
<1>t. TypeOK /\ CallOK(req[w]) /\ account \in [Accounts -> Account] /\ req \in [Calls -> Req]
  BY DEF TypeInv, TypeOK
<1> SUFFICES ASSUME NEW a \in Accounts, account'[a].state = "none"
             PROVE  /\ a \notin welcomed' /\ told'[a] = Nobody
                    /\ \A v \in Calls : req'[v].pc \in Registering => req'[v].owner # a
  BY DEF Born
<1>1. account[a].state = "none"
  BY AccountsAndCoupons DEF AccountsAge
<1>2. a \notin welcomed /\ told[a] = Nobody /\ \A v \in Calls : req[v].pc \in Registering => req[v].owner # a
  BY <1>1 DEF Born
<1>3. ASSUME NEW v \in Calls, req'[v].pc \in Registering PROVE req'[v].owner # a
  <2>1. CASE v # w
    BY <2>1, <1>2, <1>3, OthersWait
  <2>2. CASE v = w /\ Upsert(w)
    BY <2>2, UpsertEffect
  <2>3. CASE v = w /\ ~Upsert(w)
    BY <2>3, <1>2, <1>3, RegisteringSteps
  <2> QED BY <2>1, <2>2, <2>3
<1>4. a \notin welcomed' /\ told'[a] = Nobody
  <2>1. CASE Answer(w)
    <3>1. req[w].owner # a
      BY <2>1, <1>2 DEF Answer, At, Registering
    <3> QED BY <2>1, <3>1, <1>2, <1>t DEF Answer, TypeOK
  <2>2. CASE CreateMember(w)
    <3>1. PICK b \in Accounts : \E phone, role, password :
             /\ account' = [account EXCEPT ![b] = MemberRow(phone, role, password)]
             /\ told' = [told EXCEPT ![b] = password] /\ welcomed' = welcomed
      BY <2>2 DEF CreateMember
    <3>2. a # b
      BY <3>1, <1>t DEF MemberRow
    <3> QED BY <3>1, <3>2, <1>2, <1>t DEF TypeOK
  <2>3. CASE CreateSeller(w)
    <3>1. PICK b \in Accounts : \E phone, status, password :
             /\ account' = [account EXCEPT ![b] = SellerRow(phone, status, password)]
             /\ told' = [told EXCEPT ![b] = password] /\ welcomed' = welcomed
      BY <2>3 DEF CreateSeller
    <3>2. a # b
      BY <3>1, <1>t DEF SellerRow
    <3> QED BY <3>1, <3>2, <1>2, <1>t DEF TypeOK
  <2>4. CASE UpdateMember(w) \/ UpdateSeller(w)
    <3>1. PICK b \in Accounts : Live(b) /\ (\E row : Edit(b, row)) /\ welcomed' = welcomed
      BY <2>4 DEF UpdateMember, UpdateSeller, Member
    <3>2. a # b
      BY <3>1, <1>1 DEF Live
    <3> QED BY <3>1, <3>2, <1>2, <1>t DEF Edit, TypeOK
  <2>5. CASE RegisterRead(w) \/ Upsert(w) \/ CouponRead(w) \/ Issue(w) \/ Raced(w)
    BY <2>5, <1>2 DEF RegisterRead, Upsert, CouponRead, Issue, Raced
  <2>6. CASE Household(w)
    BY <2>6, <1>2 DEF Household, AddressRead, ClearDefaults, Place, Unplace, AssetRead, KeepAsset, DiscardAsset
  <2>7. CASE Redeem(w) \/ Fail(w)
    BY <2>7, <1>2 DEF Redeem, UseRead, Use, Fail
  <2>8. CASE DeleteAccount(w) \/ IssueByAdmin(w) \/ ChangeCoupon(w)
    BY <2>8, <1>2 DEF DeleteAccount, IssueByAdmin, ChangeCoupon
  <2> QED BY <2>1, <2>2, <2>3, <2>4, <2>5, <2>6, <2>7, <2>8 DEF Acts, Register, Admin
<1> QED BY <1>3, <1>4

\* The coupon of a member who has one, and is not deleted, stays his.
LEMMA ServedKeeps ==
    ASSUME TypeInv, NEW w \in Calls, Acts(w),
           NEW a \in Accounts, account[a].state # "none", Served(a)
    PROVE  Served(a)'
<1> SUFFICES ASSUME Live(a)' PROVE \E c \in Coupons : coupon'[c].owner = a /\ coupon'[c].type = "signup"
  BY DEF Served, SignupCoupons
<1>t. account \in [Accounts -> Account] /\ coupon \in [Coupons -> Coupon] /\ a # Nobody
  BY MembersAssumption DEF TypeInv, TypeOK
<1>1. account'[a].state = "live"
  BY DEF Live
<1>2. AccountsAge /\ CouponsMove
  BY AccountsAndCoupons
<1>3. Live(a)
  BY <1>t, <1>1, <1>2 DEF AccountsAge, Live, Account
<1>4. PICK c \in Coupons : coupon[c].owner = a /\ coupon[c].type = "signup"
  BY <1>3 DEF Served, SignupCoupons
<1>5. CASE \A d \in Coupons : coupon'[d].owner = coupon[d].owner /\ coupon'[d].type = coupon[d].type
  BY <1>4, <1>5
<1>6. ASSUME NEW b \in Accounts, NEW type, NewCoupon(b, type) PROVE coupon'[c] = coupon[c]
  BY <1>4, <1>6, <1>t DEF NewCoupon
<1>7. ASSUME NEW b \in Accounts, account'[b].state = "gone",
             coupon' = [d \in Coupons |-> IF coupon[d].owner = b THEN [coupon[d] EXCEPT !.owner = Gone]
                                            ELSE coupon[d]]
      PROVE  coupon'[c] = coupon[c]
  BY <1>1, <1>4, <1>7
<1> QED BY <1>2, <1>4, <1>5, <1>6, <1>7 DEF CouponsMove

\* No member gets a second sign-up coupon.
LEMMA SignupUniqueKeeps ==
    ASSUME TypeInv, SignupUnique, NEW w \in Calls, Acts(w)
    PROVE  SignupUnique'
<1> SUFFICES ASSUME NEW c \in Coupons, NEW d \in Coupons,
                    coupon'[c].type = "signup", coupon'[d].type = "signup",
                    coupon'[c].owner = coupon'[d].owner, coupon'[c].owner \in Accounts
             PROVE  c = d
  BY DEF SignupUnique
<1>t. coupon \in [Coupons -> Coupon] /\ Gone \notin Accounts
  BY MembersAssumption DEF TypeInv, TypeOK
<1>1. CASE \A e \in Coupons : coupon'[e].owner = coupon[e].owner /\ coupon'[e].type = coupon[e].type
  BY <1>1 DEF SignupUnique
<1>2. ASSUME NEW a \in Accounts, NEW type \in {"signup", "manual"}, NewCoupon(a, type),
             type = "signup" => SignupCoupons(a) = {}
      PROVE  c = d
  <2>1. PICK e \in Coupons :
           coupon' = [coupon EXCEPT ![e] = [owner |-> a, type |-> type, status |-> "active"]]
    BY <1>2 DEF NewCoupon
  <2>2. \A f \in Coupons \ {e} : coupon'[f] = coupon[f]
    BY <2>1, <1>t
  <2>3. coupon'[e].owner = a /\ coupon'[e].type = type
    BY <2>1, <1>t
  <2>4. type = "signup" => \A f \in Coupons : ~(coupon[f].owner = a /\ coupon[f].type = "signup")
    BY <1>2 DEF SignupCoupons
  <2> QED BY <2>2, <2>3, <2>4 DEF SignupUnique
<1>3. ASSUME NEW a \in Accounts,
             coupon' = [e \in Coupons |-> IF coupon[e].owner = a THEN [coupon[e] EXCEPT !.owner = Gone]
                                            ELSE coupon[e]]
      PROVE  c = d
  <2>1. \A e \in Coupons : coupon'[e].owner \in Accounts => coupon'[e] = coupon[e]
    BY <1>3, <1>t DEF Coupon
  <2> QED BY <2>1 DEF SignupUnique
<1> QED BY <1>1, <1>2, <1>3, AccountsAndCoupons DEF CouponsMove

\* Every step keeps the part of the invariant that is about sign-up coupons.
LEMMA CouponKeeps ==
    ASSUME TypeInv, TypeInv', CouponInv, NEW w \in Calls, Acts(w)
    PROVE  CouponInv'
<1>t. TypeOK /\ \A v \in Calls : CallOK(req[v]) /\ CallOK(req'[v])
  BY DEF TypeInv
<1>1. Born' /\ SignupUnique'
  BY BornKeeps, SignupUniqueKeeps DEF CouponInv
<1>2. ASSUME NEW a \in Accounts, NEW v \in Calls, At(v, "answer"), req[v].kind = "member", a = req[v].owner
      PROVE  Served(a)'
  <2>1. account[a].state # "none" /\ Served(a)
    BY <1>2 DEF CouponInv, Born, At, Registering
  <2> QED BY <2>1, ServedKeeps
<1>3. ASSUME NEW a \in welcomed' PROVE Served(a)'
  <2>1. CASE a \in welcomed
    <3>1. a \in Accounts /\ account[a].state # "none" /\ Served(a)
      BY <2>1, <1>t DEF TypeOK, CouponInv, Born
    <3> QED BY <3>1, ServedKeeps
  <2>2. CASE a \notin welcomed
    <3>1. Answer(w) /\ req[w].kind = "member" /\ a = req[w].owner
      BY <2>2, <1>3
         DEF Acts, Register, RegisterRead, Upsert, CouponRead, Issue, Raced, Answer, Redeem, UseRead, Use,
             Household, AddressRead, ClearDefaults, Place, Unplace, AssetRead, KeepAsset, DiscardAsset,
             Admin, CreateMember, UpdateMember, CreateSeller, UpdateSeller, DeleteAccount, IssueByAdmin,
             ChangeCoupon, Fail
    <3>2. a \in Accounts /\ At(w, "answer")
      BY <3>1, <1>t DEF Answer, At, CallOK, Registering
    <3> QED BY <3>1, <3>2, <1>2
  <2> QED BY <2>1, <2>2
<1>4. ASSUME NEW a \in Accounts, NEW v \in Calls, req'[v].pc = "answer", req'[v].kind = "member", a = req'[v].owner
      PROVE  Served(a)'
  <2>1. CASE req'[v] = req[v]
    BY <2>1, <1>2, <1>4 DEF At
  <2>2. CASE req'[v] # req[v]
    <3>1. v = w
      BY <2>2, OthersWait
    <3>2. ~Upsert(w)
      BY <3>1, <1>4, UpsertEffect
    <3>3. (CouponRead(w) \/ Issue(w) \/ Raced(w)) /\ a = req[w].owner
      BY <2>2, <3>1, <3>2, <1>4, RegisteringSteps DEF Registering
    <3>4. CASE CouponRead(w) \/ Raced(w)
      <4>1. ASSUME NEW pc, Goto(w, pc) PROVE pc = "answer"
        BY <3>1, <4>1, <1>t, <1>4 DEF Goto, TypeOK, Req
      <4>2. ~Finish(w)
        BY <3>1, <1>t, <1>4 DEF Finish, TypeOK, Idle
      <4>3. SignupCoupons(a) # {} /\ UNCHANGED coupon
        BY <3>3, <3>4, <4>1, <4>2 DEF CouponRead, Raced
      <4> QED BY <4>3 DEF Served, SignupCoupons
    <3>5. CASE Issue(w)
      <4>1. ~Goto(w, "raced")
        BY <3>1, <1>t, <1>4 DEF Goto, TypeOK, Req
      <4>a. NewCoupon(a, "signup")
        BY <3>3, <3>5, <4>1 DEF Issue
      <4>2. PICK c \in Coupons :
               coupon' = [coupon EXCEPT ![c] = [owner |-> a, type |-> "signup", status |-> "active"]]
        BY <4>a DEF NewCoupon
      <4>3. coupon'[c].owner = a /\ coupon'[c].type = "signup"
        BY <4>2, <1>t DEF TypeOK
      <4> QED BY <4>3 DEF Served, SignupCoupons
    <3> QED BY <3>3, <3>4, <3>5
  <2> QED BY <2>1, <2>2
<1>5. ASSUME NEW v \in Calls, At(v, "answer")', req'[v].kind = "member"
      PROVE  Served(req[v].owner)'
  <2>1. PICK a \in Accounts : a = req'[v].owner
    BY <1>5, <1>t DEF At, CallOK, Registering
  <2>2. Served(a)'
    BY <2>1, <1>4, <1>5 DEF At
  <2> QED BY <2>1, <2>2 DEF Served, Live, SignupCoupons
<1> QED BY <1>1, <1>3, <1>5 DEF CouponInv

\* A set without two elements has one at most.
LEMMA AtMostOne ==
    ASSUME NEW S, \A x, y \in S : x = y
    PROVE  Cardinality(S) <= 1
<1>1. CASE S = {}
  <2>1. Cardinality(S) = 0
    BY <1>1, FS_EmptySet
  <2> QED BY <2>1
<1>2. CASE S # {}
  <2>1. PICK x : S = {x}
    BY <1>2
  <2>2. Cardinality(S) = 1
    BY <2>1, FS_Singleton
  <2> QED BY <2>2
<1> QED BY <1>1, <1>2

\* The part of the invariant about sign-up coupons holds in every state.
THEOREM CouponCorrect == Spec => []CouponInv
<1>1. Init => CouponInv
  BY MembersAssumption DEF Init, CouponInv, Born, SignupUnique, Idle, Registering, At
<1>2. TypeInv /\ TypeInv' /\ CouponInv /\ [Next]_vars => CouponInv'
  <2>1. ASSUME CouponInv, UNCHANGED vars PROVE CouponInv'
    BY <2>1 DEF vars, CouponInv, Born, SignupUnique, Served, Live, SignupCoupons, At
  <2> QED BY <2>1, CouponKeeps DEF Next, Acts
<1> QED BY <1>1, <1>2, TypeCorrect, PTL DEF Spec

\* A member has at most one sign-up coupon, and one once he was welcomed, however
\* registrations, administrators and deletions overlap (ensureSignupCoupon,
\* uq_coupons_signup_once).
THEOREM OneSignupCouponHolds == Spec => []OneSignupCoupon
<1>1. CouponInv => OneSignupCoupon
  <2> SUFFICES ASSUME CouponInv, NEW a \in Accounts
               PROVE  /\ Cardinality(SignupCoupons(a)) <= 1
                      /\ a \in welcomed /\ Live(a) => SignupCoupons(a) # {}
    BY DEF OneSignupCoupon
  <2>1. \A c, d \in SignupCoupons(a) : c = d
    BY DEF SignupCoupons, CouponInv, SignupUnique
  <2>2. Cardinality(SignupCoupons(a)) <= 1
    BY <2>1, AtMostOne
  <2> QED BY <2>2 DEF CouponInv, Served
<1> QED BY <1>1, CouponCorrect, PTL

-----------------------------------------------------------------------------
(* Addresses and air conditioners *)

\* An address that has an owner keeps him until it is deleted.
AddressesAge ==
    \A d \in Addresses : address[d].owner # Nobody => address'[d].owner \in {address[d].owner, Gone}

\* Steps that leave addresses and air conditioners alone.
Elsewhere(w) ==
    \/ Register(w) \/ Redeem(w) \/ Fail(w)
    \/ CreateMember(w) \/ UpdateMember(w) \/ CreateSeller(w) \/ UpdateSeller(w)
    \/ IssueByAdmin(w) \/ ChangeCoupon(w)

\* They do.
LEMMA ElsewhereKept ==
    ASSUME NEW w \in Calls, Elsewhere(w)
    PROVE  UNCHANGED <<address, asset>>
  BY DEF Elsewhere, Register, RegisterRead, Upsert, CouponRead, Issue, Raced, Answer, Redeem, UseRead, Use, Fail,
         CreateMember, UpdateMember, CreateSeller, UpdateSeller, IssueByAdmin, ChangeCoupon

\* Every step treats the owners of addresses so.
LEMMA Addressed ==
    ASSUME TypeInv, NEW w \in Calls, Acts(w)
    PROVE  AddressesAge
<1>t. CallOK(req[w]) /\ address \in [Addresses -> Address]
  BY DEF TypeInv, TypeOK
<1>1. CASE UNCHANGED address
  BY <1>1 DEF AddressesAge
<1>2. CASE ClearDefaults(w)
  BY <1>2, <1>t DEF ClearDefaults, AddressesAge, Address
<1>3. CASE Place(w)
  <2>1. req[w].id # Nobody => req[w].id \in Addresses
    BY <1>3, <1>t DEF Place, At, CallOK
  <2> QED BY <1>3, <1>t, <2>1 DEF Place, AddressesAge
<1>4. CASE Unplace(w)
  BY <1>4, <1>t DEF Unplace, AddressesAge
<1>5. CASE DeleteAccount(w)
  BY <1>5, <1>t DEF DeleteAccount, AddressesAge
<1>6. CASE AddressRead(w) \/ AssetRead(w) \/ KeepAsset(w) \/ DiscardAsset(w)
  BY <1>6, <1>1 DEF AddressRead, AssetRead, KeepAsset, DiscardAsset
<1> QED BY <1>1, <1>2, <1>3, <1>4, <1>5, <1>6, ElsewhereKept DEF Acts, Elsewhere, Household, Admin

\* What a call saw when it came to its step: each of these has one way in.
LEMMA NewSteps ==
    ASSUME TypeInv, NEW w \in Calls, Acts(w)
    PROVE  /\ req'[w].pc = "keep" => AssetRead(w)
           /\ req'[w].pc = "use" => UseRead(w)
           /\ req'[w].pc = "upsert" => RegisterRead(w)
           /\ req'[w].pc = "place" => ClearDefaults(w) \/ (AddressRead(w) /\ req'[w].default = "no")
<1>t. req \in [Calls -> Req] /\ req[w] \in Req
  BY DEF TypeInv, TypeOK
<1> DEFINE Seen == {"keep", "use", "upsert", "place"}
<1>f. Finish(w) => req'[w].pc \notin Seen
  BY <1>t DEF Finish, Idle
<1>g. ASSUME NEW pc, Goto(w, pc) PROVE req'[w].pc = pc
  BY <1>g, <1>t DEF Goto, Req
<1>e. ASSUME NEW c, Enter(w, c) PROVE req'[w] = c
  BY <1>e, <1>t DEF Enter
<1>1. CASE RegisterRead(w)
  <2>1. ASSUME NEW kind, NEW phone, NEW password,
               Enter(w, [Idle EXCEPT !.pc = "upsert", !.kind = kind, !.phone = phone, !.password = password])
        PROVE  req'[w].pc = "upsert"
    BY <2>1, <1>e DEF Idle
  <2>2. req'[w].pc = "upsert"
    BY <1>1, <2>1, Zenon DEF RegisterRead
  <2> QED BY <1>1, <2>2
<1>2. CASE Upsert(w) \/ CouponRead(w) \/ Issue(w) \/ Raced(w) \/ Answer(w)
  <2>1. Upsert(w) => req'[w].pc \in {"coupon", "answer"}
    BY UpsertEffect
  <2>2. req'[w].pc \notin Seen
    BY <1>2, <1>f, <1>g, <2>1 DEF CouponRead, Issue, Raced, Answer
  <2> QED BY <2>2
<1>3. CASE AddressRead(w)
  <2>1. ASSUME NEW a, NEW default, NEW d,
               Enter(w, [[Idle EXCEPT !.owner = a, !.id = d, !.default = default]
                           EXCEPT !.pc = IF default = "yes" THEN "clear" ELSE "place"])
        PROVE  req'[w].default = default /\ req'[w].pc = IF default = "yes" THEN "clear" ELSE "place"
    BY <2>1, <1>e DEF Idle
  <2>2. ASSUME NEW a, NEW default, NEW d,
               Enter(w, [[Idle EXCEPT !.owner = a, !.id = d, !.default = default] EXCEPT !.pc = "unplace"])
        PROVE  req'[w].pc = "unplace"
    BY <2>2, <1>e DEF Idle
  <2>3. PICK default \in {"yes", "no"} :
           \/ req'[w].default = default /\ req'[w].pc = IF default = "yes" THEN "clear" ELSE "place"
           \/ req'[w].pc = "unplace"
    BY <1>3, <2>1, <2>2, Zenon DEF AddressRead
  <2> QED BY <1>3, <2>3
<1>4. CASE ClearDefaults(w)
  BY <1>4, <1>g DEF ClearDefaults
<1>5. CASE AssetRead(w)
  <2>1. ASSUME NEW a, NEW s, NEW d, NEW pc \in {"keep", "discard"},
               Enter(w, [[Idle EXCEPT !.owner = a, !.id = s, !.at = d] EXCEPT !.pc = pc])
        PROVE  req'[w].pc \in {"keep", "discard"}
    BY <2>1, <1>e DEF Idle
  <2>2. req'[w].pc \in {"keep", "discard"}
    BY <1>5, <2>1, Zenon DEF AssetRead
  <2> QED BY <1>5, <2>2
<1>6. CASE Place(w) \/ Unplace(w) \/ KeepAsset(w) \/ DiscardAsset(w) \/ Use(w) \/ Fail(w)
  BY <1>6, <1>f DEF Place, Unplace, KeepAsset, DiscardAsset, Use, Fail
<1>7. CASE UseRead(w)
  <2>1. ASSUME NEW c, Enter(w, [Idle EXCEPT !.pc = "use", !.id = c]) PROVE req'[w].pc = "use"
    BY <2>1, <1>e DEF Idle
  <2>2. req'[w].pc = "use"
    BY <1>7, <2>1, Zenon DEF UseRead
  <2> QED BY <1>7, <2>2
<1>8. CASE Admin(w)
  <2>1. req'[w].pc = "idle"
    BY <1>8 DEF Admin, CreateMember, UpdateMember, CreateSeller, UpdateSeller, DeleteAccount, IssueByAdmin,
                ChangeCoupon, Arrive, At
  <2> QED BY <2>1
<1> QED BY <1>1, <1>2, <1>3, <1>4, <1>5, <1>6, <1>7, <1>8 DEF Acts, Register, Household, Redeem

\* What a call saw of the address it puts an air conditioner at stays true, or the
\* address goes.
LEMMA SeenKeeps ==
    ASSUME TypeInv, TypeInv', HomeInv, NEW w \in Calls, Acts(w),
           NEW v \in Calls, At(v, "keep")', req'[v].at # Nobody
    PROVE  address'[req'[v].at].owner \in {req'[v].owner, Gone}
<1>t. /\ CallOK(req'[v]) /\ req'[v] \in Req
      /\ req'[v].pc = "keep" /\ req'[v].owner \in Accounts /\ req'[v].at \in Addresses
      /\ Nobody \notin Accounts \cup {Gone}
  BY MembersAssumption DEF TypeInv, CallOK, Owning, Req, At
<1>1. CASE req'[v] = req[v]
  <2>1. address[req[v].at].owner \in {req[v].owner, Gone}
    BY <1>1 DEF HomeInv, At
  <2> QED BY <1>1, <1>t, <2>1, Addressed DEF AddressesAge
<1>2. CASE req'[v] # req[v]
  <2>1. v = w
    BY <1>2, OthersWait
  <2>2. AssetRead(w)
    BY <1>t, <2>1, NewSteps
  <2>3. PICK a \in Accounts :
           \E s \in Owned(asset, a) \cup {Nobody}, d \in Owned(address, a) \cup {Nobody} :
              LET call == [Idle EXCEPT !.owner = a, !.id = s, !.at = d] IN
              \/ Enter(w, [call EXCEPT !.pc = "keep"])
              \/ Enter(w, [call EXCEPT !.pc = "discard"])
    BY <2>2 DEF AssetRead
  <2>4. PICK s \in Owned(asset, a) \cup {Nobody}, d \in Owned(address, a) \cup {Nobody} :
              LET call == [Idle EXCEPT !.owner = a, !.id = s, !.at = d] IN
              \/ Enter(w, [call EXCEPT !.pc = "keep"])
              \/ Enter(w, [call EXCEPT !.pc = "discard"])
    BY <2>3
  <2> DEFINE call == [Idle EXCEPT !.owner = a, !.id = s, !.at = d]
  <2>5. req'[w] = [call EXCEPT !.pc = "keep"] \/ req'[w] = [call EXCEPT !.pc = "discard"]
    BY <2>4 DEF Enter, TypeInv, TypeOK
  <2>6. req'[w].owner = a /\ req'[w].at = d
    BY <2>5 DEF Idle
  <2>7. address' = address /\ address[d].owner = a
    BY <1>t, <2>1, <2>2, <2>4, <2>6 DEF AssetRead, Owned
  <2> QED BY <2>1, <2>6, <2>7
<1> QED BY <1>1, <1>2

\* No step leaves an air conditioner at an address that is not its owner's.
LEMMA PlacedKeeps ==
    ASSUME TypeInv, HomeInv, NEW w \in Calls, Acts(w)
    PROVE  Placed'
<1>t. /\ CallOK(req[w]) /\ req[w] \in Req /\ Nobody \notin Accounts
      /\ address \in [Addresses -> Address] /\ asset \in [Assets -> Asset]
  BY MembersAssumption DEF TypeInv, TypeOK
<1>h. /\ Placed
      /\ At(w, "keep") /\ req[w].at # Nobody => address[req[w].at].owner \in {req[w].owner, Gone}
  BY DEF HomeInv
<1> SUFFICES ASSUME NEW s \in Assets, asset'[s].address # Nobody
             PROVE  /\ asset'[s].owner \in Accounts
                    /\ address'[asset'[s].address].owner = asset'[s].owner
  BY DEF Placed
<1>a. asset[s].address # Nobody => /\ asset[s].owner \in Accounts
                                   /\ asset[s].address \in Addresses
                                   /\ address[asset[s].address].owner = asset[s].owner
  BY <1>h, <1>t DEF Placed, Asset
<1>1. CASE UNCHANGED <<address, asset>>
  BY <1>1, <1>a
<1>2. CASE ClearDefaults(w)
  <2>1. asset' = asset /\ \A d \in Addresses : address'[d].owner = address[d].owner
    BY <1>2, <1>t DEF ClearDefaults, Address
  <2> QED BY <2>1, <1>a
<1>3. CASE Place(w)
  <2>1. req[w].id # Nobody => req[w].id \in Addresses
    BY <1>3, <1>t DEF Place, At, CallOK
  <2>2. asset' = asset /\ \A d \in Addresses : address[d].owner # Nobody => address'[d].owner = address[d].owner
    BY <1>3, <1>t, <2>1 DEF Place
  <2> QED BY <1>a, <1>t, <2>2
<1>4. CASE Unplace(w)
  <2>1. asset'[s] = asset[s] /\ asset[s].address # req[w].id
    BY <1>4, <1>t DEF Unplace, Asset
  <2> QED BY <1>4, <1>a, <1>t, <2>1 DEF Unplace
<1>5. CASE KeepAsset(w)
  <2>1. req[w].owner \in Accounts /\ req[w].at \in Addresses \cup {Nobody} /\ At(w, "keep") /\ address' = address
    BY <1>5, <1>t DEF KeepAsset, At, CallOK, Owning, Req
  <2>2. CASE asset'[s] = asset[s]
    BY <2>1, <2>2, <1>a
  <2>3. CASE asset'[s] # asset[s]
    <3>1. /\ asset'[s] = [owner |-> req[w].owner, address |-> req[w].at]
          /\ req[w].at = Nobody \/ address[req[w].at].owner \in Accounts
      BY <1>5, <1>t, <2>3 DEF KeepAsset
    <3>2. Gone \notin Accounts
      BY MembersAssumption
    <3> QED BY <1>h, <2>1, <3>1, <3>2
  <2> QED BY <2>2, <2>3
<1>6. CASE DiscardAsset(w)
  <2>1. asset'[s] = asset[s] /\ address' = address
    BY <1>6, <1>t DEF DiscardAsset, Asset
  <2> QED BY <2>1, <1>a
<1>7. CASE DeleteAccount(w)
  <2>1. PICK a \in Accounts :
           /\ address' = [d \in Addresses |-> IF address[d].owner = a
                                                THEN [owner |-> Gone, default |-> "no"] ELSE address[d]]
           /\ asset' = [x \in Assets |-> IF asset[x].owner = a
                                           THEN [owner |-> Gone, address |-> Nobody] ELSE asset[x]]
    BY <1>7 DEF DeleteAccount
  <2>2. asset'[s] = asset[s] /\ asset[s].owner # a
    BY <2>1
  <2> QED BY <1>a, <2>1, <2>2
<1>8. CASE AddressRead(w) \/ AssetRead(w)
  BY <1>8, <1>1 DEF AddressRead, AssetRead
<1> QED BY <1>1, <1>2, <1>3, <1>4, <1>5, <1>6, <1>7, <1>8, ElsewhereKept DEF Acts, Elsewhere, Household, Admin

\* An air conditioner is at an address of its owner, although the owner of the address
\* is checked before the write and either may be deleted in between (createAirconAsset,
\* updateAirconAsset, ON DELETE SET NULL).
THEOREM AssetAtHomeHolds == Spec => []AssetAtHome
<1>1. Init => HomeInv
  BY DEF Init, HomeInv, Placed, Idle, At
<1>2. TypeInv /\ TypeInv' /\ HomeInv /\ [Next]_vars => HomeInv'
  <2>1. ASSUME HomeInv, UNCHANGED vars PROVE HomeInv'
    BY <2>1 DEF vars, HomeInv, Placed, At
  <2>2. ASSUME TypeInv, TypeInv', HomeInv, NEW w \in Calls, Acts(w) PROVE HomeInv'
    BY <2>2, PlacedKeeps, SeenKeeps DEF HomeInv
  <2> QED BY <2>1, <2>2 DEF Next, Acts
<1>3. HomeInv => AssetAtHome
  BY DEF HomeInv, Placed, AssetAtHome
<1> QED BY <1>1, <1>2, <1>3, TypeCorrect, PTL DEF Spec

-----------------------------------------------------------------------------
(* While calls do not overlap *)

\* As long as the course is regular, a call finds all others idle and leaves them so.
LEMMA RegularStep ==
    ASSUME TypeInv, RegularInv, NEW w \in Calls, Acts(w), course' = "regular"
    PROVE  course = "regular" /\ \A v \in Calls \ {w} : req[v].pc = "idle" /\ req'[v] = req[v]
<1>1. CASE Arrive(w)
  <2>1. course = "regular" /\ InFlight = {}
    BY <1>1 DEF Arrive
  <2>2. \A v \in Calls : req[v].pc = "idle"
    BY <2>1 DEF InFlight, At
  <2> QED BY <2>1, <2>2, OthersWait
<1>2. CASE course' = course /\ ~At(w, "idle")
  <2>1. \A v \in Calls \ {w} : At(v, "idle")
    BY <1>2 DEF RegularInv, Alone
  <2> QED BY <1>2, <2>1, OthersWait DEF At
<1>3. Arrive(w) \/ (course' = course /\ ~At(w, "idle"))
  <2>1. Register(w) => Arrive(w) \/ (course' = course /\ ~At(w, "idle"))
    BY DEF Register, RegisterRead, Upsert, CouponRead, Issue, Raced, Answer, Enter, At
  <2>2. Household(w) => Arrive(w) \/ (course' = course /\ ~At(w, "idle"))
    <3>1. AddressRead(w) \/ AssetRead(w) => Arrive(w)
      BY DEF AddressRead, AssetRead, Enter
    <3> QED BY <3>1 DEF Household, ClearDefaults, Place, Unplace, KeepAsset, DiscardAsset, At
  <2>3. Redeem(w) => Arrive(w) \/ (course' = course /\ ~At(w, "idle"))
    BY DEF Redeem, UseRead, Use, Enter, At
  <2>4. Admin(w) => Arrive(w)
    BY DEF Admin, CreateMember, UpdateMember, CreateSeller, UpdateSeller, DeleteAccount, IssueByAdmin, ChangeCoupon
  <2>5. Fail(w) => course' = course /\ ~At(w, "idle")
    BY DEF Fail
  <2> QED BY <2>1, <2>2, <2>3, <2>4, <2>5 DEF Acts
<1> QED BY <1>1, <1>2, <1>3

\* One call at a time stays one call at a time.
LEMMA AloneKeeps ==
    ASSUME TypeInv, RegularInv, NEW w \in Calls, Acts(w), course' = "regular"
    PROVE  Alone'
<1>1. \A v \in Calls \ {w} : req'[v].pc = "idle"
  BY RegularStep
<1> QED BY <1>1 DEF Alone, At

\* A default address is set when there is no other.
LEMMA DefaultsKeep ==
    ASSUME TypeInv, RegularInv, NEW w \in Calls, Acts(w), course' = "regular"
    PROVE  Defaults'
<1>t. /\ CallOK(req[w]) /\ req[w] \in Req /\ Nobody \notin Accounts /\ Gone \notin Accounts
      /\ address \in [Addresses -> Address] /\ req \in [Calls -> Req]
  BY MembersAssumption DEF TypeInv, TypeOK
<1>r. Defaults /\ \A v \in Calls \ {w} : req'[v].pc = "idle"
  BY RegularStep DEF RegularInv
<1>1. ASSUME NEW d \in Addresses, NEW e \in Addresses,
             address'[d].default = "yes", address'[e].default = "yes",
             address'[d].owner = address'[e].owner, address'[d].owner \in Accounts
      PROVE  d = e
  <2>1. CASE \A x \in {d, e} : address'[x].default = "yes" /\ address'[x].owner \in Accounts
                                  => address'[x] = address[x]
    BY <1>1, <1>r, <2>1 DEF Defaults
  <2>2. CASE Place(w)
    <3> DEFINE row == [owner |-> req[w].owner, default |-> req[w].default]
    <3>1. CASE UNCHANGED address
      BY <3>1, <2>1
    <3>2. CASE address' # address
      <4>1. PICK x \in Addresses :
               address' = [address EXCEPT ![x] = row] /\ req[w].id \in {Nobody, x}
        <5>1. CASE req[w].id = Nobody
          BY <2>2, <3>2, <5>1 DEF Place
        <5>2. CASE req[w].id # Nobody
          <6>1. req[w].id \in Addresses
            BY <2>2, <5>2, <1>t DEF Place, At, CallOK
          <6> QED BY <2>2, <3>2, <5>2, <6>1 DEF Place
        <5> QED BY <5>1, <5>2
      <4>2. address'[x] = row /\ \A y \in Addresses \ {x} : address'[y] = address[y]
        BY <4>1, <1>t
      <4>3. req[w].default = "yes" =>
              \A y \in Addresses \ {x} : address[y].owner = req[w].owner => address[y].default = "no"
        BY <2>2, <1>r, <1>t, <4>1, MembersAssumption DEF Place, Defaults
      <4>4. ASSUME NEW y \in Addresses, y # x, address'[y].default = "yes",
                   address'[y].owner = address'[x].owner, address'[x].default = "yes"
            PROVE  FALSE
        BY <4>2, <4>3, <4>4
      <4> QED BY <1>1, <1>r, <4>2, <4>4 DEF Defaults
    <3> QED BY <3>1, <3>2
  <2>3. CASE ClearDefaults(w)
    <3>1. \A x \in Addresses : address'[x].default = "yes" => address'[x] = address[x]
      BY <2>3, <1>t DEF ClearDefaults, Address
    <3> QED BY <2>1, <3>1
  <2>4. CASE Unplace(w)
    <3>1. \A x \in Addresses : address'[x].default = "yes" => address'[x] = address[x]
      BY <2>4, <1>t DEF Unplace
    <3> QED BY <2>1, <3>1
  <2>5. CASE DeleteAccount(w)
    <3>1. \A x \in Addresses : address'[x].default = "yes" => address'[x] = address[x]
      BY <2>5, <1>t DEF DeleteAccount
    <3> QED BY <2>1, <3>1
  <2>6. CASE AddressRead(w) \/ AssetRead(w) \/ KeepAsset(w) \/ DiscardAsset(w)
    BY <2>1, <2>6 DEF AddressRead, AssetRead, KeepAsset, DiscardAsset
  <2> QED BY <2>1, <2>2, <2>3, <2>4, <2>5, <2>6, ElsewhereKept DEF Acts, Elsewhere, Household, Admin
<1>2. ASSUME NEW v \in Calls, req'[v].pc = "place", req'[v].default = "yes",
             NEW d \in Addresses, address'[d].owner = req'[v].owner, d # req'[v].id
      PROVE  address'[d].default = "no"
  <2>1. v = w /\ ClearDefaults(w)
    BY <1>2, <1>r, NewSteps
  <2>2. req'[w].owner = req[w].owner /\ req'[w].id = req[w].id
    BY <2>1, <1>t DEF ClearDefaults, Goto, Req
  <2>3. address'[d].owner = address[d].owner
    BY <2>1, <1>t DEF ClearDefaults, Address
  <2>4. address'[d] = [address[d] EXCEPT !.default = "no"]
    BY <1>2, <2>1, <2>2, <2>3 DEF ClearDefaults
  <2> QED BY <2>4, <1>t DEF Address
<1> QED BY <1>1, <1>2 DEF Defaults, At

\* A coupon is used when it is active, which it is not any more.
LEMMA UnusedKeeps ==
    ASSUME TypeInv, RegularInv, NEW w \in Calls, Acts(w), course' = "regular"
    PROVE  Unused'
<1>t. /\ CallOK(req[w]) /\ req[w] \in Req /\ Nobody \notin Accounts
      /\ coupon \in [Coupons -> Coupon] /\ spent \in [Coupons -> Nat] /\ req \in [Calls -> Req]
  BY MembersAssumption DEF TypeInv, TypeOK
<1>r. Unused /\ \A v \in Calls \ {w} : req'[v].pc = "idle"
  BY RegularStep DEF RegularInv
<1>1. ASSUME NEW c \in Coupons
      PROVE  /\ spent'[c] <= 1
             /\ coupon'[c].status = "active" \/ coupon'[c].owner = Nobody => spent'[c] = 0
  <2>0. spent[c] <= 1 /\ (coupon[c].status = "active" \/ coupon[c].owner = Nobody => spent[c] = 0)
    BY <1>r DEF Unused
  <2>1. CASE UNCHANGED <<coupon, spent>>
    BY <2>0, <2>1
  <2>2. ASSUME NEW a, NEW type, NewCoupon(a, type), UNCHANGED spent
        PROVE  spent'[c] = 0 \/ coupon'[c] = coupon[c]
    BY <2>0, <2>2, <1>t DEF NewCoupon
  <2>3. CASE Use(w)
    <3>1. req[w].id \in Coupons /\ spent[req[w].id] = 0
      BY <2>3, <1>r, <1>t DEF Use, At, CallOK, Unused
    <3>2. CASE c # req[w].id
      <4>1. spent'[c] = spent[c] /\ coupon'[c] = coupon[c]
        BY <2>3, <3>1, <3>2, <1>t DEF Use
      <4> QED BY <2>0, <4>1
    <3>3. CASE c = req[w].id /\ coupon[c].owner \in Accounts
      <4>1. spent'[c] = 1 /\ coupon'[c].status = "used" /\ coupon'[c].owner = coupon[c].owner
        BY <2>3, <3>1, <3>3, <1>t DEF Use, Coupon
      <4> QED BY <4>1, <3>3, <1>t
    <3>4. CASE c = req[w].id /\ coupon[c].owner \notin Accounts
      BY <2>1, <2>3, <3>4 DEF Use
    <3> QED BY <3>2, <3>3, <3>4
  <2>4. CASE ChangeCoupon(w)
    <3>1. PICK d \in Coupons, status \in CouponStatuses :
             /\ coupon[d].owner \in Accounts
             /\ coupon' = [coupon EXCEPT ![d].status = status]
             /\ spent' = IF status = "active" THEN [spent EXCEPT ![d] = 0] ELSE spent
      BY <2>4 DEF ChangeCoupon
    <3>2. CASE c # d
      <4>1. spent'[c] = spent[c] /\ coupon'[c] = coupon[c]
        BY <3>1, <3>2, <1>t
      <4> QED BY <2>0, <4>1
    <3>3. CASE c = d
      <4>1. /\ coupon'[c].status = status /\ coupon'[c].owner = coupon[c].owner
            /\ spent'[c] = IF status = "active" THEN 0 ELSE spent[c]
        BY <3>1, <3>3, <1>t DEF Coupon
      <4> QED BY <2>0, <3>1, <3>3, <4>1, <1>t
    <3> QED BY <3>2, <3>3
  <2>5. CASE DeleteAccount(w)
    <3>1. UNCHANGED spent /\ coupon'[c].status = coupon[c].status
      BY <2>5, <1>t DEF DeleteAccount, Coupon
    <3>2. coupon'[c].owner = Nobody => coupon[c].owner = Nobody
      BY <2>5, <1>t, MembersAssumption DEF DeleteAccount, Coupon
    <3> QED BY <2>0, <3>1, <3>2
  <2>6. CASE Issue(w) \/ IssueByAdmin(w)
    <3>1. UNCHANGED spent /\ (UNCHANGED coupon \/ \E a, type : NewCoupon(a, type))
      BY <2>6 DEF Issue, IssueByAdmin
    <3> QED BY <2>0, <2>2, <3>1
  <2>7. CASE RegisterRead(w) \/ Upsert(w) \/ CouponRead(w) \/ Raced(w) \/ Answer(w) \/ UseRead(w) \/ Fail(w)
    BY <2>1, <2>7 DEF RegisterRead, Upsert, CouponRead, Raced, Answer, UseRead, Fail
  <2>8. CASE Household(w)
    BY <2>1, <2>8 DEF Household, AddressRead, ClearDefaults, Place, Unplace, AssetRead, KeepAsset, DiscardAsset
  <2>9. CASE CreateMember(w) \/ CreateSeller(w) \/ UpdateMember(w) \/ UpdateSeller(w)
    BY <2>1, <2>9 DEF CreateMember, CreateSeller, UpdateMember, UpdateSeller
  <2> QED BY <2>3, <2>4, <2>5, <2>6, <2>7, <2>8, <2>9 DEF Acts, Register, Redeem, Admin
<1>2. ASSUME NEW v \in Calls, req'[v].pc = "use" PROVE coupon'[req'[v].id].status = "active"
  <2>1. v = w /\ UseRead(w)
    BY <1>2, <1>r, NewSteps
  <2>2. PICK c \in Coupons : coupon[c].status = "active" /\ Enter(w, [Idle EXCEPT !.pc = "use", !.id = c])
    BY <2>1 DEF UseRead
  <2>3. req'[w].id = c
    BY <2>2, <1>t DEF Enter, Idle
  <2> QED BY <2>1, <2>2, <2>3 DEF UseRead
<1> QED BY <1>1, <1>2 DEF Unused, At

\* What a step does to accounts: one row is written, with a phone that nobody else of
\* its kind holds.
OneRow ==
    \E a \in Accounts :
        /\ \A b \in Accounts \ {a} : account'[b] = account[b]
        /\ account'[a].state = "live" =>
             \A b \in Accounts \ {a} :
                ~(Live(b) /\ account[b].kind = account'[a].kind /\ account[b].phone = account'[a].phone)

\* Every step writes accounts so, if it does.
LEMMA WritesOneRow ==
    ASSUME TypeInv, PhoneUnique, NEW w \in Calls, Acts(w)
    PROVE  OneRow \/ UNCHANGED account
<1>t. account \in [Accounts -> Account]
  BY DEF TypeInv, TypeOK
<1>1. CASE Upsert(w)
  <2>1. PICK a \in Accounts :
              /\ \/ a \in Holders(req[w].kind, req[w].phone)
                 \/ Holders(req[w].kind, req[w].phone) = {} /\ account[a].state = "none"
              /\ account'[a].kind = req[w].kind
              /\ account'[a].phone = req[w].phone
              /\ \A b \in Accounts \ {a} : account'[b] = account[b]
    BY <1>1, UpsertEffect
  <2>2. ASSUME NEW b \in Accounts \ {a}, Live(b), account[b].kind = account'[a].kind,
               account[b].phone = account'[a].phone
        PROVE  FALSE
    <3>1. b \in Holders(req[w].kind, req[w].phone)
      BY <2>1, <2>2 DEF Holders
    <3>2. a \in Holders(req[w].kind, req[w].phone)
      BY <2>1, <3>1
    <3> QED BY <2>2, <3>1, <3>2 DEF Holders, PhoneUnique
  <2> QED BY <2>1, <2>2 DEF OneRow
<1>2. ASSUME NEW a \in Accounts, NEW row, account' = [account EXCEPT ![a] = row],
             Holders(row.kind, row.phone) = {}
      PROVE  OneRow
  <2>1. account'[a] = row /\ \A b \in Accounts \ {a} : account'[b] = account[b]
    BY <1>2, <1>t
  <2> QED BY <1>2, <2>1 DEF OneRow, Holders
<1>3. ASSUME NEW a \in Accounts, NEW row, account' = [account EXCEPT ![a] = row], Live(a) \/ row.state = "gone",
             row.kind = account[a].kind, row.phone = account[a].phone
      PROVE  OneRow
  <2>1. account'[a] = row /\ \A b \in Accounts \ {a} : account'[b] = account[b]
    BY <1>3, <1>t
  <2> QED BY <1>3, <2>1 DEF OneRow, PhoneUnique
<1>4. CASE CreateMember(w)
  <2>1. PICK a \in Accounts, phone \in Phones, password \in Passwords \cup {Nobody}, role \in {"customer", "admin"} :
           Holders("member", phone) = {} /\ account' = [account EXCEPT ![a] = MemberRow(phone, role, password)]
    BY <1>4 DEF CreateMember
  <2> QED BY <1>2, <2>1 DEF MemberRow
<1>5. CASE CreateSeller(w)
  <2>1. PICK a \in Accounts : \E phone, status, password :
           Holders("seller", phone) = {} /\ account' = [account EXCEPT ![a] = SellerRow(phone, status, password)]
    BY <1>5 DEF CreateSeller
  <2> QED BY <1>2, <2>1 DEF SellerRow
<1>6. ASSUME NEW a \in Accounts, Live(a),
             NEW row \in Edited(a) \cup {[account[a] EXCEPT !.role = role] : role \in {"customer", "admin"}},
             Edit(a, row)
      PROVE  OneRow
  <2>1. account' = [account EXCEPT ![a] = row]
    BY <1>6 DEF Edit
  <2>2. row.kind = account[a].kind /\ (row.phone = account[a].phone \/ Holders(row.kind, row.phone) = {})
    BY <1>t DEF Edited, Account
  <2> QED BY <1>2, <1>3, <1>6, <2>1, <2>2
<1>7. CASE UpdateMember(w)
  BY <1>6, <1>7 DEF UpdateMember, Member
<1>8. CASE UpdateSeller(w)
  BY <1>6, <1>8 DEF UpdateSeller
<1>9. CASE DeleteAccount(w)
  <2>1. PICK a \in Accounts : account' = [account EXCEPT ![a].state = "gone"]
    BY <1>9 DEF DeleteAccount
  <2>2. account' = [account EXCEPT ![a] = [account[a] EXCEPT !.state = "gone"]]
    BY <2>1
  <2> QED BY <1>3, <1>t, <2>2 DEF Account
<1>10. CASE IssueByAdmin(w) \/ ChangeCoupon(w) \/ Household(w) \/ Redeem(w) \/ Fail(w)
  BY <1>10 DEF IssueByAdmin, ChangeCoupon, Household, AddressRead, ClearDefaults, Place, Unplace, AssetRead,
               KeepAsset, DiscardAsset, Redeem, UseRead, Use, Fail
<1>11. CASE RegisterRead(w) \/ CouponRead(w) \/ Issue(w) \/ Raced(w) \/ Answer(w)
  BY <1>11 DEF RegisterRead, CouponRead, Issue, Raced, Answer
<1> QED BY <1>1, <1>4, <1>5, <1>7, <1>8, <1>9, <1>10, <1>11 DEF Acts, Register, Admin

\* Members and sellers keep phones of their own.
LEMMA PhoneUniqueKeeps ==
    ASSUME TypeInv, PhoneUnique, NEW w \in Calls, Acts(w)
    PROVE  PhoneUnique'
<1>1. CASE UNCHANGED account
  BY <1>1 DEF PhoneUnique, Live
<1>2. CASE OneRow
  <2>1. PICK a \in Accounts :
           /\ \A b \in Accounts \ {a} : account'[b] = account[b]
           /\ account'[a].state = "live" =>
                \A b \in Accounts \ {a} :
                   ~(account[b].state = "live" /\ account[b].kind = account'[a].kind
                       /\ account[b].phone = account'[a].phone)
    BY <1>2 DEF OneRow, Live
  <2> SUFFICES ASSUME NEW b \in Accounts, NEW c \in Accounts,
                      account'[b].state = "live", account'[c].state = "live",
                      account'[b].kind = account'[c].kind, account'[b].phone = account'[c].phone
               PROVE  b = c
    BY DEF PhoneUnique, Live
  <2>2. CASE b # a /\ c # a
    BY <2>1, <2>2 DEF PhoneUnique, Live
  <2>3. CASE b = a \/ c = a
    BY <2>1, <2>3
  <2> QED BY <2>2, <2>3
<1> QED BY <1>1, <1>2, WritesOneRow

\* What holders were told stays true, and so does what a registration is going to tell.
LEMMA KnownKeeps ==
    ASSUME TypeInv, CouponInv, RegularInv, NEW w \in Calls, Acts(w), course' = "regular"
    PROVE  Known'
<1>t. /\ CallOK(req[w]) /\ req[w] \in Req /\ account \in [Accounts -> Account]
      /\ told \in [Accounts -> Passwords \cup {Nobody}] /\ req \in [Calls -> Req]
      /\ Nobody \notin Passwords
  BY MembersAssumption DEF TypeInv, TypeOK
<1>r. Known /\ \A v \in Calls \ {w} : req'[v].pc = "idle"
  BY RegularStep DEF RegularInv
<1>k. ASSUME NEW a \in Accounts, account[a].state = "live", told[a] # Nobody PROVE account[a].password = told[a]
  BY <1>k, <1>r DEF Known, Live
<1>1. ASSUME NEW a \in Accounts, account'[a].state = "live", told'[a] # Nobody
      PROVE  account'[a].password = told'[a]
  <2>1. CASE account'[a] = account[a] /\ told'[a] = told[a]
    BY <1>1, <1>k, <2>1
  <2>2. CASE Upsert(w)
    <3>1. PICK b \in Accounts :
              /\ \/ b \in Holders(req[w].kind, req[w].phone)
                 \/ Holders(req[w].kind, req[w].phone) = {} /\ account[b].state = "none"
              /\ \A c \in Accounts \ {b} : account'[c] = account[c]
      BY <2>2, UpsertEffect
    <3>2. told' = told /\ At(w, "upsert")
      BY <2>2 DEF Upsert
    <3>3. told[b] = Nobody
      <4>1. CASE b \in Holders(req[w].kind, req[w].phone)
        BY <1>k, <1>r, <3>2, <4>1 DEF Known, Holders, Live
      <4>2. CASE account[b].state = "none"
        BY <4>2 DEF CouponInv, Born
      <4> QED BY <3>1, <4>1, <4>2
    <3> QED BY <1>1, <2>1, <3>1, <3>2, <3>3
  <2>3. CASE Answer(w)
    <3>1. /\ account' = account /\ told' = [told EXCEPT ![req[w].owner] = req[w].password]
          /\ account[req[w].owner].password = req[w].password
      BY <2>3, <1>r DEF Answer, Known, At, Registering
    <3> QED BY <1>t, <2>1, <3>1
  <2>4. ASSUME NEW b \in Accounts, NEW row, account' = [account EXCEPT ![b] = row],
               told' = [told EXCEPT ![b] = row.password]
        PROVE  account'[a].password = told'[a]
    BY <1>t, <2>1, <2>4
  <2>5. CASE CreateMember(w)
    <3>1. PICK b \in Accounts : \E phone, role, password :
             account' = [account EXCEPT ![b] = MemberRow(phone, role, password)]
               /\ told' = [told EXCEPT ![b] = password]
      BY <2>5 DEF CreateMember
    <3> QED BY <2>4, <3>1 DEF MemberRow
  <2>6. CASE CreateSeller(w)
    <3>1. PICK b \in Accounts : \E phone, status, password :
             account' = [account EXCEPT ![b] = SellerRow(phone, status, password)]
               /\ told' = [told EXCEPT ![b] = password]
      BY <2>6 DEF CreateSeller
    <3> QED BY <2>4, <3>1 DEF SellerRow
  <2>7. CASE UpdateMember(w) \/ UpdateSeller(w)
    <3>1. PICK b \in Accounts : Live(b) /\ \E row : Edit(b, row)
      BY <2>7 DEF UpdateMember, UpdateSeller, Member
    <3>2. PICK row : Edit(b, row)
      BY <3>1
    <3>3. CASE row.password # account[b].password
      BY <2>4, <3>2, <3>3 DEF Edit
    <3>4. CASE row.password = account[b].password
      <4>1. account' = [account EXCEPT ![b] = row] /\ told' = told
        BY <3>2, <3>4, <1>t DEF Edit
      <4>2. CASE a = b
        BY <1>1, <1>k, <1>t, <3>1, <3>4, <4>1, <4>2 DEF Live
      <4> QED BY <1>t, <2>1, <4>1, <4>2
    <3> QED BY <3>3, <3>4
  <2>8. CASE DeleteAccount(w)
    <3>1. told' = told /\ \E b \in Accounts : account' = [account EXCEPT ![b].state = "gone"]
      BY <2>8 DEF DeleteAccount
    <3> QED BY <1>1, <1>t, <2>1, <3>1 DEF Account
  <2>9. CASE IssueByAdmin(w) \/ ChangeCoupon(w) \/ Household(w) \/ Redeem(w) \/ Fail(w)
    BY <2>1, <2>9 DEF IssueByAdmin, ChangeCoupon, Household, AddressRead, ClearDefaults, Place, Unplace, AssetRead,
                 KeepAsset, DiscardAsset, Redeem, UseRead, Use, Fail
  <2>10. CASE RegisterRead(w) \/ CouponRead(w) \/ Issue(w) \/ Raced(w)
    BY <2>1, <2>10 DEF RegisterRead, CouponRead, Issue, Raced
  <2> QED BY <2>2, <2>3, <2>5, <2>6, <2>7, <2>8, <2>9, <2>10 DEF Acts, Register, Admin
<1>2. ASSUME NEW v \in Calls, req'[v].pc = "upsert",
             NEW a \in Accounts, account'[a].state = "live",
             account'[a].kind = req'[v].kind, account'[a].phone = req'[v].phone
      PROVE  account'[a].password = Nobody
  <2>1. v = w /\ RegisterRead(w)
    BY <1>2, <1>r, NewSteps
  <2>2. PICK kind \in Kinds, phone \in Phones, password \in Passwords :
           /\ \A b \in Holders(kind, phone) : account[b].password = Nobody
           /\ Enter(w, [Idle EXCEPT !.pc = "upsert", !.kind = kind, !.phone = phone, !.password = password])
    BY <2>1 DEF RegisterRead
  <2>3. req'[w] = [Idle EXCEPT !.pc = "upsert", !.kind = kind, !.phone = phone, !.password = password]
    BY <2>2, <1>t DEF Enter
  <2>4. req'[w].kind = kind /\ req'[w].phone = phone
    BY <2>3 DEF Idle
  <2>5. account' = account
    BY <2>1 DEF RegisterRead
  <2> QED BY <1>2, <2>1, <2>2, <2>4, <2>5 DEF Holders, Live
<1>3. ASSUME NEW v \in Calls, req'[v].pc \in Registering
      PROVE  account'[req'[v].owner].password = req'[v].password
  <2>1. v = w
    BY <1>3, <1>r DEF Registering
  <2>2. CASE Upsert(w)
    BY <2>1, <2>2, UpsertEffect
  <2>3. CASE ~Upsert(w)
    <3>1. /\ CouponRead(w) \/ Issue(w) \/ Raced(w)
          /\ req[w].pc \in Registering
          /\ req'[w].owner = req[w].owner
          /\ req'[w].password = req[w].password
      BY <1>3, <2>1, <2>3, RegisteringSteps
    <3>2. account[req[w].owner].password = req[w].password
      BY <1>r, <3>1 DEF Known
    <3>3. account' = account
      BY <3>1 DEF CouponRead, Issue, Raced
    <3> QED BY <2>1, <3>1, <3>2, <3>3
  <2> QED BY <2>2, <2>3
<1> QED BY <1>1, <1>2, <1>3 DEF Known, Holders, Live, At

\* What holds while calls do not overlap holds in every state.
THEOREM RegularCorrect == Spec => []RegularInv
<1>1. Init => RegularInv
  BY MembersAssumption
     DEF Init, RegularInv, PhoneUnique, Alone, Defaults, Unused, Known, Live, At, Idle, Unborn, Registering
<1>2. TypeInv /\ CouponInv /\ RegularInv /\ [Next]_vars => RegularInv'
  <2>1. ASSUME RegularInv, UNCHANGED vars PROVE RegularInv'
    BY <2>1 DEF vars, RegularInv, PhoneUnique, Alone, Defaults, Unused, Known, Live, At, Holders
  <2>2. ASSUME TypeInv, CouponInv, RegularInv, NEW w \in Calls, Acts(w) PROVE RegularInv'
    <3>1. PhoneUnique'
      BY <2>2, PhoneUniqueKeeps DEF RegularInv
    <3>2. course' = "regular" => Alone' /\ Defaults' /\ Unused' /\ Known'
      BY <2>2, AloneKeeps, DefaultsKeep, UnusedKeeps, KnownKeeps
    <3> QED BY <3>1, <3>2 DEF RegularInv
  <2> QED BY <2>1, <2>2 DEF Next, Acts
<1> QED BY <1>1, <1>2, TypeCorrect, CouponCorrect, PTL DEF Spec

\* As long as calls do not overlap, also when a statement fails, a member has one
\* default address at most (clearOtherDefaultAddresses).
THEOREM OneDefaultAddressHolds == Spec => []OneDefaultAddress
<1>1. TypeInv /\ RegularInv => OneDefaultAddress
  <2> SUFFICES ASSUME TypeInv, Defaults, NEW a \in Accounts
               PROVE  Cardinality({d \in Owned(address, a) : address[d].default = "yes"}) <= 1
    BY DEF RegularInv, OneDefaultAddress
  <2>1. DOMAIN address = Addresses
    BY DEF TypeInv, TypeOK
  <2>2. \A d, e \in {x \in Owned(address, a) : address[x].default = "yes"} : d = e
    BY <2>1 DEF Defaults, Owned
  <2> QED BY <2>2, AtMostOne
<1> QED BY <1>1, RegularCorrect, TypeCorrect, PTL

\* Under the same condition a coupon is used once until an administrator makes it
\* active again (useMemberCoupon).
THEOREM SpentOnceHolds == Spec => []SpentOnce
<1>1. RegularInv => SpentOnce
  BY DEF RegularInv, Unused, SpentOnce
<1> QED BY <1>1, RegularCorrect, PTL

\* Under the same condition whoever was told a password gets into his account with it
\* (registerMember, registerSeller, unifiedSession).
THEOREM RegisteredGetsInHolds == Spec => []RegisteredGetsIn
<1>1. TypeInv /\ RegularInv => RegisteredGetsIn
  <2> SUFFICES ASSUME TypeInv, RegularInv, course = "regular", NEW a \in Accounts, Live(a), told[a] # Nobody,
                      IF account[a].kind = "member" THEN account[a].status = "active"
                        ELSE Holders("member", account[a].phone) = {}
               PROVE  Session(account[a].phone, told[a]) = {a}
    BY DEF RegisteredGetsIn
  <2>1. account[a].password = told[a]
    BY DEF RegularInv, Known
  <2>2. Holders(account[a].kind, account[a].phone) = {a}
    BY DEF RegularInv, PhoneUnique, Holders
  <2>3. CASE account[a].kind = "member"
    BY <2>1, <2>2, <2>3 DEF Session
  <2>4. CASE account[a].kind # "member"
    <3>1. account[a].kind = "seller"
      BY <2>4 DEF TypeInv, TypeOK, Account, Kinds
    <3> QED BY <2>1, <2>2, <2>4, <3>1 DEF Session
  <2> QED BY <2>3, <2>4
<1> QED BY <1>1, RegularCorrect, TypeCorrect, PTL

=============================================================================
