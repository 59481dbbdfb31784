-------------------------------- MODULE Shop --------------------------------
(***************************************************************************)
(* The company's goods as a whole: receiving, pricing, branch transfers    *)
(* and counter sales act on the same units and the same stock rows, in any *)
(* order and each on what it read some time ago.                           *)
(***************************************************************************)
EXTENDS Transfers, Sales, Totals

(* There are finitely many branches, and finitely many rows at any time. *)
ASSUME ShopAssumption ==
    IsFiniteSet(Branches) /\ IsFiniteSet(TransferIds) /\ IsFiniteSet(SaleIds) /\ IsFiniteSet(ReceiptIds)

vars == <<invVars, override, trVars, sale>>

Init == InvInit /\ PricingInit /\ TransfersInit /\ SalesInit

Next ==
    \/ InvNext /\ UNCHANGED <<override, trVars, sale>>
    \/ PricingNext /\ UNCHANGED <<trVars, sale>>
    \/ TransfersNext /\ UNCHANGED sale
    \/ SalesNext /\ UNCHANGED <<override, trVars>>

Spec == Init /\ [][Next]_vars

-----------------------------------------------------------------------------
TypeOK == InvTypeOK /\ PricingTypeOK /\ TransfersTypeOK /\ SalesTypeOK

Reserving(t) == transfer[t].status \in ReservingStatuses
Shipped(t)   == transfer[t].status \in {"in_transit", "received"}

(* Where a transfer still has a hand on a unit: promised before shipment,   *)
(* under way (or missing at the destination) after it.                      *)
Promised(t, u)   == Reserving(t) /\ u \in transfer[t].units
Travelling(t, u) == Shipped(t) /\ u \in transfer[t].units \ transfer[t].arrived
Holds(t, u)      == Promised(t, u) \/ Travelling(t, u)
Bought(i, u)     == u \in sale[i].units

OneClaim(u) ==
    /\ \A t1, t2 \in TransferIds : Holds(t1, u) /\ Holds(t2, u) => t1 = t2
    /\ \A i, j \in SaleIds : Bought(i, u) /\ Bought(j, u) => i = j
    /\ \A t \in TransferIds, i \in SaleIds : ~(Holds(t, u) /\ Bought(i, u))

(* A phone is promised to one transfer at most, and never while it is on a  *)
(* sale: the compare-and-swap on in_stock of create and createSale is what  *)
(* decides who gets it, whatever each of them read before.                  *)
OneClaimPerUnit == \A u \in Units : OneClaim(u)

StatusIsTrue(u) ==
    /\ unit[u].status = "reserved"   => \E t \in TransferIds : Promised(t, u)
    /\ unit[u].status = "in_transit" => \E t \in TransferIds : Travelling(t, u)
    /\ unit[u].status = "sold"       => \E i \in SaleIds : Bought(i, u)
    /\ \A t \in TransferIds : Promised(t, u) => unit[u].status \in {"reserved", "faulty"}
    /\ \A t \in TransferIds : Travelling(t, u) => unit[u].status \in {"in_transit", "faulty"}
    /\ \A i \in SaleIds : Bought(i, u) => unit[u].status \in {"sold", "faulty"}

(* The status of a unit and the rows that claim it agree: a reserved unit   *)
(* has its open transfer, a unit in transit its shipment, a sold one its    *)
(* sale, and conversely; markFaulty alone takes a unit out of this.         *)
StatusMatchesClaims == \A u \in Units : StatusIsTrue(u)

(* What makes the swap on the version sound: a load with the version the    *)
(* row still has shows the status the row still has, and nobody has seen a  *)
(* version that is yet to come.                                             *)
SeenIsHistory ==
    \A t \in TransferIds : \A load \in seen[t] :
        /\ load.version <= transfer[t].version
        /\ load.version = transfer[t].version => load.status = transfer[t].status

(* A transfer that does not exist has not been read; one that has not been  *)
(* received has delivered nothing; a sale not made has no items.            *)
RowsWellFormed ==
    /\ \A t \in TransferIds :
          /\ transfer[t].status = "none" => transfer[t] = NoRow /\ seen[t] = {}
          /\ transfer[t].status # "received" => transfer[t].arrived = {}
    /\ \A i \in SaleIds : ~sale[i].made => sale[i] = NoSale

(* The inductive invariant behind OneClaimPerUnit and StatusMatchesClaims. *)
ClaimsInv ==
    /\ TypeOK
    /\ SeenIsHistory
    /\ RowsWellFormed
    /\ OneClaimPerUnit
    /\ StatusMatchesClaims

(* A phone whose transfer has not arrived is still booked at the branch it  *)
(* leaves: nothing but a receipt changes the branch of a unit.              *)
HeldAtSource ==
    \A t \in TransferIds, u \in Units : Holds(t, u) => unit[u].branch = transfer[t].from

(* What a transfer still blocks of a product at a branch, and the total. *)
PromisedBy(p, b) ==
    [t \in TransferIds |->
        IF Reserving(t) /\ transfer[t].from = b THEN transfer[t].lines[p] ELSE 0]
PromisedFrom(p, b) == TotalOf(TransferIds, PromisedBy(p, b))

(* reserved_quantity is exactly what the open transfers of the branch have  *)
(* been promised, and the shelf covers it: sales, shipments, releases and   *)
(* repeated decisions never leave a promise without goods or goods blocked  *)
(* by nobody.                                                               *)
ReservedIsPromised ==
    \A p \in Products, b \in Branches :
        /\ stock[p][b].reserved = PromisedFrom(p, b)
        /\ stock[p][b].reserved <= stock[p][b].quantity

OnShelves(p) == TotalOf(Branches, [b \in Branches |-> stock[p][b].quantity])
UnderWay(p)  == TotalOf(TransferIds, [t \in TransferIds |->
                   IF transfer[t].status = "in_transit" THEN transfer[t].lines[p] ELSE 0])
SoldOf(p)    == TotalOf(SaleIds, [i \in SaleIds |-> sale[i].lines[p]])
BoughtOf(p)  == TotalOf(ReceiptIds, [r \in ReceiptIds |-> receipt[r].line[p]])

(* Counted goods are neither created nor lost: everything ever received is  *)
(* on a shelf, on the road or sold.  A shipment or a receipt applied twice, *)
(* or a sale of what has left, would break the balance.                     *)
QuantityConserved ==
    \A p \in Products : OnShelves(p) + UnderWay(p) + SoldOf(p) = BoughtOf(p)

(* A clientUuid stands for one movement of goods: one receipt, one sale,    *)
(* one transfer, and whoever asks again with it is told of that transfer    *)
(* and had asked for just those goods and that destination.                 *)
KeyedOnce ==
    /\ \A r1, r2 \in ReceiptIds : receipt[r1].key = receipt[r2].key /\ receipt[r1].key # NoKey => r1 = r2
    /\ \A i, j \in SaleIds : sale[i].key = sale[j].key /\ sale[i].key # NoKey => i = j
    /\ \A a1, a2 \in answered : a1.key = a2.key => a1.transfer = a2.transfer
    /\ \A a \in answered :
          LET row == transfer[a.transfer] IN
          /\ row.key = a.key
          /\ <<row.to, row.units, row.lines>> = <<a.request.to, a.request.units, a.request.lines>>

(* The inductive invariant behind it: the unique index on the keys of       *)
(* transfers is what makes two answers under one key the same row.          *)
KeysInv ==
    /\ TypeOK
    /\ KeyedOnce
    /\ \A s, t \in TransferIds : transfer[s].key = transfer[t].key /\ transfer[s].key # NoKey => s = t

(* transfer-lines.ts: "The source branch is included: the same key sent     *)
(* from another branch is a different movement of different goods."  A      *)
(* caller answered with a transfer asked from the branch it leaves.         *)
AnsweredAtSource ==
    \A a \in answered : transfer[a.transfer].from = a.request.from

(* transitionTx: two people deciding on one transfer (approve and reject,   *)
(* ship and cancel) never both succeed; every status change is one the      *)
(* table allows, takes one version, and a finished transfer never changes.  *)
TransferStepsLegal ==
    [][\A t \in TransferIds : transfer'[t] # transfer[t] /\ transfer[t] # NoRow =>
          /\ CanTransferTransition(transfer[t].status, transfer'[t].status)
          /\ transfer'[t].version = transfer[t].version + 1]_vars

(* unit-state-machine.ts, "The legal unit lifecycle": a unit changes status *)
(* only along its table.                                                    *)
UnitStepsLegal ==
    [][\A u \in Units : unit'[u].status # unit[u].status /\ unit[u].status # "absent" =>
          CanTransition(unit[u].status, unit'[u].status)]_vars

(* The same, for every step but the one into faulty, and a step that moves  *)
(* a unit to another branch is the arrival of a transfer to that branch.    *)
UnitStep ==
    \A u \in Units : unit[u].status # "absent" =>
        /\ unit'[u].status \in {unit[u].status, "faulty"}
              \/ CanTransition(unit[u].status, unit'[u].status)
        /\ unit'[u].branch # unit[u].branch =>
              \E t \in TransferIds : /\ Holds(t, u)
                                     /\ transfer'[t].to = unit'[u].branch
                                     /\ u \in transfer'[t].arrived

UnitStepsLegalButFaulty == [][UnitStep]_vars

(* overrideApplies: the price of a phone is in force where the phone is. *)
OverrideApplies(u) == override[u] # NoOverride /\ override[u].branch = unit[u].branch

(* invalidateOnBranchMoveTx: "a phone that comes back later must not        *)
(* silently resurrect a price nobody re-approved".  A price comes into      *)
(* force only by being set, never because the phone has moved.              *)
OverrideStep ==
    \A u \in Units : OverrideApplies(u)' /\ ~OverrideApplies(u) => override'[u] # override[u]

NoPriceResurrected == [][OverrideStep]_vars

(* The inductive invariant behind it: nobody has read or priced a unit      *)
(* that is not registered yet.                                              *)
PriceInv ==
    /\ TypeOK
    /\ \A u \in Units : unit[u].status = "absent" =>
          override[u] = NoOverride /\ \A row \in past[u] : row.status = "absent"

(* assertUnitPriceable: "Only a unit that could actually be sold may be     *)
(* given its own price."  A price is set on a unit that is on the shelf.    *)
PricedOnShelf ==
    [][\A u \in Units : override'[u] \notin {override[u], NoOverride} =>
          unit[u].status = "in_stock"]_vars

-----------------------------------------------------------------------------
(* Where each phone is, told from the rows of transfers and sales alone. *)
Registered == {u \in Units : unit[u].status # "absent"}
PromisedTo == [u \in Units |-> {t \in TransferIds : Promised(t, u)}]
CarriedBy  == [u \in Units |-> {t \in TransferIds : Travelling(t, u)}]
SoldOn     == [u \in Units |-> {i \in SaleIds : Bought(i, u)}]

Hold == INSTANCE Custody
        WITH Goods <- Units, Carriers <- TransferIds, Buyers <- SaleIds,
             registered <- Registered, promised <- PromisedTo,
             travelling <- CarriedBy, sold <- SoldOn

(* The whole shop implements Custody: whatever its requests have read, each *)
(* transaction is one of the moves of that specification, or none.          *)
InCustody == Hold!Spec
=============================================================================
