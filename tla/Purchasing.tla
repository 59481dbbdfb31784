----------------------------- MODULE Purchasing -----------------------------
(***************************************************************************)
(* PurchasingService.createPurchase: a delivery is received in one         *)
(* transaction: purchase, units, counted stock, what the supplier is owed, *)
(* and the jobs that teach the scanner.  One branch and one supplier.      *)
(* The clientUuid is the purchase's identity: a repeated one is answered   *)
(* from the row.                                                           *)
(***************************************************************************)
EXTENDS Inventory, Outbox, Totals

CONSTANTS PurchaseIds,   \* bound: how many deliveries there are
          Deliveries,    \* what may be delivered: units, quantities, codes
          UnitCosts,     \* what an item of a delivery may cost
          ShopBranch     \* the branch that receives

ASSUME PurchasingAssumption ==
    /\ ShopBranch \in Branches
    /\ Jobs = PurchaseIds \X UNION {d.codes : d \in Deliveries}
    /\ \A d \in Deliveries : d.units \subseteq Units /\ d.lines \in Lines

VARIABLES purchase,   \* purchases
          supplier    \* suppliers.balance

buyVars == <<purchase, supplier>>

NoPurchase == [made |-> FALSE, total |-> 0, atDelivery |-> 0, paid |-> 0, status |-> "unpaid"]

PurchaseRow == [made: BOOLEAN, total: Nat, atDelivery: Nat, paid: Nat,
                status: {"unpaid", "partial", "paid"}]

PurchasingTypeOK ==
    /\ purchase \in [PurchaseIds -> PurchaseRow]
    /\ supplier \in Int

PurchasingInit == purchase = [q \in PurchaseIds |-> NoPurchase] /\ supplier = 0

(* purchaseStatusOf; createPurchase has the same cases. *)
PurchaseStatusOf(total, paid) ==
    IF paid >= total THEN "paid" ELSE IF paid > 0 THEN "partial" ELSE "unpaid"

(* An identifier that was registered when the request looked is left out.   *)
(* One registered since then fails the unique index, and with it the whole  *)
(* transaction; registrations are not undone, so that what is left out and  *)
(* what is created is decided by the units as they are.                     *)
Committable(us) == {u \in us : unit[u].status = "absent"}

(* findReplay: another payload under the key is refused, the same one is    *)
(* answered with the purchase it made.                                      *)
Replayed(q) == purchase[q].made

CreatePurchase(q, d, cost, paidNow) ==
    LET us    == Committable(d.units)
        items == Cardinality(us) + TotalOf(Products, d.lines)
        total == cost * items
    IN  /\ ~Replayed(q)
        /\ items > 0
        /\ paidNow <= total
        /\ purchase' = [purchase EXCEPT ![q] = [made |-> TRUE, total |-> total,
              atDelivery |-> paidNow, paid |-> paidNow,
              status |-> PurchaseStatusOf(total, paidNow)]]
        /\ WriteUnits([u \in Units |-> IF u \in us
                          THEN [status |-> "in_stock", branch |-> ShopBranch] ELSE unit[u]])
        /\ stock' = OnLines(stock, ShopBranch, d.lines, ReceiveQuantity)
        /\ supplier' = supplier + (total - paidNow)
        /\ job' = WithQueued({q} \X d.codes)
        /\ UNCHANGED <<receipt, learned, worker, crashes, late, known>>
=============================================================================
