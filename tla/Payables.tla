------------------------------ MODULE Payables ------------------------------
(***************************************************************************)
(* SuppliersService and payable.ts: payments to a supplier, allocated to   *)
(* deliveries.  A payment is reported by one person and confirmed by       *)
(* another; only then does it count.                                       *)
(*                                                                         *)
(* What is owed on a delivery is derived.  `owings' is the history of that *)
(* view: a request reads it on its own connection, also inside its         *)
(* transaction, so nothing keeps it from being out of date when it writes. *)
(***************************************************************************)
EXTENDS Purchasing, Days, Sequences

CONSTANTS SettlementIds,   \* bound: how many payments are reported
          PayAmounts,      \* what a payment may allocate to a delivery
          PayAccounts      \* accounts a supplier is paid from

(* Deliveries and payments are finitely many, amounts are whole cents. *)
ASSUME PayablesAssumption ==
    /\ IsFiniteSet(Products) /\ IsFiniteSet(PurchaseIds) /\ IsFiniteSet(SettlementIds)
    /\ UnitCosts \subseteq Nat /\ PayAmounts \subseteq Nat

VARIABLES settlement,   \* supplier_settlements with their allocations
          owings        \* what has been owed on each delivery, oldest first

payVars == <<settlement, owings>>

NoSettlement == [status |-> "none", amount |-> 0, alloc |-> [q \in PurchaseIds |-> 0],
                 channel |-> "cash", day |-> 0, corrected |-> FALSE, read |-> 1,
                 stamp |-> [day |-> 1, locked |-> FALSE]]

SettlementRow == [status: {"none", "reported", "confirmed"}, amount: Nat,
                  alloc: [PurchaseIds -> Nat], channel: {"cash"} \cup PayAccounts,
                  day: {0} \cup DaySet, corrected: BOOLEAN, read: Nat, stamp: Stamps]

PayablesTypeOK ==
    /\ settlement \in [SettlementIds -> SettlementRow]
    /\ owings \in Seq([PurchaseIds -> Int])

PayablesInit ==
    /\ settlement = [s \in SettlementIds |-> NoSettlement]
    /\ owings = <<[q \in PurchaseIds |-> 0]>>

(* Confirmed allocations to a delivery that no correction has undone        *)
(* (settlementNotCorrected).                                                *)
PaidOn(rows, q) ==
    SumWhere(SettlementIds, LAMBDA s : rows[s].alloc[q],
             LAMBDA s : rows[s].status = "confirmed" /\ ~rows[s].corrected)

(* openPurchases: the total less those.  What was paid at delivery stays    *)
(* out of it.                                                               *)
Owing(buys, rows) == [q \in PurchaseIds |-> buys[q].total - PaidOn(rows, q)]

SeeOwing(buys, rows) ==
    LET view == Owing(buys, rows)
    IN  owings' = IF view = owings[Len(owings)] THEN owings ELSE Append(owings, view)

AllocatedTotal(alloc) == TotalOf(PurchaseIds, alloc)

(* assertAllocationFits and assertStillPayable on a view that was read. *)
Fits(alloc, view) == \A q \in PurchaseIds : alloc[q] > 0 => alloc[q] <= view[q]

(* report: the amount is what the allocations add up to. *)
Report(s, alloc, channel) ==
    /\ settlement[s].status = "none"
    /\ AllocatedTotal(alloc) > 0
    /\ \E n \in DOMAIN owings : Fits(alloc, owings[n])
    /\ settlement' = [settlement EXCEPT ![s] = [NoSettlement EXCEPT !.status = "reported",
          !.amount = AllocatedTotal(alloc), !.alloc = alloc, !.channel = channel,
          !.read = Len(owings), !.stamp = Stamp]]
    /\ UNCHANGED owings

(* UPDATE ... WHERE version = what the caller saw AND status = 'reported':  *)
(* what the handler loaded, allocations included, is the row as it is.      *)
StillReported(s) == settlement[s].status = "reported"

(* correct: another channel, or other allocations of the same amount. *)
Correct(s, alloc, channel) ==
    /\ StillReported(s)
    /\ <<alloc, channel>> # <<settlement[s].alloc, settlement[s].channel>>
    /\ alloc # settlement[s].alloc =>
          /\ AllocatedTotal(alloc) = settlement[s].amount
          /\ \E n \in settlement[s].read..Len(owings) : Fits(alloc, owings[n])
    /\ settlement' = [settlement EXCEPT ![s].alloc = alloc, ![s].channel = channel,
                                        ![s].read = Len(owings), ![s].stamp = Stamp]
    /\ UNCHANGED owings

(* confirm: day check, re-check of what is owed, the row, the balance, and  *)
(* the projection on every delivery it pays.                                *)
Confirm(s, d) ==
    LET rows == [settlement EXCEPT ![s].status = "confirmed", ![s].day = d, ![s].stamp = Stamp]
        buys == [q \in PurchaseIds |-> IF rows[s].alloc[q] = 0 THEN purchase[q]
                    ELSE [purchase[q] EXCEPT !.paid = PaidOn(rows, q),
                             !.status = PurchaseStatusOf(purchase[q].total, PaidOn(rows, q))]]
    IN  /\ StillReported(s)
        /\ SawOpen(settlement[s].stamp, d)
        /\ \E n \in settlement[s].read..Len(owings) : Fits(settlement[s].alloc, owings[n])
        /\ settlement' = rows
        /\ purchase' = buys
        /\ supplier' = supplier - settlement[s].amount
        /\ SeeOwing(buys, rows)

Receive(q, d, cost, paidNow) ==
    /\ CreatePurchase(q, d, cost, paidNow)
    /\ SeeOwing(purchase', settlement)
    /\ UNCHANGED <<settlement, dayVars>>

SettlementNext ==
    \E s \in SettlementIds :
        \/ \E alloc \in [PurchaseIds -> {0} \cup PayAmounts], channel \in {"cash"} \cup PayAccounts :
              /\ Report(s, alloc, channel) \/ Correct(s, alloc, channel)
              /\ UNCHANGED buyVars
        \/ \E d \in DaySet : Confirm(s, d)

DeliveryNext ==
    \E q \in PurchaseIds, d \in Deliveries, cost \in UnitCosts : \E paidNow \in 0..cost :
        Receive(q, d, cost, paidNow)
=============================================================================
