------------------------------ MODULE Returns ------------------------------
(***************************************************************************)
(* ReturnsService: a sold phone comes back, somebody investigates, charges *)
(* are withheld, the return is approved (which reverses the sale in the    *)
(* books) or rejected, and the money due is paid out and confirmed.        *)
(*                                                                         *)
(* Every write of a return raises its version and is conditional on the    *)
(* version the caller saw.  `reqSeen' holds what requests in flight may    *)
(* have loaded: the fields they decide on, charges included.               *)
(***************************************************************************)
EXTENDS Counter, Sequences

CONSTANTS ReturnIds,     \* bound: how many returns are asked for
          Charges,       \* what one adjustment may withhold
          MaxCharges,    \* bound: adjustments on a return at a time
          MaxReturnVersion,
          PayoutIds      \* bound: how many refunds are reported

ASSUME ReturnsAssumption ==
    /\ IsFiniteSet(ReturnIds) /\ IsFiniteSet(PayoutIds)
    /\ Units # {} /\ ReturnIds # {} /\ PayoutIds # {}
    /\ Charges \subseteq Nat /\ MaxCharges \in Nat /\ MaxReturnVersion \in Nat

VARIABLES req,       \* return_requests
          reqSeen,   \* what may have been loaded of each
          charges,   \* return_adjustments, oldest first
          reversal,  \* return_reversals
          payout     \* refund_payouts

returnVars == <<req, reqSeen, charges, reversal, payout>>

ReturnStatus == {"pending_investigation", "under_review", "approved_refund_due", "rejected"}
CustodyStates == {"customer_holds", "store_holds", "handed_back", "retained_hold"}
Roles == {"manager", "owner"}
Responsibility == {"pending", "store_fault", "customer_damage"}

(* return-workflow.ts, TRANSITIONS; decisions are final. *)
ReturnTransitions ==
    [pending_investigation |-> {"under_review", "approved_refund_due", "rejected"},
     under_review          |-> {"approved_refund_due", "rejected"},
     approved_refund_due   |-> {},
     rejected              |-> {}]
AssertEditable(status) == status \in {"pending_investigation", "under_review"}

NoReturn == [status |-> "none", sale |-> CHOOSE i \in SaleIds : TRUE,
             unit |-> CHOOSE u \in Units : TRUE, custody |-> "customer_holds",
             resp |-> "pending", exception |-> FALSE, by |-> "nobody",
             version |-> 0, stamp |-> [day |-> 1, locked |-> FALSE]]
NoReversal == [made |-> FALSE, gross |-> 0, adjustments |-> 0, net |-> 0, day |-> 0]
NoPayout == [status |-> "none", ret |-> CHOOSE r \in ReturnIds : TRUE, amount |-> 0,
             channel |-> "cash", day |-> 0, corrected |-> FALSE,
             stamp |-> [day |-> 1, locked |-> FALSE]]

Sum(amounts) == TotalOf(DOMAIN amounts, amounts)
Without(amounts, n) ==
    [k \in 1..(Len(amounts) - 1) |-> amounts[IF k < n THEN k ELSE k + 1]]

LoadOf(row, withheld) ==
    [status |-> row.status, custody |-> row.custody, resp |-> row.resp,
     version |-> row.version, withheld |-> Sum(withheld)]

ReturnRow == [status: ReturnStatus \cup {"none"}, sale: SaleIds, unit: Units,
              custody: CustodyStates, resp: Responsibility, exception: BOOLEAN,
              by: Roles \cup {"nobody"}, version: 0..MaxReturnVersion, stamp: Stamps]
Loads == [status: ReturnStatus, custody: CustodyStates, resp: Responsibility,
          version: 0..MaxReturnVersion, withheld: Nat]

ReversalRow == [made: BOOLEAN, gross: Nat, adjustments: Nat, net: Nat, day: {0} \cup DaySet]
PayoutRow == [status: {"none", "reported", "confirmed"}, ret: ReturnIds, amount: Nat,
              channel: {"cash"} \cup Accounts, day: {0} \cup DaySet, corrected: BOOLEAN,
              stamp: Stamps]

ReturnsTypeOK ==
    /\ req \in [ReturnIds -> ReturnRow]
    /\ reqSeen \in [ReturnIds -> SUBSET Loads]
    /\ charges \in [ReturnIds -> Seq(Charges)]
    /\ \A r \in ReturnIds : Len(charges[r]) <= MaxCharges
    /\ \A r \in ReturnIds : reqSeen[r] # {} => req[r].status # "none"
    /\ reversal \in [ReturnIds -> ReversalRow]
    /\ payout \in [PayoutIds -> PayoutRow]

(* A load that bears the version of the row is what the row and its charges *)
(* say now; a return is of a phone on a sale.                               *)
LoadsInv ==
    \A r \in ReturnIds :
        /\ \A load \in reqSeen[r] :
              /\ load.version <= req[r].version
              /\ load.version = req[r].version => load = LoadOf(req[r], charges[r])
        /\ req[r].status = "none" => charges[r] = <<>>
        /\ req[r].status # "none" => sale[req[r].sale].made /\ req[r].unit \in sale[req[r].sale].units

(* A phone is on one sale, is claimed by one return that stands, and is     *)
(* back in the shop only if that return has it.                             *)
Claims(r, u) == req[r].status \notin {"none", "rejected"} /\ req[r].unit = u
CustodyInv ==
    \A u \in Units :
        /\ \A i, j \in SaleIds : u \in sale[i].units /\ u \in sale[j].units => i = j
        /\ \A i \in SaleIds : u \in sale[i].units => unit[u].status \in {"sold", "returned", "faulty"}
        /\ unit[u].status = "returned" =>
              \E r \in ReturnIds : Claims(r, u) /\ req[r].custody = "store_holds"
        /\ \A r, q \in ReturnIds : Claims(r, u) /\ Claims(q, u) => r = q

(* A payout is of an approved return, and one that stands at a time. *)
RefundInv ==
    \A p \in PayoutIds : payout[p].status # "none" =>
        /\ reversal[payout[p].ret].made /\ payout[p].amount = reversal[payout[p].ret].net
        /\ \A q \in PayoutIds :
              payout[q].status # "none" /\ payout[q].ret = payout[p].ret
                 /\ ~payout[p].corrected /\ ~payout[q].corrected => p = q

ReturnsInit ==
    /\ req = [r \in ReturnIds |-> NoReturn]
    /\ reqSeen = [r \in ReturnIds |-> {}]
    /\ charges = [r \in ReturnIds |-> <<>>]
    /\ reversal = [r \in ReturnIds |-> NoReversal]
    /\ payout = [p \in PayoutIds |-> NoPayout]

-----------------------------------------------------------------------------
(* grossRefundOf: the line, price times quantity less the line's discount;  *)
(* neither the discount on the sale nor what is still owed comes off.       *)
GrossRefundOf(i) == bill[i].line

(* settleRefund: charges never exceed the gross refund. *)
SettleRefundUnchecked(gross, withheld) == TRUE
SettleRefund(gross, withheld) == withheld <= gross

(* moveUnitForCustody: the state machine first, then a compare-and-swap on  *)
(* the status of the unit.                                                  *)
RecordCustodyOnly(u, from, to) == UNCHANGED invVars
MoveUnitForCustody(u, from, to) ==
    /\ CanTransition(from, to)
    /\ unit[u].status = from
    /\ WriteUnits(WithStatus(unit, {u}, to))
    /\ UNCHANGED <<stock, receipt>>

(* UPDATE ... WHERE version = what the caller saw. *)
SwapBlindly(r, load) == TRUE
SwapHolds(r, load) == req[r].version = load.version

Rewrite(r, row, withheld) ==
    LET next == [row EXCEPT !.version = req[r].version + 1, !.stamp = Stamp]
    IN  /\ next.version <= MaxReturnVersion
        /\ req' = [req EXCEPT ![r] = next]
        /\ charges' = [charges EXCEPT ![r] = withheld]
        /\ reqSeen' = [reqSeen EXCEPT ![r] = @ \cup {LoadOf(next, withheld)}]

Others == UNCHANGED <<sale, tillVars, dayVars>>

(* evaluateEligibility on the policy the receipt promised. *)
Eligible(i) == bill[i].window > 0 /\ today < bill[i].soldOn + bill[i].window

(* The unique key (sale item, claim): one return that is not rejected. *)
ClaimIsFree(i, u) ==
    \A q \in ReturnIds : ~(req[q].sale = i /\ req[q].unit = u
                           /\ req[q].status \notin {"none", "rejected"})

Create(r, i, u, held) ==
    LET row == [NoReturn EXCEPT !.status = "pending_investigation", !.sale = i, !.unit = u,
                   !.custody = IF held THEN "store_holds" ELSE "customer_holds",
                   !.exception = ~Eligible(i), !.stamp = Stamp]
    IN  /\ req[r].status = "none"
        /\ sale[i].made /\ u \in sale[i].units
        /\ ClaimIsFree(i, u)
        /\ req' = [req EXCEPT ![r] = row]
        /\ reqSeen' = [reqSeen EXCEPT ![r] = {LoadOf(row, <<>>)}]
        /\ IF held THEN MoveUnitForCustody(u, "sold", "returned") ELSE UNCHANGED invVars
        /\ UNCHANGED <<charges, reversal, payout>> /\ Others

(* A second tap finds the phone already held and changes nothing. *)
ReceiveCustody(r, load) ==
    /\ AssertEditable(load.status)
    /\ load.custody = "customer_holds"
    /\ SwapHolds(r, load)
    /\ Rewrite(r, [req[r] EXCEPT !.custody = "store_holds"], charges[r])
    /\ MoveUnitForCustody(req[r].unit, "sold", "returned")
    /\ UNCHANGED <<reversal, payout>> /\ Others

Investigate(r, load, resp) ==
    /\ AssertEditable(load.status)
    /\ SwapHolds(r, load)
    /\ Rewrite(r, [req[r] EXCEPT !.status = "under_review", !.resp = resp], charges[r])
    /\ UNCHANGED <<reversal, payout, invVars>> /\ Others

AddAdjustment(r, load, amount) ==
    /\ AssertEditable(load.status)
    /\ Len(charges[r]) < MaxCharges
    /\ SettleRefund(GrossRefundOf(req[r].sale), load.withheld + amount)
    /\ SwapHolds(r, load)
    /\ Rewrite(r, req[r], Append(charges[r], amount))
    /\ UNCHANGED <<reversal, payout, invVars>> /\ Others

RemoveAdjustment(r, load, n) ==
    /\ AssertEditable(load.status)
    /\ n \in DOMAIN charges[r]
    /\ SwapHolds(r, load)
    /\ Rewrite(r, req[r], Without(charges[r], n))
    /\ UNCHANGED <<reversal, payout, invVars>> /\ Others

(* assertMayApprove: a decision needs a finding, and an exception (out of   *)
(* policy, or damage by the customer) needs the owner.                      *)
MayApprove(r, load, role) ==
    /\ load.resp # "pending"
    /\ req[r].exception \/ load.resp = "customer_damage" => role = "owner"

(* The reversal carries the charges as they were read before the            *)
(* transaction; it is booked on the day the handler looked at.              *)
Approve(r, load, role, d) ==
    LET gross == GrossRefundOf(req[r].sale) IN
    /\ "approved_refund_due" \in ReturnTransitions[load.status]
    /\ load.custody = "store_holds"
    /\ MayApprove(r, load, role)
    /\ SettleRefund(gross, load.withheld)
    /\ SawOpen(req[r].stamp, d)
    /\ SwapHolds(r, load) /\ req[r].status = load.status
    /\ Rewrite(r, [req[r] EXCEPT !.status = "approved_refund_due", !.by = role,
                                 !.custody = "retained_hold"], charges[r])
    /\ reversal' = [reversal EXCEPT ![r] = [made |-> TRUE, gross |-> gross,
          adjustments |-> load.withheld, net |-> gross - load.withheld, day |-> d]]
    /\ MoveUnitForCustody(req[r].unit, "returned", "faulty")
    /\ UNCHANGED payout /\ Others

(* A phone the shop holds goes back: the unit is to become sold again. *)
Reject(r, load, role) ==
    LET handingBack == load.custody = "store_holds" IN
    /\ "rejected" \in ReturnTransitions[load.status]
    /\ SwapHolds(r, load) /\ req[r].status = load.status
    /\ Rewrite(r, [req[r] EXCEPT !.status = "rejected", !.by = role,
          !.custody = IF handingBack THEN "handed_back" ELSE load.custody], charges[r])
    /\ IF handingBack THEN MoveUnitForCustody(req[r].unit, "returned", "sold")
                      ELSE UNCHANGED invVars
    /\ UNCHANGED <<reversal, payout>> /\ Others

-----------------------------------------------------------------------------
(* Refunds.  An account is picked among those that were active when the     *)
(* request looked; every account has been.                                  *)

(* The generated column live_key of 0041: one payout that no correction has *)
(* superseded per return.                                                   *)
LiveAnyway(r) == TRUE
NoLivePayout(r) ==
    \A p \in PayoutIds : ~(payout[p].status # "none" /\ payout[p].ret = r /\ ~payout[p].corrected)

(* Approval is final, so a return that was read as approved still is. *)
ReportRefund(p, r, channel) ==
    /\ payout[p].status = "none"
    /\ req[r].status = "approved_refund_due" /\ reversal[r].made
    /\ reversal[r].net # 0
    /\ NoLivePayout(r)
    /\ payout' = [payout EXCEPT ![p] = [status |-> "reported", ret |-> r,
          amount |-> reversal[r].net, channel |-> channel, day |-> 0, corrected |-> FALSE,
          stamp |-> Stamp]]
    /\ UNCHANGED <<req, reqSeen, charges, reversal, invVars>> /\ Others

(* correctRefund and confirmRefund are conditional on the version and on    *)
(* "reported", so that what they loaded is the row as it is.  They take any *)
(* payout of the return: findFirst names no order.                          *)
CorrectRefund(p, channel) ==
    /\ payout[p].status = "reported"
    /\ channel # payout[p].channel
    /\ payout' = [payout EXCEPT ![p].channel = channel, ![p].stamp = Stamp]
    /\ UNCHANGED <<req, reqSeen, charges, reversal, invVars>> /\ Others

ConfirmRefund(p, d) ==
    /\ payout[p].status = "reported"
    /\ SawOpen(payout[p].stamp, d)
    /\ payout' = [payout EXCEPT ![p].status = "confirmed", ![p].day = d, ![p].stamp = Stamp]
    /\ UNCHANGED <<req, reqSeen, charges, reversal, invVars>> /\ Others

ReturnNext ==
    \E r \in ReturnIds :
        \/ \E i \in SaleIds, u \in Units, held \in BOOLEAN : Create(r, i, u, held)
        \/ \E load \in reqSeen[r] :
              \/ ReceiveCustody(r, load)
              \/ \E resp \in Responsibility : Investigate(r, load, resp)
              \/ \E amount \in Charges : AddAdjustment(r, load, amount)
              \/ \E n \in 1..MaxCharges : RemoveAdjustment(r, load, n)
              \/ \E role \in Roles : Reject(r, load, role)
              \/ \E role \in Roles, d \in DaySet : Approve(r, load, role, d)
        \/ \E p \in PayoutIds, channel \in {"cash"} \cup Accounts : ReportRefund(p, r, channel)

RefundNext ==
    \E p \in PayoutIds : \/ \E channel \in {"cash"} \cup Accounts : CorrectRefund(p, channel)
                         \/ \E d \in DaySet : ConfirmRefund(p, d)

-----------------------------------------------------------------------------
(* recomputeDaily: what the returns approved on a day take back. *)
Approved(d, r) == reversal[r].made /\ reversal[r].day = d
ReturnsGross(d) == SumWhere(ReturnIds, LAMBDA r : reversal[r].gross, LAMBDA r : Approved(d, r))
ReturnsKept(d) == SumWhere(ReturnIds, LAMBDA r : reversal[r].adjustments, LAMBDA r : Approved(d, r))
ReturnsCogs(d) == SumWhere(ReturnIds, LAMBDA r : ItemCost, LAMBDA r : Approved(d, r))
EffectWithoutCost(d) == ReturnsGross(d) - ReturnsKept(d)
ReturnsEffect(d) == ReturnsGross(d) - ReturnsKept(d) - ReturnsCogs(d)

-----------------------------------------------------------------------------
(* approve: a return has its reversal exactly when it is approved, and what *)
(* the reversal withholds is what the charges on the return add up to,      *)
(* although they were read before the transaction.                          *)
ReversalMatches ==
    \A r \in ReturnIds :
        /\ reversal[r].made <=> req[r].status = "approved_refund_due"
        /\ reversal[r].made => /\ reversal[r].adjustments = Sum(charges[r])
                               /\ reversal[r].net = bill[req[r].sale].line - Sum(charges[r])

(* The reversal takes back the line of the sale. *)
GrossInv == \A r \in ReturnIds : reversal[r].made => reversal[r].gross = bill[req[r].sale].line

(* CUSTODY_UNIT_STATUS: "custody and unit status are two records of one     *)
(* physical fact".  They agree, except that markFaulty may have struck.     *)
CustodyMatches ==
    \A r \in ReturnIds : LET s == unit[req[r].unit].status IN
        req[r].status \notin {"none", "rejected"} =>
            CASE req[r].custody = "customer_holds" -> s \in {"sold", "faulty"}
              [] req[r].custody = "store_holds"    -> s \in {"returned", "faulty"}
              [] req[r].custody = "retained_hold"  -> s = "faulty"
              [] OTHER -> FALSE

(* How many items of a sale have come back. *)
Back(i) == Cardinality({r \in ReturnIds : reversal[r].made /\ req[r].sale = i})

(* recomputeDaily, first comment: "COGS is NOT credited back. [...] So the  *)
(* profit impact of an approved return is the full net refund", on the day  *)
(* of the approval.  The code below that comment does credit the cost back. *)
ImpactIsNetRefund ==
    \A d \in DaySet : ReturnsEffect(d)
        = SumWhere(ReturnIds, LAMBDA r : reversal[r].net, LAMBDA r : Approved(d, r))

(* recomputeDaily, second comment: "Across a sale and its return this       *)
(* leaves cumulative profit equal to the adjustments alone", on whatever    *)
(* days the two fall.  It contradicts the first (ImpactIsNetRefund); it is  *)
(* the one the code follows, by crediting the cost back.                    *)
ReturnLeavesAdjustments ==
    NetOf(DaySet, [d \in DaySet |-> GrossProfit(d) - ReturnsEffect(d)])
      = NetOf(SaleIds, [i \in SaleIds |->
                IF sale[i].made THEN (bill[i].line - ItemCost) * (bill[i].items - Back(i)) ELSE 0])
        + SumWhere(ReturnIds, LAMBDA r : Sum(charges[r]), LAMBDA r : reversal[r].made)
=============================================================================
