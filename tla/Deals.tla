------------------------------- MODULE Deals -------------------------------
(***************************************************************************)
(* Business between two companies: the connection, the consignments made   *)
(* under it, the loans, and the counter of the source company, which sells *)
(* the same phones.                                                        *)
(***************************************************************************)
EXTENDS Consignments, Loans, Sales

dealVars == <<invVars, connVars, conVars, loanVars, sale>>

DealsInit == InvInit /\ ConnInit /\ ConInit /\ LoanInit /\ SalesInit

DealsNext ==
    \/ ConnNext /\ UNCHANGED <<invVars, conVars, loanVars, sale>>
    \/ InvNext /\ UNCHANGED <<connVars, conVars, loanVars, sale>>
    \/ SalesNext /\ UNCHANGED <<connVars, conVars, loanVars>>
    \/ ConNext /\ UNCHANGED <<loanVars, sale>>
    \/ LoanNext /\ UNCHANGED <<invVars, conVars, sale>>

(* A request that has begun is carried to its end: the status after a       *)
(* ledger entry.                                                            *)
Finishing ==
    /\ \A c \in ConsignmentIds : WF_dealVars(\E p \in closing :
          p.deal = c /\ SettleIfClear(p) /\ UNCHANGED <<loanVars, sale>>)
    /\ \A l \in LoanIds : WF_dealVars(\E f \in following :
          f.loan = l /\ FollowUp(f) /\ UNCHANGED <<invVars, conVars, sale>>)

DealsSpec == DealsInit /\ [][DealsNext]_dealVars /\ Finishing

-----------------------------------------------------------------------------
DealsTypeOK == InvTypeOK /\ ConnTypeOK /\ ConTypeOK /\ LoanTypeOK /\ SalesTypeOK

OnActiveLine(c, u) == deal[c].line[u] \in {"proposed", "in_custody"}

(* A phone out on consignment is on one line that is still open, an open    *)
(* line has its phone, and that phone is on nobody's sale: releaseUnits,    *)
(* reportSold and confirm_return leave nothing behind when decisions race.  *)
(* markFaulty alone takes a phone out of this.                              *)
PhonesAccounted ==
    \A u \in Units :
        /\ unit[u].status = "consigned_out" => \E c \in ConsignmentIds : OnActiveLine(c, u)
        /\ \A c \in ConsignmentIds : OnActiveLine(c, u) =>
              /\ unit[u].status \in {"consigned_out", "faulty"}
              /\ \A d \in ConsignmentIds : OnActiveLine(d, u) => d = c
              /\ \A i \in SaleIds : u \notin sale[i].units

(* What carries it from step to step: the columns it is about, and that a   *)
(* phone on a sale was sold by it.                                          *)
SoldBySale(u) ==
    \A i \in SaleIds : u \in sale[i].units => unit[u].status \in {"sold", "faulty"}
PhonesInv ==
    /\ unit \in [Units -> UnitRow] /\ SalesTypeOK /\ DealColumns
    /\ PhonesAccounted
    /\ \A u \in Units : SoldBySale(u)

(* "Nobody accepts one number and owes another": an agreed consignment      *)
(* carries the last offer on its row, custody and money come only after an  *)
(* agreement, and a called-off deal has neither.                            *)
ConsignmentAgreed(c) ==
    LET d == deal[c] IN
    /\ d.agreed # 0 => d.agreed = OfferOf(d)
    /\ dealRows[c] # <<>> => d.agreed # 0 /\ d.status \in {"sold_awaiting_settlement",
                                 "partially_paid", "settled", "forgiven_settled"}
    /\ d.status = "cancelled" => \A u \in Units : ~OnActiveLine(c, u)

(* decide: an accepted loan has its principal and one ledger row with just  *)
(* that amount, the last offer made, entered by the side that did not make  *)
(* it (or by the owner for somebody without an account).                    *)
PrincipalAgreed(l) ==
    LET accepted == {e \in DOMAIN loanRows[l] : loanRows[l][e].kind = "principal_accepted"}
    IN  /\ loan[l].principal # 0 <=> loan[l].status \in LoanAgreed \cup LoanClosed
        /\ loan[l].principal = 0 => loanRows[l] = <<>>
        /\ loan[l].principal # 0 => \E e \in accepted :
              /\ accepted = {e}
              /\ loanRows[l][e].amount = loan[l].principal
              /\ loan[l].principal = LoanOfferOf(loan[l])
              /\ loan[l].manual \/ loanRows[l][e].by # loan[l].proposedBy

(* Both together: what is owed between two companies is what they agreed.   *)
TermsAgreed ==
    /\ \A c \in ConsignmentIds : ConsignmentAgreed(c)
    /\ \A l \in LoanIds : PrincipalAgreed(l)

(* A consignment is closed only when its ledger says nothing is owed, and   *)
(* it stays so: settleIfClear decides on a ledger read after its own entry. *)
SettledMeansPaid ==
    \A c \in ConsignmentIds :
        deal[c].status \in {"settled", "forgiven_settled"} => Owed(dealRows[c]) <= 0

(* A status that changes in one step is changed by a row of the table. *)
LegalStep ==
    \A c \in ConsignmentIds : deal[c] # NoDeal /\ deal'[c].status # deal[c].status =>
        \E a \in DOMAIN Rules : deal[c].status \in Rules[a].from /\ deal'[c].status = Rules[a].to

(* consignment-lifecycle.ts: every change of status is a row of the table,  *)
(* whoever raced whom; only the custody hand-over brings phones under the   *)
(* hand of the other shop, and money closes no deal that was not sold.      *)
ConsignmentStepsLegal == [][LegalStep]_dealVars

(* settleIfClear: "a consignment whose debt has reached zero" is closed in  *)
(* the end, whatever confirmations and write-offs ran at the same time, and *)
(* so is a loan no payment of which has been reversed.                      *)
ClearedIsClosed ==
    /\ \A c \in ConsignmentIds :
         (dealRows[c] # <<>> /\ Owed(dealRows[c]) <= 0)
             ~> (deal[c].status \in {"settled", "forgiven_settled"})
    /\ \A l \in LoanIds :
         (loanRows[l] # <<>> /\ Owed(loanRows[l]) <= 0)
             ~> (loan[l].status \in LoanClosed \/ Total(loanRows[l], "payment_corrected") > 0)

(* consignment.dto.ts: proposedAmount is "What you are asking, in total".   *)
(* What the other shop is charged for a consignment is at most what was     *)
(* agreed for it.                                                           *)
ChargedAsAgreed ==
    \A c \in ConsignmentIds : Total(dealRows[c], "receivable_raised") <= deal[c].agreed
=============================================================================
