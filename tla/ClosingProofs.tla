---------------------------- MODULE ClosingProofs ----------------------------
(***************************************************************************)
(* Proofs about corrections of payments, the figures of a day and the      *)
(* closing of days, on top of the parts of a branch (BranchProofs).        *)
(***************************************************************************)
EXTENDS Closing, BranchProofs

-----------------------------------------------------------------------------
(* Payments and their corrections. *)

(* What a correction copies of a payment. *)
LEMMA PaymentType ==
    ASSUME ReturnsTypeOK, PayablesTypeOK, NEW t \in Targets
    PROVE  /\ PaymentOf(t).amount \in Nat
           /\ PaymentOf(t).channel \in {"cash"} \cup Accounts \cup PayAccounts
<1>1. CASE t \in PayoutIds
  <2>1. payout[t] \in PayoutRow
    BY <1>1, Zenon DEF ReturnsTypeOK
  <2> QED BY <1>1, <2>1, Zenon DEF PaymentOf, PayoutRow
<1>2. CASE t \notin PayoutIds
  <2>1. settlement[t] \in SettlementRow
    BY <1>2, Zenon DEF PayablesTypeOK, Targets
  <2> QED BY <1>2, <2>1, Zenon DEF PaymentOf, SettlementRow
<1> QED BY <1>1, <1>2, Zenon

(* A payment is marked corrected, in whichever table it is. *)
LEMMA MarkType ==
    /\ ReturnsTypeOK => \A t \in PayoutIds :
          [payout EXCEPT ![t].corrected = TRUE] \in [PayoutIds -> PayoutRow]
    /\ PayablesTypeOK => \A t \in SettlementIds :
          [settlement EXCEPT ![t].corrected = TRUE] \in [SettlementIds -> SettlementRow]
<1>1. ASSUME ReturnsTypeOK, NEW t \in PayoutIds
      PROVE  [payout EXCEPT ![t].corrected = TRUE] \in [PayoutIds -> PayoutRow]
  <2>1. payout \in [PayoutIds -> PayoutRow] /\ payout[t] \in PayoutRow
    BY <1>1, Zenon DEF ReturnsTypeOK
  <2>2. [payout[t] EXCEPT !.corrected = TRUE] \in PayoutRow
    BY <2>1, Zenon DEF PayoutRow
  <2> QED BY <2>1, <2>2, Zenon
<1>2. ASSUME PayablesTypeOK, NEW t \in SettlementIds
      PROVE  [settlement EXCEPT ![t].corrected = TRUE] \in [SettlementIds -> SettlementRow]
  <2>1. settlement \in [SettlementIds -> SettlementRow] /\ settlement[t] \in SettlementRow
    BY <1>2, Zenon DEF PayablesTypeOK
  <2>2. [settlement[t] EXCEPT !.corrected = TRUE] \in SettlementRow
    BY <2>1, Zenon DEF SettlementRow
  <2> QED BY <2>1, <2>2, Zenon
<1> QED BY <1>1, <1>2, Zenon

(* request, approve, reject, and the mark on the payout. *)
LEMMA CorrectionType ==
    ASSUME SumLaws, DaysTypeOK, ReturnsTypeOK, PurchasingTypeOK, PayablesTypeOK, CorrectionsTypeOK,
           NEW c \in CorrectionIds, CorrectionStep(c),
           c \in superseding => corr[c].target \in PayoutIds
    PROVE  /\ payout' \in [PayoutIds -> PayoutRow]
           /\ PayablesTypeOK' /\ CorrectionsTypeOK'
<1>1. /\ corr \in [CorrectionIds -> CorrectionRow] /\ corr[c] \in CorrectionRow
      /\ superseding \subseteq CorrectionIds /\ payout \in [PayoutIds -> PayoutRow]
  BY Zenon DEF CorrectionsTypeOK, ReturnsTypeOK
<1>2. Stamp \in Stamps
  BY StampType, Zenon
<1>3. ASSUME NEW t \in Targets, Request(c, t)
      PROVE  payout' \in [PayoutIds -> PayoutRow] /\ PayablesTypeOK' /\ CorrectionsTypeOK'
  <2> DEFINE row == [status |-> "requested", target |-> t, amount |-> PaymentOf(t).amount,
                     channel |-> PaymentOf(t).channel, day |-> 0, stamp |-> Stamp]
  <2>1. row \in CorrectionRow
    BY <1>2, PaymentType, Zenon DEF CorrectionRow
  <2>2. corr' = [corr EXCEPT ![c] = row] /\ UNCHANGED <<superseding, payout, settlement, owings>>
    BY <1>3, Zenon DEF Request
  <2> HIDE DEF row
  <2> QED BY <1>1, <2>1, <2>2, Zenon DEF CorrectionsTypeOK, PayablesTypeOK
<1>4. ASSUME NEW d \in DaySet, ApproveCorrection(c, d)
      PROVE  payout' \in [PayoutIds -> PayoutRow] /\ PayablesTypeOK' /\ CorrectionsTypeOK'
  <2> DEFINE row  == [corr[c] EXCEPT !.status = "approved", !.day = d]
             rows == IF corr[c].target \in SettlementIds
                     THEN [settlement EXCEPT ![corr[c].target].corrected = TRUE] ELSE settlement
  <2>1. row \in CorrectionRow
    BY <1>1, Zenon DEF CorrectionRow
  <2>2. rows \in [SettlementIds -> SettlementRow]
    BY MarkType, Zenon DEF PayablesTypeOK
  <2>3. /\ corr' = [corr EXCEPT ![c].status = "approved", ![c].day = d]
        /\ superseding' \subseteq superseding \cup {c}
        /\ settlement' = rows /\ SeeOwing(purchase, rows) /\ UNCHANGED payout
    BY <1>4, Zenon DEF ApproveCorrection
  <2>4. corr' = [corr EXCEPT ![c] = row]
    BY <2>3, Zenon
  <2> HIDE DEF row, rows
  <2>5. owings' \in Seq([PurchaseIds -> Int])
    BY <2>2, <2>3, OwingType, Zenon DEF PurchasingTypeOK
  <2>6. CorrectionsTypeOK'
    BY <1>1, <2>1, <2>3, <2>4, Zenon DEF CorrectionsTypeOK
  <2> QED BY <1>1, <2>2, <2>3, <2>5, <2>6, Zenon DEF PayablesTypeOK
<1>5. ASSUME Supersede(c)
      PROVE  payout' \in [PayoutIds -> PayoutRow] /\ PayablesTypeOK' /\ CorrectionsTypeOK'
  BY <1>1, <1>5, MarkType, Zenon DEF Supersede, CorrectionsTypeOK, PayablesTypeOK
<1>6. ASSUME RejectCorrection(c)
      PROVE  payout' \in [PayoutIds -> PayoutRow] /\ PayablesTypeOK' /\ CorrectionsTypeOK'
  <2> DEFINE row  == [corr[c] EXCEPT !.status = "rejected"]
  <2>1. row \in CorrectionRow
    BY <1>1, Zenon DEF CorrectionRow
  <2>2. /\ corr' = [corr EXCEPT ![c] = row]
        /\ UNCHANGED <<superseding, payout, settlement, owings>>
    BY <1>6, Zenon DEF RejectCorrection
  <2> HIDE DEF row
  <2> QED BY <1>1, <2>1, <2>2, Zenon DEF CorrectionsTypeOK, PayablesTypeOK
<1> QED BY <1>3, <1>4, <1>5, <1>6, Zenon DEF CorrectionStep

(* A step only confirms or marks payments; a confirmed one keeps what it    *)
(* says.                                                                    *)
PayoutsStand ==
    \A p \in PayoutIds :
        /\ payout[p].status # "none" =>
              /\ payout'[p].status # "none" /\ payout'[p].ret = payout[p].ret
              /\ payout'[p].amount = payout[p].amount
              /\ payout[p].status = "confirmed" => payout'[p].status = "confirmed"
              /\ payout[p].corrected => payout'[p].corrected
        /\ payout'[p].corrected =>
              payout[p].corrected \/ \E c \in superseding : corr[c].target = p
SettlementsStand ==
    \A s \in SettlementIds : settlement[s].status = "confirmed" =>
        settlement'[s].status = "confirmed" /\ settlement'[s].amount = settlement[s].amount

(* A request on a return leaves the payouts there are. *)
LEMMA RequestsStand == ASSUME ReturnsTypeOK, ReturnNext PROVE PayoutsStand
<1>1. payout \in [PayoutIds -> PayoutRow]
  BY Zenon DEF ReturnsTypeOK
<1>2. ASSUME NEW p \in PayoutIds, NEW r \in ReturnIds, NEW channel, ReportRefund(p, r, channel)
      PROVE  PayoutsStand
  BY <1>1, <1>2, Zenon DEF ReportRefund, PayoutsStand
<1>3. UNCHANGED payout => PayoutsStand
  BY Zenon DEF PayoutsStand
<1> QED BY <1>2, <1>3, RequestsLeave, Zenon

(* Rewriting and confirming a refund keep what it pays, and start none. *)
LEMMA RefundsStand ==
    ASSUME ReturnsTypeOK, RefundNext
    PROVE  /\ PayoutsStand
           /\ \A p \in PayoutIds : payout'[p].status # "none" => payout[p].status # "none"
<1>1. payout \in [PayoutIds -> PayoutRow]
  BY Zenon DEF ReturnsTypeOK
<1>2. ASSUME NEW p \in PayoutIds, NEW channel, CorrectRefund(p, channel)
      PROVE  /\ PayoutsStand
             /\ \A q \in PayoutIds : payout'[q].status # "none" => payout[q].status # "none"
  BY <1>1, <1>2, Zenon DEF CorrectRefund, PayoutsStand, PayoutRow
<1>3. ASSUME NEW p \in PayoutIds, NEW d, ConfirmRefund(p, d)
      PROVE  /\ PayoutsStand
             /\ \A q \in PayoutIds : payout'[q].status # "none" => payout[q].status # "none"
  BY <1>1, <1>3, Zenon DEF ConfirmRefund, PayoutsStand, PayoutRow
<1> QED BY <1>2, <1>3, Zenon DEF RefundNext

(* A confirmed supplier payment stays as it was confirmed. *)
LEMMA ReportsStand == ASSUME PayablesTypeOK, SettlementNext PROVE SettlementsStand
<1>1. settlement \in [SettlementIds -> SettlementRow]
  BY Zenon DEF PayablesTypeOK
<1>2. PICK s \in SettlementIds :
        \/ \E alloc, channel : Report(s, alloc, channel) \/ Correct(s, alloc, channel)
        \/ \E d \in DaySet : Confirm(s, d)
  BY Zenon DEF SettlementNext
<1>3. ASSUME NEW alloc, NEW channel, Report(s, alloc, channel) \/ Correct(s, alloc, channel)
      PROVE  settlement[s].status # "confirmed"
             /\ \E row : settlement' = [settlement EXCEPT ![s] = row]
  BY <1>3, Zenon DEF Report, Correct, StillReported
<1>4. ASSUME NEW d, Confirm(s, d)
      PROVE  settlement[s].status # "confirmed"
             /\ \E row : settlement' = [settlement EXCEPT ![s] = row]
  BY <1>4, Zenon DEF Confirm, StillReported
<1> QED BY <1>1, <1>2, <1>3, <1>4, Zenon DEF SettlementsStand

(* A correction marks payments, and changes nothing else about them. *)
LEMMA CorrectionsStand ==
    ASSUME ReturnsTypeOK, PayablesTypeOK, CorrectionsNext,
           \A c \in superseding : corr[c].target \in PayoutIds
    PROVE  /\ PayoutsStand /\ SettlementsStand
           /\ \A p \in PayoutIds : payout'[p].status # "none" => payout[p].status # "none"
<1>1. payout \in [PayoutIds -> PayoutRow] /\ settlement \in [SettlementIds -> SettlementRow]
  BY Zenon DEF ReturnsTypeOK, PayablesTypeOK
<1>2. UNCHANGED payout =>
         PayoutsStand /\ \A p \in PayoutIds : payout'[p].status # "none" => payout[p].status # "none"
  BY Zenon DEF PayoutsStand
<1>3. UNCHANGED settlement => SettlementsStand
  BY Zenon DEF SettlementsStand
<1>4. PICK c \in CorrectionIds : CorrectionStep(c)
  BY Zenon DEF CorrectionsNext
<1>5. ASSUME NEW t, Request(c, t) PROVE UNCHANGED <<payout, settlement>>
  BY <1>5, Zenon DEF Request
<1>6. ASSUME NEW d, ApproveCorrection(c, d) PROVE UNCHANGED payout /\ SettlementsStand
  BY <1>1, <1>6, Zenon DEF ApproveCorrection, SettlementsStand, SettlementRow
<1>7. ASSUME Supersede(c)
      PROVE  /\ PayoutsStand /\ UNCHANGED settlement
             /\ \A p \in PayoutIds : payout'[p].status # "none" => payout[p].status # "none"
  <2>1. c \in superseding /\ UNCHANGED settlement
        /\ payout' = [payout EXCEPT ![corr[c].target].corrected = TRUE]
    BY <1>7, Zenon DEF Supersede
  <2>2. PayoutsStand
    BY <1>1, <2>1, Zenon DEF PayoutsStand, PayoutRow
  <2>3. \A p \in PayoutIds : payout'[p].status = payout[p].status
    BY <1>1, <2>1, Zenon DEF PayoutRow
  <2> QED BY <2>1, <2>2, <2>3, Zenon
<1>8. ASSUME RejectCorrection(c) PROVE UNCHANGED <<payout, settlement>>
  BY <1>8, Zenon DEF RejectCorrection
<1> QED BY <1>2, <1>3, <1>4, <1>5, <1>6, <1>7, <1>8, Zenon DEF CorrectionStep

(* Corrections copy payments that stand, and are approved one at a time. *)
LEMMA CorrectionsKept ==
    ASSUME CorrectionsTypeOK, CorrectionInv, PayoutsStand, SettlementsStand,
           CorrectionsNext \/ UNCHANGED correctionVars
    PROVE  CorrectionInv'
<1>1. /\ corr \in [CorrectionIds -> CorrectionRow] /\ superseding \subseteq CorrectionIds
      /\ \A c \in CorrectionIds : corr[c].target \in Targets
      /\ PayoutIds \cap SettlementIds = {}
  BY CorrectionsAssumption, Zenon DEF CorrectionsTypeOK, CorrectionRow, CorrectionsAssumption
<1>2. \A t \in Targets : PaymentOf(t).status = "confirmed" =>
         PaymentOf(t)'.status = "confirmed" /\ PaymentOf(t)'.amount = PaymentOf(t).amount
  BY Zenon DEF PayoutsStand, SettlementsStand, PaymentOf, Targets
<1>3. \A p \in PayoutIds : payout'[p].corrected => Undone(p)
  BY <1>1 DEF CorrectionInv, PayoutsStand, Undone
<1>4. CASE UNCHANGED correctionVars
  BY <1>1, <1>2, <1>3, <1>4, SMTT(30) DEF CorrectionInv, Undone, correctionVars
<1>5. ASSUME NEW c \in CorrectionIds, NEW t \in Targets, Request(c, t) PROVE CorrectionInv'
  <2>1. /\ PaymentOf(t).status = "confirmed" /\ corr[c].status = "none"
        /\ corr' = [corr EXCEPT ![c] = [status |-> "requested", target |-> t,
              amount |-> PaymentOf(t).amount, channel |-> PaymentOf(t).channel, day |-> 0,
              stamp |-> Stamp]]
        /\ UNCHANGED superseding
    BY <1>5, Zenon DEF Request
  <2>2. /\ \A e \in CorrectionIds : e # c => corr'[e] = corr[e]
        /\ corr'[c].status = "requested" /\ corr'[c].target = t
        /\ corr'[c].amount = PaymentOf(t).amount
    BY <1>1, <2>1, Zenon
  <2> QED BY <1>1, <1>2, <1>3, <2>1, <2>2 DEF CorrectionInv, Undone
<1>6. ASSUME NEW c \in CorrectionIds, NEW d \in DaySet, ApproveCorrection(c, d) PROVE CorrectionInv'
  <2>1. /\ corr[c].status = "requested" /\ NoneApproved(corr[c].target)
        /\ corr' = [corr EXCEPT ![c].status = "approved", ![c].day = d]
        /\ superseding' = superseding
              \/ (corr[c].target \in PayoutIds /\ superseding' = superseding \cup {c})
    BY <1>6, Zenon DEF ApproveCorrection
  <2>2. /\ \A e \in CorrectionIds : e # c => corr'[e] = corr[e]
        /\ corr'[c].status = "approved" /\ corr'[c].target = corr[c].target
        /\ corr'[c].amount = corr[c].amount
    BY <1>1, <2>1, Zenon DEF CorrectionRow
  <2>3. \A e \in CorrectionIds : corr[e].status = "approved" => corr[e].target # corr[c].target
    BY <2>1, Zenon DEF NoneApproved
  <2> QED BY <1>1, <1>2, <1>3, <2>1, <2>2, <2>3, SMTT(30) DEF CorrectionInv, Undone
<1>7. ASSUME NEW c \in CorrectionIds, Supersede(c) PROVE CorrectionInv'
  BY <1>1, <1>2, <1>3, <1>7, SMTT(30) DEF Supersede, CorrectionInv, Undone
<1>8. ASSUME NEW c \in CorrectionIds, RejectCorrection(c) PROVE CorrectionInv'
  <2>1. /\ corr[c].status = "requested" /\ corr' = [corr EXCEPT ![c].status = "rejected"]
        /\ UNCHANGED superseding
    BY <1>8, Zenon DEF RejectCorrection
  <2>2. /\ \A e \in CorrectionIds : e # c => corr'[e] = corr[e]
        /\ corr'[c].status = "rejected" /\ corr'[c].target = corr[c].target
        /\ corr'[c].amount = corr[c].amount
    BY <1>1, <2>1, Zenon DEF CorrectionRow
  <2> QED BY <1>1, <1>2, <1>3, <2>1, <2>2, SMTT(30) DEF CorrectionInv, Undone
<1> QED BY <1>4, <1>5, <1>6, <1>7, <1>8, Zenon DEF CorrectionsNext, CorrectionStep

(* At most one correction of a payment is approved, and it says what the    *)
(* payment said.                                                            *)
LEMMA OneCorrection ==
    ASSUME SumLaws, ReturnsTypeOK, PayablesTypeOK, CorrectionsTypeOK, CorrectionInv
    PROVE  CorrectedOnce
<1> SUFFICES ASSUME NEW t \in Targets
             PROVE  SumWhere(CorrectionIds, LAMBDA c : corr[c].amount,
                       LAMBDA c : corr[c].status = "approved" /\ corr[c].target = t)
                      <= PaymentOf(t).amount
  BY Zenon DEF CorrectedOnce
<1> DEFINE f == [c \in CorrectionIds |->
                   IF corr[c].status = "approved" /\ corr[c].target = t THEN corr[c].amount ELSE 0]
<1>1. SumWhere(CorrectionIds, LAMBDA c : corr[c].amount,
               LAMBDA c : corr[c].status = "approved" /\ corr[c].target = t)
        = TotalOf(CorrectionIds, f)
  BY Zenon DEF SumWhere
<1>2. /\ \A c \in CorrectionIds : f[c] \in Nat
      /\ \A c \in CorrectionIds : f[c] # 0 => f[c] = PaymentOf(t).amount
      /\ \A c, e \in CorrectionIds : f[c] # 0 /\ f[e] # 0 => c = e
  BY Zenon DEF CorrectionsTypeOK, CorrectionRow, CorrectionInv
<1>3. IsFiniteSet(CorrectionIds)
  BY CorrectionsAssumption, Zenon DEF CorrectionsAssumption
<1>4. PaymentOf(t).amount \in Nat
  BY PaymentType, Zenon
<1> HIDE DEF f
<1>5. TotalOf(CorrectionIds, f) <= PaymentOf(t).amount
  BY <1>2, <1>3, <1>4, Zenon DEF SumLaws, OneLaw
<1> QED BY <1>1, <1>5, Zenon

(* Where no payout is new, one stands for a return at most as before. *)
LEMMA RefundsAsBefore ==
    ASSUME ReturnsTypeOK, RefundInv, PayoutsStand, ReversalsStand,
           \A p \in PayoutIds : payout'[p].status # "none" => payout[p].status # "none"
    PROVE  RefundInv'
<1>1. \A p \in PayoutIds : payout[p].ret \in ReturnIds
  BY Zenon DEF ReturnsTypeOK, PayoutRow
<1> QED BY <1>1 DEF RefundInv, PayoutsStand, ReversalsStand

(* Of the payouts of a return one stands at most, and it is the refund due. *)
LEMMA RefundOnce == ASSUME SumLaws, ReturnsTypeOK, RefundInv, CorrectionInv PROVE OneRefund
<1> SUFFICES ASSUME NEW r \in ReturnIds
    PROVE  LET mine == {p \in PayoutIds : payout[p].status # "none" /\ payout[p].ret = r} IN
           /\ Cardinality({p \in mine : ~payout[p].corrected}) <= 1
           /\ SumWhere(PayoutIds, LAMBDA p : payout[p].amount,
                 LAMBDA p : p \in mine /\ payout[p].status = "confirmed" /\ ~Undone(p))
                <= reversal[r].net
  BY Zenon DEF OneRefund
<1> DEFINE mine == {p \in PayoutIds : payout[p].status # "none" /\ payout[p].ret = r}
           live == {p \in mine : ~payout[p].corrected}
           f == [p \in PayoutIds |->
                   IF p \in mine /\ payout[p].status = "confirmed" /\ ~Undone(p)
                   THEN payout[p].amount ELSE 0]
<1>1. Cardinality(live) <= 1
  <2>1. \A p, q \in live : p = q
    BY Zenon DEF RefundInv
  <2> HIDE DEF live
  <2>2. CASE live = {}
    BY <2>2 DEF SumLaws, CountLaw
  <2>3. CASE \E p \in live : TRUE
    <3>1. PICK p \in live : TRUE
      BY <2>3, Zenon
    <3>2. live = {p}
      BY <2>1, <3>1, Zenon
    <3>3. Cardinality({p}) = 1
      BY Zenon DEF SumLaws, JoinLaw
    <3> QED BY <3>2, <3>3
  <2> QED BY <2>2, <2>3, Zenon
<1>2. SumWhere(PayoutIds, LAMBDA p : payout[p].amount,
               LAMBDA p : p \in mine /\ payout[p].status = "confirmed" /\ ~Undone(p))
        = TotalOf(PayoutIds, f)
  BY Zenon DEF SumWhere
<1>3. \A p \in PayoutIds : f[p] \in Nat
  BY Zenon DEF ReturnsTypeOK, PayoutRow
<1>4. \A p \in PayoutIds : f[p] # 0 =>
         /\ payout[p].status # "none" /\ payout[p].ret = r /\ ~payout[p].corrected
         /\ f[p] = payout[p].amount
  BY Zenon DEF CorrectionInv
<1>5. reversal[r].net \in Nat
  BY Zenon DEF ReturnsTypeOK, ReversalRow
<1>6. IsFiniteSet(PayoutIds)
  BY ReturnsAssumption, Zenon DEF ReturnsAssumption
<1> HIDE DEF f
<1>7. /\ \A p \in PayoutIds : f[p] # 0 => f[p] = reversal[r].net
      /\ \A p, q \in PayoutIds : f[p] # 0 /\ f[q] # 0 => p = q
  BY <1>4, Zenon DEF RefundInv
<1>8. TotalOf(PayoutIds, f) <= reversal[r].net
  BY <1>3, <1>5, <1>6, <1>7, Zenon DEF SumLaws, OneLaw
<1> QED BY <1>1, <1>2, <1>8, Zenon

-----------------------------------------------------------------------------
(* The figures of a day, and what the closing writes. *)

(* Every sum over the payments of a day is a natural number. *)
LEMMA MoneyType ==
    ASSUME SumLaws, CounterTypeOK, ReturnsTypeOK, PayablesTypeOK, CorrectionsTypeOK,
           ExpensesTypeOK, NEW d, NEW ch, NEW chs
    PROVE  /\ CashSales(d) \in Nat /\ SalesInto(d, ch) \in Nat
           /\ Refunds(d, chs) \in Nat /\ SupplierPaid(d, chs) \in Nat
           /\ CorrectedBack(d, chs) \in Nat /\ Spent(d, chs) \in Nat /\ SpentFrom(d, ch) \in Nat
<1>a. /\ IsFiniteSet(SaleIds) /\ IsFiniteSet(PayoutIds) /\ IsFiniteSet(SettlementIds)
      /\ IsFiniteSet(CorrectionIds) /\ IsFiniteSet(ExpenseIds)
  BY CounterAssumption, ReturnsAssumption, PayablesAssumption, CorrectionsAssumption,
     ExpensesAssumption, Zenon DEF CounterAssumption, ReturnsAssumption, PayablesAssumption,
     CorrectionsAssumption, ExpensesAssumption
<1>b. \A e \in ExpenseIds : expense[e].amount \in Nat
  <2>1. \A n \in {0} \cup ExpenseAmounts : n \in Nat
    BY ExpensesAssumption DEF ExpensesAssumption
  <2>2. \A e \in ExpenseIds : expense[e].amount \in {0} \cup ExpenseAmounts
    BY Zenon DEF ExpensesTypeOK, ExpenseRow
  <2> QED BY <2>1, <2>2, Zenon
<1>1. CashSales(d) \in Nat
  <2> DEFINE f == [i \in SaleIds |->
                   IF bill[i].soldOn = d
                   THEN bill[i].cash ELSE 0]
  <2>1. \A i \in SaleIds : f[i] \in Nat
    BY <1>a, Zenon DEF CounterTypeOK, BillRow
  <2>2. CashSales(d) = TotalOf(SaleIds, f)
    BY Zenon DEF CashSales, SumWhere
  <2> HIDE DEF f
  <2> QED BY <1>a, <2>1, <2>2, Zenon DEF SumLaws, TotalLaw
<1>2. SalesInto(d, ch) \in Nat
  <2> DEFINE f == [i \in SaleIds |->
                   IF bill[i].soldOn = d /\ bill[i].into = ch
                   THEN bill[i].other ELSE 0]
  <2>1. \A i \in SaleIds : f[i] \in Nat
    BY <1>a, Zenon DEF CounterTypeOK, BillRow
  <2>2. ch = "cash" => SalesInto(d, ch) = CashSales(d)
    BY Zenon DEF SalesInto
  <2>3. ch # "cash" => SalesInto(d, ch) = TotalOf(SaleIds, f)
    BY Zenon DEF SalesInto, SumWhere
  <2> HIDE DEF f
  <2> QED BY <1>a, <1>1, <2>1, <2>2, <2>3, Zenon DEF SumLaws, TotalLaw
<1>3. Refunds(d, chs) \in Nat
  <2> DEFINE f == [p \in PayoutIds |->
                   IF payout[p].status = "confirmed" /\ payout[p].day = d /\ payout[p].channel \in chs
                   THEN payout[p].amount ELSE 0]
  <2>1. \A p \in PayoutIds : f[p] \in Nat
    BY <1>a, Zenon DEF ReturnsTypeOK, PayoutRow
  <2>2. Refunds(d, chs) = TotalOf(PayoutIds, f)
    BY Zenon DEF Refunds, SumWhere
  <2> HIDE DEF f
  <2> QED BY <1>a, <2>1, <2>2, Zenon DEF SumLaws, TotalLaw
<1>4. SupplierPaid(d, chs) \in Nat
  <2> DEFINE f == [s \in SettlementIds |->
                   IF settlement[s].status = "confirmed" /\ settlement[s].day = d
                      /\ settlement[s].channel \in chs
                   THEN settlement[s].amount ELSE 0]
  <2>1. \A s \in SettlementIds : f[s] \in Nat
    BY <1>a, Zenon DEF PayablesTypeOK, SettlementRow
  <2>2. SupplierPaid(d, chs) = TotalOf(SettlementIds, f)
    BY Zenon DEF SupplierPaid, SumWhere
  <2> HIDE DEF f
  <2> QED BY <1>a, <2>1, <2>2, Zenon DEF SumLaws, TotalLaw
<1>5. CorrectedBack(d, chs) \in Nat
  <2> DEFINE f == [c \in CorrectionIds |->
                   IF corr[c].status = "approved" /\ corr[c].day = d /\ corr[c].channel \in chs
                   THEN corr[c].amount ELSE 0]
  <2>1. \A c \in CorrectionIds : f[c] \in Nat
    BY <1>a, Zenon DEF CorrectionsTypeOK, CorrectionRow
  <2>2. CorrectedBack(d, chs) = TotalOf(CorrectionIds, f)
    BY Zenon DEF CorrectedBack, SumWhere
  <2> HIDE DEF f
  <2> QED BY <1>a, <2>1, <2>2, Zenon DEF SumLaws, TotalLaw
<1>6. Spent(d, chs) \in Nat
  <2> DEFINE f == [e \in ExpenseIds |->
                   IF expense[e].status = "confirmed" /\ AccountingDay(expense[e]) = d
                      /\ expense[e].channel \in chs
                   THEN expense[e].amount ELSE 0]
  <2>1. \A e \in ExpenseIds : f[e] \in Nat
    BY <1>a, <1>b, Zenon
  <2>2. Spent(d, chs) = TotalOf(ExpenseIds, f)
    BY Zenon DEF Spent, SumWhere
  <2> HIDE DEF f
  <2> QED BY <1>a, <2>1, <2>2, Zenon DEF SumLaws, TotalLaw
<1>7. SpentFrom(d, ch) \in Nat
  <2> DEFINE f == [e \in ExpenseIds |->
                   IF expense[e].status = "confirmed" /\ expense[e].channel = ch
                      /\ (\/ expense[e].class = "variable" /\ expense[e].day = d
                          \/ expense[e].class = "fixed" /\ expense[e].due = d)
                   THEN expense[e].amount ELSE 0]
  <2>1. \A e \in ExpenseIds : f[e] \in Nat
    BY <1>a, <1>b, Zenon
  <2>2. SpentFrom(d, ch) = TotalOf(ExpenseIds, f)
    BY Zenon DEF SpentFrom, SumWhere
  <2> HIDE DEF f
  <2> QED BY <1>a, <2>1, <2>2, Zenon DEF SumLaws, TotalLaw
<1> QED BY <1>1, <1>2, <1>3, <1>4, <1>5, <1>6, <1>7, Zenon

(* What close freezes, and what a channel should hold. *)
LEMMA FiguresType ==
    ASSUME SumLaws, CounterTypeOK, ReturnsTypeOK, PayablesTypeOK, CorrectionsTypeOK, ExpensesTypeOK,
           NEW d, NEW ch
    PROVE  Figures(d) \in FigureRow /\ ExpectedCash(d) \in Int /\ ChannelExpected(d, ch) \in Int
<1>1. ExpectedCash(d) \in Int
  BY MoneyType DEF ExpectedCash
<1>2. ChannelExpected(d, ch) \in Int
  BY MoneyType DEF ChannelExpected
<1>3. NetProfit(d) \in Int
  BY MoneyType, EarningsType DEF NetProfit, GrossProfit, ReturnsEffect
<1>4. /\ Revenue(d) \in Nat /\ ReturnsGross(d) \in Nat /\ ReturnsKept(d) \in Nat
      /\ Refunds(d, Channels) \in Nat /\ SupplierPaid(d, Channels) \in Nat
      /\ CorrectedBack(d, Channels) \in Nat /\ Spent(d, {"cash"}) \in Nat
  BY MoneyType, EarningsType, Zenon
<1>5. Figures(d) \in FigureRow
  BY <1>3, <1>4, Zenon DEF Figures, FigureRow
<1> QED BY <1>1, <1>2, <1>5, Zenon

(* The channel sheet a signer freezes, and the discrepancies it opens. *)
LEMMA FrozenType ==
    ASSUME SumLaws, CounterTypeOK, ReturnsTypeOK, PayablesTypeOK, CorrectionsTypeOK, ExpensesTypeOK,
           ClosingTypeOK, DiscInv, NEW s \in Signing, s.day \in DaySet
    PROVE  /\ Frozen(s) \in [Channels -> CountRow]
           /\ Opened(s.day, Frozen(s)) \in [Channels -> DiscRow]
           /\ \A ch \in Channels : LET x == Opened(s.day, Frozen(s))[ch] IN
                 (x.status # "none" => x.amount # 0) /\ (x.status # "resolved" => x.how = "none")
<1> DEFINE rows == Frozen(s)
<1>1. s.counts \in [Channels -> CountRow] /\ count[s.day] \in [Channels -> CountRow]
  BY Zenon DEF Signing, ClosingTypeOK
<1>2. ASSUME NEW ch \in Channels PROVE rows[ch] \in CountRow
  <2>1. ChannelExpected(s.day, ch) \in Int
    BY FiguresType, Zenon
  <2>2. s.counts[ch] \in CountRow /\ count[s.day][ch] \in CountRow
    BY <1>1, Zenon
  <2> DEFINE row == [s.counts[ch] EXCEPT !.expected = ChannelExpected(s.day, ch),
                        !.state = IF @ = "none" THEN "uncounted" ELSE @]
  <2>3. row \in CountRow
    BY <2>1, <2>2, Zenon DEF CountRow
  <2>4. rows[ch] = row \/ rows[ch] = count[s.day][ch]
    BY Zenon DEF Frozen
  <2> HIDE DEF row
  <2> QED BY <2>2, <2>3, <2>4, Zenon
<1>3. rows \in [Channels -> CountRow]
  BY <1>2, Zenon DEF Frozen
<1> HIDE DEF rows
<1>4. ASSUME NEW ch \in Channels
      PROVE  LET x == Opened(s.day, rows)[ch] IN
                /\ x \in DiscRow
                /\ (x.status # "none" => x.amount # 0) /\ (x.status # "resolved" => x.how = "none")
  <2>1. rows[ch] \in CountRow /\ disc[s.day][ch] \in DiscRow
    BY <1>2, Zenon DEF ClosingTypeOK, rows
  <2>2. rows[ch].amount \in Nat /\ rows[ch].expected \in Int
    BY <2>1, Zenon DEF CountRow
  <2> DEFINE new == [status |-> "pending", amount |-> rows[ch].amount - rows[ch].expected,
                     how |-> "none"]
  <2>3. CASE OpensDiscrepancy(rows[ch]) /\ disc[s.day][ch].status = "none"
    <3>1. Opened(s.day, rows)[ch] = new
      BY <2>3, Zenon DEF Opened
    <3>2. new \in DiscRow /\ new.amount # 0
      BY <2>2, <2>3 DEF OpensDiscrepancy, DiscRow
    <3> QED BY <3>1, <3>2
  <2>4. CASE ~(OpensDiscrepancy(rows[ch]) /\ disc[s.day][ch].status = "none")
    <3>1. Opened(s.day, rows)[ch] = disc[s.day][ch]
      BY <2>4, Zenon DEF Opened
    <3> QED BY <2>1, <3>1, Zenon DEF DiscInv
  <2> QED BY <2>3, <2>4, Zenon
<1>5. Opened(s.day, rows) \in [Channels -> DiscRow]
  BY <1>4, Zenon DEF Opened
<1> QED BY <1>3, <1>4, <1>5, Zenon DEF rows

(* The rows a decision writes are entries of the ledger. *)
LEMMA PlanType ==
    ASSUME NEW how \in Resolutions, NEW amount \in Int, amount # 0
    PROVE  /\ Magnitude(amount) \in Nat \ {0}
           /\ PlanResolution(how, amount) \in Seq(DebtEntry)
<1>1. Magnitude(amount) \in Nat \ {0}
  BY DEF Magnitude
<1>2. \A kind \in DebtKinds : DebtRow(kind, Magnitude(amount)) \in DebtEntry
  BY <1>1, Zenon DEF DebtRow, DebtEntry
<1>3. "charge" \in DebtKinds /\ "forgiveness" \in DebtKinds
  BY Zenon DEF DebtKinds
<1>4. ASSUME NEW x \in DebtEntry, NEW y \in DebtEntry
      PROVE  <<x>> \in Seq(DebtEntry) /\ <<x, y>> \in Seq(DebtEntry) /\ <<>> \in Seq(DebtEntry)
  OBVIOUS
<1> QED BY <1>1, <1>2, <1>3, <1>4, Zenon DEF PlanResolution

(* Nobody counting, nobody signing. *)
LEMMA FreeType == FreeClerk \in Clerking /\ FreeSigner \in Signing
<1>1. NoCount \in CountRow /\ "cash" \in Channels
  BY DEF NoCount, CountRow, Channels
<1>2. FreeClerk \in Clerking
  BY <1>1, Zenon DEF FreeClerk, Clerking
<1>3. NoFigures \in FigureRow /\ NoCounts \in [Channels -> CountRow]
  BY <1>1 DEF NoFigures, FigureRow, NoCounts
<1>4. FreeSigner \in Signing
  BY <1>3 DEF FreeSigner, Signing
<1> QED BY <1>2, <1>4, Zenon

(* Every step of a count, of a sign-off and of a resolution. *)
LEMMA ClosingType ==
    ASSUME SumLaws, DaysTypeOK, CounterTypeOK, ReturnsTypeOK, PayablesTypeOK, CorrectionsTypeOK,
           ExpensesTypeOK, ClosingTypeOK, DiscInv, ClosingNext
    PROVE  DaysTypeOK' /\ ClosingTypeOK' /\ DiscInv'
<1>1. ASSUME NEW k \in Clerks, NEW d \in DaySet, NEW ch \in Channels, NEW n \in CountAmounts,
             NEW skip \in BOOLEAN, BeginCount(k, d, ch, n, skip)
      PROVE  DaysTypeOK' /\ ClosingTypeOK' /\ DiscInv'
  <2> DEFINE c == [state |-> IF skip THEN "skipped" ELSE "counted",
                   amount |-> IF skip THEN 0 ELSE n, expected |-> ChannelExpected(d, ch)]
             row == [day |-> d, channel |-> ch, count |-> c, had |-> dayRow[d].status # "none",
                     wrote |-> FALSE]
  <2>1. n \in Nat
    <3>1. CountAmounts \subseteq Nat
      BY ClosingAssumption, Zenon DEF ClosingAssumption
    <3> QED BY <3>1, Zenon
  <2>2. c \in CountRow
    BY <2>1, FiguresType, Zenon DEF CountRow
  <2>3. clerk' = [clerk EXCEPT ![k] = row]
        /\ UNCHANGED <<dayRow, count, active, signer, disc, debt, dayVars>>
    BY <1>1, Zenon DEF BeginCount
  <2> HIDE DEF c
  <2>4. row \in Clerking /\ row.day \in DaySet
    BY <2>2, Zenon DEF Clerking
  <2> HIDE DEF row
  <2> QED BY <2>3, <2>4, Zenon DEF ClosingTypeOK, DiscInv, DaysTypeOK, dayVars
<1>2. ASSUME NEW k \in Clerks, WriteCount(k)
      PROVE  DaysTypeOK' /\ ClosingTypeOK' /\ DiscInv'
  <2> DEFINE c == clerk[k]
             row == [dayRow[c.day] EXCEPT !.status = "counting"]
  <2>1. /\ c \in Clerking /\ c.day \in DaySet /\ c.channel \in Channels /\ c.count \in CountRow
        /\ dayRow[c.day] \in DayRow /\ count[c.day] \in [Channels -> CountRow]
    BY <1>2, Zenon DEF WriteCount, ClosingTypeOK, Clerking
  <2>2. row \in DayRow /\ row.status = "counting" /\ "counting" # "locked"
    BY <2>1, Zenon DEF DayRow, DayStatus
  <2>3. /\ \/ dayRow' = dayRow
           \/ dayRow[c.day].status = "none" /\ dayRow' = [dayRow EXCEPT ![c.day] = row]
        /\ count' = count \/ count' = [count EXCEPT ![c.day][c.channel] = c.count]
        /\ clerk' = [clerk EXCEPT ![k].wrote = TRUE] \/ clerk' = [clerk EXCEPT ![k] = FreeClerk]
        /\ UNCHANGED <<active, signer, disc, debt, dayVars>>
    BY <1>2, Zenon DEF WriteCount
  <2>4. [c EXCEPT !.wrote = TRUE] \in Clerking /\ [c EXCEPT !.wrote = TRUE].day = c.day
    BY <2>1, Zenon DEF Clerking
  <2>5. dayRow' \in [DaySet -> DayRow]
        /\ \A d \in DaySet : dayRow'[d].status = "locked" <=> dayRow[d].status = "locked"
    <3> HIDE DEF row, c
    <3> QED BY <2>1, <2>2, <2>3, ZenonT(40) DEF ClosingTypeOK
  <2>6. count' \in [DaySet -> [Channels -> CountRow]]
    <3> DEFINE new == [count[c.day] EXCEPT ![c.channel] = c.count]
    <3>1. new \in [Channels -> CountRow]
      BY <2>1, Zenon
    <3>2. count' = count \/ count' = [count EXCEPT ![c.day] = new]
      BY <2>3, Zenon
    <3> HIDE DEF c, new
    <3> QED BY <2>1, <3>1, <3>2, Zenon DEF ClosingTypeOK
  <2>7. /\ clerk' \in [Clerks -> Clerking]
        /\ \A x \in Clerks : clerk'[x] = FreeClerk \/ clerk'[x].day \in DaySet
    <3>1. clerk \in [Clerks -> Clerking]
          /\ \A x \in Clerks : clerk[x] = FreeClerk \/ clerk[x].day \in DaySet
      BY Zenon DEF ClosingTypeOK
    <3>2. \E y \in Clerking : clerk' = [clerk EXCEPT ![k] = y] /\ (y = FreeClerk \/ y.day \in DaySet)
      BY <2>1, <2>3, <2>4, FreeType, Zenon
    <3> QED BY <3>1, <3>2, Zenon
  <2> QED BY <2>3, <2>5, <2>6, <2>7, SMTT(30) DEF ClosingTypeOK, DiscInv, DaysTypeOK, dayVars
<1>3. ASSUME NEW k \in Clerks, FinishCount(k)
      PROVE  DaysTypeOK' /\ ClosingTypeOK' /\ DiscInv'
  <2> DEFINE c == clerk[k]
             s == IF CountingComplete(c.day) THEN "counted" ELSE "counting"
             row == [dayRow[c.day] EXCEPT !.version = @ + 1, !.status = s]
  <2>1. c.day \in DaySet /\ dayRow[c.day] \in DayRow /\ FreeClerk \in Clerking
    BY <1>3, FreeType, Zenon DEF FinishCount, ClosingTypeOK
  <2>2. /\ clerk' = [clerk EXCEPT ![k] = FreeClerk]
        /\ dayRow' = dayRow \/ (lockedOn[c.day] = 0 /\ dayRow' = [dayRow EXCEPT ![c.day] = row])
        /\ UNCHANGED <<count, active, signer, disc, debt, dayVars>>
    BY <1>3, Zenon DEF FinishCount, StatusMayChange
  <2>3. s \in DayStatus /\ s # "locked"
    BY Zenon DEF DayStatus
  <2> HIDE DEF s
  <2>4. row \in DayRow /\ row.status = s
    <3>1. dayRow[c.day].version + 1 \in Nat
      BY <2>1 DEF DayRow
    <3>2. row \in DayRow
      BY <2>1, <2>3, <3>1, Zenon DEF DayRow
    <3>3. row.status = s
      BY <2>1, Zenon DEF DayRow
    <3> QED BY <3>2, <3>3, Zenon
  <2> HIDE DEF row, c
  <2>5. dayRow' \in [DaySet -> DayRow]
        /\ \A d \in DaySet : dayRow'[d].status = "locked" <=> lockedOn[d] # 0
    BY <2>1, <2>2, <2>3, <2>4, Zenon DEF ClosingTypeOK
  <2> QED BY <2>1, <2>2, <2>5, Zenon DEF ClosingTypeOK, DiscInv, DaysTypeOK, dayVars
<1>4. ASSUME NEW k \in Signers, NEW d \in DaySet, NEW n \in CountAmounts, BeginClose(k, d, n)
      PROVE  DaysTypeOK' /\ ClosingTypeOK' /\ DiscInv'
  <2> DEFINE row == [day |-> d, version |-> IF dayRow[d].status = "none" THEN -1
                                            ELSE dayRow[d].version,
                     counts |-> count[d], cash |-> n, expected |-> ExpectedCash(d),
                     figures |-> Figures(d)]
  <2>1. n \in Nat
    <3>1. CountAmounts \subseteq Nat
      BY ClosingAssumption, Zenon DEF ClosingAssumption
    <3> QED BY <3>1, Zenon
  <2>2. dayRow[d].version \in Int /\ count[d] \in [Channels -> CountRow]
    BY DEF ClosingTypeOK, DayRow
  <2>3. Figures(d) \in FigureRow /\ ExpectedCash(d) \in Int
    BY FiguresType, Zenon
  <2>4. row \in Signing /\ row.day \in DaySet
    BY <2>1, <2>2, <2>3 DEF Signing
  <2>5. signer' = [signer EXCEPT ![k] = row]
        /\ UNCHANGED <<dayRow, count, active, clerk, disc, debt, dayVars>>
    BY <1>4, Zenon DEF BeginClose
  <2> HIDE DEF row
  <2> QED BY <2>4, <2>5, Zenon DEF ClosingTypeOK, DiscInv, DaysTypeOK, dayVars
<1>5. ASSUME NEW k \in Signers, EndClose(k)
      PROVE  DaysTypeOK' /\ ClosingTypeOK' /\ DiscInv'
  <2> DEFINE s == signer[k]
             row == [status |-> "locked", version |-> dayRow[s.day].version + 1,
                     expected |-> s.expected, cash |-> s.cash, figures |-> s.figures]
             rows == Frozen(s)
             opened == Opened(s.day, rows)
  <2>1. s \in Signing /\ s.day \in DaySet /\ dayRow[s.day] \in DayRow
    BY <1>5, Zenon DEF EndClose, ClosingTypeOK
  <2>2. row \in DayRow /\ row.status = "locked"
    BY <2>1 DEF DayRow, DayStatus, Signing
  <2>3. FreeSigner \in Signing
    BY FreeType, Zenon
  <2>4. /\ rows \in [Channels -> CountRow] /\ opened \in [Channels -> DiscRow]
        /\ \A ch \in Channels : /\ opened[ch].status # "none" => opened[ch].amount # 0
                                /\ opened[ch].status # "resolved" => opened[ch].how = "none"
    BY <2>1, FrozenType, Zenon
  <2>5. /\ signer' = [signer EXCEPT ![k] = FreeSigner]
        /\ \/ /\ dayRow' = [dayRow EXCEPT ![s.day] = row]
              /\ lockedOn' = [lockedOn EXCEPT ![s.day] = today]
              /\ count' = [count EXCEPT ![s.day] = rows]
              /\ disc' = [disc EXCEPT ![s.day] = opened]
           \/ UNCHANGED <<dayRow, lockedOn, count, disc>>
        /\ UNCHANGED <<active, clerk, debt, today>>
    BY <1>5, Zenon DEF EndClose
  <2> HIDE DEF s, row, rows, opened
  <2>6. today \in DaySet /\ today # 0
    BY DaysAssumption DEF DaysTypeOK, DaySet, DaysAssumption
  <2>7. DaysTypeOK'
    BY <2>1, <2>5, <2>6, Zenon DEF DaysTypeOK
  <2>8. /\ dayRow' \in [DaySet -> DayRow] /\ count' \in [DaySet -> [Channels -> CountRow]]
        /\ disc' \in [DaySet -> [Channels -> DiscRow]]
    <3>1. dayRow \in [DaySet -> DayRow] /\ count \in [DaySet -> [Channels -> CountRow]]
          /\ disc \in [DaySet -> [Channels -> DiscRow]]
      BY Zenon DEF ClosingTypeOK
    <3>2. dayRow' \in [DaySet -> DayRow]
      BY <2>1, <2>2, <2>5, <3>1, Zenon
    <3>3. count' \in [DaySet -> [Channels -> CountRow]]
      BY <2>1, <2>4, <2>5, <3>1, Zenon
    <3>4. disc' \in [DaySet -> [Channels -> DiscRow]]
      BY <2>1, <2>4, <2>5, <3>1, Zenon
    <3> QED BY <3>2, <3>3, <3>4, Zenon
  <2>9. \A d \in DaySet : dayRow'[d].status = "locked" <=> lockedOn'[d] # 0
    BY <2>1, <2>2, <2>5, <2>6, Zenon DEF ClosingTypeOK, DaysTypeOK
  <2>10. DiscInv'
    <3>1. disc \in [DaySet -> [Channels -> DiscRow]]
      BY Zenon DEF ClosingTypeOK
    <3>2. \A d \in DaySet : disc'[d] = disc[d] \/ disc'[d] = opened
      BY <2>1, <2>5, <3>1, Zenon
    <3> QED BY <2>4, <3>2, Zenon DEF DiscInv
  <2> QED BY <2>3, <2>5, <2>7, <2>8, <2>9, <2>10, Zenon DEF ClosingTypeOK
<1>6. ASSUME NEW d \in DaySet, NEW ch \in Channels, NEW how \in Resolutions, Resolve(d, ch, how)
      PROVE  DaysTypeOK' /\ ClosingTypeOK' /\ DiscInv'
  <2> DEFINE row == [disc[d][ch] EXCEPT !.status = "resolved", !.how = how]
             plan == PlanResolution(how, disc[d][ch].amount)
  <2>1. disc[d][ch] \in DiscRow /\ disc[d][ch].amount \in Int /\ disc[d][ch].amount # 0
    BY <1>6, Zenon DEF Resolve, StillPending, ClosingTypeOK, DiscInv, DiscRow
  <2>2. row \in DiscRow /\ row.status = "resolved" /\ row.amount # 0
    BY <2>1, Zenon DEF DiscRow
  <2>3. plan \in Seq(DebtEntry) /\ debt \in Seq(DebtEntry)
    BY <2>1, PlanType, Zenon DEF ClosingTypeOK
  <2>4. /\ disc' = [disc EXCEPT ![d][ch] = row] /\ debt' = debt \o plan
        /\ UNCHANGED <<dayRow, count, active, clerk, signer, dayVars>>
    BY <1>6, Zenon DEF Resolve
  <2> HIDE DEF row, plan
  <2>5. debt' \in Seq(DebtEntry)
    BY <2>3, <2>4
  <2>6. disc' \in [DaySet -> [Channels -> DiscRow]]
    BY <2>2, <2>4, Zenon DEF ClosingTypeOK
  <2>7. DiscInv'
    BY <2>2, <2>4, Zenon DEF DiscInv, ClosingTypeOK
  <2> QED BY <2>4, <2>5, <2>6, <2>7, Zenon DEF ClosingTypeOK, DaysTypeOK, dayVars
<1>7. ASSUME NEW kind \in {"repayment", "deduction", "forgiveness"},
             NEW amount \in CountAmounts \ {0}, AddEntry(kind, amount)
      PROVE  DaysTypeOK' /\ ClosingTypeOK' /\ DiscInv'
  <2>1. amount \in Nat \ {0}
    <3>1. CountAmounts \subseteq Nat
      BY ClosingAssumption, Zenon DEF ClosingAssumption
    <3> QED BY <3>1, Zenon
  <2>2. DebtRow(kind, amount) \in DebtEntry
    BY <2>1, Zenon DEF DebtRow, DebtEntry, DebtKinds
  <2>3. debt' = Append(debt, DebtRow(kind, amount))
        /\ UNCHANGED <<dayRow, count, active, clerk, signer, disc, dayVars>>
    BY <1>7, Zenon DEF AddEntry
  <2>4. debt' \in Seq(DebtEntry)
    BY <2>2, <2>3 DEF ClosingTypeOK
  <2> QED BY <2>3, <2>4, Zenon DEF ClosingTypeOK, DiscInv, DaysTypeOK, dayVars
<1>8. ASSUME NEW a \in Accounts, ToggleAccount(a)
      PROVE  DaysTypeOK' /\ ClosingTypeOK' /\ DiscInv'
  BY <1>8, Zenon DEF ToggleAccount, ClosingTypeOK, DiscInv, DaysTypeOK, dayVars
<1> QED BY <1>1, <1>2, <1>3, <1>4, <1>5, <1>6, <1>7, <1>8, Zenon DEF ClosingNext

(* The expenses of a channel and of a day are selected by different         *)
(* queries; on the rows there can be they select the same.                  *)
LEMMA ChannelsSame == ExpensesTypeOK => ChannelsAgree
<1> SUFFICES ASSUME ExpensesTypeOK, NEW d \in DaySet
             PROVE  ChannelExpected(d, "cash") = ExpectedCash(d)
  BY Zenon DEF ChannelsAgree
<1> DEFINE f == [e \in ExpenseIds |->
                   IF /\ expense[e].status = "confirmed" /\ expense[e].channel = "cash"
                      /\ \/ expense[e].class = "variable" /\ expense[e].day = d
                         \/ expense[e].class = "fixed" /\ expense[e].due = d
                   THEN expense[e].amount ELSE 0]
           g == [e \in ExpenseIds |->
                   IF /\ expense[e].status = "confirmed" /\ AccountingDay(expense[e]) = d
                      /\ expense[e].channel \in {"cash"}
                   THEN expense[e].amount ELSE 0]
<1>1. SpentFrom(d, "cash") = TotalOf(ExpenseIds, f)
  BY Zenon DEF SpentFrom, SumWhere
<1>2. Spent(d, {"cash"}) = TotalOf(ExpenseIds, g)
  BY Zenon DEF Spent, SumWhere
<1>3. \A e \in ExpenseIds : expense[e].class \in {"variable", "fixed"}
  BY Zenon DEF ExpensesTypeOK, ExpenseRow, ExpenseClasses
<1>4. f = g
  BY <1>3, Zenon DEF AccountingDay
<1>5. SalesInto(d, "cash") = CashSales(d)
  BY Zenon DEF SalesInto
<1> QED BY <1>1, <1>2, <1>4, <1>5, Zenon DEF ChannelExpected, ExpectedCash

(* Counting and signing leave the row of a day that is locked. *)
LEMMA SignedRowsStay == ASSUME ClosingTypeOK, ClosingNext PROVE SignedStays
<1>1. /\ dayRow \in [DaySet -> DayRow] /\ clerk \in [Clerks -> Clerking]
      /\ \A k \in Clerks : clerk[k] = FreeClerk \/ clerk[k].day \in DaySet
      /\ \A k \in Signers : signer[k] = FreeSigner \/ signer[k].day \in DaySet
      /\ \A d \in DaySet : dayRow[d].status = "locked" <=> lockedOn[d] # 0
  BY Zenon DEF ClosingTypeOK
<1>2. UNCHANGED dayRow => SignedStays
  BY Zenon DEF SignedStays
<1>3. ASSUME NEW d \in DaySet, lockedOn[d] = 0, NEW row, dayRow' = [dayRow EXCEPT ![d] = row]
      PROVE  SignedStays
  BY <1>1, <1>3, Zenon DEF SignedStays
<1>4. ASSUME NEW k \in Clerks, WriteCount(k) PROVE SignedStays
  <2> DEFINE c == clerk[k]
             row == [dayRow[c.day] EXCEPT !.status = "counting"]
  <2>1. c # FreeClerk /\ c.day \in DaySet
    BY <1>1, <1>4, Zenon DEF WriteCount
  <2>2. \/ UNCHANGED dayRow
        \/ dayRow[c.day].status = "none" /\ dayRow' = [dayRow EXCEPT ![c.day] = row]
    BY <1>4, Zenon DEF WriteCount
  <2>3. dayRow[c.day].status = "none" => lockedOn[c.day] = 0
    BY <1>1, <2>1, Zenon
  <2> HIDE DEF row, c
  <2> QED BY <1>2, <1>3, <2>1, <2>2, <2>3, Zenon
<1>5. ASSUME NEW k \in Clerks, FinishCount(k) PROVE SignedStays
  <2> DEFINE c == clerk[k]
             row == [dayRow[c.day] EXCEPT !.version = @ + 1,
                        !.status = IF CountingComplete(c.day) THEN "counted" ELSE "counting"]
  <2>1. c # FreeClerk /\ c.day \in DaySet
    BY <1>1, <1>5, Zenon DEF FinishCount
  <2>2. \/ UNCHANGED dayRow
        \/ lockedOn[c.day] = 0 /\ dayRow' = [dayRow EXCEPT ![c.day] = row]
    BY <1>5, Zenon DEF FinishCount, StatusMayChange
  <2> HIDE DEF row, c
  <2> QED BY <1>2, <1>3, <2>1, <2>2, Zenon
<1>6. ASSUME NEW k \in Signers, EndClose(k) PROVE SignedStays
  <2> DEFINE s == signer[k]
             row == [status |-> "locked", version |-> dayRow[s.day].version + 1,
                     expected |-> s.expected, cash |-> s.cash, figures |-> s.figures]
  <2>1. s # FreeSigner /\ s.day \in DaySet
    BY <1>1, <1>6, Zenon DEF EndClose
  <2>2. \/ UNCHANGED dayRow
        \/ lockedOn[s.day] = 0 /\ dayRow' = [dayRow EXCEPT ![s.day] = row]
    BY <1>6, Zenon DEF EndClose, SignOffHolds
  <2> HIDE DEF row, s
  <2> QED BY <1>2, <1>3, <2>1, <2>2, Zenon
<1>7. \/ UNCHANGED dayRow
      \/ \E k \in Clerks : WriteCount(k) \/ FinishCount(k)
      \/ \E k \in Signers : EndClose(k)
  BY Zenon DEF ClosingNext, BeginCount, BeginClose, Resolve, AddEntry, ToggleAccount
<1> QED BY <1>2, <1>4, <1>5, <1>6, <1>7, Zenon

-----------------------------------------------------------------------------
(* What the debt ledger charges, and what was decided. *)

(* What a ledger charges, and what the decisions on discrepancies charge. *)
Charged(rows) ==
    TotalOf(DOMAIN rows, [n \in DOMAIN rows |->
        IF rows[n].kind = "charge" THEN rows[n].amount ELSE 0])
Decided ==
    [x \in DaySet \X Channels |->
        IF disc[x[1]][x[2]].how \in {"employee_debt", "forgiven"}
        THEN Magnitude(disc[x[1]][x[2]].amount) ELSE 0]

(* The property in these words. *)
LEMMA ChargedIs == ChargedOnce <=> Charged(debt) = TotalOf(DaySet \X Channels, Decided)
BY Zenon DEF ChargedOnce, Charged, Decided, SumWhere

(* And in the next state. *)
LEMMA ChargedIsAfter == ChargedOnce' <=> Charged(debt') = TotalOf(DaySet \X Channels, Decided')
BY Zenon DEF ChargedOnce, Charged, Decided, SumWhere

(* A row at the end of the ledger adds what it charges. *)
LEMMA ChargedMore ==
    ASSUME SumLaws, NEW rows \in Seq(DebtEntry), NEW e \in DebtEntry
    PROVE  /\ Append(rows, e) \in Seq(DebtEntry)
           /\ Charged(rows) \in Nat
           /\ Charged(Append(rows, e)) = Charged(rows) + IF e.kind = "charge" THEN e.amount ELSE 0
<1> DEFINE more == Append(rows, e)
           n == Len(rows) + 1
           f == [k \in DOMAIN rows |-> IF rows[k].kind = "charge" THEN rows[k].amount ELSE 0]
           g == [k \in DOMAIN more |-> IF more[k].kind = "charge" THEN more[k].amount ELSE 0]
<1>1. /\ more \in Seq(DebtEntry) /\ DOMAIN rows = 1..Len(rows) /\ Len(rows) \in Nat
      /\ DOMAIN more = 1..n /\ more[n] = e
      /\ \A k \in DOMAIN rows : more[k] = rows[k]
  OBVIOUS
<1>2. DOMAIN more = DOMAIN rows \cup {n} /\ n \notin DOMAIN rows
  BY <1>1
<1>3. IsFiniteSet(DOMAIN rows)
  BY <1>1, SMTT(60) DEF SumLaws, CountLaw
<1>4. \A k \in DOMAIN rows : f[k] \in Nat /\ g[k] = f[k]
  <2>1. \A k \in DOMAIN rows : rows[k] \in DebtEntry
    OBVIOUS
  <2>2. \A x \in DebtEntry : x.amount \in Nat
    BY Zenon DEF DebtEntry
  <2> HIDE DEF more, n
  <2> QED BY <1>1, <1>2, <2>1, <2>2, Zenon
<1>5. g[n] = (IF e.kind = "charge" THEN e.amount ELSE 0) /\ g[n] \in Nat
  BY <1>1, <1>2, Zenon DEF DebtEntry
<1>6. Charged(rows) = TotalOf(DOMAIN rows, f) /\ Charged(more) = TotalOf(DOMAIN more, g)
  BY Zenon DEF Charged
<1> HIDE DEF f, g, n, more
<1>7. TotalOf(DOMAIN rows, f) \in Nat
  BY <1>3, <1>4, Zenon DEF SumLaws, TotalLaw
<1>8. TotalOf(DOMAIN rows, g) = TotalOf(DOMAIN rows, f)
  BY <1>4, Zenon DEF SumLaws, SameLaw
<1>9. \A k \in DOMAIN rows \cup {n} : g[k] \in Nat
  BY <1>4, <1>5, Zenon
<1>10. TotalOf(DOMAIN rows \cup {n}, g) = TotalOf(DOMAIN rows, g) + g[n]
  BY <1>2, <1>3, <1>9, Zenon DEF SumLaws, AddLaw
<1>11. Charged(more) = Charged(rows) + IF e.kind = "charge" THEN e.amount ELSE 0
  BY <1>2, <1>5, <1>6, <1>8, <1>10, Zenon
<1> QED BY <1>1, <1>6, <1>7, <1>11, Zenon DEF more

(* What a decision writes into the ledger charges what it decides. *)
LEMMA PlanCharges ==
    ASSUME SumLaws, NEW rows \in Seq(DebtEntry), NEW how \in Resolutions, NEW amount \in Int, amount # 0
    PROVE  Charged(rows \o PlanResolution(how, amount)) =
              Charged(rows) + IF how \in {"employee_debt", "forgiven"} THEN Magnitude(amount) ELSE 0
<1> DEFINE n == Magnitude(amount)
           a == DebtRow("charge", n)
           b == DebtRow("forgiveness", n)
<1>1. n \in Nat \ {0}
  BY PlanType, Zenon
<1>2. a \in DebtEntry /\ b \in DebtEntry /\ a.kind = "charge" /\ a.amount = n /\ b.kind # "charge"
  BY <1>1, Zenon DEF DebtRow, DebtEntry, DebtKinds
<1>3. PlanResolution(how, amount) = IF how = "employee_debt" THEN <<a>>
                                    ELSE IF how = "forgiven" THEN <<a, b>> ELSE <<>>
  BY Zenon DEF PlanResolution, Resolutions
<1> HIDE DEF n, a, b
<1>4. /\ rows \o <<a>> = Append(rows, a) /\ rows \o <<>> = rows
      /\ rows \o <<a, b>> = Append(Append(rows, a), b)
  BY <1>2
<1>5. /\ Append(rows, a) \in Seq(DebtEntry) /\ Charged(rows) \in Nat
      /\ Charged(Append(rows, a)) = Charged(rows) + n
  BY <1>2, ChargedMore, Zenon
<1>6. Charged(Append(Append(rows, a), b)) = Charged(rows) + n
  <2> DEFINE more == Append(rows, a)
  <2>1. more \in Seq(DebtEntry) /\ Charged(more) = Charged(rows) + n
    BY <1>5, Zenon
  <2> HIDE DEF more
  <2>2. Charged(Append(more, b)) = Charged(more) + 0 /\ Charged(more) \in Nat
    BY <1>2, <2>1, ChargedMore, Zenon
  <2>3. Charged(Append(more, b)) = Charged(rows) + n
    BY <2>1, <2>2
  <2> QED BY <2>3, Zenon DEF more
<1>7. CASE how = "employee_debt"
  BY <1>3, <1>4, <1>5, <1>7, Zenon DEF n
<1>8. CASE how = "forgiven"
  BY <1>3, <1>4, <1>6, <1>8, Zenon DEF n
<1>9. CASE how \notin {"employee_debt", "forgiven"}
  <2>1. rows \o PlanResolution(how, amount) = rows
    BY <1>3, <1>4, <1>9, Zenon
  <2>2. Charged(rows) = Charged(rows) + 0
    BY <1>5
  <2> QED BY <1>9, <2>1, <2>2, Zenon
<1> QED BY <1>7, <1>8, <1>9, Zenon

(* The closing keeps the ledger and the decisions in step. *)
LEMMA ChargesKept ==
    ASSUME SumLaws, ClosingTypeOK, DiscInv, ChargedOnce, ClosingNext
    PROVE  ChargedOnce'
<1> DEFINE S == DaySet \X Channels
<1>1. Charged(debt) = TotalOf(S, Decided)
  BY ChargedIs, Zenon
<1>2. /\ disc \in [DaySet -> [Channels -> DiscRow]] /\ debt \in Seq(DebtEntry)
      /\ \A k \in Signers : signer[k] = FreeSigner \/ signer[k].day \in DaySet
  BY Zenon DEF ClosingTypeOK
<1>3. ASSUME UNCHANGED <<disc, debt>> PROVE ChargedOnce'
  <2>1. Decided' = Decided
    BY <1>3, Zenon DEF Decided
  <2> QED BY <1>1, <1>3, <2>1, ChargedIsAfter, Zenon
<1>4. ASSUME NEW k \in Signers, EndClose(k) PROVE ChargedOnce'
  <2> DEFINE s == signer[k]
             new == Opened(s.day, Frozen(s))
  <2>1. s.day \in DaySet /\ UNCHANGED debt
    BY <1>2, <1>4, Zenon DEF EndClose
  <2>2. UNCHANGED disc \/ disc' = [disc EXCEPT ![s.day] = new]
    BY <1>4, Zenon DEF EndClose
  <2>3. \A ch \in Channels : \/ new[ch] = disc[s.day][ch]
                             \/ new[ch].how = "none" /\ disc[s.day][ch].status = "none"
    BY Zenon DEF Opened
  <2>4. \A ch \in Channels : disc[s.day][ch].status = "none" => disc[s.day][ch].how = "none"
    BY <2>1, Zenon DEF DiscInv
  <2> HIDE DEF new, s
  <2>5. \A d \in DaySet, ch \in Channels :
           \/ disc'[d][ch] = disc[d][ch]
           \/ disc'[d][ch].how = "none" /\ disc[d][ch].how = "none"
    BY <1>2, <2>1, <2>2, <2>3, <2>4, Zenon
  <2>6. ASSUME NEW x \in S PROVE Decided'[x] = Decided[x]
    <3>1. x[1] \in DaySet /\ x[2] \in Channels
      BY Zenon
    <3> QED BY <2>5, <3>1, Zenon DEF Decided
  <2>7. TotalOf(S, Decided') = TotalOf(S, Decided)
    BY <2>6, Zenon DEF SumLaws, SameLaw
  <2> QED BY <1>1, <2>1, <2>7, ChargedIsAfter, Zenon
<1>5. ASSUME NEW d \in DaySet, NEW ch \in Channels, NEW how \in Resolutions, Resolve(d, ch, how)
      PROVE  ChargedOnce'
  <2> DEFINE row == [disc[d][ch] EXCEPT !.status = "resolved", !.how = how]
             y   == <<d, ch>>
  <2>1. /\ disc[d][ch] \in DiscRow /\ disc[d][ch].amount \in Int /\ disc[d][ch].amount # 0
        /\ disc[d][ch].how = "none"
    BY <1>2, <1>5, Zenon DEF Resolve, StillPending, DiscInv, DiscRow
  <2>2. row.how = how /\ row.amount = disc[d][ch].amount
    BY <2>1, Zenon DEF DiscRow
  <2>3. /\ disc' = [disc EXCEPT ![d][ch] = row]
        /\ debt' = debt \o PlanResolution(how, disc[d][ch].amount)
    BY <1>5, Zenon DEF Resolve
  <2> HIDE DEF row
  <2>4. /\ disc'[d][ch] = row
        /\ \A e \in DaySet, c \in Channels : e # d \/ c # ch => disc'[e][c] = disc[e][c]
    BY <1>2, <2>3, Zenon
  <2>5. y \in S /\ y[1] = d /\ y[2] = ch
    BY Zenon
  <2>6. \A x \in S \ {y} : disc'[x[1]][x[2]] = disc[x[1]][x[2]]
    BY <2>4
  <2> HIDE DEF y
  <2>7. \A x \in S \ {y} : Decided'[x] = Decided[x]
    BY <2>6, Zenon DEF Decided
  <2>8. /\ Decided[y] = 0
        /\ Decided'[y] = IF how \in {"employee_debt", "forgiven"}
                         THEN Magnitude(disc[d][ch].amount) ELSE 0
    BY <2>1, <2>2, <2>4, <2>5, Zenon DEF Decided
  <2>9. \A x \in S : Decided[x] \in Nat
    <3>1. \A x \in S : disc[x[1]][x[2]].amount \in Int
      BY <1>2, Zenon DEF DiscRow
    <3> QED BY <3>1 DEF Decided, Magnitude
  <2>10. Decided'[y] \in Nat
    BY <2>1, <2>8 DEF Magnitude
  <2>11. IsFiniteSet(S)
    <3>1. IsFiniteSet(DaySet)
      BY DaysAssumption DEF SumLaws, CountLaw, DaySet, DaysAssumption
    <3>2. IsFiniteSet({"cash"}) /\ IsFiniteSet({"unattributed"}) /\ IsFiniteSet(Accounts)
      BY ClosingAssumption, Zenon DEF SumLaws, JoinLaw, ClosingAssumption
    <3>3. IsFiniteSet({"cash"} \cup {"unattributed"})
      BY <3>2, Zenon DEF SumLaws, JoinLaw
    <3>4. IsFiniteSet(({"cash"} \cup {"unattributed"}) \cup Accounts)
      BY <3>2, <3>3, Zenon DEF SumLaws, JoinLaw
    <3>5. ({"cash"} \cup {"unattributed"}) \cup Accounts = Channels
      BY Zenon DEF Channels
    <3> QED BY <3>1, <3>4, <3>5, Zenon DEF SumLaws, JoinLaw
  <2>12. \A x \in S : Decided'[x] \in Nat
    BY <2>7, <2>9, <2>10, Zenon
  <2> HIDE DEF S
  <2>13. TotalOf(S, Decided') = TotalOf(S, Decided) - Decided[y] + Decided'[y]
    BY <2>5, <2>7, <2>9, <2>11, <2>12, TotalChanges, SMTT(30)
  <2>14. TotalOf(S, Decided) \in Nat
    BY <2>9, <2>11, Zenon DEF SumLaws, TotalLaw
  <2>15. Charged(debt') = Charged(debt) + Decided'[y]
    BY <1>2, <2>1, <2>3, <2>8, PlanCharges, Zenon
  <2>16. Charged(debt') = TotalOf(S, Decided')
    BY <1>1, <2>8, <2>10, <2>13, <2>14, <2>15, SMTT(30)
  <2> QED BY <2>16, ChargedIsAfter, Zenon DEF S
<1>6. ASSUME NEW kind \in {"repayment", "deduction", "forgiveness"},
             NEW amount \in CountAmounts \ {0}, AddEntry(kind, amount)
      PROVE  ChargedOnce'
  <2>1. amount \in Nat \ {0}
    <3>1. CountAmounts \subseteq Nat
      BY ClosingAssumption, Zenon DEF ClosingAssumption
    <3> QED BY <3>1, Zenon
  <2>2. DebtRow(kind, amount) \in DebtEntry /\ DebtRow(kind, amount).kind # "charge"
    BY <2>1, Zenon DEF DebtRow, DebtEntry, DebtKinds
  <2>3. debt' = Append(debt, DebtRow(kind, amount)) /\ UNCHANGED disc
    BY <1>6, Zenon DEF AddEntry
  <2>4. Charged(debt') = Charged(debt) + 0 /\ Charged(debt) \in Nat
    BY <1>2, <2>2, <2>3, ChargedMore, Zenon
  <2>5. Decided' = Decided
    BY <2>3, Zenon DEF Decided
  <2> QED BY <1>1, <2>4, <2>5, ChargedIsAfter
<1>7. \/ UNCHANGED <<disc, debt>>
      \/ \E k \in Signers : EndClose(k)
      \/ \E d \in DaySet, ch \in Channels, how \in Resolutions : Resolve(d, ch, how)
      \/ \E kind \in {"repayment", "deduction", "forgiveness"}, amount \in CountAmounts \ {0} :
            AddEntry(kind, amount)
  BY ZenonT(40) DEF ClosingNext, BeginCount, WriteCount, FinishCount, BeginClose, ToggleAccount
<1> QED BY <1>3, <1>4, <1>5, <1>6, <1>7, Zenon

(* Before the first closing there is neither. *)
LEMMA ChargesInit == ASSUME SumLaws, ClosingInit PROVE ChargedOnce
<1>1. debt = <<>> /\ \A d \in DaySet, ch \in Channels : disc[d][ch].how = "none"
  BY Zenon DEF ClosingInit, NoDisc
<1>2. \A x \in DaySet \X Channels : Decided[x] = 0
  BY <1>1, Zenon DEF Decided
<1>3. TotalOf(DaySet \X Channels, Decided) = 0
  BY <1>2, Zenon DEF SumLaws, SameLaw
<1>4. DOMAIN debt = {}
  BY <1>1
<1>5. Charged(debt) = 0
  BY <1>4, Zenon DEF SumLaws, SameLaw, Charged
<1> QED BY <1>3, <1>5, ChargedIs, Zenon

=============================================================================
