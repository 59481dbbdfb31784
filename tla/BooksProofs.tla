----------------------------- MODULE BooksProofs -----------------------------
(***************************************************************************)
(* Proofs about the books of a branch: every part keeps its own tables and *)
(* its own invariant (BranchProofs, ClosingProofs), and no step of another *)
(* part disturbs them.  What is used of sums is proved in TotalsProofs.    *)
(***************************************************************************)
EXTENDS Books, ClosingProofs, TotalsProofs

-----------------------------------------------------------------------------
(* Every table stays well typed. *)

(* What a step leaves alone stays well typed. *)
LEMMA TypesStand ==
    /\ InvTypeOK /\ UNCHANGED invVars => InvTypeOK'
    /\ SalesTypeOK /\ UNCHANGED sale => SalesTypeOK'
    /\ DaysTypeOK /\ UNCHANGED dayVars => DaysTypeOK'
    /\ CounterTypeOK /\ UNCHANGED tillVars => CounterTypeOK'
    /\ ReturnsTypeOK /\ UNCHANGED returnVars => ReturnsTypeOK'
    /\ OutboxTypeOK /\ UNCHANGED outboxVars => OutboxTypeOK'
    /\ PurchasingTypeOK /\ UNCHANGED buyVars => PurchasingTypeOK'
    /\ PayablesTypeOK /\ UNCHANGED payVars => PayablesTypeOK'
    /\ ExpensesTypeOK /\ UNCHANGED expense => ExpensesTypeOK'
    /\ CorrectionsTypeOK /\ UNCHANGED correctionVars => CorrectionsTypeOK'
<1>1. InvTypeOK /\ UNCHANGED invVars => InvTypeOK'
  BY Zenon DEF InvTypeOK, invVars
<1>2. SalesTypeOK /\ UNCHANGED sale => SalesTypeOK'
  BY Zenon DEF SalesTypeOK
<1>3. DaysTypeOK /\ UNCHANGED dayVars => DaysTypeOK'
  BY Zenon DEF DaysTypeOK, dayVars
<1>4. CounterTypeOK /\ UNCHANGED tillVars => CounterTypeOK'
  BY Zenon DEF CounterTypeOK, tillVars
<1>5. ReturnsTypeOK /\ UNCHANGED returnVars => ReturnsTypeOK'
  BY Zenon DEF ReturnsTypeOK, returnVars
<1>6. OutboxTypeOK /\ UNCHANGED outboxVars => OutboxTypeOK'
  BY Zenon DEF OutboxTypeOK, outboxVars
<1>7. PurchasingTypeOK /\ UNCHANGED buyVars => PurchasingTypeOK'
  BY Zenon DEF PurchasingTypeOK, buyVars
<1>8. PayablesTypeOK /\ UNCHANGED payVars => PayablesTypeOK'
  BY Zenon DEF PayablesTypeOK, payVars
<1>9. ExpensesTypeOK /\ UNCHANGED expense => ExpensesTypeOK'
  BY Zenon DEF ExpensesTypeOK
<1>10. CorrectionsTypeOK /\ UNCHANGED correctionVars => CorrectionsTypeOK'
  BY Zenon DEF CorrectionsTypeOK, correctionVars
<1> QED BY <1>1, <1>2, <1>3, <1>4, <1>5, <1>6, <1>7, <1>8, <1>9, <1>10, Zenon

(* The closing also looks at the locks. *)
LEMMA ClosingStands ==
    ClosingTypeOK /\ DiscInv /\ UNCHANGED <<closingVars, lockedOn>> => ClosingTypeOK' /\ DiscInv'
BY Zenon DEF ClosingTypeOK, DiscInv, closingVars

(* A step of any part keeps every table well typed. *)
LEMMA TypesKept ==
    ASSUME BooksTypeOK, DiscInv, [BooksNext]_bookVars,
           \A c \in superseding : corr[c].target \in PayoutIds
    PROVE  BooksTypeOK' /\ DiscInv'
<1> USE DEF BooksTypeOK
<1>1. CASE DayStep
  <2>1. DaysTypeOK' /\ UNCHANGED lockedOn
    <3>1. today < MaxDay /\ today' = today + 1 /\ UNCHANGED lockedOn
      BY <1>1, Zenon DEF DayStep, NewDay
    <3>2. today' \in DaySet
      BY <3>1, DaysAssumption DEF DaysAssumption, DaysTypeOK, DaySet
    <3> QED BY <3>1, <3>2, Zenon DEF DaysTypeOK
  <2> QED BY <1>1, <2>1, TypesStand, ClosingStands, Zenon DEF DayStep
<1>2. CASE CounterStep
  BY <1>2, TotalsObeySumLaws, CounterType, TypesStand, ClosingStands, Zenon DEF CounterStep, dayVars
<1>3. CASE ReturnStep
  BY <1>3, TotalsObeySumLaws, ReturnType, TypesStand, ClosingStands, Zenon DEF ReturnStep, dayVars
<1>4. CASE RefundStep
  BY <1>4, RefundType, TypesStand, ClosingStands, Zenon DEF RefundStep, dayVars
<1>5. CASE FaultyStep
  BY <1>5, FaultyType, TypesStand, ClosingStands, Zenon DEF FaultyStep, dayVars
<1>6. CASE SettlementStep
  BY <1>6, TotalsObeySumLaws, SettlementType, TypesStand, ClosingStands, Zenon DEF SettlementStep,
     dayVars
<1>7. CASE OutboxStep
  BY <1>7, OutboxType, TypesStand, ClosingStands, Zenon DEF OutboxStep, dayVars
<1>8. CASE ExpenseStep
  BY <1>8, ExpenseType, TypesStand, ClosingStands, Zenon DEF ExpenseStep, dayVars
<1>9. CASE ClosingStep
  BY <1>9, TotalsObeySumLaws, ClosingType, TypesStand, Zenon DEF ClosingStep
<1>10. CASE UNCHANGED bookVars
  BY <1>10, TypesStand, ClosingStands, Zenon DEF bookVars, dayVars
<1>11. CASE CorrectionBookStep
  <2>1. PICK c \in CorrectionIds : CorrectionStep(c)
    BY <1>11, Zenon DEF CorrectionBookStep, CorrectionsNext
  <2>2. /\ UNCHANGED <<req, reqSeen, charges, reversal, invVars, sale, tillVars, buyVars,
                       outboxVars, dayVars>>
        /\ UNCHANGED <<expense, closingVars>>
    BY <1>11, Zenon DEF CorrectionBookStep, CorrectionsNext
  <2>3. payout' \in [PayoutIds -> PayoutRow] /\ PayablesTypeOK' /\ CorrectionsTypeOK'
    BY <2>1, CorrectionType, TotalsObeySumLaws, Zenon
  <2>4. ReturnsTypeOK'
    BY <2>2, <2>3, Zenon DEF ReturnsTypeOK
  <2> QED BY <2>2, <2>3, <2>4, TypesStand, ClosingStands, Zenon DEF dayVars
<1>12. CASE DeliveryStep
  <2>1. /\ InvTypeOK' /\ PurchasingTypeOK' /\ PayablesTypeOK'
        /\ UNCHANGED <<dayVars, learned, worker, crashes, late, known>>
        /\ \E js : job' = WithQueued(js)
    BY <1>12, DeliveryType, TotalsObeySumLaws, Zenon DEF DeliveryStep
  <2>2. OutboxTypeOK'
    BY <2>1 DEF OutboxTypeOK, WithQueued, NewJob, JobRow
  <2> QED BY <1>12, <2>1, <2>2, TypesStand, ClosingStands, Zenon DEF DeliveryStep, dayVars
<1> QED BY <1>1, <1>2, <1>3, <1>4, <1>5, <1>6, <1>7, <1>8, <1>9, <1>10, <1>11, <1>12, Zenon DEF BooksNext

(* The shop starts well typed. *)
LEMMA TypesInit == BooksInit => BooksTypeOK /\ DiscInv
<1> SUFFICES ASSUME BooksInit PROVE BooksTypeOK /\ DiscInv
  BY Zenon
<1> USE DEF BooksInit
<1>1. /\ SaleIds # {} /\ Units # {} /\ ReturnIds # {} /\ PayoutIds # {} /\ 0 \in Windows
      /\ MaxReturnVersion \in Nat /\ MaxCrashes \in Nat /\ MaxCharges \in Nat
  BY CounterAssumption, ReturnsAssumption, OutboxAssumption, Zenon
     DEF CounterAssumption, ReturnsAssumption, OutboxAssumption
<1>2. [day |-> 1, locked |-> FALSE] \in Stamps /\ 1 \in DaySet /\ 0 \notin DaySet
  BY DaysAssumption DEF DaysAssumption, Stamps, DaySet
<1>3. InvTypeOK
  <2>1. unit \in [Units -> UnitRow]
    <3>1. (CHOOSE b \in Branches : TRUE) \in Branches
      BY InventoryAssumption, Zenon DEF InventoryAssumption
    <3> QED BY <3>1, Zenon DEF InvInit, UnitRow
  <2>2. past \in [Units -> SUBSET UnitRow]
    BY <2>1, Zenon DEF InvInit
  <2>3. stock \in Stock
    BY Zenon DEF InvInit, Stock, StockRow
  <2>4. receipt \in [ReceiptIds -> [key: ReceiptKeys \cup {NoKey}, line: Lines]]
    BY Zenon DEF InvInit, NoReceipt, Lines
  <2> QED BY <2>1, <2>2, <2>3, <2>4, Zenon DEF InvTypeOK
<1>4. SalesTypeOK
  <2>1. [p \in Products |-> 0] \in Lines
    BY Zenon DEF Lines
  <2>2. NoSale.branch \in Branches
    BY InventoryAssumption, Zenon DEF InventoryAssumption, NoSale
  <2>3. NoSale \in [made: BOOLEAN, key: SaleKeys \cup {NoKey}, branch: Branches,
                    units: SUBSET Units, lines: Lines]
    BY <2>1, <2>2, Zenon DEF NoSale
  <2> QED BY <2>3, Zenon DEF SalesInit, SalesTypeOK
<1>5. DaysTypeOK
  BY <1>2, Zenon DEF DaysInit, DaysTypeOK
<1>6. CounterTypeOK
  BY <1>1, Zenon DEF CounterInit, CounterTypeOK, NoBill, BillRow, PayChannels
<1>7. ReturnsTypeOK
  <2>1. NoReturn \in ReturnRow
    BY <1>1, <1>2, SMTT(30) DEF NoReturn, ReturnRow, CustodyStates, Responsibility
  <2>2. NoReversal \in ReversalRow /\ NoPayout \in PayoutRow
    BY <1>1, <1>2, Zenon DEF NoReversal, ReversalRow, NoPayout, PayoutRow
  <2>3. <<>> \in Seq(Charges) /\ Len(<<>>) <= MaxCharges
    BY <1>1
  <2> QED BY <2>1, <2>2, <2>3, Zenon DEF ReturnsInit, ReturnsTypeOK
<1>8. OutboxTypeOK
  <2>1. Idle \in WorkerState /\ Idle.at = "idle"
    BY Zenon DEF Idle, WorkerState
  <2>2. [NewJob EXCEPT !.status = "none"] \in JobRow
    BY Zenon DEF NewJob, JobRow
  <2>3. 0 \in 0..MaxCrashes
    BY <1>1, SMTT(30)
  <2> QED BY <2>1, <2>2, <2>3, Zenon DEF OutboxInit, OutboxTypeOK
<1>9. PurchasingTypeOK
  BY DEF PurchasingInit, PurchasingTypeOK, NoPurchase, PurchaseRow
<1>10. PayablesTypeOK
  <2>1. NoSettlement \in SettlementRow
    BY <1>2, Zenon DEF NoSettlement, SettlementRow
  <2>2. [q \in PurchaseIds |-> 0] \in [PurchaseIds -> Int]
    OBVIOUS
  <2>3. <<[q \in PurchaseIds |-> 0]>> \in Seq([PurchaseIds -> Int])
    BY <2>2
  <2> QED BY <2>1, <2>3, Zenon DEF PayablesInit, PayablesTypeOK
<1>11. ExpensesTypeOK
  BY <1>2, Zenon DEF ExpensesInit, ExpensesTypeOK, NoExpense, ExpenseRow, ExpenseClasses
<1>12. CorrectionsTypeOK
  BY <1>1, <1>2, Zenon DEF CorrectionsInit, CorrectionsTypeOK, NoCorrection, CorrectionRow, Targets
<1>13. ClosingTypeOK /\ DiscInv
  <2>1. NoCount \in CountRow /\ NoFigures \in FigureRow /\ NoDisc \in DiscRow /\ NoDisc.status = "none"
        /\ NoDisc.how = "none"
    BY DEF NoCount, CountRow, NoFigures, FigureRow, NoDisc, DiscRow
  <2>2. [status |-> "none", version |-> 0, expected |-> 0, cash |-> 0, figures |-> NoFigures]
          \in DayRow
    BY <2>1 DEF DayRow, DayStatus
  <2>3. dayRow \in [DaySet -> DayRow] /\ \A d \in DaySet : dayRow[d].status = "none" /\ lockedOn[d] = 0
    BY <2>2, Zenon DEF ClosingInit, DaysInit
  <2>4. count \in [DaySet -> [Channels -> CountRow]] /\ disc \in [DaySet -> [Channels -> DiscRow]]
    BY <2>1, Zenon DEF ClosingInit, NoCounts
  <2>5. <<>> \in Seq(DebtEntry)
    OBVIOUS
  <2>6. DiscInv
    BY <2>1, Zenon DEF ClosingInit, DiscInv
  <2> QED BY <2>3, <2>4, <2>5, <2>6, FreeType, Zenon DEF ClosingInit, ClosingTypeOK
<1> QED BY <1>3, <1>4, <1>5, <1>6, <1>7, <1>8, <1>9, <1>10, <1>11, <1>12, <1>13,
     Zenon DEF BooksTypeOK

-----------------------------------------------------------------------------
(* Every step keeps the invariants of the parts. *)

(* Every step of the books leaves payments standing. *)
LEMMA PaymentsStand ==
    ASSUME BooksTypeOK, [BooksNext]_bookVars, \A c \in superseding : corr[c].target \in PayoutIds
    PROVE  PayoutsStand /\ SettlementsStand
<1> USE DEF BooksTypeOK
<1>2. UNCHANGED payout => PayoutsStand
  BY Zenon DEF PayoutsStand
<1>3. UNCHANGED settlement => SettlementsStand
  BY Zenon DEF SettlementsStand
<1>4. CASE ReturnStep
  BY <1>3, <1>4, RequestsStand, Zenon DEF ReturnStep, payVars
<1>5. CASE RefundStep
  BY <1>3, <1>5, RefundsStand, Zenon DEF RefundStep, payVars
<1>6. CASE SettlementStep
  BY <1>2, <1>6, ReportsStand, Zenon DEF SettlementStep, returnVars
<1>7. CASE CorrectionBookStep
  BY <1>7, CorrectionsStand, Zenon DEF CorrectionBookStep
<1>8. CASE DeliveryStep
  BY <1>2, <1>3, <1>8, DeliveryType, TotalsObeySumLaws, Zenon DEF DeliveryStep, returnVars
<1>9. CASE DayStep \/ CounterStep \/ FaultyStep \/ OutboxStep \/ ExpenseStep \/ ClosingStep
           \/ UNCHANGED bookVars
  BY <1>2, <1>3, <1>9, Zenon DEF DayStep, CounterStep, FaultyStep, OutboxStep, ExpenseStep,
     ClosingStep, bookVars, returnVars, payVars
<1> QED BY <1>4, <1>5, <1>6, <1>7, <1>8, <1>9, Zenon DEF BooksNext

(* Only corrections write the requests to correct. *)
LEMMA CorrectionsAlone ==
    ASSUME BooksTypeOK, CorrectionInv, PayoutsStand, SettlementsStand, [BooksNext]_bookVars
    PROVE  CorrectionInv'
<1>1. CorrectionsNext \/ UNCHANGED correctionVars
  BY Zenon DEF BooksNext, DayStep, CounterStep, ReturnStep, RefundStep, FaultyStep, DeliveryStep,
     SettlementStep, OutboxStep, CorrectionBookStep, ExpenseStep, ClosingStep, bookVars
<1> QED BY <1>1, CorrectionsKept, Zenon DEF BooksTypeOK

(* A delivery brings phones that were never on a sale; a phone marked as    *)
(* faulty may be in anybody's hands.                                        *)
LEMMA ShelfCustody ==
    ASSUME BooksTypeOK, LoadsInv, CustodyInv, CustodyMatches, FaultyStep \/ DeliveryStep
    PROVE  CustodyInv' /\ CustodyMatches'
<1>1. UNCHANGED <<req, sale>>
  BY Zenon DEF FaultyStep, DeliveryStep, returnVars
<1>2. CASE FaultyStep
  <2>1. PICK u \in Units : unit' = WithStatus(unit, {u}, "faulty")
    BY <1>2, Zenon DEF FaultyStep, MarkFaulty, WriteUnits
  <2>2. \A x \in Units : unit'[x] = unit[x] \/ unit'[x].status = "faulty"
    BY <2>1, Zenon DEF WithStatus, BooksTypeOK, InvTypeOK, UnitRow
  <2> QED BY <1>1, <2>2, GoodsCustody, Zenon DEF BooksTypeOK
<1>3. CASE DeliveryStep
  <2>1. PICK q \in PurchaseIds, d \in Deliveries, cost \in UnitCosts :
           \E paidNow \in 0..cost : CreatePurchase(q, d, cost, paidNow)
    BY <1>3, Zenon DEF DeliveryStep, DeliveryNext, Receive
  <2>2. unit' = [u \in Units |-> IF u \in Committable(d.units)
                    THEN [status |-> "in_stock", branch |-> ShopBranch] ELSE unit[u]]
    BY <2>1, Zenon DEF CreatePurchase, WriteUnits
  <2>3. \A x \in Units : \/ unit'[x] = unit[x]
                         \/ unit[x].status = "absent" /\ unit'[x].status = "in_stock"
    BY <2>2, Zenon DEF Committable
  <2>4. \A x \in Units : unit[x].status = "absent" => \A j \in SaleIds : x \notin sale[j].units
    BY Zenon DEF CustodyInv
  <2> QED BY <1>1, <2>3, <2>4, GoodsCustody, Zenon DEF BooksTypeOK
<1> QED BY <1>2, <1>3, Zenon

(* What the invariants of returns say together. *)
ReturnsInv ==
    LoadsInv /\ ReversalMatches /\ GrossInv /\ CustodyInv /\ CustodyMatches

(* Every step of the books keeps them. *)
LEMMA ReturnsKeptRight ==
    ASSUME BooksTypeOK, ReturnsInv, [BooksNext]_bookVars
    PROVE  ReturnsInv' /\ ReversalsStand
<1> USE DEF ReturnsInv
<1>1. ASSUME UNCHANGED <<req, reqSeen, charges, reversal, sale, bill>>
      PROVE  LoadsInv' /\ ReversalMatches' /\ GrossInv' /\ ReversalsStand
  BY <1>1, Zenon DEF LoadsInv, ReversalMatches, GrossInv, ReversalsStand
<1>2. ASSUME UNCHANGED <<req, unit, sale>> PROVE CustodyInv' /\ CustodyMatches'
  BY <1>2 DEF CustodyInv, CustodyMatches, Claims
<1>3. CASE CounterStep
  <2>1. CounterNext /\ UNCHANGED returnVars
    BY <1>3, Zenon DEF CounterStep
  <2>2. ReversalsStand
    BY <2>1, Zenon DEF returnVars, ReversalsStand
  <2> QED BY <2>1, <2>2, CounterReturns, Zenon DEF BooksTypeOK, FloorTypeOK
<1>4. CASE ReturnStep
  BY <1>4, RequestsKept, Zenon DEF ReturnStep, BooksTypeOK, FloorTypeOK
<1>5. CASE FaultyStep \/ DeliveryStep
  <2>1. UNCHANGED <<req, reqSeen, charges, reversal, sale, bill>>
    BY <1>5, Zenon DEF FaultyStep, DeliveryStep, returnVars, tillVars
  <2> QED BY <1>1, <1>5, <2>1, ShelfCustody, Zenon
<1>6. CASE RefundStep
  BY <1>1, <1>2, <1>6, Zenon DEF RefundStep, RefundNext, CorrectRefund, ConfirmRefund, Others,
     tillVars,
     invVars
<1>7. CASE CorrectionBookStep
  BY <1>1, <1>2, <1>7, Zenon DEF CorrectionBookStep, CorrectionsNext, tillVars, invVars
<1>8. CASE DayStep \/ SettlementStep \/ OutboxStep \/ ExpenseStep \/ ClosingStep
           \/ UNCHANGED bookVars
  BY <1>1, <1>2, <1>8, Zenon DEF DayStep, SettlementStep, OutboxStep, ExpenseStep, ClosingStep,
     bookVars,
     returnVars, tillVars, invVars
<1> QED BY <1>3, <1>4, <1>5, <1>6, <1>7, <1>8, Zenon DEF BooksNext

(* A refund is reported for an approved return that no payout stands for;   *)
(* every other step leaves the payouts there are.                           *)
LEMMA RefundsKept ==
    ASSUME BooksTypeOK, RefundInv, PayoutsStand, ReversalsStand, [BooksNext]_bookVars,
           \A c \in superseding : corr[c].target \in PayoutIds
    PROVE  RefundInv'
<1> USE DEF BooksTypeOK
<1>1. UNCHANGED payout => RefundInv'
  BY RefundsAsBefore, Zenon
<1>2. CASE ReturnStep
  BY <1>1, <1>2, RequestsLeave, ReportedOnce, Zenon DEF ReturnStep
<1>3. CASE RefundStep
  BY <1>3, RefundsStand, RefundsAsBefore, Zenon DEF RefundStep
<1>4. CASE CorrectionBookStep
  BY <1>4, CorrectionsStand, RefundsAsBefore, Zenon DEF CorrectionBookStep
<1>5. CASE DayStep \/ CounterStep \/ FaultyStep \/ DeliveryStep \/ SettlementStep \/ OutboxStep
           \/ ExpenseStep \/ ClosingStep \/ UNCHANGED bookVars
  BY <1>1, <1>5, Zenon DEF DayStep, CounterStep, FaultyStep, DeliveryStep, SettlementStep,
     OutboxStep, ExpenseStep, ClosingStep, bookVars, returnVars
<1> QED BY <1>2, <1>3, <1>4, <1>5, Zenon DEF BooksNext

(* Every step of the books keeps the leases of the outbox. *)
LEMMA LeasesKept ==
    ASSUME BooksTypeOK, LeaseInv, [BooksNext]_bookVars
    PROVE  LeaseInv'
<1>1. ASSUME UNCHANGED outboxVars PROVE LeaseInv'
  BY <1>1 DEF outboxVars, LeaseInv, At
<1>2. CASE OutboxStep
  BY <1>2, LeaseKeeps, Zenon DEF OutboxStep, BooksTypeOK
<1>3. CASE DeliveryStep
  <2>1. /\ UNCHANGED <<learned, worker, crashes, late, known>>
        /\ \E js : job' = WithQueued(js)
    BY <1>3, DeliveryType, TotalsObeySumLaws, Zenon DEF DeliveryStep, BooksTypeOK
  <2> QED BY <2>1, QueueKeeps, Zenon DEF BooksTypeOK
<1>4. CASE CorrectionBookStep
  BY <1>1, <1>4, Zenon DEF CorrectionBookStep, CorrectionsNext
<1>5. CASE DayStep \/ CounterStep \/ ReturnStep \/ RefundStep \/ FaultyStep \/ SettlementStep
           \/ ExpenseStep \/ ClosingStep \/ UNCHANGED bookVars
  BY <1>1, <1>5, Zenon DEF DayStep, CounterStep, ReturnStep, RefundStep, FaultyStep, SettlementStep,
     ExpenseStep, ClosingStep, bookVars
<1> QED BY <1>2, <1>3, <1>4, <1>5, Zenon DEF BooksNext

(* A sale and its money are recorded in one transaction. *)
LEMMA TillKept ==
    ASSUME BooksTypeOK, TillInv, [BooksNext]_bookVars
    PROVE  TillInv'
<1>1. UNCHANGED <<sale, bill>> => TillInv'
  BY Zenon DEF TillInv
<1>2. CASE CounterStep
  BY <1>2, TillOfSale, Zenon DEF CounterStep, BooksTypeOK
<1>3. CASE ReturnStep
  BY <1>1, <1>3, RequestsLeave, Zenon DEF ReturnStep, Others, tillVars
<1>4. CASE RefundStep
  BY <1>1, <1>4, RefundType, Zenon DEF RefundStep, BooksTypeOK, tillVars
<1>5. CASE CorrectionBookStep
  BY <1>1, <1>5, Zenon DEF CorrectionBookStep, CorrectionsNext, tillVars
<1>6. CASE DayStep \/ FaultyStep \/ DeliveryStep \/ SettlementStep \/ OutboxStep \/ ExpenseStep
           \/ ClosingStep \/ UNCHANGED bookVars
  BY <1>1, <1>6, Zenon DEF DayStep, FaultyStep, DeliveryStep, SettlementStep, OutboxStep,
     ExpenseStep, ClosingStep, bookVars, tillVars
<1> QED BY <1>2, <1>3, <1>4, <1>5, <1>6, Zenon DEF BooksNext

(* What every state of the books satisfies. *)
BooksInv ==
    BooksTypeOK /\ DiscInv /\ LeaseInv /\ ReturnsInv /\ RefundInv /\ CorrectionInv /\ TillInv

(* Empty books satisfy it. *)
LEMMA BooksInvInit == BooksInit => BooksInv
<1> SUFFICES ASSUME BooksInit PROVE BooksInv
  BY Zenon
<1>1. BooksTypeOK /\ DiscInv
  BY TypesInit, Zenon
<1>2. LeaseInv
  BY Zenon DEF BooksInit, OutboxInit, NewJob, Idle, LeaseInv, At
<1>3. /\ \A r \in ReturnIds : /\ req[r].status = "none" /\ reqSeen[r] = {} /\ charges[r] = <<>>
                              /\ reversal[r].made = FALSE
      /\ \A p \in PayoutIds : payout[p].status = "none" /\ payout[p].corrected = FALSE
  BY Zenon DEF BooksInit, ReturnsInit, NoReturn, NoReversal, NoPayout
<1>4. /\ \A u \in Units : unit[u].status = "absent"
      /\ \A i \in SaleIds : sale[i].units = {}
  BY Zenon DEF BooksInit, InvInit, SalesInit, NoSale
<1>5. LoadsInv /\ ReversalMatches /\ GrossInv /\ RefundInv
  BY <1>3, Zenon DEF LoadsInv, ReversalMatches, GrossInv, RefundInv
<1>6. CustodyInv /\ CustodyMatches
  BY <1>3, <1>4, Zenon DEF CustodyInv, CustodyMatches, Claims
<1>7. CorrectionInv
  BY <1>3, Zenon DEF BooksInit, CorrectionsInit, NoCorrection, CorrectionInv
<1>8. TillInv
  BY Zenon DEF BooksInit, CounterInit, NoBill, TillInv
<1> QED BY <1>1, <1>2, <1>5, <1>6, <1>7, <1>8, Zenon DEF BooksInv, ReturnsInv

(* Every step of the books keeps it. *)
LEMMA BooksInvKept == BooksInv /\ [BooksNext]_bookVars => BooksInv'
<1> SUFFICES ASSUME BooksInv, [BooksNext]_bookVars PROVE BooksInv'
  BY Zenon
<1>1. BooksTypeOK /\ DiscInv /\ LeaseInv /\ ReturnsInv /\ RefundInv /\ CorrectionInv /\ TillInv
  BY Zenon DEF BooksInv
<1>2. \A c \in superseding : corr[c].target \in PayoutIds
  BY <1>1, Zenon DEF CorrectionInv
<1>3. BooksTypeOK' /\ DiscInv'
  BY <1>1, <1>2, TypesKept, Zenon
<1>4. LeaseInv'
  BY <1>1, LeasesKept, Zenon
<1>5. ReturnsInv' /\ ReversalsStand
  BY <1>1, ReturnsKeptRight, Zenon
<1>6. PayoutsStand /\ SettlementsStand
  BY <1>1, <1>2, PaymentsStand, Zenon
<1>7. RefundInv'
  BY <1>1, <1>2, <1>5, <1>6, RefundsKept, Zenon
<1>8. CorrectionInv'
  BY <1>1, <1>6, CorrectionsAlone, Zenon
<1>9. TillInv'
  BY <1>1, TillKept, Zenon
<1> QED BY <1>3, <1>4, <1>5, <1>7, <1>8, <1>9, SMTT(30) DEF BooksInv

(* It always holds. *)
LEMMA BooksInvariant == BooksSpec => []BooksInv
BY BooksInvInit, BooksInvKept, PTL DEF BooksSpec

-----------------------------------------------------------------------------
(* What only some parts write. *)

(* Only the closing writes days, discrepancies and the debt ledger. *)
LEMMA ClosingAlone == [BooksNext]_bookVars => ClosingNext \/ UNCHANGED <<dayRow, disc, debt>>
BY Zenon DEF BooksNext, DayStep, CounterStep, ReturnStep, RefundStep, FaultyStep, DeliveryStep,
   SettlementStep, OutboxStep, CorrectionBookStep, ExpenseStep, ClosingStep, closingVars, bookVars

(* Only a sale and a request on a return move profit. *)
LEMMA ProfitKept == BooksInv /\ BooksInv' /\ ProfitAgrees /\ [BooksNext]_bookVars => ProfitAgrees'
<1> SUFFICES ASSUME BooksInv, BooksInv', ProfitAgrees, [BooksNext]_bookVars PROVE ProfitAgrees'
  BY Zenon
<1>1. FloorTypeOK /\ FloorTypeOK' /\ LoadsInv /\ ReversalMatches /\ TillInv /\ ReturnsTypeOK
      /\ DaysTypeOK
  BY Zenon DEF BooksInv, ReturnsInv, BooksTypeOK, FloorTypeOK
<1>2. ASSUME UNCHANGED <<bill, sale, reversal, req, charges>> PROVE ProfitAgrees'
  BY <1>1, <1>2, ProfitStands, Zenon
<1>3. CASE CounterStep
  BY <1>1, <1>3, ProfitOfCounter, TotalsObeySumLaws, Zenon DEF CounterStep
<1>4. CASE ReturnStep
  BY <1>1, <1>4, ProfitOfRequest, TotalsObeySumLaws, Zenon DEF ReturnStep
<1>5. CASE RefundStep
  BY <1>1, <1>2, <1>5, RefundType, Zenon DEF RefundStep, tillVars
<1>6. CASE CorrectionBookStep
  BY <1>2, <1>6, Zenon DEF CorrectionBookStep, CorrectionsNext, tillVars
<1>7. CASE DayStep \/ FaultyStep \/ DeliveryStep \/ SettlementStep \/ OutboxStep \/ ExpenseStep
           \/ ClosingStep \/ UNCHANGED bookVars
  BY <1>2, <1>7, Zenon DEF DayStep, FaultyStep, DeliveryStep, SettlementStep, OutboxStep,
     ExpenseStep, ClosingStep, bookVars, tillVars, returnVars
<1> QED BY <1>3, <1>4, <1>5, <1>6, <1>7, Zenon DEF BooksNext

-----------------------------------------------------------------------------
(* What the books promise, for any number of sales, returns, payments,      *)
(* days, workers and people counting and signing.                           *)

(* Every table of the books stays well typed: no refund due is negative, no *)
(* sale is overpaid, and a day's status agrees with its lock.               *)
THEOREM BooksTyped == BooksSpec => []BooksTypeOK
<1>1. BooksInv => BooksTypeOK
  BY Zenon DEF BooksInv
<1> QED BY <1>1, BooksInvariant, PTL

(* approve computes with charges it read before its transaction; because    *)
(* every write of a return is conditional on its version, the reversal is   *)
(* what the charges say, and there is one exactly for an approved return.   *)
THEOREM ReversalsMatch == BooksSpec => []ReversalMatches
<1>1. BooksInv => ReversalMatches
  BY Zenon DEF BooksInv, ReturnsInv
<1> QED BY <1>1, BooksInvariant, PTL

(* The custody of a return and the status of its phone agree, whatever      *)
(* sales, deliveries and markFaulty do meanwhile.                           *)
THEOREM CustodyAgrees == BooksSpec => []CustodyMatches
<1>1. BooksInv => CustodyMatches
  BY Zenon DEF BooksInv, ReturnsInv
<1> QED BY <1>1, BooksInvariant, PTL

(* A refund is paid once, although payouts are reported, corrected and      *)
(* superseded in separate requests.                                         *)
THEOREM RefundedOnce == BooksSpec => []OneRefund
<1>1. BooksInv => OneRefund
  BY RefundOnce, TotalsObeySumLaws, Zenon DEF BooksInv, BooksTypeOK
<1> QED BY <1>1, BooksInvariant, PTL

(* Two requests to correct one payment may be open; one is approved. *)
THEOREM CorrectionsOnce == BooksSpec => []CorrectedOnce
<1>1. BooksInv => CorrectedOnce
  BY OneCorrection, TotalsObeySumLaws, Zenon DEF BooksInv, BooksTypeOK
<1> QED BY <1>1, BooksInvariant, PTL

(* A job of the outbox counts once unless its lease ran out under a worker. *)
THEOREM JobsLearnedOnce == BooksSpec => []LearnedOnce
<1>1. BooksInv => LearnedOnce
  BY LeasesLearn, Zenon DEF BooksInv, BooksTypeOK
<1> QED BY <1>1, BooksInvariant, PTL

(* The counting screen and the closing expect the same cash. *)
THEOREM CashAgrees == BooksSpec => []ChannelsAgree
<1>1. BooksInv => ChannelsAgree
  BY ChannelsSame, Zenon DEF BooksInv, BooksTypeOK
<1> QED BY <1>1, BooksInvariant, PTL

(* What a signed day says never changes, whoever counts or signs late. *)
THEOREM DaysSignedOnce == BooksSpec => SignedOnce
<1>1. UNCHANGED dayRow => SignedStays
  BY Zenon DEF SignedStays
<1>2. BooksInv /\ [BooksNext]_bookVars => SignedStays
  BY <1>1, ClosingAlone, SignedRowsStay, Zenon DEF BooksInv, BooksTypeOK
<1>3. BooksSpec => [][BooksNext]_bookVars
  BY Zenon DEF BooksSpec
<1> QED BY <1>2, <1>3, BooksInvariant, PTL DEF SignedOnce

(* The debt ledger charges exactly what the decisions on discrepancies      *)
(* charged.                                                                 *)
THEOREM DebtsAreDecided == BooksSpec => []ChargedOnce
<1>1. BooksInit => ChargedOnce
  BY ChargesInit, TotalsObeySumLaws, Zenon DEF BooksInit
<1>2. BooksInv /\ ChargedOnce /\ [BooksNext]_bookVars => ChargedOnce'
  <2> SUFFICES ASSUME BooksInv, ChargedOnce, [BooksNext]_bookVars PROVE ChargedOnce'
    BY Zenon
  <2>1. CASE ClosingNext
    BY <2>1, ChargesKept, TotalsObeySumLaws, Zenon DEF BooksInv, BooksTypeOK
  <2>2. CASE UNCHANGED <<disc, debt>>
    <3>1. Decided' = Decided
      BY <2>2, Zenon DEF Decided
    <3> QED BY <2>2, <3>1, ChargedIs, ChargedIsAfter, Zenon
  <2> QED BY <2>1, <2>2, ClosingAlone, Zenon
<1> QED BY <1>1, <1>2, BooksInvariant, PTL DEF BooksSpec

(* "Across a sale and its return this leaves cumulative profit equal to the *)
(* adjustments alone", on whatever days the two fall.                       *)
THEOREM ReturnsLeaveAdjustments == BooksSpec => []ReturnLeavesAdjustments
<1>1. BooksInit => ProfitAgrees
  BY ProfitInit, TotalsObeySumLaws, Zenon DEF BooksInit
<1> QED BY <1>1, ProfitKept, ProfitIs, BooksInvariant, PTL DEF BooksSpec

=============================================================================
