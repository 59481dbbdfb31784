------------------------------- MODULE Books -------------------------------
(***************************************************************************)
(* The books of one branch: the counter, returns and refunds, deliveries   *)
(* and supplier payments, expenses, corrections, and the closing of days   *)
(* that all of them are booked on.                                         *)
(***************************************************************************)
EXTENDS Closing

bookVars == <<invVars, sale, tillVars, dayVars, returnVars, outboxVars, buyVars, payVars,
              correctionVars, expense, closingVars>>

BooksInit ==
    /\ InvInit /\ SalesInit /\ DaysInit /\ CounterInit /\ ReturnsInit /\ OutboxInit
    /\ PurchasingInit /\ PayablesInit /\ ExpensesInit /\ CorrectionsInit /\ ClosingInit

(* The steps of each part; what it does not own stands still. *)
DayStep == NewDay /\ UNCHANGED <<invVars, sale, tillVars, returnVars, outboxVars, buyVars,
                                 payVars, correctionVars, expense, closingVars>>
CounterStep == CounterNext /\ UNCHANGED <<returnVars, outboxVars, buyVars, payVars,
                                          correctionVars, expense, closingVars>>
ReturnStep == ReturnNext /\ UNCHANGED <<outboxVars, buyVars, payVars, correctionVars, expense,
                                        closingVars>>
RefundStep == RefundNext /\ UNCHANGED <<outboxVars, buyVars, payVars, correctionVars, expense,
                                        closingVars>>
FaultyStep == (\E u \in Units : MarkFaulty(u))
              /\ UNCHANGED <<sale, tillVars, dayVars, returnVars, outboxVars, buyVars, payVars,
                             correctionVars, expense, closingVars>>
DeliveryStep == DeliveryNext /\ UNCHANGED <<sale, tillVars, returnVars, correctionVars, expense,
                                            closingVars>>
SettlementStep == SettlementNext
                  /\ UNCHANGED <<invVars, outboxVars, dayVars, sale, tillVars, returnVars,
                                 correctionVars, expense, closingVars>>
OutboxStep == OutboxNext /\ UNCHANGED <<invVars, buyVars, payVars, dayVars, sale, tillVars,
                                        returnVars, correctionVars, expense, closingVars>>
CorrectionBookStep == CorrectionsNext /\ UNCHANGED <<expense, closingVars>>
ExpenseStep == ExpensesNext /\ UNCHANGED <<invVars, sale, tillVars, dayVars, returnVars,
                                 outboxVars, buyVars, payVars, correctionVars, closingVars>>
ClosingStep == ClosingNext /\ UNCHANGED <<invVars, sale, tillVars, returnVars, outboxVars,
                                 buyVars, payVars, correctionVars, expense>>

BooksNext ==
    \/ DayStep \/ CounterStep \/ ReturnStep \/ RefundStep \/ FaultyStep \/ DeliveryStep
    \/ SettlementStep \/ OutboxStep \/ CorrectionBookStep \/ ExpenseStep \/ ClosingStep

(* Sweeps run on a timer in every instance, a worker ends what it has       *)
(* claimed, and leases run out.                                             *)
BooksFairness ==
    /\ \A w \in Workers : WF_bookVars(
          /\ (\E j \in Jobs : SweepRead(w, j)) \/ Claim(w) \/ Learn(w) \/ GiveUp(w)
          /\ UNCHANGED <<invVars, sale, tillVars, dayVars, returnVars, buyVars, payVars,
                         correctionVars, expense, closingVars>>)
    /\ \A j \in Jobs : WF_bookVars(LeaseRunsOut(j)
          /\ UNCHANGED <<invVars, sale, tillVars, dayVars, returnVars, buyVars, payVars,
                         correctionVars, expense, closingVars>>)

BooksSpec == BooksInit /\ [][BooksNext]_bookVars /\ BooksFairness

-----------------------------------------------------------------------------
(* The tables are well typed.  In particular a refund due is never negative *)
(* (settleRefund) and a day's status agrees with its lock.                  *)
BooksTypeOK ==
    /\ InvTypeOK /\ SalesTypeOK /\ DaysTypeOK /\ CounterTypeOK /\ ReturnsTypeOK /\ OutboxTypeOK
    /\ PurchasingTypeOK /\ PayablesTypeOK /\ ExpensesTypeOK /\ CorrectionsTypeOK /\ ClosingTypeOK

(* "Two people signing off the same day produce one closing": what a signed *)
(* day says never changes, in any step of the books.                        *)
SignedOnce == [][SignedStays]_bookVars

(* recognition-outbox: "no stuck work".  Every job is learned or visibly    *)
(* failed in the end, although workers die and leases run out.              *)
JobsEnd == \A j \in Jobs : (job[j].status = "pending") ~> (job[j].status \in {"done", "failed"})

-----------------------------------------------------------------------------
(* recognition.service.ts: "New mapping - first time this code is taught".  *)
(* A worker that has claimed a job can record what it teaches.              *)
FirstLesson == \A w \in Workers : worker[w].at = "working" => ENABLED Learn(w)

(* confirm: "the outstanding re-check runs against COMMITTED rows so two    *)
(* confirmations cannot overpay".  Confirmed payments for a delivery never  *)
(* exceed what it cost.                                                     *)
NeverOverpaid == \A q \in PurchaseIds : PaidOn(settlement, q) <= purchase[q].total
=============================================================================
