------------------------------ MODULE MCBooks ------------------------------
(***************************************************************************)
(* Small instances of Books for TLC.  `page' picks the part of the books   *)
(* that is worked on, so that the state space is the sum of the parts.     *)
(***************************************************************************)
EXTENDS Books

CONSTANTS A, u1, i1, r1, q1, q2, k1, a1, c2, g1, g2, MaxCounts, Pages

VARIABLE page

mcVars == <<bookVars, page>>

Nothing == [p \in Products |-> 0]
OneOfEach == [p \in Products |-> 1]
BookCarts == {[branch |-> A, units |-> {u1}, lines |-> Nothing]}
BookDeliveries == {[units |-> {u1}, lines |-> OneOfEach, codes |-> {k1}]}
BookJobs == PurchaseIds \X {k1}

(* A phone received and sold on day 1 for 2, with a window of one day. *)
InStock == [status |-> "in_stock", branch |-> A]
Retained == [status |-> "faulty", branch |-> A]
Sold == [status |-> "sold", branch |-> A]
SoldOnce ==
    /\ unit = [u \in Units |-> IF page = "refund" THEN Retained ELSE Sold]
    /\ past = [u \in Units |-> {InStock, Sold, unit[u]}]
    /\ sale = [i \in SaleIds |-> IF i = i1 THEN [made |-> TRUE, key |-> NoKey, branch |-> A,
                                                 units |-> {u1}, lines |-> Nothing] ELSE NoSale]
    /\ bill = [i \in SaleIds |-> IF i = i1 THEN [soldOn |-> 1, line |-> 2, items |-> 1,
                  total |-> 2, cash |-> 1, other |-> 1, into |-> a1, due |-> 0, window |-> 1]
                  ELSE NoBill]
    /\ customer = 0 /\ offered = 1
    /\ stock = [p \in Products |-> [b \in Branches |-> [quantity |-> 0, reserved |-> 0]]]
    /\ receipt = [r \in ReceiptIds |-> NoReceipt]
Empty == InvInit /\ SalesInit /\ CounterInit /\ (page # "counter" => offered = 0)

(* "refund": the return has been approved with nothing withheld. *)
Approved1 == [NoReturn EXCEPT !.status = "approved_refund_due", !.sale = i1, !.unit = u1,
                 !.custody = "retained_hold", !.resp = "store_fault", !.by = "owner",
                 !.version = 2]
ApprovedOnce ==
    /\ req = [r \in ReturnIds |-> IF r = r1 THEN Approved1 ELSE NoReturn]
    /\ reqSeen = [r \in ReturnIds |-> IF r = r1 THEN {LoadOf(Approved1, <<>>)} ELSE {}]
    /\ charges = [r \in ReturnIds |-> <<>>]
    /\ reversal = [r \in ReturnIds |-> IF r = r1 THEN [made |-> TRUE, gross |-> 2,
                      adjustments |-> 0, net |-> 2, day |-> 1] ELSE NoReversal]
    /\ payout = [p \in PayoutIds |-> NoPayout]

MCInit ==
    /\ page \in Pages
    /\ IF page \in {"return", "refund", "day", "spend"} THEN SoldOnce ELSE Empty
    /\ IF page = "refund" THEN ApprovedOnce ELSE ReturnsInit
    /\ DaysInit /\ OutboxInit /\ PurchasingInit /\ PayablesInit /\ ExpensesInit
    /\ CorrectionsInit /\ ClosingInit

(* Bounds of each page.  On "return" the second return never goes far; on   *)
(* "refund" and "spend" somebody signs off days that nobody counts; on      *)
(* "day" the first day is counted and closed.                               *)
PageRules ==
    /\ page = "return" => UNCHANGED payout /\ \A r \in ReturnIds \ {r1} : req'[r].version <= 1
    /\ page = "refund" => UNCHANGED <<req, active, clerk, disc, debt>> /\ signer'[g1].day # 2
    /\ page = "supplier" => corr'[c2] = NoCorrection
    /\ page \in {"learning", "counter"} => ~purchase'[q2].made
    /\ page = "learning" => supplier' = 1
    /\ page = "spend" => UNCHANGED <<clerk, disc, debt>>
    /\ page \in {"refund", "spend"} => signer'[g2] = FreeSigner /\ signer'[g1].cash = 0
    /\ page = "day" => /\ UNCHANGED active
                       /\ \A k \in Clerks : clerk'[k].day # 2
                       /\ \A k \in Signers : signer'[k].day # 2
                       /\ signer'[g2].cash = 0
                       /\ dayRow'[1].status # "locked" => dayRow'[1].version <= MaxCounts

MCNext ==
    /\ \/ page \in {"return", "refund", "counter", "spend"} /\ DayStep
       \/ page \in {"return", "refund"} /\ ReturnStep
       \/ page = "return" /\ FaultyStep
       \/ page = "refund" /\ RefundStep
       \/ page \in {"refund", "supplier"} /\ CorrectionBookStep
       \/ page \in {"supplier", "learning", "counter"} /\ DeliveryStep
       \/ page = "supplier" /\ SettlementStep
       \/ page = "learning" /\ OutboxStep
       \/ page = "counter" /\ CounterStep
       \/ page = "spend" /\ ExpenseStep
       \/ page \in {"refund", "day", "spend"} /\ ClosingStep
    /\ PageRules
    /\ UNCHANGED page

MCSpec == MCInit /\ [][MCNext]_mcVars /\ BooksFairness
=============================================================================
