---------------------------- MODULE BranchProofs ----------------------------
(***************************************************************************)
(* Proofs about the parts of a branch, each by itself: the counter,        *)
(* returns and refunds, the outbox, deliveries and supplier payments,      *)
(* expenses.  The tables are finite sets of any size, and amounts are any  *)
(* natural numbers.  What a lemma needs to know of sums it assumes as      *)
(* SumLaws, which TotalsProofs proves.                                     *)
(***************************************************************************)
EXTENDS Returns, Payables, Expenses, TLAPS

-----------------------------------------------------------------------------
(* What a change of one row does to a sum. *)

(* To a total of natural numbers. *)
LEMMA TotalChanges ==
    ASSUME SumLaws, NEW S, IsFiniteSet(S), NEW y \in S, NEW f, NEW g,
           \A x \in S : f[x] \in Nat /\ g[x] \in Nat, \A x \in S \ {y} : g[x] = f[x]
    PROVE  TotalOf(S, g) = TotalOf(S, f) - f[y] + g[y] /\ TotalOf(S, f) \in Nat
<1>1. ChangeLaw /\ TotalLaw
  BY Zenon DEF SumLaws
<1>2. TotalOf(S, f) \in Nat
  BY <1>1, Zenon DEF TotalLaw
<1>3. TotalOf(S, g) = TotalOf(S, f) - f[y] + g[y]
  BY <1>1 DEF ChangeLaw
<1> QED BY <1>2, <1>3, Zenon

(* To a balance of integers. *)
LEMMA NetChanges ==
    ASSUME SumLaws, NEW S, IsFiniteSet(S), NEW y \in S, NEW f, NEW g,
           \A x \in S : f[x] \in Int /\ g[x] \in Int, \A x \in S \ {y} : g[x] = f[x]
    PROVE  NetOf(S, g) = NetOf(S, f) - f[y] + g[y] /\ NetOf(S, f) \in Int
<1>1. NetLaw
  BY Zenon DEF SumLaws
<1>2. NetOf(S, g) = NetOf(S, f) - f[y] + g[y]
  BY <1>1 DEF NetLaw
<1>3. NetOf(S, f) \in Int
  BY <1>1, Zenon DEF NetLaw
<1> QED BY <1>2, <1>3, Zenon

-----------------------------------------------------------------------------
(* Goods and sales keep their types. *)

(* A write of statuses keeps the units table and its history well typed. *)
LEMMA StatusType ==
    ASSUME InvTypeOK, NEW us, NEW to \in UnitStatus, WriteUnits(WithStatus(unit, us, to))
    PROVE  unit' \in [Units -> UnitRow] /\ past' \in [Units -> SUBSET UnitRow]
<1>1. WithStatus(unit, us, to) \in [Units -> UnitRow]
  BY DEF WithStatus, UnitRow, InvTypeOK
<1> QED BY <1>1, Zenon DEF WriteUnits, InvTypeOK

(* Goods received and goods taken leave natural numbers on the shelves. *)
LEMMA ShelfType ==
    ASSUME NEW s \in Stock, NEW b \in Branches, NEW lines \in Lines
    PROVE  /\ OnLines(s, b, lines, ReceiveQuantity) \in Stock
           /\ EveryLine(s, b, lines, Takeable) => OnLines(s, b, lines, TakeQuantity) \in Stock
<1>1. OnLines(s, b, lines, ReceiveQuantity) \in Stock
  BY DEF OnLines, ReceiveQuantity, Stock, StockRow, Lines
<1>2. ASSUME EveryLine(s, b, lines, Takeable)
      PROVE  OnLines(s, b, lines, TakeQuantity) \in Stock
  BY <1>2 DEF OnLines, EveryLine, Takeable, TakeQuantity, Stock, StockRow, Lines
<1> QED BY <1>1, <1>2, Zenon

(* createSale, the goods. *)
LEMMA SaleType ==
    ASSUME InvTypeOK, SalesTypeOK, NEW i \in SaleIds, NEW k \in SaleKeys \cup {NoKey},
           NEW c \in Carts, CreateSale(i, k, c)
    PROVE  InvTypeOK' /\ SalesTypeOK'
<1>1. c.branch \in Branches /\ c.units \in SUBSET Units /\ c.lines \in Lines
  BY SalesAssumption, Zenon DEF SalesAssumption
<1>2. unit' \in [Units -> UnitRow] /\ past' \in [Units -> SUBSET UnitRow]
  BY StatusType, Zenon DEF CreateSale, UnitStatus
<1>3. stock' \in Stock
  BY <1>1, ShelfType, Zenon DEF CreateSale, InvTypeOK
<1>4. SalesTypeOK'
  BY <1>1, Zenon DEF CreateSale, SalesTypeOK
<1> QED BY <1>2, <1>3, <1>4, Zenon DEF CreateSale, InvTypeOK

(* markFaulty writes a status. *)
LEMMA FaultyType ==
    ASSUME InvTypeOK, NEW u \in Units, MarkFaulty(u) PROVE InvTypeOK'
BY StatusType, Zenon DEF MarkFaulty, InvTypeOK, UnitStatus

(* What a line, a cart and a delivery count is a natural number. *)
LEMMA LinesCount ==
    ASSUME SumLaws, NEW lines \in Lines, NEW us \in SUBSET Units
    PROVE  Cardinality(us) + TotalOf(Products, lines) \in Nat
<1>1. Cardinality(us) \in Nat
  BY CounterAssumption, Zenon DEF CounterAssumption, SumLaws, CountLaw
<1>2. TotalOf(Products, lines) \in Nat
  BY CounterAssumption, Zenon DEF CounterAssumption, SumLaws, TotalLaw, Lines
<1> QED BY <1>1, <1>2

(* createSale, the money; another window on offer. *)
LEMMA CounterType ==
    ASSUME SumLaws, InvTypeOK, SalesTypeOK, DaysTypeOK, CounterTypeOK, CounterNext
    PROVE  InvTypeOK' /\ SalesTypeOK' /\ CounterTypeOK' /\ UNCHANGED dayVars
<1>1. ASSUME NEW i \in SaleIds, NEW k \in SaleKeys \cup {NoKey}, NEW c \in Carts,
             NEW price \in Prices, NEW discount \in Discounts, NEW w \in Windows,
             NEW into \in PayChannels, NEW cash \in 0..price, NEW other \in 0..price,
             CheckOut(i, k, c, price, discount, cash, other, into, w)
      PROVE  InvTypeOK' /\ SalesTypeOK' /\ CounterTypeOK' /\ UNCHANGED dayVars
  <2> DEFINE items == ItemsOf(c)
             total == price * items - discount
             row   == [soldOn |-> today, line |-> price, items |-> items, total |-> total,
                       cash |-> cash, other |-> other, into |-> into,
                       due |-> total - cash - other, window |-> w]
  <2>1. price \in Nat /\ discount \in Nat /\ cash \in Nat /\ other \in Nat
    BY CounterAssumption DEF CounterAssumption
  <2>2. items \in Nat
    BY LinesCount, SalesAssumption, Zenon DEF SalesAssumption, ItemsOf
  <2>3. /\ CreateSale(i, k, c) /\ total >= 0 /\ cash + other <= total
        /\ bill' = [bill EXCEPT ![i] = row] /\ customer' = customer + (total - cash - other)
        /\ UNCHANGED <<offered, dayVars>>
    BY <1>1, Zenon DEF CheckOut, Reconciles
  <2>4. price * items \in Nat
    BY <2>1, <2>2
  <2> HIDE DEF items
  <2>5. total \in Nat /\ total - cash - other \in Nat
    BY <2>1, <2>3, <2>4
  <2> HIDE DEF total
  <2>6. row \in BillRow
    BY <2>1, <2>2, <2>5, Zenon DEF DaysTypeOK, BillRow
  <2> HIDE DEF row
  <2>7. CounterTypeOK'
    BY <2>3, <2>5, <2>6 DEF CounterTypeOK
  <2> QED BY <2>3, <2>7, SaleType, Zenon
<1>2. ASSUME NEW w \in Windows, OfferWindow(w)
      PROVE  InvTypeOK' /\ SalesTypeOK' /\ CounterTypeOK' /\ UNCHANGED dayVars
  BY <1>2, Zenon DEF OfferWindow, CounterTypeOK, InvTypeOK, SalesTypeOK, invVars
<1> QED BY <1>1, <1>2, Zenon DEF CounterNext

-----------------------------------------------------------------------------
(* Returns and refunds keep their types. *)

(* What can be read on a row written now. *)
LEMMA StampType == DaysTypeOK => Stamp \in Stamps
BY Zenon DEF DaysTypeOK, Stamp, Stamps

(* What is withheld on a return is a natural number. *)
LEMMA SumType == ASSUME SumLaws, NEW s \in Seq(Charges) PROVE Sum(s) \in Nat
<1>1. IsFiniteSet(DOMAIN s)
  <2>1. DOMAIN s = 1..Len(s) /\ Len(s) \in Nat
    OBVIOUS
  <2> QED BY <2>1 DEF SumLaws, CountLaw
<1>2. ASSUME NEW n \in DOMAIN s PROVE s[n] \in Nat
  <2>1. s[n] \in Charges
    OBVIOUS
  <2>2. Charges \subseteq Nat
    BY ReturnsAssumption, Zenon DEF ReturnsAssumption
  <2> QED BY <2>1, <2>2, Zenon
<1> QED BY <1>1, <1>2, Zenon DEF Sum, SumLaws, TotalLaw

(* One charge less. *)
LEMMA WithoutType ==
    ASSUME NEW s \in Seq(Charges), NEW n \in DOMAIN s
    PROVE  Without(s, n) \in Seq(Charges) /\ Len(Without(s, n)) = Len(s) - 1
<1>1. n \in 1..Len(s) /\ Len(s) \in Nat
  OBVIOUS
<1>2. \A k \in 1..(Len(s) - 1) : s[IF k < n THEN k ELSE k + 1] \in Charges
  BY <1>1
<1>3. Len(s) - 1 \in Nat
  BY <1>1
<1> QED BY <1>2, <1>3 DEF Without

(* Every write of a return leaves a row, its charges and a load. *)
LEMMA RewriteType ==
    ASSUME SumLaws, DaysTypeOK, ReturnsTypeOK, NEW r \in ReturnIds, NEW row \in ReturnRow,
           row.status \in ReturnStatus, NEW withheld \in Seq(Charges),
           Len(withheld) <= MaxCharges, Rewrite(r, row, withheld)
    PROVE  /\ req' \in [ReturnIds -> ReturnRow]
           /\ reqSeen' \in [ReturnIds -> SUBSET Loads]
           /\ charges' \in [ReturnIds -> Seq(Charges)]
           /\ \A x \in ReturnIds : Len(charges'[x]) <= MaxCharges
           /\ \A x \in ReturnIds : reqSeen'[x] # {} => req'[x].status # "none"
<1> DEFINE next == [row EXCEPT !.version = req[r].version + 1, !.stamp = Stamp]
<1>1. req[r].version + 1 \in Nat /\ Sum(withheld) \in Nat
  BY SumType DEF ReturnsTypeOK, ReturnRow
<1>2. next.version = req[r].version + 1 /\ next.status = row.status
      /\ next.custody = row.custody /\ next.resp = row.resp
  BY Zenon DEF ReturnRow
<1>3. /\ next.version <= MaxReturnVersion
      /\ req' = [req EXCEPT ![r] = next]
      /\ charges' = [charges EXCEPT ![r] = withheld]
      /\ reqSeen' = [reqSeen EXCEPT ![r] = @ \cup {LoadOf(next, withheld)}]
  BY Zenon DEF Rewrite
<1>4. req[r].version + 1 \in 0..MaxReturnVersion
  BY <1>1, <1>2, <1>3, ReturnsAssumption DEF ReturnsAssumption
<1>5. next \in ReturnRow
  <2>1. Stamp \in Stamps
    BY StampType, Zenon
  <2> QED BY <1>4, <2>1, Zenon DEF ReturnRow
<1>6. LoadOf(next, withheld) \in Loads
  BY <1>1, <1>2, <1>4, Zenon DEF LoadOf, Loads, ReturnRow
<1>7. next.status # "none"
  BY <1>2, Zenon DEF ReturnStatus
<1>8. /\ req \in [ReturnIds -> ReturnRow] /\ reqSeen \in [ReturnIds -> SUBSET Loads]
      /\ charges \in [ReturnIds -> Seq(Charges)]
      /\ \A x \in ReturnIds : Len(charges[x]) <= MaxCharges
      /\ \A x \in ReturnIds : reqSeen[x] # {} => req[x].status # "none"
  BY Zenon DEF ReturnsTypeOK
<1> HIDE DEF next
<1> QED BY <1>3, <1>5, <1>6, <1>7, <1>8, Zenon

(* A phone that changes hands stays well typed. *)
LEMMA HandsType ==
    ASSUME InvTypeOK, NEW u \in Units, NEW from, NEW to \in UnitStatus,
           MoveUnitForCustody(u, from, to)
    PROVE  InvTypeOK'
<1>1. WriteUnits(WithStatus(unit, {u}, to)) /\ UNCHANGED <<stock, receipt>>
  BY Zenon DEF MoveUnitForCustody
<1> QED BY <1>1, StatusType, Zenon DEF InvTypeOK

(* The steps on a return, each with what it leaves of the goods. *)
LEMMA ReturnType ==
    ASSUME SumLaws, InvTypeOK, SalesTypeOK, DaysTypeOK, CounterTypeOK, ReturnsTypeOK,
           ReturnNext
    PROVE  InvTypeOK' /\ ReturnsTypeOK' /\ UNCHANGED <<sale, tillVars, dayVars>>
<1>1. PICK r \in ReturnIds :
        \/ \E i \in SaleIds, u \in Units, held \in BOOLEAN : Create(r, i, u, held)
        \/ \E load \in reqSeen[r] :
              \/ ReceiveCustody(r, load)
              \/ \E resp \in Responsibility : Investigate(r, load, resp)
              \/ \E amount \in Charges : AddAdjustment(r, load, amount)
              \/ \E n \in 1..MaxCharges : RemoveAdjustment(r, load, n)
              \/ \E role \in Roles : Reject(r, load, role)
              \/ \E role \in Roles, d \in DaySet : Approve(r, load, role, d)
        \/ \E p \in PayoutIds, channel \in {"cash"} \cup Accounts : ReportRefund(p, r, channel)
  BY Zenon DEF ReturnNext
<1>2. /\ req[r] \in ReturnRow /\ charges[r] \in Seq(Charges) /\ Len(charges[r]) <= MaxCharges
      /\ reqSeen[r] \subseteq Loads
  BY Zenon DEF ReturnsTypeOK
<1>3. reversal \in [ReturnIds -> ReversalRow] /\ payout \in [PayoutIds -> PayoutRow]
  BY Zenon DEF ReturnsTypeOK
<1>4. ASSUME NEW row \in ReturnRow, row.status \in ReturnStatus, NEW withheld \in Seq(Charges),
             Len(withheld) <= MaxCharges, Rewrite(r, row, withheld), UNCHANGED <<reversal, payout>>
      PROVE  ReturnsTypeOK'
  BY <1>3, <1>4, RewriteType, Zenon DEF ReturnsTypeOK
<1>5. ASSUME NEW i \in SaleIds, NEW u \in Units, NEW held \in BOOLEAN, Create(r, i, u, held)
      PROVE  InvTypeOK' /\ ReturnsTypeOK' /\ UNCHANGED <<sale, tillVars, dayVars>>
  <2> DEFINE row == [NoReturn EXCEPT !.status = "pending_investigation", !.sale = i, !.unit = u,
                        !.custody = IF held THEN "store_holds" ELSE "customer_holds",
                        !.exception = ~Eligible(i), !.stamp = Stamp]
  <2>1. /\ req' = [req EXCEPT ![r] = row]
        /\ reqSeen' = [reqSeen EXCEPT ![r] = {LoadOf(row, <<>>)}]
        /\ IF held THEN MoveUnitForCustody(u, "sold", "returned") ELSE UNCHANGED invVars
        /\ UNCHANGED <<charges, reversal, payout>> /\ Others
    BY <1>5, Zenon DEF Create
  <2>2. /\ row.status = "pending_investigation" /\ row.resp = "pending" /\ row.version = 0
        /\ row.custody \in {"store_holds", "customer_holds"}
    BY Zenon DEF NoReturn
  <2>3. /\ 0 \in 0..MaxReturnVersion /\ "pending_investigation" \in ReturnStatus
        /\ "pending" \in Responsibility /\ {"store_holds", "customer_holds"} \subseteq CustodyStates
    BY ReturnsAssumption DEF ReturnsAssumption, ReturnStatus, Responsibility, CustodyStates
  <2>4. row \in ReturnRow
    <3>1. Stamp \in Stamps /\ Eligible(i) \in BOOLEAN
      BY StampType, Zenon DEF Eligible
    <3> QED BY <2>3, <3>1, Zenon DEF NoReturn, ReturnRow
  <2>5. Sum(<<>>) \in Nat
    <3>1. <<>> \in Seq(Charges)
      OBVIOUS
    <3> QED BY <3>1, SumType, Zenon
  <2>6. LoadOf(row, <<>>) \in Loads
    <3> HIDE DEF row
    <3> QED BY <2>2, <2>3, <2>5, Zenon DEF LoadOf, Loads
  <2> HIDE DEF row
  <2>7. ReturnsTypeOK'
    BY <2>1, <2>2, <2>4, <2>6, Zenon DEF ReturnsTypeOK
  <2>8. InvTypeOK'
    <3>1. CASE held
      BY <2>1, <3>1, HandsType, Zenon DEF UnitStatus
    <3>2. CASE ~held
      BY <2>1, <3>2, Zenon DEF invVars, InvTypeOK
    <3> QED BY <3>1, <3>2, Zenon
  <2> QED BY <2>1, <2>7, <2>8, Zenon DEF Others
<1>6. \A load \in reqSeen[r] : load \in Loads /\ req[r].status \in ReturnStatus
  BY <1>2, Zenon DEF ReturnsTypeOK, ReturnRow
<1>7. {"under_review", "approved_refund_due", "rejected"} \subseteq ReturnStatus
      /\ {"store_holds", "retained_hold", "handed_back"} \subseteq CustodyStates
  BY Zenon DEF ReturnStatus, CustodyStates
<1>8. ASSUME NEW load \in reqSeen[r], ReceiveCustody(r, load)
      PROVE  InvTypeOK' /\ ReturnsTypeOK' /\ UNCHANGED <<sale, tillVars, dayVars>>
  <2> DEFINE row == [req[r] EXCEPT !.custody = "store_holds"]
  <2>1. /\ Rewrite(r, row, charges[r]) /\ MoveUnitForCustody(req[r].unit, "sold", "returned")
        /\ UNCHANGED <<reversal, payout>> /\ Others
    BY <1>8, Zenon DEF ReceiveCustody
  <2>2. row \in ReturnRow /\ row.status \in ReturnStatus /\ req[r].unit \in Units
    BY <1>2, <1>6, <1>7, Zenon DEF ReturnRow
  <2> HIDE DEF row
  <2>3. InvTypeOK'
    BY <2>1, <2>2, HandsType, Zenon DEF UnitStatus
  <2> QED BY <1>2, <1>4, <2>1, <2>2, <2>3, Zenon DEF Others
<1>9. ASSUME NEW load \in reqSeen[r], NEW resp \in Responsibility, Investigate(r, load, resp)
      PROVE  InvTypeOK' /\ ReturnsTypeOK' /\ UNCHANGED <<sale, tillVars, dayVars>>
  <2> DEFINE row == [req[r] EXCEPT !.status = "under_review", !.resp = resp]
  <2>1. Rewrite(r, row, charges[r]) /\ UNCHANGED <<reversal, payout, invVars>> /\ Others
    BY <1>9, Zenon DEF Investigate
  <2>2. row \in ReturnRow /\ row.status \in ReturnStatus
    BY <1>2, <1>7, Zenon DEF ReturnRow
  <2> HIDE DEF row
  <2>3. InvTypeOK'
    BY <2>1, Zenon DEF InvTypeOK, invVars
  <2> QED BY <1>2, <1>4, <2>1, <2>2, <2>3, Zenon DEF Others
<1>10. ASSUME NEW load \in reqSeen[r], NEW amount \in Charges, AddAdjustment(r, load, amount)
      PROVE  InvTypeOK' /\ ReturnsTypeOK' /\ UNCHANGED <<sale, tillVars, dayVars>>
  <2> DEFINE s == Append(charges[r], amount)
  <2>1. /\ Len(charges[r]) < MaxCharges /\ Rewrite(r, req[r], s)
        /\ UNCHANGED <<reversal, payout, invVars>> /\ Others
    BY <1>10, Zenon DEF AddAdjustment
  <2>2. s \in Seq(Charges) /\ Len(s) <= MaxCharges
    BY <1>2, <2>1, ReturnsAssumption DEF ReturnsAssumption
  <2> HIDE DEF s
  <2>3. InvTypeOK'
    BY <2>1, Zenon DEF InvTypeOK, invVars
  <2> QED BY <1>2, <1>4, <1>6, <2>1, <2>2, <2>3, Zenon DEF Others
<1>11. ASSUME NEW load \in reqSeen[r], NEW n \in 1..MaxCharges, RemoveAdjustment(r, load, n)
      PROVE  InvTypeOK' /\ ReturnsTypeOK' /\ UNCHANGED <<sale, tillVars, dayVars>>
  <2> DEFINE s == Without(charges[r], n)
  <2>1. /\ n \in DOMAIN charges[r] /\ Rewrite(r, req[r], s)
        /\ UNCHANGED <<reversal, payout, invVars>> /\ Others
    BY <1>11, Zenon DEF RemoveAdjustment
  <2>2. s \in Seq(Charges) /\ Len(s) = Len(charges[r]) - 1
    BY <1>2, <2>1, WithoutType, Zenon
  <2>3. Len(s) <= MaxCharges
    BY <1>2, <2>2, ReturnsAssumption DEF ReturnsAssumption
  <2> HIDE DEF s
  <2>4. InvTypeOK'
    BY <2>1, Zenon DEF InvTypeOK, invVars
  <2> QED BY <1>2, <1>4, <1>6, <2>1, <2>2, <2>3, <2>4, Zenon DEF Others
<1>12. ASSUME NEW load \in reqSeen[r], NEW role \in Roles, Reject(r, load, role)
      PROVE  InvTypeOK' /\ ReturnsTypeOK' /\ UNCHANGED <<sale, tillVars, dayVars>>
  <2> DEFINE back == load.custody = "store_holds"
             row  == [req[r] EXCEPT !.status = "rejected", !.by = role,
                         !.custody = IF back THEN "handed_back" ELSE load.custody]
  <2>1. /\ Rewrite(r, row, charges[r])
        /\ IF back THEN MoveUnitForCustody(req[r].unit, "returned", "sold")
                   ELSE UNCHANGED invVars
        /\ UNCHANGED <<reversal, payout>> /\ Others
    BY <1>12, Zenon DEF Reject
  <2>2. load.custody \in CustodyStates /\ req[r].unit \in Units
    BY <1>2, <1>6, Zenon DEF Loads, ReturnRow
  <2>3. row \in ReturnRow /\ row.status \in ReturnStatus
    BY <1>2, <1>7, <2>2, Zenon DEF ReturnRow
  <2> HIDE DEF row
  <2>4. InvTypeOK'
    <3>1. CASE back
      BY <2>1, <2>2, <3>1, HandsType, Zenon DEF UnitStatus
    <3>2. CASE ~back
      BY <2>1, <3>2, Zenon DEF invVars, InvTypeOK
    <3> QED BY <3>1, <3>2, Zenon
  <2> QED BY <1>2, <1>4, <2>1, <2>3, <2>4, Zenon DEF Others
<1>13. ASSUME NEW load \in reqSeen[r], NEW role \in Roles, NEW d \in DaySet,
             Approve(r, load, role, d)
      PROVE  InvTypeOK' /\ ReturnsTypeOK' /\ UNCHANGED <<sale, tillVars, dayVars>>
  <2> DEFINE gross == GrossRefundOf(req[r].sale)
             row   == [req[r] EXCEPT !.status = "approved_refund_due", !.by = role,
                                     !.custody = "retained_hold"]
             new   == [made |-> TRUE, gross |-> gross, adjustments |-> load.withheld,
                       net |-> gross - load.withheld, day |-> d]
  <2>1. /\ SettleRefund(gross, load.withheld) /\ Rewrite(r, row, charges[r])
        /\ reversal' = [reversal EXCEPT ![r] = new]
        /\ MoveUnitForCustody(req[r].unit, "returned", "faulty")
        /\ UNCHANGED payout /\ Others
    BY <1>13, Zenon DEF Approve
  <2>2. load.withheld \in Nat /\ req[r].unit \in Units /\ req[r].sale \in SaleIds
    BY <1>2, <1>6, Zenon DEF Loads, ReturnRow
  <2>3. gross \in Nat
    BY <2>2, Zenon DEF GrossRefundOf, CounterTypeOK, BillRow
  <2> HIDE DEF gross
  <2>4. new \in ReversalRow
    BY <2>1, <2>2, <2>3 DEF SettleRefund, ReversalRow
  <2>5. row \in ReturnRow /\ row.status \in ReturnStatus
    BY <1>2, <1>7, Zenon DEF ReturnRow
  <2> HIDE DEF row, new
  <2>6. ReturnsTypeOK'
    BY <1>2, <1>3, <2>1, <2>4, <2>5, RewriteType, Zenon DEF ReturnsTypeOK
  <2>7. InvTypeOK'
    BY <2>1, <2>2, HandsType, Zenon DEF UnitStatus
  <2> QED BY <2>1, <2>6, <2>7, Zenon DEF Others
<1>14. ASSUME NEW p \in PayoutIds, NEW channel \in {"cash"} \cup Accounts,
             ReportRefund(p, r, channel)
      PROVE  InvTypeOK' /\ ReturnsTypeOK' /\ UNCHANGED <<sale, tillVars, dayVars>>
  <2> DEFINE row == [status |-> "reported", ret |-> r, amount |-> reversal[r].net,
                     channel |-> channel, day |-> 0, corrected |-> FALSE, stamp |-> Stamp]
  <2>1. /\ payout' = [payout EXCEPT ![p] = row]
        /\ UNCHANGED <<req, reqSeen, charges, reversal, invVars>> /\ Others
    BY <1>14, Zenon DEF ReportRefund
  <2>2. Stamp \in Stamps /\ reversal[r].net \in Nat
    BY <1>3, StampType, Zenon DEF ReversalRow
  <2>3. row \in PayoutRow
    BY <2>2, Zenon DEF PayoutRow
  <2> HIDE DEF row
  <2>4. ReturnsTypeOK'
    BY <1>3, <2>1, <2>3, Zenon DEF ReturnsTypeOK
  <2> QED BY <2>1, <2>4, Zenon DEF Others, InvTypeOK, invVars
<1> QED BY <1>1, <1>5, <1>8, <1>9, <1>10, <1>11, <1>12, <1>13, <1>14, Zenon

(* A reported refund is sent another way, or confirmed. *)
LEMMA RefundType ==
    ASSUME DaysTypeOK, ReturnsTypeOK, RefundNext
    PROVE  ReturnsTypeOK' /\ UNCHANGED <<req, reqSeen, charges, reversal, invVars, sale, tillVars, dayVars>>
<1>1. PICK p \in PayoutIds : \/ \E channel \in {"cash"} \cup Accounts : CorrectRefund(p, channel)
                             \/ \E d \in DaySet : ConfirmRefund(p, d)
  BY Zenon DEF RefundNext
<1>2. Stamp \in Stamps
  BY StampType, Zenon
<1>3. UNCHANGED <<req, reqSeen, charges, reversal, invVars, sale, tillVars, dayVars>>
  BY <1>1, Zenon DEF CorrectRefund, ConfirmRefund, Others
<1>4. payout[p] \in PayoutRow /\ payout \in [PayoutIds -> PayoutRow]
  BY Zenon DEF ReturnsTypeOK
<1>5. ASSUME NEW row \in PayoutRow, payout' = [payout EXCEPT ![p] = row] PROVE ReturnsTypeOK'
  BY <1>3, <1>4, <1>5, Zenon DEF ReturnsTypeOK
<1>6. ASSUME NEW channel \in {"cash"} \cup Accounts, CorrectRefund(p, channel) PROVE ReturnsTypeOK'
  <2> DEFINE row == [payout[p] EXCEPT !.channel = channel, !.stamp = Stamp]
  <2>1. row \in PayoutRow
    BY <1>2, <1>4, Zenon DEF PayoutRow
  <2> HIDE DEF row
  <2> QED BY <1>5, <1>6, <2>1, Zenon DEF CorrectRefund, row
<1>7. ASSUME NEW d \in DaySet, ConfirmRefund(p, d) PROVE ReturnsTypeOK'
  <2> DEFINE row == [payout[p] EXCEPT !.status = "confirmed", !.day = d, !.stamp = Stamp]
  <2>1. row \in PayoutRow
    BY <1>2, <1>4, Zenon DEF PayoutRow
  <2> HIDE DEF row
  <2> QED BY <1>5, <1>7, <2>1, Zenon DEF ConfirmRefund, row
<1> QED BY <1>1, <1>3, <1>6, <1>7, Zenon

-----------------------------------------------------------------------------
(* Returns: versions, reversals, custody. *)

(* A request whose conditional write succeeds has seen the row as it is. *)
LEMMA LoadIsCurrent ==
    ASSUME LoadsInv, NEW r \in ReturnIds, NEW load \in reqSeen[r], SwapHolds(r, load)
    PROVE  load = LoadOf(req[r], charges[r])
BY Zenon DEF LoadsInv, SwapHolds

(* What a write of a return does to the tables of returns. *)
LEMMA RewriteDoes ==
    ASSUME ReturnsTypeOK, NEW r \in ReturnIds, NEW row \in ReturnRow, NEW withheld,
           Rewrite(r, row, withheld)
    PROVE  /\ \A q \in ReturnIds : q # r => req'[q] = req[q] /\ charges'[q] = charges[q]
           /\ \A q \in ReturnIds : q # r => reqSeen'[q] = reqSeen[q]
           /\ charges'[r] = withheld
           /\ req'[r].status = row.status /\ req'[r].sale = row.sale /\ req'[r].unit = row.unit
           /\ req'[r].custody = row.custody
           /\ req'[r].version = req[r].version + 1
           /\ reqSeen'[r] = reqSeen[r] \cup {LoadOf(req'[r], withheld)}
<1> DEFINE next == [row EXCEPT !.version = req[r].version + 1, !.stamp = Stamp]
<1>1. /\ req' = [req EXCEPT ![r] = next]
      /\ charges' = [charges EXCEPT ![r] = withheld]
      /\ reqSeen' = [reqSeen EXCEPT ![r] = @ \cup {LoadOf(next, withheld)}]
  BY Zenon DEF Rewrite
<1>2. /\ next.status = row.status /\ next.sale = row.sale /\ next.unit = row.unit
      /\ next.custody = row.custody /\ next.version = req[r].version + 1
  BY Zenon DEF ReturnRow
<1>3. DOMAIN req = ReturnIds /\ DOMAIN charges = ReturnIds /\ DOMAIN reqSeen = ReturnIds
  BY Zenon DEF ReturnsTypeOK
<1> HIDE DEF next
<1> QED BY <1>1, <1>2, <1>3, Zenon

(* ... so that a load with the new version is the new row. *)
LEMMA RewriteKeeps ==
    ASSUME ReturnsTypeOK, LoadsInv, NEW r \in ReturnIds, NEW row \in ReturnRow, NEW withheld,
           Rewrite(r, row, withheld), UNCHANGED sale, req[r].status # "none",
           row.status # "none", row.sale = req[r].sale, row.unit = req[r].unit
    PROVE  LoadsInv'
<1>1. /\ \A q \in ReturnIds : q # r => /\ req'[q] = req[q] /\ charges'[q] = charges[q]
                                       /\ reqSeen'[q] = reqSeen[q]
      /\ charges'[r] = withheld
      /\ req'[r].status = row.status /\ req'[r].sale = row.sale /\ req'[r].unit = row.unit
      /\ req'[r].version = req[r].version + 1
      /\ reqSeen'[r] = reqSeen[r] \cup {LoadOf(req'[r], withheld)}
  BY RewriteDoes
<1>2. req[r].version \in Nat /\ \A load \in reqSeen[r] : load.version \in Nat
  BY DEF ReturnsTypeOK, ReturnRow, Loads
<1>3. LoadOf(req'[r], withheld).version = req[r].version + 1
  BY <1>1, Zenon DEF LoadOf
<1>4. \A load \in reqSeen'[r] :
         /\ load.version <= req'[r].version
         /\ load.version = req'[r].version => load = LoadOf(req'[r], withheld)
  BY <1>1, <1>2, <1>3 DEF LoadsInv
<1> QED BY <1>1, <1>4 DEF LoadsInv

(* The steps on a return that is still open, by what they do. *)
Open == {"pending_investigation", "under_review"}
Redone(r, status, custody) ==
    /\ \A q \in ReturnIds : q # r => req'[q] = req[q] /\ charges'[q] = charges[q]
    /\ req[r].status \in Open /\ req'[r].status = status /\ req'[r].custody = custody
    /\ req'[r].sale = req[r].sale /\ req'[r].unit = req[r].unit
Edited(r) ==
    \E s \in Open : Redone(r, s, req[r].custody) /\ UNCHANGED <<reversal, invVars>>
TakenIn(r) ==
    /\ \E s \in Open : Redone(r, s, "store_holds")
    /\ req[r].custody = "customer_holds" /\ MoveUnitForCustody(req[r].unit, "sold", "returned")
    /\ UNCHANGED reversal
Rejected(r) ==
    /\ \E c \in CustodyStates : Redone(r, "rejected", c)
    /\ IF req[r].custody = "store_holds"
       THEN MoveUnitForCustody(req[r].unit, "returned", "sold") ELSE UNCHANGED invVars
    /\ UNCHANGED reversal
Granted(r) ==
    /\ Redone(r, "approved_refund_due", "retained_hold") /\ req[r].custody = "store_holds"
    /\ charges'[r] = charges[r]
    /\ \E d \in DaySet : reversal' = [reversal EXCEPT ![r] =
          [made |-> TRUE, gross |-> bill[req[r].sale].line, adjustments |-> Sum(charges[r]),
           net |-> bill[req[r].sale].line - Sum(charges[r]), day |-> d]]
    /\ MoveUnitForCustody(req[r].unit, "returned", "faulty")

(* Every request on a return is one of these, because a conditional write   *)
(* only succeeds for who has seen the row as it is.                         *)
LEMMA ReturnKinds ==
    ASSUME DaysTypeOK, ReturnsTypeOK, LoadsInv, NEW r \in ReturnIds, NEW load \in reqSeen[r],
           \/ ReceiveCustody(r, load)
           \/ \E resp \in Responsibility : Investigate(r, load, resp)
           \/ \E amount \in Charges : AddAdjustment(r, load, amount)
           \/ \E n \in 1..MaxCharges : RemoveAdjustment(r, load, n)
           \/ \E role \in Roles : Reject(r, load, role)
           \/ \E role \in Roles, d \in DaySet : Approve(r, load, role, d)
    PROVE  /\ LoadsInv' /\ UNCHANGED <<payout, sale, tillVars, dayVars>>
           /\ Edited(r) \/ TakenIn(r) \/ Rejected(r) \/ Granted(r)
<1>1. req[r] \in ReturnRow /\ req[r].status # "none"
  BY Zenon DEF ReturnsTypeOK
<1>2. ASSUME NEW row \in ReturnRow, NEW withheld, Rewrite(r, row, withheld), UNCHANGED sale,
             row.sale = req[r].sale, row.unit = req[r].unit, row.status # "none",
             req[r].status \in Open
      PROVE  LoadsInv' /\ Redone(r, row.status, row.custody) /\ charges'[r] = withheld
  <2>1. LoadsInv'
    BY <1>1, <1>2, RewriteKeeps, Zenon
  <2> QED BY <1>2, <2>1, RewriteDoes DEF Redone
<1>3. SwapHolds(r, load) => /\ load.status = req[r].status /\ load.custody = req[r].custody
                            /\ load.withheld = Sum(charges[r])
  BY LoadIsCurrent DEF LoadOf
<1>4. CASE ReceiveCustody(r, load)
  <2> DEFINE row == [req[r] EXCEPT !.custody = "store_holds"]
  <2>1. /\ AssertEditable(load.status) /\ load.custody = "customer_holds" /\ SwapHolds(r, load)
        /\ Rewrite(r, row, charges[r]) /\ MoveUnitForCustody(req[r].unit, "sold", "returned")
        /\ UNCHANGED <<reversal, payout, sale, tillVars, dayVars>>
    BY <1>4, Zenon DEF ReceiveCustody, Others
  <2>2. req[r].status \in Open /\ req[r].custody = "customer_holds"
    BY <1>3, <2>1, Zenon DEF AssertEditable, Open
  <2>3. /\ row \in ReturnRow /\ row.sale = req[r].sale /\ row.unit = req[r].unit
        /\ row.status = req[r].status /\ row.custody = "store_holds"
    BY <1>1, Zenon DEF ReturnRow, CustodyStates
  <2> HIDE DEF row
  <2> QED BY <1>1, <1>2, <2>1, <2>2, <2>3, Zenon DEF TakenIn
<1>5. ASSUME NEW resp \in Responsibility, Investigate(r, load, resp)
      PROVE  LoadsInv' /\ UNCHANGED <<payout, sale, tillVars, dayVars>> /\ Edited(r)
  <2> DEFINE row == [req[r] EXCEPT !.status = "under_review", !.resp = resp]
  <2>1. /\ AssertEditable(load.status) /\ SwapHolds(r, load) /\ Rewrite(r, row, charges[r])
        /\ UNCHANGED <<reversal, payout, invVars, sale, tillVars, dayVars>>
    BY <1>5, Zenon DEF Investigate, Others
  <2>2. req[r].status \in Open
    BY <1>3, <2>1, Zenon DEF AssertEditable, Open
  <2>3. /\ row \in ReturnRow /\ row.sale = req[r].sale /\ row.unit = req[r].unit
        /\ row.status = "under_review" /\ row.custody = req[r].custody
    BY <1>1, Zenon DEF ReturnRow, ReturnStatus
  <2> HIDE DEF row
  <2> QED BY <1>2, <2>1, <2>2, <2>3, Zenon DEF Edited, Open
<1>6. ASSUME NEW amount \in Charges, AddAdjustment(r, load, amount)
      PROVE  LoadsInv' /\ UNCHANGED <<payout, sale, tillVars, dayVars>> /\ Edited(r)
  <2>1. /\ AssertEditable(load.status) /\ SwapHolds(r, load)
        /\ Rewrite(r, req[r], Append(charges[r], amount))
        /\ UNCHANGED <<reversal, payout, invVars, sale, tillVars, dayVars>>
    BY <1>6, Zenon DEF AddAdjustment, Others
  <2>2. req[r].status \in Open
    BY <1>3, <2>1, Zenon DEF AssertEditable, Open
  <2> QED BY <1>1, <1>2, <2>1, <2>2, Zenon DEF Edited
<1>7. ASSUME NEW n \in 1..MaxCharges, RemoveAdjustment(r, load, n)
      PROVE  LoadsInv' /\ UNCHANGED <<payout, sale, tillVars, dayVars>> /\ Edited(r)
  <2>1. /\ AssertEditable(load.status) /\ SwapHolds(r, load)
        /\ Rewrite(r, req[r], Without(charges[r], n))
        /\ UNCHANGED <<reversal, payout, invVars, sale, tillVars, dayVars>>
    BY <1>7, Zenon DEF RemoveAdjustment, Others
  <2>2. req[r].status \in Open
    BY <1>3, <2>1, Zenon DEF AssertEditable, Open
  <2> QED BY <1>1, <1>2, <2>1, <2>2, Zenon DEF Edited
<1>8. ASSUME NEW role \in Roles, Reject(r, load, role)
      PROVE  LoadsInv' /\ UNCHANGED <<payout, sale, tillVars, dayVars>> /\ Rejected(r)
  <2> DEFINE c   == IF load.custody = "store_holds" THEN "handed_back" ELSE load.custody
             row == [req[r] EXCEPT !.status = "rejected", !.by = role, !.custody = c]
  <2>1. /\ "rejected" \in ReturnTransitions[load.status] /\ SwapHolds(r, load)
        /\ Rewrite(r, row, charges[r])
        /\ IF load.custody = "store_holds"
           THEN MoveUnitForCustody(req[r].unit, "returned", "sold") ELSE UNCHANGED invVars
        /\ UNCHANGED <<reversal, payout, sale, tillVars, dayVars>>
    BY <1>8, Zenon DEF Reject, Others
  <2>2. load.status \in ReturnStatus /\ load.custody \in CustodyStates
    BY DEF ReturnsTypeOK, Loads
  <2>3. req[r].status \in Open /\ c \in CustodyStates
    BY <1>3, <2>1, <2>2 DEF ReturnTransitions, ReturnStatus, Open, CustodyStates
  <2> HIDE DEF c
  <2>4. /\ row \in ReturnRow /\ row.sale = req[r].sale /\ row.unit = req[r].unit
        /\ row.status = "rejected" /\ row.custody = c
    BY <1>1, <2>3, Zenon DEF ReturnRow, ReturnStatus
  <2> HIDE DEF row
  <2>5. LoadsInv' /\ Redone(r, "rejected", c)
    BY <1>2, <2>1, <2>3, <2>4, Zenon
  <2> QED BY <1>3, <2>1, <2>3, <2>5, Zenon DEF Rejected
<1>9. ASSUME NEW role \in Roles, NEW d \in DaySet, Approve(r, load, role, d)
      PROVE  LoadsInv' /\ UNCHANGED <<payout, sale, tillVars, dayVars>> /\ Granted(r)
  <2> DEFINE row == [req[r] EXCEPT !.status = "approved_refund_due", !.by = role,
                                   !.custody = "retained_hold"]
             gross == GrossRefundOf(req[r].sale)
  <2>1. /\ "approved_refund_due" \in ReturnTransitions[load.status] /\ SwapHolds(r, load)
        /\ load.custody = "store_holds" /\ Rewrite(r, row, charges[r])
        /\ reversal' = [reversal EXCEPT ![r] = [made |-> TRUE, gross |-> gross,
              adjustments |-> load.withheld, net |-> gross - load.withheld, day |-> d]]
        /\ MoveUnitForCustody(req[r].unit, "returned", "faulty")
        /\ UNCHANGED <<payout, sale, tillVars, dayVars>>
    BY <1>9, Zenon DEF Approve, Others
  <2>2. load.status \in ReturnStatus
    BY DEF ReturnsTypeOK, Loads
  <2>3. req[r].status \in Open
    BY <1>3, <2>1, <2>2 DEF ReturnTransitions, ReturnStatus, Open
  <2>4. /\ row \in ReturnRow /\ row.sale = req[r].sale /\ row.unit = req[r].unit
        /\ row.status = "approved_refund_due" /\ row.custody = "retained_hold"
    BY <1>1, Zenon DEF ReturnRow, ReturnStatus, CustodyStates
  <2> HIDE DEF row
  <2>5. LoadsInv' /\ Redone(r, "approved_refund_due", "retained_hold") /\ charges'[r] = charges[r]
    BY <1>2, <2>1, <2>3, <2>4, Zenon
  <2>6. \E x \in DaySet : reversal' = [reversal EXCEPT ![r] =
          [made |-> TRUE, gross |-> bill[req[r].sale].line, adjustments |-> Sum(charges[r]),
           net |-> bill[req[r].sale].line - Sum(charges[r]), day |-> x]]
    BY <1>3, <2>1, Zenon DEF GrossRefundOf
  <2> QED BY <1>3, <2>1, <2>5, <2>6, Zenon DEF Granted
<1> QED BY <1>4, <1>5, <1>6, <1>7, <1>8, <1>9, Zenon

(* A return is opened. *)
Created(r, i, u, custody) ==
    /\ \A q \in ReturnIds : q # r => req'[q] = req[q]
    /\ req[r].status = "none" /\ req'[r].status = "pending_investigation"
    /\ req'[r].custody = custody /\ req'[r].sale = i /\ req'[r].unit = u
    /\ u \in sale[i].units /\ ClaimIsFree(i, u)
    /\ IF custody = "store_holds" THEN MoveUnitForCustody(u, "sold", "returned")
                                  ELSE UNCHANGED invVars

(* create is just that, and what can be loaded of it is the new row. *)
LEMMA CreateDoes ==
    ASSUME ReturnsTypeOK, LoadsInv, NEW r \in ReturnIds, NEW i \in SaleIds, NEW u \in Units,
           NEW held \in BOOLEAN, Create(r, i, u, held)
    PROVE  /\ LoadsInv' /\ UNCHANGED <<charges, reversal, payout, sale, tillVars>>
           /\ \E c \in {"store_holds", "customer_holds"} : Created(r, i, u, c)
<1> DEFINE c   == IF held THEN "store_holds" ELSE "customer_holds"
           row == [NoReturn EXCEPT !.status = "pending_investigation", !.sale = i, !.unit = u,
                      !.custody = c, !.exception = ~Eligible(i), !.stamp = Stamp]
<1>1. /\ req[r].status = "none" /\ sale[i].made /\ u \in sale[i].units /\ ClaimIsFree(i, u)
      /\ req' = [req EXCEPT ![r] = row]
      /\ reqSeen' = [reqSeen EXCEPT ![r] = {LoadOf(row, <<>>)}]
      /\ IF held THEN MoveUnitForCustody(u, "sold", "returned") ELSE UNCHANGED invVars
      /\ UNCHANGED <<charges, reversal, payout, sale, tillVars>>
  BY Zenon DEF Create, Others
<1>2. /\ row.status = "pending_investigation" /\ row.sale = i /\ row.unit = u /\ row.custody = c
      /\ row.version = 0
  BY Zenon DEF NoReturn
<1>3. c \in {"store_holds", "customer_holds"} /\ (held <=> c = "store_holds")
  BY Zenon
<1> HIDE DEF row, c
<1>4. DOMAIN req = ReturnIds /\ DOMAIN reqSeen = ReturnIds
  BY Zenon DEF ReturnsTypeOK
<1>5. /\ req'[r] = row /\ reqSeen'[r] = {LoadOf(row, <<>>)}
      /\ \A q \in ReturnIds : q # r => req'[q] = req[q] /\ reqSeen'[q] = reqSeen[q]
  BY <1>1, <1>4, Zenon
<1>6. charges[r] = <<>>
  BY <1>1, Zenon DEF LoadsInv
<1>7. LoadOf(row, <<>>).version = 0
  BY <1>2, Zenon DEF LoadOf
<1>8. LoadsInv'
  BY <1>1, <1>2, <1>5, <1>6, <1>7 DEF LoadsInv
<1>9. Created(r, i, u, c)
  BY <1>1, <1>2, <1>3, <1>5, Zenon DEF Created
<1> QED BY <1>1, <1>3, <1>8, <1>9, Zenon

(* A reversal is never touched again. *)
ReversalsStand == \A r \in ReturnIds : reversal[r].made => reversal'[r] = reversal[r]

(* What is approved is final: reversals go on matching their returns. *)
LEMMA ReversalsKept ==
    ASSUME DaysTypeOK, ReturnsTypeOK, LoadsInv, ReversalMatches, GrossInv, ReturnNext
    PROVE  LoadsInv' /\ ReversalMatches' /\ GrossInv' /\ ReversalsStand
<1> USE DEF ReversalsStand
<1>1. ASSUME NEW r \in ReturnIds, NEW i \in SaleIds, NEW u \in Units, NEW held \in BOOLEAN,
             Create(r, i, u, held)
      PROVE  LoadsInv' /\ ReversalMatches' /\ GrossInv' /\ ReversalsStand
  <2>1. LoadsInv' /\ UNCHANGED <<charges, reversal, tillVars>>
    BY <1>1, CreateDoes, Zenon
  <2>2. /\ \A q \in ReturnIds : q # r => req'[q] = req[q]
        /\ req[r].status = "none" /\ req'[r].status = "pending_investigation"
    BY <1>1, CreateDoes DEF Created
  <2>3. ~reversal[r].made
    BY <2>2, Zenon DEF ReversalMatches
  <2> QED BY <2>1, <2>2, <2>3, Zenon DEF ReversalMatches, GrossInv, tillVars
<1>2. ASSUME NEW p, NEW r \in ReturnIds, NEW channel, ReportRefund(p, r, channel)
      PROVE  LoadsInv' /\ ReversalMatches' /\ GrossInv' /\ ReversalsStand
  BY <1>2, Zenon DEF ReportRefund, Others, tillVars, LoadsInv, ReversalMatches, GrossInv
<1>3. ASSUME NEW r \in ReturnIds, LoadsInv', UNCHANGED tillVars,
             Edited(r) \/ TakenIn(r) \/ Rejected(r) \/ Granted(r)
      PROVE  LoadsInv' /\ ReversalMatches' /\ GrossInv' /\ ReversalsStand
  <2>1. /\ \A q \in ReturnIds : q # r => req'[q] = req[q] /\ charges'[q] = charges[q]
        /\ req'[r].sale = req[r].sale /\ req[r].status \in Open
    BY <1>3, Zenon DEF Edited, TakenIn, Rejected, Granted, Redone
  <2>2. ~reversal[r].made
    BY <2>1, Zenon DEF ReversalMatches, Open
  <2>3. CASE Edited(r) \/ TakenIn(r) \/ Rejected(r)
    <3>1. UNCHANGED reversal /\ req'[r].status # "approved_refund_due"
      BY <2>3, Zenon DEF Edited, TakenIn, Rejected, Redone, Open
    <3> QED BY <1>3, <2>1, <2>2, <3>1 DEF ReversalMatches, GrossInv, tillVars
  <2>4. CASE Granted(r)
    <3>1. /\ req'[r].status = "approved_refund_due" /\ charges'[r] = charges[r]
          /\ \A q \in ReturnIds : q # r => reversal'[q] = reversal[q]
          /\ reversal'[r].made /\ reversal'[r].gross = bill[req[r].sale].line
          /\ reversal'[r].adjustments = Sum(charges[r])
          /\ reversal'[r].net = bill[req[r].sale].line - Sum(charges[r])
      <4>1. PICK d \in DaySet : reversal' = [reversal EXCEPT ![r] =
              [made |-> TRUE, gross |-> bill[req[r].sale].line, adjustments |-> Sum(charges[r]),
               net |-> bill[req[r].sale].line - Sum(charges[r]), day |-> d]]
        BY <2>4, Zenon DEF Granted
      <4>2. req'[r].status = "approved_refund_due" /\ charges'[r] = charges[r]
        BY <2>4, Zenon DEF Granted, Redone
      <4> QED BY <4>1, <4>2, Zenon DEF ReturnsTypeOK
    <3> QED BY <1>3, <2>1, <2>2, <3>1, SMTT(30) DEF ReversalMatches, GrossInv, tillVars
  <2> QED BY <1>3, <2>3, <2>4, Zenon
<1>4. ASSUME NEW r \in ReturnIds, NEW load \in reqSeen[r],
           \/ ReceiveCustody(r, load)
           \/ \E resp \in Responsibility : Investigate(r, load, resp)
           \/ \E amount \in Charges : AddAdjustment(r, load, amount)
           \/ \E n \in 1..MaxCharges : RemoveAdjustment(r, load, n)
           \/ \E role \in Roles : Reject(r, load, role)
           \/ \E role \in Roles, d \in DaySet : Approve(r, load, role, d)
      PROVE  LoadsInv' /\ ReversalMatches' /\ GrossInv' /\ ReversalsStand
  BY <1>3, <1>4, ReturnKinds, Zenon
<1> QED BY <1>1, <1>2, <1>4, Zenon DEF ReturnNext

(* What moving a unit does. *)
LEMMA HandsDo ==
    ASSUME InvTypeOK, NEW u \in Units, NEW from, NEW to, MoveUnitForCustody(u, from, to)
    PROVE  /\ unit[u].status = from /\ unit'[u].status = to
           /\ \A x \in Units : x # u => unit'[x] = unit[x]
<1>1. unit[u].status = from /\ unit' = WithStatus(unit, {u}, to)
  BY Zenon DEF MoveUnitForCustody, WriteUnits
<1> QED BY <1>1, Zenon DEF WithStatus, InvTypeOK, UnitRow

(* What a return in the shop's hands says about its phone. *)
Agrees(custody, status) ==
    CASE custody = "customer_holds" -> status \in {"sold", "faulty"}
      [] custody = "store_holds"    -> status \in {"returned", "faulty"}
      [] custody = "retained_hold"  -> status = "faulty"
      [] OTHER -> FALSE

(* CustodyMatches, by what it says of each return. *)
LEMMA CustodyIs ==
    CustodyMatches <=> \A r \in ReturnIds :
        req[r].status \notin {"none", "rejected"} => Agrees(req[r].custody,
        unit[req[r].unit].status)
BY Zenon DEF CustodyMatches, Agrees

(* The same of the state after a step. *)
LEMMA CustodyIsAfter ==
    CustodyMatches' <=> \A r \in ReturnIds :
        req'[r].status \notin {"none", "rejected"}
          => Agrees(req'[r].custody, unit'[req'[r].unit].status)
BY Zenon DEF CustodyMatches, Agrees

(* A return is opened for a phone that no other return claims. *)
LEMMA CreateCustody ==
    ASSUME InvTypeOK, SalesTypeOK, ReturnsTypeOK, LoadsInv, CustodyInv, CustodyMatches,
           NEW r \in ReturnIds, NEW i \in SaleIds, NEW u \in Units,
           NEW c \in {"store_holds", "customer_holds"}, Created(r, i, u, c), UNCHANGED sale
    PROVE  CustodyInv' /\ CustodyMatches'
<1>1. /\ \A q \in ReturnIds : q # r => req'[q] = req[q]
      /\ req[r].status = "none" /\ req'[r].status = "pending_investigation"
      /\ req'[r].custody = c /\ req'[r].unit = u /\ u \in sale[i].units
  BY Zenon DEF Created
<1>2. \A q \in ReturnIds : ~Claims(q, u)
  <2> SUFFICES ASSUME NEW q \in ReturnIds, Claims(q, u) PROVE FALSE
    BY Zenon
  <2>1. req[q].status \notin {"none", "rejected"} /\ req[q].unit = u
    BY Zenon DEF Claims
  <2>2. u \in sale[req[q].sale].units /\ req[q].sale \in SaleIds
    BY <2>1, Zenon DEF LoadsInv, ReturnsTypeOK, ReturnRow
  <2>3. req[q].sale = i
    BY <1>1, <2>2, Zenon DEF CustodyInv
  <2> QED BY <2>1, <2>3, Zenon DEF Created, ClaimIsFree
<1>3. unit[u].status \in {"sold", "faulty"}
  BY <1>1, <1>2, Zenon DEF CustodyInv
<1>5. /\ \A x \in Units : x # u => unit'[x] = unit[x]
      /\ c = "store_holds" => unit'[u].status = "returned"
      /\ c = "customer_holds" => unit'[u] = unit[u]
  BY HandsDo DEF Created, invVars
<1>6. \A x \in Units, q \in ReturnIds : Claims(q, x)' <=> Claims(q, x) \/ (q = r /\ x = u)
  BY <1>1, Zenon DEF Claims
<1>7. CustodyInv'
  <2>1. ASSUME NEW x \in Units, unit'[x].status = "returned"
        PROVE  \E q \in ReturnIds : Claims(q, x)' /\ req'[q].custody = "store_holds"
    <3>1. CASE x = u
      BY <1>1, <1>3, <1>5, <1>6, <2>1, <3>1, Zenon
    <3>2. CASE x # u
      <4>1. PICK q \in ReturnIds : Claims(q, x) /\ req[q].custody = "store_holds"
        BY <1>5, <2>1, <3>2, Zenon DEF CustodyInv
      <4>2. q # r
        BY <1>1, <4>1, Zenon DEF Claims
      <4> QED BY <1>1, <1>6, <4>1, <4>2, Zenon
    <3> QED BY <3>1, <3>2, Zenon
  <2>2. \A x \in Units, j \in SaleIds : x \in sale[j].units =>
           unit'[x].status \in {"sold", "returned", "faulty"}
    BY <1>3, <1>5, Zenon DEF CustodyInv
  <2>3. \A x \in Units : \A p, q \in ReturnIds : Claims(p, x)' /\ Claims(q, x)' => p = q
    BY <1>2, <1>6 DEF CustodyInv
  <2> QED BY <2>1, <2>2, <2>3, Zenon DEF CustodyInv
<1>8. CustodyMatches'
  <2>1. ASSUME NEW q \in ReturnIds, req'[q].status \notin {"none", "rejected"}
        PROVE  Agrees(req'[q].custody, unit'[req'[q].unit].status)
    <3>1. CASE q = r
      BY <1>1, <1>3, <1>5, <3>1, Zenon DEF Agrees
    <3>2. CASE q # r
      <4>1. req'[q] = req[q] /\ req[q].unit \in Units
        BY <1>1, <3>2, Zenon DEF ReturnsTypeOK, ReturnRow
      <4>2. req[q].unit # u
        BY <1>2, <2>1, <4>1, Zenon DEF Claims
      <4> QED BY <1>5, <2>1, <4>1, <4>2, CustodyIs, Zenon
    <3> QED BY <3>1, <3>2, Zenon
  <2> QED BY <2>1, CustodyIsAfter, Zenon
<1> QED BY <1>7, <1>8, Zenon

(* A return that is open and its phone move together. *)
LEMMA OpenCustody ==
    ASSUME InvTypeOK, ReturnsTypeOK, LoadsInv, CustodyInv, CustodyMatches, NEW r \in ReturnIds,
           Edited(r) \/ TakenIn(r) \/ Rejected(r) \/ Granted(r), UNCHANGED sale
    PROVE  CustodyInv' /\ CustodyMatches'
<1> DEFINE u == req[r].unit
<1>1. /\ \A q \in ReturnIds : q # r => req'[q] = req[q]
      /\ req[r].status \in Open /\ req'[r].unit = u
  BY Zenon DEF Edited, TakenIn, Rejected, Granted, Redone
<1>2. u \in Units /\ req[r].sale \in SaleIds /\ u \in sale[req[r].sale].units
  BY <1>1, Zenon DEF ReturnsTypeOK, ReturnRow, LoadsInv, Open
<1>3. Claims(r, u) /\ \A q \in ReturnIds : Claims(q, u) => q = r
  <2>1. Claims(r, u)
    BY <1>1, Zenon DEF Claims, Open
  <2> QED BY <1>2, <2>1, Zenon DEF CustodyInv
<1>4. Agrees(req[r].custody, unit[u].status)
  BY <1>1, CustodyIs, Zenon DEF Open
<1>5. /\ \A x \in Units : x # u => unit'[x] = unit[x]
      /\ unit'[u].status \in {"sold", "returned", "faulty"}
      /\ \/ /\ req'[r].status \notin {"none", "rejected"}
            /\ Agrees(req'[r].custody, unit'[u].status)
            /\ unit'[u].status = "returned" => req'[r].custody = "store_holds"
         \/ req'[r].status = "rejected" /\ unit'[u].status # "returned"
  <2>1. unit[u].status \in {"sold", "returned", "faulty"}
    BY <1>2, Zenon DEF CustodyInv
  <2>2. CASE Edited(r)
    <3>1. /\ req'[r].status \in Open /\ req'[r].custody = req[r].custody
          /\ unit' = unit
      BY <2>2, Zenon DEF Edited, Redone, invVars
    <3>2. unit[u].status = "returned" => req[r].custody = "store_holds"
      BY <1>4, Zenon DEF Agrees
    <3> QED BY <1>4, <2>1, <3>1, <3>2, Zenon DEF Open
  <2>3. CASE TakenIn(r)
    <3>1. req'[r].status \in Open /\ req'[r].custody = "store_holds"
          /\ MoveUnitForCustody(u, "sold", "returned")
      BY <2>3, Zenon DEF TakenIn, Redone
    <3>2. unit'[u].status = "returned" /\ \A x \in Units : x # u => unit'[x] = unit[x]
      BY <1>2, <3>1, HandsDo, Zenon
    <3> QED BY <3>1, <3>2, Zenon DEF Open, Agrees
  <2>4. CASE Rejected(r)
    <3>1. req'[r].status = "rejected"
      BY <2>4, Zenon DEF Rejected, Redone
    <3>2. CASE req[r].custody = "store_holds"
      <4>1. MoveUnitForCustody(u, "returned", "sold")
        BY <2>4, <3>2, Zenon DEF Rejected
      <4>2. unit'[u].status = "sold" /\ \A x \in Units : x # u => unit'[x] = unit[x]
        <5>1. unit' = WithStatus(unit, {u}, "sold")
          BY <4>1, Zenon DEF MoveUnitForCustody, WriteUnits
        <5> QED BY <1>2, <5>1, Zenon DEF WithStatus, InvTypeOK, UnitRow
      <4> QED BY <3>1, <4>2, Zenon
    <3>3. CASE req[r].custody # "store_holds"
      <4>1. unit' = unit
        BY <2>4, <3>3, Zenon DEF Rejected, invVars
      <4>2. unit[u].status # "returned"
        BY <1>4, <3>3, Zenon DEF Agrees
      <4> QED BY <2>1, <3>1, <4>1, <4>2, Zenon
    <3> QED BY <3>2, <3>3, Zenon
  <2>5. CASE Granted(r)
    <3>1. req'[r].status = "approved_refund_due" /\ req'[r].custody = "retained_hold"
          /\ MoveUnitForCustody(u, "returned", "faulty")
      BY <2>5, Zenon DEF Granted, Redone
    <3>2. unit'[u].status = "faulty" /\ \A x \in Units : x # u => unit'[x] = unit[x]
      <4>1. unit' = WithStatus(unit, {u}, "faulty")
        BY <3>1, Zenon DEF MoveUnitForCustody, WriteUnits
      <4> QED BY <1>2, <4>1, Zenon DEF WithStatus, InvTypeOK, UnitRow
    <3> QED BY <3>1, <3>2, Zenon DEF Agrees
  <2> QED BY <2>2, <2>3, <2>4, <2>5, Zenon
<1> HIDE DEF u
<1>6. /\ \A x \in Units, q \in ReturnIds : Claims(q, x)' => Claims(q, x)
      /\ \A x \in Units, q \in ReturnIds : x # u /\ Claims(q, x) => q # r /\ Claims(q, x)'
  BY <1>1, <1>3, Zenon DEF Claims, u
<1>7. CustodyInv'
  <2>1. ASSUME NEW x \in Units, unit'[x].status = "returned"
        PROVE  \E q \in ReturnIds : Claims(q, x)' /\ req'[q].custody = "store_holds"
    <3>1. CASE x = u
      BY <1>1, <1>5, <2>1, <3>1, Zenon DEF Claims
    <3>2. CASE x # u
      <4>1. PICK q \in ReturnIds : Claims(q, x) /\ req[q].custody = "store_holds"
        BY <1>5, <2>1, <3>2, Zenon DEF CustodyInv
      <4> QED BY <1>1, <1>6, <3>2, <4>1, Zenon
    <3> QED BY <3>1, <3>2, Zenon
  <2>2. \A x \in Units, j \in SaleIds : x \in sale[j].units =>
           unit'[x].status \in {"sold", "returned", "faulty"}
    BY <1>5, Zenon DEF CustodyInv
  <2> QED BY <1>6, <2>1, <2>2, Zenon DEF CustodyInv
<1>8. CustodyMatches'
  <2>1. ASSUME NEW q \in ReturnIds, req'[q].status \notin {"none", "rejected"}
        PROVE  Agrees(req'[q].custody, unit'[req'[q].unit].status)
    <3>1. CASE q = r
      BY <1>1, <1>5, <2>1, <3>1, Zenon
    <3>2. CASE q # r
      <4>1. req'[q] = req[q] /\ req[q].unit \in Units
        BY <1>1, <3>2, Zenon DEF ReturnsTypeOK, ReturnRow
      <4>2. req[q].unit # u
        BY <1>3, <2>1, <3>2, <4>1, Zenon DEF Claims
      <4> QED BY <1>5, <2>1, <4>1, <4>2, CustodyIs, Zenon
    <3> QED BY <3>1, <3>2, Zenon
  <2> QED BY <2>1, CustodyIsAfter, Zenon
<1> QED BY <1>7, <1>8, Zenon

(* Steps that leave returns alone: they sell or create phones that are on   *)
(* no sale, or mark one faulty.                                             *)
LEMMA GoodsCustody ==
    ASSUME InvTypeOK, ReturnsTypeOK, LoadsInv, CustodyInv, CustodyMatches, UNCHANGED req,
           \A x \in Units : \/ unit'[x] = unit[x]
                            \/ unit'[x].status = "faulty"
                            \/ /\ \A j \in SaleIds : x \notin sale[j].units
                               /\ unit'[x].status \in {"in_stock", "sold"},
           \A j \in SaleIds, x \in Units : x \in sale'[j].units =>
              \/ x \in sale[j].units
              \/ unit'[x].status = "sold" /\ \A k \in SaleIds : k # j => x \notin sale'[k].units
    PROVE  CustodyInv' /\ CustodyMatches'
<1>1. ASSUME NEW q \in ReturnIds, req[q].status \notin {"none", "rejected"}
      PROVE  Agrees(req[q].custody, unit'[req[q].unit].status)
  <2>1. req[q].unit \in Units /\ req[q].sale \in SaleIds /\ req[q].unit \in sale[req[q].sale].units
    BY <1>1, Zenon DEF ReturnsTypeOK, ReturnRow, LoadsInv
  <2>2. Agrees(req[q].custody, unit[req[q].unit].status)
    BY <1>1, CustodyIs, Zenon
  <2>3. Agrees(req[q].custody, "faulty")
    BY <2>2, Zenon DEF Agrees
  <2> QED BY <2>1, <2>2, <2>3, Zenon
<1>2. CustodyMatches'
  BY <1>1, CustodyIsAfter, Zenon
<1>3. \A x \in Units, q \in ReturnIds : Claims(q, x)' <=> Claims(q, x)
  BY Zenon DEF Claims
<1>4. ASSUME NEW x \in Units, NEW i \in SaleIds, x \in sale'[i].units
      PROVE  unit'[x].status \in {"sold", "returned", "faulty"}
  BY <1>4, Zenon DEF CustodyInv
<1>5. ASSUME NEW x \in Units, NEW i \in SaleIds, NEW j \in SaleIds,
             x \in sale'[i].units, x \in sale'[j].units
      PROVE  i = j
  BY <1>5, Zenon DEF CustodyInv
<1>6. ASSUME NEW x \in Units, unit'[x].status = "returned"
      PROVE  \E q \in ReturnIds : Claims(q, x)' /\ req'[q].custody = "store_holds"
  BY <1>3, <1>6, Zenon DEF CustodyInv
<1> QED BY <1>2, <1>3, <1>4, <1>5, <1>6, Zenon DEF CustodyInv

-----------------------------------------------------------------------------
(* The outbox: its types, and what the lease is good for. *)

(* Every step of a sweep keeps the outbox well typed. *)
LEMMA OutboxType == OutboxTypeOK /\ OutboxNext => OutboxTypeOK'
<1> SUFFICES ASSUME OutboxTypeOK, OutboxNext PROVE OutboxTypeOK'
  BY Zenon
<1>1. MaxCrashes \in Nat
  BY OutboxAssumption, Zenon DEF OutboxAssumption
<1>2. ASSUME NEW w \in Workers, NEW j \in Jobs, SweepRead(w, j) PROVE OutboxTypeOK'
  BY <1>2, Zenon DEF SweepRead, OutboxTypeOK, JobRow, WorkerState
<1>3. ASSUME NEW w \in Workers, Claim(w) PROVE OutboxTypeOK'
  BY <1>3, SMTT(30) DEF Claim, OutboxTypeOK, JobRow, WorkerState, Idle
<1>4. ASSUME NEW w \in Workers, Learn(w) PROVE OutboxTypeOK'
  <2> DEFINE j == worker[w].job
             row == [job[j] EXCEPT !.status = "done", !.lease = FALSE]
  <2>1. j \in Jobs /\ job[j] \in JobRow
    BY <1>4, Zenon DEF Learn, OutboxTypeOK
  <2>2. row \in JobRow /\ Idle \in WorkerState /\ Idle.at = "idle"
    BY <2>1, Zenon DEF JobRow, WorkerState, Idle
  <2>3. /\ job' = [job EXCEPT ![j] = row] /\ learned' = [learned EXCEPT ![j] = @ + 1]
        /\ worker' = [worker EXCEPT ![w] = Idle] /\ UNCHANGED <<crashes, late, known>>
    BY <1>4, Zenon DEF Learn
  <2> HIDE DEF row, j
  <2> QED BY <2>1, <2>2, <2>3 DEF OutboxTypeOK
<1>5. ASSUME NEW w \in Workers, GiveUp(w) PROVE OutboxTypeOK'
  <2> DEFINE j == worker[w].job
             to == IF worker[w].attempts >= MaxAttempts THEN "failed" ELSE "pending"
             row == [job[j] EXCEPT !.lease = FALSE, !.status = to]
  <2>1. j \in Jobs /\ job[j] \in JobRow
    BY <1>5, Zenon DEF GiveUp, OutboxTypeOK
  <2>2. to \in {"failed", "pending"}
    BY Zenon
  <2>3. job' = [job EXCEPT ![j] = row] /\ worker' = [worker EXCEPT ![w] = Idle]
        /\ UNCHANGED <<learned, crashes, late, known>>
    BY <1>5, Zenon DEF GiveUp
  <2> HIDE DEF to, j
  <2>4. row \in JobRow /\ Idle \in WorkerState /\ Idle.at = "idle"
    BY <2>1, <2>2, Zenon DEF JobRow, WorkerState, Idle
  <2> HIDE DEF row
  <2> QED BY <2>1, <2>3, <2>4, Zenon DEF OutboxTypeOK
<1>6. ASSUME NEW w \in Workers, Crash(w) PROVE OutboxTypeOK'
  BY <1>1, <1>6, SMTT(60) DEF Crash, OutboxTypeOK, WorkerState, Idle
<1>7. ASSUME NEW j \in Jobs, LeaseRunsOut(j) \/ MapCode(j) PROVE OutboxTypeOK'
  BY <1>7, ZenonT(40) DEF LeaseRunsOut, MapCode, OutboxTypeOK, JobRow
<1> QED BY <1>2, <1>3, <1>4, <1>5, <1>6, <1>7, Zenon DEF OutboxNext

(* A purchase queues its jobs. *)
LEMMA QueueKeeps ==
    ASSUME OutboxTypeOK, LeaseInv, NEW js, job' = WithQueued(js),
           UNCHANGED <<learned, worker, crashes, late, known>>
    PROVE  OutboxTypeOK' /\ LeaseInv'
<1>1. OutboxTypeOK'
  BY Zenon DEF OutboxTypeOK, WithQueued, NewJob, JobRow
<1>2. \A j \in Jobs : /\ job[j].status # "none" => job'[j] = job[j]
                      /\ job'[j].status # job[j].status => job'[j].status = "pending"
  BY Zenon DEF OutboxTypeOK, WithQueued, NewJob, JobRow
<1> QED BY <1>1, <1>2 DEF LeaseInv, At

(* No step of a sweep breaks what the lease is good for. *)
LEMMA LeaseKeeps == OutboxTypeOK /\ LeaseInv /\ OutboxNext => LeaseInv'
<1> SUFFICES ASSUME OutboxTypeOK, LeaseInv, OutboxNext PROVE LeaseInv'
  BY Zenon
<1>1. ASSUME NEW w \in Workers, NEW j \in Jobs, SweepRead(w, j) PROVE LeaseInv'
  BY <1>1 DEF SweepRead, OutboxTypeOK, JobRow, WorkerState, LeaseInv, At, Idle
<1>2. ASSUME NEW w \in Workers, Claim(w) PROVE LeaseInv'
  <2> DEFINE j == worker[w].job
  <2>1. j \in Jobs /\ worker[w].at = "read" /\ UNCHANGED <<learned, late>>
    BY <1>2, Zenon DEF Claim, OutboxTypeOK
  <2>2. CASE Due(j)
    <3>1. job[j].status # "done" /\ (j \notin late => \A v \in Workers : ~At(v, j))
      BY <2>1, <2>2, Zenon DEF Due, LeaseInv
    <3>2. /\ job' = [job EXCEPT ![j] = [status |-> "processing", lease |-> TRUE,
                                        attempts |-> @.attempts + 1]]
          /\ worker' = [worker EXCEPT ![w].at = "working", ![w].attempts = @ + 1]
      BY <1>2, <2>2, Zenon DEF Claim
    <3>3. /\ \A x \in Jobs : x # j => job'[x] = job[x]
          /\ job'[j].status = "processing" /\ job'[j].lease
          /\ \A v \in Workers : v # w => worker'[v] = worker[v]
          /\ worker'[w].job = j
      BY <2>1, <3>2, Zenon DEF OutboxTypeOK, JobRow, WorkerState
    <3>4. \A v \in Workers, x \in Jobs : At(v, x)' => (v = w /\ x = j) \/ At(v, x)
      BY <3>3, Zenon DEF At
    <3> HIDE DEF j
    <3> QED BY <2>1, <3>1, <3>3, <3>4 DEF LeaseInv
  <2>3. CASE ~Due(j)
    BY <1>2, <2>1, <2>3 DEF Claim, OutboxTypeOK, LeaseInv, At, Idle
  <2> QED BY <2>2, <2>3, Zenon
<1>3. ASSUME NEW w \in Workers, Learn(w) PROVE LeaseInv'
  BY <1>3 DEF Learn, OutboxTypeOK, JobRow, WorkerState, LeaseInv, At, Idle
<1>4. ASSUME NEW w \in Workers, GiveUp(w) PROVE LeaseInv'
  BY <1>4 DEF GiveUp, OutboxTypeOK, JobRow, WorkerState, LeaseInv, At, Idle
<1>5. ASSUME NEW w \in Workers, Crash(w) PROVE LeaseInv'
  BY <1>5 DEF Crash, OutboxTypeOK, WorkerState, LeaseInv, At, Idle
<1>6. ASSUME NEW j \in Jobs, LeaseRunsOut(j) \/ MapCode(j) PROVE LeaseInv'
  BY <1>6 DEF LeaseRunsOut, MapCode, OutboxTypeOK, JobRow, LeaseInv, At
<1> QED BY <1>1, <1>2, <1>3, <1>4, <1>5, <1>6, Zenon DEF OutboxNext

(* A lease that outlasts its worker is what makes a job count once. *)
LEMMA LeasesLearn == OutboxTypeOK /\ LeaseInv => LearnedOnce
BY DEF OutboxTypeOK, LeaseInv, LearnedOnce

-----------------------------------------------------------------------------
(* Deliveries and supplier payments keep their types. *)

(* What has been paid on a delivery is a natural number. *)
LEMMA PaidType ==
    ASSUME SumLaws, NEW rows \in [SettlementIds -> SettlementRow], NEW q \in PurchaseIds
    PROVE  PaidOn(rows, q) \in Nat
<1> DEFINE f == [s \in SettlementIds |->
                   IF rows[s].status = "confirmed" /\ ~rows[s].corrected
                   THEN rows[s].alloc[q] ELSE 0]
<1>1. \A s \in SettlementIds : f[s] \in Nat
  BY Zenon DEF SettlementRow
<1>2. IsFiniteSet(SettlementIds)
  BY PayablesAssumption, Zenon DEF PayablesAssumption
<1>3. PaidOn(rows, q) = TotalOf(SettlementIds, f)
  BY Zenon DEF PaidOn, SumWhere
<1> HIDE DEF f
<1> QED BY <1>1, <1>2, <1>3, Zenon DEF SumLaws, TotalLaw

(* What a payment allocates in all is a natural number. *)
LEMMA AllocatedType ==
    ASSUME SumLaws, NEW alloc \in [PurchaseIds -> {0} \cup PayAmounts]
    PROVE  alloc \in [PurchaseIds -> Nat] /\ AllocatedTotal(alloc) \in Nat
<1>1. PayAmounts \subseteq Nat /\ IsFiniteSet(PurchaseIds)
  BY PayablesAssumption, Zenon DEF PayablesAssumption
<1>2. alloc \in [PurchaseIds -> Nat]
  <2>1. \A n \in {0} \cup PayAmounts : n \in Nat
    BY <1>1
  <2>2. \A q \in PurchaseIds : alloc[q] \in {0} \cup PayAmounts
    BY Zenon
  <2>3. \A q \in PurchaseIds : alloc[q] \in Nat
    BY <2>1, <2>2, Zenon
  <2> QED BY <2>3, Zenon
<1> QED BY <1>1, <1>2, Zenon DEF SumLaws, TotalLaw, AllocatedTotal

(* The history of what is owed only grows by such views. *)
LEMMA OwingType ==
    ASSUME SumLaws, PayablesTypeOK, NEW buys \in [PurchaseIds -> PurchaseRow],
           NEW rows \in [SettlementIds -> SettlementRow], SeeOwing(buys, rows)
    PROVE  owings' \in Seq([PurchaseIds -> Int])
<1> DEFINE view  == Owing(buys, rows)
           Views == [PurchaseIds -> Int]
<1>1. view \in Views
  BY PaidType DEF Owing, PurchaseRow
<1>2. owings' = owings \/ owings' = Append(owings, view)
  BY Zenon DEF SeeOwing
<1>3. owings \in Seq(Views)
  BY Zenon DEF PayablesTypeOK
<1> HIDE DEF view, Views
<1>4. owings' \in Seq(Views)
  BY <1>1, <1>2, <1>3
<1> QED BY <1>4, Zenon DEF Views

(* createPurchase, and the view of what is owed after it. *)
LEMMA DeliveryType ==
    ASSUME SumLaws, InvTypeOK, PurchasingTypeOK, PayablesTypeOK, DeliveryNext
    PROVE  /\ InvTypeOK' /\ PurchasingTypeOK' /\ PayablesTypeOK'
           /\ UNCHANGED <<settlement, dayVars, learned, worker, crashes, late, known>>
           /\ \E js : job' = WithQueued(js)
<1>1. PICK q \in PurchaseIds, d \in Deliveries, cost \in UnitCosts :
         \E paidNow \in 0..cost : Receive(q, d, cost, paidNow)
  BY Zenon DEF DeliveryNext
<1>2. PICK paidNow \in 0..cost : Receive(q, d, cost, paidNow)
  BY <1>1, Zenon
<1> DEFINE us    == Committable(d.units)
           items == Cardinality(us) + TotalOf(Products, d.lines)
           total == cost * items
           row   == [made |-> TRUE, total |-> total, atDelivery |-> paidNow, paid |-> paidNow,
                     status |-> PurchaseStatusOf(total, paidNow)]
<1>3. d.units \subseteq Units /\ d.lines \in Lines /\ ShopBranch \in Branches
  BY PurchasingAssumption, Zenon DEF PurchasingAssumption
<1>4. cost \in Nat /\ paidNow \in Nat
  <2>1. UnitCosts \subseteq Nat
    BY PayablesAssumption, Zenon DEF PayablesAssumption
  <2>2. cost \in Nat
    BY <2>1, Zenon
  <2> QED BY <2>2
<1>5. items \in Nat
  BY <1>3, LinesCount, Zenon DEF Committable
<1>6. /\ paidNow <= total
      /\ purchase' = [purchase EXCEPT ![q] = row]
      /\ WriteUnits([u \in Units |-> IF u \in us
                        THEN [status |-> "in_stock", branch |-> ShopBranch] ELSE unit[u]])
      /\ stock' = OnLines(stock, ShopBranch, d.lines, ReceiveQuantity)
      /\ supplier' = supplier + (total - paidNow)
      /\ job' = WithQueued({q} \X d.codes)
      /\ UNCHANGED <<receipt, learned, worker, crashes, late, known>>
      /\ SeeOwing(purchase', settlement) /\ UNCHANGED <<settlement, dayVars>>
  BY <1>2, Zenon DEF Receive, CreatePurchase
<1>7. total \in Nat
  BY <1>4, <1>5
<1> HIDE DEF us, items, total
<1>8. row \in PurchaseRow
  BY <1>4, <1>7, Zenon DEF PurchaseRow, PurchaseStatusOf
<1> HIDE DEF row
<1>9. PurchasingTypeOK'
  BY <1>4, <1>6, <1>7, <1>8 DEF PurchasingTypeOK
<1>10. PayablesTypeOK'
  BY <1>6, <1>9, OwingType, Zenon DEF PayablesTypeOK, PurchasingTypeOK
<1>11. InvTypeOK'
  <2>1. stock' \in Stock
    BY <1>3, <1>6, ShelfType, Zenon DEF InvTypeOK
  <2> DEFINE table == [u \in Units |-> IF u \in us
                          THEN [status |-> "in_stock", branch |-> ShopBranch] ELSE unit[u]]
  <2>2. table \in [Units -> UnitRow]
    BY <1>3, Zenon DEF InvTypeOK, UnitRow, UnitStatus
  <2>3. WriteUnits(table)
    BY <1>6, Zenon
  <2> HIDE DEF table
  <2> QED BY <1>6, <2>1, <2>2, <2>3, SMTT(60) DEF InvTypeOK, WriteUnits
<1> QED BY <1>6, <1>9, <1>10, <1>11, Zenon

(* report, correct, confirm. *)
LEMMA SettlementType ==
    ASSUME SumLaws, DaysTypeOK, PurchasingTypeOK, PayablesTypeOK, SettlementNext
    PROVE  PurchasingTypeOK' /\ PayablesTypeOK'
<1>1. PICK s \in SettlementIds :
        \/ \E alloc \in [PurchaseIds -> {0} \cup PayAmounts], channel \in {"cash"} \cup PayAccounts :
              /\ Report(s, alloc, channel) \/ Correct(s, alloc, channel)
              /\ UNCHANGED buyVars
        \/ \E d \in DaySet : Confirm(s, d)
  BY Zenon DEF SettlementNext
<1>2. /\ settlement \in [SettlementIds -> SettlementRow] /\ settlement[s] \in SettlementRow
      /\ purchase \in [PurchaseIds -> PurchaseRow] /\ supplier \in Int
      /\ owings \in Seq([PurchaseIds -> Int]) /\ Len(owings) \in Nat
  BY DEF PayablesTypeOK, PurchasingTypeOK
<1>3. Stamp \in Stamps
  BY StampType, Zenon
<1>4. ASSUME NEW alloc \in [PurchaseIds -> {0} \cup PayAmounts],
             NEW channel \in {"cash"} \cup PayAccounts,
             Report(s, alloc, channel), UNCHANGED buyVars
      PROVE  PurchasingTypeOK' /\ PayablesTypeOK'
  <2> DEFINE row == [NoSettlement EXCEPT !.status = "reported",
                        !.amount = AllocatedTotal(alloc), !.alloc = alloc, !.channel = channel,
                        !.read = Len(owings), !.stamp = Stamp]
  <2>1. settlement' = [settlement EXCEPT ![s] = row] /\ UNCHANGED owings
    BY <1>4, Zenon DEF Report
  <2>2. alloc \in [PurchaseIds -> Nat] /\ AllocatedTotal(alloc) \in Nat
    BY AllocatedType, Zenon
  <2>3. row \in SettlementRow
    BY <1>2, <1>3, <2>2, Zenon DEF NoSettlement, SettlementRow
  <2> HIDE DEF row
  <2> QED BY <1>2, <1>4, <2>1, <2>3, Zenon DEF PurchasingTypeOK, PayablesTypeOK, buyVars
<1>5. ASSUME NEW alloc \in [PurchaseIds -> {0} \cup PayAmounts],
             NEW channel \in {"cash"} \cup PayAccounts,
             Correct(s, alloc, channel), UNCHANGED buyVars
      PROVE  PurchasingTypeOK' /\ PayablesTypeOK'
  <2> DEFINE row == [settlement[s] EXCEPT !.alloc = alloc, !.channel = channel,
                        !.read = Len(owings), !.stamp = Stamp]
  <2>1. settlement' = [settlement EXCEPT ![s] = row] /\ UNCHANGED owings
    BY <1>5, Zenon DEF Correct
  <2>2. alloc \in [PurchaseIds -> Nat]
    BY AllocatedType, Zenon
  <2>3. row \in SettlementRow
    BY <1>2, <1>3, <2>2, Zenon DEF SettlementRow
  <2> HIDE DEF row
  <2> QED BY <1>2, <1>5, <2>1, <2>3, Zenon DEF PurchasingTypeOK, PayablesTypeOK, buyVars
<1>6. ASSUME NEW d \in DaySet, Confirm(s, d) PROVE PurchasingTypeOK' /\ PayablesTypeOK'
  <2> DEFINE row  == [settlement[s] EXCEPT !.status = "confirmed", !.day = d, !.stamp = Stamp]
             rows == [settlement EXCEPT ![s].status = "confirmed", ![s].day = d, ![s].stamp = Stamp]
             buys == [q \in PurchaseIds |-> IF rows[s].alloc[q] = 0 THEN purchase[q]
                        ELSE [purchase[q] EXCEPT !.paid = PaidOn(rows, q),
                                 !.status = PurchaseStatusOf(purchase[q].total, PaidOn(rows, q))]]
  <2>1. /\ settlement' = rows /\ purchase' = buys
        /\ supplier' = supplier - settlement[s].amount /\ SeeOwing(buys, rows)
    BY <1>6, Zenon DEF Confirm
  <2>2. row \in SettlementRow
    BY <1>2, <1>3, Zenon DEF SettlementRow
  <2>3. rows = [settlement EXCEPT ![s] = row]
    BY Zenon
  <2> HIDE DEF row, rows
  <2>4. rows \in [SettlementIds -> SettlementRow]
    BY <1>2, <2>2, <2>3, Zenon
  <2>5. \A q \in PurchaseIds : buys[q] \in PurchaseRow
    BY <1>2, <2>4, PaidType, Zenon DEF PurchaseRow, PurchaseStatusOf
  <2>6. settlement[s].amount \in Nat
    BY <1>2, Zenon DEF SettlementRow
  <2>7. buys \in [PurchaseIds -> PurchaseRow]
    BY <2>5, Zenon
  <2> HIDE DEF buys
  <2>8. owings' \in Seq([PurchaseIds -> Int])
    BY <2>1, <2>4, <2>7, OwingType, Zenon
  <2>9. supplier' \in Int
    BY <1>2, <2>1, <2>6
  <2> QED BY <2>1, <2>4, <2>7, <2>8, <2>9, Zenon DEF PurchasingTypeOK, PayablesTypeOK
<1> QED BY <1>1, <1>4, <1>5, <1>6, Zenon

-----------------------------------------------------------------------------
(* Expenses keep their types. *)

(* createExpense, confirm, reject. *)
LEMMA ExpenseType == DaysTypeOK /\ ExpensesTypeOK /\ ExpensesNext => ExpensesTypeOK'
<1> SUFFICES ASSUME DaysTypeOK, ExpensesTypeOK, ExpensesNext PROVE ExpensesTypeOK'
  BY Zenon
<1>1. PICK e \in ExpenseIds :
        \/ \E class \in ExpenseClasses, amount \in ExpenseAmounts,
              channel \in {"cash"} \cup ExpenseAccounts, due \in {0} \cup DaySet :
                CreateExpense(e, class, amount, channel, due)
        \/ \E d \in DaySet : ConfirmExpense(e, d)
        \/ RejectExpense(e)
  BY Zenon DEF ExpensesNext
<1>2. Stamp \in Stamps /\ expense \in [ExpenseIds -> ExpenseRow] /\ expense[e] \in ExpenseRow
  BY StampType, Zenon DEF ExpensesTypeOK
<1>3. \E row \in ExpenseRow : expense' = [expense EXCEPT ![e] = row]
  <2>1. ASSUME NEW class \in ExpenseClasses, NEW amount \in ExpenseAmounts,
               NEW channel \in {"cash"} \cup ExpenseAccounts, NEW due \in {0} \cup DaySet,
               CreateExpense(e, class, amount, channel, due)
        PROVE  \E row \in ExpenseRow : expense' = [expense EXCEPT ![e] = row]
    BY <1>2, <2>1, Zenon DEF CreateExpense, ExpenseRow
  <2>2. ASSUME NEW d \in DaySet, ConfirmExpense(e, d)
        PROVE  \E row \in ExpenseRow : expense' = [expense EXCEPT ![e] = row]
    <3>1. [expense[e] EXCEPT !.status = "confirmed", !.day = d] \in ExpenseRow
      BY <1>2, Zenon DEF ExpenseRow
    <3> QED BY <2>2, <3>1, Zenon DEF ConfirmExpense
  <2>3. ASSUME RejectExpense(e)
        PROVE  \E row \in ExpenseRow : expense' = [expense EXCEPT ![e] = row]
    <3>1. [expense[e] EXCEPT !.status = "rejected"] \in ExpenseRow
      BY <1>2, Zenon DEF ExpenseRow
    <3> QED BY <2>3, <3>1, Zenon DEF RejectExpense
  <2> QED BY <1>1, <2>1, <2>2, <2>3, Zenon
<1> QED BY <1>2, <1>3, Zenon DEF ExpensesTypeOK

-----------------------------------------------------------------------------
(* The floor as a whole: sales and returns together. *)

FloorTypeOK == InvTypeOK /\ SalesTypeOK /\ DaysTypeOK /\ CounterTypeOK /\ ReturnsTypeOK

(* A sale at the counter touches no return. *)
LEMMA CounterReturns ==
    ASSUME FloorTypeOK, LoadsInv, ReversalMatches, GrossInv, CustodyInv, CustodyMatches,
           CounterNext, UNCHANGED returnVars
    PROVE  LoadsInv' /\ ReversalMatches' /\ GrossInv' /\ CustodyInv' /\ CustodyMatches'
<1>1. ASSUME NEW w \in Windows, OfferWindow(w)
      PROVE  LoadsInv' /\ ReversalMatches' /\ GrossInv' /\ CustodyInv' /\ CustodyMatches'
  BY <1>1 DEF OfferWindow, returnVars, invVars, LoadsInv, ReversalMatches, GrossInv, CustodyInv,
     CustodyMatches, Claims
<1>2. ASSUME NEW i \in SaleIds, NEW k \in SaleKeys \cup {NoKey}, NEW c \in Carts,
             CreateSale(i, k, c), \A j \in SaleIds : j # i => bill'[j] = bill[j]
      PROVE  LoadsInv' /\ ReversalMatches' /\ GrossInv' /\ CustodyInv' /\ CustodyMatches'
  <2>1. /\ ~sale[i].made /\ \A u \in c.units : StillInStock(u) /\ NotOnAnotherSale(u)
        /\ sale' = [sale EXCEPT ![i] = [made |-> TRUE, key |-> k, branch |-> c.branch,
                                        units |-> c.units, lines |-> c.lines]]
        /\ unit' = WithStatus(unit, c.units, "sold")
    BY <1>2, Zenon DEF CreateSale, WriteUnits
  <2>2. c.units \subseteq Units
    BY SalesAssumption, Zenon DEF SalesAssumption
  <2>3. /\ \A j \in SaleIds : j # i => sale'[j] = sale[j]
        /\ sale'[i].made /\ sale'[i].units = c.units
    BY <2>1, Zenon DEF FloorTypeOK, SalesTypeOK
  <2>4. \A q \in ReturnIds : req[q].status # "none" => req[q].sale # i /\ req[q].sale \in SaleIds
    BY <2>1, Zenon DEF LoadsInv, FloorTypeOK, ReturnsTypeOK, ReturnRow
  <2>5. UNCHANGED <<req, reqSeen, charges, reversal>>
    BY Zenon DEF returnVars
  <2>6. LoadsInv'
    BY <2>3, <2>4, <2>5, Zenon DEF LoadsInv
  <2>7. ReversalMatches' /\ GrossInv'
    <3>1. \A q \in ReturnIds : req[q].status # "none" => bill'[req[q].sale] = bill[req[q].sale]
      BY <1>2, <2>4, Zenon
    <3>2. \A q \in ReturnIds : reversal[q].made => req[q].status # "none"
      BY Zenon DEF ReversalMatches
    <3> QED BY <2>5, <3>1, <3>2, Zenon DEF ReversalMatches, GrossInv
  <2>8. \A x \in Units : /\ x \in c.units => unit'[x].status = "sold"
                         /\ x \notin c.units => unit'[x] = unit[x]
    BY <2>1, Zenon DEF WithStatus, FloorTypeOK, InvTypeOK, UnitRow
  <2>9. \A x \in c.units : \A j \in SaleIds : x \notin sale[j].units
    BY <2>1, Zenon DEF NotOnAnotherSale
  <2>10. CustodyInv' /\ CustodyMatches'
    BY <2>2, <2>3, <2>5, <2>8, <2>9, GoodsCustody DEF FloorTypeOK
  <2> QED BY <2>6, <2>7, <2>10, Zenon
<1>3. ASSUME NEW i \in SaleIds, NEW k, NEW c, NEW price, NEW discount, NEW cash, NEW other,
             NEW into, NEW w, CheckOut(i, k, c, price, discount, cash, other, into, w)
      PROVE  CreateSale(i, k, c) /\ \A j \in SaleIds : j # i => bill'[j] = bill[j]
  BY <1>3, Zenon DEF CheckOut, FloorTypeOK, CounterTypeOK
<1> QED BY <1>1, <1>2, <1>3, Zenon DEF CounterNext

(* Requests on returns keep custody and reversals right. *)
LEMMA RequestsKept ==
    ASSUME FloorTypeOK, LoadsInv, ReversalMatches, GrossInv, CustodyInv, CustodyMatches, ReturnNext
    PROVE  /\ LoadsInv' /\ ReversalMatches' /\ GrossInv' /\ CustodyInv' /\ CustodyMatches'
           /\ ReversalsStand
<1>1. LoadsInv' /\ ReversalMatches' /\ GrossInv' /\ ReversalsStand
  BY ReversalsKept, Zenon DEF FloorTypeOK
<1>2. ASSUME NEW r \in ReturnIds, NEW i \in SaleIds, NEW u \in Units, NEW held \in BOOLEAN,
             Create(r, i, u, held)
      PROVE  CustodyInv' /\ CustodyMatches'
  <2>1. UNCHANGED sale /\ \E c \in {"store_holds", "customer_holds"} : Created(r, i, u, c)
    BY <1>2, CreateDoes, Zenon DEF FloorTypeOK
  <2> QED BY <2>1, CreateCustody, Zenon DEF FloorTypeOK
<1>3. ASSUME NEW r \in ReturnIds, NEW load \in reqSeen[r],
             \/ ReceiveCustody(r, load)
             \/ \E resp \in Responsibility : Investigate(r, load, resp)
             \/ \E amount \in Charges : AddAdjustment(r, load, amount)
             \/ \E n \in 1..MaxCharges : RemoveAdjustment(r, load, n)
             \/ \E role \in Roles : Reject(r, load, role)
             \/ \E role \in Roles, d \in DaySet : Approve(r, load, role, d)
      PROVE  CustodyInv' /\ CustodyMatches'
  <2>1. UNCHANGED sale /\ (Edited(r) \/ TakenIn(r) \/ Rejected(r) \/ Granted(r))
    BY <1>3, ReturnKinds, Zenon DEF FloorTypeOK
  <2> QED BY <2>1, OpenCustody, Zenon DEF FloorTypeOK
<1>4. ASSUME NEW r \in ReturnIds, NEW p, NEW channel, ReportRefund(p, r, channel)
      PROVE  CustodyInv' /\ CustodyMatches'
  BY <1>4 DEF ReportRefund, Others, invVars, CustodyInv, CustodyMatches, Claims
<1>5. CustodyInv' /\ CustodyMatches'
  BY <1>2, <1>3, <1>4, Zenon DEF ReturnNext
<1> QED BY <1>1, <1>5, Zenon

(* What a request on a return does not do: sales, bills and days stay, and  *)
(* payouts change only where a refund is reported.                          *)
LEMMA RequestsLeave ==
    ASSUME ReturnNext
    PROVE  /\ Others
           /\ \/ UNCHANGED payout
              \/ \E r \in ReturnIds, p \in PayoutIds, channel \in {"cash"} \cup Accounts :
                    ReportRefund(p, r, channel)
<1>1. ASSUME NEW r, NEW load,
             \/ ReceiveCustody(r, load)
             \/ \E resp \in Responsibility : Investigate(r, load, resp)
             \/ \E amount \in Charges : AddAdjustment(r, load, amount)
             \/ \E n \in 1..MaxCharges : RemoveAdjustment(r, load, n)
      PROVE  Others /\ UNCHANGED payout
  BY <1>1, Zenon DEF ReceiveCustody, Investigate, AddAdjustment, RemoveAdjustment
<1>2. ASSUME NEW r, NEW load,
             \/ \E role \in Roles : Reject(r, load, role)
             \/ \E role \in Roles, d \in DaySet : Approve(r, load, role, d)
      PROVE  Others /\ UNCHANGED payout
  BY <1>2, Zenon DEF Reject, Approve
<1>3. ASSUME NEW r, NEW i, NEW u, NEW held, Create(r, i, u, held) PROVE Others /\ UNCHANGED payout
  BY <1>3, Zenon DEF Create
<1>4. ASSUME NEW p, NEW r, NEW channel, ReportRefund(p, r, channel) PROVE Others
  BY <1>4, Zenon DEF ReportRefund
<1> QED BY <1>1, <1>2, <1>3, <1>4, Zenon DEF ReturnNext

(* A refund is reported for an approved return that no payout stands for. *)
LEMMA ReportedOnce ==
    ASSUME ReturnsTypeOK, RefundInv, NEW r \in ReturnIds, NEW p \in PayoutIds, NEW channel,
           ReportRefund(p, r, channel)
    PROVE  RefundInv'
<1>0. payout \in [PayoutIds -> PayoutRow]
  BY Zenon DEF ReturnsTypeOK
<1> DEFINE row == [status |-> "reported", ret |-> r, amount |-> reversal[r].net,
                   channel |-> channel, day |-> 0, corrected |-> FALSE, stamp |-> Stamp]
<1>1. /\ reversal[r].made /\ NoLivePayout(r) /\ UNCHANGED reversal
      /\ payout' = [payout EXCEPT ![p] = row]
  BY Zenon DEF ReportRefund
<1>2. row.ret = r /\ row.amount = reversal[r].net /\ ~row.corrected
  BY Zenon
<1> HIDE DEF row
<1>3. payout'[p] = row /\ \A q \in PayoutIds : q # p => payout'[q] = payout[q]
  BY <1>0, <1>1, Zenon
<1>4. \A q \in PayoutIds : q # p /\ payout[q].status # "none" /\ payout[q].ret = r
                           => payout[q].corrected
  BY <1>1, Zenon DEF NoLivePayout
<1> QED BY <1>1, <1>2, <1>3, <1>4, SMTT(60) DEF RefundInv

(* A sale and its money are recorded in one transaction. *)
LEMMA TillOfSale ==
    ASSUME SalesTypeOK, CounterTypeOK, TillInv, CounterNext
    PROVE  TillInv'
<1>1. ASSUME NEW i \in SaleIds, NEW k, NEW c, NEW price, NEW discount, NEW cash, NEW other,
             NEW into, NEW w, CheckOut(i, k, c, price, discount, cash, other, into, w)
      PROVE  TillInv'
  <2>1. /\ sale'[i].made
        /\ \A j \in SaleIds : j # i => sale'[j] = sale[j] /\ bill'[j] = bill[j]
    BY <1>1, Zenon DEF CheckOut, CreateSale, SalesTypeOK, CounterTypeOK
  <2> QED BY <2>1, Zenon DEF TillInv
<1>2. ASSUME NEW w, OfferWindow(w) PROVE TillInv'
  BY <1>2, Zenon DEF OfferWindow, TillInv
<1> QED BY <1>1, <1>2, Zenon DEF CounterNext

-----------------------------------------------------------------------------
(* Profit: what sales earned, what returns took back, what they left. *)

(* What a day earned and what its returns take back are natural numbers. *)
LEMMA EarningsType ==
    ASSUME SumLaws, CounterTypeOK, ReturnsTypeOK, NEW d
    PROVE  /\ Revenue(d) \in Nat /\ Cogs(d) \in Nat
           /\ ReturnsGross(d) \in Nat /\ ReturnsKept(d) \in Nat /\ ReturnsCogs(d) \in Nat
<1>a. IsFiniteSet(SaleIds) /\ IsFiniteSet(ReturnIds) /\ ItemCost \in Nat
  BY CounterAssumption, ReturnsAssumption, Zenon DEF CounterAssumption, ReturnsAssumption
<1>1. Revenue(d) \in Nat
  <2> DEFINE f == [i \in SaleIds |->
                   IF bill[i].soldOn = d
                   THEN bill[i].line * bill[i].items ELSE 0]
  <2>1. \A i \in SaleIds : f[i] \in Nat
    BY <1>a DEF CounterTypeOK, BillRow
  <2>2. Revenue(d) = TotalOf(SaleIds, f)
    BY Zenon DEF Revenue, SumWhere
  <2> HIDE DEF f
  <2> QED BY <1>a, <2>1, <2>2, Zenon DEF SumLaws, TotalLaw
<1>2. Cogs(d) \in Nat
  <2> DEFINE f == [i \in SaleIds |->
                   IF bill[i].soldOn = d
                   THEN ItemCost * bill[i].items ELSE 0]
  <2>1. \A i \in SaleIds : f[i] \in Nat
    BY <1>a DEF CounterTypeOK, BillRow
  <2>2. Cogs(d) = TotalOf(SaleIds, f)
    BY Zenon DEF Cogs, SumWhere
  <2> HIDE DEF f
  <2> QED BY <1>a, <2>1, <2>2, Zenon DEF SumLaws, TotalLaw
<1>3. ReturnsGross(d) \in Nat
  <2> DEFINE f == [r \in ReturnIds |->
                   IF Approved(d, r)
                   THEN reversal[r].gross ELSE 0]
  <2>1. \A r \in ReturnIds : f[r] \in Nat
    BY <1>a, Zenon DEF ReturnsTypeOK, ReversalRow
  <2>2. ReturnsGross(d) = TotalOf(ReturnIds, f)
    BY Zenon DEF ReturnsGross, SumWhere
  <2> HIDE DEF f
  <2> QED BY <1>a, <2>1, <2>2, Zenon DEF SumLaws, TotalLaw
<1>4. ReturnsKept(d) \in Nat
  <2> DEFINE f == [r \in ReturnIds |->
                   IF Approved(d, r)
                   THEN reversal[r].adjustments ELSE 0]
  <2>1. \A r \in ReturnIds : f[r] \in Nat
    BY <1>a, Zenon DEF ReturnsTypeOK, ReversalRow
  <2>2. ReturnsKept(d) = TotalOf(ReturnIds, f)
    BY Zenon DEF ReturnsKept, SumWhere
  <2> HIDE DEF f
  <2> QED BY <1>a, <2>1, <2>2, Zenon DEF SumLaws, TotalLaw
<1>5. ReturnsCogs(d) \in Nat
  <2> DEFINE f == [r \in ReturnIds |->
                   IF Approved(d, r)
                   THEN ItemCost ELSE 0]
  <2>1. \A r \in ReturnIds : f[r] \in Nat
    BY <1>a, Zenon
  <2>2. ReturnsCogs(d) = TotalOf(ReturnIds, f)
    BY Zenon DEF ReturnsCogs, SumWhere
  <2> HIDE DEF f
  <2> QED BY <1>a, <2>1, <2>2, Zenon DEF SumLaws, TotalLaw
<1> QED BY <1>1, <1>2, <1>3, <1>4, <1>5, Zenon

DayNet == [d \in DaySet |-> GrossProfit(d) - ReturnsEffect(d)]
SaleNet == [i \in SaleIds |->
    IF sale[i].made THEN (bill[i].line - ItemCost) * (bill[i].items - Back(i)) ELSE 0]
Withheld == [r \in ReturnIds |-> IF reversal[r].made THEN Sum(charges[r]) ELSE 0]
ProfitAgrees == NetOf(DaySet, DayNet) = NetOf(SaleIds, SaleNet) + TotalOf(ReturnIds, Withheld)

(* The property in these words. *)
LEMMA ProfitIs == ReturnLeavesAdjustments <=> ProfitAgrees
BY Zenon DEF ReturnLeavesAdjustments, ProfitAgrees, DayNet, SaleNet, Withheld, SumWhere

(* The three tables of the property hold numbers. *)
ProfitNumbers ==
    /\ \A d \in DaySet : DayNet[d] \in Int
    /\ \A i \in SaleIds : SaleNet[i] \in Int /\ Back(i) \in Nat
    /\ \A r \in ReturnIds : Withheld[r] \in Nat

(* They do when the books are well typed. *)
LEMMA ProfitType == ASSUME SumLaws, FloorTypeOK PROVE ProfitNumbers
<1>1. ASSUME NEW d \in DaySet PROVE DayNet[d] \in Int
  <2>1. /\ Revenue(d) \in Nat /\ Cogs(d) \in Nat /\ ReturnsGross(d) \in Nat
        /\ ReturnsKept(d) \in Nat /\ ReturnsCogs(d) \in Nat
    BY EarningsType, Zenon DEF FloorTypeOK
  <2>2. DayNet[d] = Revenue(d) - Cogs(d) - (ReturnsGross(d) - ReturnsKept(d) - ReturnsCogs(d))
    BY Zenon DEF DayNet, GrossProfit, ReturnsEffect
  <2> QED BY <2>1, <2>2
<1>2. ASSUME NEW i \in SaleIds PROVE Back(i) \in Nat
  <2>1. IsFiniteSet({r \in ReturnIds : reversal[r].made /\ req[r].sale = i})
    BY ReturnsAssumption, Zenon DEF SumLaws, CountLaw, ReturnsAssumption
  <2> QED BY <2>1, Zenon DEF SumLaws, CountLaw, Back
<1>3. ASSUME NEW i \in SaleIds PROVE SaleNet[i] \in Int
  <2>1. bill[i].line \in Nat /\ bill[i].items \in Nat /\ ItemCost \in Nat /\ Back(i) \in Nat
    BY <1>2, CounterAssumption, Zenon DEF CounterAssumption, FloorTypeOK, CounterTypeOK, BillRow
  <2>2. bill[i].line - ItemCost \in Int /\ bill[i].items - Back(i) \in Int
    BY <2>1
  <2>3. (bill[i].line - ItemCost) * (bill[i].items - Back(i)) \in Int
    BY <2>2
  <2> QED BY <2>3 DEF SaleNet
<1>4. ASSUME NEW r \in ReturnIds PROVE Withheld[r] \in Nat
  <2>1. Sum(charges[r]) \in Nat
    BY SumType, Zenon DEF FloorTypeOK, ReturnsTypeOK
  <2> QED BY <2>1, Zenon DEF Withheld
<1> QED BY <1>1, <1>2, <1>3, <1>4, Zenon DEF ProfitNumbers

(* In the next state as well. *)
LEMMA ProfitTypeAfter == SumLaws /\ FloorTypeOK' => ProfitNumbers'
<1>1. SumLaws /\ FloorTypeOK => ProfitNumbers
  BY ProfitType, Zenon
<1>2. (SumLaws /\ FloorTypeOK => ProfitNumbers)'
  BY <1>1, PTL
<1> QED BY <1>2, Zenon

(* Tables are finite. *)
LEMMA FloorFinite ==
    SumLaws => IsFiniteSet(DaySet) /\ IsFiniteSet(SaleIds) /\ IsFiniteSet(ReturnIds)
BY DaysAssumption, CounterAssumption, ReturnsAssumption
   DEF DaySet, DaysAssumption, CounterAssumption, ReturnsAssumption, SumLaws, CountLaw

(* A step that touches neither sales nor reversals leaves profit alone. *)
LEMMA ProfitStands ==
    ASSUME FloorTypeOK, ProfitAgrees, UNCHANGED <<bill, reversal>>,
           \A i \in SaleIds : sale'[i].made = sale[i].made,
           \A q \in ReturnIds : reversal[q].made =>
              req'[q].sale = req[q].sale /\ charges'[q] = charges[q]
    PROVE  ProfitAgrees'
<1>1. DayNet' = DayNet
  BY Zenon DEF DayNet, GrossProfit, Revenue, Cogs, ReturnsEffect, ReturnsGross, ReturnsKept,
     ReturnsCogs, Approved, SumWhere
<1>2. \A i \in SaleIds : Back(i)' = Back(i)
  <2> SUFFICES ASSUME NEW i \in SaleIds PROVE Back(i)' = Back(i)
    BY Zenon
  <2>1. {r \in ReturnIds : reversal'[r].made /\ req'[r].sale = i}
          = {r \in ReturnIds : reversal[r].made /\ req[r].sale = i}
    BY Zenon
  <2> QED BY <2>1, Zenon DEF Back
<1>3. SaleNet' = SaleNet
  BY <1>2, Zenon DEF SaleNet
<1>4. Withheld' = Withheld
  BY Zenon DEF Withheld
<1> QED BY <1>1, <1>3, <1>4, Zenon DEF ProfitAgrees

(* A sale earns on its day what it earns. *)
LEMMA ProfitOfSale ==
    ASSUME SumLaws, FloorTypeOK, FloorTypeOK', LoadsInv, ReversalMatches, ProfitAgrees,
           NEW i \in SaleIds, ~sale[i].made, bill[i].soldOn = 0, bill'[i].soldOn = today,
           sale'[i].made, UNCHANGED <<req, charges, reversal>>,
           \A j \in SaleIds : j # i => sale'[j] = sale[j] /\ bill'[j] = bill[j]
    PROVE  ProfitAgrees'
<1> DEFINE a == bill'[i].line
           b == bill'[i].items
<1>1. a \in Nat /\ b \in Nat /\ ItemCost \in Nat /\ a * b \in Nat /\ ItemCost * b \in Nat
  <2>1. a \in Nat /\ b \in Nat /\ ItemCost \in Nat
    BY CounterAssumption, Zenon DEF CounterAssumption, FloorTypeOK, CounterTypeOK, BillRow
  <2> QED BY <2>1
<1>2. today \in DaySet /\ 0 \notin DaySet
  BY DEF FloorTypeOK, DaysTypeOK, DaySet
<1>3. \A j \in SaleIds : /\ bill[j].line * bill[j].items \in Nat /\ ItemCost * bill[j].items \in Nat
                         /\ bill'[j].line * bill'[j].items \in Nat
                         /\ ItemCost * bill'[j].items \in Nat
  <2> SUFFICES ASSUME NEW j \in SaleIds
               PROVE  /\ bill[j].line * bill[j].items \in Nat /\ ItemCost * bill[j].items \in Nat
                      /\ bill'[j].line * bill'[j].items \in Nat
                      /\ ItemCost * bill'[j].items \in Nat
    BY Zenon
  <2>1. /\ bill[j].line \in Nat /\ bill[j].items \in Nat /\ bill'[j].line \in Nat
        /\ bill'[j].items \in Nat
    BY Zenon DEF FloorTypeOK, CounterTypeOK, BillRow
  <2> QED BY <1>1, <2>1
<1>4. ASSUME NEW d \in DaySet
      PROVE  /\ Revenue(d)' = Revenue(d) + IF d = today THEN a * b ELSE 0
             /\ Cogs(d)' = Cogs(d) + IF d = today THEN ItemCost * b ELSE 0
  <2> DEFINE f == [j \in SaleIds |-> IF bill[j].soldOn = d THEN bill[j].line * bill[j].items ELSE 0]
             g == [j \in SaleIds |-> IF bill'[j].soldOn = d THEN bill'[j].line * bill'[j].items ELSE 0]
             v == [j \in SaleIds |-> IF bill[j].soldOn = d THEN ItemCost * bill[j].items ELSE 0]
             w == [j \in SaleIds |-> IF bill'[j].soldOn = d THEN ItemCost * bill'[j].items ELSE 0]
  <2>1. /\ Revenue(d) = TotalOf(SaleIds, f) /\ Revenue(d)' = TotalOf(SaleIds, g)
        /\ Cogs(d) = TotalOf(SaleIds, v) /\ Cogs(d)' = TotalOf(SaleIds, w)
    BY Zenon DEF Revenue, Cogs, SumWhere
  <2>2. \A j \in SaleIds : f[j] \in Nat /\ g[j] \in Nat /\ v[j] \in Nat /\ w[j] \in Nat
    BY <1>3, Zenon
  <2>3. \A j \in SaleIds \ {i} : g[j] = f[j] /\ w[j] = v[j]
    BY Zenon
  <2>4. /\ f[i] = 0 /\ v[i] = 0 /\ g[i] = IF d = today THEN a * b ELSE 0
        /\ w[i] = IF d = today THEN ItemCost * b ELSE 0
    BY <1>2, Zenon
  <2> HIDE DEF f, g, v, w, a, b
  <2>5. TotalOf(SaleIds, g) = TotalOf(SaleIds, f) - f[i] + g[i] /\ TotalOf(SaleIds, f) \in Nat
    BY <2>2, <2>3, FloorFinite, TotalChanges, SMTT(30)
  <2>6. TotalOf(SaleIds, w) = TotalOf(SaleIds, v) - v[i] + w[i] /\ TotalOf(SaleIds, v) \in Nat
    BY <2>2, <2>3, FloorFinite, TotalChanges
  <2>7. g[i] \in Nat /\ w[i] \in Nat
    BY <2>2, Zenon
  <2>8. Revenue(d)' = Revenue(d) + g[i] /\ Cogs(d)' = Cogs(d) + w[i]
    BY <2>1, <2>4, <2>5, <2>6, <2>7
  <2> QED BY <2>4, <2>8, Zenon
<1>5. \A d \in DaySet : ReturnsEffect(d)' = ReturnsEffect(d)
  BY Zenon DEF ReturnsEffect, ReturnsGross, ReturnsKept, ReturnsCogs, Approved, SumWhere
<1>6. \A j \in SaleIds : Back(j)' = Back(j)
  BY Zenon DEF Back
<1>7. Back(i) = 0
  <2>1. {r \in ReturnIds : reversal[r].made /\ req[r].sale = i} = {}
    BY Zenon DEF LoadsInv, ReversalMatches
  <2> QED BY <2>1, Zenon DEF SumLaws, CountLaw, Back
<1>8. \A d \in DaySet : /\ Revenue(d) \in Nat /\ Cogs(d) \in Nat /\ ReturnsEffect(d) \in Int
  <2> SUFFICES ASSUME NEW d \in DaySet
               PROVE  Revenue(d) \in Nat /\ Cogs(d) \in Nat /\ ReturnsEffect(d) \in Int
    BY Zenon
  <2> QED BY EarningsType DEF FloorTypeOK, ReturnsEffect
<1>9. /\ DayNet'[today] = DayNet[today] + (a * b - ItemCost * b)
      /\ \A d \in DaySet \ {today} : DayNet'[d] = DayNet[d]
  <2>1. ASSUME NEW d \in DaySet
        PROVE  /\ DayNet[d] = Revenue(d) - Cogs(d) - ReturnsEffect(d)
               /\ DayNet'[d] = Revenue(d)' - Cogs(d)' - ReturnsEffect(d)'
    BY Zenon DEF DayNet, GrossProfit
  <2> HIDE DEF a, b
  <2>2. DayNet'[today] = DayNet[today] + (a * b - ItemCost * b)
    BY <1>1, <1>2, <1>4, <1>5, <1>8, <2>1, SMTT(30)
  <2>3. ASSUME NEW d \in DaySet \ {today} PROVE DayNet'[d] = DayNet[d]
    BY <1>4, <1>5, <1>8, <2>1
  <2> QED BY <2>2, <2>3, Zenon
<1>10. /\ SaleNet[i] = 0 /\ SaleNet'[i] = (a - ItemCost) * (b - 0)
       /\ \A j \in SaleIds \ {i} : SaleNet'[j] = SaleNet[j]
  BY <1>6, <1>7, Zenon DEF SaleNet
<1>11. (a - ItemCost) * (b - 0) = a * b - ItemCost * b
  <2> HIDE DEF a, b
  <2> QED BY <1>1
<1>12. Withheld' = Withheld
  BY Zenon DEF Withheld
<1>13. /\ \A d \in DaySet : DayNet[d] \in Int /\ DayNet'[d] \in Int
       /\ \A j \in SaleIds : SaleNet[j] \in Int /\ SaleNet'[j] \in Int
       /\ \A r \in ReturnIds : Withheld[r] \in Nat
  BY ProfitType, ProfitTypeAfter, Zenon DEF ProfitNumbers
<1> HIDE DEF a, b
<1>14. NetOf(DaySet, DayNet') = NetOf(DaySet, DayNet) - DayNet[today] + DayNet'[today]
       /\ NetOf(DaySet, DayNet) \in Int
  BY <1>2, <1>9, <1>13, FloorFinite, NetChanges, SMTT(30)
<1>15. NetOf(SaleIds, SaleNet') = NetOf(SaleIds, SaleNet) - SaleNet[i] + SaleNet'[i]
       /\ NetOf(SaleIds, SaleNet) \in Int
  BY <1>10, <1>13, FloorFinite, NetChanges, SMTT(30)
<1>16. TotalOf(ReturnIds, Withheld) \in Nat
  BY <1>13, FloorFinite, Zenon DEF SumLaws, TotalLaw
<1>17. DayNet[today] \in Int /\ DayNet'[today] \in Int /\ SaleNet'[i] \in Int
  BY <1>2, <1>13, Zenon
<1>18. NetOf(DaySet, DayNet') = NetOf(DaySet, DayNet) + SaleNet'[i]
  <2> DEFINE before == DayNet[today]
             after == DayNet'[today]
             sum == NetOf(DaySet, DayNet)
             next == NetOf(DaySet, DayNet')
             gain == a * b - ItemCost * b
             is == SaleNet'[i]
  <2>1. /\ before \in Int /\ sum \in Int /\ is \in Int /\ after = before + gain /\ is = gain
        /\ next = sum - before + after
    BY <1>9, <1>10, <1>11, <1>14, <1>17, Zenon
  <2> HIDE DEF before, after, sum, next, gain, is
  <2>2. next = sum + is
    BY <2>1
  <2> QED BY <2>2, Zenon DEF sum, next, is
<1> QED BY <1>10, <1>12, <1>15, <1>16, <1>17, <1>18, SMTT(30) DEF ProfitAgrees

(* An approval takes back on its day what the sale had earned with the      *)
(* phone, less what is withheld.                                            *)
LEMMA ProfitOfReturn ==
    ASSUME SumLaws, FloorTypeOK, FloorTypeOK', LoadsInv, ReversalMatches, ProfitAgrees,
           NEW r \in ReturnIds, Granted(r), UNCHANGED <<bill, sale>>
    PROVE  ProfitAgrees'
<1>i. PICK i \in SaleIds : i = req[r].sale
  BY Zenon DEF FloorTypeOK, ReturnsTypeOK, ReturnRow
<1> DEFINE m == Sum(charges[r])
           n == bill[i].line
<1>1. PICK d \in DaySet : reversal' = [reversal EXCEPT ![r] =
         [made |-> TRUE, gross |-> n, adjustments |-> m, net |-> n - m, day |-> d]]
  BY <1>i, Zenon DEF Granted
<1>2. /\ \A q \in ReturnIds : q # r => req'[q] = req[q] /\ charges'[q] = charges[q]
      /\ req[r].status \in Open /\ req'[r].sale = i /\ charges'[r] = charges[r]
  BY <1>i, Zenon DEF Granted, Redone
<1>3. i \in SaleIds /\ ~reversal[r].made /\ sale[i].made
  BY <1>i, <1>2, Zenon DEF ReversalMatches, LoadsInv, Open
<1>4. m \in Nat /\ n \in Nat /\ ItemCost \in Nat
  BY <1>3, SumType, CounterAssumption, Zenon DEF CounterAssumption, FloorTypeOK, ReturnsTypeOK,
     CounterTypeOK,
     BillRow
<1>5. /\ reversal'[r].made /\ reversal'[r].gross = n /\ reversal'[r].adjustments = m
      /\ reversal'[r].day = d
      /\ \A q \in ReturnIds \ {r} : reversal'[q] = reversal[q]
  BY <1>1, Zenon DEF FloorTypeOK, ReturnsTypeOK
<1>6. \A q \in ReturnIds : /\ reversal[q].gross \in Nat /\ reversal[q].adjustments \in Nat
                           /\ reversal'[q].gross \in Nat /\ reversal'[q].adjustments \in Nat
  BY Zenon DEF FloorTypeOK, ReturnsTypeOK, ReversalRow
<1> HIDE DEF m, n
<1>7. ASSUME NEW e \in DaySet
      PROVE  /\ ReturnsGross(e)' = ReturnsGross(e) + IF e = d THEN n ELSE 0
             /\ ReturnsKept(e)' = ReturnsKept(e) + IF e = d THEN m ELSE 0
             /\ ReturnsCogs(e)' = ReturnsCogs(e) + IF e = d THEN ItemCost ELSE 0
  <2>1. \A q \in ReturnIds \ {r} : Approved(e, q)' <=> Approved(e, q)
    BY <1>5, Zenon DEF Approved
  <2>2. ~Approved(e, r) /\ (Approved(e, r)' <=> e = d)
    BY <1>3, <1>5, Zenon DEF Approved
  <2> DEFINE f == [q \in ReturnIds |-> IF Approved(e, q) THEN reversal[q].gross ELSE 0]
             g == [q \in ReturnIds |-> IF Approved(e, q)' THEN reversal'[q].gross ELSE 0]
             v == [q \in ReturnIds |-> IF Approved(e, q) THEN reversal[q].adjustments ELSE 0]
             w == [q \in ReturnIds |-> IF Approved(e, q)' THEN reversal'[q].adjustments ELSE 0]
             x == [q \in ReturnIds |-> IF Approved(e, q) THEN ItemCost ELSE 0]
             y == [q \in ReturnIds |-> IF Approved(e, q)' THEN ItemCost ELSE 0]
  <2>3. /\ ReturnsGross(e) = TotalOf(ReturnIds, f) /\ ReturnsGross(e)' = TotalOf(ReturnIds, g)
        /\ ReturnsKept(e) = TotalOf(ReturnIds, v) /\ ReturnsKept(e)' = TotalOf(ReturnIds, w)
        /\ ReturnsCogs(e) = TotalOf(ReturnIds, x) /\ ReturnsCogs(e)' = TotalOf(ReturnIds, y)
    BY Zenon DEF ReturnsGross, ReturnsKept, ReturnsCogs, SumWhere
  <2>4. \A q \in ReturnIds : /\ f[q] \in Nat /\ g[q] \in Nat /\ v[q] \in Nat /\ w[q] \in Nat
                             /\ x[q] \in Nat /\ y[q] \in Nat
    BY <1>4, <1>6, Zenon
  <2>5. \A q \in ReturnIds \ {r} : g[q] = f[q] /\ w[q] = v[q] /\ y[q] = x[q]
    BY <1>5, <2>1, Zenon
  <2>6. /\ f[r] = 0 /\ v[r] = 0 /\ x[r] = 0 /\ g[r] = (IF e = d THEN n ELSE 0)
        /\ w[r] = (IF e = d THEN m ELSE 0) /\ y[r] = IF e = d THEN ItemCost ELSE 0
    BY <1>5, <2>2, Zenon
  <2> HIDE DEF f, g, v, w, x, y
  <2>7. TotalOf(ReturnIds, g) = TotalOf(ReturnIds, f) - f[r] + g[r] /\ TotalOf(ReturnIds, f) \in Nat
    BY <2>4, <2>5, FloorFinite, TotalChanges, SMTT(30)
  <2>8. TotalOf(ReturnIds, w) = TotalOf(ReturnIds, v) - v[r] + w[r] /\ TotalOf(ReturnIds, v) \in Nat
    BY <2>4, <2>5, FloorFinite, TotalChanges, SMTT(30)
  <2>9. TotalOf(ReturnIds, y) = TotalOf(ReturnIds, x) - x[r] + y[r] /\ TotalOf(ReturnIds, x) \in Nat
    BY <2>4, <2>5, FloorFinite, TotalChanges, SMTT(30)
  <2>10. g[r] \in Nat /\ w[r] \in Nat /\ y[r] \in Nat
    BY <2>4, Zenon
  <2>11. /\ ReturnsGross(e)' = ReturnsGross(e) + g[r] /\ ReturnsKept(e)' = ReturnsKept(e) + w[r]
         /\ ReturnsCogs(e)' = ReturnsCogs(e) + y[r]
    BY <2>3, <2>6, <2>7, <2>8, <2>9, <2>10
  <2> QED BY <2>6, <2>11, Zenon
<1>8. \A e \in DaySet : GrossProfit(e)' = GrossProfit(e)
  BY Zenon DEF GrossProfit, Revenue, Cogs, SumWhere
<1>9. /\ DayNet'[d] = DayNet[d] - n + m + ItemCost
      /\ \A e \in DaySet \ {d} : DayNet'[e] = DayNet[e]
  <2>1. ASSUME NEW e \in DaySet
        PROVE  /\ DayNet[e] = GrossProfit(e) - (ReturnsGross(e) - ReturnsKept(e) - ReturnsCogs(e))
               /\ DayNet'[e] = GrossProfit(e)'
                                 - (ReturnsGross(e)' - ReturnsKept(e)' - ReturnsCogs(e)')
               /\ ReturnsGross(e) \in Nat /\ ReturnsKept(e) \in Nat /\ ReturnsCogs(e) \in Nat
               /\ GrossProfit(e) \in Int
    BY EarningsType, SMTT(30) DEF DayNet, ReturnsEffect, GrossProfit, FloorTypeOK
  <2>2. DayNet'[d] = DayNet[d] - n + m + ItemCost
    BY <1>4, <1>7, <1>8, <2>1, SMTT(30)
  <2>3. ASSUME NEW e \in DaySet \ {d} PROVE DayNet'[e] = DayNet[e]
    BY <1>7, <1>8, <2>1
  <2> QED BY <2>2, <2>3, Zenon
<1>10. Back(i)' = Back(i) + 1 /\ \A j \in SaleIds \ {i} : Back(j)' = Back(j)
  <2> DEFINE B(j) == {q \in ReturnIds : reversal[q].made /\ req[q].sale = j}
             A(j) == {q \in ReturnIds : reversal'[q].made /\ req'[q].sale = j}
  <2>1. A(i) = B(i) \cup {r} /\ r \notin B(i)
    BY <1>i, <1>2, <1>3, <1>5, Zenon
  <2>2. \A j \in SaleIds \ {i} : A(j) = B(j)
    BY <1>i, <1>2, <1>3, <1>5, Zenon
  <2>3. IsFiniteSet(B(i))
    BY FloorFinite, Zenon DEF SumLaws, CountLaw
  <2>4. \A j \in SaleIds : Back(j) = Cardinality(B(j)) /\ Back(j)' = Cardinality(A(j))
    BY Zenon DEF Back
  <2> HIDE DEF A, B
  <2>5. Cardinality(B(i) \cup {r}) = Cardinality(B(i)) + 1
    BY <2>1, <2>3, Zenon DEF SumLaws, CountLaw
  <2> QED BY <1>3, <2>1, <2>2, <2>4, <2>5, Zenon
<1>11. /\ \A e \in DaySet : DayNet[e] \in Int /\ DayNet'[e] \in Int
       /\ \A j \in SaleIds : SaleNet[j] \in Int /\ SaleNet'[j] \in Int /\ Back(j) \in Nat
       /\ \A q \in ReturnIds : Withheld[q] \in Nat /\ Withheld'[q] \in Nat
  BY ProfitType, ProfitTypeAfter, Zenon DEF ProfitNumbers
<1>12. /\ SaleNet'[i] = SaleNet[i] - (n - ItemCost)
       /\ \A j \in SaleIds \ {i} : SaleNet'[j] = SaleNet[j]
  <2> DEFINE k == n - ItemCost
             b == bill[i].items
             c == Back(i)
  <2>1. /\ SaleNet[i] = k * (b - c) /\ SaleNet'[i] = k * (b - (c + 1))
        /\ \A j \in SaleIds \ {i} : SaleNet'[j] = SaleNet[j]
    BY <1>3, <1>10, Zenon DEF SaleNet, n
  <2>2. k \in Int /\ b \in Nat /\ c \in Nat
    BY <1>3, <1>4, <1>11 DEF FloorTypeOK, CounterTypeOK, BillRow
  <2> HIDE DEF k, b, c
  <2>3. k * (b - (c + 1)) = k * (b - c) - k
    BY <2>2
  <2> QED BY <2>1, <2>3, Zenon DEF k
<1>13. /\ Withheld[r] = 0 /\ Withheld'[r] = m
       /\ \A q \in ReturnIds \ {r} : Withheld'[q] = Withheld[q]
  BY <1>2, <1>3, <1>5, Zenon DEF Withheld, m
<1>14. NetOf(DaySet, DayNet') = NetOf(DaySet, DayNet) - DayNet[d] + DayNet'[d]
       /\ NetOf(DaySet, DayNet) \in Int
  BY <1>9, <1>11, FloorFinite, NetChanges, SMTT(30)
<1>15. NetOf(SaleIds, SaleNet') = NetOf(SaleIds, SaleNet) - SaleNet[i] + SaleNet'[i]
       /\ NetOf(SaleIds, SaleNet) \in Int
  BY <1>3, <1>11, <1>12, FloorFinite, NetChanges, SMTT(30)
<1>16. TotalOf(ReturnIds, Withheld') = TotalOf(ReturnIds, Withheld) - Withheld[r] + Withheld'[r]
       /\ TotalOf(ReturnIds, Withheld) \in Nat
  BY <1>11, <1>13, FloorFinite, TotalChanges
<1>17. DayNet[d] \in Int /\ SaleNet[i] \in Int
  BY <1>3, <1>11, Zenon
<1>18. /\ NetOf(DaySet, DayNet') = NetOf(DaySet, DayNet) - n + m + ItemCost
       /\ NetOf(SaleIds, SaleNet') = NetOf(SaleIds, SaleNet) - n + ItemCost
       /\ TotalOf(ReturnIds, Withheld') = TotalOf(ReturnIds, Withheld) + m
  <2>1. DayNet'[d] = DayNet[d] - n + m + ItemCost /\ SaleNet'[i] = SaleNet[i] - (n - ItemCost)
        /\ Withheld[r] = 0 /\ Withheld'[r] = m
    BY <1>9, <1>12, <1>13, Zenon
  <2> DEFINE before == DayNet[d]
             after == DayNet'[d]
             sum == NetOf(DaySet, DayNet)
             next == NetOf(DaySet, DayNet')
             was == SaleNet[i]
             is == SaleNet'[i]
             all == NetOf(SaleIds, SaleNet)
             then == NetOf(SaleIds, SaleNet')
  <2>2. /\ before \in Int /\ sum \in Int /\ next = sum - before + after
        /\ after = before - n + m + ItemCost
    BY <1>14, <1>17, <2>1, Zenon
  <2>3. was \in Int /\ all \in Int /\ then = all - was + is /\ is = was - (n - ItemCost)
    BY <1>15, <1>17, <2>1, Zenon
  <2>4. TotalOf(ReturnIds, Withheld') = TotalOf(ReturnIds, Withheld) + m
    BY <1>4, <1>16, <2>1
  <2> HIDE DEF before, after, sum, next, was, is, all, then, n, m
  <2>5. next = sum - n + m + ItemCost
    BY <1>4, <2>2
  <2>6. then = all - n + ItemCost
    BY <1>4, <2>3
  <2> QED BY <2>4, <2>5, <2>6, Zenon DEF sum, next, all, then
<1> QED BY <1>4, <1>14, <1>15, <1>16, <1>18 DEF ProfitAgrees

(* At the counter only a sale moves profit. *)
LEMMA ProfitOfCounter ==
    ASSUME SumLaws, FloorTypeOK, FloorTypeOK', LoadsInv, ReversalMatches, TillInv, ProfitAgrees,
           CounterNext, UNCHANGED returnVars
    PROVE  ProfitAgrees'
<1>s. ASSUME UNCHANGED <<bill, sale, reversal, req, charges>> PROVE ProfitAgrees'
  BY <1>s, ProfitStands, Zenon
<1>1. ASSUME NEW i \in SaleIds, NEW k, NEW c, NEW price, NEW discount, NEW cash, NEW other,
             NEW into, NEW w, CheckOut(i, k, c, price, discount, cash, other, into, w)
      PROVE  ProfitAgrees'
  <2>1. /\ ~sale[i].made /\ sale'[i].made /\ bill'[i].soldOn = today
        /\ \A j \in SaleIds : j # i => sale'[j] = sale[j] /\ bill'[j] = bill[j]
    BY <1>1, Zenon DEF CheckOut, CreateSale, FloorTypeOK, SalesTypeOK, CounterTypeOK
  <2>2. bill[i].soldOn = 0
    BY <2>1, Zenon DEF TillInv
  <2>3. UNCHANGED <<req, charges, reversal>>
    BY Zenon DEF returnVars
  <2> QED BY <2>1, <2>2, <2>3, ProfitOfSale, Zenon
<1> QED BY <1>s, <1>1, Zenon DEF CounterNext, OfferWindow, returnVars

(* Of the requests on a return only an approval does. *)
LEMMA ProfitOfRequest ==
    ASSUME SumLaws, FloorTypeOK, FloorTypeOK', LoadsInv, ReversalMatches, ProfitAgrees, ReturnNext
    PROVE  ProfitAgrees'
<1>s. ASSUME UNCHANGED <<bill, sale, reversal, req, charges>> PROVE ProfitAgrees'
  BY <1>s, ProfitStands, Zenon
<1>1. ASSUME NEW r \in ReturnIds, NEW i \in SaleIds, NEW u \in Units, NEW held \in BOOLEAN,
             Create(r, i, u, held)
      PROVE  ProfitAgrees'
  <2>1. /\ UNCHANGED <<charges, reversal, sale, bill>>
        /\ \A q \in ReturnIds : q # r => req'[q] = req[q]
        /\ req[r].status = "none"
    BY <1>1, CreateDoes, SMTT(60) DEF Created, FloorTypeOK, tillVars
  <2>2. ~reversal[r].made
    BY <2>1, Zenon DEF ReversalMatches
  <2> QED BY <2>1, <2>2, ProfitStands, Zenon
<1>2. ASSUME NEW r \in ReturnIds, NEW load \in reqSeen[r],
             \/ ReceiveCustody(r, load)
             \/ \E resp \in Responsibility : Investigate(r, load, resp)
             \/ \E amount \in Charges : AddAdjustment(r, load, amount)
             \/ \E n \in 1..MaxCharges : RemoveAdjustment(r, load, n)
             \/ \E role \in Roles : Reject(r, load, role)
             \/ \E role \in Roles, d \in DaySet : Approve(r, load, role, d)
      PROVE  ProfitAgrees'
  <2>1. /\ UNCHANGED <<sale, bill>>
        /\ Edited(r) \/ TakenIn(r) \/ Rejected(r) \/ Granted(r)
    BY <1>2, ReturnKinds, Zenon DEF FloorTypeOK, tillVars
  <2>2. CASE Granted(r)
    BY <2>1, <2>2, ProfitOfReturn, Zenon
  <2>3. CASE Edited(r) \/ TakenIn(r) \/ Rejected(r)
    <3>1. /\ \A q \in ReturnIds : q # r => req'[q] = req[q] /\ charges'[q] = charges[q]
          /\ req[r].status \in Open /\ UNCHANGED reversal
      BY <2>3, Zenon DEF Edited, TakenIn, Rejected, Redone
    <3>2. ~reversal[r].made
      BY <3>1, Zenon DEF ReversalMatches, Open
    <3> QED BY <2>1, <3>1, <3>2, ProfitStands, Zenon
  <2> QED BY <2>1, <2>2, <2>3, Zenon
<1>3. ASSUME NEW r \in ReturnIds, NEW p, NEW channel, ReportRefund(p, r, channel)
      PROVE  ProfitAgrees'
  BY <1>s, <1>3, Zenon DEF ReportRefund, Others, tillVars
<1> QED BY <1>1, <1>2, <1>3, Zenon DEF ReturnNext

(* Before anything is sold there is no profit. *)
LEMMA ProfitInit == ASSUME SumLaws, SalesInit, CounterInit, ReturnsInit PROVE ProfitAgrees
<1>1. /\ \A i \in SaleIds : ~sale[i].made /\ bill[i].soldOn = 0
      /\ \A r \in ReturnIds : reversal[r].made = FALSE
  BY Zenon DEF SalesInit, NoSale, CounterInit, NoBill, ReturnsInit, NoReversal
<1>2. ASSUME NEW d \in DaySet PROVE DayNet[d] = 0
  <2> DEFINE f == [i \in SaleIds |-> IF bill[i].soldOn = d THEN bill[i].line * bill[i].items ELSE 0]
             v == [i \in SaleIds |-> IF bill[i].soldOn = d THEN ItemCost * bill[i].items ELSE 0]
             x == [r \in ReturnIds |-> IF Approved(d, r) THEN reversal[r].gross ELSE 0]
             y == [r \in ReturnIds |-> IF Approved(d, r) THEN reversal[r].adjustments ELSE 0]
             z == [r \in ReturnIds |-> IF Approved(d, r) THEN ItemCost ELSE 0]
  <2>1. /\ Revenue(d) = TotalOf(SaleIds, f) /\ Cogs(d) = TotalOf(SaleIds, v)
        /\ ReturnsGross(d) = TotalOf(ReturnIds, x) /\ ReturnsKept(d) = TotalOf(ReturnIds, y)
        /\ ReturnsCogs(d) = TotalOf(ReturnIds, z)
    BY Zenon DEF Revenue, Cogs, ReturnsGross, ReturnsKept, ReturnsCogs, SumWhere
  <2>2. /\ \A i \in SaleIds : f[i] = 0 /\ v[i] = 0
        /\ \A r \in ReturnIds : x[r] = 0 /\ y[r] = 0 /\ z[r] = 0
    BY <1>1 DEF DaySet, Approved
  <2> HIDE DEF f, v, x, y, z
  <2>3. /\ Revenue(d) = 0 /\ Cogs(d) = 0 /\ ReturnsGross(d) = 0 /\ ReturnsKept(d) = 0
        /\ ReturnsCogs(d) = 0
    BY <2>1, <2>2, Zenon DEF SumLaws, SameLaw
  <2> QED BY <2>3 DEF DayNet, GrossProfit, ReturnsEffect
<1>3. /\ \A i \in SaleIds : SaleNet[i] = 0
      /\ \A r \in ReturnIds : Withheld[r] = 0
  BY <1>1, Zenon DEF SaleNet, Withheld
<1>4. NetOf(DaySet, DayNet) = 0 /\ NetOf(SaleIds, SaleNet) = 0 /\ TotalOf(ReturnIds, Withheld) = 0
  BY <1>2, <1>3, Zenon DEF SumLaws, SameLaw
<1> QED BY <1>4 DEF ProfitAgrees

=============================================================================
