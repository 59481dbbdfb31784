----------------------------- MODULE StockProofs -----------------------------
(***************************************************************************)
(* The counted stock of Shop adds up, for any finite sets of branches,     *)
(* transfers, sales and receipts: what is reserved is what was promised,   *)
(* and nothing is created or lost.  The counting rests on the lemmas about *)
(* totals.                                                                 *)
(***************************************************************************)
EXTENDS ShopProofs, TotalsProofs

-----------------------------------------------------------------------------
(* Counted stock. *)

(* What lines taken from or brought to branch b are at branch c. *)
Share(lines, p, b, c) == IF c = b THEN lines[p] ELSE 0

(* What is in a row of stock and on a line. *)
LEMMA RowAt ==
    ASSUME NEW s \in Stock, NEW b \in Branches, NEW lines \in Lines,
           NEW p \in Products, NEW c \in Branches
    PROVE  /\ s[p][c] \in StockRow /\ lines[p] \in Nat
           /\ s[p][c].quantity \in Nat /\ s[p][c].reserved \in Nat
           /\ Share(lines, p, b, c) \in Nat
BY DEF Stock, StockRow, Lines, Share

(* The stock after each of the five statements on the rows of a branch. *)
AfterReserve(s, b, lines) == OnLines(s, b, lines, ReserveQuantity)
AfterRelease(s, b, lines) == OnLines(s, b, lines, ReleaseQuantity)
AfterShip(s, b, lines)    == OnLines(s, b, lines, ShipQuantity)
AfterReceive(s, b, lines) == OnLines(s, b, lines, ReceiveQuantity)
AfterTake(s, b, lines)    == OnLines(s, b, lines, TakeQuantity)

(* What each statement does to a row. *)
LEMMA ReserveAt ==
    ASSUME NEW s \in Stock, NEW b \in Branches, NEW lines \in Lines,
           NEW p \in Products, NEW c \in Branches
    PROVE  LET new == AfterReserve(s, b, lines)[p][c]
           IN  /\ new.quantity = s[p][c].quantity
               /\ new.reserved = s[p][c].reserved + Share(lines, p, b, c)
BY RowAt DEF AfterReserve, OnLines, ReserveQuantity, StockRow, Share

(* A release of what is reserved. *)
LEMMA ReleaseAt ==
    ASSUME NEW s \in Stock, NEW b \in Branches, NEW lines \in Lines,
           NEW p \in Products, NEW c \in Branches,
           s[p][c].reserved >= Share(lines, p, b, c)
    PROVE  LET new == AfterRelease(s, b, lines)[p][c]
           IN  /\ new.quantity = s[p][c].quantity
               /\ new.reserved = s[p][c].reserved - Share(lines, p, b, c)
BY RowAt DEF AfterRelease, OnLines, ReleaseQuantity, StockRow, Share

(* A shipment. *)
LEMMA ShipAt ==
    ASSUME NEW s \in Stock, NEW b \in Branches, NEW lines \in Lines,
           NEW p \in Products, NEW c \in Branches
    PROVE  LET new == AfterShip(s, b, lines)[p][c]
           IN  /\ new.quantity = s[p][c].quantity - Share(lines, p, b, c)
               /\ new.reserved = s[p][c].reserved - Share(lines, p, b, c)
BY RowAt DEF AfterShip, OnLines, ShipQuantity, StockRow, Share

(* A receipt. *)
LEMMA ReceiveAt ==
    ASSUME NEW s \in Stock, NEW b \in Branches, NEW lines \in Lines,
           NEW p \in Products, NEW c \in Branches
    PROVE  LET new == AfterReceive(s, b, lines)[p][c]
           IN  /\ new.quantity = s[p][c].quantity + Share(lines, p, b, c)
               /\ new.reserved = s[p][c].reserved
BY RowAt DEF AfterReceive, OnLines, ReceiveQuantity, StockRow, Share

(* A sale. *)
LEMMA TakeAt ==
    ASSUME NEW s \in Stock, NEW b \in Branches, NEW lines \in Lines,
           NEW p \in Products, NEW c \in Branches
    PROVE  LET new == AfterTake(s, b, lines)[p][c]
           IN  /\ new.quantity = s[p][c].quantity - Share(lines, p, b, c)
               /\ new.reserved = s[p][c].reserved
BY RowAt DEF AfterTake, OnLines, TakeQuantity, StockRow, Share

(* The numbers in the tables. *)
LEMMA CountsAreNatural ==
    ASSUME TypeOK, NEW p \in Products
    PROVE  /\ \A b \in Branches : stock[p][b].quantity \in Nat /\ stock[p][b].reserved \in Nat
           /\ \A t \in TransferIds : transfer[t].lines[p] \in Nat
           /\ \A i \in SaleIds : sale[i].lines[p] \in Nat
           /\ \A r \in ReceiptIds : receipt[r].line[p] \in Nat
<1>1. \A b \in Branches : stock[p][b].quantity \in Nat /\ stock[p][b].reserved \in Nat
  BY DEF TypeOK, InvTypeOK, Stock, StockRow
<1>2. \A t \in TransferIds : transfer[t].lines[p] \in Nat
  BY DEF TypeOK, TransfersTypeOK, TransferRow, Lines
<1>3. \A i \in SaleIds : sale[i].lines[p] \in Nat
  BY DEF TypeOK, SalesTypeOK, Lines
<1>4. \A r \in ReceiptIds : receipt[r].line[p] \in Nat
  BY DEF TypeOK, InvTypeOK, Lines
<1> QED BY <1>1, <1>2, <1>3, <1>4

(* The same after a step. *)
LEMMA CountsStayNatural ==
    ASSUME TypeOK', NEW p \in Products
    PROVE  /\ \A b \in Branches : stock'[p][b].quantity \in Nat /\ stock'[p][b].reserved \in Nat
           /\ \A t \in TransferIds : transfer'[t].lines[p] \in Nat
           /\ \A i \in SaleIds : sale'[i].lines[p] \in Nat
           /\ \A r \in ReceiptIds : receipt'[r].line[p] \in Nat
<1>1. \A b \in Branches : stock'[p][b].quantity \in Nat /\ stock'[p][b].reserved \in Nat
  BY DEF TypeOK, InvTypeOK, Stock, StockRow
<1>2. \A t \in TransferIds : transfer'[t].lines[p] \in Nat
  BY DEF TypeOK, TransfersTypeOK, TransferRow, Lines
<1>3. \A i \in SaleIds : sale'[i].lines[p] \in Nat
  BY DEF TypeOK, SalesTypeOK, Lines
<1>4. \A r \in ReceiptIds : receipt'[r].line[p] \in Nat
  BY DEF TypeOK, InvTypeOK, Lines
<1> QED BY <1>1, <1>2, <1>3, <1>4

(* What one transfer blocks at a branch. *)
Blocks(t, p, b) == IF Reserving(t) /\ transfer[t].from = b THEN transfer[t].lines[p] ELSE 0

(* When one transfer changes, the promises change by what it blocks. *)
LEMMA PromisesChange ==
    ASSUME TypeOK, TypeOK', NEW t \in TransferIds,
           \A x \in TransferIds \ {t} : transfer'[x] = transfer[x],
           NEW p \in Products, NEW b \in Branches
    PROVE  /\ PromisedFrom(p, b)' = PromisedFrom(p, b) - Blocks(t, p, b) + Blocks(t, p, b)'
           /\ Blocks(t, p, b) <= PromisedFrom(p, b)
           /\ PromisedFrom(p, b) \in Nat /\ Blocks(t, p, b) \in Nat /\ Blocks(t, p, b)' \in Nat
<1> DEFINE f == PromisedBy(p, b)
           g == PromisedBy(p, b)'
<1>1. \A x \in TransferIds : f[x] = Blocks(x, p, b) /\ g[x] = Blocks(x, p, b)'
  BY DEF PromisedBy, Blocks, Reserving
<1>2. \A x \in TransferIds : f[x] \in Nat /\ g[x] \in Nat
  BY <1>1, CountsAreNatural, CountsStayNatural DEF Blocks
<1>3. \A x \in TransferIds \ {t} : g[x] = f[x]
  BY <1>1 DEF Blocks, Reserving
<1> HIDE DEF f, g
<1>4. TotalOf(TransferIds, g) = TotalOf(TransferIds, f) - f[t] + g[t] /\ f[t] <= TotalOf(TransferIds, f)
  BY <1>2, <1>3, ShopAssumption, TotalChange
<1>5. TotalOf(TransferIds, f) \in Nat
  BY <1>2, ShopAssumption, TotalType
<1> QED BY <1>1, <1>2, <1>4, <1>5 DEF f, g, PromisedFrom

(* The promises are told from the transfers alone. *)
LEMMA PromisesSame ==
    ASSUME UNCHANGED transfer, NEW p, NEW b PROVE PromisedFrom(p, b)' = PromisedFrom(p, b)
BY DEF PromisedFrom, PromisedBy, Reserving

(* reserved_quantity and the promises of one product at one branch. *)
Covered(p, b) ==
    /\ stock[p][b].reserved = PromisedFrom(p, b)
    /\ stock[p][b].reserved <= stock[p][b].quantity

(* A new request reserves what it will be promised, out of what is free. *)
LEMMA CoveredCreate ==
    ASSUME TypeOK, TypeOK', NEW t \in TransferIds, NEW k, NEW q \in Requests,
           NEW selfApproves \in BOOLEAN, Create(t, k, q, selfApproves),
           NEW p \in Products, NEW b \in Branches, Covered(p, b)
    PROVE  Covered(p, b)'
<1>0. stock \in Stock
  BY DEF TypeOK, InvTypeOK
<1>1. q.from \in Branches /\ q.lines \in Lines /\ q.lines[p] \in Nat
  BY TransfersAssumption DEF TransfersAssumption, Lines
<1>2. /\ transfer[t] = NoRow
      /\ stock' = AfterReserve(stock, q.from, q.lines)
      /\ q.lines[p] > 0 => Reservable(stock[p][q.from], q.lines[p])
  BY DEF Create, EveryLine, AfterReserve
<1>3. /\ transfer'[t].status \in ReservingStatuses /\ transfer'[t].from = q.from
      /\ transfer'[t].lines = q.lines
      /\ \A x \in TransferIds \ {t} : transfer'[x] = transfer[x]
  BY DEF Create, WriteTransfer, TypeOK, TransfersTypeOK, ReservingStatuses
<1> DEFINE n == Share(q.lines, p, q.from, b)
<1>4. stock'[p][b].quantity = stock[p][b].quantity /\ stock'[p][b].reserved = stock[p][b].reserved + n
  BY <1>1, <1>2, <1>0, ReserveAt
<1>5. Blocks(t, p, b) = 0 /\ Blocks(t, p, b)' = n
  BY <1>2, <1>3, NoRowFields DEF Share, Blocks, Reserving, ReservingStatuses
<1> HIDE DEF n
<1>6. PromisedFrom(p, b)' = PromisedFrom(p, b) + n /\ PromisedFrom(p, b) \in Nat
  <2>1. /\ PromisedFrom(p, b)' = PromisedFrom(p, b) - Blocks(t, p, b) + Blocks(t, p, b)'
        /\ PromisedFrom(p, b) \in Nat /\ Blocks(t, p, b)' \in Nat
    BY <1>3, PromisesChange
  <2> QED BY <1>5, <2>1
<1>7. stock[p][b].quantity \in Nat /\ stock[p][b].reserved \in Nat
  BY CountsAreNatural
<1>8. stock[p][b].reserved + n <= stock[p][b].quantity
  BY <1>1, <1>2, <1>7 DEF n, Covered, Reservable, Share
<1> QED BY <1>4, <1>6, <1>8 DEF Covered

(* A decision lets go of exactly what its transfer was promised. *)
LEMMA CoveredDecision ==
    ASSUME ClaimsInv, TypeOK', NEW t \in TransferIds, NEW to, Decides(t, to),
           NEW p \in Products, NEW b \in Branches, Covered(p, b)
    PROVE  Covered(p, b)'
<1> USE DEF ClaimsInv
<1> DEFINE from  == transfer[t].from
           lines == transfer[t].lines
           n     == Share(lines, p, from, b)
<1>1. /\ CanTransferTransition(transfer[t].status, to) /\ transfer'[t].status = to
      /\ transfer'[t].from = from /\ transfer'[t].lines = lines
      /\ \A x \in TransferIds \ {t} : transfer'[x] = transfer[x]
  BY DecisionKeeps
<1>2. /\ from \in Branches /\ transfer[t].to \in Branches /\ lines \in Lines /\ stock \in Stock
      /\ lines[p] \in Nat /\ n \in Nat
  BY DEF TypeOK, InvTypeOK, TransfersTypeOK, TransferRow, Lines, Share
<1>3. /\ PromisedFrom(p, b)' = PromisedFrom(p, b) - Blocks(t, p, b) + Blocks(t, p, b)'
      /\ Blocks(t, p, b) <= PromisedFrom(p, b)
      /\ PromisedFrom(p, b) \in Nat /\ Blocks(t, p, b) \in Nat /\ Blocks(t, p, b)' \in Nat
  BY <1>1, PromisesChange
<1>4. stock[p][b].quantity \in Nat /\ stock[p][b].reserved \in Nat
  BY CountsAreNatural
<1>5. CASE to = "approved" /\ Approve(t)
  <2>1. stock' = stock
    BY <1>5 DEF Approve, invVars
  <2>2. Blocks(t, p, b)' = Blocks(t, p, b)
    BY <1>1, <1>5, DecidedFrom DEF Blocks, Reserving, ReservingStatuses
  <2> QED BY <1>3, <2>1, <2>2 DEF Covered
<1>6. CASE \/ to = "rejected" /\ Reject(t)
           \/ to = "cancelled" /\ Cancel(t)
  <2>1. stock' = AfterRelease(stock, from, lines)
    BY <1>6, Zenon DEF Reject, Cancel, ReleaseReservations, AfterRelease
  <2>2. Blocks(t, p, b) = n /\ Blocks(t, p, b)' = 0
    BY <1>1, <1>6, DecidedFrom DEF Share, Blocks, Reserving, ReservingStatuses
  <2>3. stock[p][b].reserved >= n
    BY <1>2, <1>3, <1>4, <2>2 DEF Covered
  <2> HIDE DEF from, lines
  <2>4. stock'[p][b].quantity = stock[p][b].quantity /\ stock'[p][b].reserved = stock[p][b].reserved - n
    BY <1>2, <2>1, <2>3, ReleaseAt
  <2> HIDE DEF n
  <2> QED BY <1>2, <1>3, <1>4, <2>2, <2>4 DEF Covered
<1>7. CASE to = "in_transit" /\ Ship(t)
  <2>1. stock' = AfterShip(stock, from, lines)
    BY <1>7, Zenon DEF Ship, AfterShip
  <2>2. Blocks(t, p, b) = n /\ Blocks(t, p, b)' = 0
    BY <1>1, <1>7, DecidedFrom DEF Share, Blocks, Reserving, ReservingStatuses
  <2> HIDE DEF from, lines
  <2>3. /\ stock'[p][b].quantity = stock[p][b].quantity - n
        /\ stock'[p][b].reserved = stock[p][b].reserved - n
    BY <1>2, <2>1, ShipAt
  <2> HIDE DEF n
  <2> QED BY <1>2, <1>3, <1>4, <2>2, <2>3 DEF Covered
<1>8. CASE to = "received" /\ \E matched \in SUBSET Units : ReceiveConfirm(t, matched)
  <2>1. stock' = AfterReceive(stock, transfer[t].to, lines)
    BY <1>8, Zenon DEF ReceiveConfirm, AfterReceive
  <2>2. Blocks(t, p, b) = 0 /\ Blocks(t, p, b)' = 0
    BY <1>1, <1>8, DecidedFrom DEF Blocks, Reserving, ReservingStatuses
  <2> DEFINE m == Share(lines, p, transfer[t].to, b)
  <2>3. m \in Nat
    BY <1>2 DEF Share
  <2> HIDE DEF from, lines
  <2>4. /\ stock'[p][b].quantity = stock[p][b].quantity + m
        /\ stock'[p][b].reserved = stock[p][b].reserved
    BY <1>2, <2>1, ReceiveAt, ZenonT(40)
  <2> HIDE DEF n, m
  <2> QED BY <1>3, <1>4, <2>2, <2>3, <2>4 DEF Covered
<1> QED BY <1>5, <1>6, <1>7, <1>8 DEF Decides

(* A receipt adds to the shelf; a sale leaves what is promised on it. *)
LEMMA CoveredShelf ==
    ASSUME TypeOK, TypeOK', UNCHANGED transfer, InvNext \/ SalesNext,
           NEW p \in Products, NEW b \in Branches, Covered(p, b)
    PROVE  Covered(p, b)'
<1>1. PromisedFrom(p, b)' = PromisedFrom(p, b)
  BY PromisesSame
<1>2. stock[p][b].quantity \in Nat /\ stock[p][b].reserved \in Nat /\ stock \in Stock
  BY CountsAreNatural DEF TypeOK, InvTypeOK
<1>3. CASE stock' = stock
  BY <1>1, <1>3 DEF Covered
<1>4. ASSUME NEW r \in ReceiptIds, NEW k \in ReceiptKeys \cup {NoKey}, NEW x \in Products,
             NEW c \in Branches, NEW m \in Amounts, QuickAddQuantity(r, k, x, c, m)
      PROVE  Covered(p, b)'
  <2> DEFINE line == [y \in Products |-> IF y = x THEN m ELSE 0]
             n    == Share(line, p, c, b)
  <2>1. stock' = AfterReceive(stock, c, line)
    BY <1>4 DEF QuickAddQuantity, AfterReceive
  <2>2. line \in Lines /\ n \in Nat
    BY InventoryAssumption DEF InventoryAssumption, Lines, Share
  <2> HIDE DEF line
  <2>3. stock'[p][b].quantity = stock[p][b].quantity + n /\ stock'[p][b].reserved = stock[p][b].reserved
    BY <1>2, <2>1, <2>2, ReceiveAt
  <2> HIDE DEF n
  <2> QED BY <1>1, <1>2, <2>2, <2>3 DEF Covered
<1>5. ASSUME NEW i \in SaleIds, NEW k, NEW c \in Carts, CreateSale(i, k, c)
      PROVE  Covered(p, b)'
  <2>1. c.branch \in Branches /\ c.lines \in Lines /\ c.lines[p] \in Nat
    BY SalesAssumption DEF SalesAssumption, Lines
  <2>2. /\ stock' = AfterTake(stock, c.branch, c.lines)
        /\ c.lines[p] > 0 => Takeable(stock[p][c.branch], c.lines[p])
    BY <1>5 DEF CreateSale, EveryLine, AfterTake
  <2> DEFINE n == Share(c.lines, p, c.branch, b)
  <2>3. stock'[p][b].quantity = stock[p][b].quantity - n /\ stock'[p][b].reserved = stock[p][b].reserved
    BY <1>2, <2>1, <2>2, TakeAt
  <2>4. stock[p][b].reserved <= stock[p][b].quantity - n
    <3>1. CASE b = c.branch /\ c.lines[p] > 0
      BY <2>2, <3>1 DEF Takeable, Share
    <3>2. CASE ~(b = c.branch /\ c.lines[p] > 0)
      BY <1>2, <2>1, <3>2 DEF Covered, Share
    <3> QED BY <3>1, <3>2
  <2> QED BY <1>1, <2>3, <2>4 DEF Covered
<1>6. InvNext => \/ UNCHANGED stock
                 \/ \E r \in ReceiptIds, k \in ReceiptKeys \cup {NoKey}, x \in Products,
                       c \in Branches, m \in Amounts : QuickAddQuantity(r, k, x, c, m)
  BY Zenon DEF InvNext, QuickAddUnit, MarkFaulty
<1> QED BY <1>3, <1>4, <1>5, <1>6 DEF SalesNext

(* What the open transfers of a branch were promised is exactly what its    *)
(* stock rows hold back, and is on the shelf: no decision is applied twice, *)
(* no release is lost, no sale takes what was promised.                     *)
THEOREM PromisesAreCovered == Spec => []ReservedIsPromised
<1>1. Init => ReservedIsPromised
  <2> SUFFICES ASSUME Init, NEW p \in Products, NEW b \in Branches
               PROVE  /\ stock[p][b].reserved = PromisedFrom(p, b)
                      /\ stock[p][b].reserved <= stock[p][b].quantity
    BY DEF ReservedIsPromised
  <2>1. stock[p][b].reserved = 0 /\ stock[p][b].quantity = 0
    BY DEF Init, InvInit
  <2> DEFINE none == [t \in TransferIds |-> 0]
  <2>2. PromisedBy(p, b) = none
    BY NoRowFields DEF PromisedBy, Reserving, ReservingStatuses, Init, TransfersInit
  <2>3. TotalOf(TransferIds, none) = 0
    BY TotalNone
  <2> QED BY <2>1, <2>2, <2>3 DEF PromisedFrom
<1>2. ReservedIsPromised /\ ClaimsInv /\ ClaimsInv' /\ [Next]_vars => ReservedIsPromised'
  <2> SUFFICES ASSUME ReservedIsPromised, ClaimsInv, ClaimsInv', [Next]_vars,
                      NEW p \in Products, NEW b \in Branches
               PROVE  Covered(p, b)'
    BY Zenon DEF ReservedIsPromised, Covered
  <2>1. Covered(p, b) /\ TypeOK /\ TypeOK'
    BY Zenon DEF ReservedIsPromised, Covered, ClaimsInv
  <2>2. CASE UNCHANGED <<stock, transfer>>
    BY <2>1, <2>2, PromisesSame DEF Covered
  <2>3. CASE (InvNext \/ SalesNext) /\ UNCHANGED transfer
    BY <2>1, <2>3, CoveredShelf
  <2>4. CASE PricingNext /\ UNCHANGED transfer
    <3>1. stock' = stock
      BY <2>4 DEF PricingNext, SetUnitOverride, RemoveUnitOverride, invVars
    <3> QED BY <2>2, <2>4, <3>1
  <2>5. CASE TransfersNext
    <3>1. ASSUME NEW t \in TransferIds, NEW k \in TransferKeys, NEW q \in Requests,
                 NEW selfApproves \in BOOLEAN, Create(t, k, q, selfApproves)
          PROVE  Covered(p, b)'
      BY <2>1, <3>1, CoveredCreate
    <3>2. ASSUME NEW t \in TransferIds, NEW k \in TransferKeys, NEW q \in Requests,
                 ReplayCreate(t, k, q)
          PROVE  UNCHANGED <<stock, transfer>>
      BY <3>2 DEF ReplayCreate, invVars
    <3>3. ASSUME NEW t \in TransferIds, NEW to \in TransferStatus, Decides(t, to)
          PROVE  Covered(p, b)'
      BY <2>1, <3>3, CoveredDecision
    <3>4. ASSUME NEW t \in TransferIds,
                 \/ Approve(t) \/ Reject(t) \/ Cancel(t) \/ Ship(t)
                 \/ \E matched \in SUBSET Units : ReceiveConfirm(t, matched)
          PROVE  \E to \in TransferStatus : Decides(t, to)
      BY <3>4 DEF Decides, TransferStatus
    <3> QED BY <2>2, <2>5, <3>1, <3>2, <3>3, <3>4 DEF TransfersNext
  <2>6. UNCHANGED vars => UNCHANGED <<stock, transfer>>
    BY DEF vars, invVars, trVars
  <2> QED BY <2>2, <2>3, <2>4, <2>5, <2>6 DEF Next, trVars
<1> QED BY <1>1, <1>2, ClaimsInvariant, PTL DEF Spec

-----------------------------------------------------------------------------
(* Nothing counted is created or lost. *)

(* What one transfer has on the road. *)
Carries(t, p) == IF transfer[t].status = "in_transit" THEN transfer[t].lines[p] ELSE 0

Balanced(p) ==
    /\ OnShelves(p) + UnderWay(p) + SoldOf(p) = BoughtOf(p)
    /\ OnShelves(p) \in Nat /\ UnderWay(p) \in Nat /\ SoldOf(p) \in Nat /\ BoughtOf(p) \in Nat

(* The four totals are natural numbers. *)
LEMMA TotalsAreNatural ==
    ASSUME TypeOK, NEW p \in Products
    PROVE  OnShelves(p) \in Nat /\ UnderWay(p) \in Nat /\ SoldOf(p) \in Nat /\ BoughtOf(p) \in Nat
<1> USE ShopAssumption, CountsAreNatural, TotalType
<1>1. OnShelves(p) \in Nat
  <2> DEFINE f == [b \in Branches |-> stock[p][b].quantity]
  <2>1. \A b \in Branches : f[b] \in Nat
    OBVIOUS
  <2> HIDE DEF f
  <2> QED BY <2>1 DEF OnShelves, f
<1>2. UnderWay(p) \in Nat
  <2> DEFINE f == [t \in TransferIds |->
                     IF transfer[t].status = "in_transit" THEN transfer[t].lines[p] ELSE 0]
  <2>1. \A t \in TransferIds : f[t] \in Nat
    OBVIOUS
  <2> HIDE DEF f
  <2> QED BY <2>1 DEF UnderWay, f
<1>3. SoldOf(p) \in Nat
  <2> DEFINE f == [i \in SaleIds |-> sale[i].lines[p]]
  <2>1. \A i \in SaleIds : f[i] \in Nat
    OBVIOUS
  <2> HIDE DEF f
  <2> QED BY <2>1 DEF SoldOf, f
<1>4. BoughtOf(p) \in Nat
  <2> DEFINE f == [r \in ReceiptIds |-> receipt[r].line[p]]
  <2>1. \A r \in ReceiptIds : f[r] \in Nat
    OBVIOUS
  <2> HIDE DEF f
  <2> QED BY <2>1 DEF BoughtOf, f
<1> QED BY <1>1, <1>2, <1>3, <1>4

(* A step that writes the row of one branch moves the shelf total by it. *)
LEMMA ShelvesChange ==
    ASSUME TypeOK, TypeOK', NEW p \in Products, NEW b \in Branches,
           \A c \in Branches \ {b} : stock'[p][c].quantity = stock[p][c].quantity
    PROVE  OnShelves(p)' = OnShelves(p) - stock[p][b].quantity + stock'[p][b].quantity
<1> DEFINE f == [c \in Branches |-> stock[p][c].quantity]
           g == [c \in Branches |-> stock'[p][c].quantity]
<1>1. \A c \in Branches : f[c] \in Nat /\ g[c] \in Nat
  BY CountsAreNatural, CountsStayNatural
<1>2. \A c \in Branches \ {b} : g[c] = f[c]
  OBVIOUS
<1>3. f[b] = stock[p][b].quantity /\ g[b] = stock'[p][b].quantity
  OBVIOUS
<1> HIDE DEF f, g
<1>4. TotalOf(Branches, g) = TotalOf(Branches, f) - f[b] + g[b]
  BY <1>1, <1>2, ShopAssumption, TotalChange
<1> QED BY <1>3, <1>4 DEF f, g, OnShelves

(* Lines brought to a branch add to the shelves. *)
LEMMA ShelvesGain ==
    ASSUME TypeOK, TypeOK', NEW p \in Products, NEW b \in Branches, NEW lines \in Lines,
           \A c \in Branches :
              stock'[p][c].quantity = stock[p][c].quantity + Share(lines, p, b, c)
    PROVE  OnShelves(p)' = OnShelves(p) + lines[p]
<1>1. \A c \in Branches : stock[p][c].quantity \in Nat
  BY CountsAreNatural
<1>2. OnShelves(p) \in Nat /\ lines[p] \in Nat
  BY TotalsAreNatural DEF Lines
<1>3. Share(lines, p, b, b) = lines[p] /\ \A c \in Branches \ {b} : Share(lines, p, b, c) = 0
  BY DEF Share
<1>4. \A c \in Branches \ {b} : stock'[p][c].quantity = stock[p][c].quantity
  BY <1>1, <1>3
<1>5. OnShelves(p)' = OnShelves(p) - stock[p][b].quantity + stock'[p][b].quantity
  BY <1>4, ShelvesChange
<1>6. stock'[p][b].quantity = stock[p][b].quantity + lines[p]
  BY <1>3
<1> QED BY <1>1, <1>2, <1>5, <1>6

(* Lines taken from a branch leave the shelves. *)
LEMMA ShelvesLose ==
    ASSUME TypeOK, TypeOK', NEW p \in Products, NEW b \in Branches, NEW lines \in Lines,
           \A c \in Branches :
              stock'[p][c].quantity = stock[p][c].quantity - Share(lines, p, b, c)
    PROVE  OnShelves(p)' = OnShelves(p) - lines[p]
<1>1. \A c \in Branches : stock[p][c].quantity \in Nat
  BY CountsAreNatural
<1>2. OnShelves(p) \in Nat /\ lines[p] \in Nat
  BY TotalsAreNatural DEF Lines
<1>3. Share(lines, p, b, b) = lines[p] /\ \A c \in Branches \ {b} : Share(lines, p, b, c) = 0
  BY DEF Share
<1>4. \A c \in Branches \ {b} : stock'[p][c].quantity = stock[p][c].quantity
  BY <1>1, <1>3
<1>5. OnShelves(p)' = OnShelves(p) - stock[p][b].quantity + stock'[p][b].quantity
  BY <1>4, ShelvesChange
<1>6. stock'[p][b].quantity = stock[p][b].quantity - lines[p]
  BY <1>3
<1> QED BY <1>1, <1>2, <1>5, <1>6

(* A step that changes one transfer moves the total on the road by it. *)
LEMMA RoadChange ==
    ASSUME TypeOK, TypeOK', NEW p \in Products, NEW t \in TransferIds,
           \A x \in TransferIds \ {t} : transfer'[x] = transfer[x]
    PROVE  /\ UnderWay(p)' = UnderWay(p) - Carries(t, p) + Carries(t, p)'
           /\ Carries(t, p) \in Nat /\ Carries(t, p)' \in Nat
<1> DEFINE f == [x \in TransferIds |-> Carries(x, p)]
           g == [x \in TransferIds |-> Carries(x, p)']
<1>1. \A x \in TransferIds : f[x] \in Nat /\ g[x] \in Nat
  BY CountsAreNatural, CountsStayNatural DEF Carries
<1>2. \A x \in TransferIds \ {t} : g[x] = f[x]
  BY DEF Carries
<1>3. f[t] = Carries(t, p) /\ g[t] = Carries(t, p)'
  OBVIOUS
<1>4. UnderWay(p) = TotalOf(TransferIds, f) /\ UnderWay(p)' = TotalOf(TransferIds, g)
  BY DEF UnderWay, Carries
<1> HIDE DEF f, g
<1>5. TotalOf(TransferIds, g) = TotalOf(TransferIds, f) - f[t] + g[t]
  BY <1>1, <1>2, ShopAssumption, TotalChange
<1> QED BY <1>1, <1>3, <1>4, <1>5

(* A new receipt moves the total bought by its line. *)
LEMMA BoughtChange ==
    ASSUME TypeOK, TypeOK', NEW p \in Products, NEW r \in ReceiptIds,
           \A y \in ReceiptIds \ {r} : receipt'[y] = receipt[y]
    PROVE  BoughtOf(p)' = BoughtOf(p) - receipt[r].line[p] + receipt'[r].line[p]
<1> DEFINE f == [y \in ReceiptIds |-> receipt[y].line[p]]
           g == [y \in ReceiptIds |-> receipt'[y].line[p]]
<1>1. \A y \in ReceiptIds : f[y] \in Nat /\ g[y] \in Nat
  BY CountsAreNatural, CountsStayNatural
<1>2. \A y \in ReceiptIds \ {r} : g[y] = f[y]
  OBVIOUS
<1>3. f[r] = receipt[r].line[p] /\ g[r] = receipt'[r].line[p]
  OBVIOUS
<1> HIDE DEF f, g
<1>4. TotalOf(ReceiptIds, g) = TotalOf(ReceiptIds, f) - f[r] + g[r]
  BY <1>1, <1>2, ShopAssumption, TotalChange
<1> QED BY <1>3, <1>4 DEF f, g, BoughtOf

(* A new sale moves the total sold by its lines. *)
LEMMA SoldChange ==
    ASSUME TypeOK, TypeOK', NEW p \in Products, NEW i \in SaleIds,
           \A y \in SaleIds \ {i} : sale'[y] = sale[y]
    PROVE  SoldOf(p)' = SoldOf(p) - sale[i].lines[p] + sale'[i].lines[p]
<1> DEFINE f == [y \in SaleIds |-> sale[y].lines[p]]
           g == [y \in SaleIds |-> sale'[y].lines[p]]
<1>1. \A y \in SaleIds : f[y] \in Nat /\ g[y] \in Nat
  BY CountsAreNatural, CountsStayNatural
<1>2. \A y \in SaleIds \ {i} : g[y] = f[y]
  OBVIOUS
<1>3. f[i] = sale[i].lines[p] /\ g[i] = sale'[i].lines[p]
  OBVIOUS
<1> HIDE DEF f, g
<1>4. TotalOf(SaleIds, g) = TotalOf(SaleIds, f) - f[i] + g[i]
  BY <1>1, <1>2, ShopAssumption, TotalChange
<1> QED BY <1>3, <1>4 DEF f, g, SoldOf

(* Decisions before shipment leave the goods on the shelf; a shipment puts  *)
(* them on the road, a receipt on the shelf of the destination.             *)
LEMMA BalancedDecision ==
    ASSUME ClaimsInv, TypeOK', NEW t \in TransferIds, NEW to, Decides(t, to),
           UNCHANGED <<sale, receipt>>, NEW p \in Products, Balanced(p)
    PROVE  OnShelves(p)' + UnderWay(p)' + SoldOf(p)' = BoughtOf(p)'
<1> USE DEF ClaimsInv
<1> DEFINE from  == transfer[t].from
           lines == transfer[t].lines
           n     == lines[p]
<1>1. /\ CanTransferTransition(transfer[t].status, to) /\ transfer'[t].status = to
      /\ transfer'[t].lines = lines
      /\ \A x \in TransferIds \ {t} : transfer'[x] = transfer[x]
  BY DecisionKeeps
<1>2. /\ from \in Branches /\ transfer[t].to \in Branches /\ lines \in Lines /\ stock \in Stock
      /\ n \in Nat
  BY DEF TypeOK, InvTypeOK, TransfersTypeOK, TransferRow, Lines
<1>3. UnderWay(p)' = UnderWay(p) - Carries(t, p) + Carries(t, p)'
  BY <1>1, RoadChange
<1>4. SoldOf(p)' = SoldOf(p) /\ BoughtOf(p)' = BoughtOf(p)
  BY DEF SoldOf, BoughtOf
<1>7. CASE \/ to = "approved" /\ Approve(t)
           \/ to = "rejected" /\ Reject(t)
           \/ to = "cancelled" /\ Cancel(t)
  <2>1. \A c \in Branches : stock'[p][c].quantity = stock[p][c].quantity
    <3>1. stock' = stock \/ stock' = AfterRelease(stock, from, lines)
      BY <1>7, Zenon DEF Approve, Reject, Cancel, ReleaseReservations, invVars, AfterRelease
    <3>2. ASSUME NEW c \in Branches, stock' = AfterRelease(stock, from, lines)
          PROVE  stock'[p][c].quantity = stock[p][c].quantity
      BY <1>2, <3>2 DEF AfterRelease, OnLines, ReleaseQuantity, Stock, StockRow
    <3> QED BY <3>1, <3>2
  <2>2. OnShelves(p)' = OnShelves(p)
    BY <2>1 DEF OnShelves
  <2>3. Carries(t, p) = 0 /\ Carries(t, p)' = 0
    BY <1>1, <1>7, DecidedFrom DEF Carries, ReservingStatuses
  <2> QED BY <1>3, <1>4, <2>2, <2>3 DEF Balanced
<1>8. CASE to = "in_transit" /\ Ship(t)
  <2>1. stock' = AfterShip(stock, from, lines)
    BY <1>8, Zenon DEF Ship, AfterShip
  <2>2. Carries(t, p) = 0 /\ Carries(t, p)' = n
    BY <1>1, <1>8, DecidedFrom DEF Carries
  <2> HIDE DEF from, lines
  <2>3. \A c \in Branches :
           stock'[p][c].quantity = stock[p][c].quantity - Share(lines, p, from, c)
    <3> TAKE c \in Branches
    <3> QED BY <1>2, <2>1, ShipAt
  <2>4. OnShelves(p)' = OnShelves(p) - n
    BY <1>2, <2>3, ShelvesLose
  <2> HIDE DEF n
  <2> QED BY <1>2, <1>3, <1>4, <2>2, <2>4 DEF Balanced
<1>9. CASE to = "received" /\ \E matched \in SUBSET Units : ReceiveConfirm(t, matched)
  <2> DEFINE dest == transfer[t].to
  <2>1. stock' = AfterReceive(stock, dest, lines)
    BY <1>9, Zenon DEF ReceiveConfirm, AfterReceive
  <2>2. Carries(t, p) = n /\ Carries(t, p)' = 0
    BY <1>1, <1>9, DecidedFrom DEF Carries
  <2>3. dest \in Branches
    BY <1>2
  <2> HIDE DEF from, lines, dest
  <2>4. \A c \in Branches :
           stock'[p][c].quantity = stock[p][c].quantity + Share(lines, p, dest, c)
    <3> TAKE c \in Branches
    <3> QED BY <1>2, <2>1, <2>3, ReceiveAt, ZenonT(40)
  <2>5. OnShelves(p)' = OnShelves(p) + n
    BY <1>2, <2>3, <2>4, ShelvesGain
  <2> HIDE DEF n
  <2> QED BY <1>2, <1>3, <1>4, <2>2, <2>5 DEF Balanced
<1> QED BY <1>7, <1>8, <1>9 DEF Decides

(* A request moves nothing. *)
LEMMA BalancedCreate ==
    ASSUME TypeOK, TypeOK', NEW t \in TransferIds, NEW k, NEW q \in Requests,
           NEW selfApproves \in BOOLEAN, Create(t, k, q, selfApproves),
           UNCHANGED <<sale, receipt>>, NEW p \in Products, Balanced(p)
    PROVE  OnShelves(p)' + UnderWay(p)' + SoldOf(p)' = BoughtOf(p)'
<1>0. stock \in Stock
  BY DEF TypeOK, InvTypeOK
<1>1. q.from \in Branches /\ q.lines \in Lines
  BY TransfersAssumption DEF TransfersAssumption
<1>2. transfer[t] = NoRow /\ stock' = AfterReserve(stock, q.from, q.lines)
  BY DEF Create, AfterReserve
<1>3. /\ transfer'[t].status \in ReservingStatuses
      /\ \A x \in TransferIds \ {t} : transfer'[x] = transfer[x]
  BY DEF Create, WriteTransfer, TypeOK, TransfersTypeOK, ReservingStatuses
<1>4. \A b \in Branches : stock'[p][b].quantity = stock[p][b].quantity
  BY <1>0, <1>1, <1>2, ReserveAt
<1>5. OnShelves(p)' = OnShelves(p)
  BY <1>4 DEF OnShelves
<1>6. Carries(t, p) = 0 /\ Carries(t, p)' = 0
  BY <1>2, <1>3, NoRowFields DEF Carries, ReservingStatuses
<1>7. UnderWay(p)' = UnderWay(p) - 0 + 0
  BY <1>3, <1>6, RoadChange
<1>8. SoldOf(p)' = SoldOf(p) /\ BoughtOf(p)' = BoughtOf(p)
  BY DEF SoldOf, BoughtOf
<1> QED BY <1>5, <1>7, <1>8 DEF Balanced

(* A receipt adds to what was bought as much as to the shelf. *)
LEMMA BalancedReceipt ==
    ASSUME TypeOK, TypeOK', NEW r \in ReceiptIds, NEW k \in ReceiptKeys \cup {NoKey},
           NEW x \in Products, NEW b \in Branches, NEW m \in Amounts,
           QuickAddQuantity(r, k, x, b, m), UNCHANGED <<sale, transfer>>,
           NEW p \in Products, Balanced(p)
    PROVE  OnShelves(p)' + UnderWay(p)' + SoldOf(p)' = BoughtOf(p)'
<1> DEFINE line == [y \in Products |-> IF y = x THEN m ELSE 0]
<1>1. /\ receipt[r] = NoReceipt
      /\ receipt' = [receipt EXCEPT ![r] = [key |-> k, line |-> line]]
      /\ stock' = AfterReceive(stock, b, line)
  BY DEF QuickAddQuantity, AfterReceive
<1>2. line \in Lines /\ line[p] \in Nat
  BY InventoryAssumption DEF InventoryAssumption, Lines
<1> HIDE DEF line
<1>3. stock \in Stock
  BY DEF TypeOK, InvTypeOK
<1>4. \A c \in Branches :
         stock'[p][c].quantity = stock[p][c].quantity + Share(line, p, b, c)
  <2> TAKE c \in Branches
  <2> QED BY <1>1, <1>2, <1>3, ReceiveAt
<1>5. OnShelves(p)' = OnShelves(p) + line[p]
  BY <1>2, <1>4, ShelvesGain
<1>6. \A y \in ReceiptIds \ {r} : receipt'[y] = receipt[y]
  BY <1>1 DEF TypeOK, InvTypeOK
<1>7. receipt[r].line[p] = 0
  <2>1. NoReceipt.line[p] = 0
    BY DEF NoReceipt
  <2> QED BY <1>1, <2>1
<1>8. receipt'[r].line = line
  BY <1>1 DEF TypeOK, InvTypeOK
<1>9. BoughtOf(p)' = BoughtOf(p) - receipt[r].line[p] + receipt'[r].line[p]
  BY <1>6, BoughtChange
<1>10. BoughtOf(p)' = BoughtOf(p) + line[p]
  BY <1>2, <1>7, <1>8, <1>9 DEF Balanced
<1>11. UnderWay(p)' = UnderWay(p) /\ SoldOf(p)' = SoldOf(p)
  BY DEF UnderWay, SoldOf
<1> QED BY <1>2, <1>5, <1>10, <1>11 DEF Balanced

(* A sale takes from the shelf what it sells. *)
LEMMA BalancedSale ==
    ASSUME ClaimsInv, TypeOK', SalesNext, UNCHANGED <<transfer, receipt>>,
           NEW p \in Products, Balanced(p)
    PROVE  OnShelves(p)' + UnderWay(p)' + SoldOf(p)' = BoughtOf(p)'
<1> USE DEF ClaimsInv
<1>1. PICK i \in SaleIds, k \in SaleKeys \cup {NoKey}, c \in Carts : CreateSale(i, k, c)
  BY DEF SalesNext
<1> DEFINE b == c.branch
           n == c.lines[p]
<1>2. b \in Branches /\ c.lines \in Lines /\ n \in Nat
  BY SalesAssumption DEF SalesAssumption, Lines
<1>3. stock' = AfterTake(stock, b, c.lines)
  BY <1>1, Zenon DEF CreateSale, AfterTake
<1>4. stock \in Stock
  BY DEF TypeOK, InvTypeOK
<1>5. \A x \in Branches :
         stock'[p][x].quantity = stock[p][x].quantity - Share(c.lines, p, b, x)
  <2> HIDE DEF b
  <2> TAKE x \in Branches
  <2> QED BY <1>2, <1>3, <1>4, TakeAt, Zenon
<1>6. OnShelves(p)' = OnShelves(p) - n
  BY <1>2, <1>5, ShelvesLose
<1>7. \A y \in SaleIds \ {i} : sale'[y] = sale[y]
  BY <1>1 DEF CreateSale, TypeOK, SalesTypeOK
<1>8. sale[i].lines[p] = 0
  <2>1. sale[i] = NoSale
    BY <1>1, Zenon DEF RowsWellFormed, CreateSale
  <2>2. NoSale.lines[p] = 0
    BY DEF NoSale
  <2> QED BY <2>1, <2>2
<1>9. sale'[i].lines = c.lines
  BY <1>1 DEF CreateSale, TypeOK, SalesTypeOK
<1>10. SoldOf(p)' = SoldOf(p) - sale[i].lines[p] + sale'[i].lines[p]
  BY <1>7, SoldChange
<1>11. SoldOf(p)' = SoldOf(p) + n
  BY <1>2, <1>8, <1>9, <1>10 DEF Balanced
<1>12. UnderWay(p)' = UnderWay(p) /\ BoughtOf(p)' = BoughtOf(p)
  BY DEF UnderWay, BoughtOf
<1> HIDE DEF n, b
<1> QED BY <1>2, <1>6, <1>11, <1>12 DEF Balanced

(* Counted goods are neither created nor lost: whatever was received is on  *)
(* a shelf, on the road or sold, through every order of requests, decisions *)
(* on old loads, repetitions and sales.                                     *)
THEOREM GoodsAreConserved == Spec => []QuantityConserved
<1>1. Init => QuantityConserved
  <2> SUFFICES ASSUME Init, NEW p \in Products
               PROVE  OnShelves(p) + UnderWay(p) + SoldOf(p) = BoughtOf(p)
    BY DEF QuantityConserved
  <2>1. OnShelves(p) = 0
    BY TotalNone DEF OnShelves, Init, InvInit
  <2>2. UnderWay(p) = 0
    BY TotalNone, NoRowFields DEF UnderWay, Init, TransfersInit
  <2>3. SoldOf(p) = 0
    BY TotalNone DEF SoldOf, Init, SalesInit, NoSale
  <2>4. BoughtOf(p) = 0
    BY TotalNone DEF BoughtOf, Init, InvInit, NoReceipt
  <2> QED BY <2>1, <2>2, <2>3, <2>4
<1>2. QuantityConserved /\ ClaimsInv /\ ClaimsInv' /\ [Next]_vars => QuantityConserved'
  <2> SUFFICES ASSUME QuantityConserved, ClaimsInv, ClaimsInv', [Next]_vars, NEW p \in Products
               PROVE  OnShelves(p)' + UnderWay(p)' + SoldOf(p)' = BoughtOf(p)'
    BY Zenon DEF QuantityConserved
  <2>1. TypeOK /\ TypeOK'
    BY DEF ClaimsInv
  <2>2. Balanced(p)
    BY <2>1, TotalsAreNatural DEF QuantityConserved, Balanced
  <2>3. CASE UNCHANGED <<stock, transfer, sale, receipt>>
    BY <2>2, <2>3 DEF Balanced, OnShelves, UnderWay, SoldOf, BoughtOf
  <2>4. CASE InvNext /\ UNCHANGED <<override, trVars, sale>>
    <3>1. \/ UNCHANGED <<stock, receipt>>
          \/ \E r \in ReceiptIds, k \in ReceiptKeys \cup {NoKey}, x \in Products,
                b \in Branches, m \in Amounts : QuickAddQuantity(r, k, x, b, m)
      BY <2>4, Zenon DEF InvNext, QuickAddUnit, MarkFaulty
    <3>2. UNCHANGED <<transfer, sale>>
      BY <2>4 DEF trVars
    <3> QED BY <2>1, <2>2, <2>3, <3>1, <3>2, BalancedReceipt
  <2>5. CASE SalesNext /\ UNCHANGED <<override, trVars>>
    <3>1. UNCHANGED <<transfer, receipt>>
      BY <2>5 DEF trVars, SalesNext, CreateSale
    <3> QED BY <2>1, <2>2, <2>5, <3>1, BalancedSale
  <2>6. CASE (PricingNext /\ UNCHANGED <<trVars, sale>>) \/ UNCHANGED vars
    <3>1. UNCHANGED <<stock, transfer, sale, receipt>>
      BY <2>6 DEF PricingNext, SetUnitOverride, RemoveUnitOverride, invVars, trVars, vars
    <3> QED BY <2>3, <3>1
  <2>7. CASE TransfersNext /\ UNCHANGED sale
    <3>1. UNCHANGED <<sale, receipt>>
      BY <2>7, TransfersLeaveReceipts
    <3>2. ASSUME NEW t \in TransferIds, NEW k \in TransferKeys, NEW q \in Requests,
                 ReplayCreate(t, k, q)
          PROVE  UNCHANGED <<stock, transfer>>
      BY <3>2 DEF ReplayCreate, invVars
    <3>3. ASSUME NEW t \in TransferIds,
                 \/ Approve(t) \/ Reject(t) \/ Cancel(t) \/ Ship(t)
                 \/ \E matched \in SUBSET Units : ReceiveConfirm(t, matched)
          PROVE  \E to \in TransferStatus : Decides(t, to)
      BY <3>3 DEF Decides, TransferStatus
    <3> QED BY <2>1, <2>2, <2>3, <2>7, <3>1, <3>2, <3>3, BalancedCreate, BalancedDecision
            DEF TransfersNext
  <2> QED BY <2>4, <2>5, <2>6, <2>7 DEF Next
<1> QED BY <1>1, <1>2, ClaimsInvariant, PTL DEF Spec
=============================================================================
