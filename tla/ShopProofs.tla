----------------------------- MODULE ShopProofs -----------------------------
(***************************************************************************)
(* Proofs about Shop: type correctness, the exclusivity of claims on units, *)
(* the implementation of Custody, the steps of units and transfers, unit    *)
(* prices, where a held unit stands and what a key stands for, for any sets *)
(* of branches, units, products, transfers, sales and keys.                 *)
(***************************************************************************)
EXTENDS Shop, TLAPS

-----------------------------------------------------------------------------
(* What the helpers of Inventory preserve. *)

(* An update of statuses keeps the units table well typed. *)
LEMMA WithStatusType ==
    ASSUME NEW rows \in [Units -> UnitRow], NEW us, NEW to \in UnitStatus
    PROVE  WithStatus(rows, us, to) \in [Units -> UnitRow]
BY Zenon DEF WithStatus, UnitRow

(* A write of well-typed rows keeps the table and its history well typed. *)
LEMMA WriteUnitsType ==
    ASSUME past \in [Units -> SUBSET UnitRow],
           NEW rows \in [Units -> UnitRow], WriteUnits(rows)
    PROVE  /\ unit' \in [Units -> UnitRow]
           /\ past' \in [Units -> SUBSET UnitRow]
BY Zenon DEF WriteUnits

(* The conditional statements on stock rows keep both counters natural. *)
LEMMA OnLinesTypes ==
    ASSUME NEW s \in Stock, NEW b \in Branches, NEW lines \in Lines
    PROVE  /\ OnLines(s, b, lines, ReserveQuantity) \in Stock
           /\ OnLines(s, b, lines, ReleaseQuantity) \in Stock
           /\ OnLines(s, b, lines, ReceiveQuantity) \in Stock
           /\ EveryLine(s, b, lines, Shippable) => OnLines(s, b, lines, ShipQuantity) \in Stock
           /\ EveryLine(s, b, lines, Takeable) => OnLines(s, b, lines, TakeQuantity) \in Stock
<1>1. OnLines(s, b, lines, ReserveQuantity) \in Stock
  BY DEF OnLines, ReserveQuantity, Stock, StockRow, Lines
<1>2. OnLines(s, b, lines, ReleaseQuantity) \in Stock
  BY DEF OnLines, ReleaseQuantity, Stock, StockRow, Lines
<1>3. OnLines(s, b, lines, ReceiveQuantity) \in Stock
  BY DEF OnLines, ReceiveQuantity, Stock, StockRow, Lines
<1>4. ASSUME EveryLine(s, b, lines, Shippable)
      PROVE  OnLines(s, b, lines, ShipQuantity) \in Stock
  <2>1. ASSUME NEW p \in Products, NEW c \in Branches
        PROVE  (IF c = b /\ lines[p] > 0 THEN ShipQuantity(s[p][c], lines[p]) ELSE s[p][c])
                  \in StockRow
    BY <1>4 DEF EveryLine, Shippable, ShipQuantity, Stock, StockRow, Lines
  <2> QED BY <2>1, Zenon DEF OnLines, Stock
<1>5. ASSUME EveryLine(s, b, lines, Takeable)
      PROVE  OnLines(s, b, lines, TakeQuantity) \in Stock
  BY <1>5 DEF OnLines, EveryLine, Takeable, TakeQuantity, Stock, StockRow, Lines
<1> QED BY <1>1, <1>2, <1>3, <1>4, <1>5, Zenon

(* The rows that stand for nothing are rows. *)
LEMMA EmptyRows ==
    /\ (CHOOSE b \in Branches : TRUE) \in Branches
    /\ NoRow \in TransferRow
    /\ NoReceipt \in [key: ReceiptKeys \cup {NoKey}, line: Lines]
    /\ NoSale \in [made: BOOLEAN, key: SaleKeys \cup {NoKey},
                   branch: Branches, units: SUBSET Units, lines: Lines]
<1>1. (CHOOSE b \in Branches : TRUE) \in Branches
  BY InventoryAssumption, Zenon DEF InventoryAssumption
<1>2. [p \in Products |-> 0] \in Lines
  BY Zenon DEF Lines
<1> QED BY <1>1, <1>2, Zenon DEF NoRow, TransferRow, NoReceipt, NoSale

(* What a transfer that does not exist looks like. *)
LEMMA NoRowFields ==
    NoRow.status = "none" /\ NoRow.units = {} /\ NoRow.arrived = {} /\ NoRow.version = 0
BY Zenon DEF NoRow

(* A decision taken by transitionTx leaves a well-typed row. *)
LEMMA TransitionType ==
    ASSUME TransfersTypeOK, NEW t \in TransferIds, NEW to \in TransferStatus,
           NEW change \in TransferRow, Transition(t, to, change)
    PROVE  /\ transfer' \in [TransferIds -> TransferRow]
           /\ seen' \in [TransferIds -> SUBSET [status: TransferStatus, version: Nat]]
<1>1. PICK load \in seen[t] :
         WriteTransfer(t, [change EXCEPT !.status = to, !.version = change.version + 1])
  BY Zenon DEF Transition
<1> DEFINE row == [change EXCEPT !.status = to, !.version = change.version + 1]
<1>2. change.version + 1 \in Nat
  BY DEF TransferRow
<1>3. row \in TransferRow /\ row.status \in TransferStatus /\ row.version \in Nat
  <2>1. \A v \in Nat :
           LET r == [change EXCEPT !.status = to, !.version = v]
           IN  r \in TransferRow /\ r.status = to /\ r.version = v
    BY Zenon DEF TransferRow
  <2> QED BY <1>2, <2>1, Zenon
<1> HIDE DEF row
<1> QED BY <1>1, <1>3 DEF WriteTransfer, TransfersTypeOK, row

-----------------------------------------------------------------------------
(* Type correctness, one lemma per component. *)

(* Receiving goods and marking a unit faulty keep the tables well typed. *)
LEMMA InvNextType ==
    ASSUME TypeOK, InvNext, UNCHANGED <<override, trVars, sale>>
    PROVE  TypeOK'
<1> USE DEF TypeOK
<1>1. InvTypeOK'
  <2>1. ASSUME NEW u \in Units, NEW b \in Branches, QuickAddUnit(u, b) PROVE InvTypeOK'
    <3>1. [unit EXCEPT ![u] = [status |-> "in_stock", branch |-> b]] \in [Units -> UnitRow]
      BY Zenon DEF InvTypeOK, UnitRow, UnitStatus
    <3> QED BY <2>1, <3>1, WriteUnitsType, Zenon DEF InvTypeOK, QuickAddUnit
  <2>2. ASSUME NEW u \in Units, MarkFaulty(u) PROVE InvTypeOK'
    <3>1. WithStatus(unit, {u}, "faulty") \in [Units -> UnitRow]
      BY WithStatusType, Zenon DEF InvTypeOK, UnitStatus
    <3> QED BY <2>2, <3>1, WriteUnitsType, Zenon DEF InvTypeOK, MarkFaulty
  <2>3. ASSUME NEW r \in ReceiptIds, NEW k \in ReceiptKeys \cup {NoKey}, NEW p \in Products,
               NEW b \in Branches, NEW n \in Amounts, QuickAddQuantity(r, k, p, b, n)
        PROVE  InvTypeOK'
    <3> DEFINE line == [q \in Products |-> IF q = p THEN n ELSE 0]
    <3>1. line \in Lines
      BY InventoryAssumption, Zenon DEF InventoryAssumption, Lines
    <3>2. receipt' = [receipt EXCEPT ![r] = [key |-> k, line |-> line]]
          /\ stock' = OnLines(stock, b, line, ReceiveQuantity) /\ UNCHANGED <<unit, past>>
      BY <2>3, Zenon DEF QuickAddQuantity
    <3> HIDE DEF line
    <3>3. stock' \in Stock
      BY <3>1, <3>2, OnLinesTypes, Zenon DEF InvTypeOK
    <3> QED BY <3>1, <3>2, <3>3, Zenon DEF InvTypeOK
  <2> QED BY <2>1, <2>2, <2>3, Zenon DEF InvNext
<1>2. UNCHANGED <<override, transfer, seen, answered, sale>>
  BY Zenon DEF trVars
<1> QED BY <1>1, <1>2, Zenon DEF PricingTypeOK, TransfersTypeOK, SalesTypeOK

(* Setting and removing the price of a unit keep the table well typed. *)
LEMMA PricingNextType ==
    ASSUME TypeOK, PricingNext, UNCHANGED <<trVars, sale>>
    PROVE  TypeOK'
<1> USE DEF TypeOK
<1>1. PICK u \in Units, b \in Branches : SetUnitOverride(u, b) \/ RemoveUnitOverride(u, b)
  BY Zenon DEF PricingNext
<1>2. UNCHANGED <<unit, past, stock, receipt, transfer, seen, answered, sale>>
  BY <1>1, Zenon DEF SetUnitOverride, RemoveUnitOverride, invVars, trVars
<1>3. PricingTypeOK'
  <2>1. CASE SetUnitOverride(u, b)
    <3>1. override[u].version < MaxPriceVersion => override[u].version + 1 \in 0..MaxPriceVersion
      BY PricingAssumption DEF PricingAssumption, PricingTypeOK
    <3> QED BY <2>1, <3>1, PricingAssumption
            DEF PricingAssumption, PricingTypeOK, SetUnitOverride
  <2>2. CASE RemoveUnitOverride(u, b)
    BY <2>2, PricingAssumption DEF PricingAssumption, PricingTypeOK, RemoveUnitOverride, NoOverride
  <2> QED BY <1>1, <2>1, <2>2, Zenon
<1> QED BY <1>2, <1>3, Zenon DEF InvTypeOK, TransfersTypeOK, SalesTypeOK

(* A sale keeps the tables well typed: it takes no more than there is. *)
LEMMA SalesNextType ==
    ASSUME TypeOK, SalesNext, UNCHANGED <<override, trVars>>
    PROVE  TypeOK'
<1> USE DEF TypeOK
<1>1. PICK i \in SaleIds, k \in SaleKeys \cup {NoKey}, c \in Carts : CreateSale(i, k, c)
  BY Zenon DEF SalesNext
<1>2. c.branch \in Branches /\ c.units \in SUBSET Units /\ c.lines \in Lines
  BY SalesAssumption, Zenon DEF SalesAssumption
<1>3. WithStatus(unit, c.units, "sold") \in [Units -> UnitRow]
  BY WithStatusType, Zenon DEF InvTypeOK, UnitStatus
<1>4. stock' \in Stock
  BY <1>1, <1>2, OnLinesTypes, Zenon DEF CreateSale, InvTypeOK
<1>5. InvTypeOK'
  BY <1>1, <1>3, <1>4, WriteUnitsType, Zenon DEF CreateSale, InvTypeOK
<1>6. SalesTypeOK'
  BY <1>1, <1>2, Zenon DEF CreateSale, SalesTypeOK
<1> QED BY <1>5, <1>6, Zenon DEF PricingTypeOK, TransfersTypeOK, trVars

(* The units and quantities of a row go back on the shelf: still well typed. *)
LEMMA ReleaseType ==
    ASSUME TypeOK, NEW t \in TransferIds, ReleaseReservations(t)
    PROVE  /\ unit' \in [Units -> UnitRow]
           /\ past' \in [Units -> SUBSET UnitRow]
           /\ stock' \in Stock
<1> DEFINE us == {u \in transfer[t].units : unit[u].status = "reserved"}
<1>1. WithStatus(unit, us, "in_stock") \in [Units -> UnitRow]
  BY WithStatusType, Zenon DEF TypeOK, InvTypeOK, UnitStatus
<1>2. transfer[t].from \in Branches /\ transfer[t].lines \in Lines
  BY Zenon DEF TypeOK, TransfersTypeOK, TransferRow
<1> QED BY <1>1, <1>2, WriteUnitsType, OnLinesTypes, Zenon DEF ReleaseReservations, TypeOK, InvTypeOK

(* Every operation on transfers keeps the tables well typed. *)
LEMMA TransfersNextType ==
    ASSUME TypeOK, TransfersNext, UNCHANGED sale
    PROVE  TypeOK'
<1> USE DEF TypeOK
<1>1. PICK t \in TransferIds :
        \/ \E k \in TransferKeys, q \in Requests :
              \/ \E selfApproves \in BOOLEAN : Create(t, k, q, selfApproves)
              \/ ReplayCreate(t, k, q)
        \/ Approve(t) \/ Reject(t) \/ Cancel(t) \/ Ship(t)
        \/ \E matched \in SUBSET Units : ReceiveConfirm(t, matched)
  BY Zenon DEF TransfersNext
<1>0. SalesTypeOK'
  BY Zenon DEF SalesTypeOK
<1>a. /\ transfer[t] \in TransferRow
      /\ transfer[t].from \in Branches /\ transfer[t].to \in Branches
      /\ transfer[t].units \in SUBSET Units /\ transfer[t].lines \in Lines
  BY Zenon DEF TransfersTypeOK, TransferRow
<1>2. ASSUME NEW k \in TransferKeys, NEW q \in Requests, NEW selfApproves \in BOOLEAN,
             Create(t, k, q, selfApproves)
      PROVE  TypeOK'
  <2>1. /\ q.from \in Branches /\ q.to \in Branches
        /\ q.units \in SUBSET Units /\ q.lines \in Lines
    BY TransfersAssumption, Zenon DEF TransfersAssumption
  <2>2. WithStatus(unit, q.units, "reserved") \in [Units -> UnitRow]
    BY WithStatusType, Zenon DEF InvTypeOK, UnitStatus
  <2>3. InvTypeOK'
    BY <1>2, <2>1, <2>2, WriteUnitsType, OnLinesTypes, Zenon DEF Create, InvTypeOK
  <2> DEFINE row == [status |-> IF selfApproves THEN "approved" ELSE "pending_approval",
                     version |-> 0, key |-> k, from |-> q.from, to |-> q.to,
                     units |-> q.units, lines |-> q.lines, costed |-> FALSE, arrived |-> {}]
  <2>4. row \in TransferRow /\ row.status \in TransferStatus /\ row.version \in Nat
    BY <2>1, Zenon DEF TransferRow, TransferStatus
  <2>5. WriteTransfer(t, row)
    BY <1>2, Zenon DEF Create
  <2> HIDE DEF row
  <2>6. TransfersTypeOK'
    <3>1. transfer' \in [TransferIds -> TransferRow]
      BY <2>4, <2>5, Zenon DEF WriteTransfer, TransfersTypeOK
    <3>2. seen' \in [TransferIds -> SUBSET [status: TransferStatus, version: Nat]]
      BY <2>4, <2>5 DEF WriteTransfer, TransfersTypeOK
    <3>3. answered' \in SUBSET Answers
      <4>1. answered' = answered \cup {[key |-> k, request |-> q, transfer |-> t]}
        BY <1>2, Zenon DEF Create
      <4> QED BY <4>1 DEF TransfersTypeOK, Answers
    <3> QED BY <3>1, <3>2, <3>3, Zenon DEF TransfersTypeOK
  <2> QED BY <1>0, <1>2, <2>3, <2>6, Zenon DEF Create, PricingTypeOK
<1>3. ASSUME NEW k \in TransferKeys, NEW q \in Requests, ReplayCreate(t, k, q) PROVE TypeOK'
  BY <1>0, <1>3 DEF ReplayCreate, invVars, InvTypeOK, PricingTypeOK, TransfersTypeOK, Answers
<1>4. CASE Approve(t)
  <2>1. transfer' \in [TransferIds -> TransferRow]
        /\ seen' \in [TransferIds -> SUBSET [status: TransferStatus, version: Nat]]
    BY <1>a, <1>4, TransitionType, Zenon DEF Approve, TransferStatus
  <2> QED BY <1>0, <1>4, <2>1, Zenon DEF Approve, invVars, InvTypeOK, PricingTypeOK, TransfersTypeOK
<1>5. CASE Reject(t) \/ Cancel(t)
  <2>1. transfer' \in [TransferIds -> TransferRow]
        /\ seen' \in [TransferIds -> SUBSET [status: TransferStatus, version: Nat]]
    BY <1>a, <1>5, TransitionType, Zenon DEF Reject, Cancel, TransferStatus
  <2> QED BY <1>0, <1>5, <2>1, ReleaseType, Zenon
          DEF Reject, Cancel, InvTypeOK, PricingTypeOK, TransfersTypeOK
<1>6. CASE Ship(t)
  <2>1. [transfer[t] EXCEPT !.costed = TRUE] \in TransferRow
    BY <1>a, Zenon DEF TransferRow
  <2>2. transfer' \in [TransferIds -> TransferRow]
        /\ seen' \in [TransferIds -> SUBSET [status: TransferStatus, version: Nat]]
    BY <1>6, <2>1, TransitionType, Zenon DEF Ship, TransferStatus
  <2>3. WithStatus(unit, transfer[t].units, "in_transit") \in [Units -> UnitRow]
    BY WithStatusType, Zenon DEF InvTypeOK, UnitStatus
  <2>4. InvTypeOK'
    BY <1>a, <1>6, <2>3, WriteUnitsType, OnLinesTypes, Zenon DEF Ship, InvTypeOK
  <2> QED BY <1>0, <1>6, <2>2, <2>4, Zenon DEF Ship, PricingTypeOK, TransfersTypeOK
<1>7. ASSUME NEW matched \in SUBSET Units, ReceiveConfirm(t, matched) PROVE TypeOK'
  <2> DEFINE moved == {u \in matched : unit[u].status = "in_transit"}
  <2> DEFINE rows == [u \in Units |-> IF u \in moved
                         THEN [status |-> "in_stock", branch |-> transfer[t].to] ELSE unit[u]]
  <2>1. rows \in [Units -> UnitRow]
    BY <1>a, Zenon DEF InvTypeOK, UnitRow, UnitStatus
  <2>2. [transfer[t] EXCEPT !.arrived = moved] \in TransferRow
    BY <1>a, Zenon DEF TransferRow
  <2>3. transfer' \in [TransferIds -> TransferRow]
        /\ seen' \in [TransferIds -> SUBSET [status: TransferStatus, version: Nat]]
    BY <1>7, <2>2, TransitionType, Zenon DEF ReceiveConfirm, TransferStatus
  <2>4. WriteUnits(rows) /\ stock' \in Stock /\ UNCHANGED receipt
    BY <1>a, <1>7, OnLinesTypes, Zenon DEF ReceiveConfirm, InvTypeOK
  <2>5. InvTypeOK'
    BY <2>1, <2>4, WriteUnitsType, Zenon DEF InvTypeOK
  <2>6. PricingTypeOK'
    BY <1>7, PricingAssumption
       DEF PricingAssumption, ReceiveConfirm, InvalidateOnBranchMove, PricingTypeOK, NoOverride
  <2> QED BY <1>0, <1>7, <2>3, <2>5, <2>6, Zenon DEF ReceiveConfirm, TransfersTypeOK
<1> QED BY <1>1, <1>2, <1>3, <1>4, <1>5, <1>6, <1>7, Zenon

(* The empty database is well typed. *)
LEMMA TypeCorrectInit == Init => TypeOK
<1> SUFFICES ASSUME Init PROVE TypeOK
  BY Zenon
<1>1. InvTypeOK
  BY EmptyRows DEF Init, InvInit, InvTypeOK, UnitRow, Stock, StockRow
<1>2. PricingTypeOK
  BY PricingAssumption DEF PricingAssumption, Init, PricingInit, PricingTypeOK, NoOverride
<1>3. TransfersTypeOK
  BY EmptyRows, Zenon DEF Init, TransfersInit, TransfersTypeOK
<1>4. SalesTypeOK
  BY EmptyRows, Zenon DEF Init, SalesInit, SalesTypeOK
<1> QED BY <1>1, <1>2, <1>3, <1>4, Zenon DEF TypeOK

(* Every step keeps the tables well typed. *)
LEMMA TypeCorrectNext == TypeOK /\ [Next]_vars => TypeOK'
<1> SUFFICES ASSUME TypeOK, [Next]_vars PROVE TypeOK'
  BY Zenon
<1>1. CASE UNCHANGED vars
  BY <1>1, Zenon DEF vars, invVars, trVars, TypeOK, InvTypeOK, PricingTypeOK,
              TransfersTypeOK, SalesTypeOK
<1> QED BY <1>1, InvNextType, PricingNextType, TransfersNextType, SalesNextType, Zenon DEF Next

(* Every reachable state is well typed. *)
THEOREM TypeCorrect == Spec => []TypeOK
BY TypeCorrectInit, TypeCorrectNext, PTL DEF Spec

-----------------------------------------------------------------------------
(* What the shared steps do, in the form the claim proofs use. *)

(* An update of statuses changes the status of the units named, no branch. *)
LEMMA StatusAfter ==
    ASSUME unit \in [Units -> UnitRow], NEW us, NEW to \in UnitStatus,
           WriteUnits(WithStatus(unit, us, to))
    PROVE  \A u \in Units : /\ unit'[u].status = IF u \in us THEN to ELSE unit[u].status
                            /\ unit'[u].branch = unit[u].branch
BY Zenon DEF WriteUnits, WithStatus, UnitRow

(* transitionTx moves one row from the status it really has: a load that    *)
(* has the row's version has the row's status.                              *)
LEMMA TransitionStep ==
    ASSUME TransfersTypeOK, SeenIsHistory, NEW t \in TransferIds,
           NEW to \in TransferStatus, NEW change \in TransferRow,
           change.version = transfer[t].version, Transition(t, to, change)
    PROVE  /\ CanTransferTransition(transfer[t].status, to)
           /\ transfer'[t].status = to
           /\ transfer'[t].version = transfer[t].version + 1
           /\ transfer'[t].units = change.units
           /\ transfer'[t].arrived = change.arrived
           /\ transfer'[t].from = change.from
           /\ transfer'[t].to = change.to
           /\ transfer'[t].key = change.key
           /\ transfer'[t].lines = change.lines
           /\ \A x \in TransferIds \ {t} : transfer'[x] = transfer[x] /\ seen'[x] = seen[x]
           /\ SeenIsHistory'
<1>1. PICK load \in seen[t] :
         /\ CanTransferTransition(load.status, to)
         /\ \E e \in 0..load.version : VersionIs(t, e)
         /\ WriteTransfer(t, [change EXCEPT !.status = to, !.version = change.version + 1])
  BY Zenon DEF Transition
<1>2. /\ load.version \in Nat /\ transfer[t].version \in Nat
      /\ transfer \in [TransferIds -> TransferRow]
      /\ seen \in [TransferIds -> SUBSET [status: TransferStatus, version: Nat]]
  BY <1>1 DEF TransfersTypeOK, TransferRow
<1>3. load.version = transfer[t].version
  BY <1>1, <1>2 DEF VersionIs, SeenIsHistory
<1>4. CanTransferTransition(transfer[t].status, to)
  BY <1>1, <1>3, Zenon DEF SeenIsHistory
<1> DEFINE row == [change EXCEPT !.status = to, !.version = change.version + 1]
<1>5. /\ row.status = to /\ row.version = transfer[t].version + 1
      /\ row.units = change.units /\ row.arrived = change.arrived
      /\ row.from = change.from /\ row.to = change.to
      /\ row.key = change.key /\ row.lines = change.lines
  BY Zenon DEF TransferRow
<1>6. WriteTransfer(t, row)
  BY <1>1, Zenon
<1> HIDE DEF row
<1>7. /\ transfer'[t] = row
      /\ \A x \in TransferIds \ {t} : transfer'[x] = transfer[x] /\ seen'[x] = seen[x]
  BY <1>2, <1>6, Zenon DEF WriteTransfer
<1>8. SeenIsHistory'
  <2> SUFFICES ASSUME NEW x \in TransferIds, NEW l \in seen'[x]
               PROVE  /\ l.version <= transfer'[x].version
                      /\ l.version = transfer'[x].version => l.status = transfer'[x].status
    BY Zenon DEF SeenIsHistory
  <2>1. CASE x # t
    <3>1. seen'[x] = seen[x] /\ transfer'[x] = transfer[x]
      BY <1>2, <1>6, <1>7, <2>1, Zenon DEF WriteTransfer
    <3> QED BY <3>1, Zenon DEF SeenIsHistory
  <2>2. CASE x = t /\ l = [status |-> row.status, version |-> row.version]
    BY <1>2, <1>5, <1>7, <2>2
  <2>3. CASE x = t /\ l \in seen[t]
    <3>1. l.version \in Nat /\ l.version <= transfer[t].version
      BY <1>2, <2>3 DEF SeenIsHistory
    <3> QED BY <1>2, <1>5, <1>7, <2>3, <3>1
  <2> QED BY <1>2, <1>6, <2>1, <2>2, <2>3, Zenon DEF WriteTransfer
<1> QED BY <1>4, <1>5, <1>7, <1>8, Zenon

(* From where the table lets each decision start. *)
LEMMA DecidedFrom ==
    ASSUME NEW from
    PROVE  /\ CanTransferTransition(from, "received") => from = "in_transit"
           /\ CanTransferTransition(from, "in_transit") => from = "approved"
           /\ \A to \in {"approved", "rejected", "cancelled"} :
                 CanTransferTransition(from, to) => from \in ReservingStatuses
BY DEF CanTransferTransition, TransferTransitions, TransferStatus, ReservingStatuses

-----------------------------------------------------------------------------
(* Claims: who holds a unit, and what its status says. *)

Claims == OneClaimPerUnit /\ StatusMatchesClaims

(* What has to be shown of a unit after a step. *)
ClaimsOf(u) == OneClaim(u) /\ StatusIsTrue(u)

(* The claims on a unit are the same after a step as before it. *)
SameRow(t, u)  == (Promised(t, u)' <=> Promised(t, u)) /\ (Travelling(t, u)' <=> Travelling(t, u))
SameSale(i, u) == Bought(i, u)' <=> Bought(i, u)
SameClaims(u)  == (\A t \in TransferIds : SameRow(t, u)) /\ (\A i \in SaleIds : SameSale(i, u))

(* Unit by unit, both ways. *)
LEMMA ClaimsByUnit ==
    /\ Claims => \A u \in Units : ClaimsOf(u)
    /\ (\A u \in Units : ClaimsOf(u)') => Claims'
BY Zenon DEF Claims, ClaimsOf, OneClaimPerUnit, StatusMatchesClaims

(* A unit whose claims stay as they are may keep its status, be registered, *)
(* or become faulty.                                                        *)
LEMMA Untouched ==
    ASSUME NEW u \in Units, ClaimsOf(u), SameClaims(u),
           \/ unit'[u].status \in {unit[u].status, "faulty"}
           \/ unit'[u].status = "in_stock" /\ unit[u].status = "absent"
    PROVE  ClaimsOf(u)'
<1>1. OneClaim(u)'
  BY Zenon DEF ClaimsOf, SameClaims, SameRow, SameSale, OneClaim, Holds
<1>2. StatusIsTrue(u)'
  BY Zenon DEF ClaimsOf, SameClaims, SameRow, SameSale, StatusIsTrue
<1> QED BY <1>1, <1>2, Zenon DEF ClaimsOf

(* Nobody has a claim on a unit that is in stock. *)
LEMMA Unclaimed ==
    ASSUME NEW u \in Units, ClaimsOf(u), unit[u].status = "in_stock"
    PROVE  /\ \A t \in TransferIds : ~Promised(t, u) /\ ~Travelling(t, u)
           /\ \A i \in SaleIds : ~Bought(i, u)
BY Zenon DEF ClaimsOf, StatusIsTrue

(* Whoever holds a unit is alone. *)
LEMMA HeldAlone ==
    ASSUME NEW u \in Units, NEW t \in TransferIds, ClaimsOf(u), Holds(t, u)
    PROVE  /\ \A x \in TransferIds \ {t} : ~Promised(x, u) /\ ~Travelling(x, u)
           /\ \A i \in SaleIds : ~Bought(i, u)
BY Zenon DEF ClaimsOf, OneClaim, Holds

(* What the status of a transfer makes of its items, before and after a step. *)
LEMMA RowClaims ==
    ASSUME NEW t \in TransferIds, NEW u
    PROVE  /\ transfer[t].status \in ReservingStatuses =>
                 (Promised(t, u) <=> u \in transfer[t].units) /\ ~Travelling(t, u)
           /\ transfer[t].status \in {"in_transit", "received"} =>
                 ~Promised(t, u) /\ (Travelling(t, u) <=> u \in transfer[t].units \ transfer[t].arrived)
           /\ transfer[t].status \in {"none", "rejected", "cancelled"} =>
                 ~Promised(t, u) /\ ~Travelling(t, u)
BY Zenon DEF Promised, Travelling, Reserving, Shipped, ReservingStatuses

(* The same of the row a step leaves. *)
LEMMA RowClaimsNext ==
    ASSUME NEW t \in TransferIds, NEW u
    PROVE  /\ transfer'[t].status \in ReservingStatuses =>
                 (Promised(t, u)' <=> u \in transfer'[t].units) /\ ~Travelling(t, u)'
           /\ transfer'[t].status \in {"in_transit", "received"} =>
                 ~Promised(t, u)' /\ (Travelling(t, u)' <=> u \in transfer'[t].units \ transfer'[t].arrived)
           /\ transfer'[t].status \in {"none", "rejected", "cancelled"} =>
                 ~Promised(t, u)' /\ ~Travelling(t, u)'
BY Zenon DEF Promised, Travelling, Reserving, Shipped, ReservingStatuses

(* Rows that are not written keep their claims. *)
LEMMA SameRows ==
    ASSUME NEW u
    PROVE  /\ \A t \in TransferIds : transfer'[t] = transfer[t] => SameRow(t, u)
           /\ \A i \in SaleIds : sale'[i] = sale[i] => SameSale(i, u)
BY Zenon DEF SameRow, SameSale, Promised, Travelling, Reserving, Shipped, Bought

(* A step that leaves transfers and sales alone and only registers units or *)
(* makes them faulty leaves the claims in order.                            *)
LEMMA ClaimsUnitsOnly ==
    ASSUME Claims, UNCHANGED <<transfer, sale>>,
           \A v \in Units : \/ unit'[v].status \in {unit[v].status, "faulty"}
                            \/ unit'[v].status = "in_stock" /\ unit[v].status = "absent"
    PROVE  Claims'
<1>1. ASSUME NEW u \in Units PROVE ClaimsOf(u)'
  <2>1. ClaimsOf(u)
    BY ClaimsByUnit, Zenon
  <2>2. SameClaims(u)
    BY SameRows, Zenon DEF SameClaims
  <2> QED BY <2>1, <2>2, Untouched, Zenon
<1> QED BY <1>1, ClaimsByUnit, Zenon

(* Registering a unit, counting stock in and markFaulty make no claim and   *)
(* break none: faulty is the status every claim allows for.                 *)
LEMMA ClaimsInventory ==
    ASSUME TypeOK, Claims, InvNext, UNCHANGED <<override, trVars, sale>>
    PROVE  Claims'
<1>1. \A v \in Units : \/ unit'[v].status \in {unit[v].status, "faulty"}
                       \/ unit'[v].status = "in_stock" /\ unit[v].status = "absent"
  <2>1. ASSUME NEW u \in Units, NEW b \in Branches, QuickAddUnit(u, b),
               NEW v \in Units
        PROVE  \/ unit'[v].status = unit[v].status
               \/ unit'[v].status = "in_stock" /\ unit[v].status = "absent"
    BY <2>1, Zenon DEF QuickAddUnit, WriteUnits, TypeOK, InvTypeOK
  <2>2. ASSUME NEW u \in Units, MarkFaulty(u), NEW v \in Units
        PROVE  unit'[v].status \in {unit[v].status, "faulty"}
    <3>1. WriteUnits(WithStatus(unit, {u}, "faulty"))
      BY <2>2, Zenon DEF MarkFaulty
    <3>2. unit \in [Units -> UnitRow] /\ "faulty" \in UnitStatus
      BY Zenon DEF TypeOK, InvTypeOK, UnitStatus
    <3> QED BY <3>1, <3>2, StatusAfter
  <2>3. ASSUME NEW r \in ReceiptIds, NEW k \in ReceiptKeys \cup {NoKey}, NEW p \in Products,
               NEW b \in Branches, NEW n \in Amounts, QuickAddQuantity(r, k, p, b, n)
        PROVE  unit' = unit
    BY <2>3, Zenon DEF QuickAddQuantity
  <2> QED BY <2>1, <2>2, <2>3, Zenon DEF InvNext
<1> QED BY <1>1, ClaimsUnitsOnly, Zenon DEF trVars

(* A sale claims units that are in stock, hence claimed by nobody. *)
LEMMA ClaimsSale ==
    ASSUME TypeOK, RowsWellFormed, Claims, SalesNext, UNCHANGED <<override, trVars>>
    PROVE  Claims'
<1>1. PICK i \in SaleIds, k \in SaleKeys \cup {NoKey}, c \in Carts : CreateSale(i, k, c)
  BY Zenon DEF SalesNext
<1>2. \A u \in c.units : unit[u].status = "in_stock"
  BY <1>1, Zenon DEF CreateSale, StillInStock
<1>3. \A u \in Units : unit'[u].status = IF u \in c.units THEN "sold" ELSE unit[u].status
  <2>1. WriteUnits(WithStatus(unit, c.units, "sold"))
    BY <1>1, Zenon DEF CreateSale
  <2>2. unit \in [Units -> UnitRow] /\ "sold" \in UnitStatus
    BY Zenon DEF TypeOK, InvTypeOK, UnitStatus
  <2> QED BY <2>1, <2>2, StatusAfter
<1>4. sale'[i].units = c.units /\ \A j \in SaleIds \ {i} : sale'[j] = sale[j]
  BY <1>1, Zenon DEF CreateSale, TypeOK, SalesTypeOK
<1>5. sale[i].units = {}
  <2>1. sale[i] = NoSale
    BY <1>1, Zenon DEF RowsWellFormed, CreateSale
  <2> QED BY <2>1 DEF NoSale
<1>6. transfer' = transfer
  BY Zenon DEF trVars
<1>7. ASSUME NEW u \in Units PROVE ClaimsOf(u)'
  <2>1. ClaimsOf(u)
    BY ClaimsByUnit, Zenon
  <2>2. /\ \A t \in TransferIds : SameRow(t, u)
        /\ \A j \in SaleIds \ {i} : SameSale(j, u)
    BY <1>4, <1>6, SameRows, Zenon
  <2>3. (Bought(i, u)' <=> u \in c.units) /\ ~Bought(i, u)
    BY <1>4, <1>5, Zenon DEF Bought
  <2>4. CASE u \in c.units
    <3>1. /\ \A t \in TransferIds : ~Promised(t, u)' /\ ~Travelling(t, u)'
          /\ \A j \in SaleIds \ {i} : ~Bought(j, u)'
          /\ Bought(i, u)'
      BY <1>2, <2>1, <2>2, <2>3, <2>4, Unclaimed, Zenon DEF SameRow, SameSale
    <3>2. unit'[u].status = "sold"
      BY <1>3, <2>4, Zenon
    <3> QED BY <3>1, <3>2, Zenon DEF ClaimsOf, OneClaim, StatusIsTrue, Holds
  <2>5. CASE u \notin c.units
    <3>1. SameClaims(u)
      BY <2>2, <2>3, <2>5, Zenon DEF SameClaims, SameSale
    <3>2. unit'[u].status = unit[u].status
      BY <1>3, <2>5, Zenon
    <3> QED BY <2>1, <3>1, <3>2, Untouched, Zenon
  <2> QED BY <2>4, <2>5, Zenon
<1> QED BY <1>7, ClaimsByUnit, Zenon

(* A request reserves units that are in stock, hence claimed by nobody. *)
LEMMA ClaimsCreate ==
    ASSUME TypeOK, RowsWellFormed, Claims, NEW t \in TransferIds, NEW k, NEW q \in Requests,
           NEW selfApproves \in BOOLEAN, Create(t, k, q, selfApproves), UNCHANGED sale
    PROVE  Claims'
<1> DEFINE row == [status |-> IF selfApproves THEN "approved" ELSE "pending_approval",
                   version |-> 0, key |-> k, from |-> q.from, to |-> q.to,
                   units |-> q.units, lines |-> q.lines, costed |-> FALSE, arrived |-> {}]
<1>1. /\ transfer[t] = NoRow /\ WriteTransfer(t, row)
      /\ \A u \in q.units : Claimable(u, q.from)
      /\ WriteUnits(WithStatus(unit, q.units, "reserved"))
  BY Zenon DEF Create
<1>2. row.status \in ReservingStatuses /\ row.units = q.units
  BY Zenon DEF ReservingStatuses
<1> HIDE DEF row
<1>3. \A u \in Units : unit'[u].status = IF u \in q.units THEN "reserved" ELSE unit[u].status
  <2>1. unit \in [Units -> UnitRow] /\ "reserved" \in UnitStatus
    BY Zenon DEF TypeOK, InvTypeOK, UnitStatus
  <2> QED BY <1>1, <2>1, StatusAfter
<1>4. transfer[t].status = "none"
  BY <1>1, NoRowFields, Zenon
<1>5. transfer'[t] = row /\ \A x \in TransferIds \ {t} : transfer'[x] = transfer[x]
  BY <1>1, Zenon DEF WriteTransfer, TypeOK, TransfersTypeOK
<1>6. ASSUME NEW u \in Units PROVE ClaimsOf(u)'
  <2>1. ClaimsOf(u)
    BY ClaimsByUnit, Zenon
  <2>2. /\ \A x \in TransferIds \ {t} : SameRow(x, u)
        /\ \A i \in SaleIds : SameSale(i, u)
    BY <1>5, SameRows, Zenon
  <2>3. ~Promised(t, u) /\ ~Travelling(t, u)
    BY <1>4, RowClaims, Zenon
  <2>4. (Promised(t, u)' <=> u \in q.units) /\ ~Travelling(t, u)'
    BY <1>2, <1>5, RowClaimsNext, Zenon
  <2>5. CASE u \in q.units
    <3>1. unit[u] = [status |-> "in_stock", branch |-> q.from]
      BY <1>1, <2>5, Zenon DEF Claimable
    <3>2. unit[u].status = "in_stock"
      BY ONLY <3>1
    <3>3. /\ \A x \in TransferIds \ {t} : ~Promised(x, u)' /\ ~Travelling(x, u)'
          /\ \A i \in SaleIds : ~Bought(i, u)'
          /\ Promised(t, u)'
      BY <2>1, <2>2, <2>4, <2>5, <3>2, Unclaimed, Zenon DEF SameRow, SameSale
    <3>4. unit'[u].status = "reserved"
      BY <1>3, <2>5, Zenon
    <3> QED BY <2>4, <3>3, <3>4, Zenon DEF ClaimsOf, OneClaim, StatusIsTrue, Holds
  <2>6. CASE u \notin q.units
    <3>1. SameClaims(u)
      BY <2>2, <2>3, <2>4, <2>6, Zenon DEF SameClaims, SameRow
    <3>2. unit'[u].status = unit[u].status
      BY <1>3, <2>6, Zenon
    <3> QED BY <2>1, <3>1, <3>2, Untouched, Zenon
  <2> QED BY <2>5, <2>6, Zenon
<1> QED BY <1>6, ClaimsByUnit, Zenon

(* A decision before shipment finds the row still reserving; the row after  *)
(* it has the same units and has delivered none.                            *)
LEMMA DecisionStep ==
    ASSUME TypeOK, SeenIsHistory, RowsWellFormed, NEW t \in TransferIds,
           NEW to \in {"approved", "rejected", "cancelled"}, Transition(t, to, transfer[t])
    PROVE  /\ transfer[t].status \in ReservingStatuses /\ transfer'[t].status = to
           /\ transfer'[t].units = transfer[t].units
           /\ transfer[t].arrived = {} /\ transfer'[t].arrived = {}
           /\ \A x \in TransferIds \ {t} : transfer'[x] = transfer[x] /\ seen'[x] = seen[x]
           /\ SeenIsHistory'
<1>1. transfer[t] \in TransferRow /\ to \in TransferStatus
  BY Zenon DEF TypeOK, TransfersTypeOK, TransferStatus
<1>2. /\ CanTransferTransition(transfer[t].status, to)
      /\ transfer'[t].status = to
      /\ transfer'[t].units = transfer[t].units
      /\ transfer'[t].arrived = transfer[t].arrived
      /\ \A x \in TransferIds \ {t} : transfer'[x] = transfer[x] /\ seen'[x] = seen[x]
      /\ SeenIsHistory'
  BY <1>1, TransitionStep, Zenon DEF TypeOK
<1>3. transfer[t].status \in ReservingStatuses
  BY <1>2, DecidedFrom, Zenon
<1>4. transfer[t].arrived = {}
  BY <1>3, Zenon DEF RowsWellFormed, Shipped, ReservingStatuses
<1> QED BY <1>2, <1>3, <1>4, Zenon

(* Approval leaves units and claims as they are. *)
LEMMA ClaimsApprove ==
    ASSUME TypeOK, SeenIsHistory, RowsWellFormed, Claims, NEW t \in TransferIds,
           Approve(t), UNCHANGED sale
    PROVE  Claims'
<1>1. Transition(t, "approved", transfer[t]) /\ unit' = unit
  BY Zenon DEF Approve, invVars
<1>2. /\ transfer[t].status \in ReservingStatuses /\ transfer'[t].status \in ReservingStatuses
      /\ transfer'[t].units = transfer[t].units
      /\ \A x \in TransferIds \ {t} : transfer'[x] = transfer[x]
  BY <1>1, DecisionStep, Zenon DEF ReservingStatuses
<1>3. ASSUME NEW u \in Units PROVE ClaimsOf(u)'
  <2>1. ClaimsOf(u)
    BY ClaimsByUnit, Zenon
  <2>2. SameRow(t, u)
    BY <1>2, RowClaims, RowClaimsNext, Zenon DEF SameRow
  <2>3. SameClaims(u)
    BY <1>2, <2>2, SameRows, Zenon DEF SameClaims
  <2> QED BY <1>1, <2>1, <2>3, Untouched, Zenon
<1> QED BY <1>3, ClaimsByUnit, Zenon

(* Rejection and cancellation free exactly the units of their transfer. *)
LEMMA ClaimsRelease ==
    ASSUME TypeOK, SeenIsHistory, RowsWellFormed, Claims, NEW t \in TransferIds,
           Reject(t) \/ Cancel(t), UNCHANGED sale
    PROVE  Claims'
<1> DEFINE us == {u \in transfer[t].units : unit[u].status = "reserved"}
<1>1. /\ WriteUnits(WithStatus(unit, us, "in_stock"))
      /\ \E to \in {"rejected", "cancelled"} : Transition(t, to, transfer[t])
  BY Zenon DEF Reject, Cancel, ReleaseReservations
<1>2. \A u \in Units : unit'[u].status = IF u \in us THEN "in_stock" ELSE unit[u].status
  <2>1. unit \in [Units -> UnitRow] /\ "in_stock" \in UnitStatus
    BY Zenon DEF TypeOK, InvTypeOK, UnitStatus
  <2> HIDE DEF us
  <2> QED BY <1>1, <2>1, StatusAfter, Zenon
<1>3. /\ transfer[t].status \in ReservingStatuses
      /\ transfer'[t].status \in {"rejected", "cancelled"}
      /\ \A x \in TransferIds \ {t} : transfer'[x] = transfer[x]
  <2>1. PICK to \in {"rejected", "cancelled"} : Transition(t, to, transfer[t])
    BY <1>1, Zenon
  <2> QED BY <2>1, DecisionStep, Zenon
<1>4. ASSUME NEW u \in Units PROVE ClaimsOf(u)'
  <2>1. ClaimsOf(u)
    BY ClaimsByUnit, Zenon
  <2>2. /\ \A x \in TransferIds \ {t} : SameRow(x, u)
        /\ \A i \in SaleIds : SameSale(i, u)
    BY <1>3, SameRows, Zenon
  <2>3. (Promised(t, u) <=> u \in transfer[t].units) /\ ~Travelling(t, u)
    BY <1>3, RowClaims, Zenon
  <2>4. ~Promised(t, u)' /\ ~Travelling(t, u)'
    BY <1>3, RowClaimsNext, Zenon
  <2>5. CASE u \in transfer[t].units
    <3>1. /\ \A x \in TransferIds : ~Promised(x, u)' /\ ~Travelling(x, u)'
          /\ \A i \in SaleIds : ~Bought(i, u)'
      BY <2>1, <2>2, <2>3, <2>4, <2>5, HeldAlone, Zenon DEF SameRow, SameSale, Holds
    <3>2. unit[u].status \in {"reserved", "faulty"}
      BY <2>1, <2>3, <2>5, Zenon DEF ClaimsOf, StatusIsTrue
    <3>3. unit'[u].status \in {"in_stock", "faulty"}
      BY <1>2, <2>5, <3>2, Zenon
    <3> QED BY <3>1, <3>3, Zenon DEF ClaimsOf, OneClaim, StatusIsTrue, Holds
  <2>6. CASE u \notin transfer[t].units
    <3>1. SameClaims(u)
      BY <2>2, <2>3, <2>4, <2>6, Zenon DEF SameClaims, SameRow
    <3>2. unit'[u].status = unit[u].status
      BY <1>2, <2>6, Zenon
    <3> QED BY <2>1, <3>1, <3>2, Untouched, Zenon
  <2> QED BY <2>5, <2>6, Zenon
<1> QED BY <1>4, ClaimsByUnit, Zenon

(* Shipment turns the promise on every unit into the shipment of it. *)
LEMMA ClaimsShip ==
    ASSUME TypeOK, SeenIsHistory, RowsWellFormed, Claims, NEW t \in TransferIds,
           Ship(t), UNCHANGED sale
    PROVE  Claims' /\ RowsWellFormed' /\ SeenIsHistory'
<1> DEFINE row == [transfer[t] EXCEPT !.costed = TRUE]
<1>1. /\ row \in TransferRow /\ row.version = transfer[t].version
      /\ row.units = transfer[t].units /\ row.arrived = transfer[t].arrived
  BY Zenon DEF TypeOK, TransfersTypeOK, TransferRow
<1>2. /\ Transition(t, "in_transit", row)
      /\ WriteUnits(WithStatus(unit, transfer[t].units, "in_transit"))
  BY Zenon DEF Ship
<1> HIDE DEF row
<1>3. /\ CanTransferTransition(transfer[t].status, "in_transit")
      /\ transfer'[t].status = "in_transit"
      /\ transfer'[t].units = transfer[t].units /\ transfer'[t].arrived = transfer[t].arrived
      /\ \A x \in TransferIds \ {t} : transfer'[x] = transfer[x] /\ seen'[x] = seen[x]
      /\ SeenIsHistory'
  <2>1. TransfersTypeOK /\ "in_transit" \in TransferStatus
    BY Zenon DEF TypeOK, TransferStatus
  <2> QED BY <1>1, <1>2, <2>1, TransitionStep, Zenon
<1>4. transfer[t].status = "approved"
  BY <1>3, DecidedFrom, Zenon
<1>5. transfer[t].arrived = {}
  BY <1>4, Zenon DEF RowsWellFormed
<1>6. \A u \in Units :
         unit'[u].status = IF u \in transfer[t].units THEN "in_transit" ELSE unit[u].status
  <2>1. unit \in [Units -> UnitRow] /\ "in_transit" \in UnitStatus
    BY Zenon DEF TypeOK, InvTypeOK, UnitStatus
  <2> DEFINE us == transfer[t].units
  <2>2. WriteUnits(WithStatus(unit, us, "in_transit"))
    BY <1>2, Zenon
  <2> HIDE DEF us
  <2>3. \A u \in Units : unit'[u].status = IF u \in us THEN "in_transit" ELSE unit[u].status
    BY <2>1, <2>2, StatusAfter, Zenon
  <2> QED BY <2>3, Zenon DEF us
<1>7. ASSUME NEW u \in Units PROVE ClaimsOf(u)'
  <2>1. ClaimsOf(u)
    BY ClaimsByUnit, Zenon
  <2>2. /\ \A x \in TransferIds \ {t} : SameRow(x, u)
        /\ \A i \in SaleIds : SameSale(i, u)
    BY <1>3, SameRows, Zenon
  <2>3. (Promised(t, u) <=> u \in transfer[t].units) /\ ~Travelling(t, u)
    BY <1>4, RowClaims, Zenon DEF ReservingStatuses
  <2>4. ~Promised(t, u)' /\ (Travelling(t, u)' <=> u \in transfer[t].units)
    BY <1>3, <1>5, RowClaimsNext, Zenon
  <2>5. CASE u \in transfer[t].units
    <3>1. /\ \A x \in TransferIds \ {t} : ~Promised(x, u)' /\ ~Travelling(x, u)'
          /\ \A i \in SaleIds : ~Bought(i, u)'
          /\ Travelling(t, u)'
      BY <2>1, <2>2, <2>3, <2>4, <2>5, HeldAlone, Zenon DEF SameRow, SameSale, Holds
    <3>2. unit'[u].status = "in_transit"
      BY <1>6, <2>5, Zenon
    <3> QED BY <2>4, <3>1, <3>2, Zenon DEF ClaimsOf, OneClaim, StatusIsTrue, Holds
  <2>6. CASE u \notin transfer[t].units
    <3>1. SameClaims(u)
      BY <2>2, <2>3, <2>4, <2>6, Zenon DEF SameClaims, SameRow
    <3>2. unit'[u].status = unit[u].status
      BY <1>6, <2>6, Zenon
    <3> QED BY <2>1, <3>1, <3>2, Untouched, Zenon
  <2> QED BY <2>5, <2>6, Zenon
<1>8. RowsWellFormed'
  BY <1>3, <1>5, Zenon DEF RowsWellFormed
<1> QED BY <1>3, <1>7, <1>8, ClaimsByUnit, Zenon

(* A receipt lets go of the units that arrived and of no others. *)
LEMMA ClaimsReceive ==
    ASSUME TypeOK, SeenIsHistory, RowsWellFormed, Claims, NEW t \in TransferIds,
           NEW matched \in SUBSET Units, ReceiveConfirm(t, matched), UNCHANGED sale
    PROVE  Claims' /\ RowsWellFormed' /\ SeenIsHistory'
<1> DEFINE moved == {u \in matched : unit[u].status = "in_transit"}
           row   == [transfer[t] EXCEPT !.arrived = moved]
<1>1. /\ row \in TransferRow /\ row.version = transfer[t].version
      /\ row.units = transfer[t].units /\ row.arrived = moved
  BY Zenon DEF TypeOK, TransfersTypeOK, TransferRow
<1>2. /\ Transition(t, "received", row)
      /\ matched \subseteq transfer[t].units
      /\ WriteUnits([u \in Units |-> IF u \in moved
                        THEN [status |-> "in_stock", branch |-> transfer[t].to]
                        ELSE unit[u]])
  BY Zenon DEF ReceiveConfirm
<1>3. moved \subseteq transfer[t].units
  BY <1>2, Zenon
<1> HIDE DEF moved, row
<1>4. /\ CanTransferTransition(transfer[t].status, "received")
      /\ transfer'[t].status = "received"
      /\ transfer'[t].units = transfer[t].units /\ transfer'[t].arrived = moved
      /\ \A x \in TransferIds \ {t} : transfer'[x] = transfer[x] /\ seen'[x] = seen[x]
      /\ SeenIsHistory'
  <2>1. TransfersTypeOK /\ "received" \in TransferStatus
    BY Zenon DEF TypeOK, TransferStatus
  <2> QED BY <1>1, <1>2, <2>1, TransitionStep, Zenon
<1>5. transfer[t].status = "in_transit"
  BY <1>4, DecidedFrom, Zenon
<1>6. transfer[t].arrived = {}
  BY <1>5, Zenon DEF RowsWellFormed
<1>7. \A u \in Units : unit'[u].status = IF u \in moved THEN "in_stock" ELSE unit[u].status
  BY <1>2, Zenon DEF WriteUnits
<1>8. ASSUME NEW u \in Units PROVE ClaimsOf(u)'
  <2>1. ClaimsOf(u)
    BY ClaimsByUnit, Zenon
  <2>2. /\ \A x \in TransferIds \ {t} : SameRow(x, u)
        /\ \A i \in SaleIds : SameSale(i, u)
    BY <1>4, SameRows, Zenon
  <2>3. ~Promised(t, u) /\ (Travelling(t, u) <=> u \in transfer[t].units)
    BY <1>5, <1>6, RowClaims, Zenon
  <2>4. ~Promised(t, u)' /\ (Travelling(t, u)' <=> u \in transfer[t].units \ moved)
    BY <1>4, RowClaimsNext, Zenon
  <2>5. CASE u \in moved
    <3>1. Holds(t, u)
      BY <1>3, <2>3, <2>5, Zenon DEF Holds
    <3>2. /\ \A x \in TransferIds : ~Promised(x, u)' /\ ~Travelling(x, u)'
          /\ \A i \in SaleIds : ~Bought(i, u)'
      BY <2>1, <2>2, <2>4, <2>5, <3>1, HeldAlone, Zenon DEF SameRow, SameSale
    <3>3. unit'[u].status = "in_stock"
      BY <1>7, <2>5, Zenon
    <3> QED BY <3>2, <3>3, Zenon DEF ClaimsOf, OneClaim, StatusIsTrue, Holds
  <2>6. CASE u \notin moved
    <3>1. SameClaims(u)
      BY <2>2, <2>3, <2>4, <2>6, Zenon DEF SameClaims, SameRow
    <3>2. unit'[u].status = unit[u].status
      BY <1>7, <2>6, Zenon
    <3> QED BY <2>1, <3>1, <3>2, Untouched, Zenon
  <2> QED BY <2>5, <2>6, Zenon
<1>9. RowsWellFormed'
  BY <1>4, Zenon DEF RowsWellFormed
<1> QED BY <1>4, <1>8, <1>9, ClaimsByUnit, Zenon

(* The history of a new row is the row itself. *)
LEMMA CreateHistory ==
    ASSUME TypeOK, SeenIsHistory, RowsWellFormed, NEW t \in TransferIds, NEW k, NEW q \in Requests,
           NEW selfApproves \in BOOLEAN, Create(t, k, q, selfApproves), UNCHANGED sale
    PROVE  SeenIsHistory' /\ RowsWellFormed'
<1> DEFINE row == [status |-> IF selfApproves THEN "approved" ELSE "pending_approval",
                   version |-> 0, key |-> k, from |-> q.from, to |-> q.to,
                   units |-> q.units, lines |-> q.lines, costed |-> FALSE, arrived |-> {}]
<1>1. WriteTransfer(t, row) /\ transfer[t] = NoRow
  BY Zenon DEF Create
<1>2. row.version = 0 /\ row.status \in ReservingStatuses /\ row.arrived = {}
  BY Zenon DEF ReservingStatuses
<1> HIDE DEF row
<1>3. seen[t] = {}
  BY <1>1, NoRowFields, Zenon DEF RowsWellFormed
<1>4. /\ transfer'[t] = row /\ seen'[t] = {[status |-> row.status, version |-> row.version]}
      /\ \A x \in TransferIds \ {t} : transfer'[x] = transfer[x] /\ seen'[x] = seen[x]
  BY <1>1, <1>3, Zenon DEF WriteTransfer, TypeOK, TransfersTypeOK
<1>5. SeenIsHistory'
  BY <1>2, <1>4 DEF SeenIsHistory
<1>6. RowsWellFormed'
  BY <1>2, <1>4, Zenon DEF RowsWellFormed, ReservingStatuses
<1> QED BY <1>5, <1>6, Zenon

(* A decision before shipment keeps the rows well formed. *)
LEMMA DecisionRows ==
    ASSUME TypeOK, SeenIsHistory, RowsWellFormed, NEW t \in TransferIds,
           NEW to \in {"approved", "rejected", "cancelled"},
           Transition(t, to, transfer[t]), UNCHANGED sale
    PROVE  SeenIsHistory' /\ RowsWellFormed'
<1>1. /\ transfer'[t].status = to /\ transfer'[t].arrived = {} /\ SeenIsHistory'
      /\ \A x \in TransferIds \ {t} : transfer'[x] = transfer[x] /\ seen'[x] = seen[x]
  BY DecisionStep, Zenon
<1>2. RowsWellFormed'
  BY <1>1, Zenon DEF RowsWellFormed
<1> QED BY <1>1, <1>2, Zenon

(* Every operation on transfers preserves the inductive invariant. *)
LEMMA ClaimsTransfers ==
    ASSUME TypeOK, SeenIsHistory, RowsWellFormed, Claims, TransfersNext, UNCHANGED sale
    PROVE  SeenIsHistory' /\ RowsWellFormed' /\ Claims'
<1>1. ASSUME NEW t \in TransferIds, NEW k \in TransferKeys, NEW q \in Requests,
             NEW selfApproves \in BOOLEAN, Create(t, k, q, selfApproves)
      PROVE  SeenIsHistory' /\ RowsWellFormed' /\ Claims'
  BY <1>1, ClaimsCreate, CreateHistory, Zenon
<1>2. ASSUME NEW t \in TransferIds, NEW k \in TransferKeys, NEW q \in Requests,
             ReplayCreate(t, k, q)
      PROVE  SeenIsHistory' /\ RowsWellFormed' /\ Claims'
  <2>1. UNCHANGED <<unit, transfer, seen, sale>>
    BY <1>2, Zenon DEF ReplayCreate, invVars
  <2>2. Claims'
    BY <2>1, ClaimsUnitsOnly, Zenon
  <2> QED BY <2>1, <2>2, Zenon DEF SeenIsHistory, RowsWellFormed
<1>3. ASSUME NEW t \in TransferIds, Approve(t)
      PROVE  SeenIsHistory' /\ RowsWellFormed' /\ Claims'
  BY <1>3, ClaimsApprove, DecisionRows, Zenon DEF Approve
<1>4. ASSUME NEW t \in TransferIds, Reject(t) \/ Cancel(t)
      PROVE  SeenIsHistory' /\ RowsWellFormed' /\ Claims'
  BY <1>4, ClaimsRelease, DecisionRows, Zenon DEF Reject, Cancel
<1>5. ASSUME NEW t \in TransferIds, Ship(t)
      PROVE  SeenIsHistory' /\ RowsWellFormed' /\ Claims'
  BY <1>5, ClaimsShip, Zenon
<1>6. ASSUME NEW t \in TransferIds, NEW matched \in SUBSET Units, ReceiveConfirm(t, matched)
      PROVE  SeenIsHistory' /\ RowsWellFormed' /\ Claims'
  BY <1>6, ClaimsReceive, Zenon
<1> QED BY <1>1, <1>2, <1>3, <1>4, <1>5, <1>6, Zenon DEF TransfersNext

(* The inductive invariant: types, the history of versions, the shape of    *)
(* rows, and the claims themselves.                                         *)
THEOREM ClaimsInvariant == Spec => []ClaimsInv
<1>1. Init => ClaimsInv
  <2> SUFFICES ASSUME Init PROVE SeenIsHistory /\ RowsWellFormed /\ Claims
    BY TypeCorrectInit, Zenon DEF ClaimsInv, Claims
  <2>1. /\ \A t \in TransferIds : transfer[t] = NoRow /\ seen[t] = {}
        /\ \A i \in SaleIds : sale[i] = NoSale
        /\ \A u \in Units : unit[u].status = "absent"
    BY Zenon DEF Init, InvInit, TransfersInit, SalesInit
  <2>2. NoRow.status = "none" /\ NoRow.arrived = {} /\ NoRow.units = {} /\ NoSale.units = {}
    BY Zenon DEF NoRow, NoSale
  <2>3. \A t \in TransferIds, u \in Units : ~Promised(t, u) /\ ~Travelling(t, u)
    BY <2>1, <2>2, RowClaims, Zenon
  <2>4. SeenIsHistory /\ RowsWellFormed
    BY <2>1, <2>2, Zenon DEF SeenIsHistory, RowsWellFormed
  <2>5. OneClaimPerUnit /\ StatusMatchesClaims
    BY <2>1, <2>2, <2>3, Zenon DEF OneClaimPerUnit, OneClaim, StatusMatchesClaims, StatusIsTrue, Holds, Bought
  <2> QED BY <2>4, <2>5, Zenon DEF Claims
<1>2. ClaimsInv /\ [Next]_vars => ClaimsInv'
  <2> SUFFICES ASSUME ClaimsInv, [Next]_vars PROVE SeenIsHistory' /\ RowsWellFormed' /\ Claims'
    BY TypeCorrectNext, Zenon DEF ClaimsInv, Claims
  <2> USE DEF ClaimsInv
  <2>0. Claims
    BY Zenon DEF Claims
  <2>1. ASSUME UNCHANGED <<transfer, seen, sale>> PROVE SeenIsHistory' /\ RowsWellFormed'
    BY <2>1, Zenon DEF SeenIsHistory, RowsWellFormed
  <2>2. CASE UNCHANGED vars
    <3>1. UNCHANGED <<unit, transfer, seen, sale>>
      BY <2>2, Zenon DEF vars, invVars, trVars
    <3> QED BY <2>0, <2>1, <3>1, ClaimsUnitsOnly, Zenon
  <2>3. CASE InvNext /\ UNCHANGED <<override, trVars, sale>>
    BY <2>0, <2>1, <2>3, ClaimsInventory, Zenon DEF trVars
  <2>4. CASE PricingNext /\ UNCHANGED <<trVars, sale>>
    <3>1. UNCHANGED <<unit, transfer, seen, sale>>
      BY <2>4, Zenon DEF PricingNext, SetUnitOverride, RemoveUnitOverride, invVars, trVars
    <3> QED BY <2>0, <2>1, <3>1, ClaimsUnitsOnly, Zenon
  <2>5. CASE TransfersNext /\ UNCHANGED sale
    BY <2>0, <2>5, ClaimsTransfers, Zenon
  <2>6. CASE SalesNext /\ UNCHANGED <<override, trVars>>
    <3>1. UNCHANGED <<transfer, seen>>
      BY <2>6, Zenon DEF trVars
    <3>2. \A i \in SaleIds : ~sale'[i].made => sale'[i] = NoSale
      <4>1. PICK i \in SaleIds, k \in SaleKeys \cup {NoKey}, c \in Carts : CreateSale(i, k, c)
        BY <2>6, Zenon DEF SalesNext
      <4>2. sale'[i].made /\ \A j \in SaleIds \ {i} : sale'[j] = sale[j]
        BY <4>1, Zenon DEF CreateSale, TypeOK, SalesTypeOK
      <4> QED BY <4>2, Zenon DEF RowsWellFormed
    <3>3. SeenIsHistory' /\ RowsWellFormed'
      BY <3>1, <3>2, Zenon DEF SeenIsHistory, RowsWellFormed
    <3> QED BY <2>0, <2>6, <3>3, ClaimsSale, Zenon
  <2> QED BY <2>2, <2>3, <2>4, <2>5, <2>6, Zenon DEF Next
<1> QED BY <1>1, <1>2, PTL DEF Spec

(* For any number of branches, units, transfers, sales and requests in      *)
(* flight, a phone is never claimed twice: neither promised to two          *)
(* transfers, nor sold twice, nor sold while promised or under way.         *)
THEOREM UnitsClaimedOnce == Spec => []OneClaimPerUnit
<1>1. ClaimsInv => OneClaimPerUnit
  BY Zenon DEF ClaimsInv
<1> QED BY <1>1, ClaimsInvariant, PTL

(* The status of a unit always tells the truth about the rows that claim it. *)
THEOREM StatusIsTruthful == Spec => []StatusMatchesClaims
<1>1. ClaimsInv => StatusMatchesClaims
  BY Zenon DEF ClaimsInv
<1> QED BY <1>1, ClaimsInvariant, PTL

-----------------------------------------------------------------------------
(* What one step may do to a transfer that exists. *)
LegalRowStep(t) ==
    transfer'[t] # transfer[t] /\ transfer[t] # NoRow =>
        /\ CanTransferTransition(transfer[t].status, transfer'[t].status)
        /\ transfer'[t].version = transfer[t].version + 1

(* transitionTx alone touches a transfer that exists, one per transaction. *)
LEMMA TransitionLegal ==
    ASSUME TypeOK, SeenIsHistory, NEW t \in TransferIds, NEW to \in TransferStatus,
           NEW change \in TransferRow, change.version = transfer[t].version,
           Transition(t, to, change)
    PROVE  \A x \in TransferIds : LegalRowStep(x)
<1>1. /\ CanTransferTransition(transfer[t].status, to) /\ transfer'[t].status = to
      /\ transfer'[t].version = transfer[t].version + 1
      /\ \A x \in TransferIds \ {t} : transfer'[x] = transfer[x]
  BY TransitionStep, Zenon DEF TypeOK
<1> QED BY <1>1, Zenon DEF LegalRowStep

(* Two people deciding on one transfer never both succeed, however old the  *)
(* rows they loaded: every change of a transfer follows the table from the  *)
(* status the row has, and takes one version.                               *)
THEOREM TransfersStepLegally == Spec => TransferStepsLegal
<1>1. ClaimsInv /\ [Next]_vars => [\A t \in TransferIds : LegalRowStep(t)]_vars
  <2> SUFFICES ASSUME ClaimsInv, Next PROVE \A t \in TransferIds : LegalRowStep(t)
    BY Zenon
  <2> USE DEF ClaimsInv
  <2>0. \A t \in TransferIds : transfer[t] \in TransferRow
    BY Zenon DEF TypeOK, TransfersTypeOK
  <2>1. CASE UNCHANGED transfer
    BY <2>1, Zenon DEF LegalRowStep
  <2>2. ASSUME NEW t \in TransferIds, NEW k \in TransferKeys, NEW q \in Requests,
               NEW selfApproves \in BOOLEAN, Create(t, k, q, selfApproves)
        PROVE  \A x \in TransferIds : LegalRowStep(x)
    <3>1. transfer[t] = NoRow /\ \E row : WriteTransfer(t, row)
      BY <2>2, Zenon DEF Create
    <3>2. \A x \in TransferIds \ {t} : transfer'[x] = transfer[x]
      BY <3>1, Zenon DEF WriteTransfer, TypeOK, TransfersTypeOK
    <3> QED BY <3>1, <3>2, Zenon DEF LegalRowStep
  <2>3. ASSUME NEW t \in TransferIds, Approve(t) \/ Reject(t) \/ Cancel(t)
        PROVE  \A x \in TransferIds : LegalRowStep(x)
    <3>1. \E to \in TransferStatus : Transition(t, to, transfer[t])
      BY <2>3, Zenon DEF Approve, Reject, Cancel, TransferStatus
    <3> QED BY <2>0, <3>1, TransitionLegal, Zenon
  <2>4. ASSUME NEW t \in TransferIds, Ship(t)
        PROVE  \A x \in TransferIds : LegalRowStep(x)
    <3> DEFINE row == [transfer[t] EXCEPT !.costed = TRUE]
    <3>1. row \in TransferRow /\ row.version = transfer[t].version
      BY <2>0, Zenon DEF TransferRow
    <3>2. Transition(t, "in_transit", row) /\ "in_transit" \in TransferStatus
      BY <2>4, Zenon DEF Ship, TransferStatus
    <3> HIDE DEF row
    <3> QED BY <3>1, <3>2, TransitionLegal, Zenon
  <2>5. ASSUME NEW t \in TransferIds, NEW matched \in SUBSET Units, ReceiveConfirm(t, matched)
        PROVE  \A x \in TransferIds : LegalRowStep(x)
    <3> DEFINE moved == {u \in matched : unit[u].status = "in_transit"}
               row   == [transfer[t] EXCEPT !.arrived = moved]
    <3>1. row \in TransferRow /\ row.version = transfer[t].version
      BY <2>0, Zenon DEF TransferRow
    <3>2. Transition(t, "received", row) /\ "received" \in TransferStatus
      BY <2>5, Zenon DEF ReceiveConfirm, TransferStatus
    <3> HIDE DEF row
    <3> QED BY <3>1, <3>2, TransitionLegal, Zenon
  <2>6. CASE TransfersNext
    <3>1. ASSUME NEW t \in TransferIds, NEW k \in TransferKeys, NEW q \in Requests,
                 ReplayCreate(t, k, q)
          PROVE  UNCHANGED transfer
      BY <3>1, Zenon DEF ReplayCreate
    <3> QED BY <2>1, <2>2, <2>3, <2>4, <2>5, <2>6, <3>1, Zenon DEF TransfersNext
  <2> QED BY <2>1, <2>6, Zenon DEF Next, trVars
<1>2. [\A t \in TransferIds : LegalRowStep(t)]_vars
      <=> [\A t \in TransferIds : transfer'[t] # transfer[t] /\ transfer[t] # NoRow =>
             /\ CanTransferTransition(transfer[t].status, transfer'[t].status)
             /\ transfer'[t].version = transfer[t].version + 1]_vars
  BY Zenon DEF LegalRowStep
<1> QED BY <1>1, <1>2, ClaimsInvariant, PTL DEF Spec, TransferStepsLegal

-----------------------------------------------------------------------------
(* What the decisions on a transfer leave of it. *)

(* A receipt finds its transfer in transit and moves the units that were    *)
(* matched and in transit.                                                  *)
LEMMA ReceiveStep ==
    ASSUME ClaimsInv, NEW t \in TransferIds, NEW matched \in SUBSET Units,
           ReceiveConfirm(t, matched)
    PROVE  LET moved == {u \in matched : unit[u].status = "in_transit"}
           IN  /\ transfer[t].status = "in_transit" /\ transfer'[t].status = "received"
               /\ transfer'[t].from = transfer[t].from /\ transfer'[t].to = transfer[t].to
               /\ transfer'[t].units = transfer[t].units /\ transfer'[t].lines = transfer[t].lines
               /\ transfer'[t].key = transfer[t].key
               /\ transfer[t].arrived = {} /\ transfer'[t].arrived = moved
               /\ moved \subseteq transfer[t].units
               /\ \A x \in TransferIds \ {t} : transfer'[x] = transfer[x]
<1> USE DEF ClaimsInv
<1> DEFINE moved == {u \in matched : unit[u].status = "in_transit"}
           row   == [transfer[t] EXCEPT !.arrived = moved]
<1>1. /\ row \in TransferRow /\ row.version = transfer[t].version
      /\ row.units = transfer[t].units /\ row.lines = transfer[t].lines
      /\ row.arrived = moved /\ row.to = transfer[t].to
      /\ row.from = transfer[t].from /\ row.key = transfer[t].key
  BY Zenon DEF TypeOK, TransfersTypeOK, TransferRow
<1>2. Transition(t, "received", row) /\ matched \subseteq transfer[t].units
  BY Zenon DEF ReceiveConfirm
<1>3. moved \subseteq transfer[t].units
  BY <1>2, Zenon
<1> HIDE DEF moved, row
<1>4. TransfersTypeOK /\ "received" \in TransferStatus
  BY Zenon DEF TypeOK, TransferStatus
<1>5. /\ CanTransferTransition(transfer[t].status, "received")
      /\ transfer'[t].status = "received"
      /\ transfer'[t].units = transfer[t].units /\ transfer'[t].lines = transfer[t].lines
      /\ transfer'[t].arrived = moved /\ transfer'[t].to = transfer[t].to
      /\ transfer'[t].from = transfer[t].from /\ transfer'[t].key = transfer[t].key
      /\ \A x \in TransferIds \ {t} : transfer'[x] = transfer[x]
  BY <1>1, <1>2, <1>4, TransitionStep, Zenon
<1>6. transfer[t].status = "in_transit" /\ transfer[t].arrived = {}
  BY <1>5, DecidedFrom, Zenon DEF RowsWellFormed
<1> QED BY <1>3, <1>5, <1>6, Zenon DEF moved

(* The decisions, by the status they lead to. *)
Decides(t, to) ==
    \/ to = "approved" /\ Approve(t)
    \/ to = "rejected" /\ Reject(t)
    \/ to = "cancelled" /\ Cancel(t)
    \/ to = "in_transit" /\ Ship(t)
    \/ to = "received" /\ \E matched \in SUBSET Units : ReceiveConfirm(t, matched)

(* What was asked for, where it leaves and where it goes never change, and  *)
(* one transaction decides on one transfer.                                 *)
LEMMA DecisionKeeps ==
    ASSUME ClaimsInv, NEW t \in TransferIds, NEW to, Decides(t, to)
    PROVE  /\ CanTransferTransition(transfer[t].status, to) /\ transfer'[t].status = to
           /\ transfer'[t].from = transfer[t].from /\ transfer'[t].to = transfer[t].to
           /\ transfer'[t].units = transfer[t].units /\ transfer'[t].lines = transfer[t].lines
           /\ transfer'[t].key = transfer[t].key /\ transfer[t].arrived = {}
           /\ \A x \in TransferIds \ {t} : transfer'[x] = transfer[x]
<1> USE DEF ClaimsInv
<1>1. /\ TransfersTypeOK /\ transfer[t] \in TransferRow
      /\ {"approved", "rejected", "cancelled", "in_transit", "received"} \subseteq TransferStatus
  BY Zenon DEF TypeOK, TransfersTypeOK, TransferStatus
<1>2. CASE \/ to = "approved" /\ Approve(t)
           \/ to = "rejected" /\ Reject(t)
           \/ to = "cancelled" /\ Cancel(t)
  <2>1. to \in {"approved", "rejected", "cancelled"} /\ Transition(t, to, transfer[t])
    BY <1>2, Zenon DEF Approve, Reject, Cancel
  <2>2. to \in TransferStatus
    BY <1>1, <2>1, Zenon
  <2>3. /\ CanTransferTransition(transfer[t].status, to) /\ transfer'[t].status = to
        /\ transfer'[t].from = transfer[t].from /\ transfer'[t].to = transfer[t].to
        /\ transfer'[t].units = transfer[t].units /\ transfer'[t].lines = transfer[t].lines
        /\ transfer'[t].key = transfer[t].key
        /\ \A x \in TransferIds \ {t} : transfer'[x] = transfer[x]
    BY <1>1, <2>1, <2>2, TransitionStep
  <2>4. transfer[t].arrived = {}
    BY <2>1, DecisionStep, Zenon
  <2> QED BY <2>3, <2>4, Zenon
<1>3. CASE to = "in_transit" /\ Ship(t)
  <2> DEFINE row == [transfer[t] EXCEPT !.costed = TRUE]
  <2>1. /\ row \in TransferRow /\ row.version = transfer[t].version
        /\ row.units = transfer[t].units /\ row.lines = transfer[t].lines
        /\ row.to = transfer[t].to /\ row.from = transfer[t].from /\ row.key = transfer[t].key
    <3>1. transfer[t] \in TransferRow
      BY <1>1, Zenon
    <3> QED BY <3>1, Zenon DEF TransferRow
  <2>2. Transition(t, "in_transit", row)
    BY <1>3, Zenon DEF Ship
  <2> HIDE DEF row
  <2>3. /\ CanTransferTransition(transfer[t].status, "in_transit")
        /\ transfer'[t].status = "in_transit"
        /\ transfer'[t].from = transfer[t].from /\ transfer'[t].to = transfer[t].to
        /\ transfer'[t].units = transfer[t].units /\ transfer'[t].lines = transfer[t].lines
        /\ transfer'[t].key = transfer[t].key
        /\ \A x \in TransferIds \ {t} : transfer'[x] = transfer[x]
    BY <1>1, <2>1, <2>2, TransitionStep
  <2>4. transfer[t].arrived = {}
    BY <2>3, DecidedFrom, Zenon DEF RowsWellFormed
  <2> QED BY <1>3, <2>3, <2>4, Zenon
<1>4. CASE to = "received" /\ \E matched \in SUBSET Units : ReceiveConfirm(t, matched)
  <2>1. CanTransferTransition("in_transit", "received")
    BY Zenon DEF CanTransferTransition, TransferTransitions, TransferStatus
  <2> QED BY <1>4, <2>1, ReceiveStep, Zenon
<1> QED BY <1>2, <1>3, <1>4, Zenon DEF Decides

(* What a step does to the transfers: nothing, a new row, or a decision. *)
LEMMA TransferSteps ==
    ASSUME [Next]_vars
    PROVE  \/ UNCHANGED <<transfer, answered>>
           \/ \E t \in TransferIds, k \in TransferKeys, q \in Requests :
                 \/ \E selfApproves \in BOOLEAN : Create(t, k, q, selfApproves)
                 \/ ReplayCreate(t, k, q)
           \/ (\E t \in TransferIds, to \in TransferStatus : Decides(t, to)) /\ UNCHANGED answered
<1>1. CASE TransfersNext
  <2>1. ASSUME NEW t \in TransferIds,
               \/ Approve(t) \/ Reject(t) \/ Cancel(t) \/ Ship(t)
               \/ \E matched \in SUBSET Units : ReceiveConfirm(t, matched)
        PROVE  (\E to \in TransferStatus : Decides(t, to)) /\ UNCHANGED answered
    <3>1. \E to \in TransferStatus : Decides(t, to)
      BY <2>1, Zenon DEF Decides, TransferStatus
    <3>2. UNCHANGED answered
      BY <2>1, Zenon DEF Approve, Reject, Cancel, Ship, ReceiveConfirm
    <3> QED BY <3>1, <3>2, Zenon
  <2> QED BY <1>1, <2>1, Zenon DEF TransfersNext
<1>2. CASE ~TransfersNext
  BY <1>2, Zenon DEF Next, vars, trVars
<1> QED BY <1>1, <1>2, Zenon

(* No operation on transfers writes a receipt. *)
LEMMA TransfersLeaveReceipts == TransfersNext => UNCHANGED receipt
<1>1. ASSUME NEW t, NEW k, NEW q, NEW selfApproves, Create(t, k, q, selfApproves)
      PROVE  UNCHANGED receipt
  BY <1>1, Zenon DEF Create
<1>2. ASSUME NEW t, NEW k, NEW q, ReplayCreate(t, k, q) PROVE UNCHANGED receipt
  BY <1>2, Zenon DEF ReplayCreate, invVars
<1>3. ASSUME NEW t, Approve(t) \/ Reject(t) \/ Cancel(t) \/ Ship(t) PROVE UNCHANGED receipt
  BY <1>3, Zenon DEF Approve, Reject, Cancel, Ship, invVars
<1>4. ASSUME NEW t, NEW matched, ReceiveConfirm(t, matched) PROVE UNCHANGED receipt
  BY <1>4, Zenon DEF ReceiveConfirm
<1> QED BY <1>1, <1>2, <1>3, <1>4, Zenon DEF TransfersNext


-----------------------------------------------------------------------------
(* Custody.  Under the inductive invariant every step of the shop is a move *)
(* of Custody on the phones its rows name, or leaves custody as it is;      *)
(* there is one lemma per kind of step.                                     *)

(* Custody is the same after a step as before it. *)
SameCustody == UNCHANGED <<Registered, PromisedTo, CarriedBy, SoldOn>>

(* The move of Custody a step of the shop has to be. *)
Moves == Hold!Next \/ SameCustody

(* Claims that stay as they are leave the three maps as they are. *)
LEMMA SameMaps ==
    /\ (\A u \in Units, t \in TransferIds : Promised(t, u)' <=> Promised(t, u))
         => PromisedTo' = PromisedTo
    /\ (\A u \in Units, t \in TransferIds : Travelling(t, u)' <=> Travelling(t, u))
         => CarriedBy' = CarriedBy
    /\ (\A u \in Units, i \in SaleIds : Bought(i, u)' <=> Bought(i, u)) => SoldOn' = SoldOn
BY Zenon DEF PromisedTo, CarriedBy, SoldOn

(* Phones that were registered and phones that were not stay so. *)
LEMMA SameRegister ==
    (\A u \in Units : unit'[u].status = "absent" <=> unit[u].status = "absent")
        => Registered' = Registered
BY Zenon DEF Registered

(* What the maps say of one phone. *)
LEMMA MapsAt ==
    ASSUME NEW u \in Units
    PROVE  /\ PromisedTo[u] = {t \in TransferIds : Promised(t, u)}
           /\ CarriedBy[u] = {t \in TransferIds : Travelling(t, u)}
           /\ SoldOn[u] = {i \in SaleIds : Bought(i, u)}
BY Zenon DEF PromisedTo, CarriedBy, SoldOn

(* A phone in stock is free. *)
LEMMA InStockIsFree ==
    ASSUME NEW u \in Units, ClaimsOf(u), unit[u].status = "in_stock"
    PROVE  Hold!Free(u)
<1>1. /\ \A t \in TransferIds : ~Promised(t, u) /\ ~Travelling(t, u)
      /\ \A i \in SaleIds : ~Bought(i, u)
  BY Unclaimed, Zenon
<1>2. PromisedTo[u] = {} /\ CarriedBy[u] = {} /\ SoldOn[u] = {}
  BY <1>1, MapsAt, Zenon
<1>3. u \in Registered
  BY Zenon DEF Registered
<1> QED BY <1>2, <1>3, Zenon DEF Hold!Free

(* The moves of Custody, one by one. *)
LEMMA OneOfTheMoves ==
    ASSUME NEW gs \in SUBSET Units
    PROVE  /\ Hold!Register(gs) => Hold!Next
           /\ \A t \in TransferIds : Hold!Promise(gs, t) => Hold!Next
           /\ \A t \in TransferIds : Hold!GiveBack(t) => Hold!Next
           /\ \A t \in TransferIds : Hold!Depart(t) => Hold!Next
           /\ \A t \in TransferIds : Hold!Arrive(gs, t) => Hold!Next
           /\ \A i \in SaleIds : Hold!Sell(gs, i) => Hold!Next
BY Zenon DEF Hold!Next

-----------------------------------------------------------------------------
(* Registering phones and marking them faulty makes no claim. *)
LEMMA InventoryMoves ==
    ASSUME TypeOK, InvNext, UNCHANGED <<transfer, sale>>
    PROVE  Moves
<1>1. \A u \in Units : unit[u].status # "absent" => unit'[u].status # "absent"
  <2>1. ASSUME NEW v \in Units, NEW b \in Branches, QuickAddUnit(v, b), NEW u \in Units
        PROVE  unit[u].status # "absent" => unit'[u].status # "absent"
    BY <2>1, Zenon DEF QuickAddUnit, WriteUnits, TypeOK, InvTypeOK
  <2>2. ASSUME NEW v \in Units, MarkFaulty(v), NEW u \in Units
        PROVE  unit[u].status # "absent" => unit'[u].status # "absent"
    <3>1. WriteUnits(WithStatus(unit, {v}, "faulty"))
      BY <2>2, Zenon DEF MarkFaulty
    <3>2. unit \in [Units -> UnitRow] /\ "faulty" \in UnitStatus
      BY Zenon DEF TypeOK, InvTypeOK, UnitStatus
    <3> QED BY <3>1, <3>2, StatusAfter
  <2>3. ASSUME NEW r \in ReceiptIds, NEW k \in ReceiptKeys \cup {NoKey}, NEW p \in Products,
               NEW b \in Branches, NEW n \in Amounts, QuickAddQuantity(r, k, p, b, n)
        PROVE  unit' = unit
    BY <2>3, Zenon DEF QuickAddQuantity
  <2> QED BY <2>1, <2>2, <2>3, Zenon DEF InvNext
<1>2. UNCHANGED <<PromisedTo, CarriedBy, SoldOn>>
  <2>1. \A u \in Units : SameClaims(u)
    BY SameRows, Zenon DEF SameClaims
  <2> QED BY <2>1, SameMaps, Zenon DEF SameClaims, SameRow, SameSale
<1>3. Registered' = Registered \cup {u \in Units : unit'[u].status # "absent"}
  BY <1>1, Zenon DEF Registered
<1> DEFINE gs == {u \in Units : unit'[u].status # "absent"}
<1>4. Hold!Register(gs)
  BY <1>2, <1>3, Zenon DEF Hold!Register
<1> QED BY <1>4, OneOfTheMoves, Zenon DEF Moves

(* A sale takes phones that are in stock, hence free. *)
LEMMA SaleMoves ==
    ASSUME TypeOK, RowsWellFormed, Claims, SalesNext, UNCHANGED transfer
    PROVE  Moves
<1>1. PICK i \in SaleIds, k \in SaleKeys \cup {NoKey}, c \in Carts : CreateSale(i, k, c)
  BY Zenon DEF SalesNext
<1>2. /\ c.units \subseteq Units
      /\ \A u \in c.units : unit[u].status = "in_stock"
  <2>1. c.units \subseteq Units
    BY SalesAssumption, Zenon
  <2>2. \A u \in c.units : unit[u].status = "in_stock"
    BY <1>1, Zenon DEF CreateSale, StillInStock
  <2> QED BY <2>1, <2>2, Zenon
<1>3. \A u \in Units : unit'[u].status = IF u \in c.units THEN "sold" ELSE unit[u].status
  <2>1. WriteUnits(WithStatus(unit, c.units, "sold"))
    BY <1>1, Zenon DEF CreateSale
  <2>2. unit \in [Units -> UnitRow] /\ "sold" \in UnitStatus
    BY Zenon DEF TypeOK, InvTypeOK, UnitStatus
  <2> QED BY <2>1, <2>2, StatusAfter
<1>4. sale'[i].units = c.units /\ \A j \in SaleIds \ {i} : sale'[j] = sale[j]
  BY <1>1, Zenon DEF CreateSale, TypeOK, SalesTypeOK
<1>5. sale[i].units = {}
  <2>1. sale[i] = NoSale
    BY <1>1, Zenon DEF RowsWellFormed, CreateSale
  <2> QED BY <2>1 DEF NoSale
<1>6. \A u \in c.units : Hold!Free(u)
  BY <1>2, ClaimsByUnit, InStockIsFree, Zenon
<1>7. UNCHANGED <<Registered, PromisedTo, CarriedBy>>
  <2>1. Registered' = Registered
    BY <1>2, <1>3, SameRegister, Zenon
  <2>2. \A u \in Units, t \in TransferIds : SameRow(t, u)
    BY SameRows, Zenon
  <2> QED BY <2>1, <2>2, SameMaps, Zenon DEF SameRow
<1>8. SoldOn' = [u \in Units |-> IF u \in c.units THEN {i} ELSE SoldOn[u]]
  <2>1. ASSUME NEW u \in Units, u \in c.units
        PROVE  {j \in SaleIds : u \in sale'[j].units} = {i}
    <3>1. SoldOn[u] = {}
      BY <1>6, <2>1, Zenon DEF Hold!Free
    <3>2. \A j \in SaleIds : ~Bought(j, u)
      BY <3>1, MapsAt, Zenon
    <3> QED BY <1>4, <2>1, <3>2, Zenon DEF Bought
  <2>2. ASSUME NEW u \in Units, u \notin c.units
        PROVE  {j \in SaleIds : u \in sale'[j].units} = SoldOn[u]
    BY <1>4, <1>5, <2>2, MapsAt, Zenon DEF Bought
  <2>3. SoldOn' = [u \in Units |-> {j \in SaleIds : u \in sale'[j].units}]
    BY Zenon DEF SoldOn, Bought
  <2> QED BY <2>1, <2>2, <2>3, Zenon
<1>9. Hold!Sell(c.units, i)
  BY <1>6, <1>7, <1>8, Zenon DEF Hold!Sell
<1> QED BY <1>2, <1>9, OneOfTheMoves, Zenon DEF Moves

-----------------------------------------------------------------------------
(* A row of transfers changes; the sales and the other rows stay. *)
OnlyRow(t) == sale' = sale /\ \A x \in TransferIds \ {t} : transfer'[x] = transfer[x]

LEMMA OtherRows ==
    ASSUME NEW t \in TransferIds, OnlyRow(t)
    PROVE  /\ SoldOn' = SoldOn
           /\ \A u \in Units : \A x \in TransferIds \ {t} :
                 (Promised(x, u)' <=> Promised(x, u)) /\ (Travelling(x, u)' <=> Travelling(x, u))
<1>1. \A u \in Units : /\ \A x \in TransferIds \ {t} : SameRow(x, u)
                       /\ \A i \in SaleIds : SameSale(i, u)
  BY SameRows, Zenon DEF OnlyRow
<1> QED BY <1>1, SameMaps, Zenon DEF SameRow, SameSale

(* The maps after a step, by the claims after it. *)
LEMMA MapsAfter ==
    /\ PromisedTo' = [u \in Units |-> {x \in TransferIds : Promised(x, u)'}]
    /\ CarriedBy' = [u \in Units |-> {x \in TransferIds : Travelling(x, u)'}]
BY Zenon DEF PromisedTo, CarriedBy

(* A request promises phones that are in stock, hence free. *)
LEMMA CreateMoves ==
    ASSUME TypeOK, RowsWellFormed, Claims, NEW t \in TransferIds, NEW k, NEW q \in Requests,
           NEW selfApproves \in BOOLEAN, Create(t, k, q, selfApproves), UNCHANGED sale
    PROVE  Moves
<1> DEFINE row == [status |-> IF selfApproves THEN "approved" ELSE "pending_approval",
                   version |-> 0, key |-> k, from |-> q.from, to |-> q.to,
                   units |-> q.units, lines |-> q.lines, costed |-> FALSE, arrived |-> {}]
<1>1. /\ transfer[t] = NoRow /\ WriteTransfer(t, row)
      /\ \A u \in q.units : unit[u] = [status |-> "in_stock", branch |-> q.from]
      /\ WriteUnits(WithStatus(unit, q.units, "reserved"))
  BY Zenon DEF Create, Claimable
<1>2. row.status \in ReservingStatuses /\ row.units = q.units
  BY Zenon DEF ReservingStatuses
<1> HIDE DEF row
<1>3. /\ q.units \subseteq Units
      /\ \A u \in q.units : unit[u].status = "in_stock"
  BY <1>1, TransfersAssumption
<1>4. \A u \in Units : unit'[u].status = IF u \in q.units THEN "reserved" ELSE unit[u].status
  <2>1. unit \in [Units -> UnitRow] /\ "reserved" \in UnitStatus
    BY Zenon DEF TypeOK, InvTypeOK, UnitStatus
  <2> QED BY <1>1, <2>1, StatusAfter
<1>5. transfer[t].status = "none"
  BY <1>1, NoRowFields, Zenon
<1>6. transfer'[t] = row /\ OnlyRow(t)
  BY <1>1, Zenon DEF WriteTransfer, TypeOK, TransfersTypeOK, OnlyRow
<1>7. \A u \in q.units : Hold!Free(u)
  BY <1>3, ClaimsByUnit, InStockIsFree, Zenon
<1>8. \A u \in Units : /\ ~Promised(t, u) /\ ~Travelling(t, u)
                       /\ Promised(t, u)' <=> u \in q.units
                       /\ ~Travelling(t, u)'
  BY <1>2, <1>5, <1>6, RowClaims, RowClaimsNext, Zenon
<1>9. UNCHANGED <<Registered, CarriedBy, SoldOn>>
  <2>1. Registered' = Registered
    BY <1>3, <1>4, SameRegister, Zenon
  <2>2. \A u \in Units, x \in TransferIds : Travelling(x, u)' <=> Travelling(x, u)
    BY <1>6, <1>8, OtherRows, Zenon
  <2> QED BY <1>6, <2>1, <2>2, OtherRows, SameMaps, Zenon
<1>10. PromisedTo' = [u \in Units |-> IF u \in q.units THEN {t} ELSE PromisedTo[u]]
  <2>1. ASSUME NEW u \in Units
        PROVE  {x \in TransferIds : Promised(x, u)'} = IF u \in q.units THEN {t} ELSE PromisedTo[u]
    <3>1. u \in q.units => PromisedTo[u] = {}
      BY <1>7, Zenon DEF Hold!Free
    <3>2. PromisedTo[u] = {x \in TransferIds : Promised(x, u)}
      BY MapsAt, Zenon
    <3>3. \A x \in TransferIds \ {t} : Promised(x, u)' <=> Promised(x, u)
      BY <1>6, OtherRows, Zenon
    <3> QED BY <1>8, <3>1, <3>2, <3>3, Zenon
  <2> QED BY <2>1, MapsAfter, Zenon
<1>11. Hold!Promise(q.units, t)
  BY <1>7, <1>9, <1>10, Zenon DEF Hold!Promise
<1> QED BY <1>3, <1>11, OneOfTheMoves, Zenon DEF Moves

(* Approval moves nothing. *)
LEMMA ApproveMoves ==
    ASSUME TypeOK, SeenIsHistory, RowsWellFormed, NEW t \in TransferIds,
           Approve(t), UNCHANGED sale
    PROVE  Moves
<1>1. Transition(t, "approved", transfer[t]) /\ unit' = unit
  BY Zenon DEF Approve, invVars
<1>2. /\ transfer[t].status \in ReservingStatuses /\ transfer'[t].status \in ReservingStatuses
      /\ transfer'[t].units = transfer[t].units
      /\ OnlyRow(t)
  BY <1>1, DecisionStep, Zenon DEF ReservingStatuses, OnlyRow
<1>3. \A u \in Units, x \in TransferIds : /\ Promised(x, u)' <=> Promised(x, u)
                                          /\ Travelling(x, u)' <=> Travelling(x, u)
  BY <1>2, RowClaims, RowClaimsNext, OtherRows, Zenon
<1>4. Registered' = Registered
  BY <1>1, SameRegister, Zenon
<1> QED BY <1>2, <1>3, <1>4, OtherRows, SameMaps, Zenon DEF Moves, SameCustody

(* Rejection and cancellation give back all that was promised. *)
LEMMA ReleaseMoves ==
    ASSUME TypeOK, SeenIsHistory, RowsWellFormed, NEW t \in TransferIds,
           Reject(t) \/ Cancel(t), UNCHANGED sale
    PROVE  Moves
<1> DEFINE us == {u \in transfer[t].units : unit[u].status = "reserved"}
<1>1. /\ WriteUnits(WithStatus(unit, us, "in_stock"))
      /\ \E to \in {"rejected", "cancelled"} : Transition(t, to, transfer[t])
  BY Zenon DEF Reject, Cancel, ReleaseReservations
<1>2. Registered' = Registered
  <2>1. unit \in [Units -> UnitRow] /\ "in_stock" \in UnitStatus
    BY Zenon DEF TypeOK, InvTypeOK, UnitStatus
  <2>2. \A u \in us : unit[u].status = "reserved"
    BY Zenon
  <2> HIDE DEF us
  <2>3. \A u \in Units : unit'[u].status = IF u \in us THEN "in_stock" ELSE unit[u].status
    BY <1>1, <2>1, StatusAfter
  <2> QED BY <2>2, <2>3, SameRegister, Zenon
<1>3. /\ transfer[t].status \in ReservingStatuses
      /\ transfer'[t].status \in {"rejected", "cancelled"}
      /\ OnlyRow(t)
  <2>1. PICK to \in {"rejected", "cancelled"} : Transition(t, to, transfer[t])
    BY <1>1, Zenon
  <2> QED BY <2>1, DecisionStep, Zenon DEF OnlyRow
<1>4. \A u \in Units : ~Promised(t, u)' /\ ~Travelling(t, u)' /\ ~Travelling(t, u)
  BY <1>3, RowClaims, RowClaimsNext, Zenon
<1>5. CarriedBy' = CarriedBy /\ SoldOn' = SoldOn
  BY <1>3, <1>4, OtherRows, SameMaps, Zenon
<1>6. PromisedTo' = [u \in Units |-> PromisedTo[u] \ {t}]
  <2>1. ASSUME NEW u \in Units
        PROVE  {x \in TransferIds : Promised(x, u)'} = PromisedTo[u] \ {t}
    BY <1>3, <1>4, OtherRows, MapsAt, Zenon
  <2> QED BY <2>1, MapsAfter, Zenon
<1>7. Hold!GiveBack(t)
  BY <1>2, <1>5, <1>6, Zenon DEF Hold!GiveBack
<1> QED BY <1>7, OneOfTheMoves, Zenon DEF Moves

(* A shipment departs with all that was promised. *)
LEMMA ShipMoves ==
    ASSUME TypeOK, SeenIsHistory, RowsWellFormed, Claims, NEW t \in TransferIds,
           Ship(t), UNCHANGED sale
    PROVE  Moves
<1> DEFINE row == [transfer[t] EXCEPT !.costed = TRUE]
           us == transfer[t].units
<1>1. /\ row \in TransferRow /\ row.version = transfer[t].version
      /\ row.units = us /\ row.arrived = transfer[t].arrived
  BY Zenon DEF TypeOK, TransfersTypeOK, TransferRow
<1>2. /\ Transition(t, "in_transit", row)
      /\ \A u \in us : unit[u].status = "reserved"
      /\ WriteUnits(WithStatus(unit, us, "in_transit"))
  BY Zenon DEF Ship, ShippableUnit
<1> HIDE DEF row
<1>3. /\ CanTransferTransition(transfer[t].status, "in_transit")
      /\ transfer'[t].status = "in_transit"
      /\ transfer'[t].units = us /\ transfer'[t].arrived = transfer[t].arrived
      /\ \A x \in TransferIds \ {t} : transfer'[x] = transfer[x]
  <2>1. TransfersTypeOK /\ "in_transit" \in TransferStatus
    BY Zenon DEF TypeOK, TransferStatus
  <2> QED BY <1>1, <1>2, <2>1, TransitionStep, Zenon
<1>4. transfer[t].status = "approved" /\ OnlyRow(t)
  BY <1>3, DecidedFrom, Zenon DEF OnlyRow
<1>5. transfer[t].arrived = {}
  BY <1>4, Zenon DEF RowsWellFormed
<1>6. \A u \in Units : /\ Promised(t, u) <=> u \in us
                       /\ ~Travelling(t, u) /\ ~Promised(t, u)'
                       /\ Travelling(t, u)' <=> u \in us
  BY <1>3, <1>4, <1>5, RowClaims, RowClaimsNext, Zenon DEF ReservingStatuses
<1> HIDE DEF us
<1>7. Registered' = Registered
  <2>1. unit \in [Units -> UnitRow] /\ "in_transit" \in UnitStatus
    BY Zenon DEF TypeOK, InvTypeOK, UnitStatus
  <2>2. \A u \in Units : unit'[u].status = IF u \in us THEN "in_transit" ELSE unit[u].status
    BY <1>2, <2>1, StatusAfter
  <2> QED BY <1>2, <2>2, SameRegister, Zenon
<1>8. PromisedTo' = [u \in Units |-> PromisedTo[u] \ {t}]
  <2>1. ASSUME NEW u \in Units
        PROVE  {x \in TransferIds : Promised(x, u)'} = PromisedTo[u] \ {t}
    BY <1>4, <1>6, OtherRows, MapsAt, Zenon
  <2> QED BY <2>1, MapsAfter, Zenon
<1>9. CarriedBy' = [u \in Units |-> IF t \in PromisedTo[u] THEN {t} ELSE CarriedBy[u]]
  <2>1. ASSUME NEW u \in Units
        PROVE  {x \in TransferIds : Travelling(x, u)'}
                  = IF t \in PromisedTo[u] THEN {t} ELSE CarriedBy[u]
    <3>1. t \in PromisedTo[u] <=> u \in us
      BY <1>6, MapsAt, Zenon
    <3>2. \A x \in TransferIds \ {t} : Travelling(x, u)' <=> Travelling(x, u)
      BY <1>4, OtherRows, Zenon
    <3>3. u \in us => \A x \in TransferIds \ {t} : ~Travelling(x, u)
      BY <1>6, ClaimsByUnit, HeldAlone, Zenon DEF Holds
    <3> QED BY <1>6, <3>1, <3>2, <3>3, MapsAt, Zenon
  <2> QED BY <2>1, MapsAfter, Zenon
<1>10. Hold!Depart(t)
  BY <1>4, <1>7, <1>8, <1>9, OtherRows, Zenon DEF Hold!Depart
<1> QED BY <1>10, OneOfTheMoves, Zenon DEF Moves

(* The phones that arrive are free at the end of their transfer's journey. *)
LEMMA ReceiveMoves ==
    ASSUME TypeOK, SeenIsHistory, RowsWellFormed, Claims, NEW t \in TransferIds,
           NEW matched \in SUBSET Units, ReceiveConfirm(t, matched), UNCHANGED sale
    PROVE  Moves
<1> DEFINE moved == {u \in matched : unit[u].status = "in_transit"}
           row   == [transfer[t] EXCEPT !.arrived = moved]
<1>1. /\ row \in TransferRow /\ row.version = transfer[t].version
      /\ row.units = transfer[t].units /\ row.arrived = moved
  BY Zenon DEF TypeOK, TransfersTypeOK, TransferRow
<1>2. /\ Transition(t, "received", row)
      /\ matched \subseteq transfer[t].units
      /\ WriteUnits([u \in Units |-> IF u \in moved
                        THEN [status |-> "in_stock", branch |-> transfer[t].to]
                        ELSE unit[u]])
  BY Zenon DEF ReceiveConfirm
<1>3. /\ moved \subseteq transfer[t].units /\ moved \subseteq Units
      /\ \A u \in moved : unit[u].status = "in_transit"
  BY <1>2, Zenon
<1> HIDE DEF moved, row
<1>4. /\ CanTransferTransition(transfer[t].status, "received")
      /\ transfer'[t].status = "received"
      /\ transfer'[t].units = transfer[t].units /\ transfer'[t].arrived = moved
      /\ \A x \in TransferIds \ {t} : transfer'[x] = transfer[x]
  <2>1. TransfersTypeOK /\ "received" \in TransferStatus
    BY Zenon DEF TypeOK, TransferStatus
  <2> QED BY <1>1, <1>2, <2>1, TransitionStep, Zenon
<1>5. transfer[t].status = "in_transit" /\ OnlyRow(t)
  BY <1>4, DecidedFrom, Zenon DEF OnlyRow
<1>6. transfer[t].arrived = {}
  BY <1>5, Zenon DEF RowsWellFormed
<1>7. \A u \in Units : /\ ~Promised(t, u) /\ ~Promised(t, u)'
                       /\ Travelling(t, u) <=> u \in transfer[t].units
                       /\ Travelling(t, u)' <=> u \in transfer[t].units \ moved
  BY <1>4, <1>5, <1>6, RowClaims, RowClaimsNext, Zenon
<1>8. Registered' = Registered
  <2>1. \A u \in Units : unit'[u].status = IF u \in moved THEN "in_stock" ELSE unit[u].status
    BY <1>2, Zenon DEF WriteUnits
  <2> QED BY <1>3, <2>1, SameRegister, Zenon
<1>9. \A u \in moved : CarriedBy[u] = {t}
  <2>1. ASSUME NEW u \in moved PROVE CarriedBy[u] = {t}
    <3>1. u \in Units /\ Travelling(t, u)
      BY <1>3, <1>7, <2>1, Zenon
    <3>2. \A x \in TransferIds \ {t} : ~Travelling(x, u)
      BY <3>1, ClaimsByUnit, HeldAlone, Zenon DEF Holds
    <3> QED BY <3>1, <3>2, MapsAt, Zenon
  <2> QED BY <2>1, Zenon
<1>10. CarriedBy' = [u \in Units |-> IF u \in moved THEN {} ELSE CarriedBy[u]]
  <2>1. ASSUME NEW u \in Units
        PROVE  {x \in TransferIds : Travelling(x, u)'} = IF u \in moved THEN {} ELSE CarriedBy[u]
    <3>1. CarriedBy[u] = {x \in TransferIds : Travelling(x, u)}
      BY MapsAt, Zenon
    <3>2. \A x \in TransferIds \ {t} : Travelling(x, u)' <=> Travelling(x, u)
      BY <1>5, OtherRows, Zenon
    <3>3. CASE u \in moved
      BY <1>7, <1>9, <3>1, <3>2, <3>3, Zenon
    <3>4. CASE u \notin moved
      BY <1>7, <3>1, <3>2, <3>4, Zenon
    <3> QED BY <3>3, <3>4, Zenon
  <2> QED BY <2>1, MapsAfter, Zenon
<1>11. PromisedTo' = PromisedTo
  BY <1>5, <1>7, OtherRows, SameMaps, Zenon
<1>12. Hold!Arrive(moved, t)
  BY <1>5, <1>8, <1>9, <1>10, <1>11, OtherRows, Zenon DEF Hold!Arrive
<1> QED BY <1>3, <1>12, OneOfTheMoves, Zenon DEF Moves

-----------------------------------------------------------------------------
(* Steps that touch neither phones nor claims. *)
LEMMA NothingMoves ==
    ASSUME UNCHANGED <<unit, transfer, sale>>
    PROVE  Moves
<1>1. \A u \in Units : SameClaims(u)
  BY SameRows, Zenon DEF SameClaims
<1>2. Registered' = Registered
  BY SameRegister, Zenon
<1> QED BY <1>1, <1>2, SameMaps, Zenon DEF SameClaims, SameRow, SameSale, Moves, SameCustody

(* Every operation on transfers is a move of Custody. *)
LEMMA TransfersMoves ==
    ASSUME TypeOK, SeenIsHistory, RowsWellFormed, Claims, TransfersNext, UNCHANGED sale
    PROVE  Moves
<1>1. PICK t \in TransferIds :
        \/ \E k \in TransferKeys, q \in Requests :
              \/ \E selfApproves \in BOOLEAN : Create(t, k, q, selfApproves)
              \/ ReplayCreate(t, k, q)
        \/ Approve(t)
        \/ Reject(t)
        \/ Cancel(t)
        \/ Ship(t)
        \/ \E matched \in SUBSET Units : ReceiveConfirm(t, matched)
  BY Zenon DEF TransfersNext
<1>2. CASE \E k \in TransferKeys, q \in Requests, selfApproves \in BOOLEAN :
              Create(t, k, q, selfApproves)
  BY <1>2, CreateMoves, Zenon
<1>3. CASE \E k \in TransferKeys, q \in Requests : ReplayCreate(t, k, q)
  BY <1>3, NothingMoves, Zenon DEF ReplayCreate, invVars
<1>4. CASE Approve(t)
  BY <1>4, ApproveMoves, Zenon
<1>5. CASE Reject(t) \/ Cancel(t)
  BY <1>5, ReleaseMoves, Zenon
<1>6. CASE Ship(t)
  BY <1>6, ShipMoves, Zenon
<1>7. CASE \E matched \in SUBSET Units : ReceiveConfirm(t, matched)
  BY <1>7, ReceiveMoves, Zenon
<1> QED BY <1>1, <1>2, <1>3, <1>4, <1>5, <1>6, <1>7, Zenon

(* For any sets of phones, branches, transfers and sales, and any number of *)
(* requests in flight, the shop implements Custody: only a free phone is    *)
(* promised or sold, a transfer departs with exactly what it was promised,  *)
(* gives back all of it or none, and what was sold stays sold.              *)
THEOREM ShopInCustody == Spec => InCustody
<1>1. Init => Hold!Init
  <2> SUFFICES ASSUME Init PROVE Hold!Init
    BY Zenon
  <2>1. /\ \A t \in TransferIds : transfer[t] = NoRow
        /\ \A i \in SaleIds : sale[i] = NoSale
        /\ \A u \in Units : unit[u].status = "absent"
    BY Zenon DEF Init, InvInit, TransfersInit, SalesInit
  <2>2. NoRow.status = "none" /\ NoSale.units = {}
    BY Zenon DEF NoRow, NoSale
  <2>3. \A t \in TransferIds, u \in Units : ~Promised(t, u) /\ ~Travelling(t, u)
    BY <2>1, <2>2, RowClaims, Zenon
  <2>4. \A i \in SaleIds, u \in Units : ~Bought(i, u)
    BY <2>1, <2>2, Zenon DEF Bought
  <2>5. Registered = {}
    BY <2>1, Zenon DEF Registered
  <2>6. PromisedTo = Hold!Nobody /\ CarriedBy = Hold!Nobody /\ SoldOn = Hold!Nobody
    BY <2>3, <2>4, Zenon DEF PromisedTo, CarriedBy, SoldOn, Hold!Nobody
  <2> QED BY <2>5, <2>6, Zenon DEF Hold!Init
<1>2. ClaimsInv /\ [Next]_vars => [Hold!Next]_(Hold!custody)
  <2> SUFFICES ASSUME ClaimsInv, [Next]_vars PROVE Moves
    BY Zenon DEF Moves, SameCustody, Hold!custody
  <2>1. TypeOK /\ SeenIsHistory /\ RowsWellFormed /\ Claims
    BY Zenon DEF ClaimsInv, Claims
  <2>2. CASE UNCHANGED vars
    BY <2>2, NothingMoves, Zenon DEF vars, invVars, trVars
  <2>3. CASE InvNext /\ UNCHANGED <<override, trVars, sale>>
    BY <2>1, <2>3, InventoryMoves, Zenon DEF trVars
  <2>4. CASE PricingNext /\ UNCHANGED <<trVars, sale>>
    <3>1. UNCHANGED <<unit, transfer, sale>>
      BY <2>4, Zenon DEF PricingNext, SetUnitOverride, RemoveUnitOverride, invVars, trVars
    <3> QED BY <3>1, NothingMoves, Zenon
  <2>5. CASE TransfersNext /\ UNCHANGED sale
    BY <2>1, <2>5, TransfersMoves, Zenon
  <2>6. CASE SalesNext /\ UNCHANGED <<override, trVars>>
    BY <2>1, <2>6, SaleMoves, Zenon DEF trVars
  <2> QED BY <2>2, <2>3, <2>4, <2>5, <2>6, Zenon DEF Next
<1> QED BY <1>1, <1>2, ClaimsInvariant, PTL DEF Spec, InCustody, Hold!Spec

-----------------------------------------------------------------------------
(* What a step may do to one unit. *)

Entered(u)  == unit[u].status = "absent" /\ unit'[u].status = "in_stock"
Restated(u) ==
    /\ unit'[u].branch = unit[u].branch
    /\ unit[u].status # "absent"
    /\ unit'[u].status = "faulty" \/ CanTransition(unit[u].status, unit'[u].status)
Arrived(u) ==
    /\ unit[u].status = "in_transit" /\ unit'[u].status = "in_stock"
    /\ override'[u] = NoOverride
    /\ \E t \in TransferIds : /\ Holds(t, u)
                              /\ transfer'[t].to = unit'[u].branch
                              /\ u \in transfer'[t].arrived
Move(u) == unit'[u] = unit[u] \/ Entered(u) \/ Restated(u) \/ Arrived(u)

(* The entries of the table that the statements on units rely on. *)
LEMMA UnitTable ==
    /\ CanTransition("in_stock", "reserved") /\ CanTransition("in_stock", "sold")
    /\ CanTransition("reserved", "in_stock") /\ CanTransition("reserved", "in_transit")
    /\ CanTransition("in_transit", "in_stock")
    /\ ~CanTransition("absent", "faulty")
    /\ \A s : ~CanTransition(s, "absent")
BY DEF CanTransition, UnitTransitions, UnitStatus

(* An update of the status of units that are where the table allows it. *)
LEMMA StatusMove ==
    ASSUME TypeOK, NEW us, NEW to \in UnitStatus, WriteUnits(WithStatus(unit, us, to)),
           \A u \in us : unit[u].status # "absent",
           \A u \in us : to = "faulty" \/ CanTransition(unit[u].status, to)
    PROVE  \A u \in Units : Move(u)
<1> SUFFICES ASSUME NEW u \in Units PROVE Move(u)
  BY Zenon
<1>1. unit'[u] = IF u \in us THEN [unit[u] EXCEPT !.status = to] ELSE unit[u]
  BY Zenon DEF WriteUnits, WithStatus
<1>2. /\ unit'[u].status = IF u \in us THEN to ELSE unit[u].status
      /\ unit'[u].branch = unit[u].branch
  BY StatusAfter, Zenon DEF TypeOK, InvTypeOK
<1> QED BY <1>1, <1>2, Zenon DEF Move, Restated

(* Receiving goods and marking them faulty. *)
LEMMA InventoryMove ==
    ASSUME PriceInv, InvNext
    PROVE  \A u \in Units : Move(u)
<1> USE DEF PriceInv
<1>1. ASSUME NEW v \in Units, NEW b \in Branches, QuickAddUnit(v, b)
      PROVE  \A u \in Units : Move(u)
  BY <1>1, Zenon DEF QuickAddUnit, WriteUnits, TypeOK, InvTypeOK, Move, Entered
<1>2. ASSUME NEW v \in Units, MarkFaulty(v)
      PROVE  \A u \in Units : Move(u)
  <2>1. unit[v].status # "absent"
    <3>1. PICK row \in past[v] : CanTransition(row.status, "faulty")
      BY <1>2, Zenon DEF MarkFaulty
    <3>2. row.status # "absent"
      BY <3>1, UnitTable, Zenon
    <3> QED BY <3>2, Zenon
  <2>2. WriteUnits(WithStatus(unit, {v}, "faulty")) /\ "faulty" \in UnitStatus
    BY <1>2, Zenon DEF MarkFaulty, UnitStatus
  <2> QED BY <2>1, <2>2, StatusMove
<1>3. ASSUME NEW r \in ReceiptIds, NEW k \in ReceiptKeys \cup {NoKey}, NEW p \in Products,
             NEW b \in Branches, NEW n \in Amounts, QuickAddQuantity(r, k, p, b, n)
      PROVE  \A u \in Units : Move(u)
  BY <1>3, Zenon DEF QuickAddQuantity, Move
<1> QED BY <1>1, <1>2, <1>3, Zenon DEF InvNext

(* A sale takes units off the shelf. *)
LEMMA SaleMove ==
    ASSUME TypeOK, SalesNext
    PROVE  \A u \in Units : Move(u)
<1>1. PICK i \in SaleIds, k \in SaleKeys \cup {NoKey}, c \in Carts : CreateSale(i, k, c)
  BY Zenon DEF SalesNext
<1>2. \A u \in c.units : unit[u].status = "in_stock"
  BY <1>1, Zenon DEF CreateSale, StillInStock
<1>3. WriteUnits(WithStatus(unit, c.units, "sold")) /\ "sold" \in UnitStatus
  BY <1>1, Zenon DEF CreateSale, UnitStatus
<1> DEFINE us == c.units
<1> HIDE DEF us
<1>4. /\ \A u \in us : unit[u].status = "in_stock"
      /\ WriteUnits(WithStatus(unit, us, "sold"))
  BY <1>2, <1>3, Zenon DEF us
<1> QED BY <1>3, <1>4, StatusMove, UnitTable, Zenon

(* A request reserves units that are on the shelf. *)
LEMMA CreateMove ==
    ASSUME TypeOK, NEW t \in TransferIds, NEW k, NEW q, NEW selfApproves,
           Create(t, k, q, selfApproves)
    PROVE  \A u \in Units : Move(u)
<1> DEFINE us == q.units
<1>1. /\ \A u \in us : unit[u] = [status |-> "in_stock", branch |-> q.from]
      /\ WriteUnits(WithStatus(unit, us, "reserved")) /\ "reserved" \in UnitStatus
  BY Zenon DEF Create, Claimable, UnitStatus
<1> HIDE DEF us
<1>2. \A u \in us : unit[u].status = "in_stock"
  BY <1>1
<1> QED BY <1>1, <1>2, StatusMove, UnitTable, Zenon

(* The decisions on a transfer, up to shipment. *)
LEMMA DecisionMove ==
    ASSUME TypeOK, NEW t \in TransferIds, Reject(t) \/ Cancel(t) \/ Ship(t)
    PROVE  \A u \in Units : Move(u)
<1>1. CASE Reject(t) \/ Cancel(t)
  <2> DEFINE us == {u \in transfer[t].units : unit[u].status = "reserved"}
  <2>1. WriteUnits(WithStatus(unit, us, "in_stock")) /\ "in_stock" \in UnitStatus
    BY <1>1, Zenon DEF Reject, Cancel, ReleaseReservations, UnitStatus
  <2>2. \A u \in us : unit[u].status = "reserved"
    BY Zenon
  <2> HIDE DEF us
  <2> QED BY <2>1, <2>2, StatusMove, UnitTable, Zenon
<1>2. CASE Ship(t)
  <2> DEFINE us == transfer[t].units
  <2>1. /\ \A u \in us : unit[u].status = "reserved"
        /\ WriteUnits(WithStatus(unit, us, "in_transit")) /\ "in_transit" \in UnitStatus
    BY <1>2, Zenon DEF Ship, ShippableUnit, UnitStatus
  <2> HIDE DEF us
  <2> QED BY <2>1, StatusMove, UnitTable, Zenon
<1> QED BY <1>1, <1>2, Zenon

(* A receipt moves the units that were matched and in transit. *)
LEMMA ReceiveMove ==
    ASSUME ClaimsInv, NEW t \in TransferIds, NEW matched \in SUBSET Units,
           ReceiveConfirm(t, matched)
    PROVE  \A u \in Units : Move(u)
<1> DEFINE moved == {u \in matched : unit[u].status = "in_transit"}
<1>1. /\ WriteUnits([u \in Units |-> IF u \in moved
                        THEN [status |-> "in_stock", branch |-> transfer[t].to]
                        ELSE unit[u]])
      /\ InvalidateOnBranchMove(moved)
  BY Zenon DEF ReceiveConfirm
<1>2. \A u \in moved : unit[u].status = "in_transit"
  BY Zenon
<1>3. /\ transfer[t].status = "in_transit" /\ transfer[t].arrived = {}
      /\ transfer'[t].to = transfer[t].to /\ transfer'[t].arrived = moved
      /\ moved \subseteq transfer[t].units
  BY ReceiveStep, Zenon
<1> HIDE DEF moved
<1>4. ASSUME NEW u \in Units PROVE Move(u)
  <2>1. CASE u \in moved
    <3>1. unit'[u] = [status |-> "in_stock", branch |-> transfer[t].to]
          /\ override'[u] = NoOverride
      BY <1>1, <2>1, Zenon DEF WriteUnits, InvalidateOnBranchMove
    <3>2. Holds(t, u)
      BY <1>3, <2>1, Zenon DEF Holds, Travelling, Shipped
    <3> QED BY <1>2, <1>3, <2>1, <3>1, <3>2 DEF Move, Arrived
  <2>2. CASE u \notin moved
    BY <1>1, <2>2, Zenon DEF WriteUnits, Move
  <2> QED BY <2>1, <2>2, Zenon
<1> QED BY <1>4, Zenon

(* Whatever step is taken, each unit stays, enters, follows the table where *)
(* it is, becomes faulty, or arrives with a transfer that held it.          *)
LEMMA EveryMove ==
    ASSUME ClaimsInv, PriceInv, [Next]_vars
    PROVE  \A u \in Units : Move(u)
<1> USE DEF ClaimsInv
<1>1. CASE unit' = unit
  BY <1>1, Zenon DEF Move
<1>2. CASE InvNext
  BY <1>2, InventoryMove, Zenon
<1>3. CASE SalesNext
  BY <1>3, SaleMove, Zenon
<1>4. CASE PricingNext \/ UNCHANGED vars
  <2>1. unit' = unit
    BY <1>4, Zenon DEF PricingNext, SetUnitOverride, RemoveUnitOverride, invVars, vars
  <2> QED BY <1>1, <2>1, Zenon
<1>5. CASE TransfersNext
  <2>1. ASSUME NEW t \in TransferIds, NEW k \in TransferKeys, NEW q \in Requests,
               NEW selfApproves \in BOOLEAN, Create(t, k, q, selfApproves)
        PROVE  \A u \in Units : Move(u)
    BY <2>1, CreateMove, Zenon
  <2>2. ASSUME NEW t \in TransferIds, NEW k \in TransferKeys, NEW q \in Requests,
               ReplayCreate(t, k, q)
        PROVE  unit' = unit
    BY <2>2, Zenon DEF ReplayCreate, invVars
  <2>3. ASSUME NEW t \in TransferIds, Approve(t) PROVE unit' = unit
    BY <2>3, Zenon DEF Approve, invVars
  <2>4. ASSUME NEW t \in TransferIds, Reject(t) \/ Cancel(t) \/ Ship(t)
        PROVE  \A u \in Units : Move(u)
    BY <2>4, DecisionMove, Zenon
  <2>5. ASSUME NEW t \in TransferIds, NEW matched \in SUBSET Units, ReceiveConfirm(t, matched)
        PROVE  \A u \in Units : Move(u)
    BY <2>5, ReceiveMove, Zenon
  <2> QED BY <1>1, <1>5, <2>1, <2>2, <2>3, <2>4, <2>5, Zenon DEF TransfersNext
<1> QED BY <1>2, <1>3, <1>4, <1>5, Zenon DEF Next

(* The history of a row grows by the values the row takes; a price is given *)
(* only to a unit somebody has seen on the shelf.                           *)
LEMMA PastAndPrice ==
    ASSUME TypeOK, [Next]_vars, NEW u \in Units
    PROVE  /\ past'[u] \subseteq past[u] \cup {unit'[u]}
           /\ \/ override'[u] \in {override[u], NoOverride}
              \/ \E row \in past[u] : row.status = "in_stock"
<1>1. ASSUME NEW rows, WriteUnits(rows) PROVE past'[u] \subseteq past[u] \cup {unit'[u]}
  BY <1>1, Zenon DEF WriteUnits
<1>2. CASE InvNext /\ UNCHANGED <<override, trVars, sale>>
  <2>1. past' = past \/ \E rows : WriteUnits(rows)
    BY <1>2, Zenon DEF InvNext, QuickAddUnit, MarkFaulty, QuickAddQuantity
  <2> QED BY <1>1, <1>2, <2>1, Zenon
<1>3. CASE SalesNext /\ UNCHANGED <<override, trVars>>
  <2>1. \E rows : WriteUnits(rows)
    BY <1>3, Zenon DEF SalesNext, CreateSale
  <2> QED BY <1>1, <1>3, <2>1, Zenon
<1>4. CASE PricingNext
  <2>1. PICK v \in Units, b \in Branches : SetUnitOverride(v, b) \/ RemoveUnitOverride(v, b)
    BY <1>4, Zenon DEF PricingNext
  <2>2. past' = past
    BY <2>1, Zenon DEF SetUnitOverride, RemoveUnitOverride, invVars
  <2>3. CASE v # u
    <3>1. override'[u] = override[u]
      BY <2>1, <2>3, Zenon DEF SetUnitOverride, RemoveUnitOverride, TypeOK, PricingTypeOK
    <3> QED BY <2>2, <3>1, Zenon
  <2>4. CASE v = u /\ SetUnitOverride(v, b)
    <3>1. [status |-> "in_stock", branch |-> b] \in past[u]
      BY <2>4, Zenon DEF SetUnitOverride, SawPriceable
    <3>2. \E row \in past[u] : row.status = "in_stock"
      BY <3>1, Zenon
    <3> QED BY <2>2, <3>2, Zenon
  <2>5. CASE v = u /\ RemoveUnitOverride(v, b)
    <3>1. override'[u] = NoOverride
      BY <2>5, Zenon DEF RemoveUnitOverride, TypeOK, PricingTypeOK
    <3> QED BY <2>2, <3>1, Zenon
  <2> QED BY <2>1, <2>3, <2>4, <2>5, Zenon
<1>5. CASE TransfersNext
  <2> DEFINE Rows == past' = past \/ \E rows : WriteUnits(rows)
             Prices == override' = override \/ \E us : InvalidateOnBranchMove(us)
  <2>1. ASSUME NEW t \in TransferIds, NEW k \in TransferKeys, NEW q \in Requests,
               NEW selfApproves \in BOOLEAN, Create(t, k, q, selfApproves)
        PROVE  Rows /\ Prices
    BY <2>1, Zenon DEF Create
  <2>2. ASSUME NEW t \in TransferIds, NEW k \in TransferKeys, NEW q \in Requests,
               ReplayCreate(t, k, q)
        PROVE  Rows /\ Prices
    BY <2>2, Zenon DEF ReplayCreate, invVars
  <2>3. ASSUME NEW t \in TransferIds, Approve(t)
        PROVE  Rows /\ Prices
    BY <2>3, Zenon DEF Approve, invVars
  <2>4. ASSUME NEW t \in TransferIds, Reject(t) \/ Cancel(t)
        PROVE  Rows /\ Prices
    BY <2>4, Zenon DEF Reject, Cancel, ReleaseReservations
  <2>5. ASSUME NEW t \in TransferIds, Ship(t)
        PROVE  Rows /\ Prices
    BY <2>5, Zenon DEF Ship
  <2>6. ASSUME NEW t \in TransferIds, NEW matched \in SUBSET Units, ReceiveConfirm(t, matched)
        PROVE  Rows /\ Prices
    BY <2>6, Zenon DEF ReceiveConfirm
  <2> HIDE DEF Rows, Prices
  <2>7. Rows /\ Prices
    BY <1>5, <2>1, <2>2, <2>3, <2>4, <2>5, <2>6, Zenon DEF TransfersNext
  <2> QED BY <1>1, <2>7, Zenon DEF Rows, Prices, InvalidateOnBranchMove
<1>6. CASE UNCHANGED vars
  BY <1>6, Zenon DEF vars, invVars
<1> QED BY <1>2, <1>3, <1>4, <1>5, <1>6, Zenon DEF Next

(* Nobody has read or priced a unit that is not registered. *)
LEMMA PriceInvariant == Spec => []PriceInv
<1>1. Init => PriceInv
  BY TypeCorrectInit DEF PriceInv, Init, InvInit, PricingInit
<1>2. ClaimsInv /\ PriceInv /\ [Next]_vars => PriceInv'
  <2> SUFFICES ASSUME ClaimsInv, PriceInv, [Next]_vars PROVE PriceInv'
    BY Zenon
  <2>1. TypeOK'
    BY TypeCorrectNext, Zenon DEF PriceInv
  <2>2. ASSUME NEW u \in Units, unit'[u].status = "absent"
        PROVE  override'[u] = NoOverride /\ \A row \in past'[u] : row.status = "absent"
    <3>1. Move(u)
      BY EveryMove, Zenon
    <3>2. unit'[u] = unit[u]
      BY <2>2, <3>1, UnitTable, Zenon DEF Move, Entered, Restated, Arrived
    <3>3. override[u] = NoOverride /\ \A row \in past[u] : row.status = "absent"
      BY <2>2, <3>2, Zenon DEF PriceInv
    <3>4. /\ past'[u] \subseteq past[u] \cup {unit'[u]}
          /\ \/ override'[u] \in {override[u], NoOverride}
             \/ \E row \in past[u] : row.status = "in_stock"
      BY PastAndPrice, Zenon DEF PriceInv
    <3> QED BY <2>2, <3>3, <3>4, Zenon
  <2> QED BY <2>1, <2>2, Zenon DEF PriceInv
<1> QED BY <1>1, <1>2, ClaimsInvariant, PTL DEF Spec

(* markFaulty apart, a unit changes status only along the table of          *)
(* unit-state-machine.ts, and changes branch only by arriving with a        *)
(* transfer that held it and leads there, whatever anybody had read.        *)
THEOREM UnitsStepLegally == Spec => UnitStepsLegalButFaulty
<1>1. ClaimsInv /\ PriceInv /\ [Next]_vars => [UnitStep]_vars
  <2> SUFFICES ASSUME ClaimsInv, PriceInv, Next, NEW u \in Units, unit[u].status # "absent"
               PROVE  /\ \/ unit'[u].status \in {unit[u].status, "faulty"}
                         \/ CanTransition(unit[u].status, unit'[u].status)
                      /\ unit'[u].branch # unit[u].branch =>
                            \E t \in TransferIds : /\ Holds(t, u)
                                                   /\ transfer'[t].to = unit'[u].branch
                                                   /\ u \in transfer'[t].arrived
    BY Zenon DEF UnitStep
  <2>1. Move(u)
    BY EveryMove, Zenon
  <2> QED BY <2>1, UnitTable, Zenon DEF Move, Entered, Restated, Arrived
<1> QED BY <1>1, ClaimsInvariant, PriceInvariant, PTL DEF Spec, UnitStepsLegalButFaulty

(* A price comes into force only by being set: no journey of a phone brings *)
(* an old price back (invalidateOnBranchMoveTx).                            *)
THEOREM NoPriceComesBack == Spec => NoPriceResurrected
<1>1. ClaimsInv /\ PriceInv /\ [Next]_vars => [OverrideStep]_vars
  <2> SUFFICES ASSUME ClaimsInv, PriceInv, Next, NEW u \in Units,
                      OverrideApplies(u)', ~OverrideApplies(u), override'[u] = override[u]
               PROVE  FALSE
    BY Zenon DEF OverrideStep
  <2>1. override[u] # NoOverride /\ unit'[u].branch # unit[u].branch
    BY Zenon DEF OverrideApplies
  <2>2. Move(u)
    BY EveryMove, Zenon
  <2>3. unit[u].status # "absent"
    BY <2>1, Zenon DEF PriceInv
  <2> QED BY <2>1, <2>2, <2>3, Zenon DEF Move, Entered, Restated, Arrived
<1> QED BY <1>1, ClaimsInvariant, PriceInvariant, PTL DEF Spec, NoPriceResurrected

-----------------------------------------------------------------------------
(* Who holds a unit after a step held it before, or has just claimed it at  *)
(* the branch it leaves.                                                    *)
LEMMA HoldersAfter ==
    ASSUME ClaimsInv, [Next]_vars, NEW t \in TransferIds, NEW u \in Units, Holds(t, u)'
    PROVE  \/ Holds(t, u) /\ transfer'[t].from = transfer[t].from
           \/ unit[u].branch = transfer'[t].from
<1> USE DEF ClaimsInv
<1>1. CASE transfer'[t] = transfer[t]
  BY <1>1, Zenon DEF Holds, Promised, Travelling, Reserving, Shipped
<1>2. ASSUME NEW s \in TransferIds, NEW k, NEW q, NEW selfApproves, Create(s, k, q, selfApproves)
      PROVE  transfer'[t] = transfer[t] \/ unit[u].branch = transfer'[t].from
  <2>1. CASE s # t
    BY <1>2, <2>1, Zenon DEF Create, WriteTransfer, TypeOK, TransfersTypeOK
  <2>2. CASE s = t
    <3>1. transfer'[t].units = q.units /\ transfer'[t].from = q.from
      BY <1>2, <2>2, Zenon DEF Create, WriteTransfer, TypeOK, TransfersTypeOK
    <3>2. u \in transfer'[t].units
      BY Zenon DEF Holds, Promised, Travelling
    <3>3. unit[u] = [status |-> "in_stock", branch |-> q.from]
      BY <1>2, <3>1, <3>2, Zenon DEF Create, Claimable
    <3> QED BY <3>1, <3>3
  <2> QED BY <2>1, <2>2, Zenon
<1>3. ASSUME NEW s \in TransferIds, NEW to \in TransferStatus, Decides(s, to)
      PROVE  transfer'[t] = transfer[t] \/ (Holds(t, u) /\ transfer'[t].from = transfer[t].from)
  <2>1. CASE s # t
    BY <1>3, <2>1, DecisionKeeps, Zenon
  <2>2. CASE s = t
    <3>1. /\ CanTransferTransition(transfer[t].status, to) /\ transfer'[t].status = to
          /\ transfer'[t].from = transfer[t].from /\ transfer'[t].units = transfer[t].units
          /\ transfer[t].arrived = {}
      BY <1>3, <2>2, DecisionKeeps, Zenon
    <3>2. u \in transfer[t].units
      BY <3>1, Zenon DEF Holds, Promised, Travelling
    <3>3. transfer[t].status \in ReservingStatuses \cup {"in_transit"}
      BY <3>1 DEF CanTransferTransition, TransferTransitions, TransferStatus, ReservingStatuses
    <3>4. Holds(t, u)
      BY <3>1, <3>2, <3>3, Zenon DEF Holds, Promised, Travelling, Reserving, Shipped
    <3> QED BY <3>1, <3>4, Zenon
  <2> QED BY <2>1, <2>2, Zenon
<1>4. ASSUME NEW s \in TransferIds, NEW k, NEW q, ReplayCreate(s, k, q)
      PROVE  transfer' = transfer
  BY <1>4, Zenon DEF ReplayCreate
<1> QED BY <1>1, <1>2, <1>3, <1>4, TransferSteps, Zenon

(* A phone whose transfer has not arrived is booked at the branch it        *)
(* leaves, however often it is looked at, marked faulty or priced.          *)
THEOREM UnitsHeldAtSource == Spec => []HeldAtSource
<1>1. Init => HeldAtSource
  <2> SUFFICES ASSUME Init, NEW t \in TransferIds, NEW u \in Units PROVE ~Holds(t, u)
    BY Zenon DEF HeldAtSource
  <2>1. transfer[t].status = "none"
    BY NoRowFields, Zenon DEF Init, TransfersInit
  <2> QED BY <2>1, RowClaims, Zenon DEF Holds
<1>2. HeldAtSource /\ ClaimsInv /\ ClaimsInv' /\ PriceInv /\ [Next]_vars => HeldAtSource'
  <2> SUFFICES ASSUME HeldAtSource, ClaimsInv, ClaimsInv', PriceInv, [Next]_vars,
                      NEW t \in TransferIds, NEW u \in Units, Holds(t, u)'
               PROVE  unit'[u].branch = transfer'[t].from
    BY Zenon DEF HeldAtSource
  <2>1. unit[u].branch = transfer'[t].from
    <3>1. \/ Holds(t, u) /\ transfer'[t].from = transfer[t].from
          \/ unit[u].branch = transfer'[t].from
      BY HoldersAfter, Zenon
    <3> QED BY <3>1, Zenon DEF HeldAtSource
  <2>2. unit'[u].status # "in_stock"
    BY Zenon DEF ClaimsInv, StatusMatchesClaims, StatusIsTrue, Holds
  <2>3. Move(u)
    BY EveryMove, Zenon
  <2> QED BY <2>1, <2>2, <2>3, Zenon DEF Move, Entered, Restated, Arrived
<1> QED BY <1>1, <1>2, ClaimsInvariant, PriceInvariant, PTL DEF Spec

-----------------------------------------------------------------------------
(* Keys. *)

(* What an answer says of the transfer it names. *)
AnswerIsTrue(a) ==
    /\ transfer[a.transfer].key = a.key
    /\ transfer[a.transfer].to = a.request.to
    /\ transfer[a.transfer].units = a.request.units
    /\ transfer[a.transfer].lines = a.request.lines

TransferKeyedOnce ==
    \A s, t \in TransferIds : transfer[s].key = transfer[t].key /\ transfer[s].key # NoKey => s = t

(* The part of KeysInv that is about transfers, before and after a step. *)
LEMMA AnswersFromKeys ==
    /\ KeysInv => TransferKeyedOnce /\ \A a \in answered : AnswerIsTrue(a)
    /\ (TypeOK /\ TransferKeyedOnce /\ \A a \in answered : AnswerIsTrue(a)) =>
          /\ \A a1, a2 \in answered : a1.key = a2.key => a1.transfer = a2.transfer
          /\ \A a \in answered :
                LET row == transfer[a.transfer] IN
                /\ row.key = a.key
                /\ <<row.to, row.units, row.lines>>
                     = <<a.request.to, a.request.units, a.request.lines>>
<1>1. KeysInv => TransferKeyedOnce /\ \A a \in answered : AnswerIsTrue(a)
  BY Zenon DEF KeysInv, KeyedOnce, TransferKeyedOnce, AnswerIsTrue
<1>2. ASSUME TypeOK, TransferKeyedOnce, \A a \in answered : AnswerIsTrue(a),
             NEW a1 \in answered, NEW a2 \in answered, a1.key = a2.key
      PROVE  a1.transfer = a2.transfer
  <2>1. /\ a1.key # NoKey /\ a1.transfer \in TransferIds /\ a2.transfer \in TransferIds
    BY <1>2, TransfersAssumption, Zenon DEF TypeOK, TransfersTypeOK, Answers, TransfersAssumption
  <2> QED BY <1>2, <2>1, Zenon DEF TransferKeyedOnce, AnswerIsTrue
<1>3. ASSUME \A a \in answered : AnswerIsTrue(a), NEW a \in answered
      PROVE  /\ transfer[a.transfer].key = a.key
             /\ <<transfer[a.transfer].to, transfer[a.transfer].units, transfer[a.transfer].lines>>
                  = <<a.request.to, a.request.units, a.request.lines>>
  BY <1>3, Zenon DEF AnswerIsTrue
<1> QED BY <1>1, <1>2, <1>3, Zenon

(* A request under a new key makes the only row with that key. *)
LEMMA KeysCreate ==
    ASSUME TypeOK, TypeOK', KeysInv, NEW t \in TransferIds, NEW k \in TransferKeys, NEW q \in Requests,
           NEW selfApproves \in BOOLEAN, Create(t, k, q, selfApproves)
    PROVE  TransferKeyedOnce' /\ \A a \in answered' : AnswerIsTrue(a)'
<1>1. TransferKeyedOnce /\ \A a \in answered : AnswerIsTrue(a)
  BY AnswersFromKeys, Zenon
<1>2. /\ transfer[t] = NoRow /\ \A x \in TransferIds : transfer[x].key # k
      /\ answered' = answered \cup {[key |-> k, request |-> q, transfer |-> t]}
  BY Zenon DEF Create, KeyIsFree
<1>3. /\ transfer'[t].key = k /\ transfer'[t].to = q.to
      /\ transfer'[t].units = q.units /\ transfer'[t].lines = q.lines
      /\ \A x \in TransferIds \ {t} : transfer'[x] = transfer[x]
  BY Zenon DEF Create, WriteTransfer, TypeOK, TransfersTypeOK
<1>4. TransferKeyedOnce'
  BY <1>1, <1>2, <1>3 DEF TransferKeyedOnce
<1>5. ASSUME NEW a \in answered PROVE AnswerIsTrue(a)'
  <2>1. a.transfer \in TransferIds /\ a.key # NoKey
    BY TransfersAssumption, Zenon DEF TypeOK, TransfersTypeOK, Answers, TransfersAssumption
  <2>2. NoRow.key = NoKey
    BY Zenon DEF NoRow
  <2>3. transfer[a.transfer].key = a.key
    BY <1>1, Zenon DEF AnswerIsTrue
  <2>4. a.transfer # t
    BY <1>2, <2>1, <2>2, <2>3, Zenon
  <2>5. transfer'[a.transfer] = transfer[a.transfer]
    BY <1>3, <2>1, <2>4, Zenon
  <2> QED BY <1>1, <2>5, Zenon DEF AnswerIsTrue
<1>6. AnswerIsTrue([key |-> k, request |-> q, transfer |-> t])'
  BY <1>3, Zenon DEF AnswerIsTrue
<1> QED BY <1>2, <1>4, <1>5, <1>6, Zenon

(* A decision on a transfer leaves what its answers say of it. *)
LEMMA KeysDecision ==
    ASSUME ClaimsInv, KeysInv, NEW t \in TransferIds, NEW to, Decides(t, to), UNCHANGED answered
    PROVE  TransferKeyedOnce' /\ \A a \in answered' : AnswerIsTrue(a)'
<1>1. TransferKeyedOnce /\ \A a \in answered : AnswerIsTrue(a)
  BY AnswersFromKeys, Zenon
<1>2. \A x \in TransferIds : /\ transfer'[x].key = transfer[x].key /\ transfer'[x].to = transfer[x].to
                             /\ transfer'[x].units = transfer[x].units
                             /\ transfer'[x].lines = transfer[x].lines
  BY DecisionKeeps, Zenon
<1>3. \A a \in answered : a.transfer \in TransferIds
  BY Zenon DEF KeysInv, TypeOK, TransfersTypeOK, Answers
<1>4. TransferKeyedOnce'
  BY <1>1, <1>2 DEF TransferKeyedOnce
<1>5. \A a \in answered' : AnswerIsTrue(a)'
  BY <1>1, <1>2, <1>3 DEF AnswerIsTrue
<1> QED BY <1>4, <1>5, Zenon

(* A request under a key that has a row is answered with that row. *)
LEMMA KeysReplay ==
    ASSUME KeysInv, NEW t \in TransferIds, NEW k \in TransferKeys, NEW q \in Requests,
           ReplayCreate(t, k, q)
    PROVE  TransferKeyedOnce' /\ \A a \in answered' : AnswerIsTrue(a)'
<1>1. TransferKeyedOnce /\ \A a \in answered : AnswerIsTrue(a)
  BY AnswersFromKeys, Zenon
<1>2. /\ transfer[t].key = k /\ SameFingerprint(t, q) /\ UNCHANGED transfer
      /\ answered' = answered \cup {[key |-> k, request |-> q, transfer |-> t]}
  BY Zenon DEF ReplayCreate
<1>3. transfer[t].to = q.to /\ transfer[t].units = q.units /\ transfer[t].lines = q.lines
  BY <1>2, Zenon DEF SameFingerprint, Fingerprint, HashOf
<1>4. TransferKeyedOnce'
  BY <1>1, <1>2, Zenon DEF TransferKeyedOnce
<1>5. \A a \in answered : AnswerIsTrue(a)'
  BY <1>1, <1>2, Zenon DEF AnswerIsTrue
<1>6. AnswerIsTrue([key |-> k, request |-> q, transfer |-> t])'
  BY <1>2, <1>3, Zenon DEF AnswerIsTrue
<1> QED BY <1>2, <1>4, <1>5, <1>6, Zenon

(* A receipt or a sale is made under a key nobody has used. *)
LEMMA KeysElsewhere ==
    ASSUME KeysInv, [Next]_vars
    PROVE  /\ \A r1, r2 \in ReceiptIds :
                 receipt'[r1].key = receipt'[r2].key /\ receipt'[r1].key # NoKey => r1 = r2
           /\ \A i, j \in SaleIds : sale'[i].key = sale'[j].key /\ sale'[i].key # NoKey => i = j
<1>0. /\ TypeOK
      /\ \A r1, r2 \in ReceiptIds :
            receipt[r1].key = receipt[r2].key /\ receipt[r1].key # NoKey => r1 = r2
      /\ \A i, j \in SaleIds : sale[i].key = sale[j].key /\ sale[i].key # NoKey => i = j
  BY Zenon DEF KeysInv, KeyedOnce
<1>1. \/ UNCHANGED receipt
      \/ \E r \in ReceiptIds, k \in ReceiptKeys \cup {NoKey},
            p \in Products, b \in Branches, n \in Amounts :
               QuickAddQuantity(r, k, p, b, n)
  <2>1. InvNext => \/ UNCHANGED receipt
                   \/ \E r \in ReceiptIds, k \in ReceiptKeys \cup {NoKey},
                         p \in Products, b \in Branches, n \in Amounts :
                            QuickAddQuantity(r, k, p, b, n)
    BY Zenon DEF InvNext, QuickAddUnit, MarkFaulty
  <2>2. PricingNext \/ UNCHANGED vars => UNCHANGED receipt
    BY Zenon DEF PricingNext, SetUnitOverride, RemoveUnitOverride, vars, invVars
  <2>3. SalesNext => UNCHANGED receipt
    BY Zenon DEF SalesNext, CreateSale
  <2> QED BY <2>1, <2>2, <2>3, TransfersLeaveReceipts, Zenon DEF Next
<1>2. ASSUME NEW r \in ReceiptIds, NEW k, NEW p, NEW b, NEW n, QuickAddQuantity(r, k, p, b, n)
      PROVE  \A r1, r2 \in ReceiptIds :
                 receipt'[r1].key = receipt'[r2].key /\ receipt'[r1].key # NoKey => r1 = r2
  <2>1. /\ receipt'[r].key = k /\ \A x \in ReceiptIds \ {r} : receipt'[x] = receipt[x]
        /\ k = NoKey \/ \A x \in ReceiptIds : receipt[x].key # k
    BY <1>0, <1>2, Zenon DEF QuickAddQuantity, FreshReceipt, TypeOK, InvTypeOK
  <2> SUFFICES ASSUME NEW x \in ReceiptIds, NEW y \in ReceiptIds,
                      receipt'[x].key = receipt'[y].key, receipt'[x].key # NoKey
               PROVE  x = y
    BY Zenon
  <2> QED BY <1>0, <2>1
<1>3. UNCHANGED sale \/ \E i \in SaleIds, k \in SaleKeys \cup {NoKey}, c \in Carts : CreateSale(i, k, c)
  BY Zenon DEF Next, vars, SalesNext
<1>4. ASSUME NEW i \in SaleIds, NEW k, NEW c, CreateSale(i, k, c)
      PROVE  \A x, y \in SaleIds : sale'[x].key = sale'[y].key /\ sale'[x].key # NoKey => x = y
  <2>1. /\ sale'[i].key = k /\ \A x \in SaleIds \ {i} : sale'[x] = sale[x]
        /\ k = NoKey \/ \A x \in SaleIds : sale[x].key # k
    BY <1>0, <1>4, Zenon DEF CreateSale, SaleKeyIsFree, TypeOK, SalesTypeOK
  <2> SUFFICES ASSUME NEW x \in SaleIds, NEW y \in SaleIds,
                      sale'[x].key = sale'[y].key, sale'[x].key # NoKey
               PROVE  x = y
    BY Zenon
  <2> QED BY <1>0, <2>1
<1>5. UNCHANGED receipt => \A r1, r2 \in ReceiptIds :
         receipt'[r1].key = receipt'[r2].key /\ receipt'[r1].key # NoKey => r1 = r2
  BY <1>0, Zenon
<1>6. UNCHANGED sale =>
         \A x, y \in SaleIds : sale'[x].key = sale'[y].key /\ sale'[x].key # NoKey => x = y
  BY <1>0, Zenon
<1> QED BY <1>1, <1>2, <1>3, <1>4, <1>5, <1>6, Zenon

(* A clientUuid stands for one receipt, one sale, one transfer; whoever     *)
(* asks again is told of that transfer and had asked for the same goods and *)
(* destination, whatever happened to the transfer in between.               *)
THEOREM KeysStandForOne == Spec => []KeyedOnce
<1>1. Init => KeysInv
  <2> SUFFICES ASSUME Init PROVE KeyedOnce /\ TransferKeyedOnce
    BY TypeCorrectInit, Zenon DEF KeysInv, TransferKeyedOnce
  <2>1. NoRow.key = NoKey /\ NoReceipt.key = NoKey /\ NoSale.key = NoKey
    BY Zenon DEF NoRow, NoReceipt, NoSale
  <2> QED BY <2>1, Zenon DEF KeyedOnce, TransferKeyedOnce, Init, InvInit, TransfersInit, SalesInit
<1>2. ClaimsInv /\ KeysInv /\ [Next]_vars => KeysInv'
  <2> SUFFICES ASSUME ClaimsInv, KeysInv, [Next]_vars PROVE KeysInv'
    BY Zenon
  <2>1. TypeOK'
    BY TypeCorrectNext, Zenon DEF KeysInv
  <2>2. TransferKeyedOnce' /\ \A a \in answered' : AnswerIsTrue(a)'
    <3>1. CASE UNCHANGED <<transfer, answered>>
      BY <3>1, AnswersFromKeys, Zenon DEF TransferKeyedOnce, AnswerIsTrue
    <3> QED BY <2>1, <3>1, TransferSteps, KeysCreate, KeysReplay, KeysDecision, Zenon DEF KeysInv
  <2>3. (TypeOK /\ TransferKeyedOnce /\ \A a \in answered : AnswerIsTrue(a))' =>
          (/\ \A a1, a2 \in answered : a1.key = a2.key => a1.transfer = a2.transfer
           /\ \A a \in answered :
                LET row == transfer[a.transfer] IN
                /\ row.key = a.key
                /\ <<row.to, row.units, row.lines>>
                     = <<a.request.to, a.request.units, a.request.lines>>)'
    BY AnswersFromKeys, PTL
  <2> QED BY <2>1, <2>2, <2>3, KeysElsewhere, Zenon DEF KeysInv, KeyedOnce, TransferKeyedOnce
<1>3. KeysInv => KeyedOnce
  BY Zenon DEF KeysInv
<1> QED BY <1>1, <1>2, <1>3, ClaimsInvariant, PTL DEF Spec
=============================================================================
