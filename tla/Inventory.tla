----------------------------- MODULE Inventory -----------------------------
(***************************************************************************)
(* The stock of one company: serialized units (phones with an IMEI or a    *)
(* serial number) and counted stock (one row per product and branch).      *)
(* Every other component moves goods through the tables of this module.    *)
(*                                                                         *)
(* A database transaction whose writes are conditional UPDATEs is one      *)
(* step: MySQL locks the rows it matches until commit and evaluates the    *)
(* WHERE clauses on committed values.  What a handler read BEFORE those    *)
(* writes (before its transaction, or in its snapshot) may be any value    *)
(* the row has had: `past' keeps those values, so that a step may act on   *)
(* an old one.  Any number of requests may thus be in flight at once.      *)
(***************************************************************************)
EXTENDS Integers, FiniteSets

CONSTANTS Branches,      \* the branches of the company
          Units,         \* the identifiers (IMEI, serial) that may be registered
          Products,      \* the quantity-tracked products
          Amounts,       \* the quantities one line or one receipt may carry
          ReceiptIds,    \* bound: how many stock receipts there may be
          ReceiptKeys,   \* the clientUuids of stock receipts
          NoKey          \* a request without a clientUuid

ASSUME InventoryAssumption ==
    /\ Branches # {}
    /\ Amounts \subseteq Nat \ {0}
    /\ NoKey \notin ReceiptKeys

VARIABLES unit,      \* units: status and branch of each unit
          past,      \* the values each row of `units' has had
          stock,     \* stock_items: quantity and reserved_quantity
          receipt    \* stock_receipts

invVars == <<unit, past, stock, receipt>>

-----------------------------------------------------------------------------
(* unit-state-machine.ts *)

UnitStatus == {"in_stock", "reserved", "sold", "returned", "in_transit",
               "faulty", "transferred_out", "consigned_out"}

UnitRow == [status: UnitStatus \cup {"absent"}, branch: Branches]

UnitTransitions ==
    [in_stock        |-> {"reserved", "sold", "in_transit", "faulty",
                          "transferred_out", "consigned_out"},
     reserved        |-> {"in_stock", "in_transit"},
     sold            |-> {"returned"},
     returned        |-> {"in_stock", "faulty"},
     in_transit      |-> {"in_stock", "transferred_out"},
     faulty          |-> {"in_stock"},
     transferred_out |-> {},
     consigned_out   |-> {"in_stock", "sold", "faulty"}]

CanTransition(from, to) == from \in UnitStatus /\ to \in UnitTransitions[from]

(* Write the units table; every value a row takes may be read by a request. *)
WriteUnits(rows) ==
    /\ unit' = rows
    /\ past' = [u \in Units |-> past[u] \cup {rows[u]}]

(* UPDATE units SET status = to for the units of a set. *)
WithStatus(rows, us, to) ==
    [u \in Units |-> IF u \in us THEN [rows[u] EXCEPT !.status = to] ELSE rows[u]]

-----------------------------------------------------------------------------
(* quantity-reservation.ts and stock-cost.ts: single conditional statements. *)
(* `lines' gives the quantity per product, 0 where there is no line.         *)

StockRow == [quantity: Nat, reserved: Nat]
Stock    == [Products -> [Branches -> StockRow]]
Lines    == [Products -> Nat]

EveryLine(s, b, lines, Ok(_, _)) ==
    \A p \in Products : lines[p] > 0 => Ok(s[p][b], lines[p])

OnLines(s, b, lines, Op(_, _)) ==
    [p \in Products |-> [c \in Branches |->
        IF c = b /\ lines[p] > 0 THEN Op(s[p][c], lines[p]) ELSE s[p][c]]]

Reservable(row, n) == row.quantity - row.reserved >= n
ReserveQuantity(row, n) == [row EXCEPT !.reserved = @ + n]

(* A release that matches no row changes nothing and is not an error. *)
ReleaseNothing(row, n) == row
ReleaseQuantity(row, n) ==
    IF row.reserved >= n THEN [row EXCEPT !.reserved = @ - n] ELSE row

Shippable(row, n) == row.reserved >= n /\ row.quantity >= n
ShipQuantity(row, n) == [quantity |-> row.quantity - n, reserved |-> row.reserved - n]

ReceiveTwice(row, n) == [row EXCEPT !.quantity = @ + 2 * n]
ReceiveQuantity(row, n) == [row EXCEPT !.quantity = @ + n]

-----------------------------------------------------------------------------
NoReceipt == [key |-> NoKey, line |-> [p \in Products |-> 0]]

InvTypeOK ==
    /\ unit \in [Units -> UnitRow]
    /\ past \in [Units -> SUBSET UnitRow]
    /\ stock \in Stock
    /\ receipt \in [ReceiptIds -> [key: ReceiptKeys \cup {NoKey}, line: Lines]]

(* An empty database: nothing registered, nothing on the shelves. *)
InvInit ==
    /\ unit = [u \in Units |-> [status |-> "absent", branch |-> CHOOSE b \in Branches : TRUE]]
    /\ past = [u \in Units |-> {unit[u]}]
    /\ stock = [p \in Products |-> [b \in Branches |-> [quantity |-> 0, reserved |-> 0]]]
    /\ receipt = [r \in ReceiptIds |-> NoReceipt]

(* quickAdd of a serialized product: the identifier must not be registered; *)
(* the unique indexes on units decide a race of two registrations.          *)
QuickAddUnit(u, b) ==
    /\ unit[u].status = "absent"
    /\ WriteUnits([unit EXCEPT ![u] = [status |-> "in_stock", branch |-> b]])
    /\ UNCHANGED <<stock, receipt>>

(* quickAdd of a counted product.  A key that already has a receipt is      *)
(* answered from it, or refused when the payload differs: no state changes. *)
FreshReceipt(k) == k = NoKey \/ \A r \in ReceiptIds : receipt[r].key # k

QuickAddQuantity(r, k, p, b, n) ==
    /\ receipt[r] = NoReceipt
    /\ FreshReceipt(k)
    /\ LET line == [q \in Products |-> IF q = p THEN n ELSE 0]
       IN  /\ receipt' = [receipt EXCEPT ![r] = [key |-> k, line |-> line]]
           /\ stock' = OnLines(stock, b, line, ReceiveQuantity)
    /\ UNCHANGED <<unit, past>>

(* markFaulty asserts the transition on the row it loaded, then updates the *)
(* row by id alone: what is written does not depend on what is there now.   *)
MarkFaulty(u) ==
    /\ \E row \in past[u] : CanTransition(row.status, "faulty")
    /\ WriteUnits(WithStatus(unit, {u}, "faulty"))
    /\ UNCHANGED <<stock, receipt>>

InvNext ==
    \/ \E u \in Units : \/ \E b \in Branches : QuickAddUnit(u, b)
                        \/ MarkFaulty(u)
    \/ \E r \in ReceiptIds, k \in ReceiptKeys \cup {NoKey},
          p \in Products, b \in Branches, n \in Amounts :
             QuickAddQuantity(r, k, p, b, n)
=============================================================================
