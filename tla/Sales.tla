------------------------------- MODULE Sales -------------------------------
(***************************************************************************)
(* The counter sale: SalesService.createSale.  A cart names units and      *)
(* quantities of counted stock; the transaction claims all of them or      *)
(* records nothing.  Prices, payments and credit are left out.             *)
(***************************************************************************)
EXTENDS Inventory

CONSTANTS SaleIds,     \* bound: how many sales there may be
          SaleKeys,    \* the clientUuids of sales
          Carts        \* what a customer may bring to the counter

ASSUME SalesAssumption ==
    /\ NoKey \notin SaleKeys
    /\ Carts \subseteq [branch: Branches, units: SUBSET Units, lines: Lines]

VARIABLE sale   \* sales with their items

NoSale == [made |-> FALSE, key |-> NoKey, branch |-> CHOOSE b \in Branches : TRUE,
           units |-> {}, lines |-> [p \in Products |-> 0]]

SalesTypeOK ==
    sale \in [SaleIds -> [made: BOOLEAN, key: SaleKeys \cup {NoKey},
                          branch: Branches, units: SUBSET Units, lines: Lines]]

SalesInit == sale = [i \in SaleIds |-> NoSale]

(* assertSellable reads the unit in the transaction's snapshot. *)
SawSellable(u, b) == [status |-> "in_stock", branch |-> b] \in past[u]

(* The claim is conditional on the status alone; the generated column       *)
(* active_unit_id of sale_items keeps a unit from a second sale.            *)
ClaimedBlindly(u) == unit[u].status # "absent"
StillInStock(u) == unit[u].status = "in_stock"
NotOnAnotherSale(u) == \A i \in SaleIds : u \notin sale[i].units

(* Conditional decrement, then the re-read (and the CHECK constraint):      *)
(* what is left must cover what is reserved.                                *)
TakeableUnguarded(row, n) == TRUE
Takeable(row, n) == row.quantity >= n /\ row.quantity - n >= row.reserved
TakeQuantity(row, n) == [row EXCEPT !.quantity = @ - n]

(* A clientUuid that already has a sale is answered with it: no change. *)
SaleKeyIsFree(k) == k = NoKey \/ \A i \in SaleIds : sale[i].key # k

CreateSale(i, k, c) ==
    /\ ~sale[i].made
    /\ SaleKeyIsFree(k)
    /\ \A u \in c.units : SawSellable(u, c.branch) /\ StillInStock(u) /\ NotOnAnotherSale(u)
    /\ EveryLine(stock, c.branch, c.lines, Takeable)
    /\ sale' = [sale EXCEPT ![i] = [made |-> TRUE, key |-> k, branch |-> c.branch,
                                    units |-> c.units, lines |-> c.lines]]
    /\ WriteUnits(WithStatus(unit, c.units, "sold"))
    /\ stock' = OnLines(stock, c.branch, c.lines, TakeQuantity)
    /\ UNCHANGED receipt

SalesNext ==
    \E i \in SaleIds, k \in SaleKeys \cup {NoKey}, c \in Carts : CreateSale(i, k, c)
=============================================================================
