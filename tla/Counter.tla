------------------------------ MODULE Counter ------------------------------
(***************************************************************************)
(* The money side of a counter sale: what createSale records beside the    *)
(* goods (totals, payments, credit, the return policy promised on the      *)
(* receipt), and the two settings it reads.                                *)
(***************************************************************************)
EXTENDS Sales, Days, Totals

CONSTANTS Prices,      \* what one item may cost on its line
          Discounts,   \* what may be taken off the whole sale
          Windows,     \* return windows in days, 0 for "no returns"
          Accounts,    \* the receiving accounts of the shop
          ItemCost     \* what an item on a sale had cost

(* Sales are finitely many and of finitely many things, amounts are whole   *)
(* cents.                                                                   *)
ASSUME CounterAssumption ==
    /\ IsFiniteSet(Units) /\ IsFiniteSet(Products) /\ IsFiniteSet(SaleIds) /\ SaleIds # {}
    /\ Prices \subseteq Nat /\ Discounts \subseteq Nat /\ Windows \subseteq Nat /\ 0 \in Windows
    /\ ItemCost \in Nat

VARIABLES bill,      \* sales, sale_payments: the money of each sale
          customer,  \* customers.balance of the one customer on credit
          offered    \* company settings: the default return window

tillVars == <<bill, customer, offered>>

(* A payment without an account (and not in cash) is "unattributed". *)
PayChannels == {"cash", "unattributed"} \cup Accounts

NoBill == [soldOn |-> 0, line |-> 0, items |-> 0, total |-> 0, cash |-> 0,
           other |-> 0, into |-> "cash", due |-> 0, window |-> 0]

BillRow == [soldOn: {0} \cup DaySet, line: Nat, items: Nat, total: Nat, cash: Nat, other: Nat,
            into: PayChannels, due: Nat, window: Windows]

CounterTypeOK ==
    /\ bill \in [SaleIds -> BillRow]
    /\ customer \in Nat
    /\ offered \in Windows

(* Money is recorded only with the sale. *)
TillInv == \A i \in SaleIds : ~sale[i].made => bill[i].soldOn = 0

CounterInit ==
    /\ bill = [i \in SaleIds |-> NoBill]
    /\ customer = 0
    /\ offered \in Windows

(* resolveWindowForSale: the default, or with a permission and a reason     *)
(* another window; a promised window is not shortened except to none.       *)
WindowAllowed(w) == w = offered \/ offered = 0 \/ w = 0 \/ w >= offered

(* reconcilePayments, assertCreditHasCustomer: never more than the total;   *)
(* what is missing goes on the account of the customer.                     *)
Reconciles(total, cash, other) == cash + other <= total

ItemsOf(c) == Cardinality(c.units) + TotalOf(Products, c.lines)

(* createSale as a whole.  The day's lock is not looked at. *)
CheckOut(i, k, c, price, discount, cash, other, into, w) ==
    LET items == ItemsOf(c)
        total == price * items - discount
    IN  /\ CreateSale(i, k, c)
        /\ total >= 0
        /\ Reconciles(total, cash, other)
        /\ other > 0 => into # "cash"
        /\ other = 0 => into = "cash"
        /\ WindowAllowed(w)
        /\ bill' = [bill EXCEPT ![i] =
              [soldOn |-> today, line |-> price, items |-> items, total |-> total,
               cash |-> cash, other |-> other, into |-> into,
               due |-> total - cash - other, window |-> w]]
        /\ customer' = customer + (total - cash - other)
        /\ UNCHANGED <<offered, dayVars>>

(* SettingsService.update; sales already made keep the window they promised. *)
OfferWindow(w) ==
    /\ w # offered
    /\ offered' = w
    /\ UNCHANGED <<bill, customer, invVars, sale, dayVars>>

CounterNext ==
    \/ \E i \in SaleIds, k \in SaleKeys \cup {NoKey}, c \in Carts, price \in Prices,
          discount \in Discounts, w \in Windows, into \in PayChannels :
          \E cash, other \in 0..price :
             CheckOut(i, k, c, price, discount, cash, other, into, w)
    \/ \E w \in Windows : OfferWindow(w)

(* recomputeDaily: what a day sold, and what that had cost. *)
Revenue(d) == SumWhere(SaleIds, LAMBDA i : bill[i].line * bill[i].items,
                                LAMBDA i : bill[i].soldOn = d)
Cogs(d) == SumWhere(SaleIds, LAMBDA i : ItemCost * bill[i].items,
                             LAMBDA i : bill[i].soldOn = d)
GrossProfit(d) == Revenue(d) - Cogs(d)
=============================================================================
