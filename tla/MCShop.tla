------------------------------- MODULE MCShop -------------------------------
(***************************************************************************)
(* Small instances of Shop for TLC.  `page' picks the goods that are dealt *)
(* in, so that the state space is the sum of the parts.                    *)
(***************************************************************************)
EXTENDS Shop, TLC

CONSTANTS A, B, C, u1, u2, p1, Pages

VARIABLE page

mcVars == <<vars, page>>

Nothing == [p \in Products |-> 0]
Some(n) == [p \in Products |-> n]
Ask(from, to, us, ls) == [from |-> from, to |-> to, units |-> us, lines |-> ls]
Cart(b, us, ls) == [branch |-> b, units |-> us, lines |-> ls]

(* Phones only: there and back, alone and together. *)
UnitRequests == {Ask(A, B, {u1}, Nothing), Ask(A, B, {u1, u2}, Nothing), Ask(B, A, {u1}, Nothing)}
UnitCarts == {Cart(A, {u1}, Nothing), Cart(B, {u1}, Nothing), Cart(A, {u1, u2}, Nothing)}

(* One phone and one counted product, in mixed and pure requests. *)
StockRequests == {Ask(A, B, {}, Some(1)), Ask(A, B, {u1}, Some(2)), Ask(B, A, {}, Some(1))}
StockCarts == {Cart(A, {}, Some(1)), Cart(B, {}, Some(1)), Cart(A, {u1}, Some(1))}

(* Three branches: the same goods for one destination from two sources. *)
KeyRequests == {Ask(A, C, {}, Some(1)), Ask(B, C, {}, Some(1)), Ask(A, B, {}, Some(1))}
KeyCarts == {Cart(A, {}, Some(1)), Cart(C, {}, Some(1))}

ShopRequests == UnitRequests \cup StockRequests \cup KeyRequests
ShopCarts == UnitCarts \cup StockCarts \cup KeyCarts

Symmetry == Permutations(TransferIds) \cup Permutations(TransferKeys) \cup Permutations(SaleIds)

-----------------------------------------------------------------------------
Made(s) == {i \in SaleIds : s[i].made}
Sells(s, carts) == \A i \in Made(s) : Cart(s[i].branch, s[i].units, s[i].lines) \in carts
Asks(answers, requests) == \A a \in answers : a.request \in requests
NoClientKeys == \A i \in SaleIds : sale'[i].key = NoKey
Receives(n) == \A r \in ReceiptIds, p \in Products : receipt'[r].line[p] <= n

(* Bounds of each page. *)
PageRules ==
    /\ page = "units" => /\ UNCHANGED <<stock, receipt>> /\ NoClientKeys
                         /\ \A u \in Units : unit'[u] # unit[u] => unit'[u].branch # C
                         /\ Cardinality(Made(sale')) <= 1
    /\ page = "stock" => /\ UNCHANGED override /\ NoClientKeys
                         /\ \A u \in Units : unit'[u] # unit[u] => u = u1 /\ unit'[u].branch # C
                         /\ \A r \in ReceiptIds : receipt'[r].key = NoKey
                         /\ \A p \in Products : stock'[p][C] = stock[p][C]
                         /\ Asks(answered', StockRequests) /\ Sells(sale', StockCarts)
    /\ page = "keys" => /\ UNCHANGED <<unit, override>> /\ Receives(1)
                        /\ Asks(answered', KeyRequests) /\ Sells(sale', KeyCarts)

MCInit == page \in Pages /\ Init
MCNext == Next /\ PageRules /\ UNCHANGED page
MCSpec == MCInit /\ [][MCNext]_mcVars
=============================================================================
