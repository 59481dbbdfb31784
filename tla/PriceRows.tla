------------------------------ MODULE PriceRows ------------------------------
(***************************************************************************)
(* What things cost at the counter, and the log of every change: the price *)
(* of a product at a branch, of one phone, and of a counted product (kept  *)
(* on its stock row).  A change names the version its caller was shown;    *)
(* its transaction reads the row, from a snapshot, then writes it if it is *)
(* still the row that was read and has that version, and logs the price    *)
(* that was read.  A row that is removed and created again is another row  *)
(* whose versions start at 0 again.  A phone that moves to another branch  *)
(* loses its price: the row is read, then deleted by id.  A sale whose     *)
(* price nobody typed is charged what the rows say.                        *)
(***************************************************************************)
EXTENDS Integers, Sequences, FiniteSets

CONSTANTS VariantPrices,   \* (product, branch) pairs with a branch price
          PhonePrices,     \* phones of that product that may have a price of their own
          ShelfPrices,     \* stock rows of counted products
          PriceTags,       \* the prices that are asked
          NoPrice,
          DefaultPrice,    \* products.default_price, or NoPrice
          PaidFor,         \* what the goods cost
          PriceUsers,      \* who may edit prices
          PriceOwners,     \* the owners, who have discount.override
          MaxChanges       \* bound: changes of one price

VARIABLES priced,     \* what the row of each target has been: the last one is now
          priceLog,   \* price_change_events of each target; also which row it was,
                      \* the price the caller was shown and who was notified
          carried,    \* logged removals by a move
          charges     \* what sales were charged

priceVars == <<priced, priceLog, carried, charges>>

Targeted == VariantPrices \cup PhonePrices \cup ShelfPrices
Unpriced == [price |-> NoPrice, version |-> 0, row |-> 0]
PriceRow(t) == priced[t][Len(priced[t])]

PricesTypeOK ==
    /\ priced \in [Targeted -> Seq([price: PriceTags \cup {NoPrice}, version: Nat, row: Nat])]
    /\ priceLog \in [Targeted -> Seq([from: PriceTags \cup {NoPrice, 0}, to: PriceTags \cup {NoPrice},
                                      shown: PriceTags \cup {NoPrice}, row: Nat,
                                      by: PriceUsers, told: SUBSET PriceOwners])]

(* No price has been set; a stock row may have got one when the first goods *)
(* were received, and is there without one after an import.                 *)
PricesInit ==
    /\ \E first \in [ShelfPrices -> PriceTags \cup {NoPrice}] :
          priced = [t \in Targeted |-> <<IF t \in ShelfPrices
                     THEN [price |-> first[t], version |-> 0, row |-> 1] ELSE Unpriced>>]
    /\ priceLog = [t \in Targeted |-> <<>>]
    /\ carried = [t \in Targeted |-> {}]
    /\ charges = {}

-----------------------------------------------------------------------------
(* assertNotBelowCost, assertVariantNotBelowCost *)
AnyPrice(p, by) == TRUE
NotBelowCost(p, by) == p >= PaidFor \/ by \in PriceOwners

(* notifyOwnersTx: every owner but the one who did it. *)
NotifyOwners(by) == PriceOwners \ {by}

(* recordChangeTx: the write, its event and the notifications commit        *)
(* together.                                                                *)
RecordChange(t, row, event) ==
    /\ Len(priceLog[t]) < MaxChanges
    /\ priced' = IF row = PriceRow(t) THEN priced ELSE [priced EXCEPT ![t] = Append(@, row)]
    /\ priceLog' = [priceLog EXCEPT ![t] = Append(@, event)]
    /\ UNCHANGED charges

(* What a request goes by: the row its caller was shown, of which only the  *)
(* version is sent, and the row its transaction read after that.            *)
Asking(t) == UNION {{[shown |-> priced[t][i], load |-> priced[t][j]] : i \in 1..j} :
                        j \in DOMAIN priced[t]}
Event(q, row, from, to, by, told) ==
    [from |-> from, to |-> to, shown |-> q.shown.price, row |-> row, by |-> by, told |-> told]

(* where id = what was read and version = what the caller sent. *)
SameRow(t, q) == PriceRow(t).row = q.load.row
SameVersion(t, q) == PriceRow(t).row = q.load.row /\ PriceRow(t).version = q.shown.version

Replace(t, q, from, p, by) ==
    /\ SameVersion(t, q)
    /\ RecordChange(t, [PriceRow(t) EXCEPT !.price = p, !.version = @ + 1],
                    Event(q, q.load.row, from, p, by, NotifyOwners(by)))
    /\ UNCHANGED carried

Update(t, q, p, by) ==
    /\ NoPrice \notin {q.shown.price, q.load.price, PriceRow(t).price}
    /\ Replace(t, q, q.load.price, p, by)

(* No version is asked for; the unique index refuses a second row. *)
Insert(t, q, p, by) ==
    /\ q.load.price = NoPrice /\ PriceRow(t).price = NoPrice
    /\ RecordChange(t, [price |-> p, version |-> 0, row |-> PriceRow(t).row + 1],
                    Event(q, PriceRow(t).row + 1, NoPrice, p, by, NotifyOwners(by)))
    /\ UNCHANGED carried

Gone(t) == [PriceRow(t) EXCEPT !.price = NoPrice, !.version = 0]

Delete(t, q, by) ==
    /\ NoPrice \notin {q.shown.price, q.load.price, PriceRow(t).price}
    /\ SameVersion(t, q)
    /\ RecordChange(t, Gone(t), Event(q, q.load.row, q.load.price, NoPrice, by, NotifyOwners(by)))
    /\ UNCHANGED carried

SetBranchVariantPrice(t, q, p, by) ==
    /\ t \in VariantPrices
    /\ NotBelowCost(p, by)
    /\ Update(t, q, p, by) \/ Insert(t, q, p, by)

RemoveBranchVariantPrice(t, q, by) == t \in VariantPrices /\ Delete(t, q, by)

SetOwnPrice(t, q, p, by) ==
    /\ t \in PhonePrices
    /\ NotBelowCost(p, by)
    /\ Update(t, q, p, by) \/ Insert(t, q, p, by)

RemoveOwnPrice(t, q, by) == t \in PhonePrices /\ Delete(t, q, by)

(* The stock row is there, priced or not, and Number(null) is 0. *)
SetQuantityPrice(t, q, p, by) ==
    /\ t \in ShelfPrices
    /\ NotBelowCost(p, by)
    /\ Replace(t, q, IF q.load.price = NoPrice THEN 0 ELSE q.load.price, p, by)

(* invalidateOnBranchMoveTx: whatever price the transaction read is what    *)
(* the event says.  A row deleted meanwhile is logged as removed again.     *)
PhoneMoves(t, q, by) ==
    /\ t \in PhonePrices
    /\ q.shown = q.load /\ q.load.price # NoPrice
    /\ RecordChange(t, IF SameRow(t, q) THEN Gone(t) ELSE PriceRow(t),
                    Event(q, q.load.row, q.load.price, NoPrice, by, {}))
    /\ carried' = [carried EXCEPT ![t] = @ \cup {Len(priceLog'[t])}]

-----------------------------------------------------------------------------
(* price-resolution.ts: the phone's own price, then the branch's, then the  *)
(* product's; the stock row's, then the product's.                          *)
ResolveProductLevel(variant) ==
    IF variant.price # NoPrice THEN [from |-> "branch_variant", price |-> variant.price]
    ELSE IF DefaultPrice # NoPrice THEN [from |-> "product_default", price |-> DefaultPrice]
    ELSE [from |-> "unpriced", price |-> NoPrice]

ResolveSerialized(own, variant) ==
    IF own.price # NoPrice THEN [from |-> "unit_override", price |-> own.price]
    ELSE ResolveProductLevel(variant)

ResolveQuantity(row) ==
    IF row.price # NoPrice THEN [from |-> "stock_item", price |-> row.price]
    ELSE ResolveProductLevel(Unpriced)

(* resolveForSaleTx, which reads from the snapshot of its transaction. *)
ResolveForSale(t, v) ==
    LET resolved == IF t \in ShelfPrices THEN ResolveQuantity(PriceRow(t))
                    ELSE ResolveSerialized(PriceRow(t), PriceRow(v))
    IN  /\ resolved.price # NoPrice
        /\ charges' = charges \cup {[what |-> t, from |-> resolved.from, price |-> resolved.price]}
        /\ charges' # charges
        /\ UNCHANGED <<priced, priceLog, carried>>

PriceStep ==
    \/ \E t \in Targeted, by \in PriceUsers : \E q \in Asking(t) :
          \/ \E p \in PriceTags : \/ SetBranchVariantPrice(t, q, p, by)
                                  \/ SetOwnPrice(t, q, p, by)
                                  \/ SetQuantityPrice(t, q, p, by)
          \/ RemoveBranchVariantPrice(t, q, by) \/ RemoveOwnPrice(t, q, by)
          \/ PhoneMoves(t, q, by)
    \/ \E t \in PhonePrices \cup ShelfPrices, v \in VariantPrices : ResolveForSale(t, v)
=============================================================================
