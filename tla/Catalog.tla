------------------------------- MODULE Catalog -------------------------------
(***************************************************************************)
(* Products and the categories that decide how a product is tracked.  A    *)
(* product is filed (created or edited) in two parts: everything is looked *)
(* up and checked first, the row is written later, and only the fields     *)
(* that were to change.  The mode of a category may change while nothing   *)
(* is filed under it, which is counted before the write; the mode of a     *)
(* product while nothing of it was ever received, which is counted before  *)
(* as well.  Goods are received by hand the way the product's mode says,   *)
(* which is looked up before the transaction that writes them; a file is   *)
(* received the way the file is, whatever the product it names.            *)
(*                                                                         *)
(* `serial' is a mode of old rows and of products a file of serial numbers *)
(* created; in a request nobody may choose it newly.                       *)
(***************************************************************************)
EXTENDS Integers, FiniteSets

CONSTANTS Articles, Categories, NoCategory, Barcodes, NoBarcode,
          Filings,      \* requests on products that may be under way
          Deliveries,   \* goods being received by hand
          MaxFiled      \* bound: requests on products and categories

VARIABLES article,     \* products
          category,    \* product_categories: their mode
          remode,      \* the mode a request is about to give a category
          filing,      \* requests on products, after their checks
          delivery,    \* deliveries, after the product was looked up
          stocked,     \* how goods of a product were received, and its mode then
          contested,   \* products and categories two requests worked on at once
          filed

catalogVars == <<article, category, remode, filing, delivery, stocked, contested, filed>>

Modes == {"imei", "quantity", "serial"}
NoMode == "none"
NoArticle == [state |-> "none", category |-> NoCategory, mode |-> NoMode, barcode |-> NoBarcode]
NotArriving == [what |-> "none", kind |-> NoMode]
NotFiling == [what |-> "none", article |-> NoArticle, before |-> NoArticle]

CatalogTypeOK ==
    /\ article \in [Articles -> [state: {"none", "active", "archived"},
          category: Categories \cup {NoCategory}, mode: Modes \cup {NoMode},
          barcode: Barcodes \cup {NoBarcode}]]
    /\ category \in [Categories -> Modes]
    /\ stocked \in [Articles -> SUBSET [by: {"hand", "file"}, kind: Modes, mode: Modes]]
    /\ contested \subseteq Articles \cup Categories

CatalogInit ==
    /\ article = [a \in Articles |-> NoArticle]
    /\ category \in [Categories -> Modes]
    /\ remode = [c \in Categories |-> NoMode]
    /\ filing = [f \in Filings |-> NotFiling]
    /\ delivery = [d \in Deliveries |-> NotArriving]
    /\ stocked = [a \in Articles |-> {}]
    /\ contested = {} /\ filed = 0

-----------------------------------------------------------------------------
(* tracking-modes.ts *)
Selectable(next, current) == next \in {"imei", "quantity"} \/ next = current

(* The category decides; a request that says otherwise is refused. *)
ResolveTrackingType(categoryMode, asked) ==
    IF asked \in {NoMode, categoryMode} THEN {categoryMode} ELSE {}

TrackingChangeSafe(hasHistory) == ~hasHistory
HasHistory(a) == stocked[a] # {}

BarcodeFree(code, a) ==
    code # NoBarcode => \A b \in Articles \ {a} : article[b].barcode # code

InFlightOn(a) == {f \in Filings : filing[f].what = a}
ArrivingOf(a) == {d \in Deliveries : delivery[d].what = a}
FiledUnder(c) == {f \in Filings : c \in {filing[f].article.category, filing[f].before.category}}

(* Every request counts; a second one on the same rows, or a delivery that  *)
(* has looked the product up, makes them contested.                         *)
Begin(f, a, row, before) ==
    LET beside == (IF InFlightOn(a) \cup ArrivingOf(a) # {} THEN {a} ELSE {})
                  \cup {c \in {row.category, before.category} \ {NoCategory} : remode[c] # NoMode}
    IN  /\ filing[f] = NotFiling
        /\ filed < MaxFiled /\ filed' = filed + 1
        /\ filing' = [filing EXCEPT ![f] = [what |-> a, article |-> row, before |-> before]]
        /\ contested' = contested \cup beside
        /\ UNCHANGED <<article, category, remode, delivery, stocked>>

(* create, up to its transaction. *)
BeginCreateProduct(f, a, c, asked, code) ==
    /\ article[a] = NoArticle /\ InFlightOn(a) = {}
    /\ BarcodeFree(code, a)
    /\ \E mode \in IF c # NoCategory THEN ResolveTrackingType(category[c], asked)
                   ELSE IF asked = NoMode THEN {"imei"} ELSE {m \in {asked} : Selectable(m, NoMode)} :
          Begin(f, a, [state |-> "active", category |-> c, mode |-> mode, barcode |-> code], NoArticle)

(* update, up to its transaction. *)
BeginUpdateProduct(f, a, c, asked, code) ==
    LET before == article[a] IN
    /\ before # NoArticle
    /\ BarcodeFree(code, a)
    /\ \E mode \in IF c # NoCategory THEN ResolveTrackingType(category[c], asked)
                   ELSE {IF asked = NoMode THEN before.mode ELSE asked} :
          /\ mode # before.mode => Selectable(mode, before.mode) /\ TrackingChangeSafe(HasHistory(a))
          /\ [before EXCEPT !.category = c, !.mode = mode, !.barcode = code] # before
          /\ Begin(f, a, [before EXCEPT !.category = c, !.mode = mode, !.barcode = code], before)

(* The transaction writes what differs from the row that was loaded; the    *)
(* unique index has the last word on a barcode.  A new barcode is queued   *)
(* for the scanner in the same transaction; the queue is Outbox.            *)
Merged(now, before, row) ==
    [state |-> IF before = NoArticle THEN row.state ELSE now.state,
     category |-> IF row.category # before.category THEN row.category ELSE now.category,
     mode |-> IF row.mode # before.mode THEN row.mode ELSE now.mode,
     barcode |-> IF row.barcode # before.barcode THEN row.barcode ELSE now.barcode]

WriteProduct(f) ==
    LET a == filing[f].what
        row == Merged(article[a], filing[f].before, filing[f].article) IN
    /\ filing[f] # NotFiling
    /\ filing' = [filing EXCEPT ![f] = NotFiling]
    /\ article' = IF BarcodeFree(row.barcode, a) THEN [article EXCEPT ![a] = row] ELSE article
    /\ UNCHANGED <<category, remode, delivery, stocked, contested, filed>>

(* setActive: by id, on whatever the row is now. *)
SetActive(a, active) ==
    /\ article[a].state # (IF active THEN "active" ELSE "archived") /\ article[a] # NoArticle
    /\ article' = [article EXCEPT ![a].state = IF active THEN "active" ELSE "archived"]
    /\ UNCHANGED <<category, remode, filing, delivery, stocked, contested, filed>>

(* CategoriesService.update with another mode: an empty category, counted   *)
(* before the row is written.                                               *)
CountedLoosely(c) == \A a \in Articles : article[a].category = c => article[a].state = "archived"
CountedEmpty(c) == \A a \in Articles : article[a].category # c

BeginRemode(c, m) ==
    /\ remode[c] = NoMode
    /\ m # category[c] /\ Selectable(m, category[c])
    /\ CountedEmpty(c)
    /\ filed < MaxFiled /\ filed' = filed + 1
    /\ remode' = [remode EXCEPT ![c] = m]
    /\ contested' = IF FiledUnder(c) # {} THEN contested \cup {c} ELSE contested
    /\ UNCHANGED <<article, category, filing, delivery, stocked>>

WriteRemode(c) ==
    /\ remode[c] # NoMode
    /\ category' = [category EXCEPT ![c] = remode[c]]
    /\ remode' = [remode EXCEPT ![c] = NoMode]
    /\ UNCHANGED <<article, filing, delivery, stocked, contested, filed>>

Beside(a) == IF InFlightOn(a) # {} THEN contested \cup {a} ELSE contested
Received(a, by, kind, mode) ==
    stocked' = [stocked EXCEPT ![a] = @ \cup {[by |-> by, kind |-> kind, mode |-> mode]}]

(* quickAdd and a purchase: the strategy of the mode that was looked up,    *)
(* then the transaction.                                                    *)
BeginReceipt(d, a) ==
    /\ delivery[d] = NotArriving /\ article[a] # NoArticle
    /\ delivery' = [delivery EXCEPT ![d] = [what |-> a, kind |-> article[a].mode]]
    /\ contested' = Beside(a)
    /\ UNCHANGED <<article, category, remode, filing, stocked, filed>>

WriteReceipt(d) ==
    LET a == delivery[d].what IN
    /\ delivery[d] # NotArriving
    /\ Received(a, "hand", delivery[d].kind, article[a].mode)
    /\ delivery' = [delivery EXCEPT ![d] = NotArriving]
    /\ UNCHANGED <<article, category, remode, filing, contested, filed>>

(* Found by its name whatever its mode, or created without a category. *)
FindOrCreateProduct(a, kind) ==
    IF article[a] # NoArticle THEN article[a]
    ELSE [NoArticle EXCEPT !.state = "active", !.mode = kind]

(* A row of a file: the product and the goods, in the transaction of the    *)
(* import.  A product that is just being created does not exist yet for it: *)
(* names are not unique, so it creates another one.                         *)
ImportRow(a, kind) ==
    /\ InFlightOn(a) # {} => article[a] # NoArticle
    /\ article' = [article EXCEPT ![a] = FindOrCreateProduct(a, kind)]
    /\ Received(a, "file", kind, article'[a].mode)
    /\ contested' = Beside(a)
    /\ UNCHANGED <<category, remode, filing, delivery, filed>>

CatalogStep ==
    \/ \E f \in Filings, a \in Articles, c \in Categories \cup {NoCategory},
          asked \in Modes \cup {NoMode}, code \in Barcodes \cup {NoBarcode} :
          BeginCreateProduct(f, a, c, asked, code) \/ BeginUpdateProduct(f, a, c, asked, code)
    \/ \E f \in Filings : WriteProduct(f)
    \/ \E a \in Articles, active \in BOOLEAN : SetActive(a, active)
    \/ \E d \in Deliveries : WriteReceipt(d) \/ \E a \in Articles : BeginReceipt(d, a)
    \/ \E a \in Articles, kind \in Modes : ImportRow(a, kind)
    \/ \E c \in Categories : WriteRemode(c) \/ \E m \in Modes : BeginRemode(c, m)
=============================================================================
