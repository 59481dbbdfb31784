----------------------------- MODULE DealsProofs -----------------------------
(***************************************************************************)
(* Consignments between two companies, for any number of phones, deals,    *)
(* sales and amounts: no phone is lost between the two shops, and every    *)
(* change of a deal's status is one its table has.                         *)
(***************************************************************************)
EXTENDS Deals, TLAPS

-----------------------------------------------------------------------------
(* The account of one phone. *)
AccountOf(u) ==
    /\ unit[u].status = "consigned_out" => \E c \in ConsignmentIds : OnActiveLine(c, u)
    /\ \A c \in ConsignmentIds : OnActiveLine(c, u) =>
          /\ unit[u].status \in {"consigned_out", "faulty"}
          /\ \A d \in ConsignmentIds : OnActiveLine(d, u) => d = c
          /\ \A i \in SaleIds : u \notin sale[i].units
    /\ SoldBySale(u)

Columns == unit \in [Units -> UnitRow] /\ SalesTypeOK /\ DealColumns

(* The invariant, phone by phone. *)
LEMMA ByPhone == PhonesInv <=> Columns /\ \A u \in Units : AccountOf(u)
BY DEF PhonesInv, PhonesAccounted, AccountOf, Columns

(* The same of the state after a step. *)
LEMMA ByPhoneAfter == Columns' /\ (\A u \in Units : AccountOf(u)') => PhonesInv'
BY DEF PhonesInv, PhonesAccounted, AccountOf, Columns

(* UPDATE units SET status, seen from one phone. *)
LEMMA StatusSet ==
    ASSUME NEW us, NEW s \in UnitStatus, unit \in [Units -> UnitRow],
           WriteUnits(WithStatus(unit, us, s))
    PROVE  /\ unit' \in [Units -> UnitRow]
           /\ \A u \in Units : unit'[u].status = IF u \in us THEN s ELSE unit[u].status
<1>1. unit' = WithStatus(unit, us, s)
  BY DEF WriteUnits
<1>2. ASSUME NEW u \in Units
      PROVE  LET r == IF u \in us THEN [unit[u] EXCEPT !.status = s] ELSE unit[u]
             IN  r \in UnitRow /\ r.status = IF u \in us THEN s ELSE unit[u].status
  BY DEF UnitRow
<1> QED BY <1>1, <1>2 DEF WithStatus

(* A phone keeps its account when its lines and sales stay and its status   *)
(* does, or becomes faulty.                                                 *)
LEMMA Kept ==
    ASSUME NEW u \in Units, AccountOf(u), sale' = sale,
           unit'[u].status \in {unit[u].status, "faulty"},
           \A c \in ConsignmentIds : OnActiveLine(c, u)' <=> OnActiveLine(c, u)
    PROVE  AccountOf(u)'
BY DEF AccountOf, SoldBySale

(* The lines of one deal change, those of the others do not. *)
LEMMA LinesAfter ==
    ASSUME DealColumns, NEW c \in ConsignmentIds, NEW row \in DealRow,
           deal' = [deal EXCEPT ![c] = row]
    PROVE  /\ deal' \in [ConsignmentIds -> DealRow]
           /\ \A u \in Units : OnActiveLine(c, u)' <=> row.line[u] \in {"proposed", "in_custody"}
           /\ \A d \in ConsignmentIds \ {c} : \A u \in Units : OnActiveLine(d, u)' <=> OnActiveLine(d, u)
           /\ deal'[c] = row /\ \A d \in ConsignmentIds \ {c} : deal'[d] = deal[d]
BY DEF DealColumns, OnActiveLine

(* A deal that has not been made has no lines. *)
LEMMA NoDealIsRow ==
    /\ NoDeal \in DealRow
    /\ \A u \in Units : NoDeal.line[u] = "none"
<1>1. NoLine \in [Units -> LineStatus] /\ \A u \in Units : NoLine[u] = "none"
  BY DEF NoLine, LineStatus
<1>2. NoDeal.line = NoLine
  BY DEF NoDeal
<1>3. NoDeal \in DealRow
  BY <1>1 DEF NoDeal, DealRow, DealStatus, Sides
<1> QED BY <1>1, <1>2, <1>3

(* The table of the lifecycle. *)
LEMMA Table ==
    /\ DOMAIN Rules = {"accept", "counter", "dispute", "reject", "cancel", "send_custody",
                       "confirm_custody", "report_sold", "record_payment", "settle",
                       "initiate_return", "ship_return", "confirm_return", "forgive"}
    /\ \A a \in DOMAIN Rules : Rules[a].to \in DealStatus
    /\ Rules["settle"].from = {"sold_awaiting_settlement", "partially_paid"}
    /\ Rules["record_payment"].from = {"sold_awaiting_settlement", "partially_paid"}
    /\ Rules["forgive"].from = {"sold_awaiting_settlement", "partially_paid"}
    /\ Rules["record_payment"].to = "partially_paid"
    /\ Rules["settle"].to = "settled"
    /\ Rules["forgive"].to = "forgiven_settled"
BY DEF Rules, Rule, DealStatus

-----------------------------------------------------------------------------
(* A decision on deal c under rule a that leaves it with these lines. *)
Moved(c, a, line) ==
    \E row \in DealRow :
        /\ WriteDeal(c, row)
        /\ row.line = line
        /\ deal[c].status \in Rules[a].from /\ row.status = Rules[a].to

(* What the other columns of a row become does not matter here. *)
LEMMA RowIs ==
    ASSUME DealColumns, NEW c \in ConsignmentIds, NEW a \in DOMAIN Rules,
           NEW row \in DealRow, deal[c].status \in Rules[a].from,
           WriteDeal(c, [row EXCEPT !.status = Rules[a].to, !.version = deal[c].version + 1])
    PROVE  Moved(c, a, row.line)
<1> DEFINE new == [row EXCEPT !.status = Rules[a].to, !.version = deal[c].version + 1]
<1>1. Rules[a].to \in DealStatus
  BY Table
<1>2. deal[c].version \in Nat
  BY DEF DealColumns, DealRow
<1>3. new \in DealRow /\ new.line = row.line /\ new.status = Rules[a].to
  <2>1. ASSUME NEW s \in DealStatus, NEW v \in Nat
        PROVE  LET r == [row EXCEPT !.status = s, !.version = v]
               IN  r \in DealRow /\ r.line = row.line /\ r.status = s
    BY DEF DealRow
  <2>2. deal[c].version + 1 \in Nat
    BY <1>2
  <2> QED BY <1>1, <2>1, <2>2
<1> HIDE DEF new
<1>4. WriteDeal(c, new)
  BY DEF new
<1> QED BY <1>3, <1>4 DEF Moved

(* A decision acts on the status the row has: the swap compares it. *)
LEMMA Swapped ==
    ASSUME NEW c \in ConsignmentIds, NEW load, NEW a, NEW side,
           MayTake(a, load.status, side), SwapHolds(c, load)
    PROVE  deal[c].status \in Rules[a].from
BY DEF MayTake, SwapHolds

(* decide: what is accepted is the offer that was loaded. *)
LEMMA AcceptRow ==
    ASSUME DealColumns, NEW c \in ConsignmentIds, NEW side \in Sides, Accept(c, side)
    PROVE  Moved(c, "accept", deal[c].line)
<1>1. PICK load \in dealSeen[c] :
         /\ MayTake("accept", load.status, side) /\ SwapHolds(c, load)
         /\ WriteDeal(c, [[deal[c] EXCEPT !.agreed = load.offer] EXCEPT
                             !.status = Rules["accept"].to, !.version = deal[c].version + 1])
  BY Zenon DEF Accept, Advance
<1> DEFINE row == [deal[c] EXCEPT !.agreed = load.offer]
<1>2. row \in DealRow /\ row.line = deal[c].line
  BY <1>1 DEF DealColumns, DealRow
<1>3. WriteDeal(c, [row EXCEPT !.status = Rules["accept"].to, !.version = deal[c].version + 1])
  BY <1>1
<1>4. deal[c].status \in Rules["accept"].from
  BY <1>1, Swapped
<1>5. "accept" \in DOMAIN Rules
  BY Table
<1> HIDE DEF row
<1> QED BY <1>2, <1>3, <1>4, <1>5, RowIs, Zenon

(* The other decisions, likewise. *)
LEMMA CounterRow ==
    ASSUME DealColumns, NEW c \in ConsignmentIds, NEW side \in Sides, NEW amount \in Offers,
           Counter(c, side, amount)
    PROVE  Moved(c, "counter", deal[c].line)
<1> DEFINE row == [deal[c] EXCEPT !.counter = amount, !.offeredBy = side]
<1>1. PICK load \in dealSeen[c] :
         /\ MayTake("counter", load.status, side) /\ SwapHolds(c, load)
         /\ WriteDeal(c, [row EXCEPT !.status = Rules["counter"].to, !.version = deal[c].version + 1])
  BY DEF Counter, Advance
<1>2. row \in DealRow /\ row.line = deal[c].line
  <2>1. deal[c] \in DealRow /\ amount \in Nat
    BY ConsignmentsAssumption DEF DealColumns
  <2> QED BY <2>1 DEF DealRow
<1>3. deal[c].status \in Rules["counter"].from
  BY <1>1, Swapped
<1>4. "counter" \in DOMAIN Rules
  BY Table
<1> HIDE DEF row
<1> QED BY <1>1, <1>2, <1>3, <1>4, RowIs, Zenon

(* dispute *)
LEMMA DisputeRow ==
    ASSUME DealColumns, NEW c \in ConsignmentIds, NEW side \in Sides,
           Dispute(c, side)
    PROVE  Moved(c, "dispute", deal[c].line)
<1> DEFINE row == deal[c]
<1>1. PICK load \in dealSeen[c] :
         /\ MayTake("dispute", load.status, side) /\ SwapHolds(c, load)
         /\ WriteDeal(c, [row EXCEPT !.status = Rules["dispute"].to, !.version = deal[c].version + 1])
  BY DEF Dispute, Advance
<1>2. row \in DealRow /\ row.line = deal[c].line
  BY DEF DealColumns
<1>3. deal[c].status \in Rules["dispute"].from
  BY <1>1, Swapped
<1>4. "dispute" \in DOMAIN Rules
  BY Table
<1> HIDE DEF row
<1> QED BY <1>1, <1>2, <1>3, <1>4, RowIs, Zenon

(* reject and cancel: the open lines are cancelled. *)
LEMMA CallOffRow ==
    ASSUME DealColumns, NEW c \in ConsignmentIds, NEW side \in Sides, NEW a \in {"reject", "cancel"},
           CallOff(c, side, a)
    PROVE  Moved(c, a, WithLines(deal[c].line, OpenLines(c), "cancelled"))
<1> DEFINE row == [deal[c] EXCEPT !.line = WithLines(deal[c].line, OpenLines(c), "cancelled")]
<1>1. PICK load \in dealSeen[c] :
         /\ MayTake(a, load.status, side) /\ SwapHolds(c, load)
         /\ WriteDeal(c, [row EXCEPT !.status = Rules[a].to, !.version = deal[c].version + 1])
  BY DEF CallOff, Advance
<1>2. row \in DealRow /\ row.line = WithLines(deal[c].line, OpenLines(c), "cancelled")
  <2>1. deal[c] \in DealRow /\ deal[c].line \in [Units -> LineStatus]
    BY DEF DealColumns, DealRow
  <2>2. WithLines(deal[c].line, OpenLines(c), "cancelled") \in [Units -> LineStatus]
    BY <2>1 DEF WithLines, LineStatus
  <2> QED BY <2>1, <2>2 DEF DealRow
<1>3. deal[c].status \in Rules[a].from
  BY <1>1, Swapped
<1>4. a \in DOMAIN Rules
  BY Table
<1> HIDE DEF row
<1> QED BY <1>1, <1>2, <1>3, <1>4, RowIs, Zenon

(* The phones are handed over. *)
LEMMA SendRow ==
    ASSUME DealColumns, NEW c \in ConsignmentIds, NEW side \in Sides,
           SendCustody(c, side)
    PROVE  Moved(c, "send_custody", deal[c].line)
<1> DEFINE row == deal[c]
<1>1. PICK load \in dealSeen[c] :
         /\ MayTake("send_custody", load.status, side) /\ SwapHolds(c, load)
         /\ WriteDeal(c, [row EXCEPT !.status = Rules["send_custody"].to, !.version = deal[c].version + 1])
  BY DEF SendCustody, Advance
<1>2. row \in DealRow /\ row.line = deal[c].line
  BY DEF DealColumns
<1>3. deal[c].status \in Rules["send_custody"].from
  BY <1>1, Swapped
<1>4. "send_custody" \in DOMAIN Rules
  BY Table
<1> HIDE DEF row
<1> QED BY <1>1, <1>2, <1>3, <1>4, RowIs, Zenon

(* The phones have arrived. *)
LEMMA ConfirmRow ==
    ASSUME DealColumns, NEW c \in ConsignmentIds, NEW side \in Sides,
           ConfirmCustody(c, side)
    PROVE  Moved(c, "confirm_custody", WithLines(deal[c].line, LinesIn(c, "proposed"), "in_custody"))
<1> DEFINE row == [deal[c] EXCEPT !.line = WithLines(deal[c].line, LinesIn(c, "proposed"), "in_custody")]
<1>1. PICK load \in dealSeen[c] :
         /\ MayTake("confirm_custody", load.status, side) /\ SwapHolds(c, load)
         /\ WriteDeal(c, [row EXCEPT !.status = Rules["confirm_custody"].to, !.version = deal[c].version + 1])
  BY DEF ConfirmCustody, Advance
<1>2. row \in DealRow /\ row.line = WithLines(deal[c].line, LinesIn(c, "proposed"), "in_custody")
  <2>1. deal[c] \in DealRow /\ deal[c].line \in [Units -> LineStatus]
    BY DEF DealColumns, DealRow
  <2>2. WithLines(deal[c].line, LinesIn(c, "proposed"), "in_custody") \in [Units -> LineStatus]
    BY <2>1 DEF WithLines, LineStatus
  <2> QED BY <2>1, <2>2 DEF DealRow
<1>3. deal[c].status \in Rules["confirm_custody"].from
  BY <1>1, Swapped
<1>4. "confirm_custody" \in DOMAIN Rules
  BY Table
<1> HIDE DEF row
<1> QED BY <1>1, <1>2, <1>3, <1>4, RowIs, Zenon

(* Some of them are sold. *)
LEMMA SoldRow ==
    ASSUME DealColumns, NEW c \in ConsignmentIds, NEW side \in Sides, NEW us,
           ReportSold(c, side, us)
    PROVE  Moved(c, "report_sold", WithLines(deal[c].line, us, "sold"))
<1> DEFINE row == [deal[c] EXCEPT !.line = WithLines(deal[c].line, us, "sold")]
<1>1. PICK load \in dealSeen[c] :
         /\ MayTake("report_sold", load.status, side) /\ SwapHolds(c, load)
         /\ WriteDeal(c, [row EXCEPT !.status = Rules["report_sold"].to, !.version = deal[c].version + 1])
  BY DEF ReportSold, Advance
<1>2. row \in DealRow /\ row.line = WithLines(deal[c].line, us, "sold")
  <2>1. deal[c] \in DealRow /\ deal[c].line \in [Units -> LineStatus]
    BY DEF DealColumns, DealRow
  <2>2. WithLines(deal[c].line, us, "sold") \in [Units -> LineStatus]
    BY <2>1 DEF WithLines, LineStatus
  <2> QED BY <2>1, <2>2 DEF DealRow
<1>3. deal[c].status \in Rules["report_sold"].from
  BY <1>1, Swapped
<1>4. "report_sold" \in DOMAIN Rules
  BY Table
<1> HIDE DEF row
<1> QED BY <1>1, <1>2, <1>3, <1>4, RowIs, Zenon

(* They are on their way back. *)
LEMMA BeginReturnRow ==
    ASSUME DealColumns, NEW c \in ConsignmentIds, NEW side \in Sides, NEW a \in {"initiate_return", "ship_return"},
           BeginReturn(c, side, a)
    PROVE  Moved(c, a, deal[c].line)
<1> DEFINE row == deal[c]
<1>1. PICK load \in dealSeen[c] :
         /\ MayTake(a, load.status, side) /\ SwapHolds(c, load)
         /\ WriteDeal(c, [row EXCEPT !.status = Rules[a].to, !.version = deal[c].version + 1])
  BY DEF BeginReturn, Advance
<1>2. row \in DealRow /\ row.line = deal[c].line
  BY DEF DealColumns
<1>3. deal[c].status \in Rules[a].from
  BY <1>1, Swapped
<1>4. a \in DOMAIN Rules
  BY Table
<1> HIDE DEF row
<1> QED BY <1>1, <1>2, <1>3, <1>4, RowIs, Zenon

(* They are back. *)
LEMMA ReturnRow ==
    ASSUME DealColumns, NEW c \in ConsignmentIds, NEW side \in Sides, NEW damaged \in BOOLEAN,
           ConfirmReturn(c, side, damaged)
    PROVE  Moved(c, "confirm_return", WithLines(deal[c].line, LinesIn(c, "in_custody"), "returned"))
<1> DEFINE row == [deal[c] EXCEPT !.line = WithLines(deal[c].line, LinesIn(c, "in_custody"), "returned")]
<1>1. PICK load \in dealSeen[c] :
         /\ MayTake("confirm_return", load.status, side) /\ SwapHolds(c, load)
         /\ WriteDeal(c, [row EXCEPT !.status = Rules["confirm_return"].to, !.version = deal[c].version + 1])
  BY DEF ConfirmReturn, Advance
<1>2. row \in DealRow /\ row.line = WithLines(deal[c].line, LinesIn(c, "in_custody"), "returned")
  <2>1. deal[c] \in DealRow /\ deal[c].line \in [Units -> LineStatus]
    BY DEF DealColumns, DealRow
  <2>2. WithLines(deal[c].line, LinesIn(c, "in_custody"), "returned") \in [Units -> LineStatus]
    BY <2>1 DEF WithLines, LineStatus
  <2> QED BY <2>1, <2>2 DEF DealRow
<1>3. deal[c].status \in Rules["confirm_return"].from
  BY <1>1, Swapped
<1>4. "confirm_return" \in DOMAIN Rules
  BY Table
<1> HIDE DEF row
<1> QED BY <1>1, <1>2, <1>3, <1>4, RowIs, Zenon

-----------------------------------------------------------------------------
(* The columns after a row of the table of deals is written. *)
LEMMA Written ==
    ASSUME DealColumns, NEW c \in ConsignmentIds, NEW row \in DealRow,
           WriteDeal(c, row), closing' = closing
    PROVE  DealColumns'
<1>1. LoadOf(row) \in [status: DealStatus, version: Nat, offer: Nat]
  BY DEF LoadOf, OfferOf, DealRow
<1>2. deal' \in [ConsignmentIds -> DealRow]
  BY DEF WriteDeal, DealColumns
<1>3. dealSeen' \in [ConsignmentIds -> SUBSET [status: DealStatus, version: Nat, offer: Nat]]
  BY <1>1 DEF WriteDeal, DealColumns
<1> QED BY <1>2, <1>3 DEF DealColumns

(* After a decision the columns are still columns, the step was legal, and *)
(* the active lines are those it names.                                    *)
LEMMA MovedOn ==
    ASSUME DealColumns, NEW c \in ConsignmentIds, NEW a \in DOMAIN Rules, NEW line,
           Moved(c, a, line), closing' = closing
    PROVE  /\ DealColumns' /\ LegalStep
           /\ \A u \in Units : OnActiveLine(c, u)' <=> line[u] \in {"proposed", "in_custody"}
           /\ \A d \in ConsignmentIds \ {c} : \A u \in Units : OnActiveLine(d, u)' <=> OnActiveLine(d, u)
<1>1. PICK row \in DealRow :
         /\ WriteDeal(c, row)
         /\ row.line = line
         /\ deal[c].status \in Rules[a].from /\ row.status = Rules[a].to
  BY DEF Moved
<1>2. deal' = [deal EXCEPT ![c] = row]
  BY <1>1 DEF WriteDeal
<1>3. LegalStep
  BY <1>1, <1>2, LinesAfter DEF LegalStep
<1> QED BY <1>1, <1>2, <1>3, LinesAfter, Written

(* A decision that leaves every phone where it is. *)
LEMMA NoPhoneMoves ==
    ASSUME PhonesInv, NEW c \in ConsignmentIds, NEW a \in DOMAIN Rules,
           Moved(c, a, deal[c].line), UNCHANGED <<unit, sale, closing>>
    PROVE  PhonesInv' /\ LegalStep
<1>1. Columns /\ \A u \in Units : AccountOf(u)
  BY ByPhone
<1>2. Columns' /\ LegalStep
  BY <1>1, MovedOn DEF Columns, SalesTypeOK
<1>3. \A u \in Units : \A d \in ConsignmentIds : OnActiveLine(d, u)' <=> OnActiveLine(d, u)
  BY <1>1, MovedOn DEF Columns, OnActiveLine
<1>4. \A u \in Units : AccountOf(u)'
  BY <1>1, <1>3, Kept
<1> QED BY <1>2, <1>4, ByPhoneAfter

(* The hand-over: a line stays active. *)
LEMMA ArrivalKeeps ==
    ASSUME PhonesInv, NEW c \in ConsignmentIds, UNCHANGED <<unit, sale, closing>>,
           Moved(c, "confirm_custody", WithLines(deal[c].line, LinesIn(c, "proposed"), "in_custody"))
    PROVE  PhonesInv' /\ LegalStep
<1>1. Columns /\ \A u \in Units : AccountOf(u)
  BY ByPhone
<1>2. "confirm_custody" \in DOMAIN Rules
  BY Table
<1> DEFINE line == WithLines(deal[c].line, LinesIn(c, "proposed"), "in_custody")
<1>3. \A u \in Units : line[u] \in {"proposed", "in_custody"} <=> OnActiveLine(c, u)
  BY DEF WithLines, LinesIn, OnActiveLine
<1> HIDE DEF line
<1>4. Moved(c, "confirm_custody", line)
  BY DEF line
<1>5. Columns' /\ LegalStep
  BY <1>1, <1>2, <1>4, MovedOn DEF Columns, SalesTypeOK
<1>6. \A u \in Units : \A d \in ConsignmentIds : OnActiveLine(d, u)' <=> OnActiveLine(d, u)
  BY <1>1, <1>2, <1>3, <1>4, MovedOn DEF Columns
<1>7. \A u \in Units : AccountOf(u)'
  BY <1>1, <1>6, Kept
<1> QED BY <1>5, <1>7, ByPhoneAfter

(* Lines that end give up their phones: those still consigned out get the  *)
(* status the decision says, the others (faulty by now) are left alone.    *)
LEMMA LinesEnd ==
    ASSUME PhonesInv, NEW c \in ConsignmentIds, NEW a \in DOMAIN Rules,
           NEW us \in SUBSET OpenLines(c), NEW s \in {"sold", "returned", "cancelled"},
           NEW t \in {"in_stock", "sold", "faulty"},
           Moved(c, a, WithLines(deal[c].line, us, s)),
           WriteUnits(WithStatus(unit, ConsignedOut(us), t)), UNCHANGED <<sale, closing>>
    PROVE  PhonesInv' /\ LegalStep
<1>1. Columns /\ \A u \in Units : AccountOf(u)
  BY ByPhone
<1>2. /\ unit' \in [Units -> UnitRow]
      /\ \A u \in Units : unit'[u].status = IF u \in ConsignedOut(us) THEN t ELSE unit[u].status
  BY <1>1, StatusSet DEF Columns, UnitStatus
<1> DEFINE line == WithLines(deal[c].line, us, s)
<1>3. \A u \in Units : line[u] = IF u \in us THEN s ELSE deal[c].line[u]
  BY DEF WithLines
<1>4. \A u \in us : u \in Units /\ OnActiveLine(c, u)
  BY DEF OpenLines, LinesIn, OnActiveLine
<1> HIDE DEF line
<1>5. Moved(c, a, line)
  BY DEF line
<1>6. Columns' /\ LegalStep
  BY <1>1, <1>2, <1>5, MovedOn DEF Columns, SalesTypeOK
<1>7. /\ \A u \in Units : OnActiveLine(c, u)' <=> line[u] \in {"proposed", "in_custody"}
      /\ \A d \in ConsignmentIds \ {c} : \A u \in Units : OnActiveLine(d, u)' <=> OnActiveLine(d, u)
  BY <1>1, <1>5, MovedOn DEF Columns
<1>8. ASSUME NEW u \in Units PROVE AccountOf(u)'
  <2>1. CASE u \notin us
    <3>1. unit'[u].status = unit[u].status
      BY <1>2, <2>1 DEF ConsignedOut
    <3>2. \A d \in ConsignmentIds : OnActiveLine(d, u)' <=> OnActiveLine(d, u)
      BY <1>3, <1>7, <2>1 DEF OnActiveLine
    <3> QED BY <1>1, <3>1, <3>2, Kept
  <2>2. CASE u \in us
    <3>1. \A d \in ConsignmentIds : OnActiveLine(d, u) => d = c
      BY <1>1, <1>4, <2>2 DEF AccountOf
    <3>2. \A d \in ConsignmentIds : ~OnActiveLine(d, u)'
      BY <1>3, <1>7, <2>2, <3>1
    <3>3. unit'[u].status # "consigned_out"
      BY <1>2, <2>2 DEF ConsignedOut
    <3>4. \A i \in SaleIds : u \notin sale[i].units
      BY <1>1, <1>4, <2>2 DEF AccountOf
    <3> QED BY <3>2, <3>3, <3>4 DEF AccountOf, SoldBySale
  <2> QED BY <2>1, <2>2
<1> QED BY <1>6, <1>8, ByPhoneAfter

-----------------------------------------------------------------------------
(* A step that leaves deals, units and sales alone. *)
LEMMA NothingMoves ==
    ASSUME PhonesInv, UNCHANGED <<unit, sale, deal, dealSeen>>,
           \A p \in closing' : p.deal \in ConsignmentIds /\ p.as \in {"settled", "forgiven_settled"}
    PROVE  PhonesInv' /\ LegalStep
<1>1. Columns /\ \A u \in Units : AccountOf(u)
  BY ByPhone
<1>2. Columns'
  BY <1>1 DEF Columns, DealColumns, SalesTypeOK
<1>3. \A u \in Units : AccountOf(u)'
  BY <1>1, Kept DEF OnActiveLine
<1> QED BY <1>2, <1>3, ByPhoneAfter DEF LegalStep

(* create: the phones were in stock, so on no line and on no sale. *)
LEMMA CreateKeeps ==
    ASSUME PhonesInv, sale' = sale, NEW c \in ConsignmentIds, NEW us \in SUBSET Units,
           NEW b \in Branches, NEW manual \in BOOLEAN, NEW amount \in Offers,
           CreateConsignment(c, us, b, manual, amount)
    PROVE  PhonesInv' /\ LegalStep
<1>1. Columns /\ \A u \in Units : AccountOf(u)
  BY ByPhone
<1> DEFINE row == [NoDeal EXCEPT !.status = "requested", !.manual = manual,
                      !.proposed = amount, !.line = WithLines(NoLine, us, "proposed")]
<1>2. NoDeal \in DealRow
  BY NoDealIsRow
<1>3. WithLines(NoLine, us, "proposed") \in [Units -> LineStatus]
  BY DEF WithLines, NoLine, LineStatus
<1>4. row \in DealRow /\ row.line = WithLines(NoLine, us, "proposed")
  <2>1. ASSUME NEW old \in DealRow, NEW line \in [Units -> LineStatus]
        PROVE  LET r == [old EXCEPT !.status = "requested", !.manual = manual,
                            !.proposed = amount, !.line = line]
               IN  r \in DealRow /\ r.line = line
    BY ConsignmentsAssumption DEF DealRow, DealStatus
  <2> QED BY <1>2, <1>3, <2>1
<1>5. \A u \in Units : row.line[u] = IF u \in us THEN "proposed" ELSE "none"
  BY <1>4 DEF WithLines, NoLine
<1>6. WriteDeal(c, row) /\ closing' = closing /\ deal[c] = NoDeal
  BY DEF CreateConsignment
<1> HIDE DEF row
<1>7. WriteUnits(WithStatus(unit, us, "consigned_out"))
  BY DEF CreateConsignment
<1>8. /\ unit' \in [Units -> UnitRow]
      /\ \A u \in Units : unit'[u].status = IF u \in us THEN "consigned_out" ELSE unit[u].status
  BY <1>1, <1>7, StatusSet DEF Columns, UnitStatus
<1>9. \A u \in us : unit[u].status = "in_stock" /\ \A d \in ConsignmentIds : ~OnActiveLine(d, u)
  BY DEF CreateConsignment, ConsignableUnit, OnNoActiveLine, OnActiveLine
<1>10. deal' = [deal EXCEPT ![c] = row]
  BY <1>6 DEF WriteDeal
<1>11. /\ \A u \in Units : OnActiveLine(c, u)' <=> row.line[u] \in {"proposed", "in_custody"}
       /\ \A d \in ConsignmentIds \ {c} : \A u \in Units : OnActiveLine(d, u)' <=> OnActiveLine(d, u)
       /\ \A d \in ConsignmentIds \ {c} : deal'[d] = deal[d]
  BY <1>1, <1>4, <1>10, LinesAfter DEF Columns
<1>12. Columns'
  BY <1>1, <1>4, <1>6, <1>8, Written DEF Columns, SalesTypeOK
<1>13. LegalStep
  BY <1>6, <1>11 DEF LegalStep
<1>14. \A u \in Units : ~OnActiveLine(c, u)
  BY <1>6, NoDealIsRow DEF OnActiveLine
<1>15. ASSUME NEW u \in Units PROVE AccountOf(u)'
  <2>1. CASE u \notin us
    <3>1. unit'[u].status = unit[u].status
      BY <1>8, <2>1
    <3>2. \A d \in ConsignmentIds : OnActiveLine(d, u)' <=> OnActiveLine(d, u)
      BY <1>5, <1>11, <1>14, <2>1
    <3> QED BY <1>1, <3>1, <3>2, Kept
  <2>2. CASE u \in us
    <3>1. OnActiveLine(c, u)' /\ \A d \in ConsignmentIds : OnActiveLine(d, u)' => d = c
      BY <1>5, <1>9, <1>11, <2>2
    <3>2. unit'[u].status = "consigned_out"
      BY <1>8, <2>2
    <3>3. \A i \in SaleIds : u \notin sale[i].units
      BY <1>1, <1>9, <2>2 DEF AccountOf, SoldBySale
    <3> QED BY <3>1, <3>2, <3>3 DEF AccountOf, SoldBySale
  <2> QED BY <2>1, <2>2
<1> QED BY <1>12, <1>13, <1>15, ByPhoneAfter

(* createSale: what is sold was in stock, so on no line. *)
LEMMA SaleKeeps ==
    ASSUME PhonesInv, UNCHANGED conVars, SalesNext
    PROVE  PhonesInv' /\ LegalStep
<1>1. Columns /\ \A u \in Units : AccountOf(u)
  BY ByPhone
<1>2. PICK i \in SaleIds, k \in SaleKeys \cup {NoKey}, cart \in Carts : CreateSale(i, k, cart)
  BY DEF SalesNext
<1>3. cart \in [branch: Branches, units: SUBSET Units, lines: Lines]
  BY SalesAssumption
<1>4. sale' = [sale EXCEPT ![i] = [made |-> TRUE, key |-> k, branch |-> cart.branch,
                                   units |-> cart.units, lines |-> cart.lines]]
  BY <1>2 DEF CreateSale
<1>5. SalesTypeOK'
  BY <1>1, <1>3, <1>4 DEF Columns, SalesTypeOK
<1>6. \A j \in SaleIds : sale'[j].units = IF j = i THEN cart.units ELSE sale[j].units
  BY <1>1, <1>4 DEF Columns, SalesTypeOK
<1>7. WriteUnits(WithStatus(unit, cart.units, "sold"))
  BY <1>2 DEF CreateSale
<1>8. /\ unit' \in [Units -> UnitRow]
      /\ \A u \in Units : unit'[u].status = IF u \in cart.units THEN "sold" ELSE unit[u].status
  BY <1>1, <1>7, StatusSet DEF Columns, UnitStatus
<1>9. \A u \in cart.units : unit[u].status = "in_stock"
  BY <1>2 DEF CreateSale, StillInStock
<1>10. \A d \in ConsignmentIds : \A u \in Units : OnActiveLine(d, u)' <=> OnActiveLine(d, u)
  BY DEF conVars, OnActiveLine
<1>11. Columns' /\ LegalStep
  BY <1>1, <1>5, <1>8 DEF Columns, DealColumns, conVars, LegalStep
<1>12. ASSUME NEW u \in Units PROVE AccountOf(u)'
  <2>1. CASE u \in cart.units
    <3>1. \A d \in ConsignmentIds : ~OnActiveLine(d, u)'
      BY <1>1, <1>9, <1>10, <2>1 DEF AccountOf
    <3>2. unit'[u].status = "sold"
      BY <1>8, <2>1
    <3> QED BY <3>1, <3>2 DEF AccountOf, SoldBySale
  <2>2. CASE u \notin cart.units
    <3>1. unit'[u].status = unit[u].status
      BY <1>8, <2>2
    <3>2. \A j \in SaleIds : u \in sale'[j].units => u \in sale[j].units
      BY <1>6, <2>2
    <3> QED BY <1>1, <1>10, <3>1, <3>2 DEF AccountOf, SoldBySale
  <2> QED BY <2>1, <2>2
<1> QED BY <1>11, <1>12, ByPhoneAfter

(* quickAdd and markFaulty: a new phone is on nothing, a faulty one stays   *)
(* where it was.                                                            *)
LEMMA InventoryKeeps ==
    ASSUME PhonesInv, UNCHANGED <<conVars, sale>>, InvNext
    PROVE  PhonesInv' /\ LegalStep
<1>1. Columns /\ \A u \in Units : AccountOf(u)
  BY ByPhone
<1>2. /\ \A d \in ConsignmentIds : \A u \in Units : OnActiveLine(d, u)' <=> OnActiveLine(d, u)
      /\ LegalStep
  BY DEF conVars, OnActiveLine, LegalStep
<1>3. CASE \E v \in Units, b \in Branches : QuickAddUnit(v, b)
  <2>1. PICK v \in Units, b \in Branches : QuickAddUnit(v, b)
    BY <1>3
  <2>2. unit' = [unit EXCEPT ![v] = [status |-> "in_stock", branch |-> b]] /\ unit[v].status = "absent"
    BY <2>1 DEF QuickAddUnit, WriteUnits
  <2>3. unit' \in [Units -> UnitRow]
    BY <1>1, <2>2 DEF Columns, UnitRow, UnitStatus
  <2>4. \A u \in Units : unit'[u].status = IF u = v THEN "in_stock" ELSE unit[u].status
    BY <1>1, <2>2 DEF Columns
  <2>5. ASSUME NEW u \in Units PROVE AccountOf(u)'
    <3>1. CASE u = v
      <4>1. /\ \A d \in ConsignmentIds : ~OnActiveLine(d, u)
            /\ \A i \in SaleIds : u \notin sale[i].units
        BY <1>1, <2>2, <3>1 DEF AccountOf, SoldBySale
      <4>2. unit'[u].status = "in_stock"
        BY <2>4, <3>1
      <4> QED BY <1>2, <4>1, <4>2 DEF AccountOf, SoldBySale
    <3>2. CASE u # v
      BY <1>1, <1>2, <2>4, <3>2, Kept
    <3> QED BY <3>1, <3>2
  <2> QED BY <1>1, <1>2, <2>3, <2>5, ByPhoneAfter DEF Columns, DealColumns, SalesTypeOK, conVars
<1>4. CASE \E v \in Units : MarkFaulty(v)
  <2>1. PICK v \in Units : WriteUnits(WithStatus(unit, {v}, "faulty"))
    BY <1>4 DEF MarkFaulty
  <2>2. /\ unit' \in [Units -> UnitRow]
        /\ \A u \in Units : unit'[u].status = IF u \in {v} THEN "faulty" ELSE unit[u].status
    BY <1>1, <2>1, StatusSet DEF Columns, UnitStatus
  <2>3. \A u \in Units : AccountOf(u)'
    BY <1>1, <1>2, <2>2, Kept
  <2> QED BY <1>1, <1>2, <2>2, <2>3, ByPhoneAfter DEF Columns, DealColumns, SalesTypeOK, conVars
<1>5. CASE UNCHANGED unit
  BY <1>1, <1>5, NothingMoves DEF Columns, DealColumns, conVars
<1> QED BY <1>3, <1>4, <1>5 DEF InvNext, QuickAddQuantity

(* settleIfClear: the status moves, if it does, from one that awaits money. *)
LEMMA SettleKeeps ==
    ASSUME PhonesInv, sale' = sale, NEW p \in closing, SettleIfClear(p)
    PROVE  PhonesInv' /\ LegalStep
<1>1. Columns /\ \A u \in Units : AccountOf(u)
  BY ByPhone
<1>2. p.deal \in ConsignmentIds /\ p.as \in {"settled", "forgiven_settled"}
  BY <1>1 DEF Columns, DealColumns
<1>3. PICK owed :
         /\ deal' = [deal EXCEPT ![p.deal].status = ClosedTo(p.deal, p, owed)]
         /\ closing' = closing \ {p}
         /\ UNCHANGED <<unit, dealSeen>>
  BY Zenon DEF SettleIfClear, invVars
<1> DEFINE c == p.deal
           to == ClosedTo(c, p, owed)
<1>4. deal[c] \in DealRow /\ deal[c].status \in DealStatus
  BY <1>1, <1>2 DEF Columns, DealColumns, DealRow
<1>5. \/ to = deal[c].status
      \/ /\ deal[c].status \in {"sold_awaiting_settlement", "partially_paid"}
         /\ to \in {"partially_paid", "settled", "forgiven_settled"}
  BY <1>2, Table DEF ClosedTo
<1> HIDE DEF to
<1>6. to \in DealStatus
  BY <1>4, <1>5 DEF DealStatus
<1>7. \/ to = deal[c].status
       \/ \E a \in {"record_payment", "settle", "forgive"} :
             deal[c].status \in Rules[a].from /\ to = Rules[a].to
  BY <1>5, Table
<1>8. deal' = [deal EXCEPT ![c] = [deal[c] EXCEPT !.status = to]]
  BY <1>3 DEF to
<1>9. LET r == [deal[c] EXCEPT !.status = to]
      IN  r \in DealRow /\ r.status = to /\ r.line = deal[c].line
  BY <1>4, <1>6 DEF DealRow
<1> HIDE DEF c
<1>10. c \in ConsignmentIds
  BY <1>2 DEF c
<1>11. /\ deal' \in [ConsignmentIds -> DealRow]
       /\ \A d \in ConsignmentIds : deal'[d].line = deal[d].line
       /\ \A d \in ConsignmentIds : deal'[d].status = IF d = c THEN to ELSE deal[d].status
  BY <1>1, <1>8, <1>9, <1>10 DEF Columns, DealColumns
<1>12. LegalStep
  BY <1>11, <1>7, Table DEF LegalStep
<1>13. Columns'
  BY <1>1, <1>3, <1>11 DEF Columns, DealColumns, SalesTypeOK
<1>14. \A u \in Units : AccountOf(u)'
  BY <1>1, <1>3, <1>11, Kept DEF OnActiveLine
<1> QED BY <1>12, <1>13, <1>14, ByPhoneAfter

-----------------------------------------------------------------------------
(* Every step of ConsignmentsService. *)
LEMMA ConsignmentKeeps ==
    ASSUME PhonesInv, sale' = sale, ConNext
    PROVE  PhonesInv' /\ LegalStep
<1>1. DealColumns
  BY DEF PhonesInv
<1>2. ASSUME NEW p \in closing, SettleIfClear(p) PROVE PhonesInv' /\ LegalStep
  BY <1>2, SettleKeeps
<1>3. ASSUME NEW c \in ConsignmentIds, NEW us \in SUBSET Units, NEW b \in Branches,
             NEW manual \in BOOLEAN, NEW amount \in Offers,
             CreateConsignment(c, us, b, manual, amount)
      PROVE  PhonesInv' /\ LegalStep
  BY <1>3, CreateKeeps
<1>4. ASSUME NEW c \in ConsignmentIds, NEW side \in Sides, Accept(c, side)
      PROVE  PhonesInv' /\ LegalStep
  <2>1. UNCHANGED <<unit, closing>>
    BY <1>4 DEF Accept, invVars
  <2> QED BY <1>1, <1>4, <2>1, AcceptRow, Table, NoPhoneMoves
<1>5. ASSUME NEW c \in ConsignmentIds, NEW side \in Sides, NEW amount \in Offers,
             Counter(c, side, amount)
      PROVE  PhonesInv' /\ LegalStep
  <2>1. UNCHANGED <<unit, closing>>
    BY <1>5 DEF Counter, invVars
  <2> QED BY <1>1, <1>5, <2>1, CounterRow, Table, NoPhoneMoves
<1>6. ASSUME NEW c \in ConsignmentIds, NEW side \in Sides, Dispute(c, side)
      PROVE  PhonesInv' /\ LegalStep
  <2>1. UNCHANGED <<unit, closing>>
    BY <1>6 DEF Dispute, invVars
  <2> QED BY <1>1, <1>6, <2>1, DisputeRow, Table, NoPhoneMoves
<1>7. ASSUME NEW c \in ConsignmentIds, NEW side \in Sides, NEW a \in {"reject", "cancel"},
             CallOff(c, side, a)
      PROVE  PhonesInv' /\ LegalStep
  <2>1. closing' = closing /\ WriteUnits(WithStatus(unit, ConsignedOut(OpenLines(c)), "in_stock"))
    BY <1>7 DEF CallOff
  <2>2. a \in DOMAIN Rules
    BY Table
  <2> QED BY <1>1, <1>7, <2>1, <2>2, CallOffRow, LinesEnd
<1>8. ASSUME NEW c \in ConsignmentIds, NEW side \in Sides, SendCustody(c, side)
      PROVE  PhonesInv' /\ LegalStep
  <2>1. UNCHANGED <<unit, closing>>
    BY <1>8 DEF SendCustody, invVars
  <2> QED BY <1>1, <1>8, <2>1, SendRow, Table, NoPhoneMoves
<1>9. ASSUME NEW c \in ConsignmentIds, NEW side \in Sides, ConfirmCustody(c, side)
      PROVE  PhonesInv' /\ LegalStep
  <2>1. UNCHANGED <<unit, closing>>
    BY <1>9 DEF ConfirmCustody, invVars
  <2> QED BY <1>1, <1>9, <2>1, ConfirmRow, ArrivalKeeps
<1>10. ASSUME NEW c \in ConsignmentIds, NEW side \in Sides, NEW us \in SUBSET Units,
              ReportSold(c, side, us)
       PROVE  PhonesInv' /\ LegalStep
  <2>1. closing' = closing /\ WriteUnits(WithStatus(unit, ConsignedOut(us), "sold"))
    BY <1>10 DEF ReportSold
  <2>2. us \in SUBSET OpenLines(c)
    BY <1>10 DEF ReportSold, OpenLines
  <2>3. "report_sold" \in DOMAIN Rules
    BY Table
  <2> QED BY <1>1, <1>10, <2>1, <2>2, <2>3, SoldRow, LinesEnd
<1>11. ASSUME NEW c \in ConsignmentIds, NEW side \in Sides,
              NEW a \in {"initiate_return", "ship_return"}, BeginReturn(c, side, a)
       PROVE  PhonesInv' /\ LegalStep
  <2>1. UNCHANGED <<unit, closing>>
    BY <1>11 DEF BeginReturn, invVars
  <2>2. a \in DOMAIN Rules
    BY Table
  <2> QED BY <1>1, <1>11, <2>1, <2>2, BeginReturnRow, NoPhoneMoves
<1>12. ASSUME NEW c \in ConsignmentIds, NEW side \in Sides, NEW damaged \in BOOLEAN,
              ConfirmReturn(c, side, damaged)
       PROVE  PhonesInv' /\ LegalStep
  <2> DEFINE us == LinesIn(c, "in_custody")
             to == IF damaged THEN "faulty" ELSE "in_stock"
  <2>1. closing' = closing /\ WriteUnits(WithStatus(unit, ConsignedOut(us), to))
    BY <1>12 DEF ConfirmReturn
  <2>2. us \in SUBSET OpenLines(c) /\ to \in {"in_stock", "sold", "faulty"}
    BY DEF OpenLines
  <2>3. "confirm_return" \in DOMAIN Rules
    BY Table
  <2>4. Moved(c, "confirm_return", WithLines(deal[c].line, us, "returned"))
    BY <1>1, <1>12, ReturnRow
  <2> HIDE DEF us, to
  <2> QED BY <2>1, <2>2, <2>3, <2>4, LinesEnd
<1>13. ASSUME NEW c \in ConsignmentIds, NEW side \in Sides, NEW amount \in Payments, NEW key,
              ReportPayment(c, side, amount, key)
       PROVE  PhonesInv' /\ LegalStep
  <2>1. UNCHANGED <<unit, deal, dealSeen, closing>>
    BY <1>13 DEF ReportPayment, invVars
  <2> QED BY <1>1, <2>1, NothingMoves DEF DealColumns
<1>14. ASSUME NEW c \in ConsignmentIds, NEW e, ConfirmPayment(c, e)
       PROVE  PhonesInv' /\ LegalStep
  <2>1. closing' = closing \cup {Pending(c, "settled")} /\ UNCHANGED <<unit, deal, dealSeen>>
    BY <1>14 DEF ConfirmPayment, invVars
  <2>2. \A p \in closing' : p.deal \in ConsignmentIds /\ p.as \in {"settled", "forgiven_settled"}
    BY <1>1, <2>1 DEF DealColumns, Pending
  <2> QED BY <2>1, <2>2, NothingMoves
<1>15. ASSUME NEW c \in ConsignmentIds, NEW amount, Forgive(c, amount)
       PROVE  PhonesInv' /\ LegalStep
  <2>1. closing' = closing \cup {Pending(c, "forgiven_settled")} /\ UNCHANGED <<unit, deal, dealSeen>>
    BY <1>15 DEF Forgive, invVars
  <2>2. \A p \in closing' : p.deal \in ConsignmentIds /\ p.as \in {"settled", "forgiven_settled"}
    BY <1>1, <2>1 DEF DealColumns, Pending
  <2> QED BY <2>1, <2>2, NothingMoves
<1> QED BY <1>2, <1>3, <1>4, <1>5, <1>6, <1>7, <1>8, <1>9, <1>10, <1>11, <1>12, <1>13,
           <1>14, <1>15 DEF ConNext

(* A company that has no phones yet. *)
LEMMA AccountsBegin == DealsInit => PhonesInv
<1> SUFFICES ASSUME DealsInit PROVE PhonesInv
  OBVIOUS
<1>1. (CHOOSE b \in Branches : TRUE) \in Branches
  BY InventoryAssumption
<1>2. unit \in [Units -> UnitRow] /\ \A u \in Units : unit[u].status = "absent"
  BY <1>1 DEF DealsInit, InvInit, UnitRow
<1>3. SalesTypeOK /\ \A i \in SaleIds : sale[i].units = {}
  BY <1>1 DEF DealsInit, SalesInit, SalesTypeOK, NoSale, Lines
<1>4. DealColumns /\ \A c \in ConsignmentIds : deal[c] = NoDeal
  BY NoDealIsRow DEF DealsInit, ConInit, DealColumns
<1>5. \A c \in ConsignmentIds : \A u \in Units : ~OnActiveLine(c, u)
  BY <1>4, NoDealIsRow DEF OnActiveLine
<1> QED BY <1>2, <1>3, <1>4, <1>5 DEF PhonesInv, PhonesAccounted, SoldBySale

(* Every step of business between the two companies. *)
LEMMA DealsStep ==
    ASSUME PhonesInv, [DealsNext]_dealVars
    PROVE  PhonesInv' /\ LegalStep
<1>1. \A p \in closing : p.deal \in ConsignmentIds /\ p.as \in {"settled", "forgiven_settled"}
  BY DEF PhonesInv, DealColumns
<1>2. CASE UNCHANGED <<invVars, conVars, sale>>
  BY <1>1, <1>2, NothingMoves DEF invVars, conVars
<1>3. CASE InvNext /\ UNCHANGED <<connVars, conVars, loanVars, sale>>
  BY <1>3, InventoryKeeps
<1>4. CASE SalesNext /\ UNCHANGED <<connVars, conVars, loanVars>>
  BY <1>4, SaleKeeps
<1>5. CASE ConNext /\ UNCHANGED <<loanVars, sale>>
  BY <1>5, ConsignmentKeeps
<1> QED BY <1>2, <1>3, <1>4, <1>5 DEF DealsNext, dealVars

(* No phone is lost between two shops: one out on consignment is on exactly *)
(* one open line of one deal, an open line has its phone, and that phone is *)
(* on nobody's sale, however many deals, decisions, returns and sales race. *)
THEOREM PhonesStayAccounted == DealsSpec => []PhonesAccounted
<1>1. PhonesInv /\ [DealsNext]_dealVars => PhonesInv'
  BY DealsStep
<1>2. PhonesInv => PhonesAccounted
  BY DEF PhonesInv
<1> QED BY AccountsBegin, <1>1, <1>2, PTL DEF DealsSpec

(* The lifecycle of consignment-lifecycle.ts: every change of a deal's      *)
(* status is a row of the table, for decisions taken on any earlier load of *)
(* the row and for closings decided on any later reading of the ledger.     *)
THEOREM ConsignmentsStepLegally == DealsSpec => ConsignmentStepsLegal
<1>1. PhonesInv /\ [DealsNext]_dealVars => PhonesInv'
  BY DealsStep
<1>2. PhonesInv /\ [DealsNext]_dealVars => [LegalStep]_dealVars
  BY DealsStep
<1>3. (DealsInit /\ [][DealsNext]_dealVars) => [][LegalStep]_dealVars
  BY AccountsBegin, <1>1, <1>2, PTL
<1> QED BY <1>3, PTL DEF DealsSpec, ConsignmentStepsLegal
=============================================================================
