---------------------------- MODULE Consignments ----------------------------
(***************************************************************************)
(* Phones of one company sold by another: ConsignmentsService over         *)
(* consignment-lifecycle.ts.  The inventory is that of the source company. *)
(* The destination is the connected company, or a shop without an account  *)
(* (a manual counterparty), which nobody can act for.                      *)
(*                                                                         *)
(* Decisions load the row, assert the transition on it and swap if version *)
(* and status are still those; `dealSeen' keeps what may have been loaded. *)
(* Money entries are checked and inserted without a transaction, and the   *)
(* closing of a cleared deal is a later step of the same request.          *)
(***************************************************************************)
EXTENDS Inventory, Connections, Ledgers

CONSTANTS ConsignmentIds,   \* bound: how many consignments there may be
          Offers,           \* the amounts either side may name, in cents
          Payments,         \* the amounts that may be paid or forgiven
          PaymentKeys,      \* the clientUuids of reported payments
          MaxDecisions,     \* bound: how often one deal changes
          MaxRows           \* bound: the length of one ledger

ASSUME ConsignmentsAssumption ==
    /\ Offers \subseteq Nat \ {0} /\ Payments \subseteq Nat \ {0}
    /\ MaxDecisions \in Nat /\ MaxRows \in Nat
    /\ NoKey \notin PaymentKeys

VARIABLES deal,       \* consignments with their lines
          dealSeen,   \* what may have been loaded of each row
          dealRows,   \* consignment_ledger
          closing     \* settleIfClear calls that are still to run

conVars == <<deal, dealSeen, dealRows, closing>>

-----------------------------------------------------------------------------
(* consignment-lifecycle.ts: TRANSITIONS.  No operation takes `submit', and *)
(* none leaves a row as a draft: create writes `requested' at once.         *)

Negotiating == {"requested", "counter_proposed", "disputed"}

Rule(from, to, by) == [from |-> from, to |-> to, by |-> by]

Rules ==
    [accept          |-> Rule(Negotiating, "accepted_awaiting_custody", Sides),
     counter         |-> Rule(Negotiating, "counter_proposed", Sides),
     dispute         |-> Rule({"requested", "counter_proposed"}, "disputed", Sides),
     reject          |-> Rule(Negotiating, "cancelled", {"destination"}),
     cancel          |-> Rule({"draft", "accepted_awaiting_custody"} \cup Negotiating,
                              "cancelled", {"source"}),
     send_custody    |-> Rule({"accepted_awaiting_custody"}, "custody_awaiting_confirmation", {"source"}),
     confirm_custody |-> Rule({"custody_awaiting_confirmation"}, "in_custody", {"destination"}),
     report_sold     |-> Rule({"in_custody"}, "sold_awaiting_settlement", {"destination"}),
     record_payment  |-> Rule({"sold_awaiting_settlement", "partially_paid"}, "partially_paid", Sides),
     settle          |-> Rule({"sold_awaiting_settlement", "partially_paid"}, "settled", Sides),
     initiate_return |-> Rule({"in_custody"}, "return_initiated", {"destination"}),
     ship_return     |-> Rule({"return_initiated"}, "return_in_transit", {"destination"}),
     confirm_return  |-> Rule({"return_in_transit", "return_initiated"}, "returned_accepted", {"source"}),
     forgive         |-> Rule({"sold_awaiting_settlement", "partially_paid"}, "forgiven_settled", {"source"})]

(* Who made the offer on the table, as the code derives it. *)
LastProposalBy(status) ==
    IF status = "requested" THEN {"source"}
    ELSE IF status = "counter_proposed" THEN {"destination"} ELSE {}

(* sideOf: a manual counterparty is no company, so only the source acts. *)
SidesOf(c) == IF deal[c].manual THEN {"source"} ELSE Sides

MayTake(action, status, side) ==
    /\ status \in Rules[action].from
    /\ side \in Rules[action].by
    /\ action \in {"accept", "counter"} => side \notin LastProposalBy(status)

-----------------------------------------------------------------------------
NoLine == [u \in Units |-> "none"]
NoDeal == [status |-> "none", version |-> 0, manual |-> FALSE, proposed |-> 0,
           counter |-> 0, agreed |-> 0, offeredBy |-> "source", line |-> NoLine]

(* The statuses a row takes; "none" is a row that is not there. *)
DealStatus == {"none", "requested", "counter_proposed", "disputed", "cancelled",
               "accepted_awaiting_custody", "custody_awaiting_confirmation", "in_custody",
               "sold_awaiting_settlement", "partially_paid", "settled", "forgiven_settled",
               "return_initiated", "return_in_transit", "returned_accepted"}
LineStatus == {"none", "proposed", "in_custody", "sold", "returned", "cancelled"}

DealRow == [status: DealStatus, version: Nat, manual: BOOLEAN, proposed: Nat, counter: Nat,
            agreed: Nat, offeredBy: Sides, line: [Units -> LineStatus]]

(* The columns of a consignment, and of what requests hold of it. *)
DealColumns ==
    /\ deal \in [ConsignmentIds -> DealRow]
    /\ dealSeen \in [ConsignmentIds -> SUBSET [status: DealStatus, version: Nat, offer: Nat]]
    /\ \A p \in closing : p.deal \in ConsignmentIds /\ p.as \in {"settled", "forgiven_settled"}

ConTypeOK ==
    /\ DealColumns
    /\ \A c \in ConsignmentIds :
          /\ deal[c].version \in 0..MaxDecisions
          /\ {deal[c].proposed, deal[c].counter, deal[c].agreed} \subseteq Offers \cup {0}
          /\ dealRows[c] \in Seq([kind: LedgerKinds, amount: Nat \ {0}, refers: Nat,
                                  by: Sides, key: PaymentKeys \cup {NoKey}])

ConInit ==
    /\ deal = [c \in ConsignmentIds |-> NoDeal]
    /\ dealSeen = [c \in ConsignmentIds |-> {}]
    /\ dealRows = [c \in ConsignmentIds |-> <<>>]
    /\ closing = {}

(* What a decision looks at in the row it loads: the offer on the table is  *)
(* the counter-offer if there is one, or else the original amount.          *)
OfferOf(row) == IF row.counter # 0 THEN row.counter ELSE row.proposed
LoadOf(row) == [status |-> row.status, version |-> row.version, offer |-> OfferOf(row)]

WriteDeal(c, row) ==
    /\ deal' = [deal EXCEPT ![c] = row]
    /\ dealSeen' = [dealSeen EXCEPT ![c] = @ \cup {LoadOf(row)}]

Enter(c, row) ==
    /\ Len(dealRows[c]) < MaxRows
    /\ dealRows' = [dealRows EXCEPT ![c] = Append(@, row)]

LinesIn(c, status) == {u \in Units : deal[c].line[u] = status}
WithLines(line, us, status) == [u \in Units |-> IF u \in us THEN status ELSE line[u]]
ConsignedOut(us) == {u \in us : unit[u].status = "consigned_out"}

-----------------------------------------------------------------------------
(* create.  The counterparty and its connection are read before the         *)
(* transaction; each phone is read in its snapshot and claimed if it is     *)
(* still in stock, and active_unit_id admits one active line per phone.     *)
SawConnected ==
    /\ "source" \in known
    /\ \E load \in connSeen : load.status = "accepted"

OnNoActiveLine(u) ==
    \A c \in ConsignmentIds : deal[c].line[u] \notin {"proposed", "in_custody"}

ConsignAnyStatus(u) == unit[u].status # "absent"
ConsignableUnit(u) == unit[u].status = "in_stock"

CreateConsignment(c, us, b, manual, amount) ==
    /\ deal[c] = NoDeal
    /\ us # {}
    /\ manual \/ SawConnected
    /\ \A u \in us : /\ \E row \in past[u] : row.branch = b /\ row.status # "absent"
                     /\ ConsignableUnit(u)
                     /\ OnNoActiveLine(u)
    /\ WriteUnits(WithStatus(unit, us, "consigned_out"))
    /\ WriteDeal(c, [NoDeal EXCEPT !.status = "requested", !.manual = manual,
                        !.proposed = amount, !.line = WithLines(NoLine, us, "proposed")])
    /\ UNCHANGED <<stock, receipt, dealRows, closing, connVars>>

(* The swap of every decision: version and status as loaded. *)
SwapBlindly(c, load) == deal[c] # NoDeal
SwapHolds(c, load) == deal[c].version = load.version /\ deal[c].status = load.status

(* One step of the lifecycle: `change' gives the other columns. *)
Advance(c, side, action, Change(_)) ==
    \E load \in dealSeen[c] :
        /\ side \in SidesOf(c)
        /\ MayTake(action, load.status, side)
        /\ SwapHolds(c, load)
        /\ deal[c].version < MaxDecisions
        /\ WriteDeal(c, [Change(load) EXCEPT !.status = Rules[action].to,
                                             !.version = deal[c].version + 1])

(* releaseUnits: every open line is cancelled; a phone that is no longer    *)
(* consigned out is left alone.                                             *)
OpenLines(c) == LinesIn(c, "proposed") \cup LinesIn(c, "in_custody")

(* decide.  What is accepted is the offer on the table; every line gets     *)
(* that amount.                                                             *)
Accept(c, side) ==
    /\ Advance(c, side, "accept", LAMBDA load :
          [deal[c] EXCEPT !.agreed = load.offer])
    /\ UNCHANGED <<invVars, dealRows, closing, connVars>>

Counter(c, side, amount) ==
    /\ Advance(c, side, "counter", LAMBDA load :
          [deal[c] EXCEPT !.counter = amount, !.offeredBy = side])
    /\ UNCHANGED <<invVars, dealRows, closing, connVars>>

Dispute(c, side) ==
    /\ Advance(c, side, "dispute", LAMBDA load : deal[c])
    /\ UNCHANGED <<invVars, dealRows, closing, connVars>>

(* reject and cancel give the phones back at once. *)
CallOff(c, side, action) ==
    /\ action \in {"reject", "cancel"}
    /\ Advance(c, side, action, LAMBDA load :
          [deal[c] EXCEPT !.line = WithLines(@, OpenLines(c), "cancelled")])
    /\ WriteUnits(WithStatus(unit, ConsignedOut(OpenLines(c)), "in_stock"))
    /\ UNCHANGED <<stock, receipt, dealRows, closing, connVars>>

(* custody: sent by the source, confirmed by the destination, all or none. *)
SendCustody(c, side) ==
    /\ Advance(c, side, "send_custody", LAMBDA load : deal[c])
    /\ UNCHANGED <<invVars, dealRows, closing, connVars>>

ConfirmCustody(c, side) ==
    /\ deal[c].agreed # 0
    /\ Advance(c, side, "confirm_custody", LAMBDA load :
          [deal[c] EXCEPT !.line = WithLines(@, LinesIn(c, "proposed"), "in_custody")])
    /\ UNCHANGED <<invVars, dealRows, closing, connVars>>

-----------------------------------------------------------------------------
(* reportSold.  The source reports for a manual counterparty, the           *)
(* destination otherwise; the table is asked all the same.  Each line       *)
(* carries the agreed amount, so that much is raised for every phone sold.  *)
RaiseForSoldBefore(c, us) == Cardinality(LinesIn(c, "sold")) * deal[c].agreed
RaiseFor(c, us) == Cardinality(us) * deal[c].agreed

ReportSold(c, side, us) ==
    /\ side = IF deal[c].manual THEN "source" ELSE "destination"
    /\ us # {} /\ us \subseteq LinesIn(c, "in_custody")
    /\ Advance(c, side, "report_sold", LAMBDA load :
          [deal[c] EXCEPT !.line = WithLines(@, us, "sold")])
    /\ WriteUnits(WithStatus(unit, ConsignedOut(us), "sold"))
    /\ Enter(c, Row("receivable_raised", RaiseFor(c, us), 0, side, NoKey))
    /\ UNCHANGED <<stock, receipt, closing, connVars>>

(* payment, action report: a claim by either side. *)
ReportPayment(c, side, amount, key) ==
    /\ deal[c] # NoDeal /\ side \in SidesOf(c)
    /\ \A d \in ConsignmentIds : ReportKeyIsFree(dealRows[d], side, key, NoKey)
    /\ SawOwed(dealRows[c], amount)
    /\ Enter(c, Row("payment_reported", amount, 0, side, key))
    /\ UNCHANGED <<invVars, deal, dealSeen, closing, connVars>>

Pending(c, as) == [deal |-> c, as |-> as, since |-> Len(dealRows[c]) + 1]

(* payment, action confirm: the creditor, who is always the source. *)
ConfirmPayment(c, e) ==
    /\ MayConfirm(dealRows[c], e)
    /\ Enter(c, Row("payment_confirmed", dealRows[c][e].amount, e, "source", NoKey))
    /\ closing' = closing \cup {Pending(c, "settled")}
    /\ UNCHANGED <<invVars, deal, dealSeen, connVars>>

(* forgive: the creditor again, part or all of what it saw owed. *)
Forgive(c, amount) ==
    /\ SawOwed(dealRows[c], amount)
    /\ Enter(c, Row("forgiven", amount, 0, "source", NoKey))
    /\ closing' = closing \cup {Pending(c, "forgiven_settled")}
    /\ UNCHANGED <<invVars, deal, dealSeen, connVars>>

(* settleIfClear reads the ledger after its own entry and then updates the  *)
(* status if the deal is still open; the version stays as it is.  Nothing   *)
(* is decided on the statuses it writes, so no load of them is kept.        *)
ClearWhenNearly(owed) == owed <= 1
ClearWhenOverpaid(owed) == owed < 0
ClearWhen(owed) == owed <= 0
ClosedTo(c, p, owed) ==
    IF ~ClearWhen(owed)
    THEN IF deal[c].status = "sold_awaiting_settlement" THEN "partially_paid" ELSE deal[c].status
    ELSE IF deal[c].status \in Rules.settle.from THEN p.as ELSE deal[c].status

SettleIfClear(p) ==
    \E n \in p.since..Len(dealRows[p.deal]) :
        /\ deal' = [deal EXCEPT ![p.deal].status =
                       ClosedTo(p.deal, p, Owed(ReadOf(dealRows[p.deal], n)))]
        /\ closing' = closing \ {p}
        /\ UNCHANGED <<invVars, dealSeen, dealRows, connVars>>

-----------------------------------------------------------------------------
(* returnFlow: the holder starts and ships, the owner takes the phones back *)
(* and says in which condition.                                             *)
BeginReturn(c, side, action) ==
    /\ action \in {"initiate_return", "ship_return"}
    /\ Advance(c, side, action, LAMBDA load : deal[c])
    /\ UNCHANGED <<invVars, dealRows, closing, connVars>>

ConfirmReturn(c, side, damaged) ==
    LET us == LinesIn(c, "in_custody")
    IN  /\ Advance(c, side, "confirm_return", LAMBDA load :
              [deal[c] EXCEPT !.line = WithLines(@, us, "returned")])
        /\ WriteUnits(WithStatus(unit, ConsignedOut(us), IF damaged THEN "faulty" ELSE "in_stock"))
        /\ UNCHANGED <<stock, receipt, dealRows, closing, connVars>>

ConNext ==
    \/ \E c \in ConsignmentIds :
          \/ \E us \in SUBSET Units, b \in Branches, manual \in BOOLEAN, amount \in Offers :
                CreateConsignment(c, us, b, manual, amount)
          \/ \E side \in Sides :
                \/ Accept(c, side)
                \/ \E amount \in Offers : Counter(c, side, amount)
                \/ Dispute(c, side)
                \/ \E action \in {"reject", "cancel"} : CallOff(c, side, action)
                \/ SendCustody(c, side)
                \/ ConfirmCustody(c, side)
                \/ \E us \in SUBSET Units : ReportSold(c, side, us)
                \/ \E amount \in Payments, key \in PaymentKeys \cup {NoKey} :
                      ReportPayment(c, side, amount, key)
                \/ \E action \in {"initiate_return", "ship_return"} : BeginReturn(c, side, action)
                \/ \E damaged \in BOOLEAN : ConfirmReturn(c, side, damaged)
          \/ \E e \in 1..MaxRows : ConfirmPayment(c, e)
          \/ \E amount \in Payments : Forgive(c, amount)
    \/ \E p \in closing : SettleIfClear(p)
=============================================================================
