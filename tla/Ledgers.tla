------------------------------ MODULE Ledgers ------------------------------
(***************************************************************************)
(* The append-only money ledgers between two parties: consignment-money.ts *)
(* and loan-rules.ts.  What is owed is derived from the rows and stored    *)
(* nowhere.  A ledger is the sequence of its rows; because rows are never  *)
(* changed or removed, what somebody read some time ago is a prefix.       *)
(* Amounts are whole cents, which is what round2 makes of them.            *)
(***************************************************************************)
EXTENDS Integers, Sequences, Totals

(* Both BALANCE_EFFECT tables: a report is only a claim and moves nothing. *)
BalanceEffect ==
    [receivable_raised |-> 1, principal_accepted |-> 1, payment_reported |-> 0,
     payment_confirmed |-> -1, payment_corrected |-> 1, forgiven |-> -1, settled |-> 0]

LedgerKinds == DOMAIN BalanceEffect

(* `refers' is the position of the row a confirmation or a correction       *)
(* answers, 0 where refersToId is NULL; `by' is the acting company.         *)
Row(kind, amount, refers, by, key) ==
    [kind |-> kind, amount |-> amount, refers |-> refers, by |-> by, key |-> key]

(* What the rows with one effect add up to. *)
Effects(rows, effect) ==
    TotalOf(DOMAIN rows, [n \in DOMAIN rows |->
        IF BalanceEffect[rows[n].kind] = effect THEN rows[n].amount ELSE 0])

Owed(rows) == Effects(rows, 1) - Effects(rows, -1)

(* breakdown: the parts a screen explains a balance with. *)
Total(rows, kind) ==
    TotalOf(DOMAIN rows, [n \in DOMAIN rows |->
        IF rows[n].kind = kind THEN rows[n].amount ELSE 0])

(* What a request that read the ledger at some time has seen. *)
ReadOf(rows, n) == SubSeq(rows, 1, n)

Answered(rows, e, kind) ==
    \E i \in DOMAIN rows : rows[i].kind = kind /\ rows[i].refers = e

(* unansweredReports: the reports no confirmation points at. *)
UnansweredReports(rows) ==
    {e \in DOMAIN rows : rows[e].kind = "payment_reported"
                         /\ ~Answered(rows, e, "payment_confirmed")}

AssertPaymentAllowed(amount, owed)     == amount > 0 /\ amount <= owed
AssertForgivenessAllowed(amount, owed) == amount > 0 /\ amount <= owed

(* The unique key (acting company, clientUuid).  A repeated key is answered *)
(* with the first report, or refused when the fingerprint differs: either   *)
(* way no row is written.                                                   *)
ReportKeyIsFree(rows, by, key, none) ==
    key = none \/ \A i \in DOMAIN rows : ~(rows[i].by = by /\ rows[i].key = key)

(* confirm: what is owed, then the report, then whether it was answered,    *)
(* each read on its own; nothing holds them together with the insert.       *)
MayConfirm(rows, e) ==
    \E n, m \in 0..Len(rows) :
        /\ n <= m /\ e \in 1..m
        /\ rows[e].kind = "payment_reported"
        /\ ~Answered(ReadOf(rows, m), e, "payment_confirmed")
        /\ AssertPaymentAllowed(rows[e].amount, Owed(ReadOf(rows, n)))

(* report and forgive check the amount against the ledger they read. *)
SawOwed(rows, amount) ==
    \E n \in 0..Len(rows) : AssertPaymentAllowed(amount, Owed(ReadOf(rows, n)))
=============================================================================
