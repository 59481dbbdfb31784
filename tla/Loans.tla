------------------------------- MODULE Loans -------------------------------
(***************************************************************************)
(* Money owed between two companies, or between a company and somebody     *)
(* without an account: LoansService over loan-rules.ts.  The row belongs   *)
(* to the company that proposed it ("source" here); the other company is   *)
(* "destination".  Who is owed is decided by the direction.                *)
(***************************************************************************)
EXTENDS Connections, Ledgers

CONSTANTS LoanIds,          \* bound: how many loans there may be
          LoanOffers,       \* the amounts either side may name, in cents
          Instalments,      \* the amounts that may be paid or forgiven
          LoanKeys,         \* the clientUuids of reported payments
          NoLoanKey,        \* a report without a clientUuid
          MaxLoanDecisions, \* bound: how often one loan is negotiated
          MaxLoanRows       \* bound: the length of one ledger

ASSUME LoansAssumption ==
    /\ LoanOffers \subseteq Nat \ {0} /\ Instalments \subseteq Nat \ {0}
    /\ MaxLoanDecisions \in Nat /\ MaxLoanRows \in Nat
    /\ NoLoanKey \notin LoanKeys

VARIABLES loan,        \* loans
          loanSeen,    \* what may have been loaded of each row
          loanRows,    \* loan_ledger
          following    \* status updates that follow an entry and are still to run

loanVars == <<loan, loanSeen, loanRows, following>>

LoanOpen == {"proposed", "counter_proposed", "disputed"}
LoanAgreed == {"accepted", "partially_paid", "payment_awaiting_confirmation"}
LoanClosed == {"settled", "forgiven_settled"}

(* TRANSITIONS of loan-rules.ts: from and to of each decision. *)
LoanRules ==
    [accept  |-> [from |-> LoanOpen, to |-> "accepted"],
     counter |-> [from |-> LoanOpen, to |-> "counter_proposed"],
     dispute |-> [from |-> {"proposed", "counter_proposed"}, to |-> "disputed"],
     reject  |-> [from |-> LoanOpen, to |-> "cancelled"],
     cancel  |-> [from |-> LoanOpen, to |-> "cancelled"]]

NoLoan == [status |-> "none", version |-> 0, manual |-> FALSE, theyOweUs |-> TRUE,
           proposed |-> 0, counter |-> 0, principal |-> 0, proposedBy |-> "source"]

LoanTypeOK ==
    \A l \in LoanIds :
        /\ loan[l].status \in {"none", "cancelled"} \cup LoanOpen \cup LoanAgreed \cup LoanClosed
        /\ loan[l].version \in 0..MaxLoanDecisions
        /\ {loan[l].proposed, loan[l].counter, loan[l].principal} \subseteq LoanOffers \cup {0}
        /\ loanRows[l] \in Seq([kind: LedgerKinds, amount: Nat \ {0}, refers: Nat,
                                by: Sides, key: LoanKeys \cup {NoLoanKey}])

LoanInit ==
    /\ loan = [l \in LoanIds |-> NoLoan]
    /\ loanSeen = [l \in LoanIds |-> {}]
    /\ loanRows = [l \in LoanIds |-> <<>>]
    /\ following = {}

LoanSidesOf(l) == IF loan[l].manual THEN {"source"} ELSE Sides

(* creditorIs, assertCreditor: the direction decides.  On a loan with a     *)
(* manual counterparty who is owed the money, nobody is the creditor.       *)
Creditor(l) == IF loan[l].theyOweUs THEN "source" ELSE "destination"
IsCreditor(l, side) == side \in LoanSidesOf(l) /\ side = Creditor(l)

LoanOfferOf(row) == IF row.counter # 0 THEN row.counter ELSE row.proposed
LoanLoadOf(row) == [status |-> row.status, version |-> row.version,
                    offer |-> LoanOfferOf(row), manual |-> row.manual, proposedBy |-> row.proposedBy]

WriteLoan(l, row) ==
    /\ loan' = [loan EXCEPT ![l] = row]
    /\ loanSeen' = [loanSeen EXCEPT ![l] = @ \cup {LoanLoadOf(row)}]

EnterLoan(l, row) ==
    /\ Len(loanRows[l]) < MaxLoanRows
    /\ loanRows' = [loanRows EXCEPT ![l] = Append(@, row)]

-----------------------------------------------------------------------------
(* propose: the counterparty must be known and not have been seen blocked;  *)
(* being connected is not asked for.                                        *)
Propose(l, manual, theyOweUs, amount) ==
    /\ loan[l] = NoLoan
    /\ manual \/ ("source" \in known /\ \E load \in connSeen : load.status # "blocked")
    /\ WriteLoan(l, [NoLoan EXCEPT !.status = "proposed", !.manual = manual,
                                   !.theyOweUs = theyOweUs, !.proposed = amount])
    /\ UNCHANGED <<loanRows, following, connVars>>

(* decide: nobody answers their own offer, except that the owner records    *)
(* the answer of a counterparty without an account.                         *)
IsOwnOffer(row, side) == ~row.manual /\ row.proposedBy = side

LoanSwapBlindly(l, load) == loan[l] # NoLoan
LoanSwapHolds(l, load) == loan[l].version = load.version /\ loan[l].status = load.status

DecideLoan(l, side, action, amount) ==
    \E load \in loanSeen[l] :
        /\ side \in LoanSidesOf(l)
        /\ load.status \in LoanRules[action].from
        /\ action \in {"accept", "counter"} => ~IsOwnOffer(load, side)
        /\ LoanSwapHolds(l, load)
        /\ loan[l].version < MaxLoanDecisions
        /\ LET row == [loan[l] EXCEPT !.status = LoanRules[action].to, !.version = @ + 1]
           IN  \/ /\ action = "accept"
                  /\ WriteLoan(l, [row EXCEPT !.principal = load.offer])
                  /\ EnterLoan(l, Row("principal_accepted", load.offer, 0, side, NoLoanKey))
               \/ /\ action = "counter"
                  /\ WriteLoan(l, [row EXCEPT !.counter = amount, !.proposedBy = side])
                  /\ UNCHANGED loanRows
               \/ /\ action \in {"dispute", "reject", "cancel"}
                  /\ WriteLoan(l, row)
                  /\ UNCHANGED loanRows
        /\ UNCHANGED <<following, connVars>>

-----------------------------------------------------------------------------
Follow(l, what) == [loan |-> l, what |-> what, since |-> Len(loanRows[l]) + 1]

ReportInstalment(l, side, amount, key) ==
    /\ loan[l].principal # 0 /\ side \in LoanSidesOf(l)
    /\ \A k \in LoanIds : ReportKeyIsFree(loanRows[k], side, key, NoLoanKey)
    /\ SawOwed(loanRows[l], amount)
    /\ EnterLoan(l, Row("payment_reported", amount, 0, side, key))
    /\ following' = following \cup {Follow(l, "report")}
    /\ UNCHANGED <<loan, loanSeen, connVars>>

ConfirmInstalment(l, side, e) ==
    /\ loan[l].principal # 0 /\ IsCreditor(l, side)
    /\ MayConfirm(loanRows[l], e)
    /\ EnterLoan(l, Row("payment_confirmed", loanRows[l][e].amount, e, side, NoLoanKey))
    /\ following' = following \cup {Follow(l, "settled")}
    /\ UNCHANGED <<loan, loanSeen, connVars>>

(* correct: a confirmed payment is reversed once; the check and the insert  *)
(* are apart, like those of a confirmation.                                 *)
CorrectInstalment(l, side, e) ==
    /\ loan[l].principal # 0 /\ IsCreditor(l, side)
    /\ \E n \in 0..Len(loanRows[l]) :
          /\ e \in 1..n /\ loanRows[l][e].kind = "payment_confirmed"
          /\ ~Answered(ReadOf(loanRows[l], n), e, "payment_corrected")
    /\ EnterLoan(l, Row("payment_corrected", loanRows[l][e].amount, e, side, NoLoanKey))
    /\ following' = following \cup {Follow(l, "reopen")}
    /\ UNCHANGED <<loan, loanSeen, connVars>>

ForgiveLoan(l, side, amount) ==
    /\ loan[l].principal # 0 /\ IsCreditor(l, side)
    /\ SawOwed(loanRows[l], amount)
    /\ EnterLoan(l, Row("forgiven", amount, 0, side, NoLoanKey))
    /\ following' = following \cup {Follow(l, "forgiven_settled")}
    /\ UNCHANGED <<loan, loanSeen, connVars>>

(* The conditional update of the status that ends each of these requests;   *)
(* settleIfClear reads the ledger once more, after its own entry.  Nothing  *)
(* is decided on these statuses, so no load of them is kept.                *)
SettlesFromPaid(status) == status \in LoanAgreed \ {"accepted"}
SettlesFrom(status) == status \in LoanAgreed

StatusAfter(status, what, owed) ==
    CASE what = "report" -> IF status \in {"accepted", "partially_paid"}
                            THEN "payment_awaiting_confirmation" ELSE status
      [] what = "reopen" -> IF status \in LoanClosed THEN "partially_paid" ELSE status
      [] OTHER           -> IF owed > 0
                            THEN IF status \in {"accepted", "payment_awaiting_confirmation"}
                                 THEN "partially_paid" ELSE status
                            ELSE IF SettlesFrom(status) THEN what ELSE status

FollowUp(f) ==
    \E n \in f.since..Len(loanRows[f.loan]) :
        /\ loan' = [loan EXCEPT ![f.loan].status =
                       StatusAfter(@, f.what, Owed(ReadOf(loanRows[f.loan], n)))]
        /\ following' = following \ {f}
        /\ UNCHANGED <<loanSeen, loanRows, connVars>>

LoanNext ==
    \/ \E l \in LoanIds :
          \/ \E manual, theyOweUs \in BOOLEAN, amount \in LoanOffers :
                Propose(l, manual, theyOweUs, amount)
          \/ \E side \in Sides :
                \/ \E action \in DOMAIN LoanRules, amount \in LoanOffers :
                      DecideLoan(l, side, action, amount)
                \/ \E amount \in Instalments, key \in LoanKeys \cup {NoLoanKey} :
                      ReportInstalment(l, side, amount, key)
                \/ \E e \in 1..MaxLoanRows : \/ ConfirmInstalment(l, side, e)
                                             \/ CorrectInstalment(l, side, e)
                \/ \E amount \in Instalments : ForgiveLoan(l, side, amount)
    \/ \E f \in following : FollowUp(f)
=============================================================================
