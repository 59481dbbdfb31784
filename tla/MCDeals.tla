------------------------------ MODULE MCDeals ------------------------------
(***************************************************************************)
(* Small instances of Deals for TLC.  What two companies do at the same    *)
(* time with a connection, with phones, with the money of a consignment    *)
(* and with a loan touches different rows, so `book' picks one of them.    *)
(* All but the first begin with the two companies connected.               *)
(***************************************************************************)
EXTENDS Deals, TLC

CONSTANTS A, u1, u2, c1, Books

VARIABLE book

mcVars == <<dealVars, book>>

Pending1 == [NoConnection EXCEPT !.status = "pending"]
Accepted == [Pending1 EXCEPT !.status = "accepted", !.version = 1]

Connected ==
    /\ conn = Accepted
    /\ connSeen = {NoConnection, Pending1, Accepted}
    /\ known = Sides
    /\ introducing = {}

MCInit ==
    /\ book \in Books
    /\ InvInit /\ ConInit /\ LoanInit /\ SalesInit
    /\ IF book = "pair" THEN ConnInit ELSE Connected

(* What is open in each book.  "offers": one consignment is negotiated.     *)
(* "goods": two of them and a sale compete for one phone, agreed as asked.  *)
(* "money": two phones go out to a partner on the platform and are paid.    *)
OpenBook ==
    /\ book = "pair" => UNCHANGED <<invVars, conVars, loanVars, sale>>
    /\ book # "pair" => UNCHANGED connVars
    /\ book = "loan" <=> loanVars' # loanVars
    /\ book = "offers" => deal'[c1].status \in {"none", "accepted_awaiting_custody", "cancelled"}
                                                 \cup Negotiating
    /\ book \in {"offers", "money"} => /\ \A u \in Units : unit'[u].status # "faulty"
                                       /\ \A c \in ConsignmentIds \ {c1} : deal'[c] = NoDeal
                                       /\ sale' = sale
    /\ book \in {"goods", "money"} => \A c \in ConsignmentIds :
          deal'[c].proposed <= 1 /\ deal'[c].counter = 0 /\ deal'[c].status # "disputed"
    /\ book = "offers" => unit'[u2].status = "absent"
    /\ book = "goods" => \A c \in ConsignmentIds : Len(dealRows'[c]) <= 1
    /\ book = "money" => ~deal'[c1].manual

MCNext == DealsNext /\ OpenBook /\ UNCHANGED book

MCSpec == MCInit /\ [][MCNext]_mcVars /\ Finishing

Nothing == [p \in Products |-> 0]
DealCarts == {[branch |-> A, units |-> {u1}, lines |-> Nothing]}
=============================================================================
