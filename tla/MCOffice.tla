------------------------------ MODULE MCOffice ------------------------------
(***************************************************************************)
(* Small instances of Office for TLC.  `page' picks the part of the office *)
(* that is worked in, so that the state space is the sum of the parts.     *)
(***************************************************************************)
EXTENDS Office

CONSTANTS A, u1, u2, h1, h2, p1, s2, ca1, ar2, Pages

VARIABLE page

mcVars == <<officeVars, page>>

(* A phone twice in one file, one that may be there already; a counted      *)
(* product on two rows, one of which cannot be read; a file without its     *)
(* columns.                                                                 *)
Row(what, readable, doubtful, n) ==
    [what |-> what, coded |-> what \in Units, readable |-> readable, doubtful |-> doubtful,
     quantity |-> n]
OfficeFiles ==
    {[kind |-> "imei", missing |-> FALSE,
      rows |-> <<Row(h1, TRUE, FALSE, 1), Row(h1, TRUE, FALSE, 1), Row(h2, TRUE, TRUE, 1)>>],
     [kind |-> "quantity", missing |-> FALSE,
      rows |-> <<Row(p1, TRUE, FALSE, 1), Row(p1, FALSE, FALSE, 1), Row(p1, TRUE, TRUE, 2)>>],
     [kind |-> "imei", missing |-> TRUE, rows |-> <<Row(h1, FALSE, FALSE, 1)>>]}

(* Somebody with two contacts who may sign in, or two colleagues of whom    *)
(* nobody has a seat.                                                       *)
Person(state, phone) == [NoAccount EXCEPT !.state = state, !.phone = phone, !.email = 1]
People ==
    [u \in Users |-> CASE page = "seats" -> Person("inactive", 1)
                       [] page \in {"access", "roles"} /\ u = u1 -> Person("active", 1)
                       [] OTHER -> NoAccount]
Subscribed == [FirstSub EXCEPT !.status = "activated", !.end = 2]

MCInit ==
    /\ page \in Pages
    /\ AccessInit(People) /\ OnboardingInit
    /\ SubscriptionsInit(IF page = "seats" THEN Subscribed ELSE FirstSub)
    /\ AdministratorsInit /\ CodesInit /\ InvInit /\ ImportsInit /\ MappingsInit /\ PricesInit /\ DeskInit
    /\ CatalogInit /\ RollupsInit
    /\ RolesInit({u1}) 
    /\ page # "roles" => matrix = ROLE_PERMISSIONS
    /\ page # "prices" => \A t \in ShelfPrices : PriceRow(t).price = NoPrice
    /\ category = [c \in Categories |-> IF c = ca1 THEN "serial" ELSE "quantity"]
    /\ settings.value = CHOOSE v \in SettingValues : TRUE

(* One removable price, edited by somebody who may ask any: long enough to  *)
(* be removed and set again, and for the versions to catch up.              *)
OwnerAlone ==
    /\ charges = {} /\ \A t \in Targeted \ VariantPrices : priceLog[t] = <<>>
    /\ \A t \in VariantPrices : \A n \in DOMAIN priceLog[t] : priceLog[t][n].by \in PriceOwners

(* Somebody new is hired while nothing has happened to the others. *)
Newcomer ==
    /\ account[u2].edits = 0 /\ changing[u1] = NoChange /\ account[u1].edits = 0
    /\ matrix = ROLE_PERMISSIONS
    /\ \A b \in Places : /\ post[<<u1, b>>].tenure = 1 /\ grants[<<u1, b>>] = 0
                         /\ post[<<u2, b>>].tenure <= 1
                         /\ \A g \in granting : g[1] # <<u1, b>>

(* Goods matter to one product, without its barcode. *)
SomeArrived == \E a \in Articles : ArrivingOf(a) # {} \/ HasHistory(a)

(* Bounds of each page. *)
PageRules ==
    /\ page = "access" => session'[s2].rotations = 0
    /\ page = "door" => account'[u2] = NoAccount
    /\ page = "admin" => /\ UNCHANGED accessVars
                         /\ adminState' # "disabled" /\ adminSession' # "over"
                         /\ payments' = <<>> /\ admitted' <= 1
                         /\ admitted = 0 => subVars' = subVars
    /\ page = "duty" => UNCHANGED accessVars /\ sub'.version <= 1 /\ now' = 1 /\ Len(plans') = 1
    /\ page = "desk" => UNCHANGED <<settings, goal>>
    /\ page = "goals" => UNCHANGED channel
    /\ page = "codes" => \A c \in ChallengeIds : otp'[c].delivery = "failed" => otp'[c].attempts = 0
    /\ page = "prices" => /\ Cardinality(charges') <= 1
                          /\ MapThenSumSet(LAMBDA t : Len(priceLog'[t]), Targeted) <=
                               IF OwnerAlone' THEN 6 ELSE IF charges' = {} THEN 4 ELSE 3
    /\ page = "roles" => /\ \A u \in Users : account'[u].phone + account'[u].email \in {0, 2}
                         /\ Cardinality(used') <= 1
                         /\ account'[u2] # NoAccount => Newcomer'
    /\ page = "catalog" =>
          /\ \A f \in Filings : filing'[f].what = ar2 =>
                filing'[f].article.category = NoCategory /\ filing'[f].article.mode = "imei"
          /\ SomeArrived' => /\ article'[ar2] = NoArticle
                             /\ \A f \in Filings : filing'[f].article.barcode = NoBarcode
                             /\ \A x \in Articles : /\ article'[x].barcode = NoBarcode
                                                    /\ Cardinality(stocked'[x]) <= 1
    /\ page = "seats" => sub'.version <= 1 /\ followUps' = {}

MCNext ==
    /\ \/ page = "access" /\ SignIns
       \/ page = "access" /\ AccountEdits
       \/ page = "door" /\ Doors
       \/ page \in {"admin", "duty"} /\ Administration
       \/ page = "seats" /\ Seating
       \/ page = "codes" /\ OneTimeCodes
       \/ page = "files" /\ Shelving
       \/ page = "mapping" /\ CodeMapping
       \/ page = "prices" /\ Repricing
       \/ page \in {"desk", "goals"} /\ DeskWork
       \/ page = "roles" /\ Delegating
       \/ page = "roles" /\ AccountEdits
       \/ page = "catalog" /\ Cataloguing
       \/ page = "rollups" /\ Recomputing
    /\ PageRules
    /\ UNCHANGED page

MCSpec == MCInit /\ [][MCNext]_mcVars /\ OfficeFairness
=============================================================================
