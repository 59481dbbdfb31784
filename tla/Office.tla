------------------------------- MODULE Office -------------------------------
(***************************************************************************)
(* The back office: who may come in (Access, Codes, Onboarding) and do     *)
(* what where (Roles), what the company may use and who decides that       *)
(* (Subscriptions), what is brought in from files and what codes and       *)
(* prices it is sold under (Imports, Mappings, PriceRows), the owner's own *)
(* settings (Desk), the products (Catalog) and the figures derived from    *)
(* the business (Rollups).  Accounts are shared by the first three and the *)
(* subscription's seats, the shelves by imports and by hand.               *)
(***************************************************************************)
EXTENDS Onboarding, Subscriptions, Roles, Codes, Imports, Mappings, PriceRows, Desk, Catalog,
        Rollups

peopleVars == <<accessVars, doorVars, subVars, adminVars>>
goodsVars == <<invVars, importVars>>
officeVars == <<peopleVars, codesVars, goodsVars, mappingVars, priceVars, deskVars,
                roleVars, catalogVars, rollupVars>>

(* The type invariant: every row of the office's tables has its columns. *)
OfficeTypeOK ==
    /\ AccessTypeOK /\ OnboardingTypeOK /\ SubscriptionsTypeOK
    /\ AdministratorsTypeOK /\ CodesTypeOK
    /\ InvTypeOK /\ ImportsTypeOK /\ MappingsTypeOK /\ PricesTypeOK /\ DeskTypeOK
    /\ RolesTypeOK /\ CatalogTypeOK /\ RollupsTypeOK

-----------------------------------------------------------------------------
Aside == UNCHANGED <<roleVars, catalogVars, rollupVars>>
Elsewhere == UNCHANGED <<codesVars, goodsVars, mappingVars, priceVars, deskVars>> /\ Aside

SignIns == SignInStep /\ UNCHANGED <<doorVars, subVars, adminVars>> /\ Elsewhere
AccountEdits == EditStep /\ UNCHANGED <<doorVars, subVars, adminVars>> /\ Elsewhere
Doors == DoorStep /\ UNCHANGED <<subVars, adminVars>> /\ Elsewhere
Administration == AdministratorStep /\ UNCHANGED doorVars /\ Elsewhere
Seating == SeatStep /\ UNCHANGED <<doorVars, adminVars>> /\ Elsewhere

Delegating ==
    /\ RoleStep
    /\ UNCHANGED <<doorVars, subVars, adminVars, codesVars, goodsVars, mappingVars, priceVars, deskVars,
                   catalogVars, rollupVars>>

OneTimeCodes ==
    CodeStep /\ UNCHANGED <<peopleVars, goodsVars, mappingVars, priceVars, deskVars>> /\ Aside

Shelving ==
    /\ \/ ImportStep
       \/ /\ \/ \E u \in Units : QuickAddUnit(u, Shop)
             \/ \E r \in ReceiptIds, k \in ReceiptKeys \cup {NoKey}, p \in Products, n \in Amounts :
                  QuickAddQuantity(r, k, p, Shop, n)
          /\ UNCHANGED importVars
    /\ UNCHANGED <<peopleVars, codesVars, mappingVars, priceVars, deskVars>> /\ Aside

CodeMapping ==
    MappingStep /\ UNCHANGED <<peopleVars, codesVars, goodsVars, priceVars, deskVars>> /\ Aside

Repricing ==
    PriceStep /\ UNCHANGED <<peopleVars, codesVars, goodsVars, mappingVars, deskVars>> /\ Aside

DeskWork ==
    DeskStep /\ UNCHANGED <<peopleVars, codesVars, goodsVars, mappingVars, priceVars>> /\ Aside

Cataloguing ==
    /\ CatalogStep
    /\ UNCHANGED <<peopleVars, codesVars, goodsVars, mappingVars, priceVars, deskVars,
                   roleVars, rollupVars>>

Recomputing ==
    /\ RollupStep
    /\ UNCHANGED <<peopleVars, codesVars, goodsVars, mappingVars, priceVars, deskVars,
                   roleVars, catalogVars>>

(* A confirmation that has retired the old mapping goes on to its insert    *)
(* unless the server stops.                                                 *)
OfficeFairness ==
    WF_mappingVars(\E i \in inserting : FinishConfirm(i))

-----------------------------------------------------------------------------
(* A continuation or handoff token opens at most one session that anybody   *)
(* is given, and so does a contact code, even when two starts link the same *)
(* code to two tokens; a completed registration leaves its owner verified   *)
(* and both the token and the code used up.                                 *)
OpenedOnce ==
    /\ \A a, b \in opened : a[1] = b[1] \/ (a[2] = b[2] /\ a[2] # NoVerification) => a = b
    /\ \A a \in opened : /\ intent[a[1]].state = "consumed"
                         /\ a[2] # NoVerification => /\ contact[a[2]].state = "spent"
                                                     /\ intent[a[1]].user \in verified

(* No session that was open when its account was switched off or got        *)
(* another contact is live afterwards, however old the row was that the     *)
(* edit had loaded; and a session bound to a trusted device does not        *)
(* outlive that trust.                                                      *)
SessionsFollowAccount ==
    \A s \in SessionIds : session[s].state = "live" =>
        /\ session[s].renewals = account[session[s].user].renewals
        /\ session[s].device # NoDevice /\ session[s].trusted
             => device[session[s].device].state = "trusted"

(* "Re-delegation is a fresh Owner decision": a delegation that is in force *)
(* was decided since its holder last became a manager at that branch,       *)
(* unless the role changed between the check and the insert.  And nobody is *)
(* admitted to editing prices except at a branch where they were an owner   *)
(* or got the delegation, whatever they may do at another.                  *)
AuthorityFollowsPost ==
    /\ \A p \in Posts \ crossed :
         post[p].role = "store_manager" /\ grants[p] # 0 => grants[p] = post[p].tenure
    /\ \A u \in Users, b \in Places \cup {NoPlace} :
         <<u, b, "price.edit">> \in used => <<u, b>> \in entrusted

(* An extension that carries a version adds its months to whatever the      *)
(* subscription already ran to: two administrators extending at once never  *)
(* swallow one another's months.                                            *)
ExtensionBuilds ==
    [][sub'.version # sub.version /\ asked'.kind = "extended" /\ asked'.versioned
         => sub'.end >= sub.end + asked'.months]_subVars

(* A file is brought in once: what is on the shelf is what was received by  *)
(* hand plus the imported rows of each committed file, and no phone was     *)
(* created by two rows, with previews that are out of date and commits that *)
(* race each other.                                                         *)
ImportedOf(p, b) ==
    IF batch[b].kind # "quantity" THEN 0
    ELSE TotalOf(batch[b].created, [n \in batch[b].created |->
             IF batch[b].rows[n].what = p THEN batch[b].rows[n].quantity ELSE 0])
ImportedOnce ==
    /\ \A p \in Products : stock[p][Shop].quantity =
         MapThenSumSet(LAMBDA r : receipt[r].line[p], ReceiptIds)
           + MapThenSumSet(LAMBDA b : ImportedOf(p, b), BatchIds)
    /\ \A b, c \in BatchIds : \A m \in batch[b].created, n \in batch[c].created :
         batch[b].rows[m].what \in Units /\ batch[b].rows[m].what = batch[c].rows[n].what
           => b = c /\ m = n

(* The log of a price reads as a history.  Every change names as previous   *)
(* price one that an earlier change gave the same row, or none for a new    *)
(* row; the first price of a stock row that had none is logged as a change  *)
(* from zero.  Until a price is removed for the first time, and for stock   *)
(* rows, which are never removed, always, it is exactly the one before; the *)
(* price that is asked now is what the last change left.  Only the removal  *)
(* of a phone's price when it moves, which deletes by id what it read       *)
(* before, may name an older one.  A price below cost is an owner's, every  *)
(* other owner hears of it, and a sale is charged a price of the log.       *)
PriceHistoryChains ==
    \A t \in Targeted :
        LET log == priceLog[t]
            first == priced[t][1].price
            Logged == {log[n].to : n \in DOMAIN log} IN
        /\ \A n \in DOMAIN log : \/ log[n].from = NoPrice /\ \A m \in 1..n - 1 : log[m].row < log[n].row
                                 \/ log[n].from = 0 /\ first = NoPrice /\ n = 1 /\ t \in ShelfPrices
                                 \/ log[n].from = first /\ n = 1
                                 \/ \E m \in 1..n - 1 : log[m].row = log[n].row /\ log[m].to = log[n].from
        /\ \A n \in 2..Len(log) :
             log[n].row = 1 /\ {n - 1, n} \cap carried[t] = {} => log[n].from = log[n - 1].to
        /\ log # <<>> /\ Len(log) \notin carried[t] => log[Len(log)].to = PriceRow(t).price
        /\ \A n \in DOMAIN log \ carried[t] :
             log[n].to # NoPrice /\ log[n].to < PaidFor => \E o \in PriceOwners :
                 o = log[n].by /\ log[n].told = PriceOwners \ {o}
        /\ \A c \in charges : c.what = t /\ c.from = "unit_override" => c.price \in Logged

(* "A stale edit is a 409, never a silent overwrite" (BranchVariantPrice's  *)
(* version, schema.prisma): a change that goes through replaces the price   *)
(* its caller was shown.                                                    *)
StaleEditRefused ==
    \A t \in VariantPrices : \A n \in 2..Len(priceLog[t]) :
        priceLog[t][n].from # NoPrice => priceLog[t][n].shown = priceLog[t][n - 1].to

(* A product is tracked the way its category says, and goods of it, however *)
(* they came, never change meaning: its mode is still what it was when they *)
(* were received, by hand always in that mode, archived or not, filed       *)
(* elsewhere or not.  Two exceptions.  A file is received the way the file  *)
(* is, also under a product of another mode.  And nothing between the count *)
(* of an empty category, the look at the history or at the mode, and the    *)
(* write stops another request on the same product or category.             *)
TrackingFollows ==
    \A a \in Articles \ contested :
        LET c == article[a].category IN
        /\ c \notin contested \cup {NoCategory} => article[a].mode = category[c]
        /\ \A g \in stocked[a] : /\ g.mode = article[a].mode
                                 /\ g.by = "hand" => g.kind = article[a].mode

(* When no recomputation is pending the derived tables show the source      *)
(* rows, although each is recomputed statement by statement while business  *)
(* goes on.  What may be behind, and stays so until the next recomputation  *)
(* has run by itself: after two that overlapped, one that was lost with the *)
(* server, or a movement that asks for none.                                *)
QuietMeansCurrent ==
    \A kind \in {"daily", "refresh"} \ unsettled :
        (\A j \in RollupJobs : job[j].kind # kind) =>
            IF kind = "daily"
            THEN /\ daily = [sold |-> SoldInAll, reversed |-> reversed]
                 /\ derived["products"] = sold
            ELSE derived["valuation"] = shelf /\ derived["velocity"] = sold

(* A version number stands for one content: nobody who sends the version    *)
(* they were shown can overwrite something else than what they were shown,  *)
(* in settings, receiving accounts (which a reorder renumbers), goals, the  *)
(* prices on stock rows and the subscription.  Prices that can be removed   *)
(* and set again are not among them: see StaleEditRefused.                  *)
VersionsIdentify ==
    /\ \A a, b \in settingsSeen : a.version = b.version => a = b
    /\ \A c \in Channels : \A a, b \in channelSeen[c] : a.version = b.version => a = b
    /\ \A g \in GoalIds : \A a, b \in goalSeen[g] : a.version = b.version => a = b
    /\ \A t \in ShelfPrices : \A i, j \in DOMAIN priced[t] :
         priced[t][i].version = priced[t][j].version => priced[t][i] = priced[t][j]
    /\ \A a, b \in subSeen : a.version = b.version => a = b

(* A code whose confirmed mapping was retired for another one resolves to   *)
(* a product again, without anybody having to look at it, unless a server   *)
(* stopped between the two statements.                                      *)
Retired(t) == Resolve(t).product = NoTacProduct /\ \E r \in RowsOf(t) : mapping[r].status = "superseded"
MappingComesBack ==
    \A t \in Tacs : Retired(t) ~> ((Resolve(t).product # NoTacProduct /\ ~Resolve(t).review) \/ dropped # {})
=============================================================================
