------------------------------ MODULE Mappings ------------------------------
(***************************************************************************)
(* Which product a type code (TAC) stands for.  Staff propose, an owner or *)
(* manager confirms; replacing a confirmed mapping is two statements, the  *)
(* old row is superseded and then a new one is inserted, with no           *)
(* transaction around them.  The learning worker writes the same table.    *)
(***************************************************************************)
EXTENDS Integers, FiniteSets

CONSTANTS Tacs, TacProducts, NoTacProduct,
          MappingIds,    \* bound: rows of product_recognition
          MaxDropped     \* bound: confirmations that stop half way

VARIABLES mapping,       \* product_recognition
          mappingSeen,   \* rows somebody may have read
          inserting,     \* confirmations that have read and are to insert
          dropped        \* codes of confirmations that stopped half way

mappingVars == <<mapping, mappingSeen, inserting, dropped>>

NoMapping == [status |-> "none", tac |-> NoTacProduct, product |-> NoTacProduct, version |-> 0]

MappingsTypeOK ==
    /\ mapping \in [MappingIds -> [status: {"none", "proposed", "confirmed", "superseded"},
                                   tac: Tacs \cup {NoTacProduct},
                                   product: TacProducts \cup {NoTacProduct}, version: Nat]]
    /\ inserting \subseteq [id: MappingIds, tac: Tacs, product: TacProducts]
    /\ dropped \subseteq MappingIds

MappingsInit ==
    /\ mapping = [r \in MappingIds |-> NoMapping]
    /\ mappingSeen = [r \in MappingIds |-> {}]
    /\ inserting = {}
    /\ dropped = {}

RowsOf(t) == {r \in MappingIds : mapping[r].tac = t}
ConfirmedOf(t) == {r \in RowsOf(t) : mapping[r].status = "confirmed"}
FreshMapping(r) == mapping[r] = NoMapping /\ \A i \in inserting : i.id # r

WriteMapping(r, row) ==
    /\ mapping' = [mapping EXCEPT ![r] = row]
    /\ mappingSeen' = [mappingSeen EXCEPT ![r] = @ \cup {row}]

NewMapping(t, p, status) == [status |-> status, tac |-> t, product |-> p, version |-> 0]

(* resolveTac: the confirmed row decides; without one, or with two, nothing *)
(* is selected and somebody has to look if anything was proposed.  (What    *)
(* the global catalogue adds names no product of the shop.)                 *)
ResolveTac(rows) ==
    LET of(status) == {row \in rows : row.status = status} IN
    CASE Cardinality(of("confirmed")) = 1 ->
           [source |-> "company_confirmed", review |-> FALSE,
            product |-> (CHOOSE row \in of("confirmed") : TRUE).product]
      [] Cardinality(of("confirmed")) > 1 ->
           [source |-> "company_confirmed", review |-> TRUE, product |-> NoTacProduct]
      [] of("confirmed") = {} /\ of("proposed") # {} ->
           [source |-> "company_proposed", review |-> TRUE, product |-> NoTacProduct]
      [] OTHER -> [source |-> "none", review |-> FALSE, product |-> NoTacProduct]

(* TacMappingService.resolve, and what a scan selects. *)
Resolve(t) == ResolveTac({mapping[r] : r \in RowsOf(t)})

(* submit by staff: refused when a confirmed row was found.  One confirmed   *)
(* since that read does not stop the proposal.                               *)
Propose(r, t, p) ==
    /\ FreshMapping(r)
    /\ WriteMapping(r, NewMapping(t, p, "proposed"))
    /\ UNCHANGED <<inserting, dropped>>

(* submit by an owner or manager who found no confirmed row, or ...          *)
BeginConfirm(r, t, p) ==
    /\ FreshMapping(r)
    /\ ConfirmedOf(t) = {}
    /\ inserting' = inserting \cup {[id |-> r, tac |-> t, product |-> p]}
    /\ UNCHANGED <<mapping, mappingSeen, dropped>>

(* ... found one and sent its version: the old row is retired first.         *)
Supersede(r, old, load, p) ==
    /\ FreshMapping(r)
    /\ load.status = "confirmed"
    /\ mapping[old].status = "confirmed" /\ mapping[old].version = load.version
    /\ WriteMapping(old, [mapping[old] EXCEPT !.status = "superseded", !.version = @ + 1])
    /\ inserting' = inserting \cup {[id |-> r, tac |-> mapping[old].tac, product |-> p]}
    /\ UNCHANGED dropped

(* The insert.  ux_prodrec_active allows one confirmed row per code; before  *)
(* migration 0043 the index allowed one row per code.                        *)
OneRowPerCode(t) == RowsOf(t) = {}
OneConfirmed(t) == ConfirmedOf(t) = {}

FinishConfirm(i) ==
    /\ i \in inserting
    /\ inserting' = inserting \ {i}
    /\ IF OneConfirmed(i.tac)
       THEN WriteMapping(i.id, NewMapping(i.tac, i.product, "confirmed"))
       ELSE UNCHANGED <<mapping, mappingSeen>>
    /\ UNCHANGED dropped

(* The server stops, or the database does not answer, before the insert.     *)
DropConfirm(i) ==
    /\ i \in inserting
    /\ Cardinality(dropped) < MaxDropped
    /\ inserting' = inserting \ {i}
    /\ dropped' = dropped \cup {i.id}
    /\ UNCHANGED <<mapping, mappingSeen>>

(* learn(): some row of the code, whatever its status, is made to name the   *)
(* product that was received; its version stays.                             *)
LearnMapping(r, p) ==
    /\ mapping[r] # NoMapping
    /\ mapping[r].product # p
    /\ WriteMapping(r, [mapping[r] EXCEPT !.product = p])
    /\ UNCHANGED <<inserting, dropped>>

MappingStep ==
    \/ \E r \in MappingIds, p \in TacProducts :
         \/ \E t \in Tacs : Propose(r, t, p) \/ BeginConfirm(r, t, p)
         \/ \E old \in MappingIds : \E load \in mappingSeen[old] : Supersede(r, old, load, p)
         \/ LearnMapping(r, p)
    \/ \E i \in inserting : FinishConfirm(i) \/ DropConfirm(i)
=============================================================================
