----------------------------- MODULE Transfers -----------------------------
(***************************************************************************)
(* Branch-to-branch transfers: TransfersService over transfer-state-       *)
(* machine.ts.  A request reserves its units and quantities; shipment      *)
(* takes them off the shelf; receipt lands them at the destination.        *)
(*                                                                         *)
(* Every decision loads the row, asserts the transition on what it loaded  *)
(* and then swaps status and version if the version is still the one the   *)
(* caller has seen.  `seen' keeps every (status, version) a row has had:   *)
(* the load may be as old as one likes.                                    *)
(***************************************************************************)
EXTENDS Pricing

CONSTANTS TransferIds,     \* bound: how many transfers there may be
          TransferKeys,    \* the clientUuids of transfer requests
          Requests         \* what a branch may ask for

ASSUME TransfersAssumption ==
    /\ NoKey \notin TransferKeys
    /\ Requests \subseteq [from: Branches, to: Branches, units: SUBSET Units, lines: Lines]
    /\ \A q \in Requests : q.from # q.to

VARIABLES transfer,    \* stock_transfers with their items
          seen,        \* the statuses each version of a row has been read with
          answered     \* what the callers of create have been told

trVars == <<transfer, seen, answered>>

-----------------------------------------------------------------------------
(* transfer-state-machine.ts *)

TransferStatus == {"pending_approval", "approved", "in_transit",
                   "received", "rejected", "cancelled"}

TransferTransitions ==
    [pending_approval |-> {"approved", "rejected", "cancelled"},
     approved         |-> {"in_transit", "cancelled"},
     in_transit       |-> {"received"},
     received         |-> {},
     rejected         |-> {},
     cancelled        |-> {}]

ReservingStatuses == {"pending_approval", "approved"}

CanTransferTransition(from, to) ==
    from \in TransferStatus /\ to \in TransferTransitions[from]

-----------------------------------------------------------------------------
(* `costed' stands for shippedUnitCost on the quantity lines, NULL before   *)
(* shipment; `arrived' for the units a receipt matched and moved.           *)
NoRow == [status |-> "none", version |-> 0, key |-> NoKey,
          from |-> CHOOSE b \in Branches : TRUE, to |-> CHOOSE b \in Branches : TRUE,
          units |-> {}, lines |-> [p \in Products |-> 0],
          costed |-> FALSE, arrived |-> {}]

TransferRow ==
    [status: TransferStatus \cup {"none"}, version: Nat,
     key: TransferKeys \cup {NoKey}, from: Branches, to: Branches,
     units: SUBSET Units, lines: Lines, costed: BOOLEAN, arrived: SUBSET Units]

Answers == [key: TransferKeys, request: Requests, transfer: TransferIds]

TransfersTypeOK ==
    /\ transfer \in [TransferIds -> TransferRow]
    /\ seen \in [TransferIds -> SUBSET [status: TransferStatus, version: Nat]]
    /\ answered \in SUBSET Answers

TransfersInit ==
    /\ transfer = [t \in TransferIds |-> NoRow]
    /\ seen = [t \in TransferIds |-> {}]
    /\ answered = {}

(* Write one row; the value it takes may be read by a request from now on. *)
WriteTransfer(t, row) ==
    /\ transfer' = [transfer EXCEPT ![t] = row]
    /\ seen' = [seen EXCEPT ![t] = @ \cup {[status |-> row.status, version |-> row.version]}]

-----------------------------------------------------------------------------
(* create.  The checks made before the transaction (units in stock here,    *)
(* stock row present) refuse early; the same conditions are in the WHERE    *)
(* clauses, and those decide.  The unique key (company, clientUuid) admits  *)
(* one row per key; selfApproves is whether the caller holds                *)
(* transfer.approve.                                                        *)
KeyIsFree(k) == \A t \in TransferIds : transfer[t].key # k

ClaimableAnywhere(u, b) == unit[u].status = "in_stock"
ClaimableAnyStatus(u, b) == unit[u].branch = b /\ unit[u].status # "absent"
Claimable(u, b) == unit[u] = [status |-> "in_stock", branch |-> b]

Create(t, k, q, selfApproves) ==
    /\ transfer[t] = NoRow
    /\ KeyIsFree(k)
    /\ \A u \in q.units : Claimable(u, q.from)
    /\ EveryLine(stock, q.from, q.lines, Reservable)
    /\ WriteUnits(WithStatus(unit, q.units, "reserved"))
    /\ stock' = OnLines(stock, q.from, q.lines, ReserveQuantity)
    /\ WriteTransfer(t,
          [status |-> IF selfApproves THEN "approved" ELSE "pending_approval",
           version |-> 0, key |-> k, from |-> q.from, to |-> q.to,
           units |-> q.units, lines |-> q.lines, costed |-> FALSE, arrived |-> {}])
    /\ answered' = answered \cup {[key |-> k, request |-> q, transfer |-> t]}
    /\ UNCHANGED <<receipt, override>>

(* transferFingerprint hashes units, lines and both branches.  findReplay   *)
(* recomputes it with the source branch of the PRIOR row.                   *)
Fingerprint(q, from) == <<from, q.to, q.units, q.lines>>
HashOf(row) == <<row.from, row.to, row.units, row.lines>>

AnyPayload(t, q) == TRUE
SameFingerprint(t, q) == Fingerprint(q, transfer[t].from) = HashOf(transfer[t])

(* A key that has a row is answered with it, before the transaction or      *)
(* after losing a race; another payload under that key is refused.          *)
ReplayCreate(t, k, q) ==
    /\ transfer[t].key = k
    /\ SameFingerprint(t, q)
    /\ answered' = answered \cup {[key |-> k, request |-> q, transfer |-> t]}
    /\ UNCHANGED <<invVars, override, transfer, seen>>

-----------------------------------------------------------------------------
(* transitionTx: assert on a loaded (status, version), swap from the        *)
(* version the caller expects.  The caller has seen that version no later   *)
(* than the handler's own load.                                             *)
AnyVersion(t, e) == TRUE
VersionIs(t, e) == transfer[t].version = e

Transition(t, to, change) ==
    \E load \in seen[t] :
        /\ CanTransferTransition(load.status, to)
        /\ \E e \in 0..load.version : VersionIs(t, e)
        /\ WriteTransfer(t, [change EXCEPT !.status = to, !.version = change.version + 1])

(* releaseReservationsTx: what is still reserved goes back on the shelf. *)
ReleaseReservations(t) ==
    /\ WriteUnits(WithStatus(unit,
          {u \in transfer[t].units : unit[u].status = "reserved"}, "in_stock"))
    /\ stock' = OnLines(stock, transfer[t].from, transfer[t].lines, ReleaseQuantity)

Approve(t) ==
    /\ Transition(t, "approved", transfer[t])
    /\ UNCHANGED <<invVars, override, answered>>

Reject(t) ==
    /\ Transition(t, "rejected", transfer[t])
    /\ ReleaseReservations(t)
    /\ UNCHANGED <<receipt, override, answered>>

(* cancel.  Without transfer.cancel the caller must have made the request   *)
(* and have loaded it pending: a special case of what a manager may do.     *)
Cancel(t) ==
    /\ Transition(t, "cancelled", transfer[t])
    /\ ReleaseReservations(t)
    /\ UNCHANGED <<receipt, override, answered>>

(* ship.  Each unit is swapped from reserved; one that is not aborts the    *)
(* shipment, and so does a line whose reservation is gone.  (The same test  *)
(* before the transaction only refuses earlier.)                            *)
ShippableUnitUnchecked(u) == TRUE
ShippableUnit(u) == unit[u].status = "reserved"

Ship(t) ==
    /\ \A u \in transfer[t].units : ShippableUnit(u)
    /\ EveryLine(stock, transfer[t].from, transfer[t].lines, Shippable)
    /\ Transition(t, "in_transit", [transfer[t] EXCEPT !.costed = TRUE])
    /\ WriteUnits(WithStatus(unit, transfer[t].units, "in_transit"))
    /\ stock' = OnLines(stock, transfer[t].from, transfer[t].lines, ShipQuantity)
    /\ UNCHANGED <<receipt, override, answered>>

(* receiveConfirm.  The units scanned (computeDiscrepancy's matched) that   *)
(* are in transit arrive and lose their price; the others stay in transit.  *)
(* The whole of every quantity line arrives.                                *)
ReceiveConfirm(t, matched) ==
    LET row   == transfer[t]
        moved == {u \in matched : unit[u].status = "in_transit"}
    IN  /\ matched \subseteq row.units
        /\ (\E p \in Products : row.lines[p] > 0) => row.costed
        /\ WriteUnits([u \in Units |-> IF u \in moved
                          THEN [status |-> "in_stock", branch |-> row.to]
                          ELSE unit[u]])
        /\ InvalidateOnBranchMove(moved)
        /\ stock' = OnLines(stock, row.to, row.lines, ReceiveQuantity)
        /\ Transition(t, "received", [row EXCEPT !.arrived = moved])
        /\ UNCHANGED <<receipt, answered>>

-----------------------------------------------------------------------------
TransfersNext ==
    \E t \in TransferIds :
        \/ \E k \in TransferKeys, q \in Requests :
              \/ \E selfApproves \in BOOLEAN : Create(t, k, q, selfApproves)
              \/ ReplayCreate(t, k, q)
        \/ Approve(t)
        \/ Reject(t)
        \/ Cancel(t)
        \/ Ship(t)
        \/ \E matched \in SUBSET Units : ReceiveConfirm(t, matched)
=============================================================================
