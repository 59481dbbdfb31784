---------------------------- MODULE Connections ----------------------------
(***************************************************************************)
(* Two companies on the platform and the relationship between them:        *)
(* ConnectionsService.  ux_store_connections_pair allows one row per pair  *)
(* whichever side asked.  `connSeen' keeps the values the row has had: a   *)
(* request decides on the one it loaded.                                   *)
(***************************************************************************)
EXTENDS Integers

CONSTANT MaxConnVersion   \* bound: how often the relationship changes

ASSUME ConnectionsAssumption == MaxConnVersion \in Nat

VARIABLES conn,         \* store_connections, the one row of this pair
          connSeen,     \* the values that row has had
          known,        \* counterparties: who has a row for the other company
          introducing   \* ensureCounterparty calls that are still to write

connVars == <<conn, connSeen, known, introducing>>

Sides == {"source", "destination"}
Other(side) == CHOOSE s \in Sides : s # side

NoConnection == [status |-> "none", requester |-> "source", blockedBy |-> "nobody", version |-> 0]

ConnTypeOK ==
    /\ conn \in [status: {"none", "pending", "accepted", "rejected", "blocked"},
                 requester: Sides, blockedBy: Sides \cup {"nobody"}, version: 0..MaxConnVersion]
    /\ connSeen \subseteq [status: {"none", "pending", "accepted", "rejected", "blocked"},
                 requester: Sides, blockedBy: Sides \cup {"nobody"}, version: 0..MaxConnVersion]
    /\ known \subseteq Sides
    /\ introducing \subseteq Sides

ConnInit ==
    /\ conn = NoConnection
    /\ connSeen = {NoConnection}
    /\ known = {}
    /\ introducing = {}

WriteConn(row) ==
    /\ row.version <= MaxConnVersion
    /\ conn' = row
    /\ connSeen' = connSeen \cup {row}

(* request: any row between the two refuses another one. *)
RequestConnection(by) ==
    /\ conn = NoConnection
    /\ WriteConn([NoConnection EXCEPT !.status = "pending", !.requester = by])
    /\ UNCHANGED <<known, introducing>>

(* decide: only the addressee.  The swap names the version and the status   *)
(* that were loaded, so the row decided on is the row as it is.  Acceptance *)
(* goes on to give each side its counterparty row, outside any transaction. *)
IntroduceBoth(by) == {by, Other(by)}

DecideConnection(by, accept) ==
    /\ conn.status = "pending" /\ conn.requester # by
    /\ WriteConn([conn EXCEPT !.status = IF accept THEN "accepted" ELSE "rejected",
                              !.version = @ + 1])
    /\ introducing' = introducing \cup (IF accept THEN IntroduceBoth(by) ELSE {})
    /\ UNCHANGED known

(* ensureCounterparty: one row per company and connected company. *)
EnsureCounterparty(side) ==
    /\ side \in introducing
    /\ introducing' = introducing \ {side}
    /\ known' = known \cup {side}
    /\ UNCHANGED <<conn, connSeen>>

(* setBlocked: a check on the loaded row, then an update by id alone. *)
Block(by) ==
    /\ \E load \in connSeen : load.status \notin {"none", "blocked"}
    /\ WriteConn([conn EXCEPT !.status = "blocked", !.blockedBy = by, !.version = @ + 1])
    /\ UNCHANGED <<known, introducing>>

Unblock(by) ==
    /\ \E load \in connSeen : load.status = "blocked" /\ load.blockedBy = by
    /\ WriteConn([conn EXCEPT !.status = "pending", !.blockedBy = "nobody", !.version = @ + 1])
    /\ UNCHANGED <<known, introducing>>

ConnNext ==
    \E by \in Sides :
        \/ RequestConnection(by)
        \/ \E accept \in BOOLEAN : DecideConnection(by, accept)
        \/ EnsureCounterparty(by)
        \/ Block(by)
        \/ Unblock(by)
=============================================================================
