------------------------------ MODULE Pricing ------------------------------
(***************************************************************************)
(* The price given to one exact phone (table unit_price_overrides).  The   *)
(* row carries the branch under whose authority the price was set.  What   *)
(* the price is does not matter here; that it exists, whose it is and its  *)
(* version do.                                                             *)
(***************************************************************************)
EXTENDS Inventory

CONSTANTS NoBranch,           \* the branch of a row that is not there
          MaxPriceVersion     \* bound: how often one row is updated

ASSUME PricingAssumption == NoBranch \notin Branches /\ MaxPriceVersion \in Nat

VARIABLE override   \* unit_price_overrides, one row per unit at most

NoOverride == [branch |-> NoBranch, version |-> 0]

PricingTypeOK ==
    override \in [Units -> [branch: Branches \cup {NoBranch}, version: 0..MaxPriceVersion]]

PricingInit == override = [u \in Units |-> NoOverride]

(* assertUnitInActiveBranch and assertUnitPriceable look at the row loaded  *)
(* before the transaction.                                                  *)
SawPriceable(u, b) == [status |-> "in_stock", branch |-> b] \in past[u]

(* setUnitOverride.  A row that is there is updated from the version the    *)
(* caller echoes, which somebody who has just read the row always knows.    *)
SetUnitOverride(u, b) ==
    /\ SawPriceable(u, b)
    /\ \/ /\ override[u] = NoOverride
          /\ override' = [override EXCEPT ![u] = [branch |-> b, version |-> 0]]
       \/ /\ override[u] # NoOverride
          /\ override[u].version < MaxPriceVersion
          /\ override' = [override EXCEPT ![u] = [branch |-> b, version |-> @.version + 1]]
    /\ UNCHANGED invVars

(* removeUnitOverride: not gated on the status, only on the branch seen. *)
RemoveUnitOverride(u, b) ==
    /\ \E row \in past[u] : row.branch = b /\ row.status # "absent"
    /\ override[u] # NoOverride
    /\ override' = [override EXCEPT ![u] = NoOverride]
    /\ UNCHANGED invVars

(* invalidateOnBranchMoveTx, within the transaction that moves the units. *)
KeepOverrides(us) == UNCHANGED override
InvalidateOnBranchMove(us) ==
    override' = [u \in Units |-> IF u \in us THEN NoOverride ELSE override[u]]

PricingNext ==
    \E u \in Units, b \in Branches : SetUnitOverride(u, b) \/ RemoveUnitOverride(u, b)
=============================================================================
