------------------------------- MODULE Custody -------------------------------
(***************************************************************************)
(* What the shop promises about a phone, with no rows, statuses, versions  *)
(* or requests in flight: once it is registered it is free, promised to a  *)
(* transfer, travelling with that same transfer, or sold.  Only a free     *)
(* phone can be promised or sold, only a promised one can travel, a        *)
(* transfer gives back all it was promised or none of it, and what was     *)
(* sold stays sold.                                                        *)
(***************************************************************************)
CONSTANTS Goods, Carriers, Buyers

VARIABLES registered,  \* the phones the company has taken in
          promised,    \* who a phone is promised to
          travelling,  \* who a phone travels with
          sold         \* who has bought a phone

custody == <<registered, promised, travelling, sold>>

Nobody == [g \in Goods |-> {}]
Free(g) == g \in registered /\ promised[g] = {} /\ travelling[g] = {} /\ sold[g] = {}

Init == registered = {} /\ promised = Nobody /\ travelling = Nobody /\ sold = Nobody

Register(gs) ==
    /\ registered' = registered \cup gs
    /\ UNCHANGED <<promised, travelling, sold>>

Promise(gs, c) ==
    /\ \A g \in gs : Free(g)
    /\ promised' = [g \in Goods |-> IF g \in gs THEN {c} ELSE promised[g]]
    /\ UNCHANGED <<registered, travelling, sold>>

GiveBack(c) ==
    /\ promised' = [g \in Goods |-> promised[g] \ {c}]
    /\ UNCHANGED <<registered, travelling, sold>>

Depart(c) ==
    /\ promised' = [g \in Goods |-> promised[g] \ {c}]
    /\ travelling' = [g \in Goods |-> IF c \in promised[g] THEN {c} ELSE travelling[g]]
    /\ UNCHANGED <<registered, sold>>

Arrive(gs, c) ==
    /\ \A g \in gs : travelling[g] = {c}
    /\ travelling' = [g \in Goods |-> IF g \in gs THEN {} ELSE travelling[g]]
    /\ UNCHANGED <<registered, promised, sold>>

Sell(gs, b) ==
    /\ \A g \in gs : Free(g)
    /\ sold' = [g \in Goods |-> IF g \in gs THEN {b} ELSE sold[g]]
    /\ UNCHANGED <<registered, promised, travelling>>

Next ==
    \E gs \in SUBSET Goods :
        \/ Register(gs)
        \/ \E c \in Carriers : Promise(gs, c) \/ GiveBack(c) \/ Depart(c) \/ Arrive(gs, c)
        \/ \E b \in Buyers : Sell(gs, b)

Spec == Init /\ [][Next]_custody
=============================================================================
