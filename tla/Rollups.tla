------------------------------- MODULE Rollups -------------------------------
(***************************************************************************)
(* The derived tables: the figures of a day, what each product sold, what  *)
(* a branch holds and how fast it moves.  They are recomputed from the     *)
(* source rows after the business has committed, statement by statement    *)
(* and outside any transaction; several recomputations of one branch may   *)
(* run at once, and one that fails is logged and forgotten.                *)
(***************************************************************************)
EXTENDS Integers, FiniteSets, FiniteSetsExt

CONSTANTS RollupJobs,   \* recomputations that may be under way
          Goods,        \* the products of one branch
          MaxBusiness,  \* bound: sales, returns and movements of goods
          MaxStops      \* bound: how often the server stops

VARIABLES sold, shelf,   \* per product: on sale lines of the day, on the shelf
          reversed,     \* money given back on the day
          daily,        \* daily_rollups: the row of the day
          derived,      \* the three tables with a row per product
          job,          \* recomputations, by the events that asked for them
          unsettled,    \* kinds whose tables may be behind, and why not to expect otherwise
          business, stops

rollupVars == <<sold, shelf, reversed, daily, derived, job, unsettled, business, stops>>

(* No row for a product with nothing to say. *)
NoRows == [g \in Goods |-> 0]
Tables == {"products", "valuation", "velocity"}
Truth(t) == IF t = "valuation" THEN shelf ELSE sold
SoldInAll == MapThenSumSet(LAMBDA g : sold[g], Goods)

Idle == [kind |-> "none", stage |-> "none", todo |-> {}, sold |-> 0, reversed |-> 0,
         rows |-> NoRows, alone |-> FALSE]

RollupsTypeOK ==
    /\ sold \in [Goods -> Nat] /\ shelf \in [Goods -> Nat] /\ reversed \in Nat
    /\ derived \in [Tables -> [Goods -> Nat]]
    /\ unsettled \subseteq {"daily", "refresh"}
    /\ \A j \in RollupJobs : job[j].kind \in {"none", "daily", "refresh"}

(* One of each on the shelf, and the tables say so. *)
RollupsInit ==
    /\ sold = NoRows /\ reversed = 0
    /\ shelf = [g \in Goods |-> 1]
    /\ daily = [sold |-> 0, reversed |-> 0]
    /\ derived = [t \in Tables |-> Truth(t)]
    /\ job = [j \in RollupJobs |-> Idle]
    /\ unsettled = {} /\ business = 0 /\ stops = 0

-----------------------------------------------------------------------------
(* RollupListener, and the handlers that ask for a recomputation themselves *)
(* (a return approved, a refund or an expense confirmed, goods received).   *)
AskedForSalesOnly(event) == IF event = "sale" THEN {"daily", "refresh"}
                            ELSE IF event = "money" THEN {"daily"} ELSE {}
AskedFor(event) ==
    CASE event = "sale"  -> {"daily", "refresh"}
      [] event = "money" -> {"daily"}
      [] event = "moved" -> {"refresh"}

(* A job for each kind, in the memory of the server.  It is due from the    *)
(* commit on; the handler emits its event and InProcessRollupQueue starts   *)
(* the job at once, but a server that stops before that has lost it.        *)
Due(event) ==
    LET kinds == AskedFor(event)
        Free(j) == job[j] = Idle
    IN  \E at \in [kinds -> RollupJobs] :
          /\ \A k \in kinds : Free(at[k])
          /\ \A k, l \in kinds : at[k] = at[l] => k = l
          /\ job' = [j \in RollupJobs |-> IF \E k \in kinds : at[k] = j
               THEN [Idle EXCEPT !.kind = CHOOSE k \in kinds : at[k] = j, !.stage = "due"]
               ELSE job[j]]

Business == business < MaxBusiness /\ business' = business + 1

(* createSale commits; what comes after the commit is StartJob. *)
SaleRecorded(g) ==
    /\ Business
    /\ shelf[g] > 0
    /\ sold' = [sold EXCEPT ![g] = @ + 1]
    /\ shelf' = [shelf EXCEPT ![g] = @ - 1]
    /\ Due("sale")
    /\ UNCHANGED <<reversed, daily, derived, unsettled, stops>>

(* A shipment or a receipt of the branch; a delivery. *)
StockMoved(g, n) ==
    /\ Business
    /\ shelf[g] + n >= 0
    /\ shelf' = [shelf EXCEPT ![g] = @ + n]
    /\ Due("moved")
    /\ UNCHANGED <<sold, reversed, daily, derived, unsettled, stops>>

MoneyReturned ==
    /\ Business
    /\ reversed' = reversed + 1
    /\ Due("money")
    /\ UNCHANGED <<sold, shelf, daily, derived, unsettled, stops>>

(* quickAdd, markFaulty, the reservation of a phone: nobody is told.  *)
MovedUntold(g, n) ==
    /\ Business
    /\ shelf[g] + n >= 0
    /\ shelf' = [shelf EXCEPT ![g] = @ + n]
    /\ unsettled' = unsettled \cup {"refresh"}
    /\ job' = [j \in RollupJobs |-> IF job[j].kind = "refresh"
                                    THEN [job[j] EXCEPT !.alone = FALSE] ELSE job[j]]
    /\ UNCHANGED <<sold, reversed, daily, derived, stops>>

-----------------------------------------------------------------------------
Running(kind) == {j \in RollupJobs : job[j].kind = kind /\ job[j].stage # "due"}
With(j, row) == job' = [job EXCEPT ![j] = row]

(* The event is emitted and the job does its first statement.  `alone'      *)
(* stays true while no other of its kind has run beside it.                 *)
StartJob(j) ==
    LET k == job[j].kind
        crowded == Running(k) # {} IN
    /\ job[j].stage = "due"
    /\ job' = [i \in RollupJobs |->
          IF i = j THEN [job[j] EXCEPT !.alone = ~crowded, !.todo = IF k = "daily" THEN {"products"}
                                                                  ELSE {"valuation", "velocity"},
                            !.stage = IF k = "daily" THEN "sales" ELSE "rows"]
          ELSE IF i \in Running(k) THEN [job[i] EXCEPT !.alone = FALSE] ELSE job[i]]
    /\ unsettled' = IF crowded THEN unsettled \cup {k} ELSE unsettled
    /\ UNCHANGED <<sold, shelf, reversed, daily, derived, business, stops>>

(* recomputeDaily: the sales, then everything else, then the row. *)
ReadSales(j) ==
    /\ job[j].stage = "sales"
    /\ With(j, [job[j] EXCEPT !.sold = SoldInAll, !.stage = "others"])
    /\ UNCHANGED <<sold, shelf, reversed, daily, derived, unsettled, business, stops>>

ReadOthers(j) ==
    /\ job[j].stage = "others"
    /\ With(j, [job[j] EXCEPT !.reversed = reversed, !.stage = "upsert"])
    /\ UNCHANGED <<sold, shelf, reversed, daily, derived, unsettled, business, stops>>

UpsertDaily(j) ==
    /\ job[j].stage = "upsert"
    /\ daily' = [sold |-> job[j].sold, reversed |-> job[j].reversed]
    /\ With(j, [job[j] EXCEPT !.stage = "rows"])
    /\ UNCHANGED <<sold, shelf, reversed, derived, unsettled, business, stops>>

(* refreshBranch does the valuation first, then the velocity. *)
TableOf(j) == IF "velocity" \in job[j].todo /\ "valuation" \notin job[j].todo THEN "velocity"
              ELSE IF "valuation" \in job[j].todo THEN "valuation" ELSE "products"

ReadRows(j) ==
    /\ job[j].stage = "rows"
    /\ With(j, [job[j] EXCEPT !.rows = Truth(TableOf(j)), !.stage = "clear"])
    /\ UNCHANGED <<sold, shelf, reversed, daily, derived, unsettled, business, stops>>

ClearRows(j) ==
    /\ job[j].stage = "clear"
    /\ derived' = [derived EXCEPT ![TableOf(j)] = NoRows]
    /\ With(j, [job[j] EXCEPT !.stage = "fill"])
    /\ UNCHANGED <<sold, shelf, reversed, daily, unsettled, business, stops>>

(* One insert; a row of another job for the same product fails it, and with *)
(* it what was left to do.                                                  *)
NoRowYet(j) == \A g \in Goods : job[j].rows[g] > 0 => derived[TableOf(j)][g] = 0

FillRows(j) ==
    LET t == TableOf(j)
        left == job[j].todo \ {t}
        k == job[j].kind IN
    /\ job[j].stage = "fill"
    /\ NoRowYet(j)
    /\ derived' = [derived EXCEPT ![t] = [g \in Goods |-> IF job[j].rows[g] > 0
                                                           THEN job[j].rows[g] ELSE @[g]]]
    /\ With(j, IF left = {} THEN Idle ELSE [job[j] EXCEPT !.todo = left, !.stage = "rows"])
    /\ unsettled' = IF left = {} /\ job[j].alone THEN unsettled \ {k} ELSE unsettled
    /\ UNCHANGED <<sold, shelf, reversed, daily, business, stops>>

FillFails(j) ==
    /\ job[j].stage = "fill"
    /\ ~NoRowYet(j)
    /\ With(j, Idle)
    /\ unsettled' = unsettled \cup {job[j].kind}
    /\ UNCHANGED <<sold, shelf, reversed, daily, derived, business, stops>>

(* The three tables are rebuilt in the same way. *)
Rebuild(j) == ReadRows(j) \/ ClearRows(j) \/ FillRows(j) \/ FillFails(j)
RecomputeProducts(j) == TableOf(j) = "products" /\ Rebuild(j)
RecomputeVelocity(j) == TableOf(j) = "velocity" /\ Rebuild(j)
RecomputeInventoryValuation(j) == TableOf(j) = "valuation" /\ Rebuild(j)

(* The jobs are only in memory. *)
ServerStops ==
    /\ stops < MaxStops
    /\ stops' = stops + 1
    /\ unsettled' = unsettled \cup ({job[j].kind : j \in RollupJobs} \ {"none"})
    /\ job' = [j \in RollupJobs |-> Idle]
    /\ UNCHANGED <<sold, shelf, reversed, daily, derived, business>>

JobStep(j) ==
    \/ StartJob(j) \/ ReadSales(j) \/ ReadOthers(j) \/ UpsertDaily(j)
    \/ RecomputeProducts(j) \/ RecomputeInventoryValuation(j) \/ RecomputeVelocity(j)

RollupStep ==
    \/ \E g \in Goods : \/ SaleRecorded(g)
                        \/ \E n \in {-1, 1} : StockMoved(g, n) \/ MovedUntold(g, n)
    \/ MoneyReturned
    \/ \E j \in RollupJobs : JobStep(j)
    \/ ServerStops
=============================================================================
