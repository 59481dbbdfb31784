# A TLA+ model of the ERP backend

The backend serves phone shops: companies with several branches, goods that are
either single phones (an IMEI or serial number each) or counted stock, and the
money, people and paperwork around them. It is a NestJS application over Prisma
and MySQL. Many requests run at the same time; each handler loads rows, checks
them, and writes, sometimes in one transaction and sometimes not. The hard part
is what happens between the load and the write, and that is what this project
is about.

## The system's parts and their modules

| part of the source | modules | what is hard |
| --- | --- | --- |
| `inventory/`, `pricing/`, `transfers/`, `sales/` | `Inventory`, `Pricing`, `Transfers`, `Sales`, composed in `Shop` | claims on one phone, concurrent decisions, reservations, replayed requests |
| what the four promise together | `Custody` (abstract) | a phone is in one place and has one taker |
| `consignment/`, `loans/` | `Ledgers`, `Connections`, `Consignments`, `Loans`, composed in `Deals` | two companies answering one another, money entered without a transaction |
| `sales/` (money), `returns/`, `corrections/` | `Counter`, `Returns`, `Corrections` | several people on one return, refunds and their correction |
| `purchasing/`, `suppliers/`, `expenses/` | `Purchasing`, `Payables`, `Expenses` | amounts read before they are paid |
| `closing/` | `Days`, `Closing` | a day is counted and signed while business goes on |
| `scanner/` (outbox) | `Outbox`; all of the money side is composed in `Books` | leases, crashes, eventual delivery |
| `auth/`, `users/` | `Access`, `Codes` | sessions racing what ends them, one-time codes |
| `platform/`, `entitlement/`, `billing/` | `Onboarding`, `Subscriptions` (which has the administrators) | tokens used twice, versions that are optional |
| `rbac/`, `prisma/create-user.ts` | `Roles` | a delegation against a change of role |
| `imports/`, `scanner/tac-*` , `pricing/` (rows) | `Imports`, `Mappings`, `PriceRows` | previews out of date, two statements without a transaction, versions that restart |
| `catalog/`, `categories/`, `tracking/`, `settings/`, `goals/` | `Catalog`, `Desk` | checks counted before the write |
| `analytics/` | `Rollups`; the office side is composed in `Office` | overlapping recomputations |

`MCShop`, `MCDeals`, `MCBooks` and `MCOffice` are the small instances for TLC.
`Totals` has the sums. The theorems are in `ShopProofs` and `StockProofs` (goods),
`DealsProofs`, `CodesProofs`, and `BooksProofs`, which rests on `BranchProofs` and
`ClosingProofs`; `TotalsProofs` has the laws of sums.

Each module has its tables as variables and one action per operation of the
service; `map` in `PROJECT.json` gives the lines behind each definition. The tables
`units` and `stock_items` are where parts meet: `Inventory` is shared by `Shop`,
`Deals`, `Books` and `Office`. Accounts are shared by `Access`, `Onboarding`,
`Subscriptions` (which counts seats) and `Roles`.

## How requests in flight are modelled

A transaction made of conditional `UPDATE`s is one step. MySQL locks the rows it
matches until commit and evaluates the `WHERE` clause on committed values, so
what decides is the row as it is. A transaction in which one statement matches
nothing throws and leaves no trace, so its conditions are guards. Where the code
has no transaction, each statement is a step, and what is still to be done is
state (`closing` and `following` in the deals, `inserting` in the mappings,
`filing` in the catalog, `followUps` in the subscriptions, the clerks and signers
of a closing, the jobs of the rollups).

What a handler read *before* its writes may be out of date. Sets such as `past[u]`,
`seen[t]`, `dealSeen`, `reqSeen`, `owings` or `subSeen` hold every value a row has
had, and an action that tests something loaded earlier tests some member of
them. A ledger is only appended to, so what was read is one of its prefixes. This covers
any number of requests in flight, each with a load as old as one likes. It also
admits requests slower than a real time limit would allow, so a property that
passes holds under any timing.

Two assumptions are made. The `expectedVersion` a caller sends belongs to a row it
was shown, no later than the handler's own load; what the caller was shown and
what the handler loads may be two different rows (`Asking` in `PriceRows`). And a
database constraint
(unique key, generated column, CHECK) is part of the condition of the statement
it guards.

Some checks run twice in the code: once before the transaction to refuse early
with a good message, once in the `WHERE` clause. Only the second is modelled,
except where the first sees something the second does not test (the branch in
`assertSellable`, the status in `assertUnitPriceable` and `assertTransition`).

Requests that are refused change nothing and are not steps.

## What is abstracted

A transfer's items are a set of units and a quantity per product. Costs appear
in `Shop` only as `costed`, which says whether the shipped cost has been fixed, because a
receipt of counted goods is refused without it; in `Books` every phone costs the
same. `Pricing` keeps existence, branch and version of a price, `PriceRows` its
value and log. Amounts are small whole numbers (cents, which is what `round2`
makes of them). Days are numbered and time within a day is left out; subscriptions
count ticks. Secrets, passwords and codes are numbers or the fact of being
right. A file to import is a sequence of rows with what reading its cells comes
to. Audit rows, wording and numbering are left out, and so are notifications,
except those about a price below cost. The fingerprint of a request is the tuple
of what is hashed.

## Runs

The passing runs are exhaustive.

| run | instance | distinct states |
| --- | --- | --- |
| `shop` | 3 pages, below | 169,046 |
| `deals` | 2 companies, 2 consignments, 1 loan | 49,922 |
| `books` | 7 pages, below | 138,332 |
| `office` | 14 pages, below | 429,815 |

Three of them have a variable `page` that picks the part worked in, so that the
state space is a sum and not a product. A property is checked on every page.

`shop` has the pages `units` (2 phones, 2 branches, 2 transfers, 1 sale, prices),
`stock` (1 counted product and 1 phone, 2 receipts, 2 transfers, 2 sales) and `keys`
(3 branches, 1 product, keys used again). It checks that a phone is never promised or
sold twice (`OneClaimPerUnit`, with its inductive strengthening `ClaimsInv`), that
what is promised is at the source (`HeldAtSource`), that steps of transfers and
units follow their tables, that an old price does not come back, that the shop
implements `Custody` (`InCustody`), that the reserved quantity is what open
transfers were promised, that goods are neither made nor lost, and that a key
stands for one movement.

`deals` checks that phones handed over are accounted for, that both sides agreed
to the terms in force, that a deal closes only when paid, and that it does close.

The pages of `books` are a return, its refund, the supplier, the learning queue, the counter, the closing of a day, expenses. It checks the reversal of a sale against the
charges withheld, custody against the unit, one refund and one correction per
payment, two computations of expected cash against one another, the cumulative
profit across a sale and its return, that a signed day keeps what it says, that a
shortage is charged once, and that every learning job ends, and counts once unless its lease
ran out.

The pages of `office` are `access`, `door` (registration and handoff), `admin`
and `duty` (subscriptions; administrators), `seats`, `codes`, `files`, `mapping`, `prices`, `desk`, `goals`,
`roles`, `catalog` and `rollups`. It checks that a code or token opens one session,
that sessions end with what they rest on, that extensions add up, that a file is imported once, that the price
log is a history, that a version stands for one content, that delegated
authority is a decision of the present post, that tracking modes follow
category and history, that derived tables are current when no job is pending,
and that a replaced mapping comes back.

Several of these properties name the exception the code really has, so that the rest can
be stated sharply: `CustodyMatches` and `PhonesAccounted` admit `markFaulty`;
`LearnedOnce` a lease that ran out; `TrackingFollows` two requests on one product or category at
the same time, and a file received under a product of another mode
(`findOrCreateProduct` goes by the name alone, `imports.service.ts:426`); `QuietMeansCurrent` overlapping or lost recomputations and movements
that announce nothing; `AuthorityFollowsPost` a role that changed between the
check and the insert; `PriceHistoryChains` the removal on a branch move, and that
a row which was removed and set again is overwritten by an edit of the old one;
`SessionsFollowAccount` a session that a sign-in checked before the edit inserts
after it; `MappingComesBack` a server that stopped in between. In each case the
race is in the model, nothing in the code prevents it, and the property says that
nothing else leads there. `ChannelsAgree` compares the two sums for cash only.

### Bounds

Two transfers and a sale are enough for every pair of operations to compete for
one phone, and for a phone to go to another branch and come back. A request for
two phones makes partial conflicts happen. Quantities 1 and 2 with two receipts
let demand exceed supply. Elsewhere there are two of everything that can
collide (sessions, codes, tokens, batches, signers, workers, payouts, settlements,
corrections, filings) and one of what is only context, three recomputations so that
two can overlap behind a third, three rows per mapped code so that a mapping can
be replaced twice. Constants named `Max...` bound versions, edits, ticks, entries and crashes;
their values are in the cfg files. The rules of a page (`PageRules`,
`OpenBook`) fix what the page is not about. When the bounds are
used up the model stops, so deadlock is not checked. Symmetry is used only by the
runs of `Shop`, over identifiers no definition tells apart, and `InCustody` and the
other properties there are safety properties.

### Fairness

- `Finishing` (deals): a request that has entered money goes on to
  `settleIfClear`. The call is the next line of the handler.
- `BooksFairness`: each server sweeps its outbox at boot, after a receipt and on a timer; a
  worker ends what it claimed; a lease, being a time, runs out. Crashes are bounded by
  `MaxCrashes`: attempts are counted only when a worker reports failure, so a job
  that killed its worker every time would be retried for ever.
- `OfficeFairness`: a confirmation that has retired a mapping goes on to its insert,
  the next statement of the handler. A stop of the server is a separate action.

All of it is weak fairness of steps a running process takes by itself; nothing
is assumed of users.

## Where code and comments disagree

Each has a run in which TLC finds the disagreement.

- `faulty`: `markFaulty` checks the status it loaded and then updates by id. A phone
  reserved, sold or shipped in between becomes faulty, which the unit table does not
  allow. `UnitStepsLegalButFaulty` shows that every other step follows it.
- `replay_source`: `findReplay` computes the fingerprint with the source branch of
  the earlier transfer. The same key sent from another branch is answered with that
  transfer, although `transfer-lines.ts` says it is a different movement.
- `price_on_shelf`: `setUnitOverride` checks the status before its transaction. A
  phone promised or sold in between gets a price.
- `charged`: the agreed total of a consignment is copied to every line, and a report
  raises the sum of the lines sold: two phones agreed at one total are charged twice.
- `overpaid`: `confirm` re-checks what is open on an ordinary connection, so two
  confirmations for one delivery can both find room.
- `first_lesson`: `learn` inserts a new mapping with the default status
  `confirmed` and without `confirmed_at`, which a CHECK of migration 0043 refuses. A code
  nobody has mapped is never learned from a purchase; its job ends as failed.
- `price_overwritten`: a branch price that was removed and set again is a new row
  whose version starts at 0. An edit that carries a version of the old row
  overwrites the new one, although the schema says of that column "a stale edit is
  a 409, never a silent overwrite". Prices on stock rows are never removed, and
  `VersionsIdentify` shows that their versions do what the comment says.
- `cost_credited`: `recomputeDaily` has two comments that contradict one another.
  The first (`rollup.service.ts:166`) says that the cost of returned goods is not credited back and
  that an approved return costs the full net refund (`ImpactIsNetRefund`). The second (line 193) says
  that a sale and its return leave the adjustments alone (`ReturnLeavesAdjustments`). The code
  credits the cost, so the second holds and the first does not.

Six more were met and have no run of their own:

- Rejecting a return while the shop holds the phone asks the unit table for
  `returned` to `sold`, which it lacks, so `reject` refuses
  (`returns.service.ts:685`, against the comment at 648).
- A fixed expense may be confirmed after its due date has been signed off, and then changes what
  that day adds up to (`expenses.service.ts:204`).
- Two owners enabling the last seat at once both succeed: the seats are counted
  before an update by id (`user-management.service.ts:219`, against the comment at 212).
- Who made the last offer of a consignment is derived from its status, which a
  dispute or a second counter-offer leaves behind (`consignments.service.ts:923`).
- Two requests for a contact code can each cancel the older codes before the other
  inserts its own, so two codes are live, although the comment at
  `contact-verification.service.ts:72` says this never happens. `Onboarding` has the two
  codes; `OpenedOnce` holds in spite of them.
- The first price of a stock row that had none is logged as a change from 0
  (`pricing.service.ts:516`), although the schema says that an unpriced row "is never
  treated as zero". `PriceHistoryChains` allows for it.

Also known, admitted by the model and without a property: a count written while
the day is being signed is overwritten by the counts the signer loaded; an approval or
refund may be booked on a day signed off after its check; two entries
against one debt may take it below zero; what is open on a delivery ignores what was paid
when it arrived; a second counterparty row may be missing after a crash; an
extension sent without a version overwrites another.

## Proofs

Each theorem is about every value of the constants that satisfies the
assumptions: any number of branches, phones, products, requests, sales, returns,
payments, days, workers, and loads as old as one likes.

| module | theorems |
| --- | --- |
| `ShopProofs` | `TypeCorrect` (no stock counter is negative), `ClaimsInvariant` and from it `UnitsClaimedOnce` and `StatusIsTruthful`, `TransfersStepLegally` (no decision overtakes another), `UnitsStepLegally` (only `markFaulty` leaves the unit table, only a receipt moves a phone), `UnitsHeldAtSource`, `NoPriceComesBack`, `KeysStandForOne`, `ShopInCustody` (the shop implements `Custody`) |
| `StockProofs` | `PromisesAreCovered` (the reserved quantity is the sum of the promises, and is there), `GoodsAreConserved` |
| `DealsProofs` | `PhonesStayAccounted`, `ConsignmentsStepLegally` |
| `BooksProofs` | `BooksTyped`, `ReversalsMatch`, `CustodyAgrees`, `RefundedOnce`, `CorrectionsOnce`, `JobsLearnedOnce`, `CashAgrees`, `DaysSignedOnce`, `DebtsAreDecided`, `ReturnsLeaveAdjustments` |
| `CodesProofs` | `CodesAcceptedOnce` |
| `TotalsProofs` | `TotalsObeySumLaws` |

The assumptions are those named in the modules: there is a branch, sets of rows
that are added up are finite, amounts are natural numbers and those of goods and
offers positive, keys differ from "no key", requests, carts and deliveries are well
formed, a payout is not a settlement, and limits are natural numbers. Requests with
different contents have different hashes.

`OneClaimPerUnit` alone is not inductive: a transfer may reserve a phone because
its status is `in_stock`, and only `StatusMatchesClaims` says that such a phone has
no other claim. That in turn needs a decision to act on the status the row
really has. `SeenIsHistory` gives this: a load with the row's present version
shows the row's present status. `RowsWellFormed` says what rows that do not exist or
have not been received look like. `ClaimsInv` is the conjunction; the run `shop`
checks it too. The proof has one lemma per action. Each looks at one unit at a
time: `Untouched` settles the units whose claims stay as they are, so that only the
units an action names need an argument.

`Custody` knows no rows, statuses, versions or keys: a registered phone is free,
promised to a transfer, travelling with it, or sold. The refinement mapping reads
the three relations off the transfer and sale rows. The proof takes `ClaimsInv`
as given and shows, action by action, which move of `Custody` a transaction is:
`create` is a promise, `reject` and `cancel` give back, `ship` departs, `receiveConfirm` lets
the scanned phones arrive, `createSale` sells, and the rest leave custody alone.
The step that needs the invariant is that a phone found `in_stock` is free
(`InStockIsFree`), and that a phone on a shipped transfer travels with that one only.
`markFaulty` changes no claim, so the refinement holds in spite of it.

The rest of `ShopProofs` needs little more. `HeldAtSource` follows step by step from
`ClaimsInv`: a phone that a transfer holds is moved by that transfer only. `KeysInv`
adds to `KeyedOnce` the unique index on the keys of transfers, which makes two
answers under one key the same row. `PriceInv` says that nobody has read or
priced a phone that is not registered yet; without it a phone could be registered
under a price already there.

Sums are the difficulty in `StockProofs` and in the money of `BooksProofs`: a recursive
sum needs induction to say anything of. `Totals` therefore defines a sum as the
number of pieces its rows contribute, and `TotalsProofs` derives from the theorems
about cardinality what a change of one row does to it (`SumLaws`). Every argument about
goods then is: which one row changes, by how much, on which side of the equation.

`PhonesAccounted` is not inductive. A consignment takes a phone because it is
`in_stock`, and only `SoldBySale` says that such a phone is on nobody's sale: a
phone on a sale is sold, or faulty since. The columns of deals and of the loads
requests hold must be typed too (`DealColumns`), because a decision writes the
offer it loaded, and a closing the status it was asked for. `PhonesInv` is the
conjunction. The proof looks at one phone at a time (`AccountOf`). `Advance` is
taken apart once per operation (the lemmas named `...Row`): the swap compares the
status, so a decision moves the row from the status it has (`Swapped`). After that
only three kinds of decision remain: those that move no phone, the hand-over, and
those that end lines (`LinesEnd`). `settleIfClear` swaps nothing, and its step is
legal because its own update is conditional on the two statuses that await money.

`BooksInv` is the conjunction behind the theorems about money, each part needed by
one of them:

- `LoadsInv`: a load with the present version of a return is what the return and its
  charges say now. So `approve`, which added the charges up before its
  transaction, reverses what they add up to (`ReversalsMatch`).
- `GrossInv`: a reversal takes back the line of its sale.
- `CustodyInv`: a phone is on one sale, is claimed by one return that stands, and is back in the
  shop only if that return has it (`CustodyAgrees`).
- `RefundInv` and `CorrectionInv`: a payout has the amount of its reversal, one stands
  at a time, and what is marked as corrected has an approved correction (`RefundedOnce`,
  `CorrectionsOnce`). The mark on the payout is a step of its own, and the second refund waits
  for it.
- `LeaseInv`: while a lease outlasts its worker there is one worker at a job
  (`JobsLearnedOnce`).
- `DiscInv`: a discrepancy is about some money and is decided when it is resolved
  (`DebtsAreDecided`).
- `TillInv`: a sale that was not made has no day. With it and `GrossInv` the
  profit of a day changes by what one sale or one reversal brings (`ReturnsLeaveAdjustments`).

`DaysSignedOnce` is an action property: each statement that writes the row of a day is
conditional on the lock.

`CodeAcceptedOnce` is inductive once types are added, and with them that a
pending code has been guessed at no more than the limit allows (`CodesInv`).

Only model-checked: of `deals`, the types and the money (`DealsTypeOK`, `TermsAgreed`,
`SettledMeansPaid`), whose invariant over ledger prefixes is not worked out; of `office`,
everything but the codes; and the liveness properties (`ClearedIsClosed`, `JobsEnd`,
`MappingComesBack`), which are beyond the proof system.

## Not modelled

- Reading: lists, searches, dashboards, receipts, digests and the progress of goals.
- Data conversion: spreadsheet cells, code classification, the
  dual-SIM comparison, formatting.
- External services: message delivery, storage of files, password hashing, token
  signatures.
- The average cost of counted stock, numbering, audit rows, and most notifications.
- Reference data without a protocol: brands, product attributes, the device catalogue, supplier
  contacts, names of categories.
- The tenant filter and the retry of deadlocked transactions, which are the
  atomicity the modules assume.
- A death of the server at an arbitrary statement outside the outbox, the rollups and the
  mappings: requests elsewhere are carried to their end or have not begun.
  `PROJECT.json` lists where that matters.
