------------------------------ MODULE Closing ------------------------------
(***************************************************************************)
(* ClosingService, DiscrepanciesService, channels.ts, debt-rules.ts and    *)
(* the figures of RollupService: the money of a day is counted channel by  *)
(* channel, somebody signs the day off, what does not add up becomes a     *)
(* discrepancy, and the owner decides who stands for it.                   *)
(*                                                                         *)
(* A count is three statements without a transaction.  Signing off reads   *)
(* the closing and the figures, and only then opens its transaction.       *)
(* Clerks and Signers are the requests of both kinds in flight.            *)
(***************************************************************************)
EXTENDS Corrections, Expenses

CONSTANTS CountAmounts, \* what somebody may count
          Clerks, Signers,
          MaxDebtRows   \* bound: rows in the debt ledger

(* Accounts are finitely many, and what is counted is whole cents. *)
ASSUME ClosingAssumption == IsFiniteSet(Accounts) /\ CountAmounts \subseteq Nat

VARIABLES dayRow,    \* daily_closings
          count,     \* closing_channel_counts
          active,    \* receiving accounts that are active
          clerk,     \* recordCount requests in flight
          signer,    \* close requests in flight
          disc,      \* closing_discrepancies
          debt       \* employee_debt_entries of one employee

closingVars == <<dayRow, count, active, clerk, signer, disc, debt>>

Channels == {"cash", "unattributed"} \cup Accounts

-----------------------------------------------------------------------------
(* recomputeDaily and paidOn: the figures of a day are sums over rows.      *)

CashSales(d) == SumWhere(SaleIds, LAMBDA i : bill[i].cash, LAMBDA i : bill[i].soldOn = d)

(* Payments confirmed on a day, in any of a set of channels.  A corrected   *)
(* one still happened on its day.                                           *)
Refunds(d, chs) == SumWhere(PayoutIds, LAMBDA p : payout[p].amount,
    LAMBDA p : payout[p].status = "confirmed" /\ payout[p].day = d /\ payout[p].channel \in chs)
SupplierPaid(d, chs) == SumWhere(SettlementIds, LAMBDA s : settlement[s].amount,
    LAMBDA s : /\ settlement[s].status = "confirmed" /\ settlement[s].day = d
               /\ settlement[s].channel \in chs)
CorrectedBack(d, chs) == SumWhere(CorrectionIds, LAMBDA c : corr[c].amount,
    LAMBDA c : corr[c].status = "approved" /\ corr[c].day = d /\ corr[c].channel \in chs)
Spent(d, chs) == SumWhere(ExpenseIds, LAMBDA e : expense[e].amount,
    LAMBDA e : /\ expense[e].status = "confirmed" /\ AccountingDay(expense[e]) = d
               /\ expense[e].channel \in chs)

NetProfit(d) == GrossProfit(d) - ReturnsEffect(d) - Spent(d, Channels)

(* The equation in close. *)
ExpectedCash(d) ==
    CashSales(d) - Refunds(d, {"cash"}) - SupplierPaid(d, {"cash"})
       - Spent(d, {"cash"}) + CorrectedBack(d, {"cash"})

(* What close freezes. *)
Figures(d) ==
    [sales |-> Revenue(d), profit |-> NetProfit(d), returns |-> ReturnsGross(d),
     kept |-> ReturnsKept(d), refunds |-> Refunds(d, Channels),
     supplier |-> SupplierPaid(d, Channels), corrections |-> CorrectedBack(d, Channels),
     expenses |-> Spent(d, {"cash"})]
NoFigures == [sales |-> 0, profit |-> 0, returns |-> 0, kept |-> 0, refunds |-> 0,
              supplier |-> 0, corrections |-> 0, expenses |-> 0]

-----------------------------------------------------------------------------
(* channelMovements and buildChannels. *)

SalesInto(d, ch) ==
    IF ch = "cash" THEN CashSales(d)
    ELSE SumWhere(SaleIds, LAMBDA i : bill[i].other,
                  LAMBDA i : bill[i].soldOn = d /\ bill[i].into = ch)

(* The expense movements are selected by a query of their own. *)
SpentByConfirmation(d, ch) == SumWhere(ExpenseIds, LAMBDA e : expense[e].amount,
    LAMBDA e : expense[e].status = "confirmed" /\ expense[e].day = d /\ expense[e].channel = ch)
SpentFrom(d, ch) == SumWhere(ExpenseIds, LAMBDA e : expense[e].amount,
    LAMBDA e : /\ expense[e].status = "confirmed" /\ expense[e].channel = ch
               /\ \/ expense[e].class = "variable" /\ expense[e].day = d
                  \/ expense[e].class = "fixed" /\ expense[e].due = d)

ChannelExpected(d, ch) ==
    SalesInto(d, ch) - Refunds(d, {ch}) - SupplierPaid(d, {ch})
       - SpentFrom(d, ch) + CorrectedBack(d, {ch})

Moved(d, ch) ==
    \/ SalesInto(d, ch) # 0 \/ Refunds(d, {ch}) # 0 \/ SupplierPaid(d, {ch}) # 0
    \/ SpentFrom(d, ch) # 0 \/ CorrectedBack(d, {ch}) # 0

(* Cash and active accounts always, anything else if money moved. *)
BuildChannels(d) == {"cash"} \cup active \cup {ch \in Channels : Moved(d, ch)}
IsCountable(ch) == ch # "unattributed"

-----------------------------------------------------------------------------
NoCount == [state |-> "none", amount |-> 0, expected |-> 0]
NoCounts == [ch \in Channels |-> NoCount]
NoDisc == [status |-> "none", amount |-> 0, how |-> "none"]
FreeClerk == [day |-> 0, channel |-> "cash", count |-> NoCount, had |-> FALSE, wrote |-> FALSE]
FreeSigner == [day |-> 0, version |-> 0, counts |-> NoCounts, cash |-> 0, expected |-> 0,
               figures |-> NoFigures]

DayStatus == {"none", "counting", "counted", "locked"}
Resolutions == {"employee_debt", "forgiven", "store_absorbed", "error_corrected"}
DebtKinds == {"charge", "repayment", "deduction", "forgiveness"}

CountRow == [state: {"none", "uncounted", "counted", "skipped"}, amount: Nat, expected: Int]
FigureRow == [sales: Nat, profit: Int, returns: Nat, kept: Nat, refunds: Nat, supplier: Nat,
              corrections: Nat, expenses: Nat]
DayRow == [status: DayStatus, version: Nat, expected: Int, cash: Nat, figures: FigureRow]
DiscRow == [status: {"none", "pending", "resolved"}, amount: Int, how: Resolutions \cup {"none"}]
DebtEntry == [kind: DebtKinds, amount: Nat \ {0}]
Clerking == [day: {0} \cup DaySet, channel: Channels, count: CountRow, had: BOOLEAN,
             wrote: BOOLEAN]
Signing == [day: {0} \cup DaySet, version: Int, counts: [Channels -> CountRow], cash: Nat,
            expected: Int, figures: FigureRow]

ClosingTypeOK ==
    /\ dayRow \in [DaySet -> DayRow]
    /\ count \in [DaySet -> [Channels -> CountRow]]
    /\ active \subseteq Accounts
    /\ clerk \in [Clerks -> Clerking]
    /\ \A k \in Clerks : clerk[k] = FreeClerk \/ clerk[k].day \in DaySet
    /\ signer \in [Signers -> Signing]
    /\ \A k \in Signers : signer[k] = FreeSigner \/ signer[k].day \in DaySet
    /\ disc \in [DaySet -> [Channels -> DiscRow]]
    /\ debt \in Seq(DebtEntry)
    /\ \A d \in DaySet : dayRow[d].status = "locked" <=> lockedOn[d] # 0

(* A discrepancy is about some money, and is decided when it is resolved. *)
DiscInv ==
    \A d \in DaySet, ch \in Channels :
        /\ disc[d][ch].status # "none" => disc[d][ch].amount # 0
        /\ disc[d][ch].status # "resolved" => disc[d][ch].how = "none"

ClosingInit ==
    /\ dayRow = [d \in DaySet |-> [status |-> "none", version |-> 0, expected |-> 0,
                                   cash |-> 0, figures |-> NoFigures]]
    /\ count = [d \in DaySet |-> NoCounts]
    /\ active = Accounts
    /\ clerk = [k \in Clerks |-> FreeClerk]
    /\ signer = [k \in Signers |-> FreeSigner]
    /\ disc = [d \in DaySet |-> [ch \in Channels |-> NoDisc]]
    /\ debt = <<>>

(* recordCount, first part: the day must not be locked, the channel must be *)
(* one of the day and countable.                                            *)
BeginCount(k, d, ch, n, skip) ==
    /\ clerk[k] = FreeClerk
    /\ dayRow[d].status # "locked"
    /\ ch \in BuildChannels(d) /\ IsCountable(ch)
    /\ clerk' = [clerk EXCEPT ![k] = [day |-> d, channel |-> ch,
          count |-> [state |-> IF skip THEN "skipped" ELSE "counted",
                     amount |-> IF skip THEN 0 ELSE n, expected |-> ChannelExpected(d, ch)],
          had |-> dayRow[d].status # "none", wrote |-> FALSE]]
    /\ UNCHANGED <<dayRow, count, active, signer, disc, debt, dayVars>>

(* The closing row is created unless it was there (the unique key refuses a *)
(* second one, and the request fails), and the count is written.            *)
WriteCount(k) ==
    LET c == clerk[k] IN
    /\ c # FreeClerk /\ ~c.wrote
    /\ IF c.had \/ dayRow[c.day].status = "none"
       THEN /\ dayRow' = IF c.had THEN dayRow
                         ELSE [dayRow EXCEPT ![c.day].status = "counting"]
            /\ count' = [count EXCEPT ![c.day][c.channel] = c.count]
            /\ clerk' = [clerk EXCEPT ![k].wrote = TRUE]
       ELSE clerk' = [clerk EXCEPT ![k] = FreeClerk] /\ UNCHANGED <<dayRow, count>>
    /\ UNCHANGED <<active, signer, disc, debt, dayVars>>

CountingComplete(d) ==
    \A ch \in BuildChannels(d) : IsCountable(ch) => count[d][ch].state \in {"counted", "skipped"}

(* ck_closings_status_locked ties the status to is_locked, so that on a day *)
(* locked meanwhile the last statement of recordCount fails.                *)
NoCheck(d) == TRUE
StatusMayChange(d) == lockedOn[d] = 0

FinishCount(k) ==
    LET c == clerk[k] IN
    /\ c # FreeClerk /\ c.wrote
    /\ clerk' = [clerk EXCEPT ![k] = FreeClerk]
    /\ dayRow' = IF StatusMayChange(c.day)
                 THEN [dayRow EXCEPT ![c.day].version = @ + 1,
                          ![c.day].status = IF CountingComplete(c.day) THEN "counted" ELSE "counting"]
                 ELSE dayRow
    /\ UNCHANGED <<count, active, signer, disc, debt, dayVars>>

(* close, before its transaction: any day may be named.  A recorded cash    *)
(* count stands; without one the caller says what is in the drawer.         *)
BeginClose(k, d, n) ==
    LET cash == count[d]["cash"] IN
    /\ signer[k] = FreeSigner
    /\ dayRow[d].status # "locked"
    /\ cash.state = "counted" => n = cash.amount
    /\ signer' = [signer EXCEPT ![k] = [day |-> d,
          version |-> IF dayRow[d].status = "none" THEN -1 ELSE dayRow[d].version,
          counts |-> count[d], cash |-> n, expected |-> ExpectedCash(d), figures |-> Figures(d)]]
    /\ UNCHANGED <<dayRow, count, active, clerk, disc, debt, dayVars>>

(* An existing row is updated if its version and status allow it, otherwise *)
(* one is created; the digest of a day is unique as well.                   *)
SignOffAnyway(s) == dayRow[s.day].status # "none"
SignOffHolds(s) ==
    /\ IF s.version = -1 THEN dayRow[s.day].status = "none"
       ELSE dayRow[s.day].version = s.version /\ dayRow[s.day].status # "locked"
    /\ lockedOn[s.day] = 0

(* Each channel is frozen with the count that was loaded; a row somebody    *)
(* else has created since fails the unique key.                             *)
Frozen(s) ==
    [ch \in Channels |->
        IF ch \notin BuildChannels(s.day) THEN count[s.day][ch]
        ELSE [s.counts[ch] EXCEPT !.expected = ChannelExpected(s.day, ch),
                 !.state = IF @ = "none" THEN "uncounted" ELSE @]]
NoRowSince(s) ==
    \A ch \in BuildChannels(s.day) : s.counts[ch].state = "none" => count[s.day][ch].state = "none"

(* opensDiscrepancy; not twice for one row. *)
OpensDiscrepancy(c) == c.state = "counted" /\ c.amount # c.expected
Opened(d, rows) ==
    [ch \in Channels |-> IF OpensDiscrepancy(rows[ch]) /\ disc[d][ch].status = "none"
        THEN [status |-> "pending", amount |-> rows[ch].amount - rows[ch].expected, how |-> "none"]
        ELSE disc[d][ch]]

EndClose(k) ==
    LET s == signer[k] IN
    /\ s # FreeSigner
    /\ signer' = [signer EXCEPT ![k] = FreeSigner]
    /\ IF SignOffHolds(s) /\ NoRowSince(s)
       THEN /\ dayRow' = [dayRow EXCEPT ![s.day] = [status |-> "locked", version |-> @.version + 1,
                             expected |-> s.expected, cash |-> s.cash, figures |-> s.figures]]
            /\ lockedOn' = [lockedOn EXCEPT ![s.day] = today]
            /\ count' = [count EXCEPT ![s.day] = Frozen(s)]
            /\ disc' = [disc EXCEPT ![s.day] = Opened(s.day, Frozen(s))]
       ELSE UNCHANGED <<dayRow, lockedOn, count, disc>>
    /\ UNCHANGED <<active, clerk, debt, today>>

-----------------------------------------------------------------------------
(* planResolution: the ledger rows a decision writes. *)
DebtRow(kind, amount) == [kind |-> kind, amount |-> amount]
Magnitude(n) == IF n < 0 THEN -n ELSE n
PlanResolution(how, amount) ==
    LET n == Magnitude(amount) IN
    CASE how = "employee_debt" -> <<DebtRow("charge", n)>>
      [] how = "forgiven" -> <<DebtRow("charge", n), DebtRow("forgiveness", n)>>
      [] OTHER -> <<>>

StillPendingOrNot(d, ch) == disc[d][ch].status # "none"
StillPending(d, ch) == disc[d][ch].status = "pending"

Resolve(d, ch, how) ==
    /\ StillPending(d, ch)
    /\ disc[d][ch].amount > 0 => how # "employee_debt"
    /\ Len(debt) < MaxDebtRows
    /\ disc' = [disc EXCEPT ![d][ch].status = "resolved", ![d][ch].how = how]
    /\ debt' = debt \o PlanResolution(how, disc[d][ch].amount)
    /\ UNCHANGED <<dayRow, count, active, clerk, signer, dayVars>>

EntrySign == [charge |-> 1, repayment |-> -1, deduction |-> -1, forgiveness |-> -1]
EntriesOf(rows, sign) ==
    TotalOf(DOMAIN rows, [n \in DOMAIN rows |->
        IF EntrySign[rows[n].kind] = sign THEN rows[n].amount ELSE 0])
BalanceOf(rows) == EntriesOf(rows, 1) - EntriesOf(rows, -1)

(* addEntry: never a charge, and at most what was owed in the ledger it     *)
(* read, which the insert does not look at again.                           *)
AddEntry(kind, amount) ==
    /\ Len(debt) < MaxDebtRows
    /\ \E n \in 0..Len(debt) : amount <= BalanceOf(SubSeq(debt, 1, n))
    /\ debt' = Append(debt, DebtRow(kind, amount))
    /\ UNCHANGED <<dayRow, count, active, clerk, signer, disc, dayVars>>

(* SettingsService.updateAccount, the part the closing looks at. *)
ToggleAccount(a) ==
    /\ active' = IF a \in active THEN active \ {a} ELSE active \cup {a}
    /\ UNCHANGED <<dayRow, count, clerk, signer, disc, debt, dayVars>>

ClosingNext ==
    \/ \E k \in Clerks :
          \/ \E d \in DaySet, ch \in Channels, n \in CountAmounts, skip \in BOOLEAN :
                BeginCount(k, d, ch, n, skip)
          \/ WriteCount(k)
          \/ FinishCount(k)
    \/ \E k \in Signers : \/ \E d \in DaySet, n \in CountAmounts : BeginClose(k, d, n)
                          \/ EndClose(k)
    \/ \E d \in DaySet, ch \in Channels, how \in Resolutions : Resolve(d, ch, how)
    \/ \E kind \in {"repayment", "deduction", "forgiveness"}, amount \in CountAmounts \ {0} :
          AddEntry(kind, amount)
    \/ \E a \in Accounts : ToggleAccount(a)

-----------------------------------------------------------------------------
(* close computes the cash that should be there from the rollup, the        *)
(* counting screen from the movements of the channel: they are the same.    *)
ChannelsAgree == \A d \in DaySet : ChannelExpected(d, "cash") = ExpectedCash(d)

(* "Two people signing off the same day produce one closing": the row of a  *)
(* day that is locked is not written again.                                 *)
SignedStays == \A d \in DaySet : lockedOn[d] # 0 => dayRow'[d] = dayRow[d]

(* debt-rules.ts: somebody owes only what a resolved shortage or surplus    *)
(* charged, each of them once.                                              *)
ChargedOnce ==
    TotalOf(DOMAIN debt, [n \in DOMAIN debt |->
        IF debt[n].kind = "charge" THEN debt[n].amount ELSE 0])
      = SumWhere(DaySet \X Channels, LAMBDA x : Magnitude(disc[x[1]][x[2]].amount),
                 LAMBDA x : disc[x[1]][x[2]].how \in {"employee_debt", "forgiven"})
=============================================================================
