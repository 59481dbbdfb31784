------------------------------ MODULE Expenses ------------------------------
(***************************************************************************)
(* ExpensesService: money a shop spends, reported by one person and        *)
(* confirmed or rejected by the owner.  A variable expense belongs to the  *)
(* day of its confirmation, a fixed one (rent, salaries) to its due date.  *)
(***************************************************************************)
EXTENDS Days, FiniteSets

CONSTANTS ExpenseIds,       \* bound: how many expenses there are
          ExpenseAmounts,
          ExpenseAccounts   \* accounts an expense is paid from

ASSUME ExpensesAssumption == IsFiniteSet(ExpenseIds) /\ ExpenseAmounts \subseteq Nat

VARIABLE expense   \* expenses

ExpenseClasses == {"variable", "fixed"}

NoExpense == [status |-> "none", class |-> "variable", amount |-> 0, channel |-> "cash",
              due |-> 0, day |-> 0, stamp |-> [day |-> 1, locked |-> FALSE]]

ExpenseRow == [status: {"none", "reported", "confirmed", "rejected"}, class: ExpenseClasses,
               amount: {0} \cup ExpenseAmounts, channel: {"cash"} \cup ExpenseAccounts,
               due: {0} \cup DaySet, day: {0} \cup DaySet, stamp: Stamps]

ExpensesTypeOK == expense \in [ExpenseIds -> ExpenseRow]

ExpensesInit == expense = [e \in ExpenseIds |-> NoExpense]

(* Only a fixed expense has a due date, and it may be any day. *)
CreateExpense(e, class, amount, channel, due) ==
    /\ expense[e].status = "none"
    /\ due # 0 <=> class = "fixed"
    /\ expense' = [expense EXCEPT ![e] = [status |-> "reported", class |-> class,
          amount |-> amount, channel |-> channel, due |-> due, day |-> 0, stamp |-> Stamp]]

(* Both decisions are conditional on the version and on "reported".  Only   *)
(* for a variable expense is the day looked at.                             *)
ConfirmExpense(e, d) ==
    /\ expense[e].status = "reported"
    /\ IF expense[e].class = "variable" THEN SawOpen(expense[e].stamp, d)
                                        ELSE d \in expense[e].stamp.day..today
    /\ expense' = [expense EXCEPT ![e].status = "confirmed", ![e].day = d]

RejectExpense(e) ==
    /\ expense[e].status = "reported"
    /\ expense' = [expense EXCEPT ![e].status = "rejected"]

AccountingDay(x) == IF x.class = "fixed" THEN x.due ELSE x.day

ExpensesNext ==
    \E e \in ExpenseIds :
        \/ \E class \in ExpenseClasses, amount \in ExpenseAmounts,
              channel \in {"cash"} \cup ExpenseAccounts, due \in {0} \cup DaySet :
                CreateExpense(e, class, amount, channel, due)
        \/ \E d \in DaySet : ConfirmExpense(e, d)
        \/ RejectExpense(e)
=============================================================================
