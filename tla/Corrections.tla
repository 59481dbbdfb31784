---------------------------- MODULE Corrections ----------------------------
(***************************************************************************)
(* CorrectionsService: a confirmed refund or supplier payment turns out to *)
(* be wrong.  Nothing is edited: a correction is requested, an owner       *)
(* approves it, and from then on the payment no longer counts.             *)
(***************************************************************************)
EXTENDS Returns, Payables

CONSTANT CorrectionIds   \* bound: how many corrections are requested

(* Corrections are finitely many; payouts and settlements are rows of       *)
(* different tables.                                                        *)
ASSUME CorrectionsAssumption ==
    IsFiniteSet(CorrectionIds) /\ PayoutIds \cap SettlementIds = {}

VARIABLES corr,         \* financial_corrections
          superseding   \* approved corrections whose payout is not marked yet

correctionVars == <<corr, superseding>>

Targets == PayoutIds \cup SettlementIds

NoCorrection == [status |-> "none", target |-> CHOOSE t \in Targets : TRUE, amount |-> 0,
                 channel |-> "cash", day |-> 0, stamp |-> [day |-> 1, locked |-> FALSE]]

CorrectionRow == [status: {"none", "requested", "approved", "rejected"}, target: Targets,
                  amount: Nat, channel: {"cash"} \cup Accounts \cup PayAccounts,
                  day: {0} \cup DaySet, stamp: Stamps]

CorrectionsTypeOK ==
    /\ corr \in [CorrectionIds -> CorrectionRow]
    /\ superseding \subseteq CorrectionIds

CorrectionsInit == corr = [c \in CorrectionIds |-> NoCorrection] /\ superseding = {}

(* loadTarget: the payment as the correction copies it. *)
PaymentOf(t) ==
    IF t \in PayoutIds
    THEN [status |-> payout[t].status, amount |-> payout[t].amount, channel |-> payout[t].channel]
    ELSE [status |-> settlement[t].status, amount |-> settlement[t].amount,
          channel |-> settlement[t].channel]

Undone(t) == \E c \in CorrectionIds : corr[c].status = "approved" /\ corr[c].target = t

(* A correction copies a confirmed payment, and a payment has one approved  *)
(* correction at most; what is marked as corrected has one.                 *)
CorrectionInv ==
    /\ \A c \in CorrectionIds : corr[c].status # "none" =>
          /\ PaymentOf(corr[c].target).status = "confirmed"
          /\ PaymentOf(corr[c].target).amount = corr[c].amount
    /\ \A c, e \in CorrectionIds :
          corr[c].status = "approved" /\ corr[e].status = "approved"
             /\ corr[c].target = corr[e].target => c = e
    /\ \A c \in superseding : corr[c].status = "approved" /\ corr[c].target \in PayoutIds
    /\ \A p \in PayoutIds : payout[p].corrected => Undone(p)

(* A payment that was read as confirmed still is.  Other corrections of it  *)
(* are looked for in a read of its own, which may be older than any of      *)
(* them: two requests for one payment are possible.                         *)
Request(c, t) ==
    /\ corr[c].status = "none"
    /\ PaymentOf(t).status = "confirmed"
    /\ corr' = [corr EXCEPT ![c] = [status |-> "requested", target |-> t,
          amount |-> PaymentOf(t).amount, channel |-> PaymentOf(t).channel, day |-> 0,
          stamp |-> Stamp]]
    /\ UNCHANGED <<superseding, payout, settlement, owings>>

(* The generated columns active_target_..._id: one approved per payment. *)
ApprovedTwice(t) == TRUE
NoneApproved(t) == \A c \in CorrectionIds : ~(corr[c].status = "approved" /\ corr[c].target = t)

(* Conditional on the version and "requested".  A supplier payment stops    *)
(* counting at once, because every query leaves out corrected ones; the     *)
(* payout of a return is marked in a statement of its own.                  *)
ApproveCorrection(c, d) ==
    LET t    == corr[c].target
        rows == IF t \in SettlementIds
                THEN [settlement EXCEPT ![t].corrected = TRUE] ELSE settlement
    IN  /\ corr[c].status = "requested"
        /\ SawOpen(corr[c].stamp, d)
        /\ NoneApproved(t)
        /\ corr' = [corr EXCEPT ![c].status = "approved", ![c].day = d]
        /\ superseding' = IF t \in PayoutIds THEN superseding \cup {c} ELSE superseding
        /\ settlement' = rows
        /\ SeeOwing(purchase, rows)
        /\ UNCHANGED payout

Supersede(c) ==
    /\ c \in superseding
    /\ superseding' = superseding \ {c}
    /\ payout' = [payout EXCEPT ![corr[c].target].corrected = TRUE]
    /\ UNCHANGED <<corr, settlement, owings>>

RejectCorrection(c) ==
    /\ corr[c].status = "requested"
    /\ corr' = [corr EXCEPT ![c].status = "rejected"]
    /\ UNCHANGED <<superseding, payout, settlement, owings>>

CorrectionStep(c) ==
    \/ \E t \in Targets : Request(c, t)
    \/ \E d \in DaySet : ApproveCorrection(c, d)
    \/ Supersede(c)
    \/ RejectCorrection(c)

CorrectionsNext ==
    /\ \E c \in CorrectionIds : CorrectionStep(c)
    /\ UNCHANGED <<req, reqSeen, charges, reversal, invVars, sale, tillVars, buyVars,
                   outboxVars, dayVars>>

-----------------------------------------------------------------------------
(* A customer gets the refund once: of the payouts of a return at most one  *)
(* stands, and the confirmed ones that no approved correction has taken     *)
(* back add up to at most the refund due.                                   *)
OneRefund ==
    \A r \in ReturnIds :
        LET mine == {p \in PayoutIds : payout[p].status # "none" /\ payout[p].ret = r} IN
        /\ Cardinality({p \in mine : ~payout[p].corrected}) <= 1
        /\ SumWhere(PayoutIds, LAMBDA p : payout[p].amount,
              LAMBDA p : p \in mine /\ payout[p].status = "confirmed" /\ ~Undone(p))
             <= reversal[r].net

(* A payment is undone by one correction only, so that the money comes back *)
(* into the books once ("liability restored exactly once").                 *)
CorrectedOnce ==
    \A t \in Targets :
        SumWhere(CorrectionIds, LAMBDA c : corr[c].amount,
                 LAMBDA c : corr[c].status = "approved" /\ corr[c].target = t)
          <= PaymentOf(t).amount
=============================================================================
