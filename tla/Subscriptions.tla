---------------------------- MODULE Subscriptions ----------------------------
(***************************************************************************)
(* A company's subscription and what it allows.  Administrators act on a   *)
(* row they loaded; with an expectedVersion the write asks for that        *)
(* version, without one the last write wins.  The event and the billing    *)
(* period are written after the row, in statements of their own.  Staff    *)
(* seats are counted before an account is enabled again.                   *)
(*                                                                         *)
(* The platform's administrators decide about it.  A guard looks the       *)
(* session up for every request and lets it in only while its              *)
(* administrator is active; the handler then asks for the password again   *)
(* and does its work, by which time the session may have ended.  There is  *)
(* one administrator with one session, and any requests of theirs.         *)
(*                                                                         *)
(* Time is a counter; a month and the grace period are numbers of ticks.   *)
(***************************************************************************)
EXTENDS Access, Sequences, TLC

CONSTANTS Owners,        \* users who need no seat
          Months, Days,  \* the lengths an extension and a grant may have
          Grace,         \* GRACE_MS
          SeatCounts,    \* the additional seats a company may be given
          BaseSeats,     \* seats that come with its branches
          MaxNow, MaxVersions, MaxPlans,
          MaxPayments,   \* bound: payments recorded
          MaxAdmitted    \* bound: requests past the guard at the same time

VARIABLES sub,        \* subscriptions: the row of this company
          subSeen,    \* the values it has had
          now,
          asked,      \* the last request that wrote the row
          followUps,  \* requests that still have to write their event or period
          events,     \* subscription_events: kinds, in order
          plans,      \* plan_versions
          periods,    \* billing_periods: what was assessed
          seatOk,     \* accounts whose enabling has passed the seat check
          adminState,    \* platform_admins: none, active or disabled
          adminSession,  \* platform_admin_sessions: none, live or over
          admitted,      \* requests that have passed the guard and not finished
          payments       \* subscription_payments: confirmed or not, in order

subVars == <<sub, subSeen, now, asked, followUps, events, plans, periods, seatOk>>
adminVars == <<adminState, adminSession, admitted, payments>>

Null == 0   \* no date; the clock starts at 1

SubscriptionsTypeOK ==
    /\ sub \in [status: {"pending_activation", "activated", "suspended", "cancelled"},
                end: Nat, complimentary: BOOLEAN, until: Nat, seats: Nat, version: Nat]
    /\ now \in 1..MaxNow
    /\ events \in Seq(STRING)
    /\ plans \in Seq([from: Nat, staffFee: Nat])
    /\ periods \in Seq(Nat)
    /\ seatOk \subseteq Users

FirstSub == [status |-> "pending_activation", end |-> Null, complimentary |-> FALSE,
             until |-> Null, seats |-> 0, version |-> 0]

SubscriptionsInit(row) ==
    /\ sub = row /\ subSeen = {row} /\ now = 1
    /\ asked = [kind |-> "none", versioned |-> FALSE, months |-> 0]
    /\ followUps = {} /\ events = <<>>
    /\ plans = <<[from |-> 0, staffFee |-> 1]>> /\ periods = <<>>
    /\ seatOk = {}

-----------------------------------------------------------------------------
(* entitlement-rules.ts *)
StateOf(row, t) ==
    CASE row.status = "cancelled"          -> "cancelled"
      [] row.status = "suspended"          -> "suspended"
      [] row.status = "pending_activation" -> "pending"
      [] OTHER -> IF row.complimentary /\ row.until > t THEN "complimentary"
                  ELSE IF row.end = Null THEN "expired"
                  ELSE IF t < row.end THEN "active"
                  ELSE IF t < row.end + Grace THEN "grace"
                  ELSE "expired"

CanWrite(state) == state \in {"active", "grace", "complimentary"}

SeatLimit(row) == BaseSeats + row.seats
SeatsUsed == Cardinality({u \in Users \ Owners : account[u].state = "active"})
MaySeat == SeatsUsed < SeatLimit(sub)

(* EntitlementInterceptor, before any other handler that writes. *)
MayWrite == CanWrite(StateOf(sub, now))

-----------------------------------------------------------------------------
(* transition: where the company and, if the caller gave one, the version.  *)
(* A caller's version is one it has read, no later than the handler's load. *)
VersionIgnored(load, versioned) == TRUE
VersionHolds(load, versioned) == versioned => load.version = sub.version

Transition(load, versioned, kind, months, row) ==
    /\ VersionHolds(load, versioned)
    /\ sub.version < MaxVersions
    /\ sub' = [row EXCEPT !.version = sub.version + 1]
    /\ subSeen' = subSeen \cup {sub'}
    /\ asked' = [kind |-> kind, versioned |-> versioned, months |-> months]
    /\ followUps' = followUps \cup {[kind |-> kind, stage |-> "event",
                                     version |-> sub.version + 1]}
    /\ UNCHANGED <<accessVars, now, events, plans, periods, seatOk>>

(* activateByGrant.  Nothing to do if the row shows this very grant. *)
ActivateByGrant(load, versioned, days) ==
    LET until == now + days IN
    /\ ~(load.status = "activated" /\ load.complimentary /\ load.until = until)
    /\ Transition(load, versioned, "administrative_grant", 0,
          [sub EXCEPT !.status = "activated", !.complimentary = TRUE, !.until = until])

(* extend counts from the end it loaded, if that lies ahead. *)
ExtendedFrom(load, months) == (IF load.end > now THEN load.end ELSE now) + months

Extend(load, versioned, months) ==
    Transition(load, versioned, "extended", months,
       [sub EXCEPT !.status = "activated", !.end = ExtendedFrom(load, months)])

Suspend(load, versioned) ==
    /\ load.status # "suspended"
    /\ Transition(load, versioned, "suspended", 0, [sub EXCEPT !.status = "suspended"])

Reinstate(load, versioned) ==
    /\ load.status = "suspended"
    /\ Transition(load, versioned, "reinstated", 0, [sub EXCEPT !.status = "activated"])

CancelSubscription(load, versioned) ==
    /\ load.status # "cancelled"
    /\ Transition(load, versioned, "cancelled", 0, [sub EXCEPT !.status = "cancelled"])

(* provision: by the row's id, never with a version. *)
Provision(load, dto) ==
    LET row == [sub EXCEPT
          !.end = IF dto.months > 0 THEN ExtendedFrom(load, dto.months) ELSE @,
          !.seats = IF dto.seats >= 0 THEN dto.seats ELSE @,
          !.complimentary = IF dto.grant = "keep" THEN @ ELSE dto.grant = "give",
          !.until = CASE dto.grant = "keep" -> @
                      [] dto.grant = "take" -> Null
                      [] OTHER -> now + IF dto.months > 0 THEN dto.months ELSE 1]
    IN  /\ dto # [months |-> 0, seats |-> -1, grant |-> "keep"]
        /\ Transition(load, FALSE, "provisioned", dto.months, row)

Provisions == [months: Months \cup {0}, seats: SeatCounts \cup {-1},
               grant: {"keep", "give", "take"}]

-----------------------------------------------------------------------------
(* The request goes on: its event, and after a grant the billing period,    *)
(* assessed from the staff and the prices of that moment.                   *)
PlanAt(t) ==
    LET known == SelectSeq(plans, LAMBDA p : p.from <= t) IN known[Len(known)]

QuoteFor(staff, plan) ==
    plan.staffFee * IF staff > BaseSeats THEN staff - BaseSeats ELSE 0

SizeOf == Cardinality({u \in Users \ Owners : account[u].state = "active"})

FollowUp(f) ==
    /\ f \in followUps
    /\ IF f.stage = "event"
       THEN /\ events' = Append(events, f.kind)
            /\ followUps' = (followUps \ {f}) \cup
                  IF f.kind = "administrative_grant" THEN {[f EXCEPT !.stage = "period"]} ELSE {}
            /\ UNCHANGED periods
       ELSE /\ periods' = Append(periods, QuoteFor(SizeOf, PlanAt(now)))
            /\ followUps' = followUps \ {f}
            /\ UNCHANGED events
    /\ UNCHANGED <<accessVars, sub, subSeen, now, asked, plans, seatOk>>

(* schedulePlanVersion: only ahead of now; planAt orders by effectiveFrom. *)
SchedulePlan(from, fee) ==
    /\ from > now /\ Len(plans) < MaxPlans
    /\ plans' = SortSeq(Append(plans, [from |-> from, staffFee |-> fee]),
                        LAMBDA p, q : p.from < q.from)
    /\ UNCHANGED <<accessVars, sub, subSeen, now, asked, followUps, events, periods, seatOk>>

Tick ==
    /\ now < MaxNow
    /\ now' = now + 1
    /\ UNCHANGED <<accessVars, sub, subSeen, asked, followUps, events, plans, periods, seatOk>>

(* update with isActive: the seats are counted, and later the row written. *)
CheckSeat(u) ==
    /\ account[u].state = "inactive" /\ u \notin Owners /\ u \notin seatOk
    /\ MayWrite /\ MaySeat
    /\ seatOk' = seatOk \cup {u}
    /\ UNCHANGED <<accessVars, sub, subSeen, now, asked, followUps, events, plans, periods>>

EnableAccount(u, before, dto) ==
    /\ u \in seatOk /\ Reactivating(before, dto)
    /\ UserUpdate(u, before, dto)
    /\ seatOk' = seatOk \ {u}
    /\ UNCHANGED <<sub, subSeen, now, asked, followUps, events, plans, periods>>

LifecycleStep ==
    \E load \in subSeen, versioned \in BOOLEAN :
        \/ \E d \in Days : ActivateByGrant(load, versioned, d)
        \/ \E m \in Months : Extend(load, versioned, m)
        \/ Suspend(load, versioned) \/ Reinstate(load, versioned)
        \/ CancelSubscription(load, versioned)

AdminStep ==
    \/ \E load \in subSeen, dto \in Provisions : Provision(load, dto)
    \/ \E f \in followUps : FollowUp(f)
    \/ \E from \in 1..MaxNow, fee \in 0..1 : SchedulePlan(from, fee)
    \/ Tick

SeatStep ==
    \E u \in Users : \/ CheckSeat(u)
                     \/ \E before \in accountSeen[u], dto \in Edits : EnableAccount(u, before, dto)

-----------------------------------------------------------------------------
(* The administrators. *)
AdministratorsTypeOK ==
    /\ adminState \in {"none", "active", "disabled"}
    /\ adminSession \in {"none", "live", "over"}
    /\ admitted \in 0..MaxAdmitted
    /\ payments \in Seq(BOOLEAN)

AdministratorsInit ==
    adminState = "none" /\ adminSession = "none" /\ admitted = 0 /\ payments = <<>>

(* createAdmin, from the command line only. *)
CreateAdmin ==
    /\ adminState = "none"
    /\ adminState' = "active"
    /\ UNCHANGED <<subVars, accessVars, adminSession, admitted, payments>>

(* By hand in the database. *)
DisableAdmin ==
    /\ adminState = "active"
    /\ adminState' = "disabled"
    /\ UNCHANGED <<subVars, accessVars, adminSession, admitted, payments>>

(* signIn finds the administrator active and then checks the password: by  *)
(* the time the session is written they may have been disabled.            *)
AdminSignIn ==
    /\ adminState # "none"
    /\ adminSession # "live"
    /\ adminSession' = "live"
    /\ UNCHANGED <<subVars, accessVars, adminState, admitted, payments>>

(* PlatformAdminGuard: resolve. *)
ResolveAdmin ==
    /\ adminSession = "live" /\ adminState = "active"
    /\ admitted < MaxAdmitted /\ admitted' = admitted + 1
    /\ UNCHANGED <<subVars, accessVars, adminState, adminSession, payments>>

AdminSignOut ==
    /\ admitted > 0 /\ admitted' = admitted - 1
    /\ adminSession' = "over"
    /\ UNCHANGED <<subVars, accessVars, adminState, payments>>

AdminSessionExpires ==
    /\ adminSession = "live"
    /\ adminSession' = "over"
    /\ UNCHANGED <<subVars, accessVars, adminState, admitted, payments>>

(* confirmPassword asks for the row of the administrator, active or not. *)
ConfirmPassword == adminState # "none"

(* recordPayment: money that arrived moves nothing by itself. *)
RecordPayment(confirm) ==
    /\ Len(payments) < MaxPayments
    /\ payments' = Append(payments, confirm)
    /\ UNCHANGED <<subVars, accessVars>>

(* The endpoints under businesses/:id. *)
LifecycleEndpoints ==
    /\ admitted > 0 /\ admitted' = admitted - 1
    /\ ConfirmPassword
    /\ \/ LifecycleStep /\ UNCHANGED payments
       \/ \E confirm \in BOOLEAN : RecordPayment(confirm)
    /\ UNCHANGED <<adminState, adminSession>>

AdministratorStep ==
    \/ CreateAdmin \/ DisableAdmin \/ AdminSignIn \/ ResolveAdmin \/ AdminSignOut
    \/ AdminSessionExpires \/ LifecycleEndpoints
    \/ AdminStep /\ UNCHANGED adminVars
=============================================================================
