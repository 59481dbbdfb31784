------------------------------- MODULE Access -------------------------------
(***************************************************************************)
(* Accounts, sessions and devices.  A sign-in checks the account and the   *)
(* device first and writes later, one statement after another; a refresh   *)
(* compares the secret with the row it loaded and then writes by id.  What *)
(* ends sessions (sign-out, a revoked device, a deactivated account, a     *)
(* changed contact) runs in between.                                       *)
(*                                                                         *)
(* Secrets and credentials are numbers; who knows which is not modelled.   *)
(* Expiry of a session only stops requests that have not loaded it yet,    *)
(* which a request may always be said to have done.                        *)
(***************************************************************************)
EXTENDS Integers, FiniteSets

CONSTANTS Users, SessionIds, DeviceIds, NoUser, NoDevice,
          MaxRotations,   \* bound: refreshes of one session
          MaxEdits        \* bound: edits of one account

VARIABLES account,      \* users: state, contacts (0: none), how often they had to sign in anew
          accountSeen,  \* what a request may have loaded of an account
          session,      \* auth_sessions
          secretSeen,   \* the secrets a request may have loaded from a live session
          held,         \* the secrets given to the client of a session
          device,       \* user_devices
          signing       \* sign-ins under way, by the session they will open

accessVars == <<account, accountSeen, session, secretSeen, held, device, signing>>

Contact == 0..1
NoAccount == [state |-> "none", phone |-> 0, email |-> 0, renewals |-> 0, edits |-> 0]
NoSession == [state |-> "none", user |-> NoUser, secret |-> 0, rotations |-> 0,
              device |-> NoDevice, trusted |-> TRUE, renewals |-> 0]
NotSigning == [stage |-> "none", user |-> NoUser, device |-> NoDevice, enrolls |-> FALSE]

AccessTypeOK ==
    /\ account \in [Users -> [state: {"none", "active", "inactive"}, phone: Contact,
                              email: Contact, renewals: 0..MaxEdits, edits: 0..MaxEdits]]
    /\ session \in [SessionIds -> [state: {"none", "live", "revoked"},
          user: Users \cup {NoUser}, secret: 0..MaxRotations, rotations: 0..MaxRotations,
          device: DeviceIds \cup {NoDevice}, trusted: BOOLEAN, renewals: 0..MaxEdits]]
    /\ secretSeen \in [SessionIds -> SUBSET (0..MaxRotations)]
    /\ held \in [SessionIds -> SUBSET (0..MaxRotations)]
    /\ device \in [DeviceIds -> [state: {"none", "trusted", "revoked"},
                                 user: Users \cup {NoUser}, reverify: BOOLEAN]]
    /\ signing \in [SessionIds -> [stage: {"none", "checked", "opened", "exchanging"},
          user: Users \cup {NoUser}, device: DeviceIds \cup {NoDevice}, enrolls: BOOLEAN]]

NoDevices == [d \in DeviceIds |-> [state |-> "none", user |-> NoUser, reverify |-> FALSE]]

Loaded(row) == [state |-> row.state, phone |-> row.phone, email |-> row.email]

(* `rows' are the accounts there are to begin with. *)
AccessInit(rows) ==
    /\ account = rows
    /\ accountSeen = [u \in Users |-> {Loaded(rows[u])}]
    /\ session = [s \in SessionIds |-> NoSession]
    /\ secretSeen = [s \in SessionIds |-> {}]
    /\ held = [s \in SessionIds |-> {}]
    /\ device = NoDevices
    /\ signing = [s \in SessionIds |-> NotSigning]

WriteAccount(u, row) ==
    /\ account' = [account EXCEPT ![u] = row]
    /\ accountSeen' = [accountSeen EXCEPT ![u] = @ \cup {Loaded(row)}]

-----------------------------------------------------------------------------
(* SessionsService.create: the row a sign-in, a completed registration or a *)
(* portal handoff inserts.                                                  *)
Opened(u) == [NoSession EXCEPT !.state = "live", !.user = u, !.renewals = account[u].renewals]

OpenSession(s, u) ==
    /\ session[s].state = "none"
    /\ session' = [session EXCEPT ![s] = Opened(u)]
    /\ secretSeen' = [secretSeen EXCEPT ![s] = {0}]

(* revokedAt is set where it is null. *)
Revoked(rows, ss) ==
    [s \in SessionIds |-> IF s \in ss /\ rows[s].state = "live"
                          THEN [rows[s] EXCEPT !.state = "revoked"] ELSE rows[s]]

SessionsOf(u) == {s \in SessionIds : session[s].user = u}
SessionsOn(d) == {s \in SessionIds : session[s].device = d}
DeviceOf(s) == session[s].device

(* Asked of every request with an access token. *)
IsAccessValid(s) == session[s].state = "live" /\ account[session[s].user].state = "active"

-----------------------------------------------------------------------------
(* recognise: a device presented at sign-in, or none. *)
Recognised(u, d) ==
    d # NoDevice => device[d].state = "trusted" /\ device[d].user = u

(* findCandidatesForAuth: active accounts that have what was typed, which   *)
(* may be a contact or the personal id that every account has.              *)
MaySignIn(u) == account[u].state = "active"

(* login and chooseAccount up to the first write: an active account, and    *)
(* the device if one is presented.  A device that presents no credential is *)
(* enrolled at the end.                                                     *)
Login(s, u, d, enrolls) ==
    /\ session[s].state = "none" /\ signing[s] = NotSigning
    /\ MaySignIn(u)
    /\ Recognised(u, d)
    /\ enrolls => d = NoDevice
    /\ signing' = [signing EXCEPT ![s] = [stage |-> "checked", user |-> u, device |-> d,
                                          enrolls |-> enrolls]]
    /\ UNCHANGED <<account, accountSeen, session, secretSeen, held, device>>

(* completeLogin inserts the session, whatever has happened to the account. *)
LoginOpens(s) ==
    LET now == signing[s]
        more == now.enrolls \/ now.device # NoDevice IN
    /\ now.stage = "checked"
    /\ OpenSession(s, now.user)
    /\ signing' = [signing EXCEPT ![s] = IF more THEN [now EXCEPT !.stage = "opened"]
                                                 ELSE NotSigning]
    /\ held' = IF more THEN held ELSE [held EXCEPT ![s] = {0}]
    /\ UNCHANGED <<account, accountSeen, device>>

Bound(s, d) == [session EXCEPT ![s].device = d,
                               ![s].trusted = d = NoDevice \/ device'[d].state = "trusted"]

(* attach: the session row, by its id. *)
Attach(s) ==
    LET now == signing[s] IN
    /\ now.stage = "opened" /\ ~now.enrolls
    /\ UNCHANGED device
    /\ session' = Bound(s, now.device)
    /\ held' = [held EXCEPT ![s] = {0}]
    /\ signing' = [signing EXCEPT ![s] = NotSigning]
    /\ UNCHANGED <<account, accountSeen, secretSeen>>

(* enroll: the device and the session that points at it. *)
Enrolled(s, d, u) ==
    /\ device[d].state = "none"
    /\ device' = [device EXCEPT ![d] = [state |-> "trusted", user |-> u, reverify |-> FALSE]]
    /\ session' = Bound(s, d)

Enroll(s, d) ==
    LET now == signing[s] IN
    /\ now.stage = "opened" /\ now.enrolls
    /\ Enrolled(s, d, now.user)
    /\ held' = [held EXCEPT ![s] = {0}]
    /\ signing' = [signing EXCEPT ![s] = NotSigning]
    /\ UNCHANGED <<account, accountSeen, secretSeen>>

(* adoptLegacy: the session had no device when it was loaded, which is true *)
(* of every session at first.                                               *)
AdoptLegacy(s, d) ==
    /\ held[s] # {}
    /\ Enrolled(s, d, session[s].user)
    /\ UNCHANGED <<account, accountSeen, secretSeen, held, signing>>

-----------------------------------------------------------------------------
(* rotate and refresh: a client presents secret `k'.  The comparison is     *)
(* with a row that was live when it was loaded; both writes are by id.      *)
(* AuthService answers the new secret only while the account is active.     *)
RefreshAnswered(s, new) ==
    IF account[session[s].user].state = "active" THEN [held EXCEPT ![s] = @ \cup {new}] ELSE held

Refresh(s, k) ==
    /\ k \in held[s]
    /\ \E loaded \in secretSeen[s] :
         IF k = loaded
         THEN LET new == session[s].rotations + 1 IN
              /\ new <= MaxRotations
              /\ session' = [session EXCEPT ![s].secret = new, ![s].rotations = new]
              /\ secretSeen' = IF session[s].state = "live"
                               THEN [secretSeen EXCEPT ![s] = @ \cup {new}] ELSE secretSeen
              /\ held' = RefreshAnswered(s, new)
         ELSE /\ session' = [session EXCEPT ![s].state = "revoked"]
              /\ UNCHANGED <<secretSeen, held>>
    /\ UNCHANGED <<account, accountSeen, device, signing>>

MarkReverifyRequired(d) == IF d = NoDevice THEN device ELSE [device EXCEPT ![d].reverify = TRUE]

(* logout: this session, and the device it was on has to verify again. *)
Logout(s) ==
    /\ held[s] # {}
    /\ session' = Revoked(session, {s})
    /\ device' = MarkReverifyRequired(DeviceOf(s))
    /\ UNCHANGED <<account, accountSeen, secretSeen, held, signing>>

LogoutAll(u) ==
    /\ \E s \in SessionsOf(u) : held[s] # {}
    /\ session' = Revoked(session, SessionsOf(u))
    /\ UNCHANGED <<account, accountSeen, secretSeen, held, device, signing>>

(* DevicesService.revoke: the device and its sessions in one transaction. *)
RevokeDevice(d) ==
    /\ device[d].state # "none"
    /\ device' = [device EXCEPT ![d].state = "revoked"]
    /\ session' = Revoked(session, SessionsOn(d))
    /\ UNCHANGED <<account, accountSeen, secretSeen, held, signing>>

-----------------------------------------------------------------------------
(* UserManagementService.update.  `dto' gives the state and contacts asked  *)
(* for; only what differs from the row loaded before is written.            *)
Edits == [state: {"active", "inactive"}, phone: Contact, email: Contact]

ContactChanged(before, dto) == dto.phone # before.phone \/ dto.email # before.email
Deactivating(before, dto) == dto.state = "inactive" /\ before.state = "active"
Reactivating(before, dto) == dto.state = "active" /\ before.state = "inactive"

(* Never the last way in, as far as the loaded row tells. *)
KeepsContact(before, dto) ==
    before.phone + before.email > 0 => dto.phone + dto.email > 0

RevokingOnDeactivation(before, dto) == Deactivating(before, dto)
Revoking(before, dto) == Deactivating(before, dto) \/ ContactChanged(before, dto)

(* `renewals' counts the times the account was switched off or one of its   *)
(* contacts became another.                                                 *)
UserUpdate(u, before, dto) ==
    LET row  == account[u]
        Set(f) == IF dto[f] # before[f] THEN dto[f] ELSE row[f]
        renews == \/ row.state = "active" /\ Set("state") = "inactive"
                  \/ Set("phone") # row.phone \/ Set("email") # row.email
    IN
    /\ before \in accountSeen[u] /\ before.state # "none"
    /\ row.edits < MaxEdits
    /\ \E f \in {"state", "phone", "email"} : dto[f] # before[f]
    /\ ContactChanged(before, dto) => KeepsContact(before, dto)
    /\ WriteAccount(u, [state |-> Set("state"), phone |-> Set("phone"), email |-> Set("email"),
                        renewals |-> row.renewals + IF renews THEN 1 ELSE 0,
                        edits |-> row.edits + 1])
    /\ session' = IF Revoking(before, dto) THEN Revoked(session, SessionsOf(u)) ELSE session
    /\ UNCHANGED <<secretSeen, held, device, signing>>

SignInStep ==
    \/ \E s \in SessionIds, u \in Users, d \in DeviceIds \cup {NoDevice}, e \in BOOLEAN :
         Login(s, u, d, e)
    \/ \E s \in SessionIds :
         \/ LoginOpens(s) \/ Attach(s) \/ Logout(s)
         \/ \E k \in 0..MaxRotations : Refresh(s, k)
         \/ \E d \in DeviceIds : Enroll(s, d) \/ AdoptLegacy(s, d)
    \/ \E u \in Users : LogoutAll(u)
    \/ \E d \in DeviceIds : RevokeDevice(d)

EditStep ==
    \E u \in Users : \E before \in accountSeen[u], dto \in Edits :
        ~Reactivating(before, dto) /\ UserUpdate(u, before, dto)
=============================================================================
