----------------------------- MODULE Onboarding -----------------------------
(***************************************************************************)
(* How somebody gets a session without a password: a registration carried  *)
(* on by a continuation token and a code sent to the contact, or a portal  *)
(* handoff token.  Tokens (verification_intents) and codes                 *)
(* (contact_verifications) are consumed by conditional updates; the        *)
(* handoff writes its session outside the transaction that consumes it.    *)
(*                                                                         *)
(* Expiry is left out: it only stops requests that have not loaded the row *)
(* yet, and the writes do not ask for it.                                  *)
(***************************************************************************)
EXTENDS Access, Sequences

CONSTANTS RegKeys,      \* idempotency keys of registrations
          IntentIds, VerificationIds, NoVerification, NoIntent,
          MaxTries      \* MAX_ATTEMPTS of a contact code

VARIABLES registered,   \* registration_attempts: the owner created for each key
          verified,     \* users whose contact is verified
          intent,       \* verification_intents
          linkSeen,     \* the codes a request may have loaded from an open intent
          contact,      \* contact_verifications
          contactOrder, \* ... in the order of creation
          opened        \* what each answered token or code opened: (intent, code, session)

doorVars == <<registered, verified, intent, linkSeen, contact, contactOrder, opened>>

NewIntent == [state |-> "none", user |-> NoUser, purpose |-> "continuation",
              code |-> NoVerification]
NewContact == [state |-> "none", user |-> NoUser, tries |-> 0, intent |-> NoIntent]

OnboardingTypeOK ==
    /\ registered \in [RegKeys -> Users \cup {NoUser}]
    /\ verified \subseteq Users
    /\ intent \in [IntentIds -> [state: {"none", "open", "held", "consumed"},
          user: Users \cup {NoUser}, purpose: {"continuation", "handoff"},
          code: VerificationIds \cup {NoVerification}]]
    /\ contact \in [VerificationIds -> [state: {"none", "starting", "open", "spent"},
          user: Users \cup {NoUser}, tries: 0..MaxTries, intent: IntentIds \cup {NoIntent}]]
    /\ opened \subseteq IntentIds \X (VerificationIds \cup {NoVerification}) \X SessionIds

OnboardingInit ==
    /\ registered = [k \in RegKeys |-> NoUser]
    /\ verified = {}
    /\ intent = [i \in IntentIds |-> NewIntent]
    /\ linkSeen = [i \in IntentIds |-> {}]
    /\ contact = [v \in VerificationIds |-> NewContact]
    /\ contactOrder = <<>>
    /\ opened = {}

-----------------------------------------------------------------------------
(* register: attempt, company, branch, roles, owner and subscription in one *)
(* transaction; the unique key of the attempt decides a race, and a key     *)
(* that is already there is answered with what it created.                  *)
AlreadyRegistered(k) == registered[k] # NoUser

Register(k, u) ==
    /\ ~AlreadyRegistered(k) /\ account[u].state = "none"
    /\ registered' = [registered EXCEPT ![k] = u]
    /\ WriteAccount(u, [NoAccount EXCEPT !.state = "active", !.email = 1])
    /\ UNCHANGED <<session, secretSeen, held, device, signing>>
    /\ UNCHANGED <<verified, intent, linkSeen, contact, contactOrder, opened>>

(* VerificationIntentService: issue, and resolve, which found it open. *)
IssueIntent(i, u, purpose) ==
    /\ intent[i].state = "none"
    /\ intent' = [intent EXCEPT ![i] = [NewIntent EXCEPT !.state = "open", !.user = u,
                                                          !.purpose = purpose]]
    /\ linkSeen' = [linkSeen EXCEPT ![i] = {NoVerification}]

Resolves(i, purpose) == intent[i].state # "none" /\ intent[i].purpose = purpose

(* A new or a repeated registration gets a continuation if pendingOwnerFor  *)
(* finds an owner who is not verified, which it may have read before the    *)
(* registration was completed.                                              *)
PendingOwnerFor(k) == {registered[k]} \ {NoUser}

IssueContinuation(i, k) ==
    /\ \E u \in PendingOwnerFor(k) : IssueIntent(i, u, "continuation")
    /\ UNCHANGED <<accessVars, registered, verified, contact, contactOrder, opened>>

(* PortalHandoffService.issue, for somebody who is signed in. *)
IssueHandoff(i, s) ==
    /\ held[s] # {} /\ IsAccessValid(s)
    /\ IssueIntent(i, session[s].user, "handoff")
    /\ UNCHANGED <<accessVars, registered, verified, contact, contactOrder, opened>>

-----------------------------------------------------------------------------
(* ContactVerificationService.start: the open codes of the destination are  *)
(* spent, then, in a statement of its own, the new one is inserted.         *)
OpenFor(u) == {v \in VerificationIds : contact[v].state = "open" /\ contact[v].user = u}

StartContact(v, u, i) ==
    /\ contact[v] = NewContact
    /\ i # NoIntent => /\ intent[i].state = "open" /\ intent[i].user = u
                       /\ Resolves(i, "continuation") /\ account[u].state = "active"
    /\ contact' = [w \in VerificationIds |->
          IF w = v THEN [NewContact EXCEPT !.state = "starting", !.user = u, !.intent = i]
          ELSE IF w \in OpenFor(u) THEN [contact[w] EXCEPT !.state = "spent"] ELSE contact[w]]
    /\ UNCHANGED <<accessVars, registered, verified, intent, linkSeen, contactOrder, opened>>

CreateContact(v) ==
    /\ contact[v].state = "starting"
    /\ contact' = [contact EXCEPT ![v].state = "open"]
    /\ contactOrder' = Append(contactOrder, v)
    /\ UNCHANGED <<accessVars, registered, verified, intent, linkSeen, opened>>

(* startChallenge goes on: the latest open code is linked to the intent, by *)
(* id.  It need not be the one this request created.                        *)
Latest(u) ==
    LET open == SelectSeq(contactOrder, LAMBDA w : w \in OpenFor(u))
    IN  IF open = <<>> THEN NoVerification ELSE open[Len(open)]

LinkContact(v) ==
    LET i == contact[v].intent
        latest == Latest(contact[v].user) IN
    /\ contact[v].state \in {"open", "spent"} /\ i # NoIntent
    /\ contact' = [contact EXCEPT ![v].intent = NoIntent]
    /\ IF latest = NoVerification THEN UNCHANGED <<intent, linkSeen>>
       ELSE /\ intent' = [intent EXCEPT ![i].code = latest]
            /\ linkSeen' = IF intent[i].state = "consumed" THEN linkSeen
                           ELSE [linkSeen EXCEPT ![i] = @ \cup {latest}]
    /\ UNCHANGED <<accessVars, registered, verified, contactOrder, opened>>

(* confirm and confirmChallenge: a wrong code is counted by id. *)
WrongContact(v) ==
    /\ contact[v].state \in {"open", "spent"} /\ contact[v].tries < MaxTries
    /\ contact' = [contact EXCEPT ![v].tries = @ + 1]
    /\ UNCHANGED <<accessVars, registered, verified, intent, linkSeen, contactOrder, opened>>

(* confirm, with the right code: spent by id.  It opens nothing. *)
ConfirmContact(v) ==
    /\ contact[v].state = "open"
    /\ contact' = [contact EXCEPT ![v].state = "spent"]
    /\ UNCHANGED <<accessVars, registered, verified, intent, linkSeen, contactOrder, opened>>

-----------------------------------------------------------------------------
(* The conditional updates of `complete' and of `consume'. *)
CodeSpendable(v) == contact[v].state \in {"open", "spent"}
CodeStillOpen(v) == contact[v].state = "open"
IntentStillOpen(i) == intent[i].state = "open"

(* complete: the intent, its code, the owner and a session, or nothing. *)
Complete(i, v, s) ==
    /\ Resolves(i, "continuation")
    /\ v \in linkSeen[i] \ {NoVerification}
    /\ \E row \in accountSeen[intent[i].user] : row.state = "active"
    /\ IntentStillOpen(i) /\ CodeStillOpen(v)
    /\ intent' = [intent EXCEPT ![i].state = "consumed"]
    /\ contact' = [contact EXCEPT ![v].state = "spent"]
    /\ verified' = verified \cup {intent[i].user}
    /\ OpenSession(s, intent[i].user)
    /\ held' = [held EXCEPT ![s] = {0}]
    /\ opened' = opened \cup {<<i, v, s>>}
    /\ UNCHANGED <<account, accountSeen, device, signing, registered, linkSeen, contactOrder>>

(* exchange: inside the transaction that holds the intent, the session is   *)
(* inserted on another connection; the transaction may still fail.          *)
ExchangeOpens(i, s) ==
    /\ Resolves(i, "handoff") /\ IntentStillOpen(i)
    /\ \E row \in accountSeen[intent[i].user] : row.state = "active"
    /\ signing[s] = NotSigning
    /\ OpenSession(s, intent[i].user)
    /\ intent' = [intent EXCEPT ![i].state = "held"]
    /\ signing' = [signing EXCEPT ![s] = [NotSigning EXCEPT !.stage = "exchanging",
                                             !.user = intent[i].user]]
    /\ UNCHANGED <<account, accountSeen, held, device>>
    /\ UNCHANGED <<registered, verified, linkSeen, contact, contactOrder, opened>>

Exchanging(i, s) ==
    /\ intent[i].state = "held"
    /\ signing[s].stage = "exchanging" /\ signing[s].user = intent[i].user
    /\ signing' = [signing EXCEPT ![s] = NotSigning]
    /\ UNCHANGED <<account, accountSeen, session, secretSeen, device>>
    /\ UNCHANGED <<registered, verified, linkSeen, contact, contactOrder>>

ExchangeCommits(i, s) ==
    /\ Exchanging(i, s)
    /\ intent' = [intent EXCEPT ![i].state = "consumed"]
    /\ held' = [held EXCEPT ![s] = {0}]
    /\ opened' = opened \cup {<<i, NoVerification, s>>}

(* The commit is lost: the token can be presented again, and the session    *)
(* nobody was given stays in the table.                                     *)
ExchangeAborts(i, s) ==
    /\ Exchanging(i, s)
    /\ intent' = [intent EXCEPT ![i].state = "open"]
    /\ UNCHANGED <<held, opened>>

DoorStep ==
    \/ \E k \in RegKeys : \/ \E u \in Users : Register(k, u)
                          \/ \E i \in IntentIds : IssueContinuation(i, k)
    \/ \E v \in VerificationIds :
         \/ \E u \in Users, i \in IntentIds \cup {NoIntent} : StartContact(v, u, i)
         \/ CreateContact(v) \/ LinkContact(v) \/ WrongContact(v) \/ ConfirmContact(v)
    \/ \E i \in IntentIds, s \in SessionIds :
         \/ IssueHandoff(i, s)
         \/ \E v \in VerificationIds : Complete(i, v, s)
         \/ ExchangeOpens(i, s) \/ ExchangeCommits(i, s) \/ ExchangeAborts(i, s)
=============================================================================
