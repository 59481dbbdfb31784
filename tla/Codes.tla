-------------------------------- MODULE Codes --------------------------------
(***************************************************************************)
(* OtpService: one-time codes.  A challenge is pending until it is         *)
(* verified, locked, expired or cancelled.  Every request loads the row    *)
(* first; wrong guesses are counted by id, and only the last write of each *)
(* path asks whether the challenge is still pending.                       *)
(***************************************************************************)
EXTENDS Integers, FiniteSets

CONSTANTS ChallengeIds,
          CodeKeys,       \* who, what for and on which device: activeKeyFor
          SendKeys,       \* idempotency keys of requests
          NoSendKey,
          MaxAttempts,    \* otpMaxAttempts
          MaxGuesses      \* bound: wrong guesses of one challenge

ASSUME CodesAssumption == MaxAttempts \in Nat /\ MaxGuesses \in Nat

VARIABLES otp,        \* otp_challenges
          otpSeen,    \* (status, attempts) a request may have loaded
          delivering, \* challenges whose message is on its way to the provider
          overdue,    \* challenges past expiresAt
          accepted    \* how often each code was answered as correct

codesVars == <<otp, otpSeen, delivering, overdue, accepted>>

NoChallenge == [status |-> "none", key |-> NoSendKey, idem |-> NoSendKey, attempts |-> 0,
                delivery |-> "none"]

CodesTypeOK ==
    /\ otp \in [ChallengeIds -> [status: {"none", "pending", "verified", "locked", "expired",
                                          "cancelled"},
          key: CodeKeys \cup {NoSendKey}, idem: SendKeys \cup {NoSendKey},
          attempts: 0..MaxGuesses + 1, delivery: {"none", "accepted", "failed"}]]
    /\ delivering \subseteq ChallengeIds
    /\ overdue \subseteq ChallengeIds
    /\ accepted \in [ChallengeIds -> Nat]

CodesInit ==
    /\ otp = [c \in ChallengeIds |-> NoChallenge]
    /\ otpSeen = [c \in ChallengeIds |-> {}]
    /\ delivering = {} /\ overdue = {}
    /\ accepted = [c \in ChallengeIds |-> 0]

CodeLoaded(row) == [status |-> row.status, attempts |-> row.attempts]

WriteCodes(rows) ==
    /\ otp' = rows
    /\ otpSeen' = [c \in ChallengeIds |-> IF rows[c].status = "none" THEN {}
                                          ELSE otpSeen[c] \cup {CodeLoaded(rows[c])}]

(* updateMany ... where status is pending; anything else is left alone. *)
EndPending(rows, cs, status) ==
    [c \in ChallengeIds |-> IF c \in cs /\ rows[c].status = "pending"
                            THEN [rows[c] EXCEPT !.status = status] ELSE rows[c]]

(* request: a repeated idempotency key is answered with its challenge (and  *)
(* its unique index refuses a race); otherwise whatever is pending for the  *)
(* same key is cancelled in the transaction that inserts the new row.       *)
RequestCode(c, k, i) ==
    /\ otp[c] = NoChallenge
    /\ i # NoSendKey => \A e \in ChallengeIds : otp[e].idem # i
    /\ LET same == {e \in ChallengeIds : otp[e].key = k} IN
       WriteCodes([EndPending(otp, same, "cancelled") EXCEPT
                      ![c] = [NoChallenge EXCEPT !.status = "pending", !.key = k, !.idem = i]])
    /\ delivering' = delivering \cup {c}
    /\ UNCHANGED <<overdue, accepted>>

(* deliver: the provider's answer is written by id, whatever has become of  *)
(* the challenge.                                                           *)
Deliver(c, answer) ==
    /\ c \in delivering
    /\ WriteCodes([otp EXCEPT ![c].delivery = answer])
    /\ delivering' = delivering \ {c}
    /\ UNCHANGED <<overdue, accepted>>

(* resend: of a challenge that was pending when loaded. *)
ResendCode(c, e) ==
    /\ \E load \in otpSeen[c] : load.status = "pending"
    /\ RequestCode(e, otp[c].key, NoSendKey)

-----------------------------------------------------------------------------
(* verify.  The checks at its head are on the loaded row. *)
Checkable(load) == load.status = "pending" /\ load.attempts < MaxAttempts

VerifyWrong(c) ==
    /\ \E load \in otpSeen[c] : Checkable(load)
    /\ otp[c].attempts < MaxGuesses
    /\ WriteCodes([otp EXCEPT ![c].attempts = @ + 1])
    /\ UNCHANGED <<delivering, overdue, accepted>>

(* lock, after the guess that used the last attempt or at the next one. *)
LockCode(c) ==
    /\ otp[c].attempts >= MaxAttempts /\ otp[c].status = "pending"
    /\ WriteCodes(EndPending(otp, {c}, "locked"))
    /\ UNCHANGED <<delivering, overdue, accepted>>

(* The code is right: the conditional update decides who may say so. *)
NotYetExpired(c) == otp[c].status \in {"pending", "locked", "verified", "cancelled"}
StillPending(c) == otp[c].status = "pending"

VerifyRight(c) ==
    /\ \E load \in otpSeen[c] : Checkable(load)
    /\ StillPending(c)
    /\ WriteCodes([otp EXCEPT ![c].status = "verified", ![c].attempts = @ + 1])
    /\ accepted' = [accepted EXCEPT ![c] = @ + 1]
    /\ UNCHANGED <<delivering, overdue>>

CancelCode(c) ==
    /\ StillPending(c)
    /\ WriteCodes(EndPending(otp, {c}, "cancelled"))
    /\ UNCHANGED <<delivering, overdue, accepted>>

(* Time passes: expiresAt.  expireOverdue, and markExpired of a verify that *)
(* comes too late.                                                          *)
TimeIsUp(c) ==
    /\ otp[c].status = "pending" /\ c \notin overdue
    /\ overdue' = overdue \cup {c}
    /\ UNCHANGED <<otp, otpSeen, delivering, accepted>>

ExpireOverdue ==
    /\ \E c \in overdue : StillPending(c)
    /\ WriteCodes(EndPending(otp, overdue, "expired"))
    /\ UNCHANGED <<delivering, overdue, accepted>>

MarkExpired(c) ==
    /\ c \in overdue /\ StillPending(c)
    /\ WriteCodes(EndPending(otp, {c}, "expired"))
    /\ UNCHANGED <<delivering, overdue, accepted>>

CodeStep ==
    \/ \E c \in ChallengeIds :
         \/ \E k \in CodeKeys, i \in SendKeys \cup {NoSendKey} : RequestCode(c, k, i)
         \/ \E e \in ChallengeIds : ResendCode(c, e)
         \/ \E answer \in {"accepted", "failed"} : Deliver(c, answer)
         \/ VerifyWrong(c) \/ LockCode(c) \/ VerifyRight(c) \/ CancelCode(c)
         \/ TimeIsUp(c) \/ MarkExpired(c)
    \/ ExpireOverdue

CodesSpec == CodesInit /\ [][CodeStep]_codesVars

-----------------------------------------------------------------------------
(* A one-time code is answered as correct at most once, only a code that    *)
(* was ends as verified, and at most one code is pending for the same       *)
(* person, purpose and device: verify decides by a conditional update       *)
(* although its checks are on a row loaded before, and request cancels what *)
(* was pending.                                                             *)
CodeAcceptedOnce ==
    /\ \A c \in ChallengeIds : accepted[c] = IF otp[c].status = "verified" THEN 1 ELSE 0
    /\ \A c, e \in ChallengeIds :
         otp[c].status = "pending" /\ otp[e].status = "pending" /\ otp[c].key = otp[e].key
           => c = e

(* What carries it from step to step: with the types, that a challenge      *)
(* which can still be verified has room for one more attempt.               *)
CodesInv ==
    /\ CodesTypeOK
    /\ CodeAcceptedOnce
    /\ \A c \in ChallengeIds : otp[c].status = "pending" => otp[c].attempts <= MaxGuesses
=============================================================================
