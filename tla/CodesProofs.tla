----------------------------- MODULE CodesProofs -----------------------------
(***************************************************************************)
(* One-time codes, for any number of challenges, people and guesses.       *)
(***************************************************************************)
EXTENDS Codes, TLAPS

Rows == [status: {"none", "pending", "verified", "locked", "expired", "cancelled"},
         key: CodeKeys \cup {NoSendKey}, idem: SendKeys \cup {NoSendKey},
         attempts: 0..MaxGuesses + 1, delivery: {"none", "accepted", "failed"}]

(* A challenge that does not exist has the columns of a row. *)
LEMMA NoChallengeIsRow == NoChallenge \in Rows
BY CodesAssumption DEF NoChallenge, Rows

(* An update of pending challenges touches nothing but their status. *)
LEMMA EndPendingAt ==
    ASSUME NEW rows \in [ChallengeIds -> Rows], NEW cs,
           NEW s \in {"locked", "expired", "cancelled"}
    PROVE  /\ EndPending(rows, cs, s) \in [ChallengeIds -> Rows]
           /\ \A c \in ChallengeIds :
                /\ EndPending(rows, cs, s)[c].key = rows[c].key
                /\ EndPending(rows, cs, s)[c].attempts = rows[c].attempts
                /\ EndPending(rows, cs, s)[c].status =
                     IF c \in cs /\ rows[c].status = "pending" THEN s ELSE rows[c].status
<1>1. ASSUME NEW c \in ChallengeIds
      PROVE  LET r == IF c \in cs /\ rows[c].status = "pending"
                      THEN [rows[c] EXCEPT !.status = s] ELSE rows[c]
             IN  /\ r \in Rows /\ r.key = rows[c].key /\ r.attempts = rows[c].attempts
                 /\ r.status = IF c \in cs /\ rows[c].status = "pending" THEN s
                               ELSE rows[c].status
  BY DEF Rows
<1> QED BY <1>1 DEF EndPending

(* A step that ends challenges without answering them keeps the invariant. *)
LEMMA Ending ==
    ASSUME CodesInv, NEW cs, NEW s \in {"locked", "expired", "cancelled"},
           otp' = EndPending(otp, cs, s), UNCHANGED <<delivering, overdue, accepted>>
    PROVE  CodesInv'
<1>1. otp \in [ChallengeIds -> Rows]
  BY DEF CodesInv, CodesTypeOK, Rows
<1>2. /\ otp' \in [ChallengeIds -> Rows]
      /\ \A c \in ChallengeIds :
           /\ otp'[c].key = otp[c].key
           /\ otp'[c].attempts = otp[c].attempts
           /\ otp'[c].status = IF c \in cs /\ otp[c].status = "pending" THEN s
                               ELSE otp[c].status
  BY <1>1, EndPendingAt
<1> QED BY <1>2 DEF CodesInv, CodesTypeOK, CodeAcceptedOnce, Rows

(* A new challenge is the only pending one of its key. *)
LEMMA Requesting ==
    ASSUME CodesInv, NEW c \in ChallengeIds, NEW k \in CodeKeys \cup {NoSendKey},
           NEW i \in SendKeys \cup {NoSendKey}, RequestCode(c, k, i)
    PROVE  CodesInv'
<1> DEFINE same == {e \in ChallengeIds : otp[e].key = k}
           new  == [NoChallenge EXCEPT !.status = "pending", !.key = k, !.idem = i]
<1>1. otp \in [ChallengeIds -> Rows]
  BY DEF CodesInv, CodesTypeOK, Rows
<1>2. /\ EndPending(otp, same, "cancelled") \in [ChallengeIds -> Rows]
      /\ \A e \in ChallengeIds :
           /\ EndPending(otp, same, "cancelled")[e].key = otp[e].key
           /\ EndPending(otp, same, "cancelled")[e].attempts = otp[e].attempts
           /\ EndPending(otp, same, "cancelled")[e].status =
                IF e \in same /\ otp[e].status = "pending" THEN "cancelled" ELSE otp[e].status
  BY <1>1, EndPendingAt
<1>3. new \in Rows /\ new.status = "pending" /\ new.key = k /\ new.attempts = 0
  <2>1. NoChallenge.attempts = 0
    BY DEF NoChallenge
  <2> QED BY <2>1, NoChallengeIsRow DEF Rows
<1>4. otp' = [EndPending(otp, same, "cancelled") EXCEPT ![c] = new]
  BY DEF RequestCode, WriteCodes
<1>5. otp[c].status = "none"
  BY DEF RequestCode, NoChallenge
<1> HIDE DEF same, new
<1>6. /\ otp' \in [ChallengeIds -> Rows]
      /\ otp'[c] = new
      /\ \A e \in ChallengeIds \ {c} :
           /\ otp'[e].key = otp[e].key
           /\ otp'[e].attempts = otp[e].attempts
           /\ otp'[e].status = IF e \in same /\ otp[e].status = "pending" THEN "cancelled"
                               ELSE otp[e].status
  BY <1>2, <1>3, <1>4
<1>7. \A e \in ChallengeIds \ {c} : otp'[e].status = "pending" => otp'[e].key # k
  BY <1>6 DEF same
<1>8. CodeAcceptedOnce'
  <2>1. accepted' = accepted
    BY DEF RequestCode
  <2>2. \A e \in ChallengeIds : accepted'[e] = IF otp'[e].status = "verified" THEN 1 ELSE 0
    BY <2>1, <1>3, <1>5, <1>6 DEF CodesInv, CodeAcceptedOnce
  <2>3. ASSUME NEW d \in ChallengeIds, NEW e \in ChallengeIds, otp'[d].status = "pending",
               otp'[e].status = "pending", otp'[d].key = otp'[e].key
        PROVE  d = e
    BY <2>3, <1>3, <1>6, <1>7 DEF CodesInv, CodeAcceptedOnce
  <2> QED BY <2>2, <2>3 DEF CodeAcceptedOnce
<1>9. CodesTypeOK'
  BY <1>6 DEF CodesInv, CodesTypeOK, RequestCode, Rows
<1> QED BY <1>3, <1>6, <1>8, <1>9, CodesAssumption DEF CodesInv

(* Every step keeps the invariant. *)
LEMMA CodesStep == CodesInv /\ [CodeStep]_codesVars => CodesInv'
<1> SUFFICES ASSUME CodesInv, [CodeStep]_codesVars PROVE CodesInv'
  OBVIOUS
<1>t. otp \in [ChallengeIds -> Rows] /\ accepted \in [ChallengeIds -> Nat]
  BY DEF CodesInv, CodesTypeOK, Rows
<1>1. ASSUME NEW c \in ChallengeIds, NEW k \in CodeKeys, NEW i \in SendKeys \cup {NoSendKey},
             RequestCode(c, k, i)
      PROVE  CodesInv'
  BY <1>1, Requesting
<1>2. ASSUME NEW c \in ChallengeIds, NEW e \in ChallengeIds, ResendCode(c, e)
      PROVE  CodesInv'
  <2>1. otp[c].key \in CodeKeys \cup {NoSendKey}
    BY <1>t DEF Rows
  <2> QED BY <1>2, <2>1, Requesting DEF ResendCode
<1>3. ASSUME NEW c \in ChallengeIds, NEW answer \in {"accepted", "failed"}, Deliver(c, answer)
      PROVE  CodesInv'
  <2>1. /\ otp' \in [ChallengeIds -> Rows]
        /\ \A e \in ChallengeIds : /\ otp'[e].key = otp[e].key
                                   /\ otp'[e].attempts = otp[e].attempts
                                   /\ otp'[e].status = otp[e].status
    BY <1>3, <1>t DEF Deliver, WriteCodes, Rows
  <2> QED BY <2>1, <1>3 DEF Deliver, CodesInv, CodesTypeOK, CodeAcceptedOnce, Rows
<1>4. ASSUME NEW c \in ChallengeIds, VerifyWrong(c) PROVE CodesInv'
  <2>1. /\ otp' \in [ChallengeIds -> Rows]
        /\ \A e \in ChallengeIds : /\ otp'[e].key = otp[e].key
                                   /\ otp'[e].status = otp[e].status
                                   /\ e # c => otp'[e].attempts = otp[e].attempts
        /\ otp'[c].attempts <= MaxGuesses
    <3> DEFINE row == [otp[c] EXCEPT !.attempts = @ + 1]
    <3>1. otp' = [otp EXCEPT ![c] = row] /\ otp[c].attempts < MaxGuesses
      BY <1>4, <1>t DEF VerifyWrong, WriteCodes
    <3>2. /\ row \in Rows /\ row.key = otp[c].key /\ row.status = otp[c].status
          /\ row.attempts <= MaxGuesses
      BY <3>1, <1>t, CodesAssumption DEF Rows
    <3> HIDE DEF row
    <3> QED BY <3>1, <3>2, <1>t
  <2> QED BY <2>1, <1>4 DEF VerifyWrong, CodesInv, CodesTypeOK, CodeAcceptedOnce, Rows
<1>5. ASSUME NEW c \in ChallengeIds, LockCode(c) PROVE CodesInv'
  BY <1>5, Ending DEF LockCode, WriteCodes
<1>6. ASSUME NEW c \in ChallengeIds, VerifyRight(c) PROVE CodesInv'
  <2>1. otp[c].status = "pending" /\ otp[c].attempts <= MaxGuesses /\ accepted[c] = 0
    BY <1>6 DEF VerifyRight, StillPending, CodesInv, CodeAcceptedOnce
  <2>2. /\ otp' \in [ChallengeIds -> Rows]
        /\ \A e \in ChallengeIds \ {c} : otp'[e] = otp[e]
        /\ otp'[c].status = "verified"
    BY <1>6, <1>t, <2>1, CodesAssumption DEF VerifyRight, WriteCodes, Rows
  <2>3. /\ accepted' \in [ChallengeIds -> Nat]
        /\ accepted'[c] = 1
        /\ \A e \in ChallengeIds \ {c} : accepted'[e] = accepted[e]
    BY <1>6, <1>t, <2>1 DEF VerifyRight
  <2>4. CodesTypeOK'
    BY <2>2, <2>3, <1>6 DEF VerifyRight, CodesInv, CodesTypeOK, Rows
  <2>5. CodeAcceptedOnce'
    BY <2>2, <2>3 DEF CodesInv, CodeAcceptedOnce
  <2> QED BY <2>2, <2>4, <2>5 DEF CodesInv
<1>7. ASSUME NEW c \in ChallengeIds, CancelCode(c) PROVE CodesInv'
  BY <1>7, Ending DEF CancelCode, WriteCodes
<1>8. ASSUME NEW c \in ChallengeIds, TimeIsUp(c) PROVE CodesInv'
  BY <1>8 DEF TimeIsUp, CodesInv, CodesTypeOK, CodeAcceptedOnce
<1>9. ASSUME NEW c \in ChallengeIds, MarkExpired(c) PROVE CodesInv'
  BY <1>9, Ending DEF MarkExpired, WriteCodes
<1>10. CASE ExpireOverdue
  BY <1>10, Ending DEF ExpireOverdue, WriteCodes
<1>11. CASE UNCHANGED codesVars
  BY <1>11 DEF codesVars, CodesInv, CodesTypeOK, CodeAcceptedOnce
<1> QED BY <1>1, <1>2, <1>3, <1>4, <1>5, <1>6, <1>7, <1>8, <1>9, <1>10, <1>11 DEF CodeStep

(* OtpService.verify: "two concurrent submissions of the correct code       *)
(* produce exactly one success", and request leaves one pending code per    *)
(* person, purpose and device, whatever rows the requests had loaded.       *)
THEOREM CodesAcceptedOnce == CodesSpec => []CodeAcceptedOnce
<1>1. CodesInit => CodesInv
  BY NoChallengeIsRow
     DEF CodesInit, CodesInv, CodesTypeOK, CodeAcceptedOnce, NoChallenge, Rows
<1>2. CodesInv => CodeAcceptedOnce
  BY DEF CodesInv
<1> QED BY <1>1, <1>2, CodesStep, PTL DEF CodesSpec
=============================================================================
