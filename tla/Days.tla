-------------------------------- MODULE Days --------------------------------
(***************************************************************************)
(* Business days of one branch, and the lock a closing puts on a day.      *)
(* Money is booked on the day a decision is taken.  A handler computes     *)
(* that day, looks whether it is closed, and only then opens the           *)
(* transaction that decides, so the write may come after midnight or after *)
(* the lock.  Days are numbered; time within a day is left out.            *)
(***************************************************************************)
EXTENDS Integers

CONSTANT MaxDay   \* bound: how many days go by

ASSUME DaysAssumption == MaxDay \in Nat \ {0}

VARIABLES today,      \* the current day
          lockedOn    \* daily_closings.is_locked: the day on which each day
                      \* was locked, 0 while it is open

dayVars == <<today, lockedOn>>

DaySet == 1..MaxDay

DaysTypeOK == today \in DaySet /\ lockedOn \in [DaySet -> {0} \cup DaySet]

DaysInit == today = 1 /\ lockedOn = [d \in DaySet |-> 0]

(* What a row that has just been written can be read with. *)
Stamp == [day |-> today, locked |-> lockedOn[today] # 0]
Stamps == [day: DaySet, locked: BOOLEAN]

(* A handler that read a row bearing this stamp may have found day d open:  *)
(* d was the current day at some time since, and was not locked before it.  *)
SawOpen(stamp, d) ==
    /\ d \in stamp.day..today
    /\ lockedOn[d] = 0 \/ lockedOn[d] >= d
    /\ d = stamp.day => ~stamp.locked

NewDay == today < MaxDay /\ today' = today + 1 /\ UNCHANGED lockedOn
=============================================================================
