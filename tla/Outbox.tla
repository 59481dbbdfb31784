------------------------------- MODULE Outbox -------------------------------
(***************************************************************************)
(* RecognitionOutboxService: jobs that teach the scanner which product a   *)
(* code belongs to.  They are queued with the purchase; workers (one sweep *)
(* per server instance) claim one under a lease, learn and mark it done in *)
(* one transaction, or put it back with a delay.  A worker may die, and    *)
(* a lease may run out under one that is only slow.                        *)
(***************************************************************************)
EXTENDS Integers, FiniteSets

CONSTANTS Jobs,         \* (purchase, code): the unique key of a job
          Workers,      \* server instances, each with its own `sweeping' flag
          MaxAttempts,  \* MAX_ATTEMPTS
          MaxCrashes,   \* bound: how many workers die
          NoJob

ASSUME OutboxAssumption == MaxCrashes \in Nat

VARIABLES job,       \* recognition_outbox
          learned,   \* how often learn() has counted each job as evidence
          worker,    \* what each worker is doing, and the attempts it counted
          crashes,
          late,      \* jobs whose lease ran out under a worker still at work
          known      \* jobs whose code has a row in product_recognition

outboxVars == <<job, learned, worker, crashes, late, known>>

Idle == [at |-> "idle", job |-> NoJob, attempts |-> 0]
NewJob == [status |-> "pending", lease |-> FALSE, attempts |-> 0]

JobRow == [status: {"none", "pending", "processing", "done", "failed"}, lease: BOOLEAN,
           attempts: Nat]
WorkerState == [at: {"idle", "read", "working"}, job: Jobs \cup {NoJob}, attempts: Nat]

OutboxTypeOK ==
    /\ job \in [Jobs -> JobRow]
    /\ learned \in [Jobs -> Nat]
    /\ worker \in [Workers -> WorkerState]
    /\ \A w \in Workers : worker[w].at # "idle" => worker[w].job \in Jobs
    /\ crashes \in 0..MaxCrashes
    /\ late \subseteq Jobs
    /\ known \subseteq Jobs

OutboxInit ==
    /\ job = [j \in Jobs |-> [NewJob EXCEPT !.status = "none"]]
    /\ learned = [j \in Jobs |-> 0]
    /\ worker = [w \in Workers |-> Idle]
    /\ crashes = 0
    /\ late = {}
    /\ known = {}

(* The lease does its work as long as it outlasts the worker: one worker at *)
(* a job at a time, and what it learns ends the job.                        *)
At(w, j) == worker[w].at = "working" /\ worker[w].job = j
LeaseInv ==
    \A j \in Jobs :
        /\ job[j].status = "done" => learned[j] > 0
        /\ j \notin late =>
              /\ \A w \in Workers : At(w, j) => job[j].status = "processing" /\ job[j].lease
              /\ \A v, w \in Workers : At(v, j) /\ At(w, j) => v = w
              /\ learned[j] = 0 \/ (learned[j] = 1 /\ job[j].status = "done")

(* enqueueTx, inside the transaction of the purchase; skipDuplicates. *)
WithQueued(js) ==
    [j \in Jobs |-> IF j \in js /\ job[j].status = "none" THEN NewJob ELSE job[j]]

(* Pending (its delay over) or processing under a lease that has run out.   *)
DueIfPending(j) == job[j].status = "pending"
DueAnyway(j) == job[j].status \in {"pending", "processing"}
Due(j) == \/ job[j].status = "pending"
          \/ job[j].status = "processing" /\ ~job[j].lease

(* sweep: the batch is read first, then its rows are taken one by one. *)
SweepRead(w, j) ==
    /\ worker[w] = Idle
    /\ Due(j)
    /\ worker' = [worker EXCEPT ![w] = [at |-> "read", job |-> j, attempts |-> job[j].attempts]]
    /\ UNCHANGED <<job, learned, crashes, late, known>>

(* processRow: the conditional claim.  The count of attempts that decides   *)
(* later is the one of the sweep's read.                                    *)
Claim(w) ==
    LET j == worker[w].job IN
    /\ worker[w].at = "read"
    /\ IF Due(j)
       THEN /\ job' = [job EXCEPT ![j] = [status |-> "processing", lease |-> TRUE,
                                          attempts |-> @.attempts + 1]]
            /\ worker' = [worker EXCEPT ![w].at = "working", ![w].attempts = @ + 1]
       ELSE worker' = [worker EXCEPT ![w] = Idle] /\ UNCHANGED job
    /\ UNCHANGED <<learned, crashes, late, known>>

(* Somebody submits a mapping for the code of a job. *)
MapCode(j) ==
    /\ j \notin known
    /\ known' = known \cup {j}
    /\ UNCHANGED <<job, learned, worker, crashes, late>>

(* learn() of a code without a row inserts one that is confirmed by default *)
(* and has no confirmed_at: ck_prodrec_confirmed_fields refuses it.         *)
Recordable(j) == j \in known

(* learn() and the row in one transaction; the row is written by its id. *)
Learn(w) ==
    /\ worker[w].at = "working"
    /\ Recordable(worker[w].job)
    /\ job' = [job EXCEPT ![worker[w].job] = [@ EXCEPT !.status = "done", !.lease = FALSE]]
    /\ learned' = [learned EXCEPT ![worker[w].job] = @ + 1]
    /\ worker' = [worker EXCEPT ![w] = Idle]
    /\ UNCHANGED <<crashes, late, known>>

(* The transaction failed: back to the queue, or dead and visible. *)
GiveUp(w) ==
    /\ worker[w].at = "working"
    /\ job' = [job EXCEPT ![worker[w].job] = [@ EXCEPT !.lease = FALSE,
          !.status = IF worker[w].attempts >= MaxAttempts THEN "failed" ELSE "pending"]]
    /\ worker' = [worker EXCEPT ![w] = Idle]
    /\ UNCHANGED <<learned, crashes, late, known>>

(* Time passes: LEASE_MS since the claim. *)
LeaseRunsOut(j) ==
    /\ job[j].status = "processing" /\ job[j].lease
    /\ job' = [job EXCEPT ![j].lease = FALSE]
    /\ late' = IF \E w \in Workers : At(w, j) THEN late \cup {j} ELSE late
    /\ UNCHANGED <<learned, worker, crashes, known>>

Crash(w) ==
    /\ worker[w] # Idle
    /\ crashes < MaxCrashes
    /\ crashes' = crashes + 1
    /\ worker' = [worker EXCEPT ![w] = Idle]
    /\ UNCHANGED <<job, learned, late, known>>

OutboxNext ==
    \/ \E w \in Workers : \/ \E j \in Jobs : SweepRead(w, j)
                          \/ Claim(w) \/ Learn(w) \/ GiveUp(w) \/ Crash(w)
    \/ \E j \in Jobs : LeaseRunsOut(j) \/ MapCode(j)

-----------------------------------------------------------------------------
(* A job is counted as evidence when it is done, and more than once only if *)
(* its lease ran out under a worker that was still at it.                   *)
LearnedOnce ==
    \A j \in Jobs : /\ job[j].status = "done" => learned[j] > 0
                    /\ learned[j] > 1 => j \in late
=============================================================================
