--------------------------- MODULE SubmissionQueue ---------------------------
(***************************************************************************)
(* The durable queue of ComfyUI jobs and the controlled submission of a    *)
(* reserved job: backend/app/services/queue/service.py, the transition     *)
(* table of backend/app/queue/state_machine.py, the worker boundary        *)
(* services/queue/worker.py and services/comfy/submission.py.              *)
(*                                                                         *)
(* Workers, the recovery sweep and an operator are separate database       *)
(* sessions on PostgreSQL in READ COMMITTED: every operation reads the row *)
(* and writes it in a later step.  Only the claim and the sweep read with  *)
(* FOR UPDATE SKIP LOCKED, so only they keep others off the row between    *)
(* the two.                                                                *)
(***************************************************************************)
EXTENDS Naturals, FiniteSets

CONSTANTS
  Worker,       \* worker identities
  Job,          \* rows of comfy_jobs
  Nobody,       \* worker_id is NULL
  NoJob,        \* a session works on no row
  MaxAttempts,  \* max_attempts of recover_stale_reserved_jobs
  MaxCrashes,   \* bound on the worker crashes of a behaviour
  MaxBeats,     \* bound on the heartbeats of a behaviour
  Targets       \* what the operator asks transition_job for

Sweep    == "sweep"
Operator == "operator"

ASSUME QueueConstants ==
  /\ Nobody \notin Worker /\ NoJob \notin Job
  /\ Sweep \notin Worker /\ Operator \notin Worker
  /\ MaxAttempts \in Nat \ {0} /\ MaxCrashes \in Nat /\ MaxBeats \in Nat

State == {"pending", "reserved", "validating", "submitted", "running",
          "collecting_outputs", "complete", "validation_failed", "comfy_rejected",
          "runtime_failed", "timeout", "interrupted", "oom", "postprocess_failed",
          "canceled"}

\* VALID_TRANSITIONS
Valid == [s \in State |->
  CASE s = "pending"    -> {"reserved", "canceled"}
    [] s = "reserved"   -> {"pending", "validating", "timeout", "canceled", "interrupted"}
    [] s = "validating" -> {"submitted", "validation_failed", "canceled", "interrupted"}
    [] s = "submitted"  -> {"running", "comfy_rejected", "timeout", "interrupted"}
    [] s = "running"    -> {"collecting_outputs", "runtime_failed", "timeout",
                            "interrupted", "oom"}
    [] s = "collecting_outputs" -> {"complete", "postprocess_failed", "runtime_failed"}
    [] OTHER            -> {}]

Outcome == {"submitted", "comfy_rejected", "validation_failed"}

\* Nobody asks transition_job to put a job back (reserve_job has no caller).
ASSUME TargetsLeaveQueue == Targets \subseteq State \ {"pending", "reserved"}

VARIABLES
  status,    \* comfy_jobs.status
  worker,    \* comfy_jobs.worker_id
  attempts,  \* comfy_jobs.attempt_count
  prompted,  \* comfy_jobs.prompt_id is set
  stale,     \* heartbeat_at (or reserved_at) is before the sweep's stale_before
  at,        \* where each session is inside its operation
  job,       \* the row each session works on
  count,     \* the attempt_count a claim or the sweep has read
  result,    \* what a worker writes next: the engine's answer, or operator's target
  accepted,  \* prompts the engine has accepted for each job
  crashes,   \* bound counter
  beats      \* bound counter

Session == Worker \cup {Sweep, Operator}
row     == <<status, worker, attempts, prompted, stale>>
session == <<at, job, count, result>>
bounds  == <<crashes, beats>>
queueVars    == <<row, session, accepted, bounds>>

Steps == {"idle", "claim", "owner", "beat", "ready", "unfit", "begin", "refuse",
          "post", "mark", "sweep", "move"}

QueueTypeOK ==
  /\ status \in [Job -> State] /\ worker \in [Job -> Worker \cup {Nobody}]
  /\ attempts \in [Job -> 0 .. MaxAttempts]
  /\ prompted \in [Job -> BOOLEAN] /\ stale \in [Job -> BOOLEAN]
  /\ at \in [Session -> Steps] /\ job \in [Session -> Job \cup {NoJob}]
  /\ count \in [Session -> 0 .. MaxAttempts]
  /\ result \in [Session -> State]
  /\ accepted \in [Job -> Nat]
  /\ crashes \in 0 .. MaxCrashes /\ beats \in 0 .. MaxBeats

QueueInit ==
  /\ status = [j \in Job |-> "pending"] /\ worker = [j \in Job |-> Nobody]
  /\ attempts = [j \in Job |-> 0] /\ prompted = [j \in Job |-> FALSE]
  /\ stale = [j \in Job |-> FALSE]
  /\ at = [s \in Session |-> "idle"] /\ job = [s \in Session |-> NoJob]
  /\ count = [s \in Session |-> 0] /\ result = [s \in Session |-> "pending"]
  /\ accepted = [j \in Job |-> 0] /\ crashes = 0 /\ beats = 0
-----------------------------------------------------------------------------
\* A row is locked between the SELECT ... FOR UPDATE of a claim or of the sweep and
\* its commit. SKIP LOCKED passes over it; a plain UPDATE waits for it.
Locked(j) == \E s \in Session : job[s] = j /\ at[s] \in {"claim", "sweep"}

IsAt(s, l)     == at[s] = l
MoveTo(s, l)   == at' = [at EXCEPT ![s] = l]
Finish(s)    == MoveTo(s, "idle") /\ job' = [job EXCEPT ![s] = NoJob]
SetStatus(j, st) == status' = [status EXCEPT ![j] = st]
-----------------------------------------------------------------------------
(***************************************************************************)
(* claim_next_pending_job                                                  *)
(***************************************************************************)
\* Mutant: the claim reads without FOR UPDATE SKIP LOCKED.
ClaimReadsUnlocked(w) ==
  /\ IsAt(w, "idle")
  /\ \E j \in Job :
       /\ status[j] = "pending"
       /\ job' = [job EXCEPT ![w] = j] /\ count' = [count EXCEPT ![w] = attempts[j]]
  /\ MoveTo(w, "claim")
  /\ UNCHANGED <<row, result, accepted, bounds>>

ClaimReads(w) ==
  /\ IsAt(w, "idle")
  /\ \E j \in Job :
       /\ status[j] = "pending" /\ ~Locked(j)
       /\ job' = [job EXCEPT ![w] = j] /\ count' = [count EXCEPT ![w] = attempts[j]]
  /\ MoveTo(w, "claim")
  /\ UNCHANGED <<row, result, accepted, bounds>>

ClaimWrites(w) ==
  /\ IsAt(w, "claim")
  /\ LET j == job[w] IN
       /\ SetStatus(j, "reserved")
       /\ worker' = [worker EXCEPT ![j] = w]
       /\ attempts' = [attempts EXCEPT ![j] = count[w] + 1]
       /\ stale' = [stale EXCEPT ![j] = FALSE]
  /\ MoveTo(w, "owner")
  /\ UNCHANGED <<prompted, job, count, result, accepted, bounds>>

(***************************************************************************)
(* heartbeat_job: it checks status and owner on the row it read, and then  *)
(* refreshes heartbeat_at of whatever the row has become.                  *)
(***************************************************************************)
HeartbeatReads(w) ==
  /\ IsAt(w, "owner") /\ beats < MaxBeats
  /\ status[job[w]] = "reserved" /\ worker[job[w]] = w
  /\ MoveTo(w, "beat") /\ beats' = beats + 1
  /\ UNCHANGED <<row, job, count, result, accepted, crashes>>

HeartbeatWrites(w) ==
  /\ IsAt(w, "beat") /\ ~Locked(job[w])
  /\ stale' = [stale EXCEPT ![job[w]] = FALSE]
  /\ MoveTo(w, "owner")
  /\ UNCHANGED <<status, worker, attempts, prompted, job, count, result, accepted, bounds>>

\* heartbeat_at falls behind stale_before.
Ages(j) ==
  /\ status[j] = "reserved" /\ ~stale[j]
  /\ stale' = [stale EXCEPT ![j] = TRUE]
  /\ UNCHANGED <<status, worker, attempts, prompted, session, accepted, bounds>>
-----------------------------------------------------------------------------
(***************************************************************************)
(* submit_reserved_job                                                     *)
(***************************************************************************)
OwnReserved(w) == status[job[w]] = "reserved" /\ worker[job[w]] = w

\* evaluate_submission_readiness. The snapshot is compared with the nodes the engine has
\* loaded at this moment, so a job is fit at one time and not at another. An unready job
\* that is the worker's own goes on to be marked, any other is left alone.
Readiness(w) ==
  /\ IsAt(w, "owner")
  /\ IF OwnReserved(w)
     THEN \E fit \in BOOLEAN :
            MoveTo(w, IF fit /\ ~prompted[job[w]] THEN "ready" ELSE "unfit") /\ UNCHANGED job
     ELSE Finish(w)
  /\ UNCHANGED <<row, count, result, accepted, bounds>>

\* transition_job(validating), first half: it reads the row again and looks only at
\* the transition table; outside of it InvalidTransition ends the submission.
TransitionReads(w) ==
  /\ at[w] \in {"ready", "unfit"}
  /\ IF "validating" \in Valid[status[job[w]]]
     THEN MoveTo(w, IF IsAt(w, "ready") THEN "begin" ELSE "refuse") /\ UNCHANGED job
     ELSE Finish(w)
  /\ UNCHANGED <<row, count, result, accepted, bounds>>

\* ... second half: only status and last_state_change_at are written.
TransitionWrites(w) ==
  /\ at[w] \in {"begin", "refuse"} /\ ~Locked(job[w])
  /\ SetStatus(job[w], "validating")
  /\ result' = [result EXCEPT ![w] = IF IsAt(w, "refuse") THEN "validation_failed" ELSE @]
  /\ MoveTo(w, IF IsAt(w, "refuse") THEN "mark" ELSE "post")
  /\ UNCHANGED <<worker, attempts, prompted, stale, job, count, accepted, bounds>>

\* await submit_prompt: an answer with a prompt id, an exception or an answer without
\* one, node_errors. A client timeout is an exception although the engine took it.
PostReturns(w) ==
  /\ IsAt(w, "post")
  /\ \E r \in Outcome, taken \in BOOLEAN :
       /\ r = "submitted" => taken
       /\ r = "validation_failed" => ~taken
       /\ result' = [result EXCEPT ![w] = r]
       /\ accepted' = [accepted EXCEPT ![job[w]] = IF taken THEN @ + 1 ELSE @]
  /\ MoveTo(w, "mark")
  /\ UNCHANGED <<row, job, count, bounds>>

\* _mark_submitted and _mark_submission_failure write over whatever the row holds.
Marks(w) ==
  /\ IsAt(w, "mark") /\ ~Locked(job[w])
  /\ SetStatus(job[w], result[w])
  /\ prompted' = [prompted EXCEPT ![job[w]] = @ \/ result[w] = "submitted"]
  /\ Finish(w)
  /\ UNCHANGED <<worker, attempts, stale, count, result, accepted, bounds>>
-----------------------------------------------------------------------------
(***************************************************************************)
(* recover_stale_reserved_jobs                                             *)
(***************************************************************************)
\* Mutant: the sweep takes up every stale job that has an owner, not only reserved ones.
SweepReadsOwned ==
  /\ IsAt(Sweep, "idle")
  /\ \E j \in Job :
       /\ status[j] \in {"reserved", "validating"} /\ stale[j] /\ ~Locked(j)
       /\ job' = [job EXCEPT ![Sweep] = j] /\ count' = [count EXCEPT ![Sweep] = attempts[j]]
  /\ MoveTo(Sweep, "sweep")
  /\ UNCHANGED <<row, result, accepted, bounds>>

\* Mutant: jobs on their last attempt are never looked at.
SweepReadsRetryable ==
  /\ IsAt(Sweep, "idle")
  /\ \E j \in Job :
       /\ status[j] = "reserved" /\ stale[j] /\ ~Locked(j) /\ attempts[j] < MaxAttempts
       /\ job' = [job EXCEPT ![Sweep] = j] /\ count' = [count EXCEPT ![Sweep] = attempts[j]]
  /\ MoveTo(Sweep, "sweep")
  /\ UNCHANGED <<row, result, accepted, bounds>>

SweepReads ==
  /\ IsAt(Sweep, "idle")
  /\ \E j \in Job :
       /\ status[j] = "reserved" /\ stale[j] /\ ~Locked(j)
       /\ job' = [job EXCEPT ![Sweep] = j] /\ count' = [count EXCEPT ![Sweep] = attempts[j]]
  /\ MoveTo(Sweep, "sweep")
  /\ UNCHANGED <<row, result, accepted, bounds>>

\* Mutant: a job gets one attempt too many.
SweepWritesLate ==
  /\ IsAt(Sweep, "sweep")
  /\ LET j == job[Sweep] IN
       /\ SetStatus(j, IF count[Sweep] <= MaxAttempts THEN "pending" ELSE "timeout")
       /\ worker' = [worker EXCEPT ![j] = Nobody]
       /\ stale' = [stale EXCEPT ![j] = FALSE]
  /\ Finish(Sweep)
  /\ UNCHANGED <<attempts, prompted, count, result, accepted, bounds>>

SweepWrites ==
  /\ IsAt(Sweep, "sweep")
  /\ LET j == job[Sweep] IN
       /\ SetStatus(j, IF count[Sweep] < MaxAttempts THEN "pending" ELSE "timeout")
       /\ worker' = [worker EXCEPT ![j] = Nobody]
       /\ stale' = [stale EXCEPT ![j] = FALSE]
  /\ Finish(Sweep)
  /\ UNCHANGED <<attempts, prompted, count, result, accepted, bounds>>

(***************************************************************************)
(* transition_job on behalf of an operator.                                *)
(***************************************************************************)
OperatorReads ==
  /\ IsAt(Operator, "idle")
  /\ \E j \in Job, target \in Targets :
       /\ target \in Valid[status[j]]
       /\ job' = [job EXCEPT ![Operator] = j]
       /\ result' = [result EXCEPT ![Operator] = target]
  /\ MoveTo(Operator, "move")
  /\ UNCHANGED <<row, count, accepted, bounds>>

OperatorWrites ==
  /\ IsAt(Operator, "move") /\ ~Locked(job[Operator])
  /\ SetStatus(job[Operator], result[Operator])
  /\ Finish(Operator)
  /\ UNCHANGED <<worker, attempts, prompted, stale, count, result, accepted, bounds>>

\* The worker process dies: an open transaction is rolled back, its row lock is gone.
Crash(w) ==
  /\ crashes < MaxCrashes /\ ~IsAt(w, "idle")
  /\ crashes' = crashes + 1
  /\ Finish(w)
  /\ UNCHANGED <<row, count, result, accepted, beats>>
-----------------------------------------------------------------------------
Submits(w) == \/ Readiness(w) \/ TransitionReads(w) \/ TransitionWrites(w)
              \/ PostReturns(w) \/ Marks(w)

Sweeps == SweepReads \/ SweepWrites

\* Every job has been settled: what is left is output collection.
Settled(j) == status[j] \notin {"pending", "reserved", "validating"}

\* The system may stop once every job is settled or lost in validating.
QueueNext ==
  \/ \E w \in Worker : \/ ClaimReads(w) \/ ClaimWrites(w)
                       \/ HeartbeatReads(w) \/ HeartbeatWrites(w)
                       \/ Submits(w) \/ Crash(w)
  \/ \E j \in Job : Ages(j)
  \/ Sweeps \/ OperatorReads \/ OperatorWrites

QueueSpec == QueueInit /\ [][QueueNext]_queueVars

(***************************************************************************)
(* Fairness.  The worker loop goes on claiming, a worker gets round to     *)
(* submitting what it claimed, an operation that has begun ends, heartbeats*)
(* of a dead or hung worker age, and the sweep is run again and again.     *)
(***************************************************************************)
QueueFairness ==
  /\ \A w \in Worker : /\ SF_queueVars(ClaimReads(w)) /\ WF_queueVars(ClaimWrites(w))
                       /\ SF_queueVars(HeartbeatWrites(w)) /\ SF_queueVars(Submits(w))
  /\ \A j \in Job : WF_queueVars(Ages(j))
  /\ SF_queueVars(SweepReads) /\ WF_queueVars(SweepWrites)

FairQueueSpec == QueueSpec /\ QueueFairness
-----------------------------------------------------------------------------
(***************************************************************************)
(* Properties.                                                             *)
(***************************************************************************)

\* Once the engine has accepted a prompt for a job, no sweep, claim, cancellation or
\* late writer brings the row back to where another worker could claim it.
NeverRequeued ==
  \A j \in Job : accepted[j] > 0 => status[j] \notin {"pending", "reserved"}

\* Every prompt the engine has accepted for a job had a reservation of its own:
\* competing claims never submit a job twice, only a recovered reservation that was
\* claimed anew lets its late worker submit beside the new one.
OncePerReservation == \A j \in Job : accepted[j] <= attempts[j]

\* The queue keeps the promise of JobLifecycle.
PlaceOf(st) == CASE st = "pending" -> "waiting" [] st = "reserved" -> "reserved"
                 [] OTHER -> "left"

Promise == INSTANCE JobLifecycle WITH place <- [j \in Job |-> PlaceOf(status[j])]

KeepsLifecycle == Promise!Spec

\* Every job is settled in the end, or a worker died between its two commits and the
\* job stays in validating, which no sweep takes up.
EverySettled ==
  \A j \in Job : <>[](Settled(j) \/ (status[j] = "validating" /\ crashes > 0))

---------------------------------------------------------------------------
(* Stated by a comment or a document, not kept by the code: TLC refutes each. *)

\* Stale reservations are recovered without submitting a job to ComfyUI twice.
NeverSubmittedTwice == \A j \in Job : accepted[j] <= 1
=============================================================================
