----------------------------- MODULE PlanningRun -----------------------------
(***************************************************************************)
(* One durable planning run: the claim with its lease, the worker that     *)
(* executes the steps from their checkpoints, cancellation, take-over and  *)
(* the proposal.  backend/app/services/planning/engine.py, repository.py,  *)
(* executor.py and state_machine.py, and the start and cancel routes of    *)
(* backend/app/api/routes/orchestration_runs.py.                           *)
(*                                                                         *)
(* Every request and every worker has its own session on the default       *)
(* database, SQLite, where reads take no lock and the first write of a     *)
(* transaction locks out all other writers until the commit.  An action is *)
(* therefore a read on its own, or the writes of a transaction up to its   *)
(* commit; between a read and those writes others may commit.  `seen' and  *)
(* `head' are what a session's identity map remembers of the run and of    *)
(* its step, and what the engine decides by until a commit or expire_all   *)
(* makes it forget them.                                                   *)
(***************************************************************************)
EXTENDS Naturals, FiniteSets

CONSTANTS
  Token,         \* claim tokens, one for each request to start the run
  SyncToken,     \* those of start_run, whose caller executes the run itself
  Canceler,      \* requests to cancel the run
  NoToken,       \* execution_claim_token is NULL
  NSteps,        \* steps the run was created with
  RepairBudget,  \* repair_budget of the run
  Ladder,        \* escalations select_route has left for a step
  MaxCrashes     \* bound on the process crashes of a behaviour

ASSUME PlanningConstants ==
  /\ SyncToken \subseteq Token /\ NoToken \notin Token
  /\ NSteps \in Nat \ {0} /\ RepairBudget \in Nat /\ Ladder \in Nat
  /\ MaxCrashes \in Nat

\* In a behaviour a run is started finitely often.
ASSUME FiniteTokens == IsFiniteSet(Token)

VARIABLES
  status,     \* orchestration_runs.status
  token,      \* execution_claim_token (the owner is a part of it)
  lease,      \* execution_lease_expires_at: NULL, ahead or past
  repairs,    \* repair_used
  step,       \* status of the latest attempt of each step
  attempt,    \* its attempt_number
  inv,        \* status of its provider invocation
  origin,     \* the story the step's result was planned from
  proposals,  \* number of proposals of the run
  story,      \* the story's content: as hashed at creation, or edited since
  job,        \* the start requests and the workers they become
  cancel,     \* the cancel requests
  crashes     \* bound counter

run  == <<status, token, lease, repairs>>
plan == <<step, attempt, inv, origin>>
db   == <<run, plan, proposals, story>>
vars == <<db, job, cancel, crashes>>

Steps       == 1 .. NSteps
MaxAttempt  == 1 + RepairBudget + Ladder * Cardinality(Token)
RunStatus   == {"pending", "running", "completed", "failed", "canceled"}
StepStatus  == {"pending", "running", "completed", "failed", "canceled"}
Terminal    == {"completed", "failed", "canceled"}
Content     == {"none", "created", "edited"}
Places      == {"idle", "claimed", "queued", "boundary", "enter", "context", "hash",
                "load", "renew", "look", "start", "check", "call", "provider",
                "settle", "record", "after", "propose", "finish", "complete",
                "failing", "done", "refused", "dead"}

TypeOK ==
  /\ status \in RunStatus /\ token \in Token \cup {NoToken}
  /\ lease \in {"none", "live", "expired"} /\ repairs \in 0 .. RepairBudget
  /\ step \in [Steps -> StepStatus] /\ attempt \in [Steps -> 1 .. MaxAttempt]
  /\ inv \in [Steps -> {"none", "pending", "succeeded", "failed", "canceled"}]
  /\ origin \in [Steps -> Content] /\ proposals \in Nat /\ story \in Content \ {"none"}
  /\ job \in [Token -> [pc : Places, phase : {"loop", "call", "settle"},
                        seq : 1 .. NSteps + 1, seen : RunStatus, head : StepStatus,
                        context : Content, rung : 0 .. Ladder,
                        result : {"none", "ok", "invalid", "transport"}, late : Nat]]
  /\ cancel \in [Canceler -> [pc : {"idle", "read", "done"},
                              step : [Steps -> StepStatus], attempt : [Steps -> Nat]]]
  /\ crashes \in 0 .. MaxCrashes

NewJob == [pc |-> "idle", phase |-> "loop", seq |-> 1, seen |-> "pending",
           head |-> "pending", context |-> "none", rung |-> 0,
           result |-> "none", late |-> 0]

\* create_run: the run is pending, its steps are seeded, nothing is leased
Init ==
  /\ status = "pending" /\ token = NoToken /\ lease = "none" /\ repairs = 0
  /\ step = [i \in Steps |-> "pending"] /\ attempt = [i \in Steps |-> 1]
  /\ inv = [i \in Steps |-> "none"] /\ origin = [i \in Steps |-> "none"]
  /\ proposals = 0 /\ story = "created"
  /\ job = [t \in Token |-> NewJob]
  /\ cancel = [c \in Canceler |-> [pc |-> "idle", step |-> step, attempt |-> attempt]]
  /\ crashes = 0

(***************************************************************************)
(* Helpers                                                                 *)
(***************************************************************************)
At(t, place)  == job[t].pc = place
Holds(t)      == status = "running" /\ token = t /\ lease = "live"
\* the future of t is in the registry of the controller and not done
Registered(t) == t \notin SyncToken
                 /\ job[t].pc \notin {"idle", "claimed", "done", "refused", "dead"}

Goto(t, place) == job' = [job EXCEPT ![t].pc = place]
\* the run as the session now has it, and where the worker goes with it
Remember(t, place) == job' = [job EXCEPT ![t].pc = place, ![t].seen = status]
Leave(t, place) == job' = [job EXCEPT ![t] = [NewJob EXCEPT !.pc = place, !.late = job[t].late]]

\* Mutant: transition_run keeps the lease.
TransitionLeased(target) ==
  /\ status' = target
  /\ UNCHANGED <<token, lease, repairs>>

\* transition_run: a terminal status also clears the lease
Transition(target) ==
  /\ status' = target
  /\ IF target \in Terminal
       THEN token' = NoToken /\ lease' = "none"
       ELSE UNCHANGED <<token, lease>>
  /\ UNCHANGED repairs

\* _fail_run by what the session remembers, and the worker returns
FailRun(t, seen) ==
  /\ IF seen \in Terminal THEN UNCHANGED run ELSE Transition("failed")
  /\ Leave(t, "done")

(***************************************************************************)
(* Start: claim_run in the request, then the controller or the caller      *)
(***************************************************************************)
\* Mutant: a running run is claimable whatever its lease.
ClaimAlways(t) ==
  /\ At(t, "idle") /\ status \in {"pending", "running"}
  /\ status' = "running" /\ token' = t /\ lease' = "live"
  /\ Goto(t, IF t \in SyncToken THEN "queued" ELSE "claimed")
  /\ UNCHANGED <<repairs, plan, proposals, story, cancel, crashes>>

Claim(t) ==
  /\ At(t, "idle")
  /\ \/ status = "pending"
     \/ status = "running" /\ lease # "live"
  /\ status' = "running" /\ token' = t /\ lease' = "live"
  /\ Goto(t, IF t \in SyncToken THEN "queued" ELSE "claimed")
  /\ UNCHANGED <<repairs, plan, proposals, story, cancel, crashes>>

\* submit: not the run's claimant any more, a worker still registered, or full
Refuse(t) ==
  /\ At(t, "claimed")
  /\ Leave(t, "refused")
  /\ UNCHANGED <<db, cancel, crashes>>

Submit(t) ==
  /\ At(t, "claimed") /\ token = t
  /\ ~ \E u \in Token : Registered(u)
  /\ Goto(t, "queued")
  /\ UNCHANGED <<db, cancel, crashes>>

(***************************************************************************)
(* The worker enters: execute_claimed_run and the head of _execute         *)
(***************************************************************************)
\* Mutant: a worker without its lease returns and records nothing.
NotLeasedQuiet(t) == Leave(t, "done")

NotLeased(t) == IF t \in SyncToken THEN Leave(t, "done") ELSE Goto(t, "boundary")

Begin(t) ==
  /\ At(t, "queued")
  /\ CASE status \in Terminal -> Leave(t, "done")
       [] Holds(t)            -> Goto(t, "enter")
       [] OTHER               -> NotLeased(t)
  /\ UNCHANGED <<db, cancel, crashes>>

Enter(t) ==
  /\ At(t, "enter")
  /\ IF Holds(t) THEN Goto(t, "context") ELSE NotLeased(t)
  /\ UNCHANGED <<db, cancel, crashes>>

\* _record_boundary_failure reads the run in a session of its own
Boundary(t) ==
  /\ At(t, "boundary")
  /\ IF status \in Terminal THEN Leave(t, "done") ELSE Remember(t, "failing")
  /\ UNCHANGED <<db, cancel, crashes>>

BuildContext(t) ==
  /\ At(t, "context")
  /\ job' = [job EXCEPT ![t].pc = "hash", ![t].seen = status, ![t].context = story]
  /\ UNCHANGED <<db, cancel, crashes>>

\* Mutant: the hash is compared for fresh runs only.
CheckHashFresh(t) ==
  /\ At(t, "hash")
  /\ IF story = "created" \/ \E i \in Steps : step[i] = "completed"
       THEN Goto(t, "load") /\ UNCHANGED run
       ELSE FailRun(t, job[t].seen)
  /\ UNCHANGED <<plan, proposals, story, cancel, crashes>>

\* the story's hash is compared with the one of the run's creation
CheckHash(t) ==
  /\ At(t, "hash")
  /\ IF story = "created"
       THEN Goto(t, "load") /\ UNCHANGED run
       ELSE FailRun(t, job[t].seen)
  /\ UNCHANGED <<plan, proposals, story, cancel, crashes>>

(***************************************************************************)
(* expire_all, get_run and the renewal: before each step or the proposal   *)
(* (loop), before each provider call (call) and after it (settle)          *)
(***************************************************************************)
Load(t) ==
  /\ At(t, "load")
  /\ Remember(t, "renew")
  /\ UNCHANGED <<db, cancel, crashes>>

AfterRenewal == [loop |-> "look", call |-> "check", settle |-> "settle"]

\* Mutant: the renewal is a heartbeat whose result nobody reads.
RenewBlind(t) ==
  /\ At(t, "renew")
  /\ Goto(t, AfterRenewal[job[t].phase])
  /\ UNCHANGED <<db, cancel, crashes>>

\* Mutant: a worker that lost its lease returns and leaves the run alone.
RenewQuiet(t) ==
  /\ At(t, "renew")
  /\ IF Holds(t) THEN Goto(t, AfterRenewal[job[t].phase]) ELSE Leave(t, "done")
  /\ UNCHANGED <<db, cancel, crashes>>

\* A lost lease raises, and the handler fails the run it remembers.
Renew(t) ==
  /\ At(t, "renew")
  /\ IF Holds(t)
       THEN Goto(t, AfterRenewal[job[t].phase]) /\ UNCHANGED run
       ELSE FailRun(t, job[t].seen)
  /\ UNCHANGED <<plan, proposals, story, cancel, crashes>>

(***************************************************************************)
(* The loop over the steps, and _run_step                                  *)
(***************************************************************************)
\* Mutant: a step found running is taken for done.
LookSkipsRunning(t) ==
  /\ At(t, "look")
  /\ LET i == job[t].seq IN
     CASE i > NSteps /\ status = "running" -> Remember(t, "propose")
       [] status = "canceled" \/ (i > NSteps /\ status # "running") -> Leave(t, "done")
       [] i <= NSteps /\ status # "canceled" /\ step[i] # "pending" ->
            job' = [job EXCEPT ![t].pc = "load", ![t].seq = i + 1]
       [] OTHER -> job' = [job EXCEPT ![t].pc = "start", ![t].seen = status,
                                      ![t].head = step[i], ![t].rung = 0]
  /\ UNCHANGED <<db, cancel, crashes>>

\* The run and the step are read again: a canceled run ends the worker, a
\* finished step is skipped, and after the last one the run must be running.
Look(t) ==
  /\ At(t, "look")
  /\ LET i == job[t].seq IN
     CASE i > NSteps /\ status = "running" -> Remember(t, "propose")
       [] i > NSteps /\ status # "running" -> Leave(t, "done")
       [] i <= NSteps /\ status = "canceled" -> Leave(t, "done")
       [] i <= NSteps /\ status # "canceled" /\ step[i] \in {"completed", "canceled"} ->
            job' = [job EXCEPT ![t].pc = "load", ![t].seq = i + 1]
       [] i <= NSteps /\ status # "canceled" /\ step[i] = "failed" -> Remember(t, "failing")
       [] OTHER -> job' = [job EXCEPT ![t].pc = "start", ![t].seen = status,
                                      ![t].head = step[i], ![t].rung = 0]
  /\ UNCHANGED <<db, cancel, crashes>>

\* The time budget is spent, no route is left or the proposal is refused: the
\* handler of _execute fails the run it remembers.
Raise(t) ==
  /\ job[t].pc \in {"start", "call", "propose"}
  /\ FailRun(t, job[t].seen)
  /\ UNCHANGED <<plan, proposals, story, cancel, crashes>>

Fail(t) ==
  /\ At(t, "failing")
  /\ FailRun(t, job[t].seen)
  /\ UNCHANGED <<plan, proposals, story, cancel, crashes>>

\* a pending step is started and committed
StartStep(t) ==
  /\ At(t, "start") /\ job[t].head = "pending"
  /\ step' = [step EXCEPT ![job[t].seq] = "running"]
  /\ job' = [job EXCEPT ![t].pc = "load", ![t].phase = "call"]
  /\ UNCHANGED <<run, attempt, inv, origin, proposals, story, cancel, crashes>>

\* For a running step of an earlier worker only current_step is written: the
\* transaction stays open over the reading of the run and the renewal.
ResumeStep(t) ==
  /\ At(t, "start") /\ job[t].head = "running"
  /\ IF Holds(t)
       THEN /\ job' = [job EXCEPT ![t].pc = "check", ![t].phase = "call"]
            /\ UNCHANGED run
       ELSE FailRun(t, status)
  /\ UNCHANGED <<plan, proposals, story, cancel, crashes>>

Check(t) ==
  /\ At(t, "check")
  /\ IF status = "canceled" THEN Leave(t, "done") ELSE Remember(t, "call")
  /\ UNCHANGED <<db, cancel, crashes>>

\* create_invocation returns the attempt's row if it has one; then invoke
Call(t) ==
  /\ At(t, "call")
  /\ LET i == job[t].seq IN
       inv' = [inv EXCEPT ![i] = IF @ = "none" THEN "pending" ELSE @]
  /\ job' = [job EXCEPT ![t].pc = "provider",
                        ![t].late = IF Holds(t) THEN @ ELSE @ + 1]
  /\ UNCHANGED <<run, step, attempt, origin, proposals, story, cancel, crashes>>

\* Mutant: the answer is recorded without a renewal after the call.
ReturnUnfenced(t) ==
  /\ At(t, "provider")
  /\ \E r \in {"ok", "invalid", "transport"} :
       job' = [job EXCEPT ![t].pc = "settle", ![t].result = r]
  /\ UNCHANGED <<db, cancel, crashes>>

Return(t) ==
  /\ At(t, "provider")
  /\ \E r \in {"ok", "invalid", "transport"} :
       job' = [job EXCEPT ![t].pc = "load", ![t].phase = "settle", ![t].result = r]
  /\ UNCHANGED <<db, cancel, crashes>>

\* the time budget is spent between two transport retries
RetryBudgetSpent(t) ==
  /\ At(t, "provider")
  /\ IF status \in Terminal THEN Leave(t, "done") ELSE Remember(t, "failing")
  /\ UNCHANGED <<db, cancel, crashes>>

Settle(t) ==
  /\ At(t, "settle")
  /\ LET i == job[t].seq IN
     IF status = "canceled"
       THEN /\ inv' = [inv EXCEPT ![i] = IF @ = "pending" THEN "canceled" ELSE @]
            /\ Leave(t, "done")
       ELSE Remember(t, "record") /\ UNCHANGED inv
  /\ UNCHANGED <<run, step, attempt, origin, proposals, story, cancel, crashes>>

\* Mutant: the step's completion is left to a later commit.
RecordInvocationOnly(t) ==
  /\ At(t, "record") /\ job[t].result = "ok"
  /\ inv' = [inv EXCEPT ![job[t].seq] = "succeeded"]
  /\ Goto(t, "after")
  /\ UNCHANGED <<run, step, attempt, origin, proposals, story, cancel, crashes>>

\* One transaction writes the invocation, then the step as it is now.  A step
\* that was ended meanwhile raises, and the handler fails the remembered run in
\* the same transaction; if that run is terminal nothing is committed.
RecordSuccess(t) ==
  /\ At(t, "record") /\ job[t].result = "ok"
  /\ LET i == job[t].seq IN
     IF step[i] \in {"running", "completed"}
       THEN /\ inv' = [inv EXCEPT ![i] = "succeeded"]
            /\ step' = [step EXCEPT ![i] = "completed"]
            /\ origin' = [origin EXCEPT ![i] = job[t].context]
            /\ Goto(t, "after") /\ UNCHANGED run
       ELSE /\ inv' = [inv EXCEPT ![i] = IF job[t].seen \in Terminal THEN @ ELSE "succeeded"]
            /\ FailRun(t, job[t].seen) /\ UNCHANGED <<step, origin>>
  /\ UNCHANGED <<attempt, proposals, story, cancel, crashes>>

\* Mutant: the budget is compared after the repair is counted.
CanRepairOnce == repairs <= RepairBudget
CanRepair == repairs < RepairBudget
CanEscalate(t) == job[t].rung < Ladder

\* transport error, or an invalid answer with no repair or escalation left
RecordFailure(t) ==
  /\ At(t, "record")
  /\ \/ job[t].result = "transport"
     \/ job[t].result = "invalid" /\ ~CanRepair /\ ~CanEscalate(t)
  /\ LET i == job[t].seq IN
     IF job[t].seen \in Terminal
       THEN UNCHANGED plan
       ELSE /\ inv' = [inv EXCEPT ![i] = "failed"]
            /\ step' = [step EXCEPT ![i] = IF @ = "running" THEN "failed" ELSE @]
            /\ UNCHANGED <<attempt, origin>>
  /\ FailRun(t, job[t].seen)
  /\ UNCHANGED <<proposals, story, cancel, crashes>>

\* semantic repair, escalation or both: a new attempt of the step
Repair(t) ==
  /\ At(t, "record") /\ job[t].result = "invalid"
  /\ CanRepair \/ CanEscalate(t)
  /\ LET i == job[t].seq IN
       /\ step' = [step EXCEPT ![i] = "running"]
       /\ attempt' = [attempt EXCEPT ![i] = @ + 1]
       /\ inv' = [inv EXCEPT ![i] = "none"]
  /\ repairs' = IF CanRepair THEN repairs + 1 ELSE repairs
  /\ job' = [job EXCEPT ![t].pc = "load", ![t].phase = "call",
                        ![t].rung = IF CanEscalate(t) THEN @ + 1 ELSE @]
  /\ UNCHANGED <<status, token, lease, origin, proposals, story, cancel, crashes>>

\* the run is read again, and the checkpoint written
After(t) ==
  /\ At(t, "after")
  /\ IF status = "canceled" THEN Leave(t, "done")
       ELSE job' = [job EXCEPT ![t].pc = "load", ![t].phase = "loop",
                               ![t].seq = @ + 1]
  /\ UNCHANGED <<db, cancel, crashes>>

\* _finalize_proposal commits the proposal
Propose(t) ==
  /\ At(t, "propose")
  /\ proposals' = proposals + 1
  /\ Goto(t, "finish")
  /\ UNCHANGED <<run, plan, story, cancel, crashes>>

\* transition_run(completed) reads the run; a terminal one is left alone
Finish(t) ==
  /\ At(t, "finish")
  /\ IF status \in Terminal THEN Leave(t, "done") ELSE Remember(t, "complete")
  /\ UNCHANGED <<db, cancel, crashes>>

Complete(t) ==
  /\ At(t, "complete")
  /\ Transition("completed")
  /\ Leave(t, "done")
  /\ UNCHANGED <<plan, proposals, story, cancel, crashes>>

(***************************************************************************)
(* Cancel requests, the story's editor, the clock and the process          *)
(***************************************************************************)
CancelReads(c) ==
  /\ cancel[c].pc = "idle" /\ status \notin Terminal
  /\ cancel' = [cancel EXCEPT ![c] = [pc |-> "read", step |-> step, attempt |-> attempt]]
  /\ UNCHANGED <<db, job, crashes>>

\* cancel_run ends the attempts it has read as open, and the run
CancelWrites(c) ==
  /\ cancel[c].pc = "read"
  /\ step' = [i \in Steps |->
                IF /\ cancel[c].step[i] \in {"pending", "running"}
                   /\ cancel[c].attempt[i] = attempt[i]
                THEN "canceled" ELSE step[i]]
  /\ Transition("canceled")
  /\ cancel' = [cancel EXCEPT ![c].pc = "done"]
  /\ UNCHANGED <<attempt, inv, origin, proposals, story, job, crashes>>

EditStory ==
  /\ story = "created" /\ story' = "edited"
  /\ UNCHANGED <<run, plan, proposals, job, cancel, crashes>>

(***************************************************************************)
(* Ten minutes without a renewal.  A worker that neither queues for a      *)
(* thread nor waits for a provider takes its next step within that time.   *)
(***************************************************************************)
Waits(t) == \/ job[t].pc \in {"provider", "done", "refused", "dead"}
            \/ At(t, "queued") /\ t \notin SyncToken

LeaseExpires ==
  /\ lease = "live" /\ Waits(token)
  /\ lease' = "expired"
  /\ UNCHANGED <<status, token, repairs, plan, proposals, story, job, cancel, crashes>>

Crash ==
  /\ crashes < MaxCrashes /\ crashes' = crashes + 1
  /\ job' = [t \in Token |->
               IF job[t].pc \in {"idle", "done", "refused", "dead"} THEN job[t]
               ELSE [NewJob EXCEPT !.pc = "dead", !.late = job[t].late]]
  /\ UNCHANGED <<db, cancel>>

\* a worker's thread, its request handler and the provider's own time limit
Work(t) ==
  \/ Submit(t) \/ Refuse(t) \/ Begin(t) \/ Enter(t) \/ Boundary(t)
  \/ BuildContext(t) \/ CheckHash(t) \/ Load(t) \/ Renew(t) \/ Look(t)
  \/ Raise(t) \/ Fail(t) \/ StartStep(t) \/ ResumeStep(t) \/ Check(t) \/ Call(t)
  \/ Return(t) \/ RetryBudgetSpent(t) \/ Settle(t) \/ RecordSuccess(t)
  \/ RecordFailure(t) \/ Repair(t) \/ After(t) \/ Propose(t) \/ Finish(t)
  \/ Complete(t)

Next ==
  \/ \E t \in Token : Claim(t) \/ Work(t)
  \/ \E c \in Canceler : CancelReads(c) \/ CancelWrites(c)
  \/ EditStory \/ LeaseExpires \/ Crash

Spec     == Init /\ [][Next]_vars
Fairness == \A t \in Token : WF_vars(Work(t))
FairSpec == Spec /\ Fairness

(***************************************************************************)
(* Properties                                                              *)
(***************************************************************************)
\* A run has a claimant exactly while it is running: every way a run can end,
\* by its worker, by one that lost it or by a cancel, gives the lease up, and
\* nothing re-leases a run that has ended (the guard of acquire_execution_lease).
LeaseFollowsRun == (token # NoToken) <=> (status = "running")

\* A worker that returns leaves an ended run behind, or one that another has
\* claimed: whatever it finds lost, canceled or edited, it never abandons a run
\* that reads as running in its own name.
WorkerEndsRun ==
  \A t \in Token : At(t, "done") => status \in Terminal \/ token \notin {t, NoToken}

\* Every result a run has recorded was planned from the story the run was
\* created for, over edits, crashes and resumes (the hash check of _execute).
OneStory == \A i \in Steps : step[i] = "completed" => origin[i] = "created"

\* A completed run has a proposal, and every one of its steps was answered:
\* no step a cancel ended is passed over on the way to the proposal.
ProposalComplete ==
  proposals > 0 \/ status = "completed" =>
    /\ proposals > 0
    /\ \A i \in Steps : inv[i] = "succeeded"

\* Only a crash between the proposal's commit and the run's makes the resumed
\* run propose again.
ProposedOncePerLife == proposals <= 1 + crashes

\* After the run was ended or given to another, a worker makes at most the one
\* provider call it was about to make: every call has its renewal before it.
OneLateCall == \A t \in Token : job[t].late <= 1

\* While the lease is another worker's, a worker that lost it records no
\* result, starts no step and files no proposal (_renew_execution_lease after
\* every wait).
FencedByLease ==
  [][\A t \in Token :
       job'[t] # job[t] /\ <<plan, proposals>>' # <<plan, proposals>>
         => token \in {t, NoToken}]_vars

\* No step is sent to a provider again once an answer to it was recorded.
NoCallAfterSuccess ==
  [][\A t \in Token : ~ At(t, "provider") /\ job'[t].pc = "provider"
       => inv[job[t].seq] # "succeeded"]_vars

\* The run as DurableRun sees it: its state, and what it was answered.
StateOf == CASE status = "pending" -> "waiting"
             [] status = "running" /\ lease = "live" -> "held"
             [] status = "running" /\ lease # "live" -> "lapsed"
             [] status = "completed" -> "completed"
             [] OTHER -> "ended"

AnsweredSteps == {i \in Steps : inv[i] = "succeeded"}

Promise == INSTANCE DurableRun WITH
  Worker <- Token, NoWorker <- NoToken, state <- StateOf, holder <- token,
  answered <- AnsweredSteps

\* Every step of the engine, of its workers and of the requests is a step of
\* DurableRun or changes nothing of it: one holder at a time, no record while the
\* lease has lapsed, answers that stay, and no second life of a run that is over.
KeepsDurableRun == Promise!Spec

\* A worker the pool has accepted ends its run, if the process lives.
AcceptedRunEnds ==
  \A t \in Token : At(t, "queued") ~> (status \in Terminal \/ At(t, "dead"))

---------------------------------------------------------------------------
(* Stated by a comment or a document, not kept by the code: TLC refutes each. *)

\* "Refresh after the provider returns so this worker cannot overwrite the
\* durable canceled run/step" (engine.py:1052): the transaction that records an
\* answer leaves a canceled run and its canceled steps as they are.
CancelSurvivesAnswer ==
  [][\A t \in Token :
       status = "canceled" /\ At(t, "record") /\ job'[t] # job[t]
         => /\ status' = "canceled"
            /\ \A i \in Steps : step[i] = "canceled" => step'[i] = "canceled"]_vars
=============================================================================
