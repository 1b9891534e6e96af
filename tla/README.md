# TLA+ models of Sineforge

Sineforge is a FastAPI application that plans films with language models and
renders them with a bundled ComfyUI engine. This directory holds TLA+ models of
the parts of it whose behaviour depends on the order in which things happen,
the TLC configurations that check them, and TLAPS proofs about them.
`PROJECT.json` ties every definition to the lines it models.

## 1. Inventory

| Component | State | Operations | Interacts with |
| --- | --- | --- | --- |
| Engine lifecycle (`services/comfy/engine.py`, `routes/health.py`, `main.py`) | process handle, phase, desired/closing flags, restart records, owner lock file, asyncio lock, background tasks | autostart, start, stop, scheduled restart, shutdown, status, recovery, exit monitor | engine process, submission gate, other backends through `engine-owner.lock` |
| Submission gate (same file) | one process-wide lock | taken by every POST /prompt and by every drain | Native Runner, Phase 6, Phase 7, controlled worker |
| Durable job queue (`services/queue`, `queue/state_machine.py`) | rows of `comfy_jobs` | claim, heartbeat, recover stale, transition | workers, controlled submission |
| Controlled submission (`services/comfy/submission.py`) | the job row between two commits | readiness, validating, POST, mark | queue, gate, engine |
| Native API Runner (`routes/native_api_runner.py`, `services/native_api_runner.py`) | SQLite table of submissions, memory caches, idempotency lock | run, get job, cancel | gate, engine queue and history |
| Planning runs (`services/planning`) | run and step rows with leases, proposals | claim, execute steps, cancel, finalise | language-model providers, proposal review |
| Production phases (`services/production_phases.py`, `planning/phase_iterations.py`) | one row per phase, an append-only ledger of versions under each | baseline, generate, revise, retain, approve, iterate, prepare images | planning runs, Phase 6 |
| Storyboard (`services/storyboard*.py`) | chapters, scenes, shots, characters, continuity and character links; approval state, immutable versions | create, edit, move, archive, reorder, link, approve | proposals, assets |
| Proposals (`proposal_service.py`, `proposal_apply.py`, `storyboard_mutations.py`) | `ai_proposal_records` | create, review, reject, apply (replaces the tree) | storyboard, planning runs |
| Media library (`services/reference_assets.py`) | asset rows, one managed file each, references of characters | upload, import, repair, rehydrate, approve, archive, delete, link | storyboard, Phase 6 and 7 |
| Operator (`services/agent`) | agent proposals, receipts, review notes | turn, approve, reject, undo | language-model provider, any record |
| Supervisor (`scripts/start_cineforge.py`) | lock file, child process trees, failure counts | acquire lock, start or reuse, watch, replace, stop | backend, frontend server |
| Phase 6 images, Phase 7 videos | batches of prompts, output files | submit, wait, attach | gate, engine, media library |
| GPU leases, voice previews (`services/runtime/gpu_leases.py`, `workers/voice_preview.py`) | lease rows, preview jobs | acquire, heartbeat, release, expire | nothing starts them |
| Sequence sheets, assembly | sheets, compiled frame ranges | import, compile, assemble | pure algorithms, file I/O |
| Headless orchestrator (`scripts/headless_orchestrator`) | ledger, child process | rounds with stop conditions | development tool |
| Catalogues, configuration, frontend, bridge nodes | files, JSON | list, patch, render | no shared protocol |

What is hard to test in this system: coroutines that cancel each other while one
of them stops a child process; a crash or a client timeout between what the
engine did and what the database says; reads before an `await`, a lock or a
flush used after it; two workers, backends or browser tabs on the same row; a
row and a file that no transaction covers; and promises that must be kept in
the end (a stop returns, a crashed engine comes back, a job is settled).
`PROJECT.json` lists these as hazards, each at its line with the properties that
would catch it.

What makes each component correct:

* engine: no engine process without an owner, no second engine, no interrupted
  work without force, no launch against the operator's wish, every stop returns,
  a crashed engine comes back;
* queue: one submission for a reservation, an accepted job is never claimable
  again, every job is settled;
* Native Runner: one prompt for an idempotency key, truthful replays, a cancel
  that tells the truth;
* planning: one worker at a time writes the plan, no answered step is asked
  again, one story per plan, one proposal unless a crash intervenes;
* phases: no version number twice, no phase above an unapproved one;
* plan and proposals: an approved story is what was approved, one baseline, an
  applied proposal names what it made;
* tree: what an author sees refers to nothing archived, continuity never runs in
  a circle;
* media library: the bytes of a stored asset are on disk, references name stored
  assets;
* Operator: a decision is final for whoever comes later, a note belongs to a
  receipt that can undo it;
* supervisor: one at a time, no process left behind, what it owns answers.

## 2. Modules

| Module | Component | Proofs | Runs |
| --- | --- | --- | --- |
| `ComfyEngine` | engine lifecycle and submission gate | `ComfyEngine_proofs` | `ComfyEngineSafety`, `ComfyEngineLive` |
| `JobLifecycle`, `SubmissionQueue` | promise of the durable queue, and the queue with the controlled submission that implements it | `ComfyEngine_proofs` | `SubmissionQueue` |
| `IdempotentRun`, `NativeRunner` | promise of POST /run, and the Native Runner that implements it | `NativeRunner_proofs` | `NativeRunner` |
| `DurableRun`, `PlanningRun` | promise of a planning run, and the planning engine that implements it | `PlanningRun_proofs` | `PlanningRun`, `PlanningRunLive` |
| `ProductionPhases` | phase rows and ledgers | `ProductionPhases_proofs` | `ProductionPhases` |
| `StoryboardPlan` | story, versions, proposals | `StoryboardPlan_proofs` | `StoryboardPlan` |
| `StoryTree` | the tree of a story | `StoryTree_proofs` | `StoryTree` |
| `ManagedAssets` | media library | `ManagedAssets_proofs` | `ManagedAssets` |
| `AgentProposals` | Operator | `AgentProposals_proofs` | `AgentProposals` |
| `Supervisor` | launcher of the local stack | `ComfyEngine_proofs` | `Supervisor` |

`MC<module>` instantiates a module for TLC. The type invariants are proved, all
of them, so that the runs leave them out. `ComfyEngine_proofs` extends three
modules (the engine, the queue whose jobs are submitted to it, and the
supervisor that starts it); hence the prefixes in `QueueSpec`, `QueueTypeOK`,
`SupervisorSpec` and the like. At the end of some modules stand formulas that quote a comment or a document; TLC refutes
each of them, and the section of the module says by what behaviour. They belong
to no run.

How the modules meet: `ComfyEngine` contains the producers that POST prompts,
`NativeRunner` and `SubmissionQueue` what such a producer does around its POST.
`PlanningRun` ends in a proposal, which `StoryboardPlan` reviews and applies;
`StoryTree` is what the apply does to the rows that `StoryboardPlan` sees as one
content. `ProductionPhases` has a planning run as one step between two reads.
`ManagedAssets` turns stories into drafts, which are edits in `StoryboardPlan`.
`Supervisor` starts the backend in which all the others run; its `EngineReady`
is the end of a start in `ComfyEngine`.

Every safety invariant and every action property that a run checks is proved,
and so are the three refinements: `NativeRunner` implements `IdempotentRun`,
`SubmissionQueue` implements `JobLifecycle`, `PlanningRun` implements
`DurableRun`. The six liveness properties are model-checked only (section 14).

## 3. The engine (`ComfyEngine.tla`)

An action is the code between two awaits of the backend's event loop. A task of
the model is a coroutine: the autostart, the recovery, the scheduled restart, a
stop request and the shutdown. `pc[t]` names the await where it is suspended:

| label | where in engine.py |
| --- | --- |
| `new` | created, not yet scheduled |
| `sleep` | recovery delay |
| `awaitX`, `XEnded` | `await task` after `task.cancel()` |
| `waitLock` | `async with self._lock` |
| `waitGate`, `idleCheck` | the gate, and `_ensure_idle` under it |
| `drain`, `failStop`, `cancelStop` | `_stop_locked` waiting for the child: after a request, a failed start, a cancelled start |
| `probeLive`, `probePort`, `waitReady` | `_start_locked`: live handle, port check, readiness poll |

`ahead` is the FIFO of the asyncio lock. `CancelTask` delivers a cancellation:
a start past its entry first stops its child, every other await unwinds. The
gate is a variable with a holder; `Checked` producers go through
`submission_guard`, the others take the bare gate. `owner` is the operating
system lock that other backends see (`Rival` takes it whenever it is free).
`Reboot` is the backend's end and new start; the kill-on-close job object ends
the child. Engine processes come up, crash, stop answering, finish prompts, and
may survive a kill (`Faults`).

Not modelled: the mode without ownership, `kill -9` of the backend, log files,
the length of delays, the limit of 32 restart records, the probe's wire format.
A `late` prompt is one whose client gave up; it may reach the engine after the
idle check, so `DrainNeverInterrupts` speaks of acknowledged prompts.

| Run | Question | Bounds |
| --- | --- | --- |
| `ComfyEngineSafety` | the safety properties in every interleaving | one process identity (reused once nobody refers to it), one checked and one bare producer, one accepted prompt, all operations and faults; 1.4 million states |
| `ComfyEngineLive` | stop returns, restarts are reported, crashes are recovered | one bare producer, start, stop, restart and crashes |

Why the bounds suffice: the manager has one handle, so one live identity and its
reuse show every confusion of old and new child; one prompt is enough to be
interrupted; every pair of the five tasks interleaves, with cancellations of
each by each.

Fairness (`FairSpec`): coroutines the loop can resume are resumed; a POST ends
(its client has a timeout); the monitor gets its turn on the FIFO lock (strong,
as its lock may be busy on and off). Two assumptions are about the
surroundings: producers do not retake the gate for ever at the 10 ms polls of a
waiting drain, and a launched engine becomes ready on some attempt.

`CrashRecovered` allows for a stop and for a failed restart, which cancels the
recovery without scheduling another one.

Stated and refuted: `NormalStopNeverInterrupts` ("Normal stop and restart
operations refuse to interrupt active or pending renders", README.md:34-35 of
the repository). A stop first cancels a start under way, and the cancelled start
ends its child with `_stop_locked(force=True)` (engine.py:724), outside the gate
and without asking the queue, although Phase 6 and 7 may have posted to it.
`RestartedChildRecovered` ("automatically recover a confirmed-dead BlokeyUI
child", README.md:83-84): nobody watches the child of a restart before it is
ready, and a failed restart is only recorded (engine.py:882). `status`
(engine.py:915) writes the phase "failed" from a handle read before its probe;
the phase is for display, except that `submission_guard` refuses prompts while
it says so.

### Proved

`ComfyEngine_proofs.tla`, for every set of processes, producers, operations and
faults, from `EngineConstants` only:

* `TypeCorrect`: one lemma per helper, one step per action.
* `LifecycleLockExclusive`. `LockExclusive` is not inductive; `LockInv` adds
  that a holder has nobody ahead (`HolderFirst`) and that of two contenders one
  is queued behind the other (`Queued`).
* `EngineNeverOrphaned` and `OwnerLockCoversEngine`, proved together as
  `ChildInv` with `StartOwned`: a task in the middle of a start holds the owner
  lock and, before its launch, no handle.
* `DrainInterruptsNothing` from `GateInv`: whoever is at or past an idle check
  holds the gate, so nobody is posting.

* `OnlyWantedLaunches` (`LaunchWanted`) from `WishInv`: the autostart and the
  recovery cancel nobody and drain nothing, so they are never at the awaits of
  the other tasks (`Alone`); an autostart on its way to the engine is wanted,
  as whoever withdraws the wish cancels it in the same step; a recovery about to
  launch is wanted, or whoever withdrew the wish still waits for the autostart
  (`WillCancelRecovery`).

Model-checked only: the liveness properties.

## 4. The queue (`JobLifecycle.tla`, `SubmissionQueue.tla`)

Every worker, the recovery sweep and an operator is a database session on
PostgreSQL in READ COMMITTED. An operation reads a row and writes it in a later
step; only the claim and the sweep lock the row in between (`Locked`), the
others decide on what they read. `pc` names the point between the two. The
transition table is `Valid`; that `comfy_rejected` is written from `validating`,
which the table does not allow, is in `Marks`, which like the code does not ask
the table. Ages of heartbeats are the flag `stale`. The operator requests any
of `Targets` that the table allows. SQLite, which has no row locks, is not
modelled. Nothing in the repository schedules the worker: `ClaimReads` to
`Marks` are what its public methods do when a process drives them.

`JobLifecycle` says what the queue promises of a job: it is handed out only
while it waits and at most `MaxAttempts` times, never waits again once it has
left the queue, and the engine accepts its prompts only after that, never more
of them than it was handed out. `KeepsLifecycle` is the refinement; `PlaceOf`
reads the place of a job off its status.

* `SubmissionQueue`: `NeverRequeued`, `OncePerReservation`, `KeepsLifecycle`, and
  under fairness `EverySettled`; one job, two workers, two attempts, one crash, one heartbeat.
  A second job would only be another row, as no operation reads two. Fairness:
  workers go on claiming and submitting what they hold, begun operations end,
  heartbeats of idle owners age, the sweep is repeated. The system may stop
  once the job is settled, so deadlock is not checked.
* Stated and refuted: `NeverSubmittedTwice` ("Stale reservations must be
  recoverable without double-submitting to ComfyUI", docs/SPRINT_1C_PLAN.md:64).
  The transition to validating (queue/service.py:261) reads the row without a
  lock and compares neither worker nor attempt: a worker whose reservation was
  recovered posts the job beside the one that claimed it next.

`EverySettled` excepts a worker that died in validating: no sweep takes such a
job up.

### Proved

In `ComfyEngine_proofs.tla`, for any workers, jobs, attempts, crashes and
heartbeats, from `QueueConstants` and `TargetsLeaveQueue` (no caller
of `transition_job` asks to put a job back or to reserve one). The inductive invariant
`QInv` relates the points of the sessions to the rows: a row that a claim or the
sweep has locked is as they read it (`LockKeeps`), and they are alone on it
(`LockAlone`); a waiting job has attempts left (`Retryable`); a job is out of the
queue before its prompt is posted (`OutOfQueue`); and the accepted prompts of a
job, with the workers that claimed it and may still post it (`Engaged`), are not
more than its reservations (`Counted`). That count is what makes
`OncePerReservation` inductive: a late worker beside its successor has a
reservation of its own. Theorems: `QueueNeverRequeues`, `QueueOncePerReservation`,
`QueueTypes`, and the refinement `QueueKeepsLifecycle`.

## 5. The Native Runner (`IdempotentRun.tla`, `NativeRunner.tla`)

`IdempotentRun` says what POST /run promises for an idempotency key: the engine
accepts one prompt for it, and every success names that prompt and was asked
with its workflow. `NativeRunner` is the route and its store: backends share the
SQLite table `row`, each has a lock and a cache in memory; a run request goes
through `waitLock`, `reserve`, `guard` and `post`; a viewer polls or cancels a
prompt. A POST in `flight` may be accepted, refused or lost, also after its
backend crashed or gave up. `KeepsPromise` is the refinement: `run` is read off
what the engine accepted (`Run`), `given` are the responses sent.

Assumed of ComfyUI: a prompt leaves the queue for the history in one step, one
prompt runs at a time, an answer with `node_errors` means that nothing was
queued (ComfyUI/HEADLESS_COMFYUI_API.md:69), the engine does not restart during
a cancel. Abstracted: client identifiers (the check against one's own prompt
always succeeds), `_native_prompt_clients`, the submission guard's reasons to
refuse (`ComfyEngine` models them). Not modelled: workflow library, uploads,
analysis, `free_memory`.

* `NativeRunner`: two backends, two requests, one viewer, one key, two
  workflows, two prompts, one crash, with symmetry (safety only). One key
  suffices as the code relates no two keys; two prompts let a duplicate or a
  foreign prompt exist.

Stated and refuted: `AcceptedDiscoverable` ("It makes an accepted render
discoverable after a backend restart", services/native_api_runner.py:320-322): a
crash or a timeout between acceptance and `complete_submission` leaves the row
without a prompt id. `InterruptsOwnOnly` ("test_native_cancel_is_restricted_to_
owned_prompt", tests/test_native_api_runner.py:706): after its last check
`cancel_job` posts the engine-wide interrupt, which may hit the next prompt.
`get_job` (:616) may store a state older than the one a cancel stored; no later
step reads it.

### Proved

`NativeRunner_proofs.tla`, for all constants from `RunnerConstants`. The
inductive invariant is `IInv`:

* `OnceInv`: a POST in flight or an accepted prompt implies a reservation, a
  reservation has at most one of them, and a request that has not posted has
  neither. It is what makes releasing a reservation safe.
* `TrueInv`: replies, rows and caches name a prompt accepted for that key and
  workflow; `ReadFirst`: pollers write only what they have read.

From it follow `RunnerTypeCorrect`, `OnePromptPerKey`, `CachesAgree` and
`RunRouteKeepsPromise` (every step is an `Accept`, a `Reply` or a stutter).
`CancelTellsTheTruth` adds `CancelInv`: a prompt only moves from the queue to
the history, so one found in neither, in this order, was deleted.

## 6. Planning runs (`DurableRun.tla`, `PlanningRun.tla`)

`DurableRun` says what a planning run promises whoever starts, cancels, resumes
or loses it: it is handed to one worker at a time, and to the next only after
the lease of the last has lapsed; while it is lapsed nothing is recorded; the
answer to a step is kept, repairs stay within their budget, a proposal is made
only when every step is answered and the run completes only with one; a completed
run records nothing more, and one that is over is never handed out again. It does
not promise that an end is the last word: a late worker may turn a completed run
into a failed one, and a worker whose run was canceled records what it has in
hand. `KeepsDurableRun` is the refinement; `StateOf` and `AnsweredSteps` read its
state off the rows.

`PlanningRun` is one run, from its claim to its end. `job[t]` is the request that starts the run
with claim token `t`, and then the worker it becomes; `pc` names its next
statement:

| place | where |
| --- | --- |
| `idle`, `claimed`, `refused` | the start route: `claim_run`, then `submit` |
| `queued` | waiting for a thread of the pool |
| `enter` .. `hash` | `execute_claimed_run` and the head of `_execute` |
| `load`, `renew` | `expire_all`, `get_run`, `_renew_execution_lease`; `phase` tells before what |
| `look`, `start` | the loop over the steps |
| `check`, `call`, `provider`, `settle`, `record` | `_run_step` |
| `after`, `propose`, `finish`, `complete` | checkpoint, proposal, end of the run |
| `boundary`, `failing` | `_record_boundary_failure`, `_fail_run` |

The database is the default one, SQLite: a read takes no lock, the first write
of a transaction locks out other writers until its commit. So an action is a
read alone or the writes of a transaction; between them others may commit, and
what a session read before is in `seen` and `head`. `SyncToken` are the callers
of `start_run`, which execute the run themselves and are not in the controller's
registry. A cancel request reads (`CancelReads`) and writes later.

The lease is a state (`none`, `live`, `expired`), not a clock. It can run out
(`LeaseExpires`) while its holder waits for a thread or for the provider, or is
gone; the assumption is that any other stretch between two renewals takes less
than the 600 s of the lease. The length of a provider call with its transport
retries is unbounded for safety.

Abstracted: the flag `cancel_requested` (committed with the status), the rows of
older attempts, checkpoints, events and usage; why an answer is invalid; the
routes of the ladder (`Ladder` counts them). Not modelled: the creation of runs
with its idempotency key, the retry route (a new run), and the replay of a
stored answer, which cannot happen, as the invocation and its step are completed
by one commit (`NoCallAfterSuccess`).

| Run | Question | Bounds |
| --- | --- | --- |
| `PlanningRun` | the safety properties and the refinement in every interleaving | three tokens, one of them synchronous, one cancel, two steps, one repair, one crash; 1.5 million states under the symmetry of the other two |
| `PlanningRunLive` | an accepted worker ends the run; only a crash repeats the proposal | two tokens, one step, one repair, one escalation, one crash |

Three tokens give a holder, its successor and a late third; a second step shows
skipping and resuming, and a third would only repeat them. Escalation creates a
new attempt exactly as a repair does, so only `PlanningRunLive` has one. All requests
may be used up and the run may have ended, so deadlock is not checked.

Fairness is that of the worker's own steps: threads run, a provider call ends by
its time limit, a claimed request reaches `submit`. Nothing is assumed of
cancels, edits, further starts, the clock or crashes.

What the code does not promise and the properties do not say: a worker that lost
its lease raises in the renewal, and the handler of `_execute` then fails the run
of its successor; a run refused by a full pool stays leased without a worker
until the lease runs out; a cancel that read the run before its completion
turns it into `canceled` afterwards. These are behaviours of the model.

Stated and refuted: `CancelSurvivesAnswer` ("Refresh after the provider returns
so this worker cannot overwrite the durable canceled run/step",
engine.py:1051-1053): the refresh and the recording of the answer (1128-1165)
are two transactions. A cancel that commits in between makes the worker raise
on its canceled step, and the handler fails the run its session remembers as
running.

### Proved

`PlanningRun_proofs.tla`, for all constants from `PlanningConstants` (the bound on
attempts also from `FiniteTokens`: a run is started finitely often), by
inductive invariants, each resting on the ones before it:

- `IInv`: types; `LeaseHeld`, that a worker between a renewal and its next wait
  (`Fenced`) has the lease, or the run has ended; `OneContext`, that a worker past
  the hash check plans the story of the run's creation. Every worker step is
  shown to have an `Effect` that preserves it. It yields `LeaseSafety`,
  `StorySafety` and `Fencing`.
- `EndInv`, how workers end: no run comes back from its end, so one that a
  session remembers as ended has ended; a synchronous caller cannot lose the
  lease before its first wait; a call made without the lease is made for a run
  that has ended. It yields `NoneAbandoned` and `CallsAreFenced`.
- `LInv`, what a proposal rests on: at most one worker is at a fenced place; who
  owns the run (has its token or is fenced) has passed only answered steps and
  asks only for one without an answer; an answered step stays completed or
  canceled as long as anybody goes on. A worker that lost the run may still be
  asking about an answered step, so the invariant speaks of owners only. It
  yields `ProposalsAreComplete` and `AnswersAreFinal`.
- `OnceInv`: with one proposal more than crashes, its worker is about to complete
  the run, or the run has ended with nobody about to propose. It yields
  `ProposedOnce`.

- `BInv`, the bounds: an attempt at a step beyond the first is a repair of the
  run or an escalation of one worker at that step, and a worker has spent at
  most its ladder there (`Used`). It yields the bound `MaxAttempt` in
  `TypeCorrect`.
- `CompletedAlone`: nobody is at a fenced place once the run is completed, for it
  is completed from one, where its worker is alone. With the others it yields
  the refinement `EngineKeepsDurableRun`: whoever records is at a fenced place, so
  the run is held or has ended (`FencedRecords`), and a worker that asks finds
  its step unanswered, so that no record undoes an answer.

Model-checked only: the liveness property of `PlanningRunLive`.

## 7. Production phases (`ProductionPhases.tla`)

`phase` are the rows of the phases, `versions` the ledger under each. A request
reads the phase rows once (`seen`: its session keeps the objects, and later
writes only the columns it changed with respect to them), then the number of
the newest version (`latest`), then writes. The first flush takes SQLite's write
lock and the commit releases it, so that from the flush on a request is one
step; before it everything interleaves. `first` is the phase from which a
baseline is due, `expected` the version number a client sends. `iterate` has a
planning run in its middle, which fails or completes; the rows are loaded again
after it, the lock of the phase is not looked at again.

* `ProductionPhases`: `LedgerNumbered`, `ApprovalChain`; two requests at a time,
  four in all, five phases (script, one planning phase, images, videos, and the
  one behind the picture lock). A request touches its own phase and the one
  above or below, so a second planning phase would repeat the first; two open
  requests give every pair of stale reads, four let a ledger be built, approved,
  rolled back and approved again. The story may receive no further request, so
  deadlock is not checked.

Stated and refuted: `RevisionFollowsWhatWasRead` (the conflict of
production_phases.py:1291, "reload before saving your revision"): the version a
client names is compared with the newest number, which is read again for the
insert; a version that comes in between is one its author has not seen.
`ApprovalIsKept` ("Mark a production phase approved and unlock the next phase"):
a collision of version numbers rolls back the approval the request had put in
its session, and the retry stores only its version (1841-1844): the ledger has
an approval, the row has not, and the next phase is unlocked.
`BaselineComesFirst` ("only when a phase has zero history", 1904): the history
is looked at before the write, so another request's version may come first.

### Proved

`ProductionPhases_proofs.tla`, for any number of requests and phases, from
`PhaseAssumption`. The inductive invariant `IInv` says that ledgers are numbered
and chained, that each row is sound (what it claims is backed by an approval in
a ledger) and that what a request has loaded is sound too (`RequestSound`).
Approvals in a ledger are never taken back (`Grown`), so a row read long ago
stays sound: this is why late writers do no harm. It yields `NumbersHaveNoGap`,
`NoPhaseSkipped` and `PictureStaysLocked`: nothing opens the last phase
(`PictureLock`, which no run repeats).

## 8. Plan, versions, proposals (`StoryboardPlan.tla`)

The rows of the tree count as one content (`live`); `story` is its approval
state and active version, `versions` the immutable ones, `proposals` the rows of
`ai_proposal_records`. A request reads the story row (`story`), then what it
decides on (`snapshot`, `existing`, `number`, `keep`), and writes at its end.
`rowLocks` chooses the database: PostgreSQL makes the second reader of the story
row FOR UPDATE wait, SQLite ignores the clause. A conflict of version numbers
repeats an approval, up to `MaxAttempts`. `outside` records that a shot's image
was written by `generate_shot`, which takes no story lock.

* `StoryboardPlan`: `LedgerConsistent`, `ApprovedBaseline`, `LocksSerialize`; two
  requests at a time, four in all, one proposal, two contents, two attempts,
  both databases. One proposal can be applied twice, reviewed late and rejected
  late; two contents tell changed from unchanged; the third attempt of the code
  only repeats the second. Deadlock is not checked, for the same reason as above.

Stated and refuted: `ApprovalSerialized` (storyboard.py:1462-1479, "SQLite
safely ignores the clause; its write serialization is paired with the bounded
retry"): on SQLite an edit that commits between the snapshot of an approval and
its write leaves the story approved with another content. What the model also
shows and no property excludes: a review that read the proposal before it was
applied writes `validated` over `applied`, after which it can be applied again.

### Proved

`StoryboardPlan_proofs.tla`, for all constants from `PlanAssumption` and for
both databases. `IInv` adds to the three properties what an open request may
rely on (`RequestSound`: the number it read is not above the newest one and, if
it is the newest one still, what it will supersede is what is current), what it
may rely on while it holds the row (`HolderSound`: the approved content is the
live one, the baseline it read is the current one), that one request holds it
(`OneHolder`), and `NoneUnlinked`. Theorems: `LedgerIsConsistent`,
`OneBaseline`, `LockSerializes`.

## 9. The tree of a story (`StoryTree.tla`)

`tree` holds chapters, scenes and shots with parent, position and, for a shot,
the shot it continues; `links` relates shots and characters. A request loads its
node and refuses an archived one (`Begin`), and only then locks the story; in
between another request may archive, move or replace it. What it loaded stays
as it was in its session (`seen`). The rest is read under the lock and is one
step. `ApplyProposal` is `upsert_hierarchy`: it archives what a proposal does
not name, and inserts, revives, moves and links the rest.

* `StoryTree`: `ContinuityAcyclic`, `NothingDangles`, no deadlock; two requests,
  one chapter, two scenes, two shots, one character; positions 0 and 2 (a gap)
  for shots and 0 and 1 for groups; proposals of one chapter, one scene and up
  to two shots. Two shots make a cycle and two scenes a move between parents;
  rows of different chapters meet only through their shots. 595009 states under
  symmetry.

Stated and refuted: `Acyclic` (storyboard.py:659, "Continuity links may not form
a cycle"). The routes check every link under the lock. A proposal may name an
existing shot twice: templates are repeated with the shot's identity
(planning/contracts.py:531, 657), the validator compares client identifiers
only (validator.py:333-388), and `upsert_hierarchy` (516-532) then writes the
link of the one onto the other. `repeated` records that this happened;
`ContinuityAcyclic` is about the rest.

### Proved

`StoryTree_proofs.tla`, for any finite tree, from `TreeAssumption`. `IInv`:
visible nodes have visible parents (`Rooted`), sources are visible
(`SourcesVisible`), linked characters are active (`LinksSound`), no set of
visible shots is closed under "continues" (`AcyclicIn`) unless a proposal
repeated a shot, and a request's node exists (`Loaded`). Acyclicity is stated by
sets, every nonempty one having a member whose source is outside it, which
needs no path and no induction; the walk of the code is stated the same way
(`Leads`: every set closed under sources that has the one has the other).
Theorems: `SourcesFormNoCycle`,
`VisibleIsComplete`.

## 10. The media library (`ManagedAssets.tla`)

`rows` and `files` share the fresh name (a UUID) of an upload; `links` are the
references of characters. An upload writes the file, then the row
(`file`, `insert`), and removes the file if the row cannot be written; a
duplicate is looked for before, and refused by the unique index after; a
deletion removes the row first and the file after its commit (`unlink`).
Repair and rehydration write a file for a row read before. A request may die
between any two steps, and bytes can be damaged from outside.

* `ManagedAssets`: `BytesKept`, `LinksHold`; two requests at a time, five in all,
  one slot, one content of each kind, three names, so that a content can be
  stored, deleted and stored again beside a late request of the first life.

`lost` records names whose bytes were damaged, and one behaviour of the code:
when the refresh after the commit fails, the handler of the failed upload
removes the file of a row that is stored. Stated and refuted: `DeletePolicy`
(reference_assets.py:1497, "Hard delete only when archived (or force=True for
draft assets)"): the deletion decides on a row it read, which may have been
approved since.

### Proved

`ManagedAssets_proofs.tla`, from `AssetAssumption`. `IInv` adds that a request
between file and row owns its name (`Owns`: no row, no other request of that
name), that a row it has read, if it is still there, has the same content, and
that every row has a given name. Theorems: `StoredBytesAreKept`,
`ReferencesAreStored`.

## 11. The Operator (`AgentProposals.tla`)

A turn flushes the user's message first, and so holds SQLite's write lock
during the call of the model (`lock`); no other request can write, though all
can read. Approval, rejection and undo read without a lock and write at their
end. `decisions` is a history of what was decided, with how many decisions
there were when the deciding request began.

* `AgentProposals`: `DecisionsOverlap`, `NotesMatchReceipts`; two requests at a
  time, five in all, two proposals, two keys, one edit of the target: two
  approvals of one proposal under one key and under two, against rejection,
  expiry, edits and undo.

Stated and refuted: `VersionBound` (docs/CONTEXTUAL_OPERATOR_AGENT.md:57-59,
"rejected if the target version changes"): the version of a project is its
creation time, and for other records it is compared before the write.

### Proved

`AgentProposals_proofs.tla`, from `AgentAssumption`: a decided proposal never
becomes undecided (`FinalDecisions`), and of a request past its read of a
pending proposal all decisions on it came after it began (`RequestSound`). Hence
`LateRequestsDecideNothing` and `NotesFollowReceipts`.

## 12. The supervisor (`Supervisor.tla`)

`run[s]` is one run of the launcher: its place, the service it is concerned
with and why (`boot`, `retry`, `watch`), what it started and the failures it
counts. `child` is the process tree it launched, `listener` whatever else holds
a port. `lock` is the lock file, by its content. Windows is assumed: it is the
platform the launcher is written for, an open file cannot be unlinked there, and
a job object ends a child's tree with its supervisor. A supervisor that dies
between `Popen` and `job.assign` leaves a child that is in no job (`Survivors`).

* `Supervisor`: `OneSupervisor`, `NoneLeftBehind`, and under fairness
  `OwnedAnswers`; two runs, backend and frontend, two failures before a
  replacement (three in the code: the counter only delays), two faults. A fault
  is a killed supervisor, a child that exits, hangs or survives its kill, a
  launch that fails, a timeout, a foreign program on a port; none follows a
  stolen lock. Both runs may have ended, so deadlock is not checked.

Fairness (`FairSupervisorSpec`): each run goes on with its own steps, a launched child and
its engine come up, waiting for a hung child times out, and a foreign program
leaves the port some time.

What the properties allow for: the lock is unlinked by name after it was read
(start_cineforge.py:633), so a launcher that read a stale lock may take that of
another one which replaced it meanwhile; `OneSupervisor` says that this is the
only way. Behaviours of the model nothing forbids: while one service is
recovered the other is not watched; a foreign listener may satisfy readiness
before the own child has tried to bind; a reused service is never restored; a
service whose first launch fails ends the run, a later failure is retried.

### Proved

In `ComfyEngine_proofs.tla`, for any number of launchers, services, failures and
faults, from `SupervisorAssumption`:

* `SupervisorTypes`.
* `NothingLeftBehind` from `TreesOf`: a tree is in the list of what its supervisor
  owns from the moment its job object exists, and the one before that moment
  belongs to the service being started, so that neither the stop before a
  relaunch nor the end of a run misses one.
* `OnlyOneSupervisor` from `LockFileInv`: one launcher at a time writes the file;
  who runs holds it, or lost it to a thief; and whom a launcher found running
  when it was started has ended or still runs, so that the lock it is about to
  unlink was taken after its start. The last is what tells a thief that read a
  stale lock from one that would steal from a supervisor it should have seen.

Model-checked only: `OwnedAnswers`.

## 13. Not modelled

`PROJECT.json` lists every component; these are left out as a whole:

* Phase 6 images and Phase 7 videos: a batch is one request that copies files,
  posts prompts and waits. Its use of the gate is in `ComfyEngine`, its files in
  `ManagedAssets`, its image links in `StoryboardPlan`. What remains is a loop
  over independent shots whose state is the output directory; it cannot be
  resumed. Two defects of that loop were met while reading: an integrity error
  for a second generated reference (phase_six_images.py:1741-1750) and a queue of
  videos posted in part (phase_seven_videos.py:415).
* GPU leases and the voice preview worker: single conditional statements, and no
  process that runs them, so there is no environment to compose them with.
* Sequence sheets, workflow catalogue and patching, agentless validation, bridge
  nodes: pure transformations of documents whose correctness is the content of
  text and JSON.
* Audio and FFmpeg, LM Studio, themes, runtime catalogue, profiles: commands and
  discovery, no protocol.
* Headless orchestrator and LTX scripts: sequential tools around the same routes.
* The frontend: it polls, and its requests are the environment of the models.

## 14. Limits

Six properties are checked on small instances only: `StopReturns`,
`RestartReported`, `CrashRecovered`, `EverySettled`, `AcceptedRunEnds` and
`OwnedAnswers`. They are liveness under fairness, which needs `ENABLED` and a
measure that decreases along a behaviour; neither is in reach of the prover. Where
a theorem speaks of sequences or finite sets it avoids induction over data.
Wire formats, wording, logging and layout are left out throughout.

To check: `tlc -config X.cfg M` for the runs of `PROJECT.json`, `tlapm M.tla` for
the eight `_proofs` modules.
