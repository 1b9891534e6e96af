--------------------------- MODULE ProductionPhases ---------------------------
(***************************************************************************)
(* The production phase ledger of one story                                *)
(* (backend/app/services/production_phases.py): one row per phase, and an  *)
(* append-only list of versions under each row, written by concurrent HTTP *)
(* requests that share nothing but the database.                           *)
(*                                                                         *)
(* A request reads the phase rows once (its session keeps the objects it   *)
(* loaded), later reads the number of the newest version, and then writes: *)
(* the first flush takes SQLite's write lock and the commit releases it,   *)
(* so from the flush on a request is one step, and everything before it    *)
(* interleaves with the other requests.  The session writes the columns it *)
(* changed with respect to what it LOADED, and only those.                 *)
(*                                                                         *)
(* Left out: the content of the packages and snapshots, the QA criteria    *)
(* (a generated package passes or not), the audit rows, the story's own    *)
(* columns and the reason strings.                                         *)
(***************************************************************************)
EXTENDS Integers, Sequences

CONSTANTS Requests,        \* HTTP requests that may be open at the same time
          LastPhase,       \* 8 in the code: the phase behind the picture lock
          PlanningPhases,  \* 2..5 in the code: a planning run can iterate them
          ImagePhase,      \* 6 in the code; the phase after it makes the videos
          MaxRequests      \* bound: the requests the story receives in all

Phases == 1 .. LastPhase
VideoPhase == ImagePhase + 1

ASSUME PhaseAssumption ==
    /\ LastPhase \in Nat
    /\ ImagePhase \in 2 .. (LastPhase - 2)
    /\ PlanningPhases \subseteq 2 .. (ImagePhase - 1)
    /\ MaxRequests \in Nat

VARIABLES phase,      \* the rows of production_phases
          versions,   \* the rows of production_phase_versions, by phase
          req,        \* the open requests
          received    \* how many requests have begun

vars == <<phase, versions, req, received>>

Lifecycle == {"not_started", "drafting", "needs_revision",
              "ready_for_review", "approved"}
Sources == {"baseline", "manual", "generated", "revision"}
Ops == {"none", "open", "generate", "revise", "retain", "approve", "iterate",
        "prepare"}

PhaseRow == [lifecycle  : Lifecycle,
             approvedAt : BOOLEAN,
             locked     : BOOLEAN,
             stale      : BOOLEAN,
             current    : Nat]           \* current_version_number, 0 for NULL

\* "onto" is a history field: the version the author of a revision had read.
VersionRow == [number : Nat, source : Sources, lifecycle : Lifecycle,
               onto : Nat]

RequestState == [op       : Ops,
                 pc       : {"idle", "check", "run", "read", "write"},
                 k        : Phases,
                 seen     : [Phases -> PhaseRow],  \* the objects of the session
                 first    : 0 .. LastPhase,        \* first phase to baseline
                 latest   : Nat,                   \* newest version read
                 expected : Nat]                   \* expected_version_number

TypeOK ==
    /\ phase \in [Phases -> PhaseRow]
    /\ versions \in [Phases -> Seq(VersionRow)]
    /\ req \in [Requests -> RequestState]
    /\ received \in 0 .. MaxRequests

---------------------------------------------------------------------------
(* Rows and sessions *)

\* _latest_version: the number of the newest version, 0 when there is none.
Latest(rows) == IF rows = <<>> THEN 0 ELSE rows[Len(rows)].number

Row(number, source, lifecycle, onto) ==
    [number |-> number, source |-> source, lifecycle |-> lifecycle,
     onto |-> onto]

BaselineRow(number, lifecycle) == Row(number, "baseline", lifecycle, 0)

\* What an UPDATE leaves in the row: a column is written when the session
\* changed it with respect to the object it loaded; appending version n also
\* sets current_version_number.
Saved(now, loaded, new, n) ==
    [lifecycle  |-> IF new.lifecycle # loaded.lifecycle
                    THEN new.lifecycle ELSE now.lifecycle,
     approvedAt |-> IF new.approvedAt # loaded.approvedAt
                    THEN new.approvedAt ELSE now.approvedAt,
     locked     |-> IF new.locked # loaded.locked
                    THEN new.locked ELSE now.locked,
     stale      |-> IF new.stale # loaded.stale THEN new.stale ELSE now.stale,
     current    |-> IF n = 0 THEN now.current ELSE n]

FirstPhaseRow ==
    [lifecycle |-> "not_started", approvedAt |-> FALSE, locked |-> FALSE,
     stale |-> FALSE, current |-> 0]

Idle == [op |-> "none", pc |-> "idle", k |-> 1,
         seen |-> [j \in Phases |-> FirstPhaseRow],
         first |-> 0, latest |-> 0, expected |-> 0]

\* ensure_contract: the rows exist, only the first phase is unlocked.  The
\* pipeline has been read before, which left a baseline in each phase, or not.
Init ==
    /\ \E opened \in BOOLEAN :
         /\ phase = [k \in Phases |->
                       [FirstPhaseRow EXCEPT
                          !.locked = (k # 1),
                          !.current = IF opened THEN 1 ELSE 0]]
         /\ versions = [k \in Phases |->
                          IF opened
                          THEN <<BaselineRow(1, "not_started")>>
                          ELSE <<>>]
    /\ req = [r \in Requests |-> Idle]
    /\ received = 0

\* n is the first phase ensure_phase_baselines finds without history, 0 is none.
FirstWithoutHistory(n) ==
    /\ \A j \in Phases : j < n \/ n = 0 => versions[j] # <<>>
    /\ n # 0 => versions[n] = <<>>

\* ensure_phase_baselines: the insert for the first phase without history takes
\* the write lock, and the later phases are counted under it.
Baselined(r) ==
    LET needs(k) == \/ k = req[r].first
                    \/ k > req[r].first /\ versions[k] = <<>>
    IN [k \in Phases |->
          IF req[r].first # 0 /\ needs(k)
          THEN Append(versions[k],
                      BaselineRow(Latest(versions[k]) + 1,
                                  req[r].seen[k].lifecycle))
          ELSE versions[k]]

\* The number of the version a request has appended to phase k, 0 for none.
Appended(k, rows) == IF rows[k] = versions[k] THEN 0 ELSE Latest(rows[k])

\* A baseline insert that lost a race is rolled back and retried, which reloads
\* the session's objects; one that read after the winner's commit is not.
Reloads(r) ==
    IF req[r].first # 0 /\ versions[req[r].first] # <<>>
    THEN BOOLEAN ELSE {FALSE}

Loaded(r, reload) == IF reload THEN phase ELSE req[r].seen

\* Mutant: the table has no unique constraint.
NeverCollides(r) == FALSE

\* The unique constraint on (phase, version number) refuses the insert.
Collides(r) ==
    /\ req[r].first = 0
    /\ \E i \in 1 .. Len(versions[req[r].k]) :
          versions[req[r].k][i].number = req[r].latest + 1

\* The number an append uses: one more than the newest version it read, which
\* it reads under the lock after a baseline of its own or after a rollback.
Number(r, rows) ==
    1 + IF req[r].first # 0 \/ Collides(r) THEN Latest(rows) ELSE req[r].latest

\* A request starts with the phase rows in its session.
Begin(r, op, k, pc, expected) ==
    /\ req[r].pc = "idle"
    /\ received < MaxRequests
    /\ received' = received + 1
    /\ \E n \in 0 .. LastPhase :
          /\ IF op \in {"open", "retain", "approve"}
             THEN FirstWithoutHistory(n) ELSE n = 0
          /\ req' = [req EXCEPT ![r] =
                       [op |-> op, pc |-> pc, k |-> k, seen |-> phase,
                        first |-> n, latest |-> 0, expected |-> expected]]
    /\ UNCHANGED <<phase, versions>>

\* _latest_version, the last read before the flush.
ReadLatest(r) ==
    /\ req[r].pc = "read"
    /\ req' = [req EXCEPT ![r].pc = "write",
                          ![r].latest = Latest(versions[req[r].k])]
    /\ UNCHANGED <<phase, versions, received>>

Close(r) == req' = [req EXCEPT ![r] = Idle] /\ UNCHANGED received

\* A request that ends without writing: a conflict, a failed run, a refused
\* check, an IntegrityError nobody handles.
Refuse(r) == Close(r) /\ UNCHANGED <<phase, versions>>

Writing(r, op) == req[r].pc = "write" /\ req[r].op = op

---------------------------------------------------------------------------
(* Reading the pipeline creates the baselines *)

BeginOpen(r) ==
    /\ ~FirstWithoutHistory(0)
    /\ Begin(r, "open", 1, "write", 0)

EnsurePhaseBaselines(r) ==
    /\ Writing(r, "open")
    /\ versions' = Baselined(r)
    /\ phase' = [k \in Phases |->
                   Saved(phase[k], phase[k], phase[k], Appended(k, versions'))]
    /\ Close(r)

---------------------------------------------------------------------------
(* Phase 1: generate a package, or revise the one on screen *)

BeginGeneratePhaseOne(r) ==
    /\ ~phase[1].locked
    /\ Begin(r, "generate", 1, "read", 0)

\* The author revises a version that exists when the request is sent.
BeginRevisePhaseOne(r) ==
    \E seen \in 1 .. Latest(versions[1]) : Begin(r, "revise", 1, "check", seen)

\* _latest_phase_one_package finds the script a revision edits.
HasPackage ==
    \E i \in 1 .. Len(versions[1]) : versions[1][i].source = "generated"

\* revise_phase_one compares the newest number with the expected one; the
\* number the row will get is read again, later, by _persist_phase_one_version.
CheckExpectedVersion(r) ==
    /\ req[r].pc = "check"
    /\ IF Latest(versions[1]) = req[r].expected /\ HasPackage
       THEN /\ req' = [req EXCEPT ![r].pc = "read"]
            /\ UNCHANGED <<phase, versions, received>>
       ELSE Refuse(r)

\* Every later phase is locked, and stale when it has a version.
LockDownstream(now, loaded) ==
    Saved(now, loaded, [loaded EXCEPT !.locked = TRUE,
                                      !.stale = @ \/ loaded.current # 0], 0)

\* generate_phase_one flushes "qa_pending" first, so its final state is always
\* written; a revision writes a state only when it differs from the loaded one.
PersistPhaseOneVersion(r) ==
    /\ \/ Writing(r, "generate")
       \/ Writing(r, "revise")
    /\ ~Collides(r)
    /\ \E state \in {"ready_for_review", "needs_revision"} :
         LET seen == req[r].seen
             generated == req[r].op = "generate"
             new == [seen[1] EXCEPT !.lifecycle = state, !.locked = FALSE,
                                    !.stale = FALSE]
             row == Row(Number(r, versions[1]),
                        IF generated THEN "generated" ELSE "revision",
                        state, req[r].expected)
             saved == Saved(phase[1], seen[1], new, row.number)
         IN /\ versions' = [versions EXCEPT ![1] = Append(@, row)]
            /\ phase' = [k \in Phases |->
                           IF k # 1 THEN LockDownstream(phase[k], seen[k])
                           ELSE IF generated
                                THEN [saved EXCEPT !.lifecycle = state]
                                ELSE saved]
    /\ Close(r)

\* The insert of a Phase 1 version is not retried.
PhaseOneConflict(r) ==
    /\ \/ Writing(r, "generate")
       \/ Writing(r, "revise")
    /\ Collides(r)
    /\ Refuse(r)

---------------------------------------------------------------------------
(* Retaining the present state of a phase by hand: create_phase_version *)

BeginRetain(r, k) == Begin(r, "retain", k, "read", 0)

\* _append_version gives a phase that was not started the state of the version.
WithState(row, state) ==
    [row EXCEPT !.lifecycle = IF @ = "not_started" THEN state ELSE @]

\* A collision rolls back and retries once, with reloaded rows; nothing the
\* request had changed is lost, for it had changed nothing.
CreatePhaseVersion(r) ==
    /\ Writing(r, "retain")
    /\ \E reload \in Reloads(r) :
         LET k == req[r].k
             before == Loaded(r, reload)[k]
             state == IF before.lifecycle = "not_started" THEN "drafting"
                      ELSE before.lifecycle
             loaded == IF Collides(r) THEN phase[k] ELSE before
             based == Baselined(r)
         IN /\ versions' = [based EXCEPT ![k] =
                              Append(@, Row(Number(r, @), "manual", state, 0))]
            /\ phase' = [j \in Phases |->
                  IF j = k
                  THEN Saved(phase[k], loaded, WithState(loaded, state),
                             Appended(k, versions'))
                  ELSE Saved(phase[j], phase[j], phase[j],
                             Appended(j, versions'))]
    /\ Close(r)

\* The retry collides as well.
RetryCollides(r) ==
    /\ \/ Writing(r, "retain")
       \/ Writing(r, "approve")
       \/ Writing(r, "iterate")
    /\ Collides(r)
    /\ Refuse(r)

---------------------------------------------------------------------------
(* approve_phase *)

\* Mutant: the phase below is looked at only when the phase is locked.
MayApproveUnlocked(rows, k) ==
    /\ ~(rows[k].lifecycle = "approved" /\ rows[k].approvedAt)
    /\ rows[k].locked /\ k > 1 => /\ rows[k - 1].lifecycle = "approved"
                                  /\ k # LastPhase

\* Not yet approved, the phase below approved, and not behind the picture lock.
MayApprove(rows, k) ==
    /\ ~(rows[k].lifecycle = "approved" /\ rows[k].approvedAt)
    /\ k > 1 => rows[k - 1].lifecycle = "approved"
    /\ rows[k].locked => k \notin {1, LastPhase}

BeginApprove(r, k) ==
    /\ MayApprove(phase, k)
    /\ Begin(r, "approve", k, "read", 0)

ApprovedRow(row) ==
    [row EXCEPT !.lifecycle = "approved", !.approvedAt = TRUE,
                !.locked = FALSE, !.stale = FALSE]

\* The phase above an approved one: the last phase stays behind its own lock.
Unlocked(row, k) ==
    IF k = LastPhase
    THEN [row EXCEPT !.locked = TRUE, !.lifecycle = "not_started"]
    ELSE [WithState(row, "drafting") EXCEPT !.locked = FALSE]

ApprovalRow(r, rows) == Row(Number(r, rows), "manual", "approved", 0)

ApprovePhase(r) ==
    /\ Writing(r, "approve")
    /\ ~Collides(r)
    /\ \E reload \in Reloads(r) :
         LET k == req[r].k
             seen == Loaded(r, reload)
             based == Baselined(r)
         IN IF ~MayApprove(seen, k) THEN Refuse(r)
            ELSE /\ versions' = [based EXCEPT ![k] =
                                   Append(@, ApprovalRow(r, @))]
                 /\ phase' = [j \in Phases |->
                      LET n == Appended(j, versions')
                      IN CASE j = k ->
                              [Saved(phase[k], seen[k], ApprovedRow(seen[k]), n)
                                 EXCEPT !.approvedAt = TRUE]
                           [] j = k + 1 ->
                               Saved(phase[j], seen[j], Unlocked(seen[j], j), n)
                           [] OTHER -> Saved(phase[j], phase[j], phase[j], n)]
                 /\ Close(r)

\* A collision rolls back the approval the request had put in its session; the
\* retry stores the approval's version, and the request goes on as if nothing
\* had happened: the next phase is unlocked.
ApproveAfterRollback(r) ==
    /\ Writing(r, "approve")
    /\ Collides(r)
    /\ LET k == req[r].k
       IN /\ versions' = [versions EXCEPT ![k] = Append(@, ApprovalRow(r, @))]
          /\ phase' = [j \in Phases |->
               CASE j = k -> Saved(phase[k], phase[k],
                                   WithState(phase[k], "approved"),
                                   Appended(k, versions'))
                 [] j = k + 1 -> Unlocked(phase[j], j)
                 [] OTHER -> phase[j]]
    /\ Close(r)

---------------------------------------------------------------------------
(* A planning run iterates one of the planning phases *)

\* generate_planning_phase_iteration checks the lock before the run.
BeginIterate(r, k) ==
    /\ k \in PlanningPhases
    /\ ~phase[k].locked
    /\ Begin(r, "iterate", k, "run", 0)

\* The run's commits expire the session: the rows are loaded again afterwards,
\* and the lock is not looked at any more.
RunCompletes(r) ==
    /\ req[r].pc = "run"
    /\ \E n \in 0 .. LastPhase :
          /\ FirstWithoutHistory(n)
          /\ req' = [req EXCEPT ![r].pc = "read", ![r].seen = phase,
                                ![r].first = n]
    /\ UNCHANGED <<phase, versions, received>>

RunFails(r) == req[r].pc = "run" /\ Refuse(r)

RetainGeneratedPlanningPhase(r) ==
    /\ Writing(r, "iterate")
    /\ \E reload \in Reloads(r) :
         LET k == req[r].k
             seen == IF Collides(r) THEN phase ELSE Loaded(r, reload)
             based == Baselined(r)
             new == [seen[k] EXCEPT !.lifecycle = "ready_for_review",
                                    !.approvedAt = FALSE, !.locked = FALSE,
                                    !.stale = FALSE]
         IN /\ versions' = [based EXCEPT ![k] =
                   Append(@, Row(Number(r, @), "generated",
                                 "ready_for_review", 0))]
            /\ phase' = [j \in Phases |->
                 LET n == Appended(j, versions')
                 IN CASE j = k -> Saved(phase[k], seen[k], new, n)
                      [] j > k -> Saved(phase[j], seen[j],
                                        [seen[j] EXCEPT !.locked = TRUE,
                                                        !.stale = TRUE], n)
                      [] OTHER -> Saved(phase[j], phase[j], phase[j], n)]
    /\ Close(r)

---------------------------------------------------------------------------
(* phase_six_images.prepare opens the image phase and the one above it *)

BeginPrepare(r) == Begin(r, "prepare", ImagePhase, "write", 0)

PrepareImages(r) ==
    /\ Writing(r, "prepare")
    /\ LET seen == req[r].seen
           image == [seen[ImagePhase] EXCEPT !.lifecycle = "drafting",
                                             !.approvedAt = FALSE,
                                             !.stale = TRUE, !.locked = FALSE]
           video == [seen[VideoPhase] EXCEPT !.locked = FALSE]
       IN phase' = [phase EXCEPT
                      ![ImagePhase] = Saved(@, seen[ImagePhase], image, 0),
                      ![VideoPhase] = Saved(@, seen[VideoPhase], video, 0)]
    /\ UNCHANGED versions
    /\ Close(r)

---------------------------------------------------------------------------
Step(r) ==
    \/ BeginOpen(r) \/ EnsurePhaseBaselines(r)
    \/ BeginGeneratePhaseOne(r) \/ BeginRevisePhaseOne(r)
    \/ CheckExpectedVersion(r) \/ ReadLatest(r)
    \/ PersistPhaseOneVersion(r) \/ PhaseOneConflict(r)
    \/ CreatePhaseVersion(r) \/ RetryCollides(r)
    \/ ApprovePhase(r) \/ ApproveAfterRollback(r)
    \/ RunCompletes(r) \/ RunFails(r) \/ RetainGeneratedPlanningPhase(r)
    \/ BeginPrepare(r) \/ PrepareImages(r)
    \/ \E k \in Phases : BeginRetain(r, k) \/ BeginApprove(r, k)
                         \/ BeginIterate(r, k)

Next == \E r \in Requests : Step(r)

Spec == Init /\ [][Next]_vars

---------------------------------------------------------------------------
(* Properties *)

Approvals(rows) == {i \in 1 .. Len(rows) : rows[i].lifecycle = "approved"}
Approved(k) == Approvals(versions[k]) # {}

\* The ledger of a phase has no gap, no number twice, and the row of the phase
\* names its newest version, however the appends of concurrent requests raced
\* (_append_version, _persist_phase_one_version).
LedgerNumbered ==
    \A k \in Phases :
        /\ \A i \in 1 .. Len(versions[k]) : versions[k][i].number = i
        /\ phase[k].current = Len(versions[k])

\* A phase is approved, or a planning phase is unlocked, only above a phase
\* that was once approved, and whatever is approved left an approval in its
\* ledger: no request skips a phase, even on rows read long before it writes.
\* prepare unlocks the image and video phases on purpose.
ApprovalChain ==
    \A k \in Phases :
        /\ phase[k].lifecycle = "approved" => Approved(k)
        /\ k > 1 /\ Approved(k) => Approved(k - 1)
        /\ k \in PlanningPhases /\ ~phase[k].locked => Approved(k - 1)

\* Nothing opens the last phase: it stays locked and unapproved, whatever is
\* retained in it and whatever happens below it.
PictureLock ==
    /\ phase[LastPhase].locked
    /\ phase[LastPhase].lifecycle \in {"not_started", "drafting"}
    /\ ~Approved(LastPhase)

---------------------------------------------------------------------------
(* Stated by a comment or a document, not kept by the code: TLC refutes each. *)

\* The message of the conflict says "reload before saving your revision": a
\* revision is stored directly above the version its author had read.
RevisionFollowsWhatWasRead ==
    \A i \in 1 .. Len(versions[1]) :
        versions[1][i].source = "revision"
          => versions[1][i].onto = versions[1][i].number - 1

\* "Mark a production phase approved and unlock the next phase": a request that
\* appends an approval leaves the phase approved.
ApprovalIsKept ==
    [][\A k \in Phases :
         Approvals(versions'[k]) # Approvals(versions[k])
           => phase'[k].lifecycle = "approved"]_vars

\* "Idempotently create a baseline version only when a phase has zero history".
BaselineComesFirst ==
    \A k \in Phases : \A i \in 2 .. Len(versions[k]) :
        versions[k][i].source # "baseline"
=============================================================================
