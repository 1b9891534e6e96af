---------------------------- MODULE StoryboardPlan ----------------------------
(***************************************************************************)
(* The production plan of one story: the rows the authors edit, the        *)
(* immutable versions an approval or an applied proposal makes of them,    *)
(* and the proposals (backend/app/services/storyboard.py,                  *)
(* storyboard_crud.py, storyboard_settings.py, voice_design/service.py,    *)
(* proposal_service.py, proposal_apply.py, storyboard_mutations.py).       *)
(*                                                                         *)
(* Every request reads the story row, then what it decides on, and writes  *)
(* all it has to write in one transaction at its end.  Most requests ask   *)
(* for the story row FOR UPDATE: PostgreSQL then makes the others wait     *)
(* until the transaction ends, SQLite ignores the clause.  Both databases  *)
(* are modelled.  A session writes a column only when it changed it with   *)
(* respect to the row it read.                                             *)
(*                                                                         *)
(* Left out: what a plan contains (a content is a model value, its hash    *)
(* is the content itself), the readiness and validation rules (a plan is   *)
(* ready or not, a proposal valid or not), the audit rows.                 *)
(***************************************************************************)
EXTENDS Integers, Sequences

CONSTANTS Requests,     \* HTTP requests that may be open at the same time
          Proposals,    \* rows of ai_proposal_records the story receives
          Contents,     \* contents of a plan, as told apart by their hash
          NoContent,    \* no expected hash was given
          Manual,       \* the source of a version that no proposal made
          MaxAttempts,  \* 3 in the code: attempts of an approval
          MaxRequests   \* bound: the requests the story receives in all

ASSUME PlanAssumption ==
    /\ NoContent \notin Contents
    /\ Manual \notin Proposals
    /\ MaxAttempts \in Nat \ {0}
    /\ MaxRequests \in Nat

VARIABLES rowLocks,   \* the database honours FOR UPDATE: PostgreSQL
          live,       \* the content of the editable rows
          story,      \* approval_state and active_storyboard_version_id
          versions,   \* the rows of storyboard_versions
          proposals,  \* the rows of ai_proposal_records
          req,        \* the open requests
          received,   \* how many requests have begun
          outside     \* history: a writer that locks nothing has written

vars == <<rowLocks, live, story, versions, proposals, req, received, outside>>

StoryRow == [state : {"draft", "approved"}, active : Nat]

VersionRow == [number : Nat, content : Contents, status : {"draft", "approved"},
               superseded : BOOLEAN, source : Proposals \cup {Manual}]

ProposalRow == [status   : {"none", "pending_review", "needs_review",
                            "validated", "applied", "rejected"},
                invalid  : BOOLEAN,
                base     : Nat,          \* base_storyboard_version_id, 0 is NULL
                expected : Contents \cup {NoContent},   \* base_content_hash
                link     : Nat]          \* applied_storyboard_version_id

RequestState == [op       : {"none", "edit", "approve", "apply", "review",
                             "reject"},
                 pc       : {"idle", "story", "snapshot", "existing", "number",
                             "keep", "write"},
                 p        : Proposals \cup {Manual},
                 expected : Contents \cup {NoContent},
                 record   : ProposalRow,       \* the proposal it read
                 seen     : StoryRow,          \* the story row it read
                 loaded   : Contents \cup {NoContent},  \* the plan when it read that row
                 latest   : Nat,               \* version number it read
                 previous : SUBSET Nat,        \* approved versions it read
                 attempt  : 1 .. MaxAttempts]

TypeOK ==
    /\ rowLocks \in BOOLEAN
    /\ live \in Contents
    /\ story \in StoryRow
    /\ versions \in Seq(VersionRow)
    /\ proposals \in [Proposals -> ProposalRow]
    /\ req \in [Requests -> RequestState]
    /\ received \in 0 .. MaxRequests
    /\ outside \in BOOLEAN

---------------------------------------------------------------------------
(* Rows *)

NoProposal == [status |-> "none", invalid |-> FALSE, base |-> 0,
               expected |-> NoContent, link |-> 0]

Idle ==
    [op |-> "none", pc |-> "idle", p |-> Manual, expected |-> NoContent,
     record |-> NoProposal, seen |-> [state |-> "draft", active |-> 0],
     loaded |-> NoContent, latest |-> 0, previous |-> {}, attempt |-> 1]

\* create_story: a draft without versions.
Init ==
    /\ rowLocks \in BOOLEAN
    /\ live \in Contents
    /\ story = [state |-> "draft", active |-> 0]
    /\ versions = <<>>
    /\ proposals = [p \in Proposals |-> NoProposal]
    /\ req = [r \in Requests |-> Idle]
    /\ received = 0
    /\ outside = FALSE

Version(number, content, status, source) ==
    [number |-> number, content |-> content, status |-> status,
     superseded |-> FALSE, source |-> source]

Latest == IF versions = <<>> THEN 0 ELSE versions[Len(versions)].number

Approved == {i \in 1 .. Len(versions) : versions[i].status = "approved"}

\* The approved versions whose superseded_at is NULL.
Current == {i \in Approved : ~versions[i].superseded}

\* A column is written when the session changed what it had read.
Written(now, read, new) == IF new = read THEN now ELSE new

---------------------------------------------------------------------------
(* Row locks and the course of a request *)

\* From the read of the story row on, an edit, an approval and an apply hold it.
HoldsStory(r) == req[r].pc \notin {"idle", "story"}
                 /\ req[r].op \in {"edit", "approve", "apply"}

HoldsRecord(r, p) == req[r].op = "apply" /\ req[r].p = p

\* Mutant: the requests select the story row without FOR UPDATE.
StoryNotLocked == TRUE

StoryFree == rowLocks => \A r \in Requests : ~HoldsStory(r)

RecordFree(p) == rowLocks => \A r \in Requests : ~HoldsRecord(r, p)

Begin(r, op, pc, p, expected) ==
    /\ req[r].pc = "idle"
    /\ received < MaxRequests
    /\ received' = received + 1
    /\ req' = [req EXCEPT ![r] =
                 [Idle EXCEPT
                    !.op = op, !.pc = pc, !.p = p, !.expected = expected,
                    !.record = IF p = Manual THEN NoProposal ELSE proposals[p]]]
    /\ UNCHANGED <<rowLocks, live, story, versions, proposals, outside>>

Move(r, q) == /\ req' = [req EXCEPT ![r] = q]
              /\ UNCHANGED <<rowLocks, live, story, versions, proposals,
                             received, outside>>

Close(r) == /\ req' = [req EXCEPT ![r] = Idle]
            /\ UNCHANGED <<rowLocks, received, outside>>

\* A conflict, a refused check, a lock that times out, the death of the backend:
\* the transaction is rolled back.
Refuse(r) == Close(r) /\ UNCHANGED <<live, story, versions, proposals>>

Fail(r) == req[r].pc # "idle" /\ Refuse(r)

At(r, pc) == req[r].pc = pc

---------------------------------------------------------------------------
(* Beginnings *)

\* The author may send the revision the edit is meant for.
BeginEdit(r) ==
    \E e \in Contents \cup {NoContent} : Begin(r, "edit", "story", Manual, e)

\* approve: expected_revision is what the reviewer has read.
BeginApprove(r) ==
    \E e \in Contents : Begin(r, "approve", "story", Manual, e)

Applicable(record) ==
    record.status \in {"pending_review", "needs_review", "validated"}
    /\ ~record.invalid

\* apply_proposal reads the record FOR UPDATE; an applied one is only reported.
BeginApply(r, p) ==
    /\ RecordFree(p)
    /\ Applicable(proposals[p])
    /\ \E told \in {NoContent, live} :
         Begin(r, "apply", "story", p,
               IF told # NoContent THEN told ELSE proposals[p].expected)

BeginReview(r, p) ==
    /\ Applicable(proposals[p])
    /\ Begin(r, "review", "write", p, NoContent)

BeginReject(r, p) ==
    /\ proposals[p].status \notin {"none", "applied", "rejected"}
    /\ Begin(r, "reject", "write", p, NoContent)

---------------------------------------------------------------------------
(* The reads *)

\* The base version is still the active one and has the expected content.
BaseIsActive(r) ==
    LET base == req[r].record.base
        hash == req[r].expected
    IN base # 0 => /\ story.active = base
                   /\ hash # NoContent => versions[base].content = hash

ReadStory(r) ==
    /\ At(r, "story")
    /\ StoryFree
    /\ IF req[r].op = "apply" /\ ~BaseIsActive(r)
       THEN Refuse(r)
       ELSE Move(r, [req[r] EXCEPT
                       !.pc = IF req[r].op = "edit" /\ req[r].expected = NoContent
                              THEN "write" ELSE "snapshot",
                       !.seen = story, !.loaded = live,
                       !.record = NoProposal])

\* build_snapshot_with_hash, compared with the expected hash.  The story's own
\* fields are those of the row read before.
ReadSnapshot(r) ==
    /\ At(r, "snapshot")
    /\ IF req[r].expected \notin {NoContent, live, req[r].loaded}
       THEN Refuse(r)
       ELSE IF req[r].op = "approve"
            THEN Move(r, [req[r] EXCEPT !.pc = "existing"])
            ELSE Move(r, [req[r] EXCEPT !.pc = "write", !.expected = NoContent])

\* The proposal is validated again; a proposal that fails is marked.
FailValidation(r) ==
    /\ At(r, "snapshot")
    /\ req[r].op = "apply"
    /\ proposals' = [proposals EXCEPT ![req[r].p].invalid = TRUE]
    /\ Close(r)
    /\ UNCHANGED <<live, story, versions>>

Same(r) == {i \in Current : versions[i].content = req[r].expected}

\* Is the same content approved already?
ReadExisting(r) ==
    /\ At(r, "existing")
    /\ \/ /\ Same(r) = {}
          /\ Move(r, [req[r] EXCEPT !.pc = "number"])
       \/ \E i \in Same(r) :
             Move(r, [req[r] EXCEPT !.pc = "keep", !.latest = i])

\* The newest number, and the versions to supersede.  A version that comes
\* between the two reads makes the insert collide like one that comes after.
ReadNumber(r) ==
    /\ At(r, "number")
    /\ Move(r, [req[r] EXCEPT !.pc = "write", !.latest = Latest,
                              !.previous = Current])

---------------------------------------------------------------------------
(* The writes *)

Writing(r, op) == At(r, "write") /\ req[r].op = op

\* update_story, create_*, update_*, archive_*, reorder, put_settings, the voice
\* profile routes: the plan changes and the story becomes a draft.
Edit(r) ==
    /\ Writing(r, "edit")
    /\ live' \in Contents
    /\ story' = [story EXCEPT
                   !.state = Written(@, req[r].seen.state, "draft")]
    /\ Close(r)
    /\ UNCHANGED <<versions, proposals>>

KeepExisting(r) ==
    /\ At(r, "keep")
    /\ story' = [state  |-> Written(story.state, req[r].seen.state, "approved"),
                 active |-> Written(story.active, req[r].seen.active,
                                    req[r].latest)]
    /\ Close(r)
    /\ UNCHANGED <<live, versions, proposals>>

\* Mutant: the table has no unique (story, version number).
NeverCollides(r) == FALSE

Collides(r) == \E i \in 1 .. Len(versions) :
                  versions[i].number = req[r].latest + 1

\* Mutant: the approved versions before are left alone.
SupersedeNone(r) == versions

\* superseded_at is set in the versions that were read.
Supersede(r) ==
    [i \in 1 .. Len(versions) |->
       [versions[i] EXCEPT !.superseded = @ \/ i \in req[r].previous]]

ApprovePlan(r) ==
    /\ Writing(r, "approve")
    /\ ~Collides(r)
    /\ versions' = Append(Supersede(r),
                          Version(req[r].latest + 1, req[r].expected,
                                  "approved", Manual))
    /\ story' = [state  |-> Written(story.state, req[r].seen.state, "approved"),
                 active |-> req[r].latest + 1]
    /\ Close(r)
    /\ UNCHANGED <<live, proposals>>

\* A collision, or a database that stays locked, is tried again from the start.
RetryApproval(r) ==
    /\ Writing(r, "approve")
    /\ IF req[r].attempt = MaxAttempts THEN Refuse(r)
       ELSE Move(r, [req[r] EXCEPT !.pc = "story", !.attempt = @ + 1])

\* The version an apply stores is what its session sees after the flush: the
\* plan, unless rows it had read were changed by somebody else since.
StoredBy(r) == IF live = req[r].loaded THEN {live'} ELSE Contents

MarkApplied(p, n) == [proposals EXCEPT ![p].status = "applied", ![p].link = n]

\* apply_proposal: the flush of the mutations takes the write lock, the number
\* is read after it.
ApplyProposal(r) ==
    /\ Writing(r, "apply")
    /\ live' \in Contents
    /\ \E stored \in StoredBy(r) :
         versions' = Append(versions, Version(Latest + 1, stored, "draft",
                                              req[r].p))
    /\ story' = [state  |-> Written(story.state, req[r].seen.state, "draft"),
                 active |-> Latest + 1]
    /\ proposals' = MarkApplied(req[r].p, Latest + 1)
    /\ Close(r)

\* On PostgreSQL the UPDATE of the record waits for an apply that holds it.
ReviewProposal(r) ==
    /\ Writing(r, "review")
    /\ RecordFree(req[r].p)
    /\ proposals' = [proposals EXCEPT
                       ![req[r].p].status =
                          Written(@, req[r].record.status, "validated")]
    /\ Close(r)
    /\ UNCHANGED <<live, story, versions>>

RejectProposal(r) ==
    /\ Writing(r, "reject")
    /\ RecordFree(req[r].p)
    /\ proposals' = [proposals EXCEPT ![req[r].p].status = "rejected"]
    /\ Close(r)
    /\ UNCHANGED <<live, story, versions>>

---------------------------------------------------------------------------
(* Writers that take no lock *)

\* create_proposal: valid, to be reviewed, or invalid; planned on the active
\* version or on none, with the hash of the plan or without.
CreateProposal(p) ==
    /\ proposals[p].status = "none"
    /\ \E status \in {"pending_review", "needs_review", "validated"},
          base \in {0, story.active}, e \in {NoContent, live} :
         proposals' = [proposals EXCEPT ![p] =
                         [status |-> status,
                          invalid |-> (status = "pending_review"),
                          base |-> base, expected |-> e, link |-> 0]]
    /\ UNCHANGED <<rowLocks, live, story, versions, req, received, outside>>

\* Phase 6 puts a generated starting image into a shot: the plan has another
\* content, and neither the story row nor its approval is looked at.  Once is
\* the bound.
AttachImage ==
    /\ ~outside
    /\ live' \in Contents
    /\ outside' = TRUE
    /\ UNCHANGED <<rowLocks, story, versions, proposals, req, received>>

Step(r) ==
    \/ BeginEdit(r) \/ BeginApprove(r)
    \/ ReadStory(r) \/ ReadSnapshot(r) \/ ReadExisting(r) \/ ReadNumber(r)
    \/ FailValidation(r) \/ Fail(r)
    \/ Edit(r) \/ KeepExisting(r) \/ ApprovePlan(r) \/ RetryApproval(r)
    \/ ApplyProposal(r) \/ ReviewProposal(r) \/ RejectProposal(r)
    \/ \E p \in Proposals : BeginApply(r, p) \/ BeginReview(r, p)
                            \/ BeginReject(r, p)

Next == \/ \E r \in Requests : Step(r)
        \/ \E p \in Proposals : CreateProposal(p)
        \/ AttachImage

Spec == Init /\ [][Next]_vars

---------------------------------------------------------------------------
(* Properties *)

MadeBy(p) == {i \in 1 .. Len(versions) : versions[i].source = p}

\* Versions are numbered without a gap whoever races, and an applied proposal,
\* also one that was applied twice or rejected while it was applied, refers to
\* a version it made (apply_proposal's report of an applied proposal).
LedgerConsistent ==
    /\ \A i \in 1 .. Len(versions) : versions[i].number = i
    /\ \A p \in Proposals :
          /\ proposals[p].link # 0 => proposals[p].link \in MadeBy(p)
          /\ MadeBy(p) # {} => proposals[p].link # 0
          /\ proposals[p].status = "applied" => proposals[p].link # 0

\* "Preserve the most recent approved immutable version as the valid approved
\* baseline until this draft is explicitly approved": once a plan has been
\* approved, exactly the newest approved version is not superseded.
ApprovedBaseline ==
    Approved # {} => \E i \in Approved : /\ \A j \in Approved : j <= i
                                         /\ Current = {i}

\* The approval state of the story tells whether its active version is what the
\* rows contain.
ApprovedIsLive ==
    story.state = "approved" =>
        /\ story.active \in Current
        /\ versions[story.active].content = live

\* Two approvals of one content in a row make one version.
ApprovedOnce ==
    \A i, j \in Approved :
        i < j /\ (\A k \in Approved : k <= i \/ k >= j)
            => versions[i].content # versions[j].content

\* What the lock of the story row buys on PostgreSQL: an approved story is what
\* was approved, as long as no writer goes around the lock, and nothing is
\* approved twice in a row.
LocksSerialize ==
    rowLocks => /\ ~outside => ApprovedIsLive
                /\ ApprovedOnce

---------------------------------------------------------------------------
(* Stated by a comment or a document, not kept by the code: TLC refutes each. *)

\* _lock_story_for_approval, "SQLite safely ignores the clause; its write
\* serialization is paired with the bounded retry": the approval of a plan and
\* the edits of it are serialized on SQLite as well.
ApprovalSerialized == ~outside => ApprovedIsLive
=============================================================================
