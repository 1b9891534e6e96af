---------------------------- MODULE AgentProposals ----------------------------
(***************************************************************************)
(* The contextual Operator (services/agent/service.py, tools.py): a turn   *)
(* with the language model may propose a review note on a record; a person *)
(* approves the proposal with the token they were shown, or rejects it;    *)
(* what was executed leaves a receipt and can be undone.                   *)
(*                                                                         *)
(* Each request reads, without a lock, what it decides on, and writes in   *)
(* one transaction at its end.  A turn writes first: from the flush of the *)
(* user's message until its commit it holds SQLite's write lock, the call  *)
(* of the model included, and nobody else can write.                       *)
(*                                                                         *)
(* Left out: texts, hashes, sessions, messages, tool calls and audit rows; *)
(* read tools, which change none of this state.  One record is the target. *)
(***************************************************************************)
EXTENDS Integers, Sequences

CONSTANTS Requests,     \* HTTP requests open at the same time
          Proposals,    \* rows of agent_proposals
          Keys,         \* idempotency keys of approvals
          Nobody,       \* no request holds the write lock
          MaxEdits,     \* bound: changes of the target record
          MaxRequests   \* bound: the requests in all

ASSUME AgentAssumption ==
    /\ Nobody \notin Requests
    /\ Keys # {}
    /\ Proposals # {}
    /\ MaxEdits \in Nat
    /\ MaxRequests \in Nat

VARIABLES project,    \* the target is a project, else a story, shot or character
          edits,      \* how often the target has been changed
          proposals,  \* agent_proposals
          receipts,   \* agent_action_receipts, with the note each one made
          notes,      \* the creative_review_notes, by the receipt they belong to
          lock,       \* who holds the write lock over several steps
          req,        \* the open requests
          received,   \* how many requests have begun
          decisions   \* history: the decisions written on proposals

vars == <<project, edits, proposals, receipts, notes, lock, req, received,
          decisions>>

Status == {"none", "pending_approval", "executed", "rejected", "stale",
           "canceled"}

\* asked and edits are history: the changes of the target when the note was
\* proposed, and when it was executed.
ProposalRow == [status : Status, version : Nat, expired : BOOLEAN, asked : Nat]

ReceiptRow == [proposal : Proposals, key : Keys, before : Nat, after : Nat,
               undo : {"available", "completed"}, asked : Nat, edits : Nat]

\* began counts the decisions written before the request began.
DecisionRow == [proposal : Proposals, status : Status, began : Nat]

RequestState == [op    : {"none", "turn", "approve", "reject", "undo"},
                 pc    : {"idle", "model", "proposal", "target", "receipt",
                          "execute", "stale", "canceled", "rejected", "undo"},
                 p     : Proposals,
                 key   : Keys,
                 i     : Nat,        \* the receipt to undo
                 began : Nat]

TypeOK ==
    /\ project \in BOOLEAN
    /\ edits \in 0 .. MaxEdits
    /\ proposals \in [Proposals -> ProposalRow]
    /\ receipts \in Seq(ReceiptRow)
    /\ notes \subseteq 1 .. Len(receipts)
    /\ lock \in Requests \cup {Nobody}
    /\ req \in [Requests -> RequestState]
    /\ received \in 0 .. MaxRequests
    /\ decisions \in Seq(DecisionRow)

---------------------------------------------------------------------------
(* Requests and the write lock *)

NoProposal == [status |-> "none", version |-> 0, expired |-> FALSE, asked |-> 0]

Idle == [op |-> "none", pc |-> "idle", p |-> CHOOSE p \in Proposals : TRUE,
         key |-> CHOOSE k \in Keys : TRUE, i |-> 0, began |-> 0]

Init ==
    /\ project \in BOOLEAN
    /\ edits = 0
    /\ proposals = [p \in Proposals |-> NoProposal]
    /\ receipts = <<>>
    /\ notes = {}
    /\ lock = Nobody
    /\ req = [r \in Requests |-> Idle]
    /\ received = 0
    /\ decisions = <<>>

\* target_version: updated_at of the record, but created_at of a project.
TargetVersion == IF project THEN 0 ELSE edits

records == <<project, edits, proposals, receipts, notes, decisions>>

Begin(r, q) ==
    /\ req[r].pc = "idle"
    /\ received < MaxRequests
    /\ received' = received + 1
    /\ req' = [req EXCEPT ![r] = [q EXCEPT !.began = Len(decisions)]]

Move(r, pc) ==
    /\ req' = [req EXCEPT ![r].pc = pc]
    /\ UNCHANGED <<lock, received>> /\ UNCHANGED records

Close(r) ==
    /\ req' = [req EXCEPT ![r] = Idle]
    /\ lock' = IF lock = r THEN Nobody ELSE lock
    /\ UNCHANGED received

\* Refused, timed out waiting for the write lock, or dead: rolled back.
Fail(r) ==
    /\ req[r].pc # "idle"
    /\ Close(r)
    /\ UNCHANGED records

At(r, pc) == req[r].pc = pc

\* A transaction that writes at its end needs the lock free.
Writing(r, pc) == At(r, pc) /\ lock = Nobody

Decided(r, status) ==
    decisions' = Append(decisions, [proposal |-> req[r].p, status |-> status,
                                    began |-> req[r].began])

---------------------------------------------------------------------------
(* A turn: run_message *)

\* The context snapshot and the message are flushed, then the model is asked.
BeginTurn(r) ==
    /\ lock = Nobody
    /\ Begin(r, [Idle EXCEPT !.op = "turn", !.pc = "model"])
    /\ lock' = r
    /\ UNCHANGED records

\* No provider, no tool, a read tool, or a tool that is blocked.
FinishTurn(r) ==
    /\ At(r, "model")
    /\ Close(r)
    /\ UNCHANGED records

\* The model asked for review.add_note in a context that has a project.
CreateReviewNoteProposal(r) ==
    /\ At(r, "model")
    /\ \E p \in Proposals :
         /\ proposals[p].status = "none"
         /\ proposals' = [proposals EXCEPT ![p] =
                            [status |-> "pending_approval",
                             version |-> TargetVersion, expired |-> FALSE,
                             asked |-> edits]]
    /\ Close(r)
    /\ UNCHANGED <<project, edits, receipts, notes, decisions>>

---------------------------------------------------------------------------
(* approve_proposal *)

BeginApprove(r, p, key) ==
    /\ proposals[p].status # "none"
    /\ Begin(r, [Idle EXCEPT !.op = "approve", !.pc = "proposal", !.p = p,
                             !.key = key])
    /\ UNCHANGED lock /\ UNCHANGED records

ReceiptsFor(p, key) ==
    {i \in 1 .. Len(receipts) : receipts[i].proposal = p /\ receipts[i].key = key}

\* Mutant: an approval with a new idempotency key is a new approval.
MayProceed(r) ==
    \/ proposals[req[r].p].status = "pending_approval"
    \/ /\ proposals[req[r].p].status = "executed"
       /\ ReceiptsFor(req[r].p, req[r].key) = {}

\* Anything but a pending proposal is answered from its receipt, or refused.
StillPending(r) == proposals[req[r].p].status = "pending_approval"

\* The status, then the token (a wrong one only leaves an audit row: Fail) and
\* its ten minutes.
ReadProposal(r) ==
    /\ At(r, "proposal")
    /\ StillPending(r)
    /\ IF req[r].op = "reject" THEN Move(r, "rejected")
       ELSE IF proposals[req[r].p].expired THEN Move(r, "canceled")
       ELSE Move(r, "target")

AnswerFromReceipt(r) ==
    /\ At(r, "proposal")
    /\ ~StillPending(r)
    /\ Close(r)
    /\ UNCHANGED records

ReadTarget(r) ==
    /\ At(r, "target")
    /\ IF proposals[req[r].p].version # TargetVersion THEN Move(r, "stale")
       ELSE Move(r, "receipt")

\* Another approval with this key may have left a receipt meanwhile.
ReadReceipt(r) ==
    /\ At(r, "receipt")
    /\ IF ReceiptsFor(req[r].p, req[r].key) # {}
       THEN Close(r) /\ UNCHANGED records
       ELSE Move(r, "execute")

\* expired: canceled, changed target: stale.
Settle(r, status) ==
    /\ Writing(r, status)
    /\ proposals' = [proposals EXCEPT ![req[r].p].status = status]
    /\ Decided(r, status)
    /\ Close(r)
    /\ UNCHANGED <<project, edits, receipts, notes>>

ExecuteReviewNote(r) ==
    /\ Writing(r, "execute")
    /\ LET p == req[r].p
       IN /\ receipts' = Append(receipts,
                [proposal |-> p, key |-> req[r].key,
                 before |-> proposals[p].version, after |-> TargetVersion,
                 undo |-> "available",
                 asked |-> proposals[p].asked, edits |-> edits])
          /\ notes' = notes \cup {Len(receipts')}
          /\ proposals' = [proposals EXCEPT ![p].status = "executed"]
    /\ Decided(r, "executed")
    /\ Close(r)
    /\ UNCHANGED <<project, edits>>

---------------------------------------------------------------------------
(* reject_proposal and undo_action *)

BeginReject(r, p) ==
    /\ proposals[p].status # "none"
    /\ Begin(r, [Idle EXCEPT !.op = "reject", !.pc = "proposal", !.p = p])
    /\ UNCHANGED lock /\ UNCHANGED records

\* A receipt that is undone already is only reported.
BeginUndo(r, i) ==
    /\ receipts[i].undo = "available"
    /\ Begin(r, [Idle EXCEPT !.op = "undo", !.pc = "undo", !.i = i])
    /\ UNCHANGED lock /\ UNCHANGED records

\* Mutant: the newest note of the target is taken for the receipt's.
NewestNote(r) ==
    {n \in notes : \A m \in notes : m <= n}

NoteOf(r) == {req[r].i}

\* A note that is gone already does not matter.
UndoAction(r) ==
    /\ Writing(r, "undo")
    /\ notes' = notes \ NoteOf(r)
    /\ receipts' = [receipts EXCEPT ![req[r].i].undo = "completed"]
    /\ Close(r)
    /\ UNCHANGED <<project, edits, proposals, decisions>>

---------------------------------------------------------------------------
(* What happens outside the Operator *)

EditTarget ==
    /\ lock = Nobody
    /\ edits < MaxEdits
    /\ edits' = edits + 1
    /\ UNCHANGED <<project, proposals, receipts, notes, lock, req, received,
                   decisions>>

TokenExpires(p) ==
    /\ proposals[p].status # "none"
    /\ proposals' = [proposals EXCEPT ![p].expired = TRUE]
    /\ UNCHANGED <<project, edits, receipts, notes, lock, req, received,
                   decisions>>

Step(r) ==
    \/ BeginTurn(r) \/ FinishTurn(r) \/ CreateReviewNoteProposal(r)
    \/ ReadProposal(r) \/ AnswerFromReceipt(r) \/ ReadTarget(r) \/ ReadReceipt(r)
    \/ Settle(r, "canceled") \/ Settle(r, "stale") \/ Settle(r, "rejected")
    \/ ExecuteReviewNote(r) \/ UndoAction(r) \/ Fail(r)
    \/ \E p \in Proposals :
          BeginReject(r, p) \/ \E key \in Keys : BeginApprove(r, p, key)
    \/ \E i \in 1 .. Len(receipts) : BeginUndo(r, i)

Next == \/ \E r \in Requests : Step(r)
        \/ EditTarget
        \/ \E p \in Proposals : TokenExpires(p)

Spec == Init /\ [][Next]_vars

---------------------------------------------------------------------------
(* Properties *)

\* A decision on a proposal is final for whoever comes later: two decisions on
\* one proposal (two notes, a rejection of what was executed) are only written
\* by requests that overlapped, whatever keys they carry.
DecisionsOverlap ==
    \A i, j \in 1 .. Len(decisions) :
        i < j /\ decisions[i].proposal = decisions[j].proposal
            => decisions[j].began < i

\* "Undo deletes only the note created by that receipt": a note is there exactly
\* while its receipt can be undone, and a proposal with a receipt is decided.
NotesMatchReceipts ==
    /\ notes = {i \in 1 .. Len(receipts) : receipts[i].undo = "available"}
    /\ \A i \in 1 .. Len(receipts) :
          proposals[receipts[i].proposal].status
             \in {"executed", "rejected", "stale", "canceled"}
    /\ \A p \in Proposals : proposals[p].status = "executed" =>
          \E i \in 1 .. Len(receipts) : receipts[i].proposal = p

---------------------------------------------------------------------------
(* Stated by a comment or a document, not kept by the code: TLC refutes each. *)

\* "Approval tokens are ... bound to the proposal hash and target version, and
\* rejected if the target version changes": what is executed was proposed for
\* the record as it is.
VersionBound ==
    \A i \in 1 .. Len(receipts) : receipts[i].asked = receipts[i].edits
=============================================================================
