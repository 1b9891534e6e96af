------------------------- MODULE AgentProposals_proofs -------------------------
(***************************************************************************)
(* Proofs about AgentProposals, for every number of requests, proposals    *)
(* and keys.                                                               *)
(*                                                                         *)
(* The argument: a proposal on which a decision was written never pends    *)
(* again.  A request past its read of the proposal saw it pending, so      *)
(* every decision on it that is written by then, or later, came after the  *)
(* request began.                                                          *)
(***************************************************************************)
EXTENDS AgentProposals, TLAPS

Settled == {"executed", "rejected", "stale", "canceled"}

\* Where a request is that saw its proposal pending.
PastTheRead == {"target", "receipt", "execute", "stale", "canceled", "rejected"}

FinalDecisions ==
    \A i \in 1 .. Len(decisions) : proposals[decisions[i].proposal].status \in Settled

RequestSound(q) ==
    /\ q.began <= Len(decisions)
    /\ q.pc \in PastTheRead =>
         \A i \in 1 .. Len(decisions) : decisions[i].proposal = q.p => q.began < i
    /\ q.pc = "undo" => q.i \in 1 .. Len(receipts)

IInv ==
    /\ TypeOK
    /\ FinalDecisions
    /\ \A r \in Requests : RequestSound(req[r])
    /\ DecisionsOverlap
    /\ NotesMatchReceipts

\* Appending to a sequence.
LEMMA AppendFacts ==
    ASSUME NEW T, NEW s \in Seq(T), NEW e \in T
    PROVE  /\ Append(s, e) \in Seq(T)
           /\ Len(s) \in Nat
           /\ Len(Append(s, e)) = Len(s) + 1
           /\ 1 .. Len(Append(s, e)) = (1 .. Len(s)) \cup {Len(s) + 1}
           /\ \A i \in 1 .. Len(s) : Append(s, e)[i] = s[i]
           /\ Append(s, e)[Len(s) + 1] = e
  OBVIOUS

LEMMA IdleFacts ==
    /\ Idle \in RequestState
    /\ Idle.pc = "idle" /\ Idle.began = 0
  BY AgentAssumption DEF Idle, RequestState

\* The rows of the two ledgers name proposals.
LEMMA LedgerRows ==
    ASSUME TypeOK
    PROVE  /\ \A i \in 1 .. Len(decisions) : decisions[i] \in DecisionRow
           /\ \A i \in 1 .. Len(decisions) : decisions[i].proposal \in Proposals
           /\ \A i \in 1 .. Len(receipts) : receipts[i] \in ReceiptRow
           /\ \A i \in 1 .. Len(receipts) : receipts[i].proposal \in Proposals
           /\ Len(receipts) \in Nat /\ Len(decisions) \in Nat
<1>1. decisions \in Seq(DecisionRow) /\ receipts \in Seq(ReceiptRow)
  BY DEF TypeOK
<1>2. /\ \A i \in 1 .. Len(decisions) : decisions[i] \in DecisionRow
      /\ \A i \in 1 .. Len(receipts) : receipts[i] \in ReceiptRow
      /\ Len(receipts) \in Nat /\ Len(decisions) \in Nat
  BY <1>1
<1>3. (\A d \in DecisionRow : d.proposal \in Proposals)
      /\ (\A e \in ReceiptRow : e.proposal \in Proposals)
  BY DEF DecisionRow, ReceiptRow
<1> QED BY <1>2, <1>3

\* A step that leaves the records alone and moves one request.
LEMMA RequestMoves ==
    ASSUME IInv, NEW r \in Requests, NEW q \in RequestState, RequestSound(q),
           req' = [req EXCEPT ![r] = q],
           lock' \in Requests \cup {Nobody}, received' \in 0 .. MaxRequests,
           UNCHANGED records
    PROVE  IInv'
<1>1. TypeOK'
  BY DEF IInv, TypeOK, records
<1>2. FinalDecisions'
  BY DEF IInv, FinalDecisions, records
<1>3. \A s \in Requests : RequestSound(req[s])'
  BY DEF IInv, TypeOK, RequestSound, records
<1>4. DecisionsOverlap' /\ NotesMatchReceipts'
  BY DEF IInv, DecisionsOverlap, NotesMatchReceipts, records
<1> QED BY <1>1, <1>2, <1>3, <1>4 DEF IInv

LEMMA CloseKeepsIInv ==
    ASSUME IInv, NEW r \in Requests, Close(r), UNCHANGED records
    PROVE  IInv'
<1>1. Idle \in RequestState /\ RequestSound(Idle)
  BY IdleFacts DEF RequestSound, PastTheRead, IInv, TypeOK
<1>2. lock' \in Requests \cup {Nobody} /\ received' \in 0 .. MaxRequests
  BY DEF Close, IInv, TypeOK
<1> QED BY <1>1, <1>2, RequestMoves DEF Close

\* A request that begins knows nothing yet, but which receipt it undoes.
LEMMA BeginKeepsIInv ==
    ASSUME IInv, NEW r \in Requests, NEW q \in RequestState, Begin(r, q),
           q.pc \notin PastTheRead,
           q.pc = "undo" => q.i \in 1 .. Len(receipts),
           lock' \in Requests \cup {Nobody},
           UNCHANGED records
    PROVE  IInv'
<1> DEFINE p == [q EXCEPT !.began = Len(decisions)]
<1>1. Len(decisions) \in Nat
  BY DEF IInv, TypeOK
<1>2. p \in RequestState /\ p.pc = q.pc /\ p.i = q.i /\ p.began = Len(decisions)
  BY <1>1 DEF RequestState
<1>3. RequestSound(p)
  BY <1>1, <1>2 DEF RequestSound
<1>4. received' \in 0 .. MaxRequests
  BY AgentAssumption DEF Begin, IInv, TypeOK
<1>5. req' = [req EXCEPT ![r] = p]
  BY DEF Begin
<1> HIDE DEF p
<1> QED BY <1>2, <1>3, <1>4, <1>5, RequestMoves

LEMMA BeginningsKeepIInv ==
    ASSUME IInv, NEW r \in Requests,
           \/ BeginTurn(r)
           \/ \E p \in Proposals :
                 BeginReject(r, p) \/ \E key \in Keys : BeginApprove(r, p, key)
           \/ \E i \in 1 .. Len(receipts) : BeginUndo(r, i)
    PROVE  IInv'
<1>1. CASE BeginTurn(r)
  <2> DEFINE q == [Idle EXCEPT !.op = "turn", !.pc = "model"]
  <2>1. q \in RequestState /\ q.pc = "model"
    BY IdleFacts DEF RequestState
  <2>2. Begin(r, q) /\ lock' \in Requests \cup {Nobody} /\ UNCHANGED records
    BY <1>1 DEF BeginTurn
  <2> HIDE DEF q
  <2> QED BY <2>1, <2>2, BeginKeepsIInv DEF PastTheRead
<1>2. ASSUME NEW p \in Proposals, BeginReject(r, p) PROVE IInv'
  <2> DEFINE q == [Idle EXCEPT !.op = "reject", !.pc = "proposal", !.p = p]
  <2>1. q \in RequestState /\ q.pc = "proposal"
    BY IdleFacts DEF RequestState
  <2>2. Begin(r, q) /\ lock' \in Requests \cup {Nobody} /\ UNCHANGED records
    BY <1>2 DEF BeginReject, IInv, TypeOK
  <2> HIDE DEF q
  <2> QED BY <2>1, <2>2, BeginKeepsIInv DEF PastTheRead
<1>3. ASSUME NEW p \in Proposals, NEW key \in Keys, BeginApprove(r, p, key)
      PROVE  IInv'
  <2> DEFINE q == [Idle EXCEPT !.op = "approve", !.pc = "proposal", !.p = p,
                               !.key = key]
  <2>1. q \in RequestState /\ q.pc = "proposal"
    BY IdleFacts DEF RequestState
  <2>2. Begin(r, q) /\ lock' \in Requests \cup {Nobody} /\ UNCHANGED records
    BY <1>3 DEF BeginApprove, IInv, TypeOK
  <2> HIDE DEF q
  <2> QED BY <2>1, <2>2, BeginKeepsIInv DEF PastTheRead
<1>4. ASSUME NEW i \in 1 .. Len(receipts), BeginUndo(r, i) PROVE IInv'
  <2> DEFINE q == [Idle EXCEPT !.op = "undo", !.pc = "undo", !.i = i]
  <2>0. i \in Nat
    BY LedgerRows DEF IInv
  <2>1. q \in RequestState /\ q.pc = "undo" /\ q.i = i
    BY <2>0, IdleFacts DEF RequestState
  <2>2. Begin(r, q) /\ lock' \in Requests \cup {Nobody} /\ UNCHANGED records
    BY <1>4 DEF BeginUndo, IInv, TypeOK
  <2> HIDE DEF q
  <2> QED BY <2>1, <2>2, BeginKeepsIInv DEF PastTheRead
<1> QED BY <1>1, <1>2, <1>3, <1>4

\* The reads of an approval and of a rejection.
LEMMA MoveKeepsIInv ==
    ASSUME IInv, NEW r \in Requests, NEW pc \in PastTheRead, Move(r, pc),
           req[r].pc \in PastTheRead \/ StillPending(r)
    PROVE  IInv'
<1> DEFINE q == [req[r] EXCEPT !.pc = pc]
<1>1. /\ req[r] \in RequestState /\ RequestSound(req[r])
      /\ decisions \in Seq(DecisionRow)
  BY DEF IInv, TypeOK
<1>2. q \in RequestState
  BY <1>1 DEF RequestState, PastTheRead
<1>3. q.p = req[r].p /\ q.began = req[r].began /\ q.pc = pc
  BY <1>1 DEF RequestState
<1>4. \A i \in 1 .. Len(decisions) : decisions[i].proposal = req[r].p
                                       => req[r].began < i
  <2>1. CASE req[r].pc \in PastTheRead
    BY <2>1, <1>1 DEF RequestSound
  <2>2. CASE StillPending(r)
    BY <2>2 DEF StillPending, IInv, FinalDecisions, Settled
  <2> QED BY <2>1, <2>2
<1>5. RequestSound(q)
  BY <1>1, <1>3, <1>4 DEF RequestSound, PastTheRead
<1>6. /\ req' = [req EXCEPT ![r] = q]
      /\ lock' \in Requests \cup {Nobody} /\ received' \in 0 .. MaxRequests
      /\ UNCHANGED records
  BY DEF Move, IInv, TypeOK
<1> HIDE DEF q
<1> QED BY <1>2, <1>5, <1>6, RequestMoves

LEMMA ReadsKeepIInv ==
    ASSUME IInv, NEW r \in Requests,
           ReadProposal(r) \/ ReadTarget(r) \/ ReadReceipt(r)
    PROVE  IInv'
<1>1. CASE ReadProposal(r)
  BY <1>1, MoveKeepsIInv DEF ReadProposal, PastTheRead
<1>2. CASE ReadTarget(r)
  BY <1>2, MoveKeepsIInv DEF ReadTarget, At, PastTheRead
<1>3. CASE ReadReceipt(r)
  BY <1>3, MoveKeepsIInv, CloseKeepsIInv DEF ReadReceipt, At, PastTheRead
<1> QED BY <1>1, <1>2, <1>3

\* Writing a decision: the proposal is settled, and earlier decisions on it
\* came after the request began.
LEMMA DecisionFacts ==
    ASSUME IInv, NEW r \in Requests, NEW status \in Settled,
           req[r].pc \in PastTheRead,
           Decided(r, status), Close(r)
    PROVE  /\ decisions' \in Seq(DecisionRow)
           /\ req' \in [Requests -> RequestState]
           /\ lock' \in Requests \cup {Nobody} /\ received' \in 0 .. MaxRequests
           /\ Len(decisions') = Len(decisions) + 1
           /\ DecisionsOverlap'
           /\ \A i \in 1 .. Len(decisions') :
                 \/ i \in 1 .. Len(decisions) /\ decisions'[i] = decisions[i]
                 \/ decisions'[i].proposal = req[r].p
           /\ (\A s \in Requests : receipts \in Seq(ReceiptRow)
                 /\ receipts' \in Seq(ReceiptRow) /\ Len(receipts') >= Len(receipts)
                   => RequestSound(req[s])')
<1> DEFINE d == [proposal |-> req[r].p, status |-> status,
                 began |-> req[r].began]
<1>1. /\ req[r] \in RequestState /\ RequestSound(req[r])
      /\ decisions \in Seq(DecisionRow)
      /\ req \in [Requests -> RequestState]
  BY DEF IInv, TypeOK
<1>2. d \in DecisionRow /\ decisions' = Append(decisions, d)
      /\ d.proposal = req[r].p /\ d.began = req[r].began
  BY <1>1 DEF DecisionRow, RequestState, Decided, Settled, Status
<1> HIDE DEF d
<1>3. /\ decisions' \in Seq(DecisionRow)
      /\ Len(decisions) \in Nat
      /\ Len(decisions') = Len(decisions) + 1
      /\ 1 .. Len(decisions') = (1 .. Len(decisions)) \cup {Len(decisions) + 1}
      /\ \A i \in 1 .. Len(decisions) : decisions'[i] = decisions[i]
      /\ decisions'[Len(decisions) + 1] = d
  BY <1>1, <1>2, AppendFacts
<1>4. req' = [req EXCEPT ![r] = Idle] /\ req' \in [Requests -> RequestState]
  BY <1>1, IdleFacts DEF Close
<1>5. lock' \in Requests \cup {Nobody} /\ received' \in 0 .. MaxRequests
  BY DEF Close, IInv, TypeOK
<1>6. \A i \in 1 .. Len(decisions) : decisions[i].proposal = req[r].p
                                       => req[r].began < i
  BY <1>1 DEF RequestSound
<1>7. DecisionsOverlap'
  <2> SUFFICES ASSUME NEW i \in 1 .. Len(decisions'), NEW j \in 1 .. Len(decisions'),
                      i < j, decisions'[i].proposal = decisions'[j].proposal
               PROVE  decisions'[j].began < i
    BY DEF DecisionsOverlap
  <2>1. i \in 1 .. Len(decisions)
    BY <1>3
  <2>2. CASE j \in 1 .. Len(decisions)
    BY <2>1, <2>2, <1>3 DEF IInv, DecisionsOverlap
  <2>3. CASE j = Len(decisions) + 1
    BY <2>1, <2>3, <1>2, <1>3, <1>6
  <2> QED BY <2>2, <2>3, <1>3
<1>8. \A i \in 1 .. Len(decisions') :
         \/ i \in 1 .. Len(decisions) /\ decisions'[i] = decisions[i]
         \/ decisions'[i].proposal = req[r].p
  BY <1>2, <1>3
<1>9. ASSUME NEW s \in Requests, receipts \in Seq(ReceiptRow),
             receipts' \in Seq(ReceiptRow), Len(receipts') >= Len(receipts)
      PROVE  RequestSound(req[s])'
  <2>1. CASE s = r
    BY <2>1, <1>3, <1>4, IdleFacts DEF RequestSound, PastTheRead
  <2>2. CASE s # r
    <3>1. req'[s] = req[s] /\ RequestSound(req[s]) /\ req[s] \in RequestState
      BY <2>2, <1>1, <1>4 DEF IInv
    <3>2. req[s].began \in Nat /\ req[s].i \in Nat
      BY <3>1 DEF RequestState
    <3>3. Len(receipts) \in Nat /\ Len(receipts') \in Nat
      BY <1>9
    <3>4. req[s].began <= Len(decisions')
      BY <3>1, <3>2, <1>3 DEF RequestSound
    <3>5. req[s].pc \in PastTheRead =>
            \A i \in 1 .. Len(decisions') : decisions'[i].proposal = req[s].p
                                              => req[s].began < i
      BY <3>1, <3>2, <1>3 DEF RequestSound
    <3>6. req[s].pc = "undo" => req[s].i \in 1 .. Len(receipts')
      BY <3>1, <3>2, <3>3, <1>9 DEF RequestSound
    <3> QED BY <3>1, <3>4, <3>5, <3>6 DEF RequestSound
  <2> QED BY <2>1, <2>2
<1> QED BY <1>3, <1>4, <1>5, <1>7, <1>8, <1>9

LEMMA SettleKeepsIInv ==
    ASSUME IInv, NEW r \in Requests,
           NEW status \in {"canceled", "stale", "rejected"}, Settle(r, status)
    PROVE  IInv'
<1>1. /\ req[r].p \in Proposals /\ req[r].pc \in PastTheRead
      /\ status \in Settled /\ Decided(r, status) /\ Close(r)
      /\ proposals' = [proposals EXCEPT ![req[r].p].status = status]
      /\ UNCHANGED <<project, edits, receipts, notes>>
      /\ proposals \in [Proposals -> ProposalRow]
  BY DEF Settle, Writing, At, PastTheRead, Settled, IInv, TypeOK, RequestState
<1>2. /\ decisions' \in Seq(DecisionRow) /\ req' \in [Requests -> RequestState]
      /\ lock' \in Requests \cup {Nobody} /\ received' \in 0 .. MaxRequests
      /\ DecisionsOverlap'
      /\ \A i \in 1 .. Len(decisions') :
            \/ i \in 1 .. Len(decisions) /\ decisions'[i] = decisions[i]
            \/ decisions'[i].proposal = req[r].p
      /\ \A s \in Requests : RequestSound(req[s])'
  BY <1>1, DecisionFacts DEF IInv, TypeOK
<1>3. /\ proposals' \in [Proposals -> ProposalRow]
      /\ \A p \in Proposals : proposals'[p].status =
            IF p = req[r].p THEN status ELSE proposals[p].status
  BY <1>1 DEF ProposalRow, Settled, Status
<1>4. TypeOK'
  BY <1>1, <1>2, <1>3 DEF IInv, TypeOK
<1>5. FinalDecisions'
  <2>1. \A i \in 1 .. Len(decisions) : decisions[i].proposal \in Proposals
    BY LedgerRows DEF IInv
  <2> QED BY <1>1, <1>2, <1>3, <2>1 DEF IInv, FinalDecisions
<1>6. NotesMatchReceipts'
  <2>1. \A i \in 1 .. Len(receipts) : receipts[i].proposal \in Proposals
    BY LedgerRows DEF IInv
  <2> QED BY <1>1, <1>3, <2>1 DEF IInv, NotesMatchReceipts, Settled
<1> QED BY <1>2, <1>4, <1>5, <1>6 DEF IInv

LEMMA ExecuteKeepsIInv ==
    ASSUME IInv, NEW r \in Requests, ExecuteReviewNote(r)
    PROVE  IInv'
<1> DEFINE p == req[r].p
           e == [proposal |-> p, key |-> req[r].key,
                 before |-> proposals[p].version, after |-> TargetVersion,
                 undo |-> "available",
                 asked |-> proposals[p].asked, edits |-> edits]
<1>1. /\ p \in Proposals /\ req[r].key \in Keys /\ req[r].pc \in PastTheRead
      /\ Decided(r, "executed") /\ Close(r) /\ UNCHANGED <<project, edits>>
      /\ receipts' = Append(receipts, e)
      /\ notes' = notes \cup {Len(receipts')}
      /\ proposals' = [proposals EXCEPT ![p].status = "executed"]
      /\ proposals \in [Proposals -> ProposalRow]
      /\ receipts \in Seq(ReceiptRow)
  BY DEF ExecuteReviewNote, Writing, At, PastTheRead, IInv, TypeOK, RequestState
<1>2. edits \in Nat /\ TargetVersion \in Nat
  BY DEF IInv, TypeOK, TargetVersion
<1>3. e \in ReceiptRow /\ e.proposal = p /\ e.undo = "available"
  BY <1>1, <1>2 DEF ReceiptRow, ProposalRow
<1> HIDE DEF e
<1>4. /\ receipts' \in Seq(ReceiptRow)
      /\ Len(receipts) \in Nat
      /\ Len(receipts') = Len(receipts) + 1
      /\ 1 .. Len(receipts') = (1 .. Len(receipts)) \cup {Len(receipts) + 1}
      /\ \A i \in 1 .. Len(receipts) : receipts'[i] = receipts[i]
      /\ receipts'[Len(receipts) + 1] = e
  BY <1>1, <1>3, AppendFacts
<1>5. "executed" \in Settled /\ Len(receipts') >= Len(receipts)
  BY <1>4 DEF Settled
<1>6. /\ decisions' \in Seq(DecisionRow) /\ req' \in [Requests -> RequestState]
      /\ lock' \in Requests \cup {Nobody} /\ received' \in 0 .. MaxRequests
      /\ DecisionsOverlap'
      /\ \A i \in 1 .. Len(decisions') :
            \/ i \in 1 .. Len(decisions) /\ decisions'[i] = decisions[i]
            \/ decisions'[i].proposal = p
      /\ \A s \in Requests : RequestSound(req[s])'
  BY <1>1, <1>4, <1>5, DecisionFacts
<1>7. /\ proposals' \in [Proposals -> ProposalRow]
      /\ \A x \in Proposals : proposals'[x].status =
            IF x = p THEN "executed" ELSE proposals[x].status
  BY <1>1 DEF ProposalRow, Status
<1>8. TypeOK'
  BY <1>1, <1>4, <1>6, <1>7 DEF IInv, TypeOK
<1>9. FinalDecisions'
  <2>1. \A i \in 1 .. Len(decisions) : decisions[i].proposal \in Proposals
    BY LedgerRows DEF IInv
  <2> QED BY <1>1, <1>5, <1>6, <1>7, <2>1 DEF IInv, FinalDecisions
<1>10. NotesMatchReceipts'
  <2>1. \A i \in 1 .. Len(receipts) : receipts[i].proposal \in Proposals
    BY LedgerRows DEF IInv
  <2>2. notes' = {i \in 1 .. Len(receipts') : receipts'[i].undo = "available"}
    BY <1>1, <1>3, <1>4 DEF IInv, NotesMatchReceipts
  <2>3. \A i \in 1 .. Len(receipts') :
           proposals'[receipts'[i].proposal].status \in Settled
    BY <1>1, <1>3, <1>4, <1>5, <1>7, <2>1 DEF IInv, NotesMatchReceipts, Settled
  <2>4. \A x \in Proposals : proposals'[x].status = "executed" =>
           \E i \in 1 .. Len(receipts') : receipts'[i].proposal = x
    <3> SUFFICES ASSUME NEW x \in Proposals, proposals'[x].status = "executed"
                 PROVE  \E i \in 1 .. Len(receipts') : receipts'[i].proposal = x
      OBVIOUS
    <3>1. CASE x = p
      BY <3>1, <1>3, <1>4
    <3>2. CASE x # p
      BY <3>2, <1>4, <1>7 DEF IInv, NotesMatchReceipts
    <3> QED BY <3>1, <3>2
  <2> QED BY <2>2, <2>3, <2>4 DEF NotesMatchReceipts, Settled
<1> QED BY <1>6, <1>8, <1>9, <1>10 DEF IInv

LEMMA UndoKeepsIInv ==
    ASSUME IInv, NEW r \in Requests, UndoAction(r)
    PROVE  IInv'
<1> DEFINE n == req[r].i
<1>1. /\ n \in 1 .. Len(receipts)
      /\ notes' = notes \ {n}
      /\ receipts' = [receipts EXCEPT ![n].undo = "completed"]
      /\ Close(r)
      /\ UNCHANGED <<project, edits, proposals, decisions>>
      /\ receipts \in Seq(ReceiptRow)
      /\ req \in [Requests -> RequestState]
  BY DEF UndoAction, Writing, At, NoteOf, IInv, TypeOK, RequestSound
<1>2. /\ receipts' \in Seq(ReceiptRow) /\ Len(receipts') = Len(receipts)
      /\ \A i \in 1 .. Len(receipts) :
            /\ receipts'[i].proposal = receipts[i].proposal
            /\ receipts'[i].undo = IF i = n THEN "completed" ELSE receipts[i].undo
  <2>1. /\ \A i \in 1 .. Len(receipts) : receipts[i] \in ReceiptRow
        /\ Len(receipts) \in Nat
    BY LedgerRows DEF IInv
  <2>2. \A i \in 1 .. Len(receipts) :
           receipts'[i] = IF i = n THEN [receipts[i] EXCEPT !.undo = "completed"]
                          ELSE receipts[i]
    BY <1>1, <2>1
  <2>3. \A e \in ReceiptRow :
           /\ [e EXCEPT !.undo = "completed"] \in ReceiptRow
           /\ [e EXCEPT !.undo = "completed"].proposal = e.proposal
           /\ [e EXCEPT !.undo = "completed"].undo = "completed"
    BY DEF ReceiptRow
  <2>4. Len(receipts') = Len(receipts) /\ DOMAIN receipts' = 1 .. Len(receipts)
    BY <1>1
  <2>5. \A i \in 1 .. Len(receipts) : receipts'[i] \in ReceiptRow
    BY <2>1, <2>2, <2>3
  <2>6. receipts' \in Seq(ReceiptRow)
    BY <1>1, <2>1, <2>4, <2>5
  <2>7. \A i \in 1 .. Len(receipts) :
           /\ receipts'[i].proposal = receipts[i].proposal
           /\ receipts'[i].undo = IF i = n THEN "completed" ELSE receipts[i].undo
    <3> SUFFICES ASSUME NEW i \in 1 .. Len(receipts)
                 PROVE  /\ receipts'[i].proposal = receipts[i].proposal
                        /\ receipts'[i].undo = IF i = n THEN "completed"
                                               ELSE receipts[i].undo
      OBVIOUS
    <3>1. receipts[i] \in ReceiptRow
      BY <2>1
    <3>2. CASE i = n
      BY <3>1, <3>2, <2>2, <2>3
    <3>3. CASE i # n
      BY <3>3, <2>2
    <3> QED BY <3>2, <3>3
  <2> QED BY <2>4, <2>6, <2>7
<1>3. TypeOK'
  BY <1>1, <1>2, IdleFacts DEF IInv, TypeOK, Close
<1>4. FinalDecisions' /\ DecisionsOverlap'
  BY <1>1 DEF IInv, FinalDecisions, DecisionsOverlap
<1>5. \A s \in Requests : RequestSound(req[s])'
  <2> SUFFICES ASSUME NEW s \in Requests PROVE RequestSound(req[s])'
    OBVIOUS
  <2>1. CASE s = r
    BY <2>1, <1>1, IdleFacts DEF Close, RequestSound, PastTheRead, IInv, TypeOK
  <2>2. CASE s # r
    BY <2>2, <1>1, <1>2 DEF Close, RequestSound, IInv
  <2> QED BY <2>1, <2>2
<1>6. NotesMatchReceipts'
  BY <1>1, <1>2 DEF IInv, NotesMatchReceipts
<1> QED BY <1>3, <1>4, <1>5, <1>6 DEF IInv

LEMMA CreateKeepsIInv ==
    ASSUME IInv, NEW r \in Requests, CreateReviewNoteProposal(r)
    PROVE  IInv'
<1>1. PICK p \in Proposals :
         /\ proposals[p].status = "none"
         /\ proposals' = [proposals EXCEPT ![p] =
                            [status |-> "pending_approval",
                             version |-> TargetVersion, expired |-> FALSE,
                             asked |-> edits]]
  BY DEF CreateReviewNoteProposal
<1>2. /\ Close(r) /\ UNCHANGED <<project, edits, receipts, notes, decisions>>
      /\ proposals \in [Proposals -> ProposalRow]
      /\ edits \in Nat /\ TargetVersion \in Nat
  BY DEF CreateReviewNoteProposal, IInv, TypeOK, TargetVersion
<1>3. /\ proposals' \in [Proposals -> ProposalRow]
      /\ \A x \in Proposals : proposals'[x].status =
            IF x = p THEN "pending_approval" ELSE proposals[x].status
  BY <1>1, <1>2 DEF ProposalRow, Status
<1>4. TypeOK'
  BY <1>2, <1>3, IdleFacts DEF IInv, TypeOK, Close
<1>5. FinalDecisions' /\ DecisionsOverlap'
  <2>1. \A i \in 1 .. Len(decisions) : decisions[i].proposal \in Proposals \ {p}
    BY <1>1, LedgerRows DEF IInv, FinalDecisions, Settled
  <2> QED BY <1>2, <1>3, <2>1 DEF IInv, FinalDecisions, DecisionsOverlap
<1>6. \A s \in Requests : RequestSound(req[s])'
  <2> SUFFICES ASSUME NEW s \in Requests PROVE RequestSound(req[s])'
    OBVIOUS
  <2>1. CASE s = r
    BY <2>1, <1>2, IdleFacts DEF Close, RequestSound, PastTheRead, IInv, TypeOK
  <2>2. CASE s # r
    BY <2>2, <1>2 DEF Close, RequestSound, IInv, TypeOK
  <2> QED BY <2>1, <2>2
<1>7. NotesMatchReceipts'
  <2>1. \A i \in 1 .. Len(receipts) : receipts[i].proposal \in Proposals \ {p}
    BY <1>1, LedgerRows DEF IInv, NotesMatchReceipts
  <2> QED BY <1>2, <1>3, <2>1 DEF IInv, NotesMatchReceipts
<1> QED BY <1>4, <1>5, <1>6, <1>7 DEF IInv

\* An edit of the target and the expiry of a token touch no decision.
LEMMA OutsideKeepsIInv ==
    ASSUME IInv, EditTarget \/ \E p \in Proposals : TokenExpires(p)
    PROVE  IInv'
<1>1. CASE EditTarget
  <2>1. TypeOK'
    BY <1>1, AgentAssumption DEF EditTarget, IInv, TypeOK
  <2> QED BY <1>1, <2>1 DEF EditTarget, IInv, FinalDecisions, RequestSound,
                            DecisionsOverlap, NotesMatchReceipts
<1>2. ASSUME NEW p \in Proposals, TokenExpires(p) PROVE IInv'
  <2>1. /\ proposals' \in [Proposals -> ProposalRow]
        /\ \A x \in Proposals : proposals'[x].status = proposals[x].status
        /\ UNCHANGED <<project, edits, receipts, notes, lock, req, received,
                       decisions>>
    <3>1. proposals \in [Proposals -> ProposalRow]
      BY DEF IInv, TypeOK
    <3>2. \A e \in ProposalRow :
             /\ [e EXCEPT !.expired = TRUE] \in ProposalRow
             /\ [e EXCEPT !.expired = TRUE].status = e.status
      BY DEF ProposalRow
    <3>3. \A x \in Proposals : proposals'[x] =
             IF x = p THEN [proposals[p] EXCEPT !.expired = TRUE] ELSE proposals[x]
      BY <1>2, <3>1 DEF TokenExpires
    <3>4. proposals' \in [Proposals -> ProposalRow]
      BY <1>2, <3>1, <3>2 DEF TokenExpires
    <3> QED BY <1>2, <3>1, <3>2, <3>3, <3>4 DEF TokenExpires
  <2>2. TypeOK'
    BY <2>1 DEF IInv, TypeOK
  <2>3. /\ \A i \in 1 .. Len(decisions) : decisions[i].proposal \in Proposals
        /\ \A i \in 1 .. Len(receipts) : receipts[i].proposal \in Proposals
    BY LedgerRows DEF IInv
  <2>4. FinalDecisions' /\ DecisionsOverlap'
    BY <2>1, <2>3 DEF IInv, FinalDecisions, DecisionsOverlap
  <2>5. NotesMatchReceipts'
    BY <2>1, <2>3 DEF IInv, NotesMatchReceipts
  <2>6. \A s \in Requests : RequestSound(req[s])'
    BY <2>1 DEF IInv, RequestSound
  <2> QED BY <2>2, <2>4, <2>5, <2>6 DEF IInv
<1> QED BY <1>1, <1>2

LEMMA InitIInv == Init => IInv
<1> SUFFICES ASSUME Init PROVE IInv
  OBVIOUS
<1>1. TypeOK
  BY AgentAssumption, IdleFacts DEF Init, TypeOK, NoProposal, ProposalRow, Status
<1>2. FinalDecisions /\ DecisionsOverlap
  BY DEF Init, FinalDecisions, DecisionsOverlap
<1>3. \A r \in Requests : RequestSound(req[r])
  <2>1. Len(decisions) = 0 /\ \A r \in Requests : req[r] = Idle
    BY DEF Init
  <2>2. Idle.pc \notin PastTheRead /\ Idle.pc # "undo"
    BY IdleFacts DEF PastTheRead
  <2>3. RequestSound(Idle)
    BY <2>1, <2>2, IdleFacts DEF RequestSound
  <2> QED BY <2>1, <2>3
<1>4. NotesMatchReceipts
  BY DEF Init, NotesMatchReceipts, NoProposal
<1> QED BY <1>1, <1>2, <1>3, <1>4 DEF IInv

LEMMA NextKeepsIInv == IInv /\ [Next]_vars => IInv'
<1> SUFFICES ASSUME IInv, [Next]_vars PROVE IInv'
  OBVIOUS
<1>1. CASE UNCHANGED vars
  BY <1>1 DEF vars, IInv, TypeOK, FinalDecisions, RequestSound,
              DecisionsOverlap, NotesMatchReceipts
<1>2. ASSUME NEW r \in Requests, Step(r) PROVE IInv'
  <2>1. CASE FinishTurn(r) \/ AnswerFromReceipt(r) \/ Fail(r)
    BY <2>1, CloseKeepsIInv DEF FinishTurn, AnswerFromReceipt, Fail, records
  <2>2. CASE ReadProposal(r) \/ ReadTarget(r) \/ ReadReceipt(r)
    BY <2>2, ReadsKeepIInv
  <2>3. CASE Settle(r, "canceled") \/ Settle(r, "stale") \/ Settle(r, "rejected")
    BY <2>3, SettleKeepsIInv
  <2>4. CASE CreateReviewNoteProposal(r)
    BY <2>4, CreateKeepsIInv
  <2>5. CASE ExecuteReviewNote(r)
    BY <2>5, ExecuteKeepsIInv
  <2>6. CASE UndoAction(r)
    BY <2>6, UndoKeepsIInv
  <2>7. CASE \/ BeginTurn(r)
             \/ \E p \in Proposals :
                   BeginReject(r, p) \/ \E key \in Keys : BeginApprove(r, p, key)
             \/ \E i \in 1 .. Len(receipts) : BeginUndo(r, i)
    BY <2>7, BeginningsKeepIInv
  <2> QED BY <1>2, <2>1, <2>2, <2>3, <2>4, <2>5, <2>6, <2>7 DEF Step
<1> QED BY <1>1, <1>2, OutsideKeepsIInv DEF Next

\* The inductive invariant holds in every state of the Operator.
THEOREM SpecIInv == Spec => []IInv
<1> QED BY InitIInv, NextKeepsIInv, PTL DEF Spec

\* Proposals, receipts and the open requests keep their types.
THEOREM TypeCorrect == Spec => []TypeOK
<1>1. IInv => TypeOK
  BY DEF IInv
<1> QED BY <1>1, SpecIInv, PTL

\* For any number of approvals, rejections, keys and edits: a second decision on
\* a proposal is only written by a request that overlapped the first.
THEOREM LateRequestsDecideNothing == Spec => []DecisionsOverlap
<1>1. IInv => DecisionsOverlap
  BY DEF IInv
<1> QED BY <1>1, SpecIInv, PTL

\* A note is there exactly while its receipt can be undone, over every
\* interleaving of approvals, rejections and undos.
THEOREM NotesFollowReceipts == Spec => []NotesMatchReceipts
<1>1. IInv => NotesMatchReceipts
  BY DEF IInv
<1> QED BY <1>1, SpecIInv, PTL
=============================================================================
