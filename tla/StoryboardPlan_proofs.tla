-------------------------- MODULE StoryboardPlan_proofs --------------------------
(***************************************************************************)
(* Proofs about StoryboardPlan, for every number of requests, proposals    *)
(* and contents, on both databases.                                        *)
(*                                                                         *)
(* The argument for the ledger: an approval that reads the newest number   *)
(* reads the versions to supersede with it, so when nobody took the next   *)
(* number meanwhile, nobody superseded anything either.  The argument for  *)
(* the lock: where it is honoured one request at most is past its read of  *)
(* the story row, and until it ends the story, its versions and, as long   *)
(* as nobody goes around the lock, the plan are what it read.              *)
(***************************************************************************)
EXTENDS StoryboardPlan, TLAPS

RequestSound(r) ==
    LET q == req[r]
    IN /\ q.pc \in {"existing", "number", "keep"} => q.op = "approve"
       /\ q.pc \in {"story", "snapshot"} => q.op \in {"edit", "approve", "apply"}
       /\ q.op \in {"apply", "review", "reject"} => q.p \in Proposals
       /\ q.op = "approve" => q.expected \in Contents
       /\ q.op = "approve" /\ q.pc = "write" =>
             /\ q.latest <= Len(versions)
             /\ q.latest = Len(versions) => q.previous = Current

\* What the lock guarantees to its holder.
HolderSound(r) ==
    LET q == req[r]
    IN rowLocks /\ HoldsStory(r) =>
         /\ q.seen = story
         /\ ~outside => q.loaded = live
         /\ q.op = "approve" /\ q.pc # "snapshot" /\ ~outside => q.expected = live
         /\ q.pc = "keep" =>
              q.latest \in Current /\ versions[q.latest].content = q.expected
         /\ q.op = "approve" /\ q.pc \in {"number", "write"} =>
              \A i \in Current : versions[i].content # q.expected

OneHolder ==
    rowLocks => \A r, s \in Requests : HoldsStory(r) /\ HoldsStory(s) => r = s

NoneUnlinked == \A p \in Proposals : proposals[p].status = "none"
                                       => proposals[p].link = 0

IInv ==
    /\ TypeOK
    /\ LedgerConsistent
    /\ ApprovedBaseline
    /\ LocksSerialize
    /\ NoneUnlinked
    /\ OneHolder
    /\ \A r \in Requests : RequestSound(r) /\ HolderSound(r)

LEMMA IdleFacts ==
    /\ Idle \in RequestState /\ Idle.pc = "idle" /\ Idle.op = "none"
    /\ NoProposal \in ProposalRow
  BY PlanAssumption DEF Idle, NoProposal, RequestState, ProposalRow, StoryRow

LEMMA VersionFacts ==
    ASSUME TypeOK
    PROVE  /\ versions \in Seq(VersionRow) /\ Len(versions) \in Nat
           /\ \A i \in 1 .. Len(versions) : versions[i] \in VersionRow
           /\ Approved \subseteq 1 .. Len(versions) /\ Current \subseteq Approved
           /\ \A i \in Current : ~versions[i].superseded
  BY DEF TypeOK, Approved, Current

\* The newest number is the number of versions.
LEMMA LatestIsLen ==
    ASSUME TypeOK, LedgerConsistent
    PROVE  Latest = Len(versions)
<1>1. CASE versions = <<>>
  BY <1>1 DEF Latest
<1>2. CASE versions # <<>>
  <2>1. Len(versions) \in 1 .. Len(versions)
    BY <1>2, VersionFacts
  <2> QED BY <1>2, <2>1 DEF Latest, LedgerConsistent
<1> QED BY <1>1, <1>2

LEMMA AppendFacts ==
    ASSUME NEW T, NEW s \in Seq(T), NEW e \in T
    PROVE  /\ Append(s, e) \in Seq(T)
           /\ Len(s) \in Nat
           /\ Len(Append(s, e)) = Len(s) + 1
           /\ 1 .. Len(Append(s, e)) = (1 .. Len(s)) \cup {Len(s) + 1}
           /\ \A i \in 1 .. Len(s) : Append(s, e)[i] = s[i]
           /\ Append(s, e)[Len(s) + 1] = e
  OBVIOUS

---------------------------------------------------------------------------
(* Steps that change an open request only *)

LEMMA RequestMoves ==
    ASSUME IInv, NEW r \in Requests, NEW q \in RequestState,
           req' = [req EXCEPT ![r] = q], received' \in 0 .. MaxRequests,
           UNCHANGED <<rowLocks, live, story, versions, proposals, outside>>,
           RequestSound(r)', HolderSound(r)',
           rowLocks /\ q.pc \notin {"idle", "story"}
                    /\ q.op \in {"edit", "approve", "apply"} =>
              HoldsStory(r) \/ \A s \in Requests : ~HoldsStory(s)
    PROVE  IInv'
<1>1. /\ req' \in [Requests -> RequestState] /\ req'[r] = q
      /\ \A s \in Requests \ {r} : req'[s] = req[s]
  BY DEF IInv, TypeOK
<1>2. TypeOK' /\ LedgerConsistent' /\ ApprovedBaseline' /\ LocksSerialize'
      /\ NoneUnlinked'
  BY <1>1 DEF IInv, TypeOK, LedgerConsistent, MadeBy, ApprovedBaseline, Approved,
              Current, LocksSerialize, ApprovedIsLive, ApprovedOnce, NoneUnlinked
<1>3. /\ Current' = Current
      /\ \A s \in Requests \ {r} : HoldsStory(s)' <=> HoldsStory(s)
  BY <1>1 DEF Current, Approved, HoldsStory
<1>4. \A s \in Requests : RequestSound(s)' /\ HolderSound(s)'
  BY <1>1, <1>3 DEF IInv, RequestSound, HolderSound
<1>5. OneHolder'
  <2>1. rowLocks /\ HoldsStory(r)' =>
           HoldsStory(r) \/ \A s \in Requests : ~HoldsStory(s)
    BY <1>1 DEF HoldsStory
  <2> QED BY <2>1, <1>3 DEF IInv, OneHolder
<1> QED BY <1>2, <1>4, <1>5 DEF IInv

\* An idle request owes nothing.
LEMMA IdleSound ==
    ASSUME NEW r \in Requests, req' \in [Requests -> RequestState], req'[r] = Idle
    PROVE  RequestSound(r)' /\ HolderSound(r)' /\ ~HoldsStory(r)'
  BY IdleFacts DEF RequestSound, HolderSound, HoldsStory

LEMMA RefuseKeepsIInv ==
    ASSUME IInv, NEW r \in Requests, Refuse(r)
    PROVE  IInv'
<1>1. /\ req' = [req EXCEPT ![r] = Idle] /\ received' \in 0 .. MaxRequests
      /\ UNCHANGED <<rowLocks, live, story, versions, proposals, outside>>
  BY DEF Refuse, Close, IInv, TypeOK
<1>2. req' \in [Requests -> RequestState] /\ req'[r] = Idle
  BY <1>1, IdleFacts DEF IInv, TypeOK
<1> QED BY <1>1, <1>2, IdleSound, IdleFacts, RequestMoves

LEMMA BeginKeepsIInv ==
    ASSUME IInv, NEW r \in Requests,
           NEW op \in {"edit", "approve", "apply", "review", "reject"},
           NEW pc \in {"story", "write"},
           NEW p \in Proposals \cup {Manual}, NEW e \in Contents \cup {NoContent},
           Begin(r, op, pc, p, e),
           pc = "write" <=> op \in {"review", "reject"},
           op \in {"apply", "review", "reject"} => p \in Proposals,
           op = "approve" => e \in Contents
    PROVE  IInv'
<1> DEFINE q == [Idle EXCEPT
                   !.op = op, !.pc = pc, !.p = p, !.expected = e,
                   !.record = IF p = Manual THEN NoProposal ELSE proposals[p]]
<1>1. (IF p = Manual THEN NoProposal ELSE proposals[p]) \in ProposalRow
  BY IdleFacts DEF IInv, TypeOK
<1>2. /\ q \in RequestState /\ q.op = op /\ q.pc = pc /\ q.p = p /\ q.expected = e
  BY <1>1, IdleFacts DEF RequestState
<1>3. /\ req' = [req EXCEPT ![r] = q] /\ req'[r] = q
      /\ UNCHANGED <<rowLocks, live, story, versions, proposals, outside>>
      /\ received' \in 0 .. MaxRequests
  BY PlanAssumption DEF Begin, IInv, TypeOK
<1> HIDE DEF q
<1>4. RequestSound(r)' /\ HolderSound(r)'
  BY <1>2, <1>3 DEF RequestSound, HolderSound, HoldsStory
<1> QED BY <1>2, <1>3, <1>4, RequestMoves

LEMMA BeginningsKeepIInv ==
    ASSUME IInv, NEW r \in Requests,
           \/ BeginEdit(r) \/ BeginApprove(r)
           \/ \E p \in Proposals : \/ BeginApply(r, p) \/ BeginReview(r, p)
                                   \/ BeginReject(r, p)
    PROVE  IInv'
<1>1. CASE BeginEdit(r)
  BY <1>1, BeginKeepsIInv DEF BeginEdit
<1>2. CASE BeginApprove(r)
  BY <1>2, BeginKeepsIInv DEF BeginApprove
<1>3. ASSUME NEW p \in Proposals, BeginApply(r, p) PROVE IInv'
  <2>1. PICK told \in {NoContent, live} :
           Begin(r, "apply", "story", p,
                 IF told # NoContent THEN told ELSE proposals[p].expected)
    BY <1>3 DEF BeginApply
  <2>2. (IF told # NoContent THEN told ELSE proposals[p].expected)
          \in Contents \cup {NoContent}
    BY DEF IInv, TypeOK, ProposalRow
  <2> QED BY <2>1, <2>2, BeginKeepsIInv
<1>4. ASSUME NEW p \in Proposals, BeginReview(r, p) PROVE IInv'
  BY <1>4, BeginKeepsIInv DEF BeginReview
<1>5. ASSUME NEW p \in Proposals, BeginReject(r, p) PROVE IInv'
  BY <1>5, BeginKeepsIInv DEF BeginReject
<1> QED BY <1>1, <1>2, <1>3, <1>4, <1>5

\* A request that goes on.
LEMMA MoveKeepsIInv ==
    ASSUME IInv, NEW r \in Requests, NEW q \in RequestState, Move(r, q),
           RequestSound(r)', HolderSound(r)',
           HoldsStory(r) \/ (rowLocks => \A s \in Requests : ~HoldsStory(s))
                         \/ q.pc = "story"
    PROVE  IInv'
<1>1. /\ req' = [req EXCEPT ![r] = q] /\ received' \in 0 .. MaxRequests
      /\ UNCHANGED <<rowLocks, live, story, versions, proposals, outside>>
  BY DEF Move, IInv, TypeOK
<1> QED BY <1>1, RequestMoves

LEMMA ReadStoryKeepsIInv ==
    ASSUME IInv, NEW r \in Requests, ReadStory(r)
    PROVE  IInv'
<1> DEFINE pc == IF req[r].op = "edit" /\ req[r].expected = NoContent
                 THEN "write" ELSE "snapshot"
           q == [req[r] EXCEPT !.pc = pc, !.seen = story, !.loaded = live,
                               !.record = NoProposal]
<1>1. CASE Refuse(r)
  BY <1>1, RefuseKeepsIInv
<1>2. CASE Move(r, q)
  <2>1. req[r] \in RequestState /\ RequestSound(r) /\ req[r].pc = "story"
    BY DEF ReadStory, At, IInv, TypeOK
  <2>2. story \in StoryRow /\ live \in Contents
    BY DEF IInv, TypeOK
  <2>3. /\ q \in RequestState /\ q.op = req[r].op /\ q.pc = pc /\ q.p = req[r].p
        /\ q.expected = req[r].expected /\ q.seen = story /\ q.loaded = live
    BY <2>1, <2>2, IdleFacts DEF RequestState
  <2>4. /\ req'[r] = q
        /\ UNCHANGED <<rowLocks, live, story, versions, proposals, outside>>
    BY <1>2 DEF Move, IInv, TypeOK
  <2>5. rowLocks => \A s \in Requests : ~HoldsStory(s)
    BY DEF ReadStory, StoryFree
  <2> HIDE DEF q
  <2>6. q.op = "approve" => q.pc = "snapshot"
    BY <2>3
  <2>7. RequestSound(r)' /\ HolderSound(r)'
    BY <2>1, <2>3, <2>4, <2>6 DEF RequestSound, HolderSound, HoldsStory
  <2> QED BY <1>2, <2>3, <2>5, <2>7, MoveKeepsIInv
<1> QED BY <1>1, <1>2 DEF ReadStory

LEMMA ReadSnapshotKeepsIInv ==
    ASSUME IInv, NEW r \in Requests, ReadSnapshot(r)
    PROVE  IInv'
<1>1. /\ req[r] \in RequestState /\ RequestSound(r) /\ HolderSound(r)
      /\ req[r].pc = "snapshot" /\ HoldsStory(r)
  BY DEF ReadSnapshot, At, IInv, TypeOK, RequestSound, HoldsStory
<1>2. CASE req[r].expected \notin {NoContent, live, req[r].loaded}
  BY <1>2, RefuseKeepsIInv DEF ReadSnapshot
<1>3. CASE /\ req[r].expected \in {NoContent, live, req[r].loaded}
           /\ req[r].op = "approve"
  <2> DEFINE q == [req[r] EXCEPT !.pc = "existing"]
  <2>1. /\ q \in RequestState /\ q.op = "approve" /\ q.pc = "existing"
        /\ q.expected = req[r].expected /\ q.seen = req[r].seen
        /\ q.loaded = req[r].loaded
    BY <1>1, <1>3 DEF RequestState
  <2>2. Move(r, q)
    BY <1>3 DEF ReadSnapshot
  <2>3. /\ req'[r] = q
        /\ UNCHANGED <<rowLocks, live, story, versions, proposals, outside>>
    BY <2>2 DEF Move, IInv, TypeOK
  <2>4. q.expected \in Contents /\ q.expected \in {live, req[r].loaded}
    BY <1>1, <1>3, <2>1, PlanAssumption DEF RequestSound
  <2> HIDE DEF q
  <2>5. RequestSound(r)' /\ HolderSound(r)'
    BY <1>1, <2>1, <2>3, <2>4 DEF RequestSound, HolderSound, HoldsStory
  <2> QED BY <1>1, <2>1, <2>2, <2>5, MoveKeepsIInv
<1>4. CASE /\ req[r].expected \in {NoContent, live, req[r].loaded}
           /\ req[r].op # "approve"
  <2> DEFINE q == [req[r] EXCEPT !.pc = "write", !.expected = NoContent]
  <2>1. /\ q \in RequestState /\ q.op = req[r].op /\ q.pc = "write"
        /\ q.p = req[r].p /\ q.seen = req[r].seen /\ q.loaded = req[r].loaded
    BY <1>1 DEF RequestState
  <2>2. Move(r, q)
    BY <1>4 DEF ReadSnapshot
  <2>3. /\ req'[r] = q
        /\ UNCHANGED <<rowLocks, live, story, versions, proposals, outside>>
    BY <2>2 DEF Move, IInv, TypeOK
  <2> HIDE DEF q
  <2>4. RequestSound(r)' /\ HolderSound(r)'
    BY <1>1, <1>4, <2>1, <2>3 DEF RequestSound, HolderSound, HoldsStory
  <2> QED BY <1>1, <2>1, <2>2, <2>4, MoveKeepsIInv
<1> QED BY <1>2, <1>3, <1>4

LEMMA ReadExistingKeepsIInv ==
    ASSUME IInv, NEW r \in Requests, ReadExisting(r)
    PROVE  IInv'
<1>1. /\ req[r] \in RequestState /\ RequestSound(r) /\ HolderSound(r)
      /\ req[r].pc = "existing" /\ req[r].op = "approve" /\ HoldsStory(r)
  BY DEF ReadExisting, At, IInv, TypeOK, RequestSound, HoldsStory
<1>2. CASE Same(r) = {} /\ Move(r, [req[r] EXCEPT !.pc = "number"])
  <2> DEFINE q == [req[r] EXCEPT !.pc = "number"]
  <2>1. /\ q \in RequestState /\ q.op = "approve" /\ q.pc = "number"
        /\ q.expected = req[r].expected /\ q.seen = req[r].seen
        /\ q.loaded = req[r].loaded
    BY <1>1 DEF RequestState
  <2>2. /\ req'[r] = q /\ Current' = Current
        /\ UNCHANGED <<rowLocks, live, story, versions, proposals, outside>>
    BY <1>2 DEF Move, IInv, TypeOK, Current, Approved
  <2>3. \A i \in Current : versions[i].content # q.expected
    BY <1>2, <2>1 DEF Same
  <2> HIDE DEF q
  <2>4. RequestSound(r)' /\ HolderSound(r)'
    BY <1>1, <2>1, <2>2, <2>3 DEF RequestSound, HolderSound, HoldsStory
  <2> QED BY <1>1, <1>2, <2>1, <2>4, MoveKeepsIInv DEF q
<1>3. ASSUME NEW i \in Same(r),
             Move(r, [req[r] EXCEPT !.pc = "keep", !.latest = i])
      PROVE  IInv'
  <2> DEFINE q == [req[r] EXCEPT !.pc = "keep", !.latest = i]
  <2>1. i \in Current /\ versions[i].content = req[r].expected /\ i \in Nat
    BY VersionFacts DEF Same, IInv
  <2>2. /\ q \in RequestState /\ q.op = "approve" /\ q.pc = "keep"
        /\ q.expected = req[r].expected /\ q.seen = req[r].seen
        /\ q.loaded = req[r].loaded /\ q.latest = i
    BY <1>1, <2>1 DEF RequestState
  <2>3. /\ req'[r] = q /\ Current' = Current
        /\ UNCHANGED <<rowLocks, live, story, versions, proposals, outside>>
    BY <1>3 DEF Move, IInv, TypeOK, Current, Approved
  <2> HIDE DEF q
  <2>4. RequestSound(r)' /\ HolderSound(r)'
    BY <1>1, <2>1, <2>2, <2>3 DEF RequestSound, HolderSound, HoldsStory
  <2> QED BY <1>1, <1>3, <2>2, <2>4, MoveKeepsIInv DEF q
<1> QED BY <1>2, <1>3 DEF ReadExisting

LEMMA ReadNumberKeepsIInv ==
    ASSUME IInv, NEW r \in Requests, ReadNumber(r)
    PROVE  IInv'
<1> DEFINE q == [req[r] EXCEPT !.pc = "write", !.latest = Latest,
                               !.previous = Current]
<1>1. /\ req[r] \in RequestState /\ RequestSound(r) /\ HolderSound(r)
      /\ req[r].pc = "number" /\ req[r].op = "approve" /\ HoldsStory(r)
  BY DEF ReadNumber, At, IInv, TypeOK, RequestSound, HoldsStory
<1>2. Latest = Len(versions) /\ Len(versions) \in Nat /\ Current \subseteq Nat
  BY LatestIsLen, VersionFacts DEF IInv
<1>3. /\ q \in RequestState /\ q.op = "approve" /\ q.pc = "write"
      /\ q.expected = req[r].expected /\ q.seen = req[r].seen
      /\ q.loaded = req[r].loaded
      /\ q.latest = Len(versions) /\ q.previous = Current
  BY <1>1, <1>2 DEF RequestState
<1>4. Move(r, q)
  BY DEF ReadNumber
<1>5. /\ req'[r] = q /\ Current' = Current
      /\ UNCHANGED <<rowLocks, live, story, versions, proposals, outside>>
  BY <1>4 DEF Move, IInv, TypeOK, Current, Approved
<1> HIDE DEF q
<1>6. RequestSound(r)' /\ HolderSound(r)'
  BY <1>1, <1>2, <1>3, <1>5 DEF RequestSound, HolderSound, HoldsStory
<1> QED BY <1>1, <1>3, <1>4, <1>6, MoveKeepsIInv

LEMMA RetryKeepsIInv ==
    ASSUME IInv, NEW r \in Requests, RetryApproval(r)
    PROVE  IInv'
<1>1. CASE Refuse(r)
  BY <1>1, RefuseKeepsIInv
<1>2. CASE /\ req[r].attempt # MaxAttempts
           /\ Move(r, [req[r] EXCEPT !.pc = "story", !.attempt = @ + 1])
  <2> DEFINE q == [req[r] EXCEPT !.pc = "story", !.attempt = @ + 1]
  <2>1. req[r] \in RequestState /\ RequestSound(r) /\ req[r].op = "approve"
    BY DEF RetryApproval, Writing, IInv, TypeOK
  <2>2. /\ q \in RequestState /\ q.op = "approve" /\ q.pc = "story"
        /\ q.expected = req[r].expected
    <3>1. req[r].attempt + 1 \in 1 .. MaxAttempts
      BY <1>2, <2>1, PlanAssumption DEF RequestState
    <3> QED BY <2>1, <3>1 DEF RequestState
  <2>3. req'[r] = q
    BY <1>2 DEF Move, IInv, TypeOK
  <2> HIDE DEF q
  <2>4. RequestSound(r)' /\ HolderSound(r)'
    BY <2>1, <2>2, <2>3 DEF RequestSound, HolderSound, HoldsStory
  <2> QED BY <1>2, <2>2, <2>4, MoveKeepsIInv DEF q
<1> QED BY <1>1, <1>2 DEF RetryApproval

---------------------------------------------------------------------------
(* The writers of the story *)

\* A step of the request that holds the story, which ends it and appends one
\* version at most.
LEMMA HolderCloses ==
    ASSUME IInv, NEW r \in Requests, HoldsStory(r), Close(r),
           live' \in Contents, story' \in StoryRow,
           versions' \in Seq(VersionRow),
           versions' = versions \/ Len(versions') = Len(versions) + 1,
           proposals' \in [Proposals -> ProposalRow],
           LedgerConsistent', ApprovedBaseline', LocksSerialize', NoneUnlinked'
    PROVE  IInv'
<1>1. /\ req' = [req EXCEPT ![r] = Idle]
      /\ req' \in [Requests -> RequestState] /\ req'[r] = Idle
      /\ \A s \in Requests \ {r} : req'[s] = req[s] /\ req[s] \in RequestState
      /\ UNCHANGED <<rowLocks, received, outside>>
  BY IdleFacts DEF Close, IInv, TypeOK
<1>2. TypeOK'
  BY <1>1 DEF IInv, TypeOK
<1>3. rowLocks => \A s \in Requests \ {r} : ~HoldsStory(s)
  BY DEF IInv, OneHolder
<1>4. \A s \in Requests \ {r} : HoldsStory(s)' <=> HoldsStory(s)
  BY <1>1 DEF HoldsStory
<1>5. ~HoldsStory(r)'
  BY <1>1, IdleSound
<1>6. OneHolder' /\ \A s \in Requests : HolderSound(s)'
  BY <1>1, <1>3, <1>4, <1>5 DEF OneHolder, HolderSound
<1>7. ASSUME NEW s \in Requests PROVE RequestSound(s)'
  <2>1. CASE s = r
    BY <2>1, <1>1, IdleSound
  <2>2. CASE s # r
    <3>1. req'[s] = req[s] /\ RequestSound(s) /\ req[s].latest \in Nat
      BY <2>2, <1>1 DEF IInv, RequestState
    <3>2. Len(versions) \in Nat /\ Len(versions') \in Nat
      BY VersionFacts DEF IInv
    <3>3. versions' = versions => Current' = Current
      BY DEF Current, Approved
    <3>4. ASSUME req[s].op = "approve", req[s].pc = "write"
          PROVE  /\ req[s].latest <= Len(versions')
                 /\ req[s].latest = Len(versions') => req[s].previous = Current'
      <4>1. CASE versions' = versions
        BY <3>1, <3>3, <3>4, <4>1 DEF RequestSound
      <4>2. CASE Len(versions') = Len(versions) + 1
        BY <3>1, <3>2, <3>4, <4>2 DEF RequestSound
      <4> QED BY <4>1, <4>2
    <3> QED BY <3>1, <3>4 DEF RequestSound
  <2> QED BY <2>1, <2>2
<1> QED BY <1>2, <1>6, <1>7 DEF IInv

\* Such a step that leaves versions and proposals alone keeps what is said of
\* them.
LEMMA LedgerStays ==
    ASSUME IInv, UNCHANGED <<versions, proposals, rowLocks, outside>>,
           rowLocks /\ ~outside => ApprovedIsLive'
    PROVE  /\ LedgerConsistent' /\ ApprovedBaseline' /\ LocksSerialize'
           /\ NoneUnlinked'
           /\ Current' = Current
<1>1. Current' = Current /\ Approved' = Approved
  BY DEF Current, Approved
<1>2. LedgerConsistent' /\ NoneUnlinked'
  BY DEF IInv, LedgerConsistent, NoneUnlinked, MadeBy
<1>3. ApprovedBaseline' /\ (ApprovedOnce => ApprovedOnce')
  BY <1>1 DEF IInv, ApprovedBaseline, ApprovedOnce
<1>4. LocksSerialize'
  BY <1>3 DEF IInv, LocksSerialize
<1> QED BY <1>1, <1>2, <1>3, <1>4

LEMMA EditKeepsIInv ==
    ASSUME IInv, NEW r \in Requests, Edit(r)
    PROVE  IInv'
<1>1. /\ req[r] \in RequestState /\ HolderSound(r) /\ HoldsStory(r)
      /\ story \in StoryRow /\ req[r].seen \in StoryRow
      /\ versions \in Seq(VersionRow) /\ proposals \in [Proposals -> ProposalRow]
  BY DEF Edit, Writing, At, IInv, TypeOK, HoldsStory, RequestState
<1>2. /\ live' \in Contents /\ Close(r)
      /\ story' = [story EXCEPT !.state = Written(@, req[r].seen.state, "draft")]
      /\ UNCHANGED <<versions, proposals, rowLocks, outside>>
  BY DEF Edit, Close
<1>3. story' \in StoryRow
  BY <1>1, <1>2 DEF StoryRow, Written
<1>4. rowLocks => story'.state = "draft"
  BY <1>1, <1>2 DEF HolderSound, Written, StoryRow
<1>5. rowLocks /\ ~outside => ApprovedIsLive'
  BY <1>4 DEF ApprovedIsLive
<1>6. LedgerConsistent' /\ ApprovedBaseline' /\ LocksSerialize' /\ NoneUnlinked'
  BY <1>2, <1>5, LedgerStays
<1> QED BY <1>1, <1>2, <1>3, <1>6, HolderCloses

LEMMA KeepKeepsIInv ==
    ASSUME IInv, NEW r \in Requests, KeepExisting(r)
    PROVE  IInv'
<1>1. /\ req[r] \in RequestState /\ HolderSound(r) /\ req[r].pc = "keep"
      /\ req[r].op = "approve"
      /\ story \in StoryRow /\ req[r].seen \in StoryRow /\ req[r].latest \in Nat
      /\ live \in Contents
      /\ versions \in Seq(VersionRow) /\ proposals \in [Proposals -> ProposalRow]
  BY DEF KeepExisting, At, IInv, TypeOK, RequestSound, RequestState
<1>2. HoldsStory(r)
  BY <1>1 DEF HoldsStory
<1>3. /\ Close(r)
      /\ story' = [state  |-> Written(story.state, req[r].seen.state, "approved"),
                   active |-> Written(story.active, req[r].seen.active,
                                      req[r].latest)]
      /\ UNCHANGED <<live, versions, proposals, rowLocks, outside>>
  BY DEF KeepExisting, Close
<1>4. story' \in StoryRow /\ live' \in Contents
  BY <1>1, <1>3 DEF StoryRow, Written
<1>5. rowLocks /\ ~outside => ApprovedIsLive'
  <2> SUFFICES ASSUME rowLocks, ~outside PROVE ApprovedIsLive'
    OBVIOUS
  <2>1. /\ req[r].seen = story /\ req[r].expected = live
        /\ req[r].latest \in Current
        /\ versions[req[r].latest].content = req[r].expected
    BY <1>1, <1>2 DEF HolderSound
  <2>2. story'.active = req[r].latest
    BY <1>3, <2>1 DEF Written
  <2>3. Current' = Current
    BY <1>3 DEF Current, Approved
  <2> QED BY <1>3, <2>1, <2>2, <2>3 DEF ApprovedIsLive
<1>6. LedgerConsistent' /\ ApprovedBaseline' /\ LocksSerialize' /\ NoneUnlinked'
  BY <1>3, <1>5, LedgerStays
<1> QED BY <1>1, <1>2, <1>3, <1>4, <1>6, HolderCloses

LEMMA ApproveKeepsIInv ==
    ASSUME IInv, NEW r \in Requests, ApprovePlan(r)
    PROVE  IInv'
<1> DEFINE q == req[r]
           N == Len(versions)
           e == Version(q.latest + 1, q.expected, "approved", Manual)
           old == Supersede(r)
<1>1. /\ q \in RequestState /\ q.pc = "write" /\ q.op = "approve"
      /\ HoldsStory(r) /\ HolderSound(r) /\ RequestSound(r)
      /\ q.latest \in Nat /\ q.expected \in Contents
      /\ story \in StoryRow /\ q.seen \in StoryRow /\ live \in Contents
      /\ proposals \in [Proposals -> ProposalRow]
  BY DEF ApprovePlan, Writing, At, IInv, TypeOK, HoldsStory, RequestState,
         RequestSound
<1>2. /\ versions' = Append(old, e)
      /\ story' = [state |-> Written(story.state, q.seen.state, "approved"),
                   active |-> q.latest + 1]
      /\ Close(r) /\ UNCHANGED <<live, proposals, rowLocks, outside>>
      /\ ~Collides(r)
  BY DEF ApprovePlan, Close
<1>3. /\ versions \in Seq(VersionRow) /\ N \in Nat
      /\ \A i \in 1 .. N : versions[i] \in VersionRow /\ versions[i].number = i
  BY VersionFacts DEF IInv, LedgerConsistent
<1>4. q.latest = N /\ q.previous = Current
  <2>1. q.latest <= N
    BY <1>1 DEF RequestSound
  <2>2. q.latest + 1 \notin 1 .. N
    BY <1>2, <1>3 DEF Collides
  <2> QED BY <1>1, <1>3, <2>1, <2>2 DEF RequestSound
<1>5. e \in VersionRow /\ e.number = N + 1 /\ e.content = q.expected
      /\ e.status = "approved" /\ ~e.superseded /\ e.source = Manual
  BY <1>1, <1>3, <1>4 DEF Version, VersionRow
<1>6. /\ old \in Seq(VersionRow) /\ Len(old) = N
      /\ \A i \in 1 .. N :
            old[i] = [versions[i] EXCEPT !.superseded = @ \/ i \in Current]
  <2>1. \A v \in VersionRow, b \in BOOLEAN :
           [v EXCEPT !.superseded = @ \/ b] \in VersionRow
    BY DEF VersionRow
  <2>2. \A i \in 1 .. N :
           [versions[i] EXCEPT !.superseded = @ \/ i \in q.previous] \in VersionRow
    BY <1>3, <2>1
  <2>3. old = [i \in 1 .. N |->
                 [versions[i] EXCEPT !.superseded = @ \/ i \in q.previous]]
    BY DEF Supersede
  <2> HIDE DEF old
  <2> QED BY <1>3, <1>4, <2>2, <2>3
<1>7. /\ versions' \in Seq(VersionRow) /\ Len(versions') = N + 1
      /\ 1 .. Len(versions') = (1 .. N) \cup {N + 1}
      /\ \A i \in 1 .. N : versions'[i] = old[i]
      /\ versions'[N + 1] = e
  <2> HIDE DEF e, old
  <2> QED BY <1>2, <1>5, <1>6, AppendFacts
<1> HIDE DEF e, old
<1>8. \A i \in 1 .. N :
         /\ versions'[i].number = i
         /\ versions'[i].content = versions[i].content
         /\ versions'[i].status = versions[i].status
         /\ versions'[i].source = versions[i].source
         /\ versions'[i].superseded <=> versions[i].superseded \/ i \in Current
  <2> SUFFICES ASSUME NEW i \in 1 .. N
               PROVE  /\ versions'[i].number = i
                      /\ versions'[i].content = versions[i].content
                      /\ versions'[i].status = versions[i].status
                      /\ versions'[i].source = versions[i].source
                      /\ versions'[i].superseded
                           <=> versions[i].superseded \/ i \in Current
    OBVIOUS
  <2> DEFINE v == versions[i]
             b == v.superseded \/ i \in Current
             w == [v EXCEPT !.superseded = b]
  <2>1. v \in VersionRow /\ v.number = i
    BY <1>3
  <2>2. /\ w.number = v.number /\ w.content = v.content
        /\ w.status = v.status /\ w.source = v.source /\ w.superseded = b
    BY <2>1 DEF VersionRow
  <2>3. versions'[i] = w
    BY <1>6, <1>7
  <2> HIDE DEF w
  <2> QED BY <2>1, <2>2, <2>3
<1>9. Approved' = Approved \cup {N + 1}
  BY <1>3, <1>5, <1>7, <1>8 DEF Approved
<1>10. Current' = {N + 1}
  BY <1>3, <1>5, <1>7, <1>8, <1>9 DEF Current, Approved
<1>11. ApprovedBaseline'
  <2>1. \A j \in Approved' : j <= N + 1
    BY <1>3, <1>9 DEF Approved
  <2> QED BY <2>1, <1>9, <1>10 DEF ApprovedBaseline
<1>12. LedgerConsistent' /\ NoneUnlinked'
  <2>1. \A i \in 1 .. Len(versions') : versions'[i].number = i
    BY <1>5, <1>7, <1>8
  <2>2. ASSUME NEW p \in Proposals PROVE MadeBy(p)' = MadeBy(p)
    BY <1>5, <1>7, <1>8, <1>3, PlanAssumption DEF MadeBy
  <2> QED BY <1>2, <2>1, <2>2 DEF IInv, LedgerConsistent, NoneUnlinked
<1>13. rowLocks /\ ~outside => ApprovedIsLive'
  <2> SUFFICES ASSUME rowLocks, ~outside PROVE ApprovedIsLive'
    OBVIOUS
  <2>1. q.expected = live
    BY <1>1 DEF HolderSound
  <2> QED BY <2>1, <1>2, <1>4, <1>5, <1>7, <1>10 DEF ApprovedIsLive
<1>14. rowLocks => ApprovedOnce'
  <2> SUFFICES ASSUME rowLocks, NEW i \in Approved', NEW j \in Approved', i < j,
                      \A k \in Approved' : k <= i \/ k >= j
               PROVE  versions'[i].content # versions'[j].content
    BY DEF ApprovedOnce
  <2>1. Approved \subseteq 1 .. N
    BY VersionFacts DEF IInv
  <2>2. i \in Approved
    BY <1>3, <1>9, <2>1
  <2>3. CASE j \in Approved
    <3>1. versions[i].content # versions[j].content
      BY <1>9, <2>2, <2>3 DEF IInv, LocksSerialize, ApprovedOnce
    <3> QED BY <3>1, <1>8, <2>1, <2>2, <2>3
  <2>4. CASE j = N + 1
    <3>1. \A k \in Approved : k <= i
      BY <1>3, <1>9, <2>1, <2>4
    <3>2. PICK m \in Approved : (\A k \in Approved : k <= m) /\ Current = {m}
      BY <2>2 DEF IInv, ApprovedBaseline
    <3>3. i = m
      BY <3>1, <3>2, <2>1, <2>2
    <3>4. versions[i].content # q.expected
      BY <1>1, <3>2, <3>3 DEF HolderSound
    <3> QED BY <3>4, <1>5, <1>7, <1>8, <2>1, <2>2, <2>4
  <2> QED BY <1>9, <2>3, <2>4
<1>15. LocksSerialize'
  BY <1>2, <1>13, <1>14 DEF LocksSerialize
<1>16. story' \in StoryRow /\ live' \in Contents
       /\ proposals' \in [Proposals -> ProposalRow]
  BY <1>1, <1>2 DEF StoryRow, Written
<1> QED BY <1>1, <1>2, <1>7, <1>11, <1>12, <1>15, <1>16, HolderCloses

LEMMA ApplyKeepsIInv ==
    ASSUME IInv, NEW r \in Requests, ApplyProposal(r)
    PROVE  IInv'
<1> DEFINE q == req[r]
           N == Len(versions)
<1>1. /\ q \in RequestState /\ q.pc = "write" /\ q.op = "apply"
      /\ HoldsStory(r) /\ HolderSound(r) /\ q.p \in Proposals
      /\ story \in StoryRow /\ q.seen \in StoryRow /\ live \in Contents
      /\ proposals \in [Proposals -> ProposalRow]
  BY DEF ApplyProposal, Writing, At, IInv, TypeOK, HoldsStory, RequestState,
         RequestSound
<1>2. Latest = N /\ N \in Nat /\ versions \in Seq(VersionRow)
  BY LatestIsLen, VersionFacts DEF IInv
<1>3. PICK stored \in StoredBy(r) :
         versions' = Append(versions, Version(N + 1, stored, "draft", q.p))
  BY <1>2 DEF ApplyProposal
<1>4. /\ live' \in Contents
      /\ story' = [state |-> Written(story.state, q.seen.state, "draft"),
                   active |-> N + 1]
      /\ proposals' = MarkApplied(q.p, N + 1)
      /\ Close(r) /\ UNCHANGED <<rowLocks, outside>>
  BY <1>2 DEF ApplyProposal, Close
<1> DEFINE e == Version(N + 1, stored, "draft", q.p)
<1>5. stored \in Contents
  BY <1>4 DEF StoredBy
<1>6. e \in VersionRow /\ e.number = N + 1 /\ e.status = "draft" /\ e.source = q.p
  BY <1>1, <1>2, <1>5 DEF Version, VersionRow
<1> HIDE DEF e
<1>7. /\ versions' \in Seq(VersionRow) /\ Len(versions') = N + 1
      /\ 1 .. Len(versions') = (1 .. N) \cup {N + 1}
      /\ \A i \in 1 .. N : versions'[i] = versions[i]
      /\ versions'[N + 1] = e
  BY <1>2, <1>3, <1>6, AppendFacts DEF e
<1>8. Approved' = Approved
  BY <1>6, <1>7 DEF Approved
<1>9. Current' = Current
  BY <1>7, <1>8 DEF Current, Approved
<1>10. ApprovedBaseline'
  BY <1>8, <1>9 DEF IInv, ApprovedBaseline
<1>11. /\ proposals' \in [Proposals -> ProposalRow]
       /\ proposals'[q.p].status = "applied" /\ proposals'[q.p].link = N + 1
       /\ \A p \in Proposals \ {q.p} : proposals'[p] = proposals[p]
  <2> DEFINE row == [proposals[q.p] EXCEPT !.status = "applied", !.link = N + 1]
  <2>1. proposals' = [proposals EXCEPT ![q.p] = row]
    BY <1>1, <1>4 DEF MarkApplied
  <2>2. N + 1 \in Nat /\ proposals[q.p] \in ProposalRow
    BY <1>1, <1>2
  <2> HIDE DEF N, q
  <2>3. row \in ProposalRow /\ row.status = "applied" /\ row.link = N + 1
    BY <2>2 DEF ProposalRow
  <2> HIDE DEF row
  <2> QED BY <1>1, <2>1, <2>3 DEF q
<1>12. LedgerConsistent' /\ NoneUnlinked'
  <2>1. \A i \in 1 .. Len(versions') : versions'[i].number = i
    BY <1>6, <1>7 DEF IInv, LedgerConsistent
  <2> DEFINE made(p) == {i \in 1 .. Len(versions') : versions'[i].source = p}
  <2>2. N + 1 \in made(q.p)
    BY <1>6, <1>7
  <2>3. \A p \in Proposals \ {q.p} : MadeBy(p)' = MadeBy(p)
    BY <1>6, <1>7 DEF MadeBy
  <2>5. \A p \in Proposals : p = q.p => N + 1 \in MadeBy(p)'
    BY <2>2 DEF MadeBy
  <2>4. N + 1 # 0
    BY <1>2
  <2>6. ASSUME NEW p \in Proposals
        PROVE  /\ proposals'[p].link # 0 => proposals'[p].link \in MadeBy(p)'
               /\ MadeBy(p)' # {} => proposals'[p].link # 0
               /\ proposals'[p].status = "applied" => proposals'[p].link # 0
               /\ proposals'[p].status = "none" => proposals'[p].link = 0
    <3>1. CASE p = q.p
      BY <3>1, <2>4, <2>5, <1>11
    <3>2. CASE p # q.p
      BY <3>2, <2>3, <1>11 DEF IInv, LedgerConsistent, NoneUnlinked
    <3> QED BY <3>1, <3>2
  <2> QED BY <2>1, <2>6 DEF LedgerConsistent, NoneUnlinked
<1>13. rowLocks => ApprovedIsLive'
  BY <1>1, <1>4 DEF HolderSound, ApprovedIsLive, Written, StoryRow
<1>14. rowLocks => ApprovedOnce'
  <2>1. Approved \subseteq 1 .. N
    BY VersionFacts DEF IInv
  <2> QED BY <2>1, <1>7, <1>8 DEF IInv, LocksSerialize, ApprovedOnce
<1>15. LocksSerialize'
  BY <1>4, <1>13, <1>14 DEF LocksSerialize
<1>16. story' \in StoryRow
  BY <1>1, <1>2, <1>4 DEF StoryRow, Written
<1> QED BY <1>1, <1>4, <1>7, <1>10, <1>11, <1>12, <1>15, <1>16, HolderCloses

---------------------------------------------------------------------------
(* Steps that change a proposal only, and the writer outside the lock *)

LEMMA ProposalsChange ==
    ASSUME IInv, UNCHANGED <<rowLocks, live, story, versions, outside>>,
           proposals' \in [Proposals -> ProposalRow],
           LedgerConsistent', NoneUnlinked',
           received' \in 0 .. MaxRequests,
           \/ UNCHANGED req
           \/ \E r \in Requests : req' = [req EXCEPT ![r] = Idle]
    PROVE  IInv'
<1>1. /\ req' \in [Requests -> RequestState]
      /\ \A s \in Requests : req'[s] = req[s] \/ req'[s] = Idle
  BY IdleFacts DEF IInv, TypeOK
<1>2. TypeOK'
  BY <1>1 DEF IInv, TypeOK
<1>3. Current' = Current /\ Approved' = Approved
  BY DEF Current, Approved
<1>4. ApprovedBaseline' /\ LocksSerialize'
  BY <1>3 DEF IInv, ApprovedBaseline, LocksSerialize, ApprovedIsLive, ApprovedOnce
<1>5. \A s \in Requests : HoldsStory(s)' => HoldsStory(s) /\ req'[s] = req[s]
  BY <1>1, IdleFacts DEF HoldsStory
<1>6. OneHolder'
  BY <1>5 DEF IInv, OneHolder
<1>7. ASSUME NEW s \in Requests PROVE RequestSound(s)' /\ HolderSound(s)'
  <2>1. CASE req'[s] = Idle
    BY <2>1, <1>1, IdleSound
  <2>2. CASE req'[s] = req[s]
    BY <2>2, <1>3, <1>5 DEF IInv, RequestSound, HolderSound
  <2> QED BY <2>1, <2>2, <1>1
<1> QED BY <1>2, <1>4, <1>6, <1>7 DEF IInv

\* A proposal keeps its version, and none becomes applied or new.
LEMMA LinksStay ==
    ASSUME IInv, UNCHANGED versions,
           \A p \in Proposals :
              /\ proposals'[p].link = proposals[p].link
              /\ proposals'[p].status = "applied" => proposals[p].status = "applied"
              /\ proposals'[p].status = "none" => proposals[p].status = "none"
    PROVE  LedgerConsistent' /\ NoneUnlinked'
  BY DEF IInv, LedgerConsistent, NoneUnlinked, MadeBy

LEMMA ProposalWritersKeepIInv ==
    ASSUME IInv, NEW r \in Requests,
           FailValidation(r) \/ ReviewProposal(r) \/ RejectProposal(r)
    PROVE  IInv'
<1> DEFINE p == req[r].p
<1>1. /\ req[r] \in RequestState /\ RequestSound(r)
      /\ req[r].op \in {"apply", "review", "reject"} /\ p \in Proposals
      /\ proposals \in [Proposals -> ProposalRow]
  BY DEF FailValidation, ReviewProposal, RejectProposal, Writing, IInv, TypeOK,
         RequestSound
<1>2. /\ UNCHANGED <<rowLocks, live, story, versions, outside>>
      /\ req' = [req EXCEPT ![r] = Idle] /\ received' \in 0 .. MaxRequests
  BY DEF FailValidation, ReviewProposal, RejectProposal, Close, IInv, TypeOK
<1>3. ASSUME NEW row \in ProposalRow, proposals' = [proposals EXCEPT ![p] = row],
             row.link = proposals[p].link,
             row.status = "applied" => proposals[p].status = "applied",
             row.status = "none" => proposals[p].status = "none"
      PROVE  IInv'
  <2>1. proposals' \in [Proposals -> ProposalRow]
    BY <1>1, <1>3
  <2>2. LedgerConsistent' /\ NoneUnlinked'
    BY <1>1, <1>2, <1>3, LinksStay
  <2> QED BY <1>2, <2>1, <2>2, ProposalsChange
<1>4. proposals[p] \in ProposalRow
  BY <1>1
<1>5. CASE FailValidation(r)
  <2> DEFINE row == [proposals[p] EXCEPT !.invalid = TRUE]
  <2>1. row \in ProposalRow /\ row.link = proposals[p].link
        /\ row.status = proposals[p].status
    BY <1>4 DEF ProposalRow
  <2>2. proposals' = [proposals EXCEPT ![p] = row]
    BY <1>5 DEF FailValidation
  <2> HIDE DEF row
  <2> QED BY <2>1, <2>2, <1>3
<1>6. CASE ReviewProposal(r)
  <2> DEFINE s == Written(proposals[p].status, req[r].record.status, "validated")
             row == [proposals[p] EXCEPT !.status = s]
  <2>1. s \in {proposals[p].status, "validated"}
    BY DEF Written
  <2>2. row \in ProposalRow /\ row.link = proposals[p].link /\ row.status = s
    BY <2>1, <1>4 DEF ProposalRow
  <2>3. proposals' = [proposals EXCEPT ![p] = row]
    BY <1>6 DEF ReviewProposal
  <2> HIDE DEF row, s
  <2> QED BY <2>1, <2>2, <2>3, <1>3
<1>7. CASE RejectProposal(r)
  <2> DEFINE row == [proposals[p] EXCEPT !.status = "rejected"]
  <2>1. row \in ProposalRow /\ row.link = proposals[p].link
        /\ row.status = "rejected"
    BY <1>4 DEF ProposalRow
  <2>2. proposals' = [proposals EXCEPT ![p] = row]
    BY <1>7 DEF RejectProposal
  <2> HIDE DEF row
  <2> QED BY <2>1, <2>2, <1>3
<1> QED BY <1>5, <1>6, <1>7

LEMMA CreateKeepsIInv ==
    ASSUME IInv, NEW p \in Proposals, CreateProposal(p)
    PROVE  IInv'
<1>1. PICK status \in {"pending_review", "needs_review", "validated"},
           base \in {0, story.active}, e \in {NoContent, live} :
         proposals' = [proposals EXCEPT ![p] =
                         [status |-> status,
                          invalid |-> (status = "pending_review"),
                          base |-> base, expected |-> e, link |-> 0]]
  BY DEF CreateProposal
<1>2. /\ proposals[p].status = "none" /\ proposals[p].link = 0
      /\ UNCHANGED <<rowLocks, live, story, versions, req, received, outside>>
      /\ base \in Nat /\ e \in Contents \cup {NoContent}
      /\ proposals \in [Proposals -> ProposalRow]
      /\ received \in 0 .. MaxRequests
  BY DEF CreateProposal, IInv, NoneUnlinked, TypeOK, StoryRow
<1>3. /\ proposals' \in [Proposals -> ProposalRow]
      /\ proposals'[p].status = status /\ proposals'[p].link = 0
      /\ \A x \in Proposals \ {p} : proposals'[x] = proposals[x]
  BY <1>1, <1>2 DEF ProposalRow
<1>4. LedgerConsistent' /\ NoneUnlinked'
  BY <1>2, <1>3, LinksStay
<1> QED BY <1>2, <1>3, <1>4, ProposalsChange

LEMMA AttachKeepsIInv ==
    ASSUME IInv, AttachImage
    PROVE  IInv'
<1>1. /\ live' \in Contents /\ outside' = TRUE
      /\ UNCHANGED <<rowLocks, story, versions, proposals, req, received>>
  BY DEF AttachImage
<1>2. TypeOK'
  BY <1>1 DEF IInv, TypeOK
<1>3. /\ Current' = Current /\ Approved' = Approved
      /\ \A r \in Requests : HoldsStory(r)' <=> HoldsStory(r)
  BY <1>1 DEF Current, Approved, HoldsStory
<1>4. LedgerConsistent' /\ ApprovedBaseline' /\ NoneUnlinked' /\ OneHolder'
  BY <1>1, <1>3 DEF IInv, LedgerConsistent, MadeBy, ApprovedBaseline, NoneUnlinked,
                    OneHolder
<1>5. LocksSerialize'
  BY <1>1, <1>3 DEF IInv, LocksSerialize, ApprovedOnce
<1>6. \A r \in Requests : RequestSound(r)' /\ HolderSound(r)'
  BY <1>1, <1>3 DEF IInv, RequestSound, HolderSound
<1> QED BY <1>2, <1>4, <1>5, <1>6 DEF IInv

LEMMA InitIInv == Init => IInv
<1> SUFFICES ASSUME Init PROVE IInv
  OBVIOUS
<1>1. TypeOK
  <2>1. /\ story \in StoryRow /\ versions \in Seq(VersionRow)
        /\ proposals \in [Proposals -> ProposalRow]
        /\ req \in [Requests -> RequestState]
    BY IdleFacts DEF Init, StoryRow
  <2>2. received \in 0 .. MaxRequests
    BY PlanAssumption DEF Init
  <2> QED BY <2>1, <2>2 DEF Init, TypeOK
<1>2. Len(versions) = 0 /\ Approved = {} /\ Current = {}
  BY DEF Init, Approved, Current
<1>3. LedgerConsistent /\ NoneUnlinked
  BY <1>2 DEF Init, LedgerConsistent, NoneUnlinked, MadeBy, NoProposal
<1>4. ApprovedBaseline /\ LocksSerialize
  BY <1>2 DEF Init, ApprovedBaseline, LocksSerialize, ApprovedIsLive, ApprovedOnce
<1>5. \A r \in Requests : req[r] = Idle
  BY DEF Init
<1>6. OneHolder /\ \A r \in Requests : RequestSound(r) /\ HolderSound(r)
  BY <1>5, IdleFacts DEF OneHolder, RequestSound, HolderSound, HoldsStory
<1> QED BY <1>1, <1>3, <1>4, <1>6 DEF IInv

LEMMA StutterKeepsIInv ==
    ASSUME IInv, UNCHANGED vars
    PROVE  IInv'
<1>1. UNCHANGED <<rowLocks, live, story, versions, outside, req, proposals>>
      /\ received' \in 0 .. MaxRequests /\ proposals' \in [Proposals -> ProposalRow]
  BY DEF vars, IInv, TypeOK
<1>2. LedgerConsistent' /\ NoneUnlinked'
  BY <1>1, LinksStay
<1> QED BY <1>1, <1>2, ProposalsChange

LEMMA NextKeepsIInv == IInv /\ [Next]_vars => IInv'
<1> SUFFICES ASSUME IInv, [Next]_vars PROVE IInv'
  OBVIOUS
<1>1. ASSUME NEW r \in Requests, Step(r) PROVE IInv'
  <2>1. CASE \/ BeginEdit(r) \/ BeginApprove(r)
             \/ \E p \in Proposals : \/ BeginApply(r, p) \/ BeginReview(r, p)
                                     \/ BeginReject(r, p)
    BY <2>1, BeginningsKeepIInv
  <2>2. CASE ReadStory(r) \/ ReadSnapshot(r) \/ ReadExisting(r) \/ ReadNumber(r)
    BY <2>2, ReadStoryKeepsIInv, ReadSnapshotKeepsIInv, ReadExistingKeepsIInv,
       ReadNumberKeepsIInv
  <2>3. CASE FailValidation(r) \/ ReviewProposal(r) \/ RejectProposal(r)
    BY <2>3, ProposalWritersKeepIInv
  <2>4. CASE Fail(r)
    BY <2>4, RefuseKeepsIInv DEF Fail
  <2>5. CASE Edit(r) \/ KeepExisting(r)
    BY <2>5, EditKeepsIInv, KeepKeepsIInv
  <2>6. CASE ApprovePlan(r) \/ RetryApproval(r)
    BY <2>6, ApproveKeepsIInv, RetryKeepsIInv
  <2>7. CASE ApplyProposal(r)
    BY <2>7, ApplyKeepsIInv
  <2> QED BY <1>1, <2>1, <2>2, <2>3, <2>4, <2>5, <2>6, <2>7 DEF Step
<1> QED BY <1>1, CreateKeepsIInv, AttachKeepsIInv, StutterKeepsIInv DEF Next

\* The inductive invariant holds in every state of every plan.
THEOREM SpecIInv == Spec => []IInv
<1> QED BY InitIInv, NextKeepsIInv, PTL DEF Spec

\* The rows and the sessions keep their types, whatever the requests do.
THEOREM TypeCorrect == Spec => []TypeOK
<1>1. IInv => TypeOK
  BY DEF IInv
<1> QED BY <1>1, SpecIInv, PTL

\* On both databases, and for any number of racing approvals, applies, reviews
\* and rejections: no gap in the version numbers, and every applied proposal
\* names a version it made.
THEOREM LedgerIsConsistent == Spec => []LedgerConsistent
<1>1. IInv => LedgerConsistent
  BY DEF IInv
<1> QED BY <1>1, SpecIInv, PTL

\* Without any lock the newest approved version is the only one that is not
\* superseded.
THEOREM OneBaseline == Spec => []ApprovedBaseline
<1>1. IInv => ApprovedBaseline
  BY DEF IInv
<1> QED BY <1>1, SpecIInv, PTL

\* Where the row lock is honoured an approved story is what was approved, until
\* a writer goes around the lock, and nothing is approved twice in a row.
THEOREM LockSerializes == Spec => []LocksSerialize
<1>1. IInv => LocksSerialize
  BY DEF IInv
<1> QED BY <1>1, SpecIInv, PTL
=============================================================================
