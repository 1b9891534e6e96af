-------------------------- MODULE PlanningRun_proofs --------------------------
(***************************************************************************)
(* Proofs about PlanningRun, for any number of start and cancel requests,  *)
(* steps, repairs and crashes: a run is leased exactly while it runs, a    *)
(* worker that lost the lease writes nothing into the plan of its          *)
(* successor, what is recorded was planned from the story of the run's     *)
(* creation, no worker abandons a run in its own name, a proposal rests on *)
(* an answer to every step, the attempts at a step have a bound, and the   *)
(* engine as a whole implements DurableRun.                                *)
(*                                                                         *)
(* The argument for the lease.  After a renewal a worker keeps to steps in *)
(* which it does not wait (Fenced) until the next call of the provider or  *)
(* the next renewal, so its lease cannot run out under it; and nobody      *)
(* claims a run whose lease is ahead.  It can only lose the run by its     *)
(* end, and then nobody has the lease.                                     *)
(***************************************************************************)
EXTENDS PlanningRun, TLAPS, FiniteSetTheorems

Job == [pc : Places, phase : {"loop", "call", "settle"}, seq : Nat \ {0},
        seen : RunStatus, head : StepStatus, context : Content, rung : Nat,
        result : {"none", "ok", "invalid", "transport"}, late : Nat]

Types == /\ status \in RunStatus /\ token \in Token \cup {NoToken}
         /\ lease \in {"none", "live", "expired"}
         /\ step \in [Steps -> StepStatus] /\ job \in [Token -> Job]
         /\ story \in {"created", "edited"} /\ origin \in [Steps -> Content]

\* Places between a renewal and the next wait or renewal.
Fenced == {"look", "start", "check", "call", "settle", "record", "propose",
           "finish", "complete"}

LeaseHeld == \A t \in Token : job[t].pc \in Fenced =>
               (token = t /\ lease = "live") \/ status \in Terminal

\* Places after the hash of the story was found to be the one of the creation.
Planning == {"load", "renew", "look", "start", "check", "call", "provider",
             "settle", "record", "after"}

OneContext == \A t \in Token :
  /\ job[t].pc \in Planning => job[t].context = "created"
  /\ job[t].pc = "hash" => job[t].context \in {"created", "edited"}
  /\ job[t].pc = "hash" /\ job[t].context = "edited" => story = "edited"

IInv == Types /\ LeaseFollowsRun /\ LeaseHeld /\ OneContext /\ OneStory

\* A fresh record of a worker is a worker's record.
LEMMA NewJobType == NewJob \in Job
  BY DEF NewJob, Job, Places, RunStatus, StepStatus, Content

\* The run is created pending and unleased, with every step open.
LEMMA InitInv == Init => IInv
  <1> SUFFICES ASSUME Init PROVE IInv OBVIOUS
  <1> USE PlanningConstants, NewJobType DEF Init
  <1>1. Types BY DEF Types, RunStatus, StepStatus, Steps, Content
  <1>2. \A t \in Token : job[t].pc = "idle" BY DEF NewJob
  <1>3. LeaseFollowsRun BY DEF LeaseFollowsRun
  <1>4. LeaseHeld BY <1>2 DEF LeaseHeld, Fenced
  <1>5. OneContext BY <1>2 DEF OneContext, Planning
  <1>6. OneStory BY DEF OneStory
  <1> QED BY <1>1, <1>3, <1>4, <1>5, <1>6 DEF IInv

-----------------------------------------------------------------------------
(***************************************************************************)
(* A step of a worker changes its own record only; it renews or ends the   *)
(* run, but never claims it; it comes to a fenced place with its lease, to *)
(* the planning of a story with the story it was created for, and records  *)
(* only what was planned from that.                                        *)
(***************************************************************************)
RunEffect == \/ UNCHANGED <<status, token, lease>>
             \/ status' \in Terminal /\ token' = NoToken /\ lease' = "none"

JobEffect(t) ==
  /\ job'[t] \in Job /\ job' = [job EXCEPT ![t] = job'[t]]
  /\ job'[t].pc \in Fenced => (token = t /\ lease = "live") \/ status \in Terminal
  /\ job'[t].pc \in Planning => job'[t].context = "created"
  /\ job'[t].pc = "hash" => job'[t].context = story

PlanEffect ==
  /\ step' \in [Steps -> StepStatus] /\ origin' \in [Steps -> Content]
  /\ \A i \in Steps : step'[i] = "completed" =>
       origin'[i] = "created" \/ (step[i] = "completed" /\ origin'[i] = origin[i])

Effect(t) == RunEffect /\ JobEffect(t) /\ PlanEffect /\ UNCHANGED story

\* Moving a worker to a place that is not guarded.
Open == Places \ (Fenced \cup Planning \cup {"hash"})

LEMMA LeaveEffect ==
  ASSUME Types, NEW t \in Token, NEW place \in Open, Leave(t, place)
  PROVE  JobEffect(t)
  <1> DEFINE r == [NewJob EXCEPT !.pc = place, !.late = job[t].late]
  <1>1. job[t] \in Job /\ job' = [job EXCEPT ![t] = r] BY DEF Leave, Types
  <1>2. r \in Job BY <1>1, NewJobType DEF Job, Open
  <1>3. r.pc = place BY NewJobType DEF Job
  <1>4. job'[t] = r BY <1>1 DEF Types
  <1> HIDE DEF r
  <1> QED BY <1>1, <1>2, <1>3, <1>4 DEF JobEffect, Open

LEMMA FailEffect ==
  ASSUME Types, NEW t \in Token, NEW seen \in RunStatus, FailRun(t, seen)
  PROVE  JobEffect(t) /\ RunEffect
  <1>1. Leave(t, "done") BY DEF FailRun
  <1>2. "done" \in Open BY DEF Open, Places, Fenced, Planning
  <1>3. JobEffect(t) BY <1>1, <1>2, LeaveEffect
  <1>4. RunEffect BY DEF FailRun, Transition, Terminal, run, RunEffect
  <1> QED BY <1>3, <1>4

\* Steps of a worker at a place that is neither fenced nor planning.
LEMMA EntryEffect ==
  ASSUME IInv, NEW t \in Token,
         Submit(t) \/ Refuse(t) \/ Begin(t) \/ Enter(t) \/ Boundary(t) \/ BuildContext(t)
  PROVE  Effect(t)
  <1> USE DEF IInv, At, Goto, Remember, NotLeased
  <1>0. PlanEffect /\ RunEffect /\ UNCHANGED story
    BY DEF Submit, Refuse, Begin, Enter, Boundary, BuildContext, db, run, plan,
           PlanEffect, RunEffect, Types, OneStory
  <1>1. {"done", "refused"} \subseteq Open BY DEF Open, Places, Fenced, Planning
  <1>2. job[t] \in Job BY DEF Types
  <1>3. CASE Leave(t, "done") \/ Leave(t, "refused")
    BY <1>0, <1>1, <1>3, LeaveEffect DEF Effect
  <1>4. CASE \E place \in Open : job' = [job EXCEPT ![t].pc = place]
    <2>1. PICK place \in Open : job' = [job EXCEPT ![t].pc = place] BY <1>4
    <2>2. job'[t] = [job[t] EXCEPT !.pc = place] BY <2>1 DEF Types
    <2>3. job' = [job EXCEPT ![t] = job'[t]] BY <2>1, <2>2 DEF Types
    <2>4. job'[t] \in Job /\ job'[t].pc = place BY <1>2, <2>2 DEF Job, Open
    <2> QED BY <1>0, <2>3, <2>4 DEF Effect, JobEffect, Open
  <1>5. CASE Remember(t, "failing")
    BY <1>0, <1>2, <1>5 DEF Effect, JobEffect, Types, Job, Fenced, Planning, Places
  <1>6. CASE BuildContext(t)
    BY <1>0, <1>2, <1>6 DEF BuildContext, Effect, JobEffect, Types, Job, Fenced, Planning,
                            Places, Content
  <1>7. {"queued", "enter", "boundary", "context"} \subseteq Open
    BY DEF Open, Places, Fenced, Planning
  <1>8. CASE Submit(t) BY <1>4, <1>7, <1>8 DEF Submit
  <1>9. CASE Refuse(t) BY <1>3, <1>9 DEF Refuse
  <1>10. CASE Begin(t) BY <1>3, <1>4, <1>7, <1>10 DEF Begin
  <1>11. CASE Enter(t) BY <1>3, <1>4, <1>7, <1>11 DEF Enter
  <1>12. CASE Boundary(t) BY <1>3, <1>5, <1>12 DEF Boundary
  <1> QED BY <1>6, <1>8, <1>9, <1>10, <1>11, <1>12

\* Steps at a planning place that stay in the planning, or wait.
LEMMA PlanningEffect ==
  ASSUME IInv, NEW t \in Token,
         CheckHash(t) \/ Load(t) \/ Renew(t) \/ Look(t) \/ Check(t) \/ Call(t)
         \/ Return(t) \/ RetryBudgetSpent(t) \/ After(t) \/ Propose(t) \/ Finish(t)
  PROVE  Effect(t)
  <1> USE DEF IInv, At, Goto, Remember
  <1>0. PlanEffect /\ UNCHANGED story
    BY DEF CheckHash, Load, Renew, Look, Check, Call, Return, RetryBudgetSpent, After,
           Propose, Finish, db, run, plan, PlanEffect, Types, OneStory
  <1>1. job[t] \in Job BY DEF Types
  <1>2. {"done"} \subseteq Open BY DEF Open, Places, Fenced, Planning
  <1>3. CASE Leave(t, "done") /\ UNCHANGED run
    BY <1>0, <1>2, <1>3, LeaveEffect DEF Effect, RunEffect, run
  <1>4. CASE FailRun(t, job[t].seen)
    BY <1>0, <1>1, <1>4, FailEffect DEF Effect, Job
  <1> USE <1>0, <1>1 DEF Effect, JobEffect, RunEffect, Types, Job, Fenced, Planning, Places
  <1>5. CASE CheckHash(t)
    BY <1>4, <1>5 DEF CheckHash, OneContext, run
  <1>6. CASE Load(t) BY <1>6 DEF Load, OneContext, db, run
  <1>7. CASE Renew(t) BY <1>4, <1>7 DEF Renew, OneContext, AfterRenewal, Holds, run
  <1>8. CASE Look(t)
    <2>1. UNCHANGED run BY <1>8 DEF Look, db
    <2>2. CASE Leave(t, "done") BY <1>3, <2>1, <2>2
    <2>3. CASE ~ Leave(t, "done") /\ job[t].seq > NSteps
      BY <1>8, <2>1, <2>3, PlanningConstants DEF Look, LeaseHeld, OneContext, run
    <2>4. CASE ~ Leave(t, "done") /\ ~ (job[t].seq > NSteps)
      <3>1. job[t].seq \in Steps /\ step[job[t].seq] \in StepStatus
        BY <2>4, PlanningConstants DEF Steps
      <3> QED BY <1>8, <2>1, <2>4, <3>1, PlanningConstants DEF Look, LeaseHeld, OneContext, run
    <2> QED BY <2>2, <2>3, <2>4
  <1>9. CASE Check(t) BY <1>3, <1>9 DEF Check, LeaseHeld, OneContext, db, run
  <1>10. CASE Call(t)
    <2> DEFINE n == IF Holds(t) THEN job[t].late ELSE job[t].late + 1
    <2>1. job' = [job EXCEPT ![t].pc = "provider", ![t].late = n]
      BY <1>10 DEF Call
    <2>2. UNCHANGED run /\ n \in Nat BY <1>10 DEF Call
    <2> HIDE DEF n
    <2>3. job'[t] = [job[t] EXCEPT !.pc = "provider", !.late = n] BY <2>1
    <2>4. job' = [job EXCEPT ![t] = job'[t]] BY <2>1, <2>3
    <2>5. job'[t] \in Job BY <2>2, <2>3
    <2>6. job'[t].pc = "provider" /\ job'[t].context = "created"
      BY <1>10, <2>3 DEF Call, OneContext
    <2> QED BY <2>2, <2>4, <2>5, <2>6 DEF run
  <1>11. CASE Return(t)
    <2>1. PICK r \in {"ok", "invalid", "transport"} :
            job' = [job EXCEPT ![t].pc = "load", ![t].phase = "settle", ![t].result = r]
      BY <1>11 DEF Return
    <2>2. UNCHANGED run BY <1>11 DEF Return, db
    <2> QED BY <1>11, <2>1, <2>2 DEF Return, OneContext, run
  <1>12. CASE RetryBudgetSpent(t) BY <1>3, <1>12 DEF RetryBudgetSpent, db, run
  <1>13. CASE After(t) BY <1>3, <1>13 DEF After, OneContext, db, run
  <1>14. CASE Propose(t) BY <1>14 DEF Propose, LeaseHeld, run
  <1>15. CASE Finish(t) BY <1>3, <1>15 DEF Finish, LeaseHeld, db, run
  <1> QED BY <1>5, <1>6, <1>7, <1>8, <1>9, <1>10, <1>11, <1>12, <1>13, <1>14, <1>15

\* Steps that write the run or the plan.
LEMMA WriteEffect ==
  ASSUME IInv, NEW t \in Token,
         Raise(t) \/ Fail(t) \/ StartStep(t) \/ ResumeStep(t) \/ Settle(t)
         \/ RecordSuccess(t) \/ RecordFailure(t) \/ Repair(t) \/ Complete(t)
  PROVE  Effect(t)
  <1> USE DEF IInv, At, Goto, Remember
  <1>1. job[t] \in Job BY DEF Types
  <1>2. {"done"} \subseteq Open BY DEF Open, Places, Fenced, Planning
  <1>3. ASSUME Leave(t, "done") PROVE JobEffect(t) BY <1>2, <1>3, LeaveEffect
  <1>4. ASSUME NEW seen \in RunStatus, FailRun(t, seen) PROVE JobEffect(t) /\ RunEffect
    BY <1>4, FailEffect
  <1>5. job[t].seen \in RunStatus /\ status \in RunStatus BY <1>1 DEF Job, Types
  <1>6. ASSUME UNCHANGED <<step, origin>> PROVE PlanEffect
    BY <1>6 DEF PlanEffect, Types, OneStory
  <1>7. CASE Raise(t) BY <1>4, <1>5, <1>6, <1>7 DEF Raise, Effect, plan
  <1>8. CASE Fail(t) BY <1>4, <1>5, <1>6, <1>8 DEF Fail, Effect, plan
  <1>9. CASE StartStep(t)
    BY <1>1, <1>9 DEF StartStep, Effect, JobEffect, RunEffect, PlanEffect, Types, Job, Fenced,
                      Planning, Places, OneContext, OneStory, StepStatus, run
  <1>10. CASE ResumeStep(t)
    <2>1. PlanEffect /\ UNCHANGED story BY <1>6, <1>10 DEF ResumeStep, plan
    <2>2. CASE Holds(t)
      BY <1>1, <1>10, <2>1, <2>2 DEF ResumeStep, Effect, JobEffect, RunEffect, Types, Job,
                      Fenced, Planning, Places, OneContext, Holds, run
    <2>3. CASE ~ Holds(t) BY <1>4, <1>5, <1>10, <2>1, <2>3 DEF ResumeStep, Effect
    <2> QED BY <2>2, <2>3
  <1>11. CASE Settle(t)
    <2>1. PlanEffect /\ RunEffect /\ UNCHANGED story
      BY <1>6, <1>11 DEF Settle, RunEffect, run
    <2>2. CASE status = "canceled" BY <1>3, <1>11, <2>1, <2>2 DEF Settle, Effect
    <2>3. CASE status # "canceled"
      BY <1>1, <1>11, <2>1, <2>3 DEF Settle, Effect, JobEffect, Types, Job, Fenced, Planning,
                      Places, OneContext, LeaseHeld
    <2> QED BY <2>2, <2>3
  <1>12. CASE RecordSuccess(t)
    <2>1. CASE step[job[t].seq] \in {"running", "completed"}
      <3>1. job[t].context = "created" BY <1>12 DEF RecordSuccess, OneContext, Planning
      <3>2. PlanEffect
        <4> DEFINE i == job[t].seq
        <4>1. /\ step' = [step EXCEPT ![i] = "completed"]
              /\ origin' = [origin EXCEPT ![i] = "created"]
          BY <1>12, <2>1, <3>1 DEF RecordSuccess
        <4> HIDE DEF i
        <4>2. step' \in [Steps -> StepStatus] BY <4>1 DEF Types, StepStatus
        <4>3. origin' \in [Steps -> Content] BY <4>1 DEF Types, Content
        <4>4. ASSUME NEW k \in Steps, step'[k] = "completed"
              PROVE  origin'[k] = "created" \/ (step[k] = "completed" /\ origin'[k] = origin[k])
          <5>1. CASE k = i
            <6>1. origin'[k] = [origin EXCEPT ![k] = "created"][k] BY <4>1, <5>1
            <6>2. DOMAIN origin = Steps BY DEF Types
            <6> QED BY ONLY <6>1, <6>2, k \in Steps
          <5>2. CASE k # i BY <4>1, <4>4, <5>2 DEF Types
          <5> QED BY <5>1, <5>2
        <4> QED BY <4>2, <4>3, <4>4 DEF PlanEffect
      <3>3. RunEffect /\ UNCHANGED story
        BY <1>12, <2>1 DEF RecordSuccess, RunEffect, run
      <3> QED BY <1>1, <1>12, <2>1, <3>1, <3>2, <3>3 DEF RecordSuccess, Effect, JobEffect,
                      Types, Job, Fenced, Planning, Places
    <2>2. CASE step[job[t].seq] \notin {"running", "completed"}
      BY <1>4, <1>5, <1>6, <1>12, <2>2 DEF RecordSuccess, Effect
    <2> QED BY <2>1, <2>2
  <1>13. CASE RecordFailure(t)
    <2>1. PlanEffect
      BY <1>13 DEF RecordFailure, PlanEffect, Types, OneStory, StepStatus, plan
    <2> QED BY <1>4, <1>5, <1>13, <2>1 DEF RecordFailure, Effect
  <1>14. CASE Repair(t)
    <2>1. PlanEffect /\ RunEffect /\ UNCHANGED story
      BY <1>14 DEF Repair, PlanEffect, RunEffect, Types, OneStory, StepStatus
    <2> DEFINE n == IF CanEscalate(t) THEN job[t].rung + 1 ELSE job[t].rung
    <2>2. job' = [job EXCEPT ![t].pc = "load", ![t].phase = "call", ![t].rung = n]
      BY <1>14 DEF Repair
    <2>3. n \in Nat BY <1>1 DEF Job
    <2> HIDE DEF n
    <2>4. job'[t] = [job[t] EXCEPT !.pc = "load", !.phase = "call", !.rung = n]
      BY <2>2 DEF Types
    <2>5. job' = [job EXCEPT ![t] = job'[t]] BY <2>2, <2>4 DEF Types
    <2>6. job'[t] \in Job BY <1>1, <2>3, <2>4 DEF Job, Places
    <2>7. job[t].context = "created" BY <1>14 DEF Repair, OneContext, Planning
    <2>8. job'[t].pc = "load" /\ job'[t].context = "created" BY <1>1, <2>4, <2>7 DEF Job
    <2> QED BY <2>1, <2>5, <2>6, <2>8 DEF Effect, JobEffect, Fenced, Planning
  <1>15. CASE Complete(t)
    BY <1>3, <1>6, <1>15 DEF Complete, Effect, RunEffect, Transition, Terminal, plan
  <1> QED BY <1>7, <1>8, <1>9, <1>10, <1>11, <1>12, <1>13, <1>14, <1>15

-----------------------------------------------------------------------------
(***************************************************************************)
(* The invariant is inductive.                                             *)
(***************************************************************************)
LEMMA WorkEffect ==
  ASSUME IInv, NEW t \in Token, Work(t) PROVE Effect(t)
  BY EntryEffect, PlanningEffect, WriteEffect DEF Work

\* Any step with the effect of a worker's preserves the invariant.
LEMMA EffectInv ==
  ASSUME IInv, NEW t \in Token, Effect(t) PROVE IInv'
  <1> USE DEF Effect, IInv
  <1>1. /\ job' = [job EXCEPT ![t] = job'[t]] /\ job'[t] \in Job
        /\ \A u \in Token \ {t} : job'[u] = job[u]
    BY DEF JobEffect, Types
  <1>2. Types'
    BY <1>1 DEF Types, RunEffect, PlanEffect, RunStatus, Terminal
  <1>3. LeaseFollowsRun' BY DEF LeaseFollowsRun, RunEffect, Terminal
  <1>4. LeaseHeld'
    <2> SUFFICES ASSUME NEW u \in Token, job'[u].pc \in Fenced
                 PROVE  (token' = u /\ lease' = "live") \/ status' \in Terminal
      BY DEF LeaseHeld
    <2>1. (token = u /\ lease = "live") \/ status \in Terminal
      BY <1>1 DEF JobEffect, LeaseHeld
    <2> QED BY <2>1 DEF RunEffect
  <1>5. OneContext'
    <2> SUFFICES ASSUME NEW u \in Token
                 PROVE /\ job'[u].pc \in Planning => job'[u].context = "created"
                       /\ job'[u].pc = "hash" => job'[u].context \in {"created", "edited"}
                       /\ job'[u].pc = "hash" /\ job'[u].context = "edited"
                            => story' = "edited"
      BY DEF OneContext
    <2>1. CASE u = t BY <2>1 DEF JobEffect, Types
    <2>2. CASE u # t BY <1>1, <2>2 DEF OneContext
    <2> QED BY <2>1, <2>2
  <1>6. OneStory' BY DEF OneStory, PlanEffect
  <1> QED BY <1>2, <1>3, <1>4, <1>5, <1>6

\* A claim finds no worker in a fenced place: that worker would have a lease
\* that is ahead, or the run would have ended.
LEMMA ClaimInv ==
  ASSUME IInv, NEW t \in Token, Claim(t) PROVE IInv'
  <1> USE PlanningConstants DEF IInv, Claim, At, Goto
  <1> DEFINE place == IF t \in SyncToken THEN "queued" ELSE "claimed"
  <1>1. job' = [job EXCEPT ![t].pc = place] /\ place \in {"queued", "claimed"} OBVIOUS
  <1> HIDE DEF place
  <1>2. job'[t] = [job[t] EXCEPT !.pc = place] BY <1>1 DEF Types
  <1>3. \A u \in Token \ {t} : job'[u] = job[u] BY <1>1 DEF Types
  <1>4. job'[t] \in Job /\ job'[t].pc \in {"queued", "claimed"}
    <2>1. job[t] \in Job /\ place \in Places BY <1>1 DEF Types, Places
    <2> QED BY <1>1, <1>2, <2>1 DEF Job
  <1>5. Types' BY <1>1, <1>2, <1>4 DEF Types, plan, RunStatus
  <1>6. LeaseFollowsRun' BY DEF LeaseFollowsRun
  <1>7. LeaseHeld'
    <2>1. \A u \in Token : job[u].pc \notin Fenced
      BY DEF LeaseHeld, LeaseFollowsRun, Terminal
    <2> QED BY <1>3, <1>4, <2>1 DEF LeaseHeld, Fenced
  <1>8. OneContext' BY <1>3, <1>4 DEF OneContext, Planning
  <1>9. OneStory' BY DEF OneStory, plan
  <1> QED BY <1>5, <1>6, <1>7, <1>8, <1>9

\* A cancel request ends the run and open steps; it records no result.
LEMMA CancelInv ==
  ASSUME IInv, NEW c \in Canceler, CancelReads(c) \/ CancelWrites(c) PROVE IInv'
  <1> USE DEF IInv
  <1>1. CASE CancelReads(c)
    BY <1>1 DEF CancelReads, db, run, plan, Types, LeaseFollowsRun, LeaseHeld,
                OneContext, OneStory
  <1>2. CASE CancelWrites(c)
    <2>1. UNCHANGED <<origin, story, job>> /\ status' = "canceled" /\ token' = NoToken
      BY <1>2 DEF CancelWrites, Transition, Terminal
    <2>2. \A i \in Steps : step'[i] \in {"canceled", step[i]} BY <1>2 DEF CancelWrites
    <2>3. Types'
      <3>1. step' \in [Steps -> StepStatus] BY <1>2 DEF CancelWrites, Types, StepStatus
      <3>2. lease' = "none" BY <1>2 DEF CancelWrites, Transition, Terminal
      <3> QED BY <2>1, <3>1, <3>2 DEF Types, RunStatus
    <2>4. LeaseFollowsRun' BY <2>1 DEF LeaseFollowsRun
    <2>5. LeaseHeld' BY <2>1 DEF LeaseHeld, Terminal
    <2>6. OneContext' BY <2>1 DEF OneContext
    <2>7. OneStory' BY <2>1, <2>2 DEF OneStory
    <2> QED BY <2>3, <2>4, <2>5, <2>6, <2>7
  <1> QED BY <1>1, <1>2

\* The clock passes a lease only when its holder waits, which is no fenced place.
LEMMA ExpiryInv == ASSUME IInv, LeaseExpires PROVE IInv'
  <1> USE DEF IInv, LeaseExpires
  <1>1. Types' /\ LeaseFollowsRun' /\ OneContext' /\ OneStory'
    BY DEF Types, LeaseFollowsRun, OneContext, OneStory, plan
  <1>2. LeaseHeld'
    <2> SUFFICES ASSUME NEW u \in Token, job[u].pc \in Fenced, status \notin Terminal
                 PROVE FALSE
      BY DEF LeaseHeld
    <2>1. token = u BY DEF LeaseHeld
    <2>2. job[u].pc \in {"provider", "done", "refused", "dead", "queued"}
      BY <2>1 DEF Waits, At
    <2> QED BY <2>2 DEF Fenced
  <1> QED BY <1>1, <1>2

\* An edit makes the story differ from contexts built before and after it.
LEMMA EditInv == ASSUME IInv, EditStory PROVE IInv'
  BY DEF IInv, EditStory, Types, LeaseFollowsRun, LeaseHeld, OneContext, OneStory, run, plan

\* A crash leaves the database alone and no worker at a place of the argument.
LEMMA CrashInv == ASSUME IInv, Crash PROVE IInv'
  <1> USE DEF IInv, Crash
  <1> DEFINE Dead(t) == [NewJob EXCEPT !.pc = "dead", !.late = job[t].late]
  <1>1. UNCHANGED <<status, token, lease, step, origin, story>> BY DEF db, run, plan
  <1>2. ASSUME NEW t \in Token
        PROVE  /\ job'[t] \in Job
               /\ job'[t].pc \in {"idle", "done", "refused", "dead"}
    <2>1. \/ job'[t] = job[t] /\ job[t].pc \in {"idle", "done", "refused", "dead"}
          \/ job'[t] = Dead(t)
      OBVIOUS
    <2>2. job[t] \in Job BY DEF Types
    <2>3. Dead(t) \in Job /\ Dead(t).pc = "dead" BY <2>2, NewJobType DEF Job, Places
    <2> HIDE DEF Dead
    <2> QED BY <2>1, <2>2, <2>3
  <1>3. job' \in [Token -> Job]
    <2>1. job' = [t \in Token |-> job'[t]] OBVIOUS
    <2> QED BY <1>2, <2>1
  <1>4. Types' BY <1>1, <1>3 DEF Types
  <1>5. LeaseFollowsRun' /\ OneStory' BY <1>1 DEF LeaseFollowsRun, OneStory
  <1>6. LeaseHeld' BY <1>2 DEF LeaseHeld, Fenced
  <1>7. OneContext' BY <1>2 DEF OneContext, Planning
  <1> QED BY <1>4, <1>5, <1>6, <1>7

LEMMA StepInv == ASSUME IInv, [Next]_vars PROVE IInv'
  <1>1. ASSUME NEW t \in Token, Work(t) PROVE IInv' BY <1>1, WorkEffect, EffectInv
  <1>2. CASE UNCHANGED vars
    BY <1>2 DEF IInv, Types, LeaseFollowsRun, LeaseHeld, OneContext, OneStory, vars, db, run, plan
  <1> QED BY <1>1, <1>2, ClaimInv, CancelInv, EditInv, ExpiryInv, CrashInv DEF Next

THEOREM Invariant == Spec => []IInv
  BY InitInv, StepInv, PTL DEF Spec

-----------------------------------------------------------------------------
(***************************************************************************)
(* How a worker ends.  No run comes back from its end, so what a session   *)
(* remembers as ended has ended; the lease of a synchronous caller cannot  *)
(* run out before its first wait; and a call made without the lease is     *)
(* made for a run that has ended, which the next renewal finds out.        *)
(***************************************************************************)
SeenEnded(t) == job[t].seen \in Terminal => status \in Terminal

Begun(t) == job[t].pc # "idle" => status # "pending"

SyncLive(t) ==
  t \in SyncToken /\ job[t].pc \in {"claimed", "queued", "enter"} /\ token = t
    => lease = "live"

EndsRun(t) == job[t].pc = "done" => status \in Terminal \/ token \notin {t, NoToken}

\* Where a worker can be whose last call was made without its lease.
Surplus == {"provider", "load", "renew", "failing", "done", "dead"}

LateSound(t) == job[t].late # 0 =>
                  job[t].late = 1 /\ status \in Terminal /\ job[t].pc \in Surplus

Ending(t) == SeenEnded(t) /\ Begun(t) /\ SyncLive(t) /\ EndsRun(t) /\ LateSound(t)

EndInv == \A t \in Token : Ending(t)

\* What is left of the record of a worker that returns.
LEMMA LeftJob ==
  ASSUME Types, NEW t \in Token, NEW place \in Places, Leave(t, place)
  PROVE  /\ job'[t].pc = place /\ job'[t].late = job[t].late
         /\ job'[t].seen = "pending" /\ job'[t].seq = 1 /\ job'[t].phase = "loop"
         /\ \A u \in Token \ {t} : job'[u] = job[u]
  <1> DEFINE r == [NewJob EXCEPT !.pc = place, !.late = job[t].late]
  <1>1. job' = [job EXCEPT ![t] = r] BY DEF Leave
  <1>2. /\ r.pc = place /\ r.late = job[t].late /\ r.seen = "pending"
        /\ r.seq = 1 /\ r.phase = "loop"
    BY DEF NewJob
  <1> HIDE DEF r
  <1>3. job'[t] = r BY <1>1 DEF Types
  <1> QED BY <1>1, <1>2, <1>3 DEF Types

\* A worker that returns leaves the run ended, or to somebody else.
LEMMA LeaveEnds ==
  ASSUME IInv, EndInv, NEW t \in Token, Leave(t, "done"), job[t].pc # "idle", RunEffect,
         status' \in Terminal \/ token' \notin {t, NoToken}
  PROVE  Ending(t)'
  <1>1. /\ job'[t].pc = "done" /\ job'[t].late = job[t].late /\ job'[t].seen = "pending"
    BY LeftJob DEF IInv, Places
  <1>2. status' # "pending" BY DEF EndInv, Ending, Begun, RunEffect, Terminal
  <1>3. status \in Terminal => status' \in Terminal BY DEF RunEffect
  <1> QED BY <1>1, <1>2, <1>3
    DEF EndInv, Ending, SeenEnded, Begun, SyncLive, EndsRun, LateSound, Surplus, Terminal

\* Failing the run ends it, unless it has ended already.
LEMMA FailEnds ==
  ASSUME IInv, EndInv, NEW t \in Token, job[t].pc # "idle",
         FailRun(t, job[t].seen) \/ FailRun(t, status)
  PROVE  Ending(t)'
  <1>1. PICK seen \in {job[t].seen, status} : FailRun(t, seen) OBVIOUS
  <1>2. seen \in RunStatus BY DEF IInv, Types, Job
  <1>3. RunEffect BY <1>1, <1>2, FailEffect DEF IInv
  <1>4. seen \in Terminal => status \in Terminal BY DEF EndInv, Ending, SeenEnded
  <1>5. status' \in Terminal
    BY <1>1, <1>4 DEF FailRun, Transition, Terminal, run
  <1>6. Leave(t, "done") BY <1>1 DEF FailRun
  <1> QED BY <1>3, <1>5, <1>6, LeaveEnds

\* A step that goes on: the run is as it was, and the worker knows it as it is.
LEMMA GoesOn ==
  ASSUME IInv, EndInv, NEW t \in Token, UNCHANGED <<status, token, lease>>,
         job[t].pc # "idle",
         job'[t].pc \notin {"claimed", "queued", "enter", "done"},
         job'[t].seen \in {job[t].seen, status},
         job'[t].late # 0 => /\ job'[t].late = 1 /\ status \in Terminal
                             /\ job'[t].pc \in Surplus
  PROVE  Ending(t)'
  BY DEF EndInv, Ending, SeenEnded, Begun, SyncLive, EndsRun, LateSound

\* The steps on the way to the planning.
LEMMA EntryEnds ==
  ASSUME IInv, EndInv, NEW t \in Token,
         Submit(t) \/ Refuse(t) \/ Begin(t) \/ Enter(t) \/ Boundary(t) \/ BuildContext(t)
  PROVE  Ending(t)'
  <1> USE DEF At, Goto, Remember
  <1>1. UNCHANGED <<status, token, lease>> /\ job[t].pc # "idle"
    BY DEF Submit, Refuse, Begin, Enter, Boundary, BuildContext, db, run
  <1>2. job[t] \in Job /\ job \in [Token -> Job] BY DEF IInv, Types
  <1>3. Ending(t) /\ RunEffect BY <1>1 DEF EndInv, RunEffect
  <1>4. job[t].late = 0 \/ job[t].pc \notin {"claimed", "queued", "enter", "boundary", "context"}
    BY <1>3 DEF Ending, LateSound, Surplus
  <1>5. CASE Leave(t, "done") /\ (status \in Terminal \/ token \notin {t, NoToken})
    BY <1>1, <1>3, <1>5, LeaveEnds
  <1>6. CASE Submit(t)
    <2>1. job'[t].pc = "queued" /\ job'[t].seen = job[t].seen /\ job'[t].late = 0
      BY <1>2, <1>4, <1>6 DEF Submit, Job
    <2>2. job[t].pc = "claimed" BY <1>6 DEF Submit
    <2> QED BY <1>1, <1>3, <2>1, <2>2
      DEF Ending, SeenEnded, Begun, SyncLive, EndsRun, LateSound
  <1>7. CASE Refuse(t)
    <2>1. job'[t].pc = "refused" /\ job'[t].seen = "pending" /\ job'[t].late = 0
      BY <1>4, <1>7, LeftJob DEF Refuse, IInv, Places
    <2> QED BY <1>1, <1>3, <2>1
      DEF Ending, SeenEnded, Begun, SyncLive, EndsRun, LateSound, Terminal
  <1>8. CASE (Begin(t) \/ Enter(t)) /\ Holds(t)
    <2>1. /\ job'[t].pc \in {"enter", "context"} /\ job'[t].seen = job[t].seen
          /\ job'[t].late = 0
      BY <1>2, <1>4, <1>8 DEF Begin, Enter, Holds, Terminal, Job
    <2>2. lease = "live" BY <1>8 DEF Holds
    <2> QED BY <1>1, <1>3, <2>1, <2>2
      DEF Ending, SeenEnded, Begun, SyncLive, EndsRun, LateSound
  <1>9. CASE (Begin(t) \/ Enter(t)) /\ ~ Holds(t)
    <2>1. CASE t \in SyncToken
      <3>1. Leave(t, "done") BY <1>9, <2>1 DEF Begin, Enter, NotLeased
      <3>2. token = t => lease = "live"
        BY <1>3, <1>9, <2>1 DEF Begin, Enter, Ending, SyncLive
      <3>3. status # "pending" /\ status \in RunStatus /\ token \in Token \cup {NoToken}
        BY <1>1, <1>3 DEF Ending, Begun, IInv, Types
      <3>4. status \in Terminal \/ token \notin {t, NoToken}
        BY <1>9, <3>2, <3>3 DEF Holds, IInv, LeaseFollowsRun, RunStatus, Terminal
      <3> QED BY <1>5, <3>1, <3>4
    <2>2. CASE t \notin SyncToken /\ Leave(t, "done")
      <3>1. status \in Terminal \/ job'[t].pc = "boundary"
        BY <1>2, <1>9, <2>2 DEF Begin, Enter, NotLeased, Job
      <3>2. job'[t].pc = "done" BY <2>2, LeftJob DEF IInv, Places
      <3> QED BY <1>5, <2>2, <3>1, <3>2
    <2>3. CASE t \notin SyncToken /\ ~ Leave(t, "done")
      <3>1. job' = [job EXCEPT ![t].pc = "boundary"]
        BY <1>9, <2>3 DEF Begin, Enter, NotLeased
      <3>2. job'[t].pc = "boundary" /\ job'[t].seen = job[t].seen /\ job'[t].late = 0
        BY <1>2, <1>4, <1>9, <3>1 DEF Begin, Enter, Job
      <3> QED BY <1>1, <3>2, GoesOn
    <2> QED BY <2>1, <2>2, <2>3
  <1>10. CASE Boundary(t)
    <2>1. CASE status \in Terminal BY <1>5, <1>10, <2>1 DEF Boundary
    <2>2. CASE status \notin Terminal
      <3>1. job'[t].pc = "failing" /\ job'[t].seen = status /\ job'[t].late = 0
        BY <1>2, <1>4, <1>10, <2>2 DEF Boundary, Job
      <3> QED BY <1>1, <3>1, GoesOn
    <2> QED BY <2>1, <2>2
  <1>11. CASE BuildContext(t)
    <2>1. job'[t].pc = "hash" /\ job'[t].seen = status /\ job'[t].late = 0
      BY <1>2, <1>4, <1>11 DEF BuildContext, Job
    <2> QED BY <1>1, <2>1, GoesOn
  <1> QED BY <1>6, <1>7, <1>8, <1>9, <1>10, <1>11

\* The steps of the loop and of one step of the plan.
LEMMA PlanningEnds ==
  ASSUME IInv, EndInv, NEW t \in Token,
         CheckHash(t) \/ Load(t) \/ Renew(t) \/ Look(t) \/ Check(t) \/ Call(t)
         \/ Return(t) \/ RetryBudgetSpent(t) \/ After(t) \/ Propose(t) \/ Finish(t)
  PROVE  Ending(t)'
  <1> USE DEF At, Goto, Remember
  <1>1. job[t] \in Job /\ job \in [Token -> Job] BY DEF IInv, Types
  <1>2. job[t].pc # "idle" /\ Ending(t)
    BY DEF CheckHash, Load, Renew, Look, Check, Call, Return, RetryBudgetSpent, After,
           Propose, Finish, EndInv
  <1>3. status # "pending" /\ status \in RunStatus
    BY <1>2 DEF Ending, Begun, IInv, Types
  <1>4. CASE FailRun(t, job[t].seen) BY <1>2, <1>4, FailEnds
  <1>5. CASE Leave(t, "done") /\ status \in Terminal /\ UNCHANGED run
    BY <1>2, <1>5, LeaveEnds DEF RunEffect, run
  <1>6. ASSUME job[t].pc \notin Surplus PROVE job[t].late = 0
    BY <1>1, <1>2, <1>6 DEF Ending, LateSound, Job
  <1>7. CASE CheckHash(t)
    <2>1. CASE story = "created"
      <3>1. job'[t].pc = "load" /\ job'[t].seen = job[t].seen /\ job'[t].late = 0
        BY <1>1, <1>6, <1>7, <2>1 DEF CheckHash, Job, Surplus
      <3> QED BY <1>2, <1>7, <2>1, <3>1, GoesOn DEF CheckHash, run
    <2> QED BY <1>4, <1>7, <2>1 DEF CheckHash
  <1>8. CASE Load(t)
    <2>1. job'[t].pc = "renew" /\ job'[t].seen = status /\ job'[t].late = job[t].late
      BY <1>1, <1>8 DEF Load, Job
    <2> QED BY <1>2, <1>8, <2>1, GoesOn DEF Load, db, run, Ending, LateSound, Surplus
  <1>9. CASE Renew(t)
    <2>1. CASE Holds(t)
      <3>1. job[t].late = 0
        BY <1>1, <1>2, <2>1 DEF Holds, Ending, LateSound, Terminal, Job
      <3>2. /\ job'[t].pc \in {"look", "check", "settle"} /\ job'[t].seen = job[t].seen
            /\ job'[t].late = 0
        BY <1>1, <1>9, <2>1, <3>1 DEF Renew, AfterRenewal, Job
      <3> QED BY <1>2, <1>9, <2>1, <3>2, GoesOn DEF Renew, run
    <2> QED BY <1>4, <1>9, <2>1 DEF Renew
  <1>10. CASE Look(t)
    <2>1. UNCHANGED run /\ job[t].late = 0
      BY <1>6, <1>10 DEF Look, db, Surplus
    <2>2. CASE Leave(t, "done")
      <3>1. job'[t].pc = "done" BY <2>2, LeftJob DEF IInv, Places
      <3>2. status \in Terminal
        BY <1>1, <1>3, <1>10, <3>1, PlanningConstants DEF Look, Terminal, RunStatus, Job
      <3> QED BY <1>5, <2>1, <2>2, <3>2
    <2>3. CASE ~ Leave(t, "done")
      <3>1. /\ job'[t].pc \in {"propose", "load", "failing", "start"}
            /\ job'[t].seen \in {job[t].seen, status} /\ job'[t].late = 0
        BY <1>1, <1>10, <2>1, <2>3, PlanningConstants DEF Look, Job
      <3> QED BY <1>2, <2>1, <3>1, GoesOn DEF run
    <2> QED BY <2>2, <2>3
  <1>11. CASE Check(t)
    <2>1. UNCHANGED run /\ job[t].late = 0
      BY <1>6, <1>11 DEF Check, db, Surplus
    <2>2. CASE status = "canceled" BY <1>5, <1>11, <2>1, <2>2 DEF Check, Terminal
    <2>3. CASE status # "canceled"
      <3>1. job'[t].pc = "call" /\ job'[t].seen = status /\ job'[t].late = 0
        BY <1>1, <1>11, <2>1, <2>3 DEF Check, Job
      <3> QED BY <1>2, <2>1, <3>1, GoesOn DEF run
    <2> QED BY <2>2, <2>3
  <1>12. CASE Call(t)
    <2> DEFINE n == IF Holds(t) THEN job[t].late ELSE job[t].late + 1
    <2>1. job' = [job EXCEPT ![t].pc = "provider", ![t].late = n] BY <1>12 DEF Call
    <2>2. job[t].late = 0 BY <1>6, <1>12 DEF Call, Surplus
    <2>3. Holds(t) \/ status \in Terminal
      BY <1>12, PlanningConstants
      DEF Call, IInv, LeaseHeld, LeaseFollowsRun, Fenced, Holds, Types
    <2>4. n # 0 => n = 1 /\ status \in Terminal BY <2>2, <2>3
    <2> HIDE DEF n
    <2>5. job'[t].pc = "provider" /\ job'[t].seen = job[t].seen /\ job'[t].late = n
      BY <1>1, <2>1 DEF Job
    <2> QED BY <1>2, <1>12, <2>4, <2>5, GoesOn DEF Call, run, Surplus
  <1>13. CASE Return(t)
    <2>1. PICK r \in {"ok", "invalid", "transport"} :
            job' = [job EXCEPT ![t].pc = "load", ![t].phase = "settle", ![t].result = r]
      BY <1>13 DEF Return
    <2>2. job'[t].pc = "load" /\ job'[t].seen = job[t].seen /\ job'[t].late = job[t].late
      BY <1>1, <2>1 DEF Job
    <2> QED BY <1>2, <1>13, <2>2, GoesOn DEF Return, db, run, Ending, LateSound, Surplus
  <1>14. CASE RetryBudgetSpent(t)
    <2>1. UNCHANGED run BY <1>14 DEF RetryBudgetSpent, db
    <2>2. CASE status \in Terminal BY <1>5, <1>14, <2>1, <2>2 DEF RetryBudgetSpent
    <2>3. CASE status \notin Terminal
      <3>1. /\ job'[t].pc = "failing" /\ job'[t].seen = status
            /\ job'[t].late = job[t].late
        BY <1>1, <1>14, <2>3 DEF RetryBudgetSpent, Job
      <3> QED BY <1>2, <2>1, <2>3, <3>1, GoesOn DEF run, Ending, LateSound
    <2> QED BY <2>2, <2>3
  <1>15. CASE After(t)
    <2>1. UNCHANGED run /\ job[t].late = 0
      BY <1>6, <1>15 DEF After, db, Surplus
    <2>2. CASE status = "canceled" BY <1>5, <1>15, <2>1, <2>2 DEF After, Terminal
    <2>3. CASE status # "canceled"
      <3>1. job'[t].pc = "load" /\ job'[t].seen = job[t].seen /\ job'[t].late = 0
        BY <1>1, <1>15, <2>1, <2>3 DEF After, Job
      <3> QED BY <1>2, <2>1, <3>1, GoesOn DEF run
    <2> QED BY <2>2, <2>3
  <1>16. CASE Propose(t)
    <2>1. job'[t].pc = "finish" /\ job'[t].seen = job[t].seen /\ job'[t].late = 0
      BY <1>1, <1>6, <1>16 DEF Propose, Job, Surplus
    <2> QED BY <1>2, <1>16, <2>1, GoesOn DEF Propose, run
  <1>17. CASE Finish(t)
    <2>1. UNCHANGED run /\ job[t].late = 0
      BY <1>6, <1>17 DEF Finish, db, Surplus
    <2>2. CASE status \in Terminal BY <1>5, <1>17, <2>1, <2>2 DEF Finish
    <2>3. CASE status \notin Terminal
      <3>1. job'[t].pc = "complete" /\ job'[t].seen = status /\ job'[t].late = 0
        BY <1>1, <1>17, <2>1, <2>3 DEF Finish, Job
      <3> QED BY <1>2, <2>1, <3>1, GoesOn DEF run
    <2> QED BY <2>2, <2>3
  <1> QED BY <1>7, <1>8, <1>9, <1>10, <1>11, <1>12, <1>13, <1>14, <1>15, <1>16, <1>17

\* The steps that write the run or the plan.
LEMMA WriteEnds ==
  ASSUME IInv, EndInv, NEW t \in Token,
         Raise(t) \/ Fail(t) \/ StartStep(t) \/ ResumeStep(t) \/ Settle(t)
         \/ RecordSuccess(t) \/ RecordFailure(t) \/ Repair(t) \/ Complete(t)
  PROVE  Ending(t)'
  <1> USE DEF At, Goto, Remember
  <1>1. job[t] \in Job /\ job \in [Token -> Job] BY DEF IInv, Types
  <1>2. job[t].pc # "idle" /\ Ending(t)
    BY DEF Raise, Fail, StartStep, ResumeStep, Settle, RecordSuccess, RecordFailure, Repair,
           Complete, EndInv
  <1>3. ASSUME job[t].pc \notin Surplus PROVE job[t].late = 0
    BY <1>1, <1>2, <1>3 DEF Ending, LateSound, Job
  <1>4. CASE FailRun(t, job[t].seen) \/ FailRun(t, status) BY <1>2, <1>4, FailEnds
  <1>5. CASE StartStep(t)
    <2>1. job'[t].pc = "load" /\ job'[t].seen = job[t].seen /\ job'[t].late = 0
      BY <1>1, <1>3, <1>5 DEF StartStep, Job, Surplus
    <2> QED BY <1>2, <1>5, <2>1, GoesOn DEF StartStep, run
  <1>6. CASE ResumeStep(t)
    <2>1. CASE Holds(t)
      <3>1. job'[t].pc = "check" /\ job'[t].seen = job[t].seen /\ job'[t].late = 0
        BY <1>1, <1>3, <1>6, <2>1 DEF ResumeStep, Job, Surplus
      <3> QED BY <1>2, <1>6, <2>1, <3>1, GoesOn DEF ResumeStep, run
    <2> QED BY <1>4, <1>6, <2>1 DEF ResumeStep
  <1>7. CASE Settle(t)
    <2>1. UNCHANGED run /\ job[t].late = 0 BY <1>3, <1>7 DEF Settle, Surplus
    <2>2. CASE status = "canceled"
      BY <1>2, <1>7, <2>1, <2>2, LeaveEnds DEF Settle, RunEffect, run, Terminal
    <2>3. CASE status # "canceled"
      <3>1. job'[t].pc = "record" /\ job'[t].seen = status /\ job'[t].late = 0
        BY <1>1, <1>7, <2>1, <2>3 DEF Settle, Job
      <3> QED BY <1>2, <2>1, <3>1, GoesOn DEF run
    <2> QED BY <2>2, <2>3
  <1>8. CASE RecordSuccess(t)
    <2>1. CASE step[job[t].seq] \in {"running", "completed"}
      <3>1. job'[t].pc = "after" /\ job'[t].seen = job[t].seen /\ job'[t].late = 0
        BY <1>1, <1>3, <1>8, <2>1 DEF RecordSuccess, Job, Surplus
      <3> QED BY <1>2, <1>8, <2>1, <3>1, GoesOn DEF RecordSuccess, run
    <2> QED BY <1>4, <1>8, <2>1 DEF RecordSuccess
  <1>9. CASE Repair(t)
    <2> DEFINE n == IF CanEscalate(t) THEN job[t].rung + 1 ELSE job[t].rung
    <2>1. job' = [job EXCEPT ![t].pc = "load", ![t].phase = "call", ![t].rung = n]
      BY <1>9 DEF Repair
    <2> HIDE DEF n
    <2>2. job'[t].pc = "load" /\ job'[t].seen = job[t].seen /\ job'[t].late = 0
      BY <1>1, <1>3, <1>9, <2>1 DEF Repair, Job, Surplus
    <2> QED BY <1>2, <1>9, <2>2, GoesOn DEF Repair
  <1>10. CASE Complete(t)
    BY <1>2, <1>10, LeaveEnds DEF Complete, Transition, Terminal, RunEffect
  <1> QED BY <1>4, <1>5, <1>6, <1>7, <1>8, <1>9, <1>10 DEF Raise, Fail, RecordFailure

\* The other workers only see the run end.
LEMMA WorkEnds ==
  ASSUME IInv, EndInv, NEW t \in Token, Work(t) PROVE EndInv'
  <1>1. Ending(t)' BY EntryEnds, PlanningEnds, WriteEnds DEF Work
  <1>2. Effect(t) BY WorkEffect
  <1>3. ASSUME NEW u \in Token \ {t} PROVE Ending(u)'
    <2>1. job'[u] = job[u] BY <1>2 DEF Effect, JobEffect, IInv, Types
    <2>2. Ending(u) /\ token # NoToken => status = "running"
      BY DEF EndInv, IInv, LeaseFollowsRun
    <2> QED BY <1>2, <2>1, <2>2, PlanningConstants
      DEF EndInv, Effect, RunEffect, Ending, SeenEnded, Begun, SyncLive, EndsRun, LateSound,
          Terminal
  <1> QED BY <1>1, <1>3 DEF EndInv

\* A claim, a cancel, the clock and a crash.
LEMMA OthersEnd ==
  ASSUME IInv, EndInv,
         \/ \E t \in Token : Claim(t)
         \/ \E c \in Canceler : CancelReads(c) \/ CancelWrites(c)
         \/ EditStory \/ LeaseExpires \/ Crash
  PROVE  EndInv'
  <1> USE DEF Ending, SeenEnded, Begun, SyncLive, EndsRun, LateSound
  <1>1. ASSUME NEW t \in Token, Claim(t) PROVE EndInv'
    <2> DEFINE place == IF t \in SyncToken THEN "queued" ELSE "claimed"
    <2>1. job' = [job EXCEPT ![t].pc = place] /\ place \in {"queued", "claimed"}
      BY <1>1 DEF Claim, Goto
    <2> HIDE DEF place
    <2>2. /\ job'[t].pc = place /\ job'[t].seen = job[t].seen /\ job'[t].late = job[t].late
          /\ \A u \in Token \ {t} : job'[u] = job[u]
      BY <2>1 DEF IInv, Types, Job
    <2>3. /\ status' = "running" /\ token' = t /\ lease' = "live"
          /\ status \notin Terminal /\ job[t].pc = "idle"
      BY <1>1 DEF Claim, At, Terminal
    <2>4. t # NoToken BY PlanningConstants
    <2>5. Ending(t)' BY <2>1, <2>2, <2>3 DEF EndInv, Surplus
    <2>6. ASSUME NEW u \in Token \ {t} PROVE Ending(u)'
      BY <2>2, <2>3, <2>4 DEF EndInv
    <2> QED BY <2>5, <2>6 DEF EndInv
  <1>2. ASSUME NEW c \in Canceler, CancelWrites(c) PROVE EndInv'
    BY <1>2, PlanningConstants DEF CancelWrites, Transition, Terminal, EndInv
  <1>3. ASSUME NEW c \in Canceler, CancelReads(c) PROVE EndInv'
    BY <1>3 DEF CancelReads, db, run, EndInv
  <1>4. CASE EditStory BY <1>4 DEF EditStory, run, EndInv
  <1>5. CASE LeaseExpires
    <2>1. ASSUME NEW u \in SyncToken, token = u, job[u].pc \in {"claimed", "queued", "enter"}
          PROVE  FALSE
      BY <1>5, <2>1 DEF LeaseExpires, Waits, At
    <2> QED BY <1>5, <2>1 DEF LeaseExpires, EndInv
  <1>6. CASE Crash
    <2> DEFINE Dead(t) == [NewJob EXCEPT !.pc = "dead", !.late = job[t].late]
    <2>1. UNCHANGED <<status, token, lease>> BY <1>6 DEF Crash, db, run
    <2>2. ASSUME NEW t \in Token PROVE Ending(t)'
      <3>1. \/ job'[t] = job[t]
            \/ job'[t] = Dead(t) /\ job[t].pc # "idle"
        BY <1>6 DEF Crash
      <3>2. Dead(t).pc = "dead" /\ Dead(t).late = job[t].late /\ Dead(t).seen = "pending"
        BY DEF NewJob
      <3> HIDE DEF Dead
      <3> QED BY <2>1, <3>1, <3>2 DEF EndInv, Surplus, Terminal
    <2> QED BY <2>2 DEF EndInv
  <1> QED BY <1>1, <1>2, <1>3, <1>4, <1>5, <1>6

\* What the workers know and leave behind holds in every reachable state.
LEMMA EndInvariant == Spec => []EndInv
  <1>1. Init => EndInv
    BY PlanningConstants DEF Init, NewJob, EndInv, Ending, SeenEnded, Begun, SyncLive, EndsRun,
                             LateSound, Terminal
  <1>2. IInv /\ EndInv /\ [Next]_vars => EndInv'
    <2>1. CASE UNCHANGED vars
      BY <2>1 DEF vars, db, run, EndInv, Ending, SeenEnded, Begun, SyncLive, EndsRun, LateSound
    <2> QED BY <2>1, WorkEnds, OthersEnd DEF Next
  <1> QED BY <1>1, <1>2, Invariant, PTL DEF Spec

-----------------------------------------------------------------------------
(***************************************************************************)
(* What a proposal rests on.  At most one worker is at a fenced place, and *)
(* who owns the run has passed only answered steps and asks only for one   *)
(* that has no answer; the answers are kept as long as anybody goes on.    *)
(***************************************************************************)
InvStatus == {"none", "pending", "succeeded", "failed", "canceled"}

Owns(t) == token = t \/ job[t].pc \in Fenced

Answered(i) == inv[i] = "succeeded" /\ step[i] \in {"completed", "canceled"}

\* A worker between the start of a step and the record of its answer.
Asking(t) == \/ job[t].pc \in {"start", "check", "call", "provider", "settle", "record"}
             \/ job[t].pc \in {"load", "renew"} /\ job[t].phase \in {"call", "settle"}

PlanTypes == inv \in [Steps -> InvStatus] /\ proposals \in Nat

OneFenced == \A t, u \in Token :
  job[t].pc \in Fenced /\ job[u].pc \in Fenced => t = u

Entry == {"idle", "claimed", "queued", "enter", "context", "hash"}

Fresh(t) == /\ job[t].pc \in Entry => job[t].seq = 1
            /\ job[t].pc \in Entry \cup {"look"} => job[t].phase = "loop"

Passed(t) == Owns(t) /\ job[t].pc \in Planning \cup {"propose", "finish", "complete"}
               => \A i \in Steps : i < job[t].seq => Answered(i)

Recorded(t) == token = t /\ job[t].pc = "after"
                 => job[t].seq \in Steps /\ Answered(job[t].seq)

Unanswered(t) == Owns(t) /\ Asking(t) =>
  /\ job[t].seq \in Steps /\ proposals = 0
  /\ inv[job[t].seq] # "succeeded" /\ step[job[t].seq] # "completed"

AtEnd(t) == /\ job[t].pc = "propose" => job[t].seq > NSteps
            /\ job[t].pc \in {"finish", "complete"} => proposals > 0

Sound(t) == Fresh(t) /\ Passed(t) /\ Recorded(t) /\ Unanswered(t) /\ AtEnd(t)

StepsSound == \A i \in Steps :
  /\ step[i] = "completed" => inv[i] = "succeeded"
  /\ step[i] = "canceled" => status \in Terminal
  /\ proposals > 0 => Answered(i)

AnswersKept ==
  status \notin Terminal \/ (\E t \in Token : job[t].pc \in Fenced)
    => \A i \in Steps : inv[i] = "succeeded" => step[i] \in {"completed", "canceled"}

Completed == status = "completed" => proposals > 0

LInv == PlanTypes /\ OneFenced /\ StepsSound /\ AnswersKept /\ Completed
        /\ \A t \in Token : Sound(t)

\* Beside a worker at a fenced place nobody owns the run.
LEMMA OwnerAlone ==
  ASSUME IInv, OneFenced, NEW t \in Token, NEW u \in Token, t # u, job[t].pc \in Fenced
  PROVE  ~ Owns(u)
  <1>1. token = t \/ status \in Terminal BY DEF IInv, LeaseHeld
  <1>2. token = u => status = "running"
    BY PlanningConstants DEF IInv, LeaseFollowsRun
  <1> QED BY <1>1, <1>2 DEF OneFenced, Owns, Terminal

\* Only the worker at the end of the plan completes the run.
LEMMA WhoCompletes ==
  ASSUME NEW t \in Token, Work(t), status' = "completed"
  PROVE  status = "completed" \/ job[t].pc = "complete"
  <1> SUFFICES ASSUME job[t].pc # "complete" PROVE status = "completed" OBVIOUS
  <1>1. UNCHANGED status \/ \E seen \in {job[t].seen, status} : FailRun(t, seen)
    BY DEF Work, Submit, Refuse, Begin, Enter, Boundary, BuildContext, CheckHash, Load, Renew,
           Look, Raise, Fail, StartStep, ResumeStep, Check, Call, Return, RetryBudgetSpent,
           Settle, RecordSuccess, RecordFailure, Repair, After, Propose, Finish, Complete, At,
           db, run
  <1> QED BY <1>1 DEF FailRun, Transition, run

\* A worker that returned knows nothing of the plan.
LEMMA LeftSound ==
  ASSUME IInv, NEW t \in Token, NEW place \in {"done", "refused"}, Leave(t, place)
  PROVE  Sound(t)' /\ job'[t].pc \notin Fenced
  <1>1. job'[t].pc = place BY LeftJob DEF IInv, Places
  <1> QED BY <1>1 DEF Sound, Fresh, Entry, Passed, Recorded, Unanswered, AtEnd, Asking, Planning, Fenced

\* What a step of a worker has to show: that the worker comes to a fenced place
\* from one or with its lease, that it writes from a fenced place only, and what
\* it writes is sound.
LEMMA SoundStep ==
  ASSUME IInv, LInv, NEW t \in Token, Work(t),
         UNCHANGED <<plan, proposals>> \/ job[t].pc \in Fenced,
         job'[t].pc \in Fenced => job[t].pc \in Fenced \/ Holds(t),
         proposals' \in {proposals, proposals + 1},
         PlanTypes', StepsSound', AnswersKept', Sound(t)'
  PROVE  LInv'
  <1> USE DEF LInv
  <1>1. Effect(t) BY WorkEffect
  <1>2. \A u \in Token \ {t} : job'[u] = job[u]
    BY <1>1 DEF Effect, JobEffect, IInv, Types
  <1>3. OneFenced'
    <2> SUFFICES ASSUME NEW u \in Token \ {t}, job[u].pc \in Fenced, job'[t].pc \in Fenced
                 PROVE  FALSE
      BY <1>2 DEF OneFenced
    <2>1. ~ Owns(t) BY OwnerAlone
    <2> QED BY <2>1 DEF Owns, Holds
  <1>4. Completed'
    BY WhoCompletes DEF Completed, Sound, AtEnd, PlanTypes
  <1>5. ASSUME NEW u \in Token \ {t} PROVE Sound(u)'
    <2>1. Owns(u)' => Owns(u)
      BY <1>1, <1>2, PlanningConstants DEF Owns, Effect, RunEffect
    <2>2. CASE job[t].pc \in Fenced
      <3>1. ~ Owns(u) BY <2>2, OwnerAlone
      <3>2. ~ Owns(u)' BY <2>1, <3>1
      <3>3. token' # u BY <3>2 DEF Owns
      <3> QED BY <1>2, <3>2, <3>3
        DEF Sound, Fresh, Entry, Passed, Recorded, Unanswered, AtEnd, PlanTypes
    <2>3. CASE UNCHANGED <<plan, proposals>>
      <3>1. token' = u => token = u
        BY <1>1, PlanningConstants DEF Effect, RunEffect
      <3> QED BY <1>2, <2>1, <2>3, <3>1
        DEF Sound, Fresh, Entry, Passed, Recorded, Unanswered, AtEnd, Asking, Answered, plan
    <2> QED BY <2>2, <2>3
  <1> QED BY <1>3, <1>4, <1>5

\* A step that writes no plan leaves what is recorded sound.
LEMMA QuietStep ==
  ASSUME IInv, LInv, NEW t \in Token, Work(t), UNCHANGED <<plan, proposals>>,
         job'[t].pc \in Fenced => job[t].pc \in Fenced \/ Holds(t),
         Sound(t)'
  PROVE  LInv'
  <1> USE DEF LInv
  <1>1. Effect(t) BY WorkEffect
  <1>2. \A u \in Token \ {t} : job'[u] = job[u]
    BY <1>1 DEF Effect, JobEffect, IInv, Types
  <1>3. status \in Terminal => status' \in Terminal BY <1>1 DEF Effect, RunEffect
  <1>4. PlanTypes' /\ StepsSound'
    BY <1>3 DEF PlanTypes, StepsSound, Answered, plan
  <1>5. AnswersKept'
    <2>1. ASSUME status' \notin Terminal \/ \E u \in Token : job'[u].pc \in Fenced
          PROVE  status \notin Terminal \/ \E u \in Token : job[u].pc \in Fenced
      BY <1>2, <1>3, <2>1 DEF Holds, Terminal
    <2> QED BY <2>1 DEF AnswersKept, plan
  <1> QED BY <1>4, <1>5, SoundStep DEF PlanTypes

\* What a worker writes of the step it asks for.
LEMMA OneWrite ==
  ASSUME IInv, LInv, NEW t \in Token, Effect(t), job[t].pc \in Fenced, Asking(t),
         NEW a \in StepStatus, NEW b \in InvStatus,
         step' = [step EXCEPT ![job[t].seq] = a],
         inv' = [inv EXCEPT ![job[t].seq] = b],
         UNCHANGED proposals,
         a = "completed" => b = "succeeded",
         a = "canceled" => status' \in Terminal,
         b = "succeeded" => a = "completed" \/ (status' \in Terminal /\ job'[t].pc \notin Fenced)
  PROVE  /\ PlanTypes' /\ StepsSound' /\ AnswersKept'
         /\ \A i \in Steps : i # job[t].seq => (Answered(i) => Answered(i)')
         /\ job[t].seq \in Steps /\ proposals = 0
         /\ step'[job[t].seq] = a /\ inv'[job[t].seq] = b
  <1> DEFINE k == job[t].seq
  <1> USE DEF LInv
  <1>1. k \in Steps /\ proposals = 0
    BY DEF Sound, Unanswered, Owns
  <1>2. step \in [Steps -> StepStatus] /\ inv \in [Steps -> InvStatus]
    BY DEF IInv, Types, PlanTypes
  <1>3. step' = [step EXCEPT ![k] = a] /\ inv' = [inv EXCEPT ![k] = b] OBVIOUS
  <1>4. \A u \in Token \ {t} : job'[u] = job[u] /\ job[u].pc \notin Fenced
    BY DEF Effect, JobEffect, IInv, Types, OneFenced
  <1> HIDE DEF k
  <1>5. step'[k] = a /\ inv'[k] = b BY <1>1, <1>2, <1>3
  <1>6. \A i \in Steps \ {k} : step'[i] = step[i] /\ inv'[i] = inv[i]
    BY <1>2, <1>3
  <1>7. status \in Terminal => status' \in Terminal BY DEF Effect, RunEffect
  <1>8. PlanTypes' BY <1>1, <1>2, <1>3 DEF PlanTypes
  <1>9. StepsSound' BY <1>1, <1>5, <1>6, <1>7 DEF StepsSound
  <1>10. AnswersKept'
    <2>1. \A i \in Steps : inv[i] = "succeeded" => step[i] \in {"completed", "canceled"}
      BY DEF AnswersKept
    <2> QED BY <1>4, <1>5, <1>6, <2>1 DEF AnswersKept
  <1>11. \A i \in Steps : i # k => (Answered(i) => Answered(i)')
    BY <1>6 DEF Answered
  <1> QED BY <1>1, <1>5, <1>8, <1>9, <1>10, <1>11 DEF k

\* The steps on the way to the planning.
LEMMA EntrySound ==
  ASSUME IInv, LInv, NEW t \in Token, Work(t),
         \/ Submit(t) \/ Refuse(t) \/ Begin(t) \/ Enter(t) \/ Boundary(t) \/ BuildContext(t)
         \/ CheckHash(t)
  PROVE  LInv'
  <1> USE DEF At, Goto, Remember
  <1>1. job[t] \in Job /\ job \in [Token -> Job] BY DEF IInv, Types
  <1>2. UNCHANGED <<plan, proposals>>
    BY DEF Submit, Refuse, Begin, Enter, Boundary, BuildContext, CheckHash, db
  <1>3. CASE Leave(t, "done") \/ Leave(t, "refused") BY <1>2, <1>3, LeftSound, QuietStep
  <1>4. ASSUME job'[t].pc \in {"queued", "enter", "context", "hash", "boundary", "failing"},
               job'[t].pc \in {"queued", "enter", "context", "hash"}
                 => job'[t].seq = 1 /\ job'[t].phase = "loop"
        PROVE  LInv'
    <2>1. Sound(t)'
      BY <1>4 DEF Sound, Fresh, Entry, Passed, Recorded, Unanswered, AtEnd, Asking, Planning
    <2> QED BY <1>2, <1>4, <2>1, QuietStep DEF Fenced
  <1>5. Fresh(t) BY DEF LInv, Sound
  <1>6. CASE Submit(t) BY <1>1, <1>4, <1>5, <1>6 DEF Submit, Fresh, Entry, Job
  <1>7. CASE Refuse(t) BY <1>3, <1>7 DEF Refuse
  <1>8. CASE Begin(t)
    <2>1. CASE Leave(t, "done") BY <1>3, <2>1
    <2>2. CASE ~ Leave(t, "done")
      BY <1>1, <1>4, <1>5, <1>8, <2>2 DEF Begin, NotLeased, Fresh, Entry, Job
    <2> QED BY <2>1, <2>2
  <1>9. CASE Enter(t)
    <2>1. CASE Leave(t, "done") BY <1>3, <2>1
    <2>2. CASE ~ Leave(t, "done")
      BY <1>1, <1>4, <1>5, <1>9, <2>2 DEF Enter, NotLeased, Fresh, Entry, Job
    <2> QED BY <2>1, <2>2
  <1>10. CASE Boundary(t)
    <2>1. CASE Leave(t, "done") BY <1>3, <2>1
    <2>2. CASE ~ Leave(t, "done") BY <1>1, <1>4, <1>10, <2>2 DEF Boundary, Job
    <2> QED BY <2>1, <2>2
  <1>11. CASE BuildContext(t) BY <1>1, <1>4, <1>5, <1>11 DEF BuildContext, Fresh, Entry, Job
  <1>12. CASE CheckHash(t)
    <2>1. CASE story = "created"
      <3>1. job'[t].pc = "load" /\ job'[t].seq = 1 /\ job'[t].phase = "loop"
        BY <1>1, <1>5, <1>12, <2>1 DEF CheckHash, Fresh, Entry, Job
      <3>2. Sound(t)'
        BY <3>1, PlanningConstants
        DEF Sound, Fresh, Entry, Passed, Recorded, Unanswered, AtEnd, Asking, Steps
      <3> QED BY <1>2, <3>1, <3>2, QuietStep DEF Fenced
    <2>2. CASE story # "created" BY <1>3, <1>12, <2>2 DEF CheckHash, FailRun
    <2> QED BY <2>1, <2>2
  <1> QED BY <1>6, <1>7, <1>8, <1>9, <1>10, <1>11, <1>12

\* The steps of the loop that write no plan.
LEMMA LoopSound ==
  ASSUME IInv, LInv, NEW t \in Token, Work(t),
         \/ Load(t) \/ Renew(t) \/ Look(t) \/ Raise(t) \/ Fail(t) \/ ResumeStep(t) \/ Check(t)
         \/ Return(t) \/ RetryBudgetSpent(t) \/ After(t) \/ Finish(t) \/ Complete(t)
  PROVE  LInv'
  <1> USE DEF At, Goto, Remember
  <1>1. job[t] \in Job /\ job \in [Token -> Job] BY DEF IInv, Types
  <1>2. UNCHANGED <<plan, proposals>>
    BY DEF Load, Renew, Look, Raise, Fail, ResumeStep, Check, Return, RetryBudgetSpent,
           After, Finish, Complete, db
  <1>3. CASE Leave(t, "done") BY <1>2, <1>3, LeftSound, QuietStep
  <1>4. Sound(t) BY DEF LInv
  <1>5. /\ \A i \in Steps : Answered(i)' = Answered(i)
        /\ proposals' = proposals /\ inv' = inv /\ step' = step
    BY <1>2 DEF Answered, plan
  <1>6. token' = t => token = t
    BY WorkEffect, PlanningConstants DEF Effect, RunEffect
  <1> USE DEF Sound, Fresh, Entry, Passed, Recorded, Unanswered, AtEnd, Asking, Owns
  <1>7. CASE Load(t)
    <2>1. /\ job'[t].pc = "renew" /\ job[t].pc = "load" /\ job'[t].seq = job[t].seq
          /\ job'[t].phase = job[t].phase
      BY <1>1, <1>7 DEF Load, Job
    <2>2. Sound(t)' BY <1>4, <1>5, <1>6, <2>1 DEF Fenced, Planning
    <2> QED BY <1>2, <2>1, <2>2, QuietStep DEF Fenced
  <1>8. CASE Renew(t)
    <2>1. CASE Holds(t)
      <3>1. /\ job'[t].pc = AfterRenewal[job[t].phase] /\ job[t].pc = "renew"
            /\ job'[t].seq = job[t].seq /\ job'[t].phase = job[t].phase
        BY <1>1, <1>8, <2>1 DEF Renew, Job, AfterRenewal
      <3>2. /\ job[t].phase = "loop" => job'[t].pc = "look"
            /\ job[t].phase = "call" => job'[t].pc = "check"
            /\ job[t].phase = "settle" => job'[t].pc = "settle"
            /\ job[t].phase \in {"loop", "call", "settle"}
        BY <1>1, <3>1 DEF AfterRenewal, Job
      <3>3. token = t BY <2>1 DEF Holds
      <3>4. Sound(t)' BY <1>4, <1>5, <3>1, <3>2, <3>3 DEF Planning
      <3> QED BY <1>2, <2>1, <3>4, QuietStep
    <2>2. CASE ~ Holds(t) BY <1>3, <1>8, <2>2 DEF Renew, FailRun
    <2> QED BY <2>1, <2>2
  <1>9. CASE Look(t)
    <2>1. CASE Leave(t, "done") BY <1>3, <2>1
    <2> SUFFICES ASSUME ~ Leave(t, "done") PROVE LInv' BY <2>1
    <2>2. job[t].pc = "look" /\ job[t].pc \in Fenced /\ job[t].phase = "loop"
      BY <1>4, <1>9 DEF Look, Fenced
    <2>3. job[t].seq \in Nat \ {0} BY <1>1 DEF Job
    <2>4. \A i \in Steps : i < job[t].seq => Answered(i)
      BY <1>4, <2>2 DEF Planning
    <2>5. CASE job[t].seq > NSteps
      <3>1. job'[t].pc = "propose" /\ job'[t].seq = job[t].seq
        BY <1>1, <1>9, <2>3, <2>5, PlanningConstants DEF Look, Job
      <3>2. Sound(t)' BY <1>5, <2>4, <2>5, <3>1
      <3> QED BY <1>2, <2>2, <3>2, QuietStep
    <2>6. CASE ~ (job[t].seq > NSteps)
      <3>1. job[t].seq \in Steps /\ job[t].seq <= NSteps /\ step[job[t].seq] \in StepStatus
        BY <2>3, <2>6, PlanningConstants DEF Steps, IInv, Types
      <3>2. CASE step[job[t].seq] \in {"completed", "canceled"}
        <4>1. job'[t].pc = "load" /\ job'[t].seq = job[t].seq + 1 /\ job'[t].phase = "loop"
          BY <1>1, <1>9, <2>2, <2>6, <3>1, <3>2 DEF Look, Job
        <4>2. token = t => Answered(job[t].seq)
          <5>1. token = t => status \notin Terminal
            BY PlanningConstants DEF IInv, LeaseFollowsRun, Terminal
          <5> QED BY <3>1, <3>2, <5>1 DEF LInv, StepsSound, Answered
        <4>3. token = t => \A i \in Steps : i < job'[t].seq => Answered(i)
          BY <2>3, <2>4, <3>1, <4>1, <4>2, PlanningConstants DEF Steps
        <4>4. Sound(t)' BY <1>5, <1>6, <4>1, <4>3 DEF Fenced
        <4> QED BY <1>2, <4>1, <4>4, QuietStep DEF Fenced
      <3>3. CASE step[job[t].seq] = "failed"
        <4>1. job'[t].pc = "failing"
          BY <1>1, <1>9, <2>6, <3>1, <3>3 DEF Look, Job
        <4>2. Sound(t)' BY <4>1 DEF Planning
        <4> QED BY <1>2, <2>2, <4>2, QuietStep
      <3>4. CASE step[job[t].seq] \in {"pending", "running"}
        <4>1. job'[t].pc = "start" /\ job'[t].seq = job[t].seq
          BY <1>1, <1>9, <2>6, <3>1, <3>4 DEF Look, Job
        <4>2. inv[job[t].seq] # "succeeded"
          BY <2>2, <3>1, <3>4 DEF LInv, AnswersKept
        <4>3. proposals = 0
          BY <3>1, <3>4 DEF LInv, StepsSound, Answered, PlanTypes
        <4>4. Sound(t)' BY <1>5, <2>4, <3>1, <3>4, <4>1, <4>2, <4>3
        <4> QED BY <1>2, <2>2, <4>4, QuietStep
      <3> QED BY <3>1, <3>2, <3>3, <3>4 DEF StepStatus
    <2> QED BY <2>5, <2>6
  <1>10. CASE Raise(t) \/ Fail(t) \/ Complete(t)
    BY <1>3, <1>10 DEF Raise, Fail, Complete, FailRun
  <1>11. CASE ResumeStep(t)
    <2>1. CASE Holds(t)
      <3>1. job'[t].pc = "check" /\ job[t].pc = "start" /\ job'[t].seq = job[t].seq
        BY <1>1, <1>11, <2>1 DEF ResumeStep, Job
      <3>2. Sound(t)' BY <1>4, <1>5, <3>1 DEF Fenced, Planning
      <3> QED BY <1>2, <2>1, <3>2, QuietStep
    <2>2. CASE ~ Holds(t) BY <1>3, <1>11, <2>2 DEF ResumeStep, FailRun
    <2> QED BY <2>1, <2>2
  <1>12. CASE Check(t)
    <2>1. CASE status = "canceled" BY <1>3, <1>12, <2>1 DEF Check
    <2>2. CASE status # "canceled"
      <3>1. job'[t].pc = "call" /\ job[t].pc = "check" /\ job'[t].seq = job[t].seq
        BY <1>1, <1>12, <2>2 DEF Check, Job
      <3>2. Sound(t)' BY <1>4, <1>5, <3>1 DEF Fenced, Planning
      <3> QED BY <1>2, <3>1, <3>2, QuietStep DEF Fenced
    <2> QED BY <2>1, <2>2
  <1>13. CASE Return(t)
    <2>1. PICK r \in {"ok", "invalid", "transport"} :
            job' = [job EXCEPT ![t].pc = "load", ![t].phase = "settle", ![t].result = r]
      BY <1>13 DEF Return
    <2>2. job'[t].pc = "load" /\ job[t].pc = "provider" /\ job'[t].seq = job[t].seq
      BY <1>1, <1>13, <2>1 DEF Return, Job
    <2>3. Sound(t)' BY <1>4, <1>5, <1>6, <2>2 DEF Fenced, Planning
    <2> QED BY <1>2, <2>2, <2>3, QuietStep DEF Fenced
  <1>14. CASE RetryBudgetSpent(t)
    <2>1. CASE status \in Terminal BY <1>3, <1>14, <2>1 DEF RetryBudgetSpent
    <2>2. CASE status \notin Terminal
      <3>1. job'[t].pc = "failing" BY <1>1, <1>14, <2>2 DEF RetryBudgetSpent, Job
      <3>2. Sound(t)' BY <3>1 DEF Planning
      <3> QED BY <1>2, <3>1, <3>2, QuietStep DEF Fenced
    <2> QED BY <2>1, <2>2
  <1>15. CASE After(t)
    <2>1. CASE status = "canceled" BY <1>3, <1>15, <2>1 DEF After
    <2>2. CASE status # "canceled"
      <3>1. /\ job'[t].pc = "load" /\ job[t].pc = "after" /\ job'[t].phase = "loop"
            /\ job'[t].seq = job[t].seq + 1
        BY <1>1, <1>15, <2>2 DEF After, Job
      <3>2. token = t => \A i \in Steps : i < job'[t].seq => Answered(i)
        <4>1. job[t].seq \in Nat BY <1>1 DEF Job
        <4>2. token = t => Answered(job[t].seq) BY <1>4, <3>1
        <4>3. token = t => \A i \in Steps : i < job[t].seq => Answered(i)
          BY <1>4, <3>1 DEF Planning
        <4> QED BY <3>1, <4>1, <4>2, <4>3, PlanningConstants DEF Steps
      <3>3. Sound(t)' BY <1>5, <1>6, <3>1, <3>2 DEF Fenced
      <3> QED BY <1>2, <3>1, <3>3, QuietStep DEF Fenced
    <2> QED BY <2>1, <2>2
  <1>16. CASE Finish(t)
    <2>1. CASE status \in Terminal BY <1>3, <1>16, <2>1 DEF Finish
    <2>2. CASE status \notin Terminal
      <3>1. job'[t].pc = "complete" /\ job[t].pc = "finish" /\ job'[t].seq = job[t].seq
        BY <1>1, <1>16, <2>2 DEF Finish, Job
      <3>2. Sound(t)' BY <1>4, <1>5, <3>1 DEF Fenced, Planning
      <3> QED BY <1>2, <3>1, <3>2, QuietStep DEF Fenced
    <2> QED BY <2>1, <2>2
  <1> QED BY <1>7, <1>8, <1>9, <1>10, <1>11, <1>12, <1>13, <1>14, <1>15, <1>16

\* The steps that write the plan.
LEMMA WriteSound ==
  ASSUME IInv, LInv, NEW t \in Token, Work(t),
         \/ StartStep(t) \/ Call(t) \/ Settle(t) \/ RecordSuccess(t) \/ RecordFailure(t)
         \/ Repair(t) \/ Propose(t)
  PROVE  LInv'
  <1> DEFINE k == job[t].seq
  <1> USE DEF At, Goto, Remember
  <1>1. job[t] \in Job /\ job \in [Token -> Job] BY DEF IInv, Types
  <1>2. Sound(t) /\ PlanTypes /\ Effect(t) BY WorkEffect DEF LInv
  <1>3. step \in [Steps -> StepStatus] /\ inv \in [Steps -> InvStatus]
    BY <1>2 DEF IInv, Types, PlanTypes
  <1>4. job[t].pc \in Fenced
    BY DEF StartStep, Call, Settle, RecordSuccess, RecordFailure, Repair, Propose, Fenced
  <1>5. ASSUME ~ Propose(t)
        PROVE  /\ Asking(t) /\ k \in Steps /\ proposals = 0
               /\ inv[k] # "succeeded" /\ step[k] # "completed"
               /\ \A i \in Steps : i < k => Answered(i)
    <2>1. Asking(t) /\ job[t].pc \in Planning
      BY <1>5 DEF StartStep, Call, Settle, RecordSuccess, RecordFailure, Repair, Asking,
                  Planning
    <2> QED BY <1>2, <1>4, <2>1 DEF Sound, Unanswered, Passed, Owns
  <1>6. status \in Terminal => status' \in Terminal BY <1>2 DEF Effect, RunEffect
  <1>7. ASSUME PlanTypes', StepsSound', AnswersKept', UNCHANGED proposals, Sound(t)'
        PROVE  LInv'
    BY <1>4, <1>7, SoundStep
  <1>8. ASSUME NEW i \in Steps, i < k, k \in Steps PROVE i # k
    BY <1>8, PlanningConstants DEF Steps
  <1>9. token' = t => token = t
    BY <1>2, PlanningConstants DEF Effect, RunEffect
  <1>10. CASE StartStep(t)
    <2>1. ~ Propose(t) BY <1>10 DEF StartStep, Propose
    <2>2. /\ step' = [step EXCEPT ![k] = "running"] /\ inv' = [inv EXCEPT ![k] = inv[k]]
          /\ UNCHANGED proposals
      BY <1>3, <1>10 DEF StartStep
    <2>3. inv[k] \in InvStatus /\ "running" \in StepStatus BY <1>3, <1>5, <2>1 DEF StepStatus
    <2>4. /\ PlanTypes' /\ StepsSound' /\ AnswersKept'
          /\ \A i \in Steps : i # k => (Answered(i) => Answered(i)')
          /\ step'[k] = "running" /\ inv'[k] = inv[k]
      BY <1>2, <1>4, <1>5, <2>1, <2>2, <2>3, OneWrite
    <2>5. job'[t].pc = "load" /\ job'[t].seq = k
      BY <1>1, <1>10 DEF StartStep, Job
    <2>6. Sound(t)'
      BY <1>5, <1>8, <2>1, <2>2, <2>4, <2>5
      DEF Sound, Fresh, Entry, Passed, Recorded, Unanswered, AtEnd
    <2> QED BY <1>7, <2>2, <2>4, <2>6
  <1>11. CASE Call(t)
    <2> DEFINE b == IF inv[k] = "none" THEN "pending" ELSE inv[k]
    <2>1. ~ Propose(t) BY <1>11 DEF Call, Propose
    <2>2. /\ step' = [step EXCEPT ![k] = step[k]] /\ inv' = [inv EXCEPT ![k] = b]
          /\ UNCHANGED proposals
      BY <1>3, <1>11 DEF Call
    <2>3. b \in InvStatus /\ step[k] \in StepStatus /\ b # "succeeded"
      BY <1>3, <1>5, <2>1 DEF InvStatus
    <2> HIDE DEF b
    <2>4. step[k] = "canceled" => status' \in Terminal
      BY <1>5, <1>6, <2>1 DEF LInv, StepsSound
    <2>5. /\ PlanTypes' /\ StepsSound' /\ AnswersKept'
          /\ \A i \in Steps : i # k => (Answered(i) => Answered(i)')
          /\ step'[k] = step[k] /\ inv'[k] = b
      BY <1>2, <1>4, <1>5, <2>1, <2>2, <2>3, <2>4, OneWrite
    <2>6. job'[t].pc = "provider" /\ job'[t].seq = k
      <3> DEFINE n == IF Holds(t) THEN job[t].late ELSE job[t].late + 1
      <3>1. job' = [job EXCEPT ![t].pc = "provider", ![t].late = n] BY <1>11 DEF Call
      <3> HIDE DEF n
      <3> QED BY <1>1, <3>1 DEF Job
    <2>7. Sound(t)'
      BY <1>5, <1>8, <2>1, <2>2, <2>3, <2>5, <2>6
      DEF Sound, Fresh, Entry, Passed, Recorded, Unanswered, AtEnd
    <2> QED BY <1>7, <2>2, <2>5, <2>7
  <1>12. CASE Settle(t)
    <2> DEFINE b == IF status = "canceled" /\ inv[k] = "pending" THEN "canceled" ELSE inv[k]
    <2>1. ~ Propose(t) BY <1>12 DEF Settle, Propose
    <2>2. /\ step' = [step EXCEPT ![k] = step[k]] /\ inv' = [inv EXCEPT ![k] = b]
          /\ UNCHANGED proposals
      BY <1>3, <1>12 DEF Settle
    <2>3. b \in InvStatus /\ step[k] \in StepStatus /\ b # "succeeded"
      BY <1>3, <1>5, <2>1 DEF InvStatus
    <2> HIDE DEF b
    <2>4. step[k] = "canceled" => status' \in Terminal
      BY <1>5, <1>6, <2>1 DEF LInv, StepsSound
    <2>5. /\ PlanTypes' /\ StepsSound' /\ AnswersKept'
          /\ \A i \in Steps : i # k => (Answered(i) => Answered(i)')
          /\ step'[k] = step[k] /\ inv'[k] = b
      BY <1>2, <1>4, <1>5, <2>1, <2>2, <2>3, <2>4, OneWrite
    <2>6. CASE status = "canceled"
      BY <1>7, <1>12, <2>2, <2>5, <2>6, LeftSound DEF Settle
    <2>7. CASE status # "canceled"
      <3>1. job'[t].pc = "record" /\ job'[t].seq = k
        BY <1>1, <1>12, <2>7 DEF Settle, Job
      <3>2. Sound(t)'
        BY <1>5, <1>8, <2>1, <2>2, <2>3, <2>5, <3>1
        DEF Sound, Fresh, Entry, Passed, Recorded, Unanswered, AtEnd
      <3> QED BY <1>7, <2>2, <2>5, <3>2
    <2> QED BY <2>6, <2>7
  <1>13. CASE RecordSuccess(t)
    <2>1. ~ Propose(t) BY <1>13 DEF RecordSuccess, Propose
    <2>2. CASE step[k] \in {"running", "completed"}
      <3>1. /\ step' = [step EXCEPT ![k] = "completed"]
            /\ inv' = [inv EXCEPT ![k] = "succeeded"]
            /\ UNCHANGED proposals
        BY <1>13, <2>2 DEF RecordSuccess
      <3>2. /\ PlanTypes' /\ StepsSound' /\ AnswersKept'
            /\ \A i \in Steps : i # k => (Answered(i) => Answered(i)')
            /\ step'[k] = "completed" /\ inv'[k] = "succeeded"
        BY <1>2, <1>4, <1>5, <2>1, <3>1, OneWrite DEF StepStatus, InvStatus
      <3>3. job'[t].pc = "after" /\ job'[t].seq = k
        BY <1>1, <1>13, <2>2 DEF RecordSuccess, Job
      <3>4. Sound(t)'
        BY <1>5, <1>8, <2>1, <3>1, <3>2, <3>3
        DEF Sound, Fresh, Entry, Passed, Recorded, Unanswered, AtEnd, Asking, Answered
      <3> QED BY <1>7, <3>1, <3>2, <3>4
    <2>3. CASE step[k] \notin {"running", "completed"}
      <3> DEFINE b == IF job[t].seen \in Terminal THEN inv[k] ELSE "succeeded"
      <3>1. /\ step' = [step EXCEPT ![k] = step[k]] /\ inv' = [inv EXCEPT ![k] = b]
            /\ UNCHANGED proposals /\ FailRun(t, job[t].seen)
        BY <1>3, <1>13, <2>3 DEF RecordSuccess
      <3>2. b \in InvStatus /\ step[k] \in StepStatus
        BY <1>3, <1>5, <2>1 DEF InvStatus
      <3>3. Leave(t, "done") BY <3>1 DEF FailRun
      <3>4. Sound(t)' /\ job'[t].pc \notin Fenced BY <3>3, LeftSound
      <3>5. b = "succeeded" => status' \in Terminal
        BY <1>5, <2>1, <3>1 DEF FailRun, Transition, Terminal
      <3> HIDE DEF b
      <3>6. step[k] = "canceled" => status' \in Terminal
        BY <1>5, <1>6, <2>1 DEF LInv, StepsSound
      <3>7. PlanTypes' /\ StepsSound' /\ AnswersKept'
        BY <1>2, <1>4, <1>5, <2>1, <2>3, <3>1, <3>2, <3>4, <3>5, <3>6, OneWrite
      <3> QED BY <1>7, <3>1, <3>4, <3>7
    <2> QED BY <2>2, <2>3
  <1>14. CASE RecordFailure(t)
    <2>1. ~ Propose(t) BY <1>14 DEF RecordFailure, Propose
    <2>2. FailRun(t, job[t].seen) /\ UNCHANGED proposals BY <1>14 DEF RecordFailure
    <2>3. Leave(t, "done") BY <2>2 DEF FailRun
    <2>4. Sound(t)' /\ job'[t].pc \notin Fenced BY <2>3, LeftSound
    <2>5. CASE job[t].seen \in Terminal
      BY <1>14, <2>4, <2>5, QuietStep DEF RecordFailure
    <2>6. CASE job[t].seen \notin Terminal
      <3> DEFINE a == IF step[k] = "running" THEN "failed" ELSE step[k]
      <3>1. /\ step' = [step EXCEPT ![k] = a] /\ inv' = [inv EXCEPT ![k] = "failed"]
        BY <1>14, <2>6 DEF RecordFailure
      <3>2. a \in StepStatus /\ a # "completed" /\ (a = "canceled" => step[k] = "canceled")
        BY <1>3, <1>5, <2>1 DEF StepStatus
      <3> HIDE DEF a
      <3>3. step[k] = "canceled" => status' \in Terminal
        BY <1>5, <1>6, <2>1 DEF LInv, StepsSound
      <3>4. PlanTypes' /\ StepsSound' /\ AnswersKept'
        BY <1>2, <1>4, <1>5, <2>1, <2>2, <3>1, <3>2, <3>3, OneWrite DEF InvStatus
      <3> QED BY <1>7, <2>2, <2>4, <3>4
    <2> QED BY <2>5, <2>6
  <1>15. CASE Repair(t)
    <2>1. ~ Propose(t) BY <1>15 DEF Repair, Propose
    <2>2. /\ step' = [step EXCEPT ![k] = "running"] /\ inv' = [inv EXCEPT ![k] = "none"]
          /\ UNCHANGED proposals
      BY <1>15 DEF Repair
    <2>3. /\ PlanTypes' /\ StepsSound' /\ AnswersKept'
          /\ \A i \in Steps : i # k => (Answered(i) => Answered(i)')
          /\ step'[k] = "running" /\ inv'[k] = "none"
      BY <1>2, <1>4, <1>5, <2>1, <2>2, OneWrite DEF StepStatus, InvStatus
    <2>4. job'[t].pc = "load" /\ job'[t].seq = k
      <3> DEFINE n == IF CanEscalate(t) THEN job[t].rung + 1 ELSE job[t].rung
      <3>1. job' = [job EXCEPT ![t].pc = "load", ![t].phase = "call", ![t].rung = n]
        BY <1>15 DEF Repair
      <3> HIDE DEF n
      <3> QED BY <1>1, <3>1 DEF Job
    <2>5. Sound(t)'
      BY <1>5, <1>8, <2>1, <2>2, <2>3, <2>4
      DEF Sound, Fresh, Entry, Passed, Recorded, Unanswered, AtEnd
    <2> QED BY <1>7, <2>2, <2>3, <2>5
  <1>16. CASE Propose(t)
    <2>1. UNCHANGED <<step, inv, status>> /\ proposals' = proposals + 1 /\ job[t].pc = "propose"
      BY <1>16 DEF Propose, run, plan
    <2>2. \A i \in Steps : Answered(i)
      <3>1. job[t].seq > NSteps /\ job[t].seq \in Nat
        BY <1>1, <1>2, <2>1 DEF Sound, AtEnd, Job
      <3>2. \A i \in Steps : i < job[t].seq
        BY <3>1, PlanningConstants DEF Steps
      <3> QED BY <1>2, <1>4, <2>1, <3>2 DEF Sound, Passed, Owns
    <2>3. \A i \in Steps : Answered(i)' BY <2>1, <2>2 DEF Answered
    <2>4. job'[t].pc = "finish" BY <1>1, <1>16 DEF Propose, Job
    <2>5. proposals' > 0 /\ PlanTypes' BY <1>2, <2>1 DEF PlanTypes
    <2>6. Sound(t)'
      BY <2>3, <2>4, <2>5
      DEF Sound, Fresh, Entry, Passed, Recorded, Unanswered, AtEnd, Asking
    <2>7. StepsSound' BY <2>1, <2>3 DEF LInv, StepsSound
    <2>8. AnswersKept' BY <1>4, <2>3 DEF AnswersKept, Answered
    <2> QED BY <1>4, <2>1, <2>5, <2>6, <2>7, <2>8, SoundStep
  <1> QED BY <1>10, <1>11, <1>12, <1>13, <1>14, <1>15, <1>16

\* A claim, a cancel, an edit, the clock and a crash.
LEMMA OthersSound ==
  ASSUME IInv, LInv,
         \/ \E t \in Token : Claim(t)
         \/ \E c \in Canceler : CancelReads(c) \/ CancelWrites(c)
         \/ EditStory \/ LeaseExpires \/ Crash \/ UNCHANGED vars
  PROVE  LInv'
  <1> USE DEF LInv
  <1>1. ASSUME NEW t \in Token, Claim(t) PROVE LInv'
    <2> DEFINE place == IF t \in SyncToken THEN "queued" ELSE "claimed"
    <2>1. job' = [job EXCEPT ![t].pc = place] /\ place \in {"queued", "claimed"}
      BY <1>1 DEF Claim, Goto
    <2> HIDE DEF place
    <2>2. /\ job'[t].pc = place /\ job'[t].seq = job[t].seq /\ job'[t].phase = job[t].phase
          /\ \A u \in Token \ {t} : job'[u] = job[u]
      BY <2>1 DEF IInv, Types, Job
    <2>3. /\ status' = "running" /\ token' = t /\ status \notin Terminal
          /\ job[t].pc = "idle" /\ UNCHANGED <<step, inv, proposals>>
      BY <1>1 DEF Claim, At, Terminal, plan
    <2>4. \A u \in Token : job[u].pc \notin Fenced
      BY <1>1, PlanningConstants DEF Claim, IInv, LeaseHeld, LeaseFollowsRun, Terminal
    <2>5. \A u \in Token : job'[u].pc \notin Fenced
      BY <2>1, <2>2, <2>4 DEF Fenced
    <2>6. Sound(t)'
      BY <2>1, <2>2, <2>3
      DEF Sound, Fresh, Entry, Passed, Recorded, Unanswered, AtEnd, Asking, Planning
    <2>7. ASSUME NEW u \in Token \ {t} PROVE Sound(u)'
      BY <2>2, <2>3, <2>5
      DEF Sound, Fresh, Entry, Passed, Recorded, Unanswered, AtEnd, Owns
    <2>8. PlanTypes' /\ OneFenced' /\ Completed'
      BY <2>3, <2>5 DEF PlanTypes, OneFenced, Completed
    <2>9. StepsSound' /\ AnswersKept'
      BY <2>3 DEF StepsSound, AnswersKept, Answered
    <2> QED BY <2>6, <2>7, <2>8, <2>9
  <1>2. ASSUME NEW c \in Canceler, CancelWrites(c) PROVE LInv'
    <2>1. /\ UNCHANGED <<inv, proposals, job>> /\ status' = "canceled" /\ token' = NoToken
          /\ \A i \in Steps : step'[i] \in {"canceled", step[i]}
      BY <1>2 DEF CancelWrites, Transition, Terminal
    <2>2. \A i \in Steps : Answered(i) => Answered(i)' BY <2>1 DEF Answered
    <2>3. \A t \in Token : Owns(t)' <=> job[t].pc \in Fenced
      BY <2>1, PlanningConstants DEF Owns
    <2>4. \A t \in Token : Sound(t)'
      BY <2>1, <2>2, <2>3, PlanningConstants
      DEF Sound, Fresh, Passed, Recorded, Unanswered, AtEnd, Asking, Owns
    <2>5. PlanTypes' /\ OneFenced' /\ Completed'
      BY <2>1 DEF PlanTypes, OneFenced, Completed
    <2>6. StepsSound' BY <2>1, <2>2 DEF StepsSound, Terminal
    <2>7. AnswersKept' BY <2>1 DEF AnswersKept, Terminal
    <2> QED BY <2>4, <2>5, <2>6, <2>7
  <1>3. ASSUME UNCHANGED <<status, token, step, inv, proposals>>,
               \A t \in Token : /\ job'[t] = job[t] \/ job'[t].pc = "dead"
        PROVE  LInv'
    <2>1. \A t \in Token : job'[t].pc \in Fenced => job'[t] = job[t]
      BY <1>3 DEF Fenced
    <2>2. ASSUME NEW t \in Token PROVE Sound(t)'
      <3>1. CASE job'[t] = job[t]
        BY <1>3, <3>1
        DEF Sound, Fresh, Passed, Recorded, Unanswered, AtEnd, Asking, Owns, Answered
      <3>2. CASE job'[t].pc = "dead"
        BY <3>2 DEF Sound, Fresh, Entry, Passed, Recorded, Unanswered, AtEnd, Asking, Planning
      <3> QED BY <1>3, <3>1, <3>2
    <2>3. PlanTypes' /\ OneFenced' /\ Completed'
      BY <1>3, <2>1 DEF PlanTypes, OneFenced, Completed
    <2>4. StepsSound' /\ AnswersKept'
      BY <1>3, <2>1 DEF StepsSound, AnswersKept, Answered
    <2> QED BY <2>2, <2>3, <2>4
  <1>4. ASSUME NEW c \in Canceler, CancelReads(c) PROVE LInv'
    BY <1>3, <1>4 DEF CancelReads, db, run, plan
  <1>5. CASE EditStory BY <1>3, <1>5 DEF EditStory, run, plan
  <1>6. CASE LeaseExpires BY <1>3, <1>6 DEF LeaseExpires, plan
  <1>7. CASE Crash
    <2> DEFINE Dead(t) == [NewJob EXCEPT !.pc = "dead", !.late = job[t].late]
    <2>1. UNCHANGED <<status, token, step, inv, proposals>>
      BY <1>7 DEF Crash, db, run, plan
    <2>2. ASSUME NEW t \in Token PROVE job'[t] = job[t] \/ job'[t].pc = "dead"
      <3>1. job'[t] = job[t] \/ job'[t] = Dead(t) BY <1>7 DEF Crash
      <3>2. Dead(t).pc = "dead" BY DEF NewJob
      <3> HIDE DEF Dead
      <3> QED BY <3>1, <3>2
    <2> QED BY <1>3, <2>1, <2>2
  <1>8. CASE UNCHANGED vars BY <1>3, <1>8 DEF vars, db, run, plan
  <1> QED BY <1>1, <1>2, <1>4, <1>5, <1>6, <1>7, <1>8

\* What a proposal rests on holds in every reachable state.
LEMMA PlanInvariant == Spec => []LInv
  <1>1. ASSUME Init PROVE LInv
    <2> USE <1>1, PlanningConstants DEF Init
    <2>1. \A t \in Token : job[t] = NewJob OBVIOUS
    <2>2. NewJob.pc = "idle" /\ NewJob.seq = 1 /\ NewJob.phase = "loop" BY DEF NewJob
    <2>3. \A t \in Token : Sound(t)
      BY <2>1, <2>2
      DEF Sound, Fresh, Passed, Recorded, Unanswered, AtEnd, Asking, Planning
    <2>4. OneFenced BY <2>1, <2>2 DEF OneFenced, Fenced
    <2>5. PlanTypes /\ StepsSound /\ AnswersKept /\ Completed
      BY DEF PlanTypes, InvStatus, StepsSound, AnswersKept, Completed
    <2> QED BY <2>3, <2>4, <2>5 DEF LInv
  <1>2. IInv /\ LInv /\ [Next]_vars => LInv'
    BY EntrySound, LoopSound, WriteSound, OthersSound DEF Next, Work
  <1> QED BY <1>1, <1>2, Invariant, PTL DEF Spec

-----------------------------------------------------------------------------
(***************************************************************************)
(* How often a run proposes.  More proposals than crashes are one more at  *)
(* most, and then the worker that filed the last one is about to complete  *)
(* the run, or the run has ended and nobody is about to propose.           *)
(***************************************************************************)
Finalizing == \E t \in Token : job[t].pc \in {"finish", "complete"}

Closed == status \in Terminal /\ \A t \in Token : job[t].pc # "propose"

OnceInv == /\ crashes \in Nat
           /\ \/ proposals <= crashes
              \/ proposals = crashes + 1 /\ (Finalizing \/ Closed)

\* A worker comes to a call of the provider, and to the proposal, by one step only.
LEMMA CallFrom ==
  ASSUME IInv, NEW t \in Token, Work(t),
         \/ job[t].pc # "provider" /\ job'[t].pc = "provider"
         \/ job'[t].pc = "propose"
  PROVE  \/ job'[t].pc = "provider" /\ Call(t)
         \/ job'[t].pc = "propose" /\ Look(t) /\ status = "running"
  <1> USE DEF At
  <1> SUFFICES ASSUME ~ Call(t), ~ (Look(t) /\ status = "running") PROVE FALSE
    <2>1. ~ (Look(t) /\ job'[t].pc = "provider")
      BY LeftJob DEF Look, Remember, IInv, Types, Job, Places
    <2>2. ~ (Call(t) /\ job'[t].pc = "propose")
      <3> DEFINE n == IF Holds(t) THEN job[t].late ELSE job[t].late + 1
      <3>1. ASSUME Call(t)
            PROVE  job' = [job EXCEPT ![t].pc = "provider", ![t].late = n]
        BY <3>1 DEF Call
      <3> HIDE DEF n
      <3> QED BY <3>1 DEF IInv, Types, Job
    <2> QED BY <2>1, <2>2
  <1>1. job[t] \in Job /\ job \in [Token -> Job] BY DEF IInv, Types
  <1>2. ~ Leave(t, "done") /\ ~ Leave(t, "refused")
    BY LeftJob DEF IInv, Places
  <1>3. ASSUME NEW p, Goto(t, p) \/ Remember(t, p) PROVE p \in {"provider", "propose"}
    BY <1>1, <1>3 DEF Goto, Remember, Job
  <1>4. ~ Submit(t) /\ ~ Refuse(t) /\ ~ Begin(t) /\ ~ Enter(t) /\ ~ Boundary(t)
    BY <1>2, <1>3 DEF Submit, Refuse, Begin, Enter, Boundary, NotLeased
  <1>5. ~ BuildContext(t) /\ ~ CheckHash(t) /\ ~ Load(t)
    BY <1>1, <1>2, <1>3 DEF BuildContext, CheckHash, Load, FailRun, Job
  <1>6. ~ Renew(t) BY <1>1, <1>2, <1>3 DEF Renew, AfterRenewal, FailRun, Job
  <1>7. ~ Look(t) BY <1>1, <1>2, <1>3 DEF Look, Job
  <1>8. ~ Raise(t) /\ ~ Fail(t) /\ ~ StartStep(t) /\ ~ ResumeStep(t) /\ ~ Check(t)
    BY <1>1, <1>2, <1>3 DEF Raise, Fail, StartStep, ResumeStep, Check, FailRun, Job
  <1>9. ~ Return(t)
    <2>1. ASSUME NEW r, job' = [job EXCEPT ![t].pc = "load", ![t].phase = "settle",
                                           ![t].result = r]
          PROVE  FALSE
      BY <1>1, <2>1 DEF Job
    <2> QED BY <2>1 DEF Return
  <1>10. ~ RetryBudgetSpent(t) BY <1>2, <1>3 DEF RetryBudgetSpent
  <1>11. ~ Settle(t) /\ ~ RecordSuccess(t) /\ ~ RecordFailure(t)
    BY <1>2, <1>3 DEF Settle, RecordSuccess, RecordFailure, FailRun
  <1>12. ~ Repair(t)
    <2> DEFINE n == IF CanEscalate(t) THEN job[t].rung + 1 ELSE job[t].rung
    <2>1. ASSUME Repair(t)
          PROVE  job' = [job EXCEPT ![t].pc = "load", ![t].phase = "call", ![t].rung = n]
      BY <2>1 DEF Repair
    <2> HIDE DEF n
    <2> QED BY <1>1, <2>1 DEF Job
  <1>13. ~ After(t) /\ ~ Propose(t) /\ ~ Finish(t) /\ ~ Complete(t)
    BY <1>1, <1>2, <1>3 DEF After, Propose, Finish, Complete, Job
  <1> QED BY <1>4, <1>5, <1>6, <1>7, <1>8, <1>9, <1>10, <1>11, <1>12, <1>13 DEF Work

\* A worker files a proposal after none or after a crash.
LEMMA WorkOnce ==
  ASSUME IInv, LInv, OnceInv, NEW t \in Token, Work(t)
  PROVE  OnceInv'
  <1>1. Effect(t) BY WorkEffect
  <1>2. /\ \A u \in Token : u # t => job'[u] = job[u]
        /\ status \in Terminal => status' \in Terminal
    BY <1>1 DEF Effect, JobEffect, RunEffect, IInv, Types
  <1>3. proposals \in Nat /\ crashes \in Nat BY DEF LInv, PlanTypes, OnceInv
  <1>4. crashes' = crashes
    BY DEF Work, Submit, Refuse, Begin, Enter, Boundary, BuildContext, CheckHash, Load, Renew,
           Look, Raise, Fail, StartStep, ResumeStep, Check, Call, Return, RetryBudgetSpent,
           Settle, RecordSuccess, RecordFailure, Repair, After, Propose, Finish, Complete
  <1>5. CASE Propose(t)
    <2>1. /\ proposals' = proposals + 1 /\ job[t].pc = "propose" /\ job'[t].pc = "finish"
      BY <1>5 DEF Propose, At, Goto, IInv, Types, Job
    <2>2. ~ Finalizing /\ ~ Closed
      BY <2>1 DEF Finalizing, Closed, LInv, OneFenced, Fenced
    <2>3. Finalizing' BY <2>1 DEF Finalizing
    <2> QED BY <1>3, <1>4, <2>1, <2>2, <2>3 DEF OnceInv
  <1>6. ASSUME ~ Propose(t) PROVE UNCHANGED proposals
    BY <1>6 DEF Work, Submit, Refuse, Begin, Enter, Boundary, BuildContext, CheckHash, Load,
           Renew, Look, Raise, Fail, StartStep, ResumeStep, Check, Call, Return,
           RetryBudgetSpent, Settle, RecordSuccess, RecordFailure, Repair, After, Finish,
           Complete, db
  <1>7. CASE Finish(t) \/ Complete(t)
    <2>1. job[t].pc \in {"finish", "complete"} BY <1>7 DEF Finish, Complete, At
    <2>2. job'[t].pc = "complete" \/ (status' \in Terminal /\ job'[t].pc = "done")
      <3>1. CASE Leave(t, "done")
        <4>1. job'[t].pc = "done" BY <3>1, LeftJob DEF IInv, Places
        <4>2. status' \in Terminal
          BY <1>2, <1>7, <3>1, <4>1
          DEF Finish, Complete, Transition, Terminal, Remember, IInv, Types, Job
        <4> QED BY <4>1, <4>2
      <3>2. CASE Remember(t, "complete") BY <3>2 DEF Remember, IInv, Types, Job
      <3> QED BY <1>7, <3>1, <3>2 DEF Finish, Complete
    <2>3. \A u \in Token : job[u].pc # "propose"
      BY <2>1 DEF LInv, OneFenced, Fenced
    <2>4. Finalizing' \/ Closed'
      BY <1>2, <2>2, <2>3 DEF Finalizing, Closed
    <2>5. ~ Propose(t) BY <2>1 DEF Propose, At
    <2> QED BY <1>3, <1>4, <1>6, <2>4, <2>5 DEF OnceInv
  <1>8. CASE ~ Propose(t) /\ ~ Finish(t) /\ ~ Complete(t)
    <2>1. job[t].pc \notin {"finish", "complete"}
      BY <1>8 DEF Work, Submit, Refuse, Begin, Enter, Boundary, BuildContext, CheckHash, Load,
             Renew, Look, Raise, Fail, StartStep, ResumeStep, Check, Call, Return,
             RetryBudgetSpent, Settle, RecordSuccess, RecordFailure, Repair, After, At
    <2>2. Finalizing => Finalizing' BY <1>2, <2>1 DEF Finalizing
    <2>3. CASE job'[t].pc = "propose"
      <3>1. Look(t) /\ status = "running" BY <2>3, CallFrom
      <3>2. ~ Closed BY <3>1 DEF Closed, Terminal
      <3> QED BY <1>3, <1>4, <1>6, <1>8, <2>2, <3>2 DEF OnceInv
    <2>4. CASE job'[t].pc # "propose"
      <3>1. Closed => Closed' BY <1>2, <2>4 DEF Closed
      <3> QED BY <1>3, <1>4, <1>6, <1>8, <2>2, <3>1 DEF OnceInv
    <2> QED BY <2>3, <2>4
  <1> QED BY <1>5, <1>7, <1>8

\* The steps of the others: only a crash lets the run propose once more.
LEMMA OthersOnce ==
  ASSUME IInv, LInv, OnceInv,
         \/ \E t \in Token : Claim(t)
         \/ \E c \in Canceler : CancelReads(c) \/ CancelWrites(c)
         \/ EditStory \/ LeaseExpires \/ Crash \/ UNCHANGED vars
  PROVE  OnceInv'
  <1> USE DEF OnceInv
  <1>1. proposals \in Nat /\ crashes \in Nat BY DEF LInv, PlanTypes
  <1>2. ASSUME NEW t \in Token, Claim(t) PROVE OnceInv'
    <2> DEFINE place == IF t \in SyncToken THEN "queued" ELSE "claimed"
    <2>1. job' = [job EXCEPT ![t].pc = place] /\ place \in {"queued", "claimed"}
      BY <1>2 DEF Claim, Goto
    <2> HIDE DEF place
    <2>2. job'[t].pc = place /\ job[t].pc = "idle" /\ \A u \in Token \ {t} : job'[u] = job[u]
      BY <1>2, <2>1 DEF Claim, At, IInv, Types, Job
    <2>3. Finalizing => Finalizing' BY <2>2 DEF Finalizing
    <2>4. ~ Closed BY <1>2 DEF Claim, Closed, Terminal
    <2> QED BY <1>2, <2>3, <2>4 DEF Claim
  <1>3. ASSUME NEW c \in Canceler, CancelWrites(c) PROVE OnceInv'
    <2>1. UNCHANGED <<proposals, crashes, job>> /\ status' \in Terminal
      BY <1>3 DEF CancelWrites, Transition, Terminal
    <2> QED BY <2>1 DEF Finalizing, Closed
  <1>4. CASE Crash
    <2>1. proposals' = proposals /\ crashes' = crashes + 1 BY <1>4 DEF Crash, db
    <2> QED BY <1>1, <2>1
  <1>5. ASSUME UNCHANGED <<status, job, proposals, crashes>> PROVE OnceInv'
    BY <1>5 DEF Finalizing, Closed
  <1> QED BY <1>2, <1>3, <1>4, <1>5
       DEF CancelReads, EditStory, LeaseExpires, vars, db, run

\* How often a run proposes is bounded in every reachable state.
LEMMA OnceInvariant == Spec => []OnceInv
  <1>1. Init => OnceInv BY DEF Init, OnceInv
  <1>2. IInv /\ LInv /\ OnceInv /\ [Next]_vars => OnceInv'
    BY WorkOnce, OthersOnce DEF Next
  <1> QED BY <1>1, <1>2, Invariant, PlanInvariant, PTL DEF Spec

-----------------------------------------------------------------------------
(***************************************************************************)
(* The bounds of the types.  A step gets a new attempt for a repair, of    *)
(* which the run has RepairBudget, or for an escalation, of which a worker *)
(* has Ladder at every step: it comes to a step once, and a worker that    *)
(* goes back to it after a repair does not look at it anew.                *)
(***************************************************************************)
Staged(r) ==
  /\ r.seq <= NSteps + 1 /\ r.rung <= Ladder
  /\ r.pc \in {"look", "start"} => r.phase = "loop"
  /\ r.pc \in {"check", "call", "provider", "settle", "record", "after"} => r.phase # "loop"
  /\ r.pc = "start" \/ r.phase # "loop" => r.seq <= NSteps

\* The escalations a worker has behind it at step i, as many as it can have once it has
\* left the step.
Spent(r, i) ==
  IF r.pc \in {"done", "refused", "dead"} \/ r.seq > i THEN Ladder
  ELSE IF r.seq = i /\ r.phase # "loop" THEN r.rung ELSE 0

Used(i) == {x \in Token \X (1 .. Ladder) : x[2] <= Spent(job[x[1]], i)}

Attempts == \A i \in Steps :
  attempt[i] \in Nat \ {0} /\ attempt[i] <= 1 + repairs + Cardinality(Used(i))

CancelTypes == cancel \in [Canceler -> [pc : {"idle", "read", "done"},
                                        step : [Steps -> StepStatus], attempt : [Steps -> Nat]]]

BInv == /\ repairs \in 0 .. RepairBudget /\ crashes \in 0 .. MaxCrashes
        /\ attempt \in [Steps -> Nat] /\ CancelTypes
        /\ (\A t \in Token : Staged(job[t])) /\ Attempts

\* What a step of a worker may do to its record.
Onward(t) == /\ Staged(job'[t])
             /\ \A i \in Steps : Spent(job[t], i) <= Spent(job'[t], i)

\* A worker that returns has spent everything.
LEMMA LeaveOnward ==
  ASSUME IInv, NEW t \in Token, Staged(job[t]), Leave(t, "done") \/ Leave(t, "refused")
  PROVE  Onward(t)
  <1> DEFINE r(p) == [NewJob EXCEPT !.pc = p, !.late = job[t].late]
  <1>1. PICK p \in {"done", "refused"} : Leave(t, p) OBVIOUS
  <1>2. job'[t] = r(p) BY <1>1 DEF Leave, IInv, Types
  <1>3. r(p).pc = p /\ r(p).seq = 1 /\ r(p).rung = 0 /\ r(p).phase = "loop"
    BY DEF NewJob
  <1>4. /\ job'[t].pc = p /\ job'[t].seq = 1 /\ job'[t].rung = 0 /\ job'[t].phase = "loop"
        /\ job[t].rung \in Nat /\ job[t].seq \in Nat
    BY <1>2, <1>3 DEF IInv, Types, Job
  <1> HIDE DEF r
  <1> QED BY <1>4, PlanningConstants DEF Onward, Staged, Spent, Steps

\* A worker that only moves.
LEMMA MoveOnward ==
  ASSUME IInv, NEW t \in Token, Staged(job[t]), NEW p \in Places,
         Goto(t, p) \/ Remember(t, p),
         job[t].pc \notin {"done", "refused", "dead"},
         p \in {"look", "start"} => job[t].phase = "loop",
         p \in {"check", "call", "provider", "settle", "record", "after"} =>
           job[t].phase # "loop",
         p = "start" => job[t].seq <= NSteps
  PROVE  Onward(t)
  <1>1. /\ job'[t].pc = p /\ job'[t].seq = job[t].seq /\ job'[t].rung = job[t].rung
        /\ job'[t].phase = job[t].phase /\ job[t].rung \in Nat /\ job[t].seq \in Nat
    BY DEF Goto, Remember, IInv, Types, Job
  <1> QED BY <1>1, PlanningConstants DEF Onward, Staged, Spent, Steps

\* Every step of a worker goes on, and gives the step an attempt only for a repair or an
\* escalation.
LEMMA EntryOnward ==
  ASSUME IInv, NEW t \in Token, Staged(job[t]),
         \/ Submit(t) \/ Refuse(t) \/ Begin(t) \/ Enter(t) \/ Boundary(t) \/ BuildContext(t)
         \/ CheckHash(t) \/ Load(t) \/ Renew(t) \/ Raise(t) \/ Fail(t) \/ Check(t)
  PROVE  Onward(t) /\ UNCHANGED <<repairs, attempt>>
  <1> USE DEF At
  <1>a. Leave(t, "done") \/ Leave(t, "refused") => Onward(t) BY LeaveOnward
  <1>b. ASSUME NEW p \in Places, Goto(t, p) \/ Remember(t, p),
               job[t].pc \notin {"done", "refused", "dead"},
               p \in {"look", "start"} => job[t].phase = "loop",
               p \in {"check", "call", "provider", "settle", "record", "after"} =>
                 job[t].phase # "loop",
               p = "start" => job[t].seq <= NSteps
        PROVE  Onward(t)
    BY <1>b, MoveOnward
  <1>0. UNCHANGED <<repairs, attempt>>
    BY DEF Submit, Refuse, Begin, Enter, Boundary, BuildContext, CheckHash, Load, Renew, Raise,
           Fail, Check, FailRun, Transition, db, run, plan
  <1> SUFFICES Onward(t) BY <1>0
  <1>1. CASE Submit(t) BY <1>a, <1>b, <1>1 DEF Submit, Places
  <1>2. CASE Refuse(t) BY <1>a, <1>b, <1>2 DEF Refuse
  <1>3. CASE Begin(t) BY <1>a, <1>b, <1>3 DEF Begin, NotLeased, Places
  <1>4. CASE Enter(t) BY <1>a, <1>b, <1>4 DEF Enter, NotLeased, Places
  <1>5. CASE Boundary(t) BY <1>a, <1>b, <1>5 DEF Boundary, Places
  <1>6. CASE BuildContext(t)
    BY <1>6, PlanningConstants DEF BuildContext, Onward, Staged, Spent, IInv, Types, Job, Steps
  <1>7. CASE CheckHash(t) BY <1>a, <1>b, <1>7 DEF CheckHash, FailRun, Places
  <1>8. CASE Load(t) BY <1>a, <1>b, <1>8 DEF Load, Places
  <1>9. CASE Renew(t)
    <2>1. job[t].phase \in {"loop", "call", "settle"} BY DEF IInv, Types, Job
    <2> QED BY <1>a, <1>b, <1>9, <2>1 DEF Renew, FailRun, AfterRenewal, Places
  <1>10. CASE Raise(t) BY <1>a, <1>b, <1>10 DEF Raise, FailRun
  <1>11. CASE Fail(t) BY <1>a, <1>b, <1>11 DEF Fail, FailRun
  <1>12. CASE Check(t) BY <1>a, <1>b, <1>12 DEF Check, Staged, Places
  <1> QED BY <1>1, <1>2, <1>3, <1>4, <1>5, <1>6, <1>7, <1>8, <1>9, <1>10, <1>11, <1>12

\* The steps of the loop and of a provider call, except a repair.
LEMMA LoopOnward ==
  ASSUME IInv, NEW t \in Token, Staged(job[t]),
         \/ Look(t) \/ StartStep(t) \/ ResumeStep(t) \/ Call(t) \/ Return(t)
         \/ RetryBudgetSpent(t) \/ Settle(t) \/ RecordSuccess(t) \/ RecordFailure(t)
         \/ After(t) \/ Propose(t) \/ Finish(t) \/ Complete(t)
  PROVE  Onward(t) /\ UNCHANGED <<repairs, attempt>>
  <1> USE PlanningConstants DEF At
  <1>0. UNCHANGED <<repairs, attempt>>
    BY DEF Look, StartStep, ResumeStep, Call, Return, RetryBudgetSpent, Settle, RecordSuccess,
           RecordFailure, After, Propose, Finish, Complete, FailRun, Transition, db, run, plan
  <1> SUFFICES Onward(t) BY <1>0
  <1>a. Leave(t, "done") => Onward(t) BY LeaveOnward
  <1>b. ASSUME NEW p \in Places, Goto(t, p) \/ Remember(t, p),
               job[t].pc \notin {"done", "refused", "dead"},
               p \in {"look", "start"} => job[t].phase = "loop",
               p \in {"check", "call", "provider", "settle", "record", "after"} =>
                 job[t].phase # "loop",
               p = "start" => job[t].seq <= NSteps
        PROVE  Onward(t)
    BY <1>b, MoveOnward
  <1>c. job \in [Token -> Job] /\ job[t] \in Job BY DEF IInv, Types
  <1>d. Staged(job[t]) /\ job[t].seq \in Nat \ {0} /\ job[t].rung \in Nat BY <1>c DEF Job
  <1>1. CASE Look(t)
    <2>1. ASSUME job[t].seq <= NSteps, job[t].pc = "look",
                 job' = [job EXCEPT ![t].pc = "load", ![t].seq = job[t].seq + 1]
          PROVE  Onward(t)
      <3>1. /\ job'[t].pc = "load" /\ job'[t].seq = job[t].seq + 1
            /\ job'[t].rung = job[t].rung /\ job'[t].phase = job[t].phase
        BY <2>1, <1>c DEF Job
      <3>2. Staged(job'[t]) BY <2>1, <3>1, <1>d DEF Staged
      <3>3. ASSUME NEW i \in Steps PROVE Spent(job[t], i) <= Spent(job'[t], i)
        BY <2>1, <3>1, <1>d DEF Staged, Spent, Steps
      <3> QED BY <3>2, <3>3 DEF Onward
    <2>2. ASSUME job[t].seq <= NSteps, job[t].pc = "look", NEW h,
                 job' = [job EXCEPT ![t].pc = "start", ![t].seen = status,
                                    ![t].head = h, ![t].rung = 0]
          PROVE  Onward(t)
      <3>1. /\ job'[t].pc = "start" /\ job'[t].seq = job[t].seq
            /\ job'[t].rung = 0 /\ job'[t].phase = job[t].phase
        BY <2>2, <1>c DEF Job
      <3>2. Staged(job'[t]) BY <2>2, <3>1, <1>d DEF Staged
      <3>3. ASSUME NEW i \in Steps PROVE Spent(job[t], i) <= Spent(job'[t], i)
        BY <2>2, <3>1, <1>d DEF Staged, Spent, Steps
      <3> QED BY <3>2, <3>3 DEF Onward
    <2>3. job[t].seq <= NSteps \/ job[t].seq > NSteps BY <1>d
    <2> QED BY <1>a, <1>b, <1>1, <2>1, <2>2, <2>3 DEF Look, Places
  <1>2. CASE StartStep(t)
    <2>1. /\ job[t].pc = "start" /\ job'[t].pc = "load" /\ job'[t].seq = job[t].seq
          /\ job'[t].rung = job[t].rung /\ job'[t].phase = "call"
      BY <1>2, <1>c DEF StartStep, Job
    <2> QED BY <2>1, <1>d DEF Onward, Staged, Spent, Steps
  <1>3. CASE ResumeStep(t)
    <2>1. ASSUME job' = [job EXCEPT ![t].pc = "check", ![t].phase = "call"]
          PROVE  Onward(t)
      <3>1. /\ job[t].pc = "start" /\ job'[t].pc = "check" /\ job'[t].seq = job[t].seq
            /\ job'[t].rung = job[t].rung /\ job'[t].phase = "call"
        BY <1>3, <2>1, <1>c DEF ResumeStep, Job
      <3> QED BY <3>1, <1>d DEF Onward, Staged, Spent, Steps
    <2> QED BY <1>a, <1>3, <2>1 DEF ResumeStep, FailRun
  <1>4. CASE Call(t)
    <2> DEFINE n == IF Holds(t) THEN job[t].late ELSE job[t].late + 1
    <2>1. job' = [job EXCEPT ![t].pc = "provider", ![t].late = n] /\ job[t].pc = "call"
      BY <1>4 DEF Call
    <2> HIDE DEF n
    <2>2. /\ job'[t].pc = "provider" /\ job'[t].seq = job[t].seq
          /\ job'[t].rung = job[t].rung /\ job'[t].phase = job[t].phase
      BY <2>1, <1>c DEF Job
    <2>3. Staged(job'[t]) BY <2>1, <2>2, <1>d DEF Staged
    <2>4. ASSUME NEW i \in Steps PROVE Spent(job[t], i) <= Spent(job'[t], i)
      BY <2>1, <2>2, <1>d DEF Staged, Spent, Steps
    <2> QED BY <2>3, <2>4 DEF Onward
  <1>5. CASE Return(t)
    <2>1. PICK r \in {"ok", "invalid", "transport"} :
            job' = [job EXCEPT ![t].pc = "load", ![t].phase = "settle", ![t].result = r]
      BY <1>5 DEF Return
    <2>2. /\ job[t].pc = "provider" /\ job'[t].pc = "load" /\ job'[t].seq = job[t].seq
          /\ job'[t].rung = job[t].rung /\ job'[t].phase = "settle"
      BY <1>5, <2>1, <1>c DEF Return, Job
    <2> QED BY <2>2, <1>d DEF Onward, Staged, Spent, Steps
  <1>6. CASE RetryBudgetSpent(t) BY <1>a, <1>b, <1>6 DEF RetryBudgetSpent, Places
  <1>7. CASE Settle(t) BY <1>a, <1>b, <1>7 DEF Settle, Staged, Places
  <1>8. CASE RecordSuccess(t)
    BY <1>a, <1>b, <1>8 DEF RecordSuccess, FailRun, Staged, Places
  <1>9. CASE RecordFailure(t) BY <1>a, <1>9 DEF RecordFailure, FailRun
  <1>10. CASE After(t)
    <2>1. ASSUME job' = [job EXCEPT ![t].pc = "load", ![t].phase = "loop",
                                    ![t].seq = job[t].seq + 1]
          PROVE  Onward(t)
      <3>1. /\ job[t].pc = "after" /\ job'[t].pc = "load" /\ job'[t].phase = "loop"
            /\ job'[t].rung = job[t].rung /\ job'[t].seq = job[t].seq + 1
        BY <1>10, <2>1, <1>c DEF After, Job
      <3> QED BY <3>1, <1>d DEF Onward, Staged, Spent, Steps
    <2> QED BY <1>a, <1>10, <2>1 DEF After
  <1>11. CASE Propose(t) BY <1>b, <1>11 DEF Propose, Places
  <1>12. CASE Finish(t) BY <1>a, <1>b, <1>12 DEF Finish, Places
  <1>13. CASE Complete(t) BY <1>a, <1>13 DEF Complete
  <1> QED BY <1>1, <1>2, <1>3, <1>4, <1>5, <1>6, <1>7, <1>8, <1>9, <1>10, <1>11, <1>12, <1>13

\* A repair or an escalation goes on, and an escalation is one step up the ladder.
LEMMA RepairOnward ==
  ASSUME IInv, BInv, NEW t \in Token, Repair(t)
  PROVE  /\ Onward(t) /\ job[t].seq \in Steps
         /\ attempt' = [attempt EXCEPT ![job[t].seq] = @ + 1]
         /\ repairs' \in 0 .. RepairBudget
         /\ \/ repairs' = repairs + 1
            \/ /\ repairs' = repairs /\ job[t].rung + 1 \in 1 .. Ladder
               /\ Spent(job[t], job[t].seq) = job[t].rung
               /\ Spent(job'[t], job[t].seq) = job[t].rung + 1
  <1> DEFINE n == IF CanEscalate(t) THEN job[t].rung + 1 ELSE job[t].rung
  <1> USE PlanningConstants
  <1>0. Staged(job[t]) /\ job[t].seq \in Nat \ {0} /\ job[t].rung \in Nat /\ job[t].pc = "record"
    BY DEF BInv, IInv, Types, Job, Repair, At
  <1>1. job' = [job EXCEPT ![t].pc = "load", ![t].phase = "call", ![t].rung = n]
    BY DEF Repair
  <1>2. n \in Nat /\ n <= Ladder /\ job[t].rung <= n
    BY <1>0 DEF CanEscalate, Staged
  <1>3. CASE CanRepair
    <2>1. repairs' = repairs + 1 /\ repairs' \in 0 .. RepairBudget
      BY <1>3 DEF Repair, CanRepair, BInv
    <2> HIDE DEF n
    <2>2. /\ job'[t].pc = "load" /\ job'[t].phase = "call" /\ job'[t].rung = n
          /\ job'[t].seq = job[t].seq
      BY <1>1 DEF IInv, Types, Job
    <2>3. Staged(job'[t]) /\ job[t].seq \in Steps BY <1>0, <1>2, <2>2 DEF Staged, Steps
    <2>4. ASSUME NEW i \in Steps PROVE Spent(job[t], i) <= Spent(job'[t], i)
      BY <1>0, <1>2, <2>2 DEF Staged, Spent, Steps
    <2> QED BY <1>0, <1>2, <2>1, <2>2, <2>3, <2>4 DEF Onward, Staged, Spent, Repair
  <1>4. CASE ~ CanRepair
    <2>1. n = job[t].rung + 1 /\ repairs' = repairs BY <1>4 DEF Repair
    <2> HIDE DEF n
    <2>2. /\ job'[t].pc = "load" /\ job'[t].phase = "call" /\ job'[t].rung = n
          /\ job'[t].seq = job[t].seq
      BY <1>1 DEF IInv, Types, Job
    <2>3. Staged(job'[t]) /\ job[t].seq \in Steps BY <1>0, <1>2, <2>2 DEF Staged, Steps
    <2>4. ASSUME NEW i \in Steps PROVE Spent(job[t], i) <= Spent(job'[t], i)
      BY <1>0, <1>2, <2>2 DEF Staged, Spent, Steps
    <2>5. /\ attempt' = [attempt EXCEPT ![job[t].seq] = @ + 1]
          /\ repairs' = repairs /\ repairs' \in 0 .. RepairBudget
      BY <2>1 DEF Repair, BInv
    <2>6. job[t].rung + 1 \in 1 .. Ladder BY <1>0, <1>2, <2>1
    <2>7. /\ Spent(job[t], job[t].seq) = job[t].rung
          /\ Spent(job'[t], job[t].seq) = job[t].rung + 1
      BY <1>0, <2>1, <2>2, <2>3 DEF Staged, Spent
    <2> QED BY <2>3, <2>4, <2>5, <2>6, <2>7 DEF Onward
  <1> QED BY <1>3, <1>4

\* What a worker has spent is a number.
LEMMA SpentNat ==
  ASSUME Types, NEW t \in Token, NEW i \in Steps PROVE Spent(job[t], i) \in Nat
  <1>1. job[t].rung \in Nat BY DEF Types, Job
  <1> QED BY <1>1, PlanningConstants DEF Spent

\* The escalations of all workers at a step are finite in number, with a bound that does
\* not depend on the state.
LEMMA UsedBound ==
  ASSUME NEW U \in SUBSET (Token \X (1 .. Ladder))
  PROVE  /\ IsFiniteSet(U) /\ Cardinality(U) \in Nat
         /\ Cardinality(U) <= Ladder * Cardinality(Token)
  <1> USE PlanningConstants, FiniteTokens
  <1>1. IsFiniteSet(1 .. Ladder) /\ Cardinality(1 .. Ladder) = Ladder
    <2>1. IsFiniteSet(1 .. Ladder) BY FS_Interval
    <2>2. Cardinality(1 .. Ladder) = IF 1 > Ladder THEN 0 ELSE Ladder - 1 + 1 BY FS_Interval
    <2> QED BY <2>1, <2>2
  <1>2. /\ IsFiniteSet(Token \X (1 .. Ladder))
        /\ Cardinality(Token \X (1 .. Ladder)) = Cardinality(Token) * Ladder
    BY <1>1, FS_Product
  <1>3. IsFiniteSet(U) /\ Cardinality(U) <= Cardinality(Token \X (1 .. Ladder))
    BY <1>2, FS_Subset
  <1>4. Cardinality(Token) \in Nat /\ Cardinality(U) \in Nat
    BY <1>3, FS_CardinalityType
  <1> QED BY <1>2, <1>3, <1>4

\* Escalations are not forgotten.
LEMMA UsedGrows ==
  ASSUME Types, Types', \A t \in Token, i \in Steps : Spent(job[t], i) <= Spent(job'[t], i),
         NEW i \in Steps
  PROVE  /\ Used(i) \subseteq Used(i)' /\ Cardinality(Used(i)) <= Cardinality(Used(i)')
  <1>1. ASSUME NEW t \in Token, NEW k \in 1 .. Ladder, k <= Spent(job[t], i)
        PROVE  k <= Spent(job'[t], i)
    <2>1. Spent(job[t], i) \in Nat BY SpentNat
    <2>2. Spent(job'[t], i) \in Nat
      <3>1. job'[t].rung \in Nat BY DEF Types, Job
      <3> QED BY <3>1, PlanningConstants DEF Spent
    <2> QED BY <1>1, <2>1, <2>2
  <1>2. Used(i) \subseteq Used(i)' BY <1>1 DEF Used
  <1>3. Used(i)' \in SUBSET (Token \X (1 .. Ladder)) BY DEF Used
  <1>4. IsFiniteSet(Used(i)') BY <1>3, UsedBound
  <1> QED BY <1>2, <1>4, FS_Subset

\* A step that gives no attempt and makes no worker forget its escalations.
LEMMA AttemptsKept ==
  ASSUME IInv, IInv', Attempts, repairs \in Nat, repairs' = repairs, attempt' = attempt,
         \A t \in Token, i \in Steps : Spent(job[t], i) <= Spent(job'[t], i)
  PROVE  Attempts'
  <1> SUFFICES ASSUME NEW i \in Steps
               PROVE  /\ attempt'[i] \in Nat \ {0}
                      /\ attempt'[i] <= 1 + repairs' + Cardinality(Used(i)')
    BY DEF Attempts
  <1>1. Cardinality(Used(i)) <= Cardinality(Used(i)') BY UsedGrows DEF IInv
  <1>2. Used(i) \in SUBSET (Token \X (1 .. Ladder)) BY DEF Used
  <1>3. Used(i)' \in SUBSET (Token \X (1 .. Ladder)) BY DEF Used
  <1>4. Cardinality(Used(i)) \in Nat /\ Cardinality(Used(i)') \in Nat
    BY <1>2, <1>3, UsedBound
  <1> QED BY <1>1, <1>4 DEF Attempts

\* A repair gives one attempt, for one repair more or one escalation more.
LEMMA AttemptsRepair ==
  ASSUME IInv, IInv', BInv, NEW t \in Token, Repair(t),
         \A u \in Token, i \in Steps : Spent(job[u], i) <= Spent(job'[u], i)
  PROVE  Attempts'
  <1> SUFFICES ASSUME NEW i \in Steps
               PROVE  /\ attempt'[i] \in Nat \ {0}
                      /\ attempt'[i] <= 1 + repairs' + Cardinality(Used(i)')
    BY DEF Attempts
  <1>1. /\ Used(i) \subseteq Used(i)' /\ Cardinality(Used(i)) <= Cardinality(Used(i)')
    BY UsedGrows DEF IInv
  <1>2. Used(i) \in SUBSET (Token \X (1 .. Ladder)) BY DEF Used
  <1>3. Used(i)' \in SUBSET (Token \X (1 .. Ladder)) BY DEF Used
  <1>4. /\ IsFiniteSet(Used(i)) /\ Cardinality(Used(i)) \in Nat
        /\ IsFiniteSet(Used(i)') /\ Cardinality(Used(i)') \in Nat
    BY <1>2, <1>3, UsedBound
  <1>5. /\ attempt[i] \in Nat \ {0} /\ attempt[i] <= 1 + repairs + Cardinality(Used(i))
        /\ repairs \in Nat /\ attempt \in [Steps -> Nat]
    BY PlanningConstants DEF BInv, Attempts
  <1>6. /\ attempt' = [attempt EXCEPT ![job[t].seq] = @ + 1]
        /\ repairs' \in Nat /\ repairs' >= repairs
    BY <1>5, RepairOnward, PlanningConstants
  <1>7. CASE i # job[t].seq BY <1>1, <1>4, <1>5, <1>6, <1>7
  <1>8. CASE i = job[t].seq
    <2>1. attempt'[i] = attempt[i] + 1 BY <1>5, <1>6, <1>8
    <2>2. CASE repairs' = repairs + 1 BY <2>1, <2>2, <1>1, <1>4, <1>5
    <2>3. CASE repairs' # repairs + 1
      <3> DEFINE x == <<t, job[t].rung + 1>>
      <3>1. /\ job[t].rung + 1 \in 1 .. Ladder /\ Spent(job[t], i) = job[t].rung
            /\ Spent(job'[t], i) = job[t].rung + 1 /\ job[t].rung \in Nat
        BY <1>8, <2>3, RepairOnward DEF IInv, Types, Job
      <3>2. x \notin Used(i) /\ x \in Used(i)' BY <3>1 DEF Used
      <3>3. Used(i) \cup {x} \subseteq Used(i)' BY <1>1, <3>2
      <3>4. /\ Cardinality(Used(i) \cup {x}) = Cardinality(Used(i)) + 1
        BY <1>4, <3>2, FS_AddElement
      <3>5. Cardinality(Used(i)) + 1 <= Cardinality(Used(i)')
        BY <1>4, <3>3, <3>4, FS_Subset
      <3> QED BY <1>4, <1>5, <1>6, <2>1, <3>5
    <2> QED BY <2>2, <2>3
  <1> QED BY <1>7, <1>8

\* A step that changes no attempt, no repair, no cancel request and no bound.
LEMMA BoundsKept ==
  ASSUME IInv, IInv', BInv, UNCHANGED <<repairs, attempt, cancel, crashes>>,
         \A t \in Token : Onward(t)
  PROVE  BInv'
  <1>1. Attempts'
    <2>1. repairs \in Nat BY PlanningConstants DEF BInv
    <2> QED BY <2>1, AttemptsKept DEF BInv, Onward
  <1>2. \A t \in Token : Staged(job'[t]) BY DEF Onward
  <1> QED BY <1>1, <1>2 DEF BInv, CancelTypes

\* Whoever takes no step stays as it is.
LEMMA StayOnward ==
  ASSUME Types, NEW t \in Token, Staged(job[t]), job'[t] = job[t]
  PROVE  Onward(t)
  <1>1. \A i \in Steps : Spent(job[t], i) \in Nat BY SpentNat
  <1> QED BY <1>1 DEF Onward

\* The bounds over the steps of a worker.
LEMMA WorkBounds ==
  ASSUME IInv, IInv', BInv, NEW t \in Token, Work(t)
  PROVE  BInv'
  <1>1. \A u \in Token \ {t} : job'[u] = job[u]
    BY WorkEffect DEF Effect, JobEffect, IInv, Types
  <1>2. \A u \in Token \ {t} : Onward(u) BY <1>1, StayOnward DEF IInv, BInv
  <1>3. UNCHANGED <<cancel, crashes>>
    BY DEF Work, Submit, Refuse, Begin, Enter, Boundary, BuildContext, CheckHash, Load, Renew,
           Look, Raise, Fail, StartStep, ResumeStep, Check, Call, Return, RetryBudgetSpent,
           Settle, RecordSuccess, RecordFailure, Repair, After, Propose, Finish, Complete
  <1>4. Staged(job[t]) BY DEF BInv
  <1>5. CASE Repair(t)
    <2>1. Onward(t) BY <1>5, RepairOnward
    <2>2. \A u \in Token : Onward(u) BY <1>2, <2>1
    <2>3. Attempts' BY <1>5, <2>2, AttemptsRepair DEF Onward
    <2>4. repairs' \in 0 .. RepairBudget BY <1>5, RepairOnward
    <2>5. attempt' \in [Steps -> Nat]
      BY <1>5, RepairOnward DEF BInv
    <2> QED BY <1>3, <2>2, <2>3, <2>4, <2>5 DEF BInv, CancelTypes, Onward
  <1>6. CASE ~ Repair(t)
    <2>1. Onward(t) /\ UNCHANGED <<repairs, attempt>>
      BY <1>4, <1>6, EntryOnward, LoopOnward DEF Work
    <2>2. \A u \in Token : Onward(u) BY <1>2, <2>1
    <2> QED BY <1>3, <2>1, <2>2, BoundsKept
  <1> QED BY <1>5, <1>6

\* The bounds over the steps of the others.
LEMMA OtherBounds ==
  ASSUME IInv, IInv', BInv,
         \/ \E t \in Token : Claim(t)
         \/ \E c \in Canceler : CancelReads(c) \/ CancelWrites(c)
         \/ EditStory \/ LeaseExpires \/ Crash \/ UNCHANGED vars
  PROVE  BInv'
  <1> USE PlanningConstants
  <1>0. job \in [Token -> Job] /\ \A t \in Token : Staged(job[t]) BY DEF IInv, Types, BInv
  <1>1. ASSUME job' = job PROVE \A t \in Token : Onward(t)
    BY <1>0, <1>1, StayOnward DEF IInv
  <1>2. ASSUME NEW t \in Token, Claim(t) PROVE BInv'
    <2> DEFINE place == IF t \in SyncToken THEN "queued" ELSE "claimed"
    <2>1. /\ job' = [job EXCEPT ![t].pc = place] /\ place \in {"queued", "claimed"}
          /\ job[t].pc = "idle" /\ UNCHANGED <<repairs, attempt, cancel, crashes>>
      BY <1>2 DEF Claim, Goto, At, plan
    <2> HIDE DEF place
    <2>2. /\ job'[t].pc = place /\ job'[t].seq = job[t].seq /\ job'[t].rung = job[t].rung
          /\ job'[t].phase = job[t].phase /\ \A u \in Token \ {t} : job'[u] = job[u]
          /\ job[t].rung \in Nat /\ job[t].seq \in Nat
      BY <1>0, <2>1 DEF Job
    <2>3. Onward(t) BY <1>0, <2>1, <2>2 DEF Onward, Staged, Spent, Steps
    <2>4. \A u \in Token : Onward(u) BY <1>0, <2>2, <2>3, StayOnward DEF IInv
    <2> QED BY <2>1, <2>4, BoundsKept
  <1>3. ASSUME NEW c \in Canceler, CancelReads(c) PROVE BInv'
    <2>1. UNCHANGED <<job, repairs, attempt, crashes>> BY <1>3 DEF CancelReads, db, run, plan
    <2>2. CancelTypes' BY <1>3 DEF CancelReads, CancelTypes, BInv, IInv, Types
    <2>3. Attempts' BY <1>1, <2>1, AttemptsKept DEF BInv, Onward
    <2> QED BY <1>0, <2>1, <2>2, <2>3 DEF BInv
  <1>4. ASSUME NEW c \in Canceler, CancelWrites(c) PROVE BInv'
    <2>1. UNCHANGED <<job, repairs, attempt, crashes>>
      BY <1>4 DEF CancelWrites, Transition, Terminal
    <2>2. CancelTypes' BY <1>4 DEF CancelWrites, CancelTypes, BInv
    <2>3. Attempts' BY <1>1, <2>1, AttemptsKept DEF BInv, Onward
    <2> QED BY <1>0, <2>1, <2>2, <2>3 DEF BInv
  <1>5. CASE Crash
    <2>1. UNCHANGED <<repairs, attempt, cancel>> BY <1>5 DEF Crash, db, run, plan
    <2>2. crashes < MaxCrashes /\ crashes' = crashes + 1 BY <1>5 DEF Crash
    <2>3. crashes \in 0 .. MaxCrashes BY DEF BInv
    <2>4. UNCHANGED <<repairs, attempt, cancel>> /\ crashes' \in 0 .. MaxCrashes
      BY <2>1, <2>2, <2>3
    <2>5. ASSUME NEW t \in Token PROVE Onward(t)
      <3>1. CASE job'[t] = job[t] BY <1>0, <3>1, StayOnward DEF IInv
      <3>2. CASE job'[t] # job[t]
        <4> DEFINE r == [NewJob EXCEPT !.pc = "dead", !.late = job[t].late]
        <4>1. job'[t] = r BY <1>5, <3>2 DEF Crash
        <4>2. r.pc = "dead" /\ r.seq = 1 /\ r.rung = 0 /\ r.phase = "loop" BY DEF NewJob
        <4>3. /\ job'[t].pc = "dead" /\ job'[t].seq = 1 /\ job'[t].rung = 0
              /\ job'[t].phase = "loop" /\ job[t].rung \in Nat /\ job[t].seq \in Nat
          BY <1>0, <4>1, <4>2 DEF Job
        <4> HIDE DEF r
        <4> QED BY <1>0, <4>3 DEF Onward, Staged, Spent, Steps
      <3> QED BY <3>1, <3>2
    <2>6. repairs \in Nat BY DEF BInv
    <2>7. Attempts' BY <2>4, <2>5, <2>6, AttemptsKept DEF BInv, Onward
    <2> QED BY <2>4, <2>5, <2>7 DEF BInv, CancelTypes, Onward
  <1>6. ASSUME UNCHANGED <<job, repairs, attempt, cancel, crashes>> PROVE BInv'
    BY <1>1, <1>6, BoundsKept
  <1> QED BY <1>2, <1>3, <1>4, <1>5, <1>6 DEF EditStory, LeaseExpires, vars, db, run, plan

\* A run begins within its bounds.
LEMMA InitBounds == Init => BInv
  <1> SUFFICES ASSUME Init PROVE BInv OBVIOUS
  <1> USE PlanningConstants DEF Init
  <1>1. CancelTypes BY DEF CancelTypes, StepStatus
  <1>2. ASSUME NEW t \in Token PROVE Staged(job[t]) BY DEF Staged, NewJob
  <1>3. ASSUME NEW i \in Steps
        PROVE  attempt[i] \in Nat \ {0} /\ attempt[i] <= 1 + repairs + Cardinality(Used(i))
    <2>1. Used(i) \in SUBSET (Token \X (1 .. Ladder)) BY DEF Used
    <2>2. Cardinality(Used(i)) \in Nat BY <2>1, UsedBound
    <2> QED BY <2>2
  <1>4. repairs \in 0 .. RepairBudget /\ crashes \in 0 .. MaxCrashes OBVIOUS
  <1> QED BY <1>1, <1>2, <1>3, <1>4 DEF BInv, Attempts

\* The bounds hold in every reachable state.
LEMMA BoundsInvariant == Spec => []BInv
  <1>1. IInv /\ BInv /\ [Next]_vars => BInv'
    BY StepInv, WorkBounds, OtherBounds DEF Next
  <1> QED BY <1>1, InitBounds, Invariant, PTL DEF Spec

-----------------------------------------------------------------------------
(***************************************************************************)
(* The results.                                                            *)
(***************************************************************************)
\* A run has a claimant exactly while it is running, however it came to its
\* end: by its worker, by a worker that lost it or by a cancel request.
THEOREM LeaseSafety == Spec => []LeaseFollowsRun
  BY Invariant, PTL DEF IInv

\* Every recorded result was planned from the story the run was created for,
\* over edits, crashes and take-overs.
THEOREM StorySafety == Spec => []OneStory
  BY Invariant, PTL DEF IInv

\* The steps of a worker that write the plan or a proposal are at fenced places.
LEMMA WritersFenced ==
  ASSUME NEW t \in Token, Work(t), <<plan, proposals>>' # <<plan, proposals>>
  PROVE  job[t].pc \in Fenced
  <1>1. StartStep(t) \/ Call(t) \/ Settle(t) \/ RecordSuccess(t) \/ RecordFailure(t)
        \/ Repair(t) \/ Propose(t)
    BY DEF Work, Submit, Refuse, Begin, Enter, Boundary, BuildContext, CheckHash, Load, Renew,
           Look, Raise, Fail, ResumeStep, Check, Return, RetryBudgetSpent, After, Finish,
           Complete, db
  <1> QED BY <1>1 DEF StartStep, Call, Settle, RecordSuccess, RecordFailure, Repair, Propose,
                      At, Fenced

LEMMA StepFenced ==
  ASSUME IInv, [Next]_vars
  PROVE  [\A t \in Token : job'[t] # job[t] /\ <<plan, proposals>>' # <<plan, proposals>>
            => token \in {t, NoToken}]_vars
  <1> SUFFICES ASSUME NEW t \in Token, job'[t] # job[t],
                      <<plan, proposals>>' # <<plan, proposals>>
               PROVE  token \in {t, NoToken}
    OBVIOUS
  <1>1. PICK u \in Token : Work(u)
    BY DEF Next, Claim, CancelReads, CancelWrites, EditStory, LeaseExpires, Crash, vars, db
  <1>2. job' = [job EXCEPT ![u] = job'[u]] BY <1>1, WorkEffect DEF Effect, JobEffect
  <1>3. u = t BY <1>2 DEF IInv, Types
  <1>4. job[t].pc \in Fenced BY <1>1, <1>3, WritersFenced
  <1>5. token = t \/ status \in Terminal BY <1>4 DEF IInv, LeaseHeld
  <1> QED BY <1>5 DEF IInv, Types, LeaseFollowsRun, Terminal

\* While the lease is another worker's, a worker records no result, starts no
\* step and files no proposal: whoever takes over plans alone.
THEOREM Fencing == Spec => FencedByLease
  <1>1. IInv /\ [Next]_vars
          => [\A t \in Token : job'[t] # job[t] /\ <<plan, proposals>>' # <<plan, proposals>>
                => token \in {t, NoToken}]_vars
    BY StepFenced
  <1> QED BY <1>1, Invariant, PTL DEF Spec, FencedByLease

\* A worker that returns leaves the run ended, or claimed by another one: it
\* never abandons a run that reads as running in its own name.
THEOREM NoneAbandoned == Spec => []WorkerEndsRun
  <1>1. EndInv => WorkerEndsRun BY DEF EndInv, Ending, EndsRun, WorkerEndsRun, At
  <1> QED BY <1>1, EndInvariant, PTL

\* After the run was ended or taken over a worker makes at most one more call of
\* the provider.
THEOREM CallsAreFenced == Spec => []OneLateCall
  <1>1. IInv /\ EndInv => OneLateCall
    BY DEF EndInv, Ending, LateSound, OneLateCall, IInv, Types, Job
  <1> QED BY <1>1, Invariant, EndInvariant, PTL

\* A proposal rests on an answer to every step, and a completed run on a proposal,
\* over cancels, crashes, repairs and take-overs.
THEOREM ProposalsAreComplete == Spec => []ProposalComplete
  <1>1. LInv => ProposalComplete
    BY DEF LInv, Completed, StepsSound, Answered, ProposalComplete, PlanTypes
  <1> QED BY <1>1, PlanInvariant, PTL

\* A step that was answered is not sent to a provider again.
LEMMA CallUnanswered ==
  ASSUME IInv, LInv, [Next]_vars
  PROVE  [\A t \in Token : job[t].pc # "provider" /\ job'[t].pc = "provider"
            => inv[job[t].seq] # "succeeded"]_vars
  <1> SUFFICES ASSUME NEW t \in Token, job[t].pc # "provider", job'[t].pc = "provider"
               PROVE  inv[job[t].seq] # "succeeded"
    OBVIOUS
  <1>1. job'[t] # job[t] OBVIOUS
  <1>2. PICK u \in Token : Work(u) \/ Claim(u)
    <2>1. ~ Crash
      <3>1. ASSUME Crash PROVE job'[t] = job[t] \/ job'[t].pc = "dead"
        <4> DEFINE Dead == [NewJob EXCEPT !.pc = "dead", !.late = job[t].late]
        <4>1. job'[t] = job[t] \/ job'[t] = Dead BY <3>1 DEF Crash
        <4>2. Dead.pc = "dead" BY DEF NewJob
        <4> HIDE DEF Dead
        <4> QED BY <4>1, <4>2
      <3> QED BY <1>1, <3>1
    <2> QED BY <1>1, <2>1 DEF Next, CancelReads, CancelWrites, EditStory, LeaseExpires, vars, db
  <1>3. job[t] \in Job /\ job \in [Token -> Job] BY DEF IInv, Types
  <1>4. CASE Claim(u)
    <2> DEFINE place == IF u \in SyncToken THEN "queued" ELSE "claimed"
    <2>1. job' = [job EXCEPT ![u].pc = place] /\ place # "provider"
      BY <1>4 DEF Claim, Goto
    <2> HIDE DEF place
    <2> QED BY <1>3, <2>1 DEF Job
  <1>5. CASE Work(u)
    <2>1. u = t
      BY <1>1, <1>5, WorkEffect DEF Effect, JobEffect, IInv, Types
    <2>2. job[t].pc = "call" BY <1>5, <2>1, CallFrom DEF Call, At
    <2> QED BY <2>2 DEF LInv, Sound, Unanswered, Owns, Fenced, Asking
  <1> QED BY <1>2, <1>4, <1>5

\* No step is sent to a provider again once an answer to it was recorded, by
\* whichever worker and after whatever crash or take-over.
THEOREM AnswersAreFinal == Spec => NoCallAfterSuccess
  <1>1. IInv /\ LInv /\ [Next]_vars
          => [\A t \in Token : ~ At(t, "provider") /\ job'[t].pc = "provider"
                => inv[job[t].seq] # "succeeded"]_vars
    BY CallUnanswered DEF At
  <1> QED BY <1>1, Invariant, PlanInvariant, PTL DEF Spec, NoCallAfterSuccess

\* Only a crash between the proposal and the end of the run makes a worker that
\* takes over propose again: a run has one proposal more than crashes at most.
THEOREM ProposedOnce == Spec => []ProposedOncePerLife
  <1>1. LInv /\ OnceInv => ProposedOncePerLife
    BY DEF LInv, PlanTypes, OnceInv, ProposedOncePerLife
  <1> QED BY <1>1, PlanInvariant, OnceInvariant, PTL

\* Type correctness, with the bounds of the counters: a step has no more attempts than
\* the run has repairs and its workers have escalations, which lets it not be retried
\* for ever.
THEOREM TypeCorrect == Spec => []TypeOK
  <1>1. ASSUME IInv, LInv, BInv PROVE TypeOK
    <2> USE PlanningConstants
    <2>1. attempt \in [Steps -> 1 .. MaxAttempt]
      <3>1. ASSUME NEW i \in Steps PROVE attempt[i] \in 1 .. MaxAttempt
        <4>1. Used(i) \in SUBSET (Token \X (1 .. Ladder)) BY DEF Used
        <4>2. /\ Cardinality(Used(i)) \in Nat
              /\ Cardinality(Used(i)) <= Ladder * Cardinality(Token)
          BY <4>1, UsedBound
        <4>3. Ladder * Cardinality(Token) \in Nat BY FiniteTokens, FS_CardinalityType
        <4>4. /\ attempt[i] \in Nat \ {0} /\ attempt[i] <= 1 + repairs + Cardinality(Used(i))
              /\ repairs \in Nat /\ repairs <= RepairBudget
          BY <1>1 DEF BInv, Attempts
        <4> HIDE DEF Used
        <4> QED BY <4>2, <4>3, <4>4 DEF MaxAttempt
      <3> QED BY <1>1, <3>1 DEF BInv
    <2>2. ASSUME NEW t \in Token
          PROVE  job[t] \in [pc : Places, phase : {"loop", "call", "settle"},
                        seq : 1 .. NSteps + 1, seen : RunStatus, head : StepStatus,
                        context : Content, rung : 0 .. Ladder,
                        result : {"none", "ok", "invalid", "transport"}, late : Nat]
      BY <1>1 DEF IInv, Types, Job, BInv, Staged
    <2>3. inv \in [Steps -> {"none", "pending", "succeeded", "failed", "canceled"}]
          /\ proposals \in Nat
      BY <1>1 DEF LInv, PlanTypes, InvStatus
    <2> QED BY <1>1, <2>1, <2>2, <2>3 DEF TypeOK, IInv, Types, BInv, CancelTypes, Content
  <1> QED BY <1>1, Invariant, PlanInvariant, BoundsInvariant, PTL

-----------------------------------------------------------------------------
(***************************************************************************)
(* The refinement: the engine implements DurableRun.  Who records anything *)
(* is at a fenced place, so the run is held, or it has ended; and it has   *)
(* not been completed, for a worker completes it from a fenced place,      *)
(* where it is alone, and nobody comes to one without a live lease.        *)
(***************************************************************************)
CompletedAlone == status = "completed" => \A t \in Token : job[t].pc \notin Fenced

RInv == IInv /\ LInv /\ BInv /\ CompletedAlone

\* A worker comes to a fenced place from one, or with its lease.
LEMMA FencedFrom ==
  ASSUME IInv, NEW t \in Token, Work(t), job'[t].pc \in Fenced
  PROVE  job[t].pc \in Fenced \/ Holds(t)
  <1> SUFFICES ASSUME job[t].pc \notin Fenced, ~ Holds(t) PROVE FALSE OBVIOUS
  <1> USE DEF At, Goto, Remember, Fenced
  <1>1. job[t] \in Job /\ job \in [Token -> Job] BY DEF IInv, Types
  <1>2. ~ Leave(t, "done") /\ ~ Leave(t, "refused")
    BY LeftJob DEF IInv, Places
  <1>3. \A seen : ~ FailRun(t, seen) BY <1>2 DEF FailRun
  <1>4. ~ (Submit(t) \/ Refuse(t) \/ Begin(t) \/ Enter(t) \/ Boundary(t) \/ BuildContext(t)
           \/ CheckHash(t) \/ Load(t) \/ Renew(t) \/ RetryBudgetSpent(t) \/ Fail(t))
    BY <1>1, <1>2, <1>3
    DEF Submit, Refuse, Begin, Enter, Boundary, BuildContext, CheckHash, Load, Renew,
        RetryBudgetSpent, Fail, NotLeased, Job
  <1>5. ~ Return(t) BY <1>1 DEF Return, Job
  <1>6. ~ After(t) BY <1>1, <1>2 DEF After, Job
  <1>7. ~ (Look(t) \/ StartStep(t) \/ ResumeStep(t) \/ Check(t) \/ Call(t) \/ Settle(t)
           \/ RecordSuccess(t) \/ RecordFailure(t) \/ Repair(t) \/ Propose(t) \/ Finish(t)
           \/ Complete(t))
    BY DEF Look, StartStep, ResumeStep, Check, Call, Settle, RecordSuccess, RecordFailure,
           Repair, Propose, Finish, Complete
  <1>8. ~ Raise(t) BY <1>3 DEF Raise
  <1> QED BY <1>4, <1>5, <1>6, <1>7, <1>8 DEF Work

\* Nobody is at work on a completed run.
LEMMA AloneStep ==
  ASSUME IInv, IInv', LInv, CompletedAlone, [Next]_vars PROVE CompletedAlone'
  <1> SUFFICES ASSUME status' = "completed", NEW u \in Token, job'[u].pc \in Fenced
               PROVE  FALSE
    BY DEF CompletedAlone
  <1> USE DEF CompletedAlone
  <1>1. ASSUME NEW t \in Token, Work(t) PROVE FALSE
    <2>1. \A v \in Token \ {t} : job'[v] = job[v]
      BY <1>1, WorkEffect DEF Effect, JobEffect, IInv, Types
    <2>2. CASE status = "completed"
      <3>1. ~ Holds(t) BY <2>2 DEF Holds
      <3> QED BY <1>1, <2>1, <2>2, <3>1, FencedFrom
    <2>3. CASE status # "completed"
      <3>1. job[t].pc = "complete" BY <1>1, <2>3, WhoCompletes
      <3>2. Leave(t, "done")
        BY <1>1, <3>1 DEF Work, Submit, Refuse, Begin, Enter, Boundary, BuildContext, CheckHash,
             Load, Renew, Look, Raise, Fail, StartStep, ResumeStep, Check, Call, Return,
             RetryBudgetSpent, Settle, RecordSuccess, RecordFailure, Repair, After, Propose,
             Finish, Complete, At
      <3>3. job'[t].pc = "done" BY <3>2, LeftJob DEF IInv, Places
      <3>4. u # t /\ job[u].pc \in Fenced /\ job[t].pc \in Fenced
        BY <2>1, <3>1, <3>3 DEF Fenced
      <3> QED BY <3>4 DEF LInv, OneFenced
    <2> QED BY <2>2, <2>3
  <1>2. ASSUME NEW t \in Token, Claim(t) PROVE FALSE BY <1>2 DEF Claim
  <1>3. ASSUME NEW c \in Canceler, CancelReads(c) \/ CancelWrites(c) PROVE FALSE
    BY <1>3 DEF CancelReads, CancelWrites, Transition, db, run
  <1>4. CASE EditStory \/ LeaseExpires \/ UNCHANGED vars
    BY <1>4 DEF EditStory, LeaseExpires, vars, db, run
  <1>5. CASE Crash
    <2> DEFINE Dead == [NewJob EXCEPT !.pc = "dead", !.late = job[u].late]
    <2>1. job'[u] = job[u] \/ job'[u] = Dead BY <1>5 DEF Crash
    <2>2. Dead.pc = "dead" BY DEF NewJob
    <2> HIDE DEF Dead
    <2> QED BY <1>5, <2>1, <2>2 DEF Crash, db, run, Fenced
  <1> QED BY <1>1, <1>2, <1>3, <1>4, <1>5 DEF Next

\* What the refinement rests on holds in every reachable state.
LEMMA RefinementInvariant == Spec => []RInv
  <1>1. Init => CompletedAlone BY DEF Init, CompletedAlone
  <1>2. IInv /\ LInv /\ CompletedAlone /\ [Next]_vars => CompletedAlone'
    BY StepInv, AloneStep
  <1> QED BY <1>1, <1>2, Invariant, PlanInvariant, BoundsInvariant, PTL DEF Spec, RInv

\* What DurableRun sees of a run that is claimed, over, or neither.
LEMMA StateValues ==
  ASSUME IInv
  PROVE  /\ status = "pending" => StateOf = "waiting"
         /\ status = "running" /\ lease = "live" => StateOf = "held"
         /\ status = "running" /\ lease # "live" => StateOf = "lapsed"
         /\ status = "completed" => StateOf = "completed"
         /\ status \in {"failed", "canceled"} => StateOf = "ended"
         /\ status \in Terminal => token = NoToken
  BY DEF StateOf, IInv, LeaseFollowsRun, Terminal

\* A worker at a fenced place records for a run that is held or has ended.
LEMMA FencedRecords ==
  ASSUME RInv, NEW t \in Token, job[t].pc \in Fenced
  PROVE  Promise!Recording
  <1>1. (status = "running" /\ lease = "live") \/ status \in Terminal
    BY PlanningConstants DEF RInv, IInv, LeaseHeld, LeaseFollowsRun
  <1>2. status # "completed" BY DEF RInv, CompletedAlone
  <1> QED BY <1>1, <1>2, StateValues DEF RInv, Promise!Recording, Terminal

Quiet == UNCHANGED <<StateOf, token, AnsweredSteps, repairs, proposals>>

\* A step that writes no answer, no repair and no proposal goes unseen, or ends the
\* run, or completes it.
LEMMA RunStep ==
  ASSUME RInv, RInv', NEW t \in Token, Work(t), UNCHANGED <<AnsweredSteps, repairs, proposals>>
  PROVE  Quiet \/ Promise!End \/ Promise!Complete
  <1>1. RunEffect BY WorkEffect DEF RInv, Effect
  <1>2. CASE UNCHANGED <<status, token, lease>> BY <1>2 DEF Quiet, StateOf
  <1>3. CASE status' \in {"failed", "canceled"} /\ token' = NoToken
    <2>1. StateOf' = "ended" BY <1>3 DEF StateOf
    <2> QED BY <1>3, <2>1 DEF Promise!End, Promise!Stop, Promise!plan
  <1>4. CASE status' = "completed" /\ token' = NoToken
    <2>1. StateOf' = "completed" BY <1>4 DEF StateOf
    <2>2. CASE status = "completed"
      BY <1>4, <2>1, <2>2, StateValues DEF Quiet, RInv, Terminal
    <2>3. CASE job[t].pc = "complete"
      <3>1. proposals > 0 BY <2>3 DEF RInv, LInv, Sound, AtEnd
      <3>2. Promise!Recording BY <2>3, FencedRecords DEF Fenced
      <3> QED BY <1>4, <2>1, <3>1, <3>2 DEF Promise!Complete, Promise!plan
    <2> QED BY <1>4, <2>2, <2>3, WhoCompletes
  <1> QED BY <1>1, <1>2, <1>3, <1>4 DEF RunEffect, Terminal

\* Writing the invocation of a step that has no answer.
LEMMA AnswerWritten ==
  ASSUME PlanTypes, NEW i \in Steps, NEW b \in InvStatus, inv[i] # "succeeded",
         inv' = [inv EXCEPT ![i] = b]
  PROVE  AnsweredSteps' = IF b = "succeeded" THEN AnsweredSteps \cup {i} ELSE AnsweredSteps
  <1>1. inv'[i] = b /\ \A k \in Steps \ {i} : inv'[k] = inv[k] BY DEF PlanTypes
  <1> QED BY <1>1 DEF AnsweredSteps

\* A worker that asks for a step has found it without an answer.
LEMMA AskedUnanswered ==
  ASSUME RInv, NEW t \in Token, job[t].pc \in Fenced, Asking(t)
  PROVE  /\ job[t].seq \in Steps /\ inv[job[t].seq] # "succeeded" /\ proposals = 0
         /\ inv[job[t].seq] \in InvStatus /\ PlanTypes
  BY DEF RInv, LInv, Sound, Unanswered, Owns, PlanTypes

\* Settling and recording.
LEMMA RecordingSteps ==
  ASSUME RInv, RInv', NEW t \in Token, Work(t),
         Call(t) \/ Settle(t) \/ RecordSuccess(t) \/ RecordFailure(t) \/ Repair(t)
  PROVE  Quiet \/ Promise!Next
  <1> DEFINE i == job[t].seq
  <1>1. job[t].pc \in Fenced /\ Asking(t)
    BY DEF Call, Settle, RecordSuccess, RecordFailure, Repair, At, Fenced, Asking
  <1>2. /\ i \in Steps /\ inv[i] # "succeeded" /\ proposals = 0 /\ inv[i] \in InvStatus
        /\ PlanTypes
    BY <1>1, AskedUnanswered
  <1>3. Promise!Recording BY <1>1, FencedRecords
  <1>4. ASSUME NEW b \in InvStatus, inv' = [inv EXCEPT ![i] = b]
        PROVE  AnsweredSteps' = IF b = "succeeded" THEN AnsweredSteps \cup {i}
                                                   ELSE AnsweredSteps
    BY <1>2, <1>4, AnswerWritten
  <1>5. i \notin AnsweredSteps BY <1>2 DEF AnsweredSteps
  <1>6. UNCHANGED proposals BY DEF Call, Settle, RecordSuccess, RecordFailure, Repair
  <1>7. UNCHANGED inv => UNCHANGED AnsweredSteps BY DEF AnsweredSteps
  <1>8. ASSUME UNCHANGED <<AnsweredSteps, repairs>> PROVE Quiet \/ Promise!Next
    BY <1>6, <1>8, RunStep DEF Promise!Next
  <1>9. ASSUME NEW b \in InvStatus \ {"succeeded"}, inv' = [inv EXCEPT ![i] = b],
               UNCHANGED repairs
        PROVE  Quiet \/ Promise!Next
    BY <1>4, <1>8, <1>9
  <1>10. CASE Call(t)
    <2> DEFINE b == IF inv[i] = "none" THEN "pending" ELSE inv[i]
    <2>1. b \in InvStatus \ {"succeeded"} BY <1>2 DEF InvStatus
    <2>2. inv' = [inv EXCEPT ![i] = b] /\ UNCHANGED repairs BY <1>10 DEF Call, run
    <2> QED BY <1>9, <2>1, <2>2
  <1>11. CASE Settle(t)
    <2> DEFINE b == IF inv[i] = "pending" THEN "canceled" ELSE inv[i]
    <2>1. b \in InvStatus \ {"succeeded"} BY <1>2 DEF InvStatus
    <2>2. UNCHANGED repairs /\ (inv' = [inv EXCEPT ![i] = b] \/ UNCHANGED inv)
      BY <1>11 DEF Settle, run
    <2> QED BY <1>7, <1>8, <1>9, <2>1, <2>2
  <1>12. CASE RecordSuccess(t)
    <2>0. UNCHANGED repairs
      BY <1>12 DEF RecordSuccess, FailRun, Transition, run
    <2>1. CASE UNCHANGED <<status, token, lease>> /\ inv' = [inv EXCEPT ![i] = "succeeded"]
      <3>1. AnsweredSteps' = AnsweredSteps \cup {i} BY <1>4, <2>1 DEF InvStatus
      <3>2. UNCHANGED <<StateOf, token>> BY <2>1 DEF StateOf
      <3>3. Promise!Answer(i)
        BY <1>2, <1>3, <1>5, <1>6, <2>0, <3>1, <3>2 DEF Promise!Answer
      <3> QED BY <1>2, <3>3 DEF Promise!Next
    <2>2. CASE Transition("failed") /\ inv' = [inv EXCEPT ![i] = "succeeded"]
      <3>1. AnsweredSteps' = AnsweredSteps \cup {i} BY <1>4, <2>2 DEF InvStatus
      <3>2. StateOf' = "ended" /\ token' = NoToken
        BY <2>2 DEF StateOf, Transition, Terminal
      <3>3. Promise!Answer(i)
        BY <1>2, <1>3, <1>5, <1>6, <2>0, <3>1, <3>2 DEF Promise!Answer, Promise!Stop
      <3> QED BY <1>2, <3>3 DEF Promise!Next
    <2>3. CASE inv' = [inv EXCEPT ![i] = inv[i]]
      BY <1>2, <1>9, <2>0, <2>3
    <2> QED BY <1>12, <2>1, <2>2, <2>3 DEF RecordSuccess, FailRun, run
  <1>13. CASE RecordFailure(t)
    <2>1. UNCHANGED repairs BY <1>13 DEF RecordFailure, FailRun, Transition, run
    <2>2. inv' = [inv EXCEPT ![i] = "failed"] \/ UNCHANGED inv
      BY <1>13 DEF RecordFailure, plan
    <2> QED BY <1>7, <1>8, <1>9, <2>1, <2>2 DEF InvStatus
  <1>14. CASE Repair(t)
    <2>1. inv' = [inv EXCEPT ![i] = "none"] /\ UNCHANGED <<status, token, lease>>
      BY <1>14 DEF Repair
    <2>2. UNCHANGED <<AnsweredSteps, StateOf, token>>
      BY <1>4, <2>1 DEF InvStatus, StateOf
    <2>3. CASE UNCHANGED repairs BY <1>8, <2>2, <2>3
    <2>4. CASE CanRepair /\ repairs' = repairs + 1
      <3>1. Promise!Repair
        BY <1>2, <1>3, <1>5, <1>6, <2>2, <2>4 DEF Promise!Repair, CanRepair
      <3> QED BY <3>1 DEF Promise!Next
    <2> QED BY <1>14, <2>3, <2>4 DEF Repair
  <1> QED BY <1>10, <1>11, <1>12, <1>13, <1>14

\* A proposal is made when every step has its answer.
LEMMA ProposeStep ==
  ASSUME RInv, NEW t \in Token, Propose(t) PROVE Promise!Propose
  <1>1. job[t].pc = "propose" /\ job[t].seq > NSteps /\ job[t].seq \in Nat
    BY DEF Propose, At, RInv, LInv, Sound, AtEnd, IInv, Types, Job
  <1>2. AnsweredSteps = Steps
    <2>1. ASSUME NEW k \in Steps PROVE inv[k] = "succeeded"
      <3>1. k < job[t].seq BY <1>1, PlanningConstants DEF Steps
      <3> QED BY <1>1, <3>1 DEF RInv, LInv, Sound, Passed, Owns, Fenced, Answered
    <2> QED BY <2>1 DEF AnsweredSteps
  <1>3. Promise!Recording BY <1>1, FencedRecords DEF Fenced
  <1>4. UNCHANGED <<StateOf, token, AnsweredSteps, repairs>>
    BY DEF Propose, run, plan, StateOf, AnsweredSteps
  <1> QED BY <1>2, <1>3, <1>4 DEF Promise!Propose, Propose

\* Every step of the engine is a step of DurableRun or goes unseen.
LEMMA DurableStep ==
  ASSUME RInv, RInv', [Next]_vars PROVE Quiet \/ Promise!Next
  <1>1. ASSUME NEW t \in Token, Work(t) PROVE Quiet \/ Promise!Next
    <2>1. CASE Call(t) \/ Settle(t) \/ RecordSuccess(t) \/ RecordFailure(t) \/ Repair(t)
      BY <1>1, <2>1, RecordingSteps
    <2>2. CASE Propose(t) BY <2>2, ProposeStep DEF Promise!Next
    <2>3. CASE ~ (Call(t) \/ Settle(t) \/ RecordSuccess(t) \/ RecordFailure(t) \/ Repair(t)
                  \/ Propose(t))
      <3>1. UNCHANGED <<inv, repairs, proposals>>
        BY <1>1, <2>3 DEF Work, Submit, Refuse, Begin, Enter, Boundary, BuildContext, CheckHash,
             Load, Renew, Look, Raise, Fail, StartStep, ResumeStep, Check, Return,
             RetryBudgetSpent, After, Finish, Complete, FailRun, Transition, db, run, plan
      <3>2. UNCHANGED AnsweredSteps BY <3>1 DEF AnsweredSteps
      <3> QED BY <1>1, <3>1, <3>2, RunStep DEF Promise!Next
    <2> QED BY <2>1, <2>2, <2>3
  <1>2. ASSUME NEW t \in Token, Claim(t) PROVE Promise!Next
    <2>1. StateOf \in {"waiting", "lapsed"} BY <1>2, StateValues DEF Claim, RInv
    <2>2. StateOf' = "held" /\ token' = t BY <1>2 DEF Claim, StateOf
    <2>3. UNCHANGED <<AnsweredSteps, repairs, proposals>>
      BY <1>2 DEF Claim, plan, AnsweredSteps
    <2>4. Promise!Take(t) BY <2>1, <2>2, <2>3 DEF Promise!Take, Promise!plan
    <2> QED BY <2>4 DEF Promise!Next
  <1>3. ASSUME NEW c \in Canceler, CancelWrites(c) PROVE Promise!Next
    <2>1. StateOf' = "ended" /\ token' = NoToken
      BY <1>3 DEF CancelWrites, Transition, StateOf, Terminal
    <2>2. UNCHANGED <<AnsweredSteps, repairs, proposals>>
      BY <1>3 DEF CancelWrites, Transition, AnsweredSteps
    <2> QED BY <2>1, <2>2 DEF Promise!Next, Promise!End, Promise!Stop, Promise!plan
  <1>4. CASE LeaseExpires
    <2>1. UNCHANGED <<AnsweredSteps, repairs, proposals, token, status>>
      BY <1>4 DEF LeaseExpires, plan, AnsweredSteps
    <2>2. CASE status = "running"
      <3>1. StateOf = "held" /\ StateOf' = "lapsed"
        BY <1>4, <2>1, <2>2 DEF LeaseExpires, StateOf
      <3> QED BY <2>1, <3>1 DEF Promise!Next, Promise!Lapse, Promise!plan
    <2>3. CASE status # "running"
      BY <2>1, <2>3 DEF Quiet, StateOf
    <2> QED BY <2>2, <2>3
  <1>5. ASSUME \/ \E c \in Canceler : CancelReads(c)
               \/ EditStory \/ Crash \/ UNCHANGED vars
        PROVE  Quiet
    BY <1>5 DEF CancelReads, EditStory, Crash, vars, db, run, plan, Quiet, StateOf, AnsweredSteps
  <1> QED BY <1>1, <1>2, <1>3, <1>4, <1>5 DEF Next

\* The refinement: whatever its workers, its requests and the process do, a planning
\* run is a DurableRun: held by one worker at a time, untouched while its lease has
\* lapsed, proposed only with every step answered, and over for good once it is over.
THEOREM EngineKeepsDurableRun == Spec => KeepsDurableRun
  <1>1. Init => Promise!Init
    BY PlanningConstants DEF Init, Promise!Init, StateOf, AnsweredSteps
  <1>2. RInv /\ RInv' /\ [Next]_vars => [Promise!Next]_(Promise!vars)
    BY DurableStep DEF Quiet, Promise!vars, Promise!plan
  <1> QED BY <1>1, <1>2, RefinementInvariant, PTL DEF Spec, KeepsDurableRun, Promise!Spec
=============================================================================
